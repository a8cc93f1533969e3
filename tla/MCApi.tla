---------------------------------- MODULE MCApi ----------------------------------
(***************************************************************************)
(* Two requests.  A tick is ten seconds for the pings.  A server in        *)
(* production with a key, one in development without, and settings that    *)
(* are refused.  Clients with the key in the header or in the              *)
(* sub-protocol, with a wrong header beside it, and without a key.         *)
(***************************************************************************)
EXTENDS ApiServer, TLC

CONSTANTS key, short, local   \* texts of keys, and an address

MCQuality == [k \in Keys |-> IF k = key THEN "strong" ELSE "short"]

Production ==
  [env |-> "production", keys |-> {key}, origins |-> {"origin"}, chats |-> 2, sockets |-> 1]

Development ==
  [env |-> "development", keys |-> {}, origins |-> {}, chats |-> 1, sockets |-> 2]

MCEnvironments ==
  {Production, Development,
   [Production EXCEPT !.keys = {}], [Production EXCEPT !.keys = {key, short}],
   [Production EXCEPT !.origins = {"wildcard"}], [Development EXCEPT !.chats = NotANumber],
   [Development EXCEPT !.sockets = 0], [Development EXCEPT !.env = "unknown"]}

Anonymous == [header |-> NoKey, protocol |-> NoKey, host |-> Remote]

MCClients ==
  {[Anonymous EXCEPT !.header = key], [Anonymous EXCEPT !.protocol = key],
   [Anonymous EXCEPT !.header = short, !.protocol = key],
   [Anonymous EXCEPT !.host = local]}

MCSymmetry == Permutations(Requests)

=================================================================================
