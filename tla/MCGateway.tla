-------------------------------- MODULE MCGateway --------------------------------
(***************************************************************************)
(* One tool.  Writing asks for confirmation; the rest is allowed.  The     *)
(* second version has a stricter schema than the first, and one that is    *)
(* offered has a schema that is refused.                                   *)
(***************************************************************************)
EXTENDS Gateway, TLC

CONSTANTS tool1, cap, old

MCRequires == [t \in Tools |-> {cap}]

MCRules == <<[effect |-> "REQUIRE_CONFIRMATION", capabilities |-> {}, operation |-> "write",
              resources |-> Resources],
             [effect |-> "ALLOW", capabilities |-> {cap}, operation |-> "*",
              resources |-> {"file", "link"}]>>

Object(fields, at) ==
  [p \in {<<>>} \cup {<<k>> : k \in DOMAIN fields} \cup DOMAIN at |->
     IF p = <<>> THEN Node("object", "-", 0)
     ELSE IF p \in DOMAIN at THEN at[p] ELSE fields[p[1]]]

Elements(n) == [p \in {<<"lines", i>> : i \in {"0", "1"}} |-> Node("integer", "-", n)]

Short == Object("lines" :> Node("array", "-", 2), Elements(0))
Wide == Object("lines" :> Node("array", "-", 2) @@ "mode" :> Node("string", "fast", 4), Elements(0))
MCValues == [short |-> Short, wide |-> Wide]

Loose == <<>> :> [Asks EXCEPT !.type = "object", !.required = {"lines"}]
         @@ <<"others">> :> [Asks EXCEPT !.enum = {"fast", "-"}]
Strict == <<>> :> [Asks EXCEPT !.type = "object", !.closed = TRUE, !.declares = TRUE]
          @@ <<"lines">> :> [Asks EXCEPT !.type = "array", !.items = <<0, 2>>]
          @@ <<"lines", "items">> :> [Asks EXCEPT !.type = "number"]
Wrong == <<>> :> [Asks EXCEPT !.declares = TRUE, !.required = {"lines"}]
MCSchemas == [loose |-> Loose, strict |-> Strict, wrong |-> Wrong]

Good == [byAgent |-> FALSE, sound |-> TRUE, operation |-> "read", resource |-> "file",
         granted |-> {cap}, grant |-> [kind |-> "lapses", consent |-> FALSE], verify |-> TRUE,
         arguments |-> "short"]

MCContexts ==
  {Good,
   [Good EXCEPT !.byAgent = TRUE, !.operation = "write", !.verify = FALSE, !.arguments = "wide"],
   [Good EXCEPT !.resource = "link", !.arguments = "wide"],
   [Good EXCEPT !.resource = "parent"]}

Offer(version, life, files, input) ==
  [version |-> version, life |-> life, files |-> files, input |-> input, output |-> "loose"]

MCOffered ==
  {Offer(1, "ENABLED", TRUE, "loose"), Offer(2, "ENABLED", FALSE, "strict"),
   Offer(2, "REVOKED", TRUE, "loose"), Offer(3, "ENABLED", TRUE, "wrong")}

MCSymmetry == Permutations(Threads)

==================================================================================
