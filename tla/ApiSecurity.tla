------------------------------- MODULE ApiSecurity -------------------------------
(***************************************************************************)
(* The configuration of the guard and who a request comes from             *)
(* (api/security.py SecurityConfig, APIGuardMiddleware.authenticate).      *)
(*                                                                         *)
(* A server starts with sound settings only.  With keys it knows a client  *)
(* by its key, from a header or, for a WebSocket, from a sub-protocol;     *)
(* without, which development allows, by its loopback address.             *)
(***************************************************************************)
EXTENDS Integers

CONSTANTS
  Keys, NoKey,    \* texts of keys; none was presented
  Quality,        \* [Keys -> {"odd", "short", "weak", "strong"}]
  Loopback,       \* addresses of clients on the same host
  Remote,         \* the address of any other
  NotANumber      \* a limit that is no integer

Origins == {"origin", "wildcard", "other"}

(* NIMNA_ENV, NIMNA_API_KEY, NIMNA_ALLOWED_ORIGINS and the two limits. *)
Environment ==
  [env : {"production", "development", "unknown"}, keys : SUBSET Keys, origins : SUBSET Origins,
   chats : Int \cup {NotANumber}, sockets : Int \cup {NotANumber}]

(* What a client sends with a request. *)
Credentials ==
  [header : Keys \cup {NoKey}, protocol : Keys \cup {NoKey}, host : Loopback \cup {Remote}]

ASSUME SecurityAssumption ==
  /\ Quality \in [Keys -> {"odd", "short", "weak", "strong"}]
  /\ NoKey \notin Keys \cup Loopback /\ Remote \notin Loopback /\ Keys \cap Loopback = {}
  /\ NotANumber \notin Int

(* Names the buckets and slots go by. *)
Identities == Keys \cup Loopback

KeyAccepted(e, k) == Quality[k] # "odd" /\ (e.env = "production" => Quality[k] = "strong")

LimitAccepted(limit) == limit \in Int /\ limit >= 1

(* from_settings() raises otherwise, and nothing is served. *)
Sound(e) ==
  /\ e.env # "unknown"
  /\ \A k \in e.keys : KeyAccepted(e, k)
  /\ e.env = "production" => e.keys # {}
  /\ e.origins \subseteq {"origin"}
  /\ LimitAccepted(e.chats) /\ LimitAccepted(e.sockets)

(* A header that is there is taken, whatever the sub-protocols say. *)
Presented(c, isSocket) ==
  IF c.header # NoKey \/ ~isSocket THEN c.header ELSE c.protocol

(* identity_for(), or the address. *)
Identity(e, c, isSocket) ==
  IF e.keys # {}
  THEN IF Presented(c, isSocket) \in e.keys THEN Presented(c, isSocket) ELSE NoKey
  ELSE IF c.host \in Loopback THEN c.host ELSE NoKey

===================================================================================
