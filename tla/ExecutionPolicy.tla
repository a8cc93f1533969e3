----------------------------- MODULE ExecutionPolicy -----------------------------
(***************************************************************************)
(* Policy, capability catalogue and authorizer of                          *)
(* nimna/execution/policy.py: pure functions of a request.  A request      *)
(* names the capabilities its tool requires, the operation and the         *)
(* resource; a pattern is the set of the resources it matches.             *)
(***************************************************************************)
EXTENDS Naturals, Sequences

CONSTANTS
  Known, Revoked,   \* the capability catalogue
  Rules             \* the rules of the policy in their order

Effects == {"ALLOW", "DENY", "REQUIRE_CONFIRMATION"}

ASSUME PolicyAssumption ==
  /\ Revoked \subseteq Known
  /\ Rules # <<>> /\ \A i \in DOMAIN Rules : Rules[i].effect \in Effects

(***************************************************************************)
(* "link": a name in the workspace that leads out of it; "parent": one     *)
(* with "..": "opaque": an identifier outside the workspace's names, which *)
(* the boundary does not look at.                                          *)
(***************************************************************************)
Resources == {"file", "link", "parent", "opaque", "blank"}
Operations == {"read", "write", "blank"}

(* WorkspaceBoundary.check: containment of what a name resolves to. *)
Contained(resource) == resource # "link"

Malformed(req) == req.resource \in {"parent", "blank"} \/ req.operation = "blank"

(***************************************************************************)
(* A grant of an authorization.  "wrong": malformed, or for another actor, *)
(* tool or policy version; "lapses": it has an expires_at.                 *)
(***************************************************************************)
Grants == [kind : {"absent", "wrong", "standing", "lapses"}, consent : BOOLEAN]

(***************************************************************************)
(* A rule with capabilities matches a request that requires one of them,   *)
(* though it may require others that no rule names.                        *)
(***************************************************************************)
Matches(rule, req) ==
  /\ rule.capabilities = {} \/ rule.capabilities \cap req.capabilities # {}
  /\ rule.operation \in {"*", req.operation}
  /\ req.resource \in rule.resources

Matching(req) == {i \in DOMAIN Rules : Matches(Rules[i], req)}

(* evaluate(): the first rule that matches; DENY when there is none, the   *)
(* resource is outside the boundary or the request is malformed.           *)
Evaluate(req) ==
  IF Malformed(req) \/ ~Contained(req.resource) \/ Matching(req) = {} THEN "DENY"
  ELSE Rules[CHOOSE i \in Matching(req) : \A j \in Matching(req) : i <= j].effect

(* resolve(): no capability that is unknown or revoked, and no others. *)
Resolves(required) == required \subseteq Known \ Revoked

(* Authorizer.check.  Consent is not looked at. *)
Authorizes(grant, expired) == grant.kind = "standing" \/ (grant.kind = "lapses" /\ ~expired)

(* adjudicate(): the whole decision for one request. *)
Adjudicate(req, grant, expired) ==
  CASE ~Resolves(req.capabilities)                  -> "DENY"
    [] Resolves(req.capabilities) /\ ~Authorizes(grant, expired) -> "DENY"
    [] Evaluate(req) = "REQUIRE_CONFIRMATION" /\ ~grant.consent -> "DENY"
    [] OTHER -> Evaluate(req)

=================================================================================
