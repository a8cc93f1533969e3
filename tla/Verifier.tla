--------------------------------- MODULE Verifier ---------------------------------
(***************************************************************************)
(* The deterministic verifier: nimna/execution/verification.py.            *)
(*                                                                         *)
(* A check is [kind, path, want].  "holds" stands for content_matches and  *)
(* json_keys: want is the set of contents that satisfy it.  The evidence   *)
(* is that of the last command that ran, or NoEvidence: the changes and    *)
(* the exit, and, for the properties only, the worlds before and after.    *)
(***************************************************************************)
EXTENDS Observation

CONSTANT NoEvidence

Kinds == {"file_exists", "file_absent", "holds", "exit_code", "delta", "delta_sha", "command"}

Exits == {"zero", "nonzero", "timeout"}

EvidenceOf(w, v, exit) ==
  [before |-> w, after |-> v, exit |-> exit, changes |-> Delta(Snapshot(w), Snapshot(v))]

ChangesAt(ev, p) == {c \in ev.changes : c.path = p}

Says(b) == IF b THEN "ok" ELSE "failed"

(* Without evidence, or none of the path, a check is inconclusive. *)
OnEvidence(k, w, ev) ==
  IF ev = NoEvidence \/ (k.kind = "exit_code" /\ ev.exit = "timeout") THEN "inconclusive"
  ELSE CASE k.kind = "exit_code" -> Says(ev.exit = k.want)
         [] k.kind = "delta"     -> Says(\E c \in ChangesAt(ev, k.path) : c.kind = k.want)
         [] k.kind = "delta_sha" -> IF ChangesAt(ev, k.path) = {} THEN "inconclusive"
                                    ELSE Says(\A c \in ChangesAt(ev, k.path) : Matches(w, c))

(***************************************************************************)
(* What becomes of a check.  status is that of the command a command check *)
(* runs, "refused" for every status in which nothing ran to its end.       *)
(***************************************************************************)
Outcome(k, w, ev, status) ==
  CASE k.kind = "file_exists" -> Says(w[k.path] # Absent)
    [] k.kind = "file_absent" -> Says(w[k.path] = Absent)
    [] k.kind = "holds"       -> Says(w[k.path] \in k.want)
    [] k.kind = "command"     -> CASE status = "zero" -> "ok"
                                   [] status \in {"nonzero", "timeout"} -> "failed"
                                   [] OTHER -> "inconclusive"
    [] OTHER -> OnEvidence(k, w, ev)

(* An empty specification verifies nothing. *)
Settle(outcomes) ==
  CASE "failed" \in outcomes -> "FAIL"
    [] outcomes = {"ok"}     -> "PASS"
    [] OTHER                 -> "INCONCLUSIVE"

VerdictOf(checks, w, ev, status) == Settle({Outcome(k, w, ev, status) : k \in checks})

===================================================================================
