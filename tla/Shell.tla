---------------------------------- MODULE Shell ----------------------------------
(***************************************************************************)
(* What is decided about a shell command before it runs:                   *)
(* nimna/tools/builtin/shell.py.  A command is known by the kinds of the   *)
(* verbs that begin the segments of its pipelines, the kinds of the paths  *)
(* it names, and whether it feeds a shell interpreter.                     *)
(***************************************************************************)
VerbKinds == {"plain", "write", "network", "admin", "destructive"}

Command == [cwd : {"inside", "outside"}, verbs : SUBSET VerbKinds,
            paths : SUBSET {"inside", "outside"}, interpreted : BOOLEAN]

(* Absolute and home paths, ".." and the names of sensitive files. *)
Escapes(c) == "outside" \in c.paths

(* classify_command(): signals only. *)
Classes(c) ==
  {"execute"} \cup (c.verbs \ {"plain"})
  \cup (IF Escapes(c) THEN {"escape"} ELSE {})
  \cup (IF c.interpreted THEN {"network", "escape"} ELSE {})

(* blocked_classes *)
Blocked(c) == Classes(c) \cap {"network", "admin", "destructive", "escape"}

(***************************************************************************)
(* The stages of execute_shell() before the sandbox, in their order.       *)
(***************************************************************************)
Clearance(enabled, consent, c) ==
  CASE ~enabled -> "DENIED"
    [] enabled /\ (c.cwd = "outside" \/ Blocked(c) # {}) -> "POLICY_BLOCKED"
    [] enabled /\ c.cwd = "inside" /\ Blocked(c) = {} ->
         IF consent THEN "clear" ELSE "CONFIRMATION_REQUIRED"

==================================================================================
