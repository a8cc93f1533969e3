--------------------------------- MODULE MCArena ---------------------------------
(***************************************************************************)
(* The two programs under scripts/ that report on the arena: the suite and *)
(* the evaluation of a pull request.  They share nothing, so that either   *)
(* is run while the other has not started.                                 *)
(*                                                                         *)
(* The suite: three paths; the task expects its artifact at path 3 and has *)
(* it verified; its earlier rows are of both modes, with and without       *)
(* scores.  The pull requests are those of MCDiff, over one of the ledgers. *)
(***************************************************************************)
EXTENDS Suite, MCDiff, TLC

CONSTANTS text, key, big, bigger   \* contents

MCMeta == [c \in Contents |-> IF c = bigger THEN 2 ELSE IF c = big THEN 3 ELSE 1]

MCOrder == <<"verified">>

Seeded == 1 :> text @@ 2 :> text @@ 3 :> Absent

MCSpec ==
  [t \in {"verified"} |->
     [shell |-> TRUE, seed |-> Seeded, terms |-> 0,
      artifacts |-> {[path |-> 3, want |-> Contents]},
      verify |-> {[kind |-> "delta_sha", path |-> 3, want |-> "none"],
                  [kind |-> "exit_code", path |-> 3, want |-> "zero"],
                  [kind |-> "command", path |-> 3, want |-> "none"]}]]

Plain == [cwd |-> "inside", verbs |-> {"plain"}, paths |-> {"inside"}, interpreted |-> FALSE]

MCCommands == {Plain, [Plain EXCEPT !.verbs = {"network"}], [Plain EXCEPT !.paths = {"outside"}]}

MCUpdates == {3 :> big, 3 :> bigger, 1 :> Absent @@ 2 :> Absent @@ 3 :> text, 1 :> text @@ 2 :> text}

Write == [tool |-> "write_file", path |-> 3, text |-> key, found |-> {}, overwrite |-> FALSE, sections |-> 0]

MCCalls == {Write,
            [Write EXCEPT !.tool = "apply_patch", !.text = text, !.found = {key}, !.sections = 1],
            [Write EXCEPT !.tool = "delete_file"]}

Past(m, score) == [suite |-> NoSuite, task |-> "verified", mode |-> m, score |-> score]

MCModes == {[s \in Suites |-> "live"]}

Single == <<Past("mock", 1000)>>
MCEarlier == {<<Past("live", 750), Past("mock", 250), Past("live", NoScore)>>, Single}

MCSymmetry == Permutations(Suites)

ArenaInit == Init /\ ReportInit

ArenaNext ==
  \/ at = "start" /\ Next /\ UNCHANGED reportVars
  \/ (\A s \in Suites : phase[s] = "new") /\ ledger = Single /\ ReportNext /\ UNCHANGED vars

ArenaSpec == ArenaInit /\ [][ArenaNext]_<<vars, reportVars>>

=================================================================================
