------------------------------- MODULE MCRecovery -------------------------------
(***************************************************************************)
(* What outlives a process: two missions that share a directory of         *)
(* checkpoints, and the audit journal, which two processes write for two   *)
(* sessions.  They share nothing, so that either is run while the other    *)
(* has not started.                                                        *)
(***************************************************************************)
EXTENDS Recovery, AuditLog, TLC

Started(session, run) == [session |-> session, run |-> run, event |-> "started"]

MCLogged == {Started("one", "a"), Started("one", "b"), Started("two", "c")}

MCSymmetry == Permutations(Missions) \cup Permutations(Steps) \cup Permutations(Files)

Untouched ==
  (\A m \in Missions : state[m] = "unknown") /\ (\A f \in Files : disk[f] = "absent") /\ ~late /\ ~replay

KeptInit == Init /\ AuditInit

KeptNext ==
  \/ rows = <<>> /\ lost = {} /\ Quiet /\ Next /\ UNCHANGED auditVars
  \/ Untouched /\ AuditNext /\ UNCHANGED vars

KeptSpec == KeptInit /\ [][KeptNext]_<<vars, auditVars>>

=================================================================================
