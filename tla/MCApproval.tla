------------------------------ MODULE MCApproval ------------------------------
(***************************************************************************)
(* Two runs of one session, two worker threads, two gated calls of one     *)
(* tool, so that an "always" given for the first skips the second.         *)
(***************************************************************************)
EXTENDS ApprovalProtocol, TLC

CONSTANTS r1, r2, s1, a

MCSessionOf == [r \in Runs |-> s1]
MCToolOf == [c \in Calls |-> a]

Symmetry == Permutations(Handlers) \cup Permutations(Runs)

==============================================================================
