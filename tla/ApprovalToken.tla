---------------------------- MODULE ApprovalToken ----------------------------
(***************************************************************************)
(* What the approval store of nimna promises of one run, apart from how    *)
(* requests, threads and rows bring it about.  A run is driven by one      *)
(* thread or waits for one answer; an answer is consumed once; a gated     *)
(* call runs only against a grant; a run that expired, failed or was lost  *)
(* with the process never moves again.                                     *)
(*                                                                         *)
(* Runs move independently, so a step of the system is a step of any       *)
(* number of runs: a crash loses every driven run at once, and the purge   *)
(* that precedes each request may expire several.                          *)
(***************************************************************************)
EXTENDS Naturals

CONSTANT Runs

VARIABLES
  phase,   \* where each run stands
  grants,  \* how many approvals were consumed for it
  ran      \* how many gated calls it has run on an approval

tokenVars == <<phase, grants, ran>>

Phases == {"new", "driving", "waiting", "granted", "over"}

TokenInit ==
  /\ phase = [r \in Runs |-> "new"]
  /\ grants = [r \in Runs |-> 0]
  /\ ran = [r \in Runs |-> 0]

(***************************************************************************)
(* The moves of one run that touch neither counter.                        *)
(***************************************************************************)
QuietMoves ==
  { <<"new", "driving">>,      \* a chat request starts it
    <<"driving", "waiting">>,  \* it defers a gated call
    <<"waiting", "driving">>,  \* the call was refused: the run goes on
    <<"waiting", "over">>,     \* the approval expired
    <<"driving", "over">>,     \* finished, failed, or the process died
    <<"granted", "over">> }    \* the process died with the grant in hand

Quiet(r) ==
  /\ <<phase[r], phase'[r]>> \in QuietMoves
  /\ grants'[r] = grants[r]
  /\ ran'[r] = ran[r]

Grant(r) ==
  /\ phase[r] = "waiting"
  /\ phase'[r] = "granted"
  /\ grants'[r] = grants[r] + 1
  /\ ran'[r] = ran[r]

RunCall(r) ==
  /\ phase[r] = "granted"
  /\ phase'[r] = "driving"
  /\ grants'[r] = grants[r]
  /\ ran'[r] = ran[r] + 1

Rest(r) ==
  /\ phase'[r] = phase[r]
  /\ grants'[r] = grants[r]
  /\ ran'[r] = ran[r]

TokenNext == \A r \in Runs : Quiet(r) \/ Grant(r) \/ RunCall(r) \/ Rest(r)

TokenSpec == TokenInit /\ [][TokenNext]_tokenVars

==============================================================================
