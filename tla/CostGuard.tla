-------------------------------- MODULE CostGuard --------------------------------
(***************************************************************************)
(* The budget every model request of the process passes through            *)
(* (models/registry.py CostGuard behind models/guarded.py                  *)
(* GovernedModelProvider).  A request is authorized against what is spent  *)
(* and what is reserved, sent, and settled: its reservation is released    *)
(* and its real cost is booked.                                            *)
(*                                                                         *)
(* The guard has no lock and its callers are threads of an executor.  An   *)
(* authorization makes no call between its check and its addition, so no   *)
(* other thread runs between them.  Each of the two updates of settle()    *)
(* calls max() between the read of the counter and the store: what another *)
(* thread stored in between is lost.                                       *)
(*                                                                         *)
(* Money is counted in whole units, and prices are per token.              *)
(* Bounds: the budgets, prices and Usages of an instance.                  *)
(***************************************************************************)
EXTENDS Provider, Integers, FiniteSets, FiniteSetsExt, Functions

CONSTANTS
  Callers,     \* who may have a request under way
  Deployments, \* settings a process is started with, see Settings
  NoPrice,     \* a price that is not set
  Usages,      \* <<input tokens, output tokens>> a request may be estimated at, and
               \* may turn out to have used
  Unmeasured   \* the answer carried no usage, or there was no answer

Settings ==
  [provider : {"mock", "gemini", "other"},
   free : BOOLEAN,             \* the model is one of GEMINI_FREE_TIER_MODELS
   input : Int \cup {NoPrice}, output : Int \cup {NoPrice},
   enabled : BOOLEAN, hard : BOOLEAN, max : Int]

ASSUME GuardAssumption ==
  /\ Deployments \subseteq Settings /\ NoPrice \notin Int
  /\ Usages \subseteq Nat \X Nat /\ Unmeasured \notin Usages

VARIABLES
  policy,      \* the configuration: [provider, enabled, hard, max, cost]
  spent,       \* spent_usd
  reserved,    \* _reserved_usd
  call,        \* caller -> where its request stands
  paid,        \* ghost: the sum of all booked costs
  flaws        \* ghost: "lost" when a store undid another thread's, "dear" when a request
               \* cost more than its estimate, "gap" when a request was authorized while
               \* the cost of another was neither reserved nor booked
guardVars == <<policy, spent, reserved, call, paid, flaws>>

NoCall == [at |-> "idle", tries |-> 0, est |-> 0, cost |-> 0, read |-> 0]

--------------------------------------------------------------------------------
(* The model's prices, and whether the process starts *)

CostProfile(known, input, output) == [known |-> known, input |-> input, output |-> output]

\* for_settings(): prices count when both are given; without any, the mock and the
\* Gemini models that were declared free cost nothing.
ActiveProfile(s) ==
  CASE s.input # NoPrice /\ s.output # NoPrice -> CostProfile(TRUE, s.input, s.output)
    [] s.input = NoPrice /\ s.output = NoPrice
         /\ (s.provider = "mock" \/ (s.provider = "gemini" /\ s.free)) -> CostProfile(TRUE, 0, 0)
    [] OTHER -> CostProfile(FALSE, 0, 0)

FromSettings(s) ==
  [provider |-> s.provider, enabled |-> s.enabled, hard |-> s.hard, max |-> s.max,
   cost |-> ActiveProfile(s)]

ZeroCost(cost) == cost.known /\ cost.input = 0 /\ cost.output = 0

\* Negative prices and budgets are refused.  A positive budget boots; a zero budget
\* only when some request can pass.
Boots(p) ==
  /\ p.max >= 0 /\ p.cost.input >= 0 /\ p.cost.output >= 0
  /\ ~p.enabled \/ ZeroCost(p.cost) \/ p.max > 0 \/ (~p.cost.known /\ ~p.hard)

GuardInit ==
  /\ policy \in {p \in {FromSettings(s) : s \in Deployments} : Boots(p)}
  /\ spent = 0 /\ reserved = 0 /\ paid = 0
  /\ call = [c \in Callers |-> NoCall]
  /\ flaws = {}

--------------------------------------------------------------------------------
(* authorize *)

\* CostProfile.estimate(); unknown prices pass as nothing in soft mode and not at all
\* in hard mode.
Price(usage) == usage[1] * policy.cost.input + usage[2] * policy.cost.output

Estimate(usage) == IF policy.enabled /\ policy.cost.known THEN Price(usage) ELSE 0

FitsSpent(est) == spent + est <= policy.max      \* mutant: what is under way is ignored
Fits(est) == spent + reserved + est <= policy.max

Passes(est) == ~policy.enabled \/ ((policy.cost.known \/ ~policy.hard) /\ Fits(est))

Settled == {"released", "booking"}

Authorize(c) == \E usage \in Usages :
  /\ call[c].at = "idle"
  /\ Passes(Estimate(usage))
  /\ reserved' = reserved + Estimate(usage)
  /\ call' = [call EXCEPT ![c] = [NoCall EXCEPT !.at = "sent", !.tries = 1, !.est = Estimate(usage)]]
  /\ flaws' = flaws \cup (IF \E d \in Callers : call[d].at \in Settled THEN {"gap"} ELSE {})
  /\ UNCHANGED <<policy, spent, paid>>

\* BudgetExceededError: the request is not sent.
Refused(c) ==
  /\ call[c].at = "idle"
  /\ \E usage \in Usages : ~Passes(Estimate(usage))
  /\ UNCHANGED guardVars

--------------------------------------------------------------------------------
(* settle *)

Cost(c, usage) == IF policy.cost.known /\ usage # Unmeasured THEN Price(usage) ELSE call[c].est

\* with_retries(): the reservation stays.
Retry(c, outcome) ==
  /\ call[c].at = "sent" /\ TriedAgain(policy.provider, outcome, call[c].tries)
  /\ call' = [call EXCEPT ![c].tries = @ + 1]
  /\ UNCHANGED <<policy, spent, reserved, paid, flaws>>

\* generate() returns, or raises: settle() reads what is reserved.
Answer(c, outcome, usage) ==
  /\ call[c].at = "sent" /\ ~TriedAgain(policy.provider, outcome, call[c].tries)
  /\ Heard(policy.provider, outcome) = "error" => usage = Unmeasured
  /\ call' = [call EXCEPT ![c].at = "releasing", ![c].tries = 0, ![c].cost = Cost(c, usage),
                          ![c].read = reserved]
  /\ flaws' = flaws \cup (IF Cost(c, usage) > call[c].est THEN {"dear"} ELSE {})
  /\ UNCHANGED <<policy, spent, reserved, paid>>

Overwrites(c, counter) == IF call[c].read # counter THEN {"lost"} ELSE {}

Release(c) ==
  /\ call[c].at = "releasing"
  /\ reserved' = Max({0, call[c].read - call[c].est})
  /\ call' = [call EXCEPT ![c].at = "released"]
  /\ flaws' = flaws \cup Overwrites(c, reserved)
  /\ UNCHANGED <<policy, spent, paid>>

ReadSpent(c) ==
  /\ call[c].at = "released"
  /\ call' = [call EXCEPT ![c].at = "booking", ![c].read = spent]
  /\ UNCHANGED <<policy, spent, reserved, paid, flaws>>

Book(c) ==
  /\ call[c].at = "booking"
  /\ spent' = call[c].read + call[c].cost
  /\ paid' = paid + call[c].cost
  /\ call' = [call EXCEPT ![c] = NoCall]
  /\ flaws' = flaws \cup Overwrites(c, spent)
  /\ UNCHANGED <<policy, reserved>>

Settling(c) == Release(c) \/ ReadSpent(c)

--------------------------------------------------------------------------------
(* Properties *)

GuardTypeOK ==
  /\ policy \in {FromSettings(s) : s \in Deployments}
  /\ spent \in Nat /\ reserved \in Nat /\ paid \in Nat
  /\ call \in [Callers -> [at : {"idle", "sent", "releasing", "released", "booking"},
                           tries : 0 .. Attempts, est : Nat, cost : Nat, read : Nat]]
  /\ flaws \subseteq {"lost", "dear", "gap"}

Charged(field, places) ==
  SumFunction([c \in Callers |-> IF call[c].at \in places THEN call[c][field] ELSE 0])

(***************************************************************************)
(* As long as no update was lost, the counters say what happened: spent_usd *)
(* is what the settled requests cost and _reserved_usd what those under    *)
(* way may cost.  As long as no request was authorized inside another's    *)
(* settle() and none cost more than estimated, an enabled guard keeps its  *)
(* promise: what is spent, being settled and under way fits the budget     *)
(* ("Hard request budget", registry.py CostGuard).                         *)
(***************************************************************************)
BudgetHolds ==
  /\ "lost" \notin flaws =>
       /\ spent = paid
       /\ reserved = Charged("est", {"sent", "releasing"})
  /\ policy.enabled /\ flaws = {} =>
       spent + reserved + Charged("cost", Settled) <= policy.max

=================================================================================
