------------------------------- MODULE Swarm_proofs -------------------------------
(***************************************************************************)
(* Proofs about a swarm request, for any answers of the model, any number  *)
(* of steps and any prices and budget: what the guard's counters say of    *)
(* the budget, that _batches orders every plan and execute works through   *)
(* it, and that the threads of a swarm that is not parallel never race in  *)
(* the guard.                                                              *)
(***************************************************************************)
EXTENDS Swarm, FoldFacts, FiniteSetTheorems, WellFoundedInduction, TLAPS

-----------------------------------------------------------------------------
(***************************************************************************)
(* Sums                                                                    *)
(***************************************************************************)
Choice(s) == CHOOSE x \in s : TRUE
chosen(S) == [s \in SUBSET S |-> Choice(s)]

LEMMA Chosen ==
  ASSUME NEW S
  PROVE  Picks(chosen(S), S) /\ \A s \in SUBSET S : chosen(S)[s] = Choice(s)
<1>1. \A s : s # {} => Choice(s) \in s
  BY DEF Choice
<1> QED BY <1>1 DEF Picks, chosen

SumsUp(g, S, fun) ==
  /\ SumFunction(fun) = g[S]
  /\ \A s \in SUBSET S : g[s] = IF s = {} THEN 0 ELSE fun[Choice(s)] + g[s \ {Choice(s)}]

LEMMA SumFolds ==
  ASSUME NEW S, IsFiniteSet(S), NEW fun \in [S -> Int]
  PROVE  \E g : SumsUp(g, S, fun)
<1> DEFINE f == [p \in S \X Int |-> fun[p[1]] + p[2]]
           IsSum(g) == g = [s \in SUBSET S |-> IF s = {} THEN 0 ELSE LET x == Choice(s) IN fun[x] + g[s \ {x}]]
           iter == CHOOSE g : IsSum(g)
<1>1. \A s \in SUBSET S : s # {} => Choice(s) \in s
  BY DEF Choice
<1>2. f \in [S \X Int -> Int] /\ \A x \in S, n \in Int : f[<<x, n>>] = fun[x] + n
  OBVIOUS
<1> HIDE DEF f
<1>3. PICK g : IsFold(g, S, Int, 0, f, chosen(S))
  <2>1. 0 \in Int /\ f \in [S \X Int -> Int] /\ IsFiniteSet(S)
    BY <1>2
  <2> QED BY <2>1, Chosen, FoldExists, Zenon
<1>4. \A s \in SUBSET S : g[s] = IF s = {} THEN 0 ELSE fun[Choice(s)] + g[s \ {Choice(s)}]
  <2>1. ASSUME NEW s \in SUBSET S, s # {} PROVE g[s] = fun[Choice(s)] + g[s \ {Choice(s)}]
    <3>1. Choice(s) \in S /\ s \ {Choice(s)} \in SUBSET S
      BY <1>1, <2>1
    <3>2. g[s \ {Choice(s)}] \in Int
      BY <1>3, <3>1 DEF IsFold
    <3>3. g[s] = f[<<Choice(s), g[s \ {Choice(s)}]>>]
      BY <1>3, <2>1, Chosen DEF IsFold
    <3> QED BY <1>2, <3>1, <3>2, <3>3
  <2> QED BY <1>3, <2>1 DEF IsFold
<1>5. IsSum(g)
  <2>1. g = [s \in SUBSET S |-> g[s]]
    BY <1>3 DEF IsFold
  <2> QED BY <1>4, <2>1
<1>6. IsSum(iter)
  BY <1>5
<1>7. SumFunction(fun) = iter[S]
  BY DEF SumFunction, SumFunctionOnSet, FoldFunctionOnSet, MapThenFoldSet, Choice
<1> HIDE DEF iter
<1>8. SumsUp(iter, S, fun)
  BY <1>6, <1>7 DEF SumsUp
<1> QED BY <1>8

LEMMA SumOfNothing ==
  \A S : IsFiniteSet(S) => \A fun \in [S -> Int] : (\A c \in S : fun[c] = 0) => SumFunction(fun) = 0
<1> SUFFICES ASSUME NEW S, IsFiniteSet(S), NEW fun \in [S -> Int], \A c \in S : fun[c] = 0
             PROVE  SumFunction(fun) = 0
  OBVIOUS
<1>1. PICK g : SumsUp(g, S, fun)
  BY SumFolds
<1> DEFINE Z == {s \in SUBSET S : g[s] = 0}
<1>2. {} \in Z
  <2>1. g[{}] = 0
    BY <1>1 DEF SumsUp
  <2> QED BY <2>1
<1>3. ASSUME NEW s \in SUBSET S, s # {}, s \ {chosen(S)[s]} \in Z PROVE s \in Z
  <2>1. Choice(s) \in s /\ chosen(S)[s] = Choice(s)
    BY <1>3, Chosen DEF Picks
  <2> QED BY <1>1, <1>3, <2>1 DEF SumsUp
<1> HIDE DEF Z
<1>4. SUBSET S \subseteq Z
  <2>1. Picks(chosen(S), S)
    BY Chosen
  <2> QED BY <1>2, <1>3, <2>1, SubsetInduction
<1>5. S \in Z
  BY <1>4
<1> QED BY <1>1, <1>5 DEF SumsUp, Z

LEMMA SumBounds ==
  \A S : IsFiniteSet(S) => \A fun \in [S -> Nat] :
    SumFunction(fun) \in Nat /\ \A c \in S : fun[c] <= SumFunction(fun)
<1> SUFFICES ASSUME NEW S, IsFiniteSet(S), NEW fun \in [S -> Nat]
             PROVE  SumFunction(fun) \in Nat /\ \A c \in S : fun[c] <= SumFunction(fun)
  OBVIOUS
<1>1. PICK g : SumsUp(g, S, fun)
  BY SumFolds
<1> DEFINE Z == {s \in SUBSET S : g[s] \in Nat /\ \A c \in s : fun[c] <= g[s]}
<1>2. {} \in Z
  <2>1. g[{}] = 0
    BY <1>1 DEF SumsUp
  <2> QED BY <2>1
<1>3. ASSUME NEW s \in SUBSET S, s # {}, s \ {chosen(S)[s]} \in Z PROVE s \in Z
  <2>1. Choice(s) \in s /\ chosen(S)[s] = Choice(s)
    BY <1>3, Chosen DEF Picks
  <2>2. g[s] = fun[Choice(s)] + g[s \ {Choice(s)}] /\ fun[Choice(s)] \in Nat
    BY <1>1, <1>3, <2>1 DEF SumsUp
  <2>3. g[s \ {Choice(s)}] \in Nat /\ \A c \in s \ {Choice(s)} : fun[c] <= g[s \ {Choice(s)}]
    BY <1>3, <2>1
  <2>4. ASSUME NEW c \in s PROVE fun[c] <= g[s]
    <3>1. CASE c = Choice(s)
      BY <2>2, <2>3, <3>1
    <3>2. CASE c # Choice(s)
      <4>1. fun[c] \in Nat /\ fun[c] <= g[s \ {Choice(s)}]
        BY <1>3, <2>3, <3>2
      <4> QED BY <2>2, <2>3, <4>1
    <3> QED BY <3>1, <3>2
  <2>5. g[s] \in Nat
    BY <2>2, <2>3
  <2> QED BY <1>3, <2>4, <2>5
<1> HIDE DEF Z
<1>4. SUBSET S \subseteq Z
  <2>1. Picks(chosen(S), S)
    BY Chosen
  <2> QED BY <1>2, <1>3, <2>1, SubsetInduction
<1>5. S \in Z
  BY <1>4
<1> QED BY <1>1, <1>5 DEF SumsUp, Z

LEMMA SumExcept ==
  \A S : IsFiniteSet(S) => \A fun \in [S -> Int], other \in [S -> Int], c \in S :
    (\A d \in S \ {c} : other[d] = fun[d]) =>
      SumFunction(other) = SumFunction(fun) - fun[c] + other[c]
<1> SUFFICES ASSUME NEW S, IsFiniteSet(S), NEW fun \in [S -> Int], NEW other \in [S -> Int], NEW c \in S,
                    \A d \in S \ {c} : other[d] = fun[d]
             PROVE  SumFunction(other) = SumFunction(fun) - fun[c] + other[c]
  OBVIOUS
<1>1. PICK g : SumsUp(g, S, fun)
  BY SumFolds
<1>2. PICK h : SumsUp(h, S, other)
  BY SumFolds
<1> DEFINE Z == {s \in SUBSET S : g[s] \in Int /\ h[s] = IF c \in s THEN g[s] - fun[c] + other[c] ELSE g[s]}
<1>3. {} \in Z
  BY <1>1, <1>2 DEF SumsUp
<1>4. ASSUME NEW s \in SUBSET S, s # {}, s \ {chosen(S)[s]} \in Z PROVE s \in Z
  <2>1. Choice(s) \in s /\ chosen(S)[s] = Choice(s)
    BY <1>4, Chosen DEF Picks
  <2>2. /\ g[s] = fun[Choice(s)] + g[s \ {Choice(s)}] /\ h[s] = other[Choice(s)] + h[s \ {Choice(s)}]
        /\ fun[Choice(s)] \in Int /\ other[Choice(s)] \in Int /\ fun[c] \in Int /\ other[c] \in Int
    BY <1>1, <1>2, <1>4, <2>1 DEF SumsUp
  <2>3. g[s \ {Choice(s)}] \in Int
    BY <1>4, <2>1
  <2>4. CASE Choice(s) = c
    BY <1>4, <2>1, <2>2, <2>3, <2>4
  <2>5. CASE Choice(s) # c
    <3>1. other[Choice(s)] = fun[Choice(s)] /\ (c \in s <=> c \in s \ {Choice(s)})
      BY <2>1, <2>5
    <3> QED BY <1>4, <2>1, <2>2, <2>3, <3>1
  <2> QED BY <2>4, <2>5
<1> HIDE DEF Z
<1>5. SUBSET S \subseteq Z
  <2>1. Picks(chosen(S), S)
    BY Chosen
  <2> QED BY <1>3, <1>4, <2>1, SubsetInduction
<1>6. S \in Z
  BY <1>5
<1> QED BY <1>1, <1>2, <1>6 DEF SumsUp, Z

-----------------------------------------------------------------------------
(***************************************************************************)
(* The budget                                                              *)
(***************************************************************************)
Fields == {"at", "tries", "est", "cost", "read"}

(* Of the numbers of a request nothing is assumed. *)
IsCall(r) == r = [field \in Fields |-> r[field]]

RequestStep(c) ==
  \/ Authorize(c) \/ Refused(c) \/ Settling(c) \/ Book(c)
  \/ \E outcome \in Outcomes(policy.provider) : Retry(c, outcome)
  \/ \E outcome \in Outcomes(policy.provider), usage \in Usages \cup {Unmeasured} :
       Answer(c, outcome, usage)

Stages == {"idle", "sent", "releasing", "released", "booking"}

Counts(r) == IsCall(r) /\ r.at \in Stages /\ r.est \in Nat /\ r.cost \in Nat /\ r.read \in Nat

(* What the process was started with: prices and a budget of naturals.     *)
PolicyOK ==
  /\ policy.cost.input \in Nat /\ policy.cost.output \in Nat /\ policy.cost.known \in BOOLEAN
  /\ policy.max \in Nat /\ policy.enabled \in BOOLEAN /\ policy.hard \in BOOLEAN

Money == /\ spent \in Nat /\ reserved \in Nat /\ paid \in Nat
         /\ call = [c \in Callers |-> call[c]] /\ \A c \in Callers : Counts(call[c])

Reserved == Charged("est", {"sent", "releasing"})

AsEstimated ==
  "dear" \notin flaws =>
    \A c \in Callers : call[c].at \in {"releasing"} \cup Settled => call[c].cost <= call[c].est

BudgetInv == PolicyOK /\ Money /\ AsEstimated /\ BudgetHolds

(* The part of a request in what is charged. *)
Part(r, field, places) == IF r.at \in places THEN r[field] ELSE 0

LEMMA ChargedParts ==
  ASSUME Money
  PROVE  \A field \in {"est", "cost"} : \A places :
           /\ Charged(field, places) = SumFunction([d \in Callers |-> Part(call[d], field, places)])
           /\ [d \in Callers |-> Part(call[d], field, places)] \in [Callers -> Nat]
<1>1. ASSUME NEW field \in {"est", "cost"}, NEW places, NEW d \in Callers PROVE Part(call[d], field, places) \in Nat
  BY <1>1 DEF Part, Money, Counts
<1> QED BY <1>1 DEF Charged, Part

LEMMA CallersFinite == IsFiniteSet(Callers)
BY SwarmAssumption, FS_Interval

(* When one request moves, what is charged changes by its part. *)
LEMMA ChargedMoves ==
  ASSUME Money, Money', NEW c \in Callers, \A d \in Callers \ {c} : call'[d] = call[d]
  PROVE  \A field \in {"est", "cost"} : \A places :
           /\ Charged(field, places) \in Nat
           /\ Charged(field, places)' =
                Charged(field, places) - Part(call[c], field, places) + Part(call'[c], field, places)
           /\ Part(call[c], field, places) <= Charged(field, places)
<1> SUFFICES ASSUME NEW field \in {"est", "cost"}, NEW places
             PROVE  /\ Charged(field, places) \in Nat
                    /\ Charged(field, places)' =
                         Charged(field, places) - Part(call[c], field, places) + Part(call'[c], field, places)
                    /\ Part(call[c], field, places) <= Charged(field, places)
  OBVIOUS
<1> DEFINE fun == [d \in Callers |-> Part(call[d], field, places)]
           other == [d \in Callers |-> Part(call'[d], field, places)]
<1>1. Charged(field, places) = SumFunction(fun) /\ fun \in [Callers -> Nat]
  BY ChargedParts
<1>2. Charged(field, places)' = SumFunction(other) /\ other \in [Callers -> Nat]
  <2>1. ASSUME NEW d \in Callers PROVE Part(call'[d], field, places) \in Nat
    BY <2>1 DEF Part, Money, Counts
  <2> QED BY <2>1 DEF Charged, Part
<1>3. /\ fun[c] = Part(call[c], field, places) /\ other[c] = Part(call'[c], field, places)
      /\ \A d \in Callers \ {c} : other[d] = fun[d]
  OBVIOUS
<1> HIDE DEF fun, other
<1>4. fun \in [Callers -> Int] /\ other \in [Callers -> Int]
  BY <1>1, <1>2
<1>5. SumFunction(other) = SumFunction(fun) - fun[c] + other[c]
  BY <1>3, <1>4, CallersFinite, SumExcept
<1>6. SumFunction(fun) \in Nat /\ fun[c] <= SumFunction(fun)
  BY <1>1, CallersFinite, SumBounds
<1> QED BY <1>1, <1>2, <1>3, <1>5, <1>6

LEMMA PolicyFacts ==
  ASSUME GuardInit
  PROVE  PolicyOK
<1>1. PICK s \in Deployments : policy = FromSettings(s) /\ Boots(FromSettings(s))
  BY DEF GuardInit
<1>2. /\ s.enabled \in BOOLEAN /\ s.hard \in BOOLEAN /\ s.max \in Int
      /\ s.input \in Int \cup {NoPrice} /\ s.output \in Int \cup {NoPrice}
  BY GuardAssumption DEF Settings
<1>3. /\ policy.enabled = s.enabled /\ policy.hard = s.hard /\ policy.max = s.max
      /\ policy.cost = ActiveProfile(s)
  BY <1>1 DEF FromSettings
<1>4. ActiveProfile(s).input \in Int /\ ActiveProfile(s).output \in Int /\ ActiveProfile(s).known \in BOOLEAN
  BY <1>2 DEF ActiveProfile, CostProfile
<1>5. policy.max >= 0 /\ policy.cost.input >= 0 /\ policy.cost.output >= 0
  BY <1>1 DEF Boots
<1> QED BY <1>2, <1>3, <1>4, <1>5 DEF PolicyOK

LEMMA InitBudget == GuardInit => BudgetInv
<1> SUFFICES ASSUME GuardInit PROVE BudgetInv
  OBVIOUS
<1>1. PolicyOK
  BY PolicyFacts
<1>2. Counts(NoCall) /\ NoCall.at = "idle"
  BY DEF Counts, IsCall, Fields, NoCall, Stages
<1>3. Money /\ \A c \in Callers : call[c] = NoCall
  BY <1>2 DEF GuardInit, Money
<1>4. ASSUME NEW field \in {"est", "cost"}, NEW places, "idle" \notin places PROVE Charged(field, places) = 0
  <2> DEFINE fun == [d \in Callers |-> Part(call[d], field, places)]
  <2>1. Charged(field, places) = SumFunction(fun) /\ fun \in [Callers -> Nat]
    BY <1>3, ChargedParts
  <2>2. \A d \in Callers : fun[d] = 0
    BY <1>2, <1>3, <1>4 DEF Part
  <2> HIDE DEF fun
  <2>3. fun \in [Callers -> Int]
    BY <2>1
  <2> QED BY <2>1, <2>2, <2>3, CallersFinite, SumOfNothing
<1>5. Charged("est", {"sent", "releasing"}) = 0 /\ Charged("cost", Settled) = 0
  BY <1>4 DEF Settled
<1>6. BudgetHolds
  BY <1>1, <1>5 DEF BudgetHolds, GuardInit, PolicyOK
<1>7. AsEstimated
  BY <1>2, <1>3 DEF AsEstimated, Settled
<1> QED BY <1>1, <1>3, <1>6, <1>7 DEF BudgetInv

LEMMA Prices ==
  ASSUME PolicyOK, NEW usage \in Usages
  PROVE  Price(usage) \in Nat /\ Estimate(usage) \in Nat
<1>1. usage[1] \in Nat /\ usage[2] \in Nat
  BY GuardAssumption
<1>2. usage[1] * policy.cost.input \in Nat /\ usage[2] * policy.cost.output \in Nat
  BY <1>1 DEF PolicyOK
<1>3. Price(usage) \in Nat
  BY <1>2 DEF Price
<1> QED BY <1>3 DEF Estimate

(* A request that goes from stage to stage, and what its step does to what is charged. *)
Goes(c, r) ==
  /\ policy' = policy /\ call' = [call EXCEPT ![c] = r] /\ Counts(r)
  /\ spent' \in Nat /\ reserved' \in Nat /\ paid' \in Nat /\ flaws \subseteq flaws'

LEMMA GoesCharged ==
  ASSUME BudgetInv, NEW c \in Callers, NEW r, Goes(c, r)
  PROVE  /\ PolicyOK' /\ Money' /\ call'[c] = r
         /\ Counts(call[c]) /\ \A d \in Callers \ {c} : call'[d] = call[d]
         /\ \A field \in {"est", "cost"} : \A places :
              /\ Charged(field, places) \in Nat
              /\ Charged(field, places)' =
                   Charged(field, places) - Part(call[c], field, places) + Part(r, field, places)
              /\ Part(call[c], field, places) <= Charged(field, places)
         /\ (r.at \in {"releasing"} \cup Settled => "dear" \in flaws' \/ r.cost <= r.est) => AsEstimated'
<1>1. call = [d \in Callers |-> call[d]] /\ \A d \in Callers : Counts(call[d])
  BY DEF BudgetInv, Money
<1>2. call' = [d \in Callers |-> IF d = c THEN r ELSE call[d]]
  BY <1>1 DEF Goes
<1>3. /\ call'[c] = r /\ \A d \in Callers \ {c} : call'[d] = call[d]
      /\ call' = [d \in Callers |-> call'[d]]
  BY <1>2
<1>4. \A d \in Callers : Counts(call'[d])
  BY <1>1, <1>3 DEF Goes
<1>5. PolicyOK' /\ Money'
  BY <1>3, <1>4 DEF Goes, BudgetInv, PolicyOK, Money
<1>6. Money
  BY DEF BudgetInv
<1>7. (r.at \in {"releasing"} \cup Settled => "dear" \in flaws' \/ r.cost <= r.est) => AsEstimated'
  BY <1>3 DEF AsEstimated, BudgetInv, Goes
<1> QED BY <1>1, <1>3, <1>5, <1>6, <1>7, ChargedMoves

LEMMA NothingSettled ==
  ASSUME Money, \A d \in Callers : call[d].at \notin Settled
  PROVE  Charged("cost", Settled) = 0
<1> DEFINE fun == [d \in Callers |-> Part(call[d], "cost", Settled)]
<1>1. Charged("cost", Settled) = SumFunction(fun) /\ fun \in [Callers -> Nat]
  BY ChargedParts
<1>2. \A d \in Callers : fun[d] = 0
  BY DEF Part
<1> HIDE DEF fun
<1>3. fun \in [Callers -> Int]
  BY <1>1
<1> QED BY <1>1, <1>2, <1>3, CallersFinite, SumOfNothing

UnderWay == {"sent", "releasing"}

(* What a step does to the counters, the two sums and the flaws decides.   *)
LEMMA Balances ==
  ASSUME BudgetInv, NEW c \in Callers, NEW r, Goes(c, r),
         r.at \in {"releasing"} \cup Settled => "dear" \in flaws' \/ r.cost <= r.est,
         "lost" \notin flaws' =>
           /\ spent' - spent = paid' - paid
           /\ reserved' - reserved = Part(r, "est", UnderWay) - Part(call[c], "est", UnderWay),
         policy.enabled /\ flaws' = {} =>
           spent' + reserved' + Charged("cost", Settled) - Part(call[c], "cost", Settled)
             + Part(r, "cost", Settled) <= policy.max
  PROVE  BudgetInv'
<1>1. /\ PolicyOK' /\ Money' /\ AsEstimated' /\ policy' = policy
      /\ Charged("est", UnderWay) \in Nat /\ Charged("cost", Settled) \in Nat
      /\ Charged("est", UnderWay)' =
           Charged("est", UnderWay) - Part(call[c], "est", UnderWay) + Part(r, "est", UnderWay)
      /\ Charged("cost", Settled)' =
           Charged("cost", Settled) - Part(call[c], "cost", Settled) + Part(r, "cost", Settled)
  BY GoesCharged DEF Goes
<1>2. /\ spent \in Nat /\ reserved \in Nat /\ paid \in Nat
      /\ spent' \in Nat /\ reserved' \in Nat /\ paid' \in Nat
  BY DEF BudgetInv, Money, Goes
<1>3. \A places : Part(r, "est", places) \in Nat /\ Part(call[c], "est", places) \in Nat
               /\ Part(r, "cost", places) \in Nat /\ Part(call[c], "cost", places) \in Nat
  BY DEF BudgetInv, Money, Goes, Counts, Part
<1>4. "lost" \notin flaws' => spent' = paid' /\ reserved' = Charged("est", UnderWay)'
  <2> SUFFICES ASSUME "lost" \notin flaws' PROVE spent' = paid' /\ reserved' = Charged("est", UnderWay)'
    OBVIOUS
  <2>1. spent = paid /\ reserved = Charged("est", UnderWay)
    BY DEF Goes, BudgetInv, BudgetHolds, UnderWay
  <2> QED BY <1>1, <1>2, <1>3, <2>1
<1>5. policy.enabled /\ flaws' = {} => spent' + reserved' + Charged("cost", Settled)' <= policy'.max
  <2> SUFFICES ASSUME policy.enabled, flaws' = {}
               PROVE  spent' + reserved' + Charged("cost", Settled)' <= policy'.max
    OBVIOUS
  <2>1. policy.max \in Nat
    BY DEF BudgetInv, PolicyOK
  <2> QED BY <1>1, <1>2, <1>3, <2>1
<1>6. BudgetHolds'
  BY <1>1, <1>4, <1>5 DEF BudgetHolds, UnderWay
<1> QED BY <1>1, <1>6 DEF BudgetInv

LEMMA AuthorizeBudget ==
  ASSUME BudgetInv, NEW c \in Callers, Authorize(c)
  PROVE  BudgetInv'
<1>1. PICK usage \in Usages :
        /\ call[c].at = "idle" /\ Passes(Estimate(usage))
        /\ reserved' = reserved + Estimate(usage)
        /\ call' = [call EXCEPT ![c] = [NoCall EXCEPT !.at = "sent", !.tries = 1, !.est = Estimate(usage)]]
        /\ flaws' = flaws \cup (IF \E d \in Callers : call[d].at \in Settled THEN {"gap"} ELSE {})
        /\ UNCHANGED <<policy, spent, paid>>
  BY DEF Authorize
<1> DEFINE est == Estimate(usage)
           r == [NoCall EXCEPT !.at = "sent", !.tries = 1, !.est = est]
<1>2. est \in Nat
  BY Prices DEF BudgetInv
<1>3. /\ spent \in Nat /\ reserved \in Nat /\ paid \in Nat /\ policy.max \in Nat /\ Counts(call[c])
      /\ policy.cost.known \in BOOLEAN
  BY DEF BudgetInv, Money, PolicyOK
<1> HIDE DEF est
<1>4. Counts(r) /\ r.at = "sent" /\ r.est = est
  BY <1>2 DEF Counts, IsCall, Fields, NoCall, Stages
<1>5. call' = [call EXCEPT ![c] = r] /\ reserved' = reserved + est /\ Passes(est)
  BY <1>1 DEF est
<1> HIDE DEF r
<1>6. Goes(c, r)
  <2>1. reserved' \in Nat /\ spent' \in Nat /\ paid' \in Nat
    BY <1>1, <1>2, <1>3, <1>5
  <2>2. flaws \subseteq flaws'
    BY <1>1
  <2> QED BY <1>1, <1>4, <1>5, <2>1, <2>2 DEF Goes
<1>7. /\ Part(r, "est", UnderWay) = est /\ Part(call[c], "est", UnderWay) = 0
      /\ Part(r, "cost", Settled) = 0 /\ Part(call[c], "cost", Settled) = 0
  BY <1>1, <1>4 DEF Part, UnderWay, Settled
<1>8. policy.enabled /\ flaws' = {} => spent' + reserved' + Charged("cost", Settled) <= policy.max
  <2> SUFFICES ASSUME policy.enabled, flaws' = {}
               PROVE  spent' + reserved' + Charged("cost", Settled) <= policy.max
    OBVIOUS
  <2>1. \A d \in Callers : call[d].at \notin Settled
    BY <1>1
  <2>2. Charged("cost", Settled) = 0
    BY <2>1, NothingSettled DEF BudgetInv
  <2>3. spent + reserved + est <= policy.max
    BY <1>5 DEF Passes, Fits
  <2> QED BY <1>1, <1>2, <1>3, <1>5, <2>2, <2>3
<1>9. Charged("cost", Settled) \in Nat
  BY <1>6, GoesCharged
<1>10. policy.enabled /\ flaws' = {} =>
         spent' + reserved' + Charged("cost", Settled) - Part(call[c], "cost", Settled)
           + Part(r, "cost", Settled) <= policy.max
  <2>1. spent' \in Nat /\ reserved' \in Nat
    BY <1>6 DEF Goes
  <2> QED BY <1>7, <1>8, <1>9, <2>1
<1>11. /\ spent' - spent = paid' - paid
       /\ reserved' - reserved = Part(r, "est", UnderWay) - Part(call[c], "est", UnderWay)
  BY <1>1, <1>2, <1>3, <1>5, <1>7
<1>12. r.at \notin {"releasing"} \cup Settled
  BY <1>4 DEF Settled
<1> QED BY <1>6, <1>10, <1>11, <1>12, Balances

LEMMA RetryBudget ==
  ASSUME BudgetInv, NEW c \in Callers, NEW outcome, Retry(c, outcome)
  PROVE  BudgetInv'
<1> DEFINE r == [call[c] EXCEPT !.tries = call[c].tries + 1]
<1>1. /\ call[c].at = "sent" /\ call' = [call EXCEPT ![c] = r]
      /\ UNCHANGED <<policy, spent, reserved, paid, flaws>>
  BY DEF Retry
<1>2. /\ spent \in Nat /\ reserved \in Nat /\ paid \in Nat /\ policy.max \in Nat /\ Counts(call[c])
  BY DEF BudgetInv, Money, PolicyOK
<1>3. Counts(r) /\ r.at = "sent" /\ r.est = call[c].est
  BY <1>1, <1>2 DEF Counts, IsCall, Fields
<1> HIDE DEF r
<1>4. Goes(c, r)
  BY <1>1, <1>2, <1>3 DEF Goes
<1>5. /\ Part(r, "est", UnderWay) = Part(call[c], "est", UnderWay) /\ Part(call[c], "est", UnderWay) \in Nat
      /\ Part(r, "cost", Settled) = 0 /\ Part(call[c], "cost", Settled) = 0
  BY <1>1, <1>2, <1>3 DEF Part, UnderWay, Settled, Counts
<1>6. Charged("cost", Settled) \in Nat
  BY <1>4, GoesCharged
<1>7. policy.enabled /\ flaws = {} => spent + reserved + Charged("cost", Settled) <= policy.max
  BY DEF BudgetInv, BudgetHolds
<1>8. policy.enabled /\ flaws' = {} =>
         spent' + reserved' + Charged("cost", Settled) - Part(call[c], "cost", Settled)
           + Part(r, "cost", Settled) <= policy.max
  BY <1>1, <1>2, <1>5, <1>6, <1>7
<1>9. /\ spent' - spent = paid' - paid
       /\ reserved' - reserved = Part(r, "est", UnderWay) - Part(call[c], "est", UnderWay)
  BY <1>1, <1>2, <1>5
<1>10. r.at \notin {"releasing"} \cup Settled
  BY <1>3 DEF Settled
<1> QED BY <1>4, <1>8, <1>9, <1>10, Balances

LEMMA AnswerBudget ==
  ASSUME BudgetInv, NEW c \in Callers, NEW outcome, NEW usage \in Usages \cup {Unmeasured},
         Answer(c, outcome, usage)
  PROVE  BudgetInv'
<1> DEFINE cost == Cost(c, usage)
           r == [call[c] EXCEPT !.at = "releasing", !.tries = 0, !.cost = cost, !.read = reserved]
<1>1. /\ call[c].at = "sent" /\ call' = [call EXCEPT ![c] = r]
      /\ flaws' = flaws \cup (IF cost > call[c].est THEN {"dear"} ELSE {})
      /\ UNCHANGED <<policy, spent, reserved, paid>>
  BY DEF Answer
<1>2. /\ spent \in Nat /\ reserved \in Nat /\ paid \in Nat /\ policy.max \in Nat /\ Counts(call[c])
      /\ PolicyOK
  BY DEF BudgetInv, Money, PolicyOK
<1>3. cost \in Nat
  <2>1. usage # Unmeasured => Price(usage) \in Nat
    BY <1>2, Prices
  <2> QED BY <1>2, <2>1 DEF Cost, Counts
<1> HIDE DEF cost
<1>4. Counts(r) /\ r.at = "releasing" /\ r.est = call[c].est /\ r.cost = cost
  BY <1>1, <1>2, <1>3 DEF Counts, IsCall, Fields, Stages
<1> HIDE DEF r
<1>5. Goes(c, r)
  BY <1>1, <1>2, <1>4 DEF Goes
<1>6. /\ Part(r, "est", UnderWay) = Part(call[c], "est", UnderWay) /\ Part(call[c], "est", UnderWay) \in Nat
      /\ Part(r, "cost", Settled) = 0 /\ Part(call[c], "cost", Settled) = 0
  BY <1>1, <1>2, <1>4 DEF Part, UnderWay, Settled, Counts
<1>7. Charged("cost", Settled) \in Nat
  BY <1>5, GoesCharged
<1>8. policy.enabled /\ flaws = {} => spent + reserved + Charged("cost", Settled) <= policy.max
  BY DEF BudgetInv, BudgetHolds
<1>9. policy.enabled /\ flaws' = {} =>
         spent' + reserved' + Charged("cost", Settled) - Part(call[c], "cost", Settled)
           + Part(r, "cost", Settled) <= policy.max
  <2>1. flaws' = {} => flaws = {}
    BY <1>1
  <2> QED BY <1>1, <1>2, <1>6, <1>7, <1>8, <2>1
<1>10. /\ spent' - spent = paid' - paid
       /\ reserved' - reserved = Part(r, "est", UnderWay) - Part(call[c], "est", UnderWay)
  BY <1>1, <1>2, <1>6
<1>11. "dear" \in flaws' \/ r.cost <= r.est
  BY <1>1, <1>2, <1>3, <1>4 DEF Counts
<1> QED BY <1>5, <1>9, <1>10, <1>11, Balances

LEMMA MaxOfTwo ==
  \A n \in Int : Max({0, n}) = IF n >= 0 THEN n ELSE 0
<1> SUFFICES ASSUME NEW n \in Int PROVE Max({0, n}) = IF n >= 0 THEN n ELSE 0
  OBVIOUS
<1> DEFINE m == IF n >= 0 THEN n ELSE 0
<1>1. m \in {0, n} /\ \A y \in {0, n} : m >= y
  OBVIOUS
<1>2. \A x \in {0, n} : (\A y \in {0, n} : x >= y) => x = m
  OBVIOUS
<1> HIDE DEF m
<1>3. Max({0, n}) = m
  BY <1>1, <1>2 DEF Max
<1> QED BY <1>3 DEF m

LEMMA ReleaseBudget ==
  ASSUME BudgetInv, NEW c \in Callers, Release(c)
  PROVE  BudgetInv'
<1> DEFINE r == [call[c] EXCEPT !.at = "released"]
           est == call[c].est
<1>1. /\ call[c].at = "releasing" /\ call' = [call EXCEPT ![c] = r]
      /\ reserved' = Max({0, call[c].read - est})
      /\ flaws' = flaws \cup Overwrites(c, reserved)
      /\ UNCHANGED <<policy, spent, paid>>
  BY DEF Release
<1>2. /\ spent \in Nat /\ reserved \in Nat /\ paid \in Nat /\ policy.max \in Nat /\ Counts(call[c])
      /\ est \in Nat /\ call[c].cost \in Nat /\ call[c].read \in Nat
  BY DEF BudgetInv, Money, PolicyOK, Counts
<1>3. Counts(r) /\ r.at = "released" /\ r.est = est /\ r.cost = call[c].cost
  BY <1>2 DEF Counts, IsCall, Fields, Stages
<1> HIDE DEF r
<1>4. reserved' = IF call[c].read - est >= 0 THEN call[c].read - est ELSE 0
  BY <1>1, <1>2, MaxOfTwo
<1>5. Goes(c, r)
  <2>1. reserved' \in Nat
    <3> DEFINE rest == call[c].read - est
    <3>1. rest \in Int /\ reserved' = IF rest >= 0 THEN rest ELSE 0
      BY <1>2, <1>4
    <3> HIDE DEF rest
    <3> QED BY <3>1
  <2>2. flaws \subseteq flaws'
    BY <1>1
  <2> QED BY <1>1, <1>2, <1>3, <2>1, <2>2 DEF Goes
<1>6. /\ Part(r, "est", UnderWay) = 0 /\ Part(call[c], "est", UnderWay) = est
      /\ Part(r, "cost", Settled) = call[c].cost /\ Part(call[c], "cost", Settled) = 0
  BY <1>1, <1>3 DEF Part, UnderWay, Settled
<1>7. Charged("cost", Settled) \in Nat /\ est <= Charged("est", UnderWay)
  BY <1>5, <1>6, GoesCharged
<1>8. "dear" \in flaws' \/ r.cost <= r.est
  BY <1>1, <1>3 DEF BudgetInv, AsEstimated
<1>9. "lost" \notin flaws' => reserved' = reserved - est
  <2> SUFFICES ASSUME "lost" \notin flaws' PROVE reserved' = reserved - est
    OBVIOUS
  <2>1. call[c].read = reserved /\ "lost" \notin flaws
    BY <1>1 DEF Overwrites
  <2>2. reserved = Charged("est", UnderWay)
    BY <2>1 DEF BudgetInv, BudgetHolds, UnderWay
  <2> QED BY <1>2, <1>4, <1>7, <2>1, <2>2
<1>10. "lost" \notin flaws' =>
         /\ spent' - spent = paid' - paid
         /\ reserved' - reserved = Part(r, "est", UnderWay) - Part(call[c], "est", UnderWay)
  BY <1>1, <1>2, <1>6, <1>9
<1>11. policy.enabled /\ flaws' = {} =>
         spent' + reserved' + Charged("cost", Settled) - Part(call[c], "cost", Settled)
           + Part(r, "cost", Settled) <= policy.max
  <2> SUFFICES ASSUME policy.enabled, flaws' = {}
               PROVE  spent' + reserved' + Charged("cost", Settled) - Part(call[c], "cost", Settled)
                        + Part(r, "cost", Settled) <= policy.max
    OBVIOUS
  <2>1. flaws = {} /\ "lost" \notin flaws' /\ "dear" \notin flaws'
    BY <1>1
  <2>2. spent + reserved + Charged("cost", Settled) <= policy.max
    BY <2>1 DEF BudgetInv, BudgetHolds
  <2>3. call[c].cost <= est
    BY <1>3, <1>8, <2>1
  <2> QED BY <1>1, <1>2, <1>6, <1>7, <1>9, <2>1, <2>2, <2>3
<1> QED BY <1>5, <1>8, <1>10, <1>11, Balances

LEMMA ReadSpentBudget ==
  ASSUME BudgetInv, NEW c \in Callers, ReadSpent(c)
  PROVE  BudgetInv'
<1> DEFINE r == [call[c] EXCEPT !.at = "booking", !.read = spent]
<1>1. /\ call[c].at = "released" /\ call' = [call EXCEPT ![c] = r]
      /\ UNCHANGED <<policy, spent, reserved, paid, flaws>>
  BY DEF ReadSpent
<1>2. /\ spent \in Nat /\ reserved \in Nat /\ paid \in Nat /\ policy.max \in Nat /\ Counts(call[c])
      /\ call[c].cost \in Nat
  BY DEF BudgetInv, Money, PolicyOK, Counts
<1>3. Counts(r) /\ r.at = "booking" /\ r.est = call[c].est /\ r.cost = call[c].cost
  BY <1>2 DEF Counts, IsCall, Fields, Stages
<1> HIDE DEF r
<1>4. Goes(c, r)
  BY <1>1, <1>2, <1>3 DEF Goes
<1>5. /\ Part(r, "est", UnderWay) = 0 /\ Part(call[c], "est", UnderWay) = 0
      /\ Part(r, "cost", Settled) = call[c].cost /\ Part(call[c], "cost", Settled) = call[c].cost
  BY <1>1, <1>3 DEF Part, UnderWay, Settled
<1>6. Charged("cost", Settled) \in Nat
  BY <1>4, GoesCharged
<1>7. "dear" \in flaws' \/ r.cost <= r.est
  BY <1>1, <1>3 DEF BudgetInv, AsEstimated, Settled
<1>8. policy.enabled /\ flaws = {} => spent + reserved + Charged("cost", Settled) <= policy.max
  BY DEF BudgetInv, BudgetHolds
<1>9. policy.enabled /\ flaws' = {} =>
         spent' + reserved' + Charged("cost", Settled) - Part(call[c], "cost", Settled)
           + Part(r, "cost", Settled) <= policy.max
  BY <1>1, <1>2, <1>5, <1>6, <1>8
<1>10. /\ spent' - spent = paid' - paid
       /\ reserved' - reserved = Part(r, "est", UnderWay) - Part(call[c], "est", UnderWay)
  BY <1>1, <1>2, <1>5
<1> QED BY <1>4, <1>7, <1>9, <1>10, Balances

LEMMA BookBudget ==
  ASSUME BudgetInv, NEW c \in Callers, Book(c)
  PROVE  BudgetInv'
<1> DEFINE cost == call[c].cost
<1>1. /\ call[c].at = "booking" /\ call' = [call EXCEPT ![c] = NoCall]
      /\ spent' = call[c].read + cost /\ paid' = paid + cost
      /\ flaws' = flaws \cup Overwrites(c, spent)
      /\ UNCHANGED <<policy, reserved>>
  BY DEF Book
<1>2. /\ spent \in Nat /\ reserved \in Nat /\ paid \in Nat /\ policy.max \in Nat /\ Counts(call[c])
      /\ cost \in Nat /\ call[c].read \in Nat
  BY DEF BudgetInv, Money, PolicyOK, Counts
<1>3. Counts(NoCall) /\ NoCall.at = "idle"
  BY DEF Counts, IsCall, Fields, Stages, NoCall
<1>4. Goes(c, NoCall)
  BY <1>1, <1>2, <1>3 DEF Goes
<1>5. /\ Part(NoCall, "est", UnderWay) = 0 /\ Part(call[c], "est", UnderWay) = 0
      /\ Part(NoCall, "cost", Settled) = 0 /\ Part(call[c], "cost", Settled) = cost
  BY <1>1, <1>3 DEF Part, UnderWay, Settled
<1>6. Charged("cost", Settled) \in Nat
  BY <1>4, GoesCharged
<1>7. "lost" \notin flaws' => call[c].read = spent
  BY <1>1 DEF Overwrites
<1>8. "lost" \notin flaws' =>
        /\ spent' - spent = paid' - paid
        /\ reserved' - reserved = Part(NoCall, "est", UnderWay) - Part(call[c], "est", UnderWay)
  BY <1>1, <1>2, <1>5, <1>7
<1>9. policy.enabled /\ flaws = {} => spent + reserved + Charged("cost", Settled) <= policy.max
  BY DEF BudgetInv, BudgetHolds
<1>10. policy.enabled /\ flaws' = {} =>
         spent' + reserved' + Charged("cost", Settled) - Part(call[c], "cost", Settled)
           + Part(NoCall, "cost", Settled) <= policy.max
  <2>1. flaws' = {} => flaws = {} /\ call[c].read = spent
    BY <1>1, <1>7
  <2> QED BY <1>1, <1>2, <1>5, <1>6, <1>9, <2>1
<1>11. NoCall.at \notin {"releasing"} \cup Settled
  BY <1>3 DEF Settled
<1> QED BY <1>4, <1>8, <1>10, <1>11, Balances

LEMMA RestBudget ==
  ASSUME BudgetInv, UNCHANGED guardVars
  PROVE  BudgetInv'
<1>1. \A field \in {"est", "cost"} : \A places : Charged(field, places)' = Charged(field, places)
  BY DEF Charged, guardVars
<1> QED BY <1>1 DEF BudgetInv, PolicyOK, Money, AsEstimated, BudgetHolds, guardVars

LEMMA GuardBudget ==
  ASSUME BudgetInv, NEW c \in Callers, RequestStep(c)
  PROVE  BudgetInv'
BY AuthorizeBudget, RetryBudget, AnswerBudget, ReleaseBudget, ReadSpentBudget, BookBudget, RestBudget
   DEF RequestStep, Settling, Refused

-----------------------------------------------------------------------------
(***************************************************************************)
(* The plan                                                                *)
(***************************************************************************)
Raw == [id : STRING, known : BOOLEAN, deps : Seq(STRING)]
Id == STRING \cup {"t1", "t2", "t3"}
Names == UNION {[D -> Id] : D \in {E \in SUBSET Nat : IsFiniteSet(E)}}
Planned == [id : Id, deps : Names]
Taken == [tasks : Seq(Planned), seen : SUBSET Id]

Sooner(tasks) ==
  \A p \in 1 .. Len(tasks) : \A d \in Range(tasks[p].deps) : \E q \in 1 .. p : tasks[q].id = d

(* What decompose has built from the first raw tasks.                      *)
TakenInv(acc, i) ==
  /\ acc \in Taken /\ Len(acc.tasks) <= i
  /\ \A d \in acc.seen : \E q \in 1 .. Len(acc.tasks) : acc.tasks[q].id = d
  /\ Sooner(acc.tasks)

LEMMA TakeTyped ==
  ASSUME NEW acc \in Taken, NEW raw \in Raw, NEW i \in 1 .. 3
  PROVE  Take(acc, raw, i) \in Taken
<1> DEFINE id == IF raw.id \in acc.seen THEN DefaultId[i] ELSE raw.id
           seen == acc.seen \cup {id}
           kept == {j \in DOMAIN raw.deps : raw.deps[j] \in seen}
           task == [id |-> id, deps |-> [j \in kept |-> raw.deps[j]]]
<1>1. DefaultId[i] \in Id
  <2>1. i = 1 \/ i = 2 \/ i = 3
    OBVIOUS
  <2>2. DefaultId[1] = "t1" /\ DefaultId[2] = "t2" /\ DefaultId[3] = "t3"
    BY DEF DefaultId
  <2>3. {"t1", "t2", "t3"} \subseteq Id
    BY DEF Id
  <2>4. CASE i = 1
    BY <2>2, <2>3, <2>4
  <2>5. CASE i = 2
    BY <2>2, <2>3, <2>5
  <2>6. CASE i = 3
    BY <2>2, <2>3, <2>6
  <2> QED BY <2>1, <2>4, <2>5, <2>6
<1>2. id \in Id /\ seen \in SUBSET Id
  BY <1>1 DEF Raw, Taken, Id
<1>3. kept \in SUBSET Nat /\ IsFiniteSet(kept) /\ \A j \in kept : raw.deps[j] \in STRING
  <2>1. raw.deps \in Seq(STRING)
    BY DEF Raw
  <2>2. Len(raw.deps) \in Nat /\ kept \subseteq 1 .. Len(raw.deps)
    BY <2>1
  <2> HIDE DEF kept
  <2>3. IsFiniteSet(1 .. Len(raw.deps))
    BY <2>2, FS_Interval
  <2>4. IsFiniteSet(kept)
    BY <2>2, <2>3, FS_Subset
  <2>5. kept \subseteq Nat /\ \A j \in kept : raw.deps[j] \in STRING
    BY <2>1, <2>2
  <2> QED BY <2>4, <2>5
<1>4. task \in Planned
  <2>1. [j \in kept |-> raw.deps[j]] \in [kept -> Id]
    BY <1>3 DEF Id
  <2>2. [j \in kept |-> raw.deps[j]] \in Names
    <3> HIDE DEF kept
    <3> QED BY <1>3, <2>1 DEF Names
  <2> QED BY <1>2, <2>2 DEF Planned
<1>5. Take(acc, raw, i) = IF raw.known THEN [tasks |-> Append(acc.tasks, task), seen |-> seen] ELSE acc
  BY DEF Take, RestrictValues, Restrict
<1> HIDE DEF task, seen
<1> QED BY <1>2, <1>4, <1>5 DEF Taken

LEMMA TakeInv ==
  ASSUME NEW i \in 1 .. 3, NEW acc, TakenInv(acc, i - 1), NEW raw \in Raw
  PROVE  TakenInv(Take(acc, raw, i), i)
<1> DEFINE id == IF raw.id \in acc.seen THEN DefaultId[i] ELSE raw.id
           seen == acc.seen \cup {id}
           deps == RestrictValues(raw.deps, LAMBDA d : d \in seen)
           task == [id |-> id, deps |-> deps]
           next == Take(acc, raw, i)
<1>1. acc \in Taken /\ next \in Taken
  BY TakeTyped DEF TakenInv
<1>2. /\ acc.tasks \in Seq(Planned) /\ Len(acc.tasks) \in Nat /\ Len(acc.tasks) <= i - 1
      /\ \A d \in acc.seen : \E q \in 1 .. Len(acc.tasks) : acc.tasks[q].id = d
      /\ Sooner(acc.tasks)
  BY <1>1 DEF TakenInv, Taken
<1>3. CASE ~raw.known
  <2>1. next = acc
    BY <1>3 DEF Take
  <2> QED BY <1>1, <1>2, <2>1 DEF TakenInv
<1>4. CASE raw.known
  <2>1. next = [tasks |-> Append(acc.tasks, task), seen |-> seen]
    BY <1>4 DEF Take
  <2>2. \A d \in Range(deps) : d \in seen
    BY DEF RestrictValues, Restrict, Range
  <2> DEFINE tasks == Append(acc.tasks, task)
             n == Len(acc.tasks)
  <2>3. /\ Len(tasks) = n + 1 /\ tasks[n + 1].id = id /\ tasks[n + 1].deps = deps
        /\ \A q \in 1 .. n : tasks[q] = acc.tasks[q]
    <3> HIDE DEF id, deps
    <3> QED BY <1>2
  <2> HIDE DEF id, deps, task, tasks, next
  <2>4. next.tasks = tasks /\ next.seen = acc.seen \cup {id}
    BY <2>1 DEF tasks
  <2>5. \A d \in next.seen : \E q \in 1 .. Len(tasks) : tasks[q].id = d
    <3>1. ASSUME NEW d \in acc.seen PROVE \E q \in 1 .. Len(tasks) : tasks[q].id = d
      <4>1. PICK q \in 1 .. n : acc.tasks[q].id = d
        BY <1>2
      <4> QED BY <1>2, <2>3, <4>1
    <3>2. n + 1 \in 1 .. Len(tasks)
      BY <1>2, <2>3
    <3> QED BY <2>3, <2>4, <3>1, <3>2
  <2>6. ASSUME NEW p \in 1 .. Len(tasks), NEW d \in Range(tasks[p].deps)
        PROVE  \E q \in 1 .. p : tasks[q].id = d
    <3>1. CASE p = n + 1
      <4>1. d \in next.seen
        BY <2>2, <2>3, <2>4, <2>6, <3>1
      <4> QED BY <2>3, <2>5, <3>1, <4>1
    <3>2. CASE p \in 1 .. n
      <4>1. PICK q \in 1 .. p : acc.tasks[q].id = d
        BY <1>2, <2>3, <2>6, <3>2 DEF Sooner
      <4>2. q \in 1 .. n
        BY <1>2, <3>2
      <4> QED BY <2>3, <4>1, <4>2
    <3> QED BY <1>2, <2>3, <3>1, <3>2
  <2>7. Sooner(tasks)
    BY <2>6 DEF Sooner
  <2>8. Len(tasks) <= i
    BY <1>2, <2>3
  <2>9. TakenInv(next, i)
    BY <1>1, <2>4, <2>5, <2>7, <2>8 DEF TakenInv
  <2> QED BY <2>9 DEF next
<1> QED BY <1>3, <1>4

SoundPlan(tasks) ==
  /\ tasks \in Seq(Planned) /\ Len(tasks) \in 1 .. MaxAgents
  /\ Sooner(tasks)

NothingTaken == [tasks |-> <<>>, seen |-> {}]

(* decompose takes the raw tasks in their order.                           *)
LEMMA AcceptedRuns ==
  ASSUME NEW answer \in Seq(Raw)
  PROVE  \E n, acc :
           /\ n \in 0 .. MaxAgents /\ acc[0] = NothingTaken
           /\ \A i \in 1 .. n : answer[i] \in Raw /\ acc[i] = Take(acc[i - 1], answer[i], i)
           /\ Accepted(answer) = acc[n].tasks
<1> DEFINE n == IF Len(answer) < MaxAgents THEN Len(answer) ELSE MaxAgents
           S == 1 .. n
           IsIter(g) == g = [t \in SUBSET S |-> IF t = {} THEN NothingTaken
                               ELSE LET i == Max(t) IN Take(g[t \ {i}], answer[i], i)]
           iter == CHOOSE g : IsIter(g)
           f == [p \in S \X Taken |-> Take(p[2], answer[p[1]], p[1])]
<1>1. MaxAgents \in 1 .. 3 /\ Len(answer) \in Nat
  BY SwarmAssumption
<1>2. n \in Nat /\ n \in 0 .. MaxAgents /\ n <= Len(answer) /\ Min({MaxAgents, Len(answer)}) = n
  <2>1. n \in {MaxAgents, Len(answer)} /\ \A y \in {MaxAgents, Len(answer)} : n <= y
    BY <1>1
  <2>2. \A x \in {MaxAgents, Len(answer)} : (\A y \in {MaxAgents, Len(answer)} : x <= y) => x = n
    BY <1>1
  <2>3. n \in Nat /\ n \in 0 .. MaxAgents /\ n <= Len(answer)
    BY <1>1
  <2> HIDE DEF n
  <2>4. Min({MaxAgents, Len(answer)}) = n
    BY <2>1, <2>2 DEF Min
  <2> QED BY <2>3, <2>4
<1>3. \A i \in S : answer[i] \in Raw /\ i \in 1 .. 3
  BY <1>1, <1>2
<1>4. NothingTaken \in Taken
  BY DEF NothingTaken, Taken
<1>5. /\ f \in [S \X Taken -> Taken]
      /\ \A i \in S, acc \in Taken : f[<<i, acc>>] = Take(acc, answer[i], i)
  <2>1. \A i \in S, acc \in Taken : Take(acc, answer[i], i) \in Taken
    BY <1>3, TakeTyped
  <2> QED BY <2>1
<1> HIDE DEF f
<1>6. PICK g : IsFold(g, S, Taken, NothingTaken, f, greatest(n))
  <2>1. Picks(greatest(n), S) /\ IsFiniteSet(S)
    BY <1>2, GreatestPicked
  <2> QED BY <1>4, <1>5, <2>1, FoldExists, Zenon
<1>7. IsIter(g)
  <2>1. ASSUME NEW t \in SUBSET S, t # {}
        PROVE  g[t] = Take(g[t \ {Max(t)}], answer[Max(t)], Max(t))
    <3>1. Max(t) \in S /\ greatest(n)[t] = Max(t)
      <4>1. Picks(greatest(n), S) /\ greatest(n)[t] = Max(t)
        BY <1>2, <2>1, GreatestPicked
      <4> QED BY <2>1, <4>1 DEF Picks
    <3>2. g[t \ {Max(t)}] \in Taken
      BY <1>6, <2>1 DEF IsFold
    <3> QED BY <1>5, <1>6, <2>1, <3>1, <3>2 DEF IsFold
  <2>2. g = [t \in SUBSET S |-> g[t]] /\ g[{}] = NothingTaken
    BY <1>6 DEF IsFold
  <2> QED BY <2>1, <2>2
<1>8. IsIter(iter)
  BY <1>7
<1>9. Accepted(answer) = iter[S].tasks
  <2> DEFINE first == SubSeq(answer, 1, n)
             places == [i \in DOMAIN first |-> i]
  <2>1. DOMAIN first = S /\ DOMAIN places = S /\ places = [i \in S |-> i]
    BY <1>1, <1>2
  <2>2. Accepted(answer) = FoldLeft(LAMBDA a, i : Take(a, answer[i], i), NothingTaken, places).tasks
    BY <1>2 DEF Accepted, FoldLeftDomain, NothingTaken
  <2>3. FoldLeft(LAMBDA a, i : Take(a, answer[i], i), NothingTaken, [i \in S |-> i])
          = (CHOOSE h : h = [t \in SUBSET S |-> IF t = {} THEN NothingTaken
               ELSE LET x == Max(t) IN Take(h[t \ {x}], answer[[i \in S |-> i][x]], [i \in S |-> i][x])])[S]
    BY DEF FoldLeft, MapThenFoldSet
  <2> DEFINE IsTwin(h) == h = [t \in SUBSET S |-> IF t = {} THEN NothingTaken
               ELSE LET x == Max(t) IN Take(h[t \ {x}], answer[[i \in S |-> i][x]], [i \in S |-> i][x])]
  <2>4. ASSUME NEW h PROVE IsTwin(h) <=> IsIter(h)
    <3>1. ASSUME NEW t \in SUBSET S, t # {} PROVE [i \in S |-> i][Max(t)] = Max(t)
      <4>1. Max(t) \in S
        BY <1>2, <3>1, GreatestIn
      <4> QED BY <4>1
    <3>2. [t \in SUBSET S |-> IF t = {} THEN NothingTaken
               ELSE LET x == Max(t) IN Take(h[t \ {x}], answer[[i \in S |-> i][x]], [i \in S |-> i][x])]
          = [t \in SUBSET S |-> IF t = {} THEN NothingTaken
               ELSE LET i == Max(t) IN Take(h[t \ {i}], answer[i], i)]
      <4>1. ASSUME NEW t \in SUBSET S, t # {}
            PROVE  Take(h[t \ {Max(t)}], answer[[i \in S |-> i][Max(t)]], [i \in S |-> i][Max(t)])
                     = Take(h[t \ {Max(t)}], answer[Max(t)], Max(t))
        BY <3>1, <4>1
      <4> QED BY <4>1
    <3> QED BY <3>2
  <2> HIDE DEF IsTwin, IsIter
  <2>5. (CHOOSE h : IsTwin(h)) = iter
    BY <2>4
  <2> QED BY <2>1, <2>2, <2>3, <2>5 DEF IsTwin
<1> DEFINE acc == [i \in 0 .. n |-> iter[1 .. i]]
<1> HIDE DEF iter
<1>10. acc[0] = NothingTaken /\ acc[n] = iter[S]
  <2>1. 1 .. 0 = {} /\ 0 \in 0 .. n /\ n \in 0 .. n
    BY <1>2
  <2>2. iter[{}] = NothingTaken
    BY <1>8
  <2> QED BY <2>1, <2>2
<1>11. ASSUME NEW i \in 1 .. n PROVE acc[i] = Take(acc[i - 1], answer[i], i)
  <2>1. i \in 0 .. n /\ i - 1 \in 0 .. n
    BY <1>2, <1>11
  <2>2. 1 .. i \in SUBSET S /\ 1 .. i # {} /\ Max(1 .. i) = i /\ (1 .. i) \ {i} = 1 .. (i - 1)
    BY <1>2, <1>11, GreatestPicked
  <2>3. iter[1 .. i] = Take(iter[1 .. (i - 1)], answer[i], i)
    BY <1>8, <2>2
  <2> QED BY <2>1, <2>3
<1> HIDE DEF acc
<1>12. /\ \A i \in 1 .. n : answer[i] \in Raw /\ acc[i] = Take(acc[i - 1], answer[i], i)
       /\ acc[0] = NothingTaken /\ Accepted(answer) = acc[n].tasks
  BY <1>3, <1>9, <1>10, <1>11
<1> HIDE DEF n
<1> QED BY <1>2, <1>12

(* What decompose makes of an answer, and what it falls back to, depends   *)
(* only on what comes sooner.                                              *)
LEMMA AcceptedSound ==
  ASSUME NEW answer \in Seq(Raw), Accepted(answer) # <<>>
  PROVE  SoundPlan(Accepted(answer))
<1>1. PICK n, acc :
        /\ n \in 0 .. MaxAgents /\ acc[0] = NothingTaken
        /\ \A i \in 1 .. n : answer[i] \in Raw /\ acc[i] = Take(acc[i - 1], answer[i], i)
        /\ Accepted(answer) = acc[n].tasks
  BY AcceptedRuns
<1>2. MaxAgents \in 1 .. 3 /\ n \in 0 .. MaxAgents
  BY <1>1, SwarmAssumption
<1> DEFINE Z == {i \in Nat : i <= n => TakenInv(acc[i], i)}
<1>3. 0 \in Z
  <2>1. NothingTaken \in Taken /\ Len(NothingTaken.tasks) = 0 /\ NothingTaken.seen = {}
    BY DEF NothingTaken, Taken
  <2>2. 1 .. Len(NothingTaken.tasks) = {}
    BY <2>1
  <2>3. Sooner(NothingTaken.tasks)
    BY <2>2 DEF Sooner
  <2>4. TakenInv(NothingTaken, 0)
    BY <2>1, <2>3 DEF TakenInv
  <2> QED BY <1>1, <2>4
<1>4. ASSUME NEW i \in Z PROVE i + 1 \in Z
  <2> SUFFICES ASSUME i + 1 <= n PROVE TakenInv(acc[i + 1], i + 1)
    BY <1>4
  <2>1. i + 1 \in 1 .. 3 /\ i + 1 \in 1 .. n /\ (i + 1) - 1 = i /\ i <= n
    BY <1>2, <1>4
  <2>2. TakenInv(acc[i], (i + 1) - 1)
    BY <1>4, <2>1
  <2>3. answer[i + 1] \in Raw /\ acc[i + 1] = Take(acc[i], answer[i + 1], i + 1)
    BY <1>1, <2>1
  <2> QED BY <2>1, <2>2, <2>3, TakeInv
<1>5. Z = Nat
  <2>1. Z \subseteq Nat
    OBVIOUS
  <2> HIDE DEF Z
  <2> QED BY <1>3, <1>4, <2>1, Counting
<1>6. TakenInv(acc[n], n)
  <2>1. n \in Nat /\ n <= n
    BY <1>2
  <2> QED BY <1>5, <2>1
<1>7. /\ Accepted(answer) \in Seq(Planned) /\ Len(Accepted(answer)) <= n
      /\ Sooner(Accepted(answer))
  BY <1>1, <1>6 DEF TakenInv, Taken
<1>8. Len(Accepted(answer)) \in 1 .. MaxAgents
  BY <1>2, <1>7
<1> QED BY <1>7, <1>8 DEF SoundPlan

LEMMA KeywordSound ==
  ASSUME NEW tasks \in KeywordPlans
  PROVE  SoundPlan(tasks)
<1>1. PICK n \in Positions :
        tasks = [i \in 1 .. n |-> [id |-> DefaultId[i], deps |-> IF i = 1 THEN <<>> ELSE <<DefaultId[i - 1]>>]]
  BY DEF KeywordPlans
<1>2. n \in 1 .. 3 /\ n \in 1 .. MaxAgents
  BY SwarmAssumption DEF Positions
<1>3. \A i \in 1 .. 3 : DefaultId[i] \in Id
  <2>1. DefaultId[1] = "t1" /\ DefaultId[2] = "t2" /\ DefaultId[3] = "t3"
    BY DEF DefaultId
  <2>2. ASSUME NEW i \in 1 .. 3 PROVE i = 1 \/ i = 2 \/ i = 3
    OBVIOUS
  <2> QED BY <2>1, <2>2 DEF Id
<1>4. ASSUME NEW i \in 1 .. n
      PROVE  /\ tasks[i].id = DefaultId[i] /\ tasks[i] \in Planned
             /\ \A d \in Range(tasks[i].deps) : i # 1 /\ d = DefaultId[i - 1]
  <2>1. i \in 1 .. 3 /\ DefaultId[i] \in Id
    BY <1>2, <1>3, <1>4
  <2>2. CASE i = 1
    <3>1. tasks[i] = [id |-> DefaultId[i], deps |-> <<>>]
      BY <1>1, <1>4, <2>2
    <3>2. <<>> \in [{} -> Id] /\ {} \in SUBSET Nat /\ IsFiniteSet({}) /\ Range(<<>>) = {}
      BY FS_EmptySet DEF Range
    <3>3. <<>> \in Names
      BY <3>2 DEF Names
    <3> QED BY <2>1, <3>1, <3>2, <3>3 DEF Planned
  <2>3. CASE i # 1
    <3> DEFINE d == DefaultId[i - 1]
    <3>1. tasks[i] = [id |-> DefaultId[i], deps |-> <<d>>]
      BY <1>1, <1>4, <2>3
    <3>2. d \in Id
      <4>1. i - 1 \in 1 .. 3
        BY <2>1, <2>3
      <4> QED BY <1>3, <4>1
    <3> HIDE DEF d
    <3>3. <<d>> \in [1 .. 1 -> Id] /\ Range(<<d>>) = {d}
      BY <3>2 DEF Range
    <3>4. 1 .. 1 \in SUBSET Nat /\ IsFiniteSet(1 .. 1)
      <4>1. 1 \in Int /\ 1 .. 1 \subseteq Nat
        OBVIOUS
      <4> QED BY <4>1, FS_Interval
    <3>5. <<d>> \in Names
      BY <3>3, <3>4 DEF Names
    <3>6. tasks[i] \in Planned /\ Range(tasks[i].deps) = {d} /\ tasks[i].id = DefaultId[i]
      BY <2>1, <3>1, <3>3, <3>5 DEF Planned
    <3> QED BY <2>3, <3>6 DEF d
  <2> QED BY <2>2, <2>3
<1>5. tasks = [i \in 1 .. n |-> tasks[i]]
  BY <1>1
<1>6. tasks \in Seq(Planned) /\ Len(tasks) = n
  BY <1>2, <1>4, <1>5
<1>7. ASSUME NEW p \in 1 .. Len(tasks), NEW d \in Range(tasks[p].deps) PROVE \E q \in 1 .. p : tasks[q].id = d
  <2>1. p \in 1 .. n /\ p # 1 /\ d = DefaultId[p - 1]
    BY <1>4, <1>6, <1>7
  <2>2. p - 1 \in 1 .. n /\ p - 1 \in 1 .. p
    BY <1>2, <2>1
  <2>3. tasks[p - 1].id = d
    BY <1>4, <2>1, <2>2
  <2> QED BY <2>2, <2>3
<1> QED BY <1>2, <1>6, <1>7 DEF SoundPlan, Sooner

LEMMA PlansSound ==
  /\ \A tasks \in KeywordPlans : SoundPlan(tasks)
  /\ \A answer \in Answers : \A tasks \in Plans(answer) : SoundPlan(tasks)
<1>1. \A answer \in Answers : answer \in Seq(Raw)
  BY SwarmAssumption DEF Raw
<1> QED BY <1>1, AcceptedSound, KeywordSound DEF Plans

-----------------------------------------------------------------------------
(***************************************************************************)
(* The batches of a plan                                                   *)
(***************************************************************************)
Waits(tasks, id) == Range(tasks[Named(tasks, id)].deps)

(* The plans _batches orders without meeting a cycle.                      *)
Orderly(tasks) ==
  \A p \in DOMAIN tasks :
    /\ \A q \in (DOMAIN tasks) \ {p} : tasks[q].id # tasks[p].id
    /\ IsInjective(tasks[p].deps)
    /\ tasks[p].id \notin Range(tasks[p].deps)

Rounds(tasks) ==
  [remaining : SUBSET Ids(tasks), batches : Seq(SUBSET DOMAIN tasks), indeg : [Ids(tasks) -> Int]]

Unsorted(tasks) ==
  [remaining |-> Ids(tasks), batches |-> <<>>,
   indeg |-> [id \in Ids(tasks) |-> Cardinality(DOMAIN tasks[Named(tasks, id)].deps)]]

LEMMA PlanFacts ==
  ASSUME NEW tasks, SoundPlan(tasks)
  PROVE  /\ Len(tasks) \in Nat /\ DOMAIN tasks = 1 .. Len(tasks)
         /\ IsFiniteSet(Ids(tasks)) /\ Cardinality(Ids(tasks)) <= Len(tasks)
         /\ \A id \in Ids(tasks) : Named(tasks, id) \in DOMAIN tasks /\ tasks[Named(tasks, id)].id = id
         /\ \A p \in DOMAIN tasks : /\ IsFiniteSet(DOMAIN tasks[p].deps)
                                    /\ Range(tasks[p].deps) \subseteq Ids(tasks)
                                    /\ IsFiniteSet(Range(tasks[p].deps))
<1>1. /\ tasks \in Seq(Planned) /\ Len(tasks) \in Nat /\ DOMAIN tasks = 1 .. Len(tasks)
      /\ Sooner(tasks)
  BY DEF SoundPlan
<1>2. IsFiniteSet(DOMAIN tasks) /\ Cardinality(DOMAIN tasks) = Len(tasks)
  <2>1. Len(tasks) \in Int /\ 1 \in Int
    BY <1>1
  <2> QED BY <1>1, <2>1, FS_Interval
<1>3. IsFiniteSet(Ids(tasks)) /\ Cardinality(Ids(tasks)) <= Len(tasks)
  <2> DEFINE f == [p \in DOMAIN tasks |-> tasks[p].id]
  <2>1. f \in Surjection(DOMAIN tasks, Ids(tasks))
    BY DEF Surjection, Ids
  <2> HIDE DEF f
  <2> QED BY <1>2, <2>1, FS_Surjection
<1>4. ASSUME NEW id \in Ids(tasks) PROVE Named(tasks, id) \in DOMAIN tasks /\ tasks[Named(tasks, id)].id = id
  <2> DEFINE t == {p \in DOMAIN tasks : tasks[p].id = id}
  <2>1. t \in SUBSET (1 .. Len(tasks)) /\ t # {}
    BY <1>1 DEF Ids
  <2>2. Max(t) \in t
    BY <1>1, <2>1, GreatestIn
  <2> QED BY <2>2 DEF Named
<1>5. ASSUME NEW p \in DOMAIN tasks
      PROVE  /\ IsFiniteSet(DOMAIN tasks[p].deps) /\ Range(tasks[p].deps) \subseteq Ids(tasks)
             /\ IsFiniteSet(Range(tasks[p].deps))
  <2>1. tasks[p].deps \in Names
    <3>1. tasks[p] \in Planned
      BY <1>1, <1>5
    <3> QED BY <3>1 DEF Planned
  <2>2. IsFiniteSet(DOMAIN tasks[p].deps)
    BY <2>1 DEF Names
  <2>3. Range(tasks[p].deps) \subseteq Ids(tasks)
    <3>1. ASSUME NEW d \in Range(tasks[p].deps) PROVE d \in Ids(tasks)
      <4>1. p \in 1 .. Len(tasks)
        BY <1>1, <1>5
      <4>2. PICK q \in 1 .. p : tasks[q].id = d
        BY <1>1, <3>1, <4>1 DEF Sooner
      <4>3. q \in DOMAIN tasks
        BY <1>1, <4>1
      <4> QED BY <4>2, <4>3 DEF Ids
    <3> QED BY <3>1
  <2> QED BY <1>3, <2>2, <2>3, FS_Subset
<1> QED BY <1>1, <1>3, <1>4, <1>5

LEMMA ReadyFacts ==
  ASSUME NEW tasks, NEW acc \in Rounds(tasks), acc.remaining # {}
  PROVE  /\ Ready(acc) \subseteq acc.remaining /\ Ready(acc) # {}
         /\ (\E id \in acc.remaining : acc.indeg[id] = 0) => \A id \in Ready(acc) : acc.indeg[id] = 0
BY DEF Ready

(* The tasks of an id that wait on what is ready, with what they wait on.  *)
Met(tasks, ready, id) ==
  {e \in (DOMAIN tasks) \X ready : tasks[e[1]].id = id /\ e[2] \in Range(tasks[e[1]].deps)}

LEMMA RoundTyped ==
  ASSUME NEW tasks, SoundPlan(tasks), NEW acc \in Rounds(tasks)
  PROVE  Round(acc, tasks) \in Rounds(tasks)
<1> DEFINE ready == Ready(acc)
           indeg == [id \in Ids(tasks) |-> acc.indeg[id] - Cardinality(Met(tasks, ready, id))]
<1>1. CASE acc.remaining = {}
  BY <1>1 DEF Round
<1>2. CASE acc.remaining # {}
  <2>1. ready \subseteq acc.remaining /\ acc.remaining \subseteq Ids(tasks)
    BY <1>2, ReadyFacts DEF Rounds
  <2> HIDE DEF ready
  <2>2. IsFiniteSet((DOMAIN tasks) \X ready)
    <3>1. IsFiniteSet(Ids(tasks)) /\ Len(tasks) \in Nat /\ DOMAIN tasks = 1 .. Len(tasks)
      BY PlanFacts
    <3>2. IsFiniteSet(ready)
      BY <2>1, <3>1, FS_Subset
    <3>3. Len(tasks) \in Int /\ 1 \in Int
      BY <3>1
    <3>4. IsFiniteSet(DOMAIN tasks)
      BY <3>1, <3>3, FS_Interval
    <3> QED BY <3>2, <3>4, FS_Product
  <2>3. ASSUME NEW id \in Ids(tasks) PROVE Cardinality(Met(tasks, ready, id)) \in Nat
    <3>1. Met(tasks, ready, id) \in SUBSET ((DOMAIN tasks) \X ready)
      BY DEF Met
    <3> QED BY <2>2, <3>1, FS_Subset, FS_CardinalityType
  <2>4. indeg \in [Ids(tasks) -> Int]
    <3>1. \A id \in Ids(tasks) : acc.indeg[id] \in Int
      BY DEF Rounds
    <3> QED BY <2>3, <3>1
  <2>5. {Named(tasks, id) : id \in ready} \in SUBSET DOMAIN tasks
    BY <2>1, PlanFacts
  <2>6. Round(acc, tasks) =
          [remaining |-> acc.remaining \ ready, indeg |-> indeg,
           batches |-> Append(acc.batches, {Named(tasks, id) : id \in ready})]
    BY <1>2 DEF Round, Met, ready
  <2>7. Append(acc.batches, {Named(tasks, id) : id \in ready}) \in Seq(SUBSET DOMAIN tasks)
    BY <2>5 DEF Rounds
  <2> HIDE DEF indeg
  <2>8. acc.remaining \ ready \in SUBSET Ids(tasks)
    BY <2>1
  <2> QED BY <2>4, <2>6, <2>7, <2>8 DEF Rounds
<1> QED BY <1>1, <1>2

(* _batches makes as many rounds as there are tasks, or fewer.             *)
LEMMA BatchesRuns ==
  ASSUME NEW tasks, SoundPlan(tasks)
  PROVE  \E acc :
           /\ acc[0] = Unsorted(tasks)
           /\ \A i \in 1 .. Len(tasks) : acc[i] = Round(acc[i - 1], tasks)
           /\ Batches(tasks) = acc[Len(tasks)].batches
<1> DEFINE n == Len(tasks)
           S == 1 .. n
           T == Rounds(tasks)
           base == Unsorted(tasks)
           IsIter(g) == g = [t \in SUBSET S |-> IF t = {} THEN base
                               ELSE LET i == Max(t) IN Round(g[t \ {i}], tasks)]
           iter == CHOOSE g : IsIter(g)
           f == [p \in S \X T |-> Round(p[2], tasks)]
<1>1. n \in Nat /\ DOMAIN tasks = S
  BY PlanFacts
<1>2. base \in T
  <2>1. ASSUME NEW id \in Ids(tasks) PROVE Cardinality(DOMAIN tasks[Named(tasks, id)].deps) \in Int
    <3>1. IsFiniteSet(DOMAIN tasks[Named(tasks, id)].deps)
      BY PlanFacts
    <3>2. Cardinality(DOMAIN tasks[Named(tasks, id)].deps) \in Nat
      BY <3>1, FS_CardinalityType
    <3> QED BY <3>2
  <2>2. <<>> \in Seq(SUBSET DOMAIN tasks)
    OBVIOUS
  <2>3. [id \in Ids(tasks) |-> Cardinality(DOMAIN tasks[Named(tasks, id)].deps)] \in [Ids(tasks) -> Int]
    BY <2>1
  <2> QED BY <2>2, <2>3 DEF Unsorted, Rounds
<1>3. /\ f \in [S \X T -> T]
      /\ \A i \in S, acc \in T : f[<<i, acc>>] = Round(acc, tasks)
  BY RoundTyped
<1> HIDE DEF f, T, base
<1>4. PICK g : IsFold(g, S, T, base, f, greatest(n))
  <2>1. Picks(greatest(n), S) /\ IsFiniteSet(S)
    BY <1>1, GreatestPicked
  <2> QED BY <1>2, <1>3, <2>1, FoldExists, Zenon
<1>5. IsIter(g)
  <2>1. ASSUME NEW t \in SUBSET S, t # {}
        PROVE  g[t] = Round(g[t \ {Max(t)}], tasks)
    <3>1. Max(t) \in S /\ greatest(n)[t] = Max(t)
      <4>1. Picks(greatest(n), S) /\ greatest(n)[t] = Max(t)
        BY <1>1, <2>1, GreatestPicked
      <4> QED BY <2>1, <4>1 DEF Picks
    <3>2. g[t \ {Max(t)}] \in T
      BY <1>4, <2>1 DEF IsFold
    <3> QED BY <1>3, <1>4, <2>1, <3>1, <3>2 DEF IsFold
  <2>2. g = [t \in SUBSET S |-> g[t]] /\ g[{}] = base
    BY <1>4 DEF IsFold
  <2> QED BY <2>1, <2>2
<1>6. IsIter(iter)
  BY <1>5
<1>7. Batches(tasks) = iter[S].batches
  <2> DEFINE places == [i \in S |-> i]
  <2>1. DOMAIN places = S
    OBVIOUS
  <2>2. Batches(tasks) = FoldLeft(LAMBDA a, i : Round(a, tasks), base, places).batches
    BY <1>1 DEF Batches, FoldLeftDomain, Unsorted, base
  <2>3. FoldLeft(LAMBDA a, i : Round(a, tasks), base, places)
          = (CHOOSE h : h = [t \in SUBSET S |-> IF t = {} THEN base
               ELSE LET x == Max(t) IN Round(h[t \ {x}], tasks)])[S]
    BY <2>1 DEF FoldLeft, MapThenFoldSet
  <2> QED BY <2>2, <2>3
<1> DEFINE acc == [i \in 0 .. n |-> iter[1 .. i]]
<1> HIDE DEF iter
<1>8. acc[0] = base /\ acc[n] = iter[S]
  <2>1. 1 .. 0 = {} /\ 0 \in 0 .. n /\ n \in 0 .. n
    BY <1>1
  <2>2. iter[{}] = base
    BY <1>6
  <2> QED BY <2>1, <2>2
<1>9. ASSUME NEW i \in 1 .. n PROVE acc[i] = Round(acc[i - 1], tasks)
  <2>1. i \in 0 .. n /\ i - 1 \in 0 .. n
    BY <1>1, <1>9
  <2>2. 1 .. i \in SUBSET S /\ 1 .. i # {} /\ Max(1 .. i) = i /\ (1 .. i) \ {i} = 1 .. (i - 1)
    BY <1>1, <1>9, GreatestPicked
  <2>3. iter[1 .. i] = Round(iter[1 .. (i - 1)], tasks)
    BY <1>6, <2>2
  <2> QED BY <2>1, <2>3
<1> HIDE DEF acc
<1>10. /\ acc[0] = Unsorted(tasks) /\ \A i \in 1 .. Len(tasks) : acc[i] = Round(acc[i - 1], tasks)
       /\ Batches(tasks) = acc[Len(tasks)].batches
  BY <1>7, <1>8, <1>9 DEF base
<1> QED BY <1>10

(* What the first rounds have made of the tasks.                           *)
KahnInv(acc, tasks) ==
  /\ acc \in Rounds(tasks)
  /\ \A k \in 1 .. Len(acc.batches) : /\ acc.batches[k] # {}
                                      /\ \A p \in acc.batches[k] : /\ p = Named(tasks, tasks[p].id)
                                                                   /\ tasks[p].id \notin acc.remaining
  /\ \A id \in Ids(tasks) \ acc.remaining : \E k \in 1 .. Len(acc.batches) : Named(tasks, id) \in acc.batches[k]
  /\ \A j, k \in 1 .. Len(acc.batches) : acc.batches[j] \cap acc.batches[k] # {} => j = k

(* Without a cycle, a task waits only on what remains.                     *)
Counted(acc, tasks) ==
  \A id \in acc.remaining : acc.indeg[id] = Cardinality(Waits(tasks, id) \cap acc.remaining)

InOrder(made, tasks) ==
  \A k \in 1 .. Len(made) : \A p \in made[k] : \A d \in Range(tasks[p].deps) :
    \E j \in 1 .. k - 1 : Named(tasks, d) \in made[j]

(* A plan that names its dependencies sooner has a task that is ready.     *)
LEMMA SomeReady ==
  ASSUME NEW tasks, SoundPlan(tasks), Orderly(tasks),
         NEW remaining \in SUBSET Ids(tasks), remaining # {}
  PROVE  \E id \in remaining : Waits(tasks, id) \cap remaining = {}
<1> DEFINE P == {p \in DOMAIN tasks : tasks[p].id \in remaining}
<1>1. Len(tasks) \in Nat /\ DOMAIN tasks = 1 .. Len(tasks)
  BY PlanFacts
<1>2. P \subseteq Nat /\ P # {}
  <2>1. PICK id \in remaining : TRUE
    OBVIOUS
  <2>2. PICK p \in DOMAIN tasks : tasks[p].id = id
    BY <2>1 DEF Ids
  <2> QED BY <1>1, <2>1, <2>2
<1>3. PICK p \in P : \A q \in P : <<q, p>> \notin OpToRel(<, Nat)
  BY <1>2, NatLessThanWellFounded, WFMin
<1>4. ASSUME NEW d \in Range(tasks[p].deps), d \in remaining PROVE FALSE
  <2>1. p \in 1 .. Len(tasks) /\ tasks[p].id \in remaining
    BY <1>1, <1>3
  <2>2. PICK q \in 1 .. p : tasks[q].id = d
    BY <1>4, <2>1 DEF SoundPlan, Sooner
  <2>3. q # p
    BY <1>1, <1>4, <2>1, <2>2 DEF Orderly
  <2>4. q \in P /\ q \in Nat /\ p \in Nat /\ q < p
    BY <1>1, <1>4, <2>1, <2>2, <2>3
  <2>5. <<q, p>> \in OpToRel(<, Nat)
    BY <2>4 DEF OpToRel
  <2> QED BY <1>3, <2>4, <2>5
<1> DEFINE id == tasks[p].id
<1>5. id \in remaining /\ Named(tasks, id) = p
  <2>1. id \in Ids(tasks) /\ p \in DOMAIN tasks /\ id \in remaining
    BY <1>3 DEF Ids
  <2>2. Named(tasks, id) \in DOMAIN tasks /\ tasks[Named(tasks, id)].id = id
    BY <2>1, PlanFacts
  <2> QED BY <2>1, <2>2 DEF Orderly
<1>6. Waits(tasks, id) = Range(tasks[p].deps)
  BY <1>5 DEF Waits
<1> HIDE DEF id
<1> QED BY <1>4, <1>5, <1>6

(* In an orderly plan, of a task are met just the ids it waits on.         *)
LEMMA MetCounts ==
  ASSUME NEW tasks, SoundPlan(tasks), Orderly(tasks), NEW ready \in SUBSET Ids(tasks), NEW id \in Ids(tasks)
  PROVE  Cardinality(Met(tasks, ready, id)) = Cardinality(Waits(tasks, id) \cap ready)
<1> DEFINE p == Named(tasks, id)
           W == Waits(tasks, id) \cap ready
           f == [d \in W |-> <<p, d>>]
<1>1. p \in DOMAIN tasks /\ tasks[p].id = id
  BY PlanFacts
<1>2. \A q \in DOMAIN tasks : tasks[q].id = id => q = p
  BY <1>1 DEF Orderly
<1>3. Met(tasks, ready, id) = {<<p, d>> : d \in W}
  BY <1>1, <1>2 DEF Met, Waits
<1>4. f \in Surjection(W, Met(tasks, ready, id)) /\ f \in Injection(W, Met(tasks, ready, id))
  <2> HIDE DEF p, W
  <2>1. f \in [W -> Met(tasks, ready, id)]
    BY <1>3
  <2> QED BY <1>3, <2>1 DEF Surjection, Injection, IsInjective
<1>5. IsFiniteSet(W)
  <2>1. IsFiniteSet(Ids(tasks)) /\ W \in SUBSET Ids(tasks)
    BY PlanFacts
  <2> QED BY <2>1, FS_Subset
<1> HIDE DEF f, W
<1>6. Cardinality(Met(tasks, ready, id)) = Cardinality(W)
  BY <1>4, <1>5, FS_Surjection
<1> QED BY <1>6 DEF W

LEMMA UnsortedInv ==
  ASSUME NEW tasks, SoundPlan(tasks)
  PROVE  /\ KahnInv(Unsorted(tasks), tasks)
         /\ Orderly(tasks) => Counted(Unsorted(tasks), tasks) /\ InOrder(Unsorted(tasks).batches, tasks)
<1>1. Unsorted(tasks).remaining = Ids(tasks) /\ Unsorted(tasks).batches = <<>> /\ Len(<<>>) = 0
      /\ 1 .. 0 = {}
  BY DEF Unsorted
<1>2. Unsorted(tasks) \in Rounds(tasks)
  <2>1. ASSUME NEW id \in Ids(tasks) PROVE Cardinality(DOMAIN tasks[Named(tasks, id)].deps) \in Int
    <3>1. IsFiniteSet(DOMAIN tasks[Named(tasks, id)].deps)
      BY PlanFacts
    <3>2. Cardinality(DOMAIN tasks[Named(tasks, id)].deps) \in Nat
      BY <3>1, FS_CardinalityType
    <3> QED BY <3>2
  <2>2. <<>> \in Seq(SUBSET DOMAIN tasks)
    OBVIOUS
  <2>3. [id \in Ids(tasks) |-> Cardinality(DOMAIN tasks[Named(tasks, id)].deps)] \in [Ids(tasks) -> Int]
    BY <2>1
  <2> QED BY <2>2, <2>3 DEF Unsorted, Rounds
<1>3. KahnInv(Unsorted(tasks), tasks)
  BY <1>1, <1>2 DEF KahnInv
<1>4. InOrder(Unsorted(tasks).batches, tasks)
  BY <1>1 DEF InOrder
<1>5. ASSUME Orderly(tasks), NEW id \in Ids(tasks)
      PROVE  Unsorted(tasks).indeg[id] = Cardinality(Waits(tasks, id) \cap Ids(tasks))
  <2> DEFINE deps == tasks[Named(tasks, id)].deps
  <2>1. /\ Named(tasks, id) \in DOMAIN tasks /\ IsFiniteSet(DOMAIN deps) /\ Range(deps) \subseteq Ids(tasks)
    BY PlanFacts
  <2>2. IsInjective(deps)
    BY <1>5, <2>1 DEF Orderly
  <2> HIDE DEF deps
  <2> DEFINE f == [i \in DOMAIN deps |-> deps[i]]
  <2>3. f \in Surjection(DOMAIN deps, Range(deps)) /\ f \in Injection(DOMAIN deps, Range(deps))
    BY <2>2 DEF Surjection, Injection, IsInjective, Range
  <2> HIDE DEF f
  <2>4. Cardinality(Range(deps)) = Cardinality(DOMAIN deps)
    BY <2>1, <2>3, FS_Surjection
  <2>5. Waits(tasks, id) \cap Ids(tasks) = Range(deps)
    BY <2>1 DEF Waits, deps
  <2>6. Unsorted(tasks).indeg[id] = Cardinality(DOMAIN deps)
    BY DEF Unsorted, deps
  <2> QED BY <2>4, <2>5, <2>6
<1>6. Orderly(tasks) => Counted(Unsorted(tasks), tasks)
  BY <1>1, <1>5 DEF Counted
<1> QED BY <1>3, <1>4, <1>6

(* A round keeps what the rounds before it have made.                      *)
LEMMA RoundInv ==
  ASSUME NEW tasks, SoundPlan(tasks), NEW acc, KahnInv(acc, tasks), acc.remaining # {}
  PROVE  /\ KahnInv(Round(acc, tasks), tasks)
         /\ Cardinality(Round(acc, tasks).remaining) < Cardinality(acc.remaining)
         /\ Orderly(tasks) /\ Counted(acc, tasks) /\ InOrder(acc.batches, tasks) =>
              /\ Counted(Round(acc, tasks), tasks)
              /\ InOrder(Round(acc, tasks).batches, tasks)
<1> DEFINE ready == Ready(acc)
           new == {Named(tasks, id) : id \in ready}
           next == Round(acc, tasks)
           indeg == [id \in Ids(tasks) |-> acc.indeg[id] - Cardinality(Met(tasks, ready, id))]
           n == Len(acc.batches)
<1>1. /\ acc \in Rounds(tasks) /\ acc.remaining \in SUBSET Ids(tasks) /\ n \in Nat
      /\ acc.batches \in Seq(SUBSET DOMAIN tasks) /\ \A id \in Ids(tasks) : acc.indeg[id] \in Int
  BY DEF KahnInv, Rounds
<1>2. ready \subseteq acc.remaining /\ ready # {}
  BY <1>1, ReadyFacts
<1>3. next = [remaining |-> acc.remaining \ ready, indeg |-> indeg, batches |-> Append(acc.batches, new)]
  BY DEF Round, Met
<1>4. next \in Rounds(tasks)
  BY <1>1, RoundTyped
<1> HIDE DEF ready, next
<1>5. /\ next.remaining = acc.remaining \ ready /\ next.batches = Append(acc.batches, new)
      /\ \A id \in Ids(tasks) : next.indeg[id] = acc.indeg[id] - Cardinality(Met(tasks, ready, id))
  BY <1>3
<1> HIDE DEF indeg
<1>6. \A id \in Ids(tasks) : Named(tasks, id) \in DOMAIN tasks /\ tasks[Named(tasks, id)].id = id
  BY PlanFacts
<1>7. \A p \in new : tasks[p].id \in ready /\ p = Named(tasks, tasks[p].id)
  BY <1>1, <1>2, <1>6
<1>8. new # {} /\ \A id \in ready : Named(tasks, id) \in new
  BY <1>2
<1> HIDE DEF new
<1>9. /\ Len(next.batches) = n + 1 /\ next.batches[n + 1] = new
      /\ \A k \in 1 .. n : next.batches[k] = acc.batches[k]
  BY <1>1, <1>5
<1>10. \A k \in 1 .. Len(next.batches) : k \in 1 .. n \/ k = n + 1
  BY <1>1, <1>9
<1>11. KahnInv(next, tasks)
  <2>1. ASSUME NEW k \in 1 .. Len(next.batches)
        PROVE  /\ next.batches[k] # {}
               /\ \A p \in next.batches[k] : /\ p = Named(tasks, tasks[p].id)
                                             /\ tasks[p].id \notin next.remaining
    <3>1. CASE k \in 1 .. n
      BY <1>5, <1>9, <3>1 DEF KahnInv
    <3>2. CASE k = n + 1
      BY <1>5, <1>7, <1>8, <1>9, <3>2
    <3> QED BY <1>10, <3>1, <3>2
  <2>2. ASSUME NEW id \in Ids(tasks) \ next.remaining
        PROVE  \E k \in 1 .. Len(next.batches) : Named(tasks, id) \in next.batches[k]
    <3>1. CASE id \in ready
      <4>1. Named(tasks, id) \in next.batches[n + 1] /\ n + 1 \in 1 .. Len(next.batches)
        BY <1>1, <1>8, <1>9, <3>1
      <4> QED BY <4>1
    <3>2. CASE id \notin ready
      <4>1. id \in Ids(tasks) \ acc.remaining
        BY <1>5, <3>2
      <4>2. PICK k \in 1 .. n : Named(tasks, id) \in acc.batches[k]
        BY <4>1 DEF KahnInv
      <4>3. k \in 1 .. Len(next.batches)
        BY <1>1, <1>9
      <4> QED BY <1>9, <4>2, <4>3
    <3> QED BY <3>1, <3>2
  <2>3. ASSUME NEW k \in 1 .. n PROVE acc.batches[k] \cap new = {}
    <3>1. \A p \in acc.batches[k] : tasks[p].id \notin acc.remaining
      BY DEF KahnInv
    <3> QED BY <1>2, <1>7, <3>1
  <2>4. ASSUME NEW j \in 1 .. Len(next.batches), NEW k \in 1 .. Len(next.batches),
               next.batches[j] \cap next.batches[k] # {}
        PROVE  j = k
    <3>1. CASE j \in 1 .. n /\ k \in 1 .. n
      BY <1>9, <2>4, <3>1 DEF KahnInv
    <3>2. CASE j = n + 1 /\ k = n + 1
      BY <3>2
    <3>3. CASE j \in 1 .. n /\ k = n + 1
      BY <1>9, <2>3, <2>4, <3>3
    <3>4. CASE j = n + 1 /\ k \in 1 .. n
      BY <1>9, <2>3, <2>4, <3>4
    <3> QED BY <1>10, <3>1, <3>2, <3>3, <3>4
  <2> QED BY <1>4, <2>1, <2>2, <2>4 DEF KahnInv
<1>12. Cardinality(next.remaining) < Cardinality(acc.remaining)
  <2>1. IsFiniteSet(acc.remaining)
    <3>1. IsFiniteSet(Ids(tasks))
      BY PlanFacts
    <3> QED BY <1>1, <3>1, FS_Subset
  <2>2. next.remaining \subseteq acc.remaining /\ next.remaining # acc.remaining
    BY <1>2, <1>5
  <2>3. /\ Cardinality(next.remaining) <= Cardinality(acc.remaining)
        /\ Cardinality(next.remaining) # Cardinality(acc.remaining)
        /\ IsFiniteSet(next.remaining)
    BY <2>1, <2>2, FS_Subset
  <2>4. Cardinality(next.remaining) \in Nat /\ Cardinality(acc.remaining) \in Nat
    BY <2>1, <2>3, FS_CardinalityType
  <2> QED BY <2>3, <2>4
<1>13. ASSUME Orderly(tasks), Counted(acc, tasks), InOrder(acc.batches, tasks)
       PROVE  Counted(next, tasks) /\ InOrder(next.batches, tasks)
  <2>1. \A id \in Ids(tasks) : Waits(tasks, id) \subseteq Ids(tasks) /\ IsFiniteSet(Waits(tasks, id))
    BY <1>6, PlanFacts DEF Waits
  <2>2. ASSUME NEW id \in ready PROVE Waits(tasks, id) \cap acc.remaining = {}
    <3>1. PICK free \in acc.remaining : Waits(tasks, free) \cap acc.remaining = {}
      BY <1>1, <1>2, <1>13, SomeReady
    <3>2. Cardinality({}) = 0
      BY FS_EmptySet
    <3>3. acc.indeg[free] = 0
      BY <1>13, <3>1, <3>2 DEF Counted
    <3>4. acc.indeg[id] = 0
      BY <1>1, <3>1, <3>3, ReadyFacts DEF ready
    <3>5. Cardinality(Waits(tasks, id) \cap acc.remaining) = 0
      BY <1>2, <1>13, <3>4 DEF Counted
    <3>6. IsFiniteSet(Waits(tasks, id) \cap acc.remaining)
      BY <1>1, <1>2, <2>1, FS_Subset
    <3> QED BY <3>5, <3>6, FS_EmptySet
  <2>3. ASSUME NEW id \in next.remaining
        PROVE  next.indeg[id] = Cardinality(Waits(tasks, id) \cap next.remaining)
    <3> DEFINE W == Waits(tasks, id) \cap acc.remaining
               M == Waits(tasks, id) \cap ready
    <3>1. id \in Ids(tasks) /\ id \in acc.remaining
      BY <1>1, <1>5
    <3>2. next.indeg[id] = acc.indeg[id] - Cardinality(Met(tasks, ready, id))
      BY <1>5, <3>1
    <3>3. ready \in SUBSET Ids(tasks)
      BY <1>1, <1>2
    <3>4. Cardinality(Met(tasks, ready, id)) = Cardinality(M)
      BY <1>13, <3>1, <3>3, MetCounts
    <3>5. acc.indeg[id] = Cardinality(W)
      BY <1>13, <3>1 DEF Counted
    <3>6. IsFiniteSet(W) /\ M \subseteq W /\ Waits(tasks, id) \cap next.remaining = W \ M
      <4>1. W \in SUBSET Waits(tasks, id)
        OBVIOUS
      <4>2. IsFiniteSet(W)
        BY <2>1, <3>1, <4>1, FS_Subset
      <4> QED BY <1>2, <1>5, <4>2
    <3> HIDE DEF W, M
    <3>7. IsFiniteSet(M) /\ W \cap M = M
      BY <3>6, FS_Subset
    <3>8. Cardinality(W \ M) = Cardinality(W) - Cardinality(W \cap M)
      BY <3>6, <3>7, FS_Difference
    <3> QED BY <3>2, <3>4, <3>5, <3>6, <3>7, <3>8
  <2>4. ASSUME NEW k \in 1 .. Len(next.batches), NEW p \in next.batches[k], NEW d \in Range(tasks[p].deps)
        PROVE  \E j \in 1 .. k - 1 : Named(tasks, d) \in next.batches[j]
    <3>1. CASE k \in 1 .. n
      <4>1. PICK j \in 1 .. k - 1 : Named(tasks, d) \in acc.batches[j]
        BY <1>9, <1>13, <2>4, <3>1 DEF InOrder
      <4>2. j \in 1 .. n
        BY <1>1, <3>1
      <4> QED BY <1>9, <4>1, <4>2
    <3>2. CASE k = n + 1
      <4>1. p \in new /\ tasks[p].id \in ready /\ p = Named(tasks, tasks[p].id)
        BY <1>7, <1>9, <2>4, <3>2
      <4>2. d \in Waits(tasks, tasks[p].id)
        BY <2>4, <4>1 DEF Waits
      <4>3. d \in Ids(tasks) \ acc.remaining
        BY <1>1, <1>2, <2>1, <2>2, <4>1, <4>2
      <4>4. PICK j \in 1 .. n : Named(tasks, d) \in acc.batches[j]
        BY <4>3 DEF KahnInv
      <4>5. j \in 1 .. k - 1
        BY <1>1, <3>2
      <4> QED BY <1>9, <4>4, <4>5
    <3> QED BY <1>10, <3>1, <3>2
  <2> QED BY <2>3, <2>4 DEF Counted, InOrder
<1> QED BY <1>11, <1>12, <1>13 DEF next

(* What _batches makes of a plan: every id is worked on once, by its last  *)
(* task, and in an orderly plan after what it waits on.                    *)
Sound(made, tasks) ==
  /\ made \in Seq(SUBSET DOMAIN tasks)
  /\ \A k \in 1 .. Len(made) : made[k] # {} /\ \A p \in made[k] : p = Named(tasks, tasks[p].id)
  /\ \A id \in Ids(tasks) : \E k \in 1 .. Len(made) : Named(tasks, id) \in made[k]
  /\ \A j, k \in 1 .. Len(made) : made[j] \cap made[k] # {} => j = k
  /\ Orderly(tasks) => InOrder(made, tasks)

LEMMA BatchesSound ==
  ASSUME NEW tasks, SoundPlan(tasks)
  PROVE  Sound(Batches(tasks), tasks)
<1> DEFINE n == Len(tasks)
           Kept(a) == /\ KahnInv(a, tasks)
                      /\ Orderly(tasks) => Counted(a, tasks) /\ InOrder(a.batches, tasks)
<1>1. n \in Nat
  BY PlanFacts
<1>2. PICK acc : /\ acc[0] = Unsorted(tasks)
                 /\ \A i \in 1 .. n : acc[i] = Round(acc[i - 1], tasks)
                 /\ Batches(tasks) = acc[n].batches
  BY BatchesRuns
<1> DEFINE left(i) == acc[i].remaining
           Z == {i \in Nat : i <= n => Kept(acc[i]) /\ (left(i) = {} \/ Cardinality(left(i)) + i <= n)}
<1>3. \A a : Kept(a) => IsFiniteSet(a.remaining) /\ Cardinality(a.remaining) \in Nat
  <2>1. ASSUME NEW a, Kept(a) PROVE IsFiniteSet(a.remaining) /\ Cardinality(a.remaining) \in Nat
    <3>1. IsFiniteSet(Ids(tasks))
      BY PlanFacts
    <3>2. a.remaining \in SUBSET Ids(tasks)
      BY <2>1 DEF KahnInv, Rounds
    <3>3. IsFiniteSet(a.remaining)
      BY <3>1, <3>2, FS_Subset
    <3> QED BY <3>3, FS_CardinalityType
  <2> QED BY <2>1
<1>4. 0 \in Z
  <2>1. Kept(acc[0])
    BY <1>2, UnsortedInv
  <2>2. left(0) = Ids(tasks)
    BY <1>2 DEF Unsorted
  <2>3. Cardinality(left(0)) + 0 <= n
    BY <1>1, <1>3, <2>1, <2>2, PlanFacts
  <2> QED BY <2>1, <2>3
<1>5. ASSUME NEW i \in Z PROVE i + 1 \in Z
  <2>1. SUFFICES ASSUME i + 1 <= n
                 PROVE  Kept(acc[i + 1]) /\ (left(i + 1) = {} \/ Cardinality(left(i + 1)) + (i + 1) <= n)
    OBVIOUS
  <2>2. i \in Nat /\ i <= n /\ i + 1 \in 1 .. n /\ (i + 1) - 1 = i
    BY <1>1, <2>1
  <2>3. Kept(acc[i]) /\ (left(i) = {} \/ Cardinality(left(i)) + i <= n)
    BY <2>2
  <2>4. acc[i + 1] = Round(acc[i], tasks)
    BY <1>2, <2>2
  <2>5. CASE left(i) = {}
    <3>1. acc[i + 1] = acc[i]
      BY <2>4, <2>5 DEF Round
    <3> QED BY <2>3, <2>5, <3>1
  <2>6. CASE left(i) # {}
    <3>1. Kept(acc[i + 1]) /\ Cardinality(left(i + 1)) < Cardinality(left(i))
      BY <2>3, <2>4, <2>6, RoundInv
    <3>2. Cardinality(left(i + 1)) \in Nat /\ Cardinality(left(i)) \in Nat
      BY <1>3, <2>3, <3>1
    <3>3. Cardinality(left(i + 1)) + (i + 1) <= n
      <4> HIDE DEF left
      <4> QED BY <1>1, <2>2, <2>3, <2>6, <3>1, <3>2
    <3> QED BY <3>1, <3>3
  <2> QED BY <2>5, <2>6
<1>6. Z = Nat
  <2>1. Z \in SUBSET Nat
    OBVIOUS
  <2> HIDE DEF Z
  <2> QED BY <1>4, <1>5, <2>1, Counting
<1>7. Kept(acc[n]) /\ (left(n) = {} \/ Cardinality(left(n)) + n <= n)
  <2>1. n \in Z
    BY <1>1, <1>6
  <2> QED BY <1>1, <2>1
<1>8. left(n) = {}
  <2>1. IsFiniteSet(left(n)) /\ Cardinality(left(n)) \in Nat
    BY <1>3, <1>7
  <2>2. Cardinality(left(n)) = 0 \/ left(n) = {}
    <3> HIDE DEF left
    <3> QED BY <1>1, <1>7, <2>1
  <2> QED BY <2>1, <2>2, FS_EmptySet
<1> DEFINE made == Batches(tasks)
<1>9. made = acc[n].batches /\ acc[n].remaining = {}
  BY <1>2, <1>8
<1>10. /\ KahnInv(acc[n], tasks)
       /\ Orderly(tasks) => InOrder(acc[n].batches, tasks)
  BY <1>7
<1> HIDE DEF made, Z, Kept, left
<1>11. made \in Seq(SUBSET DOMAIN tasks)
  BY <1>9, <1>10 DEF KahnInv, Rounds
<1>12. \A k \in 1 .. Len(made) : made[k] # {} /\ \A p \in made[k] : p = Named(tasks, tasks[p].id)
  BY <1>9, <1>10 DEF KahnInv
<1>13. \A id \in Ids(tasks) : \E k \in 1 .. Len(made) : Named(tasks, id) \in made[k]
  BY <1>9, <1>10 DEF KahnInv
<1>14. \A j, k \in 1 .. Len(made) : made[j] \cap made[k] # {} => j = k
  BY <1>9, <1>10 DEF KahnInv
<1>15. Orderly(tasks) => InOrder(made, tasks)
  BY <1>9, <1>10
<1> QED BY <1>11, <1>12, <1>13, <1>14, <1>15 DEF Sound, made

-----------------------------------------------------------------------------
(***************************************************************************)
(* The turns of a swarm that is not parallel                               *)
(***************************************************************************)
Idle(c) == call[c].at = "idle"

(* Nobody else has a request under way.                                    *)
Alone(c) == \A d \in Callers \ {c} : Idle(d)

-----------------------------------------------------------------------------
(***************************************************************************)
(* The guard                                                               *)
(***************************************************************************)
(* What a thread read in settle() is still what is stored.                 *)
Reads ==
  /\ \A c \in Callers : /\ call[c].at = "releasing" => call[c].read = reserved
                        /\ call[c].at = "booking" => call[c].read = spent
  /\ flaws \subseteq {"dear"}

GuardInv ==
  /\ call = [c \in Callers |-> call[c]]
  /\ \A c \in Callers : IsCall(call[c])
  /\ Reads

Takes(c, r) ==
  /\ call' = [call EXCEPT ![c] = r] /\ IsCall(r)
  /\ r.at = "releasing" => r.read = reserved'
  /\ r.at = "booking" => r.read = spent'

(* A request that is alone finds what it read.                             *)
LEMMA GuardSteps ==
  ASSUME GuardInv, NEW c \in Callers, Alone(c), RequestStep(c)
  PROVE  GuardInv' /\ Alone(c)'
<1> USE DEF GuardInv
<1>1. SUFFICES (\E r : Takes(c, r)) /\ flaws' \subseteq {"dear"}
  <2>1. PICK r : Takes(c, r)
    BY <1>1
  <2>2. call' = [d \in Callers |-> IF d = c THEN r ELSE call[d]]
    BY <2>1 DEF Takes
  <2>3. call' = [d \in Callers |-> call'[d]]
    BY <2>2
  <2>4. call'[c] = r /\ \A d \in Callers \ {c} : call'[d] = call[d]
    BY <2>2
  <2>5. \A d \in Callers \ {c} : call[d].at = "idle"
    BY DEF Alone, Idle
  <2> QED BY <1>1, <2>1, <2>3, <2>4, <2>5 DEF Takes, Alone, Idle, Reads
<1>2. /\ IsCall(call[c]) /\ flaws \subseteq {"dear"}
      /\ call[c].at = "releasing" => call[c].read = reserved
      /\ call[c].at = "booking" => call[c].read = spent
  BY DEF Reads
<1>3. CASE Authorize(c)
  <2>1. PICK usage \in Usages :
          /\ call[c].at = "idle"
          /\ call' = [call EXCEPT ![c] = [NoCall EXCEPT !.at = "sent", !.tries = 1, !.est = Estimate(usage)]]
          /\ flaws' = flaws \cup (IF \E d \in Callers : call[d].at \in Settled THEN {"gap"} ELSE {})
    BY <1>3 DEF Authorize
  <2>2. flaws' = flaws
    BY <2>1 DEF Alone, Idle, Settled
  <2>3. IsCall([NoCall EXCEPT !.at = "sent", !.tries = 1, !.est = Estimate(usage)])
        /\ [NoCall EXCEPT !.at = "sent", !.tries = 1, !.est = Estimate(usage)].at = "sent"
    BY DEF IsCall, Fields, NoCall
  <2> QED BY <1>2, <2>1, <2>2, <2>3 DEF Takes
<1>4. CASE Refused(c)
  <2>1. call' = [call EXCEPT ![c] = call[c]] /\ UNCHANGED <<reserved, spent, flaws>>
    BY <1>4 DEF Refused, guardVars
  <2> QED BY <1>2, <2>1 DEF Takes
<1>5. CASE Release(c)
  <2>1. /\ call[c].at = "releasing" /\ call' = [call EXCEPT ![c] = [call[c] EXCEPT !.at = "released"]]
        /\ flaws' = flaws \cup (IF call[c].read # reserved THEN {"lost"} ELSE {})
    BY <1>5 DEF Release, Overwrites
  <2>2. IsCall([call[c] EXCEPT !.at = "released"]) /\ [call[c] EXCEPT !.at = "released"].at = "released"
    BY <1>2 DEF IsCall, Fields
  <2> QED BY <1>2, <2>1, <2>2 DEF Takes
<1>6. CASE ReadSpent(c)
  <2>1. /\ call' = [call EXCEPT ![c] = [call[c] EXCEPT !.at = "booking", !.read = spent]]
        /\ UNCHANGED <<spent, flaws>>
    BY <1>6 DEF ReadSpent
  <2>2. /\ IsCall([call[c] EXCEPT !.at = "booking", !.read = spent])
        /\ [call[c] EXCEPT !.at = "booking", !.read = spent].at = "booking"
        /\ [call[c] EXCEPT !.at = "booking", !.read = spent].read = spent
    BY <1>2 DEF IsCall, Fields
  <2> QED BY <1>2, <2>1, <2>2 DEF Takes
<1>7. CASE Book(c)
  <2>1. /\ call[c].at = "booking" /\ call' = [call EXCEPT ![c] = NoCall]
        /\ flaws' = flaws \cup (IF call[c].read # spent THEN {"lost"} ELSE {})
    BY <1>7 DEF Book, Overwrites
  <2>2. IsCall(NoCall) /\ NoCall.at = "idle"
    BY DEF IsCall, Fields, NoCall
  <2> QED BY <1>2, <2>1, <2>2 DEF Takes
<1>8. ASSUME NEW outcome, Retry(c, outcome)
      PROVE  (\E r : Takes(c, r)) /\ flaws' \subseteq {"dear"}
  <2> DEFINE r == [call[c] EXCEPT !.tries = call[c].tries + 1]
  <2>1. call[c].at = "sent" /\ call' = [call EXCEPT ![c] = r] /\ flaws' = flaws
    BY <1>8 DEF Retry
  <2>2. IsCall(r) /\ r.at = call[c].at
    BY <1>2 DEF IsCall, Fields
  <2> HIDE DEF r
  <2> QED BY <1>2, <2>1, <2>2 DEF Takes
<1>9. ASSUME NEW outcome, NEW usage, Answer(c, outcome, usage)
      PROVE  (\E r : Takes(c, r)) /\ flaws' \subseteq {"dear"}
  <2> DEFINE r == [call[c] EXCEPT !.at = "releasing", !.tries = 0, !.cost = Cost(c, usage), !.read = reserved]
  <2>1. /\ call' = [call EXCEPT ![c] = r] /\ reserved' = reserved
        /\ flaws' \subseteq flaws \cup {"dear"}
    BY <1>9 DEF Answer
  <2>2. IsCall(r) /\ r.at = "releasing" /\ r.read = reserved
    BY <1>2 DEF IsCall, Fields
  <2> HIDE DEF r
  <2> QED BY <1>2, <2>1, <2>2 DEF Takes
<1> QED BY <1>3, <1>4, <1>5, <1>6, <1>7, <1>8, <1>9 DEF RequestStep, Settling

-----------------------------------------------------------------------------
(***************************************************************************)
(* Who is at work                                                          *)
(***************************************************************************)
Resting == {"off", "queued"}
InRequest == {"waiting", "final", "tools", "error"}

Worker ==
  [at : {"off", "queued", "asking", "ended"} \cup InRequest, step : Nat, ok : BOOLEAN]

(* A worker belongs to the batch under way, and only one is awaited.       *)
Workers ==
  /\ worker \in [Positions -> Worker]
  /\ status = [p \in Positions |-> status[p]]
  /\ \A p \in Positions : worker[p].at # "off" => Executing /\ p \in Batch
  /\ \A p \in Positions : worker[p].at # "off" <=> status[p] = "running"
  /\ \A p, q \in Positions :
       worker[p].at \notin Resting /\ worker[q].at \notin Resting => p = q

(* Only who is at work has a request under way.                            *)
Requesting ==
  /\ ~Idle(Planner) => phase \in {"planning", "synthesis"}
  /\ \A p \in Positions : ~Idle(p) => worker[p].at \in InRequest

InTurn == GuardInv /\ Workers /\ Requesting

LEMMA CallersAre ==
  Callers = {Planner} \cup Positions /\ Planner \notin Positions
BY SwarmAssumption DEF Planner, Positions

LEMMA PlannerAlone ==
  ASSUME Workers, Requesting, phase # "running"
  PROVE  Alone(Planner)
BY CallersAre DEF Workers, Requesting, Alone, Executing, InRequest

LEMMA WorkerAlone ==
  ASSUME Workers, Requesting, NEW p \in Positions, worker[p].at \notin Resting
  PROVE  Alone(p)
<1>1. phase = "running"
  BY DEF Workers, Executing, Resting
<1>2. \A q \in Positions \ {p} : Idle(q)
  BY DEF Workers, Requesting, Resting, InRequest
<1> QED BY <1>1, <1>2, CallersAre DEF Requesting, Alone

LEMMA HeardStates ==
  \A provider : \A outcome \in Outcomes(provider) : Heard(provider, outcome) \in {"final", "tools", "error"}
BY DEF Outcomes, Heard, Failures

LEMMA InitInTurn == Init => InTurn
<1> SUFFICES ASSUME Init PROVE InTurn
  OBVIOUS
<1>1. GuardInv
  <2>1. IsCall(NoCall) /\ NoCall.at = "idle"
    BY DEF IsCall, Fields, NoCall
  <2> QED BY <2>1 DEF Init, GuardInit, GuardInv, Reads
<1>2. \A c \in Callers : Idle(c)
  BY DEF Init, GuardInit, Idle, NoCall
<1>3. NoWorker \in Worker /\ NoWorker.at = "off"
  BY DEF NoWorker, Worker
<1>4. worker = [p \in Positions |-> NoWorker] /\ status = [p \in Positions |-> "pending"]
  BY DEF Init
<1>5. Workers
  BY <1>3, <1>4 DEF Workers, Resting
<1> QED BY <1>1, <1>2, <1>5, CallersAre DEF InTurn, Requesting

-----------------------------------------------------------------------------
(***************************************************************************)
(* The planner                                                             *)
(***************************************************************************)
LEMMA PlannerStepInTurn ==
  ASSUME InTurn, PlannerStep
  PROVE  InTurn'
<1> USE DEF InTurn
<1>0. Planner \in Callers
  BY CallersAre
<1>1. phase # "running"
  <2>1. ~Idle(Planner) => phase # "running"
    BY DEF Requesting
  <2>2. PlannerAnswered \/ PlannerSettles => ~Idle(Planner)
    BY DEF PlannerAnswered, PlannerSettles, Retry, Answer, Settling, Release, ReadSpent, Idle
  <2> QED BY <2>1, <2>2 DEF PlannerStep, PlannerAsks, Decompose, Synthesize
<1>2. Alone(Planner)
  BY <1>1, PlannerAlone
<1>3. RequestStep(Planner)
  BY DEF PlannerStep, PlannerAsks, PlannerAnswered, PlannerSettles, Decompose, Synthesize, RequestStep
<1>4. GuardInv' /\ Alone(Planner)'
  BY <1>0, <1>2, <1>3, GuardSteps
<1>5. \A p \in Positions : Idle(p)'
  BY <1>4, CallersAre DEF Alone
<1>6. \A p \in Positions : worker[p].at = "off"
  BY <1>1 DEF Workers, Executing
<1>7. UNCHANGED <<worker, status>>
  BY DEF PlannerStep, PlannerAsks, PlannerAnswered, PlannerSettles, Decompose, Synthesize, Adopt, swarmVars
<1>8. Workers'
  BY <1>6, <1>7 DEF Workers, Resting
<1>9. CASE phase' = phase
  <2>1. phase' \in {"planning", "synthesis"} \/ Idle(Planner)'
    BY <1>9 DEF PlannerStep, PlannerAsks, PlannerAnswered, PlannerSettles, Decompose, Synthesize, Adopt,
         Requesting, Retry, Answer, Settling, Release, ReadSpent, Idle
  <2> QED BY <1>4, <1>5, <1>8, <2>1 DEF Requesting
<1>10. CASE phase' # phase
  <2>1. Decompose \/ Synthesize
    BY <1>10 DEF PlannerStep, PlannerAsks, PlannerAnswered, PlannerSettles, swarmVars
  <2>2. Book(Planner) \/ Refused(Planner)
    BY <2>1 DEF Decompose, Synthesize
  <2>3. Idle(Planner)'
    <3>1. CASE Book(Planner)
      <4>1. call' = [call EXCEPT ![Planner] = NoCall]
        BY <3>1 DEF Book
      <4> QED BY <1>0, <4>1 DEF Idle, NoCall, GuardInv
    <3>2. CASE Refused(Planner)
      BY <3>2 DEF Refused, guardVars, Idle
    <3> QED BY <2>2, <3>1, <3>2
  <2> QED BY <1>4, <1>5, <1>8, <2>3 DEF Requesting
<1> QED BY <1>9, <1>10

-----------------------------------------------------------------------------
(***************************************************************************)
(* The batches                                                             *)
(***************************************************************************)
LEMMA StartBatchInTurn ==
  ASSUME InTurn, ~parallel, StartBatch
  PROVE  InTurn'
<1> USE DEF InTurn
<1>1. \A p \in Positions : worker[p].at = "off"
  BY DEF StartBatch, Workers
<1>2. /\ UNCHANGED <<guardVars, phase, batches, current>> /\ Executing
      /\ status' = [p \in Positions |-> IF p \in Batch THEN "running" ELSE status[p]]
      /\ worker' = [p \in Positions |-> IF p \in Batch THEN [NoWorker EXCEPT !.at = "queued"] ELSE worker[p]]
  BY DEF StartBatch
<1>3. [NoWorker EXCEPT !.at = "queued"] \in Worker /\ [NoWorker EXCEPT !.at = "queued"].at = "queued"
  BY DEF NoWorker, Worker
<1>4. worker' \in [Positions -> Worker] /\ \A p \in Positions : worker'[p].at \in Resting
  BY <1>1, <1>2, <1>3 DEF Workers, Resting
<1>5. \A p \in Positions : /\ worker'[p].at # "off" <=> p \in Batch
                           /\ status'[p] = "running" <=> p \in Batch
  BY <1>1, <1>2, <1>3 DEF Workers
<1>6. Workers'
  BY <1>2, <1>4, <1>5 DEF Workers, Executing, Batch
<1>7. \A c \in Callers : Idle(c)' <=> Idle(c)
  BY <1>2 DEF guardVars, Idle
<1>8. Requesting'
  BY <1>1, <1>2, <1>7, CallersAre DEF Requesting, Executing, InRequest
<1>9. GuardInv'
  BY <1>2 DEF guardVars, GuardInv, Reads
<1> QED BY <1>6, <1>8, <1>9

LEMMA BatchesDoneInTurn ==
  ASSUME InTurn, BatchesDone
  PROVE  InTurn'
<1> USE DEF InTurn
<1>1. /\ UNCHANGED <<guardVars, batches, current, status, worker>> /\ phase' = "synthesis"
      /\ \A p \in Positions : worker[p].at = "off"
  BY DEF BatchesDone, Workers
<1>2. \A c \in Callers : Idle(c)' <=> Idle(c)
  BY <1>1 DEF guardVars, Idle
<1>3. Workers'
  BY <1>1 DEF Workers, Resting
<1>4. Requesting'
  BY <1>1, <1>2, CallersAre DEF Requesting, InRequest
<1>5. GuardInv'
  BY <1>1 DEF guardVars, GuardInv, Reads
<1> QED BY <1>3, <1>4, <1>5

(* A worker that goes on in its batch.                                     *)
LEMMA WorkerMoves ==
  ASSUME Workers, NEW p \in Positions, NEW w \in Worker, w.at # "off",
         worker[p].at # "off",
         worker[p].at \notin Resting \/ \A q \in Positions : worker[q].at \in Resting,
         worker' = [worker EXCEPT ![p] = w],
         UNCHANGED <<phase, batches, current, status>>
  PROVE  Workers'
<1>1. worker' \in [Positions -> Worker] /\ worker'[p] = w
      /\ \A q \in Positions \ {p} : worker'[q] = worker[q]
  BY DEF Workers
<1>2. \A q \in Positions \ {p} : worker[q].at \in Resting
  BY DEF Workers
<1>3. \A q, r \in Positions : worker'[q].at \notin Resting /\ worker'[r].at \notin Resting => q = r
  BY <1>1, <1>2
<1> QED BY <1>1, <1>3 DEF Workers, Executing, Batch

(* A request of the one that is at work.                                   *)
LEMMA WorkerRequests ==
  ASSUME InTurn, NEW p \in Positions, worker[p].at \notin Resting, RequestStep(p),
         UNCHANGED phase
  PROVE  /\ GuardInv' /\ \A c \in Callers \ {p} : Idle(c)'
         /\ (\A q \in Positions \ {p} : worker'[q] = worker[q])
              => (Idle(p)' \/ worker'[p].at \in InRequest => Requesting')
<1>1. Alone(p)
  BY WorkerAlone DEF InTurn
<1>2. p \in Callers
  BY CallersAre
<1>3. GuardInv' /\ Alone(p)'
  BY <1>1, <1>2, GuardSteps DEF InTurn
<1> QED BY <1>3, CallersAre DEF Alone, Requesting

LEMMA AskInTurn ==
  ASSUME InTurn, NEW p \in Positions, Ask(p)
  PROVE  InTurn'
<1> USE DEF InTurn
<1>1. worker[p] \in Worker /\ worker[p].at = "asking"
  BY DEF Ask, Workers
<1>2. PICK w : /\ worker' = [worker EXCEPT ![p] = w]
               /\ \/ Authorize(p) /\ w = [worker[p] EXCEPT !.at = "waiting", !.step = @ + 1]
                  \/ Refused(p) /\ w = Ended(p, FALSE)
  BY DEF Ask, WorkerGoes
<1> DEFINE asked == [worker[p] EXCEPT !.at = "waiting", !.step = worker[p].step + 1]
<1>a. asked \in Worker /\ asked.at = "waiting"
  <2>1. worker[p].step \in Nat /\ worker[p].step + 1 \in Nat
    BY <1>1 DEF Worker
  <2> QED BY <1>1, <2>1 DEF Worker, InRequest
<1>b. Ended(p, FALSE) \in Worker /\ Ended(p, FALSE).at = "ended"
  BY <1>1 DEF Worker, InRequest, Ended
<1>3. w \in Worker
  BY <1>2, <1>a, <1>b
<1>4. (Authorize(p) /\ w.at = "waiting") \/ (Refused(p) /\ w.at = "ended")
  BY <1>2, <1>a, <1>b
<1>5. UNCHANGED <<phase, batches, current, status>>
  BY DEF Ask, WorkerGoes
<1>6. Workers'
  BY <1>1, <1>2, <1>3, <1>4, <1>5, WorkerMoves DEF Resting
<1>7. worker'[p] = w /\ \A q \in Positions \ {p} : worker'[q] = worker[q]
  BY <1>2 DEF Workers
<1>8. Idle(p)' \/ worker'[p].at \in InRequest
  <2>1. Idle(p)
    BY <1>1 DEF Requesting, InRequest
  <2>2. Refused(p) => Idle(p)'
    BY <2>1 DEF Refused, guardVars, Idle
  <2> QED BY <1>4, <1>7, <2>2 DEF InRequest
<1> QED BY <1>1, <1>4, <1>5, <1>6, <1>7, <1>8, WorkerRequests DEF RequestStep, Resting

LEMMA AnsweredInTurn ==
  ASSUME InTurn, NEW p \in Positions, Answered(p)
  PROVE  InTurn'
<1> USE DEF InTurn
<1>1. worker[p] \in Worker /\ worker[p].at = "waiting"
  BY DEF Answered, Workers
<1>2. PICK outcome \in Outcomes(policy.provider) :
        \/ Retry(p, outcome) /\ UNCHANGED swarmVars
        \/ \E usage \in Usages \cup {Unmeasured} :
             /\ Answer(p, outcome, usage)
             /\ WorkerGoes(p, [worker[p] EXCEPT !.at = Heard(policy.provider, outcome)])
  BY DEF Answered
<1>3. RequestStep(p)
  BY <1>2 DEF RequestStep
<1> DEFINE heard == Heard(policy.provider, outcome)
           w == [worker[p] EXCEPT !.at = heard]
<1>4. heard \in {"final", "tools", "error"}
  BY HeardStates
<1>5. w \in Worker /\ w.at = heard
  BY <1>1, <1>4 DEF Worker, InRequest
<1>6. UNCHANGED <<phase, batches, current, status>>
  BY <1>2 DEF WorkerGoes, swarmVars
<1>7. worker' = worker \/ worker' = [worker EXCEPT ![p] = w]
  BY <1>2 DEF WorkerGoes, swarmVars
<1> HIDE DEF heard, w
<1>8. Workers'
  <2>1. CASE worker' = worker
    BY <1>6, <2>1 DEF Workers, Executing, Batch
  <2>2. CASE worker' = [worker EXCEPT ![p] = w]
    BY <1>1, <1>4, <1>5, <1>6, <2>2, WorkerMoves DEF Resting
  <2> QED BY <1>7, <2>1, <2>2
<1>9. worker'[p].at \in InRequest /\ \A q \in Positions \ {p} : worker'[q] = worker[q]
  <2>1. worker \in [Positions -> Worker]
    BY DEF Workers
  <2> QED BY <1>1, <1>4, <1>5, <1>7, <2>1 DEF InRequest
<1> QED BY <1>1, <1>3, <1>6, <1>8, <1>9, WorkerRequests DEF Resting

LEMMA SettlesInTurn ==
  ASSUME InTurn, NEW p \in Positions, Settles(p)
  PROVE  InTurn'
<1> USE DEF InTurn
<1>1. worker[p].at \in InRequest
  BY DEF Settles, Settling, Release, ReadSpent, Requesting, Idle
<1>2. UNCHANGED <<phase, batches, current, status, worker>>
  BY DEF Settles, swarmVars
<1>3. Workers'
  BY <1>2 DEF Workers, Executing, Batch
<1>4. RequestStep(p)
  BY DEF Settles, RequestStep
<1> QED BY <1>1, <1>2, <1>3, <1>4, WorkerRequests DEF Resting, InRequest

LEMMA ContinueInTurn ==
  ASSUME InTurn, NEW p \in Positions, Continue(p)
  PROVE  InTurn'
<1> USE DEF InTurn
<1>1. worker[p] \in Worker /\ worker[p].at \in InRequest
  BY DEF Continue, Book, Requesting, Workers, Idle
<1>2. PICK w : /\ WorkerGoes(p, w)
               /\ w \in {Ended(p, TRUE), Ended(p, FALSE), [worker[p] EXCEPT !.at = "asking"]}
  BY DEF Continue
<1>3. w \in Worker /\ w.at # "off"
  BY <1>1, <1>2 DEF Worker, Ended
<1>4. worker' = [worker EXCEPT ![p] = w] /\ UNCHANGED <<phase, batches, current, status>>
  BY <1>2 DEF WorkerGoes
<1>5. Workers'
  BY <1>1, <1>3, <1>4, WorkerMoves DEF Resting, InRequest
<1>6. Book(p) /\ p \in Callers
  BY CallersAre DEF Continue
<1>7. Idle(p)'
  BY <1>6 DEF Book, GuardInv, Idle, NoCall
<1>8. \A q \in Positions \ {p} : worker'[q] = worker[q]
  BY <1>4 DEF Workers
<1> QED BY <1>1, <1>4, <1>5, <1>6, <1>7, <1>8, WorkerRequests DEF RequestStep, Resting, InRequest

(* Steps of a worker that make no request.                                 *)
LEMMA QuietStep ==
  ASSUME InTurn, UNCHANGED <<guardVars, phase>>, Workers',
         \A q \in Positions : worker[q].at \in InRequest => worker'[q].at \in InRequest
  PROVE  InTurn'
<1>1. \A c \in Callers : Idle(c)' <=> Idle(c)
  BY DEF guardVars, Idle
<1>2. Requesting'
  BY <1>1, CallersAre DEF InTurn, Requesting
<1>3. GuardInv'
  BY DEF InTurn, guardVars, GuardInv, Reads
<1> QED BY <1>2, <1>3 DEF InTurn

LEMMA AwaitInTurn ==
  ASSUME InTurn, NEW p \in Positions, Await(p)
  PROVE  InTurn'
<1> USE DEF InTurn
<1> DEFINE w == [worker[p] EXCEPT !.at = "asking"]
<1>1. worker[p] \in Worker /\ worker[p].at = "queued"
  BY DEF Await, Workers
<1>2. w \in Worker /\ w.at = "asking"
  BY <1>1 DEF Worker
<1>3. \A q \in Positions : worker[q].at \in Resting
  BY DEF Await, Workers, Resting
<1>4. worker' = [worker EXCEPT ![p] = w] /\ UNCHANGED <<guardVars, phase, batches, current, status>>
  BY DEF Await
<1> HIDE DEF w
<1>5. Workers'
  BY <1>1, <1>2, <1>3, <1>4, WorkerMoves
<1> QED BY <1>3, <1>4, <1>5, QuietStep DEF Resting, InRequest

LEMMA GiveUpInTurn ==
  ASSUME InTurn, NEW p \in Positions, GiveUp(p)
  PROVE  InTurn'
<1> USE DEF InTurn
<1>1. worker[p] \in Worker /\ worker[p].at = "asking"
  BY DEF GiveUp, Workers
<1>2. Ended(p, FALSE) \in Worker /\ Ended(p, FALSE).at = "ended"
  BY <1>1 DEF Worker, Ended
<1>3. worker' = [worker EXCEPT ![p] = Ended(p, FALSE)]
      /\ UNCHANGED <<guardVars, phase, batches, current, status>>
  BY DEF GiveUp, WorkerGoes
<1>4. Workers'
  BY <1>1, <1>2, <1>3, WorkerMoves DEF Resting
<1>5. \A q \in Positions \ {p} : worker'[q] = worker[q]
  BY <1>3 DEF Workers
<1> QED BY <1>1, <1>3, <1>4, <1>5, QuietStep DEF InRequest

LEMMA CollectOneInTurn ==
  ASSUME InTurn, NEW p \in Positions, CollectOne(p)
  PROVE  InTurn'
<1> USE DEF InTurn
<1>1. worker[p].at = "ended" /\ UNCHANGED <<guardVars, phase, batches>>
  BY DEF CollectOne, Collected
<1>2. /\ worker' = [q \in Positions |-> IF q = p THEN NoWorker ELSE worker[q]]
      /\ status' = [q \in Positions |-> IF q = p THEN Outcome(p) ELSE status[q]]
  BY DEF CollectOne, Collected
<1>3. NoWorker \in Worker /\ NoWorker.at = "off" /\ Outcome(p) # "running"
  BY DEF NoWorker, Worker, Outcome
<1>4. worker' \in [Positions -> Worker] /\ status' = [q \in Positions |-> status'[q]]
  BY <1>2, <1>3 DEF Workers
<1>5. \A q \in Positions : worker'[q].at # "off" <=> status'[q] = "running"
  BY <1>2, <1>3 DEF Workers
<1>6. \A q, r \in Positions : worker'[q].at \notin Resting /\ worker'[r].at \notin Resting => q = r
  BY <1>2, <1>3 DEF Workers, Resting
<1>7. \A q \in Positions : worker'[q].at # "off" => Executing' /\ q \in Batch'
  <2>1. SUFFICES ASSUME NEW q \in Positions, worker'[q].at # "off" PROVE Executing' /\ q \in Batch'
    OBVIOUS
  <2>2. q # p /\ worker[q].at # "off"
    BY <1>2, <1>3, <2>1
  <2>3. Executing /\ q \in Batch /\ status[q] = "running"
    BY <2>2 DEF Workers
  <2>4. current' = current
    BY <2>2, <2>3 DEF CollectOne
  <2> QED BY <1>1, <2>3, <2>4 DEF Executing, Batch
<1>8. Workers'
  BY <1>4, <1>5, <1>6, <1>7 DEF Workers
<1>9. \A q \in Positions : worker[q].at \in InRequest => worker'[q].at \in InRequest
  BY <1>1, <1>2 DEF InRequest
<1> QED BY <1>1, <1>8, <1>9, QuietStep

-----------------------------------------------------------------------------
(***************************************************************************)
(* What a swarm has worked on                                              *)
(***************************************************************************)
Statuses == {"pending", "running", "done", "failed"}

Over(p) == status[p] \in {"done", "failed"}
Before(k) == {p \in Positions : \E j \in 1 .. k - 1 : p \in batches[j]}
Results(ps) == {plan[p].id : p \in ps}

(* Only who is running has a worker.                                       *)
Working ==
  /\ status \in [Positions -> Statuses] /\ worker \in [Positions -> Worker]
  /\ \A p \in Positions : /\ worker[p].at = "off" => worker[p] = NoWorker
                          /\ worker[p].at # "off" <=> status[p] = "running"

(* Before there is a plan nothing has been started.                        *)
Unplanned ==
  /\ batches = <<>> /\ current = 1 /\ shared = {}
  /\ \A p \in Positions : status[p] = "pending"

(* The batches are worked on one after the other, and each to its end.     *)
OneByOne ==
  /\ current \in 1 .. Len(batches) + 1
  /\ phase # "running" => current = Len(batches) + 1
  /\ \A p \in Positions : status[p] # "pending" =>
       \E k \in 1 .. current : k <= Len(batches) /\ p \in batches[k]
  /\ \A p \in Before(current) : Over(p)
  /\ current <= Len(batches) =>
       \/ \A p \in Batch : status[p] = "pending"
       \/ /\ \A p \in Batch : status[p] # "pending" /\ (parallel => status[p] = "running")
          /\ \E p \in Batch : status[p] = "running"

(* A result is shared once its task is over, and with the later batches.   *)
Sharing ==
  /\ shared = Results({p \in Positions : Over(p)})
  /\ \A k \in 1 .. Len(batches) : \A p \in batches[k] :
       status[p] # "pending" => context[p] = Results(Before(k))

Progress ==
  /\ Working
  /\ phase = "planning" => Unplanned
  /\ phase # "planning" => SoundPlan(plan) /\ Sound(batches, plan) /\ OneByOne /\ Sharing

LEMMA InitProgress == Init => Progress
<1> SUFFICES ASSUME Init PROVE Progress
  OBVIOUS
<1>1. NoWorker \in Worker /\ NoWorker.at = "off"
  BY DEF NoWorker, Worker
<1>2. Working
  BY <1>1 DEF Init, Working, Statuses
<1> QED BY <1>2 DEF Init, Progress, Unplanned

LEMMA StillProgress ==
  Progress /\ UNCHANGED swarmVars => Progress'
BY DEF Progress, Working, Unplanned, OneByOne, Sharing, Over, Before, Results, Batch, swarmVars

(* The batches of a plan are sets of its tasks, each in one of them.       *)
LEMMA BatchFacts ==
  ASSUME SoundPlan(plan), Sound(batches, plan)
  PROVE  /\ Len(batches) \in Nat /\ DOMAIN plan \subseteq Positions
         /\ \A k \in 1 .. Len(batches) : batches[k] \subseteq DOMAIN plan /\ batches[k] # {}
         /\ \A j, k \in 1 .. Len(batches) : \A p \in batches[j] : p \in batches[k] => j = k
<1>1. DOMAIN plan \subseteq Positions
  <2>1. Len(plan) \in 1 .. MaxAgents /\ DOMAIN plan = 1 .. Len(plan)
    BY DEF SoundPlan
  <2>2. MaxAgents \in Nat
    BY SwarmAssumption
  <2> QED BY <2>1, <2>2 DEF Positions
<1> QED BY <1>1 DEF Sound

(* A worker that goes on.                                                  *)
LEMMA WorkerProgress ==
  ASSUME Progress, NEW p \in Positions, NEW w \in Worker, w.at # "off", worker[p].at # "off",
         worker' = [worker EXCEPT ![p] = w],
         UNCHANGED <<phase, parallel, plan, batches, current, status, shared, context>>
  PROVE  Progress'
<1>1. Working'
  <2>1. /\ worker' \in [Positions -> Worker] /\ worker'[p] = w
        /\ \A q \in Positions \ {p} : worker'[q] = worker[q]
    BY DEF Progress, Working
  <2> QED BY <2>1 DEF Progress, Working
<1> QED BY <1>1 DEF Progress, Unplanned, OneByOne, Sharing, Over, Before, Results, Batch

LEMMA StartBatchProgress ==
  ASSUME Progress, StartBatch
  PROVE  Progress'
<1>1. /\ phase = "running" /\ current <= Len(batches) /\ \A p \in Batch : status[p] = "pending"
      /\ UNCHANGED <<phase, parallel, plan, batches, current, shared>>
  BY DEF StartBatch, Executing
<1>2. /\ Working /\ SoundPlan(plan) /\ Sound(batches, plan) /\ OneByOne /\ Sharing
      /\ current \in 1 .. Len(batches)
  <2>1. Working /\ SoundPlan(plan) /\ Sound(batches, plan) /\ OneByOne /\ Sharing
    BY <1>1 DEF Progress
  <2> QED BY <1>1, <2>1, BatchFacts DEF OneByOne
<1>3. Batch \subseteq Positions /\ Batch # {}
  BY <1>2, BatchFacts DEF Batch
<1>4. /\ status' \in [Positions -> Statuses]
      /\ \A p \in Positions : status'[p] = IF p \in Batch THEN "running" ELSE status[p]
      /\ \A p \in Positions : p \in Batch => context'[p] = shared
      /\ \A p \in Positions : p \notin Batch => context'[p] = context[p]
  BY <1>2 DEF StartBatch, Working, Statuses
<1>5. Working'
  <2> DEFINE w == [NoWorker EXCEPT !.at = IF parallel THEN "asking" ELSE "queued"]
  <2>1. w \in Worker /\ w.at # "off"
    BY DEF NoWorker, Worker
  <2>2. worker' = [p \in Positions |-> IF p \in Batch THEN w ELSE worker[p]]
    BY DEF StartBatch
  <2> HIDE DEF w
  <2> QED BY <1>2, <1>3, <1>4, <2>1, <2>2 DEF Working
<1>6. /\ Batch' = Batch /\ \A k : Before(k)' = Before(k) /\ \A ps : Results(ps)' = Results(ps)
      /\ \A p \in Positions : Over(p)' <=> Over(p)
  <2>1. \A p \in Positions : Over(p)' <=> Over(p)
    BY <1>1, <1>4 DEF Over
  <2> QED BY <1>1, <2>1 DEF Batch, Before, Results
<1>7. OneByOne'
  <2>1. ASSUME NEW p \in Positions, status'[p] # "pending"
        PROVE  \E k \in 1 .. current : k <= Len(batches) /\ p \in batches[k]
    <3>1. CASE p \in Batch
      BY <1>2, <3>1, BatchFacts DEF Batch
    <3>2. CASE p \notin Batch
      BY <1>2, <1>4, <2>1, <3>2 DEF OneByOne
    <3> QED BY <3>1, <3>2
  <2>2. \A p \in Before(current) : Over(p)'
    BY <1>2, <1>6 DEF OneByOne, Before
  <2>3. \A p \in Batch : status'[p] = "running"
    BY <1>3, <1>4
  <2> QED BY <1>1, <1>2, <1>3, <1>6, <2>1, <2>2, <2>3 DEF OneByOne
<1>8. Before(current) = {p \in Positions : Over(p)}
  <2>1. ASSUME NEW p \in Positions, Over(p) PROVE p \in Before(current)
    <3>1. PICK k \in 1 .. current : k <= Len(batches) /\ p \in batches[k]
      BY <1>2, <2>1 DEF OneByOne, Over
    <3>2. k # current
      BY <1>1, <2>1, <3>1 DEF Batch, Over
    <3>3. k \in 1 .. current - 1
      BY <1>2, <3>1, <3>2
    <3> QED BY <3>1, <3>3 DEF Before
  <2> QED BY <1>2, <2>1 DEF OneByOne, Before
<1>9. Sharing'
  <2>1. ASSUME NEW k \in 1 .. Len(batches), NEW p \in batches[k], status'[p] # "pending"
        PROVE  context'[p] = Results(Before(k))
    <3>1. p \in Positions
      BY <1>2, BatchFacts
    <3>2. CASE p \in Batch
      <4>1. k = current
        BY <1>2, <3>2, BatchFacts DEF Batch
      <4> QED BY <1>2, <1>4, <1>8, <3>1, <3>2, <4>1 DEF Sharing
    <3>3. CASE p \notin Batch
      BY <1>2, <1>4, <2>1, <3>1, <3>3 DEF Sharing
    <3> QED BY <3>2, <3>3
  <2>2. shared' = Results({p \in Positions : Over(p)'})
    BY <1>1, <1>2, <1>6 DEF Sharing
  <2> QED BY <1>1, <1>6, <2>1, <2>2 DEF Sharing
<1> QED BY <1>1, <1>2, <1>5, <1>7, <1>9 DEF Progress

(* Tasks of the batch under way end, and with the last of them the batch.  *)
LEMMA CollectedProgress ==
  ASSUME Progress, Executing, NEW ps, ps # {}, \A p \in ps : p \in Batch /\ status[p] = "running",
         parallel => ps = Batch, Collected(ps),
         current' = IF \A q \in Batch \ ps : status[q] # "running" THEN current + 1 ELSE current
  PROVE  Progress'
<1>1. /\ phase = "running" /\ current <= Len(batches) /\ UNCHANGED <<phase, parallel, plan, batches, context>>
  BY DEF Executing, Collected
<1>2. /\ Working /\ SoundPlan(plan) /\ Sound(batches, plan) /\ OneByOne /\ Sharing
      /\ current \in 1 .. Len(batches)
  <2>1. Working /\ SoundPlan(plan) /\ Sound(batches, plan) /\ OneByOne /\ Sharing
    BY <1>1 DEF Progress
  <2> QED BY <1>1, <2>1, BatchFacts DEF OneByOne
<1>3. Batch \subseteq Positions /\ ps \subseteq Batch
  BY <1>2, BatchFacts DEF Batch
<1>4. /\ status' \in [Positions -> Statuses]
      /\ \A p \in Positions : status'[p] = IF p \in ps THEN Outcome(p) ELSE status[p]
      /\ \A p : Outcome(p) \in {"done", "failed"}
  BY <1>2 DEF Collected, Working, Statuses, Outcome
<1>5. Working'
  <2>1. worker' = [p \in Positions |-> IF p \in ps THEN NoWorker ELSE worker[p]]
    BY DEF Collected
  <2>2. NoWorker \in Worker /\ NoWorker.at = "off"
    BY DEF NoWorker, Worker
  <2>3. worker' \in [Positions -> Worker]
    BY <1>2, <2>1, <2>2 DEF Working
  <2>4. ASSUME NEW p \in Positions
        PROVE  /\ worker'[p].at = "off" => worker'[p] = NoWorker
               /\ worker'[p].at # "off" <=> status'[p] = "running"
    <3>1. CASE p \in ps
      BY <1>4, <2>1, <2>2, <3>1
    <3>2. CASE p \notin ps
      BY <1>2, <1>4, <2>1, <3>2 DEF Working
    <3> QED BY <3>1, <3>2
  <2> QED BY <1>4, <2>3, <2>4 DEF Working
<1>6. \A p \in Positions : /\ Over(p)' <=> Over(p) \/ p \in ps
                           /\ status'[p] = "pending" <=> status[p] = "pending"
  BY <1>4 DEF Over
<1>7. \A k : Before(k)' = Before(k) /\ \A q : Results(q)' = Results(q)
  BY <1>1 DEF Before, Results
<1>8. \A p \in Batch : status[p] # "pending"
  BY <1>2 DEF OneByOne
<1>9. \A k \in 1 .. Len(batches) : \A p \in batches[k] : p \in Positions
  BY <1>2, BatchFacts
<1>10. OneByOne'
  <2>1. CASE \A q \in Batch \ ps : status[q] # "running"
    <3>1. current' = current + 1
      BY <2>1
    <3>2. current + 1 \in 1 .. Len(batches) + 1
      BY <1>2, BatchFacts
    <3>3. ASSUME NEW p \in Positions, status'[p] # "pending"
          PROVE  \E k \in 1 .. current + 1 : k <= Len(batches) /\ p \in batches[k]
      <4>1. PICK k \in 1 .. current : k <= Len(batches) /\ p \in batches[k]
        BY <1>2, <1>6, <3>3 DEF OneByOne
      <4>2. k \in 1 .. current + 1
        BY <1>2
      <4> QED BY <4>1, <4>2
    <3>4. ASSUME NEW p \in Before(current + 1) PROVE Over(p)'
      <4>1. p \in Before(current) \/ p \in Batch
        BY <1>2, <3>4 DEF Before, Batch
      <4>2. CASE p \in Before(current)
        BY <1>2, <1>6, <4>2 DEF OneByOne, Before
      <4>3. CASE p \in Batch
        <5>1. p \in Positions /\ status[p] # "pending" /\ status[p] \in Statuses
          BY <1>2, <1>3, <1>8, <4>3 DEF Working
        <5>2. p \in ps \/ Over(p)
          BY <2>1, <4>3, <5>1 DEF Statuses, Over
        <5> QED BY <1>6, <5>1, <5>2
      <4> QED BY <4>1, <4>2, <4>3
    <3>5. ASSUME current + 1 <= Len(batches), NEW p \in batches[current + 1] PROVE status'[p] = "pending"
      <4>1. current + 1 \in 1 .. Len(batches)
        BY <1>2, <3>5
      <4>2. p \in Positions
        BY <1>9, <3>5, <4>1
      <4>3. SUFFICES ASSUME status[p] # "pending" PROVE FALSE
        BY <1>6, <4>2
      <4>4. PICK k \in 1 .. current : k <= Len(batches) /\ p \in batches[k]
        BY <1>2, <4>2, <4>3 DEF OneByOne
      <4>5. k \in 1 .. Len(batches) /\ k # current + 1
        BY <1>2, <4>4
      <4> QED BY <1>2, <3>5, <4>1, <4>4, <4>5, BatchFacts
    <3>6. Batch' = batches[current + 1] /\ Before(current)' = Before(current + 1)
      BY <1>1, <3>1 DEF Batch, Before
    <3> QED BY <1>1, <3>1, <3>2, <3>3, <3>4, <3>5, <3>6 DEF OneByOne
  <2>2. CASE \E q \in Batch \ ps : status[q] = "running"
    <3>1. current' = current /\ Batch' = Batch /\ ~parallel
      BY <1>1, <2>2 DEF Batch
    <3>2. \A p \in Positions : status'[p] # "pending" =>
            \E k \in 1 .. current : k <= Len(batches) /\ p \in batches[k]
      BY <1>2, <1>6 DEF OneByOne
    <3>3. \A p \in Before(current) : Over(p)'
      BY <1>2, <1>6 DEF OneByOne, Before
    <3>4. /\ \A p \in Batch : status'[p] # "pending"
          /\ \E p \in Batch : status'[p] = "running"
      BY <1>3, <1>4, <1>6, <1>8, <2>2
    <3> QED BY <1>1, <1>2, <1>7, <3>1, <3>2, <3>3, <3>4 DEF OneByOne
  <2> QED BY <2>1, <2>2
<1>11. Sharing'
  <2>1. shared' = Results({p \in Positions : Over(p)'})
    <3>1. shared' = shared \cup Results(ps)
      BY DEF Collected, Results
    <3>2. {p \in Positions : Over(p)'} = {p \in Positions : Over(p)} \cup ps
      BY <1>3, <1>6
    <3> QED BY <1>2, <3>1, <3>2 DEF Sharing, Results
  <2>2. \A k \in 1 .. Len(batches) : \A p \in batches[k] :
          status'[p] # "pending" => context'[p] = Results(Before(k))
    BY <1>1, <1>2, <1>6, <1>9 DEF Sharing
  <2> QED BY <1>1, <1>7, <2>1, <2>2 DEF Sharing
<1> QED BY <1>1, <1>2, <1>5, <1>10, <1>11 DEF Progress

LEMMA DecomposeProgress ==
  ASSUME Progress, Decompose
  PROVE  Progress'
<1>1. phase = "planning" /\ Working /\ Unplanned
  BY DEF Decompose, Progress
<1>2. PICK tasks : SoundPlan(tasks) /\ Adopt(tasks)
  BY PlansSound DEF Decompose
<1>3. /\ plan' = tasks /\ batches' = Batches(tasks) /\ phase' = "running"
      /\ UNCHANGED <<parallel, current, status, worker, shared, context>>
  BY <1>2 DEF Adopt
<1>4. SoundPlan(plan)' /\ Sound(batches, plan)'
  <2>1. SoundPlan(tasks) /\ Sound(Batches(tasks), tasks)
    BY <1>2, BatchesSound
  <2> QED BY <1>3, <2>1
<1>5. /\ Len(batches') \in Nat /\ current' = 1
      /\ \A k \in 1 .. Len(batches') : \A p \in batches'[k] : p \in Positions
  <2>1. Len(batches)' \in Nat /\ \A k \in 1 .. Len(batches)' : \A p \in batches'[k] : p \in (DOMAIN plan)'
    BY <1>4 DEF Sound
  <2>2. (DOMAIN plan)' \subseteq Positions
    <3>1. Len(tasks) \in 1 .. MaxAgents /\ DOMAIN tasks = 1 .. Len(tasks)
      BY <1>2 DEF SoundPlan
    <3>2. MaxAgents \in Nat
      BY SwarmAssumption
    <3> QED BY <1>3, <3>1, <3>2 DEF Positions
  <2> QED BY <1>1, <1>3, <2>1, <2>2 DEF Unplanned
<1>6. \A p \in Positions : status'[p] = "pending"
  BY <1>1, <1>3 DEF Unplanned
<1>7. Before(current)' = {} /\ {p \in Positions : Over(p)'} = {}
  BY <1>5, <1>6 DEF Before, Over
<1>8. OneByOne'
  <2>1. current' <= Len(batches') => \A p \in Batch' : status'[p] = "pending"
    BY <1>5, <1>6 DEF Batch
  <2>2. current' \in 1 .. Len(batches') + 1
    BY <1>5
  <2> QED BY <1>3, <1>6, <1>7, <2>1, <2>2 DEF OneByOne
<1>9. Sharing'
  <2>1. shared' = {} /\ \A ps : ps = {} => Results(ps)' = {}
    BY <1>1, <1>3 DEF Unplanned, Results
  <2> QED BY <1>5, <1>6, <1>7, <2>1 DEF Sharing, Results
<1> QED BY <1>1, <1>3, <1>4, <1>8, <1>9 DEF Progress, Working

(* Between batches, and after the last one, no thread is at work.          *)
LEMMA PhaseProgress ==
  ASSUME Progress, BatchesDone \/ Synthesize
  PROVE  Progress'
<1>1. /\ phase # "planning" /\ phase' \in {"synthesis", "done"}
      /\ UNCHANGED <<parallel, plan, batches, current, status, worker, shared, context>>
  BY DEF BatchesDone, Synthesize
<1>2. Working /\ SoundPlan(plan) /\ Sound(batches, plan) /\ OneByOne /\ Sharing
  BY <1>1 DEF Progress
<1>3. current = Len(batches) + 1
  <2>1. CASE BatchesDone
    BY <1>2, <2>1, BatchFacts DEF BatchesDone, Executing, OneByOne
  <2>2. CASE Synthesize
    BY <1>2, <2>2 DEF Synthesize, OneByOne
  <2> QED BY <2>1, <2>2
<1>4. Working' /\ SoundPlan(plan)' /\ Sound(batches, plan)' /\ Sharing'
  BY <1>1, <1>2 DEF Working, SoundPlan, Sound, Sharing, Over, Before, Results
<1>5. OneByOne'
  BY <1>1, <1>2, <1>3 DEF OneByOne, Over, Before, Batch
<1> QED BY <1>1, <1>4, <1>5 DEF Progress

LEMMA GatherProgress ==
  ASSUME Progress, Gather
  PROVE  Progress'
<1>1. PICK ps : ps = Batch
  OBVIOUS
<1>2. phase = "running" /\ current <= Len(batches) /\ Executing
  BY DEF Gather, Executing
<1>3. Working /\ SoundPlan(plan) /\ Sound(batches, plan) /\ OneByOne
  BY <1>2 DEF Progress
<1>4. ps # {} /\ ps \subseteq Positions
  BY <1>1, <1>2, <1>3, BatchFacts DEF OneByOne, Batch
<1>5. \A p \in ps : p \in Batch /\ status[p] = "running"
  BY <1>1, <1>3, <1>4 DEF Gather, Working
<1>6. Collected(ps)
  <2>1. Collected(Batch)
    BY DEF Gather
  <2> QED BY <1>1, <2>1 DEF Collected
<1>7. current' = IF \A q \in Batch \ ps : status[q] # "running" THEN current + 1 ELSE current
  BY <1>1 DEF Gather
<1> QED BY <1>1, <1>2, <1>4, <1>5, <1>6, <1>7, CollectedProgress

LEMMA CollectOneProgress ==
  ASSUME Progress, NEW p \in Positions, CollectOne(p)
  PROVE  Progress'
<1>1. phase = "running" /\ current <= Len(batches) /\ Executing /\ ~parallel /\ worker[p].at = "ended"
  BY DEF CollectOne, Executing
<1>2. Working /\ SoundPlan(plan) /\ Sound(batches, plan) /\ OneByOne
  BY <1>1 DEF Progress
<1>3. status[p] = "running"
  BY <1>1, <1>2 DEF Working
<1>4. p \in Batch
  <2>1. PICK k \in 1 .. current : k <= Len(batches) /\ p \in batches[k]
    BY <1>2, <1>3 DEF OneByOne
  <2>2. k = current
    <3>1. SUFFICES ASSUME k # current PROVE FALSE
      OBVIOUS
    <3>2. current \in Nat
      BY <1>2, BatchFacts DEF OneByOne
    <3>3. k \in 1 .. current - 1
      BY <3>1, <3>2
    <3>4. Over(p)
      BY <1>2, <2>1, <3>3 DEF OneByOne, Before
    <3> QED BY <1>3, <3>4 DEF Over
  <2> QED BY <2>1, <2>2 DEF Batch
<1>5. Collected({p}) /\ current' = IF \A q \in Batch \ {p} : status[q] # "running" THEN current + 1 ELSE current
  BY DEF CollectOne
<1> QED BY <1>1, <1>3, <1>4, <1>5, CollectedProgress

(* The steps of an agent's loop.                                           *)
LEMMA LoopProgress ==
  ASSUME Progress, NEW p \in Positions, Await(p) \/ Ask(p) \/ Answered(p) \/ Continue(p) \/ GiveUp(p)
  PROVE  Progress'
<1>1. worker[p] \in Worker /\ worker \in [Positions -> Worker]
  BY DEF Progress, Working
<1>2. SUFFICES ASSUME ~UNCHANGED swarmVars PROVE Progress'
  BY StillProgress
<1>3. /\ UNCHANGED <<phase, parallel, plan, batches, current, status, shared, context>>
      /\ worker[p].at # "off"
      /\ \E w \in Worker : w.at # "off" /\ worker' = [worker EXCEPT ![p] = w]
  <2>1. \A ok \in BOOLEAN : Ended(p, ok) \in Worker /\ Ended(p, ok).at = "ended"
    BY <1>1 DEF Worker, Ended
  <2>2. CASE Await(p)
    <3> DEFINE w == [worker[p] EXCEPT !.at = "asking"]
    <3>1. w \in Worker /\ w.at = "asking"
      BY <1>1 DEF Worker
    <3>2. worker[p].at = "queued" /\ worker' = [worker EXCEPT ![p] = w]
      BY <2>2, <1>1 DEF Await
    <3> HIDE DEF w
    <3> QED BY <2>2, <3>1, <3>2 DEF Await
  <2>3. CASE Ask(p)
    <3> DEFINE w == [worker[p] EXCEPT !.at = "waiting", !.step = worker[p].step + 1]
    <3>1. w \in Worker /\ w.at = "waiting"
      <4>1. worker[p].step \in Nat /\ worker[p].step + 1 \in Nat
        BY <1>1 DEF Worker
      <4> QED BY <1>1, <4>1 DEF Worker, InRequest
    <3>2. worker[p].at = "asking" /\ (WorkerGoes(p, w) \/ WorkerGoes(p, Ended(p, FALSE)))
      BY <2>3 DEF Ask
    <3> HIDE DEF w
    <3> QED BY <2>1, <3>1, <3>2 DEF WorkerGoes
  <2>4. CASE Answered(p)
    <3>1. PICK outcome \in Outcomes(policy.provider) :
            /\ worker[p].at = "waiting"
            /\ WorkerGoes(p, [worker[p] EXCEPT !.at = Heard(policy.provider, outcome)])
      BY <1>2, <2>4 DEF Answered
    <3>2. Heard(policy.provider, outcome) \in {"final", "tools", "error"}
      BY HeardStates
    <3> DEFINE w == [worker[p] EXCEPT !.at = Heard(policy.provider, outcome)]
    <3>3. w \in Worker /\ w.at # "off"
      BY <1>1, <3>2 DEF Worker, InRequest
    <3>4. worker[p].at = "waiting" /\ WorkerGoes(p, w)
      BY <3>1
    <3> HIDE DEF w
    <3> QED BY <3>3, <3>4 DEF WorkerGoes
  <2>5. CASE Continue(p)
    <3> DEFINE w == [worker[p] EXCEPT !.at = "asking"]
    <3>1. w \in Worker /\ w.at = "asking"
      BY <1>1 DEF Worker
    <3>2. /\ worker[p].at \in {"final", "error", "tools"}
          /\ WorkerGoes(p, w) \/ WorkerGoes(p, Ended(p, FALSE)) \/ WorkerGoes(p, Ended(p, TRUE))
      BY <2>5 DEF Continue
    <3> HIDE DEF w
    <3> QED BY <2>1, <3>1, <3>2 DEF WorkerGoes
  <2>6. CASE GiveUp(p)
    <3>1. worker[p].at = "asking" /\ WorkerGoes(p, Ended(p, FALSE))
      BY <2>6 DEF GiveUp
    <3> QED BY <2>1, <3>1 DEF WorkerGoes
  <2> QED BY <2>2, <2>3, <2>4, <2>5, <2>6
<1>4. PICK w \in Worker : w.at # "off" /\ worker' = [worker EXCEPT ![p] = w]
  BY <1>3
<1> QED BY <1>3, <1>4, WorkerProgress

LEMMA NextProgress == Progress /\ [Next]_vars => Progress'
<1> SUFFICES ASSUME Progress, [Next]_vars PROVE Progress'
  OBVIOUS
<1>1. CASE PlannerStep
  <2>1. CASE PlannerAsks \/ PlannerAnswered \/ PlannerSettles
    <3>1. UNCHANGED swarmVars
      BY <2>1 DEF PlannerAsks, PlannerAnswered, PlannerSettles
    <3> QED BY <3>1, StillProgress
  <2>2. CASE Decompose
    BY <2>2, DecomposeProgress
  <2>3. CASE Synthesize
    BY <2>3, PhaseProgress
  <2> QED BY <1>1, <2>1, <2>2, <2>3 DEF PlannerStep
<1>2. CASE ExecuteStep
  BY <1>2, StartBatchProgress, GatherProgress, PhaseProgress DEF ExecuteStep
<1>3. ASSUME NEW p \in Positions, AgentStep(p) PROVE Progress'
  <2>1. CASE Settles(p)
    BY <2>1, StillProgress DEF Settles
  <2>2. CASE CollectOne(p)
    BY <2>2, CollectOneProgress
  <2>3. CASE Await(p) \/ Ask(p) \/ Answered(p) \/ Continue(p) \/ GiveUp(p)
    BY <2>3, LoopProgress
  <2> QED BY <1>3, <2>1, <2>2, <2>3 DEF AgentStep
<1>4. CASE UNCHANGED vars
  BY <1>4, StillProgress DEF vars
<1> QED BY <1>1, <1>2, <1>3, <1>4 DEF Next

LEMMA ProgressHolds == Spec => []Progress
<1>1. Init => Progress
  BY InitProgress
<1>2. Progress /\ [Next]_vars => Progress'
  BY NextProgress
<1> QED BY <1>1, <1>2, PTL DEF Spec

(* Who has been started belongs to a batch, and by its last task.          *)
LEMMA ProgressLost == Progress => NothingLost
<1> SUFFICES ASSUME Progress, phase \in {"synthesis", "done"}
             PROVE  /\ shared = Ids(plan)
                    /\ \A p \in DOMAIN plan :
                         (status[p] \in {"done", "failed"}) <=> (p = Named(plan, plan[p].id))
                    /\ \A p \in Positions : worker[p] = NoWorker
  BY DEF NothingLost
<1>1. /\ Working /\ SoundPlan(plan) /\ Sound(batches, plan) /\ OneByOne /\ Sharing
      /\ current = Len(batches) + 1
  BY DEF Progress, OneByOne
<1>2. /\ Len(batches) \in Nat /\ DOMAIN plan \subseteq Positions
      /\ \A k \in 1 .. Len(batches) : \A p \in batches[k] : p \in Positions
  BY <1>1, BatchFacts
<1>3. ASSUME NEW p \in Positions
      PROVE  /\ Over(p) <=> \E k \in 1 .. Len(batches) : p \in batches[k]
             /\ status[p] # "running"
  <2>1. ASSUME NEW k \in 1 .. Len(batches), p \in batches[k] PROVE Over(p)
    <3>1. k \in 1 .. current - 1
      BY <1>1, <1>2
    <3> QED BY <1>1, <2>1, <3>1 DEF OneByOne, Before
  <2>2. ASSUME status[p] # "pending" PROVE \E k \in 1 .. Len(batches) : p \in batches[k]
    <3>1. PICK k \in 1 .. current : k <= Len(batches) /\ p \in batches[k]
      BY <1>1, <2>2 DEF OneByOne
    <3>2. k \in 1 .. Len(batches)
      BY <1>1, <1>2, <3>1
    <3> QED BY <3>1, <3>2
  <2> QED BY <2>1, <2>2 DEF Over
<1>4. \A p \in Positions : worker[p] = NoWorker
  BY <1>1, <1>3 DEF Working
<1>5. \A id \in Ids(plan) : Named(plan, id) \in DOMAIN plan /\ plan[Named(plan, id)].id = id
  BY <1>1, PlanFacts
<1>6. ASSUME NEW p \in DOMAIN plan PROVE Over(p) <=> p = Named(plan, plan[p].id)
  <2>1. ASSUME NEW k \in 1 .. Len(batches), p \in batches[k] PROVE p = Named(plan, plan[p].id)
    BY <1>1, <2>1 DEF Sound
  <2>2. ASSUME p = Named(plan, plan[p].id) PROVE \E k \in 1 .. Len(batches) : p \in batches[k]
    <3>1. plan[p].id \in Ids(plan)
      BY DEF Ids
    <3> QED BY <1>1, <2>2, <3>1 DEF Sound
  <2> QED BY <1>2, <1>3, <2>1, <2>2
<1>7. shared = Ids(plan)
  <2>1. shared = Results({p \in Positions : Over(p)})
    BY <1>1 DEF Sharing
  <2>2. ASSUME NEW p \in Positions, Over(p) PROVE plan[p].id \in Ids(plan)
    <3>1. p \in DOMAIN plan
      BY <1>1, <1>3, <2>2, BatchFacts
    <3> QED BY <3>1 DEF Ids
  <2>3. ASSUME NEW id \in Ids(plan) PROVE \E p \in Positions : Over(p) /\ plan[p].id = id
    <3>1. Named(plan, id) \in DOMAIN plan /\ plan[Named(plan, id)].id = id
      BY <1>5
    <3> QED BY <1>2, <1>6, <3>1
  <2> QED BY <2>1, <2>2, <2>3 DEF Results
<1> QED BY <1>4, <1>6, <1>7 DEF Over

LEMMA ProgressDeps == Progress => DepsInContext
<1> SUFFICES ASSUME Progress, WellFormed,
                    NEW k \in DOMAIN batches, NEW p \in batches[k], status[p] # "pending"
             PROVE  /\ Range(plan[p].deps) \subseteq context[p]
                    /\ \A q \in batches[k] : plan[q].id \notin context[p]
  BY DEF DepsInContext
<1>1. /\ SoundPlan(plan) /\ Sound(batches, plan) /\ Sharing /\ DOMAIN batches = 1 .. Len(batches)
  <2>1. phase # "planning"
    BY DEF Progress, Unplanned
  <2>2. SoundPlan(plan) /\ Sound(batches, plan) /\ Sharing
    BY <2>1 DEF Progress
  <2> QED BY <2>2 DEF Sound
<1>2. InOrder(batches, plan)
  <2>1. Orderly(plan)
    BY DEF WellFormed, Orderly
  <2> QED BY <1>1, <2>1 DEF Sound
<1>3. context[p] = Results(Before(k))
  BY <1>1 DEF Sharing
<1>4. /\ Len(batches) \in Nat /\ p \in DOMAIN plan
      /\ \A j \in 1 .. Len(batches) : batches[j] \subseteq DOMAIN plan /\ batches[j] \subseteq Positions
      /\ \A i, j \in 1 .. Len(batches) : \A q \in batches[i] : q \in batches[j] => i = j
  BY <1>1, BatchFacts
<1>5. \A j \in 1 .. k - 1 : j \in 1 .. Len(batches) /\ j # k
  BY <1>1, <1>4
<1>6. ASSUME NEW d \in Range(plan[p].deps) PROVE d \in context[p]
  <2>1. PICK j \in 1 .. k - 1 : Named(plan, d) \in batches[j]
    BY <1>1, <1>2 DEF InOrder
  <2>2. d \in Ids(plan)
    BY <1>1, <1>4, PlanFacts
  <2>3. plan[Named(plan, d)].id = d
    BY <1>1, <2>2, PlanFacts
  <2>4. Named(plan, d) \in Before(k)
    BY <1>4, <1>5, <2>1 DEF Before
  <2> QED BY <1>3, <2>3, <2>4 DEF Results
<1>7. ASSUME NEW q \in batches[k], plan[q].id \in context[p] PROVE FALSE
  <2>1. PICK r \in Before(k) : plan[r].id = plan[q].id
    BY <1>3, <1>7 DEF Results
  <2>2. PICK j \in 1 .. k - 1 : r \in batches[j]
    BY <2>1 DEF Before
  <2>3. r = Named(plan, plan[r].id) /\ q = Named(plan, plan[q].id)
    BY <1>1, <1>5, <2>2 DEF Sound
  <2>4. r = q
    BY <2>1, <2>3
  <2> QED BY <1>1, <1>4, <1>5, <2>2, <2>4
<1> QED BY <1>6, <1>7

-----------------------------------------------------------------------------
(***************************************************************************)
(* The theorems                                                            *)
(***************************************************************************)
Turns == parallel \in BOOLEAN /\ (~parallel => InTurn)

LEMMA NextTurns == Turns /\ [Next]_vars => Turns'
<1> SUFFICES ASSUME Turns, [Next]_vars PROVE Turns'
  OBVIOUS
<1>1. parallel' = parallel
  BY DEF Next, vars, swarmVars, PlannerStep, PlannerAsks, PlannerAnswered, PlannerSettles, Decompose,
         Adopt, Synthesize, ExecuteStep, StartBatch, Gather, Collected, BatchesDone, AgentStep, Await,
         Ask, Answered, WorkerGoes, Settles, Continue, GiveUp, CollectOne
<1>2. SUFFICES ASSUME ~parallel, InTurn PROVE InTurn'
  BY <1>1 DEF Turns
<1>3. CASE ExecuteStep
  BY <1>2, <1>3, StartBatchInTurn, BatchesDoneInTurn DEF ExecuteStep, Gather
<1>4. ASSUME NEW p \in Positions, AgentStep(p) PROVE InTurn'
  BY <1>2, <1>4, AwaitInTurn, AskInTurn, AnsweredInTurn, SettlesInTurn, ContinueInTurn, GiveUpInTurn,
     CollectOneInTurn DEF AgentStep
<1>5. CASE UNCHANGED vars
  <2>1. Workers'
    BY <1>2, <1>5 DEF vars, swarmVars, InTurn, Workers, Executing, Batch
  <2> QED BY <1>2, <1>5, <2>1, QuietStep DEF vars, swarmVars
<1> QED BY <1>2, <1>3, <1>4, <1>5, PlannerStepInTurn DEF Next

(* Every step of a swarm is a step of the guard, or leaves it alone.       *)
LEMMA NextBudget == BudgetInv /\ [Next]_vars => BudgetInv'
<1> SUFFICES ASSUME BudgetInv, [Next]_vars PROVE BudgetInv'
  OBVIOUS
<1>1. Planner \in Callers /\ \A p \in Positions : p \in Callers
  BY CallersAre
<1>2. CASE PlannerStep
  <2>1. RequestStep(Planner)
    BY <1>2 DEF PlannerStep, PlannerAsks, PlannerAnswered, PlannerSettles, Decompose, Synthesize, RequestStep
  <2> QED BY <1>1, <2>1, GuardBudget
<1>3. CASE ExecuteStep
  <2>1. UNCHANGED guardVars
    BY <1>3 DEF ExecuteStep, StartBatch, Gather, Collected, BatchesDone
  <2> QED BY <2>1, RestBudget
<1>4. ASSUME NEW p \in Positions, AgentStep(p) PROVE BudgetInv'
  <2>1. RequestStep(p) \/ UNCHANGED guardVars
    BY <1>4 DEF AgentStep, Await, Ask, Answered, Settles, Continue, GiveUp, CollectOne, Collected, RequestStep
  <2> QED BY <1>1, <2>1, GuardBudget, RestBudget
<1>5. CASE UNCHANGED vars
  BY <1>5, RestBudget DEF vars
<1> QED BY <1>2, <1>3, <1>4, <1>5 DEF Next

(* The counters of the guard say what happened unless an update was lost,  *)
(* and an enabled guard keeps within its budget unless a request cost more *)
(* than its estimate or slipped into the settle() of another: the budget   *)
(* fails in no other way, for any number of threads and any prices.        *)
THEOREM BudgetKept == Spec => []BudgetHolds
<1>1. Init => BudgetInv
  BY InitBudget DEF Init
<1>2. BudgetInv => BudgetHolds
  BY DEF BudgetInv
<1> QED BY <1>1, <1>2, NextBudget, PTL DEF Spec

(* With swarm_parallel off no two requests of a swarm meet in the guard,   *)
(* for any plan, number of agents and steps, prices and budget.            *)
THEOREM NoRaceInTurn == Spec => []InTurnNoRace
<1>1. Init => Turns
  BY InitInTurn DEF Turns, Init
<1>2. Turns => InTurnNoRace
  BY DEF Turns, InTurn, GuardInv, Reads, InTurnNoRace
<1> QED BY <1>1, <1>2, NextTurns, PTL DEF Spec

(* Whatever plan decompose makes of an answer, repeated ids and cycles     *)
(* included, the synthesis comes after every id has been worked on once.   *)
THEOREM EachIdOnce == Spec => []NothingLost
<1>1. Progress => NothingLost
  BY ProgressLost
<1> QED BY <1>1, ProgressHolds, PTL

(* In a plan without repeated ids, repeated dependencies or dependencies   *)
(* of a task on itself, execute starts a task with the results it waits    *)
(* on, and with nothing of its own batch.                                  *)
THEOREM DepsGiven == Spec => []DepsInContext
<1>1. Progress => DepsInContext
  BY ProgressDeps
<1> QED BY <1>1, ProgressHolds, PTL

===================================================================================
