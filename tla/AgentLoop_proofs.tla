--------------------------- MODULE AgentLoop_proofs ---------------------------
(***************************************************************************)
(* The safety properties of AgentLoop for every model, user, set of tools  *)
(* and skills, and every value of the limits.                              *)
(*                                                                         *)
(* LoopInv, with TypeOK, is inductive.  Its parts are proved one by one,   *)
(* each from the parts it needs.                                           *)
(***************************************************************************)
EXTENDS AgentLoop, FiniteSetTheorems, SequenceTheorems, TLAPS

-----------------------------------------------------------------------------
(* seen_signatures *)

(* Noting a call keeps the sequence typed. *)
LEMMA NoteType ==
  ASSUME seen \in Seq(Signatures), cut \in BOOLEAN,
         NEW c \in Signatures, Note(c)
  PROVE  seen' \in Seq(Signatures) /\ cut' \in BOOLEAN
<1> DEFINE longer == Append(seen, c)
           first == Len(longer) - SeenKeep + 1
<1>1. longer \in Seq(Signatures) /\ Len(longer) \in Nat /\ SeenKeep \in Nat
  BY LoopAssumption
<1>2. CASE Len(longer) > SeenCap
  <2>1. first \in 1 .. Len(longer)
    BY <1>1, <1>2, LoopAssumption
  <2>2. \A i \in first .. Len(longer) : longer[i] \in Signatures
    BY <1>1, <2>1, ElementOfSeq
  <2>3. SubSeq(longer, first, Len(longer)) \in Seq(Signatures)
    <3>1. first \in Int /\ Len(longer) \in Int
      BY <1>1, <2>1
    <3> HIDE DEF first, longer
    <3> QED BY <2>2, <3>1, SubSeqProperties
  <2> QED BY <1>2, <2>3 DEF Note
<1>3. CASE ~(Len(longer) > SeenCap)
  BY <1>1, <1>3 DEF Note
<1> QED BY <1>2, <1>3

(* Appending a call adds one occurrence of it and none of any other.        *)
LEMMA AppendOccurs ==
  ASSUME seen \in Seq(Signatures), NEW c \in Signatures, seen' = Append(seen, c),
         NEW x \in Signatures
  PROVE  /\ Occurrences(x) \in Nat
         /\ Occurrences(x)' = IF x = c THEN Occurrences(x) + 1 ELSE Occurrences(x)
<1> DEFINE At == {i \in DOMAIN seen : seen[i] = x}
           n == Len(seen) + 1
<1>1. Len(seen) \in Nat /\ DOMAIN seen = 1 .. Len(seen)
  OBVIOUS
<1>2. IsFiniteSet(At) /\ Cardinality(At) \in Nat
  <2>1. IsFiniteSet(1 .. Len(seen))
    BY <1>1, FS_Interval
  <2>2. At \subseteq 1 .. Len(seen)
    BY <1>1
  <2> QED BY <2>1, <2>2, FS_Subset, FS_CardinalityType
<1>3. {i \in DOMAIN seen' : seen'[i] = x} = IF x = c THEN At \cup {n} ELSE At
  <2>1. DOMAIN seen' = 1 .. n /\ seen'[n] = c
    BY <1>1
  <2>2. \A i \in 1 .. Len(seen) : seen'[i] = seen[i]
    BY <1>1
  <2> QED BY <1>1, <2>1, <2>2
<1>4. n \notin At
  BY <1>1
<1>5. Cardinality(At \cup {n}) = Cardinality(At) + 1
  BY <1>2, <1>4, FS_AddElement
<1> QED BY <1>2, <1>3, <1>5 DEF Occurrences

-----------------------------------------------------------------------------
(* Types *)

(* The variables have their types in the initial states. *)
LEMMA InitTypeOK == Init => TypeOK
<1> SUFFICES ASSUME Init PROVE TypeOK
  OBVIOUS
<1>1. seen \in Seq(Signatures) /\ batch \in Seq(Signatures)
  BY EmptySeq DEF Init
<1>2. results \in [DOMAIN batch -> Nat]
  BY DEF Init
<1>3. runs \in [Signatures -> Nat] /\ grants \in [Signatures -> Nat]
  BY DEF Init
<1>4. approved \in SUBSET (Tools \X SUBSET Skills) /\ given \in SUBSET (Tools \X SUBSET Skills)
      /\ unasked \in SUBSET (Tools \X SUBSET Skills)
  BY DEF Init
<1>5. /\ step \in Nat /\ toolCalls \in Nat /\ failures \in Nat /\ idx \in Nat \ {0}
      /\ verified \in {0, 1} /\ repeats \in Nat
  BY DEF Init
<1>6. /\ pending \in Signatures \cup {NoCall} /\ loaded \in SUBSET Skills
      /\ lastText \in Texts
  BY DEF Init, Texts
<1> QED BY <1>1, <1>2, <1>3, <1>4, <1>5, <1>6 DEF Init, TypeOK

(* A result is appended for the call that is next. *)
LEMMA AnsweredType ==
  ASSUME TypeOK, Answered
  PROVE  results' \in [DOMAIN batch -> Nat]
<1>1. results \in [DOMAIN batch -> Nat]
  BY DEF TypeOK
<1>2. ASSUME NEW D, NEW f \in [D -> Nat], NEW i
      PROVE  [f EXCEPT ![i] = @ + 1] \in [D -> Nat]
  <2>1. [f EXCEPT ![i] = @ + 1] = [x \in D |-> IF x = i THEN f[x] + 1 ELSE f[x]]
    BY <1>2
  <2>2. [x \in D |-> IF x = i THEN f[x] + 1 ELSE f[x]] \in [D -> Nat]
    BY <1>2
  <2> QED BY <2>1, <2>2, Zenon
<1> QED BY <1>1, <1>2 DEF Answered

(* Executing a call keeps the counters typed. *)
LEMMA ExecuteType ==
  ASSUME TypeOK, NEW c \in Signatures, NEW ok \in BOOLEAN, NEW kill \in BOOLEAN,
         NEW before \in {"running", "awaiting_approval", "done", "error"},
         Execute(c, ok, kill, before)
  PROVE  /\ runs' \in [Signatures -> Nat]
         /\ toolCalls' \in Nat /\ failures' \in Nat
         /\ loaded' \in SUBSET Skills
         /\ status' \in {"running", "awaiting_approval", "done", "error"}
         /\ killed' \in BOOLEAN /\ defied' \in BOOLEAN
<1>1. Loads[c] \in SUBSET Skills
  BY LoopAssumption
<1>2. loaded' \in SUBSET Skills
  BY <1>1 DEF TypeOK, Execute
<1>3. runs' \in [Signatures -> Nat]
  BY DEF TypeOK, Execute
<1> QED BY <1>2, <1>3 DEF TypeOK, Execute

(* What an "always" adds is a tool under skills.                           *)
LEMMA KeepConsentType ==
  ASSUME TypeOK, NEW c \in Signatures, KeepConsent(c)
  PROVE  /\ approved' \in SUBSET (Tools \X SUBSET Skills)
         /\ given' \in SUBSET (Tools \X SUBSET Skills)
<1>1. ToolOf[c] \in Tools
  BY LoopAssumption
<1>2. <<ToolOf[c], loaded>> \in Tools \X SUBSET Skills
  BY <1>1 DEF TypeOK
<1>3. <<ToolOf[c], {}>> \in Tools \X SUBSET Skills
  BY <1>1
<1> QED BY <1>2, <1>3 DEF TypeOK, KeepConsent

(* A step keeps the types. *)
LEMMA NextTypeOK == TypeOK /\ [Next]_vars => TypeOK'
<1> SUFFICES ASSUME TypeOK, [Next]_vars PROVE TypeOK'
  OBVIOUS
<1>1. CASE Turn
  <2> USE DEF TypeOK, AskModel, HearText, Texts
  <2>1. CASE Stop
    BY <2>1 DEF Stop, textVars, history
  <2>2. CASE ProviderFails
    BY <2>2 DEF ProviderFails, textVars, history
  <2>3. ASSUME NEW t \in Texts, FinalText(t) PROVE TypeOK'
    BY <2>3 DEF FinalText, MayRevise
  <2>4. ASSUME NEW t \in Texts, RevisedText(t) PROVE TypeOK'
    BY <2>4 DEF RevisedText, MayRevise
  <2>5. ASSUME NEW t \in Texts, ReviewFails(t) PROVE TypeOK'
    BY <2>5 DEF ReviewFails, MayRevise
  <2>6. ASSUME NEW b \in Batches, Propose(b) PROVE TypeOK'
    <3>1. b \in Seq(Signatures)
      BY LoopAssumption DEF Batches
    <3>2. [i \in DOMAIN b |-> 0] \in [DOMAIN b -> Nat]
      OBVIOUS
    <3> QED BY <2>6, <3>1, <3>2 DEF Propose, textVars
  <2> QED BY <1>1, <2>1, <2>2, <2>3, <2>4, <2>5, <2>6 DEF Turn
<1>2. CASE CallStep
  <2>1. ASSUME NEW c \in Signatures, RefuseBlocked(c) PROVE TypeOK'
    BY <2>1, AnsweredType DEF TypeOK, RefuseBlocked, NextCall, textVars
  <2>2. ASSUME NEW c \in Signatures, RefuseUnusable(c) PROVE TypeOK'
    BY <2>2, AnsweredType, NoteType DEF TypeOK, RefuseUnusable, Reach, NextCall, textVars
  <2>3. ASSUME NEW c \in Signatures, DenyAsked(c) PROVE TypeOK'
    BY <2>3, AnsweredType, NoteType DEF TypeOK, DenyAsked, MustAsk, Reach, NextCall, textVars
  <2>4. ASSUME NEW c \in Signatures, Defer(c) PROVE TypeOK'
    BY <2>4, NoteType DEF TypeOK, Defer, MustAsk, Reach, textVars
  <2>5. ASSUME NEW c \in Signatures, DeferRefused(c) PROVE TypeOK'
    BY <2>5, NoteType DEF TypeOK, DeferRefused, MustAsk, Reach, textVars
  <2>6. ASSUME NEW c \in Signatures, NEW ok \in BOOLEAN, NEW kill \in BOOLEAN,
               RunUnasked(c, ok, kill)
        PROVE  TypeOK'
    <3>1. seen' \in Seq(Signatures) /\ cut' \in BOOLEAN
      BY <2>6, NoteType DEF TypeOK, RunUnasked, Reach
    <3>2. results' \in [DOMAIN batch -> Nat] /\ idx' \in Nat \ {0}
      BY <2>6, AnsweredType DEF RunUnasked, NextCall, TypeOK
    <3>3. Execute(c, ok, kill, status)
      BY <2>6 DEF RunUnasked
    <3>4. unasked' \in SUBSET (Tools \X SUBSET Skills)
      BY <2>6, LoopAssumption DEF RunUnasked, TypeOK
    <3> QED BY <2>6, <3>1, <3>2, <3>3, <3>4, ExecuteType DEF TypeOK, RunUnasked, textVars
  <2>7. ASSUME NEW c \in Signatures, NEW ok \in BOOLEAN, NEW kill \in BOOLEAN,
               NEW d \in {"approve", "always"}, RunAsked(c, d, ok, kill)
        PROVE  TypeOK'
    <3>1. seen' \in Seq(Signatures) /\ cut' \in BOOLEAN
      BY <2>7, NoteType DEF TypeOK, RunAsked, MustAsk, Reach
    <3>2. results' \in [DOMAIN batch -> Nat] /\ idx' \in Nat \ {0}
      BY <2>7, AnsweredType DEF RunAsked, NextCall, TypeOK
    <3>3. Execute(c, ok, kill, status)
      BY <2>7 DEF RunAsked
    <3>4. /\ approved' \in SUBSET (Tools \X SUBSET Skills)
          /\ given' \in SUBSET (Tools \X SUBSET Skills)
      BY <2>7, KeepConsentType DEF RunAsked, TypeOK
    <3>5. grants' \in [Signatures -> Nat]
      BY <2>7 DEF RunAsked, TypeOK
    <3> QED BY <2>7, <3>1, <3>2, <3>3, <3>4, <3>5, ExecuteType DEF TypeOK, RunAsked, textVars
  <2> QED BY <1>2, <2>1, <2>2, <2>3, <2>4, <2>5, <2>6, <2>7 DEF CallStep
<1>3. CASE EndTurn
  BY <1>3 DEF TypeOK, EndTurn, textVars, history
<1>4. CASE Resume
  <2>1. ASSUME NEW c \in Signatures, Deny(c) PROVE TypeOK'
    BY <2>1, AnsweredType DEF TypeOK, Deny, ResumeAs, NextCall, textVars
  <2>2. ASSUME NEW c \in Signatures, NEW ok \in BOOLEAN, NEW kill \in BOOLEAN,
               NEW d \in {"approve", "always"}, Allow(c, d, ok, kill)
        PROVE  TypeOK'
    <3>1. results' \in [DOMAIN batch -> Nat] /\ idx' \in Nat \ {0}
      BY <2>2, AnsweredType DEF Allow, ResumeAs, NextCall, TypeOK
    <3>2. Execute(c, ok, kill, "running")
      BY <2>2 DEF Allow
    <3>3. /\ approved' \in SUBSET (Tools \X SUBSET Skills)
          /\ given' \in SUBSET (Tools \X SUBSET Skills)
      BY <2>2, KeepConsentType DEF Allow, TypeOK
    <3>4. grants' \in [Signatures -> Nat] /\ seen' \in Seq(Signatures)
      BY <2>2 DEF Allow, TypeOK
    <3> QED BY <2>2, <3>1, <3>2, <3>3, <3>4, ExecuteType DEF TypeOK, Allow, ResumeAs, textVars
  <2> QED BY <1>4, <2>1, <2>2 DEF Resume
<1>5. CASE Expire
  BY <1>5 DEF TypeOK, Expire, textVars, history
<1>6. CASE TimePasses
  BY <1>6 DEF TypeOK, TimePasses, loopVars, textVars, history
<1>7. CASE UNCHANGED vars
  BY <1>7 DEF TypeOK, vars, loopVars, textVars, history
<1> QED BY <1>1, <1>2, <1>3, <1>4, <1>5, <1>6, <1>7 DEF Next

-----------------------------------------------------------------------------
(* The limits, and the deferred call *)

(* A step keeps the limits: the room a resumed call needs was there when    *)
(* it was deferred.                                                        *)
LEMMA NextWithinLimits ==
  TypeOK /\ WithinLimits /\ PendingIsCurrent /\ [Next]_vars => WithinLimits'
<1> SUFFICES ASSUME TypeOK, WithinLimits, PendingIsCurrent, [Next]_vars PROVE WithinLimits'
  OBVIOUS
<1> USE LoopAssumption DEF TypeOK, WithinLimits
<1>1. CASE Turn
  BY <1>1 DEF Turn, Stop, ProviderFails, FinalText, RevisedText, ReviewFails, Propose,
              AskModel, Exhausted
<1>2. CASE CallStep
  BY <1>2 DEF CallStep, RefuseBlocked, RefuseUnusable, DenyAsked, Defer, DeferRefused,
              RunUnasked, RunAsked, MustAsk, Reach, Blocked, Execute
<1>3. CASE Resume
  BY <1>3 DEF Resume, Deny, Allow, ResumeAs, Execute, PendingIsCurrent
<1>4. CASE EndTurn \/ Expire \/ TimePasses \/ UNCHANGED vars
  BY <1>4 DEF EndTurn, Expire, TimePasses, vars, loopVars
<1> QED BY <1>1, <1>2, <1>3, <1>4 DEF Next

(* A step keeps the deferred call the one at the index of its turn.        *)
LEMMA NextPendingIsCurrent ==
  TypeOK /\ PendingIsCurrent /\ [Next]_vars => PendingIsCurrent'
<1> SUFFICES ASSUME TypeOK, PendingIsCurrent, [Next]_vars PROVE PendingIsCurrent'
  OBVIOUS
<1> USE LoopAssumption DEF TypeOK, PendingIsCurrent
<1>1. CASE Turn
  BY <1>1 DEF Turn, Stop, ProviderFails, FinalText, RevisedText, ReviewFails, Propose,
              AskModel
<1>2. ASSUME NEW c \in Signatures, Defer(c) PROVE PendingIsCurrent'
  BY <1>2 DEF Defer, MustAsk, Reach, AtCall, Blocked
<1>3. CASE CallStep /\ ~\E c \in Signatures : Defer(c)
  BY <1>3 DEF CallStep, RefuseBlocked, RefuseUnusable, DenyAsked, DeferRefused,
              RunUnasked, RunAsked, MustAsk, Reach, AtCall
<1>4. CASE Resume
  BY <1>4 DEF Resume, Deny, Allow, ResumeAs
<1>5. CASE EndTurn \/ Expire \/ TimePasses \/ UNCHANGED vars
  BY <1>5 DEF EndTurn, Expire, TimePasses, vars, loopVars
<1> QED BY <1>1, <1>2, <1>3, <1>4, <1>5 DEF Next, CallStep

-----------------------------------------------------------------------------
(* The results of a turn *)

(* Appending the result of the next call answers it and no other.          *)
LEMMA NextCallAnswers ==
  ASSUME TypeOK, EachCallAnswered, pc \in {"calls", "waiting"}, idx \in DOMAIN batch,
         NextCall, batch' = batch, pc' = "calls"
  PROVE  EachCallAnswered'
<1> SUFFICES ASSUME NEW i \in DOMAIN batch
             PROVE  results'[i] = IF i < idx' THEN 1 ELSE 0
  BY DEF EachCallAnswered
<1>1. i \in Nat /\ idx \in Nat /\ idx' = idx + 1
  BY DEF TypeOK, NextCall
<1>2. results[i] = IF i < idx THEN 1 ELSE 0
  BY DEF EachCallAnswered
<1>3. results'[i] = IF i = idx THEN results[i] + 1 ELSE results[i]
  BY DEF TypeOK, NextCall, Answered
<1> QED BY <1>1, <1>2, <1>3

(* A step keeps one result for each call that was reached.                 *)
LEMMA NextEachCallAnswered ==
  TypeOK /\ PendingIsCurrent /\ EachCallAnswered /\ [Next]_vars => EachCallAnswered'
<1> SUFFICES ASSUME TypeOK, PendingIsCurrent, EachCallAnswered, [Next]_vars
             PROVE  EachCallAnswered'
  OBVIOUS
<1>1. CASE Turn
  <2>1. ASSUME NEW b \in Batches, Propose(b) PROVE EachCallAnswered'
    <3>1. \A i \in DOMAIN b : i \in Nat \ {0}
      BY LoopAssumption DEF Batches
    <3> QED BY <2>1, <3>1 DEF Propose, EachCallAnswered
  <2>2. CASE \E t \in Texts : FinalText(t) \/ RevisedText(t) \/ ReviewFails(t)
    BY <2>2 DEF FinalText, RevisedText, ReviewFails, AskModel, EachCallAnswered
  <2>3. CASE Stop \/ ProviderFails
    BY <2>3 DEF Stop, ProviderFails, EachCallAnswered
  <2> QED BY <1>1, <2>1, <2>2, <2>3 DEF Turn
<1>2. CASE CallStep
  <2>1. ASSUME NEW c \in Signatures, Defer(c) \/ DeferRefused(c) PROVE EachCallAnswered'
    BY <2>1 DEF Defer, DeferRefused, MustAsk, Reach, AtCall, EachCallAnswered
  <2>2. ASSUME NEW c \in Signatures,
               RefuseBlocked(c) \/ RefuseUnusable(c) \/ DenyAsked(c)
        PROVE  EachCallAnswered'
    <3>1. AtCall(c) /\ NextCall /\ batch' = batch /\ pc' = pc
      BY <2>2 DEF RefuseBlocked, RefuseUnusable, DenyAsked, MustAsk, Reach
    <3> QED BY <3>1, NextCallAnswers DEF AtCall
  <2>3. ASSUME NEW c \in Signatures, NEW ok \in BOOLEAN, NEW kill \in BOOLEAN,
               RunUnasked(c, ok, kill) \/ \E d \in {"approve", "always"} : RunAsked(c, d, ok, kill)
        PROVE  EachCallAnswered'
    <3>1. AtCall(c) /\ NextCall /\ batch' = batch /\ pc' = pc
      BY <2>3 DEF RunUnasked, RunAsked, MustAsk, Reach
    <3> QED BY <3>1, NextCallAnswers DEF AtCall
  <2> QED BY <1>2, <2>1, <2>2, <2>3 DEF CallStep
<1>3. CASE Resume
  <2>1. pc = "waiting" /\ NextCall /\ batch' = batch /\ pc' = "calls"
    BY <1>3 DEF Resume, Deny, Allow, ResumeAs
  <2> QED BY <2>1, NextCallAnswers DEF PendingIsCurrent
<1>4. CASE EndTurn
  <2>1. \A i \in DOMAIN batch : i < idx
    <3>1. DOMAIN batch = 1 .. Len(batch) /\ Len(batch) \in Nat /\ idx \in Nat \ {0}
      BY DEF TypeOK
    <3>2. idx > Len(batch)
      BY <1>4, <3>1 DEF EndTurn
    <3> QED BY <3>1, <3>2
  <2>2. \A i \in DOMAIN batch : results[i] = 1
    BY <1>4, <2>1 DEF EndTurn, EachCallAnswered
  <2> QED BY <1>4, <2>1, <2>2 DEF EndTurn, EachCallAnswered, history
<1>5. CASE Expire \/ TimePasses \/ UNCHANGED vars
  BY <1>5 DEF Expire, TimePasses, vars, loopVars, history, EachCallAnswered
<1> QED BY <1>1, <1>2, <1>3, <1>4, <1>5 DEF Next

-----------------------------------------------------------------------------
(* Texts *)

(* A step hears no text twice before the run is done, and none three times. *)
LEMMA NextTexts ==
  TypeOK /\ TextsHeard /\ RepeatsBounded /\ [Next]_vars => TextsHeard' /\ RepeatsBounded'
<1> SUFFICES ASSUME TypeOK, TextsHeard, RepeatsBounded, [Next]_vars
             PROVE  TextsHeard' /\ RepeatsBounded'
  OBVIOUS
<1> USE DEF TypeOK, TextsHeard, RepeatsBounded
<1>1. CASE Turn
  <2>1. ASSUME NEW t \in Texts, FinalText(t) PROVE TextsHeard' /\ RepeatsBounded'
    BY <2>1 DEF FinalText, AskModel, HearText
  <2>2. ASSUME NEW t \in Texts, RevisedText(t) PROVE TextsHeard' /\ RepeatsBounded'
    BY <2>2 DEF RevisedText, AskModel, HearText, MayRevise
  <2>3. ASSUME NEW t \in Texts, ReviewFails(t) PROVE TextsHeard' /\ RepeatsBounded'
    BY <2>3 DEF ReviewFails, AskModel, HearText, MayRevise
  <2>4. ASSUME NEW b \in Batches, Propose(b) PROVE TextsHeard' /\ RepeatsBounded'
    BY <2>4 DEF Propose, AskModel, textVars
  <2>5. CASE Stop \/ ProviderFails
    BY <2>5 DEF Stop, ProviderFails, textVars
  <2> QED BY <1>1, <2>1, <2>2, <2>3, <2>4, <2>5 DEF Turn
<1>2. CASE CallStep
  <2>1. pc = "calls" /\ UNCHANGED textVars
    BY <1>2 DEF CallStep, RefuseBlocked, RefuseUnusable, DenyAsked, Defer, DeferRefused,
                RunUnasked, RunAsked, MustAsk, Reach, AtCall
  <2> QED BY <2>1 DEF textVars
<1>3. CASE Resume
  <2>1. pc = "waiting" /\ UNCHANGED textVars
    BY <1>3 DEF Resume, Deny, Allow, ResumeAs
  <2> QED BY <2>1 DEF textVars
<1>4. CASE EndTurn \/ Expire \/ TimePasses \/ UNCHANGED vars
  BY <1>4 DEF EndTurn, Expire, TimePasses, vars, loopVars, textVars
<1> QED BY <1>1, <1>2, <1>3, <1>4 DEF Next

-----------------------------------------------------------------------------
(* Consent *)

(* A step runs a gated tool against a yes, or against an "always" that was  *)
(* given.                                                                  *)
LEMMA NextConsent ==
  TypeOK /\ ConsentKept /\ ConsentGiven /\ [Next]_vars => ConsentKept' /\ ConsentGiven'
<1> SUFFICES ASSUME TypeOK, ConsentKept, ConsentGiven, [Next]_vars
             PROVE  ConsentKept' /\ ConsentGiven'
  OBVIOUS
<1>1. ASSUME UNCHANGED <<approved, given, runs, grants>> PROVE ConsentKept' /\ ConsentGiven'
  BY <1>1 DEF ConsentKept, ConsentGiven
<1>2. ASSUME NEW c \in Signatures, NEW d \in {"approve", "always"},
             runs' = [runs EXCEPT ![c] = @ + 1], grants' = [grants EXCEPT ![c] = @ + 1],
             IF d = "always" THEN KeepConsent(c) ELSE UNCHANGED <<approved, given>>
      PROVE  ConsentKept' /\ ConsentGiven'
  <2>1. given \subseteq given'
    BY <1>2 DEF KeepConsent
  <2>2. ConsentKept'
    <3>1. CASE d = "always"
      <4>1. <<ToolOf[c], loaded>> \in given'
        BY <1>2, <3>1 DEF KeepConsent
      <4>2. \A a \in approved' \ approved : a[1] = <<ToolOf[c], loaded>>[1]
        BY <1>2, <3>1 DEF KeepConsent
      <4> QED BY <2>1, <4>1, <4>2 DEF ConsentKept
    <3>2. CASE d # "always"
      BY <1>2, <3>2 DEF ConsentKept
    <3> QED BY <3>1, <3>2
  <2>3. ConsentGiven'
    <3> SUFFICES ASSUME NEW x \in Signatures, ToolOf[x] \in Gated,
                        \A g \in given' : g[1] # ToolOf[x]
                 PROVE  runs'[x] <= grants'[x]
      BY DEF ConsentGiven
    <3>1. runs[x] <= grants[x] /\ runs[x] \in Nat /\ grants[x] \in Nat
      BY <2>1 DEF ConsentGiven, TypeOK
    <3> QED BY <1>2, <3>1 DEF TypeOK
  <2> QED BY <2>2, <2>3
<1>3. ASSUME NEW c \in Signatures, NEW ok \in BOOLEAN, NEW kill \in BOOLEAN,
             RunUnasked(c, ok, kill)
      PROVE  ConsentKept' /\ ConsentGiven'
  <2>1. /\ UNCHANGED <<approved, given, grants>> /\ runs' = [runs EXCEPT ![c] = @ + 1]
        /\ NeedsConsent(c) => StandingConsent(c)
    BY <1>3 DEF RunUnasked, Execute
  <2>2. ToolOf[c] \in Gated => \E g \in given : g[1] = ToolOf[c]
    <3>1. ASSUME ToolOf[c] \in Gated PROVE \E a \in approved : a[1] = ToolOf[c]
      BY <2>1, <3>1 DEF NeedsConsent, StandingConsent
    <3> QED BY <3>1 DEF ConsentKept
  <2>3. ConsentKept'
    BY <2>1 DEF ConsentKept
  <2>4. ConsentGiven'
    <3> SUFFICES ASSUME NEW x \in Signatures, ToolOf[x] \in Gated,
                        \A g \in given : g[1] # ToolOf[x]
                 PROVE  runs'[x] <= grants[x]
      BY <2>1 DEF ConsentGiven
    <3>1. x # c
      BY <2>2
    <3>2. runs'[x] = runs[x]
      BY <2>1, <3>1 DEF TypeOK
    <3> QED BY <3>2 DEF ConsentGiven
  <2> QED BY <2>3, <2>4
<1>4. CASE Turn
  BY <1>1, <1>4 DEF Turn, Stop, ProviderFails, FinalText, RevisedText, ReviewFails, Propose,
                    history
<1>5. ASSUME NEW c \in Signatures,
             RefuseBlocked(c) \/ RefuseUnusable(c) \/ DenyAsked(c) \/ Defer(c) \/ DeferRefused(c)
      PROVE  ConsentKept' /\ ConsentGiven'
  BY <1>1, <1>5 DEF RefuseBlocked, RefuseUnusable, DenyAsked, Defer, DeferRefused
<1>6. ASSUME NEW c \in Signatures, NEW ok \in BOOLEAN, NEW kill \in BOOLEAN,
             NEW d \in {"approve", "always"},
             RunAsked(c, d, ok, kill) \/ Allow(c, d, ok, kill)
      PROVE  ConsentKept' /\ ConsentGiven'
  BY <1>2, <1>6 DEF RunAsked, Allow, Execute
<1>7. ASSUME NEW c \in Signatures, Deny(c) PROVE ConsentKept' /\ ConsentGiven'
  BY <1>1, <1>7 DEF Deny
<1>8. CASE EndTurn \/ Expire \/ TimePasses \/ UNCHANGED vars
  BY <1>1, <1>8 DEF EndTurn, Expire, TimePasses, vars, history
<1> QED BY <1>3, <1>4, <1>5, <1>6, <1>7, <1>8 DEF Next, CallStep, Resume

-----------------------------------------------------------------------------
(* Repeated calls *)

(* Occurrences are numbers.                                                *)
LEMMA OccurrencesType ==
  ASSUME seen \in Seq(Signatures), NEW x \in Signatures
  PROVE  Occurrences(x) \in Nat
<1>1. IsFiniteSet(1 .. Len(seen))
  BY FS_Interval
<1>2. {i \in DOMAIN seen : seen[i] = x} \subseteq 1 .. Len(seen)
  OBVIOUS
<1> QED BY <1>1, <1>2, FS_Subset, FS_CardinalityType DEF Occurrences

(* A call that was noted without a cut: one occurrence more, and none of    *)
(* another call.                                                           *)
LEMMA NotedOnce ==
  ASSUME seen \in Seq(Signatures), NEW c \in Signatures, Note(c), ~cut', NEW x \in Signatures
  PROVE  /\ ~cut
         /\ Occurrences(x) \in Nat
         /\ Occurrences(x)' = IF x = c THEN Occurrences(x) + 1 ELSE Occurrences(x)
<1>1. ~cut /\ seen' = Append(seen, c)
  BY DEF Note
<1> QED BY <1>1, AppendOccurs

(* A step executes no call that has been executed twice, and notes what it  *)
(* executes.                                                               *)
LEMMA NextRunsNoted ==
  TypeOK /\ PendingIsCurrent /\ RunsNoted /\ ThirdCallBlocked /\ [Next]_vars
    => RunsNoted' /\ ThirdCallBlocked'
<1> SUFFICES ASSUME TypeOK, PendingIsCurrent, RunsNoted, ThirdCallBlocked, [Next]_vars
             PROVE  RunsNoted' /\ ThirdCallBlocked'
  OBVIOUS
<1>t. seen \in Seq(Signatures) /\ runs \in [Signatures -> Nat] /\ cut \in BOOLEAN
  BY DEF TypeOK
<1>1. ASSUME UNCHANGED <<seen, runs, cut>>, pc' # "waiting"
      PROVE  RunsNoted' /\ ThirdCallBlocked'
  BY <1>1 DEF RunsNoted, ThirdCallBlocked, Occurrences
<1>2. ASSUME NEW c \in Signatures, AtCall(c), ~Blocked(c), Note(c), UNCHANGED runs,
             pc' = "waiting" => batch' = batch /\ idx' = idx
      PROVE  RunsNoted' /\ ThirdCallBlocked'
  <2> SUFFICES ASSUME ~cut' PROVE RunsNoted' /\ ThirdCallBlocked'
    BY DEF RunsNoted, ThirdCallBlocked
  <2>1. ~cut
    BY <1>2, <1>t, NotedOnce
  <2>2. ASSUME NEW x \in Signatures PROVE runs'[x] <= Occurrences(x)' /\ runs'[x] <= 2
    <3>1. /\ Occurrences(x) \in Nat
          /\ Occurrences(x)' = IF x = c THEN Occurrences(x) + 1 ELSE Occurrences(x)
      BY <1>2, <1>t, NotedOnce
    <3>2. runs[x] <= Occurrences(x) /\ runs[x] <= 2 /\ runs[x] \in Nat
      BY <1>t, <2>1 DEF RunsNoted, ThirdCallBlocked
    <3> QED BY <1>2, <3>1, <3>2
  <2>3. runs[c] <= 1
    <3>1. ~(Occurrences(c) >= 2) /\ Occurrences(c) \in Nat
      BY <1>2, <1>t, OccurrencesType DEF Blocked
    <3>2. runs[c] <= Occurrences(c) /\ runs[c] \in Nat
      BY <1>t, <2>1 DEF RunsNoted
    <3> QED BY <3>1, <3>2
  <2>4. pc' = "waiting" => runs'[batch'[idx']] <= 1
    BY <1>2, <2>3 DEF AtCall
  <2> QED BY <2>2, <2>4 DEF RunsNoted, ThirdCallBlocked
<1>3. ASSUME NEW c \in Signatures, AtCall(c), ~Blocked(c), Note(c),
             runs' = [runs EXCEPT ![c] = @ + 1], pc' = pc
      PROVE  RunsNoted' /\ ThirdCallBlocked'
  <2> SUFFICES ASSUME ~cut' PROVE RunsNoted' /\ ThirdCallBlocked'
    BY DEF RunsNoted, ThirdCallBlocked
  <2>1. ~cut
    BY <1>3, <1>t, NotedOnce
  <2>2. ASSUME NEW x \in Signatures PROVE runs'[x] <= Occurrences(x)' /\ runs'[x] <= 2
    <3>1. /\ Occurrences(x) \in Nat
          /\ Occurrences(x)' = IF x = c THEN Occurrences(x) + 1 ELSE Occurrences(x)
      BY <1>3, <1>t, NotedOnce
    <3>2. runs[x] <= Occurrences(x) /\ runs[x] <= 2 /\ runs[x] \in Nat
      BY <1>t, <2>1 DEF RunsNoted, ThirdCallBlocked
    <3>3. x = c => ~(Occurrences(x) >= 2)
      BY <1>3 DEF Blocked
    <3>4. runs'[x] = IF x = c THEN runs[x] + 1 ELSE runs[x]
      BY <1>3, <1>t
    <3> QED BY <3>1, <3>2, <3>3, <3>4
  <2> QED BY <1>3, <2>2 DEF RunsNoted, ThirdCallBlocked, AtCall
<1>4. ASSUME NEW c \in Signatures, NEW ok \in BOOLEAN, NEW kill \in BOOLEAN,
             NEW d \in {"approve", "always"}, Allow(c, d, ok, kill)
      PROVE  RunsNoted' /\ ThirdCallBlocked'
  <2> SUFFICES ASSUME ~cut PROVE RunsNoted' /\ ThirdCallBlocked'
    BY <1>4 DEF Allow, RunsNoted, ThirdCallBlocked
  <2>1. runs[c] <= 1
    BY <1>4 DEF Allow, ResumeAs, RunsNoted
  <2>2. runs' = [runs EXCEPT ![c] = @ + 1] /\ seen' = Append(seen, c) /\ pc' = "calls"
    BY <1>4 DEF Allow, ResumeAs, Execute
  <2>3. ASSUME NEW x \in Signatures PROVE runs'[x] <= Occurrences(x)' /\ runs'[x] <= 2
    <3>1. /\ Occurrences(x) \in Nat
          /\ Occurrences(x)' = IF x = c THEN Occurrences(x) + 1 ELSE Occurrences(x)
      BY <1>t, <2>2, AppendOccurs
    <3>2. runs[x] <= Occurrences(x) /\ runs[x] <= 2 /\ runs[x] \in Nat
      BY <1>t DEF RunsNoted, ThirdCallBlocked
    <3>3. runs'[x] = IF x = c THEN runs[x] + 1 ELSE runs[x]
      BY <1>t, <2>2
    <3> QED BY <2>1, <3>1, <3>2, <3>3
  <2> QED BY <2>2, <2>3 DEF RunsNoted, ThirdCallBlocked
<1>5. CASE Turn
  <2>1. UNCHANGED <<seen, runs, cut>> /\ pc' # "waiting"
    BY <1>5 DEF Turn, Stop, ProviderFails, FinalText, RevisedText, ReviewFails, Propose,
                AskModel, history
  <2> QED BY <1>1, <2>1
<1>6. ASSUME NEW c \in Signatures, RefuseBlocked(c) PROVE RunsNoted' /\ ThirdCallBlocked'
  BY <1>1, <1>6 DEF RefuseBlocked, AtCall
<1>7. ASSUME NEW c \in Signatures,
             RefuseUnusable(c) \/ DenyAsked(c) \/ Defer(c) \/ DeferRefused(c)
      PROVE  RunsNoted' /\ ThirdCallBlocked'
  <2>1. /\ AtCall(c) /\ ~Blocked(c) /\ Note(c) /\ UNCHANGED runs
        /\ pc' = "waiting" => batch' = batch /\ idx' = idx
    BY <1>7 DEF RefuseUnusable, DenyAsked, Defer, DeferRefused, MustAsk, Reach, AtCall
  <2> QED BY <1>2, <2>1
<1>8. ASSUME NEW c \in Signatures, NEW ok \in BOOLEAN, NEW kill \in BOOLEAN,
             RunUnasked(c, ok, kill) \/ \E d \in {"approve", "always"} : RunAsked(c, d, ok, kill)
      PROVE  RunsNoted' /\ ThirdCallBlocked'
  <2>1. /\ AtCall(c) /\ ~Blocked(c) /\ Note(c)
        /\ runs' = [runs EXCEPT ![c] = @ + 1] /\ pc' = pc
    BY <1>8 DEF RunUnasked, RunAsked, MustAsk, Reach, Execute
  <2> QED BY <1>3, <2>1
<1>9. ASSUME NEW c \in Signatures, Deny(c) PROVE RunsNoted' /\ ThirdCallBlocked'
  BY <1>1, <1>9 DEF Deny, ResumeAs
<1>10. CASE EndTurn \/ Expire
  BY <1>1, <1>10 DEF EndTurn, Expire, history
<1>11. CASE TimePasses \/ UNCHANGED vars
  BY <1>11 DEF TimePasses, vars, loopVars, history, RunsNoted, ThirdCallBlocked, Occurrences
<1> QED BY <1>4, <1>5, <1>6, <1>7, <1>8, <1>9, <1>10, <1>11 DEF Next, CallStep, Resume

-----------------------------------------------------------------------------
(* The inductive invariant and the theorems *)

(* The initial states satisfy the invariant.                               *)
LEMMA InitLoopInv == Init => LoopInv
<1> SUFFICES ASSUME Init PROVE LoopInv
  OBVIOUS
<1> USE LoopAssumption DEF Init
<1>1. WithinLimits /\ PendingIsCurrent /\ RepeatsBounded /\ TextsHeard
  BY DEF WithinLimits, PendingIsCurrent, RepeatsBounded, TextsHeard
<1>2. EachCallAnswered
  BY DEF EachCallAnswered
<1>3. ConsentKept /\ ConsentGiven
  BY DEF ConsentKept, ConsentGiven
<1>4. ThirdCallBlocked
  BY DEF ThirdCallBlocked
<1>5. RunsNoted
  <2>1. \A c \in Signatures : Occurrences(c) \in Nat
    BY EmptySeq, OccurrencesType
  <2> QED BY <2>1 DEF RunsNoted
<1> QED BY <1>1, <1>2, <1>3, <1>4, <1>5 DEF LoopInv

(* A step keeps the invariant.                                             *)
LEMMA NextLoopInv == TypeOK /\ LoopInv /\ [Next]_vars => LoopInv'
BY NextWithinLimits, NextPendingIsCurrent, NextEachCallAnswered, NextTexts, NextConsent,
   NextRunsNoted
   DEF LoopInv

(***************************************************************************)
(* Every reachable state of a run is typed.                                *)
(***************************************************************************)
THEOREM TypeCorrect == Spec => []TypeOK
<1>1. Init => TypeOK
  BY InitTypeOK
<1>2. TypeOK /\ [Next]_vars => TypeOK'
  BY NextTypeOK
<1> QED BY <1>1, <1>2, PTL DEF Spec

(***************************************************************************)
(* The invariant holds in every reachable state.                           *)
(***************************************************************************)
THEOREM LoopInvariant == Spec => []LoopInv
<1>1. Init => TypeOK /\ LoopInv
  BY InitTypeOK, InitLoopInv
<1>2. TypeOK /\ LoopInv /\ [Next]_vars => TypeOK' /\ LoopInv'
  BY NextTypeOK, NextLoopInv
<1> QED BY <1>1, <1>2, PTL DEF Spec

(***************************************************************************)
(* No run asks the model more than max_steps times or executes more than   *)
(* max_tool_calls calls, however often it is suspended and resumed.        *)
(***************************************************************************)
THEOREM LimitsHold == Spec => []WithinLimits
<1>1. LoopInv => WithinLimits
  BY DEF LoopInv
<1> QED BY <1>1, LoopInvariant, PTL

(***************************************************************************)
(* Each call of a turn has exactly one result before the model is asked    *)
(* again, across suspensions in the middle of the turn.                    *)
(***************************************************************************)
THEOREM CallsAnswered == Spec => []EachCallAnswered
<1>1. LoopInv => EachCallAnswered
  BY DEF LoopInv
<1> QED BY <1>1, LoopInvariant, PTL

(***************************************************************************)
(* The call that resume() finds at pending_call_index is the deferred one. *)
(***************************************************************************)
THEOREM PendingBound == Spec => []PendingIsCurrent
<1>1. LoopInv => PendingIsCurrent
  BY DEF LoopInv
<1> QED BY <1>1, LoopInvariant, PTL

(***************************************************************************)
(* Until seen_signatures is cut, no call is executed a third time with the *)
(* same arguments.                                                         *)
(***************************************************************************)
THEOREM NoThirdCall == Spec => []ThirdCallBlocked
<1>1. LoopInv => ThirdCallBlocked
  BY DEF LoopInv
<1> QED BY <1>1, LoopInvariant, PTL

(***************************************************************************)
(* A gated tool runs only as often as the user said yes to that call,      *)
(* unless the tool was once answered "always".                             *)
(***************************************************************************)
THEOREM ConsentNeeded == Spec => []ConsentGiven
<1>1. LoopInv => ConsentGiven
  BY DEF LoopInv
<1> QED BY <1>1, LoopInvariant, PTL

(***************************************************************************)
(* The guard repeat_text_count >= 2 of _drive is dead code.                *)
(***************************************************************************)
THEOREM RepeatGuardDead == Spec => []RepeatsBounded
<1>1. LoopInv => RepeatsBounded
  BY DEF LoopInv
<1> QED BY <1>1, LoopInvariant, PTL

==============================================================================
