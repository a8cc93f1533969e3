------------------------------- MODULE Arena_proofs -------------------------------
(***************************************************************************)
(* Proofs about the two programs that report on the arena.  The suite: for *)
(* any number of processes, tasks, paths and contents, any limit of the    *)
(* observer, whatever an agent asks for and whatever its commands leave    *)
(* running.  The evaluation of a pull request: for any changes of any      *)
(* number of files, however their paths are written, and any limits.       *)
(***************************************************************************)
EXTENDS Suite, DiffReport, FoldFacts, FiniteSetTheorems, WellFoundedInduction, TLAPS

-----------------------------------------------------------------------------
(***************************************************************************)
(* Differences of snapshots                                                *)
(***************************************************************************)
(* A snapshot is of some of the paths; a hash stands for one content.      *)
IsSnapshot(b) ==
  /\ b = [p \in DOMAIN b |-> b[p]] /\ DOMAIN b \subseteq Paths
  /\ \A p \in DOMAIN b : b[p].sha \in Hashed \cup {Absent}

LEMMA SnapshotIs ==
  ASSUME NEW w \in World
  PROVE  /\ IsSnapshot(Snapshot(w)) /\ DOMAIN Snapshot(w) = Seen(w)
         /\ \A p \in Seen(w) : Snapshot(w)[p].sha = Sha(w[p])
BY DEF IsSnapshot, Snapshot, Seen, Present, Sha

LEMMA ExtremesExist ==
  ASSUME NEW S \in SUBSET Paths, S # {}
  PROVE  Greatest(S) \in S /\ Least(S) \in S
BY ObservationAssumption DEF Greatest, Least

(* A renaming pairs a path that is gone with a new one of the same hash.   *)
LEMMA RenamedPairs ==
  ASSUME NEW b, NEW a, IsSnapshot(b), IsSnapshot(a)
  PROVE  /\ \A r \in Renamed(b, a) :
              /\ r[1] \in Deleted(b, a) /\ r[2] \in Created(b, a)
              /\ b[r[1]].sha = a[r[2]].sha
         /\ \A r, q \in Renamed(b, a) : r[2] = q[2] => r = q
<1> DEFINE gone(h) == {p \in Deleted(b, a) : b[p].sha = h}
           new(h)  == {p \in Created(b, a) : a[p].sha = h}
           both    == {h \in Hashed : gone(h) # {} /\ new(h) # {}}
<1>1. \A h \in both : /\ Greatest(gone(h)) \in gone(h)
                      /\ Least(new(h)) \in new(h)
  <2>1. \A h \in both : gone(h) \in SUBSET Paths /\ new(h) \in SUBSET Paths
    BY DEF IsSnapshot, Deleted, Created
  <2> QED BY <2>1, ExtremesExist
<1>2. \A r \in Renamed(b, a) : \E h \in both : r = <<Greatest(gone(h)), Least(new(h))>>
  BY DEF Renamed
<1> HIDE DEF both
<1>3. ASSUME NEW r \in Renamed(b, a)
      PROVE  \E h \in both : /\ r = <<Greatest(gone(h)), Least(new(h))>>
                             /\ r[1] \in gone(h) /\ r[2] \in new(h)
  <2>1. PICK h \in both : r = <<Greatest(gone(h)), Least(new(h))>>
    BY <1>2
  <2>2. r[1] = Greatest(gone(h)) /\ r[2] = Least(new(h))
    BY <2>1
  <2> QED BY <1>1, <2>1, <2>2
<1>4. \A r \in Renamed(b, a) : /\ r[1] \in Deleted(b, a) /\ r[2] \in Created(b, a)
                               /\ b[r[1]].sha = a[r[2]].sha
  BY <1>3
<1>5. ASSUME NEW r \in Renamed(b, a), NEW q \in Renamed(b, a), r[2] = q[2] PROVE r = q
  <2>1. PICK h \in both : r = <<Greatest(gone(h)), Least(new(h))>> /\ r[2] \in new(h)
    BY <1>3
  <2>2. PICK k \in both : q = <<Greatest(gone(k)), Least(new(k))>> /\ q[2] \in new(k)
    BY <1>3
  <2>3. h = k
    BY <1>5, <2>1, <2>2
  <2> HIDE DEF gone, new
  <2> QED BY <2>1, <2>2, <2>3
<1> QED BY <1>4, <1>5

(* The changes of a difference, kind by kind. *)
LEMMA DeltaKinds ==
  ASSUME NEW b, NEW a, IsSnapshot(b), IsSnapshot(a), NEW c \in Delta(b, a)
  PROVE  \/ /\ c.kind = "MODIFIED" /\ c.path \in Modified(b, a)
            /\ c = Change("MODIFIED", c.path, c.path, a[c.path])
         \/ /\ c.kind = "DELETED" /\ c.path \in Deleted(b, a)
            /\ c = Change("DELETED", c.path, c.path, b[c.path])
         \/ /\ c.kind = "CREATED" /\ c.path \in Created(b, a)
            /\ \A r \in Renamed(b, a) : r[2] # c.path
            /\ c = Change("CREATED", c.path, c.path, a[c.path])
         \/ /\ c.kind = "RENAMED" /\ c.path \in Created(b, a) /\ c.from \in Deleted(b, a)
            /\ \E r \in Renamed(b, a) :
                 r[2] = c.path /\ c = Change("RENAMED", r[1], r[2], a[r[2]])
<1> DEFINE moves == Renamed(b, a)
           moved == {r[1] : r \in moves} \cup {r[2] : r \in moves}
<1>1. \/ \E p \in Modified(b, a) : c = Change("MODIFIED", p, p, a[p])
      \/ \E p \in Deleted(b, a) \ moved : c = Change("DELETED", p, p, b[p])
      \/ \E p \in Created(b, a) \ moved : c = Change("CREATED", p, p, a[p])
      \/ \E r \in moves : c = Change("RENAMED", r[1], r[2], a[r[2]])
  BY DEF Delta
<1>2. \A r \in moves : r[1] \in Deleted(b, a) /\ r[2] \in Created(b, a)
  BY RenamedPairs
<1> HIDE DEF moves
<1>3. CASE \E p \in Modified(b, a) : c = Change("MODIFIED", p, p, a[p])
  BY <1>3 DEF Change
<1>4. CASE \E p \in Deleted(b, a) \ moved : c = Change("DELETED", p, p, b[p])
  BY <1>4 DEF Change
<1>5. CASE \E p \in Created(b, a) \ moved : c = Change("CREATED", p, p, a[p])
  BY <1>5 DEF Change, moves
<1>6. CASE \E r \in moves : c = Change("RENAMED", r[1], r[2], a[r[2]])
  BY <1>2, <1>6 DEF Change, moves
<1> QED BY <1>1, <1>3, <1>4, <1>5, <1>6

(* Every path that differs is told of. *)
LEMMA DeltaTells ==
  ASSUME NEW b, NEW a, IsSnapshot(b), IsSnapshot(a)
  PROVE  /\ \A p \in Modified(b, a) \cup Created(b, a) :
              \E c \in Delta(b, a) : c.path = p /\ c.kind # "DELETED"
         /\ \A p \in Deleted(b, a) :
              \E c \in Delta(b, a) : \/ c.path = p /\ c.kind = "DELETED"
                                     \/ c.from = p /\ c.kind = "RENAMED"
<1> DEFINE moves == Renamed(b, a)
           moved == {r[1] : r \in moves} \cup {r[2] : r \in moves}
<1>1. /\ \A p \in Modified(b, a) : Change("MODIFIED", p, p, a[p]) \in Delta(b, a)
      /\ \A p \in Deleted(b, a) \ moved : Change("DELETED", p, p, b[p]) \in Delta(b, a)
      /\ \A p \in Created(b, a) \ moved : Change("CREATED", p, p, a[p]) \in Delta(b, a)
      /\ \A r \in moves : Change("RENAMED", r[1], r[2], a[r[2]]) \in Delta(b, a)
  BY DEF Delta
<1>2. /\ \A p \in Deleted(b, a) \cap moved : \E r \in moves : r[1] = p
      /\ \A p \in Created(b, a) \cap moved : \E r \in moves : r[2] = p
  BY RenamedPairs DEF Deleted, Created
<1>3. \A kind, from, path, entry :
        /\ Change(kind, from, path, entry).kind = kind /\ Change(kind, from, path, entry).path = path
        /\ Change(kind, from, path, entry).from = from
  BY DEF Change
<1> HIDE DEF moves, moved
<1>4. ASSUME NEW p \in Modified(b, a) PROVE \E c \in Delta(b, a) : c.path = p /\ c.kind # "DELETED"
  BY <1>1, <1>3
<1>5. ASSUME NEW p \in Created(b, a) PROVE \E c \in Delta(b, a) : c.path = p /\ c.kind # "DELETED"
  <2>1. CASE p \in moved
    BY <1>1, <1>2, <1>3, <2>1
  <2>2. CASE p \notin moved
    BY <1>1, <1>3, <2>2
  <2> QED BY <2>1, <2>2
<1>6. ASSUME NEW p \in Deleted(b, a)
      PROVE  \E c \in Delta(b, a) : \/ c.path = p /\ c.kind = "DELETED"
                                    \/ c.from = p /\ c.kind = "RENAMED"
  <2>1. CASE p \in moved
    BY <1>1, <1>2, <1>3, <2>1
  <2>2. CASE p \notin moved
    BY <1>1, <1>3, <2>2
  <2> QED BY <2>1, <2>2
<1> QED BY <1>4, <1>5, <1>6

LEMMA OneChangeOfPath ==
  ASSUME NEW b, NEW a, IsSnapshot(b), IsSnapshot(a),
         NEW c \in Delta(b, a), NEW d \in Delta(b, a), c.path = d.path
  PROVE  c = d
<1>1. Modified(b, a) \cap Deleted(b, a) = {} /\ Modified(b, a) \cap Created(b, a) = {}
      /\ Deleted(b, a) \cap Created(b, a) = {}
  BY DEF Modified, Deleted, Created
<1>2. \A r, q \in Renamed(b, a) : r[2] = q[2] => r = q
  BY RenamedPairs
<1>3. c.kind = d.kind
  BY <1>1, DeltaKinds
<1>4. CASE c.kind = "RENAMED"
  <2>1. PICK r \in Renamed(b, a) : r[2] = c.path /\ c = Change("RENAMED", r[1], r[2], a[r[2]])
    BY <1>4, DeltaKinds
  <2>2. d.kind = "RENAMED"
    BY <1>3, <1>4
  <2>3. PICK q \in Renamed(b, a) : q[2] = d.path /\ d = Change("RENAMED", q[1], q[2], a[q[2]])
    BY <2>2, DeltaKinds
  <2> QED BY <1>2, <2>1, <2>3
<1>5. CASE c.kind # "RENAMED"
  BY <1>3, <1>5, DeltaKinds
<1> QED BY <1>4, <1>5

(***************************************************************************)
(* The changes of a difference, applied to the first snapshot, give the    *)
(* second.                                                                 *)
(***************************************************************************)
LEMMA RebuiltIsAfter ==
  ASSUME NEW b, NEW a, IsSnapshot(b), IsSnapshot(a)
  PROVE  Rebuilt(b, Delta(b, a)) = a
<1> DEFINE D    == Delta(b, a)
           gone == {c.path : c \in {c \in D : c.kind = "DELETED"}}
                     \cup {c.from : c \in {c \in D : c.kind = "RENAMED"}}
           new  == {c \in D : c.kind # "DELETED"}
           there   == {c.path : c \in new}
           got(p) == IF \E c \in new : c.path = p THEN (CHOOSE c \in new : c.path = p).entry ELSE b[p]
<1>1. gone = Deleted(b, a)
  <2>1. \A c \in D : c.kind = "DELETED" => c.path \in Deleted(b, a)
    BY DeltaKinds
  <2>2. \A c \in D : c.kind = "RENAMED" => c.from \in Deleted(b, a)
    BY DeltaKinds
  <2>3. \A p \in Deleted(b, a) : \E c \in D : \/ c.path = p /\ c.kind = "DELETED"
                                              \/ c.from = p /\ c.kind = "RENAMED"
    BY DeltaTells
  <2> HIDE DEF D
  <2> QED BY <2>1, <2>2, <2>3
<1>2. there = Modified(b, a) \cup Created(b, a)
  <2>1. \A c \in D : c.kind # "DELETED" => c.path \in Modified(b, a) \cup Created(b, a)
    BY DeltaKinds
  <2>2. \A p \in Modified(b, a) \cup Created(b, a) : \E c \in D : c.path = p /\ c.kind # "DELETED"
    BY DeltaTells
  <2> HIDE DEF D
  <2> QED BY <2>1, <2>2
<1>3. \A c \in new : c.entry = a[c.path]
  <2> SUFFICES ASSUME NEW c \in D, c.kind # "DELETED" PROVE c.entry = a[c.path]
    OBVIOUS
  <2> QED BY DeltaKinds DEF Change
<1>4. Rebuilt(b, D) = [p \in (DOMAIN b \ gone) \cup there |-> got(p)]
  BY DEF Rebuilt
<1> HIDE DEF D, gone
<1>5. ASSUME NEW p \in there PROVE got(p) = a[p]
  <2>1. \E c \in new : c.path = p
    OBVIOUS
  <2>2. (CHOOSE c \in new : c.path = p) \in new /\ (CHOOSE c \in new : c.path = p).path = p
    BY <2>1
  <2> QED BY <1>3, <2>1, <2>2
<1>6. ASSUME NEW p \in DOMAIN b \ gone, p \notin there PROVE got(p) = a[p]
  <2>1. got(p) = b[p]
    BY <1>6
  <2>2. p \in DOMAIN a /\ p \notin Modified(b, a)
    BY <1>1, <1>2, <1>6 DEF Deleted
  <2> QED BY <2>1, <2>2 DEF Modified
<1> HIDE DEF there, got
<1>7. (DOMAIN b \ gone) \cup there = DOMAIN a
  BY <1>1, <1>2 DEF Deleted, Created, Modified
<1>8. Rebuilt(b, D) = [p \in DOMAIN a |-> a[p]]
  <2>1. \A p \in DOMAIN a : got(p) = a[p]
    BY <1>5, <1>6, <1>7
  <2> QED BY <1>4, <1>7, <2>1
<1> QED BY <1>8 DEF IsSnapshot, D

-----------------------------------------------------------------------------
(***************************************************************************)
(* What is true of the task at hand                                        *)
(***************************************************************************)
(* Artifacts are one check each, and two more if they were claimed. *)
MostChecks(t) == 3 * Cardinality(Spec0[t].artifacts) + Spec0[t].terms

BusyInv ==
  /\ busy = NoSuite => Idle
  /\ busy # NoSuite => phase[busy] = "running" /\ next[busy] <= Len(Order) /\ pc # "idle"
  /\ pc = "suspended" => pending \in Commands \cup Calls

(* The counts, and a verdict other than PASS among them. *)
CheckInv ==
  /\ pc # "finish" => verdict = "none"
  /\ pc \in {"agent", "suspended", "checks"} => checks = NoChecks
  /\ checks.failed <= checks.total
  /\ pc = "verify" => checks.total <= MostChecks(Task(busy)) + 1
  /\ pc = "finish" => checks.total <= MostChecks(Task(busy)) + 2
  /\ pc = "finish" /\ Spec0[Task(busy)].verify # {} /\ verdict # "PASS" => checks.failed >= 1

TaskInv == TypeOK /\ BusyInv /\ CheckInv

(* A claimed artifact that was not refuted is what the command left. *)
ClaimsHold == \A a \in Claimed(Task(busy)) : world[a.path] = ev.after[a.path]

ReobservedInv ==
  /\ pc \in {"verify", "finish"} /\ ~stale /\ checks.failed = 0 => ClaimsHold
  /\ PassIsReobserved

(***************************************************************************)
(* What is true of the ledger.  Its first n rows are those that a process  *)
(* read when it started; its own rows come after them, one for each task.  *)
(***************************************************************************)
ScoredIn(n, m, t) == {i \in Scored(m, t) : i <= n}

LastIn(n, m, t) == IF ScoredIn(n, m, t) = {} THEN NoScore ELSE ledger[Greatest(ScoredIn(n, m, t))].score

RowsOf(s) == {i \in DOMAIN ledger : ledger[i].suite = s}

LedgerInv ==
  \A s \in Suites :
    /\ base[s] <= Len(ledger)
    /\ \A i \in RowsOf(s) :
         /\ phase[s] # "new" /\ base[s] < i /\ ledger[i].mode = mode[s]
         /\ \E k \in 1 .. next[s] - 1 : ledger[i].task = Order[k]
    /\ \A i, j \in RowsOf(s) : ledger[i].task = ledger[j].task => i = j
    /\ phase[s] # "new" => \A t \in Tasks : previous[s][t] = LastIn(base[s], mode[s], t)
    /\ phase[s] = "ended" => regressions[s] = Regressed(s)

-----------------------------------------------------------------------------
(***************************************************************************)
(* Helpers                                                                 *)
(***************************************************************************)
(* The steps of a task that record no row. *)
Inside(s) ==
  \/ BeginTask(s) \/ Edit(s) \/ WriteNew(s) \/ Suspend(s) \/ Resume(s) \/ Replies(s)
  \/ RunChecks(s) \/ Verify(s)

(* The steps that do. *)
Recording(s) == NotRun(s) \/ AgentFails(s) \/ Finish(s)

LEMMA TaskIs ==
  ASSUME TypeOK, NEW s \in Suites, next[s] <= Len(Order)
  PROVE  /\ next[s] \in DOMAIN Order /\ Task(s) \in Tasks
         /\ IsTaskSpec(Spec0[Task(s)]) /\ next[s] + 1 \in 1 .. Len(Order) + 1
<1>1. Len(Order) \in Nat /\ DOMAIN Order = 1 .. Len(Order)
  BY SuiteAssumption
<1>2. next[s] \in DOMAIN Order
  BY <1>1 DEF TypeOK
<1>3. Task(s) \in Tasks
  BY <1>2 DEF Task, Tasks
<1> QED BY <1>1, <1>2, <1>3, SuiteAssumption

LEMMA RunsAreOrders == Len(Order) \in Nat /\ DOMAIN Order = 1 .. Len(Order)
BY SuiteAssumption

LEMMA EvidenceIs ==
  ASSUME NEW w \in World, NEW v \in World, NEW x \in Exits
  PROVE  IsEvidence(EvidenceOf(w, v, x))
BY DEF IsEvidence, EvidenceOf

LEMMA ApplyIs ==
  ASSUME NEW e \in Updates, NEW w \in World PROVE Apply(e, w) \in World
BY SuiteAssumption DEF Apply, World

LEMMA RunToolIs ==
  ASSUME NEW c \in Calls, NEW w \in World PROVE RunTool(c, w) \in World
<1>1. c \in FileCall
  BY SuiteAssumption
<1>2. c.text \in Contents
  BY <1>1 DEF FileCall
<1> QED BY <1>2 DEF RunTool, World

(* Bounded numbers have a greatest one. *)
LEMMA GreatestOf ==
  ASSUME NEW n \in Nat, NEW S \in SUBSET Nat, S # {}, \A i \in S : i <= n
  PROVE  Greatest(S) \in S /\ \A i \in S : i <= Greatest(S)
<1> DEFINE T == {n - i : i \in S}
<1>1. T \subseteq Nat /\ T # {}
  <2>1. \A i \in S : n - i \in Nat
    OBVIOUS
  <2> QED BY <2>1
<1>2. PICK v \in T : \A w \in T : <<w, v>> \notin OpToRel(<, Nat)
  BY <1>1, NatLessThanWellFounded, WFMin
<1>3. PICK i \in S : v = n - i
  OBVIOUS
<1>4. ASSUME NEW j \in S PROVE j <= i
  <2>1. <<n - j, v>> \notin OpToRel(<, Nat)
    BY <1>2
  <2>2. ~(n - j < v)
    BY <1>1, <2>1 DEF OpToRel
  <2> QED BY <1>3, <2>2
<1> QED BY <1>4 DEF Greatest

(* A quotient of naturals, and a bound on it. *)
LEMMA Quotient ==
  ASSUME NEW a \in Nat, NEW b \in Nat, b > 0
  PROVE  a \div b \in Nat /\ b * (a \div b) <= a
OBVIOUS

(* A claim that fails is one of those made, each of them an artifact. *)
LEMMA Counted ==
  ASSUME TypeOK, NEW t \in Tasks, NEW A, NEW B, A \subseteq Spec0[t].artifacts, B \subseteq A
  PROVE  /\ Cardinality(A) \in Nat /\ Cardinality(B) \in Nat
         /\ Cardinality(B) <= Cardinality(A)
         /\ Cardinality(A) <= Cardinality(Spec0[t].artifacts)
         /\ Cardinality(Spec0[t].artifacts) \in Nat /\ Spec0[t].terms \in Nat
         /\ Cardinality(B) = 0 => B = {}
<1>1. IsFiniteSet(Spec0[t].artifacts) /\ Spec0[t].terms \in Nat
  BY SuiteAssumption DEF IsTaskSpec
<1>2. IsFiniteSet(A) /\ Cardinality(A) <= Cardinality(Spec0[t].artifacts)
  BY <1>1, FS_Subset
<1>3. IsFiniteSet(B) /\ Cardinality(B) <= Cardinality(A)
  BY <1>2, FS_Subset
<1> QED BY <1>1, <1>2, <1>3, FS_CardinalityType, FS_EmptySet

-----------------------------------------------------------------------------
(***************************************************************************)
(* Types and counts                                                        *)
(***************************************************************************)
LEMMA ScoreIs ==
  ASSUME TaskInv
  PROVE  Score \in Nat \cup {NoScore}
<1>1. CASE checks.total = 0
  BY <1>1 DEF Score
<1>2. CASE checks.total # 0
  <2> DEFINE n == 2000 * (checks.total - checks.failed) + checks.total
             d == 2 * checks.total
  <2>1. n \in Nat /\ d \in Nat /\ d > 0
    BY <1>2 DEF TaskInv, TypeOK, CheckInv
  <2> HIDE DEF n, d
  <2>2. n \div d \in Nat
    BY <2>1, Quotient
  <2> QED BY <1>2, <2>2 DEF Score, n, d
<1> QED BY <1>1, <1>2

LEMMA RecordFacts ==
  ASSUME TypeOK, NEW s \in Suites, next[s] <= Len(Order),
         NEW score \in Nat \cup {NoScore}, Record(s, score)
  PROVE  /\ ledger' \in Seq(Row) /\ next' \in [Suites -> 1 .. Len(Order) + 1]
         /\ Len(ledger') = Len(ledger) + 1
         /\ \A i \in DOMAIN ledger : ledger'[i] = ledger[i]
         /\ ledger'[Len(ledger) + 1] =
              [suite |-> s, task |-> Task(s), mode |-> mode[s], score |-> score]
<1>1. [suite |-> s, task |-> Task(s), mode |-> mode[s], score |-> score] \in Row
  BY TaskIs DEF TypeOK, Row
<1>2. next' \in [Suites -> 1 .. Len(Order) + 1]
  <2>1. next' = [next EXCEPT ![s] = next[s] + 1]
    BY DEF Record
  <2> QED BY <2>1, TaskIs DEF TypeOK
<1> QED BY <1>1, <1>2 DEF TypeOK, Record

LEMMA IdleIs == World # {} => Empty \in World
BY DEF Empty, World

LEMMA RecordingTypes ==
  ASSUME TaskInv, NEW s \in Suites, Recording(s)
  PROVE  TaskInv'
<1>1. next[s] <= Len(Order) /\ \E score \in Nat \cup {NoScore} : Record(s, score)
  BY ScoreIs, SuiteAssumption DEF Recording, NotRun, AgentFails, Finish, TaskInv, BusyInv
<1>2. PICK score \in Nat \cup {NoScore} : Record(s, score)
  BY <1>1
<1>3. ledger' \in Seq(Row) /\ next' \in [Suites -> 1 .. Len(Order) + 1]
  BY <1>1, <1>2, RecordFacts DEF TaskInv
<1>4. Idle'
  BY <1>2 DEF Record, BecomesIdle, Idle
<1>5. Empty \in World
  BY DEF Empty, World
<1>6. UNCHANGED <<phase, mode, previous, regressions, base>>
  BY <1>2 DEF Record
<1>7. TypeOK'
  <2>1. NoChecks \in [total : Nat, failed : Nat]
    BY DEF NoChecks
  <2>2. 0 \in 0 .. ScriptLength + 3 /\ 0 \in 0 .. MaxEdits
    BY SuiteAssumption
  <2>3. /\ busy' = NoSuite /\ shell' = FALSE /\ pc' = "idle" /\ world' = Empty /\ ev' = NoEvidence
        /\ resumes' = 0 /\ edits' = 0 /\ pending' = NoCall /\ checks' = NoChecks
        /\ verdict' = "none" /\ stale' = FALSE
    BY <1>4 DEF Idle
  <2> QED BY <1>3, <1>5, <1>6, <2>1, <2>2, <2>3 DEF TaskInv, TypeOK
<1>8. BusyInv'
  BY <1>4, <1>5 DEF BusyInv, Idle
<1>9. CheckInv'
  BY <1>4 DEF CheckInv, Idle, NoChecks
<1> QED BY <1>7, <1>8, <1>9 DEF TaskInv

(* What RunChecks counts: no more than there is, and no failure of none. *)
LEMMA ChecksCounted ==
  ASSUME TaskInv, NEW s \in Suites, RunChecks(s)
  PROVE  /\ checks' \in [total : Nat, failed : Nat] /\ checks'.failed <= checks'.total
         /\ checks'.total <= MostChecks(Task(s)) + 1
         /\ checks'.failed = 0 =>
              \A a \in Claimed(Task(s)) : \A c \in ChangesAt(ev, a.path) : Matches(world, c)
<1> DEFINE t       == Task(s)
           missing == {a \in Spec0[t].artifacts : world[a.path] \notin a.want}
           refuted == {a \in Claimed(t) : \E c \in ChangesAt(ev, a.path) : ~Matches(world, c)}
<1>1. t \in Tasks /\ TypeOK
  BY TaskIs, SuiteAssumption DEF TaskInv, BusyInv, RunChecks
<1>2. Claimed(t) \subseteq Spec0[t].artifacts
  BY DEF Claimed
<1>3. /\ Cardinality(Claimed(t)) \in Nat /\ Cardinality(refuted) \in Nat
      /\ Cardinality(refuted) <= Cardinality(Claimed(t))
      /\ Cardinality(Claimed(t)) <= Cardinality(Spec0[t].artifacts)
      /\ Cardinality(Spec0[t].artifacts) \in Nat /\ Spec0[t].terms \in Nat
      /\ Cardinality(refuted) = 0 => refuted = {}
  BY <1>1, <1>2, Counted
<1>4. /\ Cardinality(missing) \in Nat
      /\ Cardinality(missing) <= Cardinality(Spec0[t].artifacts)
  BY <1>1, Counted
<1>5. SecretHits \in {0, 1}
  BY DEF SecretHits, Count
<1> HIDE DEF t, missing, refuted
<1>6. PICK wrong \in 0 .. Spec0[t].terms :
        checks' = [total  |-> Cardinality(Spec0[t].artifacts) + Spec0[t].terms
                                + 2 * Cardinality(Claimed(t)) + SecretHits,
                   failed |-> Cardinality(missing) + wrong + Cardinality(refuted) + SecretHits]
  BY DEF RunChecks, t, missing, refuted
<1>7. checks'.failed = 0 => Cardinality(refuted) = 0
  <2>1. \A i, j, k, l \in Nat : i + j + k + l = 0 => k = 0
    OBVIOUS
  <2>2. wrong \in Nat /\ SecretHits \in Nat
    BY <1>3, <1>5
  <2>3. checks'.failed = Cardinality(missing) + wrong + Cardinality(refuted) + SecretHits
    BY <1>6
  <2> QED BY <1>3, <1>4, <2>1, <2>2, <2>3
<1>8. /\ checks' \in [total : Nat, failed : Nat] /\ checks'.failed <= checks'.total
      /\ checks'.total <= MostChecks(t) + 1
  BY <1>3, <1>4, <1>5, <1>6 DEF MostChecks
<1>9. refuted = {} => \A a \in Claimed(t) : \A c \in ChangesAt(ev, a.path) : Matches(world, c)
  BY DEF refuted
<1> QED BY <1>3, <1>7, <1>8, <1>9 DEF t

LEMMA VerdictIs ==
  ASSUME NEW outcomes
  PROVE  Settle(outcomes) \in {"PASS", "FAIL", "INCONCLUSIVE"}
BY DEF Settle

(* The verifier's verdict is one more check. *)
LEMMA VerifyFacts ==
  ASSUME TaskInv, NEW s \in Suites, Verify(s)
  PROVE  /\ verdict' \in {"PASS", "FAIL", "INCONCLUSIVE"}
         /\ checks' \in [total : Nat, failed : Nat] /\ checks'.failed <= checks'.total
         /\ checks'.total = checks.total + 1
         /\ checks.failed <= checks'.failed
         /\ verdict' # "PASS" => checks'.failed >= 1
<1>1. PICK v \in {"PASS", "FAIL", "INCONCLUSIVE"} : verdict' = v /\ checks' = CountVerdict(v)
  BY VerdictIs DEF Verify, VerdictOf
<1>2. checks.total \in Nat /\ checks.failed \in Nat /\ checks.failed <= checks.total
  BY DEF TaskInv, TypeOK, CheckInv
<1> QED BY <1>1, <1>2 DEF CountVerdict, Count

LEMMA InsideTypes ==
  ASSUME TaskInv, NEW s \in Suites, Inside(s)
  PROVE  TaskInv'
<1> USE DEF TaskInv
<1>1. UNCHANGED <<ledger, phase, mode, previous, next, regressions, base>>
  BY DEF Inside, BeginTask, Edit, WriteNew, Suspend, Resume, Replies, RunChecks, Verify, suiteVars
<1>2. s # NoSuite
  BY SuiteAssumption
<1>3. CASE BeginTask(s)
  <2>1. Spec0[Task(s)].seed \in World
    BY <1>3, TaskIs DEF BeginTask, IsTaskSpec
  <2>2. shell' \in BOOLEAN
    BY <1>3 DEF BeginTask, ShellEnabled
  <2>3. TypeOK'
    BY <1>1, <1>3, <2>1, <2>2 DEF BeginTask, TypeOK
  <2>4. BusyInv'
    BY <1>1, <1>2, <1>3 DEF BeginTask, BusyInv
  <2>5. CheckInv'
    BY <1>3 DEF BeginTask, CheckInv, BusyInv, Idle
  <2> QED BY <2>3, <2>4, <2>5
<1>4. CASE Edit(s)
  <2>1. world' \in World
    BY <1>4, ApplyIs DEF Edit, TypeOK
  <2>2. edits' \in 0 .. MaxEdits
    BY <1>4, SuiteAssumption DEF Edit, TypeOK
  <2>3. TypeOK'
    BY <1>1, <1>4, <2>1, <2>2 DEF Edit, TypeOK
  <2>4. BusyInv'
    BY <1>1, <1>2, <1>4 DEF Edit, BusyInv
  <2>5. CheckInv'
    BY <1>1, <1>4 DEF Edit, CheckInv, Task
  <2> QED BY <2>3, <2>4, <2>5
<1>5. CASE WriteNew(s)
  <2>1. world' \in World
    BY <1>5, RunToolIs DEF WriteNew, TypeOK
  <2>2. TypeOK'
    BY <1>1, <1>5, <2>1 DEF WriteNew, TypeOK
  <2>3. BusyInv'
    BY <1>1, <1>2, <1>5 DEF WriteNew, BusyInv
  <2>4. CheckInv'
    BY <1>1, <1>5 DEF WriteNew, CheckInv, Task
  <2> QED BY <2>2, <2>3, <2>4
<1>6. CASE Suspend(s)
  <2>1. pending' \in Commands \cup Calls
    BY <1>6 DEF Suspend
  <2>2. TypeOK'
    BY <1>1, <1>6, <2>1 DEF Suspend, TypeOK
  <2>3. BusyInv'
    BY <1>1, <1>2, <1>6, <2>1 DEF Suspend, BusyInv
  <2>4. CheckInv'
    BY <1>1, <1>6 DEF Suspend, CheckInv, Task
  <2> QED BY <2>2, <2>3, <2>4
<1>7. CASE Resume(s)
  <2>1. world' \in World /\ (ev' # NoEvidence => IsEvidence(ev'))
    <3>1. CASE pending \in Commands /\ UNCHANGED <<world, ev>>
      BY <3>1 DEF TypeOK, IsEvidence, EvidenceOf
    <3>2. CASE pending \in Commands /\ ~UNCHANGED <<world, ev>>
      <4>1. PICK e \in Updates, x \in Exits :
              /\ world' = Apply(e, world)
              /\ ev' = EvidenceOf(world, Apply(e, world), x)
        BY <1>7, <3>2 DEF Resume, RunCommand
      <4> QED BY <4>1, ApplyIs, EvidenceIs DEF TypeOK
    <3>3. CASE pending \notin Commands
      BY <1>7, <3>3, RunToolIs DEF Resume, BusyInv, TypeOK, IsEvidence, EvidenceOf
    <3> QED BY <3>1, <3>2, <3>3
  <2>2. resumes' \in 0 .. ScriptLength + 3
    BY <1>7, SuiteAssumption DEF Resume, TypeOK
  <2>3. TypeOK'
    BY <1>1, <1>7, <2>1, <2>2 DEF Resume, TypeOK
  <2>4. BusyInv'
    BY <1>1, <1>2, <1>7 DEF Resume, BusyInv
  <2>5. CheckInv'
    BY <1>1, <1>7 DEF Resume, CheckInv, Task
  <2> QED BY <2>3, <2>4, <2>5
<1>8. CASE Replies(s)
  <2>1. TypeOK'
    BY <1>1, <1>8 DEF Replies, TypeOK
  <2>2. BusyInv'
    BY <1>1, <1>2, <1>8 DEF Replies, BusyInv
  <2>3. CheckInv'
    BY <1>1, <1>8 DEF Replies, CheckInv, Task
  <2> QED BY <2>1, <2>2, <2>3
<1>9. CASE RunChecks(s)
  <2>1. /\ checks' \in [total : Nat, failed : Nat] /\ checks'.failed <= checks'.total
        /\ checks'.total <= MostChecks(Task(s)) + 1
    BY <1>9, ChecksCounted
  <2>2. TypeOK'
    BY <1>1, <1>9, <2>1 DEF RunChecks, TypeOK
  <2>3. BusyInv'
    BY <1>1, <1>2, <1>9 DEF RunChecks, BusyInv
  <2>4. CheckInv'
    <3>1. Task(s)' = Task(s) /\ busy' = s
      BY <1>1, <1>9 DEF Task, RunChecks
    <3>2. Task(s) \in Tasks
      BY <1>2, <1>9, TaskIs DEF RunChecks, BusyInv
    <3>3. MostChecks(Task(s)) \in Nat
      BY <3>2, Counted DEF MostChecks
    <3> QED BY <1>9, <2>1, <3>1, <3>3 DEF RunChecks, CheckInv, MostChecks, TypeOK
  <2> QED BY <2>2, <2>3, <2>4
<1>10. CASE Verify(s)
  <2>1. TypeOK'
    BY <1>1, <1>10, VerifyFacts DEF Verify, TypeOK
  <2>2. BusyInv'
    BY <1>1, <1>2, <1>10 DEF Verify, BusyInv
  <2>3. CheckInv'
    <3>1. Task(s)' = Task(s) /\ busy' = s /\ busy = s /\ pc = "verify" /\ pc' = "finish"
      BY <1>1, <1>10 DEF Task, Verify
    <3>2. Task(s) \in Tasks
      BY <1>2, <3>1, TaskIs DEF BusyInv
    <3>3. MostChecks(Task(s)) \in Nat
      BY <3>2, Counted DEF MostChecks
    <3>4. checks'.total <= MostChecks(Task(s)) + 2
      <4>1. checks.total <= MostChecks(Task(s)) + 1
        BY <3>1 DEF CheckInv
      <4>2. checks.total \in Nat
        BY DEF TypeOK
      <4> HIDE DEF TaskInv
      <4>3. checks'.total = checks.total + 1
        BY <1>10, VerifyFacts
      <4> QED BY <3>3, <4>1, <4>2, <4>3
    <3> QED BY <1>10, <3>1, <3>4, VerifyFacts DEF CheckInv, MostChecks
  <2> QED BY <2>1, <2>2, <2>3
<1> QED BY <1>3, <1>4, <1>5, <1>6, <1>7, <1>8, <1>9, <1>10 DEF Inside

(* Start, End and Kill. *)
LEMMA ProcessTypes ==
  ASSUME TaskInv, NEW s \in Suites, Start(s) \/ End(s) \/ Kill(s)
  PROVE  TaskInv'
<1> USE DEF TaskInv
<1>1. UNCHANGED <<ledger, mode, next>>
  BY DEF Start, End, Kill
<1>2. phase' \in [Suites -> {"new", "running", "ended", "killed"}]
  BY DEF Start, End, Kill, TypeOK
<1>3. previous' \in [Suites -> [Tasks -> Nat \cup {NoScore}]]
  <2>1. \A t : LastScore(mode[s], t) \in Nat \cup {NoScore}
    <3> SUFFICES ASSUME NEW t, Scored(mode[s], t) # {}
                 PROVE  ledger[Greatest(Scored(mode[s], t))].score \in Nat \cup {NoScore}
      BY DEF LastScore
    <3> DEFINE S == Scored(mode[s], t)
    <3>1. Len(ledger) \in Nat /\ S \in SUBSET Nat /\ \A i \in S : i <= Len(ledger)
      BY DEF Scored, Rows, TypeOK
    <3>2. Greatest(S) \in S
      <4> HIDE DEF S, TaskInv
      <4>1. S # {}
        BY DEF S
      <4> QED BY <3>1, <4>1, GreatestOf
    <3>3. Greatest(S) \in DOMAIN ledger
      BY <3>2 DEF Scored, Rows
    <3> HIDE DEF S
    <3>4. ledger[Greatest(S)] \in Row
      BY <3>3 DEF TypeOK
    <3> QED BY <3>4 DEF Row, S
  <2>2. [t \in Tasks |-> LastScore(mode[s], t)] \in [Tasks -> Nat \cup {NoScore}]
    BY <2>1
  <2>3. \/ previous' = previous
        \/ previous' = [previous EXCEPT ![s] = [t \in Tasks |-> LastScore(mode[s], t)]]
    BY DEF Start, End, Kill
  <2> HIDE DEF TaskInv
  <2>4. previous \in [Suites -> [Tasks -> Nat \cup {NoScore}]]
    BY DEF TaskInv, TypeOK
  <2> QED BY <2>2, <2>3, <2>4
<1>4. regressions' \in [Suites -> SUBSET Tasks]
  <2>1. \A i \in DOMAIN ledger : ledger[i].task \in Tasks
    <3>1. \A i \in DOMAIN ledger : ledger[i] \in Row
      BY DEF TypeOK
    <3>2. \A r \in Row : r.task \in Tasks
      BY DEF Row
    <3> QED BY <3>1, <3>2
  <2>2. Regressed(s) \subseteq Tasks
    BY <2>1 DEF Regressed
  <2> QED BY <2>2 DEF Start, End, Kill, TypeOK
<1>5. base' \in [Suites -> Nat]
  <2>1. Len(ledger) \in Nat /\ base \in [Suites -> Nat]
    BY DEF TypeOK
  <2>2. base' = base \/ base' = [base EXCEPT ![s] = Len(ledger)]
    BY DEF Start, End, Kill
  <2> HIDE DEF TaskInv
  <2> QED BY <2>1, <2>2
<1>6. CASE UNCHANGED <<busy, taskVars>>
  <2>1. TypeOK'
    BY <1>1, <1>2, <1>3, <1>4, <1>5, <1>6 DEF TypeOK, taskVars
  <2>2. CheckInv'
    BY <1>1, <1>6 DEF CheckInv, Task, taskVars
  <2>3. BusyInv'
    <3>1. busy # NoSuite => busy # s
      <4>1. Kill(s) /\ busy = s => busy' = NoSuite /\ busy' = busy
        BY <1>6 DEF Kill, BecomesIdle
      <4>2. busy # NoSuite => phase[busy] = "running" /\ next[busy] <= Len(Order)
        BY DEF BusyInv
      <4>3. next[s] \in Nat
        BY RunsAreOrders DEF TypeOK
      <4> QED BY <4>1, <4>2, <4>3, RunsAreOrders, SuiteAssumption DEF Start, End
    <3>2. busy # NoSuite => phase'[busy] = phase[busy]
      BY <3>1 DEF Start, End, Kill, TypeOK
    <3> QED BY <1>1, <1>6, <3>2 DEF BusyInv, Idle, taskVars
  <2> QED BY <2>1, <2>2, <2>3
<1>7. CASE Kill(s) /\ BecomesIdle
  <2>1. Idle'
    BY <1>7 DEF BecomesIdle, Idle
  <2>2. BusyInv' /\ CheckInv'
    BY <2>1 DEF BusyInv, CheckInv, Idle, NoChecks
  <2>3. /\ NoChecks \in [total : Nat, failed : Nat] /\ Empty \in World
        /\ 0 \in 0 .. ScriptLength + 3 /\ 0 \in 0 .. MaxEdits
    BY SuiteAssumption DEF NoChecks, Empty, World
  <2>4. /\ busy' = NoSuite /\ shell' = FALSE /\ pc' = "idle" /\ world' = Empty /\ ev' = NoEvidence
        /\ resumes' = 0 /\ edits' = 0 /\ pending' = NoCall /\ checks' = NoChecks
        /\ verdict' = "none" /\ stale' = FALSE
    BY <2>1 DEF Idle
  <2>5. TypeOK'
    BY <1>1, <1>2, <1>3, <1>4, <1>5, <2>3, <2>4 DEF TypeOK
  <2> QED BY <2>2, <2>5
<1> QED BY <1>6, <1>7 DEF Start, End, Kill

LEMMA InitTaskInv == Init => TaskInv
<1> SUFFICES ASSUME Init PROVE TaskInv
  OBVIOUS
<1>1. /\ NoChecks \in [total : Nat, failed : Nat] /\ Empty \in World
      /\ 0 \in 0 .. ScriptLength + 3 /\ 0 \in 0 .. MaxEdits /\ 1 \in 1 .. Len(Order) + 1
  BY SuiteAssumption, RunsAreOrders DEF NoChecks, Empty, World
<1>2. TypeOK
  <2>1. ledger \in Seq(Row) /\ mode \in [Suites -> {"mock", "live"}]
    BY SuiteAssumption DEF Init
  <2>2. /\ busy = NoSuite /\ shell = FALSE /\ pc = "idle" /\ world = Empty /\ ev = NoEvidence
        /\ resumes = 0 /\ edits = 0 /\ pending = NoCall /\ checks = NoChecks
        /\ verdict = "none" /\ stale = FALSE
    BY DEF Init, Idle
  <2> QED BY <1>1, <2>1, <2>2 DEF Init, TypeOK
<1>3. BusyInv /\ CheckInv
  BY DEF Init, Idle, BusyInv, CheckInv, NoChecks
<1> QED BY <1>2, <1>3 DEF TaskInv

LEMMA NextTaskInv == TaskInv /\ [Next]_vars => TaskInv'
<1> SUFFICES ASSUME TaskInv, [Next]_vars PROVE TaskInv'
  OBVIOUS
<1>1. CASE UNCHANGED vars
  BY <1>1 DEF vars, suiteVars, taskVars, TaskInv, TypeOK, BusyInv, CheckInv, Idle, Task
<1>2. ASSUME NEW s \in Suites, Step(s) \/ Kill(s) PROVE TaskInv'
  BY <1>2, InsideTypes, RecordingTypes, ProcessTypes DEF Step, Inside, Recording
<1> QED BY <1>1, <1>2 DEF Next

(***************************************************************************)
(* Every variable has its type; a task waits only for what was asked for,  *)
(* belongs to a process that runs and has tasks left, and no more of its   *)
(* checks fail than there are.                                             *)
(***************************************************************************)
THEOREM TypeCorrect == Spec => []TaskInv
BY InitTaskInv, NextTaskInv, PTL DEF Spec

-----------------------------------------------------------------------------
(***************************************************************************)
(* Evidence                                                                *)
(***************************************************************************)
LEMMA SnapshotsAreEvidence ==
  ASSUME TypeOK, ev # NoEvidence
  PROVE  /\ ev.before \in World /\ ev.after \in World
         /\ IsSnapshot(Snapshot(ev.before)) /\ IsSnapshot(Snapshot(ev.after))
         /\ ev.changes = Delta(Snapshot(ev.before), Snapshot(ev.after))
<1>1. /\ ev.before \in World /\ ev.after \in World
      /\ ev = EvidenceOf(ev.before, ev.after, ev.exit)
  BY DEF TypeOK, IsEvidence
<1>2. ev.changes = Delta(Snapshot(ev.before), Snapshot(ev.after))
  <2> DEFINE b == ev.before
             a == ev.after
             x == ev.exit
  <2> HIDE DEF b, a, x
  <2>1. EvidenceOf(b, a, x).changes = Delta(Snapshot(b), Snapshot(a))
    BY DEF EvidenceOf
  <2> QED BY <1>1, <2>1 DEF b, a, x
<1> QED BY <1>1, <1>2, SnapshotIs

(***************************************************************************)
(* The changes reported of a command are the whole difference of its two   *)
(* snapshots: whoever applies them to the first gets the second, and no    *)
(* path is reported twice, whatever the workspace, the limit and equal     *)
(* contents (WorkspaceObserver.delta()).                                   *)
(***************************************************************************)
THEOREM DeltaIsWhole == Spec => []DeltaRebuilds
<1>1. TaskInv => DeltaRebuilds
  <2> SUFFICES ASSUME TaskInv, ev # NoEvidence
               PROVE  /\ Rebuilt(Snapshot(ev.before), ev.changes) = Snapshot(ev.after)
                      /\ \A c, d \in ev.changes : c.path = d.path => c = d
    BY DEF DeltaRebuilds
  <2> QED BY SnapshotsAreEvidence, RebuiltIsAfter, OneChangeOfPath DEF TaskInv
<1> QED BY <1>1, TypeCorrect, PTL

(* A change that matches: the path is what the observer saw after it. *)
LEMMA MatchedIsSeen ==
  ASSUME TypeOK, ev # NoEvidence, NEW p \in Paths, NEW c \in ChangesAt(ev, p),
         NEW w \in World, Matches(w, c)
  PROVE  /\ c.kind # "DELETED" => p \in Seen(ev.after)
         /\ IF p \in Seen(ev.after) THEN w[p] = ev.after[p] /\ w[p] \in Hashed ELSE w[p] = Absent
<1> DEFINE b == Snapshot(ev.before)
           a == Snapshot(ev.after)
<1>1. IsSnapshot(b) /\ IsSnapshot(a) /\ c \in Delta(b, a) /\ c.path = p /\ ev.after \in World
  BY SnapshotsAreEvidence DEF ChangesAt
<1>2. DOMAIN a = Seen(ev.after) /\ \A q \in Seen(ev.after) : a[q].sha = Sha(ev.after[q])
  BY <1>1, SnapshotIs
<1> HIDE DEF a, b
<1>3. CASE c.kind = "DELETED"
  <2>1. p \in Deleted(b, a)
    BY <1>1, <1>3, DeltaKinds
  <2> QED BY <1>1, <1>2, <1>3, <2>1 DEF Matches, Deleted
<1>4. CASE c.kind # "DELETED"
  <2>1. p \in DOMAIN a
    BY <1>1, <1>4, DeltaKinds DEF Modified, Created
  <2>2. c.entry = a[p]
    BY <1>1, <1>4, DeltaKinds DEF Change
  <2>3. Sha(w[p]) = Sha(ev.after[p]) /\ Sha(w[p]) # Absent
    BY <1>1, <1>2, <1>4, <2>1, <2>2 DEF Matches
  <2>4. w[p] = ev.after[p] /\ w[p] \in Hashed
    BY <2>3 DEF Sha
  <2> QED BY <1>2, <2>1, <2>4
<1> QED BY <1>3, <1>4

(* A PASS needs every outcome to be one. *)
LEMMA PassNeedsAll ==
  ASSUME NEW F, NEW w, NEW e, NEW status, VerdictOf(F, w, e, status) = "PASS", NEW k \in F
  PROVE  Outcome(k, w, e, status) = "ok"
BY DEF VerdictOf, Settle

LEMMA DeltaShaOk ==
  ASSUME NEW k, k.kind = "delta_sha", NEW w, NEW e, NEW status, Outcome(k, w, e, status) = "ok"
  PROVE  /\ e # NoEvidence /\ ChangesAt(e, k.path) # {}
         /\ \A c \in ChangesAt(e, k.path) : Matches(w, c)
<1>1. OnEvidence(k, w, e) = "ok"
  BY DEF Outcome
<1>2. e # NoEvidence
  BY <1>1 DEF OnEvidence
<1>3. (IF ChangesAt(e, k.path) = {} THEN "inconclusive"
       ELSE Says(\A c \in ChangesAt(e, k.path) : Matches(w, c))) = "ok"
  BY <1>1, <1>2 DEF OnEvidence
<1> QED BY <1>2, <1>3 DEF Says

-----------------------------------------------------------------------------
(***************************************************************************)
(* What a pass is worth                                                    *)
(***************************************************************************)
LEMMA ChecksReobserve ==
  ASSUME TaskInv, NEW s \in Suites, RunChecks(s), checks'.failed = 0
  PROVE  ClaimsHold'
<1>1. /\ UNCHANGED <<world, ev, next>> /\ busy = s /\ busy' = s
  BY DEF RunChecks, suiteVars
<1>2. Task(s) \in Tasks /\ TypeOK
  BY <1>1, TaskIs, SuiteAssumption DEF TaskInv, BusyInv
<1>3. \A a \in Claimed(Task(s)) : \A c \in ChangesAt(ev, a.path) : Matches(world, c)
  BY ChecksCounted
<1>4. ASSUME NEW a \in Claimed(Task(s)) PROVE world[a.path] = ev.after[a.path]
  <2>1. a.path \in Paths /\ ev # NoEvidence
    BY <1>2, SuiteAssumption DEF Claimed, IsTaskSpec
  <2>2. PICK c \in ChangesAt(ev, a.path) : c.kind # "DELETED"
    BY DEF Claimed
  <2>3. Matches(world, c) /\ world \in World
    BY <1>2, <1>3 DEF TypeOK
  <2> QED BY <1>2, <2>1, <2>2, <2>3, MatchedIsSeen
<1>5. Claimed(Task(busy))' = Claimed(Task(s))
  BY <1>1 DEF Claimed, Task, ChangesAt
<1> QED BY <1>1, <1>4, <1>5 DEF ClaimsHold

LEMMA VerifierReobserves ==
  ASSUME TaskInv, NEW s \in Suites, Verify(s), verdict' = "PASS",
         NEW k \in Spec0[Task(s)].verify, k.kind = "delta_sha"
  PROVE  IF k.path \in Seen(ev.after)
           THEN world[k.path] = ev.after[k.path] /\ world[k.path] \in Hashed
           ELSE world[k.path] = Absent
<1>1. PICK status : VerdictOf(Spec0[Task(s)].verify, world, ev, status) = "PASS"
  BY DEF Verify
<1>2. /\ ev # NoEvidence /\ ChangesAt(ev, k.path) # {}
      /\ \A c \in ChangesAt(ev, k.path) : Matches(world, c)
  BY <1>1, PassNeedsAll, DeltaShaOk
<1>3. PICK c \in ChangesAt(ev, k.path) : Matches(world, c)
  BY <1>2
<1>4. Task(s) \in Tasks
  BY TaskIs, SuiteAssumption DEF TaskInv, BusyInv, Verify
<1>5. k.path \in Paths /\ world \in World
  BY <1>4, SuiteAssumption DEF IsTaskSpec, TaskInv, TypeOK
<1> QED BY <1>2, <1>3, <1>5, MatchedIsSeen DEF TaskInv

LEMMA NextReobserved == TaskInv /\ ReobservedInv /\ [Next]_vars => ReobservedInv'
<1> SUFFICES ASSUME TaskInv, ReobservedInv, [Next]_vars PROVE ReobservedInv'
  OBVIOUS
<1>1. CASE pc' \notin {"verify", "finish"}
  BY <1>1 DEF ReobservedInv, PassIsReobserved
<1>2. CASE UNCHANGED vars
  BY <1>2 DEF vars, suiteVars, taskVars, ReobservedInv, PassIsReobserved, ClaimsHold, Claimed, Task, ChangesAt
<1>3. ASSUME NEW s \in Suites, Edit(s), pc' \in {"verify", "finish"} PROVE ReobservedInv'
  BY <1>3 DEF Edit, ReobservedInv, PassIsReobserved
<1>4. ASSUME NEW s \in Suites, RunChecks(s) PROVE ReobservedInv'
  <2>1. verdict' # "PASS"
    BY <1>4 DEF RunChecks, TaskInv, CheckInv
  <2>2. checks'.failed = 0 => ClaimsHold'
    BY <1>4, ChecksReobserve
  <2> QED BY <2>1, <2>2 DEF ReobservedInv, PassIsReobserved, ClaimsHold
<1>5. ASSUME NEW s \in Suites, Verify(s) PROVE ReobservedInv'
  <2>1. /\ UNCHANGED <<world, ev, next, busy, stale>> /\ busy = s /\ pc = "verify" /\ pc' = "finish"
    BY <1>5 DEF Verify, suiteVars
  <2>2. checks.failed \in Nat /\ checks'.failed \in Nat /\ checks.failed <= checks'.failed
    BY <1>5, VerifyFacts DEF TaskInv, TypeOK
  <2>3. ClaimsHold' <=> ClaimsHold
    BY <2>1 DEF ClaimsHold, Claimed, Task, ChangesAt
  <2>4. ~stale' /\ checks'.failed = 0 => ClaimsHold'
    BY <2>1, <2>2, <2>3 DEF ReobservedInv
  <2>5. verdict' = "PASS" =>
          \A k \in Spec0[Task(s)].verify : k.kind = "delta_sha" =>
            IF k.path \in Seen(ev.after)
              THEN world[k.path] = ev.after[k.path] /\ world[k.path] \in Hashed
              ELSE world[k.path] = Absent
    BY <1>5, VerifierReobserves
  <2>6. Task(busy)' = Task(s) /\ Seen(ev.after)' = Seen(ev.after)
    BY <2>1 DEF Task, Seen, Present
  <2> QED BY <2>1, <2>4, <2>5, <2>6 DEF ReobservedInv, PassIsReobserved, ClaimsHold
<1>6. ASSUME NEW s \in Suites, pc' \in {"verify", "finish"}, Step(s) \/ Kill(s)
      PROVE  \/ Edit(s) \/ RunChecks(s) \/ Verify(s)
             \/ UNCHANGED <<next, busy, pc, world, ev, checks, verdict, stale>>
  BY <1>6 DEF Step, Kill, Start, End, NotRun, BeginTask, WriteNew, Suspend, Resume, AgentFails, Replies,
              Finish, Record, BecomesIdle, taskVars
<1>7. CASE UNCHANGED <<next, busy, pc, world, ev, checks, verdict, stale>>
  BY <1>7 DEF ReobservedInv, PassIsReobserved, ClaimsHold, Claimed, Task, ChangesAt
<1> QED BY <1>1, <1>2, <1>3, <1>4, <1>5, <1>6, <1>7 DEF Next

(***************************************************************************)
(* A task whose checks all pass has its claimed artifacts as the command   *)
(* left them, and a verdict PASS has its delta_sha files as the observer   *)
(* saw them, whatever changed in between (_run_checks(), verify_delta()).  *)
(***************************************************************************)
THEOREM PassReobserves == Spec => []PassIsReobserved
<1>1. Init => ReobservedInv
  BY DEF Init, Idle, ReobservedInv, PassIsReobserved
<1>2. ReobservedInv => PassIsReobserved
  BY DEF ReobservedInv
<1> QED BY <1>1, <1>2, NextReobserved, TypeCorrect, PTL DEF Spec

(* A check that fails is seen in the score. *)
LEMMA FailedIsSeen ==
  ASSUME TaskInv, pc = "finish", checks.failed >= 1
  PROVE  Score \in Nat /\ Score < 1000
<1> DEFINE n == 2000 * (checks.total - checks.failed) + checks.total
           d == 2 * checks.total
<1>1. checks.total \in Nat /\ checks.failed \in Nat /\ checks.failed <= checks.total
  BY DEF TaskInv, TypeOK, CheckInv
<1>2. busy \in Suites /\ next[busy] <= Len(Order)
  BY DEF TaskInv, TypeOK, BusyInv, Idle
<1>3. Task(busy) \in Tasks /\ IsTaskSpec(Spec0[Task(busy)])
  BY <1>2, TaskIs DEF TaskInv
<1>4. /\ 3 * Cardinality(Spec0[Task(busy)].artifacts) + Spec0[Task(busy)].terms + 2 < 2000
      /\ Cardinality(Spec0[Task(busy)].artifacts) \in Nat /\ Spec0[Task(busy)].terms \in Nat
  BY <1>3, FS_CardinalityType DEF IsTaskSpec
<1>5. checks.total < 2000
  BY <1>1, <1>4 DEF TaskInv, CheckInv, MostChecks
<1>6. n \in Nat /\ d \in Nat /\ d > 0 /\ n < 1000 * d
  BY <1>1, <1>5
<1>7. checks.total # 0
  BY <1>1
<1>8. Score = n \div d
  BY <1>7 DEF Score
<1> HIDE DEF n, d
<1>9. n \div d \in Nat /\ d * (n \div d) <= n
  BY <1>6, Quotient
<1>10. n \div d < 1000
  <2> DEFINE q == n \div d
  <2> HIDE DEF q
  <2>1. SUFFICES ASSUME q >= 1000 PROVE FALSE
    BY <1>9 DEF q
  <2>2. q \in Nat /\ d * q <= n
    BY <1>9 DEF q
  <2>3. d * q >= d * 1000
    BY <1>6, <2>1, <2>2
  <2> QED BY <1>6, <2>2, <2>3
<1> QED BY <1>8, <1>9, <1>10

(***************************************************************************)
(* The row and the mission of a task tell one story: without a completed   *)
(* mission there is no PASS, no full score and nothing "verified"          *)
(* (run_task(), the verifier's verdict as a check of its own).             *)
(***************************************************************************)
THEOREM OneStory == Spec => []OutcomesAgree
<1>1. TaskInv => OutcomesAgree
  <2> SUFFICES ASSUME TaskInv, pc = "finish", Spec0[Task(busy)].verify # {}, ev # NoEvidence
               PROVE  /\ Verdict(busy) = "PASS" => Mission = "COMPLETED"
                      /\ Mission # "COMPLETED" => Score < 1000 /\ ~Verified(busy)
    BY DEF OutcomesAgree
  <2>1. CASE verdict = "PASS"
    BY <2>1 DEF Mission
  <2>2. CASE verdict # "PASS"
    <3>1. checks.failed >= 1
      BY <2>2 DEF TaskInv, CheckInv
    <3>2. checks.failed # 0
      BY <3>1
    <3>3. busy \in Suites /\ mode[busy] \in {"mock", "live"}
      BY DEF TaskInv, TypeOK, BusyInv, Idle
    <3>4. Verdict(busy) # "PASS"
      BY <3>2, <3>3 DEF Verdict
    <3>5. Score < 1000 /\ Score # 1000
      BY <3>1, FailedIsSeen
    <3> QED BY <3>4, <3>5 DEF Verified
  <2> QED BY <2>1, <2>2
<1> QED BY <1>1, TypeCorrect, PTL

-----------------------------------------------------------------------------
(***************************************************************************)
(* The ledger                                                              *)
(***************************************************************************)
LEMMA ScoredInIs ==
  ASSUME TypeOK, NEW n \in Nat, NEW m, NEW t
  PROVE  /\ ScoredIn(n, m, t) \in SUBSET Nat /\ \A i \in ScoredIn(n, m, t) : i <= n
         /\ ScoredIn(n, m, t) # {} =>
              LET last == Greatest(ScoredIn(n, m, t)) IN
              last \in DOMAIN ledger /\ last <= n /\ ledger[last].score # NoScore
<1>1. ScoredIn(n, m, t) \in SUBSET Nat /\ \A i \in ScoredIn(n, m, t) : i <= n
  BY DEF ScoredIn, Scored, Rows, TypeOK
<1>2. ASSUME ScoredIn(n, m, t) # {}
      PROVE  Greatest(ScoredIn(n, m, t)) \in ScoredIn(n, m, t)
  <2> DEFINE S == ScoredIn(n, m, t)
  <2>1. S \in SUBSET Nat /\ S # {} /\ \A i \in S : i <= n
    BY <1>1, <1>2
  <2> HIDE DEF S
  <2>2. Greatest(S) \in S
    BY <2>1, GreatestOf
  <2> QED BY <2>2 DEF S
<1> QED BY <1>1, <1>2 DEF ScoredIn, Scored, Rows

LEMMA RecordingLedger ==
  ASSUME TaskInv, LedgerInv, NEW s \in Suites, Recording(s)
  PROVE  LedgerInv'
<1>1. next[s] <= Len(Order) /\ phase[s] = "running"
  BY SuiteAssumption DEF Recording, NotRun, AgentFails, Finish, TaskInv, BusyInv
<1>2. PICK score \in Nat \cup {NoScore} : Record(s, score)
  BY ScoreIs DEF Recording, NotRun, AgentFails, Finish
<1> DEFINE n == Len(ledger)
           r == [suite |-> s, task |-> Task(s), mode |-> mode[s], score |-> score]
<1>3. /\ ledger' \in Seq(Row) /\ Len(ledger') = n + 1
      /\ \A i \in DOMAIN ledger : ledger'[i] = ledger[i]
      /\ ledger'[n + 1] = r
  BY <1>1, <1>2, RecordFacts DEF TaskInv
<1>4. n \in Nat /\ DOMAIN ledger = 1 .. n /\ DOMAIN ledger' = 1 .. n + 1
  BY <1>3 DEF TaskInv, TypeOK
<1> HIDE DEF n
<1>5. /\ r.suite = s /\ r.task = Task(s) /\ r.mode = mode[s]
  OBVIOUS
<1> HIDE DEF r
<1>6. /\ UNCHANGED <<phase, mode, previous, regressions, base>>
      /\ next' = [next EXCEPT ![s] = next[s] + 1]
  BY <1>2 DEF Record
<1>7. \A q \in Suites : next[q] \in Nat /\ base[q] \in Nat
  BY RunsAreOrders DEF TaskInv, TypeOK
<1>8. next'[s] = next[s] + 1 /\ \A q \in Suites \ {s} : next'[q] = next[q]
  BY <1>6 DEF TaskInv, TypeOK
<1>9. \A q \in Suites : RowsOf(q)' = IF q = s THEN RowsOf(q) \cup {n + 1} ELSE RowsOf(q)
  BY <1>3, <1>4, <1>5 DEF RowsOf
<1>10. \A q \in Suites : RowsOf(q) \subseteq 1 .. n /\ base[q] <= n
  BY <1>4 DEF RowsOf, LedgerInv, n
<1> SUFFICES ASSUME NEW q \in Suites
             PROVE  /\ base[q] <= n + 1
                    /\ \A i \in RowsOf(q)' :
                         /\ phase[q] # "new" /\ base[q] < i /\ ledger'[i].mode = mode[q]
                         /\ \E k \in 1 .. next'[q] - 1 : ledger'[i].task = Order[k]
                    /\ \A i, j \in RowsOf(q)' : ledger'[i].task = ledger'[j].task => i = j
                    /\ phase[q] # "new" => \A t \in Tasks : previous[q][t] = LastIn(base[q], mode[q], t)'
                    /\ phase[q] = "ended" => regressions[q] = Regressed(q)'
  BY <1>3, <1>6 DEF LedgerInv
<1>11. base[q] <= n + 1
  BY <1>4, <1>7, <1>10
<1>12. ASSUME NEW i \in RowsOf(q)
       PROVE  /\ ledger'[i] = ledger[i] /\ i # n + 1
              /\ phase[q] # "new" /\ base[q] < i /\ ledger[i].mode = mode[q]
              /\ \E k \in 1 .. next[q] - 1 : ledger[i].task = Order[k]
  BY <1>3, <1>4, <1>10 DEF LedgerInv
<1>13. ASSUME NEW i \in RowsOf(q)'
       PROVE  /\ phase[q] # "new" /\ base[q] < i /\ ledger'[i].mode = mode[q]
              /\ \E k \in 1 .. next'[q] - 1 : ledger'[i].task = Order[k]
  <2>1. CASE i \in RowsOf(q)
    <3>1. PICK k \in 1 .. next[q] - 1 : ledger[i].task = Order[k]
      BY <2>1, <1>12
    <3>2. k \in 1 .. next'[q] - 1
      BY <1>7, <1>8
    <3> QED BY <1>12, <2>1, <3>1, <3>2
  <2>2. CASE i \notin RowsOf(q)
    <3>1. q = s /\ i = n + 1
      BY <1>9, <2>2
    <3>2. next[s] \in 1 .. next'[s] - 1
      BY <1>1, <1>7, <1>8, RunsAreOrders DEF TaskInv, TypeOK
    <3> QED BY <1>1, <1>3, <1>4, <1>5, <1>7, <1>10, <3>1, <3>2 DEF Task
  <2> QED BY <2>1, <2>2
<1>14. ASSUME NEW i \in RowsOf(q)', NEW j \in RowsOf(q)', ledger'[i].task = ledger'[j].task
       PROVE  i = j
  <2>1. CASE i \in RowsOf(q) /\ j \in RowsOf(q)
    BY <1>12, <1>14, <2>1 DEF LedgerInv
  <2>2. ASSUME NEW k \in RowsOf(s) PROVE ledger[k].task # Task(s)
    <3>1. PICK l \in 1 .. next[s] - 1 : ledger[k].task = Order[l]
      BY <2>2 DEF LedgerInv
    <3>2. l \in DOMAIN Order /\ next[s] \in DOMAIN Order /\ l # next[s]
      BY <1>1, <1>7, RunsAreOrders, TaskIs DEF TaskInv
    <3> QED BY <3>1, <3>2, SuiteAssumption DEF Task
  <2>3. CASE ~(i \in RowsOf(q) /\ j \in RowsOf(q))
    <3>1. q = s /\ (i \in RowsOf(s) \/ i = n + 1) /\ (j \in RowsOf(s) \/ j = n + 1)
      BY <1>9, <2>3
    <3>2. \A k \in RowsOf(s) : ledger'[k] = ledger[k]
      BY <1>12, <3>1
    <3>3. ledger'[n + 1].task = Task(s)
      BY <1>3, <1>5
    <3> QED BY <1>14, <2>2, <2>3, <3>1, <3>2, <3>3
  <2> QED BY <2>1, <2>3
<1>15. ASSUME phase[q] # "new", NEW t \in Tasks
       PROVE  previous[q][t] = LastIn(base[q], mode[q], t)'
  <2> DEFINE b == base[q]
             m == mode[q]
  <2>1. previous[q][t] = LastIn(b, m, t)
    BY <1>15 DEF LedgerInv
  <2>2. b \in Nat /\ b <= Len(ledger)
    BY <1>7, <1>10 DEF n
  <2> HIDE DEF b, m
  <2>3. b' = b /\ m' = m
    BY <1>6 DEF b, m
  <2>4. ScoredIn(b, m, t)' = ScoredIn(b, m, t)
    BY <1>3, <1>4, <2>2, <2>3 DEF ScoredIn, Scored, Rows, n
  <2>5. LastIn(b, m, t)' = LastIn(b, m, t)
    <3>1. CASE ScoredIn(b, m, t) = {}
      BY <2>4, <3>1 DEF LastIn
    <3>2. CASE ScoredIn(b, m, t) # {}
      <4> DEFINE last == Greatest(ScoredIn(b, m, t))
      <4>1. last \in DOMAIN ledger
        BY <2>2, <3>2, ScoredInIs DEF TaskInv
      <4>2. LastIn(b, m, t) = ledger[last].score
        BY <3>2 DEF LastIn
      <4>3. LastIn(b, m, t)' = ledger'[last].score
        BY <2>4, <3>2 DEF LastIn
      <4> HIDE DEF last
      <4> QED BY <1>3, <4>1, <4>2, <4>3
    <3> QED BY <3>1, <3>2
  <2> QED BY <2>1, <2>5 DEF b, m
<1>16. ASSUME phase[q] = "ended" PROVE regressions[q] = Regressed(q)'
  <2>1. q # s
    BY <1>1, <1>16
  <2>2. \A i : i \in DOMAIN ledger' /\ ledger'[i].suite = q =>
                 i \in DOMAIN ledger /\ ledger'[i] = ledger[i]
    BY <1>3, <1>4, <1>5, <2>1
  <2>3. \A i \in DOMAIN ledger : i \in DOMAIN ledger' /\ ledger'[i] = ledger[i]
    BY <1>3, <1>4
  <2>4. {i \in DOMAIN ledger' :
           LET row == ledger'[i] IN
           /\ row.suite = q /\ row.score # NoScore /\ previous[q][row.task] # NoScore
           /\ row.score < previous[q][row.task]}
        = {i \in DOMAIN ledger :
           LET row == ledger[i] IN
           /\ row.suite = q /\ row.score # NoScore /\ previous[q][row.task] # NoScore
           /\ row.score < previous[q][row.task]}
    BY <2>2, <2>3
  <2>5. Regressed(q)' = Regressed(q)
    BY <1>6, <2>3, <2>4 DEF Regressed
  <2> QED BY <1>16, <2>5 DEF LedgerInv
<1> QED BY <1>11, <1>13, <1>14, <1>15, <1>16

LEMMA StartLedger ==
  ASSUME TaskInv, LedgerInv, NEW s \in Suites, Start(s)
  PROVE  LedgerInv'
<1>1. /\ UNCHANGED <<ledger, mode, next, regressions>> /\ phase[s] = "new"
      /\ previous' = [previous EXCEPT ![s] = [t \in Tasks |-> LastScore(mode[s], t)]]
      /\ base' = [base EXCEPT ![s] = Len(ledger)]
      /\ phase' = [phase EXCEPT ![s] = "running"]
  BY DEF Start
<1>2. /\ previous'[s] = [t \in Tasks |-> LastScore(mode[s], t)]
      /\ base'[s] = Len(ledger) /\ phase'[s] = "running"
      /\ \A q \in Suites \ {s} :
           previous'[q] = previous[q] /\ base'[q] = base[q] /\ phase'[q] = phase[q]
  BY <1>1 DEF TaskInv, TypeOK
<1>3. RowsOf(s) = {} /\ Len(ledger) \in Nat
  BY <1>1 DEF LedgerInv, TaskInv, TypeOK
<1>4. \A q : RowsOf(q)' = RowsOf(q)
  BY <1>1 DEF RowsOf
<1>5. ASSUME NEW t \in Tasks PROVE LastScore(mode[s], t) = LastIn(Len(ledger), mode[s], t)
  <2>1. ScoredIn(Len(ledger), mode[s], t) = Scored(mode[s], t)
    BY DEF ScoredIn, Scored, Rows, TaskInv, TypeOK
  <2> QED BY <2>1 DEF LastScore, LastIn
<1>6. \A n, m, t : LastIn(n, m, t)' = LastIn(n, m, t)
  BY <1>1 DEF LastIn, ScoredIn, Scored, Rows
<1>7. \A q \in Suites \ {s} : Regressed(q)' = Regressed(q)
  BY <1>1, <1>2 DEF Regressed
<1> SUFFICES ASSUME NEW q \in Suites
             PROVE  /\ base'[q] <= Len(ledger)
                    /\ \A i \in RowsOf(q) :
                         /\ phase'[q] # "new" /\ base'[q] < i /\ ledger[i].mode = mode[q]
                         /\ \E k \in 1 .. next[q] - 1 : ledger[i].task = Order[k]
                    /\ \A i, j \in RowsOf(q) : ledger[i].task = ledger[j].task => i = j
                    /\ phase'[q] # "new" => \A t \in Tasks : previous'[q][t] = LastIn(base'[q], mode[q], t)
                    /\ phase'[q] = "ended" => regressions[q] = Regressed(q)'
  BY <1>1, <1>4, <1>6 DEF LedgerInv
<1>8. CASE q = s
  BY <1>2, <1>3, <1>5, <1>8
<1>9. CASE q # s
  BY <1>2, <1>7, <1>9 DEF LedgerInv
<1> QED BY <1>8, <1>9

LEMMA StopLedger ==
  ASSUME TaskInv, LedgerInv, NEW s \in Suites, End(s) \/ Kill(s)
  PROVE  LedgerInv'
<1>1. UNCHANGED <<ledger, mode, next, previous, base>> /\ phase[s] = "running"
  BY DEF End, Kill
<1>2. /\ \/ phase'[s] = "ended" /\ regressions'[s] = Regressed(s)
         \/ phase'[s] = "killed"
      /\ \A q \in Suites \ {s} : phase'[q] = phase[q] /\ regressions'[q] = regressions[q]
  BY DEF End, Kill, TaskInv, TypeOK
<1>3. \A q : RowsOf(q)' = RowsOf(q) /\ Regressed(q)' = Regressed(q)
  BY <1>1 DEF RowsOf, Regressed
<1>4. \A n, m, t : LastIn(n, m, t)' = LastIn(n, m, t)
  BY <1>1 DEF LastIn, ScoredIn, Scored, Rows
<1> SUFFICES ASSUME NEW q \in Suites
             PROVE  /\ base[q] <= Len(ledger)
                    /\ \A i \in RowsOf(q) :
                         /\ phase'[q] # "new" /\ base[q] < i /\ ledger[i].mode = mode[q]
                         /\ \E k \in 1 .. next[q] - 1 : ledger[i].task = Order[k]
                    /\ \A i, j \in RowsOf(q) : ledger[i].task = ledger[j].task => i = j
                    /\ phase'[q] # "new" => \A t \in Tasks : previous[q][t] = LastIn(base[q], mode[q], t)
                    /\ phase'[q] = "ended" => regressions'[q] = Regressed(q)
  BY <1>1, <1>3, <1>4 DEF LedgerInv
<1>5. CASE q = s
  BY <1>1, <1>2, <1>5 DEF LedgerInv
<1>6. CASE q # s
  BY <1>2, <1>6 DEF LedgerInv
<1> QED BY <1>5, <1>6

LEMMA NextLedger == TaskInv /\ LedgerInv /\ [Next]_vars => LedgerInv'
<1> SUFFICES ASSUME TaskInv, LedgerInv, [Next]_vars PROVE LedgerInv'
  OBVIOUS
<1>1. CASE UNCHANGED <<ledger, suiteVars>>
  <2>1. \A q : RowsOf(q)' = RowsOf(q) /\ Regressed(q)' = Regressed(q)
    BY <1>1 DEF RowsOf, Regressed, suiteVars
  <2>2. \A n, m, t : LastIn(n, m, t)' = LastIn(n, m, t)
    BY <1>1 DEF LastIn, ScoredIn, Scored, Rows
  <2> QED BY <1>1, <2>1, <2>2 DEF LedgerInv, suiteVars
<1>2. ASSUME NEW s \in Suites, Inside(s) PROVE UNCHANGED <<ledger, suiteVars>>
  BY <1>2 DEF Inside, BeginTask, Edit, WriteNew, Suspend, Resume, Replies, RunChecks, Verify
<1>3. ASSUME NEW s \in Suites, Step(s) \/ Kill(s) PROVE LedgerInv'
  BY <1>1, <1>2, <1>3, RecordingLedger, StartLedger, StopLedger DEF Step, Inside, Recording
<1> QED BY <1>1, <1>3 DEF Next, vars

(* One row of a task that is compared, and what it is compared with. *)
LEMMA LedgerTellsDeclines == TaskInv /\ LedgerInv => DeclineIsReported
<1> SUFFICES ASSUME TaskInv, LedgerInv, NEW i \in DOMAIN ledger,
                    ledger[i].suite \in Suites, phase[ledger[i].suite] = "ended",
                    ledger[i].score # NoScore,
                    \A j \in {j \in Scored(ledger[i].mode, ledger[i].task) : j < i} :
                      j <= base[ledger[i].suite]
             PROVE  LET before == {j \in Scored(ledger[i].mode, ledger[i].task) : j < i} IN
                    ledger[i].task \in regressions[ledger[i].suite]
                      <=> before # {} /\ ledger[i].score < ledger[Greatest(before)].score
  BY DEF DeclineIsReported
<1> DEFINE s == ledger[i].suite
           t == ledger[i].task
           before == {j \in Scored(ledger[i].mode, t) : j < i}
<1>1. i \in RowsOf(s)
  BY DEF RowsOf
<1>2. s \in Suites /\ base[s] < i /\ ledger[i].mode = mode[s] /\ base[s] \in Nat /\ i \in Nat
  BY <1>1 DEF LedgerInv, TaskInv, TypeOK
<1>3. ledger[i] \in Row
  BY DEF TaskInv, TypeOK
<1>4. t \in Tasks /\ ledger[i].score \in Nat
  BY <1>3 DEF Row
<1>5. before = ScoredIn(base[s], mode[s], t)
  <2>1. \A j \in Scored(mode[s], t) : j \in Nat
    BY DEF Scored, Rows, TaskInv, TypeOK
  <2>2. \A j \in before : j <= base[s]
    BY <1>2
  <2> QED BY <1>2, <2>1, <2>2 DEF ScoredIn
<1>6. regressions[s] = Regressed(s) /\ previous[s][t] = LastIn(base[s], mode[s], t)
  BY <1>2, <1>4 DEF LedgerInv
<1>7. t \in Regressed(s) <=> previous[s][t] # NoScore /\ ledger[i].score < previous[s][t]
  <2>1. ASSUME NEW j \in DOMAIN ledger, ledger[j].suite = s, ledger[j].task = t PROVE j = i
    <3>1. j \in RowsOf(s)
      BY <2>1 DEF RowsOf
    <3> QED BY <1>1, <1>2, <2>1, <3>1 DEF LedgerInv
  <2>2. t \in Regressed(s) <=>
          \E j \in DOMAIN ledger :
            /\ ledger[j].task = t /\ ledger[j].suite = s /\ ledger[j].score # NoScore
            /\ previous[s][t] # NoScore /\ ledger[j].score < previous[s][t]
    BY DEF Regressed
  <2> QED BY <2>1, <2>2
<1>8. CASE before = {}
  BY <1>5, <1>6, <1>7, <1>8 DEF LastIn
<1>9. CASE before # {}
  <2>1. previous[s][t] = ledger[Greatest(before)].score
    BY <1>5, <1>6, <1>9 DEF LastIn
  <2>2. ledger[Greatest(before)].score # NoScore
    BY <1>2, <1>5, <1>9, ScoredInIs DEF TaskInv
  <2> QED BY <1>6, <1>7, <1>9, <2>1, <2>2
<1> QED BY <1>8, <1>9

(***************************************************************************)
(* A process that ended reports a regression of exactly the tasks whose    *)
(* score fell below the last one it could have read, over rows without a   *)
(* score, of the other mode and of killed processes, for any number of     *)
(* processes on one ledger (last_scores(), the report of main()).          *)
(***************************************************************************)
THEOREM DeclineReported == Spec => []DeclineIsReported
<1>1. Init => LedgerInv
  <2> SUFFICES ASSUME Init PROVE LedgerInv
    OBVIOUS
  <2>1. \A i \in DOMAIN ledger : ledger[i].suite = NoSuite
    BY SuiteAssumption DEF Init
  <2>2. \A s \in Suites : RowsOf(s) = {}
    BY <2>1, SuiteAssumption DEF RowsOf
  <2>3. Len(ledger) \in Nat
    BY InitTaskInv DEF TaskInv, TypeOK
  <2> QED BY <2>2, <2>3 DEF Init, LedgerInv
<1> QED BY <1>1, NextLedger, LedgerTellsDeclines, TypeCorrect, PTL DEF Spec

-----------------------------------------------------------------------------
(***************************************************************************)
(* The evaluation of a pull request                                        *)
(***************************************************************************)
-----------------------------------------------------------------------------
(***************************************************************************)
(* Sequences of sequences, one after the other                             *)
(***************************************************************************)
(* Flatten takes them in order.                                            *)
LEMMA FlattenRuns ==
  ASSUME NEW X, NEW seqs \in Seq(Seq(X))
  PROVE  \E acc :
           /\ acc \in [0 .. Len(seqs) -> Seq(X)]
           /\ acc[0] = <<>>
           /\ \A i \in 0 .. Len(seqs) - 1 : acc[i + 1] = acc[i] \o seqs[i + 1]
           /\ Flatten(seqs) = acc[Len(seqs)]
<1> DEFINE n == Len(seqs)
           S == 1 .. n
           T == Seq(X)
           IsIter(g) == g = [t \in SUBSET S |-> IF t = {} THEN <<>>
                               ELSE LET i == Max(t) IN g[t \ {i}] \o seqs[i]]
           iter == CHOOSE g : IsIter(g)
           f == [p \in S \X T |-> p[2] \o seqs[p[1]]]
<1>1. n \in Nat /\ DOMAIN seqs = S /\ \A i \in S : seqs[i] \in T
  BY LenProperties
<1>2. <<>> \in T /\ \A s, t \in T : s \o t \in T
  BY EmptySeq, ConcatProperties
<1>3. /\ f \in [S \X T -> T]
      /\ \A i \in S, s \in T : f[<<i, s>>] = s \o seqs[i]
  BY <1>1, ConcatProperties
<1> HIDE DEF f, T
<1>4. PICK g : IsFold(g, S, T, <<>>, f, greatest(n))
  <2>1. Picks(greatest(n), S) /\ IsFiniteSet(S)
    BY <1>1, GreatestPicked
  <2> QED BY <1>2, <1>3, <2>1, FoldExists, Zenon
<1>5. IsIter(g)
  <2>1. ASSUME NEW t \in SUBSET S, t # {}
        PROVE  g[t] = g[t \ {Max(t)}] \o seqs[Max(t)]
    <3>1. Max(t) \in S /\ greatest(n)[t] = Max(t)
      <4>1. Picks(greatest(n), S) /\ greatest(n)[t] = Max(t)
        BY <1>1, <2>1, GreatestPicked
      <4> QED BY <2>1, <4>1 DEF Picks
    <3>2. g[t \ {Max(t)}] \in T
      BY <1>4, <2>1 DEF IsFold
    <3> QED BY <1>3, <1>4, <2>1, <3>1, <3>2 DEF IsFold
  <2>2. g = [t \in SUBSET S |-> g[t]] /\ g[{}] = <<>>
    BY <1>4 DEF IsFold
  <2> QED BY <2>1, <2>2
<1>6. IsIter(iter)
  BY <1>5
<1>7. Flatten(seqs) = iter[S]
  BY <1>1 DEF Flatten, FoldLeft, MapThenFoldSet
<1> DEFINE acc == [i \in 0 .. n |-> iter[1 .. i]]
<1> HIDE DEF iter
<1>8. acc[0] = <<>> /\ acc[n] = iter[S]
  <2>1. 1 .. 0 = {} /\ 0 \in 0 .. n /\ n \in 0 .. n
    BY <1>1
  <2>2. iter[{}] = <<>>
    BY <1>6
  <2> QED BY <2>1, <2>2
<1>9. ASSUME NEW i \in 0 .. n - 1 PROVE acc[i + 1] = acc[i] \o seqs[i + 1]
  <2>1. i \in 0 .. n /\ i + 1 \in 0 .. n /\ i + 1 \in 1 .. n
    BY <1>1, <1>9
  <2>2. /\ 1 .. (i + 1) \in SUBSET S /\ 1 .. (i + 1) # {} /\ Max(1 .. (i + 1)) = i + 1
        /\ (1 .. (i + 1)) \ {i + 1} = 1 .. i
    <3>1. (1 .. (i + 1)) \ {i + 1} = 1 .. i
      <4>1. n \in Nat /\ i \in Nat
        BY <1>1, <2>1
      <4> QED BY <4>1
    <3> QED BY <1>1, <2>1, <3>1, GreatestPicked
  <2>3. iter[1 .. (i + 1)] = iter[1 .. i] \o seqs[i + 1]
    BY <1>6, <2>2
  <2> QED BY <2>1, <2>3
<1> HIDE DEF n
<1>10. acc \in [0 .. n -> T]
  <2> HIDE DEF acc
  <2> DEFINE Z == {i \in Nat : i <= n => acc[i] \in T}
  <2>1. 0 \in Z
    BY <1>2, <1>8
  <2>2. ASSUME NEW i \in Z PROVE i + 1 \in Z
    <3>1. CASE i + 1 <= n
      <4>1. i \in 0 .. n - 1 /\ i + 1 \in S /\ acc[i] \in T
        BY <1>1, <3>1
      <4>2. acc[i + 1] = acc[i] \o seqs[i + 1] /\ seqs[i + 1] \in T
        BY <1>1, <1>9, <4>1
      <4>3. acc[i + 1] \in T
        BY <1>2, <4>1, <4>2
      <4> QED BY <4>3
    <3> QED BY <1>1, <3>1
  <2>3. Z = Nat
    <3>1. Z \subseteq Nat
      OBVIOUS
    <3> HIDE DEF Z
    <3> QED BY <2>1, <2>2, <3>1, Counting
  <2>4. \A i \in 0 .. n : acc[i] \in T
    <3>1. \A i \in Z : i <= n => acc[i] \in T
      OBVIOUS
    <3> HIDE DEF Z
    <3> QED BY <1>1, <2>3, <3>1
  <2> QED BY <2>4 DEF acc
<1> HIDE DEF acc
<1> QED BY <1>7, <1>8, <1>9, <1>10 DEF T, n

LEMMA FlattenType ==
  ASSUME NEW X, NEW seqs \in Seq(Seq(X))
  PROVE  Flatten(seqs) \in Seq(X)
<1>1. PICK acc \in [0 .. Len(seqs) -> Seq(X)] : Flatten(seqs) = acc[Len(seqs)]
  BY FlattenRuns
<1>2. Len(seqs) \in 0 .. Len(seqs)
  BY LenProperties
<1> QED BY <1>1, <1>2

LEMMA FlattenEmpty == Flatten(<<>>) = <<>>
<1>1. <<>> \in Seq(Seq({})) /\ Len(<<>>) = 0
  BY EmptySeq
<1> QED BY <1>1, FlattenRuns

LEMMA FlattenAppend ==
  ASSUME NEW X, NEW seqs \in Seq(Seq(X)), NEW s \in Seq(X)
  PROVE  Flatten(Append(seqs, s)) = Flatten(seqs) \o s
<1> DEFINE n == Len(seqs)
           more == Append(seqs, s)
<1>1. /\ more \in Seq(Seq(X)) /\ Len(more) = n + 1 /\ n \in Nat
      /\ \A i \in 1 .. n : more[i] = seqs[i]
      /\ more[n + 1] = s
  BY AppendProperties, LenProperties
<1> HIDE DEF more
<1>2. PICK acc : /\ acc[0] = <<>>
                 /\ \A i \in 0 .. n - 1 : acc[i + 1] = acc[i] \o seqs[i + 1]
                 /\ Flatten(seqs) = acc[n]
  BY FlattenRuns
<1>3. PICK ext : /\ ext[0] = <<>>
                 /\ \A i \in 0 .. Len(more) - 1 : ext[i + 1] = ext[i] \o more[i + 1]
                 /\ Flatten(more) = ext[Len(more)]
  BY <1>1, FlattenRuns
<1> DEFINE Same == {i \in Nat : i <= n => ext[i] = acc[i]}
<1> HIDE DEF n
<1>4. 0 \in Same
  BY <1>2, <1>3
<1>5. ASSUME NEW i \in Same PROVE i + 1 \in Same
  <2>1. CASE i + 1 <= n
    <3>1. i \in 0 .. n - 1 /\ i \in 0 .. Len(more) - 1 /\ i + 1 \in 1 .. n /\ ext[i] = acc[i]
      BY <1>1, <2>1
    <3>2. ext[i + 1] = ext[i] \o more[i + 1] /\ more[i + 1] = seqs[i + 1]
      BY <1>1, <1>3, <3>1
    <3>3. acc[i + 1] = acc[i] \o seqs[i + 1]
      BY <1>2, <3>1
    <3>4. ext[i + 1] = acc[i + 1]
      BY <3>1, <3>2, <3>3
    <3> QED BY <3>4
  <2> QED BY <2>1, <1>1
<1>6. Same = Nat
  <2>1. Same \subseteq Nat
    OBVIOUS
  <2> HIDE DEF Same
  <2> QED BY <1>4, <1>5, <2>1, Counting
<1>7. ext[n] = acc[n]
  BY <1>1, <1>6
<1>8. n \in 0 .. Len(more) - 1
  BY <1>1
<1>9. ext[n + 1] = ext[n] \o more[n + 1]
  BY <1>3, <1>8
<1> QED BY <1>1, <1>2, <1>3, <1>7, <1>9 DEF more

(* Its elements are theirs.                                                *)
LEMMA FlattenRange ==
  ASSUME NEW X, NEW seqs \in Seq(Seq(X))
  PROVE  ToSet(Flatten(seqs)) = UNION {ToSet(seqs[i]) : i \in DOMAIN seqs}
<1> DEFINE Z == {s \in Seq(Seq(X)) : ToSet(Flatten(s)) = UNION {ToSet(s[i]) : i \in DOMAIN s}}
<1>1. <<>> \in Z
  <2>1. <<>> \in Seq(Seq(X)) /\ DOMAIN <<>> = {}
    BY EmptySeq
  <2> QED BY <2>1, FlattenEmpty DEF ToSet
<1>2. ASSUME NEW s \in Seq(Seq(X)), NEW t \in Seq(X), s \in Z PROVE Append(s, t) \in Z
  <2>1. /\ Append(s, t) \in Seq(Seq(X)) /\ Len(Append(s, t)) = Len(s) + 1
        /\ \A i \in 1 .. Len(s) : Append(s, t)[i] = s[i]
        /\ Append(s, t)[Len(s) + 1] = t
    BY AppendProperties
  <2>2. DOMAIN Append(s, t) = 1 .. Len(s) + 1 /\ DOMAIN s = 1 .. Len(s) /\ Len(s) \in Nat
    BY <2>1, LenProperties
  <2>3. {ToSet(Append(s, t)[i]) : i \in DOMAIN Append(s, t)} = {ToSet(s[i]) : i \in DOMAIN s} \cup {ToSet(t)}
    <3>1. 1 .. Len(s) + 1 = (1 .. Len(s)) \cup {Len(s) + 1}
      BY <2>2
    <3> QED BY <2>1, <2>2, <3>1
  <2>4. ToSet(Flatten(s) \o t) = ToSet(Flatten(s)) \cup ToSet(t)
    <3>1. Flatten(s) \in Seq(X)
      BY FlattenType
    <3> QED BY <3>1, ConcatRange
  <2> HIDE DEF Z
  <2>5. ToSet(Flatten(s)) = UNION {ToSet(s[i]) : i \in DOMAIN s}
    BY <1>2 DEF Z
  <2>6. Flatten(Append(s, t)) = Flatten(s) \o t
    BY FlattenAppend
  <2>7. ToSet(Flatten(Append(s, t))) = UNION {ToSet(Append(s, t)[i]) : i \in DOMAIN Append(s, t)}
    BY <2>3, <2>4, <2>5, <2>6
  <2> QED BY <2>1, <2>7 DEF Z
<1> HIDE DEF Z
<1>3. Seq(Seq(X)) \subseteq Z
  BY <1>1, <1>2, AppendInduction
<1> QED BY <1>3 DEF Z

-----------------------------------------------------------------------------
(***************************************************************************)
(* Runs of the parser                                                      *)
(***************************************************************************)
IsRun(r, s, lines, t) ==
  /\ r[0] = s /\ r[Len(lines)] = t
  /\ \A i \in 0 .. Len(lines) - 1 : r[i + 1] = Consume(r[i], lines[i + 1])

(* The lines take the parser from s to t.                                  *)
Run(s, lines, t) == \E r : IsRun(r, s, lines, t)

LEMMA RunNothing == \A s : Run(s, <<>>, s)
<1> TAKE s
<1> DEFINE r == [i \in {0} |-> s]
<1>1. Len(<<>>) = 0 /\ r[0] = s
  BY EmptySeq
<1>2. 0 .. Len(<<>>) - 1 = {}
  BY <1>1
<1> HIDE DEF r
<1> QED BY <1>1, <1>2 DEF Run, IsRun

LEMMA RunOn ==
  ASSUME NEW X, NEW L \in Seq(X), NEW M \in Seq(X), NEW s, NEW t, NEW u, Run(s, L, t), Run(t, M, u)
  PROVE  Run(s, L \o M, u)
<1>1. PICK p : IsRun(p, s, L, t)
  BY DEF Run
<1>2. PICK q : IsRun(q, t, M, u)
  BY DEF Run
<1> DEFINE l == Len(L)
           m == Len(M)
           r == [i \in 0 .. l + m |-> IF i <= l THEN p[i] ELSE q[i - l]]
<1>3. /\ l \in Nat /\ m \in Nat /\ Len(L \o M) = l + m
      /\ \A i \in 1 .. l : (L \o M)[i] = L[i]
      /\ \A i \in 1 .. m : (L \o M)[l + i] = M[i]
  BY LenProperties, ConcatProperties
<1> HIDE DEF l, m
<1>4. p[0] = s /\ p[l] = t /\ \A i \in 0 .. l - 1 : p[i + 1] = Consume(p[i], L[i + 1])
  BY <1>1 DEF IsRun, l
<1>5. q[0] = t /\ q[m] = u /\ \A i \in 0 .. m - 1 : q[i + 1] = Consume(q[i], M[i + 1])
  BY <1>2 DEF IsRun, m
<1>6. r[0] = s
  BY <1>3, <1>4
<1>7. r[l + m] = u
  <2>1. CASE m = 0
    BY <1>3, <1>4, <1>5, <2>1
  <2>2. CASE m # 0
    <3>1. l + m \in 0 .. l + m /\ ~(l + m <= l) /\ (l + m) - l = m
      BY <1>3, <2>2
    <3> QED BY <1>5, <3>1
  <2> QED BY <2>1, <2>2
<1>8. ASSUME NEW i \in 0 .. (l + m) - 1 PROVE r[i + 1] = Consume(r[i], (L \o M)[i + 1])
  <2>1. i \in 0 .. l + m /\ i + 1 \in 0 .. l + m
    BY <1>3
  <2>2. CASE i < l
    <3>1. i \in 0 .. l - 1 /\ i <= l /\ i + 1 <= l /\ i + 1 \in 1 .. l
      BY <1>3, <2>2
    <3>2. r[i] = p[i] /\ r[i + 1] = p[i + 1] /\ (L \o M)[i + 1] = L[i + 1]
      BY <1>3, <2>1, <3>1
    <3> HIDE DEF r
    <3> QED BY <1>4, <3>1, <3>2
  <2>3. CASE i >= l
    <3>1. PICK j \in 0 .. m - 1 : i = l + j
      <4>1. i - l \in 0 .. m - 1 /\ i = l + (i - l)
        BY <1>3, <2>3
      <4> QED BY <4>1
    <3>2. j + 1 \in 1 .. m /\ i + 1 = l + (j + 1) /\ ~(i + 1 <= l) /\ (i + 1) - l = j + 1
      BY <1>3, <3>1
    <3>3. r[i + 1] = q[j + 1]
      BY <2>1, <3>2
    <3>4. r[i] = q[j]
      <4>1. CASE j = 0
        BY <1>3, <1>4, <1>5, <2>1, <3>1, <4>1
      <4>2. CASE j # 0
        <5>1. ~(i <= l) /\ i - l = j
          BY <1>3, <3>1, <4>2
        <5> QED BY <2>1, <5>1
      <4> QED BY <4>1, <4>2
    <3>5. (L \o M)[i + 1] = M[j + 1]
      BY <1>3, <3>2
    <3> HIDE DEF r
    <3> QED BY <1>5, <3>1, <3>3, <3>4, <3>5
  <2> QED BY <1>3, <2>2, <2>3
<1>9. IsRun(r, s, L \o M, u)
  <2> HIDE DEF r
  <2> QED BY <1>3, <1>6, <1>7, <1>8 DEF IsRun
<1> QED BY <1>9 DEF Run

LEMMA RunOne == \A s, l : Run(s, <<l>>, Consume(s, l))
<1> TAKE s, l
<1> DEFINE r == [i \in {0, 1} |-> IF i = 0 THEN s ELSE Consume(s, l)]
<1>1. Len(<<l>>) = 1 /\ <<l>>[1] = l /\ r[0] = s /\ r[1] = Consume(s, l)
  OBVIOUS
<1> HIDE DEF r
<1>2. ASSUME NEW i \in 0 .. Len(<<l>>) - 1 PROVE r[i + 1] = Consume(r[i], <<l>>[i + 1])
  <2>1. i = 0 /\ i + 1 = 1
    BY <1>1
  <2> QED BY <1>1, <2>1
<1> QED BY <1>1, <1>2 DEF Run, IsRun

LEMMA RunDetermined ==
  ASSUME NEW X, NEW L \in Seq(X), NEW s, NEW t, NEW u, Run(s, L, t), Run(s, L, u)
  PROVE  t = u
<1>1. PICK p : IsRun(p, s, L, t)
  BY DEF Run
<1>2. PICK q : IsRun(q, s, L, u)
  BY DEF Run
<1> DEFINE n == Len(L)
           Same == {i \in Nat : i <= n => p[i] = q[i]}
<1>3. n \in Nat
  BY LenProperties
<1> HIDE DEF n
<1>4. /\ p[0] = s /\ p[n] = t /\ \A i \in 0 .. n - 1 : p[i + 1] = Consume(p[i], L[i + 1])
      /\ q[0] = s /\ q[n] = u /\ \A i \in 0 .. n - 1 : q[i + 1] = Consume(q[i], L[i + 1])
  BY <1>1, <1>2 DEF IsRun, n
<1>5. 0 \in Same
  BY <1>4
<1>6. ASSUME NEW i \in Same PROVE i + 1 \in Same
  <2>1. CASE i + 1 <= n
    <3>1. i \in 0 .. n - 1 /\ p[i] = q[i]
      BY <1>3, <2>1
    <3>2. p[i + 1] = q[i + 1]
      BY <1>4, <3>1
    <3> QED BY <3>2
  <2> QED BY <1>3, <2>1
<1>7. Same = Nat
  <2>1. Same \subseteq Nat
    OBVIOUS
  <2> HIDE DEF Same
  <2> QED BY <1>5, <1>6, <2>1, Counting
<1> QED BY <1>3, <1>4, <1>7

-----------------------------------------------------------------------------
(***************************************************************************)
(* What the parser knows                                                   *)
(***************************************************************************)
Statuses == {"added", "deleted", "modified", "renamed"}
Forms == {"plain", "quoted", "escaped", "in quotes", "cut"}
AnyPath == [top : Tops, name : FileNames, form : Forms, blank : BOOLEAN, beyond : Tops]
Addition == [no : Nat, text : Texts]
Parts == [path : AnyPath, old : AnyPath, status : Statuses, plus : Nat, minus : Nat, binary : BOOLEAN,
          added : Seq(Addition)]

LEMMA PathsRead ==
  /\ NoPath \in DiffPath /\ \A p \in DiffPath : p \in AnyPath
  /\ \A p \in AnyPath : Unquoted(p) \in AnyPath /\ Stripped(p) \in AnyPath /\ FromHeader(p) \in AnyPath
<1>1. NoPath \in DiffPath
  BY DEF NoPath, DiffPath, Tops, FileNames
<1>2. \A p \in DiffPath : p \in AnyPath
  BY DEF DiffPath, AnyPath, Forms
<1>3. ASSUME NEW p \in AnyPath PROVE Unquoted(p) \in AnyPath
  BY DEF Unquoted, AnyPath, Forms
<1>4. "none" \in Tops /\ "other" \in Tops /\ "other" \in FileNames /\ "in quotes" \in Forms /\ "cut" \in Forms
  BY DEF Tops, FileNames, Forms
<1>5. \A name \in FileNames : QuoteBehind(name) \in FileNames
  BY <1>4 DEF QuoteBehind
<1>6. ASSUME NEW p \in AnyPath PROVE Stripped(p) \in AnyPath
  <2>1. p.top \in Tops /\ p.name \in FileNames
    BY DEF AnyPath
  <2> DEFINE top == IF p.top = "none" THEN "none" ELSE "other"
             name == IF p.top = "none" THEN "other" ELSE QuoteBehind(p.name)
  <2>2. top \in Tops /\ name \in FileNames
    BY <1>4, <1>5, <2>1
  <2>3. p.form = "quoted" => Stripped(p) = [p EXCEPT !.form = "in quotes", !.top = top, !.name = name]
    BY DEF Stripped
  <2>4. p.form # "quoted" => Stripped(p) = p
    BY DEF Stripped
  <2> HIDE DEF top, name
  <2> QED BY <1>4, <2>2, <2>3, <2>4 DEF AnyPath
<1>7. ASSUME NEW p \in AnyPath PROVE FromHeader(p) \in AnyPath
  <2> DEFINE name == IF p.form = "quoted" THEN QuoteBehind(p.name) ELSE p.name
  <2>1. p.beyond \in Tops /\ name \in FileNames
    BY <1>5 DEF AnyPath
  <2>2. p.blank => FromHeader(p) = [p EXCEPT !.form = "cut", !.top = p.beyond, !.name = name]
    BY DEF FromHeader
  <2>3. ~p.blank => FromHeader(p) = Unquoted(p)
    BY DEF FromHeader
  <2> HIDE DEF name
  <2> QED BY <1>3, <1>4, <2>1, <2>2, <2>3 DEF AnyPath
<1> QED BY <1>1, <1>2, <1>3, <1>6, <1>7

(* What is recovered of a file, but for its added lines.                   *)
View(f) == [path |-> f.path, status |-> f.status, binary |-> f.binary, plus |-> f.plus, minus |-> f.minus]
Views == [path : AnyPath, status : Statuses, binary : BOOLEAN, plus : Nat, minus : Nat]

ViewsOf(files) == [i \in DOMAIN files |-> View(files[i])]
AddedOf(files) == [i \in DOMAIN files |-> files[i].added]

LEMMA ViewsAppend ==
  ASSUME NEW F \in Seq(Parts), NEW c \in Parts
  PROVE  /\ ViewsOf(F) \in Seq(Views) /\ View(c) \in Views
         /\ ViewsOf(Append(F, c)) = Append(ViewsOf(F), View(c))
         /\ AddedOf(F) \in Seq(Seq(Addition))
         /\ AddedOf(Append(F, c)) = Append(AddedOf(F), c.added)
<1>1. /\ Append(F, c) \in Seq(Parts) /\ Len(Append(F, c)) = Len(F) + 1 /\ Len(F) \in Nat
      /\ \A i \in 1 .. Len(F) : Append(F, c)[i] = F[i]
      /\ Append(F, c)[Len(F) + 1] = c
  BY AppendProperties, LenProperties
<1>2. DOMAIN F = 1 .. Len(F) /\ DOMAIN Append(F, c) = 1 .. Len(F) + 1 /\ \A i \in 1 .. Len(F) : F[i] \in Parts
  BY <1>1, LenProperties
<1>3. \A f \in Parts : View(f) \in Views /\ f.added \in Seq(Addition)
  BY DEF Parts, View, Views
<1>4. ViewsOf(F) \in Seq(Views) /\ Len(ViewsOf(F)) = Len(F) /\ \A i \in 1 .. Len(F) : ViewsOf(F)[i] = View(F[i])
  BY <1>1, <1>2, <1>3, IsASeq DEF ViewsOf
<1>5. /\ AddedOf(F) \in Seq(Seq(Addition)) /\ Len(AddedOf(F)) = Len(F)
      /\ \A i \in 1 .. Len(F) : AddedOf(F)[i] = F[i].added
  BY <1>1, <1>2, <1>3, IsASeq DEF AddedOf
<1>6. ViewsOf(Append(F, c)) = Append(ViewsOf(F), View(c))
  <2>1. /\ ViewsOf(Append(F, c)) \in Seq(Views) /\ Len(ViewsOf(Append(F, c))) = Len(F) + 1
        /\ \A i \in 1 .. Len(F) + 1 : ViewsOf(Append(F, c))[i] = View(Append(F, c)[i])
    BY <1>1, <1>2, <1>3, IsASeq DEF ViewsOf
  <2>2. /\ Append(ViewsOf(F), View(c)) \in Seq(Views) /\ Len(Append(ViewsOf(F), View(c))) = Len(F) + 1
        /\ \A i \in 1 .. Len(F) : Append(ViewsOf(F), View(c))[i] = View(F[i])
        /\ Append(ViewsOf(F), View(c))[Len(F) + 1] = View(c)
    BY <1>3, <1>4, AppendProperties
  <2>3. \A i \in 1 .. Len(F) + 1 : ViewsOf(Append(F, c))[i] = Append(ViewsOf(F), View(c))[i]
    <3>1. \A i \in 1 .. Len(F) + 1 : i \in 1 .. Len(F) \/ i = Len(F) + 1
      BY <1>1
    <3> QED BY <1>1, <2>1, <2>2, <3>1
  <2> QED BY <2>1, <2>2, <2>3, SeqEqual
<1>7. AddedOf(Append(F, c)) = Append(AddedOf(F), c.added)
  <2>1. /\ AddedOf(Append(F, c)) \in Seq(Seq(Addition)) /\ Len(AddedOf(Append(F, c))) = Len(F) + 1
        /\ \A i \in 1 .. Len(F) + 1 : AddedOf(Append(F, c))[i] = Append(F, c)[i].added
    BY <1>1, <1>2, <1>3, IsASeq DEF AddedOf
  <2>2. /\ Append(AddedOf(F), c.added) \in Seq(Seq(Addition)) /\ Len(Append(AddedOf(F), c.added)) = Len(F) + 1
        /\ \A i \in 1 .. Len(F) : Append(AddedOf(F), c.added)[i] = F[i].added
        /\ Append(AddedOf(F), c.added)[Len(F) + 1] = c.added
    BY <1>3, <1>5, AppendProperties
  <2>3. \A i \in 1 .. Len(F) + 1 : AddedOf(Append(F, c))[i] = Append(AddedOf(F), c.added)[i]
    <3>1. \A i \in 1 .. Len(F) + 1 : i \in 1 .. Len(F) \/ i = Len(F) + 1
      BY <1>1
    <3> QED BY <1>1, <2>1, <2>2, <3>1
  <2> QED BY <2>1, <2>2, <2>3, SeqEqual
<1> QED BY <1>3, <1>4, <1>5, <1>6, <1>7

LEMMA KeptFacts ==
  ASSUME NEW A \in Seq(Addition), NEW a \in Addition
  PROVE  /\ Kept(A) \in Seq(Addition) /\ Len(Kept(A)) \in Nat
         /\ Len(Kept(A)) < MaxCaptured => Kept(Append(A, a)) = Append(Kept(A), a)
         /\ ~(Len(Kept(A)) < MaxCaptured) => Kept(Append(A, a)) = Kept(A)
<1>1. MaxCaptured \in Nat /\ Len(A) \in Nat
  BY ReportAssumption, LenProperties
<1>2. /\ Append(A, a) \in Seq(Addition) /\ Len(Append(A, a)) = Len(A) + 1
      /\ \A i \in 1 .. Len(A) : Append(A, a)[i] = A[i]
      /\ Append(A, a)[Len(A) + 1] = a
  BY AppendProperties
<1> DEFINE m == IF Len(A) < MaxCaptured THEN Len(A) ELSE MaxCaptured
<1>3. m \in Nat /\ m <= Len(A) /\ (m < MaxCaptured <=> Len(A) < MaxCaptured) /\ (m < MaxCaptured => m = Len(A))
  BY <1>1
<1>4. Kept(A) = SubSeq(A, 1, m)
  BY DEF Kept
<1>5. Kept(A) \in Seq(Addition) /\ Len(Kept(A)) = m /\ \A i \in 1 .. m : Kept(A)[i] = A[i]
  BY <1>3, <1>4
<1>6. ASSUME Len(A) < MaxCaptured PROVE Kept(Append(A, a)) = Append(Kept(A), a)
  <2>1. Kept(A) = A
    BY <1>1, <1>5, <1>6, SeqEqual
  <2>2. Kept(Append(A, a)) = SubSeq(Append(A, a), 1, Len(A) + 1)
    BY <1>1, <1>2, <1>6 DEF Kept
  <2>3. Kept(Append(A, a)) = Append(A, a)
    BY <1>1, <1>2, <2>2, SubSeqFull
  <2> QED BY <2>1, <2>3
<1>7. ASSUME ~(Len(A) < MaxCaptured) PROVE Kept(Append(A, a)) = Kept(A)
  <2>1. Kept(Append(A, a)) = SubSeq(Append(A, a), 1, m)
    BY <1>1, <1>2, <1>7 DEF Kept
  <2>2. /\ Kept(Append(A, a)) \in Seq(Addition) /\ Len(Kept(Append(A, a))) = m
        /\ \A i \in 1 .. m : Kept(Append(A, a))[i] = A[i]
    <3>1. \A i \in 1 .. m : i \in 1 .. Len(A) /\ i \in 1 .. Len(A) + 1
      BY <1>1, <1>3
    <3>2. m \in 0 .. Len(A) + 1
      BY <1>1, <1>3
    <3> HIDE DEF m
    <3> QED BY <1>2, <1>3, <2>1, <3>1, <3>2
  <2> QED BY <1>5, <2>2, SeqEqual
<1> QED BY <1>3, <1>5, <1>6, <1>7

(* The files so far, all lines that were added so far, whether the parser  *)
(* is in a hunk and at which line of the new file.                         *)
Known(views, added, place, line) == [views |-> views, added |-> added, place |-> place, line |-> line]

Variables == {"files", "hunk", "line", "captured"}

State(s, files, place, line, added) ==
  /\ s = [x \in Variables |-> s[x]]
  /\ s.files = files /\ s.hunk = (place = "hunk") /\ s.line = line /\ s.captured = Len(Kept(added))

Parsed(s, k) ==
  \E files \in Seq(Parts) :
    /\ State(s, files, k.place, k.line, k.added)
    /\ ViewsOf(files) = k.views
    /\ Flatten(AddedOf(files)) = Kept(k.added)
    /\ \A i \in DOMAIN files : Len(files[i].added) <= files[i].plus

(* The lines take a parser that knows g to one that knows h.               *)
Leads(g, lines, h) == \A s : Parsed(s, g) => \E t : Run(s, lines, t) /\ Parsed(t, h)

LEMMA LeadsNothing == \A g : Leads(g, <<>>, g)
BY RunNothing DEF Leads

LEMMA LeadsOn ==
  ASSUME NEW X, NEW L \in Seq(X), NEW M \in Seq(X), NEW g, NEW h, NEW k, Leads(g, L, h), Leads(h, M, k)
  PROVE  Leads(g, L \o M, k)
<1> SUFFICES ASSUME NEW s, Parsed(s, g) PROVE \E t : Run(s, L \o M, t) /\ Parsed(t, k)
  BY DEF Leads
<1>1. PICK t : Run(s, L, t) /\ Parsed(t, h)
  BY DEF Leads
<1>2. PICK u : Run(t, M, u) /\ Parsed(u, k)
  BY <1>1 DEF Leads
<1> QED BY <1>1, <1>2, RunOn

LEMMA LeadsOne ==
  ASSUME NEW l, NEW g, NEW h, \A s : Parsed(s, g) => Parsed(Consume(s, l), h)
  PROVE  Leads(g, <<l>>, h)
BY RunOne DEF Leads

(* The file at hand, and how it may be exchanged for another.              *)
AtHand(s, F, c, V, v, A, place, line) ==
  /\ State(s, Append(F, c), place, line, A)
  /\ V = ViewsOf(F) /\ v = View(c)
  /\ Flatten(AddedOf(F)) \o c.added = Kept(A)
  /\ \A i \in DOMAIN F : Len(F[i].added) <= F[i].plus
  /\ Len(c.added) <= c.plus

LEMMA FileAtHand ==
  ASSUME NEW V \in Seq(Views), NEW v \in Views, NEW A \in Seq(Addition), NEW place, NEW line,
         NEW s, Parsed(s, Known(Append(V, v), A, place, line))
  PROVE  \E F \in Seq(Parts), c \in Parts : AtHand(s, F, c, V, v, A, place, line)
<1>1. PICK files \in Seq(Parts) :
        /\ State(s, files, place, line, A)
        /\ ViewsOf(files) = Append(V, v)
        /\ Flatten(AddedOf(files)) = Kept(A)
        /\ \A i \in DOMAIN files : Len(files[i].added) <= files[i].plus
  BY DEF Parsed, Known
<1>2. files # <<>>
  <2>1. Append(V, v) # <<>>
    BY AppendProperties
  <2>2. ViewsOf(<<>>) = <<>>
    BY EmptySeq DEF ViewsOf
  <2> QED BY <1>1, <2>1, <2>2
<1>3. PICK F \in Seq(Parts), c \in Parts : files = Append(F, c)
  BY <1>1, <1>2, SequenceEmptyOrAppend
<1>4. V = ViewsOf(F) /\ v = View(c)
  <2>1. ViewsOf(F) \in Seq(Views) /\ View(c) \in Views /\ Append(ViewsOf(F), View(c)) = Append(V, v)
    BY <1>1, <1>3, ViewsAppend
  <2> QED BY <2>1, AppendInjective
<1>5. Flatten(AddedOf(F)) \o c.added = Kept(A)
  <2>1. AddedOf(F) \in Seq(Seq(Addition)) /\ AddedOf(Append(F, c)) = Append(AddedOf(F), c.added)
    BY ViewsAppend
  <2>2. c.added \in Seq(Addition)
    BY DEF Parts
  <2> QED BY <1>1, <1>3, <2>1, <2>2, FlattenAppend
<1>6. /\ Len(Append(F, c)) = Len(F) + 1 /\ Len(F) \in Nat /\ Append(F, c)[Len(F) + 1] = c
      /\ \A i \in 1 .. Len(F) : Append(F, c)[i] = F[i]
      /\ DOMAIN F = 1 .. Len(F) /\ DOMAIN Append(F, c) = 1 .. Len(F) + 1
  BY AppendProperties, LenProperties
<1>7. Len(c.added) <= c.plus /\ \A i \in DOMAIN F : Len(F[i].added) <= F[i].plus
  <2>1. \A i \in 1 .. Len(F) + 1 : Len(Append(F, c)[i].added) <= Append(F, c)[i].plus
    BY <1>1, <1>3, <1>6
  <2>2. \A i \in 1 .. Len(F) : i \in 1 .. Len(F) + 1
    BY <1>6
  <2>3. Len(F) + 1 \in 1 .. Len(F) + 1
    BY <1>6
  <2> QED BY <1>6, <2>1, <2>2, <2>3
<1> QED BY <1>1, <1>3, <1>4, <1>5, <1>7 DEF AtHand

LEMMA FileExchanged ==
  ASSUME NEW F \in Seq(Parts), NEW d \in Parts, NEW A \in Seq(Addition), NEW place, NEW line, NEW s,
         State(s, Append(F, d), place, line, A),
         Flatten(AddedOf(F)) \o d.added = Kept(A),
         \A i \in DOMAIN F : Len(F[i].added) <= F[i].plus, Len(d.added) <= d.plus
  PROVE  Parsed(s, Known(Append(ViewsOf(F), View(d)), A, place, line))
<1>1. Append(F, d) \in Seq(Parts)
  BY AppendProperties
<1>2. ViewsOf(Append(F, d)) = Append(ViewsOf(F), View(d))
  BY <1>1, ViewsAppend
<1>3. Flatten(AddedOf(Append(F, d))) = Kept(A)
  <2>1. AddedOf(F) \in Seq(Seq(Addition)) /\ AddedOf(Append(F, d)) = Append(AddedOf(F), d.added)
    BY ViewsAppend
  <2>2. d.added \in Seq(Addition)
    BY DEF Parts
  <2> QED BY <1>1, <2>1, <2>2, FlattenAppend
<1>4. \A i \in DOMAIN Append(F, d) : Len(Append(F, d)[i].added) <= Append(F, d)[i].plus
  <2>1. /\ Len(Append(F, d)) = Len(F) + 1 /\ Len(F) \in Nat /\ Append(F, d)[Len(F) + 1] = d
        /\ \A i \in 1 .. Len(F) : Append(F, d)[i] = F[i]
        /\ DOMAIN F = 1 .. Len(F) /\ DOMAIN Append(F, d) = 1 .. Len(F) + 1
    BY AppendProperties, LenProperties
  <2>2. \A i \in 1 .. Len(F) + 1 : i \in 1 .. Len(F) \/ i = Len(F) + 1
    BY <2>1
  <2> QED BY <1>1, <2>1, <2>2
<1> QED BY <1>1, <1>2, <1>3, <1>4 DEF Parsed, Known

-----------------------------------------------------------------------------
(***************************************************************************)
(* Single lines                                                            *)
(***************************************************************************)
LEMMA LastExchanged ==
  ASSUME NEW X, NEW F \in Seq(X), NEW c \in X, NEW d \in X
  PROVE  /\ Append(F, c)[Len(Append(F, c))] = c
         /\ [Append(F, c) EXCEPT ![Len(Append(F, c))] = d] = Append(F, d)
         /\ Len(Append(F, c)) \in Nat /\ Len(Append(F, c)) # 0
         /\ Len(Append(F, c)) \in 1 .. Len(Append(F, c)) /\ Append(F, c) \in [1 .. Len(Append(F, c)) -> X]
<1>1. /\ Append(F, c) \in Seq(X) /\ Len(Append(F, c)) = Len(F) + 1 /\ Len(F) \in Nat
      /\ \A i \in 1 .. Len(F) : Append(F, c)[i] = F[i]
      /\ Append(F, c)[Len(F) + 1] = c
  BY AppendProperties, LenProperties
<1>2. /\ Append(F, d) \in Seq(X) /\ Len(Append(F, d)) = Len(F) + 1
      /\ \A i \in 1 .. Len(F) : Append(F, d)[i] = F[i]
      /\ Append(F, d)[Len(F) + 1] = d
  BY AppendProperties, LenProperties
<1> DEFINE e == [Append(F, c) EXCEPT ![Len(F) + 1] = d]
<1>3. /\ e \in Seq(X) /\ Len(e) = Len(F) + 1
      /\ \A j \in 1 .. Len(F) + 1 : e[j] = IF j = Len(F) + 1 THEN d ELSE Append(F, c)[j]
  <2> DEFINE i == Len(F) + 1
             q == Append(F, c)
  <2>1. i \in 1 .. Len(q) /\ q \in Seq(X) /\ Len(q) = i
    BY <1>1
  <2> HIDE DEF i, q
  <2>2. /\ [q EXCEPT ![i] = d] \in Seq(X) /\ Len([q EXCEPT ![i] = d]) = Len(q)
        /\ \A j \in 1 .. Len(q) : [q EXCEPT ![i] = d][j] = IF j = i THEN d ELSE q[j]
    BY <2>1, ExceptSeq
  <2> QED BY <2>1, <2>2 DEF i, q
<1> HIDE DEF e
<1>4. \A j \in 1 .. Len(F) + 1 : e[j] = Append(F, d)[j]
  <2>1. \A j \in 1 .. Len(F) + 1 : j \in 1 .. Len(F) \/ j = Len(F) + 1
    BY <1>1
  <2> QED BY <1>1, <1>2, <1>3, <2>1
<1>5. e = Append(F, d)
  BY <1>2, <1>3, <1>4, SeqEqual
<1>6. Len(F) + 1 \in 1 .. Len(F) + 1 /\ Append(F, c) \in [1 .. Len(F) + 1 -> X]
  <2> DEFINE q == Append(F, c)
  <2>1. q \in Seq(X) /\ Len(q) = Len(F) + 1 /\ Len(F) + 1 \in 1 .. Len(F) + 1
    BY <1>1
  <2> HIDE DEF q
  <2>2. q \in [1 .. Len(q) -> X]
    BY <2>1, LenProperties
  <2> QED BY <2>1, <2>2 DEF q
<1> QED BY <1>1, <1>5, <1>6 DEF e

(* The kinds of lines.                                                     *)
BeginsFile(l) == l.head = "diff --git" /\ l.path \in AnyPath
IsHeader(l) == l.head \notin {"diff --git", "@@"} /\ l.path \in AnyPath

(* A file begins.                                                          *)
LEMMA FileBegins ==
  ASSUME NEW V \in Seq(Views), NEW A \in Seq(Addition), NEW place, NEW line,
         NEW l, BeginsFile(l)
  PROVE  Leads(Known(V, A, place, line), <<l>>, Known(Append(V, View(FileChange(FromHeader(l.path)))), A, "header", line))
<1> SUFFICES ASSUME NEW s, Parsed(s, Known(V, A, place, line))
             PROVE  Parsed(Consume(s, l), Known(Append(V, View(FileChange(FromHeader(l.path)))), A, "header", line))
  BY LeadsOne
<1> DEFINE d == FileChange(FromHeader(l.path))
<1>1. PICK F \in Seq(Parts) :
      /\ State(s, F, place, line, A) /\ ViewsOf(F) = V /\ Flatten(AddedOf(F)) = Kept(A)
      /\ \A i \in DOMAIN F : Len(F[i].added) <= F[i].plus
  BY DEF Parsed, Known
<1>2. d \in Parts /\ d.added = <<>> /\ d.plus = 0
  <2>1. NoPath \in AnyPath
    BY PathsRead
  <2>2. <<>> \in Seq(Addition) /\ "modified" \in Statuses /\ FromHeader(l.path) \in AnyPath
    BY EmptySeq, PathsRead DEF Statuses, BeginsFile
  <2> QED BY <2>1, <2>2 DEF FileChange, Parts
<1>3. State(Consume(s, l), Append(F, d), "header", line, A)
  <2>1. Consume(s, l) = Opened(s, FromHeader(l.path))
    BY DEF Consume, BeginsFile
  <2>2. s.files = F
    BY <1>1 DEF State
  <2>3. Opened(s, FromHeader(l.path)) = [s EXCEPT !.files = Append(F, d), !.hunk = FALSE]
    BY <2>2 DEF Opened
  <2> HIDE DEF d
  <2>4. Consume(s, l) = [s EXCEPT !.files = Append(F, d), !.hunk = FALSE]
    BY <2>1, <2>3
  <2> QED BY <1>1, <2>4 DEF State, Variables
<1>4. Flatten(AddedOf(F)) \o d.added = Kept(A)
  <2>1. Kept(A) \in Seq(Addition)
    <3>1. AddedOf(F) \in Seq(Seq(Addition))
      BY <1>1, <1>2, ViewsAppend
    <3> QED BY <1>1, <3>1, FlattenType
  <2> QED BY <1>1, <1>2, <2>1, ConcatEmptySeq
<1>5. Len(d.added) <= d.plus
  <2>1. Len(<<>>) = 0
    BY EmptySeq
  <2>2. Len(d.added) = Len(<<>>)
    BY <1>2
  <2> HIDE DEF d
  <2> QED BY <1>2, <2>1, <2>2
<1> HIDE DEF d
<1>6. Parsed(Consume(s, l), Known(Append(ViewsOf(F), View(d)), A, "header", line))
  BY <1>1, <1>2, <1>3, <1>4, <1>5, FileExchanged
<1> QED BY <1>1, <1>6 DEF d

(* A line before the hunks says something of the file.                     *)
Noted(v, l) ==
  [path |-> IF l.head = "rename to" THEN Stripped(l.path)
            ELSE IF l.head = "+++" /\ l.path # NoPath THEN Unquoted(l.path) ELSE v.path,
   status |-> IF l.head = "new file mode" \/ (l.head = "---" /\ l.path = NoPath) THEN "added"
              ELSE IF l.head = "deleted file mode" \/ (l.head = "+++" /\ l.path = NoPath) THEN "deleted"
              ELSE IF l.head \in {"rename from", "rename to"} THEN "renamed" ELSE v.status,
   binary |-> l.head = "Binary files" \/ v.binary, plus |-> v.plus, minus |-> v.minus]

LEMMA HeaderNotes ==
  ASSUME NEW c \in Parts, NEW l, l.path \in AnyPath
  PROVE  /\ Header(c, l) \in Parts /\ Header(c, l).added = c.added /\ Header(c, l).plus = c.plus
         /\ View(Header(c, l)) = Noted(View(c), l)
<1> DEFINE File(path, old, status, binary) ==
             [path |-> path, old |-> old, status |-> status, plus |-> c.plus, minus |-> c.minus,
              binary |-> binary, added |-> c.added]
<1>1. /\ c = File(c.path, c.old, c.status, c.binary) /\ c.path \in AnyPath /\ c.old \in AnyPath
      /\ c.status \in Statuses /\ c.binary \in BOOLEAN
  BY DEF Parts
<1>2. ASSUME NEW path \in AnyPath, NEW old \in AnyPath, NEW status \in Statuses, NEW binary \in BOOLEAN
      PROVE  LET d == File(path, old, status, binary) IN
               /\ d \in Parts /\ d.added = c.added /\ d.plus = c.plus
               /\ View(d) = [path |-> path, status |-> status, binary |-> binary, plus |-> c.plus, minus |-> c.minus]
  BY DEF Parts, View
<1>3. Noted(View(c), l) = Noted(c, l)
  BY DEF Noted, View
<1>4. /\ "added" \in Statuses /\ "deleted" \in Statuses /\ "renamed" \in Statuses
      /\ Stripped(l.path) \in AnyPath /\ Unquoted(l.path) \in AnyPath
  BY PathsRead DEF Statuses
<1>5. CASE l.head = "new file mode"
  <2>1. Header(c, l) = [c EXCEPT !.status = "added"]
    BY <1>5 DEF Header
  <2>2. Header(c, l) = File(c.path, c.old, "added", c.binary)
    BY <1>1, <2>1
  <2>3. Noted(c, l) = [path |-> c.path, status |-> "added", binary |-> c.binary, plus |-> c.plus, minus |-> c.minus]
    BY <1>1, <1>5 DEF Noted
  <2> HIDE DEF File
  <2> QED BY <1>1, <1>2, <1>3, <1>4, <2>2, <2>3
<1>6. CASE l.head = "deleted file mode"
  <2>1. Header(c, l) = [c EXCEPT !.status = "deleted"]
    BY <1>6 DEF Header
  <2>2. Header(c, l) = File(c.path, c.old, "deleted", c.binary)
    BY <1>1, <2>1
  <2>3. Noted(c, l) = [path |-> c.path, status |-> "deleted", binary |-> c.binary, plus |-> c.plus, minus |-> c.minus]
    BY <1>1, <1>6 DEF Noted
  <2> HIDE DEF File
  <2> QED BY <1>1, <1>2, <1>3, <1>4, <2>2, <2>3
<1>7. CASE l.head = "rename from"
  <2>1. Header(c, l) = [c EXCEPT !.old = Stripped(l.path), !.status = "renamed"]
    BY <1>7 DEF Header
  <2>2. Header(c, l) = File(c.path, Stripped(l.path), "renamed", c.binary)
    BY <1>1, <2>1
  <2>3. Noted(c, l) = [path |-> c.path, status |-> "renamed", binary |-> c.binary, plus |-> c.plus, minus |-> c.minus]
    BY <1>1, <1>7 DEF Noted
  <2> HIDE DEF File
  <2> QED BY <1>1, <1>2, <1>3, <1>4, <2>2, <2>3
<1>8. CASE l.head = "rename to"
  <2>1. Header(c, l) = [c EXCEPT !.path = Stripped(l.path), !.status = "renamed"]
    BY <1>8 DEF Header
  <2>2. Header(c, l) = File(Stripped(l.path), c.old, "renamed", c.binary)
    BY <1>1, <2>1
  <2>3. Noted(c, l) = [path |-> Stripped(l.path), status |-> "renamed", binary |-> c.binary, plus |-> c.plus, minus |-> c.minus]
    BY <1>1, <1>8 DEF Noted
  <2> HIDE DEF File
  <2> QED BY <1>1, <1>2, <1>3, <1>4, <2>2, <2>3
<1>9. CASE l.head = "Binary files"
  <2>1. Header(c, l) = [c EXCEPT !.binary = TRUE]
    BY <1>9 DEF Header
  <2>2. Header(c, l) = File(c.path, c.old, c.status, TRUE)
    BY <1>1, <2>1
  <2>3. Noted(c, l) = [path |-> c.path, status |-> c.status, binary |-> TRUE, plus |-> c.plus, minus |-> c.minus]
    BY <1>1, <1>9 DEF Noted
  <2> DEFINE d == File(c.path, c.old, c.status, TRUE)
  <2>4. d \in Parts /\ d.added = c.added /\ d.plus = c.plus
    BY <1>1 DEF Parts
  <2>5. View(d) = [path |-> c.path, status |-> c.status, binary |-> TRUE, plus |-> c.plus, minus |-> c.minus]
    BY DEF View
  <2> HIDE DEF File
  <2> QED BY <1>3, <2>2, <2>3, <2>4, <2>5
<1>10. CASE l.head = "---" /\ l.path = NoPath
  <2>1. Header(c, l) = [c EXCEPT !.status = "added"]
    BY <1>10 DEF Header
  <2>2. Header(c, l) = File(c.path, c.old, "added", c.binary)
    BY <1>1, <2>1
  <2>3. Noted(c, l) = [path |-> c.path, status |-> "added", binary |-> c.binary, plus |-> c.plus, minus |-> c.minus]
    BY <1>1, <1>10 DEF Noted
  <2> HIDE DEF File
  <2> QED BY <1>1, <1>2, <1>3, <1>4, <2>2, <2>3
<1>11. CASE l.head = "---" /\ l.path # NoPath
  <2> DEFINE old == IF c.old = NoPath /\ c.status # "renamed" THEN Unquoted(l.path) ELSE c.old
  <2>1. Header(c, l) = IF c.old = NoPath /\ c.status # "renamed" THEN [c EXCEPT !.old = Unquoted(l.path)] ELSE c
    BY <1>11 DEF Header
  <2>2. Header(c, l) = File(c.path, old, c.status, c.binary) /\ old \in AnyPath
    BY <1>1, <1>4, <2>1
  <2>3. Noted(c, l) = [path |-> c.path, status |-> c.status, binary |-> c.binary, plus |-> c.plus, minus |-> c.minus]
    BY <1>1, <1>11 DEF Noted
  <2> HIDE DEF File, old
  <2> QED BY <1>1, <1>2, <1>3, <2>2, <2>3
<1>12. CASE l.head = "+++" /\ l.path = NoPath
  <2>1. Header(c, l) = [c EXCEPT !.status = "deleted"]
    BY <1>12 DEF Header
  <2>2. Header(c, l) = File(c.path, c.old, "deleted", c.binary)
    BY <1>1, <2>1
  <2>3. Noted(c, l) = [path |-> c.path, status |-> "deleted", binary |-> c.binary, plus |-> c.plus, minus |-> c.minus]
    BY <1>1, <1>12 DEF Noted
  <2> HIDE DEF File
  <2> QED BY <1>1, <1>2, <1>3, <1>4, <2>2, <2>3
<1>13. CASE l.head = "+++" /\ l.path # NoPath
  <2>1. Header(c, l) = [c EXCEPT !.path = Unquoted(l.path)]
    BY <1>13 DEF Header
  <2>2. Header(c, l) = File(Unquoted(l.path), c.old, c.status, c.binary)
    BY <1>1, <2>1
  <2>3. Noted(c, l) = [path |-> Unquoted(l.path), status |-> c.status, binary |-> c.binary, plus |-> c.plus, minus |-> c.minus]
    BY <1>1, <1>13 DEF Noted
  <2> HIDE DEF File
  <2> QED BY <1>1, <1>2, <1>3, <1>4, <2>2, <2>3
<1>14. CASE l.head \notin {"new file mode", "deleted file mode", "rename from", "rename to", "Binary files", "---", "+++"}
  <2>1. Header(c, l) = c
    BY <1>14 DEF Header
  <2>2. Noted(c, l) = [path |-> c.path, status |-> c.status, binary |-> c.binary, plus |-> c.plus, minus |-> c.minus]
    BY <1>1, <1>14 DEF Noted
  <2> HIDE DEF File
  <2> QED BY <1>1, <1>2, <1>3, <2>1, <2>2
<1> QED BY <1>5, <1>6, <1>7, <1>8, <1>9, <1>10, <1>11, <1>12, <1>13, <1>14

LEMMA HeaderLine ==
  ASSUME NEW V \in Seq(Views), NEW v \in Views, NEW A \in Seq(Addition), NEW place, place = "header", NEW line,
         NEW l, IsHeader(l)
  PROVE  /\ Leads(Known(Append(V, v), A, place, line), <<l>>, Known(Append(V, Noted(v, l)), A, place, line))
         /\ Noted(v, l) \in Views
<1>1. Noted(v, l) \in Views
  <2>1. Stripped(l.path) \in AnyPath /\ Unquoted(l.path) \in AnyPath
    BY PathsRead DEF IsHeader
  <2> QED BY <2>1 DEF Noted, Views, Statuses
<1> SUFFICES ASSUME NEW s, Parsed(s, Known(Append(V, v), A, place, line))
             PROVE  Parsed(Consume(s, l), Known(Append(V, Noted(v, l)), A, place, line))
  BY <1>1, LeadsOne
<1>2. PICK F \in Seq(Parts), c \in Parts : AtHand(s, F, c, V, v, A, place, line)
  BY FileAtHand
<1>5. State(s, Append(F, c), place, line, A) /\ V = ViewsOf(F) /\ v = View(c)
  BY <1>2 DEF AtHand
<1>6. /\ Flatten(AddedOf(F)) \o c.added = Kept(A)
      /\ \A i \in DOMAIN F : Len(F[i].added) <= F[i].plus
      /\ Len(c.added) <= c.plus
  BY <1>2 DEF AtHand
<1> DEFINE d == Header(c, l)
<1>3. d \in Parts /\ d.added = c.added /\ d.plus = c.plus /\ View(d) = Noted(v, l)
  <2>1. l.path \in AnyPath
    BY DEF IsHeader
  <2> QED BY <1>2, <1>5, <2>1, HeaderNotes
<1>4. State(Consume(s, l), Append(F, d), place, line, A)
  <2> DEFINE n == Len(s.files)
  <2>1. s.files = Append(F, c) /\ s.hunk = FALSE
    BY <1>5 DEF State
  <2>2. n \in Nat /\ n # 0 /\ s.files[n] = c
    <3>1. /\ Append(F, c)[Len(Append(F, c))] = c
          /\ Len(Append(F, c)) \in Nat /\ Len(Append(F, c)) # 0
      BY <1>2, LastExchanged
    <3> QED BY <2>1, <3>1
  <2>3. Consume(s, l) = [s EXCEPT !.files[n] = Header(@, l)]
    BY <2>1, <2>2 DEF Consume, IsHeader
  <2>4. Consume(s, l) = [s EXCEPT !.files = [s.files EXCEPT ![n] = d]]
    BY <2>2, <2>3
  <2> HIDE DEF d
  <2>5. [s.files EXCEPT ![n] = d] = Append(F, d)
    <3>1. d \in Parts
      BY <1>3
    <3>2. [Append(F, c) EXCEPT ![Len(Append(F, c))] = d] = Append(F, d)
      BY <1>2, <3>1, LastExchanged
    <3> QED BY <2>1, <3>2
  <2>6. Consume(s, l) = [s EXCEPT !.files = Append(F, d)]
    BY <2>4, <2>5
  <2> QED BY <1>5, <2>6 DEF State, Variables
<1> HIDE DEF d
<1> QED BY <1>2, <1>3, <1>4, <1>5, <1>6, FileExchanged

(* A hunk begins.                                                          *)
LEMMA HunkBegins ==
  ASSUME NEW V \in Seq(Views), NEW v \in Views, NEW A \in Seq(Addition), NEW place, NEW line,
         NEW l, l.head = "@@"
  PROVE  Leads(Known(Append(V, v), A, place, line), <<l>>, Known(Append(V, v), A, "hunk", l.no))
<1> SUFFICES ASSUME NEW s, Parsed(s, Known(Append(V, v), A, place, line))
             PROVE  Parsed(Consume(s, l), Known(Append(V, v), A, "hunk", l.no))
  BY LeadsOne
<1>1. PICK F \in Seq(Parts), c \in Parts : State(s, Append(F, c), place, line, A)
  BY FileAtHand DEF AtHand
<1>2. s.files = Append(F, c)
  BY <1>1 DEF State
<1>3. Len(s.files) \in Nat /\ Len(s.files) # 0
  BY <1>1, <1>2, LastExchanged
<1>4. Consume(s, l) = [s EXCEPT !.hunk = TRUE, !.line = l.no]
  BY <1>3 DEF Consume
<1>5. \A files : State(s, files, place, line, A) => State(Consume(s, l), files, "hunk", l.no, A)
  BY <1>4 DEF State, Variables
<1> QED BY <1>5 DEF Parsed, Known

(* The lines of a hunk.                                                    *)
Adds(l) == l.head \in {"+", "+++"} /\ l.text \in Texts
Removes(l) == l.head \in {"-", "---"}
Keeps(l) == l.head = " "
Remarks(l) == l.head = "\\"

Recount(v, plus, minus) ==
  [path |-> v.path, status |-> v.status, binary |-> v.binary, plus |-> v.plus + plus, minus |-> v.minus + minus]

LEMMA RecountType ==
  ASSUME NEW v \in Views, NEW plus \in Nat, NEW minus \in Nat
  PROVE  Recount(v, plus, minus) \in Views
BY DEF Recount, Views

Columns == {"path", "old", "status", "plus", "minus", "binary", "added"}

LEMMA PartFields ==
  ASSUME NEW c \in Parts
  PROVE  c = [x \in Columns |-> c[x]]
BY DEF Parts, Columns

LEMMA PartRecounted ==
  ASSUME NEW c \in Parts, NEW added \in Seq(Addition)
  PROVE  /\ LET d == [[c EXCEPT !.plus = @ + 1] EXCEPT !.added = added] IN
              d \in Parts /\ d.added = added /\ d.plus = c.plus + 1 /\ View(d) = Recount(View(c), 1, 0)
         /\ LET d == [c EXCEPT !.plus = @ + 1] IN
              d \in Parts /\ d.added = c.added /\ d.plus = c.plus + 1 /\ View(d) = Recount(View(c), 1, 0)
         /\ LET d == [c EXCEPT !.minus = @ + 1] IN
              d \in Parts /\ d.added = c.added /\ d.plus = c.plus /\ View(d) = Recount(View(c), 0, 1)
<1>1. /\ c = [path |-> c.path, old |-> c.old, status |-> c.status, plus |-> c.plus, minus |-> c.minus,
              binary |-> c.binary, added |-> c.added]
      /\ c.path \in AnyPath /\ c.old \in AnyPath /\ c.status \in Statuses /\ c.plus \in Nat /\ c.minus \in Nat
      /\ c.binary \in BOOLEAN /\ c.added \in Seq(Addition)
  BY DEF Parts
<1> DEFINE Part(plus, minus, more) ==
             [path |-> c.path, old |-> c.old, status |-> c.status, plus |-> plus, minus |-> minus,
              binary |-> c.binary, added |-> more]
<1>2. ASSUME NEW plus \in Nat, NEW minus \in Nat, NEW more \in Seq(Addition)
      PROVE  /\ Part(plus, minus, more) \in Parts /\ Part(plus, minus, more).added = more
             /\ Part(plus, minus, more).plus = plus
             /\ View(Part(plus, minus, more))
                  = [path |-> c.path, status |-> c.status, binary |-> c.binary, plus |-> plus, minus |-> minus]
  BY <1>1 DEF Parts, View
<1>3. /\ Recount(View(c), 1, 0) = [path |-> c.path, status |-> c.status, binary |-> c.binary,
                                   plus |-> c.plus + 1, minus |-> c.minus]
      /\ Recount(View(c), 0, 1) = [path |-> c.path, status |-> c.status, binary |-> c.binary,
                                   plus |-> c.plus, minus |-> c.minus + 1]
  BY <1>1 DEF Recount, View
<1>5. [c EXCEPT !.plus = @ + 1] = Part(c.plus + 1, c.minus, c.added)
  BY <1>1, PartFields DEF Columns
<1>4. [[c EXCEPT !.plus = @ + 1] EXCEPT !.added = added] = Part(c.plus + 1, c.minus, added)
  <2> DEFINE e == [c EXCEPT !.plus = @ + 1]
  <2>1. e = Part(c.plus + 1, c.minus, c.added)
    BY <1>5
  <2> HIDE DEF e
  <2>2. [e EXCEPT !.added = added] = Part(c.plus + 1, c.minus, added)
    BY <2>1
  <2> QED BY <2>2 DEF e
<1>6. [c EXCEPT !.minus = @ + 1] = Part(c.plus, c.minus + 1, c.added)
  BY <1>1, PartFields DEF Columns
<1>7. c.plus + 1 \in Nat /\ c.minus + 1 \in Nat
  BY <1>1
<1> HIDE DEF Part
<1> QED BY <1>1, <1>2, <1>3, <1>4, <1>5, <1>6, <1>7

LEMMA AddedLine ==
  ASSUME NEW V \in Seq(Views), NEW v \in Views, NEW A \in Seq(Addition), NEW line \in Nat,
         NEW l, Adds(l)
  PROVE  Leads(Known(Append(V, v), A, "hunk", line), <<l>>,
               Known(Append(V, Recount(v, 1, 0)), Append(A, [no |-> line, text |-> l.text]), "hunk", line + 1))
<1> DEFINE a == [no |-> line, text |-> l.text]
           k == Known(Append(V, Recount(v, 1, 0)), Append(A, a), "hunk", line + 1)
<1> SUFFICES ASSUME NEW s, Parsed(s, Known(Append(V, v), A, "hunk", line)) PROVE Parsed(Consume(s, l), k)
  BY LeadsOne
<1>0. a \in Addition /\ Append(A, a) \in Seq(Addition)
  BY AppendProperties DEF Adds, Addition
<1> HIDE DEF a, k
<1>1. PICK F \in Seq(Parts), c \in Parts : AtHand(s, F, c, V, v, A, "hunk", line)
  BY FileAtHand
<1>2. State(s, Append(F, c), "hunk", line, A) /\ V = ViewsOf(F) /\ v = View(c)
  BY <1>1 DEF AtHand
<1>3. /\ Flatten(AddedOf(F)) \o c.added = Kept(A)
      /\ \A i \in DOMAIN F : Len(F[i].added) <= F[i].plus
      /\ Len(c.added) <= c.plus
  BY <1>1 DEF AtHand
<1> DEFINE n == Len(s.files)
<1>4. s.files = Append(F, c) /\ s.hunk /\ s.line = line /\ s.captured = Len(Kept(A))
  BY <1>2 DEF State
<1>5. n \in Nat /\ n # 0 /\ s.files[n] = c
  BY <1>1, <1>4, LastExchanged
<1>6. Consume(s, l) = Body(s, l)
  BY <1>4, <1>5 DEF Consume, Adds
<1>7. c.added \in Seq(Addition) /\ c.plus \in Nat
  BY <1>1 DEF Parts
<1>8. Flatten(AddedOf(F)) \in Seq(Addition)
  <2>1. AddedOf(F) \in Seq(Seq(Addition))
    BY <1>1, ViewsAppend
  <2> QED BY <2>1, FlattenType
<1>9. CASE s.captured < MaxCaptured
  <2> DEFINE d == [[c EXCEPT !.plus = @ + 1] EXCEPT !.added = Append(c.added, a)]
  <2>1. Append(c.added, a) \in Seq(Addition) /\ Len(Append(c.added, a)) = Len(c.added) + 1 /\ Len(c.added) \in Nat
    BY <1>0, <1>7, AppendProperties, LenProperties
  <2>2. d \in Parts /\ d.added = Append(c.added, a) /\ d.plus = c.plus + 1 /\ View(d) = Recount(v, 1, 0)
    BY <1>1, <1>2, <2>1, PartRecounted
  <2>3. Body(s, l) = [s EXCEPT !.files[n].plus = @ + 1, !.line = @ + 1, !.captured = @ + 1,
                               !.files[n].added = Append(@, [no |-> s.line, text |-> l.text])]
    BY <1>9 DEF Body, Adds
  <2>4. State(Consume(s, l), Append(F, d), "hunk", line + 1, Append(A, a))
    <3>1. [[s.files EXCEPT ![n].plus = @ + 1] EXCEPT ![n].added = Append(@, a)] = [s.files EXCEPT ![n] = d]
      <4>1. s.files \in [1 .. n -> Parts] /\ n \in 1 .. n
        BY <1>1, <1>4, LastExchanged
      <4>2. c = [x \in Columns |-> c[x]]
        BY <1>1, PartFields
      <4> QED BY <1>5, <4>1, <4>2 DEF Columns
    <3>2. [s.files EXCEPT ![n] = d] = Append(F, d)
      <4> HIDE DEF d
      <4> QED BY <1>1, <1>4, <2>2, LastExchanged
    <3>3. Kept(Append(A, a)) = Append(Kept(A), a) /\ Len(Append(Kept(A), a)) = Len(Kept(A)) + 1
      BY <1>0, <1>4, <1>9, KeptFacts, AppendProperties
    <3>4. s = [x \in Variables |-> s[x]]
      BY <1>2 DEF State
    <3>5. LET t == Consume(s, l) IN
            /\ t = [x \in Variables |-> t[x]]
            /\ t.files = [[s.files EXCEPT ![n].plus = @ + 1] EXCEPT ![n].added = Append(@, a)]
            /\ t.hunk = s.hunk /\ t.line = s.line + 1 /\ t.captured = s.captured + 1
      <4>1. a = [no |-> s.line, text |-> l.text]
        BY <1>4 DEF a
      <4>2. LET t == [s EXCEPT !.files[n].plus = @ + 1, !.line = @ + 1, !.captured = @ + 1,
                               !.files[n].added = Append(@, [no |-> s.line, text |-> l.text])] IN
              /\ t = [x \in Variables |-> t[x]]
              /\ t.files = [[s.files EXCEPT ![n].plus = @ + 1] EXCEPT ![n].added = Append(@, [no |-> s.line, text |-> l.text])]
              /\ t.hunk = s.hunk /\ t.line = s.line + 1 /\ t.captured = s.captured + 1
        <5> HIDE DEF n, d
        <5> QED BY <3>4 DEF Variables
      <4> HIDE DEF d, n
      <4> QED BY <1>6, <2>3, <4>1, <4>2
    <3> HIDE DEF d
    <3> QED BY <1>4, <3>1, <3>2, <3>3, <3>5 DEF State
  <2>5. Flatten(AddedOf(F)) \o d.added = Kept(Append(A, a))
    <3>1. Kept(Append(A, a)) = Append(Kept(A), a)
      BY <1>0, <1>4, <1>9, KeptFacts
    <3>2. Flatten(AddedOf(F)) \o Append(c.added, a) = Append(Flatten(AddedOf(F)) \o c.added, a)
      <4> DEFINE h == Flatten(AddedOf(F))
                 e == c.added
      <4>1. h \in Seq(Addition) /\ e \in Seq(Addition)
        BY <1>7, <1>8
      <4> HIDE DEF h, e, d
      <4>2. h \o Append(e, a) = Append(h \o e, a)
        BY <1>0, <4>1, AppendConcat
      <4> QED BY <4>2 DEF h, e
    <3> HIDE DEF d
    <3> QED BY <1>3, <2>2, <3>1, <3>2
  <2>6. Len(d.added) <= d.plus
    <3> HIDE DEF d
    <3> QED BY <1>3, <1>7, <2>1, <2>2
  <2> HIDE DEF d
  <2> QED BY <1>0, <1>1, <1>2, <1>3, <2>2, <2>4, <2>5, <2>6, FileExchanged DEF k
<1>10. CASE ~(s.captured < MaxCaptured)
  <2> DEFINE d == [c EXCEPT !.plus = @ + 1]
  <2>2. d \in Parts /\ d.added = c.added /\ d.plus = c.plus + 1 /\ View(d) = Recount(v, 1, 0)
    BY <1>1, <1>2, <1>7, PartRecounted
  <2>3. Body(s, l) = [s EXCEPT !.files[n].plus = @ + 1, !.line = @ + 1]
    BY <1>10 DEF Body, Adds
  <2>4. State(Consume(s, l), Append(F, d), "hunk", line + 1, Append(A, a))
    <3>1. [s.files EXCEPT ![n].plus = @ + 1] = [s.files EXCEPT ![n] = d]
      <4>1. s.files \in [1 .. n -> Parts] /\ n \in 1 .. n
        BY <1>1, <1>4, LastExchanged
      <4> QED BY <1>5, <4>1
    <3>2. [s.files EXCEPT ![n] = d] = Append(F, d)
      <4> HIDE DEF d
      <4> QED BY <1>1, <1>4, <2>2, LastExchanged
    <3>3. Kept(Append(A, a)) = Kept(A)
      BY <1>0, <1>4, <1>10, KeptFacts
    <3>4. s = [x \in Variables |-> s[x]]
      BY <1>2 DEF State
    <3>5. LET t == Consume(s, l) IN
            /\ t = [x \in Variables |-> t[x]]
            /\ t.files = [s.files EXCEPT ![n].plus = @ + 1]
            /\ t.hunk = s.hunk /\ t.line = s.line + 1 /\ t.captured = s.captured
      BY <1>4, <1>6, <2>3, <3>4 DEF Variables
    <3> HIDE DEF d
    <3> QED BY <1>4, <3>1, <3>2, <3>3, <3>5 DEF State
  <2>5. Flatten(AddedOf(F)) \o d.added = Kept(Append(A, a))
    <3>1. Kept(Append(A, a)) = Kept(A)
      BY <1>0, <1>4, <1>10, KeptFacts
    <3> HIDE DEF d
    <3> QED BY <1>3, <2>2, <3>1
  <2>6. Len(d.added) <= d.plus
    <3>1. Len(c.added) \in Nat
      BY <1>7, LenProperties
    <3> HIDE DEF d
    <3> QED BY <1>3, <1>7, <2>2, <3>1
  <2> HIDE DEF d
  <2> QED BY <1>0, <1>1, <1>2, <1>3, <2>2, <2>4, <2>5, <2>6, FileExchanged DEF k
<1> QED BY <1>9, <1>10

LEMMA RemovedLine ==
  ASSUME NEW V \in Seq(Views), NEW v \in Views, NEW A \in Seq(Addition), NEW line \in Nat,
         NEW l, Removes(l)
  PROVE  Leads(Known(Append(V, v), A, "hunk", line), <<l>>, Known(Append(V, Recount(v, 0, 1)), A, "hunk", line))
<1> SUFFICES ASSUME NEW s, Parsed(s, Known(Append(V, v), A, "hunk", line))
             PROVE  Parsed(Consume(s, l), Known(Append(V, Recount(v, 0, 1)), A, "hunk", line))
  BY LeadsOne
<1>1. PICK F \in Seq(Parts), c \in Parts : AtHand(s, F, c, V, v, A, "hunk", line)
  BY FileAtHand
<1>2. State(s, Append(F, c), "hunk", line, A) /\ V = ViewsOf(F) /\ v = View(c)
  BY <1>1 DEF AtHand
<1>3. /\ Flatten(AddedOf(F)) \o c.added = Kept(A)
      /\ \A i \in DOMAIN F : Len(F[i].added) <= F[i].plus
      /\ Len(c.added) <= c.plus
  BY <1>1 DEF AtHand
<1> DEFINE n == Len(s.files)
           d == [c EXCEPT !.minus = @ + 1]
<1>4. s.files = Append(F, c) /\ s.hunk /\ s.line = line /\ s.captured = Len(Kept(A))
  BY <1>2 DEF State
<1>5. n \in Nat /\ n # 0 /\ s.files[n] = c
  BY <1>1, <1>4, LastExchanged
<1>6. Consume(s, l) = Body(s, l)
  BY <1>4, <1>5 DEF Consume, Removes
<1>7. d \in Parts /\ d.added = c.added /\ d.plus = c.plus /\ View(d) = Recount(v, 0, 1)
  <2>1. c.added \in Seq(Addition)
    BY <1>1 DEF Parts
  <2> QED BY <1>1, <1>2, <2>1, PartRecounted
<1>8. Body(s, l) = [s EXCEPT !.files[n].minus = @ + 1]
  BY DEF Body, Removes
<1>9. State(Consume(s, l), Append(F, d), "hunk", line, A)
  <2>1. [s.files EXCEPT ![n].minus = @ + 1] = [s.files EXCEPT ![n] = d]
    <3>1. s.files \in [1 .. n -> Parts] /\ n \in 1 .. n
      BY <1>1, <1>4, LastExchanged
    <3> QED BY <1>5, <3>1
  <2>2. [s.files EXCEPT ![n] = d] = Append(F, d)
    <3> HIDE DEF d
    <3> QED BY <1>1, <1>4, <1>7, LastExchanged
  <2>3. s = [x \in Variables |-> s[x]]
    BY <1>2 DEF State
  <2>4. LET t == Consume(s, l) IN
          /\ t = [x \in Variables |-> t[x]]
          /\ t.files = [s.files EXCEPT ![n].minus = @ + 1]
          /\ t.hunk = s.hunk /\ t.line = s.line /\ t.captured = s.captured
    BY <1>4, <1>6, <1>8, <2>3 DEF Variables
  <2> HIDE DEF d
  <2> QED BY <1>4, <2>1, <2>2, <2>4 DEF State
<1> HIDE DEF d
<1> QED BY <1>1, <1>2, <1>3, <1>7, <1>9, FileExchanged

LEMMA KeptLine ==
  ASSUME NEW V \in Seq(Views), NEW v \in Views, NEW A \in Seq(Addition), NEW line \in Nat,
         NEW l, Keeps(l)
  PROVE  Leads(Known(Append(V, v), A, "hunk", line), <<l>>, Known(Append(V, v), A, "hunk", line + 1))
<1> SUFFICES ASSUME NEW s, Parsed(s, Known(Append(V, v), A, "hunk", line))
             PROVE  Parsed(Consume(s, l), Known(Append(V, v), A, "hunk", line + 1))
  BY LeadsOne
<1>1. PICK F \in Seq(Parts), c \in Parts : State(s, Append(F, c), "hunk", line, A)
  BY FileAtHand DEF AtHand
<1>2. s.files = Append(F, c) /\ s.hunk
  BY <1>1 DEF State
<1>3. Len(s.files) \in Nat /\ Len(s.files) # 0
  BY <1>1, <1>2, LastExchanged
<1>4. Consume(s, l) = Body(s, l)
  BY <1>2, <1>3 DEF Consume, Keeps
<1>5. Body(s, l) = [s EXCEPT !.line = @ + 1]
  BY DEF Body, Keeps
<1>6. \A files : State(s, files, "hunk", line, A) => State(Consume(s, l), files, "hunk", line + 1, A)
  BY <1>4, <1>5 DEF State, Variables
<1> QED BY <1>6 DEF Parsed, Known

LEMMA RemarkLine ==
  ASSUME NEW V \in Seq(Views), NEW v \in Views, NEW A \in Seq(Addition), NEW line \in Nat,
         NEW l, Remarks(l)
  PROVE  Leads(Known(Append(V, v), A, "hunk", line), <<l>>, Known(Append(V, v), A, "hunk", line))
<1> SUFFICES ASSUME NEW s, Parsed(s, Known(Append(V, v), A, "hunk", line))
             PROVE  Parsed(Consume(s, l), Known(Append(V, v), A, "hunk", line))
  BY LeadsOne
<1>1. PICK F \in Seq(Parts), c \in Parts : State(s, Append(F, c), "hunk", line, A)
  BY FileAtHand DEF AtHand
<1>2. s.files = Append(F, c) /\ s.hunk
  BY <1>1 DEF State
<1>3. Len(s.files) \in Nat /\ Len(s.files) # 0
  BY <1>1, <1>2, LastExchanged
<1>4. Consume(s, l) = Body(s, l)
  BY <1>2, <1>3 DEF Consume, Remarks
<1>5. Body(s, l) = s
  BY DEF Body, Remarks
<1> QED BY <1>4, <1>5

-----------------------------------------------------------------------------
(***************************************************************************)
(* What the lines of a hunk are about                                      *)
(***************************************************************************)
Operation == {"add", "del", "kept", "remark"}

(* The lines of hunks without other line breaks.                           *)
Marked == {b \in Edits : b.more = <<>>}

LEMMA MarkedText == \A b \in Marked : b.text \in Texts /\ b.op \in Operation /\ b \in Edits /\ b.more = <<>>
BY DEF Marked, Edits, Operation

LEMMA OpsType ==
  ASSUME NEW body \in Seq(Marked), NEW op
  PROVE  Ops(<<>>, op) = 0 /\ Ops(body, op) \in Nat
<1> DEFINE S == {k \in 1 .. Len(body) : body[k].op = op}
<1>1. Ops(body, op) = Cardinality(S) /\ Len(body) \in Nat
  BY LenProperties DEF Ops
<1>2. Cardinality(S) \in Nat
  <2>1. IsFiniteSet(1 .. Len(body)) /\ S \subseteq 1 .. Len(body)
    BY <1>1, FS_Interval
  <2> HIDE DEF S
  <2> QED BY <2>1, FS_Subset, FS_CardinalityType
<1>3. Ops(<<>>, op) = 0
  <2>1. {k \in DOMAIN <<>> : <<>>[k].op = op} = {}
    BY EmptySeq
  <2> QED BY <2>1, FS_EmptySet DEF Ops
<1> QED BY <1>1, <1>2, <1>3

LEMMA OpsAppend ==
  ASSUME NEW body \in Seq(Marked), NEW b \in Marked, NEW op
  PROVE  /\ Ops(Append(body, b), op) = IF b.op = op THEN Ops(body, op) + 1 ELSE Ops(body, op)
<1> DEFINE n == Len(body)
           S == {k \in 1 .. n : body[k].op = op}
           T == {k \in 1 .. n + 1 : Append(body, b)[k].op = op}
<1>1. /\ Append(body, b) \in Seq(Marked) /\ Len(Append(body, b)) = n + 1 /\ n \in Nat
      /\ \A k \in 1 .. n : Append(body, b)[k] = body[k]
      /\ Append(body, b)[n + 1] = b
  BY AppendProperties, LenProperties
<1>2. Ops(body, op) = Cardinality(S) /\ Ops(Append(body, b), op) = Cardinality(T)
  BY <1>1, LenProperties DEF Ops
<1>3. IsFiniteSet(S) /\ Cardinality(S) \in Nat
  <2>1. IsFiniteSet(1 .. n) /\ S \subseteq 1 .. n
    BY <1>1, FS_Interval
  <2> HIDE DEF S
  <2> QED BY <2>1, FS_Subset, FS_CardinalityType
<1>4. T = IF b.op = op THEN S \cup {n + 1} ELSE S
  <2>1. 1 .. n + 1 = (1 .. n) \cup {n + 1}
    BY <1>1
  <2> QED BY <1>1, <2>1
<1>5. n + 1 \notin S
  BY <1>1
<1> HIDE DEF S, T
<1> QED BY <1>2, <1>3, <1>4, <1>5, FS_AddElement

LEMMA OpsConcat ==
  ASSUME NEW s \in Seq(Marked), NEW t \in Seq(Marked), NEW op
  PROVE  Ops(s \o t, op) = Ops(s, op) + Ops(t, op)
<1> DEFINE Z == {u \in Seq(Marked) : Ops(s \o u, op) = Ops(s, op) + Ops(u, op)}
<1>1. Ops(s, op) \in Nat /\ Ops(<<>>, op) = 0
  BY OpsType
<1>2. <<>> \in Z
  <2>1. <<>> \in Seq(Marked) /\ s \o <<>> = s
    BY EmptySeq, ConcatEmptySeq
  <2> QED BY <1>1, <2>1
<1>3. ASSUME NEW u \in Seq(Marked), NEW b \in Marked, u \in Z PROVE Append(u, b) \in Z
  <2>1. Append(u, b) \in Seq(Marked) /\ s \o u \in Seq(Marked) /\ s \o Append(u, b) = Append(s \o u, b)
    BY AppendProperties, ConcatProperties, AppendConcat
  <2>2. /\ Ops(Append(s \o u, b), op) = IF b.op = op THEN Ops(s \o u, op) + 1 ELSE Ops(s \o u, op)
        /\ Ops(Append(u, b), op) = IF b.op = op THEN Ops(u, op) + 1 ELSE Ops(u, op)
        /\ Ops(u, op) \in Nat
    BY <2>1, OpsAppend, OpsType
  <2>3. Ops(s \o u, op) = Ops(s, op) + Ops(u, op)
    BY <1>3
  <2>4. Ops(s \o Append(u, b), op) = Ops(s, op) + Ops(Append(u, b), op)
    <3>1. CASE b.op = op
      BY <1>1, <2>1, <2>2, <2>3, <3>1
    <3>2. CASE b.op # op
      BY <1>1, <2>1, <2>2, <2>3, <3>2
    <3> QED BY <3>1, <3>2
  <2> QED BY <2>1, <2>4
<1> HIDE DEF Z
<1>4. Seq(Marked) \subseteq Z
  BY <1>2, <1>3, AppendInduction
<1> QED BY <1>4 DEF Z

(* How far a hunk takes the line of the new file.                          *)
Advance(body) == Cardinality({j \in 1 .. Len(body) : body[j].op \in {"add", "kept"}})

LEMMA AdvanceType == \A body \in Seq(Marked) : Advance(body) \in Nat
<1> TAKE body \in Seq(Marked)
<1> DEFINE S == {k \in 1 .. Len(body) : body[k].op \in {"add", "kept"}}
<1>1. IsFiniteSet(1 .. Len(body)) /\ S \subseteq 1 .. Len(body)
  BY LenProperties, FS_Interval
<1>2. Advance(body) = Cardinality(S)
  BY DEF Advance
<1> HIDE DEF S
<1> QED BY <1>1, <1>2, FS_Subset, FS_CardinalityType

LEMMA AdvanceAppend ==
  ASSUME NEW body \in Seq(Marked), NEW b \in Marked
  PROVE  /\ Advance(Append(body, b)) = IF b.op \in {"add", "kept"} THEN Advance(body) + 1 ELSE Advance(body)
<1> DEFINE n == Len(body)
           S == {k \in 1 .. n : body[k].op \in {"add", "kept"}}
           T == {k \in 1 .. n + 1 : Append(body, b)[k].op \in {"add", "kept"}}
<1>1. /\ Len(Append(body, b)) = n + 1 /\ n \in Nat
      /\ \A k \in 1 .. n : Append(body, b)[k] = body[k]
      /\ Append(body, b)[n + 1] = b
  BY AppendProperties, LenProperties
<1>2. Advance(body) = Cardinality(S) /\ Advance(Append(body, b)) = Cardinality(T)
  BY <1>1 DEF Advance
<1>3. IsFiniteSet(S) /\ Cardinality(S) \in Nat
  <2>1. IsFiniteSet(1 .. n) /\ S \subseteq 1 .. n
    BY <1>1, FS_Interval
  <2> HIDE DEF S
  <2> QED BY <2>1, FS_Subset, FS_CardinalityType
<1>4. T = IF b.op \in {"add", "kept"} THEN S \cup {n + 1} ELSE S
  <2>1. 1 .. n + 1 = (1 .. n) \cup {n + 1}
    BY <1>1
  <2> QED BY <1>1, <2>1
<1>5. n + 1 \notin S
  BY <1>1
<1> HIDE DEF S, T
<1> QED BY <1>2, <1>3, <1>4, <1>5, FS_AddElement

(* The added line of an edit, at a line of the new file.                   *)
AdditionOf(b, line) == IF b.op = "add" THEN <<[no |-> line, text |-> b.text]>> ELSE <<>>

EachAdded(no, s) ==
  [k \in DOMAIN s |->
     IF s[k].op = "add"
       THEN <<[no |-> no + Cardinality({j \in 1 .. k - 1 : s[j].op \in {"add", "kept"}}), text |-> s[k].text]>>
       ELSE <<>>]

LEMMA EachType ==
  ASSUME NEW no \in Nat, NEW s \in Seq(Marked)
  PROVE  /\ EachAdded(no, s) \in Seq(Seq(Addition)) /\ Len(EachAdded(no, s)) = Len(s)
         /\ Additions(no, s) = Flatten(EachAdded(no, s)) /\ Additions(no, s) \in Seq(Addition)
<1>1. ASSUME NEW k \in DOMAIN s PROVE EachAdded(no, s)[k] \in Seq(Addition)
  <2>1. k \in Nat /\ s[k].text \in Texts
    <3>1. k \in Nat /\ s[k] \in Marked
      BY LenProperties
    <3> QED BY <3>1, MarkedText
  <2>2. Cardinality({j \in 1 .. k - 1 : s[j].op \in {"add", "kept"}}) \in Nat
    <3>1. IsFiniteSet(1 .. k - 1)
      BY <2>1, FS_Interval
    <3>2. IsFiniteSet({j \in 1 .. k - 1 : s[j].op \in {"add", "kept"}})
      BY <3>1, FS_Subset
    <3> QED BY <3>2, FS_CardinalityType
  <2>3. [no |-> no + Cardinality({j \in 1 .. k - 1 : s[j].op \in {"add", "kept"}}), text |-> s[k].text] \in Addition
    BY <2>1, <2>2 DEF Addition
  <2>4. \A a \in Addition : <<a>> \in Seq(Addition)
    OBVIOUS
  <2> QED BY <2>3, <2>4, EmptySeq DEF EachAdded
<1>2. EachAdded(no, s) \in Seq(Seq(Addition)) /\ Len(EachAdded(no, s)) = Len(s)
  <2>1. DOMAIN s = 1 .. Len(s) /\ Len(s) \in Nat
    BY LenProperties
  <2> QED BY <1>1, <2>1, IsASeq DEF EachAdded
<1>3. Additions(no, s) = Flatten(EachAdded(no, s))
  BY DEF Additions, EachAdded
<1> QED BY <1>2, <1>3, FlattenType

LEMMA AdditionsAppend ==
  ASSUME NEW no \in Nat, NEW body \in Seq(Marked), NEW b \in Marked
  PROVE  /\ Additions(no, body) \in Seq(Addition)
         /\ Additions(no, Append(body, b)) = Additions(no, body) \o AdditionOf(b, no + Advance(body))
<1> DEFINE n == Len(body)
           more == Append(body, b)
           each(s) == [k \in DOMAIN s |->
                        IF s[k].op = "add"
                          THEN <<[no |-> no + Cardinality({j \in 1 .. k - 1 : s[j].op \in {"add", "kept"}}), text |-> s[k].text]>>
                          ELSE <<>>]
           last == AdditionOf(b, no + Advance(body))
<1>1. /\ more \in Seq(Marked) /\ Len(more) = n + 1 /\ n \in Nat
      /\ \A k \in 1 .. n : more[k] = body[k]
      /\ more[n + 1] = b
  BY AppendProperties, LenProperties
<1> HIDE DEF more
<1>3. ASSUME NEW s \in Seq(Marked) PROVE each(s) \in Seq(Seq(Addition)) /\ Len(each(s)) = Len(s)
  BY EachType DEF EachAdded
<1>4. each(more) = Append(each(body), last)
  <2>1. last \in Seq(Addition)
    <3>1. no + Advance(body) \in Nat /\ b.text \in Texts
      BY AdvanceType, MarkedText
    <3>2. [no |-> no + Advance(body), text |-> b.text] \in Addition
      BY <3>1 DEF Addition
    <3> QED BY <3>2, EmptySeq DEF AdditionOf
  <2>2. each(more) \in Seq(Seq(Addition)) /\ Len(each(more)) = n + 1
    BY <1>1, <1>3
  <2>3. each(body) \in Seq(Seq(Addition)) /\ Len(each(body)) = n
    BY <1>3
  <2>4. ASSUME NEW k \in 1 .. n PROVE each(more)[k] = each(body)[k]
    <3>1. k \in DOMAIN more /\ k \in DOMAIN body /\ more[k] = body[k]
      BY <1>1, LenProperties
    <3>2. {j \in 1 .. k - 1 : more[j].op \in {"add", "kept"}} = {j \in 1 .. k - 1 : body[j].op \in {"add", "kept"}}
      <4>1. \A j \in 1 .. k - 1 : j \in 1 .. n
        BY <1>1
      <4> QED BY <1>1, <4>1
    <3> QED BY <3>1, <3>2
  <2>5. each(more)[n + 1] = last
    <3>1. n + 1 \in DOMAIN more /\ more[n + 1] = b /\ (n + 1) - 1 = n
      BY <1>1, LenProperties
    <3>2. {j \in 1 .. (n + 1) - 1 : more[j].op \in {"add", "kept"}} = {j \in 1 .. n : body[j].op \in {"add", "kept"}}
      BY <1>1, <3>1
    <3> QED BY <3>1, <3>2 DEF Advance, AdditionOf
  <2> HIDE DEF each, last
  <2>6. /\ Append(each(body), last) \in Seq(Seq(Addition)) /\ Len(Append(each(body), last)) = n + 1
        /\ \A k \in 1 .. n : Append(each(body), last)[k] = each(body)[k]
        /\ Append(each(body), last)[n + 1] = last
    BY <2>1, <2>3, AppendProperties
  <2>7. \A k \in 1 .. n + 1 : each(more)[k] = Append(each(body), last)[k]
    <3>1. \A k \in 1 .. n + 1 : k \in 1 .. n \/ k = n + 1
      BY <1>1
    <3> QED BY <2>4, <2>5, <2>6, <3>1
  <2> QED BY <2>2, <2>6, <2>7, SeqEqual
<1>5. Additions(no, body) = Flatten(each(body)) /\ Additions(no, more) = Flatten(each(more))
  BY DEF Additions
<1>6. last \in Seq(Addition)
  <2>1. no + Advance(body) \in Nat /\ b.text \in Texts
    BY AdvanceType, MarkedText
  <2>2. [no |-> no + Advance(body), text |-> b.text] \in Addition
    BY <2>1 DEF Addition
  <2> QED BY <2>2, EmptySeq DEF AdditionOf
<1>7. each(body) \in Seq(Seq(Addition))
  BY <1>3
<1> HIDE DEF each, last
<1>8. Flatten(each(more)) = Flatten(each(body)) \o last
  BY <1>4, <1>6, <1>7, FlattenAppend
<1>9. Flatten(each(body)) \in Seq(Addition)
  BY <1>7, FlattenType
<1> QED BY <1>5, <1>8, <1>9 DEF more, last

-----------------------------------------------------------------------------
(***************************************************************************)
(* What git writes                                                         *)
(***************************************************************************)
LEMMA LineType ==
  ASSUME NEW head \in Heads, NEW path \in DiffPath, NEW no \in Nat, NEW text \in Texts
  PROVE  LET l == Line(head, path, no, text) IN
           l \in Lines /\ l.head = head /\ l.path = path /\ l.no = no /\ l.text = text
BY DEF Line, Lines

LEMMA OneLine == \A l \in Lines : <<l>> \in Seq(Lines)
OBVIOUS

(* A line of a hunk.                                                       *)
LEMMA BodyLine ==
  ASSUME NEW b \in Edits
  PROVE  /\ GitBody(b) \in Lines
         /\ b.op = "add" => Adds(GitBody(b)) /\ GitBody(b).text = b.text
         /\ b.op = "del" => Removes(GitBody(b))
         /\ b.op = "kept" => Keeps(GitBody(b))
         /\ b.op = "remark" => Remarks(GitBody(b))
         /\ b.op = "add" \/ b.op = "del" \/ b.op = "kept" \/ b.op = "remark"
<1>1. b.text \in Texts /\ (b.op = "add" \/ b.op = "del" \/ b.op = "kept" \/ b.op = "remark")
  BY DEF Edits
<1>2. CASE b.op = "add"
  <2>1. PICK head \in {"+", "+++"} : GitBody(b) = Line(head, NoPath, 0, b.text)
    BY <1>2, Zenon DEF GitBody
  <2>2. head \in Heads
    BY <2>1 DEF Heads
  <2>3. GitBody(b) \in Lines /\ GitBody(b).head = head /\ GitBody(b).text = b.text
    BY <1>1, <2>1, <2>2, LineType, PathsRead
  <2>4. Adds(GitBody(b))
    BY <1>1, <2>1, <2>3 DEF Adds
  <2> QED BY <1>2, <2>3, <2>4
<1>3. CASE b.op = "del"
  <2>1. PICK head \in {"-", "---"} : GitBody(b) = Line(head, NoPath, 0, b.text)
    BY <1>3, Zenon DEF GitBody
  <2>2. head \in Heads
    BY <2>1 DEF Heads
  <2>3. GitBody(b) \in Lines /\ GitBody(b).head = head
    BY <1>1, <2>1, <2>2, LineType, PathsRead
  <2>4. Removes(GitBody(b))
    BY <2>1, <2>3 DEF Removes
  <2> QED BY <1>3, <2>3, <2>4
<1>4. CASE b.op = "kept"
  <2>1. GitBody(b) = Line(" ", NoPath, 0, b.text)
    BY <1>4, Zenon DEF GitBody
  <2>2. " " \in Heads
    BY DEF Heads
  <2>3. GitBody(b) \in Lines /\ GitBody(b).head = " "
    <3> DEFINE head == " "
    <3>1. head \in Heads /\ GitBody(b) = Line(head, NoPath, 0, b.text)
      BY <2>1, <2>2, Zenon
    <3> HIDE DEF head
    <3>2. GitBody(b) \in Lines /\ GitBody(b).head = head
      BY <1>1, <3>1, LineType, PathsRead
    <3> QED BY <3>2, Zenon DEF head
  <2>4. Keeps(GitBody(b))
    BY <2>3 DEF Keeps
  <2> QED BY <1>4, <2>3, <2>4
<1>5. CASE b.op = "remark"
  <2> DEFINE head == "\\"
  <2>1. GitBody(b) = Line(head, NoPath, 0, b.text)
    BY <1>5, Zenon DEF GitBody
  <2>2. head \in Heads
    BY DEF Heads
  <2> HIDE DEF head
  <2>3. GitBody(b) \in Lines /\ GitBody(b).head = head
    BY <1>1, <2>1, <2>2, LineType, PathsRead
  <2>4. Remarks(GitBody(b))
    BY <2>3, Zenon DEF Remarks, head
  <2> QED BY <1>5, <2>3, <2>4
<1> QED BY <1>1, <1>2, <1>3, <1>4, <1>5

LEMMA EditLines ==
  ASSUME NEW b \in Edits
  PROVE  Split(GitBody(b), b.more) \in Seq(Lines)
<1>1. b.more \in Seq(Lines) /\ <<GitBody(b)>> \in Seq(Lines)
  BY BodyLine, OneLine DEF Edits
<1> QED BY <1>1, ConcatProperties DEF Split


LEMMA RecountAgain ==
  ASSUME NEW v \in Views
  PROVE  /\ Recount(v, 0, 0) = v
         /\ \A a, b, c, d \in Nat : Recount(Recount(v, a, b), c, d) = Recount(v, a + c, b + d)
<1>1. v.plus \in Nat /\ v.minus \in Nat
  BY DEF Views
<1>2. Recount(v, 0, 0) = v
  BY <1>1 DEF Recount, Views
<1>3. ASSUME NEW a \in Nat, NEW b \in Nat, NEW c \in Nat, NEW d \in Nat
      PROVE  Recount(Recount(v, a, b), c, d) = Recount(v, a + c, b + d)
  <2>1. (v.plus + a) + c = v.plus + (a + c) /\ (v.minus + b) + d = v.minus + (b + d)
    BY <1>1
  <2> QED BY <2>1 DEF Recount
<1> QED BY <1>2, <1>3

One(P) == IF P THEN 1 ELSE 0

LEMMA MarkedRead ==
  ASSUME NEW V \in Seq(Views), NEW v \in Views, NEW A \in Seq(Addition), NEW line \in Nat, NEW b \in Marked
  PROVE  Leads(Known(Append(V, v), A, "hunk", line), <<GitBody(b)>>,
               Known(Append(V, Recount(v, One(b.op = "add"), One(b.op = "del"))), A \o AdditionOf(b, line), "hunk",
                     line + One(b.op \in {"add", "kept"})))
<1> DEFINE l == GitBody(b)
<1>1. \/ b.op = "add" /\ Adds(l) /\ l.text = b.text
      \/ b.op = "del" /\ Removes(l)
      \/ b.op = "kept" /\ Keeps(l)
      \/ b.op = "remark" /\ Remarks(l)
  BY MarkedText, BodyLine
<1>2. b.text \in Texts /\ A \o <<>> = A
  BY MarkedText, ConcatEmptySeq
<1> HIDE DEF l
<1>3. CASE b.op = "add" /\ Adds(l) /\ l.text = b.text
  <2> DEFINE a == [no |-> line, text |-> l.text]
  <2>1. Leads(Known(Append(V, v), A, "hunk", line), <<l>>,
              Known(Append(V, Recount(v, 1, 0)), Append(A, a), "hunk", line + 1))
    BY <1>3, AddedLine
  <2>2. AdditionOf(b, line) = <<a>>
    BY <1>3 DEF AdditionOf
  <2>3. Append(A, a) = A \o <<a>>
    <3>1. a \in Addition
      BY <1>2, <1>3 DEF Addition
    <3> HIDE DEF a
    <3> QED BY <3>1, AppendIsConcat
  <2>4. One(b.op = "add") = 1 /\ One(b.op = "del") = 0 /\ One(b.op \in {"add", "kept"}) = 1
    BY <1>3 DEF One
  <2> HIDE DEF a
  <2> QED BY <2>1, <2>2, <2>3, <2>4 DEF l
<1>4. CASE b.op = "del" /\ Removes(l)
  <2>1. Leads(Known(Append(V, v), A, "hunk", line), <<l>>, Known(Append(V, Recount(v, 0, 1)), A, "hunk", line))
    BY <1>4, RemovedLine
  <2>2. AdditionOf(b, line) = <<>> /\ line + 0 = line
    BY <1>4 DEF AdditionOf
  <2>3. One(b.op = "add") = 0 /\ One(b.op = "del") = 1 /\ One(b.op \in {"add", "kept"}) = 0
    BY <1>4 DEF One
  <2> QED BY <1>2, <2>1, <2>2, <2>3 DEF l
<1>5. CASE b.op = "kept" /\ Keeps(l)
  <2>1. Leads(Known(Append(V, v), A, "hunk", line), <<l>>, Known(Append(V, v), A, "hunk", line + 1))
    BY <1>5, KeptLine
  <2>2. AdditionOf(b, line) = <<>>
    BY <1>5 DEF AdditionOf
  <2>3. One(b.op = "add") = 0 /\ One(b.op = "del") = 0 /\ One(b.op \in {"add", "kept"}) = 1
    BY <1>5 DEF One
  <2>4. Recount(v, 0, 0) = v
    BY RecountAgain
  <2> QED BY <1>2, <2>1, <2>2, <2>3, <2>4 DEF l
<1>6. CASE b.op = "remark" /\ Remarks(l)
  <2>1. Leads(Known(Append(V, v), A, "hunk", line), <<l>>, Known(Append(V, v), A, "hunk", line))
    BY <1>6, RemarkLine
  <2>2. AdditionOf(b, line) = <<>> /\ line + 0 = line
    BY <1>6 DEF AdditionOf
  <2>3. One(b.op = "add") = 0 /\ One(b.op = "del") = 0 /\ One(b.op \in {"add", "kept"}) = 0
    BY <1>6 DEF One
  <2>4. Recount(v, 0, 0) = v
    BY RecountAgain
  <2> QED BY <1>2, <2>1, <2>2, <2>3, <2>4 DEF l
<1> QED BY <1>1, <1>3, <1>4, <1>5, <1>6

EachWritten(body) == [k \in DOMAIN body |-> Split(GitBody(body[k]), body[k].more)]
Written(body) == Flatten(EachWritten(body))

LEMMA WrittenType ==
  ASSUME NEW body \in Seq(Edits)
  PROVE  EachWritten(body) \in Seq(Seq(Lines)) /\ Written(body) \in Seq(Lines)
<1>1. DOMAIN body = 1 .. Len(body) /\ Len(body) \in Nat /\ \A k \in 1 .. Len(body) : body[k] \in Edits
  BY LenProperties
<1>2. EachWritten(body) \in Seq(Seq(Lines))
  BY <1>1, EditLines, IsASeq DEF EachWritten
<1> QED BY <1>2, FlattenType DEF Written

LEMMA WrittenAppend ==
  ASSUME NEW body \in Seq(Marked), NEW b \in Marked
  PROVE  Written(body) \in Seq(Lines) /\ Written(Append(body, b)) = Written(body) \o <<GitBody(b)>>
<1> DEFINE Y == Seq(Lines)
           g == [e \in Marked |-> Split(GitBody(e), e.more)]
<1>1. g \in [Marked -> Y]
  BY MarkedText, EditLines
<1>2. ASSUME NEW s \in Seq(Marked) PROVE [i \in DOMAIN s |-> g[s[i]]] = EachWritten(s)
  <2>1. \A i \in DOMAIN s : s[i] \in Marked
    BY LenProperties
  <2> QED BY <2>1 DEF EachWritten
<1>3. g[b] = <<GitBody(b)>> /\ <<GitBody(b)>> \in Y
  <2>1. b.more = <<>> /\ GitBody(b) \in Lines
    BY MarkedText, BodyLine
  <2>2. <<GitBody(b)>> \in Seq(Lines)
    BY <2>1, OneLine
  <2> QED BY <2>1, <2>2, ConcatEmptySeq DEF Split
<1>4. Append(body, b) \in Seq(Marked)
  BY AppendProperties
<1> HIDE DEF g, Y
<1>5. EachWritten(body) \in Seq(Y) /\ EachWritten(Append(body, b)) = Append(EachWritten(body), <<GitBody(b)>>)
  <2>1. /\ [i \in DOMAIN body |-> g[body[i]]] \in Seq(Y)
        /\ [i \in DOMAIN Append(body, b) |-> g[Append(body, b)[i]]]
             = Append([i \in DOMAIN body |-> g[body[i]]], g[b])
    BY <1>1, MapAppend
  <2> QED BY <1>2, <1>3, <1>4, <2>1
<1> QED BY <1>3, <1>5, FlattenType, FlattenAppend DEF Written, Y

(* The lines of a hunk count its edits and number its additions.           *)
BodyKnown(V, v, A, no, body) ==
  Known(Append(V, Recount(v, Ops(body, "add"), Ops(body, "del"))), A \o Additions(no, body), "hunk", no + Advance(body))

LEMMA BodyRead ==
  ASSUME NEW V \in Seq(Views), NEW v \in Views, NEW A \in Seq(Addition), NEW no \in Nat, NEW body \in Seq(Marked)
  PROVE  Leads(Known(Append(V, v), A, "hunk", no), Written(body), BodyKnown(V, v, A, no, body))
<1> DEFINE g == Known(Append(V, v), A, "hunk", no)
           Z == {s \in Seq(Marked) : Leads(g, Written(s), BodyKnown(V, v, A, no, s))}
<1>1. <<>> \in Z
  <2>1. <<>> \in Seq(Marked) /\ Written(<<>>) = <<>>
    <3>1. EachWritten(<<>>) = <<>> /\ <<>> \in Seq(Marked)
      BY EmptySeq DEF EachWritten
    <3> QED BY <3>1, FlattenEmpty DEF Written
  <2>2. Ops(<<>>, "add") = 0 /\ Ops(<<>>, "del") = 0
    BY <2>1, OpsType
  <2>3. Additions(no, <<>>) = <<>>
    <3>1. Additions(no, <<>>) = Flatten(EachAdded(no, <<>>)) /\ Len(EachAdded(no, <<>>)) = 0
          /\ EachAdded(no, <<>>) \in Seq(Seq(Addition))
      BY <2>1, EachType, EmptySeq
    <3>2. EachAdded(no, <<>>) = <<>>
      BY <3>1, EmptySeq
    <3> QED BY <3>1, <3>2, FlattenEmpty
  <2>4. no + Advance(<<>>) = no
    <3>1. {j \in 1 .. Len(<<>>) : <<>>[j].op \in {"add", "kept"}} = {}
      BY EmptySeq
    <3> QED BY <3>1, FS_EmptySet DEF Advance
  <2>5. BodyKnown(V, v, A, no, <<>>) = g
    BY <2>2, <2>3, <2>4, RecountAgain, ConcatEmptySeq DEF BodyKnown
  <2> HIDE DEF g
  <2> QED BY <2>1, <2>5, LeadsNothing
<1>2. ASSUME NEW s \in Seq(Marked), NEW b \in Marked, s \in Z PROVE Append(s, b) \in Z
  <2> DEFINE w == Recount(v, Ops(s, "add"), Ops(s, "del"))
             B == A \o Additions(no, s)
             at1 == no + Advance(s)
             h == BodyKnown(V, v, A, no, s)
  <2>1. /\ Append(s, b) \in Seq(Marked) /\ Written(s) \in Seq(Lines)
        /\ Written(Append(s, b)) = Written(s) \o <<GitBody(b)>> /\ <<GitBody(b)>> \in Seq(Lines)
    BY AppendProperties, WrittenAppend, MarkedText, BodyLine, OneLine
  <2>2. Ops(s, "add") \in Nat /\ Ops(s, "del") \in Nat /\ Advance(s) \in Nat /\ Additions(no, s) \in Seq(Addition)
    BY OpsType, AdvanceType, AdditionsAppend
  <2>3. w \in Views /\ B \in Seq(Addition) /\ at1 \in Nat /\ h = Known(Append(V, w), B, "hunk", at1)
    <3>1. w \in Views
      BY <2>2, RecountType
    <3>2. B \in Seq(Addition)
      BY <2>2, ConcatProperties
    <3>3. at1 \in Nat
      BY <2>2
    <3> QED BY <3>1, <3>2, <3>3 DEF BodyKnown
  <2>4. Leads(g, Written(s), h)
    BY <1>2
  <2> HIDE DEF w, B, at1, h, g, Z
  <2>5. Leads(h, <<GitBody(b)>>,
              Known(Append(V, Recount(w, One(b.op = "add"), One(b.op = "del"))), B \o AdditionOf(b, at1), "hunk",
                    at1 + One(b.op \in {"add", "kept"})))
    BY <2>3, MarkedRead
  <2>6. Recount(w, One(b.op = "add"), One(b.op = "del")) = Recount(v, Ops(Append(s, b), "add"), Ops(Append(s, b), "del"))
    <3>1. /\ Ops(Append(s, b), "add") = Ops(s, "add") + One(b.op = "add")
          /\ Ops(Append(s, b), "del") = Ops(s, "del") + One(b.op = "del")
      BY <2>2, OpsAppend DEF One
    <3>2. One(b.op = "add") \in Nat /\ One(b.op = "del") \in Nat
      BY DEF One
    <3>3. \A x, y \in Nat : Recount(w, x, y) = Recount(v, Ops(s, "add") + x, Ops(s, "del") + y)
      <4> DEFINE a == Ops(s, "add")
                 d == Ops(s, "del")
      <4>1. a \in Nat /\ d \in Nat /\ w = Recount(v, a, d)
        BY <2>2 DEF w
      <4> HIDE DEF a, d
      <4>2. \A x, y \in Nat : Recount(w, x, y) = Recount(v, a + x, d + y)
        BY <4>1, RecountAgain
      <4> QED BY <4>2 DEF a, d
    <3>4. Recount(w, One(b.op = "add"), One(b.op = "del"))
            = Recount(v, Ops(s, "add") + One(b.op = "add"), Ops(s, "del") + One(b.op = "del"))
      BY <3>2, <3>3
    <3> QED BY <3>1, <3>4
  <2>7. B \o AdditionOf(b, at1) = A \o Additions(no, Append(s, b))
    <3>1. AdditionOf(b, at1) \in Seq(Addition)
      <4>1. b.text \in Texts
        BY MarkedText
      <4>2. [no |-> at1, text |-> b.text] \in Addition
        BY <2>3, <4>1 DEF Addition
      <4> QED BY <4>2, EmptySeq DEF AdditionOf
    <3>2. Additions(no, Append(s, b)) = Additions(no, s) \o AdditionOf(b, at1)
      BY AdditionsAppend DEF at1
    <3> DEFINE q == Additions(no, s)
               r == AdditionOf(b, at1)
    <3>3. q \in Seq(Addition) /\ r \in Seq(Addition)
      BY <2>2, <3>1
    <3> HIDE DEF q, r
    <3>4. (A \o q) \o r = A \o (q \o r)
      BY <3>3, ConcatAssociative
    <3> QED BY <3>2, <3>4 DEF B, q, r
  <2>8. at1 + One(b.op \in {"add", "kept"}) = no + Advance(Append(s, b))
    BY <2>2, AdvanceAppend DEF at1, One
  <2>9. Leads(h, <<GitBody(b)>>, BodyKnown(V, v, A, no, Append(s, b)))
    BY <2>5, <2>6, <2>7, <2>8 DEF BodyKnown
  <2>10. Leads(g, Written(Append(s, b)), BodyKnown(V, v, A, no, Append(s, b)))
    BY <2>1, <2>4, <2>9, LeadsOn
  <2> QED BY <2>1, <2>10 DEF Z
<1> HIDE DEF Z
<1>3. Seq(Marked) \subseteq Z
  BY <1>1, <1>2, AppendInduction
<1> QED BY <1>3 DEF Z

AnyHunk == [no : Nat, more : Seq(Lines), body : Seq(Edits)]
Hunk == [no : Nat, more : {<<>>}, body : Seq(Marked)]

HunkLine(h) == Line("@@", NoPath, h.no, "none")
EachHunk(H) == [i \in DOMAIN H |-> GitHunk(H[i])]
EachBody(H) == [i \in DOMAIN H |-> H[i].body]
EachAddition(H) == [i \in DOMAIN H |-> Additions(H[i].no, H[i].body)]

LEMMA HunkType ==
  ASSUME NEW h, h.no \in Nat, h.more \in Seq(Lines), h.body \in Seq(Edits)
  PROVE  /\ HunkLine(h).head = "@@" /\ HunkLine(h).no = h.no /\ <<HunkLine(h)>> \in Seq(Lines)
         /\ GitHunk(h) = Split(HunkLine(h), h.more) \o Written(h.body)
         /\ GitHunk(h) \in Seq(Lines)
<1> DEFINE head == "@@"
           text == "none"
<1>1. head \in Heads /\ text \in Texts
  BY DEF Heads, Texts
<1>2. HunkLine(h) = Line(head, NoPath, h.no, text)
  BY Zenon DEF HunkLine
<1> HIDE DEF head, text
<1>3. HunkLine(h) \in Lines /\ HunkLine(h).head = head /\ HunkLine(h).no = h.no
  BY <1>1, <1>2, LineType, PathsRead
<1>4. <<HunkLine(h)>> \in Seq(Lines)
  BY <1>3, OneLine
<1>5. GitHunk(h) = Split(HunkLine(h), h.more) \o Written(h.body)
  BY Zenon DEF GitHunk, HunkLine, Written, EachWritten
<1>6. Split(HunkLine(h), h.more) \in Seq(Lines) /\ Written(h.body) \in Seq(Lines)
  BY <1>4, ConcatProperties, WrittenType DEF Split
<1>7. GitHunk(h) \in Seq(Lines)
  BY <1>5, <1>6, ConcatProperties
<1> QED BY <1>3, <1>4, <1>5, <1>7 DEF head

LEMMA HunkFacts ==
  ASSUME NEW h \in Hunk
  PROVE  /\ GitHunk(h) \in Seq(Lines) /\ h.body \in Seq(Marked) /\ Additions(h.no, h.body) \in Seq(Addition)
         /\ h.no \in Nat /\ Written(h.body) \in Seq(Lines)
         /\ GitHunk(h) = <<HunkLine(h)>> \o Written(h.body)
         /\ HunkLine(h).head = "@@" /\ HunkLine(h).no = h.no /\ <<HunkLine(h)>> \in Seq(Lines)
<1>1. h.no \in Nat /\ h.body \in Seq(Marked) /\ h.more = <<>>
  BY DEF Hunk
<1>2. h.body \in Seq(Edits) /\ h.more \in Seq(Lines)
  <2>1. DOMAIN h.body = 1 .. Len(h.body) /\ Len(h.body) \in Nat /\ h.body = [k \in 1 .. Len(h.body) |-> h.body[k]]
    BY <1>1, LenProperties
  <2>2. \A k \in 1 .. Len(h.body) : h.body[k] \in Edits
    <3>1. \A k \in 1 .. Len(h.body) : h.body[k] \in Marked
      BY <1>1, LenProperties
    <3> QED BY <3>1, MarkedText
  <2>3. [k \in 1 .. Len(h.body) |-> h.body[k]] \in Seq(Edits)
    BY <2>1, <2>2, IsASeq
  <2> QED BY <1>1, <2>1, <2>3, EmptySeq
<1>3. /\ HunkLine(h).head = "@@" /\ HunkLine(h).no = h.no /\ <<HunkLine(h)>> \in Seq(Lines)
      /\ GitHunk(h) = Split(HunkLine(h), h.more) \o Written(h.body)
      /\ GitHunk(h) \in Seq(Lines)
  BY <1>1, <1>2, HunkType
<1>4. Split(HunkLine(h), h.more) = <<HunkLine(h)>>
  BY <1>1, <1>3, ConcatEmptySeq DEF Split
<1>5. Written(h.body) \in Seq(Lines) /\ Additions(h.no, h.body) \in Seq(Addition)
  BY <1>1, <1>2, WrittenType, EachType
<1> QED BY <1>1, <1>3, <1>4, <1>5

LEMMA HunkRead ==
  ASSUME NEW V \in Seq(Views), NEW v \in Views, NEW A \in Seq(Addition), NEW place, NEW line, NEW h \in Hunk
  PROVE  Leads(Known(Append(V, v), A, place, line), GitHunk(h), BodyKnown(V, v, A, h.no, h.body))
<1> DEFINE l == HunkLine(h)
<1>1. /\ l.head = "@@" /\ l.no = h.no /\ <<l>> \in Seq(Lines) /\ Written(h.body) \in Seq(Lines)
      /\ h.no \in Nat /\ h.body \in Seq(Marked)
  BY HunkFacts
<1>2. GitHunk(h) = <<l>> \o Written(h.body)
  BY HunkFacts
<1> HIDE DEF l
<1>3. Leads(Known(Append(V, v), A, place, line), <<l>>, Known(Append(V, v), A, "hunk", h.no))
  BY <1>1, HunkBegins
<1>4. Leads(Known(Append(V, v), A, "hunk", h.no), Written(h.body), BodyKnown(V, v, A, h.no, h.body))
  BY <1>1, BodyRead
<1> QED BY <1>1, <1>2, <1>3, <1>4, LeadsOn

LEMMA HunksAppend ==
  ASSUME NEW H \in Seq(Hunk), NEW h \in Hunk
  PROVE  /\ EachHunk(H) \in Seq(Seq(Lines)) /\ EachHunk(Append(H, h)) = Append(EachHunk(H), GitHunk(h))
         /\ EachBody(H) \in Seq(Seq(Marked)) /\ EachBody(Append(H, h)) = Append(EachBody(H), h.body)
         /\ EachAddition(H) \in Seq(Seq(Addition))
         /\ EachAddition(Append(H, h)) = Append(EachAddition(H), Additions(h.no, h.body))
<1>1. Append(H, h) \in Seq(Hunk) /\ \A s \in Seq(Hunk) : \A i \in DOMAIN s : s[i] \in Hunk
  BY AppendProperties, LenProperties
<1>2. EachHunk(H) \in Seq(Seq(Lines)) /\ EachHunk(Append(H, h)) = Append(EachHunk(H), GitHunk(h))
  <2> DEFINE g == [k \in Hunk |-> GitHunk(k)]
  <2>1. g \in [Hunk -> Seq(Lines)] /\ g[h] = GitHunk(h)
    BY HunkFacts
  <2>2. \A s \in Seq(Hunk) : [i \in DOMAIN s |-> g[s[i]]] = EachHunk(s)
    BY <1>1 DEF EachHunk
  <2> DEFINE Y == Seq(Lines)
  <2> HIDE DEF g, Y
  <2>3. g \in [Hunk -> Y]
    BY <2>1 DEF Y
  <2>4. /\ [i \in DOMAIN H |-> g[H[i]]] \in Seq(Y)
        /\ [i \in DOMAIN Append(H, h) |-> g[Append(H, h)[i]]] = Append([i \in DOMAIN H |-> g[H[i]]], g[h])
    BY <2>3, MapAppend
  <2> QED BY <1>1, <2>1, <2>2, <2>4 DEF Y
<1>3. EachBody(H) \in Seq(Seq(Marked)) /\ EachBody(Append(H, h)) = Append(EachBody(H), h.body)
  <2> DEFINE g == [k \in Hunk |-> k.body]
  <2>1. g \in [Hunk -> Seq(Marked)] /\ g[h] = h.body
    BY HunkFacts
  <2>2. \A s \in Seq(Hunk) : [i \in DOMAIN s |-> g[s[i]]] = EachBody(s)
    BY <1>1 DEF EachBody
  <2> DEFINE Y == Seq(Marked)
  <2> HIDE DEF g, Y
  <2>3. g \in [Hunk -> Y]
    BY <2>1 DEF Y
  <2>4. /\ [i \in DOMAIN H |-> g[H[i]]] \in Seq(Y)
        /\ [i \in DOMAIN Append(H, h) |-> g[Append(H, h)[i]]] = Append([i \in DOMAIN H |-> g[H[i]]], g[h])
    BY <2>3, MapAppend
  <2> QED BY <1>1, <2>1, <2>2, <2>4 DEF Y
<1>4. /\ EachAddition(H) \in Seq(Seq(Addition))
      /\ EachAddition(Append(H, h)) = Append(EachAddition(H), Additions(h.no, h.body))
  <2> DEFINE g == [k \in Hunk |-> Additions(k.no, k.body)]
  <2>1. g \in [Hunk -> Seq(Addition)] /\ g[h] = Additions(h.no, h.body)
    BY HunkFacts
  <2>2. \A s \in Seq(Hunk) : [i \in DOMAIN s |-> g[s[i]]] = EachAddition(s)
    BY <1>1 DEF EachAddition
  <2> DEFINE Y == Seq(Addition)
  <2> HIDE DEF g, Y
  <2>3. g \in [Hunk -> Y]
    BY <2>1 DEF Y
  <2>4. /\ [i \in DOMAIN H |-> g[H[i]]] \in Seq(Y)
        /\ [i \in DOMAIN Append(H, h) |-> g[Append(H, h)[i]]] = Append([i \in DOMAIN H |-> g[H[i]]], g[h])
    BY <2>3, MapAppend
  <2> QED BY <1>1, <2>1, <2>2, <2>4 DEF Y
<1> QED BY <1>2, <1>3, <1>4

LEMMA HunksEmpty == EachHunk(<<>>) = <<>> /\ EachBody(<<>>) = <<>> /\ EachAddition(<<>>) = <<>>
BY EmptySeq DEF EachHunk, EachBody, EachAddition

(* The hunks of a file.                                                    *)
HunksKnown(V, v, A, H, place, line) ==
  Known(Append(V, Recount(v, Ops(Flatten(EachBody(H)), "add"), Ops(Flatten(EachBody(H)), "del"))),
        A \o Flatten(EachAddition(H)), place, line)

LEMMA HunksRead ==
  ASSUME NEW V \in Seq(Views), NEW v \in Views, NEW A \in Seq(Addition), NEW place, NEW line, NEW H \in Seq(Hunk)
  PROVE  \E p, l : Leads(Known(Append(V, v), A, place, line), Flatten(EachHunk(H)), HunksKnown(V, v, A, H, p, l))
<1> DEFINE g == Known(Append(V, v), A, place, line)
           Z == {s \in Seq(Hunk) : \E p, l : Leads(g, Flatten(EachHunk(s)), HunksKnown(V, v, A, s, p, l))}
<1>1. <<>> \in Z
  <2>1. <<>> \in Seq(Hunk) /\ <<>> \in Seq(Marked)
    BY EmptySeq
  <2>2. Ops(<<>>, "add") = 0 /\ Ops(<<>>, "del") = 0
    BY <2>1, OpsType
  <2>3. HunksKnown(V, v, A, <<>>, place, line) = g
    BY <2>2, HunksEmpty, FlattenEmpty, RecountAgain, ConcatEmptySeq DEF HunksKnown
  <2> HIDE DEF g
  <2>4. Leads(g, Flatten(EachHunk(<<>>)), HunksKnown(V, v, A, <<>>, place, line))
    BY <2>3, HunksEmpty, FlattenEmpty, LeadsNothing
  <2> QED BY <2>1, <2>4
<1>2. ASSUME NEW s \in Seq(Hunk), NEW h \in Hunk, s \in Z PROVE Append(s, h) \in Z
  <2> DEFINE body == Flatten(EachBody(s))
             w == Recount(v, Ops(body, "add"), Ops(body, "del"))
             B == A \o Flatten(EachAddition(s))
             all == Flatten(EachBody(Append(s, h)))
  <2>1. PICK p, l : Leads(g, Flatten(EachHunk(s)), HunksKnown(V, v, A, s, p, l))
    BY <1>2
  <2>2. body \in Seq(Marked) /\ Flatten(EachAddition(s)) \in Seq(Addition) /\ Flatten(EachHunk(s)) \in Seq(Lines)
    BY HunksAppend, FlattenType
  <2>3. GitHunk(h) \in Seq(Lines) /\ h.body \in Seq(Marked) /\ Additions(h.no, h.body) \in Seq(Addition) /\ h.no \in Nat
    BY HunkFacts
  <2>4. /\ Flatten(EachHunk(Append(s, h))) = Flatten(EachHunk(s)) \o GitHunk(h)
        /\ all = body \o h.body
        /\ Flatten(EachAddition(Append(s, h))) = Flatten(EachAddition(s)) \o Additions(h.no, h.body)
    BY <2>3, HunksAppend, FlattenAppend
  <2>5. Append(s, h) \in Seq(Hunk)
    BY AppendProperties
  <2> HIDE DEF body, all, g, Z
  <2>6. Ops(body, "add") \in Nat /\ Ops(body, "del") \in Nat
    BY <2>2, OpsType
  <2>7. w \in Views
    BY <2>6, RecountType
  <2>8. B \in Seq(Addition)
    BY <2>2, ConcatProperties
  <2>9. HunksKnown(V, v, A, s, p, l) = Known(Append(V, w), B, p, l)
    BY DEF HunksKnown, body
  <2>10. BodyKnown(V, w, B, h.no, h.body)
           = HunksKnown(V, v, A, Append(s, h), "hunk", h.no + Advance(h.body))
    <3> DEFINE a == Ops(body, "add")
               d == Ops(body, "del")
               x == Ops(h.body, "add")
               y == Ops(h.body, "del")
    <3>1. x \in Nat /\ y \in Nat
      BY <2>3, OpsType
    <3>2. Ops(all, "add") = a + x /\ Ops(all, "del") = d + y
      BY <2>2, <2>3, <2>4, OpsConcat
    <3>3. B \o Additions(h.no, h.body) = A \o Flatten(EachAddition(Append(s, h)))
      <4> DEFINE q == Flatten(EachAddition(s))
                 r == Additions(h.no, h.body)
      <4>1. q \in Seq(Addition) /\ r \in Seq(Addition) /\ Flatten(EachAddition(Append(s, h))) = q \o r
        BY <2>2, <2>3, <2>4
      <4> HIDE DEF q, r
      <4>2. (A \o q) \o r = A \o (q \o r)
        BY <4>1, ConcatAssociative
      <4> QED BY <4>1, <4>2 DEF q, r
    <3>4. a \in Nat /\ d \in Nat /\ w = Recount(v, a, d)
      BY <2>6
    <3> HIDE DEF a, d, x, y, w, B
    <3>5. Recount(w, x, y) = Recount(v, Ops(all, "add"), Ops(all, "del"))
      BY <3>1, <3>2, <3>4, RecountAgain
    <3>6. BodyKnown(V, w, B, h.no, h.body)
            = Known(Append(V, Recount(w, x, y)), B \o Additions(h.no, h.body), "hunk", h.no + Advance(h.body))
      BY DEF BodyKnown, x, y
    <3> QED BY <3>3, <3>5, <3>6 DEF HunksKnown, all
  <2> HIDE DEF w, B
  <2>11. Leads(Known(Append(V, w), B, p, l), GitHunk(h), BodyKnown(V, w, B, h.no, h.body))
    BY <2>7, <2>8, HunkRead
  <2>12. Leads(g, Flatten(EachHunk(Append(s, h))),
               HunksKnown(V, v, A, Append(s, h), "hunk", h.no + Advance(h.body)))
    BY <2>1, <2>2, <2>3, <2>4, <2>9, <2>10, <2>11, LeadsOn
  <2> QED BY <2>5, <2>12 DEF Z
<1> HIDE DEF Z
<1>3. Seq(Hunk) \subseteq Z
  BY <1>1, <1>2, AppendInduction
<1> QED BY <1>3 DEF Z

-----------------------------------------------------------------------------
(***************************************************************************)
(* The lines of a file                                                     *)
(***************************************************************************)
AnyChange == {c \in FileDiff : IsChange(c)}
GitChange == {c \in AnyChange : Whole(c)}

LEMMA ChangeFacts ==
  ASSUME NEW c \in AnyChange
  PROVE  /\ c.path \in DiffPath /\ c.path # NoPath /\ c.old \in DiffPath /\ c.status \in Statuses
         /\ c.path \in AnyPath /\ c.old \in AnyPath
         /\ c.binary \in BOOLEAN /\ c.hunks \in Seq(AnyHunk)
         /\ c.old = NoPath => c.status = "added"
         /\ c.binary => c.hunks = <<>>
         /\ c.status = "deleted" =>
              \A i \in DOMAIN c.hunks : \A k \in DOMAIN c.hunks[i].body : c.hunks[i].body[k].op \in {"del", "remark"}
<1>1. c \in FileDiff /\ IsChange(c)
  BY DEF AnyChange
<1>2. /\ c.path \in DiffPath \ {NoPath} /\ c.old \in DiffPath /\ c.status \in Statuses /\ c.binary \in BOOLEAN
      /\ c.hunks \in Seq(AnyHunk)
  BY <1>1 DEF FileDiff, Statuses, AnyHunk
<1>3. c.path \in AnyPath /\ c.old \in AnyPath
  BY <1>2, PathsRead
<1> QED BY <1>1, <1>2, <1>3 DEF IsChange

LEMMA WholeHunks ==
  ASSUME NEW c \in GitChange
  PROVE  c \in AnyChange /\ c.hunks \in Seq(Hunk)
<1>1. c \in AnyChange /\ Whole(c)
  BY DEF GitChange
<1>2. c.hunks \in Seq(AnyHunk)
  BY <1>1, ChangeFacts
<1>3. DOMAIN c.hunks = 1 .. Len(c.hunks) /\ Len(c.hunks) \in Nat /\ c.hunks = [i \in 1 .. Len(c.hunks) |-> c.hunks[i]]
  BY <1>2, LenProperties
<1>4. ASSUME NEW i \in 1 .. Len(c.hunks) PROVE c.hunks[i] \in Hunk
  <2> DEFINE h == c.hunks[i]
  <2>1. h \in AnyHunk /\ h.more = <<>> /\ \A k \in DOMAIN h.body : h.body[k].more = <<>>
    <3>1. h \in AnyHunk
      BY <1>2, LenProperties
    <3> QED BY <1>1, <1>3, <3>1 DEF Whole
  <2> HIDE DEF h
  <2>2. h.body \in Seq(Edits) /\ h.no \in Nat /\ h = [no |-> h.no, more |-> h.more, body |-> h.body]
    BY <2>1 DEF AnyHunk
  <2>3. DOMAIN h.body = 1 .. Len(h.body) /\ Len(h.body) \in Nat /\ h.body = [k \in 1 .. Len(h.body) |-> h.body[k]]
    BY <2>2, LenProperties
  <2>4. \A k \in 1 .. Len(h.body) : h.body[k] \in Marked
    <3>1. \A k \in 1 .. Len(h.body) : h.body[k] \in Edits
      BY <2>2, LenProperties
    <3> QED BY <2>1, <2>3, <3>1 DEF Marked
  <2>5. [k \in 1 .. Len(h.body) |-> h.body[k]] \in Seq(Marked)
    BY <2>3, <2>4, IsASeq
  <2>6. h.body \in Seq(Marked)
    BY <2>3, <2>5
  <2>7. h \in Hunk
    BY <2>1, <2>2, <2>6 DEF Hunk
  <2> QED BY <2>7 DEF h
<1>5. [i \in 1 .. Len(c.hunks) |-> c.hunks[i]] \in Seq(Hunk)
  BY <1>3, <1>4, IsASeq
<1> QED BY <1>1, <1>3, <1>5

(* What is known of a file before its hunks; kind is "text" or "binary".   *)
Entry(path, status, kind) ==
  [path |-> path, status |-> status, binary |-> kind = "binary", plus |-> 0, minus |-> 0]

LEMMA EntryType ==
  ASSUME NEW path \in AnyPath, NEW status \in Statuses, NEW kind
  PROVE  Entry(path, status, kind) \in Views
BY DEF Entry, Views

LEMMA BareType ==
  ASSUME NEW head \in Heads, NEW path \in DiffPath
  PROVE  /\ Bare(head, path) \in Lines /\ Bare(head, path).head = head /\ Bare(head, path).path = path
         /\ <<Bare(head, path)>> \in Seq(Lines)
<1> DEFINE text == "none"
<1>1. text \in Texts
  BY DEF Texts
<1> HIDE DEF text
<1>2. LET l == Line(head, path, 0, text) IN l \in Lines /\ l.head = head /\ l.path = path
  BY <1>1, LineType
<1>3. Bare(head, path) \in Lines /\ Bare(head, path).head = head /\ Bare(head, path).path = path
  BY <1>2, Zenon DEF Bare, text
<1> QED BY <1>3, OneLine

(* What becomes of that at a line before the hunks.                        *)
PathAfter(head, path, other) ==
  IF head = "rename to" THEN Stripped(other)
  ELSE IF head = "+++" /\ other # NoPath THEN Unquoted(other) ELSE path

StatusAfter(head, status, other) ==
  IF head = "new file mode" \/ (head = "---" /\ other = NoPath) THEN "added"
  ELSE IF head = "deleted file mode" \/ (head = "+++" /\ other = NoPath) THEN "deleted"
  ELSE IF head \in {"rename from", "rename to"} THEN "renamed" ELSE status

KindAfter(head, kind) == IF head = "Binary files" THEN "binary" ELSE kind

EntryAfter(head, path, status, kind, other) ==
  Entry(PathAfter(head, path, other), StatusAfter(head, status, other), KindAfter(head, kind))

LEMMA EntrySaid ==
  ASSUME NEW V \in Seq(Views), NEW A \in Seq(Addition), NEW line,
         NEW path \in AnyPath, NEW status \in Statuses, NEW kind,
         NEW head \in Heads, head # "diff --git", head # "@@", NEW other \in DiffPath
  PROVE  /\ Leads(Known(Append(V, Entry(path, status, kind)), A, "header", line), <<Bare(head, other)>>,
                  Known(Append(V, EntryAfter(head, path, status, kind, other)), A, "header", line))
         /\ <<Bare(head, other)>> \in Seq(Lines)
<1> DEFINE e == Entry(path, status, kind)
           l == Bare(head, other)
<1>1. <<l>> \in Seq(Lines) /\ l.head = head /\ l.path = other
  BY BareType
<1>2. IsHeader(l)
  BY <1>1, PathsRead, Zenon DEF IsHeader
<1>3. e \in Views
  BY EntryType
<1>4. /\ e.path = path /\ e.status = status /\ e.binary = (kind = "binary") /\ e.plus = 0 /\ e.minus = 0
  BY DEF Entry
<1> HIDE DEF e, l
<1>5. Noted(e, l).path = PathAfter(head, path, other)
  BY <1>1, <1>4, Zenon DEF Noted, PathAfter
<1>6. Noted(e, l).status = StatusAfter(head, status, other)
  BY <1>1, <1>4, Zenon DEF Noted, StatusAfter
<1>7. Noted(e, l).binary = (KindAfter(head, kind) = "binary")
  BY <1>1, <1>4, Zenon DEF Noted, KindAfter
<1>8. Noted(e, l) = EntryAfter(head, path, status, kind, other)
  <2> DEFINE n == Noted(e, l)
  <2>1. n = [path |-> n.path, status |-> n.status, binary |-> n.binary, plus |-> n.plus, minus |-> n.minus]
        /\ n.plus = 0 /\ n.minus = 0
    BY <1>4, Zenon DEF Noted
  <2> HIDE DEF n
  <2>2. n = [path |-> n.path, status |-> n.status, binary |-> n.binary, plus |-> 0, minus |-> 0]
    BY <2>1, Zenon
  <2> QED BY <1>5, <1>6, <1>7, <2>2, Zenon DEF EntryAfter, Entry, n
<1>9. Leads(Known(Append(V, e), A, "header", line), <<l>>, Known(Append(V, Noted(e, l)), A, "header", line))
  BY <1>2, <1>3, HeaderLine
<1> QED BY <1>1, <1>8, <1>9, Zenon DEF e, l

(* The line of git's header that gives the status.                         *)
StatusLines(c) ==
  CASE c.status = "added"   -> <<Bare("new file mode", NoPath)>>
    [] c.status = "deleted" -> <<Bare("deleted file mode", NoPath)>>
    [] c.status = "renamed" -> <<Bare("rename from", c.old), Bare("rename to", c.path)>>
    [] OTHER -> <<>>

(* The path after git's header.                                            *)
HeaderPath(c) == IF c.status = "renamed" THEN Stripped(c.path) ELSE FromHeader(c.path)

LEMMA StatusRead ==
  ASSUME NEW V \in Seq(Views), NEW A \in Seq(Addition), NEW line, NEW c \in AnyChange
  PROVE  /\ StatusLines(c) \in Seq(Lines)
         /\ Leads(Known(Append(V, Entry(FromHeader(c.path), "modified", "text")), A, "header", line), StatusLines(c),
                  Known(Append(V, Entry(HeaderPath(c), c.status, "text")), A, "header", line))
<1> DEFINE K(path, status) == Known(Append(V, Entry(path, status, "text")), A, "header", line)
           from == FromHeader(c.path)
           to == Stripped(c.path)
<1>1. c.path \in DiffPath /\ c.old \in DiffPath /\ NoPath \in DiffPath
  BY ChangeFacts, PathsRead
<1>8. from \in AnyPath /\ to \in AnyPath
  BY <1>1, PathsRead
<1>2. c.status = "added" \/ c.status = "deleted" \/ c.status = "renamed" \/ c.status = "modified"
  BY ChangeFacts DEF Statuses
<1>3. "modified" \in Statuses /\ "renamed" \in Statuses
  BY DEF Statuses
<1>4. CASE c.status = "added"
  <2> DEFINE head == "new file mode"
  <2>1. head \in Heads /\ head # "diff --git" /\ head # "@@" /\ StatusLines(c) = <<Bare(head, NoPath)>>
    BY <1>4, Zenon DEF Heads, StatusLines
  <2>2. EntryAfter(head, from, "modified", "text", NoPath) = Entry(HeaderPath(c), "added", "text")
    BY <1>4, Zenon DEF HeaderPath, EntryAfter, PathAfter, StatusAfter, KindAfter
  <2> HIDE DEF head, from
  <2> QED BY <1>1, <1>3, <1>8, <1>4, <2>1, <2>2, EntrySaid, Zenon DEF from
<1>5. CASE c.status = "deleted"
  <2> DEFINE head == "deleted file mode"
  <2>1. head \in Heads /\ head # "diff --git" /\ head # "@@" /\ StatusLines(c) = <<Bare(head, NoPath)>>
    BY <1>5, Zenon DEF Heads, StatusLines
  <2>2. EntryAfter(head, from, "modified", "text", NoPath) = Entry(HeaderPath(c), "deleted", "text")
    BY <1>5, Zenon DEF HeaderPath, EntryAfter, PathAfter, StatusAfter, KindAfter
  <2> HIDE DEF head, from
  <2> QED BY <1>1, <1>3, <1>8, <1>5, <2>1, <2>2, EntrySaid, Zenon DEF from
<1>6. CASE c.status = "renamed"
  <2> DEFINE head == "rename from"
             second == "rename to"
             L == <<Bare(head, c.old)>>
             M == <<Bare(second, c.path)>>
  <2>1. head \in Heads /\ head # "diff --git" /\ head # "@@" /\ second \in Heads /\ second # "diff --git" /\ second # "@@"
    BY Zenon DEF Heads
  <2>2. StatusLines(c) = <<Bare(head, c.old), Bare(second, c.path)>>
    BY <1>6, Zenon DEF StatusLines
  <2>3. /\ EntryAfter(head, from, "modified", "text", c.old) = Entry(from, "renamed", "text")
        /\ EntryAfter(second, from, "renamed", "text", c.path) = Entry(to, "renamed", "text")
    BY Zenon DEF EntryAfter, PathAfter, StatusAfter, KindAfter
  <2>8. HeaderPath(c) = to
    BY <1>6 DEF HeaderPath
  <2> HIDE DEF head, second, from, to
  <2>4. Leads(K(from, "modified"), L, K(from, "renamed")) /\ L \in Seq(Lines)
    BY <1>1, <1>3, <1>8, <2>1, <2>3, EntrySaid, Zenon
  <2>5. Leads(K(from, "renamed"), M, K(to, "renamed")) /\ M \in Seq(Lines)
    BY <1>1, <1>3, <1>8, <2>1, <2>3, EntrySaid, Zenon
  <2>6. StatusLines(c) = L \o M
    BY <2>2
  <2> HIDE DEF L, M, K
  <2>7. Leads(K(from, "modified"), L \o M, K(to, "renamed")) /\ L \o M \in Seq(Lines)
    BY <2>4, <2>5, LeadsOn, ConcatProperties
  <2> QED BY <1>6, <2>6, <2>7, <2>8 DEF K, from
<1>7. CASE c.status = "modified"
  <2>1. StatusLines(c) = <<>>
    BY <1>7, Zenon DEF StatusLines
  <2>2. HeaderPath(c) = from
    BY <1>7 DEF HeaderPath
  <2> QED BY <1>7, <2>1, <2>2, LeadsNothing, EmptySeq
<1> QED BY <1>2, <1>4, <1>5, <1>6, <1>7

LEMMA HeaderRead ==
  ASSUME NEW V \in Seq(Views), NEW A \in Seq(Addition), NEW place, NEW line, NEW c \in AnyChange
  PROVE  /\ GitHeader(c) \in Seq(Lines)
         /\ Leads(Known(V, A, place, line), GitHeader(c),
                  Known(Append(V, Entry(HeaderPath(c), c.status, "text")), A, "header", line))
<1> DEFINE K(path, status) == Known(Append(V, Entry(path, status, "text")), A, "header", line)
           from == FromHeader(c.path)
           to == HeaderPath(c)
           first == "diff --git"
           last == "index"
           L == <<Bare(first, c.path)>>
           M == StatusLines(c)
           N == <<Bare(last, NoPath)>>
<1>1. c.path \in DiffPath /\ c.path \in AnyPath /\ c.status \in Statuses /\ NoPath \in DiffPath /\ to \in AnyPath
  BY ChangeFacts, PathsRead DEF HeaderPath
<1>2. GitHeader(c) = (L \o M) \o N
  BY Zenon DEF GitHeader, StatusLines
<1>3. first \in Heads /\ last \in Heads /\ last # "diff --git" /\ last # "@@"
  BY Zenon DEF Heads
<1>4. BeginsFile(Bare(first, c.path)) /\ Bare(first, c.path).path = c.path /\ L \in Seq(Lines)
  BY <1>1, <1>3, BareType, Zenon DEF BeginsFile
<1>5. View(FileChange(from)) = Entry(from, "modified", "text")
  BY DEF View, FileChange, Entry
<1>6. EntryAfter(last, to, c.status, "text", NoPath) = Entry(to, c.status, "text")
  BY Zenon DEF EntryAfter, PathAfter, StatusAfter, KindAfter
<1> HIDE DEF first, last, to
<1>7. Leads(Known(V, A, place, line), L, K(from, "modified"))
  <2>1. Leads(Known(V, A, place, line), L,
              Known(Append(V, View(FileChange(FromHeader(Bare(first, c.path).path)))), A, "header", line))
    BY <1>4, FileBegins, Zenon
  <2> QED BY <1>4, <1>5, <2>1, Zenon
<1>8. Leads(K(from, "modified"), M, K(to, c.status)) /\ M \in Seq(Lines)
  BY StatusRead, Zenon DEF from, to
<1>9. Leads(K(to, c.status), N, K(to, c.status)) /\ N \in Seq(Lines)
  BY <1>1, <1>3, <1>6, EntrySaid, Zenon
<1> HIDE DEF L, M, N, K, from
<1>10. Leads(Known(V, A, place, line), L \o M, K(to, c.status)) /\ L \o M \in Seq(Lines)
  BY <1>4, <1>7, <1>8, LeadsOn, ConcatProperties
<1>11. Leads(Known(V, A, place, line), (L \o M) \o N, K(to, c.status)) /\ (L \o M) \o N \in Seq(Lines)
  BY <1>9, <1>10, LeadsOn, ConcatProperties
<1> QED BY <1>2, <1>11 DEF K, to

(* The path that a file ends up with.                                      *)
PathRead(c) == IF Headed(c) THEN Unquoted(c.path) ELSE HeaderPath(c)

LEMMA PathReadFacts ==
  ASSUME NEW c \in AnyChange
  PROVE  /\ PathRead(c) \in AnyPath /\ HeaderPath(c) \in AnyPath
         /\ Exact(c) => PathRead(c) = c.path
         /\ Legible(c) => PathRead(c).name = c.path.name
         /\ EnvFile(PathRead(c)) <=> EnvFile(c.path) /\ Legible(c)
<1> DEFINE p == c.path
<1>1. p \in DiffPath /\ p \in AnyPath
  BY ChangeFacts
<1>2. PathRead(c) \in AnyPath /\ HeaderPath(c) \in AnyPath
  BY <1>1, PathsRead DEF PathRead, HeaderPath
<1>3. p.form = "plain" \/ p.form = "quoted"
  BY <1>1 DEF DiffPath
<1>4. Unquoted(p).name = p.name /\ (p.form = "plain" => Unquoted(p) = p /\ Stripped(p) = p)
  BY <1>1 DEF Unquoted, Stripped, AnyPath
<1>5. /\ ~p.blank => FromHeader(p) = Unquoted(p)
      /\ p.form = "plain" => FromHeader(p).name = p.name
      /\ p.blank /\ p.form = "quoted" => FromHeader(p).name = QuoteBehind(p.name)
  BY <1>1, <1>4 DEF FromHeader, AnyPath
<1>6. QuoteBehind(p.name) # ".env"
  BY DEF QuoteBehind
<1>7. p.form = "quoted" => Stripped(p).name = "other" \/ Stripped(p).name = QuoteBehind(p.name)
  BY <1>1 DEF Stripped, AnyPath
<1>8. \/ Headed(c) /\ PathRead(c) = Unquoted(p)
      \/ ~Headed(c) /\ c.status = "renamed" /\ PathRead(c) = Stripped(p)
      \/ ~Headed(c) /\ c.status # "renamed" /\ PathRead(c) = FromHeader(p)
  BY DEF PathRead, HeaderPath
<1>9. p.blank \in BOOLEAN
  BY <1>1 DEF DiffPath
<1>10. (Exact(c) <=> p.form = "plain" /\ (p.blank => Headed(c) \/ c.status = "renamed"))
       /\ (Legible(c) <=> (p.form = "quoted" => Headed(c) \/ (c.status # "renamed" /\ ~p.blank)))
  BY DEF Exact, Legible
<1> HIDE DEF p
<1>11. Exact(c) => PathRead(c) = p
  BY <1>4, <1>5, <1>8, <1>9, <1>10
<1>12. Legible(c) => PathRead(c).name = p.name
  BY <1>3, <1>4, <1>5, <1>8, <1>9, <1>10
<1>13. ~Legible(c) => PathRead(c).name # ".env"
  BY <1>3, <1>5, <1>6, <1>7, <1>8, <1>9, <1>10
<1> QED BY <1>2, <1>11, <1>12, <1>13 DEF EnvFile, p

Recovered(c) ==
  [path |-> PathRead(c), status |-> c.status, binary |-> c.binary, plus |-> Times(c, "add"), minus |-> Times(c, "del")]

LEMMA HunksOf ==
  ASSUME NEW c \in GitChange
  PROVE  /\ GitHunks(c) = Flatten(EachHunk(c.hunks)) /\ GitHunks(c) \in Seq(Lines)
         /\ Bodies(c) = Flatten(EachBody(c.hunks)) /\ Bodies(c) \in Seq(Marked)
         /\ AddedIn(c) = Flatten(EachAddition(c.hunks)) /\ AddedIn(c) \in Seq(Addition)
         /\ Times(c, "add") = Ops(Bodies(c), "add") /\ Times(c, "add") \in Nat
         /\ Times(c, "del") = Ops(Bodies(c), "del") /\ Times(c, "del") \in Nat
<1>1. GitHunks(c) = Flatten(EachHunk(c.hunks))
  BY Zenon DEF GitHunks, EachHunk
<1>2. Bodies(c) = Flatten(EachBody(c.hunks))
  BY Zenon DEF Bodies, EachBody
<1>3. AddedIn(c) = Flatten(EachAddition(c.hunks))
  BY Zenon DEF AddedIn, EachAddition
<1>4. /\ EachHunk(c.hunks) \in Seq(Seq(Lines)) /\ EachBody(c.hunks) \in Seq(Seq(Marked))
      /\ EachAddition(c.hunks) \in Seq(Seq(Addition))
  <2>1. c.hunks \in Seq(Hunk)
    BY WholeHunks
  <2>2. \A i \in DOMAIN c.hunks :
          GitHunk(c.hunks[i]) \in Seq(Lines) /\ c.hunks[i].body \in Seq(Marked)
            /\ Additions(c.hunks[i].no, c.hunks[i].body) \in Seq(Addition)
    <3>1. \A i \in DOMAIN c.hunks : c.hunks[i] \in Hunk
      BY <2>1, LenProperties
    <3> QED BY <3>1, HunkFacts
  <2>3. DOMAIN c.hunks = 1 .. Len(c.hunks) /\ Len(c.hunks) \in Nat
    BY <2>1, LenProperties
  <2>4. EachHunk(c.hunks) \in Seq(Seq(Lines))
    BY <2>2, <2>3, IsASeq DEF EachHunk
  <2>5. EachBody(c.hunks) \in Seq(Seq(Marked))
    BY <2>2, <2>3, IsASeq DEF EachBody
  <2>6. EachAddition(c.hunks) \in Seq(Seq(Addition))
    BY <2>2, <2>3, IsASeq DEF EachAddition
  <2> QED BY <2>4, <2>5, <2>6
<1>5. GitHunks(c) \in Seq(Lines) /\ Bodies(c) \in Seq(Marked) /\ AddedIn(c) \in Seq(Addition)
  BY <1>1, <1>2, <1>3, <1>4, FlattenType
<1> QED BY <1>1, <1>2, <1>3, <1>5, OpsType DEF Times

(* The lines of a file after git's header.                                 *)
FileLines(c) ==
  IF c.binary THEN <<Bare("Binary files", NoPath)>>
  ELSE IF c.hunks = <<>> THEN <<>>
  ELSE <<Bare("---", IF c.status = "added" THEN NoPath ELSE c.old),
         Bare("+++", IF c.status = "deleted" THEN NoPath ELSE c.path)>> \o GitHunks(c)

(* What is known of a file that was read.                                  *)
FileKnown(V, A, c, place, line) == Known(Append(V, Recovered(c)), A \o AddedIn(c), place, line)

LEMMA NoHunks ==
  ASSUME NEW c \in GitChange, c.hunks = <<>>
  PROVE  /\ AddedIn(c) = <<>> /\ Times(c, "add") = 0 /\ Times(c, "del") = 0
<1>1. AddedIn(c) = <<>> /\ Bodies(c) = <<>>
  BY HunksOf, HunksEmpty, FlattenEmpty
<1>2. Ops(<<>>, "add") = 0 /\ Ops(<<>>, "del") = 0
  <2>1. <<>> \in Seq(Marked)
    BY EmptySeq
  <2> QED BY <2>1, OpsType
<1> QED BY <1>1, <1>2, HunksOf

LEMMA FileLinesType == \A c \in AnyChange : FileLines(c) \in Seq(Lines)
<1> TAKE c \in AnyChange
<1>1. /\ c.path \in DiffPath /\ c.old \in DiffPath /\ NoPath \in DiffPath /\ c.hunks \in Seq(AnyHunk)
      /\ "Binary files" \in Heads /\ "---" \in Heads /\ "+++" \in Heads
  BY ChangeFacts, PathsRead DEF Heads
<1>2. GitHunks(c) \in Seq(Lines)
  <2>1. DOMAIN c.hunks = 1 .. Len(c.hunks) /\ Len(c.hunks) \in Nat
    BY <1>1, LenProperties
  <2>2. \A i \in 1 .. Len(c.hunks) : GitHunk(c.hunks[i]) \in Seq(Lines)
    <3>1. \A i \in 1 .. Len(c.hunks) : c.hunks[i] \in AnyHunk
      BY <1>1, LenProperties
    <3>2. \A h \in AnyHunk : h.no \in Nat /\ h.more \in Seq(Lines) /\ h.body \in Seq(Edits)
      BY DEF AnyHunk
    <3> QED BY <3>1, <3>2, HunkType
  <2>3. EachHunk(c.hunks) \in Seq(Seq(Lines))
    BY <2>1, <2>2, IsASeq DEF EachHunk
  <2> QED BY <2>3, FlattenType DEF GitHunks, EachHunk
<1>3. \A head \in Heads, path \in DiffPath : Bare(head, path) \in Lines
  BY BareType
<1>4. \A l, m \in Lines : <<l>> \in Seq(Lines) /\ <<l, m>> \in Seq(Lines)
  OBVIOUS
<1>5. <<Bare("Binary files", NoPath)>> \in Seq(Lines)
  BY <1>1, <1>3, <1>4, Zenon
<1>6. <<Bare("---", IF c.status = "added" THEN NoPath ELSE c.old),
        Bare("+++", IF c.status = "deleted" THEN NoPath ELSE c.path)>> \in Seq(Lines)
  BY <1>1, <1>3, <1>4, Zenon
<1> QED BY <1>2, <1>5, <1>6, EmptySeq, ConcatProperties DEF FileLines

LEMMA FileType ==
  ASSUME NEW c \in AnyChange
  PROVE  GitFile(c) = GitHeader(c) \o FileLines(c) /\ GitFile(c) \in Seq(Lines)
<1>1. GitFile(c) = GitHeader(c) \o FileLines(c)
  BY Zenon DEF GitFile, FileLines
<1>2. <<>> \in Seq(Views) /\ <<>> \in Seq(Addition)
  BY EmptySeq
<1>3. GitHeader(c) \in Seq(Lines) /\ FileLines(c) \in Seq(Lines)
  BY <1>2, HeaderRead, FileLinesType
<1> QED BY <1>1, <1>3, ConcatProperties

LEMMA FileLinesRead ==
  ASSUME NEW V \in Seq(Views), NEW A \in Seq(Addition), NEW line, NEW c \in GitChange
  PROVE  /\ FileLines(c) \in Seq(Lines)
         /\ \E p, l : Leads(Known(Append(V, Entry(HeaderPath(c), c.status, "text")), A, "header", line), FileLines(c),
                            FileKnown(V, A, c, p, l))
<1> DEFINE g == Known(Append(V, Entry(HeaderPath(c), c.status, "text")), A, "header", line)
<1> DEFINE to == HeaderPath(c)
<1>1. /\ c.path \in DiffPath /\ c.path # NoPath /\ c.old \in DiffPath /\ c.status \in Statuses /\ c.binary \in BOOLEAN
      /\ NoPath \in DiffPath /\ to \in AnyPath /\ PathRead(c) \in AnyPath /\ (c.old = NoPath => c.status = "added") /\ (c.binary => c.hunks = <<>>)
      /\ c.hunks \in Seq(Hunk)
  BY WholeHunks, ChangeFacts, PathReadFacts, PathsRead
<1>2. CASE c.binary
  <2> DEFINE head == "Binary files"
  <2>1. head \in Heads /\ head # "diff --git" /\ head # "@@" /\ FileLines(c) = <<Bare(head, NoPath)>>
    BY <1>2, Zenon DEF Heads, FileLines
  <2>2. EntryAfter(head, to, c.status, "text", NoPath) = Entry(to, c.status, "binary")
    BY Zenon DEF EntryAfter, PathAfter, StatusAfter, KindAfter
  <2> HIDE DEF head, to
  <2>3. FileKnown(V, A, c, "header", line) = Known(Append(V, Entry(to, c.status, "binary")), A, "header", line)
    <3>1. AddedIn(c) = <<>> /\ Times(c, "add") = 0 /\ Times(c, "del") = 0
      BY <1>1, <1>2, NoHunks
    <3>2. Recovered(c) = Entry(to, c.status, "binary")
      BY <1>1, <1>2, <3>1 DEF Recovered, Entry, PathRead, Headed, to
    <3> QED BY <3>1, <3>2, ConcatEmptySeq DEF FileKnown
  <2>4. Leads(g, FileLines(c), FileKnown(V, A, c, "header", line)) /\ FileLines(c) \in Seq(Lines)
    BY <1>1, <2>1, <2>2, <2>3, EntrySaid, Zenon DEF to
  <2> QED BY <2>4
<1>3. CASE ~c.binary /\ c.hunks = <<>>
  <2>1. FileLines(c) = <<>>
    BY <1>3, Zenon DEF FileLines
  <2>2. FileKnown(V, A, c, "header", line) = g
    <3>1. AddedIn(c) = <<>> /\ Times(c, "add") = 0 /\ Times(c, "del") = 0
      BY <1>3, NoHunks
    <3>2. Recovered(c) = Entry(to, c.status, "text")
      BY <1>1, <1>3, <3>1 DEF Recovered, Entry, PathRead, Headed
    <3> QED BY <3>1, <3>2, ConcatEmptySeq DEF FileKnown
  <2> HIDE DEF g
  <2>3. Leads(g, FileLines(c), FileKnown(V, A, c, "header", line)) /\ FileLines(c) \in Seq(Lines)
    BY <2>1, <2>2, LeadsNothing, EmptySeq
  <2> QED BY <2>3 DEF g
<1>4. CASE ~c.binary /\ c.hunks # <<>>
  <2> DEFINE before == "---"
             after == "+++"
             old == IF c.status = "added" THEN NoPath ELSE c.old
             new == IF c.status = "deleted" THEN NoPath ELSE c.path
             L == <<Bare(before, old)>>
             M == <<Bare(after, new)>>
             d == Entry(to, c.status, "text")
             e == Entry(PathRead(c), c.status, "text")
             k == Known(Append(V, e), A, "header", line)
  <2>1. /\ before \in Heads /\ before # "diff --git" /\ before # "@@"
        /\ after \in Heads /\ after # "diff --git" /\ after # "@@"
    BY Zenon DEF Heads
  <2>2. FileLines(c) = <<Bare(before, old), Bare(after, new)>> \o GitHunks(c)
    BY <1>4, Zenon DEF FileLines
  <2>3. <<Bare(before, old), Bare(after, new)>> = L \o M
    OBVIOUS
  <2>4. EntryAfter(before, to, c.status, "text", old) = d
    <3>1. old = NoPath <=> c.status = "added"
      BY <1>1, Zenon
    <3> HIDE DEF old
    <3> QED BY <3>1, Zenon DEF EntryAfter, PathAfter, StatusAfter, KindAfter
  <2>5. EntryAfter(after, to, c.status, "text", new) = e
    <3>1. (new = NoPath <=> c.status = "deleted") /\ (new # NoPath => new = c.path)
      BY <1>1, Zenon
    <3>2. PathRead(c) = IF new = NoPath THEN to ELSE Unquoted(c.path)
      <4>1. Headed(c) <=> c.status # "deleted"
        BY <1>4 DEF Headed
      <4>2. c.status = "deleted" => to = HeaderPath(c)
        OBVIOUS
      <4> HIDE DEF new, to
      <4> QED BY <3>1, <4>1, Zenon DEF PathRead, to
    <3> HIDE DEF new, to
    <3> QED BY <3>1, <3>2, Zenon DEF EntryAfter, PathAfter, StatusAfter, KindAfter
  <2>6. old \in DiffPath /\ new \in DiffPath
    BY <1>1
  <2> HIDE DEF before, after, old, new, to
  <2>7. Leads(g, L, g) /\ L \in Seq(Lines)
    BY <1>1, <2>1, <2>4, <2>6, EntrySaid, Zenon DEF to
  <2>8. Leads(g, M, k) /\ M \in Seq(Lines)
    BY <1>1, <2>1, <2>5, <2>6, EntrySaid, Zenon DEF to
  <2>9. e \in Views
    BY <1>1, EntryType
  <2>10. GitHunks(c) = Flatten(EachHunk(c.hunks)) /\ GitHunks(c) \in Seq(Lines)
    BY HunksOf
  <2> HIDE DEF e, d
  <2>11. PICK p, l : Leads(k, GitHunks(c), HunksKnown(V, e, A, c.hunks, p, l))
    <3>2. c.hunks \in Seq(Hunk)
      BY <1>1
    <3> HIDE DEF g, k
    <3>3. \E p, l : Leads(Known(Append(V, e), A, "header", line), Flatten(EachHunk(c.hunks)),
                         HunksKnown(V, e, A, c.hunks, p, l))
      BY <2>9, <3>2, HunksRead
    <3> QED BY <2>10, <3>3 DEF k
  <2>12. HunksKnown(V, e, A, c.hunks, p, l) = FileKnown(V, A, c, p, l)
    <3>1. /\ Bodies(c) = Flatten(EachBody(c.hunks)) /\ AddedIn(c) = Flatten(EachAddition(c.hunks))
          /\ Times(c, "add") = Ops(Bodies(c), "add") /\ Times(c, "add") \in Nat
          /\ Times(c, "del") = Ops(Bodies(c), "del") /\ Times(c, "del") \in Nat
      BY HunksOf
    <3>2. Recount(e, Times(c, "add"), Times(c, "del")) = Recovered(c)
      <4>1. 0 + Times(c, "add") = Times(c, "add") /\ 0 + Times(c, "del") = Times(c, "del")
        BY <3>1
      <4> QED BY <1>1, <1>4, <4>1 DEF Recount, Recovered, Entry, e
    <3> QED BY <3>1, <3>2 DEF HunksKnown, FileKnown
  <2> HIDE DEF g, k, L, M
  <2>13. Leads(g, L \o M, k) /\ L \o M \in Seq(Lines)
    BY <2>7, <2>8, LeadsOn, ConcatProperties
  <2>14. /\ Leads(g, (L \o M) \o GitHunks(c), FileKnown(V, A, c, p, l))
         /\ (L \o M) \o GitHunks(c) \in Seq(Lines)
    BY <2>10, <2>11, <2>12, <2>13, LeadsOn, ConcatProperties
  <2>15. FileLines(c) = (L \o M) \o GitHunks(c)
    BY <2>2, <2>3 DEF L, M
  <2> QED BY <2>14, <2>15 DEF g
<1> QED BY <1>1, <1>2, <1>3, <1>4

LEMMA FileRead ==
  ASSUME NEW V \in Seq(Views), NEW A \in Seq(Addition), NEW place, NEW line, NEW c \in GitChange
  PROVE  /\ GitFile(c) \in Seq(Lines)
         /\ \E p, l : Leads(Known(V, A, place, line), GitFile(c), FileKnown(V, A, c, p, l))
<1>1. c \in AnyChange /\ GitFile(c) = GitHeader(c) \o FileLines(c) /\ GitFile(c) \in Seq(Lines)
  BY WholeHunks, FileType
<1> DEFINE K == Known(Append(V, Entry(HeaderPath(c), c.status, "text")), A, "header", line)
<1>2. GitHeader(c) \in Seq(Lines) /\ Leads(Known(V, A, place, line), GitHeader(c), K)
  BY <1>1, HeaderRead
<1>3. FileLines(c) \in Seq(Lines) /\ \E p, l : Leads(K, FileLines(c), FileKnown(V, A, c, p, l))
  BY FileLinesRead
<1> HIDE DEF K
<1>4. PICK p, l : Leads(K, FileLines(c), FileKnown(V, A, c, p, l))
  BY <1>3
<1>5. Leads(Known(V, A, place, line), GitFile(c), FileKnown(V, A, c, p, l))
  BY <1>1, <1>2, <1>3, <1>4, LeadsOn
<1> QED BY <1>1, <1>5

-----------------------------------------------------------------------------
(***************************************************************************)
(* The files of a pull request                                             *)
(***************************************************************************)
EachFile(d) == [i \in DOMAIN d |-> GitFile(d[i])]
EachRecovered(d) == [i \in DOMAIN d |-> Recovered(d[i])]
AddedInEach(d) == [i \in DOMAIN d |-> AddedIn(d[i])]

LEMMA RecoveredType == \A c \in GitChange : Recovered(c) \in Views
<1> TAKE c \in GitChange
<1>1. /\ PathRead(c) \in AnyPath /\ c.status \in Statuses /\ c.binary \in BOOLEAN
      /\ Times(c, "add") \in Nat /\ Times(c, "del") \in Nat
  BY WholeHunks, ChangeFacts, PathReadFacts, HunksOf
<1> QED BY <1>1 DEF Recovered, Views

LEMMA FilesAppend ==
  ASSUME NEW d \in Seq(GitChange), NEW c \in GitChange
  PROVE  /\ EachFile(d) \in Seq(Seq(Lines)) /\ EachFile(Append(d, c)) = Append(EachFile(d), GitFile(c))
         /\ EachRecovered(d) \in Seq(Views) /\ EachRecovered(Append(d, c)) = Append(EachRecovered(d), Recovered(c))
         /\ AddedInEach(d) \in Seq(Seq(Addition)) /\ AddedInEach(Append(d, c)) = Append(AddedInEach(d), AddedIn(c))
<1>1. Append(d, c) \in Seq(GitChange) /\ \A s \in Seq(GitChange) : \A i \in DOMAIN s : s[i] \in GitChange
  BY AppendProperties, LenProperties
<1>2. EachFile(d) \in Seq(Seq(Lines)) /\ EachFile(Append(d, c)) = Append(EachFile(d), GitFile(c))
  <2> DEFINE g == [k \in GitChange |-> GitFile(k)]
             Y == Seq(Lines)
  <2>1. g[c] = GitFile(c)
    OBVIOUS
  <2>2. \A s \in Seq(GitChange) : [i \in DOMAIN s |-> g[s[i]]] = EachFile(s)
    BY <1>1 DEF EachFile
  <2>3. g \in [GitChange -> Y]
    <3>1. \A k \in GitChange : GitFile(k) \in Seq(Lines)
      <4>1. <<>> \in Seq(Views) /\ <<>> \in Seq(Addition)
        BY EmptySeq
      <4> QED BY <4>1, FileRead
    <3> QED BY <3>1
  <2> HIDE DEF g, Y
  <2>4. /\ [i \in DOMAIN d |-> g[d[i]]] \in Seq(Y)
        /\ [i \in DOMAIN Append(d, c) |-> g[Append(d, c)[i]]] = Append([i \in DOMAIN d |-> g[d[i]]], g[c])
    BY <2>3, MapAppend
  <2> QED BY <1>1, <2>1, <2>2, <2>4 DEF Y
<1>3. EachRecovered(d) \in Seq(Views) /\ EachRecovered(Append(d, c)) = Append(EachRecovered(d), Recovered(c))
  <2> DEFINE g == [k \in GitChange |-> Recovered(k)]
  <2>1. g[c] = Recovered(c)
    OBVIOUS
  <2>2. \A s \in Seq(GitChange) : [i \in DOMAIN s |-> g[s[i]]] = EachRecovered(s)
    BY <1>1 DEF EachRecovered
  <2>3. g \in [GitChange -> Views]
    BY RecoveredType
  <2> HIDE DEF g
  <2>4. /\ [i \in DOMAIN d |-> g[d[i]]] \in Seq(Views)
        /\ [i \in DOMAIN Append(d, c) |-> g[Append(d, c)[i]]] = Append([i \in DOMAIN d |-> g[d[i]]], g[c])
    BY <2>3, MapAppend
  <2> QED BY <1>1, <2>1, <2>2, <2>4
<1>4. AddedInEach(d) \in Seq(Seq(Addition)) /\ AddedInEach(Append(d, c)) = Append(AddedInEach(d), AddedIn(c))
  <2> DEFINE g == [k \in GitChange |-> AddedIn(k)]
             Y == Seq(Addition)
  <2>1. g[c] = AddedIn(c)
    OBVIOUS
  <2>2. \A s \in Seq(GitChange) : [i \in DOMAIN s |-> g[s[i]]] = AddedInEach(s)
    BY <1>1 DEF AddedInEach
  <2>3. g \in [GitChange -> Y]
    BY HunksOf
  <2> HIDE DEF g, Y
  <2>4. /\ [i \in DOMAIN d |-> g[d[i]]] \in Seq(Y)
        /\ [i \in DOMAIN Append(d, c) |-> g[Append(d, c)[i]]] = Append([i \in DOMAIN d |-> g[d[i]]], g[c])
    BY <2>3, MapAppend
  <2> QED BY <1>1, <2>1, <2>2, <2>4 DEF Y
<1> QED BY <1>2, <1>3, <1>4

FilesKnown(d, place, line) == Known(EachRecovered(d), Flatten(AddedInEach(d)), place, line)

LEMMA FilesRead ==
  ASSUME NEW d \in Seq(GitChange)
  PROVE  \E p, l : Leads(Known(<<>>, <<>>, "header", 0), Flatten(EachFile(d)), FilesKnown(d, p, l))
<1> DEFINE g == Known(<<>>, <<>>, "header", 0)
           Z == {s \in Seq(GitChange) : \E p, l : Leads(g, Flatten(EachFile(s)), FilesKnown(s, p, l))}
<1>1. <<>> \in Z
  <2>1. <<>> \in Seq(GitChange) /\ EachFile(<<>>) = <<>> /\ EachRecovered(<<>>) = <<>> /\ AddedInEach(<<>>) = <<>>
    BY EmptySeq DEF EachFile, EachRecovered, AddedInEach
  <2>2. FilesKnown(<<>>, "header", 0) = g
    BY <2>1, FlattenEmpty DEF FilesKnown
  <2> HIDE DEF g
  <2>3. Leads(g, Flatten(EachFile(<<>>)), FilesKnown(<<>>, "header", 0))
    BY <2>1, <2>2, FlattenEmpty, LeadsNothing
  <2> QED BY <2>1, <2>3
<1>2. ASSUME NEW s \in Seq(GitChange), NEW c \in GitChange, s \in Z PROVE Append(s, c) \in Z
  <2> DEFINE V == EachRecovered(s)
             A == Flatten(AddedInEach(s))
  <2>1. PICK p, l : Leads(g, Flatten(EachFile(s)), FilesKnown(s, p, l))
    BY <1>2
  <2>2. V \in Seq(Views) /\ A \in Seq(Addition) /\ Flatten(EachFile(s)) \in Seq(Lines)
    BY FilesAppend, FlattenType
  <2>3. GitFile(c) \in Seq(Lines) /\ AddedIn(c) \in Seq(Addition)
    BY <2>2, FileRead, HunksOf
  <2>4. /\ Flatten(EachFile(Append(s, c))) = Flatten(EachFile(s)) \o GitFile(c)
        /\ EachRecovered(Append(s, c)) = Append(V, Recovered(c))
        /\ Flatten(AddedInEach(Append(s, c))) = A \o AddedIn(c)
    BY <2>3, FilesAppend, FlattenAppend
  <2>5. FilesKnown(s, p, l) = Known(V, A, p, l)
    BY DEF FilesKnown
  <2> HIDE DEF V, A, g
  <2>6. PICK q, m : Leads(Known(V, A, p, l), GitFile(c), FileKnown(V, A, c, q, m))
    BY <2>2, FileRead
  <2>7. FileKnown(V, A, c, q, m) = FilesKnown(Append(s, c), q, m)
    BY <2>4 DEF FileKnown, FilesKnown
  <2>8. Leads(g, Flatten(EachFile(Append(s, c))), FilesKnown(Append(s, c), q, m))
    BY <2>1, <2>2, <2>3, <2>4, <2>5, <2>6, <2>7, LeadsOn
  <2>9. Append(s, c) \in Seq(GitChange)
    BY AppendProperties
  <2> QED BY <2>8, <2>9
<1> HIDE DEF Z
<1>3. Seq(GitChange) \subseteq Z
  BY <1>1, <1>2, AppendInduction
<1> QED BY <1>3 DEF Z

LEMMA KnownFirst == Parsed(FirstLine, Known(<<>>, <<>>, "header", 0))
<1>1. Kept(<<>>) = <<>> /\ Len(<<>>) = 0
  <2>1. <<>> \in Seq(Addition) /\ Len(<<>>) = 0 /\ MaxCaptured \in Nat
    BY EmptySeq, ReportAssumption
  <2>2. Kept(<<>>) = SubSeq(<<>>, 1, 0)
    BY <2>1 DEF Kept
  <2> QED BY <2>1, <2>2
<1>2. State(FirstLine, <<>>, "header", 0, <<>>)
  <2>1. FirstLine = [x \in Variables |-> FirstLine[x]]
    BY DEF FirstLine, Variables
  <2>2. FirstLine.files = <<>> /\ FirstLine.hunk = FALSE /\ FirstLine.line = 0 /\ FirstLine.captured = 0
    BY DEF FirstLine
  <2> QED BY <1>1, <2>1, <2>2 DEF State
<1>3. <<>> \in Seq(Parts) /\ ViewsOf(<<>>) = <<>> /\ AddedOf(<<>>) = <<>> /\ DOMAIN <<>> = {}
  BY EmptySeq DEF ViewsOf, AddedOf
<1> DEFINE files == <<>>
<1>4. /\ files \in Seq(Parts) /\ State(FirstLine, files, "header", 0, <<>>) /\ ViewsOf(files) = <<>>
      /\ Flatten(AddedOf(files)) = Kept(<<>>) /\ \A i \in DOMAIN files : Len(files[i].added) <= files[i].plus
  BY <1>1, <1>2, <1>3, FlattenEmpty
<1> HIDE DEF files
<1> QED BY <1>4 DEF Parsed, Known

LEMMA DiffType == \A d \in Diffs : d \in Seq(AnyChange)
<1> TAKE d \in Diffs
<1>1. d \in Seq(FileDiff) /\ \A i \in DOMAIN d : IsChange(d[i])
  BY ReportAssumption
<1>2. DOMAIN d = 1 .. Len(d) /\ Len(d) \in Nat /\ d = [i \in 1 .. Len(d) |-> d[i]] /\ \A i \in 1 .. Len(d) : d[i] \in FileDiff
  BY <1>1, LenProperties
<1>3. \A i \in 1 .. Len(d) : d[i] \in AnyChange
  BY <1>1, <1>2 DEF AnyChange
<1>4. [i \in 1 .. Len(d) |-> d[i]] \in Seq(AnyChange)
  BY <1>2, <1>3, IsASeq
<1> QED BY <1>2, <1>4

LEMMA WholeDiff ==
  ASSUME NEW d \in Seq(AnyChange), \A i \in DOMAIN d : Whole(d[i])
  PROVE  d \in Seq(GitChange)
<1>1. DOMAIN d = 1 .. Len(d) /\ Len(d) \in Nat /\ d = [i \in 1 .. Len(d) |-> d[i]] /\ \A i \in 1 .. Len(d) : d[i] \in AnyChange
  BY LenProperties
<1>2. \A i \in 1 .. Len(d) : d[i] \in GitChange
  BY <1>1 DEF GitChange
<1>3. [i \in 1 .. Len(d) |-> d[i]] \in Seq(GitChange)
  BY <1>1, <1>2, IsASeq
<1> QED BY <1>1, <1>3

LEMMA GitType == \A d \in Seq(AnyChange) : Git(d) \in Seq(Lines)
<1> TAKE d \in Seq(AnyChange)
<1>1. Git(d) = Flatten(EachFile(d))
  BY DEF Git, EachFile
<1>2. DOMAIN d = 1 .. Len(d) /\ Len(d) \in Nat /\ \A i \in 1 .. Len(d) : GitFile(d[i]) \in Seq(Lines)
  <2>1. \A i \in 1 .. Len(d) : d[i] \in AnyChange
    BY LenProperties
  <2> QED BY <2>1, FileType, LenProperties
<1>3. EachFile(d) \in Seq(Seq(Lines))
  BY <1>2, IsASeq DEF EachFile
<1> QED BY <1>1, <1>3, FlattenType

(* A parser that has read all of a diff has recovered its changes.         *)
Recovers(s, d) ==
  \E files \in Seq(Parts) :
    /\ s.files = files
    /\ Len(files) = Len(d)
    /\ \A i \in DOMAIN d : View(files[i]) = Recovered(d[i]) /\ Len(files[i].added) <= files[i].plus
    /\ Flatten(AddedOf(files)) = Kept(AllAdded(d))

LEMMA AllRecovered ==
  ASSUME NEW d \in Seq(GitChange), NEW s, Run(FirstLine, Git(d), s)
  PROVE  Recovers(s, d)
<1>1. Git(d) = Flatten(EachFile(d)) /\ AllAdded(d) = Flatten(AddedInEach(d))
  BY DEF Git, EachFile, AllAdded, AddedInEach
<1>2. PICK p, l : Leads(Known(<<>>, <<>>, "header", 0), Git(d), FilesKnown(d, p, l))
  BY <1>1, FilesRead
<1>3. PICK t : Run(FirstLine, Git(d), t) /\ Parsed(t, FilesKnown(d, p, l))
  BY <1>2, KnownFirst DEF Leads
<1>4. Git(d) \in Seq(Lines)
  <2>1. EachFile(d) \in Seq(Seq(Lines))
    <3>1. \A i \in 1 .. Len(d) : d[i] \in GitChange
      BY LenProperties
    <3>2. DOMAIN d = 1 .. Len(d) /\ Len(d) \in Nat /\ \A i \in 1 .. Len(d) : GitFile(d[i]) \in Seq(Lines)
      BY <3>1, WholeHunks, FileType, LenProperties
    <3> QED BY <3>2, IsASeq DEF EachFile
  <2> QED BY <1>1, <2>1, FlattenType
<1>5. s = t
  BY <1>3, <1>4, RunDetermined
<1>6. PICK files \in Seq(Parts) :
        /\ State(s, files, p, l, Flatten(AddedInEach(d)))
        /\ ViewsOf(files) = EachRecovered(d)
        /\ Flatten(AddedOf(files)) = Kept(Flatten(AddedInEach(d)))
        /\ \A i \in DOMAIN files : Len(files[i].added) <= files[i].plus
  BY <1>3, <1>5 DEF Parsed, FilesKnown, Known
<1>7. s.files = files
  BY <1>6 DEF State
<1>8. DOMAIN files = DOMAIN d /\ \A i \in DOMAIN d : View(files[i]) = Recovered(d[i])
  <2>1. DOMAIN ViewsOf(files) = DOMAIN files /\ DOMAIN EachRecovered(d) = DOMAIN d
    BY DEF ViewsOf, EachRecovered
  <2>2. \A i \in DOMAIN files : ViewsOf(files)[i] = View(files[i])
    BY DEF ViewsOf
  <2>3. \A i \in DOMAIN d : EachRecovered(d)[i] = Recovered(d[i])
    BY DEF EachRecovered
  <2> QED BY <1>6, <2>1, <2>2, <2>3
<1>9. Len(files) = Len(d)
  <2>1. DOMAIN files = 1 .. Len(files) /\ DOMAIN d = 1 .. Len(d) /\ Len(files) \in Nat /\ Len(d) \in Nat
    BY LenProperties
  <2>2. ASSUME NEW m \in Nat, NEW n \in Nat, 1 .. m = 1 .. n, m < n PROVE FALSE
    <3>1. n \in 1 .. n /\ n \notin 1 .. m
      BY <2>2
    <3> QED BY <2>2, <3>1
  <2>3. ~(Len(files) < Len(d)) /\ ~(Len(d) < Len(files))
    BY <1>8, <2>1, <2>2
  <2>4. \A m, n \in Nat : ~(m < n) /\ ~(n < m) => m = n
    OBVIOUS
  <2> QED BY <2>1, <2>3, <2>4
<1> QED BY <1>1, <1>6, <1>7, <1>8, <1>9 DEF Recovers

-----------------------------------------------------------------------------
(***************************************************************************)
(* The program                                                             *)
(***************************************************************************)
(* What was read and what is left of the diff; what was reported.          *)
ReadSoFar ==
  /\ diff \in Diffs /\ rest \in Seq(Lines)
  /\ \E L \in Seq(Lines) : Git(diff) = L \o rest /\ Run(FirstLine, L, parser)

ReportInv ==
  /\ at \in {"start", "reading", "done"}
  /\ at = "start" => parser = FirstLine
  /\ at \in {"reading", "done"} => ReadSoFar
  /\ at = "done" =>
       /\ rest = <<>>
       /\ \E config \in Configs, arena \in Answers, judge \in Answers :
            report = Report(parser.files, config, arena, judge)

LEMMA ReportInvInductive == ReportInv /\ [ReportNext]_reportVars => ReportInv'
<1> SUFFICES ASSUME ReportInv, [ReportNext]_reportVars PROVE ReportInv'
  OBVIOUS
<1>1. CASE ReadDiff
  <2>1. parser' = FirstLine /\ diff' \in Diffs /\ rest' = Git(diff') /\ at' = "reading"
    BY <1>1 DEF ReadDiff, ReportInv
  <2>2. Git(diff') \in Seq(Lines)
    BY <2>1, DiffType, GitType
  <2>3. <<>> \in Seq(Lines) /\ Git(diff') = <<>> \o rest' /\ Run(FirstLine, <<>>, parser')
    BY <2>1, <2>2, EmptySeq, ConcatEmptySeq, RunNothing
  <2>4. ReadSoFar'
    BY <2>1, <2>2, <2>3 DEF ReadSoFar
  <2> QED BY <2>1, <2>4 DEF ReportInv
<1>2. CASE ReadLine
  <2>1. ReadSoFar /\ rest # <<>> /\ parser' = Consume(parser, Head(rest)) /\ rest' = Tail(rest)
        /\ at' = "reading" /\ diff' = diff
    BY <1>2 DEF ReadLine, ReportInv
  <2>2. PICK L \in Seq(Lines) : Git(diff) = L \o rest /\ Run(FirstLine, L, parser)
    BY <2>1 DEF ReadSoFar
  <2>3. rest \in Seq(Lines) /\ diff \in Diffs
    BY <2>1 DEF ReadSoFar
  <2>4. Head(rest) \in Lines /\ Tail(rest) \in Seq(Lines) /\ rest = <<Head(rest)>> \o Tail(rest)
    <3> DEFINE h == Head(rest)
               t == Tail(rest)
    <3>1. /\ h \in Lines /\ t \in Seq(Lines) /\ h = rest[1] /\ Len(t) = Len(rest) - 1
          /\ \A i \in 1 .. Len(t) : t[i] = rest[i + 1]
      BY <2>1, <2>3, HeadTailProperties
    <3>2. Len(rest) \in Nat /\ Len(rest) # 0
      BY <2>1, <2>3, EmptySeq, LenProperties
    <3> HIDE DEF h, t
    <3>3. /\ <<h>> \o t \in Seq(Lines) /\ Len(<<h>> \o t) = Len(t) + 1
          /\ \A i \in 1 .. Len(t) + 1 : (<<h>> \o t)[i] = IF i <= 1 THEN h ELSE t[i - 1]
      BY <3>1
    <3>4. Len(<<h>> \o t) = Len(rest) /\ \A i \in 1 .. Len(rest) : (<<h>> \o t)[i] = rest[i]
      <4>1. \A i \in 1 .. Len(rest) : i = 1 \/ (i - 1 \in 1 .. Len(t) /\ (i - 1) + 1 = i /\ ~(i <= 1))
        BY <3>1, <3>2
      <4> QED BY <3>1, <3>2, <3>3, <4>1
    <3>5. rest = <<h>> \o t
      BY <2>3, <3>3, <3>4, SeqEqual
    <3> QED BY <3>1, <3>5 DEF h, t
  <2> DEFINE M == <<Head(rest)>>
  <2>5. M \in Seq(Lines)
    BY <2>4, OneLine
  <2>6. Run(parser, M, parser')
    BY <2>1, RunOne
  <2> HIDE DEF M
  <2>7. L \o M \in Seq(Lines) /\ Run(FirstLine, L \o M, parser')
    BY <2>2, <2>5, <2>6, RunOn, ConcatProperties
  <2>8. Git(diff) = (L \o M) \o Tail(rest)
    BY <2>2, <2>4, <2>5, ConcatAssociative DEF M
  <2>9. ReadSoFar'
    BY <2>1, <2>3, <2>4, <2>7, <2>8 DEF ReadSoFar
  <2> QED BY <2>1, <2>9 DEF ReportInv
<1>3. CASE Conclude
  <2>1. ReadSoFar /\ rest = <<>> /\ at' = "done" /\ UNCHANGED <<diff, rest, parser>>
    BY <1>3 DEF Conclude, ReportInv
  <2>2. \E config \in Configs, arena \in Answers, judge \in Answers :
          report' = Report(parser.files, config, arena, judge)
    BY <1>3 DEF Conclude
  <2>3. ReadSoFar'
    BY <2>1 DEF ReadSoFar
  <2> QED BY <2>1, <2>2, <2>3 DEF ReportInv
<1>4. CASE UNCHANGED reportVars
  BY <1>4 DEF reportVars, ReportInv, ReadSoFar
<1> QED BY <1>1, <1>2, <1>3, <1>4 DEF ReportNext

LEMMA ReportInvHolds == ReportSpec => []ReportInv
<1>1. ReportInit => ReportInv
  BY DEF ReportInit, ReportInv
<1> QED BY <1>1, ReportInvInductive, PTL DEF ReportSpec

LEMMA ReadAll ==
  ASSUME ReportInv, at # "start", rest = <<>>, \A i \in DOMAIN diff : Whole(diff[i])
  PROVE  diff \in Seq(GitChange) /\ Recovers(parser, diff)
<1>1. ReadSoFar
  BY DEF ReportInv
<1>2. PICK L \in Seq(Lines) : Git(diff) = L \o rest /\ Run(FirstLine, L, parser)
  BY <1>1 DEF ReadSoFar
<1>3. diff \in Seq(GitChange)
  BY <1>1, DiffType, WholeDiff DEF ReadSoFar
<1>4. Git(diff) = L
  BY <1>2, ConcatEmptySeq
<1> QED BY <1>2, <1>3, <1>4, AllRecovered

(* Whatever files the pull requests of the model add, delete, rename or    *)
(* change, and though the lines of a hunk may look like headers: if no     *)
(* text has a line break other than git's, a diff that was read to its end *)
(* has given back the status and counts of the changes that git wrote, the *)
(* lines they add, up to the limit, with their numbers, and the paths and  *)
(* file names that git writes so that the parser reads them                *)
(* (parse_unified_diff).                                                   *)
THEOREM ReportRecovers == ReportSpec => []DiffRecovered
<1>1. ReportInv => DiffRecovered
  <2> SUFFICES ASSUME ReportInv, at # "start", rest = <<>>, \A i \in DOMAIN diff : Whole(diff[i])
               PROVE  LET files == parser.files IN
                      /\ Len(files) = Len(diff)
                      /\ \A i \in DOMAIN diff :
                           /\ files[i].status = diff[i].status /\ files[i].binary = diff[i].binary
                           /\ files[i].plus = Times(diff[i], "add") /\ files[i].minus = Times(diff[i], "del")
                           /\ Exact(diff[i]) => files[i].path = diff[i].path
                           /\ Legible(diff[i]) => files[i].path.name = diff[i].path.name
                      /\ Flatten([i \in DOMAIN files |-> files[i].added]) = Kept(AllAdded(diff))
    BY DEF DiffRecovered
  <2>1. diff \in Seq(GitChange) /\ Recovers(parser, diff)
    BY ReadAll
  <2>2. PICK files \in Seq(Parts) :
          /\ parser.files = files
          /\ Len(files) = Len(diff)
          /\ \A i \in DOMAIN diff : View(files[i]) = Recovered(diff[i])
          /\ Flatten(AddedOf(files)) = Kept(AllAdded(diff))
    BY <2>1 DEF Recovers
  <2>3. ASSUME NEW i \in DOMAIN diff
        PROVE  /\ files[i].status = diff[i].status /\ files[i].binary = diff[i].binary
               /\ files[i].plus = Times(diff[i], "add") /\ files[i].minus = Times(diff[i], "del")
               /\ Exact(diff[i]) => files[i].path = diff[i].path
               /\ Legible(diff[i]) => files[i].path.name = diff[i].path.name
    <3>1. View(files[i]) = Recovered(diff[i])
      BY <2>2, <2>3
    <3>2. files[i].path = PathRead(diff[i])
      BY <3>1 DEF View, Recovered
    <3>3. diff[i] \in AnyChange
      <4>1. diff[i] \in GitChange
        BY <2>1, LenProperties
      <4> QED BY <4>1, WholeHunks
    <3>4. Exact(diff[i]) => files[i].path = diff[i].path
      BY <3>2, <3>3, PathReadFacts
    <3>5. Legible(diff[i]) => files[i].path.name = diff[i].path.name
      BY <3>2, <3>3, PathReadFacts
    <3> QED BY <3>1, <3>4, <3>5 DEF View, Recovered
  <2> QED BY <2>2, <2>3 DEF AddedOf
<1> QED BY <1>1, ReportInvHolds, PTL

-----------------------------------------------------------------------------
(***************************************************************************)
(* The report                                                              *)
(***************************************************************************)
EnvLeft(files) == \E i \in DOMAIN files : EnvFile(files[i].path) /\ files[i].status # "deleted"

LEMMA HighLevel ==
  ASSUME NEW files
  PROVE  Level(Signals(files)) = "HIGH" <=> EnvLeft(files) \/ Secrets(files) # {}
<1> DEFINE some(P(_)) == \E i \in DOMAIN files : P(files[i])
           coded(f) == Category(f.path) = "code" /\ f.path.top \in CodeRoots /\ ~f.binary
           tested(f) == Category(f.path) = "tests"
           rule(level, code, raised) == [level |-> level, code |-> code, raised |-> raised]
           env == rule("HIGH", "env-file-tracked", EnvLeft(files))
           secret == rule("HIGH", "secret-like-addition", Secrets(files) # {})
           path == rule("MEDIUM", "sensitive-path", some(LAMBDA f : Sensitive(f.path)))
           code == rule("MEDIUM", "code-without-tests", some(coded) /\ ~some(tested))
           tests == rule("MEDIUM", "tests-deleted", some(LAMBDA f : tested(f) /\ f.status = "deleted"))
           binary == rule("INFO", "binary-files", some(LAMBDA f : f.binary))
           large == rule("INFO", "large-diff", Total(files) > LargeDiff)
           signals == Signals(files)
<1>1. Level(signals) = "HIGH" <=> \E s \in signals : s.level = "HIGH"
  <2> HIDE DEF signals
  <2> QED BY Zenon DEF Level
<1>2. ASSUME NEW s \in signals, s.level = "HIGH" PROVE EnvLeft(files) \/ Secrets(files) # {}
  <2>1. s \in {env, secret, path, code, tests, binary, large} /\ s.raised
    BY Zenon DEF Signals, EnvLeft
  <2>2. /\ path.level = "MEDIUM" /\ code.level = "MEDIUM" /\ tests.level = "MEDIUM"
        /\ binary.level = "INFO" /\ large.level = "INFO"
    OBVIOUS
  <2>3. (env.raised <=> EnvLeft(files)) /\ (secret.raised <=> Secrets(files) # {})
    OBVIOUS
  <2> HIDE DEF env, secret, path, code, tests, binary, large
  <2>4. s = env \/ s = secret
    BY <1>2, <2>1, <2>2
  <2> QED BY <2>1, <2>3, <2>4, Zenon
<1>3. ASSUME EnvLeft(files) PROVE \E s \in signals : s.level = "HIGH"
  <2>1. env \in signals
    BY <1>3, Zenon DEF Signals, EnvLeft
  <2>2. env.level = "HIGH"
    OBVIOUS
  <2> QED BY <2>1, <2>2, Zenon
<1>4. ASSUME Secrets(files) # {} PROVE \E s \in signals : s.level = "HIGH"
  <2>1. secret \in signals
    BY <1>4, Zenon DEF Signals
  <2>2. secret.level = "HIGH"
    OBVIOUS
  <2> QED BY <2>1, <2>2, Zenon
<1> QED BY <1>1, <1>2, <1>3, <1>4, Zenon

LEMMA NothingAdded ==
  ASSUME NEW c \in GitChange, c.binary \/ c.status = "deleted"
  PROVE  Times(c, "add") = 0
<1>1. CASE c.binary
  <2>1. c.hunks = <<>>
    BY <1>1, WholeHunks, ChangeFacts
  <2> QED BY <2>1, NoHunks
<1>2. CASE c.status = "deleted"
  <2>1. Bodies(c) = Flatten(EachBody(c.hunks)) /\ Times(c, "add") = Ops(Bodies(c), "add")
    BY HunksOf
  <2>2. c.hunks \in Seq(Hunk) /\ \A i \in DOMAIN c.hunks : \A k \in DOMAIN c.hunks[i].body : c.hunks[i].body[k].op \in {"del", "remark"}
    BY <1>2, WholeHunks, ChangeFacts
  <2>3. EachBody(c.hunks) \in Seq(Seq(Marked))
    <3>1. \A i \in DOMAIN c.hunks : c.hunks[i].body \in Seq(Marked)
      BY <2>2, HunkFacts, LenProperties
    <3>2. DOMAIN c.hunks = 1 .. Len(c.hunks) /\ Len(c.hunks) \in Nat
      BY <2>2, LenProperties
    <3> QED BY <3>1, <3>2, IsASeq DEF EachBody
  <2>4. ToSet(Bodies(c)) = UNION {ToSet(EachBody(c.hunks)[i]) : i \in DOMAIN EachBody(c.hunks)}
    BY <2>1, <2>3, FlattenRange
  <2>5. ASSUME NEW b \in ToSet(Bodies(c)) PROVE b.op \in {"del", "remark"}
    <3>1. PICK i \in DOMAIN EachBody(c.hunks) : b \in ToSet(EachBody(c.hunks)[i])
      BY <2>4, <2>5
    <3>2. i \in DOMAIN c.hunks /\ b \in ToSet(c.hunks[i].body)
      BY <3>1 DEF EachBody
    <3> QED BY <2>2, <3>2 DEF ToSet
  <2>6. \A k \in DOMAIN Bodies(c) : Bodies(c)[k].op \in {"del", "remark"}
    <3>1. \A k \in DOMAIN Bodies(c) : Bodies(c)[k] \in ToSet(Bodies(c))
      BY DEF ToSet
    <3> QED BY <2>5, <3>1
  <2>7. {k \in DOMAIN Bodies(c) : Bodies(c)[k].op = "add"} = {}
    BY <2>6
  <2> QED BY <2>1, <2>7, FS_EmptySet DEF Ops
<1> QED BY <1>1, <1>2

LEMMA SecretsKept ==
  ASSUME NEW d \in Seq(GitChange), NEW files \in Seq(Parts),
         Len(files) = Len(d),
         \A i \in DOMAIN d : View(files[i]) = Recovered(d[i]) /\ Len(files[i].added) <= files[i].plus,
         Flatten(AddedOf(files)) = Kept(AllAdded(d))
  PROVE  Secrets(files) # {} <=> \E k \in DOMAIN Kept(AllAdded(d)) : Kept(AllAdded(d))[k].text \in Suspicious
<1> DEFINE K == Kept(AllAdded(d))
<1>1. /\ DOMAIN files = DOMAIN d /\ \A i \in DOMAIN files : files[i] \in Parts /\ d[i] \in GitChange
      /\ DOMAIN AddedOf(files) = DOMAIN files /\ \A i \in DOMAIN files : AddedOf(files)[i] = files[i].added
  <2>1. DOMAIN files = 1 .. Len(files) /\ DOMAIN d = 1 .. Len(d)
    BY LenProperties
  <2>2. \A i \in 1 .. Len(d) : files[i] \in Parts /\ d[i] \in GitChange
    BY LenProperties
  <2> QED BY <2>1, <2>2 DEF AddedOf
<1>2. AddedOf(files) \in Seq(Seq(Addition))
  <2>1. DOMAIN files = 1 .. Len(files) /\ Len(files) \in Nat
    BY LenProperties
  <2>2. \A i \in 1 .. Len(files) : files[i].added \in Seq(Addition)
    BY <1>1, <2>1 DEF Parts
  <2> QED BY <2>1, <2>2, IsASeq DEF AddedOf
<1>3. ToSet(K) = UNION {ToSet(AddedOf(files)[i]) : i \in DOMAIN AddedOf(files)}
  BY <1>2, FlattenRange
<1>4. \A a : a \in ToSet(K) <=> \E i \in DOMAIN files : a \in ToSet(files[i].added)
  BY <1>1, <1>3
<1>5. \A a : a \in ToSet(K) <=> \E k \in DOMAIN K : a = K[k]
  BY DEF ToSet
<1> HIDE DEF K
<1>6. ASSUME NEW s \in Secrets(files) PROVE \E k \in DOMAIN K : K[k].text \in Suspicious
  <2>1. PICK i \in DOMAIN files : s \in {i} \X ToSet(files[i].added)
    BY <1>6 DEF Secrets
  <2>2. s[2] \in ToSet(files[i].added) /\ s[2].text \in Suspicious
    BY <1>6, <2>1 DEF Secrets
  <2>3. s[2] \in ToSet(K)
    BY <1>4, <2>1, <2>2
  <2> QED BY <1>5, <2>2, <2>3
<1>7. ASSUME NEW k \in DOMAIN K, K[k].text \in Suspicious PROVE Secrets(files) # {}
  <2> DEFINE a == K[k]
  <2>1. a \in ToSet(K)
    BY <1>5
  <2> HIDE DEF a
  <2>2. PICK i \in DOMAIN files : a \in ToSet(files[i].added)
    BY <1>4, <2>1
  <2>3. Len(files[i].added) # 0
    <3>1. files[i].added \in Seq(Addition)
      BY <1>1 DEF Parts
    <3>2. DOMAIN files[i].added # {}
      BY <2>2 DEF ToSet
    <3>3. DOMAIN files[i].added = 1 .. Len(files[i].added) /\ Len(files[i].added) \in Nat
      BY <3>1, LenProperties
    <3> QED BY <3>2, <3>3
  <2>4. d[i] \in GitChange /\ View(files[i]) = Recovered(d[i]) /\ Len(files[i].added) <= files[i].plus
        /\ Len(files[i].added) \in Nat
    <3>1. files[i].added \in Seq(Addition)
      BY <1>1 DEF Parts
    <3> QED BY <1>1, <3>1, LenProperties
  <2>5. files[i].plus = Times(d[i], "add") /\ files[i].binary = d[i].binary /\ files[i].status = d[i].status
    BY <2>4 DEF View, Recovered
  <2>6. files[i].plus # 0
    <3>1. files[i].plus \in Nat
      BY <2>4, <2>5, HunksOf
    <3> QED BY <2>3, <2>4, <3>1
  <2>7. ~(d[i].binary \/ d[i].status = "deleted")
    BY <2>4, <2>5, <2>6, NothingAdded, Zenon
  <2>8. ~files[i].binary /\ files[i].status # "deleted"
    BY <2>5, <2>7, Zenon
  <2> DEFINE s == <<i, a>>
  <2>9. s \in {i} \X ToSet(files[i].added) /\ s[1] = i /\ s[2] = a
    BY <2>2
  <2>10. a.text \in Suspicious
    BY <1>7 DEF a
  <2> HIDE DEF s
  <2>11. s \in UNION {{j} \X ToSet(files[j].added) : j \in DOMAIN files}
    BY <2>9
  <2>12. s \in Secrets(files)
    BY <2>8, <2>9, <2>10, <2>11, Zenon DEF Secrets
  <2> QED BY <2>12
<1> QED BY <1>6, <1>7 DEF K

LEMMA ServerWords ==
  ASSUME NEW config \in Configs, NEW arena, NEW judge
  PROVE  /\ Benchmark(config, arena) = "FAIL" <=> config.arena = "live" /\ arena \in {"FAIL", "rejected"}
         /\ Benchmark(config, arena) = "PASS" => config.arena = "live" /\ arena \in {"PASS", "passed"}
         /\ Judge(config, judge) = "FAIL" <=> config.judge = "live" /\ judge \in {"FAIL", "rejected"}
         /\ Judge(config, judge) = "PASS" => config.judge = "live" /\ judge \in {"PASS", "passed"}
<1>1. config.arena \in {"mock", "offline", "live"} /\ config.judge \in {"mock", "off", "live"}
  BY DEF Configs
<1>2. /\ Benchmark(config, arena) = "FAIL" <=> config.arena = "live" /\ arena \in {"FAIL", "rejected"}
      /\ Benchmark(config, arena) = "PASS" => config.arena = "live" /\ arena \in {"PASS", "passed"}
  BY <1>1 DEF Benchmark, Read, Words, Icons
<1>3. /\ Judge(config, judge) = "FAIL" <=> config.judge = "live" /\ judge \in {"FAIL", "rejected"}
      /\ Judge(config, judge) = "PASS" => config.judge = "live" /\ judge \in {"PASS", "passed"}
  BY <1>1 DEF Judge, Read, Words
<1> QED BY <1>2, <1>3

(* A strict run fails exactly when the pull request leaves a plain .env    *)
(* file whose name is read, has something like a secret among the added    *)
(* lines that were captured, or a server that was asked says FAIL, if no   *)
(* text has a line break other than git's; and no PASS is reported that a  *)
(* server did not answer (build_report and main of the script).            *)
THEOREM ReportIsHonest == ReportSpec => []StrictIsHonest
<1>1. ReportInv => StrictIsHonest
  <2> SUFFICES ASSUME ReportInv, at = "done" PROVE StrictIsHonest
    BY DEF StrictIsHonest
  <2> DEFINE added == Kept(AllAdded(diff))
             whole == \A i \in DOMAIN diff : Whole(diff[i])
             env == \E i \in DOMAIN diff :
                      EnvFile(diff[i].path) /\ Legible(diff[i]) /\ diff[i].status # "deleted"
             secret == \E k \in DOMAIN added : added[k].text \in Suspicious
             said(asked, answer, words) == diff # <<>> /\ asked = "live" /\ answer \in words
             files == parser.files
  <2>1. PICK config \in Configs, arena \in Answers, judge \in Answers :
          report = Report(files, config, arena, judge)
    BY DEF ReportInv
  <2>2. ASSUME whole PROVE diff \in Seq(GitChange) /\ Recovers(parser, diff)
    BY <2>2, ReadAll DEF ReportInv
  <2>3. ASSUME whole
        PROVE  /\ files \in Seq(Parts) /\ Len(files) = Len(diff)
               /\ \A i \in DOMAIN diff : View(files[i]) = Recovered(diff[i]) /\ Len(files[i].added) <= files[i].plus
               /\ Flatten(AddedOf(files)) = Kept(AllAdded(diff))
    BY <2>2, <2>3 DEF Recovers
  <2>4. ASSUME whole PROVE DOMAIN files = DOMAIN diff /\ (files = <<>> <=> diff = <<>>)
    <3>1. DOMAIN files = 1 .. Len(files) /\ DOMAIN diff = 1 .. Len(diff)
      BY <2>2, <2>3, <2>4, LenProperties
    <3>2. (files = <<>> <=> Len(files) = 0) /\ (diff = <<>> <=> Len(diff) = 0)
      BY <2>2, <2>3, <2>4, EmptySeq
    <3> QED BY <2>3, <2>4, <3>1, <3>2
  <2>5. diff = <<>> => files = <<>>
    <3>1. diff = <<>> => whole
      BY EmptySeq
    <3> QED BY <2>4, <3>1
  <2>6. ASSUME whole PROVE EnvLeft(files) <=> env
    <3>1. ASSUME NEW i \in DOMAIN diff
          PROVE  /\ EnvFile(files[i].path) <=> EnvFile(diff[i].path) /\ Legible(diff[i])
                 /\ files[i].status = diff[i].status
      <4>1. files[i].path = PathRead(diff[i]) /\ files[i].status = diff[i].status
        BY <2>3, <2>6, <3>1 DEF View, Recovered
      <4>2. diff[i] \in AnyChange
        <5>1. diff[i] \in GitChange
          BY <2>2, <2>6, <3>1, LenProperties
        <5> QED BY <5>1, WholeHunks
      <4> QED BY <4>1, <4>2, PathReadFacts
    <3>2. DOMAIN files = DOMAIN diff
      BY <2>4, <2>6
    <3> HIDE DEF files
    <3> QED BY <3>1, <3>2, Zenon DEF EnvLeft
  <2>7. ASSUME whole PROVE Secrets(files) # {} <=> secret
    BY <2>2, <2>3, <2>7, SecretsKept
  <2>8. ASSUME whole PROVE Level(Signals(files)) = "HIGH" <=> env \/ secret
    <3> HIDE DEF env, secret, files
    <3> QED BY <2>6, <2>7, <2>8, HighLevel, Zenon
  <2>9. /\ report.config = config /\ report.arena = arena /\ report.judge = judge
        /\ report.level = Level(Signals(files))
        /\ report.benchmark = IF files = <<>> THEN "SKIPPED" ELSE Benchmark(config, arena)
        /\ report.verdict = IF files = <<>> THEN "SKIPPED" ELSE Judge(config, judge)
    BY <2>1 DEF Report
  <2> HIDE DEF files, env, secret, whole
  <2>10. /\ report.benchmark = "PASS" => said(config.arena, arena, {"PASS", "passed"})
         /\ report.verdict = "PASS" => said(config.judge, judge, {"PASS", "passed"})
    BY <2>5, <2>9, ServerWords
  <2>11. ASSUME whole
         PROVE  /\ report.benchmark = "FAIL" <=> said(config.arena, arena, {"FAIL", "rejected"})
                /\ report.verdict = "FAIL" <=> said(config.judge, judge, {"FAIL", "rejected"})
    BY <2>4, <2>9, <2>11, ServerWords
  <2>12. ExitCode = 2 <=> config.strict /\ (report.level = "HIGH" \/ report.benchmark = "FAIL" \/ report.verdict = "FAIL")
    BY <2>9 DEF ExitCode
  <2>13. whole => (ExitCode = 2 <=> config.strict /\ ((env \/ secret) \/ said(config.arena, arena, {"FAIL", "rejected"})
                                                       \/ said(config.judge, judge, {"FAIL", "rejected"})))
    BY <2>8, <2>9, <2>11, <2>12, Zenon
  <2> QED BY <2>9, <2>10, <2>13, Zenon DEF StrictIsHonest, Said, env, secret, whole
<1> QED BY <1>1, ReportInvHolds, PTL

===================================================================================
