------------------------ MODULE ApprovalProtocol_proofs ------------------------
(***************************************************************************)
(* Proofs about ApprovalProtocol for any number of runs, sessions, worker  *)
(* threads and gated calls.                                                *)
(***************************************************************************)
EXTENDS ApprovalProtocol, FiniteSetTheorems, TLAPS

(***************************************************************************)
(* What the purge does to a table of rows: it keeps their type, opens      *)
(* nothing, and leaves alone every row that is still open afterwards.      *)
(***************************************************************************)
LEMMA PurgeFacts ==
  ASSUME row \in [Runs -> Rows]
  PROVE  /\ ExpiredRows \in [Runs -> Rows]
         /\ \A r \in Runs :
              /\ ExpiredRows[r].st = "open" => ExpiredRows[r] = row[r]
              /\ ExpiredRows[r].snap = row[r].snap
              /\ row[r].st # "open" => ExpiredRows[r] = row[r]
              /\ ExpiredRows[r] # row[r] => /\ row[r].st = "open"
                                            /\ ExpiredRows[r].st = "closed"
                                            /\ ExpiredRows[r].dec = "expired"
<1> SUFFICES ASSUME NEW r \in Runs
             PROVE  /\ Expire(row[r]) \in Rows
                    /\ Expire(row[r]).st = "open" => Expire(row[r]) = row[r]
                    /\ Expire(row[r]).snap = row[r].snap
                    /\ row[r].st # "open" => Expire(row[r]) = row[r]
                    /\ Expire(row[r]) # row[r] => /\ row[r].st = "open"
                                                  /\ Expire(row[r]).st = "closed"
                                                  /\ Expire(row[r]).dec = "expired"
  BY Zenon DEF ExpiredRows
<1>1. row[r] \in Rows
  OBVIOUS
<1>2. CASE row[r].st = "open" /\ row[r].ttl = "passed"
  BY <1>1, <1>2 DEF Expire, Rows
<1>3. CASE ~(row[r].st = "open" /\ row[r].ttl = "passed")
  BY <1>1, <1>3 DEF Expire
<1> QED BY <1>2, <1>3

LEMMA PurgeAuditType ==
  ASSUME audit \in [Runs -> Audits]
  PROVE  ExpiredAudit \in [Runs -> Audits]
BY ConstantsAssumption DEF ExpiredAudit, Audits, AuditDecisions

(***************************************************************************)
(* Type correctness needs only that a thread about to run a gated call     *)
(* points at one.                                                          *)
(***************************************************************************)
LEMMA InitTypeOK == Init => TypeOK
<1> SUFFICES ASSUME Init PROVE TypeOK
  OBVIOUS
<1>0. Fresh \in Snapshots
  BY ConstantsAssumption DEF Fresh, Snapshots
<1>1. NoRow \in Rows
  BY <1>0 DEF NoRow, Rows
<1>2. NoAudit \in Audits
  BY ConstantsAssumption DEF NoAudit, Audits
<1>3. Idle \in Jobs
  BY <1>0, ConstantsAssumption DEF Idle, Jobs, Stages
<1> QED BY <1>1, <1>2, <1>3 DEF Init, TypeOK

(***************************************************************************)
(* The record updates of the actions keep the types of jobs and rows.      *)
(***************************************************************************)
LEMMA JobUpdates ==
  ASSUME NEW j \in Jobs
  PROVE  /\ [j EXCEPT !.pc = "driving"] \in Jobs
         /\ [j EXCEPT !.pc = "resolved"] \in Jobs
         /\ j.snap.at \in Calls => [j EXCEPT !.snap.at = @ + 1] \in Jobs
<1>1. j = [pc |-> j.pc, run |-> j.run, snap |-> j.snap, dec |-> j.dec, meant |-> j.meant]
  BY DEF Jobs
<1>2. /\ j.run \in Runs \cup {NoRun} /\ j.snap \in Snapshots
      /\ j.dec \in Answers \cup {"none"} /\ j.meant \in 0 .. NCalls
  BY DEF Jobs
<1>3. [j EXCEPT !.pc = "driving"] \in Jobs /\ [j EXCEPT !.pc = "resolved"] \in Jobs
  BY <1>2 DEF Jobs, Stages
<1>4. ASSUME j.snap.at \in Calls PROVE [j EXCEPT !.snap.at = @ + 1] \in Jobs
  <2>1. [j.snap EXCEPT !.at = @ + 1] \in Snapshots
    BY <1>2, <1>4, ConstantsAssumption DEF Snapshots, Calls
  <2>2. [j EXCEPT !.snap.at = @ + 1] = [j EXCEPT !.snap = [j.snap EXCEPT !.at = @ + 1]]
    BY <1>1
  <2> QED BY <1>2, <2>1, <2>2 DEF Jobs
<1> QED BY <1>3, <1>4

LEMMA RowUpdates ==
  ASSUME NEW w \in Rows
  PROVE  /\ [w EXCEPT !.ttl = "passed"] \in Rows
         /\ \A d \in Answers : [w EXCEPT !.st = "closed", !.dec = d] \in Rows
<1>1. w.dec \in Answers \cup {"none", "expired"} /\ w.snap \in Snapshots /\ w.ttl \in {"running", "passed"}
  BY DEF Rows
<1>2. [w EXCEPT !.ttl = "passed"] \in Rows
  BY <1>1 DEF Rows
<1>3. ASSUME NEW d \in Answers PROVE [w EXCEPT !.st = "closed", !.dec = d] \in Rows
  BY <1>1 DEF Rows
<1> QED BY <1>2, <1>3

LEMMA NextTypeOK == TypeOK /\ WellFormed /\ [Next]_vars => TypeOK'
<1> SUFFICES ASSUME TypeOK, WellFormed, [Next]_vars PROVE TypeOK'
  OBVIOUS
<1> USE DEF TypeOK
<1>0. Fresh \in Snapshots /\ Idle \in Jobs
  BY ConstantsAssumption DEF Fresh, Snapshots, Idle, Jobs, Stages
<1>p. ExpiredRows \in [Runs -> Rows] /\ ExpiredAudit \in [Runs -> Audits]
  BY PurgeFacts, PurgeAuditType
<1>1. ASSUME NEW h \in Handlers, ChatStart(h) PROVE TypeOK'
  <2>1. [job[h] EXCEPT !.pc = "driving"] \in Jobs
    BY JobUpdates
  <2> QED BY <1>1, <2>1 DEF ChatStart, Step, history
<1>2. ASSUME NEW h \in Handlers, RunApprovedTool(h) PROVE TypeOK'
  <2>1. [job[h] EXCEPT !.snap.at = @ + 1] \in Jobs
    BY <1>2, JobUpdates DEF RunApprovedTool, AtGatedCall
  <2> QED BY <1>2, <2>1 DEF RunApprovedTool, Step, history
<1>3. ASSUME NEW h \in Handlers, Suspend(h) PROVE TypeOK'
  <2> DEFINE r == job[h].run
             snap == job[h].snap
             new == [st |-> "open", dec |-> "none", snap |-> snap, ttl |-> "running"]
  <2>1. snap \in Snapshots /\ snap.at \in Calls
    BY <1>3 DEF Suspend, AtGatedCall, Jobs
  <2>2. r \in Runs
    BY <1>3 DEF Suspend, AtGatedCall, WellFormed
  <2>3. new \in Rows /\ [call |-> snap.at, dec |-> "none"] \in Audits
    BY <2>1, ConstantsAssumption DEF Rows, Audits, Calls
  <2>4. row' \in [Runs -> Rows] /\ audit' \in [Runs -> Audits]
    BY <1>3, <1>p, <2>2, <2>3 DEF Suspend, SavePending
  <2>5. asked' \in [Runs -> SUBSET Calls]
    BY <1>3, <2>1, <2>2 DEF Suspend
  <2>6. job' \in [Handlers -> Jobs]
    BY <1>3, <1>0 DEF Suspend, Return, Step
  <2> QED BY <1>3, <2>4, <2>5, <2>6 DEF Suspend, history
<1>4. ASSUME NEW h \in Handlers, SuspendRefused(h) PROVE TypeOK'
  BY <1>4, <1>0, <1>p DEF SuspendRefused, PurgeOnly, Return, Step, history
<1>5. ASSUME NEW h \in Handlers, Finish(h) PROVE TypeOK'
  BY <1>5, <1>0 DEF Finish, Return, Step, history
<1>6. ASSUME NEW h \in Handlers, Resolve(h) PROVE TypeOK'
  <2> DEFINE r == job[h].run
             d == job[h].dec
  <2>1. r \in Runs /\ d \in Answers
    BY <1>6 DEF Resolve, WellFormed
  <2>2. [ExpiredRows[r] EXCEPT !.st = "closed", !.dec = d] \in Rows
    BY <1>p, <2>1, RowUpdates
  <2>3. Decided(ExpiredAudit[r], d) \in Audits
    <3>1. ExpiredAudit[r] \in Audits
      BY <1>p, <2>1
    <3>2. [ExpiredAudit[r] EXCEPT !.dec = d] \in Audits \/ d \notin AuditDecisions
      BY <3>1 DEF Audits
    <3> QED BY <3>1, <3>2 DEF Decided
  <2>4. row' \in [Runs -> Rows] /\ audit' \in [Runs -> Audits]
    BY <1>6, <1>p, <2>1, <2>2, <2>3 DEF Resolve, ConsumeRow
  <2>5. [job[h] EXCEPT !.pc = "resolved"] \in Jobs
    BY JobUpdates
  <2>6. job' \in [Handlers -> Jobs]
    BY <1>6, <2>5 DEF Resolve, Step
  <2>7. granted' \in [Runs -> Nat] /\ crossed' \in SUBSET Runs
    BY <1>6, <2>1 DEF Resolve
  <2> QED BY <1>6, <2>4, <2>6, <2>7 DEF Resolve
<1>7. ASSUME NEW h \in Handlers, ResolveTooLate(h) PROVE TypeOK'
  <2> DEFINE r == job[h].run
             d == job[h].dec
  <2>1. r \in Runs /\ d \in Answers
    BY <1>7 DEF ResolveTooLate, WellFormed
  <2>2. Decided(ExpiredAudit[r], d) \in Audits
    <3>1. ExpiredAudit[r] \in Audits
      BY <1>p, <2>1
    <3>2. [ExpiredAudit[r] EXCEPT !.dec = d] \in Audits \/ d \notin AuditDecisions
      BY <3>1 DEF Audits
    <3> QED BY <3>1, <3>2 DEF Decided
  <2>3. row' \in [Runs -> Rows] /\ audit' \in [Runs -> Audits]
    BY <1>7, <1>p, <2>1, <2>2 DEF ResolveTooLate
  <2>4. job' \in [Handlers -> Jobs]
    BY <1>7, <1>0 DEF ResolveTooLate, Return, Step
  <2> QED BY <1>7, <2>3, <2>4 DEF ResolveTooLate, history
<1>8. ASSUME NEW h \in Handlers, Apply(h) PROVE TypeOK'
  <2> DEFINE r == job[h].run
             c == job[h].snap.at
             d == job[h].dec
             left == [at |-> c + 1,
                      always |-> job[h].snap.always
                                   \cup (IF d = "always" THEN {ToolOf[c]} ELSE {})]
  <2>1. r \in Runs /\ c \in Calls
    BY <1>8 DEF Apply, WellFormed
  <2>2. left \in Snapshots
    BY <2>1, ConstantsAssumption DEF Snapshots, Jobs, Calls
  <2>3. [Idle EXCEPT !.pc = "driving", !.run = r, !.snap = left] \in Jobs
    BY <1>0, <2>1, <2>2 DEF Jobs, Stages
  <2>4. job' \in [Handlers -> Jobs]
    BY <1>8, <2>3 DEF Apply, Step
  <2>5. times' \in [Runs -> [Calls -> Nat]] /\ ran' \in [Runs -> Nat]
    <3>1. [times[r] EXCEPT ![c] = @ + 1] \in [Calls -> Nat]
      BY <2>1
    <3>2. [times EXCEPT ![r][c] = @ + 1] = [times EXCEPT ![r] = [times[r] EXCEPT ![c] = @ + 1]]
      OBVIOUS
    <3>3. [times EXCEPT ![r][c] = @ + 1] \in [Runs -> [Calls -> Nat]]
      BY <2>1, <3>1, <3>2
    <3>4. [ran EXCEPT ![r] = @ + 1] \in [Runs -> Nat]
      BY <2>1
    <3> QED BY <1>8, <3>3, <3>4 DEF Apply
  <2> QED BY <1>8, <2>4, <2>5 DEF Apply
<1>9. ASSUME NEW h \in Handlers, NEW r \in Runs, ChatCheck(h, r) PROVE TypeOK'
  <2>1. [Idle EXCEPT !.pc = "checked", !.run = r] \in Jobs
    BY <1>0 DEF Jobs, Stages
  <2> QED BY <1>9, <1>p, <2>1 DEF ChatCheck, PurgeOnly, Step, history
<1>10. ASSUME NEW h \in Handlers, NEW r \in Runs, SocketRun(h, r) PROVE TypeOK'
  <2>1. [Idle EXCEPT !.pc = "driving", !.run = r] \in Jobs
    BY <1>0 DEF Jobs, Stages
  <2> QED BY <1>10, <2>1 DEF SocketRun, Step, history
<1>11. ASSUME NEW h \in Handlers, NEW r \in Runs, NEW d \in Answers, NEW c \in Calls,
              Load(h, r, d, c)
       PROVE  TypeOK'
  <2>1. [pc |-> "loaded", run |-> r, snap |-> row[r].snap, dec |-> d, meant |-> c] \in Jobs
    BY ConstantsAssumption DEF Jobs, Stages, Rows, Calls
  <2>2. job' \in [Handlers -> Jobs]
    BY <1>11, <2>1 DEF Load, Step
  <2>3. yes' \in [Runs -> SUBSET Calls]
    BY <1>11 DEF Load
  <2> QED BY <1>11, <1>p, <2>2, <2>3 DEF Load, PurgeOnly
<1>12. CASE ListApprovals
  BY <1>12, <1>p DEF ListApprovals, PurgeOnly, history
<1>13. ASSUME NEW r \in Runs, Age(r) PROVE TypeOK'
  <2>1. [row[r] EXCEPT !.ttl = "passed"] \in Rows
    BY RowUpdates
  <2> QED BY <1>13, <2>1 DEF Age, history
<1>14. CASE Crash
  BY <1>14, <1>0 DEF Crash, history
<1>15. CASE UNCHANGED vars
  BY <1>15 DEF vars
<1> QED
  BY <1>1, <1>2, <1>3, <1>4, <1>5, <1>6, <1>7, <1>8, <1>9, <1>10, <1>11, <1>12, <1>13,
     <1>14, <1>15 DEF Next, Advance

-----------------------------------------------------------------------------
(***************************************************************************)
(* Most steps are quiet: each thread stays as it is, returns, goes on      *)
(* driving, or loads an open row; each row stays as it is, keeps what it   *)
(* says while it grows old, or closes.  No thread becomes a driver.        *)
(***************************************************************************)
QuietJob(h) ==
  \/ job'[h] = job[h]
  \/ job'[h] = Idle
  \/ /\ job[h].pc \in DriverStages
     /\ job'[h].pc = "driving"
     /\ job'[h].run = job[h].run
  \/ /\ job'[h].pc = "loaded"
     /\ job'[h].run \in started
     /\ job'[h].snap.at \in Calls
     /\ job'[h].dec \in Answers

QuietRow(r) ==
  \/ row'[r] = row[r]
  \/ row[r].st = "open" /\ row'[r].st = "closed"
  \/ /\ row[r].st = "open" /\ row'[r].st = "open"
     /\ row'[r].snap = row[r].snap /\ row'[r].dec = row[r].dec

QuietStep ==
  /\ \A h \in Handlers : QuietJob(h)
  /\ \A r \in Runs : QuietRow(r)
  /\ started' = started

LEMMA QuietControl ==
  ASSUME TypeOK, WellFormed, OneDriver, QuietStep
  PROVE  WellFormed' /\ OneDriver'
<1>0. Idle.pc = "idle" /\ Idle.run = NoRun
  BY DEF Idle
<1>1. \A r \in Runs : Drivers(r)' \subseteq Drivers(r)
  BY <1>0, Zenon DEF QuietStep, QuietJob, Drivers, Serving, DriverStages
<1>2. OneDriver'
  BY <1>1 DEF OneDriver, QuietStep, QuietRow
<1>3. ASSUME NEW h \in Handlers
      PROVE  /\ job'[h].pc # "idle" => job'[h].run \in started'
             /\ job'[h].pc \in {"loaded", "resolved"} =>
                  job'[h].snap.at \in Calls /\ job'[h].dec \in Answers
  BY <1>0, <1>3 DEF QuietStep, QuietJob, WellFormed, DriverStages
<1>4. ASSUME NEW r \in Runs
      PROVE  /\ row'[r].st = "open" => row'[r].snap.at \in Calls
             /\ r \notin started' => row'[r] = NoRow
             /\ row'[r].st = "open" => row'[r].dec = "none"
             /\ row'[r].dec = "expired" => Drivers(r)' = {}
  <2>1. QuietRow(r) /\ started' = started
    BY DEF QuietStep
  <2>2. NoRow.st # "open"
    BY DEF NoRow
  <2> QED BY <1>1, <2>1, <2>2 DEF QuietRow, WellFormed, OneDriver
<1> QED BY <1>2, <1>3, <1>4 DEF WellFormed

(* The purge is quiet. *)
LEMMA PurgeQuiet ==
  ASSUME TypeOK, row' = row \/ row' = ExpiredRows
  PROVE  \A r \in Runs : QuietRow(r)
BY PurgeFacts DEF TypeOK, QuietRow

(***************************************************************************)
(* The steps that are quiet.                                               *)
(***************************************************************************)
LEMMA QuietActions ==
  ASSUME TypeOK, WellFormed,
         \/ ListApprovals \/ Crash \/ UNCHANGED vars
         \/ \E r \in Runs : Age(r)
         \/ \E h \in Handlers : \/ ChatStart(h) \/ RunApprovedTool(h) \/ SuspendRefused(h)
                                \/ Finish(h) \/ ResolveTooLate(h) \/ Apply(h)
         \/ \E h \in Handlers, r \in Runs, d \in Answers, c \in Calls : Load(h, r, d, c)
  PROVE  QuietStep
<1>1. CASE ListApprovals
  BY <1>1, PurgeQuiet DEF ListApprovals, PurgeOnly, QuietStep, QuietJob
<1>2. CASE Crash
  BY <1>2, PurgeQuiet DEF Crash, QuietStep, QuietJob
<1>3. CASE UNCHANGED vars
  BY <1>3, PurgeQuiet DEF vars, QuietStep, QuietJob
<1>4. ASSUME NEW r \in Runs, Age(r) PROVE QuietStep
  <2>1. row[r] \in Rows /\ row'[r] = [row[r] EXCEPT !.ttl = "passed"]
    BY <1>4 DEF Age, TypeOK
  <2>2. row'[r].st = row[r].st /\ row'[r].snap = row[r].snap /\ row'[r].dec = row[r].dec
    BY <2>1 DEF Rows
  <2>3. QuietRow(r)
    BY <1>4, <2>2 DEF Age, QuietRow
  <2>4. \A q \in Runs \ {r} : QuietRow(q)
    BY <1>4 DEF Age, TypeOK, QuietRow
  <2> QED BY <1>4, <2>3, <2>4 DEF Age, QuietStep, QuietJob
<1>5. ASSUME NEW h \in Handlers, NEW new, Step(h, new), started' = started,
             row' = row \/ row' = ExpiredRows,
             \/ new = Idle
             \/ /\ job[h].pc \in DriverStages
                /\ new.pc = "driving"
                /\ new.run = job[h].run
             \/ /\ new.pc = "loaded"
                /\ new.run \in started
                /\ new.snap.at \in Calls
                /\ new.dec \in Answers
      PROVE  QuietStep
  <2>1. \A g \in Handlers : job'[g] = IF g = h THEN new ELSE job[g]
    BY <1>5 DEF Step, TypeOK
  <2>2. \A g \in Handlers : QuietJob(g)
    BY <1>5, <2>1 DEF QuietJob
  <2> QED BY <1>5, <2>2, PurgeQuiet DEF QuietStep
<1>6. ASSUME NEW h \in Handlers, ChatStart(h) \/ RunApprovedTool(h) PROVE QuietStep
  <2>1. job[h] \in Jobs
    BY DEF TypeOK
  <2>2. CASE ChatStart(h)
    BY <2>1, <2>2, <1>5 DEF ChatStart, DriverStages, Jobs
  <2>3. CASE RunApprovedTool(h)
    BY <2>1, <2>3, <1>5 DEF RunApprovedTool, AtGatedCall, DriverStages, Jobs
  <2> QED BY <1>6, <2>2, <2>3
<1>7. ASSUME NEW h \in Handlers, SuspendRefused(h) \/ Finish(h) \/ ResolveTooLate(h)
      PROVE  QuietStep
  <2>1. Step(h, Idle) /\ started' = started /\ (row' = row \/ row' = ExpiredRows)
    BY <1>7 DEF SuspendRefused, Finish, ResolveTooLate, Return, PurgeOnly
  <2> QED BY <2>1, <1>5
<1>8. ASSUME NEW h \in Handlers, Apply(h) PROVE QuietStep
  <2> DEFINE r == job[h].run
             c == job[h].snap.at
             left == [at |-> c + 1,
                      always |-> job[h].snap.always
                        \cup (IF job[h].dec = "always" THEN {ToolOf[c]} ELSE {})]
             new == [Idle EXCEPT !.pc = "driving", !.run = r, !.snap = left]
  <2>1. new.pc = "driving" /\ new.run = r
    BY DEF Idle
  <2>2. Step(h, new) /\ job[h].pc \in DriverStages /\ row' = row /\ started' = started
    BY <1>8 DEF Apply, DriverStages
  <2> HIDE DEF new
  <2> QED BY <2>1, <2>2, <1>5
<1>9. ASSUME NEW h \in Handlers, NEW r \in Runs, NEW d \in Answers, NEW c \in Calls,
             Load(h, r, d, c)
      PROVE  QuietStep
  <2>1. CASE ExpiredRows[r].st = "open"
    <3> DEFINE new == [pc |-> "loaded", run |-> r, snap |-> row[r].snap,
                       dec |-> d, meant |-> c]
    <3>1. row[r].st = "open"
      BY <2>1, PurgeFacts DEF TypeOK
    <3>2. r \in started
      BY <3>1 DEF WellFormed, NoRow
    <3>3. new.pc = "loaded" /\ new.run \in started /\ new.snap.at \in Calls
          /\ new.dec \in Answers
      BY <3>1, <3>2 DEF WellFormed
    <3>4. Step(h, new) /\ row' = ExpiredRows /\ started' = started
      BY <1>9, <2>1 DEF Load, PurgeOnly
    <3> HIDE DEF new
    <3> QED BY <3>3, <3>4, <1>5
  <2>2. CASE ExpiredRows[r].st # "open"
    <3>1. job' = job /\ started' = started /\ row' = ExpiredRows
      BY <1>9, <2>2 DEF Load, PurgeOnly
    <3> QED BY <3>1, PurgeQuiet DEF QuietStep, QuietJob
  <2> QED BY <2>1, <2>2
<1> QED BY <1>1, <1>2, <1>3, <1>4, <1>6, <1>7, <1>8, <1>9

(***************************************************************************)
(* The four steps that make or unmake a driver.                            *)
(***************************************************************************)
LEMMA StepFacts ==
  ASSUME TypeOK, NEW h \in Handlers, NEW new, Step(h, new)
  PROVE  /\ \A g \in Handlers : job'[g] = IF g = h THEN new ELSE job[g]
         /\ \A r, stages : Serving(r, stages)' =
              IF new.run = r /\ new.pc \in stages
              THEN Serving(r, stages) \cup {h} ELSE Serving(r, stages) \ {h}
<1>1. \A g \in Handlers : job'[g] = IF g = h THEN new ELSE job[g]
  BY DEF Step, TypeOK
<1> QED BY <1>1 DEF Serving

LEMMA BeginControl ==
  ASSUME TypeOK, WellFormed, OneDriver, NEW h \in Handlers, NEW r \in Runs,
         ChatCheck(h, r) \/ SocketRun(h, r)
  PROVE  WellFormed' /\ OneDriver'
<1>1. PICK new : /\ Step(h, new) /\ new.run = r /\ new.pc \in {"checked", "driving"}
  <2>1. \A pc : [Idle EXCEPT !.pc = pc, !.run = r].run = r
                /\ [Idle EXCEPT !.pc = pc, !.run = r].pc = pc
    BY DEF Idle
  <2> QED BY <2>1 DEF ChatCheck, SocketRun
<1>2. r \notin started /\ started' = started \cup {r} /\ (row' = row \/ row' = ExpiredRows)
  BY DEF ChatCheck, SocketRun, PurgeOnly
<1>3. \A q \in Runs : QuietRow(q)
  BY <1>2, PurgeQuiet
<1>4. \A g \in Handlers : job'[g] = IF g = h THEN new ELSE job[g]
  BY <1>1, StepFacts
<1>5. row[r] = NoRow /\ row'[r] = NoRow
  BY <1>2, <1>3 DEF WellFormed, QuietRow, NoRow
<1>6. Drivers(r) = {}
  BY <1>2 DEF WellFormed, Drivers, Serving, DriverStages
<1>7. Drivers(r)' = {h}
  BY <1>1, <1>6, StepFacts DEF Drivers, DriverStages
<1>8. \A q \in Runs \ {r} : Drivers(q)' \subseteq Drivers(q)
  BY <1>1, StepFacts DEF Drivers
<1>9. OneDriver'
  BY <1>3, <1>5, <1>7, <1>8 DEF OneDriver, QuietRow, NoRow
<1>10. ASSUME NEW g \in Handlers
       PROVE  /\ job'[g].pc # "idle" => job'[g].run \in started'
              /\ job'[g].pc \in {"loaded", "resolved"} =>
                   job'[g].snap.at \in Calls /\ job'[g].dec \in Answers
  BY <1>1, <1>2, <1>4 DEF WellFormed
<1>11. ASSUME NEW q \in Runs
       PROVE  /\ row'[q].st = "open" => row'[q].snap.at \in Calls
              /\ q \notin started' => row'[q] = NoRow
              /\ row'[q].st = "open" => row'[q].dec = "none"
              /\ row'[q].dec = "expired" => Drivers(q)' = {}
  <2>1. CASE q = r
    BY <1>2, <1>5, <2>1 DEF NoRow
  <2>2. CASE q # r
    <3>1. QuietRow(q) /\ NoRow.st # "open" /\ Drivers(q)' \subseteq Drivers(q)
      BY <1>3, <1>8, <2>2 DEF NoRow
    <3> QED BY <1>2, <3>1, <2>2 DEF QuietRow, WellFormed, OneDriver
  <2> QED BY <2>1, <2>2
<1> QED BY <1>9, <1>10, <1>11 DEF WellFormed

LEMMA SuspendControl ==
  ASSUME TypeOK, WellFormed, OneDriver, NEW h \in Handlers, Suspend(h)
  PROVE  WellFormed' /\ OneDriver'
<1>0. PICK r \in Runs : r = job[h].run
  BY DEF Suspend, AtGatedCall, WellFormed, TypeOK
<1> DEFINE snap == job[h].snap
           new == [st |-> "open", dec |-> "none", snap |-> snap, ttl |-> "running"]
<1>1. r \in Runs /\ r \in started /\ snap.at \in Calls /\ h \in Drivers(r)
  BY <1>0 DEF Suspend, AtGatedCall, WellFormed, TypeOK, Drivers, Serving, DriverStages
<1>2. /\ row' = [ExpiredRows EXCEPT ![r] = new]
      /\ Step(h, Idle) /\ started' = started
  BY <1>0 DEF Suspend, SavePending, Return
<1>3. \A q \in Runs : row'[q] = IF q = r THEN new ELSE ExpiredRows[q]
  BY <1>1, <1>2, PurgeFacts DEF TypeOK
<1>4. Idle.run \notin Runs /\ Idle.pc = "idle"
  BY ConstantsAssumption DEF Idle
<1>5. \A q \in Runs : Drivers(q)' = Drivers(q) \ {h}
  BY <1>2, <1>4, StepFacts DEF Drivers
<1>6. Drivers(r)' = {}
  <2>1. \A g \in Drivers(r) : g = h
    BY <1>1 DEF OneDriver
  <2> QED BY <1>1, <1>5, <2>1
<1>7. \A q \in Runs \ {r} : QuietRow(q)
  <2>1. \A q \in Runs \ {r} : row'[q] = ExpiredRows[q]
    BY <1>3
  <2> QED BY <2>1, PurgeFacts DEF QuietRow, TypeOK
<1>8. OneDriver'
  <2>1. ASSUME NEW q \in Runs, q # r, row'[q].st = "open" PROVE Drivers(q)' = {}
    <3>1. row[q].st = "open"
      BY <1>7, <2>1 DEF QuietRow
    <3> QED BY <1>5, <2>1, <3>1 DEF OneDriver
  <2>2. \A q \in Runs : \A h1, h2 \in Drivers(q)' : h1 = h2
    BY <1>5 DEF OneDriver
  <2> QED BY <1>6, <2>1, <2>2 DEF OneDriver
<1>9. ASSUME NEW g \in Handlers
      PROVE  /\ job'[g].pc # "idle" => job'[g].run \in started'
             /\ job'[g].pc \in {"loaded", "resolved"} =>
                  job'[g].snap.at \in Calls /\ job'[g].dec \in Answers
  <2>1. job'[g] = IF g = h THEN Idle ELSE job[g]
    BY <1>2, StepFacts
  <2> QED BY <1>2, <1>4, <2>1 DEF WellFormed
<1>10. ASSUME NEW q \in Runs
       PROVE  /\ row'[q].st = "open" => row'[q].snap.at \in Calls
              /\ q \notin started' => row'[q] = NoRow
              /\ row'[q].st = "open" => row'[q].dec = "none"
              /\ row'[q].dec = "expired" => Drivers(q)' = {}
  <2>1. CASE q = r
    BY <1>1, <1>2, <1>3, <1>6, <2>1
  <2>2. CASE q # r
    <3>1. QuietRow(q) /\ NoRow.st # "open" /\ Drivers(q)' \subseteq Drivers(q)
      BY <1>5, <1>7, <2>2 DEF NoRow
    <3> QED BY <1>2, <3>1 DEF QuietRow, WellFormed, OneDriver
  <2> QED BY <2>1, <2>2
<1> QED BY <1>8, <1>9, <1>10 DEF WellFormed

LEMMA ResolveControl ==
  ASSUME TypeOK, WellFormed, OneDriver, NEW h \in Handlers, Resolve(h)
  PROVE  WellFormed' /\ OneDriver'
<1>0. PICK r \in Runs : r = job[h].run
  BY DEF Resolve, WellFormed, TypeOK
<1> DEFINE d == job[h].dec
           new == [job[h] EXCEPT !.pc = "resolved"]
           closed == [ExpiredRows[r] EXCEPT !.st = "closed", !.dec = d]
<1>1. r \in Runs /\ r \in started /\ d \in Answers /\ job[h].snap.at \in Calls
  BY <1>0 DEF Resolve, WellFormed, TypeOK
<1>2. /\ row' = [ExpiredRows EXCEPT ![r] = closed]
      /\ Step(h, new) /\ started' = started
  BY <1>0 DEF Resolve, ConsumeRow
<1>3. ExpiredRows[r] \in Rows /\ row[r].st = "open"
  BY <1>0, <1>1, PurgeFacts DEF Resolve, TypeOK
<1>4. closed.st = "closed" /\ closed.dec = d
  BY <1>3 DEF Rows
<1>5. \A q \in Runs : row'[q] = IF q = r THEN closed ELSE ExpiredRows[q]
  BY <1>1, <1>2, PurgeFacts DEF TypeOK
<1>6. \A q \in Runs : QuietRow(q)
  <2>1. \A q \in Runs \ {r} : row'[q] = ExpiredRows[q]
    BY <1>5
  <2>2. row'[r].st = "closed"
    BY <1>1, <1>4, <1>5
  <2> QED BY <1>3, <2>1, <2>2, PurgeFacts DEF QuietRow, TypeOK
<1>7. /\ new.pc = "resolved" /\ new.run = r /\ new.dec = d
      /\ new.snap.at = job[h].snap.at
  BY <1>0 DEF TypeOK, Jobs
<1> HIDE DEF new, closed
<1>8. /\ Drivers(r)' = Drivers(r) \cup {h}
      /\ \A q \in Runs \ {r} : Drivers(q)' \subseteq Drivers(q)
  BY <1>2, <1>7, StepFacts DEF Drivers, DriverStages
<1>9. Drivers(r)' = {h}
  BY <1>1, <1>3, <1>8 DEF OneDriver
<1>10. row'[r].st = "closed" /\ row'[r].dec = d
  BY <1>1, <1>4, <1>5
<1>11. OneDriver'
  <2>1. ASSUME NEW q \in Runs \ {r}
        PROVE  /\ row'[q].st = "open" => Drivers(q)' = {}
               /\ \A h1, h2 \in Drivers(q)' : h1 = h2
    <3>1. QuietRow(q) /\ Drivers(q)' \subseteq Drivers(q)
      BY <1>6, <1>8
    <3> QED BY <3>1 DEF OneDriver, QuietRow
  <2>2. \A h1, h2 \in Drivers(r)' : h1 = h2
    BY <1>9
  <2>3. row'[r].st # "open"
    BY <1>10
  <2> QED BY <2>1, <2>2, <2>3 DEF OneDriver
<1>12. ASSUME NEW g \in Handlers
       PROVE  /\ job'[g].pc # "idle" => job'[g].run \in started'
              /\ job'[g].pc \in {"loaded", "resolved"} =>
                   job'[g].snap.at \in Calls /\ job'[g].dec \in Answers
  <2>1. job'[g] = IF g = h THEN new ELSE job[g]
    BY <1>2, StepFacts
  <2> QED BY <1>1, <1>2, <1>7, <2>1 DEF WellFormed
<1>13. ASSUME NEW q \in Runs
       PROVE  /\ row'[q].st = "open" => row'[q].snap.at \in Calls
              /\ q \notin started' => row'[q] = NoRow
              /\ row'[q].st = "open" => row'[q].dec = "none"
              /\ row'[q].dec = "expired" => Drivers(q)' = {}
  <2>1. CASE q = r
    BY <1>1, <1>2, <1>10, <2>1 DEF Answers
  <2>2. CASE q # r
    <3>1. QuietRow(q) /\ NoRow.st # "open" /\ Drivers(q)' \subseteq Drivers(q)
      BY <1>6, <1>8, <2>2 DEF NoRow
    <3> QED BY <1>2, <3>1 DEF QuietRow, WellFormed, OneDriver
  <2> QED BY <2>1, <2>2
<1> QED BY <1>11, <1>12, <1>13 DEF WellFormed

LEMMA InitControl == Init => WellFormed /\ OneDriver
BY DEF Init, WellFormed, OneDriver, Drivers, Serving, DriverStages, Idle, NoRow, Fresh

LEMMA NextControl == TypeOK /\ WellFormed /\ OneDriver /\ [Next]_vars => WellFormed' /\ OneDriver'
BY QuietActions, QuietControl, BeginControl, SuspendControl, ResolveControl DEF Next, Advance

(***************************************************************************)
(* Control part of the invariant: types, the token, and where the states   *)
(* that threads and rows hold may point.                                   *)
(***************************************************************************)
ControlInv == TypeOK /\ WellFormed /\ OneDriver

LEMMA InitControlInv == Init => ControlInv
BY InitTypeOK, InitControl DEF ControlInv

LEMMA NextControlInv == ControlInv /\ [Next]_vars => ControlInv'
BY NextTypeOK, NextControl DEF ControlInv

(***************************************************************************)
(* Every variable keeps its type, for every number of runs and threads.    *)
(***************************************************************************)
THEOREM TypeCorrect == Spec => []TypeOK
<1>1. ControlInv => TypeOK
  BY DEF ControlInv
<1> QED BY <1>1, InitControlInv, NextControlInv, PTL DEF Spec

(***************************************************************************)
(* The open row is the run's token: no schedule of requests gives a run    *)
(* two threads, or a thread and an open approval.                          *)
(***************************************************************************)
THEOREM TokenUnique == Spec => []OneDriver
<1>1. ControlInv => OneDriver
  BY DEF ControlInv
<1> QED BY <1>1, InitControlInv, NextControlInv, PTL DEF Spec

-----------------------------------------------------------------------------
(***************************************************************************)
(* Data part: what the position of a run says about the calls it made.     *)
(***************************************************************************)
DataInv == Uncrossed /\ SaidYes /\ OneShotUnlessCrossed

PlainJob(h) ==
  \/ job'[h] = job[h]
  \/ job'[h] = Idle
  \/ /\ job[h].pc \in {"checked", "driving"}
     /\ job'[h].pc = "driving"
     /\ job'[h].run = job[h].run
     /\ job'[h].snap.at \in {job[h].snap.at, job[h].snap.at + 1}
  \/ /\ job'[h].pc = "loaded"
     /\ job'[h].dec \in Approving => job'[h].meant \in yes'[job'[h].run]

PlainStep ==
  /\ \A h \in Handlers : PlainJob(h)
  /\ \A r \in Runs : QuietRow(r)
  /\ \A r \in Runs : yes[r] \subseteq yes'[r]
  /\ UNCHANGED <<started, times, crossed>>

LEMMA PlainData ==
  ASSUME ControlInv, DataInv, PlainStep
  PROVE  DataInv'
<1> USE DEF PlainStep
<1>0. Idle.pc = "idle"
  BY DEF Idle
<1>1. ASSUME NEW h \in Handlers, job'[h].pc \in {"loaded", "resolved"},
             job'[h].dec \in Approving
      PROVE  job'[h].meant \in yes'[job'[h].run]
  <2>1. CASE job'[h] = job[h]
    <3>1. job[h].run \in Runs
      BY <1>1, <2>1 DEF ControlInv, WellFormed, TypeOK
    <3> QED BY <1>1, <2>1, <3>1 DEF DataInv, SaidYes
  <2>2. CASE job'[h] # job[h]
    BY <1>0, <1>1, <2>2 DEF PlainJob
  <2> QED BY <2>1, <2>2
<1>2. SaidYes'
  BY <1>1 DEF SaidYes
<1>3. ASSUME NEW r \in Runs \ crossed PROVE
        /\ r \notin started' => NothingAhead(r, Fresh)'
        /\ row'[r].st = "open" => NothingAhead(r, row[r].snap)'
  <2>1. Fresh' = Fresh /\ times' = times /\ started' = started
    BY DEF Fresh
  <2>2. row'[r].st = "open" => row[r].st = "open" /\ row'[r].snap = row[r].snap
    BY DEF QuietRow
  <2> QED BY <2>1, <2>2 DEF DataInv, Uncrossed, NothingAhead
<1>4. ASSUME NEW r \in Runs \ crossed, NEW h \in Drivers(r)'
      PROVE  NothingAhead(r, job[h].snap)'
  <2>1. h \in Handlers /\ job'[h].run = r /\ job'[h].pc \in DriverStages
    BY DEF Drivers, Serving
  <2>2. /\ job[h].run = r /\ job[h].pc \in DriverStages
        /\ \/ job'[h] = job[h]
           \/ job'[h].snap.at \in {job[h].snap.at, job[h].snap.at + 1}
    BY <1>0, <2>1 DEF PlainJob, DriverStages
  <2>3. NothingAhead(r, job[h].snap)
    <3>1. h \in Drivers(r)
      BY <2>1, <2>2 DEF Drivers, Serving
    <3> QED BY <3>1 DEF DataInv, Uncrossed
  <2>4. job[h].snap.at \in Int /\ Calls \subseteq Int
    BY <2>1, ConstantsAssumption DEF ControlInv, TypeOK, Jobs, Snapshots, Calls
  <2>5. ASSUME NEW c \in Calls, c >= job'[h].snap.at PROVE c >= job[h].snap.at
    <3>1. job'[h].snap.at = job[h].snap.at \/ job'[h].snap.at = job[h].snap.at + 1
      BY <2>2
    <3>2. c \in Int
      BY <2>4
    <3> QED BY <2>4, <2>5, <3>1, <3>2
  <2> QED BY <2>3, <2>5 DEF NothingAhead
<1>5. ASSUME NEW r \in Runs \ crossed, NEW h \in Serving(r, {"resolved"})'
      PROVE  job'[h].meant = job'[h].snap.at
  <2>1. h \in Handlers /\ job'[h].run = r /\ job'[h].pc = "resolved"
    BY DEF Serving
  <2>2. job'[h] = job[h]
    BY <1>0, <2>1 DEF PlainJob
  <2> QED BY <2>1, <2>2 DEF DataInv, Uncrossed, Serving
<1>6. Uncrossed'
  BY <1>3, <1>4, <1>5 DEF Uncrossed
<1>7. OneShotUnlessCrossed'
  BY DEF DataInv, OneShotUnlessCrossed
<1> QED BY <1>2, <1>6, <1>7 DEF DataInv

LEMMA PlainActions ==
  ASSUME ControlInv,
         \/ ListApprovals \/ Crash \/ UNCHANGED vars
         \/ \E r \in Runs : Age(r)
         \/ \E h \in Handlers : \/ ChatStart(h) \/ RunApprovedTool(h) \/ SuspendRefused(h)
                                \/ Finish(h) \/ ResolveTooLate(h)
         \/ \E h \in Handlers, r \in Runs, d \in Answers, c \in Calls : Load(h, r, d, c)
  PROVE  PlainStep
<1>0. QuietStep
  BY QuietActions DEF ControlInv
<1>1. \A r \in Runs : QuietRow(r)
  BY <1>0 DEF QuietStep
<1>2. UNCHANGED <<started, times, crossed>>
  BY DEF ListApprovals, Crash, vars, Age, ChatStart, RunApprovedTool, SuspendRefused, Finish,
         ResolveTooLate, Load, history
<1>3. \A r \in Runs : yes[r] \subseteq yes'[r]
  <2>1. CASE yes' = yes
    BY <2>1
  <2>2. CASE \E h \in Handlers, r \in Runs, d \in Answers, c \in Calls : Load(h, r, d, c)
    <3>1. PICK r \in Runs, d \in Answers, c \in Calls :
            \/ yes' = yes
            \/ yes' = [yes EXCEPT ![r] = IF d \in Approving THEN @ \cup {c} ELSE @]
      BY <2>2 DEF Load
    <3> QED BY <3>1 DEF ControlInv, TypeOK
  <2> QED
    BY <2>1, <2>2 DEF ListApprovals, Crash, vars, Age, ChatStart, RunApprovedTool,
                      SuspendRefused, Finish, ResolveTooLate, history
<1>4. \A h \in Handlers : PlainJob(h)
  <2>1. CASE job' = job
    BY <2>1 DEF PlainJob
  <2>2. CASE Crash
    BY <2>2 DEF Crash, PlainJob
  <2>3. ASSUME NEW h \in Handlers, NEW new, Step(h, new),
               \/ new = Idle
               \/ /\ job[h].pc \in {"checked", "driving"}
                  /\ new.pc = "driving"
                  /\ new.run = job[h].run
                  /\ new.snap.at \in {job[h].snap.at, job[h].snap.at + 1}
               \/ /\ new.pc = "loaded"
                  /\ new.dec \in Approving => new.meant \in yes'[new.run]
        PROVE  \A g \in Handlers : PlainJob(g)
    <3>1. \A g \in Handlers : job'[g] = IF g = h THEN new ELSE job[g]
      BY <2>3 DEF Step, ControlInv, TypeOK
    <3> QED BY <2>3, <3>1 DEF PlainJob
  <2>4. ASSUME NEW h \in Handlers, SuspendRefused(h) \/ Finish(h) \/ ResolveTooLate(h)
        PROVE  \A g \in Handlers : PlainJob(g)
    <3>1. Step(h, Idle)
      BY <2>4 DEF SuspendRefused, Finish, ResolveTooLate, Return
    <3> QED BY <2>3, <3>1
  <2>5. ASSUME NEW h \in Handlers, ChatStart(h) PROVE \A g \in Handlers : PlainJob(g)
    <3>1. job[h] \in Jobs /\ job[h].pc = "checked"
          /\ Step(h, [job[h] EXCEPT !.pc = "driving"])
      BY <2>5 DEF ChatStart, ControlInv, TypeOK
    <3> DEFINE new == [job[h] EXCEPT !.pc = "driving"]
    <3>2. new.pc = "driving" /\ new.run = job[h].run /\ new.snap = job[h].snap
      BY <3>1 DEF Jobs
    <3> HIDE DEF new
    <3> QED BY <2>3, <3>1, <3>2 DEF new
  <2>6. ASSUME NEW h \in Handlers, RunApprovedTool(h) PROVE \A g \in Handlers : PlainJob(g)
    <3> DEFINE new == [job[h] EXCEPT !.snap.at = @ + 1]
    <3>1. job[h] \in Jobs /\ job[h].pc = "driving" /\ Step(h, new)
      BY <2>6 DEF RunApprovedTool, AtGatedCall, ControlInv, TypeOK
    <3>2. new.pc = "driving" /\ new.run = job[h].run /\ new.snap.at = job[h].snap.at + 1
      BY <3>1 DEF Jobs, Snapshots
    <3> HIDE DEF new
    <3> QED BY <2>3, <3>1, <3>2
  <2>7. ASSUME NEW h \in Handlers, NEW r \in Runs, NEW d \in Answers, NEW c \in Calls,
               Load(h, r, d, c), job' # job
        PROVE  \A g \in Handlers : PlainJob(g)
    <3> DEFINE new == [pc |-> "loaded", run |-> r, snap |-> row[r].snap,
                       dec |-> d, meant |-> c]
    <3>1. Step(h, new)
          /\ yes' = [yes EXCEPT ![r] = IF d \in Approving THEN @ \cup {c} ELSE @]
      BY <2>7 DEF Load
    <3>2. d \in Approving => c \in yes'[r]
      BY <3>1 DEF ControlInv, TypeOK
    <3>3. new.pc = "loaded" /\ new.dec = d /\ new.meant = c /\ new.run = r
      OBVIOUS
    <3> HIDE DEF new
    <3> QED BY <2>3, <3>1, <3>2, <3>3
  <2>8. CASE ListApprovals \/ (\E r \in Runs : Age(r)) \/ UNCHANGED vars
    BY <2>1, <2>8 DEF ListApprovals, Age, vars
  <2> QED BY <2>1, <2>2, <2>4, <2>5, <2>6, <2>7, <2>8
<1> QED BY <1>1, <1>2, <1>3, <1>4 DEF PlainStep

LEMMA BeginData ==
  ASSUME ControlInv, DataInv, NEW h \in Handlers, NEW r \in Runs,
         ChatCheck(h, r) \/ SocketRun(h, r)
  PROVE  DataInv'
<1>1. PICK new : /\ Step(h, new) /\ new.run = r /\ new.pc \in {"checked", "driving"}
                 /\ new.snap = Fresh
  <2>1. \A pc : /\ [Idle EXCEPT !.pc = pc, !.run = r].run = r
                /\ [Idle EXCEPT !.pc = pc, !.run = r].pc = pc
                /\ [Idle EXCEPT !.pc = pc, !.run = r].snap = Fresh
    BY DEF Idle
  <2>2. PICK pc \in {"checked", "driving"} : Step(h, [Idle EXCEPT !.pc = pc, !.run = r])
    BY DEF ChatCheck, SocketRun
  <2> QED BY <2>1, <2>2
<1>2. /\ r \notin started /\ started' = started \cup {r}
      /\ row' = row \/ row' = ExpiredRows
      /\ UNCHANGED <<times, yes, crossed>>
  BY DEF ChatCheck, SocketRun, PurgeOnly, history
<1>3. \A q \in Runs : QuietRow(q)
  BY <1>2, PurgeQuiet DEF ControlInv
<1>4. \A g \in Handlers : job'[g] = IF g = h THEN new ELSE job[g]
  BY <1>1, StepFacts DEF ControlInv
<1>5. SaidYes'
  BY <1>1, <1>2, <1>4 DEF DataInv, SaidYes
<1>6. ASSUME NEW q \in Runs \ crossed
      PROVE  /\ q \notin started' => NothingAhead(q, Fresh)'
             /\ row'[q].st = "open" => NothingAhead(q, row[q].snap)'
  <2>1. row'[q].st = "open" => row[q].st = "open" /\ row'[q].snap = row[q].snap
    BY <1>3 DEF QuietRow
  <2>2. Fresh' = Fresh
    BY DEF Fresh
  <2> QED BY <1>2, <2>1, <2>2 DEF DataInv, Uncrossed, NothingAhead
<1>7. ASSUME NEW q \in Runs \ crossed, NEW g \in Drivers(q)'
      PROVE  NothingAhead(q, job[g].snap)'
  <2>1. CASE g = h
    <3>1. q = r
      BY <1>1, <1>4, <2>1 DEF Drivers, Serving
    <3>2. NothingAhead(r, Fresh)
      <4>1. r \in Runs \ crossed /\ r \notin started
        BY <1>2, <3>1
      <4> QED BY <4>1 DEF DataInv, Uncrossed
    <3>3. job'[g].snap = Fresh
      BY <1>1, <1>4, <2>1 DEF Drivers, Serving
    <3> QED BY <1>2, <3>1, <3>2, <3>3 DEF NothingAhead
  <2>2. CASE g # h
    <3>1. g \in Drivers(q) /\ job'[g] = job[g]
      BY <1>4, <2>2 DEF Drivers, Serving
    <3>2. NothingAhead(q, job[g].snap)
      BY <3>1 DEF DataInv, Uncrossed
    <3> QED BY <1>2, <3>1, <3>2 DEF NothingAhead
  <2> QED BY <2>1, <2>2
<1>8. ASSUME NEW q \in Runs \ crossed, NEW g \in Serving(q, {"resolved"})'
      PROVE  job'[g].meant = job'[g].snap.at
  <2>1. g \in Serving(q, {"resolved"}) /\ job'[g] = job[g]
    BY <1>1, <1>4 DEF Serving
  <2> QED BY <2>1 DEF DataInv, Uncrossed
<1>9. Uncrossed'
  BY <1>2, <1>6, <1>7, <1>8 DEF Uncrossed
<1>10. OneShotUnlessCrossed'
  BY <1>2 DEF DataInv, OneShotUnlessCrossed
<1> QED BY <1>5, <1>9, <1>10 DEF DataInv

LEMMA SuspendData ==
  ASSUME ControlInv, DataInv, NEW h \in Handlers, Suspend(h)
  PROVE  DataInv'
<1>0. PICK r \in Runs : r = job[h].run
  BY DEF Suspend, AtGatedCall, WellFormed, TypeOK, ControlInv
<1> DEFINE snap == job[h].snap
<1>1. h \in Drivers(r) /\ r \in started
  BY <1>0 DEF Suspend, AtGatedCall, Drivers, Serving, DriverStages, ControlInv, WellFormed
<1>2. /\ row' = [ExpiredRows EXCEPT
                   ![r] = [st |-> "open", dec |-> "none", snap |-> snap, ttl |-> "running"]]
      /\ Step(h, Idle) /\ UNCHANGED <<started, times, yes, crossed>>
  BY <1>0 DEF Suspend, SavePending, Return, history
<1>3. row'[r].snap = snap /\ \A q \in Runs \ {r} : row'[q] = ExpiredRows[q]
  BY <1>2, PurgeFacts DEF TypeOK, ControlInv
<1>4. \A q \in Runs \ {r} : QuietRow(q)
  BY <1>3, PurgeFacts DEF QuietRow, TypeOK, ControlInv
<1>5. \A g \in Handlers : job'[g] = IF g = h THEN Idle ELSE job[g]
  BY <1>2, StepFacts DEF ControlInv
<1>6. Idle.pc = "idle"
  BY DEF Idle
<1>7. SaidYes'
  BY <1>2, <1>5, <1>6 DEF DataInv, SaidYes
<1>8. ASSUME NEW q \in Runs \ crossed
      PROVE  /\ q \notin started' => NothingAhead(q, Fresh)'
             /\ row'[q].st = "open" => NothingAhead(q, row[q].snap)'
  <2>1. Fresh' = Fresh
    BY DEF Fresh
  <2>2. CASE q = r
    <3>1. NothingAhead(r, job[h].snap)
      BY <1>1, <2>2 DEF DataInv, Uncrossed
    <3> QED BY <1>1, <1>2, <1>3, <2>2, <3>1 DEF NothingAhead
  <2>3. CASE q # r
    <3>1. row'[q].st = "open" => row[q].st = "open" /\ row'[q].snap = row[q].snap
      BY <1>4, <2>3 DEF QuietRow
    <3> QED BY <1>2, <2>1, <3>1 DEF DataInv, Uncrossed, NothingAhead
  <2> QED BY <2>2, <2>3
<1>9. ASSUME NEW q \in Runs \ crossed, NEW stages,
             NEW g \in Serving(q, stages)', "idle" \notin stages
      PROVE  g \in Serving(q, stages) /\ job'[g] = job[g]
  BY <1>5, <1>6, <1>9 DEF Serving
<1>10. ASSUME NEW q \in Runs \ crossed, NEW g \in Drivers(q)'
       PROVE  NothingAhead(q, job[g].snap)'
  <2>1. g \in Drivers(q) /\ job'[g] = job[g]
    BY <1>9 DEF Drivers, DriverStages
  <2>2. NothingAhead(q, job[g].snap)
    BY <2>1 DEF DataInv, Uncrossed
  <2> QED BY <1>2, <2>1, <2>2 DEF NothingAhead
<1>11. ASSUME NEW q \in Runs \ crossed, NEW g \in Serving(q, {"resolved"})'
       PROVE  job'[g].meant = job'[g].snap.at
  BY <1>9 DEF DataInv, Uncrossed
<1>12. Uncrossed'
  BY <1>2, <1>8, <1>10, <1>11 DEF Uncrossed
<1>13. OneShotUnlessCrossed'
  BY <1>2 DEF DataInv, OneShotUnlessCrossed
<1> QED BY <1>7, <1>12, <1>13 DEF DataInv

LEMMA ResolveData ==
  ASSUME ControlInv, DataInv, NEW h \in Handlers, Resolve(h)
  PROVE  DataInv'
<1>0. PICK r \in Runs : r = job[h].run
  BY DEF Resolve, WellFormed, TypeOK, ControlInv
<1> DEFINE new == [job[h] EXCEPT !.pc = "resolved"]
<1>1. /\ Step(h, new) /\ UNCHANGED <<started, times, yes>>
      /\ job[h].pc = "loaded" /\ crossed \subseteq crossed'
      /\ r \notin crossed' => row[r].snap = job[h].snap /\ row[r].snap.at = job[h].meant
  BY <1>0 DEF Resolve
<1>2. /\ new.pc = "resolved" /\ new.run = r /\ new.dec = job[h].dec
      /\ new.snap = job[h].snap /\ new.meant = job[h].meant
  BY <1>0 DEF ControlInv, TypeOK, Jobs
<1> HIDE DEF new
<1>3. row[r].st = "open" /\ r \in started
  <2>1. row[r].st = "open"
    BY <1>0, PurgeFacts DEF Resolve, ControlInv, TypeOK
  <2> QED BY <2>1 DEF ControlInv, WellFormed, NoRow
<1>4. \A g \in Handlers : job'[g] = IF g = h THEN new ELSE job[g]
  BY <1>1, StepFacts DEF ControlInv
<1>5. \A q \in Runs : row'[q].st = "open" => row[q].st = "open" /\ row'[q].snap = row[q].snap
  <2> DEFINE closed == [ExpiredRows[r] EXCEPT !.st = "closed", !.dec = job[h].dec]
  <2>1. \A q \in Runs : row'[q] = IF q = r THEN closed ELSE ExpiredRows[q]
    BY <1>0, PurgeFacts DEF Resolve, ConsumeRow, ControlInv, TypeOK
  <2>2. closed.st = "closed"
    BY PurgeFacts DEF ControlInv, TypeOK, Rows
  <2> HIDE DEF closed
  <2> QED BY <2>1, <2>2, PurgeFacts DEF ControlInv, TypeOK
<1>6. SaidYes'
  <2>1. ASSUME NEW g \in Handlers, job'[g].pc \in {"loaded", "resolved"},
               job'[g].dec \in Approving
        PROVE  job'[g].meant \in yes'[job'[g].run]
    BY <1>0, <1>1, <1>2, <1>4, <2>1 DEF DataInv, SaidYes
  <2> QED BY <2>1 DEF SaidYes
<1>7. ASSUME NEW q \in Runs \ crossed'
      PROVE  /\ q \notin started' => NothingAhead(q, Fresh)'
             /\ row'[q].st = "open" => NothingAhead(q, row[q].snap)'
  <2>1. Fresh' = Fresh /\ q \in Runs \ crossed
    BY <1>1 DEF Fresh
  <2> QED BY <1>1, <1>5, <2>1 DEF DataInv, Uncrossed, NothingAhead
<1>8. ASSUME NEW q \in Runs \ crossed', NEW g \in Drivers(q)'
      PROVE  NothingAhead(q, job[g].snap)'
  <2>0. q \in Runs \ crossed
    BY <1>1
  <2>1. CASE g = h
    <3>1. q = r /\ job'[g].snap = job[h].snap
      BY <1>2, <1>4, <2>1 DEF Drivers, Serving
    <3>2. NothingAhead(r, row[r].snap) /\ row[r].snap = job[h].snap
      BY <1>1, <1>3, <2>0, <3>1 DEF DataInv, Uncrossed
    <3> QED BY <1>1, <3>1, <3>2 DEF NothingAhead
  <2>2. CASE g # h
    <3>1. g \in Drivers(q) /\ job'[g] = job[g]
      BY <1>4, <2>2 DEF Drivers, Serving
    <3>2. NothingAhead(q, job[g].snap)
      BY <2>0, <3>1 DEF DataInv, Uncrossed
    <3> QED BY <1>1, <3>1, <3>2 DEF NothingAhead
  <2> QED BY <2>1, <2>2
<1>9. ASSUME NEW q \in Runs \ crossed', NEW g \in Serving(q, {"resolved"})'
      PROVE  job'[g].meant = job'[g].snap.at
  <2>1. CASE g = h
    <3>1. q = r /\ job'[g].snap = job[h].snap /\ job'[g].meant = job[h].meant
      BY <1>2, <1>4, <2>1 DEF Serving
    <3> QED BY <1>1, <3>1
  <2>2. CASE g # h
    <3>1. g \in Serving(q, {"resolved"}) /\ job'[g] = job[g]
      BY <1>4, <2>2 DEF Serving
    <3> QED BY <1>1, <3>1 DEF DataInv, Uncrossed
  <2> QED BY <2>1, <2>2
<1>10. Uncrossed'
  BY <1>7, <1>8, <1>9 DEF Uncrossed
<1>11. OneShotUnlessCrossed'
  BY <1>1 DEF DataInv, OneShotUnlessCrossed
<1> QED BY <1>6, <1>10, <1>11 DEF DataInv

(***************************************************************************)
(* The step that runs a call.  Its thread is the run's only driver, so the *)
(* call had not run, and the consumed yes was meant for it.                *)
(***************************************************************************)
LEMMA ApplyData ==
  ASSUME ControlInv, DataInv, NEW h \in Handlers, Apply(h)
  PROVE  DataInv'
<1>0. PICK r \in Runs, c \in Calls, d \in Answers :
        r = job[h].run /\ c = job[h].snap.at /\ d = job[h].dec
  BY DEF Apply, WellFormed, TypeOK, ControlInv
<1> DEFINE left == [at |-> c + 1,
                    always |-> job[h].snap.always
                                 \cup (IF d = "always" THEN {ToolOf[c]} ELSE {})]
           new == [Idle EXCEPT !.pc = "driving", !.run = r, !.snap = left]
<1>1. /\ Step(h, new) /\ UNCHANGED <<row, started, yes, crossed>> /\ job[h].pc = "resolved"
      /\ times' = IF d \in Approving THEN [times EXCEPT ![r][c] = @ + 1] ELSE times
  BY <1>0 DEF Apply
<1>2. new.pc = "driving" /\ new.run = r /\ new.snap.at = c + 1
  BY DEF Idle
<1> HIDE DEF new
<1>3. \A g \in Handlers : job'[g] = IF g = h THEN new ELSE job[g]
  BY <1>1, StepFacts DEF ControlInv
<1>4. h \in Drivers(r) /\ h \in Serving(r, {"resolved"}) /\ r \in started
  BY <1>0, <1>1 DEF Drivers, Serving, DriverStages, ControlInv, WellFormed
<1>5. row[r].st # "open" /\ \A g \in Drivers(r) : g = h
  BY <1>4 DEF ControlInv, OneDriver
<1>6. \A q \in Runs, k \in Calls :
        times'[q][k] = IF q = r /\ k = c /\ d \in Approving THEN times[q][k] + 1 ELSE times[q][k]
  BY <1>1 DEF ControlInv, TypeOK
<1>7. \A q \in Runs \ {r} : times'[q] = times[q]
  BY <1>1 DEF ControlInv, TypeOK
<1>8. SaidYes'
  BY <1>1, <1>2, <1>3 DEF DataInv, SaidYes
<1>9. ASSUME NEW q \in Runs \ crossed
      PROVE  /\ q \notin started' => NothingAhead(q, Fresh)'
             /\ row'[q].st = "open" => NothingAhead(q, row[q].snap)'
  <2>1. Fresh' = Fresh
    BY DEF Fresh
  <2>2. CASE q = r
    BY <1>1, <1>4, <1>5, <2>2
  <2>3. CASE q # r
    BY <1>1, <1>7, <2>1, <2>3 DEF DataInv, Uncrossed, NothingAhead
  <2> QED BY <2>2, <2>3
<1>10. ASSUME NEW q \in Runs \ crossed, NEW g \in Drivers(q)'
       PROVE  NothingAhead(q, job[g].snap)'
  <2>1. CASE q = r
    <3>1. g = h /\ job'[g].snap.at = c + 1
      BY <1>2, <1>3, <1>5, <2>1 DEF Drivers, Serving
    <3>2. NothingAhead(r, job[h].snap)
      BY <1>4, <2>1 DEF DataInv, Uncrossed
    <3>3. c \in Int /\ Calls \subseteq Int
      BY ConstantsAssumption DEF Calls
    <3>4. ASSUME NEW k \in Calls, k >= c + 1 PROVE times'[r][k] = 0
      <4>1. k # c /\ k >= c
        BY <3>3, <3>4
      <4> QED BY <1>0, <1>6, <3>2, <4>1 DEF NothingAhead
    <3> QED BY <2>1, <3>1, <3>4 DEF NothingAhead
  <2>2. CASE q # r
    <3>1. g \in Drivers(q) /\ job'[g] = job[g]
      BY <1>2, <1>3, <2>2 DEF Drivers, Serving
    <3>2. NothingAhead(q, job[g].snap)
      BY <3>1 DEF DataInv, Uncrossed
    <3> QED BY <1>7, <2>2, <3>1, <3>2 DEF NothingAhead
  <2> QED BY <2>1, <2>2
<1>11. ASSUME NEW q \in Runs \ crossed, NEW g \in Serving(q, {"resolved"})'
       PROVE  job'[g].meant = job'[g].snap.at
  <2>1. g \in Serving(q, {"resolved"}) /\ job'[g] = job[g]
    BY <1>2, <1>3 DEF Serving
  <2> QED BY <2>1 DEF DataInv, Uncrossed
<1>12. Uncrossed'
  BY <1>1, <1>9, <1>10, <1>11 DEF Uncrossed
<1>13. ASSUME NEW q \in Runs \ crossed, NEW k \in Calls
       PROVE  times'[q][k] <= 1 /\ (times'[q][k] > 0 => k \in yes[q])
  <2>1. CASE q = r /\ k = c /\ d \in Approving
    <3>1. NothingAhead(r, job[h].snap) /\ job[h].meant = c
      BY <1>0, <1>4, <2>1 DEF DataInv, Uncrossed
    <3>2. times[r][c] = 0
      <4>1. c >= c
        BY ConstantsAssumption DEF Calls
      <4> QED BY <1>0, <3>1, <4>1 DEF NothingAhead
    <3>3. c \in yes[r]
      BY <1>0, <1>1, <2>1, <3>1 DEF DataInv, SaidYes
    <3> QED BY <1>6, <2>1, <3>2, <3>3
  <2>2. CASE ~(q = r /\ k = c /\ d \in Approving)
    BY <1>6, <2>2 DEF DataInv, OneShotUnlessCrossed
  <2> QED BY <2>1, <2>2
<1>14. OneShotUnlessCrossed'
  BY <1>1, <1>13 DEF OneShotUnlessCrossed
<1> QED BY <1>8, <1>12, <1>14 DEF DataInv

LEMMA InitData == Init => DataInv
BY DEF Init, DataInv, Uncrossed, SaidYes, OneShotUnlessCrossed, NothingAhead, Drivers, Serving,
       DriverStages, Idle, NoRow

LEMMA NextData == ControlInv /\ DataInv /\ [Next]_vars => DataInv'
BY PlainActions, PlainData, BeginData, SuspendData, ResolveData, ApplyData DEF Next, Advance

(***************************************************************************)
(* If every answer of a run consumed the row it was given for, each gated  *)
(* call of the run ran at most once and only after a client approved that  *)
(* call, whatever crashes, expiries and repeated requests came in between. *)
(***************************************************************************)
THEOREM OneShot_Uncrossed == Spec => []OneShotUnlessCrossed
<1>1. Init => ControlInv /\ DataInv
  BY InitControlInv, InitData
<1>2. (ControlInv /\ DataInv) /\ [Next]_vars => (ControlInv /\ DataInv)'
  BY NextControlInv, NextData
<1>3. DataInv => OneShotUnlessCrossed
  BY DEF DataInv
<1> QED BY <1>1, <1>2, <1>3, PTL DEF Spec

(***************************************************************************)
(* The stages the requests of a run are in agree with its row, its token   *)
(* and what was said and run, in every state of any number of requests.    *)
(***************************************************************************)
THEOREM ProtocolInvariant == Spec => []ProtocolInv
<1>1. Init => ControlInv /\ DataInv
  BY InitControlInv, InitData
<1>2. (ControlInv /\ DataInv) /\ [Next]_vars => (ControlInv /\ DataInv)'
  BY NextControlInv, NextData
<1>3. ControlInv /\ DataInv => ProtocolInv
  BY DEF ControlInv, DataInv, ProtocolInv
<1> QED BY <1>1, <1>2, <1>3, PTL DEF Spec

-----------------------------------------------------------------------------
(***************************************************************************)
(* The limit of open approvals.  Only a suspension opens a row, and it     *)
(* counts the session's open rows in the same critical section.            *)
(***************************************************************************)
LEMMA NoNewOpen ==
  ASSUME TypeOK, PendingBounded,
         \A r \in Runs : row'[r].st = "open" => row[r].st = "open"
  PROVE  PendingBounded'
<1> SUFFICES ASSUME NEW s \in Sessions PROVE Cardinality(OpenIn(row, s)') <= MaxPending
  BY DEF PendingBounded
<1>1. OpenIn(row, s)' \subseteq OpenIn(row, s) /\ OpenIn(row, s) \subseteq Runs
  BY DEF OpenIn
<1>2. IsFiniteSet(OpenIn(row, s))
  BY <1>1, ConstantsAssumption, FS_Subset
<1>3. /\ Cardinality(OpenIn(row, s)') <= Cardinality(OpenIn(row, s))
      /\ IsFiniteSet(OpenIn(row, s)')
  BY <1>1, <1>2, FS_Subset
<1>4. Cardinality(OpenIn(row, s)) \in Nat /\ Cardinality(OpenIn(row, s)') \in Nat
  BY <1>2, <1>3, FS_CardinalityType
<1>5. Cardinality(OpenIn(row, s)) <= MaxPending
  BY DEF PendingBounded
<1> QED BY <1>3, <1>4, <1>5, ConstantsAssumption

LEMMA SuspendBounded ==
  ASSUME ControlInv, PendingBounded, NEW h \in Handlers, Suspend(h)
  PROVE  PendingBounded'
<1>0. PICK r \in Runs : r = job[h].run
  BY DEF Suspend, AtGatedCall, WellFormed, TypeOK, ControlInv
<1>1. \A q \in Runs \ {r} : row'[q] = ExpiredRows[q]
  BY <1>0, PurgeFacts DEF Suspend, SavePending, TypeOK, ControlInv
<1>2. HasRoom(r)
  BY <1>0 DEF Suspend
<1> SUFFICES ASSUME NEW s \in Sessions PROVE Cardinality(OpenIn(row, s)') <= MaxPending
  BY DEF PendingBounded
<1>3. /\ OpenIn(row, s) \subseteq Runs
      /\ OpenIn(row, s)' \subseteq Runs
      /\ OpenIn(ExpiredRows, s) \subseteq Runs
  BY DEF OpenIn
<1>4. /\ IsFiniteSet(OpenIn(row, s)) /\ IsFiniteSet(OpenIn(row, s)')
      /\ IsFiniteSet(OpenIn(ExpiredRows, s))
  BY <1>3, ConstantsAssumption, FS_Subset
<1>5. /\ Cardinality(OpenIn(row, s)) \in Nat /\ Cardinality(OpenIn(row, s)') \in Nat
      /\ Cardinality(OpenIn(ExpiredRows, s)) \in Nat
  BY <1>4, FS_CardinalityType
<1>6. CASE SessionOf[r] = s
  <2>1. OpenIn(row, s)' \subseteq OpenIn(ExpiredRows, s) \cup {r}
    BY <1>1 DEF OpenIn
  <2>2. Cardinality(OpenIn(ExpiredRows, s)) < MaxPending
    BY <1>2, <1>6 DEF HasRoom
  <2>3. /\ IsFiniteSet(OpenIn(ExpiredRows, s) \cup {r})
        /\ Cardinality(OpenIn(ExpiredRows, s) \cup {r}) <= Cardinality(OpenIn(ExpiredRows, s)) + 1
    <3>1. /\ IsFiniteSet(OpenIn(ExpiredRows, s) \cup {r})
          /\ \/ Cardinality(OpenIn(ExpiredRows, s) \cup {r}) = Cardinality(OpenIn(ExpiredRows, s))
             \/ Cardinality(OpenIn(ExpiredRows, s) \cup {r}) = Cardinality(OpenIn(ExpiredRows, s)) + 1
      <4> DEFINE O == OpenIn(ExpiredRows, s)
      <4>1. IsFiniteSet(O)
        BY <1>4
      <4> HIDE DEF O
      <4>2. /\ IsFiniteSet(O \cup {r})
            /\ Cardinality(O \cup {r}) = IF r \in O THEN Cardinality(O) ELSE Cardinality(O) + 1
        BY <4>1, FS_AddElement
      <4> QED BY <4>2 DEF O
    <3> QED BY <3>1, <1>5
  <2>4. Cardinality(OpenIn(row, s)') <= Cardinality(OpenIn(ExpiredRows, s) \cup {r})
    BY <2>1, <2>3, FS_Subset
  <2>5. Cardinality(OpenIn(ExpiredRows, s) \cup {r}) \in Nat
    BY <2>3, FS_CardinalityType
  <2> QED BY <1>5, <2>2, <2>3, <2>4, <2>5, ConstantsAssumption
<1>7. CASE SessionOf[r] # s
  <2>1. OpenIn(row, s)' \subseteq OpenIn(row, s)
    BY <1>1, <1>7, PurgeFacts DEF OpenIn, ControlInv, TypeOK
  <2>2. Cardinality(OpenIn(row, s)') <= Cardinality(OpenIn(row, s))
    BY <1>4, <2>1, FS_Subset
  <2>3. Cardinality(OpenIn(row, s)) <= MaxPending
    BY DEF PendingBounded
  <2> QED BY <1>5, <2>2, <2>3, ConstantsAssumption
<1> QED BY <1>6, <1>7

(* Only Suspend opens a row. *)
LEMMA OnlySuspendOpens ==
  ASSUME ControlInv, [Next]_vars, \A h \in Handlers : ~Suspend(h)
  PROVE  \A r \in Runs : /\ row'[r].st = "open" => row[r].st = "open"
                         /\ row[r].st # "open" => row'[r] = row[r]
<1>1. CASE QuietStep
  BY <1>1 DEF QuietStep, QuietRow
<1>2. ASSUME NEW h \in Handlers, NEW r \in Runs, ChatCheck(h, r) \/ SocketRun(h, r)
      PROVE  \A q \in Runs : QuietRow(q)
  BY <1>2, PurgeQuiet DEF ChatCheck, SocketRun, PurgeOnly, ControlInv
<1>3. ASSUME NEW h \in Handlers, Resolve(h)
      PROVE  \A q \in Runs : /\ row'[q].st = "open" => row[q].st = "open"
                             /\ row[q].st # "open" => row'[q] = row[q]
  <2>0. PICK r \in Runs : r = job[h].run
    BY <1>3 DEF Resolve, WellFormed, ControlInv, TypeOK
  <2>1. row[r].st = "open" /\ \A q \in Runs \ {r} : row'[q] = ExpiredRows[q]
    BY <1>3, <2>0, PurgeFacts DEF Resolve, ConsumeRow, ControlInv, TypeOK
  <2> QED BY <2>1, PurgeFacts DEF ControlInv, TypeOK
<1>4. CASE \A q \in Runs : QuietRow(q)
  BY <1>4 DEF QuietRow
<1> QED BY <1>1, <1>2, <1>3, <1>4, QuietActions DEF Next, Advance, ControlInv

(***************************************************************************)
(* No interleaving leaves a session with more open approvals than the      *)
(* limit, so the second loop of _purge_expired_pending never finds a row.  *)
(***************************************************************************)
THEOREM PendingLimit == Spec => []PendingBounded
<1>1. Init => PendingBounded
  <2> SUFFICES ASSUME Init, NEW s \in Sessions PROVE Cardinality(OpenIn(row, s)) <= MaxPending
    BY DEF PendingBounded
  <2>1. OpenIn(row, s) = {}
    BY DEF Init, OpenIn, NoRow
  <2> QED BY <2>1, FS_EmptySet, ConstantsAssumption
<1>2. ControlInv /\ PendingBounded /\ [Next]_vars => PendingBounded'
  BY SuspendBounded, OnlySuspendOpens, NoNewOpen DEF ControlInv
<1>3. Init => ControlInv /\ PendingBounded
  BY <1>1, InitControlInv
<1>4. (ControlInv /\ PendingBounded) /\ [Next]_vars => (ControlInv /\ PendingBounded)'
  BY <1>2, NextControlInv
<1> QED BY <1>3, <1>4, PTL DEF Spec

-----------------------------------------------------------------------------
(***************************************************************************)
(* An expired approval stays expired and its run makes no further call.    *)
(***************************************************************************)
LEMMA ExpiredStep ==
  ASSUME ControlInv, [Next]_vars, NEW r \in Runs, row[r].dec = "expired"
  PROVE  row'[r].dec = "expired" /\ times'[r] = times[r]
<1>1. row[r].st # "open" /\ Drivers(r) = {}
  BY DEF ControlInv, WellFormed
<1>2. ASSUME NEW h \in Handlers, Suspend(h) PROVE row'[r] = row[r]
  <2>1. PICK q \in Runs : q = job[h].run
    BY <1>2 DEF Suspend, AtGatedCall, WellFormed, TypeOK, ControlInv
  <2>2. q # r
    BY <1>1, <1>2, <2>1 DEF Suspend, AtGatedCall, Drivers, Serving, DriverStages
  <2>3. row'[r] = ExpiredRows[r]
    BY <1>2, <2>1, <2>2, PurgeFacts DEF Suspend, SavePending, TypeOK, ControlInv
  <2> QED BY <1>1, <2>3, PurgeFacts DEF ControlInv, TypeOK
<1>3. row'[r] = row[r]
  BY <1>1, <1>2, OnlySuspendOpens
<1>4. ASSUME NEW h \in Handlers, Apply(h) PROVE times'[r] = times[r]
  <2>1. job[h].run # r
    BY <1>1, <1>4 DEF Apply, Drivers, Serving, DriverStages
  <2> QED BY <1>4, <2>1 DEF Apply, ControlInv, TypeOK
<1>5. times' = times \/ \E h \in Handlers : Apply(h)
  BY DEF Next, Advance, vars, ChatStart, RunApprovedTool, Suspend, SuspendRefused, Finish,
         Resolve, ResolveTooLate, ChatCheck, SocketRun, Load, ListApprovals, Age, Crash, history
<1> QED BY <1>3, <1>4, <1>5

THEOREM ExpiryFinal == Spec => ExpiredIsFinal
<1>1. ControlInv /\ [Next]_vars =>
        [\A r \in Runs : row[r].dec = "expired" =>
           /\ row'[r].dec = "expired"
           /\ times'[r] = times[r]]_vars
  BY ExpiredStep
<1> QED BY <1>1, InitControlInv, NextControlInv, PTL DEF Spec, ExpiredIsFinal

-----------------------------------------------------------------------------
(***************************************************************************)
(* The refinement.  ApprovalProtocol implements ApprovalToken: each step   *)
(* of the store and the handlers is, for each run, a move of the abstract  *)
(* token or a rest.                                                        *)
(***************************************************************************)
HasGrant(r) == \E h \in Serving(r, {"resolved"}) : job[h].dec \in Approving

Counters(r) == granted'[r] = granted[r] /\ ran'[r] = ran[r]

PhaseMove(r) ==
  \/ (PhaseOf(r)' = PhaseOf(r) \/ <<PhaseOf(r), PhaseOf(r)'>> \in Token!QuietMoves) /\ Counters(r)
  \/ /\ PhaseOf(r) = "waiting" /\ PhaseOf(r)' = "granted"
     /\ granted'[r] = granted[r] + 1 /\ ran'[r] = ran[r]
  \/ /\ PhaseOf(r) = "granted" /\ PhaseOf(r)' = "driving"
     /\ granted'[r] = granted[r] /\ ran'[r] = ran[r] + 1

StableThreads(r) == Drivers(r)' = Drivers(r) /\ (HasGrant(r)' <=> HasGrant(r))

(***************************************************************************)
(* A run whose row is quiet and whose thread stays, or goes, makes a quiet *)
(* move or rests.                                                          *)
(***************************************************************************)
LEMMA QuietPhase ==
  ASSUME ControlInv, NEW r \in Runs, QuietRow(r), Counters(r),
         r \in started' <=> r \in started,
         Drivers(r)' = {} \/ StableThreads(r)
  PROVE  PhaseMove(r)
<1>1. (HasGrant(r) => Drivers(r) # {}) /\ (HasGrant(r)' => Drivers(r)' # {})
  BY DEF HasGrant, Drivers, Serving, DriverStages
<1>2. Drivers(r) # {} \/ row[r].st = "open" => r \in started
  BY DEF ControlInv, WellFormed, Drivers, Serving, DriverStages, NoRow
<1>3. row[r].st = "open" => Drivers(r) = {}
  BY DEF ControlInv, OneDriver
<1>4. /\ PhaseOf(r) = IF row[r].st = "open" THEN "waiting" ELSE IF HasGrant(r) THEN "granted"
                      ELSE IF Drivers(r) # {} THEN "driving"
                      ELSE IF r \notin started THEN "new" ELSE "over"
      /\ PhaseOf(r)' = IF row'[r].st = "open" THEN "waiting" ELSE IF HasGrant(r)' THEN "granted"
                       ELSE IF Drivers(r)' # {} THEN "driving"
                       ELSE IF r \notin started' THEN "new" ELSE "over"
  BY DEF PhaseOf, HasGrant
<1>5. CASE row[r].st = "open"
  BY <1>1, <1>2, <1>3, <1>4, <1>5 DEF PhaseMove, QuietRow, StableThreads, Token!QuietMoves
<1>6. CASE row[r].st # "open" /\ row'[r] = row[r]
  BY <1>1, <1>2, <1>4, <1>6 DEF PhaseMove, StableThreads, Token!QuietMoves
<1> QED BY <1>5, <1>6 DEF QuietRow

(***************************************************************************)
(* What a step of thread h does to the threads of run r.                   *)
(***************************************************************************)
LEMMA StepThreads ==
  ASSUME ControlInv, NEW h \in Handlers, NEW new, Step(h, new), NEW r \in Runs
  PROVE  /\ /\ h \notin Drivers(r)
            /\ new.run # r \/ new.pc \notin DriverStages
            => StableThreads(r)
         /\ /\ h \in Drivers(r)
            /\ new.run # r \/ new.pc \notin DriverStages
            => Drivers(r)' = {}
         /\ /\ h \in Drivers(r) /\ job[h].pc # "resolved"
            /\ new.run = r /\ new.pc = "driving"
            => StableThreads(r)
<1>1. \A g \in Handlers : job'[g] = IF g = h THEN new ELSE job[g]
  BY StepFacts DEF ControlInv
<1>2. \A g \in Drivers(r) : h \in Drivers(r) => g = h
  BY DEF ControlInv, OneDriver
<1>3. ASSUME h \notin Drivers(r), new.run # r \/ new.pc \notin DriverStages
      PROVE  StableThreads(r)
  <2>1. Drivers(r)' = Drivers(r)
    BY <1>1, <1>3 DEF Drivers, Serving
  <2>2. HasGrant(r)' <=> HasGrant(r)
    BY <1>1, <1>3 DEF HasGrant, Drivers, Serving, DriverStages
  <2> QED BY <2>1, <2>2 DEF StableThreads
<1>4. ASSUME h \in Drivers(r), new.run # r \/ new.pc \notin DriverStages
      PROVE  Drivers(r)' = {}
  BY <1>1, <1>2, <1>4 DEF Drivers, Serving
<1>5. ASSUME h \in Drivers(r), job[h].pc # "resolved", new.run = r, new.pc = "driving"
      PROVE  StableThreads(r)
  <2>1. Drivers(r)' = Drivers(r)
    BY <1>1, <1>2, <1>5 DEF Drivers, Serving, DriverStages
  <2>2. ~HasGrant(r)
    BY <1>2, <1>5 DEF HasGrant, Drivers, Serving, DriverStages
  <2>3. ~HasGrant(r)'
    BY <1>1, <1>2, <1>5 DEF HasGrant, Drivers, Serving, DriverStages
  <2> QED BY <2>1, <2>2, <2>3 DEF StableThreads
<1> QED BY <1>3, <1>4, <1>5

(***************************************************************************)
(* The steps after which every run rests, loses its thread or expires.     *)
(***************************************************************************)
LEMMA QuietRefines ==
  ASSUME ControlInv, NEW r \in Runs,
         \/ ListApprovals \/ Crash \/ UNCHANGED vars
         \/ \E q \in Runs : Age(q)
         \/ \E h \in Handlers : \/ ChatStart(h) \/ RunApprovedTool(h) \/ SuspendRefused(h)
                                \/ Finish(h) \/ ResolveTooLate(h)
         \/ \E h \in Handlers, q \in Runs, d \in Answers, c \in Calls : Load(h, q, d, c)
  PROVE  PhaseMove(r)
<1>1. QuietRow(r) /\ started' = started
  BY QuietActions DEF QuietStep, ControlInv
<1>2. Counters(r)
  BY DEF Counters, ListApprovals, Crash, vars, Age, ChatStart, RunApprovedTool, SuspendRefused,
         Finish, ResolveTooLate, Load, history
<1> SUFFICES Drivers(r)' = {} \/ StableThreads(r)
  BY <1>1, <1>2, QuietPhase
<1>3. Idle.run # r /\ Idle.pc = "idle"
  BY ConstantsAssumption DEF Idle
<1>4. ASSUME job' = job PROVE StableThreads(r)
  BY <1>4 DEF StableThreads, Drivers, Serving, HasGrant
<1>5. CASE ListApprovals \/ UNCHANGED vars \/ \E q \in Runs : Age(q)
  BY <1>4, <1>5 DEF ListApprovals, vars, Age
<1>6. CASE Crash
  BY <1>3, <1>6 DEF Crash, Drivers, Serving, DriverStages
<1>7. ASSUME NEW h \in Handlers, Return(h) PROVE Drivers(r)' = {} \/ StableThreads(r)
  BY <1>3, <1>7, StepThreads DEF Return, DriverStages
<1>8. ASSUME NEW h \in Handlers, ChatStart(h) \/ RunApprovedTool(h)
      PROVE  StableThreads(r)
  <2>1. job[h] \in Jobs /\ job[h].pc \in {"checked", "driving"}
    BY <1>8 DEF ChatStart, RunApprovedTool, AtGatedCall, ControlInv, TypeOK
  <2>2. PICK new : Step(h, new) /\ new.run = job[h].run /\ new.pc = "driving"
    <3>1. /\ [job[h] EXCEPT !.pc = "driving"].run = job[h].run
          /\ [job[h] EXCEPT !.pc = "driving"].pc = "driving"
          /\ [job[h] EXCEPT !.snap.at = @ + 1].run = job[h].run
          /\ [job[h] EXCEPT !.snap.at = @ + 1].pc = job[h].pc
      BY <2>1 DEF Jobs
    <3>2. RunApprovedTool(h) => job[h].pc = "driving"
      BY DEF RunApprovedTool, AtGatedCall
    <3> QED BY <1>8, <3>1, <3>2 DEF ChatStart, RunApprovedTool
  <2>3. h \in Drivers(r) <=> job[h].run = r
    BY <2>1 DEF Drivers, Serving, DriverStages
  <2> QED BY <2>1, <2>2, <2>3, StepThreads
<1>9. ASSUME NEW h \in Handlers, NEW q \in Runs, NEW d \in Answers, NEW c \in Calls, Load(h, q, d, c)
      PROVE  StableThreads(r)
  <2>1. job' = job \/ \E new : Step(h, new) /\ new.pc = "loaded"
    BY <1>9 DEF Load
  <2>2. h \notin Drivers(r)
    BY <1>9 DEF Load, Drivers, Serving, DriverStages
  <2> QED BY <1>4, <2>1, <2>2, StepThreads DEF DriverStages
<1>10. CASE \E h \in Handlers : SuspendRefused(h) \/ Finish(h) \/ ResolveTooLate(h)
  BY <1>7, <1>10 DEF SuspendRefused, Finish, ResolveTooLate
<1> QED BY <1>5, <1>6, <1>8, <1>9, <1>10

(* A chat request starts its run and leaves the others alone. *)
LEMMA BeginRefines ==
  ASSUME ControlInv, NEW r \in Runs, NEW h \in Handlers, NEW q \in Runs,
         ChatCheck(h, q) \/ SocketRun(h, q)
  PROVE  PhaseMove(r)
<1>1. PICK new : /\ Step(h, new) /\ new.run = q /\ new.pc \in {"checked", "driving"}
  <2>1. \A pc : [Idle EXCEPT !.pc = pc, !.run = q].run = q
                /\ [Idle EXCEPT !.pc = pc, !.run = q].pc = pc
    BY DEF Idle
  <2> QED BY <2>1 DEF ChatCheck, SocketRun
<1>2. q \notin started /\ started' = started \cup {q} /\ (row' = row \/ row' = ExpiredRows)
  BY DEF ChatCheck, SocketRun, PurgeOnly
<1>3. QuietRow(r)
  BY <1>2, PurgeQuiet DEF ControlInv
<1>4. Counters(r)
  BY DEF Counters, ChatCheck, SocketRun, history
<1>5. h \notin Drivers(r)
  BY DEF ChatCheck, SocketRun, Drivers, Serving, DriverStages
<1>6. CASE r # q
  BY <1>1, <1>2, <1>3, <1>4, <1>5, <1>6, StepThreads, QuietPhase
<1>7. CASE r = q
  <2>1. row[r].st # "open" /\ row'[r].st # "open"
    BY <1>2, <1>3, <1>7 DEF ControlInv, WellFormed, QuietRow, NoRow
  <2>2. Drivers(r) = {}
    BY <1>2, <1>7 DEF ControlInv, WellFormed, Drivers, Serving, DriverStages
  <2>3. Drivers(r)' = {h} /\ job'[h] = new
    BY <1>1, <1>7, <2>2, StepFacts DEF Drivers, DriverStages, ControlInv
  <2>4. PhaseOf(r) = "new"
    BY <1>2, <1>7, <2>1, <2>2 DEF PhaseOf, Drivers, Serving, DriverStages
  <2>5. PhaseOf(r)' = "driving"
    BY <1>1, <2>1, <2>3 DEF PhaseOf, Drivers, Serving, DriverStages
  <2> QED BY <1>4, <2>4, <2>5 DEF PhaseMove, Token!QuietMoves
<1> QED BY <1>6, <1>7

(* A suspension puts the thread's run into its waiting phase. *)
LEMMA SuspendRefines ==
  ASSUME ControlInv, NEW r \in Runs, NEW h \in Handlers, Suspend(h)
  PROVE  PhaseMove(r)
<1>0. PICK q \in Runs : q = job[h].run
  BY DEF Suspend, AtGatedCall, ControlInv, WellFormed, TypeOK
<1>1. Step(h, Idle) /\ started' = started /\ Counters(r)
  BY DEF Suspend, Return, history, Counters
<1>2. Idle.run \notin Runs /\ Idle.pc = "idle"
  BY ConstantsAssumption DEF Idle
<1>3. h \in Drivers(r) <=> r = q
  BY <1>0 DEF Suspend, AtGatedCall, Drivers, Serving, DriverStages
<1>4. CASE r # q
  <2>1. row'[r] = ExpiredRows[r]
    BY <1>0, <1>4, PurgeFacts DEF Suspend, SavePending, ControlInv, TypeOK
  <2>2. QuietRow(r)
    BY <2>1, PurgeFacts DEF QuietRow, ControlInv, TypeOK
  <2> QED BY <1>1, <1>2, <1>3, <1>4, <2>2, StepThreads, QuietPhase
<1>5. CASE r = q
  <2>1. row'[r].st = "open"
    BY <1>0, <1>5, PurgeFacts DEF Suspend, SavePending, ControlInv, TypeOK
  <2>2. \A g \in Drivers(r) : g = h
    BY <1>3, <1>5 DEF ControlInv, OneDriver
  <2>3. row[r].st # "open"
    BY <1>3, <1>5 DEF ControlInv, OneDriver
  <2>4. PhaseOf(r) = "driving"
    BY <1>3, <1>5, <2>2, <2>3 DEF PhaseOf, Suspend, AtGatedCall, Drivers, Serving, DriverStages
  <2>5. PhaseOf(r)' = "waiting"
    BY <2>1 DEF PhaseOf
  <2> QED BY <1>1, <2>4, <2>5 DEF PhaseMove, Token!QuietMoves
<1> QED BY <1>4, <1>5

(* Consuming a row grants the waiting run, or sends it on without a grant. *)
LEMMA ResolveRefines ==
  ASSUME ControlInv, NEW r \in Runs, NEW h \in Handlers, Resolve(h)
  PROVE  PhaseMove(r)
<1>0. PICK q \in Runs : q = job[h].run
  BY DEF Resolve, ControlInv, WellFormed, TypeOK
<1>1. PICK new : /\ Step(h, new)
                 /\ new.pc = "resolved" /\ new.run = q /\ new.dec = job[h].dec
  BY <1>0 DEF Resolve, ControlInv, TypeOK, Jobs
<1>2. h \notin Drivers(r)
  BY DEF Resolve, Drivers, Serving, DriverStages
<1>3. started' = started /\ ran' = ran
  BY DEF Resolve
<1>4. granted'[r] = IF r = q /\ job[h].dec \in Approving THEN granted[r] + 1 ELSE granted[r]
  BY <1>0 DEF Resolve, ControlInv, TypeOK
<1>5. CASE r # q
  <2>1. row'[r] = ExpiredRows[r]
    BY <1>0, <1>5, PurgeFacts DEF Resolve, ConsumeRow, ControlInv, TypeOK
  <2>2. QuietRow(r)
    BY <2>1, PurgeFacts DEF QuietRow, ControlInv, TypeOK
  <2>3. Counters(r)
    BY <1>3, <1>4, <1>5 DEF Counters
  <2> QED BY <1>1, <1>2, <1>3, <1>5, <2>2, <2>3, StepThreads, QuietPhase
<1>6. CASE r = q
  <2>1. row[r].st = "open"
    BY <1>0, <1>6, PurgeFacts DEF Resolve, ControlInv, TypeOK
  <2>2. row'[r].st = "closed"
    <3>1. ExpiredRows[r] \in Rows /\ ExpiredRows \in [Runs -> Rows]
      BY PurgeFacts DEF ControlInv, TypeOK
    <3>2. row'[r] = [ExpiredRows[r] EXCEPT !.st = "closed", !.dec = job[h].dec]
      BY <1>0, <1>6, <3>1 DEF Resolve, ConsumeRow
    <3> QED BY <3>1, <3>2 DEF Rows
  <2>3. Drivers(r)' = {h} /\ job'[h] = new
    BY <1>1, <1>6, <2>1, StepFacts DEF Drivers, DriverStages, ControlInv, OneDriver
  <2>4. HasGrant(r)' <=> job[h].dec \in Approving
    BY <1>1, <1>6, <2>3 DEF HasGrant, Drivers, Serving, DriverStages
  <2>5. PhaseOf(r) = "waiting"
    BY <2>1 DEF PhaseOf
  <2>6. PhaseOf(r)' = IF job[h].dec \in Approving THEN "granted" ELSE "driving"
    BY <2>2, <2>3, <2>4 DEF PhaseOf, HasGrant
  <2> QED BY <1>3, <1>4, <1>6, <2>5, <2>6 DEF PhaseMove, Counters, Token!QuietMoves
<1> QED BY <1>5, <1>6

(* Applying an answer uses up the grant, if there is one. *)
LEMMA ApplyRefines ==
  ASSUME ControlInv, NEW r \in Runs, NEW h \in Handlers, Apply(h)
  PROVE  PhaseMove(r)
<1>0. PICK q \in Runs : q = job[h].run
  BY DEF Apply, ControlInv, WellFormed, TypeOK
<1>1. PICK new : Step(h, new) /\ new.pc = "driving" /\ new.run = q
  <2>1. \A snap : [Idle EXCEPT !.pc = "driving", !.run = q, !.snap = snap].run = q
                  /\ [Idle EXCEPT !.pc = "driving", !.run = q, !.snap = snap].pc = "driving"
    BY DEF Idle
  <2>2. \E snap : Step(h, [Idle EXCEPT !.pc = "driving", !.run = q, !.snap = snap])
    BY <1>0, Zenon DEF Apply
  <2> QED BY <2>1, <2>2
<1>2. started' = started /\ granted' = granted /\ row' = row
  BY DEF Apply
<1>3. ran'[r] = IF r = q /\ job[h].dec \in Approving THEN ran[r] + 1 ELSE ran[r]
  BY <1>0 DEF Apply, ControlInv, TypeOK
<1>4. h \in Drivers(r) <=> r = q
  BY <1>0 DEF Apply, Drivers, Serving, DriverStages
<1>5. CASE r # q
  <2>1. QuietRow(r) /\ Counters(r)
    BY <1>2, <1>3, <1>5 DEF QuietRow, Counters
  <2> QED BY <1>1, <1>2, <1>4, <1>5, <2>1, StepThreads, QuietPhase
<1>6. CASE r = q
  <2>1. \A g \in Drivers(r) : g = h
    BY <1>4, <1>6 DEF ControlInv, OneDriver
  <2>2. row[r].st # "open" /\ row'[r].st # "open"
    BY <1>2, <1>4, <1>6 DEF ControlInv, OneDriver
  <2>3. HasGrant(r) <=> job[h].dec \in Approving
    BY <1>0, <1>6, <2>1 DEF HasGrant, Drivers, Serving, DriverStages, Apply
  <2>4. Drivers(r)' = {h} /\ job'[h] = new
    BY <1>1, <1>4, <1>6, <2>1, StepFacts DEF Drivers, DriverStages, ControlInv
  <2>5. ~HasGrant(r)'
    BY <1>1, <2>4 DEF HasGrant, Drivers, Serving, DriverStages
  <2>6. PhaseOf(r) = IF job[h].dec \in Approving THEN "granted" ELSE "driving"
    BY <1>4, <1>6, <2>2, <2>3 DEF PhaseOf, HasGrant
  <2>7. PhaseOf(r)' = "driving"
    BY <2>2, <2>4, <2>5 DEF PhaseOf, HasGrant
  <2> QED BY <1>2, <1>3, <1>6, <2>6, <2>7 DEF PhaseMove, Counters
<1> QED BY <1>5, <1>6

LEMMA StepRefines ==
  ASSUME ControlInv, [Next]_vars PROVE \A r \in Runs : PhaseMove(r)
<1> SUFFICES ASSUME NEW r \in Runs PROVE PhaseMove(r)
  OBVIOUS
<1>1. ASSUME NEW h \in Handlers, Advance(h) PROVE PhaseMove(r)
  BY <1>1, QuietRefines, SuspendRefines, ResolveRefines, ApplyRefines DEF Advance
<1>2. ASSUME NEW h \in Handlers, NEW q \in Runs, ChatCheck(h, q) \/ SocketRun(h, q)
      PROVE  PhaseMove(r)
  BY <1>2, BeginRefines
<1>3. CASE \/ ListApprovals \/ Crash \/ UNCHANGED vars
           \/ \E q \in Runs : Age(q)
           \/ \E h \in Handlers, q \in Runs, d \in Answers, c \in Calls : Load(h, q, d, c)
  BY <1>3, QuietRefines
<1> QED BY <1>1, <1>2, <1>3 DEF Next

(***************************************************************************)
(* Each behaviour of the store and the handlers is, run by run, a          *)
(* behaviour of the one-answer token: an answer moves a waiting run once,  *)
(* a gated call runs only against a grant, an expired or lost run stays so.*)
(***************************************************************************)
THEOREM Refinement == Spec => ImplementsToken
<1>1. Init => Token!TokenInit
  <2> SUFFICES ASSUME Init, NEW r \in Runs PROVE PhaseOf(r) = "new"
    BY DEF Token!TokenInit, Init
  <2>1. Drivers(r) = {} /\ ~HasGrant(r)
    BY DEF Init, HasGrant, Drivers, Serving, DriverStages, Idle
  <2> QED BY <2>1 DEF Init, PhaseOf, HasGrant, NoRow
<1>2. ControlInv /\ [Next]_vars => Token!TokenNext
  <2> SUFFICES ASSUME ControlInv, [Next]_vars, NEW r \in Runs
               PROVE  Token!Quiet(r) \/ Token!Grant(r) \/ Token!RunCall(r) \/ Token!Rest(r)
    BY DEF Token!TokenNext
  <2>1. PhaseMove(r)
    BY StepRefines
  <2> QED BY <2>1 DEF PhaseMove, Counters, Token!Quiet, Token!Grant, Token!RunCall, Token!Rest
<1>3. Init => ControlInv
  BY InitControlInv
<1>4. ControlInv /\ [Next]_vars => ControlInv'
  BY NextControlInv
<1> QED BY <1>1, <1>2, <1>3, <1>4, PTL DEF Spec, ImplementsToken, Token!TokenSpec


=============================================================================
