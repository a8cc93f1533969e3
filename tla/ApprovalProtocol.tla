--------------------------- MODULE ApprovalProtocol ---------------------------
(***************************************************************************)
(* Suspension and resumption of runs: nimna/core/agent.py (run, resume,    *)
(* _apply_decision, _suspend), nimna/memory/store.py (pending_runs and     *)
(* approvals) and the handlers of nimna/api/app.py that call them.         *)
(*                                                                         *)
(* A run reaches gated calls 1, 2, ... in order.  The thread that reaches  *)
(* one writes the whole run state to pending_runs and forgets the run; the *)
(* thread that serves the answer reads the state back, consumes the row    *)
(* and goes on from there.  The row's id is the run's id, so the row of a  *)
(* later call REPLACES the row of an earlier one, and a POST names only    *)
(* the id: `meant` records which call the client was looking at.           *)
(*                                                                         *)
(* A step is one critical section of the store's lock, or one stretch of   *)
(* work that touches nothing another thread can see.                       *)
(***************************************************************************)
EXTENDS Naturals, FiniteSets

CONSTANTS
  Runs,        \* run ids (32 hex digits, never reused)
  NoRun,       \* the job of a thread that serves no run
  Sessions,
  Handlers,    \* the worker threads of the server
  Tools,       \* tools whose calls need an approval
  NCalls,      \* bound: gated calls a run can reach
  SessionOf,   \* [Runs -> Sessions]
  ToolOf,      \* [1..NCalls -> Tools]
  MaxPending   \* MAX_PENDING_PER_SESSION

Calls == 1 .. NCalls

ASSUME ConstantsAssumption ==
  /\ NCalls \in Nat
  /\ MaxPending \in Nat \ {0}
  /\ NoRun \notin Runs
  /\ IsFiniteSet(Runs)
  /\ SessionOf \in [Runs -> Sessions]
  /\ ToolOf \in [Calls -> Tools]

VARIABLES
  row,      \* pending_runs: one row per run
  audit,    \* approvals: one row per run
  job,      \* what each thread is doing
  started,  \* runs some thread has begun
  asked,    \* calls of a run that were ever put to a client
  \* history, read by no action
  times,    \* how often a gated call ran on an approval
  granted,  \* approving answers consumed for a run
  ran,      \* calls the run made on an approval
  yes,      \* calls of a run some client said yes to
  crossed   \* runs where an answer consumed a row it was not given for

vars == <<row, audit, job, started, asked, times, granted, ran, yes, crossed>>

-----------------------------------------------------------------------------
Answers == {"approve", "always", "deny"}
Approving == {"approve", "always"}

(***************************************************************************)
(* The part of RunState the protocol depends on: the gated call the run    *)
(* has reached, and the tools answered with "always".                      *)
(***************************************************************************)
Snapshots == [at: 1 .. NCalls + 1, always: SUBSET Tools]
Fresh == [at |-> 1, always |-> {}]

Rows == [st: {"none", "open", "closed"}, dec: Answers \cup {"none", "expired"},
         snap: Snapshots, ttl: {"running", "passed"}]
NoRow == [st |-> "none", dec |-> "none", snap |-> Fresh, ttl |-> "running"]

(***************************************************************************)
(* The table approvals has CHECK(decision IN ('approved', 'rejected',      *)
(* 'expired')).                                                            *)
(***************************************************************************)
AuditDecisions == {"approved", "rejected", "expired"}
Audits == [call: 0 .. NCalls, dec: AuditDecisions \cup {"none"}]
NoAudit == [call |-> 0, dec |-> "none"]

Stages == {"idle", "checked", "driving", "loaded", "resolved"}
Jobs == [pc: Stages, run: Runs \cup {NoRun}, snap: Snapshots,
         dec: Answers \cup {"none"}, meant: 0 .. NCalls]
Idle == [pc |-> "idle", run |-> NoRun, snap |-> Fresh, dec |-> "none", meant |-> 0]

Serving(r, stages) == {h \in Handlers : job[h].run = r /\ job[h].pc \in stages}

(***************************************************************************)
(* A thread owns the run's state only after it created the run or consumed *)
(* the run's row.                                                          *)
(***************************************************************************)
DriverStages == {"checked", "driving", "resolved"}
Drivers(r) == Serving(r, DriverStages)

-----------------------------------------------------------------------------
(* The store *)

(***************************************************************************)
(* _purge_expired_pending, which every access to pending_runs performs     *)
(* first.  It then expires the oldest rows of a session over the limit,    *)
(* which never finds any: save_pending keeps the limit (PendingBounded).   *)
(***************************************************************************)
Expire(w) ==
  IF w.st = "open" /\ w.ttl = "passed" THEN [w EXCEPT !.st = "closed", !.dec = "expired"] ELSE w

ExpiredRows == [r \in Runs |-> Expire(row[r])]

(* INSERT OR IGNORE: keeps the row that save_pending inserted, if any. *)
ExpiredAudit ==
  [r \in Runs |->
     IF ExpiredRows[r] # row[r] /\ audit[r] = NoAudit
     THEN [call |-> 0, dec |-> "expired"] ELSE audit[r]]

OpenIn(rows, s) == {r \in Runs : rows[r].st = "open" /\ SessionOf[r] = s}

(* Mutant: the limit is compared with > instead of >=. *)
HasRoomOffByOne(r) == Cardinality(OpenIn(ExpiredRows, SessionOf[r])) <= MaxPending

HasRoom(r) == Cardinality(OpenIn(ExpiredRows, SessionOf[r])) < MaxPending

(* save_pending: INSERT OR REPLACE the run's row, INSERT OR IGNORE its audit. *)
SavePending(r, snap) ==
  /\ row' = [ExpiredRows EXCEPT
               ![r] = [st |-> "open", dec |-> "none", snap |-> snap, ttl |-> "running"]]
  /\ audit' = IF ExpiredAudit[r] = NoAudit
              THEN [ExpiredAudit EXCEPT ![r] = [call |-> snap.at, dec |-> "none"]]
              ELSE ExpiredAudit

(* Mutant: the table approvals without its CHECK. *)
DecidedUnchecked(a, d) == [a EXCEPT !.dec = d]

(* The UPDATE of approvals fails its CHECK for a value outside the column's
   domain; resolve_pending swallows the error. *)
Decided(a, d) == IF d \in AuditDecisions THEN [a EXCEPT !.dec = d] ELSE a

(* Mutant: the UPDATE records the decision and forgets resolved_at. *)
ConsumeRowLeftOpen(r, d) ==
  /\ row' = [ExpiredRows EXCEPT ![r].dec = d]
  /\ audit' = [ExpiredAudit EXCEPT ![r] = Decided(@, d)]

(* resolve_pending once the purge is done and the row is known to be open. *)
ConsumeRow(r, d) ==
  /\ row' = [ExpiredRows EXCEPT ![r].st = "closed", ![r].dec = d]
  /\ audit' = [ExpiredAudit EXCEPT ![r] = Decided(@, d)]

PurgeOnly == row' = ExpiredRows /\ audit' = ExpiredAudit

-----------------------------------------------------------------------------
(* Requests and the agent *)

Init ==
  /\ row = [r \in Runs |-> NoRow]
  /\ audit = [r \in Runs |-> NoAudit]
  /\ job = [h \in Handlers |-> Idle]
  /\ started = {}
  /\ asked = [r \in Runs |-> {}]
  /\ times = [r \in Runs |-> [c \in Calls |-> 0]]
  /\ granted = [r \in Runs |-> 0]
  /\ ran = [r \in Runs |-> 0]
  /\ yes = [r \in Runs |-> {}]
  /\ crossed = {}

history == <<times, granted, ran, yes, crossed>>

Step(h, new) == job' = [job EXCEPT ![h] = new]
Return(h) == Step(h, Idle)

(***************************************************************************)
(* POST /api/chat.  The check for a pending approval and the run itself    *)
(* are two steps: the run starts in the thread pool.                       *)
(***************************************************************************)
ChatCheck(h, r) ==
  /\ job[h].pc = "idle"
  /\ r \notin started
  /\ OpenIn(ExpiredRows, SessionOf[r]) = {}
  /\ started' = started \cup {r}
  /\ Step(h, [Idle EXCEPT !.pc = "checked", !.run = r])
  /\ PurgeOnly
  /\ UNCHANGED <<asked, history>>

ChatStart(h) ==
  /\ job[h].pc = "checked"
  /\ Step(h, [job[h] EXCEPT !.pc = "driving"])
  /\ UNCHANGED <<row, audit, started, asked, history>>

(* The WebSocket handler runs the agent without looking for approvals. *)
SocketRun(h, r) ==
  /\ job[h].pc = "idle"
  /\ r \notin started
  /\ started' = started \cup {r}
  /\ Step(h, [Idle EXCEPT !.pc = "driving", !.run = r])
  /\ UNCHANGED <<row, audit, asked, history>>

(* GET /api/approvals, which purges before it lists. *)
ListApprovals ==
  /\ PurgeOnly
  /\ UNCHANGED <<job, started, asked, history>>

AtGatedCall(h) == job[h].pc = "driving" /\ job[h].snap.at \in Calls

(* A gated call whose tool was answered "always": it runs at once. *)
RunApprovedTool(h) ==
  /\ AtGatedCall(h)
  /\ ToolOf[job[h].snap.at] \in job[h].snap.always
  /\ Step(h, [job[h] EXCEPT !.snap.at = @ + 1])
  /\ UNCHANGED <<row, audit, started, asked, history>>

(* Mutant: the thread saves the run and goes on with it. *)
SuspendGoesOn(h) ==
  /\ AtGatedCall(h)
  /\ ToolOf[job[h].snap.at] \notin job[h].snap.always
  /\ HasRoom(job[h].run)
  /\ SavePending(job[h].run, job[h].snap)
  /\ asked' = [asked EXCEPT ![job[h].run] = @ \cup {job[h].snap.at}]
  /\ UNCHANGED <<job, started, history>>

(* Decision.DEFER, then _suspend. *)
Suspend(h) ==
  LET r == job[h].run
      snap == job[h].snap
  IN
  /\ AtGatedCall(h)
  /\ ToolOf[snap.at] \notin snap.always
  /\ HasRoom(r)
  /\ SavePending(r, snap)
  /\ asked' = [asked EXCEPT ![r] = @ \cup {snap.at}]
  /\ Return(h)
  /\ UNCHANGED <<started, history>>

(* save_pending raises: run() reports a failed run, resume() a server error. *)
SuspendRefused(h) ==
  /\ AtGatedCall(h)
  /\ ToolOf[job[h].snap.at] \notin job[h].snap.always
  /\ ~HasRoom(job[h].run)
  /\ PurgeOnly
  /\ Return(h)
  /\ UNCHANGED <<started, asked, history>>

(* A final answer, an exhausted budget or a provider error ends the run. *)
Finish(h) ==
  /\ job[h].pc = "driving"
  /\ Return(h)
  /\ UNCHANGED <<row, audit, started, asked, history>>

(***************************************************************************)
(* POST /api/approvals/{run_id}, first step: get_pending reads the state.  *)
(* The client answers a call it was shown, now or long ago; a retried or   *)
(* delayed POST is another answer to the same call.                        *)
(***************************************************************************)
Load(h, r, d, c) ==
  /\ job[h].pc = "idle"
  /\ c \in asked[r]
  /\ PurgeOnly
  /\ IF ExpiredRows[r].st = "open"
     THEN /\ Step(h, [pc |-> "loaded", run |-> r, snap |-> row[r].snap,
                      dec |-> d, meant |-> c])
          /\ yes' = [yes EXCEPT ![r] = IF d \in Approving THEN @ \cup {c} ELSE @]
     ELSE UNCHANGED <<job, yes>>
  /\ UNCHANGED <<started, asked, times, granted, ran, crossed>>

(* Mutant: the UPDATE lacks its WHERE resolved_at IS NULL. *)
ResolveUnguarded(h) ==
  /\ job[h].pc = "loaded"
  /\ ConsumeRow(job[h].run, job[h].dec)
  /\ Step(h, [job[h] EXCEPT !.pc = "resolved"])
  /\ granted' = [granted EXCEPT ![job[h].run] = IF job[h].dec \in Approving THEN @ + 1 ELSE @]
  /\ UNCHANGED <<started, asked, times, ran, yes, crossed>>

(***************************************************************************)
(* Second step: resolve_pending closes whatever row of this run is open.   *)
(* It does not compare that row with the state that was read.              *)
(***************************************************************************)
Resolve(h) ==
  LET r == job[h].run
      d == job[h].dec
  IN
  /\ job[h].pc = "loaded"
  /\ ExpiredRows[r].st = "open"
  /\ ConsumeRow(r, d)
  /\ Step(h, [job[h] EXCEPT !.pc = "resolved"])
  /\ granted' = [granted EXCEPT ![r] = IF d \in Approving THEN @ + 1 ELSE @]
  /\ crossed' = IF row[r].snap = job[h].snap /\ row[r].snap.at = job[h].meant
                THEN crossed ELSE crossed \cup {r}
  /\ UNCHANGED <<started, asked, times, ran, yes>>

(* The row was consumed or has expired meanwhile: KeyError, answered 404,   *)
(* but only after the UPDATE of approvals.                                 *)
ResolveTooLate(h) ==
  /\ job[h].pc = "loaded"
  /\ ExpiredRows[job[h].run].st # "open"
  /\ row' = ExpiredRows
  /\ audit' = [ExpiredAudit EXCEPT ![job[h].run] = Decided(@, job[h].dec)]
  /\ Return(h)
  /\ UNCHANGED <<started, asked, history>>

(* Mutant: a refused call runs as well. *)
ApplyAnyAnswer(h) ==
  LET r == job[h].run
      c == job[h].snap.at
  IN
  /\ job[h].pc = "resolved"
  /\ times' = [times EXCEPT ![r][c] = @ + 1]
  /\ ran' = [ran EXCEPT ![r] = @ + 1]
  /\ Step(h, [job[h] EXCEPT !.pc = "driving", !.snap.at = @ + 1])
  /\ UNCHANGED <<row, audit, started, asked, granted, yes, crossed>>

(* Mutant: the call's result is not appended, so the run reaches it again. *)
ApplyNotRecorded(h) ==
  LET r == job[h].run
      c == job[h].snap.at
  IN
  /\ job[h].pc = "resolved"
  /\ times' = [times EXCEPT ![r][c] = IF job[h].dec \in Approving THEN @ + 1 ELSE @]
  /\ ran' = [ran EXCEPT ![r] = IF job[h].dec \in Approving THEN @ + 1 ELSE @]
  /\ Step(h, [job[h] EXCEPT !.pc = "driving"])
  /\ UNCHANGED <<row, audit, started, asked, granted, yes, crossed>>

(* _apply_decision: run the call of the state that was READ, or refuse it. *)
Apply(h) ==
  LET r == job[h].run
      c == job[h].snap.at
      d == job[h].dec
  IN
  /\ job[h].pc = "resolved"
  /\ IF d \in Approving
     THEN /\ times' = [times EXCEPT ![r][c] = @ + 1]
          /\ ran' = [ran EXCEPT ![r] = @ + 1]
     ELSE UNCHANGED <<times, ran>>
  /\ Step(h, [Idle EXCEPT
       !.pc = "driving", !.run = r,
       !.snap = [at |-> c + 1,
                 always |-> job[h].snap.always
                              \cup (IF d = "always" THEN {ToolOf[c]} ELSE {})]])
  /\ UNCHANGED <<row, audit, started, asked, granted, yes, crossed>>

(* The 300 seconds of PENDING_TTL_SECONDS pass for an open row. *)
Age(r) ==
  /\ row[r].st = "open"
  /\ row[r].ttl = "running"
  /\ row' = [row EXCEPT ![r].ttl = "passed"]
  /\ UNCHANGED <<audit, job, started, asked, history>>

(* The server dies and restarts; the database survives, the threads do not. *)
Crash ==
  /\ job' = [h \in Handlers |-> Idle]
  /\ UNCHANGED <<row, audit, started, asked, history>>

Advance(h) ==
  \/ ChatStart(h)
  \/ RunApprovedTool(h)
  \/ Suspend(h)
  \/ SuspendRefused(h)
  \/ Finish(h)
  \/ Resolve(h)
  \/ ResolveTooLate(h)
  \/ Apply(h)

Next ==
  \/ \E h \in Handlers : Advance(h)
  \/ \E h \in Handlers, r \in Runs : ChatCheck(h, r)
  \/ \E h \in Handlers, r \in Runs : SocketRun(h, r)
  \/ \E h \in Handlers, r \in Runs, d \in Answers, c \in Calls : Load(h, r, d, c)
  \/ ListApprovals
  \/ \E r \in Runs : Age(r)
  \/ Crash

Spec == Init /\ [][Next]_vars

-----------------------------------------------------------------------------
(* Properties *)

(* Every variable keeps its type. *)
TypeOK ==
  /\ row \in [Runs -> Rows]
  /\ audit \in [Runs -> Audits]
  /\ job \in [Handlers -> Jobs]
  /\ started \in SUBSET Runs
  /\ asked \in [Runs -> SUBSET Calls]
  /\ times \in [Runs -> [Calls -> Nat]]
  /\ granted \in [Runs -> Nat]
  /\ ran \in [Runs -> Nat]
  /\ yes \in [Runs -> SUBSET Calls]
  /\ crossed \in SUBSET Runs

(***************************************************************************)
(* The open row is the run's token.  Whatever requests race, at most one   *)
(* thread drives a run, and none does while its row is open: the atomic    *)
(* UPDATE of resolve_pending hands the run to exactly one of them.         *)
(***************************************************************************)
OneDriver ==
  \A r \in Runs :
    /\ row[r].st = "open" => Drivers(r) = {}
    /\ \A h1, h2 \in Drivers(r) : h1 = h2

(***************************************************************************)
(* save_pending counts and inserts under one lock, so no interleaving of   *)
(* chats, sockets and resumed runs leaves a session with more than         *)
(* MaxPending open approvals.                                              *)
(***************************************************************************)
PendingBounded ==
  \A s \in Sessions : Cardinality(OpenIn(row, s)) <= MaxPending

(***************************************************************************)
(* If every answer of a run consumed the row it was given for, then each   *)
(* gated call ran at most once, and only because some client said yes to   *)
(* that very call: over crashes, expiry, refused suspensions and any       *)
(* number of repeated requests.                                            *)
(***************************************************************************)
OneShotUnlessCrossed ==
  \A r \in Runs \ crossed : \A c \in Calls :
    /\ times[r][c] <= 1
    /\ times[r][c] > 0 => c \in yes[r]

(***************************************************************************)
(* An approval that expired is never consumed afterwards and its run never *)
(* runs another call, even when an answer had already read the row.        *)
(***************************************************************************)
ExpiredIsFinal ==
  [][\A r \in Runs : row[r].dec = "expired" =>
       /\ row'[r].dec = "expired"
       /\ times'[r] = times[r]]_vars

(***************************************************************************)
(* What makes the above inductive.  A busy thread serves a run that was    *)
(* begun; the state it holds, and the state an open row holds, point at a  *)
(* gated call where the next step needs one.  Until an answer crosses, no  *)
(* call from that point on has run, and a consumed yes is for that call.   *)
(***************************************************************************)
WellFormed ==
  /\ \A h \in Handlers :
       /\ job[h].pc # "idle" => job[h].run \in started
       /\ job[h].pc \in {"loaded", "resolved"} =>
            job[h].snap.at \in Calls /\ job[h].dec \in Answers
  /\ \A r \in Runs :
       /\ row[r].st = "open" => row[r].snap.at \in Calls
       /\ r \notin started => row[r] = NoRow
       /\ row[r].st = "open" => row[r].dec = "none"
       /\ row[r].dec = "expired" => Drivers(r) = {}

NothingAhead(r, snap) == \A c \in Calls : c >= snap.at => times[r][c] = 0

Uncrossed ==
  \A r \in Runs \ crossed :
    /\ r \notin started => NothingAhead(r, Fresh)
    /\ row[r].st = "open" => NothingAhead(r, row[r].snap)
    /\ \A h \in Drivers(r) : NothingAhead(r, job[h].snap)
    /\ \A h \in Serving(r, {"resolved"}) : job[h].meant = job[h].snap.at

SaidYes ==
  \A h \in Handlers :
    job[h].pc \in {"loaded", "resolved"} /\ job[h].dec \in Approving =>
      job[h].meant \in yes[job[h].run]

ProtocolInv == WellFormed /\ OneDriver /\ Uncrossed /\ SaidYes /\ OneShotUnlessCrossed

(***************************************************************************)
(* The phase of the abstract specification each run is in.                 *)
(***************************************************************************)
PhaseOf(r) ==
  IF row[r].st = "open" THEN "waiting"
  ELSE IF \E h \in Serving(r, {"resolved"}) : job[h].dec \in Approving THEN "granted"
  ELSE IF Drivers(r) # {} THEN "driving"
  ELSE IF r \notin started THEN "new"
  ELSE "over"

Token == INSTANCE ApprovalToken
           WITH phase <- [r \in Runs |-> PhaseOf(r)], grants <- granted

(* The store and the handlers implement the one-answer token of each run. *)
ImplementsToken == Token!TokenSpec

(***************************************************************************)
(* "Atomic: only transition from NULL -> timestamp, prevents duplicate     *)
(* resume (one-shot)" (nimna/memory/store.py:463): no gated call runs      *)
(* twice.  False: see the README.                                          *)
(***************************************************************************)
OneShot == \A r \in Runs, c \in Calls : times[r][c] <= 1

(***************************************************************************)
(* "the approval is bound to the EXACT deferred call"                      *)
(* (nimna/core/agent.py:230): a gated call runs only if some client        *)
(* approved that call.  False: see the README.                             *)
(***************************************************************************)
BoundToAnswer == \A r \in Runs, c \in Calls : times[r][c] > 0 => c \in yes[r]

(***************************************************************************)
(* "Mark expired as resolved ... and also insert into approvals for audit" *)
(* (nimna/memory/store.py:359): an expired approval has an audit row that  *)
(* says so.  False: see the README.                                        *)
(***************************************************************************)
ExpiryAudited == \A r \in Runs : row[r].dec = "expired" => audit[r].dec = "expired"

==============================================================================
