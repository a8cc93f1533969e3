---------------------------------- MODULE Suite ----------------------------------
(***************************************************************************)
(* The task suite, scripts/run_arena_suite.py: processes that run tasks    *)
(* one after the other in fresh workspaces, check and verify what the      *)
(* agent did, and keep the scores in one ledger.                           *)
(*                                                                         *)
(* Processes share the ledger only, and what a task does before its row is *)
(* recorded touches nothing of it: therefore one task is run at a time     *)
(* (busy), in any order with the tasks of the other processes.             *)
(*                                                                         *)
(* The agent, its model and what its commands leave running are external.  *)
(***************************************************************************)
EXTENDS Verifier, Shell, FileTools, Sequences

CONSTANTS
  Suites,         \* processes
  NoSuite,
  Order,          \* the tasks of a suite, in the order of their files
  Spec0,          \* [tasks -> what their files say, see IsTaskSpec]
  Commands,       \* commands a model asks for
  Calls,          \* calls of the file tools it asks for
  NoCall,
  Updates,        \* what another tool or a command may do to a workspace
  Secret,         \* contents that look like secrets
  Modes,          \* the modes that the processes are started in
  Earlier,        \* ledgers that earlier processes left
  ScriptLength,   \* len(mock_script)
  MaxEdits,       \* bound: changes of a workspace by other tools and leftovers
  NoScore

Tasks == {Order[i] : i \in DOMAIN Order}

(***************************************************************************)
(* What the file of a task says.  A score is rounded to a tenth of a per   *)
(* cent: with fewer than 2000 checks (each artifact is one, and two more   *)
(* if it was claimed; a hit of the scan and the verifier are one each) a   *)
(* check that fails is never rounded away.                                 *)
(***************************************************************************)
IsTaskSpec(f) ==
  /\ f.shell \in BOOLEAN /\ f.seed \in World /\ f.terms \in Nat
  /\ IsFiniteSet(f.artifacts) /\ \A a \in f.artifacts : a.path \in Paths /\ a.want \subseteq Contents
  /\ \A k \in f.verify : k.kind \in Kinds /\ k.path \in Paths
  /\ 3 * Cardinality(f.artifacts) + f.terms + 2 < 2000

(* The columns that are read again. *)
Row == [suite : Suites \cup {NoSuite}, task : Tasks, mode : {"mock", "live"},
        score : Nat \cup {NoScore}]

ASSUME SuiteAssumption ==
  /\ Modes \subseteq [Suites -> {"mock", "live"}]
  /\ \A rows \in Earlier : rows \in Seq(Row) /\ \A i \in DOMAIN rows : rows[i].suite = NoSuite
  /\ Commands \subseteq Command /\ Calls \subseteq FileCall /\ Secret \subseteq Contents
  /\ \A e \in Updates : DOMAIN e \subseteq Paths /\ \A p \in DOMAIN e : e[p] \in Contents \cup {Absent}
  /\ ScriptLength \in Nat /\ MaxEdits \in Nat /\ NoScore \notin Nat /\ NoSuite \notin Suites
  /\ Order \in Seq(Tasks) /\ \A t \in Tasks : IsTaskSpec(Spec0[t])
  /\ \A i, j \in DOMAIN Order : Order[i] = Order[j] => i = j   \* load_tasks()

VARIABLES
  ledger,     \* rows, in the order of their insertion
  phase, mode, previous, next, regressions,   \* of each process
  base,       \* history: rows in the ledger when the process read it
  busy,       \* the process whose task is being run
  shell,      \* capability shell_tool of that task
  pc, world, ev, resumes, edits,
  pending,    \* the command or the call that waits for its approval
  checks,     \* [total, failed]
  verdict,    \* of the verifier
  stale       \* history: the workspace changed after the checks

suiteVars == <<phase, mode, previous, next, regressions, base>>
taskVars == <<shell, pc, world, ev, resumes, edits, pending, checks, verdict, stale>>
vars == <<ledger, suiteVars, busy, taskVars>>

NoChecks == [total |-> 0, failed |-> 0]

IsEvidence(e) ==
  /\ e.before \in World /\ e.after \in World /\ e.exit \in Exits
  /\ e = EvidenceOf(e.before, e.after, e.exit)

TypeOK ==
  /\ ledger \in Seq(Row)
  /\ phase \in [Suites -> {"new", "running", "ended", "killed"}]
  /\ mode \in [Suites -> {"mock", "live"}]
  /\ previous \in [Suites -> [Tasks -> Nat \cup {NoScore}]]
  /\ next \in [Suites -> 1 .. Len(Order) + 1]
  /\ regressions \in [Suites -> SUBSET Tasks]
  /\ base \in [Suites -> Nat]
  /\ busy \in Suites \cup {NoSuite} /\ shell \in BOOLEAN
  /\ pc \in {"idle", "agent", "suspended", "checks", "verify", "finish"}
  /\ world \in World /\ (ev # NoEvidence => IsEvidence(ev))
  /\ resumes \in 0 .. ScriptLength + 3 /\ edits \in 0 .. MaxEdits
  /\ pending \in Commands \cup Calls \cup {NoCall}
  /\ checks \in [total : Nat, failed : Nat]
  /\ verdict \in {"none", "PASS", "FAIL", "INCONCLUSIVE"} /\ stale \in BOOLEAN

Empty == [p \in Paths |-> Absent]

Idle ==
  /\ busy = NoSuite /\ shell = FALSE /\ pc = "idle" /\ world = Empty /\ ev = NoEvidence
  /\ resumes = 0 /\ edits = 0 /\ pending = NoCall /\ checks = NoChecks /\ verdict = "none" /\ stale = FALSE

BecomesIdle ==
  /\ busy' = NoSuite /\ shell' = FALSE /\ pc' = "idle" /\ world' = Empty /\ ev' = NoEvidence
  /\ resumes' = 0 /\ edits' = 0 /\ pending' = NoCall /\ checks' = NoChecks /\ verdict' = "none" /\ stale' = FALSE

Init ==
  /\ ledger \in Earlier
  /\ phase = [s \in Suites |-> "new"]
  /\ mode \in Modes
  /\ previous = [s \in Suites |-> [t \in Tasks |-> NoScore]]
  /\ next = [s \in Suites |-> 1]
  /\ regressions = [s \in Suites |-> {}]
  /\ base = [s \in Suites |-> 0]
  /\ Idle

(***************************************************************************)
(* The ledger                                                              *)
(***************************************************************************)
Rows(m, t) == {i \in DOMAIN ledger : ledger[i].mode = m /\ ledger[i].task = t}

Scored(m, t) == {i \in Rows(m, t) : ledger[i].score # NoScore}

(* Mutant: the last row, with a score or without. *)
LastScoreOrNull(m, t) == IF Rows(m, t) = {} THEN NoScore ELSE ledger[Greatest(Rows(m, t))].score

(* last_scores() of one task: NULL scores are left out. *)
LastScore(m, t) == IF Scored(m, t) = {} THEN NoScore ELSE ledger[Greatest(Scored(m, t))].score

Task(s) == Order[next[s]]

Record(s, score) ==
  /\ ledger' = Append(ledger, [suite |-> s, task |-> Task(s), mode |-> mode[s], score |-> score])
  /\ next' = [next EXCEPT ![s] = @ + 1]
  /\ BecomesIdle
  /\ UNCHANGED <<phase, mode, previous, regressions, base>>

(***************************************************************************)
(* A process                                                               *)
(***************************************************************************)
Start(s) ==
  /\ phase[s] = "new"
  /\ previous' = [previous EXCEPT ![s] = [t \in Tasks |-> LastScore(mode[s], t)]]
  /\ base' = [base EXCEPT ![s] = Len(ledger)]
  /\ phase' = [phase EXCEPT ![s] = "running"]
  /\ UNCHANGED <<ledger, mode, next, regressions, busy, taskVars>>

(* The rows of the process itself against what it read when it started. *)
Regressed(s) ==
  {ledger[i].task : i \in {i \in DOMAIN ledger :
     LET r == ledger[i] IN
     /\ r.suite = s /\ r.score # NoScore /\ previous[s][r.task] # NoScore
     /\ r.score < previous[s][r.task]}}

End(s) ==
  /\ phase[s] = "running" /\ next[s] > Len(Order)
  /\ phase' = [phase EXCEPT ![s] = "ended"]
  /\ regressions' = [regressions EXCEPT ![s] = Regressed(s)]
  /\ UNCHANGED <<ledger, mode, previous, next, base, busy, taskVars>>

(* The process dies; the rows it recorded stay. *)
Kill(s) ==
  /\ phase[s] = "running"
  /\ phase' = [phase EXCEPT ![s] = "killed"]
  /\ IF busy = s THEN BecomesIdle ELSE UNCHANGED <<busy, taskVars>>
  /\ UNCHANGED <<ledger, mode, previous, next, regressions, base>>

(***************************************************************************)
(* run_task()                                                              *)
(***************************************************************************)
(* SKIPPED: a missing capability, no provider in live mode.  ERROR: a failing setup. *)
NotRun(s) ==
  /\ phase[s] = "running" /\ next[s] <= Len(Order) /\ busy = NoSuite
  /\ Record(s, NoScore)

(* Whether SHELL_TOOL_ENABLED is set; a task that requires it is not run without. *)
ShellEnabled(t) == IF Spec0[t].shell THEN {TRUE} ELSE BOOLEAN

BeginTask(s) ==
  /\ phase[s] = "running" /\ next[s] <= Len(Order) /\ busy = NoSuite
  /\ shell' \in ShellEnabled(Task(s))
  /\ busy' = s /\ pc' = "agent" /\ world' = Spec0[Task(s)].seed
  /\ UNCHANGED <<ledger, suiteVars, ev, resumes, edits, pending, checks, verdict, stale>>

Apply(e, w) == [p \in Paths |-> IF p \in DOMAIN e THEN e[p] ELSE w[p]]

(***************************************************************************)
(* Other tools of the agent, and what a command left running, change the   *)
(* workspace; the latter also while an approval is given and while the     *)
(* workspace is checked.  After the verifier nothing looks at it again.    *)
(***************************************************************************)
Edit(s) ==
  /\ busy = s /\ edits < MaxEdits
  /\ pc = "agent" \/ (pc \in {"suspended", "checks", "verify"} /\ resumes > 0)
  /\ \E e \in Updates : world' = Apply(e, world)
  /\ edits' = edits + 1
  /\ stale' = (pc = "verify")
  /\ UNCHANGED <<ledger, suiteVars, busy, shell, pc, ev, resumes, pending, checks, verdict>>

(* The model asks for a file tool that needs no approval. *)
WriteNew(s) ==
  /\ busy = s /\ pc = "agent"
  /\ \E c \in {c \in Calls : EffectiveRisk(c, world) = "safe"} : world' = RunTool(c, world)
  /\ UNCHANGED <<ledger, suiteVars, busy, shell, pc, ev, resumes, edits, pending, checks, verdict, stale>>

(* The model asks for a command or a file tool that needs an approval. *)
Suspend(s) ==
  /\ busy = s /\ pc = "agent"
  /\ pending' \in (IF shell THEN Commands ELSE {})
                  \cup {c \in Calls : EffectiveRisk(c, world) = "confirm"}
  /\ pc' = "suspended"
  /\ UNCHANGED <<ledger, suiteVars, busy, shell, world, ev, resumes, edits, checks, verdict, stale>>

(***************************************************************************)
(* execute_shell(): a command that is not cleared, or a sandbox that does  *)
(* not start, leaves no evidence, so that the evidence of the command      *)
(* before it remains the last one.                                         *)
(***************************************************************************)
RunCommand(c) ==
  \/ UNCHANGED <<world, ev>>
  \/ /\ Clearance(shell, TRUE, c) = "clear"
     /\ \E e \in Updates, x \in Exits :
          /\ world' = Apply(e, world)
          /\ ev' = EvidenceOf(world, Apply(e, world), x)

(* The suite approves whatever is waiting. *)
Resume(s) ==
  /\ busy = s /\ pc = "suspended" /\ resumes < ScriptLength + 3
  /\ resumes' = resumes + 1 /\ pc' = "agent" /\ pending' = NoCall
  /\ IF pending \in Commands THEN RunCommand(pending)
     ELSE world' = RunTool(pending, world) /\ UNCHANGED ev
  /\ UNCHANGED <<ledger, suiteVars, busy, shell, edits, checks, verdict, stale>>

(* The run crashes, or asks for more approvals than the suite gives. *)
AgentFails(s) ==
  /\ busy = s
  /\ pc = "agent" \/ (pc = "suspended" /\ resumes = ScriptLength + 3)
  /\ Record(s, NoScore)

Replies(s) ==
  /\ busy = s /\ pc = "agent"
  /\ pc' = "checks"
  /\ UNCHANGED <<ledger, suiteVars, busy, shell, world, ev, resumes, edits, pending, checks, verdict, stale>>

Count(b) == IF b THEN 1 ELSE 0

(* Artifacts the last command claims to have made. *)
Claimed(t) ==
  {a \in Spec0[t].artifacts :
     ev # NoEvidence /\ \E c \in ChangesAt(ev, a.path) : c.kind # "DELETED"}

(* The scan of the workspace: one check, which fails, if there is a hit. *)
SecretHits == Count(\E p \in Paths : world[p] \in Secret)

(* _run_checks(); wrong terms of the reply are a choice of the model. *)
RunChecks(s) ==
  LET t == Task(s)
      missing == {a \in Spec0[t].artifacts : world[a.path] \notin a.want}
      refuted == {a \in Claimed(t) : \E c \in ChangesAt(ev, a.path) : ~Matches(world, c)} IN
  /\ busy = s /\ pc = "checks"
  /\ \E wrong \in 0 .. Spec0[t].terms :
       checks' = [total  |-> Cardinality(Spec0[t].artifacts) + Spec0[t].terms
                               + 2 * Cardinality(Claimed(t)) + SecretHits,
                  failed |-> Cardinality(missing) + wrong + Cardinality(refuted) + SecretHits]
  /\ pc' = IF Spec0[t].verify = {} THEN "finish" ELSE "verify"
  /\ UNCHANGED <<ledger, suiteVars, busy, shell, world, ev, resumes, edits, pending, verdict, stale>>

(* Mutant: the verifier's verdict is not counted. *)
CountVerdictNever(v) == checks

CountVerdict(v) == [total |-> checks.total + 1, failed |-> checks.failed + Count(v # "PASS")]

(* The policy of the commands that the verifier runs. *)
SuiteRules ==
  <<[effect |-> "DENY", capabilities |-> {"shell"}, operation |-> "*",
     resources |-> {"system", "absolute"}],
    [effect |-> "ALLOW", capabilities |-> {"shell"}, operation |-> "*", resources |-> {"workspace"}]>>

Fabric == INSTANCE ExecutionPolicy WITH
  Known <- {"shell"}, Revoked <- {}, Rules <- SuiteRules

(* The gateway that the verifier's commands cross, with the consent of the *)
(* suite as the operator, if the shell was granted.                        *)
CommandCleared(granted) ==
  LET request == [capabilities |-> {"shell"}, operation |-> "verify.command", resource |-> "workspace"]
      grant == [kind |-> IF granted THEN "standing" ELSE "absent", consent |-> FALSE]
  IN granted /\ Fabric!Adjudicate(request, grant, FALSE) = "ALLOW"

(***************************************************************************)
(* The verifier.  A command may be refused by the shell as well, and a     *)
(* verifier that crashes is inconclusive.                                  *)
(***************************************************************************)
Verify(s) ==
  /\ busy = s /\ pc = "verify"
  /\ \E status \in IF CommandCleared(shell) THEN Exits \cup {"refused"} ELSE {"refused"},
        crashes \in BOOLEAN :
       LET v == IF crashes THEN "INCONCLUSIVE"
                ELSE VerdictOf(Spec0[Task(s)].verify, world, ev, status) IN
       verdict' = v /\ checks' = CountVerdict(v)
  /\ pc' = "finish"
  /\ UNCHANGED <<ledger, suiteVars, busy, shell, world, ev, resumes, edits, pending, stale>>

Score ==
  IF checks.total = 0 THEN NoScore
  ELSE (2000 * (checks.total - checks.failed) + checks.total) \div (2 * checks.total)

(* The verdict of the row; a secret is among the checks that failed. *)
Verdict(s) ==
  CASE mode[s] = "mock" -> "MOCKED"
    [] mode[s] = "live" -> IF checks.failed = 0 THEN "PASS" ELSE "FAIL"

(* The mission of a task in which a command ran, see Recovery. *)
Mission ==
  CASE ev = NoEvidence -> "none"
    [] ev # NoEvidence -> CASE verdict = "PASS" -> "COMPLETED"
                            [] verdict = "FAIL" -> "FAILED"
                            [] OTHER -> "CHECKPOINTED"

(* The metric "verified" of the row. *)
Verified(s) == Verdict(s) \in {"MOCKED", "PASS"} /\ Score = 1000

Finish(s) == busy = s /\ pc = "finish" /\ Record(s, Score)

Step(s) ==
  \/ Start(s) \/ End(s) \/ NotRun(s) \/ BeginTask(s) \/ Edit(s) \/ WriteNew(s)
  \/ Suspend(s) \/ Resume(s) \/ AgentFails(s) \/ Replies(s) \/ RunChecks(s) \/ Verify(s) \/ Finish(s)

Next == \E s \in Suites : Step(s) \/ Kill(s)

Spec == Init /\ [][Next]_vars

(***************************************************************************)
(* Properties                                                              *)
(***************************************************************************)
(* The changes reported of a command are the whole difference of its two   *)
(* snapshots: a reader who applies them to the first gets the second, and  *)
(* no path is reported twice; renamings are found by hash, and equal files *)
(* that come and go are not lost in them.                                  *)
DeltaRebuilds ==
  ev # NoEvidence =>
    /\ Rebuilt(Snapshot(ev.before), ev.changes) = Snapshot(ev.after)
    /\ \A c, d \in ev.changes : c.path = d.path => c = d

(* If all checks pass, and nothing changed since, then every expected      *)
(* artifact that the last command claims to have made is, content by       *)
(* content, what it was when the command ended, whatever other tools and   *)
(* leftovers did in between.  If the verifier passes, each file of a       *)
(* delta_sha check is what the observer saw of it: a file beyond the       *)
(* observer's limit was reported as deleted, and only then has to be gone. *)
PassIsReobserved ==
  pc = "finish" /\ ~stale =>
    /\ checks.failed = 0 => \A a \in Claimed(Task(busy)) : world[a.path] = ev.after[a.path]
    /\ verdict = "PASS" =>
         \A k \in Spec0[Task(busy)].verify : k.kind = "delta_sha" =>
           IF k.path \in Seen(ev.after)
             THEN world[k.path] = ev.after[k.path] /\ world[k.path] \in Hashed
             ELSE world[k.path] = Absent

(* The row and the mission of a task tell one story: of a task that has a  *)
(* verification and ran a command, a live row passes only with a completed *)
(* mission, and no row whose mission failed or stayed diagnosable counts   *)
(* as verified or has a full score.                                        *)
OutcomesAgree ==
  pc = "finish" /\ Spec0[Task(busy)].verify # {} /\ ev # NoEvidence =>
    /\ Verdict(busy) = "PASS" => Mission = "COMPLETED"
    /\ Mission # "COMPLETED" => Score < 1000 /\ ~Verified(busy)

(* A process that ends reports a regression exactly of the tasks whose     *)
(* score fell below the last score the ledger has before its own row, over *)
(* rows without a score, rows of the other mode and rows of processes that *)
(* were killed; unless another process scored the task in between.         *)
DeclineIsReported ==
  \A i \in DOMAIN ledger :
    LET r == ledger[i]
        before == {j \in Scored(r.mode, r.task) : j < i} IN
    r.suite \in Suites /\ phase[r.suite] = "ended" /\ r.score # NoScore
      /\ (\A j \in before : j <= base[r.suite]) =>
      (r.task \in regressions[r.suite]
         <=> before # {} /\ r.score < ledger[Greatest(before)].score)

==================================================================================
