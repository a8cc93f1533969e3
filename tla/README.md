# A TLA+ model of cela.nimna

nimna is a single-process Python agent server. A model provider proposes tool
calls, the agent runs them, and calls that are not harmless wait for a person's
consent. Around that core sit a swarm planner, a governed execution layer
(gateway, policy, recovery, evidence), a FastAPI front end, stores for
messages, audit records and vectors, and two programs that report on it: a task
suite and an evaluation of pull requests.

This directory holds TLA+ modules for the parts whose correctness depends on
the order in which things happen, or on an algorithm that is easy to get wrong,
the TLC configurations that check them on small instances, and TLAPS proofs for
every value of the constants. Paths below are relative to the repository
(`src/` in `PROJECT.json`).

## 1. Inventory

| component | state it keeps | operations | what is hard | what makes it correct |
|---|---|---|---|---|
| Approval protocol: `core/agent.py` (`run`, `resume`, `_apply_decision`, `_suspend`), `memory/store.py` (`pending_runs`, `approvals`), `api/app.py` (`chat`, `resolve_approval`, `list_approvals`, `ws_dashboard`) | one row per run with the serialised `RunState`, resolved or not; one audit row per run; the thread that drives the run | chat, socket message, list, answer, expire | requests for the same run race between `get_pending` and `resolve_pending`; rows expire in between; the process may die with a consumed row in hand; the row id is reused by the next approval of the run | a run is driven by one thread; an approval lets one call run once, the call the person saw; an expired approval is never used; a session has a bounded number of them |
| Agent loop: `core/agent.py` (`_drive`, `_execute_calls`, `_apply_decision`, `_needs_revision`, `_run_tool`), `core/state.py`, `governance/policy.py`, `security/anomaly.py` | `RunState`: counters, seen signatures, pending call, approved tools, loaded skills, status | a model turn, a tool call, its approval, denial, deferral, the resumption | six limits looked at in different places; a batch interrupted in the middle and finished by another request; a kill switch that only sets a status | limits hold across suspensions; each call of a turn is answered exactly once before the next turn; no tool behind the gate runs without consent; the loop ends |
| Swarm: `core/planner_swarm.py`, `agents/*`, `Agent.run_swarm` | a DAG of tasks, results shared between batches | decompose, batch, execute in parallel, synthesise | cycles and duplicate ids in a DAG a model wrote; one failing task of several | every task is started once and after what it depends on |
| Skills and planner: `skills/*`, `core/planner.py` | the catalogue of skills | select, load, reload | reload while runs hold names of skills | scope follows the loaded skills |
| Audit chain: `memory/store.py` (`log`, `verify_audit_chain`), `provenance/hashchain.py`, `evidence/journal.py` | hash-linked rows | append, verify a session or a run | concurrent appends; verifying a filtered part of a global chain | any edit, removal or reorder is detected, an untouched chain verifies |
| Vector memory: `memory/qdrant.py` | vectors in an external service | upsert, search, fall back | service down | none that is not the service's own |
| API security: `api/security.py` | hits per key, open sockets per key | hit, acquire, release | limits under concurrency, release on failure | limits hold, no slot leaks |
| Execution recovery: `execution/recovery.py` | checkpoints on disk; mission states in memory only | register, checkpoint, complete, fail, abort, restore, resume, confirm | crash between save and commit; corrupt newest checkpoint; resume of a mission that had ended | a completed or aborted mission does not run again; a gate is never skipped; a verified step is not repeated |
| Execution registry and evidence: `execution/tool_registry.py` | descriptors with a lifecycle and versions; a bounded hash chain | register, replace, unregister, set availability, invoke | long sequences of legal calls; pruning of the chain | REVOKED is terminal; versions grow; the retained chain verifies |
| Execution policy and gateway: `execution/policy.py`, `execution/gateway.py` | rules, grants, catalogue | adjudicate, invoke, checkpoint | a consent that is asked for and not looked at; a handler failing half-way | the handler runs only after every gate allowed it |
| Observation and verification: `execution/observation.py`, `execution/verification.py` | snapshots of the workspace | snapshot, delta, verify | renames, files over the limits | the delta leads from one snapshot to the other |
| Cost guard: `models/registry.py`, `models/guarded.py` | spent and reserved money | authorize, settle | check-then-reserve without a lock, from several threads | reservations never exceed the budget |
| Providers: `providers/*` | none | generate | timeouts, retries | answers or `ProviderError` |
| Built-in tools and sandbox: `tools/*` | workspace files | one call each | subprocess timeouts, patches that fit or not | path confinement, a failed call changes nothing |
| Task suite: `scripts/run_arena_suite.py` | a ledger of scored rows shared by processes; one workspace per task | start, run a task, approve, check, verify, record, report | files that change between a command, the checks and the verifier; suites killed over one ledger | a pass is what was observed; row and mission agree; a decline is reported |
| Evaluation of pull requests: `scripts/evaluate_arena.py` | the parser's variables | parse a diff, find signals, ask a benchmark and a judge, exit | lines that look like headers, paths in quotes, line breaks that git does not know, limits on what is captured, answers that are not what was asked for | the diff is recovered; a strict run fails exactly when it should |
| Vision cache, browser, metrics, manifest, CLI, other scripts, infra | caches, settings | I/O | none of an ordering kind | - |

### How they interact

* A chat request checks for open approvals of its session, then runs the agent
  in a worker thread. The WebSocket handler runs it without the check.
* When a call needs consent and the policy defers, the thread writes the whole
  `RunState` to `pending_runs` and returns: between the two requests the run
  exists only as that row.
* `POST /api/approvals/{run_id}` reads the row (`get_pending`), consumes it
  (`resolve_pending`) and goes on with the state it read, in a thread of its
  own. These are separate critical sections of the store's lock.
* Each access to `pending_runs` first expires rows older than 300 seconds.
  Nothing else does: there is no timer.
* The loop calls the provider through the cost guard and tools either directly
  or through the execution gateway; the kill switch listens to shell tools.
* The registry, policy, observation, verification and recovery modules of
  `execution/` are called from the gateway, which several threads of a process
  cross at a time, and from the task suite.
* The requests of the planner and of the worker threads of a swarm all pass one
  cost guard, which has no lock.
* Every HTTP request and WebSocket handshake passes the guard of
  `api/security.py`; a chat may change `settings.swarm_enabled`, which every
  other request reads, and puts it back when its run has ended.
* The audit journal is a table of the store. Other processes on the same file
  (the CLI beside the server) append to the same chain with a lock of their own.

## 2. Modules

| module | role | proofs |
|---|---|---|
| `ApprovalToken` | abstract: what the approval store promises of one run | |
| `ApprovalProtocol` | requests, threads, rows, expiry and crashes of the approval protocol | `ApprovalProtocol_proofs` |
| `AgentLoop` | one run: turns, batches of calls, limits, consent, kill switch | `AgentLoop_proofs` |
| `ApiSecurity` | which configurations start, who a request comes from | |
| `ApiServer` | chats and sockets against the limiters, the shared swarm setting, the ping loop; extends `ApiSecurity` | `ApiServer_proofs` |
| `Provider` | what a model request may come to and what is tried again | |
| `CostGuard` | prices, boot policy, reservation and settlement; extends `Provider` | `Swarm_proofs` |
| `Swarm` | one swarm request over the guard and the provider; extends `CostGuard` | `Swarm_proofs` |
| `Schema` | JSON schemas of tools and what conforms to them | |
| `ToolRegistry` | descriptors, versions, lifecycle; extends `Schema` | |
| `EvidenceChain` | the bounded hash chain of invocations | |
| `ExecutionPolicy` | capabilities, grants, rules, `adjudicate` as functions | |
| `Gateway` | threads that cross the gateway while the registry changes; extends the three above | `Gateway_proofs` |
| `Recovery` | checkpoints, missions, crashes and corruption | `Storage_proofs` |
| `AuditLog` | the audit journal, its readers and its verification | `Storage_proofs` |
| `Observation` | snapshots, deltas and re-observation of a workspace | |
| `Verifier` | the outcome of checks and their verdict; extends `Observation` | |
| `FileTools`, `Shell` | what the tools that write do, and the stages a command passes before it runs | |
| `Suite` | tasks, approvals, checks, verdicts and the ledger; extends `Verifier`, `Shell`, `FileTools`, instantiates `ExecutionPolicy` | `Arena_proofs` |
| `DiffReport` | parser of diffs, findings, judge and exit code | `Arena_proofs` |
| `FoldFacts` | lemmas the proofs share: induction, folds over finite sets, sequences that grow | its own |
| `MCApproval`, `MCLoop`, `MCApi`, `MCSwarm`, `MCGateway`, `MCRecovery`, `MCArena`, `MCDiff` | constants for TLC | |

### ApprovalProtocol

A step is one critical section of the store's lock, or a stretch of work no
other thread can observe.

| model | code |
|---|---|
| `row` | table `pending_runs`: `st` is "open" while `resolved_at IS NULL`; `snap` is the serialised state; `ttl` whether `created_at` is more than 300 s ago |
| `audit` | table `approvals`, whose CHECK admits only 'approved', 'rejected', 'expired' |
| `job` | a worker thread: "checked" (chat saw no open approval), "driving", "loaded" (`get_pending` returned), "resolved" (`resolve_pending` returned) |
| `started`, `asked` | run ids that exist; calls a client has been shown |
| `times`, `granted`, `ran`, `yes`, `crossed` | history, read by no action |

Abstractions:

* A run is the sequence of its gated calls; what it does between two of them is
  invisible to other threads. A batch, the limits and the kill switch are in
  `AgentLoop`.
* `meant` is the call the client looked at when it answered. The request
  carries only the run id, so the server cannot see it.
* The purge and the critical section after it are one step: the lock is
  released between them, but what could happen there (a row passing its TTL, a
  row of another run being written) leads to states that a purge in another
  order also reaches. A row that passes its TTL between the purge and the
  UPDATE of `resolve_pending` is consumed late by less than that gap.
* The second loop of the purge (oldest rows over the limit) is left out: it
  finds nothing, because the limit is kept (`PendingBounded`).
* The UPDATE of `approvals` writes 'approve', 'always' or 'deny', none of which
  the CHECK admits, and the exception is swallowed: `Decided` is that UPDATE.
* The digest check of `_apply_decision` compares a digest and a call of the
  same row and so always agrees; records from before the digest existed are not
  modelled.
* One process. A second one on the same database would not share the lock.

### AgentLoop

`pc` is where the run's thread is; the other variables are fields of
`RunState`. The model and the user answer arbitrarily. A call is its signature
(tool and arguments), a tool result is its success or failure, and
`Usable[loaded]` are the calls that pass the checks of scope, arguments and
policy under the loaded skills. Whether a call is gated is a matter of its tool and
the loaded skills; that the risk of `write_file` and others depends on their
parameters is in `FileTools` only. `StandingConsent` keeps both keys the code
stores for an "always": `tool|skills` and the bare `tool`.

Abstractions: the gateway path of `_run_tool` and the injection of images only
change what a result says; a review that fails with a provider error accepts
the draft; `auto_approve` (a setting that turns the gate off) and a tool that
disappears while its call waits are not modelled; `clock` passes once and is
not turned back by a restart of the machine.

### ApiSecurity and ApiServer

The event loop runs one handler between two awaits; `agent.run` is on a thread.
A step is such a stretch. `bucket` is `SlidingWindowRateLimiter._hits`, `active`
is `ConnectionLimiter._active`, `swarm` is `settings.swarm_enabled`, `chat` and
`socket` hold the local variables of the handlers. `recent`, `configured`,
`mixed` and `excused` are history. `hit` drops old hits from the left of a
bucket until it meets a young one (`After`), and only when it is called; `recent`
holds what was admitted in the last window by its time and a number, apart from
what any bucket remembers. Time advances in ticks, not past a timer that
is due, nor past a pong that the handler could read.

Abstractions: a client answers a ping at once or not at all; what a run does is
in `AgentLoop`; public paths and routes without state pass unseen; CORS only
decides whether the server starts; the limit of ten messages per second of a
socket is not modelled.

### Provider, CostGuard and Swarm

A request to a model is authorized, sent, perhaps tried again, answered and
settled. `authorize` makes no call between its check and its addition and is one
step. Each of the two updates of `settle` calls `max()` between the read of a
counter and the store, so it is two steps (`Answer`/`Release`,
`ReadSpent`/`Book`), and what another thread stored in between is lost. `flaws`
records when that happened, when a request cost more than its estimate, and when
one was authorized inside another's `settle`. Money and tokens are counted in
small units, and the prices are per token.

`Swarm` is the planner's thread and one worker per task. `Accepted` and
`Batches` are `decompose` and `_batches` as folds; `plan`, `batches`, `shared`
and `context` are theirs. A task is known by its position, since the model may
give two the same id. With `swarm_parallel` a batch is gathered, without it the
coroutines are awaited one after the other. What a worker does with a tool is
left out: the tool runs, or the loop ends in an exception.

Not modelled: the `TypeError` of a client without a parameter, upon which the
request is sent again, and the request with which `Agent._should_swarm` asks for a
decomposition before `run` does.

### Schema, ToolRegistry, EvidenceChain, ExecutionPolicy and Gateway

A JSON value is a function from the paths of its nodes to the nodes, and so is a
schema; `NoProblem` is `validate_instance`. The registry's `tools` is `_tools`;
a descriptor keeps its version, its state, its schemas and whether it declares
effects on files. An entry of the evidence chain is the number it was given,
which stands for its hash, and the hash it is linked to.

A thread in the gateway goes through `Begin` (the gateway's own look at the
registry and the first snapshot), `PassGates` (the gates of
`ToolRegistry.invoke`, on the descriptor that looks up itself), `RunHandler`,
`Log` (an entry of the registry), `Conclude` (second snapshot, verification,
checkpoint) and `Log` again (the gateway's entry). `Operate` is one change of the
registry by somebody else. The clock is read once, at the gates. Sizes of
arguments and texts of descriptors are abstracted; which gate refused plays no
part after it did. Three things are one step that the code does in several:
`invoke_for_agent` looks at `list_tools` before `Begin`, `set_availability` reads
twice and writes without a lock, and `_mission_seq += 1`
(`nimna/execution/gateway.py:317`), which has no lock either, gives every call a
mission of its own here.

### Recovery

`disk` and `ckpt` are the files, `state` is `RecoveryManager._state`, and a
`Crash` loses everything but the files. `CrashInSave` dies after `os.replace`
and before the transition was committed. `Gate` is the order of the gates of
`resume`; a fingerprint or an evidence head matters only as equal or not to what
`resume` is given. The owner of a mission, who does its steps, is external. Missions
are registered as `register` does by default and move by its methods: no part of nimna
passes another `initial` state or calls `transition()` itself.

### AuditLog

A hash determines what was hashed, the previous hash included: it is modelled as
the sequence of contents from the genesis on, so that equal hashes mean equal
histories and nothing else. `log` is `Draft` (it reads the newest row and
computes) and `Insert`, because another process on the same file may come in
between. `get_audit` and `Verified` differ as in the code: one takes the newest
rows up to the limit, the other the oldest. `Rewrite` and `Delete` stand for a
change of the database by other means, once.

### Observation, Verifier, FileTools, Shell and Suite

A world is what is at each path; a content is its text, with the hash it has or
has not and its metadata. Snapshots, deltas with their renames and
`verify_delta` are functions of it, as are the checks and their verdict, the
effect of a file tool and the stages before the sandbox.

A process of the suite reads the ledger (`Start`), runs one task after the other
(`BeginTask` to `Finish`, or `NotRun`), and reports (`End`); `Kill` may come at
any time. Processes share nothing but the ledger, and a task touches that in its
last step only, which is why one task at a time is run (`busy`) in any order
with the others'. `_run_checks` and the verifier are one step each; `Edit` is
what other tools of the agent, or processes a command left behind, do to the
files between and before them. A file beyond the observer's limit is missing in
a snapshot, so that `verify_delta` may take it for deleted; `PassIsReobserved`
says what a pass means then. A score is rounded to a tenth of a per cent, and
`IsTaskSpec` has a task make fewer than 2000 checks, so that none that fails is
rounded away. Directories, symbolic links, the hash budget and
`RECOVERY_ERROR` are abstracted, and scores are compared exactly
(`SCORE_EPSILON` is below their last digit).

### DiffReport

A line is its head and what the parser takes from the rest; `Git` writes the
lines of a pull request and `Consume` is the loop body of `parse_unified_diff`.
`Report` and `ExitCode` are the rest of the program.

What git writes is not what the parser takes:

* *Paths.* A path is its first directory and the kind of its file name, which is
  what the rules tell apart, with the form git writes it in. `Unquoted` is
  `_clean_path`: the quotes go, the escapes stay. `Stripped` is what the lines of a
  rename get, where the quotes stay. `FromHeader` is `_path_from_git_header`: if the
  path has what it cuts at (a blank in quotes, " b/" without), `beyond` is the first
  directory of what is left. It is the only path of a file without a "+++" line:
  binary, empty, deleted or of another mode. The header of a rename is always
  overwritten by "rename to", and is modelled with the new path only.
* *Lines.* `text.splitlines()` ends a line at a form feed, `\x85`, U+2028 and
  others, and `subprocess` makes a carriage return a line break. `more`, of a line of
  a hunk or of its header, is what the parser takes for lines after it: any lines
  whatever.

Git is taken with its own settings (`core.quotePath`, the prefixes `a/` and `b/`,
no copies), and no path begins or ends with a blank. A pattern that spans a line
break, and the wording of the report, are abstracted.

## 3. Runs

| run | checks | result | distinct states |
|---|---|---|---|
| `approval` | `TypeOK`, `OneDriver`, `PendingBounded`, `OneShotUnlessCrossed`, `ProtocolInv`, `ExpiredIsFinal`, `ImplementsToken` | hold | 207,289 |
| `approval_one_shot` | `OneShot` | violated, finding 1 | 226 |
| `approval_bound` | `BoundToAnswer` | violated, finding 2 | 302 |
| `approval_expiry` | `ExpiryAudited` | violated, finding 3 | 34 |
| `loop` | `WithinLimits`, `EachCallAnswered`, `PendingIsCurrent`, `ThirdCallBlocked`, `ConsentGiven`, `RepeatsBounded`, `ComesToRest` | hold | 185,630 |
| `loop_kill` | `KillStops` | violated, finding 4 | 2,100 |
| `loop_always` | `AlwaysIsScoped` | violated, finding 5 | 39,837 |
| `api` | `WindowExact`, `SlotsAreSockets`, `OverrideHolds`, `PromptClientKept` | hold | 2,008,166 |
| `swarm` | `BudgetHolds`, `DepsInContext`, `NothingLost`, `InTurnNoRace`, `SwarmEnds` | hold | 482,015 |
| `gateway` | `VerifiesUntilPruned`, `RunsAsAdjudicated`, `RevokedNeverRuns`, `RecordNamesWhatRan`, `RevokedIsTerminal` | hold | 1,347,249 |
| `recovery` | `VersionsDiffer`, `VerifiedKept`, `CheckpointedIsBacked`, `AuditSound`, `ConfirmedWasGated`, `EndedIsFinal` | hold | 508,179 |
| `arena` | `DeltaRebuilds`, `PassIsReobserved`, `OutcomesAgree`, `DeclineIsReported`, `DiffRecovered`, `StrictIsHonest` | hold | 3,220,385 |

**Bounds.** `approval` has two runs of one session, two threads and two gated
calls per run: enough for two answers to one call, an answer to the first call
that arrives while the second is open, a run that suspends while another fills
the session (`MaxPending = 1`, so that the limit is met), a chat that passes
the check before another run suspends, and a crash at any point. Both calls
use one tool, so that an "always" for the first skips the second. Runs and
threads are symmetric. The violation runs need one run only.

`loop` allows three turns of up to two calls, three tool calls and one
failure; `seen_signatures` is cut at four entries to two (100 and 60 in the
code), so the cut happens. One shell tool is gated and watched by the kill
switch; `load_skill` loads a restricted skill that changes the scope and puts
every tool behind the gate. Deadlock checking is off in the loop's runs only,
since a run ends.

`api` has two requests that come again and again, which may be two chats, two
sockets or one of each. A tick is ten seconds for the pings, so that
`PingGap = 3`, `PongWait = 1` and `Silence = 4` are the code's 30, 10 and 40
seconds; `Window = 3` is shorter than the minute so that hits leave it, within
`MaxTime = 8`. Production with a key allows two chats and one socket, development
without a key one chat and two sockets, so that each limit is met; six more
configurations are refused or equal to these but for one setting.

`swarm` has three worker threads, two requests per worker and two attempts per
request, a budget of three units that a plan of two tasks exceeds, and every
deployment that differs in price, budget or hardness. The answers of the model
are all plans of two tasks over two ids, with every kind of dependency, a fan-in
of three, one id three times and an agent nobody knows.

`gateway` has two threads, two calls, two changes of the registry and one tool;
the chain is pruned at three entries, which two calls exceed by one. The requests
are allowed or outside the boundary or malformed, made by an agent or with a
grant that may lapse; the rules include one that asks for confirmation.

`recovery` runs the missions and the journal disjointly, because they share
nothing: two missions over three files of one directory, versions up to three;
and two processes that write three rows for three runs in two sessions, after
which one row is changed or deleted. Limits of one and three rows make a reader
see part of a run and all of it.

`arena` runs the suite and the evaluation disjointly for the same reason. The suite:
two processes that run one task each over ledgers with rows of both modes, with and
without a score, one edit of the workspace by others at any time, and contents with
and without a hash and of equal hash-less metadata. The evaluation: all pull requests
of up to two of fourteen changes, with a limit of three captured lines that they
exceed (`MCDiff`). There are modified, renamed, added and deleted files, binary ones
and ones without hunks, lines that look like headers, quoted paths with and without a
"+++" line, paths the header is cut at, and texts with line breaks behind which a
secret, an added line or the header of a file stands.

Deadlock checking is off where the model stops: a run, a swarm or a suite ends,
and the calls, changes, versions, rows or edits of the others are bounded.

**Fairness.** `ComesToRest` assumes `WF_vars(Turn \/ CallStep \/ EndTurn)`: a
thread that is at work gets on. The provider calls and tools have timeouts, so
each of these steps ends. Nothing is assumed of the user: `Resume`, `Expire`
and `TimePasses` are not fair. `SwarmEnds` assumes weak fairness of the planner's
steps, of the execution of batches and of each worker: a request has a timeout
and a bounded number of attempts, and `asyncio.gather` waits for nothing but the
workers of the batch. No liveness is claimed of `ApprovalProtocol`: an open row
is expired only by a request, and no request has to come.

## 4. Findings

1. *An approval is not one-shot.* `resolve_pending` says it "prevents duplicate
   resume (one-shot)" (`nimna/memory/store.py:463`). Two requests read the row
   for call 1; one consumes it, runs call 1 and suspends at call 2, which
   re-opens the row under the same id; the other now consumes that row with the
   state it read before and runs call 1 again.
2. *An approval is not bound to its call.* `resume` says "the approval is bound
   to the EXACT deferred call" (`nimna/core/agent.py:230`). A repeated or
   delayed POST for call 1 that arrives when call 2 waits approves call 2. The
   digest check compares the row with itself.
3. *Expiry is not audited.* The purge means to "insert into approvals for
   audit" (`nimna/memory/store.py:359`), but uses INSERT OR IGNORE on a key
   that `save_pending` has inserted already.
4. *The kill switch does not stop a resumed run.* `security/anomaly.py:4` says
   that "the agent must abort the session". The switch sets the status to done;
   the rest of the batch is still executed, and `resume` sets the status back
   to running (`nimna/core/agent.py:244`).
5. *An "always" is not scoped to the skills.* `_approval_key` says it "should
   not auto-approve the same tool for a different skill set"
   (`nimna/core/agent.py:892`); the bare tool name is stored and accepted too.

Six more disagreements have no run of their own; the properties named with them
hold and say how far the code goes:

* *A pruned evidence chain never verifies* (`VerifiesUntilPruned`). "bounded chain
  (older entries pruned, anchor kept)" (`nimna/execution/tool_registry.py:51`).
  `verify` starts at the genesis, to which the first retained entry is linked no
  more.
* *A rule's confirmation is not asked for* (`RunsAsAdjudicated`).
  `REQUIRE_CONFIRMATION` "proceeds only when a valid consent grant exists"
  (`nimna/execution/policy.py:26`). The policy gate lets it pass and the
  authorizer looks at everything of a grant but its consent; only `adjudicate`,
  which the gateway does not call, does.
* *A process may start with a guard that authorizes nothing.* The docstring of
  `boot_policy_violation` (`nimna/models/registry.py:331`) has it say why a guard
  could never authorize a request. With a positive budget it returns None whatever
  the prices are; `authorize` refuses every request of a model of unknown prices
  in hard mode.
* *An aborted mission can be resumed* (`EndedIsFinal`: not while the process
  lives). It is "terminal — start a new mission id instead"
  (`nimna/execution/recovery.py:22`). States are in memory only: after a restart
  `resume` adopts the mission as CHECKPOINTED.

* *A .env file is not always a finding* (`StrictIsHonest`, `Legible`). The signal
  `env-file-tracked`, level HIGH, is for such a file among the changes
  (`docs/ARENA-DIFF-EVAL.md:150`). A pure rename to a directory whose name git quotes
  leaves a quote behind the file name (`scripts/evaluate_arena.py:209`): no signal is
  raised and a strict run exits 0. So it is of an empty `.env` file if its path is
  quoted and has a blank.
* *An added line is not always scanned* (`StrictIsHonest`, `Whole`). The signal
  `secret-like-addition`, level HIGH, is for an added line that looks like a key
  (`docs/ARENA-DIFF-EVAL.md:151`). What is behind a form feed, or another character
  at which git ends no line, of an added line (`scripts/evaluate_arena.py:180`) is
  read as a line that was kept, and the lines after it get other numbers.

What holds in spite of what was found is stated with the history variables that
record the exception (`OneShotUnlessCrossed` is the property that stands where
the first two findings leave it): `crossed`, `mixed`, `excused`, `flaws`,
`forked`, `moved`, `forgotten`, `over` and `stale`.

Also seen, and modelled as the code has it:

* Loop. The comment "allow one repeat for retry" (`nimna/core/agent.py:481`) does
  not hold of an approved call, whose signature is noted when it is deferred and
  again when it runs; the guard `repeat_text_count >= 2` is dead
  (`RepeatsBounded`); after `seen_signatures` is cut a third identical call can
  run, which is why `ThirdCallBlocked` excepts runs where it was.
* Front. Overlapping chats that override the swarm setting leave it changed, for
  every later request. A WebSocket message passes neither the limit of
  `POST /api/chat` nor its look at open approvals. A run of more than 40 s keeps
  the handler from reading pongs, so that a live client is closed. A wrong key in
  the header hides a right one in the sub-protocol. Two keys of one client are two
  buckets.
* Cost guard. Updates are lost between the threads of a parallel swarm; a request
  that is authorized inside another's `settle`, or costs more than its estimate,
  can exceed the hard budget. A mistyped price becomes "not set".
* Swarm. A repeated id can take the default id of another task; an earlier task
  of a repeated id is never started; a task that depends on itself, or twice on
  another, is started without what it depends on. A Gemini answer without
  candidates is an empty final text, an OpenAI answer without choices an error.
  The branch for an agent class that is None cannot be reached.
* Registry and gateway. `unregister` and `register` bring a REVOKED name back,
  `replace` a DEPRECATED one. Concurrent appends fork the evidence chain. A rule
  with several capabilities matches a request that has one of them.
  `invoke_for_agent` grants whatever all registered tools
  require. The checkpoint of a tool without effects on files is refused as
  invalid and its mission stays RUNNING. Each call makes two entries.
* Recovery. A completed mission, too, runs again after a restart. An intact
  checkpoint of another mission makes corruption look like a missing checkpoint.
  `register` over existing checkpoints forgets what they verified.
  `confirm_reobservation` uses an unbound variable when no checkpoint can be read,
  and an older checkpoint that passed no gate when the newest was corrupted.
* Audit journal. Other processes can fork the chain; deleted tail rows and a row
  moved out of a run go unnoticed; over the limit the newest rows are shown and the
  oldest verified; a newest row that lost its evidence makes the next `log` start
  from a new genesis.
* Suite. A task without checks passes vacuously in live mode; a command that was
  denied leaves the evidence of the one before it; a killed suite records a lower
  score that no report calls a decline; equal-sized files beyond the hash limit
  change unnoticed, and truncated snapshots report files as deleted and created
  that were neither. The code after `return outcome.result` in `_exec_fn` is
  unreachable. A patch for several files never applies (`tools/builtin/edit.py`
  takes the header of the second for lines of the hunk before it).
* Evaluation. The benchmark takes over any of the icons' words, the judge maps
  what it does not know to UNKNOWN; `http.client.HTTPException` and a malformed
  number in the environment are caught by nobody, although the docstring has every
  failure of the transport become ERROR; output of `diff -u` over several files
  without `diff --git` lines is read as one file.

## 5. Proofs

The theorems about the approval protocol hold for any finite set of runs, any
threads, sessions and tools, any number of gated calls and any limit; those
about the loop for any calls, tools, skills and limits; those about the gateway
for any threads, tools, schemas, rules and bounds; about recovery for any
missions, steps and files; about the front for any configurations, clients,
durations and a finite set of requests; about the swarm for any answers,
deployments and usages; about the journal for any processes, contents and limits;
about the suite for any processes, tasks, paths, contents and limits; about the
evaluation for any changes of any number of files, however their paths are written,
and any limits, with what it says of texts with other line breaks as below.

`ProtocolInv` is the inductive invariant of `ApprovalProtocol`, with `TypeOK`.
`OneDriver` alone is not inductive: that a thread which creates or consumes a
row is the only driver rests on rows existing only for started runs and on an
open row having no driver (`WellFormed`). `OneShotUnlessCrossed` needs
`Uncrossed` (no call at or after the point where a stored or driven state
stands has run) and `SaidYes` (an approving answer in a thread's hands is a yes
to the call it was meant for). `PendingBounded` needs only its own: a purge
takes away, `save_pending` adds one where there is room; its proof is about
cardinalities of finite sets.

The theorem `Refinement` says that each step of `ApprovalProtocol` is a step of
`ApprovalToken` under `PhaseOf` (open row: waiting; a thread holding a consumed
approval: granted; any other driver: driving), run by run, from the invariant.

`LoopInv` is the inductive invariant of `AgentLoop`, with `TypeOK`:

* `WithinLimits` needs `PendingIsCurrent`, because a resumed call runs without
  a look at `max_tool_calls`: the room was there when the call was deferred,
  and nothing moves the counter while the run waits.
* `EachCallAnswered` needs `PendingIsCurrent` for the position of the call that
  an answer appends its result for.
* `RepeatsBounded` needs `TextsHeard`: a run that is not done has heard no text
  before its only review.
* `ConsentGiven` needs `ConsentKept`: a standing consent in `approved_tools`
  was given by the user.
* `ThirdCallBlocked` needs `RunsNoted`: until `seen_signatures` is cut, an
  executed call occurs there at least as often as it was executed, and a
  deferred call was executed at most once.

The invariant of the gateway is the conjunction of its type invariant, of what
holds of a thread at each place in `invoke`, and of the chain:

* `RunsAsAdjudicated` holds at the step where the gates are passed, by cases on
  the gates, and is kept because neither the request nor the descriptor that ran
  changes until the call returns.
* `RevokedNeverRuns` needs that what a thread looked up as REVOKED is, until the
  gates, still there as REVOKED or was forgotten; `RevokedIsTerminal` is that step
  by step.
* `VerifiesUntilPruned` needs where the tail and the draft stand: without overlap
  the tail is the last entry's, and an entry under way is linked to it.

`RecoveryInv` is inductive with four facts beyond the properties: later
checkpoints of a mission hold what earlier ones do (`Ordered`), versions are
bounded, and so a newest intact file exists whenever one does; the owner holds
what those say (`VerifiedKept`); and a mission in recovery rests on the newest
file, or on one that was corrupted since (`Resting`). `ConfirmsTheGated` and
`EndsForGood` follow step by step.

`FrontInv` is inductive for the front: the slots are counted by the cardinality
of the sockets of a key, which changes by one when a socket comes or goes; a
single overriding chat found the configured setting; a client that answers every
ping was heard at the last ping (`Prompt`), which is less than `Silence` ago
because `PongWait < Silence`. `WindowExact` needs that, for any
cutoff within the window, `hit` would keep as many times of the bucket as there are
chats admitted after it (`Counted`): dropping from the left, late and as far as the
first young hit, drops just what is too old.

The proofs about the swarm are of three kinds:

* `BudgetHolds`. What is charged is a sum over the callers, and a step of a
  request moves one summand (`ChargedMoves`). `BudgetInv` has the counters equal
  the sums unless an update was lost, and the sum of all below the budget unless
  a request was dear or slipped into a `settle`.
* `NothingLost` and `DepsInContext`. `decompose` keeps only dependencies on ids it
  has seen (`Sooner`), so a plan that names each id once has a task that waits for
  nothing of what remains (`SomeReady`), and in such a plan the counters of
  `_batches` are the numbers of remaining dependencies (`Counted`): its rounds never
  see a cycle. In any plan a round takes at least one id, so as many rounds as
  there are tasks are enough (`BatchesSound`). `Progress` is the invariant of
  `execute`: the batches before `current` are over, those after it untouched,
  `shared` holds what is over, and a task that was started was given what was over
  before its batch.
* `InTurnNoRace`. Without parallelism only who is at work has a request
  (`Requesting`), and only one worker is awaited (`Workers`), so no two requests
  meet in the guard.

What a fold computes is proved by induction on the number of its steps: a set of
naturals that holds 0 and the successor of each is all of them (`Counting`, from the
well-foundedness of < on the naturals), and a recursive function over the subsets of
a finite set exists (`FoldExists`), which is what the folds of the community
modules are. `FoldFacts` holds these and, for the parser of diffs, the induction along a
sequence that grows at its end (`AppendInduction`).

`DeltaRebuilds` is about any two worlds: a renaming pairs a path that is gone with a
new one of the same hash, which is in no other (`RenamedPairs`). `PassIsReobserved`
needs that a claimed artifact that was not refuted is what the command left until
something changes it (`ReobservedInv`); `OutcomesAgree` that a task makes few enough
checks for its score to show that one failed (`CheckInv`); `DeclineIsReported` that a
process remembers the last scores among the rows it read, and that its own rows come
after them, one for each task (`LedgerInv`).

`DiffRecovered` is about lines that are consumed one by one, so a run of the parser is
a sequence of its states. `Leads(g, lines, h)` says that the lines take any parser that
knows g (the files so far, what was added, whether it is in a hunk and at which line)
to one that knows h, and such statements compose (`LeadsOn`). A line of git's header
notes something of the file at hand (`HeaderNotes`); the lines of a hunk are counted and
their additions numbered whatever they look like (`BodyRead`), because in a hunk the
parser looks at the sign alone; hunks, files and changes follow by induction
(`HunksRead`, `FileLinesRead`, `FilesRead`). Since the lines read determine the parser
(`RunDetermined`), it suffices that `ReportInv` has it as the lines before `rest` left
it. It is about changes whose texts have no line breaks but git's (`Whole`); of others
nothing is claimed, since the parser may take what is behind a break for the header of a
file. Of paths it claims what the code can do: a path comes back as it was if it is
plain and, when the header is cut at it, has another line (`Exact`), its file name
if it is quoted and has a line of its own or a header that is not cut (`Legible`).
`StrictIsHonest` follows: what is deleted or binary adds nothing
(`NothingAdded`), so the secrets found are those of the captured lines
(`SecretsKept`), the level is high just for them and a .env file whose name is read
(`HighLevel`), and a verdict that matters is a server's word (`ServerWords`). That part
holds of any texts.

`JournalTells` is about the journal: every row is
its own hash over its predecessor's, or it is the one that was changed
(`Written`), and every hash a row or draft is linked to is that of a row, or of
the one that was deleted (`Traces`).

The theorems rest on the assumptions on constants that their modules declare,
which TLC evaluates in the runs: `ConstantsAssumption`, `LoopAssumption`,
`GatewayAssumption` with `RegistryAssumption`, `ChainAssumption` and
`PolicyAssumption`, `RecoveryAssumption`, `ApiAssumption` with
`SecurityAssumption`, `SwarmAssumption` with `GuardAssumption` and
`AttemptsAssumption`, `AuditAssumption`, `SuiteAssumption` with
`ObservationAssumption` and `FileToolsAssumption`, `ReportAssumption`. They say no more than what
the code reads has the form it is read in: an answer of the model is a list of
tasks with ids and dependencies, a task of the suite has paths, contents and checks,
a ledger holds rows, and a change of a diff is one git can write: it has an old path
unless it is new, its own if it is not renamed, deletes every line of what it deletes,
and has no lines of what is binary. What the parser takes for lines behind a break is
any sequence of lines.

Only model-checked:

* liveness (`ComesToRest`, `SwarmEnds`), which is out of the prover's reach;
* the violations.

## 6. Status of the plan

1. `ApprovalToken`, `ApprovalProtocol`, the refinement and their proofs. Done.
2. `AgentLoop` and its proofs. Done.
3. `Recovery`: checkpoints, crashes, corrupt files, adoption, gates. Done, proved.
4. `ToolRegistry` and `EvidenceChain`: lifecycle, versions, the pruned chain; the
   journal as `AuditLog`. Done, proved.
5. `Gateway` over `ExecutionPolicy` and `Schema`: gates, grants, consent, evidence
   of refusals. Done, proved.
6. `CostGuard`, `Provider` and the limiters of the front with several threads; the
   shared swarm setting. Done, proved.
7. Algorithms against reference definitions: batches of the swarm, deltas,
   verdicts, the filtered verification of the journal, the parser of diffs. Done,
   proved.
8. `Suite` over `Verifier`, `Shell` and `FileTools`. Done, proved.

### Not modelled, and why

* Sessions, messages and memories: single SQL statements under one lock.
* Vector memory, vision cache and browser: clients of other programs and caches,
  best effort; nothing else depends on what they return.
* CLI, metrics, manifest and the deployment scripts
  (`check_fastapi_cloud_link.py`, `check_render_blueprint.py`,
  `live_provider_proof.py`, `verify_capabilities.py` and others): they run once
  over files or a deployment and keep no state.
* The conversion of messages and tools to the form of a provider, the parsing of
  skills, the read-only endpoints: data without control. What the environment is
  read as is modelled for the limits, keys, prices and budgets only.
* Patterns and windows of the anomaly monitor: its verdict is a choice in
  `AgentLoop`, which is stronger than any pattern.
* Tools other than those that write files or run commands: of a browser, a screen
  or a search only success or failure matters to the loop.
