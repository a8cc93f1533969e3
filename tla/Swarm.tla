---------------------------------- MODULE Swarm ----------------------------------
(***************************************************************************)
(* One swarm request (core/planner_swarm.py, agents/base.py): the planner  *)
(* splits it into at most three tasks with dependencies, the tasks run in  *)
(* batches, each by a bounded agent loop on a thread of its own, and the   *)
(* planner merges the results.  Every model request of the planner and of  *)
(* the agents goes through the process's CostGuard.                        *)
(*                                                                         *)
(* A task is known by its position in the plan; its id is what the model   *)
(* called it.  Tool calls of an agent are left out (module Gateway): they  *)
(* decide only whether the loop goes on or ends in an exception.           *)
(* Bounds: MaxSteps (min(max_steps, 8) in the code), MaxAgents.            *)
(***************************************************************************)
EXTENDS CostGuard, SequencesExt

CONSTANTS
  Answers,     \* what the model may answer to the decomposition prompt: sequences
               \* of [id, known, deps] (known: the agent is one of the three)
  MaxAgents,   \* max(1, min(swarm_max_agents, 3))
  MaxSteps

Planner == 0
Positions == 1 .. MaxAgents
DefaultId == <<"t1", "t2", "t3">>

ASSUME SwarmAssumption ==
  /\ MaxAgents \in 1 .. 3 /\ MaxSteps \in Nat /\ Callers = 0 .. MaxAgents
  /\ \A answer \in Answers : answer \in Seq([id : STRING, known : BOOLEAN, deps : Seq(STRING)])

VARIABLES
  phase,       \* "planning", "running", "synthesis", "done"
  parallel,    \* settings.swarm_parallel
  plan,        \* sequence of [id, deps]; deps maps its places in the answer to ids
  batches,     \* sequence of sets of positions
  current,     \* the batch under way
  status,      \* position -> "pending", "running", "done", "failed"
  worker,      \* position -> its agent: [at, step, ok]
  shared,      \* ids with a result in the shared context
  context      \* position -> the ids whose results it was given
swarmVars == <<phase, parallel, plan, batches, current, status, worker, shared, context>>
vars == <<guardVars, swarmVars>>

NoWorker == [at |-> "off", step |-> 0, ok |-> FALSE]

Init ==
  /\ GuardInit
  /\ phase = "planning" /\ parallel \in BOOLEAN
  /\ plan = <<>> /\ batches = <<>> /\ current = 1
  /\ status = [p \in Positions |-> "pending"]
  /\ worker = [p \in Positions |-> NoWorker]
  /\ shared = {} /\ context = [p \in Positions |-> {}]

--------------------------------------------------------------------------------
(* decompose *)

\* One raw task after another: an unknown agent is skipped, a repeated id becomes
\* the default of its index (which may be taken too), and only dependencies on ids
\* seen so far, its own among them, are kept.
Take(acc, raw, index) ==
  LET id == IF raw.id \in acc.seen THEN DefaultId[index] ELSE raw.id
      seen == acc.seen \cup {id}
      task == [id |-> id, deps |-> RestrictValues(raw.deps, LAMBDA d : d \in seen)]
  IN IF raw.known THEN [tasks |-> Append(acc.tasks, task), seen |-> seen] ELSE acc

Accepted(answer) ==
  FoldLeftDomain(LAMBDA acc, i : Take(acc, answer[i], i),
                 [tasks |-> <<>>, seen |-> {}],
                 SubSeq(answer, 1, Min({MaxAgents, Len(answer)}))).tasks

\* _keyword_decompose: one task, or a chain.
KeywordPlans ==
  {[i \in 1 .. n |-> [id |-> DefaultId[i],
                      deps |-> IF i = 1 THEN <<>> ELSE <<DefaultId[i - 1]>>]] : n \in Positions}

Plans(answer) ==
  IF Accepted(answer) = <<>> THEN KeywordPlans ELSE {Accepted(answer)}

--------------------------------------------------------------------------------
(* _batches: Kahn's algorithm over ids, where the last task of an id stands for it *)

Ids(tasks) == {tasks[p].id : p \in DOMAIN tasks}
Named(tasks, id) == Max({p \in DOMAIN tasks : tasks[p].id = id})

ReadyEarly(acc) ==      \* mutant: off by one, a task starts with one dependency to go
  LET free == {id \in acc.remaining : acc.indeg[id] <= 1}
  IN IF free = {} THEN acc.remaining ELSE free

Ready(acc) ==
  LET free == {id \in acc.remaining : acc.indeg[id] = 0}
  IN IF free = {} THEN acc.remaining ELSE free

RoundDropsCycle(acc, tasks) ==      \* mutant: what waits on a cycle is given up
  LET free == {id \in acc.remaining : acc.indeg[id] = 0}
      met(id) == {e \in (DOMAIN tasks) \X free :
                    tasks[e[1]].id = id /\ e[2] \in Range(tasks[e[1]].deps)}
  IN IF free = {} THEN acc
     ELSE [remaining |-> acc.remaining \ free,
           indeg |-> [id \in Ids(tasks) |-> acc.indeg[id] - Cardinality(met(id))],
           batches |-> Append(acc.batches, {Named(tasks, id) : id \in free})]

Round(acc, tasks) ==
  LET ready == Ready(acc)
      met(id) == {e \in (DOMAIN tasks) \X ready :
                    tasks[e[1]].id = id /\ e[2] \in Range(tasks[e[1]].deps)}
  IN IF acc.remaining = {} THEN acc
     ELSE [remaining |-> acc.remaining \ ready,
           indeg |-> [id \in Ids(tasks) |-> acc.indeg[id] - Cardinality(met(id))],
           batches |-> Append(acc.batches, {Named(tasks, id) : id \in ready})]

Batches(tasks) ==
  FoldLeftDomain(LAMBDA acc, i : Round(acc, tasks),
                 [remaining |-> Ids(tasks), batches |-> <<>>,
                  indeg |-> [id \in Ids(tasks) |-> Cardinality(DOMAIN tasks[Named(tasks, id)].deps)]],
                 tasks).batches

--------------------------------------------------------------------------------
(* The planner's own requests *)

Adopt(tasks) ==
  /\ plan' = tasks
  /\ batches' = Batches(tasks)
  /\ phase' = "running"
  /\ UNCHANGED <<parallel, current, status, worker, shared, context>>

PlannerAsks ==
  /\ phase \in {"planning", "synthesis"}
  /\ Authorize(Planner)
  /\ UNCHANGED swarmVars

PlannerAnswered == \E outcome \in Outcomes(policy.provider) :
  /\ \/ Retry(Planner, outcome)
     \/ \E usage \in Usages \cup {Unmeasured} : Answer(Planner, outcome, usage)
  /\ UNCHANGED swarmVars

PlannerSettles ==
  /\ Settling(Planner)
  /\ UNCHANGED swarmVars

\* A refused, failed or unusable decomposition falls back to the keywords.
Decompose ==
  /\ phase = "planning"
  /\ \/ Book(Planner) /\ \E answer \in Answers : \E tasks \in Plans(answer) : Adopt(tasks)
     \/ (Book(Planner) \/ Refused(Planner)) /\ \E tasks \in KeywordPlans : Adopt(tasks)

\* A refused, failed or empty synthesis falls back to the concatenated results.
Synthesize ==
  /\ phase = "synthesis"
  /\ Book(Planner) \/ Refused(Planner)
  /\ phase' = "done"
  /\ UNCHANGED <<parallel, plan, batches, current, status, worker, shared, context>>

--------------------------------------------------------------------------------
(* execute: one batch after the other *)

Batch == batches[current]
Executing == phase = "running" /\ current <= Len(batches)

StartBatch ==
  /\ Executing
  /\ \A p \in Batch : status[p] = "pending"
  /\ status' = [p \in Positions |-> IF p \in Batch THEN "running" ELSE status[p]]
  /\ worker' = [p \in Positions |->
                 IF p \in Batch
                 THEN [NoWorker EXCEPT !.at = IF parallel THEN "asking" ELSE "queued"]
                 ELSE worker[p]]
  /\ context' = [p \in Positions |-> IF p \in Batch THEN shared ELSE context[p]]
  /\ UNCHANGED <<guardVars, phase, parallel, plan, batches, current, shared>>

AwaitAny(p) ==      \* mutant: the coroutines are started as they come
  /\ Executing
  /\ worker[p].at = "queued"
  /\ worker' = [worker EXCEPT ![p].at = "asking"]
  /\ UNCHANGED <<guardVars, phase, parallel, plan, batches, current, status, shared, context>>

\* Without swarm_parallel the coroutines of a batch are awaited in turn.
Await(p) ==
  /\ Executing
  /\ worker[p].at = "queued"
  /\ \A q \in Batch : worker[q].at \in {"queued", "off"}
  /\ worker' = [worker EXCEPT ![p].at = "asking"]
  /\ UNCHANGED <<guardVars, phase, parallel, plan, batches, current, status, shared, context>>

Outcome(p) == IF worker[p].ok THEN "done" ELSE "failed"

Collected(ps) ==
  /\ status' = [p \in Positions |-> IF p \in ps THEN Outcome(p) ELSE status[p]]
  /\ worker' = [p \in Positions |-> IF p \in ps THEN NoWorker ELSE worker[p]]
  /\ shared' = shared \cup {plan[p].id : p \in ps}
  /\ UNCHANGED <<guardVars, phase, parallel, plan, batches, context>>

GatherAll ==      \* mutant: it waits for the tasks of the later batches too
  /\ Executing /\ parallel
  /\ \A p \in DOMAIN plan : worker[p].at = "ended"
  /\ Collected(Batch)
  /\ current' = current + 1

\* asyncio.gather returns when the whole batch has ended.
Gather ==
  /\ Executing /\ parallel
  /\ \A p \in Batch : worker[p].at = "ended"
  /\ Collected(Batch)
  /\ current' = current + 1

CollectOne(p) ==
  /\ Executing /\ ~parallel
  /\ worker[p].at = "ended"
  /\ Collected({p})
  /\ current' = IF \A q \in Batch \ {p} : status[q] # "running" THEN current + 1 ELSE current

BatchesDone ==
  /\ phase = "running" /\ ~Executing
  /\ phase' = "synthesis"
  /\ UNCHANGED <<guardVars, parallel, plan, batches, current, status, worker, shared, context>>

--------------------------------------------------------------------------------
(* BaseSwarmAgent.run: at most MaxSteps requests *)

WorkerGoes(p, w) ==
  /\ worker' = [worker EXCEPT ![p] = w]
  /\ UNCHANGED <<phase, parallel, plan, batches, current, status, shared, context>>

Ended(p, ok) == [worker[p] EXCEPT !.at = "ended", !.ok = ok]

Ask(p) ==
  /\ worker[p].at = "asking" /\ worker[p].step < MaxSteps
  /\ \/ Authorize(p) /\ WorkerGoes(p, [worker[p] EXCEPT !.at = "waiting", !.step = @ + 1])
     \/ Refused(p) /\ WorkerGoes(p, Ended(p, FALSE))

\* A final text, tool calls, or an exception of the provider.
Answered(p) == \E outcome \in Outcomes(policy.provider) :
  /\ worker[p].at = "waiting"
  /\ \/ Retry(p, outcome) /\ UNCHANGED swarmVars
     \/ \E usage \in Usages \cup {Unmeasured} :
          /\ Answer(p, outcome, usage)
          /\ WorkerGoes(p, [worker[p] EXCEPT !.at = Heard(policy.provider, outcome)])

Settles(p) ==
  /\ Settling(p)
  /\ UNCHANGED swarmVars

\* settle() returns, and the loop goes on with what the model said.  The tools run,
\* or one of them raises.
Continue(p) ==
  /\ Book(p)
  /\ \/ worker[p].at = "final" /\ WorkerGoes(p, Ended(p, TRUE))
     \/ worker[p].at \in {"error", "tools"} /\ WorkerGoes(p, Ended(p, FALSE))
     \/ worker[p].at = "tools" /\ WorkerGoes(p, [worker[p] EXCEPT !.at = "asking"])

\* "max_steps reached without final answer"
GiveUp(p) ==
  /\ worker[p].at = "asking" /\ worker[p].step >= MaxSteps
  /\ UNCHANGED guardVars
  /\ WorkerGoes(p, Ended(p, FALSE))

AgentStep(p) ==
  Await(p) \/ Ask(p) \/ Answered(p) \/ Settles(p) \/ Continue(p) \/ GiveUp(p) \/ CollectOne(p)

PlannerStep ==
  PlannerAsks \/ PlannerAnswered \/ PlannerSettles \/ Decompose \/ Synthesize

ExecuteStep == StartBatch \/ Gather \/ BatchesDone

Next == PlannerStep \/ ExecuteStep \/ \E p \in Positions : AgentStep(p)

\* The provider's client has a timeout and tries a bounded number of times: every
\* request is answered or raises.
Spec == Init /\ [][Next]_vars
             /\ WF_vars(PlannerStep) /\ WF_vars(ExecuteStep)
             /\ \A p \in Positions : WF_vars(AgentStep(p))

--------------------------------------------------------------------------------
(* Properties *)

TypeOK ==
  /\ GuardTypeOK
  /\ phase \in {"planning", "running", "synthesis", "done"}
  /\ parallel \in BOOLEAN
  /\ DOMAIN plan \subseteq Positions
  /\ \A k \in DOMAIN batches : batches[k] \subseteq DOMAIN plan
  /\ current \in 1 .. Len(batches) + 1
  /\ status \in [Positions -> {"pending", "running", "done", "failed"}]
  /\ worker \in [Positions -> [at : {"off", "queued", "asking", "waiting", "final", "tools",
                                     "error", "ended"},
                               step : 0 .. MaxSteps, ok : BOOLEAN]]
  /\ shared \subseteq Ids(plan)
  /\ context \in [Positions -> SUBSET Ids(plan)]

WellFormed ==
  \A p \in DOMAIN plan :
    /\ \A q \in (DOMAIN plan) \ {p} : plan[q].id # plan[p].id
    /\ IsInjective(plan[p].deps)
    /\ plan[p].id \notin Range(plan[p].deps)

(***************************************************************************)
(* In a plan whose ids differ and whose tasks name each dependency once    *)
(* and never themselves, a task that has been started was given the        *)
(* results of everything it depends on, and nothing of its own batch.      *)
(* (Elsewhere _batches sees a cycle and starts tasks without them.)        *)
(***************************************************************************)
DepsInContext ==
  WellFormed =>
    \A k \in DOMAIN batches : \A p \in batches[k] : status[p] # "pending" =>
      /\ Range(plan[p].deps) \subseteq context[p]
      /\ \A q \in batches[k] : plan[q].id \notin context[p]

(***************************************************************************)
(* Whatever the plan looks like, the synthesis comes after every id has    *)
(* been worked on once: the last task of each id has ended and its result  *)
(* is shared; an earlier task of the same id has never been started.       *)
(***************************************************************************)
NothingLost ==
  phase \in {"synthesis", "done"} =>
    /\ shared = Ids(plan)
    /\ \A p \in DOMAIN plan :
         (status[p] \in {"done", "failed"}) <=> (p = Named(plan, plan[p].id))
    /\ \A p \in Positions : worker[p] = NoWorker

(***************************************************************************)
(* With swarm_parallel off, the requests of one swarm never meet in the    *)
(* guard: no update is lost and no request slips into another's settle().  *)
(***************************************************************************)
InTurnNoRace == ~parallel => flaws \subseteq {"dear"}

(* Every swarm request is answered, whatever its plan and its budget. *)
SwarmEnds == <>(phase = "done")

=================================================================================
