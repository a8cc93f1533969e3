--------------------------------- MODULE Gateway ---------------------------------
(***************************************************************************)
(* The one path of a tool call: ExecutionGateway.invoke of                 *)
(* nimna/execution/gateway.py and invoke of tool_registry.py, which it     *)
(* calls.  Several threads cross the gateway of an agent at a time; the    *)
(* operator changes the registry meanwhile.  A step is what one thread     *)
(* does between two looks at what they share, the registry and the         *)
(* evidence chain; the clock is read once, at the gates.                   *)
(***************************************************************************)
EXTENDS ToolRegistry, EvidenceChain, ExecutionPolicy

CONSTANTS
  Requires,   \* [Tools -> capabilities]
  Contexts,   \* requests with their context, see Context
  MaxCalls,   \* bound: calls
  MaxChanges  \* bound: changes of the registry

(* byAgent: the agent asks through invoke_for_agent() and brings neither   *)
(* capabilities nor a grant; sound: actor, types and sizes are as required *)
(* and the arguments can be serialised.                                    *)
Context == [byAgent : BOOLEAN, sound : BOOLEAN, operation : Operations, resource : Resources,
            granted : SUBSET Known, grant : Grants, verify : BOOLEAN, arguments : DOMAIN Values]

ASSUME GatewayAssumption ==
  /\ Contexts \subseteq Context /\ MaxCalls \in Nat /\ MaxChanges \in Nat
  /\ Requires \in [Tools -> SUBSET Known]

VARIABLES
  pc, tool, ctx,   \* per thread: where the call is, and what it asks for
  seen,            \* per thread: the descriptor the gateway looked up
  status,          \* per thread: execution_status, see Told
  ran,             \* per thread: the descriptor whose handler ran, or NoTool
  mission,         \* per thread: state of the mission registered for the call
  calls, changes,  \* calls and changes of the registry so far
  late,            \* history, per thread: a grant that lapses had, at the gates
  moved            \* history: threads whose tool changed between its two lookups

callVars == <<tool, ctx, seen>>
vars == <<registryVars, chainVars, pc, callVars, status, ran, mission, calls, changes, late, moved>>

(* An output that violates its schema is treated like an error of the handler. *)
Executed == {"EXECUTED", "HANDLER_ERROR"}

TypeOK ==
  /\ RegistryTypeOK /\ ChainTypeOK
  /\ pc \in [Threads -> {"idle", "looked", "cleared", "log", "after", "record"}]
  /\ tool \in [Threads -> Tools \cup {NoTool}]
  /\ ctx \in [Threads -> Context \cup {NoTool}]
  /\ seen \in [Threads -> Descriptor \cup {NoTool}]
  /\ status \in [Threads -> Executed \cup {"none", "refused"}]
  /\ ran \in [Threads -> Descriptor \cup {NoTool}]
  /\ late \in [Threads -> BOOLEAN]
  /\ mission \in [Threads -> {"none", "RUNNING", "CHECKPOINTED", "FAILED", "COMPLETED"}]
  /\ calls \in 0 .. MaxCalls /\ changes \in 0 .. MaxChanges
  /\ moved \subseteq Threads

Init ==
  /\ RegistryInit /\ ChainInit
  /\ pc = [t \in Threads |-> "idle"]
  /\ tool = [t \in Threads |-> NoTool]
  /\ ctx = [t \in Threads |-> NoTool]
  /\ seen = [t \in Threads |-> NoTool]
  /\ status = [t \in Threads |-> "none"]
  /\ ran = [t \in Threads |-> NoTool]
  /\ mission = [t \in Threads |-> "none"]
  /\ late = [t \in Threads |-> FALSE]
  /\ calls = 0 /\ changes = 0 /\ moved = {}

(* Which gate refused a call is told in its record and plays no further part. *)
Told(outcome) == IF outcome = "none" THEN "none" ELSE "refused"

Request(t) == [capabilities |-> Requires[tool[t]], operation |-> ctx[t].operation,
               resource |-> ctx[t].resource]

(***************************************************************************)
(* invoke_for_agent(): an agent has whatever the tools registered at that  *)
(* moment require, and a grant that does not expire and has no consent;    *)
(* without an operation it names its tool.                                 *)
(***************************************************************************)
ForAgent(c) ==
  [c EXCEPT !.granted = UNION {Requires[x] : x \in {y \in Tools : Registered(y)}},
            !.grant = [kind |-> "standing", consent |-> FALSE],
            !.operation = IF @ = "blank" THEN "read" ELSE @]

ContextInvalid(c) == ~c.sound \/ c.resource \in {"parent", "blank"}

(* invoke() until its own look at the registry and the first snapshot. *)
Begin(t) ==
  /\ pc[t] = "idle" /\ calls < MaxCalls
  /\ calls' = calls + 1
  /\ \E x \in Tools, c \in Contexts, observed \in BOOLEAN :
       LET asked == IF c.byAgent THEN ForAgent(c) ELSE c
           outcome == IF ContextInvalid(asked) THEN "CONTEXT_INVALID"
                      ELSE IF ~Registered(x) THEN "NOT_FOUND"
                      ELSE IF tools[x].files /\ ~observed THEN "OBSERVATION_ERROR"
                      ELSE "none" IN
       /\ tool' = [tool EXCEPT ![t] = x]
       /\ ctx' = [ctx EXCEPT ![t] = asked]
       /\ seen' = [seen EXCEPT ![t] = tools[x]]
       /\ status' = [status EXCEPT ![t] = Told(outcome)]
       /\ pc' = [pc EXCEPT ![t] = IF outcome = "none" THEN "looked" ELSE "record"]
  /\ UNCHANGED <<registryVars, chainVars, ran, mission, changes, late, moved>>

(* Mutant: no look at the grant. *)
VerdictUnauthorized(t, expired) ==
  IF Registered(tool[t]) /\ tools[tool[t]].life \notin {"DISABLED", "REVOKED"}
       /\ Conforms(ctx[t].arguments, tools[tool[t]].input) /\ Evaluate(Request(t)) # "DENY"
    THEN "none" ELSE "POLICY_DENIED"

(* Mutant: no look at the state of the tool's life. *)
VerdictInAnyState(t, expired) ==
  IF Registered(tool[t]) /\ Conforms(ctx[t].arguments, tools[tool[t]].input) /\ Evaluate(Request(t)) # "DENY"
       /\ Authorizes(ctx[t].grant, expired)
    THEN "none" ELSE "POLICY_DENIED"

(***************************************************************************)
(* The gates of the registry's invoke(), in their order, on the descriptor *)
(* it looks up itself; "none" if all are passed.                           *)
(***************************************************************************)
Verdict(t, expired) ==
  LET x == tool[t]
      d == tools[x] IN
  CASE ~Registered(x) -> "NOT_FOUND"
    [] Registered(x) ->
       CASE d.life \in {"DISABLED", "REVOKED"} -> d.life
         [] d.life \notin {"DISABLED", "REVOKED"} /\ ~Conforms(ctx[t].arguments, d.input)
                -> "INPUT_INVALID"
         [] OTHER ->
            CASE ~(Resolves(Requires[x]) /\ Requires[x] \subseteq ctx[t].granted)
                   -> "CAPABILITY_DENIED"
              [] OTHER -> CASE Evaluate(Request(t)) = "DENY" -> "POLICY_DENIED"
                            [] OTHER -> IF Authorizes(ctx[t].grant, expired)
                                          THEN "none" ELSE "AUTHORIZATION_DENIED"

PassGates(t) ==
  /\ pc[t] = "looked"
  /\ \E expired \in BOOLEAN :
       LET passed == Verdict(t, expired) = "none" IN
       /\ status' = [status EXCEPT ![t] = Told(Verdict(t, expired))]
       /\ pc' = [pc EXCEPT ![t] = IF passed THEN "cleared" ELSE "log"]
       /\ ran' = [ran EXCEPT ![t] = IF passed THEN tools[tool[t]] ELSE NoTool]
       /\ late' = [late EXCEPT ![t] = passed /\ expired]
  /\ UNCHANGED <<registryVars, chainVars, callVars, mission, calls, changes, moved>>

Result(v, d) == IF Conforms(v, d.output) THEN "EXECUTED" ELSE "HANDLER_ERROR"

(* The handler of the descriptor the gates were passed with. *)
RunHandler(t) ==
  /\ pc[t] = "cleared"
  /\ \E s \in {"HANDLER_ERROR"} \cup {Result(v, ran[t]) : v \in DOMAIN Values} :
       status' = [status EXCEPT ![t] = s]
  /\ pc' = [pc EXCEPT ![t] = "log"]
  /\ UNCHANGED <<registryVars, chainVars, callVars, ran, mission, calls, changes, late, moved>>

Return(t) ==
  /\ pc' = [pc EXCEPT ![t] = "idle"]
  /\ tool' = [tool EXCEPT ![t] = NoTool]
  /\ ctx' = [ctx EXCEPT ![t] = NoTool]
  /\ seen' = [seen EXCEPT ![t] = NoTool]
  /\ status' = [status EXCEPT ![t] = "none"]
  /\ ran' = [ran EXCEPT ![t] = NoTool]
  /\ mission' = [mission EXCEPT ![t] = "none"]
  /\ late' = [late EXCEPT ![t] = FALSE]
  /\ moved' = moved \ {t}

(* Each invocation appends an entry of the registry and one of the gateway. *)
Log(t) ==
  /\ pc[t] \in {"log", "record"}
  /\ \/ /\ Link(t)
        /\ UNCHANGED <<pc, callVars, status, ran, mission, late, moved>>
     \/ /\ Store(t) /\ pc[t] = "log"
        /\ pc' = [pc EXCEPT ![t] = IF ran[t] # NoTool THEN "after" ELSE "record"]
        /\ UNCHANGED <<callVars, status, ran, mission, late, moved>>
     \/ /\ Store(t) /\ pc[t] = "record"
        /\ Return(t)
  /\ UNCHANGED <<registryVars, calls, changes>>

(* Mutant: the checkpoint is not validated. *)
MissionStateAlways(t, observed, verdict) ==
  IF status[t] # "EXECUTED" \/ verdict = "FAIL" THEN "FAILED"
  ELSE IF verdict = "PASS" THEN "COMPLETED" ELSE "CHECKPOINTED"

(***************************************************************************)
(* Observation, verification and checkpoint of a call whose handler ran.   *)
(* The fingerprint is that of the second snapshot; a tool without effects  *)
(* on files has none, the checkpoint is refused as invalid and the mission *)
(* stays as it was registered.                                             *)
(***************************************************************************)
MissionState(t, observed, verdict) ==
  CASE ~(seen[t].files /\ observed) -> "RUNNING"
    [] seen[t].files /\ observed /\ (status[t] # "EXECUTED" \/ verdict = "FAIL") -> "FAILED"
    [] seen[t].files /\ observed /\ status[t] = "EXECUTED" /\ verdict = "PASS" -> "COMPLETED"
    [] OTHER -> "CHECKPOINTED"

Conclude(t) ==
  /\ pc[t] = "after"
  /\ \E observed \in BOOLEAN,
        verdict \in IF ctx[t].verify THEN {"PASS", "FAIL", "INCONCLUSIVE"} ELSE {"none"} :
       mission' = [mission EXCEPT ![t] = MissionState(t, observed, verdict)]
  /\ pc' = [pc EXCEPT ![t] = "record"]
  /\ UNCHANGED <<registryVars, chainVars, callVars, status, ran, calls, changes, late, moved>>

(* The operator changes the registry. *)
Operate ==
  /\ changes < MaxChanges /\ changes' = changes + 1
  /\ RegistryNext
  /\ moved' = moved \cup {t \in Threads : pc[t] = "looked" /\ tools'[tool[t]] # tools[tool[t]]}
  /\ UNCHANGED <<chainVars, pc, callVars, status, ran, mission, calls, late>>

Step(t) == Begin(t) \/ PassGates(t) \/ RunHandler(t) \/ Log(t) \/ Conclude(t)

Next == (\E t \in Threads : Step(t)) \/ Operate

Spec == Init /\ [][Next]_vars

(***************************************************************************)
(* Properties                                                              *)
(***************************************************************************)
(* Whatever the gates let through one by one, adjudicate() allows as a     *)
(* whole at that moment; the exception are rules with the effect           *)
(* REQUIRE_CONFIRMATION, which the gateway executes without the consent    *)
(* that adjudicate() asks for.  And the arguments are what the descriptor  *)
(* that runs asks for, not one that was looked up before.                  *)
RunsAsAdjudicated ==
  \A t \in Threads : ran[t] # NoTool =>
    /\ Conforms(ctx[t].arguments, ran[t].input)
    /\ \/ Adjudicate(Request(t), ctx[t].grant, late[t]) # "DENY"
       \/ Evaluate(Request(t)) = "REQUIRE_CONFIRMATION" /\ ~ctx[t].grant.consent

(* A call that begins when its tool is revoked never gets to a handler,    *)
(* however the operator changes the registry meanwhile, unless the name    *)
(* was unregistered and given to a new tool.                               *)
RevokedNeverRuns ==
  \A t \in Threads : seen[t] # NoTool /\ seen[t].life = "REVOKED" /\ ran[t] # NoTool =>
    tool[t] \in forgotten

(* The gateway takes the version for its record, and whether to observe    *)
(* the files, from a descriptor it looked up before the one whose handler  *)
(* runs: they agree unless the tool changed between the two, and a mission *)
(* completes only if what ran declares effects on files.                   *)
RecordNamesWhatRan ==
  \A t \in Threads : ran[t] # NoTool /\ t \notin moved =>
    /\ ran[t].version = seen[t].version /\ ran[t].files = seen[t].files
    /\ mission[t] = "COMPLETED" => ran[t].files

==================================================================================
