------------------------------ MODULE Gateway_proofs ------------------------------
(***************************************************************************)
(* Proofs about the gateway, for any tools, schemas, rules, threads and    *)
(* limits.                                                                 *)
(***************************************************************************)
EXTENDS Gateway, SequenceTheorems, TLAPS

-----------------------------------------------------------------------------
(***************************************************************************)
(* Types                                                                   *)
(***************************************************************************)
LEMMA RegistryStep ==
  ASSUME RegistryTypeOK, RegistryNext
  PROVE  RegistryTypeOK'
<1> USE RegistryAssumption DEF RegistryTypeOK
<1>1. ASSUME NEW t \in Tools, Register(t) PROVE RegistryTypeOK'
  BY <1>1 DEF Register, Accepted
<1>2. ASSUME NEW t \in Tools, Unregister(t) PROVE RegistryTypeOK'
  BY <1>2 DEF Unregister
<1>3. ASSUME NEW t \in Tools, Replace(t) PROVE RegistryTypeOK'
  BY <1>3 DEF Replace, Accepted
<1>4. ASSUME NEW t \in Tools, SetAvailability(t) PROVE RegistryTypeOK'
  <2>1. tools[t] \in Descriptor /\ Moves(tools[t].life) \subseteq Lifecycle
    BY <1>4 DEF SetAvailability, Registered, Moves, Lifecycle
  <2>2. \A l \in Lifecycle : [tools[t] EXCEPT !.life = l] \in Descriptor
    BY <2>1 DEF Descriptor
  <2> QED BY <1>4, <2>1, <2>2 DEF SetAvailability
<1> QED BY <1>1, <1>2, <1>3, <1>4 DEF RegistryNext

LEMMA LinkType ==
  ASSUME ChainTypeOK, NEW t \in Threads, Link(t)
  PROVE  ChainTypeOK'
BY DEF ChainTypeOK, Link, Entry

LEMMA PruneShape ==
  ASSUME ChainTypeOK, NEW e \in Entry
  PROVE  LET s == Prune(Append(entries, e)) IN
         /\ s \in Seq(Entry) /\ s # <<>>
         /\ Len(s) <= MaxEntries
         /\ s[Len(s)] = e
         /\ Len(entries) < MaxEntries => s = Append(entries, e)
         /\ Len(entries) = MaxEntries =>
              /\ Len(s) = MaxEntries
              /\ \A i \in 1 .. MaxEntries : s[i] = Append(entries, e)[i + 1]
<1> USE ChainAssumption DEF ChainTypeOK
<1> DEFINE long == Append(entries, e)
<1>1. long \in Seq(Entry) /\ Len(long) = Len(entries) + 1 /\ long[Len(entries) + 1] = e
  OBVIOUS
<1>2. CASE Len(entries) < MaxEntries
  <2>1. Prune(long) = SubSeq(long, 1, Len(long))
    <3>1. 1 + (IF Len(long) > MaxEntries THEN Len(long) - MaxEntries ELSE 0) = 1
      BY <1>1, <1>2
    <3> QED BY <3>1 DEF Prune
  <2>2. SubSeq(long, 1, Len(long)) = long
    BY <1>1, SubSeqFull
  <2> QED BY <1>1, <1>2, <2>1, <2>2
<1>3. CASE Len(entries) = MaxEntries
  <2>1. Prune(long) = SubSeq(long, 2, Len(long))
    BY <1>1, <1>3 DEF Prune
  <2>2. /\ Len(SubSeq(long, 2, Len(long))) = MaxEntries
        /\ SubSeq(long, 2, Len(long)) \in Seq(Entry)
        /\ \A i \in 1 .. MaxEntries : SubSeq(long, 2, Len(long))[i] = long[i + 1]
    BY <1>1, <1>3
  <2> QED BY <1>1, <1>3, <2>1, <2>2
<1> QED BY <1>2, <1>3

LEMMA StoreType ==
  ASSUME ChainTypeOK, NEW t \in Threads, Store(t)
  PROVE  ChainTypeOK'
<1>1. draft[t] \in Entry /\ None \in Entry
  BY DEF ChainTypeOK, Entry, None
<1>2. entries' \in Seq(Entry) /\ Len(entries') <= MaxEntries
  BY <1>1, PruneShape DEF Store
<1> QED BY <1>1, <1>2 DEF ChainTypeOK, Store, Entry

LEMMA InitType == Init => TypeOK
<1> SUFFICES ASSUME Init PROVE TypeOK
  OBVIOUS
<1>1. RegistryTypeOK
  BY RegistryAssumption DEF Init, RegistryInit, RegistryTypeOK, Accepted
<1>2. ChainTypeOK
  <2>1. entries = <<>> /\ <<>> \in Seq(Entry) /\ Len(<<>>) = 0
    BY DEF Init, ChainInit
  <2>2. None \in Entry
    BY DEF None, Entry
  <2>3. draft \in [Threads -> Entry]
    BY <2>2 DEF Init, ChainInit
  <2>4. tail \in Nat /\ seq \in Nat /\ pruned \in BOOLEAN /\ forked \in BOOLEAN
    BY DEF Init, ChainInit
  <2>5. entries \in Seq(Entry) /\ Len(entries) <= MaxEntries
    BY <2>1, ChainAssumption
  <2> QED BY <2>3, <2>4, <2>5 DEF ChainTypeOK
<1> QED BY <1>1, <1>2, GatewayAssumption DEF Init, TypeOK, Executed

LEMMA AgentContext ==
  ASSUME NEW c \in Context
  PROVE  ForAgent(c) \in Context
<1>1. UNION {Requires[x] : x \in {y \in Tools : Registered(y)}} \in SUBSET Known
  BY GatewayAssumption
<1>2. [kind |-> "standing", consent |-> FALSE] \in Grants /\ "read" \in Operations
  BY DEF Grants, Operations
<1> QED BY <1>1, <1>2 DEF Context, ForAgent

(***************************************************************************)
(* What the place of a call says of it.                                    *)
(***************************************************************************)
Placed(t) ==
  /\ pc[t] = "idle" => seen[t] = NoTool
  /\ pc[t] # "idle" => tool[t] \in Tools /\ ctx[t] \in Context
  /\ pc[t] \in {"idle", "looked"} => ran[t] = NoTool /\ mission[t] = "none"
  /\ pc[t] \in {"cleared", "after"} => ran[t] # NoTool

Sane == TypeOK /\ \A t \in Threads : Placed(t)

LEMMA NextType == Sane /\ [Next]_vars => TypeOK'
<1> SUFFICES ASSUME Sane, [Next]_vars PROVE TypeOK'
  OBVIOUS
<1> USE GatewayAssumption DEF Sane, TypeOK, Executed
<1>1. ASSUME NEW t \in Threads, Begin(t) PROVE TypeOK'
  <2>1. PICK x \in Tools, c \in Contexts, observed \in BOOLEAN :
          /\ tool' = [tool EXCEPT ![t] = x]
          /\ ctx' = [ctx EXCEPT ![t] = IF c.byAgent THEN ForAgent(c) ELSE c]
          /\ seen' = [seen EXCEPT ![t] = tools[x]]
          /\ \E s \in {"none", "refused"} : status' = [status EXCEPT ![t] = s]
          /\ \E p \in {"looked", "record"} : pc' = [pc EXCEPT ![t] = p]
    BY <1>1, Zenon DEF Begin, Told
  <2>2. ctx' \in [Threads -> Context \cup {NoTool}]
    BY <2>1, AgentContext
  <2>3. seen' \in [Threads -> Descriptor \cup {NoTool}] /\ tool' \in [Threads -> Tools \cup {NoTool}]
    BY <2>1 DEF RegistryTypeOK
  <2>4. /\ pc' \in [Threads -> {"idle", "looked", "cleared", "log", "after", "record"}]
        /\ status' \in [Threads -> Executed \cup {"none", "refused"}]
    BY <2>1
  <2>5. RegistryTypeOK' /\ ChainTypeOK'
    BY <1>1 DEF Begin, registryVars, chainVars, RegistryTypeOK, ChainTypeOK
  <2> QED BY <1>1, <2>2, <2>3, <2>4, <2>5 DEF Begin
<1>2. ASSUME NEW t \in Threads, PassGates(t) PROVE TypeOK'
  <2>1. tools[tool[t]] \in Descriptor \cup {NoTool}
    BY <1>2 DEF RegistryTypeOK, Placed, PassGates
  <2>2. PICK expired \in BOOLEAN :
          /\ status' = [status EXCEPT ![t] = Told(Verdict(t, expired))]
          /\ pc' = [pc EXCEPT ![t] = IF Verdict(t, expired) = "none" THEN "cleared" ELSE "log"]
          /\ ran' = [ran EXCEPT ![t] = IF Verdict(t, expired) = "none" THEN tools[tool[t]] ELSE NoTool]
          /\ late' = [late EXCEPT ![t] = Verdict(t, expired) = "none" /\ expired]
    BY <1>2 DEF PassGates
  <2>3. /\ status' \in [Threads -> Executed \cup {"none", "refused"}]
        /\ pc' \in [Threads -> {"idle", "looked", "cleared", "log", "after", "record"}]
    BY <2>2 DEF Told
  <2>4. ran' \in [Threads -> Descriptor \cup {NoTool}] /\ late' \in [Threads -> BOOLEAN]
    BY <2>1, <2>2
  <2>5. RegistryTypeOK' /\ ChainTypeOK'
    BY <1>2 DEF PassGates, registryVars, chainVars, RegistryTypeOK, ChainTypeOK
  <2> QED BY <1>2, <2>3, <2>4, <2>5 DEF PassGates, callVars
<1>3. ASSUME NEW t \in Threads, RunHandler(t) PROVE TypeOK'
  <2>1. status' \in [Threads -> Executed \cup {"none", "refused"}]
    BY <1>3 DEF RunHandler, Result
  <2>2. RegistryTypeOK' /\ ChainTypeOK'
    BY <1>3 DEF RunHandler, registryVars, chainVars, RegistryTypeOK, ChainTypeOK
  <2> QED BY <1>3, <2>1, <2>2 DEF RunHandler, callVars
<1>4. ASSUME NEW t \in Threads, Log(t) PROVE TypeOK'
  <2>1. RegistryTypeOK'
    BY <1>4 DEF Log, registryVars, RegistryTypeOK
  <2>2. CASE Link(t)
    <3>1. UNCHANGED <<pc, callVars, status, ran, mission, late, moved>>
      BY <1>4, <2>2 DEF Log, Store, Link
    <3> QED BY <1>4, <2>1, <2>2, <3>1, LinkType DEF Log, callVars
  <2>3. CASE Store(t) /\ Return(t)
    BY <1>4, <2>1, <2>3, StoreType DEF Log, Return
  <2>4. CASE Store(t) /\ ~Return(t)
    <3>1. UNCHANGED <<callVars, status, ran, mission, late, moved>>
      BY <1>4, <2>4 DEF Log, Store, Link
    <3>2. pc' \in [Threads -> {"idle", "looked", "cleared", "log", "after", "record"}]
      BY <1>4, <2>4 DEF Log, Store, Link
    <3> QED BY <1>4, <2>1, <2>4, <3>1, <3>2, StoreType DEF Log, callVars
  <2> QED BY <1>4, <2>2, <2>3, <2>4 DEF Log
<1>5. ASSUME NEW t \in Threads, Conclude(t) PROVE TypeOK'
  <2>1. mission' \in [Threads -> {"none", "RUNNING", "CHECKPOINTED", "FAILED", "COMPLETED"}]
    BY <1>5 DEF Conclude, MissionState
  <2>2. RegistryTypeOK' /\ ChainTypeOK'
    BY <1>5 DEF Conclude, registryVars, chainVars, RegistryTypeOK, ChainTypeOK
  <2> QED BY <1>5, <2>1, <2>2 DEF Conclude, callVars
<1>6. CASE Operate
  <2>1. RegistryTypeOK'
    BY <1>6, RegistryStep DEF Operate
  <2>2. ChainTypeOK'
    BY <1>6 DEF Operate, chainVars, ChainTypeOK
  <2> QED BY <1>6, <2>1, <2>2 DEF Operate, callVars
<1>7. CASE UNCHANGED vars
  BY <1>7 DEF vars, registryVars, chainVars, callVars, RegistryTypeOK, ChainTypeOK
<1> QED BY <1>1, <1>2, <1>3, <1>4, <1>5, <1>6, <1>7 DEF Next, Step

-----------------------------------------------------------------------------
(***************************************************************************)
(* The place of a call.  Most steps leave the other threads alone.         *)
(***************************************************************************)
SameCall(t) ==
  /\ pc'[t] = pc[t] /\ tool'[t] = tool[t] /\ ctx'[t] = ctx[t] /\ seen'[t] = seen[t]
  /\ ran'[t] = ran[t] /\ mission'[t] = mission[t] /\ late'[t] = late[t]

LEMMA OthersStay ==
  ASSUME TypeOK, NEW t \in Threads, Step(t), NEW u \in Threads \ {t}
  PROVE  SameCall(u)
<1> USE DEF SameCall
<1>1. CASE Begin(t)
  BY <1>1 DEF Begin, TypeOK
<1>2. CASE PassGates(t)
  BY <1>2 DEF PassGates, callVars, TypeOK
<1>3. CASE RunHandler(t)
  BY <1>3 DEF RunHandler, callVars, TypeOK
<1>4. CASE Log(t)
  BY <1>4 DEF Log, Return, callVars, TypeOK
<1>5. CASE Conclude(t)
  BY <1>5 DEF Conclude, callVars, TypeOK
<1> QED BY <1>1, <1>2, <1>3, <1>4, <1>5 DEF Step

(* What the verdict "none" says. *)
LEMMA GatesPassed ==
  ASSUME NEW t \in Threads, NEW expired \in BOOLEAN, Verdict(t, expired) = "none"
  PROVE  /\ Registered(tool[t])
         /\ tools[tool[t]].life \notin {"DISABLED", "REVOKED"}
         /\ Conforms(ctx[t].arguments, tools[tool[t]].input)
         /\ Resolves(Requires[tool[t]])
         /\ Evaluate(Request(t)) # "DENY"
         /\ Authorizes(ctx[t].grant, expired)
<1> DEFINE x == tool[t]
<1>1. Registered(x)
  BY DEF Verdict
<1>2. tools[x].life \notin {"DISABLED", "REVOKED"}
  BY <1>1 DEF Verdict
<1>3. Conforms(ctx[t].arguments, tools[x].input)
  BY <1>1, <1>2 DEF Verdict
<1>4. Resolves(Requires[x]) /\ Requires[x] \subseteq ctx[t].granted
  BY <1>1, <1>2, <1>3 DEF Verdict
<1>5. Evaluate(Request(t)) # "DENY"
  BY <1>1, <1>2, <1>3, <1>4 DEF Verdict
<1>6. Authorizes(ctx[t].grant, expired)
  BY <1>1, <1>2, <1>3, <1>4, <1>5 DEF Verdict
<1> QED BY <1>1, <1>2, <1>3, <1>4, <1>5, <1>6

LEMMA InitSane == Init => Sane
BY InitType DEF Init, Sane, Placed

LEMMA NextSane == Sane /\ [Next]_vars => Sane'
<1> SUFFICES ASSUME Sane, [Next]_vars PROVE \A u \in Threads : Placed(u)'
  BY NextType DEF Sane
<1>0. TypeOK /\ \A u \in Threads : Placed(u)
  BY DEF Sane
<1>1. ASSUME NEW t \in Threads, Step(t), NEW u \in Threads \ {t} PROVE Placed(u)'
  <2>1. SameCall(u)
    BY <1>0, <1>1, OthersStay
  <2> QED BY <1>0, <2>1 DEF SameCall, Placed
<1>2. ASSUME NEW t \in Threads, Step(t) PROVE Placed(t)'
  <2>1. CASE Begin(t)
    <3>1. PICK x \in Tools, c \in Contexts :
            /\ tool' = [tool EXCEPT ![t] = x]
            /\ ctx' = [ctx EXCEPT ![t] = IF c.byAgent THEN ForAgent(c) ELSE c]
      BY <2>1 DEF Begin
    <3>2. tool'[t] \in Tools /\ ctx'[t] \in Context
      BY <1>0, <3>1, AgentContext, GatewayAssumption DEF TypeOK
    <3>3. pc'[t] \in {"looked", "record"} /\ ran'[t] = NoTool /\ mission'[t] = "none"
      BY <1>0, <2>1 DEF Begin, TypeOK, Placed
    <3> QED BY <3>2, <3>3 DEF Placed
  <2>2. CASE PassGates(t)
    <3>1. PICK expired \in BOOLEAN :
            /\ pc'[t] = IF Verdict(t, expired) = "none" THEN "cleared" ELSE "log"
            /\ ran'[t] = IF Verdict(t, expired) = "none" THEN tools[tool[t]] ELSE NoTool
      BY <1>0, <2>2 DEF PassGates, TypeOK
    <3>2. Verdict(t, expired) = "none" => tools[tool[t]] # NoTool
      BY GatesPassed DEF Registered
    <3> QED BY <1>0, <2>2, <3>1, <3>2 DEF PassGates, Placed, callVars, TypeOK
  <2>3. CASE RunHandler(t)
    BY <1>0, <2>3 DEF RunHandler, Placed, callVars, TypeOK
  <2>4. CASE Log(t)
    BY <1>0, <2>4 DEF Log, Return, Link, Store, Placed, callVars, TypeOK
  <2>5. CASE Conclude(t)
    BY <1>0, <2>5 DEF Conclude, Placed, callVars, TypeOK
  <2> QED BY <1>2, <2>1, <2>2, <2>3, <2>4, <2>5 DEF Step
<1>3. CASE Operate
  BY <1>0, <1>3 DEF Operate, Placed, callVars
<1>4. CASE UNCHANGED vars
  BY <1>0, <1>4 DEF vars, Placed, callVars
<1> QED BY <1>1, <1>2, <1>3, <1>4 DEF Next

(* The gateway, its registry and its evidence chain are typed. *)
THEOREM TypeCorrect == Spec => []TypeOK
<1>1. Sane => TypeOK
  BY DEF Sane
<1> QED BY <1>1, InitSane, NextSane, PTL DEF Spec

-----------------------------------------------------------------------------
(***************************************************************************)
(* The registry                                                            *)
(***************************************************************************)
LEMMA RevokedStays ==
  ASSUME RegistryTypeOK, RegistryNext, NEW x \in Tools,
         Registered(x), tools[x].life = "REVOKED"
  PROVE  \/ tools'[x] = tools[x] /\ forgotten' = forgotten
         \/ tools'[x] = tools[x] /\ x \notin forgotten' \ forgotten
         \/ tools'[x] = NoTool /\ x \in forgotten'
<1> USE DEF RegistryTypeOK
<1>1. ASSUME NEW t \in Tools, Register(t) PROVE tools'[x] = tools[x] /\ forgotten' = forgotten
  BY <1>1 DEF Register, Registered
<1>2. ASSUME NEW t \in Tools, Unregister(t)
      PROVE  \/ tools'[x] = tools[x] /\ x \notin forgotten' \ forgotten
             \/ tools'[x] = NoTool /\ x \in forgotten'
  BY <1>2 DEF Unregister
<1>3. ASSUME NEW t \in Tools, Replace(t) PROVE tools'[x] = tools[x] /\ forgotten' = forgotten
  BY <1>3 DEF Replace
<1>4. ASSUME NEW t \in Tools, SetAvailability(t)
      PROVE  tools'[x] = tools[x] /\ forgotten' = forgotten
  <2>1. CASE t # x
    BY <1>4, <2>1 DEF SetAvailability
  <2>2. CASE t = x
    <3>1. Moves(tools[x].life) = {"REVOKED"}
      BY DEF Moves
    <3>2. tools' = [tools EXCEPT ![x].life = "REVOKED"] /\ forgotten' = forgotten
      BY <1>4, <2>2, <3>1 DEF SetAvailability
    <3>3. tools[x] \in Descriptor
      BY DEF Registered
    <3>4. [tools[x] EXCEPT !.life = "REVOKED"] = tools[x]
      BY <3>3 DEF Descriptor
    <3> QED BY <3>2, <3>4
  <2> QED BY <2>1, <2>2
<1> QED BY <1>1, <1>2, <1>3, <1>4 DEF RegistryNext

LEMMA RegistryMoves ==
  ASSUME TypeOK, [Next]_vars
  PROVE  (RegistryNext /\ Operate) \/ UNCHANGED registryVars
BY DEF Next, Step, Begin, PassGates, RunHandler, Log, Conclude, Operate, vars, registryVars

(***************************************************************************)
(* Whatever the threads and the operator do, a revoked tool stays revoked  *)
(* in its version or leaves the registry.                                  *)
(***************************************************************************)
THEOREM RevokedTerminal == Spec => RevokedIsTerminal
<1>1. Sane /\ [Next]_vars =>
        [\A t \in Tools : Registered(t) /\ tools[t].life = "REVOKED" =>
           tools'[t] \in {tools[t], NoTool}]_registryVars
  <2> SUFFICES ASSUME Sane, [Next]_vars, RegistryNext, NEW t \in Tools,
                      Registered(t), tools[t].life = "REVOKED"
               PROVE  tools'[t] \in {tools[t], NoTool}
    BY RegistryMoves DEF Sane
  <2> QED BY RevokedStays DEF Sane, TypeOK
<1> QED BY <1>1, InitSane, NextSane, PTL DEF Spec, RevokedIsTerminal

-----------------------------------------------------------------------------
(***************************************************************************)
(* Calls of revoked tools                                                  *)
(***************************************************************************)
(* A call that began when its tool was revoked: the tool still is, unless  *)
(* the name was unregistered, and no handler ran.                          *)
Withheld(t) ==
  seen[t] # NoTool /\ seen[t].life = "REVOKED" /\ tool[t] \notin forgotten =>
    /\ Registered(tool[t]) /\ tools[tool[t]].life = "REVOKED"
    /\ ran[t] = NoTool

LEMMA WithheldStep ==
  ASSUME Sane, [Next]_vars, \A t \in Threads : Withheld(t), NEW u \in Threads
  PROVE  Withheld(u)'
<1>0. TypeOK /\ RegistryTypeOK /\ Placed(u) /\ Withheld(u)
  BY DEF Sane, TypeOK
<1>1. ASSUME NEW t \in Threads \ {u}, Step(t) PROVE Withheld(u)'
  <2>1. SameCall(u) /\ UNCHANGED registryVars
    BY <1>0, <1>1, OthersStay DEF Step, Begin, PassGates, RunHandler, Log, Conclude
  <2> QED BY <1>0, <2>1 DEF SameCall, Withheld, Registered, registryVars
<1>2. CASE Begin(u)
  <2>1. PICK x \in Tools : tool'[u] = x /\ seen'[u] = tools[x]
    BY <1>0, <1>2 DEF Begin, TypeOK
  <2>2. ran'[u] = NoTool /\ UNCHANGED registryVars
    BY <1>0, <1>2 DEF Begin, Placed
  <2> QED BY <2>1, <2>2 DEF Withheld, Registered, registryVars
<1>3. CASE PassGates(u)
  <2>1. PICK expired \in BOOLEAN :
          ran'[u] = IF Verdict(u, expired) = "none" THEN tools[tool[u]] ELSE NoTool
    BY <1>0, <1>3 DEF PassGates, TypeOK
  <2>2. Verdict(u, expired) = "none" => tools[tool[u]].life # "REVOKED"
    BY GatesPassed
  <2> QED BY <1>0, <1>3, <2>1, <2>2 DEF PassGates, Withheld, Registered, registryVars, callVars
<1>4. CASE RunHandler(u) \/ Conclude(u)
  BY <1>0, <1>4 DEF RunHandler, Conclude, Withheld, Registered, registryVars, callVars
<1>5. CASE Log(u)
  BY <1>0, <1>5 DEF Log, Return, Withheld, Registered, registryVars, callVars, TypeOK
<1>6. CASE Operate
  <2> SUFFICES ASSUME seen[u] # NoTool, seen[u].life = "REVOKED", tool[u] \notin forgotten'
               PROVE  /\ tools'[tool[u]] # NoTool /\ tools'[tool[u]].life = "REVOKED"
                      /\ ran[u] = NoTool
    BY <1>6 DEF Operate, Withheld, Registered, callVars
  <2>1. RegistryNext /\ tool[u] \in Tools
    BY <1>0, <1>6 DEF Operate, Placed
  <2>2. forgotten \subseteq forgotten'
    BY <2>1 DEF RegistryNext, Register, Unregister, Replace, SetAvailability
  <2>3. Registered(tool[u]) /\ tools[tool[u]].life = "REVOKED" /\ ran[u] = NoTool
    BY <1>0, <2>2 DEF Withheld
  <2>4. tools'[tool[u]] = tools[tool[u]]
    BY <1>0, <2>1, <2>3, RevokedStays
  <2> QED BY <2>3, <2>4 DEF Registered
<1>7. CASE UNCHANGED vars
  BY <1>0, <1>7 DEF vars, Withheld, Registered, registryVars, callVars
<1> QED BY <1>1, <1>2, <1>3, <1>4, <1>5, <1>6, <1>7 DEF Next, Step

(***************************************************************************)
(* A tool that is revoked when a call of it begins is not run by the call, *)
(* for any interleaving of the gateway's lookups and the operator.         *)
(***************************************************************************)
THEOREM RevokedOut == Spec => []RevokedNeverRuns
<1> DEFINE Inv == Sane /\ \A t \in Threads : Withheld(t)
<1>1. Init => Inv
  BY InitSane DEF Init, Withheld
<1>2. Inv /\ [Next]_vars => Inv'
  BY NextSane, WithheldStep
<1>3. Inv => RevokedNeverRuns
  BY DEF Withheld, RevokedNeverRuns
<1> QED BY <1>1, <1>2, <1>3, PTL DEF Spec

-----------------------------------------------------------------------------
(***************************************************************************)
(* What runs is what was adjudicated                                       *)
(***************************************************************************)
Cleared(t) ==
  ran[t] # NoTool =>
    /\ Conforms(ctx[t].arguments, ran[t].input)
    /\ \/ Adjudicate(Request(t), ctx[t].grant, late[t]) # "DENY"
       \/ Evaluate(Request(t)) = "REQUIRE_CONFIRMATION" /\ ~ctx[t].grant.consent

LEMMA ClearedKept ==
  ASSUME NEW u, Cleared(u), ran'[u] = ran[u], ctx'[u] = ctx[u], tool'[u] = tool[u], late'[u] = late[u]
  PROVE  Cleared(u)'
<1>1. Request(u)' = Request(u)
  BY DEF Request
<1>2. (Adjudicate(Request(u), ctx[u].grant, late[u]))' = Adjudicate(Request(u), ctx[u].grant, late[u])
  BY <1>1 DEF Adjudicate, Resolves, Authorizes, Evaluate, Malformed, Contained, Matching, Matches
<1>3. Evaluate(Request(u))' = Evaluate(Request(u))
  BY <1>1 DEF Evaluate, Malformed, Contained, Matching, Matches
<1> QED BY <1>2, <1>3 DEF Cleared

LEMMA ClearedStep ==
  ASSUME Sane, [Next]_vars, \A t \in Threads : Cleared(t), NEW u \in Threads
  PROVE  Cleared(u)'
<1>0. TypeOK /\ Placed(u) /\ Cleared(u)
  BY DEF Sane
<1>1. ASSUME NEW t \in Threads \ {u}, Step(t) PROVE Cleared(u)'
  BY <1>0, <1>1, OthersStay, ClearedKept DEF SameCall
<1>2. CASE Begin(u)
  BY <1>0, <1>2 DEF Begin, Placed, Cleared
<1>3. CASE PassGates(u)
  <2>1. PICK expired \in BOOLEAN :
          /\ ran'[u] = IF Verdict(u, expired) = "none" THEN tools[tool[u]] ELSE NoTool
          /\ late'[u] = (Verdict(u, expired) = "none" /\ expired)
    BY <1>0, <1>3 DEF PassGates, TypeOK
  <2>2. ctx' = ctx /\ tool' = tool
    BY <1>3 DEF PassGates, callVars
  <2> SUFFICES ASSUME Verdict(u, expired) = "none" PROVE Cleared(u)'
    BY <2>1 DEF Cleared
  <2>3. Conforms(ctx'[u].arguments, ran'[u].input)
    BY <2>1, <2>2, GatesPassed
  <2>4. late'[u] = expired
    BY <2>1
  <2>5. Request(u)' = Request(u) /\ Request(u).capabilities = Requires[tool[u]]
    BY <2>2 DEF Request
  <2>6. /\ Resolves(Request(u).capabilities) /\ Authorizes(ctx[u].grant, expired)
        /\ Evaluate(Request(u)) # "DENY"
    BY <2>5, GatesPassed
  <2>7. \/ Adjudicate(Request(u), ctx[u].grant, expired) # "DENY"
        \/ Evaluate(Request(u)) = "REQUIRE_CONFIRMATION" /\ ~ctx[u].grant.consent
    BY <2>6 DEF Adjudicate
  <2> QED BY <2>2, <2>3, <2>4, <2>5, <2>7 DEF Cleared, Request
<1>4. CASE RunHandler(u) \/ Conclude(u) \/ Operate
  BY <1>0, <1>4, ClearedKept DEF RunHandler, Conclude, Operate, callVars
<1>5. CASE Log(u)
  <2>1. CASE Return(u)
    BY <1>0, <2>1 DEF Return, Cleared, TypeOK
  <2>2. CASE ~Return(u)
    BY <1>0, <1>5, <2>2, ClearedKept DEF Log, callVars
  <2> QED BY <2>1, <2>2
<1>6. CASE UNCHANGED vars
  BY <1>0, <1>6, ClearedKept DEF vars, callVars
<1> QED BY <1>1, <1>2, <1>3, <1>4, <1>5, <1>6 DEF Next, Step

(***************************************************************************)
(* The gates in their order let through what adjudicate() allows as a      *)
(* whole, or what asks for a confirmation, for any policy and catalogue;   *)
(* the handler that runs is of a descriptor that accepts the arguments.    *)
(***************************************************************************)
THEOREM RunsAdjudicated == Spec => []RunsAsAdjudicated
<1> DEFINE Inv == Sane /\ \A t \in Threads : Cleared(t)
<1>1. Init => Inv
  BY InitSane DEF Init, Cleared
<1>2. Inv /\ [Next]_vars => Inv'
  BY NextSane, ClearedStep
<1>3. Inv => RunsAsAdjudicated
  BY DEF Cleared, RunsAsAdjudicated
<1> QED BY <1>1, <1>2, <1>3, PTL DEF Spec

-----------------------------------------------------------------------------
(***************************************************************************)
(* The record of a call                                                    *)
(***************************************************************************)
Recorded(t) ==
  /\ pc[t] = "looked" /\ t \notin moved => tools[tool[t]] = seen[t]
  /\ ran[t] # NoTool /\ t \notin moved => ran[t] = seen[t]
  /\ mission[t] = "COMPLETED" => seen[t].files

LEMMA RecordedStep ==
  ASSUME Sane, [Next]_vars, \A t \in Threads : Recorded(t), NEW u \in Threads
  PROVE  Recorded(u)'
<1>0. TypeOK /\ Placed(u) /\ Recorded(u)
  BY DEF Sane
<1>1. ASSUME NEW t \in Threads \ {u}, Step(t) PROVE Recorded(u)'
  <2>1. SameCall(u) /\ tools' = tools
    BY <1>0, <1>1, OthersStay DEF Step, Begin, PassGates, RunHandler, Log, Conclude, registryVars
  <2>2. u \in moved' <=> u \in moved
    BY <1>1 DEF Step, Begin, PassGates, RunHandler, Log, Return, Conclude
  <2> QED BY <1>0, <2>1, <2>2 DEF SameCall, Recorded
<1>2. CASE Begin(u)
  <2>1. PICK x \in Tools : tool'[u] = x /\ seen'[u] = tools[x]
    BY <1>0, <1>2 DEF Begin, TypeOK
  <2>2. ran'[u] = NoTool /\ mission'[u] = "none" /\ tools' = tools
    BY <1>0, <1>2 DEF Begin, Placed, registryVars
  <2> QED BY <2>1, <2>2 DEF Recorded
<1>3. CASE PassGates(u)
  <2>1. PICK expired \in BOOLEAN :
          /\ ran'[u] = IF Verdict(u, expired) = "none" THEN tools[tool[u]] ELSE NoTool
          /\ pc'[u] \in {"cleared", "log"}
    BY <1>0, <1>3 DEF PassGates, TypeOK
  <2>2. seen' = seen /\ mission' = mission /\ moved' = moved /\ pc[u] = "looked"
    BY <1>3 DEF PassGates, callVars
  <2> QED BY <1>0, <2>1, <2>2 DEF Recorded
<1>4. CASE RunHandler(u)
  BY <1>0, <1>4 DEF RunHandler, Recorded, callVars, TypeOK
<1>5. CASE Log(u)
  <2>1. CASE Return(u)
    BY <1>0, <2>1 DEF Return, Recorded, TypeOK
  <2>2. CASE ~Return(u)
    <3>1. ran' = ran /\ mission' = mission /\ moved' = moved /\ seen' = seen
      BY <1>5, <2>2 DEF Log, callVars
    <3>2. pc'[u] # "looked"
      BY <1>0, <1>5, <2>2 DEF Log, TypeOK
    <3> QED BY <1>0, <3>1, <3>2 DEF Recorded
  <2> QED BY <2>1, <2>2
<1>6. CASE Conclude(u)
  <2>1. PICK observed \in BOOLEAN, verdict \in {"PASS", "FAIL", "INCONCLUSIVE", "none"} :
          mission'[u] = MissionState(u, observed, verdict)
    BY <1>0, <1>6 DEF Conclude, TypeOK
  <2>2. MissionState(u, observed, verdict) = "COMPLETED" => seen[u].files
    BY DEF MissionState
  <2> QED BY <1>0, <1>6, <2>1, <2>2 DEF Conclude, Recorded, callVars, TypeOK
<1>7. CASE Operate
  <2>1. pc[u] = "looked" /\ u \notin moved' => tools'[tool[u]] = tools[tool[u]]
    BY <1>7 DEF Operate
  <2>2. moved \subseteq moved'
    BY <1>7 DEF Operate
  <2> QED BY <1>0, <1>7, <2>1, <2>2 DEF Operate, Recorded, callVars
<1>8. CASE UNCHANGED vars
  BY <1>0, <1>8 DEF vars, Recorded, registryVars, callVars
<1> QED BY <1>1, <1>2, <1>3, <1>4, <1>5, <1>6, <1>7, <1>8 DEF Next, Step

(***************************************************************************)
(* Unless the tool changed between the two lookups, the record names what  *)
(* ran, and a mission completes only over a tool with effects on files.    *)
(***************************************************************************)
THEOREM RecordCorrect == Spec => []RecordNamesWhatRan
<1> DEFINE Inv == Sane /\ \A t \in Threads : Recorded(t)
<1>1. Init => Inv
  BY InitSane DEF Init, Recorded
<1>2. Inv /\ [Next]_vars => Inv'
  BY NextSane, RecordedStep
<1>3. Inv => RecordNamesWhatRan
  BY DEF Recorded, RecordNamesWhatRan
<1> QED BY <1>1, <1>2, <1>3, PTL DEF Spec

-----------------------------------------------------------------------------
(***************************************************************************)
(* The evidence chain                                                      *)
(***************************************************************************)
(* Each entry but the first is linked to the one before, the tail is the   *)
(* last, an append at work continues it, and the first is linked to the    *)
(* genesis, which is 0, until something was pruned.                        *)
Chain(s) ==
  /\ \A i \in 1 .. Len(s) : s[i].id > 0
  /\ \A i \in 2 .. Len(s) : s[i].prev = s[i - 1].id

Chained ==
  /\ Chain(entries)
  /\ \A t \in Threads : draft[t] # None => draft[t].id > 0 /\ draft[t].prev = tail
  /\ \A t, u \in Threads : draft[t] # None /\ draft[u] # None => t = u
  /\ entries = <<>> => tail = 0 /\ ~pruned
  /\ entries # <<>> => tail = entries[Len(entries)].id /\ (entries[1].prev = 0 <=> ~pruned)

LEMMA LinkChained ==
  ASSUME ChainTypeOK, ~forked => Chained, NEW t \in Threads, Link(t)
  PROVE  (~forked => Chained)'
<1> SUFFICES ASSUME ~forked' PROVE Chained'
  OBVIOUS
<1>1. ~forked /\ \A u \in Threads : draft[u] = None
  BY DEF Link, ChainTypeOK
<1>2. Chained /\ UNCHANGED <<entries, tail, pruned>>
  BY <1>1 DEF Link
<1>3. draft'[t].id > 0 /\ draft'[t].prev = tail
  BY DEF Link, ChainTypeOK
<1>4. \A u \in Threads \ {t} : draft'[u] = None
  BY <1>1 DEF Link, ChainTypeOK
<1>5. (Chain(entries))'
  BY <1>2 DEF Chained, Chain
<1> QED BY <1>2, <1>3, <1>4, <1>5 DEF Chained

LEMMA StoreChained ==
  ASSUME ChainTypeOK, ~forked => Chained, NEW t \in Threads, Store(t)
  PROVE  (~forked => Chained)'
<1> DEFINE e == draft[t]
           long == Append(entries, e)
<1> SUFFICES ASSUME ~forked PROVE Chained'
  BY DEF Store
<1>1. /\ Chained /\ e # None /\ e \in Entry /\ e.id > 0 /\ e.id \in Nat /\ e.prev = tail
      /\ entries \in Seq(Entry) /\ Len(entries) <= MaxEntries /\ Len(entries) \in Nat
  BY DEF Store, Chained, ChainTypeOK, Entry
<1>2. \A u \in Threads : draft'[u] = None
  BY <1>1 DEF Store, Chained, ChainTypeOK
<1>3. /\ Len(long) = Len(entries) + 1 /\ long[Len(entries) + 1] = e
      /\ \A i \in 1 .. Len(entries) : long[i] = entries[i]
  BY <1>1
<1>4. Chain(long)
  <2>1. \A i \in 1 .. Len(long) : long[i].id > 0
    BY <1>1, <1>3 DEF Chained, Chain
  <2>2. ASSUME NEW i \in 2 .. Len(long) PROVE long[i].prev = long[i - 1].id
    <3>1. CASE i <= Len(entries)
      BY <1>1, <1>3, <3>1 DEF Chained, Chain
    <3>2. CASE i = Len(entries) + 1
      <4>1. entries # <<>> /\ tail = entries[Len(entries)].id
        BY <1>1, <3>2 DEF Chained
      <4> QED BY <1>1, <1>3, <3>2, <4>1
    <3> QED BY <1>1, <1>3, <3>1, <3>2
  <2> QED BY <2>1, <2>2 DEF Chain
<1> HIDE DEF long
<1>5. CASE Len(entries) < MaxEntries
  <2>1. entries' = long /\ entries' # <<>> /\ tail' = e.id
    BY <1>1, <1>5, PruneShape DEF Store, long
  <2>2. pruned' = pruned
    BY <1>1, <1>5 DEF Store, ChainTypeOK
  <2>3. tail' = entries'[Len(entries')].id
    BY <1>3, <2>1
  <2>4. entries'[1].prev = 0 <=> ~pruned'
    <3>1. CASE entries = <<>>
      BY <1>1, <1>3, <2>1, <2>2, <3>1 DEF Chained
    <3>2. CASE entries # <<>>
      <4>1. Len(entries) >= 1
        BY <1>1, <3>2
      <4>2. entries'[1] = entries[1]
        BY <1>1, <1>3, <2>1, <4>1
      <4> QED BY <1>1, <2>2, <3>2, <4>2 DEF Chained
    <3> QED BY <3>1, <3>2
  <2>5. (Chain(entries))'
    BY <1>4, <2>1 DEF Chain
  <2> QED BY <1>2, <2>1, <2>3, <2>4, <2>5 DEF Chained
<1>6. CASE Len(entries) = MaxEntries
  <2>1. /\ Len(entries') = MaxEntries /\ entries' # <<>>
        /\ entries'[Len(entries')] = e
        /\ \A i \in 1 .. MaxEntries : entries'[i] = long[i + 1]
    BY <1>1, <1>6, PruneShape DEF Store, long
  <2>2. pruned' /\ tail' = e.id
    BY <1>6 DEF Store
  <2>3. MaxEntries \in Nat /\ MaxEntries >= 1
    BY ChainAssumption
  <2>4. entries'[1].prev # 0
    <3>1. entries'[1] = long[2] /\ 2 \in 2 .. Len(long) /\ 1 \in 1 .. Len(long)
      BY <1>3, <1>6, <2>1, <2>3
    <3>2. long[2].prev = long[1].id /\ long[1].id > 0
      BY <1>4, <3>1 DEF Chain
    <3> QED BY <3>1, <3>2
  <2>5. (Chain(entries))'
    <3>1. \A i \in 1 .. MaxEntries : entries'[i].id > 0
      BY <1>3, <1>4, <1>6, <2>1, <2>3 DEF Chain
    <3>2. ASSUME NEW i \in 2 .. MaxEntries PROVE entries'[i].prev = entries'[i - 1].id
      <4>1. entries'[i] = long[i + 1] /\ entries'[i - 1] = long[i]
        BY <2>1, <2>3
      <4>2. i + 1 \in 2 .. Len(long) /\ (i + 1) - 1 = i
        BY <1>3, <1>6, <2>3
      <4>3. long[i + 1].prev = long[i].id
        BY <1>4, <4>2 DEF Chain
      <4> QED BY <4>1, <4>3
    <3> QED BY <2>1, <3>1, <3>2 DEF Chain
  <2> QED BY <1>2, <2>1, <2>2, <2>4, <2>5 DEF Chained
<1> QED BY <1>1, <1>5, <1>6, ChainAssumption

LEMMA ChainedStep ==
  ASSUME Sane, ~forked => Chained, [Next]_vars
  PROVE  (~forked => Chained)'
<1>1. ChainTypeOK
  BY DEF Sane, TypeOK
<1>2. ASSUME UNCHANGED chainVars PROVE (~forked => Chained)'
  BY <1>2 DEF chainVars, Chained, Chain
<1>3. ASSUME NEW t \in Threads, Log(t) PROVE (~forked => Chained)'
  BY <1>1, <1>3, LinkChained, StoreChained DEF Log
<1>4. UNCHANGED chainVars \/ \E t \in Threads : Log(t)
  BY DEF Next, Step, Begin, PassGates, RunHandler, Conclude, Operate, vars
<1> QED BY <1>2, <1>3, <1>4

(***************************************************************************)
(* For any number of appends that do not overlap, and any limit, the chain *)
(* verifies exactly as long as nothing was pruned.                         *)
(***************************************************************************)
THEOREM ChainVerifies == Spec => []VerifiesUntilPruned
<1> DEFINE Inv == Sane /\ (~forked => Chained)
<1>1. Init => Inv
  <2>1. ASSUME Init PROVE Chained
    <3>1. entries = <<>> /\ Len(entries) = 0 /\ tail = 0 /\ ~pruned /\ \A t \in Threads : draft[t] = None
      BY <2>1 DEF Init, ChainInit
    <3>2. Chain(entries)
      BY <3>1 DEF Chain
    <3> QED BY <3>1, <3>2 DEF Chained
  <2> QED BY <2>1, InitSane
<1>2. Inv /\ [Next]_vars => Inv'
  BY NextSane, ChainedStep
<1>3. Inv => VerifiesUntilPruned
  <2> SUFFICES ASSUME Inv, ~forked PROVE Verifies <=> ~pruned
    BY DEF VerifiesUntilPruned
  <2>1. Chained /\ entries \in Seq(Entry)
    BY DEF Sane, TypeOK, ChainTypeOK
  <2>2. CASE entries = <<>>
    BY <2>1, <2>2 DEF Chained, Verifies
  <2>3. CASE entries # <<>>
    <3>1. 1 \in DOMAIN entries /\ DOMAIN entries = 1 .. Len(entries) /\ Len(entries) \in Nat
      BY <2>1, <2>3
    <3>2. \A i \in DOMAIN entries : i # 1 => entries[i].prev = entries[i - 1].id
      BY <2>1, <3>1 DEF Chained, Chain
    <3>3. Verifies <=> entries[1].prev = 0
      BY <3>1, <3>2 DEF Verifies
    <3> QED BY <2>1, <2>3, <3>3 DEF Chained
  <2> QED BY <2>2, <2>3
<1> QED BY <1>1, <1>2, <1>3, PTL DEF Spec

===================================================================================
