------------------------------ MODULE Storage_proofs ------------------------------
(***************************************************************************)
(* Proofs about what outlives a process: the recovery of missions, for any *)
(* missions, steps, files and versions, and the audit journal, for any     *)
(* number of processes, rows, sessions and runs, and any limits of its     *)
(* readers.                                                                *)
(***************************************************************************)
EXTENDS Recovery, AuditLog, SequenceTheorems, FiniteSetTheorems, WellFoundedInduction, TLAPS

-----------------------------------------------------------------------------
(***************************************************************************)
(* Types                                                                   *)
(***************************************************************************)
LEMMA LegalStates == \A s \in States \cup {"unknown"} : Legal(s) \subseteq States
BY DEF Legal, States, Ended

LEMMA GateStates ==
  ASSUME NEW f, NEW tripped, NEW sameHead, NEW sameWorld
  PROVE  Gate(f, tripped, sameHead, sameWorld) \in {"FAILED", "ABORTED", "RECOVERING", "RESUMED"}
BY DEF Gate

(* What can be read has a version within the bound. *)
Typed == TypeOK /\ \A f \in Files : disk[f] = "intact" => ckpt[f].version <= MaxVersion

(***************************************************************************)
(* There is a newest checkpoint, because versions are bounded.             *)
(***************************************************************************)
LEMMA NewestExists ==
  ASSUME Typed, NEW m \in Missions, Intact(m) # {}
  PROVE  Newest(m) # {}
<1> DEFINE below(f) == MaxVersion - ckpt[f].version
           T == {below(f) : f \in Intact(m)}
<1>1. \A f \in Intact(m) : below(f) \in Nat /\ ckpt[f].version \in Nat
  BY RecoveryAssumption DEF Typed, TypeOK, Intact, Checkpoint
<1>2. T \subseteq Nat /\ T # {}
  BY <1>1
<1>3. PICK v \in T : \A w \in T : <<w, v>> \notin OpToRel(<, Nat)
  BY <1>2, NatLessThanWellFounded, WFMin
<1>4. PICK f \in Intact(m) : v = below(f)
  OBVIOUS
<1>5. ASSUME NEW g \in Intact(m) PROVE ckpt[g].version <= ckpt[f].version
  <2>1. <<below(g), below(f)>> \notin OpToRel(<, Nat)
    BY <1>3, <1>4
  <2>2. ~(below(g) < below(f))
    BY <1>1, <2>1 DEF OpToRel
  <2> QED BY <1>1, <2>2, RecoveryAssumption
<1> QED BY <1>4, <1>5 DEF Newest

(* A new version is above those of the checkpoints that can be read.       *)
LEMMA NextVersionAbove ==
  ASSUME Typed, NEW m \in Missions
  PROVE  /\ NextVersion(m) \in Nat
         /\ \A g \in Intact(m) : ckpt[g].version < NextVersion(m)
<1>1. CASE Intact(m) = {}
  BY <1>1 DEF NextVersion
<1>2. CASE Intact(m) # {}
  <2> DEFINE V == {ckpt[f].version : f \in Newest(m)}
             top == CHOOSE v \in V : TRUE
  <2>1. \A g \in Intact(m) : ckpt[g].version \in Nat
    BY DEF Typed, TypeOK, Intact, Checkpoint
  <2>2. V # {}
    BY <1>2, NewestExists
  <2>3. top \in V
    BY <2>2
  <2>4. PICK f \in Newest(m) : top = ckpt[f].version
    BY <2>3
  <2>5. NextVersion(m) = 1 + top
    BY <1>2 DEF NextVersion
  <2>6. f \in Intact(m) /\ \A g \in Intact(m) : ckpt[g].version <= top
    BY <2>4 DEF Newest
  <2> HIDE DEF top
  <2> QED BY <2>1, <2>4, <2>5, <2>6
<1> QED BY <1>1, <1>2

-----------------------------------------------------------------------------
(***************************************************************************)
(* What a step does to the files                                           *)
(***************************************************************************)
(* A checkpoint is published, above all readable ones of its mission.      *)
LEMMA Published ==
  ASSUME Typed, NEW m \in Missions, NEW f \in Files, Publish(m, f)
  PROVE  /\ state[m] \in Active
         /\ disk[f] = "absent" /\ disk' = [disk EXCEPT ![f] = "intact"]
         /\ ckpt' = [ckpt EXCEPT ![f] = ckpt'[f]]
         /\ ckpt'[f] \in Checkpoint /\ ckpt'[f].version <= MaxVersion
         /\ ckpt'[f].mission = m /\ ckpt'[f].verified = known[m]
         /\ \A g \in Intact(m) : ckpt[g].version < ckpt'[f].version
<1>1. PICK p \in Permits :
        ckpt' = [ckpt EXCEPT ![f] = [mission |-> m, version |-> NextVersion(m),
                                     permit |-> p, verified |-> known[m]]]
  BY DEF Publish
<1>2. ckpt'[f] = [mission |-> m, version |-> NextVersion(m), permit |-> p, verified |-> known[m]]
  BY <1>1 DEF Typed, TypeOK
<1>3. NextVersion(m) \in Nat /\ \A g \in Intact(m) : ckpt[g].version < NextVersion(m)
  BY NextVersionAbove
<1>4. p \in Permit /\ known[m] \in SUBSET Steps
  BY RecoveryAssumption DEF Typed, TypeOK
<1>5. state[m] \in Active
  BY DEF Typed, TypeOK, Publish, Legal, Active, States, Ended
<1>6. ckpt' = [ckpt EXCEPT ![f] = ckpt'[f]]
  BY <1>1, <1>2
<1>7. NextVersion(m) <= MaxVersion /\ disk[f] = "absent" /\ disk' = [disk EXCEPT ![f] = "intact"]
  BY DEF Publish
<1>8. /\ ckpt'[f] \in Checkpoint
      /\ ckpt'[f].version = NextVersion(m)
      /\ ckpt'[f].mission = m /\ ckpt'[f].verified = known[m]
  BY <1>2, <1>3, <1>4 DEF Checkpoint
<1> QED BY <1>3, <1>5, <1>6, <1>7, <1>8

(* Nothing else that is readable changes.                                  *)
LEMMA PublishedIntact ==
  ASSUME Typed, NEW m \in Missions, NEW f \in Files, Publish(m, f)
  PROVE  /\ f \notin Intact(m) /\ Intact(m)' = Intact(m) \cup {f}
         /\ \A n \in Missions \ {m} : Intact(n)' = Intact(n)
         /\ \A g \in Files \ {f} : ckpt'[g] = ckpt[g] /\ disk'[g] = disk[g]
<1>1. \A g \in Files \ {f} : ckpt'[g] = ckpt[g] /\ disk'[g] = disk[g]
  BY Published DEF Typed, TypeOK
<1>2. disk'[f] = "intact" /\ ckpt'[f].mission = m /\ disk[f] = "absent"
  BY Published DEF Typed, TypeOK
<1> QED BY <1>1, <1>2 DEF Intact

(* A corrupt file is no longer readable; no other file changes.            *)
LEMMA CorruptedIntact ==
  ASSUME Typed, NEW f \in Files, Corrupt(f)
  PROVE  /\ disk'[f] = "corrupt" /\ ckpt'[f] \in Checkpoint /\ ckpt'[f].mission = ckpt[f].mission
         /\ disk' \in [Files -> {"absent", "intact", "corrupt"}]
         /\ ckpt' \in [Files -> Checkpoint]
         /\ \A n \in Missions : Intact(n)' = Intact(n) \ {f}
         /\ \A g \in Files \ {f} : ckpt'[g] = ckpt[g] /\ disk'[g] = disk[g]
<1>1. \A g \in Files \ {f} : ckpt'[g] = ckpt[g] /\ disk'[g] = disk[g]
  BY DEF Typed, TypeOK, Corrupt
<1>2. disk'[f] = "corrupt" /\ ckpt'[f] = [Blank EXCEPT !.mission = ckpt[f].mission]
  BY DEF Typed, TypeOK, Corrupt
<1>3. ckpt'[f] \in Checkpoint /\ ckpt'[f].mission = ckpt[f].mission
  BY <1>2 DEF Typed, TypeOK, Blank, Checkpoint, Permit
<1>4. ckpt' \in [Files -> Checkpoint]
  BY <1>3 DEF Corrupt, Typed, TypeOK
<1>5. disk' \in [Files -> {"absent", "intact", "corrupt"}]
  BY DEF Corrupt, Typed, TypeOK
<1> QED BY <1>1, <1>2, <1>3, <1>4, <1>5 DEF Intact

(* A step publishes a checkpoint, loses one, or leaves the files alone.    *)
LEMMA DiskSteps ==
  ASSUME [Next]_vars
  PROVE  \/ UNCHANGED onDisk
         \/ \E m \in Missions, f \in Files : Publish(m, f)
         \/ \E f \in Files : Corrupt(f)
BY DEF Next, vars, onDisk, history, Register, Transition, ConfirmNotOk, Work, OfFile, Save,
       CrashInSave, Restore, Resume, ConfirmOk, Crash, TimePasses

-----------------------------------------------------------------------------
(***************************************************************************)
(* The inductive invariant                                                 *)
(***************************************************************************)
(* Later checkpoints of a mission hold what earlier ones do: what the      *)
(* choice of the newest rests on.                                          *)
Ordered ==
  \A m \in Missions \ over : \A f, g \in Intact(m) :
    ckpt[f].version <= ckpt[g].version => ckpt[f].verified \subseteq ckpt[g].verified

(* A mission that waits for the confirmation rests on a checkpoint that    *)
(* passed the gates, still the newest if it can still be read.             *)
Resting ==
  \A m \in Missions : state[m] = "RECOVERING" =>
    basis[m] \in Files /\ (basis[m] \in Newest(m) \/ disk[basis[m]] = "corrupt")

RecoveryInv ==
  Typed /\ VersionsDiffer /\ Ordered /\ VerifiedKept /\ CheckpointedIsBacked /\ Resting

LEMMA RecoveryInit == Init => RecoveryInv
<1> SUFFICES ASSUME Init PROVE RecoveryInv
  OBVIOUS
<1>1. \A m \in Missions : Intact(m) = {}
  BY DEF Init, Intact
<1>2. Typed
  BY DEF Init, Typed, TypeOK, Checkpoint, Blank, Permit
<1>3. \A m \in Missions : state[m] = "unknown"
  BY DEF Init
<1> QED BY <1>1, <1>2, <1>3 DEF Init, RecoveryInv, VersionsDiffer, Ordered, VerifiedKept,
      CheckpointedIsBacked, Resting, Active

(* The types of what lies on the disk.                                     *)
DiskType ==
  /\ disk \in [Files -> {"absent", "intact", "corrupt"}]
  /\ ckpt \in [Files -> Checkpoint]
  /\ \A f \in Files : disk[f] = "intact" => ckpt[f].version <= MaxVersion

LEMMA NextDiskType == Typed /\ [Next]_vars => DiskType'
<1> SUFFICES ASSUME Typed, [Next]_vars PROVE DiskType'
  OBVIOUS
<1>1. CASE UNCHANGED onDisk
  BY <1>1 DEF onDisk, Typed, TypeOK, DiskType
<1>2. ASSUME NEW m \in Missions, NEW f \in Files, Publish(m, f) PROVE DiskType'
  <2>1. /\ disk' = [disk EXCEPT ![f] = "intact"] /\ ckpt' = [ckpt EXCEPT ![f] = ckpt'[f]]
        /\ ckpt'[f] \in Checkpoint /\ ckpt'[f].version <= MaxVersion
    BY <1>2, Published
  <2>2. disk' \in [Files -> {"absent", "intact", "corrupt"}]
    BY <2>1 DEF Typed, TypeOK
  <2>3. ckpt' \in [Files -> Checkpoint]
    BY <2>1 DEF Typed, TypeOK
  <2>4. \A g \in Files \ {f} : ckpt'[g] = ckpt[g] /\ disk'[g] = disk[g]
    BY <1>2, PublishedIntact
  <2> QED BY <2>1, <2>2, <2>3, <2>4 DEF Typed, DiskType
<1>3. ASSUME NEW f \in Files, Corrupt(f) PROVE DiskType'
  BY <1>3, CorruptedIntact DEF Typed, DiskType
<1> QED BY <1>1, <1>2, <1>3, DiskSteps

LEMMA NextTyped == Typed /\ [Next]_vars => Typed'
<1> SUFFICES ASSUME Typed, [Next]_vars PROVE Typed'
  OBVIOUS
<1> USE DEF Typed, TypeOK
<1>1. DiskType'
  BY NextDiskType
<1>2. (replay \in BOOLEAN)' /\ (late \in BOOLEAN)' /\ (over \subseteq Missions)'
  BY DEF Next, vars, onDisk, history, Register, Transition, ConfirmNotOk, Work, OfFile, Save,
         CrashInSave, Restore, Resume, ConfirmOk, Crash, TimePasses, Corrupt
<1> DEFINE Memory == /\ state' \in [Missions -> States \cup {"unknown"}]
                     /\ known' \in [Missions -> SUBSET Steps]
                     /\ basis' \in [Missions -> Files \cup {None}]
<1>3. ASSUME NEW m \in Missions, Register(m) \/ Transition(m) \/ ConfirmNotOk(m) PROVE Memory
  <2>1. \A new \in {"RUNNING", "COMPLETED", "FAILED", "ABORTED"} : new \in States
    BY DEF States, Ended
  <2> QED BY <1>3, <2>1 DEF Register, Transition, ConfirmNotOk
<1>4. ASSUME NEW m \in Missions, NEW s \in Steps, Work(m, s) PROVE Memory
  BY <1>4 DEF Work, history
<1>5. ASSUME NEW m \in Missions, NEW f \in Files, OfFile(m, f) PROVE Memory
  <2>1. ckpt[f].verified \subseteq Steps
    BY DEF Checkpoint
  <2>2. CASE Save(m, f)
    BY <2>2 DEF Save, States
  <2>3. CASE CrashInSave(m, f)
    BY <2>3 DEF CrashInSave, Forget
  <2>4. CASE Restore(m, f)
    BY <2>1, <2>4 DEF Restore, States, history
  <2>5. CASE Resume(m, f)
    <3>1. PICK tripped, sameHead, sameWorld \in BOOLEAN :
            LET next == Gate(f, tripped, sameHead, sameWorld) IN
            /\ state' = [state EXCEPT ![m] = next]
            /\ known' = IF next = "RESUMED" THEN [known EXCEPT ![m] = ckpt[f].verified] ELSE known
            /\ basis' = [basis EXCEPT ![m] = IF next \in {"RESUMED", "RECOVERING"} THEN f ELSE None]
      BY <2>5 DEF Resume
    <3>2. Gate(f, tripped, sameHead, sameWorld) \in States
      BY GateStates DEF States, Ended
    <3> QED BY <2>1, <3>1, <3>2
  <2>6. CASE ConfirmOk(m, f)
    BY <2>1, <2>6 DEF ConfirmOk, States
  <2> QED BY <1>5, <2>2, <2>3, <2>4, <2>5, <2>6 DEF OfFile
<1>6. ASSUME Crash \/ TimePasses \/ UNCHANGED vars PROVE Memory
  BY <1>6 DEF Crash, Forget, TimePasses, vars, history
<1>7. ASSUME NEW f \in Files, Corrupt(f) PROVE Memory
  BY <1>7 DEF Corrupt, history
<1>8. Memory
  BY <1>3, <1>4, <1>5, <1>6, <1>7 DEF Next
<1> QED BY <1>1, <1>2, <1>8 DEF DiskType

LEMMA NextVersionsDiffer == Typed /\ VersionsDiffer /\ [Next]_vars => VersionsDiffer'
<1> SUFFICES ASSUME Typed, VersionsDiffer, [Next]_vars PROVE VersionsDiffer'
  OBVIOUS
<1>1. CASE UNCHANGED onDisk
  BY <1>1 DEF onDisk, VersionsDiffer
<1>2. ASSUME NEW m \in Missions, NEW f \in Files, Publish(m, f) PROVE VersionsDiffer'
  <2>1. /\ ckpt'[f].mission = m /\ ckpt'[f] \in Checkpoint
        /\ \A g \in Intact(m) : ckpt[g].version < ckpt'[f].version
    BY <1>2, Published
  <2>2. \A g \in Files \ {f} : ckpt'[g] = ckpt[g] /\ disk'[g] = disk[g]
    BY <1>2, PublishedIntact
  <2>3. \A g \in Files \ {f} : disk[g] = "intact" /\ ckpt[g].mission = m
                                 => ckpt[g].version < ckpt'[f].version /\ ckpt[g].version \in Nat
    BY <2>1 DEF Intact, Typed, TypeOK, Checkpoint
  <2>4. ckpt'[f].version \in Nat
    BY <2>1 DEF Checkpoint
  <2>5. \A g \in Files \ {f} : disk[g] = "intact" /\ ckpt[g].mission = m
                                 => ckpt[g].version # ckpt'[f].version
    BY <2>3, <2>4
  <2> QED BY <2>1, <2>2, <2>5 DEF VersionsDiffer
<1>3. ASSUME NEW f \in Files, Corrupt(f) PROVE VersionsDiffer'
  BY <1>3, CorruptedIntact DEF VersionsDiffer
<1> QED BY <1>1, <1>2, <1>3, DiskSteps

(* Missions registered over their checkpoints stay so.                     *)
LEMMA OverGrows == [Next]_vars => over \subseteq over'
BY DEF Next, vars, onDisk, history, Register, Transition, ConfirmNotOk, Work, OfFile, Save,
       CrashInSave, Restore, Resume, ConfirmOk, Crash, TimePasses, Corrupt

LEMMA NextOrdered == Typed /\ VerifiedKept /\ Ordered /\ [Next]_vars => Ordered'
<1> SUFFICES ASSUME Typed, VerifiedKept, Ordered, [Next]_vars,
                    NEW n \in Missions \ over', NEW g \in Intact(n)', NEW h \in Intact(n)',
                    ckpt'[g].version <= ckpt'[h].version
             PROVE  ckpt'[g].verified \subseteq ckpt'[h].verified
  BY DEF Ordered
<1>0. n \in Missions \ over
  BY OverGrows
<1>1. CASE UNCHANGED onDisk
  BY <1>0, <1>1 DEF onDisk, Ordered, Intact
<1>2. ASSUME NEW m \in Missions, NEW f \in Files, Publish(m, f)
      PROVE  ckpt'[g].verified \subseteq ckpt'[h].verified
  <2>1. /\ \A k \in Intact(m) : ckpt[k].version < ckpt'[f].version
        /\ ckpt'[f].verified = known[m] /\ ckpt'[f] \in Checkpoint
        /\ state[m] \in Active
    BY <1>2, Published
  <2>2. /\ f \notin Intact(m) /\ Intact(m)' = Intact(m) \cup {f}
        /\ \A k \in Missions \ {m} : Intact(k)' = Intact(k)
        /\ \A k \in Files \ {f} : ckpt'[k] = ckpt[k]
        /\ f \notin Intact(n)
    BY <1>2, PublishedIntact, Published DEF Intact
  <2>3. CASE g # f /\ h # f
    <3>1. g \in Intact(n) /\ h \in Intact(n) /\ ckpt'[g] = ckpt[g] /\ ckpt'[h] = ckpt[h]
      BY <2>2, <2>3 DEF Intact
    <3> QED BY <1>0, <3>1 DEF Ordered
  <2>4. CASE g # f /\ h = f
    <3>1. n = m /\ g \in Intact(m) /\ ckpt'[g] = ckpt[g]
      BY <2>2, <2>4 DEF Intact
    <3> QED BY <1>0, <2>1, <2>4, <3>1 DEF VerifiedKept
  <2>5. CASE g = f /\ h # f
    <3>1. n = m /\ h \in Intact(m) /\ ckpt'[h] = ckpt[h]
      BY <2>2, <2>5 DEF Intact
    <3>2. ckpt[h].version < ckpt'[f].version
      BY <2>1, <3>1
    <3>3. ckpt[h].version \in Nat /\ ckpt'[f].version \in Nat
      BY <2>1, <3>1 DEF Typed, TypeOK, Intact, Checkpoint
    <3> QED BY <2>5, <3>1, <3>2, <3>3
  <2> QED BY <2>3, <2>4, <2>5
<1>3. ASSUME NEW f \in Files, Corrupt(f)
      PROVE  ckpt'[g].verified \subseteq ckpt'[h].verified
  <2>1. /\ Intact(n)' = Intact(n) \ {f}
        /\ \A k \in Files \ {f} : ckpt'[k] = ckpt[k]
    BY <1>3, CorruptedIntact
  <2>2. g \in Intact(n) /\ h \in Intact(n) /\ ckpt'[g] = ckpt[g] /\ ckpt'[h] = ckpt[h]
    BY <2>1 DEF Intact
  <2> QED BY <1>0, <2>2 DEF Ordered
<1> QED BY <1>1, <1>2, <1>3, DiskSteps

(***************************************************************************)
(* A mission takes over the newest checkpoint's steps, which are those of  *)
(* all its checkpoints.                                                    *)
(***************************************************************************)
LEMMA NewestHoldsAll ==
  ASSUME Ordered, NEW m \in Missions \ over, NEW f \in Newest(m), NEW g \in Intact(m)
  PROVE  ckpt[g].verified \subseteq ckpt[f].verified
BY DEF Ordered, Newest

(* What a step that leaves the files alone does to a mission.               *)
MissionStep(m) ==
  \/ state'[m] = state[m] /\ known[m] \subseteq known'[m] /\ basis'[m] = basis[m]
  \/ state'[m] \notin Active \cup {"RECOVERING"}
  \/ state[m] \in Active /\ state'[m] = "RUNNING" /\ known'[m] = known[m]
  \/ state[m] = "unknown" /\ state'[m] = "RUNNING" /\ (Intact(m) # {} => m \in over')
  \/ \E f \in Newest(m) : state'[m] \in {"CHECKPOINTED", "RESUMED"} /\ known'[m] = ckpt[f].verified
  \/ \E f \in Newest(m) : state'[m] = "RECOVERING" /\ basis'[m] = f

LEMMA MissionSteps ==
  ASSUME Typed, [Next]_vars, UNCHANGED onDisk, NEW m \in Missions
  PROVE  MissionStep(m)
<1> USE DEF Typed, TypeOK, MissionStep
<1>1. ASSUME NEW n \in Missions, Register(n) PROVE MissionStep(m)
  <2>1. CASE n = m
    BY <1>1, <2>1 DEF Register, Intact
  <2>2. CASE n # m
    BY <1>1, <2>2 DEF Register
  <2> QED BY <2>1, <2>2
<1>2. ASSUME NEW n \in Missions, Transition(n) PROVE MissionStep(m)
  <2>1. CASE n = m
    <3>1. state'[m] \in {"RUNNING", "COMPLETED", "FAILED", "ABORTED"} \cap Legal(state[m])
          /\ known' = known
      BY <1>2, <2>1 DEF Transition
    <3>2. state'[m] = "RUNNING" => state[m] \in Active
      BY <3>1 DEF Legal, Ended, Active, States
    <3> QED BY <3>1, <3>2 DEF Active
  <2>2. CASE n # m
    BY <1>2, <2>2 DEF Transition
  <2> QED BY <2>1, <2>2
<1>3. ASSUME NEW n \in Missions, ConfirmNotOk(n) PROVE MissionStep(m)
  BY <1>3 DEF ConfirmNotOk, Active
<1>4. ASSUME NEW n \in Missions, NEW s \in Steps, Work(n, s) PROVE MissionStep(m)
  BY <1>4 DEF Work, history
<1>5. ASSUME NEW n \in Missions, NEW f \in Files, OfFile(n, f) PROVE MissionStep(m)
  <2>1. CASE Save(n, f) \/ CrashInSave(n, f)
    <3>1. disk'[f] # disk[f]
      BY <2>1, Published DEF Save, CrashInSave
    <3> QED BY <3>1 DEF onDisk
  <2>2. CASE Restore(n, f)
    BY <2>2 DEF Restore, history, Active
  <2>3. CASE Resume(n, f)
    <3>1. PICK tripped, sameHead, sameWorld \in BOOLEAN :
            LET next == Gate(f, tripped, sameHead, sameWorld) IN
            /\ state' = [state EXCEPT ![n] = next]
            /\ known' = IF next = "RESUMED" THEN [known EXCEPT ![n] = ckpt[f].verified] ELSE known
            /\ basis' = [basis EXCEPT ![n] = IF next \in {"RESUMED", "RECOVERING"} THEN f ELSE None]
      BY <2>3 DEF Resume
    <3>2. Gate(f, tripped, sameHead, sameWorld) \in {"FAILED", "ABORTED", "RECOVERING", "RESUMED"}
      BY GateStates
    <3>3. f \in Newest(n)
      BY <2>3 DEF Resume
    <3>4. CASE n = m
      <4> DEFINE next == Gate(f, tripped, sameHead, sameWorld)
      <4>1. state'[m] = next /\ (next = "RESUMED" => known'[m] = ckpt[f].verified)
            /\ (next = "RECOVERING" => basis'[m] = f)
        BY <3>1, <3>4
      <4> HIDE DEF next
      <4>2. next \in {"FAILED", "ABORTED", "RECOVERING", "RESUMED"}
        BY <3>2 DEF next
      <4> QED BY <3>3, <3>4, <4>1, <4>2 DEF Active
    <3>5. CASE n # m
      BY <3>1, <3>5
    <3> QED BY <3>4, <3>5
  <2>4. CASE ConfirmOk(n, f)
    BY <2>4 DEF ConfirmOk, Active
  <2> QED BY <1>5, <2>1, <2>2, <2>3, <2>4 DEF OfFile
<1>6. ASSUME Crash \/ TimePasses \/ UNCHANGED vars PROVE MissionStep(m)
  BY <1>6 DEF Crash, Forget, TimePasses, vars, history, Active
<1>7. ASSUME NEW f \in Files, Corrupt(f) PROVE MissionStep(m)
  BY <1>7 DEF Corrupt, history
<1>8. MissionStep(m)
  BY <1>1, <1>2, <1>3, <1>4, <1>5, <1>6, <1>7 DEF Next
<1> QED BY <1>8

(* A step that publishes a checkpoint acknowledges it or is the last.      *)
LEMMA PublishSteps ==
  ASSUME Typed, [Next]_vars, NEW m \in Missions, NEW f \in Files, Publish(m, f)
  PROVE  \/ Forget
         \/ /\ state' = [state EXCEPT ![m] = "CHECKPOINTED"]
            /\ basis' = [basis EXCEPT ![m] = None]
            /\ known' = known
<1>1. f \in Files /\ disk[f] = "absent" /\ disk'[f] = "intact"
  BY Published DEF Typed, TypeOK
<1>2. disk' # disk
  BY <1>1
<1>3. ASSUME NEW g \in Files, Corrupt(g) PROVE FALSE
  BY <1>1, <1>3, CorruptedIntact
<1>4. PICK n \in Missions, g \in Files : Save(n, g) \/ CrashInSave(n, g)
  BY <1>2, <1>3 DEF Next, vars, onDisk, history, Register, Transition, ConfirmNotOk, Work,
       OfFile, Restore, Resume, ConfirmOk, Crash, TimePasses
<1>5. CASE CrashInSave(n, g)
  BY <1>5 DEF CrashInSave
<1>6. CASE Save(n, g)
  <2>1. Publish(n, g)
    BY <1>6 DEF Save
  <2>2. g = f
    BY <1>1, <2>1, Published DEF Typed, TypeOK
  <2>3. n = m
    BY <2>1, <2>2, Published
  <2> QED BY <1>6, <2>2, <2>3 DEF Save
<1> QED BY <1>4, <1>5, <1>6

LEMMA NextVerifiedKept ==
  Typed /\ Ordered /\ VerifiedKept /\ [Next]_vars => VerifiedKept'
<1> SUFFICES ASSUME Typed, Ordered, VerifiedKept, [Next]_vars,
                    NEW n \in Missions \ over', state'[n] \in Active, NEW g \in Intact(n)'
             PROVE  ckpt'[g].verified \subseteq known'[n]
  BY DEF VerifiedKept
<1>0. n \in Missions \ over
  BY OverGrows
<1>1. CASE UNCHANGED onDisk
  <2>1. g \in Intact(n) /\ ckpt'[g] = ckpt[g]
    BY <1>1 DEF onDisk, Intact
  <2>2. MissionStep(n)
    BY <1>0, <1>1, MissionSteps
  <2>3. ASSUME NEW f \in Newest(n), known'[n] = ckpt[f].verified
        PROVE  ckpt[g].verified \subseteq known'[n]
    BY <1>0, <2>1, <2>3, NewestHoldsAll
  <2>4. state[n] \in Active => ckpt[g].verified \subseteq known[n]
    BY <1>0, <2>1 DEF VerifiedKept
  <2>5. "RECOVERING" \notin Active
    BY DEF Active
  <2> QED BY <2>1, <2>2, <2>3, <2>4, <2>5 DEF MissionStep
<1>2. ASSUME NEW m \in Missions, NEW f \in Files, Publish(m, f)
      PROVE  ckpt'[g].verified \subseteq known'[n]
  <2>1. CASE Forget
    BY <2>1 DEF Forget, Active
  <2>2. CASE state' = [state EXCEPT ![m] = "CHECKPOINTED"] /\ known' = known
    <3>1. /\ state[m] \in Active /\ ckpt'[f].verified = known[m] /\ ckpt'[f].mission = m
          /\ \A k \in Files \ {f} : ckpt'[k] = ckpt[k] /\ disk'[k] = disk[k]
      BY <1>2, Published, PublishedIntact
    <3>2. state[n] \in Active
      BY <2>2, <3>1 DEF Typed, TypeOK
    <3>3. CASE g = f
      BY <2>2, <3>1, <3>3 DEF Intact
    <3>4. CASE g # f
      BY <1>0, <2>2, <3>1, <3>2, <3>4 DEF Intact, VerifiedKept
    <3> QED BY <3>3, <3>4
  <2> QED BY <1>2, <2>1, <2>2, PublishSteps
<1>3. ASSUME NEW f \in Files, Corrupt(f)
      PROVE  ckpt'[g].verified \subseteq known'[n]
  <2>1. g \in Intact(n) /\ ckpt'[g] = ckpt[g]
    BY <1>3, CorruptedIntact DEF Intact
  <2>2. state' = state /\ known' = known
    BY <1>3 DEF Corrupt
  <2> QED BY <1>0, <2>1, <2>2 DEF VerifiedKept
<1> QED BY <1>1, <1>2, <1>3, DiskSteps

LEMMA NextBacked == Typed /\ CheckpointedIsBacked /\ [Next]_vars => CheckpointedIsBacked'
<1> SUFFICES ASSUME Typed, CheckpointedIsBacked, [Next]_vars,
                    NEW n \in Missions, state'[n] = "CHECKPOINTED"
             PROVE  \E g \in Files : disk'[g] # "absent" /\ ckpt'[g].mission = n
  BY DEF CheckpointedIsBacked
<1> DEFINE Backed == \E g \in Files : disk'[g] # "absent" /\ ckpt'[g].mission = n
<1>1. CASE UNCHANGED onDisk
  <2>1. MissionStep(n)
    BY <1>1, MissionSteps
  <2>2. ASSUME state[n] = "CHECKPOINTED" PROVE Backed
    BY <1>1, <2>2 DEF onDisk, CheckpointedIsBacked
  <2>3. ASSUME NEW f \in Newest(n) PROVE Backed
    BY <1>1 DEF onDisk, Newest, Intact
  <2> QED BY <2>1, <2>2, <2>3 DEF MissionStep, Active
<1>2. ASSUME NEW m \in Missions, NEW f \in Files, Publish(m, f) PROVE Backed
  <2>1. CASE Forget
    BY <2>1 DEF Forget
  <2>2. CASE state' = [state EXCEPT ![m] = "CHECKPOINTED"]
    <3>1. /\ disk[f] = "absent" /\ disk' = [disk EXCEPT ![f] = "intact"] /\ ckpt'[f].mission = m
          /\ \A k \in Files \ {f} : ckpt'[k] = ckpt[k] /\ disk'[k] = disk[k]
      BY <1>2, Published, PublishedIntact
    <3>2. CASE n = m
      BY <3>1, <3>2 DEF Typed, TypeOK
    <3>3. CASE n # m
      <4>1. state[n] = "CHECKPOINTED"
        BY <2>2, <3>3 DEF Typed, TypeOK
      <4> QED BY <3>1, <4>1 DEF CheckpointedIsBacked
    <3> QED BY <3>2, <3>3
  <2> QED BY <1>2, <2>1, <2>2, PublishSteps
<1>3. ASSUME NEW f \in Files, Corrupt(f) PROVE Backed
  <2>1. state' = state
    BY <1>3 DEF Corrupt
  <2>2. PICK g \in Files : disk[g] # "absent" /\ ckpt[g].mission = n
    BY <2>1 DEF CheckpointedIsBacked
  <2>3. disk'[g] # "absent" /\ ckpt'[g].mission = n
    BY <1>3, <2>2, CorruptedIntact
  <2> QED BY <2>3
<1> QED BY <1>1, <1>2, <1>3, DiskSteps

LEMMA NextResting == Typed /\ Resting /\ [Next]_vars => Resting'
<1> SUFFICES ASSUME Typed, Resting, [Next]_vars,
                    NEW n \in Missions, state'[n] = "RECOVERING"
             PROVE  /\ basis'[n] \in Files
                    /\ basis'[n] \in Newest(n)' \/ disk'[basis'[n]] = "corrupt"
  BY DEF Resting
<1> DEFINE Rests == /\ basis'[n] \in Files
                    /\ basis'[n] \in Newest(n)' \/ disk'[basis'[n]] = "corrupt"
<1>0. state[n] = "RECOVERING" =>
        basis[n] \in Files /\ (basis[n] \in Newest(n) \/ disk[basis[n]] = "corrupt")
  BY DEF Resting
<1>1. CASE UNCHANGED onDisk
  <2>1. MissionStep(n)
    BY <1>1, MissionSteps
  <2>2. Newest(n)' = Newest(n) /\ disk' = disk
    BY <1>1 DEF onDisk, Newest, Intact
  <2>3. Newest(n) \subseteq Files
    BY DEF Newest, Intact
  <2> QED BY <1>0, <2>1, <2>2, <2>3 DEF MissionStep
<1>2. ASSUME NEW m \in Missions, NEW f \in Files, Publish(m, f) PROVE Rests
  <2>1. CASE Forget
    BY <2>1 DEF Forget
  <2>2. CASE state' = [state EXCEPT ![m] = "CHECKPOINTED"] /\ basis' = [basis EXCEPT ![m] = None]
    <3>1. n # m /\ state[n] = "RECOVERING" /\ basis'[n] = basis[n]
      BY <2>2 DEF Typed, TypeOK
    <3>2. /\ disk[f] = "absent" /\ Intact(n)' = Intact(n) /\ f \notin Intact(n)
          /\ \A k \in Files \ {f} : ckpt'[k] = ckpt[k] /\ disk'[k] = disk[k]
      BY <1>2, <3>1, Published, PublishedIntact DEF Intact
    <3>3. Newest(n)' = Newest(n)
      BY <3>2 DEF Newest, Intact
    <3> QED BY <1>0, <3>1, <3>2, <3>3
  <2> QED BY <1>2, <2>1, <2>2, PublishSteps
<1>3. ASSUME NEW f \in Files, Corrupt(f) PROVE Rests
  <2>1. state' = state /\ basis' = basis
    BY <1>3 DEF Corrupt, history
  <2>2. /\ disk'[f] = "corrupt" /\ Intact(n)' = Intact(n) \ {f}
        /\ \A k \in Files \ {f} : ckpt'[k] = ckpt[k] /\ disk'[k] = disk[k]
    BY <1>3, CorruptedIntact
  <2>3. CASE basis[n] = f
    BY <1>0, <2>1, <2>2, <2>3
  <2>4. CASE basis[n] # f /\ basis[n] \in Newest(n)
    BY <1>0, <2>1, <2>2, <2>4 DEF Newest, Intact
  <2>5. CASE basis[n] # f /\ disk[basis[n]] = "corrupt"
    BY <1>0, <2>1, <2>2, <2>5
  <2> QED BY <1>0, <2>1, <2>3, <2>4, <2>5
<1> QED BY <1>1, <1>2, <1>3, DiskSteps

LEMMA NextRecoveryInv == RecoveryInv /\ [Next]_vars => RecoveryInv'
BY NextTyped, NextVersionsDiffer, NextOrdered, NextVerifiedKept, NextBacked, NextResting
   DEF RecoveryInv

-----------------------------------------------------------------------------
(***************************************************************************)
(* The theorems                                                            *)
(***************************************************************************)
(* All parts of the invariant hold in every reachable state.               *)
THEOREM RecoveryInvariant == Spec => []RecoveryInv
<1> QED BY RecoveryInit, NextRecoveryInv, PTL DEF Spec

(* latest() selects one checkpoint: no two readable checkpoints of a       *)
(* mission have the same version, whatever was corrupted and whenever the  *)
(* process died.                                                           *)
THEOREM SelectsOne == Spec => []VersionsDiffer
<1>1. RecoveryInv => VersionsDiffer
  BY DEF RecoveryInv
<1> QED BY <1>1, RecoveryInvariant, PTL

(* No step that a readable checkpoint records as verified is unknown to    *)
(* the mission at work, however it was resumed or adopted.                 *)
THEOREM KeepsVerified == Spec => []VerifiedKept
<1>1. RecoveryInv => VerifiedKept
  BY DEF RecoveryInv
<1> QED BY <1>1, RecoveryInvariant, PTL

(* checkpoint() acknowledges only what it has persisted.                   *)
THEOREM AcknowledgedIsPersisted == Spec => []CheckpointedIsBacked
<1>1. RecoveryInv => CheckpointedIsBacked
  BY DEF RecoveryInv
<1> QED BY <1>1, RecoveryInvariant, PTL

(***************************************************************************)
(* How a mission in recovery, and one that has ended, may be moved         *)
(***************************************************************************)
(* What a step that moves one mission does to another.                     *)
LEMMA MovesOne ==
  ASSUME Typed, [Next]_vars, NEW m \in Missions, state'[m] # state[m]
  PROVE  \/ Forget
         \/ Register(m) \/ Transition(m) \/ ConfirmNotOk(m)
         \/ \E f \in Files : \/ "CHECKPOINTED" \in Legal(state[m])
                             \/ Restore(m, f) \/ Resume(m, f) \/ ConfirmOk(m, f)
<1> DEFINE Goal ==
      \/ Forget
      \/ Register(m) \/ Transition(m) \/ ConfirmNotOk(m)
      \/ \E f \in Files : \/ "CHECKPOINTED" \in Legal(state[m])
                          \/ Restore(m, f) \/ Resume(m, f) \/ ConfirmOk(m, f)
<1> USE DEF Typed, TypeOK
<1>1. ASSUME NEW n \in Missions, Register(n) \/ Transition(n) \/ ConfirmNotOk(n) PROVE Goal
  <2>1. n = m
    BY <1>1 DEF Register, Transition, ConfirmNotOk
  <2> QED BY <1>1, <2>1
<1>2. ASSUME NEW n \in Missions, NEW f \in Files, OfFile(n, f) PROVE Goal
  <2>1. CASE CrashInSave(n, f)
    BY <2>1 DEF CrashInSave
  <2>2. CASE Save(n, f)
    <3>1. n = m
      BY <2>2 DEF Save
    <3> QED BY <2>2, <3>1 DEF Save, Publish
  <2>3. CASE Restore(n, f) \/ Resume(n, f) \/ ConfirmOk(n, f)
    <3>1. n = m
      BY <2>3 DEF Restore, Resume, ConfirmOk
    <3> QED BY <2>3, <3>1
  <2> QED BY <1>2, <2>1, <2>2, <2>3 DEF OfFile
<1>3. CASE state' = state
  BY <1>3
<1>4. CASE Crash
  BY <1>4 DEF Crash
<1>5. (\E f \in Files : Corrupt(f)) \/ (\E n \in Missions, s \in Steps : Work(n, s)) \/ TimePasses
        \/ UNCHANGED vars => state' = state
  BY DEF Corrupt, Work, TimePasses, vars
<1> QED BY <1>1, <1>2, <1>3, <1>4, <1>5 DEF Next

LEMMA NextEndedIsFinal ==
  ASSUME Typed, [Next]_vars, NEW m \in Missions, state[m] \in Ended, state'[m] # state[m]
  PROVE  state'[m] = "unknown" \/ (replay /\ state[m] = "COMPLETED")
<1>1. Legal(state[m]) \subseteq IF state[m] = "COMPLETED" /\ replay THEN {"RECOVERING"} ELSE {}
  BY DEF Legal, Ended
<1>2. state[m] \notin {"unknown", "RECOVERING"}
  BY DEF Ended
<1>3. CASE Forget
  BY <1>3 DEF Forget
<1>4. CASE Transition(m)
  BY <1>1, <1>4 DEF Transition
<1>5. CASE \E f \in Files : "CHECKPOINTED" \in Legal(state[m]) \/ Resume(m, f)
  BY <1>1, <1>2, <1>5 DEF Resume
<1>6. ~Register(m) /\ ~ConfirmNotOk(m) /\ \A f \in Files : ~Restore(m, f) /\ ~ConfirmOk(m, f)
  BY <1>2 DEF Register, ConfirmNotOk, Restore, ConfirmOk
<1> QED BY <1>3, <1>4, <1>5, <1>6, MovesOne

LEMMA NextConfirmedWasGated ==
  ASSUME RecoveryInv, [Next]_vars, NEW m \in Missions,
         state[m] = "RECOVERING", state'[m] = "RESUMED"
  PROVE  basis'[m] = basis[m] \/ disk[basis[m]] = "corrupt"
<1> USE DEF RecoveryInv
<1>1. Legal("RECOVERING") = {"RESUMED", "FAILED", "ABORTED"}
  BY DEF Legal
<1>2. PICK f \in Files : ConfirmOk(m, f)
  <2>1. ~Forget
    BY DEF Forget
  <2>2. ~Register(m) /\ ~Transition(m) /\ ~ConfirmNotOk(m)
    BY DEF Register, Transition, ConfirmNotOk, Typed, TypeOK
  <2>3. \A f \in Files : "CHECKPOINTED" \notin Legal(state[m]) /\ ~Restore(m, f) /\ ~Resume(m, f)
    BY <1>1 DEF Restore, Resume
  <2> QED BY <2>1, <2>2, <2>3, MovesOne
<1>3. f \in Newest(m) /\ basis'[m] = f
  BY <1>2 DEF ConfirmOk, Typed, TypeOK
<1>4. basis[m] \in Newest(m) \/ disk[basis[m]] = "corrupt"
  BY DEF Resting
<1>5. ASSUME basis[m] \in Newest(m) PROVE basis[m] = f
  <2> DEFINE b == basis[m]
  <2>1. b \in Intact(m) /\ f \in Intact(m) /\ ckpt[b].version <= ckpt[f].version
        /\ ckpt[f].version <= ckpt[b].version
    BY <1>3, <1>5 DEF Newest
  <2>2. ckpt[b].version \in Nat /\ ckpt[f].version \in Nat
    BY <2>1 DEF Intact, Typed, TypeOK, Checkpoint
  <2>3. ckpt[b].version = ckpt[f].version
    BY <2>1, <2>2
  <2> QED BY <2>1, <2>3 DEF Intact, VersionsDiffer
<1> QED BY <1>3, <1>4, <1>5

(* A mission that has ended is moved only by replay, or forgotten.         *)
THEOREM EndsForGood == Spec => EndedIsFinal
<1>1. RecoveryInv /\ [Next]_vars =>
        [\A m \in Missions : state[m] \in Ended /\ state'[m] # state[m] =>
           state'[m] = "unknown" \/ (replay /\ state[m] = "COMPLETED")]_vars
  BY NextEndedIsFinal DEF RecoveryInv
<1> QED BY <1>1, RecoveryInvariant, PTL DEF Spec, EndedIsFinal

(* What confirm_reobservation() resumes from passed the gates of resume(), *)
(* unless that very file was corrupted in between.                         *)
THEOREM ConfirmsTheGated == Spec => ConfirmedWasGated
<1>1. RecoveryInv /\ [Next]_vars =>
        [\A m \in Missions : state[m] = "RECOVERING" /\ state'[m] = "RESUMED" =>
           basis'[m] = basis[m] \/ disk[basis[m]] = "corrupt"]_vars
  BY NextConfirmedWasGated
<1> QED BY <1>1, RecoveryInvariant, PTL DEF Spec, ConfirmedWasGated

-----------------------------------------------------------------------------
(***************************************************************************)
(* The audit journal                                                       *)
(***************************************************************************)
Chain == Seq(Logged)
Rows == [content : Logged, hash : Chain, previous : Chain]

AuditTypes ==
  /\ rows \in Seq(Rows)
  /\ drafts \in [Processes -> Seq(Rows)]
  /\ \A p \in Processes : drafts[p] = <<>> \/ \E r \in Rows : drafts[p] = <<r>>

-----------------------------------------------------------------------------
(***************************************************************************)
(* Hashes                                                                  *)
(***************************************************************************)
LEMMA HashType ==
  ASSUME NEW previous \in Chain, NEW content \in Logged
  PROVE  evidence_hash(content, previous) \in Chain /\ evidence_hash(content, previous) # <<>>
<1>1. Append(previous, content) \in Seq(Logged) /\ Len(Append(previous, content)) = Len(previous) + 1
  BY DEF Chain
<1>2. Len(previous) \in Nat /\ Len(<<>>) = 0
  BY LenProperties, EmptySeq DEF Chain
<1>3. Append(previous, content) # <<>>
  BY <1>1, <1>2
<1> QED BY <1>1, <1>3 DEF Chain, evidence_hash

LEMMA HashDetermines ==
  ASSUME NEW previous \in Chain, NEW c \in Logged, NEW d \in Logged,
         evidence_hash(c, previous) = evidence_hash(d, previous)
  PROVE  c = d
<1>1. Append(previous, c)[Len(previous) + 1] = c /\ Append(previous, d)[Len(previous) + 1] = d
  BY DEF Chain
<1> QED BY <1>1 DEF evidence_hash

-----------------------------------------------------------------------------
(***************************************************************************)
(* Types                                                                   *)
(***************************************************************************)
LEMMA LastHashType == AuditTypes => LastHash \in Chain
<1> SUFFICES ASSUME AuditTypes, rows # <<>> PROVE rows[Len(rows)].hash \in Chain
  BY DEF LastHash, Last, Chain
<1>1. Len(rows) \in 1 .. Len(rows)
  BY EmptySeq, LenProperties DEF AuditTypes
<1>2. rows[Len(rows)] \in Rows
  BY <1>1, ElementOfSeq DEF AuditTypes
<1> QED BY <1>2 DEF Rows

LEMMA NextAuditTypes == AuditTypes /\ [AuditNext]_auditVars => AuditTypes'
<1> SUFFICES ASSUME AuditTypes, [AuditNext]_auditVars PROVE AuditTypes'
  OBVIOUS
<1> USE DEF AuditTypes
<1>1. ASSUME NEW p \in Processes, NEW c \in Logged, Draft(p, c) PROVE AuditTypes'
  <2> DEFINE r == Row(c, evidence_hash(c, LastHash), LastHash)
  <2>1. r \in Rows
    BY LastHashType, HashType DEF Row, Rows
  <2>2. rows' = rows /\ drafts' = [drafts EXCEPT ![p] = <<r>>]
    BY <1>1 DEF Draft
  <2> HIDE DEF r
  <2>3. <<r>> \in Seq(Rows)
    BY <2>1
  <2> QED BY <2>1, <2>2, <2>3
<1>2. ASSUME NEW p \in Processes, Insert(p) PROVE AuditTypes'
  <2>1. rows' = rows \o drafts[p] \/ rows' = rows
    BY <1>2 DEF Insert
  <2>2. rows' \in Seq(Rows)
    BY <2>1, ConcatProperties
  <2>3. drafts' = [drafts EXCEPT ![p] = <<>>] /\ <<>> \in Seq(Rows)
    BY <1>2, EmptySeq DEF Insert
  <2> QED BY <2>2, <2>3
<1>3. ASSUME NEW i \in DOMAIN rows, Rewrite(i) PROVE AuditTypes'
  <2>1. i \in 1 .. Len(rows) /\ rows[i] \in Rows
    BY LenProperties, ElementOfSeq
  <2>2. <<>> \in Chain
    BY DEF Chain
  <2>3. \A c \in Logged : [rows[i] EXCEPT !.content = c] \in Rows
    BY <2>1 DEF Rows
  <2>4. [rows[i] EXCEPT !.hash = <<>>, !.previous = <<>>] \in Rows
    BY <2>1, <2>2 DEF Rows
  <2>5. PICK e \in Rows : rows' = [rows EXCEPT ![i] = e]
    BY <1>3, <2>1, <2>3, <2>4 DEF Rewrite
  <2>6. rows' \in Seq(Rows) /\ drafts' = drafts
    BY <1>3, <2>1, <2>5, ExceptSeq DEF Rewrite
  <2> QED BY <2>6
<1>4. ASSUME NEW i \in DOMAIN rows, Delete(i) PROVE AuditTypes'
  <2>1. i \in 1 .. Len(rows) /\ Len(rows) \in Nat
    BY LenProperties
  <2>2. SubSeq(rows, 1, i - 1) \in Seq(Rows)
    BY <2>1, SubSeqProperties, ElementOfSeq
  <2>3. SubSeq(rows, i + 1, Len(rows)) \in Seq(Rows)
    BY <2>1, SubSeqProperties, ElementOfSeq
  <2>4. rows' \in Seq(Rows) /\ drafts' = drafts
    BY <1>4, <2>2, <2>3, ConcatProperties DEF Delete, RemoveAt
  <2> QED BY <2>4
<1>5. CASE UNCHANGED auditVars
  BY <1>5 DEF auditVars
<1> QED BY <1>1, <1>2, <1>3, <1>4, <1>5 DEF AuditNext

-----------------------------------------------------------------------------
(***************************************************************************)
(* What log() writes                                                       *)
(***************************************************************************)
Untouched == altered = {} /\ lost = {}

(* A row as log() made it, linked into a journal.                          *)
SoundIn(r, journal) ==
  /\ r.hash = evidence_hash(r.content, r.previous)
  /\ r.previous = <<>> \/ \E j \in DOMAIN journal : journal[j].hash = r.previous /\ r.previous # <<>>

Written ==
  Untouched =>
    /\ \A i \in DOMAIN rows : SoundIn(rows[i], rows)
    /\ \A p \in Processes : drafts[p] # <<>> => SoundIn(drafts[p][1], rows)

(* The traces a change leaves.                                             *)
Traces ==
  /\ altered = {} \/ lost = {}
  /\ \A i \in altered : i \in DOMAIN rows /\ rows[i].hash # evidence_hash(rows[i].content, rows[i].previous)
  /\ \A r \in lost : r.hash # <<>>

JournalInv == AuditTypes /\ Written /\ Traces

LEMMA InitJournal == AuditInit => JournalInv
BY EmptySeq DEF AuditInit, JournalInv, AuditTypes, Written, Traces

(* Rows are only added.                                                    *)
LEMMA StaysSound ==
  ASSUME NEW r, NEW journal \in Seq(Rows), NEW more \in Seq(Rows), SoundIn(r, journal)
  PROVE  SoundIn(r, journal \o more)
<1>1. \A j \in DOMAIN journal : j \in DOMAIN (journal \o more) /\ (journal \o more)[j] = journal[j]
  BY ConcatProperties, LenProperties
<1> QED BY <1>1 DEF SoundIn

LEMMA NextWritten == JournalInv /\ [AuditNext]_auditVars => Written'
<1> SUFFICES ASSUME JournalInv, [AuditNext]_auditVars, Untouched' PROVE
      /\ \A i \in DOMAIN rows' : SoundIn(rows'[i], rows')
      /\ \A p \in Processes : drafts'[p] # <<>> => SoundIn(drafts'[p][1], rows')
  BY DEF Written
<1> DEFINE Goal == /\ \A i \in DOMAIN rows' : SoundIn(rows'[i], rows')
                   /\ \A p \in Processes : drafts'[p] # <<>> => SoundIn(drafts'[p][1], rows')
<1> USE DEF JournalInv, AuditTypes
<1>1. ASSUME Untouched PROVE /\ \A i \in DOMAIN rows : SoundIn(rows[i], rows)
                             /\ \A p \in Processes : drafts[p] # <<>> => SoundIn(drafts[p][1], rows)
  BY <1>1 DEF Written
<1>2. ASSUME NEW p \in Processes, NEW c \in Logged, Draft(p, c) PROVE Goal
  <2> DEFINE r == Row(c, evidence_hash(c, LastHash), LastHash)
  <2>1. Untouched /\ rows' = rows /\ drafts' = [drafts EXCEPT ![p] = <<r>>]
    BY <1>2 DEF Draft, Untouched
  <2>2. SoundIn(r, rows)
    <3>1. r.hash = evidence_hash(c, LastHash) /\ r.previous = LastHash /\ r.content = c
      BY DEF Row
    <3>2. CASE rows = <<>>
      BY <3>1, <3>2 DEF SoundIn, LastHash
    <3>3. CASE rows # <<>>
      <4>1. Len(rows) \in DOMAIN rows /\ rows[Len(rows)].hash = LastHash
        BY <3>3, EmptySeq, LenProperties DEF LastHash, Last
      <4> QED BY <3>1, <4>1 DEF SoundIn
    <3> QED BY <3>2, <3>3
  <2> HIDE DEF r
  <2>3. \A q \in Processes : drafts'[q] = IF q = p THEN <<r>> ELSE drafts[q]
    BY <2>1
  <2>4. <<r>>[1] = r
    OBVIOUS
  <2> QED BY <1>1, <2>1, <2>2, <2>3, <2>4
<1>3. ASSUME NEW p \in Processes, Insert(p) PROVE Goal
  <2>1. Untouched /\ drafts[p] # <<>> /\ drafts' = [drafts EXCEPT ![p] = <<>>]
    BY <1>3 DEF Insert, Untouched
  <2>2. \A q \in Processes : drafts'[q] = IF q = p THEN <<>> ELSE drafts[q]
    BY <2>1
  <2>3. CASE rows' = rows
    BY <1>1, <2>1, <2>2, <2>3
  <2>4. CASE rows' = rows \o drafts[p]
    <3>1. PICK r \in Rows : drafts[p] = <<r>>
      BY <2>1
    <3>2. <<r>> \in Seq(Rows) /\ Len(<<r>>) = 1 /\ <<r>>[1] = r
      OBVIOUS
    <3>3. SoundIn(r, rows)
      BY <1>1, <2>1, <3>1, <3>2
    <3>4. /\ Len(rows') = Len(rows) + 1 /\ rows' \in Seq(Rows)
          /\ \A i \in 1 .. Len(rows) + 1 : rows'[i] = IF i <= Len(rows) THEN rows[i] ELSE <<r>>[i - Len(rows)]
      BY <2>4, <3>1, <3>2, ConcatProperties
    <3>5. Len(rows) \in Nat /\ DOMAIN rows = 1 .. Len(rows) /\ DOMAIN rows' = 1 .. Len(rows) + 1
      BY <3>4, LenProperties
    <3>6. \A i \in DOMAIN rows' : (i \in DOMAIN rows /\ rows'[i] = rows[i]) \/ rows'[i] = r
      <4>1. TAKE i \in DOMAIN rows'
      <4>2. CASE i <= Len(rows)
        BY <3>4, <3>5, <4>2
      <4>3. CASE ~(i <= Len(rows))
        <5>1. i = Len(rows) + 1 /\ i - Len(rows) = 1
          BY <3>5, <4>3
        <5> QED BY <3>2, <3>4, <3>5, <4>3, <5>1
      <4> QED BY <4>2, <4>3
    <3>7. \A s : SoundIn(s, rows) => SoundIn(s, rows')
      BY <2>4, <3>1, <3>2, StaysSound
    <3>8. \A i \in DOMAIN rows' : SoundIn(rows'[i], rows')
      BY <1>1, <2>1, <3>3, <3>6, <3>7
    <3> QED BY <1>1, <2>1, <2>2, <3>7, <3>8
  <2> QED BY <1>3, <2>3, <2>4 DEF Insert
<1>4. ASSUME NEW i \in DOMAIN rows, Rewrite(i) \/ Delete(i) PROVE FALSE
  BY <1>4 DEF Rewrite, Delete, Untouched
<1>5. CASE UNCHANGED auditVars
  BY <1>1, <1>5 DEF auditVars, Untouched
<1> QED BY <1>2, <1>3, <1>4, <1>5 DEF AuditNext

LEMMA NextTraces == JournalInv /\ [AuditNext]_auditVars => Traces'
<1> SUFFICES ASSUME JournalInv, [AuditNext]_auditVars PROVE Traces'
  OBVIOUS
<1> USE DEF JournalInv, AuditTypes
<1>1. ASSUME NEW p \in Processes, Insert(p) PROVE Traces'
  <2>1. UNCHANGED <<altered, lost>>
    BY <1>1 DEF Insert
  <2>2. \A i \in DOMAIN rows : i \in DOMAIN rows' /\ rows'[i] = rows[i]
    <3>1. CASE rows' = rows
      BY <3>1
    <3>2. CASE rows' = rows \o drafts[p]
      BY <3>2, ConcatProperties, LenProperties
    <3> QED BY <1>1, <3>1, <3>2 DEF Insert
  <2> QED BY <2>1, <2>2 DEF Traces
<1>2. ASSUME NEW i \in DOMAIN rows, Rewrite(i) PROVE Traces'
  <2>1. i \in 1 .. Len(rows) /\ rows[i] \in Rows
    BY LenProperties, ElementOfSeq
  <2>2. rows[i].content \in Logged /\ rows[i].previous \in Chain /\ <<>> \in Chain
    BY <2>1 DEF Rows, Chain
  <2>3. Untouched /\ altered' = {i} /\ lost' = {}
    BY <1>2 DEF Rewrite, Untouched
  <2>4. rows[i].hash = evidence_hash(rows[i].content, rows[i].previous)
    BY <2>3 DEF Written, SoundIn
  <2>5. i \in DOMAIN rows' /\ rows'[i].hash # evidence_hash(rows'[i].content, rows'[i].previous)
    <3>1. ASSUME NEW c \in Logged \ {rows[i].content}, rows' = [rows EXCEPT ![i].content = c]
          PROVE  i \in DOMAIN rows' /\ rows'[i].hash # evidence_hash(rows'[i].content, rows'[i].previous)
      <4>1. rows' = [rows EXCEPT ![i] = [rows[i] EXCEPT !.content = c]]
        BY <3>1
      <4>2. /\ rows'[i].content = c /\ rows'[i].hash = rows[i].hash
            /\ rows'[i].previous = rows[i].previous /\ i \in DOMAIN rows'
        BY <2>1, <4>1, LenProperties DEF Rows
      <4>3. evidence_hash(c, rows[i].previous) # evidence_hash(rows[i].content, rows[i].previous)
        BY <2>2, <3>1, HashDetermines
      <4> QED BY <2>4, <4>2, <4>3
    <3>2. ASSUME rows' = [rows EXCEPT ![i].hash = <<>>, ![i].previous = <<>>]
          PROVE  i \in DOMAIN rows' /\ rows'[i].hash # evidence_hash(rows'[i].content, rows'[i].previous)
      <4>1. rows' = [rows EXCEPT ![i] = [rows[i] EXCEPT !.hash = <<>>, !.previous = <<>>]]
        BY <2>1, <3>2, LenProperties
      <4>2. /\ rows'[i].content = rows[i].content /\ rows'[i].hash = <<>>
            /\ rows'[i].previous = <<>> /\ i \in DOMAIN rows'
        BY <2>1, <4>1, LenProperties DEF Rows
      <4> QED BY <2>2, <4>2, HashType
    <3> QED BY <1>2, <3>1, <3>2 DEF Rewrite
  <2> QED BY <2>3, <2>5 DEF Traces
<1>3. ASSUME NEW i \in DOMAIN rows, Delete(i) PROVE Traces'
  <2>1. Untouched /\ lost' = {rows[i]} /\ altered' = {}
    BY <1>3 DEF Delete, Untouched
  <2>2. rows[i] \in Rows /\ rows[i].hash = evidence_hash(rows[i].content, rows[i].previous)
    BY <2>1, LenProperties, ElementOfSeq DEF Written, SoundIn
  <2>3. rows[i].hash # <<>>
    BY <2>2, HashType DEF Rows
  <2> QED BY <2>1, <2>3 DEF Traces
<1>4. ASSUME NEW p \in Processes, NEW c \in Logged, Draft(p, c) PROVE Traces'
  BY <1>4 DEF Draft, Traces
<1>5. CASE UNCHANGED auditVars
  BY <1>5 DEF auditVars, Traces
<1> QED BY <1>1, <1>2, <1>3, <1>4, <1>5 DEF AuditNext

-----------------------------------------------------------------------------
(***************************************************************************)
(* What the readers are told                                               *)
(***************************************************************************)
LEMMA NoAlarm == JournalInv => NoFalseAlarm
<1> SUFFICES ASSUME JournalInv, Untouched, NEW f \in Filters, NEW n \in Limits
             PROVE  Valid(f, n) /\ Anchored(f, n)
  BY DEF NoFalseAlarm, Untouched
<1>1. \A i \in DOMAIN rows : /\ Linked(rows[i].previous, f)
                             /\ rows[i].hash = evidence_hash(rows[i].content, rows[i].previous)
  BY DEF JournalInv, Written, SoundIn, Linked, Hashes
<1>2. Verified(f, n) \subseteq DOMAIN rows
  BY DEF Verified, Matching
<1> QED BY <1>1, <1>2 DEF Valid, Anchored

(* All that fits the limit is verified.                                    *)
LEMMA AllVerified ==
  ASSUME AuditTypes, NEW f, NEW n \in Nat, Cardinality(Matching(f)) <= n
  PROVE  Verified(f, n) = Matching(f) /\ get_audit(f, n) = Matching(f)
<1> DEFINE M == Matching(f)
<1>1. IsFiniteSet(DOMAIN rows) /\ DOMAIN rows \subseteq Nat
  <2>1. DOMAIN rows = 1 .. Len(rows) /\ Len(rows) \in Nat
    BY LenProperties DEF AuditTypes
  <2> QED BY <2>1, FS_Interval
<1>2. IsFiniteSet(M) /\ M \subseteq Nat
  BY <1>1, FS_Subset DEF Matching
<1>3. ASSUME NEW i \in M, NEW S \in SUBSET (M \ {i}) PROVE Cardinality(S) < n
  <2>1. IsFiniteSet(M \ {i}) /\ Cardinality(M \ {i}) = Cardinality(M) - 1
    BY <1>2, FS_RemoveElement
  <2>2. IsFiniteSet(S) /\ Cardinality(S) <= Cardinality(M \ {i})
    BY <2>1, FS_Subset
  <2>3. Cardinality(S) \in Nat /\ Cardinality(M) \in Nat /\ Cardinality(M \ {i}) \in Nat
    BY <1>2, <2>1, <2>2, FS_CardinalityType
  <2>4. Cardinality(M) <= n
    OBVIOUS
  <2> HIDE DEF M
  <2> QED BY <2>1, <2>2, <2>3, <2>4
<1>4. \A i \in M : {j \in M : j < i} \subseteq M \ {i} /\ {j \in M : j > i} \subseteq M \ {i}
  BY <1>2
<1> QED BY <1>3, <1>4 DEF Verified, get_audit

LEMMA Noticed == JournalInv => ChangesNoticed
<1> SUFFICES ASSUME JournalInv, NEW f \in Filters, NEW n \in Limits,
                    Valid(f, n), Cardinality(Matching(f)) <= n
             PROVE  /\ get_audit(f, n) \cap altered = {}
                    /\ \A row \in lost, i \in get_audit(f, n) :
                         rows[i].previous = row.hash => \E j \in DOMAIN rows : rows[j].hash = row.hash
  BY DEF ChangesNoticed, Evidence
<1>1. get_audit(f, n) = Verified(f, n)
  BY AllVerified, AuditAssumption DEF JournalInv
<1>2. \A i \in get_audit(f, n) :
        /\ Linked(rows[i].previous, f)
        /\ rows[i].hash = evidence_hash(rows[i].content, rows[i].previous)
  BY <1>1 DEF Valid
<1>3. get_audit(f, n) \cap altered = {}
  BY <1>2 DEF JournalInv, Traces
<1>4. ASSUME NEW row \in lost, NEW i \in get_audit(f, n), rows[i].previous = row.hash
      PROVE  \E j \in DOMAIN rows : rows[j].hash = row.hash
  <2>1. row.hash # <<>>
    BY DEF JournalInv, Traces
  <2> QED BY <1>2, <1>4, <2>1 DEF Linked, Hashes
<1> QED BY <1>3, <1>4

(* Whatever is verified and fits the limit is what log() wrote, and what   *)
(* only log() wrote is verified, for any interleaving of processes.        *)
THEOREM JournalTells == AuditSpec => []AuditSound
<1>1. JournalInv /\ [AuditNext]_auditVars => JournalInv'
  BY NextAuditTypes, NextWritten, NextTraces DEF JournalInv
<1>2. JournalInv => AuditSound
  BY NoAlarm, Noticed DEF AuditSound
<1> QED BY <1>1, <1>2, InitJournal, PTL DEF AuditSpec

===================================================================================
