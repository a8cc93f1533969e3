-------------------------------- MODULE Recovery --------------------------------
(***************************************************************************)
(* Checkpoints and recovery of missions: nimna/execution/recovery.py.      *)
(*                                                                         *)
(* Checkpoints are files; the states of missions are in memory only and a  *)
(* crash of the process loses them.  A checkpoint keeps the steps its      *)
(* owner had completed and verified, the authorization it held, whether it *)
(* may be resumed from, and a version.  Fingerprints and evidence heads    *)
(* matter only as equal or not to what resume() is given.  The owner of a  *)
(* mission, who does its steps, is external.                               *)
(***************************************************************************)
EXTENDS Naturals

CONSTANTS
  Missions, Steps,
  Files,         \* names of checkpoint files
  None,          \* no file, no mission
  Permits,       \* what checkpoints may say of their resumption (see Permit)
  MaxVersion     \* bound: versions of checkpoints

(***************************************************************************)
(* "none": not resumable, the first gate, so that its authorization does   *)
(* not matter.  "revoked" also stands for an expires_at that is malformed. *)
(***************************************************************************)
Permit == {"none", "revoked", "granted", "lapses"}

ASSUME RecoveryAssumption == None \notin Files \cup Missions /\ MaxVersion \in Nat /\ Permits \subseteq Permit

VARIABLES
  replay,   \* allow_replay of the manager
  state,    \* _state; "unknown" for a mission the manager has not met
  disk,     \* [Files -> "absent", "intact" or "corrupt"]
  ckpt,     \* what each file says
  late,     \* an authorization that lapses has lapsed
  known,    \* the steps the owner holds to be completed and verified
  basis,    \* history: the checkpoint a mission in recovery, or resumed, rests on
  over      \* history: missions registered although a checkpoint of theirs existed

vars == <<replay, state, disk, ckpt, late, known, basis, over>>
onDisk == <<disk, ckpt>>
history == <<basis, over>>

Ended == {"COMPLETED", "ABORTED"}
States == {"RUNNING", "CHECKPOINTED", "FAILED", "RECOVERING", "RESUMED"} \cup Ended
Active == {"RUNNING", "CHECKPOINTED", "RESUMED"}

Checkpoint == [mission : Missions \cup {None}, version : Nat, permit : Permit, verified : SUBSET Steps]

Blank == [mission |-> None, version |-> 0, permit |-> "none", verified |-> {}]

TypeOK ==
  /\ replay \in BOOLEAN /\ late \in BOOLEAN
  /\ state \in [Missions -> States \cup {"unknown"}]
  /\ disk \in [Files -> {"absent", "intact", "corrupt"}]
  /\ ckpt \in [Files -> Checkpoint]
  /\ known \in [Missions -> SUBSET Steps]
  /\ basis \in [Missions -> Files \cup {None}]
  /\ over \subseteq Missions

(***************************************************************************)
(* The store                                                               *)
(***************************************************************************)
Intact(m) == {f \in Files : disk[f] = "intact" /\ ckpt[f].mission = m}

(* Mutant: the first file of the mission that can be read is selected. *)
AnyIntact(m) == Intact(m)

(* What latest() selects. *)
Newest(m) == {f \in Intact(m) : \A g \in Intact(m) : ckpt[g].version <= ckpt[f].version}

(***************************************************************************)
(* latest() raises CorruptedCheckpoint only if no file of any mission is   *)
(* intact; with an intact file of another mission it raises                *)
(* MissingCheckpoint.                                                      *)
(***************************************************************************)
Unreadable ==
  /\ \E f \in Files : disk[f] # "absent"
  /\ \A f \in Files : disk[f] # "intact"

(* Mutant: versions start again at one. *)
NextVersionFirst(m) == 1

NextVersion(m) ==
  IF Intact(m) = {} THEN 1 ELSE 1 + (CHOOSE v \in {ckpt[f].version : f \in Newest(m)} : TRUE)

(***************************************************************************)
(* The state machine                                                       *)
(***************************************************************************)
(* Mutant: what has ended may be recovered. *)
LegalOnceEnded(s) == IF s \in Ended THEN {"RECOVERING"} ELSE States

Legal(s) ==
  CASE s = "RUNNING"      -> {"CHECKPOINTED", "FAILED"} \cup Ended
    [] s = "CHECKPOINTED" -> {"CHECKPOINTED", "RECOVERING", "RESUMED", "FAILED"} \cup Ended
    [] s = "FAILED"       -> {"RECOVERING", "ABORTED"}
    [] s = "RECOVERING"   -> {"RESUMED", "FAILED", "ABORTED"}
    [] s = "RESUMED"      -> {"RUNNING", "CHECKPOINTED", "FAILED"} \cup Ended
    [] s = "COMPLETED"    -> IF replay THEN {"RECOVERING"} ELSE {}
    [] OTHER              -> {}

Init ==
  /\ replay \in BOOLEAN
  /\ state = [m \in Missions |-> "unknown"]
  /\ disk = [f \in Files |-> "absent"]
  /\ ckpt = [f \in Files |-> Blank]
  /\ late = FALSE
  /\ known = [m \in Missions |-> {}]
  /\ basis = [m \in Missions |-> None]
  /\ over = {}

(* register() does not look at the store. *)
Register(m) ==
  /\ state[m] = "unknown"
  /\ state' = [state EXCEPT ![m] = "RUNNING"]
  /\ known' = [known EXCEPT ![m] = {}]
  /\ over' = over \cup {n \in {m} : \E f \in Files : disk[f] # "absent" /\ ckpt[f].mission = n}
  /\ UNCHANGED <<replay, onDisk, late, basis>>

(* transition(), complete(), fail() and abort(). *)
Transition(m) ==
  \E new \in {"RUNNING", "COMPLETED", "FAILED", "ABORTED"} \cap Legal(state[m]) :
    /\ state' = [state EXCEPT ![m] = new]
    /\ basis' = [basis EXCEPT ![m] = None]
    /\ UNCHANGED <<replay, onDisk, late, known, over>>

(* The owner completes and verifies a step it does not hold to be done. *)
Work(m, s) ==
  /\ state[m] \in Active
  /\ s \notin known[m]
  /\ known' = [known EXCEPT ![m] = @ \cup {s}]
  /\ UNCHANGED <<replay, state, onDisk, late, history>>

(* The file that checkpoint() publishes with os.replace. *)
Publish(m, f) ==
  /\ "CHECKPOINTED" \in Legal(state[m])
  /\ ~Unreadable /\ NextVersion(m) <= MaxVersion
  /\ disk[f] = "absent"
  /\ disk' = [disk EXCEPT ![f] = "intact"]
  /\ \E p \in Permits :
       ckpt' = [ckpt EXCEPT ![f] = [mission |-> m, version |-> NextVersion(m),
                                    permit |-> p, verified |-> known[m]]]

(* Mutant: the state is committed and the save fails. *)
SaveAcknowledgedFirst(m, f) ==
  /\ "CHECKPOINTED" \in Legal(state[m]) /\ disk[f] = "absent"
  /\ state' = [state EXCEPT ![m] = "CHECKPOINTED"]
  /\ basis' = [basis EXCEPT ![m] = None]
  /\ UNCHANGED <<replay, onDisk, late, known, over>>

Save(m, f) ==
  /\ Publish(m, f)
  /\ state' = [state EXCEPT ![m] = "CHECKPOINTED"]
  /\ basis' = [basis EXCEPT ![m] = None]
  /\ UNCHANGED <<replay, late, known, over>>

(***************************************************************************)
(* The process dies; the memory of the manager and of the owners is gone.  *)
(***************************************************************************)
Forget ==
  /\ state' = [m \in Missions |-> "unknown"]
  /\ known' = [m \in Missions |-> {}]
  /\ basis' = [m \in Missions |-> None]

Crash ==
  /\ \E m \in Missions : state[m] # "unknown"
  /\ Forget
  /\ UNCHANGED <<replay, onDisk, late, over>>

(* ... after the file was published, before the state was committed. *)
CrashInSave(m, f) ==
  /\ Publish(m, f)
  /\ Forget
  /\ UNCHANGED <<replay, late, over>>

(* restore(): a mission the manager does not know is adopted. *)
Restore(m, f) ==
  /\ state[m] = "unknown" /\ f \in Newest(m)
  /\ state' = [state EXCEPT ![m] = "CHECKPOINTED"]
  /\ known' = [known EXCEPT ![m] = ckpt[f].verified]
  /\ UNCHANGED <<replay, onDisk, late, history>>

Authorized(f) == ckpt[f].permit = "granted" \/ (ckpt[f].permit = "lapses" /\ ~late)

(* Mutant: the outcome is taken for the state. *)
GateOutcome(f, tripped, sameHead, sameWorld) ==
  IF ~sameWorld THEN "REQUIRES_REOBSERVATION" ELSE "RESUMED"

(* The gates of resume() in their order: each is looked at if those before *)
(* it were passed.  The workspace that changed waits for a confirmation.   *)
Gate(f, tripped, sameHead, sameWorld) ==
  CASE ckpt[f].permit = "none"                   -> "FAILED"
    [] ckpt[f].permit # "none" /\ tripped        -> "ABORTED"
    [] ckpt[f].permit # "none" /\ ~tripped /\ ~(Authorized(f) /\ sameHead) -> "FAILED"
    [] Authorized(f) /\ ~tripped /\ sameHead /\ ~sameWorld -> "RECOVERING"
    [] OTHER                                     -> "RESUMED"

(***************************************************************************)
(* resume().  The kill switch also counts as tripped when its probe fails. *)
(***************************************************************************)
Resume(m, f) ==
  /\ f \in Newest(m)
  /\ state[m] = "unknown" \/ "RECOVERING" \in Legal(state[m])
  /\ \E tripped, sameHead, sameWorld \in BOOLEAN :
       LET next == Gate(f, tripped, sameHead, sameWorld) IN
       /\ state' = [state EXCEPT ![m] = next]
       /\ known' = IF next = "RESUMED" THEN [known EXCEPT ![m] = ckpt[f].verified] ELSE known
       /\ basis' = [basis EXCEPT ![m] = IF next \in {"RESUMED", "RECOVERING"} THEN f ELSE None]
  /\ UNCHANGED <<replay, onDisk, late, over>>

(***************************************************************************)
(* confirm_reobservation().  When no checkpoint can be read any more an    *)
(* answer of ok fails on an unbound variable and changes nothing.          *)
(***************************************************************************)
ConfirmOk(m, f) ==
  /\ state[m] = "RECOVERING"
  /\ f \in Newest(m)
  /\ state' = [state EXCEPT ![m] = "RESUMED"]
  /\ known' = [known EXCEPT ![m] = ckpt[f].verified]
  /\ basis' = [basis EXCEPT ![m] = f]
  /\ UNCHANGED <<replay, onDisk, late, over>>

ConfirmNotOk(m) ==
  /\ state[m] = "RECOVERING"
  /\ state' = [state EXCEPT ![m] = "FAILED"]
  /\ basis' = [basis EXCEPT ![m] = None]
  /\ UNCHANGED <<replay, onDisk, late, known, over>>

(***************************************************************************)
(* The environment                                                         *)
(***************************************************************************)
(* What a corrupt file said cannot be read; whose it was is kept for        *)
(* CheckpointedIsBacked.                                                   *)
Corrupt(f) ==
  /\ disk[f] = "intact"
  /\ disk' = [disk EXCEPT ![f] = "corrupt"]
  /\ ckpt' = [ckpt EXCEPT ![f] = [Blank EXCEPT !.mission = ckpt[f].mission]]
  /\ UNCHANGED <<replay, state, late, known, history>>

TimePasses ==
  /\ ~late /\ late' = TRUE
  /\ UNCHANGED <<replay, state, onDisk, known, history>>

OfFile(m, f) ==
  Save(m, f) \/ CrashInSave(m, f) \/ Restore(m, f) \/ Resume(m, f) \/ ConfirmOk(m, f)

Next ==
  \/ \E m \in Missions : Register(m) \/ Transition(m) \/ ConfirmNotOk(m)
  \/ \E m \in Missions, s \in Steps : Work(m, s)
  \/ \E m \in Missions, f \in Files : OfFile(m, f)
  \/ \E f \in Files : Corrupt(f)
  \/ Crash \/ TimePasses

Spec == Init /\ [][Next]_vars

(***************************************************************************)
(* Properties                                                              *)
(***************************************************************************)
(* Two checkpoints of a mission that can both be read never have the same  *)
(* version, although a version number is given out again when the file     *)
(* that had it is corrupt, and although a crash may leave a checkpoint     *)
(* behind that was never acknowledged: latest() selects one.               *)
VersionsDiffer ==
  \A f, g \in Files :
    disk[f] = "intact" /\ disk[g] = "intact" /\ ckpt[f].mission = ckpt[g].mission
      /\ ckpt[f].version = ckpt[g].version => f = g

(* A mission at work, resumed or adopted after any crashes and corruption, *)
(* holds every step to be done that a readable checkpoint of it says was   *)
(* verified, so no such step is repeated.  The exception is a mission that *)
(* was registered anew over its old checkpoints, which register() allows.  *)
VerifiedKept ==
  \A m \in Missions \ over : state[m] \in Active =>
    \A f \in Intact(m) : ckpt[f].verified \subseteq known[m]

(* confirm_reobservation() looks at no gate, yet the checkpoint it resumes *)
(* from is the one that passed them, unless that file was corrupted        *)
(* between the two calls: then an older one is used that passed none.      *)
ConfirmedWasGated ==
  [][\A m \in Missions : state[m] = "RECOVERING" /\ state'[m] = "RESUMED" =>
       basis'[m] = basis[m] \/ disk[basis[m]] = "corrupt"]_vars

(* A mission in state CHECKPOINTED has a checkpoint file, intact when it   *)
(* was written: checkpoint() acknowledges what it has persisted.           *)
CheckpointedIsBacked ==
  \A m \in Missions : state[m] = "CHECKPOINTED" =>
    \E f \in Files : disk[f] # "absent" /\ ckpt[f].mission = m

(* While the process lives, a completed mission moves only if replay was   *)
(* allowed, and an aborted one never, whatever resume, restore, confirm    *)
(* and checkpoint are called for it.  After a crash the manager no longer  *)
(* knows that it had ended.                                                *)
EndedIsFinal ==
  [][\A m \in Missions : state[m] \in Ended /\ state'[m] # state[m] =>
       state'[m] = "unknown" \/ (replay /\ state[m] = "COMPLETED")]_vars

================================================================================
