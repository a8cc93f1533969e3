------------------------------ MODULE EvidenceChain ------------------------------
(***************************************************************************)
(* The hash chain of nimna/execution/tool_registry.py, class               *)
(* EvidenceChain.  An entry is the number it was given (seq), which stands *)
(* for its hash, and the hash it was linked to.  append() has no lock: it  *)
(* reads the tail, computes the hash, appends the entry and sets the tail, *)
(* and a thread may be preempted at the calls in between.                  *)
(***************************************************************************)
EXTENDS Naturals, Sequences

CONSTANTS
  Threads,
  MaxEntries   \* MAX_EVIDENCE_ENTRIES

ASSUME ChainAssumption == MaxEntries \in Nat \ {0}

VARIABLES
  entries, tail, seq,
  pruned,   \* something was pruned
  draft,    \* [Threads -> the entry that append() is at work on, or None]
  forked    \* history: an append began while another one was at work

chainVars == <<entries, tail, seq, pruned, draft, forked>>

None == [id |-> 0, prev |-> 0]
Entry == [id : Nat, prev : Nat]

ChainTypeOK ==
  /\ entries \in Seq(Entry) /\ Len(entries) <= MaxEntries
  /\ tail \in Nat /\ seq \in Nat
  /\ pruned \in BOOLEAN /\ forked \in BOOLEAN
  /\ draft \in [Threads -> Entry]

ChainInit ==
  /\ entries = <<>> /\ tail = 0 /\ seq = 0
  /\ pruned = FALSE /\ forked = FALSE
  /\ draft = [t \in Threads |-> None]

(* The entry takes the next number and is linked to the tail. *)
Link(t) ==
  /\ draft[t] = None
  /\ seq' = seq + 1
  /\ draft' = [draft EXCEPT ![t] = [id |-> seq + 1, prev |-> tail]]
  /\ forked' = (forked \/ \E u \in Threads : draft[u] # None)
  /\ UNCHANGED <<entries, tail, pruned>>

(* The oldest entries over the limit are dropped. *)
Prune(s) == SubSeq(s, 1 + (IF Len(s) > MaxEntries THEN Len(s) - MaxEntries ELSE 0), Len(s))

(* Mutant: the tail stays where it was. *)
StoreWithoutTail(t) ==
  /\ draft[t] # None
  /\ entries' = Prune(Append(entries, draft[t]))
  /\ draft' = [draft EXCEPT ![t] = None]
  /\ UNCHANGED <<tail, seq, pruned, forked>>

(***************************************************************************)
(* The entry is appended, the tail set and the chain pruned.  A thread     *)
(* preempted between these breaks no link that one preempted before them   *)
(* does not break.                                                         *)
(***************************************************************************)
Store(t) ==
  /\ draft[t] # None
  /\ entries' = Prune(Append(entries, draft[t]))
  /\ pruned' = (pruned \/ Len(entries) = MaxEntries)
  /\ tail' = draft[t].id
  /\ draft' = [draft EXCEPT ![t] = None]
  /\ UNCHANGED <<seq, forked>>

(* verify(): the first retained entry has to be linked to the genesis. *)
Verifies ==
  \A i \in DOMAIN entries : entries[i].prev = IF i = 1 THEN 0 ELSE entries[i - 1].id

(* The chain of appends that did not overlap verifies, between any two     *)
(* calls, exactly as long as nothing was pruned: verify() starts at the    *)
(* genesis, so that a chain that reached its limit never verifies again.   *)
VerifiesUntilPruned == ~forked => (Verifies <=> ~pruned)

=================================================================================
