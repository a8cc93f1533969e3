--------------------------------- MODULE AuditLog ---------------------------------
(***************************************************************************)
(* The audit journal: log, get_audit and verify_audit_chain of             *)
(* nimna/memory/store.py, the facade nimna/evidence/journal.py and the     *)
(* hash of nimna/provenance/hashchain.py.                                  *)
(*                                                                         *)
(* A hash determines what was hashed, the previous hash included: it is    *)
(* the sequence of the contents from the genesis on, <<>> being no hash.   *)
(* A content is the session, the run and the rest of a row; times are in   *)
(* seconds, so that two rows may have equal contents.  The lock of the     *)
(* store keeps one process to one log() at a time; other processes on the  *)
(* same file, which each have a lock of their own, may come in between.    *)
(***************************************************************************)
EXTENDS Naturals, Sequences, SequencesExt

CONSTANTS
  Processes,
  Logged,    \* what is logged: a session, a run and an event
  Limits,      \* how many rows a reader asks for
  MaxRows,     \* bound: rows logged
  Anything     \* a filter that is not given

Sessions == {c.session : c \in Logged}
Runs == {c.run : c \in Logged}
(* By session, by run, or all of it. *)
Filters == [session : Sessions, run : {Anything}] \cup [session : {Anything}, run : Runs \cup {Anything}]

ASSUME AuditAssumption ==
  /\ Limits \subseteq Nat \ {0} /\ MaxRows \in Nat /\ Anything \notin Sessions \cup Runs

VARIABLES
  rows,      \* audit_log by id: the content, its own hash and the previous one
  drafts,    \* [Processes -> the row that log() is about to insert, if any]
  altered,   \* history: ids of rows changed by other means than log()
  lost       \* history: rows deleted by other means

auditVars == <<rows, drafts, altered, lost>>

Row(content, hash, previous) == [content |-> content, hash |-> hash, previous |-> previous]

AuditInit ==
  /\ rows = <<>>
  /\ drafts = [p \in Processes |-> <<>>]
  /\ altered = {} /\ lost = {}

evidence_hash(content, previous) == Append(previous, content)

Quiet == \A p \in Processes : drafts[p] = <<>>

(* The hash in the newest row, which a row without its evidence has not. *)
LastHash == IF rows = <<>> THEN <<>> ELSE Last(rows).hash

(* log() reads the newest row and computes the hash ... *)
Draft(p, content) ==
  /\ drafts[p] = <<>> /\ Len(rows) < MaxRows
  /\ drafts' = [drafts EXCEPT ![p] = <<Row(content, evidence_hash(content, LastHash), LastHash)>>]
  /\ UNCHANGED <<rows, altered, lost>>

(* ... and inserts its row; a process that dies before leaves nothing. *)
Insert(p) ==
  /\ drafts[p] # <<>>
  /\ rows' = rows \o drafts[p] \/ rows' = rows
  /\ drafts' = [drafts EXCEPT ![p] = <<>>]
  /\ UNCHANGED <<altered, lost>>

(***************************************************************************)
(* Reading                                                                 *)
(***************************************************************************)
Matches(row, filter) ==
  /\ filter.session \in {Anything, row.content.session}
  /\ filter.run \in {Anything, row.content.run}

Matching(filter) == {i \in DOMAIN rows : Matches(rows[i], filter)}

(* get_audit() returns the newest rows, verify_audit_chain() the oldest. *)
get_audit(filter, limit) ==
  {i \in Matching(filter) : Cardinality({j \in Matching(filter) : j > i}) < limit}

Verified(filter, limit) ==
  {i \in Matching(filter) : Cardinality({j \in Matching(filter) : j < i}) < limit}

(* Mutant: only the rows that match count as linked to. *)
HashesMatching(filter) == {rows[i].hash : i \in Matching(filter)} \ {<<>>}

(* all_hashes *)
Hashes(filter) == {rows[i].hash : i \in DOMAIN rows} \ {<<>>}

Linked(previous, filter) == previous = <<>> \/ previous \in Hashes(filter)

(* verify_audit_chain(): valid; a row without its evidence is not. *)
Valid(filter, limit) ==
  \A i \in Verified(filter, limit) :
    /\ Linked(rows[i].previous, filter)
    /\ rows[i].hash = evidence_hash(rows[i].content, rows[i].previous)

(* ... and anchored: the first row that has its evidence is linked. *)
Anchored(filter, limit) ==
  LET checked == {i \in Verified(filter, limit) : rows[i].hash # <<>>}
  IN \A i \in checked : (\A j \in checked : i <= j) => Linked(rows[i].previous, filter)

(* for_run() and for_session(): what is shown, and the verification. *)
Evidence(filter, limit) ==
  [events |-> get_audit(filter, limit),
   verification |-> [valid |-> Valid(filter, limit), anchored |-> Anchored(filter, limit)]]

(***************************************************************************)
(* The database is changed by other means, once: a row gets another        *)
(* content, or loses its evidence, or is deleted.                          *)
(***************************************************************************)
Rewrite(i) ==
  /\ altered = {} /\ lost = {}
  /\ \/ \E c \in Logged \ {rows[i].content} : rows' = [rows EXCEPT ![i].content = c]
     \/ rows' = [rows EXCEPT ![i].hash = <<>>, ![i].previous = <<>>]
  /\ altered' = {i}
  /\ UNCHANGED <<drafts, lost>>

Delete(i) ==
  /\ altered = {} /\ lost = {}
  /\ rows' = RemoveAt(rows, i)
  /\ lost' = {rows[i]}
  /\ UNCHANGED <<drafts, altered>>

AuditNext ==
  \/ \E p \in Processes : Insert(p) \/ \E c \in Logged : Draft(p, c)
  \/ \E i \in DOMAIN rows : Rewrite(i) \/ Delete(i)

AuditSpec == AuditInit /\ [][AuditNext]_auditVars

(***************************************************************************)
(* Properties                                                              *)
(***************************************************************************)
(* A journal that only log() wrote to verifies and is anchored for every   *)
(* session, run and limit, whatever rows of others are interleaved, even   *)
(* when several processes forked the chain.                                *)
NoFalseAlarm ==
  altered = {} /\ lost = {} => \A f \in Filters, n \in Limits : Valid(f, n) /\ Anchored(f, n)

(* Where the verification of a run or session is good, nothing it shows    *)
(* was altered, provided that the rows fit the limit: beyond it the newest *)
(* are shown and the oldest are verified.  And no row it shows is linked   *)
(* to one that was deleted, unless another has the same hash.              *)
ChangesNoticed ==
  \A f \in Filters, n \in Limits :
    LET told == Evidence(f, n) IN
    told.verification.valid /\ Cardinality(Matching(f)) <= n =>
      /\ told.events \cap altered = {}
      /\ \A row \in lost, i \in told.events :
           rows[i].previous = row.hash => \E j \in DOMAIN rows : rows[j].hash = row.hash

(* The journal tells when it was changed by other means than log(), and    *)
(* only then.                                                              *)
AuditSound == NoFalseAlarm /\ ChangesNoticed

===================================================================================
