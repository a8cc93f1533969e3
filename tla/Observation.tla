------------------------------- MODULE Observation -------------------------------
(***************************************************************************)
(* Snapshots of a workspace and their differences:                         *)
(* nimna/execution/observation.py.                                         *)
(*                                                                         *)
(* A world is what the files hold.  A snapshot is what the observer sees   *)
(* of it: metadata (type, size and mode, one value here), and a hash only  *)
(* of files that are not too big and of no link.  Paths are numbers, in    *)
(* the order in which they are walked and sorted.                          *)
(***************************************************************************)
EXTENDS Naturals, FiniteSets

CONSTANTS
  Paths,
  Contents,    \* what may be at a path
  Absent,      \* nothing is
  Hashed,      \* contents whose hash is taken; they stand for their hash
  Meta,        \* [Contents -> metadata]
  MaxFiles     \* max_files

Greatest(S) == CHOOSE p \in S : \A q \in S : q <= p
Least(S) == CHOOSE p \in S : \A q \in S : p <= q

ASSUME ObservationAssumption ==
  /\ Paths \subseteq Nat
  /\ \A S \in SUBSET Paths : S # {} =>
       (\E p \in S : \A q \in S : q <= p) /\ (\E p \in S : \A q \in S : p <= q)
  /\ Absent \notin Contents /\ Hashed \subseteq Contents /\ MaxFiles \in Nat

World == [Paths -> Contents \cup {Absent}]

Present(w) == {p \in Paths : w[p] # Absent}

(* The sha256 of an entry: Absent stands for none. *)
Sha(c) == IF c \in Hashed THEN c ELSE Absent

(* snapshot(): it ends at the limit, and says so. *)
Seen(w) == {p \in Present(w) : Cardinality({q \in Present(w) : q < p}) < MaxFiles}

Snapshot(w) == [p \in Seen(w) |-> [meta |-> Meta[w[p]], sha |-> Sha(w[p])]]

Deleted(b, a) == DOMAIN b \ DOMAIN a
Created(b, a) == DOMAIN a \ DOMAIN b

(* Mutant: files without a hash are taken for equal. *)
ModifiedByHash(b, a) == {p \in DOMAIN b \cap DOMAIN a : b[p].sha # a[p].sha}

Modified(b, a) == {p \in DOMAIN b \cap DOMAIN a : b[p] # a[p]}

(***************************************************************************)
(* Of the deleted paths with a hash the last one, of the created paths     *)
(* with the same hash the first one: they are one renaming.  The others    *)
(* stay what they are.                                                     *)
(***************************************************************************)
Renamed(b, a) ==
  LET gone(h) == {p \in Deleted(b, a) : b[p].sha = h}
      new(h)  == {p \in Created(b, a) : a[p].sha = h} IN
  {<<Greatest(gone(h)), Least(new(h))>> : h \in {h \in Hashed : gone(h) # {} /\ new(h) # {}}}

Change(kind, from, path, entry) == [kind |-> kind, from |-> from, path |-> path, entry |-> entry]

Delta(b, a) ==
  LET moves == Renamed(b, a)
      moved == {r[1] : r \in moves} \cup {r[2] : r \in moves} IN
  {Change("MODIFIED", p, p, a[p]) : p \in Modified(b, a)}
  \cup {Change("DELETED", p, p, b[p]) : p \in Deleted(b, a) \ moved}
  \cup {Change("CREATED", p, p, a[p]) : p \in Created(b, a) \ moved}
  \cup {Change("RENAMED", r[1], r[2], a[r[2]]) : r \in moves}

(* Mutant: no hash equals no hash. *)
MatchesUnhashed(w, c) ==
  IF c.kind = "DELETED" THEN w[c.path] = Absent
  ELSE w[c.path] # Absent /\ Sha(w[c.path]) = c.entry.sha

(***************************************************************************)
(* verify_delta(): a change is looked at again.  Without a hash to compare *)
(* it never matches.  The old path of a renaming is not looked at.         *)
(***************************************************************************)
Matches(w, c) ==
  IF c.kind = "DELETED" THEN w[c.path] = Absent
  ELSE w[c.path] # Absent /\ c.entry.sha # Absent /\ Sha(w[c.path]) = c.entry.sha

(* What a reader of the changes makes of the first snapshot. *)
Rebuilt(b, D) ==
  LET gone == {c.path : c \in {c \in D : c.kind = "DELETED"}}
                \cup {c.from : c \in {c \in D : c.kind = "RENAMED"}}
      new  == {c \in D : c.kind # "DELETED"} IN
  [p \in (DOMAIN b \ gone) \cup {c.path : c \in new} |->
     IF \E c \in new : c.path = p THEN (CHOOSE c \in new : c.path = p).entry ELSE b[p]]

=================================================================================
