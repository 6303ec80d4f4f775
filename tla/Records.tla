------------------------------ MODULE Records ------------------------------
(***************************************************************************)
(* Path records and the last-writer-wins order of record.rs.               *)
(*                                                                         *)
(* A record says what one author saw at one path: a file with some content *)
(* or a deletion.  Collection and path are fixed (rows of different paths  *)
(* never meet in the order), (size, BLAKE3) is one content identity, and   *)
(* an EndpointId is its rank in the byte order of identities.              *)
(***************************************************************************)
EXTENDS Integers

CONSTANTS
    Authors,      \* EndpointIds, as ranks in their byte order
    Contents,     \* what a file can hold: (size, content_hash)
    Tombstone,    \* the kind of a deletion
    NoRecord,     \* no row for the path
    MaxTime,      \* bound: the greatest timestamp the model uses
    Digest(_)     \* BLAKE3 of the canonical bytes, as a rank in byte order

Time == 0 .. MaxTime

\* record.rs Record; `body` is RecordKind with its payload.
Record == [modified_ns : Time, author : Authors, body : Contents \cup {Tombstone}]

ASSUME AuthorsAssumption == Authors \subseteq Nat

ASSUME TombstoneAssumption == Tombstone \notin Contents

ASSUME NoRecordAssumption == NoRecord \notin Record

ASSUME MaxTimeAssumption == MaxTime \in Nat

\* A collision-free hash: distinct records have distinct canonical hashes.
ASSUME DigestAssumption ==
    /\ \A r \in Record : Digest(r) \in Nat
    /\ \A r, s \in Record : Digest(r) = Digest(s) => r = s

IsFile(r) == r # NoRecord /\ r.body # Tombstone

IsTombstone(r) == r # NoRecord /\ r.body = Tombstone

----------------------------------------------------------------------------
\* Record::compare_winner is Greater: the later write time, then the greater
\* author, then the greater canonical hash.
Wins(r, s) ==
    \/ r.modified_ns > s.modified_ns
    \/ /\ r.modified_ns = s.modified_ns
       /\ \/ r.author > s.author
          \/ r.author = s.author /\ Digest(r) > Digest(s)

\* The record that beats every other record of S.
Greatest(S) == CHOOSE r \in S : \A s \in S \ {r} : Wins(r, s)
============================================================================
