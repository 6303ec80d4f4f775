----------------------------- MODULE MCReplica -----------------------------
(***************************************************************************)
(* Replica for TLC: small sets of records and files, and a hash order that *)
(* is not the order of the contents.                                       *)
(***************************************************************************)
EXTENDS Replica, TLC

CONSTANTS c1, c2

BodyRank(b) == IF b = Tombstone THEN 1 ELSE IF b = c1 THEN 2 ELSE 0

\* Distinct for distinct records; only its order within a tie matters.
MCDigest(r) == (r.modified_ns * 10 + r.author) * 3 + BodyRank(r.body)

\* A file system that keeps every timestamp, and one that keeps even ones.
Exact(t) == t

Coarse(t) == t - (t % 2)

File(t, a, c) == [modified_ns |-> t, author |-> a, body |-> c]

Gone(t, a) == [modified_ns |-> t, author |-> a, body |-> Tombstone]

OnDisk(t, c) == [modified_ns |-> t, body |-> c]

\* What the peers of a run present.
OneEdit == {File(1, 1, c1)}

\* An edit of one peer, and a later one of another.
TwoEdits == {File(0, 3, c2), File(1, 1, c1)}

\* An edit and a later deletion.
EditAndDeletion == {File(1, 1, c1), Gone(2, 1)}

\* What the user of a run writes.
NoWrites == {}

\* An old copy, and a write that ties with the deletion and is from the future
\* until the clock moves.
OldAndTie == {OnDisk(0, c2), OnDisk(2, c2)}

\* Always from the future.
FutureWrite == {OnDisk(2, c2)}

SlotSymmetry == Permutations(Sessions) \cup Permutations(Roots)
============================================================================
