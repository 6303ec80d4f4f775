--------------------------- MODULE RecordsProofs ---------------------------
(***************************************************************************)
(* The last-writer-wins order of record.rs is a strict total order, for    *)
(* every set of authors, contents and timestamps and every collision-free  *)
(* hash; so a finite set of records has one greatest record.               *)
(***************************************************************************)
EXTENDS Records, TLAPS

\* What compare_winner compares are numbers.
LEMMA RecordFields ==
  ASSUME NEW r \in Record
  PROVE  r.modified_ns \in Int /\ r.author \in Int /\ Digest(r) \in Int
  <1>1. r.modified_ns \in Time /\ r.author \in Authors
    BY DEF Record
  <1>2. r.modified_ns \in Int
    BY <1>1 DEF Time
  <1>3. r.author \in Nat
    BY <1>1, AuthorsAssumption, Zenon DEF AuthorsAssumption
  <1>4. Digest(r) \in Int
    BY DigestAssumption
  <1> QED BY <1>2, <1>3, <1>4

\* No record beats itself: presenting the winner again changes nothing.
LEMMA WinsIrreflexive == ASSUME NEW r \in Record PROVE ~Wins(r, r)
  BY RecordFields DEF Wins

\* Two peers never each hold the other's record for the loser.
LEMMA WinsAsymmetric ==
  ASSUME NEW r \in Record, NEW s \in Record, Wins(r, s)
  PROVE  ~Wins(s, r)
  BY RecordFields DEF Wins

\* What beats the winner beats what the winner had beaten.
LEMMA WinsTransitive ==
  ASSUME NEW r \in Record, NEW s \in Record, NEW t \in Record, Wins(r, s), Wins(s, t)
  PROVE  Wins(r, t)
  BY RecordFields DEF Wins

\* compare_winner never calls two different records equal.
LEMMA WinsTotal ==
  ASSUME NEW r \in Record, NEW s \in Record, r # s
  PROVE  Wins(r, s) \/ Wins(s, r)
  <1>1. Digest(r) # Digest(s)
    BY DigestAssumption
  <1> QED BY <1>1, RecordFields DEF Wins

\* A record that beats all others of a set is the set's Greatest.
LEMMA GreatestUnique ==
  ASSUME NEW S \in SUBSET Record, NEW r \in S, \A s \in S \ {r} : Wins(r, s)
  PROVE  Greatest(S) = r
  <1>1. PICK g \in S : g = Greatest(S) /\ \A s \in S \ {g} : Wins(g, s)
    BY DEF Greatest
  <1>2. g = r
    <2>1. SUFFICES ASSUME g # r PROVE FALSE
      OBVIOUS
    <2>2. Wins(g, r) /\ Wins(r, g)
      BY <1>1, <2>1
    <2> QED BY <2>2, WinsAsymmetric
  <1> QED BY <1>1, <1>2
============================================================================
