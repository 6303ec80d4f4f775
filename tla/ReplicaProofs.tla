--------------------------- MODULE ReplicaProofs ---------------------------
(***************************************************************************)
(* What holds of Replica for every set of records, files, sessions and     *)
(* roots, however scanner, sessions, user and crashes interleave.          *)
(*                                                                         *)
(* Every step treats the row in one of a few ways (RowStep); the facts     *)
(* about the row are shown for those, and the facts about the locals of    *)
(* scanner and sessions for the actions.                                   *)
(***************************************************************************)
EXTENDS Replica, RecordsProofs

RowType ==
    /\ win \in Record \cup {NoRecord}
    /\ mat \in BOOLEAN
    /\ fp \in DiskFile \cup {NoFile}
    /\ presented \subseteq Record
    /\ held \in BOOLEAN
    /\ overtaken \in BOOLEAN

\* The row holds the record that beats all others it was given.
RowIsGreatest ==
    /\ (win = NoRecord) <=> (presented = {})
    /\ win # NoRecord =>
          /\ win \in presented
          /\ \A r \in presented \ {win} : Wins(win, r)

\* A materialized file was held, which is what a deletion needs.
MaterializedWasHeld == IsFile(win) /\ mat => held

RowInv ==
    /\ RowType
    /\ RowIsGreatest
    /\ FingerprintIffMaterialized
    /\ MaterializedWasHeld
    /\ OnlyKnownDeleted
    /\ ClockBound

ScanType ==
    scan \in [pc : ScanStages, now : 0 .. MaxClock, root : Roots \cup {NoRoot},
              seen : DiskFile \cup {NoFile, Unstable}, win : Record \cup {NoRecord},
              mat : BOOLEAN, fp : DiskFile \cup {NoFile}]

\* What the scanner's locals are good for at each stage.
ScanInv ==
    /\ ScanType
    /\ scan.now <= clock
    /\ scan.pc # "idle" => scan.root \in Roots
    /\ scan.pc \in {"future", "winner", "match", "merge", "repair"} => scan.seen \in DiskFile
    /\ scan.pc \in {"winner", "match", "merge", "repair"} =>
          scan.seen.modified_ns <= scan.now + Skew
    /\ scan.pc = "missing" =>
          held /\ IsFile(scan.win) /\ scan.win.modified_ns <= clock + Skew

SessionType ==
    sess \in [Sessions -> [pc : SessionStages, rec : Record \cup {NoRecord},
                           root : Roots \cup {NoRoot}]]

HasRoot == {"tombRemove", "tombMark", "opened", "installed"}

HasFile == {"request", "requested", "checked", "opened", "installed", "failed"}

SessionInv ==
    /\ SessionType
    /\ \A s \in Sessions :
          /\ sess[s].pc \in HasRoot => sess[s].root \in Roots
          /\ sess[s].pc \in HasFile => sess[s].rec \in Record /\ IsFile(sess[s].rec)

WorldInv ==
    /\ clock \in 0 .. MaxClock
    /\ dbRoot \in Roots \cup {NoRoot}
    /\ status \in {"pending", "active", "paused", "error"}
    /\ root \in Roots \cup {NoRoot}
    /\ disk \in [Roots -> DiskFile \cup {NoFile}]
    /\ edits \in 0 .. MaxEdits
    /\ typed \subseteq DiskFile
    /\ erased \in BOOLEAN
    /\ crossed \in BOOLEAN

\* The inductive invariant.
Inv == WorldInv /\ RowInv /\ ScanInv /\ SessionInv

----------------------------------------------------------------------------
(* What a step may do to the row.                                          *)

RowStep ==
    \/ UNCHANGED rowVars
    \/ Unmaterialize
    \/ \E f \in DiskFile, r \in Record \cup {NoRecord} : update_materialized_fingerprint(f, r)
    \/ mark_tombstone_materialized
    \/ \E r \in Remote : r.modified_ns <= clock + Skew /\ merge_record(r, FALSE)
    \/ \E r \in Record :
          /\ r.author = Local
          /\ IF IsFile(r) THEN r.modified_ns <= clock + Skew
                          ELSE held /\ r.modified_ns <= clock + Skew + 1
          /\ merge_record(r, TRUE)

\* The file that carries a record's bytes and time is a file.
LEMMA AsFileType ==
  ASSUME NEW r \in Record, IsFile(r)
  PROVE  AsFile(r) \in DiskFile
  <1>1. r.modified_ns \in Time /\ r.body \in Contents \cup {Tombstone}
    BY DEF Record
  <1>2. r.body \in Contents
    BY <1>1 DEF IsFile
  <1> QED BY <1>1, <1>2 DEF AsFile, DiskFile

\* Merging keeps the greatest record of all that were presented.
LEMMA MergeKeepsGreatest ==
  ASSUME RowType, RowIsGreatest, NEW r \in Record, NEW l \in BOOLEAN, merge_record(r, l)
  PROVE  RowType' /\ RowIsGreatest'
  <1>1. presented' = presented \cup {r} /\ presented' \subseteq Record
    BY DEF merge_record, upsert_record, RowType
  <1>2. CASE Accepts(r)
    <2>1. /\ win' = r /\ mat' = l
          /\ fp' = (IF l /\ IsFile(r) THEN AsFile(r) ELSE NoFile)
          /\ held' = (held \/ (l /\ IsFile(r))) /\ overtaken' = FALSE
      BY <1>2 DEF merge_record, upsert_record
    <2>2. RowType'
      BY <1>1, <2>1, AsFileType DEF RowType
    <2>3. r # NoRecord
      BY NoRecordAssumption
    <2>4. \A s \in presented' \ {r} : Wins(r, s)
      <3>1. CASE win = NoRecord
        BY <1>1, <3>1 DEF RowIsGreatest
      <3>2. CASE win # NoRecord
        <4>1. win \in Record /\ Wins(r, win)
          BY <1>2, <3>2 DEF Accepts, RowType
        <4>2. SUFFICES ASSUME NEW s \in presented, s # win PROVE Wins(r, s)
          BY <1>1, <4>1
        <4>3. s \in Record /\ Wins(win, s)
          BY <3>2, <4>2 DEF RowIsGreatest, RowType
        <4> QED BY <4>1, <4>3, WinsTransitive
      <3> QED BY <3>1, <3>2
    <2> QED BY <1>1, <2>1, <2>2, <2>3, <2>4 DEF RowIsGreatest
  <1>3. CASE ~Accepts(r)
    <2>1. UNCHANGED <<win, mat, fp, held, overtaken>>
      BY <1>3 DEF merge_record, upsert_record
    <2>2. win # NoRecord /\ win \in Record /\ ~Wins(r, win)
      BY <1>3 DEF Accepts, RowType
    <2>3. r = win \/ Wins(win, r)
      BY <2>2, WinsTotal
    <2>4. RowType'
      BY <1>1, <2>1 DEF RowType
    <2> QED BY <1>1, <2>1, <2>2, <2>3, <2>4 DEF RowIsGreatest
  <1> QED BY <1>2, <1>3

\* Only a materialized file row carries a fingerprint, after every row step.
LEMMA RowStepFingerprint ==
  ASSUME RowType, FingerprintIffMaterialized, RowStep
  PROVE  FingerprintIffMaterialized'
  <1>1. NoFile \notin DiskFile
    BY FileAssumption
  <1>2. CASE UNCHANGED rowVars
    BY <1>2 DEF rowVars, FingerprintIffMaterialized, IsFile
  <1>3. CASE Unmaterialize
    BY <1>3 DEF Unmaterialize, FingerprintIffMaterialized, IsFile
  <1>4. CASE \E f \in DiskFile, r \in Record \cup {NoRecord} : update_materialized_fingerprint(f, r)
    BY <1>1, <1>4 DEF update_materialized_fingerprint, FingerprintIffMaterialized, IsFile
  <1>5. CASE mark_tombstone_materialized
    BY <1>5 DEF mark_tombstone_materialized, FingerprintIffMaterialized, IsFile, IsTombstone
  <1>6. ASSUME NEW r \in Record, NEW l \in BOOLEAN, merge_record(r, l)
        PROVE  FingerprintIffMaterialized'
    <2>1. CASE Accepts(r)
      <3>1. /\ win' = r /\ mat' = l
            /\ fp' = (IF l /\ IsFile(r) THEN AsFile(r) ELSE NoFile)
        BY <1>6, <2>1 DEF merge_record, upsert_record
      <3>2. IsFile(r) => AsFile(r) # NoFile
        BY <1>1, AsFileType
      <3> QED BY <3>1, <3>2 DEF FingerprintIffMaterialized, IsFile
    <2>2. CASE ~Accepts(r)
      BY <1>6, <2>2 DEF merge_record, upsert_record, FingerprintIffMaterialized, IsFile
    <2> QED BY <2>1, <2>2
  <1> QED BY <1>2, <1>3, <1>4, <1>5, <1>6, RemoteAssumption DEF RowStep

\* A materialized file was held, after every row step.
LEMMA RowStepHeld ==
  ASSUME RowType, MaterializedWasHeld, RowStep
  PROVE  MaterializedWasHeld' /\ (held => held')
  <1>1. CASE UNCHANGED rowVars
    BY <1>1 DEF rowVars, MaterializedWasHeld, IsFile
  <1>2. CASE Unmaterialize
    BY <1>2 DEF Unmaterialize, MaterializedWasHeld
  <1>3. CASE \E f \in DiskFile, r \in Record \cup {NoRecord} : update_materialized_fingerprint(f, r)
    BY <1>3 DEF update_materialized_fingerprint, MaterializedWasHeld
  <1>4. CASE mark_tombstone_materialized
    BY <1>4 DEF mark_tombstone_materialized, MaterializedWasHeld, IsFile, IsTombstone
  <1>5. ASSUME NEW r \in Record, NEW l \in BOOLEAN, merge_record(r, l)
        PROVE  MaterializedWasHeld' /\ (held => held')
    BY <1>5 DEF merge_record, upsert_record, MaterializedWasHeld, IsFile, RowType
  <1> QED BY <1>1, <1>2, <1>3, <1>4, <1>5, RemoteAssumption DEF RowStep

\* No row step deletes what was never held.
LEMMA RowStepKnownDeleted ==
  ASSUME RowType, MaterializedWasHeld, OnlyKnownDeleted, RowStep
  PROVE  OnlyKnownDeleted'
  <1>0. held => held'
    BY RowStepHeld
  <1>1. CASE presented' = presented
    BY <1>0, <1>1 DEF OnlyKnownDeleted, IsTombstone
  <1>2. CASE \E r \in Remote : presented' = presented \cup {r}
    BY <1>0, <1>2 DEF OnlyKnownDeleted, IsTombstone
  <1>3. CASE \E r \in Record : (IsFile(r) \/ held) /\ presented' = presented \cup {r}
    BY <1>0, <1>3 DEF OnlyKnownDeleted, IsTombstone, IsFile
  <1> QED BY <1>1, <1>2, <1>3 DEF RowStep, rowVars, Unmaterialize, merge_record, upsert_record,
             update_materialized_fingerprint, mark_tombstone_materialized

\* No row step stores a time the clock's skew does not allow.
LEMMA RowStepClock ==
  ASSUME RowType, ClockBound, RowStep, clock \in Nat, clock' \in Nat, clock <= clock'
  PROVE  ClockBound'
  <1>1. Skew \in Nat
    BY BoundsAssumption
  <1>2. \A r \in Record : r.modified_ns \in Int
    BY RecordFields
  <1>3. CASE win' = win
    BY <1>1, <1>2, <1>3 DEF ClockBound, RowType, IsFile, IsTombstone
  <1>4. ASSUME NEW r \in Record, win' = r,
               IF IsFile(r) THEN r.modified_ns <= clock + Skew
                            ELSE r.modified_ns <= clock + Skew + 1
        PROVE  ClockBound'
    BY <1>1, <1>2, <1>4 DEF ClockBound, IsFile, IsTombstone
  <1>5. ASSUME NEW r \in Remote, r.modified_ns <= clock + Skew, merge_record(r, FALSE)
        PROVE  ClockBound'
    <2>1. r \in Record /\ r.modified_ns \in Int
      BY <1>2, RemoteAssumption
    <2>2. win' = win \/ win' = r
      BY <1>5 DEF merge_record, upsert_record
    <2> QED BY <1>1, <1>3, <1>4, <1>5, <2>1, <2>2
  <1>6. ASSUME NEW r \in Record, merge_record(r, TRUE),
               IF IsFile(r) THEN r.modified_ns <= clock + Skew
                            ELSE held /\ r.modified_ns <= clock + Skew + 1
        PROVE  ClockBound'
    <2>1. win' = win \/ win' = r
      BY <1>6 DEF merge_record, upsert_record
    <2> QED BY <1>3, <1>4, <1>6, <2>1
  <1> QED BY <1>3, <1>5, <1>6 DEF RowStep, rowVars, Unmaterialize,
             update_materialized_fingerprint, mark_tombstone_materialized

\* The facts about the row survive every row step.
LEMMA RowPreserved ==
  ASSUME RowInv, RowStep, clock \in Nat, clock' \in Nat, clock <= clock'
  PROVE  RowInv'
  <1>1. RowType' /\ RowIsGreatest'
    <2>1. ASSUME NEW r \in Record, NEW l \in BOOLEAN, merge_record(r, l)
          PROVE  RowType' /\ RowIsGreatest'
      BY <2>1, MergeKeepsGreatest DEF RowInv
    <2>2. ASSUME RowType, win' = win, presented' = presented,
                 mat' \in BOOLEAN, held' \in BOOLEAN, overtaken' \in BOOLEAN, fp' \in DiskFile \cup {NoFile}
          PROVE  RowType' /\ RowIsGreatest'
      BY <2>2 DEF RowInv, RowType, RowIsGreatest
    <2>3. CASE UNCHANGED rowVars
      BY <2>2, <2>3 DEF RowInv, RowType, rowVars
    <2>4. CASE Unmaterialize
      BY <2>2, <2>4 DEF RowInv, RowType, Unmaterialize
    <2>5. CASE \E f \in DiskFile, r \in Record \cup {NoRecord} : update_materialized_fingerprint(f, r)
      BY <2>2, <2>5 DEF RowInv, RowType, update_materialized_fingerprint
    <2>6. CASE mark_tombstone_materialized
      BY <2>2, <2>6 DEF RowInv, RowType, mark_tombstone_materialized
    <2> QED BY <2>1, <2>3, <2>4, <2>5, <2>6, RemoteAssumption DEF RowStep
  <1>2. FingerprintIffMaterialized' /\ MaterializedWasHeld' /\ OnlyKnownDeleted' /\ ClockBound'
    BY RowStepFingerprint, RowStepHeld, RowStepKnownDeleted, RowStepClock DEF RowInv
  <1> QED BY <1>1, <1>2 DEF RowInv

----------------------------------------------------------------------------
(* The scanner.                                                            *)

LEMMA ScanUnchanged ==
  ASSUME ScanInv, clock \in Nat, clock' \in Nat, clock <= clock', held => held', UNCHANGED scan
  PROVE  ScanInv'
  <1>1. Skew \in Nat
    BY BoundsAssumption
  <1>2. scan.now \in Int
    BY DEF ScanInv, ScanType
  <1>3. scan.pc = "missing" => scan.win.modified_ns \in Int
    BY RecordFields DEF ScanInv, ScanType, IsFile
  <1> QED BY <1>1, <1>2, <1>3 DEF ScanInv, ScanType, IsFile

LEMMA ScanEnds ==
  ASSUME scan' = IdleScan, clock' \in Nat
  PROVE  ScanInv'
  <1>1. 0 \in 0 .. MaxClock
    BY BoundsAssumption
  <1> QED BY <1>1 DEF ScanInv, ScanType, IdleScan, ScanStages

LEMMA SessionsUnchanged ==
  ASSUME SessionInv, UNCHANGED sess
  PROVE  SessionInv'
  BY DEF SessionInv, SessionType, IsFile

LEMMA ScanOpenInv ==
  ASSUME Inv, ScanOpen
  PROVE  ScanInv'
  <1>1. /\ scan' = [pc |-> "walk", now |-> clock, root |-> root, seen |-> NoFile,
                    win |-> NoRecord, mat |-> FALSE, fp |-> NoFile]
        /\ clock' = clock
        /\ root \in Roots
    BY DEF ScanOpen, IdleScan, Inv, WorldInv
  <1>2. clock \in 0 .. MaxClock
    BY DEF Inv, WorldInv
  <1> QED BY <1>1, <1>2 DEF ScanInv, ScanType, ScanStages

LEMMA ScanWalkInv ==
  ASSUME Inv, ScanWalk \/ ScanExcludes
  PROVE  ScanInv'
  <1>1. PICK seen \in DiskFile \cup {NoFile, Unstable} :
            scan' = [scan EXCEPT !.pc = "complete", !.seen = seen]
    BY DEF ScanWalk, ScanExcludes, Inv, ScanInv, WorldInv
  <1>2. clock' = clock /\ scan.pc = "walk"
    BY DEF ScanWalk, ScanExcludes
  <1> QED BY <1>1, <1>2 DEF Inv, ScanInv, ScanType, ScanStages

\* Every way the scanner touches the row is a row step, and it keeps the
\* scanner's facts.
LEMMA ScanCompleteInv ==
  ASSUME Inv, ScanComplete
  PROVE  RowStep /\ ScanInv'
  <1>1. scan' = [scan EXCEPT !.pc = "current"] /\ clock' = clock /\ scan.pc = "complete"
    BY DEF ScanComplete, ScanGoto
  <1>2. ScanInv'
    BY <1>1 DEF Inv, ScanInv, ScanType, ScanStages
  <1>3. RowStep
    BY DEF ScanComplete, RowStep
  <1> QED BY <1>2, <1>3

LEMMA ScanCurrentInv ==
  ASSUME Inv, ScanCurrent
  PROVE  ScanInv'
  <1>1. clock' = clock /\ UNCHANGED rowVars /\ scan.pc = "current"
    BY DEF ScanCurrent
  <1>2. CASE AfterCurrent = "idle"
    <2>1. clock' \in Nat
      BY <1>1 DEF Inv, WorldInv
    <2> QED BY <1>2, <2>1, ScanEnds DEF ScanCurrent
  <1>3. CASE AfterCurrent # "idle"
    <2>1. scan' = [scan EXCEPT !.pc = AfterCurrent, !.win = win, !.mat = mat, !.fp = fp]
      BY <1>3 DEF ScanCurrent
    <2>2. win \in Record \cup {NoRecord} /\ mat \in BOOLEAN /\ fp \in DiskFile \cup {NoFile}
      BY DEF Inv, RowInv, RowType
    <2>3. scan.seen \in DiskFile \cup {NoFile, Unstable} /\ scan.root \in Roots
      BY <1>1 DEF Inv, ScanInv, ScanType
    <2>4. CASE AfterCurrent = "missing"
      <3>1. IsFile(win) /\ mat
        BY <2>4 DEF AfterCurrent
      <3>2. held /\ win.modified_ns <= clock + Skew
        BY <3>1 DEF Inv, RowInv, MaterializedWasHeld, ClockBound
      <3> QED BY <1>1, <2>1, <2>2, <2>3, <2>4, <3>1, <3>2
              DEF Inv, ScanInv, ScanType, ScanStages, IsFile, rowVars
    <2>5. CASE AfterCurrent = "future"
      <3>1. scan.seen \in DiskFile
        BY <2>3, <2>5 DEF AfterCurrent
      <3> QED BY <1>1, <2>1, <2>2, <2>3, <2>5, <3>1 DEF Inv, ScanInv, ScanType, ScanStages
    <2>6. CASE AfterCurrent = "winner"
      <3>1. scan.seen \in DiskFile /\ ~(scan.seen.modified_ns > FutureLimit(scan.now))
        BY <2>3, <2>6 DEF AfterCurrent
      <3>2. scan.seen.modified_ns \in Int /\ scan.now \in Int /\ Skew \in Int
        BY <3>1, BoundsAssumption DEF DiskFile, Time, Inv, ScanInv, ScanType
      <3>3. scan.seen.modified_ns <= scan.now + Skew
        BY <3>1, <3>2 DEF FutureLimit
      <3> QED BY <1>1, <2>1, <2>2, <2>3, <2>6, <3>1, <3>3 DEF Inv, ScanInv, ScanType, ScanStages
    <2>7. AfterCurrent \in {"idle", "missing", "future", "winner"}
      BY DEF AfterCurrent
    <2> QED BY <1>3, <2>4, <2>5, <2>6, <2>7
  <1> QED BY <1>2, <1>3

LEMMA ScanWinnerInv ==
  ASSUME Inv, ScanWinner
  PROVE  ScanInv'
  <1>1. PICK pc \in {"match", "merge"}, w \in {win, scan.win} :
            scan' = [scan EXCEPT !.win = w, !.pc = pc]
    <2>1. CASE win # NoRecord /\ scan.fp = scan.seen
      <3>1. scan' = [scan EXCEPT !.pc = "match"]
        BY <2>1 DEF ScanWinner, ScanGoto
      <3>2. scan' = [scan EXCEPT !.win = scan.win, !.pc = "match"]
        BY <3>1 DEF Inv, ScanInv, ScanType
      <3> QED BY <3>2
    <2>2. CASE ~(win # NoRecord /\ scan.fp = scan.seen)
      BY <2>2 DEF ScanWinner
    <2> QED BY <2>1, <2>2
  <1>2. clock' = clock /\ scan.pc = "winner" /\ win \in Record \cup {NoRecord}
    BY DEF ScanWinner, Inv, RowInv, RowType
  <1> QED BY <1>1, <1>2 DEF Inv, ScanInv, ScanType, ScanStages

LEMMA CandidateType ==
  ASSUME Inv, scan.pc = "merge"
  PROVE  /\ Candidate \in Record
         /\ IsFile(Candidate)
         /\ Candidate.author = Local
         /\ Candidate.modified_ns <= clock + Skew
  <1>1. scan.seen \in DiskFile /\ scan.seen.modified_ns <= scan.now + Skew /\ scan.now <= clock
    BY DEF Inv, ScanInv
  <1>2. scan.seen.modified_ns \in Time /\ scan.seen.body \in Contents
    BY <1>1 DEF DiskFile
  <1>3. Candidate \in Record
    BY <1>2, LocalAssumption DEF Candidate, Record
  <1>4. IsFile(Candidate)
    BY <1>2, <1>3, TombstoneAssumption, NoRecordAssumption DEF IsFile, Candidate
  <1>5. scan.seen.modified_ns \in Int /\ scan.now \in Int /\ clock \in Int /\ Skew \in Int
    BY <1>2, BoundsAssumption DEF Time, Inv, ScanInv, ScanType, WorldInv
  <1> QED BY <1>1, <1>3, <1>4, <1>5 DEF Candidate

LEMMA ScanMergeInv ==
  ASSUME Inv, ScanMerge
  PROVE  RowStep /\ ScanInv'
  <1>1. scan.pc = "merge" /\ merge_record(Candidate, TRUE) /\ clock' = clock
    BY DEF ScanMerge
  <1>2. RowStep
    BY <1>1, CandidateType DEF RowStep
  <1>3. CASE scan' = IdleScan
    <2>1. clock' \in Nat
      BY <1>1 DEF Inv, WorldInv
    <2> QED BY <1>2, <1>3, <2>1, ScanEnds
  <1>4. CASE scan' = [scan EXCEPT !.pc = "repair"]
    BY <1>1, <1>2, <1>4 DEF Inv, ScanInv, ScanType, ScanStages
  <1> QED BY <1>3, <1>4 DEF ScanMerge, ScanGoto

\* The deletion's stamp stays within the model's times: it is at most one past
\* the skew, which MaxTime covers.
LEMMA DeletionType ==
  ASSUME Inv, scan.pc = "missing"
  PROVE  /\ Deletion \in Record
         /\ ~IsFile(Deletion)
         /\ Deletion.author = Local
         /\ Deletion.modified_ns <= clock + Skew + 1
  <1>1. IsFile(scan.win) /\ scan.win.modified_ns <= clock + Skew /\ scan.now <= clock
    BY DEF Inv, ScanInv
  <1>2. scan.win \in Record
    BY <1>1 DEF Inv, ScanInv, ScanType, IsFile
  <1>3. scan.win.modified_ns \in 0 .. MaxTime
    BY <1>2 DEF Record, Time
  <1>4. scan.now \in Nat /\ clock \in 0 .. MaxClock
    BY DEF Inv, ScanInv, ScanType, WorldInv
  <1>5. Skew \in Nat /\ MaxClock \in Nat /\ MaxTime = MaxClock + Skew + 1
    BY BoundsAssumption
  <1> DEFINE t == IF scan.now > scan.win.modified_ns + 1 THEN scan.now ELSE scan.win.modified_ns + 1
  <1>6. t \in 0 .. MaxTime /\ t <= clock + Skew + 1
    BY <1>1, <1>3, <1>4, <1>5
  <1>7. Deletion = [modified_ns |-> t, author |-> Local, body |-> Tombstone]
    BY DEF Deletion
  <1> HIDE DEF t
  <1>8. Deletion \in Record
    BY <1>6, <1>7, LocalAssumption DEF Record, Time
  <1> QED BY <1>6, <1>7, <1>8 DEF IsFile

LEMMA ScanMissingInv ==
  ASSUME Inv, ScanMissing
  PROVE  RowStep /\ ScanInv'
  <1>1. scan.pc = "missing" /\ merge_record(Deletion, TRUE) /\ clock' = clock /\ scan' = IdleScan
    BY DEF ScanMissing
  <1>2. held
    BY <1>1 DEF Inv, ScanInv
  <1>3. RowStep
    BY <1>1, <1>2, DeletionType DEF RowStep
  <1>4. clock' \in Nat
    BY <1>1 DEF Inv, WorldInv
  <1> QED BY <1>1, <1>3, <1>4, ScanEnds

\* A step of the scanner keeps the invariant.
LEMMA ScanStepInv ==
  ASSUME Inv, ScanStep
  PROVE  RowStep /\ Inv'
  <1>0. clock' = clock /\ UNCHANGED sess
    BY DEF ScanStep, ScanOpen, ScanPaused, ScanWalk, ScanExcludes, ScanFails, ScanComplete,
           ScanCurrent, ScanFuture, ScanWinner, ScanMatch, ScanMerge, ScanRepair, ScanMissing
  <1>1. clock' = clock /\ clock \in Nat /\ UNCHANGED sess
    BY <1>0 DEF Inv, WorldInv
  <1>2. SessionInv'
    BY <1>1, SessionsUnchanged DEF Inv
  <1>3. WorldInv'
    <2>1. UNCHANGED <<root, disk, ghostVars>>
      BY DEF ScanStep, ScanOpen, ScanPaused, ScanWalk, ScanExcludes, ScanFails, ScanComplete,
             ScanCurrent, ScanFuture, ScanWinner, ScanMatch, ScanMerge, ScanRepair, ScanMissing
    <2>2. status' \in {status, "active", "paused", "error"}
      BY DEF ScanStep, ScanOpen, ScanPaused, ScanWalk, ScanExcludes, ScanFails, ScanComplete,
             ScanCurrent, ScanFuture, ScanWinner, ScanMatch, ScanMerge, ScanRepair, ScanMissing,
             ScanError, ScanDone
    <2>3. dbRoot' \in Roots \cup {NoRoot}
      <3>1. dbRoot' = dbRoot \/ (scan.pc = "complete" /\ dbRoot' = scan.root)
        BY DEF ScanStep, ScanOpen, ScanPaused, ScanWalk, ScanExcludes, ScanFails, ScanComplete,
               ScanCurrent, ScanFuture, ScanWinner, ScanMatch, ScanMerge, ScanRepair, ScanMissing
      <3> QED BY <3>1 DEF Inv, WorldInv, ScanInv
    <2> QED BY <1>1, <2>1, <2>2, <2>3 DEF Inv, WorldInv, ghostVars
  <1>4. ASSUME RowStep, ScanInv' PROVE RowStep /\ Inv'
    <2>1. RowInv'
      BY <1>1, <1>4, RowPreserved DEF Inv
    <2> QED BY <1>2, <1>3, <1>4, <2>1 DEF Inv
  <1>5. ASSUME UNCHANGED rowVars, ScanInv' PROVE RowStep /\ Inv'
    BY <1>4, <1>5 DEF RowStep
  <1>6. CASE ScanOpen
    BY <1>5, <1>6, ScanOpenInv DEF ScanOpen
  <1>7. CASE ScanPaused
    <2>1. ScanInv'
      BY <1>1, <1>7, ScanUnchanged DEF ScanPaused, rowVars, Inv
    <2> QED BY <1>5, <1>7, <2>1 DEF ScanPaused
  <1>8. CASE ScanWalk \/ ScanExcludes
    BY <1>5, <1>8, ScanWalkInv DEF ScanWalk, ScanExcludes
  <1>9. CASE ScanFails
    BY <1>1, <1>5, <1>9, ScanEnds DEF ScanFails, ScanError
  <1>10. CASE ScanComplete
    BY <1>4, <1>10, ScanCompleteInv
  <1>11. CASE ScanCurrent
    BY <1>5, <1>11, ScanCurrentInv DEF ScanCurrent
  <1>12. CASE ScanFuture
    <2>1. scan' = IdleScan
      BY <1>12 DEF ScanFuture, ScanDone, ScanError
    <2>2. RowStep
      BY <1>12 DEF ScanFuture, RowStep, mark_repair_required
    <2> QED BY <1>1, <1>4, <2>1, <2>2, ScanEnds
  <1>13. CASE ScanWinner
    BY <1>5, <1>13, ScanWinnerInv DEF ScanWinner
  <1>14. CASE ScanMatch
    <2>1. scan' = IdleScan /\ scan.seen \in DiskFile /\ scan.win \in Record \cup {NoRecord}
      BY <1>14 DEF ScanMatch, ScanDone, ScanError, Inv, ScanInv, ScanType
    <2>2. RowStep
      BY <1>14, <2>1 DEF ScanMatch, RowStep
    <2> QED BY <1>1, <1>4, <2>1, <2>2, ScanEnds
  <1>15. CASE ScanMerge
    BY <1>4, <1>15, ScanMergeInv
  <1>16. CASE ScanRepair
    <2>1. scan' = IdleScan
      BY <1>16 DEF ScanRepair, ScanDone, ScanError
    <2>2. RowStep
      BY <1>16 DEF ScanRepair, RowStep, mark_repair_required
    <2> QED BY <1>1, <1>4, <2>1, <2>2, ScanEnds
  <1>17. CASE ScanMissing
    BY <1>4, <1>17, ScanMissingInv
  <1> QED BY <1>6, <1>7, <1>8, <1>9, <1>10, <1>11, <1>12, <1>13, <1>14, <1>15, <1>16, <1>17
          DEF ScanStep

----------------------------------------------------------------------------
(* The sessions.                                                           *)

\* A session moves to a stage whose facts it has.
LEMMA SessionMoves ==
  ASSUME SessionInv, NEW s \in Sessions,
         NEW v \in [pc : SessionStages, rec : Record \cup {NoRecord}, root : Roots \cup {NoRoot}],
         v.pc \in HasRoot => v.root \in Roots,
         v.pc \in HasFile => v.rec \in Record /\ IsFile(v.rec),
         sess' = [sess EXCEPT ![s] = v]
  PROVE  SessionInv'
  <1>1. SessionType'
    BY DEF SessionInv, SessionType
  <1>2. \A x \in Sessions : sess'[x] = IF x = s THEN v ELSE sess[x]
    BY DEF SessionInv, SessionType
  <1> QED BY <1>1, <1>2 DEF SessionInv

LEMMA SessionGoes ==
  ASSUME SessionInv, NEW s \in Sessions, NEW pc \in SessionStages, Goto(s, pc),
         pc \in HasRoot => sess[s].root \in Roots,
         pc \in HasFile => sess[s].rec \in Record /\ IsFile(sess[s].rec)
  PROVE  SessionInv'
  <1> DEFINE v == [sess[s] EXCEPT !.pc = pc]
  <1>1. /\ v \in [pc : SessionStages, rec : Record \cup {NoRecord}, root : Roots \cup {NoRoot}]
        /\ v.pc = pc /\ v.root = sess[s].root /\ v.rec = sess[s].rec
    BY DEF SessionInv, SessionType
  <1>2. sess' = [sess EXCEPT ![s] = v]
    BY DEF Goto
  <1> HIDE DEF v
  <1> QED BY <1>1, <1>2, SessionMoves

LEMMA SessionLeaves ==
  ASSUME SessionInv, NEW s \in Sessions, Leave(s)
  PROVE  SessionInv'
  <1> DEFINE v == IdleSession
  <1>1. /\ v \in [pc : SessionStages, rec : Record \cup {NoRecord}, root : Roots \cup {NoRoot}]
        /\ v.pc \notin HasRoot /\ v.pc \notin HasFile
    BY DEF IdleSession, SessionStages, HasRoot, HasFile
  <1>2. sess' = [sess EXCEPT ![s] = v]
    BY DEF Leave
  <1> HIDE DEF v
  <1> QED BY <1>1, <1>2, SessionMoves

\* What the file system is left with after an install is a file.
LEMMA InstalledType ==
  ASSUME NEW r \in Record, IsFile(r)
  PROVE  Installed(r) \in DiskFile
  <1>1. r.modified_ns \in 0 .. MaxTime /\ AsFile(r).body \in Contents
    BY AsFileType DEF Record, Time, DiskFile
  <1>2. r.body \in Contents
    BY <1>1 DEF AsFile
  <1>3. Stored(r.modified_ns) \in 0 .. r.modified_ns
    BY <1>1, StoredAssumption DEF Time
  <1>4. Stored(r.modified_ns) \in 0 .. MaxTime
    BY <1>1, <1>3, MaxTimeAssumption
  <1> QED BY <1>2, <1>4 DEF Installed, DiskFile, Time

\* A session that merges a record of the peer's manifest.
LEMMA SessionMergeInv ==
  ASSUME Inv, NEW s \in Sessions, NEW r \in Remote, SessionMerge(s, r)
  PROVE  RowStep /\ SessionInv'
  <1>1. RowStep
    BY DEF SessionMerge, FutureLimit, RowStep
  <1> DEFINE pc == IF IsTombstone(r) THEN "tombWinner" ELSE "request"
  <1> DEFINE v == [sess[s] EXCEPT !.rec = r, !.pc = pc]
  <1>2. r \in Record /\ r # NoRecord
    BY RemoteAssumption, NoRecordAssumption
  <1>3. pc \in SessionStages /\ pc \notin HasRoot /\ (pc \in HasFile => IsFile(r))
    BY <1>2 DEF SessionStages, HasRoot, HasFile, IsFile, IsTombstone
  <1>4. sess' = [sess EXCEPT ![s] = v]
    BY DEF SessionMerge, Inv, SessionInv, SessionType
  <1> HIDE DEF pc
  <1>5. /\ v \in [pc : SessionStages, rec : Record \cup {NoRecord}, root : Roots \cup {NoRoot}]
        /\ v.pc = pc /\ v.rec = r
    BY <1>2, <1>3 DEF Inv, SessionInv, SessionType
  <1> HIDE DEF v
  <1>6. SessionInv'
    BY <1>2, <1>3, <1>4, <1>5, SessionMoves DEF Inv
  <1> QED BY <1>1, <1>6

\* A session opens the root to remove or install a file.
LEMMA SessionOpensRoot ==
  ASSUME Inv, NEW s \in Sessions, NEW pc \in {"tombRemove", "opened"}, root # NoRoot,
         pc = "opened" => sess[s].rec \in Record /\ IsFile(sess[s].rec),
         sess' = [sess EXCEPT ![s].pc = pc, ![s].root = root]
  PROVE  SessionInv'
  <1> DEFINE v == [sess[s] EXCEPT !.pc = pc, !.root = root]
  <1>1. pc \in SessionStages /\ (pc \in HasFile => pc = "opened") /\ root \in Roots
    BY DEF SessionStages, HasFile, Inv, WorldInv
  <1>2. sess' = [sess EXCEPT ![s] = v]
    BY DEF Inv, SessionInv, SessionType
  <1>3. /\ v \in [pc : SessionStages, rec : Record \cup {NoRecord}, root : Roots \cup {NoRoot}]
        /\ v.pc = pc /\ v.rec = sess[s].rec /\ v.root = root
    BY <1>1 DEF Inv, SessionInv, SessionType
  <1> HIDE DEF v
  <1> QED BY <1>1, <1>2, <1>3, SessionMoves DEF Inv

\* A session starts to serve the winner.
LEMMA SessionServeInv ==
  ASSUME Inv, NEW s \in Sessions, SessionServe(s)
  PROVE  SessionInv'
  <1> DEFINE v == [sess[s] EXCEPT !.pc = "asked", !.rec = win]
  <1>1. sess' = [sess EXCEPT ![s] = v]
    BY DEF SessionServe, Inv, SessionInv, SessionType
  <1>2. "asked" \in SessionStages /\ "asked" \notin HasRoot /\ "asked" \notin HasFile
    BY DEF SessionStages, HasFile, HasRoot
  <1>3. /\ v \in [pc : SessionStages, rec : Record \cup {NoRecord}, root : Roots \cup {NoRoot}]
        /\ v.pc = "asked"
    BY <1>2 DEF Inv, SessionInv, SessionType, RowInv, RowType
  <1> HIDE DEF v
  <1> QED BY <1>1, <1>2, <1>3, SessionMoves DEF Inv

\* A step of a session keeps the invariant.
LEMMA SessionStepInv ==
  ASSUME Inv, NEW s \in Sessions, SessionStep(s)
  PROVE  RowStep /\ Inv'
  <1> USE DEF Goto
  <1>0. UNCHANGED <<clock, status, root, scan, edits, typed, erased>>
    BY DEF SessionStep, SessionMerge, SessionTombWinner, SessionTombState, SessionTombRemove,
           SessionTombMark, SessionRequest, SessionReceive, SessionFails, SessionOpen,
           SessionInstall, SessionInstallFails, SessionMark, SessionMarkFailed, SessionServe,
           SessionServeState, SessionVerify, SessionServeBad, ghostVars
  <1>00. crossed' \in BOOLEAN
    <2>1. CASE SessionTombRemove(s)
      BY <2>1 DEF SessionTombRemove, Inv, WorldInv
    <2>2. CASE SessionMark(s)
      BY <2>2 DEF SessionMark, Inv, WorldInv
    <2>3. CASE crossed' = crossed
      BY <2>3 DEF Inv, WorldInv
    <2> QED BY <2>1, <2>2, <2>3
        DEF SessionStep, SessionMerge, SessionTombWinner, SessionTombState, SessionTombMark,
            SessionRequest, SessionReceive, SessionFails, SessionOpen, SessionInstall,
            SessionInstallFails, SessionMarkFailed, SessionServe, SessionServeState,
            SessionVerify, SessionServeBad, ghostVars
  <1>1. clock' = clock /\ clock \in Nat
    BY <1>0 DEF Inv, WorldInv
  <1>2. SessionInv /\ sess[s].pc \in SessionStages
    BY DEF Inv, SessionInv, SessionType
  <1>3. ASSUME RowStep, SessionInv',
               dbRoot' \in Roots \cup {NoRoot},
               disk' \in [Roots -> DiskFile \cup {NoFile}]
        PROVE  RowStep /\ Inv'
    <2>1. RowInv' /\ (held => held')
      BY <1>1, <1>3, RowPreserved, RowStepHeld DEF Inv, RowInv
    <2>2. ScanInv'
      BY <1>0, <1>1, <2>1, ScanUnchanged DEF Inv
    <2>3. WorldInv'
      BY <1>0, <1>00, <1>3 DEF Inv, WorldInv
    <2> QED BY <1>3, <2>1, <2>2, <2>3 DEF Inv
  <1>4. ASSUME RowStep, SessionInv', UNCHANGED <<dbRoot, disk>> PROVE RowStep /\ Inv'
    BY <1>3, <1>4 DEF Inv, WorldInv
  <1>5. ASSUME UNCHANGED <<rowVars, dbRoot, disk>>, SessionInv' PROVE RowStep /\ Inv'
    BY <1>4, <1>5 DEF RowStep
  <1>6. CASE \E r \in Remote : SessionMerge(s, r)
    BY <1>4, <1>6, SessionMergeInv DEF SessionMerge
  <1>7. CASE SessionTombWinner(s)
    <2>1. SessionInv'
      BY <1>2, <1>7, SessionGoes, SessionLeaves
         DEF SessionTombWinner, SessionStages, HasRoot, HasFile
    <2> QED BY <1>5, <1>7, <2>1 DEF SessionTombWinner
  <1>8. CASE SessionTombState(s)
    <2>1. SessionInv'
      BY <1>2, <1>8, SessionOpensRoot, SessionLeaves DEF SessionTombState
    <2> QED BY <1>5, <1>8, <2>1 DEF SessionTombState
  <1>9. CASE SessionTombRemove(s)
    <2>1. sess[s].root \in Roots
      BY <1>9 DEF SessionTombRemove, Inv, SessionInv, HasRoot
    <2>2. SessionInv'
      BY <1>2, <1>9, <2>1, SessionGoes DEF SessionTombRemove, SessionStages, HasFile
    <2>3. disk' \in [Roots -> DiskFile \cup {NoFile}] /\ dbRoot' \in Roots \cup {NoRoot}
      BY <1>9, <2>1 DEF SessionTombRemove, Inv, WorldInv
    <2> QED BY <1>3, <1>9, <2>2, <2>3 DEF SessionTombRemove, RowStep
  <1>10. CASE SessionTombMark(s)
    <2>1. RowStep
      BY <1>10 DEF SessionTombMark, RowStep
    <2> QED BY <1>2, <1>4, <1>10, <2>1, SessionLeaves DEF SessionTombMark
  <1>11. CASE SessionRequest(s)
    <2>1. sess[s].rec \in Record /\ IsFile(sess[s].rec)
      BY <1>11 DEF SessionRequest, Inv, SessionInv, HasFile
    <2>2. SessionInv'
      BY <1>2, <1>11, <2>1, SessionGoes, SessionLeaves
         DEF SessionRequest, SessionStages, HasRoot
    <2> QED BY <1>5, <1>11, <2>2 DEF SessionRequest
  <1>12. CASE SessionReceive(s)
    <2>1. sess[s].rec \in Record /\ IsFile(sess[s].rec)
      BY <1>12 DEF SessionReceive, Inv, SessionInv, HasFile
    <2>2. SessionInv'
      BY <1>2, <1>12, <2>1, SessionGoes, SessionLeaves
         DEF SessionReceive, SessionStages, HasRoot
    <2> QED BY <1>5, <1>12, <2>2 DEF SessionReceive
  <1>13. CASE SessionFails(s)
    BY <1>2, <1>5, <1>13, SessionLeaves DEF SessionFails
  <1>14. CASE SessionOpen(s)
    <2>1. sess[s].rec \in Record /\ IsFile(sess[s].rec)
      BY <1>14 DEF SessionOpen, Inv, SessionInv, HasFile
    <2>2. CASE root = NoRoot
      <3>1. SessionInv'
        BY <1>2, <1>14, <2>1, <2>2, SessionGoes DEF SessionOpen, SessionStages, HasRoot
      <3> QED BY <1>5, <1>14, <3>1 DEF SessionOpen
    <2>3. CASE root # NoRoot
      <3>1. SessionInv'
        BY <1>14, <2>1, <2>3, SessionOpensRoot DEF SessionOpen
      <3> QED BY <1>5, <1>14, <3>1 DEF SessionOpen
    <2> QED BY <2>2, <2>3
  <1>15. CASE SessionInstall(s)
    <2>1. sess[s].rec \in Record /\ IsFile(sess[s].rec) /\ sess[s].root \in Roots
      BY <1>15 DEF SessionInstall, Inv, SessionInv, HasFile, HasRoot
    <2>2. SessionInv'
      BY <1>2, <1>15, <2>1, SessionGoes DEF SessionInstall, SessionStages
    <2>3. Installed(sess[s].rec) \in DiskFile
      BY <2>1, InstalledType
    <2>4. disk' \in [Roots -> DiskFile \cup {NoFile}] /\ dbRoot' \in Roots \cup {NoRoot}
      BY <1>15, <2>1, <2>3 DEF SessionInstall, Inv, WorldInv
    <2> QED BY <1>3, <1>15, <2>2, <2>4 DEF SessionInstall, RowStep
  <1>16. CASE SessionInstallFails(s)
    <2>1. sess[s].rec \in Record /\ IsFile(sess[s].rec)
      BY <1>16 DEF SessionInstallFails, Inv, SessionInv, HasFile
    <2>2. SessionInv'
      BY <1>2, <1>16, <2>1, SessionGoes DEF SessionInstallFails, SessionStages, HasRoot
    <2> QED BY <1>5, <1>16, <2>2 DEF SessionInstallFails
  <1>17. CASE SessionMark(s)
    <2>1. sess[s].rec \in Record /\ IsFile(sess[s].rec) /\ sess[s].root \in Roots
      BY <1>17 DEF SessionMark, Inv, SessionInv, HasFile, HasRoot
    <2>2. Installed(sess[s].rec) \in DiskFile
      BY <2>1, InstalledType
    <2>3. RowStep
      BY <1>17, <2>1, <2>2 DEF SessionMark, RowStep
    <2>4. SessionInv'
      BY <1>2, <1>17, SessionLeaves DEF SessionMark
    <2>5. disk' \in [Roots -> DiskFile \cup {NoFile}] /\ dbRoot' \in Roots \cup {NoRoot}
      BY <1>17, <2>1 DEF SessionMark, Inv, WorldInv
    <2> QED BY <1>3, <2>3, <2>4, <2>5
  <1>18. CASE SessionMarkFailed(s)
    <2>1. RowStep
      BY <1>18 DEF SessionMarkFailed, RowStep, mark_repair_required
    <2> QED BY <1>2, <1>4, <1>18, <2>1, SessionLeaves DEF SessionMarkFailed
  <1>19. CASE SessionServe(s)
    BY <1>5, <1>19, SessionServeInv DEF SessionServe
  <1>20. CASE SessionServeState(s)
    <2>1. SessionInv'
      BY <1>2, <1>20, SessionGoes, SessionLeaves
         DEF SessionServeState, SessionStages, HasRoot, HasFile
    <2> QED BY <1>5, <1>20, <2>1 DEF SessionServeState
  <1>21. CASE SessionVerify(s)
    <2>1. SessionInv'
      BY <1>2, <1>21, SessionGoes, SessionLeaves
         DEF SessionVerify, SessionStages, HasRoot, HasFile
    <2> QED BY <1>5, <1>21, <2>1 DEF SessionVerify
  <1>22. CASE SessionServeBad(s)
    <2>1. RowStep
      BY <1>22 DEF SessionServeBad, RowStep, mark_repair_required
    <2> QED BY <1>2, <1>4, <1>22, <2>1, SessionLeaves DEF SessionServeBad
  <1> QED BY <1>6, <1>7, <1>8, <1>9, <1>10, <1>11, <1>12, <1>13, <1>14, <1>15, <1>16, <1>17,
             <1>18, <1>19, <1>20, <1>21, <1>22 DEF SessionStep

----------------------------------------------------------------------------
(* The environment.                                                        *)

\* The clock, the user and a crash keep the invariant.
LEMMA EnvironmentInv ==
  ASSUME Inv, Environment
  PROVE  RowStep /\ Inv'
  <1>1. clock \in 0 .. MaxClock /\ MaxClock \in Nat /\ MaxEdits \in Nat
    BY BoundsAssumption DEF Inv, WorldInv
  <1>2. UNCHANGED rowVars
    BY DEF Environment, Tick, UserWrites, UserDeletes, UserRetargets, Crash
  <1>3. clock' \in 0 .. MaxClock /\ clock <= clock'
    BY <1>1 DEF Environment, Tick, UserWrites, UserDeletes, UserRetargets, Crash
  <1>4. RowStep /\ RowInv' /\ (held => held')
    <2>1. RowStep /\ (held => held')
      BY <1>2 DEF RowStep, rowVars
    <2> QED BY <1>1, <1>3, <2>1, RowPreserved DEF Inv
  <1>5. WorldInv'
    <2>1. CASE Tick
      BY <1>3, <2>1 DEF Tick, Inv, WorldInv, ghostVars
    <2>2. CASE \E r \in Roots : \E f \in UserFiles : UserWrites(r, f)
      <3>1. PICK r \in Roots, f \in UserFiles : UserWrites(r, f)
        BY <2>2
      <3>2. f \in DiskFile
        BY <3>1, UserFilesAssumption, Zenon DEF UserFilesAssumption
      <3> QED BY <1>1, <3>1, <3>2 DEF UserWrites, Inv, WorldInv
    <2>3. CASE \E r \in Roots : UserDeletes(r)
      BY <1>1, <2>3 DEF UserDeletes, Inv, WorldInv
    <2>4. CASE \E r \in Roots \cup {NoRoot} : UserRetargets(r)
      BY <1>1, <2>4 DEF UserRetargets, Inv, WorldInv
    <2>5. CASE Crash
      BY <2>5 DEF Crash, Inv, WorldInv, ghostVars
    <2> QED BY <2>1, <2>2, <2>3, <2>4, <2>5 DEF Environment
  <1>6. ScanInv' /\ SessionInv'
    <2>1. CASE UNCHANGED <<scan, sess>>
      BY <1>1, <1>3, <1>4, <2>1, ScanUnchanged, SessionsUnchanged DEF Inv
    <2>2. CASE Crash
      <3>1. ScanInv'
        BY <1>3, <2>2, ScanEnds DEF Crash
      <3>2. sess' = [s \in Sessions |-> IdleSession]
        BY <2>2 DEF Crash
      <3>3. SessionInv'
        BY <3>2 DEF SessionInv, SessionType, IdleSession, SessionStages, HasRoot, HasFile
      <3> QED BY <3>1, <3>3
    <2> QED BY <2>1, <2>2 DEF Environment, Tick, UserWrites, UserDeletes, UserRetargets
  <1> QED BY <1>4, <1>5, <1>6 DEF Inv

----------------------------------------------------------------------------
(* The theorems.                                                           *)

LEMMA InitInv == Init => Inv
  <1> SUFFICES ASSUME Init PROVE Inv
    OBVIOUS
  <1>1. 0 \in 0 .. MaxClock /\ 0 \in 0 .. MaxEdits
    BY BoundsAssumption
  <1>2. WorldInv
    BY <1>1 DEF Init, WorldInv
  <1>3. RowInv
    BY DEF Init, RowInv, RowType, RowIsGreatest, FingerprintIffMaterialized,
           MaterializedWasHeld, OnlyKnownDeleted, ClockBound, IsFile, IsTombstone
  <1>4. ScanInv
    BY <1>1 DEF Init, ScanInv, ScanType, IdleScan, ScanStages
  <1>5. SessionInv
    BY DEF Init, SessionInv, SessionType, IdleSession, SessionStages, HasRoot, HasFile
  <1> QED BY <1>2, <1>3, <1>4, <1>5 DEF Inv

LEMMA NextInv == Inv /\ [Next]_vars => RowStep /\ Inv'
  <1> SUFFICES ASSUME Inv, [Next]_vars PROVE RowStep /\ Inv'
    OBVIOUS
  <1>1. CASE ScanStep
    BY <1>1, ScanStepInv
  <1>2. CASE \E s \in Sessions : SessionStep(s)
    BY <1>2, SessionStepInv
  <1>3. CASE Environment
    BY <1>3, EnvironmentInv
  <1>4. CASE UNCHANGED vars
    <2>1. clock' = clock /\ clock \in Nat /\ RowStep
      BY <1>4 DEF vars, Inv, WorldInv, RowStep
    <2>2. RowInv'
      BY <2>1, RowPreserved DEF Inv
    <2>3. ScanInv' /\ SessionInv'
      BY <1>4, <2>1, ScanUnchanged, SessionsUnchanged DEF vars, rowVars, Inv
    <2>4. WorldInv'
      BY <1>4 DEF vars, ghostVars, Inv, WorldInv
    <2> QED BY <2>1, <2>2, <2>3, <2>4 DEF Inv
  <1> QED BY <1>1, <1>2, <1>3, <1>4 DEF Next

LEMMA Invariance == Spec => []Inv
  BY InitInv, NextInv, PTL DEF Spec

\* Every variable keeps its type; in particular no timestamp the scanner makes
\* up for a deletion exceeds what the skew allows, and the CHECK constraint of
\* path_records holds whatever transactions interleave: a row has a fingerprint
\* if and only if it is a materialized file.
THEOREM TypeCorrect == Spec => []TypeOK
  <1>1. Inv => TypeOK
    BY DEF Inv, WorldInv, RowInv, RowType, ScanInv, ScanType, SessionInv, SessionType, TypeOK
  <1> QED BY <1>1, Invariance, PTL

\* No file from beyond the clock skew is ever stored, and no deletion more than
\* one past it.
THEOREM ClockCorrect == Spec => []ClockBound
  <1>1. Inv => ClockBound
    BY DEF Inv, RowInv
  <1> QED BY <1>1, Invariance, PTL

\* The scanner writes no tombstone for a path this device never held.
THEOREM KnownDeletedCorrect == Spec => []OnlyKnownDeleted
  <1>1. Inv => OnlyKnownDeleted
    BY DEF Inv, RowInv
  <1> QED BY <1>1, Invariance, PTL

\* The row refines the last-writer-wins register: on every device the winner
\* is the greatest record ever presented, by scanner or session, in any order.
THEOREM RegisterCorrect == Spec => RegisterSpec
  <1>1. \A S : Register!Greatest(S) = Greatest(S)
    BY DEF Register!Greatest, Greatest, Register!Wins, Wins
  <1>2. Init => Register!RegInit
    BY DEF Init, Register!RegInit
  <1>3. Inv /\ [Next]_vars => [Register!RegNext]_(Register!regVars)
    <2> SUFFICES ASSUME Inv, [Next]_vars
                 PROVE  [Register!RegNext]_(Register!regVars)
      OBVIOUS
    <2>1. RowStep /\ RowType' /\ RowIsGreatest'
      BY NextInv DEF Inv, RowInv
    <2>2. CASE UNCHANGED <<presented, win>>
      BY <2>2 DEF Register!regVars
    <2>3. ASSUME NEW r \in Record, presented' = presented \cup {r}
          PROVE  Register!RegNext
      <3>1. win' \in presented' /\ presented' \in SUBSET Record
            /\ \A s \in presented' \ {win'} : Wins(win', s)
        BY <2>1, <2>3 DEF RowIsGreatest, RowType
      <3>2. win' = Greatest(presented')
        BY <3>1, GreatestUnique
      <3>3. Register!Present(r)
        BY <1>1, <2>3, <3>2 DEF Register!Present
      <3>4. r \in Register!Record
        BY DEF Register!Record, Record, Register!Time, Time
      <3> QED BY <3>3, <3>4 DEF Register!RegNext
    <2>4. CASE \E r \in Record, l \in BOOLEAN : merge_record(r, l)
      BY <2>3, <2>4 DEF merge_record, upsert_record
    <2> QED BY <2>1, <2>2, <2>4, RemoteAssumption
            DEF RowStep, rowVars, Unmaterialize, update_materialized_fingerprint,
                mark_tombstone_materialized
  <1> QED BY <1>2, <1>3, Invariance, PTL DEF Spec, RegisterSpec, Register!RegSpec

----------------------------------------------------------------------------
(* No echo: what a session installed is never taken for a local edit.      *)

\* A file on disk is the user's, or what a session installed for a record.
Known(f) == f \in typed \/ \E x \in presented : IsFile(x) /\ f = Installed(x)

\* A file the scanner offers as a local edit is the user's, or a record that
\* was presented is later than it, or says otherwise for the same time.
Surpassed(f) ==
    \/ f \in typed
    \/ \E x \in presented :
          \/ x.modified_ns > f.modified_ns
          \/ x.modified_ns = f.modified_ns /\ x.body # f.body

EchoInv ==
    /\ \A r \in Roots : disk[r] # NoFile => Known(disk[r])
    /\ scan.seen \in DiskFile => Known(scan.seen)
    /\ scan.pc = "merge" => Surpassed(scan.seen)
    /\ \A s \in Sessions : sess[s].pc \in HasFile => sess[s].rec \in presented
    /\ NoEcho

\* Histories only grow, so what is known of a file stays true.
LEMMA EchoGrows ==
  ASSUME typed \subseteq typed', presented \subseteq presented'
  PROVE  /\ \A f : Known(f) => Known(f)'
         /\ \A f : Surpassed(f) => Surpassed(f)'
  BY DEF Known, Surpassed

\* Every step lets the histories grow, and only the user writes.
LEMMA HistoriesGrow ==
  ASSUME Inv, [Next]_vars
  PROVE  typed \subseteq typed' /\ presented \subseteq presented'
  <1>1. presented \subseteq presented'
    <2>1. RowStep
      BY NextInv
    <2> QED BY <2>1 DEF RowStep, rowVars, Unmaterialize, update_materialized_fingerprint,
               mark_tombstone_materialized, merge_record
  <1>2. typed \subseteq typed'
    <2>1. CASE ScanStep
      BY <2>1 DEF ScanStep, ScanOpen, ScanPaused, ScanWalk, ScanExcludes, ScanFails,
             ScanComplete, ScanCurrent, ScanFuture, ScanWinner, ScanMatch, ScanMerge,
             ScanRepair, ScanMissing, ghostVars
    <2>2. CASE \E s \in Sessions : SessionStep(s)
      BY <2>2 DEF SessionStep, SessionMerge, SessionTombWinner, SessionTombState,
             SessionTombRemove, SessionTombMark, SessionRequest, SessionReceive,
             SessionFails, SessionOpen, SessionInstall, SessionInstallFails, SessionMark,
             SessionMarkFailed, SessionServe, SessionServeState, SessionVerify,
             SessionServeBad, ghostVars
    <2>3. CASE Environment
      BY <2>3 DEF Environment, Tick, UserWrites, UserDeletes, UserRetargets, Crash, ghostVars
    <2>4. CASE UNCHANGED vars
      BY <2>4 DEF vars, ghostVars
    <2> QED BY <2>1, <2>2, <2>3, <2>4 DEF Next
  <1> QED BY <1>1, <1>2

\* While the row's record stays, so does what NoEcho says of it.
LEMMA NoEchoKept ==
  ASSUME NoEcho, win' = win, typed \subseteq typed', presented \subseteq presented'
  PROVE  NoEcho'
  BY DEF NoEcho, IsFile, AsFile

\* The row of a file that the scanner does not match is later than the file or
\* says otherwise for the same time.
LEMMA UnmatchedSurpassed ==
  ASSUME Inv, EchoInv, ScanWinner, scan'.pc = "merge"
  PROVE  Surpassed(scan.seen)
  <1>1. /\ scan.pc = "winner"
        /\ ~(IsFile(win) /\ AsFile(win) = scan.seen) \/ win = NoRecord
    <2>1. scan.pc = "winner" /\ scan \in [pc : ScanStages, now : 0 .. MaxClock,
              root : Roots \cup {NoRoot}, seen : DiskFile \cup {NoFile, Unstable},
              win : Record \cup {NoRecord}, mat : BOOLEAN, fp : DiskFile \cup {NoFile}]
      BY DEF ScanWinner, Inv, ScanInv, ScanType
    <2> QED BY <2>1 DEF ScanWinner, ScanGoto
  <1>2. scan.seen \in DiskFile /\ Known(scan.seen)
    BY <1>1 DEF Inv, ScanInv, EchoInv
  <1>3. CASE scan.seen \in typed
    BY <1>3 DEF Surpassed
  <1>4. CASE scan.seen \notin typed
    <2>1. PICK x \in presented : IsFile(x) /\ scan.seen = Installed(x)
      BY <1>2, <1>4 DEF Known
    <2>2. x \in Record /\ win \in Record /\ win # NoRecord /\ win \in presented
      BY <2>1 DEF Inv, RowInv, RowType, RowIsGreatest
    <2>3. win = x \/ Wins(win, x)
      BY <2>1, <2>2 DEF Inv, RowInv, RowIsGreatest
    <2>4. x.modified_ns \in 0 .. MaxTime /\ win.modified_ns \in Int
      BY <2>2 DEF Record, Time
    <2>5. Stored(x.modified_ns) \in 0 .. x.modified_ns
      BY <2>4, StoredAssumption DEF Time
    <2>6. scan.seen.modified_ns = Stored(x.modified_ns) /\ scan.seen.body = x.body
      BY <2>1 DEF Installed
    <2>7. CASE Stored(x.modified_ns) < x.modified_ns
      BY <2>1, <2>6, <2>7 DEF Surpassed
    <2>8. CASE Stored(x.modified_ns) = x.modified_ns
      <3>1. win.modified_ns >= x.modified_ns
        BY <2>3, <2>4 DEF Wins
      <3>2. CASE win.modified_ns > x.modified_ns
        BY <2>2, <2>6, <2>8, <3>2 DEF Surpassed
      <3>3. CASE win.modified_ns = x.modified_ns
        <4>1. CASE win.body = x.body
          <5>1. IsFile(win)
            BY <2>1, <2>2, <4>1 DEF IsFile
          <5>2. AsFile(win) = scan.seen
            BY <2>1, <2>8, <3>3, <4>1 DEF AsFile, Installed
          <5> QED BY <1>1, <2>2, <5>1, <5>2
        <4>2. CASE win.body # x.body
          BY <2>2, <2>6, <2>8, <3>3, <4>2 DEF Surpassed
        <4> QED BY <4>1, <4>2
      <3> QED BY <2>4, <3>1, <3>2, <3>3
    <2> QED BY <2>4, <2>5, <2>7, <2>8
  <1> QED BY <1>3, <1>4

\* A file the scanner offers wins as a local edit only if the user wrote it or
\* a record of the same time says otherwise: later records would have won.
LEMMA ScanMergeEcho ==
  ASSUME Inv, EchoInv, ScanMerge
  PROVE  NoEcho'
  <1>1. scan.pc = "merge" /\ merge_record(Candidate, TRUE) /\ typed' = typed
    BY DEF ScanMerge, ghostVars
  <1>2. presented \subseteq presented'
    BY <1>1 DEF merge_record
  <1>3. CASE ~Accepts(Candidate)
    BY <1>1, <1>2, <1>3, NoEchoKept DEF merge_record, upsert_record, EchoInv
  <1>4. CASE Accepts(Candidate)
    <2> DEFINE c == Candidate
    <2>1. win' = c /\ c \in Record
      BY <1>1, <1>4, CandidateType DEF merge_record, upsert_record
    <2>2. scan.seen \in DiskFile /\ c.modified_ns = scan.seen.modified_ns
          /\ c.body = scan.seen.body
      BY <1>1 DEF Inv, ScanInv, Candidate
    <2>3. AsFile(c) = scan.seen
      BY <2>2 DEF AsFile, DiskFile
    <2>4. Surpassed(scan.seen)
      BY <1>1 DEF EchoInv
    <2> HIDE DEF c
    <2>5. CASE scan.seen \in typed
      BY <1>1, <2>1, <2>3, <2>5 DEF NoEcho
    <2>6. CASE \E x \in presented : x.modified_ns = scan.seen.modified_ns
                                    /\ x.body # scan.seen.body
      BY <1>2, <2>1, <2>2, <2>6 DEF NoEcho
    <2>7. ASSUME NEW x \in presented, x.modified_ns > scan.seen.modified_ns
          PROVE  FALSE
      <3>1. x \in Record /\ win \in Record /\ win # NoRecord
        BY <2>7 DEF Inv, RowInv, RowType, RowIsGreatest
      <3>2. win = x \/ Wins(win, x)
        BY <3>1 DEF Inv, RowInv, RowIsGreatest
      <3>3. win.modified_ns >= x.modified_ns
        BY <3>1, <3>2, RecordFields DEF Wins
      <3>4. Wins(c, win)
        BY <1>4, <3>1 DEF Accepts, c
      <3> QED BY <2>1, <2>2, <2>7, <3>1, <3>3, <3>4, RecordFields DEF Wins
    <2> QED BY <2>4, <2>5, <2>6, <2>7 DEF Surpassed
  <1> QED BY <1>3, <1>4

\* A step of the scanner takes what it sees from the disk.
LEMMA ScanStepEcho ==
  ASSUME Inv, EchoInv, ScanStep, typed \subseteq typed', presented \subseteq presented'
  PROVE  EchoInv'
  <1>1. UNCHANGED <<disk, sess>>
    BY DEF ScanStep, ScanOpen, ScanPaused, ScanWalk, ScanExcludes, ScanFails, ScanComplete,
           ScanCurrent, ScanFuture, ScanWinner, ScanMatch, ScanMerge, ScanRepair, ScanMissing
  <1>2. /\ \A r \in Roots : disk'[r] # NoFile => Known(disk[r])'
        /\ \A s \in Sessions : sess'[s].pc \in HasFile => sess'[s].rec \in presented'
    BY <1>1, EchoGrows DEF EchoInv
  <1>3. ASSUME scan'.seen \in DiskFile => Known(scan.seen)',
               scan'.pc = "merge" => Surpassed(scan.seen)',
               NoEcho'
        PROVE  EchoInv'
    BY <1>2, <1>3 DEF EchoInv
  <1>4. ASSUME scan' = IdleScan, NoEcho' PROVE EchoInv'
    <2>1. scan'.seen \notin DiskFile /\ scan'.pc # "merge"
      BY <1>4, FileAssumption DEF IdleScan
    <2> QED BY <1>3, <1>4, <2>1
  <1>5. win' = win => NoEcho'
    BY NoEchoKept DEF EchoInv
  <1>6. ASSUME NEW pc, pc # "merge", scan'.pc = pc, scan'.seen = scan.seen, win' = win
        PROVE  EchoInv'
    BY <1>3, <1>5, <1>6, EchoGrows DEF EchoInv
  <1>7. ScanType
    BY DEF Inv, ScanInv
  <1>8. CASE ScanOpen
    <2>1. scan'.seen = NoFile /\ scan'.pc = "walk" /\ win' = win
      BY <1>8 DEF ScanOpen, IdleScan, rowVars
    <2> QED BY <1>3, <1>5, <2>1, FileAssumption
  <1>9. CASE ScanPaused
    BY <1>3, <1>5, <1>9, EchoGrows DEF ScanPaused, rowVars, EchoInv
  <1>10. CASE ScanWalk
    <2>1. scan'.seen = disk[scan.root] /\ scan'.pc = "complete" /\ win' = win
      BY <1>7, <1>10 DEF ScanWalk, ScanType, rowVars
    <2>2. scan.root \in Roots
      BY <1>10 DEF ScanWalk, Inv, ScanInv
    <2>3. scan'.seen \in DiskFile => Known(scan'.seen)
      BY <2>1, <2>2, FileAssumption DEF EchoInv
    <2> QED BY <1>3, <1>5, <2>1, <2>3, EchoGrows
  <1>11. CASE ScanExcludes
    <2>1. scan'.seen = Unstable /\ scan'.pc = "complete" /\ win' = win
      BY <1>7, <1>11 DEF ScanExcludes, ScanType, rowVars
    <2> QED BY <1>3, <1>5, <2>1, FileAssumption
  <1>12. CASE ScanFails
    BY <1>4, <1>5, <1>12 DEF ScanFails, ScanError, rowVars
  <1>13. CASE ScanComplete
    <2>1. scan'.seen = scan.seen /\ scan'.pc = "current"
      BY <1>7, <1>13 DEF ScanComplete, ScanGoto, ScanType
    <2>2. win' = win
      BY <1>13 DEF ScanComplete, Unmaterialize, rowVars
    <2> QED BY <1>6, <2>1, <2>2
  <1>14. CASE ScanCurrent
    <2>1. win' = win
      BY <1>14 DEF ScanCurrent, rowVars
    <2>2. CASE scan' = IdleScan
      BY <1>4, <1>5, <2>1, <2>2
    <2>3. CASE scan' # IdleScan
      <3>1. scan'.seen = scan.seen /\ scan'.pc = AfterCurrent
        BY <1>7, <1>14, <2>3 DEF ScanCurrent, ScanType
      <3>2. AfterCurrent # "merge"
        BY DEF AfterCurrent
      <3> QED BY <1>6, <2>1, <3>1, <3>2
    <2> QED BY <2>2, <2>3
  <1>15. CASE ScanFuture \/ ScanMatch \/ ScanRepair
    <2>1. scan' = IdleScan
      BY <1>15 DEF ScanFuture, ScanMatch, ScanRepair, ScanDone, ScanError
    <2>2. win' = win
      BY <1>15 DEF ScanFuture, ScanMatch, ScanRepair, mark_repair_required, Unmaterialize,
                   update_materialized_fingerprint, rowVars
    <2> QED BY <1>4, <1>5, <2>1, <2>2
  <1>16. CASE ScanWinner
    <2>1. scan'.seen = scan.seen /\ win' = win
      BY <1>7, <1>16 DEF ScanWinner, ScanGoto, ScanType, rowVars
    <2>2. scan'.pc = "merge" => Surpassed(scan'.seen)
      BY <1>16, <2>1, UnmatchedSurpassed
    <2> QED BY <1>3, <1>5, <2>1, <2>2, EchoGrows DEF EchoInv
  <1>17. CASE ScanMerge
    <2>1. NoEcho'
      BY <1>17, ScanMergeEcho
    <2>2. CASE scan' = IdleScan
      BY <1>4, <2>1, <2>2
    <2>3. CASE scan' # IdleScan
      <3>1. scan'.seen = scan.seen /\ scan'.pc = "repair"
        BY <1>7, <1>17, <2>3 DEF ScanMerge, ScanGoto, ScanType
      <3> QED BY <1>3, <2>1, <3>1, EchoGrows DEF EchoInv
    <2> QED BY <2>2, <2>3
  <1>18. CASE ScanMissing
    <2>1. scan.pc = "missing" /\ scan' = IdleScan /\ merge_record(Deletion, TRUE)
      BY <1>18 DEF ScanMissing
    <2>2. win' = win \/ win' = Deletion
      BY <2>1 DEF merge_record, upsert_record
    <2>3. NoEcho'
      BY <1>5, <2>1, <2>2, DeletionType DEF NoEcho
    <2> QED BY <1>4, <2>1, <2>3
  <1> QED BY <1>8, <1>9, <1>10, <1>11, <1>12, <1>13, <1>14, <1>15, <1>16, <1>17, <1>18
          DEF ScanStep

\* A session installs only a record it presented before.
LEMMA SessionStepEcho ==
  ASSUME Inv, EchoInv, NEW s \in Sessions, SessionStep(s),
         typed \subseteq typed', presented \subseteq presented'
  PROVE  EchoInv'
  <1>0. UNCHANGED scan
    BY DEF SessionStep, SessionMerge, SessionTombWinner, SessionTombState, SessionTombRemove,
           SessionTombMark, SessionRequest, SessionReceive, SessionFails, SessionOpen,
           SessionInstall, SessionInstallFails, SessionMark, SessionMarkFailed, SessionServe,
           SessionServeState, SessionVerify, SessionServeBad
  <1>1. /\ scan'.seen \in DiskFile => Known(scan.seen)'
        /\ scan'.pc = "merge" => Surpassed(scan.seen)'
    BY <1>0, EchoGrows DEF EchoInv
  <1>2. SessionType /\ disk \in [Roots -> DiskFile \cup {NoFile}]
    BY DEF Inv, SessionInv, WorldInv
  <1>3. ASSUME \A r \in Roots : disk'[r] \in {disk[r], NoFile} \/ Known(disk'[r]),
               \A x \in Sessions : x # s => sess'[x] = sess[x],
               sess'[s].pc \in HasFile => sess'[s].rec \in presented',
               NoEcho'
        PROVE  EchoInv'
    <2>1. \A r \in Roots : disk'[r] # NoFile => Known(disk[r])'
      BY <1>3, EchoGrows DEF EchoInv
    <2>2. \A x \in Sessions : sess'[x].pc \in HasFile => sess'[x].rec \in presented'
      BY <1>3 DEF EchoInv
    <2> QED BY <1>1, <1>3, <2>1, <2>2 DEF EchoInv
  <1>4. ASSUME \A r \in Roots : disk'[r] \in {disk[r], NoFile} \/ Known(disk'[r]),
               NEW pc, Goto(s, pc), pc \in HasFile => sess[s].pc \in HasFile, win' = win
        PROVE  EchoInv'
    <2>1. sess'[s].pc = pc /\ sess'[s].rec = sess[s].rec
          /\ \A x \in Sessions : x # s => sess'[x] = sess[x]
      BY <1>2, <1>4 DEF Goto, SessionType
    <2>2. NoEcho'
      BY <1>4, NoEchoKept DEF EchoInv
    <2> QED BY <1>3, <1>4, <2>1, <2>2 DEF EchoInv
  <1>5. ASSUME UNCHANGED disk, Leave(s), win' = win PROVE EchoInv'
    <2>1. sess'[s] = IdleSession /\ \A x \in Sessions : x # s => sess'[x] = sess[x]
      BY <1>2, <1>5 DEF Leave, SessionType
    <2>2. sess'[s].pc \notin HasFile
      BY <2>1 DEF IdleSession, HasFile
    <2>3. NoEcho'
      BY <1>5, NoEchoKept DEF EchoInv
    <2> QED BY <1>3, <1>5, <2>1, <2>2, <2>3
  <1>6. CASE \E r \in Remote : SessionMerge(s, r)
    <2>1. PICK r \in Remote : SessionMerge(s, r)
      BY <1>6
    <2>2. disk' = disk /\ r \in presented'
      BY <2>1 DEF SessionMerge, merge_record
    <2>3. sess'[s].rec = r /\ \A x \in Sessions : x # s => sess'[x] = sess[x]
      BY <1>2, <2>1 DEF SessionMerge, SessionType
    <2>4. win' = win \/ win' = r
      BY <2>1 DEF SessionMerge, merge_record, upsert_record
    <2>5. NoEcho'
      BY <2>4, NoEchoKept DEF NoEcho, EchoInv
    <2> QED BY <1>3, <2>2, <2>3, <2>5
  <1>7. CASE SessionTombWinner(s)
    BY <1>4, <1>5, <1>7 DEF SessionTombWinner, HasFile, rowVars
  <1>8. CASE SessionTombState(s)
    <2>1. disk' = disk /\ win' = win
      BY <1>8 DEF SessionTombState, rowVars
    <2>2. CASE Leave(s)
      BY <1>5, <2>1, <2>2
    <2>3. CASE ~Leave(s)
      <3>1. sess'[s].pc = "tombRemove" /\ \A x \in Sessions : x # s => sess'[x] = sess[x]
        BY <1>2, <1>8, <2>3 DEF SessionTombState, SessionType
      <3>2. NoEcho'
        BY <2>1, NoEchoKept DEF EchoInv
      <3> QED BY <1>3, <2>1, <3>1, <3>2 DEF HasFile
    <2> QED BY <2>2, <2>3
  <1>9. CASE SessionTombRemove(s)
    <2>1. \A r \in Roots : disk'[r] \in {disk[r], NoFile}
      BY <1>2, <1>9 DEF SessionTombRemove
    <2> QED BY <1>4, <1>9, <2>1 DEF SessionTombRemove, HasFile, rowVars
  <1>10. CASE SessionTombMark(s)
    <2>1. win' = win
      BY <1>10 DEF SessionTombMark, mark_tombstone_materialized, rowVars
    <2> QED BY <1>5, <1>10, <2>1 DEF SessionTombMark
  <1>11. CASE SessionRequest(s)
    BY <1>4, <1>5, <1>11 DEF SessionRequest, HasFile, rowVars
  <1>12. CASE SessionReceive(s)
    BY <1>4, <1>5, <1>12 DEF SessionReceive, HasFile, rowVars
  <1>13. CASE SessionFails(s)
    BY <1>5, <1>13 DEF SessionFails, rowVars
  <1>14. CASE SessionOpen(s)
    <2>1. disk' = disk /\ win' = win /\ sess[s].pc = "checked"
      BY <1>14 DEF SessionOpen, rowVars
    <2>2. sess'[s].rec = sess[s].rec /\ \A x \in Sessions : x # s => sess'[x] = sess[x]
      BY <1>2, <1>14 DEF SessionOpen, SessionType, Goto
    <2>3. NoEcho' /\ sess[s].rec \in presented
      BY <2>1, NoEchoKept DEF EchoInv, HasFile
    <2> QED BY <1>3, <2>1, <2>2, <2>3
  <1>15. CASE SessionInstall(s)
    <2>1. sess[s].pc \in HasFile /\ sess[s].pc \in HasRoot /\ win' = win
      BY <1>15 DEF SessionInstall, HasFile, HasRoot, rowVars
    <2>2. /\ sess[s].rec \in presented
          /\ IsFile(sess[s].rec)
          /\ sess[s].root \in Roots
      BY <2>1 DEF EchoInv, Inv, SessionInv
    <2>3. Known(Installed(sess[s].rec))
      BY <2>2 DEF Known
    <2>4. \A r \in Roots : disk'[r] = disk[r] \/ disk'[r] = Installed(sess[s].rec)
      BY <1>2, <1>15, <2>2 DEF SessionInstall
    <2>5. \A r \in Roots : disk'[r] \in {disk[r], NoFile} \/ Known(disk'[r])
      BY <2>3, <2>4
    <2> QED BY <1>4, <1>15, <2>1, <2>5 DEF SessionInstall
  <1>16. CASE SessionInstallFails(s)
    BY <1>4, <1>16 DEF SessionInstallFails, HasFile, rowVars
  <1>17. CASE SessionMark(s)
    <2>1. win' = win
      BY <1>17 DEF SessionMark, update_materialized_fingerprint, rowVars
    <2> QED BY <1>5, <1>17, <2>1 DEF SessionMark
  <1>18. CASE SessionMarkFailed(s)
    <2>1. win' = win
      BY <1>18 DEF SessionMarkFailed, mark_repair_required, Unmaterialize, rowVars
    <2> QED BY <1>5, <1>18, <2>1 DEF SessionMarkFailed
  <1>19. CASE SessionServe(s)
    <2>1. disk' = disk /\ win' = win
      BY <1>19 DEF SessionServe, rowVars
    <2>2. sess'[s].pc = "asked" /\ \A x \in Sessions : x # s => sess'[x] = sess[x]
      BY <1>2, <1>19 DEF SessionServe, SessionType
    <2>3. NoEcho'
      BY <2>1, NoEchoKept DEF EchoInv
    <2> QED BY <1>3, <2>1, <2>2, <2>3 DEF HasFile
  <1>20. CASE SessionServeState(s)
    BY <1>4, <1>5, <1>20 DEF SessionServeState, HasFile, rowVars
  <1>21. CASE SessionVerify(s)
    BY <1>4, <1>5, <1>21 DEF SessionVerify, HasFile, rowVars
  <1>22. CASE SessionServeBad(s)
    <2>1. win' = win
      BY <1>22 DEF SessionServeBad, mark_repair_required, Unmaterialize, rowVars
    <2> QED BY <1>5, <1>22, <2>1 DEF SessionServeBad
  <1> QED BY <1>6, <1>7, <1>8, <1>9, <1>10, <1>11, <1>12, <1>13, <1>14, <1>15, <1>16, <1>17,
             <1>18, <1>19, <1>20, <1>21, <1>22 DEF SessionStep

\* What the user writes is typed; a crash forgets what the scanner saw.
LEMMA EnvironmentEcho ==
  ASSUME Inv, EchoInv, Environment, typed \subseteq typed', presented \subseteq presented'
  PROVE  EchoInv'
  <1>1. win' = win
    BY DEF Environment, Tick, UserWrites, UserDeletes, UserRetargets, Crash, rowVars
  <1>2. NoEcho'
    BY <1>1, NoEchoKept DEF EchoInv
  <1>3. disk \in [Roots -> DiskFile \cup {NoFile}]
    BY DEF Inv, WorldInv
  <1>4. \A r \in Roots : disk'[r] # NoFile => Known(disk[r])'
    <2>1. ASSUME \A r \in Roots : disk'[r] \in {disk[r], NoFile}
          PROVE  \A r \in Roots : disk'[r] # NoFile => Known(disk[r])'
      BY <2>1, EchoGrows DEF EchoInv
    <2>2. CASE UNCHANGED disk
      BY <2>1, <2>2
    <2>3. CASE \E r \in Roots : UserDeletes(r)
      BY <1>3, <2>1, <2>3 DEF UserDeletes
    <2>4. CASE \E r \in Roots : \E f \in UserFiles : UserWrites(r, f)
      <3>1. PICK r \in Roots, f \in UserFiles : UserWrites(r, f)
        BY <2>4
      <3>2. Known(f)'
        BY <3>1 DEF UserWrites, Known
      <3>3. \A x \in Roots : disk'[x] = disk[x] \/ disk'[x] = f
        BY <1>3, <3>1 DEF UserWrites
      <3> QED BY <3>2, <3>3, EchoGrows DEF EchoInv
    <2> QED BY <2>2, <2>3, <2>4 DEF Environment, Tick, UserRetargets, Crash
  <1>5. CASE UNCHANGED <<scan, sess>>
    <2>1. /\ scan'.seen \in DiskFile => Known(scan.seen)'
          /\ scan'.pc = "merge" => Surpassed(scan.seen)'
      BY <1>5, EchoGrows DEF EchoInv
    <2>2. \A s \in Sessions : sess'[s].pc \in HasFile => sess'[s].rec \in presented'
      BY <1>5 DEF EchoInv
    <2> QED BY <1>2, <1>4, <2>1, <2>2 DEF EchoInv
  <1>6. CASE Crash
    <2>1. scan'.seen \notin DiskFile /\ scan'.pc # "merge"
      BY <1>6, FileAssumption DEF Crash, IdleScan
    <2>2. \A s \in Sessions : sess'[s].pc \notin HasFile
      BY <1>6 DEF Crash, IdleSession, HasFile
    <2> QED BY <1>2, <1>4, <2>1, <2>2 DEF EchoInv
  <1> QED BY <1>5, <1>6 DEF Environment, Tick, UserWrites, UserDeletes, UserRetargets

\* Wherever bytes are, the histories account for them.
LEMMA EchoInvariance == Spec => []EchoInv
  <1>1. Init => EchoInv
    BY FileAssumption DEF Init, EchoInv, NoEcho, IsFile, IdleScan, IdleSession, HasFile
  <1>2. Inv /\ EchoInv /\ [Next]_vars => EchoInv'
    <2> SUFFICES ASSUME Inv, EchoInv, [Next]_vars PROVE EchoInv'
      OBVIOUS
    <2>1. typed \subseteq typed' /\ presented \subseteq presented'
      BY HistoriesGrow
    <2>2. CASE ScanStep
      BY <2>1, <2>2, ScanStepEcho
    <2>3. CASE \E s \in Sessions : SessionStep(s)
      BY <2>1, <2>3, SessionStepEcho
    <2>4. CASE Environment
      BY <2>1, <2>4, EnvironmentEcho
    <2>5. CASE UNCHANGED vars
      <3>1. UNCHANGED <<win, disk, scan, sess, typed, presented>>
        BY <2>5 DEF vars, rowVars, ghostVars
      <3> QED BY <3>1 DEF EchoInv, Known, Surpassed, NoEcho
    <2> QED BY <2>2, <2>3, <2>4, <2>5 DEF Next
  <1> QED BY <1>1, <1>2, Invariance, PTL DEF Spec

\* A file record this device authors and that wins is a file its user wrote, or
\* decides a tie: the scanner never offers installed bytes that could win for
\* their time alone.
THEOREM EchoFree == Spec => []NoEcho
  <1>1. EchoInv => NoEcho
    BY DEF EchoInv
  <1> QED BY <1>1, EchoInvariance, PTL

----------------------------------------------------------------------------
(* Deletions: what scanner and sessions know of the disk.                  *)

\* A record that lost never wins again.
LEMMA LoserStays ==
  ASSUME Inv, RowStep, NEW x \in presented, win' = x
  PROVE  win = x
  <1>1. CASE win' = win
    BY <1>1
  <1>2. ASSUME NEW r \in Record, NEW l \in BOOLEAN, merge_record(r, l), win' # win
        PROVE  FALSE
    <2>1. win' = r /\ Accepts(r) /\ r = x
      BY <1>2 DEF merge_record, upsert_record
    <2>2. win # NoRecord /\ win \in Record /\ x \in Record
      BY DEF Inv, RowInv, RowType, RowIsGreatest
    <2>3. Wins(x, win)
      BY <2>1, <2>2 DEF Accepts
    <2>4. x = win \/ Wins(win, x)
      BY <2>2 DEF Inv, RowInv, RowIsGreatest
    <2> QED BY <2>2, <2>3, <2>4, WinsIrreflexive, WinsAsymmetric
  <1> QED BY <1>1, <1>2, RemoteAssumption
          DEF RowStep, rowVars, Unmaterialize, mark_tombstone_materialized,
              update_materialized_fingerprint

\* The stages after the scan has recorded its root.
Recorded == {"current", "future", "winner", "match", "merge", "repair", "missing"}

\* What a scan knows of the disk: a materialized file is on disk under the
\* recorded root, what the walk met is still there, the root a scan has recorded
\* stays recorded, and a path that the walk did not meet is not materialized.
DiskKept ==
    /\ IsFile(win) /\ mat => dbRoot \in Roots /\ disk[dbRoot] # NoFile
    /\ scan.seen # NoFile => disk[scan.root] # NoFile
    /\ scan.pc \in {"complete", "current"} /\ scan.seen = NoFile /\ dbRoot = scan.root =>
          ~(IsFile(win) /\ mat)
    /\ scan.pc \in Recorded => dbRoot = scan.root
    /\ scan.pc # "missing"

\* What a session installed for the winner is on disk until it marks the row.
InstalledKept ==
    \A s \in Sessions :
        sess[s].pc = "installed" /\ win = sess[s].rec => disk[sess[s].root] # NoFile

\* It holds until the user deletes a file or a session crosses a scan.
DeletionInv ==
    /\ scan.pc \in {"idle", "walk"} => scan.seen = NoFile
    /\ ~erased /\ ~crossed => DiskKept /\ InstalledKept
    /\ OnlyCrossedDeletions

\* A session that neither merges, removes, installs nor marks a file.
LEMMA DeletionQuietSession ==
  ASSUME Inv, DeletionInv, NEW s \in Sessions,
         \/ SessionTombWinner(s) \/ SessionTombState(s) \/ SessionTombMark(s)
         \/ SessionRequest(s) \/ SessionReceive(s) \/ SessionFails(s) \/ SessionOpen(s)
         \/ SessionInstallFails(s) \/ SessionMarkFailed(s) \/ SessionServe(s)
         \/ SessionServeState(s) \/ SessionVerify(s) \/ SessionServeBad(s)
  PROVE  DeletionInv'
  <1> USE DEF SessionTombWinner, SessionTombState, SessionTombMark, SessionRequest,
          SessionReceive, SessionFails, SessionOpen, SessionInstallFails, SessionMarkFailed,
          SessionServe, SessionServeState, SessionVerify, SessionServeBad
  <1>1. UNCHANGED <<dbRoot, disk, scan, erased, crossed>>
    BY DEF ghostVars
  <1>2. win' = win /\ presented' = presented /\ (IsFile(win) /\ mat' => mat)
    BY DEF rowVars, mark_repair_required, Unmaterialize, mark_tombstone_materialized, IsFile,
       IsTombstone
  <1>3. SessionType
    BY DEF Inv, SessionInv
  <1>4. \A x \in Sessions : x # s => sess'[x] = sess[x]
    BY <1>3 DEF SessionType, Goto, Leave
  <1>5. sess'[s].pc # "installed"
    BY <1>3 DEF SessionType, Goto, Leave, IdleSession
  <1>6. ~erased' /\ ~crossed' => DiskKept' /\ InstalledKept'
    <2> SUFFICES ASSUME ~erased', ~crossed' PROVE DiskKept' /\ InstalledKept'
      OBVIOUS
    <2>1. DiskKept /\ InstalledKept
      BY <1>1 DEF DeletionInv
    <2>2. DiskKept'
      BY <1>1, <1>2, <2>1 DEF DiskKept, IsFile
    <2>3. InstalledKept'
      BY <1>1, <1>2, <1>4, <1>5, <2>1 DEF InstalledKept
    <2> QED BY <2>2, <2>3
  <1>7. OnlyCrossedDeletions'
    BY <1>1, <1>2 DEF DeletionInv, OnlyCrossedDeletions, DeletionsAreReal, IsTombstone
  <1> QED BY <1>1, <1>6, <1>7 DEF DeletionInv

\* A merged record of a peer's is not materialized, and nobody has installed it
\* unless it had won already.
LEMMA DeletionSessionMerge ==
  ASSUME Inv, EchoInv, DeletionInv, NEW s \in Sessions, NEW r \in Remote, SessionMerge(s, r)
  PROVE  DeletionInv'
  <1>1. /\ UNCHANGED <<dbRoot, disk, scan, erased, crossed>>
        /\ merge_record(r, FALSE) /\ presented' = presented \cup {r}
    BY DEF SessionMerge, ghostVars, merge_record
  <1>2. (win' = win /\ mat' = mat) \/ mat' = FALSE
    BY <1>1 DEF merge_record, upsert_record
  <1>3. SessionType /\ RowStep
    BY SessionStepInv DEF Inv, SessionInv, SessionStep
  <1>4. \A x \in Sessions : x # s => sess'[x] = sess[x]
    BY <1>3 DEF SessionType, SessionMerge
  <1>5. sess'[s].pc # "installed"
    BY <1>3 DEF SessionType, SessionMerge
  <1>6. ~erased' /\ ~crossed' => DiskKept' /\ InstalledKept'
    <2> SUFFICES ASSUME ~erased', ~crossed' PROVE DiskKept' /\ InstalledKept'
      OBVIOUS
    <2>1. DiskKept /\ InstalledKept
      BY <1>1 DEF DeletionInv
    <2>2. DiskKept'
      BY <1>1, <1>2, <2>1 DEF DiskKept, IsFile
    <2>3. ASSUME NEW x \in Sessions, sess'[x].pc = "installed", win' = sess'[x].rec
          PROVE  disk'[sess'[x].root] # NoFile
      <3>1. sess'[x] = sess[x]
        BY <1>4, <1>5, <2>3
      <3>2. sess[x].rec \in presented
        BY <2>3, <3>1 DEF EchoInv, HasFile
      <3>3. win = sess[x].rec
        BY <1>3, <2>3, <3>1, <3>2, LoserStays
      <3> QED BY <1>1, <2>1, <2>3, <3>1, <3>3 DEF InstalledKept
    <2> QED BY <2>2, <2>3 DEF InstalledKept
  <1>7. OnlyCrossedDeletions'
    BY <1>1 DEF DeletionInv, OnlyCrossedDeletions, DeletionsAreReal, IsTombstone
  <1> QED BY <1>1, <1>6, <1>7 DEF DeletionInv

\* A session that removes a file without crossing anything removes one that no
\* record, no session and no scan relies on.
LEMMA DeletionTombRemove ==
  ASSUME Inv, DeletionInv, NEW s \in Sessions, SessionTombRemove(s)
  PROVE  DeletionInv'
  <1>1. /\ UNCHANGED <<dbRoot, scan, erased, win, mat, presented>> /\ (crossed => crossed')
        /\ disk' = [disk EXCEPT ![sess[s].root] = NoFile]
        /\ ~crossed' /\ disk[sess[s].root] # NoFile =>
              ~IsFile(win) /\ ~Walked(sess[s].root, TRUE)
    BY DEF SessionTombRemove, rowVars
  <1>2. SessionType /\ disk \in [Roots -> DiskFile \cup {NoFile}] /\ sess[s].root \in Roots
    BY DEF SessionTombRemove, Inv, SessionInv, WorldInv, HasRoot
  <1>3. /\ \A x \in Sessions : x # s => sess'[x] = sess[x]
        /\ sess'[s].pc # "installed"
    BY <1>2 DEF SessionType, SessionTombRemove, Goto
  <1>4. ~erased' /\ ~crossed' => DiskKept' /\ InstalledKept'
    <2> SUFFICES ASSUME ~erased', ~crossed' PROVE DiskKept' /\ InstalledKept'
      OBVIOUS
    <2>1. DiskKept /\ InstalledKept
      BY <1>1 DEF DeletionInv
    <2>2. CASE disk[sess[s].root] = NoFile
      <3>1. disk' = disk
        BY <1>1, <1>2, <2>2
      <3>2. DiskKept'
        BY <1>1, <2>1, <3>1 DEF DiskKept, IsFile
      <3>3. InstalledKept'
        BY <1>1, <1>3, <2>1, <3>1 DEF InstalledKept
      <3> QED BY <3>2, <3>3
    <2>3. CASE disk[sess[s].root] # NoFile
      <3>1. ~IsFile(win) /\ ~Walked(sess[s].root, TRUE)
        BY <1>1, <2>3
      <3>2. scan.seen # NoFile => scan.root # sess[s].root
        BY <3>1 DEF Walked, DeletionInv
      <3>3. scan.seen # NoFile => disk'[scan.root] # NoFile
        <4>1. scan.seen # NoFile => scan.root \in Roots
          BY DEF DeletionInv, Inv, ScanInv
        <4> QED BY <1>1, <1>2, <2>1, <3>2, <4>1 DEF DiskKept
      <3>4. DiskKept'
        BY <1>1, <2>1, <3>1, <3>3 DEF DiskKept, IsFile
      <3>5. \A x \in Sessions : sess[x].pc = "installed" => IsFile(sess[x].rec)
        BY DEF Inv, SessionInv, HasFile
      <3>6. InstalledKept'
        BY <1>1, <1>3, <3>1, <3>5 DEF InstalledKept, IsFile
      <3> QED BY <3>4, <3>6
    <2> QED BY <2>2, <2>3
  <1>5. OnlyCrossedDeletions'
    BY <1>1 DEF DeletionInv, OnlyCrossedDeletions, DeletionsAreReal, IsTombstone
  <1> QED BY <1>1, <1>4, <1>5 DEF DeletionInv

\* An install puts a file on disk.
LEMMA DeletionInstall ==
  ASSUME Inv, DeletionInv, NEW s \in Sessions, SessionInstall(s)
  PROVE  DeletionInv'
  <1>1. /\ UNCHANGED <<dbRoot, scan, erased, crossed, win, mat, presented>>
        /\ disk' = [disk EXCEPT ![sess[s].root] = Installed(sess[s].rec)]
    BY DEF SessionInstall, rowVars, ghostVars
  <1>2. /\ SessionType /\ disk \in [Roots -> DiskFile \cup {NoFile}] /\ sess[s].root \in Roots
        /\ sess[s].rec \in Record /\ IsFile(sess[s].rec)
    BY DEF SessionInstall, Inv, SessionInv, WorldInv, HasRoot, HasFile
  <1>3. Installed(sess[s].rec) # NoFile
    BY <1>2, InstalledType, FileAssumption
  <1>4. /\ \A r \in Roots : disk[r] # NoFile => disk'[r] # NoFile
        /\ disk'[sess[s].root] # NoFile
    BY <1>1, <1>2, <1>3
  <1>5. /\ \A x \in Sessions : x # s => sess'[x] = sess[x]
        /\ sess'[s].root = sess[s].root
    BY <1>2 DEF SessionType, SessionInstall, Goto
  <1>6. ~erased' /\ ~crossed' => DiskKept' /\ InstalledKept'
    <2> SUFFICES ASSUME ~erased', ~crossed' PROVE DiskKept' /\ InstalledKept'
      OBVIOUS
    <2>1. DiskKept /\ InstalledKept
      BY <1>1 DEF DeletionInv
    <2>2. scan.seen # NoFile => scan.root \in Roots
      BY DEF DeletionInv, Inv, ScanInv
    <2>3. DiskKept'
      BY <1>1, <1>4, <2>1, <2>2 DEF DiskKept, IsFile
    <2>4. \A x \in Sessions : sess[x].pc = "installed" => sess[x].root \in Roots
      BY DEF Inv, SessionInv, HasRoot
    <2>5. InstalledKept'
      BY <1>1, <1>4, <1>5, <2>1, <2>4 DEF InstalledKept
    <2> QED BY <2>3, <2>5
  <1>7. OnlyCrossedDeletions'
    BY <1>1 DEF DeletionInv, OnlyCrossedDeletions, DeletionsAreReal, IsTombstone
  <1> QED BY <1>1, <1>6, <1>7 DEF DeletionInv

\* A session that marks the row without crossing a scan marks the winner, whose
\* file is on disk, and no scan has walked past it.
LEMMA DeletionMark ==
  ASSUME Inv, DeletionInv, NEW s \in Sessions, SessionMark(s)
  PROVE  DeletionInv'
  <1>1. UNCHANGED <<disk, scan, erased, win, presented>> /\ (crossed => crossed')
    BY DEF SessionMark, update_materialized_fingerprint, rowVars
  <1>2. SessionType /\ sess[s].root \in Roots /\ sess[s].pc = "installed"
    BY DEF SessionMark, Inv, SessionInv, HasRoot
  <1>3. /\ \A x \in Sessions : x # s => sess'[x] = sess[x]
        /\ sess'[s].pc # "installed"
    BY <1>2 DEF SessionType, SessionMark, Leave, IdleSession
  <1>4. ~erased' /\ ~crossed' => DiskKept' /\ InstalledKept'
    <2> SUFFICES ASSUME ~erased', ~crossed' PROVE DiskKept' /\ InstalledKept'
      OBVIOUS
    <2>1. DiskKept /\ InstalledKept
      BY <1>1 DEF DeletionInv
    <2>2. InstalledKept'
      BY <1>1, <1>3, <2>1 DEF InstalledKept
    <2>3. CASE ~IsFile(win)
      <3>1. UNCHANGED <<mat, dbRoot>>
        BY <2>3 DEF SessionMark, rowVars
      <3> QED BY <1>1, <2>1, <2>2, <3>1 DEF DiskKept, IsFile
    <2>4. CASE IsFile(win)
      <3>1. /\ dbRoot' = sess[s].root /\ win = sess[s].rec
            /\ \A r \in Roots : ~Walked(r, FALSE) /\ (r # sess[s].root => ~Walked(r, TRUE))
        BY <2>4 DEF SessionMark
      <3>2. disk[sess[s].root] # NoFile
        BY <1>2, <2>1, <3>1 DEF InstalledKept
      <3>3. scan.pc \notin {"idle", "walk"} => scan.root = sess[s].root /\ scan.seen # NoFile
        <4>1. scan.pc \notin {"idle", "walk"} => scan.root \in Roots
          BY DEF Inv, ScanInv
        <4> QED BY <3>1, <4>1 DEF Walked
      <3>4. DiskKept'
        BY <1>1, <1>2, <2>1, <3>1, <3>2, <3>3 DEF DiskKept, Recorded
      <3> QED BY <2>2, <3>4
    <2> QED BY <2>3, <2>4
  <1>5. OnlyCrossedDeletions'
    BY <1>1 DEF DeletionInv, OnlyCrossedDeletions, DeletionsAreReal, IsTombstone
  <1> QED BY <1>1, <1>4, <1>5 DEF DeletionInv

\* The user and a crash: a file leaves the disk only by the user's deletion.
LEMMA DeletionEnvironment ==
  ASSUME Inv, DeletionInv, Environment
  PROVE  DeletionInv'
  <1>1. UNCHANGED <<win, mat, presented, dbRoot, crossed>> /\ (erased => erased')
    BY DEF Environment, Tick, UserWrites, UserDeletes, UserRetargets, Crash, rowVars, ghostVars
  <1>2. OnlyCrossedDeletions'
    BY <1>1 DEF DeletionInv, OnlyCrossedDeletions, DeletionsAreReal, IsTombstone
  <1>3. /\ disk \in [Roots -> DiskFile \cup {NoFile}] /\ (scan.pc # "idle" => scan.root \in Roots)
        /\ \A s \in Sessions : sess[s].pc = "installed" => sess[s].root \in Roots
    BY DEF Inv, WorldInv, ScanInv, SessionInv, HasRoot
  <1>4. ~erased' => \A r \in Roots : disk[r] # NoFile => disk'[r] # NoFile
    <2>1. CASE \E r \in Roots : \E f \in UserFiles : UserWrites(r, f)
      <3>1. PICK r \in Roots, f \in UserFiles : UserWrites(r, f)
        BY <2>1
      <3>2. f # NoFile
        BY <3>1, UserFilesAssumption, FileAssumption, Zenon
           DEF UserFilesAssumption, FileAssumption
      <3> QED BY <1>3, <3>1, <3>2 DEF UserWrites
    <2>2. CASE UNCHANGED disk
      BY <2>2
    <2>3. CASE \E r \in Roots : UserDeletes(r)
      BY <2>3 DEF UserDeletes
    <2> QED BY <2>1, <2>2, <2>3 DEF Environment, Tick, UserRetargets, Crash
  <1>5. CASE UNCHANGED <<scan, sess>>
    <2>1. ~erased' /\ ~crossed' => DiskKept' /\ InstalledKept'
      <3> SUFFICES ASSUME ~erased', ~crossed' PROVE DiskKept' /\ InstalledKept'
        OBVIOUS
      <3>1. DiskKept /\ InstalledKept /\ (scan.seen # NoFile => scan.root \in Roots)
        BY <1>1, <1>3 DEF DeletionInv
      <3>2. DiskKept'
        BY <1>1, <1>4, <1>5, <3>1 DEF DiskKept, IsFile
      <3>3. InstalledKept'
        BY <1>1, <1>3, <1>4, <1>5, <3>1 DEF InstalledKept
      <3> QED BY <3>2, <3>3
    <2> QED BY <1>1, <1>2, <1>5, <2>1 DEF DeletionInv
  <1>6. CASE Crash
    <2>1. scan' = IdleScan /\ sess' = [s \in Sessions |-> IdleSession]
      BY <1>6 DEF Crash
    <2>2. /\ scan'.pc = "idle" /\ scan'.seen = NoFile
          /\ \A s \in Sessions : sess'[s].pc # "installed"
      BY <2>1 DEF IdleScan, IdleSession
    <2>3. ~erased' /\ ~crossed' => DiskKept' /\ InstalledKept'
      <3> SUFFICES ASSUME ~erased', ~crossed' PROVE DiskKept' /\ InstalledKept'
        OBVIOUS
      <3>1. DiskKept
        BY <1>1 DEF DeletionInv
      <3>2. DiskKept'
        BY <1>1, <1>4, <2>2, <3>1 DEF DiskKept, IsFile, Recorded
      <3> QED BY <2>2, <3>2 DEF InstalledKept
    <2> QED BY <1>2, <2>2, <2>3 DEF DeletionInv
  <1> QED BY <1>5, <1>6 DEF Environment, Tick, UserWrites, UserDeletes, UserRetargets

\* The scanner: what it marks it has met, and what it has not met is not marked.
LEMMA DeletionScan ==
  ASSUME Inv, EchoInv, DeletionInv, ScanStep
  PROVE  DeletionInv'
  <1>1. UNCHANGED <<disk, sess, erased, crossed>>
    BY DEF ScanStep, ScanOpen, ScanPaused, ScanWalk, ScanExcludes, ScanFails, ScanComplete,
           ScanCurrent, ScanFuture, ScanWinner, ScanMatch, ScanMerge, ScanRepair, ScanMissing,
           ghostVars
  <1>2. ~erased' /\ ~crossed' => InstalledKept'
    <2> SUFFICES ASSUME ~erased', ~crossed', NEW s \in Sessions, sess[s].pc = "installed",
                        win' = sess[s].rec
                 PROVE  disk[sess[s].root] # NoFile
      BY <1>1 DEF InstalledKept
    <2>1. RowStep /\ sess[s].rec \in presented
      BY ScanStepInv DEF EchoInv, HasFile
    <2>2. win = sess[s].rec
      BY <2>1, LoserStays
    <2> QED BY <1>1, <2>2 DEF DeletionInv, InstalledKept
  <1>3. ScanType /\ mat \in BOOLEAN /\ disk \in [Roots -> DiskFile \cup {NoFile}]
        /\ (scan.pc # "idle" => scan.root \in Roots)
    BY DEF Inv, ScanInv, RowInv, RowType, WorldInv
  <1>4. ASSUME UNCHANGED presented
        PROVE  OnlyCrossedDeletions'
    BY <1>1, <1>4 DEF DeletionInv, OnlyCrossedDeletions, DeletionsAreReal, IsTombstone
  <1>5. ASSUME scan' = IdleScan, OnlyCrossedDeletions',
               ~erased /\ ~crossed /\ (IsFile(win) /\ mat)' =>
                   dbRoot' \in Roots /\ disk[dbRoot'] # NoFile
        PROVE  DeletionInv'
    <2>1. scan'.pc = "idle" /\ scan'.seen = NoFile
      BY <1>5 DEF IdleScan
    <2>2. ~erased' /\ ~crossed' => DiskKept'
      BY <1>1, <1>5, <2>1 DEF DiskKept, Recorded
    <2> QED BY <1>2, <1>5, <2>1, <2>2 DEF DeletionInv
  <1>6. ASSUME scan' = IdleScan, UNCHANGED <<win, presented, dbRoot>>, mat' => mat
        PROVE  DeletionInv'
    <2>1. ~erased /\ ~crossed /\ (IsFile(win) /\ mat)' =>
              dbRoot' \in Roots /\ disk[dbRoot'] # NoFile
      BY <1>6 DEF DeletionInv, DiskKept, IsFile
    <2> QED BY <1>4, <1>5, <1>6, <2>1
  <1>7. ASSUME UNCHANGED <<win, mat, presented, dbRoot>>,
               scan'.pc \in {"idle", "walk"} => scan'.seen = NoFile,
               ~erased /\ ~crossed =>
                          /\ scan'.pc \in Recorded => dbRoot = scan'.root
                          /\ scan'.seen # NoFile => disk[scan'.root] # NoFile
                          /\ scan'.pc \in {"complete", "current"} /\ scan'.seen = NoFile
                             /\ dbRoot = scan'.root => ~(IsFile(win) /\ mat)
                          /\ scan'.pc # "missing"
        PROVE  DeletionInv'
    <2>1. ~erased' /\ ~crossed' => DiskKept'
      BY <1>1, <1>7 DEF DeletionInv, DiskKept, IsFile
    <2> QED BY <1>2, <1>4, <1>7, <2>1 DEF DeletionInv
  <1>8. CASE ScanOpen
    <2>1. scan'.pc = "walk" /\ scan'.seen = NoFile /\ UNCHANGED <<win, mat, presented, dbRoot>>
      BY <1>8 DEF ScanOpen, IdleScan, rowVars
    <2> QED BY <1>7, <2>1 DEF Recorded
  <1>9. CASE ScanPaused
    BY <1>1, <1>2, <1>9 DEF ScanPaused, rowVars, DeletionInv, DiskKept, OnlyCrossedDeletions,
       DeletionsAreReal, IsFile, IsTombstone
  <1>10. CASE ScanWalk
    <2>1. /\ scan.pc = "walk" /\ scan'.pc = "complete" /\ scan'.seen = disk[scan.root]
          /\ scan'.root = scan.root /\ UNCHANGED <<win, mat, presented, dbRoot>>
      BY <1>3, <1>10 DEF ScanWalk, ScanType, rowVars
    <2>2. ~erased /\ ~crossed /\ dbRoot = scan.root /\ disk[scan.root] = NoFile =>
              ~(IsFile(win) /\ mat)
      BY DEF DeletionInv, DiskKept
    <2> QED BY <1>7, <2>1, <2>2 DEF Recorded
  <1>11. CASE ScanExcludes
    <2>1. /\ scan.pc = "walk" /\ scan'.pc = "complete" /\ scan'.seen = Unstable
          /\ disk[scan.root] # NoFile
          /\ scan'.root = scan.root /\ UNCHANGED <<win, mat, presented, dbRoot>>
      BY <1>3, <1>11 DEF ScanExcludes, ScanType, rowVars
    <2> QED BY <1>7, <2>1, FileAssumption DEF Recorded
  <1>12. CASE ScanFails
    BY <1>6, <1>12 DEF ScanFails, ScanError, rowVars
  <1>13. CASE ScanComplete
    <2>1. /\ scan.pc = "complete" /\ scan'.pc = "current" /\ scan'.seen = scan.seen
          /\ scan'.root = scan.root /\ dbRoot' = scan.root /\ scan.root \in Roots
      BY <1>3, <1>13 DEF ScanComplete, ScanGoto, ScanType
    <2>2. /\ UNCHANGED <<win, presented>> /\ (mat' => mat)
          /\ dbRoot # scan.root /\ IsFile(win) => ~mat'
      BY <1>13 DEF ScanComplete, Unmaterialize, rowVars
    <2>3. OnlyCrossedDeletions'
      BY <1>4, <2>2
    <2>4. ~erased' /\ ~crossed' => DiskKept'
      <3> SUFFICES ASSUME ~erased', ~crossed' PROVE DiskKept'
        OBVIOUS
      <3>1. DiskKept
        BY <1>1 DEF DeletionInv
      <3> QED BY <1>1, <2>1, <2>2, <3>1 DEF DiskKept, IsFile
    <2> QED BY <1>2, <2>1, <2>3, <2>4 DEF DeletionInv
  <1>14. CASE ScanCurrent
    <2>1. scan.pc = "current" /\ UNCHANGED <<win, mat, presented, dbRoot>>
      BY <1>14 DEF ScanCurrent, rowVars
    <2>2. CASE scan' = IdleScan
      BY <1>6, <2>1, <2>2
    <2>3. CASE scan' # IdleScan
      <3>1. /\ scan'.pc = AfterCurrent /\ AfterCurrent # "idle" /\ scan'.seen = scan.seen
            /\ scan'.root = scan.root
        BY <1>3, <1>14, <2>3 DEF ScanCurrent, ScanType
      <3>2. /\ AfterCurrent \in {"missing", "future", "winner", "idle"}
            /\ AfterCurrent = "missing" => scan.seen = NoFile /\ IsFile(win) /\ mat
        BY DEF AfterCurrent
      <3>3. ~erased /\ ~crossed => dbRoot = scan.root
        BY <2>1 DEF DeletionInv, DiskKept, Recorded
      <3>4. ~erased /\ ~crossed =>
                AfterCurrent # "missing" /\ (scan.seen # NoFile => disk[scan.root] # NoFile)
        BY <2>1, <3>2, <3>3 DEF DeletionInv, DiskKept
      <3> QED BY <1>7, <2>1, <3>1, <3>2, <3>3, <3>4
    <2> QED BY <2>2, <2>3
  <1>15. CASE ScanFuture \/ ScanRepair
    <2>1. scan' = IdleScan /\ dbRoot' = dbRoot
      BY <1>15 DEF ScanFuture, ScanRepair, ScanDone, ScanError
    <2>2. UNCHANGED <<win, presented>> /\ (mat' => mat)
      BY <1>15 DEF ScanFuture, ScanRepair, mark_repair_required, Unmaterialize, rowVars
    <2> QED BY <1>6, <2>1, <2>2
  <1>16. CASE ScanWinner
    <2>1. /\ scan.pc = "winner" /\ scan'.pc \in {"match", "merge"} /\ scan'.seen = scan.seen
          /\ scan'.root = scan.root /\ UNCHANGED <<win, mat, presented, dbRoot>>
      BY <1>3, <1>16 DEF ScanWinner, ScanGoto, ScanType, rowVars
    <2>2. scan.seen \in DiskFile /\ scan.seen # NoFile
      BY <2>1, FileAssumption DEF Inv, ScanInv
    <2>3. ~erased /\ ~crossed => dbRoot = scan.root /\ disk[scan.root] # NoFile
      BY <2>1, <2>2 DEF DeletionInv, DiskKept, Recorded
    <2> QED BY <1>7, <2>1, <2>2, <2>3
  <1>17. CASE ScanMatch
    <2>1. scan.pc = "match" /\ scan' = IdleScan /\ dbRoot' = dbRoot
      BY <1>17 DEF ScanMatch, ScanDone, ScanError
    <2>2. CASE ~IsFile(win)
      BY <1>6, <1>17, <2>1, <2>2 DEF ScanMatch, rowVars
    <2>3. CASE IsFile(win)
      <3>1. UNCHANGED <<win, presented>>
        BY <1>17, <2>3 DEF ScanMatch, update_materialized_fingerprint
      <3>2. ~erased /\ ~crossed => dbRoot = scan.root /\ scan.root \in Roots
        BY <1>3, <2>1 DEF DeletionInv, DiskKept, Recorded
      <3>3. ~erased /\ ~crossed => disk[dbRoot] # NoFile
        BY <2>1, <3>2, FileAssumption DEF DeletionInv, DiskKept, Inv, ScanInv
      <3>4. OnlyCrossedDeletions'
        BY <1>1, <3>1 DEF DeletionInv, OnlyCrossedDeletions, DeletionsAreReal, IsTombstone
      <3> QED BY <1>5, <2>1, <3>2, <3>3, <3>4
    <2> QED BY <2>2, <2>3
  <1>18. CASE ScanMerge
    <2>1. scan.pc = "merge" /\ merge_record(Candidate, TRUE) /\ dbRoot' = dbRoot
      BY <1>18 DEF ScanMerge
    <2>2. /\ scan.seen \in DiskFile /\ scan.seen # NoFile /\ scan.root \in Roots
          /\ ~erased /\ ~crossed => dbRoot = scan.root /\ disk[dbRoot] # NoFile
      BY <1>3, <2>1, FileAssumption DEF DeletionInv, DiskKept, Inv, ScanInv, Recorded
    <2>3. presented' = presented \cup {Candidate} /\ ~IsTombstone(Candidate)
      BY <2>1, CandidateType DEF merge_record, IsFile, IsTombstone
    <2>4. OnlyCrossedDeletions'
      BY <1>1, <2>3 DEF DeletionInv, OnlyCrossedDeletions, DeletionsAreReal, IsTombstone
    <2>5. CASE scan' = IdleScan
      BY <1>5, <2>1, <2>2, <2>4, <2>5
    <2>6. CASE scan' # IdleScan
      <3>1. scan'.pc = "repair" /\ scan'.seen = scan.seen /\ scan'.root = scan.root
        BY <1>3, <1>18, <2>6 DEF ScanMerge, ScanGoto, ScanType
      <3>2. ~erased' /\ ~crossed' => DiskKept'
        BY <1>1, <2>1, <2>2, <3>1 DEF DiskKept
      <3> QED BY <1>2, <2>1, <2>2, <2>4, <3>1, <3>2 DEF DeletionInv, Recorded
    <2> QED BY <2>5, <2>6
  <1>19. CASE ScanMissing
    <2>1. scan.pc = "missing" /\ merge_record(Deletion, TRUE) /\ scan' = IdleScan
      BY <1>19 DEF ScanMissing
    <2>2. erased' \/ crossed'
      BY <1>1, <2>1 DEF DeletionInv, DiskKept
    <2>3. OnlyCrossedDeletions'
      BY <2>2 DEF OnlyCrossedDeletions, DeletionsAreReal
    <2> QED BY <1>1, <1>5, <2>1, <2>2, <2>3
  <1> QED BY <1>8, <1>9, <1>10, <1>11, <1>12, <1>13, <1>14, <1>15, <1>16, <1>17, <1>18, <1>19
          DEF ScanStep

\* Whatever scanner, sessions, user and crashes do, DeletionInv holds.
LEMMA DeletionInvariance == Spec => []DeletionInv
  <1>1. Init => DeletionInv
    BY DEF Init, DeletionInv, DiskKept, InstalledKept, OnlyCrossedDeletions, DeletionsAreReal,
           IsFile, IdleScan, IdleSession, Recorded
  <1>2. Inv /\ EchoInv /\ DeletionInv /\ [Next]_vars => DeletionInv'
    <2> SUFFICES ASSUME Inv, EchoInv, DeletionInv, [Next]_vars PROVE DeletionInv'
      OBVIOUS
    <2>1. CASE ScanStep
      BY <2>1, DeletionScan
    <2>2. ASSUME NEW s \in Sessions, SessionStep(s) PROVE DeletionInv'
      BY <2>2, DeletionQuietSession, DeletionSessionMerge, DeletionTombRemove, DeletionInstall,
         DeletionMark DEF SessionStep
    <2>3. CASE Environment
      BY <2>3, DeletionEnvironment
    <2>4. CASE UNCHANGED vars
      BY <2>4 DEF vars, rowVars, ghostVars, DeletionInv, DiskKept, InstalledKept,
         OnlyCrossedDeletions, DeletionsAreReal
    <2> QED BY <2>1, <2>2, <2>3, <2>4 DEF Next
  <1> QED BY <1>1, <1>2, Invariance, EchoInvariance, PTL DEF Spec

\* With any peers, roots, failures and crashes: the scanner writes a tombstone
\* only after the user deleted a file or a session crossed a scan or a newer
\* record; not for a file it could not read, nor for one of another root.
THEOREM RealDeletions == Spec => []OnlyCrossedDeletions
  <1>1. DeletionInv => OnlyCrossedDeletions
    BY DEF DeletionInv
  <1> QED BY <1>1, DeletionInvariance, PTL

----------------------------------------------------------------------------
(* Whose bytes the fingerprint is.                                         *)

\* Until another record's fingerprint is written over the winner's, the row has
\* the fingerprint of its own bytes, and so has the copy of the row that a scan
\* took while the same record won.
OwnInv ==
    /\ OnlyOvertakenDiffer
    /\ scan.win # NoRecord => scan.win \in presented
    /\ ~overtaken /\ scan.win = win /\ scan.pc = "winner" /\ scan.fp # NoFile =>
          scan.fp.body = win.body
    /\ ~overtaken /\ scan.win = win /\ scan.pc = "match" => scan.seen.body = win.body

\* A record that lost never wins again, so a scan's copy of the row is of the
\* winner, or of a record that is no longer it.
LEMMA RowStepMoves ==
  ASSUME Inv, RowStep, scan.win # NoRecord => scan.win \in presented
  PROVE  \/ win' = win /\ (overtaken => overtaken')
         \/ win' # scan.win
  <1>1. CASE win' = win /\ overtaken' = overtaken
    BY <1>1
  <1>2. CASE \E f \in DiskFile, r \in Record \cup {NoRecord} : update_materialized_fingerprint(f, r)
    BY <1>2 DEF update_materialized_fingerprint
  <1>3. ASSUME NEW r \in Record, NEW l \in BOOLEAN, merge_record(r, l)
        PROVE  (win' = win /\ overtaken' = overtaken) \/ win' # scan.win
    <2>1. CASE ~Accepts(r)
      BY <1>3, <2>1 DEF merge_record
    <2>2. CASE Accepts(r)
      <3>1. win' = r /\ r # NoRecord
        BY <1>3, <2>2, NoRecordAssumption DEF merge_record, upsert_record
      <3>2. ASSUME r = scan.win PROVE FALSE
        <4>1. r \in presented /\ win # NoRecord /\ win \in Record
          BY <3>1, <3>2 DEF Inv, RowInv, RowType, RowIsGreatest
        <4>2. Wins(r, win)
          BY <2>2, <4>1 DEF Accepts
        <4>3. r = win \/ Wins(win, r)
          BY <4>1 DEF Inv, RowInv, RowIsGreatest
        <4> QED BY <4>1, <4>2, <4>3, WinsIrreflexive, WinsAsymmetric
      <3> QED BY <3>1, <3>2
    <2> QED BY <2>1, <2>2
  <1> QED BY <1>1, <1>2, <1>3, RemoteAssumption
          DEF RowStep, rowVars, Unmaterialize, mark_tombstone_materialized

\* What a step does to the row that writes no fingerprint of a file on disk.
UnmarkedStep ==
    \/ UNCHANGED rowVars
    \/ Unmaterialize
    \/ mark_tombstone_materialized
    \/ \E r \in Record, l \in BOOLEAN : merge_record(r, l)

\* Such a step gives the row no fingerprint but that of a record it merges.
LEMMA OwnUnmarked ==
  ASSUME OnlyOvertakenDiffer, UnmarkedStep
  PROVE  OnlyOvertakenDiffer'
  <1>1. CASE UNCHANGED rowVars
    BY <1>1 DEF rowVars, OnlyOvertakenDiffer, MaterializedIsWinner, IsFile
  <1>2. CASE Unmaterialize
    BY <1>2 DEF Unmaterialize, OnlyOvertakenDiffer, MaterializedIsWinner
  <1>3. CASE mark_tombstone_materialized
    BY <1>3 DEF mark_tombstone_materialized, OnlyOvertakenDiffer, MaterializedIsWinner,
       IsFile, IsTombstone
  <1>4. ASSUME NEW r \in Record, NEW l \in BOOLEAN, merge_record(r, l)
        PROVE  OnlyOvertakenDiffer'
    <2>1. CASE Accepts(r)
      <3>1. win' = r /\ mat' = l /\ fp' = (IF l /\ IsFile(r) THEN AsFile(r) ELSE NoFile)
        BY <1>4, <2>1 DEF merge_record, upsert_record
      <3>2. AsFile(r).body = r.body
        BY DEF AsFile
      <3>3. (IsFile(win) /\ mat)' => fp' = AsFile(r)
        BY <3>1 DEF IsFile
      <3> QED BY <3>1, <3>2, <3>3 DEF OnlyOvertakenDiffer, MaterializedIsWinner
    <2>2. CASE ~Accepts(r)
      BY <1>4, <2>2 DEF merge_record, OnlyOvertakenDiffer, MaterializedIsWinner, IsFile
    <2> QED BY <2>1, <2>2
  <1> QED BY <1>1, <1>2, <1>3, <1>4 DEF UnmarkedStep

\* A step that leaves the scan's copy of the row and its stage alone.
LEMMA OwnScanKept ==
  ASSUME Inv, OwnInv, RowStep, OnlyOvertakenDiffer', presented \subseteq presented',
         UNCHANGED scan
  PROVE  OwnInv'
  <1>1. scan.win # NoRecord => scan.win \in presented
    BY DEF OwnInv
  <1>2. \/ win' = win /\ (overtaken => overtaken')
        \/ win' # scan.win
    BY <1>1, RowStepMoves
  <1> QED BY <1>2 DEF OwnInv

\* A session marks the row with what it installed for its own record.
LEMMA OwnSession ==
  ASSUME Inv, OwnInv, NEW s \in Sessions, SessionStep(s), presented \subseteq presented'
  PROVE  OwnInv'
  <1>1. RowStep
    BY SessionStepInv
  <1>2. UNCHANGED scan
    BY DEF SessionStep, SessionMerge, SessionTombWinner, SessionTombState, SessionTombRemove,
           SessionTombMark, SessionRequest, SessionReceive, SessionFails, SessionOpen,
           SessionInstall, SessionInstallFails, SessionMark, SessionMarkFailed, SessionServe,
           SessionServeState, SessionVerify, SessionServeBad
  <1>3. CASE SessionMark(s)
    <2>1. CASE ~IsFile(win)
      <3>1. UNCHANGED rowVars
        BY <1>3, <2>1 DEF SessionMark
      <3> QED BY <1>1, <1>2, <3>1, OwnScanKept, OwnUnmarked DEF UnmarkedStep, OwnInv
    <2>2. CASE IsFile(win)
      <3>1. /\ win' = win /\ fp' = Installed(sess[s].rec)
            /\ overtaken' = (overtaken \/ win # sess[s].rec)
        BY <1>3, <2>2 DEF SessionMark, update_materialized_fingerprint
      <3>2. fp'.body = sess[s].rec.body
        BY <3>1 DEF Installed
      <3>3. OnlyOvertakenDiffer'
        BY <3>1, <3>2 DEF OnlyOvertakenDiffer, MaterializedIsWinner
      <3> QED BY <1>1, <1>2, <3>3, OwnScanKept
    <2> QED BY <2>1, <2>2
  <1>4. CASE ~SessionMark(s)
    <2>1. UnmarkedStep
      <3>1. CASE \E r \in Remote : SessionMerge(s, r)
        BY <3>1, RemoteAssumption DEF SessionMerge, UnmarkedStep
      <3>2. CASE SessionTombMark(s) \/ SessionMarkFailed(s) \/ SessionServeBad(s)
        BY <3>2 DEF SessionTombMark, SessionMarkFailed, SessionServeBad, mark_repair_required,
           UnmarkedStep
      <3>3. CASE UNCHANGED rowVars
        BY <3>3 DEF UnmarkedStep
      <3> QED BY <1>4, <3>1, <3>2, <3>3 DEF SessionStep, SessionTombWinner, SessionTombState,
              SessionTombRemove, SessionRequest, SessionReceive, SessionFails, SessionOpen,
              SessionInstall, SessionInstallFails, SessionServe, SessionServeState,
              SessionVerify
    <2> QED BY <1>1, <1>2, <2>1, OwnUnmarked, OwnScanKept DEF OwnInv
  <1> QED BY <1>3, <1>4

\* The scanner copies the row, compares, and marks the row with what it saw.
LEMMA OwnScan ==
  ASSUME Inv, OwnInv, ScanStep, presented \subseteq presented'
  PROVE  OwnInv'
  <1>1. RowStep
    BY ScanStepInv
  <1>2. ScanType
    BY DEF Inv, ScanInv
  <1>3. ASSUME OnlyOvertakenDiffer', scan' = IdleScan PROVE OwnInv'
    <2>1. scan'.win = NoRecord /\ scan'.pc = "idle"
      BY <1>3 DEF IdleScan
    <2> QED BY <1>3, <2>1 DEF OwnInv
  <1>4. ASSUME OnlyOvertakenDiffer', scan'.win = scan.win, scan'.pc \notin {"winner", "match"}
        PROVE  OwnInv'
    BY <1>4 DEF OwnInv
  <1>5. ASSUME UnmarkedStep PROVE OnlyOvertakenDiffer'
    BY <1>5, OwnUnmarked DEF OwnInv
  <1>6. CASE ScanOpen
    <2>1. UnmarkedStep /\ scan'.win = NoRecord /\ scan'.pc = "walk"
      BY <1>6 DEF ScanOpen, IdleScan, UnmarkedStep
    <2> QED BY <1>5, <2>1 DEF OwnInv
  <1>7. CASE ScanPaused
    BY <1>1, <1>5, <1>7, OwnScanKept DEF ScanPaused, UnmarkedStep
  <1>8. CASE ScanWalk \/ ScanExcludes
    <2>1. UnmarkedStep /\ scan'.win = scan.win /\ scan'.pc = "complete"
      BY <1>2, <1>8 DEF ScanWalk, ScanExcludes, ScanType, UnmarkedStep
    <2> QED BY <1>4, <1>5, <2>1
  <1>9. CASE ScanFails
    BY <1>3, <1>5, <1>9 DEF ScanFails, ScanError, UnmarkedStep
  <1>10. CASE ScanComplete
    <2>1. scan'.win = scan.win /\ scan'.pc = "current"
      BY <1>2, <1>10 DEF ScanComplete, ScanGoto, ScanType
    <2>2. UnmarkedStep
      BY <1>10 DEF ScanComplete, UnmarkedStep
    <2> QED BY <1>4, <1>5, <2>1, <2>2
  <1>11. CASE ScanCurrent
    <2>1. UnmarkedStep /\ UNCHANGED <<win, mat, fp, presented, overtaken>>
      BY <1>11 DEF ScanCurrent, UnmarkedStep, rowVars
    <2>2. CASE scan' = IdleScan
      BY <1>3, <1>5, <2>1, <2>2
    <2>3. CASE scan' # IdleScan
      <3>1. scan'.pc = AfterCurrent /\ scan'.win = win /\ scan'.fp = fp
        BY <1>2, <1>11, <2>3 DEF ScanCurrent, ScanType
      <3>2. AfterCurrent # "match"
        BY DEF AfterCurrent
      <3>3. win # NoRecord => win \in presented
        BY DEF Inv, RowInv, RowIsGreatest
      <3>4. ~overtaken /\ fp # NoFile => fp.body = win.body
        BY DEF OwnInv, OnlyOvertakenDiffer, MaterializedIsWinner, Inv, RowInv,
               FingerprintIffMaterialized
      <3> QED BY <1>5, <2>1, <3>1, <3>2, <3>3, <3>4 DEF OwnInv
    <2> QED BY <2>2, <2>3
  <1>12. CASE ScanFuture \/ ScanRepair
    <2>1. scan' = IdleScan /\ UnmarkedStep
      BY <1>12 DEF ScanFuture, ScanRepair, ScanDone, ScanError, mark_repair_required, UnmarkedStep
    <2> QED BY <1>3, <1>5, <2>1
  <1>13. CASE ScanWinner
    <2>1. UnmarkedStep /\ UNCHANGED <<win, presented, overtaken>> /\ scan.pc = "winner"
      BY <1>13 DEF ScanWinner, UnmarkedStep, rowVars
    <2>2. scan.seen \in DiskFile
      BY <2>1 DEF Inv, ScanInv
    <2>3. CASE win # NoRecord /\ scan.fp = scan.seen
      <3>1. scan'.pc = "match" /\ scan'.win = scan.win /\ scan'.seen = scan.seen
        BY <1>2, <1>13, <2>3 DEF ScanWinner, ScanGoto, ScanType
      <3>2. scan.fp # NoFile
        BY <2>2, <2>3, FileAssumption
      <3> QED BY <1>5, <2>1, <2>3, <3>1, <3>2 DEF OwnInv
    <2>4. CASE ~(win # NoRecord /\ scan.fp = scan.seen)
      <3>1. /\ scan'.win = win /\ scan'.seen = scan.seen /\ scan'.pc # "winner"
            /\ scan'.pc = "match" => AsFile(win) = scan.seen
        BY <1>2, <1>13, <2>4 DEF ScanWinner, ScanType
      <3>2. scan'.pc = "match" => scan.seen.body = win.body
        BY <3>1 DEF AsFile
      <3>3. win # NoRecord => win \in presented
        BY DEF Inv, RowInv, RowIsGreatest
      <3> QED BY <1>5, <2>1, <3>1, <3>2, <3>3 DEF OwnInv
    <2> QED BY <2>3, <2>4
  <1>14. CASE ScanMatch
    <2>1. scan' = IdleScan /\ scan.pc = "match"
      BY <1>14 DEF ScanMatch, ScanDone, ScanError
    <2>2. CASE ~IsFile(win)
      BY <1>3, <1>5, <1>14, <2>1, <2>2 DEF ScanMatch, UnmarkedStep
    <2>3. CASE IsFile(win)
      <3>1. /\ win' = win /\ fp' = scan.seen
            /\ overtaken' = (overtaken \/ win # scan.win)
        BY <1>14, <2>3 DEF ScanMatch, update_materialized_fingerprint
      <3>2. OnlyOvertakenDiffer'
        BY <2>1, <3>1 DEF OwnInv, OnlyOvertakenDiffer, MaterializedIsWinner
      <3> QED BY <1>3, <2>1, <3>2
    <2> QED BY <2>2, <2>3
  <1>15. CASE ScanMerge
    <2>1. scan.pc = "merge" /\ merge_record(Candidate, TRUE)
      BY <1>15 DEF ScanMerge
    <2>2. UnmarkedStep
      BY <2>1, CandidateType DEF UnmarkedStep
    <2>3. CASE scan' = IdleScan
      BY <1>3, <1>5, <2>2, <2>3
    <2>4. CASE scan' # IdleScan
      <3>1. scan'.win = scan.win /\ scan'.pc = "repair"
        BY <1>2, <1>15, <2>4 DEF ScanMerge, ScanGoto, ScanType
      <3> QED BY <1>4, <1>5, <2>2, <3>1
    <2> QED BY <2>3, <2>4
  <1>16. CASE ScanMissing
    <2>1. scan.pc = "missing" /\ merge_record(Deletion, TRUE) /\ scan' = IdleScan
      BY <1>16 DEF ScanMissing
    <2>2. UnmarkedStep
      BY <2>1, DeletionType DEF UnmarkedStep
    <2> QED BY <1>3, <1>5, <2>1, <2>2
  <1> QED BY <1>6, <1>7, <1>8, <1>9, <1>10, <1>11, <1>12, <1>13, <1>14, <1>15, <1>16
          DEF ScanStep

\* Whatever scanner, sessions, user and crashes do, with any number of peers:
\* a materialized row holds the fingerprint of other bytes than its record's
\* only if the fingerprint was taken for another record, one that won when the
\* scanner matched or the session renamed and had lost when the row was updated.
THEOREM OwnFingerprint == Spec => []OnlyOvertakenDiffer
  <1>1. Init => OwnInv
    BY DEF Init, OwnInv, OnlyOvertakenDiffer, MaterializedIsWinner, IsFile, IdleScan
  <1>2. Inv /\ OwnInv /\ [Next]_vars => OwnInv'
    <2> SUFFICES ASSUME Inv, OwnInv, [Next]_vars PROVE OwnInv'
      OBVIOUS
    <2>1. RowStep /\ presented \subseteq presented'
      BY NextInv, HistoriesGrow
    <2>2. CASE ScanStep
      BY <2>1, <2>2, OwnScan
    <2>3. CASE \E s \in Sessions : SessionStep(s)
      BY <2>1, <2>3, OwnSession
    <2>4. ASSUME UNCHANGED <<rowVars, scan>> PROVE OwnInv'
      BY <2>1, <2>4, OwnUnmarked, OwnScanKept DEF OwnInv, UnmarkedStep
    <2>5. CASE Crash
      <3>1. UNCHANGED rowVars /\ scan' = IdleScan
        BY <2>5 DEF Crash
      <3>2. scan'.win = NoRecord /\ scan'.pc = "idle"
        BY <3>1 DEF IdleScan
      <3> QED BY <3>1, <3>2, OwnUnmarked DEF OwnInv, UnmarkedStep
    <2>6. CASE Environment /\ ~Crash
      BY <2>4, <2>6 DEF Environment, Tick, UserWrites, UserDeletes, UserRetargets
    <2>7. CASE UNCHANGED vars
      BY <2>4, <2>7 DEF vars
    <2> QED BY <2>2, <2>3, <2>5, <2>6, <2>7 DEF Next
  <1>3. OwnInv => OnlyOvertakenDiffer
    BY DEF OwnInv
  <1> QED BY <1>1, <1>2, <1>3, Invariance, PTL DEF Spec
============================================================================
