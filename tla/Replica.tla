------------------------------ MODULE Replica ------------------------------
(***************************************************************************)
(* One device and one path of one collection: the SQLite row of the path   *)
(* (state.rs), the file on disk under the collection root, the daemon's    *)
(* scanner (filesystem.rs) and the peer sessions (sync.rs, installer.rs)   *)
(* that run beside it, the user who edits files behind their back, and     *)
(* crashes.                                                                *)
(*                                                                         *)
(* Every SQLite transaction and every file-system call that matters is a   *)
(* step of its own, as in the code: the scanner runs on the daemon's main  *)
(* thread, up to four sessions on the tokio workers, and nothing but the   *)
(* transactions orders them.  A root is a physical directory; the          *)
(* configured path resolves to one of them or to none.                     *)
(***************************************************************************)
EXTENDS Records

CONSTANTS
    Local,        \* this device's EndpointId
    Remote,       \* the records peers may present
    UserFiles,    \* the files the user may write
    Sessions,     \* slots for concurrent peer sessions
    Roots,        \* physical directories the collection path can resolve to
    NoRoot,       \* the path resolves to nothing; resolved_root IS NULL
    NoFile,       \* nothing at the path
    Unstable,     \* the walk met the file and could not read it stably
    Stored(_),    \* the write time the file system keeps when it is told one
    Skew,         \* max_future_clock_skew
    MaxClock,     \* bound on the wall clock
    MaxEdits      \* bound on what the user does

\* A file as the scanner and the fingerprint columns see it.
DiskFile == [modified_ns : Time, body : Contents]

ASSUME LocalAssumption == Local \in Authors

ASSUME RemoteAssumption == Remote \subseteq Record

ASSUME UserFilesAssumption == UserFiles \subseteq DiskFile

ASSUME RootsAssumption == NoRoot \notin Roots

ASSUME FileAssumption == NoFile \notin DiskFile /\ Unstable \notin DiskFile /\ Unstable # NoFile

\* The file system rounds down, and keeps a rounded time as it is.
ASSUME StoredAssumption ==
    \A t \in Time : Stored(t) \in 0 .. t /\ Stored(Stored(t)) = Stored(t)

ASSUME BoundsAssumption ==
    /\ Skew \in Nat
    /\ MaxClock \in Nat
    /\ MaxEdits \in Nat
    /\ MaxTime = MaxClock + Skew + 1

VARIABLES
    clock,        \* the device's wall clock, now_ns()
    win,          \* path_records: the winning record
    mat,          \* path_records.materialized
    fp,           \* path_records.materialized_{modified_ns,size,hash}
    dbRoot,       \* collections.resolved_root
    status,       \* collections.scan_status
    root,         \* what the configured path resolves to
    disk,         \* the file at the path, under each physical root
    scan,         \* the scanner's locals
    sess,         \* each session's locals
    edits,        \* how often the user has acted
    presented,    \* history: the records given to merge_record
    held,         \* history: the row was once a materialized file
    overtaken,    \* history: the winner's fingerprint was taken for another record
    typed,        \* history: the files the user wrote
    erased,       \* history: the user once deleted the file
    crossed       \* history: a session changed file or row behind a scan or a newer file

rowVars == <<win, mat, fp, presented, held, overtaken>>
ghostVars == <<edits, typed, erased, crossed>>
vars == <<clock, rowVars, dbRoot, status, root, disk, scan, sess, ghostVars>>

ScanStages == {"idle", "walk", "complete", "current", "future", "winner", "match",
               "merge", "repair", "missing"}

SessionStages == {"idle", "tombWinner", "tombState", "tombRemove", "tombMark",
                  "request", "requested", "checked", "opened", "installed", "failed",
                  "asked", "serving", "serveBad"}

IdleScan == [pc |-> "idle", now |-> 0, root |-> NoRoot, seen |-> NoFile,
             win |-> NoRecord, mat |-> FALSE, fp |-> NoFile]

IdleSession == [pc |-> "idle", rec |-> NoRecord, root |-> NoRoot]

\* The schema's CHECK: only a materialized file row carries a fingerprint, and
\* it always does, whichever transactions of scanner and sessions interleave.
FingerprintIffMaterialized == (fp # NoFile) <=> (IsFile(win) /\ mat)

\* Every variable has its type, and the row is one that the schema of
\* path_records admits.
TypeOK ==
    /\ FingerprintIffMaterialized
    /\ clock \in 0 .. MaxClock
    /\ win \in Record \cup {NoRecord}
    /\ mat \in BOOLEAN
    /\ fp \in DiskFile \cup {NoFile}
    /\ dbRoot \in Roots \cup {NoRoot}
    /\ status \in {"pending", "active", "paused", "error"}
    /\ root \in Roots \cup {NoRoot}
    /\ disk \in [Roots -> DiskFile \cup {NoFile}]
    /\ scan \in [pc : ScanStages, now : 0 .. MaxClock, root : Roots \cup {NoRoot},
                 seen : DiskFile \cup {NoFile, Unstable}, win : Record \cup {NoRecord},
                 mat : BOOLEAN, fp : DiskFile \cup {NoFile}]
    /\ sess \in [Sessions -> [pc : SessionStages, rec : Record \cup {NoRecord},
                              root : Roots \cup {NoRoot}]]
    /\ edits \in 0 .. MaxEdits
    /\ presented \subseteq Record
    /\ held \in BOOLEAN
    /\ overtaken \in BOOLEAN
    /\ typed \subseteq DiskFile
    /\ erased \in BOOLEAN
    /\ crossed \in BOOLEAN

\* A freshly attached collection: no row, no resolved root, perhaps no directory.
Init ==
    /\ clock = 0
    /\ win = NoRecord
    /\ mat = FALSE
    /\ fp = NoFile
    /\ dbRoot = NoRoot
    /\ status = "pending"
    /\ root \in Roots \cup {NoRoot}
    /\ disk = [r \in Roots |-> NoFile]
    /\ scan = IdleScan
    /\ sess = [s \in Sessions |-> IdleSession]
    /\ edits = 0
    /\ presented = {}
    /\ held = FALSE
    /\ overtaken = FALSE
    /\ typed = {}
    /\ erased = FALSE
    /\ crossed = FALSE

----------------------------------------------------------------------------
(* Transactions on the row.                                                *)

AsFile(r) == [modified_ns |-> r.modified_ns, body |-> r.body]

\* What the configured path leads to.
AtPath == IF root = NoRoot THEN NoFile ELSE disk[root]

HasBody(f, body) == f # NoFile /\ f.body = body

FutureLimit(now) == now + Skew

\* Mutant: >= on timestamps alone, so the later arrival wins a tie.
AcceptsByTimeOnly(r) == win = NoRecord \/ r.modified_ns >= win.modified_ns

\* merge_record accepts the record: there is no row, or it beats the row.
Accepts(r) == win = NoRecord \/ Wins(r, win)

\* Mutant: ON CONFLICT leaves the materialized columns of a file row.
upsert_record_kept(r, materialized) ==
    /\ win' = r
    /\ mat' = (materialized \/ (mat /\ IsFile(win) /\ IsFile(r)))
    /\ fp' = IF ~IsFile(r) THEN NoFile ELSE IF materialized THEN AsFile(r) ELSE fp
    /\ held' = (held \/ (materialized /\ IsFile(r)))
    /\ overtaken' = FALSE

\* upsert_record: a local record is materialized as it is on disk, a peer's has
\* to be installed first.
upsert_record(r, materialized) ==
    /\ win' = r
    /\ mat' = materialized
    /\ fp' = IF materialized /\ IsFile(r) THEN AsFile(r) ELSE NoFile
    /\ held' = (held \/ (materialized /\ IsFile(r)))
    /\ overtaken' = FALSE

merge_record(r, isLocal) ==
    /\ presented' = presented \cup {r}
    /\ IF Accepts(r) THEN upsert_record(r, isLocal)
                     ELSE UNCHANGED <<win, mat, fp, held, overtaken>>

\* Mutant: the fingerprint columns are left behind.
UnmaterializeFlagOnly ==
    /\ IsFile(win)
    /\ mat' = FALSE
    /\ UNCHANGED <<win, fp, presented, held, overtaken>>

\* The UPDATEs of file columns touch only rows of kind file; an UPDATE that
\* finds no such row is StateError::MissingPathRecord.
Unmaterialize ==
    /\ IsFile(win)
    /\ mat' = FALSE
    /\ fp' = NoFile
    /\ UNCHANGED <<win, presented, held, overtaken>>

mark_repair_required == Unmaterialize

\* The UPDATE names the path and not the record: f, which the caller took for
\* the file of r, becomes the fingerprint of whatever file row is there.
update_materialized_fingerprint(f, r) ==
    /\ IsFile(win)
    /\ mat' = TRUE
    /\ fp' = f
    /\ held' = TRUE
    /\ overtaken' = (overtaken \/ win # r)
    /\ UNCHANGED <<win, presented>>

mark_tombstone_materialized ==
    /\ IsTombstone(win)
    /\ mat' = TRUE
    /\ UNCHANGED <<win, fp, presented, held, overtaken>>

----------------------------------------------------------------------------
(* The scanner: scan_collection_with_hooks, one collection at a time.      *)

ScanGoto(pc) == scan' = [scan EXCEPT !.pc = pc]

ScanDone == scan' = IdleScan /\ UNCHANGED status

\* scan_collection_safely: the scan's error becomes the collection's status.
ScanError == scan' = IdleScan /\ status' = "error"

\* open_stable_root: the root's directory is held open for the whole scan.
ScanOpen ==
    /\ scan.pc = "idle"
    /\ root # NoRoot
    /\ scan' = [IdleScan EXCEPT !.pc = "walk", !.now = clock, !.root = root]
    /\ UNCHANGED <<clock, rowVars, dbRoot, status, root, disk, sess, ghostVars>>

\* A missing root pauses the collection: scan_status 'missing' or
\* 'not_directory', and the rows stay as they are.
ScanPaused ==
    /\ scan.pc = "idle"
    /\ root = NoRoot
    /\ status' = "paused"
    /\ UNCHANGED <<clock, rowVars, dbRoot, root, disk, scan, sess, ghostVars>>

\* walk_directory under the open handle reads the file, if there is one.
ScanWalk ==
    /\ scan.pc = "walk"
    /\ scan' = [scan EXCEPT !.pc = "complete", !.seen = disk[scan.root]]
    /\ UNCHANGED <<clock, rowVars, dbRoot, status, root, disk, sess, ghostVars>>

\* stable_file gives up on a file that keeps changing; the path is excluded
\* from this scan.
ScanExcludes ==
    /\ scan.pc = "walk"
    /\ disk[scan.root] # NoFile
    /\ scan' = [scan EXCEPT !.pc = "complete", !.seen = Unstable]
    /\ UNCHANGED <<clock, rowVars, dbRoot, status, root, disk, sess, ghostVars>>

\* The root moved while it was opened, or an I/O error ended the walk: a file
\* went away between readdir and open.
ScanFails ==
    /\ scan.pc \in {"idle", "walk"}
    /\ ScanError
    /\ UNCHANGED <<clock, rowVars, dbRoot, root, disk, sess, ghostVars>>

\* Mutant: the scan adopts the new root and keeps the old root's files.
ScanCompleteKeepsFiles ==
    /\ scan.pc = "complete"
    /\ dbRoot' = scan.root
    /\ status' = "active"
    /\ ScanGoto("current")
    /\ UNCHANGED <<clock, rowVars, root, disk, sess, ghostVars>>

\* complete_collection_scan: another physical root than the one recorded
\* unmaterializes the collection's files.
ScanComplete ==
    /\ scan.pc = "complete"
    /\ dbRoot' = scan.root
    /\ IF dbRoot # scan.root /\ IsFile(win) THEN Unmaterialize ELSE UNCHANGED rowVars
    /\ status' = "active"
    /\ ScanGoto("current")
    /\ UNCHANGED <<clock, root, disk, sess, ghostVars>>

\* Mutant: every file row that the walk did not meet is missing.
AfterCurrentUnknownMissing ==
    IF scan.seen = NoFile
      THEN IF IsFile(win) THEN "missing" ELSE "idle"
      ELSE IF scan.seen = Unstable THEN "idle"
      ELSE IF scan.seen.modified_ns > FutureLimit(scan.now) THEN "future" ELSE "winner"

\* Where the loop over the walked files, or over the rows, takes the path.
AfterCurrent ==
    IF scan.seen = NoFile
      THEN IF IsFile(win) /\ mat THEN "missing" ELSE "idle"
      ELSE IF scan.seen = Unstable THEN "idle"
      ELSE IF scan.seen.modified_ns > FutureLimit(scan.now) THEN "future" ELSE "winner"

\* record_states: the rows as of now; the walk is already over.
ScanCurrent ==
    /\ scan.pc = "current"
    /\ IF AfterCurrent = "idle"
         THEN scan' = IdleScan
         ELSE scan' = [scan EXCEPT !.pc = AfterCurrent, !.win = win, !.mat = mat, !.fp = fp]
    /\ UNCHANGED <<clock, rowVars, dbRoot, status, root, disk, sess, ghostVars>>

\* Mutant: a file from the future is rejected and the row left as it was.
ScanFutureIgnored ==
    /\ scan.pc = "future"
    /\ ScanDone
    /\ UNCHANGED <<clock, rowVars, dbRoot, root, disk, sess, ghostVars>>

\* A file from the future is rejected; if it replaced the materialized winner
\* the row needs repair.
ScanFuture ==
    /\ scan.pc = "future"
    /\ IF scan.mat /\ scan.seen.body # scan.win.body
         THEN IF IsFile(win)
                THEN mark_repair_required /\ ScanDone
                ELSE UNCHANGED rowVars /\ ScanError
         ELSE UNCHANGED rowVars /\ ScanDone
    /\ UNCHANGED <<clock, dbRoot, root, disk, sess, ghostVars>>

\* Mutant: only the stored fingerprint counts as a match.
ScanWinnerFingerprintOnly ==
    /\ scan.pc = "winner"
    /\ IF win # NoRecord /\ scan.fp = scan.seen
         THEN ScanGoto("match")
         ELSE scan' = [scan EXCEPT !.pc = "merge", !.win = win]
    /\ UNCHANGED <<clock, rowVars, dbRoot, status, root, disk, sess, ghostVars>>

\* The winner is read again.  The file is the one of the record the stored
\* fingerprint was read with, or the winner's own, or a candidate to merge.
ScanWinner ==
    /\ scan.pc = "winner"
    /\ IF win # NoRecord /\ scan.fp = scan.seen
         THEN ScanGoto("match")
         ELSE scan' = [scan EXCEPT
                         !.win = win,
                         !.pc = IF IsFile(win) /\ AsFile(win) = scan.seen
                                  THEN "match" ELSE "merge"]
    /\ UNCHANGED <<clock, rowVars, dbRoot, status, root, disk, sess, ghostVars>>

\* set_materialized_fingerprint, on whatever file row the path has by now.
ScanMatch ==
    /\ scan.pc = "match"
    /\ IF IsFile(win)
         THEN update_materialized_fingerprint(scan.seen, scan.win) /\ ScanDone
         ELSE UNCHANGED rowVars /\ ScanError
    /\ UNCHANGED <<clock, dbRoot, root, disk, sess, ghostVars>>

Candidate ==
    [modified_ns |-> scan.seen.modified_ns, author |-> Local, body |-> scan.seen.body]

\* The file is merged as a local record; a rejected one left the winner's
\* path with other bytes.
ScanMerge ==
    /\ scan.pc = "merge"
    /\ merge_record(Candidate, TRUE)
    /\ IF ~Accepts(Candidate) /\ IsFile(scan.win) THEN ScanGoto("repair") ELSE scan' = IdleScan
    /\ UNCHANGED <<clock, dbRoot, status, root, disk, sess, ghostVars>>

ScanRepair ==
    /\ scan.pc = "repair"
    /\ IF IsFile(win)
         THEN mark_repair_required /\ ScanDone
         ELSE UNCHANGED rowVars /\ ScanError
    /\ UNCHANGED <<clock, dbRoot, root, disk, sess, ghostVars>>

\* The deletion of a materialized file is stamped with the scan's time, and
\* after the record it deletes.
Deletion ==
    [modified_ns |-> IF scan.now > scan.win.modified_ns + 1
                       THEN scan.now ELSE scan.win.modified_ns + 1,
     author |-> Local, body |-> Tombstone]

ScanMissing ==
    /\ scan.pc = "missing"
    /\ merge_record(Deletion, TRUE)
    /\ scan' = IdleScan
    /\ UNCHANGED <<clock, dbRoot, status, root, disk, sess, ghostVars>>

----------------------------------------------------------------------------
(* A peer session: one record of the peer's manifest, presented, merged and *)
(* brought to disk; or one file served to the peer.                        *)

Goto(s, pc) == sess' = [sess EXCEPT ![s].pc = pc]

Leave(s) == sess' = [sess EXCEPT ![s] = IdleSession]

\* Mutant: the future check is missing.
SessionMergeAnyTime(s, r) ==
    /\ sess[s].pc = "idle"
    /\ merge_record(r, FALSE)
    /\ sess' = [sess EXCEPT ![s].rec = r,
                            ![s].pc = IF IsTombstone(r) THEN "tombWinner" ELSE "request"]
    /\ UNCHANGED <<clock, dbRoot, status, root, disk, scan, ghostVars>>

\* merge_remote_manifests, first loop: a record from the future is skipped,
\* any other is merged as the peer's.
SessionMerge(s, r) ==
    /\ sess[s].pc = "idle"
    /\ r.modified_ns <= FutureLimit(clock)
    /\ merge_record(r, FALSE)
    /\ sess' = [sess EXCEPT ![s].rec = r,
                            ![s].pc = IF IsTombstone(r) THEN "tombWinner" ELSE "request"]
    /\ UNCHANGED <<clock, dbRoot, status, root, disk, scan, ghostVars>>

\* The tombstone is still the winner ...
SessionTombWinner(s) ==
    /\ sess[s].pc = "tombWinner"
    /\ IF win = sess[s].rec THEN Goto(s, "tombState") ELSE Leave(s)
    /\ UNCHANGED <<clock, rowVars, dbRoot, status, root, disk, scan, ghostVars>>

\* ... and not yet materialized: materialize_tombstone opens the root, whose
\* absence is only logged.
SessionTombState(s) ==
    /\ sess[s].pc = "tombState"
    /\ IF win # NoRecord /\ ~mat /\ root # NoRoot
         THEN sess' = [sess EXCEPT ![s].pc = "tombRemove", ![s].root = root]
         ELSE Leave(s)
    /\ UNCHANGED <<clock, rowVars, dbRoot, status, root, disk, scan, ghostVars>>

\* A scan is past its walk of the root, and its walk has met a file or not.
Walked(r, met) ==
    /\ scan.pc \notin {"idle", "walk"}
    /\ scan.root = r
    /\ met <=> scan.seen # NoFile

\* remove_file; a path that is already gone is fine.  It removes whatever is
\* there: the file of a record that has won since, or one that a scan has seen.
SessionTombRemove(s) ==
    /\ sess[s].pc = "tombRemove"
    /\ disk' = [disk EXCEPT ![sess[s].root] = NoFile]
    /\ Goto(s, "tombMark")
    /\ crossed' = \/ crossed
                  \/ /\ disk[sess[s].root] # NoFile
                     /\ (IsFile(win) \/ Walked(sess[s].root, TRUE))
    /\ UNCHANGED <<clock, rowVars, dbRoot, status, root, scan, edits, typed, erased>>

SessionTombMark(s) ==
    /\ sess[s].pc = "tombMark"
    /\ IF IsTombstone(win) THEN mark_tombstone_materialized ELSE UNCHANGED rowVars
    /\ Leave(s)
    /\ UNCHANGED <<clock, dbRoot, status, root, disk, scan, ghostVars>>

\* merge_remote_manifests, second loop: request the winner's bytes if it is
\* the peer's record and they are missing here.
SessionRequest(s) ==
    /\ sess[s].pc = "request"
    /\ IF win = sess[s].rec /\ ~mat THEN Goto(s, "requested") ELSE Leave(s)
    /\ UNCHANGED <<clock, rowVars, dbRoot, status, root, disk, scan, ghostVars>>

\* receive_files: the staged bytes passed their hash check and the record is
\* still the winner; otherwise the transfer is logged and dropped.
SessionReceive(s) ==
    /\ sess[s].pc = "requested"
    /\ IF win = sess[s].rec THEN Goto(s, "checked") ELSE Leave(s)
    /\ UNCHANGED <<clock, rowVars, dbRoot, status, root, disk, scan, ghostVars>>

\* The peer has no such file, the transfer breaks or times out, its bytes fail
\* the hash, removing a deleted file or syncing its directory fails, or the
\* root will not hold still.
SessionFails(s) ==
    /\ sess[s].pc \in {"requested", "checked", "tombRemove", "tombMark"}
    /\ Leave(s)
    /\ UNCHANGED <<clock, rowVars, dbRoot, status, root, disk, scan, ghostVars>>

\* install_file opens the root; its absence is an install error.
SessionOpen(s) ==
    /\ sess[s].pc = "checked"
    /\ IF root = NoRoot
         THEN Goto(s, "failed")
         ELSE sess' = [sess EXCEPT ![s].pc = "opened", ![s].root = root]
    /\ UNCHANGED <<clock, rowVars, dbRoot, status, root, disk, scan, ghostVars>>

\* What install_file leaves at the path: the record's bytes at its write time,
\* to the file system's precision.
Installed(r) == [modified_ns |-> Stored(r.modified_ns), body |-> r.body]

\* The verified temporary file is renamed over the path.
SessionInstall(s) ==
    /\ sess[s].pc = "opened"
    /\ disk' = [disk EXCEPT ![sess[s].root] = Installed(sess[s].rec)]
    /\ Goto(s, "installed")
    /\ UNCHANGED <<clock, rowVars, dbRoot, status, root, scan, ghostVars>>

\* An install error before the rename.
SessionInstallFails(s) ==
    /\ sess[s].pc = "opened"
    /\ Goto(s, "failed")
    /\ UNCHANGED <<clock, rowVars, dbRoot, status, root, disk, scan, ghostVars>>

\* mark_materialized_and_log, also after a failed directory sync: the row is
\* bound to the root that was opened; without a file row it is rolled back.  It
\* may be about a newer record's row, or behind a scan that has not met the file.
SessionMark(s) ==
    /\ sess[s].pc = "installed"
    /\ IF IsFile(win)
         THEN /\ update_materialized_fingerprint(Installed(sess[s].rec), sess[s].rec)
              /\ dbRoot' = sess[s].root
              /\ crossed' = \/ crossed
                            \/ win # sess[s].rec
                            \/ \E r \in Roots : \/ Walked(r, FALSE)
                                                \/ r # sess[s].root /\ Walked(r, TRUE)
         ELSE UNCHANGED <<rowVars, dbRoot, crossed>>
    /\ Leave(s)
    /\ UNCHANGED <<clock, status, root, disk, scan, edits, typed, erased>>

SessionMarkFailed(s) ==
    /\ sess[s].pc = "failed"
    /\ IF IsFile(win) THEN mark_repair_required ELSE UNCHANGED rowVars
    /\ Leave(s)
    /\ UNCHANGED <<clock, dbRoot, status, root, disk, scan, ghostVars>>

\* prepare_requested_file: the peer asks for the winner ...
SessionServe(s) ==
    /\ sess[s].pc = "idle"
    /\ IsFile(win)
    /\ sess' = [sess EXCEPT ![s].pc = "asked", ![s].rec = win]
    /\ UNCHANGED <<clock, rowVars, dbRoot, status, root, disk, scan, ghostVars>>

\* ... and, by a second read of the row, it is here.
SessionServeState(s) ==
    /\ sess[s].pc = "asked"
    /\ IF mat THEN Goto(s, "serving") ELSE Leave(s)
    /\ UNCHANGED <<clock, rowVars, dbRoot, status, root, disk, scan, ghostVars>>

\* open_verified_file: the bytes are sent if they hash to the record's; other
\* bytes, a root that will not hold still and an I/O error are all one error.
SessionVerify(s) ==
    /\ sess[s].pc = "serving"
    /\ \/ HasBody(AtPath, sess[s].rec.body) /\ Leave(s)
       \/ Goto(s, "serveBad")
    /\ UNCHANGED <<clock, rowVars, dbRoot, status, root, disk, scan, ghostVars>>

\* log_unavailable_in with mark_repair.
SessionServeBad(s) ==
    /\ sess[s].pc = "serveBad"
    /\ IF IsFile(win) THEN mark_repair_required ELSE UNCHANGED rowVars
    /\ Leave(s)
    /\ UNCHANGED <<clock, dbRoot, status, root, disk, scan, ghostVars>>

----------------------------------------------------------------------------
(* The environment.                                                        *)

Tick ==
    /\ clock < MaxClock
    /\ clock' = clock + 1
    /\ UNCHANGED <<rowVars, dbRoot, status, root, disk, scan, sess, ghostVars>>

\* The user writes a file with any write time (an editor, cp -p, touch).
UserWrites(r, f) ==
    /\ edits < MaxEdits
    /\ f.modified_ns = Stored(f.modified_ns)
    /\ disk' = [disk EXCEPT ![r] = f]
    /\ edits' = edits + 1
    /\ typed' = typed \cup {f}
    /\ UNCHANGED <<clock, rowVars, dbRoot, status, root, scan, sess, erased, crossed>>

UserDeletes(r) ==
    /\ edits < MaxEdits
    /\ disk[r] # NoFile
    /\ disk' = [disk EXCEPT ![r] = NoFile]
    /\ edits' = edits + 1
    /\ erased' = TRUE
    /\ UNCHANGED <<clock, rowVars, dbRoot, status, root, scan, sess, typed, crossed>>

\* The configured path is a symbolic link and is pointed elsewhere, or its
\* directory disappears or comes back.
UserRetargets(r) ==
    /\ edits < MaxEdits
    /\ r # root
    /\ root' = r
    /\ edits' = edits + 1
    /\ UNCHANGED <<clock, rowVars, dbRoot, status, disk, scan, sess, typed, erased, crossed>>

\* The process dies; the row and the disk survive.
Crash ==
    /\ scan # IdleScan \/ \E s \in Sessions : sess[s] # IdleSession
    /\ scan' = IdleScan
    /\ sess' = [s \in Sessions |-> IdleSession]
    /\ UNCHANGED <<clock, rowVars, dbRoot, status, root, disk, ghostVars>>

----------------------------------------------------------------------------
ScanStep ==
    \/ ScanOpen \/ ScanPaused \/ ScanWalk \/ ScanExcludes \/ ScanFails \/ ScanComplete
    \/ ScanCurrent \/ ScanFuture \/ ScanWinner \/ ScanMatch \/ ScanMerge \/ ScanRepair \/ ScanMissing

SessionStep(s) ==
    \/ \E r \in Remote : SessionMerge(s, r)
    \/ SessionTombWinner(s) \/ SessionTombState(s) \/ SessionTombRemove(s) \/ SessionTombMark(s)
    \/ SessionRequest(s) \/ SessionReceive(s) \/ SessionFails(s) \/ SessionOpen(s)
    \/ SessionInstall(s) \/ SessionInstallFails(s) \/ SessionMark(s) \/ SessionMarkFailed(s)
    \/ SessionServe(s) \/ SessionServeState(s) \/ SessionVerify(s) \/ SessionServeBad(s)

Environment ==
    \/ Tick
    \/ \E r \in Roots : \E f \in UserFiles : UserWrites(r, f)
    \/ \E r \in Roots : UserDeletes(r)
    \/ \E r \in Roots \cup {NoRoot} : UserRetargets(r)
    \/ Crash

Next == ScanStep \/ (\E s \in Sessions : SessionStep(s)) \/ Environment

Spec == Init /\ [][Next]_vars

\* The daemon rescans and syncs on a timer, forever.  A walk, a transfer or an
\* install may fail any number of times, but not every time, and the process
\* does not crash forever.
Fairness ==
    /\ <>[][~Crash]_vars
    /\ WF_vars(ScanStep)
    /\ SF_vars(ScanWalk)
    /\ \A s \in Sessions :
          /\ WF_vars(SessionStep(s))
          /\ \A r \in Remote : SF_vars(SessionMerge(s, r))
          /\ SF_vars(SessionReceive(s))
          /\ SF_vars(SessionOpen(s))
          /\ SF_vars(SessionInstall(s))

FairSpec == Spec /\ Fairness
----------------------------------------------------------------------------
(* Properties.                                                             *)

\* The row is a last-writer-wins register over everything merge_record was
\* ever given: the order of sessions and scans never decides the winner.
Register == INSTANCE LwwRegister WITH value <- win

RegisterSpec == Register!RegSpec

\* merge_remote_manifests and the scanner refuse timestamps beyond the skew:
\* no file is stored past it, and a deletion, stamped one after the record it
\* deletes, at most one past it.
ClockBound ==
    /\ IsFile(win) => win.modified_ns <= clock + Skew
    /\ IsTombstone(win) => win.modified_ns <= clock + Skew + 1

\* ARCHITECTURE.md invariant 10: the scanner deletes only what this device
\* once recorded as present, never a record it has merely heard of.
OnlyKnownDeleted ==
    \A r \in presented : r.author = Local /\ IsTombstone(r) /\ r \notin Remote => held

\* A scan never takes bytes that a session installed for a local edit: a file
\* record this device authors and that wins is a file its user wrote.  A tie is
\* the exception: bytes still on disk, rescanned under the local EndpointID,
\* may outrank other bytes of the same timestamp.
NoEcho ==
    IsFile(win) /\ win.author = Local /\ win \notin Remote =>
        \/ AsFile(win) \in typed
        \/ \E x \in presented : x.modified_ns = win.modified_ns /\ x.body # win.body

\* ARCHITECTURE.md, Deletions: a tombstone stands for a path that went
\* missing, so without a user's deletion the scanner writes none.  The code
\* breaks it: a session that installs between the walk and the reading of the
\* rows makes a file look deleted.
DeletionsAreReal ==
    \A r \in presented : r.author = Local /\ IsTombstone(r) /\ r \notin Remote => erased

\* ... and breaks it in no other way than this: a session has removed a file
\* that a newer record or a scan had seen, or marked a row that a newer record
\* or a scan relied on.  Missing roots, files that cannot be read, retargeted
\* paths, repairs, failures and crashes never make up a deletion.
OnlyCrossedDeletions == ~crossed => DeletionsAreReal

\* ARCHITECTURE.md, Conflict resolution: the fingerprint stored with a record
\* is that of the record's own bytes.  The code breaks it: a record merged
\* between the match, or the rename, and the UPDATE takes over the fingerprint.
MaterializedIsWinner == IsFile(win) /\ mat => fp.body = win.body

\* ... and breaks it in no other way: whatever scans, sessions, the user and
\* crashes do, a winner whose fingerprint was never taken for another record
\* is materialized with its own bytes.
OnlyOvertakenDiffer == ~overtaken => MaterializedIsWinner

\* README.md, Conflicts: the newer record wins and is materialized.  Once the
\* directory is there for good, a peer's file that wins reaches the disk and
\* stays.  The code breaks it when the row says so of another record's bytes.
WinnerReachesDisk ==
    <>[](root # NoRoot) =>
        <>[](win \in Remote /\ IsFile(win) => HasBody(AtPath, win.body))

\* ... and in no other way: a winner whose fingerprint was not taken for
\* another record reaches the disk, after any failures of walks, transfers and
\* installs, late answers for older records and rounded timestamps.
WinnerReachesDiskUnlessOvertaken ==
    <>[](root # NoRoot) =>
        <>[](win \in Remote /\ IsFile(win) => overtaken \/ HasBody(AtPath, win.body))
============================================================================
