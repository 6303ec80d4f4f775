---------------------------- MODULE Collections -----------------------------
(***************************************************************************)
(* One custom collection of a device: its row in the database (state.rs),  *)
(* the daemon thread that scans it, watches it and serves `collections`    *)
(* commands (daemon.rs), a command line that changes the database itself   *)
(* when no daemon answers (main.rs), and the sessions that install and     *)
(* delete files in it meanwhile (sync.rs, installer.rs).                   *)
(*                                                                         *)
(* Which record of a file wins is Replica's subject: a row here is only    *)
(* absent, a file or a tombstone, materialized or not, and where the       *)
(* outcome depends on timestamps every outcome is possible.  A local path  *)
(* is its own physical root.                                               *)
(***************************************************************************)
EXTENDS Naturals, FiniteSets

CONSTANTS
    Paths,        \* local paths the user may give
    First,        \* the one of the first command
    Files,        \* protocol paths within the collection
    Future,       \* those whose write time may lie beyond max_future_skew
    Sessions,     \* sessions at a time
    None,         \* no collection, no root, no watcher
    MaxUpsets,    \* bound on the user's changes and file system failures together
    MaxCommands,  \* bound on commands
    MaxStarts,    \* bound on daemon starts
    MaxRecords    \* bound on records received by sessions

ASSUME CollectionsAssumption ==
    /\ IsFiniteSet(Paths) /\ IsFiniteSet(Files)
    /\ First \in Paths
    /\ Future \subseteq Files
    /\ None \notin Paths \cup Files
    /\ {MaxUpsets, MaxCommands, MaxStarts, MaxRecords} \subseteq Nat

VARIABLES
    coll,     \* the row of `collections`, None when detached
    rows,     \* its rows of path_records
    disk,     \* the files in each directory, None where there is none
    dmn,      \* the daemon thread
    watcher,  \* the path watched and whether a change there is not yet reported
    inbox,    \* WatchInbox: changed, errors
    cli,      \* the command under way
    sess,     \* the sessions
    count,    \* upsets, commands, starts and records so far
    acked,    \* history: what the last successful command said, if none is under way
    had,      \* history: the files each directory has ever held
    raced,    \* history: a command changed the database while a daemon was scanning
    crossed   \* history: a session marked a file of another root inside a scan

diskVars == <<disk, had>>
history == <<acked, raced, crossed>>
vars == <<coll, rows, diskVars, dmn, watcher, inbox, cli, sess, count, history>>

\* A root that is not a directory pauses the collection like a missing one.
ScanStatus == {"pending", "active", "missing", "error"}
WatchStatus == {"pending", "active", "unavailable", "backend_error"}
CollectionState == [path : Paths, root : Paths \cup {None},
                    scan : ScanStatus, watch : WatchStatus]

NoRow == [kind |-> "none", mat |-> FALSE]
Row(kind, mat) == [kind |-> kind, mat |-> mat]
OnDisk == Row("file", TRUE)
IsFileRow(r) == r.kind = "file"

Off == [pc |-> "off", held |-> None, walked |-> {}, merged |-> {},
        todo |-> {}, after |-> "idle"]
NoInbox == [changed |-> FALSE, errors |-> FALSE]
NoCommand == [pc |-> "idle", cmd |-> None]
NoSession == [pc |-> "idle", path |-> None, file |-> None]
Detached == "detached"
Unknown == "unknown"

\* A command: attach at a path, detach, or scan.
Commands == Paths \cup {Detached, "scan"}
Counters == {"upsets", "commands", "starts", "records"}

\* The absent value is none of the present ones, and no path is one of the
\* words for something else.
ASSUME ValuesAssumption ==
    /\ \A c \in CollectionState : c # None
    /\ \A S \in SUBSET Files : S # None
    /\ {Detached, "scan", Unknown} \cap Paths = {}

Within(counter, max) == count[counter] < max
Count(counter) == count' = [count EXCEPT ![counter] = @ + 1]

\* The shape of every variable, and the foreign key of path_records: no row
\* outlives its collection (state.rs:981).
TypeOK ==
    /\ coll \in CollectionState \cup {None}
    /\ rows \in [Files -> [kind : {"none", "file", "tomb"}, mat : BOOLEAN]]
    /\ coll = None => \A f \in Files : rows[f] = NoRow
    /\ disk \in [Paths -> {None} \cup SUBSET Files]
    /\ had \in [Paths -> SUBSET Files]
    /\ dmn \in [pc : {"off", "idle", "read", "walk", "complete", "rows", "file",
                      "answer", "watch"},
                held : Paths \cup {None}, walked : SUBSET Files,
                merged : SUBSET Files, todo : SUBSET Files,
                after : {"idle", "answer", "watch"}]
    /\ watcher \in [path : Paths, behind : BOOLEAN] \cup {None}
    /\ inbox \in [changed : BOOLEAN, errors : BOOLEAN]
    /\ cli \in [pc : {"idle", "sent", "direct"}, cmd : Commands \cup {None}]
    /\ sess \in [Sessions -> [pc : {"idle", "merge", "remove", "removed", "apply",
                                    "install", "mark"},
                              path : Paths \cup {None}, file : Files \cup {None}]]
    /\ count \in [Counters -> Nat]
    /\ acked \in Paths \cup {Detached, Unknown}
    /\ raced \in BOOLEAN /\ crossed \in BOOLEAN
    /\ \A p \in Paths : disk[p] # None => disk[p] \subseteq had[p]

\* The database after `setup`, or after a first `collections add` without a
\* daemon, with files in the directory that was named.
Init ==
    /\ coll \in {None, [path |-> First, root |-> None, scan |-> "pending",
                       watch |-> "pending"]}
    /\ rows = [f \in Files |-> NoRow]
    /\ disk = [p \in Paths |-> IF p = First THEN Files ELSE None]
    /\ had = [p \in Paths |-> IF p = First THEN Files ELSE {}]
    /\ dmn = Off
    /\ watcher = None
    /\ inbox = NoInbox
    /\ cli = NoCommand
    /\ sess = [s \in Sessions |-> NoSession]
    /\ count = [c \in Counters |-> 0]
    /\ acked = Unknown
    /\ raced = FALSE
    /\ crossed = FALSE

-----------------------------------------------------------------------------
(* Transactions on the collection.                                         *)

\* The UPDATE of path_records that un-materializes every file row.
Unmaterialize ==
    rows' = [f \in Files |-> IF IsFileRow(rows[f])
                             THEN Row("file", FALSE) ELSE rows[f]]

replace_collection_path(p) ==
    /\ coll' = [path |-> p, root |-> None, scan |-> "pending", watch |-> "pending"]
    /\ Unmaterialize

\* add_collection, replace_collection_path or nothing.
attach(p) ==
    \/ /\ coll = None
       /\ coll' = [path |-> p, root |-> None, scan |-> "pending", watch |-> "pending"]
       /\ UNCHANGED rows
    \/ /\ coll # None /\ coll.path # p
       /\ replace_collection_path(p)
    \/ /\ coll # None /\ coll.path = p
       /\ UNCHANGED <<coll, rows>>

\* Mutant: foreign keys are not enforced, and the rows outlive the collection.
remove_collection_only == coll' = None /\ UNCHANGED rows

\* The rows go with it: ON DELETE CASCADE.
remove_collection == coll' = None /\ rows' = [f \in Files |-> NoRow]

\* The scan writes the path it was given and the root it opened, and its rows
\* are about that root from here on.
complete_collection_scan ==
    /\ coll' = [coll EXCEPT !.path = dmn.held, !.root = dmn.held,
                            !.scan = "active"]
    /\ IF coll.root # dmn.held THEN Unmaterialize ELSE UNCHANGED rows

\* A status update finds no row of a detached collection and changes nothing.
SetScan(status) ==
    coll' = IF coll = None THEN None ELSE [coll EXCEPT !.scan = status]
SetWatch(status) ==
    coll' = IF coll = None THEN None ELSE [coll EXCEPT !.watch = status]

\* Mutant: the row is marked whatever root the collection has by now.
mark_materialized_only(s) ==
    /\ coll # None /\ IsFileRow(rows[sess[s].file])
    /\ rows' = [rows EXCEPT ![sess[s].file] = OnDisk]
    /\ UNCHANGED coll

\* The file's root becomes the collection's, and the other rows are forgotten
\* when that is a change.  Without the collection, or a file row, it fails and
\* is rolled back.
mark_materialized(s) ==
    /\ coll # None /\ IsFileRow(rows[sess[s].file])
    /\ coll' = [coll EXCEPT !.root = sess[s].path]
    /\ rows' = [f \in Files |->
                  IF f = sess[s].file THEN OnDisk
                  ELSE IF coll.root # sess[s].path /\ IsFileRow(rows[f])
                       THEN Row("file", FALSE) ELSE rows[f]]

-----------------------------------------------------------------------------
(* Changes on disk, which the watcher of that path will notice.            *)

Noticed(p) ==
    watcher' = IF watcher # None /\ watcher.path = p
               THEN [watcher EXCEPT !.behind = TRUE] ELSE watcher

\* fs::create_dir_all
CreateDir(p) == [disk EXCEPT ![p] = IF @ = None THEN {} ELSE @]

Change(p, files) ==
    /\ disk' = [disk EXCEPT ![p] = files]
    /\ had' = [had EXCEPT ![p] = @ \cup (IF files = None THEN {} ELSE files)]
    /\ Noticed(p)

\* The user writes or deletes a file, or removes or makes the directory.
UserEdits(p) ==
    /\ Within("upsets", MaxUpsets)
    /\ Count("upsets")
    /\ \/ disk[p] # None /\ \E f \in Files \ disk[p] : Change(p, disk[p] \cup {f})
       \/ disk[p] # None /\ \E f \in disk[p] : Change(p, disk[p] \ {f})
       \/ disk[p] # None /\ Change(p, None)
       \/ disk[p] = None /\ Change(p, {})
    /\ UNCHANGED <<coll, rows, dmn, inbox, cli, sess, history>>

\* PollWatcher compares the directory with its last look at it.
WatcherPolls ==
    /\ watcher # None /\ watcher.behind
    /\ watcher' = [watcher EXCEPT !.behind = FALSE]
    /\ \/ inbox' = [inbox EXCEPT !.changed = TRUE] /\ UNCHANGED count
       \/ /\ Within("upsets", MaxUpsets) /\ Count("upsets")
          /\ inbox' = [inbox EXCEPT !.errors = TRUE]
    /\ UNCHANGED <<coll, rows, diskVars, dmn, cli, sess, history>>

-----------------------------------------------------------------------------
(* The daemon thread: scans.                                               *)

Goto(pc) == dmn' = [dmn EXCEPT !.pc = pc]
Scan(after) == dmn' = [Off EXCEPT !.pc = "read", !.after = after]
ScanEnds == dmn' = [Off EXCEPT !.pc = dmn.after]
Scanning == dmn.pc \in {"walk", "complete", "rows", "file"}

DaemonStarts ==
    /\ dmn.pc = "off"
    /\ Within("starts", MaxStarts)
    /\ Count("starts")
    /\ Scan("watch")
    /\ UNCHANGED <<coll, rows, diskVars, watcher, inbox, cli, sess, history>>

\* state.collection(s): the collection as the whole scan will see it.
DaemonReads ==
    /\ dmn.pc = "read"
    /\ IF coll = None THEN ScanEnds
                      ELSE dmn' = [dmn EXCEPT !.pc = "walk", !.held = coll.path]
    /\ UNCHANGED <<coll, rows, diskVars, watcher, inbox, cli, sess, count, history>>

\* open_stable_root and walk_directory; a missing root pauses the collection.
DaemonWalks ==
    /\ dmn.pc = "walk"
    /\ IF disk[dmn.held] = None
       THEN SetScan("missing") /\ ScanEnds
       ELSE /\ dmn' = [dmn EXCEPT !.pc = "complete", !.walked = disk[dmn.held]]
            /\ UNCHANGED coll
    /\ UNCHANGED <<rows, diskVars, watcher, inbox, cli, sess, count, history>>

DaemonCompletes ==
    /\ dmn.pc = "complete"
    /\ coll # None
    /\ complete_collection_scan
    /\ Goto("rows")
    /\ UNCHANGED <<diskVars, watcher, inbox, cli, sess, count, history>>

\* record_states: the rows the missing files are looked for in.
DaemonReadsRows ==
    /\ dmn.pc = "rows"
    /\ dmn' = [dmn EXCEPT !.pc = "file", !.merged = {},
                          !.todo = dmn.walked \cup {f \in Files : rows[f] = OnDisk}]
    /\ UNCHANGED <<coll, rows, diskVars, watcher, inbox, cli, sess, count, history>>

\* What the scan can make of the row of a file it saw: it matches or beats the
\* row, or it is older than the row.  A write time beyond the limit is rejected:
\* the row stays, or awaits repair if it is materialized over other bytes.
SeenOutcomes(f) ==
    {OnDisk} \cup (CASE rows[f].kind = "none" -> {}
                     [] rows[f].kind = "file" -> {Row("file", FALSE)}
                     [] rows[f].kind = "tomb" -> {rows[f]})
             \cup (IF f \in Future THEN {rows[f]} ELSE {})

\* A missing file's tombstone, unless a session's record beats it.
MissingOutcomes(f) ==
    {Row("tomb", TRUE)} \cup IF f \in dmn.merged THEN {rows[f]} ELSE {}

DaemonScansFile(f) ==
    /\ dmn.pc = "file"
    /\ f \in dmn.todo
    /\ coll # None
    /\ \E r \in IF f \in dmn.walked THEN SeenOutcomes(f) ELSE MissingOutcomes(f) :
         rows' = [rows EXCEPT ![f] = r]
    /\ dmn' = [dmn EXCEPT !.todo = @ \ {f}]
    /\ UNCHANGED <<coll, diskVars, watcher, inbox, cli, sess, count, history>>

DaemonScanned ==
    /\ dmn.pc = "file"
    /\ dmn.todo = {}
    /\ ScanEnds
    /\ UNCHANGED <<coll, rows, diskVars, watcher, inbox, cli, sess, count, history>>

\* scan_collection_safely: the file system fails, or a transaction because the
\* collection is gone.
DaemonScanFails ==
    /\ Scanning
    /\ \/ coll = None /\ dmn.pc \in {"complete", "file"} /\ UNCHANGED count
       \/ dmn.pc = "walk" /\ Within("upsets", MaxUpsets) /\ Count("upsets")
    /\ SetScan("error")
    /\ ScanEnds
    /\ UNCHANGED <<rows, diskVars, watcher, inbox, cli, sess, history>>

-----------------------------------------------------------------------------
(* The daemon thread: watchers, events, the interval and commands.         *)

\* build_watchers: what happened before the new watcher's first look is lost.
DaemonWatches ==
    /\ dmn.pc = "watch"
    /\ IF coll = None THEN watcher' = None /\ UNCHANGED <<coll, count>>
       ELSE \/ /\ disk[coll.path] # None
               /\ watcher' = [path |-> coll.path, behind |-> FALSE]
               /\ SetWatch("active") /\ UNCHANGED count
            \/ /\ disk[coll.path] = None
               /\ watcher' = None
               /\ SetWatch("unavailable") /\ UNCHANGED count
            \/ /\ Within("upsets", MaxUpsets) /\ Count("upsets")
               /\ watcher' = None
               /\ SetWatch("backend_error")
    /\ Goto("idle")
    /\ UNCHANGED <<rows, diskVars, inbox, cli, sess, history>>

\* drain_watch_events, and the scan of what changed.
DaemonDrains ==
    /\ dmn.pc = "idle"
    /\ inbox # NoInbox
    /\ inbox' = NoInbox
    /\ IF inbox.errors THEN SetWatch("backend_error") ELSE UNCHANGED coll
    /\ IF inbox.changed THEN Scan("idle") ELSE UNCHANGED dmn
    /\ UNCHANGED <<rows, diskVars, watcher, cli, sess, count, history>>

\* Mutant: a collection that is watched is not scanned again.
DaemonFullScanUnwatched ==
    /\ dmn.pc = "idle"
    /\ coll # None => coll.watch # "active"
    /\ Scan("watch")
    /\ UNCHANGED <<coll, rows, diskVars, watcher, inbox, cli, sess, count, history>>

\* The interval has passed.
DaemonFullScan ==
    /\ dmn.pc = "idle"
    /\ Scan("watch")
    /\ UNCHANGED <<coll, rows, diskVars, watcher, inbox, cli, sess, count, history>>

\* Mutant: the scan of an attached collection is given the row found before.
AttachScanStale ==
    dmn' = IF coll = None THEN [Off EXCEPT !.pc = "read", !.after = "answer"]
           ELSE [Off EXCEPT !.pc = "walk", !.held = coll.path, !.after = "answer"]

\* The row is read again after attach_collection.
AttachScan == Scan("answer")

\* handle_request for AddCollection, RemoveCollection and Scan.
DaemonHandles ==
    /\ dmn.pc = "idle"
    /\ cli.pc = "sent"
    /\ \/ /\ cli.cmd \in Paths
          /\ disk' = CreateDir(cli.cmd)
          /\ attach(cli.cmd)
          /\ AttachScan
       \/ /\ cli.cmd = Detached
          /\ remove_collection
          /\ Goto("answer")
          /\ UNCHANGED disk
       \/ /\ cli.cmd = "scan"
          /\ Scan("answer")
          /\ UNCHANGED <<coll, rows, disk>>
    /\ UNCHANGED <<had, watcher, inbox, cli, sess, count, history>>

Answered(cmd) == acked' = IF cmd = "scan" THEN Unknown ELSE cmd

\* The response, and RebuildWatchers.
DaemonAnswers ==
    /\ dmn.pc = "answer"
    /\ cli' = NoCommand
    /\ Answered(cli.cmd)
    /\ Goto("watch")
    /\ UNCHANGED <<coll, rows, diskVars, watcher, inbox, sess, count, raced, crossed>>

\* Stop, or a crash anywhere: a command under way ends with an error.
DaemonEnds ==
    /\ dmn.pc # "off"
    /\ dmn' = Off
    /\ watcher' = None
    /\ inbox' = NoInbox
    /\ cli' = IF cli.pc = "sent" THEN NoCommand ELSE cli
    /\ UNCHANGED <<coll, rows, diskVars, sess, count, history>>

-----------------------------------------------------------------------------
(* The command line.                                                       *)

\* request_if_running: the daemon is asked if its socket answers.
CliAsks(cmd) ==
    /\ cli.pc = "idle"
    /\ Within("commands", MaxCommands)
    /\ Count("commands")
    /\ cmd = "scan" => dmn.pc # "off"
    /\ cli' = [pc |-> IF dmn.pc = "off" THEN "direct" ELSE "sent", cmd |-> cmd]
    /\ acked' = Unknown
    /\ UNCHANGED <<coll, rows, diskVars, dmn, watcher, inbox, sess, raced, crossed>>

\* attach_collection or detach_collection in the command's own process; a daemon
\* may have started in the meantime.
CliActs ==
    /\ cli.pc = "direct"
    /\ \/ /\ cli.cmd \in Paths
          /\ disk' = CreateDir(cli.cmd)
          /\ attach(cli.cmd)
       \/ /\ cli.cmd = Detached
          /\ remove_collection
          /\ UNCHANGED disk
    /\ cli' = NoCommand
    /\ Answered(cli.cmd)
    /\ raced' = (raced \/ Scanning)
    /\ UNCHANGED <<had, dmn, watcher, inbox, sess, count, crossed>>

-----------------------------------------------------------------------------
(* Sessions, in the network thread.                                        *)

SessionGoes(s, pc) == sess' = [sess EXCEPT ![s].pc = pc]
SessionEnds(s) == sess' = [sess EXCEPT ![s] = NoSession]

\* merge_remote_manifests: the local path is read before the records are merged.
SessionOpens(s, f) ==
    /\ sess[s].pc = "idle"
    /\ coll # None
    /\ Within("records", MaxRecords)
    /\ Count("records")
    /\ sess' = [sess EXCEPT ![s] = [pc |-> "merge", path |-> coll.path, file |-> f]]
    /\ UNCHANGED <<coll, rows, diskVars, dmn, watcher, inbox, cli, history>>

\* A new file or tombstone wins, or the row's own record is presented again; the
\* insert fails when the collection is gone.
SessionMerges(s) ==
    LET f == sess[s].file IN
    /\ sess[s].pc = "merge"
    /\ \/ /\ coll = None
          /\ SessionEnds(s)
          /\ UNCHANGED <<rows, dmn>>
       \/ /\ coll # None
          /\ \E kind \in {"file", "tomb"} :
               /\ rows' = [rows EXCEPT ![f] = Row(kind, FALSE)]
               /\ SessionGoes(s, IF kind = "file" THEN "apply" ELSE "remove")
          /\ dmn' = [dmn EXCEPT !.merged = IF dmn.pc = "file" THEN @ \cup {f} ELSE @]
       \/ /\ coll # None
          /\ ~rows[f].mat /\ rows[f].kind # "none"
          /\ SessionGoes(s, IF IsFileRow(rows[f]) THEN "apply" ELSE "remove")
          /\ UNCHANGED <<rows, dmn>>
    /\ UNCHANGED <<coll, diskVars, watcher, inbox, cli, count, history>>

\* materialize_tombstone removes the file at the path read before.
SessionRemoves(s) ==
    LET p == sess[s].path IN
    /\ sess[s].pc = "remove"
    /\ IF disk[p] = None
       THEN SessionEnds(s) /\ UNCHANGED <<diskVars, watcher>>
       ELSE Change(p, disk[p] \ {sess[s].file}) /\ SessionGoes(s, "removed")
    /\ UNCHANGED <<coll, rows, dmn, inbox, cli, count, history>>

\* mark_tombstone_materialized: only a tombstone row is marked.
SessionRemoved(s) ==
    LET f == sess[s].file IN
    /\ sess[s].pc = "removed"
    /\ rows' = IF rows[f].kind = "tomb" THEN [rows EXCEPT ![f].mat = TRUE] ELSE rows
    /\ SessionEnds(s)
    /\ UNCHANGED <<coll, diskVars, dmn, watcher, inbox, cli, count, history>>

\* receive_files: the record still wins and the collection is still there; its
\* path is read now.
SessionApplies(s) ==
    /\ sess[s].pc = "apply"
    /\ IF coll # None /\ IsFileRow(rows[sess[s].file])
       THEN sess' = [sess EXCEPT ![s].pc = "install", ![s].path = coll.path]
       ELSE SessionEnds(s)
    /\ UNCHANGED <<coll, rows, diskVars, dmn, watcher, inbox, cli, count, history>>

\* install_file; without the root the row is marked for repair.
SessionInstalls(s) ==
    LET p == sess[s].path
        f == sess[s].file IN
    /\ sess[s].pc = "install"
    /\ IF disk[p] = None
       THEN /\ rows' = IF IsFileRow(rows[f]) THEN [rows EXCEPT ![f].mat = FALSE] ELSE rows
            /\ SessionEnds(s)
            /\ UNCHANGED <<diskVars, watcher>>
       ELSE /\ Change(p, disk[p] \cup {f})
            /\ SessionGoes(s, "mark")
            /\ UNCHANGED rows
    /\ UNCHANGED <<coll, dmn, inbox, cli, count, history>>

SessionMarks(s) ==
    /\ sess[s].pc = "mark"
    /\ \/ /\ mark_materialized(s)
          /\ crossed' = (crossed \/ (dmn.pc = "rows" /\ dmn.held # sess[s].path))
       \/ /\ coll = None \/ ~IsFileRow(rows[sess[s].file])
          /\ UNCHANGED <<coll, rows, crossed>>
    /\ SessionEnds(s)
    /\ UNCHANGED <<diskVars, dmn, watcher, inbox, cli, count, acked, raced>>

SessionStep(s) ==
    \/ SessionMerges(s) \/ SessionRemoves(s) \/ SessionRemoved(s)
    \/ SessionApplies(s) \/ SessionInstalls(s) \/ SessionMarks(s)

DaemonStep ==
    \/ DaemonReads \/ DaemonWalks \/ DaemonCompletes \/ DaemonReadsRows
    \/ (\E f \in Files : DaemonScansFile(f))
    \/ DaemonScanned \/ DaemonScanFails
    \/ DaemonWatches \/ DaemonDrains \/ DaemonFullScan \/ DaemonHandles \/ DaemonAnswers

Next ==
    \/ DaemonStep \/ DaemonStarts \/ DaemonEnds
    \/ WatcherPolls
    \/ \E p \in Paths : UserEdits(p)
    \/ \E c \in Commands : CliAsks(c)
    \/ CliActs
    \/ \E s \in Sessions : SessionStep(s)
    \/ \E s \in Sessions, f \in Files : SessionOpens(s, f)

Fairness ==
    /\ WF_vars(DaemonStep)
    /\ \A s \in Sessions : WF_vars(SessionStep(s))

Spec == Init /\ [][Next]_vars /\ Fairness

-----------------------------------------------------------------------------

\* A command that was answered stays in force: the collection is attached where
\* `collections add` said, or detached after `collections remove`, although every
\* scan writes back the path it started with (complete_collection_scan,
\* state.rs:130) - unless the command line changed the database in the middle of
\* a daemon's scan.
CommandsHold ==
    ~raced => /\ acked \in Paths => coll # None /\ coll.path = acked
              /\ acked = Detached => coll = None

\* The step is not a scan's deletion, or the directory has held the file.
DeletesWhatWasThere ==
    ~raced /\ ~crossed =>
        \A f \in Files :
            /\ dmn.pc = "file" /\ f \in dmn.todo \ dmn.walked
            /\ dmn'.todo = dmn.todo \ {f}
            /\ rows[f].kind = "file" /\ rows'[f].kind = "tomb"
            => f \in had[dmn.held]

\* A scan declares a file deleted only in a directory that has held it: rows that
\* describe another directory, after `collections add --replace` and with a
\* session's install under way across it, are never taken for deletions
\* (filesystem.rs:263, state.rs:100 and 733) - unless a session's mark for the
\* other directory falls between the scan's end of the old root's rows
\* (filesystem.rs:170) and its reading of the rows (:180).
DeletedWasThere == [][DeletesWhatWasThere]_vars

\* Every file in the directory has a row, unless its write time is rejected, and
\* no row claims a file that is not there.
Reconciled ==
    coll # None /\ disk[coll.path] # None =>
      \A f \in Files : IF f \in disk[coll.path] THEN rows[f].kind # "none" \/ f \in Future
                                                ELSE rows[f] # OnDisk

\* Whatever was edited while no daemon ran, during a scan, or between a scan and
\* the new watchers' first look, a daemon that keeps running reconciles the rows
\* with the directory in the end (the interval's scan_all, daemon.rs:257).
RowsReconcile == <>[](dmn.pc = "off" \/ Reconciled)
=============================================================================
