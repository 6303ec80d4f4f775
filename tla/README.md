# skillsync in TLA+

A verification project for skillsync, a daemon that keeps directories of skill
files the same on all devices of a small group. Devices find each other with
iroh, trust a signed roster of members, exchange manifests of path records and
fetch the files they miss. There is no server: every device has its own SQLite
database and its own disk, and everything converges by exchange.

The modules follow a device from its first start to a group in agreement, step by
step as the code runs: finding an identity and a group (`Setup`), admission by
another device (`Join`), the roster of the group (`Roster`), the loop that starts
sessions (`NetworkLoop`), the session itself (`Session`), the collections a daemon
scans (`Collections`) and one path on one device (`Replica`). TLC checks small
instances; TLAPS proves every safety property that passes for every
instance. Liveness stays with TLC.

## The system

| Part | Source | State | Operations | Modelled in |
|---|---|---|---|---|
| Record order | `record.rs`, `canonical.rs` | none | `compare_winner`, canonical hash | `Records` |
| Path records | `state.rs` | `path_records`: winner, `materialized`, fingerprint; `collections`: `resolved_root`, `scan_status` | `merge_record`, `mark_*`, `set_materialized_fingerprint`, `complete_collection_scan` | `Replica` |
| Scanner | `filesystem.rs`, `root.rs` | locals of a scan | open root, walk, compare with rows, merge, repair, delete | `Replica` |
| Installer | `installer.rs` | the file on disk | `install_file`, `materialize_tombstone`, `open_verified_file` | `Replica` |
| Session, files | `sync.rs` | locals of a session | merge a manifest, request, receive, serve | `Replica` |
| Roster revisions | `roster.rs` | none | `child`, `validate_child`, `select_chain` | `Roster` |
| Roster tables | `state.rs` | `roster_revisions` | insert, select, merge a chain, `apply_roster_change`, `install_joined_state` | `Roster` |
| Session, roster | `sync.rs` | locals of a session | authorize, exchange chains, merge, replay | `Roster` |
| Roster commands | `network.rs`, `main.rs` | locals of the command | `remove_peer`, `build_join_approval` | `Roster` |
| Joining | `join.rs` | `JoinCoordinator`: one invitation or one pending request; locals of `run_inviter`, `run_joiner` | activate, claim, decide, cancel, expire; request, answer, install, acknowledge | `Join`; its result in `Roster` |
| Joining service client | `joining_service.rs` | none | create, claim, post with retries | their outcomes in `Join` |
| Network loop | `network.rs` | outgoing peers, waiters, triggers, permits | trigger, sync and wait, accept, join a session, shut down | `NetworkLoop` |
| Daemon | `daemon.rs` | watchers, inbox, pending scans, waits, socket | scan on event and interval, control requests, attach, detach | `Collections`; its scans in `Replica`, its waits in `NetworkLoop`, its socket in `Setup` |
| Collections | `state.rs`, `daemon.rs` | `collections`: path, `resolved_root`, two status columns | add, replace, remove, complete a scan | `Collections` |
| Session, frames | `sync.rs`, `protocol.rs` | position in the exchange, bytes received and sent | exchange a frame, request, send and receive files, finish | `Session` |
| Setup | `setup.rs`, `identity.rs`, `process_lock.rs` | identity files and keyring entry, lock file, schema, genesis | `load_or_create`, open and migrate, `setup`, `setup_joining_device` | `Setup` |
| Command line | `main.rs` | a command under way | invite, join, collections, setup, status | `Join`, `Collections`, `Setup` |
| Paths, configuration | `path.rs`, `config.rs` | none | parse, validate | no |

How they meet. The daemon's main thread scans collections one after the other.
The network thread runs up to four sessions at once on a multi-threaded
runtime. Each opens the database for itself; only SQLite's transactions order
them, and nothing at all orders them with the file system or with the user.
Control requests run on the daemon's main thread, roster commands among them.
Commands of the command line go to the daemon if it answers and to the database if
it does not; `setup` and `status` never ask.
Every session, incoming or outgoing, first merges rosters and then records.

What is hard, therefore:

- state read in one transaction (or from the disk) and used in a later one, with
  scans, sessions and commands in between;
- the file system as a second store that cannot be written in the same
  transaction: crashes and failures between rename and `UPDATE`, write times
  that come back rounded, a root that moves;
- records and revisions that arrive in any order, any number of times, over a
  group that is never connected all at once;
- changes of the roster that compete and have to be replayed;
- a handshake of three parties, two of them people, in which any may leave between
  the change of the roster and its delivery;
- two streams with bounded windows and a budget per session;
- first starts that are interrupted, and processes that no lock keeps apart.

`PROJECT.json` lists each such place with its line ("hazards") and the property
that watches it.

## Modules

    Records ---- LwwRegister          abstract register over records
       |              |
    Replica ----------+               one device, one path; implements LwwRegister
       |       \
    MCReplica   RecordsProofs, ReplicaProofs

    Roster                            the group's rosters
       |       \
    MCRoster    RosterProofs

    NetworkLoop                       one device's network thread
               \
                NetworkLoopProofs

    Join ------- MCJoin               invitation, request, decision, installation
               \
                JoinProofs

    Session ---- MCSession            two sides of a session, frame by frame
               \
                SessionProofs

    Setup ------ SetupProofs          processes on one device, up to a group
    Collections - CollectionsProofs   one collection: daemon, commands, sessions

The modules meet in what they leave to each other. `Session` merges whole
manifests in a step and knows versions only, `Replica` takes each such step apart
on one device; `Join` knows one roster, `Roster` many that compete; the `join` of
`Setup` takes the outcome of `Join` as given; `Collections` knows which files are there and
not whose record wins.

### Records and LwwRegister

`Record` has a write time, an author and a body: a content or `Tombstone`.
Collection and path are fixed, since rows of different paths never meet.
(size, BLAKE3) is one value, an `EndpointId` is its rank in byte order, and the
canonical hash is an injective function into the numbers. `Wins` is
`compare_winner`. `LwwRegister` is the promise of invariant 5 of
`ARCHITECTURE.md`: the value is the greatest of all records ever presented.

### Replica

One device and one path. `win`, `mat`, `fp` are the columns of the row,
`dbRoot` and `status` those of the collection. `disk` holds the file under each
physical directory and `root` says which of them the configured path resolves
to. `scan` and `sess[s]` are the locals of the scanner and of each session; the
field `pc` is the point between two steps. Each SQLite transaction, each read of
a row that is used later, and each file-system call that matters is one action:

| Code | Actions |
|---|---|
| `scan_collection_with_hooks` | `ScanOpen`, `ScanPaused`, `ScanWalk`, `ScanExcludes`, `ScanFails`, `ScanComplete`, `ScanCurrent`, `ScanFuture`, `ScanWinner`, `ScanMatch`, `ScanMerge`, `ScanRepair`, `ScanMissing` |
| `merge_remote_manifests` | `SessionMerge`, `SessionTombWinner`, `SessionTombState`, `SessionRequest` |
| `materialize_tombstone` | `SessionTombRemove`, `SessionTombMark` |
| `receive_files`, `apply_file_fixture`, `install_file` | `SessionReceive`, `SessionFails`, `SessionOpen`, `SessionInstall`, `SessionInstallFails`, `SessionMark`, `SessionMarkFailed` |
| `prepare_requested_file`, `open_verified_file` | `SessionServe`, `SessionServeState`, `SessionVerify`, `SessionServeBad` |
| user, clock, crash | `UserWrites`, `UserDeletes`, `UserRetargets`, `Tick`, `Crash` |

A session handles one record at a time; a manifest of many is many turns. The
peers are any source of the records in `Remote`. `presented`, `held`, `typed`,
`erased`, `overtaken` and `crossed` are history variables that only properties read.
`overtaken` says that the fingerprint in the row was written for another record than the
one the row holds (the `UPDATE` of `state.rs:1447` names a path and no record).
`crossed` says that a session removed a file while a file record won or after a scan had
met it, or marked a row that a newer record had taken or that a scan past its walk had
not met under the marked root. A record from the
future is a disabled `SessionMerge`: the code logs it and goes on. The wall
clock never goes back; the code does not guard against it, and `ClockBound`
would not hold otherwise.

### Roster

A revision's hash covers its parent's, so a revision is the path of changes from
an agreed history `Base`, together with the members. `Chain(S)` is
`select_chain` over the stored set `S`: the revisions none of whose ancestors, nor
they themselves, are beaten by a stored sibling. `Tips(S)` is where it ends.
Signatures are left out: only `d`'s own steps create revisions of author `d`.

`work[d][w]` is where thread `w` of device `d` stands: a session or the command
thread. `SessionOpens` to `SessionReplays` are one direction of the roster
exchange (each direction of a session merges on its own side); `ApplyDone`,
`ApplyParent`, `ApplyCommit`, `ApplyFails` are `apply_roster_change_inner`, used by
commands and by the replay; `RemovePeer`, `ApproveJoin`, `ApproveSends`,
`JoinInstalls`, `JoinLost` are the commands and the joiner's end. `SessionFails` is an
`INSERT` that fails, on the last revision too, and with it a session that ends without
its replay.

### NetworkLoop

The network thread of one device. `queue` is the bounded command channel; a `Sync`
command is the wait it comes from. `pending`, `deferred`, `stopping`, `outgoing`,
`waiters` and `summary` are the variables of `run_network_loop`, `task[p][way]` the
session with peer `p` that was dialled or accepted, and `wait` what the client of
each `sync --wait` has been told. One turn of the loop is `LoopReceives` once per
command, then `LoopStops` or `LoopPass` (interval, pass, answer to the waiters), then
one arm of `select!`: `LoopAccepts`, `LoopJoins` or `LoopTicks`. The pass does not
wait, so it is one step; commands and sessions go on beside it and are seen a turn
later. `Trigger`, `LocalChange`, `SyncWait`, `WaitTimesOut`, `Stop` and `ShutdownSends`
are the main thread's; between the last two it waits, without a timeout, for room in the
channel. Of a session the module keeps its permit, the moment at which it reads the
local manifests (`TaskExchanges`) and how it ends; what it does in between is
`Replica` and `Roster`. Local changes are numbered, and `reached[p]` is the newest
one peer `p` has. The module has no MC module: its configurations give all its
constants values.

### Join

The inviting device's `JoinCoordinator` is `coord`: idle, an invitation, or a pending
request. Invitation `n` is a code, its nonce and the `invite` command that made it
(`cli`, `seen`); run `r` is one `join` command of a device, with its connection and,
once claimed, its request id. `handler` is the control thread inside `decide_join`:
it looks the request up, admits the device, reads the chain again, builds the hints
and answers, and sessions run in between (`DecideLookup`, `DecideAdmit`, `DecideBuild`,
`DecideSend`, with `FailApproval` wherever the code answers "rejected" on an error).
`InviterClaim` to `InviterEnds` are `run_inviter`, `JoinStart` to `JoinerSync` are
`command_join` and `run_joiner`. `sent` and `reply` are the two directions of the
stream; a closed connection may still deliver what was written. The service may hand
a code to anyone: its promise to give it to one key is not used. `roster` is what the
inviter's selected chain says of each device. Sessions move it at any moment
(`SelectionMoves`): a merged chain removes a device, or a better sibling drops an
admission or a removal, and the replay brings it back or does not. `approvals` and
`admitted` (every device and name that an invitation ever admitted) are history. An
`invite` may lose the daemon's answer after the slot was filled
(`ActivateInvitation`).

### Session

Two devices, both running this code, hold one session after another. A stream is a
queue of chunks with a window (`wire`); `out` is what a side has still to write and
`got` what it has read of the frame it waits for, so that `exchange_frame` writes and
reads at once while the file phase does one after the other, in the order of
`Order`. `received` counts as `add_received` does: every frame when its header is
read, a file with its whole size. A record is a version number, the greater one
wins; `mat` is the version whose fingerprint the row holds. A received file is applied in
three steps, as in the code: the lookup of the winner (`ApplyFile`), the rename
(`InstallFile`) and the mark (`MarkFile`), which is not tied to the record. Edits
and scans come between them; `Scan` is a whole scan. A side may be interrupted anywhere (`Breaks`), notice
that the other is gone (`PeerGone`), or fail to apply a file and go on
(`ApplyFails`).

### Setup

Processes `setup`, `daemon`, `join` and `status` on one data directory. `ref` and `key`
are the two identity files, which are created empty and then filled; `ring` is the
keyring's entry. A join may be approved by any of several groups (`Remotes`), or by the
one this device founded. Every file operation and every transaction is a step, and a process
may end between any two. `crossed` is history: it becomes true when a process sets
up while another one does. Only `daemon` and `join` hold the process lock, so the
code lets this happen.

### Collections

One custom collection. `coll` is its row, `rows` its path records (absent, file,
tombstone; materialized or not), `disk` the files in each directory. The daemon
thread `dmn` reads the collection, walks, completes the scan, reads the rows and goes
through the files, each a step; it builds watchers, drains their inbox, serves
commands and rescans on the interval. `CliActs` is the command line changing the
database itself, when the daemon did not answer; one may have started since (`raced`,
history). A session holds the path that it read when it opened the collection, or
when it applies a file. Where a decision depends on timestamps, every outcome is
allowed; the files in `Future` have write times beyond the skew, which a scan rejects.
`had` is history: what each directory ever held.

## Runs

| Run | Bounds | Shows |
|---|---|---|
| `replica` | two sessions, an edit and a later deletion from a peer, one user action, clock to 2, skew 0, two roots | type (with the schema's CHECK, `FingerprintIffMaterialized`), `ClockBound`, `OnlyKnownDeleted`, `NoEcho`, `OnlyOvertakenDiffer`, `OnlyCrossedDeletions`, and `RegisterSpec`: the row implements `LwwRegister` |
| `replica_live` | one session, two peer edits, one user action (a future file), write times rounded to even | `WinnerReachesDiskUnlessOvertaken` |
| `replica_phantom` | one session, one peer edit, no user | `DeletionsAreReal` fails |
| `replica_lost` | one session, two peer edits, no user, fair scans and sessions | `WinnerReachesDisk` fails |
| `roster` | three devices online in a group of four, an admission against a removal, one crash or failed write | type, `StoredSound`, `RetriesBounded` |
| `roster_live` | two devices online, three removals, one of an author | `ExchangeAgrees`, `SelectionAdvances`, `Agreement` |
| `roster_lost` | two devices online, two removals | `CommandsTakeEffect` fails |
| `network` | one peer, which dials and is dialled, one permit, a channel of one command, one wait, one local change, one change of the roster | type, `OutgoingIsRunning`, `SummarySound`, `WaitsAnswered`, `ChangesReachPeers`, `ShutdownEnds` |
| `join` | two invitations, two runs of `join`, two devices, two names, one stop of the daemon | type, `OneAdmissionPerInvitation`, `AdmittedOnlyApproved`, `InstalledWasAdmitted`, `AcknowledgedIsInstalled`, `PendingHasSession` |
| `session` | two files of one and two chunks, a budget of two chunks a session, a window of one, one edit, one failure | type, `HonestNeverRejected`, `SuccessIsMutual`, `SessionsEnd`, `EventuallyInSync` |
| `setup` | three processes, each of any command, two groups to join, two default collections | type, `PersistentIdentity`, `OneGroup`, `SocketIsServed`, `OnlyTornFilesBlock` |
| `collections` | two directories, two files (one from the future), one session, one record, one command, one start of a daemon, one user action or failure | type, `CommandsHold`, `DeletedWasThere`, `RowsReconcile` |

Why these bounds. A row is changed by at most one scanner and by sessions; two
sessions show every pair of session steps and, with the scanner, every triple of
actors. One peer edit, one deletion and one user action are the smallest set in
which each of the three authors' records can win, tie and lose; times 0 to 3
cover before, equal, after, and one past the limit. Two roots let the one user action
be a retargeted path, with files under either; slots and roots are symmetric. In `replica_live` and `replica_lost` the
peer's second edit is the one that overtakes the first. Competing roster changes
need two authors; the third request is the one that removes an author, the third
device the one that hears late. The hash order turns round at each level of the
chain so that neither author always wins. In `network` a channel of one makes every
second command meet a full one, and one permit makes the two sessions of a peer
wait for each other; peers meet only in the permits and in the summary, and the
summary is proved for any number of them. In `join` the slot holds one request, so
that two invitations and two requests show every confusion of an old one with a new
one; devices and names are symmetric. In `session` a window of one chunk is the
hardest case for waiting, a body of two chunks can change between them, and the two
files must take two sessions; `MaxConnection` is the least that an honest session
needs here, so that one chunk counted twice would exceed it, and
`MCSession!ConnectionHoldsASession` is the same inequality with the real limits. In
`setup` the third process is the one that finds what two others left, and the second
group the one that a device in the first must be refused by. In
`collections` one command and one record suffice for every order of a replacement, a
scan and an install, and two files let one row be described by a directory that has
the other. The proofs below remove the bounds for the safety invariants that carry
the rest.

`CHECK_DEADLOCK FALSE` where the system may stop: in the `Roster` runs a group in which
no two devices authorize each other any more; in `NetworkLoop` and `Collections` a daemon
that was shut down; in `Join` and `Setup` commands that have all ended. `MaxClock`,
`MaxTime`, `MaxEdits`, `MaxFaults`, `Requests`, `MaxInvites`, `MaxRuns`, `MaxStops`,
`MaxProcs`, `MaxUpsets`, `MaxCommands`, `MaxStarts` and `MaxRecords` bound what is unbounded in
the code; `MaxRetries` stands for `MAX_ROSTER_RETRY_DEPTH`; `RetriesBounded` says what the
turns of a loop are bounded by besides.

The three runs that fail show disagreements between the code and its documents,
described under "findings" in `PROJECT.json` with the lines on both sides:

- an install in the middle of a scan becomes a deletion (`replica_phantom`);
- a record that is overtaken between the match, or the rename, and the `UPDATE` leaves
  its fingerprint with the newer record, whose file then never reaches the disk
  (`replica_lost`): no session requests it (`sync.rs:450`), and every scan recognizes the
  older file;
- a removal made in the middle of a session is lost (`roster_lost`).

Each needs steps of two actors in an order no test of the repository sets up. Beside
the first two stands a property that passes, in runs where the race does happen, and
says that the promise is broken in no other way: `OnlyCrossedDeletions` is `DeletionsAreReal` unless `crossed`, and
`WinnerReachesDiskUnlessOvertaken` is `WinnerReachesDisk` unless `overtaken`.
`OnlyOvertakenDiffer` says the same of the row itself (`MaterializedIsWinner`, what
`ARCHITECTURE.md` says of the stored fingerprint, fails with peers for the same reason).
`EventuallyInSync` has an exception of its own, the first observation below.

## Observations

Behaviours met while modelling, each a short sequence of steps of the modules, which
a reader of the documents might not expect.

- *An edit recorded between the lookup of the winner and the rename is overwritten*
  (`sync.rs:681`, `installer.rs:114`): the older file of the peer replaces it, the edit's
  record wins on both devices and its bytes are on neither, so that every later request is
  answered as unavailable. `EventuallyInSync` excepts it by `RenamesTheWinner`; without
  the exception TLC finds this sequence in the `session` run.
- *A far-future file on a deleted path fails the scan of its collection*
  (`filesystem.rs:203`, `state.rs:711`) until the clock catches up.
- *An admission returns after its signed removal was learned* (`sync.rs:311`): a device
  replays its own lost admission without looking at the lost removal.
- *A retry loop may take more turns than there are commands* (`state.rs:400`). Each
  better sibling that a session stores sends the loop round again, and a peer whose
  own change was beaten replays it on the new branch, where it is a better sibling once
  more: with three devices and one change each, one admission against two removals,
  the admission's loop takes four turns. `RetriesBounded` therefore counts stored
  revisions and not commands; it does not exclude that a loop meets the limit of 1024
  (`state.rs:18`), which ends it with an error after its last revision was stored.
- *`sync --wait` may report success for a session that had read its manifests before
  the latest change* (`network.rs:390`); the change goes out with a later pass.
- *An admitted joiner can be told that it was rejected* (`network.rs:179`): the roster
  is committed before the answer is built, and an error after that is answered as a
  rejection. Asking again works, since a member is only sent the roster.
- *Two processes that set up at once* may each create an identity, and the group may
  then name the one that was not kept; a `setup` between the check and the
  transaction of an installing `join` leaves two geneses, which every later command
  refuses (`identity.rs:194`, `state.rs:500`). Only `daemon` and `join` exclude each other.
- *A crash after an identity file was created and before it was filled*
  (`identity.rs:260`) blocks every later command until the file is removed by hand.
- *The command line beside a starting daemon*: a command that found no daemon and
  changes the database while one scans is undone when the scan ends, since
  `complete_collection_scan` writes its path back (`state.rs:152`).
- *A session's mark for a directory that was just replaced*, between the end of the
  old rows and their reading, makes the scan of the new directory delete the file
  (`crossed` in `Collections`).
- *Repeating `collections add` for a directory that is missing* creates it empty
  (`daemon.rs:717`), and the scan that follows takes every file for deleted.

## Fairness

Safety runs assume none. `Replica!Fairness`: the daemon rescans and synchronizes
on a timer for as long as it runs (`daemon.rs` main loop, `network.rs` periodic
trigger), so scanner and sessions are weakly fair and a session presents each
record of a peer again and again (`SF` on `SessionMerge`). A walk, a transfer,
an open and an install may fail any number of times but not every time (`SF` on
each), and the process does not crash forever. Users owe nothing.
`WinnerReachesDisk` and `WinnerReachesDiskUnlessOvertaken` further assume that the directory is there for good.

`Roster!Fairness`: threads that can move do (`WF`); between two linked devices
that authorize each other infinitely often, sessions are opened infinitely often
(`SF` on `SessionOpens`), by the periodic trigger. Commands are issued or not.

`NetworkLoop!Fairness`: the loop's thread runs (`WF` on `Loop`). The interval passes
again and again and the roster can be read now and then (`SF` on
`LoopPass(TRUE, TRUE)`): the main thread sends a few commands every 25 ms at most
and the loop drains the channel each time. `select!` picks its arm at random, so
an ended session is joined (`SF`). tokio's semaphore is fair (`SF` on
`TaskStarts`). A session that has a permit ends, since every wait in it has a timeout
(`WF` on `Session`), and with a peer that stays a member it succeeds now and then
(`SF`); a peer that is never reached is owed nothing by the code, and
`ChangesReachPeers` says nothing of it. The main thread's blocking send of the shutdown
returns once there is room (`WF` on `ShutdownSends`). Clients owe nothing else.

`Session!Fairness`: both tasks are polled (`WF` on `SideStep`), the network loop dials
again every interval (`WF` on `StartSession`), and the daemon scans (`WF` on `Scan`).
Failures are bounded by `MaxFaults`, edits by `MaxEdits`, which is what "once changes and
failures stop" means in `EventuallyInSync`. `SessionsEnd` does not rely on the idle
timeouts: a session that waits for one would not end.

`Collections!Fairness`: the daemon's thread runs and its interval passes (`WF` on
`DaemonStep`), and sessions go on (`WF` on each). Watchers, users, commands and starts
owe nothing: `RowsReconcile` must not depend on a watcher. `Join` and `Setup` state
safety only.

## Proofs

Checked by TLAPS, for every value of the constants allowed by the named
assumptions (the hash is injective, authors are numbers, the sentinel values are
not in the sets they stand outside of, the file system rounds down and
idempotently, the model's time reaches just past clock and skew, the bounds of a
session are natural numbers). Two theorems have a hypothesis besides, stated in the
theorem itself and explained below: `HashOrders`.

`RecordsProofs`: `Wins` is irreflexive, asymmetric, transitive and total on
records; the greatest of a set is unique.

`ReplicaProofs`: `TypeCorrect`, `ClockCorrect`,
`KnownDeletedCorrect`, and `RegisterCorrect`, the refinement of `LwwRegister`.
None of these is inductive alone. The inductive invariant `Inv` adds: `win` is
the greatest of `presented` (and is absent exactly when nothing was presented);
what a scan or session carries between its steps is bounded by the clock it read;
a scan that has reached "missing" read a materialized file row, so `held` is
true; a session at a step of receiving or serving a file holds a file record, and
has a root where it has opened one. Every
action changes the row by one of a few transactions or not at all (`RowStep`);
each part of `Inv` is shown once for each transaction, and then each action is
shown to be such a step with the right arguments. `MergeKeepsGreatest` is the
heart of the refinement: merging keeps the greatest, by totality and transitivity.

`EchoFree` (`NoEcho`) needs an invariant about the disk, `EchoInv`: every file under any
root, and what a scan has read, is one the user typed or one that a session installed
for a record that was presented (`Known`); and a file that a scan
offers as a local edit is typed, or a presented record is later, or has other bytes
for the same time (`Surpassed`). The second part is where the code is at work: a scan
compares the file with the row it read, and the row may only have grown since.
`RealDeletions` (`OnlyCrossedDeletions`) is proved with any peers and sessions. Its invariant
`DeletionInv` says that until the user deletes a file or a session sets `crossed`, a
materialized row has its file under the recorded root, what a walk has met is still
there, a path that it has not met is not materialized, a root that a scan has recorded
stays recorded (`DiskKept`), and what a session installed for the winner is there when it
marks the row (`InstalledKept`). A merge keeps the last part because a record that lost
never wins again (`LoserStays`). The cases of `crossed` are those in which a session's
step would break one of these.
`OwnFingerprint` (`OnlyOvertakenDiffer`) is proved with any peers and sessions. `OwnInv` adds
to it that the copy of the row in a scan, and what the scan took for a match, have
the winner's bytes for as long as the record that the scan read is still the winner; a
record that lost never wins again, since the winner is the greatest of `presented`.

`RosterProofs`: `RosterTypeCorrect` and `StoredSoundCorrect`. `StoredSound` is not
inductive, since revisions travel: the invariant adds that a roster mailed to a
joiner is closed under parents and rooted at `Base`, that a replay queue holds
revisions with a change, that a parent held for a commit is stored, has the
author among its members and does not satisfy the change yet, and that what a
command works on was issued. A session's inbox needs nothing: every insertion
looks the parent up. `ChainSound`
shows that the selected chain of a sound table is sound, which is what makes
exchanging chains safe.

`ExchangeCorrect` (`ExchangeAgrees`) is about any two sound tables and is proved along
the chain: tables are finite (an invariant of its own); in a finite sound table, the
best child of a selected revision is selected (`BestChildSelected`), there is a tip
(`HasTip`), and of two tips that hold each other's chains neither ends before the other
(`TipNotBehind`) nor departs from it (`TipsAgree`). Where a textbook would use
induction over the length of a chain, the proof takes a shortest or longest
counterexample: `HasMinimalSubset`, `HasShortest` and `HasLongest` get it from
well-foundedness of strict inclusion on finite sets. The hypothesis `HashOrders` says
that two siblings whose changes have one priority and whose hashes are equal are the
same revision, which is freedom from collisions; it is a hypothesis and not an
`ASSUME` because revisions are an infinite set, over which TLC cannot evaluate it.
The hash of `MCRoster` satisfies it.

`SelectionCorrect` (`SelectionAdvances`) is about one table before and after a step. A
table only grows (`StoredGrows`), so it is enough that in one table a tip is beyond
every stored revision (`TipBeyond`): either the revision is an ancestor of the tip, or
take the first of its ancestors that is not; its parent is selected and is not the tip,
and the parent's selected child beats it, again with `HashOrders`.

`RetriesCorrect` (`RetriesBounded`) needs a measure that each turn uses up. For a loop of
device `d` for a change, `Spent` is the set of stored revisions under which `d` has
stored a child of its own with that change; `LoopInv` says that the turns counted so far are
no more than the spent revisions, leaving out the parent that is held for a commit.
`ApplyParent` takes a tip, which has no stored child and so is not spent (`ParentIsNew`);
`ApplyCommit` stores a child under it and counts the turn (`LoopCommit`); every other step of any thread can
only add to the tables and so to `Spent` (`LoopKeeps`). A spent revision does not satisfy
the change, since a valid child was made under it, so it is not of that change
(`SpentIsOthers`), which gives the bound. It is not a bound by the number of commands:
see Observations.

`NetworkLoopProofs`: `NetworkTypeCorrect`, `OutgoingCorrect` and `SummaryCorrect`, for
any number of peers, waits, permits and commands. `SummarySound` needs
`OutgoingIsRunning`: a session that ends with success is counted once, and was
taken off `outgoing` where it had been counted as attempted. No further
strengthening is needed.

`JoinProofs`: `TypeCorrect`, `PendingSession`, `OneAdmission`, `OnlyApproved`,
`InstalledAdmitted` and `AcknowledgedInstalled`. `OneAdmissionPerInvitation` follows from
`AdmitInv`: an invitation whose nonce is unclaimed has admitted nobody, and one whose
nonce is with a request, in the slot or with the control thread, nobody but that
request's device. `AdmittedOnlyApproved` needs `ApprovedInv`: a decision under way
is for the device and name that the user was shown, although
the slot may hold another request by then. `InstalledWasAdmitted` needs `InstallInv`:
whom a roster names, an invitation has admitted, for the inviter's own and for every
answer being built, delivered or read, although the selection may have moved since. `AcknowledgedIsInstalled` needs that before its
commit a joiner has sent nothing but its request (`AckInv`).

`SessionProofs`: `TypeCorrect`, `NeverRejected` and `MutualSuccess`,
for any files, versions, chunks, windows and budgets. The last two are about both sides
and the two streams between them, and are proved together from `TalkInv`. Its heart is
`Chain`: the units of a stream that were written and not read are a legal
continuation that leads from the reader's place in the exchange to the writer's, each
unit being a step of the protocol from the one before. A reader that reads the first
unit finds it legal and leaves a shorter chain; a writer adds a legal step at the end.
`Ordering` says that nobody writes ahead of its stage and nobody answers a request before
it is made, `Quiet` that requests are open only from their selection to the end of their
half of the file phase, `Finished` that a side whose end of stream was seen has
finished or can only have lost the connection. `HonestNeverRejected` is part of the
invariant, for a rejection would break the chain. The type invariant `TypeInv` bounds
every version in a row, on a disk or on the way by the clock.

`SetupProofs`: `TypeCorrect`, `SocketServed`, `IdentityPersists`, `OneGroupOnly` and
`OnlyTornBlock`, for any number of processes and of groups. `SocketIsServed` follows from the lock alone
(`LockInv`: a process in a stage of the daemon or of a join that comes after `acquire`
holds it). The others are conditional on `~crossed`, and so is their invariant
(`Sequential`): one process at most is between its reading and its writing (`Sole`), the
reference leads to an identity and the group has it as a member (`Stores`), what each
process has read of files and database still holds (`FoundIdentity`, `FoundRows`), and a
refused identity means a file that no process is about to fill (`Failed`). `crossed` is a history variable that
never returns to false, so the condition is kept by every step.

`CollectionsProofs`: `TypeCorrect`, `CommandsStay` and `DeletedThere`. `CommandsHold` needs
`HoldInv`: during a scan, which will write its path back, the collection has that path,
and while the daemon is about to answer it is where the command put it (`Placed`);
commands and scans share the daemon's thread, so only the command line can come
between, which sets `raced`. `DeletedWasThere` is an action property; `HeldInv` says that
rows that say "on disk" about the collection's root, what a scan has walked or has still
to compare, and what a session is about to mark, are files that the directory in
question has held.

Only model-checked: liveness (`WinnerReachesDiskUnlessOvertaken`, `Agreement`,
`WaitsAnswered`, `ChangesReachPeers`, `ShutdownEnds`, `SessionsEnd`, `EventuallyInSync`,
`RowsReconcile`), which the prover cannot do, and the violations.

## Not modelled

Signatures, hashes and encodings (injective by assumption); peer address hints
beyond the ones a join sends, and peer health, which change whom a device can reach
and not what it may do; log rows; ignore patterns, symbolic links inside a root and
names that collide on case-insensitive file systems (a path is one path here); path
strings (`path.rs`) and the configuration file (`config.rs`), which are pure and have
unit tests; frames that no peer running this code sends; a group, manifest or
collection list beyond the limits of a frame; the joining service itself, which is
another program; requests that only read (`status` after the identity, `logs`, `config`,
`peers list`); everything marked so in `PROJECT.json`.

## Plan

Every part that changes state is modelled. What remains, in this order:

1. `Group`: several replicas exchanging records, with convergence; `Session` shows it
   for two devices and whole scans.
