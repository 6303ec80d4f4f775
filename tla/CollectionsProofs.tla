------------------------- MODULE CollectionsProofs -------------------------
(***************************************************************************)
(* The safety properties of Collections, for any paths, files and sessions *)
(* and any number of commands, starts, records and changes on disk.        *)
(***************************************************************************)
EXTENDS Collections, TLAPS

\* What a command left in the daemon waits for.
Answering == dmn.pc = "answer" \/ dmn.after = "answer"

\* The type invariant by part of the system.  To be inductive it also says that
\* the scan, the sessions and the command under way name what they work on.
DbOK ==
    /\ coll \in CollectionState \cup {None}
    /\ rows \in [Files -> [kind : {"none", "file", "tomb"}, mat : BOOLEAN]]
    /\ coll = None => \A f \in Files : rows[f] = NoRow

DiskOK ==
    /\ disk \in [Paths -> {None} \cup SUBSET Files]
    /\ had \in [Paths -> SUBSET Files]
    /\ \A p \in Paths : disk[p] # None => disk[p] \subseteq had[p]

DaemonOK ==
    /\ dmn \in [pc : {"off", "idle", "read", "walk", "complete", "rows", "file",
                      "answer", "watch"},
                held : Paths \cup {None}, walked : SUBSET Files,
                merged : SUBSET Files, todo : SUBSET Files,
                after : {"idle", "answer", "watch"}]
    /\ Scanning => dmn.held \in Paths
    /\ dmn.after = "answer" => dmn.pc \in {"read", "walk", "complete", "rows", "file"}

WatchOK ==
    /\ watcher \in [path : Paths, behind : BOOLEAN] \cup {None}
    /\ inbox \in [changed : BOOLEAN, errors : BOOLEAN]

CliOK ==
    /\ cli \in [pc : {"idle", "sent", "direct"}, cmd : Commands \cup {None}]
    /\ cli.pc # "idle" => cli.cmd \in Commands
    /\ cli.pc = "direct" => cli.cmd # "scan"

SessionsOK ==
    /\ sess \in [Sessions -> [pc : {"idle", "merge", "remove", "removed", "apply",
                                    "install", "mark"},
                              path : Paths \cup {None}, file : Files \cup {None}]]
    /\ \A s \in Sessions :
           sess[s].pc # "idle" => sess[s].path \in Paths /\ sess[s].file \in Files

CountOK == count \in [Counters -> Nat]
HistoryOK == acked \in Paths \cup {Detached, Unknown} /\ raced \in BOOLEAN /\ crossed \in BOOLEAN
WaitOK == Answering => cli.pc = "sent"

TypeInv ==
    /\ DbOK /\ DiskOK /\ DaemonOK /\ WatchOK /\ CliOK /\ SessionsOK
    /\ CountOK /\ HistoryOK /\ WaitOK

\* The collection is where the last command put it: during a scan, which will
\* write its path back, while the daemon is about to answer, and after.
Placed(c) ==
    /\ c \in Paths => coll # None /\ coll.path = c
    /\ c = Detached => coll = None

HoldInv ==
    /\ cli.pc # "idle" => acked = Unknown
    /\ ~raced => /\ Scanning => coll # None /\ coll.path = dmn.held
                 /\ Answering => Placed(cli.cmd)
                 /\ Placed(acked)

\* What a scan may take for a deletion was in its directory: the rows that say
\* so are about the collection's root, and the scan made that its own.
HeldInv ==
    ~raced /\ ~crossed =>
        /\ coll # None /\ coll.root = coll.path =>
               \A f \in Files : rows[f] = OnDisk => f \in had[coll.path]
        /\ dmn.pc = "rows" => coll.root = dmn.held
        /\ dmn.pc \in {"complete", "rows", "file"} => dmn.walked \subseteq had[dmn.held]
        /\ dmn.pc = "file" => dmn.todo \subseteq had[dmn.held]
        /\ \A s \in Sessions : sess[s].pc = "mark" => sess[s].file \in had[sess[s].path]

-----------------------------------------------------------------------------
(* Types.                                                                  *)

\* The parts together say no less than the type invariant of the model.
LEMMA TypeParts == TypeInv => TypeOK
  BY DEF TypeInv, TypeOK, DbOK, DiskOK, DaemonOK, WatchOK, CliOK, SessionsOK, CountOK, HistoryOK

\* The initial states are typed.
LEMMA InitType == Init => TypeInv
  <1> SUFFICES ASSUME Init PROVE TypeInv
    OBVIOUS
  <1>1. DbOK
    BY CollectionsAssumption DEF Init, DbOK, CollectionState, ScanStatus, WatchStatus, NoRow
  <1>2. DiskOK
    BY CollectionsAssumption DEF Init, DiskOK
  <1>3. DaemonOK /\ WatchOK /\ CliOK /\ WaitOK
    BY DEF Init, DaemonOK, WatchOK, CliOK, WaitOK, Answering, Scanning, Off, NoInbox, NoCommand
  <1>4. SessionsOK /\ CountOK /\ HistoryOK
    BY DEF Init, SessionsOK, CountOK, HistoryOK, NoSession
  <1> QED
    BY <1>1, <1>2, <1>3, <1>4 DEF TypeInv

\* A part is typed after a step that leaves its variables alone.
LEMMA Frame ==
    ASSUME TypeInv
    PROVE  /\ UNCHANGED <<coll, rows>> => DbOK'
           /\ UNCHANGED diskVars => DiskOK'
           /\ UNCHANGED <<disk, had>> => DiskOK'
           /\ UNCHANGED dmn => DaemonOK'
           /\ UNCHANGED <<watcher, inbox>> => WatchOK'
           /\ UNCHANGED cli => CliOK'
           /\ UNCHANGED sess => SessionsOK'
           /\ UNCHANGED count => CountOK'
           /\ UNCHANGED history => HistoryOK'
           /\ UNCHANGED <<dmn, cli>> => WaitOK'
  <1>1. UNCHANGED <<coll, rows>> => DbOK'
    BY DEF TypeInv, DbOK
  <1>2. UNCHANGED <<disk, had>> => DiskOK'
    BY DEF TypeInv, DiskOK
  <1>3. UNCHANGED dmn => DaemonOK'
    BY DEF TypeInv, DaemonOK, Scanning
  <1>4. (UNCHANGED <<watcher, inbox>> => WatchOK') /\ (UNCHANGED cli => CliOK')
    BY DEF TypeInv, WatchOK, CliOK
  <1>5. (UNCHANGED sess => SessionsOK') /\ (UNCHANGED count => CountOK')
    BY DEF TypeInv, SessionsOK, CountOK
  <1>6. UNCHANGED history => HistoryOK'
    BY Zenon DEF TypeInv, HistoryOK, history
  <1>7. UNCHANGED <<dmn, cli>> => WaitOK'
    BY DEF TypeInv, WaitOK, Answering
  <1> QED
    BY <1>1, <1>2, <1>3, <1>4, <1>5, <1>6, <1>7 DEF diskVars

\* A row made of a kind and a mark is typed.
LEMMA RowType ==
    ASSUME NEW k \in {"none", "file", "tomb"}, NEW m \in BOOLEAN
    PROVE  Row(k, m) \in [kind : {"none", "file", "tomb"}, mat : BOOLEAN]
  BY DEF Row

\* Setting the mark of a row keeps its kind.
LEMMA MarkRow ==
    ASSUME NEW r \in [kind : {"none", "file", "tomb"}, mat : BOOLEAN], NEW m \in BOOLEAN
    PROVE  [r EXCEPT !.mat = m] = Row(r.kind, m)
  BY DEF Row

\* A row that is written stays typed, and there is none without a collection.
LEMMA WriteRow ==
    ASSUME TypeInv, NEW f \in Files, NEW r \in [kind : {"none", "file", "tomb"}, mat : BOOLEAN],
           rows' = [rows EXCEPT ![f] = r], UNCHANGED coll,
           coll # None \/ r = NoRow
    PROVE  DbOK'
  BY DEF TypeInv, DbOK

\* A counter stays a number.
LEMMA CountType ==
    ASSUME TypeInv, NEW c \in Counters, Count(c)
    PROVE  CountOK'
  BY DEF TypeInv, CountOK, Count

\* A scan that starts leaves the daemon typed.
LEMMA ScanType ==
    ASSUME TypeInv, NEW a \in {"idle", "answer", "watch"}, Scan(a)
    PROVE  DaemonOK' /\ dmn'.pc = "read" /\ dmn'.after = a
  BY DEF Scan, Off, DaemonOK, Scanning

\* A scan that ends goes on to what it was for.
LEMMA ScanEndsType ==
    ASSUME TypeInv, ScanEnds
    PROVE  DaemonOK' /\ dmn'.pc = dmn.after /\ dmn'.after = "idle"
  BY DEF TypeInv, ScanEnds, Off, DaemonOK, Scanning

\* A status update changes neither whether there is a collection nor where.
LEMMA StatusType ==
    ASSUME TypeInv, UNCHANGED rows,
           NEW st, \/ st \in ScanStatus /\ SetScan(st)
                   \/ st \in WatchStatus /\ SetWatch(st)
    PROVE  /\ DbOK' /\ (coll' = None <=> coll = None)
           /\ coll # None => coll'.path = coll.path /\ coll'.root = coll.root
  <1>1. CASE coll = None
    BY <1>1 DEF TypeInv, DbOK, SetScan, SetWatch
  <1>2. CASE coll # None
    <2>1. coll \in CollectionState
      BY <1>2 DEF TypeInv, DbOK
    <2>2. /\ coll' \in CollectionState
          /\ coll'.path = coll.path /\ coll'.root = coll.root
      BY <1>2, <2>1 DEF CollectionState, SetScan, SetWatch
    <2> QED
      BY <1>2, <2>2, ValuesAssumption DEF TypeInv, DbOK
  <1> QED
    BY <1>1, <1>2

\* Un-materializing leaves no file row that claims a file on disk.
LEMMA UnmaterializeType ==
    ASSUME TypeInv, Unmaterialize
    PROVE  /\ rows' \in [Files -> [kind : {"none", "file", "tomb"}, mat : BOOLEAN]]
           /\ \A f \in Files : rows'[f] # OnDisk
  BY DEF TypeInv, DbOK, Unmaterialize, IsFileRow, Row, OnDisk

\* After an attach the collection is at the path, and its rows are as they were
\* or claim nothing.
LEMMA AttachType ==
    ASSUME TypeInv, NEW p \in Paths, attach(p)
    PROVE  /\ DbOK' /\ coll' # None /\ coll'.path = p
           /\ \/ UNCHANGED <<coll, rows>>
              \/ coll'.root = None
  <1>1. CASE coll = None /\ UNCHANGED rows
             /\ coll' = [path |-> p, root |-> None, scan |-> "pending", watch |-> "pending"]
    BY <1>1, ValuesAssumption DEF TypeInv, DbOK, CollectionState, ScanStatus, WatchStatus
  <1>2. CASE coll # None /\ coll.path # p /\ replace_collection_path(p)
    <2>1. /\ coll' = [path |-> p, root |-> None, scan |-> "pending", watch |-> "pending"]
          /\ Unmaterialize
      BY <1>2 DEF replace_collection_path
    <2>2. coll' \in CollectionState
      BY <2>1 DEF CollectionState, ScanStatus, WatchStatus
    <2> QED
      BY <2>1, <2>2, UnmaterializeType, ValuesAssumption DEF DbOK
  <1>3. CASE coll # None /\ coll.path = p /\ UNCHANGED <<coll, rows>>
    BY <1>3, Frame
  <1> QED
    BY <1>1, <1>2, <1>3 DEF attach

\* Detaching takes the rows with it.
LEMMA RemoveType ==
    ASSUME TypeInv, remove_collection
    PROVE  DbOK' /\ coll' = None /\ \A f \in Files : rows'[f] = NoRow
  BY DEF remove_collection, DbOK, NoRow

\* A change on disk: the directory has held what it holds, and what it ever held.
LEMMA ChangeType ==
    ASSUME TypeInv, NEW p \in Paths, NEW files \in {None} \cup SUBSET Files,
           Change(p, files), UNCHANGED inbox
    PROVE  /\ DiskOK' /\ WatchOK'
           /\ \A q \in Paths : had[q] \subseteq had'[q]
           /\ files # None => files \subseteq had'[p]
  <1>1. /\ disk \in [Paths -> {None} \cup SUBSET Files]
        /\ had \in [Paths -> SUBSET Files]
        /\ \A q \in Paths : disk[q] # None => disk[q] \subseteq had[q]
    BY DEF TypeInv, DiskOK
  <1>2. disk' = [disk EXCEPT ![p] = files]
    BY DEF Change
  <1>3. had' = [had EXCEPT ![p] = had[p] \cup (IF files = None THEN {} ELSE files)]
    BY DEF Change
  <1>4. /\ had' \in [Paths -> SUBSET Files]
        /\ \A q \in Paths : had[q] \subseteq had'[q]
        /\ files # None => files \subseteq had'[p]
    BY <1>1, <1>3
  <1>5. DiskOK'
    BY <1>1, <1>2, <1>4 DEF DiskOK
  <1>6. WatchOK'
    BY DEF TypeInv, WatchOK, Change, Noticed
  <1> QED
    BY <1>4, <1>5, <1>6

\* A directory that is made holds nothing yet.
LEMMA CreateType ==
    ASSUME TypeInv, NEW p \in Paths, disk' = CreateDir(p), UNCHANGED had
    PROVE  DiskOK'
  BY DEF TypeInv, DiskOK, CreateDir

\* A session that moves on or ends.
LEMMA SessionType ==
    ASSUME TypeInv, NEW s \in Sessions,
           \/ SessionEnds(s)
           \/ sess[s].pc # "idle" /\ \E pc \in {"remove", "removed", "apply", "mark"} : SessionGoes(s, pc)
    PROVE  /\ SessionsOK'
           /\ \A t \in Sessions : t # s => sess'[t] = sess[t]
           /\ sess'[s].pc # "idle" => /\ sess'[s].path = sess[s].path
                                      /\ sess'[s].file = sess[s].file
  BY DEF TypeInv, SessionsOK, SessionEnds, SessionGoes, NoSession

\* Every step of the daemon's scans keeps the types.
LEMMA ScanStepType ==
    ASSUME TypeInv,
           \/ DaemonReads \/ DaemonWalks \/ DaemonCompletes \/ DaemonReadsRows
           \/ (\E f \in Files : DaemonScansFile(f))
           \/ DaemonScanned \/ DaemonScanFails
    PROVE  TypeInv'
  <1> USE DEF TypeInv
  <1>1. CASE DaemonReads
    <2>1. DaemonOK' /\ WaitOK'
      <3>1. CASE coll = None
        BY <1>1, <3>1, ScanEndsType DEF DaemonReads, WaitOK, Answering
      <3>2. CASE coll # None
        BY <1>1, <3>2 DEF DaemonReads, WaitOK, Answering, DaemonOK, DbOK, CollectionState, Scanning
      <3> QED
        BY <3>1, <3>2
    <2> QED
      BY <1>1, <2>1, Frame DEF DaemonReads
  <1>2. CASE DaemonWalks
    <2>1. CASE disk[dmn.held] = None
      <3>1. SetScan("missing") /\ ScanEnds /\ UNCHANGED rows
        BY <1>2, <2>1 DEF DaemonWalks
      <3>2. DbOK' /\ DaemonOK' /\ dmn'.pc = dmn.after /\ dmn'.after = "idle"
        BY <3>1, StatusType, ScanEndsType DEF ScanStatus
      <3> QED
        BY <1>2, <3>2, Frame DEF DaemonWalks, WaitOK, Answering
    <2>2. CASE disk[dmn.held] # None
      <3>1. dmn.held \in Paths /\ disk[dmn.held] \subseteq Files
        BY <1>2, <2>2 DEF DaemonWalks, DaemonOK, DiskOK, Scanning
      <3>2. DaemonOK' /\ WaitOK'
        BY <1>2, <2>2, <3>1 DEF DaemonWalks, DaemonOK, WaitOK, Answering, Scanning
      <3> QED
        BY <1>2, <2>2, <3>2, Frame DEF DaemonWalks
    <2> QED
      BY <2>1, <2>2
  <1>3. CASE DaemonCompletes
    <2>1. DaemonOK' /\ WaitOK' /\ dmn.held \in Paths
      BY <1>3 DEF DaemonCompletes, Goto, DaemonOK, WaitOK, Answering, Scanning
    <2>2. coll' \in CollectionState
      BY <1>3, <2>1 DEF DaemonCompletes, complete_collection_scan, DbOK, CollectionState, ScanStatus
    <2>3. rows' \in [Files -> [kind : {"none", "file", "tomb"}, mat : BOOLEAN]]
      BY <1>3, UnmaterializeType DEF DaemonCompletes, complete_collection_scan, DbOK
    <2>4. DbOK'
      BY <2>2, <2>3, ValuesAssumption DEF DbOK
    <2> QED
      BY <1>3, <2>1, <2>4, Frame DEF DaemonCompletes
  <1>4. CASE DaemonReadsRows
    <2>1. DaemonOK' /\ WaitOK'
      BY <1>4 DEF DaemonReadsRows, DaemonOK, WaitOK, Answering, Scanning
    <2> QED
      BY <1>4, <2>1, Frame DEF DaemonReadsRows
  <1>5. ASSUME NEW f \in Files, DaemonScansFile(f) PROVE TypeInv'
    <2>1. DaemonOK' /\ WaitOK'
      BY <1>5 DEF DaemonScansFile, DaemonOK, WaitOK, Answering, Scanning
    <2>2. PICK r \in IF f \in dmn.walked THEN SeenOutcomes(f) ELSE MissingOutcomes(f) :
              rows' = [rows EXCEPT ![f] = r]
      BY <1>5 DEF DaemonScansFile
    <2>3. r \in [kind : {"none", "file", "tomb"}, mat : BOOLEAN]
      <3>1. rows[f] \in [kind : {"none", "file", "tomb"}, mat : BOOLEAN]
        BY DEF DbOK
      <3>2. SeenOutcomes(f) \subseteq {OnDisk, Row("file", FALSE), rows[f]}
        BY <3>1 DEF SeenOutcomes
      <3>3. MissingOutcomes(f) \subseteq {Row("tomb", TRUE), rows[f]}
        BY DEF MissingOutcomes
      <3> QED
        BY <2>2, <3>1, <3>2, <3>3, RowType DEF OnDisk
    <2>4. DbOK'
      BY <1>5, <2>2, <2>3, WriteRow DEF DaemonScansFile
    <2> QED
      BY <1>5, <2>1, <2>4, Frame DEF DaemonScansFile
  <1>6. CASE DaemonScanned
    BY <1>6, ScanEndsType, Frame DEF DaemonScanned, WaitOK, Answering
  <1>7. CASE DaemonScanFails
    <2>1. DbOK' /\ DaemonOK' /\ dmn'.pc = dmn.after /\ dmn'.after = "idle"
      BY <1>7, StatusType, ScanEndsType DEF ScanStatus, DaemonScanFails
    <2>2. CountOK'
      BY <1>7, CountType, Frame DEF DaemonScanFails, Counters
    <2> QED
      BY <1>7, <2>1, <2>2, Frame DEF DaemonScanFails, WaitOK, Answering
  <1> QED
    BY <1>1, <1>2, <1>3, <1>4, <1>5, <1>6, <1>7

\* Every other step of the daemon keeps the types.
LEMMA ServeStepType ==
    ASSUME TypeInv,
           \/ DaemonWatches \/ DaemonDrains \/ DaemonFullScan \/ DaemonHandles
           \/ DaemonAnswers \/ DaemonStarts \/ DaemonEnds
    PROVE  TypeInv'
  <1> USE DEF TypeInv
  <1>1. CASE DaemonWatches
    <2>1. DaemonOK' /\ WaitOK'
      BY <1>1 DEF DaemonWatches, Goto, DaemonOK, WaitOK, Answering, Scanning
    <2>2. DbOK'
      BY <1>1, StatusType, Frame DEF DaemonWatches, WatchStatus
    <2>3. CountOK'
      BY <1>1, CountType, Frame DEF DaemonWatches, Counters
    <2>4. WatchOK'
      <3>1. coll # None => coll.path \in Paths
        BY DEF DbOK, CollectionState
      <3>2. watcher' = None \/ watcher' \in [path : Paths, behind : BOOLEAN]
        <4>1. watcher' = None \/ (coll # None /\ watcher' = [path |-> coll.path, behind |-> FALSE])
          BY <1>1 DEF DaemonWatches
        <4>2. ASSUME NEW p \in Paths, NEW b \in BOOLEAN
              PROVE  [path |-> p, behind |-> b] \in [path : Paths, behind : BOOLEAN]
          OBVIOUS
        <4> QED
          BY <3>1, <4>1, <4>2
      <3> QED
        BY <1>1, <3>2 DEF DaemonWatches, WatchOK
    <2> QED
      BY <1>1, <2>1, <2>2, <2>3, <2>4, Frame DEF DaemonWatches
  <1>2. CASE DaemonDrains
    <2>1. DaemonOK' /\ WaitOK'
      BY <1>2, ScanType, Frame DEF DaemonDrains, WaitOK, Answering
    <2>2. DbOK'
      BY <1>2, StatusType, Frame DEF DaemonDrains, WatchStatus
    <2>3. WatchOK'
      BY <1>2 DEF DaemonDrains, WatchOK, NoInbox
    <2> QED
      BY <1>2, <2>1, <2>2, <2>3, Frame DEF DaemonDrains
  <1>3. CASE DaemonFullScan
    BY <1>3, ScanType, Frame DEF DaemonFullScan, WaitOK, Answering
  <1>4. CASE DaemonHandles
    <2>1. DaemonOK'
      BY <1>4, ScanType DEF DaemonHandles, AttachScan, Goto, DaemonOK, Scanning
    <2>2. DbOK'
      BY <1>4, AttachType, RemoveType, Frame DEF DaemonHandles
    <2>3. DiskOK'
      BY <1>4, CreateType, Frame DEF DaemonHandles
    <2>4. WaitOK'
      BY <1>4 DEF DaemonHandles, WaitOK
    <2> QED
      BY <1>4, <2>1, <2>2, <2>3, <2>4, Frame DEF DaemonHandles
  <1>5. CASE DaemonAnswers
    <2>1. DaemonOK' /\ WaitOK' /\ CliOK'
      BY <1>5 DEF DaemonAnswers, Goto, DaemonOK, WaitOK, CliOK, Answering, Scanning, NoCommand
    <2>2. cli.cmd \in Commands
      BY <1>5 DEF DaemonAnswers, WaitOK, Answering, CliOK
    <2>3. acked' \in Paths \cup {Detached, Unknown}
      BY <1>5, <2>2 DEF DaemonAnswers, Answered, Commands
    <2>4. HistoryOK'
      BY <1>5, <2>3, Zenon DEF DaemonAnswers, HistoryOK
    <2> QED
      BY <1>5, <2>1, <2>4, Frame DEF DaemonAnswers
  <1>6. CASE DaemonStarts
    <2>1. CountOK' /\ DaemonOK' /\ WaitOK'
      BY <1>6, CountType, ScanType DEF DaemonStarts, Counters, WaitOK, Answering
    <2> QED
      BY <1>6, <2>1, Frame DEF DaemonStarts
  <1>7. CASE DaemonEnds
    <2>1. DaemonOK' /\ WaitOK' /\ CliOK' /\ WatchOK'
      BY <1>7 DEF DaemonEnds, DaemonOK, WaitOK, CliOK, WatchOK, Answering, Scanning, Off,
                  NoCommand, NoInbox
    <2> QED
      BY <1>7, <2>1, Frame DEF DaemonEnds
  <1> QED
    BY <1>1, <1>2, <1>3, <1>4, <1>5, <1>6, <1>7

\* The steps of the user, the watcher and the command line keep the types.
LEMMA UserStepType ==
    ASSUME TypeInv,
           \/ WatcherPolls \/ (\E p \in Paths : UserEdits(p))
           \/ (\E c \in Commands : CliAsks(c)) \/ CliActs
    PROVE  TypeInv'
  <1> USE DEF TypeInv
  <1>1. CASE WatcherPolls
    <2>1. WatchOK'
      BY <1>1 DEF WatcherPolls, WatchOK
    <2>2. CountOK'
      BY <1>1, CountType, Frame DEF WatcherPolls, Counters
    <2> QED
      BY <1>1, <2>1, <2>2, Frame DEF WatcherPolls
  <1>2. ASSUME NEW p \in Paths, UserEdits(p) PROVE TypeInv'
    <2>1. PICK files \in {None} \cup SUBSET Files : Change(p, files)
      BY <1>2 DEF UserEdits, DiskOK
    <2>2. DiskOK' /\ WatchOK'
      BY <1>2, <2>1, ChangeType DEF UserEdits
    <2>3. CountOK'
      BY <1>2, CountType DEF UserEdits, Counters
    <2> QED
      BY <1>2, <2>2, <2>3, Frame DEF UserEdits
  <1>3. ASSUME NEW c \in Commands, CliAsks(c) PROVE TypeInv'
    <2>1. CliOK' /\ WaitOK'
      BY <1>3 DEF CliAsks, CliOK, WaitOK, Answering, DaemonOK
    <2>2. CountOK'
      BY <1>3, CountType DEF CliAsks, Counters
    <2>3. HistoryOK'
      BY <1>3, Zenon DEF CliAsks, HistoryOK
    <2> QED
      BY <1>3, <2>1, <2>2, <2>3, Frame DEF CliAsks
  <1>4. CASE CliActs
    <2>1. CliOK' /\ WaitOK'
      BY <1>4 DEF CliActs, CliOK, WaitOK, Answering, NoCommand
    <2>2. DbOK'
      BY <1>4, AttachType, RemoveType DEF CliActs
    <2>3. DiskOK'
      BY <1>4, CreateType, Frame DEF CliActs
    <2>4. acked' \in Paths \cup {Detached, Unknown}
      BY <1>4 DEF CliActs, Answered
    <2>5. raced' \in BOOLEAN /\ crossed' \in BOOLEAN
      BY <1>4, Zenon DEF CliActs, HistoryOK
    <2>6. HistoryOK'
      BY <2>4, <2>5, Zenon DEF HistoryOK
    <2> QED
      BY <1>4, <2>1, <2>2, <2>3, <2>6, Frame DEF CliActs
  <1> QED
    BY <1>1, <1>2, <1>3, <1>4

\* A session's mark makes its root the collection's; what a row then claims, it
\* claimed of that root before, or it is the file just marked.
LEMMA MarkType ==
    ASSUME TypeInv, NEW s \in Sessions, sess[s].pc = "mark", mark_materialized(s)
    PROVE  /\ DbOK' /\ coll # None /\ coll' # None
           /\ coll'.path = coll.path /\ coll'.root = sess[s].path
           /\ \A f \in Files : rows'[f] = OnDisk =>
                  f = sess[s].file \/ (coll.root = sess[s].path /\ rows[f] = OnDisk)
  <1>1. coll # None /\ sess[s].path \in Paths /\ sess[s].file \in Files
    BY DEF mark_materialized, TypeInv, SessionsOK
  <1>2. coll' \in CollectionState /\ coll'.path = coll.path /\ coll'.root = sess[s].path
    BY <1>1 DEF mark_materialized, TypeInv, DbOK, CollectionState
  <1>3. rows' = [f \in Files |->
                  IF f = sess[s].file THEN OnDisk
                  ELSE IF coll.root # sess[s].path /\ IsFileRow(rows[f])
                       THEN Row("file", FALSE) ELSE rows[f]]
    BY DEF mark_materialized
  <1>4. /\ rows' \in [Files -> [kind : {"none", "file", "tomb"}, mat : BOOLEAN]]
        /\ \A f \in Files : rows'[f] = OnDisk =>
                  f = sess[s].file \/ (coll.root = sess[s].path /\ rows[f] = OnDisk)
    BY <1>3 DEF TypeInv, DbOK, OnDisk, Row, IsFileRow
  <1> QED
    BY <1>1, <1>2, <1>4, ValuesAssumption DEF DbOK

\* Every step of a session keeps the types.
LEMMA SessionStepType ==
    ASSUME TypeInv, NEW s \in Sessions,
           SessionStep(s) \/ \E f \in Files : SessionOpens(s, f)
    PROVE  TypeInv'
  <1> USE DEF TypeInv
  <1>1. CASE SessionMerges(s)
    <2>1. sess[s].pc = "merge" /\ sess[s].file \in Files
      BY <1>1 DEF SessionMerges, SessionsOK
    <2>2. SessionsOK'
      BY <1>1, <2>1, SessionType DEF SessionMerges
    <2>3. DbOK'
      BY <1>1, <2>1, RowType, WriteRow, Frame DEF SessionMerges
    <2>4. DaemonOK' /\ WaitOK'
      <3>1. \/ UNCHANGED dmn
            \/ \E m \in SUBSET Files : dmn' = [dmn EXCEPT !.merged = m]
        BY <1>1, <2>1 DEF SessionMerges, DaemonOK
      <3>2. UNCHANGED cli
        BY <1>1 DEF SessionMerges
      <3> QED
        BY <3>1, <3>2, Frame DEF DaemonOK, WaitOK, Scanning, Answering
    <2> QED
      BY <1>1, <2>2, <2>3, <2>4, Frame DEF SessionMerges
  <1>2. CASE SessionRemoves(s)
    <2>1. sess[s].pc = "remove" /\ sess[s].path \in Paths
      BY <1>2 DEF SessionRemoves, SessionsOK
    <2>2. SessionsOK'
      BY <1>2, <2>1, SessionType DEF SessionRemoves
    <2>3. disk[sess[s].path] # None => disk[sess[s].path] \ {sess[s].file} \in SUBSET Files
      BY <2>1 DEF DiskOK
    <2>4. DiskOK' /\ WatchOK'
      BY <1>2, <2>1, <2>3, ChangeType, Frame DEF SessionRemoves
    <2> QED
      BY <1>2, <2>2, <2>4, Frame DEF SessionRemoves
  <1>3. CASE SessionRemoved(s)
    <2>1. sess[s].file \in Files
      BY <1>3 DEF SessionRemoved, SessionsOK
    <2>2. DbOK'
      <3>1. rows[sess[s].file] \in [kind : {"none", "file", "tomb"}, mat : BOOLEAN]
        BY <2>1 DEF DbOK
      <3>2. CASE rows[sess[s].file].kind = "tomb"
        <4>1. rows' = [rows EXCEPT ![sess[s].file] = Row("tomb", TRUE)]
          <5>1. [rows[sess[s].file] EXCEPT !.mat = TRUE] = Row("tomb", TRUE)
            BY <3>1, <3>2, MarkRow
          <5>2. rows' = [rows EXCEPT ![sess[s].file] = [rows[sess[s].file] EXCEPT !.mat = TRUE]]
            BY <1>3, <3>2 DEF SessionRemoved
          <5> QED
            BY <5>1, <5>2
        <4>2. coll # None
          BY <2>1, <3>2 DEF DbOK, NoRow
        <4> QED
          BY <1>3, <2>1, <4>1, <4>2, RowType, WriteRow DEF SessionRemoved
      <3>3. CASE rows[sess[s].file].kind # "tomb"
        BY <1>3, <3>3, Frame DEF SessionRemoved
      <3> QED
        BY <3>2, <3>3
    <2> QED
      BY <1>3, <2>2, SessionType, Frame DEF SessionRemoved
  <1>4. CASE SessionApplies(s)
    <2>1. SessionsOK'
      <3>1. CASE SessionEnds(s)
        BY <3>1, SessionType
      <3>2. CASE ~SessionEnds(s)
        BY <1>4, <3>2 DEF SessionApplies, SessionsOK, DbOK, CollectionState
      <3> QED
        BY <3>1, <3>2
    <2> QED
      BY <1>4, <2>1, Frame DEF SessionApplies
  <1>5. CASE SessionInstalls(s)
    <2>1. sess[s].pc = "install" /\ sess[s].path \in Paths /\ sess[s].file \in Files
      BY <1>5 DEF SessionInstalls, SessionsOK
    <2>2. SessionsOK'
      BY <1>5, <2>1, SessionType DEF SessionInstalls
    <2>3. disk[sess[s].path] # None => disk[sess[s].path] \cup {sess[s].file} \in SUBSET Files
      BY <2>1 DEF DiskOK
    <2>4. DiskOK' /\ WatchOK'
      BY <1>5, <2>1, <2>3, ChangeType, Frame DEF SessionInstalls
    <2>5. DbOK'
      <3>1. rows[sess[s].file] \in [kind : {"none", "file", "tomb"}, mat : BOOLEAN]
        BY <2>1 DEF DbOK
      <3>2. CASE disk[sess[s].path] = None /\ IsFileRow(rows[sess[s].file])
        <4>1. rows' = [rows EXCEPT ![sess[s].file] = Row("file", FALSE)]
          BY <1>5, <2>1, <3>1, <3>2 DEF SessionInstalls, Row, DbOK, IsFileRow
        <4>2. coll # None
          BY <2>1, <3>2 DEF DbOK, NoRow, IsFileRow
        <4> QED
          BY <1>5, <2>1, <4>1, <4>2, RowType, WriteRow DEF SessionInstalls
      <3>3. CASE ~(disk[sess[s].path] = None /\ IsFileRow(rows[sess[s].file]))
        BY <1>5, <3>3, Frame DEF SessionInstalls
      <3> QED
        BY <3>2, <3>3
    <2> QED
      BY <1>5, <2>2, <2>4, <2>5, Frame DEF SessionInstalls
  <1>6. CASE SessionMarks(s)
    <2>1. DbOK'
      BY <1>6, MarkType, Frame DEF SessionMarks
    <2>2. HistoryOK'
      BY <1>6, Zenon DEF SessionMarks, HistoryOK
    <2> QED
      BY <1>6, <2>1, <2>2, SessionType, Frame DEF SessionMarks
  <1>7. ASSUME NEW f \in Files, SessionOpens(s, f) PROVE TypeInv'
    <2>1. SessionsOK'
      BY <1>7 DEF SessionOpens, SessionsOK, DbOK, CollectionState
    <2>2. CountOK'
      BY <1>7, CountType DEF SessionOpens, Counters
    <2> QED
      BY <1>7, <2>1, <2>2, Frame DEF SessionOpens
  <1> QED
    BY <1>1, <1>2, <1>3, <1>4, <1>5, <1>6, <1>7 DEF SessionStep

\* Every step keeps the types.
LEMMA NextType == TypeInv /\ [Next]_vars => TypeInv'
  <1> SUFFICES ASSUME TypeInv, [Next]_vars PROVE TypeInv'
    OBVIOUS
  <1>1. CASE UNCHANGED vars
    BY <1>1, Frame DEF vars, TypeInv
  <1>2. CASE Next
    BY <1>2, ScanStepType, ServeStepType, UserStepType, SessionStepType DEF Next, DaemonStep
  <1> QED
    BY <1>1, <1>2

\* Every variable of the collection, its daemon, its sessions and its command
\* stays within its type, and no row outlives its collection, whatever the
\* interleaving of their steps (state.rs:981, ON DELETE CASCADE).
THEOREM TypeCorrect == Spec => []TypeOK
  BY InitType, NextType, TypeParts, PTL DEF Spec

-----------------------------------------------------------------------------
(* Commands.                                                               *)

\* No command is answered and none raced in the initial states.
LEMMA InitHold == Init => HoldInv
  BY ValuesAssumption DEF Init, HoldInv, Placed, Answering, Scanning, Off, NoCommand,
     Detached, Unknown

\* A step keeps the place of the collection.
SamePlace ==
    ~raced => /\ coll' = None <=> coll = None
              /\ coll # None => coll'.path = coll.path

\* Such a step keeps the last command in force if a scan it begins has read the
\* place and the command waits as before.
LEMMA HoldFrame ==
    ASSUME TypeInv, HoldInv, SamePlace, UNCHANGED <<cli, acked, raced>>,
           Scanning' => \/ Scanning /\ dmn'.held = dmn.held
                        \/ coll # None /\ dmn'.held = coll.path,
           Answering' => Answering
    PROVE  HoldInv'
  <1>1. cli'.pc # "idle" => acked' = Unknown
    BY DEF HoldInv
  <1>2. ASSUME ~raced'
        PROVE  /\ Scanning' => coll' # None /\ coll'.path = dmn'.held
               /\ Answering' => Placed(cli.cmd)'
               /\ Placed(acked)'
    <2>1. ~raced
      BY <1>2
    <2>2. /\ Scanning => coll # None /\ coll.path = dmn.held
          /\ Answering => Placed(cli.cmd)
          /\ Placed(acked)
      BY <2>1 DEF HoldInv
    <2>3. (coll' = None <=> coll = None) /\ (coll # None => coll'.path = coll.path)
      BY <2>1 DEF SamePlace
    <2> QED
      BY <2>2, <2>3 DEF Placed
  <1> QED
    BY <1>1, <1>2 DEF HoldInv

\* The steps of a scan leave the collection in its place: the path a scan writes
\* back is the one the collection has.
LEMMA ScanStepHold ==
    ASSUME TypeInv, HoldInv,
           \/ DaemonReads \/ DaemonWalks \/ DaemonCompletes \/ DaemonReadsRows
           \/ (\E f \in Files : DaemonScansFile(f))
           \/ DaemonScanned \/ DaemonScanFails
    PROVE  HoldInv'
  <1> USE DEF TypeInv
  <1>1. CASE DaemonReads
    <2>1. (Scanning' => coll # None /\ dmn'.held = coll.path) /\ (Answering' => Answering)
      BY <1>1, ScanEndsType DEF DaemonReads, Scanning, Answering, DaemonOK
    <2> QED
      BY <1>1, <2>1, HoldFrame DEF DaemonReads, SamePlace, history
  <1>2. CASE DaemonWalks
    <2>1. (Scanning' => Scanning /\ dmn'.held = dmn.held) /\ (Answering' => Answering)
      BY <1>2, ScanEndsType DEF DaemonWalks, Scanning, Answering, DaemonOK
    <2>2. SamePlace
      BY <1>2, StatusType DEF DaemonWalks, SamePlace, ScanStatus
    <2> QED
      BY <1>2, <2>1, <2>2, HoldFrame DEF DaemonWalks, history
  <1>3. CASE DaemonCompletes
    <2>1. (Scanning' => Scanning /\ dmn'.held = dmn.held) /\ (Answering' => Answering)
      BY <1>3 DEF DaemonCompletes, Goto, Scanning, Answering, DaemonOK
    <2>2. coll # None /\ coll' # None /\ coll'.path = dmn.held
      <3>1. dmn.held \in Paths
        BY <1>3 DEF DaemonCompletes, DaemonOK, Scanning
      <3>2. coll' \in CollectionState /\ coll'.path = dmn.held
        BY <1>3, <3>1 DEF DaemonCompletes, complete_collection_scan, DbOK, CollectionState,
                          ScanStatus
      <3> QED
        BY <1>3, <3>2, ValuesAssumption DEF DaemonCompletes
    <2>3. ~raced => coll.path = dmn.held
      BY <1>3 DEF DaemonCompletes, HoldInv, Scanning
    <2> QED
      BY <1>3, <2>1, <2>2, <2>3, HoldFrame DEF DaemonCompletes, SamePlace, history
  <1>4. CASE DaemonReadsRows
    <2>1. (Scanning' => Scanning /\ dmn'.held = dmn.held) /\ (Answering' => Answering)
      BY <1>4 DEF DaemonReadsRows, Scanning, Answering, DaemonOK
    <2> QED
      BY <1>4, <2>1, HoldFrame DEF DaemonReadsRows, SamePlace, history
  <1>5. ASSUME NEW f \in Files, DaemonScansFile(f) PROVE HoldInv'
    <2>1. (Scanning' => Scanning /\ dmn'.held = dmn.held) /\ (Answering' => Answering)
      BY <1>5 DEF DaemonScansFile, Scanning, Answering, DaemonOK
    <2> QED
      BY <1>5, <2>1, HoldFrame DEF DaemonScansFile, SamePlace, history
  <1>6. CASE DaemonScanned
    <2>1. ~Scanning' /\ (Answering' => Answering)
      BY <1>6, ScanEndsType DEF DaemonScanned, Scanning, Answering, DaemonOK
    <2> QED
      BY <1>6, <2>1, HoldFrame DEF DaemonScanned, SamePlace, history
  <1>7. CASE DaemonScanFails
    <2>1. ~Scanning' /\ (Answering' => Answering)
      BY <1>7, ScanEndsType DEF DaemonScanFails, Scanning, Answering, DaemonOK
    <2>2. SamePlace
      BY <1>7, StatusType DEF DaemonScanFails, SamePlace, ScanStatus
    <2> QED
      BY <1>7, <2>1, <2>2, HoldFrame DEF DaemonScanFails, history
  <1> QED
    BY <1>1, <1>2, <1>3, <1>4, <1>5, <1>6, <1>7

\* The daemon's other steps: a command it handles places the collection before it
\* answers, and what it answers is where the collection is.
LEMMA ServeStepHold ==
    ASSUME TypeInv, HoldInv,
           \/ DaemonWatches \/ DaemonDrains \/ DaemonFullScan \/ DaemonHandles
           \/ DaemonAnswers \/ DaemonStarts \/ DaemonEnds
    PROVE  HoldInv'
  <1> USE DEF TypeInv
  <1>1. CASE DaemonWatches
    <2>1. ~Scanning' /\ (Answering' => Answering)
      BY <1>1 DEF DaemonWatches, Goto, Scanning, Answering, DaemonOK
    <2>2. SamePlace
      BY <1>1, StatusType DEF DaemonWatches, SamePlace, WatchStatus
    <2> QED
      BY <1>1, <2>1, <2>2, HoldFrame DEF DaemonWatches, history
  <1>2. CASE DaemonDrains
    <2>1. ~Scanning' /\ (Answering' => Answering)
      BY <1>2, ScanType DEF DaemonDrains, Scanning, Answering, DaemonOK
    <2>2. SamePlace
      BY <1>2, StatusType DEF DaemonDrains, SamePlace, WatchStatus
    <2> QED
      BY <1>2, <2>1, <2>2, HoldFrame DEF DaemonDrains, history
  <1>3. CASE DaemonFullScan
    <2>1. ~Scanning' /\ ~Answering'
      BY <1>3, ScanType DEF DaemonFullScan, Scanning, Answering
    <2> QED
      BY <1>3, <2>1, HoldFrame DEF DaemonFullScan, SamePlace, history
  <1>4. CASE DaemonHandles
    <2>1. ~Scanning'
      BY <1>4, ScanType DEF DaemonHandles, AttachScan, Goto, Scanning, DaemonOK
    <2>2. Placed(cli.cmd)'
      BY <1>4, AttachType, RemoveType, ValuesAssumption DEF DaemonHandles, Placed, Detached
    <2>3. acked' = Unknown
      BY <1>4 DEF DaemonHandles, HoldInv, history
    <2>4. Placed(acked)'
      BY <2>3, ValuesAssumption DEF Placed, Detached, Unknown
    <2> QED
      BY <2>1, <2>2, <2>3, <2>4 DEF HoldInv
  <1>5. CASE DaemonAnswers
    <2>1. ~Scanning' /\ ~Answering' /\ Answering /\ cli'.pc = "idle"
      BY <1>5 DEF DaemonAnswers, Goto, Scanning, Answering, DaemonOK, NoCommand
    <2>2. ~raced' => /\ acked' \in Paths => coll # None /\ coll.path = acked'
                     /\ acked' = Detached => coll = None
      BY <1>5, <2>1, ValuesAssumption DEF DaemonAnswers, Answered, HoldInv, Placed, Unknown, Detached
    <2>3. UNCHANGED coll
      BY <1>5 DEF DaemonAnswers
    <2> QED
      BY <2>1, <2>2, <2>3 DEF HoldInv, Placed
  <1>6. CASE DaemonStarts
    <2>1. ~Scanning' /\ ~Answering'
      BY <1>6, ScanType DEF DaemonStarts, Scanning, Answering
    <2> QED
      BY <1>6, <2>1, HoldFrame DEF DaemonStarts, SamePlace, history
  <1>7. CASE DaemonEnds
    <2>1. ~Scanning' /\ ~Answering' /\ UNCHANGED <<coll, acked, raced>>
      BY <1>7 DEF DaemonEnds, Off, Scanning, Answering, history
    <2>2. cli'.pc # "idle" => cli.pc # "idle"
      BY <1>7 DEF DaemonEnds, NoCommand
    <2> QED
      BY <2>1, <2>2 DEF HoldInv, Placed
  <1> QED
    BY <1>1, <1>2, <1>3, <1>4, <1>5, <1>6, <1>7

\* The user, the watcher and the command line: a command that changes the
\* database itself does so between scans, or it raced.
LEMMA UserStepHold ==
    ASSUME TypeInv, HoldInv,
           \/ WatcherPolls \/ (\E p \in Paths : UserEdits(p))
           \/ (\E c \in Commands : CliAsks(c)) \/ CliActs
    PROVE  HoldInv'
  <1> USE DEF TypeInv
  <1>1. CASE WatcherPolls \/ (\E p \in Paths : UserEdits(p))
    <2>1. UNCHANGED <<coll, dmn, cli, acked, raced>>
      BY <1>1 DEF WatcherPolls, UserEdits, history
    <2> QED
      BY <2>1, HoldFrame DEF SamePlace, Scanning, Answering
  <1>2. ASSUME NEW c \in Commands, CliAsks(c) PROVE HoldInv'
    <2>1. ~Answering' /\ acked' = Unknown /\ UNCHANGED <<coll, dmn, raced>>
      BY <1>2 DEF CliAsks, Answering, WaitOK
    <2>2. Placed(acked)'
      BY <2>1, ValuesAssumption DEF Placed, Detached, Unknown
    <2> QED
      BY <2>1, <2>2 DEF HoldInv, Scanning
  <1>3. CASE CliActs
    <2>1. ~Answering' /\ cli'.pc = "idle" /\ UNCHANGED dmn
      BY <1>3 DEF CliActs, Answering, WaitOK, NoCommand
    <2>2. ~raced' => ~Scanning'
      BY <1>3, <2>1, Zenon DEF CliActs, Scanning
    <2>3. /\ acked' \in Paths => coll' # None /\ coll'.path = acked'
          /\ acked' = Detached => coll' = None
      BY <1>3, AttachType, RemoveType, ValuesAssumption DEF CliActs, Answered, Detached
    <2> QED
      BY <2>1, <2>2, <2>3 DEF HoldInv, Placed
  <1> QED
    BY <1>1, <1>2, <1>3

\* No step of a session moves the collection.
LEMMA SessionStepHold ==
    ASSUME TypeInv, HoldInv, NEW s \in Sessions,
           SessionStep(s) \/ \E f \in Files : SessionOpens(s, f)
    PROVE  HoldInv'
  <1> USE DEF TypeInv
  <1>1. UNCHANGED <<cli, acked, raced>>
    BY DEF SessionStep, SessionMerges, SessionRemoves, SessionRemoved, SessionApplies,
           SessionInstalls, SessionMarks, SessionOpens, history
  <1>2. dmn'.pc = dmn.pc /\ dmn'.held = dmn.held /\ dmn'.after = dmn.after
    BY DEF SessionStep, SessionMerges, SessionRemoves, SessionRemoved, SessionApplies,
           SessionInstalls, SessionMarks, SessionOpens, DaemonOK
  <1>3. SamePlace
    <2>1. CASE SessionMarks(s)
      BY <2>1, MarkType DEF SessionMarks, SamePlace
    <2>2. CASE UNCHANGED coll
      BY <2>2 DEF SamePlace
    <2> QED
      BY <2>1, <2>2 DEF SessionStep, SessionMerges, SessionRemoves, SessionRemoved,
         SessionApplies, SessionInstalls, SessionOpens
  <1> QED
    BY <1>1, <1>2, <1>3, HoldFrame DEF Scanning, Answering

\* Every step keeps the collection where the last answered command put it.
LEMMA NextHold == TypeInv /\ HoldInv /\ [Next]_vars => HoldInv'
  <1> SUFFICES ASSUME TypeInv, HoldInv, [Next]_vars PROVE HoldInv'
    OBVIOUS
  <1>1. CASE UNCHANGED vars
    BY <1>1, HoldFrame DEF vars, history, SamePlace, Scanning, Answering
  <1>2. CASE Next
    BY <1>2, ScanStepHold, ServeStepHold, UserStepHold, SessionStepHold DEF Next, DaemonStep
  <1> QED
    BY <1>1, <1>2

\* A command that was answered stays in force although every scan writes back the
\* path it started with (complete_collection_scan, state.rs:130), for any number
\* of commands, scans, sessions and restarts of the daemon, unless a command line
\* changed the database in the middle of a scan.
THEOREM CommandsStay == Spec => []CommandsHold
  <1>1. HoldInv => CommandsHold
    BY DEF HoldInv, CommandsHold, Placed
  <1> QED
    BY <1>1, InitType, NextType, InitHold, NextHold, PTL DEF Spec

-----------------------------------------------------------------------------
(* Deletions.                                                              *)

\* Nothing is scanned, claimed or installed in the initial states.
LEMMA InitHeld == Init => HeldInv
  BY DEF Init, HeldInv, OnDisk, Row, NoRow, Off, NoSession

\* What a row claims after a step it claimed of the same directory before.
SameClaims ==
    /\ coll' # None => /\ coll # None
                       /\ coll'.path = coll.path /\ coll'.root = coll.root
    /\ \A f \in Files : rows'[f] = OnDisk => rows[f] = OnDisk

\* The scan under way is as it was, or not yet or no longer looking at files.
SameScan ==
    \/ /\ dmn'.pc = dmn.pc /\ dmn'.held = dmn.held
       /\ dmn'.walked = dmn.walked /\ dmn'.todo = dmn.todo
    \/ dmn'.pc \notin {"complete", "rows", "file"}

\* Directories only gain a past.
Remembers == \A p \in Paths : had[p] \subseteq had'[p]

\* No session gets as far as its mark.
SameMarks == \A s \in Sessions : sess'[s].pc = "mark" => sess'[s] = sess[s]

\* What is left alone stays held.
LEMMA HeldFrame ==
    ASSUME TypeInv, HoldInv, HeldInv, TypeInv', HoldInv',
           UNCHANGED <<raced, crossed>>, Remembers
    PROVE  ~raced /\ ~crossed =>
             /\ SameClaims => (coll' # None /\ coll'.root = coll'.path =>
                    \A f \in Files : rows'[f] = OnDisk => f \in had'[coll'.path])
             /\ SameClaims /\ SameScan => (dmn'.pc = "rows" => coll'.root = dmn'.held)
             /\ SameScan =>
                  /\ dmn'.pc \in {"complete", "rows", "file"} => dmn'.walked \subseteq had'[dmn'.held]
                  /\ dmn'.pc = "file" => dmn'.todo \subseteq had'[dmn'.held]
             /\ SameMarks =>
                  \A s \in Sessions : sess'[s].pc = "mark" => sess'[s].file \in had'[sess'[s].path]
  <1> SUFFICES ASSUME ~raced, ~crossed
               PROVE  /\ SameClaims => (coll' # None /\ coll'.root = coll'.path =>
                             \A f \in Files : rows'[f] = OnDisk => f \in had'[coll'.path])
                      /\ SameClaims /\ SameScan => (dmn'.pc = "rows" => coll'.root = dmn'.held)
                      /\ SameScan =>
                           /\ dmn'.pc \in {"complete", "rows", "file"} =>
                                  dmn'.walked \subseteq had'[dmn'.held]
                           /\ dmn'.pc = "file" => dmn'.todo \subseteq had'[dmn'.held]
                      /\ SameMarks =>
                           \A s \in Sessions :
                               sess'[s].pc = "mark" => sess'[s].file \in had'[sess'[s].path]
    OBVIOUS
  <1>1. ASSUME SameClaims, coll' # None, coll'.root = coll'.path
        PROVE  \A f \in Files : rows'[f] = OnDisk => f \in had'[coll'.path]
    <2>1. coll # None /\ coll.path = coll'.path /\ coll.root = coll.path /\ coll.path \in Paths
      BY <1>1 DEF SameClaims, TypeInv, DbOK, CollectionState
    <2> QED
      BY <1>1, <2>1 DEF HeldInv, SameClaims, Remembers
  <1>2. ASSUME SameClaims, SameScan, dmn'.pc = "rows" PROVE coll'.root = dmn'.held
    <2>1. coll' # None
      BY <1>2 DEF HoldInv, Scanning
    <2> QED
      BY <1>2, <2>1 DEF HeldInv, SameClaims, SameScan
  <1>3. ASSUME SameScan, dmn'.pc \in {"complete", "rows", "file"}
        PROVE  /\ dmn'.walked \subseteq had'[dmn'.held]
               /\ dmn'.pc = "file" => dmn'.todo \subseteq had'[dmn'.held]
    <2>1. dmn.held \in Paths
      BY <1>3 DEF SameScan, TypeInv, DaemonOK, Scanning
    <2> QED
      BY <1>3, <2>1 DEF HeldInv, SameScan, Remembers
  <1>4. ASSUME SameMarks, NEW s \in Sessions, sess'[s].pc = "mark"
        PROVE  sess'[s].file \in had'[sess'[s].path]
    <2>1. sess[s].path \in Paths
      BY <1>4 DEF SameMarks, TypeInv, SessionsOK
    <2> QED
      BY <1>4, <2>1 DEF HeldInv, SameMarks, Remembers
  <1> QED
    BY <1>1, <1>2, <1>3, <1>4

\* A step that leaves all of it alone.
LEMMA HeldKept ==
    ASSUME TypeInv, HoldInv, HeldInv, TypeInv', HoldInv',
           UNCHANGED <<raced, crossed>>, Remembers, SameClaims, SameScan, SameMarks
    PROVE  HeldInv'
  BY HeldFrame DEF HeldInv

\* The steps of a scan: it looks only at what its directory holds or the rows of
\* its own root claim.
LEMMA ScanStepHeld ==
    ASSUME TypeInv, HoldInv, HeldInv, TypeInv', HoldInv',
           \/ DaemonReads \/ DaemonWalks \/ DaemonCompletes \/ DaemonReadsRows
           \/ (\E f \in Files : DaemonScansFile(f))
           \/ DaemonScanned \/ DaemonScanFails
    PROVE  HeldInv'
  <1> USE DEF TypeInv
  <1>0. Remembers /\ UNCHANGED <<raced, crossed>> /\ SameMarks
    BY DEF DaemonReads, DaemonWalks, DaemonCompletes, DaemonReadsRows, DaemonScansFile,
           DaemonScanned, DaemonScanFails, diskVars, history, Remembers, SameMarks
  <1>1. CASE DaemonReads
    <2>1. SameScan
      BY <1>1, ScanEndsType DEF DaemonReads, SameScan, DaemonOK
    <2> QED
      BY <1>0, <1>1, <2>1, HeldKept DEF DaemonReads, SameClaims
  <1>2. CASE DaemonWalks
    <2>1. CASE disk[dmn.held] = None
      <3>1. SameScan
        BY <1>2, <2>1, ScanEndsType DEF DaemonWalks, SameScan, DaemonOK
      <3>2. SameClaims
        BY <1>2, <2>1, StatusType DEF DaemonWalks, SameClaims, ScanStatus
      <3> QED
        BY <1>0, <3>1, <3>2, HeldKept
    <2>2. CASE disk[dmn.held] # None
      <3>1. SameClaims
        BY <1>2, <2>2 DEF DaemonWalks, SameClaims
      <3>2. dmn'.pc = "complete" /\ dmn'.walked \subseteq had'[dmn'.held]
        BY <1>2, <2>2 DEF DaemonWalks, DaemonOK, DiskOK, Scanning, diskVars
      <3> QED
        BY <1>0, <3>1, <3>2, HeldFrame DEF HeldInv
    <2> QED
      BY <2>1, <2>2
  <1>3. CASE DaemonCompletes
    <2> SUFFICES ASSUME ~raced, ~crossed
                 PROVE  /\ coll' # None /\ coll'.root = coll'.path =>
                             \A f \in Files : rows'[f] = OnDisk => f \in had'[coll'.path]
                        /\ coll'.root = dmn'.held
                        /\ dmn'.pc = "rows" /\ dmn'.walked \subseteq had'[dmn'.held]
      BY <1>0, <1>3, HeldFrame DEF HeldInv
    <2>1. dmn'.pc = "rows" /\ dmn'.held = dmn.held /\ dmn'.walked = dmn.walked /\ UNCHANGED had
      BY <1>3 DEF DaemonCompletes, Goto, DaemonOK, diskVars
    <2>2. dmn.walked \subseteq had[dmn.held]
      BY <1>3 DEF DaemonCompletes, HeldInv
    <2>3. coll'.root = dmn.held /\ coll'.path = dmn.held
      BY <1>3 DEF DaemonCompletes, complete_collection_scan, DbOK, CollectionState
    <2>4. ASSUME NEW f \in Files, rows'[f] = OnDisk PROVE f \in had[dmn.held]
      <3>1. coll.root = dmn.held /\ UNCHANGED rows
        BY <1>3, <2>4, UnmaterializeType DEF DaemonCompletes, complete_collection_scan
      <3>2. coll # None /\ coll.path = dmn.held
        BY <1>3 DEF DaemonCompletes, HoldInv, Scanning
      <3> QED
        BY <2>4, <3>1, <3>2 DEF HeldInv
    <2> QED
      BY <2>1, <2>2, <2>3, <2>4
  <1>4. CASE DaemonReadsRows
    <2>1. SameClaims
      BY <1>4 DEF DaemonReadsRows, SameClaims
    <2>2. ASSUME ~raced, ~crossed
          PROVE  /\ dmn'.pc = "file" /\ dmn'.walked \subseteq had'[dmn'.held]
                 /\ dmn'.todo \subseteq had'[dmn'.held]
      <3>1. dmn.walked \subseteq had[dmn.held] /\ coll.root = dmn.held
        BY <1>4, <2>2 DEF DaemonReadsRows, HeldInv
      <3>2. coll # None /\ coll.path = dmn.held
        BY <1>4, <2>2 DEF DaemonReadsRows, HoldInv, Scanning
      <3>3. {f \in Files : rows[f] = OnDisk} \subseteq had[dmn.held]
        BY <2>2, <3>1, <3>2 DEF HeldInv
      <3>4. /\ dmn'.pc = "file" /\ dmn'.held = dmn.held /\ dmn'.walked = dmn.walked
            /\ dmn'.todo = dmn.walked \cup {f \in Files : rows[f] = OnDisk}
            /\ UNCHANGED had
        BY <1>4 DEF DaemonReadsRows, DaemonOK, diskVars
      <3> QED
        BY <3>1, <3>3, <3>4
    <2> QED
      BY <1>0, <2>1, <2>2, HeldFrame DEF HeldInv
  <1>5. ASSUME NEW g \in Files, DaemonScansFile(g) PROVE HeldInv'
    <2> SUFFICES ASSUME ~raced, ~crossed
                 PROVE  /\ coll' # None /\ coll'.root = coll'.path =>
                             \A f \in Files : rows'[f] = OnDisk => f \in had'[coll'.path]
                        /\ dmn'.pc = "file" /\ dmn'.walked \subseteq had'[dmn'.held]
                        /\ dmn'.todo \subseteq had'[dmn'.held]
      BY <1>0, <1>5, HeldFrame DEF HeldInv
    <2>1. /\ dmn'.pc = "file" /\ dmn'.held = dmn.held /\ dmn'.walked = dmn.walked
          /\ dmn'.todo \subseteq dmn.todo /\ UNCHANGED <<had, coll>>
      BY <1>5 DEF DaemonScansFile, DaemonOK, diskVars
    <2>2. /\ dmn.walked \subseteq had[dmn.held] /\ dmn.todo \subseteq had[dmn.held]
          /\ coll # None /\ coll.path = dmn.held
      BY <1>5 DEF DaemonScansFile, HeldInv, HoldInv, Scanning
    <2>3. g \in had[dmn.held]
      BY <1>5, <2>2 DEF DaemonScansFile
    <2>4. \A f \in Files : f # g => rows'[f] = rows[f]
      BY <1>5 DEF DaemonScansFile, DbOK
    <2> QED
      BY <2>1, <2>2, <2>3, <2>4 DEF HeldInv
  <1>6. CASE DaemonScanned
    <2>1. SameScan
      BY <1>6, ScanEndsType DEF DaemonScanned, SameScan, DaemonOK
    <2> QED
      BY <1>0, <1>6, <2>1, HeldKept DEF DaemonScanned, SameClaims
  <1>7. CASE DaemonScanFails
    <2>1. SameScan
      BY <1>7, ScanEndsType DEF DaemonScanFails, SameScan, DaemonOK
    <2>2. SameClaims
      BY <1>7, StatusType DEF DaemonScanFails, SameClaims, ScanStatus
    <2> QED
      BY <1>0, <2>1, <2>2, HeldKept
  <1> QED
    BY <1>1, <1>2, <1>3, <1>4, <1>5, <1>6, <1>7

\* A collection that was attached anew claims nothing of its root.
LEMMA AttachHeld ==
    ASSUME TypeInv, HoldInv, HeldInv, TypeInv', HoldInv',
           UNCHANGED <<crossed, had, sess>>, ~raced' => ~raced,
           dmn'.pc \notin {"complete", "rows", "file"} \/ raced',
           (\E p \in Paths : attach(p)) \/ remove_collection
    PROVE  HeldInv'
  <1> SUFFICES ASSUME ~raced', ~crossed'
               PROVE  /\ coll' # None /\ coll'.root = coll'.path =>
                           \A f \in Files : rows'[f] = OnDisk => f \in had'[coll'.path]
                      /\ \A s \in Sessions :
                             sess'[s].pc = "mark" => sess'[s].file \in had'[sess'[s].path]
    BY DEF HeldInv
  <1>1. \/ UNCHANGED <<coll, rows>>
        \/ coll' # None /\ coll'.root = None
        \/ coll' = None
    BY AttachType, RemoveType
  <1>2. coll' # None => coll'.path # None
    BY CollectionsAssumption DEF TypeInv, DbOK, CollectionState
  <1> QED
    BY <1>1, <1>2 DEF HeldInv

\* The daemon's other steps look at no file.
LEMMA ServeStepHeld ==
    ASSUME TypeInv, HoldInv, HeldInv, TypeInv', HoldInv',
           \/ DaemonWatches \/ DaemonDrains \/ DaemonFullScan \/ DaemonHandles
           \/ DaemonAnswers \/ DaemonStarts \/ DaemonEnds
    PROVE  HeldInv'
  <1> USE DEF TypeInv
  <1>0. Remembers /\ UNCHANGED <<had, raced, crossed, sess>> /\ SameMarks
    BY DEF DaemonWatches, DaemonDrains, DaemonFullScan, DaemonHandles, DaemonAnswers,
           DaemonStarts, DaemonEnds, diskVars, history, Remembers, SameMarks
  <1>1. dmn'.pc \notin {"complete", "rows", "file"}
    BY ScanType DEF DaemonWatches, DaemonDrains, DaemonFullScan, DaemonHandles, DaemonAnswers,
           DaemonStarts, DaemonEnds, AttachScan, Goto, Off, DaemonOK
  <1>2. CASE DaemonHandles
    <2>1. CASE (\E p \in Paths : attach(p)) \/ remove_collection
      BY <1>0, <1>1, <2>1, AttachHeld
    <2>2. CASE UNCHANGED <<coll, rows>>
      BY <1>0, <1>1, <2>2, HeldKept DEF SameClaims, SameScan
    <2> QED
      BY <1>2, <2>1, <2>2 DEF DaemonHandles
  <1>3. CASE ~DaemonHandles
    <2>1. SameClaims
      <3>1. CASE DaemonWatches
        BY <3>1, StatusType DEF DaemonWatches, SameClaims, WatchStatus
      <3>2. CASE DaemonDrains
        BY <3>2, StatusType DEF DaemonDrains, SameClaims, WatchStatus
      <3>3. CASE UNCHANGED <<coll, rows>>
        BY <3>3 DEF SameClaims
      <3> QED
        BY <1>3, <3>1, <3>2, <3>3 DEF DaemonFullScan, DaemonAnswers, DaemonStarts, DaemonEnds
    <2> QED
      BY <1>0, <1>1, <2>1, HeldKept DEF SameScan
  <1> QED
    BY <1>2, <1>3

\* The user may delete a file, not its past; a command line that changes the
\* database does so between scans, or it raced.
LEMMA UserStepHeld ==
    ASSUME TypeInv, HoldInv, HeldInv, TypeInv', HoldInv',
           \/ WatcherPolls \/ (\E p \in Paths : UserEdits(p))
           \/ (\E c \in Commands : CliAsks(c)) \/ CliActs
    PROVE  HeldInv'
  <1> USE DEF TypeInv
  <1>1. CASE CliActs
    <2>1. UNCHANGED <<crossed, had, sess, dmn>> /\ (~raced' => ~raced /\ ~Scanning)
      BY <1>1, Zenon DEF CliActs
    <2>2. dmn'.pc \notin {"complete", "rows", "file"} \/ raced'
      BY <2>1 DEF Scanning
    <2> QED
      BY <1>1, <2>1, <2>2, AttachHeld DEF CliActs
  <1>2. CASE ~CliActs
    <2>1. UNCHANGED <<coll, rows, dmn, sess, raced, crossed>>
      BY <1>2 DEF WatcherPolls, UserEdits, CliAsks, history
    <2>2. Remembers
      <3>1. ASSUME NEW p \in Paths, UserEdits(p) PROVE Remembers
        <4>1. PICK files \in {None} \cup SUBSET Files : Change(p, files)
          BY <3>1 DEF UserEdits, DiskOK
        <4> QED
          BY <3>1, <4>1, ChangeType DEF UserEdits, Remembers
      <3>2. CASE UNCHANGED had
        BY <3>2 DEF Remembers
      <3> QED
        BY <1>2, <3>1, <3>2 DEF WatcherPolls, CliAsks, diskVars
    <2> QED
      BY <2>1, <2>2, HeldKept DEF SameClaims, SameScan, SameMarks
  <1> QED
    BY <1>1, <1>2

\* A row is not on disk unless it says so.
LEMMA NotOnDisk == \A k : Row(k, FALSE) # OnDisk /\ Row("tomb", TRUE) # OnDisk
  BY DEF Row, OnDisk

\* The steps of a session: what it installs its directory has held, and its mark
\* claims that file of that directory.
LEMMA SessionStepHeld ==
    ASSUME TypeInv, HoldInv, HeldInv, TypeInv', HoldInv', NEW s \in Sessions,
           SessionStep(s) \/ \E f \in Files : SessionOpens(s, f)
    PROVE  HeldInv'
  <1> USE DEF TypeInv
  <1>1. CASE SessionMerges(s)
    <2>1. UNCHANGED <<coll, had, raced, crossed>> /\ sess[s].file \in Files
      BY <1>1 DEF SessionMerges, SessionsOK, diskVars, history
    <2>2. \A f \in Files : rows'[f] = OnDisk => rows[f] = OnDisk
      <3>1. \/ UNCHANGED rows
            \/ \E kind \in {"file", "tomb"} :
                   rows' = [rows EXCEPT ![sess[s].file] = Row(kind, FALSE)]
        BY <1>1 DEF SessionMerges
      <3>2. \A f \in Files : rows'[f] = rows[f] \/ \E k : rows'[f] = Row(k, FALSE)
        BY <2>1, <3>1 DEF DbOK
      <3> QED
        BY <3>2, NotOnDisk
    <2>3. SameScan
      BY <1>1 DEF SessionMerges, SameScan, DaemonOK
    <2>4. SameMarks
      <3>1. SessionEnds(s) \/ \E pc \in {"apply", "remove"} : SessionGoes(s, pc)
        BY <1>1 DEF SessionMerges
      <3> QED
        BY <3>1 DEF SameMarks, SessionsOK, SessionGoes, SessionEnds, NoSession
    <2> QED
      BY <2>1, <2>2, <2>3, <2>4, HeldKept DEF SameClaims, Remembers
  <1>2. CASE SessionRemoves(s)
    <2>1. UNCHANGED <<coll, rows, dmn, raced, crossed>> /\ sess[s].path \in Paths
      BY <1>2 DEF SessionRemoves, SessionsOK, history
    <2>2. Remembers
      <3>1. CASE disk[sess[s].path] = None
        BY <1>2, <3>1 DEF SessionRemoves, Remembers, diskVars
      <3>2. CASE disk[sess[s].path] # None
        <4>1. disk[sess[s].path] \ {sess[s].file} \in SUBSET Files
          BY <2>1, <3>2 DEF DiskOK
        <4> QED
          BY <1>2, <2>1, <3>2, <4>1, ChangeType DEF SessionRemoves, Remembers
      <3> QED
        BY <3>1, <3>2
    <2>3. SameMarks
      BY <1>2 DEF SessionRemoves, SameMarks, SessionsOK, SessionGoes, SessionEnds, NoSession
    <2> QED
      BY <2>1, <2>2, <2>3, HeldKept DEF SameClaims, SameScan
  <1>3. CASE SessionRemoved(s)
    <2>1. UNCHANGED <<coll, dmn, had, raced, crossed>> /\ sess[s].file \in Files
      BY <1>3 DEF SessionRemoved, SessionsOK, diskVars, history
    <2>2. \A f \in Files : rows'[f] = OnDisk => rows[f] = OnDisk
      <3>1. CASE rows[sess[s].file].kind = "tomb"
        <4>1. rows' = [rows EXCEPT ![sess[s].file] = [rows[sess[s].file] EXCEPT !.mat = TRUE]]
          BY <1>3, <3>1 DEF SessionRemoved
        <4>2. [rows[sess[s].file] EXCEPT !.mat = TRUE] = Row("tomb", TRUE)
          BY <2>1, <3>1, MarkRow DEF DbOK
        <4> QED
          BY <2>1, <4>1, <4>2, NotOnDisk DEF DbOK
      <3>2. CASE rows[sess[s].file].kind # "tomb"
        BY <1>3, <3>2 DEF SessionRemoved
      <3> QED
        BY <3>1, <3>2
    <2>3. SameMarks
      BY <1>3 DEF SessionRemoved, SameMarks, SessionsOK, SessionEnds, NoSession
    <2> QED
      BY <2>1, <2>2, <2>3, HeldKept DEF SameClaims, SameScan, Remembers
  <1>4. CASE SessionApplies(s)
    <2>1. UNCHANGED <<coll, rows, dmn, had, raced, crossed>>
      BY <1>4 DEF SessionApplies, diskVars, history
    <2>2. SameMarks
      BY <1>4 DEF SessionApplies, SameMarks, SessionsOK, SessionEnds, NoSession
    <2> QED
      BY <2>1, <2>2, HeldKept DEF SameClaims, SameScan, Remembers
  <1>5. CASE SessionInstalls(s)
    <2>1. /\ UNCHANGED <<coll, dmn, raced, crossed>>
          /\ sess[s].path \in Paths /\ sess[s].file \in Files
      BY <1>5 DEF SessionInstalls, SessionsOK, history
    <2>2. CASE disk[sess[s].path] = None
      <3>1. \A f \in Files : rows'[f] = OnDisk => rows[f] = OnDisk
        <4>1. CASE IsFileRow(rows[sess[s].file])
          <5>1. rows' = [rows EXCEPT ![sess[s].file] = [rows[sess[s].file] EXCEPT !.mat = FALSE]]
            BY <1>5, <2>2, <4>1 DEF SessionInstalls
          <5>2. [rows[sess[s].file] EXCEPT !.mat = FALSE] = Row("file", FALSE)
            BY <2>1, <4>1, MarkRow DEF DbOK, IsFileRow
          <5> QED
            BY <2>1, <5>1, <5>2, NotOnDisk DEF DbOK
        <4>2. CASE ~IsFileRow(rows[sess[s].file])
          BY <1>5, <2>2, <4>2 DEF SessionInstalls
        <4> QED
          BY <4>1, <4>2
      <3>2. SameMarks /\ Remembers
        BY <1>5, <2>2 DEF SessionInstalls, SameMarks, SessionsOK, SessionEnds, NoSession, Remembers, diskVars
      <3> QED
        BY <2>1, <3>1, <3>2, HeldKept DEF SameClaims, SameScan
    <2>3. CASE disk[sess[s].path] # None
      <3>1. disk[sess[s].path] \cup {sess[s].file} \in {None} \cup SUBSET Files
        BY <2>1, <2>3 DEF DiskOK
      <3>2. disk[sess[s].path] \cup {sess[s].file} # None
        BY <2>1, <2>3, ValuesAssumption DEF DiskOK
      <3>3. Remembers /\ sess[s].file \in had'[sess[s].path] /\ UNCHANGED rows
        BY <1>5, <2>1, <2>3, <3>1, <3>2, ChangeType DEF SessionInstalls, Remembers
      <3>4. /\ sess'[s].file = sess[s].file /\ sess'[s].path = sess[s].path
            /\ \A t \in Sessions \ {s} : sess'[t] = sess[t]
        BY <1>5, <2>3 DEF SessionInstalls, SessionGoes, SessionsOK
      <3>5. ASSUME ~raced, ~crossed, NEW t \in Sessions, sess'[t].pc = "mark"
            PROVE  sess'[t].file \in had'[sess'[t].path]
        <4>1. CASE t = s
          BY <3>3, <3>4, <4>1
        <4>2. CASE t # s
          BY <3>3, <3>4, <3>5, <4>2 DEF HeldInv, SessionsOK, Remembers
        <4> QED
          BY <4>1, <4>2
      <3>6. SameClaims /\ SameScan
        BY <2>1, <3>3 DEF SameClaims, SameScan
      <3> QED
        BY <2>1, <3>3, <3>5, <3>6, HeldFrame DEF HeldInv
    <2> QED
      BY <2>2, <2>3
  <1>6. CASE SessionMarks(s)
    <2>1. UNCHANGED <<dmn, had, raced>> /\ sess[s].pc = "mark"
      BY <1>6 DEF SessionMarks, diskVars
    <2>2. SameMarks
      BY <1>6 DEF SessionMarks, SameMarks, SessionsOK, SessionEnds, NoSession
    <2>3. CASE UNCHANGED <<coll, rows, crossed>>
      BY <2>1, <2>2, <2>3, HeldKept DEF SameClaims, SameScan, Remembers
    <2>4. CASE mark_materialized(s) /\ crossed' = (crossed \/ (dmn.pc = "rows" /\ dmn.held # sess[s].path))
      <3> SUFFICES ASSUME ~raced', ~crossed' PROVE HeldInv'
        BY DEF HeldInv
      <3>1. ~raced /\ ~crossed /\ (dmn.pc = "rows" => dmn.held = sess[s].path)
        BY <2>1, <2>4, Zenon
      <3>2. sess[s].file \in had[sess[s].path]
        BY <2>1, <3>1 DEF HeldInv
      <3>3. coll # None /\ coll' # None /\ coll'.path = coll.path /\ coll'.root = sess[s].path
        BY <2>1, <2>4, MarkType
      <3>4. ASSUME coll'.root = coll'.path, NEW f \in Files, rows'[f] = OnDisk
            PROVE  f \in had[coll'.path]
        <4>1. f = sess[s].file \/ (coll.root = sess[s].path /\ rows[f] = OnDisk)
          BY <2>1, <2>4, <3>4, MarkType
        <4> QED
          BY <3>1, <3>2, <3>3, <3>4, <4>1 DEF HeldInv
      <3>5. \A t \in Sessions : sess'[t].pc = "mark" => sess'[t].file \in had[sess'[t].path]
        BY <2>2, <3>1 DEF HeldInv, SameMarks
      <3> QED
        BY <2>1, <3>1, <3>3, <3>4, <3>5 DEF HeldInv
    <2> QED
      BY <1>6, <2>3, <2>4 DEF SessionMarks
  <1>7. ASSUME NEW f \in Files, SessionOpens(s, f) PROVE HeldInv'
    <2>1. UNCHANGED <<coll, rows, dmn, had, raced, crossed>>
      BY <1>7 DEF SessionOpens, diskVars, history
    <2>2. SameMarks
      BY <1>7 DEF SessionOpens, SameMarks, SessionsOK
    <2> QED
      BY <2>1, <2>2, HeldKept DEF SameClaims, SameScan, Remembers
  <1> QED
    BY <1>1, <1>2, <1>3, <1>4, <1>5, <1>6, <1>7 DEF SessionStep

\* Every step leaves a scan with nothing to delete that its directory never held.
LEMMA NextHeld == TypeInv /\ HoldInv /\ HeldInv /\ [Next]_vars => HeldInv'
  <1> SUFFICES ASSUME TypeInv, HoldInv, HeldInv, [Next]_vars PROVE HeldInv'
    OBVIOUS
  <1>0. TypeInv' /\ HoldInv'
    BY NextType, NextHold
  <1>1. CASE UNCHANGED vars
    BY <1>0, <1>1, HeldKept DEF vars, history, diskVars, SameClaims, SameScan, SameMarks, Remembers
  <1>2. CASE Next
    BY <1>0, <1>2, ScanStepHeld, ServeStepHeld, UserStepHeld, SessionStepHeld DEF Next, DaemonStep
  <1> QED
    BY <1>1, <1>2

\* A scan declares a file deleted only in a directory that has held it, for any
\* number of paths, files, sessions, replacements of the path and restarts of the
\* daemon (filesystem.rs:263, state.rs:100 and 733), unless a command line raced
\* a scan or a mark crossed it.
THEOREM DeletedThere == Spec => DeletedWasThere
  <1>1. HeldInv /\ [Next]_vars => [DeletesWhatWasThere]_vars
    BY DEF HeldInv, DeletesWhatWasThere
  <1>2. Init => TypeInv /\ HoldInv /\ HeldInv
    BY InitType, InitHold, InitHeld
  <1>3. TypeInv /\ HoldInv /\ HeldInv /\ [Next]_vars => (TypeInv /\ HoldInv /\ HeldInv)'
    BY NextType, NextHold, NextHeld
  <1> QED
    BY <1>1, <1>2, <1>3, PTL DEF Spec, DeletedWasThere
=============================================================================
