------------------------------- MODULE Setup --------------------------------
(***************************************************************************)
(* The first runs of the program on one device: `setup`, `daemon`, `join`  *)
(* and `status` find or create the device identity (identity.rs), open and *)
(* create the database (state.rs), write the genesis of a group or install *)
(* a joined one, attach the default collections (setup.rs) and, for the    *)
(* daemon, take the control socket (daemon.rs).  Daemon and join hold the  *)
(* process lock (process_lock.rs); setup and status do not.                *)
(*                                                                         *)
(* A process may end anywhere: its files stay as they are, the kernel      *)
(* releases its lock, and its socket is left without a listener.  An       *)
(* identity is a number; the members of the database's group are the       *)
(* identities its selected roster names.                                   *)
(***************************************************************************)
EXTENDS Naturals, FiniteSets

CONSTANTS
    Defaults,    \* DEFAULT_COLLECTIONS, by place in the array
    Remotes,     \* the groups of other devices
    MaxProcs     \* bound on processes started

ASSUME SetupAssumption ==
    /\ Defaults \subseteq Nat \ {0} /\ IsFiniteSet(Defaults)
    /\ MaxProcs \in Nat

VARIABLES
    proc,      \* the processes: command, next step, identity, error
    lock,      \* the holder of process.lock, 0 for none
    ref,       \* identity.ref: none, empty, file or keyring
    key,       \* identity.key: its state and the identity in it
    ring,      \* the keyring's secret for this data directory, 0 for none
    schema,    \* the database has its tables
    groups,    \* the groups whose genesis is in the database
    members,   \* the identities in the selected roster
    attached,  \* collections in the database
    sock,      \* the control socket: none, stale or the listening daemon
    fresh,     \* identities generated so far
    crossed    \* history: two processes were setting up at once

idVars == <<ref, key, ring, fresh>>
dbVars == <<schema, groups, members, attached>>
vars == <<proc, lock, idVars, dbVars, sock, crossed>>

Procs == 1..MaxProcs
Commands == {"setup", "daemon", "join", "status"}
Groups == Remotes \cup {"own"}  \* "own": the group that setup creates here
NoProc == [cmd |-> "none", pc |-> "off", id |-> 0, coll |-> 0, grp |-> "own",
           err |-> "none"]
NoKey == [state |-> "none", id |-> 0]
Gone == {"off", "done", "failed"}
Running(p) == proc[p].pc \notin Gone

\* The process has its identity and goes on with it.
IdentityKnown == {"db", "migrate", "chain", "genesis", "attach", "insert", "reload",
                  "socket", "bind", "serving", "approval", "check", "install"}

\* The process is between its reading and its writing of files and rows.
SettingUp == {"ref", "key", "ring", "set_secret", "create_key", "write_key",
              "create_file_ref", "create_keyring_ref", "write_file_ref",
              "write_keyring_ref", "db", "migrate", "chain", "genesis", "attach",
              "insert", "check", "install"}

-----------------------------------------------------------------------------

Goto(p, step) == proc' = [proc EXCEPT ![p].pc = step]
Know(p, i, step) == proc' = [proc EXCEPT ![p].id = i, ![p].pc = step]

\* The process ends, with an error or without, and its lock file is closed.
End(p, how, why) ==
    /\ proc' = [proc EXCEPT ![p].pc = how, ![p].err = why]
    /\ lock' = IF lock = p THEN 0 ELSE lock

Fails(p, why) == End(p, "failed", why)

\* ProcessLock::acquire
acquire(p) == lock = 0

\* Another process is finding or creating the files and rows that p is about
\* to find or create.  Nothing orders the two: only daemon and join exclude
\* each other.
Crosses(p) ==
    crossed' = (crossed \/ \E q \in Procs \ {p} : proc[q].pc \in SettingUp)

\* execute: the configuration is loaded and validated, then the command runs.
Start(p, c) ==
    /\ proc[p] = NoProc
    /\ \A q \in Procs : q < p => proc[q] # NoProc
    /\ c = "status" => schema  \* not_setup
    /\ IF c \in {"daemon", "join"} /\ ~acquire(p)
       THEN /\ proc' = [proc EXCEPT ![p].cmd = c, ![p].pc = "failed", ![p].err = "busy"]
            /\ UNCHANGED <<lock, crossed>>
       ELSE /\ proc' = [proc EXCEPT ![p].cmd = c, ![p].pc = "ref"]
            /\ lock' = IF c \in {"daemon", "join"} THEN p ELSE lock
            /\ Crosses(p)
    /\ UNCHANGED <<idVars, dbVars, sock>>

-----------------------------------------------------------------------------
(* IdentityStore::load_or_create                                            *)

\* The step after load_or_create.
AfterIdentity(c) == IF c = "status" THEN "done" ELSE "db"

\* load_referenced: the identity that identity.ref leads to, 0 for none.
Stored ==
    CASE ref = "keyring" -> ring
      [] ref = "file" /\ key.state = "full" -> key.id
      [] OTHER -> 0

\* The reference is read if it exists; the keyring may be locked.
ReadReference(p) ==
    /\ proc[p].pc \in {"ref", "reload"}
    /\ \/ /\ ref = "none"
          /\ Goto(p, "key")
          /\ UNCHANGED lock
       \/ /\ ref # "none"
          /\ Stored # 0
          /\ Know(p, Stored, CASE proc[p].pc = "ref" -> AfterIdentity(proc[p].cmd)
                               [] proc[p].cmd = "daemon" -> "socket"
                               [] OTHER -> "approval")
          /\ UNCHANGED lock
       \/ /\ ref # "none"
          /\ Stored = 0
          /\ Fails(p, "identity")  \* InvalidReference, InvalidSecret
       \/ /\ ref = "keyring"
          /\ Fails(p, "keyring")   \* KeyringUnavailable
    /\ UNCHANGED <<idVars, dbVars, sock, crossed>>

ReadKeyFile(p) ==
    /\ proc[p].pc = "key"
    /\ CASE key.state = "none" -> Goto(p, "ring") /\ UNCHANGED lock
         [] key.state = "full" -> Know(p, key.id, "create_file_ref") /\ UNCHANGED lock
         [] OTHER -> Fails(p, "identity")
    /\ UNCHANGED <<idVars, dbVars, sock, crossed>>

\* get_secret: a secret, none, or no keyring.
ReadKeyring(p) ==
    /\ proc[p].pc = "ring"
    /\ \/ /\ ring # 0
          /\ Know(p, ring, "create_keyring_ref")
          /\ UNCHANGED fresh
       \/ /\ ring = 0
          /\ Know(p, fresh + 1, "set_secret")
          /\ fresh' = fresh + 1
       \/ /\ Know(p, fresh + 1, "create_key")
          /\ fresh' = fresh + 1
    /\ UNCHANGED <<lock, ref, key, ring, dbVars, sock, crossed>>

\* A secret that the keyring refused goes to the file; it is the same one.
Fallback_regenerated(p) ==
    /\ Know(p, fresh + 1, "create_key")
    /\ fresh' = fresh + 1

Fallback(p) ==
    /\ Goto(p, "create_key")
    /\ UNCHANGED fresh

SetSecret(p) ==
    /\ proc[p].pc = "set_secret"
    /\ \/ /\ ring' = proc[p].id
          /\ Goto(p, "create_keyring_ref")
          /\ UNCHANGED fresh
       \/ /\ Fallback(p)
          /\ UNCHANGED ring
    /\ UNCHANGED <<lock, ref, key, dbVars, sock, crossed>>

\* persist_file_identity writes the key first, then the reference to it;
\* write_owner_only creates the file, which must not exist, and then fills it.
CreateKey(p) ==
    /\ proc[p].pc = "create_key"
    /\ IF key.state = "none"
       THEN /\ key' = [state |-> "empty", id |-> 0]
            /\ Goto(p, "write_key")
            /\ UNCHANGED lock
       ELSE /\ Fails(p, "exists")
            /\ UNCHANGED key
    /\ UNCHANGED <<ref, ring, fresh, dbVars, sock, crossed>>

WriteKey(p) ==
    /\ proc[p].pc = "write_key"
    /\ key' = [state |-> "full", id |-> proc[p].id]
    /\ Goto(p, "create_file_ref")
    /\ UNCHANGED <<lock, ref, ring, fresh, dbVars, sock, crossed>>

CreateReference(p) ==
    /\ proc[p].pc \in {"create_file_ref", "create_keyring_ref"}
    /\ IF ref = "none"
       THEN /\ ref' = "empty"
            /\ Goto(p, IF proc[p].pc = "create_keyring_ref"
                       THEN "write_keyring_ref" ELSE "write_file_ref")
            /\ UNCHANGED lock
       ELSE /\ Fails(p, "exists")
            /\ UNCHANGED ref
    /\ UNCHANGED <<key, ring, fresh, dbVars, sock, crossed>>

\* The backend that the reference names.
Backend_keyring(p) == "keyring"

Backend(p) == IF proc[p].pc = "write_keyring_ref" THEN "keyring" ELSE "file"

WriteReference(p) ==
    /\ proc[p].pc \in {"write_file_ref", "write_keyring_ref"}
    /\ ref' = Backend(p)
    /\ Goto(p, AfterIdentity(proc[p].cmd))
    /\ UNCHANGED <<lock, key, ring, fresh, dbVars, sock, crossed>>

-----------------------------------------------------------------------------
(* StateStore::open, setup and setup_joining_device                         *)

\* migrate reads user_version outside its transaction.
OpenDatabase(p) ==
    /\ proc[p].pc = "db"
    /\ Goto(p, IF schema THEN "chain" ELSE "migrate")
    /\ UNCHANGED <<lock, idVars, dbVars, sock, crossed>>

Migrate(p) ==
    /\ proc[p].pc = "migrate"
    /\ IF schema THEN Fails(p, "database") ELSE Goto(p, "chain") /\ UNCHANGED lock
    /\ schema' = TRUE
    /\ UNCHANGED <<idVars, groups, members, attached, sock, crossed>>

\* selected_roster_chain refuses a database with two geneses; setup goes on
\* with a genesis if there is none, a joining device must still be a member.
ReadChain(p) ==
    /\ proc[p].pc = "chain"
    /\ CASE Cardinality(groups) > 1 -> Fails(p, "roster")
         [] groups = {} /\ proc[p].cmd # "join" -> Goto(p, "genesis") /\ UNCHANGED lock
         [] /\ groups # {}
            /\ proc[p].cmd = "join"
            /\ proc[p].id \notin members -> Fails(p, "removed")
         [] OTHER -> Goto(p, "attach") /\ UNCHANGED lock
    /\ UNCHANGED <<idVars, dbVars, sock, crossed>>

\* insert_roster_revision of a genesis counts the rows in its transaction.
InsertGenesis(p) ==
    /\ proc[p].pc = "genesis"
    /\ IF groups = {}
       THEN /\ groups' = {"own"}
            /\ members' = {proc[p].id}
            /\ Goto(p, "attach")
            /\ UNCHANGED lock
       ELSE /\ Fails(p, "roster")
            /\ UNCHANGED <<groups, members>>
    /\ UNCHANGED <<idVars, schema, attached, sock, crossed>>

\* attach_default_collections looks for the next collection, and adds it.
Missing_all(p) == Defaults

Missing(p) == Defaults \ attached

AttachNext(p) ==
    /\ proc[p].pc = "attach"
    /\ IF Missing(p) = {}
       THEN IF proc[p].cmd = "setup" THEN End(p, "done", "none")
            ELSE Goto(p, "reload") /\ UNCHANGED lock
       ELSE /\ \E c \in Missing(p) :
                   /\ \A d \in Missing(p) : c <= d
                   /\ proc' = [proc EXCEPT ![p].pc = "insert", ![p].coll = c]
            /\ UNCHANGED lock
    /\ UNCHANGED <<idVars, dbVars, sock, crossed>>

AddDefault(p) ==
    /\ proc[p].pc = "insert"
    /\ IF proc[p].coll \in attached
       THEN Fails(p, "database")
       ELSE proc' = [proc EXCEPT ![p].pc = "attach", ![p].coll = 0] /\ UNCHANGED lock
    /\ attached' = attached \cup {proc[p].coll}
    /\ UNCHANGED <<idVars, schema, groups, members, sock, crossed>>

-----------------------------------------------------------------------------
(* The daemon and the join after setup                                      *)

\* The lock's guard lives until the daemon's run returns.
Guard_dropped(p) == IF lock = p THEN 0 ELSE lock

Guard(p) == lock

\* A socket that answers belongs to a running daemon; any other is removed.
CheckSocket(p) ==
    /\ proc[p].pc = "socket"
    /\ IF sock \in Procs THEN Fails(p, "running") ELSE Goto(p, "bind") /\ lock' = Guard(p)
    /\ UNCHANGED <<idVars, dbVars, sock, crossed>>

BindSocket(p) ==
    /\ proc[p].pc = "bind"
    /\ sock' = p
    /\ Goto(p, "serving")
    /\ UNCHANGED <<lock, idVars, dbVars, crossed>>

StopDaemon(p) ==
    /\ proc[p].pc = "serving"
    /\ sock' = 0
    /\ End(p, "done", "none")
    /\ UNCHANGED <<idVars, dbVars, crossed>>

\* run_joiner up to the approved roster, which names this identity and belongs
\* to the inviter's group, any but one that does not exist; or an error.
Approval(p) ==
    /\ proc[p].pc = "approval"
    /\ \/ /\ \E g \in Remotes \cup groups :
                 proc' = [proc EXCEPT ![p].pc = "check", ![p].grp = g]
          /\ UNCHANGED lock
       \/ Fails(p, "rejected")
    /\ Crosses(p)
    /\ UNCHANGED <<idVars, dbVars, sock>>

\* install_joined_state_inner reads the chain before its transaction.
CanJoin_any_group(p) == groups = {} \/ proc[p].id \in members

CanJoin(p) == groups = {} \/ (groups = {proc[p].grp} /\ proc[p].id \in members)

CheckJoined(p) ==
    /\ proc[p].pc = "check"
    /\ IF CanJoin(p)
       THEN Goto(p, "install") /\ UNCHANGED lock
       ELSE Fails(p, "group")
    /\ UNCHANGED <<idVars, dbVars, sock, crossed>>

InstallJoined(p) ==
    /\ proc[p].pc = "install"
    /\ groups' = groups \cup {proc[p].grp}
    /\ members' = members \cup {proc[p].id}
    /\ End(p, "done", "none")
    /\ UNCHANGED <<idVars, schema, attached, sock, crossed>>

\* The process is killed, or the machine stops.
Crash(p) ==
    /\ Running(p)
    /\ End(p, "failed", "crash")
    /\ sock' = IF sock = p THEN MaxProcs + 1 ELSE sock
    /\ UNCHANGED <<idVars, dbVars, crossed>>

-----------------------------------------------------------------------------

Init ==
    /\ proc = [p \in Procs |-> NoProc]
    /\ lock = 0
    /\ ref = "none"
    /\ key = NoKey
    /\ ring = 0
    /\ schema = FALSE
    /\ groups = {}
    /\ members = {}
    /\ attached = {}
    /\ sock = 0
    /\ fresh = 0
    /\ crossed = FALSE

IdentityStep(p) ==
    \/ ReadReference(p) \/ ReadKeyFile(p) \/ ReadKeyring(p) \/ SetSecret(p)
    \/ CreateKey(p) \/ WriteKey(p) \/ CreateReference(p) \/ WriteReference(p)

DatabaseStep(p) ==
    \/ OpenDatabase(p) \/ Migrate(p) \/ ReadChain(p) \/ InsertGenesis(p)
    \/ AttachNext(p) \/ AddDefault(p)

CommandStep(p) ==
    \/ CheckSocket(p) \/ BindSocket(p) \/ StopDaemon(p)
    \/ Approval(p) \/ CheckJoined(p) \/ InstallJoined(p)

Next ==
    \E p \in Procs :
        \/ \E c \in Commands : Start(p, c)
        \/ IdentityStep(p) \/ DatabaseStep(p) \/ CommandStep(p)
        \/ Crash(p)

Spec == Init /\ [][Next]_vars

-----------------------------------------------------------------------------
(* Properties.                                                              *)

Errors == {"none", "busy", "identity", "keyring", "exists", "database", "roster",
           "removed", "running", "rejected", "group", "crash"}

\* The shape of every variable; no process generates a second identity.
TypeOK ==
    /\ proc \in [Procs -> [cmd : Commands \cup {"none"},
                           pc : SettingUp \cup IdentityKnown \cup Gone,
                           id : 0..MaxProcs,
                           coll : Defaults \cup {0},
                           grp : Groups,
                           err : Errors]]
    /\ lock \in {0} \cup Procs
    /\ ref \in {"none", "empty", "file", "keyring"}
    /\ key \in [state : {"none", "empty", "full"}, id : 0..MaxProcs]
    /\ ring \in 0..MaxProcs
    /\ schema \in BOOLEAN
    /\ groups \subseteq Groups
    /\ members \subseteq 1..MaxProcs
    /\ attached \subseteq Defaults
    /\ sock \in 0..(MaxProcs + 1)
    /\ fresh \in 0..MaxProcs
    /\ crossed \in BOOLEAN

\* README.md: "Every device has a persistent iroh EndpointID."  A process that
\* goes on with an identity goes on with the stored one, and the group in the
\* database names the stored one: no crash between the keyring, the two files
\* and the database makes a group that its own device is not a member of
\* (identity.rs, load_or_create).  Two processes that set up at the same time
\* are excepted: both may create an identity.
PersistentIdentity ==
    ~crossed =>
        /\ \A p \in Procs : proc[p].pc \in IdentityKnown => proc[p].id = Stored
        /\ groups # {} => Stored \in members

\* ARCHITECTURE.md: "An installation belongs to one group."  A `setup` may
\* create a group while a `join` waits for its approval, and a second `join`
\* may be approved by another group than the first; the join is then refused.
\* The check of install_joined_state_inner is outside its
\* transaction, so a setup between the two is excepted.
OneGroup == ~crossed => Cardinality(groups) <= 1

\* The daemon that is serving owns the socket: one that starts later never
\* takes it away, however stale the socket looked when it was checked.
SocketIsServed == \A p \in Procs : proc[p].pc = "serving" => sock = p

\* A first run that was interrupted never leaves files or rows that the later
\* runs of identity.rs, migrate, setup and setup_joining_device stumble over,
\* except an empty identity file, as long as they set up one after the other.
\* (A device that has a group is refused by the join to another one, and a
\* locked keyring stops any command: those errors are not about leftovers.)
OnlyTornFilesBlock ==
    ~crossed =>
        \A p \in Procs :
            /\ proc[p].err = "identity" => ref = "empty" \/ key.state = "empty"
            /\ proc[p].err \notin {"exists", "database", "roster", "removed"}

=============================================================================
