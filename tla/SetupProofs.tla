---------------------------- MODULE SetupProofs ----------------------------
(***************************************************************************)
(* The safety invariants of Setup, for any number of processes started and *)
(* any default collections.                                                *)
(***************************************************************************)
EXTENDS Setup, FiniteSetTheorems, TLAPS

Proc == [cmd : Commands \cup {"none"}, pc : SettingUp \cup IdentityKnown \cup Gone,
         id : 0..MaxProcs, coll : Defaults \cup {0}, grp : Groups,
         err : Errors]

\* The processes that cannot generate an identity any more.
Past == {p \in Procs : proc[p].pc \notin {"off", "ref", "key", "ring"}}

\* A process past that point has an identity, and the reference it found or
\* wrote outlives it: it never finds the reference missing.
Identified(p) ==
    /\ proc[p].pc \in IdentityKnown => ref # "none"
    /\ proc[p].pc \notin {"ref", "key", "ring"} \cup Gone => proc[p].id # 0
    /\ proc[p].pc = "insert" => proc[p].coll # 0

\* A process generates at most one identity.
Generated ==
    /\ fresh <= Cardinality(Past)
    /\ key.state = "full" => key.id # 0
    /\ \A p \in Procs : Identified(p)

TypeInv == TypeOK /\ Generated

----------------------------------------------------------------------------
(* Type correctness                                                        *)

\* A step of one process that does not turn back to the identity's first
\* steps leaves room for the identities generated so far.
LEMMA PastGrows ==
    ASSUME TypeOK, NEW p \in Procs, NEW r \in Proc,
           proc' = [proc EXCEPT ![p] = r],
           p \in Past => r.pc \notin {"off", "ref", "key", "ring"}
    PROVE  /\ proc' \in [Procs -> Proc]
           /\ Cardinality(Past) \in Nat /\ Cardinality(Past') \in Nat
           /\ Cardinality(Past) <= Cardinality(Past')
  <1>1. IsFiniteSet(Procs)
    BY SetupAssumption, FS_Interval DEF SetupAssumption, Procs
  <1>2. proc \in [Procs -> Proc]
    BY DEF TypeOK, Proc
  <1>3. proc' \in [Procs -> Proc]
    BY <1>2
  <1>4. Past \subseteq Past' /\ Past' \subseteq Procs
    BY <1>2 DEF Past
  <1>5. IsFiniteSet(Past')
    BY <1>1, <1>4, FS_Subset
  <1> QED BY <1>3, <1>4, <1>5, FS_Subset, FS_CardinalityType

\* A process that generates an identity was not past that point, and all the
\* processes together are MaxProcs.
LEMMA GenerateFits ==
    ASSUME TypeOK, NEW p \in Procs, NEW step \in SettingUp \ {"ref", "key", "ring"},
           proc[p].pc = "ring", Know(p, fresh + 1, step)
    PROVE  /\ Cardinality(Past) \in Nat
           /\ Cardinality(Past') = Cardinality(Past) + 1
           /\ Cardinality(Past') <= MaxProcs
  <1>1. IsFiniteSet(Procs) /\ Cardinality(Procs) = MaxProcs
    BY SetupAssumption, FS_Interval DEF SetupAssumption, Procs
  <1>2. proc \in [Procs -> Proc]
    BY DEF TypeOK, Proc
  <1>3. \A q \in Procs : proc'[q].pc = IF q = p THEN step ELSE proc[q].pc
    BY <1>2 DEF Know, Proc
  <1>4. p \notin Past /\ Past' = Past \cup {p} /\ Past' \subseteq Procs
    BY <1>3 DEF Past, SettingUp
  <1>5. IsFiniteSet(Past)
    BY <1>1, <1>4, FS_Subset
  <1> QED BY <1>1, <1>4, <1>5, FS_AddElement, FS_Subset, FS_CardinalityType

\* What a step of process p shows in order to keep the types: it replaces p's
\* record alone, does not turn back, and leaves the reference where it was
\* found.
Advances(p) ==
    /\ proc'[p] \in Proc
    /\ proc' = [proc EXCEPT ![p] = proc'[p]]
    /\ p \in Past => proc'[p].pc \notin {"off", "ref", "key", "ring"}
    /\ Identified(p)'
    /\ ref # "none" => ref' # "none"
    /\ key'.state = "full" => key'.id # 0

\* Such a step that generates no identity keeps the count.
LEMMA AdvanceKeeps ==
    ASSUME TypeInv, NEW p \in Procs, Advances(p), fresh' = fresh
    PROVE  proc' \in [Procs -> Proc] /\ Generated'
  <1>1. /\ proc' \in [Procs -> Proc]
        /\ Cardinality(Past) \in Nat /\ Cardinality(Past') \in Nat
        /\ Cardinality(Past) <= Cardinality(Past')
    BY PastGrows DEF TypeInv, Advances
  <1>2. proc \in [Procs -> Proc] /\ fresh \in Nat
    BY SetupAssumption DEF TypeInv, TypeOK, Proc, SetupAssumption
  <1>3. \A q \in Procs : Identified(q)'
    BY <1>2 DEF TypeInv, Generated, Advances, Identified
  <1> QED BY <1>1, <1>2, <1>3 DEF TypeInv, Generated, Advances

\* The steps that read or write no file and no row: the type of `proc` and of
\* `lock` is what they may disturb.
LEMMA MoveKeeps ==
    ASSUME TypeInv, NEW p \in Procs, Advances(p), lock' \in {0, lock},
           UNCHANGED <<idVars, dbVars, sock>>, crossed' \in BOOLEAN
    PROVE  TypeInv'
  <1>1. proc' \in [Procs -> Proc] /\ Generated'
    BY AdvanceKeeps DEF idVars
  <1> QED BY <1>1 DEF TypeInv, TypeOK, idVars, dbVars, Proc

\* No process has started.
LEMMA InitType == Init => TypeInv
  <1> SUFFICES ASSUME Init PROVE TypeInv
    OBVIOUS
  <1> USE SetupAssumption DEF SetupAssumption
  <1>1. NoProc \in Proc /\ NoProc.pc = "off"
    BY DEF NoProc, Proc, Gone, Errors, Groups
  <1>2. proc \in [Procs -> Proc] /\ \A p \in Procs : proc[p].pc = "off"
    BY <1>1 DEF Init
  <1>3. TypeOK
    <2>1. key \in [state : {"none", "empty", "full"}, id : 0..MaxProcs]
      BY DEF Init, NoKey
    <2>2. schema \in BOOLEAN /\ crossed \in BOOLEAN
      BY DEF Init
    <2>3. /\ lock \in {0} \cup Procs /\ ref \in {"none", "empty", "file", "keyring"}
          /\ ring \in 0..MaxProcs /\ groups \subseteq Groups
          /\ members \subseteq 1..MaxProcs /\ attached \subseteq Defaults
          /\ sock \in 0..(MaxProcs + 1) /\ fresh \in 0..MaxProcs
      BY DEF Init
    <2> QED BY <1>2, <2>1, <2>2, <2>3 DEF TypeOK, Proc
  <1>4. Past = {}
    BY <1>2 DEF Past
  <1>5. Generated
    BY <1>2, <1>4, FS_EmptySet DEF Init, NoKey, Generated, Identified, IdentityKnown, Gone
  <1> QED BY <1>3, <1>5 DEF TypeInv

\* The start of a process.
LEMMA StartType ==
    ASSUME TypeInv, NEW p \in Procs, NEW c \in Commands, Start(p, c)
    PROVE  TypeInv'
  <1> USE SetupAssumption DEF SetupAssumption
  <1>1. proc[p] \in Proc /\ proc \in [Procs -> Proc] /\ proc[p].pc = "off"
    BY DEF TypeInv, TypeOK, Start, NoProc, Proc
  <1>2. Advances(p)
    BY <1>1 DEF Start, Advances, Identified, Past, Proc, SettingUp, IdentityKnown, Gone,
       Errors, idVars, TypeInv, Generated
  <1>3. proc' \in [Procs -> Proc] /\ Generated'
    BY <1>2, AdvanceKeeps DEF Start, idVars
  <1>4. lock' \in {0} \cup Procs
    BY DEF Start, TypeInv, TypeOK
  <1>5. crossed' \in BOOLEAN
    BY Zenon DEF Start, Crosses, TypeInv, TypeOK
  <1> QED BY <1>3, <1>4, <1>5 DEF Start, TypeInv, TypeOK, idVars, dbVars, Proc

\* The steps of load_or_create.
LEMMA IdentityType ==
    ASSUME TypeInv, NEW p \in Procs, IdentityStep(p)
    PROVE  TypeInv'
  <1> USE SetupAssumption DEF SetupAssumption
  <1>1. /\ proc \in [Procs -> Proc] /\ proc[p] \in Proc
        /\ Identified(p) /\ (key.state = "full" => key.id # 0)
        /\ proc[p].pc \notin {"off", "ref", "key", "ring"} <=> p \in Past
    BY DEF TypeInv, TypeOK, Proc, Generated, Past
  <1>2. /\ Stored \in 0..MaxProcs /\ ref \in {"none", "empty", "file", "keyring"}
        /\ key.id \in 0..MaxProcs /\ ring \in 0..MaxProcs
    BY DEF TypeInv, TypeOK, Stored
  <1>3. CASE ReadReference(p)
    <2>1. Advances(p) /\ lock' \in {0, lock}
      BY <1>1, <1>2, <1>3 DEF ReadReference, Advances, Identified, Goto, Know, Fails, End,
         AfterIdentity, Proc, SettingUp, IdentityKnown, Gone, Errors, idVars
    <2> QED BY <1>3, <2>1, MoveKeeps DEF ReadReference, TypeInv, TypeOK
  <1>4. CASE ReadKeyFile(p)
    <2>1. Advances(p) /\ lock' \in {0, lock}
      BY <1>1, <1>2, <1>4 DEF ReadKeyFile, Advances, Identified, Goto, Know, Fails, End,
         Proc, SettingUp, IdentityKnown, Gone, Errors, idVars
    <2> QED BY <1>4, <2>1, MoveKeeps DEF ReadKeyFile, TypeInv, TypeOK
  <1>5. CASE ReadKeyring(p)
    <2>1. CASE Know(p, ring, "create_keyring_ref") /\ UNCHANGED fresh
      <3>1. Advances(p)
        BY <1>1, <1>2, <1>5, <2>1 DEF ReadKeyring, Advances, Identified, Know, Proc, SettingUp,
           IdentityKnown, Gone
      <3> QED BY <1>5, <2>1, <3>1, MoveKeeps DEF ReadKeyring, TypeInv, TypeOK, idVars
    <2>2. ASSUME NEW step \in {"set_secret", "create_key"},
                 Know(p, fresh + 1, step), fresh' = fresh + 1
          PROVE  TypeInv'
      <3>1. /\ Cardinality(Past) \in Nat /\ Cardinality(Past') = Cardinality(Past) + 1
            /\ Cardinality(Past') <= MaxProcs
        BY <1>5, <2>2, GenerateFits DEF ReadKeyring, TypeInv, SettingUp
      <3>2. fresh' \in 0..MaxProcs /\ fresh' <= Cardinality(Past')
        BY <2>2, <3>1 DEF TypeInv, TypeOK, Generated
      <3>3. proc'[p] \in Proc /\ proc' = [proc EXCEPT ![p] = proc'[p]] /\ proc'[p].pc = step
        BY <1>1, <2>2, <3>2 DEF Know, Proc, SettingUp
      <3>4. proc' \in [Procs -> Proc]
        BY <1>1, <3>3
      <3>5. \A q \in Procs : Identified(q)'
        BY <1>1, <1>5, <2>2, <3>2, <3>3 DEF ReadKeyring, Know, TypeInv, TypeOK, Generated,
           Identified, IdentityKnown
      <3> QED BY <1>5, <3>2, <3>4, <3>5 DEF ReadKeyring, TypeInv, TypeOK, Generated, Proc, dbVars
    <2> QED BY <1>5, <2>1, <2>2 DEF ReadKeyring
  <1>6. CASE SetSecret(p)
    <2>1. Advances(p) /\ fresh' = fresh /\ ring' \in 0..MaxProcs
      BY <1>1, <1>2, <1>6 DEF SetSecret, Fallback, Advances, Identified, Goto, Proc, SettingUp,
         IdentityKnown, Gone
    <2>2. proc' \in [Procs -> Proc] /\ Generated'
      BY <2>1, AdvanceKeeps
    <2> QED BY <1>6, <2>1, <2>2 DEF SetSecret, TypeInv, TypeOK, Proc, dbVars
  <1>7. CASE CreateKey(p)
    <2>1. Advances(p) /\ fresh' = fresh /\ lock' \in {0, lock}
      BY <1>1, <1>2, <1>7 DEF CreateKey, Advances, Identified, Goto, Fails, End, Proc, SettingUp,
         IdentityKnown, Gone, Errors
    <2>2. proc' \in [Procs -> Proc] /\ Generated'
      BY <2>1, AdvanceKeeps
    <2>3. key' \in [state : {"none", "empty", "full"}, id : 0..MaxProcs]
      BY <1>7 DEF CreateKey, TypeInv, TypeOK
    <2> QED BY <1>7, <2>1, <2>2, <2>3 DEF CreateKey, TypeInv, TypeOK, Proc, dbVars
  <1>8. CASE WriteKey(p)
    <2>1. Advances(p) /\ fresh' = fresh
      BY <1>1, <1>2, <1>8 DEF WriteKey, Advances, Identified, Goto, Proc, SettingUp, IdentityKnown,
         Gone
    <2>2. proc' \in [Procs -> Proc] /\ Generated'
      BY <2>1, AdvanceKeeps
    <2>3. key' \in [state : {"none", "empty", "full"}, id : 0..MaxProcs]
      BY <1>1, <1>8 DEF WriteKey, Proc
    <2> QED BY <1>8, <2>2, <2>3 DEF WriteKey, TypeInv, TypeOK, Proc, dbVars
  <1>9. CASE CreateReference(p)
    <2>1. Advances(p) /\ fresh' = fresh /\ lock' \in {0, lock}
      BY <1>1, <1>2, <1>9 DEF CreateReference, Advances, Identified, Goto, Fails, End, Proc,
         SettingUp, IdentityKnown, Gone, Errors
    <2>2. proc' \in [Procs -> Proc] /\ Generated'
      BY <2>1, AdvanceKeeps
    <2> QED BY <1>9, <2>1, <2>2 DEF CreateReference, TypeInv, TypeOK, Proc, dbVars
  <1>10. CASE WriteReference(p)
    <2>1. Advances(p) /\ fresh' = fresh
      BY <1>1, <1>2, <1>10 DEF WriteReference, Backend, AfterIdentity, Advances, Identified, Goto,
         Proc, SettingUp, IdentityKnown, Gone
    <2>2. proc' \in [Procs -> Proc] /\ Generated'
      BY <2>1, AdvanceKeeps
    <2> QED BY <1>10, <2>2 DEF WriteReference, Backend, TypeInv, TypeOK, Proc, dbVars
  <1> QED
    BY <1>3, <1>4, <1>5, <1>6, <1>7, <1>8, <1>9, <1>10 DEF IdentityStep

\* The steps of the database.
LEMMA DatabaseType ==
    ASSUME TypeInv, NEW p \in Procs, DatabaseStep(p)
    PROVE  TypeInv'
  <1> USE SetupAssumption DEF SetupAssumption
  <1>1. /\ proc \in [Procs -> Proc] /\ proc[p] \in Proc
        /\ Identified(p) /\ (key.state = "full" => key.id # 0)
    BY DEF TypeInv, TypeOK, Proc, Generated
  <1>2. CASE OpenDatabase(p)
    <2>1. Advances(p)
      BY <1>1, <1>2 DEF OpenDatabase, Advances, Identified, Goto, Proc, SettingUp, IdentityKnown,
         Gone, idVars
    <2> QED BY <1>2, <2>1, MoveKeeps DEF OpenDatabase, TypeInv, TypeOK
  <1>3. CASE Migrate(p)
    <2>1. Advances(p) /\ lock' \in {0, lock}
      BY <1>1, <1>3 DEF Migrate, Advances, Identified, Goto, Fails, End, Proc, SettingUp,
         IdentityKnown, Gone, Errors, idVars
    <2>2. proc' \in [Procs -> Proc] /\ Generated'
      BY <1>3, <2>1, AdvanceKeeps DEF Migrate, idVars
    <2> QED BY <1>3, <2>1, <2>2 DEF Migrate, TypeInv, TypeOK, Proc, idVars
  <1>4. CASE ReadChain(p)
    <2>1. Advances(p) /\ lock' \in {0, lock}
      BY <1>1, <1>4 DEF ReadChain, Advances, Identified, Goto, Fails, End, Proc, SettingUp,
         IdentityKnown, Gone, Errors, idVars
    <2> QED BY <1>4, <2>1, MoveKeeps DEF ReadChain, TypeInv, TypeOK
  <1>5. CASE AttachNext(p)
    <2>1. Advances(p) /\ lock' \in {0, lock}
      BY <1>1, <1>5 DEF AttachNext, Missing, Advances, Identified, Goto, End, Proc, SettingUp,
         IdentityKnown, Gone, Errors, idVars
    <2> QED BY <1>5, <2>1, MoveKeeps DEF AttachNext, TypeInv, TypeOK
  <1>6. CASE AddDefault(p)
    <2>1. Advances(p) /\ lock' \in {0, lock}
      BY <1>1, <1>6 DEF AddDefault, Advances, Identified, Goto, Fails, End, Proc, SettingUp,
         IdentityKnown, Gone, Errors, idVars
    <2>2. proc' \in [Procs -> Proc] /\ Generated'
      BY <1>6, <2>1, AdvanceKeeps DEF AddDefault, idVars
    <2>3. proc[p].coll \in Defaults
      BY <1>1, <1>6 DEF AddDefault, Identified, Proc
    <2> QED BY <1>6, <2>1, <2>2, <2>3 DEF AddDefault, TypeInv, TypeOK, Proc, idVars
  <1>7. CASE InsertGenesis(p)
    <2>1. Advances(p) /\ lock' \in {0, lock}
      BY <1>1, <1>7 DEF InsertGenesis, Advances, Identified, Goto, Fails, End, Proc, SettingUp,
         IdentityKnown, Gone, Errors, idVars
    <2>2. proc' \in [Procs -> Proc] /\ Generated'
      BY <1>7, <2>1, AdvanceKeeps DEF InsertGenesis, idVars
    <2>3. proc[p].id \in 1..MaxProcs
      BY <1>1, <1>7 DEF InsertGenesis, Identified, Proc, Gone
    <2>4. members' \subseteq 1..MaxProcs /\ groups' \subseteq Groups
      BY <1>7, <2>3 DEF InsertGenesis, TypeInv, TypeOK, Groups
    <2> QED BY <1>7, <2>1, <2>2, <2>4 DEF InsertGenesis, TypeInv, TypeOK, Proc, idVars
  <1> QED
    BY <1>2, <1>3, <1>4, <1>5, <1>6, <1>7 DEF DatabaseStep

\* The steps of the daemon and of the join, and the end of a process.
LEMMA CommandType ==
    ASSUME TypeInv, NEW p \in Procs, CommandStep(p) \/ Crash(p)
    PROVE  TypeInv'
  <1> USE SetupAssumption DEF SetupAssumption
  <1>1. /\ proc \in [Procs -> Proc] /\ proc[p] \in Proc
        /\ Identified(p) /\ (key.state = "full" => key.id # 0)
    BY DEF TypeInv, TypeOK, Proc, Generated
  <1>2. CASE CheckSocket(p)
    <2>1. Advances(p) /\ lock' \in {0, lock}
      BY <1>1, <1>2 DEF CheckSocket, Guard, Advances, Identified, Goto, Fails, End, Proc,
         SettingUp, IdentityKnown, Gone, Errors, idVars
    <2> QED BY <1>2, <2>1, MoveKeeps DEF CheckSocket, TypeInv, TypeOK
  <1>3. CASE Approval(p)
    <2>1. Advances(p) /\ lock' \in {0, lock}
      BY <1>1, <1>3 DEF Approval, Advances, Identified, Goto, Fails, End, Proc,
         SettingUp, IdentityKnown, Gone, Errors, idVars
    <2>2. crossed' \in BOOLEAN
      BY <1>3, Zenon DEF Approval, Crosses, TypeInv, TypeOK
    <2> QED BY <1>3, <2>1, <2>2, MoveKeeps DEF Approval
  <1>4. CASE CheckJoined(p)
    <2>1. Advances(p) /\ lock' \in {0, lock}
      BY <1>1, <1>4 DEF CheckJoined, Advances, Identified, Goto, Fails, End, Proc,
         SettingUp, IdentityKnown, Gone, Errors, idVars
    <2> QED BY <1>4, <2>1, MoveKeeps DEF CheckJoined, TypeInv, TypeOK
  <1>5. CASE BindSocket(p)
    <2>1. Advances(p)
      BY <1>1, <1>5 DEF BindSocket, Advances, Identified, Goto, Proc,
         SettingUp, IdentityKnown, Gone, idVars
    <2>2. proc' \in [Procs -> Proc] /\ Generated'
      BY <1>5, <2>1, AdvanceKeeps DEF BindSocket, idVars
    <2> QED BY <1>5, <2>2 DEF BindSocket, TypeInv, TypeOK, Proc, Procs, idVars, dbVars
  <1>6. CASE StopDaemon(p)
    <2>1. Advances(p) /\ lock' \in {0, lock}
      BY <1>1, <1>6 DEF StopDaemon, Advances, Identified, End, Proc,
         SettingUp, IdentityKnown, Gone, Errors, idVars
    <2>2. proc' \in [Procs -> Proc] /\ Generated'
      BY <1>6, <2>1, AdvanceKeeps DEF StopDaemon, idVars
    <2> QED BY <1>6, <2>1, <2>2 DEF StopDaemon, TypeInv, TypeOK, Proc, idVars, dbVars
  <1>7. CASE InstallJoined(p)
    <2>1. Advances(p) /\ lock' \in {0, lock}
      BY <1>1, <1>7 DEF InstallJoined, Advances, Identified, End, Proc,
         SettingUp, IdentityKnown, Gone, Errors, idVars
    <2>2. proc' \in [Procs -> Proc] /\ Generated'
      BY <1>7, <2>1, AdvanceKeeps DEF InstallJoined, idVars
    <2>3. proc[p].id \in 1..MaxProcs
      BY <1>1, <1>7 DEF InstallJoined, Identified, Proc, Gone
    <2> QED BY <1>7, <2>1, <2>2, <2>3 DEF InstallJoined, TypeInv, TypeOK, Proc, idVars
  <1>8. CASE Crash(p)
    <2>1. /\ proc' = [proc EXCEPT ![p] = proc'[p]] /\ proc'[p].pc = "failed"
          /\ proc'[p] \in Proc
      BY <1>1, <1>8 DEF Crash, End, Proc, Gone, Errors
    <2>2. Advances(p) /\ lock' \in {0, lock}
      BY <1>1, <1>8, <2>1 DEF Crash, Advances, Identified, End, IdentityKnown, Gone, idVars
    <2>3. proc' \in [Procs -> Proc] /\ Generated'
      BY <1>8, <2>2, AdvanceKeeps DEF Crash, idVars
    <2> QED BY <1>8, <2>2, <2>3 DEF Crash, TypeInv, TypeOK, Proc, idVars, dbVars
  <1> QED
    BY <1>2, <1>3, <1>4, <1>5, <1>6, <1>7, <1>8 DEF CommandStep

\* Every step keeps the types and the count of identities.
LEMMA NextType == TypeInv /\ [Next]_vars => TypeInv'
  <1> SUFFICES ASSUME TypeInv, [Next]_vars PROVE TypeInv'
    OBVIOUS
  <1>1. CASE Next
    BY <1>1, StartType, IdentityType, DatabaseType, CommandType DEF Next
  <1>2. CASE UNCHANGED vars
    BY <1>2 DEF vars, idVars, dbVars, TypeInv, TypeOK, Generated, Identified, Past
  <1> QED BY <1>1, <1>2

\* TypeOK holds of every behaviour: the variables keep their shapes, and the
\* MaxProcs processes generate at most MaxProcs identities, since none takes
\* load_or_create's creating path twice.
THEOREM TypeCorrect == Spec => []TypeOK
  <1>1. Spec => []TypeInv
    BY InitType, NextType, PTL DEF Spec
  <1>2. TypeInv => TypeOK
    BY DEF TypeInv
  <1> QED BY <1>1, <1>2, PTL

----------------------------------------------------------------------------
(* The socket                                                              *)

\* What the process lock gives the socket: the daemon and the join that run
\* hold it, and only a daemon comes to the socket.
Holds(p) ==
    /\ proc[p].cmd \in {"daemon", "join"} /\ Running(p) => lock = p
    /\ proc[p].pc \in {"socket", "bind", "serving"} => proc[p].cmd = "daemon"
    /\ proc[p].pc = "serving" => sock = p

LockInv == \A p \in Procs : Holds(p)

\* A step of p that leaves the socket alone, and that gives up the lock only
\* when p ends.
Keeps(p) ==
    /\ proc' = [proc EXCEPT ![p] = proc'[p]]
    /\ proc'[p].cmd = proc[p].cmd
    /\ Running(p)
    /\ proc'[p].pc \in {"socket", "bind"} => proc[p].cmd = "daemon"
    /\ proc'[p].pc # "serving"
    /\ \/ lock' = lock
       \/ proc'[p].pc \in Gone /\ lock' = IF lock = p THEN 0 ELSE lock
    /\ sock' = sock

\* Such a step disturbs neither p's own hold nor that of another process.
LEMMA KeepsLock ==
    ASSUME TypeOK, LockInv, NEW p \in Procs, Keeps(p)
    PROVE  LockInv'
  <1>1. proc \in [Procs -> Proc]
    BY DEF TypeOK, Proc
  <1>2. Holds(p)'
    BY <1>1 DEF LockInv, Holds, Keeps, Running
  <1>3. ASSUME NEW q \in Procs \ {p} PROVE Holds(q)'
    BY <1>1, <1>3 DEF LockInv, Holds, Keeps, Running
  <1> QED BY <1>2, <1>3 DEF LockInv

\* Every step but four keeps the lock and the socket in this way.
LEMMA StepKeeps ==
    ASSUME TypeOK, LockInv, NEW p \in Procs,
           \/ IdentityStep(p) \/ DatabaseStep(p) \/ CheckSocket(p)
           \/ Approval(p) \/ CheckJoined(p) \/ InstallJoined(p)
    PROVE  Keeps(p)
  <1>1. proc \in [Procs -> Proc] /\ proc[p] \in Proc
    BY DEF TypeOK, Proc
  <1> USE <1>1 DEF Keeps, Running, Gone, Goto, Know, Fails, End, Proc
  <1>2. CASE ReadReference(p)
    BY <1>2 DEF ReadReference, AfterIdentity
  <1>3. CASE ReadKeyFile(p)
    BY <1>3 DEF ReadKeyFile
  <1>4. CASE ReadKeyring(p)
    BY <1>4 DEF ReadKeyring
  <1>5. CASE SetSecret(p)
    BY <1>5 DEF SetSecret, Fallback
  <1>6. CASE CreateKey(p)
    BY <1>6 DEF CreateKey
  <1>7. CASE WriteKey(p)
    BY <1>7 DEF WriteKey
  <1>8. CASE CreateReference(p)
    BY <1>8 DEF CreateReference
  <1>9. CASE WriteReference(p)
    BY <1>9 DEF WriteReference, AfterIdentity
  <1>10. CASE OpenDatabase(p)
    BY <1>10 DEF OpenDatabase
  <1>11. CASE Migrate(p)
    BY <1>11 DEF Migrate
  <1>12. CASE ReadChain(p)
    BY <1>12 DEF ReadChain
  <1>13. CASE InsertGenesis(p)
    BY <1>13 DEF InsertGenesis
  <1>14. CASE AttachNext(p)
    BY <1>14 DEF AttachNext
  <1>15. CASE AddDefault(p)
    BY <1>15 DEF AddDefault
  <1>16. CASE CheckSocket(p)
    BY <1>16 DEF CheckSocket, Guard, LockInv, Holds
  <1>17. CASE Approval(p)
    BY <1>17 DEF Approval
  <1>18. CASE CheckJoined(p)
    BY <1>18 DEF CheckJoined
  <1>19. CASE InstallJoined(p)
    BY <1>19 DEF InstallJoined
  <1> QED
    BY <1>2, <1>3, <1>4, <1>5, <1>6, <1>7, <1>8, <1>9, <1>10, <1>11, <1>12, <1>13, <1>14,
       <1>15, <1>16, <1>17, <1>18, <1>19 DEF IdentityStep, DatabaseStep

\* The other four: a daemon or join starts when nobody holds the lock, and
\* whoever binds or removes the socket holds it.
LEMMA NextLock == TypeInv /\ LockInv /\ [Next]_vars => LockInv'
  <1> SUFFICES ASSUME TypeInv, LockInv, [Next]_vars PROVE LockInv'
    OBVIOUS
  <1>1. proc \in [Procs -> Proc] /\ TypeOK /\ 0 \notin Procs
    BY SetupAssumption DEF TypeInv, TypeOK, Proc, SetupAssumption, Procs
  <1>2. ASSUME NEW p \in Procs, NEW c \in Commands, Start(p, c) PROVE LockInv'
    <2>1. Holds(p)'
      BY <1>1, <1>2 DEF Start, LockInv, Holds, Running, Gone, Proc
    <2>2. ASSUME NEW q \in Procs \ {p} PROVE Holds(q)'
      BY <1>1, <1>2 DEF Start, LockInv, Holds, Running, acquire
    <2> QED BY <2>1, <2>2 DEF LockInv
  <1>3. ASSUME NEW p \in Procs, BindSocket(p) \/ StopDaemon(p) \/ Crash(p) PROVE LockInv'
    <2>1. Holds(p)'
      BY <1>1, <1>3 DEF BindSocket, StopDaemon, Crash, Goto, End, LockInv, Holds, Running,
         Gone, Proc
    <2>2. ASSUME NEW q \in Procs \ {p} PROVE Holds(q)'
      BY <1>1, <1>3 DEF BindSocket, StopDaemon, Crash, Goto, End, LockInv, Holds, Running,
         Gone, Proc
    <2> QED BY <2>1, <2>2 DEF LockInv
  <1>4. CASE UNCHANGED vars
    BY <1>4 DEF vars, LockInv, Holds, Running
  <1> QED
    BY <1>1, <1>2, <1>3, <1>4, KeepsLock, StepKeeps DEF Next, CommandStep

\* SocketIsServed holds of every behaviour: the check of the socket and its
\* removal are separate steps, but both are taken under the process lock.
THEOREM SocketServed == Spec => []SocketIsServed
  <1>1. Init => LockInv
    BY DEF Init, LockInv, Holds, Running, NoProc, Gone
  <1>2. Spec => [](TypeInv /\ LockInv)
    BY <1>1, InitType, NextType, NextLock, PTL DEF Spec
  <1>3. LockInv => SocketIsServed
    BY DEF LockInv, Holds, SocketIsServed
  <1> QED BY <1>2, <1>3, PTL

----------------------------------------------------------------------------
(* Identity and group, when the processes set up one after the other       *)

\* No two processes are between their reading and their writing.
Sole ==
    \A p, q \in Procs :
        proc[p].pc \in SettingUp /\ proc[q].pc \in SettingUp => p = q

\* identity.ref leads to an identity; the group, if any, is one and names it.
Stores ==
    /\ ref = "keyring" => ring # 0
    /\ ref = "file" => key.state = "full"
    /\ groups = {} \/ \E g \in Groups : groups = {g}
    /\ groups # {} => Stored \in members

\* What p has read about the identity's files still holds.
FoundIdentity(p) ==
    /\ proc[p].pc = "key" => ref = "none"
    /\ proc[p].pc \in {"ring", "set_secret", "create_key"} => ref = "none" /\ key.state = "none"
    /\ proc[p].pc = "write_key" => ref = "none" /\ key.state = "empty"
    /\ proc[p].pc = "create_file_ref" =>
           ref = "none" /\ key.state = "full" /\ key.id = proc[p].id
    /\ proc[p].pc = "create_keyring_ref" =>
           ref = "none" /\ key.state = "none" /\ ring = proc[p].id
    /\ proc[p].pc = "write_file_ref" =>
           ref = "empty" /\ key.state = "full" /\ key.id = proc[p].id
    /\ proc[p].pc = "write_keyring_ref" => ref = "empty" /\ ring = proc[p].id
    /\ proc[p].pc \in IdentityKnown => proc[p].id = Stored

\* What p has read in the database still holds.
FoundRows(p) ==
    /\ proc[p].pc = "migrate" => ~schema
    /\ proc[p].pc = "genesis" => groups = {}
    /\ proc[p].pc = "insert" => proc[p].coll \notin attached
    /\ proc[p].pc = "install" => groups \subseteq {proc[p].grp}

\* An identity file was left empty, and no process is about to fill it.
Torn ==
    \/ /\ ref = "empty"
       /\ \A q \in Procs : proc[q].pc \notin {"write_file_ref", "write_keyring_ref"}
    \/ /\ ref = "none" /\ key.state = "empty"
       /\ \A q \in Procs : proc[q].pc # "write_key"

\* What the processes that failed say.
Failed(p) ==
    /\ proc[p].err = "identity" => Torn
    /\ proc[p].err \notin {"exists", "database", "roster", "removed"}

Sequential ==
    /\ Sole
    /\ Stores
    /\ \A p \in Procs : FoundIdentity(p) /\ FoundRows(p) /\ Failed(p)

SetupInv == ~crossed => Sequential

\* One group is at most one genesis.
LEMMA AtMostOne == Stores => Cardinality(groups) \in {0, 1}
  <1>1. /\ Cardinality({}) = 0
        /\ \A g \in Groups : Cardinality({g}) = 1
    BY FS_EmptySet, FS_Singleton
  <1> QED BY <1>1 DEF Stores

\* A process that is setting up is the only one, so that its step may write:
\* the others only rely on the stored identity.
LEMMA WriterKeeps ==
    ASSUME TypeInv, Sequential, NEW p \in Procs,
           proc' = [proc EXCEPT ![p] = proc'[p]],
           proc[p].pc \in SettingUp,
           Stored' = Stored \/ Stored = 0,
           Stores', FoundIdentity(p)', FoundRows(p)', Failed(p)',
           Torn => Torn'
    PROVE  Sequential'
  <1>1. proc \in [Procs -> Proc]
    BY DEF TypeInv, TypeOK, Proc
  <1>2. ASSUME NEW q \in Procs \ {p}
        PROVE  /\ proc'[q] = proc[q] /\ proc[q].pc \notin SettingUp
               /\ FoundIdentity(q)' /\ FoundRows(q)' /\ Failed(q)'
    <2>1. proc'[q] = proc[q] /\ proc[q].pc \notin SettingUp
      BY <1>1 DEF Sequential, Sole
    <2>2. proc[q].pc \in IdentityKnown => proc[q].id = Stored /\ Stored # 0
      BY DEF Sequential, FoundIdentity, TypeInv, Generated, Identified, IdentityKnown, Gone
    <2>3. FoundIdentity(q)'
      BY <2>1, <2>2 DEF FoundIdentity, SettingUp
    <2>4. FoundRows(q)'
      BY <2>1 DEF FoundRows, SettingUp
    <2>5. Failed(q)'
      BY <2>1 DEF Sequential, Failed
    <2> QED BY <2>1, <2>3, <2>4, <2>5
  <1>3. Sole'
    BY <1>2 DEF Sole
  <1> QED BY <1>2, <1>3 DEF Sequential

\* A process that touches no file and no row keeps what the others found, and
\* is the only one to set up if it starts to.
LEMMA QuietKeeps ==
    ASSUME TypeInv, Sequential, NEW p \in Procs,
           proc' = [proc EXCEPT ![p] = proc'[p]],
           proc'[p].pc \in SettingUp =>
               \A q \in Procs \ {p} : proc[q].pc \notin SettingUp,
           proc'[p].pc \notin {"write_key", "write_file_ref", "write_keyring_ref"},
           UNCHANGED <<idVars, dbVars>>,
           FoundIdentity(p)', FoundRows(p)', proc'[p].err = "identity" => Torn,
           proc'[p].err \notin {"exists", "database", "roster", "removed"}
    PROVE  Sequential'
  <1>1. proc \in [Procs -> Proc]
    BY DEF TypeInv, TypeOK, Proc
  <1>2. \A q \in Procs \ {p} : proc'[q] = proc[q]
    BY <1>1
  <1>3. Sole'
    BY <1>2 DEF Sequential, Sole
  <1>4. Stored' = Stored /\ Stores'
    BY DEF Sequential, Stores, Stored, idVars, dbVars
  <1>5. Torn => Torn'
    BY <1>2 DEF Torn, idVars
  <1>6. ASSUME NEW q \in Procs \ {p} PROVE FoundIdentity(q)' /\ FoundRows(q)' /\ Failed(q)'
    <2>1. FoundIdentity(q)'
      BY <1>2, <1>4 DEF Sequential, FoundIdentity, idVars
    <2>2. FoundRows(q)'
      BY <1>2 DEF Sequential, FoundRows, dbVars
    <2>3. Failed(q)'
      BY <1>2, <1>5 DEF Sequential, Failed
    <2> QED BY <2>1, <2>2, <2>3
  <1> QED BY <1>3, <1>4, <1>5, <1>6 DEF Sequential, Failed

\* A process that starts to set up without crossing another is alone.
LEMMA CrossesNobody ==
    ASSUME NEW p \in Procs, Crosses(p), ~crossed'
    PROVE  \A q \in Procs \ {p} : proc[q].pc \notin SettingUp
  BY Zenon DEF Crosses

\* Once two processes crossed, the history says so.
LEMMA CrossedStays ==
    ASSUME NEW p \in Procs, Crosses(p), ~crossed'
    PROVE  ~crossed
  BY Zenon DEF Crosses

\* The start of a process, when no other is setting up.
LEMMA StartSequential ==
    ASSUME TypeInv, Sequential, NEW p \in Procs, NEW c \in Commands, Start(p, c), ~crossed'
    PROVE  Sequential'
  <1>1. proc \in [Procs -> Proc] /\ proc[p] \in Proc
    BY DEF TypeInv, TypeOK, Proc
  <1>2. /\ proc' = [proc EXCEPT ![p] = proc'[p]]
        /\ proc'[p].pc \in {"failed", "ref"} /\ proc'[p].err \in {"busy", "none"}
        /\ UNCHANGED <<idVars, dbVars>>
    BY <1>1 DEF Start, NoProc, Proc
  <1>3. proc'[p].pc = "ref" => \A q \in Procs \ {p} : proc[q].pc \notin SettingUp
    <2>1. proc'[p].pc = "ref" => Crosses(p)
      BY <1>1 DEF Start, Proc
    <2> QED BY <2>1, CrossesNobody
  <1>4. FoundIdentity(p)' /\ FoundRows(p)'
    BY <1>2 DEF FoundIdentity, FoundRows, IdentityKnown
  <1> QED BY <1>2, <1>3, <1>4, QuietKeeps DEF SettingUp

\* The steps of load_or_create, of a process that is setting up.
LEMMA IdentitySequential ==
    ASSUME TypeInv, Sequential, NEW p \in Procs, IdentityStep(p)
    PROVE  Sequential'
  <1>1. proc \in [Procs -> Proc] /\ proc[p] \in Proc
    BY DEF TypeInv, TypeOK, Proc
  <1>2. /\ Stores /\ Sole /\ FoundIdentity(p) /\ FoundRows(p) /\ Failed(p) /\ Identified(p)
        /\ (key.state = "full" => key.id # 0)
    BY DEF Sequential, TypeInv, Generated
  <1>3. CASE ReadReference(p)
    <2>1. CASE proc[p].pc = "ref"
      <3>1. /\ proc' = [proc EXCEPT ![p] = proc'[p]] /\ UNCHANGED <<idVars, dbVars>>
            /\ \/ proc'[p].pc = "key" /\ ref = "none" /\ proc'[p].err = proc[p].err
               \/ /\ proc'[p].pc \in {"db", "done"} /\ proc'[p].id = Stored
                  /\ proc'[p].err = proc[p].err
               \/ /\ proc'[p].pc = "failed"
                  /\ \/ proc'[p].err = "identity" /\ Stored = 0 /\ ref # "none"
                     \/ proc'[p].err = "keyring"
        BY <1>1, <1>3, <2>1 DEF ReadReference, Goto, Know, Fails, End, AfterIdentity, Proc
      <3>2. \A q \in Procs \ {p} : proc[q].pc \notin SettingUp
        BY <1>2, <2>1 DEF Sole, SettingUp
      <3>3. Stored = 0 /\ ref # "none" => ref = "empty"
        BY <1>2 DEF Stores, Stored, TypeInv, TypeOK
      <3>4. proc'[p].err = "identity" => Torn
        BY <1>2, <2>1, <3>1, <3>2, <3>3 DEF Torn, Failed, SettingUp
      <3>5. FoundIdentity(p)' /\ FoundRows(p)'
        BY <3>1 DEF FoundIdentity, FoundRows, IdentityKnown, Stored, idVars
      <3> QED BY <1>2, <3>1, <3>2, <3>4, <3>5, QuietKeeps DEF Failed
    <2>2. CASE proc[p].pc = "reload"
      <3>1. proc[p].id = Stored /\ Stored # 0 /\ ref # "none"
        BY <1>2, <2>2 DEF FoundIdentity, Identified, IdentityKnown, Gone
      <3>2. /\ proc' = [proc EXCEPT ![p] = proc'[p]] /\ UNCHANGED <<idVars, dbVars>>
            /\ \/ /\ proc'[p].pc \in {"socket", "approval"} /\ proc'[p].id = Stored
                  /\ proc'[p].err = proc[p].err
               \/ proc'[p].pc = "failed" /\ proc'[p].err = "keyring"
        BY <1>1, <1>3, <2>2, <3>1 DEF ReadReference, Goto, Know, Fails, End, Proc
      <3>3. FoundIdentity(p)' /\ FoundRows(p)'
        BY <3>2 DEF FoundIdentity, FoundRows, IdentityKnown, Stored, idVars
      <3> QED BY <1>2, <3>2, <3>3, QuietKeeps DEF Failed, SettingUp
    <2> QED BY <1>3, <2>1, <2>2 DEF ReadReference
  <1>4. CASE ReadKeyFile(p)
    <2>1. /\ proc' = [proc EXCEPT ![p] = proc'[p]] /\ UNCHANGED <<idVars, dbVars>>
          /\ \/ /\ proc'[p].pc = "ring" /\ key.state = "none"
                /\ proc'[p].err = proc[p].err
             \/ /\ proc'[p].pc = "create_file_ref" /\ proc'[p].id = key.id
                /\ key.state = "full" /\ proc'[p].err = proc[p].err
             \/ /\ proc'[p].pc = "failed" /\ key.state = "empty"
                /\ proc'[p].err = "identity"
      BY <1>1, <1>4 DEF ReadKeyFile, Goto, Know, Fails, End, Proc, TypeInv, TypeOK
    <2>2. ref = "none" /\ \A q \in Procs \ {p} : proc[q].pc \notin SettingUp
      BY <1>2, <1>4 DEF ReadKeyFile, Sole, FoundIdentity, SettingUp
    <2>3. proc'[p].err = "identity" => Torn
      BY <1>2, <1>4, <2>1, <2>2 DEF ReadKeyFile, Torn, Failed, SettingUp
    <2>4. FoundIdentity(p)' /\ FoundRows(p)'
      BY <2>1, <2>2 DEF FoundIdentity, FoundRows, IdentityKnown, idVars
    <2> QED BY <1>2, <2>1, <2>2, <2>3, <2>4, QuietKeeps DEF Failed
  <1>5. CASE ReadKeyring(p)
    <2>1. /\ proc' = [proc EXCEPT ![p] = proc'[p]] /\ proc[p].pc = "ring"
          /\ UNCHANGED <<ref, key, ring, dbVars>> /\ proc'[p].err = proc[p].err
          /\ \/ proc'[p].pc = "create_keyring_ref" /\ proc'[p].id = ring
             \/ proc'[p].pc \in {"set_secret", "create_key"}
      BY <1>1, <1>5 DEF ReadKeyring, Know, Proc
    <2>2. FoundIdentity(p)' /\ FoundRows(p)'
      BY <1>2, <2>1 DEF FoundIdentity, FoundRows, IdentityKnown
    <2>3. Stored' = Stored /\ Stores'
      BY <1>2, <2>1 DEF Stores, Stored, dbVars
    <2>4. Torn => Torn'
      BY <1>1, <2>1 DEF Torn
    <2>5. Failed(p)'
      BY <1>2, <2>1, <2>4 DEF Failed
    <2> QED BY <2>1, <2>2, <2>3, <2>4, <2>5, WriterKeeps DEF SettingUp
  <1>6. CASE SetSecret(p)
    <2>1. /\ proc' = [proc EXCEPT ![p] = proc'[p]] /\ proc[p].pc = "set_secret"
          /\ UNCHANGED <<ref, key, dbVars>> /\ proc'[p].err = proc[p].err
          /\ \/ proc'[p].pc = "create_keyring_ref" /\ proc'[p].id = ring'
             \/ proc'[p].pc = "create_key" /\ ring' = ring
      BY <1>1, <1>6 DEF SetSecret, Fallback, Goto, Proc
    <2>2. ref = "none" /\ key.state = "none"
      BY <1>2, <2>1 DEF FoundIdentity
    <2>3. FoundIdentity(p)' /\ FoundRows(p)'
      BY <2>1, <2>2 DEF FoundIdentity, FoundRows, IdentityKnown
    <2>4. Stored' = 0 /\ Stored = 0 /\ Stores' /\ ~Torn
      BY <1>2, <2>1, <2>2 DEF Stores, Stored, Torn, dbVars
    <2>5. Failed(p)'
      BY <1>2, <2>1, <2>4 DEF Failed
    <2> QED BY <2>1, <2>3, <2>4, <2>5, WriterKeeps DEF SettingUp
  <1>7. CASE CreateKey(p)
    <2>1. ref = "none" /\ key.state = "none"
      BY <1>2, <1>7 DEF CreateKey, FoundIdentity
    <2>2. /\ proc' = [proc EXCEPT ![p] = proc'[p]] /\ proc[p].pc = "create_key"
          /\ UNCHANGED <<ref, ring, dbVars>> /\ proc'[p].err = proc[p].err
          /\ proc'[p].pc = "write_key" /\ key'.state = "empty"
      BY <1>1, <1>7, <2>1 DEF CreateKey, Goto, Proc
    <2>3. FoundIdentity(p)' /\ FoundRows(p)'
      BY <2>1, <2>2 DEF FoundIdentity, FoundRows, IdentityKnown
    <2>4. Stored' = 0 /\ Stored = 0 /\ Stores' /\ ~Torn
      BY <1>2, <2>1, <2>2 DEF Stores, Stored, Torn, dbVars
    <2>5. Failed(p)'
      BY <1>2, <2>2, <2>4 DEF Failed
    <2> QED BY <2>2, <2>3, <2>4, <2>5, WriterKeeps DEF SettingUp
  <1>8. CASE WriteKey(p)
    <2>1. ref = "none" /\ key.state = "empty"
      BY <1>2, <1>8 DEF WriteKey, FoundIdentity
    <2>2. /\ proc' = [proc EXCEPT ![p] = proc'[p]] /\ proc[p].pc = "write_key"
          /\ UNCHANGED <<ref, ring, dbVars>> /\ proc'[p].err = proc[p].err
          /\ proc'[p].pc = "create_file_ref" /\ key'.state = "full"
          /\ key'.id = proc'[p].id
      BY <1>1, <1>8 DEF WriteKey, Goto, Proc
    <2>3. FoundIdentity(p)' /\ FoundRows(p)'
      BY <2>1, <2>2 DEF FoundIdentity, FoundRows, IdentityKnown
    <2>4. Stored' = 0 /\ Stored = 0 /\ Stores' /\ ~Torn
      BY <1>2, <2>1, <2>2 DEF Stores, Stored, Torn, dbVars
    <2>5. Failed(p)'
      BY <1>2, <2>2, <2>4 DEF Failed
    <2> QED BY <2>2, <2>3, <2>4, <2>5, WriterKeeps DEF SettingUp
  <1>9. CASE CreateReference(p)
    <2>1. /\ ref = "none" /\ key.state # "empty"
          /\ proc[p].pc = "create_file_ref" => key.state = "full" /\ key.id = proc[p].id
          /\ proc[p].pc = "create_keyring_ref" => ring = proc[p].id
      BY <1>2, <1>9 DEF CreateReference, FoundIdentity
    <2>2. /\ proc' = [proc EXCEPT ![p] = proc'[p]]
          /\ UNCHANGED <<key, ring, dbVars>> /\ ref' = "empty"
          /\ proc'[p].err = proc[p].err /\ proc'[p].id = proc[p].id
          /\ \/ proc[p].pc = "create_file_ref" /\ proc'[p].pc = "write_file_ref"
             \/ proc[p].pc = "create_keyring_ref" /\ proc'[p].pc = "write_keyring_ref"
      BY <1>1, <1>9, <2>1 DEF CreateReference, Goto, Proc
    <2>3. FoundIdentity(p)' /\ FoundRows(p)'
      BY <2>1, <2>2 DEF FoundIdentity, FoundRows, IdentityKnown
    <2>4. Stored' = 0 /\ Stored = 0 /\ Stores' /\ ~Torn
      BY <1>2, <2>1, <2>2 DEF Stores, Stored, Torn, dbVars
    <2>5. Failed(p)'
      BY <1>2, <2>2, <2>4 DEF Failed
    <2> QED BY <2>2, <2>3, <2>4, <2>5, WriterKeeps DEF SettingUp
  <1>10. CASE WriteReference(p)
    <2>1. /\ ref = "empty"
          /\ proc[p].pc = "write_file_ref" => key.state = "full" /\ key.id = proc[p].id
          /\ proc[p].pc = "write_keyring_ref" => ring = proc[p].id
          /\ proc[p].id # 0
      BY <1>2, <1>10 DEF WriteReference, FoundIdentity, Identified, Gone
    <2>2. /\ proc' = [proc EXCEPT ![p] = proc'[p]]
          /\ UNCHANGED <<key, ring, dbVars>>
          /\ proc'[p].err = proc[p].err /\ proc'[p].id = proc[p].id
          /\ proc'[p].pc \in {"db", "done"}
          /\ \/ proc[p].pc = "write_file_ref" /\ ref' = "file"
             \/ proc[p].pc = "write_keyring_ref" /\ ref' = "keyring"
      BY <1>1, <1>10, <2>1 DEF WriteReference, Backend, AfterIdentity, Goto, Proc
    <2>3. Stored = 0 /\ Stored' = proc[p].id
      BY <2>1, <2>2 DEF Stored
    <2>4. groups = {}
      BY <1>2, <2>3 DEF Stores, TypeInv, TypeOK
    <2>5. FoundIdentity(p)' /\ FoundRows(p)'
      BY <2>2, <2>3 DEF FoundIdentity, FoundRows, IdentityKnown
    <2>6. Stores' /\ ~Torn
      BY <2>1, <2>2, <2>4 DEF Stores, Torn, dbVars
    <2>7. Failed(p)'
      BY <1>2, <2>2, <2>6 DEF Failed
    <2> QED BY <2>2, <2>3, <2>5, <2>6, <2>7, WriterKeeps DEF SettingUp
  <1> QED
    BY <1>3, <1>4, <1>5, <1>6, <1>7, <1>8, <1>9, <1>10 DEF IdentityStep

\* The steps of the database: one process at a time, none of them finds what
\* it is about to add.
LEMMA DatabaseSequential ==
    ASSUME TypeInv, Sequential, NEW p \in Procs, DatabaseStep(p)
    PROVE  Sequential'
  <1>1. proc \in [Procs -> Proc] /\ proc[p] \in Proc
    BY DEF TypeInv, TypeOK, Proc
  <1>2. /\ Stores /\ FoundIdentity(p) /\ FoundRows(p) /\ Failed(p)
    BY DEF Sequential
  <1>3. /\ proc[p].pc \in {"db", "migrate", "chain", "genesis", "attach", "insert"}
        /\ UNCHANGED idVars
    BY DEF DatabaseStep, OpenDatabase, Migrate, ReadChain, InsertGenesis, AttachNext,
       AddDefault
  <1>4. Stored' = Stored /\ proc[p].id = Stored
    BY <1>2, <1>3 DEF FoundIdentity, IdentityKnown, Stored, idVars
  <1>5. /\ proc' = [proc EXCEPT ![p] = proc'[p]] /\ proc'[p].id = proc[p].id
        /\ \/ proc'[p].err = proc[p].err
           \/ proc'[p].pc = "done" /\ proc'[p].err = "none"
        /\ proc'[p].pc \in {"migrate", "chain", "genesis", "attach", "insert", "reload", "done"}
        /\ FoundRows(p)' /\ Stores'
    <2>1. CASE OpenDatabase(p)
      BY <1>1, <1>2, <1>4, <2>1 DEF OpenDatabase, Goto, Proc, FoundRows, Stores, idVars, dbVars
    <2>2. CASE Migrate(p)
      BY <1>1, <1>2, <1>4, <2>2 DEF Migrate, Goto, Proc, FoundRows, Stores, idVars
    <2>3. CASE ReadChain(p)
      <3>1. ~(Cardinality(groups) > 1)
        BY <1>2, AtMostOne
      <3>2. groups # {} => proc[p].id \in members
        BY <1>2, <1>4 DEF Stores
      <3>3. UNCHANGED dbVars /\ ((Goto(p, "genesis") /\ groups = {}) \/ Goto(p, "attach"))
        BY <2>3, <3>1, <3>2 DEF ReadChain
      <3> QED
        BY <1>1, <1>2, <1>3, <1>4, <3>3 DEF Goto, Proc, FoundRows, Stores, idVars, dbVars
    <2>4. CASE InsertGenesis(p)
      <3>1. /\ groups = {} /\ groups' = {"own"} /\ members' = {proc[p].id}
            /\ Goto(p, "attach") /\ UNCHANGED <<idVars, schema, attached>>
        BY <1>2, <2>4 DEF InsertGenesis, FoundRows
      <3>2. \E g \in Groups : groups' = {g}
        BY <3>1 DEF Groups
      <3> QED
        BY <1>1, <1>2, <1>4, <3>1, <3>2 DEF Goto, Proc, FoundRows, Stores, idVars
    <2>5. CASE AttachNext(p)
      BY <1>1, <1>2, <1>4, <2>5 DEF AttachNext, Missing, Goto, End, Proc, FoundRows, Stores,
         idVars, dbVars
    <2>6. CASE AddDefault(p)
      BY <1>1, <1>2, <1>4, <2>6 DEF AddDefault, Proc, FoundRows, Stores, idVars
    <2> QED BY <2>1, <2>2, <2>3, <2>4, <2>5, <2>6 DEF DatabaseStep
  <1>6. FoundIdentity(p)'
    BY <1>4, <1>5 DEF FoundIdentity, IdentityKnown
  <1>7. Torn => Torn'
    BY <1>1, <1>3, <1>5 DEF Torn, idVars
  <1>8. Failed(p)'
    BY <1>2, <1>5, <1>7 DEF Failed
  <1> QED BY <1>3, <1>4, <1>5, <1>6, <1>7, <1>8, WriterKeeps DEF SettingUp

\* The steps of the daemon and of the join, and the end of a process.
LEMMA CommandSequential ==
    ASSUME TypeInv, Sequential, NEW p \in Procs, CommandStep(p) \/ Crash(p), ~crossed'
    PROVE  Sequential'
  <1>1. proc \in [Procs -> Proc] /\ proc[p] \in Proc
    BY DEF TypeInv, TypeOK, Proc
  <1>2. Stores /\ Sole /\ FoundIdentity(p) /\ FoundRows(p) /\ Failed(p)
    BY DEF Sequential
  <1>3. CASE CheckSocket(p) \/ BindSocket(p) \/ StopDaemon(p) \/ Crash(p)
    <2>1. /\ proc' = [proc EXCEPT ![p] = proc'[p]] /\ proc'[p].id = proc[p].id
          /\ UNCHANGED <<idVars, dbVars>>
          /\ \/ /\ proc'[p].pc \in {"bind", "serving"} /\ proc'[p].err = proc[p].err
                /\ proc[p].pc \in IdentityKnown
             \/ /\ proc'[p].pc \in {"done", "failed"}
                /\ proc'[p].err \in {"running", "none", "crash"}
      BY <1>1, <1>3 DEF CheckSocket, BindSocket, StopDaemon, Crash, Goto, Fails, End, Proc,
         IdentityKnown
    <2>2. FoundIdentity(p)' /\ FoundRows(p)'
      BY <1>2, <2>1 DEF FoundIdentity, FoundRows, IdentityKnown, Stored, idVars
    <2> QED BY <1>2, <2>1, <2>2, QuietKeeps DEF Failed, SettingUp
  <1>4. CASE Approval(p)
    <2>1. /\ proc' = [proc EXCEPT ![p] = proc'[p]] /\ proc'[p].id = proc[p].id
          /\ UNCHANGED <<idVars, dbVars>> /\ proc[p].pc = "approval"
          /\ \/ proc'[p].pc = "check" /\ proc'[p].err = proc[p].err
             \/ proc'[p].pc = "failed" /\ proc'[p].err = "rejected"
      BY <1>1, <1>4 DEF Approval, Goto, Fails, End, Proc
    <2>2. \A q \in Procs \ {p} : proc[q].pc \notin SettingUp
      BY <1>4, CrossesNobody DEF Approval
    <2>3. FoundIdentity(p)' /\ FoundRows(p)'
      BY <1>2, <2>1 DEF FoundIdentity, FoundRows, IdentityKnown, Stored, idVars
    <2> QED BY <1>2, <2>1, <2>2, <2>3, QuietKeeps DEF Failed
  <1>5. CASE CheckJoined(p)
    <2>1. /\ proc' = [proc EXCEPT ![p] = proc'[p]] /\ proc'[p].id = proc[p].id
          /\ UNCHANGED <<idVars, dbVars>> /\ proc[p].pc = "check"
          /\ \/ /\ proc'[p].pc = "install" /\ groups \subseteq {proc'[p].grp}
                /\ proc'[p].err = proc[p].err
             \/ proc'[p].pc = "failed" /\ proc'[p].err = "group"
      BY <1>1, <1>5 DEF CheckJoined, CanJoin, Goto, Fails, End, Proc
    <2>2. \A q \in Procs \ {p} : proc[q].pc \notin SettingUp
      BY <1>2, <2>1 DEF Sole, SettingUp
    <2>3. FoundIdentity(p)' /\ FoundRows(p)'
      BY <1>2, <2>1 DEF FoundIdentity, FoundRows, IdentityKnown, Stored, idVars, dbVars
    <2> QED BY <1>2, <2>1, <2>2, <2>3, QuietKeeps DEF Failed
  <1>6. CASE InstallJoined(p)
    <2>1. /\ proc' = [proc EXCEPT ![p] = proc'[p]] /\ proc[p].pc = "install"
          /\ UNCHANGED idVars /\ proc'[p].pc = "done" /\ proc'[p].err = "none"
          /\ groups' = groups \cup {proc[p].grp} /\ members' = members \cup {proc[p].id}
      BY <1>1, <1>6 DEF InstallJoined, End, Proc
    <2>2. proc[p].id = Stored /\ groups' = {proc[p].grp}
      BY <1>2, <2>1 DEF FoundIdentity, FoundRows, IdentityKnown
    <2>3. FoundIdentity(p)' /\ FoundRows(p)' /\ Failed(p)'
      BY <2>1 DEF FoundIdentity, FoundRows, Failed, IdentityKnown
    <2>4. Stored' = Stored
      BY <2>1 DEF Stored, idVars
    <2>5. Stores'
      <3>1. \E g \in Groups : groups' = {g}
        BY <1>1, <2>2 DEF Proc
      <3> QED BY <1>2, <2>1, <2>2, <2>4, <3>1 DEF Stores, idVars
    <2>6. Torn => Torn'
      BY <1>1, <2>1 DEF Torn, idVars
    <2> QED BY <2>1, <2>3, <2>4, <2>5, <2>6, WriterKeeps DEF SettingUp
  <1> QED BY <1>3, <1>4, <1>5, <1>6 DEF CommandStep

\* Every step keeps the processes in sequence until two of them cross.
LEMMA NextSequential == TypeInv /\ SetupInv /\ [Next]_vars => SetupInv'
  <1> SUFFICES ASSUME TypeInv, SetupInv, [Next]_vars, ~crossed' PROVE Sequential'
    BY DEF SetupInv
  <1>1. ASSUME NEW p \in Procs, NEW c \in Commands, Start(p, c) PROVE Sequential'
    BY <1>1, CrossedStays, StartSequential DEF SetupInv, Start
  <1>2. ASSUME NEW p \in Procs, IdentityStep(p) PROVE Sequential'
    <2>1. crossed' = crossed
      BY <1>2 DEF IdentityStep, ReadReference, ReadKeyFile, ReadKeyring, SetSecret, CreateKey,
         WriteKey, CreateReference, WriteReference
    <2> QED BY <1>2, <2>1, IdentitySequential DEF SetupInv
  <1>3. ASSUME NEW p \in Procs, DatabaseStep(p) PROVE Sequential'
    <2>1. crossed' = crossed
      BY <1>3 DEF DatabaseStep, OpenDatabase, Migrate, ReadChain, InsertGenesis, AttachNext,
         AddDefault
    <2> QED BY <1>3, <2>1, DatabaseSequential DEF SetupInv
  <1>4. ASSUME NEW p \in Procs, CommandStep(p) \/ Crash(p) PROVE Sequential'
    <2>1. crossed' = crossed \/ Crosses(p)
      BY <1>4 DEF CommandStep, CheckSocket, BindSocket, StopDaemon, Approval, CheckJoined,
         InstallJoined, Crash
    <2> QED BY <1>4, <2>1, CrossedStays, CommandSequential DEF SetupInv
  <1>5. CASE UNCHANGED vars
    <2>1. Sequential
      BY <1>5 DEF SetupInv, vars
    <2> QED
      BY <1>5, <2>1 DEF vars, idVars, dbVars, Sequential, Sole, Stores, Stored, FoundIdentity,
         FoundRows, Failed, Torn
  <1> QED BY <1>1, <1>2, <1>3, <1>4, <1>5 DEF Next

\* SetupInv holds of every behaviour, and it is inductive with the types.
LEMMA SequentialSetup == Spec => [](TypeInv /\ SetupInv)
  <1>1. Init => SetupInv
    <2> SUFFICES ASSUME Init PROVE Sequential
      BY DEF SetupInv
    <2>1. \A p \in Procs : proc[p] = NoProc
      BY DEF Init
    <2>2. Sole
      BY <2>1 DEF Sole, NoProc, SettingUp
    <2>3. Stores
      BY DEF Init, Stores, Stored
    <2>4. \A p \in Procs : FoundIdentity(p) /\ FoundRows(p) /\ Failed(p)
      BY <2>1 DEF FoundIdentity, FoundRows, Failed, NoProc, IdentityKnown
    <2> QED BY <2>2, <2>3, <2>4 DEF Sequential
  <1> QED BY <1>1, InitType, NextType, NextSequential, PTL DEF Spec

\* PersistentIdentity holds of every behaviour: whatever crashes come between
\* the keyring, identity.key, identity.ref and the database, the processes
\* that go on and the group agree on the identity that load_or_create stored.
THEOREM IdentityPersists == Spec => []PersistentIdentity
  <1>1. TypeInv /\ SetupInv => PersistentIdentity
    BY DEF SetupInv, Sequential, Stores, FoundIdentity, PersistentIdentity
  <1> QED BY <1>1, SequentialSetup, PTL

\* OneGroup holds of every behaviour: the check of install_joined_state_inner
\* still holds when its transaction runs, since no setup can come between the
\* two without crossing it.
THEOREM OneGroupOnly == Spec => []OneGroup
  <1>1. TypeInv /\ SetupInv => OneGroup
    BY AtMostOne DEF SetupInv, Sequential, OneGroup
  <1> QED BY <1>1, SequentialSetup, PTL

\* OnlyTornFilesBlock holds of every behaviour: no command fails because of
\* what an earlier one left, except for an identity file that was created and
\* never written.
THEOREM OnlyTornBlock == Spec => []OnlyTornFilesBlock
  <1>1. TypeInv /\ SetupInv => OnlyTornFilesBlock
    BY DEF SetupInv, Sequential, Failed, Torn, OnlyTornFilesBlock
  <1> QED BY <1>1, SequentialSetup, PTL
=============================================================================
