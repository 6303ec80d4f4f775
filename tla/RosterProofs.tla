---------------------------- MODULE RosterProofs ----------------------------
(***************************************************************************)
(* What a device stores is always a tree of valid revisions, for any group *)
(* and any commands, sessions, joins and crashes.                          *)
(***************************************************************************)
EXTENDS Roster, FiniteSetTheorems, WellFoundedInduction, TLAPS

-----------------------------------------------------------------------------
(* Revisions *)

\* What StoredSound says of one device's table, and of a roster being sent.
Sound(S) ==
    /\ S # {} => Base \in S
    /\ \A r \in S \ {Base} : \E p \in S : ValidChild(r, p)

LEMMA BaseType == Base \in Revision
  BY RosterAssumption DEF Base, Revision

LEMMA LastType ==
  ASSUME NEW S, NEW s \in Seq(S), s # <<>>
  PROVE  s[Len(s)] \in S
<1>1. Len(s) \in 1 .. Len(s)
  OBVIOUS
<1> QED
  BY <1>1

LEMMA OwnType ==
  ASSUME NEW r \in Revision, r.path # <<>>
  PROVE  Own(r) \in [author : Devices, change : Changes] /\ Own(r).change \in Changes
<1>1. r.path \in Seq([author : Devices, change : Changes])
  BY DEF Revision
<1>2. r.path[Len(r.path)] \in [author : Devices, change : Changes]
  BY <1>1, LastType
<1> QED
  BY <1>2 DEF Own, Last

\* RosterRevision::child makes a revision that validate_child accepts.
LEMMA ChildValid ==
  ASSUME NEW p \in Revision, NEW change \in Changes, NEW author \in p.members,
         ~Satisfied(p, change)
  PROVE  /\ Child(p, change, author) \in Revision
         /\ ValidChild(Child(p, change, author), p)
<1> DEFINE c == Child(p, change, author)
           own == [author |-> author, change |-> change]
           Step == [author : Devices, change : Changes]
<1>1. /\ p.path \in Seq(Step) /\ p.members \subseteq Devices /\ author \in Devices
  BY DEF Revision
<1>2. own \in Step
  BY <1>1
<1>3. /\ c.path = Append(p.path, own)
      /\ c.members \subseteq Devices
  BY <1>1 DEF Child, apply_change, Changes, Admission, Removal
<1>4. c \in Revision
  BY <1>1, <1>2, <1>3 DEF Child, apply_change, Revision, Changes, Admission, Removal
<1>5. /\ Len(c.path) = Len(p.path) + 1
      /\ c.path # <<>>
      /\ Last(c.path) = own
  BY <1>1, <1>2, <1>3 DEF Last
<1>6. Front(c.path) = p.path
  BY <1>1, <1>2, <1>3, <1>5 DEF Front
<1> QED
  BY <1>4, <1>5, <1>6 DEF ValidChild, Own

\* A chain holds the parent of each of its revisions.
LEMMA PrefixOfParent ==
  ASSUME NEW r \in Revision, NEW q \in Revision, NEW p \in Revision,
         IsChild(r, p), IsPrefix(q.path, p.path)
  PROVE  IsPrefix(q.path, r.path)
<1> DEFINE Step == [author : Devices, change : Changes]
<1>1. r.path \in Seq(Step) /\ q.path \in Seq(Step) /\ p.path \in Seq(Step)
  BY DEF Revision
<1>2. p.path = SubSeq(r.path, 1, Len(r.path) - 1) /\ r.path # <<>>
  BY DEF IsChild, Front
<1>3. Len(p.path) = Len(r.path) - 1
  BY <1>1, <1>2
<1>4. Len(q.path) <= Len(r.path)
  BY <1>1, <1>3 DEF IsPrefix
<1>5. SubSeq(p.path, 1, Len(q.path)) = SubSeq(r.path, 1, Len(q.path))
  <2>1. Len(q.path) <= Len(p.path)
    BY DEF IsPrefix
  <2>2. \A i \in 1 .. Len(q.path) : p.path[i] = r.path[i]
    BY <1>1, <1>2, <1>3, <2>1
  <2> QED
    BY <1>1, <1>3, <1>4, <2>1, <2>2
<1> QED
  BY <1>4, <1>5 DEF IsPrefix

LEMMA ChainSound ==
  ASSUME NEW S \in SUBSET Revision, Sound(S)
  PROVE  Chain(S) \in SUBSET Revision /\ Sound(Chain(S))
<1>1. Chain(S) \subseteq S
  BY DEF Chain
<1>2. ASSUME S # {} PROVE Base \in Chain(S)
  <2>1. Base \in S
    BY <1>2 DEF Sound
  <2>2. ASSUME NEW q \in S, IsPrefix(q.path, Base.path) PROVE q.path = <<>>
    BY <2>2 DEF IsPrefix, Base, Revision
  <2> QED
    BY <2>1, <2>2 DEF Chain, Siblings
<1>3. ASSUME NEW r \in Chain(S) \ {Base}
      PROVE  \E p \in Chain(S) : ValidChild(r, p)
  <2>1. PICK p \in S : ValidChild(r, p)
    BY <1>1 DEF Sound
  <2>2. IsChild(r, p)
    BY <2>1 DEF ValidChild, IsChild
  <2>3. ASSUME NEW q \in S, IsPrefix(q.path, p.path) PROVE IsPrefix(q.path, r.path)
    BY <1>1, <2>2, <2>3, PrefixOfParent
  <2>4. p \in Chain(S)
    BY <2>3 DEF Chain
  <2> QED
    BY <2>1, <2>4
<1> QED
  BY <1>1, <1>2, <1>3 DEF Sound

-----------------------------------------------------------------------------
(* The inductive invariant *)

MailSound == \A x \in Devices : Sound(mail[x])

\* What a thread's locals are good for: the revisions to replay have a change,
\* and the parent of the child being made is stored and accepts it.
ThreadInv(d, w) ==
    /\ work[d][w].pc \in {"replaying", "applying", "committing"} =>
          \A r \in work[d][w].queue : r.path # <<>>
    /\ work[d][w].pc = "committing" =>
          /\ work[d][w].parent \in stored[d]
          /\ ~Satisfied(work[d][w].parent, work[d][w].change)
          /\ d \in work[d][w].parent.members

DataType ==
    /\ stored \in [Devices -> SUBSET Revision]
    /\ work \in [Devices -> [Workers -> WorkerState]]
    /\ mail \in [Devices -> SUBSET Revision]

DataInv ==
    /\ DataType
    /\ StoredSound
    /\ MailSound
    /\ \A d \in Devices, w \in Workers : ThreadInv(d, w)

\* A command thread works on a request that was issued.
CommandInv(d) ==
    LET thread == work[d]["command"]
    IN  /\ thread.pc \in {"applying", "committing"} =>
              [device |-> d, change |-> thread.change] \in issued
        /\ thread.pc = "approved" =>
              [device |-> d, change |-> Admission(thread.joiner)] \in issued

RequestInv ==
    /\ issued \subseteq Requests
    /\ done \subseteq issued
    /\ faults \in 0 .. MaxFaults
    /\ \A d \in Devices : CommandInv(d)

Inv == DataInv /\ RequestInv

LEMMA StoredSoundEach == StoredSound <=> \A d \in Devices : Sound(stored[d])
  BY DEF StoredSound, Sound

\* Adding revisions whose parents are stored or added keeps a table sound.
LEMMA SoundUnion ==
  ASSUME NEW S, NEW T, Sound(S), Sound(T)
  PROVE  Sound(S \cup T)
  BY DEF Sound

LEMMA SoundInsert ==
  ASSUME NEW S, NEW r, NEW p \in S, Sound(S), ValidChild(r, p)
  PROVE  Sound(S \cup {r})
  BY DEF Sound

\* A thread's new locals, and nobody else's.
LEMMA BecomeEffect ==
  ASSUME work \in [Devices -> [Workers -> WorkerState]],
         NEW d \in Devices, NEW w \in Workers, NEW state \in WorkerState,
         Become(d, w, state)
  PROVE  /\ work' \in [Devices -> [Workers -> WorkerState]]
         /\ work'[d][w] = state
         /\ \A e \in Devices, v \in Workers : e # d \/ v # w => work'[e][v] = work[e][v]
  BY DEF Become

\* A step that only moves one thread on.
LEMMA ThreadMoves ==
  ASSUME DataInv, NEW d \in Devices, NEW w \in Workers, NEW state \in WorkerState,
         Become(d, w, state), UNCHANGED <<stored, mail>>,
         state.pc \in {"replaying", "applying", "committing"} =>
             \A r \in state.queue : r.path # <<>>,
         state.pc = "committing" =>
             /\ state.parent \in stored[d]
             /\ ~Satisfied(state.parent, state.change)
             /\ d \in state.parent.members
  PROVE  DataInv'
<1>1. DataType
  BY DEF DataInv
<1>2. /\ work' \in [Devices -> [Workers -> WorkerState]]
      /\ work'[d][w] = state
      /\ \A e \in Devices, v \in Workers : e # d \/ v # w => work'[e][v] = work[e][v]
  BY <1>1, BecomeEffect DEF DataType
<1>3. DataType'
  BY <1>1, <1>2 DEF DataType
<1>4. StoredSound' /\ MailSound'
  BY DEF DataInv, StoredSound, MailSound
<1>5. ASSUME NEW e \in Devices, NEW v \in Workers PROVE ThreadInv(e, v)'
  <2>1. CASE e = d /\ v = w
    BY <1>2, <2>1 DEF ThreadInv
  <2>2. CASE e # d \/ v # w
    BY <1>2, <2>2 DEF DataInv, ThreadInv
  <2> QED
    BY <2>1, <2>2
<1> QED
  BY <1>3, <1>4, <1>5 DEF DataInv

\* A step that inserts a valid child and leaves every thread where it is.
LEMMA TableGrows ==
  ASSUME DataInv, NEW d \in Devices, NEW R \in SUBSET Revision,
         Sound(stored[d] \cup R), Store(d, R)
  PROVE  /\ stored' \in [Devices -> SUBSET Revision]
         /\ StoredSound'
         /\ \A e \in Devices : stored[e] \subseteq stored'[e]
<1>1. stored \in [Devices -> SUBSET Revision]
  BY DEF DataInv, DataType
<1>2. /\ stored' \in [Devices -> SUBSET Revision]
      /\ stored'[d] = stored[d] \cup R
      /\ \A e \in Devices : e # d => stored'[e] = stored[e]
  BY <1>1 DEF Store
<1>3. ASSUME NEW e \in Devices PROVE Sound(stored'[e])
  BY <1>2, StoredSoundEach DEF DataInv
<1>4. StoredSound'
  BY <1>3 DEF StoredSound, Sound
<1> QED
  BY <1>2, <1>4

-----------------------------------------------------------------------------
(* The steps *)

LEMMA WorkersOf == /\ \A w \in Sessions : w \in Workers
                   /\ "command" \in Workers
  BY DEF Workers

LEMMA OnlineDevices == /\ \A d \in Online : d \in Devices
                       /\ \A d \in Online : \A e \in Peers(d) : e \in Devices
  BY Zenon, RosterAssumption DEF RosterAssumption, Peers

LEMMA TipsStored == ASSUME NEW S PROVE Tips(S) \subseteq S /\ Chain(S) \subseteq S
  BY DEF Tips, Chain

\* Each step of the session half keeps the data invariant.
LEMMA SessionData ==
  ASSUME DataInv, NEW d \in Devices, NEW w \in Workers,
         \/ \E e \in Devices : SessionOpens(d, w, e)
         \/ SessionStep(d, w)
         \/ SessionFails(d, w)
  PROVE  DataInv'
<1> DEFINE me == work[d][w]
<1>0. me \in WorkerState /\ ThreadInv(d, w) /\ Sound(stored[d])
      /\ stored \in [Devices -> SUBSET Revision]
  BY StoredSoundEach DEF DataInv, DataType
<1>1. ASSUME NEW e \in Devices, SessionOpens(d, w, e) PROVE DataInv'
  <2>1. [pc |-> "authorized", peer |-> e] \in WorkerState
    BY DEF WorkerState
  <2> QED
    BY <1>1, <2>1, ThreadMoves DEF SessionOpens
<1>2. CASE SessionReceives(d, w)
  <2>1. me.peer \in Devices
    BY <1>0, <1>2 DEF WorkerState, SessionReceives, At, Idle
  <2>2. Chain(stored[me.peer]) \in SUBSET Revision
    BY <1>0, <2>1, TipsStored
  <2>3. [pc |-> "received", inbox |-> Chain(stored[me.peer])] \in WorkerState
    BY <2>2 DEF WorkerState
  <2> QED
    BY <1>2, <2>3, ThreadMoves DEF SessionReceives
<1>3. CASE SessionReads(d, w)
  <2>1. me.inbox \in SUBSET Revision /\ Chain(stored[d]) \in SUBSET Revision
    BY <1>0, <1>3, TipsStored DEF WorkerState, SessionReads, At, Idle
  <2>2. [pc |-> "merging", inbox |-> me.inbox, previous |-> Chain(stored[d])]
           \in WorkerState
    BY <2>1 DEF WorkerState
  <2> QED
    BY <1>3, <2>2, ThreadMoves DEF SessionReads
<1>4. CASE SessionInserts(d, w)
  <2>1. PICK r \in me.inbox : /\ \E p \in stored[d] : ValidChild(r, p)
                              /\ Store(d, {r})
    BY <1>4 DEF SessionInserts
  <2>2. {r} \in SUBSET Revision
    BY <1>0, <1>4, <2>1 DEF WorkerState, SessionInserts, At, Idle
  <2>3. Sound(stored[d] \cup {r})
    BY <1>0, <2>1, SoundInsert
  <2>4. /\ stored' \in [Devices -> SUBSET Revision]
        /\ StoredSound'
        /\ \A e \in Devices : stored[e] \subseteq stored'[e]
    BY <2>1, <2>2, <2>3, TableGrows
  <2>5. work' = work /\ mail' = mail
    BY <1>4 DEF SessionInserts
  <2> QED
    BY <2>4, <2>5 DEF DataInv, DataType, MailSound, ThreadInv
<1>5. CASE SessionMerged(d, w)
  <2> DEFINE lost == {r \in me.previous \ Chain(stored[d]) :
                          r.path # <<>> /\ Own(r).author = d}
             state == [pc |-> "replaying", queue |-> lost]
  <2>1. lost \in SUBSET Revision
    BY <1>0, <1>5 DEF WorkerState, SessionMerged, At, Idle
  <2>2. state \in WorkerState /\ \A r \in state.queue : r.path # <<>>
    BY <2>1 DEF WorkerState
  <2>3. Become(d, w, state) /\ UNCHANGED <<stored, mail>>
    BY <1>5 DEF SessionMerged
  <2>4. state.pc # "committing"
    OBVIOUS
  <2> QED
    BY <2>2, <2>3, <2>4, ThreadMoves
<1>6. CASE SessionReplays(d, w)
  <2>1. me.queue \in SUBSET Revision /\ \A r \in me.queue : r.path # <<>>
    BY <1>0, <1>6 DEF WorkerState, SessionReplays, At, Idle, ThreadInv
  <2>2. CASE Become(d, w, Idle)
    BY <1>6, <2>2, ThreadMoves DEF SessionReplays, WorkerState, Idle
  <2>3. ASSUME NEW r \in me.queue,
               Become(d, w, [pc |-> "applying", change |-> Own(r).change,
                             tries |-> 0, queue |-> me.queue \ {r}])
        PROVE  DataInv'
    <3> DEFINE state == [pc |-> "applying", change |-> Own(r).change,
                         tries |-> 0, queue |-> me.queue \ {r}]
    <3>1. Own(r).change \in Changes
      BY <2>1, OwnType
    <3>2. state \in WorkerState /\ \A q \in state.queue : q.path # <<>>
      BY <2>1, <3>1 DEF WorkerState
    <3> QED
      BY <1>6, <2>3, <3>2, ThreadMoves DEF SessionReplays
  <2> QED
    BY <1>6, <2>2, <2>3 DEF SessionReplays
<1>7. CASE SessionFails(d, w)
  BY <1>7, ThreadMoves DEF SessionFails, WorkerState, Idle
<1> QED
  BY <1>1, <1>2, <1>3, <1>4, <1>5, <1>6, <1>7 DEF SessionStep

\* So does each turn of the apply loop.
LEMMA ApplyData ==
  ASSUME DataInv, NEW d \in Devices, NEW w \in Workers, ApplyStep(d, w)
  PROVE  DataInv'
<1> DEFINE me == work[d][w]
<1>0. me \in WorkerState /\ ThreadInv(d, w) /\ Sound(stored[d])
      /\ stored \in [Devices -> SUBSET Revision]
  BY StoredSoundEach DEF DataInv, DataType
<1>1. CASE ApplyDone(d, w)
  <2>1. /\ me.queue \in SUBSET Revision /\ \A r \in me.queue : r.path # <<>>
        /\ me.change \in Changes
    BY <1>0, <1>1 DEF WorkerState, ApplyDone, At, Idle, ThreadInv
  <2>2. me.change.member \in Devices
    BY <2>1 DEF Changes, Admission, Removal
  <2>3. UNCHANGED <<stored, mail>>
    BY <1>1 DEF ApplyDone
  <2>4. CASE Become(d, w, [pc |-> "replaying", queue |-> me.queue])
    <3> DEFINE state == [pc |-> "replaying", queue |-> me.queue]
    <3>1. state \in WorkerState /\ \A r \in state.queue : r.path # <<>>
      BY <2>1 DEF WorkerState
    <3>2. state.pc # "committing"
      OBVIOUS
    <3> QED
      BY <2>3, <2>4, <3>1, <3>2, ThreadMoves
  <2>5. CASE Become(d, w, [pc |-> "approved", joiner |-> me.change.member])
    <3>1. [pc |-> "approved", joiner |-> me.change.member] \in WorkerState
      BY <2>2 DEF WorkerState
    <3> QED
      BY <2>3, <2>5, <3>1, ThreadMoves
  <2>6. CASE Become(d, w, Idle)
    BY <2>3, <2>6, ThreadMoves DEF WorkerState, Idle
  <2> QED
    BY <1>1, <2>4, <2>5, <2>6 DEF ApplyDone
<1>2. CASE ApplyParent(d, w)
  <2>1. PICK t \in Tips(stored[d]) :
           /\ ~Satisfied(t, me.change)
           /\ d \in t.members
           /\ Become(d, w, [pc |-> "committing", change |-> me.change,
                            tries |-> me.tries, queue |-> me.queue, parent |-> t])
    BY <1>2 DEF ApplyParent
  <2> DEFINE state == [pc |-> "committing", change |-> me.change,
                       tries |-> me.tries, queue |-> me.queue, parent |-> t]
  <2>2. /\ me.queue \in SUBSET Revision /\ \A r \in me.queue : r.path # <<>>
        /\ me.change \in Changes /\ me.tries \in Nat
    BY <1>0, <1>2 DEF WorkerState, ApplyParent, At, Idle, ThreadInv
  <2>3. t \in stored[d] /\ t \in Revision
    BY <1>0, <2>1, TipsStored
  <2>4. /\ state \in WorkerState /\ \A r \in state.queue : r.path # <<>>
        /\ state.parent = t /\ state.change = me.change
    BY <2>2, <2>3 DEF WorkerState
  <2>5. UNCHANGED <<stored, mail>>
    BY <1>2 DEF ApplyParent
  <2> QED
    BY <2>1, <2>3, <2>4, <2>5, ThreadMoves
<1>3. CASE ApplyCommit(d, w)
  <2> DEFINE c == Child(me.parent, me.change, d)
             state == [pc |-> "applying", change |-> me.change,
                       tries |-> me.tries + 1, queue |-> me.queue]
  <2>1. /\ me.queue \in SUBSET Revision /\ \A r \in me.queue : r.path # <<>>
        /\ me.change \in Changes /\ me.tries \in Nat /\ me.parent \in Revision
        /\ me.parent \in stored[d] /\ ~Satisfied(me.parent, me.change)
        /\ d \in me.parent.members
    BY <1>0, <1>3 DEF WorkerState, ApplyCommit, At, Idle, ThreadInv
  <2>2. c \in Revision /\ ValidChild(c, me.parent)
    BY <2>1, ChildValid
  <2>3. Sound(stored[d] \cup {c})
    BY <1>0, <2>1, <2>2, SoundInsert
  <2>4. Store(d, {c}) /\ Become(d, w, state) /\ mail' = mail
    BY <1>3 DEF ApplyCommit
  <2>5. /\ stored' \in [Devices -> SUBSET Revision]
        /\ StoredSound'
        /\ \A e \in Devices : stored[e] \subseteq stored'[e]
    BY <2>2, <2>3, <2>4, TableGrows
  <2>6. /\ state \in WorkerState /\ \A r \in state.queue : r.path # <<>>
        /\ state.pc # "committing"
    BY <2>1 DEF WorkerState
  <2>7. /\ work' \in [Devices -> [Workers -> WorkerState]]
        /\ work'[d][w] = state
        /\ \A e \in Devices, v \in Workers : e # d \/ v # w => work'[e][v] = work[e][v]
    BY <2>4, <2>6, BecomeEffect DEF DataInv, DataType
  <2>8. ASSUME NEW e \in Devices, NEW v \in Workers PROVE ThreadInv(e, v)'
    <3>1. CASE e = d /\ v = w
      BY <2>6, <2>7, <3>1 DEF ThreadInv
    <3>2. CASE e # d \/ v # w
      BY <2>5, <2>7, <3>2 DEF DataInv, ThreadInv
    <3> QED
      BY <3>1, <3>2
  <2> QED
    BY <2>4, <2>5, <2>7, <2>8 DEF DataInv, DataType, MailSound
<1>4. CASE ApplyFails(d, w)
  BY <1>4, ThreadMoves DEF ApplyFails, WorkerState, Idle
<1> QED
  BY <1>1, <1>2, <1>3, <1>4 DEF ApplyStep

\* And each command, join and crash.
LEMMA CommandData ==
  ASSUME DataInv, NEW d \in Devices,
         \/ \E x \in Devices : RemovePeer(d, x) \/ ApproveJoin(d, x)
         \/ ApproveSends(d)
         \/ JoinInstalls(d)
         \/ JoinLost(d)
         \/ Crash(d)
  PROVE  DataInv'
<1>0. "command" \in Workers
  BY WorkersOf
<1>1. ASSUME NEW change \in Changes, Apply(d, change), UNCHANGED <<stored, mail>>
      PROVE  DataInv'
  <2> DEFINE state == [pc |-> "applying", change |-> change, tries |-> 0, queue |-> {}]
  <2>1. /\ state \in WorkerState /\ \A r \in state.queue : r.path # <<>>
        /\ state.pc # "committing"
    BY DEF WorkerState
  <2> QED
    BY <1>0, <1>1, <2>1, ThreadMoves DEF Apply
<1>2. ASSUME NEW x \in Devices, RemovePeer(d, x) PROVE DataInv'
  BY <1>1, <1>2 DEF RemovePeer, Changes
<1>3. ASSUME NEW x \in Devices, ApproveJoin(d, x) PROVE DataInv'
  <2>1. UNCHANGED <<stored, mail>>
    BY <1>3 DEF ApproveJoin
  <2>2. CASE Apply(d, Admission(x))
    BY <1>1, <2>1, <2>2 DEF Changes
  <2>3. CASE Become(d, "command", [pc |-> "approved", joiner |-> x])
    <3>1. [pc |-> "approved", joiner |-> x] \in WorkerState
      BY DEF WorkerState
    <3> QED
      BY <1>0, <2>1, <2>3, <3>1, ThreadMoves
  <2> QED
    BY <1>3, <2>2, <2>3 DEF ApproveJoin
<1>4. CASE ApproveSends(d)
  <2> DEFINE x == work[d]["command"].joiner
             chain == Chain(stored[d])
  <2>1. x \in Devices
    BY <1>0, <1>4 DEF DataInv, DataType, WorkerState, ApproveSends, At, Idle
  <2>2. chain \in SUBSET Revision /\ Sound(chain)
    BY ChainSound, StoredSoundEach DEF DataInv, DataType
  <2>3. mail' = [mail EXCEPT ![x] = chain] \/ mail' = mail
    BY <1>4 DEF ApproveSends
  <2>4. mail' \in [Devices -> SUBSET Revision] /\ MailSound'
    BY <2>1, <2>2, <2>3 DEF DataInv, DataType, MailSound
  <2>5. stored' = stored /\ Become(d, "command", Idle) /\ Idle \in WorkerState
    BY <1>4 DEF ApproveSends, WorkerState
  <2>6. /\ work' \in [Devices -> [Workers -> WorkerState]]
        /\ work'[d]["command"] = Idle
        /\ \A e \in Devices, v \in Workers :
               e # d \/ v # "command" => work'[e][v] = work[e][v]
    BY <1>0, <2>5, BecomeEffect DEF DataInv, DataType
  <2>7. ASSUME NEW e \in Devices, NEW v \in Workers PROVE ThreadInv(e, v)'
    <3>1. CASE e = d /\ v = "command"
      BY <2>6, <3>1 DEF ThreadInv, Idle
    <3>2. CASE e # d \/ v # "command"
      BY <2>5, <2>6, <3>2 DEF DataInv, ThreadInv
    <3> QED
      BY <3>1, <3>2
  <2> QED
    BY <2>4, <2>5, <2>6, <2>7 DEF DataInv, DataType, StoredSound
<1>5. CASE JoinInstalls(d)
  <2>1. mail' \in [Devices -> SUBSET Revision] /\ MailSound' /\ work' = work
    BY <1>5 DEF JoinInstalls, DataInv, DataType, MailSound, Sound
  <2>2. CASE Store(d, mail[d])
    <3>1. mail[d] \in SUBSET Revision /\ Sound(stored[d] \cup mail[d])
      BY SoundUnion, StoredSoundEach DEF DataInv, DataType, MailSound
    <3>2. /\ stored' \in [Devices -> SUBSET Revision]
          /\ StoredSound'
          /\ \A e \in Devices : stored[e] \subseteq stored'[e]
      BY <2>2, <3>1, TableGrows
    <3> QED
      BY <2>1, <3>2 DEF DataInv, DataType, ThreadInv
  <2>3. CASE stored' = stored
    BY <2>1, <2>3 DEF DataInv, DataType, ThreadInv, StoredSound
  <2> QED
    BY <1>5, <2>2, <2>3 DEF JoinInstalls
<1>6. CASE JoinLost(d)
  <2>1. mail' \in [Devices -> SUBSET Revision] /\ MailSound' /\ work' = work
        /\ stored' = stored
    BY <1>6 DEF JoinLost, DataInv, DataType, MailSound, Sound
  <2> QED
    BY <2>1 DEF DataInv, DataType, ThreadInv, StoredSound
<1>7. CASE Crash(d)
  <2>1. /\ stored' = stored /\ mail' = mail
        /\ work' = [work EXCEPT ![d] = [w \in Workers |-> Idle]]
    BY <1>7 DEF Crash
  <2>2. work' \in [Devices -> [Workers -> WorkerState]]
    BY <2>1 DEF DataInv, DataType, WorkerState
  <2>3. ASSUME NEW e \in Devices, NEW v \in Workers PROVE ThreadInv(e, v)'
    <3>1. work'[e][v] = Idle \/ work'[e][v] = work[e][v]
      BY <2>1 DEF DataInv, DataType
    <3> QED
      BY <2>1, <3>1 DEF DataInv, ThreadInv, Idle
  <2> QED
    BY <2>1, <2>2, <2>3 DEF DataInv, DataType, MailSound, StoredSound
<1> QED
  BY <1>2, <1>3, <1>4, <1>5, <1>6, <1>7

-----------------------------------------------------------------------------
(* Requests *)

\* Every step keeps the account of requests and faults.
LEMMA RequestSteps ==
  ASSUME DataInv, RequestInv, [Next]_vars
  PROVE  RequestInv'
<1> DEFINE command(d) == work[d]["command"]
<1>0. /\ work \in [Devices -> [Workers -> WorkerState]]
      /\ "command" \in Workers
      /\ "command" \notin Sessions
      /\ MaxFaults \in Nat
  BY WorkersOf, RosterAssumption DEF DataInv, DataType
<1>1. CASE UNCHANGED vars
  BY <1>1 DEF vars, RequestInv, CommandInv
<1>2. ASSUME \A e \in Devices : command(e)' = command(e),
             UNCHANGED <<issued, done>>, faults' \in 0 .. MaxFaults
      PROVE  RequestInv'
  BY <1>2 DEF RequestInv, CommandInv
<1>3. ASSUME NEW d \in Devices, NEW w \in Sessions, NEW state, Become(d, w, state)
      PROVE  \A e \in Devices : command(e)' = command(e)
  BY <1>0, <1>3, WorkersOf DEF Become
<1>4. ASSUME NEW d \in Devices, NEW state, Become(d, "command", state),
             issued \subseteq issued', issued' \subseteq Requests,
             done' \subseteq issued', faults' = faults,
             state.pc \in {"applying", "committing"} =>
                 [device |-> d, change |-> state.change] \in issued',
             state.pc = "approved" =>
                 [device |-> d, change |-> Admission(state.joiner)] \in issued'
      PROVE  RequestInv'
  <2>1. /\ command(d)' = state
        /\ \A e \in Devices : e # d => command(e)' = command(e)
    BY <1>0, <1>4 DEF Become
  <2>2. ASSUME NEW e \in Devices PROVE CommandInv(e)'
    <3>1. CASE e = d
      BY <1>4, <2>1, <3>1 DEF CommandInv
    <3>2. CASE e # d
      BY <1>4, <2>1, <3>2 DEF RequestInv, CommandInv
    <3> QED
      BY <3>1, <3>2
  <2> QED
    BY <1>4, <2>2 DEF RequestInv
<1>5. ASSUME NEW d \in Devices, NEW w \in Sessions,
             \/ \E e \in Devices : SessionOpens(d, w, e)
             \/ SessionThread(d, w)
             \/ SessionFails(d, w)
      PROVE  RequestInv'
  <2>0. \/ UNCHANGED <<issued, done, faults>>
        \/ UNCHANGED <<issued, done>> /\ faults < MaxFaults /\ faults' = faults + 1
    BY <1>5, Zenon DEF SessionOpens, SessionThread, SessionStep,
       SessionReceives, SessionReads, SessionInserts, SessionMerged, SessionReplays,
       SessionFails, ApplyStep, ApplyDone, ApplyParent, ApplyCommit, ApplyFails
  <2>1. UNCHANGED <<issued, done>> /\ faults' \in 0 .. MaxFaults
    BY <1>0, <2>0 DEF RequestInv
  <2>2. work' = work \/ \E state : Become(d, w, state)
    BY <1>5 DEF SessionOpens, SessionThread, SessionStep,
       SessionReceives, SessionReads, SessionInserts, SessionMerged, SessionReplays,
       SessionFails, ApplyStep, ApplyDone, ApplyParent, ApplyCommit, ApplyFails
  <2> QED
    BY <1>2, <1>3, <2>1, <2>2
<1>6. ASSUME NEW d \in Devices, CommandThread(d) PROVE RequestInv'
  <2>0. CommandInv(d) /\ issued \subseteq Requests /\ done \subseteq issued
        /\ command(d) \in WorkerState
    BY <1>0 DEF RequestInv
  <2>1. CASE ApplyDone(d, "command")
    <3>1. /\ issued' = issued /\ faults' = faults
          /\ [device |-> d, change |-> command(d).change] \in issued
          /\ command(d).change \in Changes
      BY <2>0, <2>1 DEF ApplyDone, At, CommandInv, WorkerState, Idle
    <3>2. CASE /\ command(d).change.kind = "Admit"
               /\ Become(d, "command", [pc |-> "approved",
                                        joiner |-> command(d).change.member])
               /\ done' = done
      <4>1. command(d).change = Admission(command(d).change.member)
        BY <3>1, <3>2 DEF Changes, Admission, Removal
      <4> QED
        BY <1>4, <2>0, <3>1, <3>2, <4>1
    <3>3. CASE /\ Become(d, "command", Idle)
               /\ done' = done \cup {[device |-> d, change |-> command(d).change]}
      BY <1>4, <2>0, <3>1, <3>3 DEF Idle
    <3> QED
      BY <1>0, <2>1, <3>2, <3>3 DEF ApplyDone
  <2>2. CASE ApplyParent(d, "command")
    BY <1>4, <2>0, <2>2 DEF ApplyParent, At, CommandInv
  <2>3. CASE ApplyCommit(d, "command")
    BY <1>4, <2>0, <2>3 DEF ApplyCommit, At, CommandInv
  <2>4. CASE ApplyFails(d, "command")
    BY <1>4, <2>0, <2>4 DEF ApplyFails, Idle
  <2>5. CASE ApproveSends(d)
    <3>1. [device |-> d, change |-> Admission(command(d).joiner)] \in issued
      BY <2>0, <2>5 DEF ApproveSends, At, CommandInv
    <3>2. done' \subseteq issued
      BY <2>0, <2>5, <3>1 DEF ApproveSends
    <3> QED
      BY <1>4, <2>0, <2>5, <3>2 DEF ApproveSends, Idle
  <2> QED
    BY <1>6, <2>1, <2>2, <2>3, <2>4, <2>5 DEF CommandThread, ApplyStep
<1>7. ASSUME NEW d \in Devices, NEW x \in Devices, RemovePeer(d, x) \/ ApproveJoin(d, x)
      PROVE  RequestInv'
  <2>0. issued \subseteq Requests /\ done \subseteq issued
    BY DEF RequestInv
  <2>1. CASE RemovePeer(d, x)
    BY <1>4, <2>0, <2>1 DEF RemovePeer, Issues, Apply
  <2>2. CASE ApproveJoin(d, x)
    BY <1>4, <2>0, <2>2 DEF ApproveJoin, Issues, Apply
  <2> QED
    BY <1>7, <2>1, <2>2
<1>8. ASSUME NEW d \in Devices, JoinInstalls(d) \/ JoinLost(d) PROVE RequestInv'
  BY <1>2, <1>8 DEF JoinInstalls, JoinLost, RequestInv
<1>9. ASSUME NEW d \in Devices, Crash(d) PROVE RequestInv'
  <2>1. UNCHANGED <<issued, done>> /\ faults' \in 0 .. MaxFaults
    BY <1>0, <1>9 DEF Crash, RequestInv
  <2>2. ASSUME NEW e \in Devices PROVE command(e)' = Idle \/ command(e)' = command(e)
    BY <1>0, <1>9 DEF Crash
  <2> QED
    BY <2>1, <2>2 DEF RequestInv, CommandInv, Idle
<1> QED
  BY <1>1, <1>5, <1>6, <1>7, <1>8, <1>9, OnlineDevices DEF Next

-----------------------------------------------------------------------------
(* Theorems *)

LEMMA InvInit == Init => Inv
<1> SUFFICES ASSUME Init PROVE Inv
  OBVIOUS
<1>1. DataType
  BY BaseType DEF Init, DataType, WorkerState
<1>2. \A d \in Devices : Sound(stored[d]) /\ Sound(mail[d])
  BY DEF Init, Sound
<1>3. \A d \in Devices, w \in Workers : work[d][w] = Idle
  BY DEF Init
<1>4. \A d \in Devices, w \in Workers : ThreadInv(d, w)
  BY <1>3 DEF ThreadInv, Idle
<1>5. \A d \in Devices : CommandInv(d)
  BY <1>3, WorkersOf DEF CommandInv, Idle
<1>6. RequestInv
  BY <1>5, RosterAssumption DEF Init, RequestInv
<1> QED
  BY <1>1, <1>2, <1>4, <1>6, StoredSoundEach DEF Inv, DataInv, MailSound

LEMMA InvNext == Inv /\ [Next]_vars => Inv'
<1> SUFFICES ASSUME Inv, [Next]_vars PROVE Inv'
  OBVIOUS
<1>1. RequestInv'
  BY RequestSteps DEF Inv
<1>2. DataInv'
  <2>1. CASE UNCHANGED vars
    BY <2>1 DEF vars, Inv, DataInv, DataType, StoredSound, MailSound, ThreadInv
  <2>2. CASE Next
    BY <2>2, OnlineDevices, WorkersOf, SessionData, ApplyData, CommandData
       DEF Inv, Next, SessionThread, CommandThread
  <2> QED
    BY <2>1, <2>2
<1> QED
  BY <1>1, <1>2 DEF Inv

\* The inductive invariant holds of every behaviour of the roster.
THEOREM InvHolds == Spec => []Inv
  BY InvInit, InvNext, PTL DEF Spec

\* Every variable keeps its type; in particular only issued commands complete
\* and a thread has the locals its position needs.
THEOREM RosterTypeCorrect == Spec => []TypeOK
<1>1. Inv => TypeOK
  BY DEF Inv, DataInv, DataType, RequestInv, TypeOK
<1> QED
  BY <1>1, InvHolds, PTL

\* No device ever stores a revision that is not a valid child of a stored one:
\* selected_roster_chain can always read the table.
THEOREM StoredSoundCorrect == Spec => []StoredSound
<1>1. Inv => StoredSound
  BY DEF Inv, DataInv
<1> QED
  BY <1>1, InvHolds, PTL

-----------------------------------------------------------------------------
(* Selection: two tables that hold each other's chains select one tip *)

\* Among the subsets of a finite set there is a minimal one of any kind.
LEMMA HasMinimalSubset ==
  ASSUME NEW C, IsFiniteSet(C), NEW Bad \in SUBSET (SUBSET C), Bad # {}
  PROVE  \E T \in Bad : \A U \in Bad : U \subseteq T => U = T
<1>1. IsWellFoundedOn(StrictSubsetOrdering(C), SUBSET C)
  BY FS_StrictSubsetOrderingWellFounded, FS_FiniteSubsetsOfFinite
<1>2. PICK T \in Bad : \A U \in Bad : <<U, T>> \notin StrictSubsetOrdering(C)
  BY <1>1, WFMin
<1> QED
  BY <1>2 DEF StrictSubsetOrdering

\* A strict order on a set, as a set of pairs.
StrictOrder(R, C) ==
    /\ \A x \in C : <<x, x>> \notin R
    /\ \A x, y, z \in C : <<x, y>> \in R /\ <<y, z>> \in R => <<x, z>> \in R

\* A finite set has an element that no other precedes in a strict order.
LEMMA HasMaximal ==
  ASSUME NEW C, IsFiniteSet(C), C # {}, NEW R, StrictOrder(R, C)
  PROVE  \E m \in C : \A x \in C : <<x, m>> \notin R
<1> DEFINE Bad == {T \in SUBSET C : T # {} /\ ~ \E m \in T : \A x \in T : <<x, m>> \notin R}
<1>1. SUFFICES ASSUME Bad # {} PROVE FALSE
  <2>1. C \notin Bad
    BY <1>1
  <2> QED
    BY <2>1
<1>2. Bad \in SUBSET (SUBSET C)
  OBVIOUS
<1> HIDE DEF Bad
<1>3. PICK T \in Bad : \A U \in Bad : U \subseteq T => U = T
  BY <1>1, <1>2, HasMinimalSubset
<1>4. PICK y \in T : TRUE
  BY <1>3 DEF Bad
<1>5. T \ {y} \notin Bad
  <2>1. T \ {y} \subseteq T /\ T \ {y} # T
    BY <1>4
  <2> QED
    BY <1>3, <2>1
<1> USE DEF Bad, StrictOrder
<1>6. CASE T \ {y} = {}
  <2>1. \A x \in T : <<x, y>> \notin R
    BY <1>3, <1>4, <1>6
  <2> QED
    BY <1>3, <1>4, <2>1
<1>7. CASE T \ {y} # {}
  <2>1. PICK m \in T \ {y} : \A x \in T \ {y} : <<x, m>> \notin R
    BY <1>3, <1>5, <1>7
  <2>2. CASE <<y, m>> \in R
    <3>1. \A x \in T : <<x, y>> \notin R
      BY <1>3, <1>4, <2>1, <2>2
    <3> QED
      BY <1>3, <1>4, <3>1
  <2>3. CASE <<y, m>> \notin R
    <3>1. \A x \in T : <<x, m>> \notin R
      BY <2>1, <2>3
    <3> QED
      BY <1>3, <2>1, <3>1
  <2> QED
    BY <2>2, <2>3
<1> QED
  BY <1>6, <1>7

\* The path of a revision has a length.
LEMMA PathLength == ASSUME NEW r \in Revision PROVE Len(r.path) \in Nat
<1>1. r.path \in Seq([author : Devices, change : Changes])
  BY DEF Revision
<1> QED
  BY <1>1

\* Among finitely many revisions one has the shortest path.
LEMMA HasShortest ==
  ASSUME NEW B \in SUBSET Revision, IsFiniteSet(B), B # {}
  PROVE  \E r \in B : \A q \in B : Len(r.path) <= Len(q.path)
<1> DEFINE R == {l \in B \X B : Len(l[1].path) < Len(l[2].path)}
<1>1. \A x, y \in B : <<x, y>> \in R <=> Len(x.path) < Len(y.path)
  OBVIOUS
<1>2. \A x \in B : Len(x.path) \in Nat
  BY PathLength
<1> HIDE DEF R
<1>3. StrictOrder(R, B)
  BY <1>1, <1>2 DEF StrictOrder
<1>4. PICK m \in B : \A x \in B : <<x, m>> \notin R
  BY <1>3, HasMaximal
<1>5. \A x \in B : ~(Len(x.path) < Len(m.path))
  BY <1>1, <1>4
<1>6. \A x \in B : Len(m.path) <= Len(x.path)
  BY <1>2, <1>5
<1> QED
  BY <1>6

\* And one has the longest.
LEMMA HasLongest ==
  ASSUME NEW B \in SUBSET Revision, IsFiniteSet(B), B # {}
  PROVE  \E r \in B : \A q \in B : Len(q.path) <= Len(r.path)
<1> DEFINE R == {l \in B \X B : Len(l[1].path) > Len(l[2].path)}
<1>1. \A x, y \in B : <<x, y>> \in R <=> Len(x.path) > Len(y.path)
  OBVIOUS
<1>2. \A x \in B : Len(x.path) \in Nat
  BY PathLength
<1> HIDE DEF R
<1>3. StrictOrder(R, B)
  BY <1>1, <1>2 DEF StrictOrder
<1>4. PICK m \in B : \A x \in B : <<x, m>> \notin R
  BY <1>3, HasMaximal
<1>5. \A x \in B : ~(Len(x.path) > Len(m.path))
  BY <1>1, <1>4
<1>6. \A x \in B : Len(x.path) <= Len(m.path)
  BY <1>2, <1>5
<1> QED
  BY <1>6

\* A revision of a sound table that is not the agreed history has its parent
\* there, one step shorter.
LEMMA HasParent ==
  ASSUME NEW S \in SUBSET Revision, Sound(S), NEW r \in S, r # Base
  PROVE  \E p \in S : /\ ValidChild(r, p) /\ IsChild(r, p)
                      /\ Len(r.path) = Len(p.path) + 1
<1>1. PICK p \in S : ValidChild(r, p)
  BY DEF Sound
<1>2. IsChild(r, p)
  BY <1>1 DEF ValidChild, IsChild
<1>3. r.path \in Seq([author : Devices, change : Changes]) /\ r.path # <<>>
  BY <1>2 DEF Revision, IsChild
<1>4. p.path = SubSeq(r.path, 1, Len(r.path) - 1)
  BY <1>2 DEF IsChild, Front
<1>5. Len(r.path) = Len(p.path) + 1
  BY <1>3, <1>4
<1> QED
  BY <1>1, <1>2, <1>5

\* In a sound table the path says which revision it is, members included.
LEMMA PathDetermines ==
  ASSUME NEW S \in SUBSET Revision, IsFiniteSet(S), Sound(S),
         NEW r \in S, NEW q \in S, r.path = q.path
  PROVE  r = q
<1> DEFINE B == {x \in S : \E y \in S : x.path = y.path /\ x # y}
<1>1. SUFFICES ASSUME B # {} PROVE FALSE
  BY <1>1
<1>2. B \in SUBSET Revision /\ IsFiniteSet(B)
  BY FS_Subset
<1>3. PICK x \in B : \A z \in B : Len(x.path) <= Len(z.path)
  BY <1>1, <1>2, HasShortest
<1>4. PICK y \in S : x.path = y.path /\ x # y
  BY <1>3
<1>5. CASE x = Base \/ y = Base
  <2>1. x.path = <<>>
    BY <1>4, <1>5 DEF Base
  <2> QED
    BY <1>3, <1>4, <2>1 DEF Sound, ValidChild
<1>6. CASE x # Base /\ y # Base
  <2>1. PICK p \in S : ValidChild(x, p) /\ Len(x.path) = Len(p.path) + 1
    BY <1>3, <1>6, HasParent
  <2>2. PICK o \in S : ValidChild(y, o)
    BY <1>4, <1>6, HasParent
  <2>3. p.path = o.path
    BY <1>4, <2>1, <2>2 DEF ValidChild
  <2>4. p \notin B
    <3>1. Len(x.path) \in Nat /\ Len(p.path) \in Nat
      BY <1>3, PathLength
    <3> QED
      BY <1>3, <2>1, <3>1
  <2>5. p = o
    BY <2>3, <2>4
  <2>6. Own(x) = Own(y)
    BY <1>4 DEF Own
  <2> QED
    BY <1>4, <2>1, <2>2, <2>5, <2>6 DEF ValidChild
<1> QED
  BY <1>5, <1>6

\* A collision-free hash tells siblings with changes of one kind apart.
HashOrders ==
    \A r, q \in Revision :
        Siblings(r, q) =>
            /\ Hash(r) \in Nat
            /\ Priority(r) = Priority(q) /\ Hash(r) = Hash(q) => Own(r) = Own(q)

\* The parent of a selected revision is selected.
LEMMA ChainParent ==
  ASSUME NEW S \in SUBSET Revision, NEW r \in Chain(S), NEW p \in S, IsChild(r, p)
  PROVE  p \in Chain(S)
<1>1. r \in Revision /\ p \in Revision
  BY TipsStored
<1>2. ASSUME NEW q \in S, IsPrefix(q.path, p.path) PROVE IsPrefix(q.path, r.path)
  BY <1>1, <1>2, PrefixOfParent
<1> QED
  BY <1>2 DEF Chain

\* No sibling in the table beats a selected revision.
LEMMA ChainUnbeaten ==
  ASSUME NEW S \in SUBSET Revision, NEW r \in Chain(S), NEW o \in S, Siblings(o, r)
  PROVE  ~Better(o, r)
<1>1. r \in S /\ r.path \in Seq([author : Devices, change : Changes])
  BY DEF Chain, Revision
<1>2. IsPrefix(r.path, r.path)
  BY <1>1 DEF IsPrefix
<1> QED
  BY <1>1, <1>2 DEF Chain

\* Two siblings of valid parents, neither better than the other, are one.
LEMMA SiblingsEqual ==
  ASSUME HashOrders, NEW r \in Revision, NEW q \in Revision, NEW p \in Revision,
         ValidChild(r, p), ValidChild(q, p), ~Better(r, q), ~Better(q, r)
  PROVE  r = q
<1>1. Siblings(r, q) /\ Siblings(q, r)
  BY DEF Siblings, ValidChild
<1>2. Hash(r) \in Nat /\ Hash(q) \in Nat
  BY <1>1 DEF HashOrders
<1>3. Priority(r) \in {0, 1} /\ Priority(q) \in {0, 1}
  BY DEF Priority
<1>4. ~(Priority(r) > Priority(q)) /\ ~(Priority(q) > Priority(r))
  BY DEF Better
<1>5. Priority(r) = Priority(q)
  BY <1>3, <1>4
<1>6. ~(Hash(r) > Hash(q)) /\ ~(Hash(q) > Hash(r))
  BY <1>5 DEF Better
<1>7. Hash(r) = Hash(q)
  BY <1>2, <1>6
<1>8. Own(r) = Own(q)
  BY <1>1, <1>5, <1>7 DEF HashOrders
<1> QED
  BY <1>8 DEF ValidChild

\* What two sound tables need to select alike: each holds the other's chain.
Exchanged(S, T) ==
    /\ S \in SUBSET Revision /\ IsFiniteSet(S) /\ Sound(S) /\ S # {}
    /\ T \in SUBSET Revision /\ IsFiniteSet(T) /\ Sound(T) /\ T # {}
    /\ Chain(S) \subseteq T /\ Chain(T) \subseteq S

\* Their chains agree wherever both have a revision.
LEMMA ChainsMeet ==
  ASSUME HashOrders, NEW S, NEW T, Exchanged(S, T),
         NEW r \in Chain(S), NEW q \in Chain(T), Len(r.path) = Len(q.path)
  PROVE  r = q
<1>0. /\ S \in SUBSET Revision /\ T \in SUBSET Revision /\ Sound(S) /\ Sound(T)
      /\ IsFiniteSet(S) /\ IsFiniteSet(T)
      /\ Chain(S) \subseteq S /\ Chain(S) \subseteq T /\ Chain(T) \subseteq S /\ Chain(T) \subseteq T
  BY TipsStored DEF Exchanged
<1> DEFINE B == {x \in Chain(S) : \E y \in Chain(T) : Len(x.path) = Len(y.path) /\ x # y}
<1>1. SUFFICES ASSUME B # {} PROVE FALSE
  BY <1>1
<1>2. B \in SUBSET Revision /\ IsFiniteSet(B)
  <2>1. B \in SUBSET S
    BY <1>0
  <2> QED
    BY <1>0, <2>1, FS_Subset
<1>3. PICK x \in B : \A z \in B : Len(x.path) <= Len(z.path)
  BY <1>1, <1>2, HasShortest
<1>4. PICK y \in Chain(T) : Len(x.path) = Len(y.path) /\ x # y
  BY <1>3
<1>5. x \in Chain(S) /\ x \in S /\ x \in T /\ y \in S /\ y \in T /\ x \in Revision /\ y \in Revision
  BY <1>0, <1>3, <1>4
<1> HIDE DEF B
<1>6. \A z \in Revision : z.path \in Seq([author : Devices, change : Changes])
  BY DEF Revision
<1>7. ASSUME NEW z \in S, Len(z.path) = 0 PROVE z = Base
  <2>1. z.path = <<>>
    BY <1>0, <1>6, <1>7
  <2> QED
    BY <1>0, <2>1 DEF Sound, ValidChild
<1>8. CASE x = Base \/ y = Base
  <2>1. Len(x.path) = 0 /\ Len(y.path) = 0
    BY <1>4, <1>8 DEF Base
  <2> QED
    BY <1>4, <1>5, <1>7, <2>1
<1>9. CASE x # Base /\ y # Base
  <2>1. PICK p \in S : /\ ValidChild(x, p) /\ IsChild(x, p)
                       /\ Len(x.path) = Len(p.path) + 1
    BY <1>0, <1>5, <1>9, HasParent
  <2>2. PICK o \in T : /\ ValidChild(y, o) /\ IsChild(y, o)
                       /\ Len(y.path) = Len(o.path) + 1
    BY <1>0, <1>5, <1>9, HasParent
  <2>3. p \in Chain(S) /\ o \in Chain(T) /\ p \in Revision
    BY <1>0, <1>4, <1>5, <2>1, <2>2, ChainParent
  <2>4. Len(p.path) \in Nat /\ Len(o.path) \in Nat
    BY <1>0, <2>1, <2>2, PathLength
  <2>5. Len(p.path) = Len(o.path) /\ Len(p.path) < Len(x.path)
    <3>1. Len(p.path) + 1 = Len(o.path) + 1 /\ Len(x.path) = Len(p.path) + 1
      BY <1>4, <2>1, <2>2
    <3> QED
      BY <2>4, <3>1
  <2>6. p \notin B
    BY <1>3, <2>1, <2>4
  <2>7. p = o
    BY <2>3, <2>5, <2>6 DEF B
  <2>8. Siblings(y, x) /\ Siblings(x, y)
    BY <2>1, <2>2, <2>7 DEF IsChild, Siblings
  <2>9. ~Better(y, x)
    BY <1>0, <1>5, <2>8, ChainUnbeaten
  <2>10. ~Better(x, y)
    BY <1>0, <1>4, <1>5, <2>8, ChainUnbeaten
  <2>11. x = y
    BY <1>5, <2>1, <2>2, <2>3, <2>7, <2>9, <2>10, SiblingsEqual
  <2> QED
    BY <1>4, <2>11
<1> QED
  BY <1>8, <1>9

\* The best child of a selected revision is selected.
LEMMA BestChildSelected ==
  ASSUME NEW S \in SUBSET Revision, IsFiniteSet(S), Sound(S), NEW t \in Chain(S),
         NEW b \in S, IsChild(b, t), \A o \in S : IsChild(o, t) => ~Better(o, b)
  PROVE  b \in Chain(S)
<1> DEFINE Step == [author : Devices, change : Changes]
<1>1. SUFFICES ASSUME NEW q \in S, IsPrefix(q.path, b.path), NEW o \in S, Siblings(o, q)
               PROVE  ~Better(o, q)
  BY <1>1 DEF Chain
<1>2. t \in S /\ q.path \in Seq(Step) /\ b.path \in Seq(Step) /\ t.path \in Seq(Step)
  BY TipsStored DEF Revision
<1>3. b.path # <<>> /\ t.path = SubSeq(b.path, 1, Len(b.path) - 1)
  BY DEF IsChild, Front
<1>4. Len(t.path) = Len(b.path) - 1 /\ Len(q.path) <= Len(b.path)
      /\ q.path = SubSeq(b.path, 1, Len(q.path))
  <2>1. Len(t.path) = Len(b.path) - 1
    BY <1>2, <1>3
  <2>2. SubSeq(q.path, 1, Len(q.path)) = q.path
    BY <1>2
  <2> QED
    BY <1>1, <2>1, <2>2 DEF IsPrefix
<1>5. CASE Len(q.path) = Len(b.path)
  <2>1. q.path = b.path
    BY <1>2, <1>4, <1>5
  <2>2. q = b
    BY <2>1, PathDetermines
  <2>3. IsChild(o, t)
    BY <1>1, <2>2 DEF Siblings, IsChild
  <2> QED
    BY <2>2, <2>3
<1>6. CASE Len(q.path) # Len(b.path)
  <2>1. Len(q.path) <= Len(t.path)
    BY <1>2, <1>4, <1>6
  <2>2. \A i \in 1 .. Len(q.path) : q.path[i] = t.path[i]
    BY <1>2, <1>3, <1>4, <2>1
  <2>3. SubSeq(t.path, 1, Len(q.path)) = q.path
    BY <1>2, <2>1, <2>2
  <2>4. IsPrefix(q.path, t.path)
    BY <2>1, <2>3 DEF IsPrefix
  <2> QED
    BY <1>1, <2>4 DEF Chain
<1> QED
  BY <1>5, <1>6

\* select_chain ends: a table that is not empty has a tip.
LEMMA HasTip ==
  ASSUME HashOrders, NEW S \in SUBSET Revision, IsFiniteSet(S), Sound(S), S # {}
  PROVE  Tips(S) # {}
<1>1. /\ Chain(S) \in SUBSET Revision /\ Base \in Chain(S) /\ Chain(S) \in SUBSET S
      /\ IsFiniteSet(Chain(S))
  <2>1. Chain(S) \in SUBSET S
    BY TipsStored
  <2>2. Sound(Chain(S)) /\ Base \in S
    BY ChainSound DEF Sound
  <2>3. Base \in Chain(S)
    <3>1. \A q \in S : q.path \in Seq([author : Devices, change : Changes])
      BY DEF Revision
    <3>2. ASSUME NEW q \in S, IsPrefix(q.path, Base.path) PROVE q.path = <<>>
      BY <3>1, <3>2 DEF IsPrefix, Base
    <3> QED
      BY <2>2, <3>2 DEF Chain, Siblings
  <2> QED
    BY <2>1, <2>3, FS_Subset
<1>2. PICK t \in Chain(S) : \A q \in Chain(S) : Len(q.path) <= Len(t.path)
  BY <1>1, HasLongest
<1>3. ASSUME NEW r \in S, IsChild(r, t) PROVE FALSE
  <2> DEFINE C == {o \in S : IsChild(o, t)}
             R == {l \in C \X C : Better(l[1], l[2])}
  <2>1. C # {} /\ C \in SUBSET S
    BY <1>3
  <2>2. IsFiniteSet(C)
    BY <2>1, FS_Subset
  <2>3. \A x, y \in C : <<x, y>> \in R <=> Better(x, y)
    OBVIOUS
  <2>4. \A x \in C : Hash(x) \in Nat /\ Priority(x) \in {0, 1}
    <3>1. \A x \in C : x \in Revision /\ Siblings(x, x)
      BY DEF IsChild, Siblings
    <3> QED
      BY <3>1 DEF HashOrders, Priority
  <2> HIDE DEF C, R
  <2>5. StrictOrder(R, C)
    <3>1. \A x \in C : ~Better(x, x)
      BY <2>4 DEF Better
    <3>2. \A x, y, z \in C : Better(x, y) /\ Better(y, z) => Better(x, z)
      BY <2>4 DEF Better
    <3> QED
      BY <2>3, <3>1, <3>2 DEF StrictOrder
  <2>6. PICK b \in C : \A x \in C : <<x, b>> \notin R
    BY <2>1, <2>2, <2>5, HasMaximal
  <2>7. b \in S /\ IsChild(b, t) /\ \A o \in S : IsChild(o, t) => ~Better(o, b)
    BY <2>3, <2>6 DEF C
  <2>8. b \in Chain(S)
    BY <1>2, <2>7, BestChildSelected
  <2>9. b.path \in Seq([author : Devices, change : Changes]) /\ b.path # <<>>
        /\ t.path = SubSeq(b.path, 1, Len(b.path) - 1)
    BY <2>7 DEF IsChild, Front, Revision
  <2>10. Len(b.path) \in Nat /\ Len(t.path) = Len(b.path) - 1
    BY <2>9
  <2> QED
    BY <1>2, <2>8, <2>10
<1> QED
  BY <1>2, <1>3 DEF Tips

\* A tip of one table is not behind a tip of the other: the other's chain would
\* go on with a child that the first one holds as well.
LEMMA TipNotBehind ==
  ASSUME HashOrders, NEW S, NEW T, Exchanged(S, T),
         NEW t \in Tips(S), NEW u \in Tips(T)
  PROVE  ~(Len(t.path) < Len(u.path))
<1>0. /\ S \in SUBSET Revision /\ T \in SUBSET Revision /\ Sound(T)
      /\ IsFiniteSet(T) /\ Chain(T) \subseteq S /\ Chain(T) \subseteq T
      /\ t \in Chain(S) /\ u \in Chain(T) /\ t \in Revision
  BY TipsStored DEF Exchanged, Tips
<1>1. SUFFICES ASSUME Len(t.path) < Len(u.path) PROVE FALSE
  OBVIOUS
<1> DEFINE B == {v \in Chain(T) : Len(t.path) < Len(v.path)}
<1>2. B \in SUBSET T /\ B \in SUBSET Revision /\ B # {}
  BY <1>0, <1>1
<1>3. IsFiniteSet(B)
  BY <1>0, <1>2, FS_Subset
<1>4. PICK v \in B : \A z \in B : Len(v.path) <= Len(z.path)
  BY <1>2, <1>3, HasShortest
<1>5. v \in Chain(T) /\ v \in T /\ v \in S /\ Len(t.path) < Len(v.path)
  BY <1>0, <1>4
<1>6. Len(t.path) \in Nat
  BY <1>0, PathLength
<1>7. v # Base
  <2>1. Len(Base.path) = 0
    BY DEF Base
  <2> QED
    BY <1>5, <1>6, <2>1
<1>8. PICK p \in T : /\ ValidChild(v, p) /\ IsChild(v, p)
                     /\ Len(v.path) = Len(p.path) + 1
  BY <1>0, <1>5, <1>7, HasParent
<1>9. p \in Chain(T) /\ Len(p.path) \in Nat
  BY <1>0, <1>5, <1>8, ChainParent, PathLength
<1>10. Len(p.path) = Len(t.path)
  <2>1. ~(Len(t.path) < Len(p.path))
    BY <1>4, <1>8, <1>9
  <2> QED
    BY <1>5, <1>6, <1>8, <1>9, <2>1
<1>11. p = t
  BY <1>0, <1>9, <1>10, ChainsMeet
<1> QED
  BY <1>5, <1>8, <1>11 DEF Tips

\* So both select the same tip, and only one.
LEMMA TipsAgree ==
  ASSUME HashOrders, NEW S, NEW T, Exchanged(S, T)
  PROVE  Tips(S) = Tips(T) /\ Cardinality(Tips(S)) = 1
<1>1. Exchanged(T, S)
  BY DEF Exchanged
<1>2. PICK t \in Tips(S), u \in Tips(T) : TRUE
  BY HasTip DEF Exchanged
<1>3. ASSUME NEW x \in Tips(S), NEW y \in Tips(T) PROVE x = y
  <2>1. x \in Chain(S) /\ y \in Chain(T)
    BY DEF Tips
  <2>2. x \in Revision /\ y \in Revision
    BY <2>1, TipsStored DEF Exchanged
  <2>3. Len(x.path) \in Nat /\ Len(y.path) \in Nat
    BY <2>2, PathLength
  <2>4. ~(Len(x.path) < Len(y.path)) /\ ~(Len(y.path) < Len(x.path))
    BY <1>1, TipNotBehind
  <2> QED
    BY <2>1, <2>3, <2>4, ChainsMeet
<1>4. Tips(S) = {t} /\ Tips(T) = {t}
  BY <1>2, <1>3
<1> QED
  BY <1>4, FS_Singleton

-----------------------------------------------------------------------------
(* Tables stay finite *)

FiniteTables ==
    \A d \in Devices : IsFiniteSet(stored[d]) /\ IsFiniteSet(mail[d])

\* A step inserts one revision, or the chain of another device's table.
LEMMA FiniteStep ==
  ASSUME DataInv, FiniteTables, [Next]_vars
  PROVE  FiniteTables'
<1>0. /\ stored \in [Devices -> SUBSET Revision] /\ mail \in [Devices -> SUBSET Revision]
      /\ work \in [Devices -> [Workers -> WorkerState]] /\ "command" \in Workers
  BY WorkersOf DEF DataInv, DataType
<1>1. CASE UNCHANGED <<stored, mail>>
  BY <1>1 DEF FiniteTables
<1>2. ASSUME NEW d \in Devices, NEW R, IsFiniteSet(R), Store(d, R),
             \A e \in Devices : IsFiniteSet(mail'[e])
      PROVE  FiniteTables'
  <2>1. \A e \in Devices : stored'[e] = IF e = d THEN stored[d] \cup R ELSE stored[e]
    BY <1>0, <1>2 DEF Store
  <2>2. IsFiniteSet(stored[d] \cup R)
    BY <1>2, FS_Union DEF FiniteTables
  <2> QED
    BY <1>2, <2>1, <2>2 DEF FiniteTables
<1>3. \A e \in Devices : IsFiniteSet(mail[e])
  BY DEF FiniteTables
<1>4. ASSUME NEW d \in Devices, NEW w \in Workers, SessionInserts(d, w) PROVE FiniteTables'
  <2>1. PICK r : Store(d, {r}) /\ mail' = mail
    BY <1>4 DEF SessionInserts
  <2> QED
    BY <1>2, <1>3, <2>1, FS_Singleton
<1>5. ASSUME NEW d \in Devices, NEW w \in Workers, ApplyCommit(d, w) PROVE FiniteTables'
  <2>1. PICK r : Store(d, {r}) /\ mail' = mail
    BY <1>5 DEF ApplyCommit
  <2> QED
    BY <1>2, <1>3, <2>1, FS_Singleton
<1>6. ASSUME NEW d \in Devices, ApproveSends(d) PROVE FiniteTables'
  <2> DEFINE x == work[d]["command"].joiner
  <2>1. IsFiniteSet(Chain(stored[d]))
    BY TipsStored, FS_Subset DEF FiniteTables
  <2>2. stored' = stored /\ (mail' = [mail EXCEPT ![x] = Chain(stored[d])] \/ mail' = mail)
    BY <1>6 DEF ApproveSends
  <2>3. \A e \in Devices : mail'[e] = mail[e] \/ mail'[e] = Chain(stored[d])
    BY <1>0, <2>2
  <2> QED
    BY <2>1, <2>2, <2>3 DEF FiniteTables
<1>7. ASSUME NEW d \in Devices, JoinInstalls(d) \/ JoinLost(d) PROVE FiniteTables'
  <2>1. \A e \in Devices : mail'[e] = mail[e] \/ mail'[e] = {}
    BY <1>0, <1>7 DEF JoinInstalls, JoinLost
  <2>2. \A e \in Devices : IsFiniteSet(mail'[e])
    BY <1>3, <2>1, FS_EmptySet
  <2>3. CASE stored' = stored
    BY <2>2, <2>3 DEF FiniteTables
  <2>4. CASE Store(d, mail[d])
    BY <1>2, <1>3, <2>2, <2>4
  <2> QED
    BY <1>7, <2>3, <2>4 DEF JoinInstalls, JoinLost
<1>8. CASE Next
  <2>1. PICK d \in Online :
          \/ \E w \in Sessions : \/ \E e \in Peers(d) : SessionOpens(d, w, e)
                                 \/ SessionThread(d, w)
                                 \/ SessionFails(d, w)
          \/ CommandThread(d)
          \/ \E x \in Devices : RemovePeer(d, x) \/ ApproveJoin(d, x)
          \/ JoinInstalls(d)
          \/ JoinLost(d)
          \/ Crash(d)
    BY <1>8 DEF Next
  <2>2. d \in Devices
    BY OnlineDevices
  <2>3. ASSUME NEW w \in Workers, ApplyStep(d, w) PROVE FiniteTables'
    BY <1>1, <1>5, <2>2, <2>3 DEF ApplyStep, ApplyDone, ApplyParent, ApplyFails
  <2>4. ASSUME NEW w \in Sessions, \/ \E e \in Peers(d) : SessionOpens(d, w, e)
                                   \/ SessionThread(d, w)
                                   \/ SessionFails(d, w)
        PROVE  FiniteTables'
    <3>1. w \in Workers
      BY WorkersOf
    <3>2. CASE SessionStep(d, w)
      BY <1>1, <1>4, <2>2, <3>1, <3>2 DEF SessionStep, SessionReceives, SessionReads,
         SessionMerged, SessionReplays
    <3> QED
      BY <1>1, <2>3, <2>4, <3>1, <3>2 DEF SessionThread, SessionOpens, SessionFails
  <2>5. CASE CommandThread(d)
    BY <1>0, <1>6, <2>2, <2>3, <2>5 DEF CommandThread
  <2>6. CASE \E x \in Devices : RemovePeer(d, x) \/ ApproveJoin(d, x)
    BY <1>1, <2>6 DEF RemovePeer, ApproveJoin
  <2>7. CASE Crash(d)
    BY <1>1, <2>7 DEF Crash
  <2> QED
    BY <1>7, <2>1, <2>2, <2>4, <2>5, <2>6, <2>7
<1> QED
  BY <1>1, <1>8 DEF vars

\* Two devices that hold each other's selected chain select the same single
\* revision, for every group, every history and every collision-free hash.
THEOREM ExchangeCorrect ==
  ASSUME HashOrders
  PROVE  Spec => []ExchangeAgrees
<1>1. Init => FiniteTables
  <2>1. IsFiniteSet({}) /\ IsFiniteSet({Base})
    BY FS_EmptySet, FS_Singleton
  <2> QED
    BY <2>1 DEF Init, FiniteTables
<1>2. Inv /\ FiniteTables /\ [Next]_vars => FiniteTables'
  BY FiniteStep DEF Inv
<1>3. Inv /\ FiniteTables => ExchangeAgrees
  <2> SUFFICES ASSUME Inv, FiniteTables,
                      NEW d \in Devices, NEW e \in Devices,
                      stored[d] # {}, stored[e] # {},
                      Chain(stored[d]) \subseteq stored[e], Chain(stored[e]) \subseteq stored[d]
               PROVE  Tips(stored[d]) = Tips(stored[e]) /\ Cardinality(Tips(stored[d])) = 1
    BY DEF ExchangeAgrees
  <2>1. Exchanged(stored[d], stored[e])
    BY StoredSoundEach DEF Exchanged, Inv, DataInv, DataType, FiniteTables
  <2> QED
    BY <2>1, TipsAgree
<1> QED
  BY <1>1, <1>2, <1>3, InvHolds, PTL DEF Spec

-----------------------------------------------------------------------------
(* The retry loop *)

\* Tables only grow, and every thread but one, or all of one device's, is left
\* alone: what a step does to a device's table and to its threads.
LEMMA StoredGrows ==
  ASSUME DataInv, [Next]_vars
  PROVE  \A d \in Devices : stored[d] \subseteq stored'[d]
<1>0. stored \in [Devices -> SUBSET Revision]
  BY DEF DataInv, DataType
<1>1. CASE UNCHANGED stored
  BY <1>1
<1>2. ASSUME NEW d \in Devices, NEW R, Store(d, R)
      PROVE  \A e \in Devices : stored[e] \subseteq stored'[e]
  BY <1>0, <1>2 DEF Store
<1>3. CASE Next
  <2>1. PICK d \in Online :
          \/ \E w \in Sessions : \/ \E e \in Peers(d) : SessionOpens(d, w, e)
                                 \/ SessionThread(d, w)
                                 \/ SessionFails(d, w)
          \/ CommandThread(d)
          \/ \E x \in Devices : RemovePeer(d, x) \/ ApproveJoin(d, x)
          \/ JoinInstalls(d)
          \/ JoinLost(d)
          \/ Crash(d)
    BY <1>3 DEF Next
  <2>2. d \in Devices
    BY OnlineDevices
  <2>3. ASSUME NEW w \in Workers, ApplyStep(d, w)
        PROVE  \A e \in Devices : stored[e] \subseteq stored'[e]
    BY <1>1, <1>2, <2>2, <2>3 DEF ApplyStep, ApplyDone, ApplyParent, ApplyFails, ApplyCommit
  <2>4. ASSUME NEW w \in Sessions, \/ \E e \in Peers(d) : SessionOpens(d, w, e)
                                   \/ SessionThread(d, w)
                                   \/ SessionFails(d, w)
        PROVE  \A e \in Devices : stored[e] \subseteq stored'[e]
    <3>1. w \in Workers
      BY WorkersOf
    <3>2. CASE SessionStep(d, w)
      <4>1. CASE SessionInserts(d, w)
        BY <1>2, <2>2, <4>1 DEF SessionInserts
      <4> QED
        BY <1>1, <3>2, <4>1 DEF SessionStep, SessionReceives, SessionReads, SessionMerged,
           SessionReplays
    <3> QED
      BY <1>1, <2>3, <2>4, <3>1, <3>2 DEF SessionThread, SessionOpens, SessionFails
  <2>5. CASE CommandThread(d)
    BY <1>1, <2>3, <2>5, WorkersOf DEF CommandThread, ApproveSends
  <2>6. CASE \E x \in Devices : RemovePeer(d, x) \/ ApproveJoin(d, x)
    BY <1>1, <2>6 DEF RemovePeer, ApproveJoin
  <2>7. CASE Crash(d)
    BY <1>1, <2>7 DEF Crash
  <2>8. CASE JoinInstalls(d) \/ JoinLost(d)
    BY <1>1, <1>2, <2>2, <2>8 DEF JoinInstalls, JoinLost
  <2> QED
    BY <2>1, <2>4, <2>5, <2>6, <2>7, <2>8
<1> QED
  BY <1>1, <1>3 DEF vars

\* The stored revisions on which d has made the change already.
Spent(S, d, change) ==
    {p \in S : \E r \in S : ValidChild(r, p) /\ Own(r) = [author |-> d, change |-> change]}

\* Every turn of a loop has used up a revision, and the one it is about to use is
\* not among them.
LoopInv(d, w) ==
    /\ work[d][w].pc = "applying" =>
          work[d][w].tries <= Cardinality(Spent(stored[d], d, work[d][w].change))
    /\ work[d][w].pc = "committing" =>
          work[d][w].tries <=
              Cardinality(Spent(stored[d], d, work[d][w].change) \ {work[d][w].parent})

\* A finite set counts no less when it grows.
LEMMA CountGrows ==
  ASSUME NEW A, NEW B, IsFiniteSet(B), A \subseteq B
  PROVE  /\ Cardinality(A) \in Nat /\ Cardinality(B) \in Nat
         /\ Cardinality(A) <= Cardinality(B)
<1>1. IsFiniteSet(A) /\ Cardinality(A) <= Cardinality(B)
  BY FS_Subset
<1> QED
  BY <1>1, FS_CardinalityType

\* A thread that a step leaves alone has no less used up than before.
LEMMA LoopKeeps ==
  ASSUME DataInv, FiniteTables', NEW d \in Devices, NEW w \in Workers, LoopInv(d, w),
         stored[d] \subseteq stored'[d], work'[d][w] = work[d][w]
  PROVE  LoopInv(d, w)'
<1> DEFINE me == work[d][w]
           A == Spent(stored[d], d, me.change)
           B == Spent(stored'[d], d, me.change)
<1>1. A \subseteq B /\ A \ {me.parent} \subseteq B \ {me.parent}
  BY DEF Spent
<1>2. B \subseteq stored'[d] /\ IsFiniteSet(stored'[d])
  BY DEF Spent, FiniteTables
<1>3. IsFiniteSet(B) /\ IsFiniteSet(B \ {me.parent})
  BY <1>2, FS_Subset
<1>4. /\ Cardinality(A) \in Nat /\ Cardinality(B) \in Nat
      /\ Cardinality(A) <= Cardinality(B)
  BY <1>1, <1>3, CountGrows
<1>5. /\ Cardinality(A \ {me.parent}) \in Nat /\ Cardinality(B \ {me.parent}) \in Nat
      /\ Cardinality(A \ {me.parent}) <= Cardinality(B \ {me.parent})
  BY <1>1, <1>3, CountGrows
<1>6. me.pc \in {"applying", "committing"} => me.tries \in Nat
  BY DEF DataInv, DataType, WorkerState, Idle
<1> HIDE DEF A, B
<1>7. me.pc = "applying" => me.tries <= Cardinality(B)
  <2>1. me.pc = "applying" => me.tries <= Cardinality(A)
    BY DEF LoopInv, A
  <2> QED
    BY <1>4, <1>6, <2>1
<1>8. me.pc = "committing" => me.tries <= Cardinality(B \ {me.parent})
  <2>1. me.pc = "committing" => me.tries <= Cardinality(A \ {me.parent})
    BY DEF LoopInv, A
  <2> QED
    BY <1>5, <1>6, <2>1
<1> QED
  BY <1>7, <1>8 DEF LoopInv, B

\* The tip that a turn takes as parent has no child yet, so no turn has used it.
LEMMA ParentIsNew ==
  ASSUME NEW S, NEW t \in Tips(S), NEW d, NEW change
  PROVE  t \notin Spent(S, d, change)
  BY DEF Tips, Spent, ValidChild, IsChild

\* A turn begins: the parent it holds is new.
LEMMA LoopParent ==
  ASSUME DataInv, NEW d \in Devices, NEW w \in Workers, LoopInv(d, w), ApplyParent(d, w)
  PROVE  LoopInv(d, w)'
<1> DEFINE me == work[d][w]
<1>1. PICK t \in Tips(stored[d]) :
        Become(d, w, [pc |-> "committing", change |-> me.change,
                      tries |-> me.tries, queue |-> me.queue, parent |-> t])
  BY DEF ApplyParent
<1>2. work'[d][w] = [pc |-> "committing", change |-> me.change,
                     tries |-> me.tries, queue |-> me.queue, parent |-> t]
  BY <1>1 DEF Become, DataInv, DataType
<1>3. Spent(stored[d], d, me.change) \ {t} = Spent(stored[d], d, me.change)
  BY <1>1, ParentIsNew
<1>4. stored' = stored /\ me.pc = "applying"
  BY DEF ApplyParent, At
<1>5. me.tries <= Cardinality(Spent(stored[d], d, me.change) \ {t})
  BY <1>3, <1>4 DEF LoopInv
<1> QED
  BY <1>2, <1>4, <1>5 DEF LoopInv

\* The change and the author of a child are the ones it was made with.
LEMMA ChildOwn ==
  ASSUME NEW p, p.path \in Seq([author : Devices, change : Changes]),
         NEW change \in Changes, NEW author \in Devices
  PROVE  Own(Child(p, change, author)) = [author |-> author, change |-> change]
<1> DEFINE own == [author |-> author, change |-> change]
<1>1. own \in [author : Devices, change : Changes]
  OBVIOUS
<1>2. Child(p, change, author).path = Append(p.path, own)
  BY DEF Child
<1> HIDE DEF own
<1>3. /\ Len(Append(p.path, own)) = Len(p.path) + 1
      /\ Append(p.path, own)[Len(p.path) + 1] = own
  BY <1>1
<1>4. Last(Append(p.path, own)) = own
  BY <1>3 DEF Last
<1> QED
  BY <1>2, <1>4 DEF Own, own

\* A turn ends: its parent is used up now.
LEMMA LoopCommit ==
  ASSUME DataInv, FiniteTables, FiniteTables', NEW d \in Devices, NEW w \in Workers,
         LoopInv(d, w), ApplyCommit(d, w)
  PROVE  LoopInv(d, w)'
<1> DEFINE me == work[d][w]
           c == Child(me.parent, me.change, d)
           A == Spent(stored[d], d, me.change) \ {me.parent}
           B == Spent(stored'[d], d, me.change)
<1>1. /\ me.pc = "committing" /\ me.change \in Changes /\ me.tries \in Nat
      /\ me.parent \in Revision /\ me.parent \in stored[d]
      /\ ~Satisfied(me.parent, me.change) /\ d \in me.parent.members
  <2>1. me \in WorkerState /\ ThreadInv(d, w) /\ me.pc = "committing"
    BY DEF DataInv, DataType, ApplyCommit, At
  <2> QED
    BY <2>1 DEF WorkerState, Idle, ThreadInv
<1>2. ValidChild(c, me.parent) /\ Own(c) = [author |-> d, change |-> me.change]
  <2>1. c \in Revision /\ ValidChild(c, me.parent)
    BY <1>1, ChildValid
  <2>2. me.parent.path \in Seq([author : Devices, change : Changes])
    BY <1>1 DEF Revision
  <2>3. Own(c) = [author |-> d, change |-> me.change]
    BY <1>1, <2>2, ChildOwn
  <2> QED
    BY <2>1, <2>3
<1>3. stored'[d] = stored[d] \cup {c}
  BY DEF ApplyCommit, Store, DataInv, DataType
<1>4. work'[d][w] = [pc |-> "applying", change |-> me.change,
                     tries |-> me.tries + 1, queue |-> me.queue]
  BY DEF ApplyCommit, Become, DataInv, DataType
<1>5. me.parent \in B
  BY <1>1, <1>2, <1>3 DEF Spent
<1>6. A \cup {me.parent} \subseteq B /\ me.parent \notin A
  BY <1>3, <1>5 DEF Spent
<1>7. IsFiniteSet(B) /\ IsFiniteSet(A)
  <2>1. B \subseteq stored'[d] /\ A \subseteq stored[d]
    BY DEF Spent
  <2>2. IsFiniteSet(stored[d]) /\ IsFiniteSet(stored'[d])
    BY DEF FiniteTables
  <2> QED
    BY <2>1, <2>2, FS_Subset
<1>8. me.tries <= Cardinality(A)
  BY <1>1 DEF LoopInv
<1> HIDE DEF A, B, c
<1>9. /\ Cardinality(A) \in Nat /\ Cardinality(A \cup {me.parent}) = Cardinality(A) + 1
  BY <1>6, <1>7, FS_AddElement, FS_CardinalityType
<1>10. Cardinality(B) \in Nat /\ Cardinality(A \cup {me.parent}) <= Cardinality(B)
  BY <1>6, <1>7, CountGrows
<1>11. me.tries + 1 <= Cardinality(B)
  BY <1>1, <1>8, <1>9, <1>10
<1> QED
  BY <1>4, <1>11 DEF LoopInv, B

\* A step that leaves the tables and moves one thread to a point outside the loop
\* or to the start of one.
LEMMA LoopLeaves ==
  ASSUME DataInv, FiniteTables', NEW d \in Devices, NEW w \in Workers, NEW state,
         Become(d, w, state), stored' = stored,
         state.pc # "committing", state.pc = "applying" => state.tries = 0,
         NEW e \in Devices, NEW v \in Workers, LoopInv(e, v)
  PROVE  LoopInv(e, v)'
<1>1. CASE e = d /\ v = w
  <2>1. work'[e][v] = state
    BY <1>1 DEF Become, DataInv, DataType
  <2>2. CASE state.pc = "applying"
    <3> DEFINE B == Spent(stored'[e], e, state.change)
    <3>1. B \subseteq stored'[e] /\ IsFiniteSet(stored'[e])
      BY DEF Spent, FiniteTables
    <3>2. Cardinality(B) \in Nat
      BY <3>1, CountGrows
    <3>3. 0 <= Cardinality(B)
      BY <3>2
    <3> QED
      BY <2>1, <2>2, <3>3 DEF LoopInv
  <2> QED
    BY <2>1, <2>2 DEF LoopInv
<1>2. CASE e # d \/ v # w
  <2>1. work'[e][v] = work[e][v]
    BY <1>2 DEF Become, DataInv, DataType
  <2> QED
    BY <2>1, LoopKeeps
<1> QED
  BY <1>1, <1>2

\* Each turn of apply_roster_change_inner.
LEMMA LoopApply ==
  ASSUME DataInv, FiniteTables, FiniteTables', NEW d \in Devices, NEW w \in Workers,
         ApplyStep(d, w), stored[d] \subseteq stored'[d],
         NEW e \in Devices, NEW v \in Workers, LoopInv(e, v), stored[e] \subseteq stored'[e]
  PROVE  LoopInv(e, v)'
<1>1. CASE ApplyDone(d, w)
  <2>1. stored' = stored
    BY <1>1 DEF ApplyDone
  <2>2. PICK state : Become(d, w, state) /\ state.pc \notin {"committing", "applying"}
    BY <1>1 DEF ApplyDone, Idle
  <2> QED
    BY <2>1, <2>2, LoopLeaves
<1>2. CASE ApplyFails(d, w)
  <2>1. stored' = stored /\ Become(d, w, Idle)
    BY <1>2 DEF ApplyFails
  <2>2. Idle.pc \notin {"committing", "applying"}
    BY DEF Idle
  <2> QED
    BY <2>1, <2>2, LoopLeaves
<1>3. CASE (ApplyParent(d, w) \/ ApplyCommit(d, w)) /\ e = d /\ v = w
  BY <1>3, LoopParent, LoopCommit
<1>4. CASE (ApplyParent(d, w) \/ ApplyCommit(d, w)) /\ (e # d \/ v # w)
  <2>1. PICK state : Become(d, w, state)
    BY <1>4 DEF ApplyParent, ApplyCommit
  <2>2. work'[e][v] = work[e][v]
    BY <1>4, <2>1 DEF Become, DataInv, DataType
  <2> QED
    BY <2>2, LoopKeeps
<1> QED
  BY <1>1, <1>2, <1>3, <1>4 DEF ApplyStep

\* Every other step leaves a thread's loop alone or begins a new one.
LEMMA LoopStep ==
  ASSUME DataInv, FiniteTables, FiniteTables', [Next]_vars,
         NEW e \in Devices, NEW v \in Workers, LoopInv(e, v)
  PROVE  LoopInv(e, v)'
<1>0. \A d \in Devices : stored[d] \subseteq stored'[d]
  BY StoredGrows
<1>1. CASE UNCHANGED work
  BY <1>0, <1>1, LoopKeeps
<1>2. CASE Next
  <2>1. PICK d \in Online :
          \/ \E w \in Sessions : \/ \E x \in Peers(d) : SessionOpens(d, w, x)
                                 \/ SessionThread(d, w)
                                 \/ SessionFails(d, w)
          \/ CommandThread(d)
          \/ \E x \in Devices : RemovePeer(d, x) \/ ApproveJoin(d, x)
          \/ JoinInstalls(d)
          \/ JoinLost(d)
          \/ Crash(d)
    BY <1>2 DEF Next
  <2>2. d \in Devices
    BY OnlineDevices
  <2>3. ASSUME NEW w \in Workers, NEW state, Become(d, w, state), stored' = stored,
               state.pc # "committing", state.pc = "applying" => state.tries = 0
        PROVE  LoopInv(e, v)'
    BY <2>2, <2>3, LoopLeaves
  <2>4. ASSUME NEW w \in Sessions, SessionStep(d, w) PROVE LoopInv(e, v)'
    <3>1. w \in Workers
      BY WorkersOf
    <3>2. CASE SessionReceives(d, w)
      BY <2>3, <3>1, <3>2 DEF SessionReceives
    <3>3. CASE SessionReads(d, w)
      BY <2>3, <3>1, <3>3 DEF SessionReads
    <3>4. CASE SessionInserts(d, w)
      BY <1>1, <3>4 DEF SessionInserts
    <3>5. CASE SessionMerged(d, w)
      BY <2>3, <3>1, <3>5 DEF SessionMerged
    <3>6. CASE SessionReplays(d, w)
      <4>1. stored' = stored
        BY <3>6 DEF SessionReplays
      <4>2. CASE Become(d, w, Idle)
        <5>1. Idle.pc = "idle"
          BY DEF Idle
        <5> QED
          BY <2>3, <3>1, <4>1, <4>2, <5>1
      <4>3. CASE ~Become(d, w, Idle)
        <5>1. PICK r : Become(d, w, [pc |-> "applying", change |-> Own(r).change, tries |-> 0,
                                     queue |-> work[d][w].queue \ {r}])
          BY <3>6, <4>3 DEF SessionReplays
        <5> QED
          BY <2>3, <3>1, <4>1, <5>1
      <4> QED
        BY <4>2, <4>3
    <3> QED
      BY <2>4, <3>2, <3>3, <3>4, <3>5, <3>6 DEF SessionStep
  <2>5. ASSUME NEW w \in Workers, ApplyStep(d, w) PROVE LoopInv(e, v)'
    BY <1>0, <2>2, <2>5, LoopApply
  <2>6. ASSUME NEW w \in Sessions, \/ \E x \in Peers(d) : SessionOpens(d, w, x)
                                   \/ SessionFails(d, w)
        PROVE  LoopInv(e, v)'
    <3>1. stored' = stored /\ w \in Workers
      BY <2>6, WorkersOf DEF SessionOpens, SessionFails
    <3>2. ASSUME NEW x \in Peers(d), SessionOpens(d, w, x) PROVE LoopInv(e, v)'
      BY <2>3, <3>1, <3>2 DEF SessionOpens
    <3>3. CASE SessionFails(d, w)
      <4>1. Become(d, w, Idle) /\ Idle.pc = "idle"
        BY <3>3 DEF SessionFails, Idle
      <4> QED
        BY <2>3, <3>1, <4>1
    <3> QED
      BY <2>6, <3>2, <3>3
  <2>7. CASE ApproveSends(d)
    <3>1. Become(d, "command", Idle) /\ stored' = stored
      BY <2>7 DEF ApproveSends
    <3>2. Idle.pc = "idle"
      BY DEF Idle
    <3> QED
      BY <2>3, <3>1, <3>2, WorkersOf
  <2>8. CASE \E x \in Devices : RemovePeer(d, x) \/ ApproveJoin(d, x)
    <3>1. PICK state : /\ Become(d, "command", state) /\ state.pc # "committing"
                       /\ state.pc = "applying" => state.tries = 0
      BY <2>8 DEF RemovePeer, ApproveJoin, Apply
    <3>2. stored' = stored
      BY <2>8 DEF RemovePeer, ApproveJoin
    <3> QED
      BY <2>3, <3>1, <3>2, WorkersOf
  <2>9. CASE Crash(d)
    <3>1. work'[e] = IF e = d THEN [w \in Workers |-> Idle] ELSE work[e]
      BY <2>9 DEF Crash, DataInv, DataType
    <3>2. CASE e = d
      BY <3>1, <3>2 DEF LoopInv, Idle
    <3>3. CASE e # d
      BY <1>0, <3>1, <3>3, LoopKeeps
    <3> QED
      BY <3>2, <3>3
  <2>10. CASE JoinInstalls(d) \/ JoinLost(d)
    BY <1>1, <2>10 DEF JoinInstalls, JoinLost
  <2> QED
    BY <2>1, <2>4, <2>5, <2>6, <2>7, <2>8, <2>9, <2>10, WorkersOf
       DEF SessionThread, CommandThread
<1> QED
  BY <1>1, <1>2 DEF vars

\* A revision on which a change was made is not one that the change has made.
LEMMA SpentIsOthers ==
  ASSUME NEW S \in SUBSET Revision, Sound(S), NEW d, NEW change \in Changes,
         NEW p \in Spent(S, d, change)
  PROVE  p \in S /\ (p = Base \/ Own(p).change # change)
<1>1. PICK r \in S : ValidChild(r, p) /\ Own(r) = [author |-> d, change |-> change]
  BY DEF Spent
<1>2. ~Satisfied(p, change) /\ p \in S
  BY <1>1 DEF ValidChild, Spent
<1>3. ASSUME p # Base, Own(p).change = change PROVE FALSE
  <2>1. PICK o \in S : ValidChild(p, o)
    BY <1>2, <1>3 DEF Sound
  <2>2. p.members = apply_change(o.members, change)
    BY <1>3, <2>1 DEF ValidChild, Child
  <2>3. change.kind \in {"Admit", "Remove"}
    BY DEF Changes, Admission, Removal
  <2>4. Satisfied(p, change)
    BY <2>2, <2>3 DEF Satisfied, apply_change
  <2> QED
    BY <1>2, <2>4
<1> QED
  BY <1>2, <1>3

LoopsBounded == \A d \in Devices, w \in Workers : LoopInv(d, w)

\* Tables are finite and every loop has used up a revision of its device's table
\* with each turn.
LEMMA LoopsHold == Spec => [](FiniteTables /\ LoopsBounded)
<1>1. Init => FiniteTables /\ LoopsBounded
  <2>1. IsFiniteSet({}) /\ IsFiniteSet({Base})
    BY FS_EmptySet, FS_Singleton
  <2> QED
    BY <2>1 DEF Init, FiniteTables, LoopsBounded, LoopInv, Idle
<1>2. Inv /\ FiniteTables /\ LoopsBounded /\ [Next]_vars => FiniteTables' /\ LoopsBounded'
  <2> SUFFICES ASSUME Inv, FiniteTables, LoopsBounded, [Next]_vars
               PROVE  FiniteTables' /\ LoopsBounded'
    OBVIOUS
  <2>1. DataInv
    BY DEF Inv
  <2>2. FiniteTables'
    BY <2>1, FiniteStep
  <2>3. \A d \in Devices, w \in Workers : LoopInv(d, w)'
    BY <2>1, <2>2, LoopStep DEF LoopsBounded
  <2> QED
    BY <2>2, <2>3 DEF LoopsBounded
<1> QED
  BY <1>1, <1>2, InvHolds, PTL DEF Spec

\* The retry loop of apply_roster_change_inner takes at most as many turns as its
\* device has stored revisions of other changes, for every group and every
\* interleaving with sessions, joins and other commands.
THEOREM RetriesCorrect == Spec => []RetriesBounded
<1>1. Inv /\ FiniteTables /\ LoopsBounded => RetriesBounded
  <2> SUFFICES ASSUME Inv, FiniteTables, LoopsBounded,
                      NEW d \in Devices, NEW w \in Workers, At(d, w, "applying")
               PROVE  work[d][w].tries <=
                          Cardinality({r \in stored[d] :
                                          r = Base \/ Own(r).change # work[d][w].change})
    BY DEF RetriesBounded
  <2> DEFINE me == work[d][w]
             A == Spent(stored[d], d, me.change)
             B == {r \in stored[d] : r = Base \/ Own(r).change # me.change}
  <2>1. me.pc = "applying" /\ me.change \in Changes /\ me.tries \in Nat
    <3>1. me \in WorkerState /\ me.pc = "applying"
      BY DEF Inv, DataInv, DataType, At
    <3> QED
      BY <3>1 DEF WorkerState, Idle
  <2>2. stored[d] \in SUBSET Revision /\ Sound(stored[d])
    BY StoredSoundEach DEF Inv, DataInv, DataType
  <2>3. A \subseteq B
    BY <2>1, <2>2, SpentIsOthers
  <2>4. IsFiniteSet(B)
    <3>1. B \subseteq stored[d] /\ IsFiniteSet(stored[d])
      BY DEF FiniteTables
    <3> QED
      BY <3>1, FS_Subset
  <2>5. me.tries <= Cardinality(A)
    BY <2>1 DEF LoopsBounded, LoopInv
  <2> HIDE DEF A, B
  <2>6. /\ Cardinality(A) \in Nat /\ Cardinality(B) \in Nat
        /\ Cardinality(A) <= Cardinality(B)
    BY <2>3, <2>4, CountGrows
  <2>7. me.tries <= Cardinality(B)
    BY <2>1, <2>5, <2>6
  <2> QED
    BY <2>7 DEF B
<1> QED
  BY <1>1, InvHolds, LoopsHold, PTL

-----------------------------------------------------------------------------
(* The selection only goes forward *)

\* A prefix agrees with the longer path as far as it goes.
LEMMA PrefixPoints ==
  ASSUME NEW Step, NEW s \in Seq(Step), NEW t \in Seq(Step)
  PROVE  IsPrefix(s, t) <=> /\ Len(s) <= Len(t)
                            /\ \A i \in 1 .. Len(s) : s[i] = t[i]
<1>1. ASSUME IsPrefix(s, t), NEW i \in 1 .. Len(s) PROVE Len(s) <= Len(t) /\ s[i] = t[i]
  <2>1. Len(s) <= Len(t) /\ SubSeq(s, 1, Len(s)) = SubSeq(t, 1, Len(s))
    BY <1>1 DEF IsPrefix
  <2>2. SubSeq(s, 1, Len(s))[i] = s[i] /\ SubSeq(t, 1, Len(s))[i] = t[i]
    BY <1>1, <2>1
  <2> QED
    BY <2>1, <2>2
<1>2. ASSUME Len(s) <= Len(t), \A i \in 1 .. Len(s) : s[i] = t[i] PROVE IsPrefix(s, t)
  <2>1. SubSeq(s, 1, Len(s)) = SubSeq(t, 1, Len(s))
    BY <1>2
  <2> QED
    BY <1>2, <2>1 DEF IsPrefix
<1> QED
  BY <1>1, <1>2 DEF IsPrefix

\* The parent's path is the child's without its last step.
LEMMA ParentPath ==
  ASSUME NEW r \in Revision, NEW p \in Revision, IsChild(r, p)
  PROVE  /\ Len(r.path) = Len(p.path) + 1 /\ Len(p.path) \in Nat
         /\ \A i \in 1 .. Len(p.path) : p.path[i] = r.path[i]
<1>1. r.path \in Seq([author : Devices, change : Changes]) /\ r.path # <<>>
  BY DEF Revision, IsChild
<1>2. p.path = SubSeq(r.path, 1, Len(r.path) - 1)
  BY DEF IsChild, Front
<1> QED
  BY <1>1, <1>2

\* A revision of a sound table that is not as long as an ancestor's line goes has
\* its line cut at any length: r has an ancestor one step longer than n.
LEMMA AncestorAt ==
  ASSUME NEW S \in SUBSET Revision, IsFiniteSet(S), Sound(S), NEW r \in S,
         NEW n \in Nat, n < Len(r.path)
  PROVE  \E o \in S : IsPrefix(o.path, r.path) /\ Len(o.path) = n + 1
<1> DEFINE Step == [author : Devices, change : Changes]
           B == {o \in S : IsPrefix(o.path, r.path) /\ n < Len(o.path)}
<1>1. \A x \in S : x.path \in Seq(Step) /\ Len(x.path) \in Nat
  BY PathLength DEF Revision
<1>2. r \in B
  <2>1. IsPrefix(r.path, r.path)
    BY <1>1, PrefixPoints
  <2> QED
    BY <2>1
<1>3. B \in SUBSET Revision /\ IsFiniteSet(B)
  BY FS_Subset
<1>4. PICK o \in B : \A q \in B : Len(o.path) <= Len(q.path)
  BY <1>2, <1>3, HasShortest
<1>5. o # Base
  <2>1. Len(Base.path) = 0
    BY DEF Base
  <2> QED
    BY <1>4, <2>1
<1>6. PICK p \in S : IsChild(o, p)
  BY <1>4, <1>5, HasParent
<1>7. /\ Len(o.path) = Len(p.path) + 1 /\ Len(p.path) \in Nat
      /\ \A i \in 1 .. Len(p.path) : p.path[i] = o.path[i]
  BY <1>4, <1>6, ParentPath
<1>8. IsPrefix(p.path, r.path)
  <2>1. Len(o.path) <= Len(r.path) /\ \A i \in 1 .. Len(o.path) : o.path[i] = r.path[i]
    BY <1>1, <1>4, PrefixPoints
  <2>2. Len(p.path) <= Len(r.path) /\ \A i \in 1 .. Len(p.path) : p.path[i] = r.path[i]
    BY <1>1, <1>7, <2>1
  <2> QED
    BY <1>1, <2>2, PrefixPoints
<1>9. ~(n < Len(p.path))
  <2>1. ~(Len(o.path) <= Len(p.path))
    BY <1>7
  <2> QED
    BY <1>4, <1>8, <2>1
<1> QED
  BY <1>1, <1>4, <1>7, <1>9

\* The tip of a table is beyond every revision in it: it goes on from that one, or
\* is on the better branch where the two part.
LEMMA TipBeyond ==
  ASSUME HashOrders, NEW S \in SUBSET Revision, IsFiniteSet(S), Sound(S),
         NEW t \in S, NEW u \in Tips(S)
  PROVE  Advances(S, t, u)
<1> DEFINE Step == [author : Devices, change : Changes]
           B == {q \in S : IsPrefix(q.path, t.path) /\ ~IsPrefix(q.path, u.path)}
<1>1. \A x \in S : x \in Revision /\ x.path \in Seq(Step) /\ Len(x.path) \in Nat
  BY PathLength DEF Revision
<1>2. u \in S /\ u \in Chain(S) /\ \A r \in S : ~IsChild(r, u)
  BY TipsStored DEF Tips
<1>3. CASE B = {}
  <2>1. IsPrefix(t.path, t.path)
    BY <1>1, PrefixPoints
  <2> QED
    BY <1>3, <2>1 DEF Advances
<1>4. CASE B # {}
  <2>1. B \in SUBSET Revision /\ IsFiniteSet(B)
    BY FS_Subset
  <2>2. PICK q \in B : \A x \in B : Len(q.path) <= Len(x.path)
    BY <1>4, <2>1, HasShortest
  <2>3. q \in S /\ IsPrefix(q.path, t.path) /\ ~IsPrefix(q.path, u.path)
    BY <2>2
  <2>4. q # Base
    <3>1. IsPrefix(Base.path, u.path)
      <4>1. Base.path = <<>> /\ Base \in S
        BY <2>3 DEF Base, Sound
      <4> QED
        BY <1>1, <1>2, <4>1, PrefixPoints
    <3> QED
      BY <2>3, <3>1
  <2>5. PICK p \in S : ValidChild(q, p) /\ IsChild(q, p)
    BY <2>3, <2>4, HasParent
  <2>6. /\ Len(q.path) = Len(p.path) + 1 /\ Len(p.path) \in Nat
        /\ \A i \in 1 .. Len(p.path) : p.path[i] = q.path[i]
    BY <1>1, <2>3, <2>5, ParentPath
  <2>7. IsPrefix(p.path, t.path)
    <3>1. Len(q.path) <= Len(t.path) /\ \A i \in 1 .. Len(q.path) : q.path[i] = t.path[i]
      BY <1>1, <2>3, PrefixPoints
    <3>2. Len(p.path) <= Len(t.path) /\ \A i \in 1 .. Len(p.path) : p.path[i] = t.path[i]
      BY <1>1, <2>6, <3>1
    <3> QED
      BY <1>1, <3>2, PrefixPoints
  <2>8. IsPrefix(p.path, u.path)
    <3>1. ~(Len(q.path) <= Len(p.path))
      BY <2>6
    <3> QED
      BY <2>2, <2>7, <3>1
  <2>9. Len(p.path) <= Len(u.path) /\ \A i \in 1 .. Len(p.path) : p.path[i] = u.path[i]
    BY <1>1, <1>2, <2>8, PrefixPoints
  <2>10. Len(p.path) < Len(u.path)
    <3>1. CASE Len(p.path) = Len(u.path)
      <4>1. p.path = u.path
        BY <1>1, <1>2, <2>9, <3>1
      <4>2. IsChild(q, u)
        BY <2>5, <4>1 DEF IsChild
      <4> QED
        BY <1>2, <2>3, <4>2
    <3> QED
      BY <1>1, <1>2, <2>9, <3>1
  <2> HIDE DEF B
  <2>11. PICK o \in S : IsPrefix(o.path, u.path) /\ Len(o.path) = Len(p.path) + 1
    BY <1>2, <2>6, <2>10, AncestorAt
  <2>12. \A i \in 1 .. Len(o.path) : o.path[i] = u.path[i]
    BY <1>1, <1>2, <2>11, PrefixPoints
  <2>13. PICK p2 \in S : ValidChild(o, p2) /\ IsChild(o, p2)
    <3>1. o # Base
      <4>1. Len(Base.path) = 0
        BY DEF Base
      <4> QED
        BY <2>6, <2>11, <4>1
    <3> QED
      BY <3>1, HasParent
  <2>14. p2 = p
    <3>1. /\ Len(o.path) = Len(p2.path) + 1 /\ Len(p2.path) \in Nat
          /\ \A i \in 1 .. Len(p2.path) : p2.path[i] = o.path[i]
      BY <1>1, <2>13, ParentPath
    <3>2. Len(p2.path) = Len(p.path)
      BY <2>6, <2>11, <3>1
    <3>3. \A i \in 1 .. Len(p.path) : p2.path[i] = p.path[i]
      BY <2>6, <2>9, <2>11, <2>12, <3>1, <3>2
    <3>4. p2.path = p.path
      BY <1>1, <3>2, <3>3
    <3> QED
      BY <3>4, PathDetermines
  <2>15. Siblings(o, q) /\ Siblings(q, o)
    BY <2>5, <2>13, <2>14 DEF IsChild, Siblings
  <2>16. ~Better(q, o)
    BY <1>2, <2>3, <2>11, <2>15 DEF Chain
  <2>17. Better(o, q)
    <3>1. o # q
      BY <2>3, <2>11
    <3> QED
      BY <1>1, <2>3, <2>5, <2>13, <2>14, <2>16, <3>1, SiblingsEqual
  <2> QED
    BY <2>3, <2>11, <2>15, <2>17 DEF Advances
<1> QED
  BY <1>3, <1>4

\* A device's selection goes on from the revision it was at or over to a better
\* branch, in every step of every group, if the hash tells siblings apart.
THEOREM SelectionCorrect ==
  ASSUME HashOrders
  PROVE  Spec => SelectionAdvances
<1>1. Inv /\ Inv' /\ FiniteTables' /\ [Next]_vars =>
         [\A d \in Devices : \A t \in Tips(stored[d]), u \in Tips(stored'[d]) :
             Advances(stored'[d], t, u)]_vars
  <2> SUFFICES ASSUME Inv, Inv', FiniteTables', [Next]_vars, NEW d \in Devices,
                      NEW t \in Tips(stored[d]), NEW u \in Tips(stored'[d])
               PROVE  Advances(stored'[d], t, u)
    OBVIOUS
  <2>1. t \in stored'[d]
    BY StoredGrows, TipsStored DEF Inv
  <2>2. stored'[d] \in SUBSET Revision /\ IsFiniteSet(stored'[d])
    BY DEF Inv, DataInv, DataType, FiniteTables
  <2>3. Sound(stored'[d])
    BY DEF Inv, DataInv, StoredSound, Sound
  <2> QED
    BY <2>1, <2>2, <2>3, TipBeyond
<1> QED
  BY <1>1, InvHolds, LoopsHold, PTL DEF Spec, SelectionAdvances
============================================================================
