------------------------- MODULE NetworkLoopProofs -------------------------
(***************************************************************************)
(* The safety invariants of NetworkLoop, for any number of peers, waits    *)
(* and permits and any capacity of the command channel.                    *)
(***************************************************************************)
EXTENDS NetworkLoop, FiniteSetTheorems, TLAPS

Task == [stage : Stages, seen : 0 .. MaxChanges, again : BOOLEAN, succeeded : BOOLEAN]

\* The absent session is a task, and is not running.
LEMMA NoTaskType == NoTask \in Task /\ NoTask.stage = "none"
  BY NetworkAssumption DEF NoTask, Task, Stages, NetworkAssumption

\* A step of the sessions leaves the type of `task` alone when it replaces one
\* session by another.
LEMMA TaskUpdate ==
    ASSUME TypeOK, NEW p \in Peers, NEW way \in Ways, NEW t \in Task,
           task' = [task EXCEPT ![p][way] = t]
    PROVE  task' \in [Peers -> [Ways -> Task]]
  BY DEF TypeOK, Task

\* What the sessions of a peer not dialled in this pass, and the incoming ones,
\* keep when the others are spawned.
LEMMA SpawnUpdate ==
    ASSUME TypeOK, NEW new \in SUBSET Peers, Spawn(new)
    PROVE  /\ task' \in [Peers -> [Ways -> Task]]
           /\ \A q \in new : task'[q]["Outgoing"].stage = "permit"
           /\ \A q \in Peers \ new : task'[q] = task[q]
  <1> DEFINE t == [NoTask EXCEPT !.stage = "permit"]
  <1>1. t \in Task /\ t.stage = "permit"
    BY NoTaskType DEF Task, Stages
  <1>2. task' = [p \in Peers |-> IF p \in new THEN [task[p] EXCEPT !["Outgoing"] = t]
                                              ELSE task[p]]
    BY DEF Spawn
  <1>3. task \in [Peers -> [Ways -> Task]]
    BY DEF TypeOK, Task
  <1> HIDE DEF t
  <1> QED BY <1>1, <1>2, <1>3 DEF Ways

\* A set of peers is finite, so that the summary counts it.
LEMMA PeersFinite ==
    ASSUME NEW S \in SUBSET Peers
    PROVE  IsFiniteSet(S) /\ Cardinality(S) \in Nat
  BY NetworkAssumption, FS_Subset, FS_CardinalityType DEF NetworkAssumption

\* The loop starts with no session and no wait.
LEMMA InitInv == Init => TypeOK /\ OutgoingIsRunning /\ SummarySound
  <1> SUFFICES ASSUME Init PROVE TypeOK /\ OutgoingIsRunning /\ SummarySound
    OBVIOUS
  <1>1. task \in [Peers -> [Ways -> Task]]
    BY NoTaskType DEF Init
  <1>2. TypeOK
    <2>1. queue \in Seq({"Trigger", "Shutdown"} \cup Waits) /\ Len(queue) <= Capacity
      BY NetworkAssumption DEF Init, NetworkAssumption
    <2>2. summary \in [attempted : Nat, succeeded : Nat]
      BY DEF Init
    <2>3. reached \in [Peers -> 0 .. MaxChanges]
      BY NetworkAssumption DEF Init, NetworkAssumption
    <2>4. version \in 0 .. MaxChanges /\ news \in 0 .. MaxNews
      BY NetworkAssumption DEF Init, NetworkAssumption
    <2>5. wait \in [Waits -> {"new", "waiting", "answered", "failed"}]
      BY DEF Init
    <2>6. active \subseteq Peers /\ outgoing \subseteq Peers /\ waiters \subseteq Waits
      BY NetworkAssumption DEF Init, NetworkAssumption
    <2>7. /\ pc \in {"drain", "select", "stopped"} /\ daemon \in {"running", "sending", "stopping"}
          /\ pending \in BOOLEAN /\ deferred \in BOOLEAN /\ stopping \in BOOLEAN
      BY DEF Init
    <2> QED BY <1>1, <2>1, <2>2, <2>3, <2>4, <2>5, <2>6, <2>7 DEF TypeOK, Task
  <1>3. OutgoingIsRunning
    BY NoTaskType DEF Init, OutgoingIsRunning, Ways
  <1> QED BY <1>2, <1>3 DEF Init, SummarySound

\* The command channel keeps its type and its bound.
LEMMA SendType ==
    ASSUME TypeOK, NEW command \in {"Trigger", "Shutdown"} \cup Waits, TrySend(command)
    PROVE  /\ queue' \in Seq({"Trigger", "Shutdown"} \cup Waits)
           /\ Len(queue') <= Capacity
  BY NetworkAssumption DEF TypeOK, TrySend, NetworkAssumption

----------------------------------------------------------------------------
(* Type correctness                                                        *)

\* Commands of the daemon and its clients keep the types.
LEMMA ClientType == ASSUME TypeOK, Client PROVE TypeOK'
  <1> USE NetworkAssumption DEF NetworkAssumption
  <1>1. CASE Trigger
    BY <1>1, SendType DEF Trigger, TypeOK, loopVars, clientVars, groupVars
  <1>2. CASE LocalChange
    BY <1>2, SendType DEF LocalChange, TypeOK, loopVars, groupVars
  <1>3. ASSUME NEW w \in Waits, SyncWait(w) PROVE TypeOK'
    BY <1>3, SendType DEF SyncWait, TypeOK, loopVars, groupVars
  <1>4. ASSUME NEW w \in Waits, WaitTimesOut(w) PROVE TypeOK'
    BY <1>4 DEF WaitTimesOut, TypeOK, loopVars, groupVars
  <1>5. CASE Stop
    BY <1>5 DEF Stop, fail_pending_syncs, TypeOK, loopVars, groupVars
  <1>6. CASE ShutdownSends
    BY <1>6 DEF ShutdownSends, TypeOK, loopVars, groupVars
  <1> QED BY <1>1, <1>2, <1>3, <1>4, <1>5, <1>6 DEF Client

\* So do the turns of the loop; the summary counts finite sets of peers.
LEMMA LoopType == ASSUME TypeOK, Loop PROVE TypeOK'
  <1> USE NetworkAssumption DEF NetworkAssumption
  <1>1. CASE LoopReceives
    <2>1. /\ queue' \in Seq({"Trigger", "Shutdown"} \cup Waits)
          /\ Len(queue') <= Capacity
      BY <1>1 DEF LoopReceives, TypeOK
    <2>2. summary' \in [attempted : Nat, succeeded : Nat]
      BY <1>1, PeersFinite DEF LoopReceives, TypeOK
    <2>3. stopping' \in BOOLEAN /\ deferred' \in BOOLEAN /\ pending' \in BOOLEAN
      BY <1>1, Zenon DEF LoopReceives, TypeOK
    <2>4. waiters' \subseteq Waits
      BY <1>1 DEF LoopReceives, TypeOK
    <2> QED BY <1>1, <2>1, <2>2, <2>3, <2>4 DEF LoopReceives, TypeOK, clientVars, groupVars
  <1>2. CASE LoopStops
    <2>1. task' \in [Peers -> [Ways -> Task]]
      BY <1>2, NoTaskType DEF LoopStops
    <2> QED BY <1>2, <2>1 DEF LoopStops, TypeOK, Task, clientVars, groupVars
  <1>3. ASSUME NEW due \in BOOLEAN, NEW readable \in BOOLEAN, LoopPass(due, readable)
        PROVE  TypeOK'
    <2> DEFINE new == IF StartsPass(due) /\ readable THEN active \ outgoing ELSE {}
    <2>1. new \in SUBSET Peers
      BY DEF TypeOK
    <2>2. Spawn(new) /\ outgoing' = outgoing \cup new
      BY <1>3 DEF LoopPass
    <2>3. task' \in [Peers -> [Ways -> Task]]
      BY <2>1, <2>2, SpawnUpdate
    <2>4. Cardinality(new) \in Nat
      BY <2>1, PeersFinite
    <2>5. CASE Answers(outgoing')
      <3>1. /\ waiters' = {} /\ pending' = deferred /\ deferred' = FALSE
            /\ summary' = [attempted |-> 0, succeeded |-> 0]
            /\ wait' = [w \in Waits |-> IF w \in waiters /\ wait[w] = "waiting"
                                          THEN "answered" ELSE wait[w]]
        BY <1>3, <2>5 DEF LoopPass
      <3> QED BY <1>3, <2>1, <2>2, <2>3, <3>1 DEF LoopPass, TypeOK, Task, groupVars
    <2>6. CASE ~Answers(outgoing')
      <3>1. summary' = IF waiters # {}
                         THEN [summary EXCEPT !.attempted = @ + Cardinality(new)]
                         ELSE summary
        BY <1>3, <2>6 DEF LoopPass
      <3>2. pending' = FALSE /\ UNCHANGED <<wait, waiters, deferred>>
        BY <1>3, <2>6 DEF LoopPass
      <3> DEFINE n == Cardinality(new)
      <3>3. summary' = IF waiters # {} THEN [summary EXCEPT !.attempted = @ + n] ELSE summary
        BY <3>1
      <3>4. n \in Nat
        BY <2>4
      <3> HIDE DEF new, n
      <3>5. summary \in [attempted : Nat, succeeded : Nat]
        BY DEF TypeOK
      <3>6. summary' \in [attempted : Nat, succeeded : Nat]
        BY <3>3, <3>4, <3>5
      <3> QED BY <1>3, <2>1, <2>2, <2>3, <3>2, <3>6 DEF LoopPass, TypeOK, Task, groupVars
    <2> QED BY <2>5, <2>6
  <1>4. ASSUME NEW p \in Peers, LoopAccepts(p) PROVE TypeOK'
    <2>1. task' \in [Peers -> [Ways -> Task]]
      <3> DEFINE t == [task[p]["Incoming"] EXCEPT !.stage = "connecting"]
      <3>1. task[p]["Incoming"] \in Task
        BY DEF TypeOK, Task, Ways
      <3>2. t \in Task
        BY <3>1 DEF Task, Stages
      <3>3. task' = [task EXCEPT ![p]["Incoming"] = t]
        BY <1>4 DEF LoopAccepts
      <3> HIDE DEF t
      <3> QED BY <3>2, <3>3, TaskUpdate DEF Ways
    <2> QED BY <1>4, <2>1 DEF LoopAccepts, TypeOK, Task, clientVars, groupVars
  <1>5. ASSUME NEW p \in Peers, NEW way \in Ways, LoopJoins(p, way) PROVE TypeOK'
    <2>1. task' \in [Peers -> [Ways -> Task]]
      BY <1>5, NoTaskType, TaskUpdate DEF LoopJoins
    <2>2. task[p][way] \in Task
      BY DEF TypeOK, Task
    <2>3. pending' \in BOOLEAN
      BY <1>5, <2>2, Zenon DEF LoopJoins, TypeOK, Task
    <2>4. summary' \in [attempted : Nat, succeeded : Nat]
      BY <1>5 DEF LoopJoins, TypeOK
    <2> QED BY <1>5, <2>1, <2>3, <2>4 DEF LoopJoins, TypeOK, Task, clientVars, groupVars
  <1>6. CASE LoopTicks
    BY <1>6 DEF LoopTicks, TypeOK, clientVars, groupVars
  <1> QED BY <1>1, <1>2, <1>3, <1>4, <1>5, <1>6 DEF Loop

\* A step of a session replaces it by another that is under way or ended, and
\* touches nothing of the loop.
LEMMA SessionUpdates ==
    ASSUME TypeOK, NEW p \in Peers, NEW way \in Ways, Session(p, way)
    PROVE  /\ task[p][way].stage # "none"
           /\ \E t \in Task : t.stage # "none" /\ task' = [task EXCEPT ![p][way] = t]
           /\ UNCHANGED <<queue, loopVars, clientVars>>
           /\ reached' \in [Peers -> 0 .. MaxChanges]
           /\ active' \subseteq Peers
           /\ news' \in 0 .. MaxNews
  <1> USE NetworkAssumption DEF NetworkAssumption
  <1>0. task[p][way] \in Task
    BY DEF TypeOK, Task
  <1>a. 0 \in 0 .. MaxChanges
    OBVIOUS
  <1>1. ASSUME NEW changed \in BOOLEAN, Learns(changed)
        PROVE  active' \subseteq Peers /\ news' \in 0 .. MaxNews
    BY <1>1 DEF Learns, TypeOK
  <1>2. ASSUME NEW changed \in BOOLEAN, TaskExchanges(p, way, changed)
        PROVE  \E t \in Task : t.stage # "none" /\ task' = [task EXCEPT ![p][way] = t]
    <2> DEFINE t == [task[p][way] EXCEPT !.stage = "exchanged", !.seen = version, !.again = changed]
    <2>1. t \in Task /\ t.stage = "exchanged"
      BY <1>0 DEF Task, Stages, TypeOK
    <2>2. task' = [task EXCEPT ![p][way] = t]
      BY <1>2 DEF TaskExchanges
    <2> HIDE DEF t
    <2> QED BY <2>1, <2>2
  <1>3. ASSUME TaskRefused(p, way)
        PROVE  \E t \in Task : t.stage # "none" /\ task' = [task EXCEPT ![p][way] = t]
    <2> DEFINE t == [task[p][way] EXCEPT !.stage = "ended", !.again = TRUE]
    <2>1. t \in Task /\ t.stage = "ended"
      BY <1>0 DEF Task, Stages
    <2>2. task' = [task EXCEPT ![p][way] = t]
      BY <1>3 DEF TaskRefused
    <2> HIDE DEF t
    <2> QED BY <2>1, <2>2
  <1>4. ASSUME TaskFails(p, way)
        PROVE  \E t \in Task : t.stage # "none" /\ task' = [task EXCEPT ![p][way] = t]
    <2> DEFINE t == [task[p][way] EXCEPT !.stage = "ended", !.again = FALSE, !.seen = 0]
    <2>1. t \in Task /\ t.stage = "ended"
      BY <1>0, <1>a DEF Task, Stages
    <2>2. task' = [task EXCEPT ![p][way] = t]
      BY <1>4 DEF TaskFails
    <2> HIDE DEF t
    <2> QED BY <2>1, <2>2
  <1>5. ASSUME TaskSucceeds(p, way)
        PROVE  \E t \in Task : t.stage # "none" /\ task' = [task EXCEPT ![p][way] = t]
    <2> DEFINE t == [task[p][way] EXCEPT !.stage = "ended", !.succeeded = TRUE, !.seen = 0]
    <2>1. t \in Task /\ t.stage = "ended"
      BY <1>0, <1>a DEF Task, Stages
    <2>2. task' = [task EXCEPT ![p][way] = t]
      BY <1>5 DEF TaskSucceeds
    <2> HIDE DEF t
    <2> QED BY <2>1, <2>2
  <1>6. \E t \in Task : t.stage # "none" /\ task' = [task EXCEPT ![p][way] = t]
    BY <1>2, <1>3, <1>4, <1>5 DEF Session
  <1>7. task[p][way].stage # "none" /\ UNCHANGED <<queue, loopVars, clientVars>>
    BY DEF Session, TaskExchanges, TaskRefused, TaskFails, TaskSucceeds
  <1>8. active' \subseteq Peers /\ news' \in 0 .. MaxNews
    BY <1>1 DEF Session, TaskExchanges, TaskRefused, TaskFails, TaskSucceeds, groupVars, TypeOK
  <1>9. reached' \in [Peers -> 0 .. MaxChanges]
    <2>1. CASE TaskSucceeds(p, way)
      <3>1. task[p][way].seen \in 0 .. MaxChanges
        BY <1>0 DEF Task
      <3> QED BY <2>1, <3>1 DEF TaskSucceeds, TypeOK
    <2>2. CASE ~TaskSucceeds(p, way)
      BY <2>2 DEF Session, TaskExchanges, TaskRefused, TaskFails, groupVars, TypeOK
    <2> QED BY <2>1, <2>2
  <1> QED BY <1>6, <1>7, <1>8, <1>9

\* TaskStarts is such a step as well.
LEMMA StartUpdates ==
    ASSUME TypeOK, NEW p \in Peers, TaskStarts(p)
    PROVE  /\ task[p]["Outgoing"].stage # "none"
           /\ \E t \in Task : t.stage # "none" /\ task' = [task EXCEPT ![p]["Outgoing"] = t]
           /\ UNCHANGED <<queue, loopVars, clientVars, groupVars>>
  <1> DEFINE t == [task[p]["Outgoing"] EXCEPT !.stage = "connecting"]
  <1>1. task[p]["Outgoing"] \in Task
    BY DEF TypeOK, Task, Ways
  <1>2. t \in Task /\ t.stage = "connecting"
    BY <1>1 DEF Task, Stages
  <1>3. task' = [task EXCEPT ![p]["Outgoing"] = t]
    BY DEF TaskStarts
  <1>4. task[p]["Outgoing"].stage # "none" /\ UNCHANGED <<queue, loopVars, clientVars, groupVars>>
    BY DEF TaskStarts
  <1> HIDE DEF t
  <1> QED BY <1>2, <1>3, <1>4

\* Type correctness is inductive by itself.
LEMMA NextType == ASSUME TypeOK, [Next]_vars PROVE TypeOK'
  <1>1. CASE Client
    BY <1>1, ClientType
  <1>2. CASE Loop
    BY <1>2, LoopType
  <1>3. ASSUME NEW p \in Peers, TaskStarts(p) PROVE TypeOK'
    <2>1. task' \in [Peers -> [Ways -> Task]]
      BY <1>3, StartUpdates, TaskUpdate DEF Ways
    <2> QED BY <1>3, <2>1, StartUpdates DEF TypeOK, Task, loopVars, clientVars, groupVars
  <1>4. ASSUME NEW p \in Peers, NEW way \in Ways, Session(p, way) PROVE TypeOK'
    <2>1. task' \in [Peers -> [Ways -> Task]]
      BY <1>4, SessionUpdates, TaskUpdate
    <2> QED BY <1>4, <2>1, SessionUpdates DEF TypeOK, Task, loopVars, clientVars
  <1>5. CASE UNCHANGED vars
    BY <1>5 DEF vars, TypeOK, loopVars, clientVars, groupVars
  <1> QED BY <1>1, <1>2, <1>3, <1>4, <1>5 DEF Next

----------------------------------------------------------------------------
(* At most one outgoing session per peer, and none forgotten               *)

\* Only the pass, the join and the end change which peers are dialled; every other
\* step leaves a running session running.
LEMMA NextOutgoing ==
    ASSUME TypeOK, OutgoingIsRunning, [Next]_vars
    PROVE  OutgoingIsRunning'
  <1>0. task \in [Peers -> [Ways -> Task]]
    BY DEF TypeOK, Task
  <1>1. CASE UNCHANGED <<task, outgoing>>
    BY <1>1 DEF OutgoingIsRunning
  <1>2. ASSUME NEW p \in Peers, NEW way \in Ways, NEW t \in Task,
               task' = [task EXCEPT ![p][way] = t],
               way = "Incoming" \/ (t.stage # "none" /\ task[p][way].stage # "none"),
               UNCHANGED outgoing
        PROVE  OutgoingIsRunning'
    <2>1. /\ task'[p][way] = t
          /\ \A q \in Peers, v \in Ways : q # p \/ v # way => task'[q][v] = task[q][v]
      BY <1>0, <1>2
    <2>2. \A q \in Peers : task'[q]["Outgoing"].stage # "none" <=> task[q]["Outgoing"].stage # "none"
      BY <1>2, <2>1 DEF Ways
    <2> QED BY <1>2, <2>2 DEF OutgoingIsRunning
  <1>3. CASE Client
    BY <1>1, <1>3 DEF Client, Trigger, LocalChange, SyncWait, WaitTimesOut, Stop, ShutdownSends,
                        loopVars
  <1>4. CASE LoopReceives \/ LoopTicks
    BY <1>1, <1>4 DEF LoopReceives, LoopTicks
  <1>5. CASE LoopStops
    BY <1>5, NoTaskType DEF LoopStops, Ways, OutgoingIsRunning
  <1>6. ASSUME NEW due \in BOOLEAN, NEW readable \in BOOLEAN, LoopPass(due, readable)
        PROVE  OutgoingIsRunning'
    <2> DEFINE new == IF StartsPass(due) /\ readable THEN active \ outgoing ELSE {}
    <2>1. new \in SUBSET Peers
      BY DEF TypeOK
    <2>2. Spawn(new) /\ outgoing' = outgoing \cup new
      BY <1>6 DEF LoopPass
    <2> HIDE DEF new
    <2>3. /\ \A q \in new : task'[q]["Outgoing"].stage = "permit"
          /\ \A q \in Peers \ new : task'[q] = task[q]
      BY <2>1, <2>2, SpawnUpdate
    <2> QED BY <2>1, <2>2, <2>3 DEF OutgoingIsRunning
  <1>7. ASSUME NEW p \in Peers, LoopAccepts(p) PROVE OutgoingIsRunning'
    <2> DEFINE t == [task[p]["Incoming"] EXCEPT !.stage = "connecting"]
    <2>1. task[p]["Incoming"] \in Task
      BY DEF TypeOK, Task, Ways
    <2>2. t \in Task
      BY <2>1 DEF Task, Stages
    <2>3. task' = [task EXCEPT ![p]["Incoming"] = t] /\ UNCHANGED outgoing
      BY <1>7 DEF LoopAccepts
    <2> HIDE DEF t
    <2> QED BY <1>2, <2>2, <2>3 DEF Ways
  <1>8. ASSUME NEW p \in Peers, NEW way \in Ways, LoopJoins(p, way)
        PROVE  OutgoingIsRunning'
    <2>1. /\ task'[p][way] = NoTask
          /\ \A q \in Peers, v \in Ways : q # p \/ v # way => task'[q][v] = task[q][v]
      BY <1>0, <1>8 DEF LoopJoins
    <2>2. outgoing' = IF way = "Outgoing" THEN outgoing \ {p} ELSE outgoing
      BY <1>8 DEF LoopJoins
    <2> QED BY <2>1, <2>2, NoTaskType DEF Ways, OutgoingIsRunning
  <1>9. ASSUME NEW p \in Peers, TaskStarts(p) PROVE OutgoingIsRunning'
    BY <1>2, <1>9, StartUpdates DEF loopVars, Ways
  <1>10. ASSUME NEW p \in Peers, NEW way \in Ways, Session(p, way)
         PROVE  OutgoingIsRunning'
    BY <1>2, <1>10, SessionUpdates DEF loopVars
  <1>11. CASE UNCHANGED vars
    BY <1>1, <1>11 DEF vars, loopVars
  <1> QED BY <1>3, <1>4, <1>5, <1>6, <1>7, <1>8, <1>9, <1>10, <1>11 DEF Next, Loop

----------------------------------------------------------------------------
(* The summary                                                             *)

\* The pass counts the peers it adds, and a join takes one from those dialled,
\* which OutgoingIsRunning shows was among them, for at most one success.
LEMMA NextSummary ==
    ASSUME TypeOK, OutgoingIsRunning, SummarySound, [Next]_vars
    PROVE  SummarySound'
  <1>0. /\ IsFiniteSet(outgoing) /\ Cardinality(outgoing) \in Nat
        /\ summary.attempted \in Nat /\ summary.succeeded \in Nat
    BY PeersFinite DEF TypeOK
  <1>1. CASE UNCHANGED <<waiters, summary, outgoing>>
    BY <1>1 DEF SummarySound
  <1>2. CASE LoopReceives
    <2>1. CASE waiters # {}
      BY <1>2, <2>1 DEF LoopReceives, SummarySound
    <2>2. CASE waiters = {} /\ Head(queue) \in Waits
      BY <1>0, <1>2, <2>2 DEF LoopReceives, SummarySound
    <2>3. CASE waiters = {} /\ Head(queue) \notin Waits
      BY <1>2, <2>3 DEF LoopReceives, SummarySound
    <2> QED BY <2>1, <2>2, <2>3
  <1>3. CASE LoopStops
    BY <1>3 DEF LoopStops, SummarySound
  <1>4. ASSUME NEW due \in BOOLEAN, NEW readable \in BOOLEAN, LoopPass(due, readable)
        PROVE  SummarySound'
    <2> DEFINE new == IF StartsPass(due) /\ readable THEN active \ outgoing ELSE {}
    <2>1. new \in SUBSET Peers /\ outgoing \cap new = {}
      BY DEF TypeOK
    <2>2. outgoing' = outgoing \cup new
      BY <1>4 DEF LoopPass
    <2>3. CASE Answers(outgoing')
      <3>1. waiters' = {}
        BY <1>4, <2>3 DEF LoopPass
      <3> QED BY <3>1 DEF SummarySound
    <2>4. CASE ~Answers(outgoing') /\ waiters = {}
      <3>1. waiters' = {}
        BY <1>4, <2>4 DEF LoopPass
      <3> QED BY <3>1 DEF SummarySound
    <2>5. CASE ~Answers(outgoing') /\ waiters # {}
      <3> DEFINE n == Cardinality(new)
      <3>1. summary' = [summary EXCEPT !.attempted = @ + n]
        BY <1>4, <2>5 DEF LoopPass
      <3> HIDE DEF new
      <3>2. n \in Nat /\ IsFiniteSet(new)
        BY <2>1, PeersFinite
      <3>3. Cardinality(outgoing \cup new) = Cardinality(outgoing) + n
        BY <1>0, <2>1, <3>2, FS_Union, FS_EmptySet
      <3> HIDE DEF n
      <3>4. summary \in [attempted : Nat, succeeded : Nat]
        BY DEF TypeOK
      <3>5. /\ summary'.attempted = summary.attempted + n
            /\ summary'.succeeded = summary.succeeded
        BY <3>1, <3>4
      <3>6. summary.succeeded + Cardinality(outgoing) <= summary.attempted
        BY <2>5 DEF SummarySound
      <3>7. summary'.succeeded + Cardinality(outgoing') <= summary'.attempted
        BY <1>0, <2>2, <3>2, <3>3, <3>5, <3>6
      <3> QED BY <3>7 DEF SummarySound
    <2> QED BY <2>3, <2>4, <2>5
  <1>5. ASSUME NEW p \in Peers, NEW way \in Ways, LoopJoins(p, way)
        PROVE  SummarySound'
    <2>1. CASE way = "Incoming"
      BY <1>1, <1>5, <2>1 DEF LoopJoins
    <2>2. CASE way = "Outgoing"
      <3>1. p \in outgoing
        BY <1>5, <2>2 DEF LoopJoins, OutgoingIsRunning
      <3>2. outgoing' = outgoing \ {p} /\ waiters' = waiters
        BY <1>5, <2>2 DEF LoopJoins
      <3>3. Cardinality(outgoing') = Cardinality(outgoing) - 1
        BY <1>0, <3>1, <3>2, FS_RemoveElement
      <3>4. /\ summary'.attempted = summary.attempted
            /\ summary'.succeeded \in {summary.succeeded, summary.succeeded + 1}
        BY <1>5 DEF LoopJoins, TypeOK
      <3> QED BY <1>0, <3>2, <3>3, <3>4 DEF SummarySound
    <2> QED BY <2>1, <2>2 DEF Ways
  <1>6. CASE Client \/ LoopTicks \/ (\E p \in Peers : LoopAccepts(p))
    BY <1>1, <1>6 DEF Client, Trigger, LocalChange, SyncWait, WaitTimesOut, Stop, ShutdownSends,
                        loopVars,
                      LoopTicks, LoopAccepts
  <1>7. ASSUME NEW p \in Peers, TaskStarts(p) PROVE SummarySound'
    BY <1>1, <1>7, StartUpdates DEF loopVars
  <1>8. ASSUME NEW p \in Peers, NEW way \in Ways, Session(p, way) PROVE SummarySound'
    BY <1>1, <1>8, SessionUpdates DEF loopVars
  <1>9. CASE UNCHANGED vars
    BY <1>1, <1>9 DEF vars, loopVars
  <1> QED BY <1>2, <1>3, <1>4, <1>5, <1>6, <1>7, <1>8, <1>9 DEF Next, Loop

----------------------------------------------------------------------------
(* The theorems                                                            *)

\* Every variable keeps its type, and the command channel its bound.
THEOREM NetworkTypeCorrect == Spec => []TypeOK
  BY InitInv, NextType, PTL DEF Spec

\* The loop's set of outgoing peers (run_network_loop, `outgoing`) is at all times
\* the set of peers for which an outgoing session exists: no peer is dialled twice
\* at a time, and none is left out for ever as dialled.
THEOREM OutgoingCorrect == Spec => []OutgoingIsRunning
  <1>1. TypeOK /\ OutgoingIsRunning /\ [Next]_vars => (TypeOK /\ OutgoingIsRunning)'
    BY NextType, NextOutgoing
  <1> QED BY <1>1, InitInv, PTL DEF Spec

\* A wait is never told of more successes than attempts (SyncSummary): what has
\* succeeded and what may still succeed was counted as attempted, also for
\* sessions that began before the wait.
THEOREM SummaryCorrect == Spec => []SummarySound
  <1>1. TypeOK /\ OutgoingIsRunning /\ SummarySound /\ [Next]_vars
          => (TypeOK /\ OutgoingIsRunning /\ SummarySound)'
    BY NextType, NextOutgoing, NextSummary
  <1> QED BY <1>1, InitInv, PTL DEF Spec
============================================================================
