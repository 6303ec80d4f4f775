---------------------------- MODULE NetworkLoop ----------------------------
(***************************************************************************)
(* The network thread of the daemon (network.rs, run_network_loop): the    *)
(* bounded command queue, the loop that turns triggers and the timer into  *)
(* outgoing sessions, at most one per peer, the sessions as tasks that     *)
(* share the permits with incoming ones, and the `sync --wait` requests    *)
(* that are answered when no outgoing session is left (daemon.rs).         *)
(*                                                                         *)
(* Of a session the module keeps when it reads the local manifests, since  *)
(* a change made later is not in them, and how it ends.  Local changes are *)
(* numbered; `reached` is the newest one each peer has.                    *)
(***************************************************************************)
EXTENDS Naturals, Sequences, FiniteSets

CONSTANTS
    Peers,        \* EndpointIds other than this device's
    Members,      \* the active peers at the start
    Waits,        \* `sync --wait` requests, each made once at most
    Capacity,     \* COMMAND_CAPACITY
    Permits,      \* MAX_CONCURRENT_SESSIONS
    MaxPending,   \* MAX_PENDING_SYNC_WAITS
    MaxChanges,   \* bound on local changes
    MaxNews       \* bound on roster changes that sessions bring

ASSUME NetworkAssumption ==
    /\ IsFiniteSet(Peers)
    /\ Members \subseteq Peers
    /\ {"Trigger", "Shutdown"} \cap Waits = {}
    /\ Capacity \in Nat
    /\ Permits \in Nat
    /\ MaxPending \in Nat
    /\ MaxChanges \in Nat
    /\ MaxNews \in Nat

VARIABLES
    queue,      \* the command channel; a Sync command is its wait
    pc,         \* where the loop stands
    pending,    \* pending_trigger
    deferred,   \* deferred_trigger
    stopping,   \* a Shutdown command was received
    outgoing,   \* peers with an outgoing session, in the loop's view
    waiters,    \* the waits the loop has to answer
    summary,    \* SyncSummary
    task,       \* task[p][way]: the session with p, dialled or accepted
    wait,       \* what the client of each wait knows
    daemon,     \* the main thread: running, waiting to send Shutdown, or shutting down
    version,    \* the newest local change
    reached,    \* the newest change each peer has
    active,     \* the active peers in the selected roster
    news        \* roster changes that sessions have brought

loopVars == <<pc, pending, deferred, stopping, outgoing, waiters, summary>>
clientVars == <<wait, daemon, version>>
groupVars == <<reached, active, news>>
vars == <<queue, loopVars, task, clientVars, groupVars>>

Ways == {"Incoming", "Outgoing"}

Stages == {"none", "permit", "connecting", "exchanged", "ended"}

NoTask == [stage |-> "none", seen |-> 0, again |-> FALSE, succeeded |-> FALSE]

\* Every variable has its type, and no command is queued beyond the capacity.
TypeOK ==
    /\ queue \in Seq({"Trigger", "Shutdown"} \cup Waits) /\ Len(queue) <= Capacity
    /\ pc \in {"drain", "select", "stopped"}
    /\ pending \in BOOLEAN
    /\ deferred \in BOOLEAN
    /\ stopping \in BOOLEAN
    /\ outgoing \subseteq Peers
    /\ waiters \subseteq Waits
    /\ summary \in [attempted : Nat, succeeded : Nat]
    /\ task \in [Peers -> [Ways -> [stage : Stages, seen : 0 .. MaxChanges,
                                    again : BOOLEAN, succeeded : BOOLEAN]]]
    /\ wait \in [Waits -> {"new", "waiting", "answered", "failed"}]
    /\ daemon \in {"running", "sending", "stopping"}
    /\ version \in 0 .. MaxChanges
    /\ reached \in [Peers -> 0 .. MaxChanges]
    /\ active \subseteq Peers
    /\ news \in 0 .. MaxNews

\* The loop starts with a trigger pending.
Init ==
    /\ queue = <<>>
    /\ pc = "drain"
    /\ pending = TRUE
    /\ deferred = FALSE
    /\ stopping = FALSE
    /\ outgoing = {}
    /\ waiters = {}
    /\ summary = [attempted |-> 0, succeeded |-> 0]
    /\ task = [p \in Peers |-> [way \in Ways |-> NoTask]]
    /\ wait = [w \in Waits |-> "new"]
    /\ daemon = "running"
    /\ version = 0
    /\ reached = [p \in Peers |-> 0]
    /\ active = Members
    /\ news = 0

----------------------------------------------------------------------------
(* The daemon's main thread                                                *)

\* Mutant: the channel has no bound.
TrySendAlways(command) == queue' = Append(queue, command)

\* try_send: a full channel drops the command.
TrySend(command) ==
    queue' = IF Len(queue) < Capacity THEN Append(queue, command) ELSE queue

\* trigger(), on behalf of `sync` without --wait, of a roster command, ...
Trigger ==
    /\ daemon = "running"
    /\ TrySend("Trigger")
    /\ UNCHANGED <<loopVars, task, clientVars, groupVars>>

\* ... or of a scan that changed a record.
LocalChange ==
    /\ daemon = "running"
    /\ version < MaxChanges
    /\ version' = version + 1
    /\ TrySend("Trigger")
    /\ UNCHANGED <<loopVars, task, wait, daemon, groupVars>>

\* start_sync; too many waits, or a full channel, is an error at once.
SyncWait(w) ==
    /\ daemon = "running"
    /\ wait[w] = "new"
    /\ IF /\ Len(queue) < Capacity
          /\ Cardinality({x \in Waits : wait[x] = "waiting"}) < MaxPending
         THEN TrySend(w) /\ wait' = [wait EXCEPT ![w] = "waiting"]
         ELSE UNCHANGED queue /\ wait' = [wait EXCEPT ![w] = "failed"]
    /\ UNCHANGED <<loopVars, task, daemon, version, groupVars>>

\* finish_pending_syncs after SYNC_WAIT_TIMEOUT; the loop does not learn of it.
WaitTimesOut(w) ==
    /\ daemon = "running"
    /\ wait[w] = "waiting"
    /\ wait' = [wait EXCEPT ![w] = "failed"]
    /\ UNCHANGED <<queue, loopVars, task, daemon, version, groupVars>>

fail_pending_syncs ==
    wait' = [w \in Waits |-> IF wait[w] = "waiting" THEN "failed" ELSE wait[w]]

\* A signal or a stop request: fail_pending_syncs, then shutdown.
Stop ==
    /\ daemon = "running"
    /\ daemon' = "sending"
    /\ fail_pending_syncs
    /\ UNCHANGED <<queue, loopVars, task, version, groupVars>>

\* Mutant: the shutdown command is dropped by a full channel.
ShutdownTrySends ==
    /\ daemon = "sending"
    /\ daemon' = "stopping"
    /\ TrySend("Shutdown")
    /\ UNCHANGED <<loopVars, task, wait, version, groupVars>>

\* The send of shutdown waits until the channel has room.
ShutdownSends ==
    /\ daemon = "sending"
    /\ Len(queue) < Capacity
    /\ daemon' = "stopping"
    /\ queue' = Append(queue, "Shutdown")
    /\ UNCHANGED <<loopVars, task, wait, version, groupVars>>

----------------------------------------------------------------------------
(* The loop                                                                *)

\* Mutant: a wait starts counting at zero.
LoopReceivesUncounted ==
    /\ pc = "drain"
    /\ queue # <<>>
    /\ queue' = Tail(queue)
    /\ LET command == Head(queue)
       IN  /\ stopping' = (stopping \/ command = "Shutdown")
           /\ deferred' = (deferred \/ (command = "Trigger" /\ waiters # {}))
           /\ pending' = (pending \/ (command # "Shutdown" /\ waiters = {}))
           /\ waiters' = waiters \cup ({command} \cap Waits)
           /\ summary' = IF command \in Waits /\ waiters = {}
                           THEN [attempted |-> 0, succeeded |-> 0]
                           ELSE summary
    /\ UNCHANGED <<pc, outgoing, task, clientVars, groupVars>>

\* One command.  While somebody waits a trigger is deferred and a further wait
\* joins; otherwise both start a pass, and a wait starts counting, the sessions
\* under way included.
LoopReceives ==
    /\ pc = "drain"
    /\ queue # <<>>
    /\ queue' = Tail(queue)
    /\ LET command == Head(queue)
       IN  /\ stopping' = (stopping \/ command = "Shutdown")
           /\ deferred' = (deferred \/ (command = "Trigger" /\ waiters # {}))
           /\ pending' = (pending \/ (command # "Shutdown" /\ waiters = {}))
           /\ waiters' = waiters \cup ({command} \cap Waits)
           /\ summary' = IF command \in Waits /\ waiters = {}
                           THEN [attempted |-> Cardinality(outgoing), succeeded |-> 0]
                           ELSE summary
    /\ UNCHANGED <<pc, outgoing, task, clientVars, groupVars>>

\* The channel is empty after a shutdown command: every task is aborted, and
\* the loop's variables go with it.
LoopStops ==
    /\ pc = "drain"
    /\ queue = <<>>
    /\ stopping
    /\ pc' = "stopped"
    /\ task' = [p \in Peers |-> [way \in Ways |-> NoTask]]
    /\ outgoing' = {}
    /\ waiters' = {}
    /\ summary' = [attempted |-> 0, succeeded |-> 0]
    /\ pending' = FALSE
    /\ deferred' = FALSE
    /\ UNCHANGED <<queue, stopping, clientVars, groupVars>>

\* A pass is due: by a trigger, or by the interval unless somebody waits.
StartsPass(due) == pending \/ (due /\ waiters = {})

\* A session is spawned for every active peer that has none.
Spawn(new) ==
    task' = [p \in Peers |->
               IF p \in new
                 THEN [task[p] EXCEPT !["Outgoing"] = [NoTask EXCEPT !.stage = "permit"]]
                 ELSE task[p]]

\* Mutant: the waiters are looked at only in a turn that starts a pass.
AnswersInPass(out) == pending /\ out = {} /\ waiters # {}

\* The waiters are answered once no outgoing session is left.
Answers(out) == out = {} /\ waiters # {}

\* The rest of one turn, up to select!: the interval, the pass (unless the
\* roster cannot be read), and the answer to the waiters, with which a deferred
\* trigger comes due.
LoopPass(due, readable) ==
    /\ pc = "drain"
    /\ queue = <<>>
    /\ ~stopping
    /\ pc' = "select"
    /\ LET new == IF StartsPass(due) /\ readable THEN active \ outgoing ELSE {}
       IN  /\ Spawn(new)
           /\ outgoing' = outgoing \cup new
           /\ IF Answers(outgoing')
                THEN /\ wait' = [w \in Waits |->
                                   IF w \in waiters /\ wait[w] = "waiting"
                                     THEN "answered" ELSE wait[w]]
                     /\ waiters' = {}
                     /\ summary' = [attempted |-> 0, succeeded |-> 0]
                     /\ pending' = deferred
                     /\ deferred' = FALSE
                ELSE /\ summary' = IF waiters # {}
                                     THEN [summary EXCEPT !.attempted = @ + Cardinality(new)]
                                     ELSE summary
                     /\ pending' = FALSE
                     /\ UNCHANGED <<wait, waiters, deferred>>
    /\ UNCHANGED <<queue, stopping, daemon, version, groupVars>>

Running == {k \in Peers \X Ways : task[k[1]][k[2]].stage \in {"connecting", "exchanged"}}

\* A connection is accepted if there is a permit, and dropped if not.  A peer's
\* loop dials at most once at a time.
LoopAccepts(p) ==
    /\ pc = "select"
    /\ pc' = "drain"
    /\ task[p]["Incoming"] = NoTask
    /\ Cardinality(Running) < Permits
    /\ task' = [task EXCEPT ![p]["Incoming"].stage = "connecting"]
    /\ UNCHANGED <<queue, pending, deferred, stopping, outgoing, waiters, summary,
                   clientVars, groupVars>>

\* Mutant: a failed session is never taken off.
LoopJoinsSucceeded(p, way) ==
    /\ pc = "select"
    /\ pc' = "drain"
    /\ task[p][way].stage = "ended"
    /\ task' = [task EXCEPT ![p][way] = NoTask]
    /\ outgoing' = IF way = "Outgoing" /\ task[p][way].succeeded
                     THEN outgoing \ {p} ELSE outgoing
    /\ summary' = IF way = "Outgoing" /\ task[p][way].succeeded /\ waiters # {}
                    THEN [summary EXCEPT !.succeeded = @ + 1] ELSE summary
    /\ pending' = (pending \/ task[p][way].again)
    /\ UNCHANGED <<queue, deferred, stopping, waiters, clientVars, groupVars>>

\* join_next: the result of a session that has ended.
LoopJoins(p, way) ==
    /\ pc = "select"
    /\ pc' = "drain"
    /\ task[p][way].stage = "ended"
    /\ task' = [task EXCEPT ![p][way] = NoTask]
    /\ outgoing' = IF way = "Outgoing" THEN outgoing \ {p} ELSE outgoing
    /\ summary' = IF way = "Outgoing" /\ task[p][way].succeeded /\ waiters # {}
                    THEN [summary EXCEPT !.succeeded = @ + 1] ELSE summary
    /\ pending' = (pending \/ task[p][way].again)
    /\ UNCHANGED <<queue, deferred, stopping, waiters, clientVars, groupVars>>

\* The 25 ms tick, or a connection that found no permit.
LoopTicks ==
    /\ pc = "select"
    /\ pc' = "drain"
    /\ UNCHANGED <<queue, pending, deferred, stopping, outgoing, waiters, summary, task,
                   clientVars, groupVars>>

----------------------------------------------------------------------------
(* The sessions                                                            *)

\* An outgoing session waits for its permit.
TaskStarts(p) ==
    /\ task[p]["Outgoing"].stage = "permit"
    /\ Cardinality(Running) < Permits
    /\ task' = [task EXCEPT ![p]["Outgoing"].stage = "connecting"]
    /\ UNCHANGED <<queue, loopVars, clientVars, groupVars>>

\* A session merges the peer's roster, which may change the selected one.  That
\* the peer was a member before, too, is checked at the start of the session; the
\* roster may have changed since, and a session that fails the check just fails.
Learns(changed) ==
    IF changed
      THEN news < MaxNews /\ news' = news + 1 /\ active' \in SUBSET Peers
      ELSE UNCHANGED <<news, active>>

\* The peer is a member of the merged roster, and the manifests are read and
\* exchanged.
TaskExchanges(p, way, changed) ==
    /\ task[p][way].stage = "connecting"
    /\ Learns(changed)
    /\ p \in active'
    /\ task' = [task EXCEPT ![p][way] = [@ EXCEPT !.stage = "exchanged", !.seen = version,
                                                  !.again = changed]]
    /\ UNCHANGED <<queue, loopVars, clientVars, reached>>

\* The peer is not a member of the merged roster, which is news
\* (RosterChangedAndUnauthorizedPeer).
TaskRefused(p, way) ==
    /\ task[p][way].stage = "connecting"
    /\ Learns(TRUE)
    /\ p \notin active'
    /\ task' = [task EXCEPT ![p][way] = [@ EXCEPT !.stage = "ended", !.again = TRUE]]
    /\ UNCHANGED <<queue, loopVars, clientVars, reached>>

\* Any other error or timeout, which ends in Unreachable, Rejected or
\* LocalFailure and does not reconcile again.
TaskFails(p, way) ==
    /\ task[p][way].stage \in {"connecting", "exchanged"}
    /\ task' = [task EXCEPT ![p][way] = [@ EXCEPT !.stage = "ended", !.again = FALSE, !.seen = 0]]
    /\ UNCHANGED <<queue, loopVars, clientVars, groupVars>>

TaskSucceeds(p, way) ==
    /\ task[p][way].stage = "exchanged"
    /\ task' = [task EXCEPT ![p][way] = [@ EXCEPT !.stage = "ended", !.succeeded = TRUE, !.seen = 0]]
    /\ reached' = [reached EXCEPT ![p] = IF task[p][way].seen > @ THEN task[p][way].seen ELSE @]
    /\ UNCHANGED <<queue, loopVars, clientVars, active, news>>

----------------------------------------------------------------------------
Client ==
    \/ Trigger
    \/ LocalChange
    \/ \E w \in Waits : SyncWait(w) \/ WaitTimesOut(w)
    \/ Stop
    \/ ShutdownSends

Loop ==
    \/ LoopReceives
    \/ LoopStops
    \/ \E due, readable \in BOOLEAN : LoopPass(due, readable)
    \/ \E p \in Peers : LoopAccepts(p)
    \/ \E p \in Peers, way \in Ways : LoopJoins(p, way)
    \/ LoopTicks

Session(p, way) ==
    \/ \E changed \in BOOLEAN : TaskExchanges(p, way, changed)
    \/ TaskRefused(p, way)
    \/ TaskFails(p, way)
    \/ TaskSucceeds(p, way)

Next ==
    \/ Client
    \/ Loop
    \/ \E p \in Peers : TaskStarts(p)
    \/ \E p \in Peers, way \in Ways : Session(p, way)

Spec == Init /\ [][Next]_vars

\* The loop's thread runs, and so does a main thread that has room to send.
\* Commands come more slowly than the loop takes them (the daemon polls every
\* 25 ms), the interval passes again and again, and select overlooks no ended
\* task for good.  Permits are given in order.  Every session ends, by a timeout
\* if not otherwise, and with a peer that stays a member one succeeds now and
\* then.
Fairness ==
    /\ WF_vars(Loop)
    /\ WF_vars(ShutdownSends)
    /\ SF_vars(LoopPass(TRUE, TRUE))
    /\ \A p \in Peers :
          /\ SF_vars(TaskStarts(p))
          /\ SF_vars(TaskExchanges(p, "Outgoing", FALSE))
          /\ SF_vars(TaskSucceeds(p, "Outgoing"))
          /\ SF_vars(LoopJoins(p, "Outgoing"))
          /\ \A way \in Ways : WF_vars(Session(p, way))

FairSpec == Spec /\ Fairness
----------------------------------------------------------------------------
(* Properties                                                              *)

\* The loop's set of outgoing peers is the set of peers an outgoing session runs
\* for: none is dialled twice at a time, and none is taken for dialled for ever.
OutgoingIsRunning ==
    outgoing = {p \in Peers : task[p]["Outgoing"].stage # "none"}

\* "Synchronized with {} of {} peers" (main.rs): what is reported as succeeded,
\* with all that may still succeed, is never more than what was attempted, with
\* sessions that began before the wait and waits that join a pass half way.
SummarySound ==
    waiters # {} => summary.succeeded + Cardinality(outgoing) <= summary.attempted

\* A wait that the loop has taken is answered, although triggers, the interval
\* and other waits keep coming.
WaitsAnswered ==
    \A w \in Waits : w \in waiters ~> w \notin waiters

\* ARCHITECTURE.md: every pass "repairs changes missed".  A local change reaches
\* every peer that stays a member, also when its trigger was dropped by a full
\* channel or found a session under way.
ChangesReachPeers ==
    \A p \in Peers :
        <>[](p \in active) =>
            \A v \in 1 .. MaxChanges :
                version >= v ~> reached[p] >= v \/ daemon # "running"

\* A shutdown ends the thread, whatever is queued and running: the main thread,
\* which waits for room in the channel without a timeout (network.rs, shutdown),
\* gets it from a loop that drains the channel before it does anything else.
ShutdownEnds == daemon = "sending" ~> pc = "stopped"
============================================================================
