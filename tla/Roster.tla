------------------------------- MODULE Roster -------------------------------
(***************************************************************************)
(* The membership roster: roster.rs (revisions, validation, selection),    *)
(* the roster tables of state.rs, the roster half of a synchronization     *)
(* session (sync.rs) and the commands that change the roster (network.rs). *)
(*                                                                         *)
(* Every device keeps a grow-only set of signed, hash-linked revisions and *)
(* follows one chain through it: at each revision the selected child is    *)
(* the best of the stored valid children, a removal before an admission    *)
(* and then the greater hash.  Peers exchange their selected chains only.  *)
(* A device whose own revision loses to a sibling replays its change on    *)
(* top of the winner.                                                      *)
(*                                                                         *)
(* A revision's hash covers its parent's hash, so a revision is identified *)
(* by the changes from the agreed history Base up to it: its path.         *)
(* Signatures and device names are left out: a revision names its author,  *)
(* and only that author's own steps create it.                             *)
(***************************************************************************)
EXTENDS Naturals, Sequences, FiniteSets, SequencesExt

CONSTANTS
    Devices,      \* EndpointIds
    Founders,     \* the members of the history every founder already agrees on
    Online,       \* the devices whose daemon runs; the others never act
    Links,        \* who can receive from whom: pairs of online devices
    Sessions,     \* the sessions a daemon may have open at a time
    Requests,     \* the roster commands users issue, each once at most
    MaxRetries,   \* MAX_ROSTER_RETRY_DEPTH
    MaxFaults,    \* bound on crashes and failed database writes
    Hash(_)       \* the order of canonical revision hashes

Admission(x) == [kind |-> "Admit", member |-> x]
Removal(x) == [kind |-> "Remove", member |-> x]
Changes == {Admission(x) : x \in Devices} \cup {Removal(x) : x \in Devices}

ASSUME RosterAssumption ==
    /\ Founders \subseteq Devices
    /\ Online \subseteq Devices
    /\ Links \subseteq {l \in Online \X Online : l[1] # l[2]}
    /\ Requests \subseteq [device : Devices, change : Changes]
    /\ "command" \notin Sessions
    /\ MaxRetries \in Nat
    /\ MaxFaults \in Nat

Revision ==
    [path : Seq([author : Devices, change : Changes]), members : SUBSET Devices]

\* The tip of the agreed history, standing for the genesis and all before it.
Base == [path |-> <<>>, members |-> Founders]

-----------------------------------------------------------------------------
(* Revisions and their selection (roster.rs) *)

\* roster_change_is_satisfied
Satisfied(r, change) == (change.member \in r.members) <=> (change.kind = "Admit")

\* apply_change, defined when the change is not satisfied yet
apply_change(members, change) ==
    IF change.kind = "Admit" THEN members \cup {change.member} ELSE members \ {change.member}

\* RosterRevision::child
Child(parent, change, author) ==
    [path    |-> Append(parent.path, [author |-> author, change |-> change]),
     members |-> apply_change(parent.members, change)]

\* The change and the author a revision adds to its parent.
Own(r) == Last(r.path)

\* validate_child: the parent, the active author, the change and the members
ValidChild(r, parent) ==
    /\ r.path # <<>>
    /\ Front(r.path) = parent.path
    /\ Own(r).author \in parent.members
    /\ ~Satisfied(parent, Own(r).change)
    /\ r = Child(parent, Own(r).change, Own(r).author)

\* selection_priority
Priority(r) == IF Own(r).change.kind = "Remove" THEN 1 ELSE 0

\* Mutant: the hash does not break ties.
BetterByPriority(r, q) == Priority(r) > Priority(q)

\* The key of max_by_key in select_child.
Better(r, q) ==
    \/ Priority(r) > Priority(q)
    \/ Priority(r) = Priority(q) /\ Hash(r) > Hash(q)

\* parent_hash.  Stored rows are valid (selected_roster_chain refuses a table
\* with any other), so this is all of select_child's filter.
IsChild(r, p) == r.path # <<>> /\ Front(r.path) = p.path
Siblings(r, q) == r.path # <<>> /\ q.path # <<>> /\ Front(r.path) = Front(q.path)

\* select_chain: from Base up, no revision of the chain is beaten by a sibling.
Chain(S) ==
    {r \in S : \A q \in S : IsPrefix(q.path, r.path) =>
                   \A o \in S : Siblings(o, q) => ~Better(o, q)}

\* Where select_chain stops: no stored child is left.  The set has one member,
\* or none for a device without a roster.
Tips(S) == {t \in Chain(S) : \A r \in S : ~IsChild(r, t)}

-----------------------------------------------------------------------------
VARIABLES
    stored,   \* roster_revisions: what each device's database holds
    work,     \* work[d][w]: where d's session or command thread w stands
    mail,     \* mail[x]: the roster an inviter is sending to the joiner x
    issued,   \* the requests users have issued
    done,     \* the requests whose command reported success
    faults    \* crashes and failed writes so far

vars == <<stored, work, mail, issued, done, faults>>

Workers == Sessions \cup {"command"}

\* What a thread holds in local variables, by the point it has reached.
Idle == [pc |-> "idle"]
WorkerState ==
    {Idle}
    \cup [pc : {"authorized"}, peer : Devices]
    \cup [pc : {"received"}, inbox : SUBSET Revision]
    \cup [pc : {"merging"}, inbox : SUBSET Revision, previous : SUBSET Revision]
    \cup [pc : {"replaying"}, queue : SUBSET Revision]
    \cup [pc : {"applying"}, change : Changes, tries : Nat, queue : SUBSET Revision]
    \cup [pc : {"committing"}, change : Changes, tries : Nat, queue : SUBSET Revision,
          parent : Revision]
    \cup [pc : {"approved"}, joiner : Devices]

\* Every variable has its type: the locals of a thread fit the point it is at.
TypeOK ==
    /\ stored \in [Devices -> SUBSET Revision]
    /\ work \in [Devices -> [Workers -> WorkerState]]
    /\ mail \in [Devices -> SUBSET Revision]
    /\ issued \subseteq Requests
    /\ done \subseteq issued
    /\ faults \in 0 .. MaxFaults

Init ==
    /\ stored = [d \in Devices |-> IF d \in Founders THEN {Base} ELSE {}]
    /\ work = [d \in Devices |-> [w \in Workers |-> Idle]]
    /\ mail = [d \in Devices |-> {}]
    /\ issued = {}
    /\ done = {}
    /\ faults = 0

At(d, w, pc) == work[d][w].pc = pc
Become(d, w, state) == work' = [work EXCEPT ![d][w] = state]
Store(d, revisions) == stored' = [stored EXCEPT ![d] = @ \cup revisions]

-----------------------------------------------------------------------------
(* The roster half of a session (sync.rs) *)

\* authorize_local_roster at d for a session with e
Authorizes(d, e) ==
    \E t \in Tips(stored[d]) : {d, e} \subseteq t.members

\* A connection is made and both ends authorize each other.
SessionOpens(d, w, e) ==
    /\ At(d, w, "idle")
    /\ Authorizes(d, e)
    /\ Authorizes(e, d)
    /\ Become(d, w, [pc |-> "authorized", peer |-> e])
    /\ UNCHANGED <<stored, mail, issued, done, faults>>

\* The peer reads its selected chain (local_session_state) and sends it.
SessionReceives(d, w) ==
    /\ At(d, w, "authorized")
    /\ Become(d, w, [pc |-> "received", inbox |-> Chain(stored[work[d][w].peer])])
    /\ UNCHANGED <<stored, mail, issued, done, faults>>

\* Mutant: only revisions beyond the local tip are taken from the peer.
SessionReadsNewer(d, w) ==
    /\ At(d, w, "received")
    /\ Become(d, w,
              [pc |-> "merging",
               inbox |-> {r \in work[d][w].inbox :
                             \A t \in Tips(stored[d]) : Len(r.path) > Len(t.path)},
               previous |-> Chain(stored[d])])
    /\ UNCHANGED <<stored, mail, issued, done, faults>>

\* merge_and_authorize_remote_roster notes the chain selected before the merge.
SessionReads(d, w) ==
    /\ At(d, w, "received")
    /\ Become(d, w, [pc |-> "merging", inbox |-> work[d][w].inbox,
                     previous |-> Chain(stored[d])])
    /\ UNCHANGED <<stored, mail, issued, done, faults>>

\* merge_selected_roster_chain takes the revisions in order, each missing one
\* in a transaction of its own: r is the next to insert.
IsNext(d, w, r) ==
    /\ r \in work[d][w].inbox \ stored[d]
    /\ \A q \in work[d][w].inbox \ stored[d] : Len(r.path) <= Len(q.path)

\* Mutant: newest first, and without looking the parent up.
SessionInsertsNewest(d, w) ==
    /\ At(d, w, "merging")
    /\ \E r \in work[d][w].inbox \ stored[d] :
          /\ \A q \in work[d][w].inbox : Len(r.path) >= Len(q.path)
          /\ Store(d, {r})
    /\ UNCHANGED <<work, mail, issued, done, faults>>

SessionInserts(d, w) ==
    /\ At(d, w, "merging")
    /\ \E r \in work[d][w].inbox :
          /\ IsNext(d, w, r)
          /\ \E p \in stored[d] : ValidChild(r, p)
          /\ Store(d, {r})
    /\ UNCHANGED <<work, mail, issued, done, faults>>

\* A write fails: another session stored the same revision in between (the hash
\* is a primary key), the last one included, or the database stays locked.  The
\* session ends there, and nothing is replayed.
SessionFails(d, w) ==
    /\ At(d, w, "merging")
    /\ faults < MaxFaults
    /\ faults' = faults + 1
    /\ Become(d, w, Idle)
    /\ UNCHANGED <<stored, mail, issued, done>>

\* All revisions are stored.  The device will replay its own revisions of the
\* previous chain that lost; none has if the previous tip is still selected.
SessionMerged(d, w) ==
    /\ At(d, w, "merging")
    /\ work[d][w].inbox \subseteq stored[d]
    /\ Become(d, w,
              [pc |-> "replaying",
               queue |-> {r \in work[d][w].previous \ Chain(stored[d]) :
                             r.path # <<>> /\ Own(r).author = d}])
    /\ UNCHANGED <<stored, mail, issued, done, faults>>

\* One turn of the replay loop: the change of the oldest revision left, or the
\* end of the loop when none is left or the device is no longer active.
SessionReplays(d, w) ==
    /\ At(d, w, "replaying")
    /\ LET queue == work[d][w].queue
       IN  IF queue # {} /\ Authorizes(d, d)
           THEN \E r \in queue :
                   /\ \A q \in queue : Len(r.path) <= Len(q.path)
                   /\ Become(d, w, [pc |-> "applying", change |-> Own(r).change,
                                    tries |-> 0, queue |-> queue \ {r}])
           ELSE Become(d, w, Idle)
    /\ UNCHANGED <<stored, mail, issued, done, faults>>

-----------------------------------------------------------------------------
(* apply_roster_change_inner (state.rs), in a session and in a command *)

\* Mutant: the changes still to be replayed are forgotten.
ApplyDoneDropsQueue(d, w) ==
    /\ At(d, w, "applying")
    /\ \E t \in Tips(stored[d]) : Satisfied(t, work[d][w].change)
    /\ Become(d, w, [pc |-> "replaying"])
    /\ UNCHANGED <<stored, mail, issued, done, faults>>

\* The change holds at the selected tip.
ApplyDone(d, w) ==
    /\ At(d, w, "applying")
    /\ \E t \in Tips(stored[d]) : Satisfied(t, work[d][w].change)
    /\ LET change == work[d][w].change
       IN  IF w \in Sessions
           THEN /\ Become(d, w, [pc |-> "replaying", queue |-> work[d][w].queue])
                /\ UNCHANGED done
           ELSE IF change.kind = "Admit"
           THEN /\ Become(d, w, [pc |-> "approved", joiner |-> change.member])
                /\ UNCHANGED done
           ELSE /\ Become(d, w, Idle)
                /\ done' = done \cup {[device |-> d, change |-> change]}
    /\ UNCHANGED <<stored, mail, issued, faults>>

\* Mutant: the child is built on the first revision of the chain.
ApplyParentFirst(d, w) ==
    /\ At(d, w, "applying")
    /\ work[d][w].tries <= MaxRetries
    /\ \E t \in Tips(stored[d]) : ~Satisfied(t, work[d][w].change) /\ d \in t.members
    /\ Become(d, w, [pc |-> "committing", change |-> work[d][w].change,
                     tries |-> work[d][w].tries, queue |-> work[d][w].queue,
                     parent |-> Base])
    /\ UNCHANGED <<stored, mail, issued, done, faults>>

\* It does not: a child of that tip is created ...
ApplyParent(d, w) ==
    /\ At(d, w, "applying")
    /\ work[d][w].tries <= MaxRetries
    /\ \E t \in Tips(stored[d]) :
          /\ ~Satisfied(t, work[d][w].change)
          /\ d \in t.members
          /\ Become(d, w, [pc |-> "committing", change |-> work[d][w].change,
                           tries |-> work[d][w].tries, queue |-> work[d][w].queue,
                           parent |-> t])
    /\ UNCHANGED <<stored, mail, issued, done, faults>>

\* ... and inserted in a later transaction, whatever was selected in between.
ApplyCommit(d, w) ==
    /\ At(d, w, "committing")
    /\ Store(d, {Child(work[d][w].parent, work[d][w].change, d)})
    /\ Become(d, w, [pc |-> "applying", change |-> work[d][w].change,
                     tries |-> work[d][w].tries + 1, queue |-> work[d][w].queue])
    /\ UNCHANGED <<mail, issued, done, faults>>

\* AuthorNotActive or RosterRetryLimit ends the session or the command.
ApplyFails(d, w) ==
    /\ At(d, w, "applying")
    /\ \E t \in Tips(stored[d]) :
          /\ ~Satisfied(t, work[d][w].change)
          /\ d \notin t.members \/ work[d][w].tries > MaxRetries
    /\ Become(d, w, Idle)
    /\ UNCHANGED <<stored, mail, issued, done, faults>>

-----------------------------------------------------------------------------
(* The commands (network.rs), one at a time *)

Issues(d, change) ==
    /\ At(d, "command", "idle")
    /\ [device |-> d, change |-> change] \in Requests \ issued
    /\ issued' = issued \cup {[device |-> d, change |-> change]}

Apply(d, change) ==
    Become(d, "command", [pc |-> "applying", change |-> change, tries |-> 0,
                          queue |-> {}])

\* remove_peer: refused for this device itself, without effect on others
RemovePeer(d, y) ==
    /\ Issues(d, Removal(y))
    /\ y # d
    /\ \E t \in Tips(stored[d]) : y \in t.members
    /\ Apply(d, Removal(y))
    /\ UNCHANGED <<stored, mail, done, faults>>

\* build_join_approval_in: an active joiner is only sent the roster again, one
\* that was a member before is refused.
ApproveJoin(d, x) ==
    /\ Issues(d, Admission(x))
    /\ \E t \in Tips(stored[d]) :
          /\ IF x \in t.members
             THEN Become(d, "command", [pc |-> "approved", joiner |-> x])
             ELSE /\ \A r \in Chain(stored[d]) : x \notin r.members
                  /\ Apply(d, Admission(x))
    /\ UNCHANGED <<stored, mail, done, faults>>

\* The chain is read once more and sent if the joiner is still in it.  The
\* joiner refuses a roster its inviter is no longer in.
ApproveSends(d) ==
    LET x == work[d]["command"].joiner
    IN  /\ At(d, "command", "approved")
        /\ Become(d, "command", Idle)
        /\ mail' = IF Authorizes(d, x) THEN [mail EXCEPT ![x] = Chain(stored[d])] ELSE mail
        /\ IF \E t \in Tips(stored[d]) : x \in t.members
           THEN done' = done \cup {[device |-> d, change |-> Admission(x)]}
           ELSE UNCHANGED done
        /\ UNCHANGED <<stored, issued, faults>>

\* install_joined_state_inner: a new device, or one that is a member in its own
\* selected roster, stores what it was sent.
JoinInstalls(x) ==
    /\ mail[x] # {}
    /\ IF stored[x] = {} \/ Authorizes(x, x)
       THEN Store(x, mail[x])
       ELSE UNCHANGED stored
    /\ mail' = [mail EXCEPT ![x] = {}]
    /\ UNCHANGED <<work, issued, done, faults>>

\* The join connection breaks before the joiner has the roster.
JoinLost(x) ==
    /\ mail[x] # {}
    /\ mail' = [mail EXCEPT ![x] = {}]
    /\ UNCHANGED <<stored, work, issued, done, faults>>

-----------------------------------------------------------------------------
\* The daemon dies; its database survives.
Crash(d) ==
    /\ faults < MaxFaults
    /\ \E w \in Workers : ~At(d, w, "idle")
    /\ faults' = faults + 1
    /\ work' = [work EXCEPT ![d] = [w \in Workers |-> Idle]]
    /\ UNCHANGED <<stored, mail, issued, done>>

SessionStep(d, w) ==
    \/ SessionReceives(d, w)
    \/ SessionReads(d, w)
    \/ SessionInserts(d, w)
    \/ SessionMerged(d, w)
    \/ SessionReplays(d, w)

ApplyStep(d, w) ==
    \/ ApplyDone(d, w)
    \/ ApplyParent(d, w)
    \/ ApplyCommit(d, w)
    \/ ApplyFails(d, w)

SessionThread(d, w) == SessionStep(d, w) \/ ApplyStep(d, w)
CommandThread(d) == ApplyStep(d, "command") \/ ApproveSends(d)

Peers(d) == {l[2] : l \in {k \in Links : k[1] = d}}

Next ==
    \E d \in Online :
        \/ \E w \in Sessions : \/ \E e \in Peers(d) : SessionOpens(d, w, e)
                               \/ SessionThread(d, w)
                               \/ SessionFails(d, w)
        \/ CommandThread(d)
        \/ \E x \in Devices : RemovePeer(d, x) \/ ApproveJoin(d, x)
        \/ JoinInstalls(d)
        \/ JoinLost(d)
        \/ Crash(d)

Spec == Init /\ [][Next]_vars

\* The network thread synchronizes with every active peer again and again, and
\* a thread that can move does; users, joins and faults owe nothing.
Fairness ==
    \A d \in Online :
        /\ WF_vars(CommandThread(d))
        /\ \A w \in Sessions : WF_vars(SessionThread(d, w))
        /\ \A e \in Peers(d) : SF_vars(\E w \in Sessions : SessionOpens(d, w, e))

FairSpec == Spec /\ Fairness

-----------------------------------------------------------------------------
(* Properties *)

\* Every stored revision is a valid child of a stored one, back to the agreed
\* history.  selected_roster_chain refuses to read a table for which this is
\* false, so one bad row would take the device out of the group for good.
StoredSound ==
    \A d \in Devices :
        /\ stored[d] # {} => Base \in stored[d]
        /\ \A r \in stored[d] \ {Base} : \E p \in stored[d] : ValidChild(r, p)

\* Exchanging the selected chains is enough: two devices that hold each other's
\* selected chain select the same revision, whatever else each has stored and in
\* whatever order it arrived.
ExchangeAgrees ==
    LET databases == {stored[d] : d \in Devices} \ {{}}
    IN  \A S, T \in databases :
            Chain(S) \subseteq T /\ Chain(T) \subseteq S =>
                Tips(S) = Tips(T) /\ Cardinality(Tips(S)) = 1

\* apply_roster_change_inner is a loop that anyone's better sibling sends round
\* again.  No turn of it works on a tip that an earlier turn or the change itself
\* has made: a loop takes at most as many turns as its device has stored
\* revisions of other changes, the agreed history among them, however often it is
\* overtaken between its reading and its writing.
RetriesBounded ==
    \A d \in Devices, w \in Workers :
        At(d, w, "applying") =>
            work[d][w].tries <=
                Cardinality({r \in stored[d] :
                                r = Base \/ Own(r).change # work[d][w].change})

\* From t to u on a table S: further along t's chain, or over to the better
\* branch where the two part.
Advances(S, t, u) ==
    \/ IsPrefix(t.path, u.path)
    \/ \E q, o \in S :
          /\ Siblings(o, q) /\ Better(o, q)
          /\ IsPrefix(q.path, t.path) /\ IsPrefix(o.path, u.path)

\* A device's selection only goes forward: whatever a session merges, a command
\* commits or a join installs, and in whatever order, the device goes on from the
\* revision it has selected or leaves it for a better branch, and never comes back
\* to one it has left (select_chain).
SelectionAdvances ==
    [][\A d \in Devices : \A t \in Tips(stored[d]), u \in Tips(stored'[d]) :
          Advances(stored'[d], t, u)]_vars

\* Devices that count each other as members come to select the same revision
\* and keep it (merge_and_authorize_remote_roster).
Agreement ==
    <>[](\A d \in Online : \A e \in Peers(d) :
            Authorizes(d, e) /\ Authorizes(e, d) => Tips(stored[d]) = Tips(stored[e]))

\* A removal that its command reported as made holds in the end on the device
\* it was made on (ARCHITECTURE: the command that produced the losing revision
\* "reconciles and retries from the selected revision").
CommandsTakeEffect ==
    \A q \in Requests :
        []( q \in done =>
            <>[](\A t \in Tips(stored[q.device]) : Satisfied(t, q.change)))
====
