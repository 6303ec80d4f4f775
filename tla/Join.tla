------------------------------- MODULE Join --------------------------------
(***************************************************************************)
(* Admission of a new device.  `skillsync invite` (main.rs) creates a code *)
(* at the joining service and activates its nonce in the daemon's          *)
(* JoinCoordinator (join.rs), a slot that is idle, holds one invitation or *)
(* holds one pending request.  `skillsync join` claims the code, dials the *)
(* inviter and presents the nonce; the user of the inviting device is      *)
(* shown the request and decides; the daemon changes the roster and then   *)
(* answers the joiner, which installs the roster and acknowledges it.      *)
(*                                                                         *)
(* Invitation n stands for its code, its nonce and the `invite` command    *)
(* that made it; run r of `join` for its process, its idempotency key, its *)
(* connection and, once claimed, its request id.  The daemon's control     *)
(* thread, the session tasks, the commands and the joiners interleave; the *)
(* daemon and the joiners may stop anywhere; any connection may break.     *)
(***************************************************************************)
EXTENDS Naturals, Sequences, FiniteSets

CONSTANTS
    Devices,     \* EndpointIds that may join
    Inviter,     \* the inviting device
    Names,       \* device names that pass validate_join_device_name
    BadName,     \* a name that does not
    None,        \* no name, no device
    Removed,     \* a device whose removal the inviter's chain holds
    MaxInvites,  \* bound on `invite` commands
    MaxRuns,     \* bound on `join` commands
    MaxStops     \* bound on stops of the inviting daemon

ASSUME JoinAssumption ==
    /\ Inviter \notin Devices
    /\ None \notin Devices
    /\ {BadName, None, Removed} \cap Names = {}
    /\ None # Removed
    /\ MaxInvites \in Nat
    /\ MaxRuns \in Nat
    /\ MaxStops \in Nat

VARIABLES
    shown,      \* the codes that the service made and invite printed
    expired,    \* invitations whose deadline in the daemon has passed
    coord,      \* the JoinCoordinator
    cli,        \* where the invite command stands
    seen,       \* the request the command has shown to its user
    handler,    \* the control thread inside decide_join
    roster,     \* the inviter's selected roster: name, none or removed
    hinted,     \* devices with a peer hint in the inviter's database
    stops,      \* how often the inviting daemon has stopped
    run,        \* the join commands
    session,    \* run_inviter for each run
    conn,       \* the connection of each run
    sent,       \* what the joiner wrote and run_inviter has not read
    reply,      \* what run_inviter wrote and the joiner has not read
    decision,   \* the oneshot channel of each request
    local,      \* the name a device has in its own installed roster
    approvals,  \* what users said yes to: device and name as shown
    admitted    \* whom an invitation has admitted: device and name

serviceVars == <<shown, expired>>
cliVars == <<cli, seen, approvals>>
groupVars == <<roster, hinted, admitted>>
wireVars == <<conn, sent, reply>>
vars == <<serviceVars, coord, cliVars, handler, groupVars, stops, run,
          session, wireVars, decision, local>>

Invites == 1..MaxInvites
Runs == 1..MaxRuns
Idle == [kind |-> "Idle", inv |-> 0, req |-> 0]
NoHandler == [step |-> "none", inv |-> 0, req |-> 0, tip |-> [d \in Devices |-> None]]
NoRun == [pc |-> "off", dev |-> None, name |-> None, inv |-> 0]
Running == {"claim", "connect", "wait", "install", "ack", "end", "sync"}
Request == [kind |-> "Request"]
Ack == [kind |-> "Ack"]
Fin == [kind |-> "Fin"]
Rejected == [kind |-> "Rejected"]
Undecided == [kind |-> "Undecided"]
Members(tip) == {d \in Devices : tip[d] \in Names}

-----------------------------------------------------------------------------
(* The coordinator.  Every entry takes the lock and expires the slot first. *)

expire_locked(c) ==
    IF c.kind # "Idle" /\ c.inv \in expired THEN Idle ELSE c

\* The slot if it holds this request, after expiry.
Holds(c, r) == expire_locked(c).kind = "Pending" /\ expire_locked(c).req = r

activate(n) ==
    /\ expire_locked(coord).kind = "Idle"
    /\ coord' = [kind |-> "Active", inv |-> n, req |-> 0]

\* pending_addr: the request is still the one in the slot.
pending_addr_ignoring_id(r) == expire_locked(coord).kind = "Pending"

pending_addr(r) == Holds(coord, r)

\* decide: empties the slot and sends; the receiver may be gone already.
decide_keeping(r, d) ==
    /\ decision' = [decision EXCEPT ![r] = IF Holds(coord, r) THEN d ELSE @]
    /\ coord' = IF Holds(coord, r) THEN [coord EXCEPT !.kind = "Active"]
                ELSE expire_locked(coord)

decide(r, d) ==
    /\ decision' = [decision EXCEPT ![r] = IF Holds(coord, r) THEN d ELSE @]
    /\ coord' = IF Holds(coord, r) THEN Idle ELSE expire_locked(coord)

cancel_other(r) == coord' = coord

cancel(r) ==
    coord' = IF coord.kind = "Pending" /\ coord.req = r THEN Idle ELSE coord

\* validate_join_device_name, by the joiner and again by the inviter.
ValidName_any(nm) == TRUE

ValidName(nm) == nm # BadName

Claimable(r) ==
    /\ ValidName(run[r].name)
    /\ expire_locked(coord).kind = "Active"
    /\ expire_locked(coord).inv = run[r].inv

claim(r) ==
    coord' = IF Claimable(r)
             THEN [kind |-> "Pending", inv |-> expire_locked(coord).inv, req |-> r]
             ELSE expire_locked(coord)

-----------------------------------------------------------------------------
(* The inviting user's command.                                             *)

\* What a post to the joining service comes to: an answer that passes
\* decode_response and the checks of its fields, or an error.
ServiceAnswer == {"ok", "error"}

\* command_invite up to the created code.  A post that fails after its
\* attempts leaves at most a code that nobody has seen.
CreateInvitation(n) ==
    /\ cli[n] = "off"
    /\ \A m \in Invites : m < n => cli[m] # "off"
    /\ \E answer \in ServiceAnswer :
           cli' = [cli EXCEPT ![n] = IF answer = "ok" THEN "activate" ELSE "failed"]
    /\ UNCHANGED <<serviceVars, coord, seen, approvals, handler, groupVars,
                   stops, run, session, wireVars, decision, local>>

\* ActivateInvitation: on success the code is printed.
ActivateInvitation(n) ==
    /\ cli[n] = "activate"
    /\ handler.step = "none"
    /\ \/ /\ activate(n)
          /\ shown' = shown \cup {n}
          /\ cli' = [cli EXCEPT ![n] = "poll"]
       \/ /\ activate(n)  \* the daemon's answer is lost, and the code with it
          /\ cli' = [cli EXCEPT ![n] = "failed"]
          /\ UNCHANGED shown
       \/ /\ coord' = coord  \* InvitationBusy, or the daemon is away
          /\ cli' = [cli EXCEPT ![n] = "failed"]
          /\ UNCHANGED shown
    /\ UNCHANGED <<expired, seen, approvals, handler, groupVars, stops,
                   run, session, wireVars, decision, local>>

\* wait_for_pending_join: a poll that finds a request, whichever invitation
\* it answers, or meets no daemon, or comes after the command's own deadline.
\* An empty poll and one that may be repeated change nothing.
PollPending(n) ==
    /\ cli[n] = "poll"
    /\ handler.step = "none"
    /\ \/ /\ expire_locked(coord).kind = "Pending"
          /\ seen' = [seen EXCEPT ![n] = coord.req]
          /\ cli' = [cli EXCEPT ![n] = "confirm"]
       \/ /\ cli' = [cli EXCEPT ![n] = "failed"]
          /\ UNCHANGED seen
    /\ UNCHANGED <<serviceVars, coord, approvals, handler, groupVars, stops,
                   run, session, wireVars, decision, local>>

\* The user compares the EndpointID and answers; the answer goes to the
\* daemon's control thread, which serves one request at a time.  A command
\* that cannot reach it ends and forgets what it showed.
Confirm(n, approve) ==
    /\ cli[n] = "confirm"
    /\ handler.step = "none"
    /\ \/ /\ cli' = [cli EXCEPT ![n] = "deciding"]
          /\ handler' = [NoHandler EXCEPT !.step = IF approve THEN "lookup" ELSE "reject",
                                          !.inv = n, !.req = seen[n]]
          /\ UNCHANGED seen
       \/ /\ cli' = [cli EXCEPT ![n] = "failed"]
          /\ seen' = [seen EXCEPT ![n] = 0]
          /\ UNCHANGED handler
    /\ approvals' = IF approve
                    THEN approvals \cup {<<run[seen[n]].dev, run[seen[n]].name>>}
                    ELSE approvals
    /\ UNCHANGED <<serviceVars, coord, groupVars, stops,
                   run, session, wireVars, decision, local>>

-----------------------------------------------------------------------------
(* decide_join in the control thread: read the request, admit, read back,   *)
(* answer.  Sessions run between the steps, and other peers change the      *)
(* roster.                                                                  *)

\* Ends the handler and answers the command that called it.
Finish(outcome) ==
    /\ handler' = NoHandler
    /\ cli' = [cli EXCEPT ![handler.inv] = outcome]
    /\ seen' = [seen EXCEPT ![handler.inv] = 0]

\* The request of the handler: what pending_addr found in the slot.
Pending == run[handler.req]

DecideReject ==
    /\ handler.step = "reject"
    /\ decide(handler.req, Rejected)
    /\ Finish(IF Holds(coord, handler.req) THEN "done" ELSE "failed")
    /\ UNCHANGED <<serviceVars, approvals, groupVars, stops, run, session,
                   wireVars, local>>

\* Any error before the decision: the joiner is told it was rejected.
FailApproval ==
    /\ decide(handler.req, Rejected)
    /\ Finish("failed")

DecideLookup ==
    /\ handler.step = "lookup"
    /\ \/ /\ pending_addr(handler.req)
          /\ handler' = [handler EXCEPT !.step = "admit",
                                        !.req = expire_locked(coord).req]
          /\ UNCHANGED <<coord, decision, cli, seen>>
       \/ /\ ~pending_addr(handler.req)
          /\ FailApproval
    /\ UNCHANGED <<serviceVars, approvals, groupVars, stops, run, session,
                   wireVars, local>>

\* build_join_approval_in up to the commit of the admission and its hint.
DecideAdmit ==
    /\ handler.step = "admit"
    /\ \/ /\ roster[Pending.dev] \in {None, Pending.name}
          /\ roster' = [roster EXCEPT ![Pending.dev] = Pending.name]
          /\ hinted' = hinted \cup {Pending.dev}
          /\ admitted' = IF roster[Pending.dev] = None
                         THEN [admitted EXCEPT ![Pending.inv] =
                                   @ \cup {<<Pending.dev, Pending.name>>}]
                         ELSE admitted
          /\ handler' = [handler EXCEPT !.step = "build"]
          /\ UNCHANGED <<coord, decision, cli, seen>>
       \/ /\ FailApproval  \* another name, removed, or a failed write
          /\ UNCHANGED groupVars
    /\ UNCHANGED <<serviceVars, approvals, stops, run, session, wireVars, local>>

\* The chain is read again and must still name the joiner.
DecideBuild ==
    /\ handler.step = "build"
    /\ \/ /\ roster[Pending.dev] = Pending.name
          /\ handler' = [handler EXCEPT !.step = "send", !.tip = roster]
          /\ UNCHANGED <<coord, decision, cli, seen>>
       \/ FailApproval
    /\ UNCHANGED <<serviceVars, approvals, groupVars, stops, run, session,
                   wireVars, local>>

\* approval_peer_hints reads the chain once more, for the hints.
approval_peer_hints(d) == {Inviter} \cup ((Members(roster) \cap hinted) \ {d})

\* validate_approval_payload: every hint names a member of the sent chain.
validate_approval_payload(tip, hints) == hints \subseteq Members(tip) \cup {Inviter}

DecideSend ==
    /\ handler.step = "send"
    /\ LET hints == approval_peer_hints(Pending.dev)
       IN  IF validate_approval_payload(handler.tip, hints)
           THEN /\ decide(handler.req, [kind |-> "Approved", tip |-> handler.tip,
                                        hints |-> hints])
                /\ Finish(IF Holds(coord, handler.req) THEN "done" ELSE "failed")
           ELSE FailApproval
    /\ UNCHANGED <<serviceVars, approvals, groupVars, stops, run, session,
                   wireVars, local>>

-----------------------------------------------------------------------------
(* run_inviter, one task per connection.                                    *)

\* The task ends and drops its connection and its receiver; what it wrote may
\* still arrive.
EndSession(r) ==
    /\ session' = [session EXCEPT ![r] = "ended"]
    /\ decision' = [decision EXCEPT ![r] = Undecided]
    /\ conn' = [conn EXCEPT ![r] = "closed"]
    /\ sent' = [sent EXCEPT ![r] = <<>>]

\* The request is read and claims the slot, or the connection ends.
InviterClaim(r) ==
    /\ session[r] = "accept"
    /\ \/ /\ sent[r] # <<>>
          /\ claim(r)
          /\ IF Claimable(r)
             THEN /\ session' = [session EXCEPT ![r] = "waiting"]
                  /\ sent' = [sent EXCEPT ![r] = Tail(@)]
                  /\ UNCHANGED <<conn, decision>>
             ELSE EndSession(r)
       \/ /\ conn[r] = "closed"
          /\ EndSession(r)
          /\ UNCHANGED coord
    /\ UNCHANGED <<serviceVars, cliVars, handler, groupVars, stops, run,
                   reply, local>>

\* No decision before the deadline, or the joiner's connection closed.
InviterGivesUp(r) ==
    /\ session[r] = "waiting"
    /\ run[r].inv \in expired \/ conn[r] = "closed"
    /\ cancel(r)
    /\ EndSession(r)
    /\ UNCHANGED <<serviceVars, cliVars, handler, groupVars, stops, run,
                   reply, local>>

\* The sender was dropped with an expired slot.
InviterSenderDropped(r) ==
    /\ session[r] = "waiting"
    /\ decision[r] = Undecided
    /\ ~(coord.kind = "Pending" /\ coord.req = r)
    /\ EndSession(r)
    /\ UNCHANGED <<serviceVars, coord, cliVars, handler, groupVars, stops, run,
                   reply, local>>

\* The decision is written.  After a rejection the stream is finished and
\* the connection dropped without waiting for delivery.
InviterResponds(r) ==
    /\ session[r] = "waiting"
    /\ decision[r] # Undecided
    /\ LET d == decision[r]
       IN  IF d.kind = "Rejected"
           THEN /\ reply' = [reply EXCEPT ![r] = @ \o <<d, Fin>>]
                /\ EndSession(r)
           ELSE \/ /\ reply' = [reply EXCEPT ![r] = Append(@, d)]
                   /\ session' = [session EXCEPT ![r] = "ack"]
                   /\ decision' = [decision EXCEPT ![r] = Undecided]
                   /\ UNCHANGED <<conn, sent>>
                \/ /\ conn[r] = "closed"
                   /\ EndSession(r)
                   /\ UNCHANGED reply
    /\ UNCHANGED <<serviceVars, coord, cliVars, handler, groupVars, stops, run,
                   local>>

\* The acknowledgement and the end of the joiner's stream, or a reset.
InviterAcked_early(r) == session[r] = "ack"

InviterAcked(r) == session[r] = "ack" /\ sent[r] = <<Ack, Fin>>

InviterEnds(r) ==
    /\ session[r] = "ack"
    /\ \/ /\ InviterAcked(r)
          /\ reply' = [reply EXCEPT ![r] = Append(@, Fin)]
          /\ sent' = [sent EXCEPT ![r] = <<>>]
          /\ session' = [session EXCEPT ![r] = "joined"]
          /\ conn' = [conn EXCEPT ![r] = "closed"]
          /\ UNCHANGED decision
       \/ /\ EndSession(r)  \* timeout, or the connection is lost
          /\ UNCHANGED reply
    /\ UNCHANGED <<serviceVars, coord, cliVars, handler, groupVars, stops, run,
                   local>>

-----------------------------------------------------------------------------
(* `skillsync join`, and run_joiner inside it.                              *)

\* The command ends with an error; one that never connected leaves nothing
\* behind that the inviter could still refer to.
Fail(r) ==
    LET over == IF session[r] = "none" THEN NoRun ELSE run[r] IN
    /\ run' = [run EXCEPT ![r] = [over EXCEPT !.pc = "failed"]]
    /\ conn' = [conn EXCEPT ![r] = IF @ = "open" THEN "closed" ELSE @]
    /\ reply' = [reply EXCEPT ![r] = <<>>]

\* The process lock of the device: one join command at a time.
ProcessLockFree(d) == \A r \in Runs : run[r].dev = d => run[r].pc \notin Running

\* command_join up to the identity: lock, name, setup_joining_device.
JoinStart(r, d, nm) ==
    /\ run[r].pc = "off"
    /\ \A q \in Runs : q < r => run[q].pc # "off"
    /\ ProcessLockFree(d)
    /\ run' = [run EXCEPT ![r] =
                 IF ValidName(nm) /\ local[d] \in {None, nm}
                 THEN [NoRun EXCEPT !.pc = "claim", !.dev = d, !.name = nm]
                 ELSE [NoRun EXCEPT !.pc = "failed"]]
    /\ UNCHANGED <<serviceVars, coord, cliVars, handler, groupVars, stops,
                   session, wireVars, decision, local>>

\* JoiningServiceClient::claim of a code read off the inviting device: the
\* last attempt of its post.  The service promises to give a code to one key
\* only; the devices do not rely on it: it may answer any of them, or refuse,
\* or the request or its answer is lost.
ClaimCode(r, n) ==
    /\ run[r].pc = "claim"
    /\ n \in shown
    /\ \E answer \in ServiceAnswer :
           run' = IF answer = "ok"
                  THEN [run EXCEPT ![r].pc = "connect", ![r].inv = n]
                  ELSE [run EXCEPT ![r] = [NoRun EXCEPT !.pc = "failed"]]
    /\ UNCHANGED <<serviceVars, coord, cliVars, handler, groupVars, stops,
                   session, wireVars, decision, local>>

\* Connect, open the stream, write the JoinRequest.
JoinerConnect(r) ==
    /\ run[r].pc = "connect"
    /\ \/ /\ run' = [run EXCEPT ![r].pc = "wait"]
          /\ conn' = [conn EXCEPT ![r] = "open"]
          /\ sent' = [sent EXCEPT ![r] = <<Request>>]
          /\ session' = [session EXCEPT ![r] = "accept"]
          /\ UNCHANGED reply
       \/ /\ Fail(r)
          /\ UNCHANGED <<sent, session>>
    /\ UNCHANGED <<serviceVars, coord, cliVars, handler, groupVars, stops,
                   decision, local>>

\* The response is read and checked; a rejection ends the run.
JoinerValidates_any_response(r, m) == TRUE

JoinerValidates(r, m) ==
    /\ m.kind = "Approved"
    /\ m.tip[run[r].dev] = run[r].name
    /\ run[r].dev \notin m.hints
    /\ m.hints \subseteq Members(m.tip) \cup {Inviter}
    /\ Inviter \in m.hints

JoinerResponse(r) ==
    /\ run[r].pc = "wait"
    /\ reply[r] # <<>>
    /\ IF JoinerValidates(r, Head(reply[r]))
       THEN /\ run' = [run EXCEPT ![r].pc = "install"]
            /\ reply' = [reply EXCEPT ![r] = Tail(@)]
            /\ UNCHANGED conn
       ELSE Fail(r)
    /\ UNCHANGED <<serviceVars, coord, cliVars, handler, groupVars, stops,
                   session, sent, decision, local>>

\* install_or_resume_joined_state in one transaction.
JoinerInstall(r) ==
    /\ run[r].pc = "install"
    /\ \/ /\ local[run[r].dev] \in {None, run[r].name}
          /\ local' = [local EXCEPT ![run[r].dev] = run[r].name]
          /\ run' = [run EXCEPT ![r].pc = "ack"]
          /\ UNCHANGED <<conn, reply>>
       \/ /\ Fail(r)
          /\ UNCHANGED local
    /\ UNCHANGED <<serviceVars, coord, cliVars, handler, groupVars, stops,
                   session, sent, decision>>

JoinerAck(r) ==
    /\ run[r].pc = "ack"
    /\ run' = [run EXCEPT ![r].pc = "end"]
    /\ sent' = [sent EXCEPT ![r] = @ \o <<Ack, Fin>>]
    /\ UNCHANGED <<serviceVars, coord, cliVars, handler, groupVars, stops,
                   session, conn, reply, decision, local>>

\* expect_stream_end after the acknowledgement: the join has succeeded.
JoinerEnd(r) ==
    /\ run[r].pc = "end"
    /\ reply[r] = <<Fin>>
    /\ reply' = [reply EXCEPT ![r] = <<>>]
    /\ run' = [run EXCEPT ![r].pc = "sync"]
    /\ conn' = [conn EXCEPT ![r] = "closed"]
    /\ UNCHANGED <<serviceVars, coord, cliVars, handler, groupVars, stops,
                   session, sent, decision, local>>

\* The first synchronization: the command succeeds if one peer answered.
JoinerSync(r) ==
    /\ run[r].pc = "sync"
    /\ \E outcome \in {"done", "failed"} : run' = [run EXCEPT ![r].pc = outcome]
    /\ UNCHANGED <<serviceVars, coord, cliVars, handler, groupVars, stops,
                   session, wireVars, decision, local>>

-----------------------------------------------------------------------------
(* The environment.                                                         *)

\* A timeout, a lost connection, or the command is interrupted.
JoinerStops(r) ==
    /\ run[r].pc \in Running
    /\ Fail(r)
    /\ UNCHANGED <<serviceVars, coord, cliVars, handler, groupVars, stops,
                   session, sent, decision, local>>

\* Time passes the deadline of an invitation that the daemon still holds, in
\* the slot or in a waiting task.
Expire(n) ==
    /\ n \notin expired
    /\ coord.inv = n \/ \E r \in Runs : run[r].inv = n /\ session[r] = "waiting"
    /\ expired' = expired \cup {n}
    /\ UNCHANGED <<shown, coord, cliVars, handler, groupVars, stops, run,
                   session, wireVars, decision, local>>

\* A session merges a chain and the selection moves: another member removed
\* the device, or a better sibling drops an admission or a removal, or the
\* replay of a local entry brings one back.  Only admissions of this device's
\* own invitations are told apart from the others.
SelectionMoves(d, entry) ==
    /\ entry # roster[d]
    /\ \E n \in Invites : \E a \in admitted[n] :
           a[1] = d /\ entry \in {a[2], None, Removed}
    /\ roster' = [roster EXCEPT ![d] = entry]
    /\ UNCHANGED <<serviceVars, coord, cliVars, handler, hinted, admitted, stops,
                   run, session, wireVars, decision, local>>

\* The daemon stops or crashes and is started again: its memory, its tasks
\* and its connections are gone.  Without any of them a restart changes nothing.
DaemonRestarts ==
    /\ stops < MaxStops
    /\ \/ coord # Idle \/ handler # NoHandler
       \/ \E r \in Runs : conn[r] = "open" \/ session[r] \notin {"none", "ended"}
    /\ stops' = stops + 1
    /\ coord' = Idle
    /\ handler' = NoHandler
    /\ cli' = [n \in Invites |-> IF cli[n] = "deciding" THEN "failed" ELSE cli[n]]
    /\ session' = [r \in Runs |-> IF session[r] = "none" THEN "none" ELSE "ended"]
    /\ conn' = [r \in Runs |-> IF conn[r] = "open" THEN "closed" ELSE conn[r]]
    /\ sent' = [r \in Runs |-> <<>>]
    /\ decision' = [r \in Runs |-> Undecided]
    /\ UNCHANGED <<serviceVars, seen, approvals, groupVars, run, reply, local>>

-----------------------------------------------------------------------------

Init ==
    /\ shown = {}
    /\ expired = {}
    /\ coord = Idle
    /\ cli = [n \in Invites |-> "off"]
    /\ seen = [n \in Invites |-> 0]
    /\ approvals = {}
    /\ handler = NoHandler
    /\ roster = [d \in Devices |-> None]
    /\ hinted = {}
    /\ admitted = [n \in Invites |-> {}]
    /\ stops = 0
    /\ run = [r \in Runs |-> NoRun]
    /\ session = [r \in Runs |-> "none"]
    /\ conn = [r \in Runs |-> "none"]
    /\ sent = [r \in Runs |-> <<>>]
    /\ reply = [r \in Runs |-> <<>>]
    /\ decision = [r \in Runs |-> Undecided]
    /\ local = [d \in Devices |-> None]

InviteStep ==
    \E n \in Invites :
        \/ CreateInvitation(n)
        \/ ActivateInvitation(n)
        \/ PollPending(n)
        \/ \E approve \in BOOLEAN : Confirm(n, approve)
        \/ Expire(n)

DecideStep == DecideReject \/ DecideLookup \/ DecideAdmit \/ DecideBuild \/ DecideSend

InviterStep(r) ==
    \/ InviterClaim(r)
    \/ InviterGivesUp(r)
    \/ InviterSenderDropped(r)
    \/ InviterResponds(r)
    \/ InviterEnds(r)

JoinerStep(r) ==
    \/ \E d \in Devices, nm \in Names \cup {BadName} : JoinStart(r, d, nm)
    \/ \E n \in Invites : ClaimCode(r, n)
    \/ JoinerConnect(r)
    \/ JoinerResponse(r)
    \/ JoinerInstall(r)
    \/ JoinerAck(r)
    \/ JoinerEnd(r)
    \/ JoinerSync(r)
    \/ JoinerStops(r)

Next ==
    \/ InviteStep
    \/ DecideStep
    \/ \E r \in Runs : InviterStep(r) \/ JoinerStep(r)
    \/ \E d \in Devices, entry \in Names \cup {None, Removed} : SelectionMoves(d, entry)
    \/ DaemonRestarts

Spec == Init /\ [][Next]_vars

-----------------------------------------------------------------------------
(* Properties.                                                              *)

CliStages == {"off", "activate", "poll", "confirm", "deciding", "done", "failed"}
Tips == [Devices -> Names \cup {None, Removed}]
Approvals == [kind : {"Approved"}, tip : Tips, hints : SUBSET (Devices \cup {Inviter})]
Decisions == {Rejected} \cup Approvals

\* The shape of every variable: the coordinator's slot (join.rs, JoinState),
\* the stages of the commands and tasks, and what the streams carry.
TypeOK ==
    /\ shown \subseteq Invites
    /\ expired \subseteq Invites
    /\ coord \in [kind : {"Idle", "Active", "Pending"},
                  inv : Invites \cup {0}, req : Runs \cup {0}]
    /\ cli \in [Invites -> CliStages]
    /\ seen \in [Invites -> Runs \cup {0}]
    /\ approvals \subseteq Devices \X Names
    /\ handler \in [step : {"none", "reject", "lookup", "admit", "build", "send"},
                    inv : Invites \cup {0}, req : Runs \cup {0}, tip : Tips]
    /\ roster \in Tips
    /\ hinted \subseteq Devices
    /\ admitted \in [Invites -> SUBSET (Devices \X Names)]
    /\ stops \in 0..MaxStops
    /\ run \in [Runs -> [pc : Running \cup {"off", "done", "failed"},
                         dev : Devices \cup {None},
                         name : Names \cup {BadName, None},
                         inv : Invites \cup {0}]]
    /\ session \in [Runs -> {"none", "accept", "waiting", "ack", "joined", "ended"}]
    /\ conn \in [Runs -> {"none", "open", "closed"}]
    /\ sent \in [Runs -> Seq({Request, Ack, Fin})]
    /\ reply \in [Runs -> Seq(Decisions \cup {Fin})]
    /\ decision \in [Runs -> Decisions \cup {Undecided}]
    /\ local \in [Devices -> Names \cup {None}]

\* An invitation admits one device, under one name, at most: its nonce leaves the slot with the
\* first claim and comes back neither with a decision nor with a joiner that
\* goes away (join.rs, claim, decide, cancel).
OneAdmissionPerInvitation ==
    \A n \in Invites : Cardinality(admitted[n]) <= 1

\* A device enters the roster under a name only if a user, shown that device
\* and that name, said yes; a late answer to a request that is gone never
\* admits the device of a newer request (join.rs, pending_addr; network.rs,
\* decide_join).
AdmittedOnlyApproved ==
    \A d \in Devices : roster[d] \in Names => <<d, roster[d]>> \in approvals

\* A device has installed a group only if an invitation of that group admitted
\* it, under the name it installed, whatever the inviter's selection has become
\* since: no order of a rejection, an expiry, a crash, a retried command and a
\* better sibling between the steps of decide_join gives a device a roster that
\* never admitted it (join.rs, run_joiner; state.rs, install_or_resume_...).
InstalledWasAdmitted ==
    \A d \in Devices :
        local[d] # None => \E n \in Invites : <<d, local[d]>> \in admitted[n]

\* A session that reports success (run_inviter returns Ok) has seen the
\* joiner's acknowledgement, which the joiner sends after its commit.
AcknowledgedIsInstalled ==
    \A r \in Runs : session[r] = "joined" => local[run[r].dev] = run[r].name

\* While the slot holds an unexpired request, the task of that request waits
\* for its decision: a joiner that went away frees the slot at once, and the
\* next invitation need not wait for the deadline (join.rs, cancel).
PendingHasSession ==
    Holds(coord, coord.req) => session[coord.req] = "waiting"

=============================================================================
