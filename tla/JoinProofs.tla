---------------------------- MODULE JoinProofs -----------------------------
(***************************************************************************)
(* The safety invariants of Join, for any devices and names and any number *)
(* of invitations, joins and restarts.                                     *)
(***************************************************************************)
EXTENDS Join, FiniteSetTheorems, SequenceTheorems, TLAPS

\* A run that has reached the inviter is a device's, with a valid name and an
\* invitation's nonce, and its task has no decision before its claim.
RunShape(r) ==
    /\ run[r].pc \in {"claim", "connect"} => run[r].dev \in Devices /\ run[r].name \in Names
    /\ run[r].pc = "connect" => run[r].inv \in Invites
    /\ run[r].pc \in {"off", "claim", "connect"} <=> session[r] = "none" /\ run[r].pc # "failed"
    /\ session[r] # "none" =>
           run[r].dev \in Devices /\ run[r].name \in Names /\ run[r].inv \in Invites
    /\ session[r] \in {"none", "accept"} => decision[r] = Undecided

\* A request in the slot has a waiting task, no decision, and its own nonce.
SlotShape ==
    /\ coord.kind # "Idle" => coord.inv \in Invites
    /\ coord.kind = "Pending" =>
           /\ coord.req \in Runs
           /\ session[coord.req] = "waiting"
           /\ decision[coord.req] = Undecided
           /\ run[coord.req].inv = coord.inv

\* The request that a command has shown reached the daemon.
CommandShape(n) ==
    /\ cli[n] = "confirm" => seen[n] # 0
    /\ seen[n] # 0 => session[seen[n]] # "none"

\* So did the request that the control thread decides.
HandlerShape ==
    handler.step # "none" =>
        /\ handler.inv \in Invites
        /\ handler.req \in Runs
        /\ session[handler.req] # "none"

Shape ==
    /\ \A r \in Runs : RunShape(r)
    /\ SlotShape
    /\ \A n \in Invites : CommandShape(n)
    /\ HandlerShape

TypeInv == TypeOK /\ Shape

Run == [pc : Running \cup {"off", "done", "failed"}, dev : Devices \cup {None},
        name : Names \cup {BadName, None}, inv : Invites \cup {0}]

Slot == [kind : {"Idle", "Active", "Pending"}, inv : Invites \cup {0}, req : Runs \cup {0}]

Handler == [step : {"none", "reject", "lookup", "admit", "build", "send"},
            inv : Invites \cup {0}, req : Runs \cup {0}, tip : Tips]

----------------------------------------------------------------------------
(* Type correctness                                                        *)

\* Nothing has been invited and nobody has joined.
LEMMA InitType == Init => TypeInv
  <1> SUFFICES ASSUME Init PROVE TypeInv
    OBVIOUS
  <1> USE JoinAssumption DEF JoinAssumption
  <1>1. NoRun \in Run
    BY DEF NoRun, Run
  <1>2. run \in [Runs -> Run]
    BY <1>1 DEF Init
  <1>3. roster \in Tips /\ handler.tip \in Tips
    BY DEF Init, NoHandler, Tips
  <1>4. /\ sent \in [Runs -> Seq({Request, Ack, Fin})]
        /\ reply \in [Runs -> Seq(Decisions \cup {Fin})]
    BY DEF Init
  <1>5. coord \in Slot /\ handler \in Handler
    BY <1>3 DEF Init, Idle, NoHandler, Slot, Handler
  <1>6. TypeOK
    BY <1>2, <1>3, <1>4, <1>5 DEF Init, TypeOK, CliStages, Run, Slot, Handler
  <1>7. \A r \in Runs : RunShape(r)
    BY DEF Init, RunShape, NoRun
  <1>8. SlotShape /\ HandlerShape /\ \A n \in Invites : CommandShape(n)
    BY DEF Init, SlotShape, HandlerShape, CommandShape, Idle, NoHandler
  <1> QED BY <1>6, <1>7, <1>8 DEF TypeInv, Shape

\* The empty handler, for the steps that end one.
LEMMA NoHandlerType == NoHandler \in Handler /\ NoHandler.step = "none"
  <1>1. [d \in Devices |-> None] \in Tips
    BY DEF Tips
  <1> QED BY <1>1 DEF NoHandler, Handler

\* Expiry leaves the slot or empties it.
LEMMA ExpireSlot ==
    ASSUME TypeInv
    PROVE  /\ coord \in Slot /\ expire_locked(coord) \in {coord, Idle}
           /\ Idle \in Slot /\ Idle.kind = "Idle"
           /\ \A r : Holds(coord, r) => coord.kind = "Pending" /\ coord.req = r
  BY DEF TypeInv, TypeOK, Slot, expire_locked, Idle, Holds

\* A decision goes to the request in the slot, and empties the slot; nothing
\* else in the slot or in a channel changes.
LEMMA DecideSlot ==
    ASSUME TypeInv, NEW r \in Runs, NEW d \in Decisions, decide(r, d)
    PROVE  /\ coord' \in Slot /\ coord' \in {coord, Idle}
           /\ coord'.kind = "Pending" => coord' = coord /\ coord.req # r
           /\ decision' \in [Runs -> Decisions \cup {Undecided}]
           /\ \A q \in Runs :
                  \/ decision'[q] = decision[q]
                  \/ q = r /\ decision'[q] = d /\ session[q] = "waiting"
  <1>1. decision \in [Runs -> Decisions \cup {Undecided}]
    BY DEF TypeInv, TypeOK
  <1>2. coord' \in Slot /\ coord' \in {coord, Idle}
    BY ExpireSlot DEF decide
  <1>3. coord'.kind = "Pending" => coord' = coord /\ coord.req # r
    BY ExpireSlot DEF decide, Holds, Slot
  <1>4. Holds(coord, r) => session[r] = "waiting"
    BY ExpireSlot DEF TypeInv, Shape, SlotShape
  <1> QED BY <1>1, <1>2, <1>3, <1>4 DEF decide

\* The end of the control thread's request.
LEMMA FinishType ==
    ASSUME TypeInv, handler.step # "none", NEW outcome \in {"done", "failed"}, Finish(outcome)
    PROVE  /\ handler' \in Handler /\ handler'.step = "none"
           /\ cli' \in [Invites -> CliStages] /\ seen' \in [Invites -> Runs \cup {0}]
           /\ \A n \in Invites :
                  \/ n = handler.inv /\ cli'[n] = outcome /\ seen'[n] = 0
                  \/ cli'[n] = cli[n] /\ seen'[n] = seen[n]
  BY NoHandlerType DEF Finish, TypeInv, TypeOK, CliStages

\* What a decision with its answer to the command keeps.
LEMMA DecidedShape ==
    ASSUME TypeInv, handler.step # "none", NEW d \in Decisions, decide(handler.req, d),
           NEW outcome \in {"done", "failed"}, Finish(outcome),
           UNCHANGED <<serviceVars, approvals, groupVars, stops, run, session, wireVars, local>>
    PROVE  TypeInv'
  <1>1. handler.req \in Runs
    BY DEF TypeInv, Shape, HandlerShape
  <1>2. /\ coord' \in Slot /\ coord' \in {coord, Idle}
        /\ coord'.kind = "Pending" => coord' = coord /\ coord.req # handler.req
        /\ decision' \in [Runs -> Decisions \cup {Undecided}]
        /\ \A q \in Runs :
               \/ decision'[q] = decision[q]
               \/ q = handler.req /\ session[q] = "waiting"
    BY <1>1, DecideSlot
  <1>3. TypeOK'
    BY <1>2, FinishType DEF TypeInv, TypeOK, Slot, Handler, serviceVars, groupVars, wireVars
  <1>4. \A r \in Runs : RunShape(r)'
    BY <1>2 DEF TypeInv, Shape, RunShape
  <1>5. SlotShape'
    BY <1>2 DEF TypeInv, Shape, SlotShape, Idle
  <1>6. \A n \in Invites : CommandShape(n)'
    BY FinishType DEF TypeInv, Shape, CommandShape
  <1> QED BY <1>3, <1>4, <1>5, <1>6, FinishType DEF TypeInv, Shape, HandlerShape

\* The last step of an approval decides, one way or the other.
LEMMA SendDecides ==
    ASSUME TypeInv, DecideSend
    PROVE  \/ FailApproval
           \/ \E d \in Decisions, outcome \in {"done", "failed"} :
                  decide(handler.req, d) /\ Finish(outcome)
  <1> DEFINE hints == approval_peer_hints(Pending.dev)
             d == [kind |-> "Approved", tip |-> handler.tip, hints |-> hints]
  <1>1. hints \in SUBSET (Devices \cup {Inviter})
    BY DEF approval_peer_hints, Members
  <1>2. d \in Decisions
    BY <1>1 DEF Decisions, Approvals, TypeInv, TypeOK
  <1>3. \/ decide(handler.req, d) /\ \E outcome \in {"done", "failed"} : Finish(outcome)
        \/ FailApproval
    BY DEF DecideSend
  <1> HIDE DEF d
  <1> QED BY <1>2, <1>3

\* The steps of the control thread.
LEMMA DecideType == ASSUME TypeInv, DecideStep PROVE TypeInv'
  <1> USE JoinAssumption DEF JoinAssumption
  <1>1. Rejected \in Decisions
    BY DEF Decisions
  <1>2. ASSUME handler.step # "none", FailApproval,
               UNCHANGED <<serviceVars, approvals, groupVars, stops, run, session, wireVars, local>>
        PROVE  TypeInv'
    BY <1>1, <1>2, DecidedShape DEF FailApproval
  <1>3. /\ handler \in Handler /\ roster \in Tips /\ coord \in Slot
        /\ handler.step # "none" =>
               /\ handler.req \in Runs /\ handler.inv \in Invites
               /\ session[handler.req] # "none"
               /\ Pending.dev \in Devices /\ Pending.name \in Names /\ Pending.inv \in Invites
    BY DEF TypeInv, TypeOK, Handler, Slot, Shape, HandlerShape, RunShape, Pending
  <1>4. CASE DecideReject
    BY <1>1, <1>4, DecidedShape DEF DecideReject
  <1>5. CASE DecideLookup
    <2>1. CASE ~pending_addr(handler.req)
      BY <1>2, <1>5, <2>1 DEF DecideLookup
    <2>2. CASE pending_addr(handler.req)
      <3>1. handler' = [handler EXCEPT !.step = "admit", !.req = handler.req]
        BY <1>3, <1>5, <2>2 DEF DecideLookup, pending_addr, Holds
      <3>2. handler' \in Handler /\ handler'.req = handler.req /\ handler'.inv = handler.inv
        BY <1>3, <3>1 DEF Handler
      <3>3. TypeOK'
        BY <1>5, <2>2, <3>2 DEF DecideLookup, TypeInv, TypeOK, Handler, serviceVars, groupVars,
           wireVars
      <3> QED
        BY <1>3, <1>5, <2>2, <3>2, <3>3 DEF DecideLookup, TypeInv, Shape, RunShape, SlotShape,
           CommandShape, HandlerShape
    <2> QED BY <2>1, <2>2
  <1>6. CASE DecideAdmit
    <2>1. CASE FailApproval /\ UNCHANGED groupVars
      BY <1>2, <1>6, <2>1 DEF DecideAdmit
    <2>2. CASE handler' = [handler EXCEPT !.step = "build"] /\ UNCHANGED <<coord, decision, cli, seen>>
               /\ roster' = [roster EXCEPT ![Pending.dev] = Pending.name]
               /\ hinted' = hinted \cup {Pending.dev}
               /\ admitted' = IF roster[Pending.dev] = None
                              THEN [admitted EXCEPT ![Pending.inv] =
                                     @ \cup {<<Pending.dev, Pending.name>>}]
                              ELSE admitted
      <3>1. handler' \in Handler /\ handler'.req = handler.req /\ handler'.inv = handler.inv
        BY <1>3, <2>2 DEF Handler
      <3>2. /\ roster' \in Tips /\ hinted' \subseteq Devices
            /\ admitted' \in [Invites -> SUBSET (Devices \X Names)]
        <4>1. Pending.dev \in Devices /\ Pending.name \in Names /\ Pending.inv \in Invites
          BY <1>6 DEF DecideAdmit, Pending, TypeInv, Shape, HandlerShape, RunShape
        <4>2. roster \in Tips /\ hinted \subseteq Devices
              /\ admitted \in [Invites -> SUBSET (Devices \X Names)]
          BY DEF TypeInv, TypeOK
        <4> QED BY <2>2, <4>1, <4>2 DEF Tips
      <3>3. TypeOK'
        BY <1>6, <2>2, <3>1, <3>2 DEF DecideAdmit, TypeInv, TypeOK, Handler, serviceVars, wireVars
      <3> QED
        BY <1>3, <1>6, <2>2, <3>1, <3>3 DEF DecideAdmit, TypeInv, Shape, RunShape, SlotShape,
           CommandShape, HandlerShape
    <2> QED BY <1>6, <2>1, <2>2 DEF DecideAdmit
  <1>7. CASE DecideBuild
    <2>1. CASE FailApproval
      BY <1>2, <1>7, <2>1 DEF DecideBuild
    <2>2. CASE /\ handler' = [handler EXCEPT !.step = "send", !.tip = roster]
               /\ UNCHANGED <<coord, decision, cli, seen>>
      <3>1. handler' \in Handler /\ handler'.req = handler.req /\ handler'.inv = handler.inv
        BY <1>3, <2>2 DEF Handler
      <3>2. TypeOK'
        BY <1>7, <2>2, <3>1 DEF DecideBuild, TypeInv, TypeOK, Handler, serviceVars, groupVars,
           wireVars
      <3> QED
        BY <1>3, <1>7, <2>2, <3>1, <3>2 DEF DecideBuild, TypeInv, Shape, RunShape, SlotShape,
           CommandShape, HandlerShape
    <2> QED BY <1>7, <2>1, <2>2 DEF DecideBuild
  <1>8. CASE DecideSend
    BY <1>2, <1>8, SendDecides, DecidedShape DEF DecideSend
  <1> QED BY <1>4, <1>5, <1>6, <1>7, <1>8 DEF DecideStep

\* The commands of the inviting user, and the deadline.
LEMMA InviteType == ASSUME TypeInv, InviteStep PROVE TypeInv'
  <1> USE JoinAssumption DEF JoinAssumption
  <1>1. coord \in Slot /\ handler \in Handler /\ cli \in [Invites -> CliStages]
    BY DEF TypeInv, TypeOK, Slot, Handler
  <1>2. ASSUME NEW n \in Invites, CreateInvitation(n) PROVE TypeInv'
    <2>1. cli' \in [Invites -> CliStages]
          /\ \A m \in Invites : cli'[m] = "confirm" => cli[m] = "confirm"
      BY <1>1, <1>2 DEF CreateInvitation, CliStages
    <2>2. TypeOK'
      BY <1>2, <2>1 DEF CreateInvitation, TypeInv, TypeOK, serviceVars, groupVars, wireVars
    <2> QED
      BY <1>2, <2>1, <2>2 DEF CreateInvitation, TypeInv, Shape, RunShape, SlotShape,
         CommandShape, HandlerShape, wireVars
  <1>3. ASSUME NEW n \in Invites, ActivateInvitation(n) PROVE TypeInv'
    <2>1. cli' \in [Invites -> CliStages]
          /\ \A m \in Invites : cli'[m] = "confirm" => cli[m] = "confirm"
      BY <1>1, <1>3 DEF ActivateInvitation, CliStages
    <2>2. /\ coord' \in Slot /\ shown' \subseteq Invites
          /\ coord' = coord \/ (coord'.kind = "Active" /\ coord'.inv = n)
      BY <1>1, <1>3 DEF ActivateInvitation, activate, Slot, TypeInv, TypeOK
    <2>3. TypeOK'
      BY <1>3, <2>1, <2>2 DEF ActivateInvitation, TypeInv, TypeOK, Slot, groupVars, wireVars
    <2> QED
      BY <1>3, <2>1, <2>2, <2>3 DEF ActivateInvitation, TypeInv, Shape, RunShape, SlotShape,
         CommandShape, HandlerShape, wireVars
  <1>4. ASSUME NEW n \in Invites, PollPending(n) PROVE TypeInv'
    <2>1. /\ cli' \in [Invites -> CliStages] /\ seen' \in [Invites -> Runs \cup {0}]
          /\ \A m \in Invites : CommandShape(m)'
      <3>1. CASE /\ expire_locked(coord).kind = "Pending"
                 /\ seen' = [seen EXCEPT ![n] = coord.req]
                 /\ cli' = [cli EXCEPT ![n] = "confirm"]
        <4>1. coord.req \in Runs /\ session[coord.req] = "waiting"
          BY <3>1, ExpireSlot DEF TypeInv, Shape, SlotShape
        <4>2. coord.req # 0
          BY <4>1 DEF Runs
        <4> QED
          BY <1>1, <1>4, <3>1, <4>1, <4>2 DEF PollPending, CommandShape, TypeInv, TypeOK, Shape,
             CliStages
      <3>2. CASE cli' = [cli EXCEPT ![n] = "failed"] /\ UNCHANGED seen
        BY <1>1, <1>4, <3>2 DEF PollPending, CommandShape, TypeInv, TypeOK, Shape, CliStages
      <3> QED BY <1>4, <3>1, <3>2 DEF PollPending
    <2>2. TypeOK'
      BY <1>4, <2>1 DEF PollPending, TypeInv, TypeOK, serviceVars, groupVars, wireVars
    <2> QED
      BY <1>4, <2>1, <2>2 DEF PollPending, TypeInv, Shape, RunShape, SlotShape, HandlerShape,
         wireVars
  <1>5. ASSUME NEW n \in Invites, NEW approve \in BOOLEAN, Confirm(n, approve) PROVE TypeInv'
    <2>1. /\ seen[n] \in Runs /\ session[seen[n]] # "none"
          /\ run[seen[n]].dev \in Devices /\ run[seen[n]].name \in Names
      BY <1>5 DEF Confirm, TypeInv, TypeOK, Shape, CommandShape, RunShape
    <2>2. cli' \in [Invites -> CliStages]
          /\ \A m \in Invites : cli'[m] = "confirm" => cli[m] = "confirm"
      BY <1>1, <1>5 DEF Confirm, CliStages
    <2>3. handler' \in Handler /\ HandlerShape'
      BY <1>1, <1>5, <2>1, NoHandlerType DEF Confirm, HandlerShape, Handler
    <2>4. approvals' \subseteq Devices \X Names
      BY <1>5, <2>1 DEF Confirm, TypeInv, TypeOK
    <2>5. seen' \in [Invites -> Runs \cup {0}] /\ \A m \in Invites : CommandShape(m)'
      <3>1. CASE UNCHANGED seen
        BY <1>5, <2>2, <3>1 DEF Confirm, TypeInv, TypeOK, Shape, CommandShape
      <3>2. CASE cli' = [cli EXCEPT ![n] = "failed"] /\ seen' = [seen EXCEPT ![n] = 0]
        <4>1. seen' \in [Invites -> Runs \cup {0}] /\ seen'[n] = 0
              /\ \A m \in Invites \ {n} : seen'[m] = seen[m]
          BY <3>2 DEF TypeInv, TypeOK
        <4>2. cli'[n] = "failed"
          BY <1>1, <3>2
        <4>3. CommandShape(n)'
          BY <4>1, <4>2 DEF CommandShape
        <4>4. \A m \in Invites \ {n} : CommandShape(m)'
          BY <1>5, <2>2, <4>1 DEF Confirm, TypeInv, Shape, CommandShape
        <4> QED BY <4>1, <4>3, <4>4
      <3> QED BY <1>5, <3>1, <3>2 DEF Confirm
    <2>6. TypeOK'
      BY <1>5, <2>2, <2>3, <2>4, <2>5 DEF Confirm, TypeInv, TypeOK, Handler, serviceVars, groupVars,
         wireVars
    <2> QED
      BY <1>5, <2>3, <2>5, <2>6 DEF Confirm, TypeInv, Shape, RunShape, SlotShape, wireVars
  <1>6. ASSUME NEW n \in Invites, Expire(n) PROVE TypeInv'
    <2>1. TypeOK'
      BY <1>6 DEF Expire, TypeInv, TypeOK, cliVars, groupVars, wireVars
    <2> QED
      BY <1>6, <2>1 DEF Expire, TypeInv, Shape, RunShape, SlotShape, CommandShape, HandlerShape,
         cliVars, wireVars
  <1> QED BY <1>2, <1>3, <1>4, <1>5, <1>6 DEF InviteStep

\* A task that ends leaves the slot and the joiners alone.
LEMMA EndType ==
    ASSUME TypeInv, NEW r \in Runs, session[r] # "none", EndSession(r),
           coord' \in Slot, coord' \in {coord, Idle},
           coord'.kind = "Pending" => coord.req # r,
           UNCHANGED <<serviceVars, cliVars, handler, groupVars, stops, run, local>>,
           reply' \in [Runs -> Seq(Decisions \cup {Fin})]
    PROVE  TypeInv'
  <1>1. /\ session' \in [Runs -> {"none", "accept", "waiting", "ack", "joined", "ended"}]
        /\ decision' \in [Runs -> Decisions \cup {Undecided}]
        /\ conn' \in [Runs -> {"none", "open", "closed"}]
        /\ sent' \in [Runs -> Seq({Request, Ack, Fin})]
    BY DEF EndSession, TypeInv, TypeOK
  <1>2. /\ session'[r] = "ended" /\ decision'[r] = Undecided
        /\ \A q \in Runs \ {r} : session'[q] = session[q] /\ decision'[q] = decision[q]
    BY DEF EndSession, TypeInv, TypeOK
  <1>3. TypeOK'
    BY <1>1 DEF TypeInv, TypeOK, Slot, serviceVars, cliVars, groupVars
  <1>4. \A q \in Runs : RunShape(q)'
    BY <1>2 DEF TypeInv, Shape, RunShape
  <1>5. SlotShape'
    BY <1>2, ExpireSlot DEF TypeInv, Shape, SlotShape
  <1>6. \A n \in Invites : CommandShape(n)'
    BY <1>2 DEF TypeInv, TypeOK, Shape, CommandShape, cliVars
  <1>7. HandlerShape'
    BY <1>2 DEF TypeInv, Shape, HandlerShape
  <1> QED BY <1>3, <1>4, <1>5, <1>6, <1>7 DEF TypeInv, Shape

\* The tasks that serve the joiners.
LEMMA InviterType == ASSUME TypeInv, NEW r \in Runs, InviterStep(r) PROVE TypeInv'
  <1> USE JoinAssumption DEF JoinAssumption
  <1>1. /\ coord \in Slot /\ sent[r] \in Seq({Request, Ack, Fin})
        /\ session \in [Runs -> {"none", "accept", "waiting", "ack", "joined", "ended"}]
        /\ reply \in [Runs -> Seq(Decisions \cup {Fin})] /\ reply[r] \in Seq(Decisions \cup {Fin})
        /\ sent \in [Runs -> Seq({Request, Ack, Fin})]
        /\ decision \in [Runs -> Decisions \cup {Undecided}]
        /\ coord.kind = "Pending" => session[coord.req] = "waiting" /\ decision[coord.req] = Undecided
        /\ RunShape(r)
    BY DEF TypeInv, TypeOK, Slot, Shape, SlotShape
  <1>2. CASE InviterClaim(r)
    <2>1. CASE Claimable(r) /\ sent[r] # <<>> /\ claim(r)
               /\ session' = [session EXCEPT ![r] = "waiting"]
               /\ sent' = [sent EXCEPT ![r] = Tail(@)]
               /\ UNCHANGED <<conn, decision>>
      <3>1. /\ coord' = [kind |-> "Pending", inv |-> run[r].inv, req |-> r]
            /\ run[r].inv \in Invites /\ session[r] = "accept" /\ decision[r] = Undecided
        BY <1>1, <1>2, <2>1 DEF claim, Claimable, InviterClaim, RunShape
      <3>2. coord' \in Slot /\ sent' \in [Runs -> Seq({Request, Ack, Fin})]
        BY <1>1, <2>1, <3>1 DEF Slot
      <3>3. TypeOK'
        BY <1>1, <1>2, <2>1, <3>2 DEF InviterClaim, TypeInv, TypeOK, Slot, serviceVars, cliVars,
           groupVars
      <3>4. \A q \in Runs : RunShape(q)'
        BY <1>1, <1>2, <2>1, <3>1 DEF InviterClaim, TypeInv, Shape, RunShape
      <3>5. SlotShape'
        BY <1>1, <1>2, <2>1, <3>1 DEF InviterClaim, SlotShape
      <3>6. \A n \in Invites : CommandShape(n)'
        BY <1>1, <1>2, <2>1 DEF InviterClaim, TypeInv, TypeOK, Shape, CommandShape, cliVars
      <3>7. HandlerShape'
        BY <1>1, <1>2, <2>1 DEF InviterClaim, TypeInv, Shape, HandlerShape
      <3> QED BY <3>3, <3>4, <3>5, <3>6, <3>7 DEF TypeInv, Shape
    <2>2. CASE EndSession(r) /\ coord' \in {coord, Idle}
      BY <1>1, <1>2, <2>2, ExpireSlot, EndType DEF InviterClaim
    <2>3. claim(r) /\ ~Claimable(r) => coord' \in {coord, Idle}
      BY ExpireSlot DEF claim
    <2> QED BY <1>2, <2>1, <2>2, <2>3 DEF InviterClaim
  <1>3. CASE InviterGivesUp(r)
    <2>1. coord' \in {coord, Idle} /\ (coord'.kind = "Pending" => coord.req # r)
      BY <1>3, ExpireSlot DEF InviterGivesUp, cancel
    <2> QED BY <1>1, <1>3, <2>1, ExpireSlot, EndType DEF InviterGivesUp
  <1>4. CASE InviterSenderDropped(r)
    BY <1>1, <1>4, EndType DEF InviterSenderDropped
  <1>5. CASE InviterResponds(r)
    <2>1. coord.kind = "Pending" => coord.req # r
      BY <1>1, <1>5 DEF InviterResponds
    <2>2. decision[r] \in Decisions
      BY <1>1, <1>5 DEF InviterResponds
    <2>3. CASE EndSession(r)
      <3>1. reply' \in [Runs -> Seq(Decisions \cup {Fin})]
        <4>1. reply' \in {reply, [reply EXCEPT ![r] = @ \o <<decision[r], Fin>>],
                           [reply EXCEPT ![r] = Append(@, decision[r])]}
          BY <1>5 DEF InviterResponds
        <4>2. /\ reply[r] \o <<decision[r], Fin>> \in Seq(Decisions \cup {Fin})
              /\ Append(reply[r], decision[r]) \in Seq(Decisions \cup {Fin})
          BY <1>1, <2>2
        <4> QED BY <1>1, <4>1, <4>2
      <3> QED BY <1>1, <1>5, <2>1, <2>3, <3>1, EndType DEF InviterResponds
    <2>4. CASE /\ reply' = [reply EXCEPT ![r] = Append(@, decision[r])]
               /\ session' = [session EXCEPT ![r] = "ack"]
               /\ decision' = [decision EXCEPT ![r] = Undecided]
               /\ UNCHANGED <<conn, sent>>
      <3>1. reply' \in [Runs -> Seq(Decisions \cup {Fin})]
        BY <1>1, <2>2, <2>4
      <3>2. TypeOK'
        BY <1>1, <1>5, <2>4, <3>1 DEF InviterResponds, TypeInv, TypeOK, serviceVars, cliVars,
           groupVars
      <3>3. \A q \in Runs : RunShape(q)'
        BY <1>1, <1>5, <2>4 DEF InviterResponds, TypeInv, Shape, RunShape
      <3>4. SlotShape'
        BY <1>1, <1>5, <2>1, <2>4 DEF InviterResponds, TypeInv, Shape, SlotShape
      <3>5. \A n \in Invites : CommandShape(n)'
        BY <1>1, <1>5, <2>4 DEF InviterResponds, TypeInv, TypeOK, Shape, CommandShape, cliVars
      <3>6. HandlerShape'
        BY <1>1, <1>5, <2>4 DEF InviterResponds, TypeInv, Shape, HandlerShape
      <3> QED BY <3>2, <3>3, <3>4, <3>5, <3>6 DEF TypeInv, Shape
    <2> QED BY <1>5, <2>3, <2>4 DEF InviterResponds
  <1>6. CASE InviterEnds(r)
    <2>1. CASE EndSession(r) /\ UNCHANGED reply
      BY <1>1, <1>6, <2>1, EndType DEF InviterEnds
    <2>2. CASE /\ InviterAcked(r)
               /\ reply' = [reply EXCEPT ![r] = Append(@, Fin)]
               /\ sent' = [sent EXCEPT ![r] = <<>>]
               /\ session' = [session EXCEPT ![r] = "joined"]
               /\ conn' = [conn EXCEPT ![r] = "closed"]
               /\ UNCHANGED decision
      <3>1. /\ reply' \in [Runs -> Seq(Decisions \cup {Fin})]
            /\ sent' \in [Runs -> Seq({Request, Ack, Fin})]
        BY <1>1, <2>2
      <3>2. conn' \in [Runs -> {"none", "open", "closed"}]
        BY <2>2 DEF TypeInv, TypeOK
      <3>3. TypeOK'
        BY <1>1, <1>6, <2>2, <3>1, <3>2 DEF InviterEnds, TypeInv, TypeOK, serviceVars, cliVars,
           groupVars
      <3>4. \A q \in Runs : RunShape(q)'
        BY <1>1, <1>6, <2>2 DEF InviterEnds, TypeInv, Shape, RunShape
      <3>5. SlotShape'
        BY <1>1, <1>6, <2>2 DEF InviterEnds, TypeInv, Shape, SlotShape
      <3>6. \A n \in Invites : CommandShape(n)'
        BY <1>1, <1>6, <2>2 DEF InviterEnds, TypeInv, TypeOK, Shape, CommandShape, cliVars
      <3>7. HandlerShape'
        BY <1>1, <1>6, <2>2 DEF InviterEnds, TypeInv, Shape, HandlerShape
      <3> QED BY <3>3, <3>4, <3>5, <3>6, <3>7 DEF TypeInv, Shape
    <2> QED BY <1>6, <2>1, <2>2 DEF InviterEnds
  <1> QED BY <1>2, <1>3, <1>4, <1>5, <1>6 DEF InviterStep

\* A joiner's step, which leaves the daemon alone, keeps what its task relies
\* on.
LEMMA JoinerKeeps ==
    ASSUME TypeInv, NEW r \in Runs,
           UNCHANGED <<serviceVars, coord, cliVars, handler, groupVars, stops, decision>>,
           run' \in [Runs -> Run],
           session' \in [Runs -> {"none", "accept", "waiting", "ack", "joined", "ended"}],
           \A q \in Runs \ {r} : run'[q] = run[q] /\ session'[q] = session[q],
           RunShape(r)',
           session[r] # "none" => session'[r] = session[r] /\ run'[r].inv = run[r].inv,
           sent' \in [Runs -> Seq({Request, Ack, Fin})],
           reply' \in [Runs -> Seq(Decisions \cup {Fin})],
           conn' \in [Runs -> {"none", "open", "closed"}],
           local' \in [Devices -> Names \cup {None}]
    PROVE  TypeInv'
  <1>1. TypeOK'
    BY DEF TypeInv, TypeOK, Run, serviceVars, cliVars, groupVars
  <1>2. \A q \in Runs : RunShape(q)'
    BY DEF TypeInv, Shape, RunShape
  <1>3. SlotShape'
    BY DEF TypeInv, Shape, SlotShape
  <1>4. \A n \in Invites : CommandShape(n)'
    BY DEF TypeInv, TypeOK, Shape, CommandShape, cliVars
  <1>5. HandlerShape'
    BY DEF TypeInv, Shape, HandlerShape
  <1> QED BY <1>1, <1>2, <1>3, <1>4, <1>5 DEF TypeInv, Shape

\* A command that fails keeps its device, name and nonce when the inviter may
\* know them, and no other command changes.
LEMMA FailRun ==
    ASSUME TypeInv, NEW r \in Runs, Fail(r)
    PROVE  /\ run' \in [Runs -> Run] /\ run'[r].pc = "failed"
           /\ session[r] # "none" =>
                  /\ run'[r].dev = run[r].dev
                  /\ run'[r].name = run[r].name
                  /\ run'[r].inv = run[r].inv
           /\ \A q \in Runs \ {r} : run'[q] = run[q]
  <1> DEFINE over == IF session[r] = "none" THEN NoRun ELSE run[r]
             end == [over EXCEPT !.pc = "failed"]
  <1>1. run \in [Runs -> Run] /\ run[r] \in Run /\ NoRun \in Run
    BY DEF TypeInv, TypeOK, Run, NoRun
  <1>2. over \in Run /\ (session[r] # "none" => over = run[r])
    BY <1>1
  <1>3. run' = [run EXCEPT ![r] = end]
    BY DEF Fail
  <1> HIDE DEF over
  <1>4. end \in Run /\ end.pc = "failed" /\ end.dev = over.dev /\ end.name = over.name
        /\ end.inv = over.inv
    BY <1>2 DEF Run
  <1> HIDE DEF end
  <1> QED BY <1>1, <1>2, <1>3, <1>4

\* So it keeps the types and the shapes.
LEMMA FailType ==
    ASSUME TypeInv, NEW r \in Runs, run[r].pc \in Running, Fail(r),
           UNCHANGED <<serviceVars, coord, cliVars, handler, groupVars, stops,
                       session, sent, decision, local>>
    PROVE  TypeInv'
  <1>1. /\ sent' \in [Runs -> Seq({Request, Ack, Fin})]
        /\ conn' \in [Runs -> {"none", "open", "closed"}]
        /\ reply' \in [Runs -> Seq(Decisions \cup {Fin})]
        /\ local' \in [Devices -> Names \cup {None}]
    BY DEF Fail, TypeInv, TypeOK
  <1>2. /\ session' = session /\ decision' = decision /\ RunShape(r)
        /\ session \in [Runs -> {"none", "accept", "waiting", "ack", "joined", "ended"}]
    BY DEF TypeInv, TypeOK, Shape
  <1>3. RunShape(r)'
    BY <1>2, FailRun DEF RunShape
  <1> QED BY <1>1, <1>2, <1>3, FailRun, JoinerKeeps

\* The steps of the join command.
LEMMA JoinerType == ASSUME TypeInv, NEW r \in Runs, JoinerStep(r) PROVE TypeInv'
  <1> USE JoinAssumption DEF JoinAssumption
  <1>1. /\ run \in [Runs -> Run] /\ run[r] \in Run
        /\ session \in [Runs -> {"none", "accept", "waiting", "ack", "joined", "ended"}]
        /\ sent \in [Runs -> Seq({Request, Ack, Fin})] /\ sent[r] \in Seq({Request, Ack, Fin})
        /\ reply \in [Runs -> Seq(Decisions \cup {Fin})] /\ reply[r] \in Seq(Decisions \cup {Fin})
        /\ conn \in [Runs -> {"none", "open", "closed"}]
        /\ local \in [Devices -> Names \cup {None}]
        /\ RunShape(r)
    BY DEF TypeInv, TypeOK, Run, Shape
  <1>2. ASSUME NEW pc \in Running \cup {"done", "failed"}, run[r].pc \in Running \ {"claim"},
               pc \notin {"claim", "connect"}, run[r].pc = "connect" => pc = "failed",
               run' = [run EXCEPT ![r].pc = pc],
               UNCHANGED <<serviceVars, coord, cliVars, handler, groupVars, stops, decision, session>>,
               sent' \in [Runs -> Seq({Request, Ack, Fin})],
               reply' \in [Runs -> Seq(Decisions \cup {Fin})],
               conn' \in [Runs -> {"none", "open", "closed"}],
               local' \in [Devices -> Names \cup {None}]
        PROVE  TypeInv'
    <2>1. run' \in [Runs -> Run] /\ run'[r].pc = pc /\ run'[r].dev = run[r].dev
          /\ run'[r].name = run[r].name /\ run'[r].inv = run[r].inv
          /\ \A q \in Runs \ {r} : run'[q] = run[q]
      BY <1>1, <1>2 DEF Run
    <2>2. RunShape(r)'
      BY <1>1, <1>2, <2>1 DEF RunShape, Running
    <2> QED BY <1>1, <1>2, <2>1, <2>2, JoinerKeeps
  <1>4. ASSUME NEW d \in Devices, NEW nm \in Names \cup {BadName}, JoinStart(r, d, nm)
        PROVE  TypeInv'
    <2>1. /\ run' = [run EXCEPT ![r] = run'[r]]
          /\ \/ run'[r] = [pc |-> "claim", dev |-> d, name |-> nm, inv |-> 0] /\ nm \in Names
             \/ run'[r] = [pc |-> "failed", dev |-> None, name |-> None, inv |-> 0]
      BY <1>1, <1>4 DEF JoinStart, NoRun, ValidName
    <2>2. run'[r] \in Run
      BY <2>1 DEF Run, Running
    <2>3. run' \in [Runs -> Run] /\ \A q \in Runs \ {r} : run'[q] = run[q]
      BY <1>1, <2>1, <2>2
    <2>4. session[r] = "none" /\ session'[r] = "none" /\ decision'[r] = Undecided
      BY <1>1, <1>4 DEF JoinStart, RunShape
    <2>5. RunShape(r)'
      BY <2>1, <2>4 DEF RunShape
    <2> QED BY <1>1, <1>4, <2>3, <2>4, <2>5, JoinerKeeps DEF JoinStart, wireVars
  <1>5. ASSUME NEW n \in Invites, ClaimCode(r, n) PROVE TypeInv'
    <2> DEFINE ok == [run[r] EXCEPT !.pc = "connect", !.inv = n]
               error == [NoRun EXCEPT !.pc = "failed"]
    <2>1. \/ run' = [run EXCEPT ![r] = ok]
          \/ run' = [run EXCEPT ![r] = error]
      BY <1>1, <1>5 DEF ClaimCode
    <2>2. /\ ok \in Run /\ ok.pc = "connect" /\ ok.inv = n
          /\ ok.dev = run[r].dev /\ ok.name = run[r].name
      BY <1>1 DEF Run, Running
    <2>3. error \in Run /\ error.pc = "failed"
      BY DEF Run, NoRun
    <2> HIDE DEF ok, error
    <2>4. run' \in [Runs -> Run] /\ \A q \in Runs \ {r} : run'[q] = run[q]
      BY <1>1, <2>1, <2>2, <2>3
    <2>5. session[r] = "none" /\ session'[r] = "none" /\ decision'[r] = Undecided
          /\ run[r].dev \in Devices /\ run[r].name \in Names
      BY <1>1, <1>5 DEF ClaimCode, RunShape
    <2>6. RunShape(r)'
      BY <1>1, <2>1, <2>2, <2>3, <2>5 DEF RunShape
    <2> QED BY <1>1, <1>5, <2>4, <2>5, <2>6, JoinerKeeps DEF ClaimCode, wireVars
  <1>6. CASE JoinerConnect(r)
    <2>1. CASE Fail(r) /\ UNCHANGED <<sent, session>>
      BY <1>6, <2>1, FailType DEF JoinerConnect, Running
    <2>2. CASE /\ run' = [run EXCEPT ![r].pc = "wait"]
               /\ conn' = [conn EXCEPT ![r] = "open"]
               /\ sent' = [sent EXCEPT ![r] = <<Request>>]
               /\ session' = [session EXCEPT ![r] = "accept"]
               /\ UNCHANGED reply
      <3>1. run' \in [Runs -> Run] /\ run'[r] = [run[r] EXCEPT !.pc = "wait"]
            /\ \A q \in Runs \ {r} : run'[q] = run[q]
        BY <1>1, <2>2 DEF Run, Running
      <3>2. /\ sent' \in [Runs -> Seq({Request, Ack, Fin})]
            /\ conn' \in [Runs -> {"none", "open", "closed"}]
            /\ session' \in [Runs -> {"none", "accept", "waiting", "ack", "joined", "ended"}]
            /\ session'[r] = "accept" /\ \A q \in Runs \ {r} : session'[q] = session[q]
        BY <1>1, <2>2
      <3>3. session[r] = "none" /\ RunShape(r)'
        BY <1>1, <1>6, <3>1, <3>2 DEF JoinerConnect, RunShape, Run
      <3> QED BY <1>1, <1>6, <2>2, <3>1, <3>2, <3>3, JoinerKeeps DEF JoinerConnect
    <2> QED BY <1>6, <2>1, <2>2 DEF JoinerConnect
  <1>7. CASE JoinerResponse(r)
    <2>1. CASE Fail(r)
      BY <1>7, <2>1, FailType DEF JoinerResponse, Running
    <2>2. CASE /\ run' = [run EXCEPT ![r].pc = "install"]
               /\ reply' = [reply EXCEPT ![r] = Tail(@)]
               /\ UNCHANGED conn
      <3>1. reply' \in [Runs -> Seq(Decisions \cup {Fin})]
        BY <1>1, <1>7, <2>2 DEF JoinerResponse
      <3> QED BY <1>1, <1>2, <1>7, <2>2, <3>1 DEF JoinerResponse, Running
    <2> QED BY <1>7, <2>1, <2>2 DEF JoinerResponse
  <1>8. CASE JoinerInstall(r)
    <2>1. CASE Fail(r) /\ UNCHANGED local
      BY <1>8, <2>1, FailType DEF JoinerInstall, Running
    <2>2. CASE /\ local' = [local EXCEPT ![run[r].dev] = run[r].name]
               /\ run' = [run EXCEPT ![r].pc = "ack"]
               /\ UNCHANGED <<conn, reply>>
      <3>1. local' \in [Devices -> Names \cup {None}]
        BY <1>1, <1>8, <2>2 DEF JoinerInstall, RunShape
      <3> QED BY <1>1, <1>2, <1>8, <2>2, <3>1 DEF JoinerInstall, Running
    <2> QED BY <1>8, <2>1, <2>2 DEF JoinerInstall
  <1>9. CASE JoinerAck(r)
    <2>1. sent[r] \o <<Ack, Fin>> \in Seq({Request, Ack, Fin})
      BY <1>1
    <2>2. sent' \in [Runs -> Seq({Request, Ack, Fin})]
      BY <1>1, <1>9, <2>1 DEF JoinerAck
    <2> QED BY <1>1, <1>2, <1>9, <2>2 DEF JoinerAck, Running
  <1>10. CASE JoinerEnd(r)
    <2>1. /\ reply' \in [Runs -> Seq(Decisions \cup {Fin})]
          /\ conn' \in [Runs -> {"none", "open", "closed"}]
      BY <1>1, <1>10 DEF JoinerEnd
    <2> QED BY <1>1, <1>2, <1>10, <2>1 DEF JoinerEnd, Running
  <1>11. CASE JoinerSync(r)
    BY <1>1, <1>2, <1>11 DEF JoinerSync, Running, wireVars
  <1>12. CASE JoinerStops(r)
    BY <1>12, FailType DEF JoinerStops
  <1> QED
    BY <1>4, <1>5, <1>6, <1>7, <1>8, <1>9, <1>10, <1>11, <1>12 DEF JoinerStep

\* A move of the selection, and a restart of the daemon.
LEMMA EnvironmentType ==
    ASSUME TypeInv, DaemonRestarts \/ \E d \in Devices, e \in Names \cup {None, Removed} : SelectionMoves(d, e)
    PROVE  TypeInv'
  <1> USE JoinAssumption DEF JoinAssumption
  <1>1. ASSUME NEW d \in Devices, NEW e \in Names \cup {None, Removed}, SelectionMoves(d, e)
        PROVE  TypeInv'
    <2>1. roster' \in Tips
      BY <1>1 DEF SelectionMoves, TypeInv, TypeOK, Tips
    <2>2. TypeOK'
      BY <1>1, <2>1 DEF SelectionMoves, TypeInv, TypeOK, serviceVars, cliVars, wireVars
    <2> QED
      BY <1>1, <2>2 DEF SelectionMoves, TypeInv, Shape, RunShape, SlotShape, CommandShape,
         HandlerShape, cliVars
  <1>2. CASE DaemonRestarts
    <2>1. /\ session' \in [Runs -> {"none", "accept", "waiting", "ack", "joined", "ended"}]
          /\ decision' \in [Runs -> Decisions \cup {Undecided}]
          /\ conn' \in [Runs -> {"none", "open", "closed"}]
          /\ sent' \in [Runs -> Seq({Request, Ack, Fin})]
          /\ cli' \in [Invites -> CliStages]
      BY <1>2 DEF DaemonRestarts, TypeInv, TypeOK, CliStages
    <2>2. stops' \in 0..MaxStops
      BY <1>2 DEF DaemonRestarts, TypeInv, TypeOK
    <2>3. TypeOK'
      BY <1>2, <2>1, <2>2, ExpireSlot, NoHandlerType DEF DaemonRestarts, TypeInv, TypeOK, Slot,
         Handler, serviceVars, groupVars
    <2>4. \A r \in Runs : /\ RunShape(r)'
                          /\ session[r] = "none" <=> session'[r] = "none"
      BY <1>2 DEF DaemonRestarts, TypeInv, Shape, RunShape
    <2>5. SlotShape' /\ HandlerShape'
      BY <1>2, ExpireSlot, NoHandlerType DEF DaemonRestarts, SlotShape, HandlerShape
    <2>6. \A n \in Invites : CommandShape(n)'
      BY <1>2, <2>4 DEF DaemonRestarts, TypeInv, TypeOK, Shape, CommandShape
    <2> QED BY <2>3, <2>4, <2>5, <2>6 DEF TypeInv, Shape
  <1> QED BY <1>1, <1>2

\* Every step keeps the types and the shapes.
LEMMA NextType == TypeInv /\ [Next]_vars => TypeInv'
  <1> SUFFICES ASSUME TypeInv, [Next]_vars PROVE TypeInv'
    OBVIOUS
  <1>1. CASE Next
    BY <1>1, InviteType, DecideType, InviterType, JoinerType, EnvironmentType DEF Next
  <1>2. CASE UNCHANGED vars
    BY <1>2 DEF vars, serviceVars, cliVars, groupVars, wireVars, TypeInv, TypeOK, Shape,
       RunShape, SlotShape, CommandShape, HandlerShape
  <1> QED BY <1>1, <1>2

\* TypeInv is inductive.
LEMMA TypeInvariant == Spec => []TypeInv
  BY InitType, NextType, PTL DEF Spec

\* TypeOK holds of every behaviour of the slot, the commands and the tasks.
THEOREM TypeCorrect == Spec => []TypeOK
  <1>1. TypeInv => TypeOK
    BY DEF TypeInv
  <1> QED BY <1>1, TypeInvariant, PTL

\* PendingHasSession holds of every behaviour: every end of a task either
\* cancels its own request or comes after the slot was emptied.
THEOREM PendingSession == Spec => []PendingHasSession
  <1>1. TypeInv => PendingHasSession
    BY ExpireSlot DEF TypeInv, Shape, SlotShape, PendingHasSession
  <1> QED BY <1>1, TypeInvariant, PTL

\* A request that reached the daemon stays the same device's, under the same
\* name and for the same invitation.
Fixed ==
    \A r \in Runs :
        session[r] # "none" =>
            /\ session'[r] # "none"
            /\ run'[r].dev = run[r].dev
            /\ run'[r].name = run[r].name
            /\ run'[r].inv = run[r].inv

\* Only a run that is not connected yet changes its device, name or nonce.
LEMMA NextFixed == ASSUME TypeInv, [Next]_vars PROVE Fixed
  <1>1. run \in [Runs -> Run] /\ session \in [Runs ->
            {"none", "accept", "waiting", "ack", "joined", "ended"}]
    BY DEF TypeInv, TypeOK, Run
  <1>2. CASE UNCHANGED <<run, session>>
    BY <1>2 DEF Fixed
  <1>3. CASE InviteStep \/ DecideStep \/ (\E d \in Devices, e \in Names \cup {None, Removed} : SelectionMoves(d, e)) \/ UNCHANGED vars
    BY <1>2, <1>3 DEF InviteStep, CreateInvitation, ActivateInvitation, PollPending, Confirm,
       Expire, DecideStep, DecideReject, DecideLookup, DecideAdmit, DecideBuild, DecideSend,
       SelectionMoves, vars
  <1>4. CASE DaemonRestarts
    BY <1>1, <1>4 DEF DaemonRestarts, Fixed
  <1>5. ASSUME NEW r \in Runs, InviterStep(r) PROVE Fixed
    <2>1. run' = run /\ \E stage \in {"waiting", "ended", "ack", "joined"} :
                            session' = [session EXCEPT ![r] = stage]
      BY <1>5 DEF InviterStep, InviterClaim, InviterGivesUp, InviterSenderDropped,
         InviterResponds, InviterEnds, EndSession
    <2> QED BY <1>1, <2>1 DEF Fixed
  <1>6. ASSUME NEW r \in Runs, JoinerStep(r) PROVE Fixed
    <2>1. RunShape(r)
      BY DEF TypeInv, Shape
    <2>2. ASSUME NEW d \in Devices, NEW nm \in Names \cup {BadName}, JoinStart(r, d, nm)
          PROVE  Fixed
      BY <1>1, <2>1, <2>2 DEF JoinStart, RunShape, Fixed
    <2>3. ASSUME NEW n \in Invites, ClaimCode(r, n) PROVE Fixed
      BY <1>1, <2>1, <2>3 DEF ClaimCode, RunShape, Fixed
    <2>4. ASSUME NEW pc, run' = [run EXCEPT ![r].pc = pc],
                 \/ session' = session
                 \/ session[r] = "none" /\ session' = [session EXCEPT ![r] = "accept"]
          PROVE  Fixed
      BY <1>1, <2>4 DEF Fixed, Run
    <2>5. ASSUME Fail(r), session' = session PROVE Fixed
      BY <2>5, FailRun DEF Fixed
    <2>6. CASE JoinerConnect(r)
      BY <2>1, <2>4, <2>5, <2>6 DEF JoinerConnect, RunShape
    <2>7. CASE \/ JoinerResponse(r) \/ JoinerInstall(r) \/ JoinerAck(r) \/ JoinerEnd(r)
               \/ JoinerSync(r) \/ JoinerStops(r)
      BY <2>4, <2>5, <2>7 DEF JoinerResponse, JoinerInstall, JoinerAck, JoinerEnd, JoinerSync,
         JoinerStops
    <2> QED BY <1>6, <2>2, <2>3, <2>6, <2>7 DEF JoinerStep
  <1> QED BY <1>3, <1>4, <1>5, <1>6 DEF Next

----------------------------------------------------------------------------
(* One admission for an invitation                                         *)

\* The control thread has found its request in the slot.
Deciding == handler.step \in {"admit", "build", "send"}

\* The nonce of invitation n has not been presented to the daemon.
Unclaimed(n) ==
    cli[n] \in {"off", "activate"} \/ (coord.kind = "Active" /\ coord.inv = n)

\* What an admission of a request puts into the roster.
Entry(r) == <<run[r].dev, run[r].name>>

\* Only the request that took an invitation's nonce may be admitted by it.
AdmitInv ==
    /\ coord.kind # "Idle" => cli[coord.inv] \notin {"off", "activate"}
    /\ \A n \in Invites : Unclaimed(n) => admitted[n] = {} /\ ~(Deciding /\ Pending.inv = n)
    /\ coord.kind = "Pending" => admitted[coord.inv] \subseteq {Entry(coord.req)}
    /\ Deciding => admitted[Pending.inv] \subseteq {Entry(handler.req)}
    /\ Deciding /\ coord.kind = "Pending" /\ coord.inv = Pending.inv => coord.req = handler.req
    /\ \A n \in Invites : \A d, e \in admitted[n] : d = e

\* Every step but four leaves a nonce where it was or loses it.
LEMMA AdmitKeeps ==
    ASSUME TypeInv, AdmitInv, Fixed, coord' \in {coord, Idle}, admitted' = admitted,
           \A n \in Invites : cli'[n] \in {"off", "activate"} => cli[n] \in {"off", "activate"},
           Deciding' => Deciding /\ handler'.req = handler.req
    PROVE  AdmitInv'
  <1>1. /\ Deciding => /\ handler.req \in Runs /\ session[handler.req] # "none"
                       /\ Pending.inv \in Invites
        /\ coord.kind # "Idle" => coord.inv \in Invites
        /\ coord.kind = "Pending" => coord.req \in Runs /\ session[coord.req] # "none"
    BY DEF TypeInv, Shape, SlotShape, HandlerShape, RunShape, Deciding, Pending
  <1>2. Deciding' => Entry(handler.req)' = Entry(handler.req) /\ Pending'.inv = Pending.inv
    BY <1>1 DEF Fixed, Pending, Entry
  <1>3. coord'.kind # "Idle" => coord' = coord
    BY ExpireSlot
  <1>4. \A n \in Invites : Unclaimed(n)' => Unclaimed(n)
    BY <1>3 DEF Unclaimed
  <1>5. coord'.kind = "Pending" => Entry(coord.req)' = Entry(coord.req)
    BY <1>1, <1>3 DEF Fixed, Entry
  <1>6. coord'.kind # "Idle" => cli'[coord'.inv] \notin {"off", "activate"}
    BY <1>1, <1>3 DEF AdmitInv
  <1>7. \A n \in Invites :
            Unclaimed(n)' => admitted'[n] = {} /\ ~(Deciding' /\ Pending'.inv = n)
    BY <1>2, <1>4 DEF AdmitInv
  <1>8. /\ coord'.kind = "Pending" => admitted'[coord'.inv] \subseteq {Entry(coord.req)'}
        /\ Deciding' => admitted'[Pending'.inv] \subseteq {Entry(handler.req)'}
        /\ Deciding' /\ coord'.kind = "Pending" /\ coord'.inv = Pending'.inv =>
               coord'.req = handler'.req
    BY <1>2, <1>3, <1>5 DEF AdmitInv
  <1> QED BY <1>6, <1>7, <1>8 DEF AdmitInv

\* The four that move a nonce or admit a device, and the rest.
LEMMA NextAdmit == TypeInv /\ AdmitInv /\ [Next]_vars => AdmitInv'
  <1> SUFFICES ASSUME TypeInv, AdmitInv, [Next]_vars PROVE AdmitInv'
    OBVIOUS
  <1>1. Fixed
    BY NextFixed
  <1>2. /\ cli \in [Invites -> CliStages] /\ handler \in Handler /\ coord \in Slot
        /\ admitted \in [Invites -> SUBSET (Devices \X Names)]
    BY DEF TypeInv, TypeOK, Handler, Slot
  <1>3. ASSUME handler.step # "none", NEW d \in Decisions, decide(handler.req, d),
               NEW outcome \in {"done", "failed"}, Finish(outcome), admitted' = admitted
        PROVE  AdmitInv'
    <2>1. coord' \in {coord, Idle}
      BY <1>3, DecideSlot DEF TypeInv, Shape, HandlerShape
    <2>2. \A n \in Invites : cli'[n] \in {"off", "activate"} => cli[n] \in {"off", "activate"}
      BY <1>3, FinishType
    <2>3. ~Deciding'
      BY <1>3, FinishType DEF Deciding
    <2> QED BY <1>1, <1>3, <2>1, <2>2, <2>3, AdmitKeeps
  <1>4. ASSUME handler.step # "none", FailApproval, admitted' = admitted PROVE AdmitInv'
    BY <1>3, <1>4 DEF FailApproval, Decisions
  <1>5. CASE InviteStep
    <2>1. ASSUME NEW n \in Invites,
                 \/ CreateInvitation(n) \/ PollPending(n) \/ Expire(n)
                 \/ \E approve \in BOOLEAN : Confirm(n, approve)
          PROVE  AdmitInv'
      <3>1. coord' = coord /\ admitted' = admitted
        BY <2>1 DEF CreateInvitation, PollPending, Expire, Confirm, groupVars
      <3>2. \A m \in Invites : cli'[m] \in {"off", "activate"} => cli[m] \in {"off", "activate"}
        BY <1>2, <2>1 DEF CreateInvitation, PollPending, Expire, Confirm, cliVars
      <3>3. Deciding' => Deciding /\ handler' = handler
        BY <1>2, <2>1, NoHandlerType DEF CreateInvitation, PollPending, Expire, Confirm, Deciding,
           Handler
      <3> QED BY <1>1, <3>1, <3>2, <3>3, AdmitKeeps
    <2>2. ASSUME NEW n \in Invites, ActivateInvitation(n) PROVE AdmitInv'
      <3>1. CASE coord' = coord
        BY <1>1, <1>2, <2>2, <3>1, AdmitKeeps DEF ActivateInvitation, Deciding, groupVars
      <3>2. CASE /\ coord' = [kind |-> "Active", inv |-> n, req |-> 0]
                 /\ cli' \in {[cli EXCEPT ![n] = "poll"], [cli EXCEPT ![n] = "failed"]}
        <4>1. /\ handler' = handler /\ handler.step = "none" /\ admitted' = admitted
              /\ cli[n] = "activate"
          BY <2>2 DEF ActivateInvitation, groupVars
        <4>2. \A m \in Invites : Unclaimed(m)' => Unclaimed(m)
          BY <1>2, <3>2, <4>1 DEF Unclaimed
        <4>3. cli'[n] \in {"poll", "failed"} /\ ~Deciding'
          BY <1>2, <3>2, <4>1 DEF Deciding
        <4> QED BY <3>2, <4>1, <4>2, <4>3 DEF AdmitInv
      <3> QED BY <2>2, <3>1, <3>2 DEF ActivateInvitation, activate
    <2> QED BY <1>5, <2>1, <2>2 DEF InviteStep
  <1>6. CASE DecideReject
    BY <1>3, <1>6 DEF DecideReject, Decisions, groupVars
  <1>7. CASE DecideLookup
    <2>1. CASE ~pending_addr(handler.req)
      BY <1>4, <1>7, <2>1 DEF DecideLookup, groupVars
    <2>2. CASE pending_addr(handler.req)
      <3>1. /\ coord.kind = "Pending" /\ coord.req = handler.req
            /\ expire_locked(coord).req = handler.req
        BY <2>2, ExpireSlot DEF pending_addr, Holds
      <3>2. /\ handler'.req = handler.req /\ handler'.step = "admit"
            /\ UNCHANGED <<coord, cli, run, admitted>>
        BY <1>2, <1>7, <2>2, <3>1 DEF DecideLookup, Handler, groupVars
      <3>3. Pending'.inv = coord.inv /\ Entry(handler.req)' = Entry(coord.req)
            /\ Entry(coord.req)' = Entry(coord.req)
        BY <3>1, <3>2 DEF TypeInv, Shape, SlotShape, Pending, Entry
      <3>4. ~Unclaimed(coord.inv) /\ \A n \in Invites : Unclaimed(n)' => Unclaimed(n)
        BY <3>1, <3>2 DEF AdmitInv, Unclaimed
      <3> QED BY <3>1, <3>2, <3>3, <3>4 DEF AdmitInv, Deciding
    <2> QED BY <2>1, <2>2
  <1>8. CASE DecideAdmit
    <2>1. CASE FailApproval /\ UNCHANGED groupVars
      BY <1>4, <1>8, <2>1 DEF DecideAdmit, groupVars
    <2>2. CASE /\ handler' = [handler EXCEPT !.step = "build"] /\ UNCHANGED <<coord, cli>>
               /\ admitted' \in {admitted, [admitted EXCEPT ![Pending.inv] =
                                                   @ \cup {Entry(handler.req)}]}
      <3>1. /\ Deciding /\ Pending.inv \in Invites
        BY <1>8 DEF DecideAdmit, Deciding, TypeInv, Shape, HandlerShape, RunShape, Pending
      <3>2. /\ Deciding' /\ handler'.req = handler.req /\ run' = run /\ Pending' = Pending
            /\ Entry(handler.req)' = Entry(handler.req) /\ Entry(coord.req)' = Entry(coord.req)
        BY <1>2, <1>8, <2>2 DEF DecideAdmit, Deciding, Pending, Handler, Entry
      <3>3. /\ admitted'[Pending.inv] \subseteq {Entry(handler.req)}
            /\ \A n \in Invites : n # Pending.inv => admitted'[n] = admitted[n]
        BY <1>2, <2>2, <3>1 DEF AdmitInv
      <3>4. \A n \in Invites : Unclaimed(n)' => Unclaimed(n) /\ n # Pending.inv
        BY <2>2, <3>1 DEF AdmitInv, Unclaimed
      <3>5. coord.kind = "Pending" => coord.inv \in Invites
        BY DEF TypeInv, Shape, SlotShape
      <3>6. coord.kind = "Pending" /\ coord.inv = Pending.inv => coord.req = handler.req
        BY <3>1 DEF AdmitInv
      <3>7. coord.kind = "Pending" => admitted'[coord.inv] \subseteq {Entry(coord.req)}
        BY <3>3, <3>5, <3>6 DEF AdmitInv
      <3>8. \A n \in Invites : \A d, e \in admitted'[n] : d = e
        BY <3>3 DEF AdmitInv
      <3> QED BY <2>2, <3>1, <3>2, <3>3, <3>4, <3>7, <3>8 DEF AdmitInv
    <2> QED BY <1>8, <2>1, <2>2 DEF DecideAdmit, Entry, Pending
  <1>9. CASE DecideBuild
    <2>1. CASE FailApproval
      BY <1>4, <1>9, <2>1 DEF DecideBuild, groupVars
    <2>2. CASE /\ handler' = [handler EXCEPT !.step = "send", !.tip = roster]
               /\ UNCHANGED <<coord, decision, cli, seen>>
      BY <1>1, <1>2, <1>9, <2>2, AdmitKeeps DEF DecideBuild, Deciding, Handler, groupVars
    <2> QED BY <1>9, <2>1, <2>2 DEF DecideBuild
  <1>10. CASE DecideSend
    <2>1. CASE FailApproval
      BY <1>4, <1>10, <2>1 DEF DecideSend, groupVars
    <2>2. CASE \E d \in Decisions, outcome \in {"done", "failed"} :
                   decide(handler.req, d) /\ Finish(outcome)
      BY <1>3, <1>10, <2>2 DEF DecideSend, groupVars
    <2> QED BY <1>10, <2>1, <2>2, SendDecides DEF DecideSend
  <1>11. ASSUME NEW r \in Runs, InviterStep(r) PROVE AdmitInv'
    <2>1. UNCHANGED <<handler, cli, admitted, run>>
      BY <1>11 DEF InviterStep, InviterClaim, InviterGivesUp, InviterSenderDropped,
         InviterResponds, InviterEnds, cliVars, groupVars
    <2>2. CASE coord' \in {coord, Idle}
      BY <1>1, <2>1, <2>2, AdmitKeeps DEF Deciding
    <2>3. CASE InviterClaim(r) /\ Claimable(r) /\ claim(r)
      <3>1. /\ coord' = [kind |-> "Pending", inv |-> run[r].inv, req |-> r]
            /\ coord.kind = "Active" /\ coord.inv = run[r].inv /\ coord.inv \in Invites
        BY <2>3, ExpireSlot DEF claim, Claimable, TypeInv, Shape, SlotShape
      <3>2. Unclaimed(run[r].inv) /\ \A n \in Invites : Unclaimed(n)' => Unclaimed(n)
        BY <2>1, <3>1 DEF Unclaimed
      <3>3. Deciding' = Deciding /\ Pending' = Pending /\ Entry(handler.req)' = Entry(handler.req)
        BY <2>1 DEF Deciding, Pending, Entry
      <3> QED BY <2>1, <3>1, <3>2, <3>3 DEF AdmitInv
    <2>4. coord' \in {coord, Idle} \/ (InviterClaim(r) /\ Claimable(r) /\ claim(r))
      BY <1>11, ExpireSlot DEF InviterStep, InviterClaim, claim, InviterGivesUp, cancel,
         InviterSenderDropped, InviterResponds, InviterEnds
    <2> QED BY <2>2, <2>3, <2>4
  <1>12. ASSUME NEW r \in Runs, JoinerStep(r) PROVE AdmitInv'
    <2>1. UNCHANGED <<handler, cli, admitted, coord>>
      BY <1>12 DEF JoinerStep, JoinStart, ClaimCode, JoinerConnect, JoinerResponse, JoinerInstall,
         JoinerAck, JoinerEnd, JoinerSync, JoinerStops, cliVars, groupVars
    <2> QED BY <1>1, <2>1, AdmitKeeps DEF Deciding
  <1>13. CASE UNCHANGED vars \/ \E d \in Devices, e \in Names \cup {None, Removed} : SelectionMoves(d, e)
    <2>1. UNCHANGED <<handler, cli, admitted, coord>>
      BY <1>13 DEF SelectionMoves, vars, cliVars, groupVars
    <2> QED BY <1>1, <2>1, AdmitKeeps DEF Deciding
  <1>14. CASE DaemonRestarts
    <2>1. /\ coord' = Idle /\ admitted' = admitted /\ ~Deciding'
          /\ \A n \in Invites : cli'[n] \in {"off", "activate"} => cli[n] \in {"off", "activate"}
      BY <1>14, NoHandlerType DEF DaemonRestarts, Deciding, groupVars
    <2> QED BY <1>1, <2>1, AdmitKeeps
  <1> QED
    BY <1>5, <1>6, <1>7, <1>8, <1>9, <1>10, <1>11, <1>12, <1>13, <1>14 DEF Next, DecideStep

\* OneAdmissionPerInvitation holds of every behaviour: at most one request
\* ever takes the nonce of an invitation, and an approval that is under way
\* when the slot is emptied admits that request's device and no other.
THEOREM OneAdmission == Spec => []OneAdmissionPerInvitation
  <1>1. Init => AdmitInv
    BY DEF Init, AdmitInv, Unclaimed, Deciding, Idle, NoHandler
  <1>2. Spec => [](TypeInv /\ AdmitInv)
    BY <1>1, InitType, NextType, NextAdmit, PTL DEF Spec
  <1>3. AdmitInv => OneAdmissionPerInvitation
    <2> SUFFICES ASSUME AdmitInv, NEW n \in Invites PROVE Cardinality(admitted[n]) <= 1
      BY DEF OneAdmissionPerInvitation
    <2>1. CASE admitted[n] = {}
      BY <2>1, FS_EmptySet
    <2>2. CASE admitted[n] # {}
      <3>1. PICK d \in admitted[n] : TRUE
        BY <2>2
      <3>2. admitted[n] = {d}
        BY <3>1 DEF AdmitInv
      <3>3. Cardinality({d}) = 1
        BY FS_Singleton
      <3> QED BY <3>2, <3>3
    <2> QED BY <2>1, <2>2
  <1> QED BY <1>2, <1>3, PTL

----------------------------------------------------------------------------
(* Approval                                                                *)

\* The request that the control thread is approving was approved as shown.
ApprovedInv ==
    /\ Deciding \/ handler.step = "lookup" => Entry(handler.req) \in approvals
    /\ \A n \in Invites : admitted[n] \subseteq approvals
    /\ AdmittedOnlyApproved

\* Every step but two neither admits a device nor begins an approval.
LEMMA ApprovedKeeps ==
    ASSUME TypeInv, ApprovedInv, Fixed, UNCHANGED <<roster, approvals, admitted>>,
           Deciding' \/ handler'.step = "lookup" =>
               (Deciding \/ handler.step = "lookup") /\ handler'.req = handler.req
    PROVE  ApprovedInv'
  <1>1. Deciding \/ handler.step = "lookup" =>
            handler.req \in Runs /\ session[handler.req] # "none"
    BY DEF TypeInv, Shape, HandlerShape, Deciding
  <1>2. Deciding' \/ handler'.step = "lookup" =>
            Entry(handler.req)' = Entry(handler.req)
    BY <1>1 DEF Fixed, Entry
  <1> QED BY <1>2 DEF ApprovedInv, AdmittedOnlyApproved

\* The two are the user's answer and the admission.
LEMMA NextApproved == TypeInv /\ ApprovedInv /\ [Next]_vars => ApprovedInv'
  <1> SUFFICES ASSUME TypeInv, ApprovedInv, [Next]_vars PROVE ApprovedInv'
    OBVIOUS
  <1> USE JoinAssumption DEF JoinAssumption
  <1>1. Fixed
    BY NextFixed
  <1>2. handler \in Handler /\ roster \in Tips
    BY DEF TypeInv, TypeOK, Handler
  <1>3. ASSUME handler' = NoHandler, UNCHANGED <<roster, approvals, admitted>> PROVE ApprovedInv'
    BY <1>1, <1>3, ApprovedKeeps, NoHandlerType DEF Deciding
  <1>4. ASSUME UNCHANGED <<handler, roster, approvals, admitted>> PROVE ApprovedInv'
    BY <1>1, <1>4, ApprovedKeeps DEF Deciding
  <1>5. ASSUME NEW n \in Invites, NEW approve \in BOOLEAN, Confirm(n, approve)
        PROVE  ApprovedInv'
    <2>1. CASE UNCHANGED handler
      <3>1. approvals \subseteq approvals' /\ UNCHANGED <<roster, run, admitted>>
        BY <1>5 DEF Confirm, groupVars
      <3> QED
        BY <2>1, <3>1 DEF ApprovedInv, AdmittedOnlyApproved, Deciding, Entry
    <2>2. CASE handler' = [NoHandler EXCEPT !.step = IF approve THEN "lookup" ELSE "reject",
                                            !.inv = n, !.req = seen[n]]
      <3>1. /\ approvals \subseteq approvals' /\ UNCHANGED <<roster, run, admitted>>
            /\ approve => <<run[seen[n]].dev, run[seen[n]].name>> \in approvals'
        BY <1>5 DEF Confirm, groupVars
      <3>2. /\ handler'.req = seen[n] /\ ~Deciding'
            /\ handler'.step = "lookup" => approve
        BY <2>2, NoHandlerType DEF Handler, Deciding
      <3> QED BY <3>1, <3>2 DEF ApprovedInv, AdmittedOnlyApproved, Entry
    <2> QED BY <1>5, <2>1, <2>2 DEF Confirm
  <1>6. CASE DecideLookup
    <2>1. CASE ~pending_addr(handler.req)
      BY <1>3, <1>6, <2>1 DEF DecideLookup, FailApproval, Finish, groupVars
    <2>2. CASE pending_addr(handler.req)
      <3>1. expire_locked(coord).req = handler.req
        BY <2>2, ExpireSlot DEF pending_addr, Holds
      <3> QED
        BY <1>1, <1>2, <1>6, <2>2, <3>1, ApprovedKeeps DEF DecideLookup, Handler, Deciding,
           groupVars
    <2> QED BY <2>1, <2>2
  <1>7. CASE DecideAdmit
    <2>1. CASE FailApproval /\ UNCHANGED groupVars
      BY <1>3, <1>7, <2>1 DEF DecideAdmit, FailApproval, Finish, groupVars
    <2>2. CASE /\ roster' = [roster EXCEPT ![Pending.dev] = Pending.name]
               /\ handler' = [handler EXCEPT !.step = "build"]
      <3>1. /\ handler'.req = handler.req /\ run' = run /\ approvals' = approvals
            /\ Entry(handler.req)' = Entry(handler.req) /\ Deciding /\ Pending.dev \in Devices
        BY <1>2, <1>7, <2>2 DEF DecideAdmit, Pending, Handler, Deciding, TypeInv, Shape,
           HandlerShape, RunShape, Entry
      <3>2. Entry(handler.req) \in approvals /\ <<Pending.dev, Pending.name>> \in approvals
        BY <3>1 DEF ApprovedInv, Entry, Pending
      <3>3. AdmittedOnlyApproved'
        BY <1>2, <2>2, <3>1, <3>2 DEF ApprovedInv, AdmittedOnlyApproved, Tips
      <3>4. \A n \in Invites : admitted'[n] \subseteq approvals
        <4>1. /\ admitted \in [Invites -> SUBSET (Devices \X Names)]
              /\ \/ admitted' = admitted
                 \/ admitted' = [admitted EXCEPT ![Pending.inv] =
                                   @ \cup {<<Pending.dev, Pending.name>>}]
          BY <1>7, <2>2, NoHandlerType DEF DecideAdmit, TypeInv, TypeOK, FailApproval, Finish,
             groupVars
        <4> QED BY <3>2, <4>1 DEF ApprovedInv
      <3> QED BY <3>1, <3>2, <3>3, <3>4 DEF ApprovedInv
    <2> QED BY <1>7, <2>1, <2>2 DEF DecideAdmit
  <1>8. CASE DecideBuild
    <2>1. CASE FailApproval
      BY <1>3, <1>8, <2>1 DEF DecideBuild, FailApproval, Finish, groupVars
    <2>2. CASE handler' = [handler EXCEPT !.step = "send", !.tip = roster]
      BY <1>1, <1>2, <1>8, <2>2, ApprovedKeeps DEF DecideBuild, Handler, Deciding, groupVars
    <2> QED BY <1>8, <2>1, <2>2 DEF DecideBuild
  <1>9. CASE DecideReject \/ DecideSend
    BY <1>3, <1>9 DEF DecideReject, DecideSend, FailApproval, Finish, groupVars
  <1>10. ASSUME NEW d \in Devices, NEW e \in Names \cup {None, Removed}, SelectionMoves(d, e)
         PROVE  ApprovedInv'
    <2>1. /\ UNCHANGED <<handler, run, approvals, admitted>>
          /\ roster' = [roster EXCEPT ![d] = e]
      BY <1>10 DEF SelectionMoves, cliVars
    <2>2. e \in Names => <<d, e>> \in approvals
      <3> SUFFICES ASSUME e \in Names PROVE <<d, e>> \in approvals
        OBVIOUS
      <3>1. PICK n \in Invites : \E a \in admitted[n] : a[1] = d /\ e \in {a[2], None, Removed}
        BY <1>10 DEF SelectionMoves
      <3>2. PICK a \in admitted[n] : a[1] = d /\ a[2] = e
        BY <3>1
      <3>3. a \in Devices \X Names /\ a \in approvals
        BY <3>2 DEF ApprovedInv, TypeInv, TypeOK
      <3>4. a = <<d, e>>
        BY <3>2, <3>3
      <3> QED BY <3>3, <3>4
    <2>3. AdmittedOnlyApproved'
      BY <1>2, <2>1, <2>2 DEF ApprovedInv, AdmittedOnlyApproved, Tips
    <2> QED BY <2>1, <2>3 DEF ApprovedInv, Deciding, Entry
  <1>11. CASE DaemonRestarts
    BY <1>3, <1>11 DEF DaemonRestarts, groupVars
  <1>12. ASSUME NEW n \in Invites,
                CreateInvitation(n) \/ ActivateInvitation(n) \/ PollPending(n) \/ Expire(n)
         PROVE  ApprovedInv'
    BY <1>4, <1>12 DEF CreateInvitation, ActivateInvitation, PollPending, Expire, cliVars,
       groupVars
  <1>13. ASSUME NEW r \in Runs, InviterStep(r) \/ JoinerStep(r) PROVE ApprovedInv'
    <2>1. UNCHANGED <<handler, roster, approvals, admitted>>
      BY <1>13 DEF InviterStep, InviterClaim, InviterGivesUp, InviterSenderDropped,
         InviterResponds, InviterEnds, JoinerStep, JoinStart, ClaimCode, JoinerConnect,
         JoinerResponse, JoinerInstall, JoinerAck, JoinerEnd, JoinerSync, JoinerStops, cliVars,
         groupVars
    <2> QED BY <1>4, <2>1
  <1>14. CASE UNCHANGED vars
    BY <1>4, <1>14 DEF vars, cliVars, groupVars
  <1> QED
    BY <1>5, <1>6, <1>7, <1>8, <1>9, <1>10, <1>11, <1>12, <1>13, <1>14 DEF Next, InviteStep,
       DecideStep

\* AdmittedOnlyApproved holds of every behaviour: between the user's answer
\* and the admission the control thread never takes up another request.
THEOREM OnlyApproved == Spec => []AdmittedOnlyApproved
  <1>1. Init => ApprovedInv
    BY JoinAssumption DEF JoinAssumption, Init, ApprovedInv, AdmittedOnlyApproved, Deciding,
       NoHandler
  <1>2. Spec => [](TypeInv /\ ApprovedInv)
    BY <1>1, InitType, NextType, NextApproved, PTL DEF Spec
  <1>3. ApprovedInv => AdmittedOnlyApproved
    BY DEF ApprovedInv
  <1> QED BY <1>2, <1>3, PTL

----------------------------------------------------------------------------
(* The joiner's roster                                                     *)

\* An invitation has admitted the device under the name.
Admitted(d, nm) == \E n \in Invites : <<d, nm>> \in admitted[n]

\* Whom a roster names, an invitation has admitted.
Current(tip) == \A d \in Devices : tip[d] \in Names => Admitted(d, tip[d])

InstallInv ==
    /\ Current(roster)
    /\ handler.step = "send" => Current(handler.tip)
    /\ \A r \in Runs :
           /\ decision[r].kind = "Approved" => Current(decision[r].tip)
           /\ \A i \in 1..Len(reply[r]) :
                  reply[r][i].kind = "Approved" => Current(reply[r][i].tip)
           /\ run[r].pc = "install" => Admitted(run[r].dev, run[r].name)
    /\ InstalledWasAdmitted

\* What was admitted stays admitted, though the selection may drop it, and
\* whatever the roster comes to name was admitted.
Persists ==
    /\ \A d \in Devices, nm \in Names : Admitted(d, nm) => Admitted(d, nm)'
    /\ Current(roster) => Current(roster)'

\* Only decide_join admits, and the selection moves among admissions.
LEMMA NextPersists == ASSUME TypeInv, [Next]_vars PROVE Persists
  <1> USE JoinAssumption DEF JoinAssumption
  <1>1. roster \in Tips /\ admitted \in [Invites -> SUBSET (Devices \X Names)]
    BY DEF TypeInv, TypeOK
  <1>2. CASE UNCHANGED <<roster, admitted>>
    BY <1>2 DEF Persists, Admitted, Current
  <1>3. CASE DecideAdmit
    <2>1. CASE UNCHANGED groupVars
      BY <1>2, <2>1 DEF groupVars
    <2>2. CASE /\ roster[Pending.dev] \in {None, Pending.name}
               /\ roster' = [roster EXCEPT ![Pending.dev] = Pending.name]
               /\ admitted' = IF roster[Pending.dev] = None
                              THEN [admitted EXCEPT ![Pending.inv] =
                                     @ \cup {<<Pending.dev, Pending.name>>}]
                              ELSE admitted
      <3>1. Pending.dev \in Devices /\ Pending.name \in Names /\ Pending.inv \in Invites
        BY <1>3 DEF DecideAdmit, Pending, TypeInv, Shape, HandlerShape, RunShape
      <3>2. CASE roster[Pending.dev] = None
        <4>1. \A d \in Devices, nm \in Names : Admitted(d, nm) => Admitted(d, nm)'
          BY <1>1, <2>2, <3>1, <3>2 DEF Admitted
        <4>2. \E n \in Invites : <<Pending.dev, Pending.name>> \in admitted'[n]
          BY <1>1, <2>2, <3>1, <3>2 DEF Admitted
        <4>3. \A d \in Devices : roster'[d] = roster[d] \/ (d = Pending.dev /\ roster'[d] = Pending.name)
          BY <1>1, <2>2 DEF Tips
        <4>4. Current(roster) =>
                  \A d \in Devices : roster'[d] \in Names =>
                      \E n \in Invites : <<d, roster'[d]>> \in admitted'[n]
          BY <4>1, <4>2, <4>3 DEF Current, Admitted
        <4> QED BY <4>1, <4>4 DEF Persists, Current, Admitted
      <3>3. CASE roster[Pending.dev] = Pending.name
        BY <1>1, <1>2, <2>2, <3>1, <3>3 DEF Tips
      <3> QED BY <2>2, <3>2, <3>3
    <2> QED BY <1>3, <2>1, <2>2 DEF DecideAdmit
  <1>4. ASSUME NEW d \in Devices, NEW e \in Names \cup {None, Removed}, SelectionMoves(d, e)
        PROVE  Persists
    <2>1. admitted' = admitted /\ roster' = [roster EXCEPT ![d] = e]
      BY <1>4 DEF SelectionMoves
    <2>2. e \in Names => Admitted(d, e)
      <3> SUFFICES ASSUME e \in Names PROVE Admitted(d, e)
        OBVIOUS
      <3>1. PICK n \in Invites : \E a \in admitted[n] : a[1] = d /\ e \in {a[2], None, Removed}
        BY <1>4 DEF SelectionMoves
      <3>2. PICK a \in admitted[n] : a[1] = d /\ a[2] = e
        BY <3>1
      <3>3. a = <<d, e>>
        BY <1>1, <3>2
      <3> QED BY <3>2, <3>3 DEF Admitted
    <2> QED BY <1>1, <2>1, <2>2 DEF Persists, Current, Admitted, Tips
  <1>5. CASE InviteStep \/ DaemonRestarts \/ UNCHANGED vars
    BY <1>2, <1>5 DEF InviteStep, CreateInvitation, ActivateInvitation, PollPending, Confirm,
       Expire, DaemonRestarts, vars, groupVars
  <1>6. CASE DecideReject \/ DecideLookup \/ DecideBuild \/ DecideSend
    BY <1>2, <1>6 DEF DecideReject, DecideLookup, DecideBuild, DecideSend, groupVars
  <1>7. ASSUME NEW r \in Runs, InviterStep(r) \/ JoinerStep(r) PROVE Persists
    BY <1>2, <1>7 DEF InviterStep, InviterClaim, InviterGivesUp, InviterSenderDropped,
       InviterResponds, InviterEnds, JoinerStep, JoinStart, ClaimCode, JoinerConnect,
       JoinerResponse, JoinerInstall, JoinerAck, JoinerEnd, JoinerSync, JoinerStops, groupVars
  <1> QED BY <1>3, <1>4, <1>5, <1>6, <1>7 DEF Next, DecideStep

\* A step keeps InstallInv if each roster, run and name it leaves behind was
\* there before or was admitted.
LEMMA InstallKeeps ==
    ASSUME TypeInv, InstallInv, [Next]_vars,
           handler'.step = "send" => handler' = handler \/ Current(handler'.tip),
           \A r \in Runs :
               decision'[r].kind = "Approved" =>
                   decision'[r] = decision[r] \/ Current(decision'[r].tip),
           \A r \in Runs : \A i \in 1..Len(reply'[r]) :
               reply'[r][i].kind = "Approved" =>
                   \/ \E j \in 1..Len(reply[r]) : reply'[r][i] = reply[r][j]
                   \/ Current(reply'[r][i].tip),
           \A r \in Runs :
               run'[r].pc = "install" =>
                   \/ run'[r] = run[r]
                   \/ Admitted(run'[r].dev, run'[r].name),
           \A d \in Devices :
               local'[d] # None =>
                   local'[d] = local[d] \/ Admitted(d, local'[d])
    PROVE  InstallInv'
  <1>1. Persists /\ TypeInv'
    BY NextPersists, NextType
  <1>2. ASSUME NEW tip, Current(tip)
        PROVE  \A d \in Devices : tip[d] \in Names => Admitted(d, tip[d])'
    BY <1>1, <1>2 DEF Persists, Current, Admitted
  <1>3. handler'.step = "send" => Current(handler.tip)' 
    <2> SUFFICES ASSUME handler'.step = "send" PROVE Current(handler'.tip)
      BY <1>2 DEF Current, Admitted
    <2> QED BY DEF InstallInv
  <1>4. ASSUME NEW r \in Runs, decision'[r].kind = "Approved" PROVE Current(decision[r].tip)'
    <2>1. Current(decision'[r].tip)
      BY <1>4 DEF InstallInv
    <2> QED BY <1>2, <2>1 DEF Current, Admitted
  <1>5. ASSUME NEW r \in Runs, NEW i \in 1..Len(reply'[r]), reply'[r][i].kind = "Approved"
        PROVE  Current(reply[r][i].tip)'
    <2>1. Current(reply'[r][i].tip)
      BY <1>5 DEF InstallInv
    <2>2. \A d \in Devices : reply'[r][i].tip[d] \in Names =>
                  \E n \in Invites : <<d, reply'[r][i].tip[d]>> \in admitted'[n]
      BY <1>2, <2>1 DEF Admitted
    <2> QED BY <2>2 DEF Current, Admitted
  <1>6. ASSUME NEW r \in Runs, run'[r].pc = "install"
        PROVE  Admitted(run[r].dev, run[r].name)'
    <2>1. run'[r].dev \in Devices /\ run'[r].name \in Names
      BY <1>1, <1>6 DEF TypeInv, Shape, RunShape
    <2>2. Admitted(run'[r].dev, run'[r].name)
      BY <1>6 DEF InstallInv
    <2> QED BY <1>1, <2>1, <2>2 DEF Persists, Admitted
  <1>7. InstalledWasAdmitted'
    <2> SUFFICES ASSUME NEW d \in Devices, local'[d] # None
                 PROVE  Admitted(d, local[d])'
      BY DEF InstalledWasAdmitted, Admitted
    <2>1. local'[d] \in Names
      BY <1>1 DEF TypeInv, TypeOK
    <2>2. Admitted(d, local'[d])
      BY DEF InstallInv, InstalledWasAdmitted, Admitted
    <2> QED BY <1>1, <2>1, <2>2 DEF Persists, Admitted
  <1>8. Current(roster)'
    BY <1>1 DEF Persists, InstallInv
  <1> QED BY <1>3, <1>4, <1>5, <1>6, <1>7, <1>8 DEF InstallInv

\* The roster is captured by the control thread and passed on by the task.
LEMMA NextInstall == TypeInv /\ InstallInv /\ [Next]_vars => InstallInv'
  <1> SUFFICES ASSUME TypeInv, InstallInv, [Next]_vars PROVE InstallInv'
    OBVIOUS
  <1>1. /\ handler \in Handler /\ run \in [Runs -> Run] /\ roster \in Tips
        /\ reply \in [Runs -> Seq(Decisions \cup {Fin})]
        /\ decision \in [Runs -> Decisions \cup {Undecided}]
        /\ local \in [Devices -> Names \cup {None}]
    BY DEF TypeInv, TypeOK, Handler, Run
  <1>2. ASSUME UNCHANGED <<reply, run, local>>,
               handler'.step = "send" => handler' = handler \/ Current(handler'.tip),
               \A r \in Runs :
                   decision'[r].kind = "Approved" =>
                       decision'[r] = decision[r] \/ Current(decision'[r].tip)
        PROVE  InstallInv'
    BY <1>2, InstallKeeps
  <1>3. ASSUME UNCHANGED <<handler, decision>>,
               \A r \in Runs : reply'[r] \in {reply[r], <<>>},
               \A r \in Runs : run'[r].pc = "install" => run'[r] = run[r],
               local' = local
        PROVE  InstallInv'
    <2>1. \A r \in Runs : \A i \in 1..Len(reply'[r]) :
              reply'[r][i].kind = "Approved" =>
                  \E j \in 1..Len(reply[r]) : reply'[r][i] = reply[r][j]
      BY <1>3
    <2> QED BY <1>3, <2>1, InstallKeeps
  <1>4. CASE InviteStep \/ (\E d \in Devices, e \in Names \cup {None, Removed} : SelectionMoves(d, e)) \/ UNCHANGED vars
    <2>1. UNCHANGED <<reply, run, local, decision>>
      BY <1>4 DEF InviteStep, CreateInvitation, ActivateInvitation, PollPending, Confirm, Expire,
         SelectionMoves, vars, wireVars
    <2>2. handler' = handler \/ handler'.step \in {"lookup", "reject"}
      BY <1>4, NoHandlerType DEF InviteStep, CreateInvitation, ActivateInvitation, PollPending,
         Confirm, Expire, SelectionMoves, vars, Handler
    <2> QED BY <1>2, <2>1, <2>2
  <1>5. CASE DaemonRestarts
    <2>1. /\ UNCHANGED <<reply, run, local>> /\ handler'.step = "none"
          /\ \A r \in Runs : decision'[r].kind = "Undecided"
      BY <1>5, NoHandlerType DEF DaemonRestarts, Undecided
    <2> QED BY <1>2, <2>1
  <1>6. CASE DecideStep
    <2>1. UNCHANGED <<reply, run, local>>
      BY <1>6 DEF DecideStep, DecideReject, DecideLookup, DecideAdmit, DecideBuild, DecideSend,
         wireVars
    <2>2. ASSUME handler.step # "none", NEW d \in Decisions, decide(handler.req, d),
                 handler' = NoHandler, d.kind = "Approved" => Current(d.tip)
          PROVE  InstallInv'
      <3>1. \A q \in Runs : decision'[q] = decision[q] \/ decision'[q] = d
        BY <2>2, DecideSlot DEF TypeInv, Shape, HandlerShape
      <3> QED BY <1>2, <2>1, <2>2, <3>1, NoHandlerType
    <2>3. ASSUME handler.step # "none", FailApproval PROVE InstallInv'
      BY <2>2, <2>3 DEF FailApproval, Finish, Rejected, Decisions
    <2>4. CASE DecideReject
      BY <2>2, <2>4 DEF DecideReject, Finish, Rejected, Decisions
    <2>5. CASE DecideLookup \/ DecideAdmit
      <3>1. \/ FailApproval
            \/ handler'.step \in {"admit", "build"} /\ decision' = decision
        BY <1>1, <2>5 DEF DecideLookup, DecideAdmit, Handler
      <3>2. handler.step # "none"
        BY <2>5 DEF DecideLookup, DecideAdmit
      <3> QED BY <1>2, <2>1, <2>3, <3>1, <3>2
    <2>6. CASE DecideBuild
      <3>1. CASE FailApproval
        BY <2>3, <2>6, <3>1 DEF DecideBuild
      <3>2. CASE /\ handler' = [handler EXCEPT !.step = "send", !.tip = roster]
                 /\ UNCHANGED <<coord, decision, cli, seen>>
        <4>1. handler'.tip = roster /\ Current(roster)
          BY <1>1, <3>2 DEF Handler, InstallInv
        <4> QED BY <1>2, <2>1, <3>2, <4>1
      <3> QED BY <2>6, <3>1, <3>2 DEF DecideBuild
    <2>7. CASE DecideSend
      <3> DEFINE hints == approval_peer_hints(Pending.dev)
                 d == [kind |-> "Approved", tip |-> handler.tip, hints |-> hints]
      <3>1. hints \in SUBSET (Devices \cup {Inviter})
        BY DEF approval_peer_hints, Members
      <3>2. d \in Decisions /\ Current(d.tip)
        BY <1>1, <2>7, <3>1 DEF Decisions, Approvals, Handler, DecideSend, InstallInv
      <3>3. (decide(handler.req, d) /\ handler' = NoHandler) \/ FailApproval
        BY <2>7 DEF DecideSend, Finish
      <3> HIDE DEF d
      <3> QED BY <2>2, <2>3, <2>7, <3>2, <3>3 DEF DecideSend
    <2> QED BY <1>6, <2>4, <2>5, <2>6, <2>7 DEF DecideStep
  <1>7. ASSUME NEW r \in Runs, InviterStep(r) PROVE InstallInv'
    <2>1. UNCHANGED <<handler, run, local>>
      BY <1>7 DEF InviterStep, InviterClaim, InviterGivesUp, InviterSenderDropped,
         InviterResponds, InviterEnds
    <2>2. \A q \in Runs : decision'[q] = decision[q] \/ decision'[q].kind = "Undecided"
      BY <1>1, <1>7 DEF InviterStep, InviterClaim, InviterGivesUp, InviterSenderDropped,
         InviterResponds, InviterEnds, EndSession, Undecided
    <2>3. \/ reply' = reply
          \/ reply' = [reply EXCEPT ![r] = Append(@, Fin)]
          \/ reply' = [reply EXCEPT ![r] = Append(@, decision[r])] /\ decision[r] # Undecided
          \/ /\ reply' = [reply EXCEPT ![r] = @ \o <<decision[r], Fin>>]
             /\ decision[r] # Undecided
      BY <1>7 DEF InviterStep, InviterClaim, InviterGivesUp, InviterSenderDropped,
         InviterResponds, InviterEnds
    <2>4. \A q \in Runs : \A i \in 1..Len(reply'[q]) :
              reply'[q][i].kind = "Approved" =>
                  \/ \E j \in 1..Len(reply[q]) : reply'[q][i] = reply[q][j]
                  \/ reply'[q][i] = decision[q]
      <3> SUFFICES ASSUME NEW q \in Runs, NEW i \in 1..Len(reply'[q]),
                          reply'[q][i].kind = "Approved",
                          ~ \E j \in 1..Len(reply[q]) : reply'[q][i] = reply[q][j]
                   PROVE  reply'[q][i] = decision[q]
        OBVIOUS
      <3>1. CASE q # r
        BY <1>1, <2>3, <3>1
      <3>2. CASE q = r
        <4>1. reply[r] \in Seq(Decisions \cup {Fin})
          BY <1>1
        <4>2. CASE reply' = reply
          BY <4>2
        <4>3. CASE reply' = [reply EXCEPT ![r] = Append(@, Fin)]
          BY <1>1, <3>2, <4>1, <4>3 DEF Fin
        <4>4. CASE /\ reply' = [reply EXCEPT ![r] = Append(@, decision[r])]
                   /\ decision[r] # Undecided
          BY <1>1, <3>2, <4>1, <4>4
        <4>5. CASE /\ reply' = [reply EXCEPT ![r] = @ \o <<decision[r], Fin>>]
                   /\ decision[r] # Undecided
          BY <1>1, <3>2, <4>1, <4>5 DEF Fin
        <4> QED BY <2>3, <4>2, <4>3, <4>4, <4>5
      <3> QED BY <3>1, <3>2
    <2> QED BY <2>1, <2>2, <2>4, InstallKeeps DEF InstallInv
  <1>8. ASSUME NEW r \in Runs, JoinerStep(r) PROVE InstallInv'
    <2>1. UNCHANGED <<handler, decision>>
      BY <1>8 DEF JoinerStep, JoinStart, ClaimCode, JoinerConnect, JoinerResponse, JoinerInstall,
         JoinerAck, JoinerEnd, JoinerSync, JoinerStops
    <2>2. CASE JoinerResponse(r)
      <3>1. CASE Fail(r)
        BY <1>1, <1>3, <2>1, <2>2, <3>1 DEF JoinerResponse, Fail, Run
      <3>2. CASE /\ JoinerValidates(r, Head(reply[r]))
                 /\ run' = [run EXCEPT ![r].pc = "install"]
                 /\ reply' = [reply EXCEPT ![r] = Tail(@)]
        <4>1. reply[r] \in Seq(Decisions \cup {Fin}) /\ reply[r] # <<>> /\ local' = local
          BY <1>1, <2>2 DEF JoinerResponse
        <4>2. /\ Len(reply[r]) \in Nat /\ Len(reply[r]) > 0 /\ Head(reply[r]) = reply[r][1]
              /\ Len(Tail(reply[r])) = Len(reply[r]) - 1
              /\ \A i \in 1..Len(Tail(reply[r])) : Tail(reply[r])[i] = reply[r][i + 1]
          BY <4>1
        <4>3. Current(reply[r][1].tip) /\ reply[r][1].tip[run[r].dev] = run[r].name
          BY <3>2, <4>2 DEF InstallInv, JoinerValidates
        <4>4. run[r].dev \in Devices /\ run[r].name \in Names
          BY <2>2 DEF JoinerResponse, TypeInv, Shape, RunShape
        <4>5. Admitted(run[r].dev, run[r].name)
          BY <4>3, <4>4 DEF Current
        <4>6. \A q \in Runs : \A i \in 1..Len(reply'[q]) :
                  \E j \in 1..Len(reply[q]) : reply'[q][i] = reply[q][j]
          <5>1. reply'[r] = Tail(reply[r]) /\ \A q \in Runs \ {r} : reply'[q] = reply[q]
            BY <1>1, <3>2
          <5>2. \A i \in 1..Len(reply'[r]) :
                    i + 1 \in 1..Len(reply[r]) /\ reply'[r][i] = reply[r][i + 1]
            BY <4>2, <5>1
          <5> QED BY <5>1, <5>2
        <4>7. \A q \in Runs :
                  run'[q] = run[q] \/ (run'[q].dev = run[r].dev /\ run'[q].name = run[r].name)
          BY <1>1, <3>2 DEF Run
        <4> QED BY <2>1, <4>1, <4>5, <4>6, <4>7, InstallKeeps
      <3> QED BY <2>2, <3>1, <3>2 DEF JoinerResponse
    <2>3. CASE JoinerInstall(r)
      <3>1. CASE Fail(r) /\ UNCHANGED local
        BY <1>1, <1>3, <2>1, <2>3, <3>1 DEF JoinerInstall, Fail, Run
      <3>2. CASE /\ local' = [local EXCEPT ![run[r].dev] = run[r].name]
                 /\ run' = [run EXCEPT ![r].pc = "ack"]
                 /\ UNCHANGED <<conn, reply>>
        <4>1. Admitted(run[r].dev, run[r].name)
          BY <2>3 DEF JoinerInstall, InstallInv
        <4>2. \A d \in Devices :
                  local'[d] = local[d] \/ Admitted(d, local'[d])
          BY <1>1, <3>2, <4>1
        <4>3. \A q \in Runs : run'[q].pc = "install" => run'[q] = run[q]
          BY <1>1, <3>2 DEF Run
        <4> QED BY <2>1, <3>2, <4>2, <4>3, InstallKeeps
      <3> QED BY <2>3, <3>1, <3>2 DEF JoinerInstall
    <2>4. CASE \E d \in Devices, nm \in Names \cup {BadName} : JoinStart(r, d, nm)
      BY <1>1, <1>3, <2>1, <2>4 DEF JoinStart, NoRun, wireVars
    <2>5. CASE \E n \in Invites : ClaimCode(r, n)
      BY <1>1, <1>3, <2>1, <2>5 DEF ClaimCode, NoRun, Run, wireVars
    <2>6. CASE JoinerConnect(r) \/ JoinerAck(r) \/ JoinerEnd(r) \/ JoinerSync(r) \/ JoinerStops(r)
      <3>1. /\ local' = local /\ \A q \in Runs : reply'[q] \in {reply[q], <<>>}
        BY <1>1, <2>6 DEF JoinerConnect, JoinerAck, JoinerEnd, JoinerSync, JoinerStops, Fail,
           wireVars
      <3>2. \A q \in Runs : run'[q].pc = "install" => run'[q] = run[q]
        <4>1. CASE Fail(r)
          BY <1>1, <4>1, FailRun
        <4>2. CASE \E pc \in {"wait", "end", "sync", "done", "failed"} :
                      pc # "install" /\ run' = [run EXCEPT ![r].pc = pc]
          BY <1>1, <4>2 DEF Run
        <4> QED
          BY <2>6, <4>1, <4>2 DEF JoinerConnect, JoinerAck, JoinerEnd, JoinerSync, JoinerStops
      <3> QED BY <1>3, <2>1, <3>1, <3>2
    <2> QED BY <1>8, <2>2, <2>3, <2>4, <2>5, <2>6 DEF JoinerStep
  <1> QED BY <1>4, <1>5, <1>6, <1>7, <1>8 DEF Next

\* InstalledWasAdmitted holds of every behaviour: the roster that reaches a
\* joiner was read after its admission and checked to name it still, wherever
\* the inviter's selection moved before, in between and afterwards.
THEOREM InstalledAdmitted == Spec => []InstalledWasAdmitted
  <1>1. Init => InstallInv
    BY JoinAssumption DEF JoinAssumption, Init, InstallInv, InstalledWasAdmitted, Current,
       NoHandler, NoRun, Undecided
  <1>2. Spec => [](TypeInv /\ InstallInv)
    BY <1>1, InitType, NextType, NextInstall, PTL DEF Spec
  <1>3. InstallInv => InstalledWasAdmitted
    BY DEF InstallInv
  <1> QED BY <1>2, <1>3, PTL

----------------------------------------------------------------------------
(* The acknowledgement                                                     *)

\* A joiner that has sent more than its request has installed the roster.
AckInv ==
    \A r \in Runs :
        session[r] # "none" =>
            \/ local[run[r].dev] = run[r].name
            \/ /\ run[r].pc \notin {"ack", "end"}
               /\ sent[r] \in {<<>>, <<Request>>}
               /\ session[r] # "joined"

\* A name that a device has installed stays.
LEMMA LocalStays ==
    ASSUME TypeInv, [Next]_vars, NEW d \in Devices, local[d] # None
    PROVE  local'[d] = local[d]
  <1>1. local \in [Devices -> Names \cup {None}]
    BY DEF TypeInv, TypeOK
  <1>2. ASSUME NEW r \in Runs, JoinerInstall(r) PROVE local'[d] = local[d]
    BY <1>1, <1>2 DEF JoinerInstall
  <1>3. CASE InviteStep \/ DecideStep \/ DaemonRestarts \/ UNCHANGED vars
             \/ \E x \in Devices, e \in Names \cup {None, Removed} : SelectionMoves(x, e)
    BY <1>3 DEF InviteStep, CreateInvitation, ActivateInvitation, PollPending, Confirm, Expire,
       DecideStep, DecideReject, DecideLookup, DecideAdmit, DecideBuild, DecideSend,
       DaemonRestarts, SelectionMoves, vars
  <1>4. ASSUME NEW r \in Runs,
               \/ InviterStep(r)
               \/ \E e \in Devices, nm \in Names \cup {BadName} : JoinStart(r, e, nm)
               \/ \E n \in Invites : ClaimCode(r, n)
               \/ JoinerConnect(r) \/ JoinerResponse(r) \/ JoinerAck(r) \/ JoinerEnd(r)
               \/ JoinerSync(r) \/ JoinerStops(r)
        PROVE  local'[d] = local[d]
    BY <1>4 DEF InviterStep, InviterClaim, InviterGivesUp, InviterSenderDropped,
       InviterResponds, InviterEnds, JoinStart, ClaimCode, JoinerConnect, JoinerResponse,
       JoinerAck, JoinerEnd, JoinerSync, JoinerStops
  <1> QED BY <1>2, <1>3, <1>4 DEF Next, JoinerStep

\* Only the installation leads to the acknowledgement, and only that to the
\* end of the inviter's task.
LEMMA NextAck == TypeInv /\ AckInv /\ [Next]_vars => AckInv'
  <1> SUFFICES ASSUME TypeInv, AckInv, [Next]_vars, NEW r \in Runs, session'[r] # "none",
                      local'[run'[r].dev] # run'[r].name
               PROVE  /\ run'[r].pc \notin {"ack", "end"}
                      /\ sent'[r] \in {<<>>, <<Request>>}
                      /\ session'[r] # "joined"
    BY DEF AckInv
  <1> USE JoinAssumption DEF JoinAssumption
  <1>1. /\ run \in [Runs -> Run] /\ sent \in [Runs -> Seq({Request, Ack, Fin})]
        /\ session \in [Runs -> {"none", "accept", "waiting", "ack", "joined", "ended"}]
    BY DEF TypeInv, TypeOK, Run
  <1>2. session[r] # "none" =>
            /\ run'[r].dev = run[r].dev /\ run'[r].name = run[r].name
            /\ local[run[r].dev] # run[r].name
            /\ run[r].pc \notin {"ack", "end"}
            /\ sent[r] \in {<<>>, <<Request>>}
            /\ session[r] # "joined"
    <2> SUFFICES ASSUME session[r] # "none"
                 PROVE  /\ run'[r].dev = run[r].dev /\ run'[r].name = run[r].name
                        /\ local[run[r].dev] # run[r].name
      BY DEF AckInv
    <2>1. run'[r].dev = run[r].dev /\ run'[r].name = run[r].name
      BY NextFixed DEF Fixed
    <2>2. run[r].dev \in Devices /\ run[r].name \in Names
      BY DEF TypeInv, Shape, RunShape
    <2> QED BY <2>1, <2>2, LocalStays
  <1>3. CASE UNCHANGED <<run, session, sent>>
    BY <1>2, <1>3
  <1>4. CASE InviteStep \/ DecideStep \/ UNCHANGED vars \/ \E d \in Devices, e \in Names \cup {None, Removed} : SelectionMoves(d, e)
    BY <1>3, <1>4 DEF InviteStep, CreateInvitation, ActivateInvitation, PollPending, Confirm,
       Expire, DecideStep, DecideReject, DecideLookup, DecideAdmit, DecideBuild, DecideSend,
       SelectionMoves, vars, wireVars
  <1>5. CASE DaemonRestarts
    BY <1>1, <1>2, <1>5 DEF DaemonRestarts
  <1>6. ASSUME NEW q \in Runs, InviterStep(q)
        PROVE  /\ run'[r].pc \notin {"ack", "end"}
               /\ sent'[r] \in {<<>>, <<Request>>}
               /\ session'[r] # "joined"
    <2>1. run' = run /\ session[r] # "none"
      BY <1>1, <1>6 DEF InviterStep, InviterClaim, InviterGivesUp, InviterSenderDropped,
         InviterResponds, InviterEnds, EndSession
    <2>2. CASE q # r
      <3>1. sent'[r] = sent[r] /\ session'[r] = session[r]
        BY <1>1, <1>6, <2>2 DEF InviterStep, InviterClaim, InviterGivesUp, InviterSenderDropped,
           InviterResponds, InviterEnds, EndSession
      <3> QED BY <1>2, <2>1, <3>1
    <2>3. CASE q = r
      <3>1. ~InviterAcked(r)
        BY <1>2, <2>1 DEF InviterAcked, Ack, Fin, Request
      <3>2. /\ sent'[r] \in {<<>>, sent[r]} \/ (sent[r] # <<>> /\ sent'[r] = Tail(sent[r]))
            /\ session'[r] # "joined"
        BY <1>1, <1>6, <2>3, <3>1 DEF InviterStep, InviterClaim, InviterGivesUp,
           InviterSenderDropped, InviterResponds, InviterEnds, EndSession
      <3>3. Tail(<<Request>>) = <<>>
        OBVIOUS
      <3> QED BY <1>2, <2>1, <3>2, <3>3
    <2> QED BY <2>2, <2>3
  <1>7. ASSUME NEW q \in Runs, JoinerStep(q)
        PROVE  /\ run'[r].pc \notin {"ack", "end"}
               /\ sent'[r] \in {<<>>, <<Request>>}
               /\ session'[r] # "joined"
    <2>1. CASE q # r
      <3>1. run'[r] = run[r] /\ sent'[r] = sent[r] /\ session'[r] = session[r]
        BY <1>1, <1>7, <2>1 DEF JoinerStep, JoinStart, ClaimCode, JoinerConnect, JoinerResponse,
           JoinerInstall, JoinerAck, JoinerEnd, JoinerSync, JoinerStops, Fail, wireVars
      <3> QED BY <1>2, <3>1
    <2>2. CASE q = r /\ session[r] = "none"
      <3>1. RunShape(r)
        BY DEF TypeInv, Shape
      <3>2. JoinerConnect(r) /\ session'[r] = "accept"
        BY <1>1, <1>7, <2>2, <3>1 DEF JoinerStep, JoinStart, ClaimCode, JoinerConnect,
           JoinerResponse, JoinerInstall, JoinerAck, JoinerEnd, JoinerSync, JoinerStops, RunShape,
           Running, wireVars
      <3> QED BY <1>1, <2>2, <3>2 DEF JoinerConnect, Fail, Run
    <2>3. CASE q = r /\ session[r] # "none"
      <3>1. RunShape(r)
        BY DEF TypeInv, Shape
      <3>2. CASE JoinerInstall(r)
        <4>1. Fail(r) /\ UNCHANGED <<session, sent>>
          BY <1>1, <1>2, <2>3, <3>1, <3>2 DEF JoinerInstall, RunShape, TypeInv, TypeOK
        <4> QED BY <1>1, <1>2, <2>3, <4>1 DEF Fail, Run
      <3>3. CASE JoinerResponse(r) \/ JoinerSync(r) \/ JoinerStops(r)
        <4>1. UNCHANGED <<session, sent>> /\ run'[r].pc \notin {"ack", "end"}
          BY <1>1, <3>3 DEF JoinerResponse, JoinerSync, JoinerStops, Fail, Run, wireVars
        <4> QED BY <1>2, <2>3, <4>1
      <3>4. JoinerInstall(r) \/ JoinerResponse(r) \/ JoinerSync(r) \/ JoinerStops(r)
        BY <1>2, <1>7, <2>3, <3>1 DEF JoinerStep, JoinStart, ClaimCode, JoinerConnect, JoinerAck,
           JoinerEnd, RunShape
      <3> QED BY <3>2, <3>3, <3>4
    <2> QED BY <2>1, <2>2, <2>3
  <1> QED BY <1>4, <1>5, <1>6, <1>7 DEF Next

\* AcknowledgedIsInstalled holds of every behaviour: run_inviter's success
\* rests on two messages that the joiner writes after its commit, and no
\* other run of the device changes what it committed.
THEOREM AcknowledgedInstalled == Spec => []AcknowledgedIsInstalled
  <1>1. Init => AckInv
    BY DEF Init, AckInv
  <1>2. Spec => [](TypeInv /\ AckInv)
    BY <1>1, InitType, NextType, NextAck, PTL DEF Spec
  <1>3. AckInv => AcknowledgedIsInstalled
    BY DEF AckInv, AcknowledgedIsInstalled
  <1> QED BY <1>2, <1>3, PTL
=============================================================================
