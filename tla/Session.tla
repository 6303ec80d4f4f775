------------------------------ MODULE Session -------------------------------
(***************************************************************************)
(* One synchronization session after another between two honest devices:   *)
(* sync.rs, run_session_with_outcome, over the frames of protocol.rs.  The *)
(* sides exchange Hello, Roster, Manifests and Requests, each writing and  *)
(* reading at once; then the dialer sends files and receives, the acceptor *)
(* receives and sends; then Done and the end of both streams.              *)
(*                                                                         *)
(* A stream carries units, the chunks of at most 64 KiB that one write or  *)
(* read moves, and holds at most Window units that are not read yet.  What *)
(* the frames do to roster and records in full is in Roster and Replica:   *)
(* here a record is the version of its path, versions are given out in     *)
(* increasing order, and the greater one wins.                             *)
(***************************************************************************)
EXTENDS Naturals, Sequences, FiniteSets, SequencesExt

CONSTANTS
    Files,          \* protocol paths, in their order: 1..n
    Size,           \* the length of each file in units
    Window,         \* units a stream holds before a write must wait
    FrameUnits,     \* units of a Roster, Manifests or Requests frame
    MaxTransfers,   \* MAX_TRANSFERS
    MaxFileBytes,   \* MAX_SESSION_FILE_BYTES, in units
    MaxConnection,  \* MAX_CONNECTION_BYTES, in units
    MaxEdits,       \* bound on local changes
    MaxFaults       \* bound on broken connections, timeouts, failed writes

ASSUME SessionAssumption ==
    /\ Files \subseteq Nat /\ IsFiniteSet(Files)
    /\ Size \in [Files -> Nat]
    /\ {MaxFileBytes, MaxConnection, MaxEdits, MaxFaults} \subseteq Nat
    /\ Window \in Nat \ {0}
    /\ FrameUnits \in Nat \ {0}
    /\ MaxTransfers \in Nat \ {0}
    /\ \A f \in Files : Size[f] <= MaxFileBytes  \* MAX_FILE_BYTES is smaller
    /\ 3 * FrameUnits + MaxTransfers + MaxFileBytes + 2 <= MaxConnection

VARIABLES
    stage,     \* where each side stands
    out,       \* units a side has still to write in this stage
    got,       \* the frame a side has read in this stage
    wire,      \* units written by a side and not read by the other
    received,  \* received_bytes of each side
    want,      \* requests of a side that are not answered yet
    serve,     \* requests of the peer that are not served yet
    served,    \* sent_bytes of send_files
    body,      \* the file a side is receiving
    error,     \* why the side's last session failed
    win,       \* the version each side's record of a path names, 0 for none
    mat,       \* the version whose fingerprint a row holds, 0 if not materialized
    disk,      \* the version of the bytes on each side's disk, 0 for no file
    clock,     \* versions given out
    faults     \* broken sessions so far

streamVars == <<out, got, wire, received>>
fileVars == <<want, serve, served, body>>
localVars == <<win, mat, disk>>
vars == <<stage, streamVars, fileVars, error, localVars, clock, faults>>

Sides == {"Dialer", "Acceptor"}
Peer(s) == IF s = "Dialer" THEN "Acceptor" ELSE "Dialer"
Ended == {"ok", "failed"}
NoFrame == [done |-> FALSE, val |-> <<>>]
NoBody == [on |-> FALSE, left |-> 0, good |-> TRUE, step |-> "bytes"]

\* A file request: the path and the hash of the record that is wanted.
FileRequest(f, v) == [path |-> f, version |-> v]

-----------------------------------------------------------------------------
(* Frames.                                                                  *)

\* encode_frame: the payload stands in every unit, `more` counts down.
Units(tag, val, n) == [i \in 1..n |-> [tag |-> tag, val |-> val, more |-> n - i]]

\* The frame a side writes in an exchange: a Hello fits one unit, Done is a
\* header without payload and Fin is the end of the stream.
Frame(tag, val) == Units(tag, val, IF tag \in {"Hello", "Done", "Fin"} THEN 1 ELSE FrameUnits)

\* What the bundles carry here: the collections and the roster are the same on
\* both sides and stand for themselves, the manifests are the records.
Hello == Frame("Hello", <<>>)
RosterBundle == Frame("Roster", <<>>)
ManifestBundle(s) == Frame("Manifests", win[s])

\* stream_file: the chunks of a file, which are read as they are sent.
FileBody(r) == Units("Body", r, Size[r.path])

\* The side leaves the session with an error and drops its connection.
Fail(s, why) ==
    /\ stage' = [stage EXCEPT ![s] = "failed"]
    /\ error' = [error EXCEPT ![s] = why]
    /\ out' = [out EXCEPT ![s] = <<>>]
    /\ got' = [got EXCEPT ![s] = NoFrame]
    /\ want' = [want EXCEPT ![s] = <<>>]
    /\ serve' = [serve EXCEPT ![s] = <<>>]
    /\ body' = [body EXCEPT ![s] = NoBody]

Enter(s, st, units) ==
    /\ stage' = [stage EXCEPT ![s] = st]
    /\ out' = [out EXCEPT ![s] = units]
    /\ got' = [got EXCEPT ![s] = NoFrame]

\* add_received of n units within the limit of the connection.
Counts(s, n) == received[s] + n <= MaxConnection

\* One unit of write_frame_async or stream_file: it waits for room.  The body
\* of a file is read as it is sent: bytes of the opened file, or of a change
\* made in place since then.
WriteUnit(s) ==
    /\ stage[s] \notin Ended
    /\ out[s] # <<>>
    /\ Len(wire[s]) < Window
    /\ LET u == Head(out[s])
       IN  \E v \in IF u.tag = "Body" THEN {u.val.version, disk[s][u.val.path]} ELSE {0} :
               wire' = [wire EXCEPT ![s] =
                   Append(@, IF u.tag = "Body" THEN [u EXCEPT !.val.version = v] ELSE u)]
    /\ out' = [out EXCEPT ![s] = Tail(@)]
    /\ UNCHANGED <<stage, got, received, fileVars, error, localVars, clock, faults>>

Exchanged == {"Hello", "Roster", "Manifests", "Requests", "Done", "Fin"}

\* One unit of read_expected.  The halves of exchange_frame run together
\* (try_join): reading does not wait for the write.  The trailing read of the
\* end of the stream is not counted.
ReadUnit(s) ==
    /\ stage[s] \in Exchanged
    /\ ~got[s].done
    /\ wire[Peer(s)] # <<>>
    /\ LET u == Head(wire[Peer(s)])
           n == IF stage[s] = "Fin" THEN 0 ELSE 1
       IN  IF u.tag # stage[s] \/ ~Counts(s, n)
           THEN /\ Fail(s, IF Counts(s, n) THEN "UnexpectedFrame" ELSE "ConnectionLimit")
                /\ UNCHANGED <<wire, received, served>>
           ELSE /\ wire' = [wire EXCEPT ![Peer(s)] = Tail(@)]
                /\ received' = [received EXCEPT ![s] = @ + n]
                /\ got' = [got EXCEPT ![s] = [done |-> u.more = 0, val |-> u.val]]
                /\ UNCHANGED <<stage, out, fileVars, error>>
    /\ UNCHANGED <<localVars, clock, faults>>

\* Both halves of the exchange of this stage are done.
ExchangeDone(s, st) == stage[s] = st /\ out[s] = <<>> /\ got[s].done

-----------------------------------------------------------------------------
(* The stages.                                                              *)

\* A dialled connection: both sides pass authorize_local_roster and open
\* their stream.
StartSession ==
    /\ \A s \in Sides : stage[s] \in Ended
    /\ stage' = [s \in Sides |-> "Hello"]
    /\ out' = [s \in Sides |-> Hello]
    /\ got' = [s \in Sides |-> NoFrame]
    /\ wire' = [s \in Sides |-> <<>>]
    /\ received' = [s \in Sides |-> 0]
    /\ served' = [s \in Sides |-> 0]
    /\ error' = [s \in Sides |-> "none"]
    /\ UNCHANGED <<want, serve, body, localVars, clock, faults>>

HelloDone(s) ==
    /\ ExchangeDone(s, "Hello")
    /\ Enter(s, "Roster", RosterBundle)
    /\ UNCHANGED <<wire, received, fileVars, error, localVars, clock, faults>>

\* accept_remote_roster_and_hint, then build_manifests.
RosterDone(s) ==
    /\ ExchangeDone(s, "Roster")
    /\ Enter(s, "Manifests", ManifestBundle(s))
    /\ UNCHANGED <<wire, received, fileVars, error, localVars, clock, faults>>

\* The records that merge_remote_manifests leaves.
Merged(s, remote) ==
    [f \in Files |-> IF remote[f] > win[s][f] THEN remote[f] ELSE win[s][f]]

\* requests.sort(): the paths of a set in their order.
Sorted(S) ==
    CHOOSE fs \in [1..Cardinality(S) -> S] :
        \A i, j \in 1..Cardinality(S) : i < j => fs[i] < fs[j]

\* The requests in their order, and how many of them fit one session: the
\* first that does not fit ends the selection.
Wanted(merged, kept, remote) ==
    LET fs == Sorted({f \in Files : remote[f] # 0 /\ merged[f] = remote[f]
                                    /\ kept[f] = 0})
    IN  [i \in 1..Len(fs) |-> FileRequest(fs[i], merged[fs[i]])]

Bytes(requests) == FoldSeq(LAMBDA r, n : n + Size[r.path], 0, requests)

Select(requests) ==
    LET fits == {0} \cup {k \in 1..Len(requests) :
                     k <= MaxTransfers /\ Bytes(SubSeq(requests, 1, k)) <= MaxFileBytes}
    IN  SubSeq(requests, 1, CHOOSE k \in fits : \A j \in fits : j <= k)

\* upsert_record: a record that replaces another is not materialized.
Kept_all(s, merged) == mat[s]

Kept(s, merged) == [f \in Files |-> IF merged[f] = win[s][f] THEN mat[s][f] ELSE 0]

\* merge_remote_manifests, then the requests for what won and is not here.
ManifestsDone(s) ==
    /\ ExchangeDone(s, "Manifests")
    /\ LET remote == got[s].val
           merged == Merged(s, remote)
           kept == Kept(s, merged)
           selected == Select(Wanted(merged, kept, remote))
       IN  /\ win' = [win EXCEPT ![s] = merged]
           /\ mat' = [mat EXCEPT ![s] = kept]
           /\ want' = [want EXCEPT ![s] = selected]
           /\ Enter(s, "Requests", Frame("Requests", selected))
    /\ UNCHANGED <<wire, received, serve, served, body, error, disk, clock, faults>>

\* The order of the file phase, by side.
Order_same(s) == <<"Send", "Receive">>

Order(s) == IF s = "Dialer" THEN <<"Send", "Receive">> ELSE <<"Receive", "Send">>

\* RequestBundle::decode accepts at most MAX_TRANSFERS ordered requests.
RequestsDone(s) ==
    /\ ExchangeDone(s, "Requests")
    /\ IF /\ Len(got[s].val) <= MaxTransfers
          /\ \A i \in 1..(Len(got[s].val) - 1) : got[s].val[i].path < got[s].val[i + 1].path
       THEN /\ serve' = [serve EXCEPT ![s] = got[s].val]
            /\ Enter(s, Order(s)[1], <<>>)
            /\ UNCHANGED <<want, body, error>>
       ELSE Fail(s, "RequestLimit")
    /\ UNCHANGED <<wire, received, served, localVars, clock, faults>>

\* The end of the first or the second half of the file phase.
FilesDone(s) ==
    /\ \/ stage[s] = "Send" /\ out[s] = <<>> /\ serve[s] = <<>>
       \/ stage[s] = "Receive" /\ want[s] = <<>>
    /\ IF stage[s] = Order(s)[1]
       THEN Enter(s, Order(s)[2], <<>>)
       ELSE Enter(s, "Done", Frame("Done", <<>>))
    /\ UNCHANGED <<wire, received, fileVars, error, localVars, clock, faults>>

\* send.finish() after the Done frames.
DoneDone(s) ==
    /\ ExchangeDone(s, "Done")
    /\ Enter(s, "Fin", Frame("Fin", <<>>))
    /\ UNCHANGED <<wire, received, fileVars, error, localVars, clock, faults>>

\* The trailing read has met the end of the peer's stream, and the transport
\* has acknowledged this side's.
PeerFinished_unread(s) == stage[s] = "Fin" /\ out[s] = <<>>

PeerFinished(s) == ExchangeDone(s, "Fin")

SessionOk(s) ==
    /\ PeerFinished(s)
    /\ stage' = [stage EXCEPT ![s] = "ok"]
    /\ got' = [got EXCEPT ![s] = NoFrame]
    /\ UNCHANGED <<out, wire, received, fileVars, error, localVars, clock, faults>>

-----------------------------------------------------------------------------
(* Files.                                                                   *)

\* prepare_requested_file: the requested record is still the winner here, it
\* is materialized, and the file has its bytes; and the session's budget.
Holds_any_version(s, r) ==
    /\ mat[s][r.path] # 0
    /\ disk[s][r.path] = win[s][r.path]

Holds(s, r) ==
    /\ win[s][r.path] = r.version
    /\ mat[s][r.path] # 0
    /\ disk[s][r.path] = r.version

\* A file that lost its bytes is marked for repair.
LostBytes(s, r) == win[s][r.path] = r.version /\ disk[s][r.path] # r.version

\* send_files, one request: the header and the body, or FileUnavailable.
SendFile(s) ==
    /\ stage[s] = "Send"
    /\ out[s] = <<>>
    /\ serve[s] # <<>>
    /\ LET r == Head(serve[s])
           have == FileRequest(r.path, win[s][r.path])
       IN  IF Holds(s, r) /\ served[s] + Size[r.path] <= MaxFileBytes
           THEN /\ out' = [out EXCEPT ![s] = Units("File", have, 1) \o FileBody(have)]
                /\ served' = [served EXCEPT ![s] = @ + Size[r.path]]
                /\ UNCHANGED mat
           ELSE /\ out' = [out EXCEPT ![s] = Units("FileUnavailable", <<>>, 1)]
                /\ mat' = [mat EXCEPT ![s][r.path] = IF LostBytes(s, r) THEN 0 ELSE @]
                /\ UNCHANGED served
    /\ serve' = [serve EXCEPT ![s] = Tail(@)]
    /\ UNCHANGED <<stage, got, wire, received, want, body, error, win, disk, clock, faults>>

\* receive_files: the answer to the next request, which must be about the
\* requested record.  The whole size is counted with the header.
Answers(r, u) == u.tag = "File" /\ u.val = r

\* The units that follow a header: the size the record names.
Remaining_with_header(r) == Size[r.path] + 1

Remaining(r) == Size[r.path]

ReceiveHeader(s) ==
    /\ stage[s] = "Receive"
    /\ want[s] # <<>>
    /\ ~body[s].on
    /\ wire[Peer(s)] # <<>>
    /\ LET u == Head(wire[Peer(s)])
           r == Head(want[s])
           n == IF u.tag = "File" THEN 1 + Size[r.path] ELSE 1
       IN  IF Counts(s, n) /\ (Answers(r, u) \/ u.tag = "FileUnavailable")
           THEN /\ wire' = [wire EXCEPT ![Peer(s)] = Tail(@)]
                /\ received' = [received EXCEPT ![s] = @ + n]
                /\ IF u.tag = "File"
                   THEN /\ body' = [body EXCEPT ![s] = [on |-> TRUE, left |-> Remaining(r),
                                                        good |-> TRUE, step |-> "bytes"]]
                        /\ UNCHANGED want
                   ELSE /\ want' = [want EXCEPT ![s] = Tail(@)]
                        /\ UNCHANGED body
                /\ UNCHANGED <<stage, out, got, serve, error>>
           ELSE /\ Fail(s, IF Counts(s, n) THEN "UnsolicitedFile" ELSE "ConnectionLimit")
                /\ UNCHANGED <<wire, received>>
    /\ UNCHANGED <<served, localVars, clock, faults>>

\* One unit of receive_raw_file; the hash covers them all.
ReceiveBody(s) ==
    /\ body[s].on /\ body[s].left > 0
    /\ wire[Peer(s)] # <<>>
    /\ LET u == Head(wire[Peer(s)])
       IN  body' = [body EXCEPT ![s].left = @ - 1,
                       ![s].good = @ /\ u.val.version = Head(want[s]).version]
    /\ wire' = [wire EXCEPT ![Peer(s)] = Tail(@)]
    /\ UNCHANGED <<stage, out, got, received, want, serve, served, error,
                   localVars, clock, faults>>

\* The received file is verified, and its record is looked up: it is applied
\* if that record still wins.  The lookup, the rename and the mark are three
\* steps, and edits and scans happen between them.
StillWins(s, r) == win[s][r.path] = r.version

ApplyFile(s) ==
    /\ body[s].on /\ body[s].left = 0 /\ body[s].step = "bytes"
    /\ IF ~body[s].good
       THEN Fail(s, "CorruptFile")
       ELSE /\ IF StillWins(s, Head(want[s]))
               THEN /\ body' = [body EXCEPT ![s].step = "checked"]
                    /\ UNCHANGED want
               ELSE /\ body' = [body EXCEPT ![s] = NoBody]
                    /\ want' = [want EXCEPT ![s] = Tail(@)]
            /\ UNCHANGED <<stage, out, got, serve, error>>
    /\ UNCHANGED <<wire, received, served, localVars, clock, faults>>

\* install_file: the rename, over whatever is there.
InstallFile(s) ==
    /\ body[s].step = "checked"
    /\ disk' = [disk EXCEPT ![s][Head(want[s]).path] = Head(want[s]).version]
    /\ body' = [body EXCEPT ![s].step = "renamed"]
    /\ UNCHANGED <<stage, streamVars, want, serve, served, error, win, mat, clock, faults>>

\* mark_materialized_and_log: the fingerprint of the installed file goes to
\* the row of the path, whatever record that row holds by now.
MarkFile(s) ==
    /\ body[s].step = "renamed"
    /\ mat' = [mat EXCEPT ![s][Head(want[s]).path] = Head(want[s]).version]
    /\ body' = [body EXCEPT ![s] = NoBody]
    /\ want' = [want EXCEPT ![s] = Tail(@)]
    /\ UNCHANGED <<stage, streamVars, serve, served, error, win, disk, clock, faults>>

\* apply_file_fixture fails and the session goes on: before the rename the row
\* is marked for repair, unless the root is unstable; after it (the state
\* error of PostRenameState) the row stays as it is.
ApplyFails(s) ==
    /\ body[s].step \in {"checked", "renamed"}
    /\ faults < MaxFaults
    /\ faults' = faults + 1
    /\ \/ /\ body[s].step = "checked"
          /\ mat' = [mat EXCEPT ![s][Head(want[s]).path] = 0]
       \/ UNCHANGED mat
    /\ body' = [body EXCEPT ![s] = NoBody]
    /\ want' = [want EXCEPT ![s] = Tail(@)]
    /\ UNCHANGED <<stage, streamVars, serve, served, error, win, disk, clock>>

-----------------------------------------------------------------------------
(* The environment.                                                         *)

\* The other side has ended and dropped the connection, perhaps with units
\* of this side or for this side unread.  An install does not touch the
\* connection, so it is not interrupted.
PeerGone(s) ==
    /\ stage[s] \notin Ended
    /\ body[s].step = "bytes"
    /\ stage[Peer(s)] \in Ended
    /\ Fail(s, "Transport")
    /\ UNCHANGED <<wire, received, served, localVars, clock, faults>>

\* An idle timeout, a lost connection, a failed read or write of the disk or
\* the database, the end of the process.
Breaks(s) ==
    /\ stage[s] \notin Ended
    /\ faults < MaxFaults
    /\ faults' = faults + 1
    /\ Fail(s, "Transport")
    /\ UNCHANGED <<wire, received, served, localVars, clock>>

\* A local program changes a file.
UserEdits(s, f) ==
    /\ clock < MaxEdits
    /\ clock' = clock + 1
    /\ disk' = [disk EXCEPT ![s][f] = clock + 2]
    /\ UNCHANGED <<stage, streamVars, fileVars, error, win, mat, faults>>

\* The daemon scans the collection.  A file that is what the row's fingerprint
\* says is taken for the winner; any other is compared: a newer one gets a
\* record, an equal one is materialized, an older one awaits repair.
Scanned(s, f) ==
    CASE disk[s][f] = 0 \/ disk[s][f] = mat[s][f] -> mat[s][f]
      [] disk[s][f] # mat[s][f] /\ disk[s][f] >= win[s][f] -> disk[s][f]
      [] OTHER -> 0

Scan(s) ==
    /\ win' = [win EXCEPT ![s] = Merged(s, disk[s])]
    /\ mat' = [mat EXCEPT ![s] = [f \in Files |-> Scanned(s, f)]]
    /\ UNCHANGED <<stage, streamVars, fileVars, error, disk, clock, faults>>

-----------------------------------------------------------------------------

\* Each file is on one side only, scanned there.
Init ==
    /\ stage = [s \in Sides |-> "ok"]
    /\ out = [s \in Sides |-> <<>>]
    /\ got = [s \in Sides |-> NoFrame]
    /\ wire = [s \in Sides |-> <<>>]
    /\ received = [s \in Sides |-> 0]
    /\ want = [s \in Sides |-> <<>>]
    /\ serve = [s \in Sides |-> <<>>]
    /\ served = [s \in Sides |-> 0]
    /\ body = [s \in Sides |-> NoBody]
    /\ error = [s \in Sides |-> "none"]
    /\ \E owner \in [Files -> Sides] :
           /\ disk = [s \in Sides |-> [f \in Files |-> IF owner[f] = s THEN 1 ELSE 0]]
    /\ win = disk
    /\ mat = disk
    /\ clock = 0
    /\ faults = 0

\* What a side does by itself.
SideStep(s) ==
    \/ WriteUnit(s) \/ ReadUnit(s)
    \/ HelloDone(s) \/ RosterDone(s) \/ ManifestsDone(s) \/ RequestsDone(s)
    \/ SendFile(s) \/ ReceiveHeader(s) \/ ReceiveBody(s)
    \/ ApplyFile(s) \/ InstallFile(s) \/ MarkFile(s)
    \/ FilesDone(s) \/ DoneDone(s) \/ SessionOk(s)
    \/ PeerGone(s)

Next ==
    \/ StartSession
    \/ \E s \in Sides :
           \/ SideStep(s)
           \/ ApplyFails(s)
           \/ Breaks(s)
           \/ \E f \in Files : UserEdits(s, f)
           \/ Scan(s)

\* The runtime polls both tasks, the network loop dials again every period,
\* and the daemon scans every changed file.
Fairness ==
    /\ WF_vars(StartSession)
    /\ \A s \in Sides : WF_vars(SideStep(s)) /\ WF_vars(Scan(s))

Spec == Init /\ [][Next]_vars /\ Fairness

-----------------------------------------------------------------------------
(* Properties.                                                              *)

Versions == 0..(MaxEdits + 1)
Stages == Exchanged \cup {"Send", "Receive"} \cup Ended
Requests == [path : Files, version : Versions]
Bodies == [on : BOOLEAN, left : 0..MaxFileBytes, good : BOOLEAN,
           step : {"bytes", "checked", "renamed"}]

\* The shape of every variable, and the bounds of a session: a stream never
\* holds more than its window, a side never counts more than the connection's
\* limit and never sends more than the session's budget (protocol.rs, limits).
TypeOK ==
    /\ stage \in [Sides -> Stages]
    /\ \A s \in Sides : /\ Len(wire[s]) <= Window
                        /\ want[s] \in Seq(Requests) /\ Len(want[s]) <= MaxTransfers
                        /\ serve[s] \in Seq(Requests) /\ Len(serve[s]) <= MaxTransfers
    /\ received \in [Sides -> 0..MaxConnection]
    /\ served \in [Sides -> 0..MaxFileBytes]
    /\ \A s \in Sides : got[s].done \in BOOLEAN
    /\ body \in [Sides -> Bodies]
    /\ win \in [Sides -> [Files -> Versions]]
    /\ mat \in [Sides -> [Files -> Versions]]
    /\ disk \in [Sides -> [Files -> Versions]]
    /\ clock \in 0..MaxEdits
    /\ faults \in 0..MaxFaults

\* Two devices that run this code never report each other for a violation of
\* the protocol: no frame out of order, no file that was not asked for, no
\* limit exceeded, whatever is edited and scanned between the request and the
\* answer (sync.rs, receive_files, read_expected; protocol.rs, add_received).
HonestNeverRejected ==
    \A s \in Sides : error[s] \in {"none", "Transport", "CorruptFile"}

\* A side that reports success knows that the session is complete on the
\* other side too: the peer has handled the answer to every request it made
\* and has exchanged Done, and can at most lose the connection after that
\* (sync.rs, the Done exchange and the trailing read).
SuccessIsMutual ==
    \A s \in Sides : stage[s] = "ok" =>
        /\ want[Peer(s)] = <<>> /\ serve[Peer(s)] = <<>>
        /\ stage[Peer(s)] \in {"Fin", "ok"} \/ error[Peer(s)] = "Transport"

\* Every session ends by itself on both sides, with or without success: the
\* two streams never wait on each other, and no side waits for a unit that the
\* other will not send.  The idle timeout is never needed between two devices
\* that run (sync.rs, exchange_frame, the order of the file phase).
SessionsEnd == \A s \in Sides : stage[s] = "Hello" ~> stage[s] \in Ended

\* Once local changes and failures stop, every file reaches both devices: what
\* one session leaves for the next, a session that failed, a file that lost its
\* bytes or was marked for repair, and an edit at any point of an install are
\* all made up for (sync.rs, merge_remote_manifests and the selection of
\* requests; filesystem.rs, the scan).  Except for an edit that is recorded
\* between the lookup of the winner and the rename (sync.rs:681,
\* installer.rs:114): the rename replaces the only copy of the winner's bytes,
\* and nobody can supply them again.
InSync ==
    \A f \in Files : /\ win["Dialer"][f] = win["Acceptor"][f]
                     /\ \A s \in Sides : mat[s][f] = win[s][f] /\ disk[s][f] = win[s][f]
RenamesTheWinner ==
    \A s \in Sides : body[s].step = "checked" => StillWins(s, Head(want[s]))
EventuallyInSync == []RenamesTheWinner => <>[]InSync

=============================================================================
