------------------------------ MODULE MCRoster ------------------------------
(***************************************************************************)
(* Small groups for TLC.  EndpointIds and hash ranks are numbers.          *)
(***************************************************************************)
EXTENDS Roster

Asks(d, change) == [device |-> d, change |-> change]

\* Hashes that follow author and member: siblings are ordered, and the order
\* turns round from one level of the chain to the next.
ByAuthor(r) ==
    LET rank == 10 * Own(r).author + Own(r).change.member
    IN  IF Len(r.path) % 2 = 1 THEN rank ELSE 1000 - rank

Everyone == {l \in Online \X Online : l[1] # l[2]}

\* 1 admits 3, who joins and takes part, while 2 removes 4: 1 has to replay.
AdmitAgainstRemove == {Asks(1, Admission(3)), Asks(2, Removal(4))}

\* Removals compete, and one of them is of the author of the other.
Removals == {Asks(1, Removal(3)), Asks(2, Removal(4)), Asks(2, Removal(1))}

\* Two removals compete and neither touches an author.
TwoRemovals == {Asks(1, Removal(3)), Asks(2, Removal(4))}
=============================================================================
