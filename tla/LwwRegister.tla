---------------------------- MODULE LwwRegister ----------------------------
(***************************************************************************)
(* What a device promises about one path (ARCHITECTURE.md, invariant 5):   *)
(* whatever order records arrive in, the winner is the greatest of all the *)
(* records that were ever presented, and nothing else decides it.          *)
(***************************************************************************)
EXTENDS Records

VARIABLES
    presented,   \* every record a peer or the scanner has presented
    value        \* the winner

regVars == <<presented, value>>

RegInit ==
    /\ presented = {}
    /\ value = NoRecord

Present(r) ==
    /\ presented' = presented \cup {r}
    /\ value' = Greatest(presented')

RegNext == \E r \in Record : Present(r)

RegSpec == RegInit /\ [][RegNext]_regVars
============================================================================
