------------------------------ MODULE MCInbox ------------------------------
(* Instances of Inbox for TLC.  The loops are interchangeable and so are the *)
(* consoles: the safety runs use that, the liveness run must not.            *)
EXTENDS Inbox, TLC

LoopAndConsoleSymmetry == Permutations(Loops) \cup Permutations(Consoles)
=============================================================================
