---------------------------- MODULE MCLiveConsoles ----------------------------
(* LiveConsoles with the values of the LiveConsoles*.cfg files.             *)
EXTENDS LiveConsoles, TLC

SocketSymmetry == Permutations(Sockets)
=============================================================================
