---------------------------- MODULE MCRelayServer -----------------------------
(* Instances of RelayServer for TLC.                                         *)
EXTENDS RelayServer, TLC

\* Rooms and endpoints are interchangeable.
Symmetry == Permutations(Rooms) \cup Permutations(Endpoints)

===============================================================================
