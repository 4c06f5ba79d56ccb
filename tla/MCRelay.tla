-------------------------------- MODULE MCRelay -------------------------------
(* Instances of Relay for TLC: who leaves, and which commands are followed.  *)
EXTENDS Relay

RouterLeaves == [p \in Players |-> IF p = 0 THEN RunAhead + 2 ELSE Never]

\* The router leaves, and the last player in the frame after.
RouterAndLastLeave ==
  [RouterLeaves EXCEPT ![Max(Players)] = RunAhead + 3]

\* The commands of player 2 for the frame after the router's last, which he
\* sends before and after the router left.
AfterLeavingOf2 == [player : {2}, frame : {RunAhead + 3}]

===============================================================================
