------------------------------ MODULE MCLockstep ------------------------------
(***************************************************************************)
(* Instances of Lockstep for TLC.  The players are small numbers, as the   *)
(* packet router is the lowest slot; the instances differ in who may issue *)
(* how many commands.                                                      *)
(***************************************************************************)
EXTENDS Lockstep

NoCommands == [p \in Players |-> 0]
OneCommandEach == [p \in Players |-> 1]

\* Two commands, run-ahead changes among them, of the first packet router.
TwoOfTheRouter == [p \in Players |-> IF p = Min(Players) THEN 2 ELSE 0]

===============================================================================
