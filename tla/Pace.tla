--------------------------------- MODULE Pace ---------------------------------
(***************************************************************************)
(* What the disconnect screen promises to the game, whatever computers     *)
(* stop and whatever is sent again to those behind.  Computers that play   *)
(* together stay in step: none executes a frame before the commands for it *)
(* can have been issued by all it plays with.  Only a computer nothing is  *)
(* heard of any more is played without, by each of the others from a       *)
(* moment of its own on, and for good.                                     *)
(***************************************************************************)
EXTENDS Integers

CONSTANTS Players, RunAhead, FirstFrame

VARIABLES
  frame,       \* the frame each computer executes next
  connected,   \* the players each computer plays with, itself among them
  silent       \* the computers nothing is heard of any more

Init ==
  /\ frame = [p \in Players |-> FirstFrame]
  /\ connected = [p \in Players |-> Players]
  /\ silent = {}

\* The commands for a frame are issued the run-ahead before it is executed.
Advance(p) ==
  /\ p \notin silent
  /\ \A q \in connected[p] \ {p} : frame[p] < frame[q] + RunAhead
  /\ frame' = [frame EXCEPT ![p] = @ + 1]
  /\ UNCHANGED <<connected, silent>>

FallSilent(p) ==
  /\ silent' = silent \cup {p}
  /\ UNCHANGED <<frame, connected>>

PlayWithout(p, q) ==
  /\ q \in silent \ {p}
  /\ connected' = [connected EXCEPT ![p] = @ \ {q}]
  /\ UNCHANGED <<frame, silent>>

Next ==
  \E p \in Players :
    Advance(p) \/ FallSilent(p) \/ \E q \in Players : PlayWithout(p, q)

Spec == Init /\ [][Next]_<<frame, connected, silent>>

\* Nobody is more than the run-ahead beyond a player he plays with.
InStep ==
  \A p \in Players : \A q \in connected[p] : frame[p] <= frame[q] + RunAhead

===============================================================================
