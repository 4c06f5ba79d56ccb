--------------------------- MODULE CommandSchedule ----------------------------
(***************************************************************************)
(* What the lockstep layer promises to the simulation: every computer      *)
(* executes one set of commands in each frame, frame after frame, and what *)
(* one computer has executed in a frame all others execute in it.  Whoever *)
(* gets to a frame first decides it.                                       *)
(***************************************************************************)
EXTENDS Naturals, Sequences

CONSTANTS Players, Command

VARIABLE executed   \* the command sets each computer executed, frame by frame

Init == executed = [p \in Players |-> << >>]

\* What frame f was decided to be, if anybody has executed it.
DecidedFor(f) ==
  {executed[q][f] : q \in {r \in Players : f <= Len(executed[r])}}

Execute(p) ==
  LET f == Len(executed[p]) + 1
      commands == executed'[p][f]
  IN  /\ Len(executed'[p]) = f
      /\ executed' = [executed EXCEPT ![p] = Append(@, commands)]
      /\ commands \subseteq Command
      /\ DecidedFor(f) \subseteq {commands}

Next == \E p \in Players : Execute(p)

Spec == Init /\ [][Next]_executed

===============================================================================
