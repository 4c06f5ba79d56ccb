--------------------------- MODULE MCNetCommandList ---------------------------
(* Instances of NetCommandList for TLC; the types are those of NetworkDefs.h. *)
EXTENDS NetCommandList

FRAMEINFO == 3
GAMECOMMAND == 4
RUNAHEAD == 7
ACKBOTH == 0

\* Command IDs are unique among a player's commands, whatever their types.
TwoPlayersCommands ==
  {[type |-> FRAMEINFO, player |-> p, id |-> 1] : p \in {0, 1}}
    \cup {[type |-> GAMECOMMAND, player |-> p, id |-> i] : p \in {0, 1}, i \in 2 .. 4}
    \cup {[type |-> RUNAHEAD, player |-> 0, id |-> 5]}

\* Acks of one player for commands of two others who use the same ID.
SomeAcks ==
  {[type |-> ACKBOTH, player |-> 2, original |-> p, commandID |-> i] :
     p \in {0, 1}, i \in 1 .. 2}

\* Acks no two of which are for the same command ID.
DistinctAcks == {a \in SomeAcks : a.commandID = a.original + 1}

===============================================================================
