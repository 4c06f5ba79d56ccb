---------------------------- MODULE NetCommandList ----------------------------
(***************************************************************************)
(* The list of network commands a frame, a connection and a packet keep:   *)
(* a linked list sorted by command type, player and sort number, in which  *)
(* a command is found once.  All computers execute a frame's commands in   *)
(* the order of their lists, so that order may not depend on the order in  *)
(* which the commands arrived.  What makes that hard is how a place is     *)
(* found: a hint, m_lastMessageInserted, is tried first, then two short    *)
(* cuts, then a search in three passes; a copy is recognised only in the   *)
(* place found.                                                            *)
(*                                                                         *)
(* The list is a sequence and a node of it its position; 0 is nullptr.     *)
(***************************************************************************)
EXTENDS Integers, SequencesExt

CONSTANTS
  Commands,    \* commands with a command ID: [type, player, id]
  Acks,        \* acks, which have none: [type, player, original, commandID]
  MaxLength    \* bound: messages in the list

ASSUME MessagesAssumption ==
  /\ Commands \subseteq [type : Nat, player : Nat, id : Nat]
  /\ Acks \subseteq [type : Nat, player : Nat, original : Nat, commandID : Nat]
  /\ \A c \in Commands, a \in Acks : c.type # a.type
  /\ MaxLength \in Nat

\* A player's commands have different IDs (GenerateNextCommandID).  So do, here, the
\* commands one player acks: with acks for two players' commands of one ID, an ack
\* may be in a list twice, which is harmless.
ASSUME IDsAssumption ==
  /\ \A c, d \in Commands : c.player = d.player /\ c.id = d.id => c = d
  /\ \A a, b \in Acks :
       a.type = b.type /\ a.player = b.player /\ a.commandID = b.commandID => a = b

VARIABLES
  list,                  \* the messages from m_first to m_last
  lastMessageInserted,   \* the position of m_lastMessageInserted
  content                \* history: what was added and not removed

vars == <<list, lastMessageInserted, content>>

Message == Commands \cup Acks

TypeOK ==
  /\ list \in Seq(Message)
  /\ lastMessageInserted \in 0 .. Len(list)
  /\ content \subseteq Message

-------------------------------------------------------------------------------
\* DoesCommandRequireACommandID, getID and getSortNumber.
HasID(m) == m \in Commands
ID(m) == IF HasID(m) THEN m.id ELSE 0
SortNumber(m) == IF HasID(m) THEN m.id ELSE m.commandID

\* isEqualCommandMsg: the player's command IDs are unique among all types.
IsEqual(m, n) ==
  IF HasID(m) /\ HasID(n) THEN m.player = n.player /\ m.id = n.id ELSE m = n

\* Faulty variant: what follows the hint is not looked at.
GoesAfterHintUnseen(m) ==
  /\ lastMessageInserted # 0
  /\ LET last == list[lastMessageInserted]
     IN  last.type = m.type /\ last.player = m.player /\ ID(last) < ID(m)

\* The message belongs right behind the last one inserted.
GoesAfterHint(m) ==
  /\ lastMessageInserted # 0
  /\ LET last == list[lastMessageInserted]
     IN  last.type = m.type /\ last.player = m.player /\ ID(last) < ID(m)
  /\ \/ lastMessageInserted = Len(list)
     \/ LET next == list[lastMessageInserted + 1]
        IN  next.type > m.type \/ next.player > m.player \/ ID(next) > ID(m)

\* Where a pass of the search over the nodes it goes past, from a node on,
\* stops: after the last node at the latest.
FirstNot(past, from) == Min((from .. Len(list) + 1) \ past)

\* The three passes: the type, then the player, then the sort number.
Search(m) ==
  LET lowerType == {i \in DOMAIN list : m.type > list[i].type}
      sameType == {i \in DOMAIN list : m.type = list[i].type}
      lowerPlayer == {i \in sameType : m.player > list[i].player}
      lowerNumber == {i \in sameType : /\ m.player = list[i].player
                                       /\ SortNumber(m) > SortNumber(list[i])}
  IN  FirstNot(lowerNumber, FirstNot(lowerPlayer, FirstNot(lowerType, 1)))

\* The position the message goes to, and the node it may be a copy of.
Position(m) ==
  IF list = << >> THEN 1
  ELSE IF GoesAfterHint(m) THEN lastMessageInserted + 1
  ELSE IF m.type > Last(list).type THEN Len(list) + 1
  ELSE IF m.type < Head(list).type THEN 1
  ELSE Search(m)

IsInPlace(m) ==
  /\ list # << >>
  /\ ~GoesAfterHint(m)
  /\ IsEqual(list[IF Position(m) > Len(list) THEN Len(list) ELSE Position(m)], m)

\* addMessage, which returns nullptr for a message in place already.
AddMessage(m) ==
  /\ content' = content \cup {m}
  /\ IF IsInPlace(m)
     THEN UNCHANGED <<list, lastMessageInserted>>
     ELSE /\ Len(list) < MaxLength
          /\ list' = InsertAt(list, Position(m), m)
          /\ lastMessageInserted' = Position(m)

\* Faulty variant: the hint is left on the node removed.
RemoveMessageUnderHint(i) ==
  /\ list' = RemoveAt(list, i)
  /\ lastMessageInserted' = lastMessageInserted
  /\ content' = content \ {list[i]}

\* removeMessage: a hint on the node removed moves on to the next one.
RemoveMessage(i) ==
  LET next == IF i < Len(list) THEN i ELSE 0
  IN  /\ list' = RemoveAt(list, i)
      /\ lastMessageInserted' =
           IF lastMessageInserted = i THEN next
           ELSE IF lastMessageInserted > i THEN lastMessageInserted - 1
           ELSE lastMessageInserted
      /\ content' = content \ {list[i]}

Reset ==
  /\ list # << >>
  /\ list' = << >>
  /\ lastMessageInserted' = 0
  /\ content' = {}

Init ==
  /\ list = << >>
  /\ lastMessageInserted = 0
  /\ content = {}

Next ==
  \/ \E m \in Message : AddMessage(m)
  \/ \E i \in 1 .. Len(list) : RemoveMessage(i)
  \/ Reset

Spec == Init /\ [][Next]_vars

-------------------------------------------------------------------------------
\* The order the class comment states: type, player, sort number.
Before(m, n) ==
  \/ m.type < n.type
  \/ m.type = n.type /\ m.player < n.player
  \/ m.type = n.type /\ m.player = n.player /\ SortNumber(m) < SortNumber(n)

\* However its messages arrived, in whatever order, copied, and with others
\* removed in between, the list is the one sequence of what it was given in
\* the order of type, player and sort number.  Computers given the same
\* commands execute them in the same order (RelayCommandsToCommandList).
OneOrder ==
  /\ ToSet(list) = content
  /\ \A i \in 1 .. Len(list) - 1 : Before(list[i], list[i + 1])

\* No message is in the list twice, acks included: "this command is already
\* in the list, don't duplicate it" (addMessage).
NothingTwice ==
  \A i, j \in 1 .. Len(list) : i # j => ~IsEqual(list[i], list[j])

===============================================================================
