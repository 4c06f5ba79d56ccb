---------------------------- MODULE RelayIdentity -----------------------------
(***************************************************************************)
(* How players get their virtual addresses from the relay server: a client *)
(* asks for an identity in a room ("GXWHO room"), from a socket opened for *)
(* the question, and registers under the answer from its game port, again  *)
(* and again.  RelayServer composed with Transport's side of the protocol  *)
(* and the server's table of assigned addresses.                           *)
(*                                                                         *)
(* A client is known by the endpoint of its game port.  An answer can be   *)
(* lost, and so can every registration; what arrives does so at once.      *)
(***************************************************************************)
EXTENDS RelayServer

CONSTANTS
  OldSocket,   \* a socket that was closed after asking
  NoRoom,      \* not asking
  Timely       \* whether a client is heard of within the timeout

\* The addresses the server hands out.
Pool == 1 .. MEMBERS_PER_ROOM

ASSUME PoolAssumption == Pool \subseteq Ids /\ NoRoom \notin Rooms
ASSUME SocketsAssumption == OldSocket \notin Endpoints \cup {Nobody}
ASSUME TimelyAssumption == Timely \in BOOLEAN

VARIABLES
  assigned,  \* per room, who each address was assigned to, and how long ago
             \* he asked last: his socket is his client's until it is closed
  pinned,    \* s_assignedRoom and s_assignedVirtualIP of each client
  asking     \* the room each client is asking about

vars == <<relay, assigned, pinned, asking>>

Assignment == [socket : Endpoints \cup {OldSocket, Nobody}, age : Ages]
Free == [socket |-> Nobody, age |-> 0]

-------------------------------------------------------------------------------
(* The server: assignIdentity.                                               *)

InUse(table, r) == {i \in Pool : table[r][i].socket # Nobody}

\* evictWeakestAssignment: first a room nobody is in, then the quietest.
WeakerAssignment(r, t) ==
  LET joined(x) == x \in relay.rooms
      asked(x, a) == \E i \in InUse(assigned, x) : assigned[x][i].age <= a
  IN  \/ ~joined(r) /\ joined(t)
      \/ joined(r) = joined(t) /\ \E a \in Ages : asked(t, a) /\ ~asked(r, a)

\* The tables with space for one of room r.
WithSpaceFor(r) ==
  LET tables == {t \in Rooms : InUse(assigned, t) # {}}
  IN  IF r \in tables \/ Cardinality(tables) < MAX_ROOMS THEN {assigned}
      ELSE {[assigned EXCEPT ![w] = [i \in Pool |-> Free]] :
              w \in {t \in tables : \A u \in tables : ~WeakerAssignment(u, t)}}

\* Faulty variant: an address is free if it is not registered.
UnregisteredIds(table, r) == {i \in Pool : <<r, i>> \notin relay.members}

\* Neither handed out nor registered, by hand or otherwise.
FreeIds(table, r) ==
  {i \in Pool : table[r][i].socket = Nobody /\ <<r, i>> \notin relay.members}

Least(free) == {i \in free : \A j \in free : i <= j}

\* Faulty variant: every question gets an address of its own.
NewEachTime(table, r, socket) == Least(FreeIds(table, r))

\* The address for a socket: the one it has, or the first that is free, if any.
Answers(table, r, socket) ==
  LET own == {i \in Pool : table[r][i].socket = socket}
  IN  IF own # {} THEN own ELSE Least(FreeIds(table, r))

-------------------------------------------------------------------------------
(* A client.                                                                 *)

\* enterRelayRoom: c asks about r, from a new socket.
Ask(c, r) ==
  /\ asking[c] = NoRoom
  /\ asking' = [asking EXCEPT ![c] = r]
  /\ UNCHANGED <<relay, assigned, pinned>>

Closed(table, c) ==
  [r \in Rooms |-> [i \in Pool |->
     IF table[r][i].socket = c THEN [table[r][i] EXCEPT !.socket = OldSocket]
     ELSE table[r][i]]]

Assign(table, r, i, c) == [table EXCEPT ![r][i] = [socket |-> c, age |-> 0]]

\* The question arrives and so does the answer: c is i in its room from now on.
Answered(c) ==
  \E table \in WithSpaceFor(asking[c]), i \in Pool :
    /\ asking[c] # NoRoom
    /\ i \in Answers(table, asking[c], c)
    /\ assigned' = Closed(Assign(table, asking[c], i, c), c)
    /\ pinned' = [pinned EXCEPT ![c] = <<asking[c], i>>]
    /\ asking' = [asking EXCEPT ![c] = NoRoom]
    /\ UNCHANGED relay

\* The question arrives, and the answer is lost or there is no address free.
AskedInVain(c) ==
  \E table \in WithSpaceFor(asking[c]) :
    LET is == Answers(table, asking[c], c)
    IN  /\ asking[c] # NoRoom
        /\ assigned' \in IF is = {} THEN {table}
                         ELSE {Assign(table, asking[c], i, c) : i \in is}
        /\ UNCHANGED <<relay, pinned, asking>>

\* Five questions remained unanswered: c asks again from another socket.  In
\* between it is who it was.
AskAgain(c) ==
  /\ asking[c] # NoRoom
  /\ assigned' = Closed(assigned, c)
  /\ UNCHANGED <<relay, pinned, asking>>

\* sendRelayRegistration, on entering a room and every few seconds.
Announce(c) ==
  /\ pinned[c] # NoMember
  /\ Register(c, pinned[c])
  /\ UNCHANGED <<assigned, pinned, asking>>

\* The program ends, or the player goes back to the main menu.
Close(c) ==
  /\ pinned[c] # NoMember
  /\ asking[c] = NoRoom
  /\ pinned' = [pinned EXCEPT ![c] = NoMember]
  /\ UNCHANGED <<relay, assigned, asking>>

-------------------------------------------------------------------------------
(* Time.                                                                     *)

\* Faulty variant: addresses are never released.
NothingReleased(table) == table

\* The sweep of the addresses.
Released(table) ==
  [r \in Rooms |-> [i \in Pool |->
     IF table[r][i].age > MEMBER_TIMEOUT THEN Free ELSE table[r][i]]]

Aged(table) ==
  [r \in Rooms |-> [i \in Pool |->
     IF table[r][i].socket # Nobody /\ table[r][i].age <= MEMBER_TIMEOUT
     THEN [table[r][i] EXCEPT !.age = @ + 1] ELSE table[r][i]]]

SweepAll ==
  /\ Sweep
  /\ assigned' = Released(assigned)
  /\ UNCHANGED <<pinned, asking>>

\* A client that has an address is heard of in time: after it was assigned, and
\* then after it was last registered.
HeardInTime(c) ==
  LET m == pinned[c] IN
  m # NoMember => \/ m \in relay.members /\ relay.at[m] = c
                     /\ relay.age[m] < MEMBER_TIMEOUT
                  \/ /\ m[2] \in Pool
                     /\ assigned[m[1]][m[2]].socket # Nobody
                     /\ assigned[m[1]][m[2]].age < MEMBER_TIMEOUT

TickAll ==
  /\ Timely => \A c \in Endpoints : HeardInTime(c)
  /\ Tick
  /\ assigned' = Aged(assigned)
  /\ UNCHANGED <<pinned, asking>>

-------------------------------------------------------------------------------
IdentityInit ==
  /\ Init
  /\ assigned = [r \in Rooms |-> [i \in Pool |-> Free]]
  /\ pinned = [c \in Endpoints |-> NoMember]
  /\ asking = [c \in Endpoints |-> NoRoom]

IdentityNext ==
  \/ \E c \in Endpoints : \/ \E r \in Rooms : Ask(c, r)
                          \/ Answered(c)
                          \/ AskedInVain(c)
                          \/ AskAgain(c)
                          \/ Announce(c)
                          \/ Close(c)
  \/ SweepAll
  \/ TickAll

IdentitySpec == IdentityInit /\ [][IdentityNext]_vars

(***************************************************************************)
(* Time goes on and the server sweeps; a client that has an address        *)
(* registers; of a client's questions some are answered, if they can be.   *)
(***************************************************************************)
Fairness ==
  /\ WF_vars(SweepAll)
  /\ WF_vars(TickAll)
  /\ \A c \in Endpoints : WF_vars(Announce(c)) /\ SF_vars(Answered(c))

FairIdentitySpec == IdentitySpec /\ Fairness

-------------------------------------------------------------------------------
(* Properties.                                                               *)

\* The tables are what they are declared to be, and a socket has one address in
\* a room however often it asks ("sticky per endpoint", relay.js).
IdentityTypeOK ==
  /\ relay \in Relays
  /\ assigned \in [Rooms -> [Pool -> Assignment]]
  /\ pinned \in [Endpoints -> Members \cup {NoMember}]
  /\ asking \in [Endpoints -> Rooms \cup {NoRoom}]
  /\ \A r \in Rooms : \A i, j \in Pool :
       i # j /\ assigned[r][i].socket \in Endpoints =>
         assigned[r][i].socket # assigned[r][j].socket

\* No two clients are the same address in a room.  Such clients take each other
\* for themselves and are one member whose address keeps changing; "letting the
\* relay assign addresses avoids the problem entirely" (README.md of the relay).
NoSharedIdentity ==
  \A c, d \in Endpoints :
    c # d /\ pinned[c] # NoMember => pinned[c] # pinned[d]

\* Who asks and has no address gets one in the end, although questions and
\* answers are lost and each question from a new socket may use up an address:
\* those of clients that went away are released ("or the address space leaks
\* and a room stops accepting anyone long after it emptied", relay.js).  Who has
\* one may ask in vain: its own address counts as another's when all are taken.
AskersGetIn ==
  \A c \in Endpoints :
    asking[c] # NoRoom /\ pinned[c] = NoMember ~> asking[c] = NoRoom

===============================================================================
