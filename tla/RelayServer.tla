----------------------------- MODULE RelayServer ------------------------------
(***************************************************************************)
(* The relay server (tools/relay/relay.js), by which players who cannot    *)
(* reach each other exchange their datagrams, and the list of games.  An   *)
(* endpoint (address and port) registers in a room under a virtual         *)
(* address, its id.  The server keeps, per port it listens on, two tables  *)
(* of the same members: by room and id, and by endpoint, since a game      *)
(* datagram says neither its room nor its sender.  Members who fall silent *)
(* are swept, and a full table of rooms gives up its weakest room.         *)
(*                                                                         *)
(* A datagram is handled at once, as the server has one thread.  Time is   *)
(* counted in ticks: `age' is how long ago something was last seen, up to  *)
(* the age at which the sweep takes it.                                    *)
(***************************************************************************)
EXTENDS Integers, FiniteSets

CONSTANTS
  Rooms,            \* the names of rooms the clients may use
  Ids,              \* the virtual addresses
  Endpoints,        \* where datagrams come from
  Nobody,           \* no endpoint
  NoMember,         \* no member
  MAX_ROOMS,
  MEMBERS_PER_ROOM,
  MEMBER_TIMEOUT,   \* in ticks, as the next
  ADVERT_TIMEOUT

ASSUME NothingAssumption ==
  Nobody \notin Endpoints /\ NoMember \notin Rooms \X Ids
ASSUME FiniteAssumption == IsFiniteSet(Rooms) /\ IsFiniteSet(Ids)
ASSUME CeilingsAssumption ==
  MAX_ROOMS \in Nat \ {0} /\ MEMBERS_PER_ROOM \in Nat \ {0}
ASSUME TimeoutsAssumption == MEMBER_TIMEOUT \in Nat /\ ADVERT_TIMEOUT \in Nat

Members == Rooms \X Ids
Ages == 0 .. MEMBER_TIMEOUT + 1
AdvertAges == 0 .. ADVERT_TIMEOUT + 1

VARIABLE
  relay      \* the tables of one port of the server, a record:
             \*   rooms       the names in the table `rooms'
             \*   members     who is in their maps, as <<room, id>>
             \*   at, age     address and lastSeen of a member
             \*   byEndpoint  the member an endpoint is
             \*   advert, advertAge  who lists a room, and when he last did

Relays ==
  [rooms : SUBSET Rooms, members : SUBSET Members,
   at : [Members -> Endpoints \cup {Nobody}], age : [Members -> Ages],
   byEndpoint : [Endpoints -> Members \cup {NoMember}],
   advert : [Rooms -> Endpoints \cup {Nobody}],
   advertAge : [Rooms -> AdvertAges]]

MembersOf(s, r) == {m \in s.members : m[1] = r}

-------------------------------------------------------------------------------
(* Leaving.                                                                  *)

\* Faulty variant: an emptied room stays in the table.
RoomsKept(s, gone) == {}

\* The rooms that are empty without those who go.
Emptied(s, gone) ==
  {r \in s.rooms : /\ \E m \in gone : m[1] = r
                   /\ MembersOf(s, r) \subseteq gone}

\* drop, for each of `gone': an endpoint is forgotten by its own member only
\* (forgetEndpoint), an emptied room and its listing are removed.
Drop(s, gone) ==
  [rooms |-> s.rooms \ Emptied(s, gone),
   members |-> s.members \ gone,
   at |-> [m \in Members |-> IF m \in gone THEN Nobody ELSE s.at[m]],
   age |-> [m \in Members |-> IF m \in gone THEN 0 ELSE s.age[m]],
   byEndpoint |-> [k \in Endpoints |->
                     IF s.byEndpoint[k] \in gone /\ s.at[s.byEndpoint[k]] = k
                     THEN NoMember ELSE s.byEndpoint[k]],
   advert |-> [r \in Rooms |->
                 IF r \in Emptied(s, gone) THEN Nobody ELSE s.advert[r]],
   advertAge |-> [r \in Rooms |->
                    IF r \in Emptied(s, gone) THEN 0 ELSE s.advertAge[r]]]

\* A room is weaker than another with fewer members, or as many and quieter.
Weaker(s, r, t) ==
  LET size(x) == Cardinality(MembersOf(s, x))
      seen(x, a) == \E m \in MembersOf(s, x) : s.age[m] <= a
  IN  \/ size(r) < size(t)
      \/ size(r) = size(t) /\ \E a \in Ages : seen(t, a) /\ ~seen(r, a)

\* Faulty variant: any room is given up, such as the first of the table.
AnyRoom(s) == s.rooms

\* evictWeakestRoom: of equally weak rooms, the first of the table's order.
Weakest(s) == {r \in s.rooms : \A t \in s.rooms : ~Weaker(s, t, r)}

Evict(s, r) ==
  [Drop(s, MembersOf(s, r)) EXCEPT !.rooms = @ \ {r}, !.advert[r] = Nobody]

-------------------------------------------------------------------------------
(* Registering.                                                              *)

\* The tables with space for room r.
WithSpace(s, r) ==
  IF r \in s.rooms \/ Cardinality(s.rooms) < MAX_ROOMS THEN {s}
  ELSE {Evict(s, w) : w \in Weakest(s)}

\* Faulty variant: one member too many.
OneMore(s, m) ==
  m \notin s.members /\ Cardinality(MembersOf(s, m[1])) > MEMBERS_PER_ROOM

\* A full room refuses who is new to it.
Refused(s, m) ==
  m \notin s.members /\ Cardinality(MembersOf(s, m[1])) >= MEMBERS_PER_ROOM

\* A new member enters its room, an old one that moved forgets its endpoint.
Entered(s, m, k) ==
  IF m \notin s.members
  THEN [s EXCEPT !.members = @ \cup {m}, !.rooms = @ \cup {m[1]}]
  ELSE IF s.at[m] = k THEN s
  ELSE [s EXCEPT !.byEndpoint =
          [j \in Endpoints |-> IF j = s.at[m] /\ @[j] = m THEN NoMember ELSE @[j]]]

\* Faulty variant: an endpoint that registers elsewhere stays where it was.
StillThere(s, m, k) == s

\* One endpoint, one room: who it was before leaves.
PriorLeft(s, m, k) ==
  IF s.byEndpoint[k] \in {NoMember, m} THEN s ELSE Drop(s, {s.byEndpoint[k]})

Settled(s, m, k) ==
  [s EXCEPT !.at[m] = k, !.age[m] = 0, !.byEndpoint[k] = m,
            !.rooms = @ \cup {m[1]}]

\* register: a datagram "GXRLY room id" from endpoint k, with m = <<room, id>>.
Registered(s, m, k) ==
  IF Refused(s, m) THEN s ELSE Settled(PriorLeft(Entered(s, m, k), m, k), m, k)

Register(k, m) ==
  \E s \in WithSpace(relay, m[1]) : relay' = Registered(s, m, k)

-------------------------------------------------------------------------------
(* Listing a game, game traffic, time.                                       *)

\* Whether endpoint k is registered in room r.
IsIn(s, k, r) == s.byEndpoint[k] # NoMember /\ s.byEndpoint[k][1] = r

\* Faulty variant: a listing belongs to whoever advertised last.
NeverHeld(s, k, r) == FALSE

\* The listing of room r is held by another endpoint that is there.
Held(s, k, r) ==
  /\ s.advert[r] \notin {k, Nobody}
  /\ IsIn(s, s.advert[r], r)
  /\ s.advertAge[r] <= ADVERT_TIMEOUT

\* advertise: a datagram "GXADV room ..." from endpoint k.
Advertise(k, r) ==
  /\ IsIn(relay, k, r)
  /\ ~Held(relay, k, r)
  /\ relay' = [relay EXCEPT !.advert[r] = k, !.advertAge[r] = 0]

\* forward: who a game datagram from k is copied to, if it is a broadcast.
Recipients(s, k) ==
  IF s.byEndpoint[k] = NoMember THEN {}
  ELSE {s.at[m] : m \in MembersOf(s, s.byEndpoint[k][1]) \ {s.byEndpoint[k]}}
         \ {Nobody}

\* forward, as far as it changes the tables: it is a sign of life.
Forward(k) ==
  /\ relay.byEndpoint[k] # NoMember
  /\ relay' = [relay EXCEPT !.age[relay.byEndpoint[k]] = 0]

Older(ages, limit) == [x \in DOMAIN ages |->
                         IF ages[x] <= limit THEN ages[x] + 1 ELSE ages[x]]

\* The members not heard of for longer than the timeout.
Silent(s) == {m \in s.members : s.age[m] > MEMBER_TIMEOUT}

Swept(s) ==
  LET t == Drop(s, Silent(s))
      kept(r) == t.advert[r] # Nobody /\ t.advertAge[r] <= ADVERT_TIMEOUT
  IN  [t EXCEPT !.rooms = {r \in @ : MembersOf(t, r) # {}},
                !.advert = [r \in Rooms |-> IF kept(r) THEN @[r] ELSE Nobody],
                !.advertAge = [r \in Rooms |-> IF kept(r) THEN @[r] ELSE 0]]

\* The sweep, every few seconds: so at any time, as far as it is modelled.
Sweep == relay' = Swept(relay)

\* Time goes on: what is in the tables ages.
Tick ==
  relay' = [relay EXCEPT
    !.age = [m \in Members |->
               IF m \in relay.members THEN Older(@, MEMBER_TIMEOUT)[m] ELSE 0],
    !.advertAge = [r \in Rooms |->
               IF relay.advert[r] # Nobody THEN Older(@, ADVERT_TIMEOUT)[r] ELSE 0]]

-------------------------------------------------------------------------------
Empty ==
  [rooms |-> {}, members |-> {}, at |-> [m \in Members |-> Nobody],
   age |-> [m \in Members |-> 0],
   byEndpoint |-> [k \in Endpoints |-> NoMember],
   advert |-> [r \in Rooms |-> Nobody], advertAge |-> [r \in Rooms |-> 0]]

Init == relay = Empty

Next ==
  \/ \E k \in Endpoints, m \in Members : Register(k, m)
  \/ \E k \in Endpoints, r \in Rooms : Advertise(k, r)
  \/ \E k \in Endpoints : Forward(k)
  \/ Sweep
  \/ Tick

Spec == Init /\ [][Next]_relay

-------------------------------------------------------------------------------
(* Properties.                                                               *)

WithinCeilings(s) ==
  /\ Cardinality(s.rooms) <= MAX_ROOMS
  /\ \A r \in Rooms : Cardinality(MembersOf(s, r)) <= MEMBERS_PER_ROOM

\* The tables are what they are declared to be, and within their ceilings.
TypeOK == relay \in Relays /\ WithinCeilings(relay)

\* The two tables hold the same members: each is found under his endpoint and
\* an endpoint finds a member who is there.
SameMembers(s) ==
  /\ \A m \in s.members : s.at[m] \in Endpoints /\ s.byEndpoint[s.at[m]] = m
  /\ \A k \in Endpoints : s.byEndpoint[k] # NoMember =>
       s.byEndpoint[k] \in s.members /\ s.at[s.byEndpoint[k]] = k

\* A room is in the table while it has members, and listed only then ("it also
\* makes `adverts' a subset of `rooms'", relay.js).
RoomsHaveMembers(s) ==
  /\ s.rooms = {m[1] : m \in s.members}
  /\ \A r \in Rooms : s.advert[r] # Nobody => r \in s.rooms

\* The tables agree, whatever is registered from where, moves, falls silent or
\* is given up.  What is at stake is a member left behind in one table, who
\* shadows another in a game or holds a room for good.
TablesAgree == SameMembers(relay) /\ RoomsHaveMembers(relay)

\* Players hear each other or not at all, and nobody hears himself: the server
\* copies the datagrams of one to the other if it does so the other way.
HearEachOther ==
  \A j, k \in Endpoints :
    j \in Recipients(relay, k) => j # k /\ k \in Recipients(relay, j)

\* No member heard of in time goes, except who is registered elsewhere by his
\* endpoint, whose id is registered from elsewhere, or whose room is given up for
\* a new one when the table is full and no room has fewer members.
OnlyTheUnheardGo ==
  \A m \in relay.members :
    LET k == relay.at[m] IN
    relay.age[m] <= MEMBER_TIMEOUT /\ relay'.byEndpoint[k] # m =>
      \/ relay'.byEndpoint[k] # NoMember
      \/ m \in relay'.members
      \/ /\ Cardinality(relay.rooms) = MAX_ROOMS
         /\ m[1] \notin relay'.rooms
         /\ relay'.rooms \ relay.rooms # {}
         /\ \A r \in relay.rooms :
              Cardinality(MembersOf(relay, r)) >=
                Cardinality(MembersOf(relay, m[1]))

\* The owner of a listing is its owner as long as he is in time and in the room,
\* under whatever id.
OwnersKeepListings ==
  \A r \in Rooms :
    LET k == relay.advert[r] IN
    (/\ k # Nobody
     /\ relay.advertAge[r] <= ADVERT_TIMEOUT
     /\ IsIn(relay, k, r)
     /\ IsIn(relay', k, r)) => relay'.advert[r] = k

\* No step takes away a member that was heard of in time ("a room with players
\* in it is never the candidate while a room somebody named once and never
\* returned to exists", README of the relay).
KeepsWhoIsHeard == [][OnlyTheUnheardGo]_relay

\* No step gives a listing to another, or loses it, while its owner advertises
\* in time and stays in the room ("it may not take a listing away from a live
\* owner", relay.js).
ListingIsHeld == [][OwnersKeepListings]_relay

===============================================================================
