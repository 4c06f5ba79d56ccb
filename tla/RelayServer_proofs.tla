-------------------------- MODULE RelayServer_proofs --------------------------
(***************************************************************************)
(* Proofs about the relay server, for any rooms, addresses and endpoints,  *)
(* and any ceilings and timeouts, and about the addresses it hands out.    *)
(*                                                                         *)
(* The invariant of the server is that the tables are well formed, agree   *)
(* and are within their ceilings.  A registration goes through tables that *)
(* do not agree about the member that registers: Agree(s, X) says that     *)
(* they do about all members but X, and each step of the registration is a *)
(* lemma.                                                                  *)
(*                                                                         *)
(* The composition with the clients (RelayIdentity) behaves, on the        *)
(* server's tables, as the server does, so what is shown of these holds in *)
(* it.  That no two clients are the same address rests on two facts: an    *)
(* address in use is backed by a registration or an assignment that is not *)
(* yet to be swept, and one that is handed to an open socket is nobody's   *)
(* yet.                                                                    *)
(***************************************************************************)
EXTENDS RelayIdentity, FiniteSetTheorems, TLAPS

Agree(s, X) ==
  /\ \A m \in s.members \ X :
       s.at[m] \in Endpoints /\ s.byEndpoint[s.at[m]] = m
  /\ \A k \in Endpoints : s.byEndpoint[k] # NoMember =>
       s.byEndpoint[k] \in s.members /\ s.at[s.byEndpoint[k]] = k
  /\ RoomsHaveMembers(s)

Good(s) == s \in Relays /\ Agree(s, {}) /\ WithinCeilings(s)

\* Where the tables agree about everybody, they are as the property says.
LEMMA AgreeMeans ==
  ASSUME NEW s, s \in Relays
  PROVE  Agree(s, {}) <=> SameMembers(s) /\ RoomsHaveMembers(s)
BY DEF Agree, SameMembers

-------------------------------------------------------------------------------
(* Leaving.                                                                  *)

\* Who leaves is well formed again.
LEMMA DropType ==
  ASSUME NEW s \in Relays, NEW gone \in SUBSET s.members
  PROVE  Drop(s, gone) \in Relays
<1>1. s.byEndpoint \in [Endpoints -> Members \cup {NoMember}]
  BY DEF Relays
<1>2. 0 \in Ages /\ 0 \in AdvertAges
  BY TimeoutsAssumption DEF Ages, AdvertAges
<1> QED BY <1>1, <1>2 DEF Drop, Relays

\* The rooms left after some leave are those that have members.
LEMMA DropRooms ==
  ASSUME NEW s \in Relays, RoomsHaveMembers(s), NEW gone \in SUBSET s.members
  PROVE  RoomsHaveMembers(Drop(s, gone))
<1> DEFINE t == Drop(s, gone)
<1>1. t.rooms = s.rooms \ Emptied(s, gone) /\ t.members = s.members \ gone
  BY DEF Drop
<1>2. s.rooms = {m[1] : m \in s.members}
  BY DEF RoomsHaveMembers
<1>3. ASSUME NEW r \in t.rooms PROVE r \in {m[1] : m \in t.members}
  <2>1. PICK m \in s.members : m[1] = r
    BY <1>1, <1>2, <1>3
  <2>2. CASE m \notin gone
    BY <1>1, <2>1, <2>2
  <2>3. CASE m \in gone
    <3>1. ~(MembersOf(s, r) \subseteq gone)
      BY <1>1, <1>3, <2>1, <2>3 DEF Emptied
    <3> QED BY <1>1, <3>1 DEF MembersOf
  <2> QED BY <2>2, <2>3
<1>4. ASSUME NEW m \in t.members PROVE m[1] \in t.rooms
  <2>1. m \in s.members /\ m \notin gone /\ m[1] \in s.rooms
    BY <1>1, <1>2, <1>4
  <2>2. m[1] \notin Emptied(s, gone)
    BY <2>1 DEF Emptied, MembersOf
  <2> QED BY <1>1, <2>1, <2>2
<1>5. t.rooms = {m[1] : m \in t.members}
  BY <1>3, <1>4
<1>6. ASSUME NEW r \in Rooms, t.advert[r] # Nobody PROVE r \in t.rooms
  BY <1>1, <1>6 DEF Drop, RoomsHaveMembers
<1> QED BY <1>5, <1>6 DEF RoomsHaveMembers

\* Tables that agree about all but X do so when others leave.
LEMMA DropAgree ==
  ASSUME NEW s \in Relays, NEW X, Agree(s, X), NEW gone \in SUBSET s.members
  PROVE  Agree(Drop(s, gone), X)
<1> DEFINE t == Drop(s, gone)
<1>1. s.byEndpoint \in [Endpoints -> Members \cup {NoMember}]
      /\ s.at \in [Members -> Endpoints \cup {Nobody}] /\ s.members \subseteq Members
  BY DEF Relays
<1>2. ASSUME NEW m \in t.members \ X
      PROVE  t.at[m] \in Endpoints /\ t.byEndpoint[t.at[m]] = m
  <2>1. m \in s.members \ X /\ m \notin gone /\ m \in Members
    BY <1>1, <1>2 DEF Drop
  <2>2. s.at[m] \in Endpoints /\ s.byEndpoint[s.at[m]] = m
    BY <2>1 DEF Agree
  <2>3. t.at[m] = s.at[m]
    BY <2>1 DEF Drop
  <2> QED BY <2>1, <2>2, <2>3 DEF Drop
<1>3. ASSUME NEW k \in Endpoints, t.byEndpoint[k] # NoMember
      PROVE  t.byEndpoint[k] \in t.members /\ t.at[t.byEndpoint[k]] = k
  <2>1. t.byEndpoint[k] = s.byEndpoint[k]
        /\ ~(s.byEndpoint[k] \in gone /\ s.at[s.byEndpoint[k]] = k)
    BY <1>3 DEF Drop
  <2>2. s.byEndpoint[k] \in s.members /\ s.at[s.byEndpoint[k]] = k
    BY <1>3, <2>1 DEF Agree
  <2>3. s.byEndpoint[k] \notin gone /\ s.byEndpoint[k] \in Members
    BY <1>1, <2>1, <2>2
  <2> QED BY <2>1, <2>2, <2>3 DEF Drop
<1>4. RoomsHaveMembers(t)
  BY DropRooms DEF Agree
<1> QED BY <1>2, <1>3, <1>4 DEF Agree

\* Nobody is over a ceiling by leaving.
LEMMA MembersFinite ==
  ASSUME NEW s \in Relays, NEW r
  PROVE  IsFiniteSet(MembersOf(s, r)) /\ IsFiniteSet(s.rooms)
<1>1. IsFiniteSet(Rooms \X Ids)
  BY FiniteAssumption, FS_Product
<1>2. MembersOf(s, r) \subseteq Rooms \X Ids /\ s.rooms \subseteq Rooms
  BY DEF MembersOf, Relays, Members
<1> QED BY <1>1, <1>2, FiniteAssumption, FS_Subset

LEMMA FewerAreWithin ==
  ASSUME NEW s \in Relays, NEW t \in Relays, WithinCeilings(s),
         t.rooms \subseteq s.rooms, t.members \subseteq s.members
  PROVE  WithinCeilings(t)
<1>1. ASSUME NEW r \in Rooms
      PROVE  Cardinality(MembersOf(t, r)) <= MEMBERS_PER_ROOM
  <2>1. MembersOf(t, r) \subseteq MembersOf(s, r)
    BY DEF MembersOf
  <2>2. Cardinality(MembersOf(t, r)) <= Cardinality(MembersOf(s, r))
        /\ Cardinality(MembersOf(t, r)) \in Nat
        /\ Cardinality(MembersOf(s, r)) \in Nat
    BY <2>1, MembersFinite, FS_Subset, FS_CardinalityType
  <2> QED BY <2>2, CeilingsAssumption DEF WithinCeilings
<1>2. Cardinality(t.rooms) <= MAX_ROOMS
  <2>1. Cardinality(t.rooms) <= Cardinality(s.rooms)
        /\ Cardinality(t.rooms) \in Nat /\ Cardinality(s.rooms) \in Nat
    BY MembersFinite, FS_Subset, FS_CardinalityType
  <2> QED BY <2>1, CeilingsAssumption DEF WithinCeilings
<1> QED BY <1>1, <1>2 DEF WithinCeilings

\* A room given up leaves good tables with one room less.
LEMMA EvictGood ==
  ASSUME NEW s \in Relays, Good(s), NEW w \in s.rooms
  PROVE  /\ Good(Evict(s, w))
         /\ Evict(s, w).rooms = s.rooms \ {w}
         /\ Evict(s, w).members = s.members \ MembersOf(s, w)
         /\ Cardinality(Evict(s, w).rooms) = Cardinality(s.rooms) - 1
<1> DEFINE gone == MembersOf(s, w)
           d == Drop(s, gone)
           t == Evict(s, w)
<1>1. gone \in SUBSET s.members
  BY DEF MembersOf
<1>2. d \in Relays /\ Agree(d, {})
  BY <1>1, DropType, DropAgree DEF Good
<1>3. Emptied(s, gone) = {w}
  <2>1. PICK m \in s.members : m[1] = w
    BY DEF Good, Agree, RoomsHaveMembers
  <2>2. w \in Emptied(s, gone)
    BY <2>1 DEF Emptied, MembersOf
  <2> QED BY <2>2 DEF Emptied, MembersOf
<1>4. d.rooms = s.rooms \ {w} /\ d.members = s.members \ gone
  BY <1>3 DEF Drop
<1>5. w \in Rooms /\ d.advert[w] = Nobody
  BY <1>3 DEF Drop, Relays
<1>6. t = [d EXCEPT !.rooms = @ \ {w}, !.advert[w] = Nobody]
  BY DEF Evict
<1>7. t.rooms = d.rooms /\ t.members = d.members /\ t.at = d.at
      /\ t.byEndpoint = d.byEndpoint /\ t.advert = d.advert
      /\ t \in Relays
  <2>1. d.advert \in [Rooms -> Endpoints \cup {Nobody}]
    BY <1>2 DEF Relays
  <2>2. [d.advert EXCEPT ![w] = Nobody] = d.advert
    BY <1>5, <2>1
  <2>3. d.rooms \ {w} = d.rooms
    BY <1>4
  <2> QED BY <1>2, <1>6, <2>2, <2>3 DEF Relays
<1>8. Agree(t, {})
  BY <1>2, <1>7 DEF Agree, RoomsHaveMembers
<1>9. WithinCeilings(t)
  BY <1>1, <1>4, <1>7, FewerAreWithin DEF Good
<1>10. Cardinality(t.rooms) = Cardinality(s.rooms) - 1
  <2>1. t.rooms = s.rooms \ {w} /\ IsFiniteSet(s.rooms)
    BY <1>4, <1>7, MembersFinite
  <2> QED BY <2>1, FS_RemoveElement
<1> QED BY <1>4, <1>7, <1>8, <1>9, <1>10 DEF Good

\* There is space for the room afterwards.
LEMMA WithSpaceGood ==
  ASSUME NEW s \in Relays, Good(s), NEW r \in Rooms, NEW t \in WithSpace(s, r)
  PROVE  Good(t) /\ (r \in t.rooms \/ Cardinality(t.rooms) < MAX_ROOMS)
<1>1. CASE r \in s.rooms \/ Cardinality(s.rooms) < MAX_ROOMS
  BY <1>1 DEF WithSpace
<1>2. CASE ~(r \in s.rooms \/ Cardinality(s.rooms) < MAX_ROOMS)
  <2>1. PICK w \in s.rooms : t = Evict(s, w)
    BY <1>2 DEF WithSpace, Weakest
  <2>2. Cardinality(t.rooms) = Cardinality(s.rooms) - 1 /\ Good(t)
    BY <2>1, EvictGood
  <2>3. Cardinality(s.rooms) \in Nat /\ Cardinality(s.rooms) <= MAX_ROOMS
    BY MembersFinite, FS_CardinalityType DEF Good, WithinCeilings
  <2> QED BY <2>2, <2>3, CeilingsAssumption
<1> QED BY <1>1, <1>2

-------------------------------------------------------------------------------
(* Registering.                                                              *)

\* The member is in its room, at no endpoint but k.
LEMMA EnteredGood ==
  ASSUME NEW s \in Relays, Good(s), NEW m \in Members, NEW k \in Endpoints,
         ~Refused(s, m),
         m[1] \in s.rooms \/ Cardinality(s.rooms) < MAX_ROOMS
  PROVE  LET t == Entered(s, m, k)
         IN  /\ t \in Relays
             /\ Agree(t, {m})
             /\ WithinCeilings(t)
             /\ m \in t.members
             /\ \A j \in Endpoints : t.byEndpoint[j] = m => j = k
<1> DEFINE t == Entered(s, m, k)
<1>1. m[1] \in Rooms /\ m # NoMember
  BY NothingAssumption DEF Members
<1>2. CASE m \notin s.members
  <2> DEFINE more == s.members \cup {m}
             names == s.rooms \cup {m[1]}
  <2>0. more \in SUBSET Members /\ names \in SUBSET Rooms
    BY <1>1 DEF Relays
  <2>1. t = [s EXCEPT !.members = more, !.rooms = names]
    BY <1>2 DEF Entered
  <2> HIDE DEF more, names
  <2>11. /\ t.members = more /\ t.rooms = names
         /\ t.at = s.at /\ t.byEndpoint = s.byEndpoint /\ t.advert = s.advert
         /\ t \in Relays
    BY <2>0, <2>1 DEF Relays
  <2>2. /\ t.members = s.members \cup {m} /\ t.rooms = s.rooms \cup {m[1]}
        /\ t.at = s.at /\ t.byEndpoint = s.byEndpoint /\ t.advert = s.advert
        /\ t \in Relays
    BY <2>11 DEF more, names
  <2>3. RoomsHaveMembers(t)
    BY <2>2 DEF RoomsHaveMembers, Good, Agree
  <2>4. Agree(t, {m})
    BY <2>2, <2>3 DEF Good, Agree
  <2>5. \A j \in Endpoints : t.byEndpoint[j] # m
    BY <1>1, <1>2, <2>2 DEF Good, Agree
  <2>6. ASSUME NEW r \in Rooms
        PROVE  Cardinality(MembersOf(t, r)) <= MEMBERS_PER_ROOM
    <3>1. CASE r # m[1]
      <4>1. MembersOf(t, r) = MembersOf(s, r)
        BY <2>2, <3>1 DEF MembersOf
      <4> QED BY <4>1 DEF Good, WithinCeilings
    <3>2. CASE r = m[1]
      <4>1. MembersOf(t, r) = MembersOf(s, r) \cup {m} /\ m \notin MembersOf(s, r)
        BY <1>2, <2>2, <3>2 DEF MembersOf
      <4>2. Cardinality(MembersOf(t, r)) = Cardinality(MembersOf(s, r)) + 1
            /\ Cardinality(MembersOf(s, r)) \in Nat
        BY <4>1, MembersFinite, FS_AddElement, FS_CardinalityType
      <4>3. ~(Cardinality(MembersOf(s, r)) >= MEMBERS_PER_ROOM)
        BY <1>2, <3>2 DEF Refused
      <4> QED BY <4>2, <4>3, CeilingsAssumption
    <3> QED BY <3>1, <3>2
  <2>7. Cardinality(t.rooms) <= MAX_ROOMS
    <3>1. CASE m[1] \in s.rooms
      <4>1. t.rooms = s.rooms
        BY <2>2, <3>1
      <4> QED BY <4>1 DEF Good, WithinCeilings
    <3>2. CASE m[1] \notin s.rooms
      <4>1. Cardinality(t.rooms) = Cardinality(s.rooms) + 1
            /\ Cardinality(s.rooms) \in Nat
        BY <2>2, <3>2, MembersFinite, FS_AddElement, FS_CardinalityType
      <4>2. Cardinality(s.rooms) < MAX_ROOMS
        BY <3>2
      <4> QED BY <4>1, <4>2, CeilingsAssumption
    <3> QED BY <3>1, <3>2
  <2> QED BY <2>2, <2>4, <2>5, <2>6, <2>7 DEF WithinCeilings
<1>3. CASE m \in s.members /\ s.at[m] = k
  <2>1. t = s
    BY <1>3 DEF Entered
  <2>2. Agree(s, {m}) /\ \A j \in Endpoints : s.byEndpoint[j] = m => j = k
    BY <1>1, <1>3 DEF Good, Agree
  <2> QED BY <1>3, <2>1, <2>2 DEF Good
<1>4. CASE m \in s.members /\ s.at[m] # k
  <2> DEFINE left == [j \in Endpoints |->
               IF j = s.at[m] /\ s.byEndpoint[j] = m THEN NoMember
               ELSE s.byEndpoint[j]]
  <2>1. t = [s EXCEPT !.byEndpoint = left]
    BY <1>4 DEF Entered
  <2>2. /\ t.members = s.members /\ t.rooms = s.rooms /\ t.at = s.at
        /\ t.byEndpoint = left /\ t.advert = s.advert
    BY <2>1 DEF Relays
  <2>3. t \in Relays
    BY <2>1 DEF Relays
  <2>4. \A j \in Endpoints : left[j] # m
    BY <1>1 DEF Good, Agree
  <2>5. ASSUME NEW n \in t.members \ {m}
        PROVE  t.at[n] \in Endpoints /\ t.byEndpoint[t.at[n]] = n
    <3>1. s.at[n] \in Endpoints /\ s.byEndpoint[s.at[n]] = n /\ n # m
      BY <2>2, <2>5 DEF Good, Agree
    <3> QED BY <2>2, <3>1
  <2>6. ASSUME NEW j \in Endpoints, t.byEndpoint[j] # NoMember
        PROVE  t.byEndpoint[j] \in t.members /\ t.at[t.byEndpoint[j]] = j
    <3>1. t.byEndpoint[j] = s.byEndpoint[j]
      BY <2>2, <2>6
    <3> QED BY <2>2, <2>6, <3>1 DEF Good, Agree
  <2>7. RoomsHaveMembers(t)
    BY <2>2 DEF Good, Agree, RoomsHaveMembers
  <2>8. WithinCeilings(t)
    BY <2>2, <2>3, FewerAreWithin DEF Good
  <2>9. Agree(t, {m})
    BY <2>5, <2>6, <2>7 DEF Agree
  <2>10. m \in t.members /\ (\A j \in Endpoints : t.byEndpoint[j] = m => j = k)
    BY <1>4, <2>2, <2>4
  <2> QED BY <2>2, <2>3, <2>8, <2>9, <2>10
<1> QED BY <1>2, <1>3, <1>4

\* No room or listing goes, and no endpoint is forgotten but the member's.
LEMMA EnteredKeeps ==
  ASSUME NEW s \in Relays, Good(s), NEW m \in Members, NEW k \in Endpoints
  PROVE  LET t == Entered(s, m, k)
         IN  /\ t.rooms = s.rooms \cup {m[1]}
             /\ t.advert = s.advert
             /\ \A j \in Endpoints : t.byEndpoint[j] # s.byEndpoint[j] =>
                                       s.byEndpoint[j] = m
<1> DEFINE t == Entered(s, m, k)
<1>1. CASE m \notin s.members
  <2> DEFINE more == s.members \cup {m}
             names == s.rooms \cup {m[1]}
  <2>1. t = [s EXCEPT !.members = more, !.rooms = names]
    BY <1>1 DEF Entered
  <2> HIDE DEF more, names, t
  <2>2. t.rooms = names /\ t.advert = s.advert /\ t.byEndpoint = s.byEndpoint
    BY <2>1 DEF Relays
  <2> QED BY <2>2 DEF names, t
<1>2. CASE m \in s.members
  <2>1. m[1] \in s.rooms
    BY <1>2 DEF Good, Agree, RoomsHaveMembers
  <2>2. t.rooms = s.rooms /\ t.advert = s.advert
    BY <1>2 DEF Entered, Relays
  <2>3. \A j \in Endpoints : t.byEndpoint[j] # s.byEndpoint[j] =>
                               s.byEndpoint[j] = m
    BY <1>2 DEF Entered, Relays
  <2> QED BY <2>1, <2>2, <2>3
<1> QED BY <1>1, <1>2

\* Who the endpoint was before has left, and nobody else.
LEMMA PriorLeftGood ==
  ASSUME NEW s \in Relays, NEW m \in s.members, NEW k \in Endpoints,
         Agree(s, {m}), WithinCeilings(s),
         \A j \in Endpoints : s.byEndpoint[j] = m => j = k
  PROVE  LET t == PriorLeft(s, m, k)
         IN  /\ t \in Relays
             /\ Agree(t, {m})
             /\ WithinCeilings(t)
             /\ m \in t.members /\ m[1] \in t.rooms
             /\ t.byEndpoint[k] \in {NoMember, m}
             /\ \A j \in Endpoints : j # k => t.byEndpoint[j] = s.byEndpoint[j]
             /\ \A j \in Endpoints : t.byEndpoint[j] = m => j = k
             /\ \A r \in Rooms : t.advert[r] # s.advert[r] => r \notin t.rooms
             /\ t.rooms \subseteq s.rooms
<1> DEFINE t == PriorLeft(s, m, k)
<1>1. CASE s.byEndpoint[k] \in {NoMember, m}
  <2>1. t = s
    BY <1>1 DEF PriorLeft
  <2> QED BY <1>1, <2>1 DEF Agree, RoomsHaveMembers
<1>2. CASE s.byEndpoint[k] \notin {NoMember, m}
  <2> DEFINE p == s.byEndpoint[k]
  <2>1. t = Drop(s, {p}) /\ p \in s.members /\ p # m /\ s.at[p] = k
    BY <1>2 DEF PriorLeft, Agree
  <2>2. t \in Relays /\ Agree(t, {m})
    BY <2>1, DropType, DropAgree
  <2>3. t.rooms \subseteq s.rooms /\ t.members = s.members \ {p}
    BY <2>1 DEF Drop
  <2>4. WithinCeilings(t)
    BY <2>2, <2>3, FewerAreWithin
  <2>5. m \in t.members /\ m[1] \in t.rooms
    BY <2>1, <2>2, <2>3 DEF Agree, RoomsHaveMembers
  <2>6. t.byEndpoint = [j \in Endpoints |->
          IF s.byEndpoint[j] \in {p} /\ s.at[s.byEndpoint[j]] = j
          THEN NoMember ELSE s.byEndpoint[j]]
    BY <2>1 DEF Drop
  <2>7. t.byEndpoint[k] = NoMember
    BY <2>1, <2>6
  <2>8. ASSUME NEW j \in Endpoints, j # k
        PROVE  t.byEndpoint[j] = s.byEndpoint[j]
    <3>1. ~(s.byEndpoint[j] \in {p} /\ s.at[s.byEndpoint[j]] = j)
      BY <2>1, <2>8
    <3> QED BY <2>6, <3>1
  <2>9. \A j \in Endpoints : t.byEndpoint[j] = m => j = k
    BY <2>8
  <2>10. ASSUME NEW r \in Rooms, t.advert[r] # s.advert[r]
         PROVE  r \notin t.rooms
    BY <2>1, <2>10 DEF Drop
  <2> QED BY <2>2, <2>3, <2>4, <2>5, <2>7, <2>8, <2>9, <2>10
<1> QED BY <1>1, <1>2

\* The member has its endpoint, and the tables agree about it as well.
LEMMA SettledGood ==
  ASSUME NEW s \in Relays, NEW m \in s.members, NEW k \in Endpoints,
         Agree(s, {m}), WithinCeilings(s), m[1] \in s.rooms,
         s.byEndpoint[k] \in {NoMember, m},
         \A j \in Endpoints : s.byEndpoint[j] = m => j = k
  PROVE  LET t == Settled(s, m, k)
         IN  /\ Good(t)
             /\ t.rooms = s.rooms /\ t.members = s.members
             /\ t.advert = s.advert
             /\ t.byEndpoint = [s.byEndpoint EXCEPT ![k] = m]
             /\ t.at = [s.at EXCEPT ![m] = k]
<1> DEFINE t == Settled(s, m, k)
           names == s.rooms \cup {m[1]}
<1>1. m \in Members /\ 0 \in Ages
  BY TimeoutsAssumption DEF Relays, Ages
<1>2. t = [s EXCEPT !.at[m] = k, !.age[m] = 0, !.byEndpoint[k] = m,
                    !.rooms = names]
  BY DEF Settled
<1>3. names = s.rooms
  OBVIOUS
<1> HIDE DEF names
<1>4. /\ t.rooms = s.rooms /\ t.members = s.members /\ t.advert = s.advert
      /\ t.byEndpoint = [s.byEndpoint EXCEPT ![k] = m]
      /\ t.at = [s.at EXCEPT ![m] = k]
      /\ t \in Relays
  <2> DEFINE ats == [s.at EXCEPT ![m] = k]
             ages == [s.age EXCEPT ![m] = 0]
             whos == [s.byEndpoint EXCEPT ![k] = m]
  <2>1. /\ ats \in [Members -> Endpoints \cup {Nobody}]
        /\ ages \in [Members -> Ages]
        /\ whos \in [Endpoints -> Members \cup {NoMember}]
    BY <1>1 DEF Relays
  <2>2. t = [s EXCEPT !.at = ats, !.age = ages, !.byEndpoint = whos,
                      !.rooms = names]
    BY <1>2
  <2>3. names \in SUBSET Rooms
    BY <1>3 DEF Relays
  <2> HIDE DEF ats, ages, whos, t
  <2>4. /\ t.rooms = names /\ t.members = s.members /\ t.advert = s.advert
        /\ t.byEndpoint = whos /\ t.at = ats /\ t \in Relays
    BY <2>1, <2>2, <2>3 DEF Relays
  <2> QED BY <1>3, <2>4 DEF ats, whos
<1>5. ASSUME NEW n \in t.members
      PROVE  t.at[n] \in Endpoints /\ t.byEndpoint[t.at[n]] = n
  <2>1. CASE n = m
    BY <1>1, <1>4, <2>1 DEF Relays
  <2>2. CASE n # m
    <3>1. s.at[n] \in Endpoints /\ s.byEndpoint[s.at[n]] = n /\ n \in Members
      BY <1>4, <1>5, <2>2 DEF Agree, Relays
    <3>2. n # NoMember
      BY <3>1, NothingAssumption DEF Members
    <3>3. s.at[n] # k
      BY <2>2, <3>1, <3>2
    <3> QED BY <1>4, <2>2, <3>1, <3>3 DEF Relays
  <2> QED BY <2>1, <2>2
<1>6. ASSUME NEW j \in Endpoints, t.byEndpoint[j] # NoMember
      PROVE  t.byEndpoint[j] \in t.members /\ t.at[t.byEndpoint[j]] = j
  <2>1. CASE j = k
    BY <1>1, <1>4, <2>1 DEF Relays
  <2>2. CASE j # k
    <3>1. t.byEndpoint[j] = s.byEndpoint[j]
      BY <1>4, <2>2 DEF Relays
    <3>2. s.byEndpoint[j] \in s.members /\ s.at[s.byEndpoint[j]] = j
          /\ s.byEndpoint[j] # m
      BY <1>6, <2>2, <3>1 DEF Agree
    <3> QED BY <1>4, <3>1, <3>2 DEF Relays
  <2> QED BY <2>1, <2>2
<1>7. RoomsHaveMembers(t)
  BY <1>4 DEF Agree, RoomsHaveMembers
<1>8. WithinCeilings(t)
  BY <1>4, FewerAreWithin
<1> QED BY <1>4, <1>5, <1>6, <1>7, <1>8 DEF Good, Agree

\* A registration that is not refused leaves good tables with the member at k;
\* another endpoint is forgotten only for the member's, a listing only with its
\* room.
LEMMA RegisteredSteps ==
  ASSUME NEW s \in Relays, Good(s), NEW m \in Members, NEW k \in Endpoints,
         m[1] \in s.rooms \/ Cardinality(s.rooms) < MAX_ROOMS,
         ~Refused(s, m)
  PROVE  LET t == Registered(s, m, k)
         IN  /\ Good(t)
             /\ t.byEndpoint[k] = m /\ m \in t.members
             /\ t.rooms \subseteq s.rooms \cup {m[1]}
             /\ \A j \in Endpoints :
                  j # k /\ t.byEndpoint[j] # s.byEndpoint[j] =>
                    s.byEndpoint[j] = m
             /\ \A r \in Rooms : t.advert[r] # s.advert[r] => r \notin t.rooms
<1> DEFINE e == Entered(s, m, k)
           p == PriorLeft(e, m, k)
           t == Registered(s, m, k)
<1>1. /\ e \in Relays
      /\ Agree(e, {m})
      /\ WithinCeilings(e)
      /\ m \in e.members
      /\ \A j \in Endpoints : e.byEndpoint[j] = m => j = k
  BY EnteredGood
<1>0. /\ e.rooms = s.rooms \cup {m[1]}
      /\ e.advert = s.advert
      /\ \A j \in Endpoints : e.byEndpoint[j] # s.byEndpoint[j] =>
                                s.byEndpoint[j] = m
  BY EnteredKeeps
<1> HIDE DEF e
<1>2. /\ p \in Relays /\ Agree(p, {m}) /\ WithinCeilings(p) /\ m \in p.members
      /\ m[1] \in p.rooms /\ p.byEndpoint[k] \in {NoMember, m}
      /\ p.rooms \subseteq e.rooms
      /\ \A j \in Endpoints : p.byEndpoint[j] = m => j = k
      /\ \A j \in Endpoints : j # k => p.byEndpoint[j] = e.byEndpoint[j]
      /\ \A r \in Rooms : p.advert[r] # e.advert[r] => r \notin p.rooms
  BY <1>0, <1>1, PriorLeftGood
<1>3. t = Settled(p, m, k)
  BY DEF Registered, e
<1> HIDE DEF p, t
<1>4. /\ Good(t)
      /\ t.rooms = p.rooms /\ t.members = p.members
      /\ t.advert = p.advert
      /\ t.byEndpoint = [p.byEndpoint EXCEPT ![k] = m]
      /\ t.at = [p.at EXCEPT ![m] = k]
  BY <1>2, <1>3, SettledGood
<1>5. t.byEndpoint[k] = m /\ \A j \in Endpoints :
        j # k => t.byEndpoint[j] = p.byEndpoint[j]
  BY <1>2, <1>4 DEF Relays
<1>6. /\ Good(t)
      /\ t.byEndpoint[k] = m /\ m \in t.members
      /\ t.rooms \subseteq s.rooms \cup {m[1]}
  BY <1>0, <1>1, <1>2, <1>4, <1>5
<1>7. \A j \in Endpoints : j # k /\ t.byEndpoint[j] # s.byEndpoint[j] =>
                             s.byEndpoint[j] = m
  BY <1>0, <1>2, <1>5
<1>8. \A r \in Rooms : t.advert[r] # s.advert[r] => r \notin t.rooms
  BY <1>0, <1>2, <1>4
<1> QED BY <1>6, <1>7, <1>8 DEF t

LEMMA RegisteredGood ==
  ASSUME NEW s \in Relays, Good(s), NEW m \in Members, NEW k \in Endpoints,
         m[1] \in s.rooms \/ Cardinality(s.rooms) < MAX_ROOMS
  PROVE  Good(Registered(s, m, k))
<1>1. CASE Refused(s, m)
  BY <1>1 DEF Registered
<1>2. CASE ~Refused(s, m)
  BY <1>2, RegisteredSteps
<1> QED BY <1>1, <1>2

LEMMA RegisterGood ==
  ASSUME Good(relay), NEW m \in Members, NEW k \in Endpoints, Register(k, m)
  PROVE  Good(relay')
<1>1. relay \in Relays /\ m[1] \in Rooms
  BY DEF Good, Members
<1>2. PICK s \in WithSpace(relay, m[1]) : relay' = Registered(s, m, k)
  BY DEF Register
<1>3. Good(s) /\ (m[1] \in s.rooms \/ Cardinality(s.rooms) < MAX_ROOMS)
  BY <1>1, WithSpaceGood
<1>4. s \in Relays
  BY <1>3 DEF Good
<1> QED BY <1>2, <1>3, <1>4, RegisteredGood

-------------------------------------------------------------------------------
(* The other steps.                                                          *)

LEMMA SweptGood ==
  ASSUME NEW s \in Relays, Good(s)
  PROVE  LET t == Swept(s)
             d == Drop(s, Silent(s))
         IN  /\ Good(t)
             /\ t.members = s.members \ Silent(s) /\ t.rooms = d.rooms
             /\ t.byEndpoint = d.byEndpoint
             /\ t.advert = [r \in Rooms |->
                  IF d.advert[r] # Nobody /\ d.advertAge[r] <= ADVERT_TIMEOUT
                  THEN d.advert[r] ELSE Nobody]
<1> DEFINE d == Drop(s, Silent(s))
           kept(r) == d.advert[r] # Nobody /\ d.advertAge[r] <= ADVERT_TIMEOUT
           names == {r \in d.rooms : MembersOf(d, r) # {}}
           lists == [r \in Rooms |-> IF kept(r) THEN d.advert[r] ELSE Nobody]
           ages == [r \in Rooms |-> IF kept(r) THEN d.advertAge[r] ELSE 0]
           t == Swept(s)
<1>1. Silent(s) \in SUBSET s.members
  BY DEF Silent
<1>2. d \in Relays /\ Agree(d, {})
  BY <1>1, DropType, DropAgree DEF Good
<1>3. d.members = s.members \ Silent(s) /\ d.rooms \subseteq s.rooms
  BY DEF Drop
<1>4. t = [d EXCEPT !.rooms = names, !.advert = lists, !.advertAge = ages]
  BY DEF Swept
<1>5. names = d.rooms
  BY <1>2 DEF Agree, RoomsHaveMembers, MembersOf
<1>6. lists \in [Rooms -> Endpoints \cup {Nobody}] /\ ages \in [Rooms -> AdvertAges]
  BY <1>2, TimeoutsAssumption DEF Relays, AdvertAges
<1>7. \A r \in Rooms : lists[r] # Nobody => d.advert[r] # Nobody
  OBVIOUS
<1> HIDE DEF d, names, lists, ages
<1>8. /\ t.rooms = d.rooms /\ t.members = d.members /\ t.at = d.at
      /\ t.byEndpoint = d.byEndpoint /\ t.advert = lists
      /\ t \in Relays
  BY <1>2, <1>4, <1>5, <1>6 DEF Relays
<1>9. Agree(t, {})
  BY <1>2, <1>7, <1>8 DEF Agree, RoomsHaveMembers
<1>10. WithinCeilings(t)
  BY <1>3, <1>8, FewerAreWithin DEF Good
<1> QED BY <1>3, <1>8, <1>9, <1>10 DEF Good, d, lists

\* Nothing but times and listings change in the remaining steps.
LEMMA SameTablesGood ==
  ASSUME NEW s \in Relays, Good(s), NEW t \in Relays,
         t.rooms = s.rooms, t.members = s.members, t.at = s.at,
         t.byEndpoint = s.byEndpoint,
         \A r \in Rooms : t.advert[r] # Nobody => r \in s.rooms
  PROVE  Good(t)
<1>1. Agree(t, {})
  BY DEF Good, Agree, RoomsHaveMembers
<1>2. WithinCeilings(t)
  BY FewerAreWithin DEF Good
<1> QED BY <1>1, <1>2 DEF Good

LEMMA AdvertiseGood ==
  ASSUME Good(relay), NEW k \in Endpoints, NEW r \in Rooms, Advertise(k, r)
  PROVE  Good(relay') /\ relay'.advert = [relay.advert EXCEPT ![r] = k]
         /\ relay'.byEndpoint = relay.byEndpoint
<1> DEFINE lists == [relay.advert EXCEPT ![r] = k]
           ages == [relay.advertAge EXCEPT ![r] = 0]
<1>1. relay' = [relay EXCEPT !.advert = lists, !.advertAge = ages]
  BY DEF Advertise
<1>2. /\ lists \in [Rooms -> Endpoints \cup {Nobody}]
      /\ ages \in [Rooms -> AdvertAges]
  BY TimeoutsAssumption DEF Good, Relays, AdvertAges
<1>3. r \in relay.rooms
  BY DEF Advertise, IsIn, Good, Agree, RoomsHaveMembers
<1>4. \A q \in Rooms : lists[q] # Nobody => q \in relay.rooms
  BY <1>3 DEF Good, Agree, RoomsHaveMembers, Relays
<1> HIDE DEF lists, ages
<1>5. /\ relay'.rooms = relay.rooms /\ relay'.members = relay.members
      /\ relay'.at = relay.at /\ relay'.byEndpoint = relay.byEndpoint
      /\ relay'.advert = lists
      /\ relay' \in Relays
  BY <1>1, <1>2 DEF Good, Relays
<1>6. relay \in Relays
  BY DEF Good
<1>7. Good(relay')
  BY <1>4, <1>5, <1>6, SameTablesGood
<1> QED BY <1>5, <1>7 DEF lists

LEMMA ForwardGood ==
  ASSUME Good(relay), NEW k \in Endpoints, Forward(k)
  PROVE  Good(relay') /\ relay'.byEndpoint = relay.byEndpoint
         /\ relay'.advert = relay.advert
<1> DEFINE ages == [relay.age EXCEPT ![relay.byEndpoint[k]] = 0]
<1>1. relay' = [relay EXCEPT !.age = ages]
  BY DEF Forward
<1>2. ages \in [Members -> Ages]
  <2>1. relay.age \in [Members -> Ages] /\ 0 \in Ages
    BY TimeoutsAssumption DEF Good, Relays, Ages
  <2> QED BY <2>1
<1> HIDE DEF ages
<1>3. /\ relay'.rooms = relay.rooms /\ relay'.members = relay.members
      /\ relay'.at = relay.at /\ relay'.byEndpoint = relay.byEndpoint
      /\ relay'.advert = relay.advert /\ relay' \in Relays
  BY <1>1, <1>2 DEF Good, Relays
<1>4. \A q \in Rooms : relay'.advert[q] # Nobody => q \in relay.rooms
  BY <1>3 DEF Good, Agree, RoomsHaveMembers
<1>5. relay \in Relays
  BY DEF Good
<1> QED BY <1>3, <1>4, <1>5, SameTablesGood

LEMMA TickGood ==
  ASSUME Good(relay), Tick
  PROVE  Good(relay') /\ relay'.byEndpoint = relay.byEndpoint
         /\ relay'.advert = relay.advert
<1> DEFINE ages == [m \in Members |->
               IF m \in relay.members THEN Older(relay.age, MEMBER_TIMEOUT)[m]
               ELSE 0]
           lists == [r \in Rooms |->
               IF relay.advert[r] # Nobody
               THEN Older(relay.advertAge, ADVERT_TIMEOUT)[r] ELSE 0]
<1>1. relay' = [relay EXCEPT !.age = ages, !.advertAge = lists]
  BY DEF Tick
<1>2. relay.age \in [Members -> Ages] /\ relay.advertAge \in [Rooms -> AdvertAges]
  BY DEF Good, Relays
<1>3. ages \in [Members -> Ages]
  <2>1. ASSUME NEW m \in Members PROVE Older(relay.age, MEMBER_TIMEOUT)[m] \in Ages
    BY <1>2, TimeoutsAssumption DEF Older, Ages
  <2> QED BY <2>1, TimeoutsAssumption DEF Ages
<1>4. lists \in [Rooms -> AdvertAges]
  <2>1. ASSUME NEW r \in Rooms
        PROVE  Older(relay.advertAge, ADVERT_TIMEOUT)[r] \in AdvertAges
    BY <1>2, TimeoutsAssumption DEF Older, AdvertAges
  <2> QED BY <2>1, TimeoutsAssumption DEF AdvertAges
<1> HIDE DEF ages, lists
<1>5. /\ relay'.rooms = relay.rooms /\ relay'.members = relay.members
      /\ relay'.at = relay.at /\ relay'.byEndpoint = relay.byEndpoint
      /\ relay'.advert = relay.advert /\ relay' \in Relays
  BY <1>1, <1>3, <1>4 DEF Good, Relays
<1>6. \A q \in Rooms : relay'.advert[q] # Nobody => q \in relay.rooms
  BY <1>5 DEF Good, Agree, RoomsHaveMembers
<1>7. relay \in Relays
  BY DEF Good
<1> QED BY <1>5, <1>6, <1>7, SameTablesGood

-------------------------------------------------------------------------------
(* The theorems.                                                             *)

LEMMA InitGood ==
  ASSUME Init
  PROVE  Good(relay)
<1>1. relay = Empty /\ 0 \in Ages /\ 0 \in AdvertAges
  BY TimeoutsAssumption DEF Init, Ages, AdvertAges
<1>2. relay \in Relays
  BY <1>1 DEF Empty, Relays
<1>3. Agree(relay, {})
  BY <1>1 DEF Empty, Agree, RoomsHaveMembers
<1>4. MembersOf(relay, 0) = {} /\ \A r : MembersOf(relay, r) = {}
  BY <1>1 DEF Empty, MembersOf
<1>5. relay.rooms = {} /\ Cardinality({}) = 0
  BY <1>1, FS_EmptySet DEF Empty
<1>6. WithinCeilings(relay)
  BY <1>4, <1>5, CeilingsAssumption DEF WithinCeilings
<1> QED BY <1>2, <1>3, <1>6 DEF Good

LEMMA NextGood ==
  ASSUME Good(relay), [Next]_relay
  PROVE  Good(relay')
<1>1. ASSUME NEW k \in Endpoints, NEW m \in Members, Register(k, m)
      PROVE  Good(relay')
  BY <1>1, RegisterGood
<1>2. ASSUME NEW k \in Endpoints, NEW r \in Rooms, Advertise(k, r)
      PROVE  Good(relay')
  BY <1>2, AdvertiseGood
<1>3. ASSUME NEW k \in Endpoints, Forward(k) PROVE Good(relay')
  BY <1>3, ForwardGood
<1>4. CASE Sweep
  <2>1. relay \in Relays /\ relay' = Swept(relay)
    BY <1>4 DEF Good, Sweep
  <2> QED BY <2>1, SweptGood
<1>5. CASE Tick
  BY <1>5, TickGood
<1>6. CASE relay' = relay
  BY <1>6
<1> QED BY <1>1, <1>2, <1>3, <1>4, <1>5, <1>6 DEF Next

LEMMA AlwaysGood == Spec => []Good(relay)
<1>1. Init => Good(relay)
  BY InitGood
<1>2. Good(relay) /\ [Next]_relay => Good(relay)'
  BY NextGood
<1> QED BY <1>1, <1>2, PTL DEF Spec

\* The server's tables are well formed, and never hold more rooms, or more
\* members of a room, than they may, whatever is registered from where.
THEOREM ServerTypeCorrect == Spec => []TypeOK
<1>1. Good(relay) => TypeOK
  BY DEF Good, TypeOK
<1> QED BY <1>1, AlwaysGood, PTL

\* The table of rooms and the table of endpoints hold the same members, and a
\* room is there and listed only while it has members.
THEOREM TablesAlwaysAgree == Spec => []TablesAgree
<1>1. Good(relay) => TablesAgree
  BY AgreeMeans DEF Good, TablesAgree
<1> QED BY <1>1, AlwaysGood, PTL

\* If the server copies the datagrams of one endpoint to another it does so the
\* other way, and never sends an endpoint its own.
THEOREM AlwaysHearEachOther == Spec => []HearEachOther
<1>1. ASSUME Good(relay), NEW j \in Endpoints, NEW k \in Endpoints,
             j \in Recipients(relay, k)
      PROVE  j # k /\ k \in Recipients(relay, j)
  <2> DEFINE n == relay.byEndpoint[k]
  <2>1. n # NoMember /\ n \in relay.members /\ relay.at[n] = k
    BY <1>1 DEF Recipients, Good, Agree
  <2>2. PICK m \in MembersOf(relay, n[1]) \ {n} : relay.at[m] = j
    BY <1>1, <2>1 DEF Recipients
  <2>3. m \in relay.members /\ m[1] = n[1] /\ m # n
    BY <2>2 DEF MembersOf
  <2>4. relay.byEndpoint[j] = m
    BY <1>1, <2>2, <2>3 DEF Good, Agree
  <2>5. n \in MembersOf(relay, m[1]) \ {m} /\ k # Nobody /\ m # NoMember
    BY <1>1, <2>1, <2>3, NothingAssumption DEF MembersOf, Good, Relays, Members
  <2>6. k \in Recipients(relay, j)
    BY <2>1, <2>4, <2>5 DEF Recipients
  <2> QED BY <2>3, <2>4, <2>6
<1>2. Good(relay) => HearEachOther
  BY <1>1 DEF HearEachOther
<1> QED BY <1>2, AlwaysGood, PTL

\* Who is given up for a registration is in a weakest room of a full table, and
\* then the registration is for a new room and is not refused.
LEMMA EvictedFor ==
  ASSUME NEW s \in Relays, Good(s), NEW m \in Members,
         NEW t \in WithSpace(s, m[1]), t # s
  PROVE  /\ Cardinality(s.rooms) = MAX_ROOMS /\ m[1] \notin s.rooms
         /\ ~Refused(t, m)
         /\ \E w \in s.rooms :
              /\ t = Evict(s, w)
              /\ \A r \in s.rooms : Cardinality(MembersOf(s, r)) >=
                                      Cardinality(MembersOf(s, w))
<1>1. m[1] \notin s.rooms /\ ~(Cardinality(s.rooms) < MAX_ROOMS)
  BY DEF WithSpace
<1>2. PICK w \in Weakest(s) : t = Evict(s, w)
  BY <1>1 DEF WithSpace
<1>3. w \in s.rooms /\ \A r \in s.rooms : ~Weaker(s, r, w)
  BY <1>2 DEF Weakest
<1>4. ASSUME NEW r \in s.rooms
      PROVE  Cardinality(MembersOf(s, r)) >= Cardinality(MembersOf(s, w))
  <2>1. ~(Cardinality(MembersOf(s, r)) < Cardinality(MembersOf(s, w)))
    BY <1>3 DEF Weaker
  <2>2. Cardinality(MembersOf(s, r)) \in Nat /\ Cardinality(MembersOf(s, w)) \in Nat
    BY MembersFinite, FS_CardinalityType
  <2> QED BY <2>1, <2>2
<1>5. Cardinality(s.rooms) \in Nat /\ Cardinality(s.rooms) <= MAX_ROOMS
  BY MembersFinite, FS_CardinalityType DEF Good, WithinCeilings
<1>6. MembersOf(t, m[1]) = {}
  <2>1. t.members \subseteq s.members
    BY <1>2, <1>3, EvictGood
  <2> QED BY <1>1, <2>1 DEF MembersOf, Good, Agree, RoomsHaveMembers
<1>7. ~Refused(t, m)
  BY <1>6, FS_EmptySet, CeilingsAssumption DEF Refused
<1> QED BY <1>1, <1>2, <1>3, <1>4, <1>5, <1>7, CeilingsAssumption

LEMMA RegisterKeepsWhoIsHeard ==
  ASSUME Good(relay), NEW k \in Endpoints, NEW m \in Members, Register(k, m),
         NEW n \in relay.members,
         relay'.byEndpoint[relay.at[n]] # n
  PROVE  \/ relay'.byEndpoint[relay.at[n]] # NoMember
         \/ n \in relay'.members
         \/ /\ Cardinality(relay.rooms) = MAX_ROOMS
            /\ n[1] \notin relay'.rooms
            /\ relay'.rooms \ relay.rooms # {}
            /\ \A r \in relay.rooms :
                 Cardinality(MembersOf(relay, r)) >=
                   Cardinality(MembersOf(relay, n[1]))
<1> DEFINE j == relay.at[n]
<1>1. relay \in Relays /\ m[1] \in Rooms /\ m # NoMember
  BY NothingAssumption DEF Good, Members
<1>2. PICK s \in WithSpace(relay, m[1]) : relay' = Registered(s, m, k)
  BY DEF Register
<1>3. Good(s) /\ s \in Relays /\ (m[1] \in s.rooms \/ Cardinality(s.rooms) < MAX_ROOMS)
  BY <1>1, <1>2, WithSpaceGood DEF Good
<1>4. j \in Endpoints /\ relay.byEndpoint[j] = n
  BY DEF Good, Agree
<1>5. CASE Refused(s, m)
  BY <1>1, <1>2, <1>4, <1>5, EvictedFor DEF Registered
<1>6. CASE ~Refused(s, m)
  <2>1. /\ relay'.byEndpoint[k] = m /\ m \in relay'.members
        /\ relay'.rooms \subseteq s.rooms \cup {m[1]}
        /\ Good(relay')
        /\ \A i \in Endpoints : i # k /\ relay'.byEndpoint[i] # s.byEndpoint[i] =>
                                  s.byEndpoint[i] = m
    BY <1>2, <1>3, <1>6, RegisteredSteps
  <2>2. CASE j = k
    BY <1>1, <2>1, <2>2
  <2>3. CASE j # k /\ s.byEndpoint[j] = n
    BY <1>4, <2>1, <2>3
  <2>4. CASE j # k /\ s.byEndpoint[j] # n
    <3>1. s # relay
      BY <1>4, <2>4
    <3>2. PICK w \in relay.rooms :
            /\ s = Evict(relay, w)
            /\ \A r \in relay.rooms : Cardinality(MembersOf(relay, r)) >=
                                        Cardinality(MembersOf(relay, w))
      BY <1>1, <1>2, <3>1, EvictedFor
    <3>3. Cardinality(relay.rooms) = MAX_ROOMS /\ m[1] \notin relay.rooms
      BY <1>1, <1>2, <3>1, EvictedFor
    <3>4. s.rooms = relay.rooms \ {w}
          /\ s.members = relay.members \ MembersOf(relay, w)
      BY <1>1, <3>2, EvictGood
    <3>5. n[1] = w
      <4>1. SUFFICES ASSUME n[1] # w PROVE FALSE
        OBVIOUS
      <4>2. n \in s.members
        BY <3>4, <4>1 DEF MembersOf
      <4>3. s.at[n] = j
        BY <1>1, <3>2, <4>1 DEF Evict, Drop, MembersOf, Relays
      <4> QED BY <1>3, <2>4, <4>2, <4>3 DEF Good, Agree
    <3>6. w # m[1] /\ w \notin relay'.rooms
      BY <2>1, <3>3, <3>4
    <3>7. m[1] \in relay'.rooms \ relay.rooms
      BY <2>1, <3>3 DEF Good, Agree, RoomsHaveMembers
    <3> QED BY <3>2, <3>3, <3>5, <3>6, <3>7
  <2> QED BY <2>2, <2>3, <2>4
<1> QED BY <1>5, <1>6

\* Nobody heard of in time is taken away but by a registration of his endpoint
\* or of his address, or with a weakest room for a new one.
THEOREM AlwaysKeepsWhoIsHeard == Spec => KeepsWhoIsHeard
<1> DEFINE Kept(n) ==
      relay.age[n] <= MEMBER_TIMEOUT /\ relay'.byEndpoint[relay.at[n]] # n =>
         \/ relay'.byEndpoint[relay.at[n]] # NoMember
         \/ n \in relay'.members
         \/ /\ Cardinality(relay.rooms) = MAX_ROOMS
            /\ n[1] \notin relay'.rooms
            /\ relay'.rooms \ relay.rooms # {}
            /\ \A r \in relay.rooms :
                 Cardinality(MembersOf(relay, r)) >=
                   Cardinality(MembersOf(relay, n[1]))
<1>1. ASSUME Good(relay), Next, NEW n \in relay.members PROVE Kept(n)
  <2>1. relay.at[n] \in Endpoints /\ relay.byEndpoint[relay.at[n]] = n
    BY <1>1 DEF Good, Agree
  <2>2. ASSUME NEW k \in Endpoints, NEW m \in Members, Register(k, m)
        PROVE  Kept(n)
    BY <1>1, <2>2, RegisterKeepsWhoIsHeard
  <2>3. ASSUME NEW k \in Endpoints, NEW r \in Rooms, Advertise(k, r)
        PROVE  Kept(n)
    BY <1>1, <2>1, <2>3, AdvertiseGood
  <2>4. ASSUME NEW k \in Endpoints, Forward(k) PROVE Kept(n)
    BY <1>1, <2>1, <2>4, ForwardGood
  <2>5. CASE Sweep
    <3>1. relay'.byEndpoint = Drop(relay, Silent(relay)).byEndpoint
      BY <1>1, <2>5, SweptGood DEF Sweep, Good
    <3>2. ASSUME relay.age[n] <= MEMBER_TIMEOUT PROVE n \notin Silent(relay)
      BY <1>1, <3>2, TimeoutsAssumption DEF Silent, Good, Relays, Ages
    <3> QED BY <2>1, <3>1, <3>2 DEF Drop
  <2>6. CASE Tick
    BY <1>1, <2>1, <2>6, TickGood
  <2> QED BY <1>1, <2>2, <2>3, <2>4, <2>5, <2>6 DEF Next
<1>2. Good(relay) /\ [Next]_relay => [OnlyTheUnheardGo]_relay
  BY <1>1 DEF OnlyTheUnheardGo
<1> QED BY <1>2, AlwaysGood, PTL DEF Spec, KeepsWhoIsHeard

LEMMA RegisterHoldsListing ==
  ASSUME Good(relay), NEW k \in Endpoints, NEW m \in Members, Register(k, m),
         NEW r \in Rooms, relay'.advert[r] # relay.advert[r]
  PROVE  r \notin relay'.rooms
<1>1. relay \in Relays /\ m[1] \in Rooms
  BY DEF Good, Members
<1>2. PICK s \in WithSpace(relay, m[1]) : relay' = Registered(s, m, k)
  BY DEF Register
<1>3. Good(s) /\ s \in Relays /\ (m[1] \in s.rooms \/ Cardinality(s.rooms) < MAX_ROOMS)
  BY <1>1, <1>2, WithSpaceGood DEF Good
<1>4. CASE Refused(s, m)
  BY <1>1, <1>2, <1>4, EvictedFor DEF Registered
<1>5. CASE ~Refused(s, m)
  <2>1. /\ relay'.rooms \subseteq s.rooms \cup {m[1]}
        /\ relay'.advert[r] # s.advert[r] => r \notin relay'.rooms
    BY <1>2, <1>3, <1>5, RegisteredSteps
  <2>2. CASE s.advert[r] = relay.advert[r]
    BY <2>1, <2>2
  <2>3. CASE s.advert[r] # relay.advert[r]
    <3>1. PICK w \in relay.rooms : s = Evict(relay, w)
      BY <1>1, <1>2, <2>3, EvictedFor
    <3>2. m[1] \notin relay.rooms
      BY <1>1, <1>2, <2>3, EvictedFor
    <3>3. s.rooms = relay.rooms \ {w}
      BY <1>1, <3>1, EvictGood
    <3>4. r = w
      <4>1. r \notin Emptied(relay, MembersOf(relay, w)) \/ r = w
        BY DEF Emptied, MembersOf
      <4>2. SUFFICES ASSUME r # w PROVE s.advert[r] = relay.advert[r]
        BY <2>3
      <4>3. Drop(relay, MembersOf(relay, w)).advert[r] = relay.advert[r]
        BY <4>1, <4>2 DEF Drop
      <4> QED BY <3>1, <4>2, <4>3 DEF Evict, Drop
    <3> QED BY <2>1, <3>2, <3>3, <3>4
  <2> QED BY <2>2, <2>3
<1> QED BY <1>4, <1>5

\* A listing is its owner's while he advertises in time and stays in the room.
THEOREM ListingIsAlwaysHeld == Spec => ListingIsHeld
<1> DEFINE Kept(r) ==
      (/\ relay.advert[r] # Nobody
       /\ relay.advertAge[r] <= ADVERT_TIMEOUT
       /\ IsIn(relay, relay.advert[r], r)
       /\ IsIn(relay', relay.advert[r], r)) => relay'.advert[r] = relay.advert[r]
<1>1. ASSUME Good(relay), Next, NEW r \in Rooms PROVE Kept(r)
  <2>1. Good(relay')
    BY <1>1, NextGood
  <2>2. ASSUME NEW k \in Endpoints, IsIn(relay', k, r) PROVE r \in relay'.rooms
    BY <2>1, <2>2 DEF IsIn, Good, Agree, RoomsHaveMembers
  <2>3. relay.advert[r] \in Endpoints \cup {Nobody}
    BY <1>1 DEF Good, Relays
  <2>4. ASSUME NEW k \in Endpoints, NEW m \in Members, Register(k, m)
        PROVE  Kept(r)
    BY <1>1, <2>2, <2>3, <2>4, RegisterHoldsListing
  <2>5. ASSUME NEW k \in Endpoints, NEW q \in Rooms, Advertise(k, q)
        PROVE  Kept(r)
    <3>1. relay'.advert = [relay.advert EXCEPT ![q] = k]
      BY <1>1, <2>5, AdvertiseGood
    <3>2. ~Held(relay, k, q)
      BY <2>5 DEF Advertise
    <3> QED BY <1>1, <3>1, <3>2 DEF Held, Good, Relays
  <2>6. ASSUME NEW k \in Endpoints, Forward(k) PROVE Kept(r)
    BY <1>1, <2>6, ForwardGood
  <2>7. CASE Sweep
    <3> DEFINE d == Drop(relay, Silent(relay))
    <3>1. /\ relay'.rooms = d.rooms
          /\ relay'.advert = [q \in Rooms |->
               IF d.advert[q] # Nobody /\ d.advertAge[q] <= ADVERT_TIMEOUT
               THEN d.advert[q] ELSE Nobody]
      BY <1>1, <2>7, SweptGood DEF Sweep, Good
    <3>2. CASE r \in Emptied(relay, Silent(relay))
      <4>1. r \notin relay'.rooms
        BY <3>1, <3>2 DEF Drop
      <4> QED BY <2>2, <2>3, <4>1
    <3>3. CASE r \notin Emptied(relay, Silent(relay))
      <4>1. d.advert[r] = relay.advert[r] /\ d.advertAge[r] = relay.advertAge[r]
        BY <3>3 DEF Drop
      <4> QED BY <3>1, <4>1
    <3> QED BY <3>2, <3>3
  <2>8. CASE Tick
    BY <1>1, <2>8, TickGood
  <2> QED BY <1>1, <2>4, <2>5, <2>6, <2>7, <2>8 DEF Next
<1>2. Good(relay) /\ [Next]_relay => [OwnersKeepListings]_relay
  BY <1>1 DEF OwnersKeepListings
<1> QED BY <1>2, AlwaysGood, PTL DEF Spec, ListingIsHeld

-------------------------------------------------------------------------------
(* The addresses the server hands out.                                       *)

OneAddress(table) ==
  \A r \in Rooms : \A i, j \in Pool :
    i # j /\ table[r][i].socket \in Endpoints =>
      table[r][i].socket # table[r][j].socket

Tables == [Rooms -> [Pool -> Assignment]]

IdentityGood ==
  /\ Good(relay)
  /\ assigned \in Tables /\ OneAddress(assigned)
  /\ pinned \in [Endpoints -> Members \cup {NoMember}]
  /\ asking \in [Endpoints -> Rooms \cup {NoRoom}]

-------------------------------------------------------------------------------
(* The table of assignments.                                                 *)

LEMMA FreeType == Free \in Assignment
BY TimeoutsAssumption DEF Free, Assignment, Ages

LEMMA ClosedType ==
  ASSUME NEW t \in Tables, OneAddress(t), NEW c \in Endpoints
  PROVE  /\ Closed(t, c) \in Tables /\ OneAddress(Closed(t, c))
         /\ \A r \in Rooms, i \in Pool :
              /\ Closed(t, c)[r][i].age = t[r][i].age
              /\ Closed(t, c)[r][i].socket =
                   IF t[r][i].socket = c THEN OldSocket ELSE t[r][i].socket
<1>1. ASSUME NEW r \in Rooms, NEW i \in Pool
      PROVE  /\ Closed(t, c)[r][i] \in Assignment
             /\ Closed(t, c)[r][i].age = t[r][i].age
             /\ Closed(t, c)[r][i].socket =
                  IF t[r][i].socket = c THEN OldSocket ELSE t[r][i].socket
  <2>1. t[r][i] \in Assignment
    BY DEF Tables
  <2>2. Closed(t, c)[r][i] = IF t[r][i].socket = c
                             THEN [t[r][i] EXCEPT !.socket = OldSocket]
                             ELSE t[r][i]
    BY DEF Closed
  <2> QED BY <2>1, <2>2 DEF Assignment
<1>2. Closed(t, c) \in Tables
  <2>1. Closed(t, c) = [r \in Rooms |-> [i \in Pool |-> Closed(t, c)[r][i]]]
    BY DEF Closed
  <2> QED BY <1>1, <2>1 DEF Tables
<1>3. OneAddress(Closed(t, c))
  BY <1>1, SocketsAssumption DEF OneAddress
<1> QED BY <1>1, <1>2, <1>3

LEMMA AnswersAre ==
  ASSUME NEW t \in Tables, NEW r \in Rooms, NEW c \in Endpoints,
         NEW i \in Answers(t, r, c)
  PROVE  /\ i \in Pool
         /\ \/ t[r][i].socket = c
            \/ /\ t[r][i].socket = Nobody /\ <<r, i>> \notin relay.members
               /\ \A j \in Pool : t[r][j].socket # c
BY DEF Answers, Least, FreeIds

LEMMA AssignType ==
  ASSUME NEW t \in Tables, OneAddress(t), NEW r \in Rooms, NEW c \in Endpoints,
         NEW i \in Answers(t, r, c)
  PROVE  /\ Assign(t, r, i, c) \in Tables /\ OneAddress(Assign(t, r, i, c))
         /\ \A q \in Rooms, j \in Pool :
              Assign(t, r, i, c)[q][j] =
                IF q = r /\ j = i THEN [socket |-> c, age |-> 0] ELSE t[q][j]
<1> DEFINE a == [socket |-> c, age |-> 0]
           u == Assign(t, r, i, c)
<1>1. i \in Pool /\ (t[r][i].socket = c \/ \A j \in Pool : t[r][j].socket # c)
  BY DEF Answers, Least, FreeIds
<1>2. a \in Assignment
  BY TimeoutsAssumption DEF Assignment, Ages
<1>3. u = [t EXCEPT ![r] = [t[r] EXCEPT ![i] = a]]
  BY DEF Assign
<1> HIDE DEF a, u
<1>4. u \in Tables
  BY <1>1, <1>2, <1>3 DEF Tables
<1>5. \A q \in Rooms, j \in Pool :
        u[q][j] = IF q = r /\ j = i THEN a ELSE t[q][j]
  BY <1>1, <1>3 DEF Tables
<1>6. a.socket = c
  BY DEF a
<1>7. ASSUME NEW q \in Rooms, NEW j \in Pool, NEW k \in Pool,
             j # k, u[q][j].socket \in Endpoints
      PROVE  u[q][j].socket # u[q][k].socket
  <2>1. CASE q # r
    BY <1>5, <1>7, <2>1 DEF OneAddress
  <2>2. CASE q = r /\ j # i /\ k # i
    BY <1>5, <1>7, <2>2 DEF OneAddress
  <2>3. CASE q = r /\ j = i
    BY <1>1, <1>5, <1>6, <1>7, <2>3 DEF OneAddress
  <2>4. CASE q = r /\ k = i
    BY <1>1, <1>5, <1>6, <1>7, <2>4 DEF OneAddress
  <2> QED BY <2>1, <2>2, <2>3, <2>4
<1>8. OneAddress(u)
  BY <1>7 DEF OneAddress
<1> QED BY <1>4, <1>5, <1>8 DEF a, u

LEMMA WithSpaceForType ==
  ASSUME assigned \in Tables, OneAddress(assigned), NEW r \in Rooms,
         NEW t \in WithSpaceFor(r)
  PROVE  t \in Tables /\ OneAddress(t)
<1>1. CASE t = assigned
  BY <1>1
<1>2. CASE t # assigned
  <2>1. PICK w \in Rooms : t = [assigned EXCEPT ![w] = [i \in Pool |-> Free]]
    BY <1>2 DEF WithSpaceFor
  <2>2. t \in Tables
    BY <2>1, FreeType DEF Tables
  <2>3. \A q \in Rooms, i \in Pool :
          t[q][i] = IF q = w THEN Free ELSE assigned[q][i]
    BY <2>1 DEF Tables
  <2>4. Free.socket \notin Endpoints
    BY NothingAssumption DEF Free
  <2>5. OneAddress(t)
    BY <2>3, <2>4 DEF OneAddress
  <2> QED BY <2>2, <2>5
<1> QED BY <1>1, <1>2

LEMMA ReleasedType ==
  ASSUME NEW t \in Tables, OneAddress(t)
  PROVE  /\ Released(t) \in Tables /\ OneAddress(Released(t))
         /\ \A r \in Rooms, i \in Pool :
              Released(t)[r][i] = IF t[r][i].age > MEMBER_TIMEOUT THEN Free
                                  ELSE t[r][i]
<1>1. \A r \in Rooms, i \in Pool :
        Released(t)[r][i] = IF t[r][i].age > MEMBER_TIMEOUT THEN Free
                            ELSE t[r][i]
  BY DEF Released
<1>2. Released(t) \in Tables
  BY FreeType DEF Released, Tables
<1>3. Free.socket \notin Endpoints
  BY NothingAssumption DEF Free
<1>4. OneAddress(Released(t))
  BY <1>1, <1>3 DEF OneAddress
<1> QED BY <1>1, <1>2, <1>4

LEMMA AgedType ==
  ASSUME NEW t \in Tables, OneAddress(t)
  PROVE  /\ Aged(t) \in Tables /\ OneAddress(Aged(t))
         /\ \A r \in Rooms, i \in Pool :
              /\ Aged(t)[r][i].socket = t[r][i].socket
              /\ t[r][i].age < MEMBER_TIMEOUT =>
                   Aged(t)[r][i].age <= MEMBER_TIMEOUT
<1>1. ASSUME NEW r \in Rooms, NEW i \in Pool
      PROVE  /\ Aged(t)[r][i] \in Assignment
             /\ Aged(t)[r][i].socket = t[r][i].socket
             /\ t[r][i].age < MEMBER_TIMEOUT =>
                  Aged(t)[r][i].age <= MEMBER_TIMEOUT
  <2>1. t[r][i] \in Assignment
    BY DEF Tables
  <2>2. Aged(t)[r][i] =
          IF t[r][i].socket # Nobody /\ t[r][i].age <= MEMBER_TIMEOUT
          THEN [t[r][i] EXCEPT !.age = t[r][i].age + 1] ELSE t[r][i]
    BY DEF Aged
  <2> QED BY <2>1, <2>2, TimeoutsAssumption DEF Assignment, Ages
<1>2. Aged(t) \in Tables
  <2>1. Aged(t) = [r \in Rooms |-> [i \in Pool |-> Aged(t)[r][i]]]
    BY DEF Aged
  <2> QED BY <1>1, <2>1 DEF Tables
<1>3. OneAddress(Aged(t))
  BY <1>1 DEF OneAddress
<1> QED BY <1>1, <1>2, <1>3

-------------------------------------------------------------------------------
(* Well formed.                                                              *)

LEMMA IdentityInitGood ==
  ASSUME IdentityInit
  PROVE  IdentityGood
<1>1. Good(relay)
  BY InitGood DEF IdentityInit
<1>2. assigned = [r \in Rooms |-> [i \in Pool |-> Free]]
  BY DEF IdentityInit
<1>3. assigned \in Tables
  BY <1>2, FreeType DEF Tables
<1>4. OneAddress(assigned)
  BY <1>2, NothingAssumption DEF OneAddress, Free
<1> QED BY <1>1, <1>3, <1>4 DEF IdentityInit, IdentityGood

LEMMA AskedTypes ==
  ASSUME IdentityGood, NEW c \in Endpoints, asking[c] # NoRoom,
         NEW t \in WithSpaceFor(asking[c])
  PROVE  asking[c] \in Rooms /\ t \in Tables /\ OneAddress(t)
<1>1. asking[c] \in Rooms
  BY DEF IdentityGood
<1> QED BY <1>1, WithSpaceForType DEF IdentityGood

LEMMA IdentityNextGood ==
  ASSUME IdentityGood, [IdentityNext]_vars
  PROVE  IdentityGood' /\ [Next]_relay
<1> USE DEF IdentityGood
<1>1. ASSUME NEW c \in Endpoints, NEW r \in Rooms, Ask(c, r)
      PROVE  IdentityGood' /\ [Next]_relay
  BY <1>1 DEF Ask
<1>2. ASSUME NEW c \in Endpoints, Answered(c)
      PROVE  IdentityGood' /\ [Next]_relay
  <2> DEFINE r == asking[c]
  <2>1. PICK t \in WithSpaceFor(r), i \in Pool :
          /\ r # NoRoom /\ i \in Answers(t, r, c)
          /\ assigned' = Closed(Assign(t, r, i, c), c)
          /\ pinned' = [pinned EXCEPT ![c] = <<r, i>>]
          /\ asking' = [asking EXCEPT ![c] = NoRoom]
          /\ relay' = relay
    BY <1>2 DEF Answered
  <2>2. r \in Rooms /\ t \in Tables /\ OneAddress(t)
    BY <2>1, AskedTypes
  <2>3. Assign(t, r, i, c) \in Tables /\ OneAddress(Assign(t, r, i, c))
    BY <2>1, <2>2, AssignType
  <2>4. assigned' \in Tables /\ OneAddress(assigned)'
    <3>1. assigned' \in Tables /\ OneAddress(assigned')
      BY <2>1, <2>3, ClosedType
    <3> QED BY <3>1 DEF OneAddress
  <2>5. <<r, i>> \in Members
    BY <2>1, <2>2, PoolAssumption DEF Members
  <2> QED BY <2>1, <2>4, <2>5
<1>3. ASSUME NEW c \in Endpoints, AskedInVain(c)
      PROVE  IdentityGood' /\ [Next]_relay
  <2> DEFINE r == asking[c]
  <2>1. PICK t \in WithSpaceFor(r) :
          /\ r # NoRoom
          /\ assigned' \in IF Answers(t, r, c) = {} THEN {t}
                           ELSE {Assign(t, r, i, c) : i \in Answers(t, r, c)}
          /\ pinned' = pinned /\ asking' = asking /\ relay' = relay
    BY <1>3 DEF AskedInVain
  <2>2. r \in Rooms /\ t \in Tables /\ OneAddress(t)
    BY <2>1, AskedTypes
  <2>3. assigned' \in Tables /\ OneAddress(assigned')
    <3>1. CASE assigned' = t
      BY <2>2, <3>1
    <3>2. CASE assigned' # t
      <4>1. PICK i \in Answers(t, r, c) : assigned' = Assign(t, r, i, c)
        BY <2>1, <3>2
      <4> QED BY <2>2, <4>1, AssignType
    <3> QED BY <3>1, <3>2
  <2> QED BY <2>1, <2>3 DEF OneAddress
<1>4. ASSUME NEW c \in Endpoints, AskAgain(c)
      PROVE  IdentityGood' /\ [Next]_relay
  <2>1. assigned' \in Tables /\ OneAddress(assigned')
    BY <1>4, ClosedType DEF AskAgain
  <2> QED BY <1>4, <2>1 DEF AskAgain, OneAddress
<1>5. ASSUME NEW c \in Endpoints, Announce(c)
      PROVE  IdentityGood' /\ [Next]_relay
  <2>1. pinned[c] \in Members /\ Register(c, pinned[c])
    BY <1>5 DEF Announce
  <2>2. Good(relay') /\ Next
    BY <2>1, RegisterGood DEF Next
  <2> QED BY <1>5, <2>2 DEF Announce, Good, Agree, RoomsHaveMembers,
        WithinCeilings, MembersOf, OneAddress
<1>6. ASSUME NEW c \in Endpoints, Close(c)
      PROVE  IdentityGood' /\ [Next]_relay
  BY <1>6 DEF Close
<1>7. CASE SweepAll
  <2>1. assigned' \in Tables /\ OneAddress(assigned')
    BY <1>7, ReleasedType DEF SweepAll
  <2>2. Next /\ Good(relay')
    BY <1>7, NextGood DEF SweepAll, Next
  <2> QED BY <1>7, <2>1, <2>2 DEF SweepAll, OneAddress, Good, Agree,
        RoomsHaveMembers, WithinCeilings, MembersOf
<1>8. CASE TickAll
  <2>1. assigned' = Aged(assigned)
    BY <1>8 DEF TickAll
  <2>2. assigned' \in Tables /\ OneAddress(assigned')
    BY <2>1, AgedType
  <2>3. Next /\ Good(relay')
    BY <1>8, NextGood DEF TickAll, Next
  <2> QED BY <1>8, <2>2, <2>3 DEF TickAll, OneAddress, Good, Agree,
        RoomsHaveMembers, WithinCeilings, MembersOf
<1>9. CASE UNCHANGED vars
  BY <1>9 DEF vars
<1> QED BY <1>1, <1>2, <1>3, <1>4, <1>5, <1>6, <1>7, <1>8, <1>9 DEF IdentityNext

LEMMA AlwaysIdentityGood == IdentitySpec => []IdentityGood
<1>1. IdentityInit => IdentityGood
  BY IdentityInitGood
<1>2. IdentityGood /\ [IdentityNext]_vars => IdentityGood'
  BY IdentityNextGood
<1> QED BY <1>1, <1>2, PTL DEF IdentitySpec

\* The tables of assignments are well formed too, and a socket has one address
\* in a room, whatever is asked and lost.
THEOREM IdentityTypeCorrect == IdentitySpec => []IdentityTypeOK
<1>1. IdentityGood => IdentityTypeOK
  BY DEF IdentityGood, IdentityTypeOK, Good, Tables, OneAddress
<1> QED BY <1>1, AlwaysIdentityGood, PTL

\* With clients that ask for their addresses the server behaves as it does: what
\* holds of it holds here.
THEOREM IdentityImplementsServer == IdentitySpec => Spec
<1>1. IdentityInit => Init
  BY DEF IdentityInit
<1>2. IdentityGood /\ [IdentityNext]_vars => [Next]_relay
  BY IdentityNextGood
<1> QED BY <1>1, <1>2, AlwaysIdentityGood, PTL DEF IdentitySpec, Spec

-------------------------------------------------------------------------------
(* No two clients are the same address, if each is heard of in time and the   *)
(* server never has to give a room up.                                        *)

RoomsFit == Cardinality(Rooms) <= MAX_ROOMS

\* The server would not hand out the address of client c.
Registers(c) ==
  /\ pinned[c] \in relay.members
  /\ relay.at[pinned[c]] = c
  /\ relay.age[pinned[c]] <= MEMBER_TIMEOUT

Assigned(c) ==
  \E r \in Rooms, i \in Pool :
    /\ pinned[c] = <<r, i>>
    /\ assigned[r][i].socket # Nobody
    /\ assigned[r][i].age <= MEMBER_TIMEOUT

Backed == \A c \in Endpoints : pinned[c] # NoMember => Registers(c) \/ Assigned(c)

\* What is assigned to an open socket is nobody's address.
Unanswered ==
  \A r \in Rooms, i \in Pool, c \in Endpoints :
    assigned[r][i].socket \in Endpoints => pinned[c] # <<r, i>>

Distinct == IdentityGood /\ NoSharedIdentity /\ Backed /\ Unanswered

\* The server has space: no room is given up, in either table.
LEMMA NoRoomGivenUp ==
  ASSUME RoomsFit, IdentityGood, NEW r \in Rooms
  PROVE  WithSpace(relay, r) = {relay} /\ WithSpaceFor(r) = {assigned}
<1>1. ASSUME NEW S \in SUBSET Rooms, r \notin S PROVE Cardinality(S) < MAX_ROOMS
  <2>1. S \subseteq Rooms \ {r} /\ IsFiniteSet(Rooms)
    BY <1>1, FiniteAssumption
  <2>2. Cardinality(Rooms \ {r}) = Cardinality(Rooms) - 1
        /\ IsFiniteSet(Rooms \ {r})
    BY <2>1, FS_RemoveElement
  <2>3. Cardinality(S) <= Cardinality(Rooms \ {r}) /\ IsFiniteSet(S)
    BY <2>1, <2>2, FS_Subset
  <2>4. Cardinality(S) \in Nat /\ Cardinality(Rooms) \in Nat
    BY <2>1, <2>3, FS_CardinalityType
  <2> QED BY <2>2, <2>3, <2>4, CeilingsAssumption DEF RoomsFit
<1>2. relay.rooms \in SUBSET Rooms
  BY DEF IdentityGood, Good, Relays
<1>3. WithSpace(relay, r) = {relay}
  BY <1>1, <1>2 DEF WithSpace
<1> DEFINE tables == {t \in Rooms : InUse(assigned, t) # {}}
<1>4. r \in tables \/ Cardinality(tables) < MAX_ROOMS
  BY <1>1
<1>5. WithSpaceFor(r) = {assigned}
  BY <1>4 DEF WithSpaceFor
<1> QED BY <1>3, <1>5

\* Who is heard of in time is backed, and the address of an answer nobody's.
LEMMA AnswerIsNobodys ==
  ASSUME Distinct, NEW r \in Rooms, NEW c \in Endpoints,
         NEW i \in Answers(assigned, r, c), NEW d \in Endpoints
  PROVE  i \in Pool /\ pinned[d] # <<r, i>>
<1>1. /\ i \in Pool
      /\ \/ assigned[r][i].socket = c
         \/ assigned[r][i].socket = Nobody /\ <<r, i>> \notin relay.members
  BY DEF Answers, Least, FreeIds
<1>2. CASE assigned[r][i].socket = c
  BY <1>1, <1>2 DEF Distinct, Unanswered
<1>3. CASE assigned[r][i].socket = Nobody /\ <<r, i>> \notin relay.members
  <2>1. SUFFICES ASSUME pinned[d] = <<r, i>> PROVE FALSE
    BY <1>1
  <2>2. pinned[d] # NoMember
    BY <1>1, <2>1, NothingAssumption, PoolAssumption DEF Members
  <2>3. ~Registers(d)
    BY <1>3, <2>1 DEF Registers
  <2>4. Assigned(d)
    BY <2>2, <2>3 DEF Distinct, Backed
  <2> QED BY <1>3, <2>1, <2>4 DEF Assigned
<1> QED BY <1>1, <1>2, <1>3

\* A registration changes nothing about a member elsewhere.
LEMMA RegisteredKeeps ==
  ASSUME NEW s \in Relays, Good(s), NEW m \in Members, NEW k \in Endpoints,
         NEW n \in s.members, n # m, s.at[n] # k
  PROVE  LET t == Registered(s, m, k)
         IN n \in t.members /\ t.at[n] = s.at[n] /\ t.age[n] = s.age[n]
<1> DEFINE e == Entered(s, m, k)
           p == PriorLeft(e, m, k)
<1>1. CASE Refused(s, m)
  BY <1>1 DEF Registered
<1>2. CASE ~Refused(s, m)
  <2>0. n \in Members
    BY DEF Relays
  <2>1. n \in e.members /\ e.at = s.at /\ e.age = s.age
    BY DEF Entered, Relays
  <2>2. e.byEndpoint[k] # n
    <3>1. n # NoMember
      BY <2>0, NothingAssumption DEF Members
    <3>2. e.byEndpoint[k] # s.byEndpoint[k] => s.byEndpoint[k] = m
      BY EnteredKeeps
    <3>3. s.byEndpoint[k] # n
      BY <3>1 DEF Good, Agree
    <3>4. CASE e.byEndpoint[k] = s.byEndpoint[k]
      BY <3>3, <3>4
    <3>5. CASE e.byEndpoint[k] # s.byEndpoint[k]
      <4>1. e.byEndpoint[k] = NoMember
        BY <3>5 DEF Entered, Relays
      <4> QED BY <3>1, <4>1
    <3> QED BY <3>4, <3>5
  <2> HIDE DEF e
  <2>3. n \in p.members /\ p.at[n] = s.at[n] /\ p.age[n] = s.age[n]
    BY <2>0, <2>1, <2>2 DEF PriorLeft, Drop
  <2>5. DOMAIN p.at = Members /\ DOMAIN p.age = Members
    BY <2>1 DEF PriorLeft, Drop, Relays
  <2> HIDE DEF p
  <2>4. Settled(p, m, k).members = p.members
        /\ Settled(p, m, k).at = [p.at EXCEPT ![m] = k]
        /\ Settled(p, m, k).age = [p.age EXCEPT ![m] = 0]
    BY DEF Settled
  <2>6. Registered(s, m, k) = Settled(p, m, k)
    BY <1>2 DEF Registered, e, p
  <2> QED BY <2>0, <2>3, <2>4, <2>5, <2>6
<1> QED BY <1>1, <1>2

LEMMA DistinctNext ==
  ASSUME RoomsFit, Timely, Distinct, [IdentityNext]_vars
  PROVE  Distinct'
<1> USE DEF Distinct
<1>0. IdentityGood' /\ relay \in Relays
      /\ assigned \in Tables /\ OneAddress(assigned)
      /\ pinned \in [Endpoints -> Members \cup {NoMember}]
  BY IdentityNextGood DEF IdentityGood, Good
<1>1. ASSUME NEW c \in Endpoints, NEW r \in Rooms, Ask(c, r) PROVE Distinct'
  BY <1>0, <1>1 DEF Ask, NoSharedIdentity, Backed, Registers, Assigned, Unanswered
<1>2. ASSUME NEW c \in Endpoints, Answered(c) PROVE Distinct'
  <2> DEFINE r == asking[c]
  <2>1. r # NoRoom /\ r \in Rooms
    BY <1>2 DEF Answered, IdentityGood
  <2>2. PICK i \in Pool :
          /\ i \in Answers(assigned, r, c)
          /\ assigned' = Closed(Assign(assigned, r, i, c), c)
          /\ pinned' = [pinned EXCEPT ![c] = <<r, i>>]
          /\ relay' = relay
    BY <1>2, <2>1, NoRoomGivenUp DEF Answered
  <2>3. \A d \in Endpoints : pinned[d] # <<r, i>>
    BY <2>1, <2>2, AnswerIsNobodys
  <2> DEFINE u == Assign(assigned, r, i, c)
  <2>4. /\ u \in Tables /\ OneAddress(u)
        /\ \A q \in Rooms, j \in Pool :
             u[q][j] = IF q = r /\ j = i THEN [socket |-> c, age |-> 0]
                       ELSE assigned[q][j]
    BY <1>0, <2>1, <2>2, AssignType
  <2> HIDE DEF u
  <2>5. \A q \in Rooms, j \in Pool :
          /\ assigned'[q][j].age = u[q][j].age
          /\ assigned'[q][j].socket =
               IF u[q][j].socket = c THEN OldSocket ELSE u[q][j].socket
    BY <2>2, <2>4, ClosedType DEF u
  <2>6. assigned'[r][i].socket = OldSocket /\ assigned'[r][i].age = 0
    BY <2>1, <2>4, <2>5
  <2>7. ASSUME NEW q \in Rooms, NEW j \in Pool, ~(q = r /\ j = i)
        PROVE  /\ assigned'[q][j].age = assigned[q][j].age
               /\ assigned'[q][j].socket =
                    IF assigned[q][j].socket = c THEN OldSocket
                    ELSE assigned[q][j].socket
    BY <2>4, <2>5, <2>7
  <2>8. pinned'[c] = <<r, i>> /\ \A d \in Endpoints \ {c} : pinned'[d] = pinned[d]
    BY <1>0, <2>2
  <2>9. NoSharedIdentity'
    BY <2>3, <2>8 DEF NoSharedIdentity
  <2>10. ASSUME NEW d \in Endpoints, pinned'[d] # NoMember
         PROVE  Registers(d)' \/ Assigned(d)'
    <3>1. CASE d = c
      <4>1. OldSocket # Nobody /\ 0 <= MEMBER_TIMEOUT
        BY SocketsAssumption, TimeoutsAssumption
      <4>2. Assigned(d)'
        BY <2>1, <2>6, <2>8, <3>1, <4>1 DEF Assigned
      <4> QED BY <4>2
    <3>2. CASE d # c /\ Registers(d)
      BY <2>2, <2>8, <3>2 DEF Registers
    <3>3. CASE d # c /\ Assigned(d)
      <4>1. PICK q \in Rooms, j \in Pool :
              /\ pinned[d] = <<q, j>>
              /\ assigned[q][j].socket # Nobody
              /\ assigned[q][j].age <= MEMBER_TIMEOUT
        BY <3>3 DEF Assigned
      <4>2. ~(q = r /\ j = i)
        BY <2>3, <4>1
      <4>3. assigned'[q][j].socket # Nobody /\ assigned'[q][j].age <= MEMBER_TIMEOUT
        BY <2>7, <4>1, <4>2, SocketsAssumption
      <4> QED BY <2>8, <3>3, <4>1, <4>3 DEF Assigned
    <3> QED BY <2>8, <2>10, <3>1, <3>2, <3>3 DEF Backed
  <2>11. ASSUME NEW q \in Rooms, NEW j \in Pool, NEW d \in Endpoints,
                assigned'[q][j].socket \in Endpoints
         PROVE  pinned'[d] # <<q, j>>
    <3>1. ~(q = r /\ j = i)
      BY <2>6, <2>11, SocketsAssumption
    <3>2. assigned[q][j].socket \in Endpoints
      BY <2>7, <2>11, <3>1, SocketsAssumption
    <3>3. pinned[d] # <<q, j>>
      BY <3>2 DEF Unanswered
    <3> QED BY <2>8, <3>1, <3>3
  <2> QED BY <1>0, <2>9, <2>10, <2>11 DEF Backed, Unanswered
<1>3. ASSUME NEW c \in Endpoints, AskedInVain(c) PROVE Distinct'
  <2> DEFINE r == asking[c]
  <2>1. r # NoRoom /\ r \in Rooms
    BY <1>3 DEF AskedInVain, IdentityGood
  <2>2. /\ pinned' = pinned /\ relay' = relay
        /\ assigned' \in IF Answers(assigned, r, c) = {} THEN {assigned}
                ELSE {Assign(assigned, r, i, c) : i \in Answers(assigned, r, c)}
    BY <1>3, <2>1, NoRoomGivenUp DEF AskedInVain
  <2>3. CASE assigned' = assigned
    BY <1>0, <2>2, <2>3 DEF NoSharedIdentity, Backed, Registers, Assigned, Unanswered
  <2>4. CASE assigned' # assigned
    <3>1. PICK i \in Answers(assigned, r, c) : assigned' = Assign(assigned, r, i, c)
      BY <2>2, <2>4
    <3>2. i \in Pool /\ \A d \in Endpoints : pinned[d] # <<r, i>>
      BY <2>1, AnswerIsNobodys DEF Answers, Least, FreeIds
    <3>3. \A q \in Rooms, j \in Pool : ~(q = r /\ j = i) =>
            assigned'[q][j] = assigned[q][j]
      BY <1>0, <2>1, <3>1, <3>2 DEF Assign, Tables
    <3>4. NoSharedIdentity'
      BY <2>2 DEF NoSharedIdentity
    <3>5. ASSUME NEW d \in Endpoints, pinned'[d] # NoMember
          PROVE  Registers(d)' \/ Assigned(d)'
      <4>1. CASE Registers(d)
        BY <2>2, <4>1 DEF Registers
      <4>2. CASE Assigned(d)
        <5>1. PICK q \in Rooms, j \in Pool :
                /\ pinned[d] = <<q, j>>
                /\ assigned[q][j].socket # Nobody
                /\ assigned[q][j].age <= MEMBER_TIMEOUT
          BY <4>2 DEF Assigned
        <5>2. assigned'[q][j] = assigned[q][j]
          BY <3>2, <3>3, <5>1
        <5> QED BY <2>2, <5>1, <5>2 DEF Assigned
      <4> QED BY <2>2, <3>5, <4>1, <4>2 DEF Backed
    <3>6. ASSUME NEW q \in Rooms, NEW j \in Pool, NEW d \in Endpoints,
                 assigned'[q][j].socket \in Endpoints
          PROVE  pinned'[d] # <<q, j>>
      BY <2>2, <3>2, <3>3, <3>6 DEF Unanswered
    <3> QED BY <1>0, <3>4, <3>5, <3>6 DEF Backed, Unanswered
  <2> QED BY <2>3, <2>4
<1>4. ASSUME NEW c \in Endpoints, AskAgain(c) PROVE Distinct'
  <2>1. pinned' = pinned /\ relay' = relay /\ assigned' = Closed(assigned, c)
    BY <1>4 DEF AskAgain
  <2>2. \A q \in Rooms, j \in Pool :
          /\ assigned'[q][j].age = assigned[q][j].age
          /\ assigned'[q][j].socket =
               IF assigned[q][j].socket = c THEN OldSocket ELSE assigned[q][j].socket
    BY <1>0, <2>1, ClosedType
  <2>3. NoSharedIdentity'
    BY <2>1 DEF NoSharedIdentity
  <2>4. ASSUME NEW d \in Endpoints, pinned'[d] # NoMember
        PROVE  Registers(d)' \/ Assigned(d)'
    <3>1. CASE Registers(d)
      BY <2>1, <3>1 DEF Registers
    <3>2. CASE Assigned(d)
      BY <2>1, <2>2, <3>2, SocketsAssumption DEF Assigned
    <3> QED BY <2>1, <2>4, <3>1, <3>2 DEF Backed
  <2>5. ASSUME NEW q \in Rooms, NEW j \in Pool, NEW d \in Endpoints,
               assigned'[q][j].socket \in Endpoints
        PROVE  pinned'[d] # <<q, j>>
    BY <2>1, <2>2, <2>5, SocketsAssumption DEF Unanswered
  <2> QED BY <1>0, <2>3, <2>4, <2>5 DEF Backed, Unanswered
<1>5. ASSUME NEW c \in Endpoints, Announce(c) PROVE Distinct'
  <2> DEFINE m == pinned[c]
  <2>1. m \in Members /\ m # NoMember /\ m[1] \in Rooms /\ Register(c, m)
        /\ assigned' = assigned /\ pinned' = pinned
    BY <1>0, <1>5 DEF Announce, Members
  <2>2. relay' = Registered(relay, m, c)
    BY <2>1, NoRoomGivenUp DEF Register
  <2>3. NoSharedIdentity'
    BY <2>1 DEF NoSharedIdentity
  <2>4. ASSUME NEW d \in Endpoints, pinned'[d] # NoMember
        PROVE  Registers(d)' \/ Assigned(d)'
    <3>1. CASE Assigned(d)
      BY <2>1, <3>1 DEF Assigned
    <3>2. CASE Registers(d) /\ d # c
      <4>1. pinned[d] # m /\ relay.at[pinned[d]] # c /\ pinned[d] \in relay.members
        BY <2>1, <2>4, <3>2 DEF NoSharedIdentity, Registers
      <4>2. Good(relay)
        BY DEF IdentityGood
      <4>3. /\ pinned[d] \in relay'.members
            /\ relay'.at[pinned[d]] = relay.at[pinned[d]]
            /\ relay'.age[pinned[d]] = relay.age[pinned[d]]
        BY <1>0, <2>1, <2>2, <4>1, <4>2, RegisteredKeeps
      <4> QED BY <2>1, <3>2, <4>3 DEF Registers
    <3>3. CASE Registers(d) /\ d = c
      <4>1. relay.at[m] = c /\ m \in relay.members
        BY <3>3 DEF Registers
      <4>2. ~Refused(relay, m) /\ Entered(relay, m, c) = relay
        BY <4>1 DEF Refused, Entered
      <4>3. relay.byEndpoint[c] = m
        BY <4>1 DEF IdentityGood, Good, Agree
      <4>4. relay' = Settled(relay, m, c)
        BY <2>2, <4>2, <4>3 DEF Registered, PriorLeft
      <4>5. m \in relay'.members /\ relay'.at[m] = c /\ relay'.age[m] = 0
        BY <1>0, <2>1, <4>1, <4>4 DEF Settled, Relays
      <4> QED BY <2>1, <3>3, <4>5, TimeoutsAssumption DEF Registers
    <3> QED BY <2>1, <2>4, <3>1, <3>2, <3>3 DEF Backed
  <2>5. Unanswered'
    BY <2>1 DEF Unanswered
  <2> QED BY <1>0, <2>3, <2>4, <2>5 DEF Backed
<1>6. ASSUME NEW c \in Endpoints, Close(c) PROVE Distinct'
  <2>1. pinned' = [pinned EXCEPT ![c] = NoMember] /\ relay' = relay
        /\ assigned' = assigned
    BY <1>6 DEF Close
  <2>2. pinned'[c] = NoMember /\ \A d \in Endpoints \ {c} : pinned'[d] = pinned[d]
    BY <1>0, <2>1
  <2>3. NoSharedIdentity'
    BY <2>2 DEF NoSharedIdentity
  <2>4. ASSUME NEW d \in Endpoints, pinned'[d] # NoMember
        PROVE  Registers(d)' \/ Assigned(d)'
    BY <2>1, <2>2, <2>4 DEF Backed, Registers, Assigned
  <2>5. \A r \in Rooms, i \in Pool : <<r, i>> # NoMember
    BY NothingAssumption, PoolAssumption
  <2>6. Unanswered'
    BY <2>1, <2>2, <2>5 DEF Unanswered
  <2> QED BY <1>0, <2>3, <2>4, <2>6 DEF Backed
<1>7. CASE SweepAll
  <2>1. pinned' = pinned /\ assigned' = Released(assigned) /\ relay' = Swept(relay)
    BY <1>7 DEF SweepAll, Sweep
  <2>2. \A r \in Rooms, i \in Pool :
          assigned'[r][i] = IF assigned[r][i].age > MEMBER_TIMEOUT THEN Free
                            ELSE assigned[r][i]
    BY <1>0, <2>1, ReleasedType
  <2>3. NoSharedIdentity'
    BY <2>1 DEF NoSharedIdentity
  <2>4. ASSUME NEW d \in Endpoints, pinned'[d] # NoMember
        PROVE  Registers(d)' \/ Assigned(d)'
    <3>1. CASE Registers(d)
      <4>1. pinned[d] \in Members /\ pinned[d] \notin Silent(relay)
        BY <1>0, <3>1, TimeoutsAssumption DEF Registers, Silent, Relays, Ages
      <4>2. /\ relay'.members = relay.members \ Silent(relay)
            /\ relay'.at = Drop(relay, Silent(relay)).at
            /\ relay'.age = Drop(relay, Silent(relay)).age
        BY <2>1 DEF Swept, Drop
      <4> QED BY <2>1, <3>1, <4>1, <4>2 DEF Registers, Drop
    <3>2. CASE Assigned(d)
      <4>1. PICK q \in Rooms, j \in Pool :
              /\ pinned[d] = <<q, j>>
              /\ assigned[q][j].socket # Nobody
              /\ assigned[q][j].age <= MEMBER_TIMEOUT
        BY <3>2 DEF Assigned
      <4>2. ~(assigned[q][j].age > MEMBER_TIMEOUT)
        BY <1>0, <4>1, TimeoutsAssumption DEF Tables, Assignment, Ages
      <4>3. assigned'[q][j] = assigned[q][j]
        BY <2>2, <4>2
      <4> QED BY <2>1, <4>1, <4>3 DEF Assigned
    <3> QED BY <2>1, <2>4, <3>1, <3>2 DEF Backed
  <2>5. Unanswered'
    BY <2>1, <2>2, NothingAssumption DEF Unanswered, Free
  <2> QED BY <1>0, <2>3, <2>4, <2>5 DEF Backed
<1>8. CASE TickAll
  <2>1. /\ pinned' = pinned /\ assigned' = Aged(assigned) /\ Tick
        /\ \A d \in Endpoints : HeardInTime(d)
    BY <1>8 DEF TickAll
  <2>2. \A r \in Rooms, i \in Pool :
          /\ assigned'[r][i].socket = assigned[r][i].socket
          /\ assigned[r][i].age < MEMBER_TIMEOUT =>
               assigned'[r][i].age <= MEMBER_TIMEOUT
    BY <1>0, <2>1, AgedType
  <2>3. NoSharedIdentity'
    BY <2>1 DEF NoSharedIdentity
  <2>4. ASSUME NEW d \in Endpoints, pinned'[d] # NoMember
        PROVE  Registers(d)' \/ Assigned(d)'
    <3> DEFINE m == pinned[d]
    <3>1. m \in Members
      BY <1>0, <2>1, <2>4
    <3>2. CASE m \in relay.members /\ relay.at[m] = d /\ relay.age[m] < MEMBER_TIMEOUT
      <4>1. relay'.members = relay.members /\ relay'.at = relay.at
        BY <1>0, <2>1 DEF Tick, Relays
      <4>2. relay'.age[m] = relay.age[m] + 1
        BY <1>0, <2>1, <3>1, <3>2, TimeoutsAssumption DEF Tick, Older, Relays, Ages
      <4>3. relay'.age[m] <= MEMBER_TIMEOUT
        BY <1>0, <3>1, <3>2, <4>2, TimeoutsAssumption DEF Relays, Ages
      <4> QED BY <2>1, <3>2, <4>1, <4>3 DEF Registers
    <3>3. CASE /\ m[2] \in Pool
               /\ assigned[m[1]][m[2]].socket # Nobody
               /\ assigned[m[1]][m[2]].age < MEMBER_TIMEOUT
      <4>1. m[1] \in Rooms /\ m = <<m[1], m[2]>>
        BY <3>1 DEF Members
      <4>2. assigned'[m[1]][m[2]].socket # Nobody
            /\ assigned'[m[1]][m[2]].age <= MEMBER_TIMEOUT
        BY <2>2, <3>3, <4>1
      <4> QED BY <2>1, <3>3, <4>1, <4>2 DEF Assigned
    <3>4. HeardInTime(d) /\ m # NoMember
      BY <2>1, <2>4
    <3> QED BY <3>2, <3>3, <3>4 DEF HeardInTime
  <2>5. Unanswered'
    BY <2>1, <2>2 DEF Unanswered
  <2> QED BY <1>0, <2>3, <2>4, <2>5 DEF Backed
<1>9. CASE UNCHANGED vars
  BY <1>0, <1>9 DEF vars, NoSharedIdentity, Backed, Registers, Assigned, Unanswered
<1> QED BY <1>1, <1>2, <1>3, <1>4, <1>5, <1>6, <1>7, <1>8, <1>9 DEF IdentityNext

\* No two clients are the same address in a room, whatever is lost, if each is
\* heard of in time and there are no more rooms than the server holds.
THEOREM NeverSharedIdentity ==
  ASSUME RoomsFit, Timely
  PROVE  IdentitySpec => []NoSharedIdentity
<1>1. IdentityInit => Distinct
  <2>1. ASSUME IdentityInit PROVE IdentityGood
    BY <2>1, IdentityInitGood
  <2>2. ASSUME IdentityInit PROVE NoSharedIdentity /\ Backed
    BY <2>2 DEF IdentityInit, NoSharedIdentity, Backed
  <2>3. ASSUME IdentityInit PROVE Unanswered
    BY <2>3, NothingAssumption DEF IdentityInit, Unanswered, Free
  <2> QED BY <2>1, <2>2, <2>3 DEF Distinct
<1>2. Distinct /\ [IdentityNext]_vars => Distinct'
  BY DistinctNext
<1>3. Distinct => NoSharedIdentity
  BY DEF Distinct
<1> QED BY <1>1, <1>2, <1>3, PTL DEF IdentitySpec

===============================================================================
