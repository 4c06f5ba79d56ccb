------------------------ MODULE NetCommandList_proofs -------------------------
(***************************************************************************)
(* Theorems about NetCommandList, for any commands and acks with the IDs   *)
(* of IDsAssumption: a list is always sorted and its content, whatever the *)
(* order in which it was added (AlwaysOneOrder), and nothing is in it      *)
(* twice (NeverTwice).                                                     *)
(***************************************************************************)
EXTENDS NetCommandList, NaturalsInduction, SequenceTheorems, WellFoundedInduction,
        TLAPS

\* A set of natural numbers that is not empty has a least one.
LEMMA LeastNumber ==
  ASSUME NEW S \in SUBSET Nat, S # {}
  PROVE  Min(S) \in S /\ \A n \in S : Min(S) <= n
<1>1. PICK m \in S : \A n \in S : ~(<<n, m>> \in OpToRel(<, Nat))
  BY NatLessThanWellFounded, WFMin
<1>2. ASSUME NEW n \in S
      PROVE  m <= n
  <2>1. n < m => <<n, m>> \in OpToRel(<, Nat)
    <3>1. <<n, m>> \in Nat \X Nat /\ <<n, m>>[1] = n /\ <<n, m>>[2] = m
      OBVIOUS
    <3>2. QED
      BY <3>1 DEF OpToRel
  <2>2. ~(n < m)
    BY <1>1, <2>1
  <2>3. QED
    BY <2>2
<1>3. QED
  BY <1>2 DEF Min

\* A pass of the search stops at the first node not in `past', all before it
\* being in it.
LEMMA FirstNotIsFirst ==
  ASSUME TypeOK, NEW past \in SUBSET (1 .. Len(list)), NEW from \in 1 .. Len(list) + 1
  PROVE  /\ FirstNot(past, from) \in from .. Len(list) + 1
         /\ FirstNot(past, from) \notin past
         /\ \A i \in from .. FirstNot(past, from) - 1 : i \in past
<1> DEFINE rest == (from .. Len(list) + 1) \ past
<1>1. Len(list) \in Nat
  BY DEF TypeOK
<1>2. rest \in SUBSET Nat /\ Len(list) + 1 \in rest
  BY <1>1
<1>3. FirstNot(past, from) = Min(rest)
  BY DEF FirstNot
<1>4. Min(rest) \in rest /\ \A n \in rest : Min(rest) <= n
  BY <1>2, LeastNumber
<1>5. ASSUME NEW i \in from .. Min(rest) - 1
      PROVE  i \in past
  <2>1. i \in from .. Len(list) + 1 /\ i < Min(rest) /\ ~(Min(rest) <= i)
    BY <1>1, <1>4
  <2>2. i \notin rest
    BY <1>4, <2>1
  <2>3. QED
    BY <2>1, <2>2
<1>6. QED
  BY <1>3, <1>4, <1>5

-------------------------------------------------------------------------------
(* The order.                                                                *)

\* What the messages are (NetCommandMsg and NetAckBothCommandMsg).
LEMMA MessageFields ==
  ASSUME NEW m \in Message
  PROVE  /\ m.type \in Nat /\ m.player \in Nat /\ ID(m) \in Nat
         /\ SortNumber(m) \in Nat
         /\ m \in Acks => ~HasID(m)
BY MessagesAssumption DEF Message, HasID, ID, SortNumber

\* No two messages have the same type, player and sort number.
LEMMA KeysDiffer ==
  ASSUME NEW m \in Message, NEW n \in Message,
         m.type = n.type, m.player = n.player, SortNumber(m) = SortNumber(n)
  PROVE  m = n
<1>1. CASE m \in Commands
  <2>1. n \in Commands
    BY <1>1, MessagesAssumption DEF Message
  <2>2. QED
    BY <1>1, <2>1, IDsAssumption DEF SortNumber, HasID
<1>2. CASE m \in Acks
  <2>1. n \in Acks
    BY <1>2, MessagesAssumption DEF Message
  <2>2. QED
    BY <1>2, <2>1, MessageFields, IDsAssumption DEF SortNumber
<1>3. QED
  BY <1>1, <1>2 DEF Message

\* Before is a total order.
LEMMA BeforeIsIrreflexive ==
  ASSUME NEW m \in Message
  PROVE  ~Before(m, m)
BY MessageFields DEF Before

LEMMA BeforeIsTransitive ==
  ASSUME NEW l \in Message, NEW m \in Message, NEW n \in Message,
         Before(l, m), Before(m, n)
  PROVE  Before(l, n)
BY MessageFields DEF Before

LEMMA BeforeIsTotal ==
  ASSUME NEW m \in Message, NEW n \in Message, ~Before(m, n), m # n
  PROVE  Before(n, m)
BY MessageFields, KeysDiffer DEF Before

\* Two messages are equal to the list only if they are the same
\* (isEqualCommandMsg).
LEMMA EqualIsTheSame ==
  ASSUME NEW m \in Message, NEW n \in Message
  PROVE  IsEqual(m, n) <=> m = n
BY IDsAssumption DEF IsEqual, HasID

-------------------------------------------------------------------------------
(* The place of a message.                                                   *)

\* The inductive invariant: the list is sorted, of any two of its nodes, and is
\* its content.
Sorted == \A i, j \in 1 .. Len(list) : i < j => Before(list[i], list[j])

Good == TypeOK /\ Sorted /\ ToSet(list) = content

\* What is before position p of the list belongs before m, and nothing else.
Fits(m, p) ==
  /\ p \in 1 .. Len(list) + 1
  /\ \A i \in 1 .. Len(list) : i < p <=> Before(list[i], m)

\* The nodes of a list are messages.
LEMMA Nodes ==
  ASSUME TypeOK
  PROVE  /\ Len(list) \in Nat /\ DOMAIN list = 1 .. Len(list)
         /\ \A i \in 1 .. Len(list) : list[i] \in Message
BY DEF TypeOK

\* It suffices to look at the node at p and at those before.
LEMMA FitsThere ==
  ASSUME Good, NEW m \in Message, NEW p \in 1 .. Len(list) + 1,
         \A i \in 1 .. Len(list) : i < p => Before(list[i], m),
         p <= Len(list) => ~Before(list[p], m)
  PROVE  Fits(m, p)
<1>1. TypeOK /\ Sorted
  BY DEF Good
<1>2. ASSUME NEW i \in 1 .. Len(list), Before(list[i], m)
      PROVE  i < p
  <2> SUFFICES ASSUME i >= p PROVE FALSE
    BY <1>1, Nodes
  <2>1. p \in 1 .. Len(list) /\ ~Before(list[p], m)
    BY <1>1, Nodes
  <2>2. i # p
    BY <1>2, <2>1
  <2>3. Before(list[p], list[i])
    BY <1>1, <2>1, <2>2, Nodes DEF Sorted
  <2>4. QED
    BY <1>1, <1>2, <2>1, <2>3, Nodes, BeforeIsTransitive
<1>3. QED
  BY <1>2 DEF Fits

\* The three passes find the place.
LEMMA SearchFits ==
  ASSUME Good, NEW m \in Message
  PROVE  Fits(m, Search(m))
<1> DEFINE lowerType == {i \in DOMAIN list : m.type > list[i].type}
           sameType == {i \in DOMAIN list : m.type = list[i].type}
           lowerPlayer == {i \in sameType : m.player > list[i].player}
           lowerNumber == {i \in sameType : /\ m.player = list[i].player
                                            /\ SortNumber(m) > SortNumber(list[i])}
           p1 == FirstNot(lowerType, 1)
           p2 == FirstNot(lowerPlayer, p1)
           p3 == FirstNot(lowerNumber, p2)
<1> USE Nodes, MessageFields
<1>1. TypeOK /\ Sorted
  BY DEF Good
<1>2. Search(m) = p3
  BY DEF Search
<1>3. /\ lowerType \in SUBSET (1 .. Len(list))
      /\ lowerPlayer \in SUBSET (1 .. Len(list))
      /\ lowerNumber \in SUBSET (1 .. Len(list))
  BY <1>1
<1>4. \A i \in 1 .. Len(list) :
        /\ i \in lowerType <=> list[i].type < m.type
        /\ i \in lowerPlayer <=> list[i].type = m.type /\ list[i].player < m.player
        /\ i \in lowerNumber <=> /\ list[i].type = m.type /\ list[i].player = m.player
                                 /\ SortNumber(list[i]) < SortNumber(m)
  BY <1>1
<1>5. \A i \in 1 .. Len(list) :
        Before(list[i], m) <=> i \in lowerType \cup lowerPlayer \cup lowerNumber
  BY <1>1, <1>4 DEF Before
<1> HIDE DEF lowerType, sameType, lowerPlayer, lowerNumber
<1>6. /\ p1 \in 1 .. Len(list) + 1 /\ p1 \notin lowerType
      /\ \A i \in 1 .. p1 - 1 : i \in lowerType
  BY <1>1, <1>3, FirstNotIsFirst
<1> HIDE DEF p1
<1>7. /\ p2 \in p1 .. Len(list) + 1 /\ p2 \notin lowerPlayer
      /\ \A i \in p1 .. p2 - 1 : i \in lowerPlayer
  BY <1>1, <1>3, <1>6, FirstNotIsFirst
<1> HIDE DEF p2
<1>8. /\ p3 \in p2 .. Len(list) + 1 /\ p3 \notin lowerNumber
      /\ \A i \in p2 .. p3 - 1 : i \in lowerNumber
  BY <1>1, <1>3, <1>6, <1>7, FirstNotIsFirst
<1> HIDE DEF p3
<1>9. Len(list) \in Nat /\ p1 \in Nat /\ p2 \in Nat /\ p3 \in 1 .. Len(list) + 1
  BY <1>1, <1>6, <1>7, <1>8
<1>10. ASSUME NEW i \in 1 .. Len(list), i < p3
       PROVE  Before(list[i], m)
  <2>1. i \in 1 .. p1 - 1 \/ i \in p1 .. p2 - 1 \/ i \in p2 .. p3 - 1
    BY <1>9, <1>10
  <2>2. QED
    BY <1>5, <1>6, <1>7, <1>8, <2>1
<1>11. ASSUME p3 <= Len(list)
       PROVE  ~Before(list[p3], m)
  <2>1. p1 \in 1 .. Len(list) /\ p2 \in 1 .. Len(list) /\ p3 \in 1 .. Len(list)
    BY <1>6, <1>7, <1>8, <1>9, <1>11
  <2>2. /\ p1 = p2 \/ Before(list[p1], list[p2])
        /\ p2 = p3 \/ Before(list[p2], list[p3])
    BY <1>1, <1>7, <1>8, <1>9, <2>1 DEF Sorted
  <2> DEFINE a == list[p1]
             b == list[p2]
             c == list[p3]
  <2>3. a \in Message /\ b \in Message /\ c \in Message
    BY <1>1, <2>1
  <2>4. /\ a.type \in Nat /\ b.type \in Nat /\ c.type \in Nat /\ m.type \in Nat
        /\ b.player \in Nat /\ c.player \in Nat /\ m.player \in Nat
    BY <2>3
  <2>5. (a = b \/ Before(a, b)) /\ (b = c \/ Before(b, c))
    BY <2>2
  <2> HIDE DEF a, b, c
  <2>6. /\ a.type <= b.type
        /\ b.type <= c.type
        /\ b.type = c.type => b.player <= c.player
    BY <2>4, <2>5 DEF Before
  <2>7. ~(a.type < m.type) /\ ~(b.type = m.type /\ b.player < m.player)
    BY <1>4, <1>6, <1>7, <2>1 DEF a, b
  <2>8. ~(c.type < m.type) /\ ~(c.type = m.type /\ c.player < m.player)
    BY <2>4, <2>6, <2>7
  <2>9. p3 \notin lowerType /\ p3 \notin lowerPlayer
    BY <1>4, <2>1, <2>8 DEF c
  <2>10. QED
    BY <1>5, <1>8, <2>1, <2>9
<1>12. QED
  BY <1>2, <1>9, <1>10, <1>11, FitsThere

\* The hint is used only where the message fits.
LEMMA HintFits ==
  ASSUME Good, NEW m \in Message, GoesAfterHint(m)
  PROVE  /\ Fits(m, lastMessageInserted + 1)
         /\ lastMessageInserted < Len(list) =>
              Before(m, list[lastMessageInserted + 1])
<1> DEFINE h == lastMessageInserted
<1>1. TypeOK /\ Sorted
  BY DEF Good
<1>2. h \in 1 .. Len(list) /\ Len(list) \in Nat
  BY <1>1, Nodes DEF TypeOK, GoesAfterHint
<1>3. list[h].type = m.type /\ list[h].player = m.player /\ ID(list[h]) < ID(m)
  BY DEF GoesAfterHint
<1>4. h = Len(list) \/ list[h + 1].type > m.type \/ list[h + 1].player > m.player
        \/ ID(list[h + 1]) > ID(m)
  BY DEF GoesAfterHint
<1> HIDE DEF h
<1>5. list[h] \in Message
  BY <1>1, <1>2, Nodes
<1>6. HasID(m) /\ HasID(list[h])
  <2>1. ID(list[h]) \in Nat /\ ID(m) \in Nat
    BY <1>5, MessageFields
  <2>2. ID(m) # 0
    BY <1>3, <2>1
  <2>3. HasID(m)
    BY <2>2 DEF ID
  <2>4. list[h] \in Commands
    BY <1>3, <1>5, <2>3, MessagesAssumption DEF Message, HasID
  <2>5. QED
    BY <2>3, <2>4 DEF HasID
<1>7. Before(list[h], m)
  BY <1>3, <1>6 DEF Before, ID, SortNumber
<1>8. ASSUME h < Len(list)
      PROVE  Before(m, list[h + 1])
  <2> DEFINE n == list[h + 1]
  <2>1. h + 1 \in 1 .. Len(list) /\ h < h + 1
    BY <1>2, <1>8
  <2>2. n \in Message /\ Before(list[h], n)
    BY <1>1, <1>2, <2>1, Nodes DEF Sorted
  <2>3. h # Len(list)
    BY <1>2, <1>8
  <2> HIDE DEF n
  <2>4. /\ n.type \in Nat /\ n.player \in Nat /\ ID(n) \in Nat
        /\ m.type \in Nat /\ m.player \in Nat /\ ID(m) \in Nat
    BY <2>2, MessageFields
  <2>5. n.type >= m.type /\ (n.type = m.type => n.player >= m.player)
    BY <1>3, <2>2, <2>4 DEF Before
  <2>6. CASE n.type = m.type /\ n.player = m.player
    <3>1. HasID(n)
      BY <1>6, <2>2, <2>6, MessagesAssumption DEF Message, HasID
    <3>2. ID(n) > ID(m)
      <4>1. n.type > m.type \/ n.player > m.player \/ ID(n) > ID(m)
        BY <1>4, <2>3 DEF n
      <4>2. QED
        BY <2>6, <2>4, <4>1
    <3>3. SortNumber(n) = ID(n) /\ SortNumber(m) = ID(m)
      BY <1>6, <3>1 DEF ID, SortNumber
    <3>4. SortNumber(m) < SortNumber(n)
      BY <2>4, <3>2, <3>3
    <3>5. QED
      BY <2>6, <3>4 DEF Before, n
  <2>7. CASE ~(n.type = m.type /\ n.player = m.player)
    BY <2>4, <2>5, <2>7 DEF Before, n
  <2>8. QED
    BY <2>6, <2>7
<1>9. \A i \in 1 .. Len(list) : i < h + 1 => Before(list[i], m)
  <2> SUFFICES ASSUME NEW i \in 1 .. Len(list), i < h + 1
               PROVE  Before(list[i], m)
    OBVIOUS
  <2>1. i = h \/ i < h
    BY <1>2
  <2>2. CASE i < h
    BY <1>1, <1>2, <1>5, <1>7, <2>2, Nodes, BeforeIsTransitive DEF Sorted
  <2>3. QED
    BY <1>7, <2>1, <2>2
<1>10. ASSUME h + 1 <= Len(list)
       PROVE  ~Before(list[h + 1], m)
  <2>1. h + 1 \in 1 .. Len(list) /\ h < Len(list)
    BY <1>2, <1>10
  <2>2. Before(m, list[h + 1]) /\ list[h + 1] \in Message
    BY <1>1, <1>8, <2>1, Nodes
  <2>3. QED
    BY <2>2, BeforeIsTransitive, BeforeIsIrreflexive
<1>11. h + 1 \in 1 .. Len(list) + 1
  BY <1>2
<1>12. Fits(m, h + 1)
  BY <1>9, <1>10, <1>11, FitsThere
<1>13. QED
  BY <1>8, <1>12 DEF h

\* Every short cut finds the place.
LEMMA PositionFits ==
  ASSUME Good, NEW m \in Message
  PROVE  Fits(m, Position(m))
<1>1. TypeOK /\ Sorted
  BY DEF Good
<1> USE Nodes
<1>2. CASE list = << >>
  BY <1>2 DEF Position, Fits
<1>3. CASE list # << >> /\ GoesAfterHint(m)
  BY <1>3, HintFits DEF Position
<1>4. ASSUME list # << >>
      PROVE  Len(list) \in 1 .. Len(list) /\ 1 \in 1 .. Len(list)
  BY <1>1, <1>4 DEF TypeOK
<1>5. CASE list # << >> /\ ~GoesAfterHint(m) /\ m.type > Last(list).type
  <2>1. Position(m) = Len(list) + 1
    BY <1>5 DEF Position
  <2>2. Before(list[Len(list)], m)
    BY <1>5 DEF Last, Before
  <2>3. ASSUME NEW i \in 1 .. Len(list)
        PROVE  Before(list[i], m)
    <3>1. i = Len(list) \/ i < Len(list)
      <4>1. Len(list) \in Nat
        BY <1>1
      <4>2. QED
        BY <4>1
    <3>2. CASE i < Len(list)
      BY <1>1, <1>4, <1>5, <2>2, <3>2, BeforeIsTransitive DEF Sorted
    <3>3. QED
      BY <2>2, <3>1, <3>2
  <2>4. QED
    BY <1>1, <2>1, <2>3 DEF Fits
<1>6. CASE /\ list # << >> /\ ~GoesAfterHint(m) /\ ~(m.type > Last(list).type)
           /\ m.type < Head(list).type
  <2>1. Position(m) = 1
    BY <1>6 DEF Position
  <2>2. ~Before(list[1], m)
    BY <1>1, <1>4, <1>6, MessageFields DEF Before
  <2>3. 1 \in 1 .. Len(list) + 1 /\ \A i \in 1 .. Len(list) : ~(i < 1)
    BY <1>1
  <2>4. QED
    BY <2>1, <2>2, <2>3, FitsThere
<1>7. CASE /\ list # << >> /\ ~GoesAfterHint(m) /\ ~(m.type > Last(list).type)
           /\ ~(m.type < Head(list).type)
  BY <1>7, SearchFits DEF Position
<1>8. QED
  BY <1>2, <1>3, <1>5, <1>6, <1>7

\* A copy is recognised if there is one, wherever the place was found.
LEMMA InPlaceMeansInList ==
  ASSUME Good, NEW m \in Message
  PROVE  IsInPlace(m) <=> m \in ToSet(list)
<1> DEFINE p == Position(m)
<1>1. TypeOK /\ Sorted
  BY DEF Good
<1> USE Nodes
<1>2. Fits(m, p)
  BY PositionFits
<1>3. p \in 1 .. Len(list) + 1
  BY <1>2 DEF Fits
<1>4. ASSUME IsInPlace(m)
      PROVE  m \in ToSet(list)
  <2> DEFINE i == IF p > Len(list) THEN Len(list) ELSE p
  <2>1. list # << >> /\ IsEqual(list[i], m)
    BY <1>4 DEF IsInPlace
  <2>2. i \in 1 .. Len(list)
    BY <1>1, <1>3, <2>1 DEF TypeOK
  <2> HIDE DEF i
  <2>3. list[i] = m
    BY <1>1, <2>1, <2>2, EqualIsTheSame
  <2>4. QED
    BY <1>1, <2>2, <2>3 DEF ToSet
<1>5. ASSUME m \in ToSet(list)
      PROVE  IsInPlace(m)
  <2>1. PICK k \in 1 .. Len(list) : list[k] = m
    BY <1>1, <1>5 DEF ToSet
  <2>2. k >= p
    BY <1>1, <1>2, <1>3, <2>1, BeforeIsIrreflexive DEF Fits
  <2>3. p \in 1 .. Len(list) /\ ~(p < p)
    BY <1>1, <1>3, <2>1, <2>2
  <2>4. ~Before(list[p], m)
    BY <1>2, <2>3 DEF Fits
  <2>5. k = p
    <3> SUFFICES ASSUME k # p PROVE FALSE
      OBVIOUS
    <3>1. p < k
      BY <1>1, <2>1, <2>2, <2>3
    <3>2. QED
      BY <1>1, <2>1, <2>3, <2>4, <3>1 DEF Sorted
  <2>6. ~GoesAfterHint(m)
    <3> SUFFICES ASSUME GoesAfterHint(m) PROVE FALSE
      OBVIOUS
    <3>1. list # << >>
      BY <1>1, <2>1
    <3>2. p = lastMessageInserted + 1 /\ lastMessageInserted \in Nat
      BY <1>1, <3>1 DEF Position, TypeOK
    <3>3. Before(m, list[p])
      BY <1>1, <2>3, <3>2, HintFits
    <3>4. QED
      BY <2>1, <2>5, <3>3, BeforeIsIrreflexive
  <2>7. IsEqual(list[p], m)
    BY <1>1, <2>1, <2>5, EqualIsTheSame
  <2>8. list # << >> /\ ~(p > Len(list))
    BY <1>1, <2>3
  <2> HIDE DEF p
  <2>9. QED
    BY <2>6, <2>7, <2>8 DEF IsInPlace, p
<1>6. QED
  BY <1>4, <1>5
-------------------------------------------------------------------------------
(* The steps.                                                                *)

\* What InsertAt returns.
LEMMA InsertShape ==
  ASSUME NEW S, NEW s \in Seq(S), NEW e \in S, NEW p \in 1 .. Len(s) + 1
  PROVE  /\ InsertAt(s, p, e) \in Seq(S)
         /\ Len(InsertAt(s, p, e)) = Len(s) + 1
         /\ \A i \in 1 .. Len(s) + 1 :
              /\ i < p => InsertAt(s, p, e)[i] = s[i]
              /\ i = p => InsertAt(s, p, e)[i] = e
              /\ i > p => InsertAt(s, p, e)[i] = s[i - 1]
<1> DEFINE a == SubSeq(s, 1, p - 1)
           b == SubSeq(s, p, Len(s))
<1>1. Len(s) \in Nat /\ p \in Nat /\ p - 1 \in 0 .. Len(s) /\ p >= 1 /\ p <= Len(s) + 1
  OBVIOUS
<1>2. a \in Seq(S) /\ Len(a) = p - 1 /\ \A i \in 1 .. p - 1 : a[i] = s[i]
  BY <1>1
<1>3. b \in Seq(S) /\ Len(b) = Len(s) + 1 - p
        /\ \A i \in 1 .. Len(s) + 1 - p : b[i] = s[i + p - 1]
  BY <1>1
<1> HIDE DEF a, b
<1> DEFINE c == a \o <<e>>
<1>4. c \in Seq(S) /\ Len(c) = p /\ \A i \in 1 .. p : c[i] = IF i < p THEN a[i] ELSE e
  BY <1>1, <1>2
<1> HIDE DEF c
<1>5. /\ c \o b \in Seq(S)
      /\ Len(c \o b) = Len(s) + 1
      /\ \A i \in 1 .. Len(s) + 1 : (c \o b)[i] = IF i <= p THEN c[i] ELSE b[i - p]
  <2>1. Len(c) = p /\ Len(c) + Len(b) = Len(s) + 1
    BY <1>1, <1>3, <1>4
  <2>2. /\ c \o b \in Seq(S)
        /\ Len(c \o b) = Len(c) + Len(b)
        /\ \A i \in 1 .. Len(c) + Len(b) :
             (c \o b)[i] = IF i <= Len(c) THEN c[i] ELSE b[i - Len(c)]
    BY <1>3, <1>4, ConcatProperties
  <2>3. QED
    BY <2>1, <2>2
<1>6. ASSUME NEW i \in 1 .. Len(s) + 1
      PROVE  /\ i < p => (c \o b)[i] = s[i]
             /\ i = p => (c \o b)[i] = e
             /\ i > p => (c \o b)[i] = s[i - 1]
  <2>1. CASE i <= p
    <3>1. (c \o b)[i] = c[i] /\ i \in 1 .. p
      BY <1>1, <1>5, <2>1
    <3>2. c[i] = IF i < p THEN a[i] ELSE e
      BY <1>4, <3>1
    <3>3. i < p => a[i] = s[i]
      BY <1>1, <1>2, <3>1
    <3>4. QED
      BY <1>1, <2>1, <3>1, <3>2, <3>3
  <2>2. CASE i > p
    <3>1. i - p \in 1 .. Len(s) + 1 - p /\ i - p + p - 1 = i - 1
      BY <1>1, <2>2
    <3>2. b[i - p] = s[i - 1]
      BY <1>3, <3>1
    <3>3. (c \o b)[i] = b[i - p]
      BY <1>1, <1>5, <2>2
    <3>4. ~(i < p) /\ i # p
      BY <1>1, <2>2
    <3>5. QED
      BY <3>2, <3>3, <3>4
  <2>3. i <= p \/ i > p
    BY <1>1
  <2>4. QED
    BY <2>1, <2>2, <2>3
<1>7. InsertAt(s, p, e) = c \o b
  BY DEF InsertAt, a, b, c
<1>8. QED
  BY <1>5, <1>6, <1>7

\* What RemoveAt returns.
LEMMA RemoveShape ==
  ASSUME NEW S, NEW s \in Seq(S), NEW p \in 1 .. Len(s)
  PROVE  /\ RemoveAt(s, p) \in Seq(S)
         /\ Len(RemoveAt(s, p)) = Len(s) - 1
         /\ \A i \in 1 .. Len(s) - 1 :
              RemoveAt(s, p)[i] = IF i < p THEN s[i] ELSE s[i + 1]
<1> DEFINE a == SubSeq(s, 1, p - 1)
           b == SubSeq(s, p + 1, Len(s))
<1>1. Len(s) \in Nat /\ p \in Nat /\ p - 1 \in 0 .. Len(s) /\ p >= 1 /\ p <= Len(s)
  OBVIOUS
<1>2. a \in Seq(S) /\ Len(a) = p - 1 /\ \A i \in 1 .. p - 1 : a[i] = s[i]
  BY <1>1
<1>3. b \in Seq(S) /\ Len(b) = Len(s) - p
        /\ \A i \in 1 .. Len(s) - p : b[i] = s[i + p]
  BY <1>1
<1> HIDE DEF a, b
<1>4. /\ a \o b \in Seq(S)
      /\ Len(a \o b) = Len(s) - 1
      /\ \A i \in 1 .. Len(s) - 1 :
           (a \o b)[i] = IF i <= p - 1 THEN a[i] ELSE b[i - (p - 1)]
  <2>1. Len(a) = p - 1 /\ Len(a) + Len(b) = Len(s) - 1
    BY <1>1, <1>2, <1>3
  <2>2. /\ a \o b \in Seq(S)
        /\ Len(a \o b) = Len(a) + Len(b)
        /\ \A i \in 1 .. Len(a) + Len(b) :
             (a \o b)[i] = IF i <= Len(a) THEN a[i] ELSE b[i - Len(a)]
    BY <1>2, <1>3, ConcatProperties
  <2>3. QED
    BY <2>1, <2>2
<1>5. ASSUME NEW i \in 1 .. Len(s) - 1
      PROVE  (a \o b)[i] = IF i < p THEN s[i] ELSE s[i + 1]
  <2>1. CASE i < p
    <3>1. (a \o b)[i] = a[i]
      BY <1>1, <1>4, <2>1
    <3>2. a[i] = s[i]
      BY <1>1, <1>2, <2>1
    <3>3. QED
      BY <2>1, <3>1, <3>2
  <2>2. CASE i >= p
    <3>1. i - (p - 1) \in 1 .. Len(s) - p /\ i - (p - 1) + p = i + 1
      BY <1>1, <2>2
    <3>2. b[i - (p - 1)] = s[i + 1]
      BY <1>3, <3>1
    <3>3. (a \o b)[i] = b[i - (p - 1)]
      BY <1>1, <1>4, <2>2
    <3>4. ~(i < p)
      BY <1>1, <2>2
    <3>5. QED
      BY <3>2, <3>3, <3>4
  <2>3. i < p \/ i >= p
    BY <1>1
  <2>4. QED
    BY <2>1, <2>2, <2>3
<1>6. RemoveAt(s, p) = a \o b
  BY DEF RemoveAt, a, b
<1>7. QED
  BY <1>4, <1>5, <1>6

\* A message that is not in a sorted list keeps it sorted where it fits.
LEMMA InsertIsGood ==
  ASSUME Good, NEW m \in Message, m \notin ToSet(list), NEW p, Fits(m, p),
         list' = InsertAt(list, p, m), content' = content \cup {m},
         lastMessageInserted' = p
  PROVE  Good'
<1> USE Nodes
<1>1. TypeOK /\ Sorted /\ ToSet(list) = content
  BY DEF Good
<1>2. /\ p \in 1 .. Len(list) + 1 /\ Len(list) \in Nat
      /\ \A i \in 1 .. Len(list) : i < p <=> Before(list[i], m)
  BY <1>1 DEF Fits
<1>3. /\ list' \in Seq(Message)
      /\ Len(list') = Len(list) + 1
      /\ \A i \in 1 .. Len(list) + 1 :
           /\ i < p => list'[i] = list[i]
           /\ i = p => list'[i] = m
           /\ i > p => list'[i] = list[i - 1]
  <2>1. list \in Seq(Message) /\ list' = InsertAt(list, p, m)
    BY <1>1 DEF TypeOK
  <2>2. p \in 1 .. Len(list) + 1
    BY <1>2
  <2> DEFINE new == InsertAt(list, p, m)
  <2>3. /\ new \in Seq(Message)
        /\ Len(new) = Len(list) + 1
        /\ \A i \in 1 .. Len(list) + 1 :
             /\ i < p => new[i] = list[i]
             /\ i = p => new[i] = m
             /\ i > p => new[i] = list[i - 1]
    <3>1. list \in Seq(Message) /\ m \in Message
      BY <2>1
    <3>2. QED
      BY ONLY <2>2, <3>1, InsertShape
  <2>4. list' = new
    BY <2>1
  <2> HIDE DEF new
  <2>5. QED
    BY <2>3, <2>4
<1>4. ASSUME NEW i \in 1 .. Len(list), i >= p
      PROVE  Before(m, list[i])
  <2>1. ~Before(list[i], m)
    BY <1>2, <1>4
  <2>2. list[i] # m
    BY <1>1 DEF ToSet
  <2>3. QED
    BY <1>1, <2>1, <2>2, BeforeIsTotal
<1>5. Sorted'
  <2> SUFFICES ASSUME NEW i \in 1 .. Len(list) + 1, NEW j \in 1 .. Len(list) + 1, i < j
               PROVE  Before(list'[i], list'[j])
    BY <1>3 DEF Sorted
  <2>1. CASE j < p
    <3>1. list'[i] = list[i] /\ list'[j] = list[j]
          /\ i \in 1 .. Len(list) /\ j \in 1 .. Len(list)
      BY <1>2, <1>3, <2>1
    <3>2. QED
      BY <1>1, <3>1 DEF Sorted
  <2>2. CASE j = p
    <3>1. list'[i] = list[i] /\ list'[j] = m /\ i \in 1 .. Len(list) /\ i < p
      BY <1>2, <1>3, <2>2
    <3>2. QED
      BY <1>2, <3>1
  <2>3. CASE j > p
    <3>1. list'[j] = list[j - 1] /\ j - 1 \in 1 .. Len(list) /\ j - 1 >= p
      BY <1>2, <1>3, <2>3
    <3>2. CASE i < p
      <4>1. list'[i] = list[i] /\ i \in 1 .. Len(list) /\ i < j - 1
        BY <1>2, <1>3, <2>3, <3>2
      <4>2. QED
        BY <1>1, <3>1, <4>1 DEF Sorted
    <3>3. CASE i = p
      BY <1>3, <1>4, <3>1, <3>3
    <3>4. CASE i > p
      <4>1. list'[i] = list[i - 1] /\ i - 1 \in 1 .. Len(list) /\ i - 1 < j - 1
        BY <1>2, <1>3, <2>3, <3>4
      <4>2. QED
        BY <1>1, <3>1, <4>1 DEF Sorted
    <3>5. QED
      BY <1>2, <3>2, <3>3, <3>4
  <2>4. QED
    BY <1>2, <2>1, <2>2, <2>3
<1>6. ToSet(list') = content'
  <2>1. DOMAIN list' = 1 .. Len(list) + 1
    BY <1>3
  <2>2. ASSUME NEW i \in 1 .. Len(list) + 1
        PROVE  list'[i] \in ToSet(list) \cup {m}
    <3>1. CASE i < p
      BY <1>1, <1>2, <1>3, <3>1 DEF ToSet
    <3>2. CASE i = p
      BY <1>3, <3>2
    <3>3. CASE i > p
      <4>1. list'[i] = list[i - 1] /\ i - 1 \in 1 .. Len(list)
        BY <1>2, <1>3, <3>3
      <4>2. QED
        BY <1>1, <4>1 DEF ToSet
    <3>4. QED
      BY <1>2, <3>1, <3>2, <3>3
  <2>3. ASSUME NEW i \in 1 .. Len(list)
        PROVE  list[i] \in ToSet(list')
    <3>1. CASE i < p
      <4>1. list'[i] = list[i] /\ i \in 1 .. Len(list) + 1
        BY <1>2, <1>3, <3>1
      <4>2. QED
        BY <2>1, <4>1 DEF ToSet
    <3>2. CASE i >= p
      <4>1. list'[i + 1] = list[i + 1 - 1] /\ i + 1 - 1 = i /\ i + 1 \in 1 .. Len(list) + 1
        BY <1>2, <1>3, <3>2
      <4>2. QED
        BY <2>1, <4>1 DEF ToSet
    <3>3. QED
      BY <1>2, <3>1, <3>2
  <2>4. m \in ToSet(list')
    BY <1>2, <1>3, <2>1 DEF ToSet
  <2>5. ToSet(list') \subseteq ToSet(list) \cup {m}
    BY <2>1, <2>2 DEF ToSet
  <2>6. ToSet(list) \subseteq ToSet(list')
    BY <1>1, <2>3 DEF ToSet
  <2>7. QED
    BY <1>1, <2>4, <2>5, <2>6
<1>7. TypeOK'
  BY <1>1, <1>2, <1>3 DEF TypeOK
<1>8. QED
  BY <1>5, <1>6, <1>7 DEF Good

\* Removing a node leaves the others in their order.
LEMMA RemoveIsGood ==
  ASSUME Good, NEW k \in 1 .. Len(list), RemoveMessage(k)
  PROVE  Good'
<1> USE Nodes
<1>1. TypeOK /\ Sorted /\ ToSet(list) = content
  BY DEF Good
<1>2. Len(list) \in Nat /\ Len(list) - 1 \in Nat /\ k \in Nat /\ k >= 1
  BY <1>1
<1>3. /\ list' \in Seq(Message)
      /\ Len(list') = Len(list) - 1
      /\ \A i \in 1 .. Len(list) - 1 : list'[i] = IF i < k THEN list[i] ELSE list[i + 1]
  BY <1>1, RemoveShape DEF TypeOK, RemoveMessage
<1> DEFINE old(i) == IF i < k THEN i ELSE i + 1
<1>4. \A i \in 1 .. Len(list) - 1 :
        /\ old(i) \in 1 .. Len(list) /\ old(i) # k
        /\ list'[i] = list[old(i)]
  BY <1>2, <1>3
<1>5. Sorted'
  <2> SUFFICES ASSUME NEW i \in 1 .. Len(list) - 1, NEW j \in 1 .. Len(list) - 1, i < j
               PROVE  Before(list'[i], list'[j])
    BY <1>3 DEF Sorted
  <2>1. old(i) < old(j)
    BY <1>2
  <2>2. QED
    BY <1>1, <1>4, <2>1 DEF Sorted
<1>6. \A i \in 1 .. Len(list) : i # k => list[i] # list[k]
  <2> SUFFICES ASSUME NEW i \in 1 .. Len(list), i # k, list[i] = list[k] PROVE FALSE
    OBVIOUS
  <2>1. Before(list[i], list[k]) \/ Before(list[k], list[i])
    <3>1. i < k \/ k < i
      BY <1>2
    <3>2. QED
      BY <1>1, <3>1 DEF Sorted
  <2>2. list[k] \in Message
    BY <1>1
  <2>3. QED
    BY <2>1, <2>2, BeforeIsIrreflexive
<1>7. ToSet(list') = content'
  <2>1. DOMAIN list' = 1 .. Len(list) - 1
    BY <1>3
  <2>2. ASSUME NEW i \in 1 .. Len(list), i # k
        PROVE  list[i] \in ToSet(list')
    <3>1. PICK j \in 1 .. Len(list) - 1 : old(j) = i
      <4>1. CASE i < k
        BY <1>2, <4>1
      <4>2. CASE i > k
        <5>1. i - 1 \in 1 .. Len(list) - 1 /\ old(i - 1) = i
          BY <1>2, <4>2
        <5>2. QED
          BY <5>1
      <4>3. QED
        BY <1>2, <2>2, <4>1, <4>2
    <3>2. list'[j] = list[i]
      BY <1>4, <3>1
    <3>3. QED
      BY <2>1, <3>2 DEF ToSet
  <2>3. ToSet(list') \subseteq ToSet(list) \ {list[k]}
    BY <1>1, <1>4, <1>6, <2>1 DEF ToSet
  <2>4. ToSet(list) \ {list[k]} \subseteq ToSet(list')
    BY <1>1, <2>2 DEF ToSet
  <2>5. content' = content \ {list[k]}
    BY DEF RemoveMessage
  <2>6. QED
    BY <1>1, <2>3, <2>4, <2>5
<1>8. TypeOK'
  <2>1. lastMessageInserted' \in 0 .. Len(list) - 1
    BY <1>1, <1>2 DEF RemoveMessage, TypeOK
  <2>2. content' \subseteq Message
    BY <1>1 DEF RemoveMessage, TypeOK
  <2>3. QED
    BY <1>3, <2>1, <2>2 DEF TypeOK
<1>9. QED
  BY <1>5, <1>7, <1>8 DEF Good

\* addMessage as a whole: a copy changes nothing, whatever the hint is.
LEMMA AddIsGood ==
  ASSUME Good, NEW m \in Message, AddMessage(m)
  PROVE  Good'
<1>1. TypeOK /\ ToSet(list) = content
  BY DEF Good
<1>2. CASE IsInPlace(m)
  <2>1. m \in content
    BY <1>1, <1>2, InPlaceMeansInList
  <2>2. UNCHANGED vars
    BY <1>2, <2>1 DEF AddMessage, vars
  <2>3. QED
    BY <2>2 DEF Good, TypeOK, Sorted, vars
<1>3. CASE ~IsInPlace(m)
  <2>1. m \notin ToSet(list)
    BY <1>3, InPlaceMeansInList
  <2>2. Fits(m, Position(m))
    BY PositionFits
  <2>3. QED
    BY <1>3, <2>1, <2>2, InsertIsGood DEF AddMessage
<1>4. QED
  BY <1>2, <1>3

\* A new list, and one that was reset.
LEMMA EmptyIsGood ==
  ASSUME list = << >>, lastMessageInserted = 0, content = {}
  PROVE  Good
BY DEF Good, TypeOK, Sorted, ToSet

\* The invariant is inductive: the list is sorted and its content, and the hint
\* is one of its nodes or none.
LEMMA GoodIsInductive ==
  Spec => []Good
<1>1. Init => Good
  BY EmptyIsGood DEF Init
<1>2. Good /\ [Next]_vars => Good'
  <2> SUFFICES ASSUME Good, [Next]_vars PROVE Good'
    OBVIOUS
  <2>1. ASSUME NEW m \in Message, AddMessage(m)
        PROVE  Good'
    BY <2>1, AddIsGood
  <2>2. ASSUME NEW i \in 1 .. Len(list), RemoveMessage(i)
        PROVE  Good'
    BY <2>2, RemoveIsGood
  <2>3. CASE Reset
    <3>1. list' = << >> /\ lastMessageInserted' = 0 /\ content' = {}
      BY <2>3 DEF Reset
    <3>2. QED
      BY <3>1 DEF Good, TypeOK, Sorted, ToSet
  <2>4. CASE UNCHANGED vars
    BY <2>4 DEF Good, TypeOK, Sorted, vars
  <2>5. QED
    BY <2>1, <2>2, <2>3, <2>4 DEF Next
<1>3. QED
  BY <1>1, <1>2, PTL DEF Spec

\* The hint never leaves the list.
THEOREM TypeCorrect ==
  Spec => []TypeOK
<1>1. Good => TypeOK
  BY DEF Good
<1>2. QED
  BY <1>1, GoodIsInductive, PTL

\* Whatever was added, in whatever order, with copies, and removed in between,
\* the list is the sequence of what is left in the order of type, player and
\* sort number (addMessage and removeMessage): two computers that were given the
\* same commands of a frame execute them in the same order.
THEOREM AlwaysOneOrder ==
  Spec => []OneOrder
<1>1. Good => OneOrder
  <2> SUFFICES ASSUME Good PROVE OneOrder
    OBVIOUS
  <2>1. TypeOK /\ Sorted /\ ToSet(list) = content
    BY DEF Good
  <2>2. ASSUME NEW i \in 1 .. Len(list) - 1
        PROVE  Before(list[i], list[i + 1])
    <3>1. i \in 1 .. Len(list) /\ i + 1 \in 1 .. Len(list) /\ i < i + 1
      BY <2>1, Nodes
    <3>2. QED
      BY <2>1, <3>1 DEF Sorted
  <2>3. QED
    BY <2>1, <2>2 DEF OneOrder
<1>2. QED
  BY <1>1, GoodIsInductive, PTL

\* No message is in the list twice (isEqualCommandMsg in addMessage), whichever
\* short cut found its place.
THEOREM NeverTwice ==
  Spec => []NothingTwice
<1>1. Good => NothingTwice
  <2> SUFFICES ASSUME Good, NEW i \in 1 .. Len(list), NEW j \in 1 .. Len(list), i # j,
                      IsEqual(list[i], list[j])
               PROVE  FALSE
    BY DEF NothingTwice
  <2>1. TypeOK /\ Sorted
    BY DEF Good
  <2>2. list[i] \in Message /\ list[j] \in Message
    BY <2>1, Nodes
  <2>3. list[i] = list[j]
    BY <2>2, EqualIsTheSame
  <2>4. i < j \/ j < i
    BY <2>1, Nodes
  <2>5. Before(list[i], list[j]) \/ Before(list[j], list[i])
    BY <2>1, <2>4 DEF Sorted
  <2>6. QED
    BY <2>2, <2>3, <2>5, BeforeIsIrreflexive
<1>2. QED
  BY <1>1, GoodIsInductive, PTL

==============================================================================
