----------------------------- MODULE Relay_proofs -----------------------------
(***************************************************************************)
(* Theorems about Relay, for any players, commands, run-ahead and leaves.  *)
(* Types hold for all of them.  That no command is lost is proved for      *)
(* games in which player 0, the packet router, stays (RouterStays): others *)
(* leave at any frame, with commands of theirs or of others on the way.    *)
(***************************************************************************)
EXTENDS Relay, WellFoundedInduction, TLAPS

\* Player 0 is the smallest slot and so the packet router until he leaves.
RouterStays == LeaveFrame[0] = Never

\* A NetCommandList: one reference to each command.
Lists == {list \in SUBSET Ref : \A r, s \in list : r.cmd = s.cmd => r = s}
Rows == [Players -> Lists]

-------------------------------------------------------------------------------
(* Who is in the game.                                                       *)

\* A set of natural numbers that is not empty has a least one.
LEMMA LeastNumber ==
  ASSUME NEW S \in SUBSET Nat, S # {}
  PROVE  Min(S) \in S /\ \A n \in S : Min(S) <= n
<1>1. PICK m \in S : \A n \in S : ~(<<n, m>> \in OpToRel(<, Nat))
  BY NatLessThanWellFounded, WFMin
<1>2. ASSUME NEW n \in S
      PROVE  m <= n
  <2>1. n < m => <<n, m>> \in OpToRel(<, Nat)
    <3>1. <<n, m>> \in Nat \X Nat /\ <<n, m>>[1] = n /\ <<n, m>>[2] = m
      OBVIOUS
    <3>2. QED
      BY <3>1 DEF OpToRel
  <2>2. ~(n < m)
    BY <1>1, <2>1
  <2>3. QED
    BY <2>2
<1>3. QED
  BY <1>2 DEF Min

\* While somebody is in the game, one of the players is the packet router.
LEMMA RouterIsAPlayer ==
  ASSUME NEW f, NEW p \in Players, ~LeftBefore(p, f)
  PROVE  Router(f) \in Players
<1> DEFINE S == {q \in Players : ~LeftBefore(q, f)}
<1>1. S \in SUBSET Nat /\ p \in S
  BY PlayersAssumption
<1>2. Min(S) \in S
  BY <1>1, LeastNumber
<1>3. QED
  BY <1>2 DEF Router

\* Nobody has a connection to himself, and all are to players.
LEMMA OpenArePlayers ==
  ASSUME NEW p, NEW f
  PROVE  Open(p, f) \subseteq Players \ {p}
BY DEF Open

-------------------------------------------------------------------------------
(* Lists and queues.                                                         *)

\* Added never puts a command into a list twice.
LEMMA AddedType ==
  ASSUME NEW list \in Lists, NEW refs \in Lists
  PROVE  Added(list, refs) \in Lists
BY DEF Added, Lists

\* A list without a command is a list.
LEMMA WithoutType ==
  ASSUME NEW list \in Lists, NEW c
  PROVE  Without(list, c) \in Lists
BY DEF Without, Lists

\* References with one player less to relay to.
LEMMA NarrowedType ==
  ASSUME NEW refs \in Lists, NEW p
  PROVE  {[r EXCEPT !.relay = @ \ {p}] : r \in refs} \in Lists
<1> DEFINE narrow(r) == [r EXCEPT !.relay = @ \ {p}]
           narrowed == {narrow(r) : r \in refs}
<1>1. \A r \in refs : r \in Ref /\ narrow(r) \in Ref /\ narrow(r).cmd = r.cmd
  BY DEF Lists, Ref
<1>2. narrowed \subseteq Ref
  BY <1>1
<1>3. ASSUME NEW r \in narrowed, NEW s \in narrowed, r.cmd = s.cmd
      PROVE  r = s
  <2>1. PICK u \in refs : r = narrow(u)
    OBVIOUS
  <2>2. PICK v \in refs : s = narrow(v)
    OBVIOUS
  <2>3. u.cmd = v.cmd
    BY <1>1, <1>3, <2>1, <2>2
  <2>4. u = v
    BY <2>3 DEF Lists
  <2>5. QED
    BY <2>1, <2>2, <2>4
<1>4. QED
  BY <1>2, <1>3 DEF Lists

\* Sending directly leaves a list in every queue.
LEMMA SentDirectlyType ==
  ASSUME NEW row \in Rows, NEW refs \in Lists, NEW to
  PROVE  SentDirectly(row, refs, to) \in Rows
<1> DEFINE refsTo(q) == {[cmd |-> r.cmd, relay |-> {q}] :
                           r \in {s \in refs : q \in s.relay}}
<1>1. ASSUME NEW q \in Players
      PROVE  refsTo(q) \in Lists
  BY DEF Lists, Ref
<1> HIDE DEF refsTo
<1>2. ASSUME NEW q \in Players
      PROVE  row[q] \in Lists /\ Added(row[q], refsTo(q)) \in Lists
  BY <1>1, AddedType DEF Rows
<1>3. SentDirectly(row, refs, to) =
        [q \in Players |-> IF q \in to THEN Added(row[q], refsTo(q)) ELSE row[q]]
  BY DEF SentDirectly, refsTo
<1>4. QED
  BY <1>2, <1>3 DEF Rows

\* So does sending a command of one's own.
LEMMA SentLocallyType ==
  ASSUME NEW row \in Rows, NEW refs \in Lists, NEW f, NEW p \in Players
  PROVE  SentLocally(p, f, row, refs) \in Rows
<1> DEFINE narrowed == {[r EXCEPT !.relay = @ \ {p}] : r \in refs}
<1>1. narrowed \in Lists
  BY NarrowedType
<1> HIDE DEF narrowed
<1>2. CASE Router(f) = p
  BY <1>2, SentDirectlyType DEF SentLocally
<1>3. CASE Router(f) # p
  <2>1. SentLocally(p, f, row, refs) = [row EXCEPT ![Router(f)] = Added(@, narrowed)]
    BY <1>3 DEF SentLocally, narrowed
  <2>2. \A q \in Players : Added(row[q], narrowed) \in Lists
    BY <1>1, AddedType DEF Rows
  <2>3. QED
    BY <2>1, <2>2 DEF Rows
<1>4. QED
  BY <1>2, <1>3

\* The pending commands stay a list.
LEMMA PendingWithType ==
  ASSUME NEW list \in Lists, NEW refs \in Lists, NEW f, NEW p
  PROVE  PendingWith(p, f, list, refs) \in Lists
BY AddedType, NarrowedType DEF PendingWith

\* Sending the pending commands again leaves a list in every queue.
LEMMA PendingResentType ==
  ASSUME NEW row \in Rows, pending \in [Players -> Lists], NEW p \in Players, NEW f
  PROVE  PendingResent(p, f, row) \in Rows
BY SentLocallyType DEF PendingResent

\* So does dropping what is not one's own.
LEMMA OwnCommandsType ==
  ASSUME NEW row \in Rows, NEW p
  PROVE  OwnCommands(p, row) \in Rows
BY DEF OwnCommands, Rows, Lists

\* What is in the queues is sent in packets.
LEMMA PacketsOfType ==
  ASSUME NEW row \in Rows, NEW p \in Players
  PROVE  PacketsOf(p, row) \subseteq Packet
<1> SUFFICES ASSUME NEW m \in PacketsOf(p, row)
             PROVE  m \in Packet
  OBVIOUS
<1>1. PICK q \in Players : \E r \in row[q] :
        m = [from |-> p, to |-> q, cmd |-> r.cmd, relay |-> r.relay]
  BY DEF PacketsOf
<1> PICK r \in row[q] :
      m = [from |-> p, to |-> q, cmd |-> r.cmd, relay |-> r.relay]
  BY <1>1
<1>2. r \in Ref
  BY <1>1 DEF Rows, Lists
<1>3. QED
  BY <1>1, <1>2 DEF Packet, Ref

\* An ack leaves a list of references somebody has yet to ack.
LEMMA AckedByType ==
  ASSUME NEW list \in Lists, \A r \in list : r.relay # {}, NEW a
  PROVE  /\ AckedBy(list, a) \in Lists
         /\ \A r \in AckedBy(list, a) : r.relay # {}
<1> DEFINE less(r) == [r EXCEPT !.relay = IF r.cmd = a.cmd THEN @ \ {a.player} ELSE @]
           left == {less(r) : r \in list}
<1>1. \A r \in list : /\ r \in Ref /\ less(r) \in Ref /\ less(r).cmd = r.cmd
                      /\ r.cmd # a.cmd => less(r) = r
  BY DEF Lists, Ref
<1>2. AckedBy(list, a) = left \ {[cmd |-> a.cmd, relay |-> {}]}
  BY DEF AckedBy
<1>3. left \subseteq Ref
  BY <1>1
<1>4. ASSUME NEW r \in left, NEW s \in left, r.cmd = s.cmd
      PROVE  r = s
  <2>1. PICK u \in list : r = less(u)
    OBVIOUS
  <2>2. PICK v \in list : s = less(v)
    OBVIOUS
  <2>3. u.cmd = v.cmd
    BY <1>1, <1>4, <2>1, <2>2
  <2>4. u = v
    BY <2>3 DEF Lists
  <2>5. QED
    BY <2>1, <2>2, <2>4
<1>5. ASSUME NEW r \in left, r # [cmd |-> a.cmd, relay |-> {}]
      PROVE  r.relay # {}
  <2>1. PICK u \in list : r = less(u)
    OBVIOUS
  <2>2. CASE u.cmd = a.cmd
    <3>1. r \in Ref /\ r.cmd = a.cmd
      BY <1>1, <2>1, <2>2
    <3>2. r = [cmd |-> r.cmd, relay |-> r.relay]
      BY <3>1 DEF Ref
    <3>3. QED
      BY <1>5, <3>1, <3>2
  <2>3. CASE u.cmd # a.cmd
    BY <1>1, <2>1, <2>3
  <2>4. QED
    BY <2>2, <2>3
<1> HIDE DEF left
<1>6. QED
  BY <1>2, <1>3, <1>4, <1>5 DEF Lists

-------------------------------------------------------------------------------
(* Types.                                                                    *)

\* What TypeOK says, list by list.
TypesByLists ==
  /\ frame \in [Players -> 0 .. MaxFrame]
  /\ has \in [Players -> SUBSET Commands]
  /\ queue \in [Players -> Rows]
  /\ pending \in [Players -> Lists]
  /\ relayed \in [Players -> Lists]
  /\ packets \subseteq Packet
  /\ acks \subseteq Ack
  /\ \A p \in Players : \A r \in relayed[p] : r.relay # {}

\* TypeOK and its form list by list are the same.
LEMMA TypeOKByLists ==
  TypeOK <=> TypesByLists
<1>1. ASSUME TypeOK
      PROVE  /\ queue \in [Players -> Rows]
             /\ pending \in [Players -> Lists]
             /\ relayed \in [Players -> Lists]
  <2>1. ASSUME NEW p \in Players
        PROVE  /\ pending[p] \in Lists /\ relayed[p] \in Lists
               /\ \A q \in Players : queue[p][q] \in Lists
    BY <1>1 DEF TypeOK, Lists
  <2>2. QED
    BY <1>1, <2>1 DEF TypeOK, Rows
<1>2. ASSUME queue \in [Players -> Rows], pending \in [Players -> Lists],
             relayed \in [Players -> Lists]
      PROVE  /\ queue \in [Players -> [Players -> SUBSET Ref]]
             /\ pending \in [Players -> SUBSET Ref]
             /\ relayed \in [Players -> SUBSET Ref]
             /\ \A p, q \in Players : \A list \in {queue[p][q], pending[p], relayed[p]} :
                  \A r, s \in list : r.cmd = s.cmd => r = s
  BY <1>2 DEF Rows, Lists
<1>3. QED
  BY <1>1, <1>2 DEF TypeOK, TypesByLists

\* The same of the next state.
LEMMA TypeOKNextByLists ==
  TypeOK' <=> TypesByLists'
BY TypeOKByLists, PTL

\* Sending leaves only packets behind.
LEMMA SetQueuesType ==
  ASSUME TypeOK, NEW p \in Players, NEW row \in Rows, SetQueues(p, row)
  PROVE  queue' \in [Players -> Rows] /\ packets' \subseteq Packet
<1>1. queue \in [Players -> Rows] /\ packets \subseteq Packet
  BY TypeOKByLists DEF TypesByLists
<1>2. QED
  BY <1>1, PacketsOfType DEF SetQueues

\* The references to one's commands of a frame.
LEMMA IssuedType ==
  ASSUME NEW issued \in SUBSET Commands
  PROVE  {[cmd |-> c, relay |-> Players] : c \in issued} \in Lists
BY DEF Lists, Ref

\* Executing a frame keeps the types.
LEMMA TypeAfterRunning ==
  ASSUME TypeOK, NEW p \in Players, RunFrame(p)
  PROVE  TypeOK'
<1> DEFINE f == frame[p] + 1
           issued == {c \in Commands : /\ c.player = p
                                       /\ SentUpTo(p, frame[p]) < c.frame
                                       /\ c.frame <= SentUpTo(p, f)}
           refs == {[cmd |-> c, relay |-> Players] : c \in issued}
<1>1. /\ frame \in [Players -> 0 .. MaxFrame]
      /\ has \in [Players -> SUBSET Commands]
      /\ queue \in [Players -> Rows]
      /\ pending \in [Players -> Lists]
      /\ relayed \in [Players -> Lists]
      /\ packets \subseteq Packet
      /\ acks \subseteq Ack
      /\ \A q \in Players : \A r \in relayed[q] : r.relay # {}
  BY TypeOKByLists DEF TypesByLists
<1>2. refs \in Lists
  BY IssuedType
<1>3. /\ frame[p] < MaxFrame
      /\ frame' = [frame EXCEPT ![p] = f]
      /\ has' = [has EXCEPT ![p] = @ \cup issued]
      /\ relayed' = relayed /\ acks' = acks
  BY DEF RunFrame
<1>4. IF LeftBefore(p, f)
      THEN /\ SetQueues(p, OwnCommands(p, queue[p]))
           /\ UNCHANGED pending
      ELSE /\ SetQueues(p,
                SentLocally(p, f, PendingResent(p, f, queue[p]), refs))
           /\ pending' = [pending EXCEPT ![p] = PendingWith(p, f, @, refs)]
  BY DEF RunFrame
<1>5. issued \subseteq Commands
  OBVIOUS
<1> HIDE DEF refs, issued
<1>6. frame' \in [Players -> 0 .. MaxFrame]
  BY <1>1, <1>3, FramesAssumption
<1> HIDE DEF f
<1>7. has' \in [Players -> SUBSET Commands]
  BY <1>1, <1>3, <1>5
<1>8. /\ queue' \in [Players -> Rows] /\ packets' \subseteq Packet
      /\ pending' \in [Players -> Lists]
  <2>1. CASE LeftBefore(p, f)
    <3>1. OwnCommands(p, queue[p]) \in Rows
      BY <1>1, OwnCommandsType
    <3>2. QED
      BY <1>1, <1>4, <2>1, <3>1, SetQueuesType
  <2>2. CASE ~LeftBefore(p, f)
    <3> DEFINE row == SentLocally(p, f, PendingResent(p, f, queue[p]), refs)
               list == PendingWith(p, f, pending[p], refs)
    <3>1. PendingResent(p, f, queue[p]) \in Rows
      BY <1>1, PendingResentType
    <3>2. row \in Rows
      BY <1>2, <3>1, SentLocallyType
    <3>3. list \in Lists
      BY <1>1, <1>2, PendingWithType
    <3>4. SetQueues(p, row) /\ pending' = [pending EXCEPT ![p] = list]
      BY <1>4, <2>2
    <3> HIDE DEF row, list
    <3>5. QED
      BY <1>1, <3>2, <3>3, <3>4, SetQueuesType
  <2>3. QED
    BY <2>1, <2>2
<1>9. QED
  BY <1>1, <1>3, <1>6, <1>7, <1>8, TypeOKNextByLists DEF TypesByLists

\* Receiving a command keeps the types.
LEMMA TypeAfterPacket ==
  ASSUME TypeOK, NEW p \in Players, NEW m \in packets, ReceivePacket(p, m)
  PROVE  TypeOK'
<1> DEFINE to == m.relay \cap Open(p, frame[p])
           ref == [cmd |-> m.cmd, relay |-> to]
<1>1. /\ frame \in [Players -> 0 .. MaxFrame]
      /\ has \in [Players -> SUBSET Commands]
      /\ queue \in [Players -> Rows]
      /\ pending \in [Players -> Lists]
      /\ relayed \in [Players -> Lists]
      /\ packets \subseteq Packet
      /\ acks \subseteq Ack
      /\ \A q \in Players : \A r \in relayed[q] : r.relay # {}
  BY TypeOKByLists DEF TypesByLists
<1>2. m.cmd \in Commands /\ m.relay \subseteq Players
  BY <1>1 DEF Packet
<1>3. ref \in Ref /\ {ref} \in Lists
  <2>1. to \subseteq Players
    BY <1>2
  <2>2. QED
    BY <1>2, <2>1 DEF Ref, Lists
<1>4. acks' \subseteq Ack
  <2>1. AckOf(p, m) \subseteq Ack
    BY <1>2, OpenArePlayers DEF AckOf, Ack, StageOf
  <2>2. QED
    BY <1>1, <2>1 DEF ReceivePacket
<1>5. frame' = frame /\ pending' = pending
  BY DEF ReceivePacket
<1>6. CASE OutOfDate(p, m.cmd)
  <2>1. UNCHANGED <<has, queue, relayed, packets>>
    BY <1>6 DEF ReceivePacket
  <2>2. QED
    BY <1>1, <1>4, <1>5, <2>1, TypeOKNextByLists DEF TypesByLists
<1>7. CASE ~OutOfDate(p, m.cmd)
  <2>1. /\ has' = [has EXCEPT ![p] =
                     @ \cup (IF p \in m.relay THEN {m.cmd} ELSE {})]
        /\ SetQueues(p, SentDirectly(queue[p], {ref}, to))
        /\ relayed' = [relayed EXCEPT ![p] = IF to = {} THEN @ ELSE Added(@, {ref})]
    BY <1>7 DEF ReceivePacket
  <2>2. has' \in [Players -> SUBSET Commands]
    BY <1>1, <1>2, <2>1
  <2>3. SentDirectly(queue[p], {ref}, to) \in Rows
    BY <1>1, <1>3, SentDirectlyType
  <2>4. queue' \in [Players -> Rows] /\ packets' \subseteq Packet
    BY <2>1, <2>3, SetQueuesType
  <2>5. Added(relayed[p], {ref}) \in Lists
    BY <1>1, <1>3, AddedType
  <2>6. to # {} => \A r \in Added(relayed[p], {ref}) : r.relay # {}
    BY <1>1 DEF Added
  <2> HIDE DEF to, ref
  <2>7. /\ relayed' \in [Players -> Lists]
        /\ \A q \in Players : \A r \in relayed'[q] : r.relay # {}
    BY <1>1, <2>1, <2>5, <2>6
  <2>8. QED
    BY <1>1, <1>4, <1>5, <2>2, <2>4, <2>7, TypeOKNextByLists DEF TypesByLists
<1>8. QED
  BY <1>6, <1>7

\* Receiving an ack keeps the types.
LEMMA TypeAfterAck ==
  ASSUME TypeOK, NEW p \in Players, ReceiveAck(p)
  PROVE  TypeOK'
<1>1. /\ frame \in [Players -> 0 .. MaxFrame]
      /\ has \in [Players -> SUBSET Commands]
      /\ queue \in [Players -> Rows]
      /\ pending \in [Players -> Lists]
      /\ relayed \in [Players -> Lists]
      /\ packets \subseteq Packet
      /\ acks \subseteq Ack
      /\ \A q \in Players : \A r \in relayed[q] : r.relay # {}
  BY TypeOKByLists DEF TypesByLists
<1>2. PICK a \in acks :
        LET stage1 == a.stage \in {"STAGE1", "BOTH"}
            stage2 == a.stage \in {"STAGE2", "BOTH"}
            remaining == AckedBy(relayed[p], a)
            done == /\ \E r \in relayed[p] : r.cmd = a.cmd
                    /\ \A r \in remaining : r.cmd # a.cmd
        IN  /\ queue' = IF stage1
                        THEN [queue EXCEPT ![p][a.player] = Without(@, a.cmd)]
                        ELSE queue
            /\ pending' = IF stage2
                          THEN [pending EXCEPT ![p] = Without(@, a.cmd)]
                          ELSE pending
            /\ relayed' = IF stage2
                          THEN [relayed EXCEPT ![p] = remaining]
                          ELSE relayed
            /\ acks' = acks
                 \cup (IF stage2 /\ done THEN StageTwoAck(p, a.cmd) ELSE {})
                 \cup {[a EXCEPT !.to = q, !.relay = {q}] :
                         q \in a.relay \cap Open(p, frame[p])}
            /\ UNCHANGED <<frame, has, packets>>
  BY DEF ReceiveAck
<1>3. a \in Ack /\ a.player \in Players /\ a.cmd \in Commands /\ a.relay \subseteq Players
  BY <1>1 DEF Ack
<1>4. queue' \in [Players -> Rows]
  <2>1. Without(queue[p][a.player], a.cmd) \in Lists
    BY <1>1, <1>3, WithoutType DEF Rows
  <2>2. QED
    BY <1>1, <1>2, <1>3, <2>1 DEF Rows
<1>5. pending' \in [Players -> Lists]
  <2>1. Without(pending[p], a.cmd) \in Lists
    BY <1>1, WithoutType
  <2>2. QED
    BY <1>1, <1>2, <2>1
<1>6. /\ relayed' \in [Players -> Lists]
      /\ \A q \in Players : \A r \in relayed'[q] : r.relay # {}
  <2>1. /\ AckedBy(relayed[p], a) \in Lists
        /\ \A r \in AckedBy(relayed[p], a) : r.relay # {}
    BY <1>1, AckedByType
  <2>2. QED
    BY <1>1, <1>2, <2>1
<1>7. acks' \subseteq Ack
  <2>1. StageTwoAck(p, a.cmd) \subseteq Ack
    <3>1. a.cmd.player \in Players
      BY <1>3, CommandsAssumption
    <3>2. QED
      BY <1>3, <3>1, OpenArePlayers, PlayersAssumption DEF StageTwoAck, Ack
  <2>2. {[a EXCEPT !.to = q, !.relay = {q}] : q \in a.relay \cap Open(p, frame[p])}
          \subseteq Ack
    <3>1. ASSUME NEW q \in Players
          PROVE  [a EXCEPT !.to = q, !.relay = {q}] \in Ack
      BY <1>3 DEF Ack
    <3>2. QED
      BY <1>3, <3>1
  <2>3. QED
    BY <1>1, <1>2, <2>1, <2>2
<1>8. frame' = frame /\ has' = has /\ packets' = packets
  BY <1>2
<1>9. QED
  BY <1>1, <1>4, <1>5, <1>6, <1>7, <1>8, TypeOKNextByLists DEF TypesByLists

\* Every list holds a command once, every queue and list what belongs in it, and
\* a command everybody acknowledged is not kept to be relayed.
THEOREM TypeCorrect ==
  Spec => []TypeOK
<1>1. Init => TypeOK
  BY PlayersAssumption, FramesAssumption DEF Init, TypeOK
<1>2. TypeOK /\ [Next]_vars => TypeOK'
  <2> SUFFICES ASSUME TypeOK, [Next]_vars PROVE TypeOK'
    OBVIOUS
  <2>1. ASSUME NEW p \in Players, RunFrame(p)
        PROVE  TypeOK'
    BY <2>1, TypeAfterRunning
  <2>2. ASSUME NEW p \in Players, ReceiveCommand(p)
        PROVE  TypeOK'
    BY <2>2, TypeAfterPacket DEF ReceiveCommand
  <2>3. ASSUME NEW p \in Players, ReceiveAck(p)
        PROVE  TypeOK'
    BY <2>3, TypeAfterAck
  <2>4. CASE UNCHANGED vars
    BY <2>4 DEF TypeOK, vars
  <2>5. QED
    BY <2>1, <2>2, <2>3, <2>4 DEF Next
<1>3. QED
  BY <1>1, <1>2, PTL DEF Spec

-------------------------------------------------------------------------------
(* Nobody's command is lost while player 0, the packet router, stays.        *)

\* A reference in p's queue to q, or a packet: from the router, it is for q
\* alone; to the router, it is p's own and for everybody else.
Fits(p, q, r) ==
  /\ r.cmd.player # q
  /\ p = 0 => q # 0 /\ r.relay = {q}
  /\ p # 0 => q = 0 /\ r.cmd.player = p /\ r.relay = Players \ {p}

QueueInv == \A p, q \in Players : \A r \in queue[p][q] : Fits(p, q, r)
PacketsInv == \A m \in packets : Fits(m.from, m.to, m)

\* A frame is executed with every command for it.
ExecutedInv ==
  \A q \in Players, c \in Commands :
    IsFor(c, q) /\ c.frame < frame[q] => c \in has[q]

EverybodyHas(c) == \A q \in Players : IsFor(c, q) => c \in has[q]

\* An ack is true: who acked has the command, or everybody has it.
AckIsTrue(a) ==
  /\ a.stage # "STAGE2" /\ IsFor(a.cmd, a.player) => a.cmd \in has[a.player]
  /\ a.stage = "STAGE2" => a.player = 0 /\ EverybodyHas(a.cmd)
AcksInv == \A a \in acks : AckIsTrue(a)

\* What was not acked is in a queue: on the way to the router, and from there.
SentInv ==
  \A c \in Commands :
    c.player # 0 /\ c \in has[c.player] =>
      c \in has[0] \/ IsIn(queue[c.player][0], c)
RelayedInv ==
  \A c \in Commands, q \in Players \ {0} :
    c \in has[0] /\ IsFor(c, q) => c \in has[q] \/ IsIn(queue[0][q], c)

\* The router waits for the acks of those who may lack the command.
Awaits(r) ==
  /\ r.cmd.player # 0 /\ 0 \notin r.relay /\ r.cmd \in has[0]
  /\ \A q \in Players \ {0} : IsFor(r.cmd, q) => q \in r.relay \/ r.cmd \in has[q]
ListInv ==
  /\ \A p \in Players \ {0} : relayed[p] = {}
  /\ \A r \in relayed[0] : Awaits(r)

DeliveryInv ==
  /\ TypeOK
  /\ QueueInv /\ PacketsInv
  /\ ExecutedInv
  /\ AcksInv
  /\ SentInv /\ RelayedInv
  /\ ListInv

\* Player 0 is the packet router of every frame.
LEMMA RouterIsZero ==
  ASSUME RouterStays, NEW f
  PROVE  Router(f) = 0
<1> DEFINE S == {q \in Players : ~LeftBefore(q, f)}
<1>1. S \in SUBSET Nat /\ 0 \in S
  BY PlayersAssumption DEF RouterStays, LeftBefore
<1>2. Min(S) \in Nat /\ Min(S) <= 0
  BY <1>1, LeastNumber
<1>3. QED
  BY <1>2 DEF Router

\* What is added to a list is in it, and nothing else comes or goes.
LEMMA AddedHolds ==
  ASSUME NEW list, NEW refs
  PROVE  /\ list \subseteq Added(list, refs)
         /\ Added(list, refs) \subseteq list \cup refs
         /\ \A r \in refs : IsIn(Added(list, refs), r.cmd)
<1>1. ASSUME NEW r \in refs
      PROVE  IsIn(Added(list, refs), r.cmd)
  <2>1. CASE \E s \in list : s.cmd = r.cmd
    BY <2>1 DEF Added, IsIn
  <2>2. CASE \A s \in list : s.cmd # r.cmd
    BY <2>2 DEF Added, IsIn
  <2>3. QED
    BY <2>1, <2>2
<1>2. QED
  BY <1>1 DEF Added

\* The same of a queue in which references were sent directly.
LEMMA SentDirectlyHolds ==
  ASSUME NEW row, NEW refs, NEW to, NEW q \in Players
  PROVE  LET sent == SentDirectly(row, refs, to)[q]
         IN  /\ row[q] \subseteq sent
             /\ \A r \in sent : r \in row[q] \/ \E s \in refs :
                  /\ q \in to /\ q \in s.relay
                  /\ r = [cmd |-> s.cmd, relay |-> {q}]
             /\ q \in to => \A s \in refs : q \in s.relay => IsIn(sent, s.cmd)
<1> DEFINE refsTo == {[cmd |-> r.cmd, relay |-> {q}] :
                        r \in {s \in refs : q \in s.relay}}
<1>1. SentDirectly(row, refs, to)[q] =
        IF q \in to THEN Added(row[q], refsTo) ELSE row[q]
  BY DEF SentDirectly
<1>2. /\ row[q] \subseteq Added(row[q], refsTo)
      /\ Added(row[q], refsTo) \subseteq row[q] \cup refsTo
      /\ \A r \in refsTo : IsIn(Added(row[q], refsTo), r.cmd)
  BY AddedHolds
<1>3. \A r \in refsTo : \E s \in refs : /\ q \in s.relay
                                       /\ r = [cmd |-> s.cmd, relay |-> {q}]
  OBVIOUS
<1>4. \A s \in refs : q \in s.relay => IsIn(Added(row[q], refsTo), s.cmd)
  <2> TAKE s \in refs
  <2> HAVE q \in s.relay
  <2>1. [cmd |-> s.cmd, relay |-> {q}] \in refsTo
    OBVIOUS
  <2>2. [cmd |-> s.cmd, relay |-> {q}].cmd = s.cmd
    OBVIOUS
  <2> HIDE DEF refsTo
  <2>3. QED
    BY <1>2, <2>1, <2>2
<1> HIDE DEF refsTo
<1>5. QED
  BY <1>1, <1>2, <1>3, <1>4

\* Queues of fitting references, and the packets they are sent in.
LEMMA FitsAfterSending ==
  ASSUME TypeOK, QueueInv, PacketsInv, NEW p \in Players, NEW row \in Rows,
         \A q \in Players : \A r \in row[q] : Fits(p, q, r),
         SetQueues(p, row)
  PROVE  QueueInv' /\ PacketsInv'
<1>1. queue \in [Players -> Rows]
  BY TypeOKByLists DEF TypesByLists
<1>2. QueueInv'
  BY <1>1 DEF QueueInv, SetQueues, Fits
<1>3. ASSUME NEW m \in PacketsOf(p, row)
      PROVE  Fits(m.from, m.to, m)
  <2>1. PICK q \in Players : \E r \in row[q] :
          m = [from |-> p, to |-> q, cmd |-> r.cmd, relay |-> r.relay]
    BY DEF PacketsOf
  <2>2. PICK r \in row[q] :
          m = [from |-> p, to |-> q, cmd |-> r.cmd, relay |-> r.relay]
    BY <2>1
  <2>3. /\ m.from = p /\ m.to = q /\ m.cmd = r.cmd /\ m.relay = r.relay
        /\ Fits(p, q, r)
    BY <2>1, <2>2
  <2>4. QED
    BY <2>3 DEF Fits
<1>4. PacketsInv'
  BY <1>3 DEF PacketsInv, SetQueues, Fits
<1>5. QED
  BY <1>2, <1>4

\* An ack that is true stays true, since no computer loses a command.
LEMMA AcksStayTrue ==
  ASSUME AcksInv, \A q \in Players : has[q] \subseteq has'[q]
  PROVE  \A a \in acks : a \in Ack => AckIsTrue(a)'
<1> SUFFICES ASSUME NEW a \in acks, a \in Ack
             PROVE  AckIsTrue(a)'
  OBVIOUS
<1>1. AckIsTrue(a) /\ a.player \in Players
  BY DEF AcksInv, Ack
<1>2. QED
  BY <1>1 DEF AckIsTrue, EverybodyHas, IsFor, LeftBefore

\* So does what the router waits for.
LEMMA StillAwaited ==
  ASSUME NEW r, Awaits(r), \A q \in Players : has[q] \subseteq has'[q]
  PROVE  Awaits(r)'
BY PlayersAssumption DEF Awaits, IsFor, LeftBefore

\* All commands of a frame that is executed are there.
LEMMA ExecutedAfterRunning ==
  ASSUME TypeOK, ExecutedInv, NEW p \in Players, RunFrame(p)
  PROVE  ExecutedInv'
<1> SUFFICES ASSUME NEW q \in Players, NEW c \in Commands,
                    IsFor(c, q), c.frame < frame'[q]
             PROVE  c \in has'[q]
  BY DEF ExecutedInv, IsFor, LeftBefore
<1>1. frame \in [Players -> Nat] /\ has \in [Players -> SUBSET Commands]
  BY FramesAssumption DEF TypeOK
<1>2. /\ frame' = [frame EXCEPT ![p] = frame[p] + 1]
      /\ has[q] \subseteq has'[q]
      /\ InGame(p)
      /\ frame[p] > 0 => AllCommandsReady(p)
  BY <1>1 DEF RunFrame
<1>3. /\ c.player \in Players /\ c.frame \in Nat /\ c.frame >= RunAhead
      /\ LeaveFrame[c.player] # Never => c.frame <= LeaveFrame[c.player]
      /\ RunAhead \in Nat \ {0}
      /\ LeaveFrame[c.player] \in Nat
  BY CommandsAssumption, FramesAssumption DEF Never
<1>4. CASE c.frame < frame[q]
  BY <1>2, <1>4 DEF ExecutedInv
<1>5. CASE ~(c.frame < frame[q])
  <2>1. q = p /\ c.frame = frame[p]
    BY <1>1, <1>2, <1>3, <1>5
  <2>2. frame[p] > 0
    BY <1>3, <2>1
  <2>3. c.player \in Open(p, frame[p])
    <3>1. ~LeftBefore(c.player, frame[p])
      BY <1>3, <2>1 DEF LeftBefore
    <3>2. c.player # p /\ ~LeftBefore(p, frame[p])
      BY <1>2, <2>1 DEF IsFor, InGame
    <3>3. QED
      BY <1>3, <3>1, <3>2 DEF Open
  <2>4. c \in has[p]
    BY <1>2, <2>1, <2>2, <2>3 DEF AllCommandsReady
  <2>5. QED
    BY <1>2, <2>1, <2>4
<1>6. QED
  BY <1>4, <1>5

\* A player who leaves issues no more commands, and sends none but his own.
LEMMA DeliveryAfterLeaving ==
  ASSUME RouterStays, DeliveryInv, NEW p \in Players, RunFrame(p),
         LeftBefore(p, frame[p] + 1)
  PROVE  QueueInv' /\ PacketsInv' /\ SentInv' /\ RelayedInv'
<1> DEFINE f == frame[p] + 1
           issued == {c \in Commands : /\ c.player = p
                                       /\ SentUpTo(p, frame[p]) < c.frame
                                       /\ c.frame <= SentUpTo(p, f)}
           row == OwnCommands(p, queue[p])
<1>1. /\ TypeOK /\ queue \in [Players -> Rows]
      /\ frame \in [Players -> Nat] /\ has \in [Players -> SUBSET Commands]
  BY TypeOKByLists, FramesAssumption DEF DeliveryInv, TypesByLists
<1>2. SetQueues(p, row) /\ has' = [has EXCEPT ![p] = @ \cup issued] /\ InGame(p)
  BY DEF RunFrame
<1>3. p # 0
  BY DEF RouterStays, LeftBefore
<1>4. issued = {}
  <2>1. LeaveFrame[p] \in Nat /\ RunAhead \in Nat /\ Commands \subseteq [player : Players, frame : Nat]
    BY FramesAssumption, CommandsAssumption DEF Never
  <2>2. LeaveFrame[p] # Never /\ frame[p] = LeaveFrame[p]
    BY <1>1, <1>2, <2>1 DEF LeftBefore, InGame
  <2>3. SentUpTo(p, frame[p]) = SentUpTo(p, f)
    BY <1>1, <2>1, <2>2 DEF SentUpTo
  <2>4. SentUpTo(p, f) = LeaveFrame[p]
    BY <1>1, <2>1, <2>2 DEF SentUpTo
  <2>5. QED
    BY <2>1, <2>3, <2>4
<1> HIDE DEF issued
<1>5. has' = has
  BY <1>1, <1>2, <1>4
<1>6. /\ row \in Rows
      /\ \A q \in Players : row[q] = {r \in queue[p][q] : r.cmd.player = p}
  <2>1. queue[p] \in Rows
    BY <1>1
  <2>2. QED
    BY <2>1, OwnCommandsType DEF OwnCommands
<1> HIDE DEF row
<1>7. queue' = [queue EXCEPT ![p] = row]
  BY <1>2 DEF SetQueues
<1>8. QueueInv' /\ PacketsInv'
  <2>1. \A q \in Players : \A r \in row[q] : Fits(p, q, r)
    BY <1>6 DEF DeliveryInv, QueueInv
  <2>2. QED
    BY <1>1, <1>2, <1>6, <2>1, FitsAfterSending DEF DeliveryInv
<1>9. SentInv'
  <2> SUFFICES ASSUME NEW c \in Commands, c.player # 0, c \in has[c.player],
                      c \notin has[0]
               PROVE  IsIn(queue'[c.player][0], c)
    BY <1>5 DEF SentInv
  <2>1. c.player \in Players /\ 0 \in Players
    BY CommandsAssumption, PlayersAssumption
  <2>2. PICK r \in queue[c.player][0] : r.cmd = c
    BY DEF DeliveryInv, SentInv, IsIn
  <2>3. r \in queue'[c.player][0]
    BY <1>1, <1>6, <1>7, <2>1, <2>2 DEF Rows
  <2>4. QED
    BY <2>2, <2>3 DEF IsIn
<1>10. RelayedInv'
  BY <1>1, <1>3, <1>5, <1>7, PlayersAssumption
     DEF DeliveryInv, RelayedInv, IsFor, LeftBefore
<1>11. QED
  BY <1>8, <1>9, <1>10

\* The router sends what he issues to everybody, anyone else to the router.
LEMMA DeliveryAfterIssuing ==
  ASSUME RouterStays, DeliveryInv, NEW p \in Players, RunFrame(p),
         ~LeftBefore(p, frame[p] + 1)
  PROVE  QueueInv' /\ PacketsInv' /\ SentInv' /\ RelayedInv'
<1> DEFINE f == frame[p] + 1
           issued == {c \in Commands : /\ c.player = p
                                       /\ SentUpTo(p, frame[p]) < c.frame
                                       /\ c.frame <= SentUpTo(p, f)}
           refs == {[cmd |-> c, relay |-> Players] : c \in issued}
           row == SentLocally(p, f, queue[p], refs)
<1>1. /\ TypeOK /\ queue \in [Players -> Rows] /\ queue[p] \in Rows
      /\ frame \in [Players -> Nat] /\ has \in [Players -> SUBSET Commands]
      /\ 0 \in Players
  BY TypeOKByLists, FramesAssumption, PlayersAssumption DEF DeliveryInv, TypesByLists
<1>2. SetQueues(p, row) /\ has' = [has EXCEPT ![p] = @ \cup issued]
  <2>1. Router(f) = Router(frame[p])
    BY RouterIsZero
  <2>2. QED
    BY <2>1 DEF RunFrame, PendingResent
<1>3. row \in Rows
  <2>1. refs \in Lists
    BY IssuedType
  <2> HIDE DEF refs
  <2>2. QED
    BY <1>1, <2>1, SentLocallyType
<1>4. /\ \A q \in Players : has[q] \subseteq has'[q]
      /\ \A q \in Players \ {p} : has'[q] = has[q]
      /\ \A c \in has'[p] : c \in has[p] \/ c \in issued
  BY <1>1, <1>2
<1>5. queue' = [queue EXCEPT ![p] = row]
  BY <1>2 DEF SetQueues
<1>6. Router(f) = 0
  BY RouterIsZero
<1>7. \A r \in refs : r.cmd \in issued /\ r.cmd.player = p /\ r.relay = Players
  OBVIOUS
<1>8. \A c \in issued : [cmd |-> c, relay |-> Players] \in refs
  OBVIOUS
<1>9. CASE p = 0
  <2>1. row = SentDirectly(queue[p], refs, Open(p, f))
    BY <1>6, <1>9 DEF SentLocally
  <2>2. ASSUME NEW c \in issued, NEW q \in Players, IsFor(c, q)
        PROVE  q \in Open(p, f)
    <3>1. RunAhead \in Nat \ {0} /\ LeaveFrame[q] \in Nat /\ c.frame \in Nat
      BY FramesAssumption, CommandsAssumption DEF Never
    <3>2. frame[p] + RunAhead - 1 < c.frame
      BY <1>9 DEF RouterStays, SentUpTo
    <3>3. f <= c.frame
      BY <1>1, <3>1, <3>2
    <3>4. ~LeftBefore(q, f) /\ q # p
      BY <1>1, <2>2, <3>1, <3>3 DEF LeftBefore, IsFor
    <3>5. QED
      BY <3>4 DEF Open
  <2> HIDE DEF issued, refs, row
  <2>3. ASSUME NEW q \in Players
        PROVE  /\ queue[p][q] \subseteq row[q]
               /\ \A r \in row[q] : r \in queue[p][q] \/ \E s \in refs :
                    /\ q \in Open(p, f) /\ q \in s.relay
                    /\ r = [cmd |-> s.cmd, relay |-> {q}]
               /\ q \in Open(p, f) =>
                    \A s \in refs : q \in s.relay => IsIn(row[q], s.cmd)
    BY <2>1, SentDirectlyHolds
  <2>4. ASSUME NEW q \in Players, NEW r \in row[q]
        PROVE  Fits(p, q, r)
    <3>1. CASE r \in queue[p][q]
      BY <3>1 DEF DeliveryInv, QueueInv
    <3>2. CASE \E s \in refs : /\ q \in Open(p, f)
                               /\ r = [cmd |-> s.cmd, relay |-> {q}]
      BY <1>7, <1>9, <3>2, OpenArePlayers DEF Fits
    <3>3. QED
      BY <2>3, <3>1, <3>2
  <2>5. QueueInv' /\ PacketsInv'
    BY <1>1, <1>2, <1>3, <2>4, FitsAfterSending DEF DeliveryInv
  <2>6. SentInv'
    BY <1>1, <1>4, <1>5, <1>9, CommandsAssumption DEF DeliveryInv, SentInv
  <2>7. RelayedInv'
    <3> SUFFICES ASSUME NEW c \in Commands, NEW q \in Players \ {0},
                        c \in has'[0], IsFor(c, q), c \notin has'[q]
                 PROVE  IsIn(queue'[0][q], c)
      BY DEF RelayedInv, IsFor, LeftBefore
    <3>1. queue'[0] = row
      BY <1>1, <1>5, <1>9
    <3>2. CASE c \in has[0]
      <4>1. IsIn(queue[0][q], c)
        BY <1>4, <3>2 DEF DeliveryInv, RelayedInv
      <4>2. QED
        BY <1>9, <2>3, <3>1, <4>1 DEF IsIn
    <3>3. CASE c \in issued
      <4>1. q \in Open(p, f)
        BY <2>2, <3>3
      <4>2. PICK s \in refs : s.cmd = c /\ s.relay = Players
        BY <1>8, <3>3
      <4>3. QED
        BY <2>3, <3>1, <4>1, <4>2
    <3>4. QED
      BY <1>4, <1>9, <3>2, <3>3
  <2>8. QED
    BY <2>5, <2>6, <2>7
<1>10. CASE p # 0
  <2> DEFINE narrowed == {[r EXCEPT !.relay = @ \ {p}] : r \in refs}
  <2>1. row = [queue[p] EXCEPT ![0] = Added(@, narrowed)]
    BY <1>6, <1>10 DEF SentLocally
  <2>2. ASSUME NEW r \in narrowed
        PROVE  r.cmd.player = p /\ r.relay = Players \ {p}
    BY <1>7
  <2>3. ASSUME NEW c \in issued
        PROVE  \E r \in narrowed : r.cmd = c
    <3>1. PICK s \in refs : s = [cmd |-> c, relay |-> Players]
      BY <1>8
    <3>2. [s EXCEPT !.relay = @ \ {p}] \in narrowed /\ [s EXCEPT !.relay = @ \ {p}].cmd = c
      BY <3>1
    <3>3. QED
      BY <3>2
  <2> HIDE DEF issued, refs, row, narrowed
  <2>4. /\ queue[p][0] \subseteq row[0]
        /\ row[0] \subseteq queue[p][0] \cup narrowed
        /\ \A r \in narrowed : IsIn(row[0], r.cmd)
        /\ \A q \in Players \ {0} : row[q] = queue[p][q]
    <3>1. row[0] = Added(queue[p][0], narrowed)
      BY <1>1, <2>1 DEF Rows
    <3>2. \A q \in Players \ {0} : row[q] = queue[p][q]
      BY <1>1, <2>1 DEF Rows
    <3>3. QED
      BY <3>1, <3>2, AddedHolds
  <2>5. ASSUME NEW q \in Players, NEW r \in row[q]
        PROVE  Fits(p, q, r)
    <3>1. CASE r \in queue[p][q]
      BY <3>1 DEF DeliveryInv, QueueInv
    <3>2. CASE q = 0 /\ r \in narrowed
      BY <1>10, <2>2, <3>2 DEF Fits
    <3>3. QED
      BY <2>4, <3>1, <3>2
  <2>6. QueueInv' /\ PacketsInv'
    BY <1>1, <1>2, <1>3, <2>5, FitsAfterSending DEF DeliveryInv
  <2>7. SentInv'
    <3> SUFFICES ASSUME NEW c \in Commands, c.player # 0, c \in has'[c.player],
                        c \notin has'[0]
                 PROVE  IsIn(queue'[c.player][0], c)
      BY DEF SentInv
    <3>1. c.player \in Players
      BY CommandsAssumption
    <3>2. CASE c \in has[c.player]
      <4>1. IsIn(queue[c.player][0], c)
        BY <1>1, <1>4, <3>2 DEF DeliveryInv, SentInv
      <4>2. queue[c.player][0] \subseteq queue'[c.player][0]
        BY <1>1, <1>5, <2>4, <3>1
      <4>3. QED
        BY <4>1, <4>2 DEF IsIn
    <3>3. CASE c.player = p /\ c \in issued
      <4>1. IsIn(row[0], c)
        BY <2>3, <2>4, <3>3
      <4>2. QED
        BY <1>1, <1>5, <3>3, <4>1
    <3>4. QED
      BY <1>4, <3>1, <3>2, <3>3
  <2>8. RelayedInv'
    <3>1. queue'[0] = queue[0] /\ has'[0] = has[0]
      BY <1>1, <1>4, <1>5, <1>10
    <3>2. QED
      BY <1>4, <3>1 DEF DeliveryInv, RelayedInv, IsFor, LeftBefore
  <2>9. QED
    BY <2>6, <2>7, <2>8
<1>11. QED
  BY <1>9, <1>10

\* Executing a frame keeps all of the invariant.
LEMMA DeliveryAfterRunning ==
  ASSUME RouterStays, DeliveryInv, NEW p \in Players, RunFrame(p)
  PROVE  DeliveryInv'
<1>1. /\ has \in [Players -> SUBSET Commands] /\ acks \subseteq Ack
      /\ 0 \in Players
  BY PlayersAssumption DEF DeliveryInv, TypeOK
<1>2. \A q \in Players : has[q] \subseteq has'[q]
  BY <1>1 DEF RunFrame
<1>3. relayed' = relayed /\ acks' = acks
  BY DEF RunFrame
<1>4. TypeOK' /\ ExecutedInv'
  BY TypeAfterRunning, ExecutedAfterRunning DEF DeliveryInv
<1>5. AcksInv'
  BY <1>1, <1>2, <1>3, AcksStayTrue DEF DeliveryInv, AcksInv
<1>6. ListInv'
  BY <1>2, <1>3, StillAwaited DEF DeliveryInv, ListInv
<1>7. QueueInv' /\ PacketsInv' /\ SentInv' /\ RelayedInv'
  BY DeliveryAfterLeaving, DeliveryAfterIssuing
<1>8. QED
  BY <1>4, <1>5, <1>6, <1>7 DEF DeliveryInv

\* An ack is sent for a command one has, or for one out of date: executed.
LEMMA AcksAfterPacket ==
  ASSUME RouterStays, DeliveryInv, NEW p \in Players, NEW m \in packets,
         ReceivePacket(p, m)
  PROVE  AcksInv'
<1>1. /\ has \in [Players -> SUBSET Commands] /\ acks \subseteq Ack
      /\ m.cmd \in Commands /\ m.to = p /\ p \in m.relay
  <2>1. TypeOK /\ Fits(m.from, m.to, m) /\ m \in Packet /\ m.to = p
    BY DEF DeliveryInv, TypeOK, PacketsInv, ReceivePacket
  <2>2. p \in m.relay
    BY <2>1 DEF Fits, Packet
  <2>3. QED
    BY <2>1, <2>2 DEF TypeOK, Packet
<1>2. \A q \in Players : has[q] \subseteq has'[q]
  BY <1>1 DEF ReceivePacket
<1>3. IsFor(m.cmd, p) => m.cmd \in has'[p]
  <2>1. CASE OutOfDate(p, m.cmd)
    BY <1>1, <1>2, <2>1 DEF OutOfDate, DeliveryInv, ExecutedInv
  <2>2. CASE ~OutOfDate(p, m.cmd)
    BY <1>1, <2>2 DEF ReceivePacket
  <2>3. QED
    BY <2>1, <2>2
<1>4. ASSUME NEW a \in AckOf(p, m)
      PROVE  AckIsTrue(a)'
  <2>1. a.player = p /\ a.cmd = m.cmd /\ a.stage = StageOf(p, m.relay)
    BY DEF AckOf
  <2>2. a.stage # "STAGE2"
    BY <2>1 DEF StageOf
  <2>3. IsFor(a.cmd, a.player)' <=> IsFor(m.cmd, p)
    BY <2>1 DEF IsFor, LeftBefore
  <2>4. QED
    BY <1>3, <2>1, <2>2, <2>3 DEF AckIsTrue
<1>5. acks' = acks \cup AckOf(p, m)
  BY DEF ReceivePacket
<1>6. \A a \in acks : AckIsTrue(a)'
  BY <1>1, <1>2, AcksStayTrue DEF DeliveryInv
<1>7. QED
  BY <1>4, <1>5, <1>6 DEF AcksInv

\* A packet from the router: it is not relayed any further.
LEMMA DeliveryAfterRelayed ==
  ASSUME RouterStays, DeliveryInv, NEW p \in Players, NEW m \in packets,
         ReceivePacket(p, m), ~OutOfDate(p, m.cmd), m.from = 0
  PROVE  QueueInv' /\ PacketsInv' /\ SentInv' /\ RelayedInv' /\ ListInv'
<1> DEFINE to == m.relay \cap Open(p, frame[p])
           ref == [cmd |-> m.cmd, relay |-> to]
           row == SentDirectly(queue[p], {ref}, to)
<1>1. /\ TypeOK /\ queue \in [Players -> Rows] /\ queue[p] \in Rows
      /\ has \in [Players -> SUBSET Commands] /\ relayed \in [Players -> Lists]
      /\ 0 \in Players /\ m \in Packet
  BY TypeOKByLists, PlayersAssumption DEF DeliveryInv, TypesByLists
<1>2. /\ SetQueues(p, row)
      /\ has' = [has EXCEPT ![p] = @ \cup (IF p \in m.relay THEN {m.cmd} ELSE {})]
      /\ relayed' = [relayed EXCEPT ![p] = IF to = {} THEN @ ELSE Added(@, {ref})]
      /\ m.to = p
  BY DEF ReceivePacket
<1>3. Fits(0, p, m)
  BY <1>2 DEF DeliveryInv, PacketsInv
<1>4. p # 0 /\ m.relay = {p} /\ m.cmd.player # p
  BY <1>3 DEF Fits
<1>5. to = {}
  BY <1>4, OpenArePlayers
<1>6. row = queue[p]
  <2>1. row = [q \in Players |-> queue[p][q]]
    BY <1>5 DEF SentDirectly
  <2>2. QED
    BY <1>1, <2>1 DEF Rows
<1> HIDE DEF to, ref, row
<1>7. queue' = queue /\ relayed' = relayed
  BY <1>1, <1>2, <1>5, <1>6 DEF SetQueues
<1>8. /\ \A q \in Players : has[q] \subseteq has'[q]
      /\ \A q \in Players \ {p} : has'[q] = has[q]
      /\ \A c \in has'[p] : c \in has[p] \/ c.player # p
  BY <1>1, <1>2, <1>4
<1>9. QueueInv' /\ PacketsInv'
  <2>1. \A q \in Players : \A r \in row[q] : Fits(p, q, r)
    BY <1>6 DEF DeliveryInv, QueueInv
  <2>2. QED
    BY <1>1, <1>2, <1>6, <2>1, FitsAfterSending DEF DeliveryInv
<1>10. SentInv'
  <2> SUFFICES ASSUME NEW c \in Commands, c.player # 0, c \in has'[c.player],
                      c \notin has'[0]
               PROVE  IsIn(queue[c.player][0], c)
    BY <1>7 DEF SentInv
  <2>1. c.player \in Players
    BY CommandsAssumption
  <2>2. c \in has[c.player]
    BY <1>8, <2>1
  <2>3. QED
    BY <1>1, <1>8, <2>2 DEF DeliveryInv, SentInv
<1>11. RelayedInv'
  <2>1. has'[0] = has[0]
    BY <1>1, <1>4, <1>8
  <2>2. QED
    BY <1>7, <1>8, <2>1 DEF DeliveryInv, RelayedInv, IsFor, LeftBefore
<1>12. ListInv'
  BY <1>7, <1>8, StillAwaited DEF DeliveryInv, ListInv
<1>13. QED
  BY <1>9, <1>10, <1>11, <1>12

\* A packet to the router: the command is relayed to everybody it is for, and
\* their acks awaited.
LEMMA DeliveryAfterRelaying ==
  ASSUME RouterStays, DeliveryInv, NEW p \in Players, NEW m \in packets,
         ReceivePacket(p, m), ~OutOfDate(p, m.cmd), m.from # 0
  PROVE  QueueInv' /\ PacketsInv' /\ SentInv' /\ RelayedInv' /\ ListInv'
<1> DEFINE to == m.relay \cap Open(p, frame[p])
           ref == [cmd |-> m.cmd, relay |-> to]
           row == SentDirectly(queue[p], {ref}, to)
<1>1. /\ TypeOK /\ queue \in [Players -> Rows] /\ queue[p] \in Rows
      /\ has \in [Players -> SUBSET Commands] /\ relayed \in [Players -> Lists]
      /\ 0 \in Players /\ m \in Packet /\ m.cmd \in Commands /\ m.from \in Players
      /\ frame \in [Players -> Nat]
  BY TypeOKByLists, PlayersAssumption, FramesAssumption
     DEF DeliveryInv, TypesByLists, Packet
<1>2. /\ SetQueues(p, row)
      /\ has' = [has EXCEPT ![p] = @ \cup (IF p \in m.relay THEN {m.cmd} ELSE {})]
      /\ relayed' = [relayed EXCEPT ![p] = IF to = {} THEN @ ELSE Added(@, {ref})]
      /\ m.to = p
  BY DEF ReceivePacket
<1>3. Fits(m.from, p, m)
  BY <1>2 DEF DeliveryInv, PacketsInv
<1>4. p = 0 /\ m.cmd.player = m.from /\ m.relay = Players \ {m.from}
  BY <1>3 DEF Fits
<1>5. ref.cmd = m.cmd /\ ref.relay = to /\ to \subseteq Players \ {0, m.from}
  BY <1>4, OpenArePlayers
<1>6. ASSUME NEW q \in Players \ {0}, IsFor(m.cmd, q)
      PROVE  q \in to
  <2>1. frame[p] <= m.cmd.frame /\ frame[p] \in Nat /\ m.cmd.frame \in Nat
        /\ LeaveFrame[q] \in Nat
    BY <1>1, CommandsAssumption, FramesAssumption DEF OutOfDate, Never
  <2>2. ~LeftBefore(q, frame[p]) /\ ~LeftBefore(p, frame[p])
    BY <1>4, <1>6, <2>1 DEF IsFor, LeftBefore, RouterStays
  <2>3. QED
    BY <1>4, <1>6, <2>2 DEF Open, IsFor
<1> HIDE DEF ref, to, row
<1>7. row \in Rows
  <2>1. {ref} \in Lists
    BY <1>1, <1>5 DEF Lists, Ref, ref
  <2>2. QED
    BY <1>1, <2>1, SentDirectlyType DEF row
<1>8. ASSUME NEW q \in Players
      PROVE  /\ queue[p][q] \subseteq row[q]
             /\ \A r \in row[q] : r \in queue[p][q] \/ \E s \in {ref} :
                  /\ q \in to /\ q \in s.relay
                  /\ r = [cmd |-> s.cmd, relay |-> {q}]
             /\ q \in to => \A s \in {ref} : q \in s.relay => IsIn(row[q], s.cmd)
  BY SentDirectlyHolds DEF row
<1>9. /\ queue'[0] = row
      /\ \A q \in Players \ {0} : queue'[q] = queue[q]
  BY <1>1, <1>2, <1>4 DEF SetQueues
<1>10. /\ \A q \in Players : has[q] \subseteq has'[q]
       /\ \A q \in Players \ {0} : has'[q] = has[q]
       /\ has'[0] = has[0] \cup {m.cmd}
  BY <1>1, <1>2, <1>4, <1>3 DEF Fits
<1>11. QueueInv' /\ PacketsInv'
  <2>1. ASSUME NEW q \in Players, NEW r \in row[q]
        PROVE  Fits(p, q, r)
    <3>1. CASE r \in queue[p][q]
      BY <3>1 DEF DeliveryInv, QueueInv
    <3>2. CASE q \in to /\ r = [cmd |-> m.cmd, relay |-> {q}]
      BY <1>4, <1>5, <3>2 DEF Fits
    <3>3. QED
      BY <1>5, <1>8, <3>1, <3>2
  <2>2. QED
    BY <1>1, <1>2, <1>7, <2>1, FitsAfterSending DEF DeliveryInv
<1>12. SentInv'
  BY <1>1, <1>9, <1>10, CommandsAssumption DEF DeliveryInv, SentInv
<1>13. RelayedInv'
  <2> SUFFICES ASSUME NEW c \in Commands, NEW q \in Players \ {0},
                      c \in has'[0], IsFor(c, q), c \notin has'[q]
               PROVE  IsIn(queue'[0][q], c)
    BY DEF RelayedInv, IsFor, LeftBefore
  <2>1. CASE c \in has[0]
    <3>1. IsIn(queue[0][q], c)
      BY <1>10, <2>1 DEF DeliveryInv, RelayedInv
    <3>2. QED
      BY <1>4, <1>8, <1>9, <3>1 DEF IsIn
  <2>2. CASE c = m.cmd
    BY <1>5, <1>6, <1>8, <1>9, <2>2
  <2>3. QED
    BY <1>10, <2>1, <2>2
<1>14. ListInv'
  <2>1. \A q \in Players \ {0} : relayed'[q] = {}
    BY <1>1, <1>2, <1>4 DEF DeliveryInv, ListInv
  <2>2. ASSUME NEW r, r = ref
        PROVE  Awaits(r)'
    <3>1. /\ r.cmd = m.cmd /\ r.relay = to /\ 0 \notin r.relay
          /\ m.cmd \in has'[0] /\ m.cmd.player # 0
      BY <1>3, <1>4, <1>5, <1>10, <2>2 DEF Fits
    <3>2. ASSUME NEW q \in Players \ {0}, IsFor(m.cmd, q)
          PROVE  q \in r.relay
      BY <1>6, <3>1, <3>2
    <3>3. QED
      BY <3>1, <3>2 DEF Awaits, IsFor, LeftBefore
  <2>3. relayed'[0] \subseteq relayed[0] \cup {ref}
    BY <1>1, <1>2, <1>4, AddedHolds
  <2>4. \A r \in relayed[0] : Awaits(r)'
    BY <1>10, StillAwaited DEF DeliveryInv, ListInv
  <2>5. QED
    BY <2>1, <2>2, <2>3, <2>4 DEF ListInv
<1>15. QED
  BY <1>11, <1>12, <1>13, <1>14

\* Receiving a command keeps all of the invariant.
LEMMA DeliveryAfterPacket ==
  ASSUME RouterStays, DeliveryInv, NEW p \in Players, NEW m \in packets,
         ReceivePacket(p, m)
  PROVE  DeliveryInv'
<1>1. TypeOK'
  BY TypeAfterPacket DEF DeliveryInv
<1>2. ExecutedInv'
  <2>1. frame' = frame /\ \A q \in Players : has[q] \subseteq has'[q]
    BY DEF ReceivePacket, DeliveryInv, TypeOK
  <2>2. QED
    BY <2>1 DEF DeliveryInv, ExecutedInv, IsFor, LeftBefore
<1>3. AcksInv'
  BY AcksAfterPacket
<1>4. QueueInv' /\ PacketsInv' /\ SentInv' /\ RelayedInv' /\ ListInv'
  <2>1. CASE OutOfDate(p, m.cmd)
    <3>1. UNCHANGED <<has, queue, relayed, packets>>
      BY <2>1 DEF ReceivePacket
    <3>2. QED
      BY <3>1 DEF DeliveryInv, QueueInv, PacketsInv, SentInv, RelayedInv, ListInv,
                  Fits, IsIn, IsFor, LeftBefore, Awaits
  <2>2. CASE ~OutOfDate(p, m.cmd)
    BY <2>2, DeliveryAfterRelayed, DeliveryAfterRelaying
  <2>3. QED
    BY <2>1, <2>2
<1>5. QED
  BY <1>1, <1>2, <1>3, <1>4 DEF DeliveryInv

\* When the last one acked a command that the router relayed, everybody has it.
LEMMA LastAckMeansEverybody ==
  ASSUME DeliveryInv, NEW a \in acks, NEW r \in relayed[0],
         r.cmd = a.cmd, \A s \in AckedBy(relayed[0], a) : s.cmd # a.cmd
  PROVE  EverybodyHas(a.cmd)
<1>1. r \in Ref /\ a \in Ack /\ 0 \in Players
  BY PlayersAssumption DEF DeliveryInv, TypeOK
<1>2. Awaits(r) /\ AckIsTrue(a)
  BY DEF DeliveryInv, ListInv, AcksInv
<1>3. r.relay \ {a.player} = {}
  <2> DEFINE less == [r EXCEPT !.relay = IF r.cmd = a.cmd THEN @ \ {a.player} ELSE @]
  <2>1. less.cmd = a.cmd /\ less.relay = r.relay \ {a.player} /\ less \in Ref
    BY <1>1 DEF Ref
  <2>2. less \notin AckedBy(relayed[0], a)
    BY <2>1
  <2>3. less = [cmd |-> a.cmd, relay |-> {}]
    BY <2>2 DEF AckedBy
  <2>4. QED
    BY <2>1, <2>3
<1>4. ASSUME NEW q \in Players, IsFor(a.cmd, q)
      PROVE  a.cmd \in has[q]
  <2>1. CASE q = 0
    BY <1>2, <2>1 DEF Awaits
  <2>2. CASE q # 0 /\ q \in r.relay
    <3>1. a.player = q
      BY <1>3, <2>2
    <3>2. QED
      BY <1>2, <1>4, <2>2, <3>1 DEF AckIsTrue
  <2>3. CASE q # 0 /\ q \notin r.relay
    BY <1>2, <1>4, <2>3 DEF Awaits
  <2>4. QED
    BY <2>1, <2>2, <2>3
<1>5. QED
  BY <1>4 DEF EverybodyHas

\* Nobody stops awaiting the ack of a player who lacks the command.
LEMMA AwaitedAfterAck ==
  ASSUME DeliveryInv, NEW a \in acks, a.stage \in {"STAGE2", "BOTH"},
         NEW s \in AckedBy(relayed[0], a)
  PROVE  Awaits(s)
<1>1. PICK r \in relayed[0] :
        s = [r EXCEPT !.relay = IF r.cmd = a.cmd THEN @ \ {a.player} ELSE @]
  BY DEF AckedBy
<1>2. r \in Ref /\ Awaits(r) /\ AckIsTrue(a)
  BY PlayersAssumption DEF DeliveryInv, TypeOK, ListInv, AcksInv
<1>3. /\ s.cmd = r.cmd
      /\ s.relay = IF r.cmd = a.cmd THEN r.relay \ {a.player} ELSE r.relay
  BY <1>1, <1>2 DEF Ref
<1>4. ASSUME NEW q \in Players \ {0}, IsFor(s.cmd, q)
      PROVE  q \in s.relay \/ s.cmd \in has[q]
  <2>1. CASE r.cmd = a.cmd /\ q = a.player
    BY <1>2, <1>3, <1>4, <2>1 DEF AckIsTrue
  <2>2. CASE ~(r.cmd = a.cmd /\ q = a.player)
    BY <1>2, <1>3, <1>4, <2>2 DEF Awaits
  <2>3. QED
    BY <2>1, <2>2
<1>5. QED
  BY <1>2, <1>3, <1>4 DEF Awaits

\* Receiving an ack keeps all of the invariant.
LEMMA DeliveryAfterAck ==
  ASSUME RouterStays, DeliveryInv, NEW p \in Players, ReceiveAck(p)
  PROVE  DeliveryInv'
<1>1. /\ TypeOK /\ queue \in [Players -> Rows] /\ relayed \in [Players -> Lists]
      /\ acks \subseteq Ack /\ 0 \in Players
  BY TypeOKByLists, PlayersAssumption DEF DeliveryInv, TypesByLists
<1>2. PICK a \in acks :
        LET stage1 == a.stage \in {"STAGE1", "BOTH"}
            stage2 == a.stage \in {"STAGE2", "BOTH"}
            remaining == AckedBy(relayed[p], a)
            done == /\ \E r \in relayed[p] : r.cmd = a.cmd
                    /\ \A r \in remaining : r.cmd # a.cmd
        IN  /\ a.to = p
            /\ queue' = IF stage1
                        THEN [queue EXCEPT ![p][a.player] = Without(@, a.cmd)]
                        ELSE queue
            /\ relayed' = IF stage2
                          THEN [relayed EXCEPT ![p] = remaining]
                          ELSE relayed
            /\ acks' = acks
                 \cup (IF stage2 /\ done THEN StageTwoAck(p, a.cmd) ELSE {})
                 \cup {[a EXCEPT !.to = q, !.relay = {q}] :
                         q \in a.relay \cap Open(p, frame[p])}
            /\ UNCHANGED <<frame, has, packets>>
  BY DEF ReceiveAck
<1>3. /\ a \in Ack /\ a.player \in Players /\ a.cmd \in Commands
      /\ AckIsTrue(a)
  BY <1>1 DEF Ack, DeliveryInv, AcksInv
<1>4. frame' = frame /\ has' = has /\ packets' = packets
  BY <1>2
<1>5. /\ \A q, s \in Players : queue'[q][s] \subseteq queue[q][s]
      /\ \A q, s \in Players : \A r \in queue[q][s] :
           \/ r \in queue'[q][s]
           \/ q = p /\ s = a.player /\ r.cmd = a.cmd /\ a.stage # "STAGE2"
  <2>1. CASE a.stage \in {"STAGE1", "BOTH"}
    <3>1. queue' = [queue EXCEPT ![p][a.player] = Without(@, a.cmd)]
      BY <1>2, <2>1
    <3>2. ASSUME NEW q \in Players, NEW s \in Players
          PROVE  queue'[q][s] = IF q = p /\ s = a.player
                                THEN Without(queue[q][s], a.cmd) ELSE queue[q][s]
      BY <1>1, <1>3, <3>1 DEF Rows
    <3>3. a.stage # "STAGE2"
      BY <2>1
    <3>4. QED
      BY <3>2, <3>3 DEF Without
  <2>2. CASE a.stage \notin {"STAGE1", "BOTH"}
    BY <1>2, <2>2
  <2>3. QED
    BY <2>1, <2>2
<1>6. TypeOK'
  BY <1>1, TypeAfterAck
<1>7. QueueInv' /\ PacketsInv' /\ ExecutedInv'
  BY <1>4, <1>5 DEF DeliveryInv, QueueInv, PacketsInv, ExecutedInv, Fits, IsFor,
                    LeftBefore
<1>8. SentInv'
  <2> SUFFICES ASSUME NEW c \in Commands, c.player # 0, c \in has[c.player],
                      c \notin has[0]
               PROVE  IsIn(queue'[c.player][0], c)
    BY <1>4 DEF SentInv
  <2>1. PICK r \in queue[c.player][0] : r.cmd = c
    BY DEF DeliveryInv, SentInv, IsIn
  <2>2. c.player \in Players
    BY CommandsAssumption
  <2>3. IsFor(c, 0)
    BY DEF IsFor, LeftBefore, RouterStays
  <2>4. ~(a.player = 0 /\ a.cmd = c /\ a.stage # "STAGE2")
    BY <1>3, <2>3 DEF AckIsTrue
  <2>5. r \in queue'[c.player][0]
    BY <1>1, <1>5, <2>1, <2>2, <2>4
  <2>6. QED
    BY <2>1, <2>5 DEF IsIn
<1>9. RelayedInv'
  <2> SUFFICES ASSUME NEW c \in Commands, NEW q \in Players \ {0},
                      c \in has[0], IsFor(c, q), c \notin has[q]
               PROVE  IsIn(queue'[0][q], c)
    BY <1>4 DEF RelayedInv, IsFor, LeftBefore
  <2>1. PICK r \in queue[0][q] : r.cmd = c
    BY DEF DeliveryInv, RelayedInv, IsIn
  <2>2. ~(a.player = q /\ a.cmd = c /\ a.stage # "STAGE2")
    BY <1>3 DEF AckIsTrue
  <2>3. r \in queue'[0][q]
    BY <1>1, <1>5, <2>1, <2>2
  <2>4. QED
    BY <2>1, <2>3 DEF IsIn
<1>10. ListInv'
  <2>1. ASSUME NEW q \in Players \ {0}
        PROVE  relayed'[q] = {}
    <3>1. relayed[q] = {}
      BY DEF DeliveryInv, ListInv
    <3>2. AckedBy({}, a) = {}
      BY DEF AckedBy
    <3>3. QED
      BY <1>1, <1>2, <3>1, <3>2
  <2>2. ASSUME NEW s \in relayed'[0]
        PROVE  Awaits(s)
    <3>1. CASE s \in relayed[0]
      BY <3>1 DEF DeliveryInv, ListInv
    <3>2. CASE s \notin relayed[0]
      <4>1. a.stage \in {"STAGE2", "BOTH"} /\ s \in AckedBy(relayed[0], a)
        BY <1>1, <1>2, <2>2, <3>2
      <4>2. QED
        BY <4>1, AwaitedAfterAck
    <3>3. QED
      BY <3>1, <3>2
  <2>3. QED
    BY <1>4, <2>1, <2>2 DEF ListInv, Awaits, IsFor, LeftBefore
<1>11. AcksInv'
  <2> SUFFICES ASSUME NEW b \in acks'
               PROVE  AckIsTrue(b)
    BY <1>4 DEF AcksInv, AckIsTrue, EverybodyHas, IsFor, LeftBefore
  <2>1. CASE b \in acks
    BY <2>1 DEF DeliveryInv, AcksInv
  <2>2. CASE \E q : b = [a EXCEPT !.to = q, !.relay = {q}]
    <3>1. b.stage = a.stage /\ b.player = a.player /\ b.cmd = a.cmd
      BY <1>3, <2>2 DEF Ack
    <3>2. QED
      BY <1>3, <3>1 DEF AckIsTrue
  <2>3. CASE /\ b \in StageTwoAck(p, a.cmd)
             /\ \E r \in relayed[p] : r.cmd = a.cmd
             /\ \A r \in AckedBy(relayed[p], a) : r.cmd # a.cmd
    <3>1. p = 0
      BY <2>3 DEF DeliveryInv, ListInv
    <3>2. EverybodyHas(a.cmd)
      BY <2>3, <3>1, LastAckMeansEverybody
    <3>3. b.stage = "STAGE2" /\ b.player = 0 /\ b.cmd = a.cmd
      BY <2>3 DEF StageTwoAck
    <3>4. QED
      BY <3>2, <3>3 DEF AckIsTrue
  <2>4. QED
    BY <1>2, <2>1, <2>2, <2>3
<1>12. QED
  BY <1>6, <1>7, <1>8, <1>9, <1>10, <1>11 DEF DeliveryInv

\* DeliveryInv holds of every state while the router stays.
LEMMA DeliveryInvariant ==
  ASSUME RouterStays
  PROVE  Spec => []DeliveryInv
<1>1. Init => DeliveryInv
  <2> SUFFICES ASSUME Init PROVE DeliveryInv
    OBVIOUS
  <2>1. TypeOK
    BY PlayersAssumption, FramesAssumption DEF Init, TypeOK
  <2>2. /\ \A p, q \in Players : queue[p][q] = {}
        /\ \A p \in Players : has[p] = {} /\ relayed[p] = {} /\ frame[p] = 0
        /\ packets = {} /\ acks = {}
    BY DEF Init
  <2>3. \A c \in Commands : c.player \in Players /\ c.frame \in Nat
    BY CommandsAssumption
  <2>4. QueueInv /\ PacketsInv /\ AcksInv
    BY <2>2 DEF QueueInv, PacketsInv, AcksInv
  <2>5. ExecutedInv
    BY <2>2, <2>3 DEF ExecutedInv
  <2>6. SentInv /\ RelayedInv /\ ListInv
    BY <2>2, <2>3, PlayersAssumption DEF SentInv, RelayedInv, ListInv
  <2>7. QED
    BY <2>1, <2>4, <2>5, <2>6 DEF DeliveryInv
<1>2. DeliveryInv /\ [Next]_vars => DeliveryInv'
  <2> SUFFICES ASSUME DeliveryInv, [Next]_vars PROVE DeliveryInv'
    OBVIOUS
  <2>1. ASSUME NEW p \in Players, RunFrame(p)
        PROVE  DeliveryInv'
    BY <2>1, DeliveryAfterRunning
  <2>2. ASSUME NEW p \in Players, ReceiveCommand(p)
        PROVE  DeliveryInv'
    BY <2>2, DeliveryAfterPacket DEF ReceiveCommand
  <2>3. ASSUME NEW p \in Players, ReceiveAck(p)
        PROVE  DeliveryInv'
    BY <2>3, DeliveryAfterAck
  <2>4. CASE UNCHANGED vars
    <3>1. UNCHANGED <<frame, has, queue, pending, relayed, packets, acks>>
      BY <2>4 DEF vars
    <3>2. TypeOK'
      BY <3>1 DEF DeliveryInv, TypeOK
    <3>3. QueueInv' /\ PacketsInv'
      BY <3>1 DEF DeliveryInv, QueueInv, PacketsInv, Fits
    <3>4. ExecutedInv'
      BY <3>1 DEF DeliveryInv, ExecutedInv, IsFor, LeftBefore
    <3>5. AcksInv'
      BY <3>1 DEF DeliveryInv, AcksInv, AckIsTrue, EverybodyHas, IsFor, LeftBefore
    <3>6. SentInv' /\ RelayedInv'
      BY <3>1 DEF DeliveryInv, SentInv, RelayedInv, IsIn, IsFor, LeftBefore
    <3>7. ListInv'
      BY <3>1 DEF DeliveryInv, ListInv, Awaits, IsFor, LeftBefore
    <3>8. QED
      BY <3>2, <3>3, <3>4, <3>5, <3>6, <3>7 DEF DeliveryInv
  <2>5. QED
    BY <2>1, <2>2, <2>3, <2>4 DEF Next
<1>3. QED
  BY <1>1, <1>2, PTL DEF Spec

\* While the router stays, a command that its player has is in every computer
\* it is for, or in a queue from which it will get there.
THEOREM KeptWhileTheRouterStays ==
  ASSUME RouterStays
  PROVE  Spec => []KeptUntilEverybodyHasIt
<1>1. DeliveryInv => KeptUntilEverybodyHasIt
  <2> SUFFICES ASSUME DeliveryInv, NEW c \in Commands, NEW q \in Players,
                      c \in has[c.player], IsFor(c, q), c \notin has[q]
               PROVE  \/ \E p \in Players : IsIn(queue[p][q], c)
                      \/ \E p \in Players : InGame(p) /\ IsIn(queue[c.player][p], c)
    BY DEF KeptUntilEverybodyHasIt
  <2>1. 0 \in Players /\ InGame(0)
    BY PlayersAssumption DEF RouterStays, InGame, LeftBefore
  <2>2. CASE c \in has[0]
    BY <2>1, <2>2 DEF DeliveryInv, RelayedInv
  <2>3. CASE c \notin has[0]
    BY <2>1, <2>3 DEF DeliveryInv, SentInv
  <2>4. QED
    BY <2>2, <2>3
<1>2. QED
  BY <1>1, DeliveryInvariant, PTL

\* "All the players in the relay mask have received the packet": what a stage 2
\* ack says is true while the router stays.
THEOREM StageTwoAcksAreTrue ==
  ASSUME RouterStays
  PROVE  Spec => [](\A a \in acks : a.stage = "STAGE2" => EverybodyHas(a.cmd))
<1>1. DeliveryInv => \A a \in acks : a.stage = "STAGE2" => EverybodyHas(a.cmd)
  BY DEF DeliveryInv, AcksInv, AckIsTrue
<1>2. QED
  BY <1>1, DeliveryInvariant, PTL

===============================================================================
