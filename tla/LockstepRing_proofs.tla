-------------------------- MODULE LockstepRing_proofs --------------------------
(***************************************************************************)
(* What the length of the ring is for.  A computer in the game never holds *)
(* two frames in one slot, never loses what it received for a frame still  *)
(* to come, and still has the frames it executed last.                     *)
(*                                                                         *)
(* The argument is that a player who has not left is waited for by all, so *)
(* nobody is further ahead of him than a run-ahead and a frame, and issues *)
(* nothing later than another run-ahead and a frame from there: what he is *)
(* sent ends before the slot of the oldest frame he keeps comes round.     *)
(***************************************************************************)
EXTENDS LockstepAgreement_proofs, WellFoundedInduction

\* The slot of frame f in what p's computer has of q.
Slot(p, q, f) == frameData[p][q][Index(f)]

\* What is announced of a computer's own commands is how many there are.
OwnReadyInv ==
  \A p \in Players : \A i \in Indices :
    frameData[p][p][i].announced = CommandCount(frameData[p][p][i])

-------------------------------------------------------------------------------
(* One frame in a slot.                                                      *)

\* All players wait for one who has not left: nobody is far ahead of him.
LEMMA NobodyIsFarAhead ==
  ASSUME TypeOK, AgreementInv, NEW p \in Players, NEW q \in Players,
         localStatus[p] \in {"PREGAME", "INGAME"}
  PROVE  frame[q] <= frame[p] + MaxRunAhead + 1
  <1>1. LeavesOf(p) = {}
    BY DEF AgreementInv, IssuedInv
  <1>2. p \in Playing(q)
    BY <1>1 DEF AgreementInv, HistoryInv, Playing
  <1>. QED
    BY <1>2, WaitedForIsNear

\* Nothing is issued or announced beyond the reach of such a player's rings,
\* the frames he keeps counted in.
LEMMA NothingIsFarAhead ==
  ASSUME TypeOK, AgreementInv, NEW p \in Players,
         localStatus[p] \in {"PREGAME", "INGAME"}
  PROVE  /\ \A c \in Commands :
              c.frame < frame[p] - FRAMES_TO_KEEP + FRAME_DATA_LENGTH
         /\ \A i \in FrameInfos :
              i.frame < frame[p] - FRAMES_TO_KEEP + FRAME_DATA_LENGTH
  <1>1. ASSUME NEW q \in Players, NEW f \in Nat,
               f <= frame[q] + MaxRunAhead + 1
        PROVE  f < frame[p] - FRAMES_TO_KEEP + FRAME_DATA_LENGTH
    <2>1. frame[q] <= frame[p] + MaxRunAhead + 1
      BY NobodyIsFarAhead
    <2>2. frame[q] \in Nat /\ frame[p] \in Nat
      BY DEF TypeOK
    <2>. QED
      BY <1>1, <2>1, <2>2, Lengths
  <1>2. ASSUME NEW c \in Commands
        PROVE  c.frame < frame[p] - FRAMES_TO_KEEP + FRAME_DATA_LENGTH
    <2>1. c.player \in Players /\ c.frame \in Nat
      BY CommandsType
    <2>2. c.frame <= frame[c.player] + MaxRunAhead + 1
      BY <2>1 DEF AgreementInv, IssuedInv, CommandsBy
    <2>. QED
      BY <1>1, <2>1, <2>2
  <1>3. ASSUME NEW i \in FrameInfos
        PROVE  i.frame < frame[p] - FRAMES_TO_KEEP + FRAME_DATA_LENGTH
    <2>1. i.player \in Players /\ i.frame \in Nat
      BY CommandsType
    <2>2. i.frame <= frame[i.player] + MaxRunAhead + 1
      BY DEF AgreementInv, AnnouncedInv
    <2>. QED
      BY <1>1, <2>1, <2>2
  <1>. QED
    BY <1>2, <1>3

\* The window of the ring follows from agreement.
LEMMA OneFrame ==
  ASSUME TypeOK, AgreementInv
  PROVE  SlotsHoldOneFrame
  <1> SUFFICES ASSUME NEW p \in Players, NEW q \in Players,
                      localStatus[p] # "LEFT", presence[p][q] # "gone",
                      NEW i \in Indices, NEW c \in frameData[p][q][i].commands
               PROVE  /\ frame[p] - FRAMES_TO_KEEP <= c.frame
                      /\ localStatus[p] = "LEAVING" =>
                           c.frame < frame[p] + FRAME_DATA_LENGTH
                      /\ localStatus[p] # "LEAVING" =>
                           c.frame < frame[p] - FRAMES_TO_KEEP + FRAME_DATA_LENGTH
    <2>1. \A p \in Players : frame[p] \in Nat
      BY DEF TypeOK
    <2>. QED
      BY <2>1, Lengths DEF SlotsHoldOneFrame
  <1>1. c \in CommandsBy(q) /\ Within(p, c.frame)
    BY DEF AgreementInv, HeldInv
  <1>2. CASE localStatus[p] = "LEAVING"
    BY <1>1, <1>2 DEF Within
  <1>3. CASE localStatus[p] # "LEAVING"
    <2>1. localStatus[p] \in {"PREGAME", "INGAME"}
      BY <1>3 DEF TypeOK
    <2>2. c \in Commands
      BY <1>1 DEF CommandsBy
    <2>. QED
      BY <1>1, <1>3, <2>1, <2>2, NothingIsFarAhead DEF Within
  <1>. QED
    BY <1>2, <1>3

\* Two frames never meet in one slot, for any length of the ring: twice the
\* frames a computer may be ahead, and two, is long enough.
THEOREM OneFrameInASlot == Spec => []SlotsHoldOneFrame
  <1>1. TypeOK /\ AgreementInv => SlotsHoldOneFrame
    BY OneFrame
  <1>. QED
    BY <1>1, AgreementIsInvariant, PTL

\* There is a smallest number in a set of natural numbers.
LEMMA SmallestOf ==
  ASSUME NEW S, S \subseteq Nat, S # {}
  PROVE  Min(S) \in S
  <1> DEFINE less == OpToRel(<, Nat)
  <1>1. IsWellFoundedOn(less, Nat)
    BY NatLessThanWellFounded
  <1>2. \A x, y \in Nat : x < y => <<x, y>> \in less
    BY DEF OpToRel
  <1> HIDE DEF less
  <1>3. PICK x \in S : \A y \in S : ~ (<<y, x>> \in less)
    BY <1>1, WFMin
  <1>4. ASSUME NEW y \in S
        PROVE  x <= y
    <2>1. x \in Nat /\ y \in Nat
      OBVIOUS
    <2>2. ~ (y < x)
      BY <1>2, <1>3, <2>1, Zenon
    <2>. QED
      BY <2>1, <2>2
  <1>. QED
    BY <1>4 DEF Min

-------------------------------------------------------------------------------
(* Nothing is lost.                                                          *)

\* A slot with what was issued for frame f, and its count, has not too many.
LEMMA NotTooMany ==
  ASSUME NEW fd \in FrameDatas(Command), NEW all, IsFiniteSet(all),
         fd.commands \subseteq all,
         fd.announced # NotAnnounced => fd.announced = Cardinality(all)
  PROVE  ~HasTooMany(fd)
  <1>1. fd.announced \in Nat \cup {NotAnnounced}
    BY DEF FrameDatas
  <1>2. Cardinality(fd.commands) <= Cardinality(all)
    BY FS_Subset
  <1>3. Cardinality(all) \in Nat /\ Cardinality(fd.commands) \in Nat
    BY FS_CardinalityType, FS_Subset
  <1>. QED
    BY <1>1, <1>2, <1>3 DEF HasTooMany, CommandCount

\* What is in the slot of a frame to come was issued for that frame.
LEMMA SlotOfFrame ==
  ASSUME TypeOK, AgreementInv, NEW p \in Players, NEW q \in Players,
         localStatus[p] \in {"PREGAME", "INGAME"}, presence[p][q] # "gone",
         NEW f \in Nat, frame[p] - FRAMES_TO_KEEP <= f,
         f < frame[p] - FRAMES_TO_KEEP + FRAME_DATA_LENGTH
  PROVE  /\ Slot(p, q, f).commands \subseteq IssuedBy(q, f)
         /\ p # q /\ frame[p] <= f /\ Slot(p, q, f).announced # NotAnnounced =>
              Slot(p, q, f).announced = Cardinality(IssuedBy(q, f))
  <1>0. /\ frame[p] \in Nat /\ Index(f) \in Indices
        /\ HeldInv(p, q) /\ CountInv(p, q)
    BY IndexType DEF TypeOK, AgreementInv
  <1>1. ASSUME NEW c \in Slot(p, q, f).commands
        PROVE  c \in IssuedBy(q, f)
    <2>1. c \in CommandsBy(q) /\ Index(c.frame) = Index(f) /\ Within(p, c.frame)
      BY <1>0, <1>1 DEF HeldInv, Slot
    <2>2. c \in Commands /\ c.player = q
      BY <2>1 DEF CommandsBy
    <2>3. /\ c.frame \in Nat
          /\ c.frame < frame[p] - FRAMES_TO_KEEP + FRAME_DATA_LENGTH
      BY <2>2, CommandsType, NothingIsFarAhead
    <2>4. c.frame - f < FRAME_DATA_LENGTH /\ f - c.frame < FRAME_DATA_LENGTH
      BY <1>0, <2>1, <2>3, Lengths DEF Within
    <2>5. c.frame = f
      BY <2>1, <2>3, <2>4, SlotsApart
    <2>. QED
      BY <2>2, <2>5 DEF IssuedBy
  <1>2. ASSUME p # q, frame[p] <= f, Slot(p, q, f).announced # NotAnnounced
        PROVE  Slot(p, q, f).announced = Cardinality(IssuedBy(q, f))
    <2>1. PICK g \in Nat \ {0} :
            /\ Index(g) = Index(f) /\ Within(p, g)
            /\ Slot(p, q, f).announced = Cardinality(IssuedBy(q, g))
      BY <1>0, <1>2 DEF CountInv, Slot
    <2>2. g - f < FRAME_DATA_LENGTH /\ f - g < FRAME_DATA_LENGTH
      BY <1>0, <1>2, <2>1, Lengths DEF Within
    <2>3. g = f
      BY <2>1, <2>2, SlotsApart
    <2>. QED
      BY <2>1, <2>3
  <1>. QED
    BY <1>1, <1>2

\* What was issued for a frame is finite.
LEMMA IssuedIsFinite ==
  ASSUME AgreementInv, NEW q, NEW f
  PROVE  IsFiniteSet(IssuedBy(q, f))
  <1>1. IsFiniteSet(Commands) /\ IssuedBy(q, f) \subseteq Commands
    BY DEF AgreementInv, IssuedBy
  <1>. QED
    BY <1>1, FS_Subset

\* So a computer in the game never clears a frame when it receives something.
LEMMA NothingIsCleared ==
  ASSUME TypeOK, AgreementInv, OwnReadyInv, NEW p \in Players, NEW t \in Players,
         localStatus[p] = "INGAME", p # t, presence[p][t] # "gone",
         NEW f \in Nat, frame[p] <= f,
         f < frame[p] - FRAMES_TO_KEEP + FRAME_DATA_LENGTH,
         NEW data \in Rings(Command),
         ~HasTooMany(data[Index(f)])
  PROVE  AfterReadinessTest(p, [frameData[p] EXCEPT ![t] = data], f)
           = [frameData[p] EXCEPT ![t] = data]
  <1> DEFINE given == [frameData[p] EXCEPT ![t] = data]
             unready == {q \in Playing(p) : ~IsReady(given[q][Index(f)])}
  <1>0. /\ frameData \in [Players -> [Players -> Rings(Command)]]
        /\ Index(f) \in Indices /\ frame[p] \in Nat
    BY FrameDataType, IndexType DEF TypeOK
  <1>1. ASSUME NEW q \in Playing(p)
        PROVE  IsReady(given[q][Index(f)]) \/ ~HasTooMany(given[q][Index(f)])
    <2>1. q \in Players /\ presence[p][q] # "gone"
      BY DEF Playing
    <2>2. CASE q = t
      BY <1>0, <2>1, <2>2
    <2>3. CASE q = p
      <3>1. given[q] = frameData[p][p]
        BY <1>0, <2>3
      <3>. QED
        BY <1>0, <3>1 DEF OwnReadyInv, IsReady
    <2>4. CASE q # t /\ q # p
      <3>1. given[q][Index(f)] = Slot(p, q, f)
        BY <1>0, <2>1, <2>4 DEF Slot
      <3>2. Slot(p, q, f) \in FrameDatas(Command)
        BY <1>0, <2>1 DEF Slot, Rings
      <3>3. frame[p] - FRAMES_TO_KEEP <= f
        BY <1>0, Lengths
      <3>4. /\ Slot(p, q, f).commands \subseteq IssuedBy(q, f)
            /\ Slot(p, q, f).announced # NotAnnounced =>
                 Slot(p, q, f).announced = Cardinality(IssuedBy(q, f))
        BY <2>1, <2>4, <3>3, SlotOfFrame
      <3>. QED
        BY <3>1, <3>2, <3>4, NotTooMany, IssuedIsFinite
    <2>. QED
      BY <2>2, <2>3, <2>4
  <1>2. CASE unready = {}
    BY <1>2 DEF AfterReadinessTest
  <1>3. CASE unready # {}
    <2>1. unready \subseteq Playing(p) /\ Playing(p) \subseteq Nat
      BY PlayersAssumption DEF Playing
    <2>2. Min(unready) \in unready
      <3> HIDE DEF unready
      <3>1. unready \subseteq Nat /\ unready # {}
        BY <1>3, <2>1
      <3>. QED
        BY <3>1, SmallestOf
    <2>3. ~HasTooMany(given[Min(unready)][Index(f)])
      BY <1>1, <2>1, <2>2
    <2>. QED
      BY <2>3 DEF AfterReadinessTest
  <1>. QED
    BY <1>2, <1>3

\* The local ring is ready in every slot, whatever is done to it.
LEMMA LocalRingReady ==
  ASSUME NEW ring \in Rings(Command), NEW f \in Nat, NEW c, NEW after,
         \A i \in Indices : ring[i].announced = CommandCount(ring[i]),
         after = AddLocal(ring, f, c) \/ after = ResetLocal(ring, f)
  PROVE  \A i \in Indices : after[i].announced = CommandCount(after[i])
  <1>1. Index(f) \in Indices
    BY IndexType
  <1>2. CASE after = AddLocal(ring, f, c)
    <2> DEFINE with == ring[Index(f)].commands \cup {c}
    <2>1. after = [ring EXCEPT ![Index(f)] =
                     [commands |-> with, announced |-> Cardinality(with)]]
      BY <1>2 DEF AddLocal, AddCommand
    <2> HIDE DEF with
    <2>. QED
      BY <1>1, <2>1 DEF Rings, CommandCount
  <1>3. CASE after = ResetLocal(ring, f)
    <2>1. after = [ring EXCEPT ![Index(f)] = [commands |-> {}, announced |-> 0]]
      BY <1>3 DEF ResetLocal, ResetFrame, ResetData
    <2>2. Cardinality({}) = 0
      BY FS_EmptySet
    <2>. QED
      BY <1>1, <2>1, <2>2 DEF Rings, CommandCount
  <1>. QED
    BY <1>2, <1>3

\* A computer never waits for itself before the game,
LEMMA OwnReadyInit == Init => OwnReadyInv
  <1> SUFFICES ASSUME Init, NEW p \in Players, NEW i \in Indices
               PROVE  frameData[p][p][i].announced = CommandCount(frameData[p][p][i])
    BY DEF OwnReadyInv
  <1>1. (p = p) = TRUE
    OBVIOUS
  <1>2. frameData[p][p] = [j \in Indices |->
          IF \E f \in 1 .. FirstRunAhead - 1 : j = Index(f)
          THEN [commands |-> {}, announced |-> 0]
          ELSE [commands |-> {}, announced |-> IF p = p THEN 0 ELSE NotAnnounced]]
    BY DEF Init, StartOfGame, ResetData
  <1>3. frameData[p][p][i] = [commands |-> {}, announced |-> 0]
    BY <1>2
  <1>4. Cardinality({}) = 0
    BY FS_EmptySet
  <1>. QED
    BY <1>3, <1>4 DEF CommandCount

\* and after any step.
LEMMA OwnReadyNext ==
  ASSUME TypeOK, AgreementInv, OwnReadyInv, [Next]_vars
  PROVE  OwnReadyInv'
  <1> SUFFICES ASSUME NEW p \in Players
               PROVE  \A i \in Indices :
                        frameData'[p][p][i].announced
                          = CommandCount(frameData'[p][p][i])
    BY DEF OwnReadyInv
  <1>0. /\ frameData \in [Players -> [Players -> Rings(Command)]]
        /\ \A q \in Players : CountersInv(q)
        /\ ReachInv
        /\ frame \in [Players -> Nat]
    BY FrameDataType DEF AgreementInv, TypeOK
  <1>1. ASSUME frameData'[p][p] = frameData[p][p]
        PROVE  \A i \in Indices :
                 frameData'[p][p][i].announced = CommandCount(frameData'[p][p][i])
    BY <1>1 DEF OwnReadyInv
  <1>2. ASSUME NEW f \in Nat, NEW c,
               \/ frameData'[p][p] = AddLocal(frameData[p][p], f, c)
               \/ frameData'[p][p] = ResetLocal(frameData[p][p], f)
        PROVE  \A i \in Indices :
                 frameData'[p][p][i].announced = CommandCount(frameData'[p][p][i])
    <2> DEFINE ring == frameData[p][p]
               after == frameData'[p][p]
    <2>1. /\ ring \in Rings(Command)
          /\ \A i \in Indices : ring[i].announced = CommandCount(ring[i])
          /\ after = AddLocal(ring, f, c) \/ after = ResetLocal(ring, f)
      BY <1>0, <1>2 DEF OwnReadyInv
    <2> HIDE DEF ring, after
    <2>2. \A i \in Indices : after[i].announced = CommandCount(after[i])
      BY <2>1, LocalRingReady
    <2>. QED
      BY <2>2 DEF after
  <1>3. ASSUME NEW r \in Players, NEW c \in Command, NEW fs, Issuing(r, c, fs)
        PROVE  \/ frameData'[p][p] = frameData[p][p]
               \/ frameData'[p][p] = AddLocal(frameData[p][p], c.frame, c)
    BY <1>0, <1>3 DEF Issuing, Adds
  <1>4. ASSUME NEW r \in Players, RunFrame(r)
        PROVE  \/ frameData'[p][p] = frameData[p][p]
               \/ \E f \in Nat :
                    frameData'[p][p] = ResetLocal(frameData[p][p], f)
    <2>1. CASE p # r
      BY <1>4, <2>1, RingsAfterRunning
    <2>2. CASE p = r
      <3>1. \/ frameData'[p][p] = frameData[p][p]
            \/ /\ frame[p] > FRAMES_TO_KEEP
               /\ frameData'[p][p] =
                    ResetLocal(frameData[p][p], frame[p] - FRAMES_TO_KEEP)
        BY <1>4, <2>2, RingsAfterRunning
      <3>2. frame[p] > FRAMES_TO_KEEP => frame[p] - FRAMES_TO_KEEP \in Nat
        BY <1>0, Lengths
      <3>. QED
        BY <3>1, <3>2
    <2>. QED
      BY <2>1, <2>2
  <1>5. ASSUME NEW r \in Players, NEW t \in Players, Deliver(r, t)
        PROVE  frameData'[p][p] = frameData[p][p]
    <2>1. PICK f \in Nat, data \in Rings(Command) : Receive(r, t, f, data)
      <3>1. ASSUME NEW c \in Command
            PROVE  /\ c.frame \in Nat
                   /\ AddRemote(frameData[r][t], c.frame, c) \in Rings(Command)
        BY <1>0, CommandsType, AddRemoteType
      <3>2. ASSUME NEW i \in FrameInfo
            PROVE  /\ i.frame \in Nat
                   /\ Announce(frameData[r][t], i.frame, i.count) \in Rings(Command)
        BY <1>0, CommandsType, AnnounceType
      <3>. QED
        BY <1>0, <1>5, <3>1, <3>2, Delivery
    <2>. QED
      BY <2>1, RingsAfterReceiving
  <1>6. ASSUME NEW f \in Nat,
               frameData'[p][p] = ResetLocal(frameData[p][p], f)
        PROVE  \A i \in Indices :
                 frameData'[p][p][i].announced = CommandCount(frameData'[p][p][i])
    BY <1>2, <1>6
  <1>7. ASSUME UNCHANGED frameData
        PROVE  frameData'[p][p] = frameData[p][p]
    BY <1>7
  <1>8. CASE \E r \in Players, c \in Command, fs \in SUBSET Nat : Issuing(r, c, fs)
    BY <1>1, <1>2, <1>3, <1>8, CommandsType
  <1>9. CASE \E r \in Players : RunFrame(r)
    BY <1>1, <1>4, <1>6, <1>9
  <1>10. CASE \E r, t \in Players : Deliver(r, t)
    BY <1>1, <1>5, <1>10
  <1>11. CASE \/ \E r \in Players : Announcing(r) \/ Waiting(r)
              \/ UNCHANGED vars
    BY <1>1, <1>7, <1>11 DEF Announcing, Waiting, vars
  <1>. QED
    BY <1>0, <1>8, <1>9, <1>10, <1>11, Steps

\* What a delivery changes in a computer which is in the game: the slot of one
\* frame to come, in what it has of the sender, and nothing is taken out of it.
LEMMA DeliveredOnly ==
  ASSUME TypeOK, AgreementInv, OwnReadyInv, NEW p \in Players, NEW t \in Players,
         localStatus[p] = "INGAME", Deliver(p, t)
  PROVE  \E f \in Nat :
           /\ frame[p] <= f
           /\ f < frame[p] - FRAMES_TO_KEEP + FRAME_DATA_LENGTH
           /\ \A q \in Players, i \in Indices :
                /\ frameData[p][q][i].commands \subseteq frameData'[p][q][i].commands
                /\ i # Index(f) =>
                     frameData'[p][q][i].commands = frameData[p][q][i].commands
  <1>0. /\ frameData \in [Players -> [Players -> Rings(Command)]]
        /\ frameData[p][t] \in Rings(Command)
        /\ localStatus[p] \in {"PREGAME", "INGAME"}
        /\ frame[p] \in Nat /\ ReachInv /\ AnnouncedInv
    BY FrameDataType DEF TypeOK, AgreementInv
  <1>1. ASSUME NEW f \in Nat, NEW data \in Rings(Command),
               Receive(p, t, f, data),
               f < frame[p] - FRAMES_TO_KEEP + FRAME_DATA_LENGTH,
               data[Index(f)].commands \subseteq IssuedBy(t, f),
               data[Index(f)].announced # NotAnnounced =>
                 data[Index(f)].announced = Cardinality(IssuedBy(t, f)),
               \A i \in Indices :
                 /\ frameData[p][t][i].commands \subseteq data[i].commands
                 /\ i # Index(f) => data[i].commands = frameData[p][t][i].commands
        PROVE  \A q \in Players, i \in Indices :
                 /\ frameData[p][q][i].commands \subseteq frameData'[p][q][i].commands
                 /\ i # Index(f) =>
                      frameData'[p][q][i].commands = frameData[p][q][i].commands
    <2> DEFINE given == [frameData[p] EXCEPT ![t] = data]
    <2>1. /\ p # t /\ presence[p][t] # "gone" /\ frame[p] <= f
          /\ frameData' = [frameData EXCEPT ![p] = AfterReadinessTest(p, given, f)]
      BY <1>0, <1>1 DEF Receive, Accepts
    <2>2. data[Index(f)] \in FrameDatas(Command)
      BY IndexType DEF Rings
    <2>3. ~HasTooMany(data[Index(f)])
      BY <1>1, <2>2, NotTooMany, IssuedIsFinite
    <2>4. AfterReadinessTest(p, given, f) = given
      BY <1>1, <2>1, <2>3, NothingIsCleared
    <2>5. \A q \in Players : given[q] = IF q = t THEN data ELSE frameData[p][q]
      BY <1>0
    <2> HIDE DEF given
    <2>6. frameData'[p] = given
      BY <1>0, <2>1, <2>4
    <2>. QED
      BY <1>1, <2>5, <2>6
  <1>2. ASSUME NEW f \in Nat, frame[p] <= f,
               f < frame[p] - FRAMES_TO_KEEP + FRAME_DATA_LENGTH,
               p # t, presence[p][t] # "gone"
        PROVE  /\ frameData[p][t][Index(f)].commands \subseteq IssuedBy(t, f)
               /\ frameData[p][t][Index(f)].announced # NotAnnounced =>
                    frameData[p][t][Index(f)].announced = Cardinality(IssuedBy(t, f))
    <2>1. frame[p] - FRAMES_TO_KEEP <= f
      BY <1>0, <1>2, Lengths
    <2>. QED
      BY <1>0, <1>2, <2>1, SlotOfFrame DEF Slot
  <1>3. CASE \E c \in CommandsBy(t) :
               /\ c \in Command /\ c.frame < frame[p] + FRAME_DATA_LENGTH
               /\ Receive(p, t, c.frame, AddRemote(frameData[p][t], c.frame, c))
    <2> PICK c \in CommandsBy(t) :
               /\ c \in Command
               /\ Receive(p, t, c.frame, AddRemote(frameData[p][t], c.frame, c))
      BY <1>3
    <2> DEFINE data == AddRemote(frameData[p][t], c.frame, c)
               f == c.frame
    <2>1. /\ f \in Nat /\ f < frame[p] - FRAMES_TO_KEEP + FRAME_DATA_LENGTH
          /\ c \in IssuedBy(t, f)
      BY <1>0, CommandsType, NothingIsFarAhead DEF CommandsBy, IssuedBy
    <2>2. data \in Rings(Command)
      BY <1>0, <2>1, AddRemoteType
    <2>3. \A i \in Indices :
            /\ i = Index(f) => data[i].commands = frameData[p][t][i].commands \cup {c}
            /\ i # Index(f) => data[i].commands = frameData[p][t][i].commands
            /\ data[i].announced = frameData[p][t][i].announced
      BY <1>0, <2>1, AddedRemotely
    <2>4. Receive(p, t, f, data)
      OBVIOUS
    <2> HIDE DEF data, f
    <2>5. /\ p # t /\ presence[p][t] # "gone" /\ frame[p] <= f
      BY <1>0, <2>1, <2>4 DEF Receive, Accepts
    <2>6. Index(f) \in Indices
      BY <2>1, IndexType
    <2>7. /\ data[Index(f)].commands \subseteq IssuedBy(t, f)
          /\ data[Index(f)].announced # NotAnnounced =>
               data[Index(f)].announced = Cardinality(IssuedBy(t, f))
      BY <1>2, <2>1, <2>3, <2>5, <2>6
    <2>8. \A i \in Indices :
            /\ frameData[p][t][i].commands \subseteq data[i].commands
            /\ i # Index(f) => data[i].commands = frameData[p][t][i].commands
      BY <2>3
    <2>. QED
      BY <1>1, <2>1, <2>2, <2>4, <2>5, <2>7, <2>8
  <1>4. CASE \E i \in FrameInfos :
               /\ i \in FrameInfo /\ i.player = t
               /\ i.frame < frame[p] + FRAME_DATA_LENGTH
               /\ Receive(p, t, i.frame,
                          Announce(frameData[p][t], i.frame, i.count))
    <2> PICK m \in FrameInfos :
               /\ m \in FrameInfo /\ m.player = t
               /\ Receive(p, t, m.frame,
                          Announce(frameData[p][t], m.frame, m.count))
      BY <1>4
    <2> DEFINE data == Announce(frameData[p][t], m.frame, m.count)
               f == m.frame
    <2>1. /\ f \in Nat /\ m.count \in Nat
          /\ f < frame[p] - FRAMES_TO_KEEP + FRAME_DATA_LENGTH
          /\ m.count = Cardinality(IssuedBy(t, f))
      BY <1>0, CommandsType, NothingIsFarAhead DEF AnnouncedInv
    <2>2. data \in Rings(Command)
      BY <1>0, <2>1, AnnounceType
    <2>3. \A i \in Indices :
            /\ data[i].commands = frameData[p][t][i].commands
            /\ i = Index(f) => data[i].announced = m.count
      BY <1>0, <2>1, AnnouncedInSlot
    <2>4. Receive(p, t, f, data)
      OBVIOUS
    <2> HIDE DEF data, f
    <2>5. /\ p # t /\ presence[p][t] # "gone" /\ frame[p] <= f
      BY <1>0, <2>1, <2>4 DEF Receive, Accepts
    <2>6. Index(f) \in Indices
      BY <2>1, IndexType
    <2>7. /\ data[Index(f)].commands \subseteq IssuedBy(t, f)
          /\ data[Index(f)].announced # NotAnnounced =>
               data[Index(f)].announced = Cardinality(IssuedBy(t, f))
      BY <1>2, <2>1, <2>3, <2>5, <2>6
    <2>. QED
      BY <1>1, <2>1, <2>2, <2>3, <2>4, <2>5, <2>7
  <1>. QED
    BY <1>0, <1>3, <1>4, Delivery

\* A frame which is forgotten shares its slot with none that is kept.
LEMMA ForgottenApart ==
  ASSUME TypeOK, NEW p \in Players, frame[p] > FRAMES_TO_KEEP,
         NEW f \in Nat, frame[p] - FRAMES_TO_KEEP < f,
         f < frame[p] - FRAMES_TO_KEEP + FRAME_DATA_LENGTH
  PROVE  /\ frame[p] - FRAMES_TO_KEEP \in Nat
         /\ Index(f) # Index(frame[p] - FRAMES_TO_KEEP)
  <1> DEFINE old == frame[p] - FRAMES_TO_KEEP
  <1>1. frame[p] \in Nat /\ FRAMES_TO_KEEP \in Nat
    BY Lengths DEF TypeOK
  <1>2. old \in Nat /\ old < f /\ f < old + FRAME_DATA_LENGTH
    BY <1>1
  <1> HIDE DEF old
  <1>3. f - old < FRAME_DATA_LENGTH /\ old - f < FRAME_DATA_LENGTH /\ f # old
    BY <1>2, Lengths
  <1>4. Index(f) # Index(old)
    BY <1>2, <1>3, SlotsApart
  <1>. QED
    BY <1>2, <1>4 DEF old

\* So when a computer runs a frame, the slots of the frames it keeps stay.
LEMMA KeptAfterRunning ==
  ASSUME TypeOK, NEW p \in Players, RunFrame(p), NEW q \in Players,
         presence'[p][q] # "gone", NEW f \in Nat,
         frame[p] - FRAMES_TO_KEEP < f,
         f < frame[p] - FRAMES_TO_KEEP + FRAME_DATA_LENGTH
  PROVE  frameData'[p][q][Index(f)] = frameData[p][q][Index(f)]
  <1>0. /\ frameData[p][q] \in Rings(Command) /\ Index(f) \in Indices
    BY FrameDataType, IndexType
  <1>1. frame[p] \in Nat /\ FRAMES_TO_KEEP \in Nat
    BY Lengths DEF TypeOK
  <1>2. CASE frame[p] <= FRAMES_TO_KEEP
    <2>1. ~ (frame[p] > FRAMES_TO_KEEP)
      BY <1>2, <1>1
    <2>2. frameData'[p] = frameData[p]
      BY <2>1, RingsAfterRunning
    <2>. QED
      BY <2>2
  <1>3. CASE frame[p] > FRAMES_TO_KEEP
    <2> DEFINE old == frame[p] - FRAMES_TO_KEEP
    <2>1. old \in Nat /\ Index(f) # Index(old)
      BY <1>3, ForgottenApart
    <2>2. \/ frameData'[p][q] = ResetLocal(frameData[p][q], old)
          \/ frameData'[p][q] = ResetRemote(frameData[p][q], old)
      <3>1. ~ (frame[p] <= FRAMES_TO_KEEP)
        BY <1>3, <1>1
      <3>. QED
        BY <3>1, RingsAfterRunning
    <2> HIDE DEF old
    <2>. QED
      BY <1>0, <2>1, <2>2, ResetLocally, ResetRemotely
  <1>. QED
    BY <1>2, <1>3, <1>1

\* A delivery changes nothing on other computers.
LEMMA OthersUntouched ==
  ASSUME TypeOK, NEW r \in Players, NEW t, Deliver(r, t),
         NEW p \in Players, p # r
  PROVE  frameData'[p] = frameData[p]
  <1>1. frameData \in [Players -> [Players -> Rings(Command)]]
    BY FrameDataType
  <1>2. ASSUME NEW f, NEW data, Receive(r, t, f, data)
        PROVE  frameData'[p] = frameData[p]
    BY <1>1, <1>2 DEF Receive
  <1>3. CASE ReceiveCommand(r, t)
    <2>1. PICK c \in SentTo(r, t) :
            Receive(r, t, c.frame, AddRemote(frameData[r][t], c.frame, c))
      BY <1>3 DEF ReceiveCommand, AddRemote
    <2>. QED
      BY <1>2, <2>1
  <1>4. CASE ReceiveFrameInfo(r, t)
    <2>1. PICK i \in SentTo(r, t) :
            Receive(r, t, i.frame, Announce(frameData[r][t], i.frame, i.count))
      BY <1>4 DEF ReceiveFrameInfo
    <2>. QED
      BY <1>2, <2>1
  <1>. QED
    BY <1>3, <1>4 DEF Deliver

\* No step of a computer takes away what it received for a frame to come.
LEMMA KeepsStep ==
  ASSUME TypeOK, AgreementInv, OwnReadyInv, [Next]_vars
  PROVE  KeepsWhatItReceived
  <1> SUFFICES ASSUME NEW p \in Players, NEW q \in Players,
                      localStatus[p] = "INGAME", presence'[p][q] = "playing",
                      NEW i \in Indices, NEW c \in frameData[p][q][i].commands,
                      c.frame >= frame'[p]
               PROVE  c \in frameData'[p][q][i].commands
    BY DEF KeepsWhatItReceived
  <1>0. /\ frameData \in [Players -> [Players -> Rings(Command)]]
        /\ \A r \in Players : CountersInv(r)
        /\ frame \in [Players -> Nat]
        /\ localStatus[p] \in {"PREGAME", "INGAME"}
        /\ HeldInv(p, q)
    BY FrameDataType DEF TypeOK, AgreementInv
  <1>1. ASSUME NEW r \in Players, NEW d \in Command, NEW fs, Issuing(r, d, fs)
        PROVE  c \in frameData'[p][q][i].commands
    <2>1. /\ frameData' = [frameData EXCEPT ![r][r] =
               AddLocal(frameData[r][r], d.frame, d)]
          /\ d.frame \in Nat
      BY <1>1, CommandsType DEF Issuing, Adds
    <2>2. CASE p = r /\ q = r
      <3>1. /\ frameData'[p][q] = AddLocal(frameData[p][q], d.frame, d)
            /\ frameData[p][q] \in Rings(Command)
        BY <1>0, <2>1, <2>2
      <3>. QED
        BY <2>1, <3>1, AddedLocally
    <2>3. CASE ~(p = r /\ q = r)
      BY <1>0, <2>1, <2>3
    <2>. QED
      BY <2>2, <2>3
  <1>2. ASSUME NEW r \in Players, RunFrame(r)
        PROVE  c \in frameData'[p][q][i].commands
    <2>1. CASE r # p
      BY <1>2, <2>1, RingsAfterRunning
    <2>2. CASE r = p
      <3>1. /\ presence'[p][q] # "gone" /\ presence[p][q] # "gone"
            /\ frame'[p] = frame[p] + 1
        <4>1. frame' = [frame EXCEPT ![p] = frame[p] + 1]
          BY <1>2, <2>2 DEF RunFrame
        <4>2. frame'[p] = frame[p] + 1
          BY <1>0, <4>1
        <4>3. presence'[p][q] # "gone"
          OBVIOUS
        <4>4. presence[p][q] # "gone"
          BY <1>2, <2>2, RingsAfterRunning
        <4>. QED
          BY <4>2, <4>3, <4>4
      <3>2. c \in CommandsBy(q) /\ Index(c.frame) = i
        BY <1>0, <3>1 DEF HeldInv
      <3>3. /\ c.frame \in Nat
            /\ c.frame < frame[p] - FRAMES_TO_KEEP + FRAME_DATA_LENGTH
        <4>1. c \in Commands
          BY <3>2 DEF CommandsBy
        <4>2. c.frame \in Nat
          BY <4>1, CommandsType
        <4>3. c.frame < frame[p] - FRAMES_TO_KEEP + FRAME_DATA_LENGTH
          BY <1>0, <4>1, NothingIsFarAhead
        <4>. QED
          BY <4>2, <4>3
      <3>4. frame[p] - FRAMES_TO_KEEP < c.frame
        BY <1>0, <3>1, <3>3, Lengths
      <3>5. frameData'[p][q][Index(c.frame)] = frameData[p][q][Index(c.frame)]
        BY <1>2, <2>2, <3>1, <3>3, <3>4, KeptAfterRunning
      <3>. QED
        BY <3>2, <3>5
    <2>. QED
      BY <2>1, <2>2
  <1>3. ASSUME NEW r \in Players, NEW t \in Players, Deliver(r, t)
        PROVE  c \in frameData'[p][q][i].commands
    <2>1. CASE r # p
      <3>1. frameData'[p] = frameData[p]
        BY <1>3, <2>1, OthersUntouched
      <3>. QED
        BY <3>1
    <2>2. CASE r = p
      BY <1>3, <2>2, DeliveredOnly
    <2>. QED
      BY <2>1, <2>2
  <1>4. CASE UNCHANGED frameData
    BY <1>4
  <1>. QED
    BY <1>0, <1>1, <1>2, <1>3, <1>4, Steps DEF Announcing, Waiting, vars

\* A computer in the game loses nothing it received for a frame it has not yet
\* executed: allCommandsReady never finds too many commands, and the frames
\* forgotten are not in the slots of the frames to come.
THEOREM NothingIsLost == Spec => NothingReceivedIsLost
  <1>1. Init => OwnReadyInv
    BY OwnReadyInit
  <1>2. TypeOK /\ AgreementInv /\ OwnReadyInv /\ [Next]_vars => OwnReadyInv'
    BY OwnReadyNext
  <1>3. TypeOK /\ AgreementInv /\ OwnReadyInv /\ [Next]_vars
          => [KeepsWhatItReceived]_frameData
    BY KeepsStep
  <1>. QED
    BY <1>1, <1>2, <1>3, AgreementIsInvariant, PTL DEF Spec, NothingReceivedIsLost

-------------------------------------------------------------------------------
(* The frames executed last are still there.                                 *)

\* The frame data of who left is kept until nothing of his is among the last
\* FRAMES_TO_KEEP frames.
QuitInv(p, q) ==
  /\ presence[p][q] = "quitting" =>
       \E l \in LeavesOf(q) : quitFrame[p][q] = l.frame + FRAMES_TO_KEEP + 1
  /\ presence[p][q] = "gone" /\ p # q =>
       \E l \in LeavesOf(q) : l.frame + FRAMES_TO_KEEP + 1 < frame[p]

\* A frame executed by p which is kept.
Recent(p, f) == f >= 1 /\ frame[p] - FRAMES_TO_KEEP <= f /\ f < frame[p]

\* The slots of recent frames hold what was issued for them.
RecentInv(p, q) ==
  localStatus[p] = "INGAME" /\ presence[p][q] # "gone" =>
    \A f \in Nat : Recent(p, f) => Slot(p, q, f).commands = IssuedBy(q, f)

RingInv ==
  /\ OwnReadyInv
  /\ \A p, q \in Players : QuitInv(p, q) /\ RecentInv(p, q)

\* Frame counters do not go back, and only running a frame changes who is there.
LEMMA OnlyRunFrameQuits ==
  ASSUME TypeOK, [Next]_vars
  PROVE  /\ \A p \in Players : frame'[p] \in Nat /\ frame'[p] >= frame[p]
         /\ \/ UNCHANGED <<presence, quitFrame>>
            \/ \E p \in Players : RunFrame(p)
  <1>1. frame \in [Players -> Nat]
    BY DEF TypeOK
  <1>2. CASE UNCHANGED vars
    BY <1>1, <1>2 DEF vars
  <1>3. ASSUME NEW p \in Players,
               \/ SendLocalGameMessage(p) \/ UpdateRunAhead(p) \/ FrameTick(p)
               \/ LeaveGame(p) \/ \E q \in Players : Deliver(p, q)
        PROVE  UNCHANGED <<frame, presence, quitFrame>>
    BY <1>3 DEF SendLocalGameMessage, UpdateRunAhead, FrameTick, LeaveGame, Deliver,
                ReceiveCommand, ReceiveFrameInfo, Receive, runVars
  <1>4. ASSUME NEW p \in Players, RunPregameFrame(p)
        PROVE  /\ UNCHANGED <<presence, quitFrame>>
               /\ \A q \in Players : frame'[q] \in Nat /\ frame'[q] >= frame[q]
    BY <1>1, <1>4 DEF RunPregameFrame
  <1>5. ASSUME NEW p \in Players, RunFrame(p)
        PROVE  \A q \in Players : frame'[q] \in Nat /\ frame'[q] >= frame[q]
    BY <1>1, <1>5 DEF RunFrame
  <1>. QED
    BY <1>1, <1>2, <1>3, <1>4, <1>5 DEF Next

\* Who left is gone when his quit frame comes, and not earlier.
LEMMA QuitNext ==
  ASSUME TypeOK, AgreementInv, [Next]_vars, NEW p \in Players, NEW q \in Players,
         QuitInv(p, q)
  PROVE  QuitInv(p, q)'
  <1>0. /\ frame \in [Players -> Nat]
        /\ presence \in [Players -> [Players -> Presence]]
        /\ quitFrame \in [Players -> [Players -> Nat]]
        /\ \A r \in Players : CountersInv(r)
        /\ frame[p] \in Nat /\ frame'[p] \in Nat /\ frame'[p] >= frame[p]
    BY OnlyRunFrameQuits DEF AgreementInv, TypeOK
  <1>a. FRAMES_TO_KEEP \in Nat
    BY Lengths
  <1>1. /\ LeavesOf(q) \subseteq LeavesOf(q)'
        /\ \A l \in LeavesOf(q) : l.frame \in Nat
    BY <1>0, CommandsStay, CommandsType DEF LeavesOf, CommandsBy
  <1>2. ASSUME presence'[p][q] = presence[p][q], quitFrame'[p][q] = quitFrame[p][q]
        PROVE  QuitInv(p, q)'
    <2>1. ASSUME presence'[p][q] = "quitting"
          PROVE  \E l \in LeavesOf(q)' :
                   quitFrame'[p][q] = l.frame + FRAMES_TO_KEEP + 1
      BY <1>1, <1>2, <2>1 DEF QuitInv
    <2>2. ASSUME presence'[p][q] = "gone", p # q
          PROVE  \E l \in LeavesOf(q)' : l.frame + FRAMES_TO_KEEP + 1 < frame'[p]
      <3>1. PICK l \in LeavesOf(q) : l.frame + FRAMES_TO_KEEP + 1 < frame[p]
        BY <1>2, <2>2 DEF QuitInv
      <3>. QED
        BY <1>0, <1>a, <1>1, <3>1
    <2>. QED
      BY <2>1, <2>2 DEF QuitInv
  <1>3. ASSUME RunFrame(p)
        PROVE  QuitInv(p, q)'
    <2> DEFINE leaving == LeavingIn(FrameCommandList(p))
               now == PresenceNow(p)[q]
    <2>1. /\ presence'[p] = PresenceAfter(p, leaving)
          /\ quitFrame'[p][q] = IF q \in leaving \ {p} /\ now = "playing"
                                THEN QuitFrame(p) ELSE quitFrame[p][q]
          /\ frame'[p] = frame[p] + 1
      BY <1>0, <1>3 DEF RunFrame
    <2>2. /\ presence'[p][q] = IF q \in leaving
                               THEN IF q = p \/ now = "gone" THEN "gone" ELSE "quitting"
                               ELSE now
          /\ now = IF presence[p][q] = "quitting" /\ quitFrame[p][q] = frame[p]
                   THEN "gone" ELSE presence[p][q]
      BY <2>1 DEF PresenceAfter, PresenceNow
    <2>3. q \in leaving => \E l \in LeavesOf(q) : l.frame = frame[p]
      BY <1>3, LeavingIsLeave
    <2>4. presence[p][q] \in {"playing", "quitting", "gone"}
      BY <1>0 DEF Presence
    <2>5. now \in {"playing", "quitting", "gone"}
      BY <2>2, <2>4
    <2> HIDE DEF now, leaving
    <2>6. ASSUME presence'[p][q] = "quitting"
          PROVE  \E l \in LeavesOf(q) :
                   quitFrame'[p][q] = l.frame + FRAMES_TO_KEEP + 1
      <3>1. CASE now = "playing"
        <4>1. q \in leaving \ {p}
          BY <2>2, <2>6, <3>1
        <4>. QED
          BY <2>1, <2>3, <3>1, <4>1 DEF QuitFrame
      <3>2. CASE now = "quitting"
        BY <2>1, <2>2, <3>2 DEF QuitInv
      <3>. QED
        BY <2>2, <2>5, <2>6, <3>1, <3>2
    <2>7. ASSUME presence'[p][q] = "gone", p # q
          PROVE  \E l \in LeavesOf(q) : l.frame + FRAMES_TO_KEEP + 1 < frame'[p]
      <3>1. now = "gone"
        BY <2>2, <2>7
      <3>2. CASE presence[p][q] = "gone"
        <4>1. PICK l \in LeavesOf(q) : l.frame + FRAMES_TO_KEEP + 1 < frame[p]
          BY <2>7, <3>2 DEF QuitInv
        <4>. QED
          BY <1>0, <1>a, <1>1, <4>1
      <3>3. CASE presence[p][q] # "gone"
        <4>1. PICK l \in LeavesOf(q) : frame[p] = l.frame + FRAMES_TO_KEEP + 1
          BY <2>2, <3>1, <3>3 DEF QuitInv
        <4>. QED
          BY <1>0, <1>a, <1>1, <2>1, <4>1
      <3>. QED
        BY <3>2, <3>3
    <2>. QED
      BY <1>1, <2>6, <2>7 DEF QuitInv
  <1>4. ASSUME NEW r \in Players, RunFrame(r), r # p
        PROVE  presence'[p][q] = presence[p][q] /\ quitFrame'[p][q] = quitFrame[p][q]
    BY <1>0, <1>4 DEF RunFrame
  <1>. QED
    BY <1>2, <1>3, <1>4, OnlyRunFrameQuits

\* What was issued for a frame that was executed is final.
LEMMA ExecutedIsFinal ==
  ASSUME TypeOK, AgreementInv, [Next]_vars, NEW p \in Players, NEW q \in Players,
         NEW f \in Nat, f >= 1, f < frame[p]
  PROVE  IssuedBy(q, f)' = IssuedBy(q, f)
  <1>1. /\ CountersInv(p) /\ HistoryInv(p, q) /\ frame[p] \in Nat
        /\ localStatus[p] \in {"PREGAME", "INGAME", "LEAVING", "LEFT"}
        /\ \A r \in Players : CountersInv(r)
    BY DEF AgreementInv, TypeOK
  <1>2. f \in 1 .. Len(executed[p])
    BY <1>1 DEF CountersInv
  <1>3. Closed(q, f)
    BY <1>1, <1>2 DEF HistoryInv
  <1>. QED
    BY <1>1, <1>3, IssuedStays

\* The frames executed last stay in their slots: what is received is for frames
\* to come, and less than the length of the ring ahead of them.
LEMMA RecentNext ==
  ASSUME TypeOK, AgreementInv, OwnReadyInv, [Next]_vars,
         NEW p \in Players, NEW q \in Players, RecentInv(p, q)
  PROVE  RecentInv(p, q)'
  <1> SUFFICES ASSUME localStatus'[p] = "INGAME", presence'[p][q] # "gone",
                      NEW f \in Nat, f >= 1,
                      frame'[p] - FRAMES_TO_KEEP <= f, f < frame'[p]
               PROVE  frameData'[p][q][Index(f)].commands = IssuedBy(q, f)'
    BY DEF RecentInv, Recent, Slot
  <1>0. /\ frameData \in [Players -> [Players -> Rings(Command)]]
        /\ frame \in [Players -> Nat] /\ frame[p] \in Nat
        /\ localStatus \in [Players -> {"PREGAME", "INGAME", "LEAVING", "LEFT"}]
        /\ \A r \in Players : CountersInv(r)
        /\ Index(f) \in Indices
    BY FrameDataType, IndexType DEF TypeOK, AgreementInv
  <1>1. ASSUME localStatus[p] = "INGAME", presence[p][q] # "gone",
               f < frame[p], frame[p] - FRAMES_TO_KEEP <= f,
               frameData'[p][q][Index(f)].commands
                 = frameData[p][q][Index(f)].commands
        PROVE  frameData'[p][q][Index(f)].commands = IssuedBy(q, f)'
    BY <1>1, ExecutedIsFinal DEF RecentInv, Recent, Slot
  <1>2. ASSUME NEW r \in Players, NEW c \in Command, NEW fs, Issuing(r, c, fs)
        PROVE  frameData'[p][q][Index(f)].commands = IssuedBy(q, f)'
    <2>1. /\ frameData' = [frameData EXCEPT ![r][r] =
               AddLocal(frameData[r][r], c.frame, c)]
          /\ c.frame \in Nat /\ frame' = frame /\ presence' = presence
          /\ localStatus[p] = "INGAME"
      BY <1>0, <1>2, CommandsType DEF Issuing, Adds
    <2>2. CASE ~(p = r /\ q = r)
      <3>1. frameData'[p][q] = frameData[p][q]
        BY <1>0, <2>1, <2>2
      <3>. QED
        BY <1>1, <2>1, <3>1
    <2>3. CASE p = r /\ q = r
      <3>1. /\ frameData'[p][q] = AddLocal(frameData[p][q], c.frame, c)
            /\ frameData[p][q] \in Rings(Command)
        BY <1>0, <2>1, <2>3
      <3>2. Index(f) # Index(c.frame)
        <4>1. /\ ExecutionFrame(p) \in Nat /\ ExecutionFrame(p) > frame[p]
              /\ ExecutionFrame(p) <= frame[p] + MaxRunAhead
          BY <1>0, ExecutionFrameIsNear
        <4>2. c.frame \in {ExecutionFrame(p), ExecutionFrame(p) + 1}
          BY <1>2, <2>3 DEF Issuing
        <4>3. /\ c.frame - f < FRAME_DATA_LENGTH /\ f - c.frame < FRAME_DATA_LENGTH
              /\ f # c.frame
          BY <1>0, <2>1, <4>1, <4>2, Lengths
        <4>. QED
          BY <2>1, <4>3, SlotsApart
      <3>3. frameData'[p][q][Index(f)].commands = frameData[p][q][Index(f)].commands
        BY <1>0, <2>1, <3>1, <3>2, AddedLocally
      <3>. QED
        BY <1>1, <2>1, <3>3
    <2>. QED
      BY <2>2, <2>3
  <1>3. ASSUME NEW r \in Players, Announcing(r)
        PROVE  frameData'[p][q][Index(f)].commands = IssuedBy(q, f)'
    <2>1. UNCHANGED <<frame, frameData, presence>>
      BY <1>3 DEF Announcing
    <2>2. localStatus[p] = "INGAME"
      <3>1. localStatus[p] = "PREGAME" => frame[p] <= 1
        BY <1>0 DEF CountersInv
      <3>2. localStatus[p] \in {"PREGAME", "INGAME"}
        BY <1>0, <1>3 DEF Announcing
      <3>. QED
        BY <1>0, <2>1, <3>1, <3>2
    <2>. QED
      BY <1>1, <2>1, <2>2
  <1>4. ASSUME NEW r \in Players, RunFrame(r)
        PROVE  frameData'[p][q][Index(f)].commands = IssuedBy(q, f)'
    <2>1. CASE r # p
      <3>1. /\ frameData'[p] = frameData[p] /\ frame'[p] = frame[p]
            /\ localStatus'[p] = localStatus[p]
        BY <1>0, <1>4, <2>1, RingsAfterRunning DEF RunFrame
      <3>2. presence'[p] = presence[p]
        BY <1>4, <2>1 DEF RunFrame, TypeOK
      <3>. QED
        BY <1>1, <3>1, <3>2
    <2>2. CASE r = p
      <3>1. /\ frame'[p] = frame[p] + 1
            /\ localStatus[p] = "INGAME" /\ presence[p][q] # "gone"
        <4>1. /\ frame'[p] = frame[p] + 1
              /\ localStatus'[p] # "LEFT" => localStatus'[p] = localStatus[p]
          BY <1>0, <1>4, <2>2 DEF RunFrame
        <4>2. presence[p][q] # "gone"
          BY <1>4, <2>2, RingsAfterRunning
        <4>. QED
          BY <4>1, <4>2
      <3>2. /\ frame[p] - FRAMES_TO_KEEP < f /\ f <= frame[p]
            /\ f < frame[p] - FRAMES_TO_KEEP + FRAME_DATA_LENGTH
            /\ frame[p] - FRAMES_TO_KEEP <= f
        BY <1>0, <3>1, Lengths
      <3>3. frameData'[p][q][Index(f)] = frameData[p][q][Index(f)]
        BY <1>4, <2>2, <3>2, KeptAfterRunning
      <3>4. CASE f < frame[p]
        BY <1>1, <3>1, <3>2, <3>3, <3>4
      <3>5. CASE f = frame[p]
        <4>1. IssuedBy(q, f)' = IssuedBy(q, f)
          BY <1>4, NothingIssued DEF IssuedBy
        <4>2. CASE q \in Playing(p)
          BY <1>4, <2>2, <3>3, <3>5, <4>1, <4>2, SlotComplete
        <4>3. CASE q \notin Playing(p)
          <5>1. IssuedBy(q, f) = {}
            BY <3>5, <4>3, NothingOfOthers
          <5>2. frameData[p][q][Index(f)].commands \subseteq IssuedBy(q, f)
            BY <3>1, <3>5, HeldForFrame
          <5>. QED
            BY <3>3, <4>1, <5>1, <5>2
        <4>. QED
          BY <4>2, <4>3
      <3>. QED
        BY <1>0, <3>2, <3>4, <3>5
    <2>. QED
      BY <2>1, <2>2
  <1>5. ASSUME NEW r \in Players, NEW t \in Players, Deliver(r, t)
        PROVE  frameData'[p][q][Index(f)].commands = IssuedBy(q, f)'
    <2>1. UNCHANGED <<frame, localStatus, presence>>
      BY <1>5, OnlyFrameData
    <2>2. CASE r # p
      <3>1. frameData'[p] = frameData[p]
        BY <1>5, <2>2, OthersUntouched
      <3>. QED
        BY <1>1, <2>1, <3>1
    <2>3. CASE r = p
      <3>1. PICK g \in Nat :
              /\ frame[p] <= g
              /\ g < frame[p] - FRAMES_TO_KEEP + FRAME_DATA_LENGTH
              /\ \A i \in Indices : i # Index(g) =>
                   frameData'[p][q][i].commands = frameData[p][q][i].commands
        BY <1>5, <2>1, <2>3, DeliveredOnly
      <3>2. g - f < FRAME_DATA_LENGTH /\ f - g < FRAME_DATA_LENGTH /\ f # g
        BY <1>0, <2>1, <3>1, Lengths
      <3>3. Index(f) # Index(g)
        BY <3>2, SlotsApart
      <3>. QED
        BY <1>0, <1>1, <2>1, <3>1, <3>3
    <2>. QED
      BY <2>2, <2>3
  <1>6. ASSUME NEW r \in Players, Waiting(r)
        PROVE  frameData'[p][q][Index(f)].commands = IssuedBy(q, f)'
    <2>1. UNCHANGED <<frameData, localStatus, presence>>
      BY <1>6 DEF Waiting
    <2>2. frame'[p] = frame[p]
      BY <1>0, <1>6, <2>1 DEF Waiting
    <2>. QED
      BY <1>1, <2>1, <2>2
  <1>7. CASE UNCHANGED vars
    BY <1>1, <1>7 DEF vars
  <1>. QED
    BY <1>0, <1>2, <1>3, <1>4, <1>5, <1>6, <1>7, Steps

\* The invariant of the rings, before the game
LEMMA RingInit == Init => RingInv
  <1> SUFFICES ASSUME Init PROVE RingInv
    OBVIOUS
  <1>1. \A p, q \in Players : presence[p][q] = "playing" /\ localStatus[p] = "PREGAME"
    BY DEF Init
  <1>. QED
    BY <1>1, OwnReadyInit DEF RingInv, QuitInv, RecentInv

\* and after every step.
LEMMA RingNext ==
  ASSUME TypeOK, AgreementInv, RingInv, [Next]_vars
  PROVE  RingInv'
  BY OwnReadyNext, QuitNext, RecentNext DEF RingInv

\* It follows that the frames executed last are still there.
LEMMA RecentFrames ==
  ASSUME TypeOK, AgreementInv, RingInv
  PROVE  KeepsRecentFrames
  <1> SUFFICES ASSUME NEW p \in Players, localStatus[p] = "INGAME",
                      NEW f \in Max({1, frame[p] - FRAMES_TO_KEEP}) .. frame[p] - 1
               PROVE  executed[p][f] =
                        UNION {frameData[p][q][Index(f)].commands :
                                 q \in {r \in Players : presence[p][r] # "gone"}}
    BY DEF KeepsRecentFrames
  <1>0. /\ frame[p] \in Nat /\ CountersInv(p)
        /\ \A q \in Players : IssuedInv(q) /\ QuitInv(p, q) /\ RecentInv(p, q)
    BY DEF TypeOK, AgreementInv, RingInv
  <1>1. /\ f \in Nat /\ f >= 1 /\ frame[p] - FRAMES_TO_KEEP <= f /\ f < frame[p]
        /\ f \in 1 .. Len(executed[p])
    <2> DEFINE old == frame[p] - FRAMES_TO_KEEP
    <2>1. old \in Int
      BY <1>0, Lengths
    <2> HIDE DEF old
    <2>2. Max({1, old}) \in {1, old} /\ Max({1, old}) >= 1 /\ Max({1, old}) >= old
      BY <2>1, MaxOfTwo
    <2>3. f \in Max({1, old}) .. frame[p] - 1
      BY DEF old
    <2>4. f \in Nat /\ f >= 1 /\ old <= f /\ f < frame[p]
      BY <1>0, <2>1, <2>2, <2>3
    <2>5. Len(executed[p]) = frame[p] - 1
      BY <1>0 DEF CountersInv
    <2>. QED
      BY <1>0, <2>4, <2>5 DEF old
  <1>2. executed[p][f] = IssuedFor(f)
    BY <1>1 DEF AgreementInv, ExecutesWhatWasIssued
  <1>3. ASSUME NEW q \in Players, presence[p][q] # "gone"
        PROVE  frameData[p][q][Index(f)].commands = IssuedBy(q, f)
    BY <1>0, <1>1, <1>3 DEF RecentInv, Recent, Slot
  <1>4. ASSUME NEW q \in Players, presence[p][q] = "gone"
        PROVE  IssuedBy(q, f) = {}
    <2>1. p # q
      BY <1>0, <1>4 DEF CountersInv
    <2>2. PICK l \in LeavesOf(q) : l.frame + FRAMES_TO_KEEP + 1 < frame[p]
      BY <1>0, <1>4, <2>1 DEF QuitInv
    <2>3. \A c \in CommandsBy(q) : c.frame <= l.frame /\ c.frame \in Nat
      BY <1>0, CommandsType DEF IssuedInv, CommandsBy
    <2>4. l.frame \in Nat /\ FRAMES_TO_KEEP \in Nat
      BY Lengths, CommandsType DEF LeavesOf, CommandsBy
    <2>5. \A c \in CommandsBy(q) : c.frame # f
      BY <1>0, <1>1, <2>2, <2>3, <2>4
    <2>. QED
      BY <2>5 DEF IssuedBy, CommandsBy
  <1>5. \A c \in IssuedFor(f) : c.player \in Players /\ c \in IssuedBy(c.player, f)
    BY CommandsType DEF IssuedFor, IssuedBy
  <1>6. \A q \in Players : IssuedBy(q, f) \subseteq IssuedFor(f)
    BY DEF IssuedFor, IssuedBy
  <1>. QED
    BY <1>2, <1>3, <1>4, <1>5, <1>6

\* A computer in the game still has what it executed in its last frames, from
\* the players who left meanwhile too: a player who is waited for after a
\* disconnect can be sent them (ConnectionManager::sendFrameDataToPlayer).
THEOREM RecentFramesAreKept == Spec => []KeepsRecentFrames
  <1>1. Init => RingInv
    BY RingInit
  <1>2. TypeOK /\ AgreementInv /\ RingInv /\ [Next]_vars => RingInv'
    BY RingNext
  <1>3. TypeOK /\ AgreementInv /\ RingInv => KeepsRecentFrames
    BY RecentFrames
  <1>. QED
    BY <1>1, <1>2, <1>3, AgreementIsInvariant, PTL DEF Spec
===============================================================================
