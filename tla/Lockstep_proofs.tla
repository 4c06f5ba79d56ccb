--------------------------- MODULE Lockstep_proofs ----------------------------
(***************************************************************************)
(* Theorems about Lockstep for every number of players, every length of    *)
(* the ring, every run-ahead and every bound: its state is well typed and  *)
(* announced command counts are final.                                     *)
(***************************************************************************)
EXTENDS Lockstep, FiniteSetTheorems, TLAPS

-------------------------------------------------------------------------------
(* The operators of FrameData.                                               *)

\* Every frame has a slot in the ring.
LEMMA IndexType == \A f \in Nat : Index(f) \in Indices
  <1> USE MaxFramesAheadAssumption
  <1>1. FRAME_DATA_LENGTH \in Nat \ {0}
    BY DEF FRAME_DATA_LENGTH
  <1>2. \A f \in Nat, l \in Nat \ {0} : f % l \in 0 .. l - 1
    OBVIOUS
  <1>. QED
    BY <1>1, <1>2 DEF Index, Indices

\* A ring of one player's frame data.
Rings(C) == [Indices -> FrameDatas(C)]

\* Counting the commands of a frame gives a natural number.
LEMMA CommandCountType ==
  ASSUME NEW C, NEW fd \in FrameDatas(C)
  PROVE  CommandCount(fd) \in Nat
  BY FS_CardinalityType DEF FrameDatas, CommandCount

\* What FrameData::reset leaves is frame data.
LEMMA ResetDataType ==
  ASSUME NEW C, NEW isLocal \in BOOLEAN
  PROVE  ResetData(isLocal) \in FrameDatas(C)
  BY FS_EmptySet DEF ResetData, FrameDatas, NotAnnounced

\* FrameDataManager::resetFrame keeps a ring a ring.
LEMMA ResetFrameType ==
  ASSUME NEW C, NEW ring \in Rings(C), NEW isLocal \in BOOLEAN, NEW f
  PROVE  ResetFrame(ring, isLocal, f) \in Rings(C)
  BY ResetDataType DEF ResetFrame, Rings

\* FrameDataManager::addNetCommandMsg keeps a ring a ring.
LEMMA AddCommandType ==
  ASSUME NEW C, NEW ring \in Rings(C), NEW isLocal \in BOOLEAN,
         NEW f \in Nat, NEW c \in C
  PROVE  AddCommand(ring, isLocal, f, c) \in Rings(C)
  <1> DEFINE old == ring[Index(f)]
             with == old.commands \cup {c}
  <1>1. Index(f) \in Indices
    BY IndexType
  <1>2. old \in FrameDatas(C)
    BY <1>1 DEF Rings
  <1>3. /\ with \subseteq C
        /\ IsFiniteSet(with)
    BY <1>2, FS_AddElement DEF FrameDatas
  <1>4. Cardinality(with) \in Nat
    BY <1>3, FS_CardinalityType
  <1>5. [commands |-> with,
         announced |-> IF isLocal THEN Cardinality(with) ELSE old.announced]
          \in FrameDatas(C)
    BY <1>2, <1>3, <1>4 DEF FrameDatas
  <1>. QED
    BY <1>1, <1>5 DEF AddCommand, Rings

\* FrameDataManager::setFrameCommandCount keeps a ring a ring.
LEMMA AnnounceType ==
  ASSUME NEW C, NEW ring \in Rings(C), NEW f \in Nat, NEW count \in Nat
  PROVE  Announce(ring, f, count) \in Rings(C)
  BY IndexType DEF Announce, Rings, FrameDatas

\* The frame data of the start of a game is a ring.
LEMMA StartOfGameType ==
  ASSUME NEW C, NEW isLocal \in BOOLEAN, NEW r
  PROVE  StartOfGame(isLocal, r) \in Rings(C)
  <1>1. [commands |-> {}, announced |-> 0] \in FrameDatas(C)
    BY FS_EmptySet DEF FrameDatas
  <1>. QED
    BY <1>1, ResetDataType DEF StartOfGame, Rings

-------------------------------------------------------------------------------
(* Type correctness.                                                         *)

\* The maximum of two natural numbers is one of them and bounds both.
LEMMA MaxOfTwo ==
  ASSUME NEW a \in Int, NEW b \in Int
  PROVE  /\ Max({a, b}) \in {a, b}
         /\ Max({a, b}) >= a
         /\ Max({a, b}) >= b
  <1>1. \E x \in {a, b} : \A y \in {a, b} : x >= y
    <2>1. CASE a >= b
      BY <2>1
    <2>2. CASE ~(a >= b)
      BY <2>2
    <2>. QED
      BY <2>1, <2>2
  <1>. QED
    BY <1>1 DEF Max

\* What updateRunAhead may clamp a run-ahead to is a positive number.
LEMMA RunAheadsAreNat == PossibleRunAheads \subseteq Nat \ {0}
  BY RunAheadAssumption, MaxFramesAheadAssumption DEF PossibleRunAheads

\* The frame counters of a computer are natural numbers.
LEMMA NumbersType ==
  ASSUME TypeOK, NEW p \in Players
  PROVE  /\ frame[p] \in Nat
         /\ lastExecutionFrame[p] \in Nat
         /\ lastFrameCompleted[p] \in Nat
         /\ runAhead[p] \in Nat \ {0}
  <1>1. /\ frame[p] \in Nat
        /\ lastExecutionFrame[p] \in Nat
        /\ lastFrameCompleted[p] \in Nat
    BY DEF TypeOK
  <1>2. runAhead[p] \in PossibleRunAheads
    BY DEF TypeOK
  <1>. QED
    BY <1>1, <1>2, RunAheadsAreNat

\* Network::getExecutionFrame gives a natural number no smaller than either
\* of the numbers it is the maximum of.
LEMMA ExecutionFrameType ==
  ASSUME TypeOK, NEW p \in Players
  PROVE  /\ ExecutionFrame(p) \in Nat
         /\ ExecutionFrame(p) >= lastExecutionFrame[p]
         /\ ExecutionFrame(p) >= frame[p] + runAhead[p]
  <1> DEFINE a == frame[p] + runAhead[p]
             b == lastExecutionFrame[p]
  <1>1. a \in Nat /\ b \in Nat
    BY NumbersType
  <1> HIDE DEF a, b
  <1>2. /\ Max({a, b}) \in {a, b}
        /\ Max({a, b}) >= a
        /\ Max({a, b}) >= b
    BY <1>1, MaxOfTwo
  <1>3. ExecutionFrame(p) = Max({a, b})
    BY DEF ExecutionFrame, a, b
  <1>. QED
    BY <1>1, <1>2, <1>3 DEF a, b

\* The frame updateRunAhead schedules its message for is a natural number no
\* smaller than the execution frame.
LEMMA RunAheadFrameType ==
  ASSUME TypeOK, NEW p \in Players
  PROVE  /\ RunAheadFrame(p) \in Nat
         /\ RunAheadFrame(p) >= ExecutionFrame(p)
  <1> DEFINE a == ExecutionFrame(p)
             b == frame[p] + runAhead[p]
  <1>1. a \in Nat /\ b \in Nat
    BY NumbersType, ExecutionFrameType
  <1> HIDE DEF a, b
  <1>2. /\ Max({a, b}) \in {a, b}
        /\ Max({a, b}) >= a
    BY <1>1, MaxOfTwo
  <1>3. RunAheadFrame(p) = Max({a, b})
    BY DEF RunAheadFrame, a, b
  <1>. QED
    BY <1>1, <1>2, <1>3 DEF a, b

\* The last frame announced after a tick.
LEMMA LastAnnouncedType ==
  ASSUME TypeOK, NEW p \in Players
  PROVE  /\ Max({lastFrameCompleted[p], ExecutionFrame(p) - 1}) \in Nat
         /\ Max({lastFrameCompleted[p], ExecutionFrame(p) - 1})
              \in {lastFrameCompleted[p], ExecutionFrame(p) - 1}
         /\ Max({lastFrameCompleted[p], ExecutionFrame(p) - 1})
              >= ExecutionFrame(p) - 1
         /\ Max({lastFrameCompleted[p], ExecutionFrame(p) - 1})
              >= lastFrameCompleted[p]
  <1> DEFINE a == lastFrameCompleted[p]
             b == ExecutionFrame(p) - 1
  <1>1. a \in Nat /\ b \in Nat
    BY NumbersType, ExecutionFrameType
  <1> HIDE DEF a, b
  <1>2. /\ Max({a, b}) \in {a, b}
        /\ Max({a, b}) >= a
        /\ Max({a, b}) >= b
    BY <1>1, MaxOfTwo
  <1>3. Max({a, b}) \in Nat
    BY <1>1, <1>2
  <1>. QED
    BY <1>2, <1>3 DEF a, b

\* The frame data of all computers, row by row.
LEMMA FrameDataType ==
  ASSUME TypeOK
  PROVE  frameData \in [Players -> [Players -> Rings(Command)]]
  BY DEF TypeOK, Rings

\* processFrameTick announces natural numbers.
LEMMA InfosType ==
  ASSUME NEW p \in Players, NEW fs \in SUBSET Nat,
         NEW data \in Rings(Command)
  PROVE  InfosFor(p, fs, data) \subseteq FrameInfo
  <1>1. ASSUME NEW f \in fs
        PROVE  CommandCount(data[Index(f)]) \in Nat
    <2>1. data[Index(f)] \in FrameDatas(Command)
      BY IndexType DEF Rings
    <2>. QED
      BY <2>1, CommandCountType
  <1>. QED
    BY <1>1 DEF InfosFor, FrameInfo

\* What a computer sends to the others is well typed.
LEMMA SendAllType ==
  ASSUME NEW p \in Players, NEW messages \in SUBSET Message
  PROVE  SendAll(p, messages) \subseteq Sent
  BY DEF SendAll, Sent, Recipients

\* What issuing a command makes of the frame data and of what was sent.
LEMMA IssueType ==
  ASSUME TypeOK, NEW p \in Players, NEW type, NEW f \in Nat, NEW value,
         NEW announcing \in SUBSET Nat,
         \/ type \in {"GAMECOMMAND", "PLAYERLEAVE"} /\ value = 0
         \/ type = "RUNAHEAD" /\ value \in PossibleRunAheads,
         Issue(p, type, f, value, announcing)
  PROVE  /\ frameData' \in [Players -> [Players -> Rings(Command)]]
         /\ commandID' \in [Players -> Nat]
         /\ sent' \subseteq Sent
  <1> DEFINE c == [type |-> type, player |-> p, id |-> commandID[p] + 1,
                   frame |-> f, value |-> value]
             data == AddCommand(frameData[p][p], TRUE, f, c)
  <1>1. commandID[p] + 1 \in Nat
    BY DEF TypeOK
  <1>2. c \in Command
    BY <1>1 DEF Command, CommandWith
  <1>3. data \in Rings(Command)
    BY <1>2, FrameDataType, AddCommandType
  <1>4. InfosFor(p, announcing, data) \subseteq FrameInfo
    BY <1>3, InfosType
  <1>5. SendAll(p, {c} \cup InfosFor(p, announcing, data)) \subseteq Sent
    BY <1>2, <1>4, SendAllType DEF Message
  <1>6. /\ commandID' = [commandID EXCEPT ![p] = @ + 1]
        /\ frameData' = [frameData EXCEPT ![p][p] = data]
        /\ sent' = sent \cup SendAll(p, {c} \cup InfosFor(p, announcing, data))
    BY DEF Issue
  <1>7. frameData' \in [Players -> [Players -> Rings(Command)]]
    BY <1>3, <1>6, FrameDataType
  <1>8. commandID' \in [Players -> Nat]
    BY <1>6 DEF TypeOK
  <1>9. sent' \subseteq Sent
    BY <1>5, <1>6 DEF TypeOK
  <1>. QED
    BY <1>7, <1>8, <1>9

\* What a computer receives is a message of the other player's.
LEMMA SentToType ==
  ASSUME TypeOK, NEW p, NEW q, NEW m \in SentTo(p, q)
  PROVE  /\ m \in Message
         /\ m.type = "FRAMEINFO" => m \in FrameInfo
         /\ m.type # "FRAMEINFO" => m \in Command
  <1>1. m \in Message
    BY DEF TypeOK, SentTo, Sent
  <1>2. \A x \in FrameInfo : x.type = "FRAMEINFO"
    BY DEF FrameInfo
  <1>3. \A x \in Command : x.type # "FRAMEINFO"
    BY DEF Command, CommandWith
  <1>. QED
    BY <1>1, <1>2, <1>3 DEF Message

\* The readiness test may reset frames and keeps rings rings.
LEMMA ReceiveType ==
  ASSUME TypeOK, NEW p \in Players, NEW q \in Players, NEW f \in Nat,
         NEW data \in Rings(Command), Receive(p, q, f, data)
  PROVE  TypeOK'
  <1> DEFINE given == [frameData[p] EXCEPT ![q] = data]
  <1>1. given \in [Players -> Rings(Command)]
    BY FrameDataType
  <1>2. AfterReadinessTest(p, given, f) \in [Players -> Rings(Command)]
    <2>1. \A r \in Players : ResetFrame(given[r], FALSE, f) \in Rings(Command)
      BY <1>1, ResetFrameType
    <2>2. [r \in Players |->
             IF r = p THEN given[r] ELSE ResetFrame(given[r], FALSE, f)]
            \in [Players -> Rings(Command)]
      BY <1>1, <2>1
    <2>. QED
      BY <1>1, <2>2 DEF AfterReadinessTest
  <1>3. frameData' = [frameData EXCEPT ![p] = AfterReadinessTest(p, given, f)]
    BY FrameDataType DEF Receive
  <1>4. frameData' \in [Players -> [Players -> Rings(Command)]]
    BY <1>2, <1>3, FrameDataType
  <1>. QED
    BY <1>4 DEF TypeOK, Receive, runVars, Rings

\* TypeOK restated with rings, the form its preservation is proved in.
LEMMA TypeOKOfParts ==
  ASSUME frame' \in [Players -> Nat],
         localStatus' \in [Players -> {"PREGAME", "INGAME", "LEAVING", "LEFT"}],
         lastFrame' \in [Players -> Nat],
         runAhead' \in [Players -> PossibleRunAheads],
         lastExecutionFrame' \in [Players -> Nat],
         lastFrameCompleted' \in [Players -> Nat],
         commandID' \in [Players -> Nat],
         frameData' \in [Players -> [Players -> Rings(Command)]],
         presence' \in [Players -> [Players -> Presence]],
         quitFrame' \in [Players -> [Players -> Nat]],
         sent' \subseteq Sent,
         executed' \in [Players -> Seq(SUBSET Command)]
  PROVE  TypeOK'
  BY DEF TypeOK, Rings

\* The commands of a frame are commands.
LEMMA FrameCommandListType ==
  ASSUME TypeOK, NEW p \in Players
  PROVE  FrameCommandList(p) \subseteq Command
  <1>1. frame[p] \in Nat
    BY NumbersType
  <1>2. \A q \in Players : frameData[p][q][Index(frame[p])] \in FrameDatas(Command)
    BY <1>1, IndexType, FrameDataType DEF Rings
  <1>3. \A q \in Players :
          frameData[p][q][Index(frame[p])].commands \subseteq Command
    BY <1>2 DEF FrameDatas
  <1>. QED
    BY <1>3 DEF FrameCommandList

\* A new run-ahead is one the packet router may compute.
LEMMA RunAheadsAfterType ==
  ASSUME TypeOK, NEW p \in Players, NEW list \in SUBSET Command
  PROVE  RunAheadsAfter(p, list) \subseteq PossibleRunAheads
  <1>1. runAhead[p] \in PossibleRunAheads
    BY DEF TypeOK
  <1>2. \A c \in list : c.type = "RUNAHEAD" => c.value \in PossibleRunAheads
    BY DEF Command, CommandWith
  <1>. QED
    BY <1>1, <1>2 DEF RunAheadsAfter

\* getFrameCommandList resets an old frame of every player and keeps rings
\* rings.
LEMMA ForgetFrameType ==
  ASSUME TypeOK, NEW p \in Players
  PROVE  ForgetFrame(p) \in [Players -> Rings(Command)]
  <1>1. frameData[p] \in [Players -> Rings(Command)]
    BY FrameDataType
  <1>2. \A q \in Players :
          ResetFrame(frameData[p][q], p = q, frame[p] - FRAMES_TO_KEEP)
            \in Rings(Command)
    BY <1>1, ResetFrameType
  <1>. QED
    BY <1>1, <1>2 DEF ForgetFrame

\* disconnectPlayer and setQuitFrame keep the presence of players well typed.
LEMMA PresenceAfterType ==
  ASSUME TypeOK, NEW p \in Players, NEW leaving
  PROVE  PresenceAfter(p, leaving) \in [Players -> Presence]
  <1>1. \A q \in Players : presence[p][q] \in Presence
    BY DEF TypeOK
  <1>2. \A q \in Players : PresenceNow(p)[q] \in Presence
    BY <1>1 DEF PresenceNow, Presence
  <1>. QED
    BY <1>2 DEF PresenceAfter, Presence

\* The frame at which a player is given up is a natural number.
LEMMA QuitFrameType ==
  ASSUME TypeOK, NEW p \in Players
  PROVE  QuitFrame(p) \in Nat
  BY NumbersType, MaxFramesAheadAssumption DEF QuitFrame, FRAMES_TO_KEEP

\* Every state the program starts in is well typed.
LEMMA TypeOKInit == Init => TypeOK
  <1> SUFFICES ASSUME Init PROVE TypeOK
    OBVIOUS
  <1>1. FirstRunAhead \in PossibleRunAheads /\ FirstRunAhead - 1 \in Nat
    BY RunAheadAssumption, MaxFramesAheadAssumption DEF PossibleRunAheads
  <1>2. frameData \in [Players -> [Players -> Rings(Command)]]
    BY StartOfGameType DEF Init
  <1>3. executed \in [Players -> Seq(SUBSET Command)]
    BY DEF Init
  <1>4. presence \in [Players -> [Players -> Presence]]
    BY DEF Init, Presence
  <1>5. /\ frame \in [Players -> Nat]
        /\ localStatus \in [Players -> {"PREGAME", "INGAME", "LEAVING", "LEFT"}]
        /\ lastFrame \in [Players -> Nat]
        /\ runAhead \in [Players -> PossibleRunAheads]
        /\ lastExecutionFrame \in [Players -> Nat]
        /\ lastFrameCompleted \in [Players -> Nat]
        /\ commandID \in [Players -> Nat]
        /\ quitFrame \in [Players -> [Players -> Nat]]
        /\ sent \subseteq Sent
    BY <1>1 DEF Init
  <1>. QED
    BY <1>2, <1>3, <1>4, <1>5 DEF TypeOK, Rings

\* Every step keeps the state well typed.
LEMMA TypeOKNext == TypeOK /\ [Next]_vars => TypeOK'
  <1> SUFFICES ASSUME TypeOK, [Next]_vars PROVE TypeOK'
    OBVIOUS
  <1>1. ASSUME NEW p \in Players, SendLocalGameMessage(p)
        PROVE  TypeOK'
    <2>1. ExecutionFrame(p) \in Nat
      BY ExecutionFrameType
    <2>2. /\ frameData' \in [Players -> [Players -> Rings(Command)]]
          /\ commandID' \in [Players -> Nat]
          /\ sent' \subseteq Sent
      <3>1. Issue(p, "GAMECOMMAND", ExecutionFrame(p), 0, {})
        BY <1>1 DEF SendLocalGameMessage
      <3>2. {} \in SUBSET Nat
        OBVIOUS
      <3>. QED
        BY <2>1, <3>1, <3>2, IssueType
    <2>3. lastExecutionFrame' \in [Players -> Nat]
      BY <1>1, <2>1 DEF SendLocalGameMessage, TypeOK
    <2>. QED
      BY <1>1, <2>2, <2>3 DEF SendLocalGameMessage, TypeOK, Rings, runVars
  <1>2. ASSUME NEW p \in Players, UpdateRunAhead(p)
        PROVE  TypeOK'
    <2>1. ExecutionFrame(p) \in Nat /\ RunAheadFrame(p) \in Nat
      BY ExecutionFrameType, RunAheadFrameType
    <2>2. PICK newRunAhead \in RunAheads :
            Issue(p, "RUNAHEAD", RunAheadFrame(p), newRunAhead, {})
      BY <1>2 DEF UpdateRunAhead
    <2>3. newRunAhead \in PossibleRunAheads
      BY RunAheadAssumption DEF PossibleRunAheads
    <2>4. /\ frameData' \in [Players -> [Players -> Rings(Command)]]
          /\ commandID' \in [Players -> Nat]
          /\ sent' \subseteq Sent
      <3>1. {} \in SUBSET Nat
        OBVIOUS
      <3>. QED
        BY <2>1, <2>2, <2>3, <3>1, IssueType
    <2>5. lastExecutionFrame' \in [Players -> Nat]
      BY <1>2, <2>1 DEF UpdateRunAhead, TypeOK
    <2>. QED
      BY <1>2, <2>4, <2>5 DEF UpdateRunAhead, TypeOK, Rings, runVars
  <1>3. ASSUME NEW p \in Players, FrameTick(p)
        PROVE  TypeOK'
    <2> DEFINE completed == lastFrameCompleted[p] + 1 .. ExecutionFrame(p) - 1
    <2>1. /\ ExecutionFrame(p) \in Nat
          /\ ExecutionFrame(p) >= frame[p] + runAhead[p]
      BY ExecutionFrameType
    <2>2. /\ frame[p] \in Nat
          /\ lastFrameCompleted[p] \in Nat
          /\ runAhead[p] \in Nat \ {0}
      BY NumbersType
    <2>3. completed \subseteq Nat
      BY <2>1, <2>2
    <2>4. InfosFor(p, completed, frameData[p][p]) \subseteq FrameInfo
      BY <2>3, FrameDataType, InfosType
    <2>5. sent' \subseteq Sent
      <3>1. SendAll(p, InfosFor(p, completed, frameData[p][p])) \subseteq Sent
        BY <2>4, SendAllType DEF Message
      <3>2. sent' = sent \/ sent' = sent \cup
                 SendAll(p, InfosFor(p, completed, frameData[p][p]))
        BY <1>3 DEF FrameTick
      <3>. QED
        BY <3>1, <3>2 DEF TypeOK
    <2>6. Max({lastFrameCompleted[p], ExecutionFrame(p) - 1}) \in Nat
      BY LastAnnouncedType
    <2>7. lastFrameCompleted' \in [Players -> Nat]
      <3> DEFINE last == Max({lastFrameCompleted[p], ExecutionFrame(p) - 1})
      <3>1. \/ lastFrameCompleted' = [lastFrameCompleted EXCEPT ![p] = last]
            \/ lastFrameCompleted' = lastFrameCompleted
        BY <1>3 DEF FrameTick
      <3>2. last \in Nat
        BY <2>6
      <3> HIDE DEF last
      <3>. QED
        BY <3>1, <3>2 DEF TypeOK
    <2>8. lastExecutionFrame' \in [Players -> Nat]
      BY <1>3, <2>1 DEF FrameTick, TypeOK
    <2>9. lastFrame' \in [Players -> Nat]
      BY <1>3, <2>2 DEF FrameTick, TypeOK
    <2>10. localStatus' \in [Players -> {"PREGAME", "INGAME", "LEAVING", "LEFT"}]
      BY <1>3 DEF FrameTick, TypeOK
    <2>. QED
      BY <1>3, <2>5, <2>7, <2>8, <2>9, <2>10 DEF FrameTick, TypeOK
  <1>4. ASSUME NEW p \in Players, LeaveGame(p)
        PROVE  TypeOK'
    <2>1. ExecutionFrame(p) \in Nat
      BY ExecutionFrameType
    <2>2. FinalFrames(p) \subseteq Nat
      BY <2>1 DEF FinalFrames
    <2>3. /\ frameData' \in [Players -> [Players -> Rings(Command)]]
          /\ commandID' \in [Players -> Nat]
          /\ sent' \subseteq Sent
      <3>1. Issue(p, "PLAYERLEAVE", ExecutionFrame(p) + 1, 0, FinalFrames(p))
        BY <1>4 DEF LeaveGame
      <3>2. ExecutionFrame(p) + 1 \in Nat
        BY <2>1
      <3>. QED
        BY <2>2, <3>1, <3>2, IssueType
    <2>4. /\ lastExecutionFrame' \in [Players -> Nat]
          /\ lastFrameCompleted' \in [Players -> Nat]
      BY <1>4, <2>1 DEF LeaveGame, TypeOK
    <2>5. localStatus' \in [Players -> {"PREGAME", "INGAME", "LEAVING", "LEFT"}]
      BY <1>4 DEF LeaveGame, TypeOK
    <2>. QED
      BY <1>4, <2>3, <2>4, <2>5 DEF LeaveGame, TypeOK, Rings, runVars
  <1>5. ASSUME NEW p \in Players, RunPregameFrame(p)
        PROVE  TypeOK'
    BY <1>5 DEF RunPregameFrame, TypeOK
  <1>6. ASSUME NEW p \in Players, RunFrame(p)
        PROVE  TypeOK'
    <2> DEFINE list == FrameCommandList(p)
               leaving == LeavingIn(list)
    <2>1. list \subseteq Command
      BY FrameCommandListType
    <2>2. frame[p] + 1 \in Nat
      BY NumbersType
    <2>3. frameData' \in [Players -> [Players -> Rings(Command)]]
      BY <1>6, ForgetFrameType, FrameDataType DEF RunFrame
    <2>4. runAhead' \in [Players -> PossibleRunAheads]
      <3>1. PICK newRunAhead \in RunAheadsAfter(p, list) :
              runAhead' = [runAhead EXCEPT ![p] = newRunAhead]
        BY <1>6 DEF RunFrame
      <3>2. newRunAhead \in PossibleRunAheads
        BY <2>1, <3>1, RunAheadsAfterType
      <3>. QED
        BY <3>1, <3>2 DEF TypeOK
    <2>5. presence' \in [Players -> [Players -> Presence]]
      <3>1. presence' = [presence EXCEPT ![p] = PresenceAfter(p, leaving)]
        BY <1>6 DEF RunFrame
      <3>. QED
        BY <3>1, PresenceAfterType DEF TypeOK
    <2>6. quitFrame' \in [Players -> [Players -> Nat]]
      <3> DEFINE row == [q \in Players |->
                           IF q \in leaving \ {p} /\ PresenceNow(p)[q] = "playing"
                           THEN QuitFrame(p) ELSE quitFrame[p][q]]
      <3>1. quitFrame' = [quitFrame EXCEPT ![p] = row]
        BY <1>6 DEF RunFrame
      <3>2. quitFrame \in [Players -> [Players -> Nat]]
        BY DEF TypeOK
      <3>3. row \in [Players -> Nat]
        BY <3>2, QuitFrameType
      <3> HIDE DEF row
      <3>. QED
        BY <3>1, <3>2, <3>3
    <2>7. executed' \in [Players -> Seq(SUBSET Command)]
      <3>1. Append(executed[p], list) \in Seq(SUBSET Command)
        BY <2>1 DEF TypeOK
      <3>2. executed' = [executed EXCEPT ![p] = Append(executed[p], list)]
        BY <1>6 DEF RunFrame, TypeOK
      <3>. QED
        BY <3>1, <3>2 DEF TypeOK
    <2>8. localStatus' \in [Players -> {"PREGAME", "INGAME", "LEAVING", "LEFT"}]
      BY <1>6 DEF RunFrame, TypeOK
    <2>9. frame' \in [Players -> Nat]
      BY <1>6, <2>2 DEF RunFrame, TypeOK
    <2>10. UNCHANGED <<lastFrame, lastExecutionFrame, lastFrameCompleted,
                       commandID, sent>>
      BY <1>6 DEF RunFrame
    <2>. QED
      BY <2>3, <2>4, <2>5, <2>6, <2>7, <2>8, <2>9, <2>10, TypeOKOfParts
         DEF TypeOK
  <1>7. ASSUME NEW p \in Players, NEW q \in Players, Deliver(p, q)
        PROVE  TypeOK'
    <2>1. frameData[p][q] \in Rings(Command)
      BY FrameDataType
    <2>2. CASE ReceiveFrameInfo(p, q)
      <3>1. PICK i \in SentTo(p, q) :
              /\ i.type = "FRAMEINFO"
              /\ Receive(p, q, i.frame,
                         Announce(frameData[p][q], i.frame, i.count))
        BY <2>2 DEF ReceiveFrameInfo
      <3>2. i.frame \in Nat /\ i.count \in Nat
        BY <3>1, SentToType DEF FrameInfo
      <3>3. Announce(frameData[p][q], i.frame, i.count) \in Rings(Command)
        BY <2>1, <3>2, AnnounceType
      <3>. QED
        BY <3>1, <3>2, <3>3, ReceiveType
    <2>3. CASE ReceiveCommand(p, q)
      <3>1. PICK c \in SentTo(p, q) :
              /\ c.type # "FRAMEINFO"
              /\ Receive(p, q, c.frame,
                         AddCommand(frameData[p][q], FALSE, c.frame, c))
        BY <2>3 DEF ReceiveCommand
      <3>2. c \in Command
        BY <3>1, SentToType
      <3>3. c.frame \in Nat
        BY <3>2 DEF Command, CommandWith
      <3>4. AddCommand(frameData[p][q], FALSE, c.frame, c) \in Rings(Command)
        BY <2>1, <3>2, <3>3, AddCommandType
      <3>. QED
        BY <3>1, <3>3, <3>4, ReceiveType
    <2>. QED
      BY <1>7, <2>2, <2>3 DEF Deliver
  <1>8. CASE UNCHANGED vars
    BY <1>8 DEF vars, TypeOK
  <1>. QED
    BY <1>1, <1>2, <1>3, <1>4, <1>5, <1>6, <1>7, <1>8 DEF Next

\* The state of every computer is well typed, for any number of players, ring
\* length and run-ahead: frame data are rings, sets of commands finite, and
\* the run-ahead stays within the limits the packet router clamps it to.
THEOREM TypeCorrect == Spec => []TypeOK
  <1>. QED
    BY TypeOKInit, TypeOKNext, PTL DEF Spec

-------------------------------------------------------------------------------
(* Announced command counts are final.                                       *)

\* Sending adds the messages sent, and only them.
LEMMA MessagesAfterSending ==
  ASSUME NEW p, NEW messages, sent' = sent \cup SendAll(p, messages)
  PROVE  Messages' = Messages \cup messages
  <1>1. Messages' = {s.msg : s \in sent \cup SendAll(p, messages)}
    BY DEF Messages
  <1>2. {s.msg : s \in SendAll(p, messages)} = messages
    <2> DEFINE envelope(m) == [msg |-> m, to |-> Recipients(p)]
    <2>1. \A m : envelope(m).msg = m
      OBVIOUS
    <2>2. SendAll(p, messages) = {envelope(m) : m \in messages}
      BY DEF SendAll
    <2> HIDE DEF envelope
    <2>. QED
      BY <2>1, <2>2
  <1>3. {s.msg : s \in sent \cup SendAll(p, messages)}
          = Messages \cup {s.msg : s \in SendAll(p, messages)}
    BY DEF Messages
  <1>. QED
    BY <1>1, <1>2, <1>3

\* Messages that stay the same.
LEMMA SameMessages ==
  ASSUME UNCHANGED sent
  PROVE  Messages' = Messages /\ Commands' = Commands /\ FrameInfos' = FrameInfos
  BY DEF Messages, Commands, FrameInfos

\* What a frame info of processFrameTick says, its count left aside.
LEMMA InfosShape ==
  ASSUME NEW p, NEW fs, NEW data, NEW i \in InfosFor(p, fs, data)
  PROVE  i.type = "FRAMEINFO" /\ i.player = p /\ i.frame \in fs
  <1>1. PICK f \in fs :
          i = [type |-> "FRAMEINFO", player |-> p, frame |-> f,
               count |-> CommandCount(data[Index(f)])]
    BY DEF InfosFor
  <1>. QED
    BY <1>1

\* What issuing a command adds to the commands and to the frame infos.
LEMMA IssueAdds ==
  ASSUME NEW p, NEW type, NEW f, NEW value, NEW announcing,
         type # "FRAMEINFO", Issue(p, type, f, value, announcing)
  PROVE  /\ \A c \in Commands' \ Commands : c.player = p /\ c.frame = f
         /\ \A i \in FrameInfos' \ FrameInfos :
              i.player = p /\ i.frame \in announcing
  <1> DEFINE c == [type |-> type, player |-> p, id |-> commandID[p] + 1,
                   frame |-> f, value |-> value]
             infos == InfosFor(p, announcing, AddCommand(frameData[p][p], TRUE, f, c))
  <1>1. Messages' = Messages \cup ({c} \cup infos)
    <2>1. sent' = sent \cup SendAll(p, {c} \cup infos)
      BY DEF Issue
    <2> HIDE DEF c, infos
    <2>. QED
      BY <2>1, MessagesAfterSending
  <1>2. c.type # "FRAMEINFO" /\ c.player = p /\ c.frame = f
    OBVIOUS
  <1>3. \A i \in infos :
          i.type = "FRAMEINFO" /\ i.player = p /\ i.frame \in announcing
    <2>1. ASSUME NEW i \in infos
          PROVE  i.type = "FRAMEINFO" /\ i.player = p /\ i.frame \in announcing
      <3> DEFINE data == AddCommand(frameData[p][p], TRUE, f, c)
      <3>1. i \in InfosFor(p, announcing, data)
        OBVIOUS
      <3> HIDE DEF data
      <3>. QED
        BY <3>1, InfosShape
    <2>. QED
      BY <2>1
  <1> HIDE DEF c, infos
  <1>. QED
    BY <1>1, <1>2, <1>3 DEF Commands, FrameInfos

\* The step of the invariant for a player whose own variables do not change.
LEMMA CountsOfOthers ==
  ASSUME CountsInv, NEW q \in Players,
         localStatus'[q] = localStatus[q],
         lastFrameCompleted'[q] = lastFrameCompleted[q],
         lastExecutionFrame'[q] = lastExecutionFrame[q],
         runAhead'[q] = runAhead[q],
         \A i \in FrameInfos' \ FrameInfos : i.player # q
  PROVE  AnnouncementsBehind(q)' /\ CompletedBehind(q)'
  BY DEF CountsInv, AnnouncementsBehind, CompletedBehind

\* Nothing is announced when the game starts.
LEMMA CountsInvInit == Init => CountsInv
  <1> SUFFICES ASSUME Init PROVE CountsInv
    OBVIOUS
  <1>1. FrameInfos = {}
    BY DEF Init, FrameInfos, Messages
  <1>2. FirstRunAhead \in Nat
    BY RunAheadAssumption, MaxFramesAheadAssumption
  <1>. QED
    BY <1>1, <1>2 DEF Init, CountsInv, AnnouncementsBehind, CompletedBehind

\* Every step keeps announcements behind the frames that take commands.
LEMMA CountsInvNext == TypeOK /\ CountsInv /\ [Next]_vars => CountsInv'
  <1> SUFFICES ASSUME TypeOK, CountsInv, [Next]_vars,
                      NEW q \in Players
               PROVE  AnnouncementsBehind(q)' /\ CompletedBehind(q)'
    BY DEF CountsInv
  <1>0. AnnouncementsBehind(q) /\ CompletedBehind(q)
    BY DEF CountsInv
  <1>1. ASSUME NEW p \in Players, NEW type, NEW f, NEW value,
               type # "FRAMEINFO", Issue(p, type, f, value, {}),
               lastExecutionFrame' =
                 [lastExecutionFrame EXCEPT ![p] = ExecutionFrame(p)],
               UNCHANGED <<localStatus, lastFrameCompleted, runAhead>>
        PROVE  AnnouncementsBehind(q)' /\ CompletedBehind(q)'
    <2>1. FrameInfos' \subseteq FrameInfos
      BY <1>1, IssueAdds
    <2>2. CompletedBehind(q)'
      <3>1. lastExecutionFrame'[q] >= lastExecutionFrame[q]
        <4>1. CASE p = q
          <5>1. lastExecutionFrame'[q] = ExecutionFrame(q)
            BY <1>1, <4>1 DEF TypeOK
          <5>. QED
            BY <5>1, ExecutionFrameType
        <4>2. CASE p # q
          <5>1. lastExecutionFrame'[q] = lastExecutionFrame[q]
            BY <1>1, <4>2 DEF TypeOK
          <5>. QED
            BY <5>1, NumbersType
        <4>. QED
          BY <4>1, <4>2
      <3>2. lastExecutionFrame'[q] \in Nat
        BY <1>1, ExecutionFrameType DEF TypeOK
      <3>. QED
        BY <1>0, <1>1, <3>1, <3>2, NumbersType DEF CompletedBehind
    <2>3. AnnouncementsBehind(q)'
      BY <1>0, <1>1, <2>1 DEF AnnouncementsBehind
    <2>. QED
      BY <2>2, <2>3
  <1>2. ASSUME NEW p \in Players, SendLocalGameMessage(p)
        PROVE  AnnouncementsBehind(q)' /\ CompletedBehind(q)'
    <2>1. Issue(p, "GAMECOMMAND", ExecutionFrame(p), 0, {})
      BY <1>2 DEF SendLocalGameMessage
    <2>2. /\ lastExecutionFrame' =
               [lastExecutionFrame EXCEPT ![p] = ExecutionFrame(p)]
          /\ UNCHANGED <<localStatus, lastFrameCompleted, runAhead>>
      BY <1>2 DEF SendLocalGameMessage, runVars
    <2>. QED
      BY <1>1, <2>1, <2>2
  <1>3. ASSUME NEW p \in Players, UpdateRunAhead(p)
        PROVE  AnnouncementsBehind(q)' /\ CompletedBehind(q)'
    <2>1. PICK newRunAhead \in RunAheads :
            Issue(p, "RUNAHEAD", RunAheadFrame(p), newRunAhead, {})
      BY <1>3 DEF UpdateRunAhead
    <2>2. /\ lastExecutionFrame' =
               [lastExecutionFrame EXCEPT ![p] = ExecutionFrame(p)]
          /\ UNCHANGED <<localStatus, lastFrameCompleted, runAhead>>
      BY <1>3 DEF UpdateRunAhead, runVars
    <2>. QED
      BY <1>1, <2>1, <2>2
  <1>4. ASSUME NEW p \in Players, FrameTick(p)
        PROVE  AnnouncementsBehind(q)' /\ CompletedBehind(q)'
    <2> DEFINE completed == lastFrameCompleted[p] + 1 .. ExecutionFrame(p) - 1
               infos == InfosFor(p, completed, frameData[p][p])
    <2>1. \A i \in infos :
            i.type = "FRAMEINFO" /\ i.player = p /\ i.frame \in completed
      BY InfosShape
    <2> HIDE DEF completed, infos
    <2>2. CASE localStatus[p] \in {"PREGAME", "INGAME"}
      <3>1. /\ sent' = sent \cup SendAll(p, infos)
            /\ localStatus' = [localStatus EXCEPT ![p] = "INGAME"]
            /\ lastExecutionFrame' =
                 [lastExecutionFrame EXCEPT ![p] = ExecutionFrame(p)]
            /\ lastFrameCompleted' = [lastFrameCompleted EXCEPT
                 ![p] = Max({lastFrameCompleted[p], ExecutionFrame(p) - 1})]
            /\ UNCHANGED <<runAhead>>
        BY <1>4, <2>2 DEF FrameTick, completed, infos
      <3>2. Messages' = Messages \cup infos
        BY <3>1, MessagesAfterSending
      <3>3. FrameInfos' \subseteq FrameInfos \cup infos
        BY <3>2 DEF FrameInfos
      <3>4. CASE p # q
        <4>1. \A i \in FrameInfos' \ FrameInfos : i.player # q
          BY <2>1, <3>3, <3>4
        <4>2. /\ localStatus'[q] = localStatus[q]
              /\ lastFrameCompleted'[q] = lastFrameCompleted[q]
              /\ lastExecutionFrame'[q] = lastExecutionFrame[q]
              /\ runAhead'[q] = runAhead[q]
          BY <3>1, <3>4 DEF TypeOK
        <4>. QED
          BY <4>1, <4>2, CountsOfOthers
      <3>5. CASE p = q
        <4>1. lastFrameCompleted[q] < ExecutionFrame(q)
          <5>1. CASE localStatus[q] = "PREGAME"
            <6>1. lastFrameCompleted[q] < runAhead[q]
              BY <1>0, <5>1 DEF CompletedBehind
            <6>. QED
              BY <6>1, ExecutionFrameType, NumbersType
          <5>2. CASE localStatus[q] = "INGAME"
            <6>1. lastFrameCompleted[q] < lastExecutionFrame[q]
              BY <1>0, <5>2 DEF CompletedBehind
            <6>. QED
              BY <6>1, ExecutionFrameType, NumbersType
          <5>. QED
            BY <2>2, <3>5, <5>1, <5>2
        <4>2. /\ localStatus'[q] = "INGAME"
              /\ lastExecutionFrame'[q] = ExecutionFrame(q)
              /\ lastFrameCompleted'[q] =
                   Max({lastFrameCompleted[q], ExecutionFrame(q) - 1})
          BY <3>1, <3>5 DEF TypeOK
        <4>3. /\ lastFrameCompleted'[q] \in Nat
              /\ lastFrameCompleted'[q] >= lastFrameCompleted[q]
              /\ lastFrameCompleted'[q] = ExecutionFrame(q) - 1
          BY <4>1, <4>2, LastAnnouncedType, ExecutionFrameType, NumbersType
        <4>4. CompletedBehind(q)'
          BY <4>2, <4>3, ExecutionFrameType DEF CompletedBehind
        <4>5. \A i \in infos : i.frame <= ExecutionFrame(q) - 1
          BY <2>1, <3>5, ExecutionFrameType, NumbersType DEF completed
        <4>6. \A i \in FrameInfos :
                i.player = q => i.frame <= lastFrameCompleted[q]
          BY <1>0, <2>2, <3>5 DEF AnnouncementsBehind
        <4>7. \A i \in FrameInfos : i.player = q => i.frame \in Nat
          BY DEF TypeOK, FrameInfos, Messages, Sent, Message, Command,
                 CommandWith, FrameInfo
        <4>8. AnnouncementsBehind(q)'
          BY <3>3, <4>2, <4>3, <4>5, <4>6, <4>7, NumbersType
             DEF AnnouncementsBehind
        <4>. QED
          BY <4>4, <4>8
      <3>. QED
        BY <3>4, <3>5
    <2>3. CASE localStatus[p] \notin {"PREGAME", "INGAME"}
      <3>1. UNCHANGED <<sent, localStatus, lastExecutionFrame,
                        lastFrameCompleted, runAhead>>
        BY <1>4, <2>3 DEF FrameTick
      <3>. QED
        BY <3>1, SameMessages, CountsOfOthers
    <2>. QED
      BY <2>2, <2>3
  <1>5. ASSUME NEW p \in Players, LeaveGame(p)
        PROVE  AnnouncementsBehind(q)' /\ CompletedBehind(q)'
    <2>1. Issue(p, "PLAYERLEAVE", ExecutionFrame(p) + 1, 0, FinalFrames(p))
      BY <1>5 DEF LeaveGame
    <2>2. \A i \in FrameInfos' \ FrameInfos : i.player = p
      BY <2>1, IssueAdds
    <2>3. /\ localStatus[p] = "INGAME"
          /\ localStatus' = [localStatus EXCEPT ![p] = "LEAVING"]
          /\ lastExecutionFrame' =
               [lastExecutionFrame EXCEPT ![p] = ExecutionFrame(p)]
          /\ lastFrameCompleted' =
               [lastFrameCompleted EXCEPT ![p] = ExecutionFrame(p)]
          /\ UNCHANGED runAhead
      BY <1>5 DEF LeaveGame, runVars
    <2>4. CASE p # q
      <3>1. \A i \in FrameInfos' \ FrameInfos : i.player # q
        BY <2>2, <2>4
      <3>2. /\ localStatus'[q] = localStatus[q]
            /\ lastFrameCompleted'[q] = lastFrameCompleted[q]
            /\ lastExecutionFrame'[q] = lastExecutionFrame[q]
            /\ runAhead'[q] = runAhead[q]
        BY <2>3, <2>4 DEF TypeOK
      <3>. QED
        BY <3>1, <3>2, CountsOfOthers
    <2>5. CASE p = q
      <3>1. localStatus'[q] = "LEAVING"
        BY <2>3, <2>5 DEF TypeOK
      <3>. QED
        BY <3>1 DEF AnnouncementsBehind, CompletedBehind
    <2>. QED
      BY <2>4, <2>5
  <1>6. ASSUME NEW p \in Players, RunPregameFrame(p)
        PROVE  AnnouncementsBehind(q)' /\ CompletedBehind(q)'
    <2>1. UNCHANGED <<sent, localStatus, lastExecutionFrame,
                      lastFrameCompleted, runAhead>>
      BY <1>6 DEF RunPregameFrame
    <2>. QED
      BY <2>1, SameMessages, CountsOfOthers
  <1>7. ASSUME NEW p \in Players, RunFrame(p)
        PROVE  AnnouncementsBehind(q)' /\ CompletedBehind(q)'
    <2>1. UNCHANGED <<sent, lastExecutionFrame, lastFrameCompleted>>
      BY <1>7 DEF RunFrame
    <2>2. /\ localStatus[p] \in {"INGAME", "LEAVING"}
          /\ localStatus'[q] = localStatus[q]
               \/ (p = q /\ localStatus'[q] = "LEFT")
      BY <1>7 DEF RunFrame, TypeOK
    <2>3. FrameInfos' = FrameInfos
      BY <2>1, SameMessages
    <2>4. localStatus'[q] = "PREGAME" => runAhead'[q] = runAhead[q]
      BY <1>7, <2>2 DEF RunFrame, TypeOK
    <2>. QED
      BY <1>0, <2>1, <2>2, <2>3, <2>4 DEF AnnouncementsBehind, CompletedBehind
  <1>8. ASSUME NEW p \in Players, NEW r \in Players, Deliver(p, r)
        PROVE  AnnouncementsBehind(q)' /\ CompletedBehind(q)'
    <2>1. UNCHANGED <<sent, localStatus, lastExecutionFrame,
                      lastFrameCompleted, runAhead>>
      BY <1>8 DEF Deliver, ReceiveFrameInfo, ReceiveCommand, Receive, runVars
    <2>. QED
      BY <2>1, SameMessages, CountsOfOthers
  <1>9. CASE UNCHANGED vars
    <2>1. UNCHANGED <<sent, localStatus, lastExecutionFrame,
                      lastFrameCompleted, runAhead>>
      BY <1>9 DEF vars
    <2>. QED
      BY <2>1, SameMessages, CountsOfOthers
  <1>. QED
    BY <1>2, <1>3, <1>4, <1>5, <1>6, <1>7, <1>8, <1>9 DEF Next

\* A step that issues commands issues them above the announced frames.
LEMMA IssueIsNotLate ==
  ASSUME TypeOK, CountsInv, NEW p \in Players, localStatus[p] = "INGAME",
         NEW type, NEW f \in Nat, NEW value, NEW announcing,
         type # "FRAMEINFO", f >= ExecutionFrame(p),
         Issue(p, type, f, value, announcing)
  PROVE  NoLateCommand
  <1> SUFFICES ASSUME NEW c \in Commands' \ Commands, NEW i \in FrameInfos,
                      c.player = i.player
               PROVE  c.frame # i.frame
    BY DEF NoLateCommand
  <1>1. c.player = p /\ c.frame = f
    BY IssueAdds
  <1>2. i \in FrameInfo
    <2>1. i \in Message /\ i.type = "FRAMEINFO"
      BY DEF TypeOK, FrameInfos, Messages, Sent
    <2>. QED
      BY <2>1 DEF Message, Command, CommandWith
  <1>3. i.frame \in Nat
    BY <1>2 DEF FrameInfo
  <1>4. i.frame <= lastFrameCompleted[p]
    BY <1>1 DEF CountsInv, AnnouncementsBehind
  <1>5. lastFrameCompleted[p] < lastExecutionFrame[p]
    BY DEF CountsInv, CompletedBehind
  <1>. QED
    BY <1>1, <1>3, <1>4, <1>5, ExecutionFrameType, NumbersType

\* No step issues a command for a frame whose count its player has announced.
LEMMA NoLateCommandStep == TypeOK /\ CountsInv /\ [Next]_vars => [NoLateCommand]_sent
  <1> SUFFICES ASSUME TypeOK, CountsInv, [Next]_vars, sent' # sent
               PROVE  NoLateCommand
    OBVIOUS
  <1>1. ASSUME NEW p \in Players, SendLocalGameMessage(p)
        PROVE  NoLateCommand
    <2>1. Issue(p, "GAMECOMMAND", ExecutionFrame(p), 0, {})
      BY <1>1 DEF SendLocalGameMessage
    <2>2. localStatus[p] = "INGAME"
      BY <1>1 DEF SendLocalGameMessage
    <2>3. ExecutionFrame(p) \in Nat /\ ExecutionFrame(p) >= ExecutionFrame(p)
      BY ExecutionFrameType
    <2>. QED
      BY <2>1, <2>2, <2>3, IssueIsNotLate
  <1>2. ASSUME NEW p \in Players, UpdateRunAhead(p)
        PROVE  NoLateCommand
    <2>1. PICK newRunAhead \in RunAheads :
            Issue(p, "RUNAHEAD", RunAheadFrame(p), newRunAhead, {})
      BY <1>2 DEF UpdateRunAhead
    <2>2. localStatus[p] = "INGAME"
      BY <1>2 DEF UpdateRunAhead
    <2>3. RunAheadFrame(p) \in Nat /\ RunAheadFrame(p) >= ExecutionFrame(p)
      BY RunAheadFrameType
    <2>. QED
      BY <2>1, <2>2, <2>3, IssueIsNotLate
  <1>3. ASSUME NEW p \in Players, FrameTick(p)
        PROVE  NoLateCommand
    <2> DEFINE completed == lastFrameCompleted[p] + 1 .. ExecutionFrame(p) - 1
               infos == InfosFor(p, completed, frameData[p][p])
    <2>1. \A i \in infos : i.type = "FRAMEINFO"
      BY InfosShape
    <2>2. sent' = sent \cup SendAll(p, infos)
      BY <1>3 DEF FrameTick
    <2> HIDE DEF completed, infos
    <2>3. Messages' = Messages \cup infos
      BY <2>2, MessagesAfterSending
    <2>4. Commands' \ Commands = {}
      BY <2>1, <2>3 DEF Commands
    <2>. QED
      BY <2>4 DEF NoLateCommand
  <1>4. ASSUME NEW p \in Players, LeaveGame(p)
        PROVE  NoLateCommand
    <2>1. Issue(p, "PLAYERLEAVE", ExecutionFrame(p) + 1, 0, FinalFrames(p))
      BY <1>4 DEF LeaveGame
    <2>2. localStatus[p] = "INGAME"
      BY <1>4 DEF LeaveGame
    <2>3. /\ ExecutionFrame(p) + 1 \in Nat
          /\ ExecutionFrame(p) + 1 >= ExecutionFrame(p)
      BY ExecutionFrameType
    <2>. QED
      BY <2>1, <2>2, <2>3, IssueIsNotLate
  <1>5. ASSUME NEW p \in Players, RunPregameFrame(p)
        PROVE  FALSE
    BY <1>5 DEF RunPregameFrame
  <1>6. ASSUME NEW p \in Players, RunFrame(p)
        PROVE  FALSE
    BY <1>6 DEF RunFrame
  <1>7. ASSUME NEW p \in Players, NEW q \in Players, Deliver(p, q)
        PROVE  FALSE
    BY <1>7 DEF Deliver, ReceiveFrameInfo, ReceiveCommand, Receive
  <1>8. CASE UNCHANGED vars
    BY <1>8 DEF vars
  <1>. QED
    BY <1>1, <1>2, <1>3, <1>4, <1>5, <1>6, <1>7, <1>8 DEF Next

\* Announcements stay behind the frames that take commands: the invariant
\* that makes announced counts final.
THEOREM CountsBehind == Spec => []CountsInv
  <1>. QED
    BY TypeOKInit, TypeOKNext, CountsInvInit, CountsInvNext, PTL DEF Spec

\* Once a frame info of a player is out, none of his commands is scheduled
\* for its frame, however the run-ahead changes and whenever he leaves, for
\* any number of players and any run-aheads.
THEOREM CountsAreFinal == Spec => AnnouncedCountsAreFinal
  <1>. QED
    BY TypeOKInit, TypeOKNext, CountsInvInit, CountsInvNext, NoLateCommandStep,
       PTL DEF Spec, AnnouncedCountsAreFinal

===============================================================================
