----------------------- MODULE LockstepAgreement_proofs ------------------------
(***************************************************************************)
(* Agreement: all computers execute the same commands in the same frame,   *)
(* for any number of players, any length of the ring, any run-aheads, and  *)
(* whoever leaves.                                                         *)
(*                                                                         *)
(* The argument.  A frame is closed for a player when he can schedule no   *)
(* command for it any more.  What a slot of the ring holds of another      *)
(* player are commands of his for one of the frames within the reach of    *)
(* the ring, and an announced count is that of a closed frame within that  *)
(* reach.  Two frames within reach of each other have different slots; so  *)
(* a slot which holds as many commands as announced holds all that were    *)
(* and will be issued for its frame.                                       *)
(***************************************************************************)
EXTENDS Lockstep_proofs

MaxRunAhead == MAX_FRAMES_AHEAD \div 2

CommandsBy(q) == {c \in Commands : c.player = q}
IssuedBy(q, f) == {c \in Commands : c.player = q /\ c.frame = f}
LeavesOf(q) == {c \in CommandsBy(q) : c.type = "PLAYERLEAVE"}

\* Player q issues no command for frame f any more.
Closed(q, f) ==
  \/ localStatus[q] \in {"LEAVING", "LEFT"}
  \/ localStatus[q] = "INGAME" /\ f < lastExecutionFrame[q]
  \/ localStatus[q] = "PREGAME" /\ f < FirstRunAhead

\* The frames whose slot in a ring of p's computer is theirs.
Within(p, f) ==
  frame[p] - FRAMES_TO_KEEP <= f /\ f < frame[p] + FRAME_DATA_LENGTH

\* The frame counters of a computer.
CountersInv(p) ==
  /\ lastExecutionFrame[p] <= frame[p] + MaxRunAhead
  /\ localStatus[p] = "PREGAME" =>
       /\ frame[p] <= 1
       /\ runAhead[p] = FirstRunAhead
       /\ lastExecutionFrame[p] = FirstRunAhead - 1
       /\ Len(executed[p]) = 0
  /\ localStatus[p] # "PREGAME" =>
       frame[p] >= 1 /\ Len(executed[p]) = frame[p] - 1
  /\ localStatus[p] = "INGAME" =>
       /\ lastFrame[p] < lastExecutionFrame[p]
       /\ lastFrame[p] <= lastFrameCompleted[p]
       /\ frame[p] <= lastFrame[p] + 1
  /\ localStatus[p] # "LEFT" => presence[p][p] = "playing"

\* What players have issued: up to the last execution frame, and a leave last.
IssuedInv(q) ==
  /\ \A c \in CommandsBy(q) :
       /\ localStatus[q] # "PREGAME"
       /\ 1 <= c.frame
       /\ c.frame <= frame[q] + MaxRunAhead + 1
       /\ localStatus[q] = "INGAME" => c.frame <= lastExecutionFrame[q]
  /\ \A l \in LeavesOf(q) :
       /\ localStatus[q] \in {"LEAVING", "LEFT"}
       /\ \A c \in CommandsBy(q) : c.frame <= l.frame
  /\ localStatus[q] = "LEAVING" => LeavesOf(q) # {}

\* What players have announced.
AnnouncedInv ==
  \A i \in FrameInfos :
    /\ 1 <= i.frame
    /\ i.frame <= frame[i.player] + MaxRunAhead + 1
    /\ i.count = Cardinality(IssuedBy(i.player, i.frame))

\* A computer executes a frame when it is closed for everybody, and stops
\* waiting for a player when it executes his leave.
HistoryInv(p, q) ==
  /\ \A f \in 1 .. Len(executed[p]) : Closed(q, f)
  /\ presence[p][q] # "playing" => \E l \in LeavesOf(q) : l.frame < frame[p]
  /\ presence[p][q] = "playing" => \A l \in LeavesOf(q) : frame[p] <= l.frame

\* One's own commands from the present frame on are in one's own ring.
OwnInv(q) ==
  \A c \in CommandsBy(q) :
    frame[q] <= c.frame => c \in frameData[q][q][Index(c.frame)].commands

\* The commands in a slot.
HeldInv(p, q) ==
  presence[p][q] # "gone" =>
    \A i \in Indices : \A c \in frameData[p][q][i].commands :
      c \in CommandsBy(q) /\ Index(c.frame) = i /\ Within(p, c.frame)

\* The announced count of a slot.
CountInv(p, q) ==
  p # q /\ presence[p][q] # "gone" =>
    \A i \in Indices :
      frameData[p][q][i].announced # NotAnnounced =>
        \E f \in Nat \ {0} :
          /\ Index(f) = i /\ Within(p, f) /\ Closed(q, f)
          /\ frameData[p][q][i].announced = Cardinality(IssuedBy(q, f))

\* What is on its way to a computer is within the reach of its rings.
ReachInv ==
  \A s \in sent : \A p \in s.to :
    localStatus[p] # "LEFT" => s.msg.frame < frame[p] + FRAME_DATA_LENGTH

AgreementInv ==
  /\ IsFiniteSet(Commands)
  /\ \A p \in Players : CountersInv(p) /\ IssuedInv(p) /\ OwnInv(p)
  /\ AnnouncedInv
  /\ ReachInv
  /\ \A p, q \in Players : HistoryInv(p, q) /\ HeldInv(p, q) /\ CountInv(p, q)
  /\ ExecutesWhatWasIssued

-------------------------------------------------------------------------------
(* Numbers.                                                                  *)

\* The lengths in NetworkUtil.cpp: the ring takes the frames kept, and twice
\* the frames a computer may be ahead, and more.
LEMMA Lengths ==
  /\ MaxRunAhead \in Nat /\ MaxRunAhead >= 2
  /\ FRAMES_TO_KEEP = MaxRunAhead + 1
  /\ FRAME_DATA_LENGTH \in Nat
  /\ FRAME_DATA_LENGTH > 3 * MaxRunAhead + 3
  /\ FirstRunAhead \in 1 .. MaxRunAhead
  /\ PossibleRunAheads \subseteq 1 .. MaxRunAhead
  <1> DEFINE half == MAX_FRAMES_AHEAD \div 2
  <1>1. half \in Nat /\ half >= 2 /\ 2 * half <= MAX_FRAMES_AHEAD
    BY MaxFramesAheadAssumption
  <1>2. /\ FRAMES_TO_KEEP = half + 1
        /\ FRAME_DATA_LENGTH = 2 * MAX_FRAMES_AHEAD + 2
    BY MaxFramesAheadAssumption DEF FRAMES_TO_KEEP, FRAME_DATA_LENGTH
  <1>3. FRAME_DATA_LENGTH \in Nat /\ FRAME_DATA_LENGTH > 3 * half + 3
    <2> HIDE DEF half
    <2>. QED
      BY <1>1, <1>2, MaxFramesAheadAssumption
  <1>4. /\ FirstRunAhead \in 1 .. half
        /\ PossibleRunAheads \subseteq 1 .. half
    BY <1>1, RunAheadAssumption DEF PossibleRunAheads
  <1>. QED
    BY <1>1, <1>2, <1>3, <1>4 DEF MaxRunAhead

\* Two frames less than the length of the ring apart have different slots.
LEMMA SlotsApart ==
  ASSUME NEW f \in Nat, NEW g \in Nat, Index(f) = Index(g),
         f - g < FRAME_DATA_LENGTH, g - f < FRAME_DATA_LENGTH
  PROVE  f = g
  <1> DEFINE n == FRAME_DATA_LENGTH
             a == f \div n
             b == g \div n
             r == f % n
  <1>1. n \in Nat /\ n > 0
    BY Lengths
  <1>2. /\ a \in Int /\ b \in Int /\ r \in Int
        /\ f = n * a + (f % n) /\ g = n * b + (g % n)
    <2> HIDE DEF n
    <2>. QED
      BY <1>1
  <1>3. f % n = g % n
    BY DEF Index
  <1>4. f - g = n * (a - b)
    <2> HIDE DEF n, a, b
    <2>1. f - g = n * a - n * b
      BY <1>1, <1>2, <1>3
    <2>2. n * a - n * b = n * (a - b)
      BY <1>1, <1>2
    <2>. QED
      BY <2>1, <2>2
  <1> HIDE DEF a, b, r
  <1>5. a - b \in Int /\ n * (a - b) < n /\ n * (b - a) < n
    <2>1. n * (b - a) = g - f
      BY <1>1, <1>2, <1>4
    <2>. QED
      BY <1>1, <1>2, <1>4, <2>1
  <1> HIDE DEF n
  <1>6. a - b < 1
    BY <1>1, <1>2, <1>5
  <1>7. b - a < 1
    BY <1>1, <1>2, <1>5
  <1>8. a = b
    BY <1>2, <1>6, <1>7
  <1>. QED
    BY <1>1, <1>2, <1>3, <1>8

\* The execution frame is within the run-ahead of the present frame.
LEMMA ExecutionFrameIsNear ==
  ASSUME TypeOK, NEW p \in Players, CountersInv(p)
  PROVE  /\ ExecutionFrame(p) \in Nat
         /\ ExecutionFrame(p) >= lastExecutionFrame[p]
         /\ ExecutionFrame(p) > frame[p]
         /\ ExecutionFrame(p) <= frame[p] + MaxRunAhead
         /\ RunAheadFrame(p) = ExecutionFrame(p)
  <1> DEFINE a == frame[p] + runAhead[p]
             b == lastExecutionFrame[p]
             e == ExecutionFrame(p)
  <1>1. a \in Nat /\ b \in Nat /\ e \in Nat
    BY NumbersType, ExecutionFrameType
  <1>2. a > frame[p] /\ a <= frame[p] + MaxRunAhead
    <2>1. runAhead[p] \in 1 .. MaxRunAhead /\ frame[p] \in Nat
      BY Lengths DEF TypeOK
    <2>. QED
      BY <2>1, Lengths
  <1>3. b <= frame[p] + MaxRunAhead
    BY DEF CountersInv
  <1>4. e = Max({a, b}) /\ RunAheadFrame(p) = Max({e, a})
    BY DEF ExecutionFrame, RunAheadFrame
  <1>5. frame[p] + MaxRunAhead \in Nat /\ frame[p] \in Nat
    BY NumbersType, Lengths
  <1> HIDE DEF a, b, e
  <1>6. Max({a, b}) \in {a, b} /\ Max({a, b}) >= a /\ Max({a, b}) >= b
    BY <1>1, MaxOfTwo
  <1>7. Max({e, a}) \in {e, a} /\ Max({e, a}) >= e
    BY <1>1, MaxOfTwo
  <1>8. RunAheadFrame(p) = e
    BY <1>1, <1>4, <1>6, <1>7
  <1>9. e \in Nat /\ e >= b /\ e > frame[p] /\ e <= frame[p] + MaxRunAhead
    BY <1>1, <1>2, <1>3, <1>4, <1>5, <1>6
  <1>. QED
    BY <1>8, <1>9 DEF b, e

\* What a slot of one's own ring holds: all that was issued for its frame.
LEMMA OwnSlot ==
  ASSUME NEW slot, NEW own, NEW now \in Nat, NEW f \in Nat,
         now <= f, f <= now + MaxRunAhead + 1,
         \A c \in own : c.frame \in Nat
           /\ (now <= c.frame /\ c.frame = f => c \in slot),
         \A c \in slot :
           /\ c \in own /\ Index(c.frame) = Index(f)
           /\ now - FRAMES_TO_KEEP <= c.frame
           /\ c.frame < now + FRAME_DATA_LENGTH
  PROVE  slot = {c \in own : c.frame = f}
  <1>1. ASSUME NEW c \in slot
        PROVE  c \in own /\ c.frame = f
    <2>1. /\ c \in own /\ c.frame \in Nat /\ Index(c.frame) = Index(f)
          /\ now - FRAMES_TO_KEEP <= c.frame
          /\ c.frame < now + FRAME_DATA_LENGTH
      BY <1>1
    <2>2. /\ c.frame - f < FRAME_DATA_LENGTH
          /\ f - c.frame < FRAME_DATA_LENGTH
      BY <2>1, Lengths
    <2>. QED
      BY <2>1, <2>2, SlotsApart
  <1>2. ASSUME NEW c \in own, c.frame = f
        PROVE  c \in slot
    BY <1>2
  <1>. QED
    BY <1>1, <1>2

-------------------------------------------------------------------------------
(* Steps.  For agreement there are five kinds: a player issues a command,    *)
(* announces frames, runs a frame, receives something, or none of these.     *)

\* The operations of the local ring, and of the ring of another player.
AddLocal(ring, f, c) == AddCommand(ring, TRUE, f, c)
AddRemote(ring, f, c) == AddCommand(ring, FALSE, f, c)
ResetLocal(ring, f) == ResetFrame(ring, TRUE, f)
ResetRemote(ring, f) == ResetFrame(ring, FALSE, f)

\* Command c is put into the local ring and sent, then the frames announced.
Adds(p, c, announced) ==
  LET data == AddLocal(frameData[p][p], c.frame, c)
  IN  /\ frameData' = [frameData EXCEPT ![p][p] = data]
      /\ sent' = sent \cup SendAll(p, {c} \cup InfosFor(p, announced, data))

AddsNew(p, c, type, f, announced) ==
  c.player = p /\ c.type = type /\ c.frame = f /\ Adds(p, c, announced)

\* The command is scheduled for the execution frame, a leave for the next.
Issuing(p, c, announced) ==
  /\ localStatus[p] = "INGAME"
  /\ c \in Command /\ c.player = p
  /\ Adds(p, c, announced)
  /\ lastExecutionFrame' = [lastExecutionFrame EXCEPT ![p] = ExecutionFrame(p)]
  /\ UNCHANGED <<frame, lastFrame, runAhead, presence, executed>>
  /\ \/ /\ c.type # "PLAYERLEAVE" /\ c.frame = ExecutionFrame(p)
        /\ announced = {}
        /\ UNCHANGED <<localStatus, lastFrameCompleted>>
     \/ /\ c.type = "PLAYERLEAVE" /\ c.frame = ExecutionFrame(p) + 1
        /\ announced = FinalFrames(p)
        /\ localStatus' = [localStatus EXCEPT ![p] = "LEAVING"]
        /\ lastFrameCompleted' =
             [lastFrameCompleted EXCEPT ![p] = ExecutionFrame(p)]

\* The tick of a frame announces the frames up to the execution frame.
TickFrames(p) == lastFrameCompleted[p] + 1 .. ExecutionFrame(p) - 1

Announcing(p) ==
  /\ \/ localStatus[p] = "PREGAME" /\ frame[p] = 1
     \/ localStatus[p] = "INGAME" /\ lastFrame[p] # frame[p]
  /\ lastFrame' = [lastFrame EXCEPT ![p] = frame[p]]
  /\ localStatus' = [localStatus EXCEPT ![p] = "INGAME"]
  /\ lastExecutionFrame' = [lastExecutionFrame EXCEPT ![p] = ExecutionFrame(p)]
  /\ sent' = sent \cup SendAll(p, InfosFor(p, TickFrames(p), frameData[p][p]))
  /\ lastFrameCompleted' =
       [lastFrameCompleted EXCEPT
          ![p] = Max({lastFrameCompleted[p], ExecutionFrame(p) - 1})]
  /\ UNCHANGED <<frame, runAhead, frameData, presence, executed>>

\* The game starts, or the tick of a player who is leaving.
Waiting(p) ==
  /\ \/ /\ localStatus[p] = "PREGAME" /\ frame[p] = 0
        /\ frame' = [frame EXCEPT ![p] = 1]
        /\ UNCHANGED lastFrame
     \/ /\ localStatus[p] # "INGAME"
        /\ lastFrame' = [lastFrame EXCEPT ![p] = frame[p]]
        /\ UNCHANGED frame
     \/ UNCHANGED <<frame, lastFrame>>
  /\ UNCHANGED <<localStatus, runAhead, lastExecutionFrame, lastFrameCompleted,
                 frameData, presence, sent, executed>>

\* Every step is of one of these kinds.
LEMMA Steps ==
  ASSUME TypeOK, \A p \in Players : CountersInv(p), [Next]_vars
  PROVE  \/ \E p \in Players, c \in Command, fs \in SUBSET Nat : Issuing(p, c, fs)
         \/ \E p \in Players : Announcing(p)
         \/ \E p \in Players : RunFrame(p)
         \/ \E p, q \in Players : Deliver(p, q)
         \/ \E p \in Players : Waiting(p)
         \/ UNCHANGED vars
  <1>1. ASSUME NEW p \in Players, NEW type, NEW f \in Nat, NEW value,
               NEW fs, Issue(p, type, f, value, fs),
               \/ type \in {"GAMECOMMAND", "PLAYERLEAVE"} /\ value = 0
               \/ type = "RUNAHEAD" /\ value \in PossibleRunAheads
        PROVE  \E c \in Command : AddsNew(p, c, type, f, fs)
    <2> DEFINE c == [type |-> type, player |-> p, id |-> commandID[p] + 1,
                     frame |-> f, value |-> value]
    <2>1. commandID[p] + 1 \in Nat
      BY DEF TypeOK
    <2>2. c \in Command
      BY <1>1, <2>1 DEF Command, CommandWith
    <2>3. /\ frameData' = [frameData EXCEPT ![p][p] =
               AddCommand(frameData[p][p], TRUE, f, c)]
          /\ sent' = sent \cup SendAll(p, {c} \cup InfosFor(p, fs,
               AddCommand(frameData[p][p], TRUE, f, c)))
      BY <1>1 DEF Issue
    <2>4. c.player = p /\ c.type = type /\ c.frame = f
      OBVIOUS
    <2> HIDE DEF c
    <2>. QED
      BY <2>2, <2>3, <2>4 DEF AddsNew, Adds, AddLocal
  <1>2. ASSUME NEW p \in Players, SendLocalGameMessage(p)
        PROVE  \E c \in Command, fs \in SUBSET Nat : Issuing(p, c, fs)
    <2>1. PICK c \in Command : AddsNew(p, c, "GAMECOMMAND", ExecutionFrame(p), {})
      <3>1. Issue(p, "GAMECOMMAND", ExecutionFrame(p), 0, {})
        BY <1>2 DEF SendLocalGameMessage
      <3>. QED
        BY <1>1, <3>1, ExecutionFrameType
    <2>2. Issuing(p, c, {})
      BY <1>2, <2>1 DEF Issuing, AddsNew, SendLocalGameMessage, runVars
    <2>. QED
      BY <2>2
  <1>3. ASSUME NEW p \in Players, UpdateRunAhead(p)
        PROVE  \E c \in Command, fs \in SUBSET Nat : Issuing(p, c, fs)
    <2>1. PICK c \in Command : AddsNew(p, c, "RUNAHEAD", ExecutionFrame(p), {})
      <3>1. PICK value \in RunAheads :
              Issue(p, "RUNAHEAD", RunAheadFrame(p), value, {})
        BY <1>3 DEF UpdateRunAhead
      <3>2. value \in PossibleRunAheads
        BY RunAheadAssumption DEF PossibleRunAheads
      <3>3. RunAheadFrame(p) = ExecutionFrame(p) /\ ExecutionFrame(p) \in Nat
        BY ExecutionFrameIsNear
      <3>. QED
        BY <1>1, <3>1, <3>2, <3>3
    <2>2. Issuing(p, c, {})
      BY <1>3, <2>1 DEF Issuing, AddsNew, UpdateRunAhead, runVars
    <2>. QED
      BY <2>2
  <1>4. ASSUME NEW p \in Players, LeaveGame(p)
        PROVE  \E c \in Command, fs \in SUBSET Nat : Issuing(p, c, fs)
    <2>1. PICK c \in Command : AddsNew(p, c, "PLAYERLEAVE",
                                       ExecutionFrame(p) + 1, FinalFrames(p))
      <3>1. Issue(p, "PLAYERLEAVE", ExecutionFrame(p) + 1, 0, FinalFrames(p))
        BY <1>4 DEF LeaveGame
      <3>2. ExecutionFrame(p) + 1 \in Nat
        BY ExecutionFrameType
      <3>. QED
        BY <1>1, <3>1, <3>2
    <2>2. Issuing(p, c, FinalFrames(p))
      BY <1>4, <2>1 DEF Issuing, AddsNew, LeaveGame, runVars
    <2>3. FinalFrames(p) \in SUBSET Nat
      BY ExecutionFrameType DEF FinalFrames
    <2>. QED
      BY <2>2, <2>3
  <1>5. ASSUME NEW p \in Players, FrameTick(p)
        PROVE  Announcing(p) \/ Waiting(p)
    BY <1>5 DEF FrameTick, Announcing, Waiting, TickFrames
  <1>6. ASSUME NEW p \in Players, RunPregameFrame(p)
        PROVE  Waiting(p)
    BY <1>6 DEF RunPregameFrame, Waiting
  <1>. QED
    BY <1>2, <1>3, <1>4, <1>5, <1>6 DEF Next

\* The commands and the frame infos of players are messages.
LEMMA CommandsType ==
  ASSUME TypeOK
  PROVE  /\ Commands \subseteq Command
         /\ FrameInfos \subseteq FrameInfo
         /\ \A c \in Command : c.frame \in Nat /\ c.player \in Players
                                 /\ c.type # "FRAMEINFO"
         /\ \A i \in FrameInfo : i.frame \in Nat /\ i.player \in Players
                                   /\ i.count \in Nat /\ i.type = "FRAMEINFO"
  <1>1. \A c \in Command : c.frame \in Nat /\ c.player \in Players
                             /\ c.type # "FRAMEINFO"
    BY DEF Command, CommandWith
  <1>2. \A i \in FrameInfo : i.frame \in Nat /\ i.player \in Players
                               /\ i.count \in Nat /\ i.type = "FRAMEINFO"
    BY DEF FrameInfo
  <1>3. Messages \subseteq Message
    BY DEF TypeOK, Messages, Sent
  <1>. QED
    BY <1>1, <1>2, <1>3 DEF Commands, FrameInfos, Message

\* What there is after a step that issues or announces.
LEMMA AfterIssuing ==
  ASSUME TypeOK, NEW p \in Players, NEW c \in Command, NEW fs,
         Issuing(p, c, fs)
  PROVE  /\ Commands' = Commands \cup {c}
         /\ FrameInfos' = FrameInfos \cup InfosFor(p, fs, frameData'[p][p])
  <1> DEFINE infos == InfosFor(p, fs, AddLocal(frameData[p][p], c.frame, c))
  <1>1. frameData'[p][p] = AddLocal(frameData[p][p], c.frame, c)
    BY DEF Issuing, Adds, TypeOK
  <1>2. \A i \in infos : i.type = "FRAMEINFO"
    <2> DEFINE data == AddLocal(frameData[p][p], c.frame, c)
    <2> HIDE DEF data
    <2>1. \A i \in InfosFor(p, fs, data) : i.type = "FRAMEINFO"
      BY InfosShape
    <2>. QED
      BY <2>1 DEF data
  <1>3. sent' = sent \cup SendAll(p, {c} \cup infos)
    BY DEF Issuing, Adds
  <1>4. InfosFor(p, fs, frameData'[p][p]) = infos
    BY <1>1
  <1> HIDE DEF infos
  <1>5. Messages' = Messages \cup {c} \cup infos
    BY <1>3, MessagesAfterSending
  <1>. QED
    BY <1>2, <1>4, <1>5, CommandsType DEF Commands, FrameInfos

\* Announcing issues nothing.
LEMMA AfterAnnouncing ==
  ASSUME TypeOK, NEW p \in Players, Announcing(p)
  PROVE  /\ Commands' = Commands
         /\ FrameInfos' = FrameInfos \cup
              InfosFor(p, TickFrames(p), frameData[p][p])
  <1> DEFINE infos == InfosFor(p, TickFrames(p), frameData[p][p])
  <1>1. \A i \in infos : i.type = "FRAMEINFO"
    BY InfosShape
  <1>2. sent' = sent \cup SendAll(p, infos)
    BY DEF Announcing
  <1> HIDE DEF infos
  <1>3. Messages' = Messages \cup infos
    BY <1>2, MessagesAfterSending
  <1>. QED
    BY <1>1, <1>3 DEF Commands, FrameInfos, infos

-------------------------------------------------------------------------------
(* What stays.                                                               *)

\* What the four kinds of steps that issue nothing leave as it is.
LEMMA NothingIssued ==
  ASSUME \/ \E p \in Players : RunFrame(p)
         \/ \E p, q \in Players : Deliver(p, q)
         \/ \E p \in Players : Waiting(p)
         \/ UNCHANGED vars
  PROVE  /\ UNCHANGED <<sent, lastExecutionFrame, lastFrameCompleted>>
         /\ Messages' = Messages /\ Commands' = Commands
         /\ FrameInfos' = FrameInfos
  <1>1. UNCHANGED <<sent, lastExecutionFrame, lastFrameCompleted>>
    BY DEF RunFrame, Deliver, ReceiveCommand, ReceiveFrameInfo, Receive, Waiting,
           vars
  <1>. QED
    BY <1>1, SameMessages

\* What a delivery changes.
LEMMA OnlyFrameData ==
  ASSUME NEW p, NEW q, Deliver(p, q)
  PROVE  UNCHANGED <<frame, localStatus, lastFrame, runAhead, presence, executed>>
  BY DEF Deliver, ReceiveCommand, ReceiveFrameInfo, Receive, runVars

\* How the local status and the last execution frame go on: neither goes back.
LEMMA StatusStep ==
  ASSUME TypeOK, \A p \in Players : CountersInv(p), [Next]_vars,
         NEW q \in Players
  PROVE  /\ lastExecutionFrame'[q] \in Nat
         /\ lastExecutionFrame'[q] >= lastExecutionFrame[q]
         /\ \/ localStatus'[q] = localStatus[q]
            \/ /\ localStatus[q] \in {"INGAME", "LEAVING"}
               /\ localStatus'[q] \in {"LEAVING", "LEFT"}
            \/ /\ localStatus[q] = "PREGAME" /\ localStatus'[q] = "INGAME"
               /\ lastExecutionFrame'[q] > FirstRunAhead
  <1>0. /\ lastExecutionFrame \in [Players -> Nat]
        /\ localStatus \in [Players -> {"PREGAME", "INGAME", "LEAVING", "LEFT"}]
    BY DEF TypeOK
  <1>1. ASSUME NEW p \in Players, NEW c \in Command, NEW fs, Issuing(p, c, fs)
        PROVE  /\ lastExecutionFrame'[q] >= lastExecutionFrame[q]
               /\ lastExecutionFrame'[q] \in Nat
               /\ \/ localStatus'[q] = localStatus[q]
                  \/ localStatus[q] \in {"INGAME", "LEAVING"} /\ localStatus'[q] = "LEAVING"
    <2>1. ExecutionFrame(p) \in Nat /\ ExecutionFrame(p) >= lastExecutionFrame[p]
      BY ExecutionFrameType
    <2>. QED
      BY <1>0, <1>1, <2>1 DEF Issuing
  <1>2. ASSUME NEW p \in Players, Announcing(p)
        PROVE  /\ lastExecutionFrame'[q] >= lastExecutionFrame[q]
               /\ lastExecutionFrame'[q] \in Nat
               /\ \/ localStatus'[q] = localStatus[q]
                  \/ /\ localStatus[q] = "PREGAME" /\ localStatus'[q] = "INGAME"
                     /\ lastExecutionFrame'[q] > FirstRunAhead
    <2>1. /\ ExecutionFrame(p) \in Nat
          /\ ExecutionFrame(p) >= lastExecutionFrame[p]
          /\ ExecutionFrame(p) >= frame[p] + runAhead[p]
      BY ExecutionFrameType
    <2>2. localStatus[p] = "PREGAME" => ExecutionFrame(p) > FirstRunAhead
      <3>1. localStatus[p] = "PREGAME" => frame[p] = 1 /\ runAhead[p] = FirstRunAhead
        BY <1>2 DEF Announcing, CountersInv
      <3>2. FirstRunAhead \in Nat
        BY Lengths
      <3>. QED
        BY <2>1, <3>1, <3>2
    <2>. QED
      BY <1>0, <1>2, <2>1, <2>2 DEF Announcing
  <1>3. ASSUME NEW p \in Players, RunFrame(p)
        PROVE  \/ localStatus'[q] = localStatus[q]
               \/ localStatus[q] \in {"INGAME", "LEAVING"} /\ localStatus'[q] = "LEFT"
    BY <1>0, <1>3 DEF RunFrame
  <1>4. ASSUME NEW p \in Players, Waiting(p)
        PROVE  UNCHANGED localStatus
    BY <1>4 DEF Waiting
  <1>5. CASE \/ \E p \in Players : RunFrame(p)
             \/ \E p, r \in Players : Deliver(p, r)
             \/ \E p \in Players : Waiting(p)
             \/ UNCHANGED vars
    <2>1. lastExecutionFrame' = lastExecutionFrame
      BY <1>5, NothingIssued
    <2>2. \/ localStatus'[q] = localStatus[q]
          \/ localStatus[q] \in {"INGAME", "LEAVING"} /\ localStatus'[q] = "LEFT"
      BY <1>3, <1>4, <1>5, OnlyFrameData DEF vars
    <2>. QED
      BY <1>0, <2>1, <2>2
  <1>. QED
    BY <1>1, <1>2, <1>5, Steps

\* A closed frame stays closed.
LEMMA ClosedStays ==
  ASSUME TypeOK, \A p \in Players : CountersInv(p), [Next]_vars,
         NEW q \in Players, NEW f \in Nat, Closed(q, f)
  PROVE  Closed(q, f)'
  <1>1. lastExecutionFrame[q] \in Nat /\ FirstRunAhead \in Nat
    BY Lengths DEF TypeOK
  <1>. QED
    BY <1>1, StatusStep DEF Closed

\* What is issued for a closed frame is final.
LEMMA IssuedStays ==
  ASSUME TypeOK, \A p \in Players : CountersInv(p), [Next]_vars,
         NEW q \in Players, NEW f \in Nat, Closed(q, f)
  PROVE  IssuedBy(q, f)' = IssuedBy(q, f)
  <1>1. ASSUME NEW p \in Players, NEW c \in Command, NEW fs, Issuing(p, c, fs)
        PROVE  IssuedBy(q, f)' = IssuedBy(q, f)
    <2>1. Commands' = Commands \cup {c}
      BY <1>1, AfterIssuing
    <2>2. ~(c.player = q /\ c.frame = f)
      <3> SUFFICES ASSUME c.player = q PROVE c.frame # f
        OBVIOUS
      <3>1. localStatus[q] = "INGAME" /\ c.frame >= ExecutionFrame(q)
        BY <1>1, ExecutionFrameType DEF Issuing
      <3>2. f < lastExecutionFrame[q]
        BY <3>1 DEF Closed
      <3>. QED
        BY <3>1, <3>2, ExecutionFrameType, NumbersType, CommandsType
    <2>. QED
      BY <2>1, <2>2 DEF IssuedBy
  <1>2. ASSUME NEW p \in Players, Announcing(p)
        PROVE  IssuedBy(q, f)' = IssuedBy(q, f)
    BY <1>2, AfterAnnouncing DEF IssuedBy
  <1>3. ASSUME Commands' = Commands
        PROVE  IssuedBy(q, f)' = IssuedBy(q, f)
    BY <1>3 DEF IssuedBy
  <1>. QED
    BY <1>1, <1>2, <1>3, Steps, NothingIssued

\* No command is ever taken back.
LEMMA CommandsStay ==
  ASSUME TypeOK, \A p \in Players : CountersInv(p), [Next]_vars
  PROVE  Commands \subseteq Commands'
  BY Steps, NothingIssued, AfterIssuing, AfterAnnouncing

-------------------------------------------------------------------------------
(* The frame counters.                                                       *)

\* Every step keeps the counters of a computer in step with each other.
LEMMA CountersNext ==
  ASSUME TypeOK, \A p \in Players : CountersInv(p), [Next]_vars,
         NEW q \in Players
  PROVE  CountersInv(q)'
  <1>0. /\ CountersInv(q)
        /\ frame \in [Players -> Nat]
        /\ lastFrame \in [Players -> Nat]
        /\ localStatus \in [Players -> {"PREGAME", "INGAME", "LEAVING", "LEFT"}]
        /\ lastExecutionFrame \in [Players -> Nat]
        /\ lastFrameCompleted \in [Players -> Nat]
        /\ runAhead \in [Players -> PossibleRunAheads]
        /\ presence \in [Players -> [Players -> Presence]]
        /\ executed \in [Players -> Seq(SUBSET Command)]
        /\ MaxRunAhead \in Nat
    BY Lengths DEF TypeOK
  <1>1. ASSUME NEW p \in Players, NEW c \in Command, NEW fs, Issuing(p, c, fs)
        PROVE  CountersInv(q)'
    <2>1. /\ ExecutionFrame(p) \in Nat
          /\ ExecutionFrame(p) >= lastExecutionFrame[p]
          /\ ExecutionFrame(p) <= frame[p] + MaxRunAhead
      BY ExecutionFrameIsNear
    <2>2. CASE p # q
      BY <1>0, <1>1, <2>2 DEF CountersInv, Issuing
    <2>3. CASE p = q
      <3>1. lastExecutionFrame'[q] = ExecutionFrame(q)
        BY <1>0, <1>1, <2>3 DEF Issuing
      <3>2. /\ frame'[q] = frame[q] /\ lastFrame'[q] = lastFrame[q]
            /\ presence' = presence /\ executed' = executed
            /\ localStatus[q] = "INGAME"
        BY <1>1, <2>3 DEF Issuing
      <3>3. \/ localStatus'[q] = "LEAVING"
            \/ /\ localStatus'[q] = "INGAME"
               /\ lastFrameCompleted'[q] = lastFrameCompleted[q]
        BY <1>0, <1>1, <2>3 DEF Issuing
      <3>. QED
        BY <1>0, <2>1, <2>3, <3>1, <3>2, <3>3 DEF CountersInv
    <2>. QED
      BY <2>2, <2>3
  <1>2. ASSUME NEW p \in Players, Announcing(p)
        PROVE  CountersInv(q)'
    <2>1. /\ ExecutionFrame(p) \in Nat
          /\ ExecutionFrame(p) > frame[p]
          /\ ExecutionFrame(p) <= frame[p] + MaxRunAhead
      BY ExecutionFrameIsNear
    <2>2. CASE p # q
      BY <1>0, <1>2, <2>2 DEF CountersInv, Announcing
    <2>3. CASE p = q
      <3>1. /\ lastExecutionFrame'[q] = ExecutionFrame(q)
            /\ lastFrame'[q] = frame[q] /\ localStatus'[q] = "INGAME"
            /\ frame' = frame /\ presence' = presence /\ executed' = executed
        BY <1>0, <1>2, <2>3 DEF Announcing
      <3>2. /\ lastFrameCompleted'[q] \in Nat
            /\ lastFrameCompleted'[q] >= ExecutionFrame(q) - 1
        BY <1>0, <1>2, <2>3, LastAnnouncedType DEF Announcing
      <3>3. frame[q] >= 1 /\ Len(executed[q]) = frame[q] - 1
        BY <1>0, <1>2, <2>3 DEF Announcing, CountersInv
      <3>4. presence[q][q] = "playing"
        BY <1>0, <1>2, <2>3 DEF Announcing, CountersInv
      <3>. QED
        BY <1>0, <2>1, <2>3, <3>1, <3>2, <3>3, <3>4 DEF CountersInv
    <2>. QED
      BY <2>2, <2>3
  <1>3. ASSUME NEW p \in Players, RunFrame(p)
        PROVE  CountersInv(q)'
    <2> DEFINE list == FrameCommandList(p)
    <2>1. UNCHANGED <<lastFrame, lastExecutionFrame, lastFrameCompleted>>
      BY <1>3 DEF RunFrame
    <2>2. CASE p # q
      <3>1. /\ frame'[q] = frame[q] /\ localStatus'[q] = localStatus[q]
            /\ runAhead'[q] = runAhead[q] /\ presence'[q] = presence[q]
            /\ executed'[q] = executed[q]
        BY <1>0, <1>3, <2>2 DEF RunFrame
      <3>. QED
        BY <1>0, <2>1, <3>1 DEF CountersInv
    <2>3. CASE p = q
      <3>1. /\ frame'[q] = frame[q] + 1
            /\ localStatus[q] \in {"INGAME", "LEAVING"}
            /\ lastFrame[q] = frame[q]
            /\ executed'[q] = Append(executed[q], list)
        BY <1>0, <1>3, <2>3 DEF RunFrame
      <3>2. /\ localStatus'[q] \in {localStatus[q], "LEFT"}
            /\ q \in LeavingIn(list) => localStatus'[q] = "LEFT"
            /\ presence'[q] = PresenceAfter(q, LeavingIn(list))
        BY <1>0, <1>3, <2>3 DEF RunFrame
      <3>3. Len(executed'[q]) = Len(executed[q]) + 1
        <4>1. list \in SUBSET Command
          BY FrameCommandListType
        <4> HIDE DEF list
        <4>. QED
          BY <1>0, <3>1, <4>1
      <3>4. localStatus'[q] # "LEFT" => presence'[q][q] = "playing"
        <4> SUFFICES ASSUME localStatus'[q] # "LEFT"
                     PROVE  presence'[q][q] = "playing"
          OBVIOUS
        <4>1. q \notin LeavingIn(list)
          BY <3>2
        <4>2. presence[q][q] = "playing"
          BY <1>0, <3>1 DEF CountersInv
        <4>3. PresenceNow(q)[q] = "playing"
          BY <4>2 DEF PresenceNow
        <4>. QED
          BY <3>2, <4>1, <4>3 DEF PresenceAfter
      <3>5. /\ frame[q] >= 1 /\ Len(executed[q]) = frame[q] - 1
            /\ lastExecutionFrame[q] <= frame[q] + MaxRunAhead
            /\ localStatus[q] = "INGAME" =>
                 /\ lastFrame[q] < lastExecutionFrame[q]
                 /\ lastFrame[q] <= lastFrameCompleted[q]
        BY <1>0, <3>1 DEF CountersInv
      <3>6. /\ frame[q] \in Nat /\ lastExecutionFrame[q] \in Nat
            /\ frame'[q] = frame[q] + 1 /\ lastFrame'[q] = frame[q]
            /\ lastExecutionFrame'[q] = lastExecutionFrame[q]
            /\ lastFrameCompleted'[q] = lastFrameCompleted[q]
            /\ localStatus'[q] \in {"INGAME", "LEAVING", "LEFT"}
            /\ localStatus'[q] = "INGAME" => localStatus[q] = "INGAME"
            /\ lastFrameCompleted[q] \in Nat /\ MaxRunAhead \in Nat
        BY <1>0, <2>1, <3>1, <3>2
      <3>7. Len(executed'[q]) = frame'[q] - 1
        BY <3>3, <3>5, <3>6
      <3>8. /\ lastExecutionFrame'[q] <= frame'[q] + MaxRunAhead
            /\ frame'[q] >= 1
            /\ localStatus'[q] = "INGAME" =>
                 /\ lastFrame'[q] < lastExecutionFrame'[q]
                 /\ lastFrame'[q] <= lastFrameCompleted'[q]
                 /\ frame'[q] <= lastFrame'[q] + 1
        BY <3>1, <3>5, <3>6
      <3>. QED
        BY <3>4, <3>6, <3>7, <3>8 DEF CountersInv
    <2>. QED
      BY <2>2, <2>3
  <1>4. ASSUME NEW p \in Players, Waiting(p)
        PROVE  CountersInv(q)'
    <2>1. UNCHANGED <<localStatus, runAhead, lastExecutionFrame,
                      lastFrameCompleted, presence, executed>>
      BY <1>4 DEF Waiting
    <2>2. \/ frame'[q] = frame[q] /\ lastFrame'[q] = lastFrame[q]
          \/ /\ localStatus[q] = "PREGAME" /\ frame[q] = 0
             /\ frame'[q] = 1 /\ lastFrame'[q] = lastFrame[q]
          \/ localStatus[q] # "INGAME" /\ frame'[q] = frame[q]
      BY <1>0, <1>4 DEF Waiting
    <2>3. CASE frame'[q] = frame[q] /\ lastFrame'[q] = lastFrame[q]
      BY <1>0, <2>1, <2>3 DEF CountersInv
    <2>4. CASE localStatus[q] = "PREGAME" /\ frame[q] = 0 /\ frame'[q] = 1
      BY <1>0, <2>1, <2>4 DEF CountersInv
    <2>5. CASE localStatus[q] # "INGAME" /\ frame'[q] = frame[q]
      BY <1>0, <2>1, <2>5 DEF CountersInv
    <2>. QED
      BY <2>2, <2>3, <2>4, <2>5
  <1>5. ASSUME NEW p \in Players, NEW r \in Players, Deliver(p, r)
        PROVE  CountersInv(q)'
    <2>1. UNCHANGED <<lastExecutionFrame, lastFrameCompleted>>
      BY <1>5, NothingIssued
    <2>. QED
      BY <1>0, <1>5, <2>1, OnlyFrameData DEF CountersInv
  <1>6. CASE UNCHANGED vars
    BY <1>0, <1>6 DEF vars, CountersInv
  <1>. QED
    BY <1>1, <1>2, <1>3, <1>4, <1>5, <1>6, Steps

-------------------------------------------------------------------------------
(* What players issue.                                                       *)

\* Players go on issuing up to the execution frame, and a leave last.
LEMMA IssuedNext ==
  ASSUME TypeOK, \A p \in Players : CountersInv(p),
         \A p \in Players : IssuedInv(p), IsFiniteSet(Commands), [Next]_vars,
         NEW q \in Players
  PROVE  IssuedInv(q)' /\ IsFiniteSet(Commands)'
  <1>0. /\ IssuedInv(q) /\ CountersInv(q)
        /\ frame \in [Players -> Nat]
        /\ localStatus \in [Players -> {"PREGAME", "INGAME", "LEAVING", "LEFT"}]
        /\ lastExecutionFrame \in [Players -> Nat]
        /\ MaxRunAhead \in Nat
    BY Lengths DEF TypeOK
  <1>1. ASSUME NEW p \in Players, NEW c \in Command, NEW fs, Issuing(p, c, fs)
        PROVE  IssuedInv(q)' /\ IsFiniteSet(Commands)'
    <2>1. /\ ExecutionFrame(p) \in Nat
          /\ ExecutionFrame(p) >= lastExecutionFrame[p]
          /\ ExecutionFrame(p) > frame[p]
          /\ ExecutionFrame(p) <= frame[p] + MaxRunAhead
      BY ExecutionFrameIsNear
    <2>2. Commands' = Commands \cup {c} /\ c.player = p
      BY <1>1, AfterIssuing DEF Issuing
    <2>3. IsFiniteSet(Commands)'
      BY <2>2, FS_AddElement
    <2>4. CASE p # q
      <3>1. CommandsBy(q)' = CommandsBy(q) /\ LeavesOf(q)' = LeavesOf(q)
        BY <2>2, <2>4 DEF CommandsBy, LeavesOf
      <3>2. /\ localStatus'[q] = localStatus[q] /\ frame'[q] = frame[q]
            /\ lastExecutionFrame'[q] = lastExecutionFrame[q]
        BY <1>0, <1>1, <2>4 DEF Issuing
      <3>. QED
        BY <1>0, <2>3, <3>1, <3>2 DEF IssuedInv
    <2>5. CASE p = q
      <3>1. CommandsBy(q)' = CommandsBy(q) \cup {c}
        BY <2>2, <2>5 DEF CommandsBy
      <3>2. /\ frame'[q] = frame[q]
            /\ lastExecutionFrame'[q] = ExecutionFrame(q)
            /\ localStatus[q] = "INGAME"
        BY <1>0, <1>1, <2>5 DEF Issuing
      <3>3. LeavesOf(q) = {}
        BY <1>0, <3>2 DEF IssuedInv
      <3>4. \A d \in CommandsBy(q) :
              1 <= d.frame /\ d.frame <= lastExecutionFrame[q] /\ d.frame \in Nat
        BY <1>0, <3>2, CommandsType DEF IssuedInv, CommandsBy
      <3>5. \A d \in CommandsBy(q) :
              1 <= d.frame /\ d.frame <= ExecutionFrame(q) /\ d.frame \in Nat
        BY <1>0, <2>1, <2>5, <3>4
      <3>6. CASE c.type = "PLAYERLEAVE"
        <4>1. c.frame = ExecutionFrame(q) + 1 /\ localStatus'[q] = "LEAVING"
          BY <1>0, <1>1, <2>5, <3>6 DEF Issuing
        <4>2. LeavesOf(q)' = {c}
          BY <3>1, <3>3, <3>6 DEF LeavesOf
        <4>3. \A d \in CommandsBy(q)' :
                /\ 1 <= d.frame /\ d.frame <= c.frame
                /\ d.frame <= frame[q] + MaxRunAhead + 1
          BY <1>0, <2>1, <2>5, <3>1, <3>5, <4>1
        <4>. QED
          BY <2>3, <3>2, <4>1, <4>2, <4>3 DEF IssuedInv
      <3>7. CASE c.type # "PLAYERLEAVE"
        <4>1. c.frame = ExecutionFrame(q) /\ localStatus'[q] = "INGAME"
          BY <1>0, <1>1, <2>5, <3>2, <3>7 DEF Issuing
        <4>2. LeavesOf(q)' = {}
          BY <3>1, <3>3, <3>7 DEF LeavesOf
        <4>3. \A d \in CommandsBy(q)' :
                /\ 1 <= d.frame /\ d.frame <= ExecutionFrame(q)
                /\ d.frame <= frame[q] + MaxRunAhead + 1
          BY <1>0, <2>1, <2>5, <3>1, <3>5, <4>1
        <4>. QED
          BY <2>3, <3>2, <4>1, <4>2, <4>3 DEF IssuedInv
      <3>. QED
        BY <3>6, <3>7
    <2>. QED
      BY <2>4, <2>5
  <1>2. ASSUME NEW p \in Players,
               Announcing(p) \/ RunFrame(p) \/ Waiting(p)
                 \/ (\E r \in Players : Deliver(p, r)) \/ UNCHANGED vars
        PROVE  IssuedInv(q)' /\ IsFiniteSet(Commands)'
    <2>1. Commands' = Commands
      BY <1>2, AfterAnnouncing, NothingIssued
    <2>2. CommandsBy(q)' = CommandsBy(q) /\ LeavesOf(q)' = LeavesOf(q)
      BY <2>1 DEF CommandsBy, LeavesOf
    <2>3. frame'[q] \in Nat /\ frame'[q] >= frame[q]
      BY <1>0, <1>2, OnlyFrameData DEF Announcing, RunFrame, Waiting, vars
    <2>4. /\ lastExecutionFrame'[q] \in Nat
          /\ lastExecutionFrame'[q] >= lastExecutionFrame[q]
      BY StatusStep
    <2>5. \/ localStatus'[q] = localStatus[q]
          \/ localStatus[q] # "PREGAME" /\ localStatus'[q] = "LEFT"
          \/ localStatus[q] = "PREGAME" /\ localStatus'[q] = "INGAME"
      BY <1>0, <1>2, OnlyFrameData DEF Announcing, RunFrame, Waiting, vars
    <2>6. \A d \in CommandsBy(q) : d.frame \in Nat
      BY CommandsType DEF CommandsBy
    <2>7. \A d \in CommandsBy(q) :
            /\ localStatus'[q] # "PREGAME"
            /\ 1 <= d.frame
            /\ d.frame <= frame'[q] + MaxRunAhead + 1
            /\ localStatus'[q] = "INGAME" => d.frame <= lastExecutionFrame'[q]
      BY <1>0, <2>3, <2>4, <2>5, <2>6 DEF IssuedInv
    <2>8. \A l \in LeavesOf(q) :
            /\ localStatus'[q] \in {"LEAVING", "LEFT"}
            /\ \A d \in CommandsBy(q) : d.frame <= l.frame
      BY <1>0, <2>5 DEF IssuedInv
    <2>9. localStatus'[q] = "LEAVING" => LeavesOf(q) # {}
      BY <1>0, <2>5 DEF IssuedInv
    <2>. QED
      BY <2>1, <2>2, <2>7, <2>8, <2>9 DEF IssuedInv
  <1>. QED
    BY <1>1, <1>2, Steps

-------------------------------------------------------------------------------
(* What the operations of a ring do to its slots.                            *)

\* The rings are rings after a step too.
LEMMA RingsNext ==
  ASSUME TypeOK, [Next]_vars
  PROVE  frameData' \in [Players -> [Players -> Rings(Command)]]
  BY TypeOKNext DEF TypeOK, Rings

\* A command of one's own goes into the slot of its frame.
LEMMA AddedLocally ==
  ASSUME NEW ring \in Rings(Command), NEW f \in Nat, NEW c,
         NEW after, after = AddLocal(ring, f, c)
  PROVE  \A i \in Indices :
           /\ i = Index(f) => after[i].commands = ring[i].commands \cup {c}
           /\ i # Index(f) => after[i].commands = ring[i].commands
  <1> SUFFICES ASSUME NEW i \in Indices
               PROVE  /\ i = Index(f) => after[i].commands = ring[i].commands \cup {c}
                      /\ i # Index(f) => after[i].commands = ring[i].commands
    OBVIOUS
  <1>1. Index(f) \in Indices
    BY IndexType
  <1>2. CASE i = Index(f)
    BY <1>1, <1>2 DEF AddLocal, AddRemote, AddCommand, Rings
  <1>3. CASE i # Index(f)
    BY <1>1, <1>3 DEF AddLocal, AddRemote, AddCommand, Rings
  <1>. QED
    BY <1>2, <1>3

\* So does a command received, and what was announced stays.
LEMMA AddedRemotely ==
  ASSUME NEW ring \in Rings(Command), NEW f \in Nat, NEW c,
         NEW after, after = AddRemote(ring, f, c)
  PROVE  \A i \in Indices :
           /\ i = Index(f) => after[i].commands = ring[i].commands \cup {c}
           /\ i # Index(f) => after[i].commands = ring[i].commands
           /\ after[i].announced = ring[i].announced
  <1> SUFFICES ASSUME NEW i \in Indices
               PROVE  /\ i = Index(f) => after[i].commands = ring[i].commands \cup {c}
                      /\ i # Index(f) => after[i].commands = ring[i].commands
                      /\ after[i].announced = ring[i].announced
    OBVIOUS
  <1>1. Index(f) \in Indices
    BY IndexType
  <1>2. CASE i = Index(f)
    BY <1>1, <1>2 DEF AddLocal, AddRemote, AddCommand, Rings
  <1>3. CASE i # Index(f)
    BY <1>1, <1>3 DEF AddLocal, AddRemote, AddCommand, Rings
  <1>. QED
    BY <1>2, <1>3

\* Announcing a frame changes the announced count of its slot only.
LEMMA AnnouncedInSlot ==
  ASSUME NEW ring \in Rings(Command), NEW f \in Nat, NEW count \in Nat,
         NEW after, after = Announce(ring, f, count)
  PROVE  \A i \in Indices :
           /\ after[i].commands = ring[i].commands
           /\ i = Index(f) => after[i].announced = count
           /\ i # Index(f) => after[i].announced = ring[i].announced
  <1>1. Index(f) \in Indices
    BY IndexType
  <1>2. \A i \in Indices : ring[i] \in FrameDatas(Command)
    BY DEF Rings
  <1>. QED
    BY <1>1, <1>2 DEF Announce, Rings, FrameDatas

\* Resetting a frame empties its slot and leaves the others alone: in the local
\* ring,
LEMMA ResetLocally ==
  ASSUME NEW ring \in Rings(Command), NEW f \in Nat,
         NEW after, after = ResetLocal(ring, f)
  PROVE  \A i \in Indices :
           /\ i # Index(f) => after[i] = ring[i]
           /\ i = Index(f) => after[i].commands = {}
  <1>1. Index(f) \in Indices
    BY IndexType
  <1>. QED
    BY <1>1 DEF ResetLocal, ResetRemote, ResetFrame, ResetData, Rings

\* and in the ring of another player, where nothing is announced any more.
LEMMA ResetRemotely ==
  ASSUME NEW ring \in Rings(Command), NEW f \in Nat,
         NEW after, after = ResetRemote(ring, f)
  PROVE  \A i \in Indices :
           /\ i # Index(f) => after[i] = ring[i]
           /\ i = Index(f) => after[i].commands = {}
           /\ i = Index(f) => after[i].announced = NotAnnounced
  <1>1. Index(f) \in Indices
    BY IndexType
  <1>. QED
    BY <1>1 DEF ResetLocal, ResetRemote, ResetFrame, ResetData, Rings

\* A ring with a command received is a ring.
LEMMA AddRemoteType ==
  ASSUME NEW ring \in Rings(Command), NEW f \in Nat, NEW c \in Command
  PROVE  AddRemote(ring, f, c) \in Rings(Command)
  BY AddCommandType DEF AddRemote

\* What a computer's rings are after it received something for frame f, and
\* perhaps cleared the frame: the local ring is what it was.
LEMMA RingsAfterReceiving ==
  ASSUME TypeOK, NEW p \in Players, NEW q \in Players, NEW f \in Nat,
         NEW data \in Rings(Command), Receive(p, q, f, data)
  PROVE  /\ p # q /\ localStatus[p] # "LEFT" /\ presence[p][q] # "gone"
         /\ f >= frame[p]
         /\ \A r \in Players : r # p => frameData'[r] = frameData[r]
         /\ frameData'[p][p] = frameData[p][p]
         /\ \A r \in Players \ {p, q} :
              \/ frameData'[p][r] = frameData[p][r]
              \/ frameData'[p][r] = ResetRemote(frameData[p][r], f)
         /\ \/ frameData'[p][q] = data
            \/ frameData'[p][q] = ResetRemote(data, f)
  <1> DEFINE given == [frameData[p] EXCEPT ![q] = data]
  <1>1. frameData \in [Players -> [Players -> Rings(Command)]]
    BY FrameDataType
  <1>2. /\ p # q /\ localStatus[p] # "LEFT" /\ presence[p][q] # "gone"
        /\ f >= frame[p]
        /\ frameData' = [frameData EXCEPT ![p] = AfterReadinessTest(p, given, f)]
    BY <1>1 DEF Receive, Accepts
  <1>3. \A r \in Players : given[r] = IF r = q THEN data ELSE frameData[p][r]
    BY <1>1
  <1>4. given \in [Players -> Rings(Command)]
    BY <1>1
  <1> HIDE DEF given
  <1>5. \/ AfterReadinessTest(p, given, f) = given
        \/ AfterReadinessTest(p, given, f) =
             [r \in Players |-> IF r = p THEN given[r]
                                ELSE ResetRemote(given[r], f)]
    BY DEF AfterReadinessTest, ResetRemote
  <1>6. /\ frameData'[p] = AfterReadinessTest(p, given, f)
        /\ \A r \in Players : r # p => frameData'[r] = frameData[r]
    BY <1>1, <1>2
  <1>7. /\ frameData'[p][p] = given[p]
        /\ \A r \in Players \ {p} : \/ frameData'[p][r] = given[r]
                                    \/ frameData'[p][r] = ResetRemote(given[r], f)
    BY <1>4, <1>5, <1>6
  <1>. QED
    BY <1>2, <1>3, <1>6, <1>7

\* What is delivered: a command or a frame info within reach.
LEMMA Delivery ==
  ASSUME TypeOK, ReachInv, NEW p \in Players, NEW q \in Players, Deliver(p, q)
  PROVE  \/ \E c \in CommandsBy(q) :
              /\ c \in Command /\ c.frame < frame[p] + FRAME_DATA_LENGTH
              /\ Receive(p, q, c.frame,
                         AddRemote(frameData[p][q], c.frame, c))
         \/ \E i \in FrameInfos :
              /\ i \in FrameInfo /\ i.player = q
              /\ i.frame < frame[p] + FRAME_DATA_LENGTH
              /\ Receive(p, q, i.frame,
                         Announce(frameData[p][q], i.frame, i.count))
  <1>1. ASSUME NEW m \in SentTo(p, q), localStatus[p] # "LEFT"
        PROVE  /\ m \in Messages /\ m.player = q
               /\ m.frame < frame[p] + FRAME_DATA_LENGTH
    <2>1. PICK s \in sent : p \in s.to /\ s.msg.player = q /\ m = s.msg
      BY DEF SentTo
    <2>. QED
      BY <1>1, <2>1 DEF ReachInv, Messages
  <1>2. localStatus[p] # "LEFT"
    BY DEF Deliver, ReceiveCommand, ReceiveFrameInfo, Receive
  <1>3. CASE ReceiveCommand(p, q)
    <2>1. PICK c \in SentTo(p, q) :
            /\ c.type # "FRAMEINFO"
            /\ Receive(p, q, c.frame,
                       AddRemote(frameData[p][q], c.frame, c))
      BY <1>3 DEF ReceiveCommand, AddRemote
    <2>2. c \in CommandsBy(q) /\ c.frame < frame[p] + FRAME_DATA_LENGTH
      BY <1>1, <1>2, <2>1 DEF CommandsBy, Commands
    <2>3. c \in Command
      BY <2>1, SentToType
    <2>. QED
      BY <2>1, <2>2, <2>3
  <1>4. CASE ReceiveFrameInfo(p, q)
    <2>1. PICK i \in SentTo(p, q) :
            /\ i.type = "FRAMEINFO"
            /\ Receive(p, q, i.frame,
                       Announce(frameData[p][q], i.frame, i.count))
      BY <1>4 DEF ReceiveFrameInfo
    <2>2. /\ i \in FrameInfos /\ i.player = q
          /\ i.frame < frame[p] + FRAME_DATA_LENGTH
      BY <1>1, <1>2, <2>1 DEF FrameInfos
    <2>3. i \in FrameInfo
      BY <2>1, SentToType
    <2>. QED
      BY <2>1, <2>2, <2>3
  <1>. QED
    BY <1>3, <1>4 DEF Deliver

\* What a computer's rings are after it ran a frame: those of the players it
\* still keeps have lost the oldest frame.
LEMMA RingsAfterRunning ==
  ASSUME TypeOK, NEW p \in Players, RunFrame(p)
  PROVE  /\ \A r \in Players : r # p => frameData'[r] = frameData[r]
         /\ \A q \in Players : presence'[p][q] # "gone" => presence[p][q] # "gone"
         /\ \/ frame[p] <= FRAMES_TO_KEEP /\ frameData'[p] = frameData[p]
            \/ /\ frame[p] > FRAMES_TO_KEEP
               /\ \A q \in Players : presence'[p][q] # "gone" /\ p # q =>
                    frameData'[p][q] = ResetRemote(frameData[p][q],
                                                   frame[p] - FRAMES_TO_KEEP)
               /\ \/ frameData'[p][p] =
                       ResetLocal(frameData[p][p], frame[p] - FRAMES_TO_KEEP)
                  \/ presence'[p][p] = "gone" /\ frameData'[p][p] = frameData[p][p]
  <1> DEFINE old == frame[p] - FRAMES_TO_KEEP
             leaving == LeavingIn(FrameCommandList(p))
  <1>1. /\ frameData' = [frameData EXCEPT ![p] = ForgetFrame(p)]
        /\ presence' = [presence EXCEPT ![p] = PresenceAfter(p, leaving)]
    BY DEF RunFrame
  <1>2. /\ frameData'[p] = ForgetFrame(p)
        /\ \A r \in Players : r # p => frameData'[r] = frameData[r]
        /\ presence'[p] = PresenceAfter(p, leaving)
    BY <1>1 DEF TypeOK
  <1>3. \A q \in Players :
          /\ presence'[p][q] # "gone" => PresenceNow(p)[q] # "gone"
          /\ PresenceNow(p)[q] # "gone" => presence[p][q] # "gone"
    BY <1>2 DEF PresenceAfter, PresenceNow
  <1>4. frame[p] \in Nat /\ FRAMES_TO_KEEP \in Nat
    BY Lengths DEF TypeOK
  <1>5. CASE frame[p] <= FRAMES_TO_KEEP
    BY <1>2, <1>3, <1>4, <1>5 DEF ForgetFrame
  <1>6. CASE frame[p] > FRAMES_TO_KEEP
    <2>1. \A q \in Players :
            ForgetFrame(p)[q] =
              IF PresenceNow(p)[q] = "gone" THEN frameData[p][q]
              ELSE ResetFrame(frameData[p][q], p = q, old)
      BY <1>4, <1>6 DEF ForgetFrame
    <2>2. \A q \in Players : p # q => (p = q) = FALSE
      OBVIOUS
    <2>3. (p = p) = TRUE
      OBVIOUS
    <2>4. ASSUME NEW q \in Players, presence'[p][q] # "gone", p # q
          PROVE  frameData'[p][q] = ResetRemote(frameData[p][q], old)
      BY <1>2, <1>3, <2>1, <2>2, <2>4 DEF ResetRemote
    <2>5. CASE PresenceNow(p)[p] = "gone"
      <3>1. presence'[p][p] = "gone"
        BY <1>3, <2>5
      <3>2. frameData'[p][p] = frameData[p][p]
        BY <1>2, <2>1, <2>5
      <3>. QED
        BY <1>2, <1>3, <1>6, <2>4, <3>1, <3>2
    <2>6. CASE PresenceNow(p)[p] # "gone"
      <3>1. frameData'[p][p] = ResetLocal(frameData[p][p], old)
        BY <1>2, <2>1, <2>3, <2>6 DEF ResetLocal
      <3>. QED
        BY <1>2, <1>3, <1>6, <2>4, <3>1
    <2>. QED
      BY <2>5, <2>6
  <1>. QED
    BY <1>4, <1>5, <1>6
-------------------------------------------------------------------------------
(* What the rings hold.                                                      *)

\* One's own commands stay in one's own ring until they are executed.
LEMMA OwnNext ==
  ASSUME TypeOK, AgreementInv, [Next]_vars, NEW q \in Players
  PROVE  OwnInv(q)'
  <1>0. /\ \A p \in Players : CountersInv(p) /\ IssuedInv(p)
        /\ OwnInv(q) /\ ReachInv
        /\ frame \in [Players -> Nat]
        /\ frameData \in [Players -> [Players -> Rings(Command)]]
        /\ frameData' \in [Players -> [Players -> Rings(Command)]]
    BY FrameDataType, RingsNext DEF AgreementInv, TypeOK
  <1>1. ASSUME Commands' = Commands, frame'[q] >= frame[q], frame'[q] \in Nat,
               frameData'[q][q] = frameData[q][q]
        PROVE  OwnInv(q)'
    <2>1. CommandsBy(q)' = CommandsBy(q)
      BY <1>1 DEF CommandsBy
    <2>2. \A c \in CommandsBy(q) : c.frame \in Nat
      BY CommandsType DEF CommandsBy
    <2>3. \A c \in CommandsBy(q) : frame'[q] <= c.frame => frame[q] <= c.frame
      BY <1>0, <1>1, <2>2
    <2>. QED
      BY <1>0, <1>1, <2>1, <2>3 DEF OwnInv
  <1>2. ASSUME NEW p \in Players, NEW c \in Command, NEW fs, Issuing(p, c, fs)
        PROVE  OwnInv(q)'
    <2>1. /\ Commands' = Commands \cup {c} /\ c.player = p
          /\ frame' = frame
          /\ frameData' = [frameData EXCEPT ![p][p] =
               AddLocal(frameData[p][p], c.frame, c)]
      BY <1>2, AfterIssuing DEF Issuing, Adds
    <2>2. CASE p # q
      <3>1. CommandsBy(q)' = CommandsBy(q) /\ frameData'[q] = frameData[q]
        BY <1>0, <2>1, <2>2 DEF CommandsBy
      <3>. QED
        BY <1>0, <2>1, <3>1 DEF OwnInv
    <2>3. CASE p = q
      <3>1. /\ frameData'[q][q] = AddLocal(frameData[q][q], c.frame, c)
            /\ frameData[q][q] \in Rings(Command)
        BY <1>0, <2>1, <2>3
      <3>2. CommandsBy(q)' = CommandsBy(q) \cup {c}
        BY <2>1, <2>3 DEF CommandsBy
      <3>3. \A d \in CommandsBy(q)' : Index(d.frame) \in Indices /\ c.frame \in Nat
        BY <3>2, IndexType, CommandsType DEF CommandsBy
      <3>4. \A i \in Indices :
              /\ i = Index(c.frame) =>
                   frameData'[q][q][i].commands = frameData[q][q][i].commands \cup {c}
              /\ i # Index(c.frame) =>
                   frameData'[q][q][i].commands = frameData[q][q][i].commands
        BY <3>1, <3>3, CommandsType, AddedLocally
      <3>. QED
        BY <1>0, <2>1, <3>2, <3>3, <3>4 DEF OwnInv
    <2>. QED
      BY <2>2, <2>3
  <1>3. ASSUME NEW p \in Players, Announcing(p)
        PROVE  OwnInv(q)'
    <2>1. Commands' = Commands
      BY <1>3, AfterAnnouncing
    <2>2. frame' = frame /\ frameData' = frameData
      BY <1>3 DEF Announcing
    <2>3. frame'[q] >= frame[q] /\ frame'[q] \in Nat
      BY <1>0, <2>2
    <2>. QED
      BY <1>1, <2>1, <2>2, <2>3
  <1>4. ASSUME NEW p \in Players, RunFrame(p)
        PROVE  OwnInv(q)'
    <2>1. Commands' = Commands /\ frame' = [frame EXCEPT ![p] = frame[p] + 1]
      BY <1>0, <1>4, NothingIssued DEF RunFrame
    <2>2. CASE frameData'[q][q] = frameData[q][q]
      BY <1>0, <1>1, <2>1, <2>2
    <2>3. CASE frameData'[q][q] # frameData[q][q]
      <3> DEFINE old == frame[q] - FRAMES_TO_KEEP
      <3>1. /\ p = q /\ frame[q] > FRAMES_TO_KEEP
            /\ frameData'[q][q] = ResetLocal(frameData[q][q], old)
            /\ frameData[q][q] \in Rings(Command)
        <4>1. CASE p # q
          BY <1>0, <1>4, <2>3, <4>1, RingsAfterRunning
        <4>2. CASE p = q
          BY <1>0, <1>4, <2>3, <4>2, RingsAfterRunning
        <4>. QED
          BY <4>1, <4>2
      <3>2. /\ old \in Nat /\ frame'[q] = frame[q] + 1
            /\ frame[q] \in Nat /\ old < frame[q]
        BY <1>0, <2>1, <3>1, Lengths
      <3>3. ASSUME NEW c \in CommandsBy(q), frame'[q] <= c.frame
            PROVE  /\ c.frame \in Nat /\ Index(c.frame) \in Indices
                   /\ c \in frameData[q][q][Index(c.frame)].commands
                   /\ Index(c.frame) # Index(old)
        <4>1. c.frame \in Nat /\ Index(c.frame) \in Indices
          BY CommandsType, IndexType DEF CommandsBy
        <4>2. c.frame <= frame[q] + MaxRunAhead + 1
          BY <1>0 DEF IssuedInv
        <4>3. c.frame > old /\ c.frame - old < FRAME_DATA_LENGTH
          BY <3>2, <3>3, <4>1, <4>2, Lengths
        <4>4. old - c.frame < FRAME_DATA_LENGTH
          BY <3>2, <4>1, <4>3, Lengths
        <4> HIDE DEF old
        <4>5. Index(c.frame) # Index(old)
          BY <3>2, <4>1, <4>3, <4>4, SlotsApart
        <4>. QED
          BY <1>0, <3>2, <3>3, <4>1, <4>5 DEF OwnInv
      <3>4. \A i \in Indices : i # Index(old) =>
              frameData'[q][q][i] = frameData[q][q][i]
        <4> HIDE DEF old
        <4>. QED
          BY <3>1, <3>2, ResetLocally
      <3>5. CommandsBy(q)' = CommandsBy(q)
        BY <2>1 DEF CommandsBy
      <3> HIDE DEF old
      <3>. QED
        BY <3>3, <3>4, <3>5 DEF OwnInv
    <2>. QED
      BY <2>2, <2>3
  <1>5. ASSUME NEW p \in Players, NEW r \in Players, Deliver(p, r)
        PROVE  OwnInv(q)'
    <2>1. Commands' = Commands /\ frame' = frame
      BY <1>5, NothingIssued, OnlyFrameData
    <2>2. frameData'[q][q] = frameData[q][q]
      <3>1. \A c \in Command :
              AddRemote(frameData[p][r], c.frame, c) \in Rings(Command)
        BY <1>0, CommandsType, AddRemoteType
      <3>2. \A i \in FrameInfo :
              Announce(frameData[p][r], i.frame, i.count) \in Rings(Command)
        BY <1>0, CommandsType, AnnounceType
      <3>3. \E f \in Nat, data \in Rings(Command) : Receive(p, r, f, data)
        BY <1>0, <1>5, <3>1, <3>2, CommandsType, Delivery
      <3>. QED
        BY <3>3, RingsAfterReceiving
    <2>. QED
      BY <1>0, <1>1, <2>1, <2>2
  <1>6. ASSUME NEW p \in Players, Waiting(p)
        PROVE  OwnInv(q)'
    BY <1>0, <1>1, <1>6, NothingIssued DEF Waiting
  <1>7. CASE UNCHANGED vars
    BY <1>0, <1>1, <1>7, NothingIssued DEF vars
  <1>. QED
    BY <1>0, <1>2, <1>3, <1>4, <1>5, <1>6, <1>7, Steps

\* The frames of a slot's commands stay within reach.
LEMMA HeldNext ==
  ASSUME TypeOK, AgreementInv, [Next]_vars, NEW p \in Players, NEW q \in Players
  PROVE  HeldInv(p, q)'
  <1>0. /\ \A r \in Players : CountersInv(r) /\ IssuedInv(r)
        /\ HeldInv(p, q) /\ ReachInv
        /\ frame \in [Players -> Nat]
        /\ frameData \in [Players -> [Players -> Rings(Command)]]
        /\ frameData' \in [Players -> [Players -> Rings(Command)]]
    BY FrameDataType, RingsNext DEF AgreementInv, TypeOK
  <1>a. CommandsBy(q) \subseteq CommandsBy(q)'
    BY <1>0, CommandsStay DEF CommandsBy
  <1>1. ASSUME frame'[p] = frame[p], presence'[p] = presence[p],
               \A i \in Indices :
                 frameData'[p][q][i].commands \subseteq frameData[p][q][i].commands
        PROVE  HeldInv(p, q)'
    BY <1>0, <1>a, <1>1 DEF HeldInv, Within
  <1>2. ASSUME NEW r \in Players, NEW c \in Command, NEW fs, Issuing(r, c, fs)
        PROVE  HeldInv(p, q)'
    <2>1. /\ Commands' = Commands \cup {c} /\ c.player = r
          /\ frame' = frame /\ presence' = presence
          /\ frameData' = [frameData EXCEPT ![r][r] =
               AddLocal(frameData[r][r], c.frame, c)]
      BY <1>2, AfterIssuing DEF Issuing, Adds
    <2>2. CASE p # r \/ q # r
      <3>1. frameData'[p][q] = frameData[p][q]
        BY <1>0, <2>1, <2>2
      <3>. QED
        BY <1>1, <2>1, <3>1
    <2>3. CASE p = r /\ q = r
      <3>1. /\ frameData'[p][p] = AddLocal(frameData[p][p], c.frame, c)
            /\ frameData[p][p] \in Rings(Command)
        BY <1>0, <2>1, <2>3
      <3>2. \A i \in Indices :
              /\ i = Index(c.frame) =>
                   frameData'[p][p][i].commands = frameData[p][p][i].commands \cup {c}
              /\ i # Index(c.frame) =>
                   frameData'[p][p][i].commands = frameData[p][p][i].commands
        BY <3>1, CommandsType, AddedLocally
      <3>3. c \in CommandsBy(p)'
        BY <2>1, <2>3 DEF CommandsBy
      <3>4. Within(p, c.frame)'
        <4>1. /\ ExecutionFrame(p) \in Nat /\ ExecutionFrame(p) > frame[p]
              /\ ExecutionFrame(p) <= frame[p] + MaxRunAhead
          BY <1>0, ExecutionFrameIsNear
        <4>2. c.frame \in {ExecutionFrame(p), ExecutionFrame(p) + 1}
          BY <1>2, <2>3 DEF Issuing
        <4>3. frame'[p] = frame[p] /\ frame[p] \in Nat
          BY <1>0, <2>1
        <4>. QED
          BY <4>1, <4>2, <4>3, Lengths DEF Within
      <3>5. frame'[p] = frame[p] /\ presence'[p] = presence[p]
        BY <2>1
      <3>. QED
        BY <1>0, <1>a, <2>3, <3>2, <3>3, <3>4, <3>5 DEF HeldInv, Within
    <2>. QED
      BY <2>2, <2>3
  <1>3. ASSUME NEW r \in Players, Announcing(r)
        PROVE  HeldInv(p, q)'
    BY <1>1, <1>3 DEF Announcing
  <1>4. ASSUME NEW r \in Players, RunFrame(r)
        PROVE  HeldInv(p, q)'
    <2>1. /\ frame' = [frame EXCEPT ![r] = frame[r] + 1]
          /\ \A t \in Players : t # r => presence'[t] = presence[t]
      BY <1>0, <1>4 DEF RunFrame, TypeOK
    <2>2. CASE p # r
      <3>1. frameData'[p] = frameData[p]
        BY <1>4, <2>2, RingsAfterRunning
      <3>. QED
        BY <1>0, <1>1, <2>1, <2>2, <3>1
    <2>3. CASE p = r
      <3> SUFFICES ASSUME presence'[p][q] # "gone", NEW i \in Indices,
                          NEW c \in frameData'[p][q][i].commands
                   PROVE  /\ c \in CommandsBy(q)' /\ Index(c.frame) = i
                          /\ Within(p, c.frame)'
        BY DEF HeldInv
      <3> DEFINE old == frame[p] - FRAMES_TO_KEEP
      <3>1. presence[p][q] # "gone"
        BY <1>4, <2>3, RingsAfterRunning
      <3>2. frameData[p][q] \in Rings(Command)
        BY <1>0
      <3>3. frame[p] > FRAMES_TO_KEEP => old \in Nat
        BY <1>0, Lengths
      <3>4. /\ c \in frameData[p][q][i].commands
            /\ frame[p] > FRAMES_TO_KEEP => i # Index(old)
        <4>1. CASE frame[p] <= FRAMES_TO_KEEP
          <5>1. frameData'[p][q] = frameData[p][q]
            BY <1>0, <1>4, <2>3, <4>1, Lengths, RingsAfterRunning
          <5>. QED
            BY <1>0, <4>1, <5>1, Lengths
        <4>2. CASE frame[p] > FRAMES_TO_KEEP
          <5>1. \/ frameData'[p][q] = ResetRemote(frameData[p][q], old)
                \/ frameData'[p][q] = ResetLocal(frameData[p][q], old)
            <6>1. CASE p = q
              BY <1>0, <1>4, <2>3, <4>2, <6>1, Lengths, RingsAfterRunning
            <6>2. CASE p # q
              BY <1>0, <1>4, <2>3, <4>2, <6>2, Lengths, RingsAfterRunning
            <6>. QED
              BY <6>1, <6>2
          <5> HIDE DEF old
          <5>2. i # Index(old) /\ frameData'[p][q][i] = frameData[p][q][i]
            BY <3>2, <3>3, <4>2, <5>1, ResetLocally, ResetRemotely
          <5>. QED
            BY <5>2
        <4>. QED
          BY <1>0, <4>1, <4>2, Lengths
      <3>5. c \in CommandsBy(q) /\ Index(c.frame) = i /\ Within(p, c.frame)
        BY <1>0, <3>1, <3>4 DEF HeldInv
      <3>6. c.frame \in Nat /\ c.frame >= 1
        BY <1>0, <3>5, CommandsType DEF IssuedInv, CommandsBy
      <3>7. frame[p] > FRAMES_TO_KEEP => c.frame # old
        BY <3>4, <3>5
      <3>8. frame'[p] = frame[p] + 1 /\ frame[p] \in Nat
        BY <1>0, <2>1, <2>3
      <3>9. Within(p, c.frame)'
        BY <3>5, <3>6, <3>7, <3>8, Lengths DEF Within
      <3>. QED
        BY <1>a, <3>5, <3>9
    <2>. QED
      BY <2>2, <2>3
  <1>5. ASSUME NEW r \in Players, NEW t \in Players, Deliver(r, t)
        PROVE  HeldInv(p, q)'
    <2>1. frame' = frame /\ presence' = presence
      BY <1>5, OnlyFrameData
    <2>2. ASSUME NEW f \in Nat, NEW data \in Rings(Command),
                 Receive(r, t, f, data),
                 \A i \in Indices : \A c \in data[i].commands :
                   \/ c \in frameData[r][t][i].commands
                   \/ c \in CommandsBy(t) /\ Index(c.frame) = i /\ Within(r, c.frame)
          PROVE  HeldInv(p, q)'
      <3>1. CASE p # r \/ p = q
        <4>1. frameData'[p][q] = frameData[p][q]
          BY <2>2, <3>1, RingsAfterReceiving
        <4>. QED
          BY <1>1, <2>1, <4>1
      <3>2. CASE p = r /\ p # q
        <4> DEFINE given == IF q = t THEN data ELSE frameData[p][q]
        <4>1. \/ frameData'[p][q] = given
              \/ frameData'[p][q] = ResetRemote(given, f)
          <5>1. CASE q = t
            BY <2>2, <3>2, <5>1, RingsAfterReceiving
          <5>2. CASE q # t
            BY <2>2, <3>2, <5>2, RingsAfterReceiving
          <5>. QED
            BY <5>1, <5>2
        <4>2. given \in Rings(Command)
          BY <1>0, <2>2
        <4>3. \A i \in Indices : \A c \in given[i].commands :
                \/ c \in frameData[p][q][i].commands
                \/ c \in CommandsBy(q) /\ Index(c.frame) = i /\ Within(p, c.frame)
          BY <2>2, <3>2
        <4> HIDE DEF given
        <4>4. \A i \in Indices : frameData'[p][q][i].commands \subseteq given[i].commands
          <5>1. CASE frameData'[p][q] = given
            BY <5>1
          <5>2. CASE frameData'[p][q] = ResetRemote(given, f)
            BY <2>2, <4>2, <5>2, ResetRemotely
          <5>. QED
            BY <4>1, <5>1, <5>2
        <4>5. \A i \in Indices : \A c \in frameData'[p][q][i].commands :
                presence[p][q] # "gone" =>
                  c \in CommandsBy(q) /\ Index(c.frame) = i /\ Within(p, c.frame)
          BY <1>0, <4>3, <4>4 DEF HeldInv
        <4>. QED
          BY <1>a, <2>1, <4>5 DEF HeldInv, Within
      <3>. QED
        BY <3>1, <3>2
    <2>3. CASE \E c \in CommandsBy(t) :
                 /\ c \in Command /\ c.frame < frame[r] + FRAME_DATA_LENGTH
                 /\ Receive(r, t, c.frame,
                            AddRemote(frameData[r][t], c.frame, c))
      <3> PICK c \in CommandsBy(t) :
                 /\ c \in Command /\ c.frame < frame[r] + FRAME_DATA_LENGTH
                 /\ Receive(r, t, c.frame,
                            AddRemote(frameData[r][t], c.frame, c))
        BY <2>3
      <3> DEFINE data == AddRemote(frameData[r][t], c.frame, c)
      <3>1. c.frame \in Nat /\ frameData[r][t] \in Rings(Command)
        BY <1>0, CommandsType
      <3>2. data \in Rings(Command)
        BY <3>1, AddRemoteType
      <3>3. \A i \in Indices : \A d \in data[i].commands :
              d \in frameData[r][t][i].commands \/ (d = c /\ i = Index(c.frame))
        BY <3>1, AddedRemotely
      <3>4. Receive(r, t, c.frame, data)
        OBVIOUS
      <3> HIDE DEF data
      <3>5. Within(r, c.frame)
        <4>1. c.frame >= frame[r]
          BY <3>1, <3>2, <3>4, RingsAfterReceiving
        <4>. QED
          BY <1>0, <3>1, <4>1, Lengths DEF Within
      <3>. QED
        BY <2>2, <3>1, <3>2, <3>3, <3>4, <3>5
    <2>4. CASE \E i \in FrameInfos :
                 /\ i \in FrameInfo /\ i.player = t
                 /\ i.frame < frame[r] + FRAME_DATA_LENGTH
                 /\ Receive(r, t, i.frame,
                            Announce(frameData[r][t], i.frame, i.count))
      <3> PICK i \in FrameInfos :
                 /\ i \in FrameInfo
                 /\ Receive(r, t, i.frame,
                            Announce(frameData[r][t], i.frame, i.count))
        BY <2>4
      <3> DEFINE data == Announce(frameData[r][t], i.frame, i.count)
      <3>1. i.frame \in Nat /\ i.count \in Nat /\ frameData[r][t] \in Rings(Command)
        BY <1>0, CommandsType
      <3>2. data \in Rings(Command)
        BY <3>1, AnnounceType
      <3>3. \A j \in Indices : data[j].commands = frameData[r][t][j].commands
        BY <3>1, AnnouncedInSlot
      <3>4. Receive(r, t, i.frame, data)
        OBVIOUS
      <3> HIDE DEF data
      <3>. QED
        BY <2>2, <3>1, <3>2, <3>3, <3>4
    <2>. QED
      BY <1>0, <1>5, <2>3, <2>4, Delivery
  <1>6. ASSUME NEW r \in Players, Waiting(r)
        PROVE  HeldInv(p, q)'
    <2>1. CASE frame'[p] = frame[p]
      BY <1>1, <1>6, <2>1 DEF Waiting
    <2>2. CASE frame'[p] # frame[p]
      <3>1. frame'[p] = 1 /\ frame[p] = 0
        BY <1>0, <1>6, <2>2 DEF Waiting
      <3>2. presence' = presence /\ frameData' = frameData
        BY <1>6 DEF Waiting
      <3>3. \A c \in CommandsBy(q) :
              Within(p, c.frame) => Within(p, c.frame)'
        BY <3>1, CommandsType, Lengths DEF Within, CommandsBy
      <3>. QED
        BY <1>0, <1>a, <3>2, <3>3 DEF HeldInv
    <2>. QED
      BY <2>1, <2>2
  <1>7. CASE UNCHANGED vars
    BY <1>1, <1>7 DEF vars
  <1>. QED
    BY <1>0, <1>2, <1>3, <1>4, <1>5, <1>6, <1>7, Steps


-------------------------------------------------------------------------------
(* What was announced.                                                       *)

\* A frame is announced when it is closed.
LEMMA AnnouncedIsClosed ==
  ASSUME TypeOK, CountsInv, NEW i \in FrameInfos
  PROVE  Closed(i.player, i.frame)
  <1> DEFINE q == i.player
  <1>1. q \in Players /\ i.frame \in Nat
    BY CommandsType
  <1>2. AnnouncementsBehind(q) /\ CompletedBehind(q)
    BY <1>1 DEF CountsInv
  <1>3. lastFrameCompleted[q] \in Nat /\ lastExecutionFrame[q] \in Nat
    BY <1>1 DEF TypeOK
  <1>4. localStatus[q] \in {"PREGAME", "INGAME", "LEAVING", "LEFT"}
    BY <1>1 DEF TypeOK
  <1>. QED
    BY <1>1, <1>2, <1>3, <1>4 DEF AnnouncementsBehind, CompletedBehind, Closed

\* The announced count of a slot stays that of a frame within reach.
LEMMA CountNext ==
  ASSUME TypeOK, CountsInv, AgreementInv, [Next]_vars,
         NEW p \in Players, NEW q \in Players
  PROVE  CountInv(p, q)'
  <1>0. /\ \A r \in Players : CountersInv(r)
        /\ CountInv(p, q) /\ ReachInv /\ AnnouncedInv
        /\ frame \in [Players -> Nat]
        /\ frameData \in [Players -> [Players -> Rings(Command)]]
        /\ frameData' \in [Players -> [Players -> Rings(Command)]]
    BY FrameDataType, RingsNext DEF AgreementInv, TypeOK
  <1> SUFFICES ASSUME p # q, presence'[p][q] # "gone", NEW i \in Indices,
                      frameData'[p][q][i].announced # NotAnnounced
               PROVE  \E f \in Nat \ {0} :
                        /\ Index(f) = i /\ Within(p, f)' /\ Closed(q, f)'
                        /\ frameData'[p][q][i].announced =
                             Cardinality(IssuedBy(q, f)')
    BY DEF CountInv
  <1>1. ASSUME presence[p][q] # "gone",
               frameData'[p][q][i].announced = frameData[p][q][i].announced,
               \A f \in Nat \ {0} : Index(f) = i /\ Within(p, f) => Within(p, f)'
        PROVE  \E f \in Nat \ {0} :
                 /\ Index(f) = i /\ Within(p, f)' /\ Closed(q, f)'
                 /\ frameData'[p][q][i].announced =
                      Cardinality(IssuedBy(q, f)')
    <2>1. PICK f \in Nat \ {0} :
            /\ Index(f) = i /\ Within(p, f) /\ Closed(q, f)
            /\ frameData[p][q][i].announced = Cardinality(IssuedBy(q, f))
      BY <1>0, <1>1 DEF CountInv
    <2>2. Closed(q, f)' /\ IssuedBy(q, f)' = IssuedBy(q, f)
      BY <1>0, <2>1, ClosedStays, IssuedStays
    <2>. QED
      BY <1>1, <2>1, <2>2
  <1>2. ASSUME frame'[p] = frame[p]
        PROVE  \A f \in Nat \ {0} : Within(p, f) => Within(p, f)'
    BY <1>2 DEF Within
  <1>3. ASSUME NEW r \in Players, NEW c \in Command, NEW fs, Issuing(r, c, fs)
        PROVE  \E f \in Nat \ {0} :
                 /\ Index(f) = i /\ Within(p, f)' /\ Closed(q, f)'
                 /\ frameData'[p][q][i].announced =
                      Cardinality(IssuedBy(q, f)')
    <2>1. /\ frame' = frame /\ presence' = presence
          /\ frameData' = [frameData EXCEPT ![r][r] =
               AddLocal(frameData[r][r], c.frame, c)]
      BY <1>3 DEF Issuing, Adds
    <2>2. frameData'[p][q] = frameData[p][q]
      BY <1>0, <2>1
    <2>. QED
      BY <1>1, <1>2, <2>1, <2>2
  <1>4. ASSUME NEW r \in Players, Announcing(r)
        PROVE  \E f \in Nat \ {0} :
                 /\ Index(f) = i /\ Within(p, f)' /\ Closed(q, f)'
                 /\ frameData'[p][q][i].announced =
                      Cardinality(IssuedBy(q, f)')
    BY <1>1, <1>2, <1>4 DEF Announcing
  <1>5. ASSUME NEW r \in Players, RunFrame(r)
        PROVE  \E f \in Nat \ {0} :
                 /\ Index(f) = i /\ Within(p, f)' /\ Closed(q, f)'
                 /\ frameData'[p][q][i].announced =
                      Cardinality(IssuedBy(q, f)')
    <2>1. /\ frame' = [frame EXCEPT ![r] = frame[r] + 1]
          /\ \A t \in Players : t # r => presence'[t] = presence[t]
      BY <1>0, <1>5 DEF RunFrame, TypeOK
    <2>2. CASE p # r
      <3>1. frameData'[p] = frameData[p]
        BY <1>5, <2>2, RingsAfterRunning
      <3>2. frame'[p] = frame[p] /\ presence'[p] = presence[p]
        BY <1>0, <2>1, <2>2
      <3>. QED
        BY <1>1, <1>2, <3>1, <3>2
    <2>3. CASE p = r
      <3> DEFINE old == frame[p] - FRAMES_TO_KEEP
      <3>1. presence[p][q] # "gone"
        BY <1>5, <2>3, RingsAfterRunning
      <3>2. frame'[p] = frame[p] + 1 /\ frame[p] \in Nat
        BY <1>0, <2>1, <2>3
      <3>3. CASE frame[p] <= FRAMES_TO_KEEP
        <4>1. frameData'[p][q] = frameData[p][q]
          BY <1>5, <2>3, <3>2, <3>3, Lengths, RingsAfterRunning
        <4>2. \A f \in Nat \ {0} : Within(p, f) => Within(p, f)'
          BY <3>2, <3>3, Lengths DEF Within
        <4>. QED
          BY <1>1, <3>1, <4>1, <4>2
      <3>4. CASE frame[p] > FRAMES_TO_KEEP
        <4>1. frameData'[p][q] = ResetRemote(frameData[p][q], old)
          BY <1>5, <2>3, <3>2, <3>4, Lengths, RingsAfterRunning
        <4>2. frameData[p][q] \in Rings(Command)
          BY <1>0
        <4>3. old \in Nat
          BY <3>2, <3>4, Lengths
        <4>4. i # Index(old) /\ frameData'[p][q][i] = frameData[p][q][i]
          <5> HIDE DEF old
          <5>. QED
            BY <1>0, <4>1, <4>2, <4>3, ResetRemotely
        <4>5. \A f \in Nat \ {0} : Index(f) = i /\ Within(p, f) => Within(p, f)'
          <5>1. \A f \in Nat \ {0} : Index(f) = i => f # old
            BY <4>4
          <5>. QED
            BY <3>2, <4>3, <5>1, Lengths DEF Within
        <4>. QED
          BY <1>1, <3>1, <4>4, <4>5
      <3>. QED
        BY <3>2, <3>3, <3>4, Lengths
    <2>. QED
      BY <2>2, <2>3
  <1>6. ASSUME NEW r \in Players, NEW t \in Players, Deliver(r, t)
        PROVE  \E f \in Nat \ {0} :
                 /\ Index(f) = i /\ Within(p, f)' /\ Closed(q, f)'
                 /\ frameData'[p][q][i].announced =
                      Cardinality(IssuedBy(q, f)')
    <2>1. frame' = frame /\ presence' = presence
      BY <1>6, OnlyFrameData
    <2>2. ASSUME frameData'[p][q][i].announced = frameData[p][q][i].announced
          PROVE  \E f \in Nat \ {0} :
                   /\ Index(f) = i /\ Within(p, f)' /\ Closed(q, f)'
                   /\ frameData'[p][q][i].announced =
                        Cardinality(IssuedBy(q, f)')
      BY <1>1, <1>2, <2>1, <2>2
    <2>3. ASSUME NEW f \in Nat, NEW data \in Rings(Command),
                 Receive(r, t, f, data)
          PROVE  \/ frameData'[p][q][i].announced = frameData[p][q][i].announced
                 \/ /\ p = r /\ q = t
                    /\ frameData'[p][q][i].announced = data[i].announced
      <3>1. CASE p # r
        BY <2>3, <3>1, RingsAfterReceiving
      <3>2. CASE p = r /\ q # t
        <4>1. \/ frameData'[p][q] = frameData[p][q]
              \/ frameData'[p][q] = ResetRemote(frameData[p][q], f)
          BY <2>3, <3>2, RingsAfterReceiving
        <4>2. frameData[p][q] \in Rings(Command)
          BY <1>0
        <4>. QED
          BY <1>0, <2>3, <4>1, <4>2, ResetRemotely
      <3>3. CASE p = r /\ q = t
        <4>1. \/ frameData'[p][q] = data
              \/ frameData'[p][q] = ResetRemote(data, f)
          BY <2>3, <3>3, RingsAfterReceiving
        <4>. QED
          BY <1>0, <2>3, <3>3, <4>1, ResetRemotely
      <3>. QED
        BY <3>1, <3>2, <3>3
    <2>4. CASE \E c \in CommandsBy(t) :
                 /\ c \in Command /\ c.frame < frame[r] + FRAME_DATA_LENGTH
                 /\ Receive(r, t, c.frame,
                            AddRemote(frameData[r][t], c.frame, c))
      <3> PICK c \in CommandsBy(t) :
                 /\ c \in Command
                 /\ Receive(r, t, c.frame,
                            AddRemote(frameData[r][t], c.frame, c))
        BY <2>4
      <3> DEFINE data == AddRemote(frameData[r][t], c.frame, c)
      <3>1. c.frame \in Nat /\ frameData[r][t] \in Rings(Command)
        BY <1>0, CommandsType
      <3>2. data \in Rings(Command)
        BY <3>1, AddRemoteType
      <3>3. data[i].announced = frameData[r][t][i].announced
        BY <3>1, AddedRemotely
      <3>4. Receive(r, t, c.frame, data)
        OBVIOUS
      <3> HIDE DEF data
      <3>5. frameData'[p][q][i].announced = frameData[p][q][i].announced
        BY <1>0, <2>3, <3>1, <3>2, <3>3, <3>4
      <3>. QED
        BY <2>2, <3>5
    <2>5. CASE \E j \in FrameInfos :
                 /\ j \in FrameInfo /\ j.player = t
                 /\ j.frame < frame[r] + FRAME_DATA_LENGTH
                 /\ Receive(r, t, j.frame,
                            Announce(frameData[r][t], j.frame, j.count))
      <3> PICK j \in FrameInfos :
                 /\ j \in FrameInfo /\ j.player = t
                 /\ j.frame < frame[r] + FRAME_DATA_LENGTH
                 /\ Receive(r, t, j.frame,
                            Announce(frameData[r][t], j.frame, j.count))
        BY <2>5
      <3> DEFINE data == Announce(frameData[r][t], j.frame, j.count)
      <3>1. j.frame \in Nat /\ j.count \in Nat /\ frameData[r][t] \in Rings(Command)
        BY <1>0, CommandsType
      <3>2. data \in Rings(Command)
        BY <3>1, AnnounceType
      <3>3. /\ i = Index(j.frame) => data[i].announced = j.count
            /\ i # Index(j.frame) => data[i].announced = frameData[r][t][i].announced
        BY <3>1, AnnouncedInSlot
      <3>4. Receive(r, t, j.frame, data)
        OBVIOUS
      <3> HIDE DEF data
      <3>5. \/ frameData'[p][q][i].announced = frameData[p][q][i].announced
            \/ /\ p = r /\ q = t /\ i = Index(j.frame)
               /\ frameData'[p][q][i].announced = j.count
        BY <1>0, <2>3, <3>1, <3>2, <3>3, <3>4
      <3>6. CASE /\ p = r /\ q = t /\ i = Index(j.frame)
                 /\ frameData'[p][q][i].announced = j.count
        <4>1. j.frame >= frame[p]
          BY <3>1, <3>2, <3>4, <3>6, RingsAfterReceiving
        <4>2. /\ 1 <= j.frame
              /\ j.count = Cardinality(IssuedBy(q, j.frame))
          BY <1>0, <3>6 DEF AnnouncedInv
        <4>3. Closed(q, j.frame)
          BY <3>6, AnnouncedIsClosed
        <4>4. Closed(q, j.frame)' /\ IssuedBy(q, j.frame)' = IssuedBy(q, j.frame)
          BY <1>0, <3>1, <4>3, ClosedStays, IssuedStays
        <4>5. Within(p, j.frame)'
          BY <1>0, <2>1, <3>1, <3>6, <4>1, Lengths DEF Within
        <4>6. j.frame \in Nat \ {0}
          BY <3>1, <4>2
        <4>. QED
          BY <3>6, <4>2, <4>4, <4>5, <4>6
      <3>. QED
        BY <2>2, <3>5, <3>6
    <2>. QED
      BY <1>0, <1>6, <2>4, <2>5, Delivery
  <1>7. ASSUME NEW r \in Players, Waiting(r)
        PROVE  \E f \in Nat \ {0} :
                 /\ Index(f) = i /\ Within(p, f)' /\ Closed(q, f)'
                 /\ frameData'[p][q][i].announced =
                      Cardinality(IssuedBy(q, f)')
    <2>1. presence' = presence /\ frameData' = frameData
      BY <1>7 DEF Waiting
    <2>2. frame'[p] = frame[p] \/ (frame'[p] = 1 /\ frame[p] = 0)
      BY <1>0, <1>7 DEF Waiting
    <2>3. \A f \in Nat \ {0} : Within(p, f) => Within(p, f)'
      BY <1>0, <2>2, Lengths DEF Within
    <2>. QED
      BY <1>1, <2>1, <2>3
  <1>8. CASE UNCHANGED vars
    BY <1>1, <1>2, <1>8 DEF vars
  <1>. QED
    BY <1>0, <1>3, <1>4, <1>5, <1>6, <1>7, <1>8, Steps

\* What a player counts for a frame he announces is what he issued for it.
LEMMA OwnCount ==
  ASSUME TypeOK, NEW p \in Players, NEW f \in Nat,
         OwnInv(p), HeldInv(p, p), presence[p][p] # "gone",
         frame[p] <= f, f <= frame[p] + MaxRunAhead + 1
  PROVE  frameData[p][p][Index(f)].commands = IssuedBy(p, f)
  <1> DEFINE slot == frameData[p][p][Index(f)].commands
             own == CommandsBy(p)
             now == frame[p]
  <1>1. now \in Nat
    BY DEF TypeOK
  <1>2. \A c \in own : c.frame \in Nat
           /\ (now <= c.frame /\ c.frame = f => c \in slot)
    BY CommandsType DEF OwnInv, CommandsBy
  <1>3. \A c \in slot :
           /\ c \in own /\ Index(c.frame) = Index(f)
           /\ now - FRAMES_TO_KEEP <= c.frame
           /\ c.frame < now + FRAME_DATA_LENGTH
    BY IndexType DEF HeldInv, Within
  <1>4. now <= f /\ f <= now + MaxRunAhead + 1
    OBVIOUS
  <1>5. {c \in own : c.frame = f} = IssuedBy(p, f)
    BY DEF CommandsBy, IssuedBy
  <1> HIDE DEF slot, own, now
  <1>6. slot = {c \in own : c.frame = f}
    BY <1>1, <1>2, <1>3, <1>4, OwnSlot
  <1>. QED
    BY <1>5, <1>6 DEF slot

\* The same after a step.
LEMMA OwnCountNext ==
  ASSUME TypeOK, AgreementInv, [Next]_vars, NEW p \in Players, NEW f \in Nat,
         localStatus'[p] # "LEFT",
         frame'[p] <= f, f <= frame'[p] + MaxRunAhead + 1
  PROVE  frameData'[p][p][Index(f)].commands = IssuedBy(p, f)'
  <1> DEFINE slot == frameData'[p][p][Index(f)].commands
             own == CommandsBy(p)'
             now == frame'[p]
  <1>0. TypeOK' /\ CountersInv(p)' /\ OwnInv(p)' /\ HeldInv(p, p)'
    BY TypeOKNext, CountersNext, OwnNext, HeldNext DEF AgreementInv
  <1>a. presence'[p][p] # "gone"
    BY <1>0 DEF CountersInv
  <1>1. now \in Nat
    BY <1>0 DEF TypeOK
  <1>2. \A c \in own : c.frame \in Nat
           /\ (now <= c.frame /\ c.frame = f => c \in slot)
    <2>1. \A c \in own : c.frame \in Nat
      <3>1. Messages' \subseteq Message
        BY <1>0 DEF TypeOK, Messages, Sent
      <3>2. \A m \in Message : m.frame \in Nat
        BY DEF Message, Command, CommandWith, FrameInfo
      <3>. QED
        BY <3>1, <3>2 DEF CommandsBy, Commands
    <2>. QED
      BY <1>0, <2>1 DEF OwnInv
  <1>3. \A c \in slot :
           /\ c \in own /\ Index(c.frame) = Index(f)
           /\ now - FRAMES_TO_KEEP <= c.frame
           /\ c.frame < now + FRAME_DATA_LENGTH
    BY <1>0, <1>a, IndexType DEF HeldInv, Within
  <1>4. now <= f /\ f <= now + MaxRunAhead + 1
    OBVIOUS
  <1>5. {c \in own : c.frame = f} = IssuedBy(p, f)'
    BY DEF CommandsBy, IssuedBy
  <1> HIDE DEF slot, own, now
  <1>6. slot = {c \in own : c.frame = f}
    BY <1>1, <1>2, <1>3, <1>4, OwnSlot
  <1>. QED
    BY <1>5, <1>6 DEF slot

\* The announced counts are and stay the numbers of commands issued.
LEMMA AnnouncedNext ==
  ASSUME TypeOK, CountsInv, AgreementInv, [Next]_vars
  PROVE  AnnouncedInv'
  <1>0. /\ \A p \in Players : CountersInv(p) /\ OwnInv(p) /\ HeldInv(p, p)
        /\ AnnouncedInv
        /\ frame \in [Players -> Nat]
        /\ localStatus \in [Players -> {"PREGAME", "INGAME", "LEAVING", "LEFT"}]
    BY DEF AgreementInv, TypeOK
  <1>1. \A p \in Players : frame'[p] \in Nat /\ frame'[p] >= frame[p]
    <2>1. ASSUME NEW p \in Players,
                 \/ frame' = frame
                 \/ frame' = [frame EXCEPT ![p] = frame[p] + 1]
                 \/ frame[p] = 0 /\ frame' = [frame EXCEPT ![p] = 1]
          PROVE  \A r \in Players : frame'[r] \in Nat /\ frame'[r] >= frame[r]
      BY <1>0, <2>1
    <2>2. ASSUME NEW p \in Players, RunFrame(p)
          PROVE  frame' = [frame EXCEPT ![p] = frame[p] + 1]
      BY <2>2 DEF RunFrame
    <2>3. ASSUME NEW p \in Players, Waiting(p)
          PROVE  frame' = frame \/ (frame[p] = 0 /\ frame' = [frame EXCEPT ![p] = 1])
      BY <2>3 DEF Waiting
    <2>4. ASSUME NEW p \in Players, NEW c \in Command, NEW fs, Issuing(p, c, fs)
          PROVE  frame' = frame
      BY <2>4 DEF Issuing
    <2>5. ASSUME NEW p \in Players, Announcing(p)
          PROVE  frame' = frame
      BY <2>5 DEF Announcing
    <2>. QED
      BY <1>0, <2>1, <2>2, <2>3, <2>4, <2>5, OnlyFrameData, Steps DEF vars
  <1>2. ASSUME NEW i \in FrameInfos
        PROVE  /\ 1 <= i.frame
               /\ i.frame <= frame'[i.player] + MaxRunAhead + 1
               /\ i.count = Cardinality(IssuedBy(i.player, i.frame)')
    <2>1. i.player \in Players /\ i.frame \in Nat
      BY CommandsType
    <2>2. IssuedBy(i.player, i.frame)' = IssuedBy(i.player, i.frame)
      BY <1>0, <2>1, AnnouncedIsClosed, IssuedStays
    <2>. QED
      BY <1>0, <1>1, <2>1, <2>2, Lengths DEF AnnouncedInv
  <1>3. ASSUME FrameInfos' = FrameInfos
        PROVE  AnnouncedInv'
    BY <1>2, <1>3 DEF AnnouncedInv
  <1>4. ASSUME NEW p \in Players, NEW fs \in SUBSET Nat, NEW data,
               FrameInfos' = FrameInfos \cup InfosFor(p, fs, data),
               \A f \in fs :
                 /\ 1 <= f /\ f <= frame'[p] + MaxRunAhead + 1
                 /\ data[Index(f)].commands = IssuedBy(p, f)'
        PROVE  AnnouncedInv'
    <2>1. ASSUME NEW i \in InfosFor(p, fs, data)
          PROVE  /\ 1 <= i.frame
                 /\ i.frame <= frame'[i.player] + MaxRunAhead + 1
                 /\ i.count = Cardinality(IssuedBy(i.player, i.frame)')
      <3>1. PICK f \in fs : i = [type |-> "FRAMEINFO", player |-> p, frame |-> f,
                                 count |-> CommandCount(data[Index(f)])]
        BY DEF InfosFor
      <3>2. i.player = p /\ i.frame = f /\ i.count = CommandCount(data[Index(f)])
        BY <3>1
      <3>3. CommandCount(data[Index(f)]) = Cardinality(IssuedBy(p, f)')
        BY <1>4 DEF CommandCount
      <3>. QED
        BY <1>4, <3>2, <3>3
    <2>. QED
      BY <1>2, <1>4, <2>1 DEF AnnouncedInv
  <1>5. ASSUME NEW p \in Players, NEW c \in Command, NEW fs \in SUBSET Nat,
               Issuing(p, c, fs)
        PROVE  AnnouncedInv'
    <2>1. FrameInfos' = FrameInfos \cup InfosFor(p, fs, frameData'[p][p])
      BY <1>5, AfterIssuing
    <2>2. CASE fs = {}
      <3>1. InfosFor(p, fs, frameData'[p][p]) = {}
        BY <2>2 DEF InfosFor
      <3>. QED
        BY <1>3, <2>1, <3>1
    <2>3. CASE fs # {}
      <3>1. /\ fs = FinalFrames(p) /\ frame' = frame
            /\ localStatus' = [localStatus EXCEPT ![p] = "LEAVING"]
        BY <1>5, <2>3 DEF Issuing
      <3>2. /\ ExecutionFrame(p) \in Nat
            /\ ExecutionFrame(p) > frame[p]
            /\ ExecutionFrame(p) <= frame[p] + MaxRunAhead
        BY <1>0, ExecutionFrameIsNear
      <3>3. \A f \in fs : /\ f \in Nat /\ f > frame'[p] /\ 1 <= f
                          /\ f <= frame'[p] + MaxRunAhead + 1
        BY <1>0, <3>1, <3>2, Lengths DEF FinalFrames
      <3>4. localStatus'[p] # "LEFT"
        BY <1>0, <3>1
      <3>5. frame'[p] \in Nat
        BY <1>1
      <3>6. \A f \in fs : frameData'[p][p][Index(f)].commands = IssuedBy(p, f)'
        <4>1. \A f \in fs : frame'[p] <= f
          BY <3>3, <3>5
        <4>. QED
          BY <3>3, <3>4, <4>1, OwnCountNext
      <3>. QED
        BY <1>4, <2>1, <3>3, <3>6
    <2>. QED
      BY <2>2, <2>3
  <1>6. ASSUME NEW p \in Players, Announcing(p)
        PROVE  AnnouncedInv'
    <2> DEFINE fs == TickFrames(p)
    <2>1. /\ FrameInfos' = FrameInfos \cup InfosFor(p, fs, frameData[p][p])
          /\ Commands' = Commands /\ frame' = frame
      BY <1>6, AfterAnnouncing DEF Announcing
    <2>2. /\ ExecutionFrame(p) \in Nat
          /\ ExecutionFrame(p) <= frame[p] + MaxRunAhead
      BY <1>0, ExecutionFrameIsNear
    <2>3. /\ lastFrameCompleted[p] \in Nat /\ lastFrame[p] \in Nat
          /\ frame[p] \in Nat /\ frame[p] >= 1
          /\ frame[p] <= lastFrameCompleted[p] + 1
      <3>1. /\ lastFrameCompleted[p] \in Nat /\ lastFrame[p] \in Nat
            /\ frame[p] \in Nat
        BY DEF TypeOK
      <3>2. CASE localStatus[p] = "PREGAME" /\ frame[p] = 1
        BY <3>1, <3>2
      <3>3. CASE localStatus[p] = "INGAME"
        BY <1>0, <3>1, <3>3 DEF CountersInv
      <3>. QED
        BY <1>6, <3>2, <3>3 DEF Announcing
    <2>4. fs \in SUBSET Nat
      BY <2>2, <2>3 DEF TickFrames
    <2>5. \A f \in fs : /\ f \in Nat /\ 1 <= f /\ frame[p] <= f
                        /\ f <= frame[p] + MaxRunAhead + 1
      BY <2>2, <2>3, Lengths DEF TickFrames
    <2>6. presence[p][p] # "gone"
      <3>1. localStatus[p] # "LEFT"
        BY <1>6 DEF Announcing
      <3>. QED
        BY <1>0, <3>1 DEF CountersInv
    <2> HIDE DEF fs
    <2>7. \A f \in fs : frameData[p][p][Index(f)].commands = IssuedBy(p, f)
      BY <1>0, <2>5, <2>6, OwnCount
    <2>8. \A f \in fs : IssuedBy(p, f)' = IssuedBy(p, f)
      BY <2>1 DEF IssuedBy
    <2>. QED
      BY <1>4, <2>1, <2>4, <2>5, <2>7, <2>8
  <1>. QED
    BY <1>0, <1>3, <1>5, <1>6, NothingIssued, Steps

-------------------------------------------------------------------------------
(* Executing a frame.                                                        *)

\* Within the reach of the ring, a slot tells its frame.
LEMMA FrameOfSlot ==
  ASSUME TypeOK, NEW p \in Players, NEW f \in Nat, Within(p, f),
         Index(f) = Index(frame[p])
  PROVE  f = frame[p]
  <1>1. frame[p] \in Nat
    BY DEF TypeOK
  <1>2. f - frame[p] < FRAME_DATA_LENGTH /\ frame[p] - f < FRAME_DATA_LENGTH
    BY <1>1, Lengths DEF Within
  <1>. QED
    BY <1>1, <1>2, SlotsApart

\* The commands in the slot of the present frame were issued for it.
LEMMA HeldForFrame ==
  ASSUME TypeOK, AgreementInv, NEW p \in Players, NEW q \in Players,
         presence[p][q] # "gone"
  PROVE  frameData[p][q][Index(frame[p])].commands \subseteq IssuedBy(q, frame[p])
  <1>1. HeldInv(p, q) /\ Index(frame[p]) \in Indices
    BY IndexType DEF AgreementInv, TypeOK
  <1> SUFFICES ASSUME NEW c \in frameData[p][q][Index(frame[p])].commands
               PROVE  c \in IssuedBy(q, frame[p])
    OBVIOUS
  <1>2. c \in CommandsBy(q) /\ Index(c.frame) = Index(frame[p]) /\ Within(p, c.frame)
    BY <1>1 DEF HeldInv
  <1>3. c.frame \in Nat
    BY <1>2, CommandsType DEF CommandsBy
  <1>. QED
    BY <1>2, <1>3, FrameOfSlot DEF CommandsBy, IssuedBy

\* A player still in the game is waited for: when a frame is run it is closed
\* for him, and its slot holds all he issued for it.
LEMMA SlotComplete ==
  ASSUME TypeOK, AgreementInv, NEW p \in Players, RunFrame(p),
         NEW q \in Playing(p)
  PROVE  /\ Closed(q, frame[p])
         /\ frameData[p][q][Index(frame[p])].commands = IssuedBy(q, frame[p])
  <1>0. /\ q \in Players /\ presence[p][q] = "playing"
        /\ CountersInv(p) /\ OwnInv(p) /\ HeldInv(p, p) /\ CountInv(p, q)
        /\ frame[p] \in Nat /\ Index(frame[p]) \in Indices
        /\ frameData[p][q] \in Rings(Command)
    BY IndexType, FrameDataType DEF AgreementInv, TypeOK, Playing
  <1>1. CASE p = q
    <2>1. Closed(q, frame[p])
      <3>1. localStatus[p] \in {"INGAME", "LEAVING"} /\ lastFrame[p] = frame[p]
        BY DEF RunFrame
      <3>. QED
        BY <1>0, <1>1, <3>1 DEF CountersInv, Closed
    <2>2. frame[p] <= frame[p] /\ frame[p] <= frame[p] + MaxRunAhead + 1
      BY <1>0, Lengths
    <2>. QED
      BY <1>0, <1>1, <2>1, <2>2, OwnCount
  <1>2. CASE p # q
    <2> DEFINE fd == frameData[p][q][Index(frame[p])]
    <2>1. fd \in FrameDatas(Command)
      BY <1>0 DEF Rings
    <2>2. fd.announced = Cardinality(fd.commands)
      BY <1>0 DEF RunFrame, AllCommandsReady, IsReady, CommandCount
    <2>3. IsFiniteSet(fd.commands)
      BY <2>1 DEF FrameDatas
    <2>4. Cardinality(fd.commands) \in Nat
      BY <2>3, FS_CardinalityType
    <2>5. fd.announced # NotAnnounced
      BY <2>2, <2>4 DEF NotAnnounced
    <2>6. PICK f \in Nat \ {0} :
            /\ Index(f) = Index(frame[p]) /\ Within(p, f) /\ Closed(q, f)
            /\ fd.announced = Cardinality(IssuedBy(q, f))
      BY <1>0, <1>2, <2>5 DEF CountInv
    <2>7. f = frame[p]
      BY <2>6, FrameOfSlot
    <2>8. IsFiniteSet(IssuedBy(q, frame[p]))
      <3>1. IsFiniteSet(Commands) /\ IssuedBy(q, frame[p]) \subseteq Commands
        BY DEF AgreementInv, IssuedBy
      <3>. QED
        BY <3>1, FS_Subset
    <2>9. fd.commands \subseteq IssuedBy(q, frame[p])
      BY <1>0, HeldForFrame
    <2> HIDE DEF fd
    <2>10. Cardinality(fd.commands) = Cardinality(IssuedBy(q, frame[p]))
      BY <2>2, <2>6, <2>7
    <2>11. fd.commands = IssuedBy(q, frame[p])
      BY <2>8, <2>9, <2>10, FS_Subset
    <2>. QED
      BY <2>6, <2>7, <2>11 DEF fd
  <1>. QED
    BY <1>1, <1>2

\* A player no longer in the game issued nothing for the frame.
LEMMA NothingOfOthers ==
  ASSUME TypeOK, AgreementInv, NEW p \in Players, NEW q \in Players,
         q \notin Playing(p)
  PROVE  /\ Closed(q, frame[p])
         /\ IssuedBy(q, frame[p]) = {}
  <1>0. HistoryInv(p, q) /\ IssuedInv(q) /\ frame[p] \in Nat
    BY DEF AgreementInv, TypeOK
  <1>1. PICK l \in LeavesOf(q) : l.frame < frame[p]
    BY <1>0 DEF HistoryInv, Playing
  <1>2. /\ localStatus[q] \in {"LEAVING", "LEFT"}
        /\ \A c \in CommandsBy(q) : c.frame <= l.frame
    BY <1>0, <1>1 DEF IssuedInv
  <1>3. l.frame \in Nat /\ \A c \in CommandsBy(q) : c.frame \in Nat
    BY <1>1, CommandsType DEF LeavesOf, CommandsBy
  <1>4. \A c \in CommandsBy(q) : c.frame # frame[p]
    BY <1>0, <1>1, <1>2, <1>3
  <1>. QED
    BY <1>2, <1>4 DEF Closed, IssuedBy, CommandsBy

\* What is executed is what was issued.
LEMMA ListIsIssued ==
  ASSUME TypeOK, AgreementInv, NEW p \in Players, RunFrame(p)
  PROVE  FrameCommandList(p) = IssuedFor(frame[p])
  <1> DEFINE n == frame[p]
             slot(q) == frameData[p][q][Index(n)].commands
  <1>1. ASSUME NEW c \in FrameCommandList(p)
        PROVE  c \in IssuedFor(n)
    <2>1. PICK q \in Players : PresenceNow(p)[q] # "gone" /\ c \in slot(q)
      BY <1>1 DEF FrameCommandList
    <2>2. presence[p][q] # "gone"
      BY <2>1 DEF PresenceNow
    <2>3. c \in IssuedBy(q, n)
      BY <2>1, <2>2, HeldForFrame
    <2>. QED
      BY <2>3 DEF IssuedBy, IssuedFor
  <1>2. ASSUME NEW c \in IssuedFor(n)
        PROVE  c \in FrameCommandList(p)
    <2> DEFINE q == c.player
    <2>1. q \in Players /\ c \in IssuedBy(q, n)
      BY CommandsType DEF IssuedFor, IssuedBy
    <2>2. q \in Playing(p)
      BY <2>1, NothingOfOthers
    <2>3. c \in slot(q)
      BY <2>1, <2>2, SlotComplete
    <2>4. PresenceNow(p)[q] # "gone"
      BY <2>1, <2>2 DEF PresenceNow, Playing
    <2> HIDE DEF q
    <2>. QED
      BY <2>1, <2>3, <2>4 DEF FrameCommandList
  <1>. QED
    BY <1>1, <1>2

\* The leaves in a frame's commands are those of players leaving in it.
LEMMA LeavingIsLeave ==
  ASSUME TypeOK, AgreementInv, NEW p \in Players, RunFrame(p),
         NEW q \in Players
  PROVE  q \in LeavingIn(FrameCommandList(p)) <=>
           \E l \in LeavesOf(q) : l.frame = frame[p]
  BY ListIsIssued DEF LeavingIn, IssuedFor, LeavesOf, CommandsBy

\* A computer is no further than a run-ahead and a frame ahead of another
\* which it waits for.
LEMMA WaitedForIsNear ==
  ASSUME TypeOK, AgreementInv, NEW p \in Players, NEW q \in Playing(p),
         localStatus[q] # "LEFT"
  PROVE  frame[p] <= frame[q] + MaxRunAhead + 1
  <1>0. /\ q \in Players /\ presence[p][q] = "playing"
        /\ CountersInv(p) /\ CountersInv(q) /\ IssuedInv(q) /\ HistoryInv(p, q)
        /\ frame[p] \in Nat /\ frame[q] \in Nat
        /\ lastExecutionFrame[q] \in Nat
        /\ localStatus[q] \in {"PREGAME", "INGAME", "LEAVING", "LEFT"}
        /\ MaxRunAhead \in Nat /\ FirstRunAhead \in 1 .. MaxRunAhead
    BY Lengths DEF AgreementInv, TypeOK, Playing
  <1>1. CASE frame[p] <= 1
    BY <1>0, <1>1
  <1>2. CASE frame[p] > 1
    <2> DEFINE f == frame[p] - 1
    <2>1. Len(executed[p]) = f /\ f \in 1 .. f
      BY <1>0, <1>2 DEF CountersInv
    <2>2. Closed(q, f)
      BY <1>0, <2>1 DEF HistoryInv
    <2>3. CASE localStatus[q] = "LEAVING"
      <3>1. PICK l \in LeavesOf(q) : TRUE
        BY <1>0, <2>3 DEF IssuedInv
      <3>2. /\ frame[p] <= l.frame /\ l.frame <= frame[q] + MaxRunAhead + 1
            /\ l.frame \in Nat
        BY <1>0, <3>1, CommandsType DEF HistoryInv, IssuedInv, LeavesOf, CommandsBy
      <3>. QED
        BY <1>0, <3>2
    <2>4. CASE localStatus[q] = "INGAME"
      BY <1>0, <2>2, <2>4 DEF Closed, CountersInv
    <2>5. CASE localStatus[q] = "PREGAME"
      BY <1>0, <2>2, <2>5 DEF Closed
    <2>. QED
      BY <1>0, <2>3, <2>4, <2>5
  <1>. QED
    BY <1>0, <1>1, <1>2

\* A computer goes on executing closed frames, and waits for who is playing.
LEMMA HistoryNext ==
  ASSUME TypeOK, AgreementInv, [Next]_vars, NEW p \in Players, NEW q \in Players
  PROVE  HistoryInv(p, q)'
  <1>0. /\ \A r \in Players : CountersInv(r) /\ IssuedInv(r)
        /\ HistoryInv(p, q)
        /\ frame \in [Players -> Nat]
        /\ executed \in [Players -> Seq(SUBSET Command)]
        /\ lastExecutionFrame \in [Players -> Nat]
        /\ presence \in [Players -> [Players -> Presence]]
    BY DEF AgreementInv, TypeOK
  <1>a. /\ LeavesOf(q) \subseteq LeavesOf(q)'
        /\ \A l \in LeavesOf(q) : l.frame \in Nat
    BY <1>0, CommandsStay, CommandsType DEF LeavesOf, CommandsBy
  <1>b. \A f \in 1 .. Len(executed[p]) : f \in Nat /\ Closed(q, f)'
    <2>1. \A f \in 1 .. Len(executed[p]) : f \in Nat /\ Closed(q, f)
      BY <1>0 DEF HistoryInv
    <2>. QED
      BY <1>0, <2>1, ClosedStays
  <1>c. frame[p] > 1 => Len(executed[p]) = frame[p] - 1
    <2>1. CountersInv(p) /\ frame[p] \in Nat
      BY <1>0
    <2>. QED
      BY <2>1 DEF CountersInv
  <1>1. ASSUME executed'[p] = executed[p], presence'[p] = presence[p],
               frame'[p] \in Nat, frame'[p] >= frame[p],
               presence[p][q] = "playing" =>
                 \A l \in LeavesOf(q)' : frame'[p] <= l.frame
        PROVE  HistoryInv(p, q)'
    <2>1. presence'[p][q] # "playing" => \E l \in LeavesOf(q)' : l.frame < frame'[p]
      <3> SUFFICES ASSUME presence'[p][q] # "playing"
                   PROVE  \E l \in LeavesOf(q)' : l.frame < frame'[p]
        OBVIOUS
      <3>1. PICK l \in LeavesOf(q) : l.frame < frame[p]
        BY <1>0, <1>1 DEF HistoryInv
      <3>. QED
        BY <1>0, <1>1, <1>a, <3>1
    <2>. QED
      BY <1>1, <1>b, <2>1 DEF HistoryInv
  <1>2. ASSUME NEW r \in Players, NEW c \in Command, NEW fs, Issuing(r, c, fs)
        PROVE  HistoryInv(p, q)'
    <2>1. /\ Commands' = Commands \cup {c} /\ c.player = r
          /\ frame' = frame /\ presence' = presence /\ executed' = executed
          /\ localStatus[r] = "INGAME"
          /\ c.frame >= ExecutionFrame(r)
      <3>1. ExecutionFrame(r) \in Nat
        BY ExecutionFrameType
      <3>2. c.frame \in {ExecutionFrame(r), ExecutionFrame(r) + 1}
        BY <1>2 DEF Issuing
      <3>3. c.frame >= ExecutionFrame(r)
        BY <3>1, <3>2
      <3>4. Commands' = Commands \cup {c}
        BY <1>2, AfterIssuing
      <3>. QED
        BY <1>2, <3>3, <3>4 DEF Issuing
    <2>2. LeavesOf(q)' \subseteq LeavesOf(q) \cup {c}
      BY <2>1 DEF LeavesOf, CommandsBy
    <2>3. ASSUME presence[p][q] = "playing", c \in LeavesOf(q)'
          PROVE  frame[p] <= c.frame
      <3>1. r = q /\ localStatus[q] = "INGAME"
        BY <2>1, <2>3 DEF LeavesOf, CommandsBy
      <3>2. /\ ExecutionFrame(q) \in Nat
            /\ ExecutionFrame(q) >= lastExecutionFrame[q]
            /\ ExecutionFrame(q) >= 1
            /\ frame[p] \in Nat /\ lastExecutionFrame[q] \in Nat
            /\ c.frame \in Nat
        <4>1. /\ ExecutionFrame(q) \in Nat /\ ExecutionFrame(q) > frame[q]
              /\ ExecutionFrame(q) >= lastExecutionFrame[q]
              /\ frame[q] \in Nat
          BY <1>0, ExecutionFrameIsNear
        <4>. QED
          BY <1>0, <4>1, CommandsType
      <3>3. CASE frame[p] <= 1
        BY <2>1, <3>1, <3>2, <3>3
      <3>4. CASE frame[p] > 1
        <4>1. Len(executed[p]) = frame[p] - 1
          BY <1>c, <3>4
        <4>2. Closed(q, frame[p] - 1)
          BY <1>0, <3>2, <3>4, <4>1 DEF HistoryInv
        <4>3. frame[p] - 1 < lastExecutionFrame[q]
          BY <3>1, <4>2 DEF Closed
        <4>. QED
          BY <2>1, <3>1, <3>2, <4>3
      <3>. QED
        BY <3>2, <3>3, <3>4
    <2>4. presence[p][q] = "playing" =>
            \A l \in LeavesOf(q)' : frame'[p] <= l.frame
      BY <1>0, <2>1, <2>2, <2>3 DEF HistoryInv
    <2>. QED
      BY <1>0, <1>1, <2>1, <2>4
  <1>3. ASSUME Commands' = Commands, executed'[p] = executed[p],
               presence'[p] = presence[p], frame'[p] = frame[p]
        PROVE  HistoryInv(p, q)'
    <2>1. LeavesOf(q)' = LeavesOf(q)
      BY <1>3 DEF LeavesOf, CommandsBy
    <2>. QED
      BY <1>0, <1>1, <1>3, <2>1 DEF HistoryInv
  <1>4. ASSUME NEW r \in Players, Announcing(r)
        PROVE  HistoryInv(p, q)'
    <2>1. Commands' = Commands
      BY <1>4, AfterAnnouncing
    <2>2. frame' = frame /\ presence' = presence /\ executed' = executed
      BY <1>4 DEF Announcing
    <2>. QED
      BY <1>3, <2>1, <2>2
  <1>5. ASSUME NEW r \in Players, RunFrame(r)
        PROVE  HistoryInv(p, q)'
    <2> DEFINE list == FrameCommandList(r)
    <2>1. /\ Commands' = Commands
          /\ frame' = [frame EXCEPT ![r] = frame[r] + 1]
          /\ executed' = [executed EXCEPT ![r] = Append(executed[r], list)]
          /\ presence' = [presence EXCEPT
                            ![r] = PresenceAfter(r, LeavingIn(list))]
          /\ localStatus[r] \in {"INGAME", "LEAVING"}
      BY <1>5, NothingIssued DEF RunFrame
    <2>2. CASE p # r
      <3>1. /\ frame'[p] = frame[p] /\ executed'[p] = executed[p]
            /\ presence'[p] = presence[p]
        BY <1>0, <2>1, <2>2
      <3>. QED
        BY <1>3, <2>1, <3>1
    <2>3. CASE p = r
      <3>1. /\ frame'[p] = frame[p] + 1 /\ frame[p] \in Nat /\ frame[p] >= 1
            /\ presence'[p] = PresenceAfter(p, LeavingIn(list))
            /\ Len(executed[p]) = frame[p] - 1
        BY <1>0, <2>1, <2>3 DEF CountersInv
      <3>2. Len(executed'[p]) = frame[p]
        <4>1. list \in SUBSET Command
          BY FrameCommandListType
        <4>2. executed'[p] = Append(executed[p], list)
          BY <1>0, <2>1, <2>3
        <4> HIDE DEF list
        <4>. QED
          BY <1>0, <3>1, <4>1, <4>2
      <3>3. Closed(q, frame[p])
        BY <1>5, <2>3, SlotComplete, NothingOfOthers
      <3>4. \A f \in 1 .. Len(executed'[p]) : Closed(q, f)'
        <4>1. ASSUME NEW f \in Nat, f = frame[p]
              PROVE  Closed(q, f)'
          BY <1>0, <3>3, <4>1, ClosedStays
        <4>2. ASSUME NEW f \in 1 .. Len(executed'[p])
              PROVE  Closed(q, f)'
          <5>1. f \in Nat /\ (f \in 1 .. Len(executed[p]) \/ f = frame[p])
            BY <3>1, <3>2, <4>2
          <5>. QED
            BY <1>b, <4>1, <5>1
        <4>. QED
          BY <4>2
      <3>5. q \in LeavingIn(list) <=> \E l \in LeavesOf(q) : l.frame = frame[p]
        BY <1>5, <2>3, LeavingIsLeave
      <3>6. LeavesOf(q)' = LeavesOf(q)
        BY <2>1 DEF LeavesOf, CommandsBy
      <3>7. ASSUME presence'[p][q] # "playing"
            PROVE  \E l \in LeavesOf(q) : l.frame < frame'[p]
        <4>1. CASE q \in LeavingIn(list)
          BY <1>a, <3>1, <3>5, <4>1
        <4>2. CASE q \notin LeavingIn(list)
          <5>1. presence[p][q] # "playing"
            BY <3>1, <3>7, <4>2 DEF PresenceAfter, PresenceNow
          <5>2. PICK l \in LeavesOf(q) : l.frame < frame[p]
            BY <1>0, <5>1 DEF HistoryInv
          <5>. QED
            BY <1>a, <3>1, <5>2
        <4>. QED
          BY <4>1, <4>2
      <3>8. ASSUME presence'[p][q] = "playing", NEW l \in LeavesOf(q)
            PROVE  frame'[p] <= l.frame
        <4>1. q \notin LeavingIn(list) /\ presence[p][q] = "playing"
          BY <3>1, <3>8 DEF PresenceAfter, PresenceNow
        <4>2. frame[p] <= l.frame /\ l.frame # frame[p]
          BY <1>0, <3>5, <3>8, <4>1 DEF HistoryInv
        <4>. QED
          BY <1>a, <3>1, <4>2
      <3>. QED
        BY <3>4, <3>6, <3>7, <3>8 DEF HistoryInv
    <2>. QED
      BY <2>2, <2>3
  <1>6. ASSUME NEW r \in Players, NEW t \in Players, Deliver(r, t)
        PROVE  HistoryInv(p, q)'
    BY <1>3, <1>6, NothingIssued, OnlyFrameData
  <1>7. ASSUME NEW r \in Players, Waiting(r)
        PROVE  HistoryInv(p, q)'
    <2>1. Commands' = Commands /\ presence' = presence /\ executed' = executed
      BY <1>7, NothingIssued DEF Waiting
    <2>2. CASE frame'[p] = frame[p]
      BY <1>3, <2>1, <2>2
    <2>3. CASE frame'[p] # frame[p]
      <3>1. frame'[p] = 1 /\ frame[p] = 0
        BY <1>0, <1>7, <2>3 DEF Waiting
      <3>2. LeavesOf(q)' = LeavesOf(q)
        BY <2>1 DEF LeavesOf, CommandsBy
      <3>3. \A l \in LeavesOf(q) : frame'[p] <= l.frame
        BY <1>0, <3>1 DEF IssuedInv, LeavesOf
      <3>. QED
        BY <1>0, <1>1, <2>1, <3>1, <3>2, <3>3
    <2>. QED
      BY <2>2, <2>3
  <1>8. CASE UNCHANGED vars
    <2>1. Commands' = Commands
      BY <1>8, NothingIssued
    <2>. QED
      BY <1>3, <1>8, <2>1 DEF vars
  <1>. QED
    BY <1>0, <1>2, <1>4, <1>5, <1>6, <1>7, <1>8, Steps

\* What is sent is within the reach of the computers it is sent to: both those
\* the sender waits for and those whom these wait for.
LEMMA ReachNext ==
  ASSUME TypeOK, AgreementInv, [Next]_vars
  PROVE  ReachInv'
  <1>0. /\ \A r \in Players : CountersInv(r)
        /\ ReachInv
        /\ frame \in [Players -> Nat]
        /\ localStatus \in [Players -> {"PREGAME", "INGAME", "LEAVING", "LEFT"}]
        /\ sent \subseteq Sent
    BY DEF AgreementInv, TypeOK
  <1>1. ASSUME NEW p \in Players
        PROVE  /\ frame'[p] \in Nat /\ frame'[p] >= frame[p]
               /\ localStatus'[p] # "LEFT" => localStatus[p] # "LEFT"
    <2>1. frame'[p] \in Nat /\ frame'[p] >= frame[p]
      <3>1. ASSUME NEW r \in Players,
                   \/ frame' = frame
                   \/ frame' = [frame EXCEPT ![r] = frame[r] + 1]
                   \/ frame[r] = 0 /\ frame' = [frame EXCEPT ![r] = 1]
            PROVE  frame'[p] \in Nat /\ frame'[p] >= frame[p]
        BY <1>0, <3>1
      <3>2. ASSUME NEW r \in Players, RunFrame(r)
            PROVE  frame' = [frame EXCEPT ![r] = frame[r] + 1]
        BY <3>2 DEF RunFrame
      <3>3. ASSUME NEW r \in Players, Waiting(r)
            PROVE  frame' = frame \/ (frame[r] = 0 /\ frame' = [frame EXCEPT ![r] = 1])
        BY <3>3 DEF Waiting
      <3>4. ASSUME NEW r \in Players, NEW c \in Command, NEW fs, Issuing(r, c, fs)
            PROVE  frame' = frame
        BY <3>4 DEF Issuing
      <3>5. ASSUME NEW r \in Players, Announcing(r)
            PROVE  frame' = frame
        BY <3>5 DEF Announcing
      <3>. QED
        BY <1>0, <3>1, <3>2, <3>3, <3>4, <3>5, OnlyFrameData, Steps DEF vars
    <2>2. localStatus'[p] # "LEFT" => localStatus[p] # "LEFT"
      BY <1>0, StatusStep
    <2>. QED
      BY <2>1, <2>2
  <1>2. ASSUME NEW s \in sent, NEW p \in s.to, localStatus'[p] # "LEFT"
        PROVE  s.msg.frame < frame'[p] + FRAME_DATA_LENGTH
    <2>1. p \in Players /\ s.msg.frame \in Nat
      <3>1. s \in Sent
        BY <1>0
      <3>2. s.to \subseteq Players /\ s.msg \in Message
        BY <3>1 DEF Sent
      <3>3. \A m \in Message : m.frame \in Nat
        BY DEF Message, Command, CommandWith, FrameInfo
      <3>. QED
        BY <3>2, <3>3
    <2>2. localStatus[p] # "LEFT"
      BY <1>1, <1>2, <2>1
    <2>3. s.msg.frame < frame[p] + FRAME_DATA_LENGTH
      BY <1>0, <2>2 DEF ReachInv
    <2>. QED
      BY <1>0, <1>1, <2>1, <2>3, Lengths
  <1>3. ASSUME NEW x \in Players, NEW p \in Recipients(x), localStatus[p] # "LEFT"
        PROVE  p \in Players /\ frame[x] <= frame[p] + 2 * MaxRunAhead + 2
    <2>1. p \in Players
      BY DEF Recipients
    <2>2. PICK r \in Playing(x) : localStatus[r] # "LEFT" /\ p \in Playing(r)
      BY DEF Recipients
    <2>3. r \in Players
      BY DEF Playing
    <2>4. frame[x] <= frame[r] + MaxRunAhead + 1
      BY <2>2, WaitedForIsNear
    <2>5. frame[r] <= frame[p] + MaxRunAhead + 1
      BY <1>3, <2>2, <2>3, WaitedForIsNear
    <2>. QED
      BY <1>0, <2>1, <2>3, <2>4, <2>5, Lengths
  <1>4. ASSUME NEW x \in Players, NEW messages, sent' = sent \cup SendAll(x, messages),
               \A m \in messages :
                 m.frame \in Nat /\ m.frame <= frame[x] + MaxRunAhead + 1
        PROVE  ReachInv'
    <2>1. ASSUME NEW s \in SendAll(x, messages), NEW p \in s.to,
                 localStatus'[p] # "LEFT"
          PROVE  s.msg.frame < frame'[p] + FRAME_DATA_LENGTH
      <3>1. PICK m \in messages : s = [msg |-> m, to |-> Recipients(x)]
        BY DEF SendAll
      <3>2. s.msg = m /\ p \in Recipients(x)
        BY <3>1
      <3>3. p \in Players
        BY <3>2 DEF Recipients
      <3>4. frame[x] <= frame[p] + 2 * MaxRunAhead + 2
        BY <1>1, <1>3, <2>1, <3>2, <3>3
      <3>5. frame[x] \in Nat /\ frame[p] \in Nat /\ frame'[p] \in Nat
            /\ frame'[p] >= frame[p]
        BY <1>0, <1>1, <3>3
      <3>. QED
        BY <1>4, <3>2, <3>4, <3>5, Lengths
    <2>. QED
      BY <1>2, <1>4, <2>1 DEF ReachInv
  <1>5. ASSUME NEW x \in Players, NEW c \in Command, NEW fs \in SUBSET Nat,
               Issuing(x, c, fs)
        PROVE  ReachInv'
    <2> DEFINE data == AddLocal(frameData[x][x], c.frame, c)
    <2>1. sent' = sent \cup SendAll(x, {c} \cup InfosFor(x, fs, data))
      BY <1>5 DEF Issuing, Adds
    <2>2. ExecutionFrame(x) \in Nat /\ ExecutionFrame(x) <= frame[x] + MaxRunAhead
      BY <1>0, ExecutionFrameIsNear
    <2>3. c.frame \in {ExecutionFrame(x), ExecutionFrame(x) + 1}
      BY <1>5 DEF Issuing
    <2>4. \A f \in fs : f \in Nat /\ f <= ExecutionFrame(x) + 1
      <3>1. fs = {} \/ fs = FinalFrames(x)
        BY <1>5 DEF Issuing
      <3>. QED
        BY <2>2, <3>1 DEF FinalFrames
    <2> HIDE DEF data
    <2>5. \A m \in InfosFor(x, fs, data) : m.frame \in fs
      BY DEF InfosFor
    <2>6. \A m \in {c} \cup InfosFor(x, fs, data) :
            m.frame \in Nat /\ m.frame <= frame[x] + MaxRunAhead + 1
      <3>1. /\ frame[x] \in Nat /\ MaxRunAhead \in Nat
            /\ ExecutionFrame(x) + 1 <= frame[x] + MaxRunAhead + 1
        BY <1>0, <2>2, Lengths
      <3>2. c.frame \in Nat /\ c.frame <= frame[x] + MaxRunAhead + 1
        BY <2>2, <2>3, <3>1
      <3>3. \A f \in fs : f \in Nat /\ f <= frame[x] + MaxRunAhead + 1
        BY <2>2, <2>4, <3>1
      <3>. QED
        BY <2>5, <3>2, <3>3
    <2>. QED
      BY <1>4, <2>1, <2>6
  <1>6. ASSUME NEW x \in Players, Announcing(x)
        PROVE  ReachInv'
    <2> DEFINE data == frameData[x][x]
               fs == TickFrames(x)
    <2>1. sent' = sent \cup SendAll(x, InfosFor(x, fs, data))
      BY <1>6 DEF Announcing
    <2>2. /\ ExecutionFrame(x) \in Nat /\ ExecutionFrame(x) <= frame[x] + MaxRunAhead
          /\ lastFrameCompleted[x] \in Nat
      BY <1>0, ExecutionFrameIsNear DEF TypeOK
    <2>3. \A f \in fs : f \in Nat /\ f <= frame[x] + MaxRunAhead + 1
      BY <1>0, <2>2, Lengths DEF TickFrames
    <2> HIDE DEF data, fs
    <2>4. \A m \in InfosFor(x, fs, data) : m.frame \in fs
      BY DEF InfosFor
    <2>. QED
      BY <1>4, <2>1, <2>3, <2>4
  <1>7. ASSUME sent' = sent
        PROVE  ReachInv'
    BY <1>2, <1>7 DEF ReachInv
  <1>. QED
    BY <1>0, <1>5, <1>6, <1>7, NothingIssued, Steps

-------------------------------------------------------------------------------
(* Agreement.                                                                *)

\* What was executed goes on being what was issued for its frame.
LEMMA ExecutesNext ==
  ASSUME TypeOK, AgreementInv, [Next]_vars
  PROVE  ExecutesWhatWasIssued'
  <1>0. /\ \A r \in Players : CountersInv(r)
        /\ ExecutesWhatWasIssued
        /\ executed \in [Players -> Seq(SUBSET Command)]
        /\ frame \in [Players -> Nat]
    BY DEF AgreementInv, TypeOK
  <1> SUFFICES ASSUME NEW p \in Players, NEW f \in 1 .. Len(executed'[p])
               PROVE  executed'[p][f] = IssuedFor(f)'
    BY DEF ExecutesWhatWasIssued
  <1>1. ASSUME NEW g \in Nat, \A q \in Players : Closed(q, g)
        PROVE  IssuedFor(g)' = IssuedFor(g)
    <2>1. \A q \in Players : IssuedBy(q, g)' = IssuedBy(q, g)
      BY <1>0, <1>1, IssuedStays
    <2>2. /\ \A c \in Commands : c.player \in Players
          /\ \A c \in Commands' : c.player \in Players
      <3>1. \A m \in Message : m.player \in Players
        BY DEF Message, Command, CommandWith, FrameInfo
      <3>2. TypeOK'
        BY TypeOKNext
      <3>3. Messages \subseteq Message /\ Messages' \subseteq Message
        BY <3>2 DEF TypeOK, Messages, Sent
      <3>. QED
        BY <3>1, <3>3 DEF Commands
    <2>. QED
      BY <2>1, <2>2 DEF IssuedBy, IssuedFor
  <1>2. ASSUME executed'[p] = executed[p] \/ f \in 1 .. Len(executed[p]),
               f \in 1 .. Len(executed[p]) => executed'[p][f] = executed[p][f]
        PROVE  executed'[p][f] = IssuedFor(f)'
    <2>1. f \in 1 .. Len(executed[p]) /\ f \in Nat
      BY <1>0, <1>2
    <2>2. \A q \in Players : Closed(q, f)
      BY <2>1 DEF AgreementInv, HistoryInv
    <2>. QED
      BY <1>0, <1>1, <1>2, <2>1, <2>2 DEF ExecutesWhatWasIssued
  <1>3. ASSUME NEW r \in Players, RunFrame(r)
        PROVE  executed'[p][f] = IssuedFor(f)'
    <2> DEFINE list == FrameCommandList(r)
    <2>1. executed' = [executed EXCEPT ![r] = Append(executed[r], list)]
      BY <1>3 DEF RunFrame
    <2>2. CASE p # r
      <3>1. executed'[p] = executed[p]
        BY <1>0, <2>1, <2>2
      <3>. QED
        BY <1>2, <3>1
    <2>3. CASE p = r
      <3>1. list \in SUBSET Command /\ list = IssuedFor(frame[p])
        BY <1>3, <2>3, FrameCommandListType, ListIsIssued
      <3>2. /\ executed'[p] = Append(executed[p], list)
            /\ executed[p] \in Seq(SUBSET Command)
        BY <1>0, <2>1, <2>3
      <3>3. Len(executed[p]) = frame[p] - 1 /\ frame[p] \in Nat
        <4>1. localStatus[p] \in {"INGAME", "LEAVING"}
          BY <1>3, <2>3 DEF RunFrame
        <4>2. CountersInv(p) /\ frame[p] \in Nat
          BY <1>0
        <4>. QED
          BY <4>1, <4>2 DEF CountersInv
      <3> HIDE DEF list
      <3>4. /\ Len(executed'[p]) = frame[p]
            /\ \A g \in 1 .. Len(executed[p]) : executed'[p][g] = executed[p][g]
            /\ executed'[p][Len(executed[p]) + 1] = list
        BY <3>1, <3>2, <3>3
      <3>5. CASE f \in 1 .. Len(executed[p])
        BY <1>2, <3>4, <3>5
      <3>6. CASE f \notin 1 .. Len(executed[p])
        <4>1. f = frame[p] /\ executed'[p][f] = list /\ f \in Nat
          BY <3>3, <3>4, <3>6
        <4>2. \A q \in Players : Closed(q, frame[p])
          BY <1>3, <2>3, SlotComplete, NothingOfOthers
        <4>3. IssuedFor(f)' = IssuedFor(f)
          BY <1>1, <4>1, <4>2
        <4>. QED
          BY <3>1, <4>1, <4>3
      <3>. QED
        BY <3>5, <3>6
    <2>. QED
      BY <2>2, <2>3
  <1>4. CASE executed' = executed
    BY <1>2, <1>4
  <1>. QED
    BY <1>0, <1>3, <1>4, OnlyFrameData, Steps
       DEF Issuing, Announcing, Waiting, vars

\* Agreement holds before the game starts.
LEMMA AgreementInit == Init => AgreementInv
  <1> SUFFICES ASSUME Init PROVE AgreementInv
    OBVIOUS
  <1>1. sent = {} /\ Messages = {} /\ Commands = {} /\ FrameInfos = {}
    BY DEF Init, Messages, Commands, FrameInfos
  <1>2. /\ IsFiniteSet(Commands)
        /\ \A q \in Players : CommandsBy(q) = {} /\ LeavesOf(q) = {}
        /\ \A q \in Players, f \in Nat : IssuedBy(q, f) = {}
        /\ Cardinality({}) = 0
    BY <1>1, FS_EmptySet DEF CommandsBy, LeavesOf, IssuedBy
  <1>3. ASSUME NEW p \in Players
        PROVE  /\ frame[p] = 0 /\ localStatus[p] = "PREGAME"
               /\ runAhead[p] = FirstRunAhead
               /\ lastExecutionFrame[p] = FirstRunAhead - 1
               /\ executed[p] = << >>
               /\ \A q \in Players : presence[p][q] = "playing"
    BY DEF Init
  <1>4. ASSUME NEW p \in Players
        PROVE  CountersInv(p) /\ IssuedInv(p) /\ OwnInv(p)
    <2>1. Len(<< >>) = 0
      OBVIOUS
    <2>2. CountersInv(p)
      BY <1>3, <2>1, Lengths DEF CountersInv
    <2>. QED
      BY <1>2, <1>3, <2>2 DEF IssuedInv, OwnInv
  <1>5. AnnouncedInv /\ ReachInv
    BY <1>1 DEF AnnouncedInv, ReachInv
  <1>6. ASSUME NEW p \in Players, NEW q \in Players
        PROVE  HistoryInv(p, q) /\ HeldInv(p, q) /\ CountInv(p, q)
    <2>1. HistoryInv(p, q)
      <3>1. Len(<< >>) = 0
        OBVIOUS
      <3>. QED
        BY <1>2, <1>3, <3>1 DEF HistoryInv
    <2>2. frameData[p][q] = [i \in Indices |->
            IF \E f \in 1 .. FirstRunAhead - 1 : i = Index(f)
            THEN [commands |-> {}, announced |-> 0]
            ELSE [commands |-> {},
                  announced |-> IF p = q THEN 0 ELSE NotAnnounced]]
      BY DEF Init, StartOfGame, ResetData
    <2>3. \A i \in Indices : frameData[p][q][i].commands = {}
      BY <2>2
    <2>4. ASSUME p # q, NEW i \in Indices,
                 frameData[p][q][i].announced # NotAnnounced
          PROVE  \E f \in Nat \ {0} :
                   /\ Index(f) = i /\ Within(p, f) /\ Closed(q, f)
                   /\ frameData[p][q][i].announced = Cardinality(IssuedBy(q, f))
      <3>1. /\ \E f \in 1 .. FirstRunAhead - 1 : i = Index(f)
            /\ frameData[p][q][i].announced = 0
        BY <2>2, <2>4
      <3>2. PICK f \in 1 .. FirstRunAhead - 1 : i = Index(f)
        BY <3>1
      <3>3. f \in Nat \ {0} /\ f < FirstRunAhead /\ f < FRAME_DATA_LENGTH
        BY <3>2, Lengths
      <3>4. Within(p, f) /\ Closed(q, f)
        BY <1>3, <3>3, Lengths DEF Within, Closed
      <3>. QED
        BY <1>2, <3>1, <3>2, <3>3, <3>4
    <2>. QED
      BY <2>1, <2>3, <2>4 DEF HeldInv, CountInv
  <1>7. ExecutesWhatWasIssued
    <2>1. Len(<< >>) = 0
      OBVIOUS
    <2>. QED
      BY <1>3, <2>1 DEF ExecutesWhatWasIssued
  <1>. QED
    BY <1>2, <1>4, <1>5, <1>6, <1>7 DEF AgreementInv

\* Every step keeps it.
LEMMA AgreementNext ==
  TypeOK /\ CountsInv /\ AgreementInv /\ [Next]_vars => AgreementInv'
  <1> SUFFICES ASSUME TypeOK, CountsInv, AgreementInv, [Next]_vars
               PROVE  AgreementInv'
    OBVIOUS
  <1>0. /\ \A p \in Players : CountersInv(p)
        /\ \A p \in Players : IssuedInv(p)
        /\ IsFiniteSet(Commands)
    BY DEF AgreementInv
  <1>1. \A p \in Players : CountersInv(p)' /\ IssuedInv(p)' /\ OwnInv(p)'
    BY <1>0, CountersNext, IssuedNext, OwnNext
  <1>2. \A p, q \in Players : HistoryInv(p, q)' /\ HeldInv(p, q)' /\ CountInv(p, q)'
    BY HistoryNext, HeldNext, CountNext
  <1>3. AnnouncedInv' /\ ReachInv' /\ ExecutesWhatWasIssued'
    BY AnnouncedNext, ReachNext, ExecutesNext
  <1>4. IsFiniteSet(Commands)'
    <2>1. CASE Players = {}
      <3>1. Commands' = {}
        <4>1. TypeOK'
          BY TypeOKNext
        <4>2. Messages' \subseteq Message
          BY <4>1 DEF TypeOK, Messages, Sent
        <4>3. \A m \in Message : m.player \in Players
          BY DEF Message, Command, CommandWith, FrameInfo
        <4>. QED
          BY <2>1, <4>2, <4>3 DEF Commands
      <3>. QED
        BY <3>1, FS_EmptySet
    <2>2. CASE Players # {}
      BY <1>0, <2>2, IssuedNext
    <2>. QED
      BY <2>1, <2>2
  <1>. QED
    BY <1>1, <1>2, <1>3, <1>4 DEF AgreementInv

\* Together with the type and the announcements it is inductive: what a ring
\* holds agrees with what was issued, at any time.
THEOREM AgreementIsInvariant == Spec => [](TypeOK /\ CountsInv /\ AgreementInv)
  <1>1. Init => TypeOK /\ CountsInv /\ AgreementInv
    BY TypeOKInit, CountsInvInit, AgreementInit
  <1>2. TypeOK /\ CountsInv /\ AgreementInv /\ [Next]_vars
          => (TypeOK /\ CountsInv /\ AgreementInv)'
    BY TypeOKNext, CountsInvNext, AgreementNext
  <1>. QED
    BY <1>1, <1>2, PTL DEF Spec

\* All computers execute the same commands in the same frame, those issued for
\* it and no other, for any number of players, any run-aheads and lengths, and
\* whoever leaves (Network::RelayCommandsToCommandList).
THEOREM Agreement == Spec => []ExecutesWhatWasIssued
  <1>1. AgreementInv => ExecutesWhatWasIssued
    BY DEF AgreementInv
  <1>. QED
    BY <1>1, AgreementIsInvariant, PTL

\* The first computer to run a frame decides it, the others repeat it.
LEMMA ScheduleStep ==
  ASSUME TypeOK, AgreementInv, [Next]_vars
  PROVE  [Schedule!Next]_executed
  <1>1. CASE executed' = executed
    BY <1>1
  <1>2. ASSUME NEW p \in Players, RunFrame(p)
        PROVE  Schedule!Next
    <2> DEFINE list == FrameCommandList(p)
               f == Len(executed[p]) + 1
    <2>1. list \subseteq Command /\ list = IssuedFor(frame[p])
      BY <1>2, FrameCommandListType, ListIsIssued
    <2>2. executed \in [Players -> Seq(SUBSET Command)]
      BY DEF TypeOK
    <2>3. executed' = [executed EXCEPT ![p] = Append(executed[p], list)]
      BY <1>2 DEF RunFrame
    <2>4. Len(executed[p]) = frame[p] - 1 /\ frame[p] \in Nat
      <3>1. localStatus[p] \in {"INGAME", "LEAVING"}
        BY <1>2 DEF RunFrame
      <3>2. CountersInv(p) /\ frame[p] \in Nat
        BY DEF AgreementInv, TypeOK
      <3>. QED
        BY <3>1, <3>2 DEF CountersInv
    <2>5. f = frame[p] /\ f \in Nat /\ f >= 1
      <3>1. Len(executed[p]) \in Nat
        BY <2>2
      <3>. QED
        BY <2>4, <3>1
    <2> HIDE DEF list
    <2>6. /\ executed'[p] = Append(executed[p], list)
          /\ Len(executed'[p]) = f
          /\ executed'[p][f] = list
      BY <2>1, <2>2, <2>3
    <2>7. ASSUME NEW q \in Players, f <= Len(executed[q])
          PROVE  executed[q][f] = list
      <3>1. f \in 1 .. Len(executed[q])
        BY <2>2, <2>5, <2>7
      <3>2. executed[q][f] = IssuedFor(f)
        BY <3>1 DEF AgreementInv, ExecutesWhatWasIssued
      <3>. QED
        BY <2>1, <2>5, <3>2
    <2> HIDE DEF f
    <2>8. Schedule!DecidedFor(f) \subseteq {list}
      BY <2>7 DEF Schedule!DecidedFor
    <2>9. Schedule!Execute(p)
      BY <2>1, <2>3, <2>6, <2>8 DEF Schedule!Execute, f
    <2>. QED
      BY <2>9 DEF Schedule!Next
  <1>. QED
    BY <1>1, <1>2, OnlyFrameData, Steps DEF AgreementInv, Issuing, Announcing, Waiting, vars

\* The computers implement one schedule, for any number of them.
THEOREM Implements == Spec => OneSchedule
  <1>1. Init => Schedule!Init
    BY DEF Init, Schedule!Init
  <1>2. TypeOK /\ AgreementInv /\ [Next]_vars => [Schedule!Next]_executed
    BY ScheduleStep
  <1>. QED
    BY <1>1, <1>2, AgreementIsInvariant, PTL DEF Spec, OneSchedule, Schedule!Spec
===============================================================================
