------------------------------- MODULE Lockstep -------------------------------
(***************************************************************************)
(* The lockstep layer of the multiplayer game.  Every computer simulates   *)
(* every player's units, so all of them must execute the same commands in  *)
(* the same logic frame.  A command a player gives in frame f is scheduled *)
(* for its execution frame, m_runAhead frames later, and sent to everyone. *)
(* When a player can no longer add commands to a frame, he announces how   *)
(* many there are (NETCOMMANDTYPE_FRAMEINFO); a computer executes a frame  *)
(* when it has, for every player, as many commands as announced.           *)
(*                                                                         *)
(* The module is Network.cpp and the frame data part of                    *)
(* ConnectionManager.cpp, one computer per player.  Delivery is abstract:  *)
(* what was sent stays in `sent' and reaches each computer it is meant for *)
(* at any time, in any order and any number of times, which covers the     *)
(* resends, the duplicates and the detour over the packet router.  A run   *)
(* of Network::update is split into the calls it makes (FrameTick,         *)
(* SendLocalGameMessage, UpdateRunAhead, ProcessNetCommand, RunFrame):     *)
(* computers share nothing but messages, and the split allows every list   *)
(* of commands and every batch of packets.                                 *)
(***************************************************************************)
EXTENDS FrameData, Sequences, FiniteSetsExt

CONSTANTS
  Players,           \* the slots of the human players
  MIN_RUNAHEAD,      \* 4 in NetworkUtil.cpp
  FirstRunAhead,     \* m_runAhead in Network::init
  MaxFrame,          \* bound: the game is followed up to this frame
  CommandLimit,      \* bound: commands of each player, besides leaving
  RunAheads,         \* the run-aheads the packet router may compute
  Leavers            \* the players who may leave the game

ASSUME PlayersAssumption == Players \subseteq Nat /\ IsFiniteSet(Players)
ASSUME RunAheadAssumption ==
  /\ MIN_RUNAHEAD \in Nat \ {0}
  /\ FirstRunAhead \in MIN_RUNAHEAD .. MAX_FRAMES_AHEAD \div 2
  /\ RunAheads \subseteq MIN_RUNAHEAD .. MAX_FRAMES_AHEAD \div 2
ASSUME BoundsAssumption ==
  /\ MaxFrame \in Nat
  /\ CommandLimit \in [Players -> Nat]
  /\ Leavers \subseteq Players

VARIABLES
  frame,               \* TheGameLogic->getFrame()
  localStatus,         \* m_localStatus
  lastFrame,           \* m_lastFrame: the frame of the last frame tick
  runAhead,            \* m_runAhead
  lastExecutionFrame,  \* m_lastExecutionFrame
  lastFrameCompleted,  \* m_lastFrameCompleted: the last announced frame
  commandID,           \* the last command ID GenerateNextCommandID gave
  frameData,           \* frameData[p][q]: m_frameData[q] on p's computer
  presence,            \* presence[p][q]: q in the eyes of p's computer
  quitFrame,           \* quitFrame[p][q]: m_quitFrame of frameData[p][q]
  sent,                \* every synchronized message ever sent
  executed             \* history: the commands each computer executed

vars == <<frame, localStatus, lastFrame, runAhead, lastExecutionFrame,
          lastFrameCompleted, commandID, frameData, presence, quitFrame,
          sent, executed>>

runVars == <<frame, lastFrame, runAhead, presence, quitFrame, executed>>

\* The limits updateRunAhead clamps a new run-ahead to.
PossibleRunAheads == MIN_RUNAHEAD .. MAX_FRAMES_AHEAD \div 2

\* value is the new run-ahead of a RUNAHEAD and 0 in the other commands.
CommandWith(types, values) ==
  [type : types, player : Players, id : Nat, frame : Nat, value : values]

Command == CommandWith({"GAMECOMMAND", "PLAYERLEAVE"}, {0})
             \cup CommandWith({"RUNAHEAD"}, PossibleRunAheads)

FrameInfo ==
  [type : {"FRAMEINFO"}, player : Players, frame : Nat, count : Nat]

Message == Command \cup FrameInfo

\* A message and the players it is sent to (the m_relay mask of NetCommandRef).
Sent == [msg : Message, to : SUBSET Players]

(***************************************************************************)
(* A player is "playing", or "quitting" after his PLAYERLEAVE was executed *)
(* here (FrameDataManager::getIsQuitting), or "gone" once his frame data   *)
(* is deleted.                                                             *)
(***************************************************************************)
Presence == {"playing", "quitting", "gone"}
Playing(p) == {q \in Players : presence[p][q] = "playing"}

\* The fallback list is the playing slots in order, its head the router.
PacketRouter(p) == Min(Playing(p))

TypeOK ==
  /\ frame \in [Players -> Nat]
  /\ localStatus \in [Players -> {"PREGAME", "INGAME", "LEAVING", "LEFT"}]
  /\ lastFrame \in [Players -> Nat]
  /\ runAhead \in [Players -> PossibleRunAheads]
  /\ lastExecutionFrame \in [Players -> Nat]
  /\ lastFrameCompleted \in [Players -> Nat]
  /\ commandID \in [Players -> Nat]
  /\ frameData \in [Players -> [Players -> [Indices -> FrameDatas(Command)]]]
  /\ presence \in [Players -> [Players -> Presence]]
  /\ quitFrame \in [Players -> [Players -> Nat]]
  /\ sent \subseteq Sent
  /\ executed \in [Players -> Seq(SUBSET Command)]

-------------------------------------------------------------------------------
(* Issuing commands.                                                         *)

\* Faulty variant: the run-ahead alone decides.
ExecutionFrameByRunAhead(p) == frame[p] + runAhead[p]

\* Network::getExecutionFrame: the frame of the next command never decreases,
\* also when the run-ahead does.
ExecutionFrame(p) == Max({frame[p] + runAhead[p], lastExecutionFrame[p]})

\* Faulty variant: the code before the comment in updateRunAhead was written.
RunAheadFrameByRunAhead(p) == frame[p] + runAhead[p]

\* The frame a new run-ahead takes effect in (updateRunAhead).
RunAheadFrame(p) == Max({ExecutionFrame(p), frame[p] + runAhead[p]})

(***************************************************************************)
(* A connection to a quitting player takes no more messages.  A message    *)
(* goes to the packet router, who passes it on to the players still        *)
(* playing in his eyes, or to the next one when he leaves first: `to' is   *)
(* whom any computer in the game may pass it on to.                        *)
(***************************************************************************)
Recipients(p) ==
  {q \in Players \ {p} :
     \E r \in Playing(p) : localStatus[r] # "LEFT" /\ q \in Playing(r)}

SendAll(p, messages) == {[msg |-> m, to |-> Recipients(p)] : m \in messages}

\* ConnectionManager::processFrameTick for each frame of the set.
InfosFor(p, fs, data) ==
  {[type |-> "FRAMEINFO", player |-> p, frame |-> f,
    count |-> CommandCount(data[Index(f)])] : f \in fs}

\* Faulty variant: the frames are announced before the command is counted.
IssueAfterAnnouncing(p, type, f, value, announcing) ==
  LET c == [type |-> type, player |-> p, id |-> commandID[p] + 1,
            frame |-> f, value |-> value]
      infos == InfosFor(p, announcing, frameData[p][p])
  IN  /\ commandID' = [commandID EXCEPT ![p] = @ + 1]
      /\ frameData' = [frameData EXCEPT ![p][p] = AddCommand(@, TRUE, f, c)]
      /\ sent' = sent \cup SendAll(p, {c} \cup infos)

\* sendLocalCommand: into the local frame data, and to everyone; then the
\* frames of `announcing' are announced.
Issue(p, type, f, value, announcing) ==
  LET c == [type |-> type, player |-> p, id |-> commandID[p] + 1,
            frame |-> f, value |-> value]
      data == AddCommand(frameData[p][p], TRUE, f, c)
  IN  /\ commandID' = [commandID EXCEPT ![p] = @ + 1]
      /\ frameData' = [frameData EXCEPT ![p][p] = data]
      /\ sent' = sent \cup SendAll(p, {c} \cup InfosFor(p, announcing, data))

\* Network::GetCommandsFromCommandList on a command of the local player.
SendLocalGameMessage(p) ==
  /\ localStatus[p] = "INGAME"
  /\ commandID[p] < CommandLimit[p]
  /\ Issue(p, "GAMECOMMAND", ExecutionFrame(p), 0, {})
  /\ lastExecutionFrame' = [lastExecutionFrame EXCEPT ![p] = ExecutionFrame(p)]
  /\ UNCHANGED <<runVars, localStatus, lastFrameCompleted>>

\* A run-ahead message of the packet router: the two messages of
\* updateRunAhead differ in the frame rate only and share one command ID.
UpdateRunAhead(p) ==
  /\ localStatus[p] = "INGAME"
  /\ lastFrame[p] = frame[p]
  /\ p = PacketRouter(p)
  /\ commandID[p] < CommandLimit[p]
  /\ \E newRunAhead \in RunAheads :
       Issue(p, "RUNAHEAD", RunAheadFrame(p), newRunAhead, {})
  /\ lastExecutionFrame' = [lastExecutionFrame EXCEPT ![p] = ExecutionFrame(p)]
  /\ UNCHANGED <<runVars, localStatus, lastFrameCompleted>>

(***************************************************************************)
(* Network::processCommand on the frame tick the client posts in each      *)
(* update: the game starts on frame 1, and in a new frame every frame no   *)
(* command can be added to any more is announced.                          *)
(***************************************************************************)
FrameTick(p) ==
  LET inGame == localStatus[p] \in {"PREGAME", "INGAME"}
      completed == lastFrameCompleted[p] + 1 .. ExecutionFrame(p) - 1
  IN  /\ \/ localStatus[p] = "PREGAME" /\ frame[p] = 1
         \/ localStatus[p] \in {"INGAME", "LEAVING"} /\ lastFrame[p] # frame[p]
      /\ lastFrame' = [lastFrame EXCEPT ![p] = frame[p]]
      /\ IF inGame
         THEN /\ localStatus' = [localStatus EXCEPT ![p] = "INGAME"]
              /\ lastExecutionFrame' =
                   [lastExecutionFrame EXCEPT ![p] = ExecutionFrame(p)]
              /\ sent' =
                   sent \cup SendAll(p, InfosFor(p, completed, frameData[p][p]))
              /\ lastFrameCompleted' =
                   [lastFrameCompleted EXCEPT
                      ![p] = Max({@, ExecutionFrame(p) - 1})]
         ELSE UNCHANGED <<localStatus, lastExecutionFrame, sent,
                          lastFrameCompleted>>
      /\ UNCHANGED <<frame, runAhead, commandID, frameData, presence,
                     quitFrame, executed>>

(***************************************************************************)
(* Network::processCommand on MSG_CLEAR_GAME_DATA: the player leaves on    *)
(* the frame after his last execution frame; both are announced, since no  *)
(* later tick will announce them.                                          *)
(***************************************************************************)
FinalFramesShort(p) == {ExecutionFrame(p)}   \* faulty variant

FinalFrames(p) == {ExecutionFrame(p), ExecutionFrame(p) + 1}

\* Faulty variant: the local status stays what it was.
LeaveGameInGame(p) ==
  /\ p \in Leavers
  /\ localStatus[p] = "INGAME"
  /\ lastFrame[p] = frame[p]
  /\ Issue(p, "PLAYERLEAVE", ExecutionFrame(p) + 1, 0, FinalFrames(p))
  /\ lastExecutionFrame' = [lastExecutionFrame EXCEPT ![p] = ExecutionFrame(p)]
  /\ lastFrameCompleted' = [lastFrameCompleted EXCEPT ![p] = ExecutionFrame(p)]
  /\ UNCHANGED <<runVars, localStatus>>

LeaveGame(p) ==
  /\ p \in Leavers
  /\ localStatus[p] = "INGAME"
  /\ lastFrame[p] = frame[p]
  /\ Issue(p, "PLAYERLEAVE", ExecutionFrame(p) + 1, 0, FinalFrames(p))
  /\ lastExecutionFrame' = [lastExecutionFrame EXCEPT ![p] = ExecutionFrame(p)]
  /\ lastFrameCompleted' = [lastFrameCompleted EXCEPT ![p] = ExecutionFrame(p)]
  /\ localStatus' = [localStatus EXCEPT ![p] = "LEAVING"]
  /\ UNCHANGED runVars

-------------------------------------------------------------------------------
(* Receiving.                                                                *)

\* Faulty variant: without the guard against out of date commands.
AcceptsOutOfDate(p, q, f) == presence[p][q] # "gone"

(***************************************************************************)
(* ConnectionManager::processNetCommand drops a synchronized command for a *)
(* frame already executed, and everything from a player who is gone.       *)
(***************************************************************************)
Accepts(p, q, f) == presence[p][q] # "gone" /\ f >= frame[p]

(***************************************************************************)
(* ConnectionManager::allCommandsReady(f, TRUE) after each synchronized    *)
(* command.  It stops at the first player whose commands are not all       *)
(* there; if he has more commands than announced, the frame of every       *)
(* remote player is cleared to be sent again.                              *)
(***************************************************************************)
AfterReadinessTest(p, data, f) ==
  LET unready == {q \in Playing(p) : ~IsReady(data[q][Index(f)])}
  IN  IF unready # {} /\ HasTooMany(data[Min(unready)][Index(f)])
      THEN [q \in Players |->
              IF q = p THEN data[q] ELSE ResetFrame(data[q], FALSE, f)]
      ELSE data

Receive(p, q, f, data) ==
  /\ p # q
  /\ localStatus[p] # "LEFT"
  /\ Accepts(p, q, f)
  /\ frameData' = [frameData EXCEPT ![p] =
                     AfterReadinessTest(p, [@ EXCEPT ![q] = data], f)]
  /\ UNCHANGED <<runVars, localStatus, lastExecutionFrame, lastFrameCompleted,
                 commandID, sent>>

\* What is sent to p by q.
SentTo(p, q) == {s.msg : s \in {t \in sent : p \in t.to /\ t.msg.player = q}}

\* processFrameInfo.
ReceiveFrameInfo(p, q) ==
  \E i \in SentTo(p, q) :
    /\ i.type = "FRAMEINFO"
    /\ Receive(p, q, i.frame, Announce(frameData[p][q], i.frame, i.count))

\* sendRemoteCommand on a computer the command is meant for.
ReceiveCommand(p, q) ==
  \E c \in SentTo(p, q) :
    /\ c.type # "FRAMEINFO"
    /\ Receive(p, q, c.frame, AddCommand(frameData[p][q], FALSE, c.frame, c))

-------------------------------------------------------------------------------
(* Executing a frame.                                                        *)

\* Faulty variant: a player who left is not waited for.
AllCommandsReadyOfPresent(p) ==
  \A q \in Playing(p) :
    localStatus[q] = "LEFT" \/ IsReady(frameData[p][q][Index(frame[p])])

AllCommandsReady(p) ==
  \A q \in Playing(p) : IsReady(frameData[p][q][Index(frame[p])])

\* ConnectionManager::update deletes the frame data whose quit frame came.
PresenceNow(p) ==
  [q \in Players |->
     IF presence[p][q] = "quitting" /\ quitFrame[p][q] = frame[p]
     THEN "gone" ELSE presence[p][q]]

\* ConnectionManager::getFrameCommandList, quitting players included.
FrameCommandList(p) ==
  UNION {frameData[p][q][Index(frame[p])].commands :
           q \in {r \in Players : PresenceNow(p)[r] # "gone"}}

\* Faulty variants: nothing is reset; one frame less is kept.
ForgetNothing(p) == frameData[p]
ForgetFrameEarly(p) ==
  [q \in Players |-> ResetFrame(frameData[p][q], p = q,
                                frame[p] + 1 - FRAMES_TO_KEEP)]

\* ... which gives up the oldest frame kept for a player who fell behind.
ForgetFrame(p) ==
  IF frame[p] > FRAMES_TO_KEEP
  THEN [q \in Players |->
          IF PresenceNow(p)[q] = "gone" THEN frameData[p][q]
          ELSE ResetFrame(frameData[p][q], p = q, frame[p] - FRAMES_TO_KEEP)]
  ELSE frameData[p]

\* The last of a frame's RUNAHEADs in the order of the list decides.
LaterInList(c, d) == c.player > d.player \/ (c.player = d.player /\ c.id >= d.id)

\* Faulty variant: every command is taken for a RUNAHEAD.
RunAheadsAfterAny(p, list) ==
  IF list = {} THEN {runAhead[p]}
  ELSE {c.value : c \in {d \in list : \A e \in list : LaterInList(d, e)}}

\* processRunAheadCommand: the set of the one run-ahead after the frame.
RunAheadsAfter(p, list) ==
  LET changes == {c \in list : c.type = "RUNAHEAD"}
  IN  IF changes = {} THEN {runAhead[p]}
      ELSE {c.value : c \in {d \in changes : \A e \in changes : LaterInList(d, e)}}

LeavingIn(list) == {c.player : c \in {d \in list : d.type = "PLAYERLEAVE"}}

\* processPlayerLeave and disconnectPlayer for the players of a frame's
\* PLAYERLEAVEs: frame data of others is kept for a while, one's own deleted.
QuitFrame(p) == frame[p] + FRAMES_TO_KEEP + 1

\* Faulty variant: the frame data of who left is deleted at once.
PresenceAfterAtOnce(p, leaving) ==
  [q \in Players |-> IF q \in leaving THEN "gone" ELSE PresenceNow(p)[q]]

PresenceAfter(p, leaving) ==
  [q \in Players |->
     IF q \in leaving
     THEN IF q = p \/ PresenceNow(p)[q] = "gone" THEN "gone" ELSE "quitting"
     ELSE PresenceNow(p)[q]]

\* Before the game starts a frame needs no commands (AllCommandsReady).
RunPregameFrame(p) ==
  /\ localStatus[p] = "PREGAME"
  /\ frame[p] = 0
  /\ frame' = [frame EXCEPT ![p] = 1]
  /\ UNCHANGED <<localStatus, lastFrame, runAhead, lastExecutionFrame,
                 lastFrameCompleted, commandID, frameData, presence, quitFrame,
                 sent, executed>>

\* RelayCommandsToCommandList, and the logic frame it makes possible.
RunFrame(p) ==
  LET list == FrameCommandList(p)
      leaving == LeavingIn(list)
  IN  /\ localStatus[p] \in {"INGAME", "LEAVING"}
      /\ lastFrame[p] = frame[p]
      /\ frame[p] < MaxFrame
      /\ AllCommandsReady(p)
      /\ executed' = [executed EXCEPT ![p] = Append(@, list)]
      /\ frameData' = [frameData EXCEPT ![p] = ForgetFrame(p)]
      /\ \E newRunAhead \in RunAheadsAfter(p, list) :
           runAhead' = [runAhead EXCEPT ![p] = newRunAhead]
      /\ presence' = [presence EXCEPT ![p] = PresenceAfter(p, leaving)]
      /\ quitFrame' = [quitFrame EXCEPT ![p] = [q \in Players |->
                         IF q \in leaving \ {p} /\ PresenceNow(p)[q] = "playing"
                         THEN QuitFrame(p) ELSE @[q]]]
      /\ localStatus' = IF p \in leaving
                        THEN [localStatus EXCEPT ![p] = "LEFT"]
                        ELSE localStatus
      /\ frame' = [frame EXCEPT ![p] = @ + 1]
      /\ UNCHANGED <<lastFrame, lastExecutionFrame, lastFrameCompleted,
                     commandID, sent>>

-------------------------------------------------------------------------------
Init ==
  /\ frame = [p \in Players |-> 0]
  /\ localStatus = [p \in Players |-> "PREGAME"]
  /\ lastFrame = [p \in Players |-> 0]
  /\ runAhead = [p \in Players |-> FirstRunAhead]
  /\ lastExecutionFrame = [p \in Players |-> FirstRunAhead - 1]
  /\ lastFrameCompleted = [p \in Players |-> FirstRunAhead - 1]
  /\ commandID = [p \in Players |-> 0]
  /\ frameData = [p \in Players |-> [q \in Players |->
                    StartOfGame(p = q, FirstRunAhead)]]
  /\ presence = [p \in Players |-> [q \in Players |-> "playing"]]
  /\ quitFrame = [p \in Players |-> [q \in Players |-> 0]]
  /\ sent = {}
  /\ executed = [p \in Players |-> << >>]

Deliver(p, q) == ReceiveCommand(p, q) \/ ReceiveFrameInfo(p, q)

Next ==
  \E p \in Players :
    \/ SendLocalGameMessage(p)
    \/ UpdateRunAhead(p)
    \/ FrameTick(p)
    \/ LeaveGame(p)
    \/ RunPregameFrame(p)
    \/ RunFrame(p)
    \/ \E q \in Players : Deliver(p, q)

Spec == Init /\ [][Next]_vars

(***************************************************************************)
(* Every computer keeps calling GameEngine::update, whose client posts a   *)
(* frame tick and whose network runs a ready frame, and what was sent is   *)
(* sent again until it is acknowledged.  Players need not give commands or *)
(* leave.                                                                  *)
(***************************************************************************)
Fairness ==
  \A p \in Players :
    /\ WF_vars(FrameTick(p))
    /\ WF_vars(RunPregameFrame(p))
    /\ WF_vars(RunFrame(p))
    /\ \A q \in Players : WF_vars(Deliver(p, q))

FairSpec == Spec /\ Fairness

-------------------------------------------------------------------------------
(* Properties.                                                               *)

Messages == {s.msg : s \in sent}
Commands == {m \in Messages : m.type # "FRAMEINFO"}
FrameInfos == {m \in Messages : m.type = "FRAMEINFO"}

IssuedFor(f) == {c \in Commands : c.frame = f}

\* The number of commands announced for a frame is final: once a player's
\* frame info is out, none of his commands is ever scheduled for that frame,
\* whatever the run-ahead does and however he leaves (the hazard the comment
\* in ConnectionManager::updateRunAhead tells of).
NoLateCommand ==
  \A c \in Commands' \ Commands : \A i \in FrameInfos :
    c.player = i.player => c.frame # i.frame

AnnouncedCountsAreFinal == [][NoLateCommand]_sent

\* Why it holds: announcements stay behind the last completed frame, which
\* stays behind the last execution frame, and commands do not go below that.
AnnouncementsBehind(p) ==
  \A i \in FrameInfos :
    i.player = p =>
      localStatus[p] # "PREGAME"
        /\ (localStatus[p] = "INGAME" => i.frame <= lastFrameCompleted[p])
CompletedBehind(p) ==
  /\ localStatus[p] = "PREGAME" => lastFrameCompleted[p] < runAhead[p]
  /\ localStatus[p] = "INGAME" => lastFrameCompleted[p] < lastExecutionFrame[p]

CountsInv == \A p \in Players : AnnouncementsBehind(p) /\ CompletedBehind(p)

\* A computer executes in a frame the commands issued for it by all players,
\* all of them and no other, although it received them in any order, twice or
\* late and although its frame data is reused every FRAME_DATA_LENGTH frames.
ExecutesWhatWasIssued ==
  \A p \in Players : \A f \in 1 .. Len(executed[p]) :
    executed[p][f] = IssuedFor(f)

\* What a computer in the game has received for a frame it has not executed
\* stays there: the frame is not cleared because it has more commands than
\* announced (allCommandsReady), and its slot is not reset for an old frame.
KeepsWhatItReceived ==
  \A p, q \in Players :
    localStatus[p] = "INGAME" /\ presence'[p][q] = "playing" =>
      \A i \in Indices : \A c \in frameData[p][q][i].commands :
        c.frame >= frame'[p] => c \in frameData'[p][q][i].commands

NothingReceivedIsLost == [][KeepsWhatItReceived]_frameData

\* Everything in the frame data of a computer in the game lies in a window of
\* frames no longer than the ring, from the oldest frame kept on (from the
\* current one when its player is leaving): no two frames ever meet in one
\* slot, although the ring cannot tell them apart (processNetCommand's guard
\* against out of date commands, resetFrame, and the length of the ring).
SlotsHoldOneFrame ==
  \A p, q \in Players :
    localStatus[p] # "LEFT" /\ presence[p][q] # "gone" =>
      \A i \in Indices : \A c \in frameData[p][q][i].commands :
        LET kept == IF localStatus[p] = "LEAVING" THEN 0 ELSE FRAMES_TO_KEEP
        IN  /\ frame[p] - FRAMES_TO_KEEP <= c.frame
            /\ c.frame < frame[p] - kept + FRAME_DATA_LENGTH

\* For the last FRAMES_TO_KEEP frames a computer still has what it executed,
\* from the players who left meanwhile too, so that it can send it to a player
\* who did not get it (getFrameCommandList and processPlayerLeave).
KeepsRecentFrames ==
  \A p \in Players :
    localStatus[p] = "INGAME" =>
      \A f \in Max({1, frame[p] - FRAMES_TO_KEEP}) .. frame[p] - 1 :
        executed[p][f] =
          UNION {frameData[p][q][Index(f)].commands :
                   q \in {r \in Players : presence[p][r] # "gone"}}

\* To the simulation the computers are what CommandSchedule promises: whoever
\* gets to a frame first decides it, and the others repeat it.
Schedule == INSTANCE CommandSchedule

OneSchedule == Schedule!Spec

\* Nobody waits forever: every computer gets to the last frame followed, or
\* its player has left, whoever else leaves in the meantime.
EveryoneProceeds ==
  \A p \in Players : <>(frame[p] = MaxFrame \/ localStatus[p] = "LEFT")

===============================================================================
