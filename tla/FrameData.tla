------------------------------ MODULE FrameData ------------------------------
(***************************************************************************)
(* The command store of one player as another player's computer keeps it:  *)
(* FrameData (one logic frame's commands and its announced command count)  *)
(* and FrameDataManager (a ring of FRAME_DATA_LENGTH FrameDatas indexed by *)
(* the frame number modulo the length).  The class FrameDataManager knows  *)
(* frames only through that index: nothing in it tells frame f from frame  *)
(* f + FRAME_DATA_LENGTH.                                                  *)
(*                                                                         *)
(* A FrameData is the record of the set of its commands and the announced  *)
(* count.  m_commandCount is not kept apart: every operation used in a     *)
(* game moves it together with the list, so it is the number of commands.  *)
(* m_frame is written and never read; m_lastFailedCC and                   *)
(* m_lastFailedFrameCC only silence a log.                                 *)
(***************************************************************************)
EXTENDS Integers, FiniteSets

CONSTANT MAX_FRAMES_AHEAD   \* 128 in NetworkUtil.cpp

ASSUME MaxFramesAheadAssumption ==
  MAX_FRAMES_AHEAD \in Nat /\ MAX_FRAMES_AHEAD >= 4

SHORT_DATA_LENGTH == MAX_FRAMES_AHEAD   \* faulty variant: no room for both

FRAME_DATA_LENGTH == (MAX_FRAMES_AHEAD + 1) * 2
FRAMES_TO_KEEP == (MAX_FRAMES_AHEAD \div 2) + 1

Indices == 0 .. FRAME_DATA_LENGTH - 1
Index(frame) == frame % FRAME_DATA_LENGTH

(***************************************************************************)
(* m_frameCommandCount = -1: stored in an UnsignedInt, it is larger than   *)
(* every command count, so a frame nobody announced is not ready and is    *)
(* never taken for one with too many commands.                             *)
(***************************************************************************)
NotAnnounced == -1

FrameDatas(Command) ==
  [commands : {cs \in SUBSET Command : IsFiniteSet(cs)},
   announced : Nat \cup {NotAnnounced}]

CommandCount(fd) == Cardinality(fd.commands)

(***************************************************************************)
(* FrameData::reset; the manager of the local player then announces the    *)
(* (zero) commands there are, which is how a computer never waits for      *)
(* itself.                                                                 *)
(***************************************************************************)
ResetData(isLocal) ==
  [commands |-> {}, announced |-> IF isLocal THEN 0 ELSE NotAnnounced]

(***************************************************************************)
(* FrameDataManager::init, then what Network::parseUserList does to it:    *)
(* destroyGameMessages (nothing to destroy in a new manager) and           *)
(* zeroFrames(1, runAhead - 1), since no command can be issued for those.  *)
(***************************************************************************)
StartOfGame(isLocal, runAhead) ==
  [i \in Indices |->
     IF \E f \in 1 .. runAhead - 1 : i = Index(f)
     THEN [commands |-> {}, announced |-> 0]
     ELSE ResetData(isLocal)]

\* A command already in the list is not added twice (FrameData::addCommand).
AddCommand(ring, isLocal, frame, command) ==
  LET with == ring[Index(frame)].commands \cup {command}
  IN  [ring EXCEPT ![Index(frame)] =
         [commands  |-> with,
          announced |-> IF isLocal THEN Cardinality(with) ELSE @.announced]]

Announce(ring, frame, count) == [ring EXCEPT ![Index(frame)].announced = count]

ResetFrame(ring, isLocal, frame) ==
  [ring EXCEPT ![Index(frame)] = ResetData(isLocal)]

IsReadySigned(fd) == fd.announced <= CommandCount(fd)   \* faulty variant

\* The three results of FrameData::allCommandsReady; NOTREADY is neither.
IsReady(fd) == fd.announced = CommandCount(fd)
HasTooMany(fd) == fd.announced # NotAnnounced /\ CommandCount(fd) > fd.announced

==============================================================================
