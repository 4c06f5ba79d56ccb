------------------------------ MODULE Disconnect ------------------------------
(***************************************************************************)
(* The disconnect screen (DisconnectManager.cpp) over the lockstep layer.  *)
(* When a computer stops, the others run out of its commands and stop too, *)
(* each on the last frame it has every command for.  They show the         *)
(* disconnect screen, tell each other their frames, those behind get the   *)
(* commands they lack from those ahead, and when all wait on one frame the *)
(* next packet router has the silent player disconnected.                  *)
(*                                                                         *)
(* The commands themselves are those of module Lockstep: here they are the *)
(* number of frames of each player a computer has all the commands of.     *)
(* Time is abstract.  A player is timed out (m_networkPlayerTimeoutTime,   *)
(* one minute) or voted for only when nothing is on its way any more.      *)
(***************************************************************************)
EXTENDS Integers, FiniteSetsExt

CONSTANTS
  Players,         \* the slots of the human players
  RunAhead,        \* m_runAhead, here the same during the whole game
  FRAMES_TO_KEEP,  \* the frames kept after their execution
  FirstFrame,      \* the frame all computers are on at first
  MaxFrame,        \* bound: the game is followed up to this frame
  Stopped,         \* the players whose computers have just stopped at first
  Mortal,          \* the players whose computers may stop later
  Repeated         \* the types of messages that may arrive more than once

ASSUME PlayersAssumption == Players \subseteq Nat /\ IsFiniteSet(Players)
ASSUME FramesAssumption ==
  /\ RunAhead \in Nat \ {0} /\ FRAMES_TO_KEEP \in Nat
  /\ FirstFrame \in Nat \ {0} /\ MaxFrame \in Nat
ASSUME FaultsAssumption ==
  Stopped \subseteq Players /\ Mortal \subseteq Players /\ Repeated \subseteq STRING

VARIABLES
  status,          \* "up", "down", or "silent": nothing of it arrives any more
  frame,           \* TheGameLogic->getFrame()
  complete,        \* complete[p][q]: p has the commands of q below this frame
  connected,       \* connected[p]: the players connected in p's eyes
  manager,         \* manager[p]: p's DisconnectManager
  network,         \* the messages between the disconnect managers on their way
  disconnectedOn   \* history: the frame p disconnected q on, 0 if he has not

vars == <<status, frame, complete, connected, manager, network, disconnectedOn>>

(***************************************************************************)
(* votes[q][r] is the frame r voted q out on, 0 for no vote; disconnected  *)
(* and received are m_disconnectFrames and m_disconnectFramesReceived.     *)
(***************************************************************************)
Managers ==
  [screenOn : BOOLEAN, notified : BOOLEAN, timedOut : SUBSET Players,
   votes : [Players -> [Players -> Nat]], frames : [Players -> Nat],
   received : SUBSET Players]

\* FRAME and SCREENOFF are about their sender, COMMANDS are about's below frame.
Message ==
  [type : {"FRAME", "SCREENOFF", "VOTE", "PLAYER", "COMMANDS"}, from : Players,
   to : Players, frame : Nat, about : Players]

TypeOK ==
  /\ status \in [Players -> {"up", "down", "silent"}]
  /\ frame \in [Players -> Nat]
  /\ complete \in [Players -> [Players -> Nat]]
  /\ connected \in [Players -> SUBSET Players]
  /\ manager \in [Players -> Managers]
  /\ network \subseteq Message
  /\ disconnectedOn \in [Players -> [Players -> Nat]]
  /\ \A p \in Players : manager[p].timedOut # {} => manager[p].screenOn

Others(p) == connected[p] \ {p}

\* Messages go to open connections; a computer that stopped gets none.
Send(type, p, to, f, q) ==
  {[type |-> type, from |-> p, to |-> r, frame |-> f, about |-> q] :
     r \in {r \in to : status[r] = "up"}}

-------------------------------------------------------------------------------
(* The questions a disconnect manager asks.                                  *)

\* Faulty variant: the votes of every frame count.
CountAllVotes(p, q) == Cardinality({r \in Players : manager[p].votes[q][r] # 0})

CountVotesForPlayer(p, q) ==
  Cardinality({r \in Players : manager[p].votes[q][r] = frame[p]})

IsPlayerVotedOut(p, q) ==
  q # p /\ CountVotesForPlayer(p, q) >= Cardinality(connected[p]) - 1

IsPlayerInGame(p, q) ==
  /\ q \in connected[p]
  /\ ~IsPlayerVotedOut(p, q)
  /\ q \notin manager[p].timedOut

\* Faulty variant: a player whose frame is not known does not matter.
AllHeardOnSameFrame(p) ==
  \A q \in Others(p) :
    IsPlayerInGame(p, q) /\ q \in manager[p].received =>
      manager[p].frames[q] = manager[p].frames[p]

AllOnSameFrame(p) ==
  \A q \in Others(p) :
    IsPlayerInGame(p, q) =>
      q \in manager[p].received /\ manager[p].frames[q] = manager[p].frames[p]

\* The fallback list is the connected slots in order, its head the router.
PacketRouter(p) == Min(connected[p])

IsLocalPlayerNextPacketRouter(p) ==
  p = Min({q \in connected[p] : q = p \/ IsPlayerInGame(p, q)})

(***************************************************************************)
(* Player q's votes up to frame f are forgotten.                           *)
(***************************************************************************)
ResetPlayersVotes(m, q, f) ==
  [m EXCEPT !.votes =
     [r \in Players |-> [m.votes[r] EXCEPT
                           ![q] = IF m.votes[r][q] <= f THEN 0 ELSE m.votes[r][q]]]]

-------------------------------------------------------------------------------
(* Handlers.  Each gives the manager after a message about player q.         *)

\* processDisconnectFrame, without the commands it sends.
DisconnectFrame(m, q, f) ==
  IF m.frames[q] >= f
  THEN m
  ELSE [ResetPlayersVotes(m, q, f - 1) EXCEPT
          !.frames[q] = f, !.received = @ \cup {q}]

\* processDisconnectScreenOff
DisconnectScreenOff(m, q, f) ==
  IF f < m.frames[q]
  THEN m
  ELSE [ResetPlayersVotes(m, q, f) EXCEPT
          !.frames[q] = f, !.received = @ \ {q}]

\* applyDisconnectVote: player r votes q out.
ApplyDisconnectVote(m, q, r, f) == [m EXCEPT !.votes[q][r] = f]

(***************************************************************************)
(* sendFrameDataToPlayer: everyone's commands from frame f on, except his  *)
(* own.  In sendSingleFrameToPlayer a frame older than FRAMES_TO_KEEP is   *)
(* not sent, nor is any before frame FRAMES_TO_KEEP: the frame numbers are *)
(* unsigned, and the difference is large then.                             *)
(***************************************************************************)
FrameDataTo(p, q, f) ==
  IF frame[p] >= FRAMES_TO_KEEP /\ frame[p] - FRAMES_TO_KEEP <= f
  THEN UNION {Send("COMMANDS", p, {q}, frame[p], r) : r \in connected[p] \ {q}}
  ELSE {}

\* Faulty variant: only who tells his frame to one ahead gets the commands.
CatchUpTelling(p, m, q) ==
  IF q # p /\ q \in m.received /\ m.frames[q] < m.frames[p]
  THEN FrameDataTo(p, q, m.frames[q])
  ELSE {}

\* The end of processDisconnectFrame: whoever is behind is sent the commands.
CatchUp(p, m, q) ==
  LET behind == {r \in Others(p) :
                   /\ r \in m.received /\ m.frames[r] < m.frames[p]
                   /\ q \in {p, r}}
  IN  UNION {FrameDataTo(p, r, m.frames[r]) :
               r \in {r \in behind : q = p => IsPlayerInGame(p, r)}}

-------------------------------------------------------------------------------
(* The lockstep layer.                                                       *)

\* Faulty variant: the commands of the frame before will do.
HasCommandsBefore(p) == \A q \in Others(p) : frame[p] <= complete[p][q]

\* p has every command of its frame.
HasCommands(p) == \A q \in Others(p) : frame[p] < complete[p][q]

\* The frames of q announced so far are those below this one.
Announced(q) == frame[q] + RunAhead

\* The commands of q come to p over q's packet router, while both send.
OnItsWay(p, q) ==
  /\ status[p] = "up" /\ q \in Others(p) /\ p \in connected[q]
  /\ complete[p][q] < Announced(q)
  /\ \A r \in {q, PacketRouter(q)} \ {p} : status[r] # "silent"

\* p gets all the commands of q for one more frame.
CommandsArrive(p, q) ==
  /\ OnItsWay(p, q)
  /\ complete' = [complete EXCEPT ![p][q] = @ + 1]
  /\ UNCHANGED <<status, frame, connected, manager, network, disconnectedOn>>

\* Faulty variant: the timeouts go on.
NextFrameTimeoutsKept(m) == m

\* DisconnectManager::nextFrame starts the timeouts anew.
NextFrame(m) == [m EXCEPT !.timedOut = {}]

\* A frame is executed.  With the screen on it is turned off first, the others
\* are told and p's votes forgotten (allCommandsReady).
RunFrame(p) ==
  LET m == manager[p]
      off == IF m.screenOn THEN DisconnectScreenOff(m, p, frame[p]) ELSE m
  IN  /\ status[p] = "up" /\ frame[p] < MaxFrame
      /\ HasCommands(p)
      /\ frame' = [frame EXCEPT ![p] = @ + 1]
      /\ manager' = [manager EXCEPT
                       ![p] = NextFrame([off EXCEPT !.screenOn = FALSE])]
      /\ network' =
           network \cup IF m.screenOn
                        THEN Send("SCREENOFF", p, Others(p), frame[p], p)
                        ELSE {}
      /\ UNCHANGED <<status, complete, connected, disconnectedOn>>

\* A computer stops.  Its last messages may be lost, and its last packets may
\* still be on their way: it is "down" until the last of them arrived.  Bound:
\* the others can be stopped by it before they get to MaxFrame.
Stop(p) ==
  /\ p \in Mortal /\ status[p] = "up"
  /\ Announced(p) < MaxFrame
  /\ status' = [status EXCEPT ![p] = "down"]
  /\ \E lost \in SUBSET {m \in network : m.from = p} :
       network' = {m \in network \ lost : m.to # p}
  /\ UNCHANGED <<frame, complete, connected, manager, disconnectedOn>>

FallSilent(p) ==
  /\ status[p] = "down"
  /\ status' = [status EXCEPT ![p] = "silent"]
  /\ UNCHANGED <<frame, complete, connected, manager, network, disconnectedOn>>

-------------------------------------------------------------------------------
(* The disconnect screen.                                                    *)

\* DisconnectManager::update, p being on one frame for too long.
TurnOnScreen(p) ==
  /\ status[p] = "up" /\ frame[p] < MaxFrame
  /\ ~manager[p].screenOn /\ ~HasCommands(p)
  /\ manager' = [manager EXCEPT ![p] =
                   [@ EXCEPT !.screenOn = TRUE, !.notified = FALSE,
                             !.timedOut = {}]]
  /\ UNCHANGED <<status, frame, complete, connected, network, disconnectedOn>>

\* notifyOthersOfCurrentFrame, once for each time the screen is on.
NotifyOthersOfCurrentFrame(p) ==
  LET m == manager[p]
      told == [DisconnectFrame(m, p, frame[p]) EXCEPT !.notified = TRUE]
  IN  /\ status[p] = "up" /\ m.screenOn /\ ~m.notified
      /\ Others(p) # {}
      /\ manager' = [manager EXCEPT ![p] = told]
      /\ network' =
           network \cup Send("FRAME", p, Others(p), frame[p], p)
                   \cup IF m.frames[p] < frame[p] THEN CatchUp(p, told, p) ELSE {}
      /\ UNCHANGED <<status, frame, complete, connected, disconnectedOn>>

\* A minute is longer than anything is on its way.
NothingOnItsWay ==
  /\ network = {}
  /\ \A p \in Players : status[p] # "down"
  /\ \A p, q \in Players : ~OnItsWay(p, q)
  /\ \A p \in Players : status[p] = "up" /\ frame[p] < MaxFrame => ~HasCommands(p)

\* The others send keep-alives as long as the screen is on.
TimeOut(p, q) ==
  /\ status[p] = "up" /\ manager[p].notified /\ manager[p].screenOn
  /\ q \in Others(p) \ manager[p].timedOut
  /\ status[q] = "silent" /\ NothingOnItsWay
  /\ manager' = [manager EXCEPT ![p].timedOut = @ \cup {q}]
  /\ UNCHANGED <<status, frame, complete, connected, network, disconnectedOn>>

\* voteForPlayerDisconnect
VoteForPlayerDisconnect(p, q) ==
  /\ status[p] = "up" /\ manager[p].screenOn
  /\ q \in Others(p) /\ manager[p].votes[q][p] = 0
  /\ status[q] = "silent" /\ NothingOnItsWay
  /\ manager' =
       [manager EXCEPT ![p] = ApplyDisconnectVote(@, q, p, frame[p])]
  /\ network' = network \cup Send("VOTE", p, Others(p), frame[p], q)
  /\ UNCHANGED <<status, frame, complete, connected, disconnectedOn>>

\* p's connection and frame data of q are deleted; when q was the packet
\* router, the pending commands are sent again (OnItsWay).
DisconnectPlayer(p, q) ==
  /\ connected' = [connected EXCEPT ![p] = @ \ {q}]
  /\ disconnectedOn' =
       [disconnectedOn EXCEPT ![p][q] = IF q \in connected[p] THEN frame[p] ELSE @]

\* updateDisconnectStatus: q is timed out or voted out, and everyone is told.
UpdateDisconnectStatus(p, q) ==
  LET m == manager[p]
  IN  /\ status[p] = "up" /\ m.screenOn /\ m.notified
      /\ q \in Others(p)
      /\ q \in m.timedOut \/ IsPlayerVotedOut(p, q)
      /\ AllOnSameFrame(p)
      /\ IsLocalPlayerNextPacketRouter(p)
      /\ network' = network \cup
           Send("PLAYER", p, Others(p), Max({m.frames[r] : r \in Players}), q)
      /\ DisconnectPlayer(p, q)
      /\ UNCHANGED <<status, frame, complete, manager>>

\* processNetCommand: a message of a player without connection is ignored; the
\* commands sent on are their own player's messages.
Accepts(p, m) ==
  (IF m.type = "COMMANDS" THEN m.about ELSE m.from) \in connected[p]

\* processDisconnectCommand, and the commands of sendFrameDataToPlayer;
\* `remaining' is what is on its way besides what is sent here.
Process(p, m, remaining) ==
  LET old == manager[p]
      new == CASE m.type = "FRAME" -> DisconnectFrame(old, m.from, m.frame)
               [] m.type = "SCREENOFF" -> DisconnectScreenOff(old, m.from, m.frame)
               [] m.type = "VOTE" /\ IsPlayerInGame(p, m.from) ->
                    ApplyDisconnectVote(old, m.about, m.from, m.frame)
               [] OTHER -> old
  IN  IF ~Accepts(p, m)
      THEN network' = remaining
           /\ UNCHANGED <<manager, complete, connected, disconnectedOn>>
      ELSE /\ manager' = [manager EXCEPT ![p] = new]
           /\ network' = remaining \cup
                IF m.type = "FRAME" /\ new # old
                THEN CatchUp(p, new, m.from)
                ELSE {}
           /\ complete' =
                IF m.type = "COMMANDS"
                THEN [complete EXCEPT ![p][m.about] = Max({@, m.frame})]
                ELSE complete
           /\ IF m.type = "PLAYER" /\ m.about # p
              THEN DisconnectPlayer(p, m.about)
              ELSE UNCHANGED <<connected, disconnectedOn>>

\* A message arrives; when its ack is lost it will arrive again.
Receive(p) ==
  /\ status[p] = "up"
  /\ \E m \in network : m.to = p /\ Process(p, m, network \ {m})
  /\ UNCHANGED <<status, frame>>

ReceiveUnacknowledged(p) ==
  /\ status[p] = "up"
  /\ \E m \in network :
       m.to = p /\ m.type \in Repeated /\ Process(p, m, network)
  /\ UNCHANGED <<status, frame>>

-------------------------------------------------------------------------------
Init ==
  /\ status = [p \in Players |-> IF p \in Stopped THEN "down" ELSE "up"]
  /\ frame = [p \in Players |-> FirstFrame]
  /\ complete = [p \in Players |-> [q \in Players |-> FirstFrame]]
  /\ connected = [p \in Players |-> Players]
  /\ manager = [p \in Players |->
       [screenOn |-> FALSE, notified |-> FALSE, timedOut |-> {},
        votes |-> [q \in Players |-> [r \in Players |-> 0]],
        frames |-> [q \in Players |-> 0], received |-> {}]]
  /\ network = {}
  /\ disconnectedOn = [p \in Players |-> [q \in Players |-> 0]]

Next ==
  \E p \in Players :
    \/ RunFrame(p) \/ Stop(p) \/ FallSilent(p)
    \/ TurnOnScreen(p) \/ NotifyOthersOfCurrentFrame(p)
    \/ Receive(p) \/ ReceiveUnacknowledged(p)
    \/ \E q \in Players :
         \/ CommandsArrive(p, q) \/ TimeOut(p, q)
         \/ VoteForPlayerDisconnect(p, q) \/ UpdateDisconnectStatus(p, q)

Spec == Init /\ [][Next]_vars

(***************************************************************************)
(* Everything a computer does is repeated in its main loop, and whatever   *)
(* two running computers send each other arrives.  Nobody has to vote.     *)
(***************************************************************************)
Fairness ==
  \A p \in Players :
    /\ WF_vars(RunFrame(p)) /\ WF_vars(FallSilent(p))
    /\ WF_vars(TurnOnScreen(p)) /\ WF_vars(NotifyOthersOfCurrentFrame(p))
    /\ WF_vars(Receive(p))
    /\ \A q \in Players :
         /\ WF_vars(CommandsArrive(p, q) /\ status[q] = "up"
                      /\ status[PacketRouter(q)] = "up")
         /\ WF_vars(TimeOut(p, q)) /\ WF_vars(UpdateDisconnectStatus(p, q))

FairSpec == Spec /\ Fairness

-------------------------------------------------------------------------------
(* Properties.                                                               *)

\* All who disconnect a player do it on the same frame, "disconnecting player
\* on the wrong frame!!!" (processDisconnectPlayer): otherwise his commands of
\* the frames between are executed by some only.
SameFrameEverywhere ==
  \A p, q, r \in Players :
    disconnectedOn[p][r] # 0 /\ disconnectedOn[q][r] # 0 =>
      disconnectedOn[p][r] = disconnectedOn[q][r]

\* Whoever has a player disconnected without a timeout has the votes of all the
\* others for the frame they are on: no vote of an earlier frame is counted.
VotedOutByTheOthers ==
  [][\A p, q \in Players :
       UpdateDisconnectStatus(p, q) /\ q \notin manager[p].timedOut =>
         \A r \in Others(p) \ {q} :
           IsPlayerInGame(p, r) =>
             frame[r] = frame[p] /\ manager[r].votes[q][r] = frame[p]]_vars

\* The game keeps pace: whatever the disconnect screen does, nobody executes a
\* frame before the commands of all he plays with can have been issued for it,
\* and only a computer that is silent is disconnected, for good: not by a vote
\* for another frame, nor because of what who is ahead sends again.
Steps ==
  INSTANCE Pace WITH silent <- {p \in Players : status[p] = "silent"}
KeepsPace == Steps!Spec

\* The game goes on for everybody whose computer does not stop.
EveryoneProceeds ==
  \A p \in Players : <>(frame[p] = MaxFrame \/ status[p] # "up")

===============================================================================
