-------------------------------- MODULE Relay ---------------------------------
(***************************************************************************)
(* How commands travel.  Everyone sends his commands to one computer, the  *)
(* packet router, with the mask of the players they are for, and the       *)
(* router relays them.  Packets are lost, delayed and duplicated: a        *)
(* Connection sends a command again until it is acknowledged.  A stage 1   *)
(* ack says that the next computer has it and a stage 2 ack that everybody *)
(* has; until the latter, the sender keeps the command as pending, since   *)
(* the router may leave the game and the next one needs it.                *)
(*                                                                         *)
(* The module is the sending half of ConnectionManager with Connection.    *)
(* A command stands for all a player sends for one frame.  Only `Commands' *)
(* are followed; what else is sent is taken to arrive at once.  Frames     *)
(* advance as Lockstep says: with everybody's commands.  The disconnect    *)
(* screen, which comes when a frame does not advance, is not modelled.     *)
(***************************************************************************)
EXTENDS Integers, FiniteSetsExt

CONSTANTS
  Players,       \* the slots of the human players
  RunAhead,      \* the (constant) run-ahead
  LeaveFrame,    \* the execution frame of each player's PLAYERLEAVE, or Never
  Commands,      \* the commands followed, each the player's for a frame
  MaxFrame       \* bound: the game is followed up to this frame

Never == 0

ASSUME PlayersAssumption == Players \subseteq Nat /\ 0 \in Players
ASSUME FramesAssumption ==
  /\ RunAhead \in Nat \ {0}
  /\ MaxFrame \in Nat
  /\ LeaveFrame \in [Players -> {Never} \cup {f \in Nat : f > RunAhead + 1}]
ASSUME CommandsAssumption ==
  /\ Commands \subseteq [player : Players, frame : Nat]
  /\ \A c \in Commands : /\ c.frame >= RunAhead
                         /\ LeaveFrame[c.player] # Never =>
                              c.frame <= LeaveFrame[c.player]

VARIABLES
  frame,     \* TheGameLogic->getFrame()
  has,       \* the followed commands in each computer's frame data
  queue,     \* queue[p][q]: the commands p's Connection to q sends again
  pending,   \* m_pendingCommands: one's own without a stage 2 ack
  relayed,   \* m_relayedCommands: what was relayed, and who has not acked it
  packets,   \* every command ever put into a queue, to be received any time
  acks       \* every ack ever sent

vars == <<frame, has, queue, pending, relayed, packets, acks>>

\* A NetCommandRef: a command and the players it is to be relayed to.
Ref == [cmd : Commands, relay : SUBSET Players]
Packet == [from : Players, to : Players, cmd : Commands, relay : SUBSET Players]
Ack == [stage : {"STAGE1", "STAGE2", "BOTH"}, player : Players, to : Players,
        relay : SUBSET Players, cmd : Commands]

TypeOK ==
  /\ frame \in [Players -> 0 .. MaxFrame]
  /\ has \in [Players -> SUBSET Commands]
  /\ queue \in [Players -> [Players -> SUBSET Ref]]
  /\ pending \in [Players -> SUBSET Ref]
  /\ relayed \in [Players -> SUBSET Ref]
  /\ packets \subseteq Packet
  /\ acks \subseteq Ack
  /\ \A p, q \in Players : \A list \in {queue[p][q], pending[p], relayed[p]} :
       \A r, s \in list : r.cmd = s.cmd => r = s
  /\ \A p \in Players : \A r \in relayed[p] : r.relay # {}

-------------------------------------------------------------------------------
(* Who is in the game for a computer that executes frame f next.             *)

LeftBefore(q, f) == LeaveFrame[q] # Never /\ f > LeaveFrame[q]
InGame(p) == ~LeftBefore(p, frame[p])

\* The connections that are neither deleted nor quitting: a connection whose
\* player left only sends what is in its queue, as all do of one who left.
Open(p, f) ==
  IF LeftBefore(p, f) THEN {} ELSE {q \in Players \ {p} : ~LeftBefore(q, f)}

\* m_packetRouterSlot: the fallback list is the players in the game, in order.
Router(f) == Min({q \in Players : ~LeftBefore(q, f)})

-------------------------------------------------------------------------------
(* Lists and queues.                                                         *)

\* NetCommandList::addMessage: a command in the list keeps its relay.
Added(list, refs) == list \cup {r \in refs : \A s \in list : s.cmd # r.cmd}

\* Connection::processAck, and removing from the pending commands.
Without(list, c) == {r \in list : r.cmd # c}

\* A row of queues with refs relayed directly to those of `to' they are for.
SentDirectly(row, refs, to) ==
  [q \in Players |->
     IF q \in to
     THEN Added(row[q], {[cmd |-> r.cmd, relay |-> {q}] :
                           r \in {s \in refs : q \in s.relay}})
     ELSE row[q]]

\* sendLocalCommand: the router sends to everyone himself.
SentLocally(p, f, row, refs) ==
  IF Router(f) = p
  THEN SentDirectly(row, refs, Open(p, f))
  ELSE [row EXCEPT ![Router(f)] =
          Added(@, {[r EXCEPT !.relay = @ \ {p}] : r \in refs})]

PendingWith(p, f, list, refs) ==
  IF Router(f) = p THEN list
  ELSE Added(list, {[r EXCEPT !.relay = @ \ {p}] : r \in refs})

PacketsOf(p, row) ==
  UNION {{[from |-> p, to |-> q, cmd |-> r.cmd, relay |-> r.relay] : r \in row[q]} :
           q \in Players}

SetQueues(p, row) ==
  /\ queue' = [queue EXCEPT ![p] = row]
  /\ packets' = packets \cup PacketsOf(p, row)

-------------------------------------------------------------------------------
(* Executing a frame.                                                        *)

\* The frames a player has sent his commands for: those before his execution
\* frame, and on leaving all up to his last (Network::processCommand).
SentUpTo(q, f) ==
  IF LeaveFrame[q] # Never /\ f >= LeaveFrame[q] - RunAhead - 1
  THEN LeaveFrame[q]
  ELSE f + RunAhead - 1

AllCommandsReady(p) ==
  \A q \in Open(p, frame[p]) :
    /\ frame[p] <= SentUpTo(q, frame[q])
    /\ \A c \in Commands :
         c.player = q /\ c.frame = frame[p] => c \in has[p]

\* Faulty variant: a new router is not told what the last one was.
NothingResent(p, f, row) == row

\* resendPendingCommands, when the packet router is another one from now on.
PendingResent(p, f, row) ==
  IF Router(f) # Router(frame[p])
  THEN SentLocally(p, f, row, pending[p])
  ELSE row

\* Faulty variant: who leaves keeps nothing.
NoCommands(p, row) == [q \in Players |-> {}]

\* clearCommandsExceptFrom: who leaves keeps nothing but his own.
OwnCommands(p, row) ==
  [q \in Players |-> {r \in row[q] : r.cmd.player = p}]

(***************************************************************************)
(* The frame is executed, who leaves in it leaves (processPlayerLeave),    *)
(* and the tick of the next frame sends the commands of one more frame.    *)
(***************************************************************************)
RunFrame(p) ==
  LET f == frame[p] + 1
      issued == {c \in Commands : /\ c.player = p
                                  /\ SentUpTo(p, frame[p]) < c.frame
                                  /\ c.frame <= SentUpTo(p, f)}
      refs == {[cmd |-> c, relay |-> Players] : c \in issued}
  IN  /\ InGame(p)
      /\ frame[p] < MaxFrame
      /\ frame[p] > 0 => AllCommandsReady(p)
      /\ frame' = [frame EXCEPT ![p] = f]
      /\ has' = [has EXCEPT ![p] = @ \cup issued]
      /\ IF LeftBefore(p, f)
         THEN /\ SetQueues(p, OwnCommands(p, queue[p]))
              /\ UNCHANGED pending
         ELSE /\ SetQueues(p,
                   SentLocally(p, f, PendingResent(p, f, queue[p]), refs))
              /\ pending' = [pending EXCEPT ![p] = PendingWith(p, f, @, refs)]
      /\ UNCHANGED <<relayed, acks>>

-------------------------------------------------------------------------------
(* Receiving.                                                                *)

\* Faulty variant: the ack is for both stages, whoever else is to get it.
StageOfBoth(p, relay) == "BOTH"

\* ackCommand: a stage 2 ack has to wait if the command is to be relayed.
StageOf(p, relay) ==
  IF relay \cap Open(p, frame[p]) = {} THEN "BOTH" ELSE "STAGE1"

\* ackCommand: to the router; the router acks to the player of the command.
AckOf(p, m) ==
  LET to == IF Router(frame[p]) = p THEN m.cmd.player ELSE Router(frame[p])
  IN  {[stage |-> StageOf(p, m.relay), player |-> p, to |-> t, relay |-> {t},
        cmd |-> m.cmd] : t \in {to} \cap Open(p, frame[p])}

\* processNetCommand: out of date commands go nowhere.
OutOfDate(p, c) == c.frame < frame[p]

\* doRelay on a command: it is acked, and if it is not out of date, kept and
\* relayed (sendRemoteCommand).
ReceivePacket(p, m) ==
  LET to == m.relay \cap Open(p, frame[p])
      ref == [cmd |-> m.cmd, relay |-> to]
  IN  /\ m.to = p
      /\ InGame(p)
      /\ acks' = acks \cup AckOf(p, m)
      /\ IF OutOfDate(p, m.cmd)
         THEN UNCHANGED <<has, queue, relayed, packets>>
         ELSE /\ has' = [has EXCEPT ![p] =
                           @ \cup (IF p \in m.relay THEN {m.cmd} ELSE {})]
              /\ SetQueues(p, SentDirectly(queue[p], {ref}, to))
              /\ relayed' = [relayed EXCEPT ![p] =
                               IF to = {} THEN @ ELSE Added(@, {ref})]
      /\ UNCHANGED <<frame, pending>>

ReceiveCommand(p) == \E m \in packets : ReceivePacket(p, m)

\* Faulty variant: a command everybody acked stays in the list.
AckedByAndKept(list, a) ==
  {[r EXCEPT !.relay = IF r.cmd = a.cmd THEN @ \ {a.player} ELSE @] : r \in list}

\* processAckStage2 on the relayed commands: who acked is taken out of the
\* relay, and the command out of the list when there is nobody left.
AckedBy(list, a) ==
  {[r EXCEPT !.relay = IF r.cmd = a.cmd THEN @ \ {a.player} ELSE @] : r \in list}
    \ {[cmd |-> a.cmd, relay |-> {}]}

\* The stage 2 ack goes to the player of the command, through the router.  It
\* is nobody's: its player ID is the 0 the message was created with.
StageTwoAck(p, c) ==
  LET router == Router(frame[p])
      to == IF router = p THEN c.player ELSE router
  IN  {[stage |-> "STAGE2", player |-> 0, to |-> t, relay |-> {c.player},
        cmd |-> c] : t \in {to} \cap Open(p, frame[p])}

\* processAck, and sendRemoteCommand on an ack that is not for this computer.
ReceiveAck(p) ==
  \E a \in acks :
    LET stage1 == a.stage \in {"STAGE1", "BOTH"}
        stage2 == a.stage \in {"STAGE2", "BOTH"}
        remaining == AckedBy(relayed[p], a)
        done == /\ \E r \in relayed[p] : r.cmd = a.cmd
                /\ \A r \in remaining : r.cmd # a.cmd
    IN  /\ a.to = p
        /\ queue' = IF stage1
                    THEN [queue EXCEPT ![p][a.player] = Without(@, a.cmd)]
                    ELSE queue
        /\ pending' = IF stage2
                      THEN [pending EXCEPT ![p] = Without(@, a.cmd)]
                      ELSE pending
        /\ relayed' = IF stage2
                      THEN [relayed EXCEPT ![p] = remaining]
                      ELSE relayed
        /\ acks' = acks
             \cup (IF stage2 /\ done THEN StageTwoAck(p, a.cmd) ELSE {})
             \cup {[a EXCEPT !.to = q, !.relay = {q}] :
                     q \in a.relay \cap Open(p, frame[p])}
        /\ UNCHANGED <<frame, has, packets>>

-------------------------------------------------------------------------------
Init ==
  /\ frame = [p \in Players |-> 0]
  /\ has = [p \in Players |-> {}]
  /\ queue = [p \in Players |-> [q \in Players |-> {}]]
  /\ pending = [p \in Players |-> {}]
  /\ relayed = [p \in Players |-> {}]
  /\ packets = {}
  /\ acks = {}

Next ==
  \E p \in Players : RunFrame(p) \/ ReceiveCommand(p) \/ ReceiveAck(p)

Spec == Init /\ [][Next]_vars

(***************************************************************************)
(* A command in a queue is received some time, since Connection::doSend    *)
(* sends it again and again; any other packet and any ack may be lost.     *)
(***************************************************************************)
ReceiveQueued(p, q, c) ==
  \E r \in queue[q][p] :
    /\ r.cmd = c
    /\ ReceivePacket(p, [from |-> q, to |-> p, cmd |-> c, relay |-> r.relay])

Fairness ==
  \A p \in Players :
    /\ WF_vars(RunFrame(p))
    /\ \A q \in Players, c \in Commands : WF_vars(ReceiveQueued(p, q, c))

FairSpec == Spec /\ Fairness

-------------------------------------------------------------------------------
(* Properties.                                                               *)

\* c is for q: q executes its frame, being still in the game.
IsFor(c, q) == q # c.player /\ ~LeftBefore(q, c.frame)

IsIn(list, c) == \E r \in list : r.cmd = c

\* Nobody's command is lost: until a player it is for has it, its own player
\* keeps it as pending, being in the game, or in a queue to somebody who is, or
\* somebody sends it to that player.  What makes it hard is a player who leaves
\* before his last commands got through, and a packet router who leaves with
\* commands he did not relay: a stage 2 ack means that "all the players in the
\* relay mask have received the packet" (NetAckStage2CommandMsg).
KeptUntilEverybodyHasIt ==
  \A c \in Commands : \A q \in Players :
    c \in has[c.player] /\ InGame(q) /\ IsFor(c, q) =>
      \/ c \in has[q]
      \/ InGame(c.player) /\ IsIn(pending[c.player], c)
      \/ \E p \in Players : IsIn(queue[p][q], c)
      \/ \E p \in Players : InGame(p) /\ IsIn(queue[c.player][p], c)

\* Commands get through: every player who does not leave gets to the last
\* frame followed, although packets and acks are lost and others leave.
EveryoneProceeds ==
  \A p \in Players : <>(frame[p] = MaxFrame \/ ~InGame(p))

===============================================================================
