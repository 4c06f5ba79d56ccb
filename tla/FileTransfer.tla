----------------------------- MODULE FileTransfer ------------------------------
(***************************************************************************)
(* How players who lack the map get it from the host between the lobby and *)
(* the game: DoAnyMapTransfers on every computer, with what                *)
(* ConnectionManager does for it.  The files of a map follow each other.   *)
(* The host announces a file to everybody, waits until that is             *)
(* acknowledged, and sends it to those who lack it, in chunks if it does   *)
(* not fit into a packet (NetCommandWrapperList).  Everyone tells everyone *)
(* how far he is, and each computer waits for all who lack the file, two   *)
(* minutes at most.                                                        *)
(*                                                                         *)
(* All messages here are sent directly, not relayed.  A Connection sends a *)
(* message again until it is acknowledged, in no particular order; an ack  *)
(* arrives at once or is lost.  A file stands for its command ID, which is *)
(* the wrapped ID of its chunks.                                           *)
(***************************************************************************)
EXTENDS Integers, FiniteSets, Sequences

CONSTANTS
  Players,     \* the human players in the game
  Host,        \* slot 0: the packet router
  Lacking,     \* who has to get the map, by the slots of everybody
  Files,       \* the names of the files, in the order they are sent
  Chunks,      \* the number of packets of each file
  MayFail,     \* the <<player, file>> whose file may not be written
  Dubious,     \* the files that may be refused for their name or contents
  Impatient,   \* who may run out of time
  Repeated     \* the messages a copy of which may arrive after their ack

FileNames == {Files[i] : i \in DOMAIN Files}
Map == Files[Len(Files)]
Others(p) == Players \ {p}

ASSUME PlayersAssumption ==
  /\ IsFiniteSet(Players) /\ Host \in Players /\ Lacking \subseteq Others(Host)
  /\ Lacking # {} /\ Impatient \subseteq Players
ASSUME FilesAssumption ==
  /\ Files \in Seq(FileNames) /\ Files # <<>>
  /\ \A i, j \in DOMAIN Files : Files[i] = Files[j] => i = j
  /\ Chunks \in [FileNames -> Nat \ {0}]
  /\ MayFail \subseteq Lacking \X FileNames
  /\ Dubious \subseteq FileNames

VARIABLES
  at,         \* the number of the file a computer waits for
  outcome,    \* of a computer's DoAnyMapTransfers: "started", "out", or "none"
  host,       \* what the host has done about his file: sentFile
  expected,   \* s_fileCommandMap: the files announced to each computer
  progress,   \* s_fileProgressMap: progress[p][q][f] is how far p says q is
  present,    \* m_chunksPresent: the chunks each computer has of a file
  disk,       \* the files of the map each computer has
  queue,      \* queue[p][q]: what p's Connection to q sends again
  refused,    \* the files nobody accepts: it is the same for all
  late        \* late[p][q]: the messages a copy of which is still on its way

vars ==
  <<at, outcome, host, expected, progress, present, disk, queue, refused, late>>

Percent == 0 .. 100
ChunkNumbers(f) == 0 .. Chunks[f] - 1

\* Of a FILE the part is the number of its chunk, of a FILEPROGRESS the percent.
FileAnnounce(f) == [type |-> "FILEANNOUNCE", file |-> f, part |-> 0]
File(f, k) == [type |-> "FILE", file |-> f, part |-> k]
FileProgress(f, n) == [type |-> "FILEPROGRESS", file |-> f, part |-> n]

Message ==
  UNION {{FileAnnounce(f)} \cup {File(f, k) : k \in ChunkNumbers(f)} \cup
         {FileProgress(f, n) : n \in Percent} : f \in FileNames}

\* An announcement is sent again after two seconds.  If its ack took longer, a
\* copy could come after the file and make a computer forget what it knows.
ASSUME RepeatedAssumption ==
  /\ Repeated \subseteq Message
  /\ \A f \in FileNames : FileAnnounce(f) \notin Repeated

TypeOK ==
  /\ at \in [Players -> 1 .. Len(Files) + 1]
  /\ outcome \in [Players -> {"none", "started", "out"}]
  /\ \A p \in Players : outcome[p] # "started" => at[p] <= Len(Files)
  /\ host \in {"idle", "announced", "sent"}
  /\ expected \in [Players -> SUBSET FileNames]
  /\ progress \in [Players -> [Players -> [FileNames -> Percent]]]
  /\ present \in [Players -> [FileNames -> SUBSET Nat]]
  /\ \A p \in Players, f \in FileNames : present[p][f] \subseteq ChunkNumbers(f)
  /\ disk \in [Players -> SUBSET FileNames]
  /\ queue \in [Players -> [Players -> SUBSET Message]]
  /\ refused \in SUBSET Dubious
  /\ late \in [Players -> [Players -> SUBSET Message]]

-------------------------------------------------------------------------------
(* Sending.                                                                  *)

\* sendNetCommandMsg of each connection of p to one of `to'.
Send(p, to, msgs) ==
  queue' = [queue EXCEPT ![p] =
              [q \in Players |-> IF q \in to THEN @[q] \cup msgs ELSE @[q]]]

\* Faulty variant: the host does not wait for the acks of an announcement.
QueuesIgnored(p) == p \in Players

\* areAllQueuesEmpty.
QueuesEmpty(p) == \A q \in Players : queue[p][q] = {}

\* Whoever gave up has no network any more.
Networked(p) == outcome[p] # "out"

-------------------------------------------------------------------------------
(* The progress a computer knows of.                                         *)

\* Faulty variant: those who are sent the file are taken to have it.
AnnouncedTheWrongWay(known, f) ==
  [q \in Players |-> [known[q] EXCEPT ![f] = IF q \in Lacking THEN 100 ELSE 0]]

\* processFileAnnounce: who does not need the file has it.
Announced(known, f) ==
  [q \in Players |-> [known[q] EXCEPT ![f] = IF q \in Lacking THEN 0 ELSE 100]]

\* Faulty variant: percents are added.
Added(known, q, f, n) == [known EXCEPT ![q][f] = @ + n]

\* Faulty variant: the last message counts.
Last(known, q, f, n) == [known EXCEPT ![q][f] = n]

\* processFileProgress.
AtLeast(known, q, f, n) ==
  [known EXCEPT ![q][f] = IF n > @ THEN n ELSE @]

\* getFileTransferProgress: of a file that was not announced, none.
Progress(p, q, f) == IF f \in expected[p] THEN progress[p][q][f] ELSE 0

\* The condition of the loop in doFileTransfer.
Done(p, f) == \A q \in Lacking : Progress(p, q, f) = 100

-------------------------------------------------------------------------------
(* The host.                                                                 *)

InTransfer(p) == outcome[p] = "none"

\* sendFileAnnounce.
Announce ==
  LET f == Files[at[Host]] IN
  /\ InTransfer(Host)
  /\ host = "idle"
  /\ host' = "announced"
  /\ expected' = [expected EXCEPT ![Host] = @ \cup {f}]
  /\ progress' = [progress EXCEPT ![Host] = Announced(@, f)]
  /\ Send(Host, Others(Host), {FileAnnounce(f)})
  /\ UNCHANGED <<at, outcome, present, disk, refused, late>>

\* sendFile, of a file or of its chunks (ConstructBigCommandPacketList).
SendFile ==
  LET f == Files[at[Host]] IN
  /\ InTransfer(Host)
  /\ host = "announced"
  /\ QueuesEmpty(Host)
  /\ host' = "sent"
  /\ Send(Host, Lacking, {File(f, k) : k \in ChunkNumbers(f)})
  /\ UNCHANGED <<at, outcome, expected, progress, present, disk, refused, late>>

-------------------------------------------------------------------------------
(* Receiving.                                                                *)

\* q has received m from p and tells everybody else msgs.  The ack may be lost, or
\* it is not and another copy of m was sent before it came.
Reply(p, q, m, msgs) ==
  \E acked \in SUBSET {m} :
  \E copies \in SUBSET (acked \cap queue[p][q] \cap Repeated) :
    /\ queue' = [a \in Players |-> [b \in Players |->
         (queue[a][b] \ {k \in acked : a = p /\ b = q})
           \cup {k \in msgs : a = q /\ b # q}]]
    /\ late' = [late EXCEPT ![p][q] = (@ \ {m}) \cup copies]

ReceiveFileAnnounce(p, q, m) ==
  /\ m.type = "FILEANNOUNCE"
  /\ expected' = [expected EXCEPT ![q] = @ \cup {m.file}]
  /\ progress' = [progress EXCEPT ![q] = Announced(@, m.file)]
  /\ Reply(p, q, m, {})
  /\ UNCHANGED <<present, disk>>

ReceiveFileProgress(p, q, m) ==
  /\ m.type = "FILEPROGRESS"
  /\ progress' = [progress EXCEPT ![q] = AtLeast(@, p, m.file, m.part)]
  /\ Reply(p, q, m, {})
  /\ UNCHANGED <<expected, present, disk>>

\* The chunks q has of m's file with m (processWrapper, copyChunkData).
ChunksWith(q, m) == present[q][m.file] \cup {m.part}

IsComplete(chunks, f) == Cardinality(chunks) = Chunks[f]

\* NetCommandWrapperListNode::getPercentComplete, of a file that is incomplete.
PercentOf(chunks, f) ==
  LET n == (100 * Cardinality(chunks)) \div Chunks[f]
  IN  IF n > 99 THEN 99 ELSE n

\* A chunk that does not complete its file (processWrapper).
ReceiveChunk(p, q, m) ==
  LET f == m.file
      chunks == ChunksWith(q, m)
      n == PercentOf(chunks, f)
  IN  /\ m.type = "FILE"
      /\ ~IsComplete(chunks, f)
      /\ present' = [present EXCEPT ![q][f] = chunks]
      /\ IF f \in expected[q] /\ n > progress[q][q][f] /\ n < 100
         THEN /\ progress' = [progress EXCEPT ![q][q][f] = n]
              /\ Reply(p, q, m, {FileProgress(f, n)})
         ELSE UNCHANGED progress /\ Reply(p, q, m, {})
      /\ UNCHANGED <<expected, disk>>

\* The last chunk or the only packet (getReadyCommands, processFile): the file is
\* written if it can be, and is said to be there if it was not, too.
ReceiveFile(p, q, m) ==
  LET f == m.file IN
  /\ m.type = "FILE"
  /\ IsComplete(ChunksWith(q, m), f)
  /\ f \notin refused
  /\ present' = [present EXCEPT ![q][f] = {}]
  /\ \/ disk' = [disk EXCEPT ![q] = @ \cup {f}]
     \/ <<q, f>> \in MayFail /\ UNCHANGED disk
  /\ progress' = [progress EXCEPT ![q][q][f] = 100]
  /\ Reply(p, q, m, {FileProgress(f, 100)})
  /\ UNCHANGED expected

\* The same of a file with a name or contents that are not allowed.
RefuseFile(p, q, m) ==
  /\ m.type = "FILE"
  /\ IsComplete(ChunksWith(q, m), m.file)
  /\ m.file \in refused
  /\ present' = [present EXCEPT ![q][m.file] = {}]
  /\ Reply(p, q, m, {})
  /\ UNCHANGED <<expected, progress, disk>>

\* doRelay: a message from a queue, or a late copy.
Receive(p, q, m) ==
  /\ Networked(q)
  /\ m \in queue[p][q] \cup late[p][q]
  /\ \/ ReceiveFileAnnounce(p, q, m)
     \/ ReceiveFileProgress(p, q, m)
     \/ ReceiveChunk(p, q, m)
     \/ ReceiveFile(p, q, m)
     \/ RefuseFile(p, q, m)
  /\ UNCHANGED <<at, outcome, host, refused>>

-------------------------------------------------------------------------------
(* Waiting.                                                                  *)

\* The loop in doFileTransfer has ended, and the next begins.
NextFile(p) ==
  /\ InTransfer(p)
  /\ at[p] < Len(Files)
  /\ Done(p, Files[at[p]])
  /\ at' = [at EXCEPT ![p] = @ + 1]
  /\ host' = IF p = Host THEN "idle" ELSE host
  /\ UNCHANGED <<outcome, expected, progress, present, disk, queue, refused, late>>

\* OnGameStart, after the last file, if the map is there.
StartGame(p) ==
  /\ InTransfer(p)
  /\ at[p] = Len(Files)
  /\ Done(p, Map)
  /\ Map \in disk[p]
  /\ at' = [at EXCEPT ![p] = @ + 1]
  /\ outcome' = [outcome EXCEPT ![p] = "started"]
  /\ UNCHANGED <<host, expected, progress, present, disk, queue, refused, late>>

\* OnGameStart backs out of the game: there is no network any more.
BackOut(p) ==
  /\ outcome' = [outcome EXCEPT ![p] = "out"]
  /\ queue' = [queue EXCEPT ![p] = [q \in Players |-> {}]]
  /\ UNCHANGED <<at, host, expected, progress, present, disk, refused, late>>

\* The two minutes are over.
TimeOut(p) ==
  /\ InTransfer(p)
  /\ p \in Impatient
  /\ ~Done(p, Files[at[p]])
  /\ BackOut(p)

\* All is said to be there, but the map is not.
MapIsMissing(p) ==
  /\ InTransfer(p)
  /\ at[p] = Len(Files)
  /\ Done(p, Map)
  /\ Map \notin disk[p]
  /\ BackOut(p)

-------------------------------------------------------------------------------
Init ==
  /\ at = [p \in Players |-> 1]
  /\ outcome = [p \in Players |-> "none"]
  /\ host = "idle"
  /\ expected = [p \in Players |-> {}]
  /\ progress = [p \in Players |-> [q \in Players |-> [f \in FileNames |-> 0]]]
  /\ present = [p \in Players |-> [f \in FileNames |-> {}]]
  /\ disk = [p \in Players |-> IF p \in Lacking THEN {} ELSE FileNames]
  /\ queue = [p \in Players |-> [q \in Players |-> {}]]
  /\ refused \in SUBSET Dubious
  /\ late = [p \in Players |-> [q \in Players |-> {}]]

Next ==
  \/ Announce
  \/ SendFile
  \/ \E p, q \in Players : \E m \in queue[p][q] \cup late[p][q] : Receive(p, q, m)
  \/ \E p \in Players : NextFile(p) \/ StartGame(p) \/ TimeOut(p) \/ MapIsMissing(p)

Spec == Init /\ [][Next]_vars

\* Every computer goes through its loop, and what a Connection sends again and
\* again arrives some time, and so does its ack.  The two minutes need not be over.
Fairness ==
  /\ WF_vars(Announce) /\ WF_vars(SendFile)
  /\ \A p \in Players :
       WF_vars(NextFile(p)) /\ WF_vars(StartGame(p)) /\ WF_vars(MapIsMissing(p))
  /\ \A p, q \in Players :
       WF_vars(\E m \in queue[p][q] : Receive(p, q, m) /\ m \notin queue'[p][q])

FairSpec == Spec /\ Fairness

-------------------------------------------------------------------------------
(* Properties.                                                               *)

\* Whoever starts the game has the map, and everybody who lacked it has every
\* file of it or could not write it: what a computer knows of the others, from
\* messages in any order, sent again, and from chunks, is true.  A game started
\* with different files is out of sync.
StartsWithTheFiles ==
  \A p \in Players : outcome[p] = "started" =>
    /\ Map \in disk[p]
    /\ \A q \in Lacking, f \in FileNames :
         f \in disk[q] \/ <<q, f>> \in MayFail

\* No computer forgets how far another is.  An announcement resets what is known
\* of its file: the host sends the file only when all announcements have been
\* received, so that nobody's progress can arrive before one.  Who forgets waits
\* in vain, as what was acknowledged is not sent again.
ProgressIsKept ==
  [][\A p, q \in Players, f \in FileNames : progress'[p][q][f] >= progress[p][q][f]]_vars

\* If nobody gives up, and no file is refused, everybody starts.
EveryoneStarts ==
  refused = {} /\ [](\A p \in Players : Networked(p)) =>
    <>(\A p \in Players : outcome[p] = "started")

===============================================================================
