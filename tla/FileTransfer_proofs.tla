-------------------------- MODULE FileTransfer_proofs --------------------------
(***************************************************************************)
(* Theorems about FileTransfer, for any players, files and chunks:         *)
(* TypeCorrect, AlwaysStartsWithTheFiles and ProgressIsAlwaysKept.         *)
(***************************************************************************)
EXTENDS FileTransfer, FiniteSetTheorems, TLAPS

\* What the messages are, one by one (NetFileCommandMsg and the like).
LEMMA MessageKinds ==
  ASSUME NEW m \in Message
  PROVE  /\ m.file \in FileNames
         /\ \/ m = FileAnnounce(m.file)
            \/ m = File(m.file, m.part) /\ m.part \in ChunkNumbers(m.file)
            \/ m = FileProgress(m.file, m.part) /\ m.part \in Percent
<1>1. PICK f \in FileNames :
        m \in {FileAnnounce(f)} \cup {File(f, k) : k \in ChunkNumbers(f)} \cup
              {FileProgress(f, n) : n \in Percent}
  BY DEF Message
<1>2. CASE m = FileAnnounce(f)
  BY <1>2 DEF FileAnnounce
<1>3. CASE m \in {File(f, k) : k \in ChunkNumbers(f)}
  BY <1>3 DEF File
<1>4. CASE m \in {FileProgress(f, n) : n \in Percent}
  BY <1>4 DEF FileProgress
<1>5. QED
  BY <1>1, <1>2, <1>3, <1>4

\* The messages of a file are messages.
LEMMA AreMessages ==
  ASSUME NEW f \in FileNames
  PROVE  /\ FileAnnounce(f) \in Message
         /\ \A k \in ChunkNumbers(f) : File(f, k) \in Message
         /\ \A n \in Percent : FileProgress(f, n) \in Message
<1> DEFINE Of(g) == {FileAnnounce(g)} \cup {File(g, k) : k \in ChunkNumbers(g)} \cup
                    {FileProgress(g, n) : n \in Percent}
<1>1. Of(f) \subseteq Message
  BY DEF Message
<1>2. QED
  BY <1>1

\* Files follow each other in the list of their names (DoAnyMapTransfers).
LEMMA FilesInOrder ==
  /\ Len(Files) \in Nat \ {0}
  /\ DOMAIN Files = 1 .. Len(Files)
  /\ \A i \in 1 .. Len(Files) : Files[i] \in FileNames
  /\ Map \in FileNames
<1>1. Len(Files) \in Nat /\ DOMAIN Files = 1 .. Len(Files)
  BY FilesAssumption
<1>2. Files # <<>> => Len(Files) # 0
  BY FilesAssumption
<1>3. \A i \in 1 .. Len(Files) : Files[i] \in FileNames
  BY <1>1 DEF FileNames
<1>4. QED
  BY <1>1, <1>2, <1>3, FilesAssumption DEF Map

\* Receiving adds to the queues of the receiver alone, and only copies of what was
\* queued to what is on its way (doRelay).
LEMMA ReplyAdds ==
  ASSUME TypeOK, NEW p \in Players, NEW q \in Players, NEW m,
         NEW msgs, Reply(p, q, m, msgs)
  PROVE  \A a, b \in Players :
           /\ queue'[a][b] \subseteq queue[a][b] \cup (IF a = q THEN msgs ELSE {})
           /\ late'[a][b] \subseteq late[a][b] \cup (queue[a][b] \cap Repeated)
<1>1. late \in [Players -> [Players -> SUBSET Message]]
  BY DEF TypeOK
<1>2. ASSUME NEW a \in Players, NEW b \in Players
      PROVE  queue'[a][b] \subseteq queue[a][b] \cup (IF a = q THEN msgs ELSE {})
  BY DEF Reply
<1>3. ASSUME NEW a \in Players, NEW b \in Players
      PROVE  late'[a][b] \subseteq late[a][b] \cup (queue[a][b] \cap Repeated)
  BY <1>1 DEF Reply
<1>4. QED
  BY <1>2, <1>3

\* ... and stays well typed.
LEMMA ReplyType ==
  ASSUME TypeOK, NEW p \in Players, NEW q \in Players, NEW m,
         NEW msgs \in SUBSET Message, Reply(p, q, m, msgs)
  PROVE  /\ queue' \in [Players -> [Players -> SUBSET Message]]
         /\ late' \in [Players -> [Players -> SUBSET Message]]
<1>1. /\ queue \in [Players -> [Players -> SUBSET Message]]
      /\ late \in [Players -> [Players -> SUBSET Message]]
  BY DEF TypeOK
<1>2. QED
  BY <1>1 DEF Reply

\* So does sending (sendLocalCommandDirect).
LEMMA SendType ==
  ASSUME TypeOK, NEW p \in Players, NEW to, NEW msgs \in SUBSET Message,
         Send(p, to, msgs)
  PROVE  /\ queue' \in [Players -> [Players -> SUBSET Message]]
         /\ \A a, b \in Players :
              queue'[a][b] \subseteq queue[a][b] \cup (IF a = p THEN msgs ELSE {})
<1>1. queue \in [Players -> [Players -> SUBSET Message]]
  BY DEF TypeOK
<1>2. queue' = [queue EXCEPT ![p] =
                  [q \in Players |-> IF q \in to THEN queue[p][q] \cup msgs
                                     ELSE queue[p][q]]]
  BY <1>1 DEF Send
<1>3. QED
  BY <1>1, <1>2

\* What is known after an announcement is well typed (processFileAnnounce).
LEMMA AnnouncedType ==
  ASSUME NEW known \in [Players -> [FileNames -> Percent]], NEW f \in FileNames
  PROVE  /\ Announced(known, f) \in [Players -> [FileNames -> Percent]]
         /\ \A q \in Players, g \in FileNames :
              Announced(known, f)[q][g] =
                IF g # f THEN known[q][g] ELSE IF q \in Lacking THEN 0 ELSE 100
BY DEF Announced, Percent

\* What is known after a FILEPROGRESS is well typed (processFileProgress).
LEMMA AtLeastType ==
  ASSUME NEW known \in [Players -> [FileNames -> Percent]], NEW q \in Players,
         NEW f \in FileNames, NEW n \in Percent
  PROVE  AtLeast(known, q, f, n) \in [Players -> [FileNames -> Percent]]
BY DEF AtLeast, Percent

\* A percentage of an incomplete file is one (getPercentComplete).
LEMMA PercentOfType ==
  ASSUME NEW f \in FileNames, NEW chunks, chunks \subseteq ChunkNumbers(f)
  PROVE  PercentOf(chunks, f) \in Percent
<1>1. Chunks[f] \in Nat \ {0}
  BY FilesAssumption
<1>2. IsFiniteSet(ChunkNumbers(f))
  BY <1>1, FS_Interval DEF ChunkNumbers
<1>3. Cardinality(chunks) \in Nat
  BY <1>2, FS_Subset, FS_CardinalityType
<1>4. ASSUME NEW c \in Nat, NEW k \in Nat \ {0}
      PROVE  c \div k \in Nat
  BY <1>4
<1>5. (100 * Cardinality(chunks)) \div Chunks[f] \in Nat
  BY <1>1, <1>3, <1>4
<1>6. QED
  BY <1>5 DEF PercentOf, Percent

-------------------------------------------------------------------------------
(* Types.                                                                    *)

\* The start of the transfer is well typed.
LEMMA InitType == Init => TypeOK
<1> SUFFICES ASSUME Init PROVE TypeOK
  OBVIOUS
<1>1. 1 \in 1 .. Len(Files) + 1 /\ 0 \in Percent
  BY FilesInOrder DEF Percent
<1>2. \A p \in Players : disk[p] \subseteq FileNames
  BY DEF Init
<1>3. disk \in [Players -> SUBSET FileNames]
  BY <1>2 DEF Init
<1>4. progress \in [Players -> [Players -> [FileNames -> Percent]]]
  BY <1>1 DEF Init
<1>5. /\ at \in [Players -> 1 .. Len(Files) + 1] /\ \A p \in Players : at[p] <= Len(Files)
      /\ outcome \in [Players -> {"none", "started", "out"}]
  BY FilesInOrder DEF Init
<1>6. /\ present \in [Players -> [FileNames -> SUBSET Nat]]
      /\ \A p \in Players, f \in FileNames : present[p][f] = {}
  BY DEF Init
<1>7. /\ queue \in [Players -> [Players -> SUBSET Message]]
      /\ late \in [Players -> [Players -> SUBSET Message]]
  BY DEF Init
<1>8. QED
  BY <1>3, <1>4, <1>5, <1>6, <1>7 DEF Init, TypeOK

\* How far a computer is itself, is a percentage (processWrapper, processFile).
LEMMA OwnProgressType ==
  ASSUME TypeOK, NEW q \in Players, NEW f \in FileNames, NEW n \in Percent
  PROVE  /\ [progress EXCEPT ![q][q][f] = n]
               \in [Players -> [Players -> [FileNames -> Percent]]]
         /\ \A a, b \in Players, g \in FileNames :
              [progress EXCEPT ![q][q][f] = n][a][b][g] =
                IF a = q /\ b = q /\ g = f THEN n ELSE progress[a][b][g]
<1>1. progress \in [Players -> [Players -> [FileNames -> Percent]]]
  BY DEF TypeOK
<1> DEFINE own == [progress[q][q] EXCEPT ![f] = n]
           row == [progress[q] EXCEPT ![q] = own]
<1>2. own \in [FileNames -> Percent] /\ \A g \in FileNames :
        own[g] = IF g = f THEN n ELSE progress[q][q][g]
  BY <1>1
<1>3. [progress EXCEPT ![q][q][f] = n] = [progress EXCEPT ![q] = row]
  BY <1>1
<1> HIDE DEF own
<1>4. row \in [Players -> [FileNames -> Percent]] /\ \A b \in Players :
        row[b] = IF b = q THEN own ELSE progress[q][b]
  BY <1>1, <1>2
<1> HIDE DEF row
<1>5. QED
  BY <1>1, <1>2, <1>3, <1>4

\* What receiving does is well typed (processNetCommand).
LEMMA ReceiveType ==
  ASSUME TypeOK, NEW p \in Players, NEW q \in Players, NEW m, Receive(p, q, m)
  PROVE  TypeOK'
<1>1. m \in Message
  BY DEF TypeOK, Receive
<1> DEFINE f == m.file
<1>2. f \in FileNames
  BY <1>1, MessageKinds
<1>3. /\ UNCHANGED <<at, outcome, host, refused>>
      /\ \/ ReceiveFileAnnounce(p, q, m)
         \/ ReceiveFileProgress(p, q, m)
         \/ ReceiveChunk(p, q, m)
         \/ ReceiveFile(p, q, m)
         \/ RefuseFile(p, q, m)
  BY DEF Receive
<1>4. m.type = "FILE" => m.part \in ChunkNumbers(f)
  BY <1>1, MessageKinds DEF FileAnnounce, File, FileProgress
<1>5. m.type = "FILEPROGRESS" => m.part \in Percent
  BY <1>1, MessageKinds DEF FileAnnounce, File, FileProgress
<1>6. \A n \in Percent : {FileProgress(f, n)} \in SUBSET Message
  BY <1>2, AreMessages
<1> HIDE DEF f
<1>7. CASE ReceiveFileAnnounce(p, q, m)
  <2>1. expected' \in [Players -> SUBSET FileNames]
    BY <1>2, <1>7 DEF ReceiveFileAnnounce, TypeOK, f
  <2>2. Announced(progress[q], f) \in [Players -> [FileNames -> Percent]]
    <3>1. progress[q] \in [Players -> [FileNames -> Percent]]
      BY DEF TypeOK
    <3>2. QED
      BY <1>2, <3>1, AnnouncedType
  <2>3. progress' \in [Players -> [Players -> [FileNames -> Percent]]]
    BY <1>7, <2>2 DEF ReceiveFileAnnounce, TypeOK, f
  <2>4. Reply(p, q, m, {})
    BY <1>7 DEF ReceiveFileAnnounce
  <2>5. QED
    BY <1>3, <1>7, <2>1, <2>3, <2>4, ReplyType DEF ReceiveFileAnnounce, TypeOK
<1>8. CASE ReceiveFileProgress(p, q, m)
  <2>1. m.part \in Percent
    BY <1>5, <1>8 DEF ReceiveFileProgress
  <2>2. AtLeast(progress[q], p, f, m.part) \in [Players -> [FileNames -> Percent]]
    BY <1>2, <2>1, AtLeastType DEF TypeOK
  <2>3. progress' \in [Players -> [Players -> [FileNames -> Percent]]]
    BY <1>8, <2>2 DEF ReceiveFileProgress, TypeOK, f
  <2>4. Reply(p, q, m, {})
    BY <1>8 DEF ReceiveFileProgress
  <2>5. QED
    BY <1>3, <1>8, <2>3, <2>4, ReplyType DEF ReceiveFileProgress, TypeOK
<1>9. m.type = "FILE" => ChunksWith(q, m) \subseteq ChunkNumbers(f)
  BY <1>2, <1>4 DEF ChunksWith, TypeOK, f
<1>10. CASE ReceiveChunk(p, q, m)
  <2> DEFINE chunks == ChunksWith(q, m)
             n == PercentOf(chunks, f)
  <2>1. chunks \subseteq ChunkNumbers(f)
    BY <1>9, <1>10 DEF ReceiveChunk
  <2>2. n \in Percent
    BY <1>2, <2>1, PercentOfType
  <2>3. present' = [present EXCEPT ![q][f] = chunks]
    BY <1>10 DEF ReceiveChunk, f
  <2>4. \/ /\ progress' = [progress EXCEPT ![q][q][f] = n]
           /\ Reply(p, q, m, {FileProgress(f, n)})
        \/ UNCHANGED progress /\ Reply(p, q, m, {})
    BY <1>10 DEF ReceiveChunk, f
  <2>5. UNCHANGED <<expected, disk>>
    BY <1>10 DEF ReceiveChunk
  <2> HIDE DEF chunks, n
  <2>6. /\ present' \in [Players -> [FileNames -> SUBSET Nat]]
        /\ \A a \in Players, g \in FileNames : present'[a][g] \subseteq ChunkNumbers(g)
    <3>1. chunks \in SUBSET Nat
      BY <1>2, <2>1, FilesAssumption DEF ChunkNumbers
    <3>2. QED
      BY <1>2, <2>1, <2>3, <3>1 DEF TypeOK
  <2>7. progress' \in [Players -> [Players -> [FileNames -> Percent]]]
    <3>1. CASE progress' = [progress EXCEPT ![q][q][f] = n]
      BY <1>2, <2>2, <3>1, OwnProgressType
    <3>2. CASE UNCHANGED progress
      BY <3>2 DEF TypeOK
    <3>3. QED
      BY <2>4, <3>1, <3>2
  <2>8. /\ queue' \in [Players -> [Players -> SUBSET Message]]
        /\ late' \in [Players -> [Players -> SUBSET Message]]
    BY <1>6, <2>2, <2>4, ReplyType
  <2>9. QED
    BY <1>3, <2>5, <2>6, <2>7, <2>8 DEF TypeOK
<1>11. ASSUME present' = [present EXCEPT ![q][f] = {}]
       PROVE  /\ present' \in [Players -> [FileNames -> SUBSET Nat]]
              /\ \A a \in Players, g \in FileNames :
                   present'[a][g] \subseteq ChunkNumbers(g)
  BY <1>2, <1>11 DEF TypeOK
<1>12. CASE ReceiveFile(p, q, m)
  <2>1. 100 \in Percent
    BY DEF Percent
  <2>2. disk' \in [Players -> SUBSET FileNames]
    <3>1. disk' = [disk EXCEPT ![q] = @ \cup {f}] \/ disk' = disk
      BY <1>12 DEF ReceiveFile, f
    <3>2. disk \in [Players -> SUBSET FileNames] /\ {f} \in SUBSET FileNames
      BY <1>2 DEF TypeOK
    <3>3. QED
      BY <3>1, <3>2
  <2>3. progress' \in [Players -> [Players -> [FileNames -> Percent]]]
    <3>1. progress' = [progress EXCEPT ![q][q][f] = 100]
      BY <1>12 DEF ReceiveFile, f
    <3>2. QED
      BY <1>2, <2>1, <3>1, OwnProgressType
  <2>4. present' = [present EXCEPT ![q][f] = {}] /\ Reply(p, q, m, {FileProgress(f, 100)})
    BY <1>12 DEF ReceiveFile, f
  <2>5. /\ queue' \in [Players -> [Players -> SUBSET Message]]
        /\ late' \in [Players -> [Players -> SUBSET Message]]
    BY <1>6, <2>1, <2>4, ReplyType
  <2>6. expected' = expected
    BY <1>12 DEF ReceiveFile
  <2>7. QED
    BY <1>3, <1>11, <2>2, <2>3, <2>4, <2>5, <2>6 DEF TypeOK
<1>13. CASE RefuseFile(p, q, m)
  <2>1. present' = [present EXCEPT ![q][f] = {}] /\ Reply(p, q, m, {})
    BY <1>13 DEF RefuseFile, f
  <2>2. UNCHANGED <<expected, progress, disk>>
    BY <1>13 DEF RefuseFile
  <2>3. QED
    BY <1>3, <1>11, <2>1, <2>2, ReplyType DEF TypeOK
<1>14. QED
  BY <1>3, <1>7, <1>8, <1>10, <1>12, <1>13

\* Every step is well typed.
LEMMA TypeOKNext == TypeOK /\ [Next]_vars => TypeOK'
<1> SUFFICES ASSUME TypeOK, [Next]_vars PROVE TypeOK'
  OBVIOUS
<1> USE FilesInOrder
<1>1. CASE Announce
  <2> DEFINE f == Files[at[Host]]
  <2>1. at[Host] \in 1 .. Len(Files)
    BY <1>1, PlayersAssumption DEF Announce, InTransfer, TypeOK
  <2>2. f \in FileNames
    BY <2>1
  <2> HIDE DEF f
  <2>3. {FileAnnounce(f)} \in SUBSET Message
    BY <2>2, AreMessages
  <2>4. Send(Host, Others(Host), {FileAnnounce(f)})
    BY <1>1 DEF Announce, f
  <2>5. Announced(progress[Host], f) \in [Players -> [FileNames -> Percent]]
    <3>1. progress[Host] \in [Players -> [FileNames -> Percent]]
      BY PlayersAssumption DEF TypeOK
    <3>2. QED
      BY <2>2, <3>1, AnnouncedType
  <2>6. progress' \in [Players -> [Players -> [FileNames -> Percent]]]
    BY <1>1, <2>5 DEF Announce, TypeOK, f
  <2>7. expected' \in [Players -> SUBSET FileNames]
    BY <1>1, <2>2 DEF Announce, TypeOK, f
  <2>8. queue' \in [Players -> [Players -> SUBSET Message]]
    BY <2>3, <2>4, SendType, PlayersAssumption
  <2>9. QED
    BY <1>1, <2>6, <2>7, <2>8 DEF Announce, TypeOK
<1>2. CASE SendFile
  <2> DEFINE f == Files[at[Host]]
  <2>1. f \in FileNames
    BY <1>2, PlayersAssumption DEF SendFile, InTransfer, TypeOK
  <2>2. {File(f, k) : k \in ChunkNumbers(f)} \in SUBSET Message
    BY <2>1, AreMessages
  <2>3. Send(Host, Lacking, {File(f, k) : k \in ChunkNumbers(f)})
    BY <1>2 DEF SendFile
  <2> HIDE DEF f
  <2>4. queue' \in [Players -> [Players -> SUBSET Message]]
    BY <2>2, <2>3, SendType, PlayersAssumption
  <2>5. QED
    BY <1>2, <2>4 DEF SendFile, TypeOK
<1>3. ASSUME NEW p \in Players, NEW q \in Players, NEW m, Receive(p, q, m)
      PROVE  TypeOK'
  BY <1>3, ReceiveType
<1>4. ASSUME NEW p \in Players, NextFile(p)
      PROVE  TypeOK'
  BY <1>4 DEF NextFile, TypeOK
<1>5. ASSUME NEW p \in Players, StartGame(p)
      PROVE  TypeOK'
  BY <1>5 DEF StartGame, TypeOK
<1>6. ASSUME NEW p \in Players, InTransfer(p), BackOut(p)
      PROVE  TypeOK'
  <2>1. queue' \in [Players -> [Players -> SUBSET Message]]
    BY <1>6 DEF BackOut, TypeOK
  <2>2. /\ outcome' \in [Players -> {"none", "started", "out"}]
        /\ \A q \in Players : outcome'[q] # "started" => at[q] <= Len(Files)
    BY <1>6 DEF BackOut, InTransfer, TypeOK
  <2>3. QED
    BY <1>6, <2>1, <2>2 DEF BackOut, TypeOK
<1>7. CASE UNCHANGED vars
  BY <1>7 DEF vars, TypeOK
<1>8. QED
  BY <1>1, <1>2, <1>3, <1>4, <1>5, <1>6, <1>7 DEF Next, TimeOut, MapIsMissing

\* Types are kept: progress is a percentage, and the chunks a computer has of a
\* file are chunks of it.
THEOREM TypeCorrect == Spec => []TypeOK
<1>1. QED
  BY InitType, TypeOKNext, PTL DEF Spec

-------------------------------------------------------------------------------
(* What a message changes.                                                   *)

\* q has the file or could not write it.
Has(q, f) == f \in disk[q] \/ <<q, f>> \in MayFail

\* Nobody loses a file.
LEMMA HasIsKept ==
  ASSUME TypeOK, [Next]_vars, NEW q \in Players, NEW f \in FileNames, Has(q, f)
  PROVE  Has(q, f)'
<1>1. CASE disk' = disk
  BY <1>1 DEF Has
<1>2. ASSUME NEW p \in Players, NEW r \in Players, NEW m, Receive(p, r, m)
      PROVE  disk[q] \subseteq disk'[q]
  <2>1. CASE disk' = disk
    BY <2>1
  <2>2. CASE ReceiveFile(p, r, m)
    <3>1. disk' = [disk EXCEPT ![r] = @ \cup {m.file}] \/ disk' = disk
      BY <2>2 DEF ReceiveFile
    <3>2. disk \in [Players -> SUBSET FileNames]
      BY DEF TypeOK
    <3>3. QED
      BY <3>1, <3>2
  <2>3. QED
    BY <1>2, <2>1, <2>2 DEF Receive, ReceiveFileAnnounce, ReceiveFileProgress,
       ReceiveChunk, RefuseFile
<1>3. (\E p, r \in Players : \E m \in queue[p][r] \cup late[p][r] : Receive(p, r, m))
        \/ disk' = disk
  BY DEF Next, vars, Announce, SendFile, NextFile, StartGame, TimeOut, MapIsMissing,
         BackOut
<1>4. QED
  BY <1>1, <1>2, <1>3 DEF Has

\* What receiving a message does to what is known (processFileAnnounce,
\* processFileProgress, processWrapper, processFile).
ProgressAfter(p, q, m, a, b, g) ==
  \/ progress'[a][b][g] = progress[a][b][g]
  \/ /\ a = q /\ g = m.file /\ m.type = "FILEANNOUNCE"
     /\ progress'[a][b][g] = IF b \in Lacking THEN 0 ELSE 100
  \/ /\ a = q /\ b = p /\ m = FileProgress(g, progress'[a][b][g])
     /\ progress'[a][b][g] >= progress[a][b][g]
  \/ /\ a = q /\ b = q /\ g = m.file /\ m.type = "FILE"
     /\ progress'[a][b][g] >= progress[a][b][g]
     /\ progress'[a][b][g] = 100 => Has(q, g)'

\* A message sent because of one received.
Told(q, m, a, k) ==
  /\ a = q /\ m.type = "FILE" /\ k.type = "FILEPROGRESS" /\ k.file = m.file
  /\ k.part = 100 => Has(q, m.file)'

LEMMA ReceiveEffect ==
  ASSUME TypeOK, NEW p \in Players, NEW q \in Players, NEW m, Receive(p, q, m)
  PROVE  \A a, b \in Players :
           /\ \A g \in FileNames : ProgressAfter(p, q, m, a, b, g)
           /\ \A k \in queue'[a][b] : k \in queue[a][b] \/ Told(q, m, a, k)
           /\ \A k \in late'[a][b] : k \in late[a][b] \/ k \in queue[a][b] \cap Repeated
<1>1. m \in Message
  BY DEF TypeOK, Receive
<1> DEFINE f == m.file
<1>2. f \in FileNames
  BY <1>1, MessageKinds
<1>3. \/ ReceiveFileAnnounce(p, q, m)
      \/ ReceiveFileProgress(p, q, m)
      \/ ReceiveChunk(p, q, m)
      \/ ReceiveFile(p, q, m)
      \/ RefuseFile(p, q, m)
  BY DEF Receive
<1>4. progress \in [Players -> [Players -> [FileNames -> Percent]]]
  BY DEF TypeOK
<1>5. progress[q] \in [Players -> [FileNames -> Percent]]
  BY <1>4
<1> SUFFICES ASSUME NEW a \in Players, NEW b \in Players
             PROVE  /\ \A g \in FileNames : ProgressAfter(p, q, m, a, b, g)
                    /\ \A k \in queue'[a][b] : k \in queue[a][b] \/ Told(q, m, a, k)
                    /\ \A k \in late'[a][b] :
                         k \in late[a][b] \/ k \in queue[a][b] \cap Repeated
  OBVIOUS
<1> HIDE DEF f
<1>6. CASE ReceiveFileAnnounce(p, q, m)
  <2>1. progress' = [progress EXCEPT ![q] = Announced(@, f)] /\ Reply(p, q, m, {})
        /\ m.type = "FILEANNOUNCE"
    BY <1>6 DEF ReceiveFileAnnounce, f
  <2>2. ASSUME NEW g \in FileNames PROVE ProgressAfter(p, q, m, a, b, g)
    <3>1. progress'[a][b][g] = IF a = q THEN Announced(progress[q], f)[b][g]
                               ELSE progress[a][b][g]
      BY <1>4, <2>1
    <3>2. Announced(progress[q], f)[b][g] =
            IF g # f THEN progress[q][b][g] ELSE IF b \in Lacking THEN 0 ELSE 100
      BY <1>2, <1>5, AnnouncedType
    <3>3. QED
      BY <2>1, <3>1, <3>2 DEF ProgressAfter, f
  <2>3. QED
    BY <2>1, <2>2, ReplyAdds
<1>7. CASE ReceiveFileProgress(p, q, m)
  <2>1. progress' = [progress EXCEPT ![q] = AtLeast(@, p, f, m.part)] /\ Reply(p, q, m, {})
        /\ m.type = "FILEPROGRESS"
    BY <1>7 DEF ReceiveFileProgress, f
  <2>2. m = FileProgress(f, m.part) /\ m.part \in Percent
    BY <1>1, <2>1, MessageKinds DEF FileAnnounce, File, FileProgress, f
  <2>3. ASSUME NEW g \in FileNames PROVE ProgressAfter(p, q, m, a, b, g)
    <3>1. progress'[a][b][g] = IF a = q THEN AtLeast(progress[q], p, f, m.part)[b][g]
                               ELSE progress[a][b][g]
      BY <1>4, <2>1
    <3> DEFINE n == AtLeast(progress[q], p, f, m.part)[b][g]
    <3>2. /\ n >= progress[q][b][g]
          /\ \/ n = progress[q][b][g]
             \/ b = p /\ g = f /\ n = m.part
      <4>1. n = IF b = p /\ g = f
                THEN IF m.part > progress[q][b][g] THEN m.part ELSE progress[q][b][g]
                ELSE progress[q][b][g]
        BY <1>2, <1>5 DEF AtLeast
      <4>2. m.part \in Percent /\ progress[q][b][g] \in Percent
        BY <1>5, <2>2
      <4>3. \A x, y \in Percent :
              /\ y >= y
              /\ x > y => x >= y
        BY DEF Percent
      <4> HIDE DEF n
      <4>4. CASE b = p /\ g = f /\ m.part > progress[q][b][g]
        BY <4>1, <4>2, <4>3, <4>4
      <4>5. CASE ~(b = p /\ g = f /\ m.part > progress[q][b][g])
        <5>1. n = progress[q][b][g]
          BY <4>1, <4>5
        <5>2. QED
          BY <4>2, <4>3, <5>1
      <4>6. QED
        BY <4>4, <4>5
    <3> HIDE DEF n
    <3>3. QED
      BY <2>2, <3>1, <3>2 DEF ProgressAfter, n
  <2>4. QED
    BY <2>1, <2>3, ReplyAdds
<1>8. CASE ReceiveChunk(p, q, m)
  <2> DEFINE n == PercentOf(ChunksWith(q, m), f)
  <2>1. \/ /\ progress' = [progress EXCEPT ![q][q][f] = n]
           /\ n > progress[q][q][f] /\ n < 100
           /\ Reply(p, q, m, {FileProgress(f, n)})
        \/ UNCHANGED progress /\ Reply(p, q, m, {})
    BY <1>8 DEF ReceiveChunk, f
  <2>2. m.type = "FILE"
    BY <1>8 DEF ReceiveChunk
  <2>3. n \in Percent
    <3>1. m.part \in ChunkNumbers(f)
      BY <1>1, <2>2, MessageKinds DEF FileAnnounce, File, FileProgress, f
    <3>2. ChunksWith(q, m) \subseteq ChunkNumbers(f)
      BY <1>2, <3>1 DEF ChunksWith, TypeOK, f
    <3>3. QED
      BY <1>2, <3>2, PercentOfType
  <2> HIDE DEF n
  <2>4. ASSUME NEW g \in FileNames PROVE ProgressAfter(p, q, m, a, b, g)
    <3>1. CASE UNCHANGED progress
      BY <3>1 DEF ProgressAfter
    <3>2. CASE /\ progress' = [progress EXCEPT ![q][q][f] = n]
               /\ n > progress[q][q][f] /\ n < 100
      <4>1. progress'[a][b][g] = IF a = q /\ b = q /\ g = f THEN n ELSE progress[a][b][g]
        BY <1>2, <2>3, <3>2, OwnProgressType
      <4>2. progress[q][q][f] \in Percent
        BY <1>2, <1>5
      <4>3. n # 100 /\ n >= progress[q][q][f]
        <5>1. n > progress[q][q][f] /\ n < 100
          BY <3>2
        <5>2. \A x, y \in Percent : x > y /\ x < 100 => x # 100 /\ x >= y
          BY DEF Percent
        <5>3. QED
          BY <2>3, <4>2, <5>1, <5>2
      <4>4. QED
        BY <2>2, <4>1, <4>3 DEF ProgressAfter, f
    <3>3. QED
      BY <2>1, <3>1, <3>2
  <2>5. CASE n < 100 /\ Reply(p, q, m, {FileProgress(f, n)})
    <3>1. Told(q, m, q, FileProgress(f, n))
      BY <2>2, <2>3, <2>5 DEF Told, FileProgress, Percent, f
    <3>2. QED
      BY <2>4, <2>5, <3>1, ReplyAdds
  <2>6. CASE Reply(p, q, m, {})
    BY <2>4, <2>6, ReplyAdds
  <2>7. QED
    BY <2>1, <2>5, <2>6
<1>9. CASE ReceiveFile(p, q, m)
  <2>1. /\ progress' = [progress EXCEPT ![q][q][f] = 100]
        /\ Reply(p, q, m, {FileProgress(f, 100)})
        /\ m.type = "FILE"
    BY <1>9 DEF ReceiveFile, f
  <2>2. Has(q, f)'
    BY <1>9 DEF ReceiveFile, Has, TypeOK, f
  <2>3. 100 \in Percent /\ progress[q][q][f] \in Percent
    BY <1>2, <1>5 DEF Percent
  <2>4. ASSUME NEW g \in FileNames PROVE ProgressAfter(p, q, m, a, b, g)
    <3>1. progress'[a][b][g] = IF a = q /\ b = q /\ g = f THEN 100 ELSE progress[a][b][g]
      BY <1>2, <2>1, <2>3, OwnProgressType
    <3>2. 100 >= progress[q][q][f]
      BY <2>3 DEF Percent
    <3>3. QED
      BY <2>1, <2>2, <3>1, <3>2 DEF ProgressAfter, f
  <2>5. Told(q, m, q, FileProgress(f, 100))
    BY <2>1, <2>2 DEF Told, FileProgress, f
  <2>6. QED
    BY <2>1, <2>4, <2>5, ReplyAdds
<1>10. CASE RefuseFile(p, q, m)
  <2>1. UNCHANGED progress /\ Reply(p, q, m, {})
    BY <1>10 DEF RefuseFile
  <2>2. QED
    BY <2>1, ReplyAdds DEF ProgressAfter
<1>11. QED
  BY <1>3, <1>6, <1>7, <1>8, <1>9, <1>10

\* BackOut throws queues away, and nothing else that tells of files.
LEMMA BackOutEffect ==
  ASSUME TypeOK, NEW p \in Players, BackOut(p)
  PROVE  /\ \A a, b \in Players : queue'[a][b] \subseteq queue[a][b]
         /\ \A a \in Players : outcome'[a] = "started" => outcome[a] = "started"
  BY DEF BackOut, TypeOK

-------------------------------------------------------------------------------
(* What a computer says and believes of the others is true.                  *)

\* Who is said to have a file has it.
HeardOfIt == \A p \in Players, q \in Lacking, f \in FileNames :
               progress[p][q][f] = 100 => Has(q, f)

ToldTheTruth == \A p \in Lacking, q \in Players : \A k \in queue[p][q] \cup late[p][q] :
                  k.type = "FILEPROGRESS" /\ k.part = 100 => Has(p, k.file)

\* Whoever waits for a file has seen that all have those before.
AllHaveThoseBefore == \A p \in Players, q \in Lacking, i \in 1 .. Len(Files) :
                        i < at[p] => Has(q, Files[i])

StartedAfterThem == \A p \in Players : outcome[p] = "started" =>
                      at[p] = Len(Files) + 1 /\ Map \in disk[p]

Honest ==
  TypeOK /\ HeardOfIt /\ ToldTheTruth /\ AllHaveThoseBefore /\ StartedAfterThem

\* At the start nothing is said.
LEMMA InitHonest == Init => Honest
<1> SUFFICES ASSUME Init PROVE Honest
  OBVIOUS
<1>1. TypeOK
  BY InitType
<1>2. HeardOfIt
  BY PlayersAssumption DEF Init, HeardOfIt, Others
<1>3. ToldTheTruth
  BY PlayersAssumption DEF Init, ToldTheTruth, Others
<1>4. AllHaveThoseBefore
  BY DEF Init, AllHaveThoseBefore
<1>5. StartedAfterThem
  BY DEF Init, StartedAfterThem
<1>6. QED
  BY <1>1, <1>2, <1>3, <1>4, <1>5 DEF Honest

\* When the loop for a file ends, everybody has it (doFileTransfer).
LEMMA DoneMeansAllHaveIt ==
  ASSUME Honest, NEW p \in Players, NEW f \in FileNames, Done(p, f), NEW q \in Lacking
  PROVE  Has(q, f)
<1>1. Progress(p, q, f) = 100
  BY DEF Done
<1>2. progress[p][q][f] = 100
  BY <1>1 DEF Progress
<1>3. QED
  BY <1>2 DEF Honest, HeardOfIt

\* No step makes anything said or believed untrue.
LEMMA HonestNext == Honest /\ [Next]_vars => Honest'
<1> SUFFICES ASSUME Honest, [Next]_vars PROVE Honest'
  OBVIOUS
<1>1. TypeOK /\ TypeOK'
  BY TypeOKNext DEF Honest
<1>2. \A q \in Lacking : q \in Players /\ q # Host
  BY PlayersAssumption DEF Others
<1>3. \A q \in Players, f \in FileNames : Has(q, f) => Has(q, f)'
  BY <1>1, HasIsKept
<1>4. \A k : \A a, b \in Players : k \in queue[a][b] \cup late[a][b] => k.file \in FileNames
  BY <1>1, MessageKinds DEF TypeOK
<1>5. ASSUME progress' = progress
      PROVE  HeardOfIt'
  BY <1>2, <1>3, <1>5 DEF Honest, HeardOfIt
<1>6. ASSUME UNCHANGED late,
             \A a, b \in Players : \A k \in queue'[a][b] :
               k \in queue[a][b] \/ k.type # "FILEPROGRESS"
      PROVE  ToldTheTruth'
  BY <1>2, <1>3, <1>4, <1>6 DEF Honest, ToldTheTruth
<1>7. ASSUME at' = at
      PROVE  AllHaveThoseBefore'
  BY <1>2, <1>3, <1>7, FilesInOrder DEF Honest, AllHaveThoseBefore
<1>8. ASSUME at' = at, \A p \in Players : outcome'[p] = "started" => outcome[p] = "started",
             \A p \in Players : disk[p] \subseteq disk'[p]
      PROVE  StartedAfterThem'
  BY <1>8 DEF Honest, StartedAfterThem
<1>9. CASE Announce
  <2> DEFINE f == Files[at[Host]]
  <2>1. f \in FileNames
    BY <1>1, <1>9, FilesInOrder, PlayersAssumption DEF Announce, InTransfer, TypeOK
  <2>2. progress' = [progress EXCEPT ![Host] = Announced(@, f)]
    BY <1>9 DEF Announce
  <2>3. UNCHANGED <<at, outcome, disk, late>> /\ Send(Host, Others(Host), {FileAnnounce(f)})
    BY <1>9 DEF Announce
  <2> HIDE DEF f
  <2>4. HeardOfIt'
    <3> SUFFICES ASSUME NEW p \in Players, NEW q \in Lacking, NEW g \in FileNames,
                        progress'[p][q][g] = 100
                 PROVE  progress[p][q][g] = 100
      BY <1>2, <1>3 DEF Honest, HeardOfIt
    <3>1. progress'[p][q][g] =
            IF p = Host THEN Announced(progress[Host], f)[q][g] ELSE progress[p][q][g]
      BY <1>1, <2>2 DEF TypeOK
    <3>2. progress[Host] \in [Players -> [FileNames -> Percent]]
      BY <1>1, PlayersAssumption DEF TypeOK
    <3>3. Announced(progress[Host], f)[q][g] = IF g # f THEN progress[Host][q][g] ELSE 0
      BY <1>2, <2>1, <3>2, AnnouncedType
    <3>4. QED
      BY <3>1, <3>3
  <2>5. {FileAnnounce(f)} \in SUBSET Message
    BY <2>1, AreMessages
  <2>6. ToldTheTruth'
    BY <1>1, <1>6, <2>3, <2>5, SendType, PlayersAssumption DEF FileAnnounce
  <2>7. QED
    BY <1>1, <1>7, <1>8, <2>3, <2>4, <2>6 DEF Honest
<1>10. CASE SendFile
  <2> DEFINE f == Files[at[Host]]
             chunks == {File(f, k) : k \in ChunkNumbers(f)}
  <2>1. f \in FileNames
    BY <1>1, <1>10, FilesInOrder, PlayersAssumption DEF SendFile, InTransfer, TypeOK
  <2>2. chunks \in SUBSET Message /\ \A k \in chunks : k.type = "FILE"
    BY <2>1, AreMessages DEF File
  <2>3. UNCHANGED <<at, outcome, progress, disk, late>> /\ Send(Host, Lacking, chunks)
    BY <1>10 DEF SendFile
  <2> HIDE DEF f, chunks
  <2>4. ToldTheTruth'
    BY <1>1, <1>6, <2>2, <2>3, SendType, PlayersAssumption
  <2>5. QED
    BY <1>1, <1>5, <1>7, <1>8, <2>3, <2>4 DEF Honest
<1>11. ASSUME NEW p \in Players, NEW q \in Players,
              NEW m \in queue[p][q] \cup late[p][q], Receive(p, q, m)
       PROVE  Honest'
  <2>1. UNCHANGED <<at, outcome>>
    BY <1>11 DEF Receive
  <2>2. \A a \in Players : disk[a] \subseteq disk'[a]
    <3>1. disk \in [Players -> SUBSET FileNames]
      BY <1>1 DEF TypeOK
    <3>2. disk' = disk \/ disk' = [disk EXCEPT ![q] = @ \cup {m.file}]
      BY <1>11 DEF Receive, ReceiveFileAnnounce, ReceiveFileProgress, ReceiveChunk,
         ReceiveFile, RefuseFile
    <3>3. QED
      BY <3>1, <3>2
  <2>3. m.file \in FileNames
    BY <1>4
  <2>4. HeardOfIt'
    <3> SUFFICES ASSUME NEW a \in Players, NEW b \in Lacking, NEW g \in FileNames,
                        progress'[a][b][g] = 100
                 PROVE  Has(b, g)'
      BY DEF HeardOfIt
    <3>1. ProgressAfter(p, q, m, a, b, g)
      BY <1>1, <1>2, <1>11, ReceiveEffect
    <3>2. CASE progress'[a][b][g] = progress[a][b][g]
      BY <1>2, <1>3, <3>2 DEF Honest, HeardOfIt
    <3>3. CASE b = p /\ m = FileProgress(g, progress'[a][b][g])
      <4>1. m.type = "FILEPROGRESS" /\ m.part = 100 /\ m.file = g
        BY <3>3 DEF FileProgress
      <4>2. QED
        BY <1>2, <1>3, <1>11, <3>3, <4>1 DEF Honest, ToldTheTruth
    <3>4. CASE b = q /\ g = m.file /\ Has(q, g)'
      BY <3>4
    <3>5. QED
      BY <3>1, <3>2, <3>3, <3>4 DEF ProgressAfter
  <2>5. ToldTheTruth'
    <3> SUFFICES ASSUME NEW a \in Lacking, NEW b \in Players,
                        NEW k \in queue'[a][b] \cup late'[a][b],
                        k.type = "FILEPROGRESS", k.part = 100
                 PROVE  Has(a, k.file)'
      BY DEF ToldTheTruth
    <3>1. k \in queue[a][b] \cup late[a][b] \/ Told(q, m, a, k)
      BY <1>1, <1>2, <1>11, ReceiveEffect
    <3>2. CASE k \in queue[a][b] \cup late[a][b]
      BY <1>2, <1>3, <1>4, <3>2 DEF Honest, ToldTheTruth
    <3>3. CASE Told(q, m, a, k)
      BY <3>3 DEF Told
    <3>4. QED
      BY <3>1, <3>2, <3>3
  <2>6. QED
    BY <1>1, <1>7, <1>8, <2>1, <2>2, <2>4, <2>5 DEF Honest
<1>12. ASSUME NEW p \in Players, at[p] \in 1 .. Len(Files), Done(p, Files[at[p]]),
              at' = [at EXCEPT ![p] = @ + 1], UNCHANGED disk
       PROVE  AllHaveThoseBefore'
  <2> SUFFICES ASSUME NEW a \in Players, NEW q \in Lacking, NEW i \in 1 .. Len(Files),
                      i < at'[a]
               PROVE  Has(q, Files[i])'
    BY DEF AllHaveThoseBefore
  <2>1. i < at[a] \/ (a = p /\ i = at[p])
    BY <1>1, <1>12, FilesInOrder DEF TypeOK
  <2>2. Files[i] \in FileNames
    BY FilesInOrder
  <2>3. CASE i < at[a]
    BY <1>2, <1>3, <2>2, <2>3 DEF Honest, AllHaveThoseBefore
  <2>4. CASE a = p /\ i = at[p]
    BY <1>2, <1>3, <1>12, <2>2, <2>4, DoneMeansAllHaveIt
  <2>5. QED
    BY <2>1, <2>3, <2>4
<1>13. ASSUME NEW p \in Players, NextFile(p)
       PROVE  Honest'
  <2>1. /\ UNCHANGED <<outcome, progress, disk, queue, late>>
        /\ outcome[p] = "none"
        /\ at[p] \in 1 .. Len(Files) /\ Done(p, Files[at[p]])
        /\ at' = [at EXCEPT ![p] = @ + 1]
    BY <1>1, <1>13, FilesInOrder DEF NextFile, InTransfer, TypeOK
  <2>2. AllHaveThoseBefore'
    BY <1>12, <2>1
  <2>3. StartedAfterThem'
    BY <1>1, <2>1 DEF Honest, StartedAfterThem, TypeOK
  <2>4. QED
    BY <1>1, <1>5, <1>6, <2>1, <2>2, <2>3 DEF Honest
<1>14. ASSUME NEW p \in Players, StartGame(p)
       PROVE  Honest'
  <2>1. /\ UNCHANGED <<progress, disk, queue, late>>
        /\ at[p] = Len(Files) /\ Done(p, Files[at[p]]) /\ Map \in disk[p]
        /\ at' = [at EXCEPT ![p] = @ + 1]
        /\ outcome' = [outcome EXCEPT ![p] = "started"]
    BY <1>14 DEF StartGame, Map
  <2>2. AllHaveThoseBefore'
    <3>1. at[p] \in 1 .. Len(Files)
      BY <2>1, FilesInOrder
    <3>2. QED
      BY <1>12, <2>1, <3>1
  <2>3. StartedAfterThem'
    BY <1>1, <2>1 DEF Honest, StartedAfterThem, TypeOK
  <2>4. QED
    BY <1>1, <1>5, <1>6, <2>1, <2>2, <2>3 DEF Honest
<1>15. ASSUME NEW p \in Players, BackOut(p)
       PROVE  Honest'
  <2>1. UNCHANGED <<at, progress, disk, late>>
    BY <1>15 DEF BackOut
  <2>2. ToldTheTruth' /\ StartedAfterThem'
    BY <1>1, <1>6, <1>8, <1>15, <2>1, BackOutEffect
  <2>3. QED
    BY <1>1, <1>5, <1>7, <2>1, <2>2 DEF Honest
<1>16. CASE UNCHANGED vars
  BY <1>1, <1>5, <1>6, <1>7, <1>8, <1>16 DEF vars, Honest
<1>17. QED
  BY <1>9, <1>10, <1>11, <1>13, <1>14, <1>15, <1>16 DEF Next, TimeOut, MapIsMissing

\* Whoever starts the game has the map, and everybody who lacked it has every file
\* of it or could not write it.
THEOREM AlwaysStartsWithTheFiles == Spec => []StartsWithTheFiles
<1>1. ASSUME Honest
      PROVE  StartsWithTheFiles
  <2> SUFFICES ASSUME NEW p \in Players, outcome[p] = "started"
               PROVE  /\ Map \in disk[p]
                      /\ \A q \in Lacking, f \in FileNames : Has(q, f)
    BY DEF StartsWithTheFiles, Has
  <2>1. at[p] = Len(Files) + 1 /\ Map \in disk[p]
    BY <1>1 DEF Honest, StartedAfterThem
  <2>2. \A f \in FileNames : \E i \in 1 .. Len(Files) : f = Files[i]
    BY FilesInOrder DEF FileNames
  <2>3. \A i \in 1 .. Len(Files) : i < at[p]
    BY <2>1, FilesInOrder
  <2>4. QED
    BY <1>1, <2>1, <2>2, <2>3 DEF Honest, AllHaveThoseBefore
<1>2. QED
  BY <1>1, InitHonest, HonestNext, PTL DEF Spec

-------------------------------------------------------------------------------
(* No announcement comes after the file.                                     *)

\* The host has sent f.
Sent(f) == \E i \in 1 .. Len(Files) :
             f = Files[i] /\ (i < at[Host] \/ (i = at[Host] /\ host = "sent"))

\* The host has announced f and not sent it.
Pending(f) ==
  host = "announced" /\ at[Host] \in 1 .. Len(Files) /\ f = Files[at[Host]]

\* What a message on its way shows of the host: an announcement is one of the
\* pending file, the rest is about files sent.
InOrder(p, k) ==
  /\ k.type = "FILEANNOUNCE" => p = Host /\ Pending(k.file)
  /\ k.type # "FILEANNOUNCE" => Sent(k.file)

MessagesInOrder ==
  \A p, q \in Players : \A k \in queue[p][q] \cup late[p][q] : InOrder(p, k)

NoLateAnnouncement ==
  \A p, q \in Players : \A k \in late[p][q] : k.type # "FILEANNOUNCE"

ProgressAfterSending ==
  \A p \in Players, q \in Lacking, f \in FileNames :
    progress[p][q][f] # 0 => Sent(f)

Orderly ==
  TypeOK /\ MessagesInOrder /\ NoLateAnnouncement /\ ProgressAfterSending

\* A file that is announced only has not been sent.
LEMMA PendingIsNotSent ==
  ASSUME TypeOK, NEW f, Pending(f)
  PROVE  ~Sent(f)
<1> SUFFICES ASSUME NEW i \in 1 .. Len(Files), f = Files[i],
                    i < at[Host] \/ (i = at[Host] /\ host = "sent")
             PROVE  FALSE
  BY DEF Sent
<1>1. i = at[Host]
  BY FilesAssumption, FilesInOrder DEF Pending
<1>2. at[Host] \in Nat
  BY PlayersAssumption DEF TypeOK
<1>3. QED
  BY <1>1, <1>2 DEF Pending

\* Copies that come late are none of an announcement (RepeatedAssumption).
LEMMA RepeatedAreNotAnnouncements ==
  ASSUME NEW k \in Repeated
  PROVE  k.type # "FILEANNOUNCE"
<1>1. k \in Message
  BY RepeatedAssumption
<1>2. SUFFICES ASSUME k.type = "FILEANNOUNCE" PROVE FALSE
  OBVIOUS
<1>3. k = FileAnnounce(k.file) /\ k.file \in FileNames
  BY <1>1, <1>2, MessageKinds DEF File, FileProgress
<1>4. QED
  BY <1>3, RepeatedAssumption

\* When the host's loop for a file ends, he has sent the file, as somebody lacks it.
LEMMA DoneMeansSent ==
  ASSUME Orderly, NEW p \in Players, NEW f \in FileNames, Done(p, f)
  PROVE  Sent(f)
<1>1. PICK q \in Lacking : TRUE
  BY PlayersAssumption
<1>2. progress[p][q][f] = 100
  BY DEF Done, Progress
<1>3. QED
  BY <1>2 DEF Orderly, ProgressAfterSending

\* At the start nothing is on its way.
LEMMA InitOrderly == Init => Orderly
<1> SUFFICES ASSUME Init PROVE Orderly
  OBVIOUS
<1>1. TypeOK
  BY InitType
<1>2. MessagesInOrder /\ NoLateAnnouncement
  BY DEF Init, MessagesInOrder, NoLateAnnouncement
<1>3. ProgressAfterSending
  BY PlayersAssumption DEF Init, ProgressAfterSending, Others
<1>4. QED
  BY <1>1, <1>2, <1>3 DEF Orderly

\* Messages keep their order while the host does nothing about his file.
LEMMA InOrderStays ==
  ASSUME UNCHANGED <<at, host>>
  PROVE  /\ \A f : Sent(f)' <=> Sent(f)
         /\ \A f : Pending(f)' <=> Pending(f)
         /\ \A p, k : InOrder(p, k)' <=> InOrder(p, k)
BY DEF Sent, Pending, InOrder

\* The host goes on after a file only when no announcement is left.
LEMMA HostProceeds ==
  ASSUME Orderly, TypeOK', NEW p \in Players,
         at[p] \in 1 .. Len(Files), Done(p, Files[at[p]]),
         at' = [at EXCEPT ![p] = @ + 1], p # Host => host' = host,
         UNCHANGED <<progress, queue, late>>
  PROVE  Orderly'
<1>1. TypeOK
  BY DEF Orderly
<1>2. CASE p # Host
  <2>1. at'[Host] = at[Host] /\ host' = host
    BY <1>1, <1>2, PlayersAssumption DEF TypeOK
  <2>2. /\ \A f : Sent(f)' <=> Sent(f)
        /\ \A f : Pending(f)' <=> Pending(f)
    BY <2>1 DEF Sent, Pending
  <2>3. QED
    BY <2>2 DEF Orderly, MessagesInOrder, InOrder, NoLateAnnouncement, ProgressAfterSending
<1>3. CASE p = Host
  <2>1. at'[Host] = at[Host] + 1 /\ at[Host] \in Nat
    BY <1>1, <1>3, PlayersAssumption DEF TypeOK
  <2>2. \A f : Sent(f) => Sent(f)'
    <3>1. \A i \in 1 .. Len(Files) : i < at[Host] \/ i = at[Host] => i < at'[Host]
      BY <2>1, FilesInOrder
    <3>2. QED
      BY <3>1 DEF Sent
  <2>3. Sent(Files[at[Host]])
    BY <1>3, DoneMeansSent, FilesInOrder
  <2>4. \A f : ~Pending(f)
    BY <1>1, <2>3, PendingIsNotSent DEF Pending
  <2>5. QED
    BY <2>2, <2>4 DEF Orderly, MessagesInOrder, InOrder, NoLateAnnouncement,
       ProgressAfterSending
<1>4. QED
  BY <1>2, <1>3

\* What receiving a message tells is in order, too.
LEMMA ReceiveOrderly ==
  ASSUME Orderly, TypeOK', NEW p \in Players, NEW q \in Players,
         NEW m \in queue[p][q] \cup late[p][q], Receive(p, q, m)
  PROVE  Orderly'
<1>1. TypeOK
  BY DEF Orderly
<1>2. InOrder(p, m)
  BY DEF Orderly, MessagesInOrder
<1>3. UNCHANGED <<at, host>>
  BY DEF Receive
<1>4. MessagesInOrder'
  <2> SUFFICES ASSUME NEW a \in Players, NEW b \in Players,
                      NEW k \in queue'[a][b] \cup late'[a][b]
               PROVE  InOrder(a, k)
    BY <1>3, InOrderStays DEF MessagesInOrder
  <2>1. k \in queue[a][b] \cup late[a][b] \/ Told(q, m, a, k)
    BY <1>1, ReceiveEffect
  <2>2. CASE k \in queue[a][b] \cup late[a][b]
    BY <2>2 DEF Orderly, MessagesInOrder
  <2>3. CASE Told(q, m, a, k)
    BY <1>2, <2>3 DEF Told, InOrder
  <2>4. QED
    BY <2>1, <2>2, <2>3
<1>5. NoLateAnnouncement'
  <2> SUFFICES ASSUME NEW a \in Players, NEW b \in Players, NEW k \in late'[a][b]
               PROVE  k.type # "FILEANNOUNCE"
    BY DEF NoLateAnnouncement
  <2>1. k \in late[a][b] \/ k \in Repeated
    BY <1>1, ReceiveEffect
  <2>2. QED
    BY <2>1, RepeatedAreNotAnnouncements DEF Orderly, NoLateAnnouncement
<1>6. ProgressAfterSending'
  <2> SUFFICES ASSUME NEW a \in Players, NEW b \in Lacking, NEW g \in FileNames,
                      progress'[a][b][g] # 0
               PROVE  Sent(g)
    BY <1>3, InOrderStays DEF ProgressAfterSending
  <2>1. ProgressAfter(p, q, m, a, b, g)
    BY <1>1, ReceiveEffect, PlayersAssumption DEF Others
  <2>2. CASE progress'[a][b][g] = progress[a][b][g]
    BY <2>2 DEF Orderly, ProgressAfterSending
  <2>3. CASE m.file = g /\ m.type # "FILEANNOUNCE"
    BY <1>2, <2>3 DEF InOrder
  <2>4. QED
    BY <2>1, <2>2, <2>3 DEF ProgressAfter, FileProgress
<1>7. QED
  BY <1>4, <1>5, <1>6 DEF Orderly

\* Every step keeps that order.
LEMMA OrderlyNext == Orderly /\ [Next]_vars => Orderly'
<1> SUFFICES ASSUME Orderly, [Next]_vars PROVE Orderly'
  OBVIOUS
<1>1. TypeOK /\ TypeOK'
  BY TypeOKNext DEF Orderly
<1>2. CASE Announce
  <2> DEFINE f == Files[at[Host]]
  <2>1. at[Host] \in 1 .. Len(Files) /\ f \in FileNames
    BY <1>1, <1>2, FilesInOrder, PlayersAssumption DEF Announce, InTransfer, TypeOK
  <2>2. /\ host = "idle" /\ host' = "announced"
        /\ progress' = [progress EXCEPT ![Host] = Announced(@, f)]
        /\ Send(Host, Others(Host), {FileAnnounce(f)})
        /\ UNCHANGED <<at, late>>
    BY <1>2 DEF Announce
  <2>3. (\A g : Sent(g)' <=> Sent(g)) /\ (\A g : g = f => Pending(g)') /\ \A g : ~Pending(g)
    BY <2>1, <2>2 DEF Sent, Pending
  <2> HIDE DEF f
  <2>4. {FileAnnounce(f)} \in SUBSET Message
    BY <2>1, AreMessages
  <2>5. \A a, b \in Players :
          queue'[a][b] \subseteq queue[a][b] \cup
            (IF a = Host THEN {FileAnnounce(f)} ELSE {})
    BY <1>1, <2>2, <2>4, SendType, PlayersAssumption
  <2>6. MessagesInOrder'
    <3> SUFFICES ASSUME NEW a \in Players, NEW b \in Players,
                        NEW k \in queue'[a][b] \cup late'[a][b]
                 PROVE  InOrder(a, k)'
      BY DEF MessagesInOrder
    <3>1. k \in queue[a][b] \cup late[a][b] \/ (a = Host /\ k = FileAnnounce(f))
      BY <2>2, <2>5
    <3>2. CASE k \in queue[a][b] \cup late[a][b]
      <4>1. InOrder(a, k)
        BY <3>2 DEF Orderly, MessagesInOrder
      <4>2. QED
        BY <2>3, <4>1 DEF InOrder
    <3>3. CASE a = Host /\ k = FileAnnounce(f)
      BY <2>3, <3>3 DEF FileAnnounce, InOrder
    <3>4. QED
      BY <3>1, <3>2, <3>3
  <2>7. ProgressAfterSending'
    <3> SUFFICES ASSUME NEW p \in Players, NEW q \in Lacking, NEW g \in FileNames,
                        progress'[p][q][g] # 0
                 PROVE  progress[p][q][g] # 0
      BY <2>3 DEF Orderly, ProgressAfterSending
    <3>1. progress'[p][q][g] =
            IF p = Host THEN Announced(progress[Host], f)[q][g] ELSE progress[p][q][g]
      BY <1>1, <2>2 DEF TypeOK
    <3>2. progress[Host] \in [Players -> [FileNames -> Percent]] /\ q \in Players
      BY <1>1, PlayersAssumption DEF TypeOK, Others
    <3>3. Announced(progress[Host], f)[q][g] = IF g # f THEN progress[Host][q][g] ELSE 0
      BY <2>1, <3>2, AnnouncedType
    <3>4. QED
      BY <3>1, <3>3
  <2>8. QED
    BY <1>1, <2>2, <2>6, <2>7 DEF Orderly, NoLateAnnouncement
<1>3. CASE SendFile
  <2> DEFINE f == Files[at[Host]]
             chunks == {File(f, k) : k \in ChunkNumbers(f)}
  <2>1. at[Host] \in 1 .. Len(Files) /\ f \in FileNames
    BY <1>1, <1>3, FilesInOrder, PlayersAssumption DEF SendFile, InTransfer, TypeOK
  <2>2. /\ host = "announced" /\ host' = "sent"
        /\ QueuesEmpty(Host)
        /\ Send(Host, Lacking, chunks)
        /\ UNCHANGED <<at, progress, late>>
    BY <1>3 DEF SendFile
  <2>3. (\A g : Sent(g) => Sent(g)') /\ \A g : g = f => Sent(g)'
    BY <2>1, <2>2 DEF Sent
  <2>4. \A k \in chunks : k.type = "FILE" /\ k.file = f
    BY DEF File
  <2>5. chunks \in SUBSET Message
    BY <2>1, AreMessages
  <2> HIDE DEF f, chunks
  <2>6. \A a, b \in Players :
          queue'[a][b] \subseteq queue[a][b] \cup (IF a = Host THEN chunks ELSE {})
    BY <1>1, <2>2, <2>5, SendType, PlayersAssumption
  <2>7. \A a, b \in Players : \A k \in queue[a][b] \cup late[a][b] :
          k.type # "FILEANNOUNCE"
    BY <2>2 DEF Orderly, MessagesInOrder, NoLateAnnouncement, InOrder, QueuesEmpty
  <2>8. MessagesInOrder'
    <3> SUFFICES ASSUME NEW a \in Players, NEW b \in Players,
                        NEW k \in queue'[a][b] \cup late'[a][b]
                 PROVE  InOrder(a, k)'
      BY DEF MessagesInOrder
    <3>1. k \in queue[a][b] \cup late[a][b] \/ k \in chunks
      BY <2>2, <2>6
    <3>2. CASE k \in queue[a][b] \cup late[a][b]
      <4>1. InOrder(a, k) /\ k.type # "FILEANNOUNCE"
        BY <2>7, <3>2 DEF Orderly, MessagesInOrder
      <4>2. QED
        BY <2>3, <4>1 DEF InOrder
    <3>3. CASE k \in chunks
      BY <2>3, <2>4, <3>3 DEF InOrder
    <3>4. QED
      BY <3>1, <3>2, <3>3
  <2>9. QED
    BY <1>1, <2>2, <2>3, <2>8 DEF Orderly, NoLateAnnouncement, ProgressAfterSending
<1>4. ASSUME NEW p \in Players, NEW q \in Players,
             NEW m \in queue[p][q] \cup late[p][q], Receive(p, q, m)
      PROVE  Orderly'
  BY <1>1, <1>4, ReceiveOrderly
<1>5. ASSUME NEW p \in Players, NextFile(p)
      PROVE  Orderly'
  <2>1. /\ UNCHANGED <<progress, queue, late>>
        /\ at[p] \in 1 .. Len(Files) /\ Done(p, Files[at[p]])
        /\ at' = [at EXCEPT ![p] = @ + 1] /\ (p # Host => host' = host)
    BY <1>1, <1>5, FilesInOrder DEF NextFile, TypeOK
  <2>2. QED
    BY <1>1, <2>1, HostProceeds
<1>6. ASSUME NEW p \in Players, StartGame(p)
      PROVE  Orderly'
  <2>1. /\ UNCHANGED <<host, progress, queue, late>>
        /\ at[p] = Len(Files) /\ Done(p, Files[at[p]])
        /\ at' = [at EXCEPT ![p] = @ + 1]
    BY <1>6 DEF StartGame, Map
  <2>2. at[p] \in 1 .. Len(Files)
    BY <2>1, FilesInOrder
  <2>3. QED
    BY <1>1, <2>1, <2>2, HostProceeds
<1>7. ASSUME NEW p \in Players, BackOut(p)
      PROVE  Orderly'
  <2>1. UNCHANGED <<at, host, progress, late>>
    BY <1>7 DEF BackOut
  <2>2. \A a, b \in Players : queue'[a][b] \subseteq queue[a][b]
    BY <1>1, <1>7, BackOutEffect
  <2>3. QED
    BY <1>1, <2>1, <2>2, InOrderStays DEF Orderly, MessagesInOrder, NoLateAnnouncement,
       ProgressAfterSending
<1>8. CASE UNCHANGED vars
  <2>1. UNCHANGED <<at, host, progress, queue, late>>
    BY <1>8 DEF vars
  <2>2. QED
    BY <1>1, <2>1, InOrderStays DEF Orderly, MessagesInOrder, NoLateAnnouncement,
       ProgressAfterSending
<1>9. QED
  BY <1>2, <1>3, <1>4, <1>5, <1>6, <1>7, <1>8 DEF Next, TimeOut, MapIsMissing

\* So an announcement finds no progress it could reset.
LEMMA AnnouncementFindsNothing ==
  ASSUME Orderly, NEW f \in FileNames, ~Sent(f), NEW p \in Players, NEW q \in Players,
         NEW g \in FileNames
  PROVE  Announced(progress[p], f)[q][g] >= progress[p][q][g]
<1>1. progress[p] \in [Players -> [FileNames -> Percent]]
  BY DEF Orderly, TypeOK
<1>2. Announced(progress[p], f)[q][g] =
        IF g # f THEN progress[p][q][g] ELSE IF q \in Lacking THEN 0 ELSE 100
  BY <1>1, AnnouncedType
<1>3. progress[p][q][g] \in Percent
  BY <1>1
<1>4. \A n \in Percent : n >= n /\ 100 >= n
  BY DEF Percent
<1>5. CASE g = f /\ q \in Lacking
  <2>1. progress[p][q][g] = 0
    BY <1>5 DEF Orderly, ProgressAfterSending
  <2>2. QED
    BY <1>2, <1>5, <2>1
<1>6. CASE ~(g = f /\ q \in Lacking)
  BY <1>2, <1>3, <1>4, <1>6
<1>7. QED
  BY <1>5, <1>6

\* No computer forgets how far another is.
THEOREM ProgressIsAlwaysKept == Spec => ProgressIsKept
<1> DEFINE Kept == \A p, q \in Players, f \in FileNames :
                     progress'[p][q][f] >= progress[p][q][f]
<1>1. ASSUME Orderly, [Next]_vars
      PROVE  Kept
  <2> SUFFICES ASSUME NEW a \in Players, NEW b \in Players, NEW g \in FileNames
               PROVE  progress'[a][b][g] >= progress[a][b][g]
    OBVIOUS
  <2>1. TypeOK
    BY <1>1 DEF Orderly
  <2>2. progress[a][b][g] \in Percent /\ \A n \in Percent : n >= n
    BY <2>1 DEF TypeOK, Percent
  <2>3. CASE UNCHANGED progress
    BY <2>2, <2>3
  <2>4. CASE Announce
    <3> DEFINE f == Files[at[Host]]
    <3>1. at[Host] \in 1 .. Len(Files) /\ f \in FileNames
      BY <2>1, <2>4, FilesInOrder, PlayersAssumption DEF Announce, InTransfer, TypeOK
    <3>2. host = "idle" /\ progress' = [progress EXCEPT ![Host] = Announced(@, f)]
      BY <2>4 DEF Announce
    <3>3. ~Sent(f)
      <4> SUFFICES ASSUME NEW i \in 1 .. Len(Files), f = Files[i], i < at[Host]
                   PROVE  FALSE
        BY <3>2 DEF Sent
      <4>1. i = at[Host]
        BY <3>1, FilesAssumption, FilesInOrder
      <4>2. QED
        BY <3>1, <4>1
    <3> HIDE DEF f
    <3>4. progress'[a][b][g] =
            IF a = Host THEN Announced(progress[a], f)[b][g] ELSE progress[a][b][g]
      BY <2>1, <3>2 DEF TypeOK
    <3>5. QED
      BY <1>1, <2>2, <3>1, <3>3, <3>4, AnnouncementFindsNothing
  <2>5. ASSUME NEW p \in Players, NEW q \in Players,
               NEW m \in queue[p][q] \cup late[p][q], Receive(p, q, m)
        PROVE  progress'[a][b][g] >= progress[a][b][g]
    <3>1. ProgressAfter(p, q, m, a, b, g)
      BY <2>1, <2>5, ReceiveEffect
    <3>2. CASE progress'[a][b][g] = progress[a][b][g]
      BY <2>2, <3>2
    <3>3. CASE m.type = "FILEANNOUNCE" /\ a = q /\ g = m.file
      <4>1. ~Sent(g)
        BY <1>1, <2>1, <3>3, PendingIsNotSent DEF Orderly, MessagesInOrder, InOrder
      <4>2. progress'[a][b][g] = Announced(progress[a], g)[b][g]
        <5>1. progress' = [progress EXCEPT ![q] = Announced(@, g)]
          BY <2>5, <3>3 DEF Receive, ReceiveFileAnnounce, ReceiveFileProgress,
             ReceiveChunk, ReceiveFile, RefuseFile
        <5>2. QED
          BY <2>1, <3>3, <5>1 DEF TypeOK
      <4>3. QED
        BY <1>1, <4>1, <4>2, AnnouncementFindsNothing
    <3>4. QED
      BY <3>1, <3>2, <3>3 DEF ProgressAfter
  <2>6. \/ UNCHANGED progress
        \/ Announce
        \/ \E p, q \in Players : \E m \in queue[p][q] \cup late[p][q] : Receive(p, q, m)
    BY <1>1 DEF Next, vars, SendFile, NextFile, StartGame, TimeOut, MapIsMissing, BackOut
  <2>7. QED
    BY <2>3, <2>4, <2>5, <2>6
<1>2. Kept /\ [Next]_vars => [Kept]_vars
  OBVIOUS
<1>3. QED
  BY <1>1, InitOrderly, OrderlyNext, PTL DEF Spec, ProgressIsKept

===============================================================================
