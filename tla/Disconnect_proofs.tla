--------------------------- MODULE Disconnect_proofs ---------------------------
(***************************************************************************)
(* Theorems about Disconnect, for any players, run-ahead, faults, repeated *)
(* messages and bounds: its types, and that it implements Pace.  And about *)
(* games of three of whom a client may stop: on which frame he is          *)
(* disconnected, and by which votes.                                       *)
(*                                                                         *)
(* That computers stay in step although the commands they lack come from   *)
(* those ahead rests on what these commands are: those of a computer that  *)
(* executed them, and so had them all.  That only the silent are           *)
(* disconnected rests on votes and timeouts being about silent players,    *)
(* and on a player being voted out by one vote at least.                   *)
(***************************************************************************)
EXTENDS Disconnect, FiniteSetTheorems, WellFoundedInduction, TLAPS

Silent == {p \in Players : status[p] = "silent"}

\* What a manager holds against a player: he was timed out or voted for.
Suspects(m) ==
  {q \in Players : q \in m.timedOut \/ \E r \in Players : m.votes[q][r] # 0}

\* Commands are no more than their player announced, and votes and
\* disconnections are about a silent player.
MessageIsTrue(m) ==
  /\ m.type = "COMMANDS" => m.frame <= frame[m.about] + RunAhead
  /\ m.type \in {"VOTE", "PLAYER"} => m.about \in Silent

CommandsInv ==
  \A p, q \in Players :
    /\ complete[p][q] <= frame[q] + RunAhead
    /\ q \in Others(p) => frame[p] <= complete[p][q]

PaceInv ==
  /\ TypeOK
  /\ \A p \in Players : p \in connected[p] /\ frame[p] >= FirstFrame
  /\ CommandsInv
  /\ \A m \in network : MessageIsTrue(m)
  /\ \A p \in Players : Suspects(manager[p]) \subseteq Silent

-------------------------------------------------------------------------------
(* Finite sets.                                                              *)

\* A function with natural values on a finite set has a largest one.
LEMMA LargestValue ==
  ASSUME NEW P, IsFiniteSet(P), P # {}, NEW g \in [P -> Nat]
  PROVE  \E p \in P : \A q \in P : g[q] <= g[p]
<1> DEFINE HasLargest(S) == \E p \in S : \A q \in S : g[q] <= g[p]
           Sizes == {n \in Nat : \E S \in SUBSET P :
                       S # {} /\ Cardinality(S) = n /\ ~HasLargest(S)}
<1>1. SUFFICES ASSUME ~HasLargest(P)
               PROVE  FALSE
  OBVIOUS
<1>2. Cardinality(P) \in Sizes
  BY <1>1, FS_CardinalityType
<1>3. PICK n \in Sizes : \A k \in Sizes : ~(<<k, n>> \in OpToRel(<, Nat))
  BY <1>2, NatLessThanWellFounded, WFMin
<1>4. PICK S \in SUBSET P : S # {} /\ Cardinality(S) = n /\ ~HasLargest(S)
  OBVIOUS
<1>5. PICK p \in S : TRUE
  BY <1>4
<1> DEFINE T == S \ {p}
<1>6. IsFiniteSet(S) /\ n \in Nat
  BY FS_Subset
<1>7. Cardinality(T) = n - 1 /\ Cardinality(T) \in Nat
  BY <1>4, <1>5, <1>6, FS_RemoveElement, FS_CardinalityType
<1>8. Cardinality(T) \notin Sizes
  <2>1. <<n - 1, n>> \in Nat \X Nat /\ n - 1 < n
    BY <1>6, <1>7
  <2>2. <<n - 1, n>> \in OpToRel(<, Nat)
    BY <2>1 DEF OpToRel
  <2>3. QED
    BY <1>3, <1>7, <2>2
<1>9. CASE T = {}
  <2>1. S = {p}
    BY <1>5, <1>9
  <2>2. QED
    BY <1>4, <2>1
<1>10. CASE T # {}
  <2>1. PICK r \in T : \A q \in T : g[q] <= g[r]
    BY <1>7, <1>8, <1>10
  <2>2. CASE g[p] <= g[r]
    BY <1>4, <2>1, <2>2
  <2>3. CASE ~(g[p] <= g[r])
    <3>1. \A q \in S : g[q] \in Nat
      OBVIOUS
    <3>2. \A q \in S : g[q] <= g[p]
      BY <1>5, <2>1, <2>3, <3>1
    <3>3. QED
      BY <1>4, <1>5, <3>2
  <2>4. QED
    BY <2>2, <2>3
<1>11. QED
  BY <1>9, <1>10

\* The largest frame in a table of frames.
LEMMA LargestFrame ==
  ASSUME NEW g \in [Players -> Nat], NEW p \in Players
  PROVE  Max({g[r] : r \in Players}) \in Nat
<1>1. PICK q \in Players : \A r \in Players : g[r] <= g[q]
  BY LargestValue, PlayersAssumption
<1> DEFINE S == {g[r] : r \in Players}
<1>2. g[q] \in S /\ \A y \in S : g[q] >= y
  BY <1>1
<1>3. Max(S) \in S
  BY <1>2 DEF Max
<1>4. QED
  BY <1>3

\* The larger of two numbers.
LEMMA LargerOfTwo ==
  ASSUME NEW a \in Nat, NEW b \in Nat
  PROVE  Max({a, b}) \in {a, b} /\ Max({a, b}) >= a /\ Max({a, b}) >= b
BY DEF Max

\* Whoever is voted out was voted for.
LEMMA VotedOutIsSuspect ==
  ASSUME TypeOK, NEW p \in Players, NEW q \in Others(p),
         p \in connected[p], frame[p] > 0, IsPlayerVotedOut(p, q)
  PROVE  q \in Suspects(manager[p])
<1> DEFINE voters == {r \in Players : manager[p].votes[q][r] = frame[p]}
<1>1. /\ connected[p] \in SUBSET Players /\ q \in Players /\ q # p
      /\ q \in connected[p]
  BY DEF TypeOK, Others
<1>2. IsFiniteSet(connected[p]) /\ IsFiniteSet(voters)
  BY <1>1, PlayersAssumption, FS_Subset
<1>3. Cardinality(connected[p]) \in Nat /\ Cardinality(connected[p]) >= 2
  <2>1. {p, q} \in SUBSET connected[p]
    BY <1>1
  <2>2. Cardinality({p, q}) = 2
    <3>1. IsFiniteSet({p}) /\ Cardinality({p}) = 1 /\ {p} \cup {q} = {p, q}
      BY FS_Singleton
    <3>2. q \notin {p}
      BY <1>1
    <3>3. Cardinality({p} \cup {q}) = Cardinality({p}) + 1
      BY <3>1, <3>2, FS_AddElement
    <3>4. QED
      BY <3>1, <3>3
  <2>3. QED
    BY <1>2, <2>1, <2>2, FS_Subset, FS_CardinalityType
<1>4. Cardinality(voters) \in Nat /\ Cardinality(voters) >= 1
  BY <1>2, <1>3, FS_CardinalityType DEF IsPlayerVotedOut, CountVotesForPlayer
<1>5. voters # {}
  BY <1>4, FS_EmptySet
<1>6. QED
  BY <1>1, <1>5 DEF Suspects

-------------------------------------------------------------------------------
(* Managers and messages.                                                    *)

\* A manager whose votes are some of those of another.
Forgets(new, old) ==
  /\ new \in Managers
  /\ new.timedOut = old.timedOut /\ new.screenOn = old.screenOn
  /\ \A q, r \in Players : new.votes[q][r] \in {old.votes[q][r], 0}

\* The fields of a manager.
LEMMA ManagerFields ==
  ASSUME NEW m \in Managers
  PROVE  /\ m.screenOn \in BOOLEAN /\ m.notified \in BOOLEAN
         /\ m.timedOut \in SUBSET Players
         /\ m.votes \in [Players -> [Players -> Nat]]
         /\ m.frames \in [Players -> Nat] /\ m.received \in SUBSET Players
BY DEF Managers

\* A manager forgets votes, and only these.
LEMMA ResetForgets ==
  ASSUME NEW m \in Managers, NEW q \in Players, NEW f
  PROVE  Forgets(ResetPlayersVotes(m, q, f), m)
<1> DEFINE votes == [r \in Players |-> [m.votes[r] EXCEPT
                              ![q] = IF m.votes[r][q] <= f THEN 0 ELSE m.votes[r][q]]]
<1>1. votes \in [Players -> [Players -> Nat]]
  BY ManagerFields
<1>2. \A r, s \in Players : votes[r][s] \in {m.votes[r][s], 0}
  BY ManagerFields
<1>3. ResetPlayersVotes(m, q, f) = [m EXCEPT !.votes = votes]
  BY Zenon DEF ResetPlayersVotes
<1> HIDE DEF votes
<1>4. QED
  BY <1>1, <1>2, <1>3 DEF Forgets, Managers

\* Noting someone's frame forgets nothing else.
LEMMA NotedForgets ==
  ASSUME NEW old, NEW r, Forgets(r, old), NEW q \in Players, NEW f \in Nat
  PROVE  /\ Forgets([r EXCEPT !.frames[q] = f, !.received = @ \cup {q}], old)
         /\ Forgets([r EXCEPT !.frames[q] = f, !.received = @ \ {q}], old)
<1>1. ASSUME NEW received \in SUBSET Players
      PROVE  Forgets([r EXCEPT !.frames[q] = f, !.received = received], old)
  <2> PICK new : new = [r EXCEPT !.frames[q] = f, !.received = received]
    OBVIOUS
  <2>1. r \in Managers
    BY DEF Forgets
  <2>2. [r.frames EXCEPT ![q] = f] \in [Players -> Nat]
    BY <2>1, ManagerFields
  <2>3. /\ new \in Managers /\ new.votes = r.votes
        /\ new.timedOut = r.timedOut /\ new.screenOn = r.screenOn
    BY <2>1, <2>2 DEF Managers
  <2>4. QED
    BY <2>3 DEF Forgets
<1>2. r \in Managers /\ r.received \in SUBSET Players
  BY ManagerFields DEF Forgets
<1>3. /\ [r EXCEPT !.frames[q] = f, !.received = @ \cup {q}] =
           [r EXCEPT !.frames[q] = f, !.received = r.received \cup {q}]
      /\ [r EXCEPT !.frames[q] = f, !.received = @ \ {q}] =
           [r EXCEPT !.frames[q] = f, !.received = r.received \ {q}]
  BY <1>2 DEF Managers
<1>4. r.received \cup {q} \in SUBSET Players /\ r.received \ {q} \in SUBSET Players
  BY <1>2
<1>5. QED
  BY <1>1, <1>3, <1>4

\* Someone's frame is noted, and votes of his are forgotten.
LEMMA DisconnectFrameForgets ==
  ASSUME NEW m \in Managers, NEW q \in Players, NEW f \in Nat
  PROVE  Forgets(DisconnectFrame(m, q, f), m)
<1>1. CASE m.frames[q] >= f
  BY <1>1, ManagerFields DEF DisconnectFrame, Forgets
<1>2. CASE ~(m.frames[q] >= f)
  <2>1. PICK r : r = ResetPlayersVotes(m, q, f - 1)
    OBVIOUS
  <2>2. Forgets(r, m)
    BY <2>1, ResetForgets
  <2>3. DisconnectFrame(m, q, f) = [r EXCEPT !.frames[q] = f, !.received = @ \cup {q}]
    BY <1>2, <2>1 DEF DisconnectFrame
  <2>4. Forgets([r EXCEPT !.frames[q] = f, !.received = @ \cup {q}], m)
    BY <2>2, NotedForgets
  <2>5. QED
    BY <2>3, <2>4
<1>3. QED
  BY <1>1, <1>2

\* Someone's screen is off: his votes on that frame are forgotten too.
LEMMA DisconnectScreenOffForgets ==
  ASSUME NEW m \in Managers, NEW q \in Players, NEW f \in Nat
  PROVE  Forgets(DisconnectScreenOff(m, q, f), m)
<1>1. CASE f < m.frames[q]
  BY <1>1, ManagerFields DEF DisconnectScreenOff, Forgets
<1>2. CASE ~(f < m.frames[q])
  <2>1. PICK r : r = ResetPlayersVotes(m, q, f)
    OBVIOUS
  <2>2. Forgets(r, m)
    BY <2>1, ResetForgets
  <2>3. DisconnectScreenOff(m, q, f) =
          [r EXCEPT !.frames[q] = f, !.received = @ \ {q}]
    BY <1>2, <2>1 DEF DisconnectScreenOff
  <2>4. Forgets([r EXCEPT !.frames[q] = f, !.received = @ \ {q}], m)
    BY <2>2, NotedForgets
  <2>5. QED
    BY <2>3, <2>4
<1>3. QED
  BY <1>1, <1>2

\* Who forgets suspects no more than before.
LEMMA ForgetsSuspects ==
  ASSUME NEW old \in Managers, NEW new, Forgets(new, old)
  PROVE  Suspects(new) \subseteq Suspects(old)
<1>1. ASSUME NEW q \in Players, NEW r \in Players, new.votes[q][r] # 0
      PROVE  old.votes[q][r] # 0
  BY <1>1 DEF Forgets
<1>2. QED
  BY <1>1 DEF Suspects, Forgets

\* A vote for q makes no other a suspect.
LEMMA VoteSuspects ==
  ASSUME NEW m \in Managers, NEW q \in Players, NEW r \in Players, NEW f \in Nat,
         NEW new, new = ApplyDisconnectVote(m, q, r, f)
  PROVE  /\ new \in Managers
         /\ new.timedOut = m.timedOut /\ new.screenOn = m.screenOn
         /\ Suspects(new) \subseteq Suspects(m) \cup {q}
<1>1. new = [m EXCEPT !.votes[q][r] = f]
  BY DEF ApplyDisconnectVote
<1>2. /\ new \in Managers
      /\ new.timedOut = m.timedOut /\ new.screenOn = m.screenOn
      /\ new.votes = [m.votes EXCEPT ![q][r] = f]
  <2>1. [m.votes EXCEPT ![q][r] = f] \in [Players -> [Players -> Nat]]
    BY ManagerFields
  <2>2. PICK votes : votes = [m.votes EXCEPT ![q][r] = f]
    OBVIOUS
  <2>3. new = [m EXCEPT !.votes = votes]
    BY <1>1, <2>2
  <2>4. QED
    BY <2>1, <2>2, <2>3 DEF Managers
<1>3. ASSUME NEW s \in Players \ {q}
      PROVE  new.votes[s] = m.votes[s]
  BY <1>2, ManagerFields
<1>4. QED
  BY <1>2, <1>3 DEF Suspects

\* Messages sent are messages, one for each receiver who is up.
LEMMA SentMessages ==
  ASSUME NEW type \in {"FRAME", "SCREENOFF", "VOTE", "PLAYER", "COMMANDS"},
         NEW p \in Players, NEW to \in SUBSET Players, NEW f \in Nat, NEW q \in Players
  PROVE  \A m \in Send(type, p, to, f, q) :
           /\ m \in Message /\ m.type = type /\ m.frame = f /\ m.about = q
           /\ m.from = p /\ m.to \in to /\ status[m.to] = "up"
BY DEF Send, Message

\* The commands sent to who is behind are those of players connected, for the
\* frames executed.
LEMMA FrameDataMessages ==
  ASSUME TypeOK, NEW p \in Players, NEW q \in Players, NEW f
  PROVE  \A m \in FrameDataTo(p, q, f) :
           /\ m \in Message /\ m.type = "COMMANDS" /\ m.frame = frame[p]
           /\ m.about \in connected[p]
           /\ m.from = p /\ m.to = q /\ status[m.to] = "up"
<1> TAKE m \in FrameDataTo(p, q, f)
<1>1. frame[p] \in Nat /\ connected[p] \in SUBSET Players
  BY DEF TypeOK
<1>2. m \in UNION {Send("COMMANDS", p, {q}, frame[p], r) : r \in connected[p] \ {q}}
  BY DEF FrameDataTo
<1>3. PICK r \in connected[p] : m \in Send("COMMANDS", p, {q}, frame[p], r)
  BY <1>2
<1>4. r \in Players /\ {q} \in SUBSET Players
  BY <1>1
<1>5. /\ m \in Message /\ m.type = "COMMANDS" /\ m.frame = frame[p] /\ m.about = r
      /\ m.from = p /\ m.to \in {q} /\ status[m.to] = "up"
  BY <1>1, <1>3, <1>4, SentMessages
<1>6. QED
  BY <1>5

\* The same of those sent after a disconnect frame.
LEMMA CatchUpMessages ==
  ASSUME TypeOK, NEW p \in Players, NEW n, NEW q
  PROVE  \A m \in CatchUp(p, n, q) :
           /\ m \in Message /\ m.type = "COMMANDS" /\ m.frame = frame[p]
           /\ m.about \in connected[p]
           /\ m.from = p /\ m.to \in Others(p) /\ status[m.to] = "up"
<1>1. Others(p) \subseteq Players
  BY DEF TypeOK, Others
<1>2. ASSUME NEW m \in CatchUp(p, n, q)
      PROVE  \E r \in Others(p) : m \in FrameDataTo(p, r, n.frames[r])
  BY DEF CatchUp
<1>3. QED
  BY <1>1, <1>2, FrameDataMessages

-------------------------------------------------------------------------------
(* PaceInv is kept.                                                          *)

\* What TypeOK says of numbers and sets, for the arithmetic below.
LEMMA TypeFacts ==
  ASSUME TypeOK
  PROVE  /\ status \in [Players -> {"up", "down", "silent"}]
         /\ frame \in [Players -> Nat] /\ RunAhead \in Nat
         /\ complete \in [Players -> [Players -> Nat]]
         /\ connected \in [Players -> SUBSET Players]
         /\ manager \in [Players -> Managers]
         /\ network \subseteq Message
         /\ disconnectedOn \in [Players -> [Players -> Nat]]
         /\ \A p \in Players : /\ manager[p] \in Managers
                               /\ Others(p) \subseteq Players /\ p \notin Others(p)
         /\ \A p \in Players : manager[p].timedOut # {} => manager[p].screenOn
         /\ \A m \in network : /\ m.from \in Players /\ m.to \in Players
                               /\ m.about \in Players /\ m.frame \in Nat
BY FramesAssumption DEF TypeOK, Others, Message

\* A message stays true while frames grow and the silent stay so.
LEMMA StaysTrue ==
  ASSUME TypeOK, frame' \in [Players -> Nat], \A p \in Players : frame[p] <= frame'[p],
         Silent \subseteq Silent', NEW m \in Message, MessageIsTrue(m)
  PROVE  MessageIsTrue(m)'
<1>1. /\ m.about \in Players /\ m.frame \in Nat /\ RunAhead \in Nat
      /\ frame[m.about] \in Nat /\ frame'[m.about] \in Nat
      /\ frame[m.about] <= frame'[m.about]
  BY TypeFacts DEF Message
<1>2. m.type = "COMMANDS" => m.frame <= frame'[m.about] + RunAhead
  BY <1>1 DEF MessageIsTrue
<1>3. QED
  BY <1>2 DEF MessageIsTrue

\* The commands sent to who is behind are true: who executed a frame had them.
LEMMA CatchUpIsTrue ==
  ASSUME PaceInv, NEW p \in Players, NEW n, NEW q, NEW m \in CatchUp(p, n, q)
  PROVE  m \in Message /\ MessageIsTrue(m)
<1>1. /\ m \in Message /\ m.type = "COMMANDS" /\ m.frame = frame[p]
      /\ m.about \in connected[p]
  BY CatchUpMessages DEF PaceInv
<1>2. /\ m.about \in Players /\ frame[p] \in Nat /\ frame[m.about] \in Nat
      /\ complete[p][m.about] \in Nat /\ RunAhead \in Nat
  BY <1>1, TypeFacts DEF PaceInv, Message
<1>3. CASE m.about = p
  BY <1>1, <1>2, <1>3 DEF MessageIsTrue
<1>4. CASE m.about # p
  <2>1. /\ frame[p] <= complete[p][m.about]
        /\ complete[p][m.about] <= frame[m.about] + RunAhead
    BY <1>1, <1>2, <1>4 DEF PaceInv, CommandsInv, Others
  <2>2. QED
    BY <1>1, <1>2, <2>1 DEF MessageIsTrue
<1>5. QED
  BY <1>3, <1>4

\* A step that changes one manager and sends messages.
LEMMA ManagerStep ==
  ASSUME PaceInv, NEW p \in Players, NEW new \in Managers,
         new.timedOut # {} => new.screenOn, Suspects(new) \subseteq Silent,
         NEW sent, \A m \in sent : m \in Message /\ MessageIsTrue(m),
         manager' = [manager EXCEPT ![p] = new],
         network' \subseteq network \cup sent,
         UNCHANGED <<status, frame, complete, connected, disconnectedOn>>
  PROVE  PaceInv'
<1>1. TypeOK
  BY DEF PaceInv
<1>2. /\ manager' \in [Players -> Managers]
      /\ \A q \in Players : manager'[q] = IF q = p THEN new ELSE manager[q]
  BY <1>1, TypeFacts
<1>3. TypeOK'
  <2>1. network' \subseteq Message
    BY <1>1, TypeFacts
  <2>2. QED
    BY <1>1, <1>2, <2>1 DEF TypeOK
<1>4. \A m \in network' : MessageIsTrue(m)'
  BY DEF PaceInv, MessageIsTrue, Silent
<1>5. \A q \in Players : Suspects(manager'[q]) \subseteq Silent
  BY <1>2 DEF PaceInv
<1>6. QED
  BY <1>3, <1>4, <1>5 DEF PaceInv, CommandsInv, Others, Silent, Suspects

\* A step that disconnects a silent player and sends messages.
LEMMA DisconnectStep ==
  ASSUME PaceInv, NEW p \in Players, NEW q \in Silent, q # p,
         DisconnectPlayer(p, q),
         NEW sent, \A m \in sent : m \in Message /\ MessageIsTrue(m),
         network' \subseteq network \cup sent,
         UNCHANGED <<status, frame, complete, manager>>
  PROVE  PaceInv'
<1>1. TypeOK /\ q \in Players
  BY DEF PaceInv, Silent
<1>2. /\ connected' \in [Players -> SUBSET Players]
      /\ \A r \in Players : connected'[r] = IF r = p THEN connected[r] \ {q}
                                            ELSE connected[r]
      /\ disconnectedOn' \in [Players -> [Players -> Nat]]
  <2>1. connected' = [connected EXCEPT ![p] = @ \ {q}]
    BY DEF DisconnectPlayer
  <2>2. PICK f : f = IF q \in connected[p] THEN frame[p] ELSE disconnectedOn[p][q]
    OBVIOUS
  <2>3. f \in Nat /\ disconnectedOn' = [disconnectedOn EXCEPT ![p][q] = f]
    <3>1. disconnectedOn' = [disconnectedOn EXCEPT ![p][q] =
                               IF q \in connected[p] THEN frame[p] ELSE @]
      BY DEF DisconnectPlayer
    <3>2. QED
      BY <1>1, <2>2, <3>1, TypeFacts
  <2>4. connected' \in [Players -> SUBSET Players]
    BY <1>1, <2>1, TypeFacts
  <2>5. disconnectedOn' \in [Players -> [Players -> Nat]]
    BY <1>1, <2>3, TypeFacts
  <2>6. QED
    BY <1>1, <2>1, <2>4, <2>5, TypeFacts
<1>3. TypeOK'
  <2>1. network' \subseteq Message
    BY <1>1, TypeFacts
  <2>2. QED
    BY <1>1, <1>2, <2>1 DEF TypeOK
<1>4. \A m \in network' : MessageIsTrue(m)'
  BY DEF PaceInv, MessageIsTrue, Silent
<1>5. CommandsInv'
  BY <1>2 DEF PaceInv, CommandsInv, Others
<1>6. \A r \in Players : r \in connected'[r] /\ frame'[r] >= FirstFrame
  BY <1>2 DEF PaceInv
<1>7. QED
  BY <1>3, <1>4, <1>5, <1>6 DEF PaceInv, Silent, Suspects

\* Commands that arrive were announced.
LEMMA PaceAfterCommands ==
  ASSUME PaceInv, NEW p \in Players, NEW q \in Players, NEW f \in Nat,
         complete[p][q] <= f, f <= frame[q] + RunAhead,
         complete' = [complete EXCEPT ![p][q] = f],
         network' \subseteq network,
         UNCHANGED <<status, frame, connected, manager, disconnectedOn>>
  PROVE  PaceInv'
<1>1. TypeOK
  BY DEF PaceInv
<1>2. /\ complete' \in [Players -> [Players -> Nat]]
      /\ \A r, s \in Players :
           complete'[r][s] = IF r = p /\ s = q THEN f ELSE complete[r][s]
  BY <1>1, TypeFacts
<1>3. TypeOK'
  BY <1>1, <1>2, TypeFacts DEF TypeOK
<1>4. CommandsInv'
  <2>1. ASSUME NEW r \in Players, NEW s \in Players
        PROVE  /\ complete'[r][s] <= frame[s] + RunAhead
               /\ s \in Others(r) => frame[r] <= complete'[r][s]
    <3>1. /\ complete[r][s] \in Nat /\ frame[r] \in Nat /\ frame[s] \in Nat
          /\ RunAhead \in Nat /\ complete[r][s] <= frame[s] + RunAhead
          /\ s \in Others(r) => frame[r] <= complete[r][s]
      BY <1>1, TypeFacts DEF PaceInv, CommandsInv
    <3>2. QED
      BY <1>2, <3>1
  <2>2. QED
    BY <2>1 DEF CommandsInv, Others
<1>5. QED
  BY <1>3, <1>4 DEF PaceInv, MessageIsTrue, Silent, Suspects

\* A frame is executed with commands for it, and forgets the timeouts.
LEMMA PaceAfterRunning ==
  ASSUME PaceInv, NEW p \in Players, RunFrame(p)
  PROVE  PaceInv'
<1>1. TypeOK
  BY DEF PaceInv
<1> DEFINE m == manager[p]
           off == IF m.screenOn THEN DisconnectScreenOff(m, p, frame[p]) ELSE m
           sent == IF m.screenOn
                   THEN Send("SCREENOFF", p, Others(p), frame[p], p) ELSE {}
<1>2. /\ HasCommands(p)
      /\ frame' = [frame EXCEPT ![p] = @ + 1]
      /\ manager' = [manager EXCEPT ![p] = NextFrame([off EXCEPT !.screenOn = FALSE])]
      /\ network' = network \cup sent
      /\ UNCHANGED <<status, complete, connected, disconnectedOn>>
  BY DEF RunFrame
<1>3. m \in Managers /\ frame[p] \in Nat
  BY <1>1, TypeFacts
<1>4. Forgets(off, m)
  <2>1. Forgets(m, m)
    BY <1>3, ManagerFields DEF Forgets
  <2>2. QED
    BY <1>3, <2>1, DisconnectScreenOffForgets
<1>5. \A n \in sent : n \in Message /\ n.type = "SCREENOFF"
  <2>1. Others(p) \in SUBSET Players
    BY <1>1, TypeFacts
  <2>2. QED
    BY <1>3, <2>1, SentMessages
<1> HIDE DEF off, sent
<1>6. PICK new : new = NextFrame([off EXCEPT !.screenOn = FALSE])
  OBVIOUS
<1>7. new \in Managers /\ new.timedOut = {} /\ new.votes = off.votes
  BY <1>4, <1>6 DEF Forgets, NextFrame, Managers
<1>8. Suspects(new) \subseteq Silent
  <2>1. Suspects(off) \subseteq Silent
    BY <1>3, <1>4, ForgetsSuspects DEF PaceInv
  <2>2. QED
    BY <1>7, <2>1 DEF Suspects
<1>9. /\ frame' \in [Players -> Nat]
      /\ \A q \in Players : frame'[q] = IF q = p THEN frame[q] + 1 ELSE frame[q]
  BY <1>1, <1>2, TypeFacts
<1>10. /\ manager' \in [Players -> Managers]
       /\ \A q \in Players : manager'[q] = IF q = p THEN new ELSE manager[q]
  BY <1>1, <1>2, <1>6, <1>7, TypeFacts
<1>11. TypeOK'
  <2>1. network' \subseteq Message
    BY <1>1, <1>2, <1>5, TypeFacts
  <2>2. QED
    BY <1>1, <1>2, <1>7, <1>9, <1>10, <2>1 DEF TypeOK
<1>12. CommandsInv'
  <2>1. ASSUME NEW r \in Players, NEW s \in Players
        PROVE  /\ complete[r][s] <= frame'[s] + RunAhead
               /\ s \in Others(r) => frame'[r] <= complete[r][s]
    <3>1. /\ complete[r][s] \in Nat /\ frame[r] \in Nat /\ frame[s] \in Nat
          /\ RunAhead \in Nat /\ complete[r][s] <= frame[s] + RunAhead
          /\ s \in Others(r) => frame[r] <= complete[r][s]
      BY <1>1, TypeFacts DEF PaceInv, CommandsInv
    <3>2. r = p /\ s \in Others(r) => frame[r] < complete[r][s]
      BY <1>2 DEF HasCommands
    <3>3. QED
      BY <1>9, <3>1, <3>2
  <2>2. QED
    BY <1>2, <2>1 DEF CommandsInv, Others
<1>13. \A q \in Players : frame[q] <= frame'[q] /\ frame'[q] >= FirstFrame
  BY <1>1, <1>9, TypeFacts, FramesAssumption DEF PaceInv
<1>14. \A n \in network' : MessageIsTrue(n)'
  <2>1. Silent' = Silent
    BY <1>2 DEF Silent
  <2>2. ASSUME NEW n \in network
        PROVE  MessageIsTrue(n)'
    BY <1>1, <1>9, <1>13, <2>1, TypeFacts, StaysTrue DEF PaceInv
  <2>3. \A n \in sent : MessageIsTrue(n)'
    BY <1>5 DEF MessageIsTrue
  <2>4. QED
    BY <1>2, <2>2, <2>3
<1>15. \A q \in Players : Suspects(manager'[q]) \subseteq Silent
  BY <1>8, <1>10 DEF PaceInv
<1>16. QED
  BY <1>2, <1>11, <1>12, <1>13, <1>14, <1>15 DEF PaceInv, Silent, Suspects

\* A computer that stops, or of which nothing arrives any more.
LEMMA PaceAfterStopping ==
  ASSUME PaceInv, NEW p \in Players, Stop(p) \/ FallSilent(p)
  PROVE  PaceInv'
<1>1. TypeOK
  BY DEF PaceInv
<1>2. \E s \in {"down", "silent"} : status' = [status EXCEPT ![p] = s]
  BY DEF Stop, FallSilent
<1>3. status' \in [Players -> {"up", "down", "silent"}] /\ Silent \subseteq Silent'
  <2>1. CASE Stop(p)
    BY <1>1, <2>1, TypeFacts DEF Stop, Silent
  <2>2. CASE FallSilent(p)
    BY <1>1, <2>2, TypeFacts DEF FallSilent, Silent
  <2>3. QED
    BY <2>1, <2>2
<1>4. /\ network' \subseteq network
      /\ UNCHANGED <<frame, complete, connected, manager, disconnectedOn>>
  BY DEF Stop, FallSilent
<1>5. TypeOK'
  BY <1>1, <1>3, <1>4 DEF TypeOK
<1>6. \A m \in network' : MessageIsTrue(m)'
  <2>1. frame' \in [Players -> Nat] /\ \A q \in Players : frame[q] <= frame'[q]
    BY <1>1, <1>4, TypeFacts
  <2>2. QED
    BY <1>1, <1>3, <1>4, <2>1, TypeFacts, StaysTrue DEF PaceInv
<1>7. QED
  BY <1>3, <1>4, <1>5, <1>6 DEF PaceInv, CommandsInv, Others, Suspects

\* The screen goes on, with nobody timed out.
LEMMA PaceAfterTurningOn ==
  ASSUME PaceInv, NEW p \in Players, TurnOnScreen(p)
  PROVE  PaceInv'
<1> PICK new : new = [manager[p] EXCEPT !.screenOn = TRUE, !.notified = FALSE,
                                        !.timedOut = {}]
  OBVIOUS
<1>1. manager[p] \in Managers /\ Suspects(manager[p]) \subseteq Silent
  BY TypeFacts DEF PaceInv
<1>2. new \in Managers /\ new.timedOut = {} /\ new.votes = manager[p].votes
  BY <1>1 DEF Managers
<1>3. Suspects(new) \subseteq Silent
  BY <1>1, <1>2 DEF Suspects
<1>4. /\ manager' = [manager EXCEPT ![p] = new] /\ network' \subseteq network \cup {}
      /\ UNCHANGED <<status, frame, complete, connected, disconnectedOn>>
  BY DEF TurnOnScreen
<1>5. QED
  BY <1>2, <1>3, <1>4, ManagerStep

\* The others are told the frame, and those behind get commands.
LEMMA PaceAfterNotifying ==
  ASSUME PaceInv, NEW p \in Players, NotifyOthersOfCurrentFrame(p)
  PROVE  PaceInv'
<1>1. PICK told : told = [DisconnectFrame(manager[p], p, frame[p]) EXCEPT !.notified = TRUE]
  OBVIOUS
<1> PICK frameMessages : frameMessages = Send("FRAME", p, Others(p), frame[p], p)
  OBVIOUS
<1> PICK sent : sent = frameMessages \cup CatchUp(p, told, p)
  OBVIOUS
<1>2. /\ TypeOK /\ manager[p] \in Managers /\ frame[p] \in Nat
      /\ Suspects(manager[p]) \subseteq Silent
      /\ manager[p].timedOut # {} => manager[p].screenOn
      /\ Others(p) \in SUBSET Players
  BY TypeFacts DEF PaceInv
<1>3. Forgets(DisconnectFrame(manager[p], p, frame[p]), manager[p])
  BY <1>2, DisconnectFrameForgets
<1>4. PICK noted : noted = DisconnectFrame(manager[p], p, frame[p])
  OBVIOUS
<1>5. /\ told \in Managers /\ told.timedOut = noted.timedOut
      /\ told.screenOn = noted.screenOn /\ told.votes = noted.votes
  BY <1>1, <1>3, <1>4 DEF Forgets, Managers
<1>6. Suspects(noted) \subseteq Silent /\ noted.timedOut = manager[p].timedOut
        /\ noted.screenOn = manager[p].screenOn
  BY <1>2, <1>3, <1>4, ForgetsSuspects DEF Forgets
<1>7. Suspects(told) \subseteq Silent /\ (told.timedOut # {} => told.screenOn)
  BY <1>2, <1>5, <1>6 DEF Suspects
<1>8. \A m \in sent : m \in Message /\ MessageIsTrue(m)
  <2>1. \A m \in frameMessages : m \in Message /\ MessageIsTrue(m)
    BY <1>2, SentMessages DEF MessageIsTrue
  <2>2. QED
    BY <2>1, CatchUpIsTrue
<1>9. /\ manager' = [manager EXCEPT ![p] = told] /\ network' \subseteq network \cup sent
      /\ UNCHANGED <<status, frame, complete, connected, disconnectedOn>>
  BY <1>1 DEF NotifyOthersOfCurrentFrame
<1>10. QED
  BY <1>5, <1>7, <1>8, <1>9, ManagerStep

\* Only who is silent is timed out.
LEMMA PaceAfterTimeout ==
  ASSUME PaceInv, NEW p \in Players, NEW q \in Players, TimeOut(p, q)
  PROVE  PaceInv'
<1> PICK new : new = [manager[p] EXCEPT !.timedOut = @ \cup {q}]
  OBVIOUS
<1>1. manager[p] \in Managers /\ Suspects(manager[p]) \subseteq Silent /\ q \in Silent
      /\ manager[p].screenOn
  BY TypeFacts DEF PaceInv, TimeOut, Silent
<1>2. /\ new \in Managers /\ new.timedOut = manager[p].timedOut \cup {q}
      /\ new.votes = manager[p].votes /\ new.screenOn
  BY <1>1 DEF Managers
<1>3. Suspects(new) \subseteq Silent
  BY <1>1, <1>2 DEF Suspects
<1>4. /\ manager' = [manager EXCEPT ![p] = new] /\ network' \subseteq network \cup {}
      /\ UNCHANGED <<status, frame, complete, connected, disconnectedOn>>
  <2>1. manager' = [manager EXCEPT ![p].timedOut = @ \cup {q}]
    BY DEF TimeOut
  <2>2. manager \in [Players -> Managers]
    BY TypeFacts DEF PaceInv
  <2>3. QED
    BY <2>1, <2>2 DEF TimeOut
<1>5. PICK none : none = {}
  OBVIOUS
<1>6. new \in Managers /\ (new.timedOut # {} => new.screenOn)
  BY <1>2
<1>7. /\ network' \subseteq network \cup none
      /\ \A m \in none : m \in Message /\ MessageIsTrue(m)
  BY <1>4, <1>5
<1>8. QED
  BY <1>3, <1>4, <1>6, <1>7, ManagerStep

\* Only against who is silent votes are given.
LEMMA PaceAfterVoting ==
  ASSUME PaceInv, NEW p \in Players, NEW q \in Players, VoteForPlayerDisconnect(p, q)
  PROVE  PaceInv'
<1> PICK new : new = ApplyDisconnectVote(manager[p], q, p, frame[p])
  OBVIOUS
<1> PICK sent : sent = Send("VOTE", p, Others(p), frame[p], q)
  OBVIOUS
<1>1. /\ TypeOK /\ manager[p] \in Managers /\ Suspects(manager[p]) \subseteq Silent
      /\ frame[p] \in Nat /\ Others(p) \in SUBSET Players
      /\ manager[p].timedOut # {} => manager[p].screenOn
  BY TypeFacts DEF PaceInv
<1>2. q \in Silent
  BY DEF VoteForPlayerDisconnect, Silent
<1>3. /\ new \in Managers /\ new.timedOut = manager[p].timedOut
      /\ new.screenOn = manager[p].screenOn
      /\ Suspects(new) \subseteq Suspects(manager[p]) \cup {q}
  <2>1. /\ manager[p] \in Managers /\ frame[p] \in Nat
        /\ new = ApplyDisconnectVote(manager[p], q, p, frame[p])
    BY <1>1
  <2>2. QED
    BY <2>1, VoteSuspects
<1>4. \A m \in sent : m \in Message /\ MessageIsTrue(m)
  <2>1. \A m \in sent : m \in Message /\ m.type = "VOTE" /\ m.about = q
    <3>1. \A m \in Send("VOTE", p, Others(p), frame[p], q) :
            m \in Message /\ m.type = "VOTE" /\ m.about = q
      BY <1>1, SentMessages
    <3>2. QED
      BY <3>1
  <2>2. QED
    BY <1>2, <2>1 DEF MessageIsTrue
<1>5. /\ manager' = [manager EXCEPT ![p] = new] /\ network' \subseteq network \cup sent
      /\ UNCHANGED <<status, frame, complete, connected, disconnectedOn>>
  BY DEF VoteForPlayerDisconnect
<1>6. new.timedOut # {} => new.screenOn
  BY <1>1, <1>3
<1>7. Suspects(new) \subseteq Silent
  BY <1>1, <1>2, <1>3
<1>8. QED
  BY <1>3, <1>4, <1>5, <1>6, <1>7, ManagerStep

\* Who is disconnected was timed out or voted out, and so is silent.
LEMMA DisconnectedIsSilent ==
  ASSUME PaceInv, NEW p \in Players, NEW q \in Players, UpdateDisconnectStatus(p, q)
  PROVE  q \in Silent /\ q # p
<1>1. /\ q \in Others(p) /\ q # p
      /\ q \in manager[p].timedOut \/ IsPlayerVotedOut(p, q)
  BY DEF UpdateDisconnectStatus, Others
<1>2. frame[p] > 0 /\ p \in connected[p] /\ TypeOK
  BY TypeFacts, FramesAssumption DEF PaceInv
<1>3. q \in Suspects(manager[p])
  BY <1>1, <1>2, VotedOutIsSuspect DEF Suspects
<1>4. QED
  BY <1>1, <1>3 DEF PaceInv

\* The next packet router has a player disconnected.
LEMMA PaceAfterUpdating ==
  ASSUME PaceInv, NEW p \in Players, NEW q \in Players, UpdateDisconnectStatus(p, q)
  PROVE  PaceInv'
<1> PICK f : f = Max({manager[p].frames[r] : r \in Players})
  OBVIOUS
<1> PICK sent : sent = Send("PLAYER", p, Others(p), f, q)
  OBVIOUS
<1>1. q \in Silent /\ q # p
  BY DisconnectedIsSilent
<1>2. f \in Nat /\ Others(p) \in SUBSET Players /\ TypeOK
  <2>1. manager[p].frames \in [Players -> Nat] /\ Others(p) \in SUBSET Players /\ TypeOK
    BY TypeFacts, ManagerFields DEF PaceInv
  <2>2. QED
    BY <2>1, LargestFrame
<1>3. \A m \in sent : m \in Message /\ MessageIsTrue(m)
  <2>1. \A m \in sent : m \in Message /\ m.type = "PLAYER" /\ m.about = q
    BY <1>2, SentMessages
  <2>2. QED
    BY <1>1, <2>1 DEF MessageIsTrue
<1>4. /\ DisconnectPlayer(p, q) /\ network' \subseteq network \cup sent
      /\ UNCHANGED <<status, frame, complete, manager>>
  BY DEF UpdateDisconnectStatus
<1>5. QED
  BY <1>1, <1>3, <1>4, DisconnectStep

\* Whatever message arrives, the first or the second time.
LEMMA PaceAfterProcessing ==
  ASSUME PaceInv, NEW p \in Players, NEW m \in network,
         NEW remaining \in SUBSET network, Process(p, m, remaining),
         UNCHANGED <<status, frame>>
  PROVE  PaceInv'
<1>1. /\ TypeOK /\ m \in Message /\ MessageIsTrue(m)
      /\ manager \in [Players -> Managers] /\ manager[p] \in Managers
      /\ Suspects(manager[p]) \subseteq Silent
      /\ manager[p].timedOut # {} => manager[p].screenOn
      /\ m.from \in Players /\ m.about \in Players /\ m.frame \in Nat
  BY TypeFacts DEF PaceInv
<1> DEFINE old == manager[p]
           new == CASE m.type = "FRAME" -> DisconnectFrame(old, m.from, m.frame)
                    [] m.type = "SCREENOFF" -> DisconnectScreenOff(old, m.from, m.frame)
                    [] m.type = "VOTE" /\ IsPlayerInGame(p, m.from) ->
                         ApplyDisconnectVote(old, m.about, m.from, m.frame)
                    [] OTHER -> old
           sent == IF m.type = "FRAME" /\ new # old THEN CatchUp(p, new, m.from) ELSE {}
<1>2. /\ new \in Managers /\ new.timedOut = old.timedOut
      /\ new.screenOn = old.screenOn /\ Suspects(new) \subseteq Silent
      /\ m.type \in {"COMMANDS", "PLAYER"} => new = old
  <2>1. ASSUME NEW n, Forgets(n, old)
        PROVE  /\ n \in Managers /\ n.timedOut = old.timedOut
               /\ n.screenOn = old.screenOn /\ Suspects(n) \subseteq Silent
    BY <1>1, <2>1, ForgetsSuspects DEF Forgets
  <2>2. CASE m.type = "FRAME"
    <3>1. new = DisconnectFrame(old, m.from, m.frame)
      BY <2>2
    <3>2. QED
      BY <1>1, <2>1, <2>2, <3>1, DisconnectFrameForgets
  <2>3. CASE m.type = "SCREENOFF"
    <3>1. new = DisconnectScreenOff(old, m.from, m.frame)
      BY <2>3
    <3>2. QED
      BY <1>1, <2>1, <2>3, <3>1, DisconnectScreenOffForgets
  <2>4. CASE m.type = "VOTE" /\ IsPlayerInGame(p, m.from)
    <3>1. ASSUME NEW a \in Silent, NEW r \in Players, NEW f \in Nat
          PROVE  LET n == ApplyDisconnectVote(old, a, r, f)
                 IN  /\ n \in Managers /\ n.timedOut = old.timedOut
                     /\ n.screenOn = old.screenOn /\ Suspects(n) \subseteq Silent
      <4>1. PICK n : n = ApplyDisconnectVote(old, a, r, f)
        OBVIOUS
      <4>2. /\ n \in Managers /\ n.timedOut = old.timedOut
            /\ n.screenOn = old.screenOn /\ Suspects(n) \subseteq Suspects(old) \cup {a}
        <5>1. manager[p] \in Managers /\ a \in Players
          BY <1>1 DEF Silent
        <5>2. QED
          BY <4>1, <5>1, VoteSuspects
      <4>3. QED
        BY <1>1, <4>1, <4>2
    <3>2. m.about \in Silent
      BY <1>1, <2>4 DEF MessageIsTrue
    <3>3. new = ApplyDisconnectVote(old, m.about, m.from, m.frame)
      BY <2>4
    <3>4. QED
      BY <1>1, <2>4, <3>1, <3>2, <3>3
  <2>5. CASE /\ m.type \notin {"FRAME", "SCREENOFF"}
             /\ ~(m.type = "VOTE" /\ IsPlayerInGame(p, m.from))
    <3>1. new = old
      BY <2>5
    <3>2. QED
      BY <1>1, <3>1
  <2>6. QED
    BY <2>2, <2>3, <2>4, <2>5
<1>3. \A n \in sent : n \in Message /\ MessageIsTrue(n)
  <2> HIDE DEF new
  <2>1. QED
    BY CatchUpIsTrue
<1>4. CASE ~Accepts(p, m)
  <2>1. /\ network' = remaining
        /\ UNCHANGED <<manager, complete, connected, disconnectedOn>>
    BY <1>4 DEF Process
  <2>2. manager' = [manager EXCEPT ![p] = manager[p]]
    BY <1>1, <2>1
  <2>3. PICK none : none = {}
    OBVIOUS
  <2>4. /\ network' \subseteq network \cup none
        /\ \A n \in none : n \in Message /\ MessageIsTrue(n)
    BY <2>1, <2>3
  <2>5. QED
    BY <1>1, <2>1, <2>2, <2>4, ManagerStep
<1>5. CASE Accepts(p, m)
  <2>1. /\ manager' = [manager EXCEPT ![p] = new]
        /\ network' = remaining \cup sent
        /\ complete' = IF m.type = "COMMANDS"
                       THEN [complete EXCEPT ![p][m.about] = Max({@, m.frame})]
                       ELSE complete
        /\ IF m.type = "PLAYER" /\ m.about # p
           THEN DisconnectPlayer(p, m.about)
           ELSE UNCHANGED <<connected, disconnectedOn>>
    BY <1>5 DEF Process
  <2> HIDE DEF new, sent
  <2>2. CASE m.type = "COMMANDS"
    <3>1. sent = {} /\ manager' = manager /\ UNCHANGED <<connected, disconnectedOn>>
      BY <1>1, <1>2, <2>1, <2>2 DEF sent
    <3>2. complete \in [Players -> [Players -> Nat]]
      BY <1>1, TypeFacts
    <3>3. PICK f : f = Max({complete[p][m.about], m.frame})
      OBVIOUS
    <3>4. f \in {complete[p][m.about], m.frame} /\ f >= complete[p][m.about]
      <4>1. complete[p][m.about] \in Nat /\ m.frame \in Nat
        BY <1>1, <3>2
      <4>2. QED
        BY <3>3, <4>1, LargerOfTwo
    <3>5. f \in Nat /\ complete[p][m.about] <= f
      BY <1>1, <3>2, <3>4
    <3>6. f <= frame[m.about] + RunAhead
      BY <1>1, <2>2, <3>4 DEF PaceInv, CommandsInv, MessageIsTrue
    <3>7. complete' = [complete EXCEPT ![p][m.about] = f]
      BY <2>1, <2>2, <3>2, <3>3
    <3>8. QED
      BY <1>1, <2>1, <3>1, <3>5, <3>6, <3>7, PaceAfterCommands
  <2>3. CASE m.type = "PLAYER" /\ m.about # p
    <3>1. sent = {} /\ manager' = manager /\ complete' = complete
      BY <1>1, <1>2, <2>1, <2>3 DEF sent
    <3>2. m.about \in Silent
      BY <1>1, <2>3 DEF MessageIsTrue
    <3>3. DisconnectPlayer(p, m.about)
      BY <2>1, <2>3
    <3>4. network' \subseteq network \cup {}
      BY <2>1, <3>1
    <3>5. QED
      BY <2>3, <3>1, <3>2, <3>3, <3>4, DisconnectStep
  <2>4. CASE m.type # "COMMANDS" /\ ~(m.type = "PLAYER" /\ m.about # p)
    <3>1. UNCHANGED <<complete, connected, disconnectedOn>>
      BY <2>1, <2>4
    <3>2. new.timedOut # {} => new.screenOn
      BY <1>1, <1>2
    <3>3. network' \subseteq network \cup sent
      BY <2>1
    <3>4. QED
      BY <1>2, <1>3, <2>1, <3>1, <3>2, <3>3, ManagerStep
  <2>5. QED
    BY <2>2, <2>3, <2>4
<1>6. QED
  BY <1>4, <1>5

\* PaceInv holds at first and after every step.
LEMMA PaceInvariant ==
  Spec => []PaceInv
<1>1. Init => PaceInv
  <2> SUFFICES ASSUME Init PROVE PaceInv
    OBVIOUS
  <2>1. FirstFrame \in Nat /\ RunAhead \in Nat /\ Stopped \subseteq Players
    BY FramesAssumption, FaultsAssumption
  <2>2. ASSUME NEW p \in Players
        PROVE  /\ manager[p] \in Managers /\ manager[p].timedOut = {}
               /\ Suspects(manager[p]) = {}
    BY DEF Init, Managers, Suspects
  <2>3. TypeOK
    BY <2>1, <2>2 DEF Init, TypeOK
  <2>4. CommandsInv
    BY <2>1 DEF Init, CommandsInv, Others
  <2>5. \A p \in Players : p \in connected[p] /\ frame[p] >= FirstFrame
    BY <2>1 DEF Init
  <2>6. \A m \in network : MessageIsTrue(m)
    BY DEF Init
  <2>7. QED
    BY <2>2, <2>3, <2>4, <2>5, <2>6 DEF PaceInv
<1>2. PaceInv /\ [Next]_vars => PaceInv'
  <2> SUFFICES ASSUME PaceInv, [Next]_vars PROVE PaceInv'
    OBVIOUS
  <2>1. ASSUME NEW p \in Players, RunFrame(p)
        PROVE  PaceInv'
    BY <2>1, PaceAfterRunning
  <2>2. ASSUME NEW p \in Players, Stop(p) \/ FallSilent(p)
        PROVE  PaceInv'
    BY <2>2, PaceAfterStopping
  <2>3. ASSUME NEW p \in Players, TurnOnScreen(p)
        PROVE  PaceInv'
    BY <2>3, PaceAfterTurningOn
  <2>4. ASSUME NEW p \in Players, NotifyOthersOfCurrentFrame(p)
        PROVE  PaceInv'
    BY <2>4, PaceAfterNotifying
  <2>5. ASSUME NEW p \in Players, Receive(p) \/ ReceiveUnacknowledged(p)
        PROVE  PaceInv'
    <3>1. UNCHANGED <<status, frame>>
      BY <2>5 DEF Receive, ReceiveUnacknowledged
    <3>2. \E m \in network : Process(p, m, network \ {m}) \/ Process(p, m, network)
      BY <2>5 DEF Receive, ReceiveUnacknowledged
    <3>3. \E m \in network : \E remaining \in SUBSET network : Process(p, m, remaining)
      BY <3>2
    <3>4. QED
      BY <3>1, <3>3, PaceAfterProcessing
  <2>6. ASSUME NEW p \in Players, NEW q \in Players, CommandsArrive(p, q)
        PROVE  PaceInv'
    <3>1. /\ complete \in [Players -> [Players -> Nat]] /\ frame[q] \in Nat
          /\ RunAhead \in Nat
      BY TypeFacts DEF PaceInv
    <3>2. PICK f \in Nat : f = complete[p][q] + 1
      BY <3>1
    <3>3. /\ complete' = [complete EXCEPT ![p][q] = f]
          /\ complete[p][q] < frame[q] + RunAhead
          /\ UNCHANGED <<status, frame, connected, manager, network, disconnectedOn>>
      BY <2>6, <3>1, <3>2 DEF CommandsArrive, OnItsWay, Announced
    <3>4. complete[p][q] <= f /\ f <= frame[q] + RunAhead
      BY <3>1, <3>2, <3>3
    <3>5. network' \subseteq network
      BY <3>3
    <3>6. QED
      BY <3>3, <3>4, <3>5, PaceAfterCommands
  <2>7. ASSUME NEW p \in Players, NEW q \in Players, TimeOut(p, q)
        PROVE  PaceInv'
    BY <2>7, PaceAfterTimeout
  <2>8. ASSUME NEW p \in Players, NEW q \in Players, VoteForPlayerDisconnect(p, q)
        PROVE  PaceInv'
    BY <2>8, PaceAfterVoting
  <2>9. ASSUME NEW p \in Players, NEW q \in Players, UpdateDisconnectStatus(p, q)
        PROVE  PaceInv'
    BY <2>9, PaceAfterUpdating
  <2>10. CASE UNCHANGED vars
    BY <2>10 DEF vars, PaceInv, TypeOK, CommandsInv, Others, MessageIsTrue, Silent,
                 Suspects
  <2>11. QED
    BY <2>1, <2>2, <2>3, <2>4, <2>5, <2>6, <2>7, <2>8, <2>9, <2>10 DEF Next
<1>3. QED
  BY <1>1, <1>2, PTL DEF Spec

\* Every manager's table, message and frame is of its type, and nobody is timed
\* out while the screen is off.
THEOREM TypeCorrect ==
  Spec => []TypeOK
<1>1. PaceInv => TypeOK
  BY DEF PaceInv
<1>2. QED
  BY <1>1, PaceInvariant, PTL

-------------------------------------------------------------------------------
(* Disconnect implements Pace.                                               *)

\* Each step is one of Pace or changes nothing in it.
LEMMA PaceStep ==
  ASSUME PaceInv, [Next]_vars
  PROVE  Steps!Next \/ UNCHANGED <<frame, connected, Silent>>
<1>1. TypeOK
  BY DEF PaceInv
<1>2. ASSUME NEW p \in Players, RunFrame(p)
      PROVE  Steps!Advance(p)
  <2>1. status[p] = "up" /\ HasCommands(p)
        /\ frame' = [frame EXCEPT ![p] = @ + 1] /\ UNCHANGED <<status, connected>>
    BY <1>2 DEF RunFrame
  <2>2. ASSUME NEW q \in connected[p] \ {p}
        PROVE  frame[p] < frame[q] + RunAhead
    <3>1. q \in Players /\ q \in Others(p)
      BY <1>1, TypeFacts DEF Others
    <3>2. frame[p] < complete[p][q] /\ complete[p][q] <= frame[q] + RunAhead
      BY <2>1, <3>1 DEF HasCommands, PaceInv, CommandsInv
    <3>3. /\ frame[p] \in Nat /\ frame[q] \in Nat /\ RunAhead \in Nat
          /\ complete[p][q] \in Nat
      BY <1>1, <3>1, TypeFacts
    <3>4. QED
      BY <3>2, <3>3
  <2>3. QED
    BY <2>1, <2>2 DEF Steps!Advance
<1>3. ASSUME NEW p \in Players, FallSilent(p)
      PROVE  Steps!FallSilent(p)
  <2>1. status' = [status EXCEPT ![p] = "silent"] /\ UNCHANGED <<frame, connected>>
    BY <1>3 DEF FallSilent
  <2>2. Silent' = Silent \cup {p}
    BY <1>1, <2>1, TypeFacts DEF Silent
  <2>3. QED
    BY <2>1, <2>2 DEF Steps!FallSilent, Silent
<1>4. ASSUME NEW p \in Players, Stop(p)
      PROVE  UNCHANGED <<frame, connected, Silent>>
  <2>1. /\ status' = [status EXCEPT ![p] = "down"] /\ status[p] = "up"
        /\ UNCHANGED <<frame, connected>>
    BY <1>4 DEF Stop
  <2>2. Silent' = Silent
    BY <1>1, <2>1, TypeFacts DEF Silent
  <2>3. QED
    BY <2>1, <2>2
<1>5. ASSUME NEW p \in Players, NEW q \in Silent \ {p}, DisconnectPlayer(p, q),
             UNCHANGED <<status, frame>>
      PROVE  Steps!PlayWithout(p, q)
  BY <1>5 DEF DisconnectPlayer, Steps!PlayWithout, Silent
<1>6. ASSUME NEW p \in Players, NEW q \in Players, UpdateDisconnectStatus(p, q)
      PROVE  Steps!PlayWithout(p, q)
  <2>1. q \in Silent \ {p}
    BY <1>6, DisconnectedIsSilent
  <2>2. DisconnectPlayer(p, q) /\ UNCHANGED <<status, frame>>
    BY <1>6 DEF UpdateDisconnectStatus
  <2>3. QED
    BY <1>5, <2>1, <2>2
<1>7. ASSUME NEW p \in Players, Receive(p) \/ ReceiveUnacknowledged(p)
      PROVE  \/ \E q \in Players : Steps!PlayWithout(p, q)
             \/ UNCHANGED <<frame, connected, Silent>>
  <2>1. UNCHANGED <<status, frame>>
    BY <1>7 DEF Receive, ReceiveUnacknowledged
  <2>2. PICK m \in network : \E remaining : Process(p, m, remaining)
    BY <1>7 DEF Receive, ReceiveUnacknowledged
  <2>3. m.about \in Players /\ MessageIsTrue(m)
    BY <1>1, TypeFacts DEF PaceInv
  <2>4. \/ connected' = connected
        \/ m.type = "PLAYER" /\ m.about # p /\ DisconnectPlayer(p, m.about)
    BY <2>2 DEF Process
  <2>5. CASE connected' = connected
    BY <2>1, <2>5 DEF Silent
  <2>6. CASE m.type = "PLAYER" /\ m.about # p /\ DisconnectPlayer(p, m.about)
    <3>1. m.about \in Silent \ {p}
      BY <2>3, <2>6 DEF MessageIsTrue
    <3>2. Steps!PlayWithout(p, m.about)
      BY <1>5, <2>1, <2>6, <3>1
    <3>3. QED
      BY <2>3, <3>2
  <2>7. QED
    BY <2>4, <2>5, <2>6
<1>8. ASSUME NEW p \in Players, NEW q \in Players,
             \/ TurnOnScreen(p) \/ NotifyOthersOfCurrentFrame(p)
             \/ CommandsArrive(p, q) \/ TimeOut(p, q)
             \/ VoteForPlayerDisconnect(p, q) \/ UNCHANGED vars
      PROVE  UNCHANGED <<frame, connected, Silent>>
  <2>1. UNCHANGED <<status, frame, connected>>
    BY <1>8 DEF TurnOnScreen, NotifyOthersOfCurrentFrame, CommandsArrive, TimeOut,
                VoteForPlayerDisconnect, vars
  <2>2. QED
    BY <2>1 DEF Silent
<1>9. CASE UNCHANGED vars
  BY <1>9 DEF vars, Silent
<1>10. QED
  BY <1>2, <1>3, <1>4, <1>6, <1>7, <1>8, <1>9 DEF Next, Steps!Next

\* Who executes frames has the commands of all he plays with, whoever sent them
\* to him, and only silent players are disconnected, by whatever votes.
THEOREM PaceIsKept ==
  Spec => KeepsPace
<1>1. Init => Steps!Init
  <2> SUFFICES ASSUME Init PROVE Steps!Init
    OBVIOUS
  <2>1. {p \in Players : status[p] = "silent"} = {}
    BY DEF Init
  <2>2. QED
    BY <2>1 DEF Init, Steps!Init
<1>2. PaceInv /\ [Next]_vars =>
        [Steps!Next]_<<frame, connected, {p \in Players : status[p] = "silent"}>>
  BY PaceStep DEF Silent
<1>3. QED
  BY <1>1, <1>2, PaceInvariant, PTL DEF Spec, KeepsPace, Steps!Spec

\* Nobody gets more than the run-ahead beyond a player he is connected with.
THEOREM ComputersStayInStep ==
  Spec => []Steps!InStep
<1>1. PaceInv => Steps!InStep
  <2> SUFFICES ASSUME PaceInv, NEW p \in Players, NEW q \in connected[p]
               PROVE  frame[p] <= frame[q] + RunAhead
    BY DEF Steps!InStep
  <2>1. /\ q \in Players /\ frame[p] \in Nat /\ frame[q] \in Nat /\ RunAhead \in Nat
        /\ complete[p][q] \in Nat
    BY TypeFacts DEF PaceInv
  <2>2. CASE q = p
    BY <2>1, <2>2
  <2>3. CASE q # p
    <3>1. frame[p] <= complete[p][q] /\ complete[p][q] <= frame[q] + RunAhead
      BY <2>1, <2>3 DEF PaceInv, CommandsInv, Others
    <3>2. QED
      BY <2>1, <3>1
  <2>4. QED
    BY <2>2, <2>3
<1>2. QED
  BY <1>1, PaceInvariant, PTL

-------------------------------------------------------------------------------
(* How the variables change in a step.                                       *)

\* new differs from old in its votes and in what it says of player q.
OnlyAbout(new, old, q) ==
  /\ new.notified = old.notified
  /\ \A r \in Players \ {q} : /\ new.frames[r] = old.frames[r]
                              /\ r \in new.received <=> r \in old.received
                              /\ \A a \in Players : new.votes[a][r] = old.votes[a][r]

\* Only votes are forgotten.
LEMMA ResetKeeps ==
  ASSUME NEW m \in Managers, NEW q \in Players, NEW f, NEW r,
         r = ResetPlayersVotes(m, q, f)
  PROVE  /\ r.notified = m.notified /\ r.frames = m.frames /\ r.received = m.received
         /\ \A a, x \in Players :
              r.votes[a][x] = IF x = q /\ m.votes[a][x] <= f THEN 0 ELSE m.votes[a][x]
<1> DEFINE votes == [a \in Players |-> [m.votes[a] EXCEPT
                              ![q] = IF m.votes[a][q] <= f THEN 0 ELSE m.votes[a][q]]]
<1>1. r = [m EXCEPT !.votes = votes]
  BY Zenon DEF ResetPlayersVotes
<1>2. \A a, x \in Players :
        votes[a][x] = IF x = q /\ m.votes[a][x] <= f THEN 0 ELSE m.votes[a][x]
  BY ManagerFields
<1> HIDE DEF votes
<1>3. QED
  BY <1>1, <1>2 DEF Managers

\* A later frame of q is noted, an earlier one is not.
LEMMA FrameNoted ==
  ASSUME NEW m \in Managers, NEW q \in Players, NEW f \in Nat,
         NEW new, new = DisconnectFrame(m, q, f)
  PROVE  /\ Forgets(new, m) /\ OnlyAbout(new, m, q)
         /\ m.frames[q] >= f => new = m
         /\ m.frames[q] < f => new.frames[q] = f /\ q \in new.received
         /\ \A a \in Players : m.votes[a][q] >= f => new.votes[a][q] = m.votes[a][q]
<1>1. Forgets(new, m)
  BY DisconnectFrameForgets
<1>2. m.frames \in [Players -> Nat] /\ m.received \in SUBSET Players
  BY ManagerFields
<1>3. CASE m.frames[q] >= f
  BY <1>1, <1>2, <1>3 DEF DisconnectFrame, OnlyAbout
<1>4. CASE m.frames[q] < f
  <2>1. PICK r : r = ResetPlayersVotes(m, q, f - 1)
    OBVIOUS
  <2>2. /\ r.notified = m.notified /\ r.frames = m.frames /\ r.received = m.received
        /\ r \in Managers
    BY <2>1, ResetForgets, ResetKeeps DEF Forgets
  <2>3. new = [r EXCEPT !.frames[q] = f, !.received = @ \cup {q}]
    BY <1>2, <1>4, <2>1 DEF DisconnectFrame
  <2>4. /\ new.notified = r.notified /\ new.frames = [r.frames EXCEPT ![q] = f]
        /\ new.received = r.received \cup {q} /\ new.votes = r.votes
    BY <2>2, <2>3 DEF Managers
  <2>5. ASSUME NEW a \in Players, NEW x \in Players, x = q => m.votes[a][x] >= f
        PROVE  new.votes[a][x] = m.votes[a][x]
    <3>1. m.votes[a][x] \in Nat
      BY ManagerFields
    <3>2. QED
      BY <2>1, <2>4, <2>5, <3>1, ResetKeeps
  <2>6. QED
    BY <1>1, <1>2, <1>4, <2>2, <2>4, <2>5 DEF OnlyAbout
<1>5. QED
  BY <1>2, <1>3, <1>4

\* The same when q's screen is off: he waits on no frame any more.
LEMMA ScreenOffNoted ==
  ASSUME NEW m \in Managers, NEW q \in Players, NEW f \in Nat,
         NEW new, new = DisconnectScreenOff(m, q, f)
  PROVE  /\ Forgets(new, m) /\ OnlyAbout(new, m, q)
         /\ f < m.frames[q] => new = m
         /\ m.frames[q] <= f => new.frames[q] = f /\ q \notin new.received
<1>1. Forgets(new, m)
  BY DisconnectScreenOffForgets
<1>2. m.frames \in [Players -> Nat] /\ m.received \in SUBSET Players
  BY ManagerFields
<1>3. CASE f < m.frames[q]
  BY <1>1, <1>2, <1>3 DEF DisconnectScreenOff, OnlyAbout
<1>4. CASE m.frames[q] <= f
  <2>1. PICK r : r = ResetPlayersVotes(m, q, f)
    OBVIOUS
  <2>2. /\ r.notified = m.notified /\ r.frames = m.frames /\ r.received = m.received
        /\ r \in Managers
    BY <2>1, ResetForgets, ResetKeeps DEF Forgets
  <2>3. new = [r EXCEPT !.frames[q] = f, !.received = @ \ {q}]
    BY <1>2, <1>4, <2>1 DEF DisconnectScreenOff
  <2>4. /\ new.notified = r.notified /\ new.frames = [r.frames EXCEPT ![q] = f]
        /\ new.received = r.received \ {q} /\ new.votes = r.votes
    BY <2>2, <2>3 DEF Managers
  <2>5. ASSUME NEW a \in Players, NEW x \in Players \ {q}
        PROVE  new.votes[a][x] = m.votes[a][x]
    BY <2>1, <2>4, ResetKeeps
  <2>6. QED
    BY <1>1, <1>2, <1>4, <2>2, <2>4, <2>5 DEF OnlyAbout
<1>5. QED
  BY <1>2, <1>3, <1>4

(***************************************************************************)
(* What a step can do to p's manager: the frames it knows are p's own or   *)
(* come with a message of their player, the screen that is on was on or    *)
(* has just been turned on, votes are given or come with a message, and    *)
(* timeouts do not outlive a frame.                                        *)
(***************************************************************************)
KnownFramesChange(p) ==
  \A r \in Players :
    \/ /\ manager'[p].frames[r] = manager[p].frames[r]
       /\ r \in manager'[p].received <=> r \in manager[p].received
    \/ r = p /\ manager'[p].frames[r] = frame[p]
    \/ \E m \in network :
         /\ m.to = p /\ m.from = r /\ manager'[p].frames[r] = m.frame
         /\ \/ /\ m.type = "FRAME" /\ manager[p].frames[r] < m.frame
               /\ r \in manager'[p].received
            \/ /\ m.type = "SCREENOFF" /\ manager[p].frames[r] <= m.frame
               /\ r \notin manager'[p].received

ScreenChange(p) ==
  /\ manager'[p].screenOn =>
       /\ frame'[p] = frame[p]
       /\ manager[p].screenOn \/ (frame[p] < MaxFrame /\ ~manager'[p].notified)
  /\ manager'[p].screenOn /\ manager'[p].notified =>
       manager[p].notified \/ manager'[p].frames[p] >= frame[p]
  /\ manager[p].screenOn /\ frame'[p] = frame[p] => manager'[p].screenOn

VotesChange(p) ==
  \A a, r \in Players :
    \/ manager'[p].votes[a][r] \in {manager[p].votes[a][r], 0}
    \/ r = p /\ VoteForPlayerDisconnect(p, a) /\ manager'[p].votes[a][r] = frame[p]
    \/ \E m \in network :
         /\ m.type = "VOTE" /\ m.to = p /\ m.from = r /\ m.about = a
         /\ manager'[p].votes[a][r] = m.frame

TimeoutsChange(p) ==
  \A q \in manager'[p].timedOut :
    TimeOut(p, q) \/ (q \in manager[p].timedOut /\ frame'[p] = frame[p])

\* Nobody but p himself takes p's votes back.
OwnVotesStay(p) ==
  frame'[p] = frame[p] /\ (\A m \in network : m.from # m.to) =>
    \A a \in Players :
      manager[p].votes[a][p] = frame[p] => manager'[p].votes[a][p] = frame[p]

ManagerChange(p) ==
  /\ KnownFramesChange(p) /\ ScreenChange(p) /\ VotesChange(p) /\ TimeoutsChange(p)
  /\ OwnVotesStay(p)

\* A manager that does not change.
LEMMA SameManager ==
  ASSUME NEW p \in Players, manager'[p] = manager[p], frame'[p] = frame[p]
  PROVE  ManagerChange(p)
BY DEF ManagerChange, KnownFramesChange, ScreenChange, VotesChange, TimeoutsChange,
       OwnVotesStay

\* What becomes of p's manager, with votes and timeouts at most forgotten.
LEMMA ForgettingManager ==
  ASSUME PaceInv, NEW p \in Players, NEW new, Forgets(new, manager[p]),
         manager'[p] = new, frame'[p] = frame[p]
  PROVE  VotesChange(p) /\ TimeoutsChange(p) /\ manager'[p].screenOn = manager[p].screenOn
BY DEF Forgets, VotesChange, TimeoutsChange

\* A message arrives.
LEMMA ProcessingManager ==
  ASSUME PaceInv, NEW p \in Players, NEW m \in network, m.to = p,
         NEW remaining, Process(p, m, remaining), UNCHANGED frame
  PROVE  ManagerChange(p)
<1>1. /\ manager \in [Players -> Managers] /\ manager[p] \in Managers
      /\ m.from \in Players /\ m.about \in Players /\ m.frame \in Nat
      /\ manager[p].frames \in [Players -> Nat]
  BY TypeFacts, ManagerFields DEF PaceInv
<1> PICK old : old = manager[p]
  OBVIOUS
<1>2. CASE m.type = "FRAME" /\ Accepts(p, m)
  <2>1. PICK new : new = DisconnectFrame(old, m.from, m.frame)
    OBVIOUS
  <2>2. manager' = [manager EXCEPT ![p] = new]
    BY <1>2, <2>1 DEF Process
  <2>3. manager'[p] = new /\ frame'[p] = frame[p]
    BY <1>1, <2>2
  <2>4. /\ Forgets(new, old) /\ OnlyAbout(new, old, m.from)
        /\ old.frames[m.from] >= m.frame => new = old
        /\ old.frames[m.from] < m.frame =>
             new.frames[m.from] = m.frame /\ m.from \in new.received
    BY <1>1, <2>1, FrameNoted
  <2>5. KnownFramesChange(p)
    BY <1>1, <1>2, <2>3, <2>4 DEF KnownFramesChange, OnlyAbout
  <2>6. VotesChange(p) /\ TimeoutsChange(p) /\ new.screenOn = old.screenOn
    BY <2>3, <2>4, ForgettingManager
  <2>7. ScreenChange(p)
    BY <2>3, <2>4, <2>6 DEF ScreenChange, OnlyAbout
  <2>8. OwnVotesStay(p)
    BY <1>1, <2>3, <2>4 DEF OwnVotesStay, OnlyAbout
  <2>9. QED
    BY <2>5, <2>6, <2>7, <2>8 DEF ManagerChange
<1>3. CASE m.type = "SCREENOFF" /\ Accepts(p, m)
  <2>1. PICK new : new = DisconnectScreenOff(old, m.from, m.frame)
    OBVIOUS
  <2>2. manager' = [manager EXCEPT ![p] = new]
    BY <1>3, <2>1 DEF Process
  <2>3. manager'[p] = new /\ frame'[p] = frame[p]
    BY <1>1, <2>2
  <2>4. /\ Forgets(new, old) /\ OnlyAbout(new, old, m.from)
        /\ m.frame < old.frames[m.from] => new = old
        /\ old.frames[m.from] <= m.frame =>
             new.frames[m.from] = m.frame /\ m.from \notin new.received
    BY <1>1, <2>1, ScreenOffNoted
  <2>5. KnownFramesChange(p)
    BY <1>1, <1>3, <2>3, <2>4 DEF KnownFramesChange, OnlyAbout
  <2>6. VotesChange(p) /\ TimeoutsChange(p) /\ new.screenOn = old.screenOn
    BY <2>3, <2>4, ForgettingManager
  <2>7. ScreenChange(p)
    BY <2>3, <2>4, <2>6 DEF ScreenChange, OnlyAbout
  <2>8. OwnVotesStay(p)
    BY <1>1, <2>3, <2>4 DEF OwnVotesStay, OnlyAbout
  <2>9. QED
    BY <2>5, <2>6, <2>7, <2>8 DEF ManagerChange
<1>4. CASE m.type = "VOTE" /\ Accepts(p, m) /\ IsPlayerInGame(p, m.from)
  <2>1. PICK votes : votes = [old.votes EXCEPT ![m.about][m.from] = m.frame]
    OBVIOUS
  <2>2. manager' = [manager EXCEPT ![p] = ApplyDisconnectVote(old, m.about, m.from, m.frame)]
    BY <1>4 DEF Process
  <2>3. manager'[p] = [old EXCEPT !.votes = votes] /\ frame'[p] = frame[p]
    BY <1>1, <2>1, <2>2 DEF ApplyDisconnectVote
  <2>4. /\ manager'[p].votes = votes /\ manager'[p].timedOut = old.timedOut
        /\ manager'[p].frames = old.frames /\ manager'[p].received = old.received
        /\ manager'[p].screenOn = old.screenOn /\ manager'[p].notified = old.notified
    BY <1>1, <2>3 DEF Managers
  <2>5. \A a, r \in Players :
          votes[a][r] = IF a = m.about /\ r = m.from THEN m.frame ELSE old.votes[a][r]
    BY <1>1, <2>1, ManagerFields
  <2>6. VotesChange(p)
    BY <1>4, <2>4, <2>5 DEF VotesChange
  <2>7. OwnVotesStay(p)
    BY <2>4, <2>5 DEF OwnVotesStay
  <2>8. QED
    BY <2>3, <2>4, <2>6, <2>7
    DEF ManagerChange, KnownFramesChange, ScreenChange, TimeoutsChange
<1>5. CASE \/ ~Accepts(p, m) \/ m.type \notin {"FRAME", "SCREENOFF", "VOTE"}
           \/ m.type = "VOTE" /\ ~IsPlayerInGame(p, m.from)
  <2>1. manager'[p] = manager[p]
    <3>1. CASE ~Accepts(p, m)
      BY <3>1 DEF Process
    <3>2. CASE Accepts(p, m)
      <4>1. manager' = [manager EXCEPT ![p] = old]
        BY <1>5, <3>2 DEF Process
      <4>2. QED
        BY <1>1, <4>1
    <3>3. QED
      BY <3>1, <3>2
  <2>2. QED
    BY <2>1, SameManager
<1>6. QED
  BY <1>2, <1>3, <1>4, <1>5

\* p executes a frame: the screen and the timeouts are gone.
LEMMA RunningManager ==
  ASSUME PaceInv, NEW p \in Players, RunFrame(p)
  PROVE  ManagerChange(p)
<1>1. /\ manager \in [Players -> Managers] /\ manager[p] \in Managers
      /\ frame[p] \in Nat /\ frame'[p] = frame[p] + 1
      /\ manager[p].frames \in [Players -> Nat]
  BY TypeFacts, ManagerFields DEF PaceInv, RunFrame
<1> PICK old : old = manager[p]
  OBVIOUS
<1> PICK off : off = IF old.screenOn THEN DisconnectScreenOff(old, p, frame[p]) ELSE old
  OBVIOUS
<1>2. Forgets(off, old) /\ OnlyAbout(off, old, p)
      /\ \/ off.frames[p] = frame[p]
         \/ off = old
  <2>1. CASE old.screenOn
    BY <1>1, <2>1, ScreenOffNoted
  <2>2. CASE ~old.screenOn
    BY <1>1, <2>2, ManagerFields DEF Forgets, OnlyAbout
  <2>3. QED
    BY <2>1, <2>2
<1>3. /\ manager'[p].votes = off.votes /\ manager'[p].timedOut = {}
      /\ manager'[p].frames = off.frames /\ manager'[p].received = off.received
      /\ ~manager'[p].screenOn
  <2>1. PICK new : new = NextFrame([off EXCEPT !.screenOn = FALSE])
    OBVIOUS
  <2>2. manager'[p] = new
    BY <1>1, <2>1 DEF RunFrame
  <2>3. /\ new.votes = off.votes /\ new.timedOut = {} /\ ~new.screenOn
        /\ new.frames = off.frames /\ new.received = off.received
    BY <1>2, <2>1 DEF Forgets, NextFrame, Managers
  <2>4. QED
    BY <2>2, <2>3
<1>4. KnownFramesChange(p)
  <2>1. ASSUME NEW r \in Players
        PROVE  \/ /\ off.frames[r] = old.frames[r]
                  /\ r \in off.received <=> r \in old.received
               \/ r = p /\ off.frames[r] = frame[p]
    BY <1>2 DEF OnlyAbout
  <2>2. QED
    BY <1>3, <2>1 DEF KnownFramesChange
<1>5. ScreenChange(p) /\ TimeoutsChange(p) /\ OwnVotesStay(p)
  BY <1>1, <1>3 DEF ScreenChange, TimeoutsChange, OwnVotesStay
<1>6. VotesChange(p)
  BY <1>2, <1>3 DEF VotesChange, Forgets
<1>7. QED
  BY <1>4, <1>5, <1>6 DEF ManagerChange

\* The screen is turned on, the others are told the frame, and p waits for
\* somebody too long or votes him out.
LEMMA WaitingManager ==
  ASSUME PaceInv, NEW p \in Players, NEW q \in Players,
         \/ TurnOnScreen(p) \/ NotifyOthersOfCurrentFrame(p)
         \/ TimeOut(p, q) \/ VoteForPlayerDisconnect(p, q)
  PROVE  ManagerChange(p)
<1>1. /\ manager \in [Players -> Managers] /\ manager[p] \in Managers
      /\ frame[p] \in Nat /\ frame' = frame
      /\ manager[p].frames \in [Players -> Nat]
  BY TypeFacts, ManagerFields DEF PaceInv, TurnOnScreen, NotifyOthersOfCurrentFrame,
                                  TimeOut, VoteForPlayerDisconnect
<1> PICK old : old = manager[p]
  OBVIOUS
<1>2. CASE TurnOnScreen(p)
  <2>1. manager'[p] = [old EXCEPT !.screenOn = TRUE, !.notified = FALSE, !.timedOut = {}]
    BY <1>1, <1>2 DEF TurnOnScreen
  <2>2. /\ manager'[p].votes = old.votes /\ manager'[p].timedOut = {}
        /\ manager'[p].frames = old.frames /\ manager'[p].received = old.received
        /\ manager'[p].screenOn /\ ~manager'[p].notified
    BY <1>1, <2>1 DEF Managers
  <2>3. frame[p] < MaxFrame
    BY <1>2 DEF TurnOnScreen
  <2>4. QED
    BY <1>1, <2>2, <2>3 DEF ManagerChange, KnownFramesChange, ScreenChange, VotesChange,
                            TimeoutsChange, OwnVotesStay
<1>3. CASE NotifyOthersOfCurrentFrame(p)
  <2>1. PICK noted : noted = DisconnectFrame(old, p, frame[p])
    OBVIOUS
  <2>2. /\ Forgets(noted, old) /\ OnlyAbout(noted, old, p)
        /\ old.frames[p] >= frame[p] => noted = old
        /\ old.frames[p] < frame[p] => noted.frames[p] = frame[p]
        /\ \A a \in Players :
             old.votes[a][p] >= frame[p] => noted.votes[a][p] = old.votes[a][p]
    BY <1>1, <2>1, FrameNoted
  <2>3. manager'[p] = [noted EXCEPT !.notified = TRUE] /\ old.screenOn
    BY <1>1, <1>3, <2>1 DEF NotifyOthersOfCurrentFrame
  <2>4. /\ manager'[p].votes = noted.votes /\ manager'[p].timedOut = noted.timedOut
        /\ manager'[p].frames = noted.frames /\ manager'[p].received = noted.received
        /\ manager'[p].screenOn = noted.screenOn
    BY <2>2, <2>3 DEF Managers, Forgets
  <2>5. KnownFramesChange(p)
    BY <1>1, <2>2, <2>4 DEF KnownFramesChange, OnlyAbout
  <2>6. ScreenChange(p) /\ TimeoutsChange(p)
    <3>1. noted.frames[p] >= frame[p]
      BY <1>1, <2>2
    <3>2. noted.screenOn = old.screenOn /\ noted.timedOut = old.timedOut
      BY <2>2 DEF Forgets
    <3>3. frame'[p] = frame[p]
      BY <1>1
    <3>4. QED
      BY <2>3, <2>4, <3>1, <3>2, <3>3 DEF ScreenChange, TimeoutsChange
  <2>7. VotesChange(p)
    BY <2>2, <2>4 DEF VotesChange, Forgets
  <2>8. OwnVotesStay(p)
    BY <1>1, <2>2, <2>4 DEF OwnVotesStay
  <2>9. QED
    BY <2>5, <2>6, <2>7, <2>8 DEF ManagerChange
<1>4. CASE TimeOut(p, q)
  <2>1. PICK out : out = old.timedOut \cup {q}
    OBVIOUS
  <2>2. manager'[p] = [old EXCEPT !.timedOut = out]
    BY <1>1, <1>4, <2>1 DEF TimeOut
  <2>3. /\ manager'[p].votes = old.votes /\ manager'[p].timedOut = old.timedOut \cup {q}
        /\ manager'[p].frames = old.frames /\ manager'[p].received = old.received
        /\ manager'[p].screenOn = old.screenOn /\ manager'[p].notified = old.notified
    BY <1>1, <2>1, <2>2 DEF Managers
  <2>4. TimeoutsChange(p)
    BY <1>1, <1>4, <2>3 DEF TimeoutsChange
  <2>5. QED
    BY <1>1, <2>3, <2>4, ManagerFields
    DEF ManagerChange, KnownFramesChange, ScreenChange, VotesChange, OwnVotesStay
<1>5. CASE VoteForPlayerDisconnect(p, q)
  <2>1. PICK votes : votes = [old.votes EXCEPT ![q][p] = frame[p]]
    OBVIOUS
  <2>2. manager' = [manager EXCEPT ![p] = ApplyDisconnectVote(old, q, p, frame[p])]
    BY <1>1, <1>5 DEF VoteForPlayerDisconnect
  <2>3. manager'[p] = [old EXCEPT !.votes = votes]
    BY <1>1, <2>1, <2>2 DEF ApplyDisconnectVote
  <2>4. /\ manager'[p].votes = votes /\ manager'[p].timedOut = old.timedOut
        /\ manager'[p].frames = old.frames /\ manager'[p].received = old.received
        /\ manager'[p].screenOn = old.screenOn /\ manager'[p].notified = old.notified
    BY <1>1, <2>3 DEF Managers
  <2>5. \A a, r \in Players :
          votes[a][r] = IF a = q /\ r = p THEN frame[p] ELSE old.votes[a][r]
    BY <1>1, <2>1, ManagerFields
  <2>6. VotesChange(p)
    BY <1>5, <2>4, <2>5 DEF VotesChange
  <2>7. QED
    BY <1>1, <2>4, <2>5, <2>6
    DEF ManagerChange, KnownFramesChange, ScreenChange, TimeoutsChange, OwnVotesStay
<1>6. QED
  BY <1>2, <1>3, <1>4, <1>5

\* Whatever happens.
LEMMA ManagersChange ==
  ASSUME PaceInv, [Next]_vars, NEW p \in Players
  PROVE  ManagerChange(p)
<1>1. manager \in [Players -> Managers] /\ frame \in [Players -> Nat]
  BY TypeFacts DEF PaceInv
<1>2. ASSUME manager' = manager, frame' = frame
      PROVE  ManagerChange(p)
  BY <1>2, SameManager
<1>3. ASSUME NEW r \in Players, NEW new, manager' = [manager EXCEPT ![r] = new],
             frame' = frame \/ frame' = [frame EXCEPT ![r] = @ + 1],
             ManagerChange(r)
      PROVE  ManagerChange(p)
  <2>1. CASE p = r
    BY <1>3, <2>1
  <2>2. CASE p # r
    BY <1>1, <1>3, <2>2, SameManager
  <2>3. QED
    BY <2>1, <2>2
<1>4. ASSUME NEW r \in Players, RunFrame(r)
      PROVE  ManagerChange(p)
  <2>1. /\ \E new : manager' = [manager EXCEPT ![r] = new]
        /\ frame' = [frame EXCEPT ![r] = @ + 1]
    BY <1>4 DEF RunFrame
  <2>2. QED
    BY <1>3, <1>4, <2>1, RunningManager
<1>5. ASSUME NEW r \in Players, NEW q \in Players,
             \/ TurnOnScreen(r) \/ NotifyOthersOfCurrentFrame(r)
             \/ TimeOut(r, q) \/ VoteForPlayerDisconnect(r, q)
      PROVE  ManagerChange(p)
  <2>1. frame' = frame
    BY <1>5 DEF TurnOnScreen, NotifyOthersOfCurrentFrame, TimeOut, VoteForPlayerDisconnect
  <2>2. \E new : manager' = [manager EXCEPT ![r] = new]
    <3>1. CASE TimeOut(r, q)
      <4>1. manager' = [manager EXCEPT ![r] =
                          [manager[r] EXCEPT !.timedOut = @ \cup {q}]]
        BY <1>1, <3>1 DEF TimeOut
      <4>2. QED
        BY <4>1
    <3>2. CASE ~TimeOut(r, q)
      BY <1>5, <3>2 DEF TurnOnScreen, NotifyOthersOfCurrentFrame, VoteForPlayerDisconnect
    <3>3. QED
      BY <3>1, <3>2
  <2>3. QED
    BY <1>3, <1>5, <2>1, <2>2, WaitingManager
<1>6. ASSUME NEW r \in Players, Receive(r) \/ ReceiveUnacknowledged(r)
      PROVE  ManagerChange(p)
  <2>1. frame' = frame
    BY <1>6 DEF Receive, ReceiveUnacknowledged
  <2>2. PICK m \in network : m.to = r /\ \E remaining : Process(r, m, remaining)
    BY <1>6 DEF Receive, ReceiveUnacknowledged
  <2>3. ManagerChange(r)
    BY <2>1, <2>2, ProcessingManager
  <2>4. manager' = manager \/ \E new : manager' = [manager EXCEPT ![r] = new]
    BY <2>2 DEF Process
  <2>5. QED
    BY <1>2, <1>3, <2>1, <2>3, <2>4
<1>7. ASSUME NEW r \in Players, NEW q \in Players,
             \/ Stop(r) \/ FallSilent(r) \/ CommandsArrive(r, q)
             \/ UpdateDisconnectStatus(r, q) \/ UNCHANGED vars
      PROVE  ManagerChange(p)
  <2>1. manager' = manager /\ frame' = frame
    BY <1>7 DEF Stop, FallSilent, CommandsArrive, UpdateDisconnectStatus, vars
  <2>2. QED
    BY <1>2, <2>1
<1>8. QED
  BY <1>4, <1>5, <1>6, <1>7 DEF Next

\* Why a message is sent.
Sent(m) ==
  /\ m \in Message /\ status[m.from] = "up" /\ status[m.to] = "up"
  /\ m.to \in Others(m.from)
  /\ m.type \in {"FRAME", "SCREENOFF", "COMMANDS"} => m.frame = frame[m.from]
  /\ m.type = "FRAME" => manager'[m.from].screenOn /\ frame' = frame
  /\ m.type = "VOTE" =>
       /\ m.about \in Others(m.from) /\ frame' = frame /\ m.frame = frame[m.from]
       /\ manager'[m.from].votes[m.about][m.from] = m.frame
  /\ m.type = "PLAYER" => UpdateDisconnectStatus(m.from, m.about)
  /\ m.type = "COMMANDS" => m.about \in connected[m.from] /\ frame' = frame

\* Whatever is on its way now and was not before has been sent for a reason.
LEMMA MessagesSent ==
  ASSUME PaceInv, [Next]_vars, NEW m \in network', m \notin network
  PROVE  Sent(m)
<1>1. TypeOK
  BY DEF PaceInv
<1>2. ASSUME NEW p \in Players, RunFrame(p)
      PROVE  Sent(m)
  <2>1. m \in Send("SCREENOFF", p, Others(p), frame[p], p) /\ status[p] = "up"
    BY <1>2 DEF RunFrame
  <2>2. frame[p] \in Nat /\ Others(p) \in SUBSET Players
    BY <1>1, TypeFacts
  <2>3. QED
    BY <2>1, <2>2, SentMessages DEF Sent
<1>3. ASSUME NEW p \in Players, NEW n, NEW q, m \in CatchUp(p, n, q), status[p] = "up",
             frame' = frame
      PROVE  Sent(m)
  BY <1>1, <1>3, CatchUpMessages DEF Sent
<1>4. ASSUME NEW p \in Players, NotifyOthersOfCurrentFrame(p)
      PROVE  Sent(m)
  <2>1. /\ status[p] = "up" /\ frame' = frame /\ manager[p].screenOn
        /\ \/ m \in Send("FRAME", p, Others(p), frame[p], p)
           \/ \E n : m \in CatchUp(p, n, p)
    BY <1>4 DEF NotifyOthersOfCurrentFrame
  <2>2. frame[p] \in Nat /\ Others(p) \in SUBSET Players
    BY <1>1, TypeFacts
  <2>3. manager'[p].screenOn
    BY <2>1, ManagersChange DEF ManagerChange, ScreenChange
  <2>4. CASE m \in Send("FRAME", p, Others(p), frame[p], p)
    BY <2>1, <2>2, <2>3, <2>4, SentMessages DEF Sent
  <2>5. QED
    BY <1>3, <2>1, <2>4
<1>5. ASSUME NEW p \in Players, NEW q \in Players, VoteForPlayerDisconnect(p, q)
      PROVE  Sent(m)
  <2>1. /\ m \in Send("VOTE", p, Others(p), frame[p], q) /\ status[p] = "up"
        /\ q \in Others(p) /\ frame' = frame
        /\ manager' = [manager EXCEPT ![p] =
                         ApplyDisconnectVote(manager[p], q, p, frame[p])]
    BY <1>5 DEF VoteForPlayerDisconnect
  <2>2. /\ frame[p] \in Nat /\ Others(p) \in SUBSET Players
        /\ manager \in [Players -> Managers] /\ manager[p] \in Managers
    BY <1>1, TypeFacts
  <2>3. manager'[p].votes[q][p] = frame[p]
    <3>1. PICK votes : votes = [manager[p].votes EXCEPT ![q][p] = frame[p]]
      OBVIOUS
    <3>2. manager'[p] = [manager[p] EXCEPT !.votes = votes]
      BY <2>1, <2>2, <3>1 DEF ApplyDisconnectVote
    <3>3. manager'[p].votes = votes
      BY <2>2, <3>2 DEF Managers
    <3>4. QED
      BY <2>2, <3>1, <3>3, ManagerFields
  <2>4. QED
    BY <2>1, <2>2, <2>3, SentMessages DEF Sent
<1>6. ASSUME NEW p \in Players, NEW q \in Players, UpdateDisconnectStatus(p, q)
      PROVE  Sent(m)
  <2>1. PICK f : f = Max({manager[p].frames[r] : r \in Players})
    OBVIOUS
  <2>2. m \in Send("PLAYER", p, Others(p), f, q) /\ status[p] = "up"
    BY <1>6, <2>1 DEF UpdateDisconnectStatus
  <2>3. f \in Nat /\ Others(p) \in SUBSET Players
    <3>1. manager[p].frames \in [Players -> Nat] /\ Others(p) \in SUBSET Players
      BY <1>1, TypeFacts, ManagerFields
    <3>2. QED
      BY <2>1, <3>1, LargestFrame
  <2>4. QED
    BY <1>6, <2>2, <2>3, SentMessages DEF Sent
<1>7. ASSUME NEW p \in Players, Receive(p) \/ ReceiveUnacknowledged(p)
      PROVE  Sent(m)
  <2>1. /\ status[p] = "up" /\ frame' = frame
        /\ \E n \in network, remaining \in SUBSET network : Process(p, n, remaining)
    BY <1>7 DEF Receive, ReceiveUnacknowledged
  <2>2. \E new, q : m \in CatchUp(p, new, q)
    BY <2>1 DEF Process
  <2>3. QED
    BY <1>3, <2>1, <2>2
<1>8. ASSUME NEW p \in Players, NEW q \in Players,
             \/ Stop(p) \/ FallSilent(p) \/ TurnOnScreen(p)
             \/ CommandsArrive(p, q) \/ TimeOut(p, q) \/ UNCHANGED vars
      PROVE  FALSE
  BY <1>8 DEF Stop, FallSilent, TurnOnScreen, CommandsArrive, TimeOut, vars
<1>9. Players # {} => ~UNCHANGED vars
  BY <1>8
<1>10. QED
  BY <1>2, <1>4, <1>5, <1>6, <1>7, <1>8 DEF Next, vars

\* A message is lost when a computer stops, or arrives.
LEMMA MessagesLost ==
  ASSUME PaceInv, [Next]_vars, NEW m \in network, m \notin network'
  PROVE  \/ m.from \in Mortal \/ m.to \in Mortal
         \/ /\ m.to \in Players /\ UNCHANGED frame
            /\ \E remaining : Process(m.to, m, remaining)
<1>1. ASSUME NEW p \in Players, Stop(p)
      PROVE  m.from \in Mortal \/ m.to \in Mortal
  BY <1>1 DEF Stop
<1>2. ASSUME NEW p \in Players, Receive(p) \/ ReceiveUnacknowledged(p)
      PROVE  p = m.to /\ UNCHANGED frame /\ \E remaining : Process(p, m, remaining)
  <2>1. UNCHANGED frame
    BY <1>2 DEF Receive, ReceiveUnacknowledged
  <2>2. PICK n \in network, remaining \in SUBSET network :
          /\ Process(p, n, remaining) /\ n.to = p
          /\ remaining \in {network, network \ {n}}
    BY <1>2 DEF Receive, ReceiveUnacknowledged
  <2>3. remaining \subseteq network'
    BY <2>2 DEF Process
  <2>4. m = n
    BY <2>2, <2>3
  <2>5. QED
    BY <2>1, <2>2, <2>4
<1>3. ASSUME NEW p \in Players, NEW q \in Players,
             \/ RunFrame(p) \/ FallSilent(p) \/ TurnOnScreen(p)
             \/ NotifyOthersOfCurrentFrame(p) \/ CommandsArrive(p, q) \/ TimeOut(p, q)
             \/ VoteForPlayerDisconnect(p, q) \/ UpdateDisconnectStatus(p, q)
      PROVE  network \subseteq network'
  BY <1>3 DEF RunFrame, FallSilent, TurnOnScreen, NotifyOthersOfCurrentFrame,
              CommandsArrive, TimeOut, VoteForPlayerDisconnect, UpdateDisconnectStatus
<1>4. ~UNCHANGED vars
  BY DEF vars
<1>5. QED
  BY <1>1, <1>2, <1>3, <1>4 DEF Next

\* Computers go silent, and frames are executed one by one.
LEMMA StatusAndFrames ==
  ASSUME PaceInv, [Next]_vars, NEW p \in Players
  PROVE  /\ status'[p] = status[p] \/ status[p] = "down"
              \/ (p \in Mortal /\ status[p] = "up")
         /\ frame'[p] = frame[p] \/ (RunFrame(p) /\ frame'[p] = frame[p] + 1)
         /\ frame'[p] >= frame[p]
<1>1. status \in [Players -> {"up", "down", "silent"}] /\ frame \in [Players -> Nat]
  BY TypeFacts DEF PaceInv
<1>2. ASSUME NEW r \in Players, RunFrame(r)
      PROVE  /\ status' = status
             /\ frame'[p] = frame[p] \/ (r = p /\ frame'[p] = frame[p] + 1)
  <2>1. status' = status /\ frame' = [frame EXCEPT ![r] = frame[r] + 1]
    BY <1>2 DEF RunFrame
  <2>2. QED
    BY <1>1, <2>1
<1>3. ASSUME NEW r \in Players, Stop(r)
      PROVE  frame' = frame /\ (status'[p] = status[p] \/ (p \in Mortal /\ status[p] = "up"))
  <2>1. frame' = frame /\ status' = [status EXCEPT ![r] = "down"] /\ r \in Mortal
        /\ status[r] = "up"
    BY <1>3 DEF Stop
  <2>2. QED
    BY <1>1, <2>1
<1>4. ASSUME NEW r \in Players, FallSilent(r)
      PROVE  frame' = frame /\ (status'[p] = status[p] \/ status[p] = "down")
  BY <1>1, <1>4 DEF FallSilent
<1>5. ASSUME NEW r \in Players, NEW q \in Players,
             \/ TurnOnScreen(r) \/ NotifyOthersOfCurrentFrame(r)
             \/ Receive(r) \/ ReceiveUnacknowledged(r)
             \/ CommandsArrive(r, q) \/ TimeOut(r, q)
             \/ VoteForPlayerDisconnect(r, q) \/ UpdateDisconnectStatus(r, q)
      PROVE  UNCHANGED <<status, frame>>
  BY <1>5 DEF TurnOnScreen, NotifyOthersOfCurrentFrame, Receive, ReceiveUnacknowledged,
              CommandsArrive, TimeOut, VoteForPlayerDisconnect, UpdateDisconnectStatus
<1>6. UNCHANGED vars => UNCHANGED <<status, frame>>
  BY DEF vars
<1>7. /\ frame'[p] = frame[p] \/ (RunFrame(p) /\ frame'[p] = frame[p] + 1)
      /\ status'[p] = status[p] \/ status[p] = "down"
              \/ (p \in Mortal /\ status[p] = "up")
  BY <1>2, <1>3, <1>4, <1>5, <1>6 DEF Next
<1>8. QED
  BY <1>1, <1>7

\* Commands come on their way or with a message.
LEMMA CommandsCome ==
  ASSUME PaceInv, [Next]_vars, NEW p \in Players, NEW q \in Players
  PROVE  \/ complete'[p][q] = complete[p][q]
         \/ OnItsWay(p, q)
         \/ \E m \in network : /\ m.type = "COMMANDS" /\ m.to = p /\ m.about = q
                               /\ complete'[p][q] = m.frame
<1>1. complete \in [Players -> [Players -> Nat]]
  BY TypeFacts DEF PaceInv
<1>2. ASSUME NEW r \in Players, NEW s \in Players, CommandsArrive(r, s)
      PROVE  complete'[p][q] = complete[p][q] \/ OnItsWay(p, q)
  BY <1>1, <1>2 DEF CommandsArrive
<1>3. ASSUME NEW r \in Players, Receive(r) \/ ReceiveUnacknowledged(r)
      PROVE  \/ complete'[p][q] = complete[p][q]
             \/ \E m \in network : /\ m.type = "COMMANDS" /\ m.to = p /\ m.about = q
                                   /\ complete'[p][q] = m.frame
  <2>1. PICK m \in network : m.to = r /\ \E remaining : Process(r, m, remaining)
    BY <1>3 DEF Receive, ReceiveUnacknowledged
  <2>2. CASE complete' = complete
    BY <2>2
  <2>3. CASE complete' # complete
    <3>1. /\ m.type = "COMMANDS"
          /\ complete' = [complete EXCEPT ![r][m.about] = Max({@, m.frame})]
      BY <2>1, <2>3 DEF Process
    <3>2. PICK f : f = Max({complete[r][m.about], m.frame})
      OBVIOUS
    <3>3. complete' = [complete EXCEPT ![r][m.about] = f]
      BY <1>1, <3>1, <3>2
    <3>4. m.about \in Players /\ m.frame \in Nat /\ complete[r][m.about] \in Nat
      BY <1>1, TypeFacts DEF PaceInv
    <3>5. f \in {complete[r][m.about], m.frame}
      BY <3>2, <3>4, LargerOfTwo
    <3>6. complete'[p][q] = IF p = r /\ q = m.about THEN f ELSE complete[p][q]
      BY <1>1, <3>3
    <3>7. QED
      BY <2>1, <3>1, <3>5, <3>6
  <2>4. QED
    BY <2>2, <2>3
<1>4. ASSUME NEW r \in Players, NEW s \in Players,
             \/ RunFrame(r) \/ Stop(r) \/ FallSilent(r) \/ TurnOnScreen(r)
             \/ NotifyOthersOfCurrentFrame(r) \/ TimeOut(r, s)
             \/ VoteForPlayerDisconnect(r, s) \/ UpdateDisconnectStatus(r, s)
      PROVE  complete' = complete
  BY <1>4 DEF RunFrame, Stop, FallSilent, TurnOnScreen, NotifyOthersOfCurrentFrame,
              TimeOut, VoteForPlayerDisconnect, UpdateDisconnectStatus
<1>5. UNCHANGED vars => complete' = complete
  BY DEF vars
<1>6. QED
  BY <1>2, <1>3, <1>4, <1>5 DEF Next

\* p plays without q from its frame on.
PlaysWithout(p, q) ==
  /\ q \in Silent \ {p} /\ frame' = frame
  /\ connected'[p] = connected[p] \ {q}
  /\ \A r \in Players :
       disconnectedOn'[p][r] = IF r = q /\ q \in connected[p]
                               THEN frame[p] ELSE disconnectedOn[p][r]

\* A player is disconnected by whom he does not answer, or as a message says.
LEMMA PlayersLeave ==
  ASSUME PaceInv, [Next]_vars, NEW p \in Players
  PROVE  \/ connected'[p] = connected[p] /\ disconnectedOn'[p] = disconnectedOn[p]
         \/ \E q \in Players :
              /\ PlaysWithout(p, q)
              /\ \/ UpdateDisconnectStatus(p, q)
                 \/ \E m \in network : m.type = "PLAYER" /\ m.to = p /\ m.about = q
<1>1. /\ connected \in [Players -> SUBSET Players]
      /\ disconnectedOn \in [Players -> [Players -> Nat]]
  BY TypeFacts DEF PaceInv
<1>2. ASSUME NEW r \in Players, NEW q \in Silent \ {r}, DisconnectPlayer(r, q),
             frame' = frame
      PROVE  \/ connected'[p] = connected[p] /\ disconnectedOn'[p] = disconnectedOn[p]
             \/ r = p /\ PlaysWithout(p, q)
  <2>1. PICK f : f = IF q \in connected[r] THEN frame[r] ELSE disconnectedOn[r][q]
    OBVIOUS
  <2>2. /\ connected' = [connected EXCEPT ![r] = connected[r] \ {q}]
        /\ disconnectedOn' = [disconnectedOn EXCEPT ![r][q] = f]
    BY <1>1, <1>2, <2>1 DEF DisconnectPlayer, Silent
  <2>3. CASE r = p
    BY <1>1, <1>2, <2>1, <2>2, <2>3 DEF PlaysWithout, Silent
  <2>4. CASE r # p
    BY <1>1, <2>2, <2>4
  <2>5. QED
    BY <2>3, <2>4
<1>3. ASSUME NEW r \in Players, NEW q \in Players, UpdateDisconnectStatus(r, q)
      PROVE  \/ connected'[p] = connected[p] /\ disconnectedOn'[p] = disconnectedOn[p]
             \/ r = p /\ PlaysWithout(p, q)
  <2>1. DisconnectPlayer(r, q) /\ frame' = frame
    BY <1>3 DEF UpdateDisconnectStatus
  <2>2. q \in Silent \ {r}
    BY <1>3, DisconnectedIsSilent
  <2>3. QED
    BY <1>2, <2>1, <2>2
<1>4. ASSUME NEW r \in Players, Receive(r) \/ ReceiveUnacknowledged(r)
      PROVE  \/ connected'[p] = connected[p] /\ disconnectedOn'[p] = disconnectedOn[p]
             \/ \E q \in Players :
                  /\ PlaysWithout(p, q)
                  /\ \E m \in network : m.type = "PLAYER" /\ m.to = p /\ m.about = q
  <2>1. frame' = frame
    BY <1>4 DEF Receive, ReceiveUnacknowledged
  <2>2. PICK m \in network : m.to = r /\ \E remaining : Process(r, m, remaining)
    BY <1>4 DEF Receive, ReceiveUnacknowledged
  <2>3. m.about \in Players /\ MessageIsTrue(m)
    BY TypeFacts DEF PaceInv
  <2>4. \/ UNCHANGED <<connected, disconnectedOn>>
        \/ m.type = "PLAYER" /\ m.about # r /\ DisconnectPlayer(r, m.about)
    BY <2>2 DEF Process
  <2>5. CASE m.type = "PLAYER" /\ m.about # r /\ DisconnectPlayer(r, m.about)
    <3>1. m.about \in Silent \ {r}
      BY <2>3, <2>5 DEF MessageIsTrue
    <3>2. QED
      BY <1>2, <2>1, <2>2, <2>3, <2>5, <3>1
  <2>6. QED
    BY <2>4, <2>5
<1>5. ASSUME NEW r \in Players, NEW q \in Players,
             \/ RunFrame(r) \/ Stop(r) \/ FallSilent(r) \/ TurnOnScreen(r)
             \/ NotifyOthersOfCurrentFrame(r) \/ CommandsArrive(r, q) \/ TimeOut(r, q)
             \/ VoteForPlayerDisconnect(r, q)
      PROVE  UNCHANGED <<connected, disconnectedOn>>
  BY <1>5 DEF RunFrame, Stop, FallSilent, TurnOnScreen, NotifyOthersOfCurrentFrame,
              CommandsArrive, TimeOut, VoteForPlayerDisconnect
<1>6. UNCHANGED vars => UNCHANGED <<connected, disconnectedOn>>
  BY DEF vars
<1>7. QED
  BY <1>3, <1>4, <1>5, <1>6 DEF Next

-------------------------------------------------------------------------------
(* Games of three, of whom a client may stop.                                *)

\* The packet router s, a client c who may stop, and another one q.
Trio(s, c, q) ==
  /\ Players = {s, c, q} /\ s < c /\ s < q /\ c # q
  /\ Stopped \subseteq {c} /\ Mortal \subseteq {c}

\* s and q play on, in everybody's eyes.
StillPlaying(s, q) ==
  /\ status[s] = "up" /\ status[q] = "up"
  /\ \A p \in Players : s \in connected[p] /\ q \in connected[p]

\* What a message tells is so, or was.
MessageFits(m, s, c) ==
  /\ m.from # m.to
  /\ m.type \in {"FRAME", "SCREENOFF"} => m.frame <= frame[m.from]
  /\ m.type = "VOTE" => m.about # m.from
  /\ m.type = "PLAYER" => c \notin connected[s] /\ m.to # c

VotesFit(s) ==
  /\ \A p, r \in Players : manager[p].votes[r][r] = 0
  /\ \A r \in Players : manager[s].votes[r][s] <= frame[s]

ScreensFit ==
  \A p \in Players :
    /\ \A r \in Players : manager[p].frames[r] <= frame[r]
    /\ manager[p].screenOn => frame[p] < MaxFrame
    /\ manager[p].screenOn /\ manager[p].notified => manager[p].frames[p] = frame[p]

TrioInv(s, c, q) ==
  /\ StillPlaying(s, q) /\ VotesFit(s) /\ ScreensFit
  /\ \A m \in network : MessageFits(m, s, c)

\* s is the least of the players.
LEMMA LeastPlayer ==
  ASSUME NEW s \in Players, NEW c \in Players, NEW q \in Players, Trio(s, c, q),
         NEW S \in SUBSET Players, s \in S
  PROVE  Min(S) = s
<1>1. S \subseteq Nat /\ \A x \in S : s <= x
  BY PlayersAssumption DEF Trio
<1>2. \A x \in S : (\A y \in S : x <= y) => x = s
  BY <1>1
<1>3. QED
  BY <1>1, <1>2 DEF Min

\* Nobody but c is suspected by anybody.
LEMMA OthersAreInGame ==
  ASSUME NEW s \in Players, NEW c \in Players, NEW q \in Players, Trio(s, c, q),
         PaceInv, StillPlaying(s, q)
  PROVE  /\ Silent \subseteq {c}
         /\ \A p \in Players : \A r \in Others(p) \ {c} : IsPlayerInGame(p, r)
<1>1. Silent \subseteq {c}
  BY DEF Silent, StillPlaying, Trio
<1>2. ASSUME NEW p \in Players, NEW r \in Others(p) \ {c}
      PROVE  IsPlayerInGame(p, r)
  <2>1. /\ TypeOK /\ p \in connected[p] /\ frame[p] > 0 /\ r \in Players
        /\ r \in connected[p]
    BY TypeFacts, FramesAssumption DEF PaceInv, Others
  <2>2. r \notin Suspects(manager[p])
    BY <1>1 DEF PaceInv
  <2>3. ~IsPlayerVotedOut(p, r)
    BY <2>1, <2>2, VotedOutIsSuspect
  <2>4. QED
    BY <2>1, <2>2, <2>3 DEF IsPlayerInGame, Suspects
<1>3. QED
  BY <1>1, <1>2

\* Only s has anybody disconnected, and only c.
LEMMA RouterDisconnects ==
  ASSUME NEW s \in Players, NEW c \in Players, NEW q \in Players, Trio(s, c, q),
         PaceInv, StillPlaying(s, q),
         NEW p \in Players, NEW r \in Players, UpdateDisconnectStatus(p, r)
  PROVE  p = s /\ r = c
<1>1. r = c /\ p # c
  BY DisconnectedIsSilent, OthersAreInGame
<1>2. ASSUME p = q
      PROVE  FALSE
  <2> DEFINE S == {x \in connected[q] : x = q \/ IsPlayerInGame(q, x)}
  <2>1. s \in S /\ S \in SUBSET Players
    <3>1. s \in Others(q) \ {c} /\ connected[q] \in SUBSET Players
      BY <1>1, <1>2, TypeFacts, PlayersAssumption
      DEF StillPlaying, Trio, Others, PaceInv
    <3>2. IsPlayerInGame(q, s)
      BY <3>1, OthersAreInGame
    <3>3. QED
      BY <3>1, <3>2 DEF Others
  <2>2. Min(S) = s
    BY <2>1, LeastPlayer
  <2>3. q = Min(S)
    BY <1>2 DEF UpdateDisconnectStatus, IsLocalPlayerNextPacketRouter
  <2>4. QED
    BY <2>2, <2>3, PlayersAssumption DEF Trio
<1>3. QED
  BY <1>1, <1>2 DEF Trio

\* c is the one disconnected.
LEMMA OnlyOneLeaves ==
  ASSUME NEW s \in Players, NEW c \in Players, NEW q \in Players, Trio(s, c, q),
         PaceInv, StillPlaying(s, q), [Next]_vars, NEW p \in Players
  PROVE  \/ connected'[p] = connected[p] /\ disconnectedOn'[p] = disconnectedOn[p]
         \/ /\ PlaysWithout(p, c)
            /\ \/ p = s /\ UpdateDisconnectStatus(s, c)
               \/ \E m \in network : m.type = "PLAYER" /\ m.to = p /\ m.about = c
<1>1. CASE connected'[p] = connected[p] /\ disconnectedOn'[p] = disconnectedOn[p]
  BY <1>1
<1>2. ASSUME NEW r \in Players, PlaysWithout(p, r),
             \/ UpdateDisconnectStatus(p, r)
             \/ \E m \in network : m.type = "PLAYER" /\ m.to = p /\ m.about = r
      PROVE  /\ PlaysWithout(p, c)
             /\ \/ p = s /\ UpdateDisconnectStatus(s, c)
                \/ \E m \in network : m.type = "PLAYER" /\ m.to = p /\ m.about = c
  <2>1. r = c
    BY <1>2, OthersAreInGame DEF PlaysWithout
  <2>2. UpdateDisconnectStatus(p, r) => p = s
    BY RouterDisconnects
  <2>3. QED
    BY <1>2, <2>1, <2>2
<1>3. QED
  BY <1>1, <1>2, PlayersLeave

\* s and q are not stopped and not disconnected.
LEMMA TrioPlaysOn ==
  ASSUME NEW s \in Players, NEW c \in Players, NEW q \in Players, Trio(s, c, q),
         PaceInv, StillPlaying(s, q), [Next]_vars
  PROVE  StillPlaying(s, q)'
<1>1. s \notin Mortal /\ q \notin Mortal /\ s # c
  BY PlayersAssumption DEF Trio
<1>2. status'[s] = "up" /\ status'[q] = "up"
  BY <1>1, StatusAndFrames DEF StillPlaying
<1>3. ASSUME NEW p \in Players
      PROVE  s \in connected'[p] /\ q \in connected'[p]
  <2>1. connected'[p] = connected[p] \/ connected'[p] = connected[p] \ {c}
    BY OnlyOneLeaves DEF PlaysWithout
  <2>2. QED
    BY <1>1, <2>1 DEF StillPlaying, Trio
<1>4. QED
  BY <1>2, <1>3 DEF StillPlaying

\* TrioInv is kept.
LEMMA TrioStep ==
  ASSUME NEW s \in Players, NEW c \in Players, NEW q \in Players, Trio(s, c, q),
         PaceInv, PaceInv', TrioInv(s, c, q), [Next]_vars
  PROVE  TrioInv(s, c, q)'
<1>1. /\ frame \in [Players -> Nat] /\ frame' \in [Players -> Nat]
      /\ \A p \in Players : frame[p] <= frame'[p]
      /\ StillPlaying(s, q)
  BY StatusAndFrames, TypeFacts DEF PaceInv, TypeOK, TrioInv
<1>2. ASSUME NEW p \in Players
      PROVE  /\ manager[p].frames \in [Players -> Nat]
             /\ manager'[p].frames \in [Players -> Nat]
             /\ manager[p].votes \in [Players -> [Players -> Nat]]
             /\ manager'[p].votes \in [Players -> [Players -> Nat]]
  BY ManagerFields DEF PaceInv, TypeOK
<1>3. \A m \in network : /\ m \in Message /\ m.from \in Players /\ m.to \in Players
                         /\ m.frame \in Nat /\ MessageFits(m, s, c)
  BY TypeFacts DEF TrioInv, PaceInv, TypeOK
<1>4. ASSUME NEW m \in network'
      PROVE  MessageFits(m, s, c)'
  <2>1. CASE m \in network
    <3>1. connected'[s] \subseteq connected[s]
      BY <1>1, OnlyOneLeaves DEF PlaysWithout
    <3>2. m.frame <= frame[m.from] => m.frame <= frame'[m.from]
      BY <1>1, <1>3, <2>1
    <3>3. QED
      BY <1>3, <2>1, <3>1, <3>2 DEF MessageFits
  <2>2. CASE m \notin network
    <3>1. Sent(m) /\ m.from \in Players /\ m.to \in Players /\ m.about \in Players
      BY <2>2, MessagesSent DEF Sent, Message
    <3>2. ASSUME m.type = "PLAYER"
          PROVE  c \notin connected'[s] /\ m.to # c
      <4>1. UpdateDisconnectStatus(m.from, m.about)
        BY <3>1, <3>2 DEF Sent
      <4>2. m.from = s /\ m.about = c
        BY <1>1, <3>1, <4>1, RouterDisconnects
      <4>3. DisconnectPlayer(s, c) /\ c \in Silent
        BY <4>1, <4>2, DisconnectedIsSilent DEF UpdateDisconnectStatus
      <4>4. connected \in [Players -> SUBSET Players]
        BY TypeFacts DEF PaceInv
      <4>5. QED
        BY <3>1, <4>3, <4>4 DEF DisconnectPlayer, Sent, Silent
    <3>3. m.type \in {"FRAME", "SCREENOFF"} => m.frame <= frame'[m.from]
      BY <1>1, <3>1 DEF Sent
    <3>4. m.from # m.to /\ (m.type = "VOTE" => m.about # m.from)
      BY <3>1 DEF Sent, Others
    <3>5. QED
      BY <3>2, <3>3, <3>4 DEF MessageFits
  <2>3. QED
    BY <2>1, <2>2
<1>5. VotesFit(s)'
  <2>1. ASSUME NEW p \in Players, NEW a \in Players, NEW r \in Players
        PROVE  \/ manager'[p].votes[a][r] \in {manager[p].votes[a][r], 0}
               \/ r = p /\ a # p /\ manager'[p].votes[a][r] = frame[p]
               \/ r # p /\ a # r
    <3>1. VoteForPlayerDisconnect(p, a) => a # p
      BY DEF VoteForPlayerDisconnect, Others
    <3>2. \A m \in network : m.type = "VOTE" => m.from # m.to /\ m.about # m.from
      BY <1>3 DEF MessageFits
    <3>3. VotesChange(p)
      BY ManagersChange DEF ManagerChange
    <3>4. \/ manager'[p].votes[a][r] \in {manager[p].votes[a][r], 0}
          \/ /\ r = p /\ VoteForPlayerDisconnect(p, a)
             /\ manager'[p].votes[a][r] = frame[p]
          \/ \E m \in network :
               /\ m.type = "VOTE" /\ m.to = p /\ m.from = r /\ m.about = a
               /\ manager'[p].votes[a][r] = m.frame
      BY <3>3 DEF VotesChange
    <3>5. QED
      BY <3>1, <3>2, <3>4
  <2>2. ASSUME NEW p \in Players, NEW r \in Players
        PROVE  manager'[p].votes[r][r] = 0
    <3>1. manager'[p].votes[r][r] \in {manager[p].votes[r][r], 0}
      BY <2>1
    <3>2. manager[p].votes[r][r] = 0
      BY DEF TrioInv, VotesFit
    <3>3. QED
      BY <3>1, <3>2
  <2>3. ASSUME NEW r \in Players
        PROVE  manager'[s].votes[r][s] <= frame'[s]
    <3>1. /\ manager[s].votes[r][s] \in Nat /\ manager[s].votes[r][s] <= frame[s]
          /\ frame[s] \in Nat /\ frame'[s] \in Nat /\ frame[s] <= frame'[s]
      BY <1>1, <1>2 DEF TrioInv, VotesFit
    <3>2. manager'[s].votes[r][s] \in {manager[s].votes[r][s], 0, frame[s]}
      BY <2>1
    <3>3. QED
      BY <3>1, <3>2
  <2>4. QED
    BY <2>2, <2>3 DEF VotesFit
<1>6. ScreensFit'
  <2>1. ASSUME NEW p \in Players, NEW r \in Players
        PROVE  manager'[p].frames[r] <= frame'[r]
    <3>1. /\ manager[p].frames[r] <= frame[r] /\ frame[r] <= frame'[r]
          /\ manager[p].frames[r] \in Nat /\ frame[r] \in Nat /\ frame'[r] \in Nat
      BY <1>1, <1>2 DEF TrioInv, ScreensFit
    <3>2. \/ manager'[p].frames[r] \in {manager[p].frames[r], frame[r]}
          \/ \E m \in network : /\ m.type \in {"FRAME", "SCREENOFF"} /\ m.from = r
                                /\ manager'[p].frames[r] = m.frame
      BY ManagersChange DEF ManagerChange, KnownFramesChange
    <3>3. CASE manager'[p].frames[r] \in {manager[p].frames[r], frame[r]}
      BY <3>1, <3>3
    <3>4. ASSUME NEW m \in network, m.type \in {"FRAME", "SCREENOFF"}, m.from = r,
                 manager'[p].frames[r] = m.frame
          PROVE  manager'[p].frames[r] <= frame'[r]
      <4>1. m.frame <= frame[r] /\ m.frame \in Nat
        BY <1>3, <3>4 DEF MessageFits
      <4>2. QED
        BY <3>1, <3>4, <4>1
    <3>5. QED
      BY <3>2, <3>3, <3>4
  <2>2. ASSUME NEW p \in Players, manager'[p].screenOn
        PROVE  /\ frame'[p] < MaxFrame
               /\ manager'[p].notified => manager'[p].frames[p] = frame'[p]
    <3>1. /\ frame'[p] = frame[p]
          /\ manager[p].screenOn \/ (frame[p] < MaxFrame /\ ~manager'[p].notified)
          /\ manager'[p].notified => manager[p].notified \/ manager'[p].frames[p] >= frame[p]
      BY <2>2, ManagersChange DEF ManagerChange, ScreenChange
    <3>2. manager[p].screenOn =>
            /\ frame[p] < MaxFrame
            /\ manager[p].notified => manager[p].frames[p] = frame[p]
      BY DEF TrioInv, ScreensFit
    <3>3. manager'[p].frames[p] \in {manager[p].frames[p], frame[p]}
      <4>1. \A m \in network : m.from # m.to
        BY <1>3 DEF MessageFits
      <4>2. QED
        BY <4>1, ManagersChange DEF ManagerChange, KnownFramesChange
    <3>4. manager'[p].frames[p] <= frame'[p] /\ manager'[p].frames[p] \in Nat
            /\ frame[p] \in Nat
      BY <1>1, <1>2, <2>1
    <3>5. QED
      BY <3>1, <3>2, <3>3, <3>4
  <2>3. QED
    BY <2>1, <2>2 DEF ScreensFit
<1>7. QED
  BY <1>1, <1>4, <1>5, <1>6, TrioPlaysOn DEF TrioInv

(***************************************************************************)
(* What s has heard of q: q is still on the frame it told, or the message  *)
(* that it is not any more is on its way.                                  *)
(***************************************************************************)
StillSo(s, q, f) ==
  \/ f = frame[q] /\ manager[q].screenOn
  \/ \E m \in network :
       m.type = "SCREENOFF" /\ m.from = q /\ m.to = s /\ m.frame >= f

HeardInv(s, q) ==
  /\ q \in manager[s].received => StillSo(s, q, manager[s].frames[q])
  /\ \A m \in network :
       m.type = "FRAME" /\ m.from = q /\ m.to = s =>
         StillSo(s, q, m.frame) \/ manager[s].frames[q] >= m.frame

\* What is so stays so until the message that it is not has arrived.
LEMMA StillSoStep ==
  ASSUME NEW s \in Players, NEW c \in Players, NEW q \in Players, Trio(s, c, q),
         PaceInv, PaceInv', TrioInv(s, c, q), [Next]_vars,
         NEW f \in Nat, StillSo(s, q, f)
  PROVE  \/ StillSo(s, q, f)'
         \/ /\ manager'[s].frames[q] >= f
            /\ q \in manager'[s].received => manager'[s].frames[q] > f
<1>1. /\ manager[s] \in Managers /\ manager[s].frames \in [Players -> Nat]
      /\ manager \in [Players -> Managers]
      /\ status[s] = "up" /\ frame[q] \in Nat /\ s \in connected[q] /\ q \in connected[s]
  BY TypeFacts, ManagerFields DEF PaceInv, TrioInv, StillPlaying
<1>2. s # q /\ s # c /\ q # c /\ q \notin Mortal /\ s \notin Mortal
  BY PlayersAssumption DEF Trio
<1>3. CASE f = frame[q] /\ manager[q].screenOn
  <2>1. CASE frame'[q] = frame[q]
    BY <1>3, <2>1, ManagersChange DEF ManagerChange, ScreenChange, StillSo
  <2>2. CASE frame'[q] # frame[q]
    <3>1. RunFrame(q)
      BY <2>2, StatusAndFrames
    <3>2. Send("SCREENOFF", q, Others(q), frame[q], q) \subseteq network'
      BY <1>3, <3>1 DEF RunFrame
    <3>3. PICK m : m = [type |-> "SCREENOFF", from |-> q, to |-> s, frame |-> frame[q],
                        about |-> q]
      OBVIOUS
    <3>4. m \in network'
      BY <1>1, <1>2, <3>2, <3>3 DEF Send, Others
    <3>5. m.type = "SCREENOFF" /\ m.from = q /\ m.to = s /\ m.frame >= f
      BY <1>1, <1>3, <3>3
    <3>6. QED
      BY <3>4, <3>5 DEF StillSo
  <2>3. QED
    BY <2>1, <2>2
<1>4. ASSUME NEW m \in network, m.type = "SCREENOFF", m.from = q, m.to = s, m.frame >= f
      PROVE  \/ StillSo(s, q, f)'
             \/ /\ manager'[s].frames[q] >= f
                /\ q \in manager'[s].received => manager'[s].frames[q] > f
  <2>1. CASE m \in network'
    BY <1>4, <2>1 DEF StillSo
  <2>2. CASE m \notin network'
    <3>1. PICK remaining : Process(s, m, remaining)
      BY <1>2, <1>4, <2>2, MessagesLost
    <3>2. m.frame \in Nat /\ Accepts(s, m)
      BY <1>1, <1>4, TypeFacts DEF Accepts, PaceInv
    <3>3. PICK new : new = DisconnectScreenOff(manager[s], q, m.frame)
      OBVIOUS
    <3>4. manager' = [manager EXCEPT ![s] = new]
      BY <1>4, <3>1, <3>2, <3>3 DEF Process
    <3>5. manager'[s] = new
      BY <1>1, <3>4
    <3>6. /\ m.frame < manager[s].frames[q] => new = manager[s]
          /\ manager[s].frames[q] <= m.frame =>
               new.frames[q] = m.frame /\ q \notin new.received
      BY <1>1, <3>2, <3>3, ScreenOffNoted
    <3>7. manager[s].frames[q] \in Nat
      BY <1>1
    <3>8. QED
      BY <1>4, <3>2, <3>5, <3>6, <3>7
  <2>3. QED
    BY <2>1, <2>2
<1>5. QED
  BY <1>3, <1>4 DEF StillSo

\* HeardInv is kept.
LEMMA HeardStep ==
  ASSUME NEW s \in Players, NEW c \in Players, NEW q \in Players, Trio(s, c, q),
         PaceInv, PaceInv', TrioInv(s, c, q), HeardInv(s, q), [Next]_vars
  PROVE  HeardInv(s, q)'
<1>1. /\ manager[s].frames[q] \in Nat /\ manager'[s].frames[q] \in Nat
      /\ frame[q] \in Nat
      /\ \A m \in network : m.frame \in Nat
  BY TypeFacts, ManagerFields DEF PaceInv, TypeOK
<1>2. s # q
  BY PlayersAssumption DEF Trio
<1>3. \/ /\ manager'[s].frames[q] = manager[s].frames[q]
         /\ q \in manager'[s].received <=> q \in manager[s].received
      \/ \E m \in network :
           /\ m.to = s /\ m.from = q /\ manager'[s].frames[q] = m.frame
           /\ \/ m.type = "FRAME" /\ manager[s].frames[q] < m.frame
              \/ manager[s].frames[q] <= m.frame /\ q \notin manager'[s].received
  BY <1>2, ManagersChange DEF ManagerChange, KnownFramesChange
<1>4. manager'[s].frames[q] >= manager[s].frames[q]
  BY <1>1, <1>3
<1>5. ASSUME NEW f \in Nat, StillSo(s, q, f)
      PROVE  \/ StillSo(s, q, f)'
             \/ /\ manager'[s].frames[q] >= f
                /\ q \in manager'[s].received => manager'[s].frames[q] > f
  BY <1>5, StillSoStep
<1>6. ASSUME q \in manager'[s].received
      PROVE  StillSo(s, q, manager[s].frames[q])'
  <2>1. PICK f : f = manager'[s].frames[q]
    OBVIOUS
  <2>2. StillSo(s, q, f)
    <3>1. CASE f = manager[s].frames[q] /\ q \in manager[s].received
      BY <3>1 DEF HeardInv
    <3>2. ASSUME NEW m \in network, m.type = "FRAME", m.to = s, m.from = q,
                 f = m.frame, manager[s].frames[q] < m.frame
          PROVE  StillSo(s, q, f)
      BY <1>1, <3>2 DEF HeardInv
    <3>3. QED
      BY <1>3, <1>6, <2>1, <3>1, <3>2
  <2>3. f \in Nat /\ ~(manager'[s].frames[q] > f)
    BY <1>1, <2>1
  <2>4. StillSo(s, q, f)'
    BY <1>5, <1>6, <2>2, <2>3
  <2>5. QED
    BY <2>1, <2>4 DEF StillSo
<1>7. ASSUME NEW m \in network', m.type = "FRAME", m.from = q, m.to = s
      PROVE  StillSo(s, q, m.frame)' \/ manager'[s].frames[q] >= m.frame
  <2>1. CASE m \in network
    BY <1>1, <1>4, <1>5, <1>7, <2>1 DEF HeardInv
  <2>2. CASE m \notin network
    <3>1. m.frame = frame[q] /\ manager'[q].screenOn /\ frame' = frame
      BY <1>7, <2>2, MessagesSent DEF Sent
    <3>2. QED
      BY <3>1 DEF StillSo
  <2>3. QED
    BY <2>1, <2>2
<1>8. QED
  BY <1>6, <1>7 DEF HeardInv

(***************************************************************************)
(* s waits for c: once s has timed c out or voted for him on this frame,   *)
(* nothing more of c comes to q.  Either q cannot get beyond the frame of  *)
(* s, or it is ahead and s does not take it for one on its own frame.      *)
(***************************************************************************)
Waits(s, c) ==
  c \in manager[s].timedOut \/ manager[s].votes[c][s] = frame[s]

CommandsUpTo(c, q, f) ==
  \A m \in network : m.type = "COMMANDS" /\ m.about = c /\ m.to = q => m.frame <= f

Stuck(s, c, q) ==
  /\ status[c] = "silent" /\ CommandsUpTo(c, q, frame[s])
  /\ \/ frame[q] <= frame[s] /\ complete[q][c] <= frame[s]
     \/ /\ frame[q] > frame[s]
        /\ ~(q \in manager[s].received /\ manager[s].frames[q] <= frame[s])
        /\ \A m \in network :
             m.type = "FRAME" /\ m.from = q /\ m.to = s => m.frame > frame[s]

StuckInv(s, c, q) == c \in connected[s] /\ Waits(s, c) => Stuck(s, c, q)

\* Once s has c disconnected, q waits for c on the same frame.
LeftInv(s, c, q) ==
  /\ \A p, r \in Players : disconnectedOn[p][r] # 0 => r = c /\ p \in {s, q}
  /\ c \in connected[s] => c \in connected[q] /\ disconnectedOn[s][c] = 0
  /\ c \in connected[q] => disconnectedOn[q][c] = 0
  /\ c \notin connected[s] =>
       /\ status[c] = "silent"
       /\ c \notin connected[q] => disconnectedOn[q][c] = disconnectedOn[s][c]
       /\ c \in connected[q] =>
            /\ frame[q] = disconnectedOn[s][c]
            /\ complete[q][c] <= frame[q]
            /\ CommandsUpTo(c, q, frame[q])

\* What holds when nothing is on its way: s and q wait for commands of c.
LEMMA WaitingIsStuck ==
  ASSUME NEW s \in Players, NEW c \in Players, NEW q \in Players, Trio(s, c, q),
         PaceInv, TrioInv(s, c, q), HeardInv(s, q), NothingOnItsWay,
         manager[s].screenOn, status[c] = "silent"
  PROVE  Stuck(s, c, q)
<1>1. /\ frame \in [Players -> Nat] /\ complete \in [Players -> [Players -> Nat]]
      /\ RunAhead \in Nat \ {0} /\ network = {} /\ connected[s] \in SUBSET Players
  BY TypeFacts, FramesAssumption DEF PaceInv, NothingOnItsWay
<1>2. /\ s # q /\ s # c /\ q # c
      /\ s \in connected[s] /\ q \in connected[s] /\ s \in connected[q]
      /\ status[s] = "up" /\ status[q] = "up"
  BY PlayersAssumption DEF Trio, TrioInv, StillPlaying
<1>3. CASE frame[q] <= frame[s]
  <2>1. frame[q] < MaxFrame
    <3>1. frame[s] < MaxFrame
      BY DEF TrioInv, ScreensFit
    <3>2. frame[q] \in Nat /\ frame[s] \in Nat /\ MaxFrame \in Nat
      BY <1>1, FramesAssumption
    <3>3. QED
      BY <1>3, <3>1, <3>2
  <2>2. PICK r \in Others(q) : ~(frame[q] < complete[q][r])
    BY <1>2, <2>1 DEF NothingOnItsWay, HasCommands
  <2>3. ASSUME r = s
        PROVE  FALSE
    <3>1. complete[q][s] < Announced(s)
      BY <1>1, <1>3, <2>2, <2>3 DEF Announced
    <3>2. PacketRouter(s) = s
      BY <1>1, <1>2, LeastPlayer DEF PacketRouter
    <3>3. OnItsWay(q, s)
      BY <1>2, <3>1, <3>2 DEF OnItsWay, Others
    <3>4. QED
      BY <3>3 DEF NothingOnItsWay
  <2>4. r = c
    BY <2>2, <2>3, TypeFacts DEF Trio, Others, PaceInv
  <2>5. complete[q][c] \in Nat /\ frame[q] \in Nat /\ frame[s] \in Nat
    BY <1>1
  <2>6. complete[q][c] <= frame[s]
    BY <1>3, <2>2, <2>4, <2>5
  <2>7. QED
    BY <1>1, <1>3, <2>6 DEF Stuck, CommandsUpTo
<1>4. CASE frame[q] > frame[s]
  <2>1. q \in manager[s].received => manager[s].frames[q] = frame[q]
    BY <1>1 DEF HeardInv, StillSo
  <2>2. frame[q] \in Nat /\ frame[s] \in Nat
    BY <1>1
  <2>3. QED
    BY <1>1, <1>4, <2>1, <2>2 DEF Stuck, CommandsUpTo
<1>5. QED
  BY <1>1, <1>3, <1>4

\* No more commands of the silent c are sent to q than s had.
LEMMA CommandsStep ==
  ASSUME NEW s \in Players, NEW c \in Players, NEW q \in Players, Trio(s, c, q),
         PaceInv, TrioInv(s, c, q), [Next]_vars, status[c] = "silent", NEW f \in Nat,
         CommandsUpTo(c, q, f), c \in connected[s] => frame[s] <= f
  PROVE  CommandsUpTo(c, q, f)' /\ (complete'[q][c] = complete[q][c] \/ complete'[q][c] <= f)
<1>1. ASSUME NEW m \in network', m.type = "COMMANDS", m.about = c, m.to = q
      PROVE  m.frame <= f
  <2>1. CASE m \in network
    BY <1>1, <2>1 DEF CommandsUpTo
  <2>2. CASE m \notin network
    <3>1. Sent(m)
      BY <2>2, MessagesSent
    <3>2. m.from \in Players /\ m.from # q /\ m.from # c
      BY <1>1, <3>1 DEF Sent, Message, Others
    <3>3. m.from = s
      BY <3>2 DEF Trio
    <3>4. QED
      BY <1>1, <3>1, <3>3 DEF Sent
  <2>3. QED
    BY <2>1, <2>2
<1>2. ~OnItsWay(q, c)
  BY DEF OnItsWay, Trio
<1>3. complete'[q][c] = complete[q][c] \/ complete'[q][c] <= f
  BY <1>2, CommandsCome DEF CommandsUpTo
<1>4. QED
  BY <1>1, <1>3 DEF CommandsUpTo

\* As long as s does not go on, it stays stuck.
LEMMA StuckStays ==
  ASSUME NEW s \in Players, NEW c \in Players, NEW q \in Players, Trio(s, c, q),
         PaceInv, PaceInv', TrioInv(s, c, q), [Next]_vars, Stuck(s, c, q),
         c \in connected[s], c \in connected[q], frame'[s] = frame[s]
  PROVE  Stuck(s, c, q)'
<1>1. /\ frame[s] \in Nat /\ frame[q] \in Nat /\ frame'[q] \in Nat
      /\ complete[q][c] \in Nat /\ complete'[q][c] \in Nat
      /\ frame'[q] >= frame[q] /\ s # q /\ c # q
      /\ manager[s].frames[q] \in Nat /\ manager'[s].frames[q] \in Nat
      /\ \A m \in network : m.frame \in Nat
  <2>1. frame'[q] >= frame[q] /\ s # q /\ c # q
    BY StatusAndFrames, PlayersAssumption DEF Trio
  <2>2. /\ frame[s] \in Nat /\ frame[q] \in Nat /\ complete[q][c] \in Nat
        /\ manager[s] \in Managers /\ \A m \in network : m.frame \in Nat
    BY TypeFacts DEF PaceInv
  <2>3. frame'[q] \in Nat /\ complete'[q][c] \in Nat /\ manager'[s] \in Managers
    BY DEF PaceInv, TypeOK
  <2>4. manager[s].frames[q] \in Nat /\ manager'[s].frames[q] \in Nat
    BY <2>2, <2>3, ManagerFields
  <2>5. QED
    BY <2>1, <2>2, <2>3, <2>4
<1>2. status'[c] = "silent"
  BY StatusAndFrames DEF Stuck
<1>3. /\ CommandsUpTo(c, q, frame[s])'
      /\ complete'[q][c] = complete[q][c] \/ complete'[q][c] <= frame[s]
  <2>1. PICK f \in Nat : f = frame[s]
    BY <1>1
  <2>2. CommandsUpTo(c, q, f)' /\ (complete'[q][c] = complete[q][c] \/ complete'[q][c] <= f)
    <3>1. CommandsUpTo(c, q, f) /\ status[c] = "silent" /\ frame[s] <= f
      BY <2>1 DEF Stuck
    <3>2. QED
      BY <3>1, CommandsStep
  <2>3. QED
    BY <2>1, <2>2 DEF CommandsUpTo
<1>4. CASE frame[q] <= frame[s] /\ complete[q][c] <= frame[s]
  <2>1. RunFrame(q) => frame[q] < complete[q][c]
    BY <1>1 DEF RunFrame, HasCommands, Others
  <2>2. frame'[q] <= frame[s]
    BY <1>1, <1>4, <2>1, StatusAndFrames
  <2>3. complete'[q][c] <= frame[s]
    BY <1>3, <1>4
  <2>4. QED
    BY <1>2, <1>3, <2>2, <2>3 DEF Stuck
<1>5. CASE /\ frame[q] > frame[s]
           /\ ~(q \in manager[s].received /\ manager[s].frames[q] <= frame[s])
           /\ \A m \in network :
                m.type = "FRAME" /\ m.from = q /\ m.to = s => m.frame > frame[s]
  <2>1. frame'[q] > frame[s]
    BY <1>1, <1>5
  <2>2. ~(q \in manager'[s].received /\ manager'[s].frames[q] <= frame[s])
    <3>1. \/ /\ manager'[s].frames[q] = manager[s].frames[q]
             /\ q \in manager'[s].received <=> q \in manager[s].received
          \/ manager'[s].frames[q] > frame[s]
          \/ q \notin manager'[s].received
      BY <1>1, <1>5, ManagersChange DEF ManagerChange, KnownFramesChange
    <3>2. QED
      BY <1>1, <1>5, <3>1
  <2>3. ASSUME NEW m \in network', m.type = "FRAME", m.from = q, m.to = s
        PROVE  m.frame > frame[s]
    <3>1. CASE m \in network
      BY <1>5, <2>3, <3>1
    <3>2. CASE m \notin network
      BY <1>5, <2>3, <3>2, MessagesSent DEF Sent
    <3>3. QED
      BY <3>1, <3>2
  <2>4. QED
    BY <1>2, <1>3, <2>1, <2>2, <2>3 DEF Stuck
<1>6. QED
  BY <1>4, <1>5 DEF Stuck

\* StuckInv is kept.
LEMMA StuckStep ==
  ASSUME NEW s \in Players, NEW c \in Players, NEW q \in Players, Trio(s, c, q),
         PaceInv, PaceInv', TrioInv(s, c, q), HeardInv(s, q), LeftInv(s, c, q),
         StuckInv(s, c, q), [Next]_vars
  PROVE  StuckInv(s, c, q)'
<1> SUFFICES ASSUME c \in connected'[s], Waits(s, c)'
             PROVE  Stuck(s, c, q)'
  BY DEF StuckInv
<1>1. /\ frame[s] \in Nat /\ frame[s] > 0
      /\ manager[s].votes[c][s] \in Nat /\ manager[s].votes[c][s] <= frame[s]
      /\ frame'[s] = frame[s] \/ frame'[s] = frame[s] + 1
  BY TypeFacts, ManagerFields, FramesAssumption, StatusAndFrames
  DEF PaceInv, TrioInv, VotesFit
<1>2. c \in connected[s] /\ c \in connected[q]
  <2>1. connected'[s] \subseteq connected[s]
    BY OnlyOneLeaves DEF TrioInv, PlaysWithout
  <2>2. QED
    BY <2>1 DEF LeftInv
<1>3. ASSUME TimeOut(s, c) \/ VoteForPlayerDisconnect(s, c)
      PROVE  Stuck(s, c, q)
  BY <1>3, WaitingIsStuck DEF TimeOut, VoteForPlayerDisconnect
<1>4. ASSUME frame'[s] = frame[s], Stuck(s, c, q)
      PROVE  Stuck(s, c, q)'
  BY <1>2, <1>4, StuckStays
<1>5. CASE c \in manager'[s].timedOut
  <2>1. TimeOut(s, c) \/ (c \in manager[s].timedOut /\ frame'[s] = frame[s])
    BY <1>5, ManagersChange DEF ManagerChange, TimeoutsChange
  <2>2. frame'[s] = frame[s] /\ Stuck(s, c, q)
    BY <1>2, <1>3, <2>1 DEF TimeOut, StuckInv, Waits
  <2>3. QED
    BY <1>4, <2>2
<1>6. CASE manager'[s].votes[c][s] = frame'[s]
  <2>1. \/ manager'[s].votes[c][s] \in {manager[s].votes[c][s], 0}
        \/ VoteForPlayerDisconnect(s, c)
    <3>1. \A m \in network : m.from # m.to
      BY DEF TrioInv, MessageFits
    <3>2. VotesChange(s)
      BY ManagersChange DEF ManagerChange
    <3>3. \/ manager'[s].votes[c][s] \in {manager[s].votes[c][s], 0}
          \/ /\ s = s /\ VoteForPlayerDisconnect(s, c)
             /\ manager'[s].votes[c][s] = frame[s]
          \/ \E m \in network :
               /\ m.type = "VOTE" /\ m.to = s /\ m.from = s /\ m.about = c
               /\ manager'[s].votes[c][s] = m.frame
      BY <3>2 DEF VotesChange
    <3>4. QED
      BY <3>1, <3>3
  <2>2. VoteForPlayerDisconnect(s, c) => frame'[s] = frame[s]
    BY DEF VoteForPlayerDisconnect
  <2>3. frame'[s] = frame[s] /\ Stuck(s, c, q)
    <3>1. CASE VoteForPlayerDisconnect(s, c)
      BY <1>3, <2>2, <3>1
    <3>2. CASE ~VoteForPlayerDisconnect(s, c)
      <4>1. manager'[s].votes[c][s] \in {manager[s].votes[c][s], 0}
        BY <2>1, <3>2
      <4>2. frame'[s] = frame[s] /\ manager[s].votes[c][s] = frame[s]
        BY <1>1, <1>6, <4>1
      <4>3. QED
        BY <1>2, <4>2 DEF StuckInv, Waits
    <3>3. QED
      BY <3>1, <3>2
  <2>4. QED
    BY <1>4, <2>3
<1>7. QED
  BY <1>5, <1>6 DEF Waits

\* c is voted out by both of the others, s himself is one of them.
LEMMA BothVoted ==
  ASSUME NEW s \in Players, NEW c \in Players, NEW q \in Players, Trio(s, c, q),
         PaceInv, TrioInv(s, c, q), c \in connected[s], IsPlayerVotedOut(s, c)
  PROVE  manager[s].votes[c][s] = frame[s] /\ manager[s].votes[c][q] = frame[s]
<1> DEFINE voters == {r \in Players : manager[s].votes[c][r] = frame[s]}
<1>1. s # c /\ s # q /\ c # q /\ frame[s] > 0
  BY TypeFacts, FramesAssumption, PlayersAssumption DEF PaceInv, Trio
<1> PICK two : two = {s} \cup {c}
  OBVIOUS
<1>2. connected[s] = two \cup {q} /\ c \notin {s} /\ q \notin two
  BY <1>1, TypeFacts DEF PaceInv, TrioInv, StillPlaying, Trio
<1>3. IsFiniteSet({s}) /\ Cardinality({s}) = 1 /\ IsFiniteSet({q}) /\ Cardinality({q}) = 1
  BY FS_Singleton
<1>4. IsFiniteSet(two) /\ Cardinality(two) = Cardinality({s}) + 1
  <2>1. /\ IsFiniteSet({s} \cup {c})
        /\ Cardinality({s} \cup {c}) = Cardinality({s}) + 1
    BY <1>2, <1>3, FS_AddElement
  <2>2. QED
    BY <2>1
<1>5. Cardinality(connected[s]) = 3
  <2>1. Cardinality(two \cup {q}) = Cardinality(two) + 1
    BY <1>2, <1>4, FS_AddElement
  <2>2. QED
    BY <1>2, <1>3, <1>4, <2>1
<1>6. Cardinality(voters) >= 2
  BY <1>5 DEF IsPlayerVotedOut, CountVotesForPlayer
<1>7. c \notin voters
  BY <1>1 DEF TrioInv, VotesFit
<1>8. ASSUME NEW r \in {s, q}, voters \in SUBSET {r}
      PROVE  FALSE
  <2>1. Cardinality(voters) <= 1 /\ Cardinality(voters) \in Nat
    BY <1>3, <1>8, FS_Subset, FS_CardinalityType
  <2>2. QED
    BY <1>6, <2>1
<1>9. s \in voters /\ q \in voters
  BY <1>7, <1>8 DEF Trio
<1>10. QED
  BY <1>9

\* When s has c disconnected, q waits on the same frame.
LEMMA DisconnectedTogether ==
  ASSUME NEW s \in Players, NEW c \in Players, NEW q \in Players, Trio(s, c, q),
         PaceInv, TrioInv(s, c, q), StuckInv(s, c, q), UpdateDisconnectStatus(s, c)
  PROVE  /\ frame[q] = frame[s] /\ complete[q][c] <= frame[q]
         /\ CommandsUpTo(c, q, frame[q])
<1>1. /\ frame[s] \in Nat /\ frame[q] \in Nat /\ complete[q][c] \in Nat
      /\ s # q /\ q # c
  BY TypeFacts, PlayersAssumption DEF PaceInv, Trio
<1>2. c \in connected[s]
  BY DEF UpdateDisconnectStatus, Others
<1>3. Waits(s, c)
  BY <1>2, BothVoted DEF UpdateDisconnectStatus, Waits
<1>4. Stuck(s, c, q)
  BY <1>2, <1>3 DEF StuckInv
<1>5. q \in Others(s) /\ IsPlayerInGame(s, q)
  <2>1. q \in Others(s) \ {c}
    BY <1>1 DEF TrioInv, StillPlaying, Others
  <2>2. QED
    BY <2>1, OthersAreInGame DEF TrioInv
<1>6. q \in manager[s].received /\ manager[s].frames[q] = frame[s]
  BY <1>5 DEF UpdateDisconnectStatus, AllOnSameFrame, TrioInv, ScreensFit
<1>7. frame[s] <= frame[q]
  BY <1>6 DEF TrioInv, ScreensFit
<1>8. frame[q] <= frame[s] /\ complete[q][c] <= frame[s]
  BY <1>1, <1>4, <1>6 DEF Stuck
<1>9. frame[q] = frame[s]
  BY <1>1, <1>7, <1>8
<1>10. QED
  BY <1>4, <1>8, <1>9 DEF Stuck

\* LeftInv is kept.
LEMMA LeftStep ==
  ASSUME NEW s \in Players, NEW c \in Players, NEW q \in Players, Trio(s, c, q),
         PaceInv, PaceInv', TrioInv(s, c, q), StuckInv(s, c, q), LeftInv(s, c, q),
         [Next]_vars
  PROVE  LeftInv(s, c, q)'
<1>1. /\ frame[s] \in Nat /\ frame[q] \in Nat /\ complete[q][c] \in Nat
      /\ s # q /\ q # c /\ s # c
  BY TypeFacts, PlayersAssumption DEF PaceInv, Trio
<1>2. ASSUME NEW p \in Players
      PROVE  \/ connected'[p] = connected[p] /\ disconnectedOn'[p] = disconnectedOn[p]
             \/ /\ PlaysWithout(p, c)
                /\ \/ p = s /\ UpdateDisconnectStatus(s, c)
                   \/ c \notin connected[s]
  <2>1. \A m \in network : m.type = "PLAYER" => c \notin connected[s]
    BY DEF TrioInv, MessageFits
  <2>2. QED
    BY <2>1, OnlyOneLeaves DEF TrioInv
<1>3. ASSUME NEW p \in Players, NEW r \in Players, disconnectedOn'[p][r] # 0
      PROVE  r = c /\ p \in {s, q}
  <2>1. CASE disconnectedOn[p][r] # 0
    BY <2>1 DEF LeftInv
  <2>2. CASE disconnectedOn[p][r] = 0
    BY <1>2, <1>3, <2>2 DEF PlaysWithout, Trio
  <2>3. QED
    BY <2>1, <2>2
<1>4. c \in connected'[s] => c \in connected'[q] /\ disconnectedOn'[s][c] = 0
  BY <1>1, <1>2 DEF LeftInv, PlaysWithout
<1>5. c \in connected'[q] => disconnectedOn'[q][c] = 0
  BY <1>2 DEF LeftInv, PlaysWithout
<1>6. ASSUME c \in connected[s], c \notin connected'[s]
      PROVE  /\ status'[c] = "silent" /\ c \in connected'[q]
             /\ frame'[q] = disconnectedOn'[s][c] /\ complete'[q][c] <= frame'[q]
             /\ CommandsUpTo(c, q, frame[q])'
  <2>1. PlaysWithout(s, c) /\ UpdateDisconnectStatus(s, c)
    BY <1>2, <1>6
  <2>2. /\ frame[q] = frame[s] /\ complete[q][c] <= frame[q]
        /\ CommandsUpTo(c, q, frame[q])
    BY <2>1, DisconnectedTogether
  <2>3. status[c] = "silent" /\ status' = status /\ complete' = complete /\ frame' = frame
    BY <2>1 DEF PlaysWithout, Silent, UpdateDisconnectStatus
  <2>4. c \in connected'[q]
    <3>1. connected' = [connected EXCEPT ![s] = @ \ {c}]
      BY <2>1 DEF UpdateDisconnectStatus, DisconnectPlayer
    <3>2. c \in connected[q] /\ connected \in [Players -> SUBSET Players]
      BY <1>6, TypeFacts DEF LeftInv, PaceInv
    <3>3. QED
      BY <1>1, <3>1, <3>2
  <2>5. disconnectedOn'[s][c] = frame[s]
    BY <1>6, <2>1 DEF PlaysWithout
  <2>6. PICK f \in Nat : f = frame[q]
    BY <1>1
  <2>7. CommandsUpTo(c, q, f)'
    <3>1. CommandsUpTo(c, q, f) /\ frame[s] <= f
      BY <1>1, <2>2, <2>6
    <3>2. QED
      BY <2>3, <3>1, CommandsStep
  <2>8. CommandsUpTo(c, q, frame[q])'
    BY <2>3, <2>6, <2>7 DEF CommandsUpTo
  <2>9. QED
    BY <2>2, <2>3, <2>4, <2>5, <2>8
<1>7. ASSUME c \notin connected[s]
      PROVE  /\ status'[c] = "silent"
             /\ c \notin connected'[q] => disconnectedOn'[q][c] = disconnectedOn'[s][c]
             /\ c \in connected'[q] =>
                  /\ frame'[q] = disconnectedOn'[s][c]
                  /\ complete'[q][c] <= frame'[q]
                  /\ CommandsUpTo(c, q, frame[q])'
  <2>1. status[c] = "silent" /\ status'[c] = "silent"
    BY <1>7, StatusAndFrames DEF LeftInv
  <2>2. disconnectedOn'[s][c] = disconnectedOn[s][c]
    BY <1>2, <1>7 DEF PlaysWithout
  <2>3. CASE c \notin connected[q]
    <3>1. c \notin connected'[q] /\ disconnectedOn'[q][c] = disconnectedOn[q][c]
      BY <1>2, <2>3 DEF PlaysWithout
    <3>2. QED
      BY <1>7, <2>1, <2>2, <2>3, <3>1 DEF LeftInv
  <2>4. CASE c \in connected[q]
    <3>1. /\ frame[q] = disconnectedOn[s][c] /\ complete[q][c] <= frame[q]
          /\ CommandsUpTo(c, q, frame[q])
      BY <1>7, <2>4 DEF LeftInv
    <3>2. c \notin connected'[q] => disconnectedOn'[q][c] = frame[q]
      BY <1>2, <2>4 DEF PlaysWithout
    <3>3. frame'[q] = frame[q]
      <4>1. RunFrame(q) => frame[q] < complete[q][c]
        BY <1>1, <2>4 DEF RunFrame, HasCommands, Others
      <4>2. QED
        BY <1>1, <3>1, <4>1, StatusAndFrames
    <3>4. PICK f \in Nat : f = frame[q]
      BY <1>1
    <3>5. CommandsUpTo(c, q, f)' /\ (complete'[q][c] = complete[q][c] \/ complete'[q][c] <= f)
      BY <1>7, <2>1, <3>1, <3>4, CommandsStep
    <3>6. CommandsUpTo(c, q, frame[q])' /\ complete'[q][c] <= frame'[q]
      BY <3>1, <3>3, <3>4, <3>5 DEF CommandsUpTo
    <3>7. QED
      BY <2>1, <2>2, <3>1, <3>2, <3>3, <3>6
  <2>5. QED
    BY <2>3, <2>4
<1>8. QED
  BY <1>3, <1>4, <1>5, <1>6, <1>7 DEF LeftInv

(***************************************************************************)
(* What s knows of q's vote against c is q's vote while q stays on the     *)
(* frame it voted on.                                                      *)
(***************************************************************************)
VoteStands(c, q, f) ==
  f <= frame[q] /\ (f = frame[q] => manager[q].votes[c][q] = f)

VoteInv(s, c, q) ==
  /\ \A m \in network :
       m.type = "VOTE" /\ m.from = q /\ m.about = c => VoteStands(c, q, m.frame)
  /\ manager[s].votes[c][q] # 0 => VoteStands(c, q, manager[s].votes[c][q])

\* VoteInv is kept.
LEMMA VoteStep ==
  ASSUME NEW s \in Players, NEW c \in Players, NEW q \in Players, Trio(s, c, q),
         PaceInv, TrioInv(s, c, q), VoteInv(s, c, q), [Next]_vars
  PROVE  VoteInv(s, c, q)'
<1>1. /\ frame[q] \in Nat /\ s # q
      /\ \A m \in network : m.frame \in Nat /\ m.from # m.to
      /\ manager[s].votes[c][q] \in Nat
  BY TypeFacts, ManagerFields, PlayersAssumption
  DEF PaceInv, Trio, TrioInv, MessageFits
<1>2. ASSUME NEW f \in Nat, VoteStands(c, q, f)
      PROVE  VoteStands(c, q, f)'
  <2>1. CASE frame'[q] = frame[q]
    BY <1>1, <1>2, <2>1, ManagersChange DEF VoteStands, ManagerChange, OwnVotesStay
  <2>2. CASE frame'[q] = frame[q] + 1
    BY <1>1, <1>2, <2>2 DEF VoteStands
  <2>3. QED
    BY <2>1, <2>2, StatusAndFrames
<1>3. ASSUME NEW m \in network', m.type = "VOTE", m.from = q, m.about = c
      PROVE  VoteStands(c, q, m.frame)'
  <2>1. CASE m \in network
    BY <1>1, <1>2, <1>3, <2>1 DEF VoteInv
  <2>2. CASE m \notin network
    <3>1. /\ frame' = frame /\ m.frame = frame[q]
          /\ manager'[q].votes[c][q] = m.frame
      BY <1>3, <2>2, MessagesSent DEF Sent
    <3>2. QED
      BY <1>1, <3>1 DEF VoteStands
  <2>3. QED
    BY <2>1, <2>2
<1>4. ASSUME manager'[s].votes[c][q] # 0
      PROVE  VoteStands(c, q, manager[s].votes[c][q])'
  <2>1. PICK f : f = manager'[s].votes[c][q]
    OBVIOUS
  <2>2. f \in Nat /\ VoteStands(c, q, f)
    <3>1. \/ f = manager[s].votes[c][q]
          \/ \E m \in network : /\ m.type = "VOTE" /\ m.from = q /\ m.about = c
                                /\ f = m.frame
      <4>1. VotesChange(s)
        BY ManagersChange DEF ManagerChange
      <4>2. QED
        BY <1>1, <1>4, <2>1, <4>1 DEF VotesChange
    <3>2. QED
      BY <1>1, <1>4, <2>1, <3>1 DEF VoteInv
  <2>3. VoteStands(c, q, f)'
    BY <1>2, <2>2
  <2>4. QED
    BY <2>1, <2>3 DEF VoteStands
<1>5. QED
  BY <1>3, <1>4 DEF VoteInv

\* The inductive invariant of these games, given PaceInv.
TrioInvariant(s, c, q) ==
  /\ TrioInv(s, c, q) /\ HeardInv(s, q) /\ StuckInv(s, c, q)
  /\ LeftInv(s, c, q) /\ VoteInv(s, c, q)

\* It holds to begin with, and every step keeps it.
LEMMA GamesOfThree ==
  ASSUME NEW s \in Players, NEW c \in Players, NEW q \in Players, Trio(s, c, q)
  PROVE  Spec => []TrioInvariant(s, c, q)
<1>1. Init => TrioInvariant(s, c, q)
  <2> SUFFICES ASSUME Init PROVE TrioInvariant(s, c, q)
    OBVIOUS
  <2>1. s # c /\ s # q /\ FirstFrame \in Nat
    BY PlayersAssumption, FramesAssumption DEF Trio
  <2>2. TrioInv(s, c, q)
    BY <2>1, FramesAssumption
    DEF Trio, Init, TrioInv, StillPlaying, VotesFit, ScreensFit, MessageFits
  <2>3. HeardInv(s, q)
    BY DEF Init, HeardInv
  <2>4. StuckInv(s, c, q)
    BY FramesAssumption DEF Init, StuckInv, Waits
  <2>5. LeftInv(s, c, q) /\ VoteInv(s, c, q)
    BY DEF Init, LeftInv, VoteInv
  <2>6. QED
    BY <2>2, <2>3, <2>4, <2>5 DEF TrioInvariant
<1>2. PaceInv /\ PaceInv' /\ TrioInvariant(s, c, q) /\ [Next]_vars
        => TrioInvariant(s, c, q)'
  BY TrioStep, HeardStep, StuckStep, LeftStep, VoteStep DEF TrioInvariant
<1>3. QED
  BY <1>1, <1>2, PaceInvariant, PTL DEF Spec

(***************************************************************************)
(* Whoever plays on disconnects the player who stopped on the same frame,  *)
(* in a game of three of whom only a client, who is not the packet router, *)
(* may stop: whatever the run-ahead, the frames, the time he stops and the *)
(* messages that are lost with him or repeated.                            *)
(***************************************************************************)
THEOREM SameFrameInGamesOfThree ==
  ASSUME NEW s \in Players, NEW c \in Players, NEW q \in Players, Trio(s, c, q)
  PROVE  Spec => []SameFrameEverywhere
<1>1. TrioInvariant(s, c, q) => SameFrameEverywhere
  BY DEF TrioInvariant, LeftInv, SameFrameEverywhere
<1>2. Spec => []TrioInvariant(s, c, q)
  BY GamesOfThree
<1>3. QED
  BY <1>1, <1>2, PTL

\* In such a game votes are counted for the frame both are on only: whoever is
\* voted out is voted out by both, and neither has taken his vote back.
THEOREM VotedOutInGamesOfThree ==
  ASSUME NEW s \in Players, NEW c \in Players, NEW o \in Players, Trio(s, c, o)
  PROVE  Spec => VotedOutByTheOthers
<1>1. ASSUME PaceInv, TrioInvariant(s, c, o),
             NEW p \in Players, NEW x \in Players, UpdateDisconnectStatus(p, x),
             x \notin manager[p].timedOut, NEW r \in Others(p) \ {x}
      PROVE  frame[r] = frame[p] /\ manager[r].votes[x][r] = frame[p]
  <2>1. /\ TrioInv(s, c, o) /\ StillPlaying(s, o) /\ StuckInv(s, c, o)
        /\ VoteInv(s, c, o)
    BY <1>1 DEF TrioInvariant, TrioInv
  <2>2. p = s /\ x = c
    BY <1>1, <2>1, RouterDisconnects
  <2>3. r = o
    BY <1>1, <2>2, TypeFacts DEF Others, Trio, PaceInv
  <2>4. frame[o] = frame[s]
    BY <1>1, <2>1, <2>2, DisconnectedTogether
  <2>5. manager[s].votes[c][o] = frame[s]
    BY <1>1, <2>1, <2>2, BothVoted DEF UpdateDisconnectStatus, Others
  <2>6. frame[s] # 0
    BY <1>1, TypeFacts, FramesAssumption DEF PaceInv
  <2>7. manager[o].votes[c][o] = frame[s]
    BY <2>1, <2>4, <2>5, <2>6 DEF VoteInv, VoteStands
  <2>8. QED
    BY <2>2, <2>3, <2>4, <2>7
<1>2. PaceInv /\ TrioInvariant(s, c, o) =>
        [\A p, q \in Players :
           UpdateDisconnectStatus(p, q) /\ q \notin manager[p].timedOut =>
             \A r \in Others(p) \ {q} :
               IsPlayerInGame(p, r) =>
                 frame[r] = frame[p] /\ manager[r].votes[q][r] = frame[p]]_vars
  BY <1>1
<1>3. Spec => []TrioInvariant(s, c, o)
  BY GamesOfThree
<1>4. QED
  BY <1>2, <1>3, PaceInvariant, PTL DEF VotedOutByTheOthers

===============================================================================
