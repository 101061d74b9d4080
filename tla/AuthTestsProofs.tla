--------------------------- MODULE AuthTestsProofs ---------------------------
(***************************************************************************)
(* What holds of the log ingestion, and of the authentication tests beside *)
(* it, for any number of lines, identities, labs, tests, devices and       *)
(* connections.                                                            *)
(*                                                                         *)
(* The ingestion by itself (IngestSpec) implements the event feed and      *)
(* loses lines for the known reasons only.  The argument rests on the line *)
(* that the offset stands for (Place): the lines read last end there or    *)
(* before, and up to there, or up to the end of the log when the next poll *)
(* will not read on from the offset, every line is an event, excepted, or  *)
(* among those being stored.                                               *)
(*                                                                         *)
(* With the tests (Spec) that stays true, and the connections are          *)
(* accounted for, what is reported was granted, and a rejected MAC is      *)
(* explained alike by the test and by its event.                           *)
(***************************************************************************)
EXTENDS AuthTests, SequenceTheorems, FiniteSetTheorems, TLAPS

----------------------------------------------------------------------------
(***************************************************************************)
(* The log ingestion.                                                      *)
(***************************************************************************)

\* The types of what the file and the task are made of.
FeedTypes ==
    /\ log \in Seq(Attempt)
    /\ base \in Nat /\ base <= Len(log)
    /\ partial \in BOOLEAN
    /\ task \in {"follow", "dead", "down"}
    /\ offset \in Nat
    /\ next \in Nat \ {0}
    /\ last \in Nat
    /\ torn \in BOOLEAN
    /\ events \in Seq(Event)
    /\ endpoint \in [Labs -> {"none", "disabled", "enabled"}]
    /\ exempt \subseteq Nat

\* The last line before the offset.
Place == IF offset > Size THEN base ELSE base + Lines(offset)

\* The lines up to here will not be read again.
Reach == IF offset > Size \/ task # "follow" THEN Len(log) ELSE Place

Stored(k) == \E i \in DOMAIN events : events[i].line = k

\* The task and the file fit each other.
PlaceFits ==
    /\ partial => base < Len(log)
    /\ last <= Place
    /\ task # "follow" => ~LoopTaken
    /\ torn => last \in exempt

\* Every line that will not be read again is accounted for.
LinesAccounted ==
    \A k \in 1..Reach : k \in exempt \/ Stored(k) \/ k \in next..last

\* Events are of lines that were dealt with, and rise with them.
EventsRise ==
    /\ \A i \in DOMAIN events : events[i].line \in 1..Position
    /\ \A i, j \in DOMAIN events : i < j => events[i].line < events[j].line

\* An event says what its line says; the attributes may be less, if there are any and the
\* line was not read to its end.
EventIsTrue(e) ==
    /\ e.id = log[e.line].id /\ e.ok = log[e.line].ok /\ e.at = log[e.line].at
    /\ e.reply # NoReply => /\ log[e.line].ok /\ log[e.line].reply # NoReply
                            /\ e.whole => e.reply = log[e.line].reply

\* The inductive invariant of the ingestion.
FeedInv ==
    /\ FeedTypes
    /\ PlaceFits
    /\ LinesAccounted
    /\ EventsRise
    /\ \A i \in DOMAIN events : EventIsTrue(events[i])

\* What a step of the file, the task or the endpoint list is, whatever becomes of the
\* connections.
IngestStep ==
    \/ \E a \in Attempt, whole \in BOOLEAN : Write(a, whole)
    \/ WriteRest \/ Truncate
    \/ Start \/ Follow \/ PollRaises
    \/ Stop
    \/ \E l \in Labs : EditEndpoint(l)
    \/ UNCHANGED <<fileVars, taskVars, events, endpoint, exempt>>

----------------------------------------------------------------------------
\* Sizes in half lines and places in lines: an offset into the file stands for a line of
\* it, and its end for the last one.
LEMMA Halves ==
    ASSUME NEW n \in Nat, NEW b \in Nat, b <= n, NEW p \in BOOLEAN, p => b < n,
           NEW o \in Nat, NEW s, s = 2 * (n - b) - (IF p THEN 1 ELSE 0)
    PROVE  /\ s \in Nat
           /\ Lines(o) \in Nat
           /\ o <= s => b + Lines(o) <= n
           /\ b + Lines(s) = n
           /\ Lines(0) = 0
BY DEF Lines

\* Where the task stands lies in the log.
LEMMA PlaceBounds ==
    ASSUME FeedTypes, PlaceFits
    PROVE  /\ Len(log) \in Nat /\ Size \in Nat /\ Lines(offset) \in Nat
           /\ Place \in base..Len(log)
           /\ Reach \in Place..Len(log)
           /\ Position \in 0..Place
           /\ ~LoopTaken => Position = Place
           /\ LoopTaken => /\ Position = next - 1 /\ Position < last
                           /\ last <= Len(log) /\ task = "follow"
<1>1. Len(log) \in Nat
  BY DEF FeedTypes
<1>2. /\ Size \in Nat /\ Lines(offset) \in Nat
      /\ offset <= Size => base + Lines(offset) <= Len(log)
  <2>1. Size = 2 * (Len(log) - base) - (IF partial THEN 1 ELSE 0)
    BY DEF Size
  <2>2. /\ base \in Nat /\ base <= Len(log) /\ partial \in BOOLEAN /\ offset \in Nat
        /\ partial => base < Len(log)
    BY DEF FeedTypes, PlaceFits
  <2>3. PICK n \in Nat, b \in Nat, o \in Nat : n = Len(log) /\ b = base /\ o = offset
    BY <1>1, <2>2
  <2>4. PICK p \in BOOLEAN : p = partial
    BY <2>2
  <2>5. PICK s : s = Size
    OBVIOUS
  <2>6. b <= n /\ (p => b < n) /\ s = 2 * (n - b) - (IF p THEN 1 ELSE 0)
    BY <2>1, <2>2, <2>3, <2>4, <2>5
  <2>7. s \in Nat /\ Lines(o) \in Nat /\ (o <= s => b + Lines(o) <= n)
    BY <2>6, Halves
  <2> QED
    BY <2>3, <2>5, <2>7
<1>3. Place \in base..Len(log)
  BY <1>1, <1>2 DEF Place, FeedTypes
<1>4. Reach \in Place..Len(log)
  BY <1>1, <1>3 DEF Reach, FeedTypes
<1>5. CASE LoopTaken
  <2>1. Position = next - 1
    BY <1>5 DEF Position
  <2> QED
    BY <1>1, <1>2, <1>3, <1>4, <1>5, <2>1 DEF LoopTaken, PlaceFits, FeedTypes
<1>6. CASE ~LoopTaken
  <2>1. Position = Place
    BY <1>6 DEF Position, Place
  <2> QED
    BY <1>1, <1>2, <1>3, <1>4, <1>6, <2>1 DEF FeedTypes
<1> QED
  BY <1>5, <1>6

\* A step that stores no event keeps the invariant and implements the feed if it keeps
\* the lines accounted for and does not go back.
LEMMA QuietStep ==
    ASSUME FeedInv, FeedTypes', PlaceFits', events' = events, exempt \subseteq exempt',
           Len(log') \in {Len(log), Len(log) + 1},
           \A k \in 1..Len(log) : log'[k] = log[k],
           \A k \in 1..Reach' : k \in exempt' \/ Stored(k) \/ k \in next'..last',
           Position' \in Position..Len(log')
    PROVE  FeedInv' /\ Feed!FeedNext
<1>1. LinesAccounted'
  BY DEF LinesAccounted, Stored
<1>2. Position \in 0..Place /\ Place \in base..Len(log) /\ Len(log) \in Nat
  BY PlaceBounds DEF FeedInv
<1>3. events \in Seq(Event) /\ (\A i \in DOMAIN events : events[i] \in Event)
      /\ base \in Nat
  BY DEF FeedInv, FeedTypes
<1>4. EventsRise'
  <2>1. \A i \in DOMAIN events : events[i].line \in 1..Position'
    BY <1>2, <1>3 DEF FeedInv, EventsRise
  <2> QED
    BY <2>1 DEF FeedInv, EventsRise
<1>5. \A i \in DOMAIN events' : EventIsTrue(events[i])'
  <2>1. SUFFICES ASSUME NEW i \in DOMAIN events
                 PROVE  EventIsTrue(events[i])'
    OBVIOUS
  <2>2. EventIsTrue(events[i]) /\ events[i].line \in 1..Position
    BY DEF FeedInv, EventsRise
  <2>3. events[i].line \in 1..Len(log)
    BY <1>2, <1>3, <2>2
  <2> QED
    BY <2>2, <2>3 DEF EventIsTrue
<1>6. FeedInv'
  BY <1>1, <1>4, <1>5 DEF FeedInv
<1>7. Feed!FeedNext
  BY <1>2, <1>3 DEF Feed!FeedNext
<1> QED
  BY <1>6, <1>7

\* At first nothing is logged and nobody follows.
LEMMA FeedInvAtFirst ==
    ASSUME IngestInit PROVE FeedInv /\ Feed!FeedInit
<1>1. Len(log) = 0 /\ Size = 0 /\ Lines(0) = 0
  BY DEF IngestInit, Size, Lines
<1>2. ~LoopTaken /\ Place = 0 /\ Reach = 0 /\ Position = 0
  BY <1>1 DEF IngestInit, LoopTaken, Place, Reach, Position
<1>3. FeedTypes
  <2>1. /\ log \in Seq(Attempt) /\ events \in Seq(Event)
        /\ base = 0 /\ offset = 0 /\ next = 1 /\ last = 0
        /\ partial = FALSE /\ torn = FALSE /\ task = "down" /\ exempt = {}
    BY DEF IngestInit
  <2>2. endpoint \in [Labs -> {"none", "disabled", "enabled"}]
    BY DEF IngestInit
  <2>3. task \in {"follow", "dead", "down"} /\ partial \in BOOLEAN /\ torn \in BOOLEAN
    BY <2>1
  <2>4. base \in Nat /\ base <= Len(log) /\ offset \in Nat
        /\ next \in Nat \ {0} /\ last \in Nat /\ exempt \subseteq Nat
    BY <1>1, <2>1
  <2> QED
    BY <2>1, <2>2, <2>3, <2>4 DEF FeedTypes
<1>4. PlaceFits /\ LinesAccounted /\ EventsRise
      /\ (\A i \in DOMAIN events : EventIsTrue(events[i]))
  BY <1>2 DEF IngestInit, PlaceFits, LinesAccounted, EventsRise
<1>5. Feed!FeedInit
  BY <1>1, <1>2 DEF IngestInit, Feed!FeedInit
<1> QED
  BY <1>3, <1>4, <1>5 DEF FeedInv

----------------------------------------------------------------------------
(***************************************************************************)
(* The file.                                                               *)
(***************************************************************************)

\* A new line lies behind all that was dealt with; if the next poll will not read on from
\* the offset it is excepted.
LEMMA WriteKeeps ==
    ASSUME FeedInv, NEW a \in Attempt, NEW whole \in BOOLEAN, Write(a, whole)
    PROVE  FeedInv' /\ Feed!FeedNext
<1> USE DEF FeedInv
<1>1. /\ Len(log) \in Nat /\ Size \in Nat /\ Lines(offset) \in Nat
      /\ Place \in base..Len(log) /\ Reach \in Place..Len(log) /\ Position \in 0..Place
      /\ ~LoopTaken => Position = Place
  BY PlaceBounds
<1>2. /\ log' = Append(log, a) /\ partial' = ~whole /\ ~partial
      /\ base' = base /\ task' = task /\ offset' = offset /\ next' = next
      /\ last' = last /\ torn' = torn /\ events' = events /\ endpoint' = endpoint
  BY DEF Write, taskVars
<1>3. /\ log' \in Seq(Attempt) /\ Len(log') = Len(log) + 1
      /\ \A k \in 1..Len(log) : log'[k] = log[k]
  BY <1>2 DEF FeedTypes
<1>4. exempt \subseteq exempt' /\ exempt' \subseteq exempt \cup {Len(log) + 1}
      /\ (task # "follow" \/ offset > Size => Len(log) + 1 \in exempt')
  BY DEF Write
<1>5. /\ Size = 2 * (Len(log) - base)
      /\ Size' = 2 * (Len(log) + 1 - base) - (IF partial' THEN 1 ELSE 0)
  <2>1. /\ Size = 2 * (Len(log) - base) - (IF partial THEN 1 ELSE 0)
        /\ Size' = 2 * (Len(log') - base') - (IF partial' THEN 1 ELSE 0)
    BY DEF Size
  <2>2. Len(log') = Len(log) + 1 /\ base' = base /\ base \in Nat /\ Len(log) \in Nat
    BY <1>1, <1>2, <1>3 DEF FeedTypes
  <2>3. Size' = 2 * (Len(log) + 1 - base) - (IF partial' THEN 1 ELSE 0)
    BY <2>1, <2>2
  <2>4. Size = 2 * (Len(log) - base) - 0
    BY <1>2, <2>1
  <2> QED
    BY <2>2, <2>3, <2>4
<1>6. Size' > Size /\ Size' \in Nat
  BY <1>1, <1>5 DEF FeedTypes
<1>7. /\ Place' = IF offset > Size' THEN base ELSE base + Lines(offset)
      /\ Lines(offset)' = Lines(offset)
  BY <1>2 DEF Place, Lines
<1>8. offset <= Size' => base + Lines(offset) <= Len(log) + 1
  BY <1>1, <1>5 DEF Lines, FeedTypes
<1>9. Place' \in Place..(Len(log) + 1) /\ (offset <= Size => Place' = Place)
  BY <1>1, <1>6, <1>7, <1>8 DEF Place, FeedTypes
<1>10. LoopTaken' = LoopTaken /\ (LoopTaken => Position' = Position)
       /\ (~LoopTaken => Position' = Place')
  BY <1>2 DEF LoopTaken, Position, Place
<1>11. Position' \in Position..Len(log')
  BY <1>1, <1>3, <1>9, <1>10
<1>12. FeedTypes'
  BY <1>1, <1>2, <1>3, <1>4 DEF FeedTypes
<1>13. PlaceFits'
  BY <1>1, <1>2, <1>3, <1>4, <1>9, <1>10 DEF PlaceFits, FeedTypes
<1>14. \A k \in 1..Reach' : k \in exempt' \/ Stored(k) \/ k \in next'..last'
  <2>1. SUFFICES ASSUME NEW k \in 1..Reach'
                 PROVE  k \in exempt' \/ Stored(k) \/ k \in next'..last'
    OBVIOUS
  <2>2. Reach' = IF offset > Size' \/ task # "follow" THEN Len(log) + 1 ELSE Place'
    BY <1>2, <1>3 DEF Reach
  <2>3. \/ k \in 1..Reach
        \/ k = Len(log) + 1 /\ (task # "follow" \/ offset > Size)
    <3>1. CASE offset > Size \/ task # "follow"
      <4>1. Reach = Len(log)
        BY <3>1 DEF Reach
      <4>2. Reach' <= Len(log) + 1 /\ Reach' \in Nat
        BY <1>1, <1>9, <2>2 DEF FeedTypes
      <4> QED
        BY <1>1, <2>1, <3>1, <4>1, <4>2
    <3>2. CASE offset <= Size /\ task = "follow"
      <4>1. offset \in Nat
        BY DEF FeedTypes
      <4>2. ~(offset > Size) /\ ~(offset > Size')
        BY <1>1, <1>6, <3>2, <4>1
      <4>3. Reach = Place
        BY <3>2, <4>2 DEF Reach
      <4>4. Place' = Place
        BY <1>9, <3>2
      <4>5. Reach' = Place'
        BY <2>2, <3>2, <4>2
      <4> QED
        BY <2>1, <4>3, <4>4, <4>5
    <3> QED
      BY <1>1, <3>1, <3>2 DEF FeedTypes
  <2>4. CASE k \in 1..Reach
    <3>1. k \in exempt \/ Stored(k) \/ k \in next..last
      BY <2>4 DEF LinesAccounted
    <3> QED
      BY <1>2, <1>4, <3>1
  <2>5. CASE k = Len(log) + 1 /\ (task # "follow" \/ offset > Size)
    BY <1>4, <2>5
  <2> QED
    BY <2>3, <2>4, <2>5
<1> QED
  BY <1>2, <1>3, <1>4, <1>11, <1>12, <1>13, <1>14, QuietStep

\* The rest of a line moves the end of the file, and nothing else.
LEMMA WriteRestKeeps ==
    ASSUME FeedInv, WriteRest PROVE FeedInv' /\ Feed!FeedNext
<1> USE DEF FeedInv
<1>1. /\ Len(log) \in Nat /\ Size \in Nat /\ Lines(offset) \in Nat
      /\ Place \in base..Len(log) /\ Reach \in Place..Len(log) /\ Position \in 0..Place
      /\ ~LoopTaken => Position = Place
  BY PlaceBounds
<1>2. /\ log' = log /\ partial' = FALSE /\ partial /\ exempt' = exempt
      /\ base' = base /\ task' = task /\ offset' = offset /\ next' = next
      /\ last' = last /\ torn' = torn /\ events' = events /\ endpoint' = endpoint
  BY DEF WriteRest, taskVars
<1>3. Size = 2 * (Len(log) - base) - 1 /\ Size' = 2 * (Len(log) - base)
  <2>1. /\ Size = 2 * (Len(log) - base) - (IF partial THEN 1 ELSE 0)
        /\ Size' = 2 * (Len(log') - base') - (IF partial' THEN 1 ELSE 0)
    BY DEF Size
  <2>2. 2 * (Len(log') - base') = 2 * (Len(log) - base)
    BY <1>2
  <2>3. Size' = 2 * (Len(log) - base) - 0
    BY <1>2, <2>1, <2>2
  <2>4. Size = 2 * (Len(log) - base) - 1
    BY <1>2, <2>1
  <2> QED
    BY <1>1, <2>3, <2>4 DEF FeedTypes
<1>4. Place' = IF offset > Size' THEN base ELSE base + Lines(offset)
  BY <1>2 DEF Place, Lines
<1>5. offset <= Size' => base + Lines(offset) <= Len(log)
  BY <1>1, <1>3 DEF Lines, FeedTypes
<1>6. Place' \in Place..Len(log) /\ (offset <= Size => Place' = Place)
  BY <1>1, <1>3, <1>4, <1>5 DEF Place, FeedTypes
<1>7. LoopTaken' = LoopTaken /\ (LoopTaken => Position' = Position)
      /\ (~LoopTaken => Position' = Place')
  BY <1>2 DEF LoopTaken, Position, Place
<1>8. Position' \in Position..Len(log')
  BY <1>1, <1>2, <1>6, <1>7
<1>9. FeedTypes'
  BY <1>2 DEF FeedTypes
<1>10. PlaceFits'
  BY <1>1, <1>2, <1>6, <1>7 DEF PlaceFits, FeedTypes
<1>11. \A k \in 1..Reach' : k \in exempt' \/ Stored(k) \/ k \in next'..last'
  <2>1. Reach' = IF offset > Size' \/ task # "follow" THEN Len(log) ELSE Place'
    BY <1>2 DEF Reach
  <2>2. Reach' <= Reach
    BY <1>1, <1>3, <1>6, <2>1 DEF Reach, FeedTypes
  <2>3. Reach' \in Nat
    BY <1>1, <1>6, <2>1 DEF FeedTypes
  <2> QED
    BY <1>1, <1>2, <2>2, <2>3 DEF LinesAccounted
<1> QED
  BY <1>1, <1>2, <1>8, <1>9, <1>10, <1>11, QuietStep

\* What an emptied file takes with it is excepted, unless it is being stored.
LEMMA TruncateKeeps ==
    ASSUME FeedInv, Truncate PROVE FeedInv' /\ Feed!FeedNext
<1> USE DEF FeedInv
<1>1. /\ Len(log) \in Nat /\ Size \in Nat /\ Lines(offset) \in Nat
      /\ Place \in base..Len(log) /\ Reach \in Place..Len(log) /\ Position \in 0..Place
      /\ ~LoopTaken => Position = Place
      /\ LoopTaken => Position = next - 1 /\ Position < last /\ last <= Len(log)
  BY PlaceBounds
<1>2. /\ log' = log /\ partial' = partial /\ ~partial /\ base' = Len(log)
      /\ exempt' = exempt \cup Unread /\ task' = task /\ offset' = offset
      /\ next' = next /\ last' = last /\ torn' = torn /\ events' = events
      /\ endpoint' = endpoint
  BY DEF Truncate, EmptyFile, taskVars
<1>3. Size' = 0
  <2>1. /\ Size = 2 * (Len(log) - base) - (IF partial THEN 1 ELSE 0)
        /\ Size' = 2 * (Len(log') - base') - (IF partial' THEN 1 ELSE 0)
    BY DEF Size
  <2>2. 2 * (Len(log') - base') = 0
    BY <1>1, <1>2
  <2>3. Size' = 0 - 0
    BY <1>2, <2>1, <2>2
  <2> QED
    BY <2>3
<1>4. Place' = Len(log)
  BY <1>1, <1>2, <1>3 DEF Place, Lines, FeedTypes
<1>5. LoopTaken' = LoopTaken /\ (LoopTaken => Position' = Position)
      /\ (~LoopTaken => Position' = Len(log))
  BY <1>2, <1>4 DEF LoopTaken, Position, Place
<1>6. Position' \in Position..Len(log')
  BY <1>1, <1>2, <1>5
<1>7. FeedTypes'
  <2>1. Unread \subseteq Nat
    BY <1>1 DEF Unread, Unstored
  <2> QED
    BY <1>1, <1>2, <2>1 DEF FeedTypes
<1>8. PlaceFits'
  BY <1>1, <1>2, <1>4, <1>5 DEF PlaceFits, FeedTypes
<1>9. \A k \in 1..Reach' : k \in exempt' \/ Stored(k) \/ k \in next'..last'
  <2>1. Reach' = Len(log)
    BY <1>2, <1>4 DEF Reach
  <2>2. SUFFICES ASSUME NEW k \in 1..Len(log)
                 PROVE  k \in exempt' \/ Stored(k) \/ k \in next..last
    BY <1>2, <2>1
  <2>3. CASE k <= Position
    BY <1>1, <1>2, <2>3 DEF LinesAccounted
  <2>4. CASE k > Position
    BY <1>1, <1>2, <2>4 DEF Unread, Unstored
  <2> QED
    BY <1>1, <2>3, <2>4
<1> QED
  BY <1>1, <1>2, <1>6, <1>7, <1>8, <1>9, QuietStep

----------------------------------------------------------------------------
(***************************************************************************)
(* The task.                                                               *)
(***************************************************************************)

\* The end of the file stands for the last line.
LEMMA EndIsLast ==
    ASSUME FeedTypes, PlaceFits PROVE base + Lines(Size) = Len(log)
<1>1. Size = 2 * (Len(log) - base) - (IF partial THEN 1 ELSE 0)
  BY DEF Size
<1>2. /\ base \in Nat /\ base <= Len(log) /\ partial \in BOOLEAN /\ offset \in Nat
      /\ partial => base < Len(log)
  BY DEF FeedTypes, PlaceFits
<1>3. PICK n \in Nat, b \in Nat, o \in Nat : n = Len(log) /\ b = base /\ o = offset
  BY DEF FeedTypes
<1>4. PICK p \in BOOLEAN : p = partial
  BY DEF FeedTypes
<1>5. PICK s : s = Size
  OBVIOUS
<1>6. b <= n /\ (p => b < n) /\ s = 2 * (n - b) - (IF p THEN 1 ELSE 0)
  BY <1>1, <1>2, <1>3, <1>4, <1>5
<1>7. b + Lines(s) = n
  BY <1>6, Halves
<1> QED
  BY <1>3, <1>5, <1>7

\* The task begins at the end of the file, which is the last line.
LEMMA StartKeeps ==
    ASSUME FeedInv, Start PROVE FeedInv' /\ Feed!FeedNext
<1> USE DEF FeedInv
<1>1. /\ Len(log) \in Nat /\ Size \in Nat /\ Lines(offset) \in Nat
      /\ Place \in base..Len(log) /\ Reach \in Place..Len(log) /\ Position \in 0..Place
      /\ ~LoopTaken => Position = Place
      /\ LoopTaken => Position = next - 1 /\ Position < last /\ last <= Len(log)
  BY PlaceBounds
<1>2. /\ log' = log /\ partial' = partial /\ base' = base /\ exempt' = exempt
      /\ task = "down" /\ task' = "follow" /\ offset' = Size
      /\ next' = next /\ last' = last /\ torn' = torn /\ events' = events
      /\ endpoint' = endpoint
  BY DEF Start, fileVars
<1>3. Size' = Size
  BY <1>2 DEF Size
<1>4. Place' = Len(log)
  <2>1. Place' = IF Size > Size THEN base ELSE base + Lines(Size)
    BY <1>2, <1>3 DEF Place, Lines
  <2> QED
    BY <1>1, <2>1, EndIsLast
<1>5. ~LoopTaken /\ ~LoopTaken' /\ Position' = Place'
  <2>1. ~LoopTaken
    BY <1>2 DEF PlaceFits
  <2>2. ~LoopTaken'
    BY <1>2, <2>1 DEF LoopTaken
  <2> QED
    BY <2>1, <2>2 DEF Position, Place
<1>6. FeedTypes'
  BY <1>1, <1>2 DEF FeedTypes
<1>7. PlaceFits'
  BY <1>1, <1>2, <1>4, <1>5 DEF PlaceFits, FeedTypes
<1>8. Reach = Len(log) /\ Reach' = Len(log)
  BY <1>2, <1>4 DEF Reach
<1>9. \A k \in 1..Reach' : k \in exempt' \/ Stored(k) \/ k \in next'..last'
  BY <1>2, <1>8 DEF LinesAccounted
<1> QED
  BY <1>1, <1>2, <1>4, <1>5, <1>6, <1>7, <1>9, QuietStep

\* A poll reads on from where it stands, to the end; or goes back to the beginning of a
\* file that became shorter.
LEMMA PollKeeps ==
    ASSUME FeedInv, Poll PROVE FeedInv' /\ Feed!FeedNext
<1> USE DEF FeedInv
<1>1. /\ Len(log) \in Nat /\ Size \in Nat /\ Lines(offset) \in Nat
      /\ Place \in base..Len(log) /\ Reach \in Place..Len(log) /\ Position \in 0..Place
      /\ ~LoopTaken => Position = Place
      /\ LoopTaken => Position = next - 1 /\ Position < last /\ last <= Len(log)
  BY PlaceBounds
<1>2. /\ log' = log /\ partial' = partial /\ base' = base /\ endpoint' = endpoint
      /\ task = "follow" /\ task' = task /\ events' = events /\ ~LoopTaken
  BY DEF Poll, fileVars
<1>3. Size' = Size
  BY <1>2 DEF Size
<1>4. base \in Nat /\ offset \in Nat /\ next \in Nat /\ last \in Nat
  BY DEF FeedTypes
<1>5. CASE offset > Size
  <2>1. offset' = 0 /\ UNCHANGED <<next, last, torn, exempt>>
    BY <1>5 DEF Poll, NextOffset
  <2>2. Place' = base /\ Place = base
    <3>1. Place' = IF 0 > Size THEN base ELSE base + Lines(0)
      BY <1>2, <1>3, <2>1 DEF Place, Lines
    <3> QED
      BY <1>1, <1>4, <1>5, <3>1 DEF Lines, Place
  <2>3. ~LoopTaken' /\ Position' = Place'
    <3>1. ~LoopTaken'
      BY <1>2, <2>1 DEF LoopTaken
    <3> QED
      BY <3>1 DEF Position, Place
  <2>4. FeedTypes'
    BY <1>2, <2>1 DEF FeedTypes
  <2>5. PlaceFits'
    BY <1>2, <2>1, <2>2, <2>3 DEF PlaceFits
  <2>6. Reach = Len(log) /\ Reach' \in {base, Len(log)}
    BY <1>2, <1>5, <2>2 DEF Reach
  <2>7. \A k \in 1..Reach' : k \in exempt' \/ Stored(k) \/ k \in next'..last'
    BY <1>1, <1>4, <2>1, <2>6 DEF LinesAccounted
  <2> QED
    BY <1>1, <1>2, <2>1, <2>2, <2>3, <2>4, <2>5, <2>7, QuietStep
<1>6. CASE ~(offset > Size)
  <2>1. /\ offset' = Size /\ next' = Place + 1 /\ last' = Len(log)
        /\ torn' = (partial /\ FirstLine <= Len(log))
        /\ exempt' = exempt \cup (IF partial THEN {Len(log)} ELSE {})
    BY <1>6 DEF Poll, NextOffset, FirstLine, Place
  <2>2. Place' = Len(log)
    <3>1. Place' = IF Size > Size THEN base ELSE base + Lines(Size)
      BY <1>2, <1>3, <2>1 DEF Place, Lines
    <3> QED
      BY <1>1, <3>1, EndIsLast
  <2>3. Position' = Place
    <3>1. CASE Place + 1 <= Len(log)
      <4>1. LoopTaken'
        BY <2>1, <3>1 DEF LoopTaken
      <4>2. Position' = next' - 1
        BY <4>1 DEF Position
      <4> QED
        BY <1>1, <1>4, <2>1, <4>2
    <3>2. CASE ~(Place + 1 <= Len(log))
      <4>1. ~LoopTaken'
        BY <2>1, <3>2 DEF LoopTaken
      <4>2. Position' = Place'
        BY <4>1 DEF Position, Place
      <4> QED
        BY <1>1, <1>4, <2>2, <3>2, <4>2
    <3> QED
      BY <3>1, <3>2
  <2>4. FeedTypes'
    <3>1. torn' \in BOOLEAN
      BY <2>1
    <3>2. exempt' \subseteq Nat
      BY <1>1, <2>1 DEF FeedTypes
    <3>3. next' \in Nat \ {0} /\ last' \in Nat /\ offset' \in Nat
      BY <1>1, <1>4, <2>1
    <3> QED
      BY <1>2, <3>1, <3>2, <3>3 DEF FeedTypes
  <2>5. torn' => last' \in exempt'
    BY <2>1
  <2>6. PlaceFits'
    BY <1>1, <1>2, <2>1, <2>2, <2>5 DEF PlaceFits
  <2>7. Reach' = Len(log) /\ Reach = Place
    BY <1>2, <1>6, <2>2 DEF Reach
  <2>8. \A k \in 1..Reach' : k \in exempt' \/ Stored(k) \/ k \in next'..last'
    <3>1. SUFFICES ASSUME NEW k \in 1..Len(log)
                   PROVE  k \in exempt' \/ Stored(k) \/ k \in next'..last'
      BY <2>7
    <3>2. CASE k <= Place
      <4>1. k \in exempt \/ Stored(k) \/ k \in next..last
        BY <1>1, <1>4, <2>7, <3>2 DEF LinesAccounted
      <4>2. k \notin next..last
        BY <1>2, <1>4 DEF LoopTaken
      <4> QED
        BY <2>1, <4>1, <4>2
    <3>3. CASE k > Place
      BY <1>1, <1>4, <2>1, <3>3
    <3> QED
      BY <1>1, <1>4, <3>2, <3>3
  <2>9. exempt \subseteq exempt'
    BY <2>1
  <2> QED
    BY <1>1, <1>2, <2>3, <2>4, <2>6, <2>8, <2>9, QuietStep
<1> QED
  BY <1>5, <1>6

\* The task ends with the file: what was not stored is excepted.
LEMMA PollRaisesKeeps ==
    ASSUME FeedInv, PollRaises PROVE FeedInv' /\ Feed!FeedNext
<1> USE DEF FeedInv
<1>1. /\ Len(log) \in Nat /\ Size \in Nat /\ Lines(offset) \in Nat
      /\ Place \in base..Len(log) /\ Reach \in Place..Len(log) /\ Position \in 0..Place
      /\ ~LoopTaken => Position = Place
      /\ LoopTaken => Position = next - 1 /\ Position < last /\ last <= Len(log)
  BY PlaceBounds
<1>2. /\ log' = log /\ partial' = partial /\ base' = Len(log) /\ ~partial
      /\ exempt' = exempt \cup Unstored /\ endpoint' = endpoint
      /\ task' = "dead" /\ offset' = offset /\ ~LoopTaken
      /\ next' = next /\ last' = last /\ torn' = torn /\ events' = events
  BY DEF PollRaises, EmptyFile
<1>3. Place' = Len(log)
  <2>1. Size' = 2 * (Len(log') - base') - (IF partial' THEN 1 ELSE 0)
    BY DEF Size
  <2>2. 2 * (Len(log') - base') = 0
    BY <1>1, <1>2
  <2>3. Size' = 0 - 0
    BY <1>2, <2>1, <2>2
  <2>4. Size' = 0
    BY <2>3
  <2> QED
    BY <1>1, <1>2, <2>4 DEF Place, Lines, FeedTypes
<1>4. ~LoopTaken' /\ Position' = Place'
  <2>1. ~LoopTaken'
    BY <1>2 DEF LoopTaken
  <2> QED
    BY <2>1 DEF Position, Place
<1>5. FeedTypes'
  <2>1. Unstored \subseteq Nat
    BY <1>1 DEF Unstored
  <2> QED
    BY <1>1, <1>2, <2>1 DEF FeedTypes
<1>6. PlaceFits'
  BY <1>1, <1>2, <1>3, <1>4 DEF PlaceFits, FeedTypes
<1>7. \A k \in 1..Reach' : k \in exempt' \/ Stored(k) \/ k \in next'..last'
  <2>1. Reach' = Len(log)
    BY <1>2 DEF Reach
  <2>2. SUFFICES ASSUME NEW k \in 1..Len(log)
                 PROVE  k \in exempt' \/ Stored(k) \/ k \in next..last
    BY <1>2, <2>1
  <2>3. CASE k <= Position
    BY <1>1, <1>2, <2>3 DEF LinesAccounted
  <2>4. CASE k > Position
    BY <1>1, <1>2, <2>4 DEF Unstored
  <2> QED
    BY <1>1, <2>3, <2>4
<1> QED
  BY <1>1, <1>2, <1>3, <1>4, <1>5, <1>6, <1>7, QuietStep

\* The process ends: what was not stored is excepted.
LEMMA StopKeeps ==
    ASSUME FeedInv, Stop PROVE FeedInv' /\ Feed!FeedNext
<1> USE DEF FeedInv
<1>1. /\ Len(log) \in Nat /\ Size \in Nat /\ Lines(offset) \in Nat
      /\ Place \in base..Len(log) /\ Reach \in Place..Len(log) /\ Position \in 0..Place
      /\ ~LoopTaken => Position = Place
      /\ LoopTaken => Position = next - 1 /\ Position < last /\ last <= Len(log)
  BY PlaceBounds
<1>2. /\ log' = log /\ partial' = partial /\ base' = base
      /\ exempt' = exempt \cup Unstored /\ endpoint' = endpoint
      /\ task' = "down" /\ offset' = offset
      /\ next' = last + 1 /\ last' = last /\ torn' = FALSE /\ events' = events
  BY DEF Stop, fileVars
<1>3. Place' = Place
  BY <1>2 DEF Place, Size, Lines
<1>4. ~LoopTaken' /\ Position' = Place'
  <2>1. ~LoopTaken'
    BY <1>2 DEF LoopTaken, FeedTypes
  <2> QED
    BY <2>1 DEF Position, Place
<1>5. FeedTypes'
  <2>1. Unstored \subseteq Nat
    BY <1>1 DEF Unstored
  <2>2. last + 1 \in Nat \ {0}
    BY DEF FeedTypes
  <2> QED
    BY <1>1, <1>2, <2>1, <2>2 DEF FeedTypes
<1>6. PlaceFits'
  BY <1>1, <1>2, <1>3, <1>4 DEF PlaceFits, FeedTypes
<1>7. \A k \in 1..Reach' : k \in exempt' \/ Stored(k) \/ k \in next'..last'
  <2>1. Reach' = Len(log)
    BY <1>2 DEF Reach
  <2>2. SUFFICES ASSUME NEW k \in 1..Len(log)
                 PROVE  k \in exempt' \/ Stored(k)
    BY <1>2, <2>1
  <2>3. CASE k <= Position
    <3>1. k \notin next..last
      BY <1>1, <2>3 DEF LoopTaken, FeedTypes
    <3> QED
      BY <1>1, <1>2, <2>3, <3>1 DEF LinesAccounted
  <2>4. CASE k > Position
    BY <1>1, <1>2, <2>4 DEF Unstored
  <2> QED
    BY <1>1, <2>3, <2>4
<1>8. base \in Nat
  BY DEF FeedTypes
<1> QED
  BY <1>1, <1>2, <1>3, <1>4, <1>5, <1>6, <1>7, <1>8, QuietStep

\* After line `next` the task stands at it.
LEMMA NextIsPassed ==
    ASSUME FeedInv, LoopTaken, next' = next + 1, last' = last, UNCHANGED fileVars,
           offset' = offset
    PROVE  next \in 1..Position' /\ Position' \in 1..Len(log) /\ Place' = Place
<1>1. /\ Len(log) \in Nat /\ Size \in Nat /\ Lines(offset) \in Nat
      /\ Place \in base..Len(log) /\ Reach \in Place..Len(log) /\ Position \in 0..Place
      /\ ~LoopTaken => Position = Place
      /\ LoopTaken => Position = next - 1 /\ Position < last /\ last <= Len(log)
  BY PlaceBounds DEF FeedInv
<1>2. next \in Nat \ {0} /\ last \in Nat /\ next <= last /\ last <= Place /\ base \in Nat
  BY DEF FeedInv, FeedTypes, PlaceFits, LoopTaken
<1>3. Place' = Place
  BY DEF Place, Size, Lines, fileVars
<1>4. CASE next + 1 <= last
  <2>1. LoopTaken'
    BY <1>4 DEF LoopTaken
  <2>2. Position' = next' - 1
    BY <2>1 DEF Position
  <2> QED
    BY <1>1, <1>2, <1>3, <1>4, <2>2
<1>5. CASE ~(next + 1 <= last)
  <2>1. ~LoopTaken'
    BY <1>5 DEF LoopTaken
  <2>2. Position' = Place'
    BY <2>1 DEF Position, Place
  <2> QED
    BY <1>1, <1>2, <1>3, <2>2
<1> QED
  BY <1>4, <1>5

\* A line that cannot be stored is excepted, and the loop goes on with the next.
LEMMA DropLineKeeps ==
    ASSUME FeedInv, task = "follow", LoopTaken, DropLine PROVE FeedInv' /\ Feed!FeedNext
<1> USE DEF FeedInv
<1>1. /\ Len(log) \in Nat /\ Size \in Nat /\ Lines(offset) \in Nat
      /\ Place \in base..Len(log) /\ Reach \in Place..Len(log) /\ Position \in 0..Place
      /\ ~LoopTaken => Position = Place
      /\ LoopTaken => Position = next - 1 /\ Position < last /\ last <= Len(log)
  BY PlaceBounds
<1>2. /\ log' = log /\ partial' = partial /\ base' = base
      /\ exempt' = exempt \cup {next} /\ endpoint' = endpoint
      /\ task' = task /\ offset' = offset
      /\ next' = next + 1 /\ last' = last /\ torn' = torn /\ events' = events
  BY DEF DropLine, Following, fileVars
<1>3. next \in 1..Position' /\ Position' \in 1..Len(log) /\ Place' = Place
  BY <1>2, NextIsPassed DEF fileVars
<1>4. next \in Nat /\ last \in Nat
  BY DEF FeedTypes
<1>5. FeedTypes'
  BY <1>2, <1>4 DEF FeedTypes
<1>6. PlaceFits'
  BY <1>2, <1>3 DEF PlaceFits
<1>7. Reach' = Reach
  BY <1>2, <1>3 DEF Reach, Size
<1>8. \A k \in 1..Reach' : k \in exempt' \/ Stored(k) \/ k \in next'..last'
  BY <1>1, <1>2, <1>4, <1>7 DEF LinesAccounted
<1>9. Position' \in Position..Len(log')
  BY <1>1, <1>2, <1>3, <1>4
<1>10. Len(log') \in {Len(log), Len(log) + 1} /\ exempt \subseteq exempt'
       /\ \A k \in 1..Len(log) : log'[k] = log[k]
  BY <1>2
<1> QED
  BY <1>2, <1>5, <1>6, <1>8, <1>9, <1>10, QuietStep

\* An event says what its line says (log_parse.py:46-85, auth_log_ingestion.py:78-108).
LEMMA EventSaysLine ==
    ASSUME FeedTypes, NEW k \in 1..Len(log), NEW cut \in Cuts \ {"header"},
           NEW why \in WhysLeft(log[k], cut), NEW reply \in Granted(log[k], cut),
           NEW l \in LabOf(log[k].nas)
    PROVE  /\ EventFor(k, cut, why, reply, l) \in Event
           /\ EventFor(k, cut, why, reply, l).line = k
           /\ EventIsTrue(EventFor(k, cut, why, reply, l))
<1>1. PICK a \in Attempt : a = log[k]
  BY DEF FeedTypes
<1>2. l \in Labs
  BY <1>1, IngestionAssumption DEF LabOf, Attempt
<1>3. /\ a.id \in Identities /\ a.kind \in Kinds /\ a.ok \in BOOLEAN
      /\ a.reply \in Replies \cup {NoReply} /\ a.why \in Whys /\ a.at \in Nat
  BY <1>1 DEF Attempt
<1>4. /\ reply \in Shown
      /\ reply # NoReply => /\ a.ok /\ a.reply # NoReply
                            /\ cut = "none" => reply = a.reply
  BY <1>1, <1>3 DEF Granted, Shown
<1>5. MethodOf(a, cut) \in Methods
  BY <1>3 DEF MethodOf, Methods, Kinds
<1>6. ListReason(l) \in Reasons /\ why \in Whys
  BY <1>1, <1>3 DEF ListReason, Reasons, WhysLeft
<1>7. Explained(a, cut, why, l) \in Reasons
  BY <1>6 DEF Explained, Reasons, Whys
<1>8. k \in Nat
  BY DEF FeedTypes
<1>9. EventFor(k, cut, why, reply, l) =
          [line |-> k, id |-> a.id, method |-> MethodOf(a, cut), ok |-> a.ok,
           reply |-> reply, reason |-> Explained(a, cut, why, l), lab |-> l,
           at |-> a.at, whole |-> cut = "none"]
  BY <1>1 DEF EventFor
<1>10. EventFor(k, cut, why, reply, l) \in Event
  BY <1>2, <1>3, <1>4, <1>5, <1>7, <1>8, <1>9 DEF Event
<1>11. PICK e : e = EventFor(k, cut, why, reply, l)
  OBVIOUS
<1>12. /\ e.line = k /\ e.id = a.id /\ e.ok = a.ok /\ e.at = a.at /\ e.reply = reply
       /\ e.whole = (cut = "none")
  BY <1>9, <1>11
<1>13. EventIsTrue(e)
  BY <1>1, <1>4, <1>12 DEF EventIsTrue
<1> QED
  BY <1>10, <1>11, <1>12, <1>13

\* Storing a line makes an event of it, or of so little of a line none.
LEMMA IngestKeeps ==
    ASSUME FeedInv, Ingest PROVE FeedInv' /\ Feed!FeedNext
<1> USE DEF FeedInv
<1>1. /\ Len(log) \in Nat /\ Size \in Nat /\ Lines(offset) \in Nat
      /\ Place \in base..Len(log) /\ Reach \in Place..Len(log) /\ Position \in 0..Place
      /\ ~LoopTaken => Position = Place
      /\ LoopTaken => Position = next - 1 /\ Position < last /\ last <= Len(log)
  BY PlaceBounds
<1>2. /\ log' = log /\ partial' = partial /\ base' = base
      /\ exempt' = exempt /\ endpoint' = endpoint
      /\ task' = task /\ offset' = offset /\ task = "follow" /\ LoopTaken
      /\ next' = next + 1 /\ last' = last /\ torn' = torn
  BY DEF Ingest, fileVars
<1>3. next \in 1..Position' /\ Position' \in 1..Len(log) /\ Place' = Place
  BY <1>2, NextIsPassed DEF fileVars
<1>4. next \in Nat \ {0} /\ last \in Nat /\ next <= last /\ Position = next - 1
  BY <1>1, <1>2 DEF FeedTypes, LoopTaken
<1>5. PlaceFits'
  BY <1>2, <1>3 DEF PlaceFits
<1>6. Reach' = Reach
  BY <1>2, <1>3 DEF Reach, Size
<1>7. Position' \in Position..Len(log')
  BY <1>1, <1>2, <1>3, <1>4
<1>8. Len(log') \in {Len(log), Len(log) + 1} /\ exempt \subseteq exempt'
       /\ \A k \in 1..Len(log) : log'[k] = log[k]
  BY <1>2
<1>9. CASE events' = events
  <2>1. torn /\ next = last
    <3>1. \/ torn /\ next = last
          \/ \E cut, why, reply, l : events' = Append(events, EventFor(next, cut, why, reply, l))
      BY DEF Ingest, CutsRead
    <3>2. ASSUME NEW e, events' = Append(events, e) PROVE FALSE
      BY <1>9, <3>2 DEF FeedTypes
    <3> QED
      BY <3>1, <3>2
  <2>2. FeedTypes'
    BY <1>2, <1>4, <1>9 DEF FeedTypes
  <2>3. next \in exempt
    BY <2>1 DEF PlaceFits
  <2>4. \A k \in 1..Reach' : k \in exempt' \/ Stored(k) \/ k \in next'..last'
    BY <1>1, <1>2, <1>4, <1>6, <2>3 DEF LinesAccounted
  <2> QED
    BY <1>2, <1>5, <1>7, <1>8, <1>9, <2>2, <2>4, QuietStep
<1>10. CASE events' # events
  <2>0. PICK cut \in Cuts \ {"header"} :
            \E why \in WhysLeft(log[next], cut), reply \in Granted(log[next], cut),
               l \in LabOf(log[next].nas) :
                events' = Append(events, EventFor(next, cut, why, reply, l))
    BY <1>10 DEF Ingest, CutsRead, Cuts
  <2>1. PICK why \in WhysLeft(log[next], cut), reply \in Granted(log[next], cut),
             l \in LabOf(log[next].nas) :
                events' = Append(events, EventFor(next, cut, why, reply, l))
    BY <2>0
  <2>2. PICK e : e = EventFor(next, cut, why, reply, l)
    OBVIOUS
  <2>3. e \in Event /\ e.line = next /\ EventIsTrue(e)
    BY <1>1, <1>3, <1>4, <2>2, EventSaysLine
  <2>4. events \in Seq(Event) /\ Len(events) \in Nat
    BY DEF FeedTypes
  <2>5. /\ events' = Append(events, e) /\ events' \in Seq(Event)
        /\ DOMAIN events' = 1..(Len(events) + 1) /\ DOMAIN events = 1..Len(events)
        /\ \A i \in DOMAIN events : events'[i] = events[i]
        /\ events'[Len(events) + 1] = e
    BY <2>1, <2>2, <2>3, <2>4
  <2>6. FeedTypes'
    BY <1>2, <1>4, <2>5 DEF FeedTypes
  <2>7. LinesAccounted'
    <3>1. SUFFICES ASSUME NEW k \in 1..Reach
                   PROVE  k \in exempt \/ Stored(k)' \/ k \in next'..last
      BY <1>2, <1>6 DEF LinesAccounted
    <3>2. k \in exempt \/ Stored(k) \/ k \in next..last
      BY DEF LinesAccounted
    <3>3. ASSUME Stored(k) PROVE Stored(k)'
      <4>1. PICK i \in DOMAIN events : events[i].line = k
        BY <3>3 DEF Stored
      <4>2. i \in DOMAIN events' /\ events'[i].line = k
        BY <2>4, <2>5, <4>1
      <4> QED
        BY <4>2 DEF Stored
    <3>4. ASSUME k = next PROVE Stored(k)'
      <4>1. Len(events) + 1 \in DOMAIN events' /\ events'[Len(events) + 1].line = k
        BY <2>3, <2>4, <2>5, <3>4
      <4> QED
        BY <4>1 DEF Stored
    <3>5. k \in next..last => k = next \/ k \in next'..last
      BY <1>2, <1>4
    <3> QED
      BY <3>2, <3>3, <3>4, <3>5
  <2>8. EventsRise'
    <3>1. \A i \in DOMAIN events : events[i].line \in 1..Position
      BY DEF EventsRise
    <3>2. \A i \in DOMAIN events' : events'[i].line \in 1..Position'
      <4>1. SUFFICES ASSUME NEW i \in DOMAIN events'
                     PROVE  events'[i].line \in 1..Position'
        OBVIOUS
      <4>2. CASE i = Len(events) + 1
        BY <1>3, <2>3, <2>5, <4>2
      <4>3. CASE i # Len(events) + 1
        <5>1. i \in DOMAIN events /\ events'[i] = events[i]
          BY <2>4, <2>5, <4>3
        <5> QED
          BY <1>1, <1>2, <1>7, <3>1, <5>1
      <4> QED
        BY <4>2, <4>3
    <3>3. \A i, j \in DOMAIN events' : i < j => events'[i].line < events'[j].line
      <4>1. SUFFICES ASSUME NEW i \in DOMAIN events', NEW j \in DOMAIN events', i < j
                     PROVE  events'[i].line < events'[j].line
        OBVIOUS
      <4>2. i \in DOMAIN events /\ events'[i] = events[i]
        BY <2>4, <2>5, <4>1
      <4>3. CASE j = Len(events) + 1
        BY <1>4, <2>3, <2>5, <3>1, <4>2, <4>3
      <4>4. CASE j # Len(events) + 1
        <5>1. j \in DOMAIN events /\ events'[j] = events[j]
          BY <2>4, <2>5, <4>4
        <5> QED
          BY <4>1, <4>2, <5>1 DEF EventsRise
      <4> QED
        BY <4>3, <4>4
    <3> QED
      BY <3>2, <3>3 DEF EventsRise
  <2>9. \A i \in DOMAIN events' : EventIsTrue(events[i])'
    <3>1. SUFFICES ASSUME NEW i \in DOMAIN events'
                   PROVE  EventIsTrue(events'[i])
      BY <1>2 DEF EventIsTrue
    <3>2. CASE i = Len(events) + 1
      BY <2>3, <2>5, <3>2
    <3>3. CASE i # Len(events) + 1
      <4>1. i \in DOMAIN events /\ events'[i] = events[i]
        BY <2>4, <2>5, <3>3
      <4> QED
        BY <4>1
    <3> QED
      BY <3>2, <3>3
  <2>10. FeedInv'
    BY <1>5, <2>6, <2>7, <2>8, <2>9
  <2>11. [i \in DOMAIN events' |-> events'[i].line] =
             Append([i \in DOMAIN events |-> events[i].line], next)
    <3>1. PICK old : old = [i \in DOMAIN events |-> events[i].line]
      OBVIOUS
    <3>2. old \in Seq(Nat) /\ Len(old) = Len(events)
      <4>1. \A i \in 1..Len(events) : events[i].line \in Nat
        <5>1. SUFFICES ASSUME NEW i \in 1..Len(events) PROVE events[i].line \in Nat
          OBVIOUS
        <5>2. events[i] \in Event
          BY <2>4
        <5> QED
          BY <5>2 DEF Event
      <4>2. old = [i \in 1..Len(events) |-> events[i].line]
        BY <2>5, <3>1
      <4>3. old \in [1..Len(events) -> Nat]
        BY <4>1, <4>2
      <4> QED
        BY <2>4, <4>3
    <3>3. Append(old, next) = [i \in 1..(Len(events) + 1) |->
                                   IF i = Len(events) + 1 THEN next ELSE old[i]]
      <4>1. next \in Nat
        BY <1>4
      <4>2. /\ Append(old, next) \in Seq(Nat) /\ Len(Append(old, next)) = Len(old) + 1
            /\ \A i \in 1..Len(old) : Append(old, next)[i] = old[i]
            /\ Append(old, next)[Len(old) + 1] = next
        BY <3>2, <4>1, AppendProperties
      <4>3. PICK new \in Seq(Nat) : new = Append(old, next)
        BY <4>2
      <4>4. new \in [1..Len(new) -> Nat]
        BY <4>3, LenProperties
      <4>5. Len(new) = Len(events) + 1 /\ Len(old) = Len(events) /\ Len(events) \in Nat
        BY <2>4, <3>2, <4>2, <4>3
      <4>6. \A i \in 1..Len(new) : new[i] = IF i = Len(events) + 1 THEN next ELSE old[i]
        BY <4>2, <4>3, <4>5
      <4>7. new = [i \in 1..(Len(events) + 1) |-> new[i]]
        BY <4>4, <4>5
      <4> QED
        BY <4>3, <4>5, <4>6, <4>7
    <3>4. \A i \in 1..(Len(events) + 1) :
              events'[i].line = IF i = Len(events) + 1 THEN next ELSE old[i]
      BY <2>3, <2>4, <2>5, <3>1
    <3> QED
      BY <2>5, <3>1, <3>3, <3>4
  <2>12. next \in (Position + 1)..Position'
    BY <1>1, <1>3, <1>4
  <2>13. Feed!FeedNext
    BY <1>2, <1>7, <2>11, <2>12 DEF Feed!FeedNext
  <2> QED
    BY <2>10, <2>13
<1> QED
  BY <1>9, <1>10

\* What concerns neither file nor task, the endpoint list at most, keeps everything.
LEMMA OtherwiseKeeps ==
    ASSUME FeedInv, UNCHANGED <<fileVars, taskVars, events, exempt>>,
           endpoint' \in [Labs -> {"none", "disabled", "enabled"}]
    PROVE  FeedInv' /\ Feed!FeedNext
<1> USE DEF FeedInv
<1>1. /\ Len(log) \in Nat /\ Size \in Nat /\ Lines(offset) \in Nat
      /\ Place \in base..Len(log) /\ Reach \in Place..Len(log) /\ Position \in 0..Place
      /\ ~LoopTaken => Position = Place
      /\ LoopTaken => Position = next - 1 /\ Position < last /\ last <= Len(log)
  BY PlaceBounds
<1>2. /\ log' = log /\ partial' = partial /\ base' = base
      /\ exempt' = exempt /\ task' = task /\ offset' = offset
      /\ next' = next /\ last' = last /\ torn' = torn /\ events' = events
  BY DEF fileVars, taskVars
<1>3. FeedTypes'
  BY <1>2 DEF FeedTypes
<1>4. Place' = Place /\ Reach' = Reach /\ Position' = Position
  BY <1>2 DEF Place, Reach, Position, LoopTaken, Size, Lines
<1>5. PlaceFits'
  BY <1>2, <1>4 DEF PlaceFits, LoopTaken
<1>6. \A k \in 1..Reach' : k \in exempt' \/ Stored(k) \/ k \in next'..last'
  BY <1>2, <1>4 DEF LinesAccounted
<1>7. base \in Nat
  BY DEF FeedTypes
<1> QED
  BY <1>1, <1>2, <1>3, <1>4, <1>5, <1>6, <1>7, QuietStep

----------------------------------------------------------------------------
\* Every step keeps the invariant and implements the feed.
LEMMA FeedStepKeeps ==
    ASSUME FeedInv, IngestStep PROVE FeedInv' /\ Feed!FeedNext
<1>1. ASSUME NEW a \in Attempt, NEW whole \in BOOLEAN, Write(a, whole)
      PROVE  FeedInv' /\ Feed!FeedNext
  BY <1>1, WriteKeeps
<1>2. CASE Follow
  <2>1. CASE IngestFails
    BY <2>1, DropLineKeeps DEF IngestFails
  <2>2. CASE PoolTimeout
    BY <2>2, DropLineKeeps DEF PoolTimeout
  <2> QED
    BY <1>2, <2>1, <2>2, PollKeeps, IngestKeeps DEF Follow
<1>3. ASSUME NEW l \in Labs, EditEndpoint(l)
      PROVE  FeedInv' /\ Feed!FeedNext
  <2>1. endpoint' \in [Labs -> {"none", "disabled", "enabled"}]
    BY <1>3 DEF EditEndpoint, FeedInv, FeedTypes
  <2> QED
    BY <1>3, <2>1, OtherwiseKeeps DEF EditEndpoint
<1>4. CASE UNCHANGED <<fileVars, taskVars, events, endpoint, exempt>>
  <2>1. endpoint' \in [Labs -> {"none", "disabled", "enabled"}]
    BY <1>4 DEF FeedInv, FeedTypes
  <2> QED
    BY <1>4, <2>1, OtherwiseKeeps
<1> QED
  BY <1>1, <1>2, <1>3, <1>4, WriteRestKeeps, TruncateKeeps, StartKeeps, PollRaisesKeeps,
     StopKeeps DEF IngestStep

\* What is passed is accounted for.
LEMMA NothingElse ==
    ASSUME FeedInv PROVE NothingElseIsLost
<1>1. /\ Len(log) \in Nat /\ Place \in base..Len(log) /\ Reach \in Place..Len(log)
      /\ Position \in 0..Place /\ base \in Nat /\ next \in Nat /\ last \in Nat
      /\ LoopTaken => Position = next - 1
  BY PlaceBounds DEF FeedInv, FeedTypes
<1>2. SUFFICES ASSUME NEW k \in 1..Position PROVE k \in exempt \/ Stored(k)
  BY DEF NothingElseIsLost, Stored
<1>3. k \in 1..Reach /\ k \notin next..last
  BY <1>1 DEF LoopTaken
<1> QED
  BY <1>3 DEF FeedInv, LinesAccounted

\* Every step of the ingestion alone is one of these.
LEMMA IngestNextStep ==
    ASSUME [IngestNext]_ingestVars PROVE IngestStep
<1>1. CASE UNCHANGED ingestVars
  BY <1>1 DEF IngestStep, ingestVars
<1>2. ASSUME NEW n \in 0..Conns, Hold(n) PROVE IngestStep
  BY <1>2 DEF IngestStep, Hold
<1>3. CASE IngestNext
  BY <1>2, <1>3 DEF IngestNext, IngestStep
<1> QED
  BY <1>1, <1>3

\* The invariant of the ingestion, with any number of lines, labs and connections.
THEOREM IngestionInvariant == IngestSpec => []FeedInv
<1>1. IngestInit => FeedInv
  BY FeedInvAtFirst
<1>2. FeedInv /\ [IngestNext]_ingestVars => FeedInv'
  BY FeedStepKeeps, IngestNextStep
<1> QED
  BY <1>1, <1>2, PTL DEF IngestSpec

\* The ingestion implements the event feed: no line becomes two events, and events come
\* in the order of the log (auth_log_ingestion.py:143-182).
THEOREM IngestionImplementsFeed == IngestSpec => FeedIsImplemented
<1>1. IngestInit => Feed!FeedInit
  BY FeedInvAtFirst
<1>2. FeedInv /\ [IngestNext]_ingestVars => [Feed!FeedNext]_Feed!feedVars
  BY FeedStepKeeps, IngestNextStep
<1> QED
  BY <1>1, <1>2, IngestionInvariant, PTL DEF IngestSpec, FeedIsImplemented, Feed!FeedSpec

\* Lines are lost for the known reasons only (auth_log_ingestion.py:152-182).
THEOREM IngestionLosesNothingElse == IngestSpec => []NothingElseIsLost
<1>1. FeedInv => NothingElseIsLost
  BY NothingElse
<1> QED
  BY <1>1, IngestionInvariant, PTL

\* Events come in the order of the log, none twice.
THEOREM EventsComeInOrder == IngestSpec => []Feed!InOrder
<1>1. FeedInv => Feed!InOrder
  BY DEF FeedInv, EventsRise, Feed!InOrder
<1> QED
  BY <1>1, IngestionInvariant, PTL

----------------------------------------------------------------------------
(***************************************************************************)
(* The authentication tests beside it.                                     *)
(***************************************************************************)

TestRecord ==
    [kind: TestKinds \cup {"peap"}, lab: Labs, since: 0..MaxTime,
     known: {"none", "disabled", "enabled"}, ok: BOOLEAN,
     reply: Replies \cup {NoReply}, line: Nat]

ReportRecord ==
    [event: Nat, ok: BOOLEAN, reply: Shown,
     reason: Reasons \cup {"no answer", "tool"}]

\* The types of what the tests are made of.
TestTypes ==
    /\ now \in 0..MaxTime
    /\ pc \in [Tests -> {"idle", "resolve", "prepare", "run", "answered", "wait", "close"}]
    /\ test \in [Tests -> TestRecord]
    /\ holds \subseteq Tests
    /\ others \in Nat
    /\ report \in [Tests -> ReportRecord]
    /\ edited \subseteq Tests

\* Every connection that is held is some test's or some other request's.
Accounted ==
    /\ held = Cardinality(holds) + others
    /\ held \in 0..Conns

\* Before its first query a test holds no connection.
HoldsFit == \A t \in Tests : pc[t] \in {"idle", "resolve"} => t \notin holds

\* The line of a test is what FreeRADIUS answered it.
LineIs(x, a) ==
    /\ a.id = Identity(x.kind) /\ a.kind = x.kind /\ a.at >= x.since
    /\ x.ok => a.ok
    /\ x.reply # NoReply => a.reply = x.reply
    /\ x.kind = "mab" => a.why = "unattributed"

\* What ReportedWereGranted asks of a test x with report r.
WasGranted(x, r) ==
    \E k \in DOMAIN log :
        /\ log[k].ok /\ log[k].reply # NoReply
        /\ log[k].id = Identity(x.kind)
        /\ log[k].at >= x.since - Slack
        /\ \/ log[k].reply = r.reply
           \/ r.event # 0 /\ events[r.event].line = k /\ ~events[r.event].whole

\* What a test x with report r knows at step p fits the log and the events.
Fits(p, x, r) ==
    /\ p = "idle" => x = NoTest
    /\ p = "prepare" => x.kind = "eap_tls"
    /\ p # "close" => r = NoReport
    /\ p \in {"idle", "resolve", "prepare", "run"} => x.line = 0
    /\ x.since <= now
    /\ x.line <= Len(log)
    /\ x.line # 0 => LineIs(x, log[x.line])
    /\ x.line = 0 => ~x.ok
    /\ x.reply # NoReply => x.ok
    /\ r.reply # NoReply => r.ok /\ WasGranted(x, r)
    /\ r.event # 0 => r.event \in DOMAIN events /\ r.reason = FailureOf(x)

\* The event of the reject of test x.
Own(x, e) == e.line = x.line /\ ~e.ok /\ e.method = "mab" /\ e.lab = x.lab

Because(known) ==
    CASE known = "none" -> "unknown MAC"
      [] known = "disabled" -> "endpoint disabled"
      [] OTHER -> "unattributed"

\* While the endpoint list is left alone, a test knows what the list says, and so does the
\* event of its reject.
Agrees(p, x, r) ==
    x.kind = "mab" =>
        /\ (p \in {"run", "answered", "wait"} \/ r.event # 0) => x.known = endpoint[x.lab]
        /\ p # "idle" => \A i \in DOMAIN events :
               Own(x, events[i]) => events[i].reason = Because(endpoint[x.lab])

TestsFit ==
    \A t \in Tests :
        /\ Fits(pc[t], test[t], report[t])
        /\ t \notin edited => Agrees(pc[t], test[t], report[t])

\* The inductive invariant of the tests.
AuthInv == FeedInv /\ TestTypes /\ Accounted /\ HoldsFit /\ TestsFit

----------------------------------------------------------------------------
\* A connection is taken from those that are free.
LEMMA ConnectCounts ==
    ASSUME Accounted, holds \subseteq Tests, others \in Nat, NEW t \in Tests,
           t \notin holds, Connect(t), others' = others
    PROVE  Accounted'
<1>1. IsFiniteSet(holds)
  BY FS_Subset, TestAssumption
<1>2. Cardinality(holds) \in Nat /\ Cardinality(holds \cup {t}) = Cardinality(holds) + 1
  BY <1>1, FS_CardinalityType, FS_AddElement
<1>3. held' = held + 1 /\ holds' = holds \cup {t} /\ held < Conns
  BY DEF Connect
<1> QED
  BY <1>2, <1>3, IngestionAssumption DEF Accounted

\* A test gives back what it holds, once.
LEMMA ReleaseCounts ==
    ASSUME Accounted, holds \subseteq Tests, others \in Nat, NEW t \in Tests,
           held' = Released(t), holds' = holds \ {t}, others' = others
    PROVE  Accounted'
<1>1. IsFiniteSet(holds)
  BY FS_Subset, TestAssumption
<1>2. Cardinality(holds) \in Nat
      /\ Cardinality(holds \ {t}) = IF t \in holds THEN Cardinality(holds) - 1
                                    ELSE Cardinality(holds)
  BY <1>1, FS_CardinalityType, FS_RemoveElement
<1>3. Cardinality({t}) = 1 /\ Cardinality({}) = 0
  BY FS_Singleton, FS_EmptySet
<1>4. CASE t \in holds
  <2>1. holds \cap {t} = {t}
    BY <1>4
  <2>2. held' = held - 1 /\ Cardinality(holds') = Cardinality(holds) - 1
    BY <1>2, <1>3, <1>4, <2>1 DEF Released
  <2>3. IsFiniteSet(holds')
    BY <1>1, FS_Subset
  <2>4. Cardinality(holds') \in Nat
    BY <2>3, FS_CardinalityType
  <2> QED
    BY <1>2, <2>2, <2>4, IngestionAssumption DEF Accounted
<1>5. CASE t \notin holds
  <2>1. holds \cap {t} = {} /\ holds' = holds
    BY <1>5
  <2>2. held' = held - 0
    BY <1>3, <2>1 DEF Released
  <2> QED
    BY <1>2, <2>1, <2>2, IngestionAssumption DEF Accounted
<1> QED
  BY <1>4, <1>5

\* Records of the initial state.
LEMMA NothingIsTyped == NoTest \in TestRecord /\ NoReport \in ReportRecord
BY IngestionAssumption, TestAssumption DEF NoTest, NoReport, TestRecord, ReportRecord, Shown

\* A test that has not begun knows nothing.
LEMMA NothingIsKnown ==
    /\ NoTest.since = 0 /\ NoTest.line = 0 /\ ~NoTest.ok /\ NoTest.reply = NoReply
    /\ NoTest.kind = "peap" /\ NoReport.reply = NoReply /\ NoReport.event = 0
BY DEF NoTest, NoReport

----------------------------------------------------------------------------
\* The log and the events grow at their end, and only a line being stored adds an event.
LEMMA LogGrows ==
    ASSUME FeedInv, IngestStep
    PROVE  /\ Len(log) \in Nat /\ Len(log') \in Nat /\ Len(log) <= Len(log')
           /\ \A k \in 1..Len(log) : log'[k] = log[k]
           /\ DOMAIN log = 1..Len(log) /\ DOMAIN log' = 1..Len(log')
<1>1. log \in Seq(Attempt) /\ Len(log) \in Nat
  BY DEF FeedInv, FeedTypes
<1>2. log' = log \/ \E a \in Attempt : log' = Append(log, a)
  BY DEF IngestStep, Write, WriteRest, Truncate, Start, Follow, Poll, Ingest, IngestFails,
         PoolTimeout, DropLine, PollRaises, Stop, EditEndpoint, fileVars
<1> QED
  BY <1>1, <1>2

\* An event is added, and then the file and the endpoint list stay; or none is.
LEMMA EventsGrow ==
    ASSUME FeedInv, IngestStep
    PROVE  \/ events' = events
           \/ /\ log' = log /\ endpoint' = endpoint
              /\ next \in 1..Len(log)
              /\ \E cut \in Cuts \ {"header"} :
                     \E why \in WhysLeft(log[next], cut), reply \in Granted(log[next], cut),
                        l \in LabOf(log[next].nas) :
                         events' = Append(events, EventFor(next, cut, why, reply, l))
<1>1. events' = events \/ Ingest
  BY DEF IngestStep, Write, WriteRest, Truncate, Start, Follow, Poll, IngestFails,
         PoolTimeout, DropLine, PollRaises, Stop, EditEndpoint
<1>2. CASE Ingest /\ events' # events
  <2>1. log' = log /\ endpoint' = endpoint /\ LoopTaken
    BY <1>2 DEF Ingest, fileVars
  <2>2. next \in 1..Len(log)
    BY <2>1, PlaceBounds DEF FeedInv, FeedTypes, LoopTaken
  <2>3. \E cut \in Cuts \ {"header"} :
            \E why \in WhysLeft(log[next], cut), reply \in Granted(log[next], cut),
               l \in LabOf(log[next].nas) :
                events' = Append(events, EventFor(next, cut, why, reply, l))
    BY <1>2 DEF Ingest, CutsRead, Cuts
  <2> QED
    BY <2>1, <2>2, <2>3
<1> QED
  BY <1>1, <1>2

\* What surrounds a test changes, and the test still fits.
LEMMA FitsStill ==
    ASSUME FeedInv, IngestStep, now \in Nat, now' \in Nat, now <= now',
           NEW p, NEW x \in TestRecord, NEW r \in ReportRecord, Fits(p, x, r)
    PROVE  Fits(p, x, r)'
<1>1. /\ Len(log) \in Nat /\ Len(log') \in Nat /\ Len(log) <= Len(log')
      /\ \A k \in 1..Len(log) : log'[k] = log[k]
      /\ DOMAIN log = 1..Len(log) /\ DOMAIN log' = 1..Len(log')
  BY LogGrows
<1>2. x.since \in Nat /\ x.line \in Nat /\ r.event \in Nat
  <2>1. x.since \in 0..MaxTime /\ x.line \in Nat
    BY DEF TestRecord
  <2>2. r.event \in Nat
    BY DEF ReportRecord
  <2>3. MaxTime \in Nat
    BY TestAssumption
  <2> QED
    BY <2>1, <2>2, <2>3
<1>3. x.since <= now' /\ x.line <= Len(log')
  BY <1>1, <1>2 DEF Fits
<1>4. x.line # 0 => LineIs(x, log'[x.line])
  BY <1>1, <1>2 DEF Fits
<1>6. DOMAIN events \subseteq DOMAIN events' /\ \A i \in DOMAIN events : events'[i] = events[i]
  <2>1. events \in Seq(Event)
    BY DEF FeedInv, FeedTypes
  <2>2. ASSUME NEW e, events' = Append(events, e)
        PROVE  /\ DOMAIN events \subseteq DOMAIN events'
               /\ \A i \in DOMAIN events : events'[i] = events[i]
    BY <2>1, <2>2
  <2> QED
    BY <2>2, EventsGrow
<1>5. r.reply # NoReply => r.ok /\ WasGranted(x, r)'
  BY <1>1, <1>6 DEF Fits, WasGranted
<1> QED
  BY <1>3, <1>4, <1>5, <1>6 DEF Fits, LineIs

\* What a test knows of the endpoint list goes on agreeing while nobody edits it.
LEMMA AgreesStill ==
    ASSUME FeedInv, IngestStep,
           NEW p, NEW x \in TestRecord, NEW r \in ReportRecord, Fits(p, x, r),
           Agrees(p, x, r), endpoint' = endpoint \/ p = "idle"
    PROVE  Agrees(p, x, r)'
<1>1. CASE p = "idle"
  <2>1. x.kind # "mab"
    BY <1>1 DEF Fits, NoTest
  <2> QED
    BY <2>1 DEF Agrees
<1>2. CASE p # "idle" /\ events' = events
  BY <1>2 DEF Agrees, Own
<1>3. CASE p # "idle" /\ events' # events
  <2>1. /\ log' = log /\ endpoint' = endpoint /\ next \in 1..Len(log)
    BY <1>3, EventsGrow
  <2>0. PICK cut \in Cuts \ {"header"} :
            \E why \in WhysLeft(log[next], cut), reply \in Granted(log[next], cut),
               l \in LabOf(log[next].nas) :
                events' = Append(events, EventFor(next, cut, why, reply, l))
    BY <1>3, EventsGrow
  <2>2. PICK why \in WhysLeft(log[next], cut), reply \in Granted(log[next], cut),
             l \in LabOf(log[next].nas) :
                events' = Append(events, EventFor(next, cut, why, reply, l))
    BY <2>0
  <2>3. PICK e : e = EventFor(next, cut, why, reply, l)
    OBVIOUS
  <2>4. PICK a \in Attempt : a = log[next]
    BY <2>1 DEF FeedInv, FeedTypes
  <2>5. /\ e.line = next /\ e.ok = a.ok /\ e.method = MethodOf(a, cut) /\ e.lab = l
        /\ e.reason = Explained(a, cut, why, l)
    BY <2>3, <2>4 DEF EventFor
  <2>6. SUFFICES ASSUME x.kind = "mab", NEW i \in DOMAIN events', Own(x, events'[i])
                 PROVE  events'[i].reason = Because(endpoint[x.lab])
    BY <1>2, <1>3, <2>1 DEF Agrees, Own
  <2>7. events \in Seq(Event) /\ Len(events) \in Nat
    BY DEF FeedInv, FeedTypes
  <2>8. CASE i = Len(events) + 1
    <3>1. events'[i] = e
      BY <2>2, <2>3, <2>7, <2>8
    <3>2. x.line = next /\ ~a.ok /\ MethodOf(a, cut) = "mab" /\ x.lab = l
      BY <2>5, <2>6, <3>1 DEF Own
    <3>3. why = "unattributed"
      <4>1. a.why = "unattributed" /\ a.kind = "mab"
        BY <2>1, <2>4, <2>6, <3>2 DEF Fits, LineIs
      <4>2. cut # "reason"
        BY <3>2, <4>1 DEF MethodOf
      <4> QED
        BY <2>4, <4>1, <4>2 DEF WhysLeft
    <3>4. e.reason = IF ListReason(l) # "none" THEN ListReason(l) ELSE "unattributed"
      BY <2>5, <3>2, <3>3 DEF Explained
    <3> QED
      BY <3>1, <3>2, <3>4 DEF ListReason, Because
  <2>9. CASE i # Len(events) + 1
    <3>1. i \in DOMAIN events /\ events'[i] = events[i]
      BY <2>2, <2>6, <2>7, <2>9
    <3> QED
      BY <1>3, <2>6, <3>1 DEF Agrees
  <2> QED
    BY <2>8, <2>9
<1> QED
  BY <1>1, <1>2, <1>3

----------------------------------------------------------------------------
(***************************************************************************)
(* Steps of a test that leave the ingestion alone, but for the connections.*)
(***************************************************************************)

\* Nothing but one test moves: it fits if its new record does.
LEMMA OneTestMoves ==
    ASSUME AuthInv, NEW t \in Tests,
           UNCHANGED unchangedIngest, now' = now, edited' \subseteq Tests,
           \A u \in Tests \ {t} : u \in edited' <=> u \in edited,
           NEW p \in {"idle", "resolve", "prepare", "run", "answered", "wait", "close"},
           NEW x \in TestRecord, NEW r \in ReportRecord,
           pc' = [pc EXCEPT ![t] = p], test' = [test EXCEPT ![t] = x],
           report' = [report EXCEPT ![t] = r],
           Fits(p, x, r), t \notin edited' => Agrees(p, x, r),
           holds' \subseteq Tests, others' \in Nat, Accounted',
           \A u \in Tests \ {t} : u \in holds' => u \in holds,
           t \in holds' => p \notin {"idle", "resolve"}
    PROVE  AuthInv'
<1>1. FeedInv'
  <2>1. IngestStep
    BY DEF IngestStep, unchangedIngest
  <2> QED
    BY <2>1, FeedStepKeeps DEF AuthInv
<1>2. TestTypes'
  BY DEF AuthInv, TestTypes
<1>3. HoldsFit'
  BY DEF AuthInv, HoldsFit, TestTypes
<1>4. TestsFit'
  <2>1. ASSUME NEW q, NEW y, NEW z, Fits(q, y, z) PROVE Fits(q, y, z)'
    BY <2>1 DEF Fits, WasGranted, unchangedIngest, fileVars
  <2>2. ASSUME NEW q, NEW y, NEW z, Agrees(q, y, z) PROVE Agrees(q, y, z)'
    BY <2>2 DEF Agrees, unchangedIngest
  <2>3. ASSUME NEW u \in Tests
        PROVE  /\ Fits(pc[u], test[u], report[u])'
               /\ u \notin edited' => Agrees(pc[u], test[u], report[u])'
    <3>1. PICK q, y, z : /\ q = pc'[u] /\ y = test'[u] /\ z = report'[u]
                         /\ Fits(q, y, z)
                         /\ u \notin edited' => Agrees(q, y, z)
      <4>1. CASE u = t
        BY <4>1 DEF AuthInv, TestTypes
      <4>2. CASE u # t
        BY <4>2 DEF AuthInv, TestTypes, TestsFit
      <4> QED
        BY <4>1, <4>2
    <3>2. Fits(q, y, z)' /\ (u \notin edited' => Agrees(q, y, z)')
      BY <2>1, <2>2, <3>1
    <3> QED
      BY <3>1, <3>2 DEF Fits, WasGranted, Agrees
  <2> QED
    BY <2>3 DEF TestsFit
<1> QED
  BY <1>1, <1>2, <1>3, <1>4 DEF AuthInv

\* What is known of the records of a test.
LEMMA TestIsTyped ==
    ASSUME AuthInv, NEW t \in Tests
    PROVE  /\ pc[t] \in {"idle", "resolve", "prepare", "run", "answered", "wait", "close"}
           /\ test[t] \in TestRecord /\ report[t] \in ReportRecord
           /\ Fits(pc[t], test[t], report[t])
           /\ t \notin edited => Agrees(pc[t], test[t], report[t])
           /\ pc' = [pc EXCEPT ![t] = pc[t]] <=> pc' = pc
           /\ test' = [test EXCEPT ![t] = test[t]] <=> test' = test
           /\ report' = [report EXCEPT ![t] = report[t]] <=> report' = report
BY DEF AuthInv, TestTypes, TestsFit

\* A request that begins knows nothing yet.
LEMMA BeginKeeps ==
    ASSUME AuthInv, NEW t \in Tests, Begin(t) PROVE AuthInv'
<1>1. PICK k \in TestKinds, l \in Labs :
          test' = [test EXCEPT ![t] = [NoTest EXCEPT !.kind = k, !.lab = l, !.since = now]]
  BY DEF Begin
<1>2. PICK x : x = [NoTest EXCEPT !.kind = k, !.lab = l, !.since = now]
  OBVIOUS
<1>3. /\ x \in TestRecord /\ x.line = 0 /\ ~x.ok /\ x.reply = NoReply
      /\ x.since = now /\ x.kind = k
  BY <1>2, IngestionAssumption DEF NoTest, TestRecord, AuthInv, TestTypes
<1>4. test'[t].kind = k
  BY <1>1, <1>2, <1>3 DEF AuthInv, TestTypes
<1>5. PICK p \in {"resolve", "prepare"} :
          pc' = [pc EXCEPT ![t] = p] /\ (p = "prepare" => k = "eap_tls")
  BY <1>4 DEF Begin, Goto
<1>6. pc[t] = "idle" /\ report[t] = NoReport /\ report' = report /\ t \notin holds
  BY TestIsTyped DEF Begin, Fits, AuthInv, HoldsFit
<1>7. Fits(p, x, NoReport)
  BY <1>3, <1>5 DEF Fits, NoReport, AuthInv, FeedInv, FeedTypes, TestTypes
<1>8. Agrees(p, x, NoReport)
  <2>1. \A i \in DOMAIN events : events[i].line # 0
    BY DEF AuthInv, FeedInv, EventsRise
  <2> QED
    BY <1>3, <1>5, <2>1 DEF Agrees, NoReport, Own
<1>9. report' = [report EXCEPT ![t] = NoReport]
  BY <1>6 DEF AuthInv, TestTypes
<1>10. Accounted' /\ holds' \subseteq Tests /\ others' \in Nat
  BY DEF Begin, ingestVars, AuthInv, Accounted, TestTypes
<1>11. UNCHANGED unchangedIngest /\ now' = now /\ holds' = holds
       /\ edited' = edited \ {t} /\ edited' \subseteq Tests
  BY DEF Begin, ingestVars, unchangedIngest, AuthInv, TestTypes
<1>12. PICK r \in ReportRecord : r = NoReport
  BY NothingIsTyped
<1>13. /\ test' = [test EXCEPT ![t] = x] /\ report' = [report EXCEPT ![t] = r]
       /\ Fits(p, x, r) /\ Agrees(p, x, r)
  BY <1>1, <1>2, <1>7, <1>8, <1>9, <1>12
<1>14. /\ \A u \in Tests \ {t} : u \in edited' <=> u \in edited
       /\ \A u \in Tests \ {t} : u \in holds' => u \in holds
       /\ t \in holds' => p \notin {"idle", "resolve"}
  BY <1>6, <1>11
<1>15. p \in {"idle", "resolve", "prepare", "run", "answered", "wait", "close"}
  OBVIOUS
<1>16. pc' = [pc EXCEPT ![t] = p] /\ x \in TestRecord
  BY <1>3, <1>5
<1>17. t \notin edited' => Agrees(p, x, r)
  BY <1>13
<1> QED
  BY <1>10, <1>11, <1>13, <1>14, <1>15, <1>16, <1>17, OneTestMoves

\* A test that only goes on, or ends early.
LEMMA GotoKeeps ==
    ASSUME AuthInv, NEW t \in Tests, NEW p \in {"run", "wait", "close"}, Goto(t, p),
           UNCHANGED <<ingestVars, now, test, holds, others, report, edited>>,
           Fits(p, test[t], report[t]), t \notin edited => Agrees(p, test[t], report[t])
    PROVE  AuthInv'
<1>1. PICK x \in TestRecord, r \in ReportRecord : x = test[t] /\ r = report[t]
  BY TestIsTyped
<1>2. /\ pc' = [pc EXCEPT ![t] = p] /\ test' = [test EXCEPT ![t] = x]
      /\ report' = [report EXCEPT ![t] = r]
  BY <1>1 DEF Goto, AuthInv, TestTypes
<1>3. Fits(p, x, r) /\ (t \notin edited' => Agrees(p, x, r))
  BY <1>1
<1>4. Accounted' /\ holds' \subseteq Tests /\ others' \in Nat /\ edited' \subseteq Tests
  BY DEF ingestVars, AuthInv, Accounted, TestTypes
<1>5. UNCHANGED unchangedIngest /\ now' = now
  BY DEF ingestVars, unchangedIngest
<1>6. /\ \A u \in Tests \ {t} : u \in edited' <=> u \in edited
      /\ \A u \in Tests \ {t} : u \in holds' => u \in holds
      /\ t \in holds' => p \notin {"idle", "resolve"}
  OBVIOUS
<1>7. p \in {"idle", "resolve", "prepare", "run", "answered", "wait", "close"}
  OBVIOUS
<1> QED
  BY <1>2, <1>3, <1>4, <1>5, <1>6, <1>7, OneTestMoves

\* A request that finds no connection, a certificate that is not there, a tool that fails.
LEMMA EndsEarlyKeeps ==
    ASSUME AuthInv, NEW t \in Tests, NoConnection(t) \/ Prepare(t) \/ ToolRaises(t)
    PROVE  AuthInv'
<1>1. /\ Fits(pc[t], test[t], report[t])
      /\ t \notin edited => Agrees(pc[t], test[t], report[t])
  BY TestIsTyped
<1>2. pc[t] \in {"resolve", "prepare", "run", "answered", "wait"}
  BY DEF NoConnection, Prepare, ToolRaises
<1>3. report[t] = NoReport
  BY <1>1, <1>2 DEF Fits
<1>4. Fits("close", test[t], report[t])
  BY <1>1, <1>2, <1>3 DEF Fits
<1>5. t \notin edited => Agrees("close", test[t], report[t])
  BY <1>1, <1>2, <1>3 DEF Agrees, NoReport
<1>6. CASE Goto(t, "close")
  <2>1. UNCHANGED <<ingestVars, now, test, holds, others, report, edited>>
    BY DEF NoConnection, Prepare, ToolRaises
  <2> QED
    BY <1>4, <1>5, <1>6, <2>1, GotoKeeps
<1>7. CASE ~Goto(t, "close")
  <2>1. pc[t] = "prepare" /\ Goto(t, "run")
        /\ UNCHANGED <<ingestVars, now, test, holds, others, report, edited>>
    BY <1>7 DEF NoConnection, Prepare, ToolRaises
  <2>2. test[t].kind = "eap_tls"
    BY <1>1, <2>1 DEF Fits
  <2>3. Fits("run", test[t], report[t])
    BY <1>1, <1>3, <2>1 DEF Fits
  <2>4. Agrees("run", test[t], report[t])
    BY <2>2 DEF Agrees
  <2> QED
    BY <2>1, <2>3, <2>4, GotoKeeps
<1> QED
  BY <1>6, <1>7

\* A test that knows no more of its line than before still fits.
LEMMA FitsAlike ==
    ASSUME NEW p, NEW q, NEW x \in TestRecord, NEW y \in TestRecord,
           Fits(p, y, NoReport), q # "idle", q # "close",
           q = "prepare" => x.kind = "eap_tls",
           q \in {"resolve", "prepare", "run"} => p = "resolve",
           x.kind = y.kind, x.since = y.since, x.line = y.line, x.ok => y.ok,
           x.reply # NoReply => x.reply = y.reply /\ x.ok = y.ok
    PROVE  Fits(q, x, NoReport)
<1>1. NoReport.reply = NoReply /\ NoReport.event = 0
  BY DEF NoReport
<1>2. x.reply # NoReply => x.ok
  BY DEF Fits
<1>3. /\ q \in {"idle", "resolve", "prepare", "run"} => x.line = 0
      /\ x.since <= now /\ x.line <= Len(log)
  BY DEF Fits
<1>4. x.line = 0 => ~x.ok
  BY DEF Fits
<1>5. x.line # 0 => LineIs(x, log[x.line])
  BY DEF Fits, LineIs
<1> QED
  BY <1>1, <1>2, <1>3, <1>4, <1>5 DEF Fits

\* The look-up takes a connection and notes what the endpoint list says.
LEMMA ResolveKeeps ==
    ASSUME AuthInv, NEW t \in Tests, Resolve(t) PROVE AuthInv'
<1>1. /\ pc[t] = "resolve" /\ Connect(t) /\ others' = others /\ edited' = edited
      /\ UNCHANGED unchangedIngest /\ now' = now /\ report' = report
  BY DEF Resolve
<1>2. /\ Fits("resolve", test[t], report[t])
      /\ t \notin edited => Agrees("resolve", test[t], report[t])
      /\ test[t] \in TestRecord
  BY <1>1, TestIsTyped
<1>3. t \notin holds /\ holds \subseteq Tests /\ others \in Nat
  BY <1>1 DEF AuthInv, HoldsFit, TestTypes
<1>4. Accounted' /\ holds' = holds \cup {t}
  BY <1>1, <1>3, ConnectCounts DEF AuthInv, Connect
<1>5. PICK r \in ReportRecord : r = NoReport /\ r = report[t]
  BY <1>2, NothingIsTyped DEF Fits
<1>6. report' = [report EXCEPT ![t] = r]
  BY <1>1, <1>5 DEF AuthInv, TestTypes
<1>7. \E p \in {"prepare", "run", "close"}, x \in TestRecord :
          /\ pc' = [pc EXCEPT ![t] = p] /\ test' = [test EXCEPT ![t] = x]
          /\ Fits(p, x, r) /\ (t \notin edited => Agrees(p, x, r))
  <2>1. CASE Goto(t, "close") /\ UNCHANGED test
    <3>1. PICK x \in TestRecord : x = test[t]
      BY <1>2
    <3>2. pc' = [pc EXCEPT ![t] = "close"] /\ test' = [test EXCEPT ![t] = x]
      BY <2>1, <3>1 DEF Goto, AuthInv, TestTypes
    <3>3. Fits("close", x, r)
      BY <1>2, <1>5, <3>1 DEF Fits
    <3>4. t \notin edited => Agrees("close", x, r)
      BY <1>2, <1>5, <3>1 DEF Agrees, NoReport
    <3> QED
      BY <3>2, <3>3, <3>4
  <2>2. CASE ~(Goto(t, "close") /\ UNCHANGED test)
    <3>1. PICK known \in {"none", "disabled", "enabled"} :
              known = IF test[t].kind = "mab" THEN endpoint[test[t].lab]
                      ELSE test[t].known
      BY <1>2 DEF TestRecord, AuthInv, FeedInv, FeedTypes
    <3>2. PICK x : x = [test[t] EXCEPT !.known = known]
      OBVIOUS
    <3>3. /\ x \in TestRecord /\ x.kind = test[t].kind /\ x.lab = test[t].lab
          /\ x.since = test[t].since /\ x.line = test[t].line /\ x.ok = test[t].ok
          /\ x.reply = test[t].reply /\ x.known = known
      BY <1>2, <3>2 DEF TestRecord
    <3>4. test' = [test EXCEPT ![t] = x]
      BY <2>2, <3>1, <3>2 DEF Resolve, AuthInv, TestTypes
    <3>5. PICK p : p = IF x.kind = "eap_tls" THEN "prepare" ELSE "run"
      OBVIOUS
    <3>6. pc' = [pc EXCEPT ![t] = p] /\ p \in {"prepare", "run"}
      BY <2>2, <3>3, <3>5 DEF Resolve, Goto
    <3>7. Fits(p, x, r)
      <4>1. PICK y \in TestRecord : y = test[t] /\ Fits("resolve", y, r)
        BY <1>2, <1>5
      <4>2. p # "close" /\ p # "idle" /\ (p = "prepare" => x.kind = "eap_tls")
        BY <3>5
      <4> QED
        BY <1>5, <3>3, <4>1, <4>2, FitsAlike
    <3>8. ASSUME t \notin edited PROVE Agrees(p, x, r)
      BY <1>2, <1>5, <3>1, <3>3, <3>8 DEF Agrees, Own
    <3> QED
      BY <3>3, <3>4, <3>6, <3>7, <3>8
  <2> QED
    BY <2>1, <2>2
<1>8. PICK p \in {"prepare", "run", "close"}, x \in TestRecord :
          /\ pc' = [pc EXCEPT ![t] = p] /\ test' = [test EXCEPT ![t] = x]
          /\ Fits(p, x, r) /\ (t \notin edited' => Agrees(p, x, r))
  BY <1>1, <1>7
<1>9. /\ \A u \in Tests \ {t} : u \in edited' <=> u \in edited
      /\ \A u \in Tests \ {t} : u \in holds' => u \in holds
      /\ t \in holds' => p \notin {"idle", "resolve"}
      /\ holds' \subseteq Tests /\ others' \in Nat /\ edited' \subseteq Tests
  BY <1>1, <1>3, <1>4 DEF AuthInv, TestTypes
<1>10. p \in {"idle", "resolve", "prepare", "run", "answered", "wait", "close"}
  OBVIOUS
<1> QED
  BY <1>1, <1>4, <1>6, <1>8, <1>9, <1>10, OneTestMoves

\* The tool ends with the answer, or without one.
LEMMA ToolEndsKeeps ==
    ASSUME AuthInv, NEW t \in Tests, ToolEnds(t) PROVE AuthInv'
<1>1. /\ pc[t] \in {"run", "answered"} /\ pc' = [pc EXCEPT ![t] = "wait"]
      /\ UNCHANGED <<ingestVars, now, holds, others, report, edited>>
  BY DEF ToolEnds, Goto
<1>2. /\ Fits(pc[t], test[t], report[t])
      /\ t \notin edited => Agrees(pc[t], test[t], report[t])
      /\ test[t] \in TestRecord
  BY TestIsTyped
<1>3. PICK r \in ReportRecord : r = NoReport /\ r = report[t]
  BY <1>1, <1>2, NothingIsTyped DEF Fits
<1>4. report' = [report EXCEPT ![t] = r]
  BY <1>1, <1>3 DEF AuthInv, TestTypes
<1>5. PICK x : /\ test' = [test EXCEPT ![t] = x]
               /\ \/ x = test[t]
                  \/ x = [test[t] EXCEPT !.ok = FALSE, !.reply = NoReply]
  BY DEF ToolEnds, AuthInv, TestTypes
<1>6. /\ x \in TestRecord /\ x.kind = test[t].kind /\ x.lab = test[t].lab
      /\ x.since = test[t].since /\ x.line = test[t].line /\ x.known = test[t].known
      /\ x.ok => test[t].ok
      /\ x.reply # NoReply => x.reply = test[t].reply /\ x.ok = test[t].ok
  BY <1>2, <1>5 DEF TestRecord
<1>7. Fits("wait", x, r)
  <2>1. PICK y \in TestRecord : y = test[t] /\ Fits(pc[t], y, r)
    BY <1>2, <1>3
  <2> QED
    BY <1>3, <1>6, <2>1, FitsAlike
<1>8. t \notin edited => Agrees("wait", x, r)
  BY <1>1, <1>2, <1>3, <1>6 DEF Agrees, Own
<1>9. Accounted' /\ holds' \subseteq Tests /\ others' \in Nat /\ edited' \subseteq Tests
  BY <1>1 DEF ingestVars, AuthInv, Accounted, TestTypes
<1>10. UNCHANGED unchangedIngest /\ now' = now /\ edited' = edited /\ holds' = holds
  BY <1>1 DEF ingestVars, unchangedIngest
<1>11. /\ \A u \in Tests \ {t} : u \in edited' <=> u \in edited
       /\ \A u \in Tests \ {t} : u \in holds' => u \in holds
       /\ t \notin edited' => Agrees("wait", x, r)
  BY <1>8, <1>10
<1> QED
  BY <1>1, <1>4, <1>5, <1>6, <1>7, <1>9, <1>10, <1>11, OneTestMoves

\* An EAP-TLS test takes its connection late.
LEMMA WaitConnectsKeeps ==
    ASSUME AuthInv, NEW t \in Tests, WaitConnects(t) PROVE AuthInv'
<1>1. /\ pc[t] = "wait" /\ t \notin holds /\ Connect(t) /\ pc' = pc /\ test' = test
      /\ report' = report /\ edited' = edited /\ others' = others /\ now' = now
      /\ UNCHANGED unchangedIngest
  BY DEF WaitConnects
<1>2. PICK x \in TestRecord, r \in ReportRecord :
          /\ x = test[t] /\ r = report[t] /\ Fits("wait", x, r)
          /\ t \notin edited => Agrees("wait", x, r)
  BY <1>1, TestIsTyped
<1>3. /\ pc' = [pc EXCEPT ![t] = "wait"] /\ test' = [test EXCEPT ![t] = x]
      /\ report' = [report EXCEPT ![t] = r]
  BY <1>1, <1>2 DEF AuthInv, TestTypes
<1>4. Accounted' /\ holds' = holds \cup {t}
  BY <1>1, ConnectCounts DEF AuthInv, Connect, TestTypes
<1>5. /\ \A u \in Tests \ {t} : u \in edited' <=> u \in edited
      /\ \A u \in Tests \ {t} : u \in holds' => u \in holds
      /\ holds' \subseteq Tests /\ others' \in Nat /\ edited' \subseteq Tests
      /\ t \notin edited' => Agrees("wait", x, r)
  BY <1>1, <1>2, <1>4 DEF AuthInv, TestTypes
<1> QED
  BY <1>1, <1>2, <1>3, <1>4, <1>5, OneTestMoves

\* The answer: the attributes are those of the tool, or of an event that matches, and the
\* event is a line of the log; the reason is what the test knows.
LEMMA RespondKeeps ==
    ASSUME AuthInv, NEW t \in Tests, NEW i \in Nat, Respond(t, i),
           pc[t] = "wait",
           i # 0 => /\ i \in DOMAIN events /\ Matches(test[t], events[i])
                    /\ events[i].id = Identity(test[t].kind),
           UNCHANGED <<ingestVars, now, test, holds, others, edited>>
    PROVE  AuthInv'
<1>1. PICK x \in TestRecord : /\ x = test[t] /\ Fits("wait", x, NoReport)
                              /\ t \notin edited => Agrees("wait", x, NoReport)
  BY TestIsTyped DEF Fits
<1>2. PICK r : r = [event |-> i, ok |-> x.ok, reply |-> Borrowed(x, i),
                    reason |-> FailureOf(x)]
  OBVIOUS
<1>3. i # 0 => /\ events[i] \in Event /\ EventIsTrue(events[i])
               /\ events[i].line \in DOMAIN log
  <2>1. SUFFICES ASSUME i # 0 PROVE /\ events[i] \in Event /\ EventIsTrue(events[i])
                                    /\ events[i].line \in DOMAIN log
    OBVIOUS
  <2>2. i \in DOMAIN events
    BY <2>1
  <2>3. events[i] \in Event /\ EventIsTrue(events[i])
    BY <2>2 DEF AuthInv, FeedInv, FeedTypes
  <2>4. events[i].line \in 1..Position
    BY <2>2 DEF AuthInv, FeedInv, EventsRise
  <2>5. /\ Position \in 0..Place /\ Place \in base..Len(log) /\ Len(log) \in Nat
        /\ base \in Nat
    BY PlaceBounds DEF AuthInv, FeedInv, FeedTypes
  <2>6. DOMAIN log = 1..Len(log)
    BY DEF AuthInv, FeedInv, FeedTypes
  <2> QED
    BY <2>3, <2>4, <2>5, <2>6
<1>4. r \in ReportRecord
  <2>1. Borrowed(x, i) \in Shown
    BY <1>3 DEF Borrowed, TestRecord, Event, Shown
  <2>2. FailureOf(x) \in Reasons \cup {"tool"}
    BY DEF FailureOf, Reasons, TestRecord
  <2>3. x.ok \in BOOLEAN
    BY DEF TestRecord
  <2> QED
    BY <1>2, <2>1, <2>2, <2>3 DEF ReportRecord
<1>5. ASSUME r.reply # NoReply PROVE x.ok /\ WasGranted(x, r)
  <2>0. r.reply = Borrowed(x, i)
    BY <1>2
  <2>1. x.since \in Nat /\ Slack \in Nat /\ x.line \in Nat
    <3>1. x.since \in 0..MaxTime /\ x.line \in Nat
      BY DEF TestRecord
    <3> QED
      BY <3>1, TestAssumption
  <2>2. CASE x.reply # NoReply
    <3>1. r.reply = x.reply /\ x.ok /\ x.line # 0
      BY <2>0, <2>2, <1>1 DEF Borrowed, Fits
    <3>2. x.line \in 1..Len(log) /\ LineIs(x, log[x.line])
      BY <1>1, <2>1, <3>1 DEF Fits, AuthInv, FeedInv, FeedTypes
    <3>3. log[x.line] \in Attempt /\ x.line \in DOMAIN log
      BY <3>2 DEF AuthInv, FeedInv, FeedTypes
    <3>4. log[x.line].at \in Nat
      BY <3>3 DEF Attempt
    <3>5. /\ log[x.line].ok /\ log[x.line].reply = r.reply /\ r.reply # NoReply
          /\ log[x.line].id = Identity(x.kind)
      BY <1>5, <2>2, <3>1, <3>2 DEF LineIs
    <3>6. log[x.line].at >= x.since - Slack
      BY <2>1, <3>2, <3>4 DEF LineIs
    <3> QED
      BY <3>1, <3>3, <3>5, <3>6 DEF WasGranted
  <2>3. CASE x.reply = NoReply
    <3>1. x.ok /\ i # 0 /\ r.reply = events[i].reply
      BY <1>5, <2>0, <2>3 DEF Borrowed
    <3>2. PICK k \in DOMAIN log : k = events[i].line
      BY <1>3, <3>1
    <3>3. events[i].at >= x.since - Slack /\ events[i].id = Identity(x.kind)
      BY <1>1, <3>1 DEF Matches
    <3>4. /\ log[k].ok /\ log[k].reply # NoReply /\ log[k].id = events[i].id
          /\ log[k].at = events[i].at
          /\ events[i].whole => log[k].reply = r.reply
      BY <1>3, <1>5, <3>1, <3>2 DEF EventIsTrue
    <3> QED
      BY <1>2, <3>1, <3>2, <3>3, <3>4 DEF WasGranted
  <2> QED
    BY <2>2, <2>3
<1>6. Fits("close", x, r)
  <2>1. r.ok = x.ok /\ r.event = i /\ r.reason = FailureOf(x)
    BY <1>2
  <2>2. r.reply # NoReply => r.ok /\ WasGranted(x, r)
    BY <1>5, <2>1
  <2> QED
    BY <1>1, <2>1, <2>2 DEF Fits
<1>7. t \notin edited => Agrees("close", x, r)
  BY <1>1 DEF Agrees
<1>8. /\ pc' = [pc EXCEPT ![t] = "close"] /\ test' = [test EXCEPT ![t] = x]
      /\ report' = [report EXCEPT ![t] = r]
  <2>1. test' = test /\ test' = [test EXCEPT ![t] = x]
    BY <1>1 DEF AuthInv, TestTypes
  <2>2. pc' = [pc EXCEPT ![t] = "close"]
    BY DEF Respond, Goto
  <2>3. report' = [report EXCEPT ![t] = r]
    BY <1>1, <1>2 DEF Respond
  <2> QED
    BY <2>1, <2>2, <2>3
<1>9. Accounted' /\ holds' \subseteq Tests /\ others' \in Nat /\ edited' \subseteq Tests
  BY DEF ingestVars, AuthInv, Accounted, TestTypes
<1>10. UNCHANGED unchangedIngest /\ now' = now
  BY DEF ingestVars, unchangedIngest
<1>11. /\ \A u \in Tests \ {t} : u \in edited' <=> u \in edited
       /\ \A u \in Tests \ {t} : u \in holds' => u \in holds
       /\ t \notin edited' => Agrees("close", x, r)
  BY <1>7
<1> QED
  BY <1>4, <1>6, <1>8, <1>9, <1>10, <1>11, OneTestMoves

\* A test is answered with an event that fits it, or with none.
LEMMA AnswersKeep ==
    ASSUME AuthInv, NEW t \in Tests, FindEvent(t) \/ GiveUp(t) PROVE AuthInv'
<1>1. CASE GiveUp(t)
  BY <1>1, RespondKeeps DEF GiveUp, StopsWaiting
<1>2. CASE FindEvent(t)
  <2>1. PICK i \in Latest(Identity(test[t].kind)) :
            Matches(test[t], events[i]) /\ Respond(t, i)
    BY <1>2 DEF FindEvent
  <2>2. i \in DOMAIN events /\ events[i].id = Identity(test[t].kind)
    BY <2>1 DEF Latest
  <2>3. i \in Nat
    BY <2>2 DEF AuthInv, FeedInv, FeedTypes
  <2>4. pc[t] = "wait" /\ UNCHANGED <<ingestVars, now, test, holds, others, edited>>
    BY <1>2 DEF FindEvent
  <2> QED
    BY <2>1, <2>2, <2>3, <2>4, RespondKeeps
<1> QED
  BY <1>1, <1>2

\* A request that ends leaves nothing.
LEMMA CloseKeeps ==
    ASSUME AuthInv, NEW t \in Tests, Close(t) PROVE AuthInv'
<1>1. /\ pc' = [pc EXCEPT ![t] = "idle"] /\ test' = [test EXCEPT ![t] = NoTest]
      /\ report' = [report EXCEPT ![t] = NoReport]
      /\ edited' = edited \ {t} /\ others' = others /\ now' = now
      /\ UNCHANGED unchangedIngest /\ held' = Released(t) /\ holds' = holds \ {t}
  BY DEF Close, Goto
<1>2. PICK x \in TestRecord, r \in ReportRecord : x = NoTest /\ r = NoReport
  BY NothingIsTyped
<1>3. Fits("idle", x, r)
  <2>1. now \in Nat /\ Len(log) \in Nat
    BY TestAssumption DEF AuthInv, TestTypes, FeedInv, FeedTypes
  <2>2. x.since = 0 /\ x.line = 0 /\ ~x.ok /\ x.reply = NoReply /\ r.reply = NoReply
        /\ r.event = 0
    BY <1>2 DEF NoTest, NoReport
  <2> QED
    BY <1>2, <2>1, <2>2 DEF Fits
<1>4. Agrees("idle", x, r)
  BY <1>2 DEF Agrees, NoTest
<1>5. Accounted'
  BY <1>1, ReleaseCounts DEF AuthInv, TestTypes
<1>6. /\ \A u \in Tests \ {t} : u \in edited' <=> u \in edited
      /\ \A u \in Tests \ {t} : u \in holds' => u \in holds
      /\ t \notin holds' /\ holds' \subseteq Tests /\ others' \in Nat
      /\ edited' \subseteq Tests
  BY <1>1 DEF AuthInv, TestTypes
<1>7. /\ pc' = [pc EXCEPT ![t] = "idle"] /\ test' = [test EXCEPT ![t] = x]
      /\ report' = [report EXCEPT ![t] = r]
  BY <1>1, <1>2
<1>8. /\ t \notin edited' => Agrees("idle", x, r)
      /\ t \in holds' => "idle" \notin {"idle", "resolve"}
  BY <1>4, <1>6
<1> QED
  BY <1>1, <1>3, <1>5, <1>6, <1>7, <1>8, OneTestMoves

----------------------------------------------------------------------------
(***************************************************************************)
(* Steps that change the log, the events or what surrounds the tests.      *)
(***************************************************************************)

\* A test that does not move keeps fitting.
LEMMA UnmovedFits ==
    ASSUME AuthInv, IngestStep, now' \in 0..MaxTime, now <= now', NEW u \in Tests,
           pc'[u] = pc[u], test'[u] = test[u], report'[u] = report[u],
           u \in edited => u \in edited',
           u \notin edited' => endpoint' = endpoint \/ pc[u] = "idle"
    PROVE  /\ Fits(pc[u], test[u], report[u])'
           /\ u \notin edited' => Agrees(pc[u], test[u], report[u])'
<1>1. now \in Nat /\ now' \in Nat
  BY TestAssumption DEF AuthInv, TestTypes
<1>2. /\ test[u] \in TestRecord /\ report[u] \in ReportRecord
      /\ Fits(pc[u], test[u], report[u])
      /\ u \notin edited => Agrees(pc[u], test[u], report[u])
  BY TestIsTyped
<1>3. PICK p : p = pc[u]
  OBVIOUS
<1>4. PICK x \in TestRecord : x = test[u]
  BY <1>2
<1>5. PICK r \in ReportRecord : r = report[u]
  BY <1>2
<1>6. Fits(p, x, r) /\ (u \notin edited => Agrees(p, x, r))
  <2>1. Fits(p, x, r)
    BY <1>2, <1>3, <1>4, <1>5 DEF Fits
  <2>2. u \notin edited => Agrees(p, x, r)
    BY <1>2, <1>3, <1>4, <1>5 DEF Agrees
  <2> QED
    BY <2>1, <2>2
<1>7. Fits(p, x, r)'
  BY <1>1, <1>6, FitsStill DEF AuthInv
<1>8. ASSUME u \notin edited' PROVE Agrees(p, x, r)'
  <2>1. Agrees(p, x, r)
    BY <1>6, <1>8
  <2>2. endpoint' = endpoint \/ p = "idle"
    BY <1>3, <1>8
  <2> QED
    BY <1>6, <2>1, <2>2, AgreesStill DEF AuthInv
<1>9. p = pc'[u] /\ x = test'[u] /\ r = report'[u]
  BY <1>3, <1>4, <1>5
<1>10. Fits(pc[u], test[u], report[u])'
  BY <1>7, <1>9 DEF Fits, WasGranted
<1>11. u \notin edited' => Agrees(pc[u], test[u], report[u])'
  BY <1>8, <1>9 DEF Agrees
<1> QED
  BY <1>10, <1>11

\* FreeRADIUS answers a test: its line is the last one, and no event is of it yet.
LEMMA AnswerKeeps ==
    ASSUME AuthInv, NEW t \in Tests, Answer(t) PROVE AuthInv' /\ IngestStep
<1>1. PICK x \in TestRecord : x = test[t] /\ Fits("run", x, NoReport)
                              /\ (t \notin edited => Agrees("run", x, NoReport))
                              /\ report[t] = NoReport
  BY TestIsTyped DEF Answer, Fits
<1>2. PICK ok \in BOOLEAN, whole \in BOOLEAN, rep \in Replies \cup {NoReply} :
          /\ Write([id |-> Identity(x.kind), kind |-> x.kind, ok |-> ok, reply |-> rep,
                    why |-> IF x.kind = "mab" THEN "unattributed" ELSE "module",
                    nas |-> Backend, at |-> now], whole)
          /\ test' = [test EXCEPT
                 ![t].ok = ok,
                 ![t].reply = IF ok /\ x.kind = "mab" THEN rep ELSE NoReply,
                 ![t].line = Len(log) + 1]
  BY <1>1 DEF Answer
<1>3. PICK a : a = [id |-> Identity(x.kind), kind |-> x.kind, ok |-> ok, reply |-> rep,
                    why |-> IF x.kind = "mab" THEN "unattributed" ELSE "module",
                    nas |-> Backend, at |-> now]
  OBVIOUS
<1>4. a \in Attempt
  <2>1. now \in Nat
    BY TestAssumption DEF AuthInv, TestTypes
  <2>2. x.kind \in {"eap_tls", "peap", "mab"}
    BY TestAssumption DEF TestRecord
  <2>3. Identity(x.kind) \in Identities /\ Backend \in Nases
    BY TestAssumption DEF Identity
  <2> QED
    BY <1>3, <2>1, <2>2, <2>3 DEF Attempt, Kinds, Whys
<1>5. Write(a, whole)
  BY <1>2, <1>3
<1>6. IngestStep
  BY <1>4, <1>5 DEF IngestStep
<1>7. FeedInv'
  BY <1>6, FeedStepKeeps DEF AuthInv
<1>8. /\ log' = Append(log, a) /\ events' = events /\ endpoint' = endpoint
      /\ held' = held /\ pc' = [pc EXCEPT ![t] = "answered"]
      /\ UNCHANGED <<now, holds, others, report, edited>>
  BY <1>5 DEF Write, Answer, Goto
<1>9. PICK n \in Nat : n = Len(log)
  BY DEF AuthInv, FeedInv, FeedTypes
<1>10. PICK y : y = [x EXCEPT !.ok = ok,
                     !.reply = IF ok /\ x.kind = "mab" THEN rep ELSE NoReply,
                     !.line = n + 1]
  OBVIOUS
<1>11. /\ y \in TestRecord /\ y.kind = x.kind /\ y.lab = x.lab /\ y.since = x.since
       /\ y.known = x.known /\ y.line = n + 1 /\ y.ok = ok
       /\ y.reply = IF ok /\ x.kind = "mab" THEN rep ELSE NoReply
  <2>1. (IF ok /\ x.kind = "mab" THEN rep ELSE NoReply) \in Replies \cup {NoReply}
    OBVIOUS
  <2>2. PICK z \in Replies \cup {NoReply} :
            z = IF ok /\ x.kind = "mab" THEN rep ELSE NoReply
    BY <2>1
  <2>3. PICK y1 : y1 = [x EXCEPT !.ok = ok]
    OBVIOUS
  <2>4. PICK y2 : y2 = [y1 EXCEPT !.reply = z]
    OBVIOUS
  <2>5. y = [y2 EXCEPT !.line = n + 1]
    BY <1>10, <2>2, <2>3, <2>4, Zenon
  <2>6. /\ y1 \in TestRecord /\ y1.kind = x.kind /\ y1.lab = x.lab
        /\ y1.since = x.since /\ y1.known = x.known
    BY <2>3 DEF TestRecord
  <2>7. y1.ok = ok
    BY <2>3, Zenon DEF TestRecord
  <2>8. /\ y2 \in TestRecord /\ y2.kind = y1.kind /\ y2.lab = y1.lab
        /\ y2.since = y1.since /\ y2.known = y1.known /\ y2.ok = y1.ok /\ y2.reply = z
    BY <2>4, <2>6 DEF TestRecord
  <2>9. /\ y \in TestRecord /\ y.kind = y2.kind /\ y.lab = y2.lab
        /\ y.since = y2.since /\ y.known = y2.known /\ y.ok = y2.ok /\ y.reply = y2.reply
        /\ y.line = n + 1
    BY <1>9, <2>5, <2>8 DEF TestRecord
  <2> QED
    BY <2>2, <2>6, <2>7, <2>8, <2>9
<1>12. test' = [test EXCEPT ![t] = y]
  BY <1>1, <1>2, <1>9, <1>10 DEF AuthInv, TestTypes
<1>13. TestTypes'
  BY <1>8, <1>11, <1>12 DEF AuthInv, TestTypes
<1>14. Accounted' /\ HoldsFit'
  BY <1>8 DEF AuthInv, Accounted, HoldsFit, TestTypes
<1>15. log'[n + 1] = a /\ Len(log') = n + 1
  BY <1>4, <1>8, <1>9 DEF AuthInv, FeedInv, FeedTypes
<1>16. Fits("answered", y, NoReport)'
  <2>1. NoReport.event = 0 /\ NoReport.reply = NoReply
    BY DEF NoReport
  <2>2. LineIs(y, a)
    <3>1. x.since <= now /\ now \in Nat
      BY <1>1, TestAssumption DEF Fits, AuthInv, TestTypes
    <3>2. a.id = Identity(y.kind) /\ a.kind = y.kind /\ a.at >= y.since
      <4>1. x.since \in 0..MaxTime
        BY DEF TestRecord
      <4> QED
        BY <1>3, <1>11, <3>1, <4>1, TestAssumption
    <3>3. y.ok => a.ok
      BY <1>3, <1>11
    <3>4. y.reply # NoReply => a.reply = y.reply
      BY <1>3, <1>11
    <3>5. y.kind = "mab" => a.why = "unattributed"
      BY <1>3, <1>11
    <3> QED
      BY <3>2, <3>3, <3>4, <3>5 DEF LineIs
  <2>3. y.line # 0 => LineIs(y, log'[y.line])
    BY <1>11, <1>15, <2>2
  <2>4. y.since <= now' /\ y.line <= Len(log') /\ y.line # 0
    BY <1>1, <1>8, <1>11, <1>15 DEF Fits
  <2>5. y.reply # NoReply => y.ok
    BY <1>11
  <2> QED
    BY <2>1, <2>3, <2>4, <2>5 DEF Fits, LineIs
<1>17. ASSUME t \notin edited PROVE Agrees("answered", y, NoReport)'
  <2>1. \A i \in DOMAIN events : events[i].line # n + 1
    <3>1. /\ Position \in 0..Place /\ Place \in base..Len(log) /\ base \in Nat
      BY PlaceBounds DEF AuthInv, FeedInv, FeedTypes
    <3> QED
      BY <1>9, <3>1 DEF AuthInv, FeedInv, EventsRise
  <2>2. y.kind = "mab" => y.known = endpoint[y.lab]
    BY <1>1, <1>11, <1>17 DEF Agrees
  <2> QED
    BY <1>8, <1>11, <2>1, <2>2 DEF Agrees, Own
<1>18. TestsFit'
  <2>1. ASSUME NEW u \in Tests
        PROVE  /\ Fits(pc[u], test[u], report[u])'
               /\ u \notin edited' => Agrees(pc[u], test[u], report[u])'
    <3>1. CASE u = t
      <4>1. /\ "answered" = pc'[u] /\ y = test'[u] /\ NoReport = report'[u]
        BY <1>1, <1>8, <1>12, <3>1 DEF AuthInv, TestTypes
      <4>2. Fits(pc[u], test[u], report[u])'
        BY <1>16, <4>1 DEF Fits, WasGranted
      <4>3. u \notin edited' => Agrees(pc[u], test[u], report[u])'
        BY <1>8, <1>17, <3>1, <4>1 DEF Agrees
      <4> QED
        BY <4>2, <4>3
    <3>2. CASE u # t
      <4>1. pc'[u] = pc[u] /\ test'[u] = test[u] /\ report'[u] = report[u]
        BY <1>8, <1>12, <3>2 DEF AuthInv, TestTypes
      <4>2. now' \in 0..MaxTime /\ now <= now'
        BY <1>8, TestAssumption DEF AuthInv, TestTypes
      <4> QED
        BY <1>6, <1>8, <4>1, <4>2, UnmovedFits
    <3> QED
      BY <3>1, <3>2
  <2> QED
    BY <2>1 DEF TestsFit
<1> QED
  BY <1>6, <1>7, <1>13, <1>14, <1>18 DEF AuthInv

\* The ingestion, devices, the operator and the clock move no test.
LEMMA SurroundingsKeep ==
    ASSUME AuthInv, IngestStep, now' \in 0..MaxTime, now <= now',
           UNCHANGED <<pc, test, report, holds>>,
           others' \in Nat, Accounted', edited \subseteq edited', edited' \subseteq Tests,
           \A u \in Tests \ edited' : endpoint' = endpoint \/ pc[u] = "idle"
    PROVE  AuthInv'
<1>1. FeedInv'
  BY FeedStepKeeps DEF AuthInv
<1>2. TestTypes' /\ HoldsFit'
  BY DEF AuthInv, TestTypes, HoldsFit
<1>3. TestsFit'
  BY UnmovedFits DEF TestsFit
<1> QED
  BY <1>1, <1>2, <1>3 DEF AuthInv

\* The connections of other requests come and go.
LEMMA OthersKeep ==
    ASSUME AuthInv, OtherTakes \/ OtherReturns PROVE AuthInv' /\ IngestStep
<1>1. /\ UNCHANGED unchangedIngest
      /\ UNCHANGED <<now, pc, test, holds, report, edited>>
      /\ \/ held < Conns /\ held' = held + 1 /\ others' = others + 1
         \/ others > 0 /\ held' = held - 1 /\ others' = others - 1
  BY DEF OtherTakes, OtherReturns
<1>2. Cardinality(holds) \in Nat
  BY FS_Subset, FS_CardinalityType, TestAssumption DEF AuthInv, TestTypes
<1>3. PICK c \in Nat : c = Cardinality(holds) /\ c = Cardinality(holds')
  BY <1>1, <1>2
<1>4. held \in 0..Conns /\ Conns \in Nat /\ others \in Nat /\ held = c + others
  BY <1>3, IngestionAssumption DEF AuthInv, Accounted, TestTypes
<1>5. held' \in 0..Conns /\ others' \in Nat /\ held' = c + others'
  BY <1>1, <1>4
<1>6. Accounted'
  BY <1>3, <1>5 DEF Accounted
<1>7. IngestStep
  BY <1>1 DEF IngestStep, unchangedIngest
<1>8. now' \in 0..MaxTime /\ now <= now'
  BY <1>1, TestAssumption DEF AuthInv, TestTypes
<1>9. /\ edited \subseteq edited' /\ edited' \subseteq Tests /\ endpoint' = endpoint
  BY <1>1 DEF unchangedIngest, AuthInv, TestTypes
<1> QED
  BY <1>1, <1>5, <1>6, <1>7, <1>8, <1>9, SurroundingsKeep

\* What leaves the connections and the tests alone: the ingestion, the file, the clock.
LEMMA QuietKeeps ==
    ASSUME AuthInv, IngestStep, UNCHANGED <<pc, test, report, holds, others, edited, held>>,
           endpoint' = endpoint, now' \in 0..MaxTime, now <= now'
    PROVE  AuthInv'
<1>1. Accounted' /\ others' \in Nat /\ edited \subseteq edited' /\ edited' \subseteq Tests
  BY DEF Accounted, AuthInv, TestTypes
<1> QED
  BY <1>1, SurroundingsKeep

\* What the task, FreeRADIUS and the operator do to the log and the events.
LEMMA IngestionKeeps ==
    ASSUME AuthInv, Ingestion \/ Device \/ Tick \/ UNCHANGED vars
    PROVE  AuthInv' /\ IngestStep
<1>1. CASE Ingestion
  <2>1. IngestStep
    BY <1>1 DEF Ingestion, IngestStep
  <2>2. held' = held /\ endpoint' = endpoint
    BY <1>1 DEF Ingestion, WriteRest, Truncate, Start, Follow, Poll, Ingest, IngestFails,
                PoolTimeout, DropLine, PollRaises
  <2>3. UNCHANGED <<pc, test, report, holds, others, edited, now>>
    BY <1>1 DEF Ingestion, testVars
  <2>4. now' \in 0..MaxTime /\ now <= now'
    BY <2>3, TestAssumption DEF AuthInv, TestTypes
  <2> QED
    BY <2>1, <2>2, <2>3, <2>4, QuietKeeps
<1>2. CASE Device
  <2>1. PICK a \in Devices, whole \in BOOLEAN : Write([a EXCEPT !.at = now], whole)
    BY <1>2 DEF Device
  <2>2. PICK b : b = [a EXCEPT !.at = now]
    OBVIOUS
  <2>3. b \in Attempt
    <3>1. now \in Nat /\ a \in Attempt
      BY TestAssumption DEF AuthInv, TestTypes
    <3> QED
      BY <2>2, <3>1 DEF Attempt
  <2>4. Write(b, whole)
    BY <2>1, <2>2
  <2>5. IngestStep
    BY <2>3, <2>4 DEF IngestStep
  <2>6. held' = held /\ endpoint' = endpoint
    BY <2>4 DEF Write
  <2>7. UNCHANGED <<pc, test, report, holds, others, edited, now>>
    BY <1>2 DEF Device, testVars
  <2>8. now' \in 0..MaxTime /\ now <= now'
    BY <2>7, TestAssumption DEF AuthInv, TestTypes
  <2> QED
    BY <2>5, <2>6, <2>7, <2>8, QuietKeeps
<1>3. CASE Tick
  <2>1. IngestStep /\ held' = held /\ endpoint' = endpoint
    BY <1>3 DEF Tick, IngestStep, ingestVars
  <2>2. UNCHANGED <<pc, test, report, holds, others, edited>>
    BY <1>3 DEF Tick
  <2>3. now' \in 0..MaxTime /\ now <= now'
    BY <1>3, TestAssumption DEF Tick, AuthInv, TestTypes
  <2> QED
    BY <2>1, <2>2, <2>3, QuietKeeps
<1>4. CASE UNCHANGED vars
  <2>1. IngestStep /\ held' = held /\ endpoint' = endpoint
    BY <1>4 DEF vars, IngestStep, ingestVars
  <2>2. UNCHANGED <<pc, test, report, holds, others, edited, now>>
    BY <1>4 DEF vars, testVars
  <2>3. now' \in 0..MaxTime /\ now <= now'
    BY <2>2, TestAssumption DEF AuthInv, TestTypes
  <2> QED
    BY <2>1, <2>2, <2>3, QuietKeeps
<1> QED
  BY <1>1, <1>2, <1>3, <1>4

\* Whoever edits the endpoint list marks every test that is under way.
LEMMA EditKeeps ==
    ASSUME AuthInv, Edit PROVE AuthInv' /\ IngestStep
<1>1. PICK l \in Labs : EditEndpoint(l)
  BY DEF Edit
<1>2. IngestStep
  BY <1>1 DEF IngestStep
<1>3. /\ UNCHANGED <<now, pc, test, holds, others, report>> /\ held' = held
      /\ edited' = edited \cup {t \in Tests : pc[t] # "idle"}
  BY <1>1 DEF Edit, EditEndpoint
<1>4. now' \in 0..MaxTime /\ now <= now'
  BY <1>3, TestAssumption DEF AuthInv, TestTypes
<1>5. /\ Accounted' /\ others' \in Nat /\ edited \subseteq edited'
      /\ edited' \subseteq Tests
  BY <1>3 DEF AuthInv, Accounted, TestTypes
<1>6. \A u \in Tests \ edited' : endpoint' = endpoint \/ pc[u] = "idle"
  BY <1>3
<1> QED
  BY <1>2, <1>3, <1>4, <1>5, <1>6, SurroundingsKeep

\* With the process its requests end.
LEMMA CrashKeeps ==
    ASSUME AuthInv, Crash PROVE AuthInv' /\ IngestStep
<1>1. Stop /\ held' = 0
  BY DEF Crash
<1>2. IngestStep
  BY <1>1, IngestionAssumption DEF IngestStep
<1>3. FeedInv'
  BY <1>2, FeedStepKeeps DEF AuthInv
<1>4. /\ holds' = {} /\ others' = 0 /\ edited' = {} /\ now' = now
      /\ pc' = [t \in Tests |-> "idle"] /\ test' = [t \in Tests |-> NoTest]
      /\ report' = [t \in Tests |-> NoReport]
  BY DEF Crash
<1>5. TestTypes'
  BY <1>4, NothingIsTyped DEF AuthInv, TestTypes
<1>6. Accounted'
  BY <1>1, <1>4, FS_EmptySet, IngestionAssumption DEF Accounted
<1>7. HoldsFit'
  BY <1>4 DEF HoldsFit
<1>8. TestsFit'
  <2>1. now' \in Nat /\ Len(log') \in Nat
    BY <1>3, <1>5, TestAssumption DEF FeedInv, FeedTypes, TestTypes
  <2>2. Fits("idle", NoTest, NoReport)' /\ Agrees("idle", NoTest, NoReport)'
    BY <2>1, NothingIsKnown DEF Fits, Agrees
  <2>3. ASSUME NEW u \in Tests
        PROVE  /\ Fits(pc[u], test[u], report[u])'
               /\ u \notin edited' => Agrees(pc[u], test[u], report[u])'
    <3>1. pc'[u] = "idle" /\ test'[u] = NoTest /\ report'[u] = NoReport
      BY <1>4
    <3>2. Fits(pc[u], test[u], report[u])'
      BY <2>2, <3>1 DEF Fits, WasGranted
    <3>3. Agrees(pc[u], test[u], report[u])'
      BY <2>2, <3>1 DEF Agrees
    <3> QED
      BY <3>2, <3>3
  <2> QED
    BY <2>3 DEF TestsFit
<1> QED
  BY <1>2, <1>3, <1>5, <1>6, <1>7, <1>8 DEF AuthInv

----------------------------------------------------------------------------
(***************************************************************************)
(* The theorems.                                                           *)
(***************************************************************************)

\* Where everything begins.
LEMMA AuthInvAtFirst ==
    ASSUME Init PROVE AuthInv
<1>1. /\ IngestInit /\ now = 0 /\ pc = [t \in Tests |-> "idle"] /\ holds = {}
      /\ test = [t \in Tests |-> NoTest] /\ others = 0 /\ edited = {}
      /\ report = [t \in Tests |-> NoReport]
  BY DEF Init
<1>2. FeedInv
  BY <1>1, FeedInvAtFirst
<1>3. TestTypes
  BY <1>1, NothingIsTyped, TestAssumption DEF TestTypes
<1>4. held = 0
  BY <1>1 DEF IngestInit
<1>5. Accounted
  BY <1>1, <1>4, FS_EmptySet, IngestionAssumption DEF Accounted
<1>6. HoldsFit
  BY <1>1 DEF HoldsFit
<1>7. TestsFit
  <2>1. now \in Nat /\ Len(log) \in Nat
    BY <1>1, <1>2 DEF FeedInv, FeedTypes
  <2>2. Fits("idle", NoTest, NoReport) /\ Agrees("idle", NoTest, NoReport)
    BY <2>1, NothingIsKnown DEF Fits, Agrees
  <2>3. ASSUME NEW u \in Tests
        PROVE  /\ Fits(pc[u], test[u], report[u])
               /\ u \notin edited => Agrees(pc[u], test[u], report[u])
    <3>1. pc[u] = "idle" /\ test[u] = NoTest /\ report[u] = NoReport
      BY <1>1
    <3> QED
      BY <2>2, <3>1
  <2> QED
    BY <2>3 DEF TestsFit
<1> QED
  BY <1>2, <1>3, <1>5, <1>6, <1>7 DEF AuthInv

\* A step of a test leaves the ingestion alone, but for its own connection.
LEMMA TestStepIsQuiet ==
    ASSUME NEW t \in Tests, Begin(t) \/ Step(t) PROVE IngestStep
BY DEF IngestStep, Begin, Step, Resolve, NoConnection, Prepare, ToolEnds, ToolRaises,
       WaitConnects, FindEvent, GiveUp, Close, ingestVars, unchangedIngest

\* The invariant is inductive, and every step is one that the ingestion allows.
LEMMA AuthStepKeeps ==
    ASSUME AuthInv, [Next]_vars PROVE AuthInv' /\ IngestStep
<1>1. CASE \E t \in Tests : Begin(t) \/ Answer(t) \/ Step(t)
  <2>1. PICK t \in Tests : Begin(t) \/ Answer(t) \/ Step(t)
    BY <1>1
  <2>2. CASE Answer(t)
    BY <2>2, AnswerKeeps
  <2>3. CASE Begin(t)
    BY <2>3, BeginKeeps, TestStepIsQuiet
  <2>4. CASE Step(t)
    <3>1. IngestStep
      BY <2>4, TestStepIsQuiet
    <3>2. CASE Resolve(t)
      BY <3>1, <3>2, ResolveKeeps
    <3>3. CASE NoConnection(t) \/ Prepare(t) \/ ToolRaises(t)
      BY <3>1, <3>3, EndsEarlyKeeps
    <3>4. CASE ToolEnds(t)
      BY <3>1, <3>4, ToolEndsKeeps
    <3>5. CASE WaitConnects(t)
      BY <3>1, <3>5, WaitConnectsKeeps
    <3>6. CASE FindEvent(t) \/ GiveUp(t)
      BY <3>1, <3>6, AnswersKeep
    <3>7. CASE Close(t)
      BY <3>1, <3>7, CloseKeeps
    <3> QED
      BY <2>4, <3>2, <3>3, <3>4, <3>5, <3>6, <3>7 DEF Step
  <2> QED
    BY <2>1, <2>2, <2>3, <2>4
<1>2. CASE OtherTakes \/ OtherReturns
  BY <1>2, OthersKeep
<1>3. CASE Ingestion \/ Device \/ Tick \/ UNCHANGED vars
  BY <1>3, IngestionKeeps
<1>4. CASE Edit
  BY <1>4, EditKeeps
<1>5. CASE Crash
  BY <1>5, CrashKeeps
<1> QED
  BY <1>1, <1>2, <1>3, <1>4, <1>5 DEF Next

\* The invariant of the tests, with any number of tests, lines, devices and connections.
THEOREM AuthTestsInvariant == Spec => []AuthInv
<1>1. Init => AuthInv
  BY AuthInvAtFirst
<1>2. AuthInv /\ [Next]_vars => AuthInv'
  BY AuthStepKeeps
<1> QED
  BY <1>1, <1>2, PTL DEF Spec

\* The types, and that every connection held is accounted for: the pool never gives out
\* more than it has, and what a test took it gives back (database.py, auth_tests.py).
THEOREM AuthTestsTypes == Spec => []TypeOK
<1>1. AuthInv => TypeOK
  BY DEF AuthInv, FeedInv, FeedTypes, TestTypes, Accounted, TypeOK, IngestTypeOK,
         TestRecord, ReportRecord
<1> QED
  BY <1>1, AuthTestsInvariant, PTL

\* With tests, devices and crashes around it the ingestion still implements the event feed.
THEOREM AuthTestsImplementFeed == Spec => FeedIsImplemented
<1>1. Init => Feed!FeedInit
  BY FeedInvAtFirst DEF Init
<1>2. AuthInv /\ [Next]_vars => [Feed!FeedNext]_Feed!feedVars
  BY AuthStepKeeps, FeedStepKeeps DEF AuthInv
<1> QED
  BY <1>1, <1>2, AuthTestsInvariant, PTL DEF Spec, FeedIsImplemented, Feed!FeedSpec

\* Nor are lines lost for other reasons, as when tests hold every connection.
THEOREM AuthTestsLoseNothingElse == Spec => []NothingElseIsLost
<1>1. AuthInv => NothingElseIsLost
  BY NothingElse DEF AuthInv
<1> QED
  BY <1>1, AuthTestsInvariant, PTL

\* The attributes a test reports were granted to it, or to the same identity since it began
\* (auth_tests.py:191-196), or are what was read of such a line's.
THEOREM AuthTestsReportGranted == Spec => []ReportedWereGranted
<1>1. ASSUME AuthInv, NEW t \in Tests, report[t].reply # NoReply
      PROVE  report[t].ok /\ WasGranted(test[t], report[t])
  BY <1>1, TestIsTyped DEF Fits
<1>2. AuthInv => ReportedWereGranted
  BY <1>1 DEF ReportedWereGranted, WasGranted
<1> QED
  BY <1>2, AuthTestsInvariant, PTL

\* A rejected MAC is explained alike by the test and by its event, unless the endpoint list
\* was edited meanwhile (auth_tests.py:117-126, auth_log_ingestion.py:52-75).
THEOREM AuthTestsReasonsAgree == Spec => []ReasonsAgree
<1>1. ASSUME AuthInv, NEW t \in Tests \ edited,
             report[t].event # 0, test[t].kind = "mab",
             Own(test[t], events[report[t].event])
      PROVE  report[t].reason = IF events[report[t].event].reason = "unattributed"
                                THEN "tool" ELSE events[report[t].event].reason
  <2>1. PICK x \in TestRecord : x = test[t]
    BY <1>1, TestIsTyped
  <2>2. PICK r \in ReportRecord : r = report[t]
    BY <1>1, TestIsTyped
  <2>3. Fits(pc[t], test[t], report[t]) /\ Agrees(pc[t], test[t], report[t])
    BY <1>1, TestIsTyped
  <2>4. /\ r.event \in DOMAIN events /\ r.reason = FailureOf(x)
        /\ x.known = endpoint[x.lab]
        /\ x.line # 0 => LineIs(x, log[x.line])
        /\ pc[t] # "idle"
    <3>1. r.event \in DOMAIN events /\ r.reason = FailureOf(x)
      BY <1>1, <2>1, <2>2, <2>3 DEF Fits
    <3>2. x.known = endpoint[x.lab]
      <4>1. test[t].known = endpoint[test[t].lab]
        BY <1>1, <2>3, Zenon DEF Agrees
      <4> QED
        BY <2>1, <4>1
    <3>3. x.line # 0 => LineIs(x, log[x.line])
      BY <2>1, <2>3, Zenon DEF Fits
    <3>4. pc[t] # "idle"
      <4>1. pc[t] # "close" => report[t] = NoReport
        BY <2>3, Zenon DEF Fits
      <4> QED
        BY <1>1, <4>1, NothingIsKnown
    <3> QED
      BY <3>1, <3>2, <3>3, <3>4
  <2>5. PICK e \in Event : e = events[r.event] /\ EventIsTrue(e)
    BY <1>1, <2>4 DEF AuthInv, FeedInv, FeedTypes
  <2>6. e.reason = Because(endpoint[x.lab])
    BY <1>1, <2>1, <2>2, <2>3, <2>4, <2>5 DEF Agrees
  <2>7. x.line # 0 /\ ~x.ok
    <3>1. e.line = x.line /\ ~e.ok
      BY <1>1, <2>1, <2>2, <2>5 DEF Own
    <3>2. e.line # 0
      BY <1>1, <2>4, <2>5 DEF AuthInv, FeedInv, EventsRise
    <3>3. ~log[x.line].ok
      BY <2>5, <3>1 DEF EventIsTrue
    <3> QED
      BY <2>4, <3>1, <3>2, <3>3 DEF LineIs
  <2>8. r.reason = IF e.reason = "unattributed" THEN "tool" ELSE e.reason
    BY <2>4, <2>6, <2>7 DEF FailureOf, Because
  <2> QED
    BY <2>2, <2>5, <2>8
<1>2. AuthInv => ReasonsAgree
  BY <1>1 DEF ReasonsAgree, Own
<1> QED
  BY <1>2, AuthTestsInvariant, PTL
=============================================================================
