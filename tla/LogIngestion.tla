---------------------------- MODULE LogIngestion ----------------------------
(***************************************************************************)
(* How authentications become events.                                      *)
(*                                                                         *)
(* FreeRADIUS appends a line to auth.log for each Access-Accept and each   *)
(* Access-Reject.  A task on the event loop of the API process follows the *)
(* file: a thread reads from the offset to the end, then the task stores   *)
(* one event per line, line after line, without giving the loop up in      *)
(* between, and sleeps.  The task knows its place by the offset alone,     *)
(* which dies with the process; it begins at the end of the file.          *)
(*                                                                         *)
(* Each event is a transaction, so it takes a connection of the pool that  *)
(* the requests also use.  A request that has ended gives its connection   *)
(* back from the event loop (the teardown of get_db), and the loop is      *)
(* taken while the task waits for one: only the pool's timeout frees it.   *)
(*                                                                         *)
(* Abstractions.  A line is its number; its text is a record of what the   *)
(* parser tells apart.  The offset counts half lines, so that it may point *)
(* into a line; where a line was cut is decided when it is parsed.  Time   *)
(* stands still here; AuthTests adds a clock.                              *)
(***************************************************************************)
EXTENDS Integers, Sequences, FiniteSets

CONSTANTS
    Identities, \* user names and MAC addresses
    Replies,    \* reply attribute lists FreeRADIUS may put together
    NoReply,    \* the empty list
    Fragments,  \* lists that a line cut within the attributes may show
    Nases,      \* NAS addresses
    Labs,       \* labs
    Oldest,     \* the lab that was created first
    LabsOf,     \* LabsOf[nas]: labs with a client of that address
    Conns,      \* size of the connection pool
    MaxLines    \* bound: lines ever written to the log

ASSUME IngestionAssumption ==
    /\ NoReply \notin Replies \cup Fragments
    /\ Oldest \in Labs
    /\ LabsOf \in [Nases -> SUBSET Labs]
    /\ Conns \in Nat \ {0}
    /\ MaxLines \in Nat

\* What a line says of an attempt: EAP-TLS, PEAP, a MAC lookup (Service-Type is
\* Call-Check), or none of them; a reject with or without a failing module.  It
\* does not say whose lab's attempt it was.
Kinds == {"eap_tls", "peap", "mab", "other"}
Whys == {"unattributed", "module"}

Attempt ==
    [id: Identities, kind: Kinds, ok: BOOLEAN, reply: Replies \cup {NoReply},
     why: Whys, nas: Nases, at: Nat]

Methods == {"eap_tls", "peap", "mab", "unknown"}
Reasons == {"none", "unattributed", "module", "unknown MAC", "endpoint disabled"}

\* The attributes that events and answers show.
Shown == Replies \cup Fragments \cup {NoReply}

\* `whole` is history: the line was read to its end.
Event ==
    [line: Nat, id: Identities, method: Methods, ok: BOOLEAN, reply: Shown,
     reason: Reasons, lab: Labs, at: Nat, whole: BOOLEAN]

\* Where a line that was read in part ends: before its seventh field, in the reason or
\* the Service-Type (fields 7 and 8), or in the attributes (field 9).
Cuts == {"none", "header", "reason", "reply"}

VARIABLES
    log,        \* log[k]: the k-th attempt FreeRADIUS logged
    base,       \* the file holds the lines after this one
    partial,    \* the last line has been written in part only
    task,       \* "follow", "dead" (raised), or "down": the API is not running
    offset,     \* how far the task has read the file, in half lines
    next,       \* the next line to store of those read ...
    last,       \* ... and the last one
    torn,       \* of line `last` only the first part was read
    events,     \* authentication_events, in the order of insertion
    endpoint,   \* endpoint[l]: what lab l's endpoint list says of the MAC
    held,       \* connections that requests hold
    exempt      \* history: lines for which the code promises no event

taskVars == <<task, offset, next, last, torn>>
fileVars == <<log, base, partial>>
ingestVars == <<fileVars, taskVars, events, endpoint, held, exempt>>

----------------------------------------------------------------------------
\* Length of the file and the lines up to an offset, in halves and lines.
Size == 2 * (Len(log) - base) - (IF partial THEN 1 ELSE 0)
Lines(half) == (half + 1) \div 2

\* The task is storing events: no other coroutine gets the loop.
LoopTaken == next <= last

\* The lines up to here have been stored or passed over.
Position ==
    IF LoopTaken THEN next - 1
    ELSE IF offset > Size THEN base
    ELSE base + Lines(offset)

IngestTypeOK ==
    /\ log \in Seq(Attempt)
    /\ base \in Nat /\ base <= Len(log)
    /\ partial \in BOOLEAN
    /\ task \in {"follow", "dead", "down"}
    /\ offset \in Nat
    /\ next \in Nat \ {0}
    /\ last \in Nat
    /\ torn \in BOOLEAN
    /\ events \in Seq(Event)
    /\ endpoint \in [Labs -> {"none", "disabled", "enabled"}]
    /\ held \in 0..Conns
    /\ exempt \subseteq Nat

IngestInit ==
    /\ log = <<>>
    /\ base = 0
    /\ partial = FALSE
    /\ task = "down"
    /\ offset = 0
    /\ next = 1
    /\ last = 0
    /\ torn = FALSE
    /\ events = <<>>
    /\ endpoint = [l \in Labs |-> "none"]
    /\ held = 0
    /\ exempt = {}

----------------------------------------------------------------------------
(***************************************************************************)
(* The file.                                                               *)
(***************************************************************************)

\* FreeRADIUS logs an attempt; a reader may see the line before it is whole.  A
\* line written while nobody follows, or into a file that became shorter
\* without the task having noticed, may never be read.
Write(a, whole) ==
    /\ ~partial
    /\ Len(log) < MaxLines
    /\ log' = Append(log, a)
    /\ partial' = ~whole
    /\ exempt' = IF task # "follow" \/ offset > Size
                 THEN exempt \cup {Len(log) + 1}
                 ELSE exempt
    /\ UNCHANGED <<base, taskVars, events, endpoint, held>>

WriteRest ==
    /\ partial
    /\ partial' = FALSE
    /\ UNCHANGED <<log, base, taskVars, events, endpoint, held, exempt>>

\* Lines that are on their way to become events no longer.
Unstored == (Position + 1)..Len(log)
Unread == Unstored \ next..last

\* The operator empties the file, or removes it, as a reset of the lab does.  While
\* there is none, a poll leaves the offset alone.
EmptyFile == ~partial /\ base' = Len(log)

Truncate ==
    /\ EmptyFile
    /\ exempt' = exempt \cup Unread
    /\ UNCHANGED <<log, partial, taskVars, events, endpoint, held>>

----------------------------------------------------------------------------
(***************************************************************************)
(* The task.                                                               *)
(***************************************************************************)

\* The process starts, and the task begins at the end of the file.
Start ==
    /\ task = "down"
    /\ task' = "follow"
    /\ offset' = Size
    /\ UNCHANGED <<fileVars, next, last, torn, events, endpoint, held, exempt>>

\* Where the file was read to: its end, or its beginning when it has become
\* shorter than what was read.
NextOffset == IF offset > Size THEN 0 ELSE Size

\* Wrong on purpose (a poll begins with the line before the offset).
FirstLine_Again == base + Lines(offset)

\* The first line that begins at or after the offset; what is left of a line
\* read in part has no prefix and is ignored.
FirstLine == base + Lines(offset) + 1

\* _poll_once: read all there is.  The size is looked at after the reading; a
\* file emptied in between is the same as one emptied after it.
Poll ==
    /\ task = "follow"
    /\ ~LoopTaken
    /\ offset' = NextOffset
    /\ IF offset > Size
       THEN UNCHANGED <<next, last, torn, exempt>>
       ELSE /\ next' = FirstLine
            /\ last' = Len(log)
            /\ torn' = (partial /\ FirstLine <= Len(log))
            /\ exempt' = exempt \cup (IF partial THEN {Len(log)} ELSE {})
    /\ UNCHANGED <<fileVars, task, events, endpoint, held>>

\* The file goes away between exists() and open(): nothing catches what the poll
\* raises, and the task ends for as long as the process lives.
PollRaises ==
    /\ task = "follow"
    /\ ~LoopTaken
    /\ EmptyFile
    /\ task' = "dead"
    /\ exempt' = exempt \cup Unstored
    /\ UNCHANGED <<log, partial, offset, next, last, torn, events, endpoint, held>>

\* _resolve_lab_id: a client of that address, enabled or not and of whatever
\* lab; else the oldest lab.
LabOf(nas) == IF LabsOf[nas] = {} THEN {Oldest} ELSE LabsOf[nas]

\* The attributes an event may show: of an accept only.  A line cut within them gives
\* any part of them, the last one perhaps with half its value; one cut before, none.
Granted(a, cut) ==
    IF ~a.ok \/ a.reply = NoReply \/ cut = "reason" THEN {NoReply}
    ELSE IF cut = "reply" THEN {a.reply, NoReply} \cup Fragments
    ELSE {a.reply}

\* What is left of the reason: nothing of it, or a text that is not a known one.
WhysLeft(a, cut) == IF cut = "reason" THEN Whys ELSE {a.why}

\* Without the whole Service-Type a MAC lookup cannot be told from other requests;
\* with it, it can, whatever is missing of the attributes.
MethodOf(a, cut) ==
    IF a.kind = "other" \/ (a.kind = "mab" /\ cut = "reason") THEN "unknown" ELSE a.kind

\* Wrong on purpose (a disabled endpoint is looked up as if it were not there).
ListReason_EnabledOnly(l) ==
    IF endpoint[l] # "enabled" THEN "unknown MAC" ELSE "none"

\* mab_reject_reason: what the endpoint list of a lab has to say of a reject.
ListReason(l) ==
    CASE endpoint[l] = "none" -> "unknown MAC"
      [] endpoint[l] = "disabled" -> "endpoint disabled"
      [] OTHER -> "none"

\* _explain_mab_reject: it is asked now, not when FreeRADIUS rejected.
Explained(a, cut, why, l) ==
    IF a.ok THEN "none"
    ELSE IF /\ MethodOf(a, cut) = "mab"
            /\ why = "unattributed"
            /\ ListReason(l) # "none"
         THEN ListReason(l)
         ELSE why

\* ingest_line on line k, with the reason and the attributes that were read of it, for a
\* lab it may resolve to.
EventFor(k, cut, why, reply, l) ==
    [line |-> k, id |-> log[k].id, method |-> MethodOf(log[k], cut),
     ok |-> log[k].ok, reply |-> reply, reason |-> Explained(log[k], cut, why, l),
     lab |-> l, at |-> log[k].at, whole |-> cut = "none"]

\* Wrong on purpose (an error ends the loop over the lines that were read).
Following_GivesUp == last + 1

\* The line after the one that was stored or failed.
Following == next + 1

\* How the next line was read.
CutsRead == IF torn /\ next = last THEN Cuts \ {"none"} ELSE {"none"}

\* A line becomes an event, or none if so little of it was read that it has not
\* seven fields.
Ingest ==
    /\ task = "follow"
    /\ LoopTaken
    /\ held < Conns
    /\ \E cut \in CutsRead :
           IF cut = "header" THEN UNCHANGED events
           ELSE \E why \in WhysLeft(log[next], cut), reply \in Granted(log[next], cut),
                   l \in LabOf(log[next].nas) :
                    events' = Append(events, EventFor(next, cut, why, reply, l))
    /\ next' = next + 1
    /\ UNCHANGED <<fileVars, task, offset, last, torn, endpoint, held, exempt>>

\* The database refuses the line, or no connection became free before the pool's
\* timeout: it is logged, and the loop goes on with the next line.
DropLine ==
    /\ next' = Following
    /\ exempt' = exempt \cup {next}
    /\ UNCHANGED <<fileVars, task, offset, last, torn, events, endpoint, held>>

IngestFails == task = "follow" /\ LoopTaken /\ held < Conns /\ DropLine

\* Wrong on purpose (one waits for a connection as long as it takes).
TimesOut_Never == FALSE

\* Every connection is held for the thirty seconds of the pool's timeout.
TimesOut == held = Conns

PoolTimeout == task = "follow" /\ LoopTaken /\ TimesOut /\ DropLine

\* The API process ends, with what it had read.
Stop ==
    /\ task # "down"
    /\ task' = "down"
    /\ next' = last + 1
    /\ torn' = FALSE
    /\ exempt' = exempt \cup Unstored
    /\ UNCHANGED <<fileVars, offset, last, events, endpoint>>

----------------------------------------------------------------------------
(***************************************************************************)
(* The requests of the API, as far as they concern the task.               *)
(***************************************************************************)

\* The endpoint of the MAC is created, deleted, enabled or disabled in lab l.
EditEndpoint(l) ==
    /\ task # "down"
    /\ \E s \in {"none", "disabled", "enabled"} \ {endpoint[l]} :
           endpoint' = [endpoint EXCEPT ![l] = s]
    /\ UNCHANGED <<fileVars, taskVars, events, held, exempt>>

\* Requests take connections and give them back.
Hold(n) ==
    /\ task # "down"
    /\ held' = n
    /\ UNCHANGED <<fileVars, taskVars, events, endpoint, exempt>>

Follow == Poll \/ Ingest \/ IngestFails \/ PoolTimeout

IngestNext ==
    \/ \E a \in Attempt, whole \in BOOLEAN : Write(a, whole)
    \/ WriteRest \/ Truncate
    \/ Start \/ Follow \/ PollRaises
    \/ Stop /\ held' = 0
    \/ \E l \in Labs : EditEndpoint(l)
    \/ \E n \in 0..Conns : Hold(n)

IngestSpec == IngestInit /\ [][IngestNext]_ingestVars

----------------------------------------------------------------------------
(***************************************************************************)
(* Properties.                                                             *)
(***************************************************************************)

Feed == INSTANCE EventFeed WITH
    logged <- Len(log),
    passed <- Position,
    shown <- [i \in DOMAIN events |-> events[i].line]

\* The task implements the event feed: whatever is emptied, removed, cut, dropped
\* or restarted, no line becomes two events and events come in the order of the
\* log (main.py starts the task, auth_log_ingestion.py follows the file).
FeedIsImplemented == Feed!FeedSpec

\* Lines are lost for the known reasons only: nobody followed the file when they
\* were written, the file was emptied before they were read or without the task
\* having noticed, the line was read in part, or it could not be stored.  Every
\* other line that the task has passed is an event.
NothingElseIsLost ==
    \A k \in 1..Position :
        k \in exempt \/ \E i \in DOMAIN events : events[i].line = k

\* The task never stays at a line: each line that is written is passed some day,
\* if only because the pool gave up, unless the task or the process has ended.
LineIsPassed ==
    \A k \in 1..MaxLines : (Len(log) >= k) ~> (Position >= k \/ task # "follow")

=============================================================================
