----------------------------- MODULE EventFeed ------------------------------
(***************************************************************************)
(* What the event list promises, whatever brings it about: attempts are    *)
(* logged one after another, and an attempt becomes at most one event, in  *)
(* the order of the log.  Attempts may be passed over; which ones is for   *)
(* the detailed specification to say.                                      *)
(***************************************************************************)
EXTENDS Integers, Sequences

VARIABLES
    logged,     \* how many attempts have been logged
    passed,     \* the attempts up to this one have been dealt with
    shown       \* the attempts that became events, in the order they did

feedVars == <<logged, passed, shown>>

FeedInit ==
    /\ logged = 0
    /\ passed = 0
    /\ shown = <<>>

\* One more attempt may be logged; some may be dealt with, and one of these may
\* become an event.
FeedNext ==
    /\ logged' \in {logged, logged + 1}
    /\ passed' \in passed..logged'
    /\ \/ shown' = shown
       \/ \E k \in (passed + 1)..passed' : shown' = Append(shown, k)

FeedSpec == FeedInit /\ [][FeedNext]_feedVars

\* No attempt becomes two events, and events come in the order of the log.
InOrder == \A i, j \in DOMAIN shown : i < j => shown[i] < shown[j]

=============================================================================
