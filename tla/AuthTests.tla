----------------------------- MODULE AuthTests ------------------------------
(***************************************************************************)
(* Authentication tests beside the log ingestion.                          *)
(*                                                                         *)
(* A test is one request: look up the user or endpoint, for EAP-TLS make   *)
(* sure there is a certificate and the CA is published, run eapol_test or  *)
(* radclient against FreeRADIUS, then poll authentication_events for the   *)
(* event that the ingestion makes of the line FreeRADIUS wrote.  Its       *)
(* thread holds one database connection from its first query to the        *)
(* teardown, which is up to the event loop.  Real devices authenticate     *)
(* meanwhile, with the same identities.                                    *)
(*                                                                         *)
(* Issuing and publishing are the subject of Certificates and TrustStore;  *)
(* here they succeed or fail.                                              *)
(***************************************************************************)
EXTENDS LogIngestion

CONSTANTS
    Tests,      \* threads that serve POST /auth-tests
    User, Mac,  \* the user name and the MAC address that are tested
    Backend,    \* the address tests come from
    Devices,    \* what real devices may send: attempts, but for the time
    TestKinds,  \* methods the operator chooses
    Slack,      \* clock slack of _wait_for_event, in ticks
    MaxTime     \* bound: ticks of the clock

ASSUME TestAssumption ==
    /\ {User, Mac} \subseteq Identities
    /\ Backend \in Nases
    /\ TestKinds \subseteq {"eap_tls", "peap", "mab"}
    /\ Slack \in Nat /\ MaxTime \in Nat
    /\ Devices \subseteq Attempt
    /\ IsFiniteSet(Tests)

VARIABLES
    now,        \* the clock, in ticks of the log's resolution
    pc,         \* pc[t]: where test t is
    test,       \* test[t]: what t was asked for and what it knows so far
    holds,      \* tests that hold a connection
    others,     \* connections that other requests hold
    report,     \* report[t]: the answer of t, once it is made
    edited      \* history: tests during which the endpoint list changed

testVars == <<now, pc, test, holds, others, report, edited>>
vars == <<ingestVars, testVars>>

NoTest ==
    [kind |-> "peap", lab |-> Oldest, since |-> 0, known |-> "enabled",
     ok |-> FALSE, reply |-> NoReply, line |-> 0]

NoReport == [event |-> 0, ok |-> FALSE, reply |-> NoReply, reason |-> "no answer"]

Identity(kind) == IF kind = "mab" THEN Mac ELSE User

TypeOK ==
    /\ IngestTypeOK
    /\ now \in 0..MaxTime
    /\ pc \in [Tests -> {"idle", "resolve", "prepare", "run", "answered", "wait", "close"}]
    /\ test \in [Tests -> [kind: TestKinds \cup {"peap"}, lab: Labs, since: 0..MaxTime,
                           known: {"none", "disabled", "enabled"}, ok: BOOLEAN,
                           reply: Replies \cup {NoReply}, line: Nat]]
    /\ holds \subseteq Tests
    /\ others \in Nat
    /\ held = Cardinality(holds) + others
    /\ report \in [Tests -> [event: Nat, ok: BOOLEAN, reply: Shown,
                             reason: Reasons \cup {"no answer", "tool"}]]
    /\ edited \subseteq Tests

Init ==
    /\ IngestInit
    /\ now = 0
    /\ pc = [t \in Tests |-> "idle"]
    /\ test = [t \in Tests |-> NoTest]
    /\ holds = {}
    /\ others = 0
    /\ report = [t \in Tests |-> NoReport]
    /\ edited = {}

----------------------------------------------------------------------------
(***************************************************************************)
(* Steps of a test, in its thread.                                         *)
(***************************************************************************)

Goto(t, label) == pc' = [pc EXCEPT ![t] = label]

unchangedIngest == <<fileVars, taskVars, events, endpoint, exempt>>

\* A request comes in through the event loop.  An EAP-TLS test of a given identity
\* asks the database nothing before its last step.
Begin(t) ==
    /\ task # "down" /\ ~LoopTaken
    /\ pc[t] = "idle"
    /\ \E k \in TestKinds, l \in Labs :
           test' = [test EXCEPT ![t] = [NoTest EXCEPT !.kind = k, !.lab = l, !.since = now]]
    /\ \/ Goto(t, "resolve")
       \/ test'[t].kind = "eap_tls" /\ Goto(t, "prepare")
    /\ edited' = edited \ {t}
    /\ UNCHANGED <<ingestVars, now, holds, others, report>>

\* The first query takes a connection from the pool.
Connect(t) ==
    /\ held < Conns
    /\ held' = held + 1
    /\ holds' = holds \cup {t}

\* _resolve_user, _resolve_endpoint: refused, or found; a MAC may be unknown.
Resolve(t) ==
    /\ pc[t] = "resolve"
    /\ Connect(t)
    /\ \/ Goto(t, "close") /\ UNCHANGED test
       \/ /\ test' = [test EXCEPT ![t].known =
                         IF test[t].kind = "mab" THEN endpoint[test[t].lab] ELSE @]
          /\ Goto(t, IF test[t].kind = "eap_tls" THEN "prepare" ELSE "run")
    /\ UNCHANGED <<unchangedIngest, now, others, report, edited>>

\* The pool's timeout, while other requests hold every connection.
NoConnection(t) ==
    /\ pc[t] \in {"resolve", "wait"} /\ t \notin holds
    /\ held = Conns
    /\ Goto(t, "close")
    /\ UNCHANGED <<ingestVars, now, test, holds, others, report, edited>>

\* Issue the certificate if it is missing, publish the CA, wait for the restart.
Prepare(t) ==
    /\ pc[t] = "prepare"
    /\ Goto(t, "run") \/ Goto(t, "close")
    /\ UNCHANGED <<ingestVars, now, test, holds, others, report, edited>>

\* FreeRADIUS answers the test and logs it.  radclient prints the attributes of
\* an accept, eapol_test does not.
Answer(t) ==
    /\ pc[t] = "run"
    /\ \E ok, whole \in BOOLEAN, r \in Replies \cup {NoReply} :
           LET x == test[t] IN
           /\ Write([id |-> Identity(x.kind), kind |-> x.kind, ok |-> ok, reply |-> r,
                     why |-> IF x.kind = "mab" THEN "unattributed" ELSE "module",
                     nas |-> Backend, at |-> now], whole)
           /\ test' = [test EXCEPT
                  ![t].ok = ok,
                  ![t].reply = IF ok /\ x.kind = "mab" THEN r ELSE NoReply,
                  ![t].line = Len(log) + 1]
    /\ Goto(t, "answered")
    /\ UNCHANGED <<now, holds, others, report, edited>>

\* The tool ends: with the answer, or without one, since FreeRADIUS did not
\* answer, the answer was lost, or the tool was stopped at its time limit.
ToolEnds(t) ==
    /\ pc[t] \in {"run", "answered"}
    /\ \/ pc[t] = "answered" /\ UNCHANGED test
       \/ test' = [test EXCEPT ![t].ok = FALSE, ![t].reply = NoReply]
    /\ Goto(t, "wait")
    /\ UNCHANGED <<ingestVars, now, holds, others, report, edited>>

\* The tool is not installed, a value is refused, or what it printed until its
\* time limit cannot be put together: the request ends with an error.
ToolRaises(t) ==
    /\ pc[t] \in {"run", "answered"}
    /\ Goto(t, "close")
    /\ UNCHANGED <<ingestVars, now, test, holds, others, report, edited>>

----------------------------------------------------------------------------
(***************************************************************************)
(* _wait_for_event and the answer.                                         *)
(***************************************************************************)

\* The newest events of an identity; the order of two of one time is open.
Latest(id) ==
    LET own == {i \in DOMAIN events : events[i].id = id}
    IN  {i \in own : \A j \in own : events[j].at <= events[i].at}

\* Wrong on purpose (how old an event is is not looked at).
Matches_AnyAge(x, e) == e.method \in {x.kind, "unknown"}

Matches(x, e) ==
    /\ e.method \in {x.kind, "unknown"}
    /\ e.at >= x.since - Slack

\* The attributes of the answer: the tool's, or else the event's if the test
\* succeeded.
Borrowed(x, i) ==
    IF x.ok /\ x.reply = NoReply /\ i # 0 THEN events[i].reply ELSE x.reply

\* The reason of the answer: for a MAC what the endpoint list said when the test
\* began, else what the tool printed.
FailureOf(x) ==
    CASE x.ok -> "none"
      [] ~x.ok /\ x.known = "none" -> "unknown MAC"
      [] ~x.ok /\ x.known = "disabled" -> "endpoint disabled"
      [] OTHER -> "tool"

\* The answer of a test with event i, or with none (0).
Respond(t, i) ==
    /\ report' = [report EXCEPT ![t] =
           [event |-> i, ok |-> test[t].ok, reply |-> Borrowed(test[t], i),
            reason |-> FailureOf(test[t])]]
    /\ Goto(t, "close")

\* An EAP-TLS test comes to need a connection.
WaitConnects(t) ==
    /\ pc[t] = "wait" /\ t \notin holds
    /\ Connect(t)
    /\ UNCHANGED <<unchangedIngest, now, pc, test, others, report, edited>>

FindEvent(t) ==
    /\ pc[t] = "wait" /\ t \in holds
    /\ \E i \in Latest(Identity(test[t].kind)) :
           Matches(test[t], events[i]) /\ Respond(t, i)
    /\ UNCHANGED <<ingestVars, now, test, holds, others, edited>>

\* Wrong on purpose (the poll has no deadline).
StopsWaiting_Never(t) == FALSE

\* Eight seconds are over.
StopsWaiting(t) == pc[t] = "wait" /\ t \in holds

GiveUp(t) ==
    /\ StopsWaiting(t)
    /\ Respond(t, 0)
    /\ UNCHANGED <<ingestVars, now, test, holds, others, edited>>

\* Wrong on purpose (the session of a request is not closed).
Released_Leak(t) == held

Released(t) == held - Cardinality(holds \cap {t})

\* The answer is sent and get_db is torn down, both by the event loop.
Close(t) ==
    /\ pc[t] = "close" /\ ~LoopTaken
    /\ held' = Released(t)
    /\ holds' = holds \ {t}
    /\ Goto(t, "idle")
    /\ test' = [test EXCEPT ![t] = NoTest]
    /\ report' = [report EXCEPT ![t] = NoReport]
    /\ edited' = edited \ {t}
    /\ UNCHANGED <<unchangedIngest, now, others>>

----------------------------------------------------------------------------
(***************************************************************************)
(* Everything around the tests.                                            *)
(***************************************************************************)

\* Any other request takes a connection, and gives it back at its end, which needs
\* the event loop.
OtherTakes ==
    /\ task # "down"
    /\ held < Conns
    /\ held' = held + 1
    /\ others' = others + 1
    /\ UNCHANGED <<unchangedIngest, now, pc, test, holds, report, edited>>

OtherReturns ==
    /\ others > 0 /\ ~LoopTaken
    /\ held' = held - 1
    /\ others' = others - 1
    /\ UNCHANGED <<unchangedIngest, now, pc, test, holds, report, edited>>

Tick ==
    /\ now < MaxTime
    /\ now' = now + 1
    /\ UNCHANGED <<ingestVars, pc, test, holds, others, report, edited>>

\* A device authenticates.
Device ==
    /\ \E a \in Devices, whole \in BOOLEAN : Write([a EXCEPT !.at = now], whole)
    /\ UNCHANGED testVars

Edit ==
    /\ \E l \in Labs : EditEndpoint(l)
    /\ edited' = edited \cup {t \in Tests : pc[t] # "idle"}
    /\ UNCHANGED <<now, pc, test, holds, others, report>>

\* The API process ends, and its requests with it.
Crash ==
    /\ Stop
    /\ held' = 0
    /\ holds' = {}
    /\ others' = 0
    /\ pc' = [t \in Tests |-> "idle"]
    /\ test' = [t \in Tests |-> NoTest]
    /\ report' = [t \in Tests |-> NoReport]
    /\ edited' = {}
    /\ UNCHANGED now

Step(t) ==
    \/ Resolve(t) \/ NoConnection(t) \/ Prepare(t)
    \/ ToolEnds(t) \/ ToolRaises(t)
    \/ WaitConnects(t) \/ FindEvent(t) \/ GiveUp(t) \/ Close(t)

Ingestion ==
    /\ Start \/ Follow \/ PollRaises \/ WriteRest \/ Truncate
    /\ UNCHANGED testVars

Next ==
    \/ \E t \in Tests : Begin(t) \/ Answer(t) \/ Step(t)
    \/ OtherTakes \/ OtherReturns
    \/ Ingestion \/ Device \/ Edit \/ Tick \/ Crash

Spec == Init /\ [][Next]_vars

\* The threads of the requests, the task on the event loop and its poll thread
\* run; tools and pool have time limits.
Fairness ==
    /\ \A t \in Tests : WF_vars(Step(t))
    /\ WF_vars(OtherReturns)
    /\ WF_vars(Follow /\ UNCHANGED testVars)

FairSpec == Spec /\ Fairness

----------------------------------------------------------------------------
(***************************************************************************)
(* Properties.                                                             *)
(***************************************************************************)

\* The attributes a test reports were granted: the test succeeded, and FreeRADIUS
\* logged them with an accept of the same identity, no earlier than the slack
\* before the test began (auth_tests.py:191-196).  It takes the parser, the choice
\* of the event and the answer to keep it.  Only if they are the event's and its line
\* was read in part may they be less than what that very line grants.
ReportedWereGranted ==
    \A t \in Tests :
        report[t].reply # NoReply =>
            /\ report[t].ok
            /\ \E k \in DOMAIN log :
                   /\ log[k].ok /\ log[k].reply # NoReply
                   /\ log[k].id = Identity(test[t].kind)
                   /\ log[k].at >= test[t].since - Slack
                   /\ \/ log[k].reply = report[t].reply
                      \/ /\ report[t].event # 0
                         /\ events[report[t].event].line = k
                         /\ ~events[report[t].event].whole

\* A rejected MAC test and the event of that very reject give the same reason,
\* which the one takes from the endpoint list before the exchange and the other
\* when it stores the line, unless the list was edited meanwhile or the event is
\* counted to another lab.
ReasonsAgree ==
    \A t \in Tests \ edited :
        (report[t].event # 0 /\ test[t].kind = "mab") =>
            LET e == events[report[t].event] IN
            (/\ e.line = test[t].line /\ ~e.ok
             /\ e.method = "mab" /\ e.lab = test[t].lab) =>
                report[t].reason =
                    IF e.reason = "unattributed" THEN "tool" ELSE e.reason

\* Every test is answered, whoever holds the connections and whatever becomes of
\* its line.
TestIsAnswered == \A t \in Tests : (pc[t] # "idle") ~> (pc[t] = "idle")

=============================================================================
