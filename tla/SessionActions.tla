--------------------------- MODULE SessionActions ---------------------------
(***************************************************************************)
(* Disconnect and Push policy (CoA): POST /session-actions.                *)
(*                                                                         *)
(* A request reads the endpoint, the target and the policy one after the   *)
(* other, then runs radclient, which sends one datagram and listens for    *)
(* three seconds; meanwhile the operator edits and other requests run.     *)
(* The target is a NAS, which acts on the datagram, or the lab's sink,     *)
(* which is served by the event loop of the same process and only answers. *)
(* Datagrams may be lost, late, or come twice.                             *)
(*                                                                         *)
(* There is one endpoint; a NAS holds a session of it or none.  That       *)
(* authentication grants what the control plane says is the subject of     *)
(* AuthzMirror.                                                            *)
(***************************************************************************)
EXTENDS ReplyAttributes, Integers, FiniteSets

CONSTANTS
    Threads,    \* threads that serve POST /session-actions
    Policies,   \* authorization policies of the endpoint's lab
    Bodies,     \* what a policy row may say
    Clients,    \* RADIUS clients, each with its NAS
    Sink,       \* the lab CoA sink
    None,       \* "no such row", "no session", "not given"
    MaxActions, \* bound: requests that are made
    MaxEdits    \* bound: edits by the operator

ASSUME SessionAssumption ==
    /\ \A b \in Bodies :
           /\ b.enabled \in BOOLEAN
           /\ {b.vlan, b.role} \subseteq Values \cup {Unset}
           /\ b.extra \in Seq([name: Names, value: Values \cup {EmptyValue}])
    /\ Sink \notin Clients
    /\ None \notin Policies \cup Bodies
    /\ MaxActions \in Nat /\ MaxEdits \in Nat

\* A client as the action looks at it: usable, with a secret that its NAS does not
\* have, or refused: deleted, disabled or of another lab.
TargetRow == {"usable", "other secret", "refused"}

VARIABLES
    policies,   \* policies[p]: the row of policy p, or None
    endpoint,   \* its policy, None without one, "gone" when it was deleted
    targets,    \* targets[c]: the row of radius client c
    session,    \* session[c]: attributes the NAS of c enforces, or None
    sink,       \* the sink is bound
    stuck,      \* the event loop is taken by the log ingestion
    api,        \* the API process runs
    net,        \* datagrams on their way
    stage,      \* stage[r]: where request r is
    act,        \* act[r]: what r was asked for and has read
    told,       \* told[r]: the answer of r
    asked,      \* how many requests were made
    edits,      \* how many edits were made
    disturbed,  \* history: requests since whose first read something else changed
    applied     \* history: what NASes did, by the number of the request

rowVars == <<policies, endpoint, targets, edits>>
outsideVars == <<session, net, applied>>
processVars == <<sink, stuck, api>>
requestVars == <<stage, act, told, asked, disturbed>>
sessionVars == <<rowVars, outsideVars, processVars, requestVars>>

NoAct == [nr |-> 0, kind |-> "coa", to |-> Sink, chosen |-> None, secret |-> TRUE,
          sent |-> <<>>, code |-> "none"]

Attrs == {AsDict(RenderedPolicy(b)) : b \in Bodies} \cup {<<>>}
Codes == {"ack", "nak"}

SessionTypeOK ==
    /\ policies \in [Policies -> Bodies \cup {None}]
    /\ endpoint \in Policies \cup {None, "gone"}
    /\ targets \in [Clients -> TargetRow]
    /\ session \in [Clients -> Attrs \cup {None}]
    /\ sink \in BOOLEAN /\ stuck \in BOOLEAN /\ api \in BOOLEAN
    /\ net \subseteq [nr: 1..MaxActions, to: Clients \cup {Sink}, what: {"coa", "disconnect"},
                      secret: BOOLEAN, attrs: Attrs]
                 \cup [nr: 1..MaxActions, code: Codes]
    /\ stage \in [Threads -> {"idle", "target", "policy", "send", "listen", "tell",
                             "close"}]
    /\ act \in [Threads -> [nr: 0..MaxActions, kind: {"coa", "disconnect"},
                             to: Clients \cup {Sink}, chosen: Policies \cup {None},
                             secret: BOOLEAN, sent: Attrs,
                             code: Codes \cup {"none", "timeout", "error"}]]
    /\ told \in [Threads -> {"nothing", "refused", "ack", "nak", "timeout", "error"}]
    /\ asked \in 0..MaxActions /\ edits \in 0..MaxEdits
    /\ disturbed \subseteq Threads
    /\ applied \subseteq [nr: 1..MaxActions, what: {"coa", "disconnect"}, attrs: Attrs]

SessionInit ==
    /\ policies \in [Policies -> Bodies]
    /\ endpoint \in Policies \cup {None}
    /\ targets = [c \in Clients |-> "usable"]
    /\ session = [c \in Clients |-> None]
    /\ sink \in BOOLEAN /\ stuck = FALSE /\ api = TRUE
    /\ net = {}
    /\ stage = [r \in Threads |-> "idle"]
    /\ act = [r \in Threads |-> NoAct]
    /\ told = [r \in Threads |-> "nothing"]
    /\ asked = 0 /\ edits = 0
    /\ disturbed = {}
    /\ applied = {}

Busy == {r \in Threads : stage[r] # "idle"}

----------------------------------------------------------------------------
(***************************************************************************)
(* Steps of a request, in its thread.                                      *)
(***************************************************************************)

GoOn(r, s) == stage' = [stage EXCEPT ![r] = s]

Ask(r) ==
    /\ api /\ ~stuck
    /\ stage[r] = "idle" /\ asked < MaxActions
    /\ asked' = asked + 1
    /\ \E kind \in {"coa", "disconnect"}, to \in Clients \cup {Sink},
          chosen \in Policies \cup {None} :
           act' = [act EXCEPT ![r] = [NoAct EXCEPT !.nr = asked + 1, !.kind = kind,
                                      !.to = to, !.chosen = chosen]]
    /\ GoOn(r, "target")
    /\ disturbed' = disturbed \ {r}
    /\ UNCHANGED <<rowVars, outsideVars, processVars, told>>

\* The endpoint, the client or the policy is not found (404) or not usable (400),
\* radclient is missing (503), or anything else goes wrong (500).
Refuse(r) ==
    /\ stage[r] \in {"target", "policy", "send", "tell"}
    /\ told' = [told EXCEPT ![r] = "refused"]
    /\ GoOn(r, "close")
    /\ UNCHANGED <<rowVars, outsideVars, processVars, act, asked, disturbed>>

\* _resolve_client: a client of the endpoint's lab that is enabled, or the sink,
\* whether it runs or not.
MayBeAddressed(to) == to # Sink => targets[to] # "refused"

\* _resolve_endpoint and _resolve_client; for CoA the policy is the one that was
\* given, or the endpoint's.
Locate(r) ==
    /\ stage[r] = "target"
    /\ endpoint # "gone"
    /\ MayBeAddressed(act[r].to)
    /\ act' = [act EXCEPT
           ![r].chosen = IF act[r].kind = "disconnect" THEN None
                         ELSE IF @ = None THEN endpoint ELSE @,
           ![r].secret = act[r].to # Sink => targets[act[r].to] = "usable"]
    /\ GoOn(r, "policy")
    /\ UNCHANGED <<rowVars, outsideVars, processVars, told, asked, disturbed>>

\* Wrong on purpose (a disabled policy is pushed like any other).
Pushed_Disabled(row) == IF row = None THEN <<>> ELSE AsDict(RenderedPolicy(row))

\* _attributes_from_policy
Pushed(row) == IF row = None \/ ~row.enabled THEN <<>> ELSE AsDict(RenderedPolicy(row))

\* _resolve_policy; a policy that was chosen and is gone is refused.
Compose(r) ==
    /\ stage[r] = "policy"
    /\ act[r].chosen # None => policies[act[r].chosen] # None
    /\ act' = [act EXCEPT
           ![r].sent = IF act[r].chosen = None THEN <<>> ELSE Pushed(policies[act[r].chosen])]
    /\ GoOn(r, "send")
    /\ UNCHANGED <<rowVars, outsideVars, processVars, told, asked, disturbed>>

\* build_coa_request names the endpoint and adds the attributes.
Datagram(r) ==
    [nr |-> act[r].nr, to |-> act[r].to, what |-> act[r].kind,
     secret |-> act[r].secret, attrs |-> act[r].sent]

\* run_coa starts radclient, which sends.
Send(r) ==
    /\ stage[r] = "send"
    /\ net' = net \cup {Datagram(r)}
    /\ GoOn(r, "listen")
    /\ UNCHANGED <<rowVars, session, applied, processVars, act, told, asked, disturbed>>

\* Wrong on purpose (any answer is a success).
ResultOf_AnyAnswer(code) == "ack"

\* Wrong on purpose (a refusal is no result).
ResultOf_AckOnly(code) == IF code = "ack" THEN "ack" ELSE "none"

\* How the answer radclient printed is read.
ResultOf(code) == IF code = "ack" THEN "ack" ELSE "nak"

\* radclient takes an answer to its own request only, and only while it listens.
Hear(r) ==
    /\ stage[r] = "listen"
    /\ \E d \in net :
           /\ d.nr = act[r].nr /\ "code" \in DOMAIN d
           /\ net' = net \ {d}
           /\ act' = [act EXCEPT ![r].code = ResultOf(d.code)]
    /\ GoOn(r, "tell")
    /\ UNCHANGED <<rowVars, session, applied, processVars, told, asked, disturbed>>

\* Wrong on purpose (radclient is waited for as long as it takes).
StopsListening_Never(r) == FALSE

\* Three seconds without an answer, or radclient fails or is stopped.
StopsListening(r) == stage[r] = "listen"

HearNothing(r) ==
    /\ StopsListening(r)
    /\ \E code \in {"timeout", "error"} : act' = [act EXCEPT ![r].code = code]
    /\ GoOn(r, "tell")
    /\ UNCHANGED <<rowVars, outsideVars, processVars, told, asked, disturbed>>

\* The answer of the request, with where the endpoint was last seen.
Tell(r) ==
    /\ stage[r] = "tell"
    /\ told' = [told EXCEPT ![r] = act[r].code]
    /\ GoOn(r, "close")
    /\ UNCHANGED <<rowVars, outsideVars, processVars, act, asked, disturbed>>

Close(r) ==
    /\ stage[r] = "close" /\ ~stuck
    /\ GoOn(r, "idle")
    /\ act' = [act EXCEPT ![r] = NoAct]
    /\ told' = [told EXCEPT ![r] = "nothing"]
    /\ disturbed' = disturbed \ {r}
    /\ UNCHANGED <<rowVars, outsideVars, processVars, asked>>

----------------------------------------------------------------------------
(***************************************************************************)
(* The network, the NAS and the sink.                                      *)
(***************************************************************************)

Others(nr) == {r \in Busy : act[r].nr # nr}

\* A NAS gets a request.  One with another secret it ignores, as it ignores all
\* if it has no dynamic authorization.  Without a session, or if it will not have
\* the attributes, it refuses; a CoA without attributes changes nothing.
NasGets(d) ==
    /\ d.to \in Clients
    /\ \/ /\ d.secret
          /\ \E code \in Codes, twice \in BOOLEAN :
                 /\ code = "ack" => session[d.to] # None
                 /\ net' = (IF twice THEN net ELSE net \ {d})
                           \cup {[nr |-> d.nr, code |-> code]}
                 /\ IF code = "nak" THEN UNCHANGED <<session, applied, disturbed>>
                    ELSE /\ session' = [session EXCEPT ![d.to] =
                                CASE d.what = "disconnect" -> None
                                  [] d.what = "coa" /\ d.attrs = <<>> -> @
                                  [] OTHER -> d.attrs]
                         /\ applied' = applied \cup
                                {[nr |-> d.nr, what |-> d.what, attrs |-> d.attrs]}
                         /\ disturbed' = disturbed \cup Others(d.nr)
       \/ net' = net \ {d} /\ UNCHANGED <<session, applied, disturbed>>
    /\ UNCHANGED <<rowVars, processVars, stage, act, told, asked>>

\* build_coa_response: every request of these names the endpoint, so the sink
\* answers each with an ACK, when the loop comes to it.
SinkGets(d) ==
    /\ d.to = Sink
    /\ api /\ sink /\ ~stuck
    /\ net' = (net \ {d}) \cup {[nr |-> d.nr, code |-> "ack"]}
    /\ UNCHANGED <<rowVars, session, applied, processVars, requestVars>>

Arrive == \E d \in net : "to" \in DOMAIN d /\ (NasGets(d) \/ SinkGets(d))

\* A datagram is lost; one to a socket that nobody has open always is.
Lose ==
    /\ \E d \in net : net' = net \ {d}
    /\ UNCHANGED <<rowVars, session, applied, processVars, requestVars>>

----------------------------------------------------------------------------
(***************************************************************************)
(* Around it.                                                              *)
(***************************************************************************)

\* _policy_reply_rows: what authentication grants an endpoint.
Granted ==
    IF endpoint \in Policies /\ policies[endpoint] # None /\ policies[endpoint].enabled
    THEN AsDict(RenderedPolicy(policies[endpoint]))
    ELSE <<>>

\* The endpoint authenticates at a NAS, or leaves it.
Authenticate(c) ==
    /\ session' = [session EXCEPT
           ![c] = IF @ = None /\ endpoint # "gone" THEN Granted ELSE None]
    /\ session'[c] # session[c]
    /\ UNCHANGED <<rowVars, net, applied, processVars, requestVars>>

\* The operator edits a policy, the endpoint or a client; a policy that is deleted
\* is detached.
Edit ==
    /\ api /\ edits < MaxEdits
    /\ edits' = edits + 1
    /\ \/ \E p \in Policies, b \in Bodies \cup {None} :
              /\ policies' = [policies EXCEPT ![p] = b]
              /\ endpoint' = IF b = None /\ endpoint = p THEN None ELSE endpoint
              /\ UNCHANGED targets
       \/ /\ endpoint' \in {p \in Policies : policies[p] # None} \cup {None, "gone"}
          /\ UNCHANGED <<policies, targets>>
       \/ /\ \E c \in Clients, row \in TargetRow :
                 targets' = [targets EXCEPT ![c] = row]
          /\ UNCHANGED <<policies, endpoint>>
    /\ disturbed' = disturbed \cup Busy
    /\ UNCHANGED <<outsideVars, processVars, stage, act, told, asked>>

\* The log ingestion takes the event loop, up to the pool's timeout for each line.
LoopTaken ==
    /\ api /\ ~stuck /\ stuck' = TRUE
    /\ UNCHANGED <<rowVars, outsideVars, requestVars, sink, api>>

LoopFreed ==
    /\ stuck /\ stuck' = FALSE
    /\ UNCHANGED <<rowVars, outsideVars, requestVars, sink, api>>

\* The API process ends; what is on its way stays so.
SessionCrash ==
    /\ api /\ api' = FALSE
    /\ sink' = FALSE /\ stuck' = FALSE
    /\ stage' = [r \in Threads |-> "idle"]
    /\ act' = [r \in Threads |-> NoAct]
    /\ told' = [r \in Threads |-> "nothing"]
    /\ disturbed' = {}
    /\ UNCHANGED <<rowVars, outsideVars, asked>>

\* It starts; the sink binds its port, or the failure is logged and it does not run.
SessionStart ==
    /\ ~api /\ api' = TRUE
    /\ sink' \in BOOLEAN
    /\ UNCHANGED <<rowVars, outsideVars, requestVars, stuck>>

SessionStep(r) ==
    \/ Refuse(r) \/ Locate(r) \/ Compose(r) \/ Send(r)
    \/ Hear(r) \/ HearNothing(r) \/ Tell(r) \/ Close(r)

SessionNext ==
    \/ \E r \in Threads : Ask(r) \/ SessionStep(r)
    \/ Arrive \/ Lose
    \/ \E c \in Clients : Authenticate(c)
    \/ Edit \/ LoopTaken \/ LoopFreed \/ SessionCrash \/ SessionStart

SessionSpec == SessionInit /\ [][SessionNext]_sessionVars

\* Threads run, radclient and the loop's user stop; the loop runs what is ready in the
\* order it became so, so that an answer is written however often lines are ingested.
SessionFairness ==
    /\ \A r \in Threads : WF_sessionVars(SessionStep(r)) /\ SF_sessionVars(Close(r))
    /\ WF_sessionVars(LoopFreed)

----------------------------------------------------------------------------
(***************************************************************************)
(* Properties.                                                             *)
(***************************************************************************)

\* A NAS whose ACK is reported did this very request, with the attributes the
\* answer lists as sent (session_actions.py:226-231), whatever was lost, late or
\* doubled and whoever else acted on the session.
AckWasApplied ==
    \A r \in Threads :
        (told[r] = "ack" /\ act[r].to \in Clients) =>
            [nr |-> act[r].nr, what |-> act[r].kind, attrs |-> act[r].sent] \in applied

\* A push of the endpoint's own policy that was acknowledged leaves the session with
\* what authentication would grant now, unless the push had nothing to say, the
\* session ended, or something else was edited or acted since the request began.
PushIsWhatAuthGrants ==
    \A r \in Threads \ disturbed :
        (/\ told[r] = "ack" /\ act[r].kind = "coa" /\ act[r].to \in Clients
         /\ act[r].chosen = endpoint /\ act[r].sent # <<>>) =>
            session[act[r].to] \in {None, Granted}

\* Whatever policies are, each attribute is rendered once, and the raw pair wins
\* (reply_attributes.py:141-144).
RawPairWins == \A p \in Policies : policies[p] # None => RendersWhatIsWanted(policies[p])

\* Every request is answered, though the sink shares the loop that may be taken.
ActionIsAnswered == \A r \in Threads : (stage[r] # "idle") ~> (stage[r] = "idle")

=============================================================================
