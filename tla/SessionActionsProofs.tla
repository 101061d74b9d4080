------------------------ MODULE SessionActionsProofs ------------------------
(***************************************************************************)
(* What holds of disconnects and pushes for any number of requests,        *)
(* policies, clients and datagrams.                                        *)
(*                                                                         *)
(* The argument follows a request by its number: whatever is on its way    *)
(* with that number is its own datagram or an answer to it, an ACK of a    *)
(* NAS is on its way or was heard only after the NAS acted, and nobody     *)
(* else acted on the session or edited a row unless the request is         *)
(* counted as disturbed.                                                   *)
(*                                                                         *)
(* What policies render to is shown by induction over their raw pairs.     *)
(***************************************************************************)
EXTENDS SessionActions, SequenceTheorems, FiniteSetTheorems, WellFoundedInduction, TLAPS

Act ==
    [nr: 0..MaxActions, kind: {"coa", "disconnect"}, to: Clients \cup {Sink},
     chosen: Policies \cup {None}, secret: BOOLEAN, sent: Attrs,
     code: Codes \cup {"none", "timeout", "error"}]

Request ==
    [nr: 1..MaxActions, to: Clients \cup {Sink}, what: {"coa", "disconnect"},
     secret: BOOLEAN, attrs: Attrs]

Answer == [nr: 1..MaxActions, code: Codes]

Deeds == [nr: 1..MaxActions, what: {"coa", "disconnect"}, attrs: Attrs]

\* What a NAS does for request r.
Deed(r) == [nr |-> act[r].nr, what |-> act[r].kind, attrs |-> act[r].sent]

\* An ACK for r is on its way, or was heard.
Acked(r) == act[r].code = "ack" \/ [nr |-> act[r].nr, code |-> "ack"] \in net

\* r pushes the endpoint's own policy to a NAS, and it has something to say.
OwnPush(r) ==
    /\ act[r].kind = "coa" /\ act[r].to \in Clients
    /\ act[r].chosen = endpoint /\ act[r].sent # <<>>

\* What r has read fits how far it is.
StageFits(r) ==
    /\ stage[r] = "idle" => act[r] = NoAct
    /\ stage[r] # "idle" => act[r].nr \in 1..asked
    /\ stage[r] \in {"idle", "target", "policy"} => act[r].sent = <<>>
    /\ stage[r] \in {"idle", "target", "policy", "send", "listen"} => act[r].code = "none"
    /\ stage[r] # "close" => told[r] = "nothing"
    /\ stage[r] = "tell" => act[r].code # "none"
    /\ told[r] = "ack" => act[r].code = "ack"

\* What is on its way with the number of r is the datagram of r or an answer to it.
NetFits(r) ==
    \A d \in net : d.nr = act[r].nr =>
        /\ stage[r] \in {"listen", "tell", "close"}
        /\ d \in Request => d = Datagram(r)

AckFits(r) == act[r].to \in Clients /\ Acked(r) => Deed(r) \in applied

PushFits(r) ==
    r \notin disturbed /\ OwnPush(r) =>
        /\ act[r].sent = Granted
        /\ Acked(r) => session[act[r].to] \in {None, Granted}

\* Numbers are given once.
NumbersFit ==
    /\ \A d \in net : d.nr \in 1..asked
    /\ \A r, s \in Threads : stage[r] # "idle" /\ stage[s] # "idle" /\ r # s =>
           act[r].nr # act[s].nr

\* The inductive invariant.
SessionInv ==
    /\ SessionTypeOK
    /\ NumbersFit
    /\ \A r \in Threads : StageFits(r) /\ NetFits(r) /\ AckFits(r) /\ PushFits(r)

----------------------------------------------------------------------------
\* What a policy has to say is one of the attribute lists there are.
LEMMA PushedIsTyped ==
    ASSUME NEW row \in Bodies \cup {None}
    PROVE  Pushed(row) \in Attrs
<1>1. None \notin Bodies
  BY SessionAssumption
<1> QED
  BY <1>1 DEF Pushed, Attrs

\* So is what authentication grants.
LEMMA GrantedIsTyped ==
    ASSUME SessionTypeOK
    PROVE  Granted \in Attrs
<1>1. CASE endpoint \in Policies /\ policies[endpoint] # None
  <2>1. policies[endpoint] \in Bodies
    BY <1>1 DEF SessionTypeOK
  <2> QED
    BY <2>1 DEF Granted, Attrs
<1>2. CASE ~(endpoint \in Policies /\ policies[endpoint] # None)
  BY <1>2 DEF Granted, Attrs
<1> QED
  BY <1>1, <1>2

\* Requests and answers are told apart by their fields.
LEMMA DatagramsDiffer ==
    /\ \A d \in Request : "to" \in DOMAIN d /\ "code" \notin DOMAIN d /\ d \notin Answer
    /\ \A d \in Answer : "code" \in DOMAIN d /\ "to" \notin DOMAIN d /\ d \notin Request
BY DEF Request, Answer

\* A request that has not begun.
LEMMA NoActIsTyped ==
    /\ NoAct \in Act /\ NoAct.nr = 0 /\ NoAct.sent = <<>> /\ NoAct.code = "none"
BY SessionAssumption DEF NoAct, Act, Attrs

\* The types, by the names used here.
LEMMA Types ==
    SessionTypeOK <=>
        /\ policies \in [Policies -> Bodies \cup {None}]
        /\ endpoint \in Policies \cup {None, "gone"}
        /\ targets \in [Clients -> TargetRow]
        /\ session \in [Clients -> Attrs \cup {None}]
        /\ sink \in BOOLEAN /\ stuck \in BOOLEAN /\ api \in BOOLEAN
        /\ net \subseteq Request \cup Answer
        /\ stage \in [Threads -> {"idle", "target", "policy", "send", "listen", "tell",
                                  "close"}]
        /\ act \in [Threads -> Act]
        /\ told \in [Threads -> {"nothing", "refused", "ack", "nak", "timeout", "error"}]
        /\ asked \in 0..MaxActions /\ edits \in 0..MaxEdits
        /\ disturbed \subseteq Threads
        /\ applied \subseteq Deeds
BY DEF SessionTypeOK, Request, Answer, Act, Deeds

----------------------------------------------------------------------------
(***************************************************************************)
(* Steps of a request that leave the network alone.                        *)
(***************************************************************************)

\* One request moves; the others fit as before.
LEMMA RequestMoves ==
    ASSUME SessionInv, NEW r \in Threads, UNCHANGED <<rowVars, outsideVars, processVars>>,
           NEW p \in {"idle", "target", "policy", "send", "listen", "tell", "close"},
           NEW x \in Act,
           NEW v \in {"nothing", "refused", "ack", "nak", "timeout", "error"},
           stage' = [stage EXCEPT ![r] = p], act' = [act EXCEPT ![r] = x],
           told' = [told EXCEPT ![r] = v],
           asked' \in 0..MaxActions, asked <= asked', disturbed' \subseteq Threads,
           \A s \in Threads \ {r} : s \in disturbed' <=> s \in disturbed,
           p # "idle" =>
               \A s \in Threads \ {r} : stage[s] # "idle" => act[s].nr # x.nr,
           StageFits(r)', NetFits(r)', AckFits(r)', PushFits(r)'
    PROVE  SessionInv'
<1>1. SessionTypeOK'
  <2>1. /\ policies' = policies /\ endpoint' = endpoint /\ targets' = targets
        /\ session' = session /\ sink' = sink /\ stuck' = stuck /\ api' = api
        /\ net' = net /\ edits' = edits /\ applied' = applied
    BY DEF rowVars, outsideVars, processVars
  <2> QED
    BY <2>1, Types DEF SessionInv, SessionTypeOK, Act
<1>2. NumbersFit'
  <2>1. net' = net
    BY DEF outsideVars
  <2>2. asked \in Nat /\ asked' \in Nat /\ asked <= asked'
    BY SessionAssumption DEF SessionInv, SessionTypeOK
  <2>3. \A d \in net : d.nr \in 1..asked'
    BY <2>2 DEF SessionInv, NumbersFit
  <2>4. ASSUME NEW s \in Threads, NEW t \in Threads,
               stage'[s] # "idle", stage'[t] # "idle", s # t
        PROVE  act'[s].nr # act'[t].nr
    <3>1. /\ \A u \in Threads \ {r} : stage'[u] = stage[u] /\ act'[u] = act[u]
          /\ stage'[r] = p /\ act'[r] = x
      BY DEF SessionInv, SessionTypeOK
    <3> QED
      BY <2>4, <3>1 DEF SessionInv, NumbersFit
  <2> QED
    BY <2>1, <2>3, <2>4 DEF NumbersFit
<1>3. ASSUME NEW s \in Threads, s # r
      PROVE  StageFits(s)' /\ NetFits(s)' /\ AckFits(s)' /\ PushFits(s)'
  <2>1. StageFits(s) /\ NetFits(s) /\ AckFits(s) /\ PushFits(s)
    BY DEF SessionInv
  <2>2. stage'[s] = stage[s] /\ act'[s] = act[s] /\ told'[s] = told[s]
    BY <1>3 DEF SessionInv, SessionTypeOK
  <2>3. StageFits(s)'
    <3>1. asked \in Nat /\ asked' \in Nat /\ asked <= asked'
      BY SessionAssumption DEF SessionInv, SessionTypeOK
    <3> QED
      BY <2>1, <2>2, <3>1 DEF StageFits
  <2>4. NetFits(s)'
    BY <2>1, <2>2 DEF NetFits, Datagram, outsideVars
  <2>5. AckFits(s)'
    BY <2>1, <2>2 DEF AckFits, Acked, Deed, outsideVars
  <2>6. PushFits(s)'
    <3>1. endpoint' = endpoint /\ net' = net /\ session' = session /\ Granted' = Granted
      BY DEF rowVars, outsideVars, Granted
    <3>2. s \in disturbed' <=> s \in disturbed
      BY <1>3
    <3> QED
      BY <2>1, <2>2, <3>1, <3>2 DEF PushFits, OwnPush, Acked
  <2> QED
    BY <2>3, <2>4, <2>5, <2>6
<1> QED
  BY <1>1, <1>2, <1>3 DEF SessionInv

\* What is known of one request.
LEMMA OneRequest ==
    ASSUME SessionInv, NEW r \in Threads
    PROVE  /\ act[r] \in Act /\ StageFits(r) /\ NetFits(r) /\ AckFits(r) /\ PushFits(r)
           /\ stage[r] \in {"idle", "target", "policy", "send", "listen", "tell", "close"}
           /\ told[r] \in {"nothing", "refused", "ack", "nak", "timeout", "error"}
           /\ asked \in Nat /\ asked \in 0..MaxActions /\ act[r].nr \in Nat
           /\ \A s \in Threads \ {r} :
                  stage[r] # "idle" /\ stage[s] # "idle" => act[s].nr # act[r].nr
<1>1. act[r] \in Act /\ asked \in 0..MaxActions
  BY Types DEF SessionInv
<1>2. act[r].nr \in Nat /\ asked \in Nat
  BY <1>1, SessionAssumption DEF Act
<1> QED
  BY <1>1, <1>2, Types DEF SessionInv, NumbersFit

\* A request that begins has a number of its own, and nothing is on its way with it.
LEMMA AskKeeps ==
    ASSUME SessionInv, NEW r \in Threads, Ask(r) PROVE SessionInv'
<1>1. PICK kind \in {"coa", "disconnect"}, to \in Clients \cup {Sink},
           chosen \in Policies \cup {None} :
          act' = [act EXCEPT ![r] = [NoAct EXCEPT !.nr = asked + 1, !.kind = kind,
                                     !.to = to, !.chosen = chosen]]
  BY DEF Ask
<1>2. PICK x : x = [NoAct EXCEPT !.nr = asked + 1, !.kind = kind, !.to = to,
                                 !.chosen = chosen]
  OBVIOUS
<1>3. /\ asked' = asked + 1 /\ asked < MaxActions /\ asked \in Nat /\ MaxActions \in Nat
      /\ stage' = [stage EXCEPT ![r] = "target"] /\ stage[r] = "idle"
      /\ disturbed' = disturbed \ {r} /\ told' = told
      /\ UNCHANGED <<rowVars, outsideVars, processVars>>
  BY OneRequest, SessionAssumption DEF Ask, GoOn
<1>4. x \in Act /\ x.nr = asked + 1 /\ x.sent = <<>> /\ x.code = "none"
  <2>1. PICK n \in 1..MaxActions : n = asked + 1
    BY <1>3
  <2>2. x = [nr |-> n, kind |-> kind, to |-> to, chosen |-> chosen, secret |-> TRUE,
             sent |-> <<>>, code |-> "none"]
    BY <1>2, <2>1, Zenon DEF NoAct
  <2>3. <<>> \in Attrs
    BY DEF Attrs
  <2> QED
    BY <2>1, <2>2, <2>3, SessionAssumption DEF Act
<1>5. told[r] = "nothing"
  BY <1>3, OneRequest DEF StageFits
<1>6. /\ act'[r] = x /\ stage'[r] = "target" /\ told'[r] = "nothing"
      /\ told' = [told EXCEPT ![r] = "nothing"] /\ act' = [act EXCEPT ![r] = x]
  BY <1>1, <1>2, <1>3, <1>5, Types DEF SessionInv
<1>7. net' = net /\ \A d \in net : d.nr # asked + 1
  BY <1>3 DEF SessionInv, NumbersFit, outsideVars
<1>8. StageFits(r)'
  BY <1>3, <1>4, <1>6 DEF StageFits
<1>9. NetFits(r)'
  BY <1>4, <1>6, <1>7 DEF NetFits
<1>10. ~Acked(r)'
  <2>1. [nr |-> asked + 1, code |-> "ack"] \notin net
    BY <1>7
  <2> QED
    BY <1>4, <1>6, <1>7, <2>1 DEF Acked
<1>11. AckFits(r)'
  BY <1>10 DEF AckFits
<1>12. PushFits(r)'
  BY <1>4, <1>6 DEF PushFits, OwnPush
<1>13. \A s \in Threads \ {r} : stage[s] # "idle" => act[s].nr # x.nr
  BY <1>3, <1>4, OneRequest DEF SessionInv, StageFits
<1>14. /\ asked' \in 0..MaxActions /\ asked <= asked' /\ disturbed' \subseteq Threads
       /\ \A s \in Threads \ {r} : s \in disturbed' <=> s \in disturbed
  BY <1>3 DEF SessionInv, SessionTypeOK
<1> QED
  BY <1>3, <1>4, <1>6, <1>8, <1>9, <1>11, <1>12, <1>13, <1>14, RequestMoves

\* A refused request has been told no ACK, and it keeps what it had read.
LEMMA RefuseKeeps ==
    ASSUME SessionInv, NEW r \in Threads, Refuse(r) PROVE SessionInv'
<1>1. /\ stage[r] \in {"target", "policy", "send", "tell"}
      /\ told' = [told EXCEPT ![r] = "refused"] /\ stage' = [stage EXCEPT ![r] = "close"]
      /\ act' = act /\ asked' = asked /\ disturbed' = disturbed
      /\ UNCHANGED <<rowVars, outsideVars, processVars>>
  BY DEF Refuse, GoOn
<1>2. PICK x \in Act : x = act[r]
  BY OneRequest
<1>3. /\ stage'[r] = "close" /\ told'[r] = "refused" /\ act'[r] = x /\ act[r] = x
      /\ act' = [act EXCEPT ![r] = x]
  BY <1>1, <1>2, Types DEF SessionInv
<1>4. /\ net' = net /\ session' = session /\ applied' = applied /\ endpoint' = endpoint
      /\ policies' = policies
  BY <1>1 DEF rowVars, outsideVars
<1>5. StageFits(r)'
  BY <1>1, <1>3, OneRequest DEF StageFits
<1>6. NetFits(r)'
  BY <1>1, <1>3, <1>4, OneRequest DEF NetFits, Datagram
<1>7. AckFits(r)'
  BY <1>3, <1>4, OneRequest DEF AckFits, Acked, Deed
<1>8. PushFits(r)'
  BY <1>1, <1>3, <1>4, OneRequest DEF PushFits, OwnPush, Acked, Granted
<1>9. /\ \A s \in Threads \ {r} : stage[s] # "idle" => act[s].nr # x.nr
      /\ asked' \in 0..MaxActions /\ asked <= asked'
      /\ \A s \in Threads \ {r} : s \in disturbed' <=> s \in disturbed
      /\ disturbed' \subseteq Threads
  BY <1>1, <1>2, OneRequest, Types DEF SessionInv
<1> QED
  BY <1>1, <1>3, <1>5, <1>6, <1>7, <1>8, <1>9, RequestMoves

\* Before it has sent anything a request reads and writes down what it has read.
LEMMA ReadingKeeps ==
    ASSUME SessionInv, NEW r \in Threads, stage[r] \in {"target", "policy"},
           UNCHANGED <<rowVars, outsideVars, processVars, told, asked, disturbed>>,
           NEW p \in {"policy", "send"}, NEW x \in Act,
           stage' = [stage EXCEPT ![r] = p], act' = [act EXCEPT ![r] = x],
           x.nr = act[r].nr, x.code = act[r].code,
           p = "policy" => x.sent = <<>>,
           x.chosen = endpoint /\ x.sent # <<>> => x.sent = Granted
    PROVE  SessionInv'
<1>1. /\ StageFits(r) /\ NetFits(r) /\ x.code = "none" /\ x.nr \in 1..asked
      /\ told[r] = "nothing"
  BY OneRequest DEF StageFits
<1>2. stage'[r] = p /\ act'[r] = x /\ told'[r] = "nothing" /\ asked' = asked
  BY <1>1, Types DEF SessionInv
<1>3. net' = net /\ endpoint' = endpoint /\ Granted' = Granted
  BY DEF outsideVars, rowVars, Granted
<1>4. \A d \in net : d.nr # x.nr
  BY <1>1 DEF NetFits
<1>5. StageFits(r)'
  BY <1>1, <1>2 DEF StageFits
<1>6. NetFits(r)'
  BY <1>2, <1>3, <1>4 DEF NetFits
<1>7. ~Acked(r)'
  <2>1. [nr |-> x.nr, code |-> "ack"] \notin net
    BY <1>4
  <2> QED
    BY <1>1, <1>2, <1>3, <2>1 DEF Acked
<1>8. AckFits(r)'
  BY <1>7 DEF AckFits
<1>9. PushFits(r)'
  BY <1>2, <1>3, <1>7 DEF PushFits, OwnPush
<1>10. /\ \A s \in Threads \ {r} : stage[s] # "idle" => act[s].nr # x.nr
       /\ asked' \in 0..MaxActions /\ asked <= asked'
       /\ \A s \in Threads \ {r} : s \in disturbed' <=> s \in disturbed
       /\ disturbed' \subseteq Threads
  BY <1>2, OneRequest, Types DEF SessionInv
<1>11. told' = [told EXCEPT ![r] = "nothing"]
  BY <1>1, Types DEF SessionInv
<1>12. UNCHANGED <<rowVars, outsideVars, processVars>>
  OBVIOUS
<1> QED
  BY <1>5, <1>6, <1>8, <1>9, <1>10, <1>11, <1>12, RequestMoves

\* The endpoint's own policy is noted by name, with nothing to say yet.
LEMMA LocateKeeps ==
    ASSUME SessionInv, NEW r \in Threads, Locate(r) PROVE SessionInv'
<1>1. /\ stage[r] = "target" /\ endpoint # "gone"
      /\ stage' = [stage EXCEPT ![r] = "policy"]
      /\ UNCHANGED <<rowVars, outsideVars, processVars, told, asked, disturbed>>
  BY DEF Locate, GoOn
<1>2. PICK a \in Act : a = act[r] /\ a.sent = <<>>
  BY <1>1, OneRequest DEF StageFits
<1>3. PICK chosen \in Policies \cup {None} :
          chosen = IF a.kind = "disconnect" THEN None
                   ELSE IF a.chosen = None THEN endpoint ELSE a.chosen
  <2>1. a.chosen \in Policies \cup {None}
    BY DEF Act
  <2>2. endpoint \in Policies \cup {None}
    BY <1>1, Types DEF SessionInv
  <2> QED
    BY <2>1, <2>2
<1>4. PICK secret \in BOOLEAN : secret = (a.to # Sink => targets[a.to] = "usable")
  OBVIOUS
<1>5. PICK b : b = [a EXCEPT !.chosen = chosen]
  OBVIOUS
<1>6. PICK x : x = [b EXCEPT !.secret = secret]
  OBVIOUS
<1>7. act' = [act EXCEPT ![r] = x]
  <2>1. act' = [act EXCEPT ![r].chosen = chosen, ![r].secret = secret]
    BY <1>2, <1>3, <1>4 DEF Locate
  <2> QED
    BY <1>2, <1>5, <1>6, <2>1, Types DEF SessionInv
<1>8. b \in Act /\ b.nr = a.nr /\ b.code = a.code /\ b.sent = a.sent
  BY <1>5 DEF Act
<1>9. x \in Act /\ x.nr = b.nr /\ x.code = b.code /\ x.sent = b.sent
  BY <1>6, <1>8 DEF Act
<1> QED
  BY <1>1, <1>2, <1>7, <1>8, <1>9, ReadingKeeps

\* What is sent of the endpoint's own policy is what authentication grants.
LEMMA ComposeKeeps ==
    ASSUME SessionInv, NEW r \in Threads, Compose(r) PROVE SessionInv'
<1>1. /\ stage[r] = "policy" /\ stage' = [stage EXCEPT ![r] = "send"]
      /\ UNCHANGED <<rowVars, outsideVars, processVars, told, asked, disturbed>>
  BY DEF Compose, GoOn
<1>2. PICK a \in Act : a = act[r]
  BY OneRequest
<1>3. PICK sent : sent = IF a.chosen = None THEN <<>> ELSE Pushed(policies[a.chosen])
  OBVIOUS
<1>4. sent \in Attrs
  <2>1. CASE a.chosen = None
    BY <1>3, <2>1 DEF Attrs
  <2>2. CASE a.chosen # None
    <3>1. PICK row \in Bodies \cup {None} : row = policies[a.chosen]
      BY <2>2, Types DEF SessionInv, Act
    <3>2. Pushed(row) \in Attrs
      BY PushedIsTyped
    <3> QED
      BY <1>3, <2>2, <3>1, <3>2
  <2> QED
    BY <2>1, <2>2
<1>5. PICK x : x = [a EXCEPT !.sent = sent]
  OBVIOUS
<1>6. act' = [act EXCEPT ![r] = x]
  BY <1>2, <1>3, <1>5, Types DEF Compose, SessionInv
<1>7. x \in Act /\ x.nr = a.nr /\ x.code = a.code /\ x.chosen = a.chosen /\ x.sent = sent
  BY <1>4, <1>5 DEF Act
<1>8. ASSUME x.chosen = endpoint, x.sent # <<>>
      PROVE  x.sent = Granted
  <2>1. PICK row : row = policies[endpoint]
    OBVIOUS
  <2>2. endpoint \in Policies /\ sent = Pushed(row)
    <3>1. a.chosen \in Policies
      BY <1>3, <1>7, <1>8 DEF Act
    <3> QED
      BY <1>3, <1>7, <1>8, <2>1, <3>1, SessionAssumption
  <2>3. row # None /\ row.enabled /\ sent = AsDict(RenderedPolicy(row))
    BY <1>7, <1>8, <2>2 DEF Pushed
  <2> QED
    BY <1>7, <2>1, <2>2, <2>3 DEF Granted
<1> QED
  BY <1>1, <1>2, <1>6, <1>7, <1>8, ReadingKeeps

\* Silence is no ACK; one that is on its way may come too late.
LEMMA HearNothingKeeps ==
    ASSUME SessionInv, NEW r \in Threads, HearNothing(r) PROVE SessionInv'
<1>1. /\ stage[r] = "listen" /\ stage' = [stage EXCEPT ![r] = "tell"]
      /\ UNCHANGED <<rowVars, outsideVars, processVars, told, asked, disturbed>>
  BY DEF HearNothing, StopsListening, GoOn
<1>2. PICK code \in {"timeout", "error"} : act' = [act EXCEPT ![r].code = code]
  BY DEF HearNothing
<1>3. PICK a \in Act : a = act[r]
  BY OneRequest
<1>4. PICK x : x = [a EXCEPT !.code = code]
  OBVIOUS
<1>5. act' = [act EXCEPT ![r] = x]
  BY <1>2, <1>3, <1>4, Types DEF SessionInv
<1>6. /\ x \in Act /\ x.nr = a.nr /\ x.kind = a.kind /\ x.to = a.to
      /\ x.chosen = a.chosen /\ x.sent = a.sent /\ x.code = code
  BY <1>4 DEF Act
<1>7. x.secret = a.secret
  BY <1>4, Zenon DEF Act
<1>8. stage'[r] = "tell" /\ act'[r] = x /\ told'[r] = told[r]
  BY <1>1, <1>5, Types DEF SessionInv
<1>9. /\ net' = net /\ endpoint' = endpoint /\ Granted' = Granted /\ session' = session
      /\ applied' = applied
  BY <1>1 DEF outsideVars, rowVars, Granted
<1>10. StageFits(r)'
  BY <1>1, <1>3, <1>6, <1>8, OneRequest DEF StageFits
<1>11. NetFits(r)'
  BY <1>1, <1>3, <1>6, <1>7, <1>8, <1>9, OneRequest DEF NetFits, Datagram
<1>12. Acked(r)' => Acked(r)
  BY <1>3, <1>6, <1>8, <1>9 DEF Acked
<1>13. AckFits(r)'
  BY <1>3, <1>6, <1>8, <1>9, <1>12, OneRequest DEF AckFits, Deed
<1>14. PushFits(r)'
  BY <1>1, <1>3, <1>6, <1>8, <1>9, <1>12, OneRequest DEF PushFits, OwnPush
<1>15. /\ \A s \in Threads \ {r} : stage[s] # "idle" => act[s].nr # x.nr
       /\ asked' \in 0..MaxActions /\ asked <= asked'
       /\ \A s \in Threads \ {r} : s \in disturbed' <=> s \in disturbed
       /\ disturbed' \subseteq Threads
  BY <1>1, <1>3, <1>6, OneRequest, Types DEF SessionInv
<1>16. told' = [told EXCEPT ![r] = told[r]]
       /\ told[r] \in {"nothing", "refused", "ack", "nak", "timeout", "error"}
  BY <1>1, Types DEF SessionInv
<1> QED
  BY <1>1, <1>5, <1>6, <1>10, <1>11, <1>13, <1>14, <1>15, <1>16, RequestMoves

\* What is told is what was heard.
LEMMA TellKeeps ==
    ASSUME SessionInv, NEW r \in Threads, Tell(r) PROVE SessionInv'
<1>1. /\ stage[r] = "tell" /\ stage' = [stage EXCEPT ![r] = "close"]
      /\ told' = [told EXCEPT ![r] = act[r].code]
      /\ UNCHANGED <<rowVars, outsideVars, processVars, act, asked, disturbed>>
  BY DEF Tell, GoOn
<1>2. PICK x \in Act : x = act[r]
  BY OneRequest
<1>3. x.code \in {"nothing", "refused", "ack", "nak", "timeout", "error"}
  <2>1. x.code # "none"
    BY <1>1, <1>2, OneRequest DEF StageFits
  <2> QED
    BY <2>1 DEF Act, Codes
<1>4. /\ stage'[r] = "close" /\ told'[r] = x.code /\ act'[r] = x /\ act[r] = x
      /\ act' = [act EXCEPT ![r] = x] /\ told' = [told EXCEPT ![r] = x.code]
  BY <1>1, <1>2, Types DEF SessionInv
<1>5. /\ net' = net /\ endpoint' = endpoint /\ Granted' = Granted /\ session' = session
      /\ applied' = applied
  BY <1>1 DEF outsideVars, rowVars, Granted
<1>6. StageFits(r)'
  BY <1>1, <1>4, OneRequest DEF StageFits
<1>7. NetFits(r)'
  BY <1>1, <1>4, <1>5, OneRequest DEF NetFits, Datagram
<1>8. AckFits(r)'
  BY <1>4, <1>5, OneRequest DEF AckFits, Acked, Deed
<1>9. PushFits(r)'
  BY <1>1, <1>4, <1>5, OneRequest DEF PushFits, OwnPush, Acked
<1>10. /\ \A s \in Threads \ {r} : stage[s] # "idle" => act[s].nr # x.nr
       /\ asked' \in 0..MaxActions /\ asked <= asked'
       /\ \A s \in Threads \ {r} : s \in disturbed' <=> s \in disturbed
       /\ disturbed' \subseteq Threads
  BY <1>1, <1>2, OneRequest, Types DEF SessionInv
<1> QED
  BY <1>1, <1>3, <1>4, <1>6, <1>7, <1>8, <1>9, <1>10, RequestMoves

\* A request that is over is forgotten.
LEMMA CloseKeeps ==
    ASSUME SessionInv, NEW r \in Threads, Close(r) PROVE SessionInv'
<1>1. /\ stage' = [stage EXCEPT ![r] = "idle"] /\ act' = [act EXCEPT ![r] = NoAct]
      /\ told' = [told EXCEPT ![r] = "nothing"]
      /\ disturbed' = disturbed \ {r} /\ asked' = asked
      /\ UNCHANGED <<rowVars, outsideVars, processVars>>
  BY DEF Close, GoOn
<1>2. PICK x \in Act : x = NoAct
  BY NoActIsTyped
<1>3. stage'[r] = "idle" /\ act'[r] = x /\ told'[r] = "nothing"
  BY <1>1, <1>2, Types DEF SessionInv
<1>4. net' = net /\ \A d \in net : d.nr # 0
  BY <1>1 DEF SessionInv, NumbersFit, outsideVars
<1>5. StageFits(r)'
  BY <1>2, <1>3, NoActIsTyped DEF StageFits
<1>6. NetFits(r)'
  BY <1>2, <1>3, <1>4, NoActIsTyped DEF NetFits
<1>7. ~Acked(r)'
  <2>1. [nr |-> 0, code |-> "ack"] \notin net
    BY <1>4
  <2> QED
    BY <1>2, <1>3, <1>4, <2>1, NoActIsTyped DEF Acked
<1>8. AckFits(r)'
  BY <1>7 DEF AckFits
<1>9. PushFits(r)'
  BY <1>2, <1>3, NoActIsTyped DEF PushFits, OwnPush
<1>10. /\ asked' \in 0..MaxActions /\ asked <= asked'
       /\ \A s \in Threads \ {r} : s \in disturbed' <=> s \in disturbed
       /\ disturbed' \subseteq Threads
  BY <1>1, OneRequest, Types DEF SessionInv
<1>11. act' = [act EXCEPT ![r] = x]
  BY <1>1, <1>2
<1> QED
  BY <1>1, <1>5, <1>6, <1>8, <1>9, <1>10, <1>11, RequestMoves

----------------------------------------------------------------------------
(***************************************************************************)
(* The network.                                                            *)
(***************************************************************************)

\* Nothing is on its way with the number of a request that has not sent.
LEMMA SendKeeps ==
    ASSUME SessionInv, NEW r \in Threads, Send(r) PROVE SessionInv'
<1>1. /\ stage[r] = "send" /\ stage' = [stage EXCEPT ![r] = "listen"]
      /\ net' = net \cup {Datagram(r)}
      /\ UNCHANGED <<rowVars, session, applied, processVars, act, told, asked, disturbed>>
  BY DEF Send, GoOn
<1>2. PICK a \in Act : a = act[r] /\ a.nr \in 1..asked
  BY <1>1, OneRequest DEF StageFits
<1>3. PICK d \in Request : d = Datagram(r) /\ d.nr = a.nr
  <2>1. a.nr \in 1..MaxActions
    BY <1>2, OneRequest, SessionAssumption
  <2>2. Datagram(r) = [nr |-> a.nr, to |-> a.to, what |-> a.kind, secret |-> a.secret,
                       attrs |-> a.sent]
    BY <1>2 DEF Datagram
  <2>3. /\ a.to \in Clients \cup {Sink} /\ a.kind \in {"coa", "disconnect"}
        /\ a.sent \in Attrs
    BY DEF Act
  <2>4. a.secret \in BOOLEAN
    BY DEF Act
  <2>5. Datagram(r) \in Request
    <3>1. PICK n \in 1..MaxActions, to \in Clients \cup {Sink},
               what \in {"coa", "disconnect"}, secret \in BOOLEAN, attrs \in Attrs :
              /\ n = a.nr /\ to = a.to /\ what = a.kind /\ attrs = a.sent
              /\ secret = a.secret
      BY <2>1, <2>3, <2>4, Zenon
    <3>2. [nr |-> n, to |-> to, what |-> what, secret |-> secret, attrs |-> attrs] \in Request
      BY DEF Request
    <3>3. Datagram(r) = [nr |-> n, to |-> to, what |-> what, secret |-> secret,
                         attrs |-> attrs]
      BY <2>2, <3>1, Zenon
    <3> QED
      BY <3>2, <3>3
  <2>6. Datagram(r).nr = a.nr
    BY <1>2 DEF Datagram
  <2> QED
    BY <2>5, <2>6
<1>4. SessionTypeOK'
  <2>1. net' \subseteq Request \cup Answer
    BY <1>1, <1>3, Types DEF SessionInv
  <2>2. /\ policies' = policies /\ endpoint' = endpoint /\ targets' = targets
        /\ session' = session /\ sink' = sink /\ stuck' = stuck /\ api' = api
        /\ edits' = edits /\ applied' = applied /\ act' = act /\ told' = told
        /\ asked' = asked /\ disturbed' = disturbed
    BY <1>1 DEF rowVars, processVars
  <2>3. stage' \in [Threads -> {"idle", "target", "policy", "send", "listen", "tell",
                                "close"}]
    BY <1>1, Types DEF SessionInv
  <2> QED
    BY <2>1, <2>2, <2>3, Types DEF SessionInv, SessionTypeOK, Act, Request, Answer
<1>5. \A s \in Threads : stage'[s] = IF s = r THEN "listen" ELSE stage[s]
  BY <1>1, Types DEF SessionInv
<1>6. NumbersFit'
  <2>1. \A e \in net' : e.nr \in 1..asked'
    BY <1>1, <1>2, <1>3 DEF SessionInv, NumbersFit
  <2>2. \A s, t \in Threads : stage'[s] # "idle" /\ stage'[t] # "idle" /\ s # t =>
            act'[s].nr # act'[t].nr
    BY <1>1, <1>5 DEF SessionInv, NumbersFit
  <2> QED
    BY <2>1, <2>2 DEF NumbersFit
<1>7. ASSUME NEW s \in Threads
      PROVE  StageFits(s)' /\ NetFits(s)' /\ AckFits(s)' /\ PushFits(s)'
  <2>1. StageFits(s) /\ NetFits(s) /\ AckFits(s) /\ PushFits(s)
    BY DEF SessionInv
  <2>2. StageFits(s)'
    BY <1>1, <1>5, <2>1 DEF StageFits
  <2>3. NetFits(s)'
    <3>1. SUFFICES ASSUME NEW e \in net', e.nr = act[s].nr
                   PROVE  /\ stage'[s] \in {"listen", "tell", "close"}
                          /\ e \in Request => e = Datagram(s)
      BY <1>1 DEF NetFits, Datagram
    <3>2. CASE e \in net
      BY <1>1, <1>5, <2>1, <3>1, <3>2 DEF NetFits
    <3>3. CASE e = d
      <4>1. s = r
        <5>1. stage[s] # "idle"
          BY <1>2, <1>3, <2>1, <3>1, <3>3, NoActIsTyped, OneRequest DEF StageFits
        <5> QED
          BY <1>1, <1>2, <1>3, <3>1, <3>3, <5>1 DEF SessionInv, NumbersFit
      <4> QED
        BY <1>3, <1>5, <3>3, <4>1
    <3> QED
      BY <1>1, <1>3, <3>1, <3>2, <3>3
  <2>4. Acked(s)' => Acked(s)
    <3>1. [nr |-> act[s].nr, code |-> "ack"] # d
      BY DatagramsDiffer
    <3> QED
      BY <1>1, <1>3, <3>1 DEF Acked
  <2>5. AckFits(s)'
    BY <1>1, <2>1, <2>4 DEF AckFits, Deed
  <2>6. PushFits(s)'
    <3>1. endpoint' = endpoint /\ Granted' = Granted
      BY <1>1 DEF rowVars, Granted
    <3> QED
      BY <1>1, <2>1, <2>4, <3>1 DEF PushFits, OwnPush
  <2> QED
    BY <2>2, <2>3, <2>5, <2>6
<1> QED
  BY <1>4, <1>6, <1>7 DEF SessionInv

\* Steps outside the requests: a datagram d leaves the network or stays, and an answer to
\* it may enter.
LEMMA OutsideKeeps ==
    ASSUME SessionInv, NEW d \in net, NEW code \in Codes,
           net' \subseteq net \cup {[nr |-> d.nr, code |-> code]},
           UNCHANGED <<rowVars, processVars, stage, act, told, asked>>,
           session' \in [Clients -> Attrs \cup {None}],
           applied \subseteq applied', applied' \subseteq Deeds,
           disturbed \subseteq disturbed', disturbed' \subseteq Threads,
           \A s \in Threads :
               act[s].nr = d.nr /\ code = "ack" /\ act[s].to \in Clients =>
                   Deed(s) \in applied',
           \A s \in Threads \ disturbed' :
               OwnPush(s) /\ Acked(s)' => session'[act[s].to] \in {None, Granted}
    PROVE  SessionInv'
<1>1. PICK ans \in Answer : ans = [nr |-> d.nr, code |-> code] /\ ans.nr = d.nr
  <2>1. d \in Request \cup Answer
    BY Types DEF SessionInv
  <2>2. d.nr \in 1..MaxActions
    BY <2>1 DEF Request, Answer
  <2>3. [nr |-> d.nr, code |-> code] \in Answer
    BY <2>2 DEF Answer
  <2>4. [nr |-> d.nr, code |-> code].nr = d.nr
    OBVIOUS
  <2> QED
    BY <2>3, <2>4
<1>2. SessionTypeOK'
  <2>1. net' \subseteq Request \cup Answer
    BY <1>1, Types DEF SessionInv
  <2> QED
    BY <2>1, Types DEF SessionInv, rowVars, processVars, SessionTypeOK, Act, Deeds
<1>3. NumbersFit'
  BY <1>1 DEF SessionInv, NumbersFit
<1>4. ASSUME NEW s \in Threads
      PROVE  StageFits(s)' /\ NetFits(s)' /\ AckFits(s)' /\ PushFits(s)'
  <2>1. StageFits(s) /\ NetFits(s) /\ AckFits(s) /\ PushFits(s)
    BY DEF SessionInv
  <2>2. StageFits(s)'
    BY <2>1 DEF StageFits
  <2>3. NetFits(s)'
    <3>1. ans \notin Request
      BY DatagramsDiffer
    <3> QED
      BY <1>1, <2>1, <3>1 DEF NetFits, Datagram
  <2>4. AckFits(s)'
    <3>1. CASE Acked(s)
      BY <2>1, <3>1 DEF AckFits, Deed
    <3>2. CASE ~Acked(s)
      <4>1. SUFFICES ASSUME Acked(s)', act[s].to \in Clients
                     PROVE  Deed(s) \in applied'
        BY DEF AckFits, Deed
      <4>2. [nr |-> act[s].nr, code |-> "ack"] = ans
        BY <1>1, <3>2, <4>1 DEF Acked
      <4>3. act[s].nr = d.nr /\ code = "ack"
        <5>1. ans.nr = act[s].nr /\ ans.code = "ack"
          BY <4>2
        <5> QED
          BY <1>1, <5>1
      <4> QED
        BY <4>1, <4>3
    <3> QED
      BY <3>1, <3>2
  <2>5. PushFits(s)'
    <3>1. endpoint' = endpoint /\ Granted' = Granted
      BY DEF rowVars, Granted
    <3> QED
      BY <2>1, <3>1 DEF PushFits, OwnPush
  <2> QED
    BY <2>2, <2>3, <2>4, <2>5
<1> QED
  BY <1>2, <1>3, <1>4 DEF SessionInv

\* An ACK that is heard was on its way.
LEMMA HearKeeps ==
    ASSUME SessionInv, NEW r \in Threads, Hear(r) PROVE SessionInv'
<1>1. /\ stage[r] = "listen" /\ stage' = [stage EXCEPT ![r] = "tell"]
      /\ UNCHANGED <<rowVars, session, applied, processVars, told, asked, disturbed>>
  BY DEF Hear, GoOn
<1>2. PICK d \in net :
          /\ d.nr = act[r].nr /\ "code" \in DOMAIN d
          /\ net' = net \ {d}
          /\ act' = [act EXCEPT ![r].code = ResultOf(d.code)]
  BY DEF Hear
<1>3. d \in Answer
  BY <1>2, DatagramsDiffer, Types DEF SessionInv
<1>4. PICK code \in Codes : code = ResultOf(d.code) /\ (code = "ack" => d.code = "ack")
  BY <1>3 DEF ResultOf, Codes, Answer
<1>5. PICK a \in Act : a = act[r]
  BY OneRequest
<1>6. PICK x : x = [a EXCEPT !.code = code]
  OBVIOUS
<1>7. act' = [act EXCEPT ![r] = x]
  BY <1>2, <1>4, <1>5, <1>6, Types DEF SessionInv
<1>8. /\ x \in Act /\ x.nr = a.nr /\ x.kind = a.kind /\ x.to = a.to
      /\ x.chosen = a.chosen /\ x.sent = a.sent /\ x.code = code
  BY <1>6 DEF Act, Codes
<1>9. x.secret = a.secret
  BY <1>6, Zenon DEF Act
<1>10. /\ stage'[r] = "tell" /\ act'[r] = x
       /\ \A s \in Threads \ {r} : stage'[s] = stage[s] /\ act'[s] = act[s]
  BY <1>1, <1>7, Types DEF SessionInv
<1>11. SessionTypeOK'
  <2>1. net' \subseteq Request \cup Answer
    BY <1>2, Types DEF SessionInv
  <2>2. /\ policies' = policies /\ endpoint' = endpoint /\ targets' = targets
        /\ session' = session /\ sink' = sink /\ stuck' = stuck /\ api' = api
        /\ edits' = edits /\ applied' = applied /\ told' = told
        /\ asked' = asked /\ disturbed' = disturbed
    BY <1>1 DEF rowVars, processVars
  <2>3. stage' \in [Threads -> {"idle", "target", "policy", "send", "listen", "tell",
                                "close"}]
    BY <1>1, Types DEF SessionInv
  <2>4. act' \in [Threads -> Act]
    BY <1>7, <1>8, Types DEF SessionInv
  <2> QED
    BY <2>1, <2>2, <2>3, <2>4, Types DEF SessionInv, SessionTypeOK, Act, Request, Answer
<1>12. NumbersFit'
  <2>1. \A e \in net' : e.nr \in 1..asked'
    BY <1>1, <1>2 DEF SessionInv, NumbersFit
  <2>2. \A s \in Threads :
            act'[s].nr = act[s].nr /\ (stage'[s] # "idle" => stage[s] # "idle")
    BY <1>1, <1>5, <1>8, <1>10
  <2> QED
    BY <2>1, <2>2 DEF SessionInv, NumbersFit
<1>13. \A s \in Threads : Acked(s)' => Acked(s)
  <2>1. SUFFICES ASSUME NEW s \in Threads, Acked(s)'
                 PROVE  Acked(s)
    OBVIOUS
  <2>2. CASE s # r
    BY <1>2, <1>10, <2>1, <2>2 DEF Acked
  <2>3. CASE s = r /\ [nr |-> act'[r].nr, code |-> "ack"] \in net'
    BY <1>2, <1>5, <1>8, <1>10, <2>3 DEF Acked
  <2>4. CASE s = r /\ act'[r].code = "ack"
    <3>1. d.code = "ack"
      BY <1>4, <1>8, <1>10, <2>4
    <3>2. d = [nr |-> act[r].nr, code |-> "ack"]
      BY <1>2, <1>3, <3>1 DEF Answer
    <3> QED
      BY <2>4, <3>2 DEF Acked
  <2> QED
    BY <2>1, <2>2, <2>3, <2>4 DEF Acked
<1>14. ASSUME NEW s \in Threads
       PROVE  StageFits(s)' /\ NetFits(s)' /\ AckFits(s)' /\ PushFits(s)'
  <2>1. StageFits(s) /\ NetFits(s) /\ AckFits(s) /\ PushFits(s)
    BY DEF SessionInv
  <2>2. /\ act'[s].nr = act[s].nr /\ act'[s].kind = act[s].kind
        /\ act'[s].to = act[s].to /\ act'[s].chosen = act[s].chosen
        /\ act'[s].sent = act[s].sent
    BY <1>5, <1>8, <1>10
  <2>3. act'[s].secret = act[s].secret
    BY <1>5, <1>9, <1>10
  <2>4. StageFits(s)'
    <3>1. CASE s # r
      BY <1>1, <1>10, <2>1, <3>1 DEF StageFits
    <3>2. CASE s = r
      <4>1. code # "none"
        BY DEF Codes
      <4> QED
        BY <1>1, <1>5, <1>8, <1>10, <2>1, <2>2, <3>2, <4>1 DEF StageFits
    <3> QED
      BY <3>1, <3>2
  <2>5. NetFits(s)'
    <3>1. stage[s] \in {"listen", "tell", "close"} => stage'[s] \in {"listen", "tell", "close"}
      BY <1>10
    <3>2. Datagram(s)' = Datagram(s)
      BY <2>2, <2>3 DEF Datagram
    <3> QED
      BY <1>2, <2>1, <2>2, <3>1, <3>2 DEF NetFits
  <2>6. AckFits(s)'
    BY <1>1, <1>13, <2>1, <2>2 DEF AckFits, Deed
  <2>7. PushFits(s)'
    <3>1. endpoint' = endpoint /\ Granted' = Granted /\ session' = session
          /\ disturbed' = disturbed
      BY <1>1 DEF rowVars, Granted
    <3> QED
      BY <1>13, <2>1, <2>2, <3>1 DEF PushFits, OwnPush
  <2> QED
    BY <2>4, <2>5, <2>6, <2>7
<1> QED
  BY <1>11, <1>12, <1>14 DEF SessionInv

\* A datagram that is lost takes nothing with it.
LEMMA LoseKeeps ==
    ASSUME SessionInv, Lose PROVE SessionInv'
<1>1. PICK d \in net : net' = net \ {d}
  BY DEF Lose
<1>2. "nak" \in Codes /\ "nak" # "ack"
  BY DEF Codes
<1>3. /\ UNCHANGED <<rowVars, processVars, stage, act, told, asked>>
      /\ session' = session /\ applied' = applied /\ disturbed' = disturbed
  BY DEF Lose, requestVars
<1>4. \A s \in Threads : Acked(s)' => Acked(s)
  BY <1>1, <1>3 DEF Acked
<1>5. \A s \in Threads \ disturbed' :
          OwnPush(s) /\ Acked(s)' => session'[act[s].to] \in {None, Granted}
  BY <1>3, <1>4, OneRequest DEF PushFits
<1>6. net' \subseteq net \cup {[nr |-> d.nr, code |-> "nak"]}
  BY <1>1
<1>7. /\ session' \in [Clients -> Attrs \cup {None}]
      /\ applied \subseteq applied' /\ applied' \subseteq Deeds
      /\ disturbed \subseteq disturbed' /\ disturbed' \subseteq Threads
  BY <1>3, Types DEF SessionInv
<1>8. \A s \in Threads :
          act[s].nr = d.nr /\ "nak" = "ack" /\ act[s].to \in Clients => Deed(s) \in applied'
  BY <1>2
<1> QED
  BY <1>2, <1>3, <1>5, <1>6, <1>7, <1>8, OutsideKeeps

\* The sink acts on no NAS.
LEMMA SinkGetsKeeps ==
    ASSUME SessionInv, NEW d \in net, "to" \in DOMAIN d, SinkGets(d) PROVE SessionInv'
<1>1. /\ d.to = Sink /\ net' = (net \ {d}) \cup {[nr |-> d.nr, code |-> "ack"]}
      /\ UNCHANGED <<rowVars, processVars, stage, act, told, asked>>
      /\ session' = session /\ applied' = applied /\ disturbed' = disturbed
  BY DEF SinkGets, requestVars
<1>2. d \in Request /\ "ack" \in Codes
  BY DatagramsDiffer, Types DEF SessionInv, Codes
<1>3. \A s \in Threads : act[s].nr = d.nr => act[s].to \notin Clients
  BY <1>1, <1>2, OneRequest, SessionAssumption DEF NetFits, Datagram
<1>4. ASSUME NEW s \in Threads \ disturbed', OwnPush(s), Acked(s)'
      PROVE  session'[act[s].to] \in {None, Granted}
  <2>1. act[s].nr # d.nr
    BY <1>3, <1>4 DEF OwnPush
  <2>2. [nr |-> act[s].nr, code |-> "ack"] # [nr |-> d.nr, code |-> "ack"]
    <3>1. SUFFICES ASSUME [nr |-> act[s].nr, code |-> "ack"] = [nr |-> d.nr, code |-> "ack"]
                   PROVE  FALSE
      OBVIOUS
    <3>2. [nr |-> act[s].nr, code |-> "ack"].nr = [nr |-> d.nr, code |-> "ack"].nr
      BY <3>1
    <3> QED
      BY <2>1, <3>2
  <2>3. Acked(s)
    BY <1>1, <1>4, <2>2 DEF Acked
  <2> QED
    BY <1>1, <1>4, <2>3, OneRequest DEF PushFits
<1>5. \A s \in Threads :
          act[s].nr = d.nr /\ "ack" = "ack" /\ act[s].to \in Clients => Deed(s) \in applied'
  BY <1>3
<1>6. /\ session' \in [Clients -> Attrs \cup {None}]
      /\ applied \subseteq applied' /\ applied' \subseteq Deeds
      /\ disturbed \subseteq disturbed' /\ disturbed' \subseteq Threads
  BY <1>1, Types DEF SessionInv
<1>7. net' \subseteq net \cup {[nr |-> d.nr, code |-> "ack"]}
  BY <1>1
<1> QED
  BY <1>1, <1>2, <1>4, <1>5, <1>6, <1>7, OutsideKeeps

\* A NAS that acts does what the datagram of the request says, and every other
\* request that goes on is disturbed.
LEMMA NasGetsKeeps ==
    ASSUME SessionInv, NEW d \in net, "to" \in DOMAIN d, NasGets(d) PROVE SessionInv'
<1>1. /\ d.to \in Clients /\ UNCHANGED <<rowVars, processVars, stage, act, told, asked>>
      /\ policies' = policies /\ endpoint' = endpoint /\ Granted' = Granted
  BY DEF NasGets, rowVars, Granted
<1>2. d \in Request /\ {"ack", "nak"} \subseteq Codes /\ "nak" # "ack"
  BY DatagramsDiffer, Types DEF SessionInv, Codes
<1>3. \A s \in Threads : act[s].nr = d.nr =>
          d = Datagram(s) /\ stage[s] \in {"listen", "tell", "close"}
  BY <1>2, OneRequest DEF NetFits
<1>4. CASE UNCHANGED <<session, applied, disturbed>>
           /\ net' \subseteq net \cup {[nr |-> d.nr, code |-> "nak"]}
  <2>1. \A s \in Threads : Acked(s)' => Acked(s)
    <3>1. SUFFICES ASSUME NEW s \in Threads, Acked(s)'
                   PROVE  Acked(s)
      OBVIOUS
    <3>2. [nr |-> act[s].nr, code |-> "ack"] # [nr |-> d.nr, code |-> "nak"]
      <4>1. /\ [nr |-> act[s].nr, code |-> "ack"].code = "ack"
            /\ [nr |-> d.nr, code |-> "nak"].code = "nak"
        OBVIOUS
      <4> QED
        BY <4>1
    <3> QED
      BY <1>1, <1>4, <3>1, <3>2 DEF Acked
  <2>2. \A s \in Threads \ disturbed' :
            OwnPush(s) /\ Acked(s)' => session'[act[s].to] \in {None, Granted}
    BY <1>4, <2>1, OneRequest DEF PushFits
  <2>3. \A s \in Threads :
            act[s].nr = d.nr /\ "nak" = "ack" /\ act[s].to \in Clients =>
                Deed(s) \in applied'
    BY <1>2
  <2>4. /\ session' \in [Clients -> Attrs \cup {None}]
        /\ applied \subseteq applied' /\ applied' \subseteq Deeds
        /\ disturbed \subseteq disturbed' /\ disturbed' \subseteq Threads
    BY <1>4, Types DEF SessionInv
  <2> QED
    BY <1>1, <1>2, <1>4, <2>2, <2>3, <2>4, OutsideKeeps
<1>5. CASE /\ net' \subseteq net \cup {[nr |-> d.nr, code |-> "ack"]}
           /\ session' = [session EXCEPT ![d.to] =
                             CASE d.what = "disconnect" -> None
                               [] d.what = "coa" /\ d.attrs = <<>> -> @
                               [] OTHER -> d.attrs]
           /\ applied' = applied \cup {[nr |-> d.nr, what |-> d.what, attrs |-> d.attrs]}
           /\ disturbed' = disturbed \cup Others(d.nr)
  <2>1. PICK deed \in Deeds : deed = [nr |-> d.nr, what |-> d.what, attrs |-> d.attrs]
    BY <1>2 DEF Deeds, Request
  <2>2. d.what \in {"coa", "disconnect"} /\ d.attrs \in Attrs
    BY <1>2 DEF Request
  <2>3. session \in [Clients -> Attrs \cup {None}]
    BY Types DEF SessionInv
  <2>4. /\ session' \in [Clients -> Attrs \cup {None}]
        /\ d.what = "coa" /\ d.attrs # <<>> => session'[d.to] = d.attrs
    <3>1. CASE d.what = "disconnect"
      BY <1>1, <1>5, <2>3, <3>1
    <3>2. CASE d.what = "coa" /\ d.attrs = <<>>
      <4>1. session' = session
        BY <1>1, <1>5, <2>3, <3>2
      <4> QED
        BY <2>3, <3>2, <4>1
    <3>3. CASE d.what = "coa" /\ d.attrs # <<>>
      <4>1. session' = [session EXCEPT ![d.to] = d.attrs]
        BY <1>5, <3>3
      <4> QED
        BY <1>1, <2>2, <2>3, <4>1
    <3> QED
      BY <2>2, <3>1, <3>2, <3>3
  <2>5. /\ applied \subseteq applied' /\ applied' \subseteq Deeds /\ deed \in applied'
        /\ disturbed \subseteq disturbed' /\ disturbed' \subseteq Threads
    BY <1>5, <2>1, Types DEF SessionInv, Others, Busy
  <2>6. \A s \in Threads :
            act[s].nr = d.nr /\ "ack" = "ack" /\ act[s].to \in Clients =>
                Deed(s) \in applied'
    <3>1. SUFFICES ASSUME NEW s \in Threads, act[s].nr = d.nr
                   PROVE  Deed(s) \in applied'
      OBVIOUS
    <3>2. d.what = act[s].kind /\ d.attrs = act[s].sent
      BY <1>3, <3>1 DEF Datagram
    <3>3. Deed(s) = deed
      BY <2>1, <3>1, <3>2 DEF Deed
    <3> QED
      BY <2>5, <3>3
  <2>7. ASSUME NEW s \in Threads \ disturbed', OwnPush(s), Acked(s)'
        PROVE  session'[act[s].to] \in {None, Granted}
    <3>1. act[s].sent # <<>> /\ act[s].kind = "coa" /\ act[s].sent = Granted
      BY <1>5, <2>7, OneRequest DEF OwnPush, PushFits
    <3>2. act[s].nr = d.nr
      <4>1. stage[s] # "idle"
        BY <3>1, OneRequest DEF StageFits
      <4> QED
        BY <1>5, <2>7, <4>1 DEF Others, Busy
    <3>3. d.what = "coa" /\ d.attrs = act[s].sent /\ d.to = act[s].to
      BY <1>3, <3>1, <3>2 DEF Datagram
    <3> QED
      BY <2>4, <3>1, <3>3
  <2> QED
    BY <1>1, <1>2, <1>5, <2>4, <2>5, <2>6, <2>7, OutsideKeeps
<1>6. \/ UNCHANGED <<session, applied, disturbed>>
         /\ net' \subseteq net \cup {[nr |-> d.nr, code |-> "nak"]}
      \/ /\ net' \subseteq net \cup {[nr |-> d.nr, code |-> "ack"]}
         /\ session' = [session EXCEPT ![d.to] =
                           CASE d.what = "disconnect" -> None
                             [] d.what = "coa" /\ d.attrs = <<>> -> @
                             [] OTHER -> d.attrs]
         /\ applied' = applied \cup {[nr |-> d.nr, what |-> d.what, attrs |-> d.attrs]}
         /\ disturbed' = disturbed \cup Others(d.nr)
  <2>1. CASE net' = net \ {d} /\ UNCHANGED <<session, applied, disturbed>>
    BY <2>1
  <2>2. CASE \E code \in Codes, twice \in BOOLEAN :
                 /\ net' = (IF twice THEN net ELSE net \ {d})
                           \cup {[nr |-> d.nr, code |-> code]}
                 /\ IF code = "nak" THEN UNCHANGED <<session, applied, disturbed>>
                    ELSE /\ session' = [session EXCEPT ![d.to] =
                                CASE d.what = "disconnect" -> None
                                  [] d.what = "coa" /\ d.attrs = <<>> -> @
                                  [] OTHER -> d.attrs]
                         /\ applied' = applied \cup
                                {[nr |-> d.nr, what |-> d.what, attrs |-> d.attrs]}
                         /\ disturbed' = disturbed \cup Others(d.nr)
    <3>1. PICK code \in Codes, twice \in BOOLEAN :
                 /\ net' = (IF twice THEN net ELSE net \ {d})
                           \cup {[nr |-> d.nr, code |-> code]}
                 /\ IF code = "nak" THEN UNCHANGED <<session, applied, disturbed>>
                    ELSE /\ session' = [session EXCEPT ![d.to] =
                                CASE d.what = "disconnect" -> None
                                  [] d.what = "coa" /\ d.attrs = <<>> -> @
                                  [] OTHER -> d.attrs]
                         /\ applied' = applied \cup
                                {[nr |-> d.nr, what |-> d.what, attrs |-> d.attrs]}
                         /\ disturbed' = disturbed \cup Others(d.nr)
      BY <2>2
    <3>2. net' \subseteq net \cup {[nr |-> d.nr, code |-> code]}
      BY <3>1
    <3>3. CASE code = "nak"
      BY <3>1, <3>2, <3>3
    <3>4. CASE code = "ack"
      BY <3>1, <3>2, <3>4, <1>2
    <3> QED
      BY <3>3, <3>4 DEF Codes
  <2> QED
    BY <2>1, <2>2 DEF NasGets
<1> QED
  BY <1>4, <1>5, <1>6

----------------------------------------------------------------------------
(***************************************************************************)
(* Around it.                                                              *)
(***************************************************************************)

\* The endpoint is granted what the control plane says, or leaves.
LEMMA AuthenticateKeeps ==
    ASSUME SessionInv, NEW c \in Clients, Authenticate(c) PROVE SessionInv'
<1>1. /\ UNCHANGED <<rowVars, processVars, requestVars>>
      /\ net' = net /\ applied' = applied /\ Granted' = Granted
      /\ act' = act /\ stage' = stage /\ told' = told /\ asked' = asked
      /\ disturbed' = disturbed /\ endpoint' = endpoint
  BY DEF Authenticate, rowVars, requestVars, Granted
<1>2. session \in [Clients -> Attrs \cup {None}] /\ Granted \in Attrs
  BY Types, GrantedIsTyped DEF SessionInv
<1>3. PICK after \in {None, Granted} : session' = [session EXCEPT ![c] = after]
  BY DEF Authenticate
<1>4. /\ session' \in [Clients -> Attrs \cup {None}]
      /\ \A e \in Clients : session'[e] \in {session[e], None, Granted}
  BY <1>2, <1>3
<1>5. SessionTypeOK'
  BY <1>1, <1>4, Types DEF SessionInv, rowVars, processVars, SessionTypeOK, Act, Request,
                           Answer, Deeds
<1>6. NumbersFit'
  BY <1>1 DEF SessionInv, NumbersFit
<1>7. ASSUME NEW s \in Threads
      PROVE  StageFits(s)' /\ NetFits(s)' /\ AckFits(s)' /\ PushFits(s)'
  <2>1. StageFits(s) /\ NetFits(s) /\ AckFits(s) /\ PushFits(s)
    BY DEF SessionInv
  <2>2. StageFits(s)'
    BY <1>1, <2>1 DEF StageFits
  <2>3. NetFits(s)' /\ AckFits(s)'
    BY <1>1, <2>1 DEF NetFits, Datagram, AckFits, Acked, Deed
  <2>4. PushFits(s)'
    BY <1>1, <1>4, <2>1 DEF PushFits, OwnPush, Acked
  <2> QED
    BY <2>2, <2>3, <2>4
<1> QED
  BY <1>5, <1>6, <1>7 DEF SessionInv

\* An edit disturbs every request that goes on.
LEMMA EditKeeps ==
    ASSUME SessionInv, Edit PROVE SessionInv'
<1>1. /\ UNCHANGED <<outsideVars, processVars, stage, act, told, asked>>
      /\ edits' = edits + 1 /\ edits < MaxEdits /\ disturbed' = disturbed \cup Busy
      /\ net' = net /\ applied' = applied /\ session' = session
  BY DEF Edit, outsideVars
<1>2. /\ policies' \in [Policies -> Bodies \cup {None}]
      /\ endpoint' \in Policies \cup {None, "gone"}
      /\ targets' \in [Clients -> TargetRow]
  <2>1. CASE \E p \in Policies, b \in Bodies \cup {None} :
                 /\ policies' = [policies EXCEPT ![p] = b]
                 /\ endpoint' = IF b = None /\ endpoint = p THEN None ELSE endpoint
                 /\ UNCHANGED targets
    BY <2>1, Types DEF SessionInv
  <2>2. CASE /\ endpoint' \in {p \in Policies : policies[p] # None} \cup {None, "gone"}
             /\ UNCHANGED <<policies, targets>>
    BY <2>2, Types DEF SessionInv
  <2>3. CASE /\ \E c \in Clients, row \in TargetRow : targets' = [targets EXCEPT ![c] = row]
             /\ UNCHANGED <<policies, endpoint>>
    BY <2>3, Types DEF SessionInv
  <2> QED
    BY <2>1, <2>2, <2>3 DEF Edit
<1>3. SessionTypeOK'
  <2>1. edits' \in 0..MaxEdits
    BY <1>1, Types, SessionAssumption DEF SessionInv
  <2>2. disturbed' \subseteq Threads
    BY <1>1, Types DEF SessionInv, Busy
  <2>3. sink' = sink /\ stuck' = stuck /\ api' = api
    BY <1>1 DEF processVars
  <2> QED
    BY <1>1, <1>2, <2>1, <2>2, <2>3, Types
       DEF SessionInv, SessionTypeOK, Act, Request, Answer, Deeds
<1>4. NumbersFit'
  BY <1>1 DEF SessionInv, NumbersFit
<1>5. ASSUME NEW s \in Threads
      PROVE  StageFits(s)' /\ NetFits(s)' /\ AckFits(s)' /\ PushFits(s)'
  <2>1. StageFits(s) /\ NetFits(s) /\ AckFits(s) /\ PushFits(s)
    BY DEF SessionInv
  <2>2. StageFits(s)'
    BY <1>1, <2>1 DEF StageFits
  <2>3. NetFits(s)' /\ AckFits(s)'
    BY <1>1, <2>1 DEF NetFits, Datagram, AckFits, Acked, Deed
  <2>4. PushFits(s)'
    BY <1>1, <2>1 DEF PushFits, OwnPush, Busy, StageFits
  <2> QED
    BY <2>2, <2>3, <2>4
<1> QED
  BY <1>3, <1>4, <1>5 DEF SessionInv

\* The event loop, and a start, concern the process only.
LEMMA ProcessKeeps ==
    ASSUME SessionInv, LoopTaken \/ LoopFreed \/ SessionStart PROVE SessionInv'
<1>1. /\ UNCHANGED <<rowVars, outsideVars, requestVars>>
      /\ sink' \in BOOLEAN /\ stuck' \in BOOLEAN /\ api' \in BOOLEAN
  BY DEF SessionInv, SessionTypeOK, LoopTaken, LoopFreed, SessionStart
<1>2. /\ policies' = policies /\ endpoint' = endpoint /\ targets' = targets
      /\ edits' = edits /\ session' = session /\ net' = net /\ applied' = applied
      /\ stage' = stage /\ act' = act /\ told' = told /\ asked' = asked
      /\ disturbed' = disturbed /\ Granted' = Granted
  BY <1>1 DEF rowVars, outsideVars, requestVars, Granted
<1>3. SessionTypeOK'
  BY <1>1, <1>2 DEF SessionInv, SessionTypeOK
<1>4. NumbersFit'
  BY <1>2 DEF SessionInv, NumbersFit
<1>5. ASSUME NEW s \in Threads
      PROVE  StageFits(s)' /\ NetFits(s)' /\ AckFits(s)' /\ PushFits(s)'
  <2>1. StageFits(s) /\ NetFits(s) /\ AckFits(s) /\ PushFits(s)
    BY DEF SessionInv
  <2> QED
    BY <1>2, <2>1 DEF StageFits, NetFits, Datagram, AckFits, Acked, Deed, PushFits, OwnPush
<1> QED
  BY <1>3, <1>4, <1>5 DEF SessionInv

\* After a crash no request goes on; what is on its way keeps numbers that are not
\* given again.
LEMMA SessionCrashKeeps ==
    ASSUME SessionInv, SessionCrash PROVE SessionInv'
<1>1. /\ UNCHANGED <<rowVars, outsideVars>> /\ asked' = asked
      /\ api' = FALSE /\ sink' = FALSE /\ stuck' = FALSE
      /\ stage' = [r \in Threads |-> "idle"] /\ act' = [r \in Threads |-> NoAct]
      /\ told' = [r \in Threads |-> "nothing"] /\ disturbed' = {}
  BY DEF SessionCrash
<1>2. /\ policies' = policies /\ endpoint' = endpoint /\ targets' = targets
      /\ edits' = edits /\ session' = session /\ net' = net /\ applied' = applied
  BY <1>1 DEF rowVars, outsideVars
<1>3. PICK no \in Act : no = NoAct /\ no.nr = 0 /\ no.sent = <<>> /\ no.code = "none"
  BY NoActIsTyped
<1>4. SessionTypeOK'
  <2>1. act' \in [Threads -> Act]
    BY <1>1, <1>3
  <2>2. /\ stage' \in [Threads -> {"idle", "target", "policy", "send", "listen", "tell",
                                   "close"}]
        /\ told' \in [Threads -> {"nothing", "refused", "ack", "nak", "timeout", "error"}]
    BY <1>1
  <2> QED
    BY <1>1, <1>2, <2>1, <2>2, Types
       DEF SessionInv, SessionTypeOK, Act, Request, Answer, Deeds
<1>5. NumbersFit' /\ \A d \in net' : d.nr # 0
  BY <1>1, <1>2 DEF SessionInv, NumbersFit
<1>6. ASSUME NEW s \in Threads
      PROVE  StageFits(s)' /\ NetFits(s)' /\ AckFits(s)' /\ PushFits(s)'
  <2>1. act'[s] = no /\ stage'[s] = "idle" /\ told'[s] = "nothing"
    BY <1>1, <1>3
  <2>2. StageFits(s)'
    BY <1>1, <1>3, <2>1 DEF StageFits
  <2>3. NetFits(s)'
    BY <1>3, <1>5, <2>1 DEF NetFits
  <2>4. ~Acked(s)'
    <3>1. [nr |-> 0, code |-> "ack"] \notin net'
      BY <1>5
    <3> QED
      BY <1>3, <2>1, <3>1 DEF Acked
  <2>5. AckFits(s)' /\ PushFits(s)'
    BY <1>3, <2>1, <2>4 DEF AckFits, PushFits, OwnPush
  <2> QED
    BY <2>2, <2>3, <2>5
<1> QED
  BY <1>4, <1>5, <1>6 DEF SessionInv

\* Nothing has begun.
LEMMA SessionInvAtFirst ==
    ASSUME SessionInit PROVE SessionInv
<1>1. /\ stage = [r \in Threads |-> "idle"] /\ act = [r \in Threads |-> NoAct]
      /\ told = [r \in Threads |-> "nothing"] /\ net = {} /\ applied = {}
      /\ disturbed = {} /\ asked = 0 /\ edits = 0
      /\ session = [c \in Clients |-> None] /\ targets = [c \in Clients |-> "usable"]
      /\ policies \in [Policies -> Bodies] /\ endpoint \in Policies \cup {None}
      /\ sink \in BOOLEAN /\ stuck = FALSE /\ api = TRUE
  BY DEF SessionInit
<1>2. PICK no \in Act : no = NoAct /\ no.sent = <<>> /\ no.code = "none"
  BY NoActIsTyped
<1>3. SessionTypeOK
  <2>1. act \in [Threads -> Act]
    BY <1>1, <1>2
  <2>2. policies \in [Policies -> Bodies \cup {None}]
    BY <1>1
  <2>3. /\ stage \in [Threads -> {"idle", "target", "policy", "send", "listen", "tell",
                                  "close"}]
        /\ told \in [Threads -> {"nothing", "refused", "ack", "nak", "timeout", "error"}]
    BY <1>1
  <2>4. /\ session \in [Clients -> Attrs \cup {None}]
        /\ targets \in [Clients -> TargetRow]
    BY <1>1 DEF TargetRow
  <2>5. asked \in 0..MaxActions /\ edits \in 0..MaxEdits
    BY <1>1, SessionAssumption
  <2>6. sink \in BOOLEAN /\ stuck \in BOOLEAN /\ api \in BOOLEAN
    BY <1>1
  <2>7. /\ endpoint \in Policies \cup {None, "gone"} /\ net \subseteq Request \cup Answer
        /\ disturbed \subseteq Threads /\ applied \subseteq Deeds
    BY <1>1
  <2> QED
    BY <2>1, <2>2, <2>3, <2>4, <2>5, <2>6, <2>7, Types
<1>4. NumbersFit
  BY <1>1 DEF NumbersFit
<1>5. ASSUME NEW r \in Threads
      PROVE  StageFits(r) /\ NetFits(r) /\ AckFits(r) /\ PushFits(r)
  <2>1. act[r] = no /\ stage[r] = "idle" /\ told[r] = "nothing"
    BY <1>1, <1>2
  <2> QED
    BY <1>1, <1>2, <2>1 DEF StageFits, NetFits, AckFits, Acked, PushFits, OwnPush
<1> QED
  BY <1>3, <1>4, <1>5 DEF SessionInv

\* Nothing happens.
LEMMA SessionStutterKeeps ==
    ASSUME SessionInv, UNCHANGED sessionVars PROVE SessionInv'
BY DEF SessionInv, SessionTypeOK, NumbersFit, StageFits, NetFits, AckFits, PushFits, OwnPush,
       Acked, Deed, Datagram, Busy, Granted, sessionVars, rowVars, outsideVars, processVars,
       requestVars

\* Every step keeps the invariant.
LEMMA SessionStepKeeps ==
    ASSUME SessionInv, [SessionNext]_sessionVars PROVE SessionInv'
<1>1. CASE \E r \in Threads : Ask(r) \/ SessionStep(r)
  <2>1. PICK r \in Threads : Ask(r) \/ SessionStep(r)
    BY <1>1
  <2>2. CASE Ask(r)
    BY <2>2, AskKeeps
  <2>3. CASE Refuse(r)
    BY <2>3, RefuseKeeps
  <2>4. CASE Locate(r)
    BY <2>4, LocateKeeps
  <2>5. CASE Compose(r)
    BY <2>5, ComposeKeeps
  <2>6. CASE Send(r)
    BY <2>6, SendKeeps
  <2>7. CASE Hear(r)
    BY <2>7, HearKeeps
  <2>8. CASE HearNothing(r)
    BY <2>8, HearNothingKeeps
  <2>9. CASE Tell(r)
    BY <2>9, TellKeeps
  <2>10. CASE Close(r)
    BY <2>10, CloseKeeps
  <2> QED
    BY <2>1, <2>2, <2>3, <2>4, <2>5, <2>6, <2>7, <2>8, <2>9, <2>10 DEF SessionStep
<1>2. CASE Arrive
  <2>1. PICK d \in net : "to" \in DOMAIN d /\ (NasGets(d) \/ SinkGets(d))
    BY <1>2 DEF Arrive
  <2> QED
    BY <2>1, NasGetsKeeps, SinkGetsKeeps
<1>3. CASE Lose
  BY <1>3, LoseKeeps
<1>4. CASE \E c \in Clients : Authenticate(c)
  BY <1>4, AuthenticateKeeps
<1>5. CASE Edit
  BY <1>5, EditKeeps
<1>6. CASE LoopTaken \/ LoopFreed \/ SessionStart
  BY <1>6, ProcessKeeps
<1>7. CASE SessionCrash
  BY <1>7, SessionCrashKeeps
<1>8. CASE UNCHANGED sessionVars
  BY <1>8, SessionStutterKeeps
<1> QED
  BY <1>1, <1>2, <1>3, <1>4, <1>5, <1>6, <1>7, <1>8 DEF SessionNext

----------------------------------------------------------------------------
\* However many requests, datagrams and edits there are, what is on its way and what
\* was heard of a request belongs to its own datagram.
THEOREM SessionInvariant == SessionSpec => []SessionInv
<1>1. SessionInit => SessionInv
  BY SessionInvAtFirst
<1>2. SessionInv /\ [SessionNext]_sessionVars => SessionInv'
  BY SessionStepKeeps
<1> QED
  BY <1>1, <1>2, PTL DEF SessionSpec

\* Requests, datagrams and what the NASes did keep their types.
THEOREM SessionTypes == SessionSpec => []SessionTypeOK
<1>1. SessionInv => SessionTypeOK
  BY DEF SessionInv
<1> QED
  BY <1>1, SessionInvariant, PTL

\* A NAS whose ACK is reported did what the answer lists as sent
\* (session_actions.py:226-231).
THEOREM SessionAckWasApplied == SessionSpec => []AckWasApplied
<1>1. SessionInv => AckWasApplied
  <2>1. SUFFICES ASSUME SessionInv, NEW r \in Threads, told[r] = "ack",
                        act[r].to \in Clients
                 PROVE  Deed(r) \in applied
    BY DEF AckWasApplied, Deed
  <2>2. StageFits(r) /\ AckFits(r)
    BY <2>1 DEF SessionInv
  <2> QED
    BY <2>1, <2>2 DEF StageFits, AckFits, Acked
<1> QED
  BY <1>1, SessionInvariant, PTL

\* An acknowledged push of the endpoint's own policy leaves the session with what
\* authentication grants, unless something else acted meanwhile
\* (session_actions.py:157-165, sql_sync.py:115-125).
THEOREM SessionPushIsWhatAuthGrants == SessionSpec => []PushIsWhatAuthGrants
<1>1. SessionInv => PushIsWhatAuthGrants
  <2>1. SUFFICES ASSUME SessionInv, NEW r \in Threads \ disturbed, told[r] = "ack",
                        act[r].kind = "coa", act[r].to \in Clients,
                        act[r].chosen = endpoint, act[r].sent # <<>>
                 PROVE  session[act[r].to] \in {None, Granted}
    BY DEF PushIsWhatAuthGrants
  <2>2. StageFits(r) /\ PushFits(r)
    BY <2>1 DEF SessionInv
  <2> QED
    BY <2>1, <2>2 DEF StageFits, PushFits, OwnPush, Acked
<1> QED
  BY <1>1, SessionInvariant, PTL

----------------------------------------------------------------------------
(* What a policy renders to.  Induction over numbers comes from the library's fact
   that they are well founded, stated for sets of numbers. *)

\* A set of numbers has a least one.
LEMMA LeastNumber ==
    ASSUME NEW T \in SUBSET Nat, T # {}
    PROVE  \E x \in T : \A y \in T : x <= y
<1> DEFINE R == {ss \in Nat \X Nat : ss[1] < ss[2]}
<1>1. IsWellFoundedOn(R, Nat)
  BY NatLessThanWellFounded DEF OpToRel
<1> HIDE DEF R
<1>2. PICK x \in T : \A y \in T : ~ (<<y, x>> \in R)
  BY <1>1, WFMin
<1>3. ASSUME NEW y \in T PROVE x <= y
  <2>1. <<y, x>> \in R <=> y < x
    BY DEF R
  <2> QED
    BY <1>2, <2>1
<1> QED
  BY <1>3

\* Induction up to a bound, for a set of numbers.
LEMMA CountingUp ==
    ASSUME NEW last \in Nat, NEW G, 0 \in G,
           \A k \in 0..last : k # 0 /\ k - 1 \in G => k \in G
    PROVE  0..last \subseteq G
<1> DEFINE T == (0..last) \ G
<1>1. SUFFICES ASSUME T # {} PROVE FALSE
  OBVIOUS
<1>2. PICK x \in T : \A y \in T : x <= y
  <2>1. T \in SUBSET Nat
    OBVIOUS
  <2> HIDE DEF T
  <2> QED
    BY <1>1, <2>1, LeastNumber
<1>3. x # 0 /\ x - 1 \in 0..last /\ x - 1 \notin T
  BY <1>2
<1> QED
  BY <1>2, <1>3

\* The recursion of Rendering defines a function.
LEMMA RenderingStepwise ==
    ASSUME NEW p, Len(p.extra) \in Nat
    PROVE  Rendering(p) = [k \in 0..Len(p.extra) |->
               IF k = 0 THEN Simple(p.vlan, p.role)
               ELSE With(Rendering(p)[k - 1], p.extra[k])]
<1> DEFINE base == Simple(p.vlan, p.role)
           Next(a, k) == With(a, p.extra[k])
           IsUpto(f, n) == f = [k \in 0..n |-> IF k = 0 THEN base ELSE Next(f[k - 1], k)]
           G == {n \in Nat : \E f : IsUpto(f, n)}
<1> HIDE DEF base, Next
<1>1. 0 \in G
  <2>1. IsUpto([k \in 0..0 |-> base], 0)
    OBVIOUS
  <2> QED
    BY <2>1
<1>2. ASSUME NEW n \in Nat \ {0}, n - 1 \in G PROVE n \in G
  <2>1. PICK f : IsUpto(f, n - 1)
    BY <1>2
  <2> DEFINE g == [k \in 0..n |-> IF k = n THEN Next(f[n - 1], n) ELSE f[k]]
  <2>2. \A k \in 0..n : k # 0 => g[k - 1] = f[k - 1]
    OBVIOUS
  <2>3. \A k \in 0..n : g[k] = IF k = 0 THEN base ELSE Next(g[k - 1], k)
    <3>1. ASSUME NEW k \in 0..n, k # n
          PROVE  g[k] = IF k = 0 THEN base ELSE Next(f[k - 1], k)
      <4>1. f[k] = IF k = 0 THEN base ELSE Next(f[k - 1], k)
        BY <2>1, <3>1
      <4> QED
        BY <4>1, <3>1
    <3>2. g[n] = Next(f[n - 1], n)
      OBVIOUS
    <3> HIDE DEF g
    <3> QED
      BY <3>1, <3>2, <2>2
  <2>4. IsUpto(g, n)
    <3>1. g = [k \in 0..n |-> g[k]]
      OBVIOUS
    <3> HIDE DEF g
    <3>2. [k \in 0..n |-> g[k]] = [k \in 0..n |-> IF k = 0 THEN base ELSE Next(g[k - 1], k)]
      BY <2>3
    <3> QED
      BY <3>1, <3>2
  <2> QED
    BY <2>4
<1>3. Len(p.extra) \in Nat
  OBVIOUS
<1>4. Len(p.extra) \in G
  <2>1. 0..Len(p.extra) \subseteq G
    <3> HIDE DEF G
    <3>1. ASSUME NEW k \in 0..Len(p.extra), k # 0, k - 1 \in G PROVE k \in G
      <4>1. k \in Nat \ {0}
        BY <1>3, <3>1
      <4> QED
        BY <4>1, <3>1, <1>2
    <3> QED
      BY <1>1, <1>3, <3>1, CountingUp
  <2> QED
    BY <2>1, <1>3
<1>5. \E f : IsUpto(f, Len(p.extra))
  BY <1>4
<1>6. Rendering(p) = CHOOSE f : IsUpto(f, Len(p.extra))
  BY DEF Rendering, base, Next
<1>7. IsUpto(Rendering(p), Len(p.extra))
  <2> HIDE DEF IsUpto
  <2> QED
    BY <1>5, <1>6
<1> QED
  BY <1>7 DEF base, Next

----------------------------------------------------------------------------
AttrLists == Seq([name: Names, value: Values \cup {EmptyValue}])

\* What the first k raw pairs leave under a name.
RawUpto(p, k, name) == {i \in Positions(p.extra, name) : i <= k /\ p.extra[i].value # EmptyValue}

WantedUpto(p, k, name) ==
    LET raw == RawUpto(p, k, name)
        plain == Positions(Simple(p.vlan, p.role), name)
    IN  CASE raw # {} -> {p.extra[Max(raw)]}
          [] raw = {} /\ plain # {} -> {Simple(p.vlan, p.role)[Min(plain)]}
          [] OTHER -> {}

\* The invariant of the loop over the raw pairs.
OneWanted(attrs, p, k) ==
    /\ attrs \in AttrLists
    /\ \A n \in Names :
           /\ \A i, j \in Positions(attrs, n) : i = j
           /\ {attrs[i] : i \in Positions(attrs, n)} = WantedUpto(p, k, n)

BodyFits(p) ==
    /\ {p.vlan, p.role} \subseteq Values \cup {Unset}
    /\ p.extra \in AttrLists

LEMMA MinOfOne ==
    ASSUME NEW i \in Nat PROVE Min({i}) = i
  BY DEF Min

LEMMA MaxIsLast ==
    ASSUME NEW S \in SUBSET Nat, NEW i \in S, \A j \in S : j <= i PROVE Max(S) = i
<1>1. \A j \in S : i >= j
  OBVIOUS
<1>2. Max(S) \in S /\ \A j \in S : Max(S) >= j
  BY <1>1 DEF Max
<1>3. Max(S) >= i /\ i >= Max(S) /\ Max(S) \in Nat
  BY <1>1, <1>2
<1> QED
  BY <1>3

\* Simple mode names nothing twice.
LEMMA SimpleIsPlain ==
    ASSUME NEW p, BodyFits(p)
    PROVE  /\ Simple(p.vlan, p.role) \in AttrLists
           /\ \A n \in Names : \A i, j \in Positions(Simple(p.vlan, p.role), n) : i = j
<1> DEFINE vlan == << Attribute("Tunnel-Type", "VLAN"),
                      Attribute("Tunnel-Medium-Type", "IEEE-802"),
                      Attribute("Tunnel-Private-Group-Id", p.vlan) >>
           role == << Attribute("Filter-Id", p.role) >>
           Fine(s) == /\ s \in AttrLists
                      /\ \A n \in Names : \A i, j \in Positions(s, n) : i = j
<1>1. Fine(<<>>)
  BY DEF AttrLists, Positions
<1>2. ASSUME p.role # Unset PROVE Fine(role)
  BY <1>2, AttributesAssumption DEF AttrLists, Positions, Attribute, BodyFits, PlainNames
<1>3. ASSUME p.vlan # Unset PROVE Fine(vlan)
  <2>1. vlan \in AttrLists
    BY <1>3, AttributesAssumption DEF AttrLists, Attribute, BodyFits, PlainNames
  <2>2. \A i, j \in DOMAIN vlan : Lower[vlan[i].name] = Lower[vlan[j].name] => i = j
    BY AttributesAssumption DEF Attribute, PlainNames
  <2> QED
    BY <2>1, <2>2 DEF Positions
<1>4. ASSUME p.vlan # Unset, p.role # Unset PROVE Fine(vlan \o role)
  <2> DEFINE all == vlan \o role
  <2>1. vlan \in AttrLists /\ role \in AttrLists /\ Len(vlan) = 3 /\ Len(role) = 1
    BY <1>2, <1>3, <1>4
  <2>2. all \in AttrLists /\ Len(all) = 4 /\ DOMAIN all = 1..4
    BY <2>1 DEF AttrLists
  <2>3. \A i \in 1..4 : all[i] = IF i <= 3 THEN vlan[i] ELSE role[i - 3]
    <3> HIDE DEF vlan, role
    <3>1. \A i \in 1..Len(vlan) + Len(role) :
              all[i] = IF i <= Len(vlan) THEN vlan[i] ELSE role[i - Len(vlan)]
      BY <2>1, ConcatProperties DEF AttrLists
    <3> HIDE DEF all
    <3>2. Len(vlan) + Len(role) = 4
      BY <2>1
    <3> QED
      BY <2>1, <3>1, <3>2
  <2>4. /\ all[1].name = "Tunnel-Type" /\ all[2].name = "Tunnel-Medium-Type"
        /\ all[3].name = "Tunnel-Private-Group-Id" /\ all[4].name = "Filter-Id"
    <3> HIDE DEF all
    <3> QED
      BY <2>3 DEF Attribute
  <2> HIDE DEF all
  <2>5. \A i, j \in 1..4 : Lower[all[i].name] = Lower[all[j].name] => i = j
    BY <2>4, AttributesAssumption DEF PlainNames
  <2> QED
    BY <2>2, <2>5 DEF Positions, all
<1>5. ASSUME NEW s \in AttrLists PROVE <<>> \o s = s /\ s \o <<>> = s
  BY ConcatEmptySeq DEF AttrLists
<1>6. Simple(p.vlan, p.role) =
          (IF p.vlan = Unset THEN <<>> ELSE vlan) \o (IF p.role = Unset THEN <<>> ELSE role)
  BY DEF Simple
<1> HIDE DEF vlan, role
<1>7. Fine(Simple(p.vlan, p.role))
  <2>1. CASE p.vlan = Unset /\ p.role = Unset
    BY <1>1, <1>5, <1>6, <2>1
  <2>2. CASE p.vlan = Unset /\ p.role # Unset
    BY <1>1, <1>2, <1>5, <1>6, <2>2
  <2>3. CASE p.vlan # Unset /\ p.role = Unset
    BY <1>1, <1>3, <1>5, <1>6, <2>3
  <2>4. CASE p.vlan # Unset /\ p.role # Unset
    BY <1>4, <1>6, <2>4
  <2> QED
    BY <2>1, <2>2, <2>3, <2>4
<1> QED
  BY <1>7

LEMMA NothingRawYet ==
    ASSUME NEW p, BodyFits(p) PROVE OneWanted(Simple(p.vlan, p.role), p, 0)
<1> DEFINE plain == Simple(p.vlan, p.role)
<1>1. plain \in AttrLists /\ \A n \in Names : \A i, j \in Positions(plain, n) : i = j
  BY SimpleIsPlain
<1>2. ASSUME NEW n \in Names
      PROVE  {plain[i] : i \in Positions(plain, n)} = WantedUpto(p, 0, n)
  <2>1. RawUpto(p, 0, n) = {}
    BY DEF RawUpto, Positions, BodyFits, AttrLists
  <2>2. CASE Positions(plain, n) = {}
    BY <2>1, <2>2 DEF WantedUpto
  <2>3. ASSUME NEW i \in Positions(plain, n)
        PROVE  {plain[j] : j \in Positions(plain, n)} = WantedUpto(p, 0, n)
    <3>1. Positions(plain, n) = {i} /\ i \in Nat
      BY <1>1, <2>3 DEF Positions, AttrLists
    <3>2. Min(Positions(plain, n)) = i
      BY <3>1, MinOfOne
    <3>3. WantedUpto(p, 0, n) = {plain[i]}
      BY <2>1, <3>1, <3>2 DEF WantedUpto
    <3> QED
      BY <3>1, <3>3
  <2> QED
    BY <2>2, <2>3
<1> QED
  BY <1>1, <1>2 DEF OneWanted

\* One raw pair: it takes the place of what has its name, or comes at the end.
LEMMA WithKeeps ==
    ASSUME NEW p, BodyFits(p), NEW k \in 0..Len(p.extra), k # 0,
           NEW attrs, OneWanted(attrs, p, k - 1)
    PROVE  OneWanted(With(attrs, p.extra[k]), p, k)
<1> DEFINE a == p.extra[k]
           next == With(attrs, a)
           same == Positions(attrs, a.name)
<1>1. /\ attrs \in AttrLists /\ p.extra \in AttrLists /\ k \in DOMAIN p.extra
      /\ a \in [name: Names, value: Values \cup {EmptyValue}]
  <2>1. attrs \in AttrLists /\ p.extra \in AttrLists
    BY DEF OneWanted, BodyFits
  <2>2. Len(p.extra) \in Nat /\ k \in 1..Len(p.extra)
    BY <2>1 DEF AttrLists
  <2>3. k \in DOMAIN p.extra
    BY <2>1, <2>2 DEF AttrLists
  <2>4. a \in [name: Names, value: Values \cup {EmptyValue}]
    BY <2>1, <2>2, ElementOfSeq DEF AttrLists
  <2> QED
    BY <2>1, <2>3, <2>4
<1>2. \A n \in Names : \A i, j \in Positions(attrs, n) : i = j
  BY DEF OneWanted
<1>3. \A n \in Names : {attrs[i] : i \in Positions(attrs, n)} = WantedUpto(p, k - 1, n)
  BY DEF OneWanted
<1>4. ASSUME NEW n \in Names, Lower[n] # Lower[a.name] \/ a.value = EmptyValue
      PROVE  WantedUpto(p, k, n) = WantedUpto(p, k - 1, n)
  <2>1. RawUpto(p, k, n) = RawUpto(p, k - 1, n)
    BY <1>1, <1>4 DEF RawUpto, Positions, AttrLists
  <2> QED
    BY <2>1 DEF WantedUpto
<1>5. ASSUME NEW n \in Names, Lower[n] = Lower[a.name], a.value # EmptyValue
      PROVE  WantedUpto(p, k, n) = {a}
  <2>1. k \in RawUpto(p, k, n) /\ RawUpto(p, k, n) \in SUBSET Nat
    BY <1>1, <1>5 DEF RawUpto, Positions, AttrLists
  <2>2. \A i \in RawUpto(p, k, n) : i <= k
    BY DEF RawUpto
  <2>3. Max(RawUpto(p, k, n)) = k
    BY <2>1, <2>2, MaxIsLast
  <2> QED
    BY <2>1, <2>3 DEF WantedUpto
<1>6. CASE a.value = EmptyValue
  <2>1. next = attrs
    BY <1>6 DEF With
  <2> QED
    BY <1>1, <1>2, <1>3, <1>4, <1>6, <2>1 DEF OneWanted
<1>7. ASSUME a.value # EmptyValue, next \in AttrLists,
             NEW m \in DOMAIN next, next[m] = a,
             \A i \in DOMAIN next \ {m} : i \in DOMAIN attrs /\ next[i] = attrs[i],
             \A i \in DOMAIN attrs \ {m} : i \in DOMAIN next,
             same \subseteq {m},
             m \in DOMAIN attrs => m \in same
      PROVE  OneWanted(next, p, k)
  <2>1. ASSUME NEW n \in Names, Lower[n] = Lower[a.name]
        PROVE  Positions(next, n) = {m}
    BY <1>7, <2>1 DEF Positions
  <2>2. ASSUME NEW n \in Names, Lower[n] # Lower[a.name]
        PROVE  /\ Positions(next, n) = Positions(attrs, n)
               /\ \A i \in Positions(next, n) : next[i] = attrs[i]
    BY <1>7, <2>2 DEF Positions
  <2>3. ASSUME NEW n \in Names
        PROVE  /\ \A i, j \in Positions(next, n) : i = j
               /\ {next[i] : i \in Positions(next, n)} = WantedUpto(p, k, n)
    <3>1. CASE Lower[n] = Lower[a.name]
      BY <1>5, <1>7, <2>1, <3>1
    <3>2. CASE Lower[n] # Lower[a.name]
      <4>1. {next[i] : i \in Positions(next, n)} = {attrs[i] : i \in Positions(attrs, n)}
        BY <2>2, <3>2
      <4> QED
        BY <1>2, <1>3, <1>4, <2>2, <3>2, <4>1
    <3> QED
      BY <3>1, <3>2
  <2> QED
    BY <1>7, <2>3 DEF OneWanted
<1>8. CASE a.value # EmptyValue /\ same = {}
  <2>1. next = Append(attrs, a)
    BY <1>8 DEF With
  <2>2. next \in AttrLists /\ DOMAIN next = 1..(Len(attrs) + 1) /\ DOMAIN attrs = 1..Len(attrs)
    BY <1>1, <2>1 DEF AttrLists
  <2>3. next[Len(attrs) + 1] = a /\ \A i \in 1..Len(attrs) : next[i] = attrs[i]
    BY <1>1, <2>1 DEF AttrLists
  <2>4. Len(attrs) \in Nat
    BY <1>1 DEF AttrLists
  <2> QED
    BY <1>7, <1>8, <2>2, <2>3, <2>4
<1>9. ASSUME a.value # EmptyValue, NEW m \in same PROVE OneWanted(next, p, k)
  <2>1. same = {m} /\ m \in DOMAIN attrs /\ m \in Nat
    BY <1>1, <1>2, <1>9 DEF Positions, AttrLists
  <2>2. next = [attrs EXCEPT ![m] = a]
    BY <1>9, <2>1, MinOfOne DEF With
  <2>3. next \in AttrLists /\ DOMAIN next = DOMAIN attrs
    BY <1>1, <2>1, <2>2 DEF AttrLists
  <2>4. next[m] = a /\ \A i \in DOMAIN attrs \ {m} : next[i] = attrs[i]
    BY <2>1, <2>2
  <2> QED
    BY <1>7, <1>9, <2>1, <2>3, <2>4
<1> QED
  BY <1>6, <1>8, <1>9

\* Every policy renders to what is wanted, however many raw pairs it has.
THEOREM PolicyRendersWhatIsWanted ==
    ASSUME NEW p, BodyFits(p) PROVE RendersWhatIsWanted(p)
<1> DEFINE last == Len(p.extra)
           G == {k \in 0..last : OneWanted(Rendering(p)[k], p, k)}
<1>1. last \in Nat /\ p.extra \in AttrLists
  BY DEF BodyFits, AttrLists
<1>2. Rendering(p) = [k \in 0..last |->
          IF k = 0 THEN Simple(p.vlan, p.role) ELSE With(Rendering(p)[k - 1], p.extra[k])]
  BY <1>1, RenderingStepwise
<1>3. 0 \in G
  BY <1>1, <1>2, NothingRawYet
<1>4. ASSUME NEW k \in 0..last, k # 0, k - 1 \in G PROVE k \in G
  <2>1. Rendering(p)[k] = With(Rendering(p)[k - 1], p.extra[k])
    BY <1>2, <1>4
  <2>2. OneWanted(Rendering(p)[k - 1], p, k - 1)
    BY <1>4
  <2> QED
    BY <1>4, <2>1, <2>2, WithKeeps
<1>5. last \in G
  <2> HIDE DEF G, last
  <2>1. 0..last \subseteq G
    BY <1>1, <1>3, <1>4, CountingUp
  <2> QED
    BY <1>1, <2>1
<1>6. OneWanted(RenderedPolicy(p), p, last)
  BY <1>5 DEF RenderedPolicy
<1>7. ASSUME NEW n \in Names
      PROVE  /\ Cardinality(Positions(RenderedPolicy(p), n)) <= 1
             /\ {RenderedPolicy(p)[i] : i \in Positions(RenderedPolicy(p), n)} = Wanted(p, n)
  <2> DEFINE places == Positions(RenderedPolicy(p), n)
  <2>1. Cardinality(places) <= 1
    <3>1. \A i, j \in places : i = j
      BY <1>6 DEF OneWanted
    <3>2. CASE places = {}
      BY <3>2, FS_EmptySet
    <3>3. ASSUME NEW i \in places PROVE Cardinality(places) <= 1
      <4>1. places = {i}
        BY <3>1, <3>3
      <4> QED
        <5> HIDE DEF places
        <5> QED
          BY <4>1, FS_Singleton
    <3> QED
      BY <3>2, <3>3
  <2>2. RawUpto(p, last, n) = {i \in Positions(p.extra, n) : p.extra[i].value # EmptyValue}
    BY <1>1 DEF RawUpto, Positions, AttrLists
  <2>3. WantedUpto(p, last, n) = Wanted(p, n)
    BY <2>2 DEF WantedUpto, Wanted
  <2> QED
    BY <1>6, <2>1, <2>3 DEF OneWanted
<1> QED
  BY <1>7 DEF RendersWhatIsWanted

\* Whatever policies are, each attribute is rendered once, and the raw pair wins
\* (reply_attributes.py:141-144).
THEOREM SessionRawPairWins == SessionSpec => []RawPairWins
<1>1. SessionInv => RawPairWins
  <2>1. SUFFICES ASSUME SessionInv, NEW p \in Policies, policies[p] # None
                 PROVE  RendersWhatIsWanted(policies[p])
    BY DEF RawPairWins
  <2>2. policies[p] \in Bodies
    BY <2>1 DEF SessionInv, SessionTypeOK
  <2>3. BodyFits(policies[p])
    BY <2>2, SessionAssumption DEF BodyFits, AttrLists
  <2> QED
    BY <2>3, PolicyRendersWhatIsWanted
<1> QED
  BY <1>1, SessionInvariant, PTL

=============================================================================
