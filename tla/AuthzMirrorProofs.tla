------------------------- MODULE AuthzMirrorProofs --------------------------
(***************************************************************************)
(* What holds of the mirror of endpoints and policies for any number of    *)
(* endpoints, policies, labs, MACs, groups and requests: it is well typed, *)
(* and a key whose changes were ordered has the rows its policy renders    *)
(* to.                                                                     *)
(***************************************************************************)
EXTENDS AuthzMirror, TLAPS

----------------------------------------------------------------------------
(***************************************************************************)
(* Drafts, and the rows that commits write.                                *)
(***************************************************************************)

\* What the drafts of each handler are made of.
LEMMA DraftTypes ==
    ASSUME TypeOK, NEW r \in Requests
    PROVE  /\ draft[r].what = "create" =>
                  /\ draft[r].lab \in Labs /\ draft[r].policy \in PolicyIds \cup {None}
                  /\ draft[r].free \in SUBSET Macs
           /\ draft[r].what = "endpoint" =>
                  /\ draft[r].id \in EndpointIds /\ draft[r].mac \in Macs
                  /\ draft[r].set \in Changes(EndpointRow)
           /\ draft[r].what = "dropEndpoint" =>
                  draft[r].id \in EndpointIds /\ draft[r].mac \in Macs
           /\ draft[r].what = "newPolicy" => draft[r].new \in PolicyRow
           /\ draft[r].what = "policy" =>
                  /\ draft[r].id \in PolicyIds /\ draft[r].group \in Groups \cup {None}
                  /\ draft[r].set \in Changes(PolicyRow)
           /\ draft[r].what = "dropPolicy" =>
                  /\ draft[r].id \in PolicyIds /\ draft[r].group \in Groups \cup {None}
                  /\ draft[r].lab \in Labs /\ draft[r].users \in SUBSET EndpointIds
<1>1. draft[r] \in Drafts
      BY DEF TypeOK, Workers
<1> QED  BY <1>1 DEF Drafts

\* An UPDATE of an endpoint writes an endpoint's row, ...
LEMMA MergedEndpoint ==
    ASSUME NEW set \in Changes(EndpointRow), NEW now \in EndpointRow
    PROVE  Merged(set, now) \in EndpointRow
<1> DEFINE new == Merged(set, now)
<1>1. PICK x, y \in EndpointRow : set = Changed(x, y)
      BY DEF Changes
<1>2. /\ DOMAIN now = {"lab", "mac", "policy", "enabled"}
      /\ DOMAIN x = {"lab", "mac", "policy", "enabled"}
      BY DEF EndpointRow
<1>3. \A c \in DOMAIN set : c \in DOMAIN x /\ set[c] = y[c]
      BY <1>1 DEF Changed
<1>4. new = [lab |-> new.lab, mac |-> new.mac, policy |-> new.policy, enabled |-> new.enabled]
      BY <1>2 DEF Merged
<1>5. /\ new.lab \in Labs /\ new.mac \in Macs
      /\ new.policy \in PolicyIds \cup {None} /\ new.enabled \in BOOLEAN
      BY <1>2, <1>3 DEF Merged, EndpointRow
<1> QED  BY <1>4, <1>5 DEF EndpointRow

\* ... and one of a policy a policy's row.
LEMMA MergedPolicy ==
    ASSUME NEW set \in Changes(PolicyRow), NEW now \in PolicyRow
    PROVE  Merged(set, now) \in PolicyRow
<1> DEFINE new == Merged(set, now)
<1>1. PICK x, y \in PolicyRow : set = Changed(x, y)
      BY DEF Changes
<1>2. /\ DOMAIN now = {"lab", "group", "attrs", "enabled"}
      /\ DOMAIN x = {"lab", "group", "attrs", "enabled"}
      BY DEF PolicyRow
<1>3. \A c \in DOMAIN set : c \in DOMAIN x /\ set[c] = y[c]
      BY <1>1 DEF Changed
<1>4. new = [lab |-> new.lab, group |-> new.group, attrs |-> new.attrs, enabled |-> new.enabled]
      BY <1>2 DEF Merged
<1>5. /\ new.lab \in Labs /\ new.group \in Groups \cup {None}
      /\ new.attrs \in Attrs /\ new.enabled \in BOOLEAN
      BY <1>2, <1>3 DEF Merged, PolicyRow
<1> QED  BY <1>4, <1>5 DEF PolicyRow

----------------------------------------------------------------------------
(***************************************************************************)
(* The shape of a worker's state, whatever the others do.                  *)
(***************************************************************************)

\* An endpoint refers to a policy that exists.
ForeignKey == \A e \in Endpoints : endpoints[e].policy \in Policies \cup {None}

\* What may be owed together.
JobShape(j) ==
    /\ j.mac # None => j.group = None /\ j.policy = None /\ j.labs = {}
    /\ j.policy # None => j.labs # {}
    /\ j.policy # None /\ ~j.listed => j.todo = {}

Owing(j) == {j.mac, j.group, j.policy} # {None} \/ j.todo # {} \/ j.labs # {}

\* The row that a worker has still to refresh: that of an endpoint or of a policy.
Refreshes(w) ==
    /\ held[w] = None
    /\ \/ /\ job[w].policy = None /\ job[w].group = None /\ job[w].mac # None
          /\ job[w].labs = {} /\ \E e \in EndpointIds : job[w].todo = {e}
       \/ job[w].policy # None /\ ~job[w].listed

ShapeOf(w) ==
    /\ JobShape(job[w])
    /\ pc[w] \in {"start", "idle", "draft", "groups", "fill"} => ~Owing(job[w]) /\ held[w] = None
    /\ pc[w] = "job" /\ held[w] # None => job[w].todo = {}
    /\ pc[w] = "refresh" => Refreshes(w)
    /\ pc[w] \in {"delete", "render", "write"} =>
           /\ job[w].mac = None /\ job[w].group = None
           /\ job[w].policy = None \/ job[w].listed
           /\ row[w] # None /\ cur[w] # None
    /\ pc[w] = "render" => row[w].enabled
    /\ pc[w] \notin {"groups", "fill"} => found[w] = {}
    /\ \A x \in found[w] : x.group # None
    /\ pc[w] \notin {"render", "write", "fill"} => seen[w] = {}
    /\ pc[w] \notin {"write", "fill"} => fresh[w] = {}
    /\ pc[w] \in {"render", "write"} => \A x \in seen[w] \cup fresh[w] : x.key = row[w].mac
    /\ pc[w] = "fill" => \A x \in seen[w] \cup fresh[w] : \E y \in found[w] : x.key = y.group

Shape == ForeignKey /\ \A w \in Workers : ShapeOf(w)

----------------------------------------------------------------------------
(***************************************************************************)
(* The commits of the handlers.                                            *)
(***************************************************************************)

\* A step does not touch what decides what key n should have.
Untouched(n) ==
    /\ \A e \in EndpointIds :
           \/ endpoints[e]' = endpoints[e]
           \/ /\ endpoints[e] # None => endpoints[e].mac # n
              /\ endpoints[e]' # None => endpoints[e]'.mac # n
    /\ \A p \in PolicyIds :
           \/ policies[p]' = policies[p]
           \/ /\ policies[p] # None => policies[p].group # n
              /\ policies[p]' # None => policies[p]'.group # n
              /\ \A e \in UsersOf(p) : endpoints[e].mac # n

\* What the commits of all handlers have in common: of every key that they touch r
\* owes the rows, unless it is lost.
Owed(r, j, next, lost) ==
    /\ Owe(r, j, next)
    /\ JobShape(j)
    /\ next = "refresh" =>
           \/ /\ j.policy = None /\ j.group = None /\ j.mac # None /\ j.labs = {}
              /\ \E e \in EndpointIds : j.todo = {e}
           \/ j.policy # None /\ ~j.listed
    /\ Track({}, lost)
    /\ \A n \in Keys \ lost : Untouched(n) \/ Busy(r, n)'

Committed(r) ==
    /\ pc[r] = "draft"
    /\ endpoints' \in [EndpointIds -> EndpointRow \cup {None}]
    /\ policies' \in [PolicyIds -> PolicyRow \cup {None}]
    /\ ForeignKey'
    /\ \E j \in Jobs, next \in {"job", "refresh"}, lost \in SUBSET Keys :
           Owed(r, j, next, lost)

\* None is not an id, a key or a row.
LEMMA NoneIsNothing ==
    /\ None \notin EndpointIds /\ None \notin PolicyIds /\ None \notin Macs /\ None \notin Groups
    /\ None \notin EndpointRow /\ None \notin PolicyRow
    /\ \A n \in Macs : n \notin Groups
    /\ Requests \subseteq Workers
BY AuthzAssumption DEF AuthzAssumption, Workers

LEMMA CreateCommits ==
    ASSUME TypeOK, Shape, NEW r \in Requests, CreateCommit(r)
    PROVE  Raise(r) \/ Committed(r)
<1> SUFFICES ASSUME ~Raise(r) PROVE Committed(r)
    OBVIOUS
<1> DEFINE d == draft[r]
<1>1. /\ d.lab \in Labs /\ d.policy \in PolicyIds \cup {None} /\ d.free \in SUBSET Macs
      BY DraftTypes DEF CreateCommit
<1>2. /\ pc[r] = "draft"
      /\ d.policy # None => policies[d.policy] # None
      /\ UNCHANGED policies /\ Track({}, {})
      BY DEF CreateCommit
<1>3. PICK new \in SUBSET NewEndpointIds, enabled \in BOOLEAN :
          /\ \E mac \in Injection(new, d.free) :
                 endpoints' = [e \in EndpointIds |->
                     IF e \in new
                     THEN [lab |-> d.lab, mac |-> mac[e], policy |-> d.policy,
                           enabled |-> enabled]
                     ELSE endpoints[e]]
          /\ Owe(r, [Done EXCEPT !.todo = new], "job")
      BY DEF CreateCommit
<1>4. PICK mac \in Injection(new, d.free) :
          endpoints' = [e \in EndpointIds |->
              IF e \in new
              THEN [lab |-> d.lab, mac |-> mac[e], policy |-> d.policy, enabled |-> enabled]
              ELSE endpoints[e]]
      BY <1>3
<1>5. mac \in [new -> Macs] /\ \A e \in new : e \in EndpointIds /\ endpoints[e] = None
      BY <1>1 DEF Injection, IsInjective, NewEndpointIds, Endpoints
<1> DEFINE j == [Done EXCEPT !.todo = new]
<1>6. j \in Jobs /\ JobShape(j) /\ j.todo = new
      BY <1>5 DEF Done, Jobs, JobShape
<1>7. endpoints' \in [EndpointIds -> EndpointRow \cup {None}]
      BY <1>1, <1>4, <1>5 DEF TypeOK, EndpointRow
<1>8. ForeignKey'
      BY <1>1, <1>2, <1>4, <1>5, NoneIsNothing DEF ForeignKey, Endpoints, Policies, Shape
<1>9. ASSUME NEW n \in Keys PROVE Untouched(n) \/ Busy(r, n)'
  <2>1. CASE \E e \in new : mac[e] = n
    <3>1. PICK e \in new : mac[e] = n
          BY <2>1
    <3>2. endpoints'[e].mac = n /\ endpoints'[e] # None
          BY <1>1, <1>4, <1>5, <3>1, NoneIsNothing DEF EndpointRow
    <3>3. e \in job'[r].todo
          BY <1>3, <1>6, NoneIsNothing DEF Owe, TypeOK
    <3> QED  BY <3>2, <3>3 DEF Busy
  <2>2. CASE \A e \in new : mac[e] # n
        BY <1>2, <1>4, <1>5, <2>2 DEF Untouched
  <2> QED  BY <2>1, <2>2
<1>10. Owed(r, j, "job", {})
       BY <1>2, <1>3, <1>6, <1>9 DEF Owed
<1> QED  BY <1>2, <1>6, <1>7, <1>8, <1>10 DEF Committed, TypeOK

LEMMA EndpointCommits ==
    ASSUME TypeOK, Shape, NEW r \in Requests, EndpointCommit(r)
    PROVE  Raise(r) \/ Committed(r)
<1> SUFFICES ASSUME ~Raise(r) PROVE Committed(r)
    OBVIOUS
<1> DEFINE d == draft[r]
           now == endpoints[d.id]
           new == Merged(d.set, now)
           j == [Done EXCEPT !.mac = d.mac, !.todo = {d.id}]
           lost == {now.mac} \ {d.mac, new.mac}
<1>1. d.id \in EndpointIds /\ d.mac \in Macs /\ d.set \in Changes(EndpointRow)
      BY DraftTypes DEF EndpointCommit
<1>2. /\ pc[r] = "draft" /\ now # None
      /\ new.policy # None => policies[new.policy] # None
      /\ endpoints' = [endpoints EXCEPT ![d.id] = new]
      /\ Owe(r, j, "refresh")
      /\ UNCHANGED policies
      /\ Track({}, lost)
      BY DEF EndpointCommit
<1>3. now \in EndpointRow /\ new \in EndpointRow /\ new # None
      BY <1>1, <1>2, MergedEndpoint, NoneIsNothing DEF TypeOK
<1>4. /\ j \in Jobs /\ JobShape(j) /\ j.todo = {d.id} /\ j.mac = d.mac
      /\ j.policy = None /\ j.group = None /\ j.mac # None /\ j.labs = {}
      BY <1>1, NoneIsNothing DEF Done, Jobs, JobShape
<1>5. endpoints' \in [EndpointIds -> EndpointRow \cup {None}]
      BY <1>1, <1>2, <1>3 DEF TypeOK
<1>6. new.policy \in PolicyIds \cup {None}
      BY <1>3 DEF EndpointRow
<1>7. ForeignKey'
      BY <1>1, <1>2, <1>6 DEF ForeignKey, Endpoints, Policies, Shape, TypeOK
<1>8. ASSUME NEW n \in Keys \ lost
      PROVE  Untouched(n) \/ Busy(r, n)'
  <2>1. job'[r] = j
        BY <1>2, NoneIsNothing DEF Owe, TypeOK
  <2>2. endpoints'[d.id] = new
        BY <1>1, <1>2 DEF TypeOK
  <2>3. CASE n = new.mac
        BY <1>3, <1>4, <2>1, <2>2, <2>3 DEF Busy
  <2>4. CASE n # new.mac /\ n = now.mac
    <3>1. ~Kept(r, n)'
          BY <1>4, <2>1, <2>2, <2>4 DEF Kept, PolicyAt
    <3> QED  BY <1>4, <2>1, <2>4, <3>1 DEF Busy, Purges
  <2>5. CASE n # new.mac /\ n # now.mac
        BY <1>1, <1>2, <2>5 DEF Untouched, TypeOK
  <2> QED  BY <2>3, <2>4, <2>5
<1>9. lost \in SUBSET Keys /\ policies' \in [PolicyIds -> PolicyRow \cup {None}]
      BY <1>2, <1>3 DEF EndpointRow, Keys, TypeOK
<1>10. PICK k \in Jobs, l \in SUBSET Keys : k = j /\ l = lost
       BY <1>4, <1>9
<1>11. Owed(r, k, "refresh", l)
  <2>1. d.id \in EndpointIds
        BY <1>1
  <2> HIDE DEF d, now, new, j, lost
  <2> QED  BY <2>1, <1>2, <1>4, <1>8, <1>10 DEF Owed, Owe, Track
<1> QED  BY <1>2, <1>5, <1>7, <1>9, <1>11 DEF Committed

LEMMA EndpointDeletes ==
    ASSUME TypeOK, Shape, NEW r \in Requests, EndpointDelete(r)
    PROVE  Committed(r)
<1> DEFINE d == draft[r]
           now == endpoints[d.id]
           j == [Done EXCEPT !.mac = d.mac]
           lost == IF now = None THEN {} ELSE {now.mac} \ {d.mac}
<1>1. d.id \in EndpointIds /\ d.mac \in Macs
      BY DraftTypes DEF EndpointDelete
<1>2. /\ pc[r] = "draft"
      /\ endpoints' = [endpoints EXCEPT ![d.id] = None]
      /\ Owe(r, j, "job")
      /\ UNCHANGED policies
      /\ Track({}, lost)
      BY DEF EndpointDelete
<1>3. j \in Jobs /\ JobShape(j) /\ j.mac = d.mac
      BY <1>1 DEF Done, Jobs, JobShape
<1>4. endpoints' \in [EndpointIds -> EndpointRow \cup {None}]
      BY <1>1, <1>2 DEF TypeOK
<1>5. ForeignKey'
      BY <1>1, <1>2 DEF ForeignKey, Endpoints, Policies, Shape, TypeOK
<1>6. ASSUME NEW n \in Keys \ lost
      PROVE  Untouched(n) \/ Busy(r, n)'
  <2>1. job'[r] = j
        BY <1>2, NoneIsNothing DEF Owe, TypeOK
  <2>2. CASE n = d.mac
    <3>1. pc'[r] # "refresh"
          BY <1>2, NoneIsNothing DEF Owe, TypeOK
    <3> QED  BY <1>3, <2>1, <2>2, <3>1 DEF Busy, Purges
  <2>3. CASE n # d.mac
        BY <1>1, <1>2, <2>3 DEF Untouched, TypeOK
  <2> QED  BY <2>2, <2>3
<1>7. lost \in SUBSET Keys /\ policies' \in [PolicyIds -> PolicyRow \cup {None}]
      BY <1>1, <1>2 DEF TypeOK, EndpointRow, Keys
<1>8. PICK k \in Jobs, l \in SUBSET Keys : k = j /\ l = lost
      BY <1>3, <1>7
<1>9. Owed(r, k, "job", l)
  <2> HIDE DEF d, now, j, lost
  <2> QED  BY <1>2, <1>3, <1>6, <1>8 DEF Owed, Owe, Track
<1> QED  BY <1>2, <1>4, <1>5, <1>7, <1>9 DEF Committed

\* What create_policy and update_policy owe is a job.
LEMMA PolicyJobs ==
    ASSUME NEW p \in PolicyIds, NEW group \in Groups \cup {None}, NEW lab \in Labs
    PROVE  LET j == PolicyJob(p, group, lab) IN
           /\ j \in Jobs /\ JobShape(j)
           /\ j.mac = None /\ j.group = group /\ j.policy = p /\ ~j.listed
           /\ j.todo = {} /\ j.labs = {lab}
BY DEF PolicyJob, Done, Jobs, JobShape

LEMMA NewPolicyCommits ==
    ASSUME TypeOK, Shape, NEW r \in Requests, NewPolicyCommit(r)
    PROVE  Committed(r)
<1> DEFINE new == draft[r].new
<1>1. new \in PolicyRow /\ new # None /\ new.lab \in Labs
      BY DraftTypes, NoneIsNothing DEF NewPolicyCommit, PolicyRow
<1>2. PICK p \in NewPolicyIds :
          /\ policies' = [policies EXCEPT ![p] = new]
          /\ Owe(r, PolicyJob(p, None, new.lab), "refresh")
      BY DEF NewPolicyCommit
<1>3. pc[r] = "draft" /\ UNCHANGED endpoints /\ Track({}, {})
      BY DEF NewPolicyCommit
<1>4. p \in PolicyIds /\ policies[p] = None
      BY DEF NewPolicyIds, Policies
<1> DEFINE j == PolicyJob(p, None, new.lab)
<1>5. /\ j \in Jobs /\ JobShape(j)
      /\ j.policy = p /\ ~j.listed /\ j.todo = {} /\ j.labs = {new.lab}
      BY <1>1, <1>4, PolicyJobs
<1>6. policies' \in [PolicyIds -> PolicyRow \cup {None}] /\ policies'[p] = new
      BY <1>1, <1>2, <1>4 DEF TypeOK
<1>7. ForeignKey'
      BY <1>1, <1>2, <1>3, <1>4 DEF ForeignKey, Endpoints, Policies, Shape, TypeOK
<1>8. ASSUME NEW n \in Keys PROVE Untouched(n) \/ Busy(r, n)'
  <2>1. job'[r] = j
        BY <1>2, NoneIsNothing DEF Owe, TypeOK
  <2>2. CASE n = new.group
    <3>1. p \in Policies' /\ policies'[p].group = n /\ policies'[p].lab \in j.labs
          BY <1>1, <1>4, <1>5, <1>6, <2>2 DEF Policies
    <3> QED  BY <2>1, <3>1 DEF Busy
  <2>3. CASE n # new.group
    <3>1. UsersOf(p) = {}
          BY <1>4, NoneIsNothing DEF UsersOf, Shape, ForeignKey, Policies
    <3> QED  BY <1>2, <1>3, <1>4, <1>6, <2>3, <3>1 DEF Untouched, TypeOK
  <2> QED  BY <2>2, <2>3
<1>9. Owed(r, j, "refresh", {})
      BY <1>2, <1>3, <1>4, <1>5, <1>8, NoneIsNothing DEF Owed
<1> QED  BY <1>1, <1>3, <1>5, <1>6, <1>7, <1>9 DEF Committed, TypeOK

LEMMA PolicyCommits ==
    ASSUME TypeOK, Shape, NEW r \in Requests, PolicyCommit(r)
    PROVE  Raise(r) \/ Committed(r)
<1> SUFFICES ASSUME ~Raise(r) PROVE Committed(r)
    OBVIOUS
<1> DEFINE d == draft[r]
           now == policies[d.id]
           new == Merged(d.set, now)
           j == PolicyJob(d.id, d.group, new.lab)
           lost == {now.group} \ {None, d.group, new.group}
<1>1. d.id \in PolicyIds /\ d.group \in Groups \cup {None} /\ d.set \in Changes(PolicyRow)
      BY DraftTypes DEF PolicyCommit
<1>2. /\ pc[r] = "draft" /\ now # None
      /\ policies' = [policies EXCEPT ![d.id] = new]
      /\ Owe(r, j, "refresh")
      /\ UNCHANGED endpoints
      /\ Track({}, lost)
      BY DEF PolicyCommit
<1>3. now \in PolicyRow /\ new \in PolicyRow /\ new # None
      BY <1>1, <1>2, MergedPolicy, NoneIsNothing DEF TypeOK
<1>4. /\ j \in Jobs /\ JobShape(j) /\ j.policy = d.id /\ ~j.listed /\ j.todo = {}
      /\ j.labs = {new.lab} /\ j.group = d.group /\ j.policy # None
  <2>1. new.lab \in Labs
        BY <1>3 DEF PolicyRow
  <2> HIDE DEF new
  <2> QED  BY <1>1, <2>1, PolicyJobs, NoneIsNothing
<1>5. policies' \in [PolicyIds -> PolicyRow \cup {None}] /\ policies'[d.id] = new
      BY <1>1, <1>2, <1>3 DEF TypeOK
<1>6. ForeignKey'
      BY <1>1, <1>2, <1>3 DEF ForeignKey, Endpoints, Policies, Shape, TypeOK
<1>7. ASSUME NEW n \in Keys \ lost PROVE Untouched(n) \/ Busy(r, n)'
  <2>1. job'[r] = j
        BY <1>2, NoneIsNothing DEF Owe, TypeOK
  <2>2. CASE n = new.group
    <3>1. d.id \in Policies' /\ policies'[d.id].group = n /\ policies'[d.id].lab \in j.labs
          BY <1>1, <1>3, <1>4, <1>5, <2>2 DEF Policies
    <3> QED  BY <2>1, <3>1 DEF Busy
  <2>3. CASE n # new.group /\ n = now.group
    <3>1. n # None
          BY NoneIsNothing DEF Keys
    <3>2. ~Kept(r, n)'
          BY <1>4, <1>5, <2>1, <2>3 DEF Kept, PolicyAt
    <3> QED  BY <1>4, <2>1, <2>3, <3>1, <3>2 DEF Busy, Purges
  <2>4. CASE \E e \in UsersOf(d.id) : endpoints[e].mac = n
    <3>1. \E e \in Endpoints' : endpoints'[e].policy = j.policy /\ endpoints'[e].mac = n
          BY <1>2, <1>4, <2>4 DEF UsersOf, Endpoints
    <3>2. j.policy # None
          BY <1>1, <1>4, NoneIsNothing
    <3> QED  BY <1>4, <2>1, <3>1, <3>2 DEF Busy, UsersOf
  <2>5. CASE n # new.group /\ n # now.group /\ ~\E e \in UsersOf(d.id) : endpoints[e].mac = n
    <3> HIDE DEF new
    <3> QED  BY <1>1, <1>2, <1>5, <2>5 DEF Untouched, TypeOK
  <2> QED  BY <2>2, <2>3, <2>4, <2>5
<1>8. lost \in SUBSET Keys /\ endpoints' \in [EndpointIds -> EndpointRow \cup {None}]
      BY <1>2, <1>3 DEF PolicyRow, Keys, TypeOK
<1>9. PICK k \in Jobs, l \in SUBSET Keys : k = j /\ l = lost
      BY <1>4, <1>8
<1>10. Owed(r, k, "refresh", l)
  <2> HIDE DEF d, now, new, j, lost
  <2> QED  BY <1>2, <1>4, <1>7, <1>9 DEF Owed, Owe, Track
<1> QED  BY <1>2, <1>5, <1>6, <1>8, <1>10 DEF Committed

LEMMA PolicyDeletes ==
    ASSUME TypeOK, Shape, NEW r \in Requests, PolicyDelete(r)
    PROVE  Raise(r) \/ Committed(r)
<1> SUFFICES ASSUME ~Raise(r) PROVE Committed(r)
    OBVIOUS
<1> DEFINE d == draft[r]
           now == policies[d.id]
           gone == d.users \ Endpoints
           j == [Done EXCEPT !.group = d.group, !.todo = d.users, !.labs = {d.lab}]
           lost == IF now = None THEN {} ELSE {now.group} \ {None, d.group}
<1>1. /\ d.id \in PolicyIds /\ d.group \in Groups \cup {None}
      /\ d.lab \in Labs /\ d.users \in SUBSET EndpointIds
      BY DraftTypes DEF PolicyDelete
<1>2. /\ pc[r] = "draft"
      /\ UsersOf(d.id) \ d.users = {}
      /\ endpoints' = [e \in EndpointIds |->
                 IF e \in d.users \ gone THEN [endpoints[e] EXCEPT !.policy = None]
                 ELSE endpoints[e]]
      /\ policies' = [policies EXCEPT ![d.id] = None]
      /\ Owe(r, j, "job")
      /\ Track({}, lost)
      BY DEF PolicyDelete
<1>3. /\ j \in Jobs /\ JobShape(j) /\ j.group = d.group /\ j.todo = d.users
      BY <1>1 DEF Done, Jobs, JobShape
<1>4. \A e \in d.users \ gone :
          /\ endpoints[e] \in EndpointRow /\ endpoints'[e] \in EndpointRow
          /\ endpoints'[e] # None /\ endpoints'[e].mac = endpoints[e].mac
          /\ endpoints'[e].policy = None
  <2> SUFFICES ASSUME NEW e \in d.users \ gone
               PROVE  /\ endpoints[e] \in EndpointRow /\ endpoints'[e] \in EndpointRow
                      /\ endpoints'[e] # None /\ endpoints'[e].mac = endpoints[e].mac
                      /\ endpoints'[e].policy = None
      OBVIOUS
  <2>1. e \in EndpointIds /\ endpoints[e] \in EndpointRow
        BY <1>1 DEF Endpoints, TypeOK
  <2>2. endpoints'[e] = [endpoints[e] EXCEPT !.policy = None]
        BY <1>2, <2>1
  <2>3. endpoints'[e] \in EndpointRow /\ endpoints'[e].mac = endpoints[e].mac
        BY <2>1, <2>2 DEF EndpointRow
  <2> QED  BY <2>1, <2>2, <2>3, NoneIsNothing DEF EndpointRow
<1>5. \A e \in EndpointIds \ (d.users \ gone) : endpoints'[e] = endpoints[e]
      BY <1>2
<1>6. /\ endpoints' \in [EndpointIds -> EndpointRow \cup {None}]
      /\ policies' \in [PolicyIds -> PolicyRow \cup {None}]
      /\ lost \in SUBSET Keys
  <2>1. \A e \in EndpointIds : endpoints'[e] \in EndpointRow \cup {None}
        BY <1>4, <1>5 DEF TypeOK
  <2>2. endpoints' \in [EndpointIds -> EndpointRow \cup {None}]
    <3> HIDE DEF gone
    <3> QED  BY <1>2, <2>1
  <2>3. policies' \in [PolicyIds -> PolicyRow \cup {None}]
        BY <1>1, <1>2 DEF TypeOK
  <2>4. lost \in SUBSET Keys
        BY <1>1 DEF TypeOK, PolicyRow, Keys
  <2> QED  BY <2>2, <2>3, <2>4
<1>7. ForeignKey'
  <2> SUFFICES ASSUME NEW e \in Endpoints' PROVE endpoints'[e].policy \in Policies' \cup {None}
      BY DEF ForeignKey
  <2>1. CASE e \in d.users \ gone
        BY <1>4, <2>1
  <2>2. CASE e \notin d.users \ gone
    <3>1. e \in Endpoints /\ endpoints'[e] = endpoints[e]
          BY <1>5, <2>2 DEF Endpoints
    <3>2. e \notin UsersOf(d.id)
          BY <1>2, <2>2, <3>1 DEF Endpoints
    <3> QED  BY <1>1, <1>2, <3>1, <3>2 DEF UsersOf, Shape, ForeignKey, Policies, TypeOK
  <2> QED  BY <2>1, <2>2
<1>8. ASSUME NEW n \in Keys \ lost PROVE Untouched(n) \/ Busy(r, n)'
  <2>1. job'[r] = j
        BY <1>2, NoneIsNothing DEF Owe, TypeOK
  <2>2. CASE \E e \in d.users \ gone : endpoints[e].mac = n
    <3>1. PICK e \in d.users \ gone : endpoints[e].mac = n
          BY <2>2
    <3>2. e \in job'[r].todo /\ endpoints'[e] # None /\ endpoints'[e].mac = n
          BY <1>3, <1>4, <2>1, <3>1
    <3> QED  BY <3>2 DEF Busy
  <2>3. CASE now # None /\ now.group = n
    <3>1. n = d.group
          BY <2>3, NoneIsNothing DEF Keys
    <3>2. pc'[r] # "refresh"
          BY <1>2, NoneIsNothing DEF Owe, TypeOK
    <3> QED  BY <1>3, <2>1, <3>1, <3>2 DEF Busy, Purges
  <2>4. CASE /\ ~\E e \in d.users \ gone : endpoints[e].mac = n
             /\ now # None => now.group # n
    <3>1. \A e \in UsersOf(d.id) : endpoints[e].mac # n
          BY <1>2, <2>4 DEF UsersOf
    <3>2. \A e \in EndpointIds :
              \/ endpoints'[e] = endpoints[e]
              \/ /\ endpoints[e] # None => endpoints[e].mac # n
                 /\ endpoints'[e] # None => endpoints'[e].mac # n
          BY <1>4, <1>5, <2>4
    <3>3. \A p \in PolicyIds :
              \/ policies'[p] = policies[p]
              \/ /\ policies[p] # None => policies[p].group # n
                 /\ policies'[p] # None => policies'[p].group # n
                 /\ \A e \in UsersOf(p) : endpoints[e].mac # n
          BY <1>1, <1>2, <2>4, <3>1 DEF TypeOK
    <3> QED  BY <3>2, <3>3 DEF Untouched
  <2> QED  BY <2>2, <2>3, <2>4
<1>9. PICK k \in Jobs, l \in SUBSET Keys : k = j /\ l = lost
      BY <1>3, <1>6
<1>10. Owed(r, k, "job", l)
  <2> HIDE DEF d, now, j, lost
  <2> QED  BY <1>2, <1>3, <1>8, <1>9 DEF Owed, Owe, Track
<1> QED  BY <1>2, <1>6, <1>7, <1>10 DEF Committed

----------------------------------------------------------------------------
(***************************************************************************)
(* Types and shape.                                                        *)
(***************************************************************************)

\* The workers other than w stay where they are, but their DELETEs may have found
\* rows that are gone.
OthersStay(w) ==
    \A v \in Workers \ {w} :
        /\ pc[v]' = pc[v] /\ job[v]' = job[v] /\ cur[v]' = cur[v] /\ row[v]' = row[v]
        /\ held[v]' = held[v] /\ found[v]' = found[v] /\ fresh[v]' = fresh[v]
        /\ seen[v]' \subseteq seen[v]

LEMMA ShapeFrame ==
    ASSUME TypeOK, Shape, NEW w \in Workers, OthersStay(w), ForeignKey', ShapeOf(w)'
    PROVE  Shape'
<1> SUFFICES ASSUME NEW v \in Workers \ {w} PROVE ShapeOf(v)'
    BY DEF Shape
<1>1. ShapeOf(v)
      BY DEF Shape
<1>2. /\ pc[v]' = pc[v] /\ job[v]' = job[v] /\ cur[v]' = cur[v] /\ row[v]' = row[v]
      /\ held[v]' = held[v] /\ found[v]' = found[v] /\ fresh[v]' = fresh[v]
      /\ seen[v]' \subseteq seen[v]
      BY DEF OthersStay
<1> QED  BY <1>1, <1>2 DEF ShapeOf, Refreshes

\* Tables that do not change keep the foreign key.
LEMMA ForeignKeyFrame ==
    ASSUME ForeignKey, UNCHANGED tables
    PROVE  ForeignKey'
BY DEF ForeignKey, Endpoints, Policies, tables

\* Every check makes a draft.
LEMMA Checks ==
    ASSUME TypeOK, NEW r \in Requests,
           \/ CreateRead(r) \/ EndpointCheck(r) \/ EndpointLoad(r)
           \/ NewPolicyCheck(r) \/ PolicyCheck(r) \/ PolicyLoad(r)
    PROVE  \E d \in Drafts : Prepare(r, d)
<1>1. CASE CreateRead(r)
  <2> PICK lab \in Labs : \E p \in ValidPolicies(lab) :
            Prepare(r, [what |-> "create", lab |-> lab, policy |-> p,
                        free |-> Macs \ TakenMacs(lab)])
      BY <1>1 DEF CreateRead
  <2>1. PICK p \in ValidPolicies(lab) :
            Prepare(r, [what |-> "create", lab |-> lab, policy |-> p,
                        free |-> Macs \ TakenMacs(lab)])
        OBVIOUS
  <2>2. p \in PolicyIds \cup {None}
        BY DEF ValidPolicies, Policies
  <2>3. PICK free \in SUBSET Macs : free = Macs \ TakenMacs(lab)
        OBVIOUS
  <2>4. [what |-> "create", lab |-> lab, policy |-> p, free |-> free] \in Drafts
        BY <2>2 DEF Drafts
  <2>5. Prepare(r, [what |-> "create", lab |-> lab, policy |-> p, free |-> free])
        BY <2>1, <2>3 DEF Prepare
  <2> QED  BY <2>4, <2>5
<1>2. CASE EndpointCheck(r)
  <2> PICK e \in Endpoints, mac \in Macs, enabled \in BOOLEAN :
          \E p \in ValidPolicies(endpoints[e].lab) \cup {endpoints[e].policy} :
              LET new == [endpoints[e] EXCEPT !.mac = mac, !.policy = p, !.enabled = enabled]
              IN  Prepare(r, [what |-> "endpoint", id |-> e, mac |-> endpoints[e].mac,
                              set |-> Changed(endpoints[e], new)])
      BY <1>2 DEF EndpointCheck
  <2> DEFINE old == endpoints[e]
  <2>1. PICK p \in ValidPolicies(old.lab) \cup {old.policy} :
            LET new == [old EXCEPT !.mac = mac, !.policy = p, !.enabled = enabled]
            IN  Prepare(r, [what |-> "endpoint", id |-> e, mac |-> old.mac,
                            set |-> Changed(old, new)])
        OBVIOUS
  <2> DEFINE new == [old EXCEPT !.mac = mac, !.policy = p, !.enabled = enabled]
  <2>2. e \in EndpointIds /\ old \in EndpointRow
        BY DEF Endpoints, TypeOK
  <2>3. p \in PolicyIds \cup {None} /\ old.mac \in Macs
        BY <2>2 DEF ValidPolicies, Policies, EndpointRow
  <2>4. new \in EndpointRow
        BY <2>2, <2>3 DEF EndpointRow
  <2>5. PICK m \in Macs, set \in Changes(EndpointRow) : m = old.mac /\ set = Changed(old, new)
        BY <2>2, <2>3, <2>4 DEF Changes
  <2>6. [what |-> "endpoint", id |-> e, mac |-> m, set |-> set] \in Drafts
        BY <2>2 DEF Drafts
  <2>7. Prepare(r, [what |-> "endpoint", id |-> e, mac |-> m, set |-> set])
        BY <2>1, <2>5 DEF Prepare
  <2> QED  BY <2>6, <2>7
<1>3. CASE EndpointLoad(r)
  <2>1. PICK e \in Endpoints :
            Prepare(r, [what |-> "dropEndpoint", id |-> e, mac |-> endpoints[e].mac])
        BY <1>3 DEF EndpointLoad
  <2>2. PICK m \in Macs : m = endpoints[e].mac
        BY DEF Endpoints, TypeOK, EndpointRow
  <2>3. [what |-> "dropEndpoint", id |-> e, mac |-> m] \in Drafts
        BY DEF Drafts, Endpoints
  <2>4. Prepare(r, [what |-> "dropEndpoint", id |-> e, mac |-> m])
        BY <2>1, <2>2 DEF Prepare
  <2> QED  BY <2>3, <2>4
<1>4. CASE NewPolicyCheck(r)
  <2>1. PICK new \in PolicyRow : Prepare(r, [what |-> "newPolicy", new |-> new])
        BY <1>4 DEF NewPolicyCheck
  <2>2. [what |-> "newPolicy", new |-> new] \in Drafts
        BY DEF Drafts
  <2> QED  BY <2>1, <2>2
<1>5. CASE PolicyCheck(r)
  <2>1. PICK p \in Policies, new \in PolicyRow :
            Prepare(r, [what |-> "policy", id |-> p, group |-> policies[p].group,
                        set |-> Changed(policies[p], new)])
        BY <1>5 DEF PolicyCheck
  <2>2. p \in PolicyIds /\ policies[p] \in PolicyRow
        BY DEF Policies, TypeOK
  <2>3. PICK g \in Groups \cup {None}, set \in Changes(PolicyRow) :
            g = policies[p].group /\ set = Changed(policies[p], new)
        BY <2>2 DEF Changes, PolicyRow
  <2>4. [what |-> "policy", id |-> p, group |-> g, set |-> set] \in Drafts
        BY <2>2 DEF Drafts
  <2>5. Prepare(r, [what |-> "policy", id |-> p, group |-> g, set |-> set])
        BY <2>1, <2>3 DEF Prepare
  <2> QED  BY <2>4, <2>5
<1>6. CASE PolicyLoad(r)
  <2>1. PICK p \in Policies :
            Prepare(r, [what |-> "dropPolicy", id |-> p, lab |-> policies[p].lab,
                        group |-> policies[p].group, users |-> UsersOf(p)])
        BY <1>6 DEF PolicyLoad
  <2>2. p \in PolicyIds /\ policies[p] \in PolicyRow
        BY DEF Policies, TypeOK
  <2>3. PICK lab \in Labs, g \in Groups \cup {None}, users \in SUBSET EndpointIds :
            lab = policies[p].lab /\ g = policies[p].group /\ users = UsersOf(p)
        BY <2>2 DEF PolicyRow, UsersOf, Endpoints
  <2>4. [what |-> "dropPolicy", id |-> p, lab |-> lab, group |-> g, users |-> users] \in Drafts
        BY <2>2 DEF Drafts
  <2>5. Prepare(r, [what |-> "dropPolicy", id |-> p, lab |-> lab, group |-> g,
                    users |-> users])
        BY <2>1, <2>3 DEF Prepare
  <2> QED  BY <2>4, <2>5
<1> QED  BY <1>1, <1>2, <1>3, <1>4, <1>5, <1>6

----------------------------------------------------------------------------
(***************************************************************************)
(* The inductive invariant.  Of a key that is not contested at most one    *)
(* worker owes the rows, and what that worker has read is what it should   *)
(* write; if no worker owes them, the mirror has them.                     *)
(***************************************************************************)
RowsOf(n) == {x \in rows : x.key = n}

New(w, n) == {x.attrs : x \in {y \in fresh[w] : y.key = n}}

Rewriting(w, n) == pc[w] \in {"delete", "render", "write"} /\ row[w].mac = n

\* The copies of an endpoint's and of its policy's row are the rows.
CopyIsCurrent(w, n) ==
    Rewriting(w, n) =>
        endpoints[cur[w]] = row[w] /\ held[w] \in {None, PolicyAt(row[w].policy)}

\* The policy row that a session holds is the row, if it matters to n.
HeldIsCurrent(w, n) ==
    LET p == job[w].policy IN
    held[w] # None /\ p # None =>
        /\ ~job[w].listed /\ (\E e \in UsersOf(p) : endpoints[e].mac = n) =>
               held[w] = policies[p]
        /\ p \in Policies /\ policies[p].group = n /\ policies[p].lab \in job[w].labs =>
               held[w] = policies[p]

\* So are the policies whose groups are rewritten.
FoundIsCurrent(w, n) ==
    \A x \in found[w] : x.group = n => \E q \in Policies : policies[q] = x

\* The DELETE saw all that is there, and the new rows are what should be there.
NewIsCurrent(w, n) ==
    /\ Rewriting(w, n) /\ pc[w] \in {"render", "write"} => RowsOf(n) \subseteq seen[w]
    /\ Rewriting(w, n) /\ pc[w] = "write" => New(w, n) = Image(n)
    /\ pc[w] = "fill" /\ (\E x \in found[w] : x.group = n) =>
           RowsOf(n) \subseteq seen[w] /\ New(w, n) = Image(n)

Current(w, n) ==
    /\ CopyIsCurrent(w, n) /\ HeldIsCurrent(w, n)
    /\ FoundIsCurrent(w, n) /\ NewIsCurrent(w, n)

Ordered(n) ==
    /\ ~Clashing(n)
    /\ \A w \in Workers : Current(w, n)
    /\ ~AnyBusy(n) => Mirrored(n) = Image(n)

AllOrdered == \A n \in Keys \ contested : Ordered(n)

\* A step leaves the rows of n alone, or makes them what they should be.
Publishes(n) == Mirrored(n)' \in {Mirrored(n), Image(n)'}

AllPublish == \A n \in Keys \ contested' : Publishes(n)

----------------------------------------------------------------------------
(***************************************************************************)
(* What a step that does not touch a key leaves alone.                     *)
(***************************************************************************)

\* The worker v stays where it is.
Stays(v) ==
    /\ pc[v]' = pc[v] /\ job[v]' = job[v] /\ cur[v]' = cur[v] /\ row[v]' = row[v]
    /\ held[v]' = held[v] /\ found[v]' = found[v] /\ fresh[v]' = fresh[v]

\* Tables that do not change touch no key.
LEMMA TablesUntouched ==
    ASSUME UNCHANGED tables, NEW n
    PROVE  Untouched(n)
BY DEF Untouched, tables

\* Of an untouched key, the endpoints that have it are the same, and so are their policies.
LEMMA UntouchedRows ==
    ASSUME TypeOK, ForeignKey, NEW n \in Keys, Untouched(n)
    PROVE  /\ \A e \in EndpointIds :
                  /\ (e \in Endpoints /\ endpoints[e].mac = n)
                         <=> (e \in Endpoints' /\ endpoints'[e].mac = n)
                  /\ e \in Endpoints /\ endpoints[e].mac = n =>
                         /\ endpoints'[e] = endpoints[e]
                         /\ endpoints[e].policy \in PolicyIds =>
                                policies'[endpoints[e].policy] = policies[endpoints[e].policy]
           /\ \A p \in PolicyIds :
                  /\ (p \in Policies /\ policies[p].group = n)
                         <=> (p \in Policies' /\ policies'[p].group = n)
                  /\ p \in Policies /\ policies[p].group = n => policies'[p] = policies[p]
BY DEF Untouched, Endpoints, Policies, UsersOf

LEMMA ImageFrame ==
    ASSUME TypeOK, ForeignKey, NEW n \in Keys, Untouched(n)
    PROVE  Image(n)' = Image(n)
<1>1. \A e \in EndpointIds :
          e \in Endpoints /\ endpoints[e].mac = n => Wanted(e)' = Wanted(e)
  <2> SUFFICES ASSUME NEW e \in EndpointIds, e \in Endpoints, endpoints[e].mac = n
               PROVE  Wanted(e)' = Wanted(e)
      OBVIOUS
  <2>1. endpoints[e].policy \in PolicyIds \cup {None}
        BY DEF ForeignKey, Policies
  <2>2. /\ endpoints'[e] = endpoints[e]
        /\ endpoints[e].policy \in PolicyIds =>
               policies'[endpoints[e].policy] = policies[endpoints[e].policy]
        BY UntouchedRows
  <2> QED  BY <2>1, <2>2 DEF Wanted, PolicyAt
<1>2. {e \in Endpoints : endpoints[e].mac = n /\ endpoints[e].enabled}'
          = {e \in Endpoints : endpoints[e].mac = n /\ endpoints[e].enabled}
      BY UntouchedRows DEF Endpoints
<1>3. {p \in Policies : policies[p].group = n /\ policies[p].enabled}'
          = {p \in Policies : policies[p].group = n /\ policies[p].enabled}
      BY UntouchedRows DEF Policies
<1>4. \A a : a \in Image(n)' <=> a \in Image(n)
  <2> DEFINE E == {e \in Endpoints : endpoints[e].mac = n /\ endpoints[e].enabled}
             P == {p \in Policies : policies[p].group = n /\ policies[p].enabled}
  <2>1. \A e \in E : Wanted(e)' = Wanted(e)
        BY <1>1 DEF Endpoints
  <2>2. \A p \in P : policies'[p].attrs = policies[p].attrs
        BY UntouchedRows DEF Policies
  <2>3. E' = E /\ P' = P
        BY <1>2, <1>3
  <2>4. Image(n) = {Wanted(e) : e \in E} \cup {policies[p].attrs : p \in P}
        BY DEF Image
  <2>5. Image(n)' = {Wanted(e)' : e \in E'} \cup {policies'[p].attrs : p \in P'}
        BY DEF Image
  <2> HIDE DEF E, P
  <2> QED  BY <2>1, <2>2, <2>3, <2>4, <2>5
<1> QED  BY <1>4

LEMMA BusyFrame ==
    ASSUME TypeOK, ForeignKey, NEW n \in Keys, Untouched(n), NEW v \in Workers,
           pc[v]' = pc[v], job[v]' = job[v], row[v]' = row[v], found[v]' = found[v]
    PROVE  (Busy(v, n)' <=> Busy(v, n)) /\ (Purges(v, n)' <=> Purges(v, n))
<1>1. \A e \in EndpointIds :
          (endpoints[e] # None /\ endpoints[e].mac = n)
              <=> (endpoints'[e] # None /\ endpoints'[e].mac = n)
      BY UntouchedRows DEF Endpoints
<1>3. \A labs : (\E p \in Policies : policies[p].group = n /\ policies[p].lab \in labs)
                    <=> (\E p \in Policies' : policies'[p].group = n /\ policies'[p].lab \in labs)
      BY UntouchedRows DEF Policies
<1>4. job[v].todo \subseteq EndpointIds
      BY DEF TypeOK, Jobs
<1>5. (\E e \in job[v].todo : endpoints[e] # None /\ endpoints[e].mac = n)
          <=> (\E e \in job'[v].todo : endpoints'[e] # None /\ endpoints'[e].mac = n)
      BY <1>1, <1>4
<1>6. (\E e \in UsersOf(job[v].policy) : endpoints[e].mac = n)
          <=> (\E e \in UsersOf(job[v].policy)' : endpoints'[e].mac = n)
  <2>1. UsersOf(job[v].policy)' = {e \in Endpoints' : endpoints'[e].policy = job[v].policy}
        BY DEF UsersOf
  <2>2. UsersOf(job[v].policy) = {e \in Endpoints : endpoints[e].policy = job[v].policy}
        BY DEF UsersOf
  <2>3. \A e \in EndpointIds : e \in Endpoints /\ endpoints[e].mac = n =>
                                   e \in Endpoints' /\ endpoints'[e] = endpoints[e]
        BY UntouchedRows
  <2>4. \A e \in EndpointIds : e \in Endpoints' /\ endpoints'[e].mac = n =>
                                   e \in Endpoints /\ endpoints'[e] = endpoints[e]
        BY UntouchedRows
  <2> QED  BY <2>1, <2>2, <2>3, <2>4 DEF Endpoints
<1>7. (\E p \in Policies : policies[p].group = n /\ policies[p].lab \in job[v].labs)
          <=> (\E p \in Policies' : policies'[p].group = n /\ policies'[p].lab \in job'[v].labs)
      BY <1>3
<1>8. Kept(v, n)' <=> Kept(v, n)
  <2> DEFINE p == job[v].policy
  <2>1. p \in PolicyIds \cup {None} /\ (None \notin PolicyIds)
        BY NoneIsNothing DEF TypeOK, Jobs
  <2>2. CASE p = None
        BY <1>5, <2>2 DEF Kept, PolicyAt
  <2>3. CASE p \in PolicyIds
    <3>1. (policies[p] # None /\ policies[p].group = n)
              <=> (policies'[p] # None /\ policies'[p].group = n)
          BY <2>3, UntouchedRows DEF Policies
    <3> QED  BY <1>5, <2>1, <2>3, <3>1 DEF Kept, PolicyAt
  <2> QED  BY <2>1, <2>2, <2>3
<1>9. Purges(v, n)' <=> Purges(v, n)
      BY <1>8 DEF Purges
<1> QED  BY <1>5, <1>6, <1>7, <1>9, Zenon DEF Busy

LEMMA CurrentFrame ==
    ASSUME TypeOK, Shape, NEW n \in Keys, Untouched(n), NEW v \in Workers, Current(v, n),
           Stays(v), RowsOf(n)' = RowsOf(n), seen[v] \cap RowsOf(n) \subseteq seen'[v]
    PROVE  Current(v, n)'
<1>1. ForeignKey /\ ShapeOf(v)
      BY DEF Shape
<1>2. CopyIsCurrent(v, n)'
  <2> SUFFICES ASSUME Rewriting(v, n)'
               PROVE  endpoints'[cur'[v]] = row'[v] /\ held'[v] \in {None, PolicyAt(row[v].policy)'}
      BY DEF CopyIsCurrent
  <2>1. Rewriting(v, n) /\ cur'[v] = cur[v] /\ row'[v] = row[v] /\ held'[v] = held[v]
        BY DEF Rewriting, Stays
  <2>2. endpoints[cur[v]] = row[v] /\ held[v] \in {None, PolicyAt(row[v].policy)}
        BY <2>1 DEF Current, CopyIsCurrent
  <2>3. cur[v] \in EndpointIds /\ cur[v] \in Endpoints /\ row[v].mac = n
        BY <1>1, <2>1, <2>2 DEF ShapeOf, Rewriting, TypeOK, Endpoints
  <2>4. row[v].policy \in PolicyIds \cup {None}
        BY <1>1, <2>2, <2>3 DEF ForeignKey, Policies
  <2>5. /\ endpoints'[cur[v]] = endpoints[cur[v]]
        /\ row[v].policy \in PolicyIds => policies'[row[v].policy] = policies[row[v].policy]
        BY <1>1, <2>2, <2>3, UntouchedRows
  <2>6. PolicyAt(row[v].policy)' = PolicyAt(row[v].policy)
        BY <2>1, <2>4, <2>5 DEF PolicyAt
  <2> QED  BY <2>1, <2>2, <2>5, <2>6
<1>3. HeldIsCurrent(v, n)'
  <2> DEFINE p == job[v].policy
  <2> SUFFICES ASSUME held[v] # None, p # None
               PROVE  /\ ~job[v].listed
                             /\ (\E e \in Endpoints' : endpoints'[e].policy = p
                                                           /\ endpoints'[e].mac = n) =>
                             held[v] = policies'[p]
                      /\ p \in Policies' /\ policies'[p].group = n
                             /\ policies'[p].lab \in job[v].labs => held[v] = policies'[p]
      BY DEF HeldIsCurrent, Stays, UsersOf
  <2>1. p \in PolicyIds
        BY DEF TypeOK, Jobs
  <2>2. /\ ~job[v].listed /\ (\E e \in UsersOf(p) : endpoints[e].mac = n) => held[v] = policies[p]
        /\ p \in Policies /\ policies[p].group = n /\ policies[p].lab \in job[v].labs =>
               held[v] = policies[p]
        BY DEF Current, HeldIsCurrent
  <2>3. ASSUME NEW e \in Endpoints', endpoints'[e].policy = p, endpoints'[e].mac = n
        PROVE  e \in UsersOf(p) /\ endpoints[e].mac = n /\ policies'[p] = policies[p]
        BY <1>1, <2>1, <2>3, UntouchedRows DEF UsersOf, Endpoints
  <2>4. ASSUME p \in Policies', policies'[p].group = n
        PROVE  p \in Policies /\ policies[p].group = n /\ policies'[p] = policies[p]
        BY <1>1, <2>1, <2>4, UntouchedRows
  <2> QED  BY <2>2, <2>3, <2>4
<1>4. FoundIsCurrent(v, n)'
  <2> SUFFICES ASSUME NEW x \in found[v], x.group = n
               PROVE  \E q \in Policies' : policies'[q] = x
      BY DEF FoundIsCurrent, Stays
  <2>1. PICK q \in Policies : policies[q] = x
        BY DEF Current, FoundIsCurrent
  <2> QED  BY <1>1, <2>1, UntouchedRows DEF Policies
<1>5. NewIsCurrent(v, n)'
  <2>1. Image(n)' = Image(n)
        BY <1>1, ImageFrame
  <2>2. New(v, n)' = New(v, n) /\ (Rewriting(v, n)' <=> Rewriting(v, n))
        BY DEF New, Rewriting, Stays
  <2> QED  BY <2>1, <2>2 DEF Current, NewIsCurrent, Stays
<1> QED  BY <1>2, <1>3, <1>4, <1>5 DEF Current

\* What a worker knows of a key whose rows it does not owe is current: it knows nothing.
LEMMA IdleIsCurrent ==
    ASSUME NEW v \in Workers, NEW n \in Keys, ~Busy(v, n)'
    PROVE  Current(v, n)'
<1>1. ~Rewriting(v, n)'
      BY DEF Busy, Rewriting
<1>2. \A x \in found'[v] : x.group # n
      BY DEF Busy
<1>3. HeldIsCurrent(v, n)'
  <2> DEFINE p == job'[v].policy
  <2> SUFFICES ASSUME p # None
               PROVE  /\ ~(~job'[v].listed
                              /\ (\E e \in Endpoints' : endpoints'[e].policy = p
                                                            /\ endpoints'[e].mac = n))
                      /\ ~(p \in Policies' /\ policies'[p].group = n
                               /\ policies'[p].lab \in job'[v].labs)
      BY DEF HeldIsCurrent, UsersOf
  <2> QED  BY DEF Busy, UsersOf
<1> QED  BY <1>1, <1>2, <1>3 DEF Current, CopyIsCurrent, FoundIsCurrent, NewIsCurrent

\* A key that only w is busy with is in order if w knows what to write.
LEMMA Claimed ==
    ASSUME NEW w \in Workers, NEW n \in Keys, ~Clashing(n)', Busy(w, n)', Current(w, n)'
    PROVE  Ordered(n)'
<1>1. \A v \in Workers : Current(v, n)'
  <2> SUFFICES ASSUME NEW v \in Workers, v # w PROVE Current(v, n)'
      OBVIOUS
  <2>1. ~Busy(v, n)'
        BY DEF Clashing
  <2> QED  BY <2>1, IdleIsCurrent
<1> QED  BY <1>1 DEF Ordered, AnyBusy

\* The other workers cannot disturb a key that w owes.
LEMMA OrderedStep ==
    ASSUME TypeOK, Shape, NEW w \in Workers, OthersStay(w),
           NEW n \in Keys, Ordered(n), Untouched(n), ~Clashing(n)',
           ~Busy(w, n) => /\ RowsOf(n)' = RowsOf(n)
                          /\ \A v \in Workers \ {w} : seen[v] \cap RowsOf(n) \subseteq seen'[v],
           Busy(w, n) => Busy(w, n)' \/ Mirrored(n)' = Image(n)',
           Busy(w, n)' => Current(w, n)'
    PROVE  Ordered(n)'
<1>0. ForeignKey
      BY DEF Shape
<1>1. \A v \in Workers \ {w} : Stays(v)
      BY DEF OthersStay, Stays
<1>2. \A v \in Workers \ {w} : Busy(v, n)' <=> Busy(v, n)
  <2> SUFFICES ASSUME NEW v \in Workers \ {w} PROVE Busy(v, n)' <=> Busy(v, n)
      OBVIOUS
  <2>1. Stays(v)
        BY <1>1
  <2> QED  BY <1>0, <2>1, BusyFrame DEF Stays
<1>3. ASSUME NEW v \in Workers PROVE Current(v, n)'
  <2>1. CASE ~Busy(v, n)'
        BY <2>1, IdleIsCurrent
  <2>2. CASE Busy(v, n)' /\ v = w
        BY <2>2
  <2>3. CASE Busy(v, n)' /\ v # w
    <3>1. Busy(v, n)
          BY <1>2, <2>3
    <3>2. ~Busy(w, n)
          BY <2>3, <3>1 DEF Ordered, Clashing
    <3>3. Current(v, n) /\ Stays(v)
          BY <1>1, <2>3 DEF Ordered
    <3> QED  BY <2>3, <3>2, <3>3, CurrentFrame
  <2> QED  BY <2>1, <2>2, <2>3
<1>4. ASSUME ~AnyBusy(n)' PROVE Mirrored(n)' = Image(n)'
  <2>1. CASE Busy(w, n)
        BY <1>4, <2>1 DEF AnyBusy
  <2>2. CASE ~Busy(w, n)
    <3>1. \A v \in Workers : ~Busy(v, n)
          BY <1>2, <1>4, <2>2 DEF AnyBusy
    <3>2. Mirrored(n) = Image(n)
          BY <3>1 DEF Ordered, AnyBusy
    <3>3. Mirrored(n)' = Mirrored(n)
      <4>1. \A x : x \in RowsOf(n)' <=> x \in RowsOf(n)
            BY <2>2
      <4>2. \A x : (x \in rows' /\ x.key = n) <=> (x \in rows /\ x.key = n)
            BY <4>1 DEF RowsOf
      <4> QED  BY <4>2 DEF Mirrored
    <3> QED  BY <1>0, <3>2, <3>3, ImageFrame
  <2> QED  BY <2>1, <2>2
<1> QED  BY <1>3, <1>4 DEF Ordered

----------------------------------------------------------------------------
(***************************************************************************)
(* Every step keeps types and shape.                                       *)
(***************************************************************************)
LEMMA PrepareShape ==
    ASSUME TypeOK, Shape, NEW r \in Requests, NEW d \in Drafts, Prepare(r, d)
    PROVE  TypeOK' /\ Shape' /\ OthersStay(r)
<1>0. r \in Workers
      BY NoneIsNothing
<1>1. TypeOK'
      BY <1>0 DEF TypeOK, Prepare, tables, work
<1>2. OthersStay(r)
      BY <1>0 DEF OthersStay, TypeOK, Prepare, work
<1>3. ForeignKey'
      BY ForeignKeyFrame DEF Prepare, Shape
<1>4. ShapeOf(r)'
  <2>1. ShapeOf(r) /\ pc[r] = "idle" /\ pc'[r] = "draft"
        BY <1>0 DEF Shape, Prepare, TypeOK
  <2> QED  BY <2>1 DEF ShapeOf, Prepare, work
<1> QED  BY <1>0, <1>1, <1>2, <1>3, <1>4, ShapeFrame

LEMMA CommittedShape ==
    ASSUME TypeOK, Shape, NEW r \in Requests, Committed(r)
    PROVE  TypeOK' /\ Shape' /\ OthersStay(r)
<1>0. r \in Workers
      BY NoneIsNothing
<1>1. PICK j \in Jobs, next \in {"job", "refresh"}, lost \in SUBSET Keys :
          Owed(r, j, next, lost)
      BY DEF Committed
<1>2. Owe(r, j, next) /\ JobShape(j) /\ Track({}, lost)
      BY <1>1 DEF Owed
<1>3. Nothing \in Drafts
      BY DEF Nothing, Drafts
<1>4. contested' \subseteq Keys
      BY <1>2 DEF Track
<1>5. pc'[r] \in {"idle", "job", "refresh"} /\ pc' = [pc EXCEPT ![r] = pc'[r]]
      BY <1>0, <1>2 DEF Owe, TypeOK
<1>6. TypeOK'
  <2>1. /\ endpoints' \in [EndpointIds -> EndpointRow \cup {None}]
        /\ policies' \in [PolicyIds -> PolicyRow \cup {None}]
        BY DEF Committed
  <2>2. pc' \in [Workers -> {"start", "idle", "draft", "refresh", "job", "delete",
                             "render", "write", "groups", "fill"}]
        BY <1>0, <1>5 DEF TypeOK
  <2> QED  BY <1>0, <1>2, <1>3, <1>4, <2>1, <2>2 DEF TypeOK, Owe
<1>7. OthersStay(r)
      BY <1>0, <1>2, <1>5 DEF OthersStay, TypeOK, Owe
<1>8. ForeignKey'
      BY DEF Committed
<1>9. ShapeOf(r)'
  <2>1. ShapeOf(r) /\ pc[r] = "draft"
        BY <1>0 DEF Shape, Committed
  <2>2. /\ job'[r] = j /\ held'[r] = None
        /\ found' = found /\ fresh' = fresh /\ seen' = seen /\ row' = row /\ cur' = cur
        /\ pc'[r] = IF j = Done THEN "idle" ELSE next
        BY <1>0, <1>2, <2>1 DEF Owe, TypeOK, ShapeOf
  <2>3. next = "refresh" => Refreshes(r)'
        BY <1>1, <2>2 DEF Owed, Refreshes
  <2>4. j = Done => ~Owing(j)
        BY DEF Done, Owing
  <2> QED  BY <1>2, <2>1, <2>2, <2>3, <2>4 DEF ShapeOf
<1> QED  BY <1>0, <1>6, <1>7, <1>8, <1>9, ShapeFrame

\* What a worker that has nothing to do looks like.
LEMMA IdleShape ==
    ASSUME NEW w \in Workers, pc'[w] \in {"start", "idle"}, job'[w] = Done, held'[w] = None,
           found'[w] = {}, fresh'[w] = {}, seen'[w] = {}
    PROVE  ShapeOf(w)'
BY DEF ShapeOf, JobShape, Owing, Done

\* The end of a handler is well typed.
LEMMA AbandonTypes ==
    ASSUME TypeOK, NEW w \in Workers, Abandon(w)
    PROVE  /\ pc' \in [Workers -> {"start", "idle", "draft", "refresh", "job", "delete",
                                   "render", "write", "groups", "fill"}]
           /\ draft' \in [Workers -> Drafts]
           /\ job' \in [Workers -> Jobs]
           /\ cur' \in [Workers -> EndpointIds \cup {None}]
           /\ row' \in [Workers -> EndpointRow \cup {None}]
           /\ held' \in [Workers -> PolicyRow \cup {None}]
           /\ found' \in [Workers -> SUBSET PolicyRow]
           /\ pc'[w] = "idle" /\ job'[w] = Done /\ held'[w] = None /\ found'[w] = {}
<1>1. Nothing \in Drafts /\ Done \in Jobs
      BY DEF Nothing, Drafts, Done, Jobs
<1> QED  BY <1>1 DEF TypeOK, Abandon

LEMMA RaiseShape ==
    ASSUME TypeOK, Shape, NEW w \in Workers, Raise(w)
    PROVE  TypeOK' /\ Shape' /\ OthersStay(w)
<1>1. Abandon(w)
      BY DEF Raise
<1>2. TypeOK'
      BY <1>1, AbandonTypes DEF TypeOK, Raise, Track, tables
<1>3. OthersStay(w)
      BY <1>1 DEF OthersStay, TypeOK, Raise, Abandon
<1>4. ForeignKey'
      BY ForeignKeyFrame DEF Raise, Shape
<1>5. ShapeOf(w)'
      BY <1>1, AbandonTypes, IdleShape DEF Raise, TypeOK
<1> QED  BY <1>2, <1>3, <1>4, <1>5, ShapeFrame

\* A job without one of its parts is a job.
LEMMA SmallerJob ==
    ASSUME NEW j \in Jobs, JobShape(j)
    PROVE  /\ [j EXCEPT !.mac = None] \in Jobs /\ JobShape([j EXCEPT !.mac = None])
           /\ [j EXCEPT !.group = None] \in Jobs /\ JobShape([j EXCEPT !.group = None])
BY DEF Jobs, JobShape

\* A worker that goes on, or ends, is well typed and looks as it should.
LEMMA ResumeTypes ==
    ASSUME TypeOK, NEW w \in Workers, NEW j \in Jobs, Resume(w, j)
    PROVE  /\ pc' \in [Workers -> {"start", "idle", "draft", "refresh", "job", "delete",
                                   "render", "write", "groups", "fill"}]
           /\ job' \in [Workers -> Jobs]
           /\ held' \in [Workers -> PolicyRow \cup {None}]
           /\ pc'[w] \in {"idle", "job"} /\ job'[w] = j /\ held'[w] = None
           /\ pc'[w] = "idle" => j.todo = {} /\ j.labs = {}
           /\ \A v \in Workers \ {w} :
                  pc'[v] = pc[v] /\ job'[v] = job[v] /\ held'[v] = held[v]
BY DEF TypeOK, Resume

LEMMA PurgeShape ==
    ASSUME TypeOK, Shape, NEW w \in Workers, NEW n \in Keys, NEW j \in Jobs, JobShape(j),
           pc[w] = "job", Purge(w, n, j),
           j.todo = {} /\ j.labs = {} => ~Owing(j)
    PROVE  TypeOK' /\ Shape' /\ OthersStay(w)
<1>1. Resume(w, j)
      BY DEF Purge
<1>2. TypeOK'
      BY <1>1, ResumeTypes DEF TypeOK, Purge, Track, tables
<1>3. OthersStay(w)
      BY <1>1, ResumeTypes DEF OthersStay, Purge
<1>4. ForeignKey'
      BY ForeignKeyFrame DEF Purge, Shape
<1>5. ShapeOf(w)'
  <2>1. ShapeOf(w)
        BY DEF Shape
  <2> QED  BY <1>1, <2>1, ResumeTypes DEF ShapeOf, Purge
<1> QED  BY <1>2, <1>3, <1>4, <1>5, ShapeFrame

\* The state in which a worker may read the row of an endpoint: it holds no rows, and j
\* is what it owes after that.
Takes(w, e, j, h) ==
    /\ e \in Endpoints /\ j \in Jobs /\ JobShape(j) /\ j.mac = None /\ j.group = None
    /\ j.policy = None \/ j.listed
    /\ h \in PolicyRow \cup {None} /\ held' = [held EXCEPT ![w] = h]
    /\ found[w] = {} /\ seen[w] = {} /\ fresh[w] = {}
    /\ Take(w, e, j)

LEMMA TakeShape ==
    ASSUME TypeOK, Shape, NEW w \in Workers, NEW e, NEW j, NEW h, Takes(w, e, j, h)
    PROVE  TypeOK' /\ Shape' /\ OthersStay(w)
<1>1. e \in EndpointIds /\ endpoints[e] \in EndpointRow /\ endpoints[e] # None /\ e # None
      BY NoneIsNothing DEF Takes, Endpoints, TypeOK
<1>2. TypeOK'
      BY <1>1 DEF TypeOK, Takes, Take, Track, tables
<1>3. OthersStay(w)
      BY DEF OthersStay, TypeOK, Takes, Take
<1>4. ForeignKey'
      BY ForeignKeyFrame DEF Takes, Take, Shape
<1>5. ShapeOf(w)'
  <2>1. /\ pc'[w] = "delete" /\ job'[w] = j /\ cur'[w] = e /\ row'[w] = endpoints[e]
        /\ found'[w] = {} /\ fresh'[w] = {} /\ seen'[w] = {}
        BY DEF Takes, Take, TypeOK
  <2> QED  BY <1>1, <2>1 DEF ShapeOf, Takes
<1> QED  BY <1>2, <1>3, <1>4, <1>5, ShapeFrame

\* A worker with nobody to rewrite goes on to the groups, or ends.
Skips(w, j, h) ==
    /\ j \in Jobs /\ JobShape(j) /\ j.mac = None /\ j.group = None /\ j.todo = {}
    /\ j.policy = None \/ j.listed
    /\ h \in PolicyRow \cup {None} /\ held' = [held EXCEPT ![w] = h]
    /\ h # None => j.labs # {}
    /\ found[w] = {} /\ seen[w] = {} /\ fresh[w] = {}
    /\ TakeFirst(w, {}, j)

LEMMA SkipSteps ==
    ASSUME NEW w \in Workers, NEW j, TakeFirst(w, {}, j)
    PROVE  /\ job' = [job EXCEPT ![w] = j]
           /\ pc' = [pc EXCEPT ![w] = IF j.labs = {} THEN "idle" ELSE "job"]
           /\ UNCHANGED <<tables, rows, up, draft, cur, row, found, fresh, seen>>
           /\ Track({}, {})
BY DEF TakeFirst

LEMMA SkipShape ==
    ASSUME TypeOK, Shape, NEW w \in Workers, NEW j, NEW h, Skips(w, j, h)
    PROVE  TypeOK' /\ Shape' /\ OthersStay(w)
<1>1. /\ job' = [job EXCEPT ![w] = j]
      /\ pc' = [pc EXCEPT ![w] = IF j.labs = {} THEN "idle" ELSE "job"]
      /\ UNCHANGED <<tables, rows, up, draft, cur, row, found, fresh, seen>>
      /\ Track({}, {})
      BY SkipSteps DEF Skips
<1>2. pc'[w] = IF j.labs = {} THEN "idle" ELSE "job"
      BY <1>1 DEF TypeOK
<1>3. pc' = [pc EXCEPT ![w] = pc'[w]] /\ pc'[w] \in {"idle", "job"}
      BY <1>1, <1>2
<1>4. TypeOK'
  <2>1. pc' \in [Workers -> {"start", "idle", "draft", "refresh", "job", "delete",
                             "render", "write", "groups", "fill"}]
        BY <1>3 DEF TypeOK
  <2> QED  BY <1>1, <2>1 DEF TypeOK, Skips, Track, tables
<1>5. OthersStay(w)
      BY <1>1, <1>3 DEF OthersStay, TypeOK, Skips
<1>6. ForeignKey'
      BY <1>1, ForeignKeyFrame DEF Shape
<1>7. ShapeOf(w)'
  <2>1. /\ job'[w] = j /\ held'[w] = h /\ found'[w] = {} /\ fresh'[w] = {} /\ seen'[w] = {}
        BY <1>1 DEF Skips, TypeOK
  <2>2. j.labs = {} => ~Owing(j) /\ h = None
        BY DEF Skips, JobShape, Owing
  <2> QED  BY <1>2, <2>1, <2>2 DEF ShapeOf, Skips
<1> QED  BY <1>4, <1>5, <1>6, <1>7, ShapeFrame

LEMMA SyncDeleteShape ==
    ASSUME TypeOK, Shape, NEW w \in Workers, SyncDelete(w)
    PROVE  TypeOK' /\ Shape' /\ OthersStay(w)
<1>1. ShapeOf(w)
      BY DEF Shape
<1>2. /\ pc'[w] = IF row[w].enabled THEN "render" ELSE "write"
      /\ pc' = [pc EXCEPT ![w] = pc'[w]]
      /\ seen'[w] = {x \in rows : x.key = row[w].mac}
      BY DEF SyncDelete, TypeOK
<1>3. TypeOK'
      BY <1>2 DEF TypeOK, SyncDelete, tables
<1>4. OthersStay(w)
      BY <1>2 DEF OthersStay, TypeOK, SyncDelete
<1>5. ForeignKey'
      BY ForeignKeyFrame DEF SyncDelete, Shape
<1>6. ShapeOf(w)'
      BY <1>1, <1>2 DEF ShapeOf, SyncDelete
<1> QED  BY <1>3, <1>4, <1>5, <1>6, ShapeFrame

LEMMA RenderedTypes ==
    ASSUME NEW x \in PolicyRow \cup {None}
    PROVE  Rendered(x) \in Attrs \cup {NoAttrs}
BY DEF Rendered, PolicyRow

LEMMA SyncRenderShape ==
    ASSUME TypeOK, Shape, NEW w \in Workers, SyncRender(w)
    PROVE  TypeOK' /\ Shape' /\ OthersStay(w)
<1> DEFINE policy == IF held[w] # None THEN held[w] ELSE PolicyAt(row[w].policy)
<1>1. ShapeOf(w) /\ pc[w] = "render"
      BY DEF Shape, SyncRender
<1>2. row[w] \in EndpointRow
      BY <1>1 DEF ShapeOf, TypeOK
<1>3. policy \in PolicyRow \cup {None}
      BY <1>2 DEF TypeOK, PolicyAt, EndpointRow
<1>4. PICK a \in Attrs \cup {NoAttrs} : a = Rendered(policy)
      BY <1>3, RenderedTypes
<1>5. fresh' = [fresh EXCEPT ![w] = {[key |-> row[w].mac, attrs |-> a]}]
      BY <1>4 DEF SyncRender
<1>6. [key |-> row[w].mac, attrs |-> a] \in MirrorRow
      BY <1>2 DEF MirrorRow, Keys, EndpointRow
<1>7. TypeOK'
      BY <1>5, <1>6 DEF TypeOK, SyncRender, tables
<1>8. OthersStay(w)
      BY <1>5 DEF OthersStay, TypeOK, SyncRender
<1>9. ForeignKey'
      BY ForeignKeyFrame DEF SyncRender, Shape
<1>10. ShapeOf(w)'
  <2>1. pc'[w] = "write" /\ fresh'[w] = {[key |-> row[w].mac, attrs |-> a]}
        BY <1>5 DEF SyncRender, TypeOK
  <2> QED  BY <1>1, <2>1 DEF ShapeOf, SyncRender
<1> QED  BY <1>7, <1>8, <1>9, <1>10, ShapeFrame

\* The commit of a rewrite changes the rows, and no worker's copy of anything.
LEMMA PublishTypes ==
    ASSUME TypeOK, NEW w \in Workers, Publish(w)
    PROVE  /\ rows' \subseteq MirrorRow
           /\ fresh' \in [Workers -> SUBSET MirrorRow]
           /\ seen' \in [Workers -> SUBSET MirrorRow]
           /\ fresh'[w] = {} /\ seen'[w] = {}
           /\ \A v \in Workers \ {w} : fresh'[v] = fresh[v] /\ seen'[v] = seen[v] \ fresh[w]
BY DEF TypeOK, Publish

LEMMA SyncCommitShape ==
    ASSUME TypeOK, Shape, NEW w \in Workers, SyncCommit(w)
    PROVE  TypeOK' /\ Shape' /\ OthersStay(w)
<1>1. ShapeOf(w) /\ pc[w] = "write" /\ Publish(w)
      BY DEF Shape, SyncCommit
<1>2. ForeignKey'
      BY <1>1, ForeignKeyFrame DEF Publish, Shape
<1>3. CASE Abandon(w) /\ Track({}, {n \in Keys : Busy(w, n)})
  <2>1. TypeOK'
        BY <1>1, <1>3, PublishTypes, AbandonTypes DEF TypeOK, Publish, Track, tables
  <2>2. OthersStay(w)
        BY <1>1, <1>3, PublishTypes DEF OthersStay, TypeOK, Abandon
  <2>3. ShapeOf(w)'
        BY <1>1, <1>3, PublishTypes, AbandonTypes, IdleShape
  <2> QED  BY <1>2, <2>1, <2>2, <2>3, ShapeFrame
<1>4. CASE /\ Resume(w, job[w])
           /\ cur' = [cur EXCEPT ![w] = None] /\ row' = [row EXCEPT ![w] = None]
           /\ UNCHANGED <<draft, found>> /\ Track({}, {})
  <2>1. PICK j \in Jobs : j = job[w]
        BY DEF TypeOK
  <2>2. Resume(w, j)
        BY <1>4, <2>1 DEF Resume
  <2>3. TypeOK'
        BY <1>1, <1>4, <2>2, PublishTypes, ResumeTypes DEF TypeOK, Publish, Track, tables
  <2>4. OthersStay(w)
        BY <1>1, <1>4, <2>2, PublishTypes, ResumeTypes DEF OthersStay, TypeOK
  <2>5. ShapeOf(w)'
    <3>1. /\ JobShape(j) /\ j.mac = None /\ j.group = None
          /\ j.todo = {} /\ j.labs = {} => ~Owing(j)
          BY <1>1, <2>1 DEF ShapeOf, JobShape, Owing
    <3>2. /\ pc'[w] \in {"idle", "job"} /\ job'[w] = j /\ held'[w] = None
          /\ pc'[w] = "idle" => j.todo = {} /\ j.labs = {}
          BY <2>2, ResumeTypes
    <3>3. fresh'[w] = {} /\ seen'[w] = {}
          BY <1>1, PublishTypes
    <3>4. found'[w] = {}
          BY <1>1, <1>4 DEF ShapeOf
    <3> QED  BY <3>1, <3>2, <3>3, <3>4 DEF ShapeOf
  <2> QED  BY <1>2, <2>3, <2>4, <2>5, ShapeFrame
<1> QED  BY <1>3, <1>4 DEF SyncCommit

\* The policies that sync_authz_policy_groups reads, and the groups of which it reads
\* what they should have.
ReadFor(w) ==
    {IF q = job[w].policy /\ held[w] # None THEN held[w] ELSE policies[q] :
        q \in {x \in Policies : policies[x].lab \in job[w].labs /\ policies[x].group # None}}

UpToDate(w, n) ==
    \E q \in Policies : Owners(n) = {q} /\ {x \in ReadFor(w) : x.group = n} = {policies[q]}

LEMMA GroupReads ==
    ASSUME TypeOK, NEW w \in Workers, GroupRead(w), ~Raise(w)
    PROVE  /\ pc[w] = "job" /\ job[w].group = None /\ job[w].todo = {} /\ job[w].labs # {}
           /\ job[w].policy # None => job[w].listed
           /\ found' = [found EXCEPT ![w] = {x \in ReadFor(w) : x.group # None}]
           /\ job' = [job EXCEPT ![w] = Done]
           /\ pc' = [pc EXCEPT ![w] = "groups"]
           /\ held' = [held EXCEPT ![w] = None]
           /\ UNCHANGED <<tables, rows, up, draft, cur, row, fresh, seen>>
           /\ Track({n \in Groups : Alone(w, n) /\ UpToDate(w, n)},
                    {n \in Groups : ~UpToDate(w, n) /\ \E x \in ReadFor(w) : x.group = n})
BY DEF GroupRead, ReadFor, UpToDate

LEMMA GroupReadShape ==
    ASSUME TypeOK, Shape, NEW w \in Workers, GroupRead(w), ~Raise(w)
    PROVE  TypeOK' /\ Shape' /\ OthersStay(w)
<1>1. {x \in ReadFor(w) : x.group # None} \in SUBSET PolicyRow
      BY DEF ReadFor, TypeOK, Policies
<1>2. PICK f \in SUBSET PolicyRow : f = {x \in ReadFor(w) : x.group # None}
      BY <1>1
<1>3. /\ found' = [found EXCEPT ![w] = f] /\ job' = [job EXCEPT ![w] = Done]
      /\ pc' = [pc EXCEPT ![w] = "groups"] /\ held' = [held EXCEPT ![w] = None]
      /\ UNCHANGED <<tables, rows, up, draft, cur, row, fresh, seen>>
      /\ contested' \subseteq Keys
      BY <1>2, GroupReads DEF Track
<1>4. Done \in Jobs
      BY DEF Done, Jobs
<1>5. TypeOK'
      BY <1>3, <1>4 DEF TypeOK, tables
<1>6. OthersStay(w)
      BY <1>3 DEF OthersStay, TypeOK
<1>7. ForeignKey'
      BY <1>3, ForeignKeyFrame DEF Shape
<1>8. ShapeOf(w)'
  <2>1. ShapeOf(w) /\ pc[w] = "job"
        BY GroupReads DEF Shape
  <2>2. pc'[w] = "groups" /\ job'[w] = Done /\ held'[w] = None /\ found'[w] = f
        BY <1>3 DEF TypeOK
  <2> QED  BY <1>2, <1>3, <2>1, <2>2 DEF ShapeOf, JobShape, Owing, Done
<1> QED  BY <1>5, <1>6, <1>7, <1>8, ShapeFrame

\* The rows that the loop over the policies inserts: for each group those of one policy.
LEMMA GroupDeletes ==
    ASSUME TypeOK, Shape, NEW w \in Workers, GroupDelete(w)
    PROVE  \E new \in SUBSET MirrorRow :
               /\ fresh' = [fresh EXCEPT ![w] = new]
               /\ \A y \in new : \E x \in found[w] :
                      x.group = y.key /\ x.enabled /\ y.attrs = x.attrs
               /\ \A x \in found[w] :
                      (\A z \in found[w] : z.group = x.group => z = x) /\ x.enabled =>
                          [key |-> x.group, attrs |-> x.attrs] \in new
<1> DEFINE groups == {x.group : x \in found[w]}
<1>1. PICK last \in [groups -> found[w]] :
          /\ \A g \in groups : last[g].group = g
          /\ fresh' = [fresh EXCEPT ![w] =
                 {[key |-> g, attrs |-> last[g].attrs] : g \in {h \in groups : last[h].enabled}}]
      BY DEF GroupDelete
<1> DEFINE new == {[key |-> g, attrs |-> last[g].attrs] :
                       g \in {h \in groups : last[h].enabled}}
<1>2. \A x \in found[w] : x \in PolicyRow /\ x.group \in Groups
      BY DEF Shape, ShapeOf, TypeOK, PolicyRow
<1>3. new \in SUBSET MirrorRow
      BY <1>1, <1>2 DEF MirrorRow, Keys, PolicyRow
<1>4. \A y \in new : \E x \in found[w] : x.group = y.key /\ x.enabled /\ y.attrs = x.attrs
      BY <1>1
<1>5. ASSUME NEW x \in found[w], \A z \in found[w] : z.group = x.group => z = x, x.enabled
      PROVE  [key |-> x.group, attrs |-> x.attrs] \in new
  <2>1. x.group \in groups /\ last[x.group] \in found[w] /\ last[x.group].group = x.group
        BY <1>1
  <2>2. last[x.group] = x
        BY <1>5, <2>1
  <2> QED  BY <1>5, <2>1, <2>2
<1> QED  BY <1>1, <1>3, <1>4, <1>5

LEMMA GroupDeleteShape ==
    ASSUME TypeOK, Shape, NEW w \in Workers, GroupDelete(w)
    PROVE  TypeOK' /\ Shape' /\ OthersStay(w)
<1>1. PICK new \in SUBSET MirrorRow :
          /\ fresh' = [fresh EXCEPT ![w] = new]
          /\ \A y \in new : \E x \in found[w] :
                 x.group = y.key /\ x.enabled /\ y.attrs = x.attrs
          /\ \A x \in found[w] :
                 (\A z \in found[w] : z.group = x.group => z = x) /\ x.enabled =>
                     [key |-> x.group, attrs |-> x.attrs] \in new
      BY GroupDeletes
<1>2. /\ seen' = [seen EXCEPT ![w] = {x \in rows : x.key \in {y.group : y \in found[w]}}]
      /\ pc[w] = "groups" /\ pc' = [pc EXCEPT ![w] = "fill"]
      /\ UNCHANGED <<tables, rows, up, draft, job, cur, row, held, found, contested>>
      BY DEF GroupDelete
<1>3. TypeOK'
      BY <1>1, <1>2 DEF TypeOK, tables
<1>4. OthersStay(w)
      BY <1>1, <1>2 DEF OthersStay, TypeOK
<1>5. ForeignKey'
      BY <1>2, ForeignKeyFrame DEF Shape
<1>6. ShapeOf(w)'
  <2>1. ShapeOf(w)
        BY DEF Shape
  <2>2. /\ pc'[w] = "fill" /\ fresh'[w] = new
        /\ seen'[w] = {x \in rows : x.key \in {y.group : y \in found[w]}}
        BY <1>1, <1>2 DEF TypeOK
  <2>3. \A x \in seen'[w] \cup fresh'[w] : \E y \in found[w] : x.key = y.group
        BY <1>1, <2>2
  <2> QED  BY <1>2, <2>1, <2>2, <2>3 DEF ShapeOf
<1> QED  BY <1>3, <1>4, <1>5, <1>6, ShapeFrame

LEMMA GroupCommitShape ==
    ASSUME TypeOK, Shape, NEW w \in Workers, GroupCommit(w)
    PROVE  TypeOK' /\ Shape' /\ OthersStay(w)
<1>1. ShapeOf(w) /\ pc[w] = "fill" /\ Publish(w)
      BY DEF Shape, GroupCommit
<1>2. TypeOK'
      BY <1>1, PublishTypes DEF TypeOK, GroupCommit, Publish, Track, tables
<1>3. OthersStay(w)
      BY <1>1, PublishTypes DEF OthersStay, TypeOK, GroupCommit
<1>4. ForeignKey'
      BY <1>1, ForeignKeyFrame DEF Publish, Shape
<1>5. ShapeOf(w)'
  <2>1. pc'[w] = "idle" /\ found'[w] = {} /\ fresh'[w] = {} /\ seen'[w] = {}
        BY <1>1, PublishTypes DEF GroupCommit, TypeOK
  <2> QED  BY <1>1, <2>1 DEF ShapeOf, GroupCommit
<1> QED  BY <1>2, <1>3, <1>4, <1>5, ShapeFrame

LEMMA ServeShape ==
    ASSUME TypeOK, Shape, Serve
    PROVE  TypeOK' /\ Shape' /\ OthersStay(Boot) /\ Boot \in Workers
<1>1. TypeOK'
      BY DEF TypeOK, Serve, tables, work
<1>2. Boot \in Workers /\ OthersStay(Boot)
      BY DEF OthersStay, Serve, work, Workers
<1>3. ForeignKey'
      BY ForeignKeyFrame DEF Serve, Shape
<1>4. ShapeOf(Boot)'
      BY <1>2 DEF Shape, ShapeOf, Serve, work
<1> QED  BY <1>1, <1>2, <1>3, <1>4, ShapeFrame

LEMMA CrashShape ==
    ASSUME TypeOK, Shape, Crash
    PROVE  TypeOK' /\ Shape'
<1>1. Nothing \in Drafts /\ Done \in Jobs
      BY DEF Nothing, Drafts, Done, Jobs
<1>2. TypeOK'
      BY <1>1 DEF TypeOK, Crash, Track, tables
<1>3. ForeignKey'
      BY ForeignKeyFrame DEF Crash, Shape
<1>4. ASSUME NEW w \in Workers PROVE ShapeOf(w)'
      BY IdleShape DEF Crash
<1> QED  BY <1>2, <1>3, <1>4 DEF Shape

----------------------------------------------------------------------------
(***************************************************************************)
(* The steps in which a worker takes the next endpoint, or finds none.     *)
(***************************************************************************)

\* w goes on owing what it owed.
Keeps(w) == \A n \in Keys : Busy(w, n) => Busy(w, n)'

\* If h is the row that a session holds of the policy of j, it is current for n.
HoldsCurrent(n, j, h) ==
    /\ h # None /\ j.policy # None
    /\ j.policy \in Policies /\ policies[j.policy].group = n /\ policies[j.policy].lab \in j.labs
    => h = policies[j.policy]

Turn(w) ==
    \E j \in Jobs, h \in PolicyRow \cup {None} :
        /\ Keeps(w)
        /\ \A n \in Keys : Current(w, n) => HoldsCurrent(n, j, h)
        /\ \/ Skips(w, j, h)
           \/ \E e \in Endpoints :
                  /\ Takes(w, e, j, h)
                  /\ Current(w, endpoints[e].mac) =>
                         h \in {None, PolicyAt(endpoints[e].policy)}

LEMMA TurnShape ==
    ASSUME TypeOK, Shape, NEW w \in Workers, Turn(w)
    PROVE  TypeOK' /\ Shape' /\ OthersStay(w)
<1>1. PICK j \in Jobs, h \in PolicyRow \cup {None} :
          Skips(w, j, h) \/ \E e \in Endpoints : Takes(w, e, j, h)
      BY DEF Turn
<1>2. CASE Skips(w, j, h)
      BY <1>2, SkipShape
<1>3. CASE \E e \in Endpoints : Takes(w, e, j, h)
      BY <1>3, TakeShape
<1> QED  BY <1>1, <1>2, <1>3

\* What a worker that waits to go on owes.
LEMMA JobBusy ==
    ASSUME TypeOK, Shape, NEW w \in Workers, NEW n \in Keys,
           pc[w] = "job", job[w].mac = None, job[w].group = None
    PROVE  Busy(w, n) <=>
               \/ \E e \in job[w].todo : endpoints[e] # None /\ endpoints[e].mac = n
               \/ /\ job[w].policy # None /\ ~job[w].listed
                  /\ \E e \in UsersOf(job[w].policy) : endpoints[e].mac = n
               \/ /\ job[w].labs # {}
                  /\ \E p \in Policies : policies[p].group = n /\ policies[p].lab \in job[w].labs
<1>1. found[w] = {} /\ n # None
      BY NoneIsNothing DEF Shape, ShapeOf, Keys
<1> QED  BY <1>1 DEF Busy, Purges

\* What a worker that has just read the row of an endpoint owes.
LEMMA TakeBusy ==
    ASSUME TypeOK, NEW w \in Workers, NEW e, NEW j, NEW h, Takes(w, e, j, h), NEW n \in Keys,
           \/ endpoints[e].mac = n
           \/ \E x \in j.todo : endpoints[x] # None /\ endpoints[x].mac = n
           \/ /\ j.labs # {}
              /\ \E p \in Policies : policies[p].group = n /\ policies[p].lab \in j.labs
    PROVE  Busy(w, n)'
<1>1. /\ pc'[w] = "delete" /\ job'[w] = j /\ row'[w] = endpoints[e]
      /\ endpoints' = endpoints /\ policies' = policies
      BY DEF Takes, Take, TypeOK, tables
<1>2. CASE endpoints[e].mac = n
      BY <1>1, <1>2 DEF Busy
<1>3. CASE \E x \in j.todo : endpoints[x] # None /\ endpoints[x].mac = n
      BY <1>1, <1>3 DEF Busy
<1>4. CASE j.labs # {} /\ \E p \in Policies : policies[p].group = n /\ policies[p].lab \in j.labs
      BY <1>1, <1>4 DEF Busy, Policies
<1> QED  BY <1>2, <1>3, <1>4

\* ... and one that found no endpoint.
LEMMA SkipBusy ==
    ASSUME TypeOK, NEW w \in Workers, NEW j, NEW h, Skips(w, j, h), NEW n \in Keys,
           j.labs # {}, \E p \in Policies : policies[p].group = n /\ policies[p].lab \in j.labs
    PROVE  Busy(w, n)'
<1>1. job'[w] = j /\ policies' = policies
      BY SkipSteps DEF Skips, TypeOK, tables
<1> QED  BY <1>1 DEF Busy, Policies

LEMMA SyncReadTurns ==
    ASSUME TypeOK, Shape, NEW w \in Workers, SyncRead(w), ~Raise(w)
    PROVE  Turn(w)
<1>1. PICK e \in job[w].todo :
          /\ endpoints[e] # None /\ UNCHANGED held
          /\ Take(w, e, [job[w] EXCEPT !.todo = @ \ {e}])
      BY DEF SyncRead
<1>2. pc[w] = "job" /\ job[w].mac = None /\ job[w].group = None /\ ShapeOf(w) /\ job[w] \in Jobs
      BY DEF SyncRead, Shape, TypeOK
<1>3. PICK j \in Jobs : j = [job[w] EXCEPT !.todo = @ \ {e}]
      BY <1>2 DEF Jobs
<1>4. /\ JobShape(j) /\ j.mac = None /\ j.group = None /\ j.policy = job[w].policy
      /\ j.listed = job[w].listed /\ j.labs = job[w].labs /\ j.todo = job[w].todo \ {e}
      BY <1>2, <1>3 DEF Jobs, JobShape, ShapeOf
<1>5. e \in Endpoints /\ held[w] = None /\ (j.policy = None \/ j.listed)
      BY <1>1, <1>2, <1>4 DEF Endpoints, TypeOK, Jobs, ShapeOf, JobShape
<1>6. Takes(w, e, j, None)
  <2>1. Take(w, e, j)
        BY <1>1, <1>3 DEF Take
  <2>2. held' = [held EXCEPT ![w] = None]
        BY <1>1, <1>5 DEF TypeOK
  <2> QED  BY <1>2, <1>4, <1>5, <2>1, <2>2 DEF Takes, ShapeOf
<1>7. Keeps(w)
  <2> SUFFICES ASSUME NEW n \in Keys, Busy(w, n) PROVE Busy(w, n)'
      BY DEF Keeps
  <2>1. \/ \E x \in job[w].todo : endpoints[x] # None /\ endpoints[x].mac = n
        \/ /\ job[w].policy # None /\ ~job[w].listed
           /\ \E x \in UsersOf(job[w].policy) : endpoints[x].mac = n
        \/ /\ job[w].labs # {}
           /\ \E p \in Policies : policies[p].group = n /\ policies[p].lab \in job[w].labs
        BY <1>2, JobBusy
  <2>2. \/ endpoints[e].mac = n
        \/ \E x \in j.todo : endpoints[x] # None /\ endpoints[x].mac = n
        \/ /\ j.labs # {}
           /\ \E p \in Policies : policies[p].group = n /\ policies[p].lab \in j.labs
        BY <1>4, <1>5, <2>1
  <2> QED  BY <1>6, <2>2, TakeBusy
<1> QED  BY <1>5, <1>6, <1>7 DEF Turn, HoldsCurrent

LEMMA ListUsersTurns ==
    ASSUME TypeOK, Shape, NEW w \in Workers, ListUsers(w), ~Raise(w)
    PROVE  Turn(w)
<1> DEFINE p == job[w].policy
<1>1. /\ pc[w] = "job" /\ job[w].group = None /\ p # None /\ ~job[w].listed
      /\ held[w] # None \/ policies[p] # None
      /\ held' = [held EXCEPT ![w] = IF @ = None THEN policies[p] ELSE @]
      /\ TakeFirst(w, UsersOf(p), [job[w] EXCEPT !.listed = TRUE])
      BY DEF ListUsers
<1>2. /\ ShapeOf(w) /\ job[w] \in Jobs /\ p \in PolicyIds
      /\ job[w].mac = None /\ job[w].todo = {} /\ job[w].labs # {}
      BY <1>1 DEF Shape, ShapeOf, JobShape, TypeOK, Jobs
<1>3. PICK h \in PolicyRow : h = IF held[w] = None THEN policies[p] ELSE held[w]
      BY <1>1, <1>2 DEF TypeOK
<1>4. held' = [held EXCEPT ![w] = h] /\ h # None
      BY <1>1, <1>3, NoneIsNothing DEF TypeOK
<1>5. found[w] = {} /\ seen[w] = {} /\ fresh[w] = {}
      BY <1>1, <1>2 DEF ShapeOf
<1>6. PICK i \in Jobs : i = [job[w] EXCEPT !.listed = TRUE]
      BY <1>2 DEF Jobs
<1>7. /\ i.mac = None /\ i.group = None /\ i.policy = p /\ i.listed /\ i.todo = {}
      /\ i.labs = job[w].labs
      BY <1>1, <1>2, <1>6 DEF Jobs
<1>8. \A n \in Keys : Busy(w, n) =>
          \/ \E e \in UsersOf(p) : endpoints[e].mac = n
          \/ \E q \in Policies : policies[q].group = n /\ policies[q].lab \in i.labs
      BY <1>1, <1>2, <1>7, JobBusy
<1>9. \A n \in Keys : Current(w, n) => HoldsCurrent(n, i, h)
      BY <1>3, <1>7, <1>1 DEF Current, HeldIsCurrent, HoldsCurrent
<1>10. CASE UsersOf(p) = {} /\ TakeFirst(w, {}, i)
  <2>1. Skips(w, i, h)
        BY <1>2, <1>4, <1>5, <1>7, <1>10 DEF Skips, JobShape
  <2>2. Keeps(w)
        BY <1>2, <1>7, <1>8, <1>10, <2>1, SkipBusy DEF Keeps
  <2> QED  BY <1>9, <2>1, <2>2 DEF Turn
<1>11. CASE \E e \in UsersOf(p) : Take(w, e, [i EXCEPT !.todo = UsersOf(p) \ {e}])
  <2>1. PICK e \in UsersOf(p) : Take(w, e, [i EXCEPT !.todo = UsersOf(p) \ {e}])
        BY <1>11
  <2>2. PICK j \in Jobs : j = [i EXCEPT !.todo = UsersOf(p) \ {e}]
        BY DEF UsersOf, Endpoints, Jobs
  <2>3. /\ j.mac = None /\ j.group = None /\ j.policy = p /\ j.listed
        /\ j.todo = UsersOf(p) \ {e} /\ j.labs = i.labs /\ JobShape(j)
        BY <1>2, <1>7, <2>2 DEF Jobs, JobShape
  <2>4. e \in Endpoints /\ endpoints[e].policy = p
        BY DEF UsersOf
  <2>5. Takes(w, e, j, h)
    <3>1. Take(w, e, j)
          BY <2>1, <2>2 DEF Take
    <3> QED  BY <1>4, <1>5, <2>3, <2>4, <3>1 DEF Takes
  <2>6. Keeps(w)
    <3> SUFFICES ASSUME NEW n \in Keys, Busy(w, n) PROVE Busy(w, n)'
        BY DEF Keeps
    <3>1. \/ endpoints[e].mac = n
          \/ \E x \in j.todo : endpoints[x] # None /\ endpoints[x].mac = n
          \/ /\ j.labs # {}
             /\ \E q \in Policies : policies[q].group = n /\ policies[q].lab \in j.labs
          BY <1>2, <1>7, <1>8, <2>3 DEF UsersOf, Endpoints
    <3> QED  BY <2>5, <3>1, TakeBusy
  <2>7. Current(w, endpoints[e].mac) => h \in {None, PolicyAt(endpoints[e].policy)}
        BY <1>1, <1>3, <2>1, <2>4 DEF Current, HeldIsCurrent, PolicyAt
  <2>8. \A n \in Keys : Current(w, n) => HoldsCurrent(n, j, h)
        BY <1>7, <1>9, <2>3 DEF HoldsCurrent
  <2> QED  BY <2>4, <2>5, <2>6, <2>7, <2>8 DEF Turn
<1>12. TakeFirst(w, UsersOf(p), i)
       BY <1>1, <1>6 DEF TakeFirst, Take
<1> QED  BY <1>10, <1>11, <1>12 DEF TakeFirst

\* A worker that owes nothing is busy with no key.
LEMMA IdleBusy ==
    ASSUME TypeOK, NEW w \in Workers, ShapeOf(w), NEW n \in Keys,
           pc[w] \in {"start", "idle", "draft"}
    PROVE  ~Busy(w, n)
<1>1. ~Owing(job[w]) /\ found[w] = {} /\ n # None
      BY NoneIsNothing DEF ShapeOf, Keys
<1>2. /\ job[w].mac = None /\ job[w].group = None /\ job[w].policy = None
      /\ job[w].todo = {} /\ job[w].labs = {}
      BY <1>1 DEF Owing
<1> QED  BY <1>1, <1>2 DEF Busy, Purges

LEMMA ResyncTurns ==
    ASSUME TypeOK, Shape, NEW w \in Workers, pc[w] \in {"start", "idle"},
           NEW labs \in SUBSET Labs, Resync(w, labs)
    PROVE  Turn(w)
<1> DEFINE users == {e \in Endpoints : endpoints[e].lab \in labs}
<1>1. PICK i \in Jobs : i = [Done EXCEPT !.labs = labs]
      BY DEF Done, Jobs
<1>2. /\ i.mac = None /\ i.group = None /\ i.policy = None /\ i.todo = {} /\ i.labs = labs
      /\ JobShape(i)
      BY <1>1 DEF Done, JobShape
<1>3. /\ found[w] = {} /\ seen[w] = {} /\ fresh[w] = {} /\ held[w] = None /\ ShapeOf(w)
      BY DEF Shape, ShapeOf
<1>4. held' = [held EXCEPT ![w] = None]
      BY <1>3 DEF Resync, TypeOK
<1>5. Keeps(w)
      BY <1>3, IdleBusy DEF Keeps
<1>6. TakeFirst(w, users, i)
      BY <1>1 DEF Resync, TakeFirst, Take
<1>7. CASE users = {} /\ TakeFirst(w, {}, i)
  <2>1. Skips(w, i, None)
        BY <1>2, <1>3, <1>4, <1>7 DEF Skips
  <2> QED  BY <1>2, <1>5, <2>1 DEF Turn, HoldsCurrent
<1>8. CASE \E e \in users : Take(w, e, [i EXCEPT !.todo = users \ {e}])
  <2>1. PICK e \in users : Take(w, e, [i EXCEPT !.todo = users \ {e}])
        BY <1>8
  <2>2. PICK j \in Jobs : j = [i EXCEPT !.todo = users \ {e}]
        BY DEF Endpoints, Jobs
  <2>3. j.mac = None /\ j.group = None /\ j.policy = None /\ JobShape(j)
        BY <1>2, <2>2 DEF Jobs, JobShape
  <2>4. Takes(w, e, j, None)
    <3>1. Take(w, e, j)
          BY <2>1, <2>2 DEF Take
    <3> QED  BY <1>3, <1>4, <2>3, <3>1 DEF Takes
  <2> QED  BY <1>5, <2>3, <2>4 DEF Turn, HoldsCurrent
<1> QED  BY <1>6, <1>7, <1>8 DEF TakeFirst

\* A worker that has refreshed its row, and knows which rows it has to remove, if any.
Refreshed(w) ==
    \E j \in Jobs, h \in PolicyRow \cup {None} :
        /\ pc[w] = "refresh" /\ pc' = [pc EXCEPT ![w] = "job"]
        /\ job' = [job EXCEPT ![w] = j] /\ held' = [held EXCEPT ![w] = h]
        /\ JobShape(j) /\ (h # None => j.todo = {} /\ h = policies[j.policy])
        /\ \A n \in Keys : (Busy(w, n)' <=> Busy(w, n)) /\ (Purges(w, n)' <=> Purges(w, n))
        /\ UNCHANGED <<tables, rows, up, draft, cur, row, found, fresh, seen, contested>>

LEMMA RefreshEndpointTurns ==
    ASSUME TypeOK, Shape, NEW w \in Workers, RefreshEndpoint(w), ~Raise(w)
    PROVE  Turn(w) \/ Refreshed(w)
<1>1. /\ pc[w] = "refresh" /\ ShapeOf(w) /\ job[w] \in Jobs
      /\ job[w].policy = None /\ job[w].group = None /\ job[w].mac # None /\ job[w].labs = {}
      /\ found[w] = {} /\ seen[w] = {} /\ fresh[w] = {} /\ held[w] = None
      BY DEF RefreshEndpoint, Shape, ShapeOf, Refreshes, TypeOK
<1>2. PICK e \in EndpointIds :
          /\ job[w].todo = {e} /\ endpoints[e] # None
          /\ \/ /\ Former(job[w].mac, endpoints[e].mac) = None
                /\ UNCHANGED held
                /\ Take(w, e, Done)
             \/ /\ Former(job[w].mac, endpoints[e].mac) # None
                /\ pc' = [pc EXCEPT ![w] = "job"]
                /\ UNCHANGED <<tables, rows, up, draft, job, work, contested>>
      BY <1>1 DEF RefreshEndpoint, Shape, ShapeOf, Refreshes
<1>3. ASSUME NEW n \in Keys
      PROVE  Busy(w, n) <=> endpoints[e].mac = n \/ job[w].mac = n
      BY <1>1, <1>2, NoneIsNothing DEF Busy, Purges, Kept, PolicyAt, Keys
<1>4. CASE Former(job[w].mac, endpoints[e].mac) = None /\ UNCHANGED held /\ Take(w, e, Done)
  <2>1. PICK j \in Jobs : j = Done
        BY DEF Jobs, Done
  <2>2. /\ j.mac = None /\ j.group = None /\ j.policy = None /\ j.todo = {} /\ j.labs = {}
        /\ JobShape(j)
        BY <2>1 DEF Done, JobShape
  <2>3. Takes(w, e, j, None)
        BY <1>1, <1>2, <1>4, <2>1, <2>2 DEF Takes, TypeOK, Endpoints
  <2>4. endpoints[e].mac = job[w].mac
        BY <1>1, <1>4 DEF Former
  <2>5. Keeps(w)
        BY <1>3, <2>3, <2>4, TakeBusy DEF Keeps
  <2> QED  BY <1>2, <2>2, <2>3, <2>5 DEF Turn, HoldsCurrent, Endpoints
<1>5. CASE /\ Former(job[w].mac, endpoints[e].mac) # None
           /\ pc' = [pc EXCEPT ![w] = "job"]
           /\ UNCHANGED <<tables, rows, up, draft, job, work, contested>>
  <2>1. endpoints[e].mac # job[w].mac
        BY <1>5 DEF Former
  <2>2. pc'[w] = "job" /\ job' = job /\ row' = row /\ found' = found
        /\ endpoints' = endpoints /\ policies' = policies
        BY <1>5 DEF TypeOK, work, tables
  <2>3. ASSUME NEW n \in Keys
        PROVE  /\ Purges(w, n) <=> n = job[w].mac
               /\ Purges(w, n)' <=> n = job[w].mac
        BY <1>1, <1>2, <2>1, <2>2, NoneIsNothing DEF Purges, Kept, PolicyAt, Keys
  <2>4. ASSUME NEW n \in Keys
        PROVE  Busy(w, n)' <=> endpoints[e].mac = n \/ job[w].mac = n
        BY <1>1, <1>2, <2>2, <2>3 DEF Busy
  <2>5. /\ job' = [job EXCEPT ![w] = job[w]] /\ held' = [held EXCEPT ![w] = None]
        /\ JobShape(job[w])
        BY <1>1, <1>5 DEF TypeOK, work, ShapeOf
  <2>6. UNCHANGED <<tables, rows, up, draft, cur, row, found, fresh, seen, contested>>
        BY <1>5 DEF work
  <2> QED  BY <1>1, <1>3, <1>5, <2>3, <2>4, <2>5, <2>6 DEF Refreshed
<1> QED  BY <1>2, <1>4, <1>5

LEMMA RefreshPolicyTurns ==
    ASSUME TypeOK, Shape, NEW w \in Workers, RefreshPolicy(w), ~Raise(w)
    PROVE  Refreshed(w)
<1> DEFINE p == job[w].policy
           now == policies[p]
<1>1. /\ pc[w] = "refresh" /\ ShapeOf(w) /\ job[w] \in Jobs
      /\ p \in PolicyIds /\ p # None /\ now # None
      /\ held' = [held EXCEPT ![w] = now]
      /\ job' = [job EXCEPT ![w].group = Former(@, now.group)]
      /\ pc' = [pc EXCEPT ![w] = "job"]
      /\ UNCHANGED <<tables, rows, up, draft, cur, row, found, fresh, seen, contested>>
      BY DEF RefreshPolicy, Shape, TypeOK, Jobs
<1>2. now \in PolicyRow
      BY <1>1 DEF TypeOK
<1>3. /\ JobShape(job[w]) /\ ~job[w].listed /\ job[w].mac = None /\ job[w].todo = {}
      /\ job[w].labs # {}
      BY <1>1 DEF ShapeOf, Refreshes, JobShape
<1>4. Former(job[w].group, now.group) \in Groups \cup {None}
      BY <1>1 DEF Former, Jobs
<1>5. PICK j \in Jobs : j = [job[w] EXCEPT !.group = Former(@, now.group)]
  <2> HIDE DEF now
  <2> QED  BY <1>1, <1>4 DEF Jobs
<1>6. /\ j.group = Former(job[w].group, now.group) /\ j.mac = None /\ j.policy = p
      /\ ~j.listed /\ j.todo = {} /\ j.labs = job[w].labs /\ JobShape(j)
  <2> HIDE DEF now
  <2> QED  BY <1>3, <1>5 DEF Jobs, JobShape
<1>7. job' = [job EXCEPT ![w] = j] /\ job'[w] = j /\ pc'[w] = "job"
      BY <1>1, <1>5 DEF TypeOK
<1>8. ASSUME NEW n \in Keys PROVE Purges(w, n)' <=> Purges(w, n)
  <2>1. n # None /\ (Kept(w, n) <=> now.group = n)
        BY <1>1, <1>3, NoneIsNothing DEF Kept, PolicyAt, Keys
  <2>2. Purges(w, n) <=> n = job[w].group /\ now.group # n
        BY <1>1, <1>3, <2>1 DEF Purges
  <2>3. Purges(w, n)' <=> n = j.group
        BY <1>6, <1>7, <2>1 DEF Purges
  <2> QED  BY <1>6, <2>1, <2>2, <2>3 DEF Former
<1>9. ASSUME NEW n \in Keys PROVE Busy(w, n)' <=> Busy(w, n)
  <2>1. endpoints' = endpoints /\ policies' = policies /\ row' = row /\ found' = found
        BY <1>1 DEF tables
  <2>2. PICK q \in PolicyIds : q = job[w].policy
        BY <1>1
  <2>3. UsersOf(q)' = UsersOf(q) /\ Policies' = Policies
        BY <2>1 DEF UsersOf, Endpoints, Policies
  <2>4. /\ job'[w].todo = {} /\ job'[w].policy = q /\ ~job'[w].listed /\ pc'[w] = "job"
        /\ job'[w].labs = job[w].labs
        BY <1>6, <1>7, <2>2
  <2>5. Purges(w, n)' <=> Purges(w, n)
        BY <1>8
  <2>6. pc[w] = "refresh" /\ job[w].todo = {} /\ ~job[w].listed
        BY <1>1, <1>3
  <2> HIDE DEF p, now
  <2> QED  BY <2>1, <2>2, <2>3, <2>4, <2>5, <2>6 DEF Busy
<1> QED  BY <1>1, <1>2, <1>6, <1>7, <1>8, <1>9 DEF Refreshed

LEMMA RefreshedShape ==
    ASSUME TypeOK, Shape, NEW w \in Workers, Refreshed(w)
    PROVE  TypeOK' /\ Shape' /\ OthersStay(w)
<1>1. PICK j \in Jobs, h \in PolicyRow \cup {None} :
          /\ pc[w] = "refresh" /\ pc' = [pc EXCEPT ![w] = "job"]
          /\ job' = [job EXCEPT ![w] = j] /\ held' = [held EXCEPT ![w] = h]
          /\ JobShape(j) /\ (h # None => j.todo = {})
          /\ UNCHANGED <<tables, rows, up, draft, cur, row, found, fresh, seen, contested>>
      BY DEF Refreshed
<1>2. TypeOK'
      BY <1>1 DEF TypeOK, tables
<1>3. OthersStay(w)
      BY <1>1 DEF OthersStay, TypeOK
<1>4. ForeignKey'
      BY <1>1, ForeignKeyFrame DEF Shape
<1>5. ShapeOf(w)'
  <2>1. ShapeOf(w) /\ pc'[w] = "job" /\ job'[w] = j /\ held'[w] = h
        BY <1>1 DEF Shape, TypeOK
  <2> QED  BY <1>1, <2>1 DEF ShapeOf
<1> QED  BY <1>2, <1>3, <1>4, <1>5, ShapeFrame

----------------------------------------------------------------------------
(***************************************************************************)
(* The kinds of steps.                                                     *)
(***************************************************************************)
\* The steps of one worker.
StepOf(w) ==
    \/ w \in Requests /\ \E d \in Drafts : Prepare(w, d)
    \/ w \in Requests /\ Committed(w)
    \/ Raise(w) \/ Refreshed(w) \/ PurgeMac(w) \/ PurgeGroup(w) \/ Turn(w)
    \/ SyncDelete(w) \/ SyncRender(w) \/ SyncCommit(w)
    \/ GroupRead(w) /\ ~Raise(w)
    \/ GroupDelete(w) \/ GroupCommit(w)

LEMMA Steps ==
    ASSUME TypeOK, Shape, Next
    PROVE  (\E w \in Workers : StepOf(w)) \/ Serve \/ Crash
<1>1. ASSUME NEW r \in Requests, Check(r) PROVE StepOf(r) /\ r \in Workers
  <2>1. r \in Workers
        BY NoneIsNothing
  <2>2. CASE SyncAll(r)
    <3>1. PICK labs \in {{lab} : lab \in Labs} \cup {Labs} : Resync(r, labs)
          BY <2>2 DEF SyncAll
    <3>2. labs \in SUBSET Labs /\ pc[r] = "idle"
          BY <2>2 DEF SyncAll
    <3>3. Turn(r)
          BY <2>1, <3>1, <3>2, ResyncTurns
    <3> QED  BY <2>1, <3>3 DEF StepOf
  <2>3. CASE ~SyncAll(r)
    <3>1. \E d \in Drafts : Prepare(r, d)
          BY <1>1, <2>3, Checks DEF Check
    <3> QED  BY <2>1, <3>1 DEF StepOf
  <2> QED  BY <2>2, <2>3
<1>2. ASSUME NEW r \in Requests, Commit(r) PROVE StepOf(r) /\ r \in Workers
  <2>1. r \in Workers
        BY NoneIsNothing
  <2>2. Raise(r) \/ Committed(r)
        BY <1>2, CreateCommits, EndpointCommits, EndpointDeletes, NewPolicyCommits,
           PolicyCommits, PolicyDeletes DEF Commit
  <2> QED  BY <2>1, <2>2 DEF StepOf
<1>3. ASSUME NEW w \in Workers, Continue(w) PROVE StepOf(w)
      BY <1>3, RefreshEndpointTurns, RefreshPolicyTurns, ListUsersTurns, SyncReadTurns
         DEF Continue, StepOf
<1>4. ASSUME NEW w \in Workers, Fail(w) PROVE StepOf(w)
      BY <1>4 DEF Fail, StepOf
<1>5. ASSUME Start PROVE StepOf(Boot) /\ Boot \in Workers
  <2>1. Boot \in Workers /\ Labs \in SUBSET Labs /\ pc[Boot] = "start" /\ Resync(Boot, Labs)
        BY <1>5 DEF Start, Workers
  <2>2. Turn(Boot)
        BY <2>1, ResyncTurns
  <2> QED  BY <2>1, <2>2 DEF StepOf
<1> QED  BY <1>1, <1>2, <1>3, <1>4, <1>5 DEF Next

\* What the deletion of a former MAC's or group's rows leaves to do is a job.
LEMMA PurgeJobs ==
    ASSUME TypeOK, Shape, NEW w \in Workers, PurgeMac(w) \/ PurgeGroup(w)
    PROVE  \E n \in Keys, j \in Jobs :
               /\ Purge(w, n, j) /\ pc[w] = "job" /\ Purges(w, n)
               /\ JobShape(j) /\ j.mac = None /\ j.group = None
               /\ j.policy = job[w].policy /\ j.listed = job[w].listed
               /\ j.todo = job[w].todo /\ j.labs = job[w].labs
               /\ j.todo = {} /\ j.labs = {} => ~Owing(j)
               /\ \A m \in Keys : Purges(w, m) => m = n
<1>1. ShapeOf(w) /\ job[w] \in Jobs
      BY DEF Shape, TypeOK
<1>2. CASE PurgeMac(w)
  <2>1. PICK n \in Keys, j \in Jobs : n = job[w].mac /\ j = [job[w] EXCEPT !.mac = None]
        BY <1>1, <1>2 DEF PurgeMac, Jobs, Keys
  <2>2. Purge(w, n, j) /\ pc[w] = "job" /\ job[w].mac # None
        BY <1>2, <2>1 DEF PurgeMac, Purge, Resume, Track
  <2>3. job[w].group = None /\ job[w].policy = None /\ job[w].labs = {}
        BY <1>1, <2>2 DEF ShapeOf, JobShape
  <2>4. /\ j.mac = None /\ j.group = None /\ j.policy = None /\ j.listed = job[w].listed
        /\ j.todo = job[w].todo /\ j.labs = job[w].labs
        BY <1>1, <2>1, <2>3 DEF Jobs
  <2>5. /\ JobShape(j) /\ j.todo = {} /\ j.labs = {} => ~Owing(j)
        BY <2>4 DEF JobShape, Owing
  <2>6. Purges(w, n) /\ \A m \in Keys : Purges(w, m) => m = n
        BY <2>1, <2>2, <2>3, NoneIsNothing DEF Purges, Keys
  <2> QED  BY <2>1, <2>2, <2>3, <2>4, <2>5, <2>6, <1>1, SmallerJob DEF ShapeOf
<1>3. CASE PurgeGroup(w)
  <2>1. PICK n \in Keys, j \in Jobs : n = job[w].group /\ j = [job[w] EXCEPT !.group = None]
        BY <1>1, <1>3 DEF PurgeGroup, Jobs, Keys
  <2>2. Purge(w, n, j) /\ pc[w] = "job" /\ job[w].mac = None
        BY <1>3, <2>1 DEF PurgeGroup, Purge, Resume, Track
  <2>3. /\ j.mac = None /\ j.group = None /\ j.policy = job[w].policy
        /\ j.listed = job[w].listed /\ j.todo = job[w].todo /\ j.labs = job[w].labs
        BY <1>1, <2>1, <2>2 DEF Jobs
  <2>4. JobShape(j)
        BY <1>1, <2>3 DEF ShapeOf, JobShape
  <2>5. j.todo = {} /\ j.labs = {} => ~Owing(j)
        BY <2>3, <2>4 DEF JobShape, Owing
  <2>6. Purges(w, n) /\ \A m \in Keys : Purges(w, m) => m = n
        BY <2>1, <2>2, NoneIsNothing DEF Purges, Keys
  <2> QED  BY <2>1, <2>2, <2>3, <2>4, <2>5, <2>6
<1> QED  BY <1>2, <1>3

LEMMA StepShape ==
    ASSUME TypeOK, Shape, NEW w \in Workers, StepOf(w)
    PROVE  TypeOK' /\ Shape' /\ OthersStay(w)
<1>1. CASE w \in Requests /\ \E d \in Drafts : Prepare(w, d)
      BY <1>1, PrepareShape
<1>2. CASE w \in Requests /\ Committed(w)
      BY <1>2, CommittedShape
<1>3. CASE PurgeMac(w) \/ PurgeGroup(w)
  <2>1. PICK n \in Keys, j \in Jobs :
            /\ Purge(w, n, j) /\ pc[w] = "job" /\ JobShape(j)
            /\ j.todo = {} /\ j.labs = {} => ~Owing(j)
        BY <1>3, PurgeJobs
  <2> QED  BY <2>1, PurgeShape
<1>4. CASE \/ Raise(w) \/ Refreshed(w) \/ Turn(w)
           \/ SyncDelete(w) \/ SyncRender(w) \/ SyncCommit(w)
           \/ (GroupRead(w) /\ ~Raise(w)) \/ GroupDelete(w) \/ GroupCommit(w)
      BY <1>4, RaiseShape, RefreshedShape, TurnShape, SyncDeleteShape, SyncRenderShape, SyncCommitShape,
         GroupReadShape, GroupDeleteShape, GroupCommitShape
<1> QED  BY <1>1, <1>2, <1>3, <1>4 DEF StepOf

\* The first state is well typed.
LEMMA InitShape ==
    ASSUME Init
    PROVE  TypeOK /\ Shape
<1>1. Nothing \in Drafts /\ Done \in Jobs
      BY DEF Nothing, Drafts, Done, Jobs
<1>2. TypeOK
      BY <1>1 DEF TypeOK, Init
<1>3. ForeignKey
      BY DEF Init, ForeignKey, Endpoints
<1>4. \A w \in Workers : ShapeOf(w)
      BY DEF Init, ShapeOf, JobShape, Owing, Done
<1> QED  BY <1>2, <1>3, <1>4 DEF Shape

----------------------------------------------------------------------------
(***************************************************************************)
(* Every step keeps the keys in order that it does not make contested.     *)
(***************************************************************************)

\* A key that is not contested after a step does not clash, and was not contested
\* before, unless the step settles it.
LEMMA Tracked ==
    ASSUME NEW settled, NEW lost, Track(settled, lost), NEW n \in Keys \ contested'
    PROVE  ~Clashing(n)' /\ n \notin lost /\ (n \notin contested \/ n \in settled)
BY DEF Track

\* A worker that has ended is busy with nothing.
LEMMA EndedBusy ==
    ASSUME NEW w \in Workers, pc'[w] \in {"start", "idle", "draft"}, job'[w] = Done, found'[w] = {},
           NEW n \in Keys
    PROVE  ~Busy(w, n)'
<1>1. n # None
      BY NoneIsNothing DEF Keys
<1> QED  BY <1>1 DEF Busy, Purges, Done

\* A step of w that changes neither the tables nor what w owes.
LEMMA QuietStep ==
    ASSUME TypeOK, Shape, AllOrdered, NEW w \in Workers, OthersStay(w),
           UNCHANGED <<tables, rows, contested>>,
           \A n \in Keys : Purges(w, n)' <=> Purges(w, n),
           \A v \in Workers \ {w} : seen'[v] = seen[v],
           \A n \in Keys : Busy(w, n)' <=> Busy(w, n),
           \A n \in Keys : Ordered(n) /\ Busy(w, n) => Current(w, n)'
    PROVE  AllOrdered'
<1> SUFFICES ASSUME NEW n \in Keys \ contested PROVE Ordered(n)'
    BY DEF AllOrdered
<1>1. Ordered(n) /\ Untouched(n) /\ ForeignKey
      BY TablesUntouched DEF AllOrdered, Shape
<1>2. \A v \in Workers : (Busy(v, n)' <=> Busy(v, n)) /\ (Purges(v, n)' <=> Purges(v, n))
  <2> SUFFICES ASSUME NEW v \in Workers, v # w
               PROVE  (Busy(v, n)' <=> Busy(v, n)) /\ (Purges(v, n)' <=> Purges(v, n))
      OBVIOUS
  <2>1. pc'[v] = pc[v] /\ job'[v] = job[v] /\ row'[v] = row[v] /\ found'[v] = found[v]
        BY DEF OthersStay
  <2> QED  BY <1>1, <2>1, BusyFrame
<1>3. Owners(n)' = Owners(n)
      BY DEF Owners, Endpoints, Policies, tables
<1>4. ~Clashing(n)'
      BY <1>1, <1>2, <1>3 DEF Clashing, Ordered
<1>5. RowsOf(n)' = RowsOf(n)
      BY DEF RowsOf
<1>6. \A v \in Workers \ {w} : seen[v] \cap RowsOf(n) \subseteq seen'[v]
      OBVIOUS
<1> QED  BY <1>1, <1>2, <1>4, <1>5, <1>6, OrderedStep

\* A step of a worker that has no row to refresh does not change what it purges.
LEMMA PurgesFrame ==
    ASSUME NEW w \in Workers, job'[w] = job[w], pc[w] # "refresh", pc'[w] # "refresh"
    PROVE  \A n \in Keys : Purges(w, n)' <=> Purges(w, n)
BY DEF Purges

LEMMA PrepareOrdered ==
    ASSUME TypeOK, Shape, AllOrdered, NEW r \in Requests, NEW d \in Drafts, Prepare(r, d),
           OthersStay(r)
    PROVE  AllOrdered'
<1>1. r \in Workers
      BY NoneIsNothing
<1>2. /\ pc[r] = "idle" /\ pc'[r] = "draft" /\ job' = job /\ found' = found /\ row' = row
      /\ seen' = seen /\ UNCHANGED <<tables, rows, contested>>
      BY <1>1 DEF Prepare, TypeOK, work
<1>3. \A n \in Keys : ~Busy(r, n)
      BY <1>1, <1>2, IdleBusy DEF Shape
<1>4. ASSUME NEW n \in Keys PROVE ~Busy(r, n)'
  <2>1. ~Owing(job[r]) /\ found[r] = {} /\ n # None
        BY <1>1, <1>2, NoneIsNothing DEF Shape, ShapeOf, Keys
  <2>2. /\ job'[r].mac = None /\ job'[r].group = None /\ job'[r].policy = None
        /\ job'[r].todo = {} /\ job'[r].labs = {}
        BY <1>2, <2>1 DEF Owing
  <2> QED  BY <1>2, <2>1, <2>2 DEF Busy, Purges
<1>5. \A n \in Keys : Purges(r, n)' <=> Purges(r, n)
      BY <1>1, <1>2, PurgesFrame
<1> QED  BY <1>1, <1>2, <1>3, <1>4, <1>5, QuietStep

\* A worker that rewrites no rows and holds no policy knows nothing out of date.
LEMMA RestIsCurrent ==
    ASSUME NEW w \in Workers, pc'[w] \in {"idle", "job", "refresh"}, held'[w] = None,
           found'[w] = {}, NEW n \in Keys
    PROVE  Current(w, n)'
BY DEF Current, CopyIsCurrent, HeldIsCurrent, FoundIsCurrent, NewIsCurrent, Rewriting

LEMMA RaiseOrdered ==
    ASSUME TypeOK, Shape, AllOrdered, NEW w \in Workers, Raise(w), OthersStay(w)
    PROVE  AllOrdered'
<1> SUFFICES ASSUME NEW n \in Keys \ contested' PROVE Ordered(n)'
    BY DEF AllOrdered
<1>1. /\ Abandon(w) /\ UNCHANGED <<tables, rows>> /\ seen' = [seen EXCEPT ![w] = {}]
      /\ Track({}, {m \in Keys : Busy(w, m)})
      BY DEF Raise
<1>2. ~Clashing(n)' /\ ~Busy(w, n) /\ n \notin contested
      BY <1>1, Tracked
<1>3. Ordered(n) /\ Untouched(n)
      BY <1>1, <1>2, TablesUntouched DEF AllOrdered
<1>4. ~Busy(w, n)'
      BY <1>1, EndedBusy, AbandonTypes
<1>5. RowsOf(n)' = RowsOf(n)
      BY <1>1 DEF RowsOf
<1>6. \A v \in Workers \ {w} : seen[v] \cap RowsOf(n) \subseteq seen'[v]
      BY <1>1 DEF TypeOK
<1> QED  BY <1>2, <1>3, <1>4, <1>5, <1>6, OrderedStep

LEMMA CommittedOrdered ==
    ASSUME TypeOK, Shape, AllOrdered, NEW r \in Requests, Committed(r), OthersStay(r)
    PROVE  AllOrdered'
<1> SUFFICES ASSUME NEW n \in Keys \ contested' PROVE Ordered(n)'
    BY DEF AllOrdered
<1>1. r \in Workers /\ pc[r] = "draft"
      BY NoneIsNothing DEF Committed
<1>2. PICK j \in Jobs, next \in {"job", "refresh"}, lost \in SUBSET Keys :
          Owed(r, j, next, lost)
      BY DEF Committed
<1>3. /\ Owe(r, j, next) /\ Track({}, lost)
      /\ n \notin lost => Untouched(n) \/ Busy(r, n)'
      BY <1>2 DEF Owed
<1>4. ~Clashing(n)' /\ n \notin lost /\ n \notin contested
      BY <1>3, Tracked
<1>5. Ordered(n)
      BY <1>4 DEF AllOrdered
<1>6. /\ pc'[r] \in {"idle", "job", "refresh"} /\ held'[r] = None /\ found'[r] = {}
      /\ rows' = rows /\ seen' = seen
      BY <1>1, <1>3 DEF Owe, TypeOK, Shape, ShapeOf
<1>7. Current(r, n)'
      BY <1>1, <1>6, RestIsCurrent
<1>8. CASE Busy(r, n)'
      BY <1>1, <1>4, <1>7, <1>8, Claimed
<1>9. CASE Untouched(n)
  <2>1. ~Busy(r, n)
        BY <1>1, IdleBusy DEF Shape
  <2>2. RowsOf(n)' = RowsOf(n)
        BY <1>6 DEF RowsOf
  <2>3. \A v \in Workers \ {r} : seen[v] \cap RowsOf(n) \subseteq seen'[v]
        BY <1>6
  <2> QED  BY <1>1, <1>4, <1>5, <1>7, <1>9, <2>1, <2>2, <2>3, OrderedStep
<1> QED  BY <1>3, <1>4, <1>8, <1>9

\* Rows that are the same are mirrored the same.
LEMMA SameRows ==
    ASSUME NEW n \in Keys, RowsOf(n)' = RowsOf(n)
    PROVE  Publishes(n)
<1>1. \A x : (x \in rows' /\ x.key = n) <=> (x \in rows /\ x.key = n)
      BY DEF RowsOf
<1> QED  BY <1>1 DEF Mirrored, Publishes

LEMMA PurgeOrdered ==
    ASSUME TypeOK, Shape, AllOrdered, NEW w \in Workers, PurgeMac(w) \/ PurgeGroup(w),
           OthersStay(w)
    PROVE  AllOrdered' /\ AllPublish
<1> SUFFICES ASSUME NEW n \in Keys \ contested' PROVE Ordered(n)' /\ Publishes(n)
    BY DEF AllOrdered, AllPublish
<1>1. PICK m \in Keys, j \in Jobs :
          /\ Purge(w, m, j) /\ pc[w] = "job" /\ Purges(w, m)
          /\ j.policy = job[w].policy /\ j.listed = job[w].listed
          /\ j.todo = job[w].todo /\ j.labs = job[w].labs
          /\ \A k \in Keys : Purges(w, k) => k = m
      BY PurgeJobs
<1>2. /\ rows' = {x \in rows : x.key # m} /\ Resume(w, j)
      /\ UNCHANGED <<tables, up, draft, cur, row, found, fresh, seen>>
      /\ Track(IF Owners(m) = {} /\ Alone(w, m) THEN {m} ELSE {}, {})
      BY <1>1 DEF Purge
<1>3. /\ ~Clashing(n)'
      /\ n \notin contested \/ (n = m /\ Owners(m) = {} /\ Alone(w, m))
      BY <1>2, Tracked
<1>4. /\ pc'[w] \in {"idle", "job"} /\ job'[w] = j /\ held'[w] = None /\ found'[w] = {}
      /\ found[w] = {}
      BY <1>1, <1>2, ResumeTypes DEF Shape, ShapeOf
<1>5. Current(w, n)'
      BY <1>4, RestIsCurrent
<1>6. ForeignKey /\ Untouched(n)
      BY <1>2, TablesUntouched DEF Shape
<1>7. CASE n = m
  <2>1. Owners(n) = {} /\ \A v \in Workers \ {w} : ~Busy(v, n)
    <3>1. CASE n \notin contested
      <4>1. ~Clashing(n) /\ Purges(w, n) /\ Busy(w, n)
            BY <1>1, <1>7, <3>1 DEF AllOrdered, Ordered, Busy
      <4> QED  BY <4>1 DEF Clashing
    <3>2. CASE n \in contested
          BY <1>3, <1>7, <3>2 DEF Alone
    <3> QED  BY <3>1, <3>2
  <2>2. \A v \in Workers : Current(v, n)'
    <3> SUFFICES ASSUME NEW v \in Workers \ {w} PROVE Current(v, n)'
        BY <1>5
    <3>1. pc'[v] = pc[v] /\ job'[v] = job[v] /\ row'[v] = row[v] /\ found'[v] = found[v]
          BY DEF OthersStay
    <3>2. ~Busy(v, n)'
          BY <1>6, <2>1, <3>1, BusyFrame
    <3> QED  BY <3>2, IdleIsCurrent
  <2>3. Image(n) = {}
        BY <2>1 DEF Image, Owners
  <2>4. Image(n)' = {}
        BY <1>6, <2>3, ImageFrame
  <2>5. Mirrored(n)' = {}
        BY <1>2, <1>7 DEF Mirrored
  <2> QED  BY <1>3, <2>2, <2>4, <2>5 DEF Ordered, Publishes
<1>8. CASE n # m
  <2>1. Ordered(n)
        BY <1>3, <1>8 DEF AllOrdered
  <2>2. RowsOf(n)' = RowsOf(n)
        BY <1>2, <1>8 DEF RowsOf
  <2>3. \A v \in Workers \ {w} : seen[v] \cap RowsOf(n) \subseteq seen'[v]
        BY <1>2
  <2>4. Busy(w, n) => Busy(w, n)'
    <3>1. ~Purges(w, n)
          BY <1>1, <1>8
    <3>2. endpoints' = endpoints /\ policies' = policies
          BY <1>2 DEF tables
    <3> QED  BY <1>1, <1>4, <3>1, <3>2 DEF Busy, UsersOf, Endpoints, Policies
  <2>5. Publishes(n)
        BY <2>2, SameRows
  <2> QED  BY <1>3, <1>5, <1>6, <2>1, <2>2, <2>3, <2>4, <2>5, OrderedStep
<1> QED  BY <1>7, <1>8

\* What a worker knows when it has read the row of an endpoint.
LEMMA TakeCurrent ==
    ASSUME TypeOK, NEW w \in Workers, NEW e, NEW j, NEW h, Takes(w, e, j, h), NEW n \in Keys,
           endpoints[e].mac = n => h \in {None, PolicyAt(endpoints[e].policy)},
           HoldsCurrent(n, j, h)
    PROVE  Current(w, n)'
<1>1. /\ pc'[w] = "delete" /\ job'[w] = j /\ row'[w] = endpoints[e] /\ cur'[w] = e
      /\ held'[w] = h /\ found'[w] = {}
      /\ endpoints' = endpoints /\ policies' = policies
      BY DEF Takes, Take, TypeOK, tables
<1>2. CopyIsCurrent(w, n)'
      BY <1>1 DEF CopyIsCurrent, Rewriting, PolicyAt
<1>3. HeldIsCurrent(w, n)'
      BY <1>1 DEF HeldIsCurrent, HoldsCurrent, Takes, Policies
<1>4. FoundIsCurrent(w, n)' /\ NewIsCurrent(w, n)'
      BY <1>1 DEF FoundIsCurrent, NewIsCurrent
<1> QED  BY <1>2, <1>3, <1>4 DEF Current

LEMMA SkipCurrent ==
    ASSUME TypeOK, NEW w \in Workers, NEW j, NEW h, Skips(w, j, h), NEW n \in Keys,
           HoldsCurrent(n, j, h)
    PROVE  Current(w, n)'
<1>1. /\ job' = [job EXCEPT ![w] = j]
      /\ pc' = [pc EXCEPT ![w] = IF j.labs = {} THEN "idle" ELSE "job"]
      /\ UNCHANGED <<tables, rows, up, draft, cur, row, found, fresh, seen>>
      BY SkipSteps DEF Skips
<1>2. /\ pc'[w] \in {"idle", "job"} /\ job'[w] = j /\ held'[w] = h /\ found'[w] = {}
      /\ policies' = policies
      BY <1>1 DEF Skips, TypeOK, tables
<1>3. CopyIsCurrent(w, n)' /\ FoundIsCurrent(w, n)' /\ NewIsCurrent(w, n)'
      BY <1>2 DEF CopyIsCurrent, FoundIsCurrent, NewIsCurrent, Rewriting
<1>4. HeldIsCurrent(w, n)'
      BY <1>2 DEF HeldIsCurrent, HoldsCurrent, Skips, Policies
<1> QED  BY <1>3, <1>4 DEF Current

LEMMA TurnOrdered ==
    ASSUME TypeOK, Shape, AllOrdered, NEW w \in Workers, Turn(w), OthersStay(w)
    PROVE  AllOrdered'
<1> SUFFICES ASSUME NEW n \in Keys \ contested' PROVE Ordered(n)'
    BY DEF AllOrdered
<1>1. PICK j \in Jobs, h \in PolicyRow \cup {None} :
          /\ Keeps(w)
          /\ \A k \in Keys : Current(w, k) => HoldsCurrent(k, j, h)
          /\ \/ Skips(w, j, h)
             \/ \E e \in Endpoints :
                    /\ Takes(w, e, j, h)
                    /\ Current(w, endpoints[e].mac) =>
                           h \in {None, PolicyAt(endpoints[e].policy)}
      BY DEF Turn
<1>2. ASSUME Ordered(n), ~Clashing(n)', Current(w, n)', UNCHANGED <<tables, rows, seen>>
      PROVE  Ordered(n)'
  <2>1. Untouched(n)
        BY <1>2, TablesUntouched
  <2>2. RowsOf(n)' = RowsOf(n)
        BY <1>2 DEF RowsOf
  <2>3. \A v \in Workers \ {w} : seen[v] \cap RowsOf(n) \subseteq seen'[v]
        BY <1>2
  <2> QED  BY <1>1, <1>2, <2>1, <2>2, <2>3, OrderedStep DEF Keeps
<1>3. CASE Skips(w, j, h)
  <2>1. Track({}, {}) /\ UNCHANGED <<tables, rows, seen>>
        BY <1>3, SkipSteps DEF Skips
  <2>2. ~Clashing(n)' /\ n \notin contested
        BY <2>1, Tracked
  <2>3. Ordered(n) /\ Current(w, n)
        BY <2>2 DEF AllOrdered, Ordered
  <2>4. Current(w, n)'
        BY <1>1, <1>3, <2>3, SkipCurrent
  <2> QED  BY <1>2, <2>1, <2>2, <2>3, <2>4
<1>4. CASE \E e \in Endpoints :
               /\ Takes(w, e, j, h)
               /\ Current(w, endpoints[e].mac) => h \in {None, PolicyAt(endpoints[e].policy)}
  <2> PICK e \in Endpoints :
          /\ Takes(w, e, j, h)
          /\ Current(w, endpoints[e].mac) => h \in {None, PolicyAt(endpoints[e].policy)}
      BY <1>4
  <2> DEFINE settled == {k \in {endpoints[e].mac} :
                            Owners(k) = {e} /\ Alone(w, k)
                                /\ held'[w] \in {None, PolicyAt(endpoints[e].policy)}}
  <2>1. /\ Track(settled, {})
        /\ UNCHANGED <<tables, rows, seen>>
        BY DEF Takes, Take
  <2>2. ~Clashing(n)' /\ (n \notin contested \/ n \in settled)
    <3> HIDE DEF settled
    <3> QED  BY <2>1, Tracked
  <2>3. CASE n \notin contested
    <3>1. Ordered(n) /\ Current(w, n)
          BY <2>3 DEF AllOrdered, Ordered
    <3>2. Current(w, n)'
          BY <1>1, <3>1, TakeCurrent
    <3> QED  BY <1>2, <2>1, <2>2, <3>1, <3>2
  <2>4. CASE n \in settled
    <3>1. n = endpoints[e].mac /\ h \in {None, PolicyAt(endpoints[e].policy)}
          BY <2>4 DEF Takes, TypeOK
    <3>2. HoldsCurrent(n, j, h)
          BY <3>1, NoneIsNothing DEF HoldsCurrent, TypeOK, Endpoints, Policies, EndpointRow, PolicyRow
    <3>3. Current(w, n)' /\ Busy(w, n)'
          BY <3>1, <3>2, TakeCurrent, TakeBusy
    <3> QED  BY <2>2, <3>3, Claimed
  <2> QED  BY <2>2, <2>3, <2>4
<1> QED  BY <1>1, <1>3, <1>4

\* A MAC belongs to endpoints alone, a group to policies alone.
LEMMA ImageOfMac ==
    ASSUME TypeOK, NEW n \in Macs
    PROVE  Image(n) = {Wanted(e) : e \in {x \in Endpoints : endpoints[x].mac = n
                                                               /\ endpoints[x].enabled}}
<1>1. \A p \in Policies : policies[p].group # n
      BY NoneIsNothing DEF TypeOK, Policies, PolicyRow
<1> QED  BY <1>1 DEF Image

LEMMA ImageOfGroup ==
    ASSUME TypeOK, NEW n \in Groups
    PROVE  Image(n) = {policies[p].attrs : p \in {x \in Policies : policies[x].group = n
                                                               /\ policies[x].enabled}}
<1>1. \A e \in Endpoints : endpoints[e].mac # n
      BY NoneIsNothing DEF TypeOK, Endpoints, EndpointRow
<1> QED  BY <1>1 DEF Image

\* The endpoint that a worker rewrites is the only owner of its MAC.
LEMMA RewritesOwner ==
    ASSUME TypeOK, Shape, NEW w \in Workers, NEW n \in Keys, Ordered(n), Rewriting(w, n)
    PROVE  /\ n \in Macs /\ row[w] \in EndpointRow /\ cur[w] \in Endpoints
           /\ endpoints[cur[w]] = row[w] /\ held[w] \in {None, PolicyAt(row[w].policy)}
           /\ {x \in Endpoints : endpoints[x].mac = n /\ endpoints[x].enabled}
                  = IF row[w].enabled THEN {cur[w]} ELSE {}
<1>1. /\ row[w] \in EndpointRow /\ cur[w] \in EndpointIds /\ row[w] # None /\ row[w].mac = n
      BY DEF Rewriting, Shape, ShapeOf, TypeOK
<1>2. endpoints[cur[w]] = row[w] /\ held[w] \in {None, PolicyAt(row[w].policy)}
      BY DEF Ordered, Current, CopyIsCurrent
<1>3. n \in Macs /\ cur[w] \in Endpoints
      BY <1>1, <1>2 DEF Endpoints, EndpointRow
<1>4. cur[w] \in Owners(n)
      BY <1>1, <1>2, <1>3 DEF Owners
<1>5. \A x \in Endpoints : endpoints[x].mac = n => x = cur[w]
      BY <1>4 DEF Ordered, Clashing, Owners
<1> QED  BY <1>1, <1>2, <1>3, <1>5

LEMMA SyncDeleteOrdered ==
    ASSUME TypeOK, Shape, AllOrdered, NEW w \in Workers, SyncDelete(w), OthersStay(w)
    PROVE  AllOrdered'
<1>1. /\ pc[w] = "delete" /\ pc'[w] = IF row[w].enabled THEN "render" ELSE "write"
      /\ seen'[w] = {x \in rows : x.key = row[w].mac}
      /\ \A v \in Workers \ {w} : seen'[v] = seen[v]
      /\ UNCHANGED <<tables, rows, up, draft, job, cur, row, held, found, fresh, contested>>
      BY DEF SyncDelete, TypeOK
<1>2. ASSUME NEW n \in Keys PROVE Busy(w, n)' <=> Busy(w, n)
      BY <1>1 DEF Busy, Purges, UsersOf, Endpoints, Policies, tables
<1>3. ASSUME NEW n \in Keys, Ordered(n), Busy(w, n) PROVE Current(w, n)'
  <2>1. Current(w, n)
        BY <1>3 DEF Ordered
  <2>2. Rewriting(w, n)' <=> Rewriting(w, n)
        BY <1>1 DEF Rewriting
  <2>3. CopyIsCurrent(w, n)' /\ HeldIsCurrent(w, n)' /\ FoundIsCurrent(w, n)'
    <3>1. CopyIsCurrent(w, n)'
          BY <1>1, <2>1, <2>2 DEF Current, CopyIsCurrent, PolicyAt, tables
    <3>2. HeldIsCurrent(w, n)'
          BY <1>1, <2>1 DEF Current, HeldIsCurrent, UsersOf, Endpoints, Policies, tables
    <3>3. FoundIsCurrent(w, n)'
          BY <1>1, <2>1 DEF Current, FoundIsCurrent, Policies, tables
    <3> QED  BY <3>1, <3>2, <3>3
  <2>4. ASSUME Rewriting(w, n) PROVE RowsOf(n)' \subseteq seen'[w]
        BY <1>1, <2>4 DEF RowsOf, Rewriting
  <2>5. ASSUME Rewriting(w, n), ~row[w].enabled PROVE New(w, n)' = Image(n)'
    <3>1. n \in Macs /\ {x \in Endpoints : endpoints[x].mac = n /\ endpoints[x].enabled} = {}
          BY <1>3, <2>5, RewritesOwner
    <3>2. Image(n) = {}
          BY <3>1, ImageOfMac
    <3>3. Image(n)' = {}
          BY <1>1, <3>2, ImageFrame, TablesUntouched DEF Shape
    <3>4. fresh[w] = {}
          BY <1>1 DEF Shape, ShapeOf
    <3> QED  BY <1>1, <3>3, <3>4 DEF New
  <2>6. NewIsCurrent(w, n)'
        BY <1>1, <2>2, <2>4, <2>5 DEF NewIsCurrent
  <2> QED  BY <2>3, <2>6 DEF Current
<1>4. \A n \in Keys : Purges(w, n)' <=> Purges(w, n)
      BY <1>1, PurgesFrame
<1> QED  BY <1>1, <1>2, <1>3, <1>4, QuietStep

LEMMA SyncRenderOrdered ==
    ASSUME TypeOK, Shape, AllOrdered, NEW w \in Workers, SyncRender(w), OthersStay(w)
    PROVE  AllOrdered'
<1> DEFINE policy == IF held[w] # None THEN held[w] ELSE PolicyAt(row[w].policy)
<1>1. /\ pc[w] = "render" /\ pc'[w] = "write" /\ row[w].enabled
      /\ fresh'[w] = {[key |-> row[w].mac, attrs |-> Rendered(policy)]}
      /\ UNCHANGED <<tables, rows, up, draft, job, cur, row, held, found, seen, contested>>
      BY DEF SyncRender, TypeOK, Shape, ShapeOf
<1>2. ASSUME NEW n \in Keys PROVE Busy(w, n)' <=> Busy(w, n)
      BY <1>1 DEF Busy, Purges, UsersOf, Endpoints, Policies, tables
<1>3. ASSUME NEW n \in Keys, Ordered(n), Busy(w, n) PROVE Current(w, n)'
  <2>1. Current(w, n)
        BY <1>3 DEF Ordered
  <2>2. Rewriting(w, n)' <=> Rewriting(w, n)
        BY <1>1 DEF Rewriting
  <2>3. CopyIsCurrent(w, n)' /\ HeldIsCurrent(w, n)' /\ FoundIsCurrent(w, n)'
    <3>1. CopyIsCurrent(w, n)'
          BY <1>1, <2>1, <2>2 DEF Current, CopyIsCurrent, PolicyAt, tables
    <3>2. HeldIsCurrent(w, n)'
          BY <1>1, <2>1 DEF Current, HeldIsCurrent, UsersOf, Endpoints, Policies, tables
    <3>3. FoundIsCurrent(w, n)'
          BY <1>1, <2>1 DEF Current, FoundIsCurrent, Policies, tables
    <3> QED  BY <3>1, <3>2, <3>3
  <2>4. ASSUME Rewriting(w, n) PROVE RowsOf(n)' \subseteq seen'[w]
        BY <1>1, <2>1, <2>4 DEF RowsOf, Current, NewIsCurrent
  <2>5. ASSUME Rewriting(w, n) PROVE New(w, n)' = Image(n)'
    <3>1. /\ n \in Macs /\ cur[w] \in Endpoints /\ endpoints[cur[w]] = row[w]
          /\ held[w] \in {None, PolicyAt(row[w].policy)}
          /\ {x \in Endpoints : endpoints[x].mac = n /\ endpoints[x].enabled} = {cur[w]}
          BY <1>1, <1>3, <2>5, RewritesOwner
    <3>2. Image(n) = {Wanted(cur[w])}
          BY <3>1, ImageOfMac
    <3>3. policy = PolicyAt(endpoints[cur[w]].policy)
          BY <3>1
    <3>4. Rendered(policy) = Wanted(cur[w])
          BY <3>3 DEF Rendered, Wanted
    <3>5. New(w, n)' = {Rendered(policy)}
      <4>1. fresh'[w] = {[key |-> n, attrs |-> Rendered(policy)]}
            BY <1>1, <2>5 DEF Rewriting
      <4> HIDE DEF policy
      <4>2. \A b : b \in New(w, n)' <=> \E y \in fresh'[w] : y.key = n /\ b = y.attrs
            BY DEF New
      <4>3. \A b : b \in New(w, n)' <=> b = Rendered(policy)
            BY <4>1, <4>2
      <4> QED  BY <4>3
    <3>6. Image(n)' = Image(n)
          BY <1>1, ImageFrame, TablesUntouched DEF Shape
    <3> QED  BY <3>2, <3>4, <3>5, <3>6
  <2>6. NewIsCurrent(w, n)'
        BY <1>1, <2>2, <2>4, <2>5 DEF NewIsCurrent
  <2> QED  BY <2>3, <2>6 DEF Current
<1>4. \A n \in Keys : Purges(w, n)' <=> Purges(w, n)
      BY <1>1, PurgesFrame
<1> QED  BY <1>1, <1>2, <1>3, <1>4, QuietStep

\* A transaction that deletes and inserts no rows of a key leaves them alone, ...
LEMMA PublishesOther ==
    ASSUME TypeOK, NEW w \in Workers, Publish(w), NEW n \in Keys,
           \A x \in seen[w] \cup fresh[w] : x.key # n
    PROVE  /\ RowsOf(n)' = RowsOf(n)
           /\ \A v \in Workers \ {w} : seen[v] \cap RowsOf(n) \subseteq seen'[v]
BY DEF Publish, RowsOf

\* ... and one that deletes all of them makes them those that it inserts.
LEMMA PublishesNew ==
    ASSUME TypeOK, Shape, NEW w \in Workers, Publish(w), NEW n \in Keys,
           RowsOf(n) \subseteq seen[w], New(w, n) = Image(n)
    PROVE  Mirrored(n)' = Image(n)'
<1>1. rows' = (rows \ seen[w]) \cup fresh[w]
      BY DEF Publish
<1>2. \A x : (x \in rows' /\ x.key = n) <=> (x \in fresh[w] /\ x.key = n)
      BY <1>1 DEF RowsOf
<1>3. Mirrored(n)' = New(w, n)
      BY <1>2 DEF Mirrored, New
<1>4. Image(n)' = Image(n)
      BY ImageFrame, TablesUntouched DEF Shape, Publish
<1> QED  BY <1>3, <1>4

LEMMA SyncCommitOrdered ==
    ASSUME TypeOK, Shape, AllOrdered, NEW w \in Workers, SyncCommit(w), OthersStay(w)
    PROVE  AllOrdered' /\ AllPublish
<1> SUFFICES ASSUME NEW n \in Keys \ contested' PROVE Ordered(n)' /\ Publishes(n)
    BY DEF AllOrdered, AllPublish
<1>1. Publish(w) /\ pc[w] = "write" /\ UNCHANGED tables /\ ShapeOf(w)
      BY DEF SyncCommit, Publish, Shape
<1>2. Untouched(n)
      BY <1>1, TablesUntouched
<1>3. CASE Abandon(w) /\ Track({}, {k \in Keys : Busy(w, k)})
  <2>1. ~Clashing(n)' /\ ~Busy(w, n) /\ n \notin contested
        BY <1>3, Tracked
  <2>2. Ordered(n)
        BY <2>1 DEF AllOrdered
  <2>3. ~Busy(w, n)'
        BY <1>3, EndedBusy, AbandonTypes
  <2>4. \A x \in seen[w] \cup fresh[w] : x.key # n
        BY <1>1, <2>1 DEF ShapeOf, Busy
  <2> QED  BY <1>1, <1>2, <2>1, <2>2, <2>3, <2>4, PublishesOther, SameRows, OrderedStep
<1>4. CASE /\ Resume(w, job[w])
           /\ cur' = [cur EXCEPT ![w] = None] /\ row' = [row EXCEPT ![w] = None]
           /\ UNCHANGED <<draft, found>> /\ Track({}, {})
  <2>1. ~Clashing(n)' /\ n \notin contested
        BY <1>4, Tracked
  <2>2. Ordered(n)
        BY <2>1 DEF AllOrdered
  <2>3. PICK j \in Jobs : j = job[w]
        BY DEF TypeOK
  <2>4. Resume(w, j)
        BY <1>4, <2>3 DEF Resume
  <2>5. /\ pc'[w] \in {"idle", "job"} /\ job'[w] = job[w] /\ held'[w] = None
        /\ found[w] = {} /\ found'[w] = {}
        BY <1>1, <1>4, <2>3, <2>4, ResumeTypes DEF ShapeOf
  <2>6. Current(w, n)'
        BY <2>5, RestIsCurrent
  <2>7. CASE Rewriting(w, n)
    <3>1. RowsOf(n) \subseteq seen[w] /\ New(w, n) = Image(n)
          BY <1>1, <2>2, <2>7 DEF Ordered, Current, NewIsCurrent
    <3>2. Mirrored(n)' = Image(n)'
          BY <1>1, <3>1, PublishesNew
    <3>3. Busy(w, n)
          BY <2>7 DEF Busy, Rewriting
    <3> QED  BY <1>2, <2>1, <2>2, <2>6, <3>2, <3>3, OrderedStep DEF Publishes
  <2>8. CASE ~Rewriting(w, n)
    <3>1. \A x \in seen[w] \cup fresh[w] : x.key # n
          BY <1>1, <2>8 DEF ShapeOf, Rewriting
    <3>2. Busy(w, n) => Busy(w, n)'
          BY <1>1, <2>5, <2>8
             DEF Busy, Purges, Rewriting, UsersOf, Endpoints, Policies, tables
    <3> QED  BY <1>1, <1>2, <2>1, <2>2, <2>6, <3>1, <3>2, PublishesOther, SameRows,
               OrderedStep
  <2> QED  BY <2>7, <2>8
<1> QED  BY <1>3, <1>4 DEF SyncCommit

\* What a worker that rewrites groups owes.
LEMMA GroupBusy ==
    ASSUME TypeOK, NEW w \in Workers, ShapeOf(w), NEW n \in Keys, pc[w] \in {"groups", "fill"}
    PROVE  Busy(w, n) <=> \E x \in found[w] : x.group = n
<1>1. ~Owing(job[w]) /\ n # None
      BY NoneIsNothing DEF ShapeOf, Keys
<1>2. /\ job[w].mac = None /\ job[w].group = None /\ job[w].policy = None
      /\ job[w].todo = {} /\ job[w].labs = {}
      BY <1>1 DEF Owing
<1> QED  BY <1>1, <1>2 DEF Busy, Purges

LEMMA GroupReadOrdered ==
    ASSUME TypeOK, Shape, AllOrdered, NEW w \in Workers, GroupRead(w), ~Raise(w),
           OthersStay(w)
    PROVE  AllOrdered'
<1> SUFFICES ASSUME NEW n \in Keys \ contested' PROVE Ordered(n)'
    BY DEF AllOrdered
<1> DEFINE settled == {m \in Groups : Alone(w, m) /\ UpToDate(w, m)}
           lost == {m \in Groups : ~UpToDate(w, m) /\ \E x \in ReadFor(w) : x.group = m}
<1>1. /\ pc[w] = "job" /\ job[w].group = None /\ job[w].todo = {} /\ job[w].labs # {}
      /\ job[w].policy # None => job[w].listed
      /\ found' = [found EXCEPT ![w] = {x \in ReadFor(w) : x.group # None}]
      /\ job' = [job EXCEPT ![w] = Done]
      /\ pc' = [pc EXCEPT ![w] = "groups"]
      /\ held' = [held EXCEPT ![w] = None]
      /\ UNCHANGED <<tables, rows, up, draft, cur, row, fresh, seen>>
      /\ Track(settled, lost)
      BY GroupReads
<1>2. ~Clashing(n)' /\ n \notin lost /\ (n \notin contested \/ n \in settled)
  <2> HIDE DEF settled, lost
  <2> QED  BY <1>1, Tracked
<1>3. /\ pc'[w] = "groups" /\ held'[w] = None
      /\ found'[w] = {x \in ReadFor(w) : x.group # None}
      /\ n # None /\ job[w].mac = None
      BY <1>1, NoneIsNothing DEF TypeOK, Keys, Shape, ShapeOf, JobShape
<1>4. Current(w, n)'
  <2>1. CopyIsCurrent(w, n)' /\ HeldIsCurrent(w, n)' /\ NewIsCurrent(w, n)'
        BY <1>3 DEF CopyIsCurrent, HeldIsCurrent, NewIsCurrent, Rewriting
  <2>2. FoundIsCurrent(w, n)'
    <3> SUFFICES ASSUME NEW x \in ReadFor(w), x.group = n
                 PROVE  \E q \in Policies : policies[q] = x
        BY <1>1, <1>3 DEF FoundIsCurrent, Policies, tables
    <3>1. x \in PolicyRow
          BY DEF ReadFor, TypeOK, Policies
    <3>2. UpToDate(w, n)
          BY <1>2, <1>3, <3>1 DEF PolicyRow
    <3> QED  BY <3>2 DEF UpToDate
  <2> QED  BY <2>1, <2>2 DEF Current
<1>5. CASE n \notin contested
  <2>1. Ordered(n) /\ Current(w, n)
        BY <1>5 DEF AllOrdered, Ordered
  <2>2. ASSUME Busy(w, n) PROVE Busy(w, n)'
    <3>1. PICK p \in Policies : policies[p].group = n /\ policies[p].lab \in job[w].labs
          BY <1>1, <1>3, <2>2, JobBusy
    <3>2. p = job[w].policy /\ held[w] # None => held[w] = policies[p]
          BY <2>1, <3>1, NoneIsNothing DEF Current, HeldIsCurrent, Policies
    <3>3. policies[p] \in ReadFor(w)
          BY <1>3, <3>1, <3>2 DEF ReadFor
    <3> QED  BY <1>3, <3>1, <3>3 DEF Busy
  <2>3. Untouched(n) /\ RowsOf(n)' = RowsOf(n)
        BY <1>1, TablesUntouched DEF RowsOf
  <2>4. \A v \in Workers \ {w} : seen[v] \cap RowsOf(n) \subseteq seen'[v]
        BY <1>1
  <2> QED  BY <1>2, <1>4, <2>1, <2>2, <2>3, <2>4, OrderedStep
<1>6. CASE n \in settled
  <2>1. PICK q \in Policies : {x \in ReadFor(w) : x.group = n} = {policies[q]}
        BY <1>6 DEF UpToDate
  <2>2. policies[q] \in ReadFor(w) /\ policies[q].group = n
        BY <2>1
  <2>3. Busy(w, n)'
        BY <1>3, <2>2 DEF Busy
  <2> QED  BY <1>2, <1>4, <2>3, Claimed
<1> QED  BY <1>2, <1>5, <1>6

LEMMA GroupDeleteOrdered ==
    ASSUME TypeOK, Shape, AllOrdered, NEW w \in Workers, GroupDelete(w), OthersStay(w)
    PROVE  AllOrdered'
<1>1. PICK new \in SUBSET MirrorRow :
          /\ fresh' = [fresh EXCEPT ![w] = new]
          /\ \A y \in new : \E x \in found[w] :
                 x.group = y.key /\ x.enabled /\ y.attrs = x.attrs
          /\ \A x \in found[w] :
                 (\A z \in found[w] : z.group = x.group => z = x) /\ x.enabled =>
                     [key |-> x.group, attrs |-> x.attrs] \in new
      BY GroupDeletes
<1>2. /\ pc[w] = "groups" /\ pc'[w] = "fill" /\ fresh'[w] = new
      /\ seen'[w] = {x \in rows : x.key \in {y.group : y \in found[w]}}
      /\ \A v \in Workers \ {w} : seen'[v] = seen[v]
      /\ UNCHANGED <<tables, rows, up, draft, job, cur, row, held, found, contested>>
      BY <1>1 DEF GroupDelete, TypeOK
<1>3. ASSUME NEW n \in Keys PROVE Busy(w, n)' <=> Busy(w, n)
      BY <1>2 DEF Busy, Purges, UsersOf, Endpoints, Policies, tables
<1>4. ASSUME NEW n \in Keys, Ordered(n), Busy(w, n) PROVE Current(w, n)'
  <2>1. CopyIsCurrent(w, n)'
        BY <1>2 DEF CopyIsCurrent, Rewriting
  <2>2. HeldIsCurrent(w, n)'
        BY <1>2 DEF HeldIsCurrent, Shape, ShapeOf
  <2>3. FoundIsCurrent(w, n)'
        BY <1>2, <1>4 DEF Ordered, Current, FoundIsCurrent, Policies, tables
  <2>4. PICK x \in found[w] : x.group = n
        BY <1>2, <1>4, GroupBusy DEF Shape
  <2>5. RowsOf(n)' \subseteq seen'[w]
        BY <1>2, <2>4 DEF RowsOf
  <2>6. New(w, n)' = Image(n)'
    <3>1. PICK q \in Policies : policies[q] = x
          BY <1>4, <2>4 DEF Ordered, Current, FoundIsCurrent
    <3>2. \A p \in Policies : policies[p].group = n => p = q
          BY <1>4, <2>4, <3>1 DEF Ordered, Clashing, Owners
    <3>3. \A z \in found[w] : z.group = n => z = x
          BY <1>4, <3>1, <3>2 DEF Ordered, Current, FoundIsCurrent
    <3>4. n \in Groups
          BY <2>4, <3>1, NoneIsNothing DEF TypeOK, Policies, PolicyRow, Keys
    <3>5. \A a : a \in Image(n) <=> x.enabled /\ a = x.attrs
      <4>1. {p \in Policies : policies[p].group = n /\ policies[p].enabled}
                = IF x.enabled THEN {q} ELSE {}
            BY <2>4, <3>1, <3>2
      <4>2. Image(n) = IF x.enabled THEN {x.attrs} ELSE {}
            BY <3>1, <3>4, <4>1, ImageOfGroup
      <4> QED  BY <4>2
    <3>6. \A a : a \in New(w, n)' <=> x.enabled /\ a = x.attrs
      <4>1. \A a : a \in New(w, n)' <=> \E y \in new : y.key = n /\ a = y.attrs
            BY <1>2 DEF New
      <4>2. ASSUME NEW y \in new, y.key = n PROVE x.enabled /\ y.attrs = x.attrs
            BY <1>1, <3>3, <4>2
      <4>3. ASSUME x.enabled PROVE \E y \in new : y.key = n /\ x.attrs = y.attrs
        <5>1. [key |-> x.group, attrs |-> x.attrs] \in new
              BY <1>1, <2>4, <3>3, <4>3
        <5> QED  BY <2>4, <5>1
      <4> QED  BY <4>1, <4>2, <4>3
    <3>7. Image(n)' = Image(n)
          BY <1>2, ImageFrame, TablesUntouched DEF Shape
    <3> QED  BY <3>5, <3>6, <3>7
  <2>7. NewIsCurrent(w, n)'
        BY <1>2, <2>5, <2>6 DEF NewIsCurrent, Rewriting
  <2> QED  BY <2>1, <2>2, <2>3, <2>7 DEF Current
<1>5. UNCHANGED <<tables, rows, contested>> /\ \A n \in Keys : Purges(w, n)' <=> Purges(w, n)
      BY <1>2, PurgesFrame
<1> QED  BY <1>2, <1>3, <1>4, <1>5, QuietStep

LEMMA GroupCommitOrdered ==
    ASSUME TypeOK, Shape, AllOrdered, NEW w \in Workers, GroupCommit(w), OthersStay(w)
    PROVE  AllOrdered' /\ AllPublish
<1> SUFFICES ASSUME NEW n \in Keys \ contested' PROVE Ordered(n)' /\ Publishes(n)
    BY DEF AllOrdered, AllPublish
<1>1. /\ Publish(w) /\ pc[w] = "fill" /\ UNCHANGED tables /\ ShapeOf(w)
      /\ pc'[w] = "idle" /\ found'[w] = {} /\ job' = job /\ held' = held
      /\ Track({}, {})
      BY DEF GroupCommit, Publish, Shape, TypeOK
<1>2. ~Clashing(n)' /\ n \notin contested
      BY <1>1, Tracked
<1>3. Ordered(n) /\ Untouched(n)
      BY <1>1, <1>2, TablesUntouched DEF AllOrdered
<1>4. held'[w] = None
      BY <1>1 DEF ShapeOf
<1>5. Current(w, n)'
      BY <1>1, <1>4, RestIsCurrent
<1>6. CASE \E x \in found[w] : x.group = n
  <2>1. RowsOf(n) \subseteq seen[w] /\ New(w, n) = Image(n)
        BY <1>1, <1>3, <1>6 DEF Ordered, Current, NewIsCurrent
  <2>2. Mirrored(n)' = Image(n)'
        BY <1>1, <2>1, PublishesNew
  <2>3. Busy(w, n)
        BY <1>6 DEF Busy
  <2> QED  BY <1>2, <1>3, <1>5, <2>2, <2>3, OrderedStep DEF Publishes
<1>7. CASE ~\E x \in found[w] : x.group = n
  <2>1. ~Busy(w, n)
        BY <1>1, <1>7, GroupBusy
  <2>2. \A x \in seen[w] \cup fresh[w] : x.key # n
        BY <1>1, <1>7 DEF ShapeOf
  <2> QED  BY <1>1, <1>2, <1>3, <1>5, <2>1, <2>2, PublishesOther, SameRows,
             OrderedStep
<1> QED  BY <1>6, <1>7

LEMMA RefreshedOrdered ==
    ASSUME TypeOK, Shape, AllOrdered, NEW w \in Workers, Refreshed(w), OthersStay(w)
    PROVE  AllOrdered'
<1>1. PICK j \in Jobs, h \in PolicyRow \cup {None} :
          /\ pc[w] = "refresh" /\ pc' = [pc EXCEPT ![w] = "job"]
          /\ job' = [job EXCEPT ![w] = j] /\ held' = [held EXCEPT ![w] = h]
          /\ h # None => h = policies[j.policy]
          /\ UNCHANGED <<tables, rows, up, draft, cur, row, found, fresh, seen, contested>>
      BY DEF Refreshed
<1>2. /\ pc'[w] = "job" /\ job'[w] = j /\ held'[w] = h /\ found'[w] = {}
      /\ policies' = policies /\ seen' = seen
      /\ UNCHANGED <<tables, rows, contested>>
      BY <1>1 DEF TypeOK, Shape, ShapeOf, tables
<1>3. ASSUME NEW n \in Keys PROVE Current(w, n)'
  <2>1. CopyIsCurrent(w, n)' /\ FoundIsCurrent(w, n)' /\ NewIsCurrent(w, n)'
        BY <1>2 DEF CopyIsCurrent, FoundIsCurrent, NewIsCurrent, Rewriting
  <2>2. HeldIsCurrent(w, n)'
        BY <1>1, <1>2 DEF HeldIsCurrent
  <2> QED  BY <2>1, <2>2 DEF Current
<1>4. \A n \in Keys : (Busy(w, n)' <=> Busy(w, n)) /\ (Purges(w, n)' <=> Purges(w, n))
      BY DEF Refreshed
<1> QED  BY <1>2, <1>3, <1>4, QuietStep

LEMMA ServeOrdered ==
    ASSUME TypeOK, Shape, AllOrdered, Serve, OthersStay(Boot)
    PROVE  AllOrdered'
<1>1. /\ pc[Boot] = "idle" /\ Boot \in Workers
      /\ UNCHANGED <<tables, rows, pc, draft, job, work, contested>>
      BY DEF Serve, Workers
<1>2. \A n \in Keys : ~Busy(Boot, n)
      BY <1>1, IdleBusy DEF Shape
<1>3. \A n \in Keys : Busy(Boot, n)' <=> Busy(Boot, n)
      BY <1>1 DEF Busy, Purges, UsersOf, Endpoints, Policies, tables, work
<1>4. /\ UNCHANGED <<tables, rows, contested>> /\ seen' = seen
      /\ \A n \in Keys : Purges(Boot, n)' <=> Purges(Boot, n)
      BY <1>1, PurgesFrame DEF work
<1> QED  BY <1>1, <1>2, <1>3, <1>4, QuietStep

LEMMA CrashOrdered ==
    ASSUME TypeOK, Shape, AllOrdered, Crash
    PROVE  AllOrdered'
<1> SUFFICES ASSUME NEW n \in Keys \ contested' PROVE Ordered(n)'
    BY DEF AllOrdered
<1>1. Track({}, {k \in Keys : AnyBusy(k)}) /\ UNCHANGED <<tables, rows>>
      BY DEF Crash
<1>2. ~Clashing(n)' /\ ~AnyBusy(n) /\ n \notin contested
      BY <1>1, Tracked
<1>3. Mirrored(n) = Image(n)
      BY <1>2 DEF AllOrdered, Ordered
<1>4. Mirrored(n)' = Mirrored(n) /\ Image(n)' = Image(n)
  <2>1. Mirrored(n)' = Mirrored(n)
        BY <1>1 DEF Mirrored
  <2> QED  BY <1>1, <2>1, ImageFrame, TablesUntouched DEF Shape
<1>5. ASSUME NEW v \in Workers PROVE Current(v, n)'
  <2>1. ~Busy(v, n)'
        BY EndedBusy DEF Crash
  <2> QED  BY <2>1, IdleIsCurrent
<1> QED  BY <1>2, <1>3, <1>4, <1>5 DEF Ordered

LEMMA StepOrdered ==
    ASSUME TypeOK, Shape, AllOrdered, NEW w \in Workers, StepOf(w)
    PROVE  AllOrdered' /\ AllPublish
<1>1. OthersStay(w)
      BY StepShape
<1>2. CASE PurgeMac(w) \/ PurgeGroup(w) \/ SyncCommit(w) \/ GroupCommit(w)
      BY <1>1, <1>2, PurgeOrdered, SyncCommitOrdered, GroupCommitOrdered
<1>3. ASSUME rows' = rows PROVE AllPublish
      BY <1>3 DEF AllPublish, Publishes, Mirrored
<1>4. CASE w \in Requests /\ \E d \in Drafts : Prepare(w, d)
      BY <1>1, <1>3, <1>4, PrepareOrdered DEF Prepare
<1>5. CASE w \in Requests /\ Committed(w)
      BY <1>1, <1>3, <1>5, CommittedOrdered DEF Committed, Owed, Owe
<1>6. CASE Raise(w) \/ Refreshed(w)
      BY <1>1, <1>3, <1>6, RaiseOrdered, RefreshedOrdered DEF Raise, Refreshed
<1>7. CASE Turn(w)
  <2>1. rows' = rows
        BY <1>7, SkipSteps DEF Turn, Skips, Takes, Take
  <2> QED  BY <1>1, <1>3, <1>7, <2>1, TurnOrdered
<1>8. CASE SyncDelete(w) \/ SyncRender(w) \/ GroupDelete(w)
  <2>1. rows' = rows
        BY <1>8 DEF SyncDelete, SyncRender, GroupDelete
  <2> QED  BY <1>1, <1>3, <1>8, <2>1, SyncDeleteOrdered, SyncRenderOrdered, GroupDeleteOrdered
<1>9. CASE GroupRead(w) /\ ~Raise(w)
      BY <1>1, <1>3, <1>9, GroupReadOrdered, GroupReads
<1> QED  BY <1>2, <1>4, <1>5, <1>6, <1>7, <1>8, <1>9 DEF StepOf

----------------------------------------------------------------------------
Inv == TypeOK /\ Shape /\ AllOrdered

LEMMA InvAtFirst ==
    ASSUME Init
    PROVE  Inv
<1>1. TypeOK /\ Shape
      BY InitShape
<1>2. ASSUME NEW n \in Keys PROVE Ordered(n)
  <2>1. Endpoints = {} /\ Policies = {} /\ n # None
        BY NoneIsNothing DEF Init, Endpoints, Policies, Keys
  <2>2. \A w \in Workers : ~Busy(w, n) /\ ~Purges(w, n)
        BY <2>1 DEF Init, Busy, Purges, Done
  <2>3. ~Clashing(n)
        BY <2>1, <2>2 DEF Clashing, Owners
  <2>4. Mirrored(n) = {} /\ Image(n) = {}
        BY <2>1 DEF Init, Mirrored, Image
  <2>5. \A w \in Workers : Current(w, n)
        BY DEF Init, Current, CopyIsCurrent, HeldIsCurrent, FoundIsCurrent, NewIsCurrent,
               Rewriting
  <2> QED  BY <2>3, <2>4, <2>5 DEF Ordered
<1> QED  BY <1>1, <1>2 DEF Inv, AllOrdered

LEMMA InvStep ==
    ASSUME Inv, [Next]_vars
    PROVE  Inv' /\ AllPublish
<1>1. TypeOK /\ Shape /\ AllOrdered
      BY DEF Inv
<1>2. ASSUME rows' = rows PROVE AllPublish
      BY <1>2 DEF AllPublish, Publishes, Mirrored
<1>3. ASSUME NEW w \in Workers, StepOf(w) PROVE Inv' /\ AllPublish
      BY <1>1, <1>3, StepShape, StepOrdered DEF Inv
<1>4. CASE Serve
      BY <1>1, <1>2, <1>4, ServeShape, ServeOrdered DEF Inv, Serve
<1>5. CASE Crash
      BY <1>1, <1>2, <1>5, CrashShape, CrashOrdered DEF Inv, Crash
<1>6. CASE UNCHANGED vars
  <2>1. (TypeOK /\ Shape)'
        BY <1>1, <1>6
           DEF TypeOK, Shape, ShapeOf, Refreshes, ForeignKey, Endpoints, Policies, vars, tables,
               work
  <2>2. ASSUME NEW n \in Keys PROVE Ordered(n)' = Ordered(n)
        BY <1>6 DEF Ordered, Clashing, AnyBusy, Busy, Purges, Kept, Owners, UsersOf, Current,
               CopyIsCurrent, HeldIsCurrent, FoundIsCurrent, NewIsCurrent, Rewriting, RowsOf,
               New, Mirrored, Image, Wanted, PolicyAt, Endpoints, Policies, vars, tables, work
  <2>3. AllOrdered'
        BY <1>1, <1>6, <2>2 DEF AllOrdered, vars
  <2> QED  BY <1>2, <1>6, <2>1, <2>3 DEF Inv, vars
<1> QED  BY <1>1, <1>3, <1>4, <1>5, <1>6, Steps

----------------------------------------------------------------------------
\* What the tables, the workers and the mirror hold is of its type, in every behaviour.
THEOREM AuthzMirrorTypes == Spec => []TypeOK
<1>1. Init => Inv
      BY InvAtFirst
<1>2. Inv /\ [Next]_vars => Inv'
      BY InvStep
<1>3. Inv => TypeOK
      BY DEF Inv
<1> QED  BY <1>1, <1>2, <1>3, PTL DEF Spec

\* A key whose changes were ordered has, when nobody works on it, the rows that its
\* endpoint's or its own policy renders to.
THEOREM AuthzMirrorSettled == Spec => []Settled
<1>1. Init => Inv
      BY InvAtFirst
<1>2. Inv /\ [Next]_vars => Inv'
      BY InvStep
<1>3. Inv => Settled
      BY DEF Inv, AllOrdered, Ordered, Settled
<1> QED  BY <1>1, <1>2, <1>3, PTL DEF Spec

\* A commit leaves the rows of such a key as they were, or makes them what they should
\* be at that moment.
THEOREM AuthzMirrorPublishesWanted == Spec => PublishesWanted
<1>1. Init => Inv
      BY InvAtFirst
<1>2. Inv /\ [Next]_vars => Inv'
      BY InvStep
<1>3. Inv /\ [Next]_vars =>
          [\A n \in Keys \ contested' : Mirrored(n)' \in {Mirrored(n), Image(n)'}]_vars
      BY InvStep DEF AllPublish, Publishes
<1> QED  BY <1>1, <1>2, <1>3, PTL DEF Spec, PublishesWanted

=============================================================================
