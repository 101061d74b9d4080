----------------------------- MODULE AuthzMirror ----------------------------
(***************************************************************************)
(* How MAB endpoints and authorization policies reach FreeRADIUS.          *)
(*                                                                         *)
(* An endpoint (a MAC address) may refer to a policy of its lab, and a     *)
(* policy may be bound to a user group.  FreeRADIUS reads rows keyed by    *)
(* the spellings of a MAC (radcheck, radreply) and by group name           *)
(* (radgroupreply, radgroupcheck).  So one change of a policy rewrites the *)
(* rows of its group and of every endpoint that refers to it, and the rows *)
(* of an endpoint are computed from two control-plane rows.                *)
(*                                                                         *)
(* A handler loads and checks, commits its change, and then works off what *)
(* it owes, transaction by transaction and always in this order: refresh   *)
(* the row that it changed, delete the rows of the MAC that the row had    *)
(* and no longer has, those of such a group, list the endpoints of the     *)
(* policy, rewrite endpoints, rewrite the groups of the lab.  The          *)
(* record job[w] is what worker w still owes.  Requests overlap in the     *)
(* thread pool at READ COMMITTED, as in UserMirror.                        *)
(*                                                                         *)
(* Abstractions.  A policy's reply attributes and check items are one      *)
(* value; all spellings of a MAC are rewritten in one transaction and are  *)
(* one row.  Rows are sets of contents: a DELETE of rows it saw does not   *)
(* remove an equal row that another transaction commits later.             *)
(***************************************************************************)
EXTENDS Naturals, FiniteSets, Functions

CONSTANTS
    EndpointIds, PolicyIds, \* primary keys
    Labs, Macs, Groups,
    Attrs,      \* what a policy renders to
    NoAttrs,    \* nothing rendered
    Requests,   \* thread-pool slots that serve API requests
    Boot,       \* the start-up task of the API process
    None,       \* NULL, or "no such row"
    MaxBatch    \* bound: endpoints one bulk request creates

Workers == Requests \cup {Boot}

EndpointRow ==
    [lab: Labs, mac: Macs, policy: PolicyIds \cup {None}, enabled: BOOLEAN]

PolicyRow ==
    [lab: Labs, group: Groups \cup {None}, attrs: Attrs, enabled: BOOLEAN]

ASSUME AuthzAssumption ==
    /\ Boot \notin Requests
    /\ Macs \cap Groups = {}
    /\ None \notin EndpointIds \cup PolicyIds \cup Macs \cup Groups \cup EndpointRow \cup PolicyRow
    /\ NoAttrs \notin Attrs
    /\ MaxBatch \in Nat

\* Keys of the mirror: user names that are MACs, and group names.
Keys == Macs \cup Groups

MirrorRow == [key: Keys, attrs: Attrs \cup {NoAttrs}]

\* The columns in which new differs from old, with the values that an UPDATE gives
\* them.
Changed(old, new) == [c \in {d \in DOMAIN old : new[d] # old[d]} |-> new[c]]

Changes(Row) == {Changed(old, new) : old, new \in Row}

\* What a handler has read, and is about to write, before it commits.
Drafts ==
    [what: {"nothing"}]
    \cup [what: {"create"}, lab: Labs, policy: PolicyIds \cup {None}, free: SUBSET Macs]
    \cup [what: {"endpoint"}, id: EndpointIds, mac: Macs, set: Changes(EndpointRow)]
    \cup [what: {"dropEndpoint"}, id: EndpointIds, mac: Macs]
    \cup [what: {"newPolicy"}, new: PolicyRow]
    \cup [what: {"policy"}, id: PolicyIds, group: Groups \cup {None}, set: Changes(PolicyRow)]
    \cup [what: {"dropPolicy"}, id: PolicyIds, lab: Labs, group: Groups \cup {None},
          users: SUBSET EndpointIds]

Nothing == [what |-> "nothing"]

\* What a handler owes after its commit.
Jobs ==
    [mac: Macs \cup {None}, group: Groups \cup {None}, policy: PolicyIds \cup {None},
     listed: BOOLEAN, todo: SUBSET EndpointIds, labs: SUBSET Labs]

Done == [mac |-> None, group |-> None, policy |-> None, listed |-> FALSE,
         todo |-> {}, labs |-> {}]

VARIABLES
    endpoints,  \* endpoints[e]: the committed row, or None
    policies,   \* policies[p]: the committed row, or None
    rows,       \* the committed rows of the mirror
    up,         \* the API accepts requests
    pc,         \* pc[w]: where worker w is
    draft,      \* draft[w]: what it has read before its commit
    job,        \* job[w]: what it owes
    cur,        \* cur[w]: the endpoint it rewrites
    row,        \* row[w]: its copy of that endpoint's row
    held,       \* held[w]: the policy row its session holds since it refreshed it
    found,      \* found[w]: the policies whose groups it rewrites
    fresh,      \* fresh[w]: the rows it inserts
    seen,       \* seen[w]: the rows that its DELETE found
    contested   \* history: keys for which the code gives no ordering

tables == <<endpoints, policies>>
work == <<cur, row, held, found, fresh, seen>>
vars == <<tables, rows, up, pc, draft, job, work, contested>>

----------------------------------------------------------------------------
Endpoints == {e \in EndpointIds : endpoints[e] # None}

Policies == {p \in PolicyIds : policies[p] # None}

\* The endpoints or policies that a key belongs to.
Owners(n) ==
    {e \in Endpoints : endpoints[e].mac = n} \cup {p \in Policies : policies[p].group = n}

UsersOf(p) == {e \in Endpoints : endpoints[e].policy = p}

PolicyAt(p) == IF p = None THEN None ELSE policies[p]

\* Wrong on purpose (a disabled policy still renders).
Rendered_IgnoresEnabled(x) == IF x = None THEN NoAttrs ELSE x.attrs

\* Wrong on purpose (the policy row itself, not what it renders to).
Rendered_Row(x) == IF x = None \/ ~x.enabled THEN NoAttrs ELSE x

\* _policy_reply_rows and _policy_check_rows of the policy row x.
Rendered(x) == IF x = None \/ ~x.enabled THEN NoAttrs ELSE x.attrs

\* What the control plane says a key should have, and what the mirror has.  A MAC
\* whose endpoint has no policy is accepted and gets no attributes; a group
\* without attributes has no rows.
Wanted(e) ==
    LET p == PolicyAt(endpoints[e].policy)
    IN  IF p # None /\ p.enabled THEN p.attrs ELSE NoAttrs

Image(n) ==
    {Wanted(e) : e \in {x \in Endpoints : endpoints[x].mac = n /\ endpoints[x].enabled}}
    \cup {policies[p].attrs :
              p \in {x \in Policies : policies[x].group = n /\ policies[x].enabled}}

Mirrored(n) == {x.attrs : x \in {y \in rows : y.key = n}}

\* The row that w changed has the key n.
Kept(w, n) ==
    \/ \E e \in job[w].todo : endpoints[e] # None /\ endpoints[e].mac = n
    \/ PolicyAt(job[w].policy) # None /\ PolicyAt(job[w].policy).group = n

\* w is going to remove the rows of n: a former key, or the key that a row had when w
\* read it, if w finds another one when it refreshes the row.
Purges(w, n) ==
    n \in {job[w].mac, job[w].group} /\ (pc[w] = "refresh" => ~Kept(w, n))

\* w still has to rewrite, or is rewriting, the rows of key n.
Busy(w, n) ==
    \/ Purges(w, n)
    \/ \E e \in job[w].todo : endpoints[e] # None /\ endpoints[e].mac = n
    \/ /\ job[w].policy # None /\ ~job[w].listed
       /\ \E e \in UsersOf(job[w].policy) : endpoints[e].mac = n
    \/ /\ job[w].labs # {}
       /\ \E p \in Policies : policies[p].group = n /\ policies[p].lab \in job[w].labs
    \/ pc[w] \in {"delete", "render", "write"} /\ row[w].mac = n
    \/ \E x \in found[w] : x.group = n

Alone(w, n) == \A v \in Workers \ {w} : ~Busy(v, n)

AnyBusy(n) == \E w \in Workers : Busy(w, n)

TypeOK ==
    /\ endpoints \in [EndpointIds -> EndpointRow \cup {None}]
    /\ policies \in [PolicyIds -> PolicyRow \cup {None}]
    /\ rows \subseteq MirrorRow
    /\ up \in BOOLEAN
    /\ pc \in [Workers -> {"start", "idle", "draft", "refresh", "job", "delete", "render",
                           "write", "groups", "fill"}]
    /\ draft \in [Workers -> Drafts]
    /\ job \in [Workers -> Jobs]
    /\ cur \in [Workers -> EndpointIds \cup {None}]
    /\ row \in [Workers -> EndpointRow \cup {None}]
    /\ held \in [Workers -> PolicyRow \cup {None}]
    /\ found \in [Workers -> SUBSET PolicyRow]
    /\ fresh \in [Workers -> SUBSET MirrorRow]
    /\ seen \in [Workers -> SUBSET MirrorRow]
    /\ contested \subseteq Keys

Init ==
    /\ endpoints = [e \in EndpointIds |-> None]
    /\ policies = [p \in PolicyIds |-> None]
    /\ rows = {}
    /\ up = TRUE
    /\ pc = [w \in Workers |-> "idle"]
    /\ draft = [w \in Workers |-> Nothing]
    /\ job = [w \in Workers |-> Done]
    /\ cur = [w \in Workers |-> None]
    /\ row = [w \in Workers |-> None]
    /\ held = [w \in Workers |-> None]
    /\ found = [w \in Workers |-> {}]
    /\ fresh = [w \in Workers |-> {}]
    /\ seen = [w \in Workers |-> {}]
    /\ contested = {}

----------------------------------------------------------------------------
(***************************************************************************)
(* History.  Keys become contested when two workers are busy with them,    *)
(* when they have two owners, when they have one and a handler, which      *)
(* looked before, is going to remove their rows, or when a handler forgets *)
(* them or has read out of date what they should have.                     *)
(***************************************************************************)

\* Two workers are busy with n, two rows own it, or its owner's rows will be removed.
Clashing(n) ==
    \/ \E v, w \in Workers : v # w /\ Busy(v, n) /\ Busy(w, n)
    \/ \E x, y \in Owners(n) : x # y
    \/ Owners(n) # {} /\ \E w \in Workers : Purges(w, n)

\* The step leaves the keys `settled` to one worker that will write what is
\* committed, and the keys `lost` to nobody.
Track(settled, lost) ==
    contested' = {n \in Keys : n \in (contested \ settled) \cup lost \/ Clashing(n)'}

\* The handler of w ends, and what it still owed is forgotten.
Abandon(w) ==
    /\ pc' = [pc EXCEPT ![w] = "idle"]
    /\ draft' = [draft EXCEPT ![w] = Nothing]
    /\ job' = [job EXCEPT ![w] = Done]
    /\ cur' = [cur EXCEPT ![w] = None]
    /\ row' = [row EXCEPT ![w] = None]
    /\ held' = [held EXCEPT ![w] = None]
    /\ found' = [found EXCEPT ![w] = {}]

\* It raises: the transaction is rolled back.
Raise(w) ==
    /\ Abandon(w)
    /\ fresh' = [fresh EXCEPT ![w] = {}]
    /\ seen' = [seen EXCEPT ![w] = {}]
    /\ UNCHANGED <<tables, rows, up>>
    /\ Track({}, {n \in Keys : Busy(w, n)})

\* Wrong on purpose (new rows are inserted beside the former ones).
Publish_Beside(w) ==
    /\ rows' = rows \cup fresh[w]
    /\ fresh' = [fresh EXCEPT ![w] = {}]
    /\ seen' = [v \in Workers |-> IF v = w THEN {} ELSE seen[v] \ fresh[w]]
    /\ UNCHANGED <<tables, up>>

\* The transaction of w commits: the rows its DELETE saw make room for those it
\* inserts, which no DELETE under way has seen.
Publish(w) ==
    /\ rows' = (rows \ seen[w]) \cup fresh[w]
    /\ fresh' = [fresh EXCEPT ![w] = {}]
    /\ seen' = [v \in Workers |-> IF v = w THEN {} ELSE seen[v] \ fresh[w]]
    /\ UNCHANGED <<tables, up>>

----------------------------------------------------------------------------
(***************************************************************************)
(* The transaction that changes the control plane.  Ids are never reused:  *)
(* a new row takes an id that no handler at work has seen.                 *)
(***************************************************************************)

NewEndpointIds ==
    {e \in EndpointIds \ Endpoints :
        \A w \in Workers :
            /\ e \notin job[w].todo /\ cur[w] # e
            /\ draft[w].what \in {"endpoint", "dropEndpoint"} => draft[w].id # e
            /\ draft[w].what = "dropPolicy" => e \notin draft[w].users}

NewPolicyIds ==
    {p \in PolicyIds \ Policies :
        \A w \in Workers :
            /\ job[w].policy # p
            /\ row[w] # None => row[w].policy # p
            /\ draft[w].what \in {"policy", "dropPolicy"} => draft[w].id # p
            /\ draft[w].what = "create" => draft[w].policy # p
            /\ draft[w].what = "endpoint" /\ "policy" \in DOMAIN draft[w].set =>
                   draft[w].set.policy # p}

\* _validate_policy.
ValidPolicies(lab) == {None} \cup {p \in Policies : policies[p].lab = lab}

TakenMacs(lab) == {endpoints[e].mac : e \in {x \in Endpoints : endpoints[x].lab = lab}}

\* _validate_group_is_free: no other policy of this lab has the group.
GroupIsFree(lab, g, id) ==
    g # None => \A p \in Policies \ {id} : ~(policies[p].lab = lab /\ policies[p].group = g)

\* Wrong on purpose (the rows under the former key are kept).
Former_Kept(old, new) == None

\* The MAC or group whose rows a change of old to new makes obsolete.
Former(old, new) == IF new = old THEN None ELSE old

Prepare(r, d) ==
    /\ up /\ pc[r] = "idle"
    /\ draft' = [draft EXCEPT ![r] = d]
    /\ pc' = [pc EXCEPT ![r] = "draft"]
    /\ UNCHANGED <<tables, rows, up, job, work, contested>>

\* create_endpoint, bulk_create_endpoints and generate_endpoints check the policy
\* and which MACs the lab has already.
CreateRead(r) ==
    \E lab \in Labs : \E p \in ValidPolicies(lab) :
        Prepare(r, [what |-> "create", lab |-> lab, policy |-> p,
                    free |-> Macs \ TakenMacs(lab)])

\* The row that an UPDATE writes: columns its session did not change are as they are
\* in the table then.
Merged(set, now) ==
    [c \in DOMAIN now |-> IF c \in DOMAIN set THEN set[c] ELSE now[c]]

\* update_endpoint, up to its commit.  The request names any columns.
EndpointCheck(r) ==
    \E e \in Endpoints, mac \in Macs, enabled \in BOOLEAN :
        LET old == endpoints[e] IN
        /\ mac = old.mac \/ mac \notin TakenMacs(old.lab)
        /\ \E p \in ValidPolicies(old.lab) \cup {old.policy} :
               LET new == [old EXCEPT !.mac = mac, !.policy = p, !.enabled = enabled]
               IN  Prepare(r, [what |-> "endpoint", id |-> e, mac |-> old.mac,
                               set |-> Changed(old, new)])

EndpointLoad(r) ==
    \E e \in Endpoints :
        Prepare(r, [what |-> "dropEndpoint", id |-> e, mac |-> endpoints[e].mac])

\* create_policy, up to its commit.
NewPolicyCheck(r) ==
    \E new \in PolicyRow :
        /\ GroupIsFree(new.lab, new.group, None)
        /\ Prepare(r, [what |-> "newPolicy", new |-> new])

\* update_policy, up to its commit.
PolicyCheck(r) ==
    \E p \in Policies : \E new \in {x \in PolicyRow : x.lab = policies[p].lab} :
        LET old == policies[p] IN
        /\ new.group = old.group \/ GroupIsFree(old.lab, new.group, p)
        /\ Prepare(r, [what |-> "policy", id |-> p, group |-> old.group,
                       set |-> Changed(old, new)])

PolicyLoad(r) ==
    \E p \in Policies :
        Prepare(r, [what |-> "dropPolicy", id |-> p, lab |-> policies[p].lab,
                    group |-> policies[p].group, users |-> UsersOf(p)])

\* The handler has committed, owes j and goes on at `next`.
Owe(w, j, next) ==
    /\ draft' = [draft EXCEPT ![w] = Nothing]
    /\ job' = [job EXCEPT ![w] = j]
    /\ pc' = [pc EXCEPT ![w] = IF j = Done THEN "idle" ELSE next]
    /\ UNCHANGED <<rows, up, cur, row, held, found, fresh, seen>>

CreateCommit(r) ==
    /\ pc[r] = "draft" /\ draft[r].what = "create"
    /\ LET d == draft[r] IN
       \/ /\ d.policy # None /\ policies[d.policy] = None
          /\ Raise(r)
       \/ /\ d.policy # None => policies[d.policy] # None
          /\ \E new \in SUBSET NewEndpointIds, enabled \in BOOLEAN :
                 /\ Cardinality(new) <= MaxBatch
                 /\ \E mac \in Injection(new, d.free) :
                        endpoints' = [e \in EndpointIds |->
                            IF e \in new
                            THEN [lab |-> d.lab, mac |-> mac[e], policy |-> d.policy,
                                  enabled |-> enabled]
                            ELSE endpoints[e]]
                 /\ Owe(r, [Done EXCEPT !.todo = new], "job")
          /\ UNCHANGED policies
          /\ Track({}, {})

\* The UPDATE of update_endpoint; the row, or the policy it shall refer to, may be
\* gone.
EndpointCommit(r) ==
    /\ pc[r] = "draft" /\ draft[r].what = "endpoint"
    /\ LET d == draft[r]
           now == endpoints[d.id]
           new == Merged(d.set, now)
           dangling == now # None /\ new.policy # None /\ policies[new.policy] = None
       IN
       \/ /\ now = None \/ dangling
          /\ Raise(r)
       \/ /\ now # None /\ ~dangling
          /\ endpoints' = [endpoints EXCEPT ![d.id] = new]
          /\ Owe(r, [Done EXCEPT !.mac = d.mac, !.todo = {d.id}], "refresh")
          /\ UNCHANGED policies
          /\ Track({}, {now.mac} \ {d.mac, new.mac})

\* delete_endpoint; a DELETE of a row that is gone is no error.
EndpointDelete(r) ==
    /\ pc[r] = "draft" /\ draft[r].what = "dropEndpoint"
    /\ LET d == draft[r]
           now == endpoints[d.id]
       IN
       /\ endpoints' = [endpoints EXCEPT ![d.id] = None]
       /\ Owe(r, [Done EXCEPT !.mac = d.mac], "job")
       /\ UNCHANGED policies
       /\ Track({}, IF now = None THEN {} ELSE {now.mac} \ {d.mac})

\* Wrong on purpose (a policy change does not reach the endpoints that use it).
PolicyJob_ListsNobody(p, group, lab) ==
    [Done EXCEPT !.group = group, !.policy = p, !.listed = TRUE, !.labs = {lab}]

\* What create_policy and update_policy owe: _resync, after the group that the policy
\* had, if it is a former one.
PolicyJob(p, group, lab) ==
    [Done EXCEPT !.group = group, !.policy = p, !.labs = {lab}]

NewPolicyCommit(r) ==
    /\ pc[r] = "draft" /\ draft[r].what = "newPolicy"
    /\ \E p \in NewPolicyIds :
           LET new == draft[r].new IN
           /\ policies' = [policies EXCEPT ![p] = new]
           /\ Owe(r, PolicyJob(p, None, new.lab), "refresh")
    /\ UNCHANGED endpoints
    /\ Track({}, {})

PolicyCommit(r) ==
    /\ pc[r] = "draft" /\ draft[r].what = "policy"
    /\ LET d == draft[r]
           now == policies[d.id]
           new == Merged(d.set, now)
       IN
       \/ /\ now = None
          /\ Raise(r)
       \/ /\ now # None
          /\ policies' = [policies EXCEPT ![d.id] = new]
          /\ Owe(r, PolicyJob(d.id, d.group, new.lab), "refresh")
          /\ UNCHANGED endpoints
          /\ Track({}, {now.group} \ {None, d.group, new.group})

\* delete_policy detaches the endpoints it listed.  An endpoint that came to refer
\* to the policy since violates the foreign key; of one that is gone the UPDATE
\* fails, if it is alone in its batch.
PolicyDelete(r) ==
    /\ pc[r] = "draft" /\ draft[r].what = "dropPolicy"
    /\ LET d == draft[r]
           now == policies[d.id]
           stray == UsersOf(d.id) \ d.users
           gone == d.users \ Endpoints
       IN
       \/ /\ stray # {} \/ gone # {}
          /\ Raise(r)
       \/ /\ stray = {}
          /\ gone # {} => Cardinality(d.users) > 1
          /\ endpoints' = [e \in EndpointIds |->
                 IF e \in d.users \ gone THEN [endpoints[e] EXCEPT !.policy = None]
                 ELSE endpoints[e]]
          /\ policies' = [policies EXCEPT ![d.id] = None]
          /\ Owe(r, [Done EXCEPT !.group = d.group, !.todo = d.users, !.labs = {d.lab}],
                 "job")
          /\ Track({}, IF now = None THEN {} ELSE {now.group} \ {None, d.group})

----------------------------------------------------------------------------
(***************************************************************************)
(* What a handler owes after its commit, in this order.                    *)
(***************************************************************************)

\* w goes on with the rest j of its job, or ends.
Resume(w, j) ==
    /\ job' = [job EXCEPT ![w] = j]
    /\ pc' = [pc EXCEPT ![w] = IF j.todo = {} /\ j.labs = {} THEN "idle" ELSE "job"]
    /\ held' = [held EXCEPT ![w] = None]

Purge(w, n, j) ==
    /\ rows' = {x \in rows : x.key # n}
    /\ Resume(w, j)
    /\ UNCHANGED <<tables, up, draft, cur, row, found, fresh, seen>>
    /\ Track(IF Owners(n) = {} /\ Alone(w, n) THEN {n} ELSE {}, {})

\* delete_endpoint_from_radius.
PurgeMac(w) ==
    /\ pc[w] = "job" /\ job[w].mac # None
    /\ Purge(w, job[w].mac, [job[w] EXCEPT !.mac = None])

\* delete_group_reply.
PurgeGroup(w) ==
    /\ pc[w] = "job" /\ job[w].mac = None /\ job[w].group # None
    /\ Purge(w, job[w].group, [job[w] EXCEPT !.group = None])

\* w reads the row of endpoint e, and j is what it owes after that.
Take(w, e, j) ==
    /\ cur' = [cur EXCEPT ![w] = e]
    /\ row' = [row EXCEPT ![w] = endpoints[e]]
    /\ job' = [job EXCEPT ![w] = j]
    /\ pc' = [pc EXCEPT ![w] = "delete"]
    /\ UNCHANGED <<tables, rows, up, draft, found, fresh, seen>>
    /\ Track({n \in {endpoints[e].mac} :
                Owners(n) = {e} /\ Alone(w, n)
                    /\ held'[w] \in {None, PolicyAt(endpoints[e].policy)}}, {})

\* db.refresh(endpoint) in update_endpoint: only now the MAC is compared with the former
\* one.  The row is written to the mirror as it was refreshed, unless rows must be
\* deleted first.
RefreshEndpoint(w) ==
    /\ pc[w] = "refresh" /\ job[w].policy = None
    /\ \E e \in job[w].todo :
           \/ /\ endpoints[e] = None
              /\ Raise(w)
           \/ /\ endpoints[e] # None
              /\ Former(job[w].mac, endpoints[e].mac) = None
              /\ UNCHANGED held
              /\ Take(w, e, Done)
           \/ /\ endpoints[e] # None
              /\ Former(job[w].mac, endpoints[e].mac) # None
              /\ pc' = [pc EXCEPT ![w] = "job"]
              /\ UNCHANGED <<tables, rows, up, draft, job, work, contested>>

\* db.refresh(policy) in create_policy and update_policy, and the same for the group.
RefreshPolicy(w) ==
    LET now == policies[job[w].policy] IN
    /\ pc[w] = "refresh" /\ job[w].policy # None
    /\ \/ /\ now = None
          /\ Raise(w)
       \/ /\ now # None
          /\ held' = [held EXCEPT ![w] = now]
          /\ job' = [job EXCEPT ![w].group = Former(@, now.group)]
          /\ pc' = [pc EXCEPT ![w] = "job"]
          /\ UNCHANGED <<tables, rows, up, draft, cur, row, found, fresh, seen, contested>>

\* w has listed `users`; it goes on with the first of them, as it was listed.
TakeFirst(w, users, j) ==
    \/ /\ users = {}
       /\ job' = [job EXCEPT ![w] = j]
       /\ pc' = [pc EXCEPT ![w] = IF j.labs = {} THEN "idle" ELSE "job"]
       /\ UNCHANGED <<tables, rows, up, draft, cur, row, found, fresh, seen>>
       /\ Track({}, {})
    \/ \E e \in users : Take(w, e, [j EXCEPT !.todo = users \ {e}])

\* _resync lists the endpoints of the policy, which it may have to load again.
ListUsers(w) ==
    LET p == job[w].policy IN
    /\ pc[w] = "job" /\ job[w].group = None
    /\ p # None /\ ~job[w].listed
    /\ \/ /\ held[w] = None /\ policies[p] = None
          /\ Raise(w)
       \/ /\ held[w] # None \/ policies[p] # None
          /\ held' = [held EXCEPT ![w] = IF @ = None THEN policies[p] ELSE @]
          /\ TakeFirst(w, UsersOf(p), [job[w] EXCEPT !.listed = TRUE])

\* The reload of an endpoint whose row a commit expired; it may be gone.
SyncRead(w) ==
    /\ pc[w] = "job" /\ job[w].mac = None /\ job[w].group = None
    /\ \E e \in job[w].todo :
           \/ /\ endpoints[e] = None
              /\ Raise(w)
           \/ /\ endpoints[e] # None
              /\ UNCHANGED held
              /\ Take(w, e, [job[w] EXCEPT !.todo = @ \ {e}])

\* _delete_endpoint_rows, for every spelling of the MAC.
SyncDelete(w) ==
    /\ pc[w] = "delete"
    /\ seen' = [seen EXCEPT ![w] = {x \in rows : x.key = row[w].mac}]
    /\ pc' = [pc EXCEPT ![w] = IF row[w].enabled THEN "render" ELSE "write"]
    /\ UNCHANGED <<tables, rows, up, draft, job, cur, row, held, found, fresh, contested>>

\* db.get(AuthzPolicy, ...): the row that the session holds, or the current one.
SyncRender(w) ==
    LET policy == IF held[w] # None THEN held[w] ELSE PolicyAt(row[w].policy) IN
    /\ pc[w] = "render"
    /\ fresh' = [fresh EXCEPT ![w] = {[key |-> row[w].mac, attrs |-> Rendered(policy)]}]
    /\ pc' = [pc EXCEPT ![w] = "write"]
    /\ UNCHANGED <<tables, rows, up, draft, job, cur, row, held, found, seen, contested>>

\* The commit, and the log line that reads the id of the expired endpoint.
SyncCommit(w) ==
    /\ pc[w] = "write"
    /\ Publish(w)
    /\ \/ /\ endpoints[cur[w]] = None
          /\ Abandon(w)
          /\ Track({}, {n \in Keys : Busy(w, n)})
       \/ /\ endpoints[cur[w]] # None
          /\ Resume(w, job[w])
          /\ cur' = [cur EXCEPT ![w] = None]
          /\ row' = [row EXCEPT ![w] = None]
          /\ UNCHANGED <<draft, found>>
          /\ Track({}, {})

\* sync_authz_policy_groups reads the policies of the labs that have a group.
\* _resync asks its policy for the lab first, and the policy may be gone.
GroupRead(w) ==
    LET p == job[w].policy
        current == {IF q = p /\ held[w] # None THEN held[w] ELSE policies[q] :
                       q \in {x \in Policies : policies[x].lab \in job[w].labs
                                                   /\ policies[x].group # None}}
        upToDate(n) == \E q \in Policies :
                           Owners(n) = {q} /\ {x \in current : x.group = n} = {policies[q]}
    IN
    /\ pc[w] = "job" /\ job[w].group = None /\ job[w].todo = {} /\ job[w].labs # {}
    /\ p # None => job[w].listed
    /\ \/ /\ p # None /\ held[w] = None /\ policies[p] = None
          /\ Raise(w)
       \/ /\ p # None => held[w] # None \/ policies[p] # None
          /\ found' = [found EXCEPT ![w] = {x \in current : x.group # None}]
          /\ job' = [job EXCEPT ![w] = Done]
          /\ pc' = [pc EXCEPT ![w] = "groups"]
          /\ held' = [held EXCEPT ![w] = None]
          /\ UNCHANGED <<tables, rows, up, draft, cur, row, fresh, seen>>
          /\ Track({n \in Groups : Alone(w, n) /\ upToDate(n)},
                   {n \in Groups : ~upToDate(n) /\ \E x \in current : x.group = n})

\* The loop over the policies: of two with one group, the later one's DELETE removes
\* what the earlier one inserted.
GroupDelete(w) ==
    LET groups == {x.group : x \in found[w]} IN
    /\ pc[w] = "groups"
    /\ \E last \in [groups -> found[w]] :
           /\ \A g \in groups : last[g].group = g
           /\ fresh' = [fresh EXCEPT ![w] =
                  {[key |-> g, attrs |-> last[g].attrs] :
                      g \in {h \in groups : last[h].enabled}}]
    /\ seen' = [seen EXCEPT ![w] = {x \in rows : x.key \in groups}]
    /\ pc' = [pc EXCEPT ![w] = "fill"]
    /\ UNCHANGED <<tables, rows, up, draft, job, cur, row, held, found, contested>>

GroupCommit(w) ==
    /\ pc[w] = "fill"
    /\ Publish(w)
    /\ pc' = [pc EXCEPT ![w] = "idle"]
    /\ found' = [found EXCEPT ![w] = {}]
    /\ UNCHANGED <<draft, job, cur, row, held>>
    /\ Track({}, {})

----------------------------------------------------------------------------
(***************************************************************************)
(* The resync of one lab or of all, on request and at start-up; failures.  *)
(***************************************************************************)

Resync(w, labs) ==
    /\ UNCHANGED held
    /\ TakeFirst(w, {e \in Endpoints : endpoints[e].lab \in labs}, [Done EXCEPT !.labs = labs])

SyncAll(r) ==
    /\ up /\ pc[r] = "idle"
    /\ \E labs \in {{lab} : lab \in Labs} \cup {Labs} : Resync(r, labs)

Start ==
    /\ pc[Boot] = "start"
    /\ Resync(Boot, Labs)

Serve ==
    /\ ~up /\ pc[Boot] = "idle"
    /\ up' = TRUE
    /\ UNCHANGED <<tables, rows, pc, draft, job, work, contested>>

\* A database error ends one handler; the start-up task swallows it.
Fail(w) ==
    /\ pc[w] # "idle"
    /\ Raise(w)

Crash ==
    /\ up' = FALSE
    /\ pc' = [w \in Workers |-> IF w = Boot THEN "start" ELSE "idle"]
    /\ draft' = [w \in Workers |-> Nothing]
    /\ job' = [w \in Workers |-> Done]
    /\ cur' = [w \in Workers |-> None]
    /\ row' = [w \in Workers |-> None]
    /\ held' = [w \in Workers |-> None]
    /\ found' = [w \in Workers |-> {}]
    /\ fresh' = [w \in Workers |-> {}]
    /\ seen' = [w \in Workers |-> {}]
    /\ UNCHANGED <<tables, rows>>
    /\ Track({}, {n \in Keys : AnyBusy(n)})

----------------------------------------------------------------------------
Check(r) ==
    \/ CreateRead(r) \/ EndpointCheck(r) \/ EndpointLoad(r)
    \/ NewPolicyCheck(r) \/ PolicyCheck(r) \/ PolicyLoad(r) \/ SyncAll(r)

Commit(r) ==
    \/ CreateCommit(r) \/ EndpointCommit(r) \/ EndpointDelete(r)
    \/ NewPolicyCommit(r) \/ PolicyCommit(r) \/ PolicyDelete(r)

Continue(w) ==
    \/ RefreshEndpoint(w) \/ RefreshPolicy(w)
    \/ PurgeMac(w) \/ PurgeGroup(w) \/ ListUsers(w)
    \/ SyncRead(w) \/ SyncDelete(w) \/ SyncRender(w) \/ SyncCommit(w)
    \/ GroupRead(w) \/ GroupDelete(w) \/ GroupCommit(w)

Next ==
    \/ \E r \in Requests : Check(r) \/ Commit(r)
    \/ \E w \in Workers : Continue(w) \/ Fail(w)
    \/ Start \/ Serve \/ Crash

Spec == Init /\ [][Next]_vars

\* The threads of the pool and the start-up task keep running.
Fairness ==
    /\ \A r \in Requests : WF_vars(Commit(r))
    /\ \A w \in Workers : WF_vars(Continue(w))
    /\ WF_vars(Start \/ Serve)

FairSpec == Spec /\ Fairness

----------------------------------------------------------------------------
(***************************************************************************)
(* Properties.                                                             *)
(***************************************************************************)

\* A MAC or a group that nobody is working on has exactly the rows that its
\* endpoint's, or its own, policy renders to, whichever of the two tables
\* changed last; for keys whose changes were ordered, with one owner.
Settled == \A n \in Keys \ contested : ~AnyBusy(n) => Mirrored(n) = Image(n)

\* FreeRADIUS never sees anything in between: a commit leaves the rows of a MAC or a
\* group as they were, or makes them what the two tables say when it commits.
PublishesWanted ==
    [][\A n \in Keys \ contested' : Mirrored(n)' \in {Mirrored(n), Image(n)'}]_vars

\* A change of a policy or of an endpoint reaches every key it concerns: a key whose
\* rows are out of date gets them, or becomes contested.
ChangeTakesEffect ==
    \A n \in Keys :
        (Mirrored(n) # Image(n) /\ n \notin contested)
            ~> (Mirrored(n) = Image(n) \/ n \in contested)

=============================================================================
