----------------------------- MODULE UserMirror -----------------------------
(***************************************************************************)
(* How lab users reach FreeRADIUS.                                         *)
(*                                                                         *)
(* The control plane keeps users in the table radius_users; FreeRADIUS     *)
(* reads radcheck on every Access-Request.  A request of the API first     *)
(* commits its change of radius_users and only then, in a second           *)
(* transaction, rewrites the radcheck rows of the user name: re-read the   *)
(* row (db.refresh), DELETE by user name, INSERT when the user is active,  *)
(* COMMIT.  Endpoints are synchronous functions, so FastAPI runs several   *)
(* requests at once in its thread pool, and PostgreSQL runs each           *)
(* transaction at READ COMMITTED: a DELETE removes the rows that were      *)
(* committed when it started and still exist when it ends.                 *)
(*                                                                         *)
(* Abstractions.  A user's NT-Password and group list travel together as   *)
(* one credential value, so a row of radcheck stands for the NT-Password   *)
(* row and the radusergroup rows that one transaction replaces with it.    *)
(* Profile fields that never reach FreeRADIUS are left out.                *)
(***************************************************************************)
EXTENDS Naturals, FiniteSets

CONSTANTS
    UserIds,    \* primary keys of radius_users
    Names,      \* user names, the RADIUS User-Name
    Labs,       \* labs that share the one FreeRADIUS
    Creds,      \* (NT hash, groups) pairs a user may carry
    Requests,   \* thread-pool slots that serve API requests
    Boot,       \* the start-up task of the API process
    NoUser,     \* "no such row"
    RowIds,     \* bound: serial ids of radcheck rows that coexist
    MaxBatch    \* bound: users one generate or import request creates

ASSUME ConstantsAssumption ==
    /\ Boot \notin Requests
    /\ NoUser \notin UserIds
    /\ NoUser \notin [lab: Labs, name: Names, cred: Creds, active: BOOLEAN]
    /\ MaxBatch \in Nat

Workers == Requests \cup {Boot}

UserRow == [lab: Labs, name: Names, cred: Creds, active: BOOLEAN]

CheckRow == [id: RowIds, name: Names, cred: Creds]

VARIABLES
    users,      \* users[u]: the committed row of radius_users, or NoUser
    radcheck,   \* the committed rows of radcheck
    up,         \* the API accepts requests (start-up has finished)
    pc,         \* pc[w]: where worker w is
    todo,       \* todo[w]: users that w still has to mirror
    user,       \* user[w]: the user whose rows w is rewriting
    row,        \* row[w]: w's in-memory copy of that user's row
    seen,       \* seen[w]: rows that w's DELETE found
    free,       \* free[w]: (lab, name) pairs w's bulk creation found unused
    contested   \* history: names for which the code gives no ordering

local == <<pc, todo, user, row, seen, free>>
vars == <<users, radcheck, up, pc, todo, user, row, seen, free, contested>>

----------------------------------------------------------------------------
\* Names, rows and who is at work on them.

Carriers(n) == {u \in UserIds : users[u] # NoUser /\ users[u].name = n}

RowsOf(n) == {x \in radcheck : x.name = n}

\* The credentials radcheck should accept for n, and those it does accept.
Image(n) == {users[u].cred : u \in {v \in Carriers(n) : users[v].active}}
Accepted(n) == {x.cred : x \in RowsOf(n)}

\* w has committed to rewriting the rows of n, or is doing so.
Busy(w, n) ==
    \/ \E u \in todo[w] : u \in Carriers(n)
    \/ pc[w] \in {"delete", "write", "purge", "purging"} /\ row[w].name = n

BusyNames(w) == {n \in Names : Busy(w, n)}

Alone(w, n) == \A v \in Workers \ {w} : ~Busy(v, n)

\* A row id no committed row and no pending DELETE refers to.
UnusedRowIds ==
    RowIds \ {x.id : x \in radcheck \cup UNION {seen[w] : w \in Workers}}

\* A primary key is never reused while a request still holds it.
UnusedUserIds ==
    {u \in UserIds : /\ users[u] = NoUser
                     /\ \A w \in Workers : u \notin todo[w] /\ user[w] # u}

----------------------------------------------------------------------------
TypeOK ==
    /\ users \in [UserIds -> UserRow \cup {NoUser}]
    /\ radcheck \subseteq CheckRow
    /\ up \in BOOLEAN
    /\ pc \in [Workers -> {"idle", "picking", "loaded", "sync", "delete",
                           "write", "purge", "purging"}]
    /\ todo \in [Workers -> SUBSET UserIds]
    /\ user \in [Workers -> UserIds \cup {NoUser}]
    /\ row \in [Workers -> UserRow \cup {NoUser}]
    /\ seen \in [Workers -> SUBSET CheckRow]
    /\ free \in [Workers -> SUBSET (Labs \X Names)]
    /\ contested \subseteq Names

Init ==
    /\ users = [u \in UserIds |-> NoUser]
    /\ radcheck = {}
    /\ up = TRUE
    /\ pc = [w \in Workers |-> "idle"]
    /\ todo = [w \in Workers |-> {}]
    /\ user = [w \in Workers |-> NoUser]
    /\ row = [w \in Workers |-> NoUser]
    /\ seen = [w \in Workers |-> {}]
    /\ free = [w \in Workers |-> {}]
    /\ contested = {}

----------------------------------------------------------------------------
(***************************************************************************)
(* The first transaction of a request: change radius_users.                *)
(***************************************************************************)

Starts(r) == up /\ pc[r] = "idle"

\* db.commit() of the rows `new` ([id -> row]); r still has to mirror them.  A
\* name is contested from here on if some other worker is about to rewrite its
\* rows, or if another user carries it.
CommitRows(r, new) ==
    /\ users' = [u \in UserIds |-> IF u \in DOMAIN new THEN new[u] ELSE users[u]]
    /\ todo' = [todo EXCEPT ![r] = DOMAIN new]
    /\ pc' = [pc EXCEPT ![r] = IF DOMAIN new = {} THEN "idle" ELSE "sync"]
    /\ contested' = contested \cup
           {new[u].name : u \in {v \in DOMAIN new :
                                     \/ ~Alone(r, new[v].name)
                                     \/ Carriers(new[v].name) \ {v} # {}}}
    /\ UNCHANGED <<radcheck, up, user, row, seen>>

\* create_user: no check that the name is unused.
CreateUser(r) ==
    /\ Starts(r)
    /\ \E u \in UnusedUserIds, x \in UserRow : CommitRows(r, [v \in {u} |-> x])
    /\ UNCHANGED free

\* generate_users, import_users_csv and provision_guest first read the names
\* that are taken in their own lab ...
BulkRead(r) ==
    /\ Starts(r)
    /\ \E l \in Labs :
           LET existing == {users[u].name : u \in {v \in UserIds :
                                users[v] # NoUser /\ users[v].lab = l}}
           IN  free' = [free EXCEPT ![r] = {l} \X (Names \ existing)]
    /\ pc' = [pc EXCEPT ![r] = "picking"]
    /\ UNCHANGED <<users, radcheck, up, todo, user, row, seen, contested>>

\* ... and later commit users with other names, all in one transaction.
BulkCommit(r) ==
    /\ pc[r] = "picking"
    /\ \E ids \in SUBSET UnusedUserIds :
           /\ Cardinality(ids) <= MaxBatch
           /\ \E new \in [ids -> UserRow] :
                  /\ \A u \in ids : <<new[u].lab, new[u].name>> \in free[r]
                  /\ \A u, v \in ids : new[u].name = new[v].name => u = v
                  /\ CommitRows(r, new)
    /\ free' = [free EXCEPT ![r] = {}]

\* update_user: password, groups and status may change, the name may not.
UpdateUser(r) ==
    /\ Starts(r)
    /\ \E u \in UserIds, c \in Creds, a \in BOOLEAN :
           /\ users[u] # NoUser
           /\ CommitRows(r, [v \in {u} |-> [users[u] EXCEPT !.cred = c, !.active = a]])
    /\ UNCHANGED free

\* DELETE /users/{id} loads the row ...
DeleteLoad(r) ==
    /\ Starts(r)
    /\ \E u \in UserIds :
           /\ users[u] # NoUser
           /\ user' = [user EXCEPT ![r] = u]
           /\ row' = [row EXCEPT ![r] = users[u]]
    /\ pc' = [pc EXCEPT ![r] = "loaded"]
    /\ UNCHANGED <<users, radcheck, up, todo, seen, free, contested>>

\* ... and delete_user commits its removal, which is no error when another
\* request removed it in between; the rows of the name still have to go.
DeleteCommit(r) ==
    /\ pc[r] = "loaded"
    /\ LET n == row[r].name IN
           /\ users' = [users EXCEPT ![user[r]] = NoUser]
           /\ contested' = IF Alone(r, n) /\ Carriers(n) \ {user[r]} = {}
                           THEN contested \ {n}
                           ELSE contested \cup {n}
    /\ pc' = [pc EXCEPT ![r] = "purge"]
    /\ UNCHANGED <<radcheck, up, todo, user, row, seen, free>>

\* POST /freeradius/sync: mirror again every user of one lab, or of all.
SyncAll(r) ==
    /\ Starts(r)
    /\ \E labs \in {Labs} \cup {{l} : l \in Labs} :
           LET chosen == {u \in UserIds : users[u] # NoUser /\ users[u].lab \in labs}
           IN  /\ chosen # {}
               /\ todo' = [todo EXCEPT ![r] = chosen]
    /\ pc' = [pc EXCEPT ![r] = "sync"]
    /\ UNCHANGED <<users, radcheck, up, user, row, seen, free, contested>>

----------------------------------------------------------------------------
(***************************************************************************)
(* The second transaction: rewrite the rows of one name.                   *)
(***************************************************************************)

\* The handler ends, normally or by an exception; what it had not mirrored
\* stays as it is, and the code never comes back to it on its own.
Abandon(w) ==
    /\ pc' = [pc EXCEPT ![w] = "idle"]
    /\ todo' = [todo EXCEPT ![w] = {}]
    /\ user' = [user EXCEPT ![w] = NoUser]
    /\ row' = [row EXCEPT ![w] = NoUser]
    /\ seen' = [seen EXCEPT ![w] = {}]
    /\ free' = [free EXCEPT ![w] = {}]
    /\ contested' = contested \cup BusyNames(w)

\* db.refresh(user), or the reload of an expired row in sync_all_users, opens
\* the transaction.  The row may be gone: the handler raises.
SyncRead(w) ==
    /\ pc[w] = "sync"
    /\ UNCHANGED <<users, radcheck, up>>
    /\ \E u \in todo[w] :
           \/ /\ users[u] = NoUser
              /\ Abandon(w)
           \/ /\ users[u] # NoUser
              /\ user' = [user EXCEPT ![w] = u]
              /\ row' = [row EXCEPT ![w] = users[u]]
              /\ pc' = [pc EXCEPT ![w] = "delete"]
              /\ contested' = IF Alone(w, users[u].name) /\ Carriers(users[u].name) = {u}
                              THEN contested \ {users[u].name}
                              ELSE contested
              /\ UNCHANGED <<todo, seen, free>>

\* DELETE FROM radcheck WHERE username = :u, in a sync or in a deletion.
DeleteRows(w, from, to) ==
    /\ pc[w] = from
    /\ seen' = [seen EXCEPT ![w] = RowsOf(row[w].name)]
    /\ pc' = [pc EXCEPT ![w] = to]
    /\ UNCHANGED <<users, radcheck, up, todo, user, row, free, contested>>

SyncDelete(w) == DeleteRows(w, "delete", "write")

PurgeDelete(w) == DeleteRows(w, "purge", "purging")

\* Wrong on purpose (the status is not looked at; the wrong columns are kept).
Inserted_IgnoresStatus(w, id) ==
    {[id |-> id, name |-> row[w].name, cred |-> row[w].cred]}

Inserted_ControlRow(w, id) == IF row[w].active THEN {row[w]} ELSE {}

\* What the transaction of a sync inserts, ...
Inserted(w, id) ==
    IF row[w].active
    THEN {[id |-> id, name |-> row[w].name, cred |-> row[w].cred]}
    ELSE {}

\* Wrong on purpose (the early return for an inactive user does not commit).
Rewritten_NoCommitWhenDisabled(w, id) ==
    IF row[w].active THEN (radcheck \ seen[w]) \cup Inserted(w, id) ELSE radcheck

\* ... what radcheck holds when it commits, ...
Rewritten(w, id) == (radcheck \ seen[w]) \cup Inserted(w, id)

\* Wrong on purpose (the loop over the created users returns after the first).
Remaining_StopsAfterFirst(w) == {}

\* ... and the users w still has to mirror then.
Remaining(w) == todo[w] \ {user[w]}

\* The INSERT, if any, and db.commit().  The log line after it reads user.id
\* of the expired object and raises if the user was deleted meanwhile.
SyncCommit(w) ==
    /\ pc[w] = "write"
    /\ UnusedRowIds # {}
    /\ LET id == CHOOSE i \in UnusedRowIds : TRUE
       IN  radcheck' = Rewritten(w, id)
    /\ UNCHANGED <<users, up>>
    /\ \/ /\ users[user[w]] = NoUser
          /\ Abandon(w)
       \/ /\ users[user[w]] # NoUser
          /\ todo' = [todo EXCEPT ![w] = Remaining(w)]
          /\ pc' = [pc EXCEPT ![w] = IF Remaining(w) = {} THEN "idle" ELSE "sync"]
          /\ user' = [user EXCEPT ![w] = NoUser]
          /\ row' = [row EXCEPT ![w] = NoUser]
          /\ seen' = [seen EXCEPT ![w] = {}]
          /\ UNCHANGED <<free, contested>>

\* delete_user_from_radcheck commits.
PurgeCommit(w) ==
    /\ pc[w] = "purging"
    /\ radcheck' = radcheck \ seen[w]
    /\ pc' = [pc EXCEPT ![w] = "idle"]
    /\ user' = [user EXCEPT ![w] = NoUser]
    /\ row' = [row EXCEPT ![w] = NoUser]
    /\ seen' = [seen EXCEPT ![w] = {}]
    /\ UNCHANGED <<users, up, todo, free, contested>>

----------------------------------------------------------------------------
(***************************************************************************)
(* Failures.  A database error ends one request; a crash or redeploy ends  *)
(* all of them and starts the process again, which mirrors every user      *)
(* before it serves (or gives up: the exception is logged and swallowed).  *)
(***************************************************************************)

Fail(w) ==
    /\ pc[w] # "idle"
    /\ Abandon(w)
    /\ UNCHANGED <<users, radcheck, up>>

Crash ==
    LET everyone == {u \in UserIds : users[u] # NoUser} IN
    /\ up' = FALSE
    /\ pc' = [w \in Workers |-> IF w = Boot /\ everyone # {} THEN "sync" ELSE "idle"]
    /\ todo' = [w \in Workers |-> IF w = Boot THEN everyone ELSE {}]
    /\ user' = [w \in Workers |-> NoUser]
    /\ row' = [w \in Workers |-> NoUser]
    /\ seen' = [w \in Workers |-> {}]
    /\ free' = [w \in Workers |-> {}]
    /\ contested' = contested \cup UNION {BusyNames(w) : w \in Workers}
    /\ UNCHANGED <<users, radcheck>>

Serve ==
    /\ ~up
    /\ pc[Boot] = "idle"
    /\ up' = TRUE
    /\ UNCHANGED <<users, radcheck, local, contested>>

----------------------------------------------------------------------------
Begin(r) ==
    CreateUser(r) \/ BulkRead(r) \/ UpdateUser(r) \/ DeleteLoad(r) \/ SyncAll(r)

Continue(w) ==
    \/ SyncRead(w) \/ SyncDelete(w) \/ SyncCommit(w)
    \/ PurgeDelete(w) \/ PurgeCommit(w)

Work ==
    \/ \E r \in Requests : Begin(r) \/ BulkCommit(r) \/ DeleteCommit(r)
    \/ \E w \in Workers : Continue(w)
    \/ Serve

Fault == Crash \/ \E w \in Workers : Fail(w)

Next == Work \/ Fault

Spec == Init /\ [][Next]_vars

\* The threads of the pool and the start-up task keep running.
Fairness ==
    /\ \A w \in Workers : WF_vars(Continue(w))
    /\ \A r \in Requests : WF_vars(BulkCommit(r) \/ DeleteCommit(r))
    /\ WF_vars(Serve)

FairSpec == Spec /\ Fairness

----------------------------------------------------------------------------
(***************************************************************************)
(* Properties.                                                             *)
(***************************************************************************)

\* A name nobody is working on is mirrored exactly: RADIUS accepts the
\* credential of its active user and nothing else.  It holds for every name
\* whose requests were ordered: not overlapping, not cut short, one user to a
\* name (the code orders nothing else).
Settled ==
    \A n \in Names \ contested :
        (\A w \in Workers : ~Busy(w, n)) => Accepted(n) = Image(n)

\* The inductive invariant behind it.  Whatever is contested: a worker that
\* handles a row holds a copy whose name is still the user's (names are never
\* reused by another key while it does), its DELETE found rows of that name
\* only, and nobody owes a mirroring outside a sync.
Shape ==
    \A w \in Workers :
        /\ pc[w] \in {"loaded", "delete", "write", "purge", "purging"} =>
               row[w] # NoUser /\ user[w] # NoUser
        /\ pc[w] \in {"loaded", "delete", "write"} /\ users[user[w]] # NoUser =>
               users[user[w]].name = row[w].name
        /\ pc[w] \in {"write", "purging"} =>
               \A x \in seen[w] : x.name = row[w].name
        /\ pc[w] \notin {"sync", "delete", "write"} => todo[w] = {}

\* For a name that is not contested: one user carries it; a worker that holds
\* a copy of that user's row holds the committed row; a deletion at work on it
\* means no user carries it; what a DELETE did not find was written, from the
\* same committed row, by a worker that ran at the same time; and the name is
\* mirrored when nobody is at work on it.
OneCarrier(n) == \A u, v \in Carriers(n) : u = v

CopyIsCurrent(n) ==
    \A w \in Workers :
        pc[w] \in {"delete", "write"} /\ row[w].name = n => users[user[w]] = row[w]

PurgedIsGone(n) ==
    \A w \in Workers :
        pc[w] \in {"purge", "purging"} /\ row[w].name = n => Carriers(n) = {}

UnseenIsCurrent(n) ==
    \A w \in Workers :
        pc[w] \in {"write", "purging"} /\ row[w].name = n =>
            \A x \in RowsOf(n) \ seen[w] : x.cred \in Image(n)

Mirrored(n) == (\A w \in Workers : ~Busy(w, n)) => Accepted(n) = Image(n)

Ordered(n) ==
    /\ OneCarrier(n)
    /\ CopyIsCurrent(n)
    /\ PurgedIsGone(n)
    /\ UnseenIsCurrent(n)
    /\ Mirrored(n)

IInv ==
    /\ TypeOK
    /\ Shape
    /\ \A n \in Names \ contested : Ordered(n)

\* A transaction never publishes a credential that is out of date when it
\* commits: what it adds to radcheck is what radius_users holds.
PublishesCurrent ==
    [][\A n \in Names \ contested' : Accepted(n)' \ Accepted(n) \subseteq Image(n)']_vars

\* Disabling or deleting a user reaches FreeRADIUS: the name ends up without
\* a credential, unless the user is changed again or the name is contested.
DisableTakesEffect ==
    \A n \in Names :
        (Image(n) = {} /\ n \notin contested)
            ~> (Accepted(n) = {} \/ Image(n) # {} \/ n \in contested)

\* While nobody is at work, the credential of an active user whose name is
\* unique in its lab is in radcheck (usage.md: saving a user syncs the
\* NT-Password), whatever other labs hold.
ActiveIsAccepted ==
    (\A w \in Workers : pc[w] = "idle") =>
        \A u \in UserIds :
            (/\ users[u] # NoUser
             /\ users[u].active
             /\ \A v \in Carriers(users[u].name) \ {u} : users[v].lab # users[u].lab)
                => users[u].cred \in Accepted(users[u].name)

=============================================================================
