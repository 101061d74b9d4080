-------------------------- MODULE UserMirrorProofs --------------------------
(***************************************************************************)
(* Proofs that the mirror of users is well typed and that a name whose     *)
(* requests were ordered is mirrored exactly, for every number of users,   *)
(* names, labs, credentials and requests.                                  *)
(***************************************************************************)
EXTENDS UserMirror, TLAPS

\* What the three operations that commit rows have in common: rows are well
\* typed, a name is given once, an existing user keeps its name, and a new
\* one gets a key that nobody holds.
WellFormed(new) ==
    /\ DOMAIN new \subseteq UserIds
    /\ \A u \in DOMAIN new : new[u] \in UserRow
    /\ \A u, v \in DOMAIN new : new[u].name = new[v].name => u = v
    /\ \A u \in DOMAIN new :
           \/ users[u] # NoUser /\ new[u].name = users[u].name
           \/ u \in UnusedUserIds

\* CreateUser, BulkCommit and UpdateUser commit a well-formed set of rows from
\* a state in which the worker owes nothing.
LEMMA Commits ==
    ASSUME TypeOK, NEW r \in Requests,
           CreateUser(r) \/ BulkCommit(r) \/ UpdateUser(r)
    PROVE  /\ pc[r] \in {"idle", "picking"}
           /\ free' \in [Workers -> SUBSET (Labs \X Names)]
           /\ \E new : WellFormed(new) /\ CommitRows(r, new)
<1>1. CASE CreateUser(r)
  <2>1. PICK u \in UnusedUserIds, x \in UserRow : CommitRows(r, [v \in {u} |-> x])
        BY <1>1 DEF CreateUser
  <2>2. WellFormed([v \in {u} |-> x])
        BY DEF WellFormed, UnusedUserIds
  <2> QED  BY <1>1, <2>1, <2>2 DEF CreateUser, Starts, TypeOK
<1>2. CASE BulkCommit(r)
  <2>1. PICK ids \in SUBSET UnusedUserIds :
            \E new \in [ids -> UserRow] :
                /\ \A u, v \in ids : new[u].name = new[v].name => u = v
                /\ CommitRows(r, new)
        BY <1>2 DEF BulkCommit
  <2>2. PICK new \in [ids -> UserRow] :
            /\ \A u, v \in ids : new[u].name = new[v].name => u = v
            /\ CommitRows(r, new)
        BY <2>1
  <2>3. WellFormed(new)
        BY <2>2 DEF WellFormed, UnusedUserIds
  <2> QED  BY <1>2, <2>2, <2>3 DEF BulkCommit, TypeOK
<1>3. CASE UpdateUser(r)
  <2>1. PICK u \in UserIds, c \in Creds, a \in BOOLEAN :
            /\ users[u] # NoUser
            /\ CommitRows(r, [v \in {u} |-> [users[u] EXCEPT !.cred = c, !.active = a]])
        BY <1>3 DEF UpdateUser
  <2>2. users[u] \in UserRow
        BY <2>1 DEF TypeOK
  <2>3. WellFormed([v \in {u} |-> [users[u] EXCEPT !.cred = c, !.active = a]])
        BY <2>1, <2>2 DEF WellFormed, UserRow
  <2> QED  BY <1>3, <2>1, <2>3 DEF UpdateUser, Starts, TypeOK
<1> QED  BY <1>1, <1>2, <1>3

\* One action per disjunct of the next-state relation, the commits together.
LEMMA Actions ==
    ASSUME Next
    PROVE  \/ \E r \in Requests : \/ CreateUser(r) \/ BulkCommit(r) \/ UpdateUser(r)
                                  \/ BulkRead(r) \/ DeleteLoad(r) \/ SyncAll(r)
                                  \/ DeleteCommit(r)
           \/ \E w \in Workers : \/ SyncRead(w) \/ SyncCommit(w) \/ PurgeCommit(w)
                                 \/ DeleteRows(w, "delete", "write")
                                 \/ DeleteRows(w, "purge", "purging")
                                 \/ Fail(w)
           \/ Crash
           \/ Serve
BY DEF Next, Work, Fault, Begin, Continue, SyncDelete, PurgeDelete

----------------------------------------------------------------------------
\* Requests are served by workers.
LEMMA RequestsAreWorkers == Requests \subseteq Workers
BY DEF Workers

\* Names that are being worked on are names.
LEMMA BusyNamesType == \A w : BusyNames(w) \subseteq Names
BY DEF BusyNames

\* Every step keeps the types.
LEMMA TypeStep ==
    ASSUME TypeOK, Shape, [Next]_vars
    PROVE  TypeOK'
<1> USE RequestsAreWorkers
<1>1. CASE UNCHANGED vars
      BY <1>1 DEF vars, local, TypeOK
<1>2. ASSUME NEW r \in Requests, CreateUser(r) \/ BulkCommit(r) \/ UpdateUser(r)
      PROVE  TypeOK'
  <2>1. PICK new : WellFormed(new) /\ CommitRows(r, new)
        BY <1>2, Commits
  <2>2. free' \in [Workers -> SUBSET (Labs \X Names)]
        BY <1>2, Commits
  <2>3. users' \in [UserIds -> UserRow \cup {NoUser}]
        BY <2>1 DEF CommitRows, WellFormed, TypeOK
  <2>4. {new[u].name : u \in DOMAIN new} \subseteq Names
        BY <2>1 DEF WellFormed, UserRow
  <2>5. contested' \subseteq Names
        BY <2>1, <2>4 DEF CommitRows, TypeOK
  <2>6. todo' \in [Workers -> SUBSET UserIds]
        BY <2>1 DEF CommitRows, WellFormed, TypeOK
  <2> QED  BY <2>1, <2>2, <2>3, <2>5, <2>6 DEF CommitRows, TypeOK
<1>3. ASSUME NEW r \in Requests, BulkRead(r)
      PROVE  TypeOK'
  <2>1. free' \in [Workers -> SUBSET (Labs \X Names)]
        BY <1>3 DEF BulkRead, TypeOK
  <2> QED  BY <1>3, <2>1 DEF BulkRead, TypeOK
<1>4. ASSUME NEW r \in Requests, DeleteLoad(r)
      PROVE  TypeOK'
      BY <1>4 DEF DeleteLoad, TypeOK
<1>5. ASSUME NEW r \in Requests, SyncAll(r)
      PROVE  TypeOK'
      BY <1>5 DEF SyncAll, TypeOK
<1>6. ASSUME NEW r \in Requests, DeleteCommit(r)
      PROVE  TypeOK'
  <2>1. row[r] \in UserRow
        BY <1>6 DEF DeleteCommit, Shape, TypeOK
  <2>2. contested' \subseteq Names
        BY <1>6, <2>1 DEF DeleteCommit, TypeOK, UserRow
  <2> QED  BY <1>6, <2>2 DEF DeleteCommit, TypeOK
<1>7. ASSUME NEW w \in Workers, SyncRead(w)
      PROVE  TypeOK'
  <2>1. CASE Abandon(w)
        BY <1>7, <2>1, BusyNamesType DEF SyncRead, Abandon, TypeOK
  <2>2. CASE ~Abandon(w)
        BY <1>7, <2>2 DEF SyncRead, TypeOK
  <2> QED  BY <2>1, <2>2
<1>8. ASSUME NEW w \in Workers, SyncCommit(w)
      PROVE  TypeOK'
  <2>1. row[w] \in UserRow
        BY <1>8 DEF SyncCommit, Shape, TypeOK
  <2>2. PICK id \in RowIds : radcheck' = Rewritten(w, id)
        BY <1>8 DEF SyncCommit, UnusedRowIds
  <2>3. radcheck' \subseteq CheckRow
        BY <2>1, <2>2 DEF Rewritten, Inserted, CheckRow, UserRow, TypeOK
  <2>4. CASE Abandon(w)
        BY <1>8, <2>3, <2>4, BusyNamesType DEF SyncCommit, Abandon, TypeOK
  <2>5. CASE ~Abandon(w)
        BY <1>8, <2>3, <2>5 DEF SyncCommit, Remaining, TypeOK
  <2> QED  BY <2>4, <2>5
<1>9. ASSUME NEW w \in Workers, PurgeCommit(w)
      PROVE  TypeOK'
      BY <1>9 DEF PurgeCommit, TypeOK
<1>10. ASSUME NEW w \in Workers,
              DeleteRows(w, "delete", "write") \/ DeleteRows(w, "purge", "purging")
       PROVE  TypeOK'
  <2>1. RowsOf(row[w].name) \subseteq CheckRow
        BY DEF RowsOf, TypeOK
  <2> QED  BY <1>10, <2>1 DEF DeleteRows, TypeOK
<1>11. ASSUME NEW w \in Workers, Fail(w)
       PROVE  TypeOK'
       BY <1>11, BusyNamesType DEF Fail, Abandon, TypeOK
<1>12. CASE Crash
  <2>1. UNION {BusyNames(w) : w \in Workers} \subseteq Names
        BY BusyNamesType
  <2> QED  BY <1>12, <2>1 DEF Crash, TypeOK
<1>13. CASE Serve
       BY <1>13 DEF Serve, local, TypeOK
<1> QED  BY <1>1, <1>2, <1>3, <1>4, <1>5, <1>6, <1>7, <1>8, <1>9, <1>10, <1>11,
            <1>12, <1>13, Actions

----------------------------------------------------------------------------
\* A worker whose row, user, rows found and duties stay as they are keeps its
\* shape when no user is renamed and no key it holds is reused.
KeepsNames ==
    \A u \in UserIds :
        users[u]' # NoUser =>
            \/ users[u] # NoUser /\ users[u]'.name = users[u].name
            \/ \A w \in Workers : u \notin todo[w] /\ user[w] # u

\* Rows that are committed keep the names of users that somebody still handles.
LEMMA CommitKeepsNames ==
    ASSUME TypeOK, NEW r \in Requests, NEW new, WellFormed(new), CommitRows(r, new)
    PROVE  KeepsNames
<1> SUFFICES ASSUME NEW u \in UserIds, users[u]' # NoUser
             PROVE  \/ users[u] # NoUser /\ users[u]'.name = users[u].name
                    \/ \A w \in Workers : u \notin todo[w] /\ user[w] # u
    BY DEF KeepsNames
<1>1. CASE u \in DOMAIN new
  <2>1. users[u]' = new[u]
        BY <1>1 DEF CommitRows
  <2> QED  BY <1>1, <2>1 DEF WellFormed, UnusedUserIds
<1>2. CASE u \notin DOMAIN new
      BY <1>2 DEF CommitRows
<1> QED  BY <1>1, <1>2

ShapeOf(w) ==
    /\ pc[w] \in {"loaded", "delete", "write", "purge", "purging"} =>
           row[w] # NoUser /\ user[w] # NoUser
    /\ pc[w] \in {"loaded", "delete", "write"} /\ users[user[w]] # NoUser =>
           users[user[w]].name = row[w].name
    /\ pc[w] \in {"write", "purging"} => \A x \in seen[w] : x.name = row[w].name
    /\ pc[w] \notin {"sync", "delete", "write"} => todo[w] = {}

\* A worker that stays where it is keeps its shape while users keep their names.
LEMMA ShapeFrame ==
    ASSUME TypeOK, KeepsNames, NEW v \in Workers, ShapeOf(v),
           pc[v]' = pc[v], row[v]' = row[v], user[v]' = user[v],
           seen[v]' = seen[v], todo[v]' = todo[v]
    PROVE  ShapeOf(v)'
<1>1. pc[v] \in {"loaded", "delete", "write"} => user[v] \in UserIds
      BY DEF ShapeOf, TypeOK
<1> QED  BY <1>1 DEF ShapeOf, KeepsNames

\* Every step keeps the shape of every worker.
LEMMA ShapeStep ==
    ASSUME TypeOK, Shape, [Next]_vars
    PROVE  Shape'
<1> USE RequestsAreWorkers
<1> SUFFICES ASSUME NEW v \in Workers PROVE ShapeOf(v)'
    BY DEF Shape, ShapeOf
<1>a. ShapeOf(v)
      BY DEF Shape, ShapeOf
<1>b. (users' = users) => KeepsNames
      BY DEF KeepsNames
<1>1. CASE UNCHANGED vars
      BY <1>1, <1>a, <1>b, ShapeFrame DEF vars, local
<1>2. ASSUME NEW r \in Requests, CreateUser(r) \/ BulkCommit(r) \/ UpdateUser(r)
      PROVE  ShapeOf(v)'
  <2>1. PICK new : WellFormed(new) /\ CommitRows(r, new)
        BY <1>2, Commits
  <2>2. pc[r] \in {"idle", "picking"}
        BY <1>2, Commits
  <2>3. KeepsNames
        BY <2>1, CommitKeepsNames
  <2>4. CASE v = r
        BY <2>1, <2>2, <2>4 DEF CommitRows, TypeOK, ShapeOf
  <2>5. CASE v # r
        BY <2>1, <2>3, <2>5, <1>a, ShapeFrame DEF CommitRows, TypeOK
  <2> QED  BY <2>4, <2>5
<1>3. ASSUME NEW r \in Requests, BulkRead(r)
      PROVE  ShapeOf(v)'
      BY <1>3, <1>a DEF BulkRead, Starts, TypeOK, ShapeOf
<1>4. ASSUME NEW r \in Requests, DeleteLoad(r)
      PROVE  ShapeOf(v)'
  <2>1. PICK u \in UserIds : /\ users[u] # NoUser
                             /\ user' = [user EXCEPT ![r] = u]
                             /\ row' = [row EXCEPT ![r] = users[u]]
        BY <1>4 DEF DeleteLoad
  <2>2. u # NoUser
        BY ConstantsAssumption DEF ConstantsAssumption
  <2> QED  BY <1>4, <2>1, <2>2, <1>a DEF DeleteLoad, Starts, TypeOK, ShapeOf
<1>5. ASSUME NEW r \in Requests, SyncAll(r)
      PROVE  ShapeOf(v)'
      BY <1>5, <1>a DEF SyncAll, Starts, TypeOK, ShapeOf
<1>6. ASSUME NEW r \in Requests, DeleteCommit(r)
      PROVE  ShapeOf(v)'
  <2>1. KeepsNames
        BY <1>6 DEF DeleteCommit, KeepsNames, TypeOK
  <2>2. CASE v = r
        BY <1>6, <1>a, <2>2 DEF DeleteCommit, TypeOK, ShapeOf
  <2>3. CASE v # r
        BY <1>6, <1>a, <2>1, <2>3, ShapeFrame DEF DeleteCommit, TypeOK
  <2> QED  BY <2>2, <2>3
<1>7. ASSUME NEW w \in Workers, SyncRead(w)
      PROVE  ShapeOf(v)'
  <2>1. CASE Abandon(w)
        BY <1>7, <2>1, <1>a DEF SyncRead, Abandon, TypeOK, ShapeOf
  <2>2. CASE ~Abandon(w)
        BY <1>7, <2>2, <1>a, ConstantsAssumption
        DEF SyncRead, TypeOK, ShapeOf, ConstantsAssumption
  <2> QED  BY <2>1, <2>2
<1>8. ASSUME NEW w \in Workers, SyncCommit(w)
      PROVE  ShapeOf(v)'
  <2>1. CASE Abandon(w)
        BY <1>8, <2>1, <1>a DEF SyncCommit, Abandon, TypeOK, ShapeOf
  <2>2. CASE ~Abandon(w)
        BY <1>8, <2>2, <1>a DEF SyncCommit, TypeOK, ShapeOf
  <2> QED  BY <2>1, <2>2
<1>9. ASSUME NEW w \in Workers, PurgeCommit(w)
      PROVE  ShapeOf(v)'
      BY <1>9, <1>a DEF PurgeCommit, TypeOK, ShapeOf
<1>10. ASSUME NEW w \in Workers,
              DeleteRows(w, "delete", "write") \/ DeleteRows(w, "purge", "purging")
       PROVE  ShapeOf(v)'
       BY <1>10, <1>a DEF DeleteRows, RowsOf, TypeOK, ShapeOf
<1>11. ASSUME NEW w \in Workers, Fail(w)
       PROVE  ShapeOf(v)'
       BY <1>11, <1>a DEF Fail, Abandon, TypeOK, ShapeOf
<1>12. CASE Crash
       BY <1>12, <1>a DEF Crash, TypeOK, ShapeOf
<1>13. CASE Serve
       BY <1>13, <1>a, <1>b, ShapeFrame DEF Serve, local
<1> QED  BY <1>1, <1>2, <1>3, <1>4, <1>5, <1>6, <1>7, <1>8, <1>9, <1>10, <1>11,
            <1>12, <1>13, Actions

----------------------------------------------------------------------------
\* A name that nobody newly rewrites, whose users and rows stay as they are and
\* which nobody stops working on stays ordered.
LEMMA OrderedFrame ==
    ASSUME TypeOK, Shape, NEW n \in Names, Ordered(n),
           Carriers(n)' = Carriers(n),
           \A u \in Carriers(n) : users[u]' = users[u],
           RowsOf(n)' = RowsOf(n),
           \A w \in Workers : Busy(w, n) => Busy(w, n)',
           \A w \in Workers :
               pc[w]' \in {"delete", "write", "purge", "purging"} /\ row[w]'.name = n =>
                   /\ pc[w]' = pc[w] /\ row[w]' = row[w]
                   /\ user[w]' = user[w] /\ seen[w]' = seen[w]
    PROVE  Ordered(n)'
<1>1. Image(n)' = Image(n)
      BY DEF Image
<1>2. Accepted(n)' = Accepted(n)
      BY DEF Accepted
<1>3. OneCarrier(n)'
      BY DEF Ordered, OneCarrier
<1>4. CopyIsCurrent(n)'
  <2> SUFFICES ASSUME NEW w \in Workers,
                      pc[w]' \in {"delete", "write"}, row[w]'.name = n
               PROVE  users[user[w]]' = row[w]'
      BY DEF CopyIsCurrent
  <2>1. pc[w] \in {"delete", "write"} /\ row[w]' = row[w] /\ user[w]' = user[w]
        OBVIOUS
  <2>2. users[user[w]] = row[w]
        BY <2>1 DEF Ordered, CopyIsCurrent
  <2>3. user[w] \in Carriers(n)
        BY <2>1, <2>2 DEF Shape, TypeOK, Carriers
  <2> QED  BY <2>1, <2>2, <2>3
<1>5. PurgedIsGone(n)'
      BY DEF Ordered, PurgedIsGone
<1>6. UnseenIsCurrent(n)'
  <2> SUFFICES ASSUME NEW w \in Workers,
                      pc[w]' \in {"write", "purging"}, row[w]'.name = n
               PROVE  \A x \in RowsOf(n)' \ seen[w]' : x.cred \in Image(n)'
      BY DEF UnseenIsCurrent
  <2> QED  BY <1>1 DEF Ordered, UnseenIsCurrent
<1>7. Mirrored(n)'
      BY <1>1, <1>2 DEF Ordered, Mirrored
<1> QED  BY <1>3, <1>4, <1>5, <1>6, <1>7 DEF Ordered

\* The carriers of n are the same when only users of other names change.
LEMMA CarriersFrame ==
    ASSUME NEW n, \A u \in UserIds :
               \/ users[u]' = users[u]
               \/ /\ users[u] # NoUser => users[u].name # n
                  /\ users[u]' # NoUser => users[u]'.name # n
    PROVE  /\ Carriers(n)' = Carriers(n)
           /\ \A u \in Carriers(n) : users[u]' = users[u]
BY DEF Carriers

\* A commit of rows of radius_users.
LEMMA CommitOrdered ==
    ASSUME TypeOK, Shape, NEW r \in Requests, NEW new,
           pc[r] \in {"idle", "picking"}, WellFormed(new), CommitRows(r, new),
           NEW n \in Names \ contested', Ordered(n)
    PROVE  Ordered(n)'
<1> USE RequestsAreWorkers
<1>a. /\ radcheck' = radcheck /\ user' = user /\ row' = row /\ seen' = seen
      /\ users' = [u \in UserIds |-> IF u \in DOMAIN new THEN new[u] ELSE users[u]]
      /\ pc'[r] \notin {"delete", "write", "purge", "purging"}
      /\ todo'[r] = DOMAIN new
      /\ DOMAIN new # {} => pc'[r] = "sync"
      /\ \A w \in Workers \ {r} : pc'[w] = pc[w] /\ todo'[w] = todo[w]
      BY DEF CommitRows, TypeOK
<1>b. \A u \in DOMAIN new : users[u] # NoUser => users[u].name = new[u].name
      BY DEF WellFormed, UnusedUserIds
<1>c. todo[r] = {}
      BY DEF Shape
<1>d. RowsOf(n)' = RowsOf(n)
      BY <1>a DEF RowsOf
<1>1. CASE \A u \in DOMAIN new : new[u].name # n
  <2>1. /\ Carriers(n)' = Carriers(n)
        /\ \A u \in Carriers(n) : users[u]' = users[u]
    <3>1. \A u \in UserIds :
               \/ users[u]' = users[u]
               \/ /\ users[u] # NoUser => users[u].name # n
                  /\ users[u]' # NoUser => users[u]'.name # n
          BY <1>1, <1>a, <1>b
    <3> QED  BY <3>1, CarriersFrame
  <2>2. ~Busy(r, n)
        BY <1>c DEF Busy
  <2>3. \A w \in Workers : Busy(w, n) => Busy(w, n)'
        BY <1>a, <2>1, <2>2 DEF Busy
  <2> QED  BY <1>a, <1>d, <2>1, <2>3, OrderedFrame
<1>2. ASSUME NEW u \in DOMAIN new, new[u].name = n
      PROVE  Ordered(n)'
  <2>1. Alone(r, n) /\ Carriers(n) \subseteq {u}
        BY <1>2 DEF CommitRows
  <2>2. u \in UserIds /\ users'[u] = new[u] /\ new[u] # NoUser
        BY <1>2, <1>a, ConstantsAssumption DEF WellFormed, ConstantsAssumption, UserRow
  <2>3. Carriers(n)' = {u}
    <3>1. ASSUME NEW v \in UserIds, v # u PROVE v \notin Carriers(n)'
      <4>1. CASE v \in DOMAIN new
            BY <4>1, <3>1, <1>a, <1>2 DEF WellFormed, Carriers
      <4>2. CASE v \notin DOMAIN new
            BY <4>2, <3>1, <1>a, <2>1 DEF Carriers
      <4> QED  BY <4>1, <4>2
    <3>2. u \in Carriers(n)'
          BY <2>2, <1>2 DEF Carriers
    <3> QED  BY <3>1, <3>2 DEF Carriers
  <2>4. \A w \in Workers :
            ~(pc[w]' \in {"delete", "write", "purge", "purging"} /\ row[w]'.name = n)
        BY <1>a, <2>1 DEF Alone, Busy
  <2>5. Busy(r, n)'
        BY <1>a, <2>3, <1>2 DEF Busy
  <2> QED  BY <2>3, <2>4, <2>5
           DEF Ordered, OneCarrier, CopyIsCurrent, PurgedIsGone, UnseenIsCurrent, Mirrored
<1> QED  BY <1>1, <1>2

\* A step that leaves radius_users alone, rewrites no row of n, and after which
\* every worker but w is where it was, while w does not start to rewrite n.
LEMMA WorkerFrame ==
    ASSUME TypeOK, Shape, NEW n \in Names, Ordered(n), NEW w \in Workers,
           users' = users, RowsOf(n)' = RowsOf(n),
           \A v \in Workers \ {w} :
               /\ pc[v]' = pc[v] /\ row[v]' = row[v] /\ user[v]' = user[v]
               /\ seen[v]' = seen[v] /\ todo[v]' = todo[v],
           Busy(w, n) => Busy(w, n)',
           ~(pc[w]' \in {"delete", "write", "purge", "purging"} /\ row[w]'.name = n)
    PROVE  Ordered(n)'
<1>1. Carriers(n)' = Carriers(n)
      BY DEF Carriers
<1>2. \A v \in Workers : Busy(v, n) => Busy(v, n)'
      BY <1>1 DEF Busy
<1> QED  BY <1>1, <1>2, OrderedFrame

\* A worker that gives up leaves the names it was not busy with ordered.
LEMMA AbandonOrdered ==
    ASSUME TypeOK, Shape, NEW w \in Workers, Abandon(w), users' = users,
           NEW n \in Names, n \notin contested', Ordered(n), RowsOf(n)' = RowsOf(n)
    PROVE  Ordered(n)'
<1>1. ~Busy(w, n)
      BY DEF Abandon, BusyNames
<1> QED  BY <1>1, WorkerFrame DEF Abandon, TypeOK

\* A deleted user is owed a purge by its worker, who is alone on the name.
LEMMA DeleteCommitOrdered ==
    ASSUME TypeOK, Shape, NEW r \in Requests, DeleteCommit(r),
           NEW n \in Names, n \notin contested', n \notin contested => Ordered(n)
    PROVE  Ordered(n)'
<1> USE RequestsAreWorkers
<1>a. /\ radcheck' = radcheck /\ user' = user /\ row' = row /\ seen' = seen
      /\ todo' = todo /\ pc[r] = "loaded" /\ pc'[r] = "purge" /\ todo[r] = {}
      /\ \A w \in Workers \ {r} : pc'[w] = pc[w]
      /\ users' = [users EXCEPT ![user[r]] = NoUser]
      BY DEF DeleteCommit, TypeOK, Shape
<1>b. user[r] \in UserIds /\ row[r] # NoUser
      BY <1>a DEF Shape, TypeOK
<1>1. CASE row[r].name = n
  <2>1. Alone(r, n) /\ Carriers(n) \subseteq {user[r]}
        BY <1>1 DEF DeleteCommit
  <2>2. Carriers(n)' = {}
        BY <2>1, <1>a, <1>b DEF Carriers, TypeOK
  <2>3. \A w \in Workers \ {r} :
            ~(pc[w]' \in {"delete", "write", "purge", "purging"} /\ row[w]'.name = n)
        BY <1>a, <2>1 DEF Alone, Busy
  <2>4. Busy(r, n)'
        BY <1>a, <1>1 DEF Busy
  <2> QED  BY <1>a, <2>2, <2>3, <2>4
           DEF Ordered, OneCarrier, CopyIsCurrent, PurgedIsGone, UnseenIsCurrent, Mirrored
<1>2. CASE row[r].name # n
  <2>1. Ordered(n)
        BY <1>2 DEF DeleteCommit
  <2>2. users[user[r]] # NoUser => users[user[r]].name # n
        BY <1>2, <1>a DEF Shape
  <2>3. /\ Carriers(n)' = Carriers(n)
        /\ \A u \in Carriers(n) : users[u]' = users[u]
    <3>1. \A u \in UserIds :
               \/ users[u]' = users[u]
               \/ /\ users[u] # NoUser => users[u].name # n
                  /\ users[u]' # NoUser => users[u]'.name # n
          BY <1>a, <1>b, <2>2 DEF TypeOK
    <3> QED  BY <3>1, CarriersFrame
  <2>4. \A w \in Workers : Busy(w, n) => Busy(w, n)'
        BY <1>a, <2>3 DEF Busy
  <2>5. RowsOf(n)' = RowsOf(n)
        BY <1>a DEF RowsOf
  <2> QED  BY <1>2, <1>a, <2>1, <2>3, <2>4, <2>5, OrderedFrame
<1> QED  BY <1>1, <1>2

\* The copy that a worker begins with is the committed row.
LEMMA SyncReadOrdered ==
    ASSUME TypeOK, Shape, NEW w \in Workers, SyncRead(w),
           NEW n \in Names, n \notin contested', n \notin contested => Ordered(n)
    PROVE  Ordered(n)'
<1>a. users' = users /\ radcheck' = radcheck /\ RowsOf(n)' = RowsOf(n)
      BY DEF SyncRead, RowsOf
<1>b. Carriers(n)' = Carriers(n) /\ Image(n)' = Image(n) /\ Accepted(n)' = Accepted(n)
      BY <1>a DEF Carriers, Image, Accepted
<1>1. CASE Abandon(w)
  <2>1. Ordered(n)
        BY <1>1 DEF Abandon
  <2> QED  BY <1>1, <1>a, <2>1, AbandonOrdered
<1>2. CASE ~Abandon(w)
  <2>1. PICK u \in todo[w] :
            /\ users[u] # NoUser
            /\ user' = [user EXCEPT ![w] = u]
            /\ row' = [row EXCEPT ![w] = users[u]]
            /\ pc' = [pc EXCEPT ![w] = "delete"]
            /\ contested' = IF Alone(w, users[u].name) /\ Carriers(users[u].name) = {u}
                            THEN contested \ {users[u].name}
                            ELSE contested
            /\ UNCHANGED <<todo, seen, free>>
        BY <1>2 DEF SyncRead
  <2>2. u \in UserIds
        BY <2>1 DEF TypeOK
  <2>3. /\ pc'[w] = "delete" /\ user'[w] = u /\ row'[w] = users[u]
        /\ todo' = todo /\ seen' = seen /\ pc[w] = "sync"
        /\ \A v \in Workers \ {w} :
               pc'[v] = pc[v] /\ row'[v] = row[v] /\ user'[v] = user[v]
        BY <2>1 DEF TypeOK, SyncRead
  <2>4. CASE users[u].name # n
    <3>1. Ordered(n)
          BY <2>1, <2>4
    <3>2. Busy(w, n) => Busy(w, n)'
          BY <2>3, <1>b DEF Busy
    <3> QED  BY <1>a, <2>3, <2>4, <3>1, <3>2, WorkerFrame
  <2>5. CASE users[u].name = n
    <3>1. Busy(w, n)'
          BY <2>3, <2>5 DEF Busy
    <3>2. Mirrored(n)'
          BY <3>1 DEF Mirrored
    <3>3. CASE Alone(w, n) /\ Carriers(n) = {u}
      <4>1. \A v \in Workers \ {w} :
                ~(pc[v]' \in {"delete", "write", "purge", "purging"} /\ row[v]'.name = n)
            BY <3>3, <2>3 DEF Alone, Busy
      <4> QED  BY <4>1, <3>2, <3>3, <2>3, <1>a, <1>b
               DEF Ordered, OneCarrier, CopyIsCurrent, PurgedIsGone, UnseenIsCurrent
    <3>4. CASE ~(Alone(w, n) /\ Carriers(n) = {u})
      <4>1. Ordered(n)
            BY <3>4, <2>1, <2>5
      <4>2. CopyIsCurrent(n)'
            BY <4>1, <2>3, <1>a DEF Ordered, CopyIsCurrent
      <4>3. PurgedIsGone(n)'
            BY <4>1, <2>3, <1>b DEF Ordered, PurgedIsGone
      <4>4. UnseenIsCurrent(n)'
            BY <4>1, <2>3, <1>a, <1>b DEF Ordered, UnseenIsCurrent
      <4>5. OneCarrier(n)'
            BY <4>1, <1>b DEF Ordered, OneCarrier
      <4> QED  BY <4>2, <4>3, <4>4, <4>5, <3>2 DEF Ordered
    <3> QED  BY <3>3, <3>4
  <2> QED  BY <2>4, <2>5
<1> QED  BY <1>1, <1>2

\* What a transaction of a sync leaves in radcheck: of the name it rewrites,
\* exactly the credential of its user when the name is not contested; of any
\* other name, what was there.
LEMMA SyncCommitRows ==
    ASSUME TypeOK, Shape, NEW w \in Workers, SyncCommit(w), NEW n \in Names
    PROVE  /\ row[w].name # n => RowsOf(n)' = RowsOf(n)
           /\ row[w].name = n /\ Ordered(n) =>
                  /\ \A x \in RowsOf(n)' : x \in RowsOf(n) \/ x.cred \in Image(n)
                  /\ Accepted(n)' = Image(n)
<1>1. pc[w] = "write" /\ row[w] # NoUser /\ user[w] \in UserIds
      BY DEF SyncCommit, Shape, TypeOK
<1>2. PICK id \in RowIds : radcheck' = (radcheck \ seen[w]) \cup Inserted(w, id)
      BY DEF SyncCommit, UnusedRowIds, Rewritten
<1>3. \A x \in seen[w] : x.name = row[w].name
      BY <1>1 DEF Shape
<1>4. \A x \in Inserted(w, id) : x.name = row[w].name /\ x.cred = row[w].cred
      BY DEF Inserted
<1>5. ASSUME row[w].name # n PROVE RowsOf(n)' = RowsOf(n)
      BY <1>2, <1>3, <1>4, <1>5 DEF RowsOf
<1>6. ASSUME row[w].name = n, Ordered(n)
      PROVE  /\ \A x \in RowsOf(n)' : x \in RowsOf(n) \/ x.cred \in Image(n)
             /\ Accepted(n)' = Image(n)
  <2>1. users[user[w]] = row[w]
        BY <1>1, <1>6 DEF Ordered, CopyIsCurrent
  <2>2. Carriers(n) = {user[w]}
        BY <1>1, <1>6, <2>1 DEF Ordered, OneCarrier, Carriers
  <2>3. Image(n) = IF row[w].active THEN {row[w].cred} ELSE {}
        BY <2>1, <2>2 DEF Image
  <2>4. \A x \in RowsOf(n) \ seen[w] : x.cred \in Image(n)
        BY <1>1, <1>6 DEF Ordered, UnseenIsCurrent
  <2>5. \A x \in Inserted(w, id) : x.cred \in Image(n)
        BY <2>3 DEF Inserted
  <2>6. RowsOf(n)' = (RowsOf(n) \ seen[w]) \cup Inserted(w, id)
        BY <1>2, <1>4, <1>6 DEF RowsOf
  <2>7. Accepted(n)' \subseteq Image(n)
        BY <2>4, <2>5, <2>6 DEF Accepted
  <2>8. Image(n) \subseteq Accepted(n)'
    <3>1. ASSUME row[w].active PROVE row[w].cred \in Accepted(n)'
      <4>1. [id |-> id, name |-> row[w].name, cred |-> row[w].cred] \in RowsOf(n)'
            BY <2>6, <3>1 DEF Inserted
      <4> QED  BY <4>1 DEF Accepted
    <3> QED  BY <3>1, <2>3
  <2> QED  BY <2>4, <2>5, <2>6, <2>7, <2>8
<1> QED  BY <1>5, <1>6

\* What is inserted for an ordered name is what the committed row asks for.
LEMMA SyncCommitOrdered ==
    ASSUME TypeOK, Shape, NEW w \in Workers, SyncCommit(w),
           NEW n \in Names, n \notin contested', Ordered(n)
    PROVE  Ordered(n)'
<1>a. users' = users /\ pc[w] = "write" /\ row[w] # NoUser /\ user[w] \in UserIds
      BY DEF SyncCommit, Shape, TypeOK
<1>b. Carriers(n)' = Carriers(n) /\ Image(n)' = Image(n)
      BY <1>a DEF Carriers, Image
<1>1. CASE Abandon(w)
  <2>1. row[w].name # n
        BY <1>1, <1>a DEF Abandon, BusyNames, Busy
  <2>2. RowsOf(n)' = RowsOf(n)
        BY <2>1, SyncCommitRows
  <2> QED  BY <1>1, <1>a, <2>2, AbandonOrdered
<1>2. CASE ~Abandon(w)
  <2>1. /\ users[user[w]] # NoUser
        /\ todo' = [todo EXCEPT ![w] = Remaining(w)]
        /\ pc' = [pc EXCEPT ![w] = IF Remaining(w) = {} THEN "idle" ELSE "sync"]
        /\ user' = [user EXCEPT ![w] = NoUser]
        /\ row' = [row EXCEPT ![w] = NoUser]
        /\ seen' = [seen EXCEPT ![w] = {}]
        BY <1>2 DEF SyncCommit
  <2>2. /\ pc'[w] \in {"idle", "sync"} /\ todo'[w] = todo[w] \ {user[w]}
        /\ \A v \in Workers \ {w} :
               /\ pc'[v] = pc[v] /\ row'[v] = row[v] /\ user'[v] = user[v]
               /\ seen'[v] = seen[v] /\ todo'[v] = todo[v]
        BY <2>1 DEF TypeOK, Remaining
  <2>3. CASE row[w].name # n
    <3>1. RowsOf(n)' = RowsOf(n)
          BY <2>3, SyncCommitRows
    <3>2. user[w] \notin Carriers(n)
          BY <2>3, <1>a DEF Shape, Carriers
    <3>3. Busy(w, n) => Busy(w, n)'
          BY <3>2, <2>2, <2>3, <1>a, <1>b DEF Busy
    <3> QED  BY <3>1, <3>3, <2>2, <1>a, WorkerFrame
  <2>4. CASE row[w].name = n
    <3>1. /\ \A x \in RowsOf(n)' : x \in RowsOf(n) \/ x.cred \in Image(n)
          /\ Accepted(n)' = Image(n)
          BY <2>4, SyncCommitRows
    <3>2. OneCarrier(n)'
          BY <1>b DEF Ordered, OneCarrier
    <3>3. CopyIsCurrent(n)'
          BY <1>a, <2>2 DEF Ordered, CopyIsCurrent
    <3>4. PurgedIsGone(n)'
          BY <1>b, <2>2 DEF Ordered, PurgedIsGone
    <3>5. UnseenIsCurrent(n)'
          BY <1>b, <2>2, <3>1 DEF Ordered, UnseenIsCurrent
    <3>6. Mirrored(n)'
          BY <1>b, <3>1 DEF Mirrored
    <3> QED  BY <3>2, <3>3, <3>4, <3>5, <3>6 DEF Ordered
  <2> QED  BY <2>3, <2>4
<1> QED  BY <1>1, <1>2

\* After a purge nothing of the name is left.
LEMMA PurgeCommitOrdered ==
    ASSUME TypeOK, Shape, NEW w \in Workers, PurgeCommit(w), NEW n \in Names, Ordered(n)
    PROVE  Ordered(n)'
<1>a. /\ users' = users /\ radcheck' = radcheck \ seen[w] /\ todo' = todo
      /\ pc[w] = "purging" /\ pc'[w] = "idle" /\ row[w] # NoUser /\ todo[w] = {}
      /\ \A v \in Workers \ {w} :
             /\ pc'[v] = pc[v] /\ row'[v] = row[v] /\ user'[v] = user[v]
             /\ seen'[v] = seen[v]
      BY DEF PurgeCommit, TypeOK, Shape
<1>b. Carriers(n)' = Carriers(n) /\ Image(n)' = Image(n)
      BY <1>a DEF Carriers, Image
<1>1. CASE row[w].name # n
  <2>1. RowsOf(n)' = RowsOf(n)
        BY <1>1, <1>a DEF RowsOf, Shape
  <2>2. ~Busy(w, n)
        BY <1>1, <1>a DEF Busy
  <2> QED  BY <2>1, <2>2, <1>a, WorkerFrame
<1>2. CASE row[w].name = n
  <2>1. Carriers(n) = {}
        BY <1>2, <1>a DEF Ordered, PurgedIsGone
  <2>2. Image(n) = {}
        BY <2>1 DEF Image
  <2>3. RowsOf(n) \subseteq seen[w]
        BY <1>2, <1>a, <2>2 DEF Ordered, UnseenIsCurrent
  <2>4. RowsOf(n)' = {}
        BY <2>3, <1>a DEF RowsOf
  <2>5. Mirrored(n)'
        BY <2>4, <2>2, <1>b DEF Mirrored, Accepted
  <2>6. CopyIsCurrent(n)'
        BY <1>a DEF Ordered, CopyIsCurrent
  <2> QED  BY <2>1, <2>4, <2>5, <2>6, <1>b
           DEF Ordered, OneCarrier, PurgedIsGone, UnseenIsCurrent
<1> QED  BY <1>1, <1>2

\* Rows that a DELETE does not find are current.
LEMMA DeleteRowsOrdered ==
    ASSUME TypeOK, Shape, NEW w \in Workers, NEW n \in Names, Ordered(n),
           DeleteRows(w, "delete", "write") \/ DeleteRows(w, "purge", "purging")
    PROVE  Ordered(n)'
<1>a. /\ users' = users /\ radcheck' = radcheck /\ todo' = todo /\ user' = user
      /\ row' = row /\ seen'[w] = RowsOf(row[w].name)
      /\ \/ pc[w] = "delete" /\ pc'[w] = "write"
         \/ pc[w] = "purge" /\ pc'[w] = "purging"
      /\ \A v \in Workers \ {w} : pc'[v] = pc[v] /\ seen'[v] = seen[v]
      BY DEF DeleteRows, TypeOK
<1>b. /\ Carriers(n)' = Carriers(n) /\ Image(n)' = Image(n)
      /\ RowsOf(n)' = RowsOf(n) /\ Accepted(n)' = Accepted(n)
      BY <1>a DEF Carriers, Image, RowsOf, Accepted
<1>1. OneCarrier(n)'
      BY <1>b DEF Ordered, OneCarrier
<1>2. CopyIsCurrent(n)'
      BY <1>a DEF Ordered, CopyIsCurrent
<1>3. PurgedIsGone(n)'
      BY <1>a, <1>b DEF Ordered, PurgedIsGone
<1>4. UnseenIsCurrent(n)'
      BY <1>a, <1>b DEF Ordered, UnseenIsCurrent
<1>5. Mirrored(n)'
      BY <1>a, <1>b DEF Ordered, Mirrored, Busy
<1> QED  BY <1>1, <1>2, <1>3, <1>4, <1>5 DEF Ordered

\* Nobody was at work on a name that a crash leaves ordered.
LEMMA CrashOrdered ==
    ASSUME TypeOK, Crash, NEW n \in Names, n \notin contested', Ordered(n)
    PROVE  Ordered(n)'
<1>1. \A w \in Workers : ~Busy(w, n)
      BY DEF Crash, BusyNames
<1>2. /\ Carriers(n)' = Carriers(n) /\ Image(n)' = Image(n)
      /\ RowsOf(n)' = RowsOf(n) /\ Accepted(n)' = Accepted(n)
      BY DEF Crash, Carriers, Image, RowsOf, Accepted
<1>3. \A w \in Workers : pc'[w] \in {"idle", "sync"}
      BY DEF Crash
<1> QED  BY <1>1, <1>2, <1>3 DEF Ordered, OneCarrier, CopyIsCurrent, PurgedIsGone,
                                 UnseenIsCurrent, Mirrored

----------------------------------------------------------------------------
\* Every step leaves the names ordered that it does not mark.
LEMMA OrderedStep ==
    ASSUME IInv, [Next]_vars, NEW n \in Names, n \notin contested'
    PROVE  Ordered(n)'
<1> USE RequestsAreWorkers
<1>a. TypeOK /\ Shape /\ (n \notin contested => Ordered(n))
      BY DEF IInv
<1>1. CASE UNCHANGED vars
  <2>1. Ordered(n)
        BY <1>1, <1>a DEF vars
  <2>2. Carriers(n)' = Carriers(n) /\ RowsOf(n)' = RowsOf(n)
        BY <1>1 DEF vars, Carriers, RowsOf
  <2> QED  BY <1>1, <1>a, <2>1, <2>2, OrderedFrame DEF vars, local, Busy
<1>2. ASSUME NEW r \in Requests, CreateUser(r) \/ BulkCommit(r) \/ UpdateUser(r)
      PROVE  Ordered(n)'
  <2>1. PICK new : WellFormed(new) /\ CommitRows(r, new)
        BY <1>2, <1>a, Commits
  <2>2. pc[r] \in {"idle", "picking"}
        BY <1>2, <1>a, Commits
  <2>3. Ordered(n)
        BY <1>a, <2>1 DEF CommitRows
  <2>4. n \in Names \ contested'
        OBVIOUS
  <2> QED  BY <1>a, <2>1, <2>2, <2>3, <2>4, CommitOrdered
<1>3. ASSUME NEW r \in Requests, BulkRead(r) \/ DeleteLoad(r) \/ SyncAll(r)
      PROVE  Ordered(n)'
  <2>1. /\ users' = users /\ radcheck' = radcheck /\ contested' = contested
        /\ pc[r] = "idle" /\ pc'[r] \in {"picking", "loaded", "sync"}
        /\ \A v \in Workers \ {r} :
               /\ pc'[v] = pc[v] /\ row'[v] = row[v] /\ user'[v] = user[v]
               /\ seen'[v] = seen[v] /\ todo'[v] = todo[v]
        BY <1>3, <1>a DEF BulkRead, DeleteLoad, SyncAll, Starts, TypeOK
  <2>2. ~Busy(r, n)
        BY <2>1, <1>a DEF Busy, Shape
  <2>3. RowsOf(n)' = RowsOf(n)
        BY <2>1 DEF RowsOf
  <2> QED  BY <2>1, <2>2, <2>3, <1>a, WorkerFrame
<1>4. ASSUME NEW r \in Requests, DeleteCommit(r)
      PROVE  Ordered(n)'
      BY <1>4, <1>a, DeleteCommitOrdered
<1>5. ASSUME NEW w \in Workers, SyncRead(w)
      PROVE  Ordered(n)'
      BY <1>5, <1>a, SyncReadOrdered
<1>6. ASSUME NEW w \in Workers, SyncCommit(w)
      PROVE  Ordered(n)'
  <2>1. Ordered(n)
        BY <1>6, <1>a DEF SyncCommit, Abandon
  <2> QED  BY <1>6, <1>a, <2>1, SyncCommitOrdered
<1>7. ASSUME NEW w \in Workers, PurgeCommit(w)
      PROVE  Ordered(n)'
  <2>1. Ordered(n)
        BY <1>7, <1>a DEF PurgeCommit
  <2> QED  BY <1>7, <1>a, <2>1, PurgeCommitOrdered
<1>8. ASSUME NEW w \in Workers,
             DeleteRows(w, "delete", "write") \/ DeleteRows(w, "purge", "purging")
      PROVE  Ordered(n)'
  <2>1. Ordered(n)
        BY <1>8, <1>a DEF DeleteRows
  <2> QED  BY <1>8, <1>a, <2>1, DeleteRowsOrdered
<1>9. ASSUME NEW w \in Workers, Fail(w)
      PROVE  Ordered(n)'
  <2>1. Ordered(n) /\ users' = users /\ RowsOf(n)' = RowsOf(n)
        BY <1>9, <1>a DEF Fail, Abandon, RowsOf
  <2> QED  BY <1>9, <1>a, <2>1, AbandonOrdered DEF Fail
<1>10. CASE Crash
  <2>1. Ordered(n)
        BY <1>10, <1>a DEF Crash
  <2> QED  BY <1>10, <1>a, <2>1, CrashOrdered
<1>11. CASE Serve
  <2>1. Ordered(n) /\ Carriers(n)' = Carriers(n) /\ RowsOf(n)' = RowsOf(n)
        BY <1>11, <1>a DEF Serve, Carriers, RowsOf
  <2> QED  BY <1>11, <1>a, <2>1, OrderedFrame DEF Serve, local, Busy
<1> QED  BY <1>1, <1>2, <1>3, <1>4, <1>5, <1>6, <1>7, <1>8, <1>9, <1>10, <1>11, Actions

\* There are no users and no rows at first.
LEMMA Initially == Init => IInv
<1> SUFFICES ASSUME Init PROVE IInv
    OBVIOUS
<1>1. TypeOK
      BY DEF Init, TypeOK
<1>2. Shape
      BY DEF Init, Shape
<1>3. ASSUME NEW n \in Names PROVE Ordered(n)
  <2>1. Carriers(n) = {} /\ RowsOf(n) = {}
        BY DEF Init, Carriers, RowsOf
  <2> QED  BY <2>1 DEF Init, Ordered, OneCarrier, CopyIsCurrent, PurgedIsGone,
                       UnseenIsCurrent, Mirrored, Accepted, Image
<1> QED  BY <1>1, <1>2, <1>3 DEF IInv

\* The invariant is inductive.
LEMMA Inductive == IInv /\ [Next]_vars => IInv'
<1> SUFFICES ASSUME IInv, [Next]_vars PROVE IInv'
    OBVIOUS
<1>1. TypeOK' /\ Shape'
      BY TypeStep, ShapeStep DEF IInv
<1>2. \A n \in Names \ contested' : Ordered(n)'
      BY OrderedStep
<1> QED  BY <1>1, <1>2 DEF IInv

\* The inductive invariant: copies that workers hold are current, deletions
\* are of names nobody carries, and what a DELETE missed is current, for every
\* name whose requests were ordered.
THEOREM UserMirrorInvariant == Spec => []IInv
BY Initially, Inductive, PTL DEF Spec

\* Every variable of the mirror of users has its type: in particular what a
\* sync inserts is a well-formed row of radcheck.
THEOREM UserMirrorTypes == Spec => []TypeOK
<1>1. IInv => TypeOK
      BY DEF IInv
<1> QED  BY <1>1, UserMirrorInvariant, PTL

\* Names whose requests were ordered and that nobody is working on are mirrored
\* exactly: FreeRADIUS accepts the credential of the active user, nothing else.
THEOREM UserMirrorSettled == Spec => []Settled
<1>1. IInv => Settled
      BY DEF IInv, Settled, Ordered, Mirrored
<1> QED  BY <1>1, UserMirrorInvariant, PTL

\* No transaction publishes a credential that is out of date when it commits.
THEOREM UserMirrorPublishesCurrent == Spec => PublishesCurrent
<1>1. ASSUME IInv, [Next]_vars
      PROVE  [\A n \in Names \ contested' :
                  Accepted(n)' \ Accepted(n) \subseteq Image(n)']_vars
  <2> SUFFICES ASSUME NEW n \in Names, n \notin contested'
               PROVE  Accepted(n)' \ Accepted(n) \subseteq Image(n)'
      OBVIOUS
  <2>a. TypeOK /\ Shape /\ (n \notin contested => Ordered(n))
        BY <1>1 DEF IInv
  <2>1. ASSUME NEW w \in Workers, SyncCommit(w)
        PROVE  Accepted(n)' \ Accepted(n) \subseteq Image(n)'
    <3>1. Ordered(n) /\ users' = users
          BY <2>1, <2>a DEF SyncCommit, Abandon
    <3>2. Image(n)' = Image(n)
          BY <3>1 DEF Image, Carriers
    <3>3. RowsOf(n)' = RowsOf(n) \/ Accepted(n)' = Image(n)
          BY <2>1, <2>a, <3>1, SyncCommitRows
    <3> QED  BY <3>2, <3>3 DEF Accepted
  <2>2. ASSUME radcheck' \subseteq radcheck
        PROVE  Accepted(n)' \ Accepted(n) \subseteq Image(n)'
        BY <2>2 DEF Accepted, RowsOf
  <2>3. (\E w \in Workers : SyncCommit(w)) \/ radcheck' \subseteq radcheck
    <3>1. CASE UNCHANGED vars
          BY <3>1 DEF vars
    <3>2. ASSUME NEW r \in Requests, CreateUser(r) \/ BulkCommit(r) \/ UpdateUser(r)
          PROVE  radcheck' = radcheck
          BY <3>2, <2>a, Commits DEF CommitRows
    <3>3. ASSUME NEW r \in Requests,
                 BulkRead(r) \/ DeleteLoad(r) \/ SyncAll(r) \/ DeleteCommit(r)
          PROVE  radcheck' = radcheck
          BY <3>3 DEF BulkRead, DeleteLoad, SyncAll, DeleteCommit
    <3>4. ASSUME NEW w \in Workers,
                 \/ SyncRead(w) \/ PurgeCommit(w) \/ Fail(w)
                 \/ DeleteRows(w, "delete", "write")
                 \/ DeleteRows(w, "purge", "purging")
          PROVE  radcheck' \subseteq radcheck
          BY <3>4 DEF SyncRead, PurgeCommit, Fail, DeleteRows
    <3>5. Crash \/ Serve => radcheck' = radcheck
          BY DEF Crash, Serve
    <3> QED  BY <1>1, <3>1, <3>2, <3>3, <3>4, <3>5, Actions
  <2> QED  BY <2>1, <2>2, <2>3
<1> QED  BY <1>1, UserMirrorInvariant, PTL DEF Spec, PublishesCurrent

=============================================================================
