-------------------------- MODULE ClientApplyProofs --------------------------
(***************************************************************************)
(* Proofs that the clients file never names an address twice, and that it  *)
(* is what the control plane has whenever the syncs were ordered: for      *)
(* every number of clients, labs, addresses and requests, with failing     *)
(* requests, crashes of the API and restarts of the container.             *)
(***************************************************************************)
EXTENDS ClientApply, TLAPS

\* What a request that is about to commit has read.
Holds ==
    \A w \in Workers :
        /\ pc[w] = "create" => payload[w] # NoClient
        /\ pc[w] = "update" => /\ target[w] # NoClient
                               /\ loadedRow[w] # NoClient
                               /\ payload[w] # NoClient

TInv == TypeOK /\ Holds

\* The slots of the thread pool are workers, as the start-up task is.
LEMMA RequestsAreWorkers == Requests \subseteq Workers
BY DEF Workers

\* What is rendered is a file.
LEMMA RenderedType == TypeOK => Rendered \in FileContents
BY ClientAssumption DEF TypeOK, Rendered, FileContents, Entry, Deduped, EnabledRows, Rows,
   ClientRow

\* The steps of the supervisor and of the container.
LEMMA SupervisorStep ==
    ASSUME TInv, Supervised \/ Rebooted
    PROVE  TInv'
BY DEF TInv, TypeOK, Holds, Supervised, Rebooted, Supervise, ContainerRestart, Configure,
   ClearFlags, LoadConfig, PollUpdated, PollRestart, SupervisorTypeOK, workVars

\* So is the file that a truncation leaves.
LEMMA EmptyFileType == EmptyFile \in FileContents
BY DEF EmptyFile, FileContents

\* A handler that ends.
LEMMA FinishTypes ==
    ASSUME TInv, NEW w \in Workers, Finish(w), unordered' \in BOOLEAN,
           UNCHANGED <<supervisorVars, clients, up>>
    PROVE  TInv'
<1>1. content' \in [Workers -> FileContents]
      BY EmptyFileType DEF Finish, TInv, TypeOK
<1>2. changed' \in [Workers -> BOOLEAN]
      BY DEF Finish, TInv, TypeOK
<1>3. SupervisorTypeOK'
      BY DEF TInv, TypeOK, SupervisorTypeOK, supervisorVars
<1> QED  BY <1>1, <1>2, <1>3 DEF TInv, TypeOK, Holds, Finish, Goto

\* Whether a sync began among others is a Boolean.
LEMMA StartSyncType ==
    ASSUME NEW w, NEW label, StartSync(w, label)
    PROVE  unordered' \in BOOLEAN
BY DEF StartSync

\* Merging two rows with a third gives a row.
LEMMA MergedType ==
    ASSUME NEW old \in ClientRow, NEW new \in ClientRow, NEW now \in ClientRow
    PROVE  Merged(old, new, now) \in ClientRow
BY DEF Merged, ClientRow

\* start-up bootstraps only labs there are.
LEMMA LabsType == TypeOK => LabsWithClients \subseteq Labs
BY DEF TypeOK, LabsWithClients, Rows, ClientRow

\* Every step keeps the types, and what a request has read.
LEMMA TypeStep ==
    ASSUME TInv, [Next]_vars
    PROVE  TInv'
<1> USE RequestsAreWorkers
<1>1. ASSUME NEW r \in Requests, CreateCheck(r)
      PROVE  TInv'
      BY <1>1, ClientAssumption DEF TInv, TypeOK, Holds, CreateCheck, Starts, Goto,
         SupervisorTypeOK, supervisorVars, ClientRow
<1>2. ASSUME NEW r \in Requests, CreateCommit(r)
      PROVE  TInv'
      BY <1>2 DEF TInv, TypeOK, Holds, CreateCommit, StartSync, Goto, SupervisorTypeOK,
         supervisorVars, ClientRow
<1>3. ASSUME NEW r \in Requests, UpdateCheck(r)
      PROVE  TInv'
      BY <1>3, ClientAssumption DEF TInv, TypeOK, Holds, UpdateCheck, Starts, Goto,
         SupervisorTypeOK, supervisorVars, Rows
<1>4. ASSUME NEW r \in Requests, UpdateCommit(r)
      PROVE  TInv'
  <2>1. CASE clients[target[r]] = NoClient
        BY <1>4, <2>1, FinishTypes DEF TInv, TypeOK, UpdateCommit
  <2>2. CASE clients[target[r]] # NoClient
    <3>1. /\ loadedRow[r] \in ClientRow /\ payload[r] \in ClientRow
          /\ clients[target[r]] \in ClientRow /\ payload[r].lab \in Labs
          BY <1>4, <2>2 DEF TInv, TypeOK, Holds, UpdateCommit, ClientRow
    <3>2. Merged(loadedRow[r], payload[r], clients[target[r]]) \in ClientRow
          BY <3>1, MergedType
    <3>3. unordered' \in BOOLEAN
          BY <1>4, <2>2, StartSyncType DEF TInv, TypeOK, UpdateCommit
    <3> QED  BY <1>4, <2>2, <3>1, <3>2, <3>3 DEF TInv, TypeOK, Holds, UpdateCommit,
                StartSync, Goto, SupervisorTypeOK, supervisorVars
  <2> QED  BY <2>1, <2>2
<1>5. ASSUME NEW r \in Requests, DeleteClient(r)
      PROVE  TInv'
      BY <1>5 DEF TInv, TypeOK, Holds, DeleteClient, Starts, StartSync, Goto,
         SupervisorTypeOK, supervisorVars, Rows, ClientRow
<1>6. ASSUME NEW r \in Requests, SyncLab(r) \/ SyncEveryLab(r)
      PROVE  TInv'
  <2>2. todo' \in [Workers -> SUBSET Labs]
        BY <1>6, LabsType DEF TInv, TypeOK, SyncLab, SyncEveryLab
  <2>3. \/ pc' = [pc EXCEPT ![r] = "sync"]
        \/ pc' = [pc EXCEPT ![r] = "comment"]
        BY <1>6 DEF SyncLab, SyncEveryLab, StartSync, Goto
  <2>4. /\ unordered' \in BOOLEAN
        /\ UNCHANGED <<supervisorVars, clients, up, target, loadedRow, payload, lab, mine,
                       content, changed>>
        BY <1>6 DEF SyncLab, SyncEveryLab, StartSync
  <2> QED  BY <2>2, <2>3, <2>4 DEF TInv, TypeOK, Holds, SupervisorTypeOK, supervisorVars
<1>7. ASSUME NEW w \in Workers, Render(w)
      PROVE  TInv'
      BY <1>7, RenderedType DEF TInv, TypeOK, Holds, Render, Content, Goto, Rows,
         SupervisorTypeOK, supervisorVars
<1>8. ASSUME NEW w \in Workers, Compare(w) \/ Truncate(w) \/ Fill(w) \/ WriteComment(w)
      PROVE  TInv'
  <2>1. disk' \in Contents
    <3>1. Comment \in FileContents
          BY DEF Comment, FileContents
    <3> QED  BY <1>8, <3>1, ClientAssumption, EmptyFileType
             DEF TInv, TypeOK, SupervisorTypeOK, Compare, Truncate, Fill, WriteComment,
                 supervisorVars
  <2>4. changed' \in [Workers -> BOOLEAN]
        BY <1>8 DEF TInv, TypeOK, Compare, Truncate, Fill, WriteComment, workVars
  <2>2. \E label \in {"truncate", "fill", "nas", "idle"} : pc' = [pc EXCEPT ![w] = label]
        BY <1>8 DEF Compare, Truncate, Fill, WriteComment, Goto
  <2>3. UNCHANGED <<prepared, loaded, updated, restart, sup, clients, up, target, loadedRow,
                    payload, todo, lab, mine, content, unordered>>
        BY <1>8 DEF Compare, Truncate, Fill, WriteComment, supervisorVars, workVars
  <2> QED  BY <2>1, <2>2, <2>3, <2>4 DEF TInv, TypeOK, Holds, SupervisorTypeOK
<1>9. ASSUME NEW w \in Workers, MirrorNas(w)
      PROVE  TInv'
  <2>1. CASE Finish(w)
        BY <1>9, <2>1, FinishTypes DEF TInv, TypeOK, MirrorNas
  <2>2. CASE Goto(w, "flag") /\ UNCHANGED workVars
        BY <1>9, <2>2 DEF TInv, TypeOK, Holds, MirrorNas, Goto, SupervisorTypeOK,
           supervisorVars, workVars
  <2> QED  BY <1>9, <2>1, <2>2 DEF MirrorNas
<1>14. ASSUME NEW w \in Workers, RaiseRestart(w)
      PROVE  TInv'
  <2>1. restart' \in BOOLEAN
        BY <1>14 DEF TInv, TypeOK, SupervisorTypeOK, RaiseRestart, MustRestart
  <2>2. \E label \in {"idle", "sync"} : pc' = [pc EXCEPT ![w] = label]
        BY <1>14 DEF RaiseRestart, Goto
  <2> QED  BY <1>14, <2>1, <2>2 DEF TInv, TypeOK, Holds, RaiseRestart, SupervisorTypeOK,
              EmptyFile, FileContents
<1>10. CASE Serve
      BY <1>10 DEF TInv, TypeOK, Holds, Serve, SupervisorTypeOK, supervisorVars, workVars
<1>11. ASSUME NEW w \in Workers, Fail(w)
      PROVE  TInv'
  <2>1. unordered' \in BOOLEAN
        BY <1>11 DEF TInv, TypeOK, Fail, Syncing
  <2> QED  BY <1>11, <2>1, FinishTypes DEF Fail
<1>12. CASE Crash
  <2>1. /\ pc' \in [Workers -> {"idle", "comment", "sync"}]
        /\ todo' \in [Workers -> SUBSET Labs]
        BY <1>12, LabsType DEF TInv, Crash
  <2>2. content' \in [Workers -> FileContents]
        BY <1>12, EmptyFileType DEF Crash
  <2> QED  BY <1>12, <2>1, <2>2 DEF TInv, TypeOK, Holds, Crash, SupervisorTypeOK,
              supervisorVars
<1>13. CASE UNCHANGED vars
      BY <1>13 DEF TInv, TypeOK, Holds, vars, SupervisorTypeOK, supervisorVars, workVars
<1>15. CASE Work
      BY <1>1, <1>2, <1>3, <1>4, <1>5, <1>6, <1>7, <1>8, <1>9, <1>10, <1>14, <1>15
      DEF Work, Begin, Continue
<1>16. CASE Supervised \/ Rebooted
      BY <1>16, SupervisorStep
<1>17. CASE Fault
      BY <1>11, <1>12, <1>17 DEF Fault
<1> QED  BY <1>13, <1>15, <1>16, <1>17 DEF Next, Steps

\* They hold at first.
LEMMA InitTypes == Init => TInv
<1> SUFFICES ASSUME Init PROVE TInv
    OBVIOUS
<1>1. SupervisorTypeOK
      BY SupervisorAssumption DEF Init, SupervisorInit, SupervisorTypeOK
<1>2. content \in [Workers -> FileContents]
      BY EmptyFileType DEF Init
<1> QED  BY <1>1, <1>2 DEF Init, TInv, TypeOK, Holds

\* Every variable of the client apply has its type: what is written to the file is
\* a file, what is committed is a row, however requests overlap and fail.
THEOREM ClientApplyTypes == Spec => []TypeOK
<1>1. TInv => TypeOK
      BY DEF TInv
<1>2. TInv /\ [Next]_vars => TInv'
      BY TypeStep
<1> QED  BY <1>1, <1>2, InitTypes, PTL DEF Spec

----------------------------------------------------------------------------
(***************************************************************************)
(* No address twice: what is rendered names an address once, whatever the  *)
(* table holds, and nothing else is ever written.                          *)
(***************************************************************************)

\* A file the server loads: it refuses one that names an address twice.
Distinct(f) == \A x, y \in f.entries : x.addr = y.addr => x = y

\* The file, and whatever a worker is about to write, is loadable.
AddressInv == TInv /\ Distinct(disk) /\ \A w \in Workers : Distinct(content[w])

\* A render names each address once: of two clients that share one it keeps the first,
\* whatever the check at creation let through.
LEMMA RenderedDistinct == Distinct(Rendered)
<1> SUFFICES ASSUME NEW c \in Deduped, NEW d \in Deduped, clients[c].addr = clients[d].addr
             PROVE  c = d
    BY DEF Distinct, Rendered
<1>1. c \in Nat /\ d \in Nat /\ c \in EnabledRows /\ d \in EnabledRows
      BY ClientAssumption DEF Deduped, EnabledRows, Rows
<1>2. ~(d < c) /\ ~(c < d)
      BY <1>1 DEF Deduped
<1> QED  BY <1>1, <1>2

\* The truncated file and the comment name none.
LEMMA BlankDistinct == Distinct(EmptyFile) /\ Distinct(Comment)
BY DEF Distinct, EmptyFile, Comment

\* Only the two halves of a write and the comment touch the file, ...
LEMMA FileStep ==
    ASSUME [Next]_vars
    PROVE  \/ disk' = disk
           \/ disk' \in {EmptyFile, Comment}
           \/ \E w \in Workers : disk' = content[w]
<1> USE DEF supervisorVars
<1>1. ASSUME NEW r \in Requests, Begin(r) \/ CreateCommit(r) \/ UpdateCommit(r)
      PROVE  disk' = disk
      BY <1>1 DEF Begin, CreateCheck, UpdateCheck, DeleteClient, SyncLab, SyncEveryLab,
         CreateCommit, UpdateCommit
<1>2. ASSUME NEW w \in Workers, Continue(w)
      PROVE  disk' \in {disk, EmptyFile, Comment, content[w]}
      BY <1>2 DEF Continue, Render, Compare, Truncate, Fill, MirrorNas, RaiseRestart,
         WriteComment
<1>3. CASE Serve \/ Fault
      BY <1>3 DEF Serve, Fault, Crash, Fail
<1>4. CASE Supervised \/ Rebooted
      BY <1>4 DEF Supervised, Rebooted, Supervise, ContainerRestart, Configure, ClearFlags,
         LoadConfig, PollUpdated, PollRestart
<1>5. CASE UNCHANGED vars
      BY <1>5 DEF vars
<1> QED  BY <1>1, <1>2, <1>3, <1>4, <1>5 DEF Next, Steps, Work

\* ... and only the render makes new contents.
LEMMA ContentStep ==
    ASSUME TInv, [Next]_vars, NEW v \in Workers
    PROVE  content[v]' \in {content[v], EmptyFile, Rendered}
<1> USE RequestsAreWorkers
<1>1. ASSUME NEW r \in Requests, Begin(r) \/ CreateCommit(r)
      PROVE  content' = content
      BY <1>1 DEF Begin, CreateCheck, UpdateCheck, DeleteClient, SyncLab, SyncEveryLab,
         CreateCommit
<1>2. ASSUME NEW w \in Workers, Finish(w)
      PROVE  content[v]' \in {content[v], EmptyFile}
      BY <1>2 DEF Finish, TInv, TypeOK
<1>3. ASSUME NEW w \in Workers, Continue(w)
      PROVE  content[v]' \in {content[v], EmptyFile, Rendered}
  <2>1. CASE Render(w)
        BY <2>1 DEF Render, Content, TInv, TypeOK
  <2>2. CASE RaiseRestart(w)
        BY <2>2 DEF RaiseRestart, TInv, TypeOK
  <2>3. CASE MirrorNas(w)
        BY <1>2, <2>3 DEF MirrorNas, workVars
  <2> QED  BY <1>3, <2>1, <2>2, <2>3 DEF Continue, Compare, Truncate, Fill, WriteComment,
              workVars
<1>4. ASSUME NEW r \in Requests, UpdateCommit(r)
      PROVE  content[v]' \in {content[v], EmptyFile}
      BY <1>2, <1>4 DEF UpdateCommit
<1>5. CASE Serve \/ Fault
  <2>1. CASE Crash
        BY <2>1 DEF Crash
  <2> QED  BY <1>2, <1>5, <2>1 DEF Serve, Fault, Fail, workVars
<1>6. CASE Supervised \/ Rebooted \/ UNCHANGED vars
      BY <1>6 DEF Supervised, Rebooted, vars, workVars
<1> QED  BY <1>1, <1>3, <1>4, <1>5, <1>6 DEF Next, Steps, Work

\* So a step that writes the file keeps addresses distinct.
LEMMA AddressStep == AddressInv /\ [Next]_vars => AddressInv'
<1> SUFFICES ASSUME AddressInv, [Next]_vars PROVE AddressInv'
    OBVIOUS
<1>1. TInv'
      BY TypeStep DEF AddressInv
<1>2. Distinct(disk)'
      BY FileStep, BlankDistinct DEF AddressInv, Distinct
<1>3. ASSUME NEW w \in Workers PROVE Distinct(content[w])'
  <2>1. content[w]' \in {content[w], EmptyFile, Rendered}
        BY ContentStep DEF AddressInv
  <2> QED  BY <2>1, BlankDistinct, RenderedDistinct DEF AddressInv, Distinct
<1> QED  BY <1>1, <1>2, <1>3 DEF AddressInv

\* However requests overlap, fail or are cut short, and however many clients share an
\* address, the clients file never names one twice, so FreeRADIUS can start on it.
THEOREM ClientApplyAddresses == Spec => []NoDuplicateAddress
<1>1. Init => AddressInv
      BY InitTypes, BlankDistinct, ClientAssumption DEF Init, SupervisorInit, AddressInv
<1>2. AddressInv => NoDuplicateAddress
      BY DEF AddressInv, Distinct, NoDuplicateAddress
<1> QED  BY <1>1, <1>2, AddressStep, PTL DEF Spec

----------------------------------------------------------------------------
(***************************************************************************)
(* The file is current.  While the syncs are ordered at most one worker    *)
(* syncs, what it is about to write was rendered from the committed rows,  *)
(* and what it has written still is what they render to.                   *)
(***************************************************************************)

OneSyncs == \A v, w \in Workers : Syncing(v) /\ Syncing(w) => v = w

Progress(w) ==
    /\ pc[w] \in {"compare", "truncate", "fill"} => content[w] = Rendered
    /\ pc[w] \in {"nas", "flag"} => disk.entries = Rendered.entries
    /\ pc[w] = "comment" => Rendered.entries = {}

Current == (\A w \in Workers : ~Syncing(w)) => disk.entries = Rendered.entries

FileOrdered == OneSyncs /\ (\A w \in Workers : Progress(w)) /\ Current

FileInv == TInv /\ (~unordered => FileOrdered)

\* What is rendered depends on the table only.
LEMMA RenderedFrame == clients' = clients => Rendered' = Rendered
BY DEF Rendered, Deduped, EnabledRows, Rows

\* With no client in any lab, the comment and the rendered file say the same.
LEMMA NothingToRender == LabsWithClients = {} => Rendered.entries = {}
BY DEF LabsWithClients, Rendered, Deduped, EnabledRows

\* A step that leaves the table and the file alone, and begins or ends no sync.
LEMMA FileFrame ==
    ASSUME FileOrdered, UNCHANGED <<clients, disk>>,
           \A w \in Workers : \/ /\ pc[w]' = pc[w]
                                 /\ content[w]' = content[w]
                              \/ ~Syncing(w) /\ ~Syncing(w)'
    PROVE  FileOrdered'
<1>1. Rendered' = Rendered
      BY RenderedFrame
<1>2. \A w \in Workers : Syncing(w)' <=> Syncing(w)
      BY DEF Syncing
<1>3. OneSyncs' /\ Current'
      BY <1>1, <1>2 DEF FileOrdered, OneSyncs, Current
<1>4. ASSUME NEW w \in Workers PROVE Progress(w)'
      BY <1>1 DEF FileOrdered, Progress, Syncing
<1> QED  BY <1>3, <1>4 DEF FileOrdered

\* The supervisor, the container and the end of start-up.
LEMMA FileQuiet ==
    ASSUME ~unordered => FileOrdered, ~unordered',
           Serve \/ Supervised \/ Rebooted \/ UNCHANGED vars
    PROVE  FileOrdered'
<1>1. UNCHANGED <<clients, pc, content, unordered>>
      BY DEF Serve, Supervised, Rebooted, vars, workVars
<1>2. disk' = disk
      BY DEF Serve, Supervised, Rebooted, vars, supervisorVars, Supervise, ContainerRestart,
         Configure, ClearFlags, LoadConfig, PollUpdated, PollRestart
<1>3. FileOrdered
      BY <1>1, Zenon
<1> QED  BY <1>1, <1>2, <1>3, FileFrame

\* A worker that begins to sync alone.
LEMMA FileStart ==
    ASSUME TInv, NEW w \in Workers, NEW label \in {"sync", "comment"},
           StartSync(w, label), ~unordered',
           label = "comment" => Rendered'.entries = {}
    PROVE  FileOrdered'
<1>1. pc' = [pc EXCEPT ![w] = label] /\ DOMAIN pc = Workers
      BY DEF StartSync, Goto, TInv, TypeOK
<1>2. \A v \in Workers \ {w} : ~Syncing(v) /\ pc[v]' = pc[v]
      BY <1>1 DEF StartSync, OthersSync
<1>3. pc[w]' = label
      BY <1>1
<1>4. \A v \in Workers \ {w} : ~Syncing(v)'
      BY <1>2 DEF Syncing
<1>5. OneSyncs' /\ Current'
      BY <1>3, <1>4 DEF OneSyncs, Current, Syncing
<1>6. ASSUME NEW v \in Workers PROVE Progress(v)'
      BY <1>3, <1>4 DEF Progress, Syncing
<1> QED  BY <1>5, <1>6 DEF FileOrdered

\* A step of the one worker that syncs.
LEMMA FileWork ==
    ASSUME FileOrdered, NEW w \in Workers, Syncing(w), clients' = clients,
           \A v \in Workers \ {w} : pc[v]' = pc[v],
           Progress(w)', ~Syncing(w)' => disk'.entries = Rendered.entries
    PROVE  FileOrdered'
<1>1. Rendered' = Rendered
      BY RenderedFrame
<1>2. \A v \in Workers \ {w} : ~Syncing(v) /\ ~Syncing(v)'
      BY DEF FileOrdered, OneSyncs, Syncing
<1>3. OneSyncs' /\ Current'
      BY <1>1, <1>2 DEF OneSyncs, Current
<1>4. ASSUME NEW v \in Workers \ {w} PROVE Progress(v)'
      BY <1>2 DEF Progress, Syncing
<1> QED  BY <1>3, <1>4 DEF FileOrdered

\* Every step after which the syncs are in order, action by action.
LEMMA OrderedFileStep ==
    ASSUME FileInv, [Next]_vars, ~unordered'
    PROVE  FileOrdered'
<1> USE RequestsAreWorkers
<1>a. /\ TInv
      /\ DOMAIN pc = Workers /\ DOMAIN content = Workers
      BY DEF FileInv, TInv, TypeOK
<1>b. ~unordered => FileOrdered
      BY DEF FileInv
<1>1. ASSUME NEW r \in Requests, CreateCheck(r) \/ UpdateCheck(r)
      PROVE  FileOrdered'
  <2>1. /\ UNCHANGED <<clients, disk, content, unordered>>
        /\ pc[r] = "idle" /\ pc' \in {[pc EXCEPT ![r] = "create"], [pc EXCEPT ![r] = "update"]}
        BY <1>1 DEF CreateCheck, UpdateCheck, Starts, Goto, supervisorVars
  <2>2. \A w \in Workers : pc[w]' = pc[w] \/ (~Syncing(w) /\ ~Syncing(w)')
        BY <1>a, <2>1 DEF Syncing
  <2>3. FileOrdered
        BY <1>b, <2>1, Zenon
  <2> QED  BY <2>1, <2>2, <2>3, FileFrame
<1>2. ASSUME NEW r \in Requests, CreateCommit(r) \/ DeleteClient(r) \/ SyncLab(r)
      PROVE  FileOrdered'
  <2>1. StartSync(r, "sync")
        BY <1>2 DEF CreateCommit, DeleteClient, SyncLab
  <2> QED  BY <1>a, <2>1, FileStart
<1>3. ASSUME NEW r \in Requests, SyncEveryLab(r)
      PROVE  FileOrdered'
  <2>1. clients' = clients
        BY <1>3 DEF SyncEveryLab
  <2>2. CASE LabsWithClients = {}
    <3>1. StartSync(r, "comment") /\ Rendered'.entries = {}
          BY <1>3, <2>1, <2>2, NothingToRender, RenderedFrame DEF SyncEveryLab
    <3> QED  BY <1>a, <3>1, FileStart
  <2>3. CASE LabsWithClients # {}
    <3>1. StartSync(r, "sync")
          BY <1>3, <2>3 DEF SyncEveryLab
    <3> QED  BY <1>a, <3>1, FileStart
  <2> QED  BY <2>2, <2>3
<1>4. ASSUME NEW r \in Requests, UpdateCommit(r)
      PROVE  FileOrdered'
  <2>1. CASE StartSync(r, "sync")
        BY <1>a, <2>1, FileStart
  <2>2. CASE Finish(r) /\ UNCHANGED <<clients, unordered>>
    <3>1. /\ UNCHANGED <<clients, disk>>
          /\ pc[r] = "update" /\ pc' = [pc EXCEPT ![r] = "idle"]
          /\ content' = [content EXCEPT ![r] = EmptyFile]
          BY <1>4, <2>2 DEF UpdateCommit, Finish, Goto, supervisorVars
    <3>2. \A w \in Workers : \/ pc[w]' = pc[w] /\ content[w]' = content[w]
                             \/ ~Syncing(w) /\ ~Syncing(w)'
          BY <1>a, <3>1 DEF Syncing
    <3>3. FileOrdered
          BY <1>b, <2>2, Zenon
    <3> QED  BY <3>1, <3>2, <3>3, FileFrame
  <2> QED  BY <1>4, <2>1, <2>2, Zenon DEF UpdateCommit
<1>5. ASSUME NEW w \in Workers, Render(w)
      PROVE  FileOrdered'
  <2>1. /\ clients' = clients
        /\ pc' = [pc EXCEPT ![w] = "compare"]
        /\ content[w]' = Rendered
        /\ ~OthersSync(w) \/ ~unordered
        BY <1>a, <1>5 DEF Render, Content, Goto
  <2>2. Rendered' = Rendered
        BY <2>1, RenderedFrame
  <2>3. Syncing(w)
        BY <1>5 DEF Render, Syncing
  <2>4. \A v \in Workers \ {w} : pc[v]' = pc[v] /\ ~Syncing(v)
        BY <1>a, <1>b, <2>1, <2>3 DEF OthersSync, FileOrdered, OneSyncs
  <2>5. pc[w]' = "compare" /\ \A v \in Workers \ {w} : ~Syncing(v)'
        BY <1>a, <2>1, <2>4 DEF Syncing
  <2>6. OneSyncs' /\ Current'
        BY <2>5 DEF OneSyncs, Current, Syncing
  <2>7. ASSUME NEW v \in Workers PROVE Progress(v)'
        BY <2>1, <2>2, <2>5 DEF Progress, Syncing
  <2> QED  BY <2>6, <2>7 DEF FileOrdered
<1>6. ASSUME NEW w \in Workers, Continue(w), ~Render(w)
      PROVE  FileOrdered'
  <2>1. /\ UNCHANGED <<clients, unordered>>
        /\ pc[w] \in {"compare", "truncate", "fill", "nas", "flag", "comment"}
        BY <1>6 DEF Continue, Compare, Truncate, Fill, MirrorNas, RaiseRestart, WriteComment
  <2>5. FileOrdered
        BY <1>b, <2>1, Zenon
  <2>2. Syncing(w) /\ Progress(w) /\ Rendered' = Rendered
        BY <2>1, <2>5, RenderedFrame DEF FileOrdered, Syncing
  <2>3. \A v \in Workers \ {w} : pc[v]' = pc[v]
    <3>1. \E label : pc' = [pc EXCEPT ![w] = label]
          BY <1>6 DEF Continue, Compare, Truncate, Fill, MirrorNas, RaiseRestart,
             WriteComment, Goto, Finish
    <3> QED  BY <1>a, <3>1
  <2>4. Progress(w)' /\ (~Syncing(w)' => disk'.entries = Rendered.entries)
    <3>1. CASE Compare(w)
          BY <1>a, <2>2, <3>1 DEF Compare, Goto, Progress, Syncing
    <3>2. CASE Truncate(w)
          BY <1>a, <2>2, <3>2 DEF Truncate, Goto, Progress, Syncing, workVars
    <3>3. CASE Fill(w)
          BY <1>a, <2>2, <3>3 DEF Fill, Goto, Progress, Syncing, workVars
    <3>4. CASE MirrorNas(w)
          BY <1>a, <2>2, <3>4 DEF MirrorNas, Goto, Finish, Progress, Syncing, supervisorVars
    <3>5. CASE RaiseRestart(w)
          BY <1>a, <2>2, <3>5 DEF RaiseRestart, Goto, Progress, Syncing
    <3>6. CASE WriteComment(w)
          BY <1>a, <2>2, <3>6 DEF WriteComment, Goto, Progress, Syncing, Comment
    <3> QED  BY <1>6, <3>1, <3>2, <3>3, <3>4, <3>5, <3>6 DEF Continue
  <2> QED  BY <2>1, <2>2, <2>3, <2>4, <2>5, FileWork
<1>7. ASSUME NEW w \in Workers, Fail(w)
      PROVE  FileOrdered'
  <2>1. /\ UNCHANGED <<clients, disk>>
        /\ pc' = [pc EXCEPT ![w] = "idle"]
        /\ content' = [content EXCEPT ![w] = EmptyFile]
        BY <1>7 DEF Fail, Finish, Goto, supervisorVars
  <2>3. ~Syncing(w) /\ FileOrdered
        BY <1>b, <1>7, Zenon DEF Fail
  <2>2. \A v \in Workers : \/ pc[v]' = pc[v] /\ content[v]' = content[v]
                           \/ ~Syncing(v) /\ ~Syncing(v)'
        BY <1>a, <2>1, <2>3 DEF Syncing
  <2> QED  BY <2>1, <2>2, <2>3, FileFrame
<1>8. CASE Crash
  <2>1. /\ \A w \in Workers : pc[w]' = IF w # Boot THEN "idle"
                                       ELSE IF LabsWithClients = {} THEN "comment" ELSE "sync"
        /\ clients' = clients
        BY <1>8 DEF Crash
  <2>2. Rendered' = Rendered /\ (LabsWithClients = {} => Rendered.entries = {})
        BY <2>1, RenderedFrame, NothingToRender
  <2>3. \A w \in Workers : Syncing(w)' <=> w = Boot
        BY <2>1 DEF Syncing
  <2>4. OneSyncs' /\ Current'
        BY <2>3 DEF OneSyncs, Current, Workers
  <2>5. ASSUME NEW w \in Workers PROVE Progress(w)'
        BY <2>1, <2>2 DEF Progress
  <2> QED  BY <2>4, <2>5 DEF FileOrdered
<1>9. CASE Serve \/ Supervised \/ Rebooted \/ UNCHANGED vars
      BY <1>9, FileQuiet DEF FileInv
<1>10. CASE Work
      BY <1>1, <1>2, <1>3, <1>4, <1>5, <1>6, <1>9, <1>10 DEF Work, Begin
<1> QED  BY <1>7, <1>8, <1>9, <1>10 DEF Next, Steps, Fault

\* FileInv is inductive.
LEMMA FileInductive == FileInv /\ [Next]_vars => FileInv'
BY TypeStep, OrderedFileStep DEF FileInv

\* It holds at first, when there are no clients.
LEMMA FileAtFirst == Init => FileInv
<1>1. Init => LabsWithClients = {}
      BY DEF Init, LabsWithClients, Rows
<1>2. Init => FileOrdered
      BY <1>1, NothingToRender, ClientAssumption
      DEF Init, SupervisorInit, FileOrdered, OneSyncs, Progress, Current, Syncing, EmptyFile
<1> QED  BY <1>2, InitTypes DEF FileInv

\* The clients file holds exactly the clients of the control plane, of every lab,
\* whenever nobody syncs, unless syncs overlapped or failed since the last that ran
\* alone: whatever crashes, and however the container restarts.
THEOREM ClientApplyFile == Spec => []FileIsCurrent
<1>1. Init => FileInv
      BY FileAtFirst
<1>2. FileInv => FileIsCurrent
      BY DEF FileInv, FileOrdered, Current, FileIsCurrent
<1> QED  BY <1>1, <1>2, FileInductive, PTL DEF Spec

----------------------------------------------------------------------------
(***************************************************************************)
(* The server follows.  No sync overlaps with another one or fails, the    *)
(* API does not crash, and the server never starts between the two halves  *)
(* of a write; requests still overlap up to their syncs, fail outside of   *)
(* them, and the container restarts at any time.                           *)
(***************************************************************************)

Undisturbed == (Steps \/ \E w \in Workers : Fail(w)) /\ UntornRead /\ ~unordered'

UndisturbedSpec == Init /\ [][Undisturbed]_vars

\* w will raise restart.request.
Asking(w) == changed[w] /\ pc[w] \in {"truncate", "fill", "nas", "flag"}

\* The server runs with what the file holds or is about to hold, or is going to be
\* restarted.
Serving ==
    (Watching /\ ~restart) =>
        \/ loaded.entries = disk.entries /\ \A w \in Workers : pc[w] # "fill"
        \/ \E w \in Workers : Asking(w)
        \/ \E w \in Workers : pc[w] = "fill" /\ loaded.entries = content[w].entries

\* A sync that found no difference writes what is there, so does one without clients,
\* and no client that a sync read is deleted while it runs.
Ready(w) ==
    /\ (pc[w] = "truncate" /\ ~changed[w]) => disk = content[w]
    /\ pc[w] = "comment" => disk.entries = {}
    /\ pc[w] \in {"compare", "truncate", "fill", "nas"} => mine[w] \subseteq Rows

AppliedInv == FileInv /\ ~unordered /\ (\A w \in Workers : Ready(w)) /\ Serving

\* Where nobody writes the file, it stays so with the server, the flag and the file.
LEMMA ServingFrame ==
    ASSUME Serving, UNCHANGED <<disk, loaded, restart, sup>>,
           \A w \in Workers : \/ UNCHANGED <<pc[w], changed[w], content[w]>>
                              \/ pc[w] \notin {"truncate", "fill", "nas", "flag"} /\ pc[w]' # "fill"
    PROVE  Serving'
BY DEF Serving, Watching, Asking

\* What a worker has not touched stays ready.
LEMMA ReadyFrame ==
    ASSUME NEW w \in Workers, Ready(w), UNCHANGED <<clients, disk>>,
           UNCHANGED <<pc[w], changed[w], content[w], mine[w]>>
    PROVE  Ready(w)'
BY DEF Ready, Rows

\* A worker that is not syncing, or only begins to, is ready.
LEMMA ReadyAtRest ==
    ASSUME NEW w \in Workers, pc[w]' \notin {"compare", "truncate", "fill", "nas", "comment"}
    PROVE  Ready(w)'
BY DEF Ready

\* A request that begins: nobody else syncs if it does.
LEMMA BeginServes ==
    ASSUME AppliedInv, ~unordered', NEW r \in Requests,
           Begin(r) \/ CreateCommit(r) \/ UpdateCommit(r)
    PROVE  Serving' /\ \A w \in Workers : Ready(w)'
<1> USE RequestsAreWorkers
<1>a. /\ DOMAIN pc = Workers /\ DOMAIN changed = Workers /\ DOMAIN content = Workers
      /\ DOMAIN mine = Workers /\ Serving /\ FileOrdered
      BY DEF AppliedInv, FileInv, TInv, TypeOK
<1>1. /\ UNCHANGED supervisorVars
      /\ pc[r] \in {"idle", "create", "update"}
      /\ pc[r]' \in {"idle", "create", "update", "sync", "comment"}
      /\ \A w \in Workers \ {r} : UNCHANGED <<pc[w], changed[w], content[w], mine[w]>>
      BY <1>a DEF Begin, CreateCheck, UpdateCheck, DeleteClient, SyncLab, SyncEveryLab,
         CreateCommit, UpdateCommit, StartSync, Starts, Goto, Finish
<1>2. Serving'
      BY <1>a, <1>1, ServingFrame DEF supervisorVars
<1>3. pc[r]' = "comment" => disk'.entries = {}
  <2> SUFFICES ASSUME pc[r]' = "comment" PROVE disk'.entries = {}
      OBVIOUS
  <2>1. SyncEveryLab(r) /\ LabsWithClients = {}
        BY <1>a DEF Begin, CreateCheck, UpdateCheck, DeleteClient, SyncLab, SyncEveryLab,
           CreateCommit, UpdateCommit, StartSync, Goto, Finish
  <2>2. \A w \in Workers : ~Syncing(w)
        BY <1>1, <2>1 DEF SyncEveryLab, StartSync, OthersSync, Syncing
  <2> QED  BY <1>a, <1>1, <2>1, <2>2, NothingToRender DEF FileOrdered, Current, supervisorVars
<1>4. Ready(r)'
      BY <1>1, <1>3 DEF Ready
<1>5. ASSUME NEW w \in Workers \ {r} PROVE Ready(w)'
  <2>1. CASE clients' = clients
        BY <1>1, <2>1, ReadyFrame DEF AppliedInv, supervisorVars
  <2>2. CASE clients' # clients
    <3>1. \E label : StartSync(r, label)
          BY <2>2 DEF Begin, CreateCheck, UpdateCheck, DeleteClient, SyncLab, SyncEveryLab,
             CreateCommit, UpdateCommit
    <3>2. ~Syncing(w)
          BY <3>1 DEF StartSync, OthersSync
    <3> QED  BY <1>1, <3>2, ReadyAtRest DEF Syncing
  <2> QED  BY <2>1, <2>2
<1> QED  BY <1>2, <1>4, <1>5

\* A step of the one worker that syncs.
LEMMA ContinueServes ==
    ASSUME AppliedInv, ~unordered', NEW w \in Workers, Continue(w)
    PROVE  Serving' /\ \A v \in Workers : Ready(v)'
<1>a. /\ DOMAIN pc = Workers /\ DOMAIN changed = Workers /\ DOMAIN content = Workers
      /\ DOMAIN mine = Workers /\ Serving /\ FileOrdered /\ Ready(w)
      BY DEF AppliedInv, FileInv, TInv, TypeOK
<1>1. Syncing(w) /\ clients' = clients
      BY DEF Continue, Render, Compare, Truncate, Fill, MirrorNas, RaiseRestart, WriteComment,
         Syncing
<1>2. \A v \in Workers \ {w} :
          /\ ~Syncing(v)
          /\ UNCHANGED <<pc[v], changed[v], content[v], mine[v]>>
  <2>1. \A v \in Workers \ {w} : ~Syncing(v)
        BY <1>a, <1>1 DEF FileOrdered, OneSyncs
  <2> QED  BY <1>a, <2>1 DEF Continue, Render, Compare, Truncate, Fill, MirrorNas,
              RaiseRestart, WriteComment, Goto, Finish, workVars
<1>3. ASSUME NEW v \in Workers \ {w} PROVE Ready(v)'
      BY <1>2, ReadyAtRest DEF Syncing
<1>4. Ready(w)'
  <2>1. CASE Render(w)
        BY <1>a, <2>1 DEF Render, Goto, Ready, Rows
  <2>2. CASE Compare(w)
        BY <1>a, <2>2 DEF Compare, Goto, Ready, Rows, supervisorVars
  <2>3. CASE Truncate(w) \/ Fill(w)
        BY <1>a, <2>3 DEF Truncate, Fill, Goto, Ready, Rows, workVars
  <2>4. CASE MirrorNas(w) \/ RaiseRestart(w) \/ WriteComment(w)
        BY <1>a, <2>4, ReadyAtRest DEF MirrorNas, RaiseRestart, WriteComment, Goto, Finish
  <2> QED  BY <2>1, <2>2, <2>3, <2>4 DEF Continue
<1>5. Serving'
  <2> SUFFICES ASSUME Watching', ~restart' PROVE Serving'
      BY DEF Serving
  <2>a. UNCHANGED <<loaded, sup>>
        BY DEF Continue, Render, Compare, Truncate, Fill, MirrorNas, RaiseRestart,
           WriteComment, supervisorVars
  <2>b. ~restart
    <3>1. CASE RaiseRestart(w)
          BY <3>1 DEF RaiseRestart
    <3> QED  BY <3>1 DEF Continue, Render, Compare, Truncate, Fill, MirrorNas, WriteComment,
                supervisorVars
  <2>1. UNCHANGED <<loaded, sup>> /\ ~restart /\ Watching
        BY <2>a, <2>b DEF Watching
  <2>2. \A v \in Workers \ {w} : pc[v] # "fill" /\ ~Asking(v) /\ pc[v]' # "fill"
        BY <1>2 DEF Asking, Syncing
  <2>3. CASE Render(w)
        BY <1>a, <1>2, <2>3, ServingFrame DEF Render, Goto, supervisorVars
  <2>4. CASE Compare(w)
    <3>1. /\ pc[w]' = "truncate" /\ pc[w] = "compare" /\ disk' = disk
          BY <1>a, <2>4 DEF Compare, Goto, supervisorVars
    <3>2. loaded.entries = disk.entries
          BY <1>a, <2>1, <2>2, <3>1 DEF Serving, Asking
    <3> QED  BY <2>1, <2>2, <3>1, <3>2 DEF Serving
  <2>5. CASE Truncate(w)
    <3>1. /\ pc[w]' = "fill" /\ pc[w] = "truncate" /\ UNCHANGED <<changed, content>>
          BY <1>a, <2>5 DEF Truncate, Goto, workVars
    <3>2. CASE changed[w]
          BY <3>1, <3>2 DEF Serving, Asking
    <3>3. CASE ~changed[w]
      <4>1. loaded.entries = disk.entries /\ disk = content[w]
            BY <1>a, <2>1, <2>2, <3>1, <3>3 DEF Serving, Asking, Ready
      <4> QED  BY <2>1, <3>1, <4>1 DEF Serving
    <3> QED  BY <3>2, <3>3
  <2>6. CASE Fill(w)
    <3>1. /\ pc[w]' = "nas" /\ pc[w] = "fill" /\ UNCHANGED <<changed, content>>
          /\ disk' = content[w]
          BY <1>a, <2>6 DEF Fill, Goto, workVars
    <3>2. CASE changed[w]
          BY <3>1, <3>2 DEF Serving, Asking
    <3>3. CASE ~changed[w]
      <4>1. loaded.entries = content[w].entries
            BY <1>a, <2>1, <2>2, <3>1, <3>3 DEF Serving, Asking
      <4> QED  BY <2>1, <2>2, <3>1, <4>1 DEF Serving
    <3> QED  BY <3>2, <3>3
  <2>7. CASE MirrorNas(w)
    <3>1. /\ pc[w]' = "flag" /\ pc[w] = "nas" /\ UNCHANGED <<changed, content, disk>>
          BY <1>a, <2>7 DEF MirrorNas, Ready, Goto, workVars, supervisorVars
    <3> QED  BY <1>a, <2>1, <2>2, <3>1 DEF Serving, Asking
  <2>8. CASE RaiseRestart(w)
    <3>1. /\ pc[w]' \in {"idle", "sync"} /\ pc[w] = "flag" /\ ~changed[w] /\ disk' = disk
          BY <1>a, <2>8 DEF RaiseRestart, MustRestart, Goto
    <3>2. loaded.entries = disk.entries
          BY <1>a, <2>1, <2>2, <3>1 DEF Serving, Asking
    <3> QED  BY <2>1, <2>2, <3>1, <3>2 DEF Serving
  <2>9. CASE WriteComment(w)
    <3>1. /\ pc[w]' = "idle" /\ pc[w] = "comment" /\ disk'.entries = {} /\ disk.entries = {}
          BY <1>a, <2>9 DEF WriteComment, Comment, Ready, Goto
    <3>2. loaded.entries = disk.entries
          BY <1>a, <2>1, <2>2, <3>1 DEF Serving, Asking
    <3> QED  BY <2>1, <2>2, <3>1, <3>2 DEF Serving
  <2> QED  BY <2>3, <2>4, <2>5, <2>6, <2>7, <2>8, <2>9 DEF Continue
<1> QED  BY <1>3, <1>4, <1>5

\* A step of the supervisor or of the container.
LEMMA SupervisorServes ==
    ASSUME AppliedInv, ~Combine, Supervised \/ Rebooted, UntornRead
    PROVE  Serving' /\ \A v \in Workers : Ready(v)'
<1>1. UNCHANGED <<clients, pc, changed, content, mine, disk>>
      BY DEF Supervised, Rebooted, Supervise, ContainerRestart, Configure, ClearFlags,
         LoadConfig, PollUpdated, PollRestart, workVars
<1>2. \A v \in Workers : Ready(v)'
      BY <1>1, ReadyFrame DEF AppliedInv
<1>3. Serving'
  <2>1. CASE LoadConfig
    <3>1. \A w \in Workers : pc[w] # "fill"
          BY <2>1 DEF LoadConfig, UntornRead
    <3> QED  BY <1>1, <2>1, <3>1 DEF LoadConfig, Serving
  <2>2. CASE \/ Configure("boot", "clear") \/ Configure("stop", "clear") \/ ClearFlags
             \/ ContainerRestart \/ (PollRestart /\ restart)
        BY <2>2 DEF Configure, ClearFlags, ContainerRestart, PollRestart, Watching, Serving
  <2>3. CASE \/ Configure("reconfigure", "check") \/ PollUpdated
             \/ (PollRestart /\ ~restart)
    <3>1. loaded' = loaded /\ Watching /\ (~restart' => ~restart)
          BY <2>3 DEF Configure, PollUpdated, PollRestart, Watching
    <3> QED  BY <1>1, <3>1 DEF AppliedInv, Serving, Asking
  <2> QED  BY <2>1, <2>2, <2>3 DEF Supervised, Rebooted, Supervise
<1> QED  BY <1>2, <1>3

\* AppliedInv is inductive.
LEMMA AppliedStep ==
    ASSUME AppliedInv, ~Combine, [Undisturbed]_vars
    PROVE  AppliedInv'
<1>1. CASE UNCHANGED vars
  <2>1. UNCHANGED <<supervisorVars, clients, pc, changed, content, mine, unordered>>
        BY <1>1 DEF vars, workVars
  <2>2. FileInv'
        BY <1>1, FileInductive DEF AppliedInv
  <2>3. Serving'
        BY <2>1 DEF AppliedInv, Serving, Asking, Watching, supervisorVars
  <2>4. \A w \in Workers : Ready(w)'
        BY <2>1, ReadyFrame DEF AppliedInv, supervisorVars
  <2> QED  BY <2>1, <2>2, <2>3, <2>4 DEF AppliedInv
<1>2. CASE Undisturbed
  <2>1. FileInv' /\ ~unordered'
        BY <1>2, FileInductive DEF AppliedInv, Undisturbed, Next, Fault
  <2>2. Serving' /\ \A w \in Workers : Ready(w)'
    <3>1. ASSUME NEW r \in Requests, Begin(r) \/ CreateCommit(r) \/ UpdateCommit(r)
          PROVE  Serving' /\ \A w \in Workers : Ready(w)'
          BY <2>1, <3>1, BeginServes
    <3>2. ASSUME NEW w \in Workers, Continue(w)
          PROVE  Serving' /\ \A v \in Workers : Ready(v)'
          BY <2>1, <3>2, ContinueServes
    <3>3. ASSUME NEW w \in Workers, Fail(w)
          PROVE  Serving' /\ \A v \in Workers : Ready(v)'
      <4>1. /\ UNCHANGED <<supervisorVars, clients>> /\ ~Syncing(w)
            BY <2>1, <3>3 DEF Fail
      <4>2. /\ pc[w]' = "idle"
            /\ \A v \in Workers \ {w} : UNCHANGED <<pc[v], changed[v], content[v], mine[v]>>
            BY <3>3 DEF Fail, Finish, Goto, AppliedInv, FileInv, TInv, TypeOK
      <4>3. Serving'
            BY <4>1, <4>2, ServingFrame DEF AppliedInv, Syncing, supervisorVars
      <4>4. ASSUME NEW v \in Workers PROVE Ready(v)'
            BY <4>1, <4>2, ReadyFrame, ReadyAtRest DEF AppliedInv, supervisorVars
      <4> QED  BY <4>3, <4>4
    <3>4. CASE Serve
      <4>1. UNCHANGED <<supervisorVars, clients, pc, changed, content, mine>>
            BY <3>4 DEF Serve, workVars
      <4>2. Serving'
            BY <4>1, ServingFrame DEF AppliedInv, supervisorVars
      <4>3. \A w \in Workers : Ready(w)'
            BY <4>1, ReadyFrame DEF AppliedInv, supervisorVars
      <4> QED  BY <4>2, <4>3
    <3>5. CASE Supervised \/ Rebooted
          BY <1>2, <3>5, SupervisorServes DEF Undisturbed
    <3> QED  BY <1>2, <3>1, <3>2, <3>3, <3>4, <3>5 DEF Undisturbed, Steps, Work
  <2> QED  BY <2>1, <2>2 DEF AppliedInv
<1> QED  BY <1>1, <1>2

\* sync_radius_clients and start_freeradius: where no sync overlaps with another one or
\* is cut short, no change of a client is forgotten between the file, the flag and the
\* restart, wherever the restarts of the server and of its container fall.
THEOREM ClientApplyApplied ==
    ASSUME ~Combine
    PROVE  UndisturbedSpec => []Applied
<1>1. Init => AppliedInv
  <2> SUFFICES ASSUME Init PROVE AppliedInv
      OBVIOUS
  <2>1. FileInv /\ ~unordered
        BY FileAtFirst DEF Init
  <2>2. (\A w \in Workers : pc[w] = "idle") /\ ~Watching
        BY DEF Init, SupervisorInit, Watching
  <2> QED  BY <2>1, <2>2 DEF AppliedInv, Ready, Serving
<1>2. AppliedInv /\ [Undisturbed]_vars => AppliedInv'
      BY AppliedStep
<1>3. AppliedInv => Applied
  <2> SUFFICES ASSUME AppliedInv, AllIdle, Watching, ~restart
               PROVE  loaded.entries = Rendered.entries
      BY DEF Applied
  <2>1. loaded.entries = disk.entries
        BY DEF AppliedInv, Serving, AllIdle, Asking
  <2>2. \A w \in Workers : ~Syncing(w)
        BY DEF AllIdle, Syncing
  <2> QED  BY <2>1, <2>2 DEF AppliedInv, FileInv, FileOrdered, Current
<1> QED  BY <1>1, <1>2, <1>3, PTL DEF UndisturbedSpec

=============================================================================
