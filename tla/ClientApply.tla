----------------------------- MODULE ClientApply ----------------------------
(***************************************************************************)
(* How RADIUS clients (switches, access points) reach FreeRADIUS.          *)
(*                                                                         *)
(* A request commits its change of radius_clients and then runs            *)
(* sync_radius_clients: read every client, render the clients file, find   *)
(* out whether the file changes, write it, rebuild the rows of the table   *)
(* nas for one lab, and raise restart.request if the file changed.  The    *)
(* start-up task does the same for every lab that has clients.  Requests   *)
(* run in a thread pool, so all of this overlaps.                          *)
(*                                                                         *)
(* Abstractions.  The file is the set of its client entries.  Clients are  *)
(* numbered in the order of their names, the order the render uses.  The   *)
(* rows of nas are left out (FreeRADIUS runs with read_clients = no); what *)
(* remains of them is that rebuilding them fails when a client of the lab  *)
(* was deleted since it was read.                                          *)
(***************************************************************************)
EXTENDS Naturals, FiniteSets, Supervisor

CONSTANTS
    ClientIds,  \* clients, numbered in the order of their names
    Labs,
    Addrs,      \* source addresses, as client_address normalises them
    Secrets,
    Requests,   \* thread-pool slots that serve API requests
    Boot,       \* the start-up task of the API process
    NoClient    \* "no such row"

Workers == Requests \cup {Boot}

ClientRow == [lab: Labs, addr: Addrs, secret: Secrets, enabled: BOOLEAN]

Entry == [client: ClientIds, addr: Addrs, secret: Secrets]

\* The text of the file: empty while it is being written, the comment of a
\* start without clients, or the rendered entries.
FileContents ==
    [text: {"empty", "comment"}, entries: {{}}] \cup
    [text: {"rendered"}, entries: SUBSET Entry]

EmptyFile == [text |-> "empty", entries |-> {}]

Comment == [text |-> "comment", entries |-> {}]

ASSUME ClientAssumption ==
    /\ ClientIds \subseteq Nat
    /\ Boot \notin Requests
    /\ NoClient \notin ClientIds \cup ClientRow
    /\ Contents = FileContents
    /\ Blank = EmptyFile

VARIABLES
    clients,    \* clients[c]: the committed row of radius_clients, or NoClient
    up,         \* the API accepts requests (start-up has finished)
    pc,         \* pc[w]: where worker w is
    target,     \* target[w]: the client w updates
    loadedRow,  \* loadedRow[w]: the row of that client when w loaded it
    payload,    \* payload[w]: the row w is about to commit
    todo,       \* todo[w]: labs w still has to sync
    lab,        \* lab[w]: the lab w is syncing
    mine,       \* mine[w]: the clients of that lab when w read them
    content,    \* content[w]: what w rendered
    changed,    \* changed[w]: the file differed from it
    unordered   \* history: the file may be behind, since syncs overlapped or failed

workVars == <<target, loadedRow, payload, todo, lab, mine, content, changed>>
vars == <<supervisorVars, clients, up, pc, workVars, unordered>>

----------------------------------------------------------------------------
Rows == {c \in ClientIds : clients[c] # NoClient}

EnabledRows == {c \in Rows : clients[c].enabled}

LabsWithClients == {clients[c].lab : c \in Rows}

\* An address nobody else answers for, as a request finds when it looks.
AddressIsFree(addr, exclude) ==
    \A c \in EnabledRows \ exclude : clients[c].addr # addr

\* Wrong on purpose (every enabled client is rendered).
Deduped_KeepsAll == EnabledRows

\* dedupe_clients_by_address: the first enabled client of each address.
Deduped ==
    {c \in EnabledRows :
        \A d \in EnabledRows : d < c => clients[d].addr # clients[c].addr}

\* w will still write the file, or raise the flag for what it wrote.
Syncing(w) ==
    pc[w] \in {"sync", "compare", "truncate", "fill", "nas", "flag", "comment"}

OthersSync(w) == \E v \in Workers \ {w} : Syncing(v)

Rendered ==
    [text |-> "rendered",
     entries |-> {[client |-> c, addr |-> clients[c].addr, secret |-> clients[c].secret] :
                     c \in Deduped}]

TypeOK ==
    /\ SupervisorTypeOK
    /\ clients \in [ClientIds -> ClientRow \cup {NoClient}]
    /\ up \in BOOLEAN
    /\ pc \in [Workers -> {"idle", "create", "update", "sync", "compare", "truncate",
                           "fill", "nas", "flag", "comment"}]
    /\ target \in [Workers -> ClientIds \cup {NoClient}]
    /\ loadedRow \in [Workers -> ClientRow \cup {NoClient}]
    /\ payload \in [Workers -> ClientRow \cup {NoClient}]
    /\ todo \in [Workers -> SUBSET Labs]
    /\ lab \in [Workers -> Labs \cup {NoClient}]
    /\ mine \in [Workers -> SUBSET ClientIds]
    /\ content \in [Workers -> FileContents]
    /\ changed \in [Workers -> BOOLEAN]
    /\ unordered \in BOOLEAN

Init ==
    /\ SupervisorInit
    /\ clients = [c \in ClientIds |-> NoClient]
    /\ up = TRUE
    /\ pc = [w \in Workers |-> "idle"]
    /\ target = [w \in Workers |-> NoClient]
    /\ loadedRow = [w \in Workers |-> NoClient]
    /\ payload = [w \in Workers |-> NoClient]
    /\ todo = [w \in Workers |-> {}]
    /\ lab = [w \in Workers |-> NoClient]
    /\ mine = [w \in Workers |-> {}]
    /\ content = [w \in Workers |-> EmptyFile]
    /\ changed = [w \in Workers |-> FALSE]
    /\ unordered = FALSE

----------------------------------------------------------------------------
(***************************************************************************)
(* Changing radius_clients.                                                *)
(***************************************************************************)

Starts(r) == up /\ pc[r] = "idle"

Goto(w, label) == pc' = [pc EXCEPT ![w] = label]

\* w starts to sync.
StartSync(w, label) ==
    /\ Goto(w, label)
    /\ unordered' = (unordered \/ OthersSync(w))

\* create_client looks whether the address is free (of an enabled client) ...
CreateCheck(r) ==
    /\ Starts(r)
    /\ \E x \in ClientRow :
           /\ x.enabled => AddressIsFree(x.addr, {})
           /\ payload' = [payload EXCEPT ![r] = x]
    /\ Goto(r, "create")
    /\ UNCHANGED <<supervisorVars, clients, up, target, loadedRow, todo, lab, mine,
                   content, changed, unordered>>

\* ... and commits the row; no constraint of the table repeats the check.  A
\* key that a request still holds is not used again.
CreateCommit(r) ==
    /\ pc[r] = "create"
    /\ \E c \in ClientIds \ Rows :
           /\ \A w \in Workers : c # target[w] /\ c \notin mine[w]
           /\ clients' = [clients EXCEPT ![c] = payload[r]]
    /\ todo' = [todo EXCEPT ![r] = {payload[r].lab}]
    /\ payload' = [payload EXCEPT ![r] = NoClient]
    /\ StartSync(r, "sync")
    /\ UNCHANGED <<supervisorVars, up, target, loadedRow, lab, mine, content, changed>>

\* PATCH /clients/{id} loads the row, applies the payload to it and looks
\* whether the address it will have is free.
UpdateCheck(r) ==
    /\ Starts(r)
    /\ \E c \in Rows, x \in ClientRow :
           /\ x.lab = clients[c].lab
           /\ x.enabled => AddressIsFree(x.addr, {c})
           /\ target' = [target EXCEPT ![r] = c]
           /\ loadedRow' = [loadedRow EXCEPT ![r] = clients[c]]
           /\ payload' = [payload EXCEPT ![r] = x]
    /\ Goto(r, "update")
    /\ UNCHANGED <<supervisorVars, clients, up, todo, lab, mine, content, changed,
                   unordered>>

\* Wrong on purpose (the updated row loses its lab).
Merged_LosesLab(old, new, now) ==
    [f \in DOMAIN now \ {"lab"} |-> IF new[f] # old[f] THEN new[f] ELSE now[f]]

\* Columns whose value the payload does not change are not written.
Merged(old, new, now) ==
    [f \in DOMAIN now |-> IF new[f] # old[f] THEN new[f] ELSE now[f]]

\* The handler ends, normally or by an exception.
Finish(w) ==
    /\ Goto(w, "idle")
    /\ target' = [target EXCEPT ![w] = NoClient]
    /\ loadedRow' = [loadedRow EXCEPT ![w] = NoClient]
    /\ payload' = [payload EXCEPT ![w] = NoClient]
    /\ todo' = [todo EXCEPT ![w] = {}]
    /\ lab' = [lab EXCEPT ![w] = NoClient]
    /\ mine' = [mine EXCEPT ![w] = {}]
    /\ content' = [content EXCEPT ![w] = EmptyFile]
    /\ changed' = [changed EXCEPT ![w] = FALSE]

\* update_client commits, or raises when the row was deleted meanwhile.
UpdateCommit(r) ==
    /\ pc[r] = "update"
    /\ UNCHANGED <<supervisorVars, up>>
    /\ \/ /\ clients[target[r]] = NoClient
          /\ Finish(r)
          /\ UNCHANGED <<clients, unordered>>
       \/ /\ clients[target[r]] # NoClient
          /\ clients' = [clients EXCEPT
                 ![target[r]] = Merged(loadedRow[r], payload[r], clients[target[r]])]
          /\ todo' = [todo EXCEPT ![r] = {payload[r].lab}]
          /\ target' = [target EXCEPT ![r] = NoClient]
          /\ loadedRow' = [loadedRow EXCEPT ![r] = NoClient]
          /\ payload' = [payload EXCEPT ![r] = NoClient]
          /\ StartSync(r, "sync")
          /\ UNCHANGED <<lab, mine, content, changed>>

\* delete_client commits the removal; the lab is still to be synced.
DeleteClient(r) ==
    /\ Starts(r)
    /\ \E c \in Rows :
           /\ clients' = [clients EXCEPT ![c] = NoClient]
           /\ todo' = [todo EXCEPT ![r] = {clients[c].lab}]
    /\ StartSync(r, "sync")
    /\ UNCHANGED <<supervisorVars, up, target, loadedRow, payload, lab, mine, content,
                   changed>>

\* POST /freeradius/sync for one lab.
SyncLab(r) ==
    /\ Starts(r)
    /\ \E l \in Labs : todo' = [todo EXCEPT ![r] = {l}]
    /\ StartSync(r, "sync")
    /\ UNCHANGED <<supervisorVars, clients, up, target, loadedRow, payload, lab, mine,
                   content, changed>>

\* bootstrap_radius_runtime, for POST /freeradius/sync without a lab.
SyncEveryLab(r) ==
    /\ Starts(r)
    /\ todo' = [todo EXCEPT ![r] = LabsWithClients]
    /\ StartSync(r, IF LabsWithClients = {} THEN "comment" ELSE "sync")
    /\ UNCHANGED <<supervisorVars, clients, up, target, loadedRow, payload, lab, mine,
                   content, changed>>

\* Without any client it writes a comment, and asks for no restart.
WriteComment(w) ==
    /\ pc[w] = "comment"
    /\ disk' = Comment
    /\ Goto(w, "idle")
    /\ UNCHANGED <<prepared, loaded, updated, restart, sup, clients, up, workVars,
                   unordered>>

----------------------------------------------------------------------------
(***************************************************************************)
(* sync_radius_clients.                                                    *)
(***************************************************************************)

\* Wrong on purpose (the file is rendered from the synced lab's clients).
Content_OwnLab(l) ==
    [Rendered EXCEPT !.entries = {e \in @ : clients[e.client].lab = l}]

\* What the sync of lab l renders: always the clients of every lab.
Content(l) == Rendered

\* Read every client and render.
Render(w) ==
    /\ pc[w] = "sync"
    /\ \E l \in todo[w] :
           /\ lab' = [lab EXCEPT ![w] = l]
           /\ mine' = [mine EXCEPT ![w] = {c \in Rows : clients[c].lab = l}]
           /\ content' = [content EXCEPT ![w] = Content(l)]
    /\ Goto(w, "compare")
    /\ unordered' = (unordered /\ OthersSync(w))
    /\ UNCHANGED <<supervisorVars, clients, up, target, loadedRow, payload, todo, changed>>

\* Does the file differ?
Compare(w) ==
    /\ pc[w] = "compare"
    /\ changed' = [changed EXCEPT ![w] = disk # content[w]]
    /\ Goto(w, "truncate")
    /\ UNCHANGED <<supervisorVars, clients, up, target, loadedRow, payload, todo, lab,
                   mine, content, unordered>>

\* Path.write_text opens the file, which empties it, ...
Truncate(w) ==
    /\ pc[w] = "truncate"
    /\ disk' = EmptyFile
    /\ Goto(w, "fill")
    /\ UNCHANGED <<prepared, loaded, updated, restart, sup, clients, up, workVars,
                   unordered>>

\* ... and writes it.
Fill(w) ==
    /\ pc[w] = "fill"
    /\ disk' = content[w]
    /\ Goto(w, "nas")
    /\ UNCHANGED <<prepared, loaded, updated, restart, sup, clients, up, workVars,
                   unordered>>

\* The rows of nas, one commit after another; each commit expires the clients
\* that were read, and one that was deleted since cannot be read again.
MirrorNas(w) ==
    /\ pc[w] = "nas"
    /\ UNCHANGED <<supervisorVars, clients, up, unordered>>
    /\ \/ /\ mine[w] \subseteq Rows
          /\ Goto(w, "flag")
          /\ UNCHANGED workVars
       \/ /\ ~(mine[w] \subseteq Rows)
          /\ Finish(w)

\* Wrong on purpose (only an empty file asks for a restart).
MustRestart_WhenEmpty(w) == changed[w] /\ content[w].entries = {}

MustRestart(w) == changed[w]

RaiseRestart(w) ==
    /\ pc[w] = "flag"
    /\ restart' = (restart \/ MustRestart(w))
    /\ todo' = [todo EXCEPT ![w] = @ \ {lab[w]}]
    /\ Goto(w, IF todo[w] = {lab[w]} THEN "idle" ELSE "sync")
    /\ lab' = [lab EXCEPT ![w] = NoClient]
    /\ mine' = [mine EXCEPT ![w] = {}]
    /\ content' = [content EXCEPT ![w] = EmptyFile]
    /\ changed' = [changed EXCEPT ![w] = FALSE]
    /\ UNCHANGED <<disk, prepared, loaded, updated, sup, clients, up, target, loadedRow,
                   payload, unordered>>

----------------------------------------------------------------------------
(***************************************************************************)
(* Failures of the API process.                                            *)
(***************************************************************************)

\* A database or file error ends one request.
Fail(w) ==
    /\ pc[w] # "idle"
    /\ Finish(w)
    /\ unordered' = (unordered \/ Syncing(w))
    /\ UNCHANGED <<supervisorVars, clients, up>>

\* A crash or redeploy ends all of them; the new process renders before it
\* serves.
Crash ==
    /\ up' = FALSE
    /\ pc' = [w \in Workers |->
                 IF w # Boot THEN "idle"
                 ELSE IF LabsWithClients = {} THEN "comment" ELSE "sync"]
    /\ target' = [w \in Workers |-> NoClient]
    /\ loadedRow' = [w \in Workers |-> NoClient]
    /\ payload' = [w \in Workers |-> NoClient]
    /\ todo' = [w \in Workers |-> IF w = Boot THEN LabsWithClients ELSE {}]
    /\ lab' = [w \in Workers |-> NoClient]
    /\ mine' = [w \in Workers |-> {}]
    /\ content' = [w \in Workers |-> EmptyFile]
    /\ changed' = [w \in Workers |-> FALSE]
    /\ unordered' = FALSE
    /\ UNCHANGED <<supervisorVars, clients>>

Serve ==
    /\ ~up
    /\ pc[Boot] = "idle"
    /\ up' = TRUE
    /\ UNCHANGED <<supervisorVars, clients, pc, workVars, unordered>>

Supervised == Supervise /\ UNCHANGED <<clients, up, pc, workVars, unordered>>

Rebooted == ContainerRestart /\ UNCHANGED <<clients, up, pc, workVars, unordered>>

----------------------------------------------------------------------------
Begin(r) ==
    \/ CreateCheck(r) \/ UpdateCheck(r) \/ DeleteClient(r)
    \/ SyncLab(r) \/ SyncEveryLab(r)

Continue(w) ==
    \/ Render(w) \/ Compare(w) \/ Truncate(w) \/ Fill(w) \/ MirrorNas(w)
    \/ RaiseRestart(w) \/ WriteComment(w)

Work ==
    \/ \E r \in Requests : Begin(r) \/ CreateCommit(r) \/ UpdateCommit(r)
    \/ \E w \in Workers : Continue(w)
    \/ Serve

\* The container may restart at any time; the API process may crash and its
\* requests may fail.
Steps == Work \/ Supervised \/ Rebooted

Fault == Crash \/ \E w \in Workers : Fail(w)

Next == Steps \/ Fault

Spec == Init /\ [][Next]_vars

\* The server never starts in the moment between the two halves of a write.
UntornRead == sup = "load" /\ sup' = "watch" => \A w \in Workers : pc[w] # "fill"

SteadySpec == Init /\ [][Steps /\ UntornRead]_vars

\* With crashes of the API process only.
CrashSpec == Init /\ [][(Steps \/ Crash) /\ UntornRead]_vars

\* The API alone, with failing requests and crashes.
ApiSpec == Init /\ [][Work \/ Fault]_vars

\* The threads of the pool and the supervisor keep running, and the container
\* does not restart for ever before the server has read its configuration.
Fairness ==
    /\ \A w \in Workers : WF_vars(Continue(w))
    /\ \A r \in Requests : WF_vars(CreateCommit(r) \/ UpdateCommit(r))
    /\ WF_vars(Supervised)
    /\ \A s \in {"clear", "load"} : SF_vars(Supervised /\ sup = s)
    /\ WF_vars(Serve)

FairSpec == SteadySpec /\ Fairness

----------------------------------------------------------------------------
(***************************************************************************)
(* Properties.                                                             *)
(***************************************************************************)

AllIdle == \A w \in Workers : pc[w] = "idle"

\* Whatever requests overlap or fail, the file never names an address twice,
\* which would stop FreeRADIUS from starting (the docstring of
\* dedupe_clients_by_address).
NoDuplicateAddress == \A e, f \in disk.entries : e.addr = f.addr => e = f

\* While nobody syncs, the file holds exactly the clients of the control plane, of
\* every lab, unless syncs overlapped or failed; the next sync that runs alone, for
\* whatever lab, and every start of the API make it right again.
FileIsCurrent ==
    (~unordered /\ \A w \in Workers : ~Syncing(w)) => disk.entries = Rendered.entries

\* Once the requests are done and no restart is asked for, the running server
\* has exactly the clients the control plane has: no change of a client is
\* forgotten between the file, the flag and the restart.
Applied ==
    (up /\ AllIdle /\ Watching /\ ~restart) => loaded.entries = Rendered.entries

\* Every change takes effect: the server comes to serve a client that was added
\* or enabled, and stops serving one that was removed, disabled or moved, unless
\* the change is undone before.
ChangeTakesEffect ==
    \A e \in Entry :
        /\ e \in Rendered.entries ~> (e \in loaded.entries \/ e \notin Rendered.entries)
        /\ e \notin Rendered.entries ~> (e \notin loaded.entries \/ e \in Rendered.entries)

=============================================================================
