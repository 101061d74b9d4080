# 802.1X Lab: specifications and proofs

These modules describe how the 802.1X Lab control plane (FastAPI and
PostgreSQL) drives FreeRADIUS, which of its promises hold, and under which
assumptions. They were written from the code under `backend/app` and
`services/freeradius`; line numbers are in `PROJECT.json` ("map").

TLC checks the `MC*.tla` modules with the `.cfg` files of the same prefix.
`tlapm` checks the proofs, which are in the `*Proofs` modules, one for each component
that has theorems. `PROJECT.json` lists the components, runs, hazards, findings
and theorems.

## 1. The system and its parts

The backend is the source of truth. Operators change tables through the API;
the API mirrors them into what FreeRADIUS reads: SQL tables that it queries on
every request, and files on a shared volume that it reads when it starts. The
FreeRADIUS container runs under a shell supervisor that restarts the server on
request. Nothing else connects the two containers. API handlers are synchronous
functions, so FastAPI runs many of them at once in a thread pool, and no lock
orders them; a handler commits its own change first and mirrors it in a later
transaction or file write.

| part | state | operations | hard behaviour | what makes it correct | module |
|---|---|---|---|---|---|
| User mirror (`services/users.py`, `sql_sync.py`, guests) | `radius_users`, `radcheck`, `radusergroup` | create, generate/import/guest, update, delete, resync, start-up resync | overlapping requests, two commits per request, crash between them, user names shared by labs | RADIUS accepts the credential of the active user and nothing else | `UserMirror` |
| RADIUS client apply (`services/clients.py`, `freeradius/sync.py`) | `radius_clients`, clients file, `restart.request` | create, update, delete, sync, bootstrap | check-then-insert, stale renders, torn writes, lost flags | the running server has exactly the enabled clients; no address twice | `ClientApply` |
| FreeRADIUS supervisor (`docker-entrypoint.sh`) | server, flags, combined CA file | start, poll, reconfigure, restart, exit | flags consumed and discarded while publishers write | no published change is forgotten | `Supervisor` |
| Trust store (`tls_trust.py`, `api/ca.py`) | lab files, bundle, flags | publish CA, publish CRL | read-modify-write of the bundle, failures swallowed | every lab's CA and CRL reach the server | `TrustStore` |
| Endpoint mirror (`services/endpoints.py`, `services/policies.py`, `sql_sync.py`) | `endpoints`, `authz_policies`, `radcheck`, `radreply`, `radgroup*` | endpoint and policy changes, resync | as users, and rows keyed by MAC spelling or group name across labs | a MAC gets its policy's reply, a group its policy's | `AuthzMirror` |
| Certificates (`api/ca.py`, `openssl_adapter.py`, `certificates.py`) | CA directory, `certificates` | issue, revoke, sweep, inventory | files and rows change apart; re-issue reuses paths | a revoked certificate is in its CA's index and on the published CRL, and stays there | `Certificates` |
| Log ingestion (`workers/auth_log_ingestion.py`, `log_parse.py`) | the log file, the place in it, `authentication_events`, the connection pool | follow, parse, store | lines read in part, emptied and removed files, restarts, a poll that raises, lines that cannot be stored, a wait for a connection with the event loop in hand | each line becomes at most one event, in order, and none is lost but for a known reason | `LogIngestion`, `EventFeed` |
| Authentication tests (`api/auth_tests.py`, `mab.py`, `eapol.py`) | what a test knows, the connection it holds | look up, prepare, run the tool, wait for the event, answer | devices with the same identity, edits and timeouts meanwhile; the event may never come | what a test reports was granted; test and event give the same reason; every test is answered | `AuthTests` |
| Sessions, CoA (`session_actions.py`, `coa.py`, `coa_sink.py`) | the request, datagrams, the NAS's session | disconnect, push a policy | lost, late and doubled datagrams, edits between reading and sending, a sink on the event loop of the process that waits for it | what is reported happened; a push gives what authentication would | `SessionActions` |
| Reply attributes (`reply_attributes.py`) | none | render a policy | a raw pair in another spelling, blank or twice | each attribute once, and the raw pair wins | `ReplyAttributes` |
| Lab settings (`labs.py`, `wireless.py`, `radius_target.py`) | `labs.name`, `labs.settings` | create, PATCH, profile, target, delete | two services rewrite one JSON column; check-then-write of names | one setting's change keeps the other; names differ whatever their case | `LabSettings` |
| Conditions (`policy_conditions.py`), guests (`guest.py`) | none of their own | validate; create a user and a policy | boundaries; one group name for all labs | | see section 6 |

How the parts touch each other:

- users, endpoints and policies reach the server only through SQL rows, which it
  reads per request: no restart, no flag;
- RADIUS clients and trust material reach it only through files, read at start:
  a publisher writes its file and raises a flag, the supervisor restarts the
  server. `ClientApply` and `TrustStore` share the supervisor and its
  `restart.request`;
- `Certificates` produces the material that `TrustStore` publishes;
- start-up (`main.py`, lifespan) rewrites users, endpoints and groups, renders the
  clients file, and sweeps expired certificates before the API serves, all in one
  `try`: what raises ends the rest, is logged, and the API serves all the same;
- FreeRADIUS logs each accept and reject; the log ingestion makes events of the
  lines, and authentication tests only look for the event of their own attempt
  (`AuthTests` extends `LogIngestion`);
- the ingestion stores events on the event loop, with a connection from the pool of
  the requests. Requests need the loop to be answered and to give their connection
  back, and so does the CoA sink, which answers requests of the same process;
- a push renders the policy as authentication does (`ReplyAttributes`, one function
  in the code);
- guests are users plus a policy, and go through both mirrors.

## 2. The modules

| module | code | state | actions |
|---|---|---|---|
| `UserMirror` | `services/users.py`, `services/freeradius.py`, `sql_sync.py` (users), `main.py` | `users`, `radcheck` committed rows; per worker `pc`, `todo`, its copy `row`, the rows its DELETE saw (`seen`), the names a bulk request found free (`free`) | `CreateUser`, `BulkRead`/`BulkCommit` (generate, CSV, guests), `UpdateUser`, `DeleteLoad`/`DeleteCommit`, `SyncAll`; `SyncRead`, `SyncDelete`, `SyncCommit`, `PurgeDelete`, `PurgeCommit`; `Fail`, `Crash`, `Serve` |
| `AuthzMirror` | `services/endpoints.py`, `services/policies.py`, `sql_sync.py` (endpoints, groups) | `endpoints`, `policies`, `rows` committed; per worker what it has read (`draft`) and what it still owes (`job`) | a check action and a commit action per handler, `RefreshEndpoint`/`RefreshPolicy` (the row is read again after the commit of an update and compared with the key it had before); then `PurgeMac`, `PurgeGroup`, `ListUsers`, `SyncRead/Delete/Render/Commit`, `GroupRead/Delete/Commit`; `SyncAll`, `Start`, `Fail`, `Crash` |
| `Supervisor` | `services/freeradius/docker-entrypoint.sh` | `disk` (the published file), `prepared` (the copy configure_eap_certs makes), `loaded` (what the server read), two flags, `sup` | boot, clear flags, load, poll, reconfigure, stop, container restart |
| `ClientApply` | `services/clients.py`, `freeradius/sync.py`, bootstrap | `clients` committed; per worker rendered content and stage; extends `Supervisor` | check/commit per handler, render, compare, truncate, fill, nas, flag; `Fail`, `Crash` |
| `TrustStore` | `tls_trust.py`, `api/ca.py` publication | `issued`, `labfile`; per request, any number of them at once, its lab, the material it read and the bundle it gathered; extends `Supervisor` | change, republish, read, lab file, gather, compare, write, mark, flag, `Fail` |
| `Certificates` | `api/ca.py`, `openssl_adapter.py`, `certificates.py` | files by path, one index per CA, CRL, inventory rows, sweepers' lists | issue, ensure intermediate, sign, record; revoke, fall back to the root (after any failure), CRL, mark, publish; download; sweep; `Fail` |
| `EventFeed` | what the event list promises | how many attempts were logged, dealt with, and the events | one step: log one more, deal with some, show at most one of these |
| `LogIngestion` | `workers/auth_log_ingestion.py`, `log_parse.py`, `mab.py` (reasons), `db.py` | the file (`log`, `base`, `partial`; a line may be read while it is cut in any of its fields), the task (`offset`, `next`, `last`, `torn`), `events`, the endpoint list as far as reasons need it, connections held | `Write`, `WriteRest`, `Truncate`; `Start`, `Poll`, `PollRaises`, `Ingest`, `IngestFails`, `PoolTimeout`, `Stop` |
| `AuthTests` | `api/auth_tests.py`, `mab.py`, `eapol.py`; extends `LogIngestion` | per test where it is, what it knows, its report; connections, a clock | `Begin`, `Resolve`, `Prepare`, `Answer`, `ToolEnds`, `ToolRaises`, `WaitConnects`, `FindEvent`, `GiveUp`, `NoConnection`, `Close`; devices, edits, other requests, `Crash` |
| `ReplyAttributes` | `reply_attributes.py` | none | `RenderedPolicy` and a reference for it, `RendersWhatIsWanted` |
| `SessionActions` | `session_actions.py` (service and API), `coa.py`, `coa_sink.py`; extends `ReplyAttributes` | rows it reads, sessions of the NASes, datagrams, per request stage and what it has read, the event loop | `Ask`, `Locate`, `Compose`, `Send`, `Hear`, `HearNothing`, `Tell`, `Refuse`, `Close`; `NasGets`, `SinkGets`, `Lose`, `Authenticate`, `Edit`, `LoopTaken`, `LoopFreed`, `SessionCrash`, `SessionStart` |
| `LabSettings` | `services/labs.py`, `wireless.py`, `radius_target.py`, `api/labs.py` | `labs` rows; per request its change, the row it loaded, its stage | `LabBegin`, `LabCheckName`, `LabRefuse`, `LabInsert`, `LabUpdate`, `LabDelete` |

The grain is the same everywhere. An action is what the code does atomically: one
SQL statement or commit that others can observe, one file write, one look at a
flag. A handler is a program counter per worker (`pc`), and workers interleave.
What a handler has read and still uses is a variable of that worker, so a stale
copy is visible as such. PostgreSQL runs at READ COMMITTED (`db.py` sets no other
level): a DELETE removes rows that were committed when it started, so
`SyncDelete` records them in `seen` and the commit removes exactly those.

`Requests` are thread-pool slots, `Boot` is the start-up task, `Fail` an exception
anywhere in a handler, `Crash` the end of the process with everything its threads
knew. What is committed or written stays.

History variables (`contested`, `unordered`, `failed`, `silent`, `cut`,
`crossed`, `beside`, `overtaken`, `strayed`, `exempt`, `edited`, `disturbed`, `applied`,
`wanted`, `raced`, the field `whole` of an event) are read by properties only. They mark what the code leaves without
an order, so that each property says exactly what the code can promise:

- `contested`: a user name, MAC or group that two workers were busy with, that has
  two owners, or that a handler gave up on before it was mirrored. A worker that
  rewrites the key alone takes the mark away. In `AuthzMirror` a key is also contested
  when a handler is to delete the rows of a MAC or a group that it read before its
  commit, which another request has given to another row meanwhile
  (`endpoints.py:142`, `:159-163`, `:168-172`; `policies.py:138`, `:168-172`). Between its
  commit and its refresh a handler counts as going to delete them when the row, as it is
  in the table, no longer has that key, whoever moved it (`Purges`). And a group is
  contested when its rows are
  rendered from a policy row that the session still holds from its commit and that
  another request has changed since (`sql_sync.py:227`);
- `unordered`: two syncs of the clients file overlapped, or one failed; the next sync
  that runs alone takes it away;
- `failed`, `silent`: a publication of a lab was cut short, or was after it had
  written the bundle;
- `crossed`, `beside`: labs that were published beside another publication, until one
  of theirs runs alone to its end; requests beside which another one publishes;
- `cut`: a revocation ended before it was published;
- `overtaken`: rows revoked while a sweep held them in its list;
- `strayed`: certificates for which `openssl ca -revoke` failed under the intermediate's
  configuration though its index did not show them as revoked, until it enters them;
- `exempt`: lines for which the code promises no event: nobody followed the file, it
  was emptied first, the line was read in part or could not be stored; `whole`: whether the
  line of an event was read to its end;
- `edited`: tests during which the endpoint list changed; `disturbed`: session actions
  during which a row was edited or another request acted on a session;
- `applied`: what the NASes did, by the number of the request;
- `wanted`: what each lab was last asked to be, where a request that another one
  overtook counts for what it wrote; `raced`: labs whose name was compared before
  another name was written.

## 3. What each run checks and what it shows

A run is `tlc -config MC<module>_<run>.cfg MC<module>.tla`. "P" runs finish without
an error; a "V" run checks one sentence of the documentation, and TLC shows how
the code departs from it.

| run | instance | checks | shows |
|---|---|---|---|
| `users` P | scenes: two requests and the start-up task on 1 name; or one at a time on 2 names and 2 labs with bulk creation of 2; 2 ids, 1 credential, faults and crashes, fairness | `TypeOK`, `Settled`, `IInv`, `PublishesCurrent`, `DisableTakesEffect` | ordered work on a name is mirrored exactly, whatever overlaps; a disable or a deletion takes effect |
| `users_shared` V | 2 ids, 1 name, 2 labs, no faults | `ActiveIsAccepted` | finding 1 |
| `clients_faults` P | 2 clients, 2 labs, 1 address, 2 requests, faults and crashes | `NoDuplicateAddress`, `FileIsCurrent` | the file is always loadable, and right after each sync that ran alone |
| `clients_crash` V | 1 client, crashes of the API | `Applied` | finding 2 |
| `trust_serial` P | 2 labs; scenes: 2 changes of each, one publication at a time, or one change of each by 2 requests at once, the container stopped; failures, container restarts, fairness | `TypeOK`, `TrustApplied`, `BundleIsComplete`, `NeverRollsBack`, `ChangeIsTrusted` | publications that run alone lose and take back nothing, and overlapping ones harm no lab but their own |
| `trust_crl` V | 1 lab, the CRL copy (`Combine`), no failures | `TrustApplied` | finding 3 |
| `authz_race` P | 2 requests, resyncs among them; scenes: `one` (1 endpoint, 1 MAC, 1 policy that keeps its group), `macs` (2 endpoints on 2 MACs), `groups` (1 policy, 2 groups); failures before the commit only | `Settled`, `PublishesWanted` | as `users`, with rows computed from two tables and keys that move between rows, also between a handler's commit and its refresh; no commit shows rows that are not wanted |
| `authz_effect` P | 2 endpoints on 2 MACs, 1 policy, 1 request or the start-up task at a time, faults and crashes, fairness | `TypeOK`, `Settled`, `ChangeTakesEffect` | with crashes at any step, a policy change reaches each endpoint that uses it |
| `certs_serial` P | 1 name and the intermediate, 3 serials, 2 rows, 1 sweeper, failures, fairness | `TypeOK`, `RevocationReachesCa`, `CrlNeverForgets`, `RevokedStaysRevoked`, `RevocationIsPublished` | what inventory, indexes and CRL agree on, whatever `openssl ca` refuses or fails to do |
| `certs_record` V | the same with 3 rows, no fairness | `RevokedIsRecorded` | finding 4 |
| `events_follow` P | scenes: one EAP-TLS test, or one MAC test with edits, beside devices and other requests; or a file cut, emptied, refused and a process restarted; 2 identities, 2 connections, 2 or 3 lines, fairness | `TypeOK`, `NothingElseIsLost`, `ReportedWereGranted`, `ReasonsAgree`, `FeedIsImplemented`, `LineIsPassed`, `TestIsAnswered` | the ingestion implements the event feed and never stands still; tests report what was granted, or what a read of a part of such a line left of it, and are answered |
| `requests` P | scenes: `clients` (2 clients, one request at a time, container restarts), `race` (2 session actions, 1 NAS, any network), `edits` (one, with an edit), `sink` (one after the other, loop taken, restarts), `policies` (every policy), `labs` (2 labs, 3 requests, 2 at once); fairness | `TypeOK`, `Applied`, `ChangeTakesEffect`; `SessionTypeOK`, `AckWasApplied`, `PushIsWhatAuthGrants`, `RawPairWins`, `ActionIsAnswered`; `LabTypeOK`, `LabNamesDiffer`, `LabKeepsWhatWasSet` | every change of a client reaches the running server; what a session action reports happened, and it is answered; labs keep what was set |

Findings (each with its run in `PROJECT.json`):

1. `radcheck` is rewritten by user name alone. Disabling or deleting a user in one
   lab removes the credential of the active user of that name in another lab.
2. The API process ends after the last client's removal is committed and before the
   clients file is rendered. The next start finds no lab with clients, writes the
   comment file and returns without `request_restart`; the server keeps the client.
3. With CRL enforcement the supervisor combines the files before it stops the server
   and discards `restart.request` as it starts the next one. A CRL published in
   between is in neither.
4. `revoke` acts on the file at the row's path. A re-issue for the same name
   overwrites that file, so revoking the first row revokes the second certificate.
   The same property fails when an intermediate is created between issue and
   revocation: its index is tried first and `openssl ca -revoke` enters the foreign
   serial there.

Each property of a passing run has a mutant in `PROJECT.json`: a definition marked
"Wrong on purpose" that changes one mapped definition as a slip in the code
would, and under which TLC finds the property violated by the same cfg.

### Bounds

Every hazard in the list needs at most two requests that overlap on one key, or one
request and the start-up task; so the racing runs have two requests and one key, and
the runs about several keys have one. Two values of a credential (or of "rendered"
and "not rendered") tell a stale copy from a current one. Two labs or two clients
are needed where code looks at one of many: the other lab's names, the first
client of an address, the bundle.

- `RowIds` in `UserMirror` bounds rows alive at a time, not inserts: an id is used
  again once no DELETE remembers it. Four are one for each of three workers and
  one more.
- `MaxBatch` bounds one bulk request. Two is the least for which the loop over
  the created rows can end early; with one id, or one endpoint, one is the most.
- `MaxIssue` (changes of a lab's material) is 2: stale, current.
- `MaxSerial` is 3: a certificate, its re-issue, and the intermediate. `RowIds`
  of `Certificates` bounds the inventory; a third row is what finding 4 needs when
  the intermediate is there too.

- A `scene` is a variable that is chosen at first and never changes: it says what
  happens in one behaviour, so that one run can look at several small instances
  instead of one product of all. `MCUserMirror`, `MCAuthzMirror`, `MCTrustStore`,
  `MCAuthTests` and `MCRequests` have one. Their modules' theorems say that what the scenes keep apart holds together as
  well.
- Cut lines: `events_follow` has them in its scene of faults, for every line, and in the
  scene of the EAP-TLS test for the test's own accept, after the clock has moved. Beside a MAC test the instance is too
  large with them; `AuthTestsReportGranted` covers it. `Fragments` is one value: what is
  left of a list of attributes that ends too early, unlike any that was granted.
- `crl` of `Certificates` says whether there is a `crl.pem`; what that lists matters at
  publication only, which generates it again.
- One credential tells "a row" from "none" in the scenes of `users`; a stale password
  is the subject of `UserMirrorPublishesCurrent`, for any number of them.
- `MaxLines` is 3 with faults: a line before the offset, one that is cut, one after it;
  beside tests 2, the test's own and a device's. `MaxTime` is 1: before and after the
  test began. `Conns` is 2: the test's and one that is contended.
- `MaxActions` is 2: an answer to the first may come while the second listens.
  `MaxEdits` is 1: any edit disturbs every request that goes on.
- `MaxLabs` is 2, since names differ in pairs; `MaxLabChanges` is 3: a creation and
  two that overlap.

Symmetry is declared only in runs without liveness properties. In `authz_race` the scene
`one` picks its endpoint, MAC and group at first, so that they are interchangeable too.

### Fairness, and what the runs assume

- Weak fairness of the steps of a worker that has begun: threads of the pool and the
  start-up task are scheduled, and a database or file call returns. Beginning a
  request, failing and crashing are never required.
- Weak fairness of the supervisor's step: a shell loop that polls each second.
  Strong fairness of its `clear` and `load` steps: the container may restart again and
  again, but not for ever between booting and the server's reading its configuration.
- `UntornRead` (`requests`, `clients_crash`): the server does not start in the
  moment between truncation and filling of the clients file. The code does not
  exclude it; see section 6.
- One request at a time in the `clients` scene, in the first scene of `trust_serial` and in
  `authz_effect`, and one CA request at a time in `Certificates`. The code has no lock for clients
  and trust material, so what the properties say of overlapping requests is
  excluded by a history variable where possible, and by the instance here.
- Weak fairness of the ingestion (`Follow`), of the steps of tests and session actions,
  of other requests' end (`OtherReturns`) and of the loop's release: threads run, tools,
  pool and radclient have time limits. That the operator, devices or FreeRADIUS do
  anything is never required, nor that a line is written to its end.
- Strong fairness of `Close` in `SessionActions`: the answer is written by the event
  loop, which the ingestion may take again and again; asyncio runs what is ready in
  the order it became so, between one line's batch and the next.
- Deadlock is checked in every run. The scenes that only their bounds end stutter there
  explicitly (`EditsEnd`, `LabsEnd`).
- PostgreSQL: READ COMMITTED, foreign keys as declared. `openssl ca -revoke`
  (external) refuses a certificate that its index shows as revoked, enters an
  unknown one, and may fail for any; `openssl ca -gencrl` lists the index, or fails.

## 4. What is proved

The theorems are about the `Spec` of each module, with its failures, crashes and
container restarts (`ClientApplyApplied` about `UndisturbedSpec`, explained below), and
hold for every value of the constants under the module's named assumption. Each of them
but the lemma-like `PolicyRendersWhatIsWanted` and `EventsComeInOrder` states a property that a run checks on a small instance.

| theorem | property | for any number of |
|---|---|---|
| `UserMirrorTypes`, `UserMirrorInvariant` | `TypeOK`, `IInv` | users, names, labs, requests, rows |
| `UserMirrorSettled` | a name whose requests were ordered and on which nobody works is mirrored exactly | same |
| `UserMirrorPublishesCurrent` | no transaction on such a name publishes a credential that `radius_users` does not hold | same |
| `ClientApplyTypes`, `ClientApplyAddresses` | `TypeOK`; the clients file names no address twice | clients, labs, addresses, requests |
| `ClientApplyFile` | the file is current whenever nobody syncs and syncs were ordered | same |
| `ClientApplyApplied` | while syncs are ordered, the API process stays and no file is read half written, the server serves the published clients, whenever nobody is at work and no restart is asked for | same, with container restarts; without the CRL copy |
| `TrustStoreTypes`, `TrustStoreBundle` | `TypeOK`; the bundle has what every lab issued whose last publication ran alone to its end | labs, changes, requests at once |
| `TrustStoreApplied` | the server runs with it too, once no restart is asked for | same; without the CRL copy |
| `TrustStoreNeverRollsBack` | no step takes back a lab's file or its entry in the bundle, unless the lab was published beside another | same |
| `AuthzMirrorTypes`, `AuthzMirrorSettled` | `TypeOK`; a key whose changes were ordered and that nobody works on has the rows that the two tables say | endpoints, policies, labs, MACs, groups, requests |
| `AuthzMirrorPublishesWanted` | a commit leaves the rows of such a key or makes them what the tables say then | same |
| `CertificatesTypes`, `CertificatesRevocation` | `TypeOK`; a revocation in the inventory is in the signing CA's index, or that CA's run failed on it and the root's index has it | names, serials, rows, sweepers |
| `CertificatesCrl`, `CertificatesSweep` | the CRL only grows; a sweep does not undo a revocation it did not overtake | same |
| `IngestionImplementsFeed`, `EventsComeInOrder`, `IngestionLosesNothingElse` | the ingestion implements `EventFeed`; lines are lost for the known reasons only | lines, identities, labs, connections |
| `AuthTestsTypes`, `AuthTestsImplementFeed`, `AuthTestsLoseNothingElse` | the same of the composition with tests, devices and other requests | and tests |
| `AuthTestsReportGranted`, `AuthTestsReasonsAgree` | reported attributes were granted, or the event's line was read in part and was an accept that granted some; test and event give one reason | same |
| `SessionTypes`, `SessionAckWasApplied`, `SessionPushIsWhatAuthGrants` | an ACK that is reported was applied; an acknowledged push gives what authentication grants | requests, policies, NASes, datagrams, edits |
| `PolicyRendersWhatIsWanted`, `SessionRawPairWins` | a policy renders to one attribute for each name, and the last raw pair of it wins | raw pairs, names, policies |
| `LabsTypes`, `LabsNames`, `LabsKeepSettings` | names differ, settings are kept, unless requests overlapped | labs, names, profiles, requests |

**User mirror** (`ConstantsAssumption`: the start-up task is not a request; `NoUser`
is not a key or a row; `MaxBatch` is a number). `Settled` is not inductive: it says
nothing of a worker in the middle of its transaction. `IInv` adds that. `Shape`
holds for every name: a worker that handles a row has a copy whose name is still the
user's, its DELETE found rows of that name only, and nobody owes a mirroring outside
a sync. `Ordered(n)`, for each name that is not contested, says that one user carries
it, that a copy under way is the committed row, that a deletion under way means that
nobody carries it, and, the heart of it, that rows which a DELETE did not find are
current (`UnseenIsCurrent`): under READ COMMITTED they were inserted beside it, and
by a worker with the same copy. `users` checks `IInv` with TLC too. The proof
goes action by action: `Commits` shows what the three actions that commit rows have
in common, and frame lemmas (`ShapeFrame`, `OrderedFrame`, `WorkerFrame`) say when an
action on one name leaves another alone.

**RADIUS clients** (`ClientAssumption`: client ids are numbers, `NoClient` is neither
an id nor a row, the start-up task is not a request, and the supervisor's files are
clients files, empty at installation; `SupervisorAssumption`). Two
invariants, one for each property. `AddressInv`: the file and everything a worker
may still write name no address twice. It is inductive because only the two halves of
a write and the comment touch the file, contents come from a render only
(`FileStep`, `ContentStep`), and a render keeps the first of the clients that share an
address (`RenderedDistinct`). So the check at creation, which overlapping requests
get round, is not needed for it. `FileInv`: unless syncs overlapped or failed, one
worker syncs at most, what it is about to write is what the committed table renders
to, and if nobody syncs the file is that already. Another worker may begin or end a
request meanwhile, but a commit to the table begins a sync, and with a sync under way
that sets the mark; `FileFrame`, `FileStart` and `FileWork` are the three ways a step
keeps the invariant.

`Applied` needs more than that, and holds for less: `UndisturbedSpec` is the `Spec`
without crashes of the API, without steps that set `unordered` and without reads of a
half-written file (`UntornRead`), but with failures that leave nothing behind, and with
restarts of the container. Each exclusion is a departure: `clients_crash` shows the
crash, section 6 the other two. That no sync is unordered *now* would not do, since
after an overlap a later sync may find the file up to date and ask for no restart.
`AppliedInv` adds to `FileInv` that a sync which found no difference is about to write
what is there (`Ready`), and `Serving`: if the server runs and no restart is asked for,
it has read what the file says, or a worker is going to ask for one (`Asking`), or the
worker that fills the file is writing what the server has read. The flag may be consumed
and discarded at any step of the supervisor, and `Serving` survives because the server
reads the file after the flag is gone. With the CRL copy (`Combine`) it does not, which
is finding 3.

**Trust store** (`TrustAssumption`: `NoLab` is no lab, what the supervisor's files hold are
bundles; `SupervisorAssumption`). `TrustInv` speaks of each lab that is not `crossed`
(`InOrder`): the bundle is not ahead of the lab's file; a bundle that any request has
gathered and not yet written has the material of that file, also when the request
publishes another lab beside a third; once the lab's own publication has written the file, the file has what was
issued; at rest both have, unless the publication was cut short. It needs that
requests at work together know it (`OverlapsMarked`) and that nothing is newer than
what was issued (`NothingInvented`). `BundleIsComplete` is `InOrder` at rest, and
`NeverRollsBack` compares two states of it. For the server `ServerFollows` adds that
without a flag it has read the bundle or a request is about to raise one.

**Endpoints and policies** (`AuthzAssumption`: the start-up task is not a request, MACs
and groups differ, `None` is none of the keys, ids and rows). `Settled` is not inductive for the
reasons it is not in `UserMirror`, and more: what is written comes from two tables, a
worker owes several keys, a policy's row may be held since the commit, and what an
update owes is known only after its refresh: until then it owes the key it had read and
the key of the row as it is in the table (`Purges`). `Shape`
says for every key what a worker at each place may hold and owe, and that
endpoints refer to policies that exist. `Ordered(n)`, for a key that is not contested, says
that no two workers clash on it (`Clashing`), that what every worker has read is current
as far as `n` is concerned (`CopyIsCurrent`, `HeldIsCurrent`, `FoundIsCurrent`), that its
DELETE saw all rows of `n` and its new rows are what the tables say (`NewIsCurrent`), and
that the mirror has what they say when nobody owes the key. `Steps` reduces the
actions to kinds: a check, a commit that owes each key it touches (`Committed`), an
error, a refresh, a purge, a turn from one part of what is owed to the next, and the parts of the
two loops. `OrderedStep` is the frame: a key that a step leaves untouched
(`Untouched`) keeps its image, its owners and what is known of it, so each kind is left with
the keys it works on. The action property follows from the same steps, since only a
purge and the two commits change rows. Both runs' instances were checked with the
invariant (`TypeOK`, `Shape`, `AllOrdered`) before it was proved.

**Certificates** (`CertificatesAssumption`: there is a serial, the intermediate is
not the name of a client, `None` is not an id, a certificate or a row). `RevocationReachesCa` depends
on what happens between `openssl ca -revoke` and the marking of the row. `CInv` says
what each step relies on: before a row is marked, the index of the signing CA has its
certificate, since that index is tried first, or its run failed without having it and
the root's index has it (`Entered`, `strayed`); a request at work on a row finds its path unchanged (`Working`);
certificates have serials that were given out, by CAs that exist (`Lineage`), so
that a certificate just signed is in no row yet, and the CA that signs changes only
before it has signed any; the published CRL is behind the indexes (`Behind`); a
sweeper's revoked rows are overtaken (`Sweeping`). `CrlNeverForgets` then follows
because indexes only grow, `RevokedStaysRevoked` from `Sweeping`.

**Log ingestion** (in `AuthTestsProofs`; `IngestionAssumption`: `NoReply` is neither a list of attributes nor
part of one, the oldest lab is a lab, there is a connection). The invariant `FeedInv` rests on the line
that the offset stands for (`Place`). The lines read last end there or before; up to
there (`Reach`), or up to the end of the log when the next poll will not read on from
the offset because the file has become shorter or nobody follows it, every line is an
event, exempt, or among those being stored (`LinesAccounted`); events are of lines that
were dealt with, and rise with them (`EventsRise`). Then each step of the file, the task
or the process is a step of the feed or a stutter: the place never goes back, and the
one event a step may add is of the next line. The refinement mapping counts the lines
for `logged`, takes `Position` for `passed` and the lines of the events for `shown`.

**Authentication tests** (`TestAssumption`: the tested identities, addresses and
devices are of their types, and tests are finitely many). Every step
of `AuthTests` is a step of the ingestion as far as the file and the task go, so `FeedInv`
and the refinement carry over. `Fits` says what a test knows at each stage: its line
is in the log and says what the tool reported, and what it reports was granted by the
line of the event it found (`EventIsTrue`: an event says what its line says, or
what is left of that where the line was cut).
`Agrees` says of a test during which nobody edited that it knows what the endpoint list
says, and so does the event of its reject, in whatever order the test and the ingestion
looked. `Accounted` counts the connections.

**Session actions** (`SessionAssumption`: rows of policies are well formed, the sink is
no client, `None` is no policy and no row; `AttributesAssumption`). `SessionInv` follows a
request by its number, which is given once (`NumbersFit`): what is on its way with it
is the request's own datagram or an answer to that (`NetFits`); an ACK of a NAS
that is on its way or was heard has its deed in `applied` (`AckFits`); and while nobody
else acted or edited, what the request sends is what authentication grants and, once
there is an ACK, what the session has (`PushFits`). `OutsideKeeps` is what the steps of
the network have in common, `RequestMoves` those of a request.

**Reply attributes** (in `SessionActionsProofs`; `AttributesAssumption`: the names that
Simple mode sets differ, whatever their case). `Rendering(p)` is a function, the list
after each number of raw pairs, and the invariant of that loop is `OneWanted`: one
attribute for each name, the one that the pairs so far leave (`WithKeeps`). The
induction itself is proved from the library's fact that the numbers are well founded
(`LeastNumber`, `CountingUp`), as is that the recursion of `Rendering` defines
a function (`RenderingStepwise`).

**Labs** (`LabAssumption`). `JobFits` says of a request that nobody overtook on its lab
that its copy is the row, and of a compared name that it is still free unless a name
was written since; `ChangedIsIntended` that the two services and PATCH merge their
part into the settings and keep the rest.

What stays with TLC: liveness under fairness and `ENABLED`, which TLAPS does not
prove here. That is `DisableTakesEffect`, `ChangeIsTrusted`, both `ChangeTakesEffect`,
`RevocationIsPublished`, `LineIsPassed`, `TestIsAnswered` and `ActionIsAnswered`. Every
safety property of a run that passes is stated by a theorem, `Applied` under the
hypothesis of `UndisturbedSpec` and that and `TrustApplied` without the CRL copy; the
runs `clients_crash` and `trust_crl` show what happens otherwise.

## 5. The plan

The order so far: the mirrors and what restarts the server, then certificates, then
events and tests, session actions and labs; then the proofs, of which every safety
property of the runs now has one. What is left, in this order:

1. An abstract specification of a mirror: one atomic step takes the rows of a key from
   what they are to what the control plane says. `PublishesCurrent` and
   `PublishesWanted` are its step for ordered keys; what is left is to state it as a
   module that `UserMirror` and `AuthzMirror` implement.
2. Compositions: `Certificates` with `TrustStore` (a revocation until it is enforced,
   with the CRL inside the bundle), and `ClientApply` with `TrustStore` over one
   `Supervisor`, whose `restart.request` one publisher may raise for the other.
3. Login-Time windows (`policy_conditions.py`) against a reference definition, and guest
   provisioning as a client of both mirrors with its group shared by all labs.

Runs are to stay few: a new instance becomes a scene of a run that exists.

## 6. What is not modelled, and known limits

Left out of the models, with the effect where there is one:

- Torn reads of the clients file: `write_text` truncates before it fills
  (`sync.py:83`, `:137`). `ClientApply` has both halves, and the runs that look at
  the server assume `UntornRead`.
- A commit and the `db.refresh` that follows it are one step where nothing is compared
  with the refreshed row. In `AuthzMirror` the refresh of an update is a step of its own;
  the read of a sync (`SyncRead`) stands for the refresh of a creation, and for that
  of a user.
- The place in the log is a line, not a number of bytes. `tell()` of a text file that was
  read to a cut multibyte character may differ from `st_size`, and then the
  file is read again from its beginning (`auth_log_ingestion.py:161-164`).
- The spellings of one MAC are one key; they are rewritten in one transaction.
- What a policy renders to is one value in `AuthzMirror`; `ReplyAttributes` says which.
  Conditions (`policy_conditions.py`: Login-Time, NAS address) are part of that value.
- The packets of the CoA sink (`coa_sink.py`): its digests and attributes. It answers each
  request of these actions, all of which name the endpoint, with an ACK.
- `AuthTests` takes one MAC and one user; issuing and publishing for an EAP-TLS test succeed
  or fail as a whole.
- Texts, ports and secrets of labs and advertised targets; the detection of the address.
- Guest provisioning as such: its user is created as in `UserMirror`, its policy by
  `create_policy` as in `AuthzMirror`, and nothing lies between the two but a crash.
- Overlapping `openssl ca` runs on one index and serial file.
- A publication cut between the bundle and the flag is not repaired by a retry, which
  finds the bundle up to date. The model has it; the properties name it (`silent`).

Departures seen while modelling that no run checks:

- Overlapping publications of trust material: both gather, and the later write may
  lack the other's file (`tls_trust.py:61`) until that lab is published again. The model
  has it, and the properties exclude the labs so published (`crossed`).
- After syncs of the clients file that overlapped, the server may run with an old file
  and no flag: a later sync that runs alone finds the file already as it should be, and
  does not ask for a restart (`sync.py:136`, `:147`).
- An update of an endpoint deletes the rows of the MAC that it read before its commit, if
  the refreshed row has another. If a request has given that MAC to another endpoint
  meanwhile, and written its rows, those are deleted, also by an update that changed
  only a description while a third request moved the endpoint
  (`endpoints.py:159-163`, `:168-172`). The same holds for a policy's former group
  (`policies.py:168-172`). The model has it, and the properties exclude the key
  (`contested`) until a worker rewrites it alone.
- The groups of a lab are rewritten from policy rows that the session may hold from its
  own commit, though another request has changed them since (`sql_sync.py:227`).
- Two overlapping requests can leave a disabled user accepted: one read the row
  before the other's commit and inserts after its DELETE (`sql_sync.py:44`;
  `docs/usage.md:40-42`). `Settled` counts the name as contested; the next request on
  the user, a resync, or a restart repairs it.
- A crash between the deletion of a user and that of its rows leaves its
  credential for good (`users.py:173`): start-up mirrors the users that exist.
- A sweep that read its rows before a revocation marks the revoked row `expired`
  (`certificates.py:64`; its docstring says "Revoked stays revoked").
  `RevokedStaysRevoked` excludes such rows by `overtaken`.
- A certificate that the root signed, revoked after an intermediate was created, is
  on the intermediate's CRL only (`openssl_adapter.py:342`), and revoking the
  intermediate's own row enters it in its own database.
- Whatever fails under the intermediate's configuration, the root's is tried
  (`openssl_adapter.py:347-359`). After a passing failure (a lock, the disk, the key) the
  row is revoked, the revocation is in the root's index and the CA that signed the
  certificate does not have it. The model has it, and `RevocationReachesCa` names
  such certificates (`strayed`).
- A line that is read while its last field is cut makes an event with the attributes
  that are left, the last of them perhaps with half its value, and with the
  method that these give (`log_parse.py:54-58`, `:84`). A test that finds this event
  reports them. The model has it; `ReportedWereGranted` allows it for lines read in part.
- A client named `intermediate` is allowed (`validation.py:10`), and its files are
  those of the intermediate CA; `CertificatesAssumption` excludes the name.
- A download issues a certificate anew when its key or `.p12` is missing, and overwrites
  the one that is there (`api/ca.py:357`, `:380`). `IssueMissing` does so.
- A revocation that failed after `openssl ca -revoke` cannot be repeated: openssl
  answers "already revoked".
- Certificates made by the downloads and by the EAP-TLS test are in no inventory row,
  so they cannot be revoked (`api/ca.py:357`, `:380`; `api/auth_tests.py:166`).
- The comment that stands for "no clients" can overwrite a rendered file, if it was
  decided before the first client was created (`sync.py:162`).
- The address check of a client and its insert are apart (`clients.py:63`); two
  enabled clients may share an address, of which the render keeps one.
- The check that a group has one policy looks at one lab and has no constraint
  (`policies.py:79`), while `radgroupreply` is keyed by group alone; guests of all
  labs share one group (`guest.py:39`, `sql_sync.py:233`).
- Events of tests come from an address that is no client's, so they are counted to the
  oldest lab (`auth_log_ingestion.py:43-49`) and explained by its endpoint list, whatever
  lab was tested; `docs/usage.md:23-25` says labs are isolated. A device's event goes
  to any lab with a client of its address.
- `_wait_for_event` takes any event of the identity since two seconds before the test
  (`auth_tests.py:296-300`), so a test may show the event and the attributes of a device
  that uses the same identity.
- What a poll raises between `exists()` and `open()` ends the ingestion for the life of
  the process, without a log entry until it stops (`auth_log_ingestion.py:152-175`).
- While the ingestion waits for a connection no request is answered, and the requests
  that hold the connections cannot give them back: thirty seconds for each line, which is
  then dropped (`PoolTimeout`).
- A push reported as timed out may be applied later, even after a newer one; a NAK that
  answers a doubled datagram may hide that the first was applied. `last_seen_nas_ip` looks
  at events of any lab. A raw pair named `User-Name` is sent beside the one that names
  the endpoint.
- The sink computes the Response Authenticator over a Message-Authenticator of zeros
  (`coa_sink.py`, `encode_response`; the docstring at `:8-11` promises what radclient
  checks), so a strict client may discard its answers.
- "Leaving other settings alone" (`api/labs.py:67`, `wireless.py:55`) is lost when requests
  overlap on one lab: the later write has the other's part as it was loaded.
- Names that differ only by case can be given by overlapping requests (`labs.py:49`).
  A name of `null` is refused by the database and reported as taken; a blank name, or
  settings of `null`, are stored and then fail when labs are listed; a malformed
  target in a PATCH is stored and fails when it is read.
- A lab with rows that refer to it is not deleted, and the answer is an error 500
  (`labs.py:85`).
- `expires_at` of a user is stored and never compared with the time
  (`entities.py:96`).
- `Login-Time` accepts `Any` followed by hours without checking them
  (`policy_conditions.py:62`).

Components without behaviour of their own (schemas, settings, token check, health
probes, network detection, the web interface, installation scripts) and the step-ca
adapter, which has no revocation and no CRL, are listed in `PROJECT.json` with the
reason.
