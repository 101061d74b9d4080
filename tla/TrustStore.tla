----------------------------- MODULE TrustStore -----------------------------
(***************************************************************************)
(* How the trust material of the labs reaches FreeRADIUS.                  *)
(*                                                                         *)
(* A lab's CA certificates and its CRL change when a root or an            *)
(* intermediate is created and when a certificate is revoked.  The request *)
(* that changed them publishes them: copy the lab's material into a file   *)
(* of its own under trusted/, gather the files of every lab into one       *)
(* bundle, and if the bundle changes write it, leave updated.flag and      *)
(* raise restart.request.  publish_lab_ca and publish_lab_crl do this with *)
(* two families of files; one of them is modelled.                         *)
(*                                                                         *)
(* The FreeRADIUS container reads the bundle as its ca_file or, with CRL   *)
(* enforcement (Combine), a copy of it made by configure_eap_certs.        *)
(*                                                                         *)
(* Abstractions.  A lab's material is the number of its last change; a     *)
(* bundle gives the number of every lab in it, 0 if it is not there.  A    *)
(* file is written at once.                                                *)
(***************************************************************************)
EXTENDS Naturals, Supervisor

CONSTANTS
    Labs,
    Requests,   \* thread-pool slots that serve API requests
    NoLab,      \* "no lab"
    MaxIssue    \* bound: changes of one lab's material

Bundles == [Labs -> 0 .. MaxIssue]

Nothing == [l \in Labs |-> 0]

ASSUME TrustAssumption ==
    /\ MaxIssue \in Nat
    /\ NoLab \notin Labs
    /\ Contents = Bundles
    /\ Blank = Nothing

VARIABLES
    issued,     \* issued[l]: the material of lab l
    labfile,    \* labfile[l]: what the file of lab l under trusted/ holds
    pc,         \* pc[r]: where request r is
    lab,        \* lab[r]: the lab r publishes
    material,   \* material[r]: the material of that lab, as r read it
    bundle,     \* bundle[r]: the bundle r put together
    failed,     \* history: labs whose last publication was cut short
    silent,     \* history: one was, after it had written a bundle
    crossed,    \* history: labs published beside another publication, and not since
    beside      \* history: requests during which another one publishes

requestVars == <<pc, lab, material, bundle>>
overlaps == <<crossed, beside>>
history == <<failed, silent, overlaps>>
vars == <<supervisorVars, issued, labfile, requestVars, history>>

TypeOK ==
    /\ SupervisorTypeOK
    /\ issued \in Bundles
    /\ labfile \in Bundles
    /\ pc \in [Requests -> {"idle", "read", "labfile", "gather", "compare",
                            "write", "mark", "flag"}]
    /\ lab \in [Requests -> Labs \cup {NoLab}]
    /\ material \in [Requests -> 0 .. MaxIssue]
    /\ bundle \in [Requests -> Bundles]
    /\ failed \subseteq Labs
    /\ silent \in BOOLEAN
    /\ crossed \subseteq Labs
    /\ beside \subseteq Requests

Init ==
    /\ SupervisorInit
    /\ issued = Nothing
    /\ labfile = Nothing
    /\ pc = [r \in Requests |-> "idle"]
    /\ lab = [r \in Requests |-> NoLab]
    /\ material = [r \in Requests |-> 0]
    /\ bundle = [r \in Requests |-> Nothing]
    /\ failed = {}
    /\ silent = FALSE
    /\ crossed = {}
    /\ beside = {}

----------------------------------------------------------------------------
Goto(r, label) == pc' = [pc EXCEPT ![r] = label]

Busy == {r \in Requests : pc[r] # "idle"}

\* r begins to publish lab l; nothing orders it with the publications under way.
Begin(r, l) ==
    /\ pc[r] = "idle"
    /\ Goto(r, "read")
    /\ lab' = [lab EXCEPT ![r] = l]
    /\ IF Busy = {} THEN UNCHANGED overlaps
       ELSE /\ crossed' = crossed \cup {l} \cup {lab[q] : q \in Busy}
            /\ beside' = beside \cup {r} \cup Busy
    /\ UNCHANGED <<supervisorVars, labfile, material, bundle, failed, silent>>

\* The request ends, normally or by an exception, which its caller swallows.
Finish(r) ==
    /\ Goto(r, "idle")
    /\ lab' = [lab EXCEPT ![r] = NoLab]
    /\ material' = [material EXCEPT ![r] = 0]
    /\ bundle' = [bundle EXCEPT ![r] = Nothing]
    /\ beside' = beside \ {r}

\* A request creates a CA or revokes a certificate, and will publish the lab.
Change(r) ==
    \E l \in Labs :
        /\ issued[l] < MaxIssue
        /\ issued' = [issued EXCEPT ![l] = @ + 1]
        /\ Begin(r, l)

\* An issued certificate, an EAP-TLS test or a sync publishes the CA again.
Republish(r) ==
    /\ \E l \in Labs : issued[l] > 0 /\ Begin(r, l)
    /\ UNCHANGED issued

\* ensure_root and the intermediate, or generate_crl: the material as it is ...
ReadMaterial(r) ==
    /\ pc[r] = "read"
    /\ material' = [material EXCEPT ![r] = issued[lab[r]]]
    /\ Goto(r, "labfile")
    /\ UNCHANGED <<supervisorVars, issued, labfile, lab, bundle, history>>

\* ... goes to the lab's own file.
WriteLabFile(r) ==
    /\ pc[r] = "labfile"
    /\ labfile' = [labfile EXCEPT ![lab[r]] = material[r]]
    /\ crossed' = IF r \in beside THEN crossed ELSE crossed \ {lab[r]}
    /\ Goto(r, "gather")
    /\ UNCHANGED <<supervisorVars, issued, lab, material, bundle, failed, silent, beside>>

\* Wrong on purpose (only the lab being published is gathered).
Gathered_OwnLab(r) == [l \in Labs |-> IF l = lab[r] THEN labfile[l] ELSE 0]

\* Wrong on purpose (the lab being published is left out).
Gathered_OthersOnly(r) == [l \in Labs \ {lab[r]} |-> labfile[l]]

\* The files of all the labs.
Gathered(r) == labfile

Gather(r) ==
    /\ pc[r] = "gather"
    /\ bundle' = [bundle EXCEPT ![r] = Gathered(r)]
    /\ Goto(r, "compare")
    /\ UNCHANGED <<supervisorVars, issued, labfile, lab, material, history>>

\* An unchanged bundle costs no restart.
Compare(r) ==
    /\ pc[r] = "compare"
    /\ UNCHANGED <<supervisorVars, issued, labfile, silent, crossed>>
    /\ \/ /\ disk = bundle[r]
          /\ failed' = failed \ {lab[r]}
          /\ Finish(r)
       \/ /\ disk # bundle[r]
          /\ Goto(r, "write")
          /\ UNCHANGED <<lab, material, bundle, failed, beside>>

WriteBundle(r) ==
    /\ pc[r] = "write"
    /\ disk' = bundle[r]
    /\ Goto(r, "mark")
    /\ UNCHANGED <<prepared, loaded, updated, restart, sup, issued, labfile, lab,
                   material, bundle, history>>

MarkUpdated(r) ==
    /\ pc[r] = "mark"
    /\ updated' = TRUE
    /\ Goto(r, "flag")
    /\ UNCHANGED <<disk, prepared, loaded, restart, sup, issued, labfile, lab,
                   material, bundle, history>>

\* Wrong on purpose (updated.flag is thought to be enough).
Raised_Not == restart

\* request_restart
Raised == TRUE

RaiseRestart(r) ==
    /\ pc[r] = "flag"
    /\ restart' = Raised
    /\ failed' = failed \ {lab[r]}
    /\ silent' = FALSE
    /\ Finish(r)
    /\ UNCHANGED <<disk, prepared, loaded, updated, sup, issued, labfile, crossed>>

\* An exception, or the end of the process: nothing resumes the publication.
Fail(r) ==
    /\ pc[r] # "idle"
    /\ failed' = failed \cup {lab[r]}
    /\ silent' = (silent \/ pc[r] \in {"mark", "flag"})
    /\ Finish(r)
    /\ UNCHANGED <<supervisorVars, issued, labfile, crossed>>

Supervised == Supervise /\ UNCHANGED <<issued, labfile, requestVars, history>>

Rebooted == ContainerRestart /\ UNCHANGED <<issued, labfile, requestVars, history>>

----------------------------------------------------------------------------
Continue(r) ==
    \/ ReadMaterial(r) \/ WriteLabFile(r) \/ Gather(r) \/ Compare(r)
    \/ WriteBundle(r) \/ MarkUpdated(r) \/ RaiseRestart(r)

Publish == \E r \in Requests : Change(r) \/ Republish(r) \/ Continue(r)

Steps == Publish \/ Supervised \/ Rebooted

Next == Steps \/ \E r \in Requests : Fail(r)

Spec == Init /\ [][Next]_vars

\* Requests and the supervisor keep running, and the container does not restart
\* for ever before the server has read its configuration.
Fairness ==
    /\ \A r \in Requests : WF_vars(Continue(r))
    /\ WF_vars(Supervised)
    /\ \A s \in {"clear", "load"} : SF_vars(Supervised /\ sup = s)

----------------------------------------------------------------------------
(***************************************************************************)
(* Properties.                                                             *)
(***************************************************************************)

AllIdle == \A r \in Requests : pc[r] = "idle"

\* The labs whose last publication was not cut short and ran alone.
Published == Labs \ (failed \cup crossed)

\* Once the publications are done and no restart is asked for, the running
\* server trusts (and, with CRL enforcement, rejects) what every lab issued whose
\* last publication ran alone to its end.  The exception is one cut short between
\* the bundle and restart.request: repeating it finds the bundle up to date.
TrustApplied ==
    (AllIdle /\ Watching /\ ~restart /\ ~silent) =>
        \A l \in Published : loaded[l] = issued[l]

\* Once the publications are done, the bundle holds the material of every lab whose
\* last publication ran alone to its end: also when other labs were published at
\* the same time since, though nothing orders their writes of the one bundle.
BundleIsComplete == AllIdle => \A l \in Published : disk[l] = issued[l]

\* Nothing is taken back of a lab whose publications run alone: neither its file nor
\* its entry in the bundle returns to older material, also when some of them fail and
\* while publications of other labs overlap.
NeverRollsBack ==
    [][\A l \in Labs \ crossed' : disk[l] <= disk'[l] /\ labfile[l] <= labfile'[l]]_vars

\* Every change of a lab's material comes to be what the server runs with, unless a
\* publication is cut short or overlaps with another.
ChangeIsTrusted ==
    \A l \in Labs : \A n \in 1 .. MaxIssue :
        issued[l] >= n ~> (loaded[l] >= n \/ l \in failed \cup crossed \/ silent)

=============================================================================
