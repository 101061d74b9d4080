--------------------------- MODULE TrustStoreProofs --------------------------
(***************************************************************************)
(* Proofs that trust material reaches the bundle and the server for every  *)
(* lab whose last publication ran alone to its end, and is never taken     *)
(* back: for every number of labs, changes and requests, although          *)
(* publications overlap and fail, and the container restarts.              *)
(***************************************************************************)
EXTENDS TrustStore, TLAPS

\* A request at work has a lab.
LabFits == \A r \in Requests : pc[r] # "idle" => lab[r] \in Labs

TInv == TypeOK /\ LabFits

\* The supervisor and the container leave what the requests know, and the bundle.
LEMMA SupervisorStep ==
    ASSUME SupervisorTypeOK, Supervised \/ Rebooted
    PROVE  /\ SupervisorTypeOK'
           /\ disk' = disk
           /\ UNCHANGED <<issued, labfile, pc, lab, material, bundle, failed, silent,
                          crossed, beside>>
BY DEF Supervised, Rebooted, Supervise, ContainerRestart, Configure, ClearFlags, LoadConfig,
   PollUpdated, PollRestart, SupervisorTypeOK, requestVars, history, overlaps

\* An empty bundle is a bundle.
LEMMA NothingType == Nothing \in Bundles
BY TrustAssumption DEF Nothing, Bundles

\* Every step keeps the types, and the lab of a request at work.
LEMMA TypeStep ==
    ASSUME TInv, [Next]_vars
    PROVE  TInv'
<1> USE DEF TInv, LabFits, TypeOK, supervisorVars
<1>1. ASSUME NEW r \in Requests, Change(r) \/ Republish(r)
      PROVE  TInv'
  <2>1. PICK l \in Labs : Begin(r, l)
        BY <1>1 DEF Change, Republish
  <2>2. issued' \in Bundles
    <3>1. CASE Change(r)
          BY <3>1, TrustAssumption DEF Change, Bundles
    <3> QED  BY <1>1, <3>1 DEF Republish
  <2>3. crossed' \subseteq Labs /\ beside' \subseteq Requests
        BY <2>1 DEF Begin, Busy, overlaps
  <2> QED  BY <2>1, <2>2, <2>3 DEF Begin, Goto, SupervisorTypeOK
<1>2. ASSUME NEW r \in Requests, ReadMaterial(r)
      PROVE  TInv'
  <2>1. issued[lab[r]] \in 0 .. MaxIssue
        BY <1>2 DEF ReadMaterial, Bundles
  <2> QED  BY <1>2, <2>1 DEF ReadMaterial, Goto, SupervisorTypeOK, history, overlaps
<1>3. ASSUME NEW r \in Requests, WriteLabFile(r)
      PROVE  TInv'
  <2>1. labfile' \in Bundles
        BY <1>3 DEF WriteLabFile, Bundles
  <2> QED  BY <1>3, <2>1 DEF WriteLabFile, Goto, SupervisorTypeOK
<1>4. ASSUME NEW r \in Requests, Gather(r)
      PROVE  TInv'
      BY <1>4 DEF Gather, Gathered, Goto, SupervisorTypeOK, history, overlaps
<1>5. ASSUME NEW r \in Requests, Finish(r), failed' \subseteq Labs, silent' \in BOOLEAN,
             SupervisorTypeOK', UNCHANGED <<issued, labfile, crossed>>
      PROVE  TInv'
      BY <1>5, NothingType, TrustAssumption DEF Finish, Goto
<1>6. ASSUME NEW r \in Requests, Compare(r)
      PROVE  TInv'
  <2>1. CASE Finish(r)
        BY <1>5, <1>6, <2>1 DEF Compare, SupervisorTypeOK
  <2>2. CASE Goto(r, "write") /\ UNCHANGED <<lab, material, bundle, failed, beside>>
        BY <1>6, <2>2 DEF Compare, Goto, SupervisorTypeOK
  <2> QED  BY <1>6, <2>1, <2>2 DEF Compare
<1>7. ASSUME NEW r \in Requests, WriteBundle(r)
      PROVE  TInv'
  <2>1. disk' \in Contents
        BY <1>7, TrustAssumption DEF WriteBundle
  <2> QED  BY <1>7, <2>1 DEF WriteBundle, Goto, SupervisorTypeOK, history, overlaps
<1>12. ASSUME NEW r \in Requests, MarkUpdated(r)
      PROVE  TInv'
      BY <1>12 DEF MarkUpdated, Goto, SupervisorTypeOK, history, overlaps
<1>8. ASSUME NEW r \in Requests, RaiseRestart(r)
      PROVE  TInv'
      BY <1>5, <1>8 DEF RaiseRestart, Raised, SupervisorTypeOK
<1>9. ASSUME NEW r \in Requests, Fail(r)
      PROVE  TInv'
      BY <1>5, <1>9 DEF Fail, SupervisorTypeOK
<1>10. CASE Supervised \/ Rebooted
      BY <1>10, SupervisorStep
<1>11. CASE UNCHANGED vars
      BY <1>11 DEF vars, requestVars, history, overlaps, SupervisorTypeOK
<1> QED  BY <1>1, <1>2, <1>3, <1>4, <1>6, <1>7, <1>8, <1>9, <1>10, <1>11, <1>12
         DEF Next, Steps, Publish, Continue

\* They hold at first.
LEMMA InitTypes == Init => TInv
<1> SUFFICES ASSUME Init PROVE TInv
    OBVIOUS
<1>1. SupervisorTypeOK
      BY SupervisorAssumption DEF Init, SupervisorInit, SupervisorTypeOK
<1>2. pc \in [Requests -> {"idle"}] /\ lab \in [Requests -> {NoLab}]
      BY DEF Init
<1>3. material \in [Requests -> 0 .. MaxIssue]
      BY TrustAssumption DEF Init
<1>4. bundle \in [Requests -> Bundles] /\ issued \in Bundles /\ labfile \in Bundles
      BY NothingType DEF Init
<1>5. failed = {} /\ crossed = {} /\ beside = {} /\ silent = FALSE
      BY DEF Init
<1> QED  BY <1>1, <1>2, <1>3, <1>4, <1>5 DEF TInv, LabFits, TypeOK

\* Every variable of the trust store has its type: what is gathered is a bundle of all
\* the labs, whoever publishes beside it.
THEOREM TrustStoreTypes == Spec => []TypeOK
<1>1. TInv => TypeOK
      BY DEF TInv
<1>2. TInv /\ [Next]_vars => TInv'
      BY TypeStep
<1> QED  BY <1>1, <1>2, InitTypes, PTL DEF Spec

----------------------------------------------------------------------------
(***************************************************************************)
(* Overlaps, and what is no newer than what the labs issued.               *)
(***************************************************************************)

\* Two requests at work at once know of it, and so do the labs they publish.
OverlapsMarked ==
    /\ \A r \in beside : pc[r] # "idle" /\ lab[r] \in crossed
    /\ \A q, r \in Requests : (q # r /\ pc[q] # "idle" /\ pc[r] # "idle") => r \in beside

\* Nothing published, gathered or read is newer than what its lab issued, ...
NothingInvented ==
    /\ \A l \in Labs :
           /\ disk[l] <= issued[l] /\ labfile[l] <= issued[l]
           /\ \A r \in Requests : bundle[r][l] <= issued[l]
    /\ \A r \in Requests : pc[r] = "labfile" => material[r] <= issued[lab[r]]

\* ... and what a request that runs alone has read is the newest.
ReadIsCurrent ==
    \A r \in Requests \ beside : pc[r] = "labfile" => material[r] = issued[lab[r]]

\* A lab whose publications ran alone: the bundle is not ahead of the lab's file; what is
\* gathered or written, by a publication of whatever lab, has the material of that file;
\* once the lab's own publication has written the file it holds what was issued; and when
\* the lab is not being published, file and bundle do, unless it was cut short.
Gathering(r) == pc[r] \in {"compare", "write"}

Written(r) == pc[r] \in {"mark", "flag"}

InOrder(l) ==
    /\ disk[l] <= labfile[l]
    /\ \A r \in Requests :
           /\ Gathering(r) => bundle[r][l] = labfile[l]
           /\ Written(r) => disk[l] = labfile[l]
           /\ (lab[r] = l /\ (pc[r] = "gather" \/ Gathering(r) \/ Written(r))) =>
                  labfile[l] = issued[l]
    /\ (l \notin failed /\ \A r \in Busy : lab[r] # l) =>
           labfile[l] = issued[l] /\ disk[l] = issued[l]

TrustInv ==
    /\ TInv
    /\ OverlapsMarked
    /\ NothingInvented
    /\ ReadIsCurrent
    /\ \A l \in Labs \ crossed : InOrder(l)

\* What is published and gathered gives a number to each lab.
LEMMA Numbers ==
    ASSUME TInv
    PROVE  \A l \in Labs :
               /\ issued[l] \in Nat /\ labfile[l] \in Nat /\ disk[l] \in Nat
               /\ \A r \in Requests : bundle[r][l] \in Nat
<1>1. disk \in Bundles
      BY TrustAssumption DEF TInv, TypeOK, SupervisorTypeOK
<1>2. ASSUME NEW f \in Bundles, NEW l \in Labs PROVE f[l] \in Nat
  <2>1. f[l] \in 0 .. MaxIssue
        BY <1>2 DEF Bundles
  <2> QED  BY <2>1, TrustAssumption
<1>3. issued \in Bundles /\ labfile \in Bundles /\ \A r \in Requests : bundle[r] \in Bundles
      BY DEF TInv, TypeOK
<1> QED  BY <1>1, <1>2, <1>3

\* A request begins to publish l: if others publish, l and their labs are marked.
LEMMA BeginKeeps ==
    ASSUME TrustInv, NEW r \in Requests, NEW l \in Labs, Begin(r, l),
           NEW n \in {issued[l], issued[l] + 1}, issued' = [issued EXCEPT ![l] = n], TInv'
    PROVE  TrustInv'
<1>1. /\ TInv /\ pc[r] = "idle" /\ pc' = [pc EXCEPT ![r] = "read"]
      /\ lab' = [lab EXCEPT ![r] = l]
      /\ UNCHANGED <<disk, labfile, material, bundle, failed>>
      BY DEF Begin, Goto, TrustInv, supervisorVars
<1>2. /\ DOMAIN pc = Requests /\ DOMAIN lab = Requests /\ DOMAIN issued = Labs
      /\ crossed \subseteq Labs /\ beside \subseteq Requests /\ r \notin beside
      BY <1>1 DEF TInv, TypeOK, Bundles, TrustInv, OverlapsMarked
<1>3. /\ pc'[r] = "read" /\ lab'[r] = l
      /\ \A q \in Requests \ {r} : pc'[q] = pc[q] /\ lab'[q] = lab[q]
      BY <1>1, <1>2
<1>4. \A m \in Labs : /\ issued[m] <= issued'[m] /\ (m # l => issued'[m] = issued[m])
                      /\ issued[m] \in Nat /\ issued'[m] \in Nat /\ disk[m] \in Nat
                      /\ labfile[m] \in Nat /\ \A q \in Requests : bundle[q][m] \in Nat
      BY <1>1, <1>2, Numbers
<1>5. /\ crossed \subseteq crossed' /\ beside \subseteq beside'
      /\ Busy # {} => /\ l \in crossed' /\ \A q \in Busy : lab[q] \in crossed'
                      /\ beside' = beside \cup {r} \cup Busy
      /\ Busy = {} => crossed' = crossed /\ beside' = beside
      BY DEF Begin, overlaps
<1>6. OverlapsMarked'
  <2>1. CASE Busy = {}
        BY <1>2, <1>3, <1>5, <2>1 DEF OverlapsMarked, TrustInv, Busy
  <2>2. CASE Busy # {}
        BY <1>2, <1>3, <1>5, <2>2 DEF OverlapsMarked, TrustInv, Busy
  <2> QED  BY <2>1, <2>2
<1>7. NothingInvented'
  <2>1. ASSUME NEW m \in Labs
        PROVE  /\ disk[m] <= issued'[m] /\ labfile[m] <= issued'[m]
               /\ \A q \in Requests : bundle[q][m] <= issued'[m]
        BY <1>4 DEF NothingInvented, TrustInv
  <2>2. ASSUME NEW q \in Requests, pc'[q] = "labfile"
        PROVE  material[q] <= issued'[lab'[q]]
    <3>1. pc[q] = "labfile" /\ lab'[q] = lab[q] /\ lab[q] \in Labs /\ material[q] \in Nat
          BY <1>1, <1>3, <2>2, TrustAssumption DEF TInv, TypeOK, LabFits
    <3> QED  BY <1>4, <3>1 DEF NothingInvented, TrustInv
  <2> QED  BY <1>1, <2>1, <2>2 DEF NothingInvented
<1>8. ReadIsCurrent'
  <2> SUFFICES ASSUME NEW q \in Requests, q \notin beside', pc'[q] = "labfile"
               PROVE  material[q] = issued'[lab'[q]]
      BY <1>1 DEF ReadIsCurrent
  <2>1. q # r /\ pc[q] = "labfile" /\ lab'[q] = lab[q]
        BY <1>3
  <2>2. q \in Busy
        BY <2>1 DEF Busy
  <2> QED  BY <1>5, <2>2
<1>9. ASSUME NEW m \in Labs \ crossed' PROVE InOrder(m)'
  <2>1. InOrder(m)
        BY <1>5 DEF TrustInv
  <2>2. ASSUME m # l PROVE InOrder(m)'
    <3>1. issued'[m] = issued[m]
          BY <1>4, <2>2
    <3>2. (\A q \in Busy' : lab'[q] # m) => \A q \in Busy : lab[q] # m
          BY <1>1, <1>3 DEF Busy
    <3> QED  BY <1>1, <1>3, <2>1, <2>2, <3>1, <3>2 DEF InOrder, Gathering, Written
  <2>3. ASSUME m = l PROVE InOrder(m)'
    <3>1. Busy = {}
          BY <1>5, <2>3
    <3>2. \A q \in Requests : pc'[q] \in {"idle", "read"}
          BY <1>3, <3>1 DEF Busy
    <3>3. r \in Busy' /\ lab'[r] = m
          BY <1>3, <2>3 DEF Busy
    <3> QED  BY <1>1, <2>1, <3>2, <3>3 DEF InOrder, Gathering, Written
  <2> QED  BY <2>2, <2>3
<1> QED  BY <1>6, <1>7, <1>8, <1>9 DEF TrustInv

\* A request that is at work on a lab not marked works alone.
LEMMA WorksAlone ==
    ASSUME TrustInv, NEW r \in Requests, pc[r] # "idle", r \notin beside
    PROVE  \A q \in Requests \ {r} : pc[q] = "idle" /\ q \notin beside
BY DEF TrustInv, OverlapsMarked

\* A request reads, or compares and goes on to write: no file changes.
LEMMA QuietKeeps ==
    ASSUME TrustInv, TInv', NEW r \in Requests,
           \/ ReadMaterial(r) \/ MarkUpdated(r)
           \/ Compare(r) /\ Goto(r, "write") /\ UNCHANGED <<lab, material, bundle, failed, beside>>
    PROVE  TrustInv'
<1>1. /\ TInv /\ UNCHANGED <<issued, disk, labfile, lab, bundle, failed, crossed, beside>>
      /\ \/ pc[r] = "read" /\ pc' = [pc EXCEPT ![r] = "labfile"]
            /\ material' = [material EXCEPT ![r] = issued[lab[r]]]
         \/ pc[r] = "mark" /\ pc' = [pc EXCEPT ![r] = "flag"] /\ material' = material
         \/ pc[r] = "compare" /\ pc' = [pc EXCEPT ![r] = "write"] /\ material' = material
      BY DEF ReadMaterial, MarkUpdated, Compare, Goto, TrustInv, supervisorVars, history, overlaps
<1>2. DOMAIN pc = Requests /\ DOMAIN material = Requests
      BY <1>1 DEF TInv, TypeOK
<1>3. /\ \A q \in Requests \ {r} : pc'[q] = pc[q] /\ material'[q] = material[q]
      /\ Busy' = Busy
      /\ \A q \in Requests : /\ Gathering(q)' = Gathering(q) /\ Written(q)' = Written(q)
                             /\ pc'[q] = "gather" <=> pc[q] = "gather"
      BY <1>1, <1>2 DEF Busy, Gathering, Written
<1>4. OverlapsMarked'
  <2>1. \A q \in Requests : pc'[q] # "idle" <=> pc[q] # "idle"
        BY <1>1, <1>2
  <2>2. beside \subseteq Requests
        BY <1>1 DEF TInv, TypeOK
  <2> QED  BY <1>1, <2>1, <2>2 DEF TrustInv, OverlapsMarked
<1>5. NothingInvented'
  <2>1. ASSUME NEW q \in Requests, pc'[q] = "labfile"
        PROVE  material'[q] <= issued[lab[q]]
    <3>1. lab[r] \in Labs /\ issued[lab[r]] \in Nat
          BY <1>1, Numbers DEF TInv, LabFits
    <3> QED  BY <1>1, <1>2, <1>3, <2>1, <3>1 DEF TrustInv, NothingInvented
  <2> QED  BY <1>1, <2>1 DEF TrustInv, NothingInvented
<1>6. ReadIsCurrent'
      BY <1>1, <1>2 DEF TrustInv, ReadIsCurrent
<1>7. ASSUME NEW m \in Labs \ crossed' PROVE InOrder(m)'
      BY <1>1, <1>3 DEF TrustInv, InOrder
<1> QED  BY <1>4, <1>5, <1>6, <1>7 DEF TrustInv

\* A request writes the file of its lab: if it runs alone, the lab is in order from here.
LEMMA WriteLabFileKeeps ==
    ASSUME TrustInv, TInv', NEW r \in Requests, WriteLabFile(r)
    PROVE  TrustInv'
<1>1. /\ TInv /\ UNCHANGED <<issued, disk, lab, material, bundle, failed, beside>>
      /\ pc[r] = "labfile" /\ pc' = [pc EXCEPT ![r] = "gather"]
      /\ labfile' = [labfile EXCEPT ![lab[r]] = material[r]]
      /\ crossed' = IF r \in beside THEN crossed ELSE crossed \ {lab[r]}
      BY DEF WriteLabFile, Goto, TrustInv, supervisorVars
<1>2. /\ DOMAIN pc = Requests /\ DOMAIN labfile = Labs /\ lab[r] \in Labs
      /\ material[r] \in Nat
      BY <1>1, TrustAssumption DEF TInv, TypeOK, LabFits, Bundles
<1>3. /\ \A q \in Requests \ {r} : pc'[q] = pc[q]
      /\ pc'[r] = "gather" /\ Busy' = Busy
      /\ \A m \in Labs \ {lab[r]} : labfile'[m] = labfile[m]
      /\ labfile'[lab[r]] = material[r]
      BY <1>1, <1>2 DEF Busy
<1>a. r \in beside => lab[r] \in crossed
      BY DEF TrustInv, OverlapsMarked
<1>b. r \notin beside => material[r] = issued[lab[r]]
      BY <1>1 DEF TrustInv, ReadIsCurrent
<1>4. OverlapsMarked'
  <2>1. \A q \in Requests : pc'[q] # "idle" <=> pc[q] # "idle"
        BY <1>1, <1>3
  <2>2. beside \subseteq Requests
        BY <1>1 DEF TInv, TypeOK
  <2>3. \A q \in beside : lab[q] \in crossed'
    <3>1. CASE r \in beside
          BY <1>1, <3>1 DEF TrustInv, OverlapsMarked
    <3>2. CASE r \notin beside
      <4>1. \A q \in beside : pc[q] # "idle"
            BY DEF TrustInv, OverlapsMarked
      <4>2. beside = {}
            BY <1>1, <2>2, <3>2, <4>1, WorksAlone
      <4> QED  BY <4>2
    <3> QED  BY <3>1, <3>2
  <2> QED  BY <1>1, <2>1, <2>2, <2>3 DEF TrustInv, OverlapsMarked
<1>5. NothingInvented'
  <2>1. material[r] <= issued[lab[r]]
        BY <1>1 DEF TrustInv, NothingInvented
  <2>2. \A m \in Labs : labfile'[m] <= issued[m]
        BY <1>3, <2>1 DEF TrustInv, NothingInvented
  <2>3. \A q \in Requests : pc'[q] = "labfile" => pc[q] = "labfile"
        BY <1>3
  <2> QED  BY <1>1, <2>2, <2>3 DEF TrustInv, NothingInvented
<1>6. ReadIsCurrent'
      BY <1>1, <1>3 DEF TrustInv, ReadIsCurrent
<1>7. ASSUME NEW m \in Labs \ crossed' PROVE InOrder(m)'
  <2>1. CASE m = lab[r]
    <3>1. r \notin beside
          BY <1>1, <1>a, <2>1
    <3>2. \A q \in Requests \ {r} : pc'[q] = "idle"
          BY <1>1, <1>3, <3>1, WorksAlone
    <3>3. labfile'[m] = issued[m] /\ disk[m] <= issued[m]
          BY <1>3, <1>b, <2>1, <3>1 DEF TrustInv, NothingInvented
    <3>4. r \in Busy'
          BY <1>3 DEF Busy
    <3> QED  BY <1>1, <1>3, <2>1, <3>2, <3>3, <3>4 DEF InOrder, Gathering, Written
  <2>2. CASE m # lab[r]
    <3>1. InOrder(m) /\ labfile'[m] = labfile[m]
          BY <1>1, <1>3, <2>2 DEF TrustInv
    <3> QED  BY <1>1, <1>3, <2>2, <3>1 DEF InOrder, Gathering, Written
  <2> QED  BY <2>1, <2>2
<1> QED  BY <1>4, <1>5, <1>6, <1>7 DEF TrustInv

\* A request gathers the files of all the labs.
LEMMA GatherKeeps ==
    ASSUME TrustInv, TInv', NEW r \in Requests, Gather(r)
    PROVE  TrustInv'
<1>1. /\ TInv /\ UNCHANGED <<issued, disk, labfile, lab, material, failed, crossed, beside>>
      /\ pc[r] = "gather" /\ pc' = [pc EXCEPT ![r] = "compare"]
      /\ bundle' = [bundle EXCEPT ![r] = labfile]
      BY DEF Gather, Gathered, Goto, TrustInv, supervisorVars, history, overlaps
<1>2. DOMAIN pc = Requests /\ DOMAIN bundle = Requests
      BY <1>1 DEF TInv, TypeOK
<1>3. /\ \A q \in Requests \ {r} : pc'[q] = pc[q] /\ bundle'[q] = bundle[q]
      /\ pc'[r] = "compare" /\ bundle'[r] = labfile /\ Busy' = Busy
      BY <1>1, <1>2 DEF Busy
<1>4. OverlapsMarked'
      BY <1>1, <1>3 DEF TrustInv, OverlapsMarked
<1>5. NothingInvented'
      BY <1>1, <1>3 DEF TrustInv, NothingInvented
<1>6. ReadIsCurrent'
      BY <1>1, <1>3 DEF TrustInv, ReadIsCurrent
<1>7. ASSUME NEW m \in Labs \ crossed' PROVE InOrder(m)'
  <2>1. InOrder(m)
        BY <1>1 DEF TrustInv
  <2> QED  BY <1>1, <1>3, <2>1 DEF InOrder, Gathering, Written
<1> QED  BY <1>4, <1>5, <1>6, <1>7 DEF TrustInv

\* A request writes the bundle it gathered.
LEMMA WriteBundleKeeps ==
    ASSUME TrustInv, TInv', NEW r \in Requests, WriteBundle(r)
    PROVE  TrustInv'
<1>1. /\ TInv
      /\ UNCHANGED <<issued, labfile, lab, material, bundle, failed, crossed, beside>>
      /\ pc[r] = "write" /\ pc' = [pc EXCEPT ![r] = "mark"] /\ disk' = bundle[r]
      BY DEF WriteBundle, Goto, TrustInv, history, overlaps
<1>2. DOMAIN pc = Requests
      BY <1>1 DEF TInv, TypeOK
<1>3. /\ \A q \in Requests \ {r} : pc'[q] = pc[q]
      /\ pc'[r] = "mark" /\ Busy' = Busy
      BY <1>1, <1>2 DEF Busy
<1>4. OverlapsMarked'
      BY <1>1, <1>3 DEF TrustInv, OverlapsMarked
<1>5. NothingInvented'
      BY <1>1, <1>3 DEF TrustInv, NothingInvented
<1>6. ReadIsCurrent'
      BY <1>1, <1>3 DEF TrustInv, ReadIsCurrent
<1>7. ASSUME NEW m \in Labs \ crossed' PROVE InOrder(m)'
  <2>1. InOrder(m) /\ disk'[m] = labfile[m] /\ labfile[m] \in Nat
        BY <1>1, Numbers DEF TrustInv, InOrder, Gathering
  <2> QED  BY <1>1, <1>3, <2>1 DEF InOrder, Gathering, Written
<1> QED  BY <1>4, <1>5, <1>6, <1>7 DEF TrustInv

\* A request ends: its lab is published if it came to its end.
LEMMA FinishKeeps ==
    ASSUME TrustInv, TInv', NEW r \in Requests, Finish(r), pc[r] # "idle",
           UNCHANGED <<issued, disk, labfile, crossed>>,
           \/ failed' = failed \cup {lab[r]}
           \/ /\ failed' = failed \ {lab[r]}
              /\ Written(r) \/ (pc[r] = "compare" /\ disk = bundle[r])
    PROVE  TrustInv'
<1>1. /\ TInv
      /\ pc' = [pc EXCEPT ![r] = "idle"] /\ lab' = [lab EXCEPT ![r] = NoLab]
      /\ material' = [material EXCEPT ![r] = 0] /\ bundle' = [bundle EXCEPT ![r] = Nothing]
      /\ beside' = beside \ {r}
      BY DEF Finish, Goto, TrustInv
<1>2. /\ DOMAIN pc = Requests /\ DOMAIN lab = Requests /\ DOMAIN bundle = Requests
      /\ DOMAIN material = Requests
      BY <1>1 DEF TInv, TypeOK
<1>3. /\ \A q \in Requests \ {r} : /\ pc'[q] = pc[q] /\ lab'[q] = lab[q]
                                    /\ bundle'[q] = bundle[q] /\ material'[q] = material[q]
      /\ pc'[r] = "idle" /\ bundle'[r] = Nothing /\ Busy' = Busy \ {r}
      BY <1>1, <1>2 DEF Busy
<1>4. OverlapsMarked'
      BY <1>1, <1>3 DEF TrustInv, OverlapsMarked
<1>5. NothingInvented'
  <2>1. \A m \in Labs : bundle'[r][m] <= issued[m]
        BY <1>1, <1>3, Numbers DEF Nothing
  <2> QED  BY <1>1, <1>3, <2>1 DEF TrustInv, NothingInvented
<1>6. ReadIsCurrent'
      BY <1>1, <1>3 DEF TrustInv, ReadIsCurrent
<1>7. ASSUME NEW m \in Labs \ crossed' PROVE InOrder(m)'
  <2>1. InOrder(m)
        BY <1>1 DEF TrustInv
  <2>2. ASSUME m \notin failed', \A q \in Busy' : lab'[q] # m
        PROVE  labfile[m] = issued[m] /\ disk[m] = issued[m]
    <3>1. CASE m = lab[r]
          BY <2>1, <2>2, <3>1 DEF InOrder, Gathering, Written
    <3>2. CASE m # lab[r]
      <4>1. \A q \in Busy : lab[q] # m
            BY <1>3, <2>2, <3>2 DEF Busy
      <4> QED  BY <2>1, <2>2, <3>2, <4>1 DEF InOrder
    <3> QED  BY <3>1, <3>2
  <2> QED  BY <1>1, <1>3, <2>1, <2>2 DEF InOrder, Gathering, Written
<1> QED  BY <1>4, <1>5, <1>6, <1>7 DEF TrustInv

\* Every step keeps the invariant, action by action.
LEMMA TrustStep == TrustInv /\ [Next]_vars => TrustInv'
<1> SUFFICES ASSUME TrustInv, [Next]_vars PROVE TrustInv'
    OBVIOUS
<1>a. TInv /\ TInv'
      BY TypeStep DEF TrustInv
<1>1. ASSUME NEW r \in Requests, Change(r)
      PROVE  TrustInv'
  <2>1. PICK l \in Labs : Begin(r, l) /\ issued' = [issued EXCEPT ![l] = issued[l] + 1]
        BY <1>1 DEF Change
  <2> QED  BY <1>a, <2>1, BeginKeeps
<1>2. ASSUME NEW r \in Requests, Republish(r)
      PROVE  TrustInv'
  <2>1. PICK l \in Labs : Begin(r, l) /\ issued' = issued
        BY <1>2 DEF Republish
  <2>2. issued' = [issued EXCEPT ![l] = issued[l]]
        BY <1>a, <2>1 DEF TInv, TypeOK, Bundles
  <2> QED  BY <1>a, <2>1, <2>2, BeginKeeps
<1>3. ASSUME NEW r \in Requests, ReadMaterial(r) \/ MarkUpdated(r)
      PROVE  TrustInv'
      BY <1>a, <1>3, QuietKeeps
<1>4. ASSUME NEW r \in Requests, WriteLabFile(r) \/ Gather(r) \/ WriteBundle(r)
      PROVE  TrustInv'
      BY <1>a, <1>4, WriteLabFileKeeps, GatherKeeps, WriteBundleKeeps
<1>5. ASSUME NEW r \in Requests, Compare(r)
      PROVE  TrustInv'
  <2>1. CASE Finish(r) /\ failed' = failed \ {lab[r]} /\ disk = bundle[r]
        BY <1>a, <1>5, <2>1, FinishKeeps DEF Compare, supervisorVars
  <2>2. CASE Goto(r, "write") /\ UNCHANGED <<lab, material, bundle, failed, beside>>
        BY <1>a, <1>5, <2>2, QuietKeeps
  <2> QED  BY <1>5, <2>1, <2>2 DEF Compare
<1>6. ASSUME NEW r \in Requests, RaiseRestart(r)
      PROVE  TrustInv'
  <2>1. /\ Finish(r) /\ pc[r] # "idle" /\ Written(r) /\ failed' = failed \ {lab[r]}
        /\ UNCHANGED <<issued, disk, labfile, crossed>>
        BY <1>6 DEF RaiseRestart, Written
  <2> QED  BY <1>a, <2>1, FinishKeeps
<1>7. ASSUME NEW r \in Requests, Fail(r)
      PROVE  TrustInv'
      BY <1>a, <1>7, FinishKeeps DEF Fail, supervisorVars
<1>8. CASE Supervised \/ Rebooted \/ UNCHANGED vars
  <2>1. UNCHANGED <<disk, issued, labfile, pc, lab, material, bundle, failed, crossed, beside>>
        BY <1>a, <1>8, SupervisorStep
        DEF TInv, TypeOK, vars, supervisorVars, requestVars, history, overlaps
  <2> QED  BY <1>a, <2>1 DEF TrustInv, OverlapsMarked, NothingInvented, ReadIsCurrent,
              InOrder, Gathering, Written, Busy
<1> QED  BY <1>1, <1>2, <1>3, <1>4, <1>5, <1>6, <1>7, <1>8
         DEF Next, Steps, Publish, Continue

\* It holds at first, when nothing is issued.
LEMMA TrustInit == Init => TrustInv
<1> SUFFICES ASSUME Init PROVE TrustInv
    OBVIOUS
<1>1. \A l \in Labs : /\ issued[l] = 0 /\ labfile[l] = 0 /\ disk[l] = 0
                      /\ \A r \in Requests : bundle[r][l] = 0
      BY TrustAssumption DEF Init, SupervisorInit, Nothing
<1>2. \A r \in Requests : pc[r] = "idle"
      BY DEF Init
<1> QED  BY <1>1, <1>2, InitTypes DEF Init, TrustInv, OverlapsMarked, NothingInvented,
            ReadIsCurrent, InOrder, Gathering, Written

\* While the server runs and no restart is asked for, it has read the bundle, or a
\* request is about to ask for one, or one that was is forgotten.
ServerFollows ==
    (Watching /\ ~restart /\ ~silent) =>
        loaded = disk \/ \E r \in Requests : Written(r)

\* Every step keeps it, if the server reads the bundle itself and not a copy of it.
LEMMA FollowsStep ==
    ASSUME TrustInv, ServerFollows, ~Combine, [Next]_vars
    PROVE  ServerFollows'
<1> SUFFICES ASSUME Watching', ~restart', ~silent'
             PROVE  loaded' = disk' \/ \E r \in Requests : Written(r)'
    BY DEF ServerFollows
<1>a. TInv
      BY DEF TrustInv
<1>1. ASSUME NEW r \in Requests, WriteBundle(r) \/ MarkUpdated(r)
      PROVE  Written(r)'
      BY <1>a, <1>1 DEF WriteBundle, MarkUpdated, Goto, Written, TInv, TypeOK
<1>2. ASSUME NEW r \in Requests, RaiseRestart(r)
      PROVE  FALSE
      BY <1>2 DEF RaiseRestart, Raised
<1>3. ASSUME UNCHANGED <<disk, loaded, restart, sup>>, ~silent,
             \A q \in Requests : Written(q) => Written(q)'
      PROVE  loaded' = disk' \/ \E r \in Requests : Written(r)'
      BY <1>3 DEF ServerFollows, Watching
<1>4. ASSUME NEW r \in Requests,
             \/ Change(r) \/ Republish(r) \/ ReadMaterial(r) \/ WriteLabFile(r)
             \/ Gather(r) \/ Compare(r)
      PROVE  loaded' = disk' \/ \E q \in Requests : Written(q)'
  <2>1. UNCHANGED <<supervisorVars, silent>>
        BY <1>4 DEF Change, Republish, Begin, ReadMaterial, WriteLabFile, Gather, Compare,
           history
  <2>2. /\ ~Written(r)
        /\ \A q \in Requests \ {r} : pc'[q] = pc[q]
        BY <1>a, <1>4 DEF Change, Republish, Begin, ReadMaterial, WriteLabFile, Gather, Compare,
           Finish, Goto, Written, TInv, TypeOK
  <2> QED  BY <1>3, <2>1, <2>2 DEF supervisorVars, Written
<1>5. ASSUME NEW r \in Requests, Fail(r)
      PROVE  loaded' = disk' \/ \E q \in Requests : Written(q)'
  <2>1. ~silent /\ ~Written(r) /\ UNCHANGED supervisorVars
        BY <1>5 DEF Fail, Written
  <2>2. \A q \in Requests \ {r} : pc'[q] = pc[q]
        BY <1>a, <1>5 DEF Fail, Finish, Goto, TInv, TypeOK
  <2> QED  BY <1>3, <2>1, <2>2 DEF supervisorVars, Written
<1>6. CASE Supervised
  <2>1. UNCHANGED <<pc, silent>>
        BY <1>6 DEF Supervised, requestVars, history
  <2>2. CASE LoadConfig
        BY <2>2 DEF LoadConfig
  <2>3. CASE \/ Configure("boot", "clear") \/ Configure("stop", "clear") \/ ClearFlags
             \/ PollRestart /\ restart
        BY <2>3 DEF Configure, ClearFlags, PollRestart, Watching
  <2>4. CASE \/ Configure("reconfigure", "check") \/ PollUpdated
             \/ PollRestart /\ ~restart
    <3>1. UNCHANGED <<disk, loaded>> /\ Watching /\ ~restart
          BY <2>4 DEF Configure, PollUpdated, PollRestart, Watching
    <3> QED  BY <2>1, <3>1 DEF ServerFollows, Written
  <2> QED  BY <1>6, <2>2, <2>3, <2>4 DEF Supervised, Supervise
<1>7. CASE Rebooted
      BY <1>7 DEF Rebooted, ContainerRestart, Watching
<1>8. CASE UNCHANGED vars
      BY <1>3, <1>8 DEF vars, supervisorVars, requestVars, history, Written
<1> QED  BY <1>1, <1>2, <1>4, <1>5, <1>6, <1>7, <1>8
         DEF Next, Steps, Publish, Continue

----------------------------------------------------------------------------
(***************************************************************************)
(* The properties.                                                         *)
(***************************************************************************)

\* Once the publications are done, the bundle has the material of every lab whose last
\* publication ran alone to its end.
LEMMA InvIsComplete == TrustInv => BundleIsComplete
BY DEF TrustInv, InOrder, BundleIsComplete, AllIdle, Published, Busy

\* publish_lab_ca: whatever order the writes of the one bundle come in, a lab whose last
\* publication ran alone to its end is in it with what it issued, once all are done.
THEOREM TrustStoreBundle == Spec => []BundleIsComplete
<1> QED  BY InvIsComplete, TrustInit, TrustStep, PTL DEF Spec

\* publish_lab_ca and start_freeradius: with no CRL enforcement the server then runs with it,
\* unless a publication was cut short between the bundle and restart.request.
THEOREM TrustStoreApplied ==
    ASSUME ~Combine
    PROVE  Spec => []TrustApplied
<1> DEFINE IInv == TrustInv /\ ServerFollows
<1>1. Init => IInv
  <2>1. Init => ServerFollows
        BY DEF Init, SupervisorInit, ServerFollows
  <2> QED  BY <2>1, TrustInit
<1>2. IInv /\ [Next]_vars => IInv'
      BY TrustStep, FollowsStep
<1>3. IInv => TrustApplied
  <2> SUFFICES ASSUME IInv, AllIdle, Watching, ~restart, ~silent
               PROVE  \A l \in Published : loaded[l] = issued[l]
      BY DEF TrustApplied
  <2>1. loaded = disk
        BY DEF ServerFollows, AllIdle, Written
  <2> QED  BY <2>1, InvIsComplete DEF BundleIsComplete
<1> QED  BY <1>1, <1>2, <1>3, PTL DEF Spec

\* trusted/ and the bundle: no step takes back what is published of a lab that is not
\* published beside another one.
LEMMA NotRolledBack ==
    ASSUME TrustInv, [Next]_vars, NEW l \in Labs \ crossed'
    PROVE  disk[l] <= disk'[l] /\ labfile[l] <= labfile'[l]
<1>a. /\ TInv /\ disk[l] \in Nat /\ labfile[l] \in Nat
      /\ \A r \in Requests : bundle[r][l] \in Nat
      BY Numbers DEF TrustInv
<1>1. ASSUME NEW r \in Requests, WriteLabFile(r)
      PROVE  disk[l] <= disk'[l] /\ labfile[l] <= labfile'[l]
  <2>1. /\ disk' = disk /\ pc[r] = "labfile"
        /\ labfile' = [labfile EXCEPT ![lab[r]] = material[r]]
        /\ crossed' = IF r \in beside THEN crossed ELSE crossed \ {lab[r]}
        BY <1>1 DEF WriteLabFile, supervisorVars
  <2>2. DOMAIN labfile = Labs
        BY <1>a DEF TInv, TypeOK, Bundles
  <2>3. CASE lab[r] = l
    <3>1. r \notin beside
          BY <2>1, <2>3 DEF TrustInv, OverlapsMarked
    <3>2. labfile'[l] = issued[l] /\ labfile[l] <= issued[l]
          BY <2>1, <2>2, <2>3, <3>1 DEF TrustInv, ReadIsCurrent, NothingInvented
    <3> QED  BY <1>a, <2>1, <3>2
  <2>4. CASE lab[r] # l
        BY <1>a, <2>1, <2>2, <2>4
  <2> QED  BY <2>3, <2>4
<1>2. ASSUME NEW r \in Requests, WriteBundle(r)
      PROVE  disk[l] <= disk'[l] /\ labfile[l] <= labfile'[l]
  <2>1. /\ disk' = bundle[r] /\ labfile' = labfile /\ pc[r] = "write"
        /\ crossed' = crossed
        BY <1>2 DEF WriteBundle, history, overlaps
  <2>2. InOrder(l)
        BY <2>1 DEF TrustInv
  <2> QED  BY <1>a, <2>1, <2>2 DEF InOrder, Gathering
<1>3. ASSUME UNCHANGED <<disk, labfile>>
      PROVE  disk[l] <= disk'[l] /\ labfile[l] <= labfile'[l]
      BY <1>a, <1>3
<1>4. ASSUME NEW r \in Requests,
             \/ Change(r) \/ Republish(r) \/ ReadMaterial(r) \/ Gather(r) \/ Compare(r)
             \/ MarkUpdated(r) \/ RaiseRestart(r) \/ Fail(r)
      PROVE  UNCHANGED <<disk, labfile>>
      BY <1>4 DEF Change, Republish, Begin, ReadMaterial, Gather, Compare, MarkUpdated,
         RaiseRestart, Fail, supervisorVars
<1>5. CASE Supervised \/ Rebooted
      BY <1>3, <1>5, <1>a, SupervisorStep DEF TInv, TypeOK
<1>6. CASE UNCHANGED vars
      BY <1>3, <1>6 DEF vars, supervisorVars
<1> QED  BY <1>1, <1>2, <1>3, <1>4, <1>5, <1>6 DEF Next, Steps, Publish, Continue

\* The files of a lab published alone only move forward, whoever publishes beside it later.
THEOREM TrustStoreNeverRollsBack == Spec => NeverRollsBack
<1>1. TrustInv /\ [Next]_vars =>
          [\A l \in Labs \ crossed' : disk[l] <= disk'[l] /\ labfile[l] <= labfile'[l]]_vars
      BY NotRolledBack
<1> QED  BY <1>1, TrustInit, TrustStep, PTL DEF Spec, NeverRollsBack

=============================================================================
