-------------------------- MODULE LabSettingsProofs --------------------------
(***************************************************************************)
(* What holds of the labs for any number of labs, names, requests and      *)
(* values.  The names differ because a request that nothing overtook wrote *)
(* a name that was compared with every other, and what was set is kept     *)
(* because such a request still holds the row as it is.                    *)
(***************************************************************************)
EXTENDS LabSettings, TLAPS

\* A request in progress: its lab and its copy fit its kind, what nobody overtook is still
\* current, and a name that was compared is still free unless a name was written since.
JobFits(j) ==
    /\ j.change.kind = "create" => j.lab = Absent
    /\ j.change.kind # "create" => j.lab \in LabIds /\ j.loaded \in Row
    /\ TargetIsValid(j.change)
    /\ (j.change.kind # "create" /\ ~j.late) => labs[j.lab] = j.loaded
    /\ (j.stage = "write" /\ GivesName(j.change) /\ ~j.nameLate) =>
           ~NameConflict(j.change.name, j.lab)
    /\ j.change.kind = "create" => GivesName(j.change)

JobsFit == \A q \in LabRequests : job[q] # Absent => JobFits(job[q])

\* The inductive invariant of the labs.
LabInv == LabTypeOK /\ JobsFit /\ LabNamesDiffer /\ LabKeepsWhatWasSet

\* A name is given or left out, so what asks for a name names it.
LEMMA AbsentIsNothing ==
    /\ Absent \notin LabNames /\ Absent \notin Profiles /\ Absent \notin Ips
    /\ Absent \notin Rests /\ Absent \notin LabIds
    /\ AutoIp \notin Ips
BY LabAssumption DEF LabIds

\* What a change makes of a row is a row (services/labs.py:68-82, wireless.py:52-58).
LEMMA ChangedIsRow ==
    ASSUME NEW change \in Changes, NEW row \in Row \cup {Absent},
           change.kind # "delete", change.kind # "create" => row \in Row
    PROVE  Changed(change, row) \in Row
<1>1. CASE change.kind = "create"
  BY <1>1 DEF Changed, Changes, Row
<1>2. CASE change.kind = "patch"
  <2>1. row \in Row
    BY <1>2
  <2>2. /\ change.name \in LabNames \cup {Absent}
        /\ change.settings \in Settings \cup {Absent}
    BY <1>2 DEF Changes
  <2>3. Changed(change, row) =
            [name |-> IF change.name = Absent THEN row.name ELSE change.name,
             settings |-> IF change.settings = Absent THEN row.settings
                          ELSE change.settings]
    BY <1>2 DEF Changed
  <2> QED
    BY <2>1, <2>2, <2>3 DEF Row
<1>3. CASE change.kind = "profile"
  <2>1. row \in Row /\ change.profile \in Profiles
    BY <1>3 DEF Changes
  <2>2. Changed(change, row) = [row EXCEPT !.settings = MergeProfile(@, change.profile)]
    BY <1>3 DEF Changed
  <2> QED
    BY <2>1, <2>2 DEF MergeProfile, Row, Settings
<1>4. CASE change.kind = "target"
  <2>1. row \in Row /\ change.mode \in {"auto", "manual"} /\ change.ip \in Ips \cup {Absent}
    BY <1>4 DEF Changes
  <2>2. Changed(change, row) =
            [row EXCEPT !.settings = MergeTarget(@, change.mode, change.ip)]
    BY <1>4 DEF Changed
  <2> QED
    BY <2>1, <2>2 DEF MergeTarget, Row, Settings, Targets
<1> QED
  BY <1>1, <1>2, <1>3, <1>4 DEF Changes

\* What is shown of a row is of the shape the interface expects.
LEMMA ShownIsSeen ==
    ASSUME NEW row, row.settings \in Settings
    PROVE  Shown(row) \in Seen
BY DEF Shown, Seen, Settings, Targets, ReadProfile, EffectiveIp

\* A change of a current row does what was asked for and nothing else: the two services
\* merge their key into the settings and keep the other's (wireless.py:52-58,
\* radius_target.py:129-141).
LEMMA ChangedIsIntended ==
    ASSUME NEW change \in Changes, NEW row \in Row, TargetIsValid(change),
           change.kind \in {"patch", "profile", "target"}
    PROVE  Shown(Changed(change, row)) = Intended(change, Shown(row))
<1>1. CASE change.kind = "patch"
  <2>1. Changed(change, row) =
            [name |-> IF change.name = Absent THEN row.name ELSE change.name,
             settings |-> IF change.settings = Absent THEN row.settings
                          ELSE change.settings]
    BY <1>1 DEF Changed
  <2>2. CASE change.settings = Absent
    <3>1. Changed(change, row).settings = row.settings
      BY <2>1, <2>2
    <3>2. Intended(change, Shown(row)) = Shown(row)
      BY <1>1, <2>2 DEF Intended
    <3> QED
      BY <3>1, <3>2 DEF Shown, ReadProfile, EffectiveIp
  <2>3. CASE change.settings # Absent
    <3>1. Changed(change, row).settings = change.settings
      BY <2>1, <2>3
    <3>2. Intended(change, Shown(row)) = Shown(change)
      BY <1>1, <2>3 DEF Intended
    <3> QED
      BY <3>1, <3>2 DEF Shown, ReadProfile, EffectiveIp
  <2> QED
    BY <2>2, <2>3
<1>2. CASE change.kind = "profile"
  <2>1. Changed(change, row) = [row EXCEPT !.settings = MergeProfile(@, change.profile)]
    BY <1>2 DEF Changed
  <2>2. Changed(change, row).settings = [row.settings EXCEPT !.profile = change.profile]
    BY <2>1 DEF MergeProfile, Row
  <2>3. Intended(change, Shown(row)) = [Shown(row) EXCEPT !.profile = change.profile]
    BY <1>2 DEF Intended
  <2> QED
    BY <2>2, <2>3 DEF Shown, ReadProfile, EffectiveIp, Row, Settings
<1>3. CASE change.kind = "target"
  <2>1. /\ change.mode \in {"auto", "manual"} /\ change.ip \in Ips \cup {Absent}
        /\ change.mode = "manual" => change.ip # Absent
    BY <1>3 DEF Changes, TargetIsValid
  <2>2. Changed(change, row) =
            [row EXCEPT !.settings = MergeTarget(@, change.mode, change.ip)]
    BY <1>3 DEF Changed
  <2>3. Changed(change, row).settings =
            [row.settings EXCEPT !.target =
                [mode |-> change.mode,
                 ip |-> IF change.mode = "auto" /\ change.ip = Absent
                        THEN row.settings.target.ip ELSE change.ip]]
    BY <2>2 DEF MergeTarget, Row, Settings
  <2>4. Intended(change, Shown(row)) =
            [Shown(row) EXCEPT
                !.address = IF change.mode = "manual" THEN change.ip ELSE AutoIp,
                !.preset = IF change.ip = Absent THEN @ ELSE change.ip]
    BY <1>3 DEF Intended
  <2>5. row.settings \in Settings
    BY DEF Row
  <2>6. /\ Changed(change, row).settings.profile = row.settings.profile
        /\ Changed(change, row).settings.rest = row.settings.rest
        /\ Changed(change, row).settings.target =
               [mode |-> change.mode,
                ip |-> IF change.mode = "auto" /\ change.ip = Absent
                       THEN row.settings.target.ip ELSE change.ip]
    BY <2>3, <2>5 DEF Settings
  <2>7. PICK new : new = Changed(change, row)
    OBVIOUS
  <2>8. /\ ReadProfile(new) = ReadProfile(row)
        /\ new.settings.rest = row.settings.rest
        /\ EffectiveIp(new) = IF change.mode = "manual" THEN change.ip ELSE AutoIp
        /\ new.settings.target.ip =
               IF change.ip = Absent THEN row.settings.target.ip ELSE change.ip
    BY <2>1, <2>6, <2>7 DEF ReadProfile, EffectiveIp
  <2>9. Intended(change, Shown(row)) =
            [profile |-> ReadProfile(row),
             address |-> IF change.mode = "manual" THEN change.ip ELSE AutoIp,
             preset |-> IF change.ip = Absent THEN row.settings.target.ip ELSE change.ip,
             rest |-> row.settings.rest]
    BY <2>4 DEF Shown
  <2> QED
    BY <2>7, <2>8, <2>9 DEF Shown
<1> QED
  BY <1>1, <1>2, <1>3

\* At first there is no lab and no request.
LEMMA LabInvAtFirst ==
    ASSUME LabInit PROVE LabInv
<1>1. LabTypeOK
  BY LabAssumption DEF LabInit, LabTypeOK
<1>2. JobsFit /\ LabNamesDiffer /\ LabKeepsWhatWasSet
  BY DEF LabInit, JobsFit, LabNamesDiffer, LabKeepsWhatWasSet, Present
<1> QED
  BY <1>1, <1>2 DEF LabInv

\* A step that writes no lab, ends requests or changes one, keeps the others' hold.
LEMMA OneJobChanges ==
    ASSUME LabInv, NEW q \in LabRequests, NEW j \in Job \cup {Absent},
           j # Absent => JobFits(j),
           job' = [job EXCEPT ![q] = j],
           labs' = labs, created' = created, wanted' = wanted, raced' = raced,
           changes' \in 0..MaxLabChanges
    PROVE  LabInv'
<1>1. LabTypeOK'
  BY DEF LabInv, LabTypeOK
<1>2. LabNamesDiffer' /\ LabKeepsWhatWasSet'
  BY DEF LabInv, LabNamesDiffer, LabKeepsWhatWasSet, Present
<1>3. ASSUME NEW p \in LabRequests, job'[p] # Absent
      PROVE  JobFits(job[p])'
  <2>1. /\ job' \in [LabRequests -> Job \cup {Absent}]
        /\ job \in [LabRequests -> Job \cup {Absent}]
    BY <1>1 DEF LabInv, LabTypeOK
  <2>2. PICK k \in Job : k = job'[p] /\ JobFits(k)
    BY <1>3, <2>1 DEF LabInv, JobsFit
  <2>3. NameConflict(k.change.name, k.lab)' <=> NameConflict(k.change.name, k.lab)
    BY DEF NameConflict, Present
  <2> QED
    BY <2>2, <2>3 DEF JobFits, NameConflict, Present
<1>4. JobsFit'
  BY <1>3 DEF JobsFit
<1> QED
  BY <1>1, <1>2, <1>4 DEF LabInv

\* A handler begins with the row as it is.
LEMMA LabBeginKeeps ==
    ASSUME LabInv, NEW q \in LabRequests, LabBegin(q) PROVE LabInv'
<1>1. PICK change \in Changes, l \in Present \cup {Absent} :
          /\ change.kind = "create" <=> l = Absent
          /\ TargetIsValid(change)
          /\ job' = [job EXCEPT ![q] =
                 [change |-> change, lab |-> l,
                  loaded |-> IF l = Absent THEN Absent ELSE labs[l],
                  stage |-> IF GivesName(change) THEN "check" ELSE "write",
                  late |-> FALSE, nameLate |-> FALSE]]
  BY DEF LabBegin
<1>2. PICK j : j = [change |-> change, lab |-> l,
                    loaded |-> IF l = Absent THEN Absent ELSE labs[l],
                    stage |-> IF GivesName(change) THEN "check" ELSE "write",
                    late |-> FALSE, nameLate |-> FALSE]
  OBVIOUS
<1>3. l # Absent => l \in LabIds /\ labs[l] \in Row
  BY <1>1 DEF Present, LabInv, LabTypeOK
<1>4. j \in Job
  BY <1>1, <1>2, <1>3 DEF Job
<1>5. change.kind = "create" => GivesName(change)
  BY AbsentIsNothing, <1>1 DEF GivesName, Changes
<1>6. JobFits(j)
  BY <1>1, <1>2, <1>3, <1>5 DEF JobFits
<1>7. changes' \in 0..MaxLabChanges
  BY LabAssumption DEF LabBegin, LabInv, LabTypeOK
<1> QED
  BY <1>1, <1>2, <1>4, <1>6, <1>7, OneJobChanges DEF LabBegin

\* A name that passes the comparison is free at that moment.
LEMMA LabCheckNameKeeps ==
    ASSUME LabInv, NEW q \in LabRequests, LabCheckName(q) PROVE LabInv'
<1>1. job[q] \in Job /\ JobFits(job[q])
  BY DEF LabInv, LabTypeOK, JobsFit, LabCheckName
<1>2. PICK j : j = [job[q] EXCEPT !.stage = "write"]
  OBVIOUS
<1>3. j \in Job /\ j.change = job[q].change /\ j.lab = job[q].lab
      /\ j.loaded = job[q].loaded /\ j.late = job[q].late
  BY <1>1, <1>2 DEF Job
<1>4. ~NameConflict(j.change.name, j.lab)
  BY <1>3 DEF LabCheckName
<1>5. JobFits(j)
  BY <1>1, <1>3, <1>4 DEF JobFits
<1>6. job' = [job EXCEPT ![q] = j] /\ changes' \in 0..MaxLabChanges
  BY <1>2 DEF LabCheckName, LabInv, LabTypeOK
<1> QED
  BY <1>3, <1>5, <1>6, OneJobChanges DEF LabCheckName

\* A refused request leaves everything as it is.
LEMMA LabRefuseKeeps ==
    ASSUME LabInv, NEW q \in LabRequests, LabRefuse(q) PROVE LabInv'
<1>1. job' = [job EXCEPT ![q] = Absent] /\ changes' \in 0..MaxLabChanges
  BY DEF LabRefuse, LabInv, LabTypeOK
<1> QED
  BY <1>1, OneJobChanges DEF LabRefuse

\* A write of lab l leaves the other requests fitting: those of the lab are late, and
\* those that compared a name are late for that if a name was written.
LEMMA OvertakenFit ==
    ASSUME LabInv, NEW q \in LabRequests, NEW l \in LabIds, NEW renames \in BOOLEAN,
           job' = [Passed(q, l, renames) EXCEPT ![q] = Absent],
           labs' \in [LabIds -> Row \cup {Absent}],
           \A k \in LabIds \ {l} : labs'[k] = labs[k],
           ~renames => \/ labs'[l] = Absent
                       \/ labs[l] # Absent /\ labs'[l].name = labs[l].name
    PROVE  JobsFit' /\ job' \in [LabRequests -> Job \cup {Absent}]
<1>1. job \in [LabRequests -> Job \cup {Absent}]
  BY DEF LabInv, LabTypeOK
<1>2. \A p \in LabRequests :
          job'[p] = IF p = q \/ job[p] = Absent THEN IF p = q THEN Absent ELSE job[p]
                    ELSE [job[p] EXCEPT !.late = @ \/ job[p].lab = l,
                              !.nameLate = @ \/ (renames /\ job[p].stage = "write")]
  BY DEF Passed
<1>3. ASSUME NEW p \in LabRequests, job'[p] # Absent
      PROVE  job'[p] \in Job /\ JobFits(job[p])'
  <2>1. p # q /\ job[p] # Absent /\ job[p] \in Job /\ JobFits(job[p])
    BY <1>1, <1>2, <1>3 DEF LabInv, JobsFit
  <2>2. PICK old : old = job[p]
    OBVIOUS
  <2>3. PICK new : new = job'[p]
    OBVIOUS
  <2>4. new = [old EXCEPT !.late = old.late \/ old.lab = l,
                          !.nameLate = old.nameLate \/ (renames /\ old.stage = "write")]
    BY <1>2, <2>1, <2>2, <2>3
  <2>5. old \in Job
    BY <2>1, <2>2
  <2>6. /\ new \in Job
        /\ new.change = old.change /\ new.lab = old.lab
        /\ new.loaded = old.loaded /\ new.stage = old.stage
    BY <2>4, <2>5 DEF Job
  <2>7. ~new.late => ~old.late /\ old.lab # l
    BY <2>4, <2>5 DEF Job
  <2>8. ~new.nameLate => ~old.nameLate /\ ~(renames /\ old.stage = "write")
    BY <2>4, <2>5 DEF Job
  <2>9. JobFits(old)
    BY <2>1, <2>2
  <2>10. (new.change.kind # "create" /\ ~new.late) => labs'[new.lab] = new.loaded
    BY <2>6, <2>7, <2>9 DEF JobFits
  <2>11. (new.stage = "write" /\ GivesName(new.change) /\ ~new.nameLate) =>
             ~NameConflict(new.change.name, new.lab)'
    <3>1. SUFFICES ASSUME new.stage = "write", GivesName(new.change), ~new.nameLate
                   PROVE  ~NameConflict(new.change.name, new.lab)'
      OBVIOUS
    <3>2. ~NameConflict(new.change.name, new.lab)
      BY <2>6, <2>8, <2>9, <3>1 DEF JobFits
    <3>3. ~renames
      BY <2>6, <2>8, <3>1
    <3>4. \A k \in LabIds : labs'[k] # Absent =>
              labs[k] # Absent /\ labs'[k].name = labs[k].name
      BY <3>3
    <3> QED
      BY <3>2, <3>4 DEF NameConflict, Present
  <2>12. JobFits(old) /\ TargetIsValid(new.change)
         /\ (new.change.kind = "create" => new.lab = Absent /\ GivesName(new.change))
         /\ (new.change.kind # "create" => new.lab \in LabIds /\ new.loaded \in Row)
    BY <2>6, <2>9 DEF JobFits
  <2>13. NameConflict(new.change.name, new.lab)' <=>
             NameConflict(job[p].change.name, job[p].lab)'
    BY <2>3 DEF NameConflict, Present
  <2>14. JobFits(job[p])'
    BY <2>3, <2>10, <2>11, <2>12, <2>13 DEF JobFits
  <2> QED
    BY <2>3, <2>6, <2>14
<1>4. JobsFit'
  BY <1>3 DEF JobsFit
<1>5. job' \in [LabRequests -> Job \cup {Absent}]
  <2>1. DOMAIN job' = LabRequests /\ job' = [p \in LabRequests |-> job'[p]]
    BY DEF Passed
  <2> QED
    BY <1>3, <2>1
<1> QED
  BY <1>4, <1>5

\* The names stay different when lab l gets a name that no other lab has, or keeps its
\* own, or is excepted from now on.
LEMMA NamesStayDifferent ==
    ASSUME LabInv, NEW l \in LabIds, NEW name,
           labs' \in [LabIds -> Row \cup {Absent}],
           \A k \in LabIds \ {l} : labs'[k] = labs[k],
           labs'[l] # Absent => labs'[l].name = name,
           \/ raced' = raced \cup {l}
           \/ raced \ {l} \subseteq raced' /\ ~NameConflict(name, l)
           \/ raced' = raced /\ labs[l] # Absent /\ labs[l].name = name
    PROVE  LabNamesDiffer'
<1>1. SUFFICES ASSUME NEW k \in LabIds, NEW m \in LabIds, labs'[k] # Absent,
                      labs'[m] # Absent, k # m, Fold[labs'[k].name] # Empty,
                      {k, m} \cap raced' = {},
                      Fold[labs'[k].name] = Fold[labs'[m].name]
               PROVE  FALSE
  BY DEF LabNamesDiffer, Present
<1>2. \A a, b \in LabIds :
          (labs[a] # Absent /\ labs[b] # Absent /\ a # b /\ Fold[labs[a].name] # Empty
           /\ {a, b} \cap raced = {}) => Fold[labs[a].name] # Fold[labs[b].name]
  BY DEF LabInv, LabNamesDiffer, Present
<1>3. CASE k # l /\ m # l
  BY <1>1, <1>2, <1>3
<1>4. CASE k = l \/ m = l
  <2>1. PICK o \in LabIds : o # l /\ labs[o] # Absent /\ labs'[o] = labs[o]
                            /\ Fold[labs[o].name] = Fold[name] /\ Fold[name] # Empty
                            /\ l \notin raced' /\ o \notin raced'
    BY <1>1, <1>4
  <2>2. NameConflict(name, l)
    BY <2>1 DEF NameConflict, Present
  <2>3. raced' = raced /\ labs[l] # Absent /\ labs[l].name = name
    BY <2>1, <2>2
  <2> QED
    BY <1>2, <2>1, <2>3
<1> QED
  BY <1>3, <1>4

\* A lab that is created has the name that was compared, and what was asked for.
LEMMA LabInsertKeeps ==
    ASSUME LabInv, NEW q \in LabRequests, LabInsert(q) PROVE LabInv'
<1>1. PICK j : j = job[q]
  OBVIOUS
<1>2. j \in Job /\ JobFits(j) /\ j.change \in Changes
      /\ j.change.kind = "create" /\ j.stage = "write"
  BY <1>1 DEF LabInsert, LabInv, LabTypeOK, JobsFit, Job
<1>3. PICK l : l = created'
  OBVIOUS
<1>4. l \in LabIds /\ labs[l] = Absent /\ created' \in 0..MaxLabs
      /\ \A k \in LabIds : k > created' => k > created /\ k # l
  BY <1>3, LabAssumption DEF LabInsert, LabInv, LabTypeOK, LabIds
<1>5. PICK row : row = Changed(j.change, Absent)
  OBVIOUS
<1>6. row \in Row /\ row.settings = j.change.settings /\ row.name = j.change.name
  BY <1>2, <1>5 DEF Changed, Changes, Row
<1>7. /\ labs' = [labs EXCEPT ![l] = row]
      /\ wanted' = [wanted EXCEPT ![l] = Intended(j.change, Absent)]
      /\ raced' = IF j.nameLate THEN raced \cup {l} ELSE raced
      /\ job' = [Passed(q, l, TRUE) EXCEPT ![q] = Absent]
  BY <1>1, <1>3, <1>5 DEF LabInsert
<1>8. Intended(j.change, Absent) = Shown(row) /\ Shown(row) \in Seen
  <2>1. Intended(j.change, Absent) = Shown(j.change)
    BY <1>2 DEF Intended
  <2>2. Shown(j.change) = Shown(row)
    BY <1>6 DEF Shown, ReadProfile, EffectiveIp
  <2>3. row.settings \in Settings
    BY <1>6 DEF Row
  <2> QED
    BY <2>1, <2>2, <2>3, ShownIsSeen
<1>9. labs' \in [LabIds -> Row \cup {Absent}]
  BY <1>6, <1>7 DEF LabInv, LabTypeOK
<1>10. JobsFit' /\ job' \in [LabRequests -> Job \cup {Absent}]
  BY <1>4, <1>7, <1>9, OvertakenFit
<1>11. LabTypeOK'
  <2>1. wanted' \in [LabIds -> Seen \cup {Absent}]
    BY <1>7, <1>8 DEF LabInv, LabTypeOK
  <2>2. raced' \subseteq LabIds
    BY <1>4, <1>7 DEF LabInv, LabTypeOK
  <2>3. \A k \in LabIds : k > created' => labs'[k] = Absent
    BY <1>4, <1>7 DEF LabInv, LabTypeOK
  <2>4. changes' \in 0..MaxLabChanges
    BY DEF LabInsert, LabInv, LabTypeOK
  <2> QED
    BY <1>4, <1>9, <1>10, <2>1, <2>2, <2>3, <2>4 DEF LabTypeOK
<1>12. LabNamesDiffer'
  <2>1. labs'[l].name = j.change.name /\ (\A k \in LabIds \ {l} : labs'[k] = labs[k])
    BY <1>4, <1>6, <1>7 DEF LabInv, LabTypeOK
  <2>2. CASE j.nameLate
    BY <1>4, <1>7, <1>9, <2>1, <2>2, NamesStayDifferent
  <2>3. CASE ~j.nameLate
    <3>1. ~NameConflict(j.change.name, Absent)
      BY <1>2, <2>3 DEF JobFits
    <3>2. ~NameConflict(j.change.name, l)
      BY <3>1, <1>4, AbsentIsNothing DEF NameConflict, Present
    <3>3. raced \ {l} \subseteq raced'
      BY <1>7, <2>3
    <3> QED
      BY <1>4, <1>9, <2>1, <3>2, <3>3, NamesStayDifferent
  <2>4. j.nameLate \in BOOLEAN
    BY <1>2 DEF Job
  <2> QED
    BY <2>2, <2>3, <2>4
<1>13. LabKeepsWhatWasSet'
  <2>1. SUFFICES ASSUME NEW k \in LabIds, labs'[k] # Absent
                 PROVE  Shown(labs'[k]) = wanted'[k]
    BY DEF LabKeepsWhatWasSet, Present, Shown, ReadProfile, EffectiveIp
  <2>2. CASE k = l
    BY <1>4, <1>7, <1>8, <2>2 DEF LabInv, LabTypeOK
  <2>3. CASE k # l
    BY <1>7, <2>1, <2>3 DEF LabInv, LabTypeOK, LabKeepsWhatWasSet, Present
  <2> QED
    BY <2>2, <2>3
<1> QED
  BY <1>10, <1>11, <1>12, <1>13 DEF LabInv

\* A change that nobody overtook makes of the row what was asked for; one that was
\* overtaken is taken as it comes.
LEMMA LabUpdateKeeps ==
    ASSUME LabInv, NEW q \in LabRequests, LabUpdate(q) PROVE LabInv'
<1>1. PICK j : j = job[q]
  OBVIOUS
<1>2. j \in Job /\ JobFits(j) /\ j.change \in Changes /\ TargetIsValid(j.change)
      /\ j.change.kind \in {"patch", "profile", "target"} /\ j.stage = "write"
      /\ j.nameLate \in BOOLEAN /\ j.late \in BOOLEAN
  BY <1>1 DEF LabUpdate, LabInv, LabTypeOK, JobsFit, Job, JobFits
<1>3. PICK l : l = j.lab
  OBVIOUS
<1>4. l \in LabIds /\ j.loaded \in Row /\ labs[l] \in Row /\ labs[l] # Absent
  BY <1>1, <1>2, <1>3 DEF JobFits, LabUpdate, LabInv, LabTypeOK
<1>5. PICK new : new = Changed(j.change, j.loaded)
  OBVIOUS
<1>6. new \in Row
  BY <1>2, <1>4, <1>5, ChangedIsRow
<1>7. PICK wn \in BOOLEAN, ws \in BOOLEAN :
          /\ wn <=> WritesName(j)
          /\ ws <=> WritesSettings(j)
          /\ wn <=> new.name # j.loaded.name
          /\ ~ws => new.settings = j.loaded.settings
  BY <1>5 DEF WritesName, WritesSettings
<1>8. PICK row : row = [labs[l] EXCEPT !.name = IF wn THEN new.name ELSE @,
                                       !.settings = IF ws THEN new.settings ELSE @]
  OBVIOUS
<1>9. /\ row \in Row
      /\ row.name = IF wn THEN new.name ELSE labs[l].name
      /\ row.settings = IF ws THEN new.settings ELSE labs[l].settings
  BY <1>4, <1>6, <1>8 DEF Row
<1>10. /\ labs' = [labs EXCEPT ![l] = row]
       /\ wanted' = [wanted EXCEPT ![l] =
              IF j.late THEN Shown(labs'[l]) ELSE Intended(j.change, @)]
       /\ raced' = CASE wn /\ j.nameLate -> raced \cup {l}
                     [] wn /\ ~j.nameLate -> raced \ {l}
                     [] OTHER -> raced
       /\ job' = [Passed(q, l, wn) EXCEPT ![q] = Absent]
       /\ UNCHANGED <<created, changes>>
  <2>1. labs' = [labs EXCEPT ![l].name = IF wn THEN new.name ELSE @,
                             ![l].settings = IF ws THEN new.settings ELSE @]
    BY <1>1, <1>3, <1>5, <1>7 DEF LabUpdate
  <2>2. labs' = [labs EXCEPT ![l] = row]
    BY <1>4, <1>8, <2>1 DEF LabInv, LabTypeOK, Row
  <2>3. job' = [Passed(q, l, WritesName(j)) EXCEPT ![q] = Absent]
    BY <1>1, <1>3 DEF LabUpdate
  <2>4. wn = WritesName(j)
    BY <1>7 DEF WritesName
  <2>5. job' = [Passed(q, l, wn) EXCEPT ![q] = Absent]
    BY <2>3, <2>4
  <2>6. raced' = CASE wn /\ j.nameLate -> raced \cup {l}
                   [] wn /\ ~j.nameLate -> raced \ {l}
                   [] OTHER -> raced
    BY <1>1, <1>3, <2>4 DEF LabUpdate
  <2>7. wanted' = [wanted EXCEPT ![l] =
              IF j.late THEN Shown(labs'[l]) ELSE Intended(j.change, @)]
    BY <1>1, <1>3 DEF LabUpdate
  <2> QED
    BY <2>2, <2>5, <2>6, <2>7 DEF LabUpdate
<1>11. labs' \in [LabIds -> Row \cup {Absent}]
       /\ labs'[l] = row /\ (\A k \in LabIds \ {l} : labs'[k] = labs[k])
  BY <1>4, <1>9, <1>10 DEF LabInv, LabTypeOK
<1>12. JobsFit' /\ job' \in [LabRequests -> Job \cup {Absent}]
  BY <1>4, <1>9, <1>10, <1>11, OvertakenFit
<1>13. wanted'[l] = Shown(row) /\ Shown(row) \in Seen
  <2>1. wanted \in [LabIds -> Seen \cup {Absent}]
    BY DEF LabInv, LabTypeOK
  <2>2. row.settings \in Settings
    BY <1>9 DEF Row
  <2>3. CASE j.late
    BY <1>4, <1>10, <1>11, <2>1, <2>2, <2>3, ShownIsSeen
  <2>4. CASE ~j.late
    <3>1. labs[l] = j.loaded
      BY <1>2, <1>3, <2>4 DEF JobFits
    <3>2. row = new
      BY <1>4, <1>6, <1>7, <1>9, <3>1 DEF Row
    <3>3. wanted[l] = Shown(j.loaded)
      BY <1>4, <3>1 DEF LabInv, LabKeepsWhatWasSet, Present
    <3>4. wanted'[l] = Intended(j.change, wanted[l])
      BY <1>4, <1>10, <2>1, <2>4
    <3>5. Shown(new) = Intended(j.change, Shown(j.loaded))
      BY <1>2, <1>4, <1>5, ChangedIsIntended
    <3> QED
      BY <2>2, <3>2, <3>3, <3>4, <3>5, ShownIsSeen
  <2> QED
    BY <1>2, <2>3, <2>4
<1>14. LabTypeOK'
  <2>1. wanted' \in [LabIds -> Seen \cup {Absent}]
    <3>1. wanted' = [wanted EXCEPT ![l] = Shown(row)]
      BY <1>4, <1>10, <1>13 DEF LabInv, LabTypeOK
    <3> QED
      BY <1>4, <1>13, <3>1 DEF LabInv, LabTypeOK
  <2>2. raced' \subseteq LabIds
    BY <1>4, <1>10 DEF LabInv, LabTypeOK
  <2>3. \A k \in LabIds : k > created' => labs'[k] = Absent
    BY <1>4, <1>10, <1>11 DEF LabInv, LabTypeOK
  <2> QED
    BY <1>10, <1>11, <1>12, <2>1, <2>2, <2>3 DEF LabTypeOK, LabInv
<1>15. LabNamesDiffer'
  <2>1. CASE wn /\ j.nameLate
    BY <1>4, <1>10, <1>11, <2>1, NamesStayDifferent
  <2>2. CASE wn /\ ~j.nameLate
    <3>1. GivesName(j.change) /\ new.name = j.change.name
      <4>1. CASE j.change.kind = "patch"
        BY <1>5, <1>7, <2>2, <4>1 DEF Changed, GivesName
      <4>2. CASE j.change.kind = "profile"
        BY <1>4, <1>5, <1>7, <2>2, <4>2 DEF Changed, Row
      <4>3. CASE j.change.kind = "target"
        BY <1>4, <1>5, <1>7, <2>2, <4>3 DEF Changed, Row
      <4> QED
        BY <1>2, <4>1, <4>2, <4>3
    <3>2. ~NameConflict(new.name, l)
      BY <1>2, <1>3, <2>2, <3>1 DEF JobFits
    <3>3. raced \ {l} \subseteq raced' /\ row.name = new.name
      BY <1>9, <1>10, <2>2
    <3> QED
      BY <1>4, <1>11, <3>2, <3>3, NamesStayDifferent
  <2>3. CASE ~wn
    <3>1. raced' = raced /\ row.name = labs[l].name
      BY <1>9, <1>10, <2>3
    <3> QED
      BY <1>4, <1>11, <3>1, NamesStayDifferent
  <2> QED
    BY <1>2, <2>1, <2>2, <2>3
<1>16. LabKeepsWhatWasSet'
  <2>1. SUFFICES ASSUME NEW k \in LabIds, labs'[k] # Absent
                 PROVE  Shown(labs'[k]) = wanted'[k]
    BY DEF LabKeepsWhatWasSet, Present, Shown, ReadProfile, EffectiveIp
  <2>2. CASE k = l
    BY <1>11, <1>13, <2>2
  <2>3. CASE k # l
    BY <1>10, <1>11, <2>1, <2>3 DEF LabInv, LabTypeOK, LabKeepsWhatWasSet, Present
  <2> QED
    BY <2>2, <2>3
<1> QED
  BY <1>12, <1>14, <1>15, <1>16 DEF LabInv

\* A lab that goes takes nothing of the others with it.
LEMMA LabDeleteKeeps ==
    ASSUME LabInv, NEW q \in LabRequests, LabDelete(q) PROVE LabInv'
<1>1. PICK l : l = job[q].lab
  OBVIOUS
<1>2. l \in LabIds
  BY <1>1 DEF LabDelete, LabInv, JobsFit, JobFits
<1>3. /\ labs' = [labs EXCEPT ![l] = Absent]
      /\ wanted' = [wanted EXCEPT ![l] = Absent]
      /\ job' = [Passed(q, l, FALSE) EXCEPT ![q] = Absent]
      /\ UNCHANGED <<created, changes, raced>>
  BY <1>1 DEF LabDelete
<1>4. labs' \in [LabIds -> Row \cup {Absent}]
      /\ labs'[l] = Absent /\ (\A k \in LabIds \ {l} : labs'[k] = labs[k])
  BY <1>2, <1>3 DEF LabInv, LabTypeOK
<1>5. JobsFit' /\ job' \in [LabRequests -> Job \cup {Absent}]
  BY <1>2, <1>3, <1>4, OvertakenFit
<1>6. LabTypeOK'
  BY <1>2, <1>3, <1>4, <1>5 DEF LabInv, LabTypeOK
<1>7. LabNamesDiffer'
  BY <1>3, <1>4 DEF LabInv, LabNamesDiffer, Present
<1>8. LabKeepsWhatWasSet'
  <2>1. SUFFICES ASSUME NEW k \in LabIds, labs'[k] # Absent
                 PROVE  Shown(labs'[k]) = wanted'[k]
    BY DEF LabKeepsWhatWasSet, Present, Shown, ReadProfile, EffectiveIp
  <2>2. k # l
    BY <1>4, <2>1
  <2> QED
    BY <1>3, <1>4, <2>1, <2>2 DEF LabInv, LabTypeOK, LabKeepsWhatWasSet, Present
<1> QED
  BY <1>5, <1>6, <1>7, <1>8 DEF LabInv

\* The invariant of the labs is inductive.
LEMMA LabStepKeeps ==
    ASSUME LabInv, [LabNext]_labVars PROVE LabInv'
<1>1. CASE LabNext
  <2>1. PICK q \in LabRequests :
            \/ LabBegin(q)
            \/ LabCheckName(q)
            \/ LabRefuse(q)
            \/ LabInsert(q)
            \/ LabUpdate(q)
            \/ LabDelete(q)
    BY <1>1 DEF LabNext
  <2> QED
    BY <2>1, LabBeginKeeps, LabCheckNameKeeps, LabRefuseKeeps, LabInsertKeeps,
       LabUpdateKeeps, LabDeleteKeeps
<1>2. CASE UNCHANGED labVars
  <2>1. LabTypeOK'
    BY <1>2 DEF labVars, LabInv, LabTypeOK
  <2>2. LabNamesDiffer'
    BY <1>2 DEF labVars, LabInv, LabNamesDiffer, Present
  <2>3. LabKeepsWhatWasSet'
    BY <1>2 DEF labVars, LabInv, LabKeepsWhatWasSet, Present, Shown, ReadProfile,
       EffectiveIp
  <2>4. JobsFit'
    BY <1>2 DEF labVars, LabInv, JobsFit, JobFits, NameConflict, Present
  <2> QED
    BY <2>1, <2>2, <2>3, <2>4 DEF LabInv
<1> QED
  BY <1>1, <1>2

\* The invariant of the labs holds, however many labs and requests there are.
THEOREM LabsInvariant == LabSpec => []LabInv
<1>1. LabInit => LabInv
  BY LabInvAtFirst
<1>2. LabInv /\ [LabNext]_labVars => LabInv'
  BY LabStepKeeps
<1> QED
  BY <1>1, <1>2, PTL DEF LabSpec

\* The type invariant of the labs.
THEOREM LabsTypes == LabSpec => []LabTypeOK
<1>1. LabInv => LabTypeOK
  BY DEF LabInv
<1> QED
  BY <1>1, LabsInvariant, PTL

\* No two labs have one name, whatever its case, unless a name was written between the
\* comparison and the write of one of them (services/labs.py:42-63).
THEOREM LabsNames == LabSpec => []LabNamesDiffer
<1>1. LabInv => LabNamesDiffer
  BY DEF LabInv
<1> QED
  BY <1>1, LabsInvariant, PTL

\* A lab shows what was last asked for, whichever service was asked, unless requests
\* overlapped (wireless.py:52-78, radius_target.py:129-147).
THEOREM LabsKeepSettings == LabSpec => []LabKeepsWhatWasSet
<1>1. LabInv => LabKeepsWhatWasSet
  BY DEF LabInv
<1> QED
  BY <1>1, LabsInvariant, PTL
=============================================================================
