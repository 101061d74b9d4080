----------------------------- MODULE LabSettings -----------------------------
(***************************************************************************)
(* The labs: their names, which must differ whatever their case, and the   *)
(* JSON column settings, which two services share: the wireless profile    *)
(* and the advertised RADIUS target live under a key each, and the rest is *)
(* free-form.                                                              *)
(*                                                                         *)
(* A request loads the row, changes its copy and writes whole columns; a   *)
(* new name is compared with the names read before.  Nothing is locked.    *)
(***************************************************************************)
EXTENDS Integers, FiniteSets

CONSTANTS
    LabRequests,  \* threads that serve /labs and /radius-target
    LabNames,     \* names of labs, in the spellings that are used
    Fold,         \* Fold[n]: the name n without case and padding
    Empty,        \* the fold of a name without a visible character
    Profiles,     \* wireless profiles
    Ips,          \* IPv4 addresses that an operator advertises
    AutoIp,       \* the address that is detected
    Rests,        \* what else the settings of a lab may hold
    Absent,       \* "no such lab", "not given", "no profile", "no address"
    MaxLabs,      \* bound: labs that are created
    MaxLabChanges \* bound: requests that are made

ASSUME LabAssumption ==
    /\ Fold \in [LabNames -> LabNames \cup {Empty}]
    /\ Absent \notin LabNames \cup Profiles \cup Ips \cup Rests
    /\ Absent \notin 1..MaxLabs
    /\ AutoIp \notin Ips
    /\ MaxLabs \in Nat \ {0} /\ MaxLabChanges \in Nat

LabIds == 1..MaxLabs
Targets == [mode: {"auto", "manual"}, ip: Ips \cup {Absent}]
Settings == [profile: Profiles \cup {Absent}, target: Targets, rest: Rests]
Row == [name: LabNames, settings: Settings]

\* What a request may ask for.  A lab without a target has the default one.
Changes ==
         [kind: {"create"}, name: LabNames, settings: Settings]
    \cup [kind: {"patch"}, name: LabNames \cup {Absent}, settings: Settings \cup {Absent}]
    \cup [kind: {"profile"}, profile: Profiles]
    \cup [kind: {"target"}, mode: {"auto", "manual"}, ip: Ips \cup {Absent}]
    \cup [kind: {"delete"}]

\* What the interface shows of the settings of a lab.
Seen == [profile: Profiles \cup {Absent}, address: Ips \cup {AutoIp},
         preset: Ips \cup {Absent}, rest: Rests]

VARIABLES
    labs,       \* labs[l]: the row of lab l, or Absent
    created,    \* labs that were created
    job,        \* job[q]: the request that thread q serves, or Absent
    changes,    \* how many requests were made
    wanted,     \* history: what each lab was asked to be
    raced       \* history: labs named by a request whose comparison was no longer true

labVars == <<labs, created, job, changes, wanted, raced>>

\* A request: its change, its lab, the row it loaded, how far it is, and whether another
\* request wrote the lab (late) or a name (nameLate) since it was loaded or compared.
Job == [change: Changes, lab: LabIds \cup {Absent}, loaded: Row \cup {Absent},
        stage: {"check", "write"}, late: BOOLEAN, nameLate: BOOLEAN]

LabTypeOK ==
    /\ labs \in [LabIds -> Row \cup {Absent}]
    /\ created \in 0..MaxLabs
    /\ \A l \in LabIds : l > created => labs[l] = Absent
    /\ job \in [LabRequests -> Job \cup {Absent}]
    /\ changes \in 0..MaxLabChanges
    /\ wanted \in [LabIds -> Seen \cup {Absent}]
    /\ raced \subseteq LabIds

LabInit ==
    /\ labs = [l \in LabIds |-> Absent]
    /\ created = 0
    /\ job = [q \in LabRequests |-> Absent]
    /\ changes = 0
    /\ wanted = labs
    /\ raced = {}

Present == {l \in LabIds : labs[l] # Absent}

----------------------------------------------------------------------------
(***************************************************************************)
(* What the services make of settings.                                     *)
(***************************************************************************)

\* Wrong on purpose (the settings are rebuilt around the profile).
MergeProfile_Alone(settings, profile) ==
    [settings EXCEPT !.profile = profile, !.target = [mode |-> "auto", ip |-> Absent]]

\* merge_profile
MergeProfile(settings, profile) == [settings EXCEPT !.profile = profile]

\* update_radius_target: in auto mode the last manual address is kept as a preset.
MergeTarget(settings, mode, ip) ==
    [settings EXCEPT !.target =
        [mode |-> mode, ip |-> IF mode = "auto" /\ ip = Absent THEN @.ip ELSE ip]]

\* read_profile
ReadProfile(row) == row.settings.profile

\* Wrong on purpose (the preset is advertised in auto mode too).
EffectiveIp_Preset(row) == row.settings.target.ip

\* build_radius_target: the address that NAS devices are told to use.
EffectiveIp(row) ==
    IF row.settings.target.mode = "manual" /\ row.settings.target.ip # Absent
    THEN row.settings.target.ip
    ELSE AutoIp

Shown(row) == [profile |-> ReadProfile(row), address |-> EffectiveIp(row),
               preset |-> row.settings.target.ip, rest |-> row.settings.rest]

\* The row after a change, made from the copy of it that was loaded.
Changed(change, row) ==
    CASE change.kind = "create" -> [name |-> change.name, settings |-> change.settings]
      [] change.kind = "patch" ->
             [name |-> IF change.name = Absent THEN row.name ELSE change.name,
              settings |-> IF change.settings = Absent THEN row.settings
                           ELSE change.settings]
      [] change.kind = "profile" ->
             [row EXCEPT !.settings = MergeProfile(@, change.profile)]
      [] change.kind = "target" ->
             [row EXCEPT !.settings = MergeTarget(@, change.mode, change.ip)]
      [] change.kind = "delete" -> Absent

\* The columns an UPDATE names: those that differ from the copy, and settings when they
\* are flagged.
WritesName(j) == Changed(j.change, j.loaded).name # j.loaded.name
WritesSettings(j) ==
    \/ j.change.kind \in {"profile", "target"}
    \/ Changed(j.change, j.loaded).settings # j.loaded.settings

\* The reference: what a change asks for, of a lab that shows s.
Intended(change, s) ==
    CASE change.kind = "profile" -> [s EXCEPT !.profile = change.profile]
      [] change.kind = "target" ->
             [s EXCEPT !.address = IF change.mode = "manual" THEN change.ip ELSE AutoIp,
                       !.preset = IF change.ip = Absent THEN @ ELSE change.ip]
      [] change.kind = "patch" /\ change.settings = Absent -> s
      [] OTHER -> Shown(change)

----------------------------------------------------------------------------
(***************************************************************************)
(* Requests.                                                               *)
(***************************************************************************)

\* Wrong on purpose (only the same spelling is a conflict).
NameConflict_Spelling(name, lab) == \E l \in Present \ {lab} : labs[l].name = name

\* find_name_conflict
NameConflict(name, lab) ==
    /\ Fold[name] # Empty
    /\ \E l \in Present \ {lab} : Fold[labs[l].name] = Fold[name]

GivesName(change) == change.kind \in {"create", "patch"} /\ change.name # Absent

\* A manual target needs an address.
TargetIsValid(change) ==
    change.kind = "target" => (change.mode = "manual" => change.ip # Absent)

\* A handler begins: it loads the lab, or answers 404.
LabBegin(q) ==
    /\ job[q] = Absent /\ changes < MaxLabChanges
    /\ changes' = changes + 1
    /\ \E change \in Changes, l \in Present \cup {Absent} :
           /\ change.kind = "create" <=> l = Absent
           /\ TargetIsValid(change)
           /\ job' = [job EXCEPT ![q] =
                  [change |-> change, lab |-> l,
                   loaded |-> IF l = Absent THEN Absent ELSE labs[l],
                   stage |-> IF GivesName(change) THEN "check" ELSE "write",
                   late |-> FALSE, nameLate |-> FALSE]]
    /\ UNCHANGED <<labs, created, wanted, raced>>

\* _assert_name_is_free
LabCheckName(q) ==
    /\ job[q] # Absent
    /\ job[q].stage = "check"
    /\ ~NameConflict(job[q].change.name, job[q].lab)
    /\ job' = [job EXCEPT ![q].stage = "write"]
    /\ UNCHANGED <<labs, created, changes, wanted, raced>>

\* The answer is an error: the name is taken (400), the settings are not valid (400),
\* the lab has rows that refer to it or was deleted meanwhile (500).
LabRefuse(q) ==
    /\ job[q] # Absent
    /\ job' = [job EXCEPT ![q] = Absent]
    /\ UNCHANGED <<labs, created, changes, wanted, raced>>

\* The database refuses a name that another row has in the same spelling.
UniqueName(l, name) == \A k \in Present \ {l} : labs[k].name # name

\* The others are late for this lab, and those that compared names for a new name.
Passed(q, l, renames) ==
    [p \in LabRequests |->
        IF p = q \/ job[p] = Absent THEN job[p]
        ELSE [job[p] EXCEPT !.late = @ \/ job[p].lab = l,
                            !.nameLate = @ \/ (renames /\ job[p].stage = "write")]]

\* create_lab: INSERT and commit.
LabInsert(q) ==
    /\ job[q] # Absent
    /\ job[q].change.kind = "create" /\ job[q].stage = "write"
    /\ created < MaxLabs
    /\ created' = created + 1
    /\ UniqueName(created', job[q].change.name)
    /\ labs' = [labs EXCEPT ![created'] = Changed(job[q].change, Absent)]
    /\ wanted' = [wanted EXCEPT ![created'] = Intended(job[q].change, Absent)]
    /\ raced' = IF job[q].nameLate THEN raced \cup {created'} ELSE raced
    /\ job' = [Passed(q, created', TRUE) EXCEPT ![q] = Absent]
    /\ UNCHANGED changes

\* update_lab, set_profile, update_radius_target: UPDATE of the columns that changed and
\* commit; what a late request writes is taken as what was wanted.
LabUpdate(q) ==
    /\ job[q] # Absent
    /\ job[q].change.kind \in {"patch", "profile", "target"} /\ job[q].stage = "write"
    /\ LET j == job[q]
           l == j.lab
           new == Changed(j.change, j.loaded)
       IN  /\ labs[l] # Absent
           /\ WritesName(j) => UniqueName(l, new.name)
           /\ labs' = [labs EXCEPT
                  ![l].name = IF WritesName(j) THEN new.name ELSE @,
                  ![l].settings = IF WritesSettings(j) THEN new.settings ELSE @]
           /\ wanted' = [wanted EXCEPT ![l] =
                  IF j.late THEN Shown(labs'[l]) ELSE Intended(j.change, @)]
           /\ raced' = CASE WritesName(j) /\ j.nameLate -> raced \cup {l}
                         [] WritesName(j) /\ ~j.nameLate -> raced \ {l}
                         [] OTHER -> raced
           /\ job' = [Passed(q, l, WritesName(j)) EXCEPT ![q] = Absent]
    /\ UNCHANGED <<created, changes>>

\* delete_lab
LabDelete(q) ==
    /\ job[q] # Absent
    /\ job[q].change.kind = "delete"
    /\ labs' = [labs EXCEPT ![job[q].lab] = Absent]
    /\ wanted' = [wanted EXCEPT ![job[q].lab] = Absent]
    /\ job' = [Passed(q, job[q].lab, FALSE) EXCEPT ![q] = Absent]
    /\ UNCHANGED <<created, changes, raced>>

LabNext == \E q \in LabRequests :
    \/ LabBegin(q) \/ LabCheckName(q) \/ LabRefuse(q)
    \/ LabInsert(q) \/ LabUpdate(q) \/ LabDelete(q)

LabSpec == LabInit /\ [][LabNext]_labVars

----------------------------------------------------------------------------
(***************************************************************************)
(* Properties.                                                             *)
(***************************************************************************)

\* No two labs have one name, whatever its case (services/labs.py:22-45), unless a name
\* was written between the comparison and the write of one of them.
LabNamesDiffer ==
    \A k, l \in Present :
        (k # l /\ Fold[labs[k].name] # Empty /\ {k, l} \cap raced = {}) =>
            Fold[labs[k].name] # Fold[labs[l].name]

\* A change takes its own part of a lab and leaves the others alone (api/labs.py:67,
\* wireless.py:55, radius_target.py:138): the profile, the address NAS devices are told,
\* its preset and the rest are what was last asked for, unless requests overlapped.
LabKeepsWhatWasSet ==
    \A l \in Present : Shown(labs[l]) = wanted[l]

=============================================================================
