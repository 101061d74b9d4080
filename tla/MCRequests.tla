----------------------------- MODULE MCRequests ------------------------------
(* Small instances of ClientApply without faults, of SessionActions and of    *)
(* LabSettings for TLC.  They share nothing here; one run checks them, one    *)
(* scene at a time.                                                           *)
EXTENDS ClientApply, SessionActions, LabSettings

CONSTANTS Profile, Wired, Wireless

MCContents == FileContents

MCBlank == EmptyFile

\* Names of attributes and of labs in two spellings; a lab name may be blank.
MCNames == {"Tunnel-Type", "Tunnel-Medium-Type", "Tunnel-Private-Group-Id",
            "Filter-Id", "filter-id", "Class"}
MCLower == [n \in MCNames |-> IF n = "Filter-Id" THEN "filter-id" ELSE n]
MCValues == {"VLAN", "IEEE-802", "10", "guest", "staff"}
MCLabNames == {"Lab", "lab", " "}
MCFold == [n \in MCLabNames |-> IF n = " " THEN Empty ELSE "lab"]

\* Raw pairs that repeat the role, in its spelling or another, are blank, or are new.
Pairs == {Attribute(n, v) :
              n \in {"Filter-Id", "filter-id", "Class"}, v \in {"staff", EmptyValue}}
MCBodies ==
    [enabled: BOOLEAN, vlan: {"10", Unset}, role: {"guest", Unset},
     extra: {<<>>} \cup {<<a>> : a \in Pairs}
            \cup {<<a, b>> : a \in Pairs, b \in Pairs}]

\* Policies that are acted with: a VLAN and a role, or the same disabled.
Acted == {b \in MCBodies : b.vlan = "10" /\ b.role = "guest" /\ b.extra = <<>>}

\* Settings that labs are created with, and that PATCH gives them.
Auto == [mode |-> "auto", ip |-> Absent]
Created == [profile |-> Absent, target |-> Auto, rest |-> Wired]
Patched == [profile |-> Profile, target |-> Auto, rest |-> Wireless]

\* Bound: what happens in one behaviour.  Changes of RADIUS clients, one at a time; two
\* session actions at once to a NAS, whatever the network does; one with an edit beside it;
\* one after the other to the sink while the loop is taken and the API restarts; policies
\* of every kind; labs.
Scenes == {"clients", "race", "edits", "sink", "policies", "labs"}
VARIABLE scene

MCInit ==
    /\ Init /\ SessionInit /\ LabInit
    /\ scene \in Scenes
    /\ \A p \in Policies : scene # "policies" => policies[p] \in Acted
    /\ scene # "sink" => ~sink
    /\ scene \in {"clients", "race", "labs"} => \A p \in Policies : policies[p].enabled
    /\ scene \in {"clients", "race", "policies", "labs"} => endpoint # None

\* The first request is always made by the same thread.
First == CHOOSE r \in Threads : TRUE
FirstAsks == \A r \in Threads \ {First} : act'[r].nr # 1

Running == {r \in Threads : act'[r].nr # 0}

Quiet == api' /\ ~stuck'

Race ==
    /\ Quiet /\ edits' = 0
    /\ \A r \in Running :
           /\ act'[r].to # Sink /\ act'[r].code # "error" /\ told'[r] # "refused"
           /\ act'[r].nr = 1 => act'[r].kind = "coa"
           /\ stage'[r] = "target" => act'[r].chosen = None
    /\ Cardinality(net') <= 2 /\ FirstAsks
    /\ UNCHANGED clients

Edits ==
    /\ Quiet /\ asked' <= 1 /\ FirstAsks
    /\ \A r \in Running : act'[r].to # Sink /\ act'[r].kind = "coa"
    /\ \A p \in Policies : policies'[p] \in Acted \cup {None}

ToSink ==
    /\ edits' = 0 /\ UNCHANGED session
    /\ Running \subseteq {First}
    /\ \A r \in Running :
           /\ act'[r].to = Sink
           /\ stage'[r] = "target" => act'[r].chosen = None

LabScene == \A q \in LabRequests : job'[q] # Absent =>
    LET c == job'[q].change IN
    /\ c.kind = "create" => c.settings = Created
    /\ c.kind = "patch" => /\ c.settings \in {Absent, Patched}
                           /\ c.name = Absent <=> c.settings # Absent

\* The bounds end these scenes.
EditsEnd ==
    /\ edits = MaxEdits /\ endpoint = "gone" /\ Busy = {}
    /\ UNCHANGED sessionVars

LabsEnd ==
    /\ changes = MaxLabChanges /\ \A q \in LabRequests : job[q] = Absent
    /\ UNCHANGED labVars

MCNext ==
    /\ UNCHANGED scene
    /\ CASE scene = "clients" ->
              Steps /\ UntornRead /\ UNCHANGED sessionVars /\ UNCHANGED labVars
         [] scene = "labs" ->
              /\ UNCHANGED vars /\ UNCHANGED sessionVars
              /\ (LabNext /\ LabScene) \/ LabsEnd
         [] OTHER ->
              /\ UNCHANGED vars /\ UNCHANGED labVars
              /\ SessionNext \/ (scene = "edits" /\ EditsEnd)
              /\ scene = "race" => Race
              /\ scene = "edits" => Edits
              /\ scene = "sink" => ToSink
              /\ scene = "policies" => asked' = 0 /\ Quiet /\ edits' = 0

MCSpec == MCInit /\ [][MCNext]_<<vars, sessionVars, labVars, scene>>

MCFairSpec ==
    /\ MCSpec
    /\ scene = "clients" => Fairness
    /\ SessionFairness

=============================================================================
