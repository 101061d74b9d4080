---------------------------- MODULE MCAuthTests -----------------------------
(* Small instances of AuthTests for TLC. *)
EXTENDS AuthTests

\* The address tests come from is no client's.
MCLabsOf == [n \in Nases |-> IF n = Backend THEN {} ELSE {Oldest}]

\* A laptop that is accepted with a VLAN.
MCDevices ==
    {[id |-> User, kind |-> "peap", ok |-> TRUE, reply |-> r, why |-> "module",
      nas |-> n, at |-> 0] : r \in Replies, n \in Nases \ {Backend}}

\* Bound: what the operator does in one behaviour.  Either tests of one method,
\* with edits of the endpoint list if that is MAB, and otherwise devices, and
\* late accepts of the tests that are read in part; or no tests, but cut lines, an
\* emptied file, refused lines and restarts.
VARIABLE scene

MCInit == Init /\ scene \in TestKinds \cup {"faults"}

Tested ==
    /\ \A t \in Tests : pc'[t] # "idle" => test'[t].kind = scene
    /\ base' = base /\ task' \notin {"down", "dead"}
    /\ held = Conns \/ partial \/ exempt' = exempt
    /\ partial' => /\ scene # "mab"
                   /\ log'[Len(log')].nas = Backend
                   /\ log'[Len(log')].ok
                   /\ now' = MaxTime
    /\ others' = 0 \/ ~(partial' \/ \E i \in DOMAIN events' : ~events'[i].whole)
    /\ scene # "mab" => UNCHANGED endpoint
    /\ scene = "mab" => UNCHANGED others
    /\ scene = "mab" => \A k \in DOMAIN log' : log'[k].nas = Backend

MCNext ==
    /\ Next
    /\ UNCHANGED scene
    /\ IF scene = "faults" THEN UNCHANGED <<testVars, endpoint>> ELSE Tested
    /\ scene # "faults" => Len(log') < MaxLines

MCSpec == MCInit /\ [][MCNext]_<<vars, scene>>

MCFairSpec == MCSpec /\ Fairness

=============================================================================
