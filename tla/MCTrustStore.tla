---------------------------- MODULE MCTrustStore ----------------------------
(* Small instances of TrustStore for TLC. *)
EXTENDS TrustStore

CONSTANT Solo

MCContents == Bundles

MCBlank == Nothing

\* Bound: what happens in one behaviour.  Either one request at a time publishes, or
\* two overlap while the FreeRADIUS container is down, and each lab changes once.
VARIABLE scene

MCInit == Init /\ scene \in {"serial", "overlap"}

MCNext ==
    /\ Next
    /\ UNCHANGED scene
    /\ IF scene = "serial" THEN \A r \in Requests \ {Solo} : pc'[r] = "idle"
       ELSE /\ \A l \in Labs : issued'[l] <= 1
            /\ UNCHANGED sup

\* One at a time, and none fails.
MCFaultFreeSpec ==
    /\ Init /\ scene = "serial"
    /\ [][Steps /\ UNCHANGED scene]_<<vars, scene>>

MCFairSpec == MCInit /\ [][MCNext]_<<vars, scene>> /\ Fairness

=============================================================================
