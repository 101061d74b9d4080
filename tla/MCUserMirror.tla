---------------------------- MODULE MCUserMirror ----------------------------
(* Small instances of UserMirror for TLC. *)
EXTENDS UserMirror

CONSTANTS Solo, OneName, OneLab

\* Bound: what happens in one behaviour.  Either two requests overlap on one name of
\* one lab, one user at a time; or one request at a time works on two names of two labs,
\* with bulk creation.
VARIABLE scene

MCInit == Init /\ scene \in {"race", "labs"}

MCNext ==
    /\ Next
    /\ UNCHANGED scene
    /\ IF scene = "race"
       THEN /\ \A u \in UserIds : users'[u] # NoUser =>
                   users'[u].lab = OneLab /\ users'[u].name = OneName
            /\ \A w \in Workers : Cardinality({u \in todo'[w] : users[u] = NoUser}) <= 1
            /\ \A w \in Workers : free'[w] \subseteq {OneLab} \X Names
       ELSE \A r \in Requests \ {Solo} : pc'[r] = "idle"

MCSpec == MCInit /\ [][MCNext]_<<vars, scene>>

\* What requests do that neither fail nor are cut short, one at a time.
MCFaultFreeSpec ==
    /\ Init /\ scene = "labs"
    /\ [][Work /\ UNCHANGED scene]_<<vars, scene>>

MCFairSpec == MCSpec /\ Fairness

=============================================================================
