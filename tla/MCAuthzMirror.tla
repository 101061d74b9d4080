--------------------------- MODULE MCAuthzMirror ----------------------------
(* Small instances of AuthzMirror for TLC. *)
EXTENDS AuthzMirror, TLC

CONSTANT Scenes

\* Bound: what there is in one behaviour.  Either everything ("all"); or one endpoint,
\* one MAC and a policy that keeps its group ("one"); or endpoints and MACs but no policy
\* ("macs"); or policies and groups but no endpoint ("groups").  In the latter three the
\* process does not end and a handler fails only before its commit, which leaves nothing
\* undone.
VARIABLES
    scene,
    only        \* in "one", which endpoint, MAC and group

MCInit ==
    /\ Init
    /\ scene \in Scenes
    /\ only \in IF scene = "one" THEN [endpoint: EndpointIds, mac: Macs, group: Groups]
                ELSE {None}

OnlyOne ==
    /\ \A e \in EndpointIds :
           endpoints[e] # None => e = only.endpoint /\ endpoints[e].mac = only.mac
    /\ \A w \in Workers :
           /\ draft[w].what = "endpoint" /\ "mac" \in DOMAIN draft[w].set =>
                  draft[w].set.mac = only.mac
           /\ draft[w].what = "newPolicy" => draft[w].new.group = only.group
           /\ draft[w].what = "policy" => "group" \notin DOMAIN draft[w].set

MCNext ==
    /\ UNCHANGED <<scene, only>>
    /\ IF scene = "all" THEN Next
       ELSE \/ \E r \in Requests : Check(r) \/ Commit(r) \/ (pc[r] = "draft" /\ Fail(r))
            \/ \E w \in Workers : Continue(w)
    /\ scene = "one" => OnlyOne'
    /\ scene = "macs" => \A w \in Workers : draft'[w].what # "newPolicy"
    /\ scene = "groups" => \A w \in Workers : draft'[w].what # "create"

MCSpec == MCInit /\ [][MCNext]_<<vars, scene, only>>

MCFairSpec == MCSpec /\ Fairness

\* Interchangeable values; only for runs without liveness properties.
Symmetry ==
    Permutations(Requests) \cup Permutations(EndpointIds) \cup Permutations(Macs)
        \cup Permutations(Groups)

=============================================================================
