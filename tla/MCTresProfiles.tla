--------------------------- MODULE MCTresProfiles ---------------------------
(***************************************************************************)
(* An instance of TresProfiles for TLC: up to three nodes of two profiles, *)
(* with a resource that is only configured, one that is only allocated and *)
(* one that is allocated beyond its configuration.                         *)
(***************************************************************************)
EXTENDS TresProfiles, SequencesExt

ThreeNodes == {"n1", "n2", "n3"}
TwoStates == {"IDLE", "MIXED"}
ThreeResources == {"cpu", "mem", "gpu"}

Plain == [r \in {"cpu", "mem"} |-> 2]
WithGpu == [r \in {"cpu", "gpu"} |-> 1]
Unused == [r \in {} |-> 0]
Some == [r \in {"cpu"} |-> 1]
TooMuch == [r \in {"cpu", "gpu"} |-> 3]

Settings == [state : TwoStates, cfg : {Plain, WithGpu},
            alloc : {Unused, Some, TooMuch}]

Blank == [node |-> NoNode, state |-> "IDLE", cfg |-> Unused, alloc |-> Unused]
Node(n, c) == [node |-> n, state |-> c.state, cfg |-> c.cfg, alloc |-> c.alloc]

\* scontrol lists each node once, in the order of their names.
SmallListings ==
    {<< Node("n1", c) >> : c \in Settings}
    \cup {<< Node("n1", c), Blank, Node("n2", d) >> : c, d \in Settings}
    \cup {<< Node("n1", c), Node("n2", d), Node("n3", e) >> :
              c, d \in Settings,
              e \in {f \in Settings : f.cfg = Plain}}
=============================================================================
