------------------------------ MODULE MCGovernor ------------------------------
(***************************************************************************)
(* Instances of the governor for TLC: three members on two paths, groups    *)
(* covered by every publisher unless a configuration says otherwise.        *)
(***************************************************************************)
EXTENDS GovernorSafety, TLC

MCMember == 1 .. 3
MCPath   == 1 .. 2
MCPathOf == [m \in MCMember |-> IF m = 1 THEN 1 ELSE 2]

MCPair      == 1 .. 2
MCPairPaths == [m \in MCPair |-> m]
MCSamePath  == [m \in MCPair |-> 1]

MCSingle      == 1 .. 1
MCSinglePath  == [m \in MCSingle |-> m]

MCCovers == [p \in Publisher |-> Group]
MCDirect == {}

\* One generation of a set that contains every path.
MCStableSet == [generation \in 1 .. 1 |-> Path]
\* The second generation loses path 2.
MCShrinkingSet == [generation \in 1 .. 2 |-> IF generation = 1 THEN {1, 2} ELSE {1}]

MCNobody == {}

\* Publishers, boots and groups are interchangeable when every scope covers
\* every group and all groups are bound alike.
MCSymmetry == Permutations(Publisher) \cup Permutations(Boot) \cup Permutations(Group)
=============================================================================
