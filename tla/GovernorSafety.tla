---------------------------- MODULE GovernorSafety ----------------------------
(***************************************************************************)
(* What the governor must never let happen: the properties of Governor.    *)
(***************************************************************************)
EXTENDS Governor

TypeOK ==
  /\ epoch \in Epoch
  /\ publishers \in [Publisher -> Boot \cup {NoBoot}]
  /\ fenced_boots \subseteq Boot
  /\ Created \subseteq Group
  /\ groups = [g \in Created |-> groups[g]] /\ \A g \in Created : GroupOK(groups[g])
  /\ total_members \in Int
  /\ path_index \in [Path -> SUBSET Group]
  /\ authority_index \in [Publisher -> SUBSET Group]
  /\ current_cost_policy \in Policy \cup {0}
  /\ path_generation \in [Path -> PathGeneration]
  /\ authorized \subseteq Path
  /\ set_generation \in SetGeneration
  /\ noticed \subseteq Path

-----------------------------------------------------------------------------
(* Bookkeeping: what the governor caches agrees with the groups.            *)

\* The global member counter, which finish_group_mutation maintains by
\* differences, is the number of declared members, whatever was withdrawn,
\* evicted or closed on the way.
TotalIsDeclared ==
  total_members = Cardinality(UNION {{g} \X Declared(groups[g].members) : g \in Created})

\* The reverse indexes list exactly the groups that depend on a path, and the
\* groups bound to a publisher: a notice or a fence reaches every dependent.
IndexesAgree ==
  /\ \A path \in Path : path_index[path] = {g \in Created : path \in DeclaredPaths(groups[g])}
  /\ \A p \in Publisher :
       authority_index[p] = {g \in Created : groups[g].authority_publisher = p}

\* The states of a group and of its members are the ones their records call for:
\* no operation changes a flag, a cause or a plan and forgets the refresh.
StateIsDerived ==
  \A g \in Created :
    /\ is_open(g) => groups[g].lifecycle = derived_lifecycle(groups[g])
    /\ derive_members(groups[g].members) = groups[g].members

\* The records of withdrawn members never push a group over its member limit.
EntriesAreBounded ==
  \A g \in Created : Cardinality(DOMAIN groups[g].members) <= MaxMembersPerGroup

-----------------------------------------------------------------------------
(* The bucket map.                                                          *)

\* While a group is ACTIVE, DEGRADED or REBALANCING its map is a valid balanced
\* assignment to exactly its active members, through every invalidation, epoch
\* advance and revalidation that led there.
AuthoritativeMapValid ==
  \A g \in Created :
    groups[g].lifecycle \in AuthoritativeLifecycles =>
      check_assignment(groups[g].assignment, active_members(groups[g].members))

\* A map never names a member whose record is gone: eviction forgets only
\* members that no longer own a bucket, even while the map is kept as it was.
OwnersArePresent ==
  \A g \in Created : is_open(g) =>
    \A b \in Bucket : groups[g].assignment[b] \in DOMAIN groups[g].members \cup {Nil}

\* Generations never lie: the map changes exactly when assignment_generation
\* advances, by one, and the declared set exactly when membership_generation does.
GenerationsNeverLie ==
  [][\A g \in Created :
       LET old == groups[g]
           new == groups'[g]
       IN /\ new.assignment_generation - old.assignment_generation
               = IF new.assignment = old.assignment THEN 0 ELSE 1
          /\ new.membership_generation - old.membership_generation
               = IF Declared(new.members) = Declared(old.members) THEN 0 ELSE 1]_vars

-----------------------------------------------------------------------------
(* Plans.                                                                   *)

\* A pending plan of an open group is a plan of this epoch, of a group whose
\* authority is current: epoch advance and fencing leave no plan behind.
PlanIsLive ==
  \A g \in Created : is_open(g) /\ groups[g].plan # NoPlan =>
    /\ groups[g].lifecycle = "REBALANCING"
    /\ groups[g].plan.epoch = epoch
    /\ groups[g].bound_epoch = epoch
    /\ authority_current(groups[g].currentness)

\* A plan that the generation checks of commit_rebalance let through still
\* predicts the map the commit will compute, whatever was invalidated and
\* re-proved since: the INTERNAL_ERROR answer after the fact cannot happen.
PlanPredicts ==
  \A g \in Created : PlanMatches(groups[g]) =>
    LET plan == groups[g].plan IN
    plan.assignment =
      compute_rebalance(groups[g].assignment,
        {m \in DOMAIN plan.target_members : plan.target_members[m].enabled})

\* While a plan is pending no operation declares, withdraws, enables or disables
\* a member, short of one that ends the plan or closes the group.
PlanFreezesMembership ==
  [][\A g \in Created : is_open(g) /\ groups[g].plan # NoPlan =>
       \/ groups'[g].plan = NoPlan
       \/ is_open(g)' = FALSE
       \/ \A m \in Member :
            /\ IsDeclared(g, m) = IsDeclared(g, m)'
            /\ IsDeclared(g, m) =>
                 groups[g].members[m].enabled = groups'[g].members[m].enabled]_vars

-----------------------------------------------------------------------------
(* Lineage.                                                                 *)

Superseded == {g \in Created : groups[g].successor # NoGroup}

\* Whoever follows successors ends at a group that is not superseded: no chain of
\* supersessions, in whatever order, is circular, or loses its way; a superseded
\* group is closed, and the predecessor a group names has it as its successor.
LineageEnds ==
  /\ \A S \in SUBSET Superseded : S # {} => \E g \in S : groups[g].successor \in Created \ S
  /\ \A g \in Superseded : ~is_open(g)
  /\ \A g \in Created : groups[g].predecessor # NoGroup =>
       groups[groups[g].predecessor].successor = g

-----------------------------------------------------------------------------
(* Authority.                                                               *)

Binding(group) == <<group.bound_epoch, group.authority_publisher, group.authority_boot>>

\* A group is rebound only to a registered, unfenced boot of the current epoch,
\* and the authority generation counts it: a boot that lost its registration
\* never becomes the owner of anything.
BindingIsLive ==
  [][\A g \in Created : Binding(groups'[g]) # Binding(groups[g]) =>
       /\ groups'[g].authority_generation > groups[g].authority_generation
       /\ groups'[g].bound_epoch = epoch
       /\ Live(groups'[g].authority_publisher)
       /\ publishers[groups'[g].authority_publisher] = groups'[g].authority_boot]_vars

\* An epoch advance disarms every open group until an operation of the new epoch
\* binds it: the cause is recorded, and the group is in no authoritative state,
\* whatever upstream notices arrive meanwhile.
StaleEpochDisarms ==
  \A g \in Created : is_open(g) /\ groups[g].bound_epoch # epoch =>
    /\ "STALE_EPOCH" \in groups[g].currentness
    /\ groups[g].lifecycle \notin AuthoritativeLifecycles

\* Authority comes back only by a revalidation, and that observes everything
\* again: every member then active holds a path and multipath proof that the view
\* confirmed when it was observed.  (The view does not move inside an operation here;
\* in the code members are observed one after the other, not all at one instant.)
RearmedMeansReobserved ==
  [][\A g \in Created :
       ~authority_current(groups[g].currentness) /\ authority_current(groups'[g].currentness) =>
         \A m \in active_members(groups'[g].members) :
           /\ PathProved(m, groups'[g].members[m].bound)
           /\ SetProved(g, groups'[g].multipath_generation, m)]_vars

\* A path notice that reaches every dependent leaves no open group with an
\* active member whose proof for that path is stale.
NoticeTakesEffect ==
  [][\A path \in noticed' \ noticed, g \in Created : is_open(g)' =>
       \A m \in active_members(groups'[g].members) :
         PathOf[m] = path => PathProved(m, groups'[g].members[m].bound)]_vars

-----------------------------------------------------------------------------
(* The self-check the governor ships: check_invariants.  Left out: the keys, the *)
(* indexes of sets and cost classes, and digests of parts not modelled.     *)

\* What it says of the members of a group.
MembersPass(group) ==
  LET declared == Declared(group.members)
      active   == active_members(group.members)
  IN  /\ \A m \in active : upstream_current(group.members[m]) /\ m \in declared
      /\ Cardinality(declared) <= MaxMembersPerGroup
      /\ Cardinality(declared) <= BucketCount
      /\ declared # {} => group.membership_generation > 0

\* ... of its map and its lifecycle: a derived DECLARED is let pass, and a group
\* that says DECLARED has no members.
LifecyclePasses(group) ==
  LET active == active_members(group.members) IN
  /\ group.lifecycle \in AuthoritativeLifecycles => check_assignment(group.assignment, active)
  /\ ~is_administratively_closed(group.lifecycle) /\ group.lifecycle # "DECLARED" =>
       derived_lifecycle(group) \in {group.lifecycle, "DECLARED"}
  /\ group.lifecycle = "DECLARED" => Declared(group.members) = {} /\ active = {}

\* ... of its lineage: a successor knows whom it supersedes.
LineagePasses(g) ==
  LET group == groups[g] IN
  /\ group.successor # NoGroup =>
       group.successor \in Created /\ groups[group.successor].predecessor = g
  /\ group.predecessor # NoGroup => group.predecessor \in Created

\* governor.hpp: the self-check finds no problem, after any sequence of calls; in
\* a coordinator, through every crash, recovery and epoch advance as well.
check_invariants ==
  /\ \A g \in Created :
       MembersPass(groups[g]) /\ LifecyclePasses(groups[g]) /\ LineagePasses(g)
  /\ TotalIsDeclared
  /\ IndexesAgree

-----------------------------------------------------------------------------
(* What the repository says and the code does not do.                       *)

\* README: "A stale member is never counted active and never keeps a bucket",
\* once the path authority's change has been delivered.
StalePathNeverActive ==
  \A g \in Created : is_open(g) =>
    \A m \in active_members(groups[g].members) :
      PathOf[m] \in noticed => PathProved(m, groups[g].members[m].bound)
=============================================================================
