------------------------------- MODULE Governor -------------------------------
(***************************************************************************)
(* EcmpGovernor: the groups, the publisher registry, the fence table and    *)
(* the reverse indexes, with one action per public operation of             *)
(* src/governor_mutate.cpp and src/governor_query.cpp.  Every operation runs *)
(* under one exclusive lock, so each is one step.  The lock does not cover   *)
(* the upstream view: it moves here between two operations only, and the    *)
(* README says which moves inside one are behaviours of this module too.    *)
(*                                                                         *)
(* A refused call returns before its first write, so it is a stuttering     *)
(* step and has no action; the one exception, a revalidation refused half   *)
(* way, is RefuseRevalidation.  A request that names an old epoch or a boot *)
(* other than the registered one is refused, so an action acts as a         *)
(* publisher with its registered boot in the current epoch.  Every request  *)
(* carries a fresh attempt id here.                                         *)
(***************************************************************************)
EXTENDS Group

CONSTANTS
  Path,                \* the paths of the fabric
  PathOf,              \* the path a member declares
  Covers,              \* the groups the scope of a publisher covers
  MultipathGroups,     \* the groups bound to the multipath set; the others are direct
  SetContents,         \* the paths each generation of the multipath set contains
  Revocable,           \* the paths whose authorization comes and goes
  MaxGroups, MaxTotalMembers, MaxPublishers,   \* GovernorLimits
  MaxBatch, MaxRebalanceMoves,
  MaxEpoch, MaxPathGeneration, MaxPolicy,      \* bounds of the model
  GenerationCap,       \* ... on membership and assignment generations
  AuthorityCap         \* ... on authority generations, which a restart moves by two

Epoch          == 1 .. MaxEpoch
PathGeneration == 1 .. MaxPathGeneration
Policy         == 1 .. MaxPolicy
SetGeneration  == DOMAIN SetContents

\* The limits a governor accepts to run with.
is_coherent ==
  /\ MaxMembersPerGroup >= 1 /\ MaxTotalMembers >= MaxMembersPerGroup
  /\ MaxGroups >= 1 /\ MaxRebalanceMoves >= 1 /\ MaxBatch >= 1 /\ MaxPublishers >= 1

\* Canonical order is by path first.
ASSUME ConfigurationAssumption ==
  /\ is_coherent
  /\ MaxEpoch \in Nat \ {0} /\ MaxPathGeneration \in Nat \ {0} /\ MaxPolicy \in Nat \ {0}
  /\ MaxGroups \in Nat /\ MaxTotalMembers \in Nat /\ MaxPublishers \in Nat
  /\ MaxBatch \in Nat /\ MaxRebalanceMoves \in Nat /\ GenerationCap \in Nat
  /\ AuthorityCap \in Nat
  /\ Path \subseteq Nat /\ PathOf \in [Member -> Path]
  /\ \A m, k \in Member : m <= k => PathOf[m] <= PathOf[k]
  /\ Covers \in [Publisher -> SUBSET Group] /\ MultipathGroups \subseteq Group
  /\ 1 \in SetGeneration /\ SetGeneration \subseteq Nat
  /\ SetContents \in [SetGeneration -> SUBSET Path] /\ Revocable \subseteq Path

VARIABLES
  epoch, publishers, fenced_boots, groups, total_members,
  path_index, authority_index,
  current_cost_policy,   \* the policy the cost authority last reported, 0 before
  \* The upstream domains, external to the governor:
  path_generation, authorized, set_generation,
  \* History: the paths whose last change every dependent group was notified of.
  noticed

registry == <<epoch, publishers, fenced_boots>>
indexes  == <<total_members, path_index, authority_index>>
upstream == <<path_generation, authorized, set_generation>>
vars     == <<registry, groups, indexes, current_cost_policy, upstream, noticed>>

-----------------------------------------------------------------------------
Created == DOMAIN groups

is_open(g) == g \in Created /\ ~is_administratively_closed(groups[g].lifecycle)

IsDeclared(g, m) == m \in Declared(groups[g].members)

IsActive(g, m) == m \in active_members(groups[g].members)

\* The boot p registered is current and not fenced: what authorize_context and
\* authorize_upstream require of a caller.
Live(p) == publishers[p] # NoBoot /\ publishers[p] \notin fenced_boots

\* reobserve_member, path half: the observation matches the binding.
PathProved(m, bound) == PathOf[m] \in authorized /\ path_generation[PathOf[m]] = bound

\* reobserve_member, multipath half; a direct group has no set to be stale.
SetProved(g, generation, m) ==
  g \in MultipathGroups =>
    /\ set_generation = generation
    /\ PathOf[m] \in SetContents[generation]

\* validate_spec: upstream bindings, then the claim against the group's cost
\* semantics.  The cost authority's current policy is not consulted.
ValidSpec(g, policy, generation, m, spec) ==
  /\ PathProved(m, spec.bound)
  /\ SetProved(g, generation, m)
  /\ spec.policy = policy

\* The specs a caller can have accepted: members S, of which E are enabled.
Specs(S, E, policy) ==
  [m \in S |-> [enabled |-> m \in E, bound |-> path_generation[PathOf[m]], policy |-> policy]]

ValidTarget(g, S, E) ==
  LET group == groups[g] IN
  /\ Cardinality(S) <= MaxMembersPerGroup
  /\ Cardinality(S) <= BucketCount
  /\ \A m \in S : ValidSpec(g, group.policy, group.multipath_generation, m,
                            Specs(S, E, group.policy)[m])

DeclaredPaths(group) == {PathOf[m] : m \in Declared(group.members)}

\* Mutation: the group keeps the index entries it no longer earns.
ReindexWithoutErase(touched, next) ==
  /\ path_index' = [path \in Path |->
       path_index[path] \cup {g \in touched : path \in DeclaredPaths(next[g])}]
  /\ authority_index' = [p \in Publisher |->
       (authority_index[p] \ touched) \cup {g \in touched : next[g].authority_publisher = p}]

\* index_group_paths: the groups in touched became next.
Reindex(touched, next) ==
  /\ path_index' = [path \in Path |->
       (path_index[path] \ touched) \cup {g \in touched : path \in DeclaredPaths(next[g])}]
  /\ authority_index' = [p \in Publisher |->
       (authority_index[p] \ touched) \cup {g \in touched : next[g].authority_publisher = p}]

\* The capped counters of g still have room in the model.
Headroom(g) ==
  /\ groups[g].membership_generation < GenerationCap
  /\ groups[g].assignment_generation < GenerationCap
  /\ groups[g].authority_generation < AuthorityCap

\* group_preamble: authorization, scope, lifecycle.
Preamble(p, g, event) ==
  /\ Live(p)
  /\ g \in Covers[p]
  /\ g \in Created
  /\ lifecycle_allows(groups[g].lifecycle, event)
  /\ Headroom(g)

\* What p's mutation makes of a group it has edited: bind, refresh.
Refreshed(p, group, event) ==
  refresh_group(bind_authority(group, p, publishers[p], epoch), event, TRUE)

\* Mutation: the total only ever grows.
StoreWithoutSubtraction(g, refreshed) ==
  LET final == [refreshed EXCEPT !.members = evict_withdrawn(@)]
      gained == Cardinality(Declared(refreshed.members)) - Cardinality(Declared(groups[g].members))
  IN  /\ groups' = [groups EXCEPT ![g] = final]
      /\ total_members' = IF gained > 0 THEN total_members + gained ELSE total_members
      /\ Reindex({g}, [groups EXCEPT ![g] = final])
      /\ UNCHANGED <<registry, current_cost_policy, upstream, noticed>>

\* finish_group_mutation, after the refresh: count, evict, index, store.
Store(g, refreshed) ==
  LET final == [refreshed EXCEPT !.members = evict_withdrawn(@)]
  IN  /\ groups' = [groups EXCEPT ![g] = final]
      /\ total_members' = total_members + Cardinality(Declared(refreshed.members))
                                        - Cardinality(Declared(groups[g].members))
      /\ Reindex({g}, [groups EXCEPT ![g] = final])
      /\ UNCHANGED <<registry, current_cost_policy, upstream, noticed>>

finish_group_mutation(p, g, edited, event) == Store(g, Refreshed(p, edited, event))

-----------------------------------------------------------------------------
Init ==
  /\ epoch = 1
  /\ publishers = [p \in Publisher |-> NoBoot]
  /\ fenced_boots = {}
  /\ groups = [g \in {} |-> NoGroup]
  /\ total_members = 0
  /\ path_index = [path \in Path |-> {}]
  /\ authority_index = [p \in Publisher |-> {}]
  /\ current_cost_policy = 0
  /\ path_generation = [path \in Path |-> 1]
  /\ authorized = Path
  /\ set_generation = 1
  /\ noticed = {}

-----------------------------------------------------------------------------
(* Membership operations.                                                   *)

NewGroup(p, S, E, policy) ==
  [lifecycle |-> "DECLARED", currentness |-> {},
   membership_generation |-> 0, assignment_generation |-> 0, authority_generation |-> 1,
   policy |-> policy, multipath_generation |-> set_generation,
   members |-> [m \in S |-> make_entry(Specs(S, E, policy)[m])],
   declared_digest |-> {}, assignment |-> Unassigned,
   authority_publisher |-> p, authority_boot |-> publishers[p], bound_epoch |-> epoch,
   plan |-> NoPlan, successor |-> NoGroup, predecessor |-> NoGroup]

create_group(p, g, S, E, policy) ==
  /\ Live(p) /\ g \in Covers[p]
  /\ g \notin Created
  /\ Cardinality(S) >= MinActive /\ Cardinality(E) >= MinActive
  /\ Cardinality(S) <= MaxMembersPerGroup /\ Cardinality(S) <= BucketCount
  /\ Cardinality(Created) < MaxGroups
  /\ total_members + Cardinality(S) <= MaxTotalMembers
  /\ \A m \in S : ValidSpec(g, policy, set_generation, m, Specs(S, E, policy)[m])
  /\ LET group == Refreshed(p, NewGroup(p, S, E, policy), "ADD_MEMBER")
         next  == [h \in Created \cup {g} |-> IF h = g THEN group ELSE groups[h]]
     IN
       /\ groups' = next
       /\ total_members' = total_members + Cardinality(Declared(group.members))
       /\ Reindex({g}, next)
       /\ UNCHANGED <<registry, current_cost_policy, upstream, noticed>>

add_member(p, g, m, enabled) ==
  /\ Preamble(p, g, "ADD_MEMBER")
  /\ LET group == groups[g]
         spec  == [enabled |-> enabled, bound |-> path_generation[PathOf[m]],
                   policy |-> group.policy]
     IN /\ ~IsDeclared(g, m)
        /\ Cardinality(Declared(group.members)) < MaxMembersPerGroup
        /\ Cardinality(Declared(group.members)) < BucketCount
        /\ total_members < MaxTotalMembers
        /\ ValidSpec(g, group.policy, group.multipath_generation, m, spec)
        /\ finish_group_mutation(p, g,
             [group EXCEPT !.members =
                [k \in DOMAIN @ \cup {m} |-> IF k = m THEN make_entry(spec) ELSE @[k]]],
             "ADD_MEMBER")

remove_member(p, g, m) ==
  /\ Preamble(p, g, "REMOVE_MEMBER")
  /\ IsDeclared(g, m)
  /\ finish_group_mutation(p, g,
       [groups[g] EXCEPT !.members[m] =
          [@ EXCEPT !.declared = FALSE, !.enabled = TRUE, !.path_current = TRUE,
                    !.multipath_current = TRUE, !.cost_current = TRUE]],
       "REMOVE_MEMBER")

\* Re-enabling re-proves the member's own bindings; a call that changes nothing
\* is a no-change answer.
enable_member(p, g, m) ==
  /\ Preamble(p, g, "ENABLE_MEMBER")
  /\ IsDeclared(g, m)
  /\ LET group == groups[g]
         entry == group.members[m]
     IN /\ ~entry.enabled
        /\ "STALE_COST_CLASS" \notin group.currentness
        /\ ValidSpec(g, group.policy, group.multipath_generation, m, entry)
        /\ finish_group_mutation(p, g,
             [group EXCEPT !.members[m] =
                [@ EXCEPT !.enabled = TRUE, !.path_current = TRUE,
                          !.multipath_current = TRUE, !.cost_current = TRUE]],
             "ENABLE_MEMBER")

disable_member(p, g, m) ==
  /\ Preamble(p, g, "DISABLE_MEMBER")
  /\ IsDeclared(g, m)
  /\ groups[g].members[m].enabled
  /\ finish_group_mutation(p, g, [groups[g] EXCEPT !.members[m].enabled = FALSE],
                           "DISABLE_MEMBER")

\* The churn budget bounds a batch change, when it changes the map at all.
WithinBudget(before, after) ==
  churn(before.assignment, after.assignment) <= MaxRebalanceMoves

\* The declared set becomes S at once.  No check of the total member limit.
apply_membership_set(p, g, S, E) ==
  /\ Preamble(p, g, "ADD_MEMBER")
  /\ ValidTarget(g, S, E)
  /\ LET group  == groups[g]
         target == Specs(S, E, group.policy)
         trial  == Refreshed(p, [group EXCEPT !.members = apply_target_set(@, target)],
                             "ADD_MEMBER")
     IN /\ count_target_changes(group, target) <= MaxBatch
        /\ WithinBudget(group, trial)
        /\ Store(g, trial)

-----------------------------------------------------------------------------
(* Revalidation.                                                            *)

\* The members in R are re-proved, under cost policy q.  Only an adoption of a
\* new policy needs a claim of every declared member.
Reproved(group, R, q) ==
  [group EXCEPT
     !.policy = q,
     !.currentness = IF q = group.policy THEN @ ELSE @ \ {"STALE_COST_CLASS"},
     !.members = [m \in DOMAIN @ |->
        IF m \in R THEN [@[m] EXCEPT !.bound = path_generation[PathOf[m]], !.policy = q]
                   ELSE @[m]]]

\* The updates up to and including R were valid: each names a declared member
\* whose path, set and cost hold under policy q.
CanReprove(p, g, R, q) ==
  /\ Preamble(p, g, "REVALIDATE")
  /\ R \subseteq Declared(groups[g].members)
  /\ Cardinality(R) <= MaxBatch
  /\ q # groups[g].policy => q = current_cost_policy
  /\ \A m \in R : /\ PathOf[m] \in authorized
                  /\ SetProved(g, groups[g].multipath_generation, m)

\* Mutation: the path half is taken on trust.
ReobservedOnTrust(g, group) ==
  LET members == [m \in DOMAIN group.members |->
        IF ~group.members[m].declared THEN group.members[m]
        ELSE [group.members[m] EXCEPT !.path_current = TRUE, !.multipath_current = TRUE]]
  IN [group EXCEPT !.members = members,
                   !.currentness = @ \ {"STALE_PATH_AUTHORITY", "STALE_MULTIPATH_SET"}]

\* reobserve_group.
Reobserved(g, group) ==
  LET members == [m \in DOMAIN group.members |->
        LET entry == group.members[m] IN
        IF ~entry.declared THEN entry
        ELSE [entry EXCEPT !.path_current = PathProved(m, entry.bound),
                           !.multipath_current = SetProved(g, group.multipath_generation, m)]]
      path_stale == \E m \in Declared(members) : ~members[m].path_current
      set_stale  == \E m \in Declared(members) : ~members[m].multipath_current
  IN [group EXCEPT
        !.members = members,
        !.currentness = (@ \ {"STALE_PATH_AUTHORITY", "STALE_MULTIPATH_SET"})
          \cup {cause \in {"STALE_PATH_AUTHORITY"} : path_stale}
          \cup {cause \in {"STALE_MULTIPATH_SET"} : set_stale}]

\* newSet: the request also rebinds a multipath group to the current set.  The
\* cost cause is cleared and every cost flag set, whatever was re-proved.
revalidate_group(p, g, R, q, newSet) ==
  /\ CanReprove(p, g, R, q)
  /\ q # groups[g].policy => R = Declared(groups[g].members) /\ R # {}
  /\ newSet => g \in MultipathGroups
  /\ LET reproved == Reproved(groups[g], R, q)
         rebound  ==
           [reproved EXCEPT
              !.multipath_generation = IF newSet THEN set_generation ELSE @,
              !.currentness = @ \ {"STALE_EPOCH", "FENCED_PUBLISHER",
                                   "REVALIDATION_REQUIRED", "STALE_COST_CLASS"},
              !.members = [m \in DOMAIN @ |-> [@[m] EXCEPT !.cost_current = TRUE]]]
     IN finish_group_mutation(p, g, Reobserved(g, rebound), "REVALIDATE")

\* An update after R is invalid (it names an unknown member, say): the call is
\* refused, and what was re-proved before it stays, without a refresh.
RefuseRevalidation(p, g, R, q) ==
  /\ CanReprove(p, g, R, q)
  /\ q # groups[g].policy => Declared(groups[g].members) # {}
  /\ groups' = [groups EXCEPT ![g] = Reproved(@, R, q)]
  /\ UNCHANGED <<registry, indexes, current_cost_policy, upstream, noticed>>

-----------------------------------------------------------------------------
(* Rebalance plans.                                                         *)

\* The plan records the generations the group had before this call, which may
\* still bind the group to its caller.
plan_rebalance(p, g, S, E) ==
  /\ Preamble(p, g, "PLAN_REBALANCE")
  /\ groups[g].plan = NoPlan
  /\ ValidTarget(g, S, E)
  /\ LET group  == groups[g]
         target == Specs(S, E, group.policy)
         trial  == Refreshed(p, [group EXCEPT !.members = apply_target_set(@, target)],
                             "ADD_MEMBER")
         plan   == [from_membership |-> group.membership_generation,
                    from_assignment |-> group.assignment_generation,
                    from_authority  |-> group.authority_generation,
                    target_members  |-> target, assignment |-> trial.assignment,
                    epoch           |-> epoch]
     IN /\ count_target_changes(group, target) <= MaxBatch
        /\ WithinBudget(group, trial)
        /\ finish_group_mutation(p, g, [group EXCEPT !.plan = plan], "PLAN_REBALANCE")

\* Mutation: the assignment generation is not compared.
PlanMatchesLoosely(group) ==
  /\ group.plan # NoPlan
  /\ group.plan.from_membership = group.membership_generation
  /\ group.plan.from_authority = group.authority_generation

\* The generations a plan was made for are still those of the group.
PlanMatches(group) ==
  /\ group.plan # NoPlan
  /\ group.plan.from_membership = group.membership_generation
  /\ group.plan.from_assignment = group.assignment_generation
  /\ group.plan.from_authority = group.authority_generation

commit_rebalance(p, g) ==
  /\ Preamble(p, g, "COMMIT_REBALANCE")
  /\ PlanMatches(groups[g])
  /\ finish_group_mutation(p, g,
       [groups[g] EXCEPT !.members = apply_target_set(@, groups[g].plan.target_members),
                         !.plan = NoPlan],
       "COMMIT_REBALANCE")

abort_rebalance(p, g) ==
  /\ Preamble(p, g, "ABORT_REBALANCE")
  /\ groups[g].plan # NoPlan
  /\ finish_group_mutation(p, g, [groups[g] EXCEPT !.plan = NoPlan], "ABORT_REBALANCE")

-----------------------------------------------------------------------------
(* Administrative closing.                                                  *)

AllMembers(members, declared, enabled) ==
  [m \in DOMAIN members |->
     [members[m] EXCEPT !.declared = @ /\ declared, !.enabled = enabled]]

withdraw_group(p, g) ==
  /\ Preamble(p, g, "WITHDRAW")
  /\ finish_group_mutation(p, g, groups[g], "WITHDRAW")

\* The second withdrawal of a group finds it WITHDRAWING.
complete_withdrawal(p, g) ==
  /\ Preamble(p, g, "COMPLETE_WITHDRAW")
  /\ finish_group_mutation(p, g,
       [groups[g] EXCEPT !.members = AllMembers(@, FALSE, TRUE),
                         !.currentness = @ \cup {"RETIRED"}],
       "COMPLETE_WITHDRAW")

\* Revocation leaves a pending plan where it is.
revoke_group(p, g) ==
  /\ Preamble(p, g, "REVOKE")
  /\ finish_group_mutation(p, g,
       [groups[g] EXCEPT !.members = AllMembers(@, TRUE, FALSE),
                         !.currentness = @ \cup {"RETIRED"}],
       "REVOKE")

retire_group(p, g) ==
  /\ Preamble(p, g, "RETIRE")
  /\ finish_group_mutation(p, g,
       [groups[g] EXCEPT !.members = AllMembers(@, FALSE, FALSE), !.plan = NoPlan,
                         !.currentness = @ \cup {"RETIRED"}],
       "RETIRE")

\* Mutation: the successor may be closed already.
supersede_by_closed(p, g, h) ==
  /\ Preamble(p, g, "SUPERSEDE")
  /\ h # g /\ h \in Created
  /\ LET final == Refreshed(p,
           [groups[g] EXCEPT !.members = AllMembers(@, TRUE, FALSE), !.plan = NoPlan,
                             !.currentness = @ \cup {"RETIRED"}, !.successor = h],
           "SUPERSEDE")
         next  == [groups EXCEPT ![g] = [final EXCEPT !.members = evict_withdrawn(@)],
                                 ![h].predecessor = g]
     IN /\ groups' = next
        /\ Reindex({g}, next)
        /\ UNCHANGED <<registry, total_members, current_cost_policy, upstream, noticed>>

\* h becomes the successor of g; only g has to be in the scope of p.
supersede_group(p, g, h) ==
  /\ Preamble(p, g, "SUPERSEDE")
  /\ h # g /\ is_open(h)
  /\ LET final == Refreshed(p,
           [groups[g] EXCEPT !.members = AllMembers(@, TRUE, FALSE), !.plan = NoPlan,
                             !.currentness = @ \cup {"RETIRED"}, !.successor = h],
           "SUPERSEDE")
         next  == [groups EXCEPT ![g] = [final EXCEPT !.members = evict_withdrawn(@)],
                                 ![h].predecessor = g]
     IN /\ groups' = next
        /\ Reindex({g}, next)
        /\ UNCHANGED <<registry, total_members, current_cost_policy, upstream, noticed>>

-----------------------------------------------------------------------------
(* Upstream notices: a live publisher reports a change; the open dependents *)
(* in its scope are re-examined, without binding them to the publisher.     *)

\* Mutation: the flags change, the refresh is forgotten.
NoticedWithoutRefresh(g, altered, event) == altered

\* A group the notice alters is refreshed.
Noticed(g, altered, event) ==
  IF altered = groups[g] THEN altered ELSE refresh_group(altered, event, TRUE)

Dependents(p, candidates) == {g \in candidates \cap Covers[p] : is_open(g)}

\* The groups in the domain of next get their next value.
Deliver(next) ==
  /\ \A g \in DOMAIN next : Headroom(g)
  /\ groups' = [g \in Created |-> IF g \in DOMAIN next THEN next[g] ELSE groups[g]]

\* Mutation: a group already marked stale is skipped.
PathObservedOnce(group, path) ==
  LET members == [m \in DOMAIN group.members |->
        LET entry == group.members[m] IN
        IF entry.declared /\ PathOf[m] = path
        THEN [entry EXCEPT !.path_current = PathProved(m, entry.bound)] ELSE entry]
      stale == \E m \in Declared(members) : ~members[m].path_current
  IN IF stale /\ "STALE_PATH_AUTHORITY" \in group.currentness THEN group
     ELSE [group EXCEPT !.members = members,
                        !.currentness = IF stale THEN @ \cup {"STALE_PATH_AUTHORITY"}
                                                 ELSE @ \ {"STALE_PATH_AUTHORITY"}]

\* The path half of the members on the path is observed again.
PathObserved(group, path) ==
  LET members == [m \in DOMAIN group.members |->
        LET entry == group.members[m] IN
        IF entry.declared /\ PathOf[m] = path
        THEN [entry EXCEPT !.path_current = PathProved(m, entry.bound)] ELSE entry]
      stale == \E m \in Declared(members) : ~members[m].path_current
  IN [group EXCEPT
        !.members = members,
        !.currentness = IF stale THEN @ \cup {"STALE_PATH_AUTHORITY"}
                                 ELSE @ \ {"STALE_PATH_AUTHORITY"}]

notify_path_authority_change(p, path) ==
  /\ Live(p)
  /\ Deliver([g \in Dependents(p, path_index[path]) |->
                 Noticed(g, PathObserved(groups[g], path), "INVALIDATE_PATH")])
  /\ Reindex(Dependents(p, path_index[path]), groups')
  /\ noticed' = IF path_index[path] \subseteq Covers[p] THEN noticed \cup {path} ELSE noticed
  /\ UNCHANGED <<registry, total_members, current_cost_policy, upstream>>

\* A group already marked stale for the cause is skipped when it is still stale,
\* and one not marked when it is not: stale == had.
MultipathObserved(g) ==
  LET group == groups[g]
      stale == \/ group.multipath_generation # set_generation
               \/ \E m \in Declared(group.members) :
                    ~SetProved(g, group.multipath_generation, m)
      had   == "STALE_MULTIPATH_SET" \in group.currentness
  IN CASE stale = had -> group
       [] stale /\ ~had ->
            [group EXCEPT
               !.currentness = @ \cup {"STALE_MULTIPATH_SET"},
               !.members = [m \in DOMAIN @ |->
                  IF @[m].declared THEN [@[m] EXCEPT !.multipath_current = FALSE] ELSE @[m]]]
       [] OTHER ->
            [group EXCEPT
               !.currentness = @ \ {"STALE_MULTIPATH_SET"},
               !.members = [m \in DOMAIN @ |-> [@[m] EXCEPT !.multipath_current = TRUE]]]

notify_multipath_set_change(p) ==
  /\ Live(p)
  /\ Deliver([g \in Dependents(p, MultipathGroups) |->
                 Noticed(g, MultipathObserved(g), "INVALIDATE_MULTIPATH")])
  /\ UNCHANGED <<registry, indexes, current_cost_policy, upstream, noticed>>

CostObserved(group, q) ==
  LET stale == group.policy # q
      had   == "STALE_COST_CLASS" \in group.currentness
  IN CASE stale = had -> group
       [] stale /\ ~had ->
            [group EXCEPT
               !.currentness = @ \cup {"STALE_COST_CLASS"},
               !.members = [m \in DOMAIN @ |->
                  IF @[m].declared THEN [@[m] EXCEPT !.cost_current = FALSE] ELSE @[m]]]
       [] OTHER ->
            [group EXCEPT
               !.currentness = @ \ {"STALE_COST_CLASS"},
               !.members = [m \in DOMAIN @ |-> [@[m] EXCEPT !.cost_current = TRUE]]]

\* Whatever generation the notice carries becomes the current one.
notify_cost_generation_change(p, q) ==
  /\ Live(p)
  /\ current_cost_policy' = q
  /\ Deliver([g \in Dependents(p, Created) |->
                 Noticed(g, CostObserved(groups[g], q), "INVALIDATE_COST")])
  /\ UNCHANGED <<registry, indexes, upstream, noticed>>

-----------------------------------------------------------------------------
(* Epochs and publishers.                                                   *)

\* Mutation: the pending plan survives.
DisarmedWithPlan(group, cause) ==
  refresh_group([group EXCEPT !.currentness = @ \cup {cause, "REVALIDATION_REQUIRED"},
                              !.members = Unproven(@)],
                "INVALIDATE_EPOCH", FALSE)

\* Mutation: the proofs are dropped, the authority is not.
DisarmedWithoutCause(group, cause) ==
  refresh_group([group EXCEPT !.plan = NoPlan, !.members = Unproven(@)],
                "INVALIDATE_EPOCH", FALSE)

\* The group keeps its map and loses every proof, its plan and its authority.
Disarmed(group, cause) ==
  refresh_group([group EXCEPT !.currentness = @ \cup {cause, "REVALIDATION_REQUIRED"},
                              !.plan = NoPlan, !.members = Unproven(@)],
                "INVALIDATE_EPOCH", FALSE)

set_epoch ==
  /\ epoch < MaxEpoch
  /\ epoch' = epoch + 1
  /\ publishers' = [p \in Publisher |-> NoBoot]
  /\ fenced_boots' = {}
  /\ Deliver([g \in {h \in Group : is_open(h)} |->
                 Disarmed([groups[g] EXCEPT !.authority_generation = @ + 1], "STALE_EPOCH")])
  /\ UNCHANGED <<indexes, current_cost_policy, upstream, noticed>>

\* A fresh boot of a registered publisher fences the boot it replaces.
register_publisher(p, b) ==
  LET old      == publishers[p]
      replaced == old # NoBoot /\ old # b
  IN  /\ b \notin fenced_boots
      /\ replaced => Cardinality(fenced_boots) < MaxPublishers
      /\ old = NoBoot => Cardinality({r \in Publisher : publishers[r] # NoBoot}) < MaxPublishers
      /\ publishers' = [publishers EXCEPT ![p] = b]
      /\ fenced_boots' = IF replaced THEN fenced_boots \cup {old} ELSE fenced_boots
      /\ UNCHANGED <<epoch, groups, indexes, current_cost_policy, upstream, noticed>>

\* The boot enters the fence table only while there is room in it.
fence_publisher(p) ==
  /\ publishers[p] # NoBoot
  /\ publishers' = [publishers EXCEPT ![p] = NoBoot]
  /\ fenced_boots' = IF Cardinality(fenced_boots) < MaxPublishers
                     THEN fenced_boots \cup {publishers[p]} ELSE fenced_boots
  /\ Deliver([g \in {h \in authority_index[p] :
                        groups[h].authority_boot = publishers[p] /\ is_open(h)} |->
                 Disarmed(groups[g], "FENCED_PUBLISHER")])
  /\ UNCHANGED <<epoch, indexes, current_cost_policy, upstream, noticed>>

-----------------------------------------------------------------------------
(* The upstream domains, read by the governor whenever it observes.         *)

\* A notice on its way to the governor has reached the view first, whatever generation
\* it names: two of them may arrive in either order, so the answer may move back.  The
\* hook runs under no lock of the governor, so it may also move while an operation observes.
PathMoves(path, generation) ==
  /\ generation # path_generation[path]
  /\ path_generation' = [path_generation EXCEPT ![path] = generation]
  /\ authorized' = authorized \cup {path}
  /\ noticed' = noticed \ {path}
  /\ UNCHANGED <<registry, groups, indexes, current_cost_policy, set_generation>>

PathAuthorization(path) ==
  /\ path \in Revocable
  /\ authorized' = (authorized \cup {path}) \ (authorized \cap {path})
  /\ noticed' = noticed \ {path}
  /\ UNCHANGED <<registry, groups, indexes, current_cost_policy, path_generation,
                 set_generation>>

SetMoves(generation) ==
  /\ generation # set_generation
  /\ set_generation' = generation
  /\ UNCHANGED <<registry, groups, indexes, current_cost_policy, path_generation,
                 authorized, noticed>>

-----------------------------------------------------------------------------
Membership(p, g) ==
  \/ \E S \in SUBSET Member : \E E \in SUBSET S, policy \in Policy : create_group(p, g, S, E, policy)
  \/ \E m \in Member, enabled \in BOOLEAN : add_member(p, g, m, enabled)
  \/ \E m \in Member : remove_member(p, g, m)
  \/ \E m \in Member : enable_member(p, g, m)
  \/ \E m \in Member : disable_member(p, g, m)
  \/ \E S \in SUBSET Member : \E E \in SUBSET S : apply_membership_set(p, g, S, E)

Revalidation(p, g) ==
  \E R \in SUBSET Member, q \in Policy :
    \/ \E newSet \in BOOLEAN : revalidate_group(p, g, R, q, newSet)
    \/ RefuseRevalidation(p, g, R, q)

Rebalance(p, g) ==
  \/ \E S \in SUBSET Member : \E E \in SUBSET S : plan_rebalance(p, g, S, E)
  \/ commit_rebalance(p, g)
  \/ abort_rebalance(p, g)

Closing(p, g) ==
  \/ withdraw_group(p, g)
  \/ complete_withdrawal(p, g)
  \/ revoke_group(p, g)
  \/ retire_group(p, g)
  \/ \E h \in Group : supersede_group(p, g, h)

Notice(p) ==
  \/ \E path \in Path : notify_path_authority_change(p, path)
  \/ notify_multipath_set_change(p)
  \/ \E q \in Policy : notify_cost_generation_change(p, q)

Registry ==
  \/ set_epoch
  \/ \E p \in Publisher : \/ \E b \in Boot : register_publisher(p, b)
                          \/ fence_publisher(p)

Upstream ==
  \/ \E path \in Path : \/ \E generation \in PathGeneration : PathMoves(path, generation)
                        \/ PathAuthorization(path)
  \/ \E generation \in SetGeneration : SetMoves(generation)

Next ==
  \/ \E p \in Publisher, g \in Group :
       Membership(p, g) \/ Revalidation(p, g) \/ Rebalance(p, g) \/ Closing(p, g)
  \/ \E p \in Publisher : Notice(p)
  \/ Registry
  \/ Upstream

Spec == Init /\ [][Next]_vars
=============================================================================
