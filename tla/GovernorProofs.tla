---------------------------- MODULE GovernorProofs ----------------------------
(***************************************************************************)
(* What holds of the governor for every number of members, buckets, groups, *)
(* publishers, boots and generations.                                       *)
(***************************************************************************)
EXTENDS GovernorSafety, FiniteSetTheorems, TLAPS

-----------------------------------------------------------------------------
(* Lemmas on one group.                                                     *)

\* A recomputed map is a map: every bucket goes to a member or to nobody.
LEMMA RebalanceType ==
  ASSUME NEW owners \in Owners, NEW active \in SUBSET Member
  PROVE  compute_rebalance(owners, active) \in Owners
<1>1. ASSUME NEW b \in Bucket
      PROVE  Filler(owners, active, b) \in Member \cup {Nil}
  BY Zenon DEF Filler
<1>2. Retained(owners, active) \subseteq Bucket
  BY DEF Retained
<1> QED BY <1>1, <1>2 DEF compute_rebalance, Owners

\* The states of members are member states, whatever the flags say.
LEMMA DeriveMembersType ==
  ASSUME NEW members, MembersOK(members)
  PROVE  MembersOK(derive_members(members))
<1>1. \A d, e, u : derive_member_state(d, e, u) \in MemberState
  BY DEF derive_member_state, MemberState
<1>2. ASSUME NEW m \in DOMAIN members
      PROVE  [members[m] EXCEPT !.state =
                derive_member_state(members[m].declared, members[m].enabled,
                                    upstream_current(members[m]))] \in MemberEntry
  BY <1>1 DEF MembersOK, MemberEntry
<1> QED BY <1>2 DEF MembersOK, derive_members

\* The lifecycle table answers with a lifecycle state.
LEMMA LifecycleType ==
  ASSUME NEW group, NEW event \in GroupEvent
  PROVE  apply_group_event(event, derived_lifecycle(group)) \in GroupLifecycle
<1>1. derived_lifecycle(group) \in OpenLifecycles
  BY DEF derived_lifecycle, derive_lifecycle, OpenLifecycles
<1>2. event \in DOMAIN EventTarget => EventTarget[event] \in GroupLifecycle
  BY DEF EventTarget, GroupLifecycle, OpenLifecycles, ClosedLifecycles
<1> QED BY <1>1, <1>2 DEF apply_group_event, GroupLifecycle

\* refresh_group turns a well-formed group into a well-formed group.
LEMMA RefreshType ==
  ASSUME NEW group, GroupOK(group), NEW event \in GroupEvent, NEW recompute \in BOOLEAN
  PROVE  GroupOK(refresh_group(group, event, recompute))
<1> DEFINE members  == derive_members(group.members)
           declared == Declared(members)
           owners   == IF recompute
                       THEN compute_rebalance(group.assignment, active_members(members))
                       ELSE group.assignment
           mg == IF declared = group.declared_digest THEN group.membership_generation
                 ELSE group.membership_generation + 1
           ag == IF owners = group.assignment THEN group.assignment_generation
                 ELSE group.assignment_generation + 1
           settled  ==
             [group EXCEPT
                !.members = members, !.membership_generation = mg, !.declared_digest = declared,
                !.assignment_generation = ag, !.assignment = owners]
<1>1. MembersOK(members)
  BY DeriveMembersType DEF GroupOK
<1>2. declared \in SUBSET Member
  BY <1>1 DEF Declared, MembersOK
<1>3. owners \in Owners
  BY <1>1, RebalanceType DEF GroupOK, active_members, MembersOK
<1>4. mg \in Nat /\ ag \in Nat
  BY DEF GroupOK
<1>5. GroupOK(settled)
  <2> HIDE DEF members, declared, owners, mg, ag
  <2> QED BY <1>1, <1>2, <1>3, <1>4 DEF GroupOK
<1>6. refresh_group(group, event, recompute)
        = [settled EXCEPT !.lifecycle = apply_group_event(event, derived_lifecycle(settled))]
  BY DEF refresh_group
<1>7. apply_group_event(event, derived_lifecycle(settled)) \in GroupLifecycle
  BY LifecycleType
<1> HIDE DEF settled
<1> QED BY <1>5, <1>6, <1>7 DEF GroupOK

\* Binding a group to a publisher, its boot and an epoch keeps it well formed.
LEMMA BindType ==
  ASSUME NEW group, GroupOK(group),
         NEW p \in Publisher, NEW boot \in Boot, NEW ep \in Nat
  PROVE  GroupOK(bind_authority(group, p, boot, ep))
<1> DEFINE next  == group.authority_generation + 1
           bound == [group EXCEPT !.authority_generation = next, !.bound_epoch = ep,
                                  !.authority_publisher = p, !.authority_boot = boot]
<1>1. GroupOK(bound)
  <2>1. next \in Nat
    BY DEF GroupOK
  <2> HIDE DEF next
  <2> QED BY <2>1 DEF GroupOK
<1>2. bind_authority(group, p, boot, ep) \in {group, bound}
  BY DEF bind_authority
<1> QED BY <1>1, <1>2

\* Evicting withdrawn entries keeps the entries well formed, and the declared ones.
LEMMA EvictType ==
  ASSUME NEW members, MembersOK(members)
  PROVE  /\ MembersOK(evict_withdrawn(members))
         /\ Declared(evict_withdrawn(members)) = Declared(members)
BY DEF evict_withdrawn, MembersOK, Declared

\* A validated spec makes a well-formed entry.
LEMMA MakeEntryType ==
  ASSUME NEW spec, spec.enabled \in BOOLEAN, spec.bound \in Nat, spec.policy \in Nat
  PROVE  make_entry(spec) \in MemberEntry
BY DEF make_entry, MemberEntry, MemberState

\* Applying a target set of well-formed specs keeps the entries well formed.
LEMMA ApplyTargetType ==
  ASSUME NEW members, MembersOK(members), NEW target, TargetOK(target)
  PROVE  MembersOK(apply_target_set(members, target))
<1>1. ASSUME NEW m \in DOMAIN target
      PROVE  make_entry(target[m]) \in MemberEntry
  BY MakeEntryType DEF TargetOK, MemberSpec
<1>2. ASSUME NEW m \in DOMAIN members
      PROVE  [members[m] EXCEPT !.declared = FALSE, !.enabled = TRUE] \in MemberEntry
  BY DEF MembersOK, MemberEntry
<1> QED BY <1>1, <1>2 DEF apply_target_set, MembersOK, TargetOK

\* Replacing one entry by an entry keeps the entries well formed.
LEMMA OneEntryType ==
  ASSUME NEW members, MembersOK(members), NEW m \in DOMAIN members, NEW entry \in MemberEntry
  PROVE  MembersOK([members EXCEPT ![m] = entry])
BY DEF MembersOK

\* Dropping every proof keeps the entries well formed.
LEMMA UnprovenType ==
  ASSUME NEW members, MembersOK(members)
  PROVE  /\ MembersOK(Unproven(members))
         /\ Declared(Unproven(members)) = Declared(members)
<1>1. ASSUME NEW m \in DOMAIN members
      PROVE  /\ members[m] \in MemberEntry
             /\ Unproven(members)[m] \in MemberEntry
             /\ Unproven(members)[m].declared = members[m].declared
  <2>1. members[m] \in MemberEntry
    BY DEF MembersOK
  <2> QED BY <2>1 DEF Unproven, MemberEntry
<1>2. /\ DOMAIN Unproven(members) = DOMAIN members
      /\ Unproven(members) = [m \in DOMAIN members |-> Unproven(members)[m]]
  BY DEF Unproven
<1> QED BY <1>1, <1>2 DEF MembersOK, Declared

\* Withdrawing or disabling every member keeps the entries well formed.
LEMMA AllMembersType ==
  ASSUME NEW members, MembersOK(members), NEW declared \in BOOLEAN, NEW enabled \in BOOLEAN
  PROVE  MembersOK(AllMembers(members, declared, enabled))
<1>1. ASSUME NEW m \in DOMAIN members
      PROVE  AllMembers(members, declared, enabled)[m] \in MemberEntry
  <2>1. members[m] \in MemberEntry
    BY DEF MembersOK
  <2> QED BY <2>1 DEF AllMembers, MemberEntry
<1>2. /\ DOMAIN AllMembers(members, declared, enabled) = DOMAIN members
      /\ AllMembers(members, declared, enabled) =
           [m \in DOMAIN members |-> AllMembers(members, declared, enabled)[m]]
  BY DEF AllMembers
<1> QED BY <1>1, <1>2 DEF MembersOK

-----------------------------------------------------------------------------
(* The invariant of one group: its states are derived, and a live plan or a *)
(* binding of an old epoch constrains its causes.                           *)

PlanCurrent(group, ep) ==
  group.plan # NoPlan =>
    /\ group.plan.epoch = ep
    /\ group.bound_epoch = ep
    /\ authority_current(group.currentness)

GroupInv(group, ep) ==
  /\ derive_members(group.members) = group.members
  /\ group.lifecycle \notin ClosedLifecycles =>
       /\ group.lifecycle = derived_lifecycle(group)
       /\ group.bound_epoch # ep => "STALE_EPOCH" \in group.currentness
       /\ PlanCurrent(group, ep)

ClosingEvents == CloseEvents \cup {"COMPLETE_WITHDRAW"}

\* Deriving the member states a second time changes nothing.
LEMMA DeriveTwice ==
  ASSUME NEW members, MembersOK(members)
  PROVE  derive_members(derive_members(members)) = derive_members(members)
<1> DEFINE derived == derive_members(members)
<1>1. MembersOK(derived) /\ DOMAIN derived = DOMAIN members
  BY DeriveMembersType DEF derive_members
<1>2. ASSUME NEW m \in DOMAIN members
      PROVE  /\ derived[m].declared = members[m].declared
             /\ derived[m].enabled = members[m].enabled
             /\ upstream_current(derived[m]) = upstream_current(members[m])
             /\ derived[m].state = derive_member_state(members[m].declared, members[m].enabled,
                                                       upstream_current(members[m]))
  BY DEF derive_members, MembersOK, MemberEntry, upstream_current
<1>3. ASSUME NEW m \in DOMAIN members
      PROVE  [derived[m] EXCEPT !.state = derived[m].state] = derived[m]
  BY <1>1 DEF MembersOK, MemberEntry
<1> HIDE DEF derived
<1>4. derive_members(derived)
        = [m \in DOMAIN members |-> [derived[m] EXCEPT !.state = derived[m].state]]
  BY <1>1, <1>2 DEF derive_members
<1>5. derived = [m \in DOMAIN members |-> derived[m]]
  BY <1>1 DEF MembersOK
<1> QED BY <1>3, <1>4, <1>5 DEF derived

\* Every refresh leaves a group whose states are derived: closed by a closing
\* event, or open in the state its counts, plan and causes call for.
LEMMA RefreshInv ==
  ASSUME NEW group, GroupOK(group), NEW ep,
         NEW event \in GroupEvent \ {"CREATE"}, NEW recompute \in BOOLEAN,
         event = "PLAN_REBALANCE" => group.plan # NoPlan,
         event \notin ClosingEvents =>
           /\ group.bound_epoch # ep => "STALE_EPOCH" \in group.currentness
           /\ PlanCurrent(group, ep)
  PROVE  GroupInv(refresh_group(group, event, recompute), ep)
<1> DEFINE members  == derive_members(group.members)
           declared == Declared(members)
           owners   == IF recompute
                       THEN compute_rebalance(group.assignment, active_members(members))
                       ELSE group.assignment
           settled  ==
             [group EXCEPT
                !.members = members,
                !.membership_generation = IF declared = group.declared_digest THEN @ ELSE @ + 1,
                !.declared_digest = declared,
                !.assignment_generation = IF owners = group.assignment THEN @ ELSE @ + 1,
                !.assignment = owners]
           final == refresh_group(group, event, recompute)
<1>1. final = [settled EXCEPT !.lifecycle = apply_group_event(event, derived_lifecycle(settled))]
  BY DEF refresh_group
<1>2. /\ final.members = members /\ final.plan = group.plan
      /\ final.currentness = group.currentness /\ final.bound_epoch = group.bound_epoch
      /\ final.lifecycle = apply_group_event(event, derived_lifecycle(settled))
      /\ settled.members = members /\ settled.plan = group.plan
      /\ settled.currentness = group.currentness
  <2> HIDE DEF members, declared, owners
  <2> QED BY <1>1 DEF GroupOK
<1> HIDE DEF final, settled
<1>3. derived_lifecycle(final) = derived_lifecycle(settled)
  BY <1>2 DEF derived_lifecycle
<1>4. derive_members(final.members) = final.members
  BY <1>2, DeriveTwice DEF GroupOK
<1>5. CASE event \in ClosingEvents
  <2>1. final.lifecycle \in ClosedLifecycles
    BY <1>2, <1>5 DEF ClosingEvents, CloseEvents, apply_group_event, EventTarget, ClosedLifecycles
  <2> QED BY <1>4, <2>1 DEF GroupInv, final
<1>6. CASE event \notin ClosingEvents
  <2>1. final.lifecycle = derived_lifecycle(final)
    <3>1. CASE event = "PLAN_REBALANCE"
      BY <1>2, <1>3, <3>1 DEF apply_group_event, EventTarget, derived_lifecycle, derive_lifecycle
    <3>2. CASE event # "PLAN_REBALANCE"
      BY <1>2, <1>3, <1>6, <3>2 DEF apply_group_event, EventTarget, ClosingEvents, CloseEvents,
                                    GroupEvent
    <3> QED BY <3>1, <3>2
  <2>2. /\ final.bound_epoch # ep => "STALE_EPOCH" \in final.currentness
        /\ PlanCurrent(final, ep)
    BY <1>2, <1>6 DEF PlanCurrent
  <2> QED BY <1>4, <2>1, <2>2 DEF GroupInv, final
<1> QED BY <1>5, <1>6

\* Evicting withdrawn entries disturbs neither the form nor the state of a group.
LEMMA EvictInv ==
  ASSUME NEW group, GroupOK(group), NEW ep, GroupInv(group, ep)
  PROVE  LET final == [group EXCEPT !.members = evict_withdrawn(@)]
         IN  /\ GroupOK(final)
             /\ GroupInv(final, ep)
             /\ Declared(final.members) = Declared(group.members)
             /\ final.authority_publisher = group.authority_publisher
<1> DEFINE kept  == evict_withdrawn(group.members)
           final == [group EXCEPT !.members = kept]
<1>1. MembersOK(kept) /\ Declared(kept) = Declared(group.members)
  BY EvictType DEF GroupOK
<1>2. /\ DOMAIN kept \subseteq DOMAIN group.members
      /\ \A m \in DOMAIN kept : kept[m] = group.members[m]
      /\ Declared(group.members) \subseteq DOMAIN kept
  BY DEF evict_withdrawn, Declared
<1>3. \A m \in DOMAIN group.members : ~group.members[m].declared => group.members[m].state # "ACTIVE"
  BY DEF GroupInv, GroupOK, MembersOK, MemberEntry, derive_members, derive_member_state
<1>4. active_members(kept) = active_members(group.members)
  BY <1>2, <1>3 DEF active_members, Declared
<1>5. derive_members(kept) = kept
  BY <1>1, <1>2 DEF GroupInv, GroupOK, MembersOK, derive_members
<1>6. /\ GroupOK(final) /\ final.members = kept
      /\ final.plan = group.plan /\ final.currentness = group.currentness
      /\ final.lifecycle = group.lifecycle /\ final.bound_epoch = group.bound_epoch
      /\ final.authority_publisher = group.authority_publisher
  <2> HIDE DEF kept
  <2> QED BY <1>1 DEF GroupOK
<1> HIDE DEF kept, final
<1>7. derived_lifecycle(final) = derived_lifecycle(group)
  BY <1>1, <1>4, <1>6 DEF derived_lifecycle
<1>8. GroupInv(final, ep)
  BY <1>5, <1>6, <1>7 DEF GroupInv, PlanCurrent
<1> QED BY <1>1, <1>6, <1>8 DEF final, kept

-----------------------------------------------------------------------------
(* Lemmas on the state of the governor.                                     *)

GroupsInv == \A g \in Created : GroupInv(groups[g], epoch)

\* The inductive invariant.
IInv == TypeOK /\ IndexesAgree /\ GroupsInv

\* What the assumptions on the constants say of the generations.
LEMMA ConstantsType ==
  /\ Epoch \subseteq Nat \ {0} /\ 1 \in Epoch
  /\ PathGeneration \subseteq Nat /\ 1 \in PathGeneration
  /\ Policy \subseteq Nat
  /\ SetGeneration \subseteq Nat /\ 1 \in SetGeneration
  /\ PathOf \in [Member -> Path]
BY ConfigurationAssumption DEF Epoch, PathGeneration, Policy

\* Everything the governor observes is a natural number.
LEMMA ObservationType ==
  ASSUME TypeOK
  PROVE  /\ epoch \in Nat \ {0} /\ set_generation \in Nat
         /\ \A m \in Member : path_generation[PathOf[m]] \in Nat
BY ConstantsType DEF TypeOK

\* The specs of an accepted target are well formed.
LEMMA SpecsType ==
  ASSUME TypeOK, NEW S \in SUBSET Member, NEW E, NEW policy \in Nat
  PROVE  TargetOK(Specs(S, E, policy)) /\ DOMAIN Specs(S, E, policy) = S
BY ObservationType DEF Specs, TargetOK, MemberSpec

\* The declared members of a group can be counted, and lie on paths.
LEMMA DeclaredType ==
  ASSUME NEW group, GroupOK(group)
  PROVE  /\ Cardinality(Declared(group.members)) \in Nat
         /\ DeclaredPaths(group) \subseteq Path
<1>1. Declared(group.members) \subseteq Member
  BY DEF Declared, GroupOK, MembersOK
<1>2. IsFiniteSet(Declared(group.members))
  BY <1>1, MemberAssumption, FS_Subset
<1> QED BY <1>1, <1>2, FS_CardinalityType, ConstantsType DEF DeclaredPaths

\* Reindexing a set of groups to their new values keeps the indexes exact, when
\* no other group changed.
LEMMA ReindexAgrees ==
  ASSUME TypeOK, IndexesAgree, NEW touched, touched \subseteq Created',
         Created' = Created \cup touched,
         \A g \in Created' : GroupOK(groups'[g]),
         \A g \in Created \ touched :
           /\ DeclaredPaths(groups'[g]) = DeclaredPaths(groups[g])
           /\ groups'[g].authority_publisher = groups[g].authority_publisher,
         Reindex(touched, groups'), touched \subseteq Group
  PROVE  /\ IndexesAgree'
         /\ path_index' \in [Path -> SUBSET Group]
         /\ authority_index' \in [Publisher -> SUBSET Group]
<1>1. ASSUME NEW path \in Path
      PROVE  path_index'[path] = {g \in Created' : path \in DeclaredPaths(groups'[g])}
  <2>1. path_index'[path] = (path_index[path] \ touched)
                              \cup {g \in touched : path \in DeclaredPaths(groups'[g])}
    BY DEF Reindex
  <2>2. path_index[path] = {g \in Created : path \in DeclaredPaths(groups[g])}
    BY DEF IndexesAgree
  <2>3. \A g \in Created \ touched :
          path \in DeclaredPaths(groups'[g]) <=> path \in DeclaredPaths(groups[g])
    OBVIOUS
  <2> QED BY <2>1, <2>2, <2>3
<1>2. ASSUME NEW p \in Publisher
      PROVE  authority_index'[p] = {g \in Created' : groups'[g].authority_publisher = p}
  BY DEF Reindex, IndexesAgree, TypeOK
<1>3. IndexesAgree'
  BY <1>1, <1>2 DEF IndexesAgree, DeclaredPaths
<1> QED BY <1>3 DEF Reindex, TypeOK

\* The indexes stay exact when no group changes its declared members or its owner.
LEMMA SameIndexes ==
  ASSUME IndexesAgree, Created' = Created,
         path_index' = path_index, authority_index' = authority_index,
         \A g \in Created :
           /\ Declared(groups'[g].members) = Declared(groups[g].members)
           /\ groups'[g].authority_publisher = groups[g].authority_publisher
  PROVE  IndexesAgree'
BY DEF IndexesAgree, DeclaredPaths

\* Storing a well-formed group in its invariant keeps the invariant.
LEMMA StoreStep ==
  ASSUME IInv, NEW g \in Created, NEW refreshed, GroupOK(refreshed),
         GroupInv(refreshed, epoch), Store(g, refreshed)
  PROVE  IInv'
<1> DEFINE final == [refreshed EXCEPT !.members = evict_withdrawn(@)]
<1>1. GroupOK(final) /\ GroupInv(final, epoch)
  BY EvictInv
<1> HIDE DEF final
<1>2. groups' = [groups EXCEPT ![g] = final] /\ Reindex({g}, groups')
      /\ UNCHANGED <<registry, current_cost_policy, upstream, noticed>>
  BY DEF Store, final
<1>3. /\ Created' = Created /\ groups'[g] = final
      /\ \A h \in Created \ {g} : groups'[h] = groups[h]
      /\ groups' = [h \in Created' |-> groups'[h]]
  BY <1>2 DEF Created, IInv, TypeOK
<1>4. \A h \in Created' : GroupOK(groups'[h]) /\ GroupInv(groups'[h], epoch)
  BY <1>1, <1>3 DEF IInv, TypeOK, GroupsInv
<1>5. /\ IndexesAgree'
      /\ path_index' \in [Path -> SUBSET Group]
      /\ authority_index' \in [Publisher -> SUBSET Group]
  <2>1. {g} \subseteq Group /\ {g} \subseteq Created' /\ Created' = Created \cup {g}
    BY <1>3 DEF IInv, TypeOK
  <2>2. \A h \in Created \ {g} :
          /\ DeclaredPaths(groups'[h]) = DeclaredPaths(groups[h])
          /\ groups'[h].authority_publisher = groups[h].authority_publisher
    BY <1>3
  <2>3. TypeOK /\ IndexesAgree /\ Reindex({g}, groups') /\ \A h \in Created' : GroupOK(groups'[h])
    BY <1>2, <1>4 DEF IInv
  <2> QED BY <2>1, <2>2, <2>3, ReindexAgrees
<1>6. total_members' \in Int
  BY DeclaredType DEF Store, IInv, TypeOK
<1>7. TypeOK'
  BY <1>2, <1>3, <1>4, <1>5, <1>6 DEF IInv, TypeOK, registry, upstream
<1>8. GroupsInv'
  BY <1>2, <1>4 DEF GroupsInv, registry
<1> QED BY <1>5, <1>7, <1>8 DEF IInv

\* A live publisher acts with a boot.
LEMMA LiveBoot ==
  ASSUME TypeOK, NEW p \in Publisher, Live(p)
  PROVE  publishers[p] \in Boot
BY DEF TypeOK, Live

\* The refresh of an edited group: bound to its caller, it satisfies the
\* invariant as soon as a plan it still holds is a plan of this epoch under a
\* current authority.
LEMMA RefreshedInv ==
  ASSUME TypeOK, NEW p \in Publisher, Live(p),
         NEW group, GroupOK(group), NEW event \in GroupEvent \ {"CREATE"},
         event = "PLAN_REBALANCE" => group.plan # NoPlan,
         event \notin ClosingEvents /\ group.plan # NoPlan =>
           group.plan.epoch = epoch /\ authority_current(group.currentness)
  PROVE  GroupOK(Refreshed(p, group, event)) /\ GroupInv(Refreshed(p, group, event), epoch)
<1> DEFINE bound == bind_authority(group, p, publishers[p], epoch)
<1>1. GroupOK(bound)
  BY BindType, LiveBoot, ObservationType
<1>2. /\ bound.bound_epoch = epoch /\ bound.plan = group.plan
      /\ bound.currentness = group.currentness
  BY DEF bind_authority, GroupOK
<1> HIDE DEF bound
<1>3. event \notin ClosingEvents =>
        /\ bound.bound_epoch # epoch => "STALE_EPOCH" \in bound.currentness
        /\ PlanCurrent(bound, epoch)
  BY <1>2 DEF PlanCurrent
<1>4. GroupOK(refresh_group(bound, event, TRUE)) /\ GroupInv(refresh_group(bound, event, TRUE), epoch)
  BY <1>1, <1>2, <1>3, RefreshType, RefreshInv
<1> QED BY <1>4 DEF Refreshed, bound

\* The same, stored: the end of every mutation of one group.
LEMMA FinishStep ==
  ASSUME IInv, NEW p \in Publisher, Live(p), NEW g \in Created,
         NEW group, GroupOK(group), NEW event \in GroupEvent \ {"CREATE"},
         event = "PLAN_REBALANCE" => group.plan # NoPlan,
         event \notin ClosingEvents /\ group.plan # NoPlan =>
           group.plan.epoch = epoch /\ authority_current(group.currentness),
         finish_group_mutation(p, g, group, event)
  PROVE  IInv'
<1>1. GroupOK(Refreshed(p, group, event)) /\ GroupInv(Refreshed(p, group, event), epoch)
  BY RefreshedInv DEF IInv
<1> QED BY <1>1, StoreStep DEF finish_group_mutation

\* What the lifecycle table lets through: a membership event finds no pending
\* plan, a plan request a current authority, and any plan that a revalidation
\* finds is a plan of this epoch.
LEMMA EventGuards ==
  ASSUME IInv, NEW p \in Publisher, NEW g, NEW event \in GroupEvent, Preamble(p, g, event)
  PROVE  /\ Live(p) /\ g \in Created /\ GroupOK(groups[g]) /\ GroupInv(groups[g], epoch)
         /\ event \in MemberEvents => groups[g].plan = NoPlan
         /\ event = "PLAN_REBALANCE" => authority_current(groups[g].currentness)
         /\ event = "REVALIDATE" => PlanCurrent(groups[g], epoch)
<1> DEFINE group == groups[g]
           state == groups[g].lifecycle
<1>1. Live(p) /\ g \in Created /\ GroupOK(group) /\ GroupInv(group, epoch)
  BY DEF Preamble, IInv, TypeOK, GroupsInv
<1>2. state \in GroupLifecycle /\ event \in AllowedEvents[state]
  BY <1>1 DEF Preamble, lifecycle_allows, GroupOK
<1>3. /\ event \in MemberEvents =>
           state \in {"DECLARED", "ACTIVE", "DEGRADED", "REVALIDATION_REQUIRED"}
      /\ event = "PLAN_REBALANCE" => state \in {"ACTIVE", "DEGRADED"}
      /\ event = "REVALIDATE" => state \in OpenLifecycles
  BY <1>2 DEF AllowedEvents, GroupLifecycle, OpenLifecycles, ClosedLifecycles, OrdinaryEvents,
              MemberEvents, Invalidations, PlanEvents, CloseEvents
<1>4. state \in OpenLifecycles => state = derived_lifecycle(group) /\ PlanCurrent(group, epoch)
  BY <1>1 DEF GroupInv, OpenLifecycles, ClosedLifecycles
<1>5. event \in MemberEvents => group.plan = NoPlan
  BY <1>3, <1>4 DEF derived_lifecycle, derive_lifecycle, OpenLifecycles
<1>6. event = "PLAN_REBALANCE" => authority_current(group.currentness)
  BY <1>3, <1>4 DEF derived_lifecycle, derive_lifecycle, OpenLifecycles
<1> QED BY <1>1, <1>3, <1>4, <1>5, <1>6

\* Changing one entry of a group to a well-formed one keeps the group well formed.
LEMMA EntriesUpdate ==
  ASSUME NEW group, GroupOK(group), NEW members, MembersOK(members)
  PROVE  LET edited == [group EXCEPT !.members = members]
         IN  /\ GroupOK(edited)
             /\ edited.plan = group.plan /\ edited.currentness = group.currentness
BY DEF GroupOK

-----------------------------------------------------------------------------
(* One lemma per operation.                                                 *)

\* add_member keeps the invariant: it finds no pending plan, and the new entry is
\* well formed.
LEMMA AddMemberStep ==
  ASSUME IInv, NEW p \in Publisher, NEW g \in Group, NEW m \in Member,
         NEW enabled \in BOOLEAN, add_member(p, g, m, enabled)
  PROVE  IInv'
<1> DEFINE group == groups[g]
           spec  == [enabled |-> enabled, bound |-> path_generation[PathOf[m]],
                     policy |-> group.policy]
           members == [k \in DOMAIN group.members \cup {m} |->
                         IF k = m THEN make_entry(spec) ELSE group.members[k]]
           edited == [group EXCEPT !.members = members]
<1>1. /\ Live(p) /\ g \in Created /\ GroupOK(group) /\ group.plan = NoPlan
      /\ finish_group_mutation(p, g, edited, "ADD_MEMBER")
  BY EventGuards DEF add_member, MemberEvents, GroupEvent, OrdinaryEvents
<1>2. make_entry(spec) \in MemberEntry
  <2>1. spec.enabled \in BOOLEAN /\ spec.bound \in Nat /\ spec.policy \in Nat
    BY <1>1, ObservationType DEF GroupOK, IInv
  <2> QED BY <2>1, MakeEntryType
<1>3. MembersOK(members)
  <2> HIDE DEF spec
  <2> QED BY <1>1, <1>2 DEF GroupOK, MembersOK
<1>4. GroupOK(edited) /\ edited.plan = NoPlan
  BY <1>1, <1>3, EntriesUpdate
<1> HIDE DEF edited
<1> QED BY <1>1, <1>4, FinishStep DEF GroupEvent, OrdinaryEvents, MemberEvents

\* remove_member keeps the invariant: the entry stays, undeclared.
LEMMA RemoveMemberStep ==
  ASSUME IInv, NEW p \in Publisher, NEW g \in Group, NEW m \in Member, remove_member(p, g, m)
  PROVE  IInv'
<1> DEFINE group == groups[g]
           entry == [group.members[m] EXCEPT !.declared = FALSE, !.enabled = TRUE,
                       !.path_current = TRUE, !.multipath_current = TRUE, !.cost_current = TRUE]
           members == [group.members EXCEPT ![m] = entry]
           edited == [group EXCEPT !.members = members]
<1>1. /\ Live(p) /\ g \in Created /\ GroupOK(group) /\ group.plan = NoPlan
      /\ finish_group_mutation(p, g, [group EXCEPT !.members[m] =
           [@ EXCEPT !.declared = FALSE, !.enabled = TRUE, !.path_current = TRUE,
                     !.multipath_current = TRUE, !.cost_current = TRUE]], "REMOVE_MEMBER")
      /\ m \in DOMAIN group.members
  BY EventGuards DEF remove_member, MemberEvents, GroupEvent, OrdinaryEvents, IsDeclared, Declared
<1>2. finish_group_mutation(p, g, edited, "REMOVE_MEMBER")
  BY <1>1
<1>3. MembersOK(members)
  <2>1. MembersOK(group.members) /\ group.members[m] \in MemberEntry
    BY <1>1 DEF GroupOK, MembersOK
  <2>2. entry \in MemberEntry
    BY <2>1 DEF MemberEntry
  <2> HIDE DEF entry, group
  <2> QED BY <1>1, <2>1, <2>2, OneEntryType
<1>4. GroupOK(edited) /\ edited.plan = NoPlan
  BY <1>1, <1>3, EntriesUpdate
<1> HIDE DEF edited
<1> QED BY <1>1, <1>2, <1>4, FinishStep DEF GroupEvent, OrdinaryEvents, MemberEvents

\* enable_member keeps the invariant: the entry is re-proved and refreshed.
LEMMA EnableMemberStep ==
  ASSUME IInv, NEW p \in Publisher, NEW g \in Group, NEW m \in Member, enable_member(p, g, m)
  PROVE  IInv'
<1> DEFINE group == groups[g]
           entry == [group.members[m] EXCEPT !.enabled = TRUE, !.path_current = TRUE,
                       !.multipath_current = TRUE, !.cost_current = TRUE]
           members == [group.members EXCEPT ![m] = entry]
           edited == [group EXCEPT !.members = members]
<1>1. /\ Live(p) /\ g \in Created /\ GroupOK(group) /\ group.plan = NoPlan
      /\ finish_group_mutation(p, g, [group EXCEPT !.members[m] =
           [@ EXCEPT !.enabled = TRUE, !.path_current = TRUE,
                     !.multipath_current = TRUE, !.cost_current = TRUE]], "ENABLE_MEMBER")
      /\ m \in DOMAIN group.members
  BY EventGuards DEF enable_member, MemberEvents, GroupEvent, OrdinaryEvents, IsDeclared, Declared
<1>2. finish_group_mutation(p, g, edited, "ENABLE_MEMBER")
  BY <1>1
<1>3. MembersOK(members)
  <2>1. MembersOK(group.members) /\ group.members[m] \in MemberEntry
    BY <1>1 DEF GroupOK, MembersOK
  <2>2. entry \in MemberEntry
    BY <2>1 DEF MemberEntry
  <2> HIDE DEF entry, group
  <2> QED BY <1>1, <2>1, <2>2, OneEntryType
<1>4. GroupOK(edited) /\ edited.plan = NoPlan
  BY <1>1, <1>3, EntriesUpdate
<1> HIDE DEF edited
<1> QED BY <1>1, <1>2, <1>4, FinishStep DEF GroupEvent, OrdinaryEvents, MemberEvents

\* disable_member keeps the invariant: only the enabled flag of an entry changes.
LEMMA DisableMemberStep ==
  ASSUME IInv, NEW p \in Publisher, NEW g \in Group, NEW m \in Member, disable_member(p, g, m)
  PROVE  IInv'
<1> DEFINE group == groups[g]
           entry == [group.members[m] EXCEPT !.enabled = FALSE]
           members == [group.members EXCEPT ![m] = entry]
           edited == [group EXCEPT !.members = members]
<1>1. /\ Live(p) /\ g \in Created /\ GroupOK(group) /\ group.plan = NoPlan
      /\ finish_group_mutation(p, g, [group EXCEPT !.members[m].enabled = FALSE],
                               "DISABLE_MEMBER")
      /\ m \in DOMAIN group.members
  BY EventGuards DEF disable_member, MemberEvents, GroupEvent, OrdinaryEvents, IsDeclared, Declared
<1>2. finish_group_mutation(p, g, edited, "DISABLE_MEMBER")
  BY <1>1
<1>3. MembersOK(members)
  <2>1. MembersOK(group.members) /\ group.members[m] \in MemberEntry
    BY <1>1 DEF GroupOK, MembersOK
  <2>2. entry \in MemberEntry
    BY <2>1 DEF MemberEntry
  <2> HIDE DEF entry, group
  <2> QED BY <1>1, <2>1, <2>2, OneEntryType
<1>4. GroupOK(edited) /\ edited.plan = NoPlan
  BY <1>1, <1>3, EntriesUpdate
<1> HIDE DEF edited
<1> QED BY <1>1, <1>2, <1>4, FinishStep DEF GroupEvent, OrdinaryEvents, MemberEvents

\* apply_membership_set keeps the invariant: the trial that is stored is a
\* refresh of the group with its target set.
LEMMA ApplyMembershipSetStep ==
  ASSUME IInv, NEW p \in Publisher, NEW g \in Group, NEW S \in SUBSET Member,
         NEW E \in SUBSET S, apply_membership_set(p, g, S, E)
  PROVE  IInv'
<1> DEFINE group   == groups[g]
           target  == Specs(S, E, group.policy)
           members == apply_target_set(group.members, target)
           edited  == [group EXCEPT !.members = members]
           trial   == Refreshed(p, edited, "ADD_MEMBER")
<1>1. /\ Live(p) /\ g \in Created /\ GroupOK(group) /\ group.plan = NoPlan
      /\ Store(g, trial)
  BY EventGuards DEF apply_membership_set, MemberEvents, GroupEvent, OrdinaryEvents
<1>2. group.policy \in Nat
  BY <1>1 DEF GroupOK
<1>3. TargetOK(target)
  BY <1>2, SpecsType DEF IInv
<1> HIDE DEF target
<1>4. MembersOK(members)
  BY <1>1, <1>3, ApplyTargetType DEF GroupOK
<1> HIDE DEF members
<1>5. GroupOK(edited) /\ edited.plan = NoPlan
  BY <1>1, <1>4, EntriesUpdate
<1> HIDE DEF edited
<1>6. GroupOK(trial) /\ GroupInv(trial, epoch)
  BY <1>1, <1>5, RefreshedInv DEF IInv, GroupEvent, OrdinaryEvents, MemberEvents
<1> HIDE DEF trial
<1> QED BY <1>1, <1>6, StoreStep

\* create_group keeps the invariant: the new group is well formed and indexed.
LEMMA CreateGroupStep ==
  ASSUME IInv, NEW p \in Publisher, NEW g \in Group, NEW S \in SUBSET Member,
         NEW E \in SUBSET S, NEW policy \in Policy, create_group(p, g, S, E, policy)
  PROVE  IInv'
<1> DEFINE specs   == Specs(S, E, policy)
           members == [m \in S |-> make_entry(specs[m])]
           blank   == NewGroup(p, S, E, policy)
           group   == Refreshed(p, blank, "ADD_MEMBER")
           next    == [h \in Created \cup {g} |-> IF h = g THEN group ELSE groups[h]]
<1>1. /\ Live(p) /\ g \notin Created /\ groups' = next /\ Reindex({g}, next)
      /\ total_members' = total_members + Cardinality(Declared(group.members))
      /\ UNCHANGED <<registry, current_cost_policy, upstream, noticed>>
  BY DEF create_group
<1>2. policy \in Nat /\ TargetOK(specs) /\ DOMAIN specs = S
  BY ConstantsType, SpecsType DEF IInv
<1> HIDE DEF specs
<1>3. MembersOK(members)
  <2>1. ASSUME NEW m \in S PROVE make_entry(specs[m]) \in MemberEntry
    BY <1>2, MakeEntryType DEF TargetOK, MemberSpec
  <2> QED BY <2>1 DEF MembersOK
<1> HIDE DEF members
<1>4. GroupOK(blank) /\ blank.plan = NoPlan
  <2>1. publishers[p] \in Boot /\ epoch \in Nat /\ set_generation \in Nat
    BY <1>1, LiveBoot, ObservationType DEF IInv
  <2>2. Unassigned \in Owners
    BY DEF Unassigned, Owners
  <2>3. blank = [lifecycle |-> "DECLARED", currentness |-> {},
          membership_generation |-> 0, assignment_generation |-> 0, authority_generation |-> 1,
          policy |-> policy, multipath_generation |-> set_generation,
          members |-> members, declared_digest |-> {}, assignment |-> Unassigned,
          authority_publisher |-> p, authority_boot |-> publishers[p], bound_epoch |-> epoch,
          plan |-> NoPlan, successor |-> NoGroup, predecessor |-> NoGroup]
    BY DEF NewGroup, members, specs
  <2> QED BY <1>2, <1>3, <2>1, <2>2, <2>3 DEF GroupOK, GroupLifecycle, OpenLifecycles
<1> HIDE DEF blank
<1>5. GroupOK(group) /\ GroupInv(group, epoch)
  BY <1>1, <1>4, RefreshedInv DEF IInv, GroupEvent, OrdinaryEvents, MemberEvents
<1> HIDE DEF group
<1>6. /\ Created' = Created \cup {g} /\ groups'[g] = group
      /\ \A h \in Created : groups'[h] = groups[h]
      /\ groups' = [h \in Created' |-> groups'[h]]
  BY <1>1 DEF Created
<1>7. \A h \in Created' : GroupOK(groups'[h]) /\ GroupInv(groups'[h], epoch)
  BY <1>5, <1>6 DEF IInv, TypeOK, GroupsInv
<1>8. /\ IndexesAgree'
      /\ path_index' \in [Path -> SUBSET Group]
      /\ authority_index' \in [Publisher -> SUBSET Group]
  <2>1. {g} \subseteq Group /\ {g} \subseteq Created' /\ Created' = Created \cup {g}
    BY <1>6
  <2>2. \A h \in Created \ {g} :
          /\ DeclaredPaths(groups'[h]) = DeclaredPaths(groups[h])
          /\ groups'[h].authority_publisher = groups[h].authority_publisher
    BY <1>6
  <2>3. TypeOK /\ IndexesAgree /\ Reindex({g}, groups') /\ \A h \in Created' : GroupOK(groups'[h])
    BY <1>1, <1>7 DEF IInv
  <2> QED BY <2>1, <2>2, <2>3, ReindexAgrees
<1>9. total_members' \in Int
  BY <1>1, <1>5, DeclaredType DEF IInv, TypeOK
<1>10. TypeOK'
  BY <1>1, <1>6, <1>7, <1>8, <1>9 DEF IInv, TypeOK, registry, upstream
<1>11. GroupsInv'
  BY <1>1, <1>7 DEF GroupsInv, registry
<1> QED BY <1>8, <1>10, <1>11 DEF IInv

\* Re-proving members under a policy changes bindings and claims, and of the
\* causes at most the cost one; no flag, no state, no declaration.
LEMMA ReprovedInv ==
  ASSUME TypeOK, NEW group, GroupOK(group), NEW R, NEW q \in Nat, NEW ep
  PROVE  LET new == Reproved(group, R, q)
         IN  /\ GroupOK(new)
             /\ new.plan = group.plan /\ new.bound_epoch = group.bound_epoch
             /\ new.currentness \subseteq group.currentness
             /\ Declared(new.members) = Declared(group.members)
             /\ new.authority_publisher = group.authority_publisher
             /\ GroupInv(group, ep) => GroupInv(new, ep)
<1> DEFINE members == [m \in DOMAIN group.members |->
                         IF m \in R
                         THEN [group.members[m] EXCEPT !.bound = path_generation[PathOf[m]],
                                                       !.policy = q]
                         ELSE group.members[m]]
           causes  == IF q = group.policy THEN group.currentness
                      ELSE group.currentness \ {"STALE_COST_CLASS"}
           new     == [group EXCEPT !.policy = q, !.currentness = causes, !.members = members]
<1>1. new = Reproved(group, R, q)
  BY DEF Reproved
<1>2. MembersOK(members)
  <2>1. DOMAIN group.members \subseteq Member /\ group.members \in [DOMAIN group.members -> MemberEntry]
    BY DEF GroupOK, MembersOK
  <2>2. ASSUME NEW m \in DOMAIN group.members
        PROVE  [group.members[m] EXCEPT !.bound = path_generation[PathOf[m]], !.policy = q]
                 \in MemberEntry
    BY <2>1, ObservationType DEF MemberEntry
  <2> QED BY <2>1, <2>2 DEF MembersOK
<1>3. causes \subseteq group.currentness
      /\ causes \cap AuthorityCauses = group.currentness \cap AuthorityCauses
      /\ ("STALE_EPOCH" \in group.currentness => "STALE_EPOCH" \in causes)
  BY DEF AuthorityCauses
<1>4. Declared(members) = Declared(group.members)
      /\ active_members(members) = active_members(group.members)
  BY DEF GroupOK, MembersOK, MemberEntry, Declared, active_members
<1>5. ASSUME derive_members(group.members) = group.members
      PROVE  derive_members(members) = members
  <2>0. ASSUME NEW m \in DOMAIN group.members
        PROVE  group.members[m] \in MemberEntry
    BY DEF GroupOK, MembersOK
  <2>1. ASSUME NEW m \in DOMAIN group.members
        PROVE  group.members[m].state =
                 derive_member_state(group.members[m].declared, group.members[m].enabled,
                                     upstream_current(group.members[m]))
    <3>1. group.members[m] =
            [group.members[m] EXCEPT !.state =
               derive_member_state(group.members[m].declared, group.members[m].enabled,
                                   upstream_current(group.members[m]))]
      BY <1>5 DEF derive_members
    <3> QED BY <2>0, <3>1 DEF MemberEntry
  <2>2. ASSUME NEW m \in DOMAIN group.members
        PROVE  /\ members[m] \in MemberEntry
               /\ members[m].state =
                    derive_member_state(members[m].declared, members[m].enabled,
                                        upstream_current(members[m]))
    <3>1. members[m] = IF m \in R
                       THEN [group.members[m] EXCEPT !.bound = path_generation[PathOf[m]],
                                                     !.policy = q]
                       ELSE group.members[m]
      OBVIOUS
    <3>2. members[m] \in MemberEntry
      BY <1>2 DEF MembersOK
    <3> HIDE DEF members
    <3>3. /\ members[m].declared = group.members[m].declared
          /\ members[m].enabled = group.members[m].enabled
          /\ members[m].state = group.members[m].state
          /\ members[m].path_current = group.members[m].path_current
          /\ members[m].multipath_current = group.members[m].multipath_current
          /\ members[m].cost_current = group.members[m].cost_current
      BY <2>0, <3>1 DEF MemberEntry
    <3> QED BY <2>1, <3>2, <3>3 DEF upstream_current
  <2>3. ASSUME NEW m \in DOMAIN group.members
        PROVE  [members[m] EXCEPT !.state =
                  derive_member_state(members[m].declared, members[m].enabled,
                                      upstream_current(members[m]))] = members[m]
    BY <2>2 DEF MemberEntry
  <2>4. derive_members(members) =
          [m \in DOMAIN group.members |->
             [members[m] EXCEPT !.state =
                derive_member_state(members[m].declared, members[m].enabled,
                                    upstream_current(members[m]))]]
    BY DEF derive_members
  <2>5. members = [m \in DOMAIN group.members |-> members[m]]
    OBVIOUS
  <2> HIDE DEF members
  <2> QED BY <2>3, <2>4, <2>5
<1> HIDE DEF members, causes
<1>6. /\ GroupOK(new) /\ new.members = members /\ new.currentness = causes
      /\ new.plan = group.plan /\ new.lifecycle = group.lifecycle
      /\ new.bound_epoch = group.bound_epoch
      /\ new.authority_publisher = group.authority_publisher
  BY <1>2, <1>3 DEF GroupOK
<1> HIDE DEF new
<1>7. authority_current(new.currentness) = authority_current(group.currentness)
  BY <1>3, <1>6 DEF authority_current
<1>8. derived_lifecycle(new) = derived_lifecycle(group)
  BY <1>4, <1>6, <1>7 DEF derived_lifecycle
<1>9. GroupInv(group, ep) => GroupInv(new, ep)
  BY <1>3, <1>5, <1>6, <1>7, <1>8 DEF GroupInv, PlanCurrent
<1> QED BY <1>1, <1>3, <1>4, <1>6, <1>9

\* Observing every declared member again keeps the group well formed; it adds
\* no cause that voids the authority of the group.
LEMMA ReobservedType ==
  ASSUME NEW g, NEW group, GroupOK(group)
  PROVE  LET new == Reobserved(g, group)
         IN  /\ GroupOK(new) /\ new.plan = group.plan
             /\ authority_current(group.currentness) => authority_current(new.currentness)
<1> DEFINE members == [m \in DOMAIN group.members |->
              LET entry == group.members[m] IN
              IF ~entry.declared THEN entry
              ELSE [entry EXCEPT
                      !.path_current = PathProved(m, entry.bound),
                      !.multipath_current = SetProved(g, group.multipath_generation, m)]]
           path_stale == \E m \in Declared(members) : ~members[m].path_current
           set_stale  == \E m \in Declared(members) : ~members[m].multipath_current
           causes == (group.currentness \ {"STALE_PATH_AUTHORITY", "STALE_MULTIPATH_SET"})
                       \cup {cause \in {"STALE_PATH_AUTHORITY"} : path_stale}
                       \cup {cause \in {"STALE_MULTIPATH_SET"} : set_stale}
           new == [group EXCEPT !.members = members, !.currentness = causes]
<1>1. new = Reobserved(g, group)
  BY Zenon DEF Reobserved
<1>2. MembersOK(members)
  <2>1. \A m : PathProved(m, group.members[m].bound) \in BOOLEAN
               /\ SetProved(g, group.multipath_generation, m) \in BOOLEAN
    BY DEF PathProved, SetProved
  <2>2. ASSUME NEW m \in DOMAIN group.members
        PROVE  members[m] \in MemberEntry
    <3>1. group.members[m] \in MemberEntry
      BY DEF GroupOK, MembersOK
    <3> QED BY <2>1, <3>1 DEF MemberEntry
  <2>3. DOMAIN members = DOMAIN group.members /\ DOMAIN group.members \subseteq Member
        /\ members = [m \in DOMAIN group.members |-> members[m]]
    BY DEF GroupOK, MembersOK
  <2> HIDE DEF members
  <2> QED BY <2>2, <2>3 DEF MembersOK
<1> HIDE DEF members
<1>3. causes \subseteq CurrentnessCause
      /\ (authority_current(group.currentness) => authority_current(causes))
  BY DEF GroupOK, CurrentnessCause, authority_current, AuthorityCauses
<1> HIDE DEF causes
<1>4. GroupOK(new) /\ new.plan = group.plan /\ new.currentness = causes
  BY <1>2, <1>3 DEF GroupOK
<1> QED BY <1>1, <1>3, <1>4

\* revalidate_group keeps the invariant: a pending plan survives it, and was
\* a plan of this epoch under a current authority.
LEMMA RevalidateStep ==
  ASSUME IInv, NEW p \in Publisher, NEW g \in Group, NEW R \in SUBSET Member,
         NEW q \in Policy, NEW newSet \in BOOLEAN, revalidate_group(p, g, R, q, newSet)
  PROVE  IInv'
<1> DEFINE group    == groups[g]
           reproved == Reproved(group, R, q)
           members  == [m \in DOMAIN reproved.members |->
                          [reproved.members[m] EXCEPT !.cost_current = TRUE]]
           set      == IF newSet THEN set_generation ELSE reproved.multipath_generation
           causes   == reproved.currentness \ {"STALE_EPOCH", "FENCED_PUBLISHER",
                                               "REVALIDATION_REQUIRED", "STALE_COST_CLASS"}
           rebound  == [reproved EXCEPT !.multipath_generation = set, !.currentness = causes,
                                        !.members = members]
           edited   == Reobserved(g, rebound)
<1>1. /\ Live(p) /\ g \in Created /\ GroupOK(group) /\ PlanCurrent(group, epoch)
      /\ finish_group_mutation(p, g, edited, "REVALIDATE")
  <2>1. Preamble(p, g, "REVALIDATE") /\ finish_group_mutation(p, g, edited, "REVALIDATE")
    BY DEF revalidate_group, CanReprove
  <2> QED BY <2>1, EventGuards DEF GroupEvent, OrdinaryEvents
<1>2. TypeOK /\ q \in Nat /\ set_generation \in Nat
  BY ConstantsType, ObservationType DEF IInv
<1>3. /\ GroupOK(reproved) /\ reproved.plan = group.plan
      /\ reproved.currentness \subseteq group.currentness
  BY <1>1, <1>2, ReprovedInv
<1> HIDE DEF reproved
<1>4. MembersOK(members)
  <2>1. ASSUME NEW m \in DOMAIN reproved.members
        PROVE  [reproved.members[m] EXCEPT !.cost_current = TRUE] \in MemberEntry
    <3>1. reproved.members[m] \in MemberEntry
      BY <1>3 DEF GroupOK, MembersOK
    <3> QED BY <3>1 DEF MemberEntry
  <2> QED BY <1>3, <2>1 DEF GroupOK, MembersOK
<1>5. causes \subseteq group.currentness /\ causes \subseteq CurrentnessCause /\ set \in Nat
  BY <1>1, <1>2, <1>3 DEF GroupOK
<1> HIDE DEF members, causes, set
<1>6. GroupOK(rebound) /\ rebound.plan = group.plan /\ rebound.currentness = causes
  BY <1>3, <1>4, <1>5 DEF GroupOK
<1> HIDE DEF rebound
<1>7. /\ GroupOK(edited) /\ edited.plan = group.plan
      /\ authority_current(causes) => authority_current(edited.currentness)
  BY <1>6, ReobservedType
<1> HIDE DEF edited
<1>8. authority_current(group.currentness) => authority_current(causes)
  BY <1>5 DEF authority_current
<1>9. edited.plan # NoPlan => edited.plan.epoch = epoch /\ authority_current(edited.currentness)
  BY <1>1, <1>7, <1>8 DEF PlanCurrent
<1> QED BY <1>1, <1>7, <1>9, FinishStep DEF GroupEvent, OrdinaryEvents

\* A revalidation refused half way keeps the invariant, although nothing is
\* refreshed: the bindings it rewrote decide no state.
LEMMA RefuseRevalidationStep ==
  ASSUME IInv, NEW p \in Publisher, NEW g \in Group, NEW R \in SUBSET Member,
         NEW q \in Policy, RefuseRevalidation(p, g, R, q)
  PROVE  IInv'
<1> DEFINE new == Reproved(groups[g], R, q)
<1>1. /\ g \in Created /\ GroupOK(groups[g]) /\ GroupInv(groups[g], epoch)
      /\ groups' = [groups EXCEPT ![g] = new]
      /\ UNCHANGED <<registry, indexes, current_cost_policy, upstream, noticed>>
  BY DEF RefuseRevalidation, CanReprove, Preamble, IInv, TypeOK, GroupsInv
<1>2. /\ GroupOK(new) /\ GroupInv(new, epoch)
      /\ Declared(new.members) = Declared(groups[g].members)
      /\ new.authority_publisher = groups[g].authority_publisher
  <2>1. TypeOK /\ q \in Nat
    BY ConstantsType DEF IInv
  <2> QED BY <1>1, <2>1, ReprovedInv
<1> HIDE DEF new
<1>3. /\ Created' = Created /\ groups'[g] = new
      /\ \A h \in Created \ {g} : groups'[h] = groups[h]
      /\ groups' = [h \in Created' |-> groups'[h]]
  BY <1>1 DEF Created, IInv, TypeOK
<1>4. \A h \in Created' : GroupOK(groups'[h]) /\ GroupInv(groups'[h], epoch)
  BY <1>2, <1>3 DEF IInv, TypeOK, GroupsInv
<1>5. IndexesAgree'
  BY <1>1, <1>2, <1>3, SameIndexes DEF IInv, indexes
<1>6. TypeOK'
  BY <1>1, <1>3, <1>4 DEF IInv, TypeOK, registry, indexes, upstream
<1>7. GroupsInv'
  BY <1>1, <1>4 DEF GroupsInv, registry
<1> QED BY <1>5, <1>6, <1>7 DEF IInv

\* plan_rebalance keeps the invariant: the plan carries the current epoch, and
\* the lifecycle lets it through only under a current authority.
LEMMA PlanStep ==
  ASSUME IInv, NEW p \in Publisher, NEW g \in Group, NEW S \in SUBSET Member,
         NEW E \in SUBSET S, plan_rebalance(p, g, S, E)
  PROVE  IInv'
<1> DEFINE group   == groups[g]
           target  == Specs(S, E, group.policy)
           members == apply_target_set(group.members, target)
           altered == [group EXCEPT !.members = members]
           trial   == Refreshed(p, altered, "ADD_MEMBER")
           plan    == [from_membership |-> group.membership_generation,
                       from_assignment |-> group.assignment_generation,
                       from_authority  |-> group.authority_generation,
                       target_members  |-> target, assignment |-> trial.assignment,
                       epoch           |-> epoch]
           edited  == [group EXCEPT !.plan = plan]
<1>1. /\ Live(p) /\ g \in Created /\ GroupOK(group) /\ group.plan = NoPlan
      /\ authority_current(group.currentness)
      /\ finish_group_mutation(p, g, edited, "PLAN_REBALANCE")
  BY EventGuards DEF plan_rebalance, GroupEvent, PlanEvents
<1>2. TargetOK(target)
  <2>1. group.policy \in Nat
    BY <1>1 DEF GroupOK
  <2> QED BY <2>1, SpecsType DEF IInv
<1> HIDE DEF target
<1>3. MembersOK(members)
  BY <1>1, <1>2, ApplyTargetType DEF GroupOK
<1> HIDE DEF members
<1>4. GroupOK(altered) /\ altered.plan = NoPlan
  BY <1>1, <1>3, EntriesUpdate
<1> HIDE DEF altered
<1>5. trial.assignment \in Owners
  <2>1. GroupOK(trial)
    BY <1>1, <1>4, RefreshedInv DEF IInv, GroupEvent, OrdinaryEvents, MemberEvents
  <2> QED BY <2>1 DEF GroupOK
<1> HIDE DEF trial
<1>6. PlanOK(plan) /\ plan.epoch = epoch
  <2>1. epoch \in Nat \ {0}
    BY ObservationType DEF IInv
  <2> QED BY <1>1, <1>2, <1>5, <2>1 DEF PlanOK, GroupOK
<1>7. plan # NoPlan
  <2>1. plan.epoch # 0
    BY <1>6, ObservationType DEF IInv
  <2> QED BY <2>1 DEF NoPlan
<1> HIDE DEF plan
<1>8. GroupOK(edited) /\ edited.plan = plan /\ edited.currentness = group.currentness
  BY <1>1, <1>6 DEF GroupOK
<1> HIDE DEF edited
<1> QED BY <1>1, <1>6, <1>7, <1>8, FinishStep DEF GroupEvent, PlanEvents

\* commit_rebalance keeps the invariant: the target set of the plan is applied,
\* and the plan is gone.
LEMMA CommitStep ==
  ASSUME IInv, NEW p \in Publisher, NEW g \in Group, commit_rebalance(p, g)
  PROVE  IInv'
<1> DEFINE group   == groups[g]
           members == apply_target_set(group.members, group.plan.target_members)
           edited  == [group EXCEPT !.members = members, !.plan = NoPlan]
<1>1. /\ Live(p) /\ g \in Created /\ GroupOK(group) /\ group.plan # NoPlan
      /\ finish_group_mutation(p, g, edited, "COMMIT_REBALANCE")
  BY EventGuards DEF commit_rebalance, PlanMatches, GroupEvent, PlanEvents
<1>2. MembersOK(members)
  BY <1>1, ApplyTargetType DEF GroupOK, PlanOK
<1> HIDE DEF members
<1>3. GroupOK(edited) /\ edited.plan = NoPlan
  BY <1>1, <1>2 DEF GroupOK
<1> HIDE DEF edited
<1> QED BY <1>1, <1>3, FinishStep DEF GroupEvent, PlanEvents

\* abort_rebalance keeps the invariant: the plan is gone.
LEMMA AbortStep ==
  ASSUME IInv, NEW p \in Publisher, NEW g \in Group, abort_rebalance(p, g)
  PROVE  IInv'
<1> DEFINE edited == [groups[g] EXCEPT !.plan = NoPlan]
<1>1. /\ Live(p) /\ g \in Created /\ GroupOK(groups[g])
      /\ finish_group_mutation(p, g, edited, "ABORT_REBALANCE")
  BY EventGuards DEF abort_rebalance, GroupEvent, PlanEvents
<1>2. GroupOK(edited) /\ edited.plan = NoPlan
  BY <1>1 DEF GroupOK
<1> HIDE DEF edited
<1> QED BY <1>1, <1>2, FinishStep DEF GroupEvent, PlanEvents

\* withdraw_group keeps the invariant: nothing but the lifecycle closes.
LEMMA WithdrawStep ==
  ASSUME IInv, NEW p \in Publisher, NEW g \in Group, withdraw_group(p, g)
  PROVE  IInv'
<1>1. /\ Live(p) /\ g \in Created /\ GroupOK(groups[g])
      /\ finish_group_mutation(p, g, groups[g], "WITHDRAW")
  BY EventGuards DEF withdraw_group, GroupEvent, CloseEvents
<1> QED BY <1>1, FinishStep DEF GroupEvent, CloseEvents, ClosingEvents

\* What the closing operations make of a group is well formed.
LEMMA ClosedType ==
  ASSUME NEW group, GroupOK(group), NEW declared \in BOOLEAN, NEW enabled \in BOOLEAN,
         NEW plan \in {group.plan, NoPlan}
  PROVE  GroupOK([group EXCEPT !.members = AllMembers(@, declared, enabled), !.plan = plan,
                               !.currentness = @ \cup {"RETIRED"}])
<1> DEFINE members == AllMembers(group.members, declared, enabled)
           causes  == group.currentness \cup {"RETIRED"}
<1>1. MembersOK(members) /\ causes \subseteq CurrentnessCause
  BY AllMembersType DEF GroupOK, CurrentnessCause
<1>2. plan # NoPlan => PlanOK(plan)
  BY DEF GroupOK
<1> HIDE DEF members, causes
<1>3. GroupOK([group EXCEPT !.members = members, !.plan = plan, !.currentness = causes])
  BY <1>1, <1>2 DEF GroupOK
<1> QED BY <1>3 DEF members, causes

\* complete_withdrawal keeps the invariant: every member is withdrawn.
LEMMA CompleteWithdrawalStep ==
  ASSUME IInv, NEW p \in Publisher, NEW g \in Group, complete_withdrawal(p, g)
  PROVE  IInv'
<1> DEFINE edited == [groups[g] EXCEPT !.members = AllMembers(@, FALSE, TRUE),
                                       !.currentness = @ \cup {"RETIRED"}]
<1>1. /\ Live(p) /\ g \in Created /\ GroupOK(groups[g])
      /\ finish_group_mutation(p, g, edited, "COMPLETE_WITHDRAW")
  BY EventGuards DEF complete_withdrawal, GroupEvent
<1>2. edited = [groups[g] EXCEPT !.members = AllMembers(@, FALSE, TRUE), !.plan = groups[g].plan,
                                 !.currentness = @ \cup {"RETIRED"}]
  BY <1>1 DEF GroupOK
<1>3. GroupOK(edited)
  BY <1>1, <1>2, ClosedType
<1> HIDE DEF edited
<1> QED BY <1>1, <1>3, FinishStep DEF GroupEvent, ClosingEvents

\* revoke_group keeps the invariant: every member is disabled, a plan stays.
LEMMA RevokeStep ==
  ASSUME IInv, NEW p \in Publisher, NEW g \in Group, revoke_group(p, g)
  PROVE  IInv'
<1> DEFINE edited == [groups[g] EXCEPT !.members = AllMembers(@, TRUE, FALSE),
                                       !.currentness = @ \cup {"RETIRED"}]
<1>1. /\ Live(p) /\ g \in Created /\ GroupOK(groups[g])
      /\ finish_group_mutation(p, g, edited, "REVOKE")
  BY EventGuards DEF revoke_group, GroupEvent, CloseEvents
<1>2. edited = [groups[g] EXCEPT !.members = AllMembers(@, TRUE, FALSE), !.plan = groups[g].plan,
                                 !.currentness = @ \cup {"RETIRED"}]
  BY <1>1 DEF GroupOK
<1>3. GroupOK(edited)
  BY <1>1, <1>2, ClosedType
<1> HIDE DEF edited
<1> QED BY <1>1, <1>3, FinishStep DEF GroupEvent, CloseEvents, ClosingEvents

\* retire_group keeps the invariant: members and plan are gone.
LEMMA RetireStep ==
  ASSUME IInv, NEW p \in Publisher, NEW g \in Group, retire_group(p, g)
  PROVE  IInv'
<1> DEFINE edited == [groups[g] EXCEPT !.members = AllMembers(@, FALSE, FALSE), !.plan = NoPlan,
                                       !.currentness = @ \cup {"RETIRED"}]
<1>1. /\ Live(p) /\ g \in Created /\ GroupOK(groups[g])
      /\ finish_group_mutation(p, g, edited, "RETIRE")
  BY EventGuards DEF retire_group, GroupEvent, CloseEvents
<1>2. GroupOK(edited)
  BY <1>1, ClosedType
<1> HIDE DEF edited
<1> QED BY <1>1, <1>2, FinishStep DEF GroupEvent, CloseEvents, ClosingEvents

\* supersede_group keeps the invariant: the superseded group closes, and the
\* successor only learns its predecessor.
LEMMA SupersedeStep ==
  ASSUME IInv, NEW p \in Publisher, NEW g \in Group, NEW h \in Group, supersede_group(p, g, h)
  PROVE  IInv'
<1> DEFINE closed == [groups[g] EXCEPT !.members = AllMembers(@, TRUE, FALSE), !.plan = NoPlan,
                                       !.currentness = @ \cup {"RETIRED"}]
           edited == [groups[g] EXCEPT !.members = AllMembers(@, TRUE, FALSE), !.plan = NoPlan,
                                       !.currentness = @ \cup {"RETIRED"}, !.successor = h]
           refreshed == Refreshed(p, edited, "SUPERSEDE")
           final == [refreshed EXCEPT !.members = evict_withdrawn(@)]
           heir  == [groups[h] EXCEPT !.predecessor = g]
           next  == [groups EXCEPT ![g] = final, ![h].predecessor = g]
<1>1. /\ Live(p) /\ g \in Created /\ GroupOK(groups[g])
      /\ h # g /\ h \in Created /\ groups' = next /\ Reindex({g}, next)
      /\ UNCHANGED <<registry, total_members, current_cost_policy, upstream, noticed>>
  BY EventGuards DEF supersede_group, GroupEvent, CloseEvents, is_open
<1>2. GroupOK(edited)
  <2>1. GroupOK(closed)
    BY <1>1, ClosedType
  <2>2. edited = [closed EXCEPT !.successor = h]
    BY <1>1 DEF GroupOK
  <2> HIDE DEF closed, edited
  <2> QED BY <2>1, <2>2 DEF GroupOK
<1> HIDE DEF edited
<1>3. GroupOK(refreshed) /\ GroupInv(refreshed, epoch)
  BY <1>1, <1>2, RefreshedInv DEF IInv, GroupEvent, CloseEvents, ClosingEvents
<1> HIDE DEF refreshed
<1>4. GroupOK(final) /\ GroupInv(final, epoch)
  BY <1>3, EvictInv
<1> HIDE DEF final
<1>5. /\ Created' = Created /\ groups'[g] = final /\ groups'[h] = heir
      /\ \A k \in Created \ {g, h} : groups'[k] = groups[k]
      /\ groups' = [k \in Created' |-> groups'[k]]
  BY <1>1 DEF Created, IInv, TypeOK
<1>6. /\ GroupOK(heir) /\ heir.members = groups[h].members
      /\ heir.authority_publisher = groups[h].authority_publisher
      /\ heir.lifecycle = groups[h].lifecycle /\ heir.plan = groups[h].plan
      /\ heir.currentness = groups[h].currentness /\ heir.bound_epoch = groups[h].bound_epoch
  BY <1>1 DEF IInv, TypeOK, GroupOK
<1> HIDE DEF heir
<1>7. GroupInv(heir, epoch)
  <2>1. derived_lifecycle(heir) = derived_lifecycle(groups[h])
    BY <1>6 DEF derived_lifecycle
  <2> QED BY <1>1, <1>6, <2>1 DEF IInv, GroupsInv, GroupInv, PlanCurrent
<1>8. \A k \in Created' : GroupOK(groups'[k]) /\ GroupInv(groups'[k], epoch)
  BY <1>4, <1>5, <1>6, <1>7 DEF IInv, TypeOK, GroupsInv
<1>9. /\ IndexesAgree'
      /\ path_index' \in [Path -> SUBSET Group]
      /\ authority_index' \in [Publisher -> SUBSET Group]
  <2>1. {g} \subseteq Group /\ {g} \subseteq Created' /\ Created' = Created \cup {g}
    BY <1>1, <1>5
  <2>2. \A k \in Created \ {g} :
          /\ DeclaredPaths(groups'[k]) = DeclaredPaths(groups[k])
          /\ groups'[k].authority_publisher = groups[k].authority_publisher
    BY <1>5, <1>6 DEF DeclaredPaths
  <2>3. TypeOK /\ IndexesAgree /\ Reindex({g}, groups') /\ \A k \in Created' : GroupOK(groups'[k])
    BY <1>1, <1>8 DEF IInv
  <2> QED BY <2>1, <2>2, <2>3, ReindexAgrees
<1>10. TypeOK'
  BY <1>1, <1>5, <1>8, <1>9 DEF IInv, TypeOK, registry, upstream
<1>11. GroupsInv'
  BY <1>1, <1>8 DEF GroupsInv, registry
<1> QED BY <1>9, <1>10, <1>11 DEF IInv

-----------------------------------------------------------------------------
(* Operations on many groups at once.                                       *)

\* A refresh leaves the declared members, the owner and the binding alone.
LEMMA RefreshKeeps ==
  ASSUME NEW group, GroupOK(group), NEW event, NEW recompute \in BOOLEAN
  PROVE  LET final == refresh_group(group, event, recompute)
         IN  /\ Declared(final.members) = Declared(group.members)
             /\ final.authority_publisher = group.authority_publisher
<1> DEFINE members  == derive_members(group.members)
           declared == Declared(members)
           owners   == IF recompute
                       THEN compute_rebalance(group.assignment, active_members(members))
                       ELSE group.assignment
           settled  ==
             [group EXCEPT
                !.members = members,
                !.membership_generation = IF declared = group.declared_digest THEN @ ELSE @ + 1,
                !.declared_digest = declared,
                !.assignment_generation = IF owners = group.assignment THEN @ ELSE @ + 1,
                !.assignment = owners]
           final == refresh_group(group, event, recompute)
<1>1. final = [settled EXCEPT !.lifecycle = apply_group_event(event, derived_lifecycle(settled))]
  BY DEF refresh_group
<1>2. final.members = members /\ final.authority_publisher = group.authority_publisher
  <2> HIDE DEF members, declared, owners
  <2> QED BY <1>1 DEF GroupOK
<1>3. Declared(members) = Declared(group.members)
  BY DEF derive_members, Declared, GroupOK, MembersOK, MemberEntry
<1> HIDE DEF final, settled
<1> QED BY <1>2, <1>3 DEF final

\* An observation changes flags and upstream causes: not who is declared, not
\* the owner, the binding, the plan or the authority of the group.
SameStanding(group, altered) ==
  /\ GroupOK(altered)
  /\ altered.plan = group.plan
  /\ altered.bound_epoch = group.bound_epoch
  /\ altered.authority_publisher = group.authority_publisher
  /\ Declared(altered.members) = Declared(group.members)
  /\ altered.currentness \cap AuthorityCauses = group.currentness \cap AuthorityCauses

\* New flags and new upstream causes are such an observation.
LEMMA ObservedStanding ==
  ASSUME NEW group, GroupOK(group), NEW members, MembersOK(members),
         Declared(members) = Declared(group.members),
         NEW causes \in SUBSET CurrentnessCause,
         causes \cap AuthorityCauses = group.currentness \cap AuthorityCauses
  PROVE  SameStanding(group, [group EXCEPT !.members = members, !.currentness = causes])
BY DEF SameStanding, GroupOK

\* A notice leaves a group well formed and its states derived, whether it
\* altered the group or not.
LEMMA NoticedInv ==
  ASSUME IInv, NEW g \in Created, is_open(g), NEW altered, SameStanding(groups[g], altered),
         NEW event \in Invalidations
  PROVE  LET next == Noticed(g, altered, event)
         IN  /\ GroupOK(next) /\ GroupInv(next, epoch)
             /\ Declared(next.members) = Declared(groups[g].members)
             /\ next.authority_publisher = groups[g].authority_publisher
<1>1. GroupInv(groups[g], epoch) /\ GroupOK(altered) /\ groups[g].lifecycle \notin ClosedLifecycles
  BY DEF IInv, GroupsInv, SameStanding, is_open, is_administratively_closed
<1>2. CASE altered = groups[g]
  BY <1>1, <1>2 DEF Noticed
<1>3. CASE altered # groups[g]
  <2> DEFINE final == refresh_group(altered, event, TRUE)
  <2>1. /\ altered.bound_epoch # epoch => "STALE_EPOCH" \in altered.currentness
        /\ PlanCurrent(altered, epoch)
    BY <1>1 DEF GroupInv, SameStanding, PlanCurrent, authority_current, AuthorityCauses
  <2>2. event \in GroupEvent \ {"CREATE"} /\ event # "PLAN_REBALANCE"
    BY DEF Invalidations, GroupEvent, OrdinaryEvents
  <2>3. GroupOK(final) /\ GroupInv(final, epoch)
    BY <1>1, <2>1, <2>2, RefreshType, RefreshInv
  <2>4. /\ Declared(final.members) = Declared(altered.members)
        /\ final.authority_publisher = altered.authority_publisher
    BY <1>1, RefreshKeeps
  <2> QED BY <1>3, <2>3, <2>4 DEF Noticed, SameStanding
<1> QED BY <1>2, <1>3

\* Delivering well-formed values to some of the groups.
LEMMA DeliverStep ==
  ASSUME TypeOK, NEW ep, NEW next, DOMAIN next \subseteq Created,
         next = [g \in DOMAIN next |-> next[g]], Deliver(next),
         \A g \in DOMAIN next :
           /\ GroupOK(next[g]) /\ GroupInv(next[g], ep)
           /\ Declared(next[g].members) = Declared(groups[g].members)
           /\ next[g].authority_publisher = groups[g].authority_publisher,
         \A g \in Created \ DOMAIN next : GroupInv(groups[g], ep)
  PROVE  /\ Created' = Created
         /\ groups' = [g \in Created' |-> groups'[g]]
         /\ \A g \in Created' : GroupOK(groups'[g]) /\ GroupInv(groups'[g], ep)
         /\ \A g \in Created :
              /\ Declared(groups'[g].members) = Declared(groups[g].members)
              /\ groups'[g].authority_publisher = groups[g].authority_publisher
BY DEF Deliver, Created, TypeOK

\* Observing one path again is an observation.
LEMMA PathObservedStanding ==
  ASSUME NEW group, GroupOK(group), NEW path
  PROVE  SameStanding(group, PathObserved(group, path))
<1> DEFINE members == [m \in DOMAIN group.members |->
             LET entry == group.members[m] IN
             IF entry.declared /\ PathOf[m] = path
             THEN [entry EXCEPT !.path_current = PathProved(m, entry.bound)] ELSE entry]
           stale  == \E m \in Declared(members) : ~members[m].path_current
           causes == IF stale THEN group.currentness \cup {"STALE_PATH_AUTHORITY"}
                     ELSE group.currentness \ {"STALE_PATH_AUTHORITY"}
<1>1. PathObserved(group, path) = [group EXCEPT !.members = members, !.currentness = causes]
  BY DEF PathObserved, GroupOK
<1>2. \A m : PathProved(m, group.members[m].bound) \in BOOLEAN
  BY DEF PathProved
<1>3. MembersOK(members) /\ Declared(members) = Declared(group.members)
  BY <1>2 DEF GroupOK, MembersOK, MemberEntry, Declared
<1>4. causes \in SUBSET CurrentnessCause
      /\ causes \cap AuthorityCauses = group.currentness \cap AuthorityCauses
  BY DEF GroupOK, CurrentnessCause, AuthorityCauses
<1> HIDE DEF members, causes
<1>5. SameStanding(group, [group EXCEPT !.members = members, !.currentness = causes])
  BY <1>3, <1>4, ObservedStanding
<1> QED BY <1>1, <1>5

\* Clearing or setting the multipath flags is an observation.
LEMMA MultipathObservedStanding ==
  ASSUME NEW g, GroupOK(groups[g])
  PROVE  SameStanding(groups[g], MultipathObserved(g))
<1> DEFINE group == groups[g]
           stale == \/ group.multipath_generation # set_generation
                    \/ \E m \in Declared(group.members) :
                         ~SetProved(g, group.multipath_generation, m)
           had   == "STALE_MULTIPATH_SET" \in group.currentness
           lost  == [m \in DOMAIN group.members |->
                       IF group.members[m].declared
                       THEN [group.members[m] EXCEPT !.multipath_current = FALSE]
                       ELSE group.members[m]]
           kept  == [m \in DOMAIN group.members |->
                       [group.members[m] EXCEPT !.multipath_current = TRUE]]
           more  == group.currentness \cup {"STALE_MULTIPATH_SET"}
           less  == group.currentness \ {"STALE_MULTIPATH_SET"}
<1>1. MultipathObserved(g) \in
        {group, [group EXCEPT !.members = lost, !.currentness = more],
                [group EXCEPT !.members = kept, !.currentness = less]}
  <2>1. /\ [group EXCEPT !.members = lost, !.currentness = more]
             = [group EXCEPT !.currentness = more, !.members = lost]
        /\ [group EXCEPT !.members = kept, !.currentness = less]
             = [group EXCEPT !.currentness = less, !.members = kept]
    BY DEF GroupOK
  <2>2. CASE stale = had
    BY <2>2, Zenon DEF MultipathObserved
  <2>3. CASE stale /\ ~had
    BY <2>1, <2>3 DEF MultipathObserved, GroupOK
  <2>4. CASE ~stale /\ had
    BY <2>1, <2>4 DEF MultipathObserved, GroupOK
  <2>5. stale \in BOOLEAN /\ had \in BOOLEAN
    OBVIOUS
  <2> HIDE DEF stale, had, lost, kept, more, less
  <2> QED BY <2>2, <2>3, <2>4, <2>5
<1>2. /\ MembersOK(lost) /\ Declared(lost) = Declared(group.members)
      /\ MembersOK(kept) /\ Declared(kept) = Declared(group.members)
  <2>1. DOMAIN group.members \subseteq Member
        /\ \A m \in DOMAIN group.members : group.members[m] \in MemberEntry
    BY DEF GroupOK, MembersOK
  <2>2. ASSUME NEW m \in DOMAIN group.members, NEW flag \in BOOLEAN
        PROVE  LET entry == [group.members[m] EXCEPT !.multipath_current = flag]
               IN  entry \in MemberEntry /\ entry.declared = group.members[m].declared
    BY <2>1 DEF MemberEntry
  <2>3. /\ MembersOK(lost) /\ \A m \in DOMAIN lost : lost[m].declared = group.members[m].declared
        /\ MembersOK(kept) /\ \A m \in DOMAIN kept : kept[m].declared = group.members[m].declared
    BY <2>1, <2>2 DEF MembersOK
  <2>4. DOMAIN lost = DOMAIN group.members /\ DOMAIN kept = DOMAIN group.members
    OBVIOUS
  <2> HIDE DEF lost, kept
  <2> QED BY <2>3, <2>4 DEF Declared
<1>3. /\ more \in SUBSET CurrentnessCause /\ less \in SUBSET CurrentnessCause
      /\ more \cap AuthorityCauses = group.currentness \cap AuthorityCauses
      /\ less \cap AuthorityCauses = group.currentness \cap AuthorityCauses
  BY DEF GroupOK, CurrentnessCause, AuthorityCauses
<1>4. SameStanding(group, group)
  BY DEF SameStanding
<1> HIDE DEF lost, kept, more, less
<1>5. /\ SameStanding(group, [group EXCEPT !.members = lost, !.currentness = more])
      /\ SameStanding(group, [group EXCEPT !.members = kept, !.currentness = less])
  BY <1>2, <1>3, ObservedStanding
<1> QED BY <1>1, <1>4, <1>5

\* Clearing or setting the cost flags is an observation.
LEMMA CostObservedStanding ==
  ASSUME NEW group, GroupOK(group), NEW q
  PROVE  SameStanding(group, CostObserved(group, q))
<1> DEFINE stale == group.policy # q
           had   == "STALE_COST_CLASS" \in group.currentness
           lost  == [m \in DOMAIN group.members |->
                       IF group.members[m].declared
                       THEN [group.members[m] EXCEPT !.cost_current = FALSE]
                       ELSE group.members[m]]
           kept  == [m \in DOMAIN group.members |->
                       [group.members[m] EXCEPT !.cost_current = TRUE]]
           more  == group.currentness \cup {"STALE_COST_CLASS"}
           less  == group.currentness \ {"STALE_COST_CLASS"}
<1>1. CostObserved(group, q) \in
        {group, [group EXCEPT !.members = lost, !.currentness = more],
                [group EXCEPT !.members = kept, !.currentness = less]}
  <2>1. CASE stale = had
    BY <2>1 DEF CostObserved
  <2>2. CASE stale /\ ~had
    BY <2>2 DEF CostObserved, GroupOK
  <2>3. CASE ~stale /\ had
    BY <2>3 DEF CostObserved, GroupOK
  <2> QED BY <2>1, <2>2, <2>3
<1>2. /\ MembersOK(lost) /\ Declared(lost) = Declared(group.members)
      /\ MembersOK(kept) /\ Declared(kept) = Declared(group.members)
  <2>1. DOMAIN group.members \subseteq Member
        /\ \A m \in DOMAIN group.members : group.members[m] \in MemberEntry
    BY DEF GroupOK, MembersOK
  <2>2. ASSUME NEW m \in DOMAIN group.members, NEW flag \in BOOLEAN
        PROVE  LET entry == [group.members[m] EXCEPT !.cost_current = flag]
               IN  entry \in MemberEntry /\ entry.declared = group.members[m].declared
    BY <2>1 DEF MemberEntry
  <2>3. /\ MembersOK(lost) /\ \A m \in DOMAIN lost : lost[m].declared = group.members[m].declared
        /\ MembersOK(kept) /\ \A m \in DOMAIN kept : kept[m].declared = group.members[m].declared
    BY <2>1, <2>2 DEF MembersOK
  <2>4. DOMAIN lost = DOMAIN group.members /\ DOMAIN kept = DOMAIN group.members
    OBVIOUS
  <2> HIDE DEF lost, kept
  <2> QED BY <2>3, <2>4 DEF Declared
<1>3. /\ more \in SUBSET CurrentnessCause /\ less \in SUBSET CurrentnessCause
      /\ more \cap AuthorityCauses = group.currentness \cap AuthorityCauses
      /\ less \cap AuthorityCauses = group.currentness \cap AuthorityCauses
  BY DEF GroupOK, CurrentnessCause, AuthorityCauses
<1>4. SameStanding(group, group)
  BY DEF SameStanding
<1> HIDE DEF lost, kept, more, less
<1>5. /\ SameStanding(group, [group EXCEPT !.members = lost, !.currentness = more])
      /\ SameStanding(group, [group EXCEPT !.members = kept, !.currentness = less])
  BY <1>2, <1>3, ObservedStanding
<1> QED BY <1>1, <1>4, <1>5

\* A path notice keeps the invariant: every dependent is reindexed.
LEMMA PathNoticeStep ==
  ASSUME IInv, NEW p \in Publisher, NEW path \in Path, notify_path_authority_change(p, path)
  PROVE  IInv'
<1> DEFINE touched == Dependents(p, path_index[path])
           next == [g \in touched |->
                      Noticed(g, PathObserved(groups[g], path), "INVALIDATE_PATH")]
<1>1. /\ Deliver(next) /\ Reindex(touched, groups')
      /\ noticed' \subseteq noticed \cup {path}
      /\ UNCHANGED <<registry, total_members, current_cost_policy, upstream>>
  BY DEF notify_path_authority_change
<1>2. touched \subseteq Created /\ DOMAIN next = touched /\ \A g \in touched : is_open(g)
  BY DEF Dependents, is_open
<1>3. ASSUME NEW g \in touched
      PROVE  /\ GroupOK(next[g]) /\ GroupInv(next[g], epoch)
             /\ Declared(next[g].members) = Declared(groups[g].members)
             /\ next[g].authority_publisher = groups[g].authority_publisher
  <2>1. g \in Created /\ is_open(g) /\ SameStanding(groups[g], PathObserved(groups[g], path))
    BY <1>2, <1>3, PathObservedStanding DEF IInv, TypeOK
  <2>2. next[g] = Noticed(g, PathObserved(groups[g], path), "INVALIDATE_PATH")
    BY <1>3
  <2> QED BY <2>1, <2>2, NoticedInv DEF Invalidations
<1>4. next = [g \in DOMAIN next |-> next[g]]
  OBVIOUS
<1> HIDE DEF next
<1>5. /\ Created' = Created
      /\ groups' = [g \in Created' |-> groups'[g]]
      /\ \A g \in Created' : GroupOK(groups'[g]) /\ GroupInv(groups'[g], epoch)
      /\ \A g \in Created :
           /\ Declared(groups'[g].members) = Declared(groups[g].members)
           /\ groups'[g].authority_publisher = groups[g].authority_publisher
  <2>1. TypeOK /\ \A g \in Created \ DOMAIN next : GroupInv(groups[g], epoch)
    BY DEF IInv, GroupsInv
  <2> QED BY <1>1, <1>2, <1>3, <1>4, <2>1, DeliverStep
<1>6. /\ IndexesAgree'
      /\ path_index' \in [Path -> SUBSET Group]
      /\ authority_index' \in [Publisher -> SUBSET Group]
  <2>1. /\ touched \subseteq Group /\ touched \subseteq Created'
        /\ Created' = Created \cup touched
    BY <1>2, <1>5 DEF IInv, TypeOK
  <2>2. \A g \in Created \ touched :
          /\ DeclaredPaths(groups'[g]) = DeclaredPaths(groups[g])
          /\ groups'[g].authority_publisher = groups[g].authority_publisher
    BY <1>5 DEF DeclaredPaths
  <2>3. TypeOK /\ IndexesAgree /\ \A g \in Created' : GroupOK(groups'[g])
    BY <1>5 DEF IInv
  <2> QED BY <1>1, <2>1, <2>2, <2>3, ReindexAgrees
<1>7. TypeOK'
  BY <1>1, <1>5, <1>6 DEF IInv, TypeOK, registry, upstream
<1>8. GroupsInv'
  BY <1>1, <1>5 DEF GroupsInv, registry
<1> QED BY <1>6, <1>7, <1>8 DEF IInv

\* A multipath set notice keeps the invariant.
LEMMA MultipathNoticeStep ==
  ASSUME IInv, NEW p \in Publisher, notify_multipath_set_change(p)
  PROVE  IInv'
<1> DEFINE touched == Dependents(p, MultipathGroups)
           next == [g \in touched |-> Noticed(g, MultipathObserved(g), "INVALIDATE_MULTIPATH")]
<1>1. Deliver(next)
      /\ UNCHANGED <<registry, indexes, current_cost_policy, upstream, noticed>>
  BY DEF notify_multipath_set_change, IInv, TypeOK
<1>2. touched \subseteq Created /\ DOMAIN next = touched /\ \A g \in touched : is_open(g)
  BY DEF Dependents, is_open
<1>3. ASSUME NEW g \in touched
      PROVE  /\ GroupOK(next[g]) /\ GroupInv(next[g], epoch)
             /\ Declared(next[g].members) = Declared(groups[g].members)
             /\ next[g].authority_publisher = groups[g].authority_publisher
  <2>1. g \in Created /\ is_open(g) /\ SameStanding(groups[g], MultipathObserved(g))
    BY <1>2, <1>3, MultipathObservedStanding DEF IInv, TypeOK
  <2>2. next[g] = Noticed(g, MultipathObserved(g), "INVALIDATE_MULTIPATH")
    BY <1>3
  <2> QED BY <2>1, <2>2, NoticedInv DEF Invalidations
<1>4. next = [g \in DOMAIN next |-> next[g]]
  OBVIOUS
<1> HIDE DEF next
<1>5. /\ Created' = Created
      /\ groups' = [g \in Created' |-> groups'[g]]
      /\ \A g \in Created' : GroupOK(groups'[g]) /\ GroupInv(groups'[g], epoch)
      /\ \A g \in Created :
           /\ Declared(groups'[g].members) = Declared(groups[g].members)
           /\ groups'[g].authority_publisher = groups[g].authority_publisher
  <2>1. TypeOK /\ \A g \in Created \ DOMAIN next : GroupInv(groups[g], epoch)
    BY DEF IInv, GroupsInv
  <2> QED BY <1>1, <1>2, <1>3, <1>4, <2>1, DeliverStep
<1>6. IndexesAgree'
  BY <1>1, <1>5, SameIndexes DEF IInv, indexes
<1>7. TypeOK'
  BY <1>1, <1>5 DEF IInv, TypeOK, registry, indexes, upstream
<1>8. GroupsInv'
  BY <1>1, <1>5 DEF GroupsInv, registry
<1> QED BY <1>6, <1>7, <1>8 DEF IInv

\* A cost notice keeps the invariant.
LEMMA CostNoticeStep ==
  ASSUME IInv, NEW p \in Publisher, NEW q \in Policy, notify_cost_generation_change(p, q)
  PROVE  IInv'
<1> DEFINE touched == Dependents(p, Created)
           next == [g \in touched |->
                      Noticed(g, CostObserved(groups[g], q), "INVALIDATE_COST")]
<1>1. /\ Deliver(next) /\ current_cost_policy' = q
      /\ UNCHANGED <<registry, indexes, upstream, noticed>>
  BY DEF notify_cost_generation_change
<1>2. touched \subseteq Created /\ DOMAIN next = touched /\ \A g \in touched : is_open(g)
  BY DEF Dependents, is_open
<1>3. ASSUME NEW g \in touched
      PROVE  /\ GroupOK(next[g]) /\ GroupInv(next[g], epoch)
             /\ Declared(next[g].members) = Declared(groups[g].members)
             /\ next[g].authority_publisher = groups[g].authority_publisher
  <2>1. g \in Created /\ is_open(g) /\ SameStanding(groups[g], CostObserved(groups[g], q))
    BY <1>2, <1>3, CostObservedStanding DEF IInv, TypeOK
  <2>2. next[g] = Noticed(g, CostObserved(groups[g], q), "INVALIDATE_COST")
    BY <1>3
  <2> QED BY <2>1, <2>2, NoticedInv DEF Invalidations
<1>4. next = [g \in DOMAIN next |-> next[g]]
  OBVIOUS
<1> HIDE DEF next
<1>5. /\ Created' = Created
      /\ groups' = [g \in Created' |-> groups'[g]]
      /\ \A g \in Created' : GroupOK(groups'[g]) /\ GroupInv(groups'[g], epoch)
      /\ \A g \in Created :
           /\ Declared(groups'[g].members) = Declared(groups[g].members)
           /\ groups'[g].authority_publisher = groups[g].authority_publisher
  <2>1. TypeOK /\ \A g \in Created \ DOMAIN next : GroupInv(groups[g], epoch)
    BY DEF IInv, GroupsInv
  <2> QED BY <1>1, <1>2, <1>3, <1>4, <2>1, DeliverStep
<1>6. IndexesAgree'
  BY <1>1, <1>5, SameIndexes DEF IInv, indexes
<1>7. TypeOK'
  BY <1>1, <1>5 DEF IInv, TypeOK, registry, indexes, upstream
<1>8. GroupsInv'
  BY <1>1, <1>5 DEF GroupsInv, registry
<1> QED BY <1>6, <1>7, <1>8 DEF IInv

-----------------------------------------------------------------------------
(* Epochs, publishers and upstream domains.                                 *)

\* A disarmed group satisfies the invariant of an epoch as soon as STALE_EPOCH
\* is recorded when its binding is of another one: its plan is gone.
LEMMA DisarmedInv ==
  ASSUME NEW group, GroupOK(group), NEW cause \in {"STALE_EPOCH", "FENCED_PUBLISHER"}, NEW ep,
         group.bound_epoch # ep => cause = "STALE_EPOCH" \/ "STALE_EPOCH" \in group.currentness
  PROVE  LET next == Disarmed(group, cause)
         IN  /\ GroupOK(next) /\ GroupInv(next, ep)
             /\ Declared(next.members) = Declared(group.members)
             /\ next.authority_publisher = group.authority_publisher
<1> DEFINE causes  == group.currentness \cup {cause, "REVALIDATION_REQUIRED"}
           members == Unproven(group.members)
           bare    == [group EXCEPT !.currentness = causes, !.plan = NoPlan, !.members = members]
           final   == refresh_group(bare, "INVALIDATE_EPOCH", FALSE)
<1>1. Disarmed(group, cause) = final
  BY DEF Disarmed
<1>2. MembersOK(members) /\ Declared(members) = Declared(group.members)
  BY UnprovenType DEF GroupOK
<1>3. /\ causes \subseteq CurrentnessCause
      /\ group.bound_epoch # ep => "STALE_EPOCH" \in causes
  BY DEF GroupOK, CurrentnessCause
<1> HIDE DEF causes, members
<1>4. /\ GroupOK(bare) /\ bare.plan = NoPlan /\ bare.currentness = causes
      /\ bare.bound_epoch = group.bound_epoch /\ bare.members = members
      /\ bare.authority_publisher = group.authority_publisher
  BY <1>2, <1>3 DEF GroupOK
<1> HIDE DEF bare
<1>5. GroupOK(final) /\ GroupInv(final, ep)
  BY <1>3, <1>4, RefreshType, RefreshInv
     DEF PlanCurrent, GroupEvent, OrdinaryEvents, Invalidations
<1>6. /\ Declared(final.members) = Declared(bare.members)
      /\ final.authority_publisher = bare.authority_publisher
  BY <1>4, RefreshKeeps
<1> QED BY <1>1, <1>2, <1>4, <1>5, <1>6

\* set_epoch keeps the invariant: every open group is disarmed for the new epoch.
LEMMA SetEpochStep ==
  ASSUME IInv, set_epoch
  PROVE  IInv'
<1> DEFINE touched == {h \in Group : is_open(h)}
           counted(g) == [groups[g] EXCEPT !.authority_generation = @ + 1]
           next == [g \in touched |-> Disarmed(counted(g), "STALE_EPOCH")]
<1>1. /\ epoch' = epoch + 1 /\ epoch < MaxEpoch
      /\ publishers' = [p \in Publisher |-> NoBoot] /\ fenced_boots' = {}
      /\ Deliver(next)
      /\ UNCHANGED <<indexes, current_cost_policy, upstream, noticed>>
  BY DEF set_epoch
<1>2. touched \subseteq Created /\ DOMAIN next = touched
  BY DEF is_open
<1>3. ASSUME NEW g \in touched
      PROVE  /\ GroupOK(next[g]) /\ GroupInv(next[g], epoch')
             /\ Declared(next[g].members) = Declared(groups[g].members)
             /\ next[g].authority_publisher = groups[g].authority_publisher
  <2>1. GroupOK(groups[g])
    BY <1>2, <1>3 DEF IInv, TypeOK
  <2>2. groups[g].authority_generation + 1 \in Nat
    BY <2>1 DEF GroupOK
  <2>3. /\ GroupOK(counted(g)) /\ counted(g).members = groups[g].members
        /\ counted(g).authority_publisher = groups[g].authority_publisher
    BY <2>1, <2>2 DEF GroupOK
  <2>4. next[g] = Disarmed(counted(g), "STALE_EPOCH")
    BY <1>3
  <2> HIDE DEF counted, next
  <2> QED BY <2>3, <2>4, DisarmedInv
<1>4. next = [g \in DOMAIN next |-> next[g]]
  OBVIOUS
<1>5. ASSUME NEW g \in Created \ touched
      PROVE  GroupInv(groups[g], epoch')
  <2>1. groups[g].lifecycle \in ClosedLifecycles
    BY <1>5 DEF is_open, is_administratively_closed, IInv, TypeOK
  <2> QED BY <1>5, <2>1 DEF IInv, GroupsInv, GroupInv
<1> HIDE DEF next, touched
<1>6. /\ Created' = Created
      /\ groups' = [g \in Created' |-> groups'[g]]
      /\ \A g \in Created' : GroupOK(groups'[g]) /\ GroupInv(groups'[g], epoch')
      /\ \A g \in Created :
           /\ Declared(groups'[g].members) = Declared(groups[g].members)
           /\ groups'[g].authority_publisher = groups[g].authority_publisher
  BY <1>1, <1>2, <1>3, <1>4, <1>5, DeliverStep DEF IInv
<1>7. IndexesAgree'
  BY <1>1, <1>6, SameIndexes DEF IInv, indexes
<1>8. epoch' \in Epoch
  BY <1>1, ConfigurationAssumption DEF IInv, TypeOK, Epoch
<1>9. TypeOK'
  BY <1>1, <1>6, <1>8 DEF IInv, TypeOK, indexes, upstream
<1>10. GroupsInv'
  BY <1>6 DEF GroupsInv
<1> QED BY <1>7, <1>9, <1>10 DEF IInv

\* What keeps the epoch and the groups keeps the part of the invariant on them.
LEMMA SameGroups ==
  ASSUME IInv, UNCHANGED <<epoch, groups, path_index, authority_index>>
  PROVE  IndexesAgree' /\ GroupsInv'
BY DEF IInv, IndexesAgree, GroupsInv, Created

\* register_publisher keeps the invariant: it touches only the registry.
LEMMA RegisterStep ==
  ASSUME IInv, NEW p \in Publisher, NEW b \in Boot, register_publisher(p, b)
  PROVE  IInv'
<1>1. /\ publishers' \in [Publisher -> Boot \cup {NoBoot}]
      /\ fenced_boots' \subseteq Boot
      /\ UNCHANGED <<epoch, groups, indexes, current_cost_policy, upstream, noticed>>
  BY DEF register_publisher, IInv, TypeOK
<1>2. TypeOK'
  BY <1>1 DEF IInv, TypeOK, Created, indexes, upstream
<1> QED BY <1>1, <1>2, SameGroups DEF IInv, indexes

\* fence_publisher keeps the invariant: the groups of the boot are disarmed.
LEMMA FenceStep ==
  ASSUME IInv, NEW p \in Publisher, fence_publisher(p)
  PROVE  IInv'
<1> DEFINE touched == {h \in authority_index[p] :
                         groups[h].authority_boot = publishers[p] /\ is_open(h)}
           next == [g \in touched |-> Disarmed(groups[g], "FENCED_PUBLISHER")]
<1>1. /\ publishers' = [publishers EXCEPT ![p] = NoBoot]
      /\ fenced_boots' \subseteq Boot
      /\ Deliver(next)
      /\ UNCHANGED <<epoch, indexes, current_cost_policy, upstream, noticed>>
  BY DEF fence_publisher, IInv, TypeOK
<1>2. touched \subseteq Created /\ DOMAIN next = touched
  BY DEF is_open
<1>3. ASSUME NEW g \in touched
      PROVE  /\ GroupOK(next[g]) /\ GroupInv(next[g], epoch)
             /\ Declared(next[g].members) = Declared(groups[g].members)
             /\ next[g].authority_publisher = groups[g].authority_publisher
  <2>1. GroupOK(groups[g]) /\ GroupInv(groups[g], epoch)
        /\ groups[g].lifecycle \notin ClosedLifecycles
    BY <1>2, <1>3 DEF IInv, TypeOK, GroupsInv, is_open, is_administratively_closed
  <2>2. groups[g].bound_epoch # epoch => "STALE_EPOCH" \in groups[g].currentness
    BY <2>1 DEF GroupInv
  <2>3. next[g] = Disarmed(groups[g], "FENCED_PUBLISHER")
    BY <1>3
  <2> HIDE DEF next
  <2> QED BY <2>1, <2>2, <2>3, DisarmedInv
<1>4. next = [g \in DOMAIN next |-> next[g]]
  OBVIOUS
<1>5. \A g \in Created \ touched : GroupInv(groups[g], epoch)
  BY DEF IInv, GroupsInv
<1> HIDE DEF next, touched
<1>6. /\ Created' = Created
      /\ groups' = [g \in Created' |-> groups'[g]]
      /\ \A g \in Created' : GroupOK(groups'[g]) /\ GroupInv(groups'[g], epoch)
      /\ \A g \in Created :
           /\ Declared(groups'[g].members) = Declared(groups[g].members)
           /\ groups'[g].authority_publisher = groups[g].authority_publisher
  BY <1>1, <1>2, <1>3, <1>4, <1>5, DeliverStep DEF IInv
<1>7. IndexesAgree'
  BY <1>1, <1>6, SameIndexes DEF IInv, indexes
<1>8. TypeOK'
  BY <1>1, <1>6 DEF IInv, TypeOK, indexes, upstream
<1>9. GroupsInv'
  BY <1>1, <1>6 DEF GroupsInv
<1> QED BY <1>7, <1>8, <1>9 DEF IInv

\* The upstream domains change under the governor without touching its state.
LEMMA UpstreamStep ==
  ASSUME IInv, Upstream
  PROVE  IInv'
<1>1. UNCHANGED <<registry, groups, indexes, current_cost_policy>>
  BY DEF Upstream, PathMoves, PathAuthorization, SetMoves
<1> DEFINE Typed == /\ path_generation' \in [Path -> PathGeneration]
                    /\ authorized' \subseteq Path
                    /\ set_generation' \in SetGeneration
                    /\ noticed' \subseteq Path
<1>2. Typed
  <2>1. ASSUME NEW path \in Path, NEW generation \in PathGeneration, PathMoves(path, generation)
        PROVE  Typed
    BY <2>1 DEF PathMoves, IInv, TypeOK
  <2>2. ASSUME NEW path \in Path, PathAuthorization(path)
        PROVE  Typed
    BY <2>2 DEF PathAuthorization, IInv, TypeOK
  <2>3. ASSUME NEW generation \in SetGeneration, SetMoves(generation)
        PROVE  Typed
    BY <2>3 DEF SetMoves, IInv, TypeOK
  <2> QED BY <2>1, <2>2, <2>3 DEF Upstream
<1>3. TypeOK'
  BY <1>1, <1>2 DEF IInv, TypeOK, Created, registry, indexes
<1> QED BY <1>1, <1>3, SameGroups DEF IInv, registry, indexes

-----------------------------------------------------------------------------
(* The theorems.                                                            *)

\* The invariant holds of the empty governor.
LEMMA InitInv == Init => IInv
<1> SUFFICES ASSUME Init PROVE IInv
  OBVIOUS
<1>1. Created = {} /\ groups = [g \in Created |-> groups[g]]
  BY DEF Init, Created
<1>2. TypeOK
  <2>1. Created \subseteq Group /\ \A g \in Created : GroupOK(groups[g])
    BY <1>1
  <2>2. /\ epoch \in Epoch /\ set_generation \in SetGeneration
        /\ path_generation \in [Path -> PathGeneration]
    BY ConstantsType DEF Init
  <2>3. /\ path_index \in [Path -> SUBSET Group]
        /\ authority_index \in [Publisher -> SUBSET Group]
        /\ publishers \in [Publisher -> Boot \cup {NoBoot}]
    BY DEF Init
  <2>4. /\ fenced_boots \subseteq Boot /\ total_members \in Int
        /\ current_cost_policy \in Policy \cup {0}
        /\ authorized \subseteq Path /\ noticed \subseteq Path
    BY DEF Init
  <2> QED BY <1>1, <2>1, <2>2, <2>3, <2>4 DEF TypeOK
<1>3. IndexesAgree /\ GroupsInv
  BY <1>1 DEF Init, IndexesAgree, GroupsInv
<1> QED BY <1>2, <1>3 DEF IInv

\* Every operation of the governor, and every change around it, keeps the invariant.
LEMMA NextInv == IInv /\ [Next]_vars => IInv'
<1> SUFFICES ASSUME IInv, [Next]_vars PROVE IInv'
  OBVIOUS
<1>1. ASSUME NEW p \in Publisher, NEW g \in Group, Membership(p, g)
      PROVE  IInv'
  BY <1>1, CreateGroupStep, AddMemberStep, RemoveMemberStep, EnableMemberStep, DisableMemberStep,
     ApplyMembershipSetStep DEF Membership
<1>2. ASSUME NEW p \in Publisher, NEW g \in Group, Revalidation(p, g)
      PROVE  IInv'
  BY <1>2, RevalidateStep, RefuseRevalidationStep DEF Revalidation
<1>3. ASSUME NEW p \in Publisher, NEW g \in Group, Rebalance(p, g)
      PROVE  IInv'
  BY <1>3, PlanStep, CommitStep, AbortStep DEF Rebalance
<1>4. ASSUME NEW p \in Publisher, NEW g \in Group, Closing(p, g)
      PROVE  IInv'
  BY <1>4, WithdrawStep, CompleteWithdrawalStep, RevokeStep, RetireStep, SupersedeStep
     DEF Closing
<1>5. ASSUME NEW p \in Publisher, Notice(p)
      PROVE  IInv'
  BY <1>5, PathNoticeStep, MultipathNoticeStep, CostNoticeStep DEF Notice
<1>6. CASE Registry
  BY <1>6, SetEpochStep, RegisterStep, FenceStep DEF Registry
<1>7. CASE Upstream
  BY <1>7, UpstreamStep
<1>8. CASE UNCHANGED vars
  <2>1. IndexesAgree' /\ GroupsInv'
    BY <1>8, SameGroups DEF vars, registry, indexes
  <2>2. TypeOK'
    BY <1>8 DEF IInv, TypeOK, Created, vars, registry, indexes, upstream
  <2> QED BY <2>1, <2>2 DEF IInv
<1> QED BY <1>1, <1>2, <1>3, <1>4, <1>5, <1>6, <1>7, <1>8 DEF Next

\* The invariant is inductive, so it holds of every state the governor reaches.
THEOREM InvariantHolds == Spec => []IInv
BY InitInv, NextInv, PTL DEF Spec

\* Types: epochs, registry, groups, plans, generations and indexes keep the
\* shape GovernorState gives them, through every operation of the governor.
THEOREM TypeCorrect == Spec => []TypeOK
<1>1. IInv => TypeOK
  BY DEF IInv
<1> QED BY <1>1, InvariantHolds, PTL

\* The path index and the authority index, which create_group and
\* finish_group_mutation maintain incrementally, always list exactly the
\* dependent groups, so that notices and fences reach them all.
THEOREM IndexesAlwaysAgree == Spec => []IndexesAgree
<1>1. IInv => IndexesAgree
  BY DEF IInv
<1> QED BY <1>1, InvariantHolds, PTL

\* No operation changes a flag, a cause, a plan or a member and forgets
\* refresh_group: states of groups and members are always the derived ones.
THEOREM StatesAreDerived == Spec => []StateIsDerived
<1>1. IInv => StateIsDerived
  BY DEF IInv, GroupsInv, GroupInv, StateIsDerived, is_open, is_administratively_closed
<1> QED BY <1>1, InvariantHolds, PTL

\* After set_epoch no group is authoritative until an operation of the new
\* epoch binds it, whatever notices and mutations come in between.
THEOREM StaleEpochAlwaysDisarms == Spec => []StaleEpochDisarms
<1>1. ASSUME IInv, NEW g \in Created, is_open(g), groups[g].bound_epoch # epoch
      PROVE  /\ "STALE_EPOCH" \in groups[g].currentness
             /\ groups[g].lifecycle \notin AuthoritativeLifecycles
  <2>1. /\ "STALE_EPOCH" \in groups[g].currentness /\ groups[g].plan = NoPlan
        /\ groups[g].lifecycle = derived_lifecycle(groups[g])
    BY <1>1 DEF IInv, GroupsInv, GroupInv, PlanCurrent, is_open, is_administratively_closed
  <2>2. ~authority_current(groups[g].currentness)
    BY <2>1 DEF authority_current, AuthorityCauses
  <2>3. derived_lifecycle(groups[g]) \in {"DECLARED", "REVALIDATION_REQUIRED"}
    BY <2>1, <2>2 DEF derived_lifecycle, derive_lifecycle
  <2> QED BY <2>1, <2>3 DEF AuthoritativeLifecycles
<1>2. IInv => StaleEpochDisarms
  BY <1>1 DEF StaleEpochDisarms
<1> QED BY <1>2, InvariantHolds, PTL

\* Epoch advance and fencing leave no plan behind: a pending plan of an open
\* group is one of this epoch, under a current authority.
THEOREM PlansAreLive == Spec => []PlanIsLive
<1>1. ASSUME IInv, NEW g \in Created, is_open(g), groups[g].plan # NoPlan
      PROVE  /\ groups[g].lifecycle = "REBALANCING"
             /\ groups[g].plan.epoch = epoch
             /\ groups[g].bound_epoch = epoch
             /\ authority_current(groups[g].currentness)
  <2>1. groups[g].lifecycle = derived_lifecycle(groups[g]) /\ PlanCurrent(groups[g], epoch)
    BY <1>1 DEF IInv, GroupsInv, GroupInv, is_open, is_administratively_closed
  <2> QED BY <1>1, <2>1 DEF PlanCurrent, derived_lifecycle, derive_lifecycle
<1>2. IInv => PlanIsLive
  BY <1>1 DEF PlanIsLive
<1> QED BY <1>2, InvariantHolds, PTL

-----------------------------------------------------------------------------
(* The global member counter: each mutation adds the difference it makes to *)
(* one group, and every other operation leaves the declared members of      *)
(* every group as they were.                                                *)

DeclaredPairs == UNION {{g} \X Declared(groups[g].members) : g \in Created}

\* The counter counts a finite set.
CountInv == IsFiniteSet(DeclaredPairs) /\ total_members = Cardinality(DeclaredPairs)

\* The declared members of one group, as pairs, are as many.
LEMMA PairsOfGroup ==
  ASSUME NEW g, NEW D, IsFiniteSet(D)
  PROVE  IsFiniteSet({g} \X D) /\ Cardinality({g} \X D) = Cardinality(D)
<1>1. IsFiniteSet({g}) /\ Cardinality({g}) = 1 /\ Cardinality(D) \in Nat
  BY FS_Singleton, FS_CardinalityType
<1> QED BY <1>1, FS_Product

\* Disjoint sets add up.
LEMMA DisjointCount ==
  ASSUME NEW R, IsFiniteSet(R), NEW S, IsFiniteSet(S), R \cap S = {}
  PROVE  IsFiniteSet(R \cup S) /\ Cardinality(R \cup S) = Cardinality(R) + Cardinality(S)
<1>1. /\ IsFiniteSet(R \cup S)
      /\ Cardinality(R \cup S) = Cardinality(R) + Cardinality(S) - Cardinality(R \cap S)
  BY FS_Union
<1>2. Cardinality(R \cap S) = 0
  BY FS_EmptySet
<1>3. Cardinality(R) \in Nat /\ Cardinality(S) \in Nat
  BY FS_CardinalityType
<1> QED BY <1>1, <1>2, <1>3

\* The declared members of a group are finitely many.
LEMMA DeclaredFinite ==
  ASSUME NEW group, GroupOK(group)
  PROVE  IsFiniteSet(Declared(group.members))
<1>1. Declared(group.members) \in SUBSET Member
  BY DEF GroupOK, MembersOK, Declared
<1> QED BY <1>1, MemberAssumption, FS_Subset

-----------------------------------------------------------------------------
(* What a step may do to the count.                                         *)

\* Nobody is declared or withdrawn.
SameDeclared ==
  /\ Created' = Created /\ total_members' = total_members
  /\ \A g \in Created : Declared(groups'[g].members) = Declared(groups[g].members)

\* One group changes, and the counter by the difference; before, the group may
\* not have existed.
OneRecounted ==
  \E g \in Created' :
    LET before == IF g \in Created THEN Declared(groups[g].members) ELSE {}
    IN  /\ Created' = Created \cup {g}
        /\ \A h \in Created \ {g} : groups'[h] = groups[h]
        /\ total_members' = total_members + Cardinality(Declared(groups'[g].members))
                                          - Cardinality(before)

\* A step that declares nobody keeps the counter exact.
LEMMA SameCount ==
  ASSUME CountInv, SameDeclared
  PROVE  CountInv'
<1>1. DeclaredPairs' = DeclaredPairs
  BY DEF SameDeclared, DeclaredPairs
<1> QED BY <1>1 DEF CountInv, SameDeclared

\* So does one that recounts the group it changed.
LEMMA Recounted ==
  ASSUME IInv, IInv', CountInv, OneRecounted
  PROVE  CountInv'
<1>1. PICK g \in Created' :
        /\ Created' = Created \cup {g}
        /\ \A h \in Created \ {g} : groups'[h] = groups[h]
        /\ total_members' = total_members + Cardinality(Declared(groups'[g].members))
             - Cardinality(IF g \in Created THEN Declared(groups[g].members) ELSE {})
  BY DEF OneRecounted
<1> DEFINE before == IF g \in Created THEN Declared(groups[g].members) ELSE {}
           after  == Declared(groups'[g].members)
           rest   == UNION {{h} \X Declared(groups[h].members) : h \in Created \ {g}}
<1>2. IsFiniteSet(before) /\ IsFiniteSet(after)
  <2>1. GroupOK(groups'[g]) /\ (g \in Created => GroupOK(groups[g]))
    BY DEF IInv, TypeOK
  <2>2. IsFiniteSet(after)
    BY <2>1, DeclaredFinite
  <2>3. IsFiniteSet(before)
    BY <2>1, DeclaredFinite, FS_EmptySet
  <2> QED BY <2>2, <2>3
<1>3. /\ DeclaredPairs = rest \cup ({g} \X before)
      /\ DeclaredPairs' = rest \cup ({g} \X after)
      /\ rest \cap ({g} \X before) = {} /\ rest \cap ({g} \X after) = {}
  BY <1>1 DEF DeclaredPairs
<1> HIDE DEF before, after, rest
<1>4. /\ IsFiniteSet({g} \X before) /\ Cardinality({g} \X before) = Cardinality(before)
      /\ IsFiniteSet({g} \X after) /\ Cardinality({g} \X after) = Cardinality(after)
      /\ Cardinality(before) \in Nat /\ Cardinality(after) \in Nat
  BY <1>2, PairsOfGroup, FS_CardinalityType
<1>5. IsFiniteSet(rest) /\ Cardinality(rest) \in Nat
  <2>1. rest \in SUBSET DeclaredPairs
    BY <1>3
  <2> QED BY <2>1, FS_Subset, FS_CardinalityType DEF CountInv
<1>6. /\ Cardinality(DeclaredPairs) = Cardinality(rest) + Cardinality(before)
      /\ Cardinality(DeclaredPairs') = Cardinality(rest) + Cardinality(after)
      /\ IsFiniteSet(DeclaredPairs')
  <2> DEFINE old == {g} \X before
             new == {g} \X after
  <2>1. /\ DeclaredPairs = rest \cup old /\ DeclaredPairs' = rest \cup new
        /\ rest \cap old = {} /\ rest \cap new = {}
    BY <1>3
  <2>2. /\ IsFiniteSet(old) /\ Cardinality(old) = Cardinality(before)
        /\ IsFiniteSet(new) /\ Cardinality(new) = Cardinality(after)
    BY <1>4
  <2>3. IsFiniteSet(rest)
    BY <1>5
  <2> HIDE DEF old, new
  <2>4. Cardinality(rest \cup old) = Cardinality(rest) + Cardinality(old)
    BY <2>1, <2>2, <2>3, DisjointCount
  <2>5. /\ IsFiniteSet(rest \cup new)
        /\ Cardinality(rest \cup new) = Cardinality(rest) + Cardinality(new)
    BY <2>1, <2>2, <2>3, DisjointCount
  <2> QED BY <2>1, <2>2, <2>4, <2>5
<1>7. total_members' = total_members + Cardinality(after) - Cardinality(before)
  BY <1>1 DEF after, before
<1> QED BY <1>4, <1>5, <1>6, <1>7 DEF CountInv

-----------------------------------------------------------------------------
(* Every step is one or the other.                                          *)

\* Eviction forgets only members that are not declared.
LEMMA EvictDeclared ==
  ASSUME NEW members
  PROVE  Declared(evict_withdrawn(members)) = Declared(members)
BY DEF evict_withdrawn, Declared

\* Storing a group counts what the refreshed group declares.
LEMMA StoreCounts ==
  ASSUME IInv, NEW g \in Created, NEW refreshed, "members" \in DOMAIN refreshed,
         Store(g, refreshed)
  PROVE  OneRecounted
<1> DEFINE final == [refreshed EXCEPT !.members = evict_withdrawn(@)]
<1>1. /\ groups' = [groups EXCEPT ![g] = final]
      /\ total_members' = total_members + Cardinality(Declared(refreshed.members))
                                        - Cardinality(Declared(groups[g].members))
  BY DEF Store
<1>2. Declared(final.members) = Declared(refreshed.members)
  BY EvictDeclared
<1> HIDE DEF final
<1>3. /\ Created' = Created \cup {g} /\ groups'[g] = final
      /\ \A h \in Created \ {g} : groups'[h] = groups[h]
  BY <1>1 DEF Created
<1> QED BY <1>1, <1>2, <1>3 DEF OneRecounted

\* Whatever is refreshed has members.
LEMMA RefreshedMembers ==
  ASSUME NEW p, NEW group, "members" \in DOMAIN group, NEW event
  PROVE  "members" \in DOMAIN Refreshed(p, group, event)
<1>1. "members" \in DOMAIN bind_authority(group, p, publishers[p], epoch)
  BY DEF bind_authority
<1> HIDE DEF bind_authority
<1> QED BY <1>1 DEF Refreshed, refresh_group

\* The end of a mutation recounts its group.
LEMMA FinishCounts ==
  ASSUME IInv, NEW p, NEW g \in Created, NEW edited, DOMAIN edited = DOMAIN groups[g],
         NEW event, finish_group_mutation(p, g, edited, event)
  PROVE  OneRecounted
<1>1. "members" \in DOMAIN edited
  BY DEF IInv, TypeOK, GroupOK
<1> QED BY <1>1, RefreshedMembers, StoreCounts DEF finish_group_mutation

\* Membership operations.
LEMMA MembershipCounts ==
  ASSUME IInv, NEW p \in Publisher, NEW g \in Group, Membership(p, g)
  PROVE  OneRecounted
<1>1. ASSUME NEW S \in SUBSET Member, NEW E \in SUBSET S, NEW policy \in Policy,
             create_group(p, g, S, E, policy)
      PROVE  OneRecounted
  <2> DEFINE group == Refreshed(p, NewGroup(p, S, E, policy), "ADD_MEMBER")
  <2>1. /\ g \notin Created
        /\ groups' = [h \in Created \cup {g} |-> IF h = g THEN group ELSE groups[h]]
        /\ total_members' = total_members + Cardinality(Declared(group.members))
    BY <1>1 DEF create_group
  <2> HIDE DEF group
  <2>2. /\ Created' = Created \cup {g} /\ groups'[g] = group
        /\ \A h \in Created \ {g} : groups'[h] = groups[h]
    BY <2>1 DEF Created
  <2>3. Cardinality(Declared(group.members)) \in Nat
    <3>1. IInv'
      BY <1>1, CreateGroupStep
    <3>2. GroupOK(group)
      BY <2>2, <3>1 DEF IInv, TypeOK
    <3> QED BY <3>2, DeclaredType
  <2>4. Cardinality({}) = 0 /\ total_members \in Int
    BY FS_EmptySet DEF IInv, TypeOK
  <2>5. total_members' = total_members + Cardinality(Declared(group.members)) - Cardinality({})
    BY <2>1, <2>3, <2>4
  <2> QED BY <2>1, <2>2, <2>5 DEF OneRecounted
<1>2. ASSUME NEW m \in Member, NEW enabled \in BOOLEAN, add_member(p, g, m, enabled)
      PROVE  OneRecounted
  <2>1. PICK members : /\ g \in Created
                       /\ finish_group_mutation(p, g, [groups[g] EXCEPT !.members = members],
                                                "ADD_MEMBER")
    BY <1>2 DEF add_member, Preamble
  <2> QED BY <2>1, FinishCounts
<1>3. ASSUME NEW m \in Member, remove_member(p, g, m)
      PROVE  OneRecounted
  <2>1. PICK entry : /\ g \in Created
                     /\ finish_group_mutation(p, g, [groups[g] EXCEPT !.members[m] = entry],
                                              "REMOVE_MEMBER")
    BY <1>3 DEF remove_member, Preamble
  <2> QED BY <2>1, FinishCounts
<1>4. ASSUME NEW m \in Member, enable_member(p, g, m)
      PROVE  OneRecounted
  <2>1. PICK entry : /\ g \in Created
                     /\ finish_group_mutation(p, g, [groups[g] EXCEPT !.members[m] = entry],
                                              "ENABLE_MEMBER")
    BY <1>4 DEF enable_member, Preamble
  <2> QED BY <2>1, FinishCounts
<1>5. ASSUME NEW m \in Member, disable_member(p, g, m)
      PROVE  OneRecounted
  <2>1. /\ g \in Created
        /\ finish_group_mutation(p, g, [groups[g] EXCEPT !.members[m].enabled = FALSE],
                                 "DISABLE_MEMBER")
    BY <1>5 DEF disable_member, Preamble
  <2> QED BY <2>1, FinishCounts
<1>6. ASSUME NEW S \in SUBSET Member, NEW E \in SUBSET S, apply_membership_set(p, g, S, E)
      PROVE  OneRecounted
  <2> DEFINE target == Specs(S, E, groups[g].policy)
             edited == [groups[g] EXCEPT !.members = apply_target_set(@, target)]
  <2>1. g \in Created /\ Store(g, Refreshed(p, edited, "ADD_MEMBER"))
    BY <1>6 DEF apply_membership_set, Preamble
  <2>2. "members" \in DOMAIN edited
    BY <2>1 DEF IInv, TypeOK, GroupOK
  <2> HIDE DEF edited
  <2> QED BY <2>1, <2>2, RefreshedMembers, StoreCounts
<1> QED BY <1>1, <1>2, <1>3, <1>4, <1>5, <1>6 DEF Membership

\* Revalidations: one refused half way declares nobody and withdraws nobody.
LEMMA RevalidationCounts ==
  ASSUME IInv, NEW p \in Publisher, NEW g \in Group, Revalidation(p, g)
  PROVE  OneRecounted \/ SameDeclared
<1>1. ASSUME NEW R \in SUBSET Member, NEW q \in Policy, NEW newSet \in BOOLEAN,
             revalidate_group(p, g, R, q, newSet)
      PROVE  OneRecounted
  <2> DEFINE reproved == Reproved(groups[g], R, q)
             rebound  ==
               [reproved EXCEPT
                  !.multipath_generation = IF newSet THEN set_generation ELSE @,
                  !.currentness = @ \ {"STALE_EPOCH", "FENCED_PUBLISHER",
                                       "REVALIDATION_REQUIRED", "STALE_COST_CLASS"},
                  !.members = [m \in DOMAIN @ |-> [@[m] EXCEPT !.cost_current = TRUE]]]
             edited == Reobserved(g, rebound)
  <2>1. g \in Created /\ finish_group_mutation(p, g, edited, "REVALIDATE")
    BY <1>1 DEF revalidate_group, CanReprove, Preamble
  <2>2. DOMAIN rebound = DOMAIN groups[g]
    BY DEF Reproved
  <2> HIDE DEF rebound
  <2>3. DOMAIN edited = DOMAIN groups[g]
    BY <2>2 DEF Reobserved
  <2> HIDE DEF edited
  <2> QED BY <2>1, <2>3, FinishCounts
<1>2. ASSUME NEW R \in SUBSET Member, NEW q \in Policy, RefuseRevalidation(p, g, R, q)
      PROVE  SameDeclared
  <2> DEFINE new == Reproved(groups[g], R, q)
  <2>1. g \in Created /\ groups' = [groups EXCEPT ![g] = new] /\ total_members' = total_members
    BY <1>2 DEF RefuseRevalidation, CanReprove, Preamble, indexes
  <2>2. Declared(new.members) = Declared(groups[g].members)
    <3>1. TypeOK /\ q \in Nat /\ GroupOK(groups[g])
      BY <2>1, ConstantsType DEF IInv, TypeOK
    <3> QED BY <3>1, ReprovedInv
  <2> HIDE DEF new
  <2> QED BY <2>1, <2>2 DEF SameDeclared, Created
<1> QED BY <1>1, <1>2 DEF Revalidation

\* The operations of a plan: a commit declares its target, the others nobody.
LEMMA RebalanceCounts ==
  ASSUME IInv, NEW p \in Publisher, NEW g \in Group, Rebalance(p, g)
  PROVE  OneRecounted
<1>1. ASSUME NEW S \in SUBSET Member, NEW E \in SUBSET S, plan_rebalance(p, g, S, E)
      PROVE  OneRecounted
  <2>1. PICK plan : /\ g \in Created
                    /\ finish_group_mutation(p, g, [groups[g] EXCEPT !.plan = plan],
                                             "PLAN_REBALANCE")
    BY <1>1 DEF plan_rebalance, Preamble
  <2> QED BY <2>1, FinishCounts
<1>2. CASE commit_rebalance(p, g)
  <2> DEFINE edited == [groups[g] EXCEPT
                          !.members = apply_target_set(@, groups[g].plan.target_members),
                          !.plan = NoPlan]
  <2>1. g \in Created /\ finish_group_mutation(p, g, edited, "COMMIT_REBALANCE")
    BY <1>2 DEF commit_rebalance, Preamble
  <2> QED BY <2>1, FinishCounts
<1>3. CASE abort_rebalance(p, g)
  <2>1. /\ g \in Created
        /\ finish_group_mutation(p, g, [groups[g] EXCEPT !.plan = NoPlan], "ABORT_REBALANCE")
    BY <1>3 DEF abort_rebalance, Preamble
  <2> QED BY <2>1, FinishCounts
<1> QED BY <1>1, <1>2, <1>3 DEF Rebalance

\* Supersession disables the members of a group; it withdraws none, and so
\* leaves the counter alone.
LEMMA SupersedeCounts ==
  ASSUME IInv, NEW p \in Publisher, NEW g, NEW h, supersede_group(p, g, h)
  PROVE  SameDeclared
<1> DEFINE members == AllMembers(groups[g].members, TRUE, FALSE)
           edited  == [groups[g] EXCEPT !.members = AllMembers(@, TRUE, FALSE), !.plan = NoPlan,
                         !.currentness = @ \cup {"RETIRED"}, !.successor = h]
           bound   == bind_authority(edited, p, publishers[p], epoch)
           new     == refresh_group(bound, "SUPERSEDE", TRUE)
           final   == [new EXCEPT !.members = evict_withdrawn(@)]
<1>1. /\ g \in Created /\ h # g /\ h \in Created /\ GroupOK(groups[g]) /\ GroupOK(groups[h])
      /\ groups' = [groups EXCEPT ![g] = final, ![h].predecessor = g]
      /\ total_members' = total_members
  BY DEF supersede_group, Preamble, is_open, Refreshed, IInv, TypeOK
<1>2. /\ DOMAIN members = DOMAIN groups[g].members
      /\ \A m \in DOMAIN members : members[m].declared = groups[g].members[m].declared
                                   /\ "declared" \in DOMAIN members[m]
  <2>1. \A m \in DOMAIN groups[g].members : groups[g].members[m] \in MemberEntry
    BY <1>1 DEF GroupOK, MembersOK
  <2>2. ASSUME NEW entry \in MemberEntry
        PROVE  LET changed == [entry EXCEPT !.declared = @ /\ TRUE, !.enabled = FALSE]
               IN  changed.declared = entry.declared /\ "declared" \in DOMAIN changed
    BY DEF MemberEntry
  <2> QED BY <2>1, <2>2 DEF AllMembers
<1>3. /\ bound.members = members
      /\ "members" \in DOMAIN bound /\ "lifecycle" \in DOMAIN bound
  BY <1>1 DEF bind_authority, GroupOK
<1> HIDE DEF bound, members
<1>4. new.members = derive_members(members) /\ "members" \in DOMAIN new
  BY <1>3 DEF refresh_group
<1>5. Declared(derive_members(members)) = Declared(groups[g].members)
  BY <1>2 DEF derive_members, Declared
<1> HIDE DEF new
<1>6. Declared(final.members) = Declared(groups[g].members)
  BY <1>4, <1>5, EvictDeclared
<1> HIDE DEF final
<1>7. /\ Created' = Created /\ groups'[g] = final
      /\ groups'[h] = [groups[h] EXCEPT !.predecessor = g]
      /\ \A k \in Created \ {g, h} : groups'[k] = groups[k]
  BY <1>1 DEF Created
<1>8. groups'[h].members = groups[h].members
  BY <1>1, <1>7 DEF GroupOK
<1> QED BY <1>1, <1>6, <1>7, <1>8 DEF SameDeclared

\* The operations that close a group.
LEMMA ClosingCounts ==
  ASSUME IInv, NEW p \in Publisher, NEW g \in Group, Closing(p, g)
  PROVE  OneRecounted \/ SameDeclared
<1>1. CASE withdraw_group(p, g)
  BY <1>1, FinishCounts DEF withdraw_group, Preamble
<1>2. CASE complete_withdrawal(p, g)
  <2> DEFINE edited == [groups[g] EXCEPT !.members = AllMembers(@, FALSE, TRUE),
                                         !.currentness = @ \cup {"RETIRED"}]
  <2>1. g \in Created /\ finish_group_mutation(p, g, edited, "COMPLETE_WITHDRAW")
    BY <1>2 DEF complete_withdrawal, Preamble
  <2> QED BY <2>1, FinishCounts
<1>3. CASE revoke_group(p, g)
  <2> DEFINE edited == [groups[g] EXCEPT !.members = AllMembers(@, TRUE, FALSE),
                                         !.currentness = @ \cup {"RETIRED"}]
  <2>1. g \in Created /\ finish_group_mutation(p, g, edited, "REVOKE")
    BY <1>3 DEF revoke_group, Preamble
  <2> QED BY <2>1, FinishCounts
<1>4. CASE retire_group(p, g)
  <2> DEFINE edited == [groups[g] EXCEPT !.members = AllMembers(@, FALSE, FALSE),
                                         !.plan = NoPlan, !.currentness = @ \cup {"RETIRED"}]
  <2>1. g \in Created /\ finish_group_mutation(p, g, edited, "RETIRE")
    BY <1>4 DEF retire_group, Preamble
  <2> QED BY <2>1, FinishCounts
<1> QED BY <1>1, <1>2, <1>3, <1>4, SupersedeCounts DEF Closing

\* Groups delivered to keep their declared members.
LEMMA DeliverCounts ==
  ASSUME NEW next, Deliver(next), DOMAIN next \subseteq Created,
         total_members' = total_members,
         \A g \in DOMAIN next : Declared(next[g].members) = Declared(groups[g].members)
  PROVE  SameDeclared
BY DEF Deliver, SameDeclared, Created

\* A notice changes proofs and causes, never who is declared.
LEMMA NoticeCounts ==
  ASSUME IInv, NEW p \in Publisher, Notice(p)
  PROVE  SameDeclared
<1>1. ASSUME NEW path \in Path, notify_path_authority_change(p, path)
      PROVE  SameDeclared
  <2> DEFINE next == [g \in Dependents(p, path_index[path]) |->
                        Noticed(g, PathObserved(groups[g], path), "INVALIDATE_PATH")]
  <2>1. Deliver(next) /\ DOMAIN next \subseteq Created /\ total_members' = total_members
    BY <1>1 DEF notify_path_authority_change, Dependents, is_open
  <2>2. ASSUME NEW g \in DOMAIN next
        PROVE  Declared(next[g].members) = Declared(groups[g].members)
    <3>1. g \in Created /\ is_open(g) /\ SameStanding(groups[g], PathObserved(groups[g], path))
      BY <2>1, <2>2, PathObservedStanding DEF Dependents, IInv, TypeOK
    <3> QED BY <2>2, <3>1, NoticedInv DEF Invalidations
  <2> HIDE DEF next
  <2> QED BY <2>1, <2>2, DeliverCounts
<1>2. CASE notify_multipath_set_change(p)
  <2> DEFINE next == [g \in Dependents(p, MultipathGroups) |->
                        Noticed(g, MultipathObserved(g), "INVALIDATE_MULTIPATH")]
  <2>1. Deliver(next) /\ DOMAIN next \subseteq Created /\ total_members' = total_members
    BY <1>2 DEF notify_multipath_set_change, Dependents, is_open, indexes
  <2>2. ASSUME NEW g \in DOMAIN next
        PROVE  Declared(next[g].members) = Declared(groups[g].members)
    <3>1. g \in Created /\ is_open(g) /\ SameStanding(groups[g], MultipathObserved(g))
      BY <2>1, <2>2, MultipathObservedStanding DEF Dependents, IInv, TypeOK
    <3> QED BY <2>2, <3>1, NoticedInv DEF Invalidations
  <2> HIDE DEF next
  <2> QED BY <2>1, <2>2, DeliverCounts
<1>3. ASSUME NEW q \in Policy, notify_cost_generation_change(p, q)
      PROVE  SameDeclared
  <2> DEFINE next == [g \in Dependents(p, Created) |->
                        Noticed(g, CostObserved(groups[g], q), "INVALIDATE_COST")]
  <2>1. Deliver(next) /\ DOMAIN next \subseteq Created /\ total_members' = total_members
    BY <1>3 DEF notify_cost_generation_change, Dependents, is_open, indexes
  <2>2. ASSUME NEW g \in DOMAIN next
        PROVE  Declared(next[g].members) = Declared(groups[g].members)
    <3>1. g \in Created /\ is_open(g) /\ SameStanding(groups[g], CostObserved(groups[g], q))
      BY <2>1, <2>2, CostObservedStanding DEF Dependents, IInv, TypeOK
    <3> QED BY <2>2, <3>1, NoticedInv DEF Invalidations
  <2> HIDE DEF next
  <2> QED BY <2>1, <2>2, DeliverCounts
<1> QED BY <1>1, <1>2, <1>3 DEF Notice

\* A disarmed group keeps its declared members.
LEMMA DisarmedDeclared ==
  ASSUME NEW group, GroupOK(group), NEW cause \in {"STALE_EPOCH", "FENCED_PUBLISHER"}
  PROVE  Declared(Disarmed(group, cause).members) = Declared(group.members)
BY DisarmedInv

\* Nor do an epoch advance, a registration and a fence.
LEMMA RegistryCounts ==
  ASSUME IInv, Registry
  PROVE  SameDeclared
<1>1. CASE set_epoch
  <2> DEFINE counted(g) == [groups[g] EXCEPT !.authority_generation = @ + 1]
             next == [g \in {h \in Group : is_open(h)} |-> Disarmed(counted(g), "STALE_EPOCH")]
  <2>1. Deliver(next) /\ DOMAIN next \subseteq Created /\ total_members' = total_members
    BY <1>1 DEF set_epoch, is_open, indexes
  <2>2. ASSUME NEW g \in DOMAIN next
        PROVE  Declared(next[g].members) = Declared(groups[g].members)
    <3>1. GroupOK(groups[g])
      BY <2>1, <2>2 DEF IInv, TypeOK
    <3>2. groups[g].authority_generation + 1 \in Nat
      BY <3>1 DEF GroupOK
    <3>3. GroupOK(counted(g)) /\ counted(g).members = groups[g].members
      BY <3>1, <3>2 DEF GroupOK
    <3>4. next[g] = Disarmed(counted(g), "STALE_EPOCH")
      BY <2>2
    <3> HIDE DEF counted, next
    <3> QED BY <3>3, <3>4, DisarmedDeclared
  <2> HIDE DEF next
  <2> QED BY <2>1, <2>2, DeliverCounts
<1>2. ASSUME NEW p \in Publisher, NEW b \in Boot, register_publisher(p, b)
      PROVE  SameDeclared
  BY <1>2 DEF register_publisher, SameDeclared, Created, indexes
<1>3. ASSUME NEW p \in Publisher, fence_publisher(p)
      PROVE  SameDeclared
  <2> DEFINE next == [g \in {h \in authority_index[p] :
                               groups[h].authority_boot = publishers[p] /\ is_open(h)} |->
                        Disarmed(groups[g], "FENCED_PUBLISHER")]
  <2>1. Deliver(next) /\ DOMAIN next \subseteq Created /\ total_members' = total_members
    BY <1>3 DEF fence_publisher, is_open, indexes
  <2>2. ASSUME NEW g \in DOMAIN next
        PROVE  Declared(next[g].members) = Declared(groups[g].members)
    <3>1. GroupOK(groups[g])
      BY <2>1, <2>2 DEF IInv, TypeOK
    <3> QED BY <2>2, <3>1, DisarmedDeclared
  <2> HIDE DEF next
  <2> QED BY <2>1, <2>2, DeliverCounts
<1> QED BY <1>1, <1>2, <1>3 DEF Registry

\* Every step either recounts one group or declares nobody.
LEMMA NextCounts ==
  ASSUME IInv, [Next]_vars
  PROVE  OneRecounted \/ SameDeclared
<1>1. CASE Upstream \/ UNCHANGED vars
  BY <1>1 DEF Upstream, PathMoves, PathAuthorization, SetMoves, vars, SameDeclared, Created,
              indexes
<1>2. CASE Registry
  BY <1>2, RegistryCounts
<1>3. ASSUME NEW p \in Publisher, Notice(p)
      PROVE  SameDeclared
  BY <1>3, NoticeCounts
<1>4. ASSUME NEW p \in Publisher, NEW g \in Group,
             Membership(p, g) \/ Revalidation(p, g) \/ Rebalance(p, g) \/ Closing(p, g)
      PROVE  OneRecounted \/ SameDeclared
  BY <1>4, MembershipCounts, RevalidationCounts, RebalanceCounts, ClosingCounts
<1> QED BY <1>1, <1>2, <1>3, <1>4 DEF Next

-----------------------------------------------------------------------------
\* Nothing is counted in the empty governor.
LEMMA InitCount == Init => CountInv
<1> SUFFICES ASSUME Init PROVE CountInv
  OBVIOUS
<1>1. DeclaredPairs = {} /\ total_members = 0
  BY DEF Init, DeclaredPairs, Created
<1> QED BY <1>1, FS_EmptySet DEF CountInv

\* The counter that finish_group_mutation maintains by differences is, in every
\* state, the number of declared members of all groups: create_group and
\* add_member admit or refuse by the true total.
THEOREM TotalAlwaysDeclared == Spec => []TotalIsDeclared
<1>1. ASSUME IInv, CountInv, [Next]_vars
      PROVE  CountInv'
  <2>1. IInv'
    BY <1>1, NextInv
  <2> QED BY <1>1, <2>1, NextCounts, SameCount, Recounted
<1>2. CountInv => TotalIsDeclared
  BY DEF CountInv, DeclaredPairs, TotalIsDeclared
<1> QED BY <1>1, <1>2, InitCount, InvariantHolds, PTL DEF Spec
=============================================================================
