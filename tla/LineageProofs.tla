---------------------------- MODULE LineageProofs -----------------------------
(***************************************************************************)
(* Who a group is bound to, and what it supersedes, for every number of    *)
(* groups, publishers, boots and members: no operation but bind_authority  *)
(* writes a binding, none but supersede_group a lineage, and a superseded   *)
(* group never comes back.                                                 *)
(***************************************************************************)
EXTENDS GovernorProofs

-----------------------------------------------------------------------------
(* What a step may do to one group.                                         *)

\* The lineage and the binding of a group, which edits leave alone.
SameMarks(old, new) ==
  /\ DOMAIN new = DOMAIN old
  /\ new.successor = old.successor /\ new.predecessor = old.predecessor
  /\ Binding(new) = Binding(old)
  /\ new.authority_generation = old.authority_generation

\* A binding is the old one, or that of a live publisher, and counted.
BoundLive(old, new) ==
  Binding(new) # Binding(old) =>
    /\ new.authority_generation > old.authority_generation
    /\ new.bound_epoch = epoch
    /\ Live(new.authority_publisher)
    /\ publishers[new.authority_publisher] = new.authority_boot

\* The states a superseded group can be in.
Gone == {"SUPERSEDED", "RETIRED"}

Evolves(old, new) ==
  /\ new.successor = old.successor /\ new.predecessor = old.predecessor
  /\ old.lifecycle \in Gone => new.lifecycle \in Gone
  /\ BoundLive(old, new)

Evolution == Created' = Created /\ \A g \in Created : Evolves(groups[g], groups'[g])

\* What the invariant says of one group.
LEMMA GroupTyped ==
  ASSUME IInv, NEW g \in Created
  PROVE  GroupOK(groups[g])
BY DEF IInv, TypeOK

\* The fields of a group that this module is about.
Fields == {"lifecycle", "successor", "predecessor", "authority_generation", "bound_epoch",
           "authority_publisher", "authority_boot", "members", "membership_generation",
           "declared_digest", "assignment_generation", "assignment"}

\* Every group has those fields, and its authority generation is a number.
LEMMA FieldsOfGroup ==
  ASSUME NEW group, GroupOK(group)
  PROVE  Fields \subseteq DOMAIN group /\ group.authority_generation \in Nat
BY DEF GroupOK, Fields

\* A refresh keeps lineage and binding; a closing event puts the group in its state.
LEMMA RefreshMarks ==
  ASSUME NEW group, Fields \subseteq DOMAIN group, NEW event, NEW recompute \in BOOLEAN
  PROVE  /\ SameMarks(group, refresh_group(group, event, recompute))
         /\ event \in ClosingEvents =>
              refresh_group(group, event, recompute).lifecycle = EventTarget[event]
<1> DEFINE members  == derive_members(group.members)
           declared == Declared(members)
           owners   == IF recompute
                       THEN compute_rebalance(group.assignment, active_members(members))
                       ELSE group.assignment
           mg == IF declared = group.declared_digest THEN group.membership_generation
                 ELSE group.membership_generation + 1
           ag == IF owners = group.assignment THEN group.assignment_generation
                 ELSE group.assignment_generation + 1
           settled  ==
             [group EXCEPT
                !.members = members, !.membership_generation = mg, !.declared_digest = declared,
                !.assignment_generation = ag, !.assignment = owners]
           lifecycle == apply_group_event(event, derived_lifecycle(settled))
           final == [settled EXCEPT !.lifecycle = lifecycle]
<1>1. refresh_group(group, event, recompute) = final
  BY DEF refresh_group
<1>2. event \in ClosingEvents => lifecycle = EventTarget[event]
  BY DEF ClosingEvents, CloseEvents, apply_group_event, EventTarget
<1> HIDE DEF members, declared, owners, mg, ag, lifecycle
<1>3. SameMarks(group, final) /\ final.lifecycle = lifecycle
  BY DEF SameMarks, Fields, Binding
<1> QED BY <1>1, <1>2, <1>3

\* A group bound to a live publisher and refreshed: its lineage is kept, its
\* binding is kept or becomes that of the publisher, in this epoch.
LEMMA RefreshedMarks ==
  ASSUME NEW old, GroupOK(old), NEW edited, SameMarks(old, edited),
         NEW p \in Publisher, Live(p), NEW event
  PROVE  LET new == Refreshed(p, edited, event)
         IN  /\ DOMAIN new = DOMAIN old
             /\ new.successor = old.successor /\ new.predecessor = old.predecessor
             /\ BoundLive(old, new)
             /\ event \in ClosingEvents => new.lifecycle = EventTarget[event]
<1> DEFINE bound == bind_authority(edited, p, publishers[p], epoch)
           new   == refresh_group(bound, event, TRUE)
<1>1. Fields \subseteq DOMAIN edited /\ edited.authority_generation \in Nat
  BY FieldsOfGroup DEF SameMarks
<1>2. /\ DOMAIN bound = DOMAIN edited
      /\ bound.successor = edited.successor /\ bound.predecessor = edited.predecessor
      /\ \/ bound = edited
         \/ /\ bound.authority_generation = edited.authority_generation + 1
            /\ bound.bound_epoch = epoch
            /\ bound.authority_publisher = p /\ bound.authority_boot = publishers[p]
  BY <1>1 DEF bind_authority, Fields
<1> HIDE DEF bound
<1>3. SameMarks(bound, new) /\ (event \in ClosingEvents => new.lifecycle = EventTarget[event])
  BY <1>1, <1>2, RefreshMarks
<1> HIDE DEF new
<1>4. BoundLive(old, new)
  BY <1>1, <1>2, <1>3 DEF BoundLive, SameMarks, Binding
<1>5. new = Refreshed(p, edited, event)
  BY DEF Refreshed, new, bound
<1> QED BY <1>2, <1>3, <1>4, <1>5 DEF SameMarks

\* A group that is gone can only be retired, and a closing event is meant.
LEMMA GoneStays ==
  ASSUME NEW p, NEW g, NEW event, Preamble(p, g, event), groups[g].lifecycle \in Gone
  PROVE  event \in ClosingEvents /\ EventTarget[event] \in Gone
BY DEF Preamble, lifecycle_allows, AllowedEvents, Gone, ClosingEvents, CloseEvents, EventTarget

\* Storing the refresh of an edited group is such a step.
LEMMA StoreEvolves ==
  ASSUME IInv, NEW p \in Publisher, NEW g, NEW event, Preamble(p, g, event),
         NEW edited, SameMarks(groups[g], edited), Store(g, Refreshed(p, edited, event))
  PROVE  Evolution
<1> DEFINE new   == Refreshed(p, edited, event)
           final == [new EXCEPT !.members = evict_withdrawn(@)]
<1>1. Live(p) /\ g \in Created /\ GroupOK(groups[g])
  BY GroupTyped DEF Preamble
<1>2. /\ Fields \subseteq DOMAIN groups[g] /\ DOMAIN new = DOMAIN groups[g]
      /\ new.successor = groups[g].successor /\ new.predecessor = groups[g].predecessor
      /\ BoundLive(groups[g], new)
      /\ event \in ClosingEvents => new.lifecycle = EventTarget[event]
  BY <1>1, RefreshedMarks, FieldsOfGroup
<1>3. groups' = [groups EXCEPT ![g] = final]
  BY DEF Store
<1> HIDE DEF new
<1>4. SameMarks(new, final) /\ final.lifecycle = new.lifecycle
  BY <1>2 DEF SameMarks, Binding, Fields
<1> HIDE DEF final
<1>5. Evolves(groups[g], final)
  BY <1>2, <1>4, GoneStays DEF Evolves, BoundLive, SameMarks, Binding
<1>6. \A h \in Created : Evolves(groups[h], groups[h])
  BY DEF Evolves, BoundLive
<1> QED BY <1>1, <1>3, <1>5, <1>6 DEF Evolution, Created

\* The end of a mutation, for an edit that leaves lineage and binding alone.
LEMMA FinishEvolves ==
  ASSUME IInv, NEW p \in Publisher, NEW g, NEW event, Preamble(p, g, event),
         NEW edited, SameMarks(groups[g], edited), finish_group_mutation(p, g, edited, event)
  PROVE  Evolution
BY StoreEvolves DEF finish_group_mutation

-----------------------------------------------------------------------------
(* One step per operation.                                                  *)

\* Membership operations on a group that exists.
LEMMA MembershipEvolves ==
  ASSUME IInv, NEW p \in Publisher, NEW g \in Group,
         \/ \E m \in Member, enabled \in BOOLEAN : add_member(p, g, m, enabled)
         \/ \E m \in Member : \/ remove_member(p, g, m) \/ enable_member(p, g, m)
                              \/ disable_member(p, g, m)
         \/ \E S \in SUBSET Member : \E E \in SUBSET S : apply_membership_set(p, g, S, E)
  PROVE  Evolution
<1>1. ASSUME NEW members, g \in Created
      PROVE  SameMarks(groups[g], [groups[g] EXCEPT !.members = members])
  BY <1>1, GroupTyped, FieldsOfGroup DEF SameMarks, Binding, Fields
<1>2. ASSUME NEW m \in Member, NEW enabled \in BOOLEAN, add_member(p, g, m, enabled)
      PROVE  Evolution
  <2> DEFINE spec == [enabled |-> enabled, bound |-> path_generation[PathOf[m]],
                      policy |-> groups[g].policy]
             members == [k \in DOMAIN groups[g].members \cup {m} |->
                           IF k = m THEN make_entry(spec) ELSE groups[g].members[k]]
             edited == [groups[g] EXCEPT !.members = members]
  <2>1. /\ Preamble(p, g, "ADD_MEMBER") /\ g \in Created
        /\ finish_group_mutation(p, g, edited, "ADD_MEMBER")
    BY <1>2 DEF add_member, Preamble
  <2>2. SameMarks(groups[g], edited)
    BY <1>1, <2>1
  <2> HIDE DEF edited
  <2> QED BY <2>1, <2>2, FinishEvolves
<1>3. ASSUME NEW m \in Member, remove_member(p, g, m)
      PROVE  Evolution
  <2> DEFINE edited == [groups[g] EXCEPT !.members[m] =
                          [@ EXCEPT !.declared = FALSE, !.enabled = TRUE, !.path_current = TRUE,
                                    !.multipath_current = TRUE, !.cost_current = TRUE]]
  <2>1. /\ Preamble(p, g, "REMOVE_MEMBER") /\ g \in Created
        /\ finish_group_mutation(p, g, edited, "REMOVE_MEMBER")
    BY <1>3 DEF remove_member, Preamble
  <2>2. SameMarks(groups[g], edited)
    BY <1>1, <2>1
  <2> HIDE DEF edited
  <2> QED BY <2>1, <2>2, FinishEvolves
<1>4. ASSUME NEW m \in Member, enable_member(p, g, m)
      PROVE  Evolution
  <2> DEFINE edited == [groups[g] EXCEPT !.members[m] =
                          [@ EXCEPT !.enabled = TRUE, !.path_current = TRUE,
                                    !.multipath_current = TRUE, !.cost_current = TRUE]]
  <2>1. /\ Preamble(p, g, "ENABLE_MEMBER") /\ g \in Created
        /\ finish_group_mutation(p, g, edited, "ENABLE_MEMBER")
    BY <1>4 DEF enable_member, Preamble
  <2>2. SameMarks(groups[g], edited)
    BY <1>1, <2>1
  <2> HIDE DEF edited
  <2> QED BY <2>1, <2>2, FinishEvolves
<1>5. ASSUME NEW m \in Member, disable_member(p, g, m)
      PROVE  Evolution
  <2> DEFINE edited == [groups[g] EXCEPT !.members[m].enabled = FALSE]
  <2>1. /\ Preamble(p, g, "DISABLE_MEMBER") /\ g \in Created
        /\ finish_group_mutation(p, g, edited, "DISABLE_MEMBER")
    BY <1>5 DEF disable_member, Preamble
  <2>2. SameMarks(groups[g], edited)
    BY <1>1, <2>1
  <2> HIDE DEF edited
  <2> QED BY <2>1, <2>2, FinishEvolves
<1>6. ASSUME NEW S \in SUBSET Member, NEW E \in SUBSET S, apply_membership_set(p, g, S, E)
      PROVE  Evolution
  <2> DEFINE target == Specs(S, E, groups[g].policy)
             edited == [groups[g] EXCEPT !.members = apply_target_set(@, target)]
  <2>1. /\ Preamble(p, g, "ADD_MEMBER") /\ g \in Created
        /\ Store(g, Refreshed(p, edited, "ADD_MEMBER"))
    BY <1>6 DEF apply_membership_set, Preamble
  <2>2. SameMarks(groups[g], edited)
    BY <1>1, <2>1
  <2> HIDE DEF edited
  <2> QED BY <2>1, <2>2, StoreEvolves
<1> QED BY <1>2, <1>3, <1>4, <1>5, <1>6

\* Re-proving members edits no lineage and no binding.
LEMMA ReprovedMarks ==
  ASSUME NEW group, GroupOK(group), NEW R, NEW q
  PROVE  SameMarks(group, Reproved(group, R, q))
         /\ Reproved(group, R, q).lifecycle = group.lifecycle
BY FieldsOfGroup DEF Reproved, SameMarks, Binding, Fields

\* A revalidation, accepted or refused half way.
LEMMA RevalidationEvolves ==
  ASSUME IInv, NEW p \in Publisher, NEW g \in Group, Revalidation(p, g)
  PROVE  Evolution
<1>1. PICK R \in SUBSET Member, q \in Policy :
        \/ \E newSet \in BOOLEAN : revalidate_group(p, g, R, q, newSet)
        \/ RefuseRevalidation(p, g, R, q)
  BY DEF Revalidation
<1> DEFINE reproved == Reproved(groups[g], R, q)
<1>2. Preamble(p, g, "REVALIDATE") /\ g \in Created
  BY <1>1 DEF revalidate_group, RefuseRevalidation, CanReprove, Preamble
<1>3. /\ SameMarks(groups[g], reproved) /\ reproved.lifecycle = groups[g].lifecycle
      /\ Fields \subseteq DOMAIN groups[g]
  BY <1>2, GroupTyped, FieldsOfGroup, ReprovedMarks
<1>4. ASSUME NEW newSet \in BOOLEAN, revalidate_group(p, g, R, q, newSet)
      PROVE  Evolution
  <2> DEFINE rebound ==
               [reproved EXCEPT
                  !.multipath_generation = IF newSet THEN set_generation ELSE @,
                  !.currentness = @ \ {"STALE_EPOCH", "FENCED_PUBLISHER",
                                       "REVALIDATION_REQUIRED", "STALE_COST_CLASS"},
                  !.members = [m \in DOMAIN @ |-> [@[m] EXCEPT !.cost_current = TRUE]]]
             edited == Reobserved(g, rebound)
  <2>1. finish_group_mutation(p, g, edited, "REVALIDATE")
    BY <1>4 DEF revalidate_group
  <2>2. SameMarks(groups[g], rebound)
    <3> HIDE DEF reproved
    <3> QED BY <1>3 DEF SameMarks, Binding, Fields
  <2> HIDE DEF rebound
  <2>3. SameMarks(groups[g], edited)
    BY <1>3, <2>2 DEF Reobserved, SameMarks, Binding, Fields
  <2> HIDE DEF edited
  <2> QED BY <1>2, <2>1, <2>3, FinishEvolves
<1>5. CASE RefuseRevalidation(p, g, R, q)
  <2>1. groups' = [groups EXCEPT ![g] = reproved]
    BY <1>5 DEF RefuseRevalidation
  <2> HIDE DEF reproved
  <2>2. Evolves(groups[g], reproved) /\ \A h \in Created : Evolves(groups[h], groups[h])
    BY <1>3 DEF Evolves, BoundLive, SameMarks
  <2> QED BY <1>2, <2>1, <2>2 DEF Evolution, Created
<1> QED BY <1>1, <1>4, <1>5

\* Plans.
LEMMA RebalanceEvolves ==
  ASSUME IInv, NEW p \in Publisher, NEW g \in Group, Rebalance(p, g)
  PROVE  Evolution
<1>1. ASSUME NEW plan, g \in Created
      PROVE  SameMarks(groups[g], [groups[g] EXCEPT !.plan = plan])
  BY <1>1, GroupTyped, FieldsOfGroup DEF SameMarks, Binding, Fields
<1>2. ASSUME NEW S \in SUBSET Member, NEW E \in SUBSET S, plan_rebalance(p, g, S, E)
      PROVE  Evolution
  <2>1. PICK plan : /\ Preamble(p, g, "PLAN_REBALANCE") /\ g \in Created
                    /\ finish_group_mutation(p, g, [groups[g] EXCEPT !.plan = plan],
                                             "PLAN_REBALANCE")
    BY <1>2 DEF plan_rebalance, Preamble
  <2> QED BY <1>1, <2>1, FinishEvolves
<1>3. CASE commit_rebalance(p, g)
  <2> DEFINE edited == [groups[g] EXCEPT
                          !.members = apply_target_set(@, groups[g].plan.target_members),
                          !.plan = NoPlan]
  <2>1. /\ Preamble(p, g, "COMMIT_REBALANCE") /\ g \in Created
        /\ finish_group_mutation(p, g, edited, "COMMIT_REBALANCE")
    BY <1>3 DEF commit_rebalance, Preamble
  <2>2. SameMarks(groups[g], edited)
    BY <2>1, GroupTyped, FieldsOfGroup DEF SameMarks, Binding, Fields
  <2> HIDE DEF edited
  <2> QED BY <2>1, <2>2, FinishEvolves
<1>4. CASE abort_rebalance(p, g)
  <2>1. /\ Preamble(p, g, "ABORT_REBALANCE") /\ g \in Created
        /\ finish_group_mutation(p, g, [groups[g] EXCEPT !.plan = NoPlan], "ABORT_REBALANCE")
    BY <1>4 DEF abort_rebalance, Preamble
  <2> QED BY <1>1, <2>1, FinishEvolves
<1> QED BY <1>2, <1>3, <1>4 DEF Rebalance

\* The closing operations but supersession.
LEMMA ClosingEvolves ==
  ASSUME IInv, NEW p \in Publisher, NEW g \in Group,
         \/ withdraw_group(p, g) \/ complete_withdrawal(p, g)
         \/ revoke_group(p, g) \/ retire_group(p, g)
  PROVE  Evolution
<1>1. ASSUME NEW members, NEW causes, NEW plan, g \in Created
      PROVE  /\ SameMarks(groups[g], groups[g])
             /\ SameMarks(groups[g], [groups[g] EXCEPT !.members = members,
                                                       !.currentness = causes])
             /\ SameMarks(groups[g], [groups[g] EXCEPT !.members = members, !.plan = plan,
                                                       !.currentness = causes])
  BY <1>1, GroupTyped, FieldsOfGroup DEF SameMarks, Binding, Fields
<1>2. CASE withdraw_group(p, g)
  <2>1. /\ Preamble(p, g, "WITHDRAW") /\ g \in Created
        /\ finish_group_mutation(p, g, groups[g], "WITHDRAW")
    BY <1>2 DEF withdraw_group, Preamble
  <2> QED BY <1>1, <2>1, FinishEvolves
<1>3. CASE complete_withdrawal(p, g)
  <2> DEFINE edited == [groups[g] EXCEPT !.members = AllMembers(@, FALSE, TRUE),
                                         !.currentness = @ \cup {"RETIRED"}]
  <2>1. /\ Preamble(p, g, "COMPLETE_WITHDRAW") /\ g \in Created
        /\ finish_group_mutation(p, g, edited, "COMPLETE_WITHDRAW")
    BY <1>3 DEF complete_withdrawal, Preamble
  <2>2. SameMarks(groups[g], edited)
    BY <1>1, <2>1
  <2> HIDE DEF edited
  <2> QED BY <2>1, <2>2, FinishEvolves
<1>4. CASE revoke_group(p, g)
  <2> DEFINE edited == [groups[g] EXCEPT !.members = AllMembers(@, TRUE, FALSE),
                                         !.currentness = @ \cup {"RETIRED"}]
  <2>1. /\ Preamble(p, g, "REVOKE") /\ g \in Created
        /\ finish_group_mutation(p, g, edited, "REVOKE")
    BY <1>4 DEF revoke_group, Preamble
  <2>2. SameMarks(groups[g], edited)
    BY <1>1, <2>1
  <2> HIDE DEF edited
  <2> QED BY <2>1, <2>2, FinishEvolves
<1>5. CASE retire_group(p, g)
  <2> DEFINE edited == [groups[g] EXCEPT !.members = AllMembers(@, FALSE, FALSE),
                                         !.plan = NoPlan, !.currentness = @ \cup {"RETIRED"}]
  <2>1. /\ Preamble(p, g, "RETIRE") /\ g \in Created
        /\ finish_group_mutation(p, g, edited, "RETIRE")
    BY <1>5 DEF retire_group, Preamble
  <2>2. SameMarks(groups[g], edited)
    BY <1>1, <2>1
  <2> HIDE DEF edited
  <2> QED BY <2>1, <2>2, FinishEvolves
<1> QED BY <1>2, <1>3, <1>4, <1>5

\* Groups that get a next value of their own, others that keep theirs.
LEMMA DeliverEvolves ==
  ASSUME IInv, NEW next, Deliver(next), DOMAIN next \subseteq Created,
         \A g \in DOMAIN next : Evolves(groups[g], next[g])
  PROVE  Evolution
<1>1. \A g \in Created : Evolves(groups[g], groups[g])
  BY DEF Evolves, BoundLive
<1> QED BY <1>1 DEF Deliver, Evolution, Created

\* A notice to a group does not rebind it to the publisher that reports it.
LEMMA NoticedEvolves ==
  ASSUME NEW g, GroupOK(groups[g]), is_open(g), NEW altered, SameMarks(groups[g], altered),
         NEW event
  PROVE  Evolves(groups[g], Noticed(g, altered, event))
<1>1. Fields \subseteq DOMAIN altered
  BY FieldsOfGroup DEF SameMarks
<1>2. SameMarks(altered, refresh_group(altered, event, TRUE))
  BY <1>1, RefreshMarks
<1>3. groups[g].lifecycle \notin Gone
  BY DEF is_open, is_administratively_closed, ClosedLifecycles, Gone
<1> QED BY <1>2, <1>3 DEF Noticed, Evolves, BoundLive, SameMarks

\* What a cost notice makes of a group keeps its lineage and binding.
LEMMA CostObservedMarks ==
  ASSUME NEW group, GroupOK(group), NEW q
  PROVE  SameMarks(group, CostObserved(group, q))
<1>1. ASSUME NEW members, NEW causes
      PROVE  /\ SameMarks(group, group)
             /\ SameMarks(group, [group EXCEPT !.currentness = causes, !.members = members])
  BY FieldsOfGroup DEF SameMarks, Binding, Fields
<1> QED BY <1>1 DEF CostObserved

\* So does what a set notice makes of it.
LEMMA MultipathObservedMarks ==
  ASSUME NEW g, GroupOK(groups[g])
  PROVE  SameMarks(groups[g], MultipathObserved(g))
<1> DEFINE group == groups[g]
           stale == \/ group.multipath_generation # set_generation
                    \/ \E m \in Declared(group.members) :
                         ~SetProved(g, group.multipath_generation, m)
           had   == "STALE_MULTIPATH_SET" \in group.currentness
<1>1. ASSUME NEW members, NEW causes
      PROVE  /\ SameMarks(group, group)
             /\ SameMarks(group, [group EXCEPT !.currentness = causes, !.members = members])
  BY FieldsOfGroup DEF SameMarks, Binding, Fields
<1>2. CASE stale = had
  BY <1>1, <1>2, Zenon DEF MultipathObserved
<1>3. CASE stale /\ ~had
  BY <1>1, <1>3 DEF MultipathObserved
<1>4. CASE ~stale /\ had
  BY <1>1, <1>4 DEF MultipathObserved
<1>5. stale \in BOOLEAN /\ had \in BOOLEAN
  OBVIOUS
<1> HIDE DEF stale, had
<1> QED BY <1>2, <1>3, <1>4, <1>5

\* A notice of any upstream domain.
LEMMA NoticeEvolves ==
  ASSUME IInv, NEW p \in Publisher, Notice(p)
  PROVE  Evolution
<1>1. ASSUME NEW path \in Path, notify_path_authority_change(p, path)
      PROVE  Evolution
  <2> DEFINE next == [g \in Dependents(p, path_index[path]) |->
                        Noticed(g, PathObserved(groups[g], path), "INVALIDATE_PATH")]
  <2>1. Deliver(next) /\ DOMAIN next \subseteq Created
    BY <1>1 DEF notify_path_authority_change, Dependents, is_open
  <2>2. ASSUME NEW g \in DOMAIN next
        PROVE  Evolves(groups[g], next[g])
    <3>1. g \in Created /\ is_open(g) /\ GroupOK(groups[g])
      BY <2>1, <2>2, GroupTyped DEF Dependents
    <3>2. SameMarks(groups[g], PathObserved(groups[g], path))
      BY <3>1, FieldsOfGroup DEF PathObserved, SameMarks, Binding, Fields
    <3> QED BY <2>2, <3>1, <3>2, NoticedEvolves
  <2> HIDE DEF next
  <2> QED BY <2>1, <2>2, DeliverEvolves
<1>2. CASE notify_multipath_set_change(p)
  <2> DEFINE next == [g \in Dependents(p, MultipathGroups) |->
                        Noticed(g, MultipathObserved(g), "INVALIDATE_MULTIPATH")]
  <2>1. Deliver(next) /\ DOMAIN next \subseteq Created
    BY <1>2 DEF notify_multipath_set_change, Dependents, is_open
  <2>2. ASSUME NEW g \in DOMAIN next
        PROVE  Evolves(groups[g], next[g])
    <3>1. g \in Created /\ is_open(g) /\ GroupOK(groups[g])
      BY <2>1, <2>2, GroupTyped DEF Dependents
    <3>2. SameMarks(groups[g], MultipathObserved(g))
      BY <3>1, MultipathObservedMarks
    <3> QED BY <2>2, <3>1, <3>2, NoticedEvolves
  <2> HIDE DEF next
  <2> QED BY <2>1, <2>2, DeliverEvolves
<1>3. ASSUME NEW q \in Policy, notify_cost_generation_change(p, q)
      PROVE  Evolution
  <2> DEFINE next == [g \in Dependents(p, Created) |->
                        Noticed(g, CostObserved(groups[g], q), "INVALIDATE_COST")]
  <2>1. Deliver(next) /\ DOMAIN next \subseteq Created
    BY <1>3 DEF notify_cost_generation_change, Dependents, is_open
  <2>2. ASSUME NEW g \in DOMAIN next
        PROVE  Evolves(groups[g], next[g])
    <3>1. g \in Created /\ is_open(g) /\ GroupOK(groups[g])
      BY <2>1, <2>2, GroupTyped DEF Dependents
    <3>2. SameMarks(groups[g], CostObserved(groups[g], q))
      BY <3>1, CostObservedMarks
    <3> QED BY <2>2, <3>1, <3>2, NoticedEvolves
  <2> HIDE DEF next
  <2> QED BY <2>1, <2>2, DeliverEvolves
<1> QED BY <1>1, <1>2, <1>3 DEF Notice

\* Disarming a group voids its authority, not its binding.
LEMMA DisarmedEvolves ==
  ASSUME NEW g, GroupOK(groups[g]), is_open(g), NEW group, DOMAIN group = DOMAIN groups[g],
         group.successor = groups[g].successor, group.predecessor = groups[g].predecessor,
         Binding(group) = Binding(groups[g]), NEW cause
  PROVE  Evolves(groups[g], Disarmed(group, cause))
<1> DEFINE bare == [group EXCEPT !.currentness = @ \cup {cause, "REVALIDATION_REQUIRED"},
                                 !.plan = NoPlan, !.members = Unproven(@)]
<1>1. SameMarks(group, bare) /\ Fields \subseteq DOMAIN bare
  BY FieldsOfGroup DEF SameMarks, Binding, Fields
<1> HIDE DEF bare
<1>2. SameMarks(bare, refresh_group(bare, "INVALIDATE_EPOCH", FALSE))
  BY <1>1, RefreshMarks
<1>3. groups[g].lifecycle \notin Gone
  BY DEF is_open, is_administratively_closed, ClosedLifecycles, Gone
<1>4. Disarmed(group, cause) = refresh_group(bare, "INVALIDATE_EPOCH", FALSE)
  BY DEF Disarmed, bare
<1> QED BY <1>1, <1>2, <1>3, <1>4 DEF Evolves, BoundLive, SameMarks

\* An epoch advance, a registration and a fence: each disarms groups without rebinding them.
LEMMA RegistryEvolves ==
  ASSUME IInv, Registry
  PROVE  Evolution
<1>1. CASE set_epoch
  <2> DEFINE counted(g) == [groups[g] EXCEPT !.authority_generation = @ + 1]
             next == [g \in {h \in Group : is_open(h)} |-> Disarmed(counted(g), "STALE_EPOCH")]
  <2>1. Deliver(next) /\ DOMAIN next \subseteq Created
    BY <1>1 DEF set_epoch, is_open
  <2>2. ASSUME NEW g \in DOMAIN next
        PROVE  Evolves(groups[g], next[g])
    <3>1. g \in Created /\ is_open(g) /\ GroupOK(groups[g])
      BY <2>1, <2>2, GroupTyped
    <3>2. /\ DOMAIN counted(g) = DOMAIN groups[g]
          /\ counted(g).successor = groups[g].successor
          /\ counted(g).predecessor = groups[g].predecessor
          /\ Binding(counted(g)) = Binding(groups[g])
      BY <3>1, FieldsOfGroup DEF Binding, Fields
    <3>3. next[g] = Disarmed(counted(g), "STALE_EPOCH")
      BY <2>2
    <3> HIDE DEF counted, next
    <3> QED BY <3>1, <3>2, <3>3, DisarmedEvolves
  <2> HIDE DEF next
  <2> QED BY <2>1, <2>2, DeliverEvolves
<1>2. ASSUME NEW p \in Publisher, NEW b \in Boot, register_publisher(p, b)
      PROVE  Evolution
  BY <1>2 DEF register_publisher, Evolution, Evolves, BoundLive, Created
<1>3. ASSUME NEW p \in Publisher, fence_publisher(p)
      PROVE  Evolution
  <2> DEFINE next == [g \in {h \in authority_index[p] :
                               groups[h].authority_boot = publishers[p] /\ is_open(h)} |->
                        Disarmed(groups[g], "FENCED_PUBLISHER")]
  <2>1. Deliver(next) /\ DOMAIN next \subseteq Created
    BY <1>3 DEF fence_publisher, is_open
  <2>2. ASSUME NEW g \in DOMAIN next
        PROVE  Evolves(groups[g], next[g])
    BY <2>1, <2>2, GroupTyped, DisarmedEvolves
  <2> HIDE DEF next
  <2> QED BY <2>1, <2>2, DeliverEvolves
<1> QED BY <1>1, <1>2, <1>3 DEF Registry

-----------------------------------------------------------------------------
(* The two operations that are not such steps.                              *)

\* create_group adds a group without lineage.
LEMMA CreateLineage ==
  ASSUME IInv, NEW p \in Publisher, NEW g, NEW S, NEW E, NEW policy,
         create_group(p, g, S, E, policy)
  PROVE  /\ g \notin Created /\ Created' = Created \cup {g}
         /\ \A h \in Created : groups'[h] = groups[h]
         /\ groups'[g].successor = NoGroup /\ groups'[g].predecessor = NoGroup
<1> DEFINE blank == NewGroup(p, S, E, policy)
           bound == bind_authority(blank, p, publishers[p], epoch)
           group == refresh_group(bound, "ADD_MEMBER", TRUE)
<1>1. /\ g \notin Created
      /\ groups' = [h \in Created \cup {g} |-> IF h = g THEN group ELSE groups[h]]
  BY DEF create_group, Refreshed
<1>2. /\ Fields \subseteq DOMAIN bound
      /\ bound.successor = NoGroup /\ bound.predecessor = NoGroup
  BY DEF bind_authority, NewGroup, Fields
<1> HIDE DEF bound
<1>3. SameMarks(bound, group)
  BY <1>2, RefreshMarks
<1> HIDE DEF group
<1> QED BY <1>1, <1>2, <1>3 DEF SameMarks, Created

\* supersede_group closes one group for another that is open, and rebinds only it.
LEMMA SupersedeLineage ==
  ASSUME IInv, NEW p \in Publisher, NEW g, NEW h, supersede_group(p, g, h)
  PROVE  /\ g \in Created /\ h \in Created /\ g # h /\ is_open(h) /\ Created' = Created
         /\ groups'[g].successor = h /\ groups'[g].predecessor = groups[g].predecessor
         /\ groups[g].lifecycle \notin Gone /\ groups'[g].lifecycle \in Gone
         /\ groups'[h].predecessor = g /\ groups'[h].successor = groups[h].successor
         /\ groups'[h].lifecycle = groups[h].lifecycle
         /\ \A k \in Created \ {g, h} : groups'[k] = groups[k]
         /\ \A k \in Created : BoundLive(groups[k], groups'[k])
<1> DEFINE edited == [groups[g] EXCEPT !.members = AllMembers(@, TRUE, FALSE), !.plan = NoPlan,
                                       !.currentness = @ \cup {"RETIRED"}, !.successor = h]
           new   == Refreshed(p, edited, "SUPERSEDE")
           final == [new EXCEPT !.members = evict_withdrawn(@)]
<1>1. /\ Live(p) /\ g \in Created /\ h # g /\ is_open(h) /\ h \in Created
      /\ GroupOK(groups[g]) /\ GroupOK(groups[h])
      /\ groups' = [groups EXCEPT ![g] = final, ![h].predecessor = g]
  BY GroupTyped DEF supersede_group, Preamble, is_open
<1> DEFINE old == [groups[g] EXCEPT !.successor = h]
<1>2. /\ GroupOK(old) /\ SameMarks(old, edited) /\ old.successor = h
      /\ old.predecessor = groups[g].predecessor /\ Binding(old) = Binding(groups[g])
      /\ old.authority_generation = groups[g].authority_generation
  BY <1>1 DEF GroupOK, SameMarks, Binding, IInv, TypeOK
<1> HIDE DEF edited, old
<1>3. /\ DOMAIN new = DOMAIN old
      /\ new.successor = h /\ new.predecessor = groups[g].predecessor
      /\ BoundLive(old, new) /\ new.lifecycle \in Gone
  BY <1>1, <1>2, RefreshedMarks DEF ClosingEvents, CloseEvents, EventTarget, Gone
<1>4. Fields \subseteq DOMAIN new
  BY <1>2, <1>3, FieldsOfGroup
<1> HIDE DEF new
<1>5. SameMarks(new, final) /\ final.lifecycle = new.lifecycle
  BY <1>4 DEF SameMarks, Binding, Fields
<1> HIDE DEF final
<1>6. /\ Created' = Created /\ groups'[g] = final
      /\ groups'[h] = [groups[h] EXCEPT !.predecessor = g]
      /\ \A k \in Created \ {g, h} : groups'[k] = groups[k]
  BY <1>1 DEF Created
<1>7. /\ groups'[h].predecessor = g /\ groups'[h].successor = groups[h].successor
      /\ groups'[h].lifecycle = groups[h].lifecycle
      /\ Binding(groups'[h]) = Binding(groups[h])
  BY <1>1, <1>6, FieldsOfGroup DEF Binding, Fields
<1>8. BoundLive(groups[g], groups'[g])
  BY <1>2, <1>3, <1>5, <1>6 DEF BoundLive, SameMarks, Binding
<1>9. groups[g].lifecycle \notin Gone
  BY DEF supersede_group, Preamble, lifecycle_allows, AllowedEvents, Gone
<1> QED BY <1>1, <1>3, <1>5, <1>6, <1>7, <1>8, <1>9 DEF SameMarks, BoundLive

-----------------------------------------------------------------------------
(* The theorems.                                                            *)

\* Every step but a creation and a supersession is such a step.
LEMMA NextEvolves ==
  ASSUME IInv, [Next]_vars
  PROVE  \/ Evolution
         \/ \E p \in Publisher, g \in Group, S \in SUBSET Member : \E E \in SUBSET S, policy \in Policy :
              create_group(p, g, S, E, policy)
         \/ \E p \in Publisher, g \in Group, h \in Group : supersede_group(p, g, h)
<1>1. ASSUME UNCHANGED groups
      PROVE  Evolution
  BY <1>1 DEF Evolution, Evolves, BoundLive, Created
<1>2. CASE Upstream \/ UNCHANGED vars
  BY <1>1, <1>2 DEF Upstream, PathMoves, PathAuthorization, SetMoves, vars
<1>3. CASE Registry
  BY <1>3, RegistryEvolves
<1>4. ASSUME NEW p \in Publisher, Notice(p)
      PROVE  Evolution
  BY <1>4, NoticeEvolves
<1>5. ASSUME NEW p \in Publisher, NEW g \in Group,
             Membership(p, g) \/ Revalidation(p, g) \/ Rebalance(p, g) \/ Closing(p, g)
      PROVE  \/ Evolution
             \/ \E S \in SUBSET Member : \E E \in SUBSET S, policy \in Policy :
                  create_group(p, g, S, E, policy)
             \/ \E h \in Group : supersede_group(p, g, h)
  <2>1. CASE Membership(p, g)
    BY <2>1, MembershipEvolves DEF Membership
  <2>2. CASE Revalidation(p, g)
    BY <2>2, RevalidationEvolves
  <2>3. CASE Rebalance(p, g)
    BY <2>3, RebalanceEvolves
  <2>4. CASE Closing(p, g)
    BY <2>4, ClosingEvolves DEF Closing
  <2> QED BY <1>5, <2>1, <2>2, <2>3, <2>4
<1> QED BY <1>2, <1>3, <1>4, <1>5 DEF Next

\* A group is rebound only to a registered, unfenced boot of the current epoch,
\* whatever sequence of registrations, fences and operations led there: a
\* worker that was replaced never becomes the owner of a group again.
THEOREM BindingsAreLive == Spec => BindingIsLive
<1>1. ASSUME IInv, [Next]_vars, NEW g \in Created
      PROVE  BoundLive(groups[g], groups'[g])
  <2>1. CASE Evolution
    BY <1>1, <2>1 DEF Evolution, Evolves
  <2>2. ASSUME NEW p \in Publisher, NEW h, NEW S, NEW E, NEW policy,
               create_group(p, h, S, E, policy)
        PROVE  BoundLive(groups[g], groups'[g])
    BY <1>1, <2>2, CreateLineage DEF BoundLive
  <2>3. ASSUME NEW p \in Publisher, NEW k, NEW h, supersede_group(p, k, h)
        PROVE  BoundLive(groups[g], groups'[g])
    BY <1>1, <2>3, SupersedeLineage
  <2> QED BY <1>1, <2>1, <2>2, <2>3, NextEvolves
<1>2. ASSUME IInv, [Next]_vars
      PROVE  [\A g \in Created : Binding(groups'[g]) # Binding(groups[g]) =>
                /\ groups'[g].authority_generation > groups[g].authority_generation
                /\ groups'[g].bound_epoch = epoch
                /\ Live(groups'[g].authority_publisher)
                /\ publishers[groups'[g].authority_publisher] = groups'[g].authority_boot]_vars
  BY <1>1, <1>2 DEF BoundLive
<1> QED BY <1>2, InvariantHolds, PTL DEF Spec, BindingIsLive

\* LineageEnds is not inductive: a superseded group that could be superseded
\* again would leave a group whose predecessor names another successor.
LInv ==
  /\ LineageEnds
  /\ \A g \in Superseded : groups[g].lifecycle \in Gone
  /\ \A g \in Created : groups[g].predecessor # NoGroup => groups[g].predecessor \in Created

\* The lineage is empty in the empty governor.
LEMMA InitLineage == Init => LInv
BY DEF Init, LInv, LineageEnds, Superseded, Created, is_open

\* A step that keeps every lineage, and what is gone, keeps the chains.
LEMMA EvolutionLineage ==
  ASSUME LInv, Evolution
  PROVE  LInv'
<1>1. /\ Created' = Created
      /\ \A g \in Created : /\ groups'[g].successor = groups[g].successor
                            /\ groups'[g].predecessor = groups[g].predecessor
                            /\ groups[g].lifecycle \in Gone => groups'[g].lifecycle \in Gone
  BY DEF Evolution, Evolves
<1>2. Superseded' = Superseded
  BY <1>1 DEF Superseded
<1>3. \A g \in Superseded' : groups'[g].lifecycle \in Gone /\ ~is_open(g)'
  BY <1>1, <1>2
     DEF LInv, Superseded, Gone, is_open, is_administratively_closed, ClosedLifecycles
<1>4. ASSUME NEW S \in SUBSET Superseded', S # {}
      PROVE  \E g \in S : groups'[g].successor \in Created' \ S
  BY <1>1, <1>2, <1>4 DEF LInv, LineageEnds, Superseded
<1>5. \A g \in Created' : groups'[g].predecessor # NoGroup =>
        /\ groups'[g].predecessor \in Created'
        /\ groups'[groups'[g].predecessor].successor = g
  BY <1>1 DEF LInv, LineageEnds
<1> QED BY <1>3, <1>4, <1>5 DEF LInv, LineageEnds

\* A creation adds a group that no chain goes through.
LEMMA CreationLineage ==
  ASSUME IInv, LInv, NEW p \in Publisher, NEW g, NEW S, NEW E, NEW policy,
         create_group(p, g, S, E, policy)
  PROVE  LInv'
<1>1. /\ g \notin Created /\ Created' = Created \cup {g}
      /\ \A h \in Created : groups'[h] = groups[h]
      /\ groups'[g].successor = NoGroup /\ groups'[g].predecessor = NoGroup
  BY CreateLineage
<1>2. Superseded' = Superseded
  BY <1>1 DEF Superseded
<1>3. \A h \in Superseded' : groups'[h].lifecycle \in Gone /\ ~is_open(h)'
  BY <1>1, <1>2
     DEF LInv, Superseded, Gone, is_open, is_administratively_closed, ClosedLifecycles
<1>4. ASSUME NEW T \in SUBSET Superseded', T # {}
      PROVE  \E h \in T : groups'[h].successor \in Created' \ T
  BY <1>1, <1>2, <1>4 DEF LInv, LineageEnds, Superseded
<1>5. \A h \in Created' : groups'[h].predecessor # NoGroup =>
        /\ groups'[h].predecessor \in Created'
        /\ groups'[groups'[h].predecessor].successor = h
  BY <1>1 DEF LInv, LineageEnds
<1> QED BY <1>3, <1>4, <1>5 DEF LInv, LineageEnds

\* A supersession leads the chain of g to a group that is open, and so the end
\* of a chain; a set of superseded groups that g joins has g as its exit.
LEMMA SupersessionLineage ==
  ASSUME IInv, LInv, NEW p \in Publisher, NEW g \in Group, NEW h \in Group,
         supersede_group(p, g, h)
  PROVE  LInv'
<1>1. /\ g \in Created /\ h \in Created /\ g # h /\ is_open(h) /\ Created' = Created
      /\ groups'[g].successor = h /\ groups'[g].predecessor = groups[g].predecessor
      /\ groups[g].lifecycle \notin Gone /\ groups'[g].lifecycle \in Gone
      /\ groups'[h].predecessor = g /\ groups'[h].successor = groups[h].successor
      /\ groups'[h].lifecycle = groups[h].lifecycle
      /\ \A k \in Created \ {g, h} : groups'[k] = groups[k]
  BY SupersedeLineage
<1>2. g \notin Superseded /\ h \notin Superseded /\ h # NoGroup
  BY <1>1, NilAssumption DEF LInv, LineageEnds
<1>3. Superseded' = Superseded \cup {g}
  BY <1>1, <1>2 DEF Superseded
<1>4. \A k \in Superseded' : groups'[k].lifecycle \in Gone /\ ~is_open(k)'
  BY <1>1, <1>2, <1>3
     DEF LInv, Superseded, Gone, is_open, is_administratively_closed, ClosedLifecycles
<1>5. ASSUME NEW T \in SUBSET Superseded', T # {}
      PROVE  \E k \in T : groups'[k].successor \in Created' \ T
  <2>1. CASE g \in T
    BY <1>1, <1>2, <1>3, <2>1
  <2>2. CASE g \notin T
    <3>1. T \in SUBSET Superseded
      BY <1>3, <2>2
    <3>2. PICK k \in T : groups[k].successor \in Created \ T
      BY <1>5, <3>1 DEF LInv, LineageEnds
    <3>3. groups'[k].successor = groups[k].successor
      BY <1>1, <1>2, <2>2, <3>1 DEF Superseded
    <3> QED BY <1>1, <3>2, <3>3
  <2> QED BY <2>1, <2>2
<1>6. ASSUME NEW k \in Created
      PROVE  groups[k].predecessor # g
  <2>1. g # NoGroup /\ k # NoGroup
    BY <1>6, NilAssumption DEF IInv, TypeOK
  <2>2. groups[g].successor = NoGroup
    BY <1>1, <1>2 DEF Superseded
  <2> QED BY <1>6, <2>1, <2>2 DEF LInv, LineageEnds
<1>7. \A k \in Created' : groups'[k].predecessor # NoGroup =>
        /\ groups'[k].predecessor \in Created'
        /\ groups'[groups'[k].predecessor].successor = k
  BY <1>1, <1>6 DEF LInv, LineageEnds
<1> QED BY <1>4, <1>5, <1>7 DEF LInv, LineageEnds

\* Whoever follows successors, through any sequence of supersessions of any
\* number of groups, arrives at a group that nothing supersedes.
THEOREM LineageAlwaysEnds == Spec => []LineageEnds
<1>1. ASSUME IInv, LInv, [Next]_vars
      PROVE  LInv'
  BY <1>1, NextEvolves, EvolutionLineage, CreationLineage, SupersessionLineage
<1>2. LInv => LineageEnds
  BY DEF LInv
<1> QED BY <1>1, <1>2, InitLineage, InvariantHolds, PTL DEF Spec

\* A group that supersedes another has a predecessor, though not always the last one that
\* names it: supersede_group overwrites it.
HeirsKnow ==
  \A g \in Created : groups[g].successor # NoGroup =>
    /\ groups[g].successor \in Created
    /\ groups[groups[g].successor].predecessor # NoGroup

\* A step that keeps the lineages keeps the heirs; a creation has none; a supersession
\* makes one.
LEMMA NextHeirs ==
  ASSUME IInv, LInv, HeirsKnow, [Next]_vars
  PROVE  HeirsKnow'
<1>1. CASE Evolution
  BY <1>1 DEF Evolution, Evolves, HeirsKnow
<1>2. ASSUME NEW p \in Publisher, NEW g \in Group, NEW S, NEW E, NEW policy,
             create_group(p, g, S, E, policy)
      PROVE  HeirsKnow'
  <2>1. /\ g \notin Created /\ Created' = Created \cup {g}
        /\ \A h \in Created : groups'[h] = groups[h]
        /\ groups'[g].successor = NoGroup /\ groups'[g].predecessor = NoGroup
    BY <1>2, CreateLineage
  <2> QED BY <2>1 DEF HeirsKnow
<1>3. ASSUME NEW p \in Publisher, NEW g \in Group, NEW h \in Group, supersede_group(p, g, h)
      PROVE  HeirsKnow'
  <2>1. /\ g \in Created /\ h \in Created /\ g # h /\ Created' = Created
        /\ groups'[g].successor = h /\ groups'[g].predecessor = groups[g].predecessor
        /\ groups'[h].predecessor = g /\ groups'[h].successor = groups[h].successor
        /\ \A k \in Created \ {g, h} : groups'[k] = groups[k]
    BY <1>3, SupersedeLineage
  <2>2. g # NoGroup
    BY NilAssumption
  <2>3. \A k \in Created : /\ groups'[k].successor \in {groups[k].successor, h}
                           /\ groups'[k].predecessor \in {groups[k].predecessor, g}
    BY <2>1
  <2> QED BY <2>1, <2>2, <2>3 DEF HeirsKnow
<1> QED BY <1>1, <1>2, <1>3, NextEvolves

\* Lineages hold both ways: chains end, and whoever supersedes a group has a predecessor.
THEOREM HeirsAlwaysKnow == Spec => [](LInv /\ HeirsKnow)
<1>1. Init => LInv /\ HeirsKnow
  BY InitLineage DEF Init, HeirsKnow, Created
<1>2. ASSUME IInv, LInv, [Next]_vars
      PROVE  LInv'
  BY <1>2, NextEvolves, EvolutionLineage, CreationLineage, SupersessionLineage
<1>3. IInv /\ (LInv /\ HeirsKnow) /\ [Next]_vars => (LInv /\ HeirsKnow)'
  BY <1>2, NextHeirs
<1> QED BY <1>1, <1>3, InvariantHolds, PTL DEF Spec

=============================================================================
