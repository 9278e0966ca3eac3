------------------------------- MODULE MapProofs -------------------------------
(***************************************************************************)
(* The bucket maps, the member entries and the plans of the groups, for     *)
(* every number of groups, members, buckets and publishers.  Every step of  *)
(* the governor changes a group in one of a few forms (GroupStep); what     *)
(* the properties say is read off the forms, by refresh_group and           *)
(* evict_withdrawn, and AssignmentProofs says what a recomputed map is.     *)
(***************************************************************************)
EXTENDS LineageProofs, AssignmentProofs

-----------------------------------------------------------------------------
(* Entries: what eviction leaves.                                           *)

\* Eviction brings the entries down to the limit, if the declared ones are within it.
LEMMA EvictBound ==
  ASSUME NEW members, MembersOK(members), Cardinality(Declared(members)) <= MaxMembersPerGroup
  PROVE  Cardinality(DOMAIN evict_withdrawn(members)) <= MaxMembersPerGroup
<1> DEFINE D == DOMAIN members
           U == D \ Declared(members)
           excess == Cardinality(D) - MaxMembersPerGroup
           victims == {m \in U : Rank(U, m) < excess}
<1>1. /\ D \in SUBSET Nat /\ IsFiniteSet(D) /\ Cardinality(D) \in Nat
      /\ U \in SUBSET Nat /\ IsFiniteSet(U) /\ Cardinality(U) \in Nat
      /\ Cardinality(Declared(members)) \in Nat /\ MaxMembersPerGroup \in Nat
  <2>1. D \in SUBSET Member /\ U \in SUBSET Member /\ Declared(members) \in SUBSET Member
    BY DEF MembersOK, Declared
  <2> HIDE DEF D, U
  <2> QED BY <2>1, MemberAssumption, LimitAssumption, FS_Subset, FS_CardinalityType
<1>2. Cardinality(U) = Cardinality(D) - Cardinality(Declared(members))
  <2>1. D \cap Declared(members) = Declared(members)
    BY DEF Declared
  <2> HIDE DEF D
  <2>2. Cardinality(D \ Declared(members)) = Cardinality(D) - Cardinality(D \cap Declared(members))
    BY <1>1, FS_Difference
  <2> QED BY <2>1, <2>2
<1>3. DOMAIN evict_withdrawn(members) = D \ victims
  BY DEF evict_withdrawn, Rank
<1>4. victims \in SUBSET D /\ D \cap victims = victims
  OBVIOUS
<1> HIDE DEF D, U
<1>5. \A m \in U : Rank(U, m) \in Nat
  BY <1>1, RankType
<1>6. CASE excess > 0
  <2>1. excess \in Nat /\ excess <= Cardinality(U)
    BY <1>1, <1>2, <1>6
  <2>2. victims = {m \in U : 0 <= Rank(U, m) /\ Rank(U, m) < excess}
    BY <1>5
  <2> HIDE DEF excess
  <2>3. Cardinality(victims) = excess
    <3>1. Cardinality({m \in U : 0 <= Rank(U, m) /\ Rank(U, m) < excess}) = excess - 0
      BY <1>1, <2>1, RankInterval
    <3> HIDE DEF victims
    <3>2. excess - 0 = excess
      BY <2>1
    <3> QED BY <2>2, <3>1, <3>2
  <2> HIDE DEF victims
  <2>4. Cardinality(D \ victims) = Cardinality(D) - Cardinality(D \cap victims)
    BY <1>1, FS_Difference
  <2>5. Cardinality(D \ victims) = Cardinality(D) - excess
    <3>1. Cardinality(D \cap victims) = excess
      BY <1>4, <2>3
    <3> QED BY <2>4, <3>1
  <2>6. Cardinality(D \ victims) = MaxMembersPerGroup
    BY <1>1, <2>5 DEF excess
  <2> QED BY <1>1, <1>3, <2>6
<1>7. CASE ~(excess > 0)
  <2>1. \A m \in U : ~(Rank(U, m) < excess)
    <3>1. excess \in Int
      BY <1>1
    <3> HIDE DEF excess
    <3> QED BY <1>5, <1>7, <3>1
  <2>2. D \ victims = D
    BY <2>1
  <2>3. Cardinality(D) <= MaxMembersPerGroup
    BY <1>1, <1>7
  <2> QED BY <1>3, <2>2, <2>3
<1> QED BY <1>6, <1>7

-----------------------------------------------------------------------------
(* What refresh_group makes of the map.                                     *)

\* The part of a group that only a refresh changes.
SameMap(old, new) ==
  /\ new.assignment = old.assignment
  /\ new.assignment_generation = old.assignment_generation
  /\ new.declared_digest = old.declared_digest
  /\ new.membership_generation = old.membership_generation

\* A generation counts the changes of what it numbers.
Counts(old, new) ==
  /\ new.declared_digest = Declared(new.members)
  /\ new.membership_generation = IF Declared(new.members) = old.declared_digest
                                 THEN old.membership_generation ELSE old.membership_generation + 1
  /\ new.assignment_generation = IF new.assignment = old.assignment
                                 THEN old.assignment_generation ELSE old.assignment_generation + 1

\* What an entry says besides its derived state.
Record(entry) ==
  <<entry.declared, entry.enabled, entry.bound, entry.policy,
    entry.path_current, entry.multipath_current, entry.cost_current>>

\* Deriving the states changes nothing else, and only declared members are active.
LEMMA DeriveRecords ==
  ASSUME NEW members, MembersOK(members)
  PROVE  LET derived == derive_members(members)
         IN  /\ DOMAIN derived = DOMAIN members
             /\ \A m \in DOMAIN members : Record(derived[m]) = Record(members[m])
             /\ Declared(derived) = Declared(members)
             /\ active_members(derived)
                  = {m \in Declared(members) : members[m].enabled /\ upstream_current(members[m])}
<1> DEFINE derived == derive_members(members)
<1>1. /\ DOMAIN derived = DOMAIN members
      /\ \A m \in DOMAIN members :
           /\ members[m] \in MemberEntry
           /\ derived[m] = [members[m] EXCEPT !.state = derive_member_state(members[m].declared,
                              members[m].enabled, upstream_current(members[m]))]
  BY DEF derive_members, MembersOK
<1> HIDE DEF derived
<1>2. ASSUME NEW m \in DOMAIN members
      PROVE  /\ Record(derived[m]) = Record(members[m])
             /\ derived[m].declared = members[m].declared
             /\ derived[m].state = derive_member_state(members[m].declared,
                                     members[m].enabled, upstream_current(members[m]))
  BY <1>1 DEF Record, MemberEntry
<1>3. Declared(derived) = Declared(members)
  BY <1>1, <1>2 DEF Declared
<1>4. \A m \in DOMAIN members : /\ members[m].declared \in BOOLEAN
                                /\ members[m].enabled \in BOOLEAN
                                /\ upstream_current(members[m]) \in BOOLEAN
  BY <1>1 DEF MemberEntry, upstream_current
<1>5. \A m \in DOMAIN members :
        derived[m].state = "ACTIVE"
          <=> members[m].declared /\ members[m].enabled /\ upstream_current(members[m])
  BY <1>2, <1>4 DEF derive_member_state
<1>6. active_members(derived)
        = {m \in Declared(members) : members[m].enabled /\ upstream_current(members[m])}
  BY <1>1, <1>5 DEF active_members, Declared
<1> QED BY <1>1, <1>2, <1>3, <1>6 DEF derived

\* refresh_group recomputes the map for the members it finds active, or keeps it.
LEMMA RefreshMap ==
  ASSUME NEW group, GroupOK(group), NEW event \in GroupEvent, NEW recompute \in BOOLEAN
  PROVE  LET new == refresh_group(group, event, recompute)
         IN  /\ GroupOK(new)
             /\ new.members = derive_members(group.members)
             /\ new.plan = group.plan /\ new.currentness = group.currentness
             /\ new.multipath_generation = group.multipath_generation
             /\ Counts(group, new)
             /\ new.assignment = IF recompute
                                 THEN compute_rebalance(group.assignment, active_members(new.members))
                                 ELSE group.assignment
             /\ new.lifecycle = apply_group_event(event, derived_lifecycle(new))
<1> DEFINE members  == derive_members(group.members)
           declared == Declared(members)
           owners   == IF recompute
                       THEN compute_rebalance(group.assignment, active_members(members))
                       ELSE group.assignment
           mg == IF declared = group.declared_digest THEN group.membership_generation
                 ELSE group.membership_generation + 1
           ag == IF owners = group.assignment THEN group.assignment_generation
                 ELSE group.assignment_generation + 1
           settled  ==
             [group EXCEPT
                !.members = members, !.membership_generation = mg, !.declared_digest = declared,
                !.assignment_generation = ag, !.assignment = owners]
           lifecycle == apply_group_event(event, derived_lifecycle(settled))
           new == [settled EXCEPT !.lifecycle = lifecycle]
<1>1. refresh_group(group, event, recompute) = new
  BY DEF refresh_group
<1>2. GroupOK(new)
  BY <1>1, RefreshType
<1>3. \A m, d, g1, g2, o, l :
        LET final == [[group EXCEPT !.members = m, !.membership_generation = g1,
                         !.declared_digest = d, !.assignment_generation = g2, !.assignment = o]
                        EXCEPT !.lifecycle = l]
        IN  /\ final.members = m /\ final.membership_generation = g1
            /\ final.declared_digest = d /\ final.assignment_generation = g2
            /\ final.assignment = o /\ final.lifecycle = l
            /\ final.plan = group.plan /\ final.currentness = group.currentness
            /\ final.multipath_generation = group.multipath_generation
  BY DEF GroupOK
<1>4. /\ new.members = members /\ new.plan = group.plan /\ new.currentness = group.currentness
      /\ new.multipath_generation = group.multipath_generation
      /\ new.declared_digest = declared /\ new.membership_generation = mg
      /\ new.assignment = owners /\ new.assignment_generation = ag /\ new.lifecycle = lifecycle
  <2> HIDE DEF members, declared, owners, mg, ag, lifecycle
  <2> QED BY <1>3
<1>5. derived_lifecycle(settled) = derived_lifecycle(new)
  <2>1. /\ settled.members = members /\ settled.plan = group.plan
        /\ settled.currentness = group.currentness
    <3> HIDE DEF members, declared, owners, mg, ag
    <3> QED BY DEF GroupOK
  <2> HIDE DEF new, settled
  <2> QED BY <1>4, <2>1 DEF derived_lifecycle
<1> HIDE DEF new, settled
<1>6. Counts(group, new)
  BY <1>4 DEF Counts
<1> QED BY <1>1, <1>2, <1>4, <1>5, <1>6

-----------------------------------------------------------------------------
(* The invariant of one group.                                              *)

\* What the limits admit as a declared set.
Fits(S) == Cardinality(S) <= MaxMembersPerGroup /\ Cardinality(S) <= BucketCount

EnabledTargets(plan) == {m \in DOMAIN plan.target_members : plan.target_members[m].enabled}

\* A plan was made of a map of this group, and predicts what the commit will compute
\* for as long as it is still the map.
PlanFits(group) == group.plan # NoPlan =>
  /\ Fits(DOMAIN group.plan.target_members)
  /\ group.plan.from_assignment <= group.assignment_generation
  /\ group.plan.from_assignment = group.assignment_generation =>
       group.plan.assignment = compute_rebalance(group.assignment, EnabledTargets(group.plan))

\* The declared set is the one that was counted.
Numbered(group) ==
  /\ group.declared_digest = Declared(group.members)
  /\ group.membership_generation > 0

\* A group whose authority is current serves exactly its active members; one that was
\* disarmed keeps the map it had.
GroupMap(group) ==
  /\ Numbered(group)
  /\ Fits(Declared(group.members))
  /\ Cardinality(DOMAIN group.members) <= MaxMembersPerGroup
  /\ \A b \in Bucket : group.assignment[b] \in DOMAIN group.members \cup {Nil}
  /\ authority_current(group.currentness) => Serves(group.assignment, active_members(group.members))
  /\ PlanFits(group)

MapsInv == \A g \in Created : GroupMap(groups[g])

\* A map serves a set by its members alone.
LEMMA ServesOwners ==
  ASSUME NEW map, NEW S, Serves(map, S), NEW b \in Bucket
  PROVE  map[b] \in S \cup {Nil}
BY DEF Serves, Unassigned

\* A plan fits a group by its plan, its map and the number of the map.
LEMMA SamePlanFits ==
  ASSUME NEW old, NEW new, SameMap(old, new), PlanFits(old), new.plan \in {old.plan, NoPlan}
  PROVE  PlanFits(new)
BY DEF SameMap, PlanFits

\* What an edit may hand to refresh_group.
Editable(group) ==
  /\ GroupOK(group)
  /\ Fits(Declared(group.members))
  /\ \/ group.membership_generation > 0
     \/ group.declared_digest = {} /\ Declared(group.members) # {}
  /\ PlanFits(group)

\* A refresh that recomputes the map makes it serve, and numbers it.
LEMMA RefreshServes ==
  ASSUME NEW group, Editable(group), NEW event \in GroupEvent
  PROVE  LET new == refresh_group(group, event, TRUE)
         IN  /\ GroupOK(new) /\ Numbered(new) /\ PlanFits(new) /\ Counts(group, new)
             /\ new.members = derive_members(group.members)
             /\ DOMAIN new.members = DOMAIN group.members
             /\ Declared(new.members) = Declared(group.members)
             /\ active_members(new.members) \subseteq Declared(new.members)
             /\ Serves(new.assignment, active_members(new.members))
<1> DEFINE new == refresh_group(group, event, TRUE)
           active == active_members(new.members)
<1>1. /\ GroupOK(new) /\ Counts(group, new) /\ new.plan = group.plan
      /\ new.members = derive_members(group.members)
      /\ new.assignment = compute_rebalance(group.assignment, active)
  BY RefreshMap DEF Editable
<1> HIDE DEF new
<1>2. MembersOK(group.members) /\ group.assignment \in Owners /\ group.membership_generation \in Nat
      /\ group.assignment_generation \in Nat
  BY DEF Editable, GroupOK
<1>3. /\ DOMAIN new.members = DOMAIN group.members
      /\ Declared(new.members) = Declared(group.members)
      /\ active \subseteq Declared(new.members)
  BY <1>1, <1>2, DeriveRecords
<1>4. active \in SUBSET Member
  BY <1>1 DEF GroupOK, MembersOK, active_members
<1>5. Serves(new.assignment, active)
  BY <1>1, <1>2, <1>4, RebalanceServes
<1>6. Numbered(new)
  BY <1>1, <1>2, <1>3 DEF Counts, Numbered, Editable
<1>7. PlanFits(new)
  <2> SUFFICES ASSUME group.plan # NoPlan PROVE PlanFits(new)
    BY <1>1 DEF PlanFits
  <2>1. group.plan.from_assignment \in Nat /\ PlanFits(group)
    BY DEF Editable, GroupOK, PlanOK
  <2>2. CASE new.assignment = group.assignment
    BY <1>1, <2>1, <2>2 DEF Counts, PlanFits
  <2>3. CASE new.assignment # group.assignment
    <3>1. /\ new.assignment_generation = group.assignment_generation + 1
          /\ group.plan.from_assignment <= group.assignment_generation
          /\ Fits(DOMAIN group.plan.target_members)
      BY <1>1, <2>1, <2>3 DEF Counts, PlanFits
    <3>2. group.plan.from_assignment < new.assignment_generation
      BY <1>2, <2>1, <3>1
    <3> QED BY <1>1, <1>2, <2>1, <3>1, <3>2 DEF PlanFits
  <2> QED BY <2>2, <2>3
<1> QED BY <1>1, <1>3, <1>5, <1>6, <1>7 DEF new

\* Eviction touches neither the map nor what it serves.
LEMMA EvictServes ==
  ASSUME NEW group, GroupOK(group), Numbered(group), PlanFits(group),
         Fits(Declared(group.members)),
         active_members(group.members) \subseteq Declared(group.members),
         Serves(group.assignment, active_members(group.members))
  PROVE  LET final == [group EXCEPT !.members = evict_withdrawn(@)]
         IN  /\ GroupMap(final)
             /\ DOMAIN final.members \subseteq DOMAIN group.members
             /\ \A m \in DOMAIN final.members : final.members[m] = group.members[m]
             /\ Declared(final.members) = Declared(group.members)
             /\ active_members(final.members) = active_members(group.members)
             /\ SameMap(group, final)
             /\ final.plan = group.plan /\ final.currentness = group.currentness
             /\ final.multipath_generation = group.multipath_generation
             /\ final.lifecycle = group.lifecycle
<1> DEFINE kept  == evict_withdrawn(group.members)
           final == [group EXCEPT !.members = kept]
<1>1. MembersOK(group.members) /\ Declared(kept) = Declared(group.members)
  BY EvictType DEF GroupOK
<1>2. Cardinality(DOMAIN kept) <= MaxMembersPerGroup
  BY <1>1, EvictBound DEF Fits
<1>3. /\ DOMAIN kept \subseteq DOMAIN group.members
      /\ \A m \in DOMAIN kept : kept[m] = group.members[m]
      /\ Declared(group.members) \subseteq DOMAIN kept
  BY DEF evict_withdrawn, Declared
<1>4. active_members(kept) = active_members(group.members)
  BY <1>3 DEF active_members
<1> HIDE DEF kept
<1>5. /\ final.members = kept /\ SameMap(group, final)
      /\ final.plan = group.plan /\ final.currentness = group.currentness
      /\ final.multipath_generation = group.multipath_generation
      /\ final.lifecycle = group.lifecycle
  BY DEF GroupOK, SameMap
<1> HIDE DEF final
<1>6. Numbered(final) /\ PlanFits(final)
  <2>1. PlanFits(final)
    BY <1>5, SamePlanFits
  <2> QED BY <1>1, <1>5, <2>1 DEF SameMap, Numbered
<1>7. \A b \in Bucket : final.assignment[b] \in DOMAIN final.members \cup {Nil}
  BY <1>3, <1>5, ServesOwners DEF SameMap
<1>8. GroupMap(final)
  BY <1>1, <1>2, <1>4, <1>5, <1>6, <1>7 DEF GroupMap, SameMap
<1> QED BY <1>1, <1>3, <1>4, <1>5, <1>8 DEF final, kept

-----------------------------------------------------------------------------
(* What an operation makes of the group it edits.                           *)

\* Bound to the caller, refreshed, its withdrawn entries evicted: what is stored.
Finished(p, edited, event) == [Refreshed(p, edited, event) EXCEPT !.members = evict_withdrawn(@)]

\* A binding decides nothing but whose the group is.
LEMMA BindKeeps ==
  ASSUME NEW group, GroupOK(group), NEW p, NEW boot, NEW ep
  PROVE  LET bound == bind_authority(group, p, boot, ep)
         IN  /\ SameMap(group, bound) /\ bound.members = group.members
             /\ bound.plan = group.plan /\ bound.currentness = group.currentness
             /\ bound.multipath_generation = group.multipath_generation
BY DEF bind_authority, SameMap, GroupOK

\* What is stored serves its active members, which are the members declared, enabled and
\* proved current by the edit.
LEMMA FinishedMap ==
  ASSUME TypeOK, NEW p \in Publisher, Live(p), NEW edited, Editable(edited),
         NEW event \in GroupEvent
  PROVE  LET new == Finished(p, edited, event)
         IN  /\ GroupMap(new) /\ Counts(edited, new)
             /\ new.plan = edited.plan /\ new.currentness = edited.currentness
             /\ new.multipath_generation = edited.multipath_generation
             /\ Declared(new.members) = Declared(edited.members)
             /\ DOMAIN new.members \subseteq DOMAIN edited.members
             /\ \A m \in DOMAIN new.members : Record(new.members[m]) = Record(edited.members[m])
             /\ active_members(new.members)
                  = {m \in Declared(edited.members) :
                       edited.members[m].enabled /\ upstream_current(edited.members[m])}
             /\ event \in DOMAIN EventTarget => new.lifecycle = EventTarget[event]
<1> DEFINE bound == bind_authority(edited, p, publishers[p], epoch)
           fresh == refresh_group(bound, event, TRUE)
           new   == [fresh EXCEPT !.members = evict_withdrawn(@)]
<1>1. /\ SameMap(edited, bound) /\ bound.members = edited.members
      /\ bound.plan = edited.plan /\ bound.currentness = edited.currentness
      /\ bound.multipath_generation = edited.multipath_generation
  BY BindKeeps DEF Editable
<1>2. GroupOK(bound)
  BY BindType, LiveBoot, ObservationType DEF Editable
<1>3. Finished(p, edited, event) = new
  BY DEF Finished, Refreshed
<1> HIDE DEF bound
<1>4. Editable(bound)
  <2>1. PlanFits(bound)
    BY <1>1, SamePlanFits DEF Editable
  <2> QED BY <1>1, <1>2, <2>1 DEF Editable, SameMap
<1>5. /\ GroupOK(fresh) /\ Numbered(fresh) /\ PlanFits(fresh) /\ Counts(bound, fresh)
      /\ fresh.members = derive_members(edited.members)
      /\ Declared(fresh.members) = Declared(edited.members)
      /\ active_members(fresh.members) \subseteq Declared(fresh.members)
      /\ Serves(fresh.assignment, active_members(fresh.members))
  BY <1>1, <1>4, RefreshServes
<1>6. /\ fresh.plan = edited.plan /\ fresh.currentness = edited.currentness
      /\ fresh.multipath_generation = edited.multipath_generation
      /\ event \in DOMAIN EventTarget => fresh.lifecycle = EventTarget[event]
  BY <1>1, <1>2, RefreshMap DEF apply_group_event
<1>7. /\ DOMAIN fresh.members = DOMAIN edited.members
      /\ \A m \in DOMAIN edited.members : Record(fresh.members[m]) = Record(edited.members[m])
      /\ active_members(fresh.members)
           = {m \in Declared(edited.members) :
                edited.members[m].enabled /\ upstream_current(edited.members[m])}
  <2>1. MembersOK(edited.members)
    BY DEF Editable, GroupOK
  <2> HIDE DEF fresh
  <2> QED BY <1>5, <2>1, DeriveRecords
<1> HIDE DEF fresh
<1>8. /\ GroupMap(new) /\ SameMap(fresh, new)
      /\ new.plan = fresh.plan /\ new.currentness = fresh.currentness
      /\ new.multipath_generation = fresh.multipath_generation
      /\ new.lifecycle = fresh.lifecycle
      /\ Declared(new.members) = Declared(fresh.members)
      /\ DOMAIN new.members \subseteq DOMAIN fresh.members
      /\ \A m \in DOMAIN new.members : new.members[m] = fresh.members[m]
      /\ active_members(new.members) = active_members(fresh.members)
  BY <1>5, EvictServes DEF Editable
<1> HIDE DEF new
<1>9. Counts(edited, new)
  BY <1>1, <1>5, <1>8 DEF Counts, SameMap
<1>10. \A m \in DOMAIN new.members : Record(new.members[m]) = Record(edited.members[m])
  BY <1>7, <1>8
<1> QED BY <1>3, <1>5, <1>6, <1>7, <1>8, <1>9, <1>10

\* The members stay declared, or not, and enabled, or not.
SameEnrolment(old, new) ==
  /\ DOMAIN new = DOMAIN old
  /\ \A m \in DOMAIN old : new[m].declared = old[m].declared /\ new[m].enabled = old[m].enabled

\* A revalidation observes everything again and keeps the membership.
Revalidated(g, edited) ==
  \E rebound : /\ GroupOK(rebound) /\ edited = Reobserved(g, rebound)
               /\ SameEnrolment(groups[g].members, rebound.members)

\* An edit of g that an operation hands to finish_group_mutation.
Edited(g, edited, event) ==
  /\ Editable(edited) /\ SameMap(groups[g], edited)
  /\ IF event = "REVALIDATE" THEN Revalidated(g, edited)
     ELSE groups[g].currentness \cap AuthorityCauses \subseteq edited.currentness
  /\ event \in {"COMMIT_REBALANCE", "ABORT_REBALANCE"} => edited.plan = NoPlan
  /\ event = "PLAN_REBALANCE" => groups[g].plan = NoPlan
  /\ event \notin Invalidations

\* What a step makes of a group: nothing but an heir ...
Stays(g) ==
  \/ groups'[g] = groups[g]
  \/ \E h \in Created : groups'[g] = [groups[g] EXCEPT !.predecessor = h]

\* ... a finished edit, admitted by the lifecycle ...
Finishes(g) ==
  \E p \in Publisher, event \in GroupEvent : \E edited :
    /\ Preamble(p, g, event) /\ Edited(g, edited, event)
    /\ groups'[g] = Finished(p, edited, event)

\* ... members re-proved by a call that was refused ...
Reproves(g) == \E R \in SUBSET Member, q \in Nat : groups'[g] = Reproved(groups[g], R, q)

\* ... a refresh for a notice ...
Notices(g) ==
  /\ is_open(g)
  /\ \E event \in Invalidations : \E altered :
       /\ SameStanding(groups[g], altered) /\ SameMap(groups[g], altered)
       /\ SameEnrolment(groups[g].members, altered.members)
       /\ groups'[g] = refresh_group(altered, event, TRUE)

\* ... or the loss of its authority.
Disarms(g) ==
  \E cause \in {"STALE_EPOCH", "FENCED_PUBLISHER"} : \E counted :
    /\ GroupOK(counted) /\ SameMap(groups[g], counted)
    /\ counted.members = groups[g].members /\ counted.currentness = groups[g].currentness
    /\ groups'[g] = Disarmed(counted, cause)

GroupStep(g) == Stays(g) \/ Finishes(g) \/ Reproves(g) \/ Notices(g) \/ Disarms(g)

\* A group is created by a refresh of the declared set of its request.
Begins(g) ==
  \E p \in Publisher : \E blank :
    /\ Live(p) /\ Editable(blank) /\ Declared(blank.members) = DOMAIN blank.members
    /\ groups'[g] = Refreshed(p, blank, "ADD_MEMBER")

\* The groups of a step.
MapStep ==
  /\ Created \subseteq Created'
  /\ \A g \in Created : GroupStep(g)
  /\ \A g \in Created' \ Created : Begins(g)

-----------------------------------------------------------------------------
(* One lemma per operation: the form of its step.                           *)

\* A part of a declared set that fits, fits.
LEMMA FitsSubset ==
  ASSUME NEW S \in SUBSET Member, Fits(S), NEW T \in SUBSET S
  PROVE  Fits(T)
<1>1. IsFiniteSet(S) /\ IsFiniteSet(T) /\ Cardinality(T) <= Cardinality(S)
      /\ Cardinality(S) \in Nat /\ Cardinality(T) \in Nat
  BY MemberAssumption, FS_Subset, FS_CardinalityType
<1>2. MaxMembersPerGroup \in Nat /\ BucketCount \in Nat
  BY LimitAssumption, BucketCountAssumption
<1> QED BY <1>1, <1>2 DEF Fits

\* An edit that leaves the map alone, declares what fits and brings no plan of its own
\* may be stored.
LEMMA EditOK ==
  ASSUME NEW group, GroupMap(group), NEW edited, GroupOK(edited), SameMap(group, edited),
         Fits(Declared(edited.members)), edited.plan \in {group.plan, NoPlan}
  PROVE  Editable(edited)
<1>1. PlanFits(edited)
  BY SamePlanFits DEF GroupMap
<1> QED BY <1>1 DEF Editable, GroupMap, Numbered, SameMap

\* So may an edit of the members alone.
LEMMA MembersEdit ==
  ASSUME NEW group, GroupOK(group), GroupMap(group),
         NEW members, MembersOK(members), Fits(Declared(members))
  PROVE  LET edited == [group EXCEPT !.members = members]
         IN  /\ Editable(edited) /\ SameMap(group, edited)
             /\ edited.members = members
             /\ edited.plan = group.plan /\ edited.currentness = group.currentness
<1> DEFINE edited == [group EXCEPT !.members = members]
<1>1. /\ GroupOK(edited) /\ SameMap(group, edited) /\ edited.members = members
      /\ edited.plan = group.plan /\ edited.currentness = group.currentness
  BY DEF GroupOK, SameMap
<1> HIDE DEF edited
<1>2. Editable(edited)
  BY <1>1, EditOK
<1> QED BY <1>1, <1>2 DEF edited

\* The end of a mutation is a step of one form: its group is finished, the others stay.
LEMMA FinishForm ==
  ASSUME IInv, NEW p \in Publisher, NEW g, NEW event \in GroupEvent, NEW edited,
         Preamble(p, g, event), Edited(g, edited, event),
         \/ finish_group_mutation(p, g, edited, event)
         \/ Store(g, Refreshed(p, edited, event))
  PROVE  MapStep
<1>1. g \in Created /\ groups' = [groups EXCEPT ![g] = Finished(p, edited, event)]
  BY DEF finish_group_mutation, Store, Finished, Preamble
<1>2. /\ Created' = Created /\ groups'[g] = Finished(p, edited, event)
      /\ \A h \in Created \ {g} : groups'[h] = groups[h]
  BY <1>1 DEF Created
<1>3. Finishes(g)
  BY <1>2 DEF Finishes
<1> QED BY <1>2, <1>3 DEF MapStep, GroupStep, Stays

\* What holds of the group an operation finds.
LEMMA Found ==
  ASSUME IInv, MapsInv, NEW p \in Publisher, NEW g, NEW event, Preamble(p, g, event)
  PROVE  /\ Live(p) /\ g \in Created /\ GroupOK(groups[g]) /\ GroupMap(groups[g])
         /\ MembersOK(groups[g].members) /\ Fits(Declared(groups[g].members))
         /\ Declared(groups[g].members) \in SUBSET Member
BY DEF IInv, TypeOK, MapsInv, Preamble, GroupMap, GroupOK, MembersOK, Declared

\* add_member declares one member more, where one more fits.
LEMMA AddMemberForm ==
  ASSUME IInv, MapsInv, NEW p \in Publisher, NEW g \in Group, NEW m \in Member,
         NEW enabled \in BOOLEAN, add_member(p, g, m, enabled)
  PROVE  MapStep
<1> DEFINE group == groups[g]
           spec  == [enabled |-> enabled, bound |-> path_generation[PathOf[m]],
                     policy |-> group.policy]
           members == [k \in DOMAIN group.members \cup {m} |->
                         IF k = m THEN make_entry(spec) ELSE group.members[k]]
           edited == [group EXCEPT !.members = members]
<1>1. /\ Preamble(p, g, "ADD_MEMBER") /\ ~IsDeclared(g, m)
      /\ Cardinality(Declared(group.members)) < MaxMembersPerGroup
      /\ Cardinality(Declared(group.members)) < BucketCount
      /\ finish_group_mutation(p, g, edited, "ADD_MEMBER")
  BY DEF add_member
<1>2. /\ g \in Created /\ GroupOK(group) /\ GroupMap(group) /\ MembersOK(group.members)
      /\ Declared(group.members) \in SUBSET Member
  BY <1>1, Found
<1>3. make_entry(spec) \in MemberEntry /\ make_entry(spec).declared
  <2>1. spec.enabled \in BOOLEAN /\ spec.bound \in Nat /\ spec.policy \in Nat
    BY <1>2, ObservationType DEF GroupOK, IInv
  <2>2. make_entry(spec) \in MemberEntry
    BY <2>1, MakeEntryType
  <2> QED BY <2>2 DEF make_entry
<1> HIDE DEF spec
<1>4. MembersOK(members) /\ Declared(members) = Declared(group.members) \cup {m}
  BY <1>2, <1>3 DEF MembersOK, Declared
<1>5. Fits(Declared(members))
  <2> DEFINE D == Declared(group.members)
  <2>1. IsFiniteSet(D) /\ Cardinality(D) \in Nat /\ m \notin D
    BY <1>1, <1>2, MemberAssumption, FS_Subset, FS_CardinalityType DEF IsDeclared
  <2> HIDE DEF D
  <2>2. Cardinality(D \cup {m}) = Cardinality(D) + 1
    BY <2>1, FS_AddElement
  <2>3. MaxMembersPerGroup \in Nat /\ BucketCount \in Nat
    BY LimitAssumption, BucketCountAssumption
  <2> HIDE DEF members
  <2>4. Cardinality(Declared(members)) = Cardinality(D) + 1
    BY <1>4, <2>2 DEF D
  <2>5. Cardinality(D) < MaxMembersPerGroup /\ Cardinality(D) < BucketCount
    BY <1>1 DEF D
  <2> QED BY <2>1, <2>3, <2>4, <2>5 DEF Fits
<1> HIDE DEF members
<1>6. Edited(g, edited, "ADD_MEMBER")
  BY <1>2, <1>4, <1>5, MembersEdit DEF Edited, Invalidations
<1> QED BY <1>1, <1>6, FinishForm DEF GroupEvent, OrdinaryEvents, MemberEvents

\* Changing the entry of a declared member declares nobody.
LEMMA EntryForm ==
  ASSUME IInv, MapsInv, NEW p \in Publisher, NEW g \in Group, NEW event \in MemberEvents,
         NEW m \in Member, IsDeclared(g, m), NEW entry \in MemberEntry,
         Preamble(p, g, event),
         finish_group_mutation(p, g, [groups[g] EXCEPT !.members[m] = entry], event)
  PROVE  MapStep
<1> DEFINE members == [groups[g].members EXCEPT ![m] = entry]
           edited  == [groups[g] EXCEPT !.members = members]
<1>1. /\ g \in Created /\ GroupOK(groups[g]) /\ GroupMap(groups[g])
      /\ MembersOK(groups[g].members) /\ Fits(Declared(groups[g].members))
      /\ Declared(groups[g].members) \in SUBSET Member
  BY Found
<1>2. m \in DOMAIN groups[g].members /\ m \in Declared(groups[g].members)
  BY DEF IsDeclared, Declared
<1>3. finish_group_mutation(p, g, edited, event)
  OBVIOUS
<1>4. MembersOK(members)
  BY <1>1, <1>2, OneEntryType
<1>5. Declared(members) \in SUBSET Declared(groups[g].members)
  BY <1>2 DEF Declared
<1>6. Fits(Declared(members))
  BY <1>1, <1>5, FitsSubset
<1> HIDE DEF members
<1>7. Edited(g, edited, event)
  BY <1>1, <1>4, <1>6, MembersEdit DEF Edited, MemberEvents, Invalidations
<1> QED BY <1>3, <1>7, FinishForm DEF GroupEvent, OrdinaryEvents

\* remove_member, enable_member and disable_member change one entry.
LEMMA OneMemberForm ==
  ASSUME IInv, MapsInv, NEW p \in Publisher, NEW g \in Group, NEW m \in Member,
         \/ remove_member(p, g, m) \/ enable_member(p, g, m) \/ disable_member(p, g, m)
  PROVE  MapStep
<1> DEFINE entry == groups[g].members[m]
           gone  == [entry EXCEPT !.declared = FALSE, !.enabled = TRUE, !.path_current = TRUE,
                                  !.multipath_current = TRUE, !.cost_current = TRUE]
           back  == [entry EXCEPT !.enabled = TRUE, !.path_current = TRUE,
                                  !.multipath_current = TRUE, !.cost_current = TRUE]
           off   == [entry EXCEPT !.enabled = FALSE]
<1>1. g \in Created /\ IsDeclared(g, m)
  BY DEF remove_member, enable_member, disable_member, Preamble
<1>2. entry \in MemberEntry
  BY <1>1 DEF IsDeclared, Declared, IInv, TypeOK, GroupOK, MembersOK
<1>3. gone \in MemberEntry /\ back \in MemberEntry /\ off \in MemberEntry
  BY <1>2 DEF MemberEntry
<1>4. CASE remove_member(p, g, m)
  <2>1. /\ Preamble(p, g, "REMOVE_MEMBER")
        /\ finish_group_mutation(p, g, [groups[g] EXCEPT !.members[m] = gone], "REMOVE_MEMBER")
    BY <1>4 DEF remove_member
  <2> HIDE DEF gone
  <2> QED BY <1>1, <1>3, <2>1, EntryForm DEF MemberEvents
<1>5. CASE enable_member(p, g, m)
  <2>1. /\ Preamble(p, g, "ENABLE_MEMBER")
        /\ finish_group_mutation(p, g, [groups[g] EXCEPT !.members[m] = back], "ENABLE_MEMBER")
    BY <1>5 DEF enable_member
  <2> HIDE DEF back
  <2> QED BY <1>1, <1>3, <2>1, EntryForm DEF MemberEvents
<1>6. CASE disable_member(p, g, m)
  <2>1. /\ Preamble(p, g, "DISABLE_MEMBER")
        /\ finish_group_mutation(p, g, [groups[g] EXCEPT !.members[m] = off], "DISABLE_MEMBER")
    BY <1>6 DEF disable_member
  <2> HIDE DEF off
  <2> QED BY <1>1, <1>3, <2>1, EntryForm DEF MemberEvents
<1> QED BY <1>4, <1>5, <1>6

\* A target set, applied, is the declared set, with every proof current.
LEMMA TargetApplied ==
  ASSUME NEW members, MembersOK(members), NEW target, TargetOK(target)
  PROVE  LET new == apply_target_set(members, target)
         IN  /\ MembersOK(new) /\ Declared(new) = DOMAIN target
             /\ {m \in Declared(new) : new[m].enabled /\ upstream_current(new[m])}
                  = {m \in DOMAIN target : target[m].enabled}
<1> DEFINE new == apply_target_set(members, target)
<1>1. MembersOK(new) /\ DOMAIN new = DOMAIN members \cup DOMAIN target
  BY ApplyTargetType DEF apply_target_set
<1>2. ASSUME NEW m \in DOMAIN target
      PROVE  new[m].declared /\ new[m].enabled = target[m].enabled /\ upstream_current(new[m])
  BY <1>2 DEF apply_target_set, make_entry, upstream_current
<1>3. ASSUME NEW m \in DOMAIN new, m \notin DOMAIN target
      PROVE  ~new[m].declared
  <2>1. members[m] \in MemberEntry
    BY <1>1, <1>3 DEF MembersOK
  <2> QED BY <1>1, <1>3, <2>1 DEF apply_target_set, MemberEntry
<1>4. Declared(new) = DOMAIN target
  BY <1>1, <1>2, <1>3 DEF Declared
<1> HIDE DEF new
<1>5. {m \in Declared(new) : new[m].enabled /\ upstream_current(new[m])}
        = {m \in DOMAIN target : target[m].enabled}
  BY <1>2, <1>4
<1> QED BY <1>1, <1>4, <1>5 DEF new

\* The target a request names fits, and so does the group it makes.
LEMMA TargetEdit ==
  ASSUME IInv, MapsInv, NEW p \in Publisher, NEW g \in Group, NEW event, Preamble(p, g, event),
         NEW S \in SUBSET Member, NEW E, ValidTarget(g, S, E)
  PROVE  LET target  == Specs(S, E, groups[g].policy)
             members == apply_target_set(groups[g].members, target)
             altered == [groups[g] EXCEPT !.members = members]
         IN  /\ TargetOK(target) /\ DOMAIN target = S /\ Fits(S)
             /\ Editable(altered) /\ SameMap(groups[g], altered)
             /\ altered.members = members
             /\ altered.plan = groups[g].plan /\ altered.currentness = groups[g].currentness
<1> DEFINE target  == Specs(S, E, groups[g].policy)
           members == apply_target_set(groups[g].members, target)
<1>1. GroupOK(groups[g]) /\ GroupMap(groups[g]) /\ MembersOK(groups[g].members)
  BY Found
<1>2. TargetOK(target) /\ DOMAIN target = S
  <2>1. groups[g].policy \in Nat
    BY <1>1 DEF GroupOK
  <2> QED BY <2>1, SpecsType DEF IInv
<1>3. Fits(S)
  BY DEF ValidTarget, Fits
<1> HIDE DEF target
<1>4. MembersOK(members) /\ Declared(members) = S
  BY <1>1, <1>2, TargetApplied
<1> HIDE DEF members
<1>5. LET altered == [groups[g] EXCEPT !.members = members]
      IN  /\ Editable(altered) /\ SameMap(groups[g], altered)
          /\ altered.members = members
          /\ altered.plan = groups[g].plan /\ altered.currentness = groups[g].currentness
  BY <1>1, <1>3, <1>4, MembersEdit
<1> QED BY <1>2, <1>3, <1>5 DEF target, members

\* apply_membership_set stores the trial it made.
LEMMA ApplyMembershipSetForm ==
  ASSUME IInv, MapsInv, NEW p \in Publisher, NEW g \in Group, NEW S \in SUBSET Member,
         NEW E \in SUBSET S, apply_membership_set(p, g, S, E)
  PROVE  MapStep
<1> DEFINE target  == Specs(S, E, groups[g].policy)
           altered == [groups[g] EXCEPT !.members = apply_target_set(@, target)]
<1>1. /\ Preamble(p, g, "ADD_MEMBER") /\ ValidTarget(g, S, E)
      /\ Store(g, Refreshed(p, altered, "ADD_MEMBER"))
  BY DEF apply_membership_set
<1>2. /\ Editable(altered) /\ SameMap(groups[g], altered)
      /\ altered.currentness = groups[g].currentness
  BY <1>1, TargetEdit
<1> HIDE DEF altered
<1>3. Edited(g, altered, "ADD_MEMBER")
  BY <1>2 DEF Edited, Invalidations
<1> QED BY <1>1, <1>3, FinishForm DEF GroupEvent, OrdinaryEvents, MemberEvents

-----------------------------------------------------------------------------
\* create_group begins a group with the declared set of the request.
LEMMA CreateGroupForm ==
  ASSUME IInv, MapsInv, NEW p \in Publisher, NEW g \in Group, NEW S \in SUBSET Member,
         NEW E \in SUBSET S, NEW policy \in Policy, create_group(p, g, S, E, policy)
  PROVE  MapStep
<1> DEFINE specs   == Specs(S, E, policy)
           members == [m \in S |-> make_entry(specs[m])]
           blank   == NewGroup(p, S, E, policy)
           group   == Refreshed(p, blank, "ADD_MEMBER")
           next    == [h \in Created \cup {g} |-> IF h = g THEN group ELSE groups[h]]
<1>1. /\ Live(p) /\ g \notin Created /\ groups' = next
      /\ Cardinality(S) >= MinActive
      /\ Cardinality(S) <= MaxMembersPerGroup /\ Cardinality(S) <= BucketCount
  BY DEF create_group
<1>2. policy \in Nat /\ TargetOK(specs) /\ DOMAIN specs = S
  BY ConstantsType, SpecsType DEF IInv
<1> HIDE DEF specs
<1>3. MembersOK(members) /\ Declared(members) = S /\ DOMAIN members = S
  <2>1. ASSUME NEW m \in S PROVE make_entry(specs[m]) \in MemberEntry /\ make_entry(specs[m]).declared
    <3>1. make_entry(specs[m]) \in MemberEntry
      BY <1>2, MakeEntryType DEF TargetOK, MemberSpec
    <3> QED BY <3>1 DEF make_entry
  <2> QED BY <2>1 DEF MembersOK, Declared
<1> HIDE DEF members
<1>4. blank = [lifecycle |-> "DECLARED", currentness |-> {},
        membership_generation |-> 0, assignment_generation |-> 0, authority_generation |-> 1,
        policy |-> policy, multipath_generation |-> set_generation,
        members |-> members, declared_digest |-> {}, assignment |-> Unassigned,
        authority_publisher |-> p, authority_boot |-> publishers[p], bound_epoch |-> epoch,
        plan |-> NoPlan, successor |-> NoGroup, predecessor |-> NoGroup]
  BY DEF NewGroup, members, specs
<1> HIDE DEF blank
<1>5. GroupOK(blank)
  <2>1. publishers[p] \in Boot /\ epoch \in Nat /\ set_generation \in Nat
    BY <1>1, LiveBoot, ObservationType DEF IInv
  <2>2. Unassigned \in Owners
    BY DEF Unassigned, Owners
  <2> QED BY <1>2, <1>3, <1>4, <2>1, <2>2 DEF GroupOK, GroupLifecycle, OpenLifecycles
<1>6. S # {}
  BY <1>1, LimitAssumption, FS_EmptySet
<1>7. Editable(blank) /\ Declared(blank.members) = DOMAIN blank.members
  BY <1>1, <1>3, <1>4, <1>5, <1>6 DEF Editable, Fits, PlanFits
<1>8. /\ Created' = Created \cup {g} /\ groups'[g] = group
      /\ \A h \in Created : groups'[h] = groups[h]
  BY <1>1 DEF Created
<1>9. Begins(g)
  BY <1>1, <1>7, <1>8 DEF Begins
<1> QED BY <1>8, <1>9 DEF MapStep, GroupStep, Stays

\* Re-proving members changes what they are bound to, and not what they are.
LEMMA ReprovedKeeps ==
  ASSUME TypeOK, NEW group, GroupOK(group), NEW R, NEW q \in Nat
  PROVE  LET new == Reproved(group, R, q)
         IN  /\ GroupOK(new) /\ SameMap(group, new)
             /\ SameEnrolment(group.members, new.members)
             /\ Declared(new.members) = Declared(group.members)
             /\ active_members(new.members) = active_members(group.members)
             /\ new.plan = group.plan
             /\ new.currentness \cap AuthorityCauses = group.currentness \cap AuthorityCauses
             /\ new.lifecycle = group.lifecycle
<1> DEFINE members == [m \in DOMAIN group.members |->
                         IF m \in R
                         THEN [group.members[m] EXCEPT !.bound = path_generation[PathOf[m]],
                                                       !.policy = q]
                         ELSE group.members[m]]
           causes == IF q = group.policy THEN group.currentness
                     ELSE group.currentness \ {"STALE_COST_CLASS"}
           new == [group EXCEPT !.policy = q, !.currentness = causes, !.members = members]
<1>1. Reproved(group, R, q) = new
  BY DEF Reproved
<1>2. GroupOK(new)
  BY <1>1, ReprovedInv
<1>3. ASSUME NEW m \in DOMAIN group.members
      PROVE  /\ members[m].declared = group.members[m].declared
             /\ members[m].enabled = group.members[m].enabled
             /\ members[m].state = group.members[m].state
  <2>1. group.members[m] \in MemberEntry
    BY DEF GroupOK, MembersOK
  <2> QED BY <2>1 DEF MemberEntry
<1>4. DOMAIN members = DOMAIN group.members
  OBVIOUS
<1> HIDE DEF members
<1>5. causes \cap AuthorityCauses = group.currentness \cap AuthorityCauses
  BY DEF AuthorityCauses
<1> HIDE DEF causes
<1>6. /\ SameMap(group, new) /\ new.members = members /\ new.plan = group.plan
      /\ new.currentness = causes /\ new.lifecycle = group.lifecycle
  BY DEF GroupOK, SameMap
<1> HIDE DEF new
<1> QED BY <1>1, <1>2, <1>3, <1>4, <1>5, <1>6 DEF SameEnrolment, Declared, active_members

\* Observing a group again reads the proof of every declared member off the upstream
\* domains, and changes neither the bindings nor the membership.
LEMMA ReobservedKeeps ==
  ASSUME NEW g, NEW group, GroupOK(group)
  PROVE  LET new == Reobserved(g, group)
         IN  /\ GroupOK(new) /\ SameMap(group, new) /\ new.plan = group.plan
             /\ new.multipath_generation = group.multipath_generation
             /\ SameEnrolment(group.members, new.members)
             /\ Declared(new.members) = Declared(group.members)
             /\ \A m \in Declared(group.members) :
                  /\ new.members[m].bound = group.members[m].bound
                  /\ new.members[m].path_current = PathProved(m, group.members[m].bound)
                  /\ new.members[m].multipath_current
                       = SetProved(g, group.multipath_generation, m)
<1> DEFINE members == [m \in DOMAIN group.members |->
              LET entry == group.members[m] IN
              IF ~entry.declared THEN entry
              ELSE [entry EXCEPT
                      !.path_current = PathProved(m, entry.bound),
                      !.multipath_current = SetProved(g, group.multipath_generation, m)]]
           path_stale == \E m \in Declared(members) : ~members[m].path_current
           set_stale  == \E m \in Declared(members) : ~members[m].multipath_current
           causes == (group.currentness \ {"STALE_PATH_AUTHORITY", "STALE_MULTIPATH_SET"})
                       \cup {cause \in {"STALE_PATH_AUTHORITY"} : path_stale}
                       \cup {cause \in {"STALE_MULTIPATH_SET"} : set_stale}
           new == [group EXCEPT !.members = members, !.currentness = causes]
<1>1. new = Reobserved(g, group)
  BY Zenon DEF Reobserved
<1>2. GroupOK(new)
  <2>1. GroupOK(Reobserved(g, group))
    BY ReobservedType
  <2> HIDE DEF members, causes, new
  <2> QED BY <1>1, <2>1
<1>3. ASSUME NEW m \in DOMAIN group.members
      PROVE  /\ members[m].declared = group.members[m].declared
             /\ members[m].enabled = group.members[m].enabled
             /\ members[m].bound = group.members[m].bound
             /\ group.members[m].declared =>
                  /\ members[m].path_current = PathProved(m, group.members[m].bound)
                  /\ members[m].multipath_current = SetProved(g, group.multipath_generation, m)
  <2>1. group.members[m] \in MemberEntry
    BY DEF GroupOK, MembersOK
  <2> QED BY <2>1 DEF MemberEntry
<1>4. DOMAIN members = DOMAIN group.members
  OBVIOUS
<1> HIDE DEF members, causes
<1>5. /\ SameMap(group, new) /\ new.members = members /\ new.plan = group.plan
      /\ new.multipath_generation = group.multipath_generation
  BY DEF GroupOK, SameMap
<1> HIDE DEF new
<1>6. Declared(members) = Declared(group.members)
  BY <1>3, <1>4 DEF Declared
<1>7. \A m \in Declared(group.members) :
        /\ members[m].bound = group.members[m].bound
        /\ members[m].path_current = PathProved(m, group.members[m].bound)
        /\ members[m].multipath_current = SetProved(g, group.multipath_generation, m)
  BY <1>3 DEF Declared
<1> QED BY <1>1, <1>2, <1>3, <1>4, <1>5, <1>6, <1>7 DEF SameEnrolment

\* revalidate_group edits proofs, bindings and causes.
LEMMA RevalidateForm ==
  ASSUME IInv, MapsInv, NEW p \in Publisher, NEW g \in Group, NEW R \in SUBSET Member,
         NEW q \in Policy, NEW newSet \in BOOLEAN, revalidate_group(p, g, R, q, newSet)
  PROVE  MapStep
<1> DEFINE group    == groups[g]
           reproved == Reproved(group, R, q)
           members  == [m \in DOMAIN reproved.members |->
                          [reproved.members[m] EXCEPT !.cost_current = TRUE]]
           set      == IF newSet THEN set_generation ELSE reproved.multipath_generation
           causes   == reproved.currentness \ {"STALE_EPOCH", "FENCED_PUBLISHER",
                                               "REVALIDATION_REQUIRED", "STALE_COST_CLASS"}
           rebound  == [reproved EXCEPT !.multipath_generation = set, !.currentness = causes,
                                        !.members = members]
           edited   == Reobserved(g, rebound)
<1>1. Preamble(p, g, "REVALIDATE") /\ finish_group_mutation(p, g, edited, "REVALIDATE")
  BY DEF revalidate_group, CanReprove
<1>2. GroupOK(group) /\ GroupMap(group) /\ Fits(Declared(group.members))
  BY <1>1, Found
<1>3. q \in Nat /\ set_generation \in Nat /\ TypeOK
  BY ConstantsType, ObservationType DEF IInv
<1>4. /\ GroupOK(reproved) /\ SameMap(group, reproved) /\ reproved.plan = group.plan
      /\ SameEnrolment(group.members, reproved.members)
  BY <1>2, <1>3, ReprovedKeeps
<1> HIDE DEF reproved
<1>5. /\ MembersOK(members) /\ DOMAIN members = DOMAIN reproved.members
      /\ \A m \in DOMAIN members : /\ members[m].declared = reproved.members[m].declared
                                   /\ members[m].enabled = reproved.members[m].enabled
  <2>1. ASSUME NEW m \in DOMAIN reproved.members
        PROVE  LET entry == [reproved.members[m] EXCEPT !.cost_current = TRUE]
               IN  /\ entry \in MemberEntry /\ entry.declared = reproved.members[m].declared
                   /\ entry.enabled = reproved.members[m].enabled
    <3>1. reproved.members[m] \in MemberEntry
      BY <1>4 DEF GroupOK, MembersOK
    <3> QED BY <3>1 DEF MemberEntry
  <2> QED BY <1>4, <2>1 DEF GroupOK, MembersOK
<1>6. causes \in SUBSET CurrentnessCause /\ set \in Nat
  BY <1>3, <1>4 DEF GroupOK
<1> HIDE DEF members, causes, set
<1>7. /\ GroupOK(rebound) /\ SameMap(reproved, rebound) /\ rebound.members = members
      /\ rebound.plan = reproved.plan
  BY <1>4, <1>5, <1>6 DEF GroupOK, SameMap
<1> HIDE DEF rebound
<1>8. SameEnrolment(group.members, rebound.members)
  BY <1>4, <1>5, <1>7 DEF SameEnrolment
<1>9. Declared(rebound.members) = Declared(group.members)
  BY <1>8 DEF SameEnrolment, Declared
<1>10. /\ GroupOK(edited) /\ SameMap(rebound, edited) /\ edited.plan = rebound.plan
       /\ Declared(edited.members) = Declared(rebound.members)
  BY <1>7, ReobservedKeeps
<1>11. Revalidated(g, edited)
  BY <1>7, <1>8 DEF Revalidated
<1> HIDE DEF edited
<1>12. SameMap(group, edited) /\ edited.plan = group.plan
  BY <1>4, <1>7, <1>10 DEF SameMap
<1>13. Editable(edited)
  BY <1>2, <1>9, <1>10, <1>12, EditOK
<1>14. Edited(g, edited, "REVALIDATE")
  BY <1>11, <1>12, <1>13 DEF Edited, Invalidations
<1> QED BY <1>1, <1>14, FinishForm DEF GroupEvent, OrdinaryEvents

\* A refused revalidation re-proves members and refreshes nothing.
LEMMA RefuseRevalidationForm ==
  ASSUME IInv, MapsInv, NEW p \in Publisher, NEW g \in Group, NEW R \in SUBSET Member,
         NEW q \in Policy, RefuseRevalidation(p, g, R, q)
  PROVE  MapStep
<1>1. g \in Created /\ groups' = [groups EXCEPT ![g] = Reproved(@, R, q)]
  BY DEF RefuseRevalidation, CanReprove, Preamble
<1>2. /\ Created' = Created /\ groups'[g] = Reproved(groups[g], R, q)
      /\ \A h \in Created \ {g} : groups'[h] = groups[h]
  BY <1>1 DEF Created
<1>3. q \in Nat
  BY ConstantsType
<1>4. Reproves(g)
  BY <1>2, <1>3 DEF Reproves
<1> QED BY <1>2, <1>4 DEF MapStep, GroupStep, Stays

-----------------------------------------------------------------------------
\* plan_rebalance records a plan that predicts the map of the trial: the one computed for
\* the members the target enables.
LEMMA PlanForm ==
  ASSUME IInv, MapsInv, NEW p \in Publisher, NEW g \in Group, NEW S \in SUBSET Member,
         NEW E \in SUBSET S, plan_rebalance(p, g, S, E)
  PROVE  MapStep
<1> DEFINE group   == groups[g]
           target  == Specs(S, E, group.policy)
           members == apply_target_set(group.members, target)
           altered == [group EXCEPT !.members = members]
           bound   == bind_authority(altered, p, publishers[p], epoch)
           trial   == refresh_group(bound, "ADD_MEMBER", TRUE)
           plan    == [from_membership |-> group.membership_generation,
                       from_assignment |-> group.assignment_generation,
                       from_authority  |-> group.authority_generation,
                       target_members  |-> target, assignment |-> trial.assignment,
                       epoch           |-> epoch]
           edited  == [group EXCEPT !.plan = plan]
<1>1. /\ Preamble(p, g, "PLAN_REBALANCE") /\ ValidTarget(g, S, E) /\ group.plan = NoPlan
      /\ finish_group_mutation(p, g, edited, "PLAN_REBALANCE")
  BY DEF plan_rebalance, Refreshed
<1>2. Live(p) /\ g \in Created /\ GroupOK(group) /\ GroupMap(group) /\ MembersOK(group.members)
  BY <1>1, Found
<1>3. /\ TargetOK(target) /\ DOMAIN target = S /\ Fits(S)
      /\ GroupOK(altered) /\ SameMap(group, altered) /\ altered.members = members
  BY <1>1, TargetEdit DEF Editable
<1>4. {m \in Declared(members) : members[m].enabled /\ upstream_current(members[m])}
        = {m \in DOMAIN target : target[m].enabled}
  BY <1>2, <1>3, TargetApplied
<1> HIDE DEF target, members, altered
<1>5. /\ GroupOK(bound) /\ bound.members = members /\ bound.assignment = group.assignment
  <2>1. GroupOK(bound)
    BY <1>2, <1>3, BindType, LiveBoot, ObservationType DEF IInv
  <2>2. SameMap(altered, bound) /\ bound.members = altered.members
    BY <1>3, BindKeeps
  <2> HIDE DEF bound
  <2> QED BY <1>3, <2>1, <2>2 DEF SameMap
<1> HIDE DEF bound
<1>6. /\ GroupOK(trial) /\ trial.members = derive_members(members)
      /\ trial.assignment = compute_rebalance(group.assignment, active_members(trial.members))
  <2>1. "ADD_MEMBER" \in GroupEvent
    BY DEF GroupEvent, OrdinaryEvents, MemberEvents
  <2>2. /\ GroupOK(trial) /\ trial.members = derive_members(bound.members)
        /\ trial.assignment = compute_rebalance(bound.assignment, active_members(trial.members))
    BY <1>5, <2>1, RefreshMap
  <2> QED BY <1>5, <2>2
<1> HIDE DEF trial
<1>7. active_members(trial.members) = {m \in DOMAIN target : target[m].enabled}
  BY <1>4, <1>5, <1>6, DeriveRecords DEF GroupOK
<1>8. PlanOK(plan) /\ plan # NoPlan
  <2>1. epoch \in Nat \ {0} /\ trial.assignment \in Owners
    BY <1>6, ObservationType DEF IInv, GroupOK
  <2>2. PlanOK(plan)
    BY <1>2, <1>3, <2>1 DEF PlanOK, GroupOK
  <2>3. plan.epoch # 0
    BY <2>1
  <2> QED BY <2>2, <2>3 DEF NoPlan
<1>9. /\ DOMAIN plan.target_members = S
      /\ plan.from_assignment = group.assignment_generation
      /\ plan.assignment = compute_rebalance(group.assignment, EnabledTargets(plan))
  BY <1>3, <1>6, <1>7 DEF EnabledTargets
<1> HIDE DEF plan
<1>10. /\ GroupOK(edited) /\ SameMap(group, edited) /\ edited.plan = plan
       /\ edited.members = group.members /\ edited.currentness = group.currentness
  BY <1>2, <1>8 DEF GroupOK, SameMap
<1> HIDE DEF edited
<1>11. Editable(edited)
  <2>1. group.assignment_generation \in Nat
    BY <1>2 DEF GroupOK
  <2>2. PlanFits(edited)
    BY <1>3, <1>9, <1>10, <2>1 DEF PlanFits, SameMap
  <2> QED BY <1>2, <1>10, <2>2 DEF Editable, GroupMap, Numbered, SameMap
<1>12. Edited(g, edited, "PLAN_REBALANCE")
  BY <1>1, <1>10, <1>11 DEF Edited, Invalidations
<1> QED BY <1>1, <1>12, FinishForm DEF GroupEvent, PlanEvents

\* commit_rebalance declares the target of the plan, which fits.
LEMMA CommitForm ==
  ASSUME IInv, MapsInv, NEW p \in Publisher, NEW g \in Group, commit_rebalance(p, g)
  PROVE  MapStep
<1> DEFINE group   == groups[g]
           members == apply_target_set(group.members, group.plan.target_members)
           edited  == [group EXCEPT !.members = members, !.plan = NoPlan]
<1>1. /\ Preamble(p, g, "COMMIT_REBALANCE") /\ group.plan # NoPlan
      /\ finish_group_mutation(p, g, edited, "COMMIT_REBALANCE")
  BY DEF commit_rebalance, PlanMatches
<1>2. GroupOK(group) /\ GroupMap(group) /\ MembersOK(group.members)
  BY <1>1, Found
<1>3. TargetOK(group.plan.target_members) /\ Fits(DOMAIN group.plan.target_members)
  BY <1>1, <1>2 DEF GroupOK, PlanOK, GroupMap, PlanFits
<1>4. MembersOK(members) /\ Declared(members) = DOMAIN group.plan.target_members
  BY <1>2, <1>3, TargetApplied
<1> HIDE DEF members
<1>5. /\ GroupOK(edited) /\ SameMap(group, edited) /\ edited.plan = NoPlan
      /\ edited.members = members /\ edited.currentness = group.currentness
  BY <1>2, <1>4 DEF GroupOK, SameMap
<1> HIDE DEF edited
<1>6. Editable(edited)
  BY <1>2, <1>3, <1>4, <1>5, EditOK
<1>7. Edited(g, edited, "COMMIT_REBALANCE")
  BY <1>5, <1>6 DEF Edited, Invalidations
<1> QED BY <1>1, <1>7, FinishForm DEF GroupEvent, PlanEvents

\* abort_rebalance drops the plan.
LEMMA AbortForm ==
  ASSUME IInv, MapsInv, NEW p \in Publisher, NEW g \in Group, abort_rebalance(p, g)
  PROVE  MapStep
<1> DEFINE edited == [groups[g] EXCEPT !.plan = NoPlan]
<1>1. /\ Preamble(p, g, "ABORT_REBALANCE")
      /\ finish_group_mutation(p, g, edited, "ABORT_REBALANCE")
  BY DEF abort_rebalance
<1>2. GroupOK(groups[g]) /\ GroupMap(groups[g]) /\ Fits(Declared(groups[g].members))
  BY <1>1, Found
<1>3. /\ GroupOK(edited) /\ SameMap(groups[g], edited) /\ edited.plan = NoPlan
      /\ edited.members = groups[g].members /\ edited.currentness = groups[g].currentness
  BY <1>2 DEF GroupOK, SameMap
<1> HIDE DEF edited
<1>4. Editable(edited)
  BY <1>2, <1>3, EditOK
<1>5. Edited(g, edited, "ABORT_REBALANCE")
  BY <1>3, <1>4 DEF Edited, Invalidations
<1> QED BY <1>1, <1>5, FinishForm DEF GroupEvent, PlanEvents

\* What the closing operations make of a group declares nobody.
LEMMA ClosedEdit ==
  ASSUME NEW group, GroupOK(group), GroupMap(group),
         NEW declared \in BOOLEAN, NEW enabled \in BOOLEAN, NEW plan \in {group.plan, NoPlan}
  PROVE  LET edited == [group EXCEPT !.members = AllMembers(@, declared, enabled), !.plan = plan,
                                     !.currentness = @ \cup {"RETIRED"}]
         IN  /\ Editable(edited) /\ SameMap(group, edited) /\ edited.plan = plan
             /\ group.currentness \subseteq edited.currentness
<1> DEFINE members == AllMembers(group.members, declared, enabled)
           edited  == [group EXCEPT !.members = AllMembers(@, declared, enabled), !.plan = plan,
                                    !.currentness = @ \cup {"RETIRED"}]
<1>1. GroupOK(edited)
  BY ClosedType
<1>2. Declared(members) \in SUBSET Declared(group.members)
  <2>1. \A m \in DOMAIN group.members : group.members[m] \in MemberEntry
    BY DEF GroupOK, MembersOK
  <2>2. ASSUME NEW entry \in MemberEntry
        PROVE  [entry EXCEPT !.declared = @ /\ declared, !.enabled = enabled].declared => entry.declared
    BY DEF MemberEntry
  <2> QED BY <2>1, <2>2 DEF AllMembers, Declared
<1>3. Fits(Declared(members))
  <2>1. Declared(group.members) \in SUBSET Member /\ Fits(Declared(group.members))
    BY DEF GroupOK, MembersOK, Declared, GroupMap
  <2> QED BY <1>2, <2>1, FitsSubset
<1> HIDE DEF members
<1>4. /\ SameMap(group, edited) /\ edited.members = members /\ edited.plan = plan
      /\ group.currentness \subseteq edited.currentness
  BY DEF GroupOK, SameMap, members
<1> HIDE DEF edited
<1>5. Editable(edited)
  BY <1>1, <1>3, <1>4, EditOK
<1> QED BY <1>4, <1>5 DEF edited

\* The operations that close a group and no more.
LEMMA ClosingForm ==
  ASSUME IInv, MapsInv, NEW p \in Publisher, NEW g \in Group,
         \/ withdraw_group(p, g) \/ complete_withdrawal(p, g)
         \/ revoke_group(p, g) \/ retire_group(p, g)
  PROVE  MapStep
<1> DEFINE Ended(declared, enabled, plan) ==
             [groups[g] EXCEPT !.members = AllMembers(@, declared, enabled), !.plan = plan,
                               !.currentness = @ \cup {"RETIRED"}]
<1>1. GroupOK(groups[g]) /\ GroupMap(groups[g])
  BY Found DEF withdraw_group, complete_withdrawal, revoke_group, retire_group
<1>2. ASSUME NEW declared \in BOOLEAN, NEW enabled \in BOOLEAN, NEW plan \in {groups[g].plan, NoPlan},
             NEW event \in CloseEvents \cup {"COMPLETE_WITHDRAW"}
      PROVE  Edited(g, Ended(declared, enabled, plan), event)
  <2>1. /\ Editable(Ended(declared, enabled, plan))
        /\ SameMap(groups[g], Ended(declared, enabled, plan))
        /\ groups[g].currentness \subseteq Ended(declared, enabled, plan).currentness
    BY <1>1, ClosedEdit
  <2> HIDE DEF Ended
  <2> QED BY <2>1 DEF Edited, CloseEvents, Invalidations
<1>3. CASE withdraw_group(p, g)
  <2>1. Editable(groups[g])
    BY <1>1 DEF Editable, GroupMap, Numbered
  <2>2. Edited(g, groups[g], "WITHDRAW")
    BY <2>1 DEF Edited, SameMap, Invalidations
  <2> QED BY <1>3, <2>2, FinishForm DEF withdraw_group, GroupEvent, CloseEvents
<1>4. CASE complete_withdrawal(p, g)
  <2> DEFINE edited == [groups[g] EXCEPT !.members = AllMembers(@, FALSE, TRUE),
                                         !.currentness = @ \cup {"RETIRED"}]
  <2>1. Preamble(p, g, "COMPLETE_WITHDRAW")
        /\ finish_group_mutation(p, g, edited, "COMPLETE_WITHDRAW")
    BY <1>4 DEF complete_withdrawal
  <2>2. edited = Ended(FALSE, TRUE, groups[g].plan)
    BY <1>1 DEF GroupOK
  <2> HIDE DEF edited, Ended
  <2>3. Edited(g, edited, "COMPLETE_WITHDRAW")
    BY <1>2, <2>2
  <2> QED BY <2>1, <2>3, FinishForm DEF GroupEvent
<1>5. CASE revoke_group(p, g)
  <2> DEFINE edited == [groups[g] EXCEPT !.members = AllMembers(@, TRUE, FALSE),
                                         !.currentness = @ \cup {"RETIRED"}]
  <2>1. Preamble(p, g, "REVOKE") /\ finish_group_mutation(p, g, edited, "REVOKE")
    BY <1>5 DEF revoke_group
  <2>2. edited = Ended(TRUE, FALSE, groups[g].plan)
    BY <1>1 DEF GroupOK
  <2> HIDE DEF edited, Ended
  <2>3. Edited(g, edited, "REVOKE")
    BY <1>2, <2>2 DEF CloseEvents
  <2> QED BY <2>1, <2>3, FinishForm DEF GroupEvent, CloseEvents
<1>6. CASE retire_group(p, g)
  <2> DEFINE edited == Ended(FALSE, FALSE, NoPlan)
  <2>1. Preamble(p, g, "RETIRE") /\ finish_group_mutation(p, g, edited, "RETIRE")
    BY <1>6 DEF retire_group
  <2> HIDE DEF Ended
  <2>2. Edited(g, edited, "RETIRE")
    BY <1>2 DEF CloseEvents
  <2> HIDE DEF edited
  <2> QED BY <2>1, <2>2, FinishForm DEF GroupEvent, CloseEvents
<1> QED BY <1>3, <1>4, <1>5, <1>6

\* A supersession closes one group and names it in the other.
LEMMA SupersedeForm ==
  ASSUME IInv, MapsInv, NEW p \in Publisher, NEW g \in Group, NEW h \in Group,
         supersede_group(p, g, h)
  PROVE  MapStep
<1> DEFINE closed == [groups[g] EXCEPT !.members = AllMembers(@, TRUE, FALSE), !.plan = NoPlan,
                                       !.currentness = @ \cup {"RETIRED"}]
           edited == [groups[g] EXCEPT !.members = AllMembers(@, TRUE, FALSE), !.plan = NoPlan,
                                       !.currentness = @ \cup {"RETIRED"}, !.successor = h]
           final  == Finished(p, edited, "SUPERSEDE")
<1>1. /\ Preamble(p, g, "SUPERSEDE") /\ h # g /\ h \in Created
      /\ groups' = [groups EXCEPT ![g] = final, ![h].predecessor = g]
  BY DEF supersede_group, is_open, Finished
<1>2. g \in Created /\ GroupOK(groups[g]) /\ GroupMap(groups[g])
  BY <1>1, Found
<1>3. /\ Editable(closed) /\ SameMap(groups[g], closed) /\ closed.plan = NoPlan
      /\ groups[g].currentness \subseteq closed.currentness
  BY <1>2, ClosedEdit
<1>4. edited = [closed EXCEPT !.successor = h]
  BY <1>2 DEF GroupOK
<1> HIDE DEF closed, edited
<1>5. /\ GroupOK(edited) /\ SameMap(closed, edited) /\ edited.members = closed.members
      /\ edited.plan = closed.plan /\ edited.currentness = closed.currentness
  BY <1>3, <1>4 DEF Editable, GroupOK, SameMap
<1>6. Editable(edited)
  <2>1. PlanFits(edited)
    BY <1>3, <1>5, SamePlanFits DEF Editable
  <2> QED BY <1>3, <1>5, <2>1 DEF Editable, SameMap
<1>7. Edited(g, edited, "SUPERSEDE")
  BY <1>3, <1>5, <1>6 DEF Edited, SameMap, Invalidations
<1> HIDE DEF final
<1>8. /\ Created' = Created /\ groups'[g] = final
      /\ groups'[h] = [groups[h] EXCEPT !.predecessor = g]
      /\ \A k \in Created \ {g, h} : groups'[k] = groups[k]
  BY <1>1, <1>2 DEF Created
<1>9. Finishes(g)
  BY <1>1, <1>7, <1>8 DEF Finishes, final, GroupEvent, CloseEvents
<1>10. Stays(h)
  BY <1>2, <1>8 DEF Stays
<1> QED BY <1>8, <1>9, <1>10 DEF MapStep, GroupStep, Stays

-----------------------------------------------------------------------------
(* Notices, epochs, publishers.                                             *)

\* An observation that changes flags and causes of a group keeps its map.
LEMMA ObservedMap ==
  ASSUME NEW group, GroupOK(group), NEW members, NEW causes
  PROVE  LET altered == [group EXCEPT !.members = members, !.currentness = causes]
         IN  SameMap(group, altered) /\ altered.members = members
BY DEF SameMap, GroupOK

\* Observing a path keeps the map and the membership.
LEMMA PathObservedMap ==
  ASSUME NEW group, GroupOK(group), NEW path
  PROVE  LET altered == PathObserved(group, path)
         IN  /\ SameMap(group, altered) /\ SameEnrolment(group.members, altered.members)
             /\ \A m \in DOMAIN group.members :
                  /\ altered.members[m].bound = group.members[m].bound
                  /\ group.members[m].declared /\ PathOf[m] = path =>
                       altered.members[m].path_current = PathProved(m, group.members[m].bound)
<1> DEFINE members == [m \in DOMAIN group.members |->
             LET entry == group.members[m] IN
             IF entry.declared /\ PathOf[m] = path
             THEN [entry EXCEPT !.path_current = PathProved(m, entry.bound)] ELSE entry]
           stale  == \E m \in Declared(members) : ~members[m].path_current
           causes == IF stale THEN group.currentness \cup {"STALE_PATH_AUTHORITY"}
                     ELSE group.currentness \ {"STALE_PATH_AUTHORITY"}
<1>1. PathObserved(group, path) = [group EXCEPT !.members = members, !.currentness = causes]
  BY DEF PathObserved, GroupOK
<1>2. ASSUME NEW m \in DOMAIN group.members
      PROVE  /\ members[m].declared = group.members[m].declared
             /\ members[m].enabled = group.members[m].enabled
             /\ members[m].bound = group.members[m].bound
             /\ group.members[m].declared /\ PathOf[m] = path =>
                  members[m].path_current = PathProved(m, group.members[m].bound)
  <2>1. group.members[m] \in MemberEntry
    BY DEF GroupOK, MembersOK
  <2> QED BY <2>1 DEF MemberEntry
<1>3. DOMAIN members = DOMAIN group.members
  OBVIOUS
<1> HIDE DEF members, causes
<1>4. LET altered == [group EXCEPT !.members = members, !.currentness = causes]
      IN  SameMap(group, altered) /\ altered.members = members
  BY ObservedMap
<1> QED BY <1>1, <1>2, <1>3, <1>4 DEF SameEnrolment

\* Observing the multipath set keeps them too.
LEMMA MultipathObservedMap ==
  ASSUME NEW g, GroupOK(groups[g])
  PROVE  /\ SameMap(groups[g], MultipathObserved(g))
         /\ SameEnrolment(groups[g].members, MultipathObserved(g).members)
<1> DEFINE group == groups[g]
           stale == \/ group.multipath_generation # set_generation
                    \/ \E m \in Declared(group.members) :
                         ~SetProved(g, group.multipath_generation, m)
           had   == "STALE_MULTIPATH_SET" \in group.currentness
           lost  == [m \in DOMAIN group.members |->
                       IF group.members[m].declared
                       THEN [group.members[m] EXCEPT !.multipath_current = FALSE]
                       ELSE group.members[m]]
           kept  == [m \in DOMAIN group.members |->
                       [group.members[m] EXCEPT !.multipath_current = TRUE]]
           more  == group.currentness \cup {"STALE_MULTIPATH_SET"}
           less  == group.currentness \ {"STALE_MULTIPATH_SET"}
<1>1. MultipathObserved(g) \in
        {group, [group EXCEPT !.members = lost, !.currentness = more],
                [group EXCEPT !.members = kept, !.currentness = less]}
  <2>1. /\ [group EXCEPT !.members = lost, !.currentness = more]
             = [group EXCEPT !.currentness = more, !.members = lost]
        /\ [group EXCEPT !.members = kept, !.currentness = less]
             = [group EXCEPT !.currentness = less, !.members = kept]
    BY DEF GroupOK
  <2>2. CASE stale = had
    BY <2>2, Zenon DEF MultipathObserved
  <2>3. CASE stale /\ ~had
    BY <2>1, <2>3 DEF MultipathObserved, GroupOK
  <2>4. CASE ~stale /\ had
    BY <2>1, <2>4 DEF MultipathObserved, GroupOK
  <2>5. stale \in BOOLEAN /\ had \in BOOLEAN
    OBVIOUS
  <2> HIDE DEF stale, had, lost, kept, more, less
  <2> QED BY <2>2, <2>3, <2>4, <2>5
<1>2. SameEnrolment(group.members, lost) /\ SameEnrolment(group.members, kept)
  <2>1. \A m \in DOMAIN group.members : group.members[m] \in MemberEntry
    BY DEF GroupOK, MembersOK
  <2> QED BY <2>1 DEF SameEnrolment, MemberEntry
<1>3. SameMap(group, group) /\ SameEnrolment(group.members, group.members)
  BY DEF SameMap, SameEnrolment
<1> HIDE DEF lost, kept, more, less
<1>4. LET one == [group EXCEPT !.members = lost, !.currentness = more]
          two == [group EXCEPT !.members = kept, !.currentness = less]
      IN  /\ SameMap(group, one) /\ one.members = lost
          /\ SameMap(group, two) /\ two.members = kept
  BY ObservedMap
<1> QED BY <1>1, <1>2, <1>3, <1>4

\* So does observing the cost policy.
LEMMA CostObservedMap ==
  ASSUME NEW group, GroupOK(group), NEW q
  PROVE  /\ SameMap(group, CostObserved(group, q))
         /\ SameEnrolment(group.members, CostObserved(group, q).members)
<1> DEFINE stale == group.policy # q
           had   == "STALE_COST_CLASS" \in group.currentness
           lost  == [m \in DOMAIN group.members |->
                       IF group.members[m].declared
                       THEN [group.members[m] EXCEPT !.cost_current = FALSE]
                       ELSE group.members[m]]
           kept  == [m \in DOMAIN group.members |->
                       [group.members[m] EXCEPT !.cost_current = TRUE]]
           more  == group.currentness \cup {"STALE_COST_CLASS"}
           less  == group.currentness \ {"STALE_COST_CLASS"}
<1>1. CostObserved(group, q) \in
        {group, [group EXCEPT !.members = lost, !.currentness = more],
                [group EXCEPT !.members = kept, !.currentness = less]}
  <2>1. CASE stale = had
    BY <2>1 DEF CostObserved
  <2>2. CASE stale /\ ~had
    BY <2>2 DEF CostObserved, GroupOK
  <2>3. CASE ~stale /\ had
    BY <2>3 DEF CostObserved, GroupOK
  <2> QED BY <2>1, <2>2, <2>3
<1>2. SameEnrolment(group.members, lost) /\ SameEnrolment(group.members, kept)
  <2>1. \A m \in DOMAIN group.members : group.members[m] \in MemberEntry
    BY DEF GroupOK, MembersOK
  <2> QED BY <2>1 DEF SameEnrolment, MemberEntry
<1>3. SameMap(group, group) /\ SameEnrolment(group.members, group.members)
  BY DEF SameMap, SameEnrolment
<1> HIDE DEF lost, kept, more, less
<1>4. LET one == [group EXCEPT !.members = lost, !.currentness = more]
          two == [group EXCEPT !.members = kept, !.currentness = less]
      IN  /\ SameMap(group, one) /\ one.members = lost
          /\ SameMap(group, two) /\ two.members = kept
  BY ObservedMap
<1> QED BY <1>1, <1>2, <1>3, <1>4

\* A group that is noticed stays as it was or is refreshed.
LEMMA NoticedForm ==
  ASSUME NEW g \in Created, is_open(g), NEW altered, NEW event \in Invalidations,
         SameStanding(groups[g], altered), SameMap(groups[g], altered),
         SameEnrolment(groups[g].members, altered.members),
         groups'[g] = Noticed(g, altered, event)
  PROVE  GroupStep(g)
<1>1. CASE altered = groups[g]
  BY <1>1 DEF Noticed, GroupStep, Stays
<1>2. CASE altered # groups[g]
  <2>1. groups'[g] = refresh_group(altered, event, TRUE)
    BY <1>2 DEF Noticed
  <2> QED BY <2>1 DEF GroupStep, Notices
<1> QED BY <1>1, <1>2

\* A delivery is a step of the groups as soon as each delivered one takes a form.
LEMMA DeliverForm ==
  ASSUME NEW next, DOMAIN next \subseteq Created, Deliver(next),
         \A g \in DOMAIN next : groups'[g] = next[g] => GroupStep(g)
  PROVE  MapStep
<1>1. /\ Created' = Created /\ \A g \in DOMAIN next : groups'[g] = next[g]
      /\ \A g \in Created \ DOMAIN next : groups'[g] = groups[g]
  BY DEF Deliver, Created
<1> QED BY <1>1 DEF MapStep, GroupStep, Stays

\* The three notices.
LEMMA NoticeForm ==
  ASSUME IInv, NEW p \in Publisher, Notice(p)
  PROVE  MapStep
<1>1. ASSUME NEW path \in Path, notify_path_authority_change(p, path)
      PROVE  MapStep
  <2> DEFINE next == [g \in Dependents(p, path_index[path]) |->
                        Noticed(g, PathObserved(groups[g], path), "INVALIDATE_PATH")]
  <2>1. Deliver(next) /\ DOMAIN next \subseteq Created
    BY <1>1 DEF notify_path_authority_change, Dependents, is_open
  <2>2. ASSUME NEW g \in DOMAIN next, groups'[g] = next[g]
        PROVE  GroupStep(g)
    <3>1. g \in Created /\ is_open(g) /\ GroupOK(groups[g])
      BY <2>1, <2>2 DEF Dependents, IInv, TypeOK
    <3>2. next[g] = Noticed(g, PathObserved(groups[g], path), "INVALIDATE_PATH")
      BY <2>2
    <3> HIDE DEF next
    <3> QED BY <2>2, <3>1, <3>2, PathObservedStanding, PathObservedMap, NoticedForm
            DEF Invalidations
  <2> HIDE DEF next
  <2> QED BY <2>1, <2>2, DeliverForm
<1>2. CASE notify_multipath_set_change(p)
  <2> DEFINE next == [g \in Dependents(p, MultipathGroups) |->
                        Noticed(g, MultipathObserved(g), "INVALIDATE_MULTIPATH")]
  <2>1. Deliver(next) /\ DOMAIN next \subseteq Created
    BY <1>2 DEF notify_multipath_set_change, Dependents, is_open
  <2>2. ASSUME NEW g \in DOMAIN next, groups'[g] = next[g]
        PROVE  GroupStep(g)
    <3>1. g \in Created /\ is_open(g) /\ GroupOK(groups[g])
      BY <2>1, <2>2 DEF Dependents, IInv, TypeOK
    <3>2. next[g] = Noticed(g, MultipathObserved(g), "INVALIDATE_MULTIPATH")
      BY <2>2
    <3> HIDE DEF next
    <3> QED BY <2>2, <3>1, <3>2, MultipathObservedStanding, MultipathObservedMap, NoticedForm
            DEF Invalidations
  <2> HIDE DEF next
  <2> QED BY <2>1, <2>2, DeliverForm
<1>3. ASSUME NEW q \in Policy, notify_cost_generation_change(p, q)
      PROVE  MapStep
  <2> DEFINE next == [g \in Dependents(p, Created) |->
                        Noticed(g, CostObserved(groups[g], q), "INVALIDATE_COST")]
  <2>1. Deliver(next) /\ DOMAIN next \subseteq Created
    BY <1>3 DEF notify_cost_generation_change, Dependents, is_open
  <2>2. ASSUME NEW g \in DOMAIN next, groups'[g] = next[g]
        PROVE  GroupStep(g)
    <3>1. g \in Created /\ is_open(g) /\ GroupOK(groups[g])
      BY <2>1, <2>2 DEF Dependents, IInv, TypeOK
    <3>2. next[g] = Noticed(g, CostObserved(groups[g], q), "INVALIDATE_COST")
      BY <2>2
    <3> HIDE DEF next
    <3> QED BY <2>2, <3>1, <3>2, CostObservedStanding, CostObservedMap, NoticedForm
            DEF Invalidations
  <2> HIDE DEF next
  <2> QED BY <2>1, <2>2, DeliverForm
<1> QED BY <1>1, <1>2, <1>3 DEF Notice

\* An epoch advance and a fence disarm groups; a registration touches none.
LEMMA RegistryForm ==
  ASSUME IInv, Registry
  PROVE  MapStep
<1>1. CASE set_epoch
  <2> DEFINE counted(g) == [groups[g] EXCEPT !.authority_generation = @ + 1]
             next == [g \in {h \in Group : is_open(h)} |-> Disarmed(counted(g), "STALE_EPOCH")]
  <2>1. Deliver(next) /\ DOMAIN next \subseteq Created
    BY <1>1 DEF set_epoch, is_open
  <2>2. ASSUME NEW g \in DOMAIN next, groups'[g] = next[g]
        PROVE  GroupStep(g)
    <3>1. GroupOK(groups[g])
      BY <2>1, <2>2 DEF IInv, TypeOK
    <3>2. groups[g].authority_generation + 1 \in Nat
      BY <3>1 DEF GroupOK
    <3>3. /\ GroupOK(counted(g)) /\ SameMap(groups[g], counted(g))
          /\ counted(g).members = groups[g].members
          /\ counted(g).currentness = groups[g].currentness
      BY <3>1, <3>2 DEF GroupOK, SameMap
    <3>4. groups'[g] = Disarmed(counted(g), "STALE_EPOCH")
      BY <2>2
    <3> HIDE DEF counted, next
    <3> QED BY <3>3, <3>4 DEF GroupStep, Disarms
  <2> HIDE DEF next
  <2> QED BY <2>1, <2>2, DeliverForm
<1>2. ASSUME NEW p \in Publisher, NEW b \in Boot, register_publisher(p, b)
      PROVE  MapStep
  BY <1>2 DEF register_publisher, MapStep, GroupStep, Stays, Created
<1>3. ASSUME NEW p \in Publisher, fence_publisher(p)
      PROVE  MapStep
  <2> DEFINE next == [g \in {h \in authority_index[p] :
                               groups[h].authority_boot = publishers[p] /\ is_open(h)} |->
                        Disarmed(groups[g], "FENCED_PUBLISHER")]
  <2>1. Deliver(next) /\ DOMAIN next \subseteq Created
    BY <1>3 DEF fence_publisher, is_open
  <2>2. ASSUME NEW g \in DOMAIN next, groups'[g] = next[g]
        PROVE  GroupStep(g)
    <3>1. GroupOK(groups[g]) /\ SameMap(groups[g], groups[g])
      BY <2>1, <2>2 DEF IInv, TypeOK, SameMap
    <3>2. groups'[g] = Disarmed(groups[g], "FENCED_PUBLISHER")
      BY <2>2
    <3> QED BY <3>1, <3>2 DEF GroupStep, Disarms
  <2> HIDE DEF next
  <2> QED BY <2>1, <2>2, DeliverForm
<1> QED BY <1>1, <1>2, <1>3 DEF Registry

\* Every step is a step of the groups.
LEMMA NextForm ==
  ASSUME IInv, MapsInv, [Next]_vars
  PROVE  MapStep
<1>1. CASE Upstream \/ UNCHANGED vars
  BY <1>1 DEF Upstream, PathMoves, PathAuthorization, SetMoves, vars, MapStep, GroupStep, Stays,
              Created
<1>2. ASSUME NEW p \in Publisher, NEW g \in Group, Membership(p, g)
      PROVE  MapStep
  BY <1>2, CreateGroupForm, AddMemberForm, OneMemberForm, ApplyMembershipSetForm DEF Membership
<1>3. ASSUME NEW p \in Publisher, NEW g \in Group, Revalidation(p, g)
      PROVE  MapStep
  BY <1>3, RevalidateForm, RefuseRevalidationForm DEF Revalidation
<1>4. ASSUME NEW p \in Publisher, NEW g \in Group, Rebalance(p, g)
      PROVE  MapStep
  BY <1>4, PlanForm, CommitForm, AbortForm DEF Rebalance
<1>5. ASSUME NEW p \in Publisher, NEW g \in Group, Closing(p, g)
      PROVE  MapStep
  BY <1>5, ClosingForm, SupersedeForm DEF Closing
<1>6. ASSUME NEW p \in Publisher, Notice(p)
      PROVE  MapStep
  BY <1>6, NoticeForm
<1>7. CASE Registry
  BY <1>7, RegistryForm
<1> QED BY <1>1, <1>2, <1>3, <1>4, <1>5, <1>6, <1>7 DEF Next

-----------------------------------------------------------------------------
(* The forms keep the invariant of a group, and its generations count.      *)

\* A change of a group that leaves its map, its members and its authority alone.
LEMMA UntouchedMap ==
  ASSUME NEW old, GroupMap(old), NEW new, SameMap(old, new), new.plan \in {old.plan, NoPlan},
         DOMAIN new.members = DOMAIN old.members,
         Declared(new.members) = Declared(old.members),
         active_members(new.members) = active_members(old.members),
         authority_current(new.currentness) => authority_current(old.currentness)
  PROVE  GroupMap(new) /\ Counts(old, new)
<1>1. PlanFits(new)
  BY SamePlanFits DEF GroupMap
<1>2. Numbered(new) /\ Counts(old, new)
  BY DEF GroupMap, Numbered, SameMap, Counts
<1> QED BY <1>1, <1>2 DEF GroupMap, SameMap

\* An heir knows its predecessor, and is otherwise what it was.
LEMMA StaysKeeps ==
  ASSUME NEW g \in Created, GroupOK(groups[g]), GroupMap(groups[g]), Stays(g)
  PROVE  GroupMap(groups'[g]) /\ Counts(groups[g], groups'[g])
<1> DEFINE old == groups[g]
           new == groups'[g]
<1>1. /\ SameMap(old, new) /\ new.plan = old.plan /\ new.members = old.members
      /\ new.currentness = old.currentness
  BY DEF Stays, SameMap, GroupOK
<1> HIDE DEF old, new
<1>2. GroupMap(new) /\ Counts(old, new)
  BY <1>1, UntouchedMap DEF old
<1> QED BY <1>2 DEF old, new

\* A refused revalidation re-proves members, and touches nothing else.
LEMMA ReprovesKeeps ==
  ASSUME TypeOK, NEW g \in Created, GroupOK(groups[g]), GroupMap(groups[g]), Reproves(g)
  PROVE  GroupMap(groups'[g]) /\ Counts(groups[g], groups'[g])
<1>1. PICK R \in SUBSET Member : \E q \in Nat : groups'[g] = Reproved(groups[g], R, q)
  BY DEF Reproves
<1>2. PICK q \in Nat : groups'[g] = Reproved(groups[g], R, q)
  BY <1>1
<1> DEFINE old == groups[g]
           new == groups'[g]
<1>3. /\ SameMap(old, new) /\ SameEnrolment(old.members, new.members)
      /\ Declared(new.members) = Declared(old.members)
      /\ active_members(new.members) = active_members(old.members)
      /\ new.plan = old.plan
      /\ new.currentness \cap AuthorityCauses = old.currentness \cap AuthorityCauses
  BY <1>2, ReprovedKeeps
<1> HIDE DEF new
<1>4. GroupMap(new) /\ Counts(old, new)
  BY <1>3, UntouchedMap DEF SameEnrolment, authority_current
<1> QED BY <1>4 DEF new

\* A finished edit: what is counted is counted from the group that was edited.
LEMMA FinishesKeeps ==
  ASSUME IInv, NEW g \in Created, GroupMap(groups[g]), Finishes(g)
  PROVE  GroupMap(groups'[g]) /\ Counts(groups[g], groups'[g])
<1>1. PICK p \in Publisher, event \in GroupEvent : \E edited :
        /\ Preamble(p, g, event) /\ Edited(g, edited, event)
        /\ groups'[g] = Finished(p, edited, event)
  BY DEF Finishes
<1>2. PICK edited : /\ Preamble(p, g, event) /\ Edited(g, edited, event)
                    /\ groups'[g] = Finished(p, edited, event)
  BY <1>1
<1>3. Live(p) /\ TypeOK /\ Editable(edited) /\ SameMap(groups[g], edited)
  BY <1>2 DEF Preamble, Edited, IInv
<1>4. GroupMap(groups'[g]) /\ Counts(edited, groups'[g])
  BY <1>2, <1>3, FinishedMap
<1> QED BY <1>3, <1>4 DEF Counts, SameMap

\* A refresh for a notice.
LEMMA NoticesKeeps ==
  ASSUME NEW g \in Created, GroupOK(groups[g]), GroupMap(groups[g]), Notices(g)
  PROVE  GroupMap(groups'[g]) /\ Counts(groups[g], groups'[g])
<1>1. PICK event \in Invalidations : \E altered :
        /\ SameStanding(groups[g], altered) /\ SameMap(groups[g], altered)
        /\ SameEnrolment(groups[g].members, altered.members)
        /\ groups'[g] = refresh_group(altered, event, TRUE)
  BY DEF Notices
<1>2. PICK altered :
        /\ SameStanding(groups[g], altered) /\ SameMap(groups[g], altered)
        /\ SameEnrolment(groups[g].members, altered.members)
        /\ groups'[g] = refresh_group(altered, event, TRUE)
  BY <1>1
<1> DEFINE old == groups[g]
           new == groups'[g]
<1>3. Fits(Declared(altered.members)) /\ DOMAIN altered.members = DOMAIN old.members
  BY <1>2 DEF SameStanding, SameEnrolment, GroupMap
<1>4. Editable(altered)
  BY <1>2, <1>3, EditOK DEF SameStanding
<1>5. event \in GroupEvent
  BY DEF GroupEvent, OrdinaryEvents
<1>6. /\ GroupOK(new) /\ Numbered(new) /\ PlanFits(new) /\ Counts(altered, new)
      /\ DOMAIN new.members = DOMAIN old.members
      /\ Declared(new.members) = Declared(altered.members)
      /\ active_members(new.members) \subseteq Declared(new.members)
      /\ Serves(new.assignment, active_members(new.members))
  BY <1>2, <1>3, <1>4, <1>5, RefreshServes
<1> HIDE DEF new
<1>7. Counts(old, new)
  BY <1>2, <1>6 DEF Counts, SameMap
<1>8. \A b \in Bucket : new.assignment[b] \in DOMAIN new.members \cup {Nil}
  BY <1>6, ServesOwners DEF Declared
<1>9. GroupMap(new)
  BY <1>3, <1>6, <1>8 DEF GroupMap
<1> QED BY <1>7, <1>9 DEF new

\* A group that is disarmed keeps its map, and serves nobody.
LEMMA DisarmsKeeps ==
  ASSUME NEW g \in Created, GroupOK(groups[g]), GroupMap(groups[g]), Disarms(g)
  PROVE  /\ GroupMap(groups'[g]) /\ Counts(groups[g], groups'[g])
         /\ groups'[g].plan = NoPlan /\ ~authority_current(groups'[g].currentness)
         /\ active_members(groups'[g].members) = {}
<1>1. PICK cause \in {"STALE_EPOCH", "FENCED_PUBLISHER"} : \E counted :
        /\ GroupOK(counted) /\ SameMap(groups[g], counted)
        /\ counted.members = groups[g].members /\ counted.currentness = groups[g].currentness
        /\ groups'[g] = Disarmed(counted, cause)
  BY DEF Disarms
<1>2. PICK counted :
        /\ GroupOK(counted) /\ SameMap(groups[g], counted)
        /\ counted.members = groups[g].members /\ counted.currentness = groups[g].currentness
        /\ groups'[g] = Disarmed(counted, cause)
  BY <1>1
<1> DEFINE old     == groups[g]
           new     == groups'[g]
           causes  == counted.currentness \cup {cause, "REVALIDATION_REQUIRED"}
           members == Unproven(counted.members)
           bare    == [counted EXCEPT !.currentness = causes, !.plan = NoPlan,
                                      !.members = members]
<1>3. new = refresh_group(bare, "INVALIDATE_EPOCH", FALSE)
  BY <1>2 DEF Disarmed
<1>4. MembersOK(members) /\ Declared(members) = Declared(counted.members)
      /\ DOMAIN members = DOMAIN counted.members
  BY <1>2, UnprovenType DEF GroupOK, Unproven
<1>5. \A m \in DOMAIN members : ~upstream_current(members[m])
  <2>1. ASSUME NEW m \in DOMAIN counted.members
        PROVE  ~[counted.members[m] EXCEPT !.path_current = FALSE, !.multipath_current = FALSE,
                                           !.cost_current = FALSE].path_current
    <3>1. counted.members[m] \in MemberEntry
      BY <1>2 DEF GroupOK, MembersOK
    <3> QED BY <3>1 DEF MemberEntry
  <2> QED BY <2>1 DEF Unproven, upstream_current
<1>6. causes \subseteq CurrentnessCause /\ "REVALIDATION_REQUIRED" \in causes
  BY <1>2 DEF GroupOK, CurrentnessCause
<1> HIDE DEF causes, members
<1>7. /\ GroupOK(bare) /\ bare.plan = NoPlan /\ bare.currentness = causes
      /\ bare.members = members /\ SameMap(old, bare)
  BY <1>2, <1>4, <1>6 DEF GroupOK, SameMap
<1> HIDE DEF bare
<1>8. "INVALIDATE_EPOCH" \in GroupEvent
  BY DEF GroupEvent, OrdinaryEvents, Invalidations
<1>9. /\ new.members = derive_members(members) /\ new.plan = NoPlan
      /\ new.currentness = causes /\ Counts(bare, new) /\ new.assignment = bare.assignment
  <2> DEFINE fresh == refresh_group(bare, "INVALIDATE_EPOCH", FALSE)
  <2>1. /\ fresh.members = derive_members(bare.members) /\ fresh.plan = bare.plan
        /\ fresh.currentness = bare.currentness /\ Counts(bare, fresh)
        /\ fresh.assignment = IF FALSE
                              THEN compute_rebalance(bare.assignment, active_members(fresh.members))
                              ELSE bare.assignment
    BY <1>7, <1>8, RefreshMap
  <2> HIDE DEF fresh
  <2> QED BY <1>3, <1>7, <2>1 DEF fresh
<1> HIDE DEF new
<1>10. /\ DOMAIN new.members = DOMAIN old.members
       /\ Declared(new.members) = Declared(old.members)
       /\ active_members(new.members) = {}
  <2>1. active_members(new.members)
          = {m \in Declared(members) : members[m].enabled /\ upstream_current(members[m])}
    BY <1>4, <1>9, DeriveRecords
  <2>2. active_members(new.members) = {}
    BY <1>5, <2>1 DEF Declared
  <2> QED BY <1>2, <1>4, <1>9, <2>2, DeriveRecords
<1>11. ~authority_current(new.currentness)
  BY <1>6, <1>9 DEF authority_current, AuthorityCauses
<1>12. Counts(old, new)
  BY <1>7, <1>9 DEF Counts, SameMap
<1>13. Numbered(new) /\ PlanFits(new)
  BY <1>9, <1>10, <1>12 DEF Counts, Numbered, GroupMap, PlanFits
<1>14. GroupMap(new)
  BY <1>7, <1>9, <1>10, <1>11, <1>13 DEF GroupMap, SameMap
<1> QED BY <1>9, <1>10, <1>11, <1>12, <1>14 DEF new

\* Whatever form its step takes.
LEMMA FormsKeepMap ==
  ASSUME IInv, NEW g \in Created, GroupMap(groups[g]), GroupStep(g)
  PROVE  GroupMap(groups'[g]) /\ Counts(groups[g], groups'[g])
BY StaysKeeps, FinishesKeeps, ReprovesKeeps, NoticesKeeps, DisarmsKeeps DEF GroupStep, IInv, TypeOK

\* A group begins with a map that serves it.
LEMMA BeginsMap ==
  ASSUME IInv, NEW g, Begins(g)
  PROVE  GroupMap(groups'[g])
<1>1. PICK p \in Publisher : \E blank :
        /\ Live(p) /\ Editable(blank) /\ Declared(blank.members) = DOMAIN blank.members
        /\ groups'[g] = Refreshed(p, blank, "ADD_MEMBER")
  BY DEF Begins
<1>2. PICK blank :
        /\ Live(p) /\ Editable(blank) /\ Declared(blank.members) = DOMAIN blank.members
        /\ groups'[g] = Refreshed(p, blank, "ADD_MEMBER")
  BY <1>1
<1> DEFINE bound == bind_authority(blank, p, publishers[p], epoch)
           new   == groups'[g]
<1>3. /\ SameMap(blank, bound) /\ bound.members = blank.members /\ bound.plan = blank.plan
  BY <1>2, BindKeeps DEF Editable
<1>4. GroupOK(bound)
  BY <1>2, BindType, LiveBoot, ObservationType DEF Editable, IInv
<1>5. new = refresh_group(bound, "ADD_MEMBER", TRUE)
  BY <1>2 DEF Refreshed
<1> HIDE DEF bound
<1>6. Editable(bound)
  <2>1. PlanFits(bound)
    BY <1>2, <1>3, SamePlanFits DEF Editable
  <2> QED BY <1>2, <1>3, <1>4, <2>1 DEF Editable, SameMap
<1>7. "ADD_MEMBER" \in GroupEvent
  BY DEF GroupEvent, OrdinaryEvents, MemberEvents
<1>8. /\ Numbered(new) /\ PlanFits(new)
      /\ DOMAIN new.members = DOMAIN blank.members
      /\ Declared(new.members) = DOMAIN blank.members
      /\ active_members(new.members) \subseteq Declared(new.members)
      /\ Serves(new.assignment, active_members(new.members))
  <2> DEFINE fresh == refresh_group(bound, "ADD_MEMBER", TRUE)
  <2>1. /\ Numbered(fresh) /\ PlanFits(fresh)
        /\ DOMAIN fresh.members = DOMAIN bound.members
        /\ Declared(fresh.members) = Declared(bound.members)
        /\ active_members(fresh.members) \subseteq Declared(fresh.members)
        /\ Serves(fresh.assignment, active_members(fresh.members))
    BY <1>6, <1>7, RefreshServes
  <2> HIDE DEF fresh
  <2> QED BY <1>2, <1>3, <1>5, <2>1 DEF fresh
<1> HIDE DEF new
<1>9. \A b \in Bucket : new.assignment[b] \in DOMAIN new.members \cup {Nil}
  BY <1>8, ServesOwners
<1>10. Fits(DOMAIN blank.members)
  BY <1>2 DEF Editable
<1>11. GroupMap(new)
  BY <1>8, <1>9, <1>10 DEF GroupMap, Fits
<1> QED BY <1>11 DEF new

-----------------------------------------------------------------------------
(* The theorems on maps.                                                    *)

\* The empty governor has no maps.
LEMMA InitMaps == Init => MapsInv
BY DEF Init, MapsInv, Created

\* Every step keeps the maps.
LEMMA NextMaps ==
  ASSUME IInv, MapsInv, [Next]_vars
  PROVE  /\ MapsInv' /\ MapStep
         /\ \A g \in Created : Counts(groups[g], groups'[g])
<1>1. /\ Created \subseteq Created' /\ \A g \in Created : GroupStep(g)
      /\ \A g \in Created' \ Created : Begins(g)
  BY NextForm DEF MapStep
<1>2. \A g \in Created : GroupMap(groups'[g]) /\ Counts(groups[g], groups'[g])
  BY <1>1, FormsKeepMap DEF MapsInv
<1>3. \A g \in Created' \ Created : GroupMap(groups'[g])
  BY <1>1, BeginsMap
<1>4. \A g \in Created' : GroupMap(groups'[g])
  BY <1>2, <1>3
<1>5. MapsInv'
  BY <1>4 DEF MapsInv, GroupMap, Numbered, PlanFits, Fits, EnabledTargets, Serves
<1> QED BY <1>2, <1>5, NextForm

\* The maps of every state the governor reaches satisfy the invariant of their groups.
THEOREM MapsHold == Spec => [](IInv /\ MapsInv)
<1>1. Init => IInv /\ MapsInv
  BY InitInv, InitMaps
<1>2. (IInv /\ MapsInv) /\ [Next]_vars => (IInv /\ MapsInv)'
  BY NextInv, NextMaps
<1> QED BY <1>1, <1>2, PTL DEF Spec

\* The records of withdrawn members never push a group over its member limit:
\* evict_withdrawn makes room whatever was declared and withdrawn before.
THEOREM EntriesAlwaysBounded == Spec => []EntriesAreBounded
<1>1. MapsInv => EntriesAreBounded
  BY DEF MapsInv, GroupMap, EntriesAreBounded
<1> QED BY <1>1, MapsHold, PTL

\* A map never names a member that was forgotten, in a group that is disarmed and keeps
\* an old map as in one that was just recomputed.
THEOREM OwnersAlwaysPresent == Spec => []OwnersArePresent
<1>1. MapsInv => OwnersArePresent
  BY DEF MapsInv, GroupMap, OwnersArePresent, is_open
<1> QED BY <1>1, MapsHold, PTL

\* An authoritative state calls for a current authority.
LEMMA AuthoritativeIsCurrent ==
  ASSUME IInv, NEW g \in Created, groups[g].lifecycle \in AuthoritativeLifecycles
  PROVE  authority_current(groups[g].currentness)
<1>1. GroupInv(groups[g], epoch) /\ groups[g].lifecycle \notin ClosedLifecycles
  BY DEF IInv, GroupsInv, AuthoritativeLifecycles, ClosedLifecycles
<1>2. groups[g].lifecycle = derived_lifecycle(groups[g]) /\ PlanCurrent(groups[g], epoch)
  BY <1>1 DEF GroupInv
<1>3. CASE groups[g].plan # NoPlan
  BY <1>2, <1>3 DEF PlanCurrent
<1>4. CASE groups[g].plan = NoPlan
  BY <1>2, <1>4 DEF derived_lifecycle, derive_lifecycle, AuthoritativeLifecycles
<1> QED BY <1>3, <1>4

\* So the map of an authoritative group is a valid assignment to its active members.
LEMMA AuthoritativeServes ==
  ASSUME IInv, MapsInv, NEW g \in Created, groups[g].lifecycle \in AuthoritativeLifecycles
  PROVE  check_assignment(groups[g].assignment, active_members(groups[g].members))
<1> DEFINE active == active_members(groups[g].members)
<1>1. Serves(groups[g].assignment, active)
  BY AuthoritativeIsCurrent DEF MapsInv, GroupMap
<1>2. groups[g].assignment \in Owners /\ active \in SUBSET Member
  BY DEF IInv, TypeOK, GroupOK, MembersOK, active_members
<1> HIDE DEF active
<1>3. check_assignment(groups[g].assignment, active)
  BY <1>1, <1>2, ServesIsValid
<1> QED BY <1>3 DEF active

\* While a group is ACTIVE, DEGRADED or REBALANCING its map is a valid balanced assignment
\* to exactly its active members: it was recomputed when its authority came back, and at
\* every change of the active members since.
THEOREM AuthoritativeMapsValid == Spec => []AuthoritativeMapValid
<1>1. IInv /\ MapsInv => AuthoritativeMapValid
  BY AuthoritativeServes DEF AuthoritativeMapValid
<1> QED BY <1>1, MapsHold, PTL

\* A plan whose generations still match predicts the map its commit computes: an
\* invalidation that changed the map in between also moved its generation.
THEOREM PlansPredict == Spec => []PlanPredicts
<1>1. MapsInv => PlanPredicts
  <2> SUFFICES ASSUME MapsInv, NEW g \in Created, PlanMatches(groups[g])
               PROVE  groups[g].plan.assignment =
                        compute_rebalance(groups[g].assignment,
                          {m \in DOMAIN groups[g].plan.target_members :
                             groups[g].plan.target_members[m].enabled})
    BY DEF PlanPredicts
  <2> QED BY DEF MapsInv, GroupMap, PlanFits, PlanMatches, EnabledTargets
<1> QED BY <1>1, MapsHold, PTL

\* The assignment generation advances, by one, exactly when the map changes, and the
\* membership generation exactly when the declared set does, in every step of the governor.
THEOREM GenerationsAreHonest == Spec => GenerationsNeverLie
<1>1. ASSUME IInv, MapsInv, [Next]_vars, NEW g \in Created
      PROVE  LET old == groups[g]
                 new == groups'[g]
             IN  /\ new.assignment_generation - old.assignment_generation
                      = IF new.assignment = old.assignment THEN 0 ELSE 1
                 /\ new.membership_generation - old.membership_generation
                      = IF Declared(new.members) = Declared(old.members) THEN 0 ELSE 1
  <2> DEFINE old == groups[g]
             new == groups'[g]
  <2>1. Counts(old, new)
    BY <1>1, NextMaps
  <2>2. /\ old.assignment_generation \in Nat /\ old.membership_generation \in Nat
        /\ old.declared_digest = Declared(old.members)
    BY <1>1 DEF IInv, TypeOK, GroupOK, MapsInv, GroupMap, Numbered
  <2> HIDE DEF old, new
  <2>3. new.assignment_generation = IF new.assignment = old.assignment
          THEN old.assignment_generation ELSE old.assignment_generation + 1
    BY <2>1 DEF Counts
  <2>4. new.membership_generation = IF Declared(new.members) = Declared(old.members)
          THEN old.membership_generation ELSE old.membership_generation + 1
    BY <2>1, <2>2 DEF Counts
  <2>5. new.assignment_generation - old.assignment_generation
          = IF new.assignment = old.assignment THEN 0 ELSE 1
    BY <2>2, <2>3
  <2>6. new.membership_generation - old.membership_generation
          = IF Declared(new.members) = Declared(old.members) THEN 0 ELSE 1
    BY <2>2, <2>4
  <2> QED BY <2>5, <2>6 DEF old, new
<1>2. IInv /\ MapsInv /\ [Next]_vars =>
        [\A g \in Created :
           LET old == groups[g]
               new == groups'[g]
           IN /\ new.assignment_generation - old.assignment_generation
                   = IF new.assignment = old.assignment THEN 0 ELSE 1
              /\ new.membership_generation - old.membership_generation
                   = IF Declared(new.members) = Declared(old.members) THEN 0 ELSE 1]_vars
  BY <1>1
<1> QED BY <1>2, MapsHold, PTL DEF Spec, GenerationsNeverLie

-----------------------------------------------------------------------------
(* What a step may do to the members of a group with a plan, and to the     *)
(* proofs of the active ones.                                               *)

\* The same members declared, and enabled.
SameMembership(old, new) ==
  /\ Declared(new) = Declared(old)
  /\ \A m \in Declared(old) : new[m].enabled = old[m].enabled

\* Members that stay enrolled and lose only withdrawn entries are the same members.
LEMMA EnrolmentKept ==
  ASSUME NEW old, NEW middle, NEW new, SameEnrolment(old, middle),
         DOMAIN new \subseteq DOMAIN middle, Declared(new) = Declared(middle),
         \A m \in DOMAIN new : Record(new[m]) = Record(middle[m])
  PROVE  SameMembership(old, new)
<1>1. Declared(middle) = Declared(old)
  BY DEF SameEnrolment, Declared
<1>2. ASSUME NEW m \in Declared(old)
      PROVE  new[m].enabled = old[m].enabled
  <2>1. m \in DOMAIN new /\ m \in DOMAIN old
    BY <1>1 DEF Declared
  <2>2. new[m].enabled = middle[m].enabled
    BY <2>1 DEF Record
  <2> QED BY <2>1, <2>2 DEF SameEnrolment
<1> QED BY <1>1, <1>2 DEF SameMembership

\* What a revalidation leaves: the members it found, those that are active with the
\* proofs it observed.
LEMMA RevalidatedMap ==
  ASSUME TypeOK, NEW g, NEW p \in Publisher, Live(p), NEW edited, Editable(edited),
         Revalidated(g, edited)
  PROVE  LET new == Finished(p, edited, "REVALIDATE")
         IN  /\ SameMembership(groups[g].members, new.members)
             /\ \A m \in active_members(new.members) :
                  /\ PathProved(m, new.members[m].bound)
                  /\ SetProved(g, new.multipath_generation, m)
<1> DEFINE new == Finished(p, edited, "REVALIDATE")
<1>1. PICK rebound : /\ GroupOK(rebound) /\ edited = Reobserved(g, rebound)
                     /\ SameEnrolment(groups[g].members, rebound.members)
  BY DEF Revalidated
<1>2. /\ edited.multipath_generation = rebound.multipath_generation
      /\ SameEnrolment(rebound.members, edited.members)
      /\ Declared(edited.members) = Declared(rebound.members)
      /\ \A m \in Declared(rebound.members) :
           /\ edited.members[m].bound = rebound.members[m].bound
           /\ edited.members[m].path_current = PathProved(m, rebound.members[m].bound)
           /\ edited.members[m].multipath_current
                = SetProved(g, rebound.multipath_generation, m)
  BY <1>1, ReobservedKeeps
<1>3. "REVALIDATE" \in GroupEvent
  BY DEF GroupEvent, OrdinaryEvents
<1>4. /\ new.multipath_generation = edited.multipath_generation
      /\ Declared(new.members) = Declared(edited.members)
      /\ DOMAIN new.members \subseteq DOMAIN edited.members
      /\ \A m \in DOMAIN new.members : Record(new.members[m]) = Record(edited.members[m])
      /\ active_members(new.members)
           = {m \in Declared(edited.members) :
                edited.members[m].enabled /\ upstream_current(edited.members[m])}
  BY <1>3, FinishedMap
<1> HIDE DEF new
<1>5. SameMembership(groups[g].members, new.members)
  <2>1. SameEnrolment(groups[g].members, edited.members)
    BY <1>1, <1>2 DEF SameEnrolment
  <2> QED BY <1>4, <2>1, EnrolmentKept
<1>6. ASSUME NEW m \in active_members(new.members)
      PROVE  PathProved(m, new.members[m].bound) /\ SetProved(g, new.multipath_generation, m)
  <2>1. /\ m \in DOMAIN new.members /\ m \in Declared(rebound.members)
        /\ edited.members[m].path_current /\ edited.members[m].multipath_current
    BY <1>2, <1>4 DEF active_members, upstream_current
  <2>2. new.members[m].bound = edited.members[m].bound
    BY <1>4, <2>1 DEF Record
  <2> QED BY <1>2, <1>4, <2>1, <2>2
<1> QED BY <1>5, <1>6 DEF new

\* A refresh for a notice keeps the members, and the authority.
LEMMA NoticesMembers ==
  ASSUME NEW g \in Created, GroupOK(groups[g]), Notices(g)
  PROVE  /\ SameMembership(groups[g].members, groups'[g].members)
         /\ authority_current(groups'[g].currentness)
              = authority_current(groups[g].currentness)
<1>1. PICK event \in Invalidations : \E altered :
        /\ SameStanding(groups[g], altered) /\ SameMap(groups[g], altered)
        /\ SameEnrolment(groups[g].members, altered.members)
        /\ groups'[g] = refresh_group(altered, event, TRUE)
  BY DEF Notices
<1>2. PICK altered :
        /\ SameStanding(groups[g], altered) /\ SameMap(groups[g], altered)
        /\ SameEnrolment(groups[g].members, altered.members)
        /\ groups'[g] = refresh_group(altered, event, TRUE)
  BY <1>1
<1> DEFINE new == refresh_group(altered, event, TRUE)
<1>3. event \in GroupEvent /\ GroupOK(altered)
  BY <1>2 DEF GroupEvent, OrdinaryEvents, SameStanding
<1>4. new.members = derive_members(altered.members) /\ new.currentness = altered.currentness
  BY <1>3, RefreshMap
<1> HIDE DEF new
<1>5. /\ DOMAIN new.members = DOMAIN altered.members
      /\ Declared(new.members) = Declared(altered.members)
      /\ \A m \in DOMAIN altered.members : Record(new.members[m]) = Record(altered.members[m])
  BY <1>3, <1>4, DeriveRecords DEF GroupOK
<1>6. SameMembership(groups[g].members, new.members)
  BY <1>2, <1>5, EnrolmentKept
<1> QED BY <1>2, <1>4, <1>6 DEF new, SameStanding, authority_current

\* While a plan is pending a step keeps the members, ends the plan or closes the group.
LEMMA PlanFreezes ==
  ASSUME IInv, NEW g \in Created, GroupMap(groups[g]), GroupStep(g),
         is_open(g), groups[g].plan # NoPlan
  PROVE  \/ groups'[g].plan = NoPlan
         \/ groups'[g].lifecycle \in ClosedLifecycles
         \/ SameMembership(groups[g].members, groups'[g].members)
<1>1. GroupOK(groups[g]) /\ TypeOK
  BY DEF IInv, TypeOK
<1>2. CASE Stays(g)
  <2>1. groups'[g].members = groups[g].members
    BY <1>1, <1>2 DEF Stays, GroupOK
  <2> QED BY <2>1 DEF SameMembership
<1>3. CASE Finishes(g)
  <2>1. PICK p \in Publisher, event \in GroupEvent : \E edited :
          /\ Preamble(p, g, event) /\ Edited(g, edited, event)
          /\ groups'[g] = Finished(p, edited, event)
    BY <1>3 DEF Finishes
  <2>2. PICK edited : /\ Preamble(p, g, event) /\ Edited(g, edited, event)
                      /\ groups'[g] = Finished(p, edited, event)
    BY <2>1
  <2>3. Live(p) /\ Editable(edited) /\ event \notin MemberEvents /\ event \notin Invalidations
        /\ event # "PLAN_REBALANCE" /\ event # "CREATE"
    <3>1. event \notin MemberEvents
      BY <2>2, EventGuards
    <3>2. event # "CREATE"
      BY <1>1, <2>2
         DEF Preamble, lifecycle_allows, AllowedEvents, OrdinaryEvents, MemberEvents,
             Invalidations, PlanEvents, CloseEvents, GroupOK, GroupLifecycle, OpenLifecycles,
             ClosedLifecycles
    <3> QED BY <2>2, <3>1, <3>2 DEF Preamble, Edited
  <2>4. /\ groups'[g].plan = edited.plan
        /\ event \in DOMAIN EventTarget => groups'[g].lifecycle = EventTarget[event]
    BY <1>1, <2>2, <2>3, FinishedMap
  <2>5. CASE event \in {"COMMIT_REBALANCE", "ABORT_REBALANCE"}
    BY <2>2, <2>4, <2>5 DEF Edited
  <2>6. CASE event \in ClosingEvents
    BY <2>4, <2>6 DEF ClosingEvents, CloseEvents, EventTarget, ClosedLifecycles
  <2>7. CASE event = "REVALIDATE"
    <3>1. Revalidated(g, edited)
      BY <2>2, <2>7 DEF Edited
    <3> QED BY <1>1, <2>2, <2>3, <2>7, <3>1, RevalidatedMap
  <2>8. \/ event \in {"COMMIT_REBALANCE", "ABORT_REBALANCE"}
        \/ event \in ClosingEvents
        \/ event = "REVALIDATE"
    BY <2>3 DEF GroupEvent, OrdinaryEvents, PlanEvents, ClosingEvents
  <2> QED BY <2>5, <2>6, <2>7, <2>8
<1>4. CASE Reproves(g)
  <2>1. PICK R \in SUBSET Member : \E q \in Nat : groups'[g] = Reproved(groups[g], R, q)
    BY <1>4 DEF Reproves
  <2>2. PICK q \in Nat : groups'[g] = Reproved(groups[g], R, q)
    BY <2>1
  <2>3. /\ SameEnrolment(groups[g].members, groups'[g].members)
        /\ Declared(groups'[g].members) = Declared(groups[g].members)
    BY <1>1, <2>2, ReprovedKeeps
  <2> QED BY <2>3 DEF SameMembership, SameEnrolment, Declared
<1>5. CASE Notices(g)
  BY <1>1, <1>5, NoticesMembers
<1>6. CASE Disarms(g)
  BY <1>1, <1>6, DisarmsKeeps
<1> QED BY <1>2, <1>3, <1>4, <1>5, <1>6 DEF GroupStep

\* Authority that comes back was revalidated.
LEMMA Rearmed ==
  ASSUME IInv, NEW g \in Created, GroupMap(groups[g]), GroupStep(g),
         ~authority_current(groups[g].currentness), authority_current(groups'[g].currentness)
  PROVE  \A m \in active_members(groups'[g].members) :
           /\ PathProved(m, groups'[g].members[m].bound)
           /\ SetProved(g, groups'[g].multipath_generation, m)
<1>1. GroupOK(groups[g]) /\ TypeOK
  BY DEF IInv, TypeOK
<1>2. ~Stays(g)
  <2>1. Stays(g) => groups'[g].currentness = groups[g].currentness
    BY <1>1 DEF Stays, GroupOK
  <2> QED BY <2>1
<1>3. ~Reproves(g)
  <2>1. ASSUME NEW R \in SUBSET Member, NEW q \in Nat, groups'[g] = Reproved(groups[g], R, q)
        PROVE  FALSE
    <3>1. groups'[g].currentness \cap AuthorityCauses = groups[g].currentness \cap AuthorityCauses
      BY <1>1, <2>1, ReprovedKeeps
    <3> QED BY <3>1 DEF authority_current
  <2> QED BY <2>1 DEF Reproves
<1>4. ~Notices(g) /\ ~Disarms(g)
  BY <1>1, NoticesMembers, DisarmsKeeps
<1>5. PICK p \in Publisher, event \in GroupEvent : \E edited :
        /\ Preamble(p, g, event) /\ Edited(g, edited, event)
        /\ groups'[g] = Finished(p, edited, event)
  BY <1>2, <1>3, <1>4 DEF GroupStep, Finishes
<1>6. PICK edited : /\ Preamble(p, g, event) /\ Edited(g, edited, event)
                    /\ groups'[g] = Finished(p, edited, event)
  BY <1>5
<1>7. Live(p) /\ Editable(edited)
  BY <1>6 DEF Preamble, Edited
<1>8. event = "REVALIDATE"
  <2>1. groups'[g].currentness = edited.currentness
    BY <1>1, <1>6, <1>7, FinishedMap
  <2>2. event # "REVALIDATE" =>
          groups[g].currentness \cap AuthorityCauses \subseteq edited.currentness
    BY <1>6 DEF Edited
  <2> QED BY <2>1, <2>2 DEF authority_current
<1>9. Revalidated(g, edited)
  BY <1>6, <1>8 DEF Edited
<1> QED BY <1>1, <1>6, <1>7, <1>8, <1>9, RevalidatedMap

\* While a plan is pending no operation declares, withdraws, enables or disables a member,
\* short of one that ends the plan or closes the group: lifecycle_allows refuses the
\* member events, and a revalidation, a notice and a disarming keep the membership.
THEOREM PlansFreezeMembership == Spec => PlanFreezesMembership
<1>1. ASSUME IInv, MapsInv, [Next]_vars, NEW g \in Created, is_open(g), groups[g].plan # NoPlan
      PROVE  \/ groups'[g].plan = NoPlan
             \/ is_open(g)' = FALSE
             \/ \A m \in Member :
                  /\ IsDeclared(g, m) = IsDeclared(g, m)'
                  /\ IsDeclared(g, m) =>
                       groups[g].members[m].enabled = groups'[g].members[m].enabled
  <2>1. GroupStep(g) /\ GroupMap(groups[g])
    BY <1>1, NextMaps DEF MapStep, MapsInv
  <2>2. \/ groups'[g].plan = NoPlan
        \/ groups'[g].lifecycle \in ClosedLifecycles
        \/ SameMembership(groups[g].members, groups'[g].members)
    BY <1>1, <2>1, PlanFreezes
  <2>3. groups'[g].lifecycle \in ClosedLifecycles => is_open(g)' = FALSE
    BY DEF is_open, is_administratively_closed
  <2>4. SameMembership(groups[g].members, groups'[g].members) =>
          \A m \in Member : /\ IsDeclared(g, m) = IsDeclared(g, m)'
                            /\ IsDeclared(g, m) =>
                                 groups[g].members[m].enabled = groups'[g].members[m].enabled
    BY DEF SameMembership, IsDeclared, Declared
  <2> QED BY <2>2, <2>3, <2>4
<1>2. IInv /\ MapsInv /\ [Next]_vars =>
        [\A g \in Created : is_open(g) /\ groups[g].plan # NoPlan =>
           \/ groups'[g].plan = NoPlan
           \/ is_open(g)' = FALSE
           \/ \A m \in Member :
                /\ IsDeclared(g, m) = IsDeclared(g, m)'
                /\ IsDeclared(g, m) =>
                     groups[g].members[m].enabled = groups'[g].members[m].enabled]_vars
  BY <1>1
<1> QED BY <1>2, MapsHold, PTL DEF Spec, PlanFreezesMembership

\* Authority comes back only by a revalidation, and every member then active holds a
\* path and a multipath proof that reobserve_group read in that very step.
THEOREM RearmingReobserves == Spec => RearmedMeansReobserved
<1>1. ASSUME IInv, MapsInv, [Next]_vars, NEW g \in Created,
             ~authority_current(groups[g].currentness),
             authority_current(groups'[g].currentness)
      PROVE  \A m \in active_members(groups'[g].members) :
               /\ PathProved(m, groups'[g].members[m].bound)
               /\ SetProved(g, groups'[g].multipath_generation, m)
  <2>1. GroupStep(g) /\ GroupMap(groups[g])
    BY <1>1, NextMaps DEF MapStep, MapsInv
  <2> QED BY <1>1, <2>1, Rearmed
<1>2. IInv /\ MapsInv /\ [Next]_vars =>
        [\A g \in Created :
           ~authority_current(groups[g].currentness) /\ authority_current(groups'[g].currentness) =>
             \A m \in active_members(groups'[g].members) :
               /\ PathProved(m, groups'[g].members[m].bound)
               /\ SetProved(g, groups'[g].multipath_generation, m)]_vars
  BY <1>1
<1> QED BY <1>2, MapsHold, PTL DEF Spec, RearmedMeansReobserved

-----------------------------------------------------------------------------
(* A path notice that reached every dependent.                              *)

\* Only a path notice marks a path as noticed.
LEMMA OthersNoticeNothing ==
  ASSUME [Next]_vars,
         \A p \in Publisher, path \in Path : ~notify_path_authority_change(p, path)
  PROVE  noticed' \subseteq noticed
<1>1. CASE UNCHANGED vars
  BY <1>1 DEF vars
<1>2. CASE Upstream
  BY <1>2 DEF Upstream, PathMoves, PathAuthorization, SetMoves
<1>3. CASE Registry
  BY <1>3 DEF Registry, set_epoch, register_publisher, fence_publisher
<1>4. ASSUME NEW p \in Publisher, Notice(p)
      PROVE  noticed' \subseteq noticed
  BY <1>4 DEF Notice, notify_multipath_set_change, notify_cost_generation_change
<1>5. ASSUME NEW g, NEW refreshed, Store(g, refreshed)
      PROVE  noticed' \subseteq noticed
  BY <1>5 DEF Store
<1>6. ASSUME NEW p \in Publisher, NEW g \in Group, Membership(p, g)
      PROVE  noticed' \subseteq noticed
  <2>1. ASSUME NEW S, NEW E, NEW policy, create_group(p, g, S, E, policy)
        PROVE  noticed' \subseteq noticed
    BY <2>1 DEF create_group
  <2> QED BY <1>5, <1>6, <2>1
          DEF Membership, add_member, remove_member, enable_member, disable_member,
              apply_membership_set, finish_group_mutation
<1>7. ASSUME NEW p \in Publisher, NEW g \in Group, Revalidation(p, g)
      PROVE  noticed' \subseteq noticed
  BY <1>5, <1>7 DEF Revalidation, revalidate_group, RefuseRevalidation, finish_group_mutation
<1>8. ASSUME NEW p \in Publisher, NEW g \in Group, Rebalance(p, g)
      PROVE  noticed' \subseteq noticed
  BY <1>5, <1>8 DEF Rebalance, plan_rebalance, commit_rebalance, abort_rebalance,
                    finish_group_mutation
<1>9. ASSUME NEW p \in Publisher, NEW g \in Group, Closing(p, g)
      PROVE  noticed' \subseteq noticed
  <2>1. ASSUME NEW h, supersede_group(p, g, h)
        PROVE  noticed' \subseteq noticed
    BY <2>1 DEF supersede_group
  <2> QED BY <1>5, <1>9, <2>1
          DEF Closing, withdraw_group, complete_withdrawal, revoke_group, retire_group,
              finish_group_mutation
<1> QED BY <1>1, <1>2, <1>3, <1>4, <1>6, <1>7, <1>8, <1>9 DEF Next

\* A group whose states are derived has only active members that are declared and current.
LEMMA ActiveIsCurrent ==
  ASSUME NEW members, MembersOK(members), derive_members(members) = members,
         NEW m \in active_members(members)
  PROVE  m \in Declared(members) /\ members[m].enabled /\ upstream_current(members[m])
<1>1. active_members(derive_members(members))
        = {k \in Declared(members) : members[k].enabled /\ upstream_current(members[k])}
  BY DeriveRecords
<1> QED BY <1>1

\* What a group that was told of a path makes of its members on it.
LEMMA NoticedPath ==
  ASSUME IInv, NEW g \in Created, NEW path
  PROVE  LET new == Noticed(g, PathObserved(groups[g], path), "INVALIDATE_PATH")
         IN  \A m \in active_members(new.members) :
               PathOf[m] = path => PathProved(m, new.members[m].bound)
<1> DEFINE group   == groups[g]
           altered == PathObserved(group, path)
           new     == Noticed(g, altered, "INVALIDATE_PATH")
<1>1. GroupOK(group) /\ MembersOK(group.members) /\ derive_members(group.members) = group.members
  BY DEF IInv, TypeOK, GroupOK, GroupsInv, GroupInv
<1>2. /\ GroupOK(altered) /\ SameEnrolment(group.members, altered.members)
      /\ Declared(altered.members) = Declared(group.members)
      /\ \A m \in DOMAIN group.members :
           /\ altered.members[m].bound = group.members[m].bound
           /\ group.members[m].declared /\ PathOf[m] = path =>
                altered.members[m].path_current = PathProved(m, group.members[m].bound)
  BY <1>1, PathObservedMap, PathObservedStanding DEF SameStanding
<1> HIDE DEF altered
<1> SUFFICES ASSUME NEW m \in active_members(new.members), PathOf[m] = path
             PROVE  PathProved(m, new.members[m].bound)
  BY DEF altered
<1>3. /\ m \in Declared(altered.members) /\ upstream_current(altered.members[m])
      /\ new.members[m].bound = altered.members[m].bound
  <2>1. CASE altered = group
    BY <1>1, <2>1, ActiveIsCurrent DEF Noticed
  <2>2. CASE altered # group
    <3> DEFINE fresh == refresh_group(altered, "INVALIDATE_PATH", TRUE)
    <3>1. "INVALIDATE_PATH" \in GroupEvent
      BY DEF GroupEvent, OrdinaryEvents, Invalidations
    <3>2. fresh.members = derive_members(altered.members)
      BY <1>2, <3>1, RefreshMap
    <3>3. new = fresh
      BY <2>2 DEF Noticed
    <3> HIDE DEF fresh, new
    <3>4. /\ active_members(fresh.members)
               = {k \in Declared(altered.members) :
                    altered.members[k].enabled /\ upstream_current(altered.members[k])}
          /\ \A k \in DOMAIN altered.members :
               Record(fresh.members[k]) = Record(altered.members[k])
      BY <1>2, <3>2, DeriveRecords DEF GroupOK
    <3>5. m \in Declared(altered.members) /\ upstream_current(altered.members[m])
      BY <3>3, <3>4
    <3>6. m \in DOMAIN altered.members
      BY <3>5 DEF Declared
    <3> QED BY <3>3, <3>4, <3>5, <3>6 DEF Record
  <2> QED BY <2>1, <2>2
<1>4. altered.members[m].path_current /\ m \in DOMAIN group.members /\ group.members[m].declared
  BY <1>2, <1>3 DEF upstream_current, Declared
<1> QED BY <1>2, <1>3, <1>4

\* After a path notice that reached every dependent no open group keeps an active member
\* on that path with a proof of another generation: notify_path_authority_change finds the
\* dependents in an index that lists them all, and refreshes those it changes.
THEOREM NoticesTakeEffect == Spec => NoticeTakesEffect
<1>1. ASSUME IInv, [Next]_vars, NEW path \in noticed' \ noticed, NEW g \in Created,
             is_open(g)', NEW m \in active_members(groups'[g].members), PathOf[m] = path
      PROVE  PathProved(m, groups'[g].members[m].bound)
  <2>1. PICK p \in Publisher : \E q \in Path : notify_path_authority_change(p, q)
    BY <1>1, OthersNoticeNothing
  <2>2. PICK q \in Path : notify_path_authority_change(p, q)
    BY <2>1
  <2>3. q = path /\ path_index[path] \subseteq Covers[p]
    BY <1>1, <2>2 DEF notify_path_authority_change
  <2> DEFINE next == [h \in Dependents(p, path_index[path]) |->
                        Noticed(h, PathObserved(groups[h], path), "INVALIDATE_PATH")]
  <2>4. Deliver(next)
    BY <2>2, <2>3 DEF notify_path_authority_change
  <2>5. CASE g \in DOMAIN next
    <3>1. groups'[g] = Noticed(g, PathObserved(groups[g], path), "INVALIDATE_PATH")
      BY <1>1, <2>4, <2>5 DEF Deliver
    <3> QED BY <1>1, <3>1, NoticedPath
  <2>6. CASE g \notin DOMAIN next
    <3>1. groups'[g] = groups[g]
      BY <1>1, <2>4, <2>6 DEF Deliver
    <3>2. is_open(g)
      BY <1>1, <3>1 DEF is_open, Created
    <3>3. g \notin path_index[path]
      BY <2>3, <2>6, <3>2 DEF Dependents
    <3>4. path \notin DeclaredPaths(groups[g])
      BY <1>1, <2>3, <3>3 DEF IInv, IndexesAgree
    <3>5. m \in Declared(groups[g].members)
      <4>1. MembersOK(groups[g].members) /\ derive_members(groups[g].members) = groups[g].members
        BY <1>1 DEF IInv, TypeOK, GroupOK, GroupsInv, GroupInv
      <4> QED BY <1>1, <3>1, <4>1, ActiveIsCurrent
    <3> QED BY <1>1, <3>4, <3>5 DEF DeclaredPaths
  <2> QED BY <2>5, <2>6
<1>2. IInv /\ [Next]_vars =>
        [\A path \in noticed' \ noticed, g \in Created : is_open(g)' =>
           \A m \in active_members(groups'[g].members) :
             PathOf[m] = path => PathProved(m, groups'[g].members[m].bound)]_vars
  BY <1>1
<1> QED BY <1>2, InvariantHolds, PTL DEF Spec, NoticeTakesEffect

-----------------------------------------------------------------------------
(* The self-check.                                                          *)

\* No group supersedes two others.
SoleHeirs ==
  \A g, h \in Created :
    groups[g].successor # NoGroup /\ groups[g].successor = groups[h].successor => g = h

\* What check_invariants says of one group, but for its lineage.
LEMMA GroupPasses ==
  ASSUME IInv, MapsInv, NEW g \in Created
  PROVE  MembersPass(groups[g]) /\ LifecyclePasses(groups[g])
<1> DEFINE group    == groups[g]
           declared == Declared(group.members)
           active   == active_members(group.members)
<1>1. /\ GroupOK(group) /\ GroupInv(group, epoch) /\ GroupMap(group)
      /\ MembersOK(group.members) /\ derive_members(group.members) = group.members
  BY DEF IInv, TypeOK, GroupsInv, GroupInv, MapsInv, GroupOK
<1>2. \A m \in active : upstream_current(group.members[m]) /\ m \in declared
  BY <1>1, ActiveIsCurrent
<1>3. MembersPass(group)
  BY <1>1, <1>2 DEF MembersPass, GroupMap, Numbered, Fits
<1>4. ~is_administratively_closed(group.lifecycle) => group.lifecycle = derived_lifecycle(group)
  BY <1>1 DEF GroupInv, is_administratively_closed
<1>5. group.lifecycle = "DECLARED" => declared = {} /\ active = {}
  <2>1. group.lifecycle = "DECLARED" => Cardinality(declared) = 0
    BY <1>4 DEF is_administratively_closed, ClosedLifecycles, derived_lifecycle, derive_lifecycle
  <2>2. declared \in SUBSET Member
    BY <1>1 DEF MembersOK, Declared
  <2>3. IsFiniteSet(declared)
    <3> HIDE DEF declared
    <3> QED BY <2>2, MemberAssumption, FS_Subset
  <2> QED BY <1>2, <2>1, <2>3, FS_EmptySet
<1>6. group.lifecycle \in AuthoritativeLifecycles => check_assignment(group.assignment, active)
  BY AuthoritativeServes
<1>7. LifecyclePasses(group)
  BY <1>4, <1>5, <1>6 DEF LifecyclePasses
<1> QED BY <1>3, <1>7

\* Sound groups with sole heirs pass the check.
LEMMA GroupsPass ==
  ASSUME IInv, MapsInv, LInv, HeirsKnow, TotalIsDeclared, SoleHeirs
  PROVE  check_invariants
<1>1. \A g \in Created : MembersPass(groups[g]) /\ LifecyclePasses(groups[g])
  BY GroupPasses
<1>2. ASSUME NEW g \in Created
      PROVE  LineagePasses(g)
  <2>1. groups[g].predecessor # NoGroup => groups[g].predecessor \in Created
    BY DEF LInv
  <2>2. ASSUME groups[g].successor # NoGroup
        PROVE  /\ groups[g].successor \in Created
               /\ groups[groups[g].successor].predecessor = g
    <3> DEFINE h == groups[g].successor
               k == groups[h].predecessor
    <3>1. h \in Created /\ k # NoGroup
      BY <2>2 DEF HeirsKnow
    <3>2. k \in Created /\ groups[k].successor = h
      BY <3>1 DEF LInv, LineageEnds
    <3>3. k = g
      BY <2>2, <3>2 DEF SoleHeirs
    <3> QED BY <3>1, <3>3
  <2> QED BY <2>1, <2>2 DEF LineagePasses
<1> QED BY <1>1, <1>2 DEF check_invariants, IInv

\* As long as no group supersedes two others, the governor's own self-check finds no
\* problem, after any sequence of operations and notices.
THEOREM SelfCheckPasses == Spec => [](SoleHeirs => check_invariants)
<1>1. IInv /\ MapsInv /\ LInv /\ HeirsKnow /\ TotalIsDeclared =>
        (SoleHeirs => check_invariants)
  BY GroupsPass
<1> QED BY <1>1, MapsHold, HeirsAlwaysKnow, TotalAlwaysDeclared, PTL

=============================================================================
