-------------------------------- MODULE Group ---------------------------------
(***************************************************************************)
(* One ECMP group (GroupState in src/governor_state.hpp) as a value, and   *)
(* the operators of src/governor_core.cpp and src/governor_mutate.cpp that  *)
(* compute the next value of a group.  No variables: Governor.tla holds the *)
(* groups and decides when these operators run.                             *)
(***************************************************************************)
EXTENDS Assignment, Lifecycle

CONSTANTS
  Group, Publisher, Boot,
  NoGroup, NoBoot,                        \* the nil group and boot identities
  MinActive,                              \* min_active_members of a group
  MaxMembersPerGroup                      \* limit max_members_per_group

ASSUME LimitAssumption ==
  /\ MinActive \in Nat \ {0}
  /\ MaxMembersPerGroup \in Nat \ {0}

ASSUME NilAssumption ==
  NoGroup \notin Group /\ NoBoot \notin Boot

\* The plan of a group that has none; epochs start at 1.
NoPlan == [epoch |-> 0]

\* What a caller declares of a member (MemberSpec): the path authority
\* generation it is bound to, the cost policy generation of its claim, and
\* whether it is enabled.
MemberSpec == [enabled : BOOLEAN, bound : Nat, policy : Nat]

\* A MemberEntry: the record of the member and the currentness of every
\* upstream fact it depends on.
MemberEntry ==
  [declared : BOOLEAN, enabled : BOOLEAN, bound : Nat, policy : Nat,
   path_current : BOOLEAN, multipath_current : BOOLEAN, cost_current : BOOLEAN,
   state : MemberState]

\* The entries of a group, and the specs of a plan: functions on the members present.
MembersOK(members) ==
  DOMAIN members \subseteq Member /\ members \in [DOMAIN members -> MemberEntry]

TargetOK(target) ==
  DOMAIN target \subseteq Member /\ target \in [DOMAIN target -> MemberSpec]

\* A PlanEntry.
PlanOK(plan) ==
  /\ plan \in [from_membership : Nat, from_assignment : Nat, from_authority : Nat,
               target_members : {plan.target_members}, assignment : Owners,
               epoch : Nat \ {0}]
  /\ TargetOK(plan.target_members)

\* A GroupState.
GroupOK(group) ==
  /\ group \in
       [lifecycle : GroupLifecycle, currentness : SUBSET CurrentnessCause,
        membership_generation : Nat, assignment_generation : Nat, authority_generation : Nat,
        policy : Nat, multipath_generation : Nat,
        members : {group.members}, declared_digest : SUBSET Member, assignment : Owners,
        authority_publisher : Publisher, authority_boot : Boot, bound_epoch : Nat,
        plan : {group.plan}, successor : Group \cup {NoGroup}, predecessor : Group \cup {NoGroup}]
  /\ MembersOK(group.members)
  /\ group.plan # NoPlan => PlanOK(group.plan)

-----------------------------------------------------------------------------
upstream_current(entry) ==
  entry.path_current /\ entry.multipath_current /\ entry.cost_current

Declared(members) == {m \in DOMAIN members : members[m].declared}

active_members(members) == {m \in DOMAIN members : members[m].state = "ACTIVE"}

\* A member declared from a spec that was just validated: every proof current.
make_entry(spec) ==
  [declared |-> TRUE, enabled |-> spec.enabled, bound |-> spec.bound,
   policy |-> spec.policy, path_current |-> TRUE, multipath_current |-> TRUE,
   cost_current |-> TRUE, state |-> "ACTIVE"]

\* apply_target_set, and the loops apply_membership_set repeats: declared
\* members outside the target are withdrawn, the others get a fresh entry.
apply_target_set(members, target) ==
  [m \in DOMAIN members \cup DOMAIN target |->
     IF m \in DOMAIN target THEN make_entry(target[m])
     ELSE IF members[m].declared
          THEN [members[m] EXCEPT !.declared = FALSE, !.enabled = TRUE]
          ELSE members[m]]

\* count_target_changes: specs that declare or alter a member, and members dropped.
count_target_changes(group, target) ==
  LET declared == Declared(group.members)
      Differs(m) == \/ m \notin declared
                    \/ group.members[m].enabled # target[m].enabled
                    \/ group.members[m].bound # target[m].bound
                    \/ group.members[m].policy # target[m].policy
  IN  Cardinality({m \in DOMAIN target : Differs(m)})
        + Cardinality(declared \ DOMAIN target)

\* Mutation: one entry too many is kept.
evict_withdrawn_late(members) ==
  LET excess  == Cardinality(DOMAIN members) - MaxMembersPerGroup - 1
      victims == {m \in DOMAIN members \ Declared(members) :
                    Cardinality({k \in DOMAIN members \ Declared(members) : k < m}) < excess}
  IN  [m \in DOMAIN members \ victims |-> members[m]]

\* Mutation: the first entry goes, declared or not.
evict_first(members) ==
  LET excess  == Cardinality(DOMAIN members) - MaxMembersPerGroup
      victims == {m \in DOMAIN members : Cardinality({k \in DOMAIN members : k < m}) < excess}
  IN  [m \in DOMAIN members \ victims |-> members[m]]

\* evict_withdrawn: while there are more entries than the limit, the first
\* undeclared one is forgotten.
evict_withdrawn(members) ==
  LET excess  == Cardinality(DOMAIN members) - MaxMembersPerGroup
      victims == {m \in DOMAIN members \ Declared(members) :
                    Cardinality({k \in DOMAIN members \ Declared(members) : k < m}) < excess}
  IN  [m \in DOMAIN members \ victims |-> members[m]]

\* Every upstream proof becomes unproven (set_epoch, fence_publisher, recovery).
Unproven(members) ==
  [m \in DOMAIN members |->
     [members[m] EXCEPT !.path_current = FALSE, !.multipath_current = FALSE,
                        !.cost_current = FALSE]]

-----------------------------------------------------------------------------
(* refresh_group, in its three parts.  The generations are unbounded here:  *)
(* exhaustion of a 64-bit counter is not modelled.                          *)

\* Mutation: the new binding is not counted.
bind_authority_uncounted(group, publisher, boot, epoch) ==
  [group EXCEPT !.bound_epoch = epoch, !.authority_publisher = publisher,
                !.authority_boot = boot]

\* The authority binding moves to the caller; the authority generation counts it.
bind_authority(group, publisher, boot, epoch) ==
  IF /\ group.bound_epoch = epoch
     /\ group.authority_publisher = publisher
     /\ group.authority_boot = boot
  THEN group
  ELSE [group EXCEPT !.authority_generation = @ + 1, !.bound_epoch = epoch,
                     !.authority_publisher = publisher, !.authority_boot = boot]

\* Each member's state is derived from its record and its flags.
derive_members(members) ==
  [m \in DOMAIN members |->
     LET entry == members[m]
     IN  [entry EXCEPT !.state = derive_member_state(entry.declared, entry.enabled,
                                                     upstream_current(entry))]]

\* The lifecycle the counts of a group call for.
derived_lifecycle(group) ==
  derive_lifecycle(Cardinality(Declared(group.members)),
                   Cardinality(active_members(group.members)),
                   MinActive, group.plan # NoPlan, authority_current(group.currentness))

\* Mutation: the map is computed for the members active before the refresh.
refresh_group_from_old_states(group, event, recompute) ==
  LET members  == derive_members(group.members)
      declared == Declared(members)
      owners   == IF recompute
                  THEN compute_rebalance(group.assignment, active_members(group.members))
                  ELSE group.assignment
      settled  ==
        [group EXCEPT
           !.members = members,
           !.membership_generation = IF declared = group.declared_digest THEN @ ELSE @ + 1,
           !.declared_digest = declared,
           !.assignment_generation = IF owners = group.assignment THEN @ ELSE @ + 1,
           !.assignment = owners]
  IN  [settled EXCEPT !.lifecycle = apply_group_event(event, derived_lifecycle(settled))]

\* Mutation: the digest of the declared set is not remembered.
refresh_group_without_digest(group, event, recompute) ==
  LET members  == derive_members(group.members)
      declared == Declared(members)
      owners   == IF recompute THEN compute_rebalance(group.assignment, active_members(members))
                               ELSE group.assignment
      settled  ==
        [group EXCEPT
           !.members = members,
           !.membership_generation = IF declared = group.declared_digest THEN @ ELSE @ + 1,
           !.assignment_generation = IF owners = group.assignment THEN @ ELSE @ + 1,
           !.assignment = owners]
  IN  [settled EXCEPT !.lifecycle = apply_group_event(event, derived_lifecycle(settled))]

\* The generations move exactly when what they count moves: the declared set,
\* the owner of some bucket.  Epoch and fence invalidations keep the map
\* (recompute = FALSE).
refresh_group(group, event, recompute) ==
  LET members  == derive_members(group.members)
      declared == Declared(members)
      owners   == IF recompute THEN compute_rebalance(group.assignment, active_members(members))
                               ELSE group.assignment
      settled  ==
        [group EXCEPT
           !.members = members,
           !.membership_generation = IF declared = group.declared_digest THEN @ ELSE @ + 1,
           !.declared_digest = declared,
           !.assignment_generation = IF owners = group.assignment THEN @ ELSE @ + 1,
           !.assignment = owners]
  IN  [settled EXCEPT !.lifecycle = apply_group_event(event, derived_lifecycle(settled))]
=============================================================================
