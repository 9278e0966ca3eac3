----------------------------- MODULE StoreProofs ------------------------------
(***************************************************************************)
(* A coordinator that is killed between any two steps, for every number of *)
(* groups, members, publishers and epochs: the invariant of the governor    *)
(* survives load and restart, no authority does, epochs are served once,     *)
(* what was acknowledged is in the file, and only a pending plan makes a      *)
(* file that the next start cannot load.                                    *)
(***************************************************************************)
EXTENDS DurableStore, MapProofs

-----------------------------------------------------------------------------
(* The invariant.                                                           *)

Pairs(gs) == UNION {{g} \X Declared(gs[g].members) : g \in DOMAIN gs}

\* What the disk holds.
FileInv ==
  /\ file # NoFile => ImageOK(file) /\ IsFiniteSet(Pairs(file.groups))
  /\ temp \notin {NoFile, Torn} => ImageOK(temp)

\* Where the process is; one that does not run has no memory.
ProcessInv ==
  /\ phase \in Phase /\ writing \in BOOLEAN /\ unsaved \in 0 .. MaxUnsaved
  /\ writing => phase \in {"STARTING", "ACCEPTED"}
  /\ phase \in {"STOPPED", "REFUSED"} => epoch = 1 /\ Created = {}

\* The epoch in memory, the one in the file and the last one served.
EpochInv ==
  /\ served \in Epoch \cup {0} /\ served <= file.epoch
  /\ phase = "LOADED" => file # NoFile /\ epoch = file.epoch
  /\ phase = "STARTING" => epoch > file.epoch
  /\ phase \in {"SERVING", "ACCEPTED"} => served = epoch /\ file.epoch = epoch

\* Between load and service every open group is disarmed.
RestInv ==
  phase \in {"LOADED", "STARTING"} =>
    \A g \in Created : is_open(g) => "STALE_EPOCH" \in groups[g].currentness

GovernorInv == IInv /\ CountInv

StoreInv == GovernorInv /\ FileInv /\ ProcessInv /\ EpochInv /\ RestInv

\* The epoch of a file is a number, 0 when there is none.
LEMMA FileEpoch ==
  ASSUME FileInv
  PROVE  file.epoch \in Nat /\ (file # NoFile => file.epoch \in Epoch)
BY ConstantsType DEF FileInv, ImageOK, NoFile

\* The image of a governor whose state is well formed is neither no file nor a torn one.
LEMMA ImageIsWhole ==
  ASSUME IInv
  PROVE  ImageOK(Image) /\ Image # NoFile /\ Image # Torn
         /\ Image.epoch = epoch /\ Image.groups = groups
<1>1. /\ epoch \in Epoch /\ epoch \in Nat /\ epoch # 0 /\ epoch # -1
      /\ groups = [g \in Created |-> groups[g]] /\ Created \subseteq Group
      /\ \A g \in Created : GroupOK(groups[g])
  BY ConstantsType DEF IInv, TypeOK
<1>2. Image.epoch = epoch /\ Image.groups = groups
  BY DEF Image
<1>3. NoFile.epoch = 0 /\ Torn.epoch = -1
  BY DEF NoFile, Torn
<1>4. ImageOK(Image)
  BY <1>1 DEF Image, ImageOK, Created
<1> QED BY <1>1, <1>2, <1>3, <1>4

-----------------------------------------------------------------------------
(* Recovery.                                                                *)

\* A refresh leaves the causes of a group, its plan, its lineage and the enable
\* flags alone, and the map when it is told to.
LEMMA RefreshLeaves ==
  ASSUME NEW group, GroupOK(group), NEW event, NEW recompute \in BOOLEAN
  PROVE  LET final == refresh_group(group, event, recompute)
         IN  /\ final.currentness = group.currentness /\ final.plan = group.plan
             /\ final.successor = group.successor /\ final.predecessor = group.predecessor
             /\ final.members = derive_members(group.members)
             /\ ~recompute => final.assignment = group.assignment
             /\ event \notin DOMAIN EventTarget => final.lifecycle \in OpenLifecycles
<1> DEFINE members  == derive_members(group.members)
           declared == Declared(members)
           owners   == IF recompute
                       THEN compute_rebalance(group.assignment, active_members(members))
                       ELSE group.assignment
           mg == IF declared = group.declared_digest THEN group.membership_generation
                 ELSE group.membership_generation + 1
           ag == IF owners = group.assignment THEN group.assignment_generation
                 ELSE group.assignment_generation + 1
           settled  ==
             [group EXCEPT
                !.members = members, !.membership_generation = mg, !.declared_digest = declared,
                !.assignment_generation = ag, !.assignment = owners]
           lifecycle == apply_group_event(event, derived_lifecycle(settled))
           final == [settled EXCEPT !.lifecycle = lifecycle]
<1>1. refresh_group(group, event, recompute) = final
  BY DEF refresh_group
<1>2. event \notin DOMAIN EventTarget => lifecycle \in OpenLifecycles
  BY DEF apply_group_event, derived_lifecycle, derive_lifecycle, OpenLifecycles
<1>3. ~recompute => owners = group.assignment
  OBVIOUS
<1> HIDE DEF members, declared, owners, mg, ag, lifecycle
<1>4. /\ final.currentness = group.currentness /\ final.plan = group.plan
      /\ final.successor = group.successor /\ final.predecessor = group.predecessor
      /\ final.members = members /\ final.assignment = owners
      /\ final.lifecycle = lifecycle
  BY DEF GroupOK
<1> HIDE DEF final
<1> QED BY <1>1, <1>2, <1>3, <1>4 DEF members

\* An open group accepts every invalidation.
LEMMA OpenIsInvalidated ==
  ASSUME NEW state \in GroupLifecycle, ~lifecycle_allows(state, "INVALIDATE_EPOCH")
  PROVE  state \in ClosedLifecycles
<1>1. ASSUME NEW open \in OpenLifecycles
      PROVE  "INVALIDATE_EPOCH" \in AllowedEvents[open]
  BY DEF OpenLifecycles, AllowedEvents, OrdinaryEvents, Invalidations
<1> QED BY <1>1 DEF lifecycle_allows, GroupLifecycle

\* A recovered group is well formed, without plan or authority, and declares
\* whom the file declares.
LEMMA RecoverInv ==
  ASSUME NEW group, GroupOK(group), NEW ep
  PROVE  /\ GroupOK(recover_group(group)) /\ GroupInv(recover_group(group), ep)
         /\ Declared(recover_group(group).members) = Declared(group.members)
         /\ "STALE_EPOCH" \in recover_group(group).currentness
<1> DEFINE causes  == group.currentness \cup {"STALE_EPOCH", "REVALIDATION_REQUIRED"}
           members == Unproven(group.members)
           digest  == Declared(group.members)
           count   == group.authority_generation + 1
           bare    == [group EXCEPT !.members = members, !.plan = NoPlan,
                                    !.declared_digest = digest, !.currentness = causes,
                                    !.authority_generation = count]
           refreshed == refresh_group(bare, "INVALIDATE_EPOCH", FALSE)
           closed    == [refreshed EXCEPT !.lifecycle = group.lifecycle]
<1>1. recover_group(group) = IF lifecycle_allows(group.lifecycle, "INVALIDATE_EPOCH")
                             THEN refreshed ELSE closed
  BY DEF recover_group
<1>2. MembersOK(members) /\ Declared(members) = Declared(group.members)
  BY UnprovenType DEF GroupOK
<1>3. /\ causes \subseteq CurrentnessCause /\ "STALE_EPOCH" \in causes
      /\ digest \subseteq Member /\ count \in Nat
  BY DEF GroupOK, CurrentnessCause, MembersOK, Declared
<1> HIDE DEF causes, members, digest, count
<1>4. /\ GroupOK(bare) /\ bare.plan = NoPlan /\ bare.currentness = causes
      /\ bare.members = members
  BY <1>2, <1>3 DEF GroupOK
<1> HIDE DEF bare
<1>5. GroupOK(refreshed) /\ GroupInv(refreshed, ep)
  <2>1. "INVALIDATE_EPOCH" \in GroupEvent \ {"CREATE", "PLAN_REBALANCE"}
    BY DEF GroupEvent, OrdinaryEvents, Invalidations
  <2>2. PlanCurrent(bare, ep) /\ "STALE_EPOCH" \in bare.currentness
    BY <1>3, <1>4 DEF PlanCurrent
  <2>3. GroupOK(refreshed)
    BY <1>4, <2>1, RefreshType
  <2>4. GroupInv(refreshed, ep)
    BY <1>4, <2>1, <2>2, RefreshInv
  <2> QED BY <2>3, <2>4
<1>6. refreshed.currentness = causes /\ Declared(refreshed.members) = Declared(bare.members)
  BY <1>4, RefreshLeaves, RefreshKeeps
<1> HIDE DEF refreshed
<1>7. CASE lifecycle_allows(group.lifecycle, "INVALIDATE_EPOCH")
  BY <1>1, <1>2, <1>3, <1>4, <1>5, <1>6, <1>7
<1>8. CASE ~lifecycle_allows(group.lifecycle, "INVALIDATE_EPOCH")
  <2>1. group.lifecycle \in ClosedLifecycles /\ group.lifecycle \in GroupLifecycle
    BY <1>8, OpenIsInvalidated DEF GroupOK
  <2>2. /\ GroupOK(closed) /\ closed.members = refreshed.members
        /\ closed.currentness = refreshed.currentness
        /\ closed.lifecycle = group.lifecycle
    BY <1>5, <2>1 DEF GroupOK
  <2>3. GroupInv(closed, ep)
    BY <1>5, <2>1, <2>2 DEF GroupInv
  <2> QED BY <1>1, <1>2, <1>3, <1>4, <1>6, <1>8, <2>2, <2>3
<1> QED BY <1>7, <1>8

\* An empty governor is as good as a new one.
LEMMA FreshInv ==
  ASSUME IInv, Fresh
  PROVE  GovernorInv' /\ epoch' = 1 /\ Created' = {}
<1>1. Created' = {} /\ groups' = [g \in Created' |-> groups'[g]]
  BY DEF Fresh, Created
<1>2. TypeOK'
  <2>1. /\ epoch' \in Epoch /\ publishers' \in [Publisher -> Boot \cup {NoBoot}]
        /\ fenced_boots' \subseteq Boot /\ total_members' \in Int
        /\ path_index' \in [Path -> SUBSET Group]
        /\ authority_index' \in [Publisher -> SUBSET Group]
        /\ current_cost_policy' \in Policy \cup {0} /\ noticed' \subseteq Path
    BY ConstantsType DEF Fresh
  <2>2. /\ path_generation' \in [Path -> PathGeneration] /\ authorized' \subseteq Path
        /\ set_generation' \in SetGeneration
    BY DEF Fresh, upstream, IInv, TypeOK
  <2> QED BY <1>1, <2>1, <2>2 DEF TypeOK
<1>3. IndexesAgree' /\ GroupsInv'
  BY <1>1 DEF Fresh, IndexesAgree, GroupsInv
<1>4. CountInv'
  <2>1. DeclaredPairs' = {} /\ total_members' = 0
    BY <1>1 DEF Fresh, DeclaredPairs
  <2> QED BY <2>1, FS_EmptySet DEF CountInv
<1> QED BY <1>1, <1>2, <1>3, <1>4 DEF Fresh, GovernorInv, IInv

\* A file that loads becomes a governor that satisfies the invariant, and all of
\* its groups are disarmed.
LEMMA LoadInv ==
  ASSUME StoreInv, load
  PROVE  /\ GovernorInv'
         /\ \A g \in Created' : "STALE_EPOCH" \in groups'[g].currentness
<1> DEFINE loaded == DOMAIN file.groups
<1>1. /\ IInv /\ Created = {} /\ epoch' = file.epoch
      /\ groups' = [g \in loaded |-> recover_group(file.groups[g])]
      /\ Reindex(loaded, groups')
      /\ UNCHANGED <<publishers, fenced_boots, current_cost_policy, upstream, noticed>>
  BY DEF load, StoreInv, GovernorInv, ProcessInv
<1>2. ImageOK(file) /\ IsFiniteSet(Pairs(file.groups))
  BY DEF load, StoreInv, FileInv
<1>3. loaded \subseteq Group /\ epoch' \in Epoch /\ Created' = loaded
  BY <1>1, <1>2 DEF ImageOK, Created
<1>4. ASSUME NEW g \in loaded
      PROVE  /\ GroupOK(groups'[g]) /\ GroupInv(groups'[g], epoch')
             /\ Declared(groups'[g].members) = Declared(file.groups[g].members)
             /\ "STALE_EPOCH" \in groups'[g].currentness
  <2>1. GroupOK(file.groups[g])
    BY <1>2 DEF ImageOK
  <2>2. groups'[g] = recover_group(file.groups[g])
    BY <1>1
  <2> QED BY <2>1, <2>2, RecoverInv
<1>5. DeclaredPairs' = Pairs(file.groups)
  BY <1>3, <1>4 DEF DeclaredPairs, Pairs
<1>6. total_members' = Cardinality(DeclaredPairs') /\ IsFiniteSet(DeclaredPairs')
  BY <1>2, <1>5 DEF load, Pairs
<1>7. total_members' \in Int
  BY <1>6, FS_CardinalityType
<1>8. /\ IndexesAgree'
      /\ path_index' \in [Path -> SUBSET Group]
      /\ authority_index' \in [Publisher -> SUBSET Group]
  <2>1. /\ \A path \in Path : path_index[path] = {}
        /\ \A p \in Publisher : authority_index[p] = {}
    BY <1>1 DEF IInv, IndexesAgree
  <2>2. /\ path_index' = [path \in Path |->
               {g \in loaded : path \in DeclaredPaths(groups'[g])}]
        /\ authority_index' = [p \in Publisher |->
               {g \in loaded : groups'[g].authority_publisher = p}]
    BY <1>1, <2>1 DEF Reindex
  <2> HIDE DEF loaded
  <2> QED BY <1>3, <2>2 DEF IndexesAgree, DeclaredPaths
<1>9. TypeOK'
  <2>1. groups' = [g \in Created' |-> groups'[g]]
    BY <1>1, <1>3
  <2> HIDE DEF loaded
  <2> QED BY <1>1, <1>3, <1>4, <1>7, <1>8, <2>1 DEF IInv, TypeOK, upstream
<1> HIDE DEF loaded
<1>10. GroupsInv'
  BY <1>3, <1>4 DEF GroupsInv
<1>11. CountInv'
  BY <1>6 DEF CountInv
<1> QED BY <1>3, <1>4, <1>8, <1>9, <1>10, <1>11 DEF GovernorInv, IInv

-----------------------------------------------------------------------------
(* The steps of the process.                                                *)

\* A step of the governor keeps its invariant.
LEMMA GovernorStep ==
  ASSUME GovernorInv, [Next]_vars
  PROVE  GovernorInv'
<1>1. IInv'
  BY NextInv DEF GovernorInv
<1>2. OneRecounted \/ SameDeclared
  BY NextCounts DEF GovernorInv
<1> QED BY <1>1, <1>2, SameCount, Recounted DEF GovernorInv

\* Operations the coordinator serves.
Serving == Mutate \/ RefuseHalfway \/ RegisterOrFence

\* What the process does to the governor: it runs it, loads it, or forgets it.
LEMMA StoreStepKinds ==
  ASSUME [StoreNext]_storeVars
  PROVE  [Next]_vars \/ load \/ Fresh
<1>1. CASE Serving
  <2>1. CASE Mutate
    BY <2>1 DEF Mutate, Next, Revalidation
  <2>2. CASE RefuseHalfway
    BY <2>2 DEF RefuseHalfway, Next, Revalidation
  <2>3. CASE RegisterOrFence
    BY <2>3 DEF RegisterOrFence, Next, Registry
  <2> QED BY <1>1, <2>1, <2>2, <2>3 DEF Serving
<1>2. CASE UpstreamMoves
  BY <1>2 DEF UpstreamMoves, Next
<1>3. CASE Advance
  BY <1>3 DEF Advance, Next, Registry
<1>4. CASE StartEmpty \/ RefuseToStart \/ BeginSave \/ FlushTemporary \/ ReplaceFile
           \/ UNCHANGED storeVars
  BY <1>4 DEF StartEmpty, RefuseToStart, BeginSave, FlushTemporary, ReplaceFile, storeVars
<1>5. CASE SaveFails \/ Crash
  BY <1>5 DEF SaveFails, Crash
<1>6. CASE load
  BY <1>6
<1> QED BY <1>1, <1>2, <1>3, <1>4, <1>5, <1>6 DEF StoreNext, Serving

\* The governor survives the process around it.
LEMMA GovernorSurvives ==
  ASSUME StoreInv, [StoreNext]_storeVars
  PROVE  GovernorInv'
BY StoreStepKinds, GovernorStep, LoadInv, FreshInv DEF StoreInv, GovernorInv

\* A disarmed group has its cause, and all that a restart keeps.
LEMMA DisarmedLeaves ==
  ASSUME NEW group, GroupOK(group), ~is_administratively_closed(group.lifecycle),
         NEW cause \in {"STALE_EPOCH", "FENCED_PUBLISHER"}
  PROVE  LET next == Disarmed(group, cause)
         IN  cause \in next.currentness /\ DurablePart(next) = DurablePart(group)
<1> DEFINE causes  == group.currentness \cup {cause, "REVALIDATION_REQUIRED"}
           members == Unproven(group.members)
           bare    == [group EXCEPT !.currentness = causes, !.plan = NoPlan, !.members = members]
           final   == refresh_group(bare, "INVALIDATE_EPOCH", FALSE)
<1>1. Disarmed(group, cause) = final
  BY DEF Disarmed
<1>2. MembersOK(members) /\ Declared(members) = Declared(group.members)
      /\ DOMAIN members = DOMAIN group.members
  BY UnprovenType DEF GroupOK, Unproven
<1>3. causes \subseteq CurrentnessCause /\ cause \in causes
  BY DEF GroupOK, CurrentnessCause
<1>4. ASSUME NEW m \in DOMAIN group.members
      PROVE  /\ derive_members(members)[m].declared = group.members[m].declared
             /\ derive_members(members)[m].enabled = group.members[m].enabled
  <2>1. group.members[m] \in MemberEntry
    BY <1>4 DEF GroupOK, MembersOK
  <2>2. members[m].declared = group.members[m].declared
        /\ members[m].enabled = group.members[m].enabled
        /\ members[m] \in MemberEntry
    BY <1>2, <1>4, <2>1 DEF Unproven, MembersOK, MemberEntry
  <2>3. derive_members(members)[m].declared = members[m].declared
        /\ derive_members(members)[m].enabled = members[m].enabled
    BY <1>2, <1>4, <2>2 DEF derive_members, MemberEntry
  <2> QED BY <2>2, <2>3
<1> HIDE DEF causes, members
<1>5. /\ GroupOK(bare) /\ bare.currentness = causes /\ bare.members = members
      /\ bare.assignment = group.assignment
      /\ bare.successor = group.successor /\ bare.predecessor = group.predecessor
  BY <1>2, <1>3 DEF GroupOK
<1> HIDE DEF bare
<1>6. "INVALIDATE_EPOCH" \notin DOMAIN EventTarget
  BY DEF EventTarget
<1>7. /\ final.currentness = causes /\ final.members = derive_members(members)
      /\ final.assignment = group.assignment
      /\ final.successor = group.successor /\ final.predecessor = group.predecessor
      /\ final.lifecycle \in OpenLifecycles
  BY <1>5, <1>6, RefreshLeaves
<1>8. DOMAIN derive_members(members) = DOMAIN group.members
  BY <1>2 DEF derive_members
<1> HIDE DEF final
<1>9. /\ Declared(final.members) = Declared(group.members)
      /\ \A m \in Declared(group.members) :
           final.members[m].enabled = group.members[m].enabled
  BY <1>4, <1>7, <1>8 DEF Declared
<1>10. ~is_administratively_closed(final.lifecycle)
  BY <1>7 DEF is_administratively_closed, OpenLifecycles, ClosedLifecycles
<1> QED BY <1>1, <1>3, <1>7, <1>9, <1>10 DEF DurablePart

\* Neither does a refused revalidation touch it.
LEMMA ReprovedDurable ==
  ASSUME NEW group, GroupOK(group), NEW R, NEW q
  PROVE  DurablePart(Reproved(group, R, q)) = DurablePart(group)
<1> DEFINE members == [m \in DOMAIN group.members |->
                         IF m \in R THEN [group.members[m] EXCEPT
                                            !.bound = path_generation[PathOf[m]], !.policy = q]
                                    ELSE group.members[m]]
           causes == IF q = group.policy THEN group.currentness
                     ELSE group.currentness \ {"STALE_COST_CLASS"}
           new == [group EXCEPT !.policy = q, !.currentness = causes, !.members = members]
<1>1. Reproved(group, R, q) = new
  BY DEF Reproved, GroupOK
<1>2. ASSUME NEW m \in DOMAIN group.members
      PROVE  /\ members[m].declared = group.members[m].declared
             /\ members[m].enabled = group.members[m].enabled
  BY <1>2 DEF GroupOK, MembersOK, MemberEntry
<1>3. DOMAIN members = DOMAIN group.members
  OBVIOUS
<1> HIDE DEF members, causes
<1>4. /\ new.members = members /\ new.lifecycle = group.lifecycle
      /\ new.assignment = group.assignment
      /\ new.successor = group.successor /\ new.predecessor = group.predecessor
  BY DEF GroupOK
<1> HIDE DEF new
<1>5. /\ Declared(new.members) = Declared(group.members)
      /\ \A m \in Declared(group.members) : new.members[m].enabled = group.members[m].enabled
  BY <1>2, <1>3, <1>4 DEF Declared
<1> QED BY <1>1, <1>4, <1>5 DEF DurablePart

-----------------------------------------------------------------------------
(* The invariant is inductive.                                              *)

\* A save puts whole images on the disk, and nothing else writes it.
LEMMA FileStep ==
  ASSUME StoreInv, [StoreNext]_storeVars
  PROVE  FileInv'
<1>1. ImageOK(Image) /\ Image.groups = groups /\ IsFiniteSet(Pairs(groups))
  BY ImageIsWhole DEF StoreInv, GovernorInv, CountInv, DeclaredPairs, Pairs, Created
<1>2. CASE ReplaceFile
  BY <1>1, <1>2 DEF ReplaceFile, FileInv
<1>3. CASE FlushTemporary
  BY <1>1, <1>3 DEF FlushTemporary, StoreInv, FileInv
<1>4. CASE BeginSave \/ SaveFails
  BY <1>4 DEF BeginSave, SaveFails, StoreInv, FileInv
<1>5. CASE UNCHANGED disk
  BY <1>5 DEF disk, StoreInv, FileInv
<1>6. StoreNext \/ UNCHANGED storeVars =>
        ReplaceFile \/ FlushTemporary \/ BeginSave \/ SaveFails \/ UNCHANGED disk
  BY DEF StoreNext, storeVars, StartEmpty, load, RefuseToStart, Advance, Crash, Mutate,
         RefuseHalfway, RegisterOrFence, UpstreamMoves
<1> QED BY <1>2, <1>3, <1>4, <1>5, <1>6

\* The process that runs writes and serves; the one that does not has no memory.
LEMMA ProcessStep ==
  ASSUME StoreInv, [StoreNext]_storeVars
  PROVE  ProcessInv'
<1>1. ProcessInv /\ IInv /\ 0 \in 0 .. MaxUnsaved
  BY UnsavedAssumption DEF StoreInv, GovernorInv
<1>2. CASE Serving
  BY <1>1, <1>2 DEF Serving, Mutate, RefuseHalfway, RegisterOrFence, process, ProcessInv, Phase
<1>3. CASE UpstreamMoves
  <2>1. UNCHANGED <<epoch, groups, process, unsaved>>
    BY <1>3 DEF UpstreamMoves, Upstream, PathMoves, PathAuthorization, SetMoves, registry
  <2> QED BY <1>1, <2>1 DEF ProcessInv, process, Created
<1>4. CASE Advance \/ load
  BY <1>1, <1>4 DEF Advance, load, ProcessInv, Phase
<1>5. CASE StartEmpty \/ RefuseToStart \/ BeginSave \/ FlushTemporary \/ UNCHANGED storeVars
  <2>1. UNCHANGED <<epoch, groups, unsaved>>
    BY <1>5 DEF StartEmpty, RefuseToStart, BeginSave, FlushTemporary, storeVars, vars, registry
  <2>2. CASE StartEmpty \/ RefuseToStart
    BY <1>1, <2>1, <2>2 DEF StartEmpty, RefuseToStart, ProcessInv, Phase, Created
  <2>3. CASE BeginSave
    BY <1>1, <2>1, <2>3 DEF BeginSave, ProcessInv, Phase
  <2>4. CASE FlushTemporary \/ UNCHANGED storeVars
    <3>1. UNCHANGED <<phase, writing>>
      BY <2>4 DEF FlushTemporary, storeVars, process
    <3> QED BY <1>1, <2>1, <3>1 DEF ProcessInv, Created
  <2> QED BY <1>5, <2>2, <2>3, <2>4
<1>6. CASE ReplaceFile
  <2>1. phase' = "SERVING" /\ writing' = FALSE /\ unsaved' = 0
    BY <1>6 DEF ReplaceFile
  <2> QED BY <1>1, <2>1, Zenon DEF ProcessInv, Phase
<1>7. CASE SaveFails
  <2>1. CASE Fresh /\ phase' = "STOPPED" /\ UNCHANGED unsaved
    <3>1. /\ writing' = FALSE /\ epoch' = 1 /\ Created' = {}
          /\ unsaved' \in 0 .. MaxUnsaved
      BY <1>1, <1>7, <2>1, FreshInv DEF SaveFails, ProcessInv
    <3> QED BY <2>1, <3>1, Zenon DEF ProcessInv, Phase
  <2>2. CASE phase' = "SERVING" /\ unsaved < MaxUnsaved /\ unsaved' = unsaved + 1
    <3>1. unsaved' \in 0 .. MaxUnsaved
      BY <1>1, <2>2, UnsavedAssumption DEF ProcessInv
    <3>2. writing' = FALSE
      BY <1>7 DEF SaveFails
    <3> QED BY <2>2, <3>1, <3>2, Zenon DEF ProcessInv, Phase
  <2> QED BY <1>7, <2>1, <2>2 DEF SaveFails
<1>8. CASE Crash
  <2>1. /\ writing' = FALSE /\ epoch' = 1 /\ Created' = {}
        /\ phase' = "STOPPED" /\ unsaved' = 0
    BY <1>1, <1>8, FreshInv DEF Crash
  <2> QED BY <1>1, <2>1, Zenon DEF ProcessInv, Phase
<1> QED BY <1>2, <1>3, <1>4, <1>5, <1>6, <1>7, <1>8 DEF StoreNext, Serving

\* No request a coordinator serves moves the epoch.
LEMMA ServesKeepsEpoch ==
  ASSUME Serving
  PROVE  UNCHANGED epoch
<1>1. ASSUME NEW p \in Publisher, NEW g \in Group, Membership(p, g)
      PROVE  UNCHANGED epoch
  <2>1. ASSUME NEW S \in SUBSET Member, NEW E \in SUBSET S, NEW policy \in Policy,
               create_group(p, g, S, E, policy)
        PROVE  UNCHANGED epoch
    BY <2>1 DEF create_group, registry
  <2>2. ASSUME NEW m \in Member, NEW enabled \in BOOLEAN, add_member(p, g, m, enabled)
        PROVE  UNCHANGED epoch
    BY <2>2 DEF add_member, finish_group_mutation, Store, registry
  <2>3. ASSUME NEW m \in Member,
               remove_member(p, g, m) \/ enable_member(p, g, m) \/ disable_member(p, g, m)
        PROVE  UNCHANGED epoch
    BY <2>3 DEF remove_member, enable_member, disable_member, finish_group_mutation, Store,
                registry
  <2>4. ASSUME NEW S \in SUBSET Member, NEW E \in SUBSET S, apply_membership_set(p, g, S, E)
        PROVE  UNCHANGED epoch
    BY <2>4 DEF apply_membership_set, Store, registry
  <2> QED BY <1>1, <2>1, <2>2, <2>3, <2>4 DEF Membership
<1>2. ASSUME NEW p \in Publisher, NEW g \in Group, NEW R \in SUBSET Member, NEW q \in Policy,
             RefuseRevalidation(p, g, R, q)
             \/ \E newSet \in BOOLEAN : revalidate_group(p, g, R, q, newSet)
      PROVE  UNCHANGED epoch
  BY <1>2 DEF RefuseRevalidation, revalidate_group, finish_group_mutation, Store, registry
<1>3. ASSUME NEW p \in Publisher, NEW g \in Group, Rebalance(p, g)
      PROVE  UNCHANGED epoch
  <2>1. ASSUME NEW S \in SUBSET Member, NEW E \in SUBSET S, plan_rebalance(p, g, S, E)
        PROVE  UNCHANGED epoch
    BY <2>1 DEF plan_rebalance, finish_group_mutation, Store, registry
  <2>2. CASE commit_rebalance(p, g) \/ abort_rebalance(p, g)
    BY <2>2 DEF commit_rebalance, abort_rebalance, finish_group_mutation, Store, registry
  <2> QED BY <1>3, <2>1, <2>2 DEF Rebalance
<1>4. ASSUME NEW p \in Publisher, NEW g \in Group, Closing(p, g)
      PROVE  UNCHANGED epoch
  <2>1. ASSUME NEW h \in Group, supersede_group(p, g, h)
        PROVE  UNCHANGED epoch
    BY <2>1 DEF supersede_group, registry
  <2>2. CASE withdraw_group(p, g) \/ complete_withdrawal(p, g) \/ revoke_group(p, g)
             \/ retire_group(p, g)
    BY <2>2 DEF withdraw_group, complete_withdrawal, revoke_group, retire_group,
                finish_group_mutation, Store, registry
  <2> QED BY <1>4, <2>1, <2>2 DEF Closing
<1>5. ASSUME NEW p \in Publisher, Notice(p)
      PROVE  UNCHANGED epoch
  BY <1>5 DEF Notice, notify_path_authority_change, notify_multipath_set_change,
              notify_cost_generation_change, registry
<1>6. CASE RegisterOrFence
  BY <1>6 DEF RegisterOrFence, register_publisher, fence_publisher
<1>7. CASE RefuseHalfway
  BY <1>2, <1>7 DEF RefuseHalfway
<1>8. CASE Mutate
  BY <1>1, <1>2, <1>3, <1>4, <1>5, <1>8 DEF Mutate
<1> QED BY <1>6, <1>7, <1>8 DEF Serving

\* The epoch of what is served is that of the file, and only a restart moves on.
LEMMA EpochStep ==
  ASSUME StoreInv, [StoreNext]_storeVars
  PROVE  EpochInv'
<1>1. /\ EpochInv /\ file.epoch \in Nat /\ (file # NoFile => file.epoch \in Epoch)
      /\ NoFile.epoch = 0 /\ epoch \in Epoch /\ Epoch \subseteq Nat
      /\ Image.epoch = epoch /\ Image # NoFile
  BY FileEpoch, ImageIsWhole, ConstantsType DEF StoreInv, GovernorInv, IInv, TypeOK, NoFile
<1>2. CASE Serving
  <2>1. UNCHANGED epoch
    BY <1>2, ServesKeepsEpoch
  <2>2. phase \in {"SERVING", "ACCEPTED"} /\ phase' \in {"SERVING", "ACCEPTED"}
        /\ UNCHANGED <<file, served>>
    BY <1>2 DEF Serving, Mutate, RefuseHalfway, RegisterOrFence, process, disk
  <2> QED BY <1>1, <2>1, <2>2 DEF EpochInv
<1>3. CASE UpstreamMoves
  <2>1. UNCHANGED <<epoch, phase, file, served>>
    BY <1>3 DEF UpstreamMoves, Upstream, PathMoves, PathAuthorization, SetMoves, registry,
                process, disk
  <2> QED BY <1>1, <2>1 DEF EpochInv
<1>4. CASE Advance
  <2>1. epoch' = epoch + 1 /\ phase = "LOADED" /\ phase' = "STARTING"
        /\ UNCHANGED <<file, served>>
    BY <1>4 DEF Advance, set_epoch, disk
  <2> QED BY <1>1, <2>1 DEF EpochInv
<1>5. CASE load
  BY <1>1, <1>5 DEF load, disk, EpochInv
<1>6. CASE StartEmpty
  <2>1. epoch = 1 /\ epoch' = epoch /\ phase' = "STARTING" /\ UNCHANGED <<file, served>>
        /\ file = NoFile
    BY <1>6 DEF StartEmpty, disk, vars, registry, StoreInv, ProcessInv
  <2> QED BY <1>1, <2>1 DEF EpochInv
<1>7. CASE RefuseToStart \/ SaveFails \/ Crash
  <2>1. /\ UNCHANGED <<file, served>>
        /\ \/ phase' \in {"STOPPED", "REFUSED"}
           \/ phase = "ACCEPTED" /\ phase' = "SERVING" /\ UNCHANGED epoch
    BY <1>7 DEF RefuseToStart, SaveFails, Crash, disk, vars, registry
  <2> QED BY <1>1, <2>1 DEF EpochInv
<1>8. CASE BeginSave \/ FlushTemporary \/ UNCHANGED storeVars
  <2>1. UNCHANGED <<epoch, phase, file, served>>
    BY <1>8 DEF BeginSave, FlushTemporary, storeVars, process, disk, vars, registry
  <2> QED BY <1>1, <2>1 DEF EpochInv
<1>9. CASE ReplaceFile
  <2>1. file' = Image /\ served' = epoch /\ phase' = "SERVING" /\ UNCHANGED epoch
    BY <1>9 DEF ReplaceFile, vars, registry
  <2> QED BY <1>1, <2>1 DEF EpochInv
<1> QED BY <1>2, <1>3, <1>4, <1>5, <1>6, <1>7, <1>8, <1>9 DEF StoreNext, Serving

\* The epoch advance of a starting coordinator disarms every open group.
LEMMA AdvanceDisarms ==
  ASSUME StoreInv, Advance
  PROVE  \A g \in Created' : is_open(g)' => "STALE_EPOCH" \in groups'[g].currentness
<1> DEFINE touched == {h \in Group : is_open(h)}
           counted(g) == [groups[g] EXCEPT !.authority_generation = @ + 1]
           next == [g \in touched |-> Disarmed(counted(g), "STALE_EPOCH")]
<1>1. Deliver(next) /\ TypeOK
  BY DEF Advance, set_epoch, StoreInv, GovernorInv, IInv
<1>2. /\ Created' = Created
      /\ \A g \in touched : groups'[g] = Disarmed(counted(g), "STALE_EPOCH")
      /\ \A g \in Created \ touched : groups'[g] = groups[g]
  BY <1>1 DEF Deliver, Created, is_open
<1>3. ASSUME NEW g \in touched
      PROVE  "STALE_EPOCH" \in Disarmed(counted(g), "STALE_EPOCH").currentness
  <2>1. GroupOK(groups[g]) /\ ~is_administratively_closed(groups[g].lifecycle)
    BY <1>1, <1>3 DEF TypeOK, is_open
  <2>2. groups[g].authority_generation + 1 \in Nat
    BY <2>1 DEF GroupOK
  <2>3. GroupOK(counted(g)) /\ counted(g).lifecycle = groups[g].lifecycle
    BY <2>1, <2>2 DEF GroupOK
  <2> HIDE DEF counted
  <2> QED BY <2>1, <2>3, DisarmedLeaves
<1>4. ASSUME NEW g \in Created \ touched
      PROVE  ~is_open(g)'
  BY <1>1, <1>2, <1>4 DEF is_open, TypeOK, Created
<1> QED BY <1>2, <1>3, <1>4

\* No group is armed before the first save of an incarnation is over.
LEMMA RestStep ==
  ASSUME StoreInv, [StoreNext]_storeVars
  PROVE  RestInv'
<1>1. RestInv
  BY DEF StoreInv
<1>2. CASE Serving
  BY <1>2 DEF Serving, Mutate, RefuseHalfway, RegisterOrFence, process, RestInv
<1>3. CASE UNCHANGED <<groups, phase>>
  BY <1>1, <1>3 DEF RestInv, Created, is_open
<1>4. CASE UpstreamMoves \/ BeginSave \/ FlushTemporary \/ UNCHANGED storeVars
  <2>1. UNCHANGED <<groups, phase>>
    BY <1>4 DEF UpstreamMoves, Upstream, PathMoves, PathAuthorization, SetMoves, BeginSave,
                FlushTemporary, storeVars, process, vars
  <2> QED BY <1>3, <2>1
<1>5. CASE Advance
  BY <1>5, AdvanceDisarms DEF RestInv
<1>6. CASE load
  BY <1>6, LoadInv DEF RestInv
<1>7. CASE StartEmpty
  BY <1>7 DEF StartEmpty, StoreInv, ProcessInv, RestInv, vars, Created
<1>8. CASE RefuseToStart \/ SaveFails \/ Crash \/ ReplaceFile
  BY <1>8 DEF RefuseToStart, SaveFails, Crash, ReplaceFile, RestInv
<1> QED BY <1>2, <1>4, <1>5, <1>6, <1>7, <1>8 DEF StoreNext, Serving

\* It holds of a stopped coordinator that has no file.
LEMMA StoreInitInv == StoreInit => StoreInv
<1> SUFFICES ASSUME StoreInit PROVE StoreInv
  OBVIOUS
<1>1. GovernorInv /\ Created = {} /\ epoch = 1
  BY InitInv, InitCount DEF StoreInit, GovernorInv, Init, Created
<1>2. file = NoFile /\ temp = NoFile /\ phase = "STOPPED" /\ writing = FALSE
      /\ served = 0 /\ unsaved = 0
  BY DEF StoreInit
<1>3. FileInv /\ RestInv
  BY <1>2 DEF FileInv, RestInv
<1>4. ProcessInv
  <2>1. 0 \in 0 .. MaxUnsaved
    BY UnsavedAssumption
  <2> QED BY <1>1, <1>2, <2>1, Zenon DEF ProcessInv, Phase
<1>5. EpochInv
  BY <1>2 DEF EpochInv, NoFile
<1> QED BY <1>1, <1>3, <1>4, <1>5 DEF StoreInv

\* Every step of the process keeps it.
LEMMA StoreStepInv == StoreInv /\ [StoreNext]_storeVars => StoreInv'
<1> SUFFICES ASSUME StoreInv, [StoreNext]_storeVars PROVE StoreInv'
  OBVIOUS
<1> QED BY GovernorSurvives, FileStep, ProcessStep, EpochStep, RestStep DEF StoreInv

-----------------------------------------------------------------------------
(* The theorems.                                                            *)

\* The invariant holds in every state, whichever steps the process died between.
THEOREM StoreInvariantHolds == StoreSpec => []StoreInv
BY StoreInitInv, StoreStepInv, PTL DEF StoreSpec

\* Types: what the store file and the temporary file hold, when they hold
\* anything, are whole images of well-formed groups, and what a load makes of
\* one is a well-formed governor.
THEOREM StoreTypeCorrect == StoreSpec => []StoreTypeOK
<1>1. StoreInv => StoreTypeOK
  BY DEF StoreInv, StoreTypeOK, GovernorInv, IInv, FileInv, ProcessInv, EpochInv
<1> QED BY <1>1, StoreInvariantHolds, PTL

\* "Durable state is not live authority": no group of a file, loaded by any later
\* process, is in an authoritative state before a publisher of that process has
\* bound it in the epoch the process serves.
THEOREM AuthorityDiesWithItsProcess == StoreSpec => []AuthorityIsOfThisIncarnation
<1>1. ASSUME StoreInv, NEW g \in Created, is_open(g), "STALE_EPOCH" \in groups[g].currentness
      PROVE  groups[g].lifecycle \notin AuthoritativeLifecycles
  <2>1. /\ groups[g].lifecycle = derived_lifecycle(groups[g]) /\ PlanCurrent(groups[g], epoch)
        /\ ~authority_current(groups[g].currentness)
    BY <1>1 DEF StoreInv, GovernorInv, IInv, GroupsInv, GroupInv, is_open,
                is_administratively_closed, authority_current, AuthorityCauses
  <2>2. derived_lifecycle(groups[g]) \in {"DECLARED", "REVALIDATION_REQUIRED"}
    BY <2>1 DEF PlanCurrent, derived_lifecycle, derive_lifecycle
  <2> QED BY <2>1, <2>2 DEF AuthoritativeLifecycles
<1>2. ASSUME StoreInv, NEW g \in Created, is_open(g),
             groups[g].lifecycle \in AuthoritativeLifecycles
      PROVE  phase \in {"SERVING", "ACCEPTED"} /\ groups[g].bound_epoch = served
  <2>1. "STALE_EPOCH" \notin groups[g].currentness
    BY <1>1, <1>2
  <2>2. phase \in {"SERVING", "ACCEPTED"}
    BY <1>2, <2>1 DEF StoreInv, RestInv, ProcessInv, Phase
  <2>3. groups[g].bound_epoch = epoch
    BY <1>2, <2>1 DEF StoreInv, GovernorInv, IInv, GroupsInv, GroupInv, is_open,
                      is_administratively_closed
  <2> QED BY <1>2, <2>2, <2>3 DEF StoreInv, EpochInv
<1>3. StoreInv => AuthorityIsOfThisIncarnation
  BY <1>2 DEF AuthorityIsOfThisIncarnation
<1> QED BY <1>3, StoreInvariantHolds, PTL

\* "A second restart always observes a strictly larger epoch": a process begins to
\* serve only in an epoch above every epoch served before, wherever the
\* processes before it died, since no request is served before the save of it.
THEOREM EpochsAreFresh == StoreSpec => ServesInFreshEpoch
<1>1. ASSUME StoreInv, [StoreNext]_storeVars, phase \notin {"SERVING", "ACCEPTED"},
             phase' = "SERVING"
      PROVE  epoch' > served
  <2>1. ReplaceFile
    BY <1>1 DEF StoreNext, storeVars, process, StartEmpty, load, RefuseToStart, Advance,
      BeginSave, FlushTemporary, SaveFails, Crash, Mutate, RefuseHalfway, RegisterOrFence,
      UpstreamMoves
  <2>2. phase = "STARTING" /\ epoch' = epoch
    BY <1>1, <2>1 DEF ReplaceFile, vars, registry, StoreInv, ProcessInv
  <2>3. file.epoch \in Nat /\ served \in Nat /\ epoch \in Nat
    BY <1>1, FileEpoch, ConstantsType DEF StoreInv, EpochInv, GovernorInv, IInv, TypeOK
  <2> QED BY <1>1, <2>2, <2>3 DEF StoreInv, EpochInv
<1>2. StoreInv /\ [StoreNext]_storeVars =>
        [phase \notin {"SERVING", "ACCEPTED"} /\ phase' = "SERVING" => epoch' > served]_storeVars
  BY <1>1
<1> QED BY <1>2, StoreInvariantHolds, PTL DEF StoreSpec, ServesInFreshEpoch

\* What the process does between two saves without saving touches nothing durable.
LEMMA UnsavedStepsAreNotDurable ==
  ASSUME StoreInv, RefuseHalfway \/ RegisterOrFence
  PROVE  Durable(groups') = Durable(groups)
<1>1. /\ TypeOK /\ Created \subseteq Group
      /\ \A g \in Created : GroupOK(groups[g])
  BY DEF StoreInv, GovernorInv, IInv, TypeOK
<1>2. CASE RefuseHalfway
  <2>1. PICK g \in Group, R \in SUBSET Member, q \in Policy :
          g \in Created /\ groups' = [groups EXCEPT ![g] = Reproved(@, R, q)]
    BY <1>2 DEF RefuseHalfway, RefuseRevalidation, CanReprove, Preamble
  <2>2. /\ DOMAIN groups' = DOMAIN groups /\ groups'[g] = Reproved(groups[g], R, q)
        /\ \A h \in DOMAIN groups \ {g} : groups'[h] = groups[h]
    BY <2>1 DEF Created
  <2>3. \A h \in DOMAIN groups : DurablePart(groups'[h]) = DurablePart(groups[h])
    BY <1>1, <2>1, <2>2, ReprovedDurable DEF Created
  <2> QED BY <2>2, <2>3 DEF Durable
<1>3. CASE RegisterOrFence
  <2>1. CASE UNCHANGED groups
    BY <2>1
  <2>2. ASSUME NEW p \in Publisher, fence_publisher(p)
        PROVE  Durable(groups') = Durable(groups)
    <3> DEFINE touched == {h \in authority_index[p] :
                             groups[h].authority_boot = publishers[p] /\ is_open(h)}
               next == [g \in touched |-> Disarmed(groups[g], "FENCED_PUBLISHER")]
    <3>1. Deliver(next)
      BY <2>2 DEF fence_publisher
    <3>2. /\ DOMAIN groups' = DOMAIN groups
          /\ \A g \in touched : groups'[g] = Disarmed(groups[g], "FENCED_PUBLISHER")
          /\ \A g \in DOMAIN groups \ touched : groups'[g] = groups[g]
      BY <3>1 DEF Deliver, Created, is_open
    <3>3. ASSUME NEW g \in touched
          PROVE  DurablePart(groups'[g]) = DurablePart(groups[g])
      <4>1. GroupOK(groups[g]) /\ ~is_administratively_closed(groups[g].lifecycle)
        BY <1>1, <3>3 DEF is_open
      <4> QED BY <3>2, <4>1, DisarmedLeaves
    <3> HIDE DEF touched
    <3>4. \A g \in DOMAIN groups : DurablePart(groups'[g]) = DurablePart(groups[g])
      BY <3>2, <3>3
    <3> QED BY <3>2, <3>4 DEF Durable
  <2> QED BY <1>3, <2>1, <2>2 DEF RegisterOrFence, register_publisher
<1> QED BY <1>2, <1>3

\* What was answered is in the file until a save has failed: a fence and a
\* half-way refusal, which are not saved, take nothing from a group that the
\* file keeps.
THEOREM AcknowledgedAlwaysDurable == StoreSpec => []AcknowledgedIsDurable
<1>1. StoreInit => AcknowledgedIsDurable
  BY DEF StoreInit, AcknowledgedIsDurable
<1>2. ASSUME StoreInv, AcknowledgedIsDurable, [StoreNext]_storeVars
      PROVE  AcknowledgedIsDurable'
  <2>1. CASE ReplaceFile
    <3>1. file' = Image /\ UNCHANGED groups
      BY <2>1 DEF ReplaceFile, vars
    <3>2. file'.groups = groups'
      BY <3>1 DEF Image
    <3> QED BY <3>2 DEF AcknowledgedIsDurable
  <2>2. CASE SaveFails
    <3>1. (unsaved' = unsaved + 1 /\ unsaved \in Nat) \/ phase' = "STOPPED"
      BY <1>2, <2>2 DEF SaveFails, StoreInv, ProcessInv
    <3> QED BY <3>1 DEF AcknowledgedIsDurable
  <2>3. CASE RefuseHalfway \/ RegisterOrFence
    BY <1>2, <2>3, UnsavedStepsAreNotDurable
       DEF RefuseHalfway, RegisterOrFence, process, disk, AcknowledgedIsDurable
  <2>4. CASE UpstreamMoves \/ BeginSave \/ FlushTemporary \/ UNCHANGED storeVars
    <3>1. UNCHANGED <<groups, phase, file, unsaved>>
      BY <2>4 DEF UpstreamMoves, Upstream, PathMoves, PathAuthorization, SetMoves, BeginSave,
                  FlushTemporary, storeVars, process, disk, vars
    <3> QED BY <1>2, <3>1 DEF AcknowledgedIsDurable
  <2>5. CASE StartEmpty \/ load \/ RefuseToStart \/ Advance \/ Crash \/ Mutate
    BY <2>5 DEF StartEmpty, load, RefuseToStart, Advance, Crash, Mutate, AcknowledgedIsDurable
  <2> QED BY <1>2, <2>1, <2>2, <2>3, <2>4, <2>5 DEF StoreNext
<1> QED BY <1>1, <1>2, StoreInvariantHolds, PTL DEF StoreSpec

-----------------------------------------------------------------------------
(* Closing.                                                                 *)

\* A group that names a successor is superseded, or retired since.
SuccessorsOfTheGone(gs) ==
  \A g \in DOMAIN gs : gs[g].successor # NoGroup => gs[g].lifecycle \in Gone

\* What is closed in the file is closed in the process that loaded it.
ClosedInv ==
  /\ SuccessorsOfTheGone(file.groups) /\ SuccessorsOfTheGone(groups)
  /\ phase \notin {"STOPPED", "REFUSED"} => StaysClosed(file.groups, groups)

\* A closed group accepts nothing but the events that close it further.
LEMMA ClosedAccepts ==
  ASSUME NEW p, NEW g, NEW event, Preamble(p, g, event), ~is_open(g)
  PROVE  event \in {"COMPLETE_WITHDRAW", "REVOKE", "SUPERSEDE", "RETIRE"}
BY DEF Preamble, is_open, is_administratively_closed, ClosedLifecycles, lifecycle_allows,
       AllowedEvents

\* The operations that close a closed group further.
ClosesFurther(p, g) ==
  \/ complete_withdrawal(p, g) \/ revoke_group(p, g) \/ retire_group(p, g)
  \/ \E h \in Group : supersede_group(p, g, h)

\* Storing one group leaves the others as they were.
LEMMA StoreLeavesOthers ==
  ASSUME IInv, NEW k, NEW refreshed, Store(k, refreshed), NEW g \in Created, g # k
  PROVE  groups'[g] = groups[g] /\ g \in Created'
BY DEF Store, Created

\* A notice, an epoch advance and a fence are delivered to open groups only.
LEMMA DeliverLeavesClosed ==
  ASSUME NEW next, Deliver(next), NEW g \in Created, g \notin DOMAIN next
  PROVE  groups'[g] = groups[g] /\ g \in Created'
BY DEF Deliver, Created

\* No other operation touches a closed group.
LEMMA ClosedIsLeftAlone ==
  ASSUME IInv, [Next]_vars, NEW g \in Created, ~is_open(g),
         \A p \in Publisher : ~ClosesFurther(p, g)
  PROVE  groups'[g] = groups[g] /\ g \in Created'
<1> DEFINE Same == groups'[g] = groups[g] /\ g \in Created'
<1>1. ASSUME NEW p \in Publisher, NEW k \in Group, Membership(p, k)
      PROVE  Same
  <2>1. ASSUME NEW S \in SUBSET Member, NEW E \in SUBSET S, NEW policy \in Policy,
               create_group(p, k, S, E, policy)
        PROVE  Same
    BY <2>1, CreateLineage
  <2>2. CASE g = k /\ \A S \in SUBSET Member : \A E \in SUBSET S, policy \in Policy :
                        ~create_group(p, k, S, E, policy)
    <3>1. PICK event \in MemberEvents : Preamble(p, g, event)
      BY <1>1, <2>2 DEF Membership, add_member, remove_member, enable_member, disable_member,
                        apply_membership_set, MemberEvents
    <3> QED BY <3>1, ClosedAccepts DEF MemberEvents
  <2>3. CASE g # k /\ \A S \in SUBSET Member : \A E \in SUBSET S, policy \in Policy :
                        ~create_group(p, k, S, E, policy)
    <3>1. PICK refreshed : Store(k, refreshed)
      <4>1. ASSUME NEW m \in Member, NEW enabled \in BOOLEAN, add_member(p, k, m, enabled)
            PROVE  \E refreshed : Store(k, refreshed)
        BY <4>1 DEF add_member, finish_group_mutation
      <4>2. ASSUME NEW m \in Member,
                   remove_member(p, k, m) \/ enable_member(p, k, m) \/ disable_member(p, k, m)
            PROVE  \E refreshed : Store(k, refreshed)
        BY <4>2 DEF remove_member, enable_member, disable_member, finish_group_mutation
      <4>3. ASSUME NEW S \in SUBSET Member, NEW E \in SUBSET S, apply_membership_set(p, k, S, E)
            PROVE  \E refreshed : Store(k, refreshed)
        BY <4>3 DEF apply_membership_set
      <4> QED BY <1>1, <2>3, <4>1, <4>2, <4>3 DEF Membership
    <3> QED BY <2>3, <3>1, StoreLeavesOthers
  <2> QED BY <2>1, <2>2, <2>3
<1>2. ASSUME NEW p \in Publisher, NEW k \in Group, Revalidation(p, k)
      PROVE  Same
  <2>1. PICK R \in SUBSET Member, q \in Policy :
          \/ \E newSet \in BOOLEAN : revalidate_group(p, k, R, q, newSet)
          \/ RefuseRevalidation(p, k, R, q)
    BY <1>2 DEF Revalidation
  <2>2. g # k
    <3>1. Preamble(p, k, "REVALIDATE")
      BY <2>1 DEF revalidate_group, RefuseRevalidation, CanReprove
    <3> QED BY <3>1, ClosedAccepts
  <2>3. \/ \E refreshed : Store(k, refreshed)
        \/ groups' = [groups EXCEPT ![k] = Reproved(groups[k], R, q)]
    BY <2>1 DEF revalidate_group, RefuseRevalidation, finish_group_mutation
  <2> QED BY <2>2, <2>3, StoreLeavesOthers DEF Created
<1>3. ASSUME NEW p \in Publisher, NEW k \in Group, Rebalance(p, k)
      PROVE  Same
  <2>1. \E event \in PlanEvents : Preamble(p, k, event)
    BY <1>3 DEF Rebalance, plan_rebalance, commit_rebalance, abort_rebalance, PlanEvents
  <2>2. g # k
    BY <2>1, ClosedAccepts DEF PlanEvents
  <2>3. \E refreshed : Store(k, refreshed)
    <3>1. ASSUME NEW S \in SUBSET Member, NEW E \in SUBSET S, plan_rebalance(p, k, S, E)
          PROVE  \E refreshed : Store(k, refreshed)
      BY <3>1 DEF plan_rebalance, finish_group_mutation
    <3>2. CASE commit_rebalance(p, k) \/ abort_rebalance(p, k)
      BY <3>2 DEF commit_rebalance, abort_rebalance, finish_group_mutation
    <3> QED BY <1>3, <3>1, <3>2 DEF Rebalance
  <2> QED BY <2>2, <2>3, StoreLeavesOthers
<1>4. ASSUME NEW p \in Publisher, NEW k \in Group, Closing(p, k)
      PROVE  Same
  <2>1. g # k
    <3>1. CASE withdraw_group(p, k)
      BY <3>1, ClosedAccepts DEF withdraw_group
    <3>2. CASE ClosesFurther(p, k)
      BY <3>2
    <3> QED BY <1>4, <3>1, <3>2 DEF Closing, ClosesFurther
  <2>2. ASSUME NEW h \in Group, supersede_group(p, k, h)
        PROVE  Same
    <3>1. g # h
      BY <2>2, SupersedeLineage
    <3> QED BY <2>1, <2>2, <3>1, SupersedeLineage
  <2>3. CASE \/ withdraw_group(p, k) \/ complete_withdrawal(p, k)
             \/ revoke_group(p, k) \/ retire_group(p, k)
    <3>1. \E refreshed : Store(k, refreshed)
      BY <2>3 DEF withdraw_group, complete_withdrawal, revoke_group, retire_group,
                  finish_group_mutation
    <3> QED BY <2>1, <3>1, StoreLeavesOthers
  <2> QED BY <1>4, <2>2, <2>3 DEF Closing
<1>5. ASSUME NEW p \in Publisher, Notice(p)
      PROVE  Same
  <2>1. ASSUME NEW path \in Path, notify_path_authority_change(p, path)
        PROVE  Same
    <3> DEFINE next == [h \in Dependents(p, path_index[path]) |->
                          Noticed(h, PathObserved(groups[h], path), "INVALIDATE_PATH")]
    <3>1. Deliver(next) /\ g \notin DOMAIN next
      BY <2>1 DEF notify_path_authority_change, Dependents
    <3> QED BY <3>1, DeliverLeavesClosed
  <2>2. CASE notify_multipath_set_change(p)
    <3> DEFINE next == [h \in Dependents(p, MultipathGroups) |->
                          Noticed(h, MultipathObserved(h), "INVALIDATE_MULTIPATH")]
    <3>1. Deliver(next) /\ g \notin DOMAIN next
      BY <2>2 DEF notify_multipath_set_change, Dependents
    <3> QED BY <3>1, DeliverLeavesClosed
  <2>3. ASSUME NEW q \in Policy, notify_cost_generation_change(p, q)
        PROVE  Same
    <3> DEFINE next == [h \in Dependents(p, Created) |->
                          Noticed(h, CostObserved(groups[h], q), "INVALIDATE_COST")]
    <3>1. Deliver(next) /\ g \notin DOMAIN next
      BY <2>3 DEF notify_cost_generation_change, Dependents
    <3> QED BY <3>1, DeliverLeavesClosed
  <2> QED BY <1>5, <2>1, <2>2, <2>3 DEF Notice
<1>6. CASE Registry
  <2>1. CASE set_epoch
    <3> DEFINE next == [h \in {k \in Group : is_open(k)} |->
                 Disarmed([groups[h] EXCEPT !.authority_generation = @ + 1], "STALE_EPOCH")]
    <3>1. Deliver(next) /\ g \notin DOMAIN next
      BY <2>1 DEF set_epoch
    <3> QED BY <3>1, DeliverLeavesClosed
  <2>2. ASSUME NEW p \in Publisher, fence_publisher(p)
        PROVE  Same
    <3> DEFINE next == [k \in {h \in authority_index[p] :
                                 groups[h].authority_boot = publishers[p] /\ is_open(h)} |->
                          Disarmed(groups[k], "FENCED_PUBLISHER")]
    <3>1. Deliver(next) /\ g \notin DOMAIN next
      BY <2>2 DEF fence_publisher
    <3> QED BY <3>1, DeliverLeavesClosed
  <2>3. ASSUME NEW p \in Publisher, NEW b \in Boot, register_publisher(p, b)
        PROVE  Same
    BY <2>3 DEF register_publisher, Created
  <2> QED BY <1>6, <2>1, <2>2, <2>3 DEF Registry
<1>7. CASE Upstream \/ UNCHANGED vars
  BY <1>7 DEF Upstream, PathMoves, PathAuthorization, SetMoves, vars, Created
<1> QED BY <1>1, <1>2, <1>3, <1>4, <1>5, <1>6, <1>7 DEF Next

\* A closing operation stores a closed group that declares nobody new.
LEMMA ClosingStoresClosed ==
  ASSUME IInv, NEW p \in Publisher, Live(p), NEW g \in Created, NEW edited, GroupOK(edited),
         Declared(edited.members) \subseteq Declared(groups[g].members),
         NEW event \in ClosingEvents, finish_group_mutation(p, g, edited, event)
  PROVE  /\ g \in Created' /\ groups'[g].lifecycle \in ClosedLifecycles
         /\ Declared(groups'[g].members) \subseteq Declared(groups[g].members)
<1> DEFINE bound == bind_authority(edited, p, publishers[p], epoch)
           new   == refresh_group(bound, event, TRUE)
           final == [new EXCEPT !.members = evict_withdrawn(@)]
<1>1. publishers[p] \in Boot /\ epoch \in Nat /\ TypeOK
  BY LiveBoot, ConstantsType DEF IInv, TypeOK
<1>2. GroupOK(bound) /\ bound.members = edited.members
  <2>1. GroupOK(bound)
    BY <1>1, BindType
  <2>2. bound.members = edited.members
    BY DEF bind_authority, GroupOK
  <2> QED BY <2>1, <2>2
<1> HIDE DEF bound
<1>3. /\ Declared(new.members) = Declared(edited.members)
      /\ new.lifecycle = EventTarget[event] /\ Fields \subseteq DOMAIN new
  BY <1>2, RefreshKeeps, RefreshMarks, FieldsOfGroup DEF SameMarks
<1>4. groups' = [groups EXCEPT ![g] = final]
  BY DEF finish_group_mutation, Store, Refreshed, bound
<1> HIDE DEF new
<1>5. final.lifecycle = new.lifecycle /\ final.members = evict_withdrawn(new.members)
  BY <1>3 DEF Fields
<1> HIDE DEF final
<1>6. groups'[g] = final /\ g \in Created'
  BY <1>4 DEF Created
<1>7. EventTarget[event] \in ClosedLifecycles
  BY DEF ClosingEvents, CloseEvents, EventTarget, ClosedLifecycles
<1> QED BY <1>3, <1>5, <1>6, <1>7, EvictDeclared

\* Closing a group further declares nobody, and leaves it closed.
LEMMA FurtherIsClosed ==
  ASSUME IInv, NEW p \in Publisher, NEW g \in Created, ClosesFurther(p, g)
  PROVE  /\ g \in Created' /\ groups'[g].lifecycle \in ClosedLifecycles
         /\ Declared(groups'[g].members) \subseteq Declared(groups[g].members)
<1> DEFINE Closed(d, e, plan) ==
             [groups[g] EXCEPT !.members = AllMembers(@, d, e), !.plan = plan,
                               !.currentness = @ \cup {"RETIRED"}]
<1>1. GroupOK(groups[g])
  BY GroupTyped
<1>2. ASSUME NEW d \in BOOLEAN, NEW e \in BOOLEAN, NEW plan \in {groups[g].plan, NoPlan}
      PROVE  /\ GroupOK(Closed(d, e, plan))
             /\ Declared(Closed(d, e, plan).members) \subseteq Declared(groups[g].members)
  <2>1. GroupOK(Closed(d, e, plan))
    BY <1>1, ClosedType
  <2>2. Closed(d, e, plan).members = AllMembers(groups[g].members, d, e)
    BY <1>1 DEF GroupOK
  <2>3. Declared(AllMembers(groups[g].members, d, e)) \subseteq Declared(groups[g].members)
    <3>1. ASSUME NEW m \in DOMAIN groups[g].members
          PROVE  AllMembers(groups[g].members, d, e)[m].declared =>
                   groups[g].members[m].declared
      <4>1. groups[g].members[m] \in MemberEntry
        BY <1>1, <3>1 DEF GroupOK, MembersOK
      <4> QED BY <3>1, <4>1 DEF AllMembers, MemberEntry
    <3> QED BY <3>1 DEF Declared, AllMembers
  <2> QED BY <2>1, <2>2, <2>3
<1>3. ASSUME NEW d \in BOOLEAN, NEW e \in BOOLEAN
      PROVE  Closed(d, e, groups[g].plan)
               = [groups[g] EXCEPT !.members = AllMembers(@, d, e),
                                   !.currentness = @ \cup {"RETIRED"}]
  BY <1>1 DEF GroupOK
<1> HIDE DEF Closed
<1>4. CASE complete_withdrawal(p, g)
  <2>1. Live(p) /\ finish_group_mutation(p, g, Closed(FALSE, TRUE, groups[g].plan),
                                         "COMPLETE_WITHDRAW")
    BY <1>3, <1>4 DEF complete_withdrawal, Preamble
  <2> QED BY <1>2, <2>1, ClosingStoresClosed DEF ClosingEvents
<1>5. CASE revoke_group(p, g)
  <2>1. Live(p) /\ finish_group_mutation(p, g, Closed(TRUE, FALSE, groups[g].plan), "REVOKE")
    BY <1>3, <1>5 DEF revoke_group, Preamble
  <2> QED BY <1>2, <2>1, ClosingStoresClosed DEF ClosingEvents, CloseEvents
<1>6. CASE retire_group(p, g)
  <2>1. Live(p) /\ finish_group_mutation(p, g, Closed(FALSE, FALSE, NoPlan), "RETIRE")
    BY <1>6 DEF retire_group, Preamble, Closed
  <2> QED BY <1>2, <2>1, ClosingStoresClosed DEF ClosingEvents, CloseEvents
<1>7. ASSUME NEW h \in Group, supersede_group(p, g, h)
      PROVE  /\ g \in Created' /\ groups'[g].lifecycle \in ClosedLifecycles
             /\ Declared(groups'[g].members) \subseteq Declared(groups[g].members)
  BY <1>7, SupersedeLineage, SupersedeCounts DEF SameDeclared, Gone, ClosedLifecycles
<1> QED BY <1>4, <1>5, <1>6, <1>7 DEF ClosesFurther

\* While a process lives, what is closed stays closed, and successors are of the gone.
LEMMA StepStaysClosed ==
  ASSUME IInv, SuccessorsOfTheGone(groups), [Next]_vars
  PROVE  StaysClosed(groups, groups') /\ SuccessorsOfTheGone(groups')
<1>1. ASSUME NEW g \in Created, ~is_open(g)
      PROVE  /\ g \in Created' /\ groups'[g].lifecycle \in ClosedLifecycles
             /\ Declared(groups'[g].members) \subseteq Declared(groups[g].members)
  BY <1>1, ClosedIsLeftAlone, FurtherIsClosed DEF is_open, is_administratively_closed
<1> DEFINE Preserved == \A g \in Created : groups[g].successor # NoGroup =>
                     groups'[g].successor = groups[g].successor
<1>2. Preserved /\ SuccessorsOfTheGone(groups')
  <2>1. CASE Evolution
    BY <2>1 DEF Evolution, Evolves, SuccessorsOfTheGone, Created
  <2>2. ASSUME NEW p \in Publisher, NEW g, NEW S, NEW E, NEW policy,
               create_group(p, g, S, E, policy)
        PROVE  Preserved /\ SuccessorsOfTheGone(groups')
    BY <2>2, CreateLineage DEF SuccessorsOfTheGone, Created
  <2>3. ASSUME NEW p \in Publisher, NEW g, NEW h, supersede_group(p, g, h)
        PROVE  Preserved /\ SuccessorsOfTheGone(groups')
    BY <2>3, SupersedeLineage DEF SuccessorsOfTheGone, Created
  <2> QED BY <2>1, <2>2, <2>3, NextEvolves
<1> QED BY <1>1, <1>2 DEF StaysClosed, Created, is_open, is_administratively_closed

\* Recovery keeps the lineage of a group, and a closed group closed.
LEMMA RecoverMarks ==
  ASSUME NEW group, GroupOK(group)
  PROVE  /\ recover_group(group).successor = group.successor
         /\ recover_group(group).predecessor = group.predecessor
         /\ group.lifecycle \in ClosedLifecycles =>
              recover_group(group).lifecycle = group.lifecycle
<1> DEFINE unproven ==
             [group EXCEPT !.members = Unproven(@), !.plan = NoPlan,
                           !.declared_digest = Declared(group.members),
                           !.currentness = @ \cup {"STALE_EPOCH", "REVALIDATION_REQUIRED"},
                           !.authority_generation = @ + 1]
           refreshed == refresh_group(unproven, "INVALIDATE_EPOCH", FALSE)
<1>1. recover_group(group) = IF lifecycle_allows(group.lifecycle, "INVALIDATE_EPOCH")
                             THEN refreshed ELSE [refreshed EXCEPT !.lifecycle = group.lifecycle]
  BY DEF recover_group
<1>2. /\ unproven.successor = group.successor /\ unproven.predecessor = group.predecessor
      /\ Fields \subseteq DOMAIN unproven
  BY FieldsOfGroup DEF Fields
<1> HIDE DEF unproven
<1>3. /\ refreshed.successor = group.successor /\ refreshed.predecessor = group.predecessor
      /\ Fields \subseteq DOMAIN refreshed
  BY <1>2, RefreshMarks DEF SameMarks
<1> HIDE DEF refreshed
<1>4. group.lifecycle \in ClosedLifecycles =>
        ~lifecycle_allows(group.lifecycle, "INVALIDATE_EPOCH")
  BY DEF ClosedLifecycles, lifecycle_allows, AllowedEvents
<1> QED BY <1>1, <1>3, <1>4 DEF Fields

\* Recovery reopens nothing, and keeps successors.
LEMMA RecoveryStaysClosed ==
  ASSUME StoreInv, ClosedInv, load
  PROVE  StaysClosed(file.groups, groups') /\ SuccessorsOfTheGone(groups')
<1>1. /\ DOMAIN groups' = DOMAIN file.groups
      /\ \A g \in DOMAIN file.groups : /\ groups'[g] = recover_group(file.groups[g])
                                        /\ GroupOK(file.groups[g])
  BY DEF load, StoreInv, FileInv, ImageOK
<1>3. \A g \in DOMAIN file.groups :
        Declared(groups'[g].members) = Declared(file.groups[g].members)
  BY <1>1, RecoverInv
<1>4. Gone \subseteq ClosedLifecycles
  BY DEF Gone, ClosedLifecycles
<1>5. StaysClosed(file.groups, groups')
  BY <1>1, <1>3, RecoverMarks DEF StaysClosed, is_administratively_closed
<1>6. SuccessorsOfTheGone(groups')
  BY <1>1, <1>4, RecoverMarks DEF ClosedInv, SuccessorsOfTheGone
<1> QED BY <1>5, <1>6

\* Closed then, closed since, closed now.
LEMMA StaysClosedTwice ==
  ASSUME NEW a, NEW b, NEW c, StaysClosed(a, b), StaysClosed(b, c)
  PROVE  StaysClosed(a, c)
BY DEF StaysClosed

\* A step of the process replaces the file, loads it, forgets the governor, runs
\* it, or, while the process is down, leaves it alone.
LEMMA StoreStepShapes ==
  ASSUME StoreInv, [StoreNext]_storeVars
  PROVE  \/ ReplaceFile
         \/ load
         \/ Fresh /\ phase' = "STOPPED" /\ UNCHANGED file
         \/ [Next]_vars /\ UNCHANGED file /\ phase \notin {"STOPPED", "REFUSED"}
         \/ /\ UNCHANGED <<groups, file>>
            /\ phase \in {"STOPPED", "REFUSED"}
            /\ file = NoFile \/ phase' \in {"STOPPED", "REFUSED"}
<1>1. CASE Serving
  <2>1. CASE Mutate
    BY <2>1 DEF Mutate, Next, Revalidation, disk
  <2>2. CASE RefuseHalfway
    BY <2>2 DEF RefuseHalfway, Next, Revalidation, disk
  <2>3. CASE RegisterOrFence
    BY <2>3 DEF RegisterOrFence, Next, Registry, disk
  <2> QED BY <1>1, <2>1, <2>2, <2>3 DEF Serving
<1>2. CASE Advance
  BY <1>2 DEF Advance, Next, Registry, disk
<1>3. CASE BeginSave \/ FlushTemporary
  <2>1. UNCHANGED <<vars, file>>
    BY <1>3 DEF BeginSave, FlushTemporary
  <2>2. phase \notin {"STOPPED", "REFUSED"}
    BY <1>3 DEF BeginSave, FlushTemporary, StoreInv, ProcessInv
  <2> QED BY <2>1, <2>2
<1>4. CASE StartEmpty \/ RefuseToStart
  BY <1>4 DEF StartEmpty, RefuseToStart, vars, disk
<1>5. CASE UpstreamMoves \/ UNCHANGED storeVars
  <2>1. [Next]_vars /\ UNCHANGED <<groups, phase, file>>
    BY <1>5 DEF UpstreamMoves, Next, Upstream, PathMoves, PathAuthorization, SetMoves,
                storeVars, process, disk, vars
  <2> QED BY <2>1
<1>6. CASE SaveFails
  <2>1. CASE Fresh /\ phase' = "STOPPED"
    BY <1>6, <2>1 DEF SaveFails
  <2>2. CASE phase = "ACCEPTED" /\ UNCHANGED vars
    BY <1>6, <2>2 DEF SaveFails
  <2> QED BY <1>6, <2>1, <2>2 DEF SaveFails
<1>7. CASE Crash
  BY <1>7 DEF Crash, disk
<1>8. CASE ReplaceFile \/ load
  BY <1>8
<1> QED BY <1>1, <1>2, <1>3, <1>4, <1>5, <1>6, <1>7, <1>8 DEF StoreNext, Serving

\* Closing is for ever, across restarts: no crash, no failed save and no recovery
\* brings a closed group back, loses its successor, or declares a member again.
THEOREM ClosingIsForEver == StoreSpec => ClosingIsDurable
<1> DEFINE Step == /\ StaysClosed(file.groups, file.groups')
                   /\ phase' # "STOPPED" => StaysClosed(groups, groups')
                   /\ phase' \notin {"STOPPED", "REFUSED"} => StaysClosed(file.groups', groups')
<1>1. StoreInit => ClosedInv
  BY DEF StoreInit, Init, NoFile, ClosedInv, SuccessorsOfTheGone
<1>2. ASSUME StoreInv, ClosedInv, [StoreNext]_storeVars
      PROVE  ClosedInv' /\ Step
  <2>1. StaysClosed(file.groups, file.groups) /\ StaysClosed(groups, groups)
    BY DEF StaysClosed
  <2>2. CASE ReplaceFile
    <3>1. file'.groups = groups /\ groups' = groups
      BY <2>2 DEF ReplaceFile, Image, vars
    <3>2. phase \in {"STARTING", "ACCEPTED"}
      BY <1>2, <2>2 DEF ReplaceFile, StoreInv, ProcessInv
    <3>3. StaysClosed(file.groups, groups)
      BY <1>2, <3>2 DEF ClosedInv
    <3> QED BY <1>2, <2>1, <3>1, <3>3 DEF ClosedInv
  <2>3. CASE load
    <3>1. Created = {} /\ UNCHANGED file
      BY <1>2, <2>3 DEF load, disk, StoreInv, ProcessInv
    <3>2. StaysClosed(groups, groups')
      BY <3>1 DEF StaysClosed, Created
    <3> QED BY <1>2, <2>1, <2>3, <3>1, <3>2, RecoveryStaysClosed DEF ClosedInv
  <2>4. CASE Fresh /\ phase' = "STOPPED" /\ UNCHANGED file
    <3>1. SuccessorsOfTheGone(groups')
      BY <2>4 DEF Fresh, SuccessorsOfTheGone
    <3> QED BY <1>2, <2>1, <2>4, <3>1 DEF ClosedInv
  <2>5. CASE [Next]_vars /\ UNCHANGED file /\ phase \notin {"STOPPED", "REFUSED"}
    <3>1. StaysClosed(groups, groups') /\ SuccessorsOfTheGone(groups')
      BY <1>2, <2>5, StepStaysClosed DEF ClosedInv, StoreInv, GovernorInv
    <3>2. StaysClosed(file.groups, groups')
      BY <1>2, <2>5, <3>1, StaysClosedTwice DEF ClosedInv
    <3> QED BY <1>2, <2>1, <2>5, <3>1, <3>2 DEF ClosedInv
  <2>6. CASE /\ UNCHANGED <<groups, file>>
             /\ phase \in {"STOPPED", "REFUSED"}
             /\ file = NoFile \/ phase' \in {"STOPPED", "REFUSED"}
    <3>1. phase' \notin {"STOPPED", "REFUSED"} => StaysClosed(file.groups, groups)
      BY <2>6 DEF NoFile, StaysClosed
    <3> QED BY <1>2, <2>1, <2>6, <3>1 DEF ClosedInv
  <2> QED BY <1>2, <2>2, <2>3, <2>4, <2>5, <2>6, StoreStepShapes
<1>3. StoreInv /\ ClosedInv /\ [StoreNext]_storeVars =>
        /\ ClosedInv'
        /\ [/\ StaysClosed(file.groups, file.groups')
            /\ phase' # "STOPPED" => StaysClosed(groups, groups')
            /\ phase' \notin {"STOPPED", "REFUSED"} =>
                 StaysClosed(file.groups', groups')]_storeVars
  BY <1>2
<1> QED BY <1>1, <1>3, StoreInvariantHolds, PTL DEF StoreSpec, ClosingIsDurable

-----------------------------------------------------------------------------
(* Maps, lineages and limits, in memory and on the disk.                    *)

\* Both directions of the lineage of a collection of groups.
Lineage(gs) ==
  LET superseded == {g \in DOMAIN gs : gs[g].successor # NoGroup}
  IN  /\ \A S \in SUBSET superseded : S # {} => \E g \in S : gs[g].successor \in DOMAIN gs \ S
      /\ \A g \in superseded : /\ gs[g].lifecycle \in Gone
                               /\ gs[g].successor \in DOMAIN gs
                               /\ gs[gs[g].successor].predecessor # NoGroup
      /\ \A g \in DOMAIN gs : gs[g].predecessor # NoGroup =>
           /\ gs[g].predecessor \in DOMAIN gs
           /\ gs[gs[g].predecessor].successor = g

\* As many groups as the limits admit, each with its map, and their lineage.
Sound(gs) ==
  /\ IsFiniteSet(DOMAIN gs) /\ Cardinality(DOMAIN gs) <= MaxGroups
  /\ \A g \in DOMAIN gs : GroupMap(gs[g])
  /\ Lineage(gs)

\* It holds of the governor, of the file and of what is being written.
SoundInv == Sound(groups) /\ Sound(file.groups) /\ Sound(temp.groups)

\* The lineage of the groups in memory is the one LineageProofs is about.
LEMMA LineageOfGroups ==
  Lineage(groups) <=> LInv /\ HeirsKnow
<1>1. Superseded = {g \in DOMAIN groups : groups[g].successor # NoGroup}
  BY DEF Superseded, Created
<1>2. ASSUME Lineage(groups)
      PROVE  LInv /\ HeirsKnow
  <2>1. Gone \subseteq ClosedLifecycles
    BY DEF Gone, ClosedLifecycles
  <2>2. \A g \in Superseded : ~is_open(g)
    BY <1>1, <1>2, <2>1 DEF Lineage, is_open, is_administratively_closed
  <2> QED BY <1>1, <1>2, <2>2 DEF Lineage, LInv, LineageEnds, HeirsKnow, Created
<1>3. ASSUME LInv, HeirsKnow
      PROVE  Lineage(groups)
  BY <1>1, <1>3 DEF Lineage, LInv, LineageEnds, HeirsKnow, Created
<1> QED BY <1>2, <1>3

\* No groups at all are sound.
LEMMA NothingIsSound ==
  ASSUME NEW gs, DOMAIN gs = {}
  PROVE  Sound(gs)
<1>1. IsFiniteSet(DOMAIN gs) /\ Cardinality(DOMAIN gs) = 0
  BY FS_EmptySet
<1>2. 0 <= MaxGroups
  BY ConfigurationAssumption
<1> QED BY <1>1, <1>2 DEF Sound, Lineage

\* A step of the governor keeps its groups sound: create_group counts them.
LEMMA NextSound ==
  ASSUME IInv, Sound(groups), [Next]_vars
  PROVE  Sound(groups')
<1>1. MapsInv /\ LInv /\ HeirsKnow
  BY LineageOfGroups DEF Sound, MapsInv, Created
<1>2. MapsInv' /\ HeirsKnow'
  BY <1>1, NextMaps, NextHeirs
<1>3. LInv'
  BY <1>1, NextEvolves, EvolutionLineage, CreationLineage, SupersessionLineage
<1>4. Lineage(groups)'
  BY <1>2, <1>3, LineageOfGroups, PTL
<1>5. Lineage(groups')
  BY <1>4 DEF Lineage
<1>6. \A g \in DOMAIN groups' : GroupMap(groups'[g])
  BY <1>2 DEF MapsInv, Created, GroupMap, Numbered, PlanFits, Fits, EnabledTargets, Serves
<1>7. IsFiniteSet(DOMAIN groups') /\ Cardinality(DOMAIN groups') <= MaxGroups
  <2>1. CASE DOMAIN groups' = DOMAIN groups
    BY <2>1 DEF Sound
  <2>2. ASSUME NEW p \in Publisher, NEW g \in Group, NEW S, NEW E, NEW policy,
               create_group(p, g, S, E, policy)
        PROVE  IsFiniteSet(DOMAIN groups') /\ Cardinality(DOMAIN groups') <= MaxGroups
    <3>1. g \notin Created /\ Created' = Created \cup {g}
      BY <2>2, CreateLineage
    <3>2. Cardinality(Created) < MaxGroups /\ IsFiniteSet(Created) /\ MaxGroups \in Nat
      BY <2>2, ConfigurationAssumption DEF create_group, Sound, Created
    <3>3. /\ IsFiniteSet(Created \cup {g})
          /\ Cardinality(Created \cup {g}) = Cardinality(Created) + 1
          /\ Cardinality(Created) \in Nat
      BY <3>1, <3>2, FS_AddElement, FS_CardinalityType
    <3> QED BY <3>1, <3>2, <3>3 DEF Created
  <2>3. CASE \E p \in Publisher, g \in Group, h \in Group : supersede_group(p, g, h)
    BY <2>1, <2>3, SupersedeLineage DEF Created
  <2>4. CASE Evolution
    BY <2>1, <2>4 DEF Evolution, Created
  <2> QED BY <2>2, <2>3, <2>4, NextEvolves
<1> QED BY <1>5, <1>6, <1>7 DEF Sound

\* Recovery keeps the map of a group and leaves no authority to serve it with.
LEMMA RecoverMap ==
  ASSUME NEW group, GroupOK(group), GroupMap(group)
  PROVE  GroupMap(recover_group(group))
<1> DEFINE causes  == group.currentness \cup {"STALE_EPOCH", "REVALIDATION_REQUIRED"}
           members == Unproven(group.members)
           digest  == Declared(group.members)
           count   == group.authority_generation + 1
           bare    == [group EXCEPT !.members = members, !.plan = NoPlan,
                                    !.declared_digest = digest, !.currentness = causes,
                                    !.authority_generation = count]
           fresh   == refresh_group(bare, "INVALIDATE_EPOCH", FALSE)
           closed  == [fresh EXCEPT !.lifecycle = group.lifecycle]
           final   == recover_group(group)
<1>1. final = IF lifecycle_allows(group.lifecycle, "INVALIDATE_EPOCH") THEN fresh ELSE closed
  BY DEF recover_group
<1>2. MembersOK(members) /\ Declared(members) = Declared(group.members)
      /\ DOMAIN members = DOMAIN group.members
  BY UnprovenType DEF GroupOK, Unproven
<1>3. /\ causes \subseteq CurrentnessCause /\ "STALE_EPOCH" \in causes
      /\ digest \subseteq Member /\ count \in Nat /\ digest = Declared(group.members)
  BY DEF GroupOK, CurrentnessCause, MembersOK, Declared
<1> HIDE DEF causes, members, digest, count
<1>4. /\ GroupOK(bare) /\ bare.plan = NoPlan /\ bare.currentness = causes
      /\ bare.members = members /\ bare.assignment = group.assignment
      /\ bare.declared_digest = digest
      /\ bare.membership_generation = group.membership_generation
  BY <1>2, <1>3 DEF GroupOK
<1> HIDE DEF bare
<1>5. "INVALIDATE_EPOCH" \in GroupEvent
  BY DEF GroupEvent, OrdinaryEvents, Invalidations
<1>6. /\ GroupOK(fresh) /\ fresh.members = derive_members(members) /\ fresh.plan = NoPlan
      /\ fresh.currentness = causes /\ Counts(bare, fresh)
      /\ fresh.assignment = group.assignment
  <2>1. /\ GroupOK(fresh) /\ fresh.members = derive_members(bare.members)
        /\ fresh.plan = bare.plan /\ fresh.currentness = bare.currentness
        /\ Counts(bare, fresh)
        /\ fresh.assignment = IF FALSE
                              THEN compute_rebalance(bare.assignment, active_members(fresh.members))
                              ELSE bare.assignment
    BY <1>4, <1>5, RefreshMap
  <2> HIDE DEF fresh
  <2> QED BY <1>4, <2>1
<1> HIDE DEF fresh
<1>7. /\ DOMAIN fresh.members = DOMAIN group.members
      /\ Declared(fresh.members) = Declared(group.members)
  BY <1>2, <1>6, DeriveRecords
<1>8. Numbered(fresh)
  BY <1>3, <1>4, <1>6, <1>7 DEF Counts, Numbered, GroupMap
<1>9. ~authority_current(fresh.currentness)
  BY <1>3, <1>6 DEF authority_current, AuthorityCauses
<1>10. GroupMap(fresh)
  BY <1>6, <1>7, <1>8, <1>9 DEF GroupMap, PlanFits
<1>11. SameMap(fresh, closed) /\ closed.members = fresh.members /\ closed.plan = fresh.plan
       /\ closed.currentness = fresh.currentness
  BY <1>6 DEF GroupOK, SameMap
<1> HIDE DEF closed
<1>12. GroupMap(closed)
  BY <1>10, <1>11, UntouchedMap
<1> QED BY <1>1, <1>10, <1>12 DEF closed, final

\* What a load makes of a sound file is sound.
LEMMA LoadSound ==
  ASSUME StoreInv, Sound(file.groups), load
  PROVE  Sound(groups')
<1>1. /\ DOMAIN groups' = DOMAIN file.groups
      /\ \A g \in DOMAIN file.groups : /\ groups'[g] = recover_group(file.groups[g])
                                        /\ GroupOK(file.groups[g])
  BY DEF load, StoreInv, FileInv, ImageOK
<1>2. \A g \in DOMAIN file.groups :
        /\ groups'[g].successor = file.groups[g].successor
        /\ groups'[g].predecessor = file.groups[g].predecessor
        /\ file.groups[g].lifecycle \in Gone => groups'[g].lifecycle \in Gone
  <2>1. Gone \subseteq ClosedLifecycles
    BY DEF Gone, ClosedLifecycles
  <2> QED BY <1>1, <2>1, RecoverMarks
<1>3. Lineage(groups')
  BY <1>1, <1>2 DEF Sound, Lineage
<1>4. \A g \in DOMAIN groups' : GroupMap(groups'[g])
  BY <1>1, RecoverMap DEF Sound
<1> QED BY <1>1, <1>3, <1>4 DEF Sound

\* A coordinator that starts has nothing; every step of its process keeps what it has.
LEMMA StoreSound ==
  /\ StoreInit => SoundInv
  /\ StoreInv /\ SoundInv /\ [StoreNext]_storeVars => SoundInv'
<1>1. ASSUME StoreInit PROVE SoundInv
  <2>1. DOMAIN groups = {} /\ DOMAIN file.groups = {} /\ DOMAIN temp.groups = {}
    BY <1>1 DEF StoreInit, Init, NoFile
  <2> QED BY <2>1, NothingIsSound DEF SoundInv
<1>2. ASSUME StoreInv, SoundInv, [StoreNext]_storeVars
      PROVE  SoundInv'
  <2>1. Sound(groups')
    <3>1. CASE [Next]_vars
      BY <1>2, <3>1, NextSound DEF StoreInv, GovernorInv, SoundInv
    <3>2. CASE load
      BY <1>2, <3>2, LoadSound DEF SoundInv
    <3>3. CASE Fresh
      BY <3>3, NothingIsSound DEF Fresh
    <3> QED BY <1>2, <3>1, <3>2, <3>3, StoreStepKinds
  <2>2. ASSUME ReplaceFile PROVE Sound(file'.groups) /\ Sound(temp'.groups)
    <3>1. file' = temp /\ temp' = NoFile
      BY <2>2 DEF ReplaceFile
    <3>2. DOMAIN temp'.groups = {}
      BY <3>1 DEF NoFile
    <3>3. Sound(temp'.groups)
      BY <3>2, NothingIsSound
    <3> QED BY <1>2, <3>1, <3>3 DEF SoundInv
  <2>3. ASSUME FlushTemporary PROVE Sound(file'.groups) /\ Sound(temp'.groups)
    <3>1. file' = file /\ temp' = Image
      BY <2>3 DEF FlushTemporary
    <3>2. Image.groups = groups
      BY DEF Image
    <3> QED BY <1>2, <3>1, <3>2 DEF SoundInv
  <2>4. ASSUME BeginSave \/ SaveFails PROVE Sound(file'.groups) /\ Sound(temp'.groups)
    <3>1. file' = file /\ temp' \in {Torn, NoFile}
      BY <2>4 DEF BeginSave, SaveFails
    <3>2. DOMAIN temp'.groups = {}
      BY <3>1 DEF NoFile, Torn
    <3>3. Sound(temp'.groups)
      BY <3>2, NothingIsSound
    <3> QED BY <1>2, <3>1, <3>3 DEF SoundInv
  <2>5. ASSUME UNCHANGED disk PROVE Sound(file'.groups) /\ Sound(temp'.groups)
    <3>1. file' = file /\ temp' = temp
      BY <2>5 DEF disk
    <3> QED BY <1>2, <3>1 DEF SoundInv
  <2>6. Sound(file'.groups) /\ Sound(temp'.groups)
    <3>1. ReplaceFile \/ FlushTemporary \/ BeginSave \/ SaveFails \/ UNCHANGED disk
      BY <1>2 DEF StoreNext, storeVars, StartEmpty, load, RefuseToStart, Advance, Crash, Mutate,
                  RefuseHalfway, RegisterOrFence, UpstreamMoves
    <3> QED BY <2>2, <2>3, <2>4, <2>5, <3>1
  <2> QED BY <2>1, <2>6 DEF SoundInv
<1> QED BY <1>1, <1>2

\* The groups stay sound through every crash, restart and failed save.
THEOREM SoundForEver == StoreSpec => [](StoreInv /\ SoundInv)
BY StoreSound, StoreInvariantHolds, PTL DEF StoreSpec

\* Every file a coordinator writes loads again, but for a pending plan: the limits that
\* decode_group applies are the limits the mutations keep, and a map names only entries the
\* file still has.
THEOREM OnlyPlansSpoil == StoreSpec => []OnlyAPlanSpoilsTheFile
<1>1. ASSUME StoreInv, SoundInv, file # NoFile
      PROVE  /\ file # Torn
             /\ Loadable([file EXCEPT !.groups =
                            [g \in DOMAIN @ |-> [@[g] EXCEPT !.plan = NoPlan]]])
  <2> DEFINE bare  == [g \in DOMAIN file.groups |-> [file.groups[g] EXCEPT !.plan = NoPlan]]
             image == [file EXCEPT !.groups = bare]
  <2>1. ImageOK(file) /\ file.epoch \in Nat
    BY <1>1, FileEpoch DEF StoreInv, FileInv
  <2>2. Torn.epoch = -1 /\ -1 \notin Nat
    BY DEF Torn
  <2>3. image.epoch = file.epoch /\ image.groups = bare
    <3> HIDE DEF bare
    <3> QED BY <2>1 DEF ImageOK
  <2> HIDE DEF image
  <2>4. ASSUME NEW g \in DOMAIN file.groups
        PROVE  decode_group(bare[g])
    <3>1. GroupOK(file.groups[g]) /\ GroupMap(file.groups[g])
      BY <1>1, <2>1 DEF ImageOK, SoundInv, Sound
    <3>2. /\ bare[g].members = file.groups[g].members
          /\ bare[g].assignment = file.groups[g].assignment
          /\ bare[g].plan = NoPlan
      BY <3>1 DEF GroupOK
    <3> HIDE DEF bare
    <3> QED BY <3>1, <3>2 DEF decode_group, OwnersKnown, GroupMap, Fits
  <2>5. DOMAIN bare = DOMAIN file.groups
    OBVIOUS
  <2> HIDE DEF bare
  <2>6. PayloadDecodes(image)
    BY <1>1, <2>3, <2>4, <2>5 DEF PayloadDecodes, SoundInv, Sound
  <2>7. file # Torn /\ image # Torn
    BY <2>1, <2>2, <2>3
  <2>8. Loadable(image)
    BY <2>6, <2>7 DEF Loadable
  <2> QED BY <2>7, <2>8 DEF image, bare
<1>2. StoreInv /\ SoundInv => OnlyAPlanSpoilsTheFile
  BY <1>1 DEF OnlyAPlanSpoilsTheFile
<1> QED BY <1>2, SoundForEver, PTL

\* What holds of the maps of a governor holds of those of a coordinator, whatever process
\* wrote them and however many restarts they went through.
THEOREM MapsSurviveRestarts ==
  StoreSpec => [](AuthoritativeMapValid /\ OwnersArePresent /\ EntriesAreBounded)
<1>1. StoreInv /\ SoundInv => IInv /\ MapsInv
  BY DEF StoreInv, GovernorInv, SoundInv, Sound, MapsInv, Created
<1>2. IInv /\ MapsInv => AuthoritativeMapValid
  BY AuthoritativeServes DEF AuthoritativeMapValid
<1>3. MapsInv => OwnersArePresent /\ EntriesAreBounded
  BY DEF MapsInv, GroupMap, OwnersArePresent, EntriesAreBounded, is_open
<1> QED BY <1>1, <1>2, <1>3, SoundForEver, PTL

\* Chains of successors end, in a coordinator that was restarted as in one that was not.
THEOREM LineageSurvivesRestarts == StoreSpec => []LineageEnds
<1>1. SoundInv => LineageEnds
  BY LineageOfGroups DEF SoundInv, Sound, LInv
<1> QED BY <1>1, SoundForEver, PTL

\* As long as no group supersedes two others, the self-check of the governor in a
\* coordinator finds no problem, through every crash, recovery and epoch advance.
THEOREM SelfCheckSurvivesRestarts == StoreSpec => [](SoleHeirs => check_invariants)
<1>1. StoreInv /\ SoundInv => IInv /\ MapsInv /\ LInv /\ HeirsKnow /\ TotalIsDeclared
  BY LineageOfGroups
     DEF StoreInv, GovernorInv, SoundInv, Sound, MapsInv, Created, CountInv, DeclaredPairs,
         TotalIsDeclared
<1>2. IInv /\ MapsInv /\ LInv /\ HeirsKnow /\ TotalIsDeclared =>
        (SoleHeirs => check_invariants)
  BY GroupsPass
<1> QED BY <1>1, <1>2, SoundForEver, PTL

=============================================================================
