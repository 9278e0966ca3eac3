------------------------------ MODULE DurableStore ------------------------------
(***************************************************************************)
(* The coordinator process around the governor: it loads the store, advances *)
(* the epoch, saves before it serves, saves after every accepted mutation,   *)
(* and may be killed between any two of these steps (src/store.cpp,          *)
(* app/coordinator_main.cpp, and the mutation lock and autosave of           *)
(* src/server.cpp).                                                          *)
(*                                                                         *)
(* A save holds the governor's lock in shared mode, so nothing changes the   *)
(* groups while the file is written.  The mutation lock of the server keeps  *)
(* the next mutation out until the save has ended; registrations and fences  *)
(* do not take it.                                                           *)
(***************************************************************************)
EXTENDS GovernorSafety

CONSTANT MaxUnsaved   \* bound of the model: autosaves that fail in a row

ASSUME UnsavedAssumption == MaxUnsaved \in Nat

VARIABLES
  phase,     \* where the process is
  writing,   \* a save is under way
  file,      \* the store file
  temp,      \* the temporary file beside it
  served,    \* history: the last epoch in which requests were served, or 0
  unsaved    \* history: how many autosaves failed since the last save that did not

process   == <<phase, writing>>
disk      == <<file, temp>>
storeVars == <<vars, process, disk, served, unsaved>>

Phase == {"STOPPED", "REFUSED", "LOADED", "STARTING", "SERVING", "ACCEPTED"}

\* encode_governor_payload: every group, whole, under the current epoch.
Image == [epoch |-> epoch, groups |-> groups]

\* No file, and a file whose write was cut short: images of epochs nobody has.
NoFile == [epoch |-> 0, groups |-> [g \in {} |-> NoGroup]]
Torn   == [epoch |-> -1, groups |-> [g \in {} |-> NoGroup]]

-----------------------------------------------------------------------------
(* What a load accepts.                                                     *)

\* decode_assignment_pairs: an owner that is no entry of the group is refused.
OwnersKnown(owners, members) ==
  \A b \in Bucket : owners[b] \in DOMAIN members \cup {Nil}

\* The plan in decode_group: its map is held to the entries of today, not to the
\* members it is about to declare.
PlanDecodes(group) ==
  /\ Cardinality(DOMAIN group.plan.target_members) <= MaxMembersPerGroup
  /\ OwnersKnown(group.plan.assignment, group.members)

\* decode_group, where it depends on the data: the limits and the owners.
decode_group(group) ==
  /\ Cardinality(DOMAIN group.members) <= MaxMembersPerGroup
  /\ Cardinality(Declared(group.members)) <= BucketCount
  /\ OwnersKnown(group.assignment, group.members)
  /\ group.plan # NoPlan => PlanDecodes(group)

\* decode_governor_payload: one group that is refused refuses the file.
PayloadDecodes(image) ==
  /\ Cardinality(DOMAIN image.groups) <= MaxGroups
  /\ \A g \in DOMAIN image.groups : decode_group(image.groups[g])

\* decode_store_file: a file cut short fails its length or its tag.
Loadable(image) == image # Torn /\ PayloadDecodes(image)

\* Mutation: a pending plan survives.
recover_group_with_plan(group) ==
  LET unproven ==
        [group EXCEPT !.members = Unproven(@), !.authority_generation = @ + 1,
                      !.currentness = @ \cup {"STALE_EPOCH", "REVALIDATION_REQUIRED"}]
      refreshed == refresh_group(unproven, "INVALIDATE_EPOCH", FALSE)
  IN  IF lifecycle_allows(group.lifecycle, "INVALIDATE_EPOCH") THEN refreshed
      ELSE [refreshed EXCEPT !.lifecycle = group.lifecycle]

\* Mutation: the lifecycle is derived again, whatever it was.
recover_group_reopened(group) ==
  refresh_group(
    [group EXCEPT !.members = Unproven(@), !.plan = NoPlan, !.authority_generation = @ + 1,
                  !.currentness = @ \cup {"STALE_EPOCH", "REVALIDATION_REQUIRED"}],
    "INVALIDATE_EPOCH", FALSE)

\* recover_group: no proof, no plan, no authority; the map stays.  A closed
\* group refuses the event and keeps its lifecycle, but not before its causes
\* and flags have been written.
recover_group(group) ==
  LET unproven ==
        [group EXCEPT !.members = Unproven(@), !.plan = NoPlan,
                      !.declared_digest = Declared(group.members),
                      !.currentness = @ \cup {"STALE_EPOCH", "REVALIDATION_REQUIRED"},
                      !.authority_generation = @ + 1]
      refreshed == refresh_group(unproven, "INVALIDATE_EPOCH", FALSE)
  IN  IF lifecycle_allows(group.lifecycle, "INVALIDATE_EPOCH") THEN refreshed
      ELSE [refreshed EXCEPT !.lifecycle = group.lifecycle]

-----------------------------------------------------------------------------
StoreInit ==
  /\ Init
  /\ phase = "STOPPED" /\ writing = FALSE
  /\ file = NoFile /\ temp = NoFile
  /\ served = 0 /\ unsaved = 0

\* A governor as its constructor leaves it.
Fresh ==
  /\ epoch' = 1
  /\ publishers' = [p \in Publisher |-> NoBoot]
  /\ fenced_boots' = {}
  /\ groups' = [g \in {} |-> NoGroup]
  /\ total_members' = 0
  /\ path_index' = [path \in Path |-> {}]
  /\ authority_index' = [p \in Publisher |-> {}]
  /\ current_cost_policy' = 0
  /\ noticed' = {}
  /\ UNCHANGED upstream

\* No store yet: the first incarnation serves epoch 1.
StartEmpty ==
  /\ phase = "STOPPED" /\ file = NoFile
  /\ phase' = "STARTING"
  /\ UNCHANGED <<vars, writing, disk, served, unsaved>>

\* load: the groups of the file replace an empty governor, recovered.
load ==
  /\ phase = "STOPPED" /\ file # NoFile
  /\ Loadable(file)
  /\ phase' = "LOADED"
  /\ epoch' = file.epoch
  /\ groups' = [g \in DOMAIN file.groups |-> recover_group(file.groups[g])]
  /\ total_members' =
       Cardinality(UNION {{g} \X Declared(file.groups[g].members) : g \in DOMAIN file.groups})
  /\ Reindex(DOMAIN file.groups, groups')
  /\ UNCHANGED <<publishers, fenced_boots, current_cost_policy, upstream, noticed,
                 writing, disk, served, unsaved>>

\* The coordinator exits with load_failed; every later start does the same.
RefuseToStart ==
  /\ phase = "STOPPED" /\ file # NoFile
  /\ ~Loadable(file)
  /\ phase' = "REFUSED"
  /\ UNCHANGED <<vars, writing, disk, served, unsaved>>

\* Mutation: requests are served before the new epoch is in the file.
AdvanceAndServe ==
  /\ phase = "LOADED"
  /\ set_epoch
  /\ phase' = "SERVING" /\ served' = epoch'
  /\ UNCHANGED <<writing, disk, unsaved>>

\* The epoch moves past the stored one.
Advance ==
  /\ phase = "LOADED"
  /\ set_epoch
  /\ phase' = "STARTING"
  /\ UNCHANGED <<writing, disk, served, unsaved>>

-----------------------------------------------------------------------------
(* save, as write_store_file_atomic performs it.                            *)

\* Mutation: the file itself is opened and written.
BeginSaveInPlace ==
  /\ phase \in {"STARTING", "ACCEPTED"} /\ ~writing
  /\ writing' = TRUE
  /\ temp' = Torn /\ file' = Torn
  /\ UNCHANGED <<vars, phase, served, unsaved>>

BeginSave ==
  /\ phase \in {"STARTING", "ACCEPTED"} /\ ~writing
  /\ writing' = TRUE
  /\ temp' = Torn
  /\ UNCHANGED <<vars, phase, file, served, unsaved>>

FlushTemporary ==
  /\ writing /\ temp = Torn
  /\ temp' = Image
  /\ UNCHANGED <<vars, process, file, served, unsaved>>

\* The rename.  It ends the save: the coordinator serves, or answers.
ReplaceFile ==
  /\ writing /\ temp = Image
  /\ file' = temp /\ temp' = NoFile
  /\ writing' = FALSE /\ phase' = "SERVING"
  /\ served' = epoch
  /\ unsaved' = 0
  /\ UNCHANGED vars

\* An I/O error at any point removes the temporary file.  A starting coordinator
\* gives up; an autosave is ignored.
SaveFails ==
  /\ writing
  /\ temp' = NoFile /\ writing' = FALSE
  /\ \/ /\ phase = "STARTING" /\ phase' = "STOPPED"
        /\ Fresh
        /\ UNCHANGED unsaved
     \/ /\ phase = "ACCEPTED" /\ phase' = "SERVING"
        /\ unsaved < MaxUnsaved /\ unsaved' = unsaved + 1
        /\ UNCHANGED vars
  /\ UNCHANGED <<file, served>>

\* The process is killed: memory is gone, and so is the ignored failure.
Crash ==
  /\ phase \in {"LOADED", "STARTING", "SERVING", "ACCEPTED"}
  /\ phase' = "STOPPED" /\ writing' = FALSE
  /\ Fresh
  /\ unsaved' = 0
  /\ UNCHANGED <<disk, served>>

-----------------------------------------------------------------------------
(* Serving.                                                                 *)

\* Mutation: a notice is answered without an autosave.
MutateNoticeUnsaved ==
  /\ phase = "SERVING"
  /\ \/ /\ \E p \in Publisher, g \in Group :
             \/ Membership(p, g)
             \/ \E R \in SUBSET Member, q \in Policy, newSet \in BOOLEAN :
                  revalidate_group(p, g, R, q, newSet)
             \/ Rebalance(p, g)
             \/ Closing(p, g)
        /\ phase' = "ACCEPTED"
     \/ (\E p \in Publisher : Notice(p)) /\ UNCHANGED phase
  /\ UNCHANGED <<writing, disk, served, unsaved>>

\* A mutation is accepted under the mutation lock; its autosave is next.
Mutate ==
  /\ phase = "SERVING"
  /\ \/ \E p \in Publisher, g \in Group :
          \/ Membership(p, g)
          \/ \E R \in SUBSET Member, q \in Policy, newSet \in BOOLEAN :
               revalidate_group(p, g, R, q, newSet)
          \/ Rebalance(p, g)
          \/ Closing(p, g)
     \/ \E p \in Publisher : Notice(p)
  /\ phase' = "ACCEPTED"
  /\ UNCHANGED <<writing, disk, served, unsaved>>

\* A refused revalidation has written what it has written, and is not saved.
RefuseHalfway ==
  /\ phase = "SERVING"
  /\ \E p \in Publisher, g \in Group, R \in SUBSET Member, q \in Policy :
       RefuseRevalidation(p, g, R, q)
  /\ UNCHANGED <<process, disk, served, unsaved>>

\* Registrations, and the fence at the end of a session, wait only for a save
\* that is writing.
RegisterOrFence ==
  /\ phase \in {"SERVING", "ACCEPTED"} /\ ~writing
  /\ \E p \in Publisher : (\E b \in Boot : register_publisher(p, b)) \/ fence_publisher(p)
  /\ UNCHANGED <<process, disk, served, unsaved>>

UpstreamMoves ==
  /\ Upstream
  /\ UNCHANGED <<process, disk, served, unsaved>>

StoreNext ==
  \/ StartEmpty \/ load \/ RefuseToStart \/ Advance
  \/ BeginSave \/ FlushTemporary \/ ReplaceFile \/ SaveFails
  \/ Crash
  \/ Mutate \/ RefuseHalfway \/ RegisterOrFence
  \/ UpstreamMoves

StoreSpec == StoreInit /\ [][StoreNext]_storeVars

-----------------------------------------------------------------------------
(* What must survive.                                                       *)

ImageOK(image) ==
  /\ image = [epoch |-> image.epoch, groups |-> [g \in DOMAIN image.groups |-> image.groups[g]]]
  /\ image.epoch \in Epoch
  /\ DOMAIN image.groups \subseteq Group
  /\ \A g \in DOMAIN image.groups : GroupOK(image.groups[g])

\* Every variable has its type: what the files hold are whole images of groups.
StoreTypeOK ==
  /\ TypeOK
  /\ phase \in Phase /\ writing \in BOOLEAN /\ unsaved \in 0 .. MaxUnsaved
  /\ file # NoFile => ImageOK(file)
  /\ temp \notin {NoFile, Torn} => ImageOK(temp)
  /\ served \in Epoch \cup {0}

\* "A second restart always observes a strictly larger epoch": whenever a process
\* begins to serve, its epoch is larger than any that was ever served, wherever
\* the processes before it were killed.
ServesInFreshEpoch ==
  [][phase \notin {"SERVING", "ACCEPTED"} /\ phase' = "SERVING" => epoch' > served]_storeVars

\* "Durable state is not live authority": a group is in an authoritative state
\* only under a binding made by this incarnation, never between load and serving.
AuthorityIsOfThisIncarnation ==
  \A g \in Created : is_open(g) /\ groups[g].lifecycle \in AuthoritativeLifecycles =>
    /\ phase \in {"SERVING", "ACCEPTED"}
    /\ groups[g].bound_epoch = served

\* The definition and the desired map of a group: what a restart keeps.
DurablePart(group) ==
  [closed    |-> IF is_administratively_closed(group.lifecycle) THEN group.lifecycle ELSE "",
   declared  |-> Declared(group.members),
   enabled   |-> {m \in Declared(group.members) : group.members[m].enabled},
   map       |-> group.assignment,
   successor |-> group.successor, predecessor |-> group.predecessor]

Durable(gs) == [g \in DOMAIN gs |-> DurablePart(gs[g])]

\* What was acknowledged is in the file while no save has failed, although
\* fences, which disarm groups, are never saved.
AcknowledgedIsDurable ==
  phase = "SERVING" /\ unsaved = 0 => Durable(file.groups) = Durable(groups)

\* Every file the governor writes can be loaded, but for the plans in it: no
\* eviction, closing or limit leaves a map or a member list the decoder refuses.
OnlyAPlanSpoilsTheFile ==
  file # NoFile =>
    /\ file # Torn
    /\ Loadable([file EXCEPT !.groups =
                   [g \in DOMAIN @ |-> [@[g] EXCEPT !.plan = NoPlan]]])

\* The groups of now are those of before, as far as closing is concerned.
StaysClosed(before, now) ==
  \A g \in DOMAIN before : is_administratively_closed(before[g].lifecycle) =>
    /\ g \in DOMAIN now
    /\ is_administratively_closed(now[g].lifecycle)
    /\ before[g].successor # NoGroup => now[g].successor = before[g].successor
    /\ Declared(now[g].members) \subseteq Declared(before[g].members)

\* Closing is for ever, across restarts: a group that is closed in the file, or
\* in a process that lives on, is never open again in either, keeps its
\* successor, and gets no withdrawn member back.
ClosingIsDurable ==
  [][/\ StaysClosed(file.groups, file.groups')
     /\ phase' # "STOPPED" => StaysClosed(groups, groups')
     /\ phase' \notin {"STOPPED", "REFUSED"} => StaysClosed(file.groups', groups')]_storeVars

\* README: "A crash leaves either the old complete file or the new complete file",
\* and "the pending plan is dropped" on recovery: the coordinator starts again.
RestartSucceeds == phase # "REFUSED"
=============================================================================
