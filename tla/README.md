# A verification model of ECMP Governor

TLA+ modules, TLC configurations and TLAPS proofs about the governor of
`src/`: the library that owns equal-cost multipath groups, decides which
members of a group may carry traffic, and keeps a minimal-churn map from hash
buckets to members; and about the coordinator that serves it over sockets and
keeps it in a file.

## The system

The repository is one C++ library (`src/src`, `src/include/ecmp`) with a
coordinator, a worker and a command line tool around it (`src/app`). The core is
`EcmpGovernor`, a state machine behind one lock.

| component | state | operations | interacts with | correct when |
|---|---|---|---|---|
| bucket assignment (`assignment.cpp`) | none | `compute_rebalance`, `check_assignment`, `minimum_possible_churn` | called by every refresh of a group | the map is balanced, only active members own buckets, no smaller churn is possible, bystanders keep their buckets |
| lifecycle tables (`lifecycle.cpp`) | none | `lifecycle_allows`, `derive_lifecycle`, `derive_member_state` | guard of every mutation; end of every refresh | closing is final; a pending plan keeps membership events out |
| group (`governor_state.hpp`, `governor_core.cpp`) | members with three proofs each, map, three generations, binding, causes, plan, lineage | `refresh_group` | every mutation, notice, epoch advance and fence | states are derived, generations count exactly what changed |
| governor mutations (`governor_mutate.cpp`) | groups, member total, reverse indexes, attempt window | create, add, remove, enable, disable, batch, revalidate, plan, commit, abort, withdraw, revoke, retire, supersede | upstream views, read while the lock is held | totals and indexes agree with the groups; plans are never committed stale |
| notices (`governor_mutate.cpp`) | causes and proofs of dependents | path, multipath set and cost policy notices | reverse indexes | no dependent is missed; no stale proof stays active |
| registry (`governor_query.cpp`) | epoch, publishers, bounded fence table | `register_publisher`, `fence_publisher`, `set_epoch` | invalidates groups it disarms | a fenced boot, or an old epoch, never has authority |
| self-check (`check_invariants`) | none | assertions | reads everything | never fires |
| attempt window (`remember_attempt`) | bounded FIFO of accepted attempts | lookup in `authorize_context` | every mutation | a retry is answered, not applied again |
| store (`store.cpp`) | one file | save (write aside, rename), load, `recover_group` | coordinator start, autosave | a restart keeps definitions and maps and no authority |
| server (`server.cpp`) | sessions, one per publisher; one thread each | read, dispatch, mutate under a lock, autosave, answer; fence at disconnection; stop | governor, store, upstream hook | one incarnation of a publisher acts at a time; nobody stays registered without a session; it stops, unless a write never ends |
| client, worker (`client.cpp`, `worker_main.cpp`) | one connection | one request at a time | server | an answer belongs to its request |
| transport, framing (`transport.cpp`, `encode_frame`, `decode_frame`) | one socket | write and read a frame in parts, under a deadline, with a tag | client, server; two session threads write on one connection | a read ends; what is read was written, whole and in order |
| upstream view (`app/support.cpp`) | generations and authorizations per path and set | facts applied by the hook of a notice | read by every observation | (given: it may move in any direction) |
| everything else | | digests, codecs, identities, rendering, processes, tools, examples | | |

What is hard here. The governor itself is sequential (every operation takes an
exclusive lock), so its hazards are **long sequences of legal calls** by several
publishers, with upstream facts that move at any moment between two calls: flags
read at one time and trusted at another, counters and indexes maintained by
differences, plans committed long after they were computed, revalidation that
stops half way, tables that are full. The server adds **interleavings** (the
governor's registry and the session map are written under different locks, and
the scope of a mutation is read before its lock; two threads write frames on one
connection with no lock at all), **lost and late answers** with retries, **frames in
parts**, and **liveness** (a worker that vanishes, a server that must stop). The
coordinator process adds **crashes** between any two steps of a save or a start.
`PROJECT.json` lists each hazard at its line.

## The modules

| module | models | how it corresponds to the code |
|---|---|---|
| `Lifecycle` | `lifecycle.cpp` | the event table as a function from state to allowed events; one operator per function |
| `Assignment` | `assignment.cpp` | members are numbers in canonical order, 0 is the nil member; the retain and fill loops are stated as sets and positions, not as loops |
| `BucketMap` | the map of one group through successive refreshes | `Rebalance(S)` is the recomputation for active members `S`; includes the reference definition by enumeration of all quota maps |
| `Group` | `GroupState` as a record, and the operators that compute its next value | `refresh_group` = rebind, derive member states, count the declared set, recompute the map, derive the lifecycle, in the order of the code |
| `Governor` | `EcmpGovernor` | one action per public operation, composed of the operators of `Group`; external variables for the upstream domains |
| `GovernorSafety` | properties | the type invariant, safety invariants, action properties, and claims of the repository that do not hold |
| `AssignmentProofs` | proofs about `Assignment` | what `compute_rebalance` returns, counted by bijections |
| `BucketMapProofs` | proofs about `BucketMap` | every property of the run, for any members and buckets |
| `GovernorProofs` | proofs about `Governor` | the inductive invariant and one lemma per operation; the member counter |
| `LineageProofs` | proofs about `Governor` | who binds a group, and what supersedes it |
| `MapProofs` | proofs about `Governor` | maps, entries and plans: the forms of a group's step; the self-check |
| `DurableStore` | the coordinator process around the governor: `store.cpp`, `coordinator_main.cpp`, the mutation lock and the autosave | `phase` is the place in `main`; a save is three steps; every action of `Governor` runs inside `Mutate`, `RefuseHalfway`, `RegisterOrFence` or `UpstreamMoves` |
| `StoreProofs` | proofs about `DurableStore` | the invariants across restarts, one lemma per part of them |
| `Server` | `server.cpp`, `client.cpp`, the session's view of `transport.cpp`, the attempt window | one record per connection: where its thread is (`thread`), what it registered (`session`), the frames on the way (`wire`), and the worker at the other end |
| `ServerSafety` | properties of `Server` | safety, the refinement, liveness |
| `AtMostOnce` | what the attempt window promises | the abstract specification that `Server` implements |
| `ServerProofs` | proofs about `Server` | five inductive invariants, one lemma per action or group of actions |
| `Transport` | one connection, one way: the framing half of `transport.cpp` and `protocol.cpp` | `write_frame`/`send_all` and `receive_exactly`/`read_frame` as steps that move any number of cells; a cell knows the frame it is of |
| `Channel` | what a framed connection promises | the abstract specification that `Transport` implements |
| `TransportProofs` | proofs about `Transport` | the stream between writers and reader, and the refinement of `Channel` |
| `MCBucketMap`, `MCGovernor`, `MCStore`, `MCServer` | instances for TLC | |

`Governor` EXTENDS `Group`, which EXTENDS `Assignment` and `Lifecycle`;
`DurableStore` EXTENDS `GovernorSafety` and composes the whole governor with the
process around it. `Server` stands alone: of the governor it keeps the registry, the
fence table and the window, which is all a session can tell apart, and leaves the
effect of a mutation on the groups to `Governor`. `Transport` justifies what `Server`
takes for granted of a connection: an answer arrives whole or not at all, in order.

State of `Governor` and the fields of `GovernorState`: `epoch`, `publishers`,
`fenced_boots`, `groups`, `total_members`, `path_index`, `authority_index`,
`current_cost_policy` carry the same names. `path_generation`, `authorized` and
`set_generation` are what `IPathAuthorityView` and `IMultipathSetView` answer, the state
of `SyntheticUpstreamView` in `app/support.cpp`. They change at any time and in any
direction (`PathMoves`, `PathAuthorization`, `SetMoves`): the server applies the facts of a
notice to the view before the governor authorizes it and outside its lock
(`server.cpp:342`), so a refused notice moves the view, and one that is overtaken moves
it back. The governor sees the view only where the code observes. `noticed` is history: the
paths whose last change has been delivered to every dependent group.

Conventions of the model:

* An operation is one step, because it holds the exclusive lock from its first
  read to its last write. The lock covers the governor's state, not the upstream view;
  see *The view inside an operation* below.
* A refused call returns before its first write, so it is a stuttering step.
  The exception is a revalidation refused after some updates were written
  (`RefuseRevalidation`).
* A mutation acts with the registered boot of its publisher in the current
  epoch; anything else is refused.
* A trial computation of the code (batch change, plan) is a LET, and the trailing
  refresh, eviction, count and re-index belong to the action.
* `withdraw_group` and the enable flag of `set_member_enabled` are two actions each,
  one per branch.

The view inside an operation. The hook (`server.cpp:342`) holds neither the mutation lock
nor the governor's, so a path may move while an operation of another session is under way,
between two of its observations. The model moves the view between operations only, and
what this leaves out is the following.

* Only paths move that way: `on_path_authority_change` is the one hook the server calls.
* An operation that observes each path once (creation, addition, batch, plan, a notice with
  one dependent member) takes the step it would take on some view that the model reaches:
  paths move freely and independently of each other, so each move inside the operation can
  be put before it or after it, according to whether its path had been observed by then.
* A revalidation observes an updated path twice, in `validate_spec`
  (`governor_mutate.cpp:1225`) and in `reobserve_group` (`:1261`). If the path moves in
  between, the code writes the updates and the policy and then finds the proof stale: the
  model gets there by `RefuseRevalidation` with the same updates, `PathMoves`, and
  `revalidate_group` without updates.
* Not covered: one operation that observes one path twice with different answers, for two
  members on one path or for two groups that a notice reaches. The move in between brings a
  notice of its own, which reaches both.
* Not covered either: an action property over such an operation as a whole.
  `RearmedMeansReobserved` then says that the view confirmed each active member's proof
  when that member was observed, not that it confirms all of them at one instant;
  `NoticeTakesEffect` speaks of the view at the time of the notice's observations, and
  a move after them waits for its own notice.

Conventions of `DurableStore` and `Server`:

* `save` holds the governor's lock in shared mode from the first byte to the rename,
  so nothing changes the groups while the file is written, and the mutation lock keeps
  the next mutation out. Registrations and fences take neither the mutation lock nor an
  autosave. A `Crash` may fall between any two steps, a disk error at any point of a
  save; the temporary file left by a crash stays.
* A mutation of `Server` is `CaptureAuthority` (before the lock), then `Mutate` (the
  governor's answer and the autosave, under the lock, hence one step). Whether the
  governor accepts a new attempt is left open, because it depends on the groups.
* A registration is four steps: governor, session map, the session's fields (outside
  the mutex, as in the code), the notice and shutdown of the session it replaces. The
  notice and the shutdown are one step: between them only the old worker could tell.
* Workers are adversaries of time, not of the protocol: they greet, register, mutate
  with any attempt and payload, leave at any moment, and stop reading at any moment while
  they wait for an answer, with their connection open (`FallSilent`). A connection is used
  once; a retry comes over another, as the same boot or a new one.
* A write has no deadline. One to a worker that has fallen silent ends if the buffers of
  the sockets have room and waits if not, as long as the connection is open: its step may
  be taken and need not (`MayBlock`; see *Fairness*). How many frames fit is left open,
  because the size of an answer is. The refusal of `accept` is the first frame of its
  connection and always fits; so does an error or a notice to a worker that waits for no
  answer, whose buffers are empty. The error frame after the deadline is a step of its own
  (`Reject`), because it is a write too.
* Reading requests (`HELLO`, snapshots, explanations) are one kind, sent before the
  registration. A reading request of a registered worker adds nothing, because it
  changes nothing and its answer is of its own kind.

Conventions of `Transport`:

* A byte is a cell `[writer, frame, at]`, so two frames never look alike and a torn one is
  visible. A header torn from two frames may say anything, or nothing that is a header;
  the tag of `decode_frame` is collision-free.
* `send` and `recv` take any number of cells, as the socket decides. Time is discrete and
  runs only while a read waits, which is all the deadline measures. `total` adds up the
  time of one `read_frame`, which reads header and body under a deadline each.
* `begun`, `received` and `overlapped` are history: the frames each writer began, those
  the reader accepted, and whether one writer wrote in the middle of another's frame.

## The runs

| run | instance | what it shows |
|---|---|---|
| `MCBucketMap` | 4 members, 6 buckets, every history of active sets (665 states) | the map passes the governor's own `check_assignment`, recomputing is idempotent, churn is minimal and equals the closed form, bystanders keep their buckets, each move has the reason given. Six buckets and four members give quotas with and without remainder, and members that lose one of two buckets |
| `MCMembership` | one group, 3 members for 2 places, 3 buckets, 2 policies, churn budget 2 (245 k states) | generations and eviction under every membership operation, plan, adoption, refusal and closing. A third member is what makes eviction happen; the budget of 2 makes some batches fail it |
| `MCPath` | 2 members on 2 paths, 2 path generations that move forward and back, one revocable path, batches and churn of at most one (1.26 M states) | indexes, notices and plans while paths move |
| `MCAuthority` | one publisher with 2 boots, 2 epochs, a group of 2 members over a set that loses and regains a path, both needed to be ACTIVE (1.02 M states, symmetric) | fencing, replacement, epoch advance, and the plans and bindings they leave behind; member states and lifecycle always derived; authoritative maps valid; authority returns only with a fresh observation |
| `MCLineage` | 3 groups, total limit 2 (41 k states, symmetric) | chains of successors end, in every order of closing and supersession; the member counter the groups share |
| `MCStore` | two groups, 2 members on one path, 1 bucket, total limit 1, 2 epochs, one failed autosave in a row (1.19 M states, symmetric) | crashes and recovery around every operation: what survives, what must not; the self-check through all of it |
| `MCServer` | 2 connections, 2 boots of one publisher, 2 attempts, 2 payloads, window 1, at most 7 requests (3.03 M states, symmetric) | all interleavings of two session threads and their workers: the race of two registrations, retries inside and outside the window, an attempt reused with another payload |
| `MCServerLive` | 2 connections, 2 boots, one attempt, at most 4 requests, any of the workers silent (413 k states, no symmetry) | liveness under fair threads, with writes that may block |
| `MCTransport` | 2 writers, 2 frames each of 1 or 2 cells, a reader that takes at most 1, deadline 2, 4 cells on the way (308 k states) | torn frames are recognised, whole ones delivered in order; oversized headers refused; a trickling peer holds a reader no longer than a silent one |

The bounds are named constants: `MaxEpoch`, `MaxPathGeneration`, `MaxPolicy` cap what
the environment does; `GenerationCap` and `AuthorityCap` stop an operation on a group
whose membership and assignment generations, or authority generation, have reached
them (`Headroom`), which is the model's substitute for 64 bits. With cap 3 a group sees
up to three changes of each of its counters, enough for plan, invalidation, re-proof
and commit, or declare, withdraw, evict and declare again. Where restarts matter
`AuthorityCap` is larger, because a restart moves the authority generation twice.
`MaxGroups`, `MaxMembersPerGroup`, `MaxTotalMembers`, `MaxPublishers`, `MaxBatch` and
`MaxRebalanceMoves` are limits of the code, set so small that they are reached.

In `MCStore` two epochs are two incarnations: the first is killed anywhere, the second
recovers, re-proves and is killed again; a third would repeat the second. `MaxUnsaved`
is 1: one failed autosave, followed or not by one that succeeds, is all that
`AcknowledgedIsDurable` distinguishes. One place for a member and two candidates make
eviction happen, and two groups make supersession and the shared total happen.
`RefuseHalfway` fires there but finds nothing to change, since one policy and one
path generation leave no half-written revalidation to tell apart; `MCMembership`, with
two policies, covers it.

In `MCServer` a window of 1 and two attempts are enough for an attempt to be evicted
and accepted again, so `AppliedAtMostOnce` is about the bound and not about
nothing. Seven requests are two greetings, two registrations and three mutations:
accept, evict, accept again. Two connections are the fewest that race; the branch of
`accept` for a full server (`MaxSessions`) is not reached with two, because a
third connection is what it takes, and it touches nothing but its own connection. In
`MCServerLive` four requests are two registrations, or the greeting, registration and
mutation of one worker and the greeting of the other, and the limit is reached. `MaxSilent`
is 2 there: both workers may stop reading, before and after they register. It is 0 in
`MCServer`, where silence adds nothing: a worker that never takes its next step is already
a behaviour of every safety run, and a blocked write is a thread that takes none.

In `MCTransport` a frame is a header of two cells (so that a header too can be torn), one
or two cells of payload and one of tag. `Buffer` is what the sockets of both ends hold: with
4 cells no frame of two fits whole, so writers block half way and resume, and one of
length one fits and is read in any parts. The reader's limit is below the writer's, which
makes an oversized header legal to send. Two frames per writer make order and repetition
visible.

`MCAuthority` has one policy and one path generation, so a refused revalidation writes
nothing there that was not so before. That a revalidation stopped half way leaves derived
states behind is carried by the theorem `StatesAreDerived`, for any number of policies and
generations; `MCMembership`, with two policies, checks the types, generations and owners
after it. `MCAuthority` has one publisher: a second doubles every action of the registry and takes
the run out of reach together with the set. Takeover between publishers is covered by the
theorem `BindingsAreLive`, for any number of them. Its minimum of two active members makes
DEGRADED reachable; `MCPath` has a minimum of one, so that plans can drop a member.

Publishers, boots and groups are interchangeable in the runs that use symmetry
(`MCAuthority`, `MCLineage`, `MCStore`, `MCSelfCheck`): every scope covers every group there and all
groups are bound alike. Connections, boots, attempts and payloads are
interchangeable in `MCServer`: nothing orders them. Runs with temporal properties
under fairness use no symmetry.

Deadlock. `MCBucketMap` checks it. The `MCGovernor` and `MCStore` runs do not: epochs
and counters are bounded, so a run in which every boot has been fenced in the last
epoch, or every counter is at its cap, stops. The server really stops: after `Join`
nothing runs. A connection ends too: a reader that has met a defect reads no more.

Fairness. Governor and store promise nothing about when a caller acts, so their
properties are safety. `FairServerSpec` assumes weak fairness of the steps of each
session thread but a write that may block, of `accept`, of `Stop` and of `Join`: the
operating system schedules threads, a lock is held only over steps that end, `serve()`
returns once the listener is closed, and the owner then calls `stop()`. It includes
`ReadTimesOut`, because `receive_exactly` bounds every read by a deadline that starts
before the first byte (`transport.cpp:108`). It does not include a write to a silent
worker whose connection is open, because `send_all` (`transport.cpp:83-100`) has no
deadline. Nothing is assumed of workers, which may stop sending and reading for ever.

What the code does promise is therefore conditional. `LostWorkerIsFenced` asks of the
thread of the lost worker, and `StopCompletes` of every thread, that it does not wait in a
write for ever (`[]<>~MayBlock(s)`). The condition excludes less than it seems: a write to a
session in the map ends when `stop()` shuts it down, one to a worker that vanishes fails,
and in both cases `MayBlock` is over, so TLC has to show the rest. What it excludes is a
write for ever to a silent worker that nobody shuts down: before `stop()` any, after it one
that has not registered or was replaced. Without the condition TLC finds both
violated in the same instance: `StopCompletes` by a worker that asks, falls silent before it
registers, and leaves its thread in the answer or in the error frame of the deadline;
`LostWorkerIsFenced` by a boot that replaces a silent one and vanishes while its thread
writes the notice.

### Where the code differs from what the repository says

Three runs expect a violation. Each checks one sentence of the repository, quoted
in `PROJECT.json`:

* `MCStalePath`: a member that only the plan declares has no index entry, so the
  notice of its path does not touch the group; the commit then makes it active with a
  binding that is known to be stale.
* `MCSelfCheck`: one group supersedes two others; `supersede_group` overwrites its
  predecessor, and `check_invariants` reports the lineage of the first. `MCStore`
  checks the same self-check with two groups, where no group can be superseded by
  a successor that already has a predecessor, and there it never fires.
* `MCUnloadable`: a plan that adds a member is pending when the file is written. Its
  assignment names the member as owner, and `decode_group` accepts only owners that
  are entries already, so the whole file is refused and the coordinator exits at every
  start. `OnlyAPlanSpoilsTheFile` shows that nothing else does this.

More deviations were read in the code, some of them model-checked on the way, and have
no run of their own:

* `compute_rebalance` (`assignment.cpp:113`) is not lexicographically smallest among
  the maps of smallest churn: `2 2` for members 1 and 2 becomes `2 1`, not `1 2`
  (`assignment.hpp:82`).
* `revalidate_group` (`governor_mutate.cpp:1203`) that adopts a policy and is refused at
  a later update leaves the group on the new policy and its members on the old claims.
* `register_publisher` (`governor_query.cpp:153`) fences the boot it replaces and leaves
  the groups of that boot authoritative.
* After an epoch advance the first notice (`governor_mutate.cpp:1595`) recomputes the
  map of a group with no complete proof, and the durable map is lost.
* `validate_spec` (`governor_mutate.cpp:293-306`) does not look at the cost
  authority's current policy.
* `notify_multipath_set_change` (`governor_mutate.cpp:1660`) skips a group that already
  has the cause, which one member outside the set is enough to record.
* `fence_publisher` (`governor_query.cpp:181`) forgets the boot when the fence table is
  full. `OneIncarnationAtATime` is stated for a table that has room.
* `derive_member_state` (`lifecycle.cpp:224-238`) ignores the authority of the group:
  a member added after an epoch advance is ACTIVE in a group that must be
  revalidated. The lifecycle still says REVALIDATION_REQUIRED (`StaleEpochDisarms`).
* `apply_membership_set` and `commit_rebalance` do not consult `max_total_members`.
* When two boots register in one order at the governor and in the other in the session
  map (`server.cpp:98`), the boot that is registered is sent the fence notice. It
  loses its connection and with it its registration (`NoOrphan`); its publisher
  starts over.
* A worker that only holds its groups (`worker_main.cpp:320`) is disconnected and fenced
  after `receive_deadline_ms`, although `server.hpp:36-38` speaks of a peer that stops
  mid-frame.
* `send_all` (`transport.cpp:83-100`) has no deadline, unlike `receive_exactly`. A worker
  that asks and does not read holds its session's thread for as long as it likes, and stays
  registered if it was. `stop()` (`server.cpp:500-504`) shuts down only the sessions in
  `by_publisher`, so one that has not registered, or was replaced, can keep the `join` at
  `server.cpp:510` waiting for ever. A fence notice to such a worker (`server.cpp:129`) holds
  the thread of the boot that replaces it, and delays the fencing of that boot if it
  vanishes meanwhile. `StopCompletes` and `LostWorkerIsFenced` are stated for threads that
  do not wait so for ever.
* When the answer that reaches `max_requests` cannot be written, or two sessions pass the
  limit together (`server.cpp:422-433`), no thread sets `stopping`, although
  `server.hpp:44-45` says that the limit stops the coordinator. TLC finds such a behaviour
  in the instance of `MCServerLive`.
* The upstream hook (`server.cpp:342`) runs before the governor authorizes the notice.
* Header and body of a frame have the whole receive budget each (`transport.cpp:307`,
  `transport.cpp:345`), although `server.hpp:36` speaks of a budget for one frame: a
  slow peer holds a session for up to two (`BoundedRead`).
* An answer to LIST_GROUPS takes 222 bytes per group (`protocol.cpp:694`), so with more than
  about 1180 groups, of 100000 allowed, it exceeds the frame limit. `encode_frame` returns
  nothing, `write_frame` fails, and the session ends without an answer and fences its
  publisher (`server.cpp:428`).
* The fence notice of a replaced session is written while that session's thread may be
  writing an answer (`server.cpp:129`). Its worker may then read a defect
  instead of the notice; it never reads a wrong message (`FramesAreWhole`).

## The proofs

Every invariant and every action property that a passing run checks is also a theorem,
for all values of the constants that satisfy the named assumptions, except the two
liveness properties; the self-check has a condition, given below.

### The governor

`GovernorProofs` proves, for any members, groups, publishers, boots, limits, bounds
and scopes:

| theorem | states |
|---|---|
| `TypeCorrect` | `Spec => []TypeOK` |
| `IndexesAlwaysAgree` | `Spec => []IndexesAgree` |
| `StatesAreDerived` | `Spec => []StateIsDerived` |
| `StaleEpochAlwaysDisarms` | `Spec => []StaleEpochDisarms` |
| `PlansAreLive` | `Spec => []PlanIsLive` |
| `TotalAlwaysDeclared` | `Spec => []TotalIsDeclared` |
| `InvariantHolds` | `Spec => []IInv`, from which the others follow |

The argument. None of the three properties before the counter is inductive alone: that a
pending plan is live needs to know that the lifecycle is the derived one (otherwise an event
that the table forbids while REBALANCING could reach a group with a plan), and that a
group of an older epoch has no plan; that a stale group is disarmed needs
the derivation too. `IInv` is `TypeOK`, `IndexesAgree` and `GroupsInv`; `GroupsInv`
says of each group that its member states are derived, and, while it is open, that its
lifecycle is derived, that an old `bound_epoch` has STALE_EPOCH on record, and that
a pending plan has this epoch, this binding and current authority. TLC checked `IInv`
on the instances above before it was proved. The proof has one lemma per operation,
over lemmas about the operators: what `compute_rebalance` returns is a map,
`refresh_group` re-establishes the derivations whatever it is given, eviction drops
only undeclared entries, `Reindex` keeps the indexes exact when only the touched
groups changed.

The counter is exact because every step either recounts one group by the difference of its
declared members or declares nobody (`OneRecounted`, `SameDeclared`), and the pairs of group
and declared member stay a finite set.

`LineageProofs` adds, from `IInv` and the same assumptions:

| theorem | states |
|---|---|
| `BindingsAreLive` | `Spec => BindingIsLive` |
| `LineageAlwaysEnds` | `Spec => []LineageEnds` |
| `HeirsAlwaysKnow` | `Spec => [](LInv /\ HeirsKnow)`: the two ends of a lineage agree |

The argument is one lemma, `Evolution`: every step leaves the lineage of
every group as it was, except supersession, which sets it; leaves its binding as it was,
except `bind_authority`, which runs behind the check that the caller is registered and not
fenced; and a group that is SUPERSEDED or RETIRED stays in these two. `LineageEnds` alone is
not inductive: that a supersession makes no circle needs to know that superseded groups
are closed for good and that predecessors exist.

### Maps, entries and plans

`AssignmentProofs` says what `compute_rebalance` returns, and `BucketMapProofs` concludes, for
any members and any number of buckets, all that `MCBucketMap` checks:

| theorem | states |
|---|---|
| `MapTypeOK`, `MapValid`, `MapSettled` | `Spec => []TypeOK`, `[]MapIsValid`, `[]Settled` |
| `MapMovesFewest` | `Spec => MinimumChurn` |
| `BystandersUntouched`, `MapMovesExplained` | `Spec => BystandersKeepTheirBuckets`, `MovesAreExplained` |

The argument counts without induction, which the prover cannot do over data. A finite set of
numbers is paired with an initial interval by the rank of its elements (`RankBijection`); a
sum over members is the size of the set of pairs of a member and a number up to its value
(`Claims`), so that sums are compared through bijections and disjoint unions. The quotas add
up to the buckets because the pairs of member and number are the buckets, read row by row
(`QuotasAddUp`, by division with remainder). The free buckets and the missing shares are
equally many, and the fill pairs them in order (`FilledCount`), so each member gets exactly
its quota (`QuotasMet`). Any map with the same quotas can keep no more buckets of a member
than the smaller of what it had and its quota (`NoMapMovesFewer`), and
`compute_rebalance` keeps that many.

`MapProofs` proves, from `IInv`, the lineage and the same assumptions:

| theorem | states |
|---|---|
| `EntriesAlwaysBounded`, `OwnersAlwaysPresent` | `Spec => []EntriesAreBounded`, `[]OwnersArePresent` |
| `AuthoritativeMapsValid`, `PlansPredict` | `Spec => []AuthoritativeMapValid`, `[]PlanPredicts` |
| `GenerationsAreHonest` | `Spec => GenerationsNeverLie` |
| `PlansFreezeMembership` | `Spec => PlanFreezesMembership` |
| `RearmingReobserves` | `Spec => RearmedMeansReobserved` |
| `NoticesTakeEffect` | `Spec => NoticeTakesEffect` |
| `SelfCheckPasses` | `Spec => [](SoleHeirs => check_invariants)` |
| `MapsHold` | `Spec => [](IInv /\ MapsInv)`, from which the first two rows follow |

The argument. There are some thirty operations, but a step changes a group in five ways
only (`GroupStep`): not at all, or its predecessor (`Stays`); a mutation's edit, admitted by
the lifecycle and finished by a refresh (`Finishes`); members re-proved before a refusal
(`Reproves`); a refresh for a notice (`Notices`); the loss of authority (`Disarms`); a new
group is a refresh of the members of its request (`Begins`). One lemma sorts every operation
into these forms (`NextForm`), and each property is proved once per form.
`MapsInv` says of each group what the three invariants need together: the digest and the
generation are those of the declared set; declared members and entries are within the
limits; owners are entries; while authority is current the map *serves* the active set,
that is, gives each its quota; and a plan was made of a map the group had, and predicts the
commit while it is still that map. `AuthoritativeMapValid` alone is not inductive, because a
disarmed group keeps an old map and comes back by a revalidation, and because the map's
validity after a plan's commit rests on what the plan declared; `OwnersArePresent` needs
that eviction spares the owners, and `EntriesAreBounded` that it may still evict enough:
a member that is not declared is not active, hence owns nothing after a refresh.

`SelfCheckPasses` has a condition, `SoleHeirs`: no group supersedes two others. Without it
`check_invariants` is false, which is what `MCSelfCheck` shows, so the theorem says that
this is the *only* way in which the self-check fails. In `MCStore`, with two groups, the
condition always holds.

### The coordinator

`StoreProofs` proves, from `IInv`, the counter and the same assumptions, with any number of
crashes and failed saves:

| theorem | states |
|---|---|
| `StoreTypeCorrect` | `StoreSpec => []StoreTypeOK` |
| `AuthorityDiesWithItsProcess` | `StoreSpec => []AuthorityIsOfThisIncarnation` |
| `EpochsAreFresh` | `StoreSpec => ServesInFreshEpoch` |
| `AcknowledgedAlwaysDurable` | `StoreSpec => []AcknowledgedIsDurable` |
| `ClosingIsForEver` | `StoreSpec => ClosingIsDurable` |
| `StoreInvariantHolds` | `StoreSpec => []StoreInv`, from which the ones above follow |
| `OnlyPlansSpoil` | `StoreSpec => []OnlyAPlanSpoilsTheFile` |
| `MapsSurviveRestarts`, `LineageSurvivesRestarts` | the validity of maps, owners, entries and lineages, as invariants of `StoreSpec` |
| `SelfCheckSurvivesRestarts` | `StoreSpec => [](SoleHeirs => check_invariants)` |
| `SoundForEver` | `StoreSpec => [](StoreInv /\ SoundInv)`, from which the three rows above follow |

The argument. Between two saves the process does one of three things to the governor
(`StoreStepKinds`): it runs it, loads it or forgets it. The first keeps `IInv` because the
governor does; the other two establish it anew, `load` because `recover_group` makes a
group that satisfies `GroupInv` of any well-formed group, whatever the file says of its
lifecycle and causes (`RecoverInv`). Around it, `FileInv` says the files are whole images,
`ProcessInv` that only a starting or an accepting process writes, `EpochInv` that the epoch
of the file is below that of a starting process and equal to that of a serving one, and
`RestInv` that before service every open group has STALE_EPOCH. `ServesInFreshEpoch` needs
the chain served <= file < memory; it breaks when requests are served before the save of
the new epoch. `AcknowledgedIsDurable` is inductive over `StoreInv`: of the steps
that are not saved, a fence changes causes, proofs, plan and derived states only
(`DisarmedLeaves`), a refused revalidation bindings only (`ReprovedDurable`).
`ClosingIsDurable` needs to know that whoever has a successor is gone, in memory and
in the file, and that everything closed in the file is closed in the process that runs
(`ClosedInv`); a closed group is left alone by all but four operations
(`ClosedIsLeftAlone`), and those declare nobody.

`SoundInv` says of the groups in memory, in the file and in the temporary file that there
are no more than the limit, that each satisfies what `MapsInv` says of a group, and that
their lineages end and agree at both ends. It is needed of all three, because a load turns
the file into memory and a rename the temporary file into the file. What `Loadable` demands
of a file then follows, field by field, with the plans taken out; with them in, it does
not, which is the finding of `MCUnloadable`.

### The server

`ServerProofs` proves, for any number of connections, publishers, boots, attempts and
payloads, any window and any limits:

| theorem | states |
|---|---|
| `ServerTypeCorrect` | `ServerSpec => []ServerTypeOK` |
| `NobodyIsOrphaned` | `ServerSpec => []NoOrphan` |
| `AcceptedAtMostOnce` | `ServerSpec => AppliedAtMostOnce`, the refinement of `AtMostOnce` |
| `RetriesAreSpaced` | two acceptances of one attempt are more than `Window` apart |
| `OneIncarnation` | `ServerSpec => []OneIncarnationAtATime` |
| `AnswersAreAlwaysTrue` | `ServerSpec => []AnswersAreTrue` |

The invariants, each inductive relative to the one before:

* `TypeInv` is the type invariant with what a thread and its worker hold at each
  place (`Carries`): a thread that is busy has a request, the answer fits the kind of
  the request, a session's fields are nobody's or its own worker's.
* `NoOrphan` is inductive over `TypeInv`: the session that the governor's registration
  came from remains responsible until its end, and its end fences exactly the boot it
  registered. The session map plays no part in it, which is why the race of two
  registrations does no harm (and why the mutant that fences only the mapped session
  breaks it).
* `Kept`: the window is the list of the last acceptances, attempt and payload, as many
  as fit. The refinement is then one step: a new attempt is one that is not in the
  window, hence not among the last `Window` entries of the log.
* `Incarnations`: as long as the fence table has room, a boot with an accepted mutation
  is registered or fenced, and one with an acceptance of another boot of its publisher
  after its own is fenced. A fenced boot is never accepted again.
* `Conversation`: the exchange a worker waits for is in exactly one place - its inbox,
  its thread, its outbox - and an accepting answer in any of them is true of the request
  the worker has asked. It is what makes a client without request numbers sound, and
  it holds because a worker that gives up also gives up its connection.

### Frames

`TransportProofs` proves, for any writers, payload lengths, limits, buffers and deadlines:

| theorem | states |
|---|---|
| `ReaderKeepsItsLimit` | `TransportSpec => []TransportTypeOK` |
| `PeersCannotPinAReader` | `TransportSpec => []BoundedRead` |
| `FramesArriveWhole` | `TransportSpec => FramesAreWhole`, the refinement of `Channel` |
| `OneWriterKeepsFrames` | `TransportSpec => []OneWriterNeverTears` |

The arguments. `TimeInv` adds what is known at the header (`total` is `elapsed`) and in the
body (`total` exceeds `elapsed` by at most one deadline). The other two are about the
*stream*, what the reader holds followed by the wire, which `recv` does not change.
`OrderInv`: each cell of the stream is of a frame that its writer has begun and the reader
has yet to accept, and was sent; cells of one writer are in the order of sending, and none
between the next frame to accept and a cell of the stream is left out; as long as the
connection is open, all that was sent is there. From it, a frame the reader holds whole can
only be the next of its writer (`NextFrame`), which is the step of `Channel`: a repeated, a
skipped or a torn frame would violate the order. `WholeInv`, for `OneWriterNeverTears`:
while no writer has overlapped another, each cell lies within its own frame, whose cells
surround it from the first on as far as the stream goes (`Runs`), every frame but the one
in progress ends in the stream (`Ends`), and a reader in a body waits for the length of
the frame whose header it holds (`Believed`). TLC checked these invariants in the instance
of `MCTransport` before they were proved.

### Assumptions and limits

Assumptions: `MemberAssumption`, `BucketCountAssumption` (`Assignment`),
`LimitAssumption`, `NilAssumption` (`Group`), `ConfigurationAssumption` (`Governor`),
`UnsavedAssumption` (`DurableStore`), `ServerAssumption` (`Server`), `TransportAssumption`
(`Transport`). They say that members are finitely many positive
numbers in the order of their paths, that limits are numbers and coherent as
`is_coherent` demands, that nil is no identity, and that scopes and paths are what their
types say. TLC evaluates them in every run.

Only model-checked: liveness under fairness (`LostWorkerIsFenced`, `StopCompletes`, each under
its condition on blocked writes), which is out of the prover's reach, as are ENABLED, induction over data and RECURSIVE operators (no
module here declares one). The three runs that expect a violation have no theorem: TLC's
counterexample is the proof. That `check_invariants` holds in `MCStore` without the condition
`SoleHeirs` is model-checked; the theorem has the condition, which two groups always meet.

## What is not modelled

* Exhaustion of a generation: counters are natural numbers, capped for TLC.
* History, last rebalance record, digests, plan ids, indexes by cost class and set.
* Expected generations in requests, which only add refusals.
* Several cost classes, several multipath sets, two groups with one key.
* `max_buckets` and the other limits on data; the lattice of authority scopes.
* The bytes of message bodies and files (`protocol.cpp`, `bytes.cpp`, the encoders of
  `store.cpp`): field by field, without control.
* An answer over the frame limit in `Server`: every answer there has a frame.
* A move of the upstream view in the middle of an operation, where it differs from one
  before or after it (*The view inside an operation*).
* A coordinator started with `--no-autosave` or without a store: it promises nothing
  across a restart. A power loss, where a renamed file may hold no data (the code does
  not synchronise it).
* `Server` and `DurableStore` in one model. They share the governor's lock, and the
  autosave lies inside one step of the former; their product is out of TLC's
  reach at sizes where either is interesting.
* The offline command line tool, rendering, child processes, examples, benchmarks.

## Plan

Done, in this order: `Lifecycle`, `Assignment`, `BucketMap`, `Group`, `Governor`,
`GovernorSafety`, `GovernorProofs`; `DurableStore`; `Server`, `ServerSafety`,
`AtMostOnce`, `ServerProofs`; `Transport`, `Channel`; `LineageProofs`, `StoreProofs`;
`AssignmentProofs`, `BucketMapProofs`, `MapProofs`, `TransportProofs`.

What is left:

1. An abstract governor (which members may carry traffic, which boot has authority)
   that `Governor` implements, and the refinement proved.
2. The action properties of `MapProofs` as theorems of `StoreSpec`, for the steps that run
   the governor.
3. 64-bit generations at their end, where `refresh_group` returns half way.
