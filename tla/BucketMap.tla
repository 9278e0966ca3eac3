------------------------------ MODULE BucketMap -------------------------------
(***************************************************************************)
(* One bucket map under a changing set of active members: what refresh_group *)
(* (src/governor_core.cpp) does to the map of a group, and nothing else.     *)
(* Governor.tla composes the same operators with everything that decides    *)
(* when the active set changes.                                             *)
(***************************************************************************)
EXTENDS Assignment

VARIABLES
  owners,   \* the current map
  active    \* the members it was computed for

vars == <<owners, active>>

Init == owners = Unassigned /\ active = {}

\* The active set becomes S and the map is recomputed from its current value.
Rebalance(S) ==
  /\ active' = S
  /\ owners' = compute_rebalance(owners, S)

\* A group never has more members than buckets (create_group, add_member and
\* validate_target_set refuse it).
Next == \E S \in SUBSET Member : Cardinality(S) <= BucketCount /\ Rebalance(S)

Spec == Init /\ [][Next]_vars

TypeOK == owners \in Owners /\ active \in SUBSET Member

-----------------------------------------------------------------------------
(* The reference: every map that gives each active member its quota.        *)

QuotaMaps(S) ==
  {f \in [Bucket -> S] : \A m \in S : owned_bucket_count(f, m) = balanced_bucket_count(S, m)}

FewestMoves(before, S) ==
  {f \in QuotaMaps(S) : \A h \in QuotaMaps(S) : churn(before, f) <= churn(before, h)}

-----------------------------------------------------------------------------
\* However the active set has changed, the map passes the governor's own
\* check_assignment: only active members own buckets, none is left over while
\* there is one, and the shares differ by at most one.
MapIsValid == check_assignment(owners, active)

\* Recomputing the map for the members it already serves moves nothing: what
\* lets a restarted group be revalidated with zero churn.
Settled == compute_rebalance(owners, active) = owners

\* No map with the same quotas moves fewer buckets, and the closed form of
\* minimum_possible_churn is that minimum.
MinimumChurn ==
  [][active' # {} =>
       /\ owners' \in FewestMoves(owners, active')
       /\ churn(owners, owners') = minimum_possible_churn(owners, active')]_vars

\* A member that stays active and whose quota does not shrink keeps every bucket
\* it had: traffic of a bystander is never moved.
BystandersKeepTheirBuckets ==
  [][\A m \in active \cap active' :
       balanced_bucket_count(active', m) >= balanced_bucket_count(active, m)
         => OwnedBuckets(owners, m) \subseteq OwnedBuckets(owners', m)]_vars

\* Each move has the reason the move list gives it: a bucket of a member that
\* stays active moves only when that member had more than its quota.
MovesAreExplained ==
  [][\A b \in Moves(owners, owners') :
       CASE move_reason(owners, active', b) = "INITIAL_ASSIGNMENT" -> owners[b] = Nil
         [] move_reason(owners, active', b) = "OWNER_REMOVED" -> owners[b] \in active \ active'
         [] OTHER -> /\ owners[b] \in active'
                     /\ owned_bucket_count(owners, owners[b])
                          > owned_bucket_count(owners', owners[b])]_vars
=============================================================================
