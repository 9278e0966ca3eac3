---------------------------- MODULE BucketMapProofs ----------------------------
(***************************************************************************)
(* The properties of BucketMap.tla, for every number of members and buckets *)
(* and every sequence of active sets.  The inductive invariant is that the *)
(* map gives each active member its quota; what compute_rebalance does to  *)
(* any map is in AssignmentProofs.                                         *)
(***************************************************************************)
EXTENDS BucketMap, AssignmentProofs

\* The map serves the members it was computed for.
MapInv == TypeOK /\ Serves(owners, active)

-----------------------------------------------------------------------------
\* It serves them initially, and every recomputation makes it serve the new ones.
LEMMA MapInductive == Spec => []MapInv
<1>1. Init => MapInv
  BY DEF Init, MapInv, TypeOK, Serves, Unassigned, Owners
<1>2. MapInv /\ [Next]_vars => MapInv'
  <2> SUFFICES ASSUME MapInv, [Next]_vars PROVE MapInv'
    OBVIOUS
  <2>1. CASE Next
    <3>1. PICK S \in SUBSET Member : active' = S /\ owners' = compute_rebalance(owners, S)
      BY <2>1 DEF Next, Rebalance
    <3> QED BY <3>1, RebalanceServes DEF MapInv, TypeOK
  <2>2. CASE UNCHANGED vars
    BY <2>2 DEF vars, MapInv, TypeOK, Serves
  <2> QED BY <2>1, <2>2
<1> QED BY <1>1, <1>2, PTL DEF Spec

-----------------------------------------------------------------------------
\* The map and the active set have their types.
THEOREM MapTypeOK == Spec => []TypeOK
<1>1. MapInv => TypeOK
  BY DEF MapInv
<1> QED BY <1>1, MapInductive, PTL

\* compute_rebalance always returns a map check_assignment accepts.
THEOREM MapValid == Spec => []MapIsValid
<1>1. MapInv => MapIsValid
  BY ServesIsValid DEF MapInv, TypeOK, MapIsValid
<1> QED BY <1>1, MapInductive, PTL

\* compute_rebalance is idempotent: the map it computed is the one it would compute.
THEOREM MapSettled == Spec => []Settled
<1>1. MapInv => Settled
  BY ServesIsValid DEF MapInv, TypeOK, Settled
<1> QED BY <1>1, MapInductive, PTL

\* No map with the same quotas moves fewer buckets than compute_rebalance, and
\* minimum_possible_churn is how many that is.
THEOREM MapMovesFewest == Spec => MinimumChurn
<1>1. MapInv /\ [Next]_vars =>
        [active' # {} =>
           /\ owners' \in FewestMoves(owners, active')
           /\ churn(owners, owners') = minimum_possible_churn(owners, active')]_vars
  <2> SUFFICES ASSUME MapInv, Next, active' # {}
               PROVE  /\ owners' \in FewestMoves(owners, active')
                      /\ churn(owners, owners') = minimum_possible_churn(owners, active')
    OBVIOUS
  <2>1. PICK S \in SUBSET Member : active' = S /\ owners' = compute_rebalance(owners, S)
    BY DEF Next, Rebalance
  <2>2. owners \in Owners /\ S # {}
    BY <2>1 DEF MapInv, TypeOK
  <2>3. churn(owners, owners') = minimum_possible_churn(owners, S)
    BY <2>1, <2>2, ChurnOfRebalance
  <2>4. \A h \in QuotaMaps(S) : minimum_possible_churn(owners, S) <= churn(owners, h)
    BY <2>2, NoMapMovesFewer DEF QuotaMaps
  <2>5. owners' \in QuotaMaps(S)
    BY <2>1, <2>2, RebalanceServes DEF Serves, QuotaMaps
  <2>6. owners' \in FewestMoves(owners, S)
    BY <2>3, <2>4, <2>5 DEF FewestMoves
  <2> QED BY <2>1, <2>3, <2>6
<1> QED BY <1>1, MapInductive, PTL DEF Spec, MinimumChurn

\* A member that stays active with at least its old quota keeps all its buckets.
THEOREM BystandersUntouched == Spec => BystandersKeepTheirBuckets
<1>1. MapInv /\ [Next]_vars =>
        [\A m \in active \cap active' :
           balanced_bucket_count(active', m) >= balanced_bucket_count(active, m)
             => OwnedBuckets(owners, m) \subseteq OwnedBuckets(owners', m)]_vars
  <2> SUFFICES ASSUME MapInv, Next, NEW m \in active \cap active',
                      balanced_bucket_count(active', m) >= balanced_bucket_count(active, m),
                      NEW b \in OwnedBuckets(owners, m)
               PROVE  b \in OwnedBuckets(owners', m)
    OBVIOUS
  <2>1. PICK S \in SUBSET Member : active' = S /\ owners' = compute_rebalance(owners, S)
    BY DEF Next, Rebalance
  <2>2. PICK own : own = OwnedBuckets(owners, m)
    OBVIOUS
  <2>3. own \in SUBSET Nat /\ IsFiniteSet(own) /\ Cardinality(own) \in Nat /\ b \in own
        /\ b \in Bucket /\ owners[b] = m
    <3>1. own \in SUBSET Bucket /\ b \in own /\ b \in Bucket /\ owners[b] = m
      BY <2>2 DEF OwnedBuckets
    <3> QED BY <3>1, BucketsFinite, FS_Subset, FS_CardinalityType
  <2>4. Cardinality(own) = balanced_bucket_count(active, m)
    BY <2>2 DEF MapInv, Serves, owned_bucket_count
  <2>5. balanced_bucket_count(S, m) \in Nat
    BY <2>1, QuotaType
  <2>6. Rank(own, b) \in 0 .. Cardinality(own) - 1
    BY <2>3, RankType
  <2>7. Rank(own, b) < balanced_bucket_count(S, m)
    <3>1. balanced_bucket_count(S, m) >= Cardinality(own)
      BY <2>1, <2>4
    <3> QED BY <2>3, <2>5, <2>6, <3>1
  <2>8. b \in Retained(owners, S)
    BY <2>1, <2>2, <2>3, <2>7 DEF Retained, Rank
  <2>9. owners'[b] = m
    BY <2>1, <2>3, <2>8 DEF compute_rebalance
  <2> QED BY <2>3, <2>9 DEF OwnedBuckets
<1> QED BY <1>1, MapInductive, PTL DEF Spec, BystandersKeepTheirBuckets

\* The reason in the move list is true of the move: nobody had the bucket, its owner
\* is no longer active, or its owner had more than it has now.
THEOREM MapMovesExplained == Spec => MovesAreExplained
<1> DEFINE Explained ==
      \A b \in Moves(owners, owners') :
        CASE move_reason(owners, active', b) = "INITIAL_ASSIGNMENT" -> owners[b] = Nil
          [] move_reason(owners, active', b) = "OWNER_REMOVED" -> owners[b] \in active \ active'
          [] OTHER -> /\ owners[b] \in active'
                      /\ owned_bucket_count(owners, owners[b])
                           > owned_bucket_count(owners', owners[b])
<1>1. MapInv /\ [Next]_vars => [Explained]_vars
  <2> SUFFICES ASSUME MapInv, Next PROVE Explained
    OBVIOUS
  <2>1. PICK S \in SUBSET Member : active' = S /\ owners' = compute_rebalance(owners, S)
    BY DEF Next, Rebalance
  <2>2. ASSUME NEW b \in Moves(owners, owners')
        PROVE  \/ owners[b] = Nil /\ Nil \notin S
               \/ owners[b] # Nil /\ owners[b] \in active /\ owners[b] \notin S
               \/ /\ owners[b] # Nil /\ owners[b] \in S
                  /\ owned_bucket_count(owners, owners[b]) > owned_bucket_count(owners', owners[b])
    <3>1. b \in Bucket /\ owners[b] # owners'[b]
      BY DEF Moves
    <3>2. owners[b] = Nil \/ (owners[b] \in active /\ owners[b] # Nil)
      <4>1. owners = Unassigned \/ owners \in [Bucket -> active]
        BY DEF MapInv, Serves
      <4>2. \A m \in active : m # Nil
        BY MemberAssumption DEF MapInv, TypeOK, Nil
      <4> QED BY <3>1, <4>1, <4>2 DEF Unassigned
    <3>3. Nil \notin S
      BY MemberAssumption DEF Nil
    <3>4. ASSUME owners[b] \in S
          PROVE  owned_bucket_count(owners, owners[b]) > owned_bucket_count(owners', owners[b])
      <4>1. PICK m \in S : owners[b] = m
        BY <3>4
      <4>2. PICK own : own = OwnedBuckets(owners, m)
        OBVIOUS
      <4>3. own \in SUBSET Nat /\ IsFiniteSet(own) /\ Cardinality(own) \in Nat /\ b \in own
        <5>1. own \in SUBSET Bucket /\ b \in own
          BY <3>1, <4>1, <4>2 DEF OwnedBuckets
        <5> QED BY <5>1, BucketsFinite, FS_Subset, FS_CardinalityType
      <4>4. b \notin Retained(owners, S)
        BY <2>1, <3>1 DEF compute_rebalance
      <4>5. balanced_bucket_count(S, m) \in Nat /\ Rank(own, b) \in 0 .. Cardinality(own) - 1
        BY <4>3, QuotaType, RankType
      <4>6. ~(Rank(own, b) < balanced_bucket_count(S, m))
        BY <3>1, <4>1, <4>2, <4>4 DEF Retained, Rank
      <4>7. owned_bucket_count(owners', m) = balanced_bucket_count(S, m)
        BY <2>1, QuotasMet DEF MapInv, TypeOK
      <4>8. owned_bucket_count(owners, m) = Cardinality(own)
        BY <4>2 DEF owned_bucket_count
      <4> QED BY <4>1, <4>3, <4>5, <4>6, <4>7, <4>8
    <3> QED BY <3>2, <3>3, <3>4
  <2> SUFFICES ASSUME NEW b \in Moves(owners, owners')
               PROVE  CASE move_reason(owners, active', b) = "INITIAL_ASSIGNMENT" -> owners[b] = Nil
                        [] move_reason(owners, active', b) = "OWNER_REMOVED"
                             -> owners[b] \in active \ active'
                        [] OTHER -> /\ owners[b] \in active'
                                    /\ owned_bucket_count(owners, owners[b])
                                         > owned_bucket_count(owners', owners[b])
    OBVIOUS
  <2>3. CASE owners[b] = Nil
    BY <2>1, <2>2, <2>3 DEF move_reason
  <2>4. CASE owners[b] # Nil /\ owners[b] \in active /\ owners[b] \notin S
    <3>1. move_reason(owners, active', b) = "OWNER_REMOVED"
      BY <2>1, <2>4 DEF move_reason
    <3> QED BY <2>1, <2>4, <3>1
  <2>5. CASE owners[b] # Nil /\ owners[b] \in S
    <3>1. move_reason(owners, active', b) = "OWNER_OVER_QUOTA"
      BY <2>1, <2>5 DEF move_reason
    <3>2. owned_bucket_count(owners, owners[b]) > owned_bucket_count(owners', owners[b])
      BY <2>2, <2>5
    <3> QED BY <2>1, <2>5, <3>1, <3>2
  <2> QED BY <2>2, <2>3, <2>4, <2>5
<1> QED BY <1>1, MapInductive, PTL DEF Spec, MovesAreExplained
=============================================================================
