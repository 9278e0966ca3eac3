----------------------------- MODULE Assignment ------------------------------
(***************************************************************************)
(* The deterministic bucket assignment of src/assignment.cpp.  A member is *)
(* named by its position in the canonical order (path, member id), so the  *)
(* order on members is the order on numbers; 0 is the nil member, the      *)
(* owner of an unassigned bucket.                                          *)
(***************************************************************************)
EXTENDS Integers, FiniteSets

CONSTANTS
  Member,       \* the member identities, in canonical order
  BucketCount   \* bucket_count of a group

ASSUME MemberAssumption      == Member \subseteq Nat \ {0} /\ IsFiniteSet(Member)
ASSUME BucketCountAssumption == BucketCount \in Nat \ {0}

Nil    == 0
Bucket == 0 .. BucketCount - 1
Owners == [Bucket -> Member \cup {Nil}]

Unassigned == [b \in Bucket |-> Nil]

OwnedBuckets(owners, m) == {b \in Bucket : owners[b] = m}

owned_bucket_count(owners, m) == Cardinality(OwnedBuckets(owners, m))

\* The quota of m among the active members: the first (BucketCount mod n)
\* canonical members get one bucket more than the others.
balanced_bucket_count(active, m) ==
  LET n     == Cardinality(active)
      index == Cardinality({k \in active : k < m})
  IN  BucketCount \div n + (IF index < BucketCount % n THEN 1 ELSE 0)

\* Mutation: everything is handed out anew.
RetainedNothing(owners, active) == {}

\* Mutation: a member keeps one bucket more than its quota.
RetainedOneMore(owners, active) ==
  {b \in Bucket :
     /\ owners[b] \in active
     /\ Cardinality({c \in OwnedBuckets(owners, owners[b]) : c < b})
          <= balanced_bucket_count(active, owners[b])}

\* Retention: a member keeps its own lowest-numbered buckets, up to its quota.
Retained(owners, active) ==
  {b \in Bucket :
     /\ owners[b] \in active
     /\ Cardinality({c \in OwnedBuckets(owners, owners[b]) : c < b})
          < balanced_bucket_count(active, owners[b])}

\* What m still misses after retention.
Deficit(owners, active, m) ==
  balanced_bucket_count(active, m)
    - Cardinality(Retained(owners, active) \cap OwnedBuckets(owners, m))

\* Mutation: every free bucket goes to the first member with a deficit.
FillerGreedy(owners, active, b) ==
  LET able == {m \in active : Deficit(owners, active, m) > 0}
  IN  IF able = {} THEN Nil ELSE CHOOSE m \in able : \A k \in able : m <= k

\* Fill: the free buckets, in ascending order, go to the members in canonical
\* order.  The bucket with k free buckets below it goes to the member whose
\* deficit covers position k.
Filler(owners, active, b) ==
  LET position == Cardinality({c \in Bucket \ Retained(owners, active) : c < b})
      claims   == UNION {{m} \X (1 .. Deficit(owners, active, m)) : m \in active}
      Upto(m)  == Cardinality({c \in claims : c[1] <= m})
      able     == {m \in active : position < Upto(m)}
      first    == {m \in able : \A k \in able : m <= k}
  IN  IF first = {} THEN Nil ELSE CHOOSE m \in first : TRUE

\* Mutation: one bucket too many.
compute_rebalance_off_by_one(owners, active) ==
  [b \in 0 .. BucketCount |-> IF b \in Retained(owners, active)
                              THEN owners[b] ELSE Filler(owners, active, b)]

compute_rebalance(owners, active) ==
  [b \in Bucket |-> IF b \in Retained(owners, active)
                    THEN owners[b] ELSE Filler(owners, active, b)]

\* The move list: the buckets whose owner changes.
Moves(before, after) == {b \in Bucket : before[b] # after[b]}

churn(before, after) == Cardinality(Moves(before, after))

\* Why a bucket moved.
move_reason(owners, active, b) ==
  CASE owners[b] = Nil            -> "INITIAL_ASSIGNMENT"
    [] owners[b] \in active       -> "OWNER_OVER_QUOTA"
    [] OTHER                      -> "OWNER_REMOVED"

minimum_possible_churn(owners, active) ==
  LET kept == UNION {{m} \X (1 .. owned_bucket_count(owners, m)) : m \in active}
  IN  BucketCount
        - Cardinality({c \in kept : c[2] <= balanced_bucket_count(active, c[1])})

\* check_assignment: every owner is active, no bucket is left unassigned while
\* there is an active member, and the shares differ by at most one.
Balanced(owners, active) ==
  \A m, k \in active : owned_bucket_count(owners, m) - owned_bucket_count(owners, k) <= 1

check_assignment(owners, active) ==
  /\ \A b \in Bucket : owners[b] \in (IF active = {} THEN {Nil} ELSE active)
  /\ Balanced(owners, active)
=============================================================================
