------------------------------ MODULE Lifecycle ------------------------------
(***************************************************************************)
(* The lifecycle tables of the governor (src/lifecycle.cpp): which event a *)
(* group accepts in which state, the state it derives from its counts, and *)
(* the state of one member.  Pure operators, shared by every state machine *)
(* of this project.                                                        *)
(***************************************************************************)
EXTENDS Naturals

\* States the derived lifecycle moves between ...
OpenLifecycles ==
  {"DECLARED", "ACTIVE", "DEGRADED", "REVALIDATION_REQUIRED", "REBALANCING"}

\* ... and the administrative ones.
ClosedLifecycles ==
  {"WITHDRAWING", "WITHDRAWN", "REVOKED", "SUPERSEDED", "RETIRED"}

GroupLifecycle == OpenLifecycles \cup ClosedLifecycles

is_administratively_closed(lifecycle) == lifecycle \in ClosedLifecycles

\* A bucket map is authoritative only in these states.
AuthoritativeLifecycles == {"ACTIVE", "DEGRADED", "REBALANCING"}

MemberEvents   == {"ADD_MEMBER", "REMOVE_MEMBER", "DISABLE_MEMBER", "ENABLE_MEMBER"}
Invalidations  == {"INVALIDATE_PATH", "INVALIDATE_MULTIPATH",
                   "INVALIDATE_COST", "INVALIDATE_EPOCH"}
OrdinaryEvents == MemberEvents \cup Invalidations \cup {"REVALIDATE"}
PlanEvents     == {"PLAN_REBALANCE", "COMMIT_REBALANCE", "ABORT_REBALANCE"}
CloseEvents    == {"WITHDRAW", "REVOKE", "SUPERSEDE", "RETIRE"}

GroupEvent ==
  {"CREATE", "COMPLETE_WITHDRAW"} \cup OrdinaryEvents \cup PlanEvents \cup CloseEvents

AllowedEvents ==
  [ DECLARED              |-> OrdinaryEvents \cup CloseEvents,
    ACTIVE                |-> OrdinaryEvents \cup PlanEvents \cup CloseEvents,
    DEGRADED              |-> OrdinaryEvents \cup PlanEvents \cup CloseEvents,
    REVALIDATION_REQUIRED |-> OrdinaryEvents \cup CloseEvents,
    REBALANCING           |-> Invalidations \cup CloseEvents \cup
                                {"REVALIDATE", "COMMIT_REBALANCE", "ABORT_REBALANCE"},
    WITHDRAWING           |-> {"COMPLETE_WITHDRAW", "REVOKE", "RETIRE"},
    WITHDRAWN             |-> {"REVOKE", "SUPERSEDE", "RETIRE"},
    REVOKED               |-> {"RETIRE"},
    SUPERSEDED            |-> {"RETIRE"},
    RETIRED               |-> {} ]

\* Mutation: a pending plan does not keep membership events out.
lifecycle_allows_while_planning(state, event) ==
  event \in AllowedEvents[state] \/ (state = "REBALANCING" /\ event \in MemberEvents)

lifecycle_allows(state, event) == event \in AllowedEvents[state]

derive_lifecycle(declared, active, minActive, planPending, authorityCurrent) ==
  CASE planPending                                 -> "REBALANCING"
    [] ~planPending /\ declared = 0                -> "DECLARED"
    [] ~planPending /\ declared # 0 /\ (active = 0 \/ ~authorityCurrent)
                                                   -> "REVALIDATION_REQUIRED"
    [] OTHER -> IF active < minActive THEN "DEGRADED" ELSE "ACTIVE"

\* Events with a state of their own; every other event re-derives the state.
EventTarget ==
  [ CREATE |-> "DECLARED", PLAN_REBALANCE |-> "REBALANCING",
    WITHDRAW |-> "WITHDRAWING", COMPLETE_WITHDRAW |-> "WITHDRAWN",
    REVOKE |-> "REVOKED", SUPERSEDE |-> "SUPERSEDED", RETIRE |-> "RETIRED" ]

apply_group_event(event, derived) ==
  IF event \in DOMAIN EventTarget THEN EventTarget[event] ELSE derived

-----------------------------------------------------------------------------
CurrentnessCause ==
  {"STALE_PATH_AUTHORITY", "STALE_MULTIPATH_SET", "STALE_COST_CLASS", "STALE_EPOCH",
   "FENCED_PUBLISHER", "REVALIDATION_REQUIRED", "RETIRED"}

\* The causes that void the group's live authority, not just one member's proof.
AuthorityCauses == {"STALE_EPOCH", "FENCED_PUBLISHER", "REVALIDATION_REQUIRED", "RETIRED"}

authority_current(causes) == causes \cap AuthorityCauses = {}

\* RETIRED is a member state of the protocol that the governor never derives.
MemberState == {"ACTIVE", "REVALIDATION_REQUIRED", "INELIGIBLE", "WITHDRAWN"}

derive_member_state(declared, enabled, upstreamCurrent) ==
  CASE ~declared                                   -> "WITHDRAWN"
    [] declared /\ ~upstreamCurrent                -> "REVALIDATION_REQUIRED"
    [] declared /\ upstreamCurrent /\ ~enabled     -> "INELIGIBLE"
    [] OTHER                                       -> "ACTIVE"
=============================================================================
