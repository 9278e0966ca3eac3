------------------------------ MODULE ServerSafety ------------------------------
(***************************************************************************)
(* What the coordinator server promises its workers, and what it must not   *)
(* do to itself: the properties of Server.                                  *)
(***************************************************************************)
EXTENDS Server

Pc == {"NONE", "BACKLOG", "TOP", "READ", "REJECT", "COUNTED", "HANDLE", "MAP", "FIELDS", "FENCE",
       "LOCK", "REPLY", "AFTER", "END", "ERASE", "ENDED"}

Remembrance  == [attempt : Attempt, payload : Payload]
Acceptance   == [attempt : Attempt, payload : Payload, publisher : Publisher, boot : Boot]
ThreadRecord == [pc : Pc, request : Request \cup {NoRequest}, granted : BOOLEAN,
                 previous : Session \cup {NoSession}, answer : Answer]
Connection   == [shut : BOOLEAN, inbox : Seq(Request), outbox : Seq(Frame)]
WorkerRecord == [state : Present \cup {"AWAY"} \cup Deaf, identity : Identity \cup {NoIdentity},
                 asked : Request \cup {NoRequest}]

\* Every variable has its type, and the window keeps to its limit.
ServerTypeOK ==
  /\ publishers \in [Publisher -> Boot \cup {NoBoot}] /\ fenced_boots \subseteq Boot
  /\ attempt_order \in Seq(Remembrance) /\ Len(attempt_order) <= Window
  /\ applied \in Seq(Acceptance)
  /\ by_publisher \in [Publisher -> Session \cup {NoSession}]
  /\ session \in [Session -> Identity \cup {NoIdentity}]
  /\ thread \in [Session -> ThreadRecord]
  /\ handled \in Nat /\ stopping \in BOOLEAN /\ owner \in {"SERVING", "JOINING", "STOPPED"}
  /\ wire \in [Session -> Connection]
  /\ worker \in [Session -> WorkerRecord]
  /\ told \subseteq Mutation

-----------------------------------------------------------------------------
\* README: an exact replay of an accepted mutation changes nothing, within the
\* window.  The accepted mutations implement AtMostOnce, over lost answers,
\* retries on other connections and by other boots.
Abstract == INSTANCE AtMostOnce WITH log <- [i \in DOMAIN applied |-> applied[i].attempt]

AppliedAtMostOnce == Abstract!Spec

\* What a worker was told is accepted has been applied, attempt and payload: no
\* answer of an earlier request, of another payload or of another worker is taken
\* for its own.
AnswersAreTrue ==
  \A r \in told : \E i \in DOMAIN applied :
    applied[i].attempt = r.attempt /\ applied[i].payload = r.payload

\* README: "A fenced worker boot can never mutate again": between two accepted
\* mutations of one boot there is none of another boot of its publisher, while
\* the fence table has room.
OneIncarnationAtATime ==
  Cardinality(fenced_boots) < MaxPublishers =>
    \A i, j, k \in DOMAIN applied :
      /\ i < j /\ j < k
      /\ applied[i].publisher = applied[j].publisher /\ applied[j].publisher = applied[k].publisher
      /\ applied[i].boot = applied[k].boot
      => applied[j].boot = applied[i].boot

\* The session s is registered as p's boot b, or is about to be.
WillFence(s, i) ==
  \/ s \in Active /\ thread[s].pc # "ERASE" /\ session[s] = i
  \/ thread[s].pc \in {"MAP", "FIELDS"} /\ Me(s) = i

\* No registration is orphaned: whenever a boot is registered, some session is
\* there whose end will fence it, whichever order the registrations of two
\* incarnations reach the governor and the session map in.
NoOrphan ==
  \A p \in Publisher : publishers[p] # NoBoot =>
    \E s \in Session : WillFence(s, [publisher |-> p, boot |-> publishers[p]])

-----------------------------------------------------------------------------
\* README: "the coordinator detects the disconnect and fences the publisher": a
\* worker that is gone does not stay registered, unless its thread waits for ever
\* in the write of a fence notice to another worker, one that does not read.
LostWorkerIsFenced ==
  \A s \in Session :
    []<>~MayBlock(s) =>
      (worker[s].state = "GONE" ~> (session[s] # NoIdentity => ~Registered(session[s])))

\* Once the server is stopping, every thread is joined and it stops: no session
\* blocks in a read for ever, registered or not, and no write to a worker that does
\* not read holds it, unless to one that stop() does not shut down: not registered, or
\* replaced.
StopCompletes ==
  (\A s \in Session : []<>~MayBlock(s)) => (stopping ~> owner = "STOPPED")
=============================================================================
