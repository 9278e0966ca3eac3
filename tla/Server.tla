-------------------------------- MODULE Server --------------------------------
(***************************************************************************)
(* The coordinator server and its workers: one thread per connection, the    *)
(* order of publisher registration at the governor and in the session map,   *)
(* what a mutation reads before its lock and after, the attempt window, the  *)
(* request limit, and the workers that send one request at a time and may    *)
(* vanish, or stop reading, at any moment (src/server.cpp, src/client.cpp,   *)
(* app/worker_main.cpp).                                                     *)
(*                                                                         *)
(* A mutation is reduced to what the server adds to it: who asks, under which *)
(* attempt id, with which payload; its effect on the groups is Governor's    *)
(* subject, its autosave DurableStore's.  Every member of Session is one     *)
(* connection and is used once.                                             *)
(***************************************************************************)
EXTENDS Integers, Sequences, FiniteSets

CONSTANTS
  Session, Publisher, Boot, Attempt, Payload,
  NoSession, NoBoot, NoIdentity, NoRequest,
  MaxPublishers, MaxSessions,   \* GovernorLimits
  Window,                       \* GovernorLimits::max_attempts_remembered
  MaxRequests,                  \* CoordinatorServerOptions::max_requests, 0 for no limit
  MaxSilent                     \* bound of the model: the workers that hang at a time

ASSUME ServerAssumption ==
  /\ MaxPublishers \in Nat \ {0} /\ MaxSessions \in Nat \ {0}
  /\ Window \in Nat \ {0} /\ MaxRequests \in Nat /\ MaxSilent \in Nat
  /\ NoSession \notin Session /\ NoBoot \notin Boot
  /\ NoIdentity \notin [publisher : Publisher, boot : Boot]
  /\ NoRequest \notin [kind : {"REGISTER", "QUERY"}]
                     \cup [kind : {"MUTATE"}, attempt : Attempt, payload : Payload]

Identity == [publisher : Publisher, boot : Boot]

Registration == [kind : {"REGISTER"}]
Mutation     == [kind : {"MUTATE"}, attempt : Attempt, payload : Payload]
Query        == [kind : {"QUERY"}]   \* HELLO, and the reading requests, which are alike
Request      == Registration \cup Mutation \cup Query

Accepted == {"APPLIED", "IDEMPOTENT"}
Answer   == Accepted \cup {"REGISTERED", "READ", "REFUSED"}
Frame    == [kind : {"REGISTER"}, answer : {"REGISTERED", "REFUSED"}]
              \cup [kind : {"MUTATE"}, answer : Accepted \cup {"REFUSED"}]
              \cup [kind : {"QUERY"}, answer : {"READ"}]
              \cup [kind : {"FENCE_NOTICE", "ERROR"}]

VARIABLES
  \* The governor, as far as the server depends on it:
  publishers, fenced_boots,
  attempt_order,  \* the attempts remembered, oldest first, with their payloads
  applied,        \* history: the accepted mutations
  \* The server:
  by_publisher,   \* the session of each publisher
  session,        \* the identity a session has registered
  thread,         \* what the thread of each session is doing
  handled, stopping,
  owner,          \* coordinator_main: in serve(), in stop(), or done
  \* The connections and the workers:
  wire,           \* per connection: shut down or closed by the server, frames each way
  worker,         \* per connection: state, identity, and the request awaiting its answer
  told            \* history: the mutations some worker was told are accepted

registry   == <<publishers, fenced_boots>>
window     == <<attempt_order, applied>>
sessions   == <<by_publisher, session>>
control    == <<handled, stopping, owner>>
clients    == <<worker, told>>
serverVars == <<registry, window, sessions, thread, control, wire, clients>>

At(s, pc)   == thread[s].pc = pc
Goto(s, pc) == thread' = [thread EXCEPT ![s].pc = pc]

\* A worker that reads no more: it is gone, or it is there and does not read.
Deaf == {"GONE", "SILENT"}

\* The frames on their way to the worker of s, with one more unless nobody will
\* read it or the connection is shut down.
Delivered(s, frame) ==
  IF wire[s].shut \/ worker[s].state \in Deaf THEN wire[s].outbox
  ELSE Append(wire[s].outbox, frame)

\* The sessions that serve() has counted and end_session has not.
Active == {s \in Session : thread[s].pc \notin {"NONE", "BACKLOG", "ENDED"}}

Init ==
  /\ publishers = [p \in Publisher |-> NoBoot] /\ fenced_boots = {}
  /\ attempt_order = <<>> /\ applied = <<>>
  /\ by_publisher = [p \in Publisher |-> NoSession]
  /\ session = [s \in Session |-> NoIdentity]
  /\ thread = [s \in Session |->
       [pc |-> "NONE", request |-> NoRequest, granted |-> FALSE,
        previous |-> NoSession, answer |-> "REFUSED"]]
  /\ handled = 0 /\ stopping = FALSE /\ owner = "SERVING"
  /\ wire = [s \in Session |-> [shut |-> FALSE, inbox |-> <<>>, outbox |-> <<>>]]
  /\ worker = [s \in Session |->
       [state |-> "AWAY", identity |-> NoIdentity, asked |-> NoRequest]]
  /\ told = {}

-----------------------------------------------------------------------------
(* Workers.                                                                 *)

connect(s, i) ==
  /\ worker[s].state = "AWAY" /\ ~stopping
  /\ worker' = [worker EXCEPT ![s] = [@ EXCEPT !.state = "NEW", !.identity = i]]
  /\ Goto(s, "BACKLOG")
  /\ UNCHANGED <<registry, window, sessions, control, wire, told>>

\* round_trip, first half.  A worker says HELLO, registers, and then mutates; the
\* attempt may be one of an earlier connection.
Send(s, r) ==
  /\ worker[s].state = CASE r \in Query        -> "NEW"
                         [] r \in Registration -> "GREETED"
                         [] r \in Mutation     -> "READY"
  /\ worker' = [worker EXCEPT ![s] = [@ EXCEPT !.state = "WAITING", !.asked = r]]
  /\ wire' = [wire EXCEPT ![s].inbox = Append(@, r)]
  /\ UNCHANGED <<registry, window, sessions, thread, control, told>>

\* round_trip, second half: the next frame, whichever it is.  A fence notice, an
\* error, an answer of another kind or a refused registration ends the worker.
Receive(s) ==
  /\ worker[s].state = "WAITING" /\ wire[s].outbox # <<>>
  /\ LET frame == Head(wire[s].outbox)
         asked == worker[s].asked
         mine  == frame.kind = asked.kind
         next  == CASE asked \in Query        -> "GREETED"
                    [] asked \in Registration -> IF frame.answer = "REGISTERED" THEN "READY" ELSE "GONE"
                    [] asked \in Mutation     -> "READY"
     IN /\ worker' = [worker EXCEPT ![s] =
             [@ EXCEPT !.state = IF mine THEN next ELSE "GONE", !.asked = NoRequest]]
        /\ told' = IF mine /\ frame.answer \in Accepted
                   THEN told \cup {asked} ELSE told
  /\ wire' = [wire EXCEPT ![s].outbox = Tail(@)]
  /\ UNCHANGED <<registry, window, sessions, thread, control>>

Present == {"NEW", "GREETED", "READY", "WAITING"}

\* Done, killed, out of patience, or disconnected: at any time.  What it has sent
\* may still be read; what it has not read is lost.
Leave(s) ==
  /\ worker[s].state \in Present \cup {"SILENT"}
  /\ worker' = [worker EXCEPT ![s] = [@ EXCEPT !.state = "GONE", !.asked = NoRequest]]
  /\ wire' = [wire EXCEPT ![s].outbox = <<>>]
  /\ UNCHANGED <<registry, window, sessions, thread, control, told>>

\* Stopped or hung after a request, with its connection open: the answer fills the
\* buffers of the sockets and stays there.  Before it has asked for anything, a hung
\* worker is no different from an idle one: an error or a notice fits the buffers.
FallSilent(s) ==
  /\ worker[s].state = "WAITING" /\ ~wire[s].shut
  /\ Cardinality({x \in Session : worker[x].state = "SILENT"}) < MaxSilent
  /\ worker' = [worker EXCEPT ![s] = [@ EXCEPT !.state = "SILENT", !.asked = NoRequest]]
  /\ wire' = [wire EXCEPT ![s].outbox = <<>>]
  /\ UNCHANGED <<registry, window, sessions, thread, control, told>>

-----------------------------------------------------------------------------
(* serve() and the loop of a session thread.                                *)

\* A connection over the limit is told so and closed; this first small frame always
\* fits the buffers.  serve() may have looked at stopping before it was set.
accept(s) ==
  /\ owner = "SERVING"
  /\ At(s, "BACKLOG")
  /\ IF Cardinality(Active) >= MaxSessions
     THEN /\ wire' = [wire EXCEPT ![s] =
               [shut |-> TRUE, inbox |-> <<>>, outbox |-> Delivered(s, [kind |-> "ERROR"])]]
          /\ Goto(s, "ENDED")
     ELSE Goto(s, "TOP") /\ UNCHANGED wire
  /\ UNCHANGED <<registry, window, sessions, control, clients>>

LoopTop(s) ==
  /\ At(s, "TOP")
  /\ Goto(s, IF stopping THEN "END" ELSE "READ")
  /\ UNCHANGED <<registry, window, sessions, control, wire, clients>>

\* read_frame returned a request, and it is counted.
ReadRequest(s) ==
  /\ At(s, "READ")
  /\ ~wire[s].shut /\ wire[s].inbox # <<>>
  /\ thread' = [thread EXCEPT ![s] = [@ EXCEPT !.pc = "COUNTED", !.request = Head(wire[s].inbox)]]
  /\ wire' = [wire EXCEPT ![s].inbox = Tail(@)]
  /\ handled' = handled + 1
  /\ UNCHANGED <<registry, window, sessions, stopping, owner, clients>>

\* PEER_CLOSED: the worker is gone, perhaps with a request unread, or another
\* thread has shut the connection down.
PeerClosed(s) ==
  /\ At(s, "READ")
  /\ wire[s].shut \/ worker[s].state = "GONE"
  /\ Goto(s, "END")
  /\ UNCHANGED <<registry, window, sessions, control, wire, clients>>

\* Mutation: the deadline starts with the first byte of a frame.
ReadWaitsForFirstByte(s) == FALSE

\* No frame within the receive deadline, which an idle worker cannot know of.
ReadTimesOut(s) ==
  /\ At(s, "READ")
  /\ ~wire[s].shut /\ wire[s].inbox = <<>>
  /\ Goto(s, "REJECT")
  /\ UNCHANGED <<registry, window, sessions, control, wire, clients>>

\* The worker is told of it, if the connection still takes the frame.
Reject(s) ==
  /\ At(s, "REJECT")
  /\ wire' = [wire EXCEPT ![s].outbox = Delivered(s, [kind |-> "ERROR"])]
  /\ Goto(s, "END")
  /\ UNCHANGED <<registry, window, sessions, control, clients>>

\* The request that exceeds the limit is dropped with its connection.
CheckLimit(s) ==
  /\ At(s, "COUNTED")
  /\ Goto(s, IF MaxRequests # 0 /\ handled > MaxRequests THEN "END" ELSE "HANDLE")
  /\ UNCHANGED <<registry, window, sessions, control, wire, clients>>

\* write_frame failed: the connection is shut, or its worker gone.
WriteFails(s) ==
  /\ At(s, "REPLY")
  /\ wire[s].shut \/ worker[s].state = "GONE"
  /\ Goto(s, "END")
  /\ UNCHANGED <<registry, window, sessions, control, wire, clients>>

Reply(s) ==
  /\ At(s, "REPLY") /\ ~wire[s].shut
  /\ wire' = [wire EXCEPT ![s].outbox =
       Delivered(s, [kind |-> thread[s].request.kind, answer |-> thread[s].answer])]
  /\ thread' = [thread EXCEPT ![s] = [@ EXCEPT !.pc = "AFTER", !.request = NoRequest,
                                               !.granted = FALSE, !.answer = "REFUSED"]]
  /\ UNCHANGED <<registry, window, sessions, control, clients>>

\* The answer that reaches the limit stops the server.
AfterReply(s) ==
  /\ At(s, "AFTER")
  /\ LET last == MaxRequests # 0 /\ handled >= MaxRequests
     IN Goto(s, IF last THEN "END" ELSE "TOP") /\ stopping' = (stopping \/ last)
  /\ UNCHANGED <<registry, window, sessions, handled, owner, wire, clients>>

\* A reading request changes nothing.
Read(s) ==
  /\ At(s, "HANDLE") /\ thread[s].request \in Query
  /\ thread' = [thread EXCEPT ![s] = [@ EXCEPT !.pc = "REPLY", !.answer = "READ"]]
  /\ UNCHANGED <<registry, window, sessions, control, wire, clients>>

-----------------------------------------------------------------------------
(* REGISTER_PUBLISHER: the governor first, then the session map, then the    *)
(* session's own fields, then the incarnation it replaces.                  *)

Me(s) == worker[s].identity   \* what the envelopes of s say

\* EcmpGovernor::register_publisher, whether it accepts.
CanRegister(i) ==
  LET old == publishers[i.publisher] IN
  /\ i.boot \notin fenced_boots
  /\ old \notin {NoBoot, i.boot} => Cardinality(fenced_boots) < MaxPublishers
  /\ old = NoBoot => Cardinality({p \in Publisher : publishers[p] # NoBoot}) < MaxPublishers

RegisterPublisher(s) ==
  /\ At(s, "HANDLE") /\ thread[s].request \in Registration
  /\ LET i   == Me(s)
         old == publishers[i.publisher]
     IN IF CanRegister(i)
        THEN /\ publishers' = [publishers EXCEPT ![i.publisher] = i.boot]
             /\ fenced_boots' = fenced_boots \cup ({old} \ {NoBoot, i.boot})
             /\ thread' = [thread EXCEPT ![s] = [@ EXCEPT !.pc = "MAP", !.answer = "REGISTERED"]]
        ELSE /\ thread' = [thread EXCEPT ![s] = [@ EXCEPT !.pc = "REPLY", !.answer = "REFUSED"]]
             /\ UNCHANGED registry
  /\ UNCHANGED <<window, sessions, control, wire, clients>>

\* register_session under session_mutex.  It compares with the boot in the fields
\* of the session it finds, which that session may not have written yet.
EnterMap(s) ==
  /\ At(s, "MAP")
  /\ LET p     == Me(s).publisher
         found == by_publisher[p]
         other == found # NoSession /\ (session[found] = NoIdentity \/ session[found].boot # Me(s).boot)
     IN /\ by_publisher' = [by_publisher EXCEPT ![p] = s]
        /\ thread' = [thread EXCEPT ![s] =
             [@ EXCEPT !.pc = "FIELDS", !.previous = IF other THEN found ELSE NoSession]]
  /\ UNCHANGED <<registry, window, session, control, wire, clients>>

\* The fields are written after the lock is released.
WriteFields(s) ==
  /\ At(s, "FIELDS")
  /\ session' = [session EXCEPT ![s] = Me(s)]
  /\ Goto(s, IF thread[s].previous = NoSession THEN "REPLY" ELSE "FENCE")
  /\ UNCHANGED <<registry, window, by_publisher, control, wire, clients>>

\* The notice, if the connection still takes it, and the shutdown.
FencePrevious(s) ==
  /\ At(s, "FENCE")
  /\ LET t == thread[s].previous IN
     wire' = [wire EXCEPT ![t] =
       [@ EXCEPT !.shut = TRUE, !.outbox = Delivered(t, [kind |-> "FENCE_NOTICE"])]]
  /\ thread' = [thread EXCEPT ![s] = [@ EXCEPT !.pc = "REPLY", !.previous = NoSession]]
  /\ UNCHANGED <<registry, window, sessions, control, clients>>

-----------------------------------------------------------------------------
(* A mutation.                                                              *)

Registered(i) == publishers[i.publisher] = i.boot

\* authority_of, before the lock: no scope unless the boot is the registered one.
CaptureAuthority(s) ==
  /\ At(s, "HANDLE") /\ thread[s].request \in Mutation
  /\ thread' = [thread EXCEPT ![s] = [@ EXCEPT !.pc = "LOCK", !.granted = Registered(Me(s))]]
  /\ UNCHANGED <<registry, window, sessions, control, wire, clients>>

\* Mutation: the registration seen before the lock is taken for granted.
AuthorizedBefore(s) == thread[s].granted

\* authorize_context, under the lock: the registration of now, the scope of then.
Authorized(s) ==
  /\ Registered(Me(s)) /\ Me(s).boot \notin fenced_boots
  /\ thread[s].granted

\* find_attempt.
Remembered(a) == {i \in DOMAIN attempt_order : attempt_order[i].attempt = a}

\* Mutation: a replay is recognised by its id alone.
IsReplayOfAny(r) == Remembered(r.attempt) # {}

\* handle_attempt: the id and the payload of an accepted mutation again.
IsReplay(r) ==
  \E i \in Remembered(r.attempt) : attempt_order[i].payload = r.payload

\* Mutation: nothing is ever evicted.
remember_for_ever(order, r) ==
  Append(order, [attempt |-> r.attempt, payload |-> r.payload])

\* Mutation: the window holds one attempt less.
remember_one_less(order, r) ==
  LET longer == Append(order, [attempt |-> r.attempt, payload |-> r.payload])
  IN  IF Len(longer) >= Window THEN Tail(longer) ELSE longer

\* remember_attempt: a FIFO of Window entries.
remember_attempt(order, r) ==
  LET longer == Append(order, [attempt |-> r.attempt, payload |-> r.payload])
  IN  IF Len(longer) > Window THEN Tail(longer) ELSE longer

\* The governor's answer under mutate_mutex; an accepted one is saved before the
\* lock is released, so that other mutations see this as one step.  A replay is
\* accepted and changes nothing; a new attempt may still be refused for what the
\* group is.
Mutate(s) ==
  /\ At(s, "LOCK")
  /\ LET r == thread[s].request
         Answered(answer) ==
           thread' = [thread EXCEPT ![s] = [@ EXCEPT !.pc = "REPLY", !.answer = answer]]
     IN \/ /\ Authorized(s) /\ Remembered(r.attempt) = {}
           /\ applied' = Append(applied, [attempt |-> r.attempt, payload |-> r.payload,
                                          publisher |-> Me(s).publisher, boot |-> Me(s).boot])
           /\ attempt_order' = remember_attempt(attempt_order, r)
           /\ Answered("APPLIED")
        \/ /\ Authorized(s) /\ IsReplay(r)
           /\ Answered("IDEMPOTENT")
           /\ UNCHANGED window
        \/ /\ ~(Authorized(s) /\ IsReplay(r))
           /\ Answered("REFUSED")
           /\ UNCHANGED window
  /\ UNCHANGED <<registry, sessions, control, wire, clients>>

-----------------------------------------------------------------------------
(* The end of a session, and of the server.                                 *)

\* EcmpGovernor::fence_publisher: nothing, unless the boot is the registered one.
fence_publisher(i) ==
  IF Registered(i)
  THEN /\ publishers' = [publishers EXCEPT ![i.publisher] = NoBoot]
       /\ fenced_boots' = IF Cardinality(fenced_boots) < MaxPublishers
                          THEN fenced_boots \cup {i.boot} ELSE fenced_boots
  ELSE UNCHANGED registry

\* Mutation: only the session in the map fences its publisher.
FenceIfMapped(s) ==
  /\ At(s, "END")
  /\ IF session[s] # NoIdentity /\ by_publisher[session[s].publisher] = s
     THEN fence_publisher(session[s]) ELSE UNCHANGED registry
  /\ Goto(s, "ERASE")
  /\ UNCHANGED <<window, sessions, control, wire, clients>>

\* end_session, first half.
FenceOwn(s) ==
  /\ At(s, "END")
  /\ IF session[s] # NoIdentity THEN fence_publisher(session[s]) ELSE UNCHANGED registry
  /\ Goto(s, "ERASE")
  /\ UNCHANGED <<window, sessions, control, wire, clients>>

\* end_session, second half: its own entry of the map, the connection, the count.
Close(s) ==
  /\ At(s, "ERASE")
  /\ by_publisher' = [p \in Publisher |->
       IF session[s] # NoIdentity /\ p = session[s].publisher /\ by_publisher[p] = s
       THEN NoSession ELSE by_publisher[p]]
  /\ wire' = [wire EXCEPT ![s] = [@ EXCEPT !.shut = TRUE, !.inbox = <<>>]]
  /\ thread' = [thread EXCEPT ![s] = [@ EXCEPT !.pc = "ENDED", !.request = NoRequest,
                                               !.granted = FALSE, !.answer = "REFUSED"]]
  /\ UNCHANGED <<registry, window, session, control, clients>>

\* serve() has returned; stop() shuts the registered sessions down.
Stop ==
  /\ owner = "SERVING" /\ stopping
  /\ owner' = "JOINING"
  /\ wire' = [s \in Session |->
       IF \E p \in Publisher : by_publisher[p] = s THEN [wire[s] EXCEPT !.shut = TRUE]
                                                   ELSE wire[s]]
  /\ UNCHANGED <<registry, window, sessions, thread, handled, stopping, clients>>

\* ... and joins the threads.
Join ==
  /\ owner = "JOINING" /\ Active = {}
  /\ owner' = "STOPPED"
  /\ UNCHANGED <<registry, window, sessions, thread, handled, stopping, wire, clients>>

-----------------------------------------------------------------------------
\* A step of the thread of s, once it runs.
Thread(s) ==
  \/ LoopTop(s) \/ ReadRequest(s) \/ PeerClosed(s) \/ ReadTimesOut(s) \/ Reject(s)
  \/ CheckLimit(s) \/ Read(s)
  \/ RegisterPublisher(s) \/ EnterMap(s) \/ WriteFields(s) \/ FencePrevious(s)
  \/ CaptureAuthority(s) \/ Mutate(s)
  \/ WriteFails(s) \/ Reply(s) \/ AfterReply(s)
  \/ FenceOwn(s) \/ Close(s)

Worker(s) ==
  \/ \E i \in Identity : connect(s, i)
  \/ \E r \in Request : Send(s, r)
  \/ Receive(s) \/ Leave(s) \/ FallSilent(s)

Next ==
  \/ \E s \in Session : accept(s) \/ Thread(s) \/ Worker(s)
  \/ Stop \/ Join

ServerSpec == Init /\ [][Next]_serverVars

\* The thread of s is writing: an answer or an error to its own worker, or the
\* notice to the session it replaces.
Writing(s) == thread[s].pc \in {"REJECT", "REPLY", "FENCE"}

Peer(s) == IF At(s, "FENCE") THEN thread[s].previous ELSE s

\* send_all has no deadline: its peer reads no more and its connection is open, so
\* that it waits unless the buffers have room.
MayBlock(s) == Writing(s) /\ worker[Peer(s)].state = "SILENT" /\ ~wire[Peer(s)].shut

\* Threads are scheduled, a blocked read ends by its deadline, and a write ends
\* unless it may block; workers promise nothing.
ServerFairness ==
  /\ \A s \in Session : WF_serverVars(Thread(s) /\ ~MayBlock(s)) /\ WF_serverVars(accept(s))
  /\ WF_serverVars(Stop) /\ WF_serverVars(Join)

FairServerSpec == ServerSpec /\ ServerFairness
=============================================================================
