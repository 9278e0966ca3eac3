----------------------------- MODULE ServerProofs -----------------------------
(***************************************************************************)
(* What holds of the coordinator server for every number of connections,    *)
(* publishers, boots and attempts, every size of the window and every       *)
(* interleaving of its threads and workers.                                 *)
(***************************************************************************)
EXTENDS ServerSafety, FiniteSetTheorems, SequenceTheorems, TLAPS

-----------------------------------------------------------------------------
(* Types, with what a thread carries at each place of its code.             *)

Busy == {"COUNTED", "HANDLE", "MAP", "FIELDS", "FENCE", "LOCK", "REPLY"}

\* The answers that exist for a request.
Fits(r, answer) == [kind |-> r.kind, answer |-> answer] \in Frame

\* What the thread and the worker of s hold, wherever they are.
Carries(s) ==
  /\ thread[s].pc = "NONE" <=> worker[s].state = "AWAY"
  /\ worker[s].state # "AWAY" => worker[s].identity \in Identity
  /\ worker[s].state = "AWAY" => worker[s].identity = NoIdentity
  /\ worker[s].state = "WAITING" => worker[s].asked \in Request
  /\ thread[s].pc \in Busy => thread[s].request \in Request
  /\ thread[s].pc \in {"MAP", "FIELDS", "FENCE"} =>
       thread[s].request \in Registration /\ thread[s].answer = "REGISTERED"
  /\ thread[s].pc = "REPLY" => Fits(thread[s].request, thread[s].answer)
  /\ thread[s].pc = "LOCK" => thread[s].request \in Mutation
  /\ thread[s].pc = "FENCE" => thread[s].previous \in Session
  /\ session[s] \in {NoIdentity, worker[s].identity}

TypeInv == ServerTypeOK /\ \A s \in Session : Carries(s)

\* A thread that only goes on keeps everything but its place.
LEMMA GotoType ==
  ASSUME ServerTypeOK, NEW s \in Session, NEW pc \in Pc, Goto(s, pc)
  PROVE  /\ thread' \in [Session -> ThreadRecord]
         /\ thread'[s] = [thread[s] EXCEPT !.pc = pc]
         /\ \A x \in Session \ {s} : thread'[x] = thread[x]
<1>1. thread \in [Session -> ThreadRecord]
  BY DEF ServerTypeOK
<1>2. thread[s] \in ThreadRecord
  BY <1>1
<1>3. [thread[s] EXCEPT !.pc = pc] \in ThreadRecord
  BY <1>2 DEF ThreadRecord
<1>4. thread' = [thread EXCEPT ![s] = [thread[s] EXCEPT !.pc = pc]]
  BY DEF Goto
<1> QED BY <1>1, <1>3, <1>4

\* A frame put on the way leaves a sequence of frames, one longer or the same.
LEMMA DeliveredType ==
  ASSUME ServerTypeOK, NEW s \in Session, NEW frame \in Frame
  PROVE  Delivered(s, frame) \in Seq(Frame)
<1>1. wire[s] \in Connection
  BY DEF ServerTypeOK
<1>2. wire[s].outbox \in Seq(Frame)
  BY <1>1 DEF Connection
<1> QED BY <1>2 DEF Delivered

\* The initial state has its types.
LEMMA TypeInit == Init => TypeInv
<1> SUFFICES ASSUME Init PROVE TypeInv
  OBVIOUS
<1>1. thread \in [Session -> ThreadRecord]
  BY DEF Init, ThreadRecord, Pc, Answer
<1>2. wire \in [Session -> Connection]
  BY DEF Init, Connection
<1>3. worker \in [Session -> WorkerRecord]
  BY DEF Init, WorkerRecord
<1>4. /\ publishers \in [Publisher -> Boot \cup {NoBoot}] /\ fenced_boots \subseteq Boot
      /\ by_publisher \in [Publisher -> Session \cup {NoSession}]
      /\ session \in [Session -> Identity \cup {NoIdentity}]
      /\ handled \in Nat /\ stopping \in BOOLEAN /\ owner \in {"SERVING", "JOINING", "STOPPED"}
      /\ told \subseteq Mutation
  BY DEF Init
<1>5. /\ attempt_order \in Seq(Remembrance) /\ applied \in Seq(Acceptance)
      /\ Len(attempt_order) <= Window
  BY ServerAssumption DEF Init
<1>6. ASSUME NEW s \in Session PROVE Carries(s)
  BY <1>6 DEF Init, Carries, Busy
<1> QED BY <1>1, <1>2, <1>3, <1>4, <1>5, <1>6 DEF TypeInv, ServerTypeOK

\* A step at s leaves the other threads and workers as they are.
LEMMA CarriesFrame ==
  ASSUME TypeInv, NEW s \in Session, Carries(s)',
         \A x \in Session \ {s} : /\ thread'[x] = thread[x] /\ worker'[x] = worker[x]
                                  /\ session'[x] = session[x]
  PROVE  \A x \in Session : Carries(x)'
<1> SUFFICES ASSUME NEW x \in Session \ {s} PROVE Carries(x)'
  OBVIOUS
<1>1. Carries(x) /\ thread'[x] = thread[x] /\ worker'[x] = worker[x] /\ session'[x] = session[x]
  BY DEF TypeInv
<1> QED BY <1>1 DEF Carries


\* The types, one variable at a time.
LEMMA Types ==
  ASSUME TypeInv, NEW s \in Session
  PROVE  /\ thread \in [Session -> ThreadRecord] /\ thread[s] \in ThreadRecord
         /\ wire \in [Session -> Connection] /\ wire[s] \in Connection
         /\ worker \in [Session -> WorkerRecord] /\ worker[s] \in WorkerRecord
         /\ wire[s].inbox \in Seq(Request) /\ wire[s].outbox \in Seq(Frame)
         /\ session \in [Session -> Identity \cup {NoIdentity}]
         /\ Carries(s) /\ ServerTypeOK
BY DEF TypeInv, ServerTypeOK, Connection

\* A step of the thread or of the worker of s.
LEMMA StepType ==
  ASSUME TypeInv, NEW s \in Session, Carries(s)', ServerTypeOK',
         \A x \in Session \ {s} : /\ thread'[x] = thread[x] /\ worker'[x] = worker[x]
                                  /\ session'[x] = session[x]
  PROVE  TypeInv'
BY CarriesFrame DEF TypeInv

\* The loop of a session thread.
LEMMA LoopType ==
  ASSUME TypeInv, NEW s \in Session
  PROVE  /\ accept(s) => TypeInv'
         /\ LoopTop(s) => TypeInv'
         /\ ReadRequest(s) => TypeInv'
         /\ PeerClosed(s) => TypeInv'
         /\ ReadTimesOut(s) => TypeInv'
         /\ Reject(s) => TypeInv'
         /\ CheckLimit(s) => TypeInv'
         /\ Read(s) => TypeInv'
         /\ WriteFails(s) => TypeInv'
         /\ Reply(s) => TypeInv'
         /\ AfterReply(s) => TypeInv'
<1>1. /\ thread \in [Session -> ThreadRecord] /\ thread[s] \in ThreadRecord
      /\ wire \in [Session -> Connection] /\ wire[s] \in Connection
      /\ worker \in [Session -> WorkerRecord] /\ worker[s] \in WorkerRecord
      /\ wire[s].inbox \in Seq(Request) /\ wire[s].outbox \in Seq(Frame)
      /\ session \in [Session -> Identity \cup {NoIdentity}]
      /\ Carries(s) /\ ServerTypeOK
  BY Types
<1>2. ASSUME accept(s) PROVE TypeInv'
  <2>1. \E pc \in {"ENDED", "TOP"} : Goto(s, pc)
    BY <1>2 DEF accept
  <2>2. [kind |-> "ERROR"] \in Frame
    BY DEF Frame
  <2>3. Delivered(s, [kind |-> "ERROR"]) \in Seq(Frame)
    BY <1>1, <2>2, DeliveredType
  <2>4. thread' \in [Session -> ThreadRecord]
    BY <2>1, <1>1, GotoType DEF Pc
  <2>5. wire' \in [Session -> Connection]
    <3>1. [shut |-> TRUE, inbox |-> <<>>, outbox |-> Delivered(s, [kind |-> "ERROR"])] \in Connection
      BY <2>3, EmptySeq DEF Connection
    <3>2. \/ wire' = wire
          \/ wire' = [wire EXCEPT ![s] =
               [shut |-> TRUE, inbox |-> <<>>, outbox |-> Delivered(s, [kind |-> "ERROR"])]]
      BY <1>2 DEF accept
    <3> QED BY <1>1, <3>1, <3>2
  <2>6. worker' \in [Session -> WorkerRecord] /\ session' \in [Session -> Identity \cup {NoIdentity}]
    BY <1>1, <1>2, <2>1, <2>2, <2>3 DEF accept, WorkerRecord, Present, Deaf, clients, sessions, Carries, Me, At
  <2>7. Carries(s)'
    BY <1>1, <1>2, <2>1 DEF accept, Goto, ThreadRecord, At, Carries, Busy, clients, sessions
  <2>8. ServerTypeOK'
    BY <1>1, <1>2, <2>1, <2>2, <2>3, <2>4, <2>5, <2>6 DEF accept, ServerTypeOK, registry, window, sessions, control, clients
  <2> QED BY <1>2, <2>1, <2>7, <2>8, StepType DEF accept, Goto, clients, sessions
<1>3. ASSUME LoopTop(s) PROVE TypeInv'
  <2>1. thread' \in [Session -> ThreadRecord]
    BY <1>1, <1>3 DEF LoopTop, Goto, ThreadRecord, At, Pc, Answer, Connection, Accepted, clients, Registered
  <2>2. wire' \in [Session -> Connection]
    BY <1>1, <1>3 DEF LoopTop, Connection, clients
  <2>3. worker' \in [Session -> WorkerRecord] /\ session' \in [Session -> Identity \cup {NoIdentity}]
    BY <1>1, <1>3 DEF LoopTop, WorkerRecord, Present, Deaf, clients, sessions, Carries, Me, At
  <2>4. Carries(s)'
    BY <1>1, <1>3 DEF LoopTop, Goto, ThreadRecord, At, Carries, Busy, Me, Connection, WorkerRecord, clients, sessions, Request, Registration, Mutation, Query
  <2>5. ServerTypeOK'
    BY <1>1, <1>3, <2>1, <2>2, <2>3 DEF LoopTop, ServerTypeOK, registry, window, sessions, control, clients
  <2> QED BY <1>3, <2>4, <2>5, StepType DEF LoopTop, Goto, clients, sessions
<1>4. ASSUME ReadRequest(s) PROVE TypeInv'
  <2>1. Head(wire[s].inbox) \in Request /\ Tail(wire[s].inbox) \in Seq(Request)
    BY <1>1, <1>4, HeadTailProperties DEF ReadRequest
  <2>2. thread' \in [Session -> ThreadRecord]
    BY <1>1, <1>4, <2>1 DEF ReadRequest, Goto, ThreadRecord, At, Pc, Answer, Connection, Accepted, clients, Registered
  <2>3. wire' \in [Session -> Connection]
    BY <1>1, <1>4, <2>1 DEF ReadRequest, Connection, clients
  <2>4. worker' \in [Session -> WorkerRecord] /\ session' \in [Session -> Identity \cup {NoIdentity}]
    BY <1>1, <1>4, <2>1 DEF ReadRequest, WorkerRecord, Present, Deaf, clients, sessions, Carries, Me, At
  <2>5. Carries(s)'
    BY <1>1, <1>4, <2>1 DEF ReadRequest, Goto, ThreadRecord, At, Carries, Busy, Me, Connection, WorkerRecord, clients, sessions, Request, Registration, Mutation, Query
  <2>6. ServerTypeOK'
    BY <1>1, <1>4, <2>1, <2>2, <2>3, <2>4 DEF ReadRequest, ServerTypeOK, registry, window, sessions, control, clients
  <2> QED BY <1>4, <2>1, <2>5, <2>6, StepType DEF ReadRequest, Goto, clients, sessions
<1>5. ASSUME PeerClosed(s) PROVE TypeInv'
  <2>1. thread' \in [Session -> ThreadRecord]
    BY <1>1, <1>5 DEF PeerClosed, Goto, ThreadRecord, At, Pc, Answer, Connection, Accepted, clients, Registered
  <2>2. wire' \in [Session -> Connection]
    BY <1>1, <1>5 DEF PeerClosed, Connection, clients
  <2>3. worker' \in [Session -> WorkerRecord] /\ session' \in [Session -> Identity \cup {NoIdentity}]
    BY <1>1, <1>5 DEF PeerClosed, WorkerRecord, Present, Deaf, clients, sessions, Carries, Me, At
  <2>4. Carries(s)'
    BY <1>1, <1>5 DEF PeerClosed, Goto, ThreadRecord, At, Carries, Busy, Me, Connection, WorkerRecord, clients, sessions, Request, Registration, Mutation, Query
  <2>5. ServerTypeOK'
    BY <1>1, <1>5, <2>1, <2>2, <2>3 DEF PeerClosed, ServerTypeOK, registry, window, sessions, control, clients
  <2> QED BY <1>5, <2>4, <2>5, StepType DEF PeerClosed, Goto, clients, sessions
<1>6. ASSUME ReadTimesOut(s) PROVE TypeInv'
  <2>1. thread' \in [Session -> ThreadRecord]
    BY <1>1, <1>6 DEF ReadTimesOut, Goto, ThreadRecord, At, Pc, Answer, Connection, Accepted, clients, Registered
  <2>2. wire' \in [Session -> Connection]
    BY <1>1, <1>6 DEF ReadTimesOut, Connection, clients
  <2>3. worker' \in [Session -> WorkerRecord] /\ session' \in [Session -> Identity \cup {NoIdentity}]
    BY <1>1, <1>6 DEF ReadTimesOut, WorkerRecord, Present, Deaf, clients, sessions, Carries, Me, At
  <2>4. Carries(s)'
    BY <1>1, <1>6 DEF ReadTimesOut, Goto, ThreadRecord, At, Carries, Busy, Me, Connection, WorkerRecord, clients, sessions, Request, Registration, Mutation, Query
  <2>5. ServerTypeOK'
    BY <1>1, <1>6, <2>1, <2>2, <2>3 DEF ReadTimesOut, ServerTypeOK, registry, window, sessions, control, clients
  <2> QED BY <1>6, <2>4, <2>5, StepType DEF ReadTimesOut, Goto, clients, sessions
<1>7. ASSUME CheckLimit(s) PROVE TypeInv'
  <2>1. thread' \in [Session -> ThreadRecord]
    BY <1>1, <1>7 DEF CheckLimit, Goto, ThreadRecord, At, Pc, Answer, Connection, Accepted, clients, Registered
  <2>2. wire' \in [Session -> Connection]
    BY <1>1, <1>7 DEF CheckLimit, Connection, clients
  <2>3. worker' \in [Session -> WorkerRecord] /\ session' \in [Session -> Identity \cup {NoIdentity}]
    BY <1>1, <1>7 DEF CheckLimit, WorkerRecord, Present, Deaf, clients, sessions, Carries, Me, At
  <2>4. Carries(s)'
    BY <1>1, <1>7 DEF CheckLimit, Goto, ThreadRecord, At, Carries, Busy, Me, Connection, WorkerRecord, clients, sessions, Request, Registration, Mutation, Query
  <2>5. ServerTypeOK'
    BY <1>1, <1>7, <2>1, <2>2, <2>3 DEF CheckLimit, ServerTypeOK, registry, window, sessions, control, clients
  <2> QED BY <1>7, <2>4, <2>5, StepType DEF CheckLimit, Goto, clients, sessions
<1>8. ASSUME Read(s) PROVE TypeInv'
  <2>1. thread[s].request \in Query
    BY <1>8 DEF Read
  <2>2. Fits(thread[s].request, "READ")
    BY <2>1 DEF Query, Fits, Frame
  <2>3. thread' \in [Session -> ThreadRecord]
    BY <1>1, <1>8, <2>1, <2>2 DEF Read, Goto, ThreadRecord, At, Pc, Answer, Connection, Accepted, clients, Registered
  <2>4. wire' \in [Session -> Connection]
    BY <1>1, <1>8, <2>1, <2>2 DEF Read, Connection, clients
  <2>5. worker' \in [Session -> WorkerRecord] /\ session' \in [Session -> Identity \cup {NoIdentity}]
    BY <1>1, <1>8, <2>1, <2>2 DEF Read, WorkerRecord, Present, Deaf, clients, sessions, Carries, Me, At
  <2>6. Carries(s)'
    BY <1>1, <1>8, <2>1, <2>2 DEF Read, ThreadRecord, At, Carries, Busy, Request, clients, sessions
  <2>7. ServerTypeOK'
    BY <1>1, <1>8, <2>1, <2>2, <2>3, <2>4, <2>5 DEF Read, ServerTypeOK, registry, window, sessions, control, clients
  <2> QED BY <1>8, <2>1, <2>2, <2>6, <2>7, StepType DEF Read, Goto, clients, sessions
<1>9. ASSUME WriteFails(s) PROVE TypeInv'
  <2>1. thread' \in [Session -> ThreadRecord]
    BY <1>1, <1>9 DEF WriteFails, Goto, ThreadRecord, At, Pc, Answer, Connection, Accepted, clients, Registered
  <2>2. wire' \in [Session -> Connection]
    BY <1>1, <1>9 DEF WriteFails, Connection, clients
  <2>3. worker' \in [Session -> WorkerRecord] /\ session' \in [Session -> Identity \cup {NoIdentity}]
    BY <1>1, <1>9 DEF WriteFails, WorkerRecord, Present, Deaf, clients, sessions, Carries, Me, At
  <2>4. Carries(s)'
    BY <1>1, <1>9 DEF WriteFails, Goto, ThreadRecord, At, Carries, Busy, Me, Connection, WorkerRecord, clients, sessions, Request, Registration, Mutation, Query
  <2>5. ServerTypeOK'
    BY <1>1, <1>9, <2>1, <2>2, <2>3 DEF WriteFails, ServerTypeOK, registry, window, sessions, control, clients
  <2> QED BY <1>9, <2>4, <2>5, StepType DEF WriteFails, Goto, clients, sessions
<1>10. ASSUME Reply(s) PROVE TypeInv'
  <2>1. thread[s].pc = "REPLY"
    BY <1>10 DEF Reply, At
  <2>2. [kind |-> thread[s].request.kind, answer |-> thread[s].answer] \in Frame
    BY <1>1, <2>1 DEF Carries, Fits
  <2>3. Delivered(s, [kind |-> thread[s].request.kind, answer |-> thread[s].answer]) \in Seq(Frame)
    BY <1>1, <2>2, DeliveredType
  <2>4. thread' \in [Session -> ThreadRecord]
    BY <1>1, <1>10, <2>1, <2>2, <2>3 DEF Reply, Goto, ThreadRecord, At, Pc, Answer, Connection, Accepted, clients, Registered
  <2>5. wire' \in [Session -> Connection]
    BY <1>1, <1>10, <2>1, <2>2, <2>3 DEF Reply, Connection, clients
  <2>6. worker' \in [Session -> WorkerRecord] /\ session' \in [Session -> Identity \cup {NoIdentity}]
    BY <1>1, <1>10, <2>1, <2>2, <2>3 DEF Reply, WorkerRecord, Present, Deaf, clients, sessions, Carries, Me, At
  <2>7. Carries(s)'
    BY <1>1, <1>10, <2>1, <2>2, <2>3 DEF Reply, Goto, ThreadRecord, At, Carries, Busy, Me, Connection, WorkerRecord, clients, sessions, Request, Registration, Mutation, Query
  <2>8. ServerTypeOK'
    BY <1>1, <1>10, <2>1, <2>2, <2>3, <2>4, <2>5, <2>6 DEF Reply, ServerTypeOK, registry, window, sessions, control, clients
  <2> QED BY <1>10, <2>1, <2>2, <2>3, <2>7, <2>8, StepType DEF Reply, Goto, clients, sessions
<1>11. ASSUME AfterReply(s) PROVE TypeInv'
  <2>1. thread' \in [Session -> ThreadRecord]
    BY <1>1, <1>11 DEF AfterReply, Goto, ThreadRecord, At, Pc, Answer, Connection, Accepted, clients, Registered
  <2>2. wire' \in [Session -> Connection]
    BY <1>1, <1>11 DEF AfterReply, Connection, clients
  <2>3. worker' \in [Session -> WorkerRecord] /\ session' \in [Session -> Identity \cup {NoIdentity}]
    BY <1>1, <1>11 DEF AfterReply, WorkerRecord, Present, Deaf, clients, sessions, Carries, Me, At
  <2>4. Carries(s)'
    BY <1>1, <1>11 DEF AfterReply, Goto, ThreadRecord, At, Carries, Busy, Me, Connection, WorkerRecord, clients, sessions, Request, Registration, Mutation, Query
  <2>5. ServerTypeOK'
    BY <1>1, <1>11, <2>1, <2>2, <2>3 DEF AfterReply, ServerTypeOK, registry, window, sessions, control, clients
  <2> QED BY <1>11, <2>4, <2>5, StepType DEF AfterReply, Goto, clients, sessions
<1>12. ASSUME Reject(s) PROVE TypeInv'
  <2>1. [kind |-> "ERROR"] \in Frame
    BY DEF Frame
  <2>2. Delivered(s, [kind |-> "ERROR"]) \in Seq(Frame)
    BY <1>1, <2>1, DeliveredType
  <2>3. thread' \in [Session -> ThreadRecord]
    BY <1>1, <1>12, <2>1, <2>2 DEF Reject, Goto, ThreadRecord, At, Pc, Answer, Connection, Accepted, clients, Registered
  <2>4. wire' \in [Session -> Connection]
    BY <1>1, <1>12, <2>1, <2>2 DEF Reject, Connection, clients
  <2>5. worker' \in [Session -> WorkerRecord] /\ session' \in [Session -> Identity \cup {NoIdentity}]
    BY <1>1, <1>12, <2>1, <2>2 DEF Reject, WorkerRecord, Present, Deaf, clients, sessions, Carries, Me, At
  <2>6. Carries(s)'
    BY <1>1, <1>12, <2>1, <2>2 DEF Reject, Goto, ThreadRecord, At, Carries, Busy, Me, Connection, WorkerRecord, clients, sessions, Request, Registration, Mutation, Query
  <2>7. ServerTypeOK'
    BY <1>1, <1>12, <2>1, <2>2, <2>3, <2>4, <2>5 DEF Reject, ServerTypeOK, registry, window, sessions, control, clients
  <2> QED BY <1>12, <2>1, <2>2, <2>6, <2>7, StepType DEF Reject, Goto, clients, sessions
<1> QED BY <1>2, <1>3, <1>4, <1>5, <1>6, <1>7, <1>8, <1>9, <1>10, <1>11, <1>12

\* A registration.
LEMMA RegisterType ==
  ASSUME TypeInv, NEW s \in Session
  PROVE  /\ RegisterPublisher(s) => TypeInv'
         /\ EnterMap(s) => TypeInv'
         /\ WriteFields(s) => TypeInv'
         /\ FencePrevious(s) => TypeInv'
<1>1. /\ thread \in [Session -> ThreadRecord] /\ thread[s] \in ThreadRecord
      /\ wire \in [Session -> Connection] /\ wire[s] \in Connection
      /\ worker \in [Session -> WorkerRecord] /\ worker[s] \in WorkerRecord
      /\ wire[s].inbox \in Seq(Request) /\ wire[s].outbox \in Seq(Frame)
      /\ session \in [Session -> Identity \cup {NoIdentity}]
      /\ Carries(s) /\ ServerTypeOK
  BY Types
<1>2. ASSUME RegisterPublisher(s) PROVE TypeInv'
  <2>1. \E pc \in {"MAP", "REPLY"}, answer \in {"REGISTERED", "REFUSED"} :
          /\ thread' = [thread EXCEPT ![s] = [@ EXCEPT !.pc = pc, !.answer = answer]]
          /\ pc = "MAP" => answer = "REGISTERED"
          /\ Fits(thread[s].request, answer)
    <3>1. thread[s].request \in Registration
      BY <1>2 DEF RegisterPublisher
    <3>2. Fits(thread[s].request, "REGISTERED") /\ Fits(thread[s].request, "REFUSED")
      BY <3>1 DEF Registration, Fits, Frame
    <3> QED BY <1>2, <3>2 DEF RegisterPublisher
  <2>2. /\ thread[s].pc = "HANDLE" /\ thread[s].request \in Registration
        /\ UNCHANGED <<worker, session, wire>>
    BY <1>2 DEF RegisterPublisher, At, clients, sessions
  <2>3. /\ publishers' \in [Publisher -> Boot \cup {NoBoot}]
        /\ fenced_boots' \subseteq Boot
    <3>1. Me(s) \in Identity
      BY <1>1, <2>2 DEF Carries, Me
    <3>2. Me(s).publisher \in Publisher /\ Me(s).boot \in Boot
      BY <3>1 DEF Identity
    <3>3. publishers[Me(s).publisher] \in Boot \cup {NoBoot}
      BY <1>1, <3>2 DEF ServerTypeOK
    <3>4. CASE CanRegister(Me(s))
      <4>1. /\ publishers' = [publishers EXCEPT ![Me(s).publisher] = Me(s).boot]
            /\ fenced_boots' = fenced_boots \cup
                                 ({publishers[Me(s).publisher]} \ {NoBoot, Me(s).boot})
        BY <1>2, <3>4 DEF RegisterPublisher
      <4>2. publishers \in [Publisher -> Boot \cup {NoBoot}] /\ fenced_boots \subseteq Boot
        BY <1>1 DEF ServerTypeOK
      <4> HIDE DEF Me
      <4> QED BY <3>2, <3>3, <4>1, <4>2
    <3>5. CASE ~CanRegister(Me(s))
      BY <1>1, <1>2, <3>5 DEF RegisterPublisher, ServerTypeOK, registry
    <3> QED BY <3>4, <3>5
  <2>4. thread' \in [Session -> ThreadRecord]
    <3>1. PICK pc \in {"MAP", "REPLY"}, answer \in {"REGISTERED", "REFUSED"} :
            thread' = [thread EXCEPT ![s] = [@ EXCEPT !.pc = pc, !.answer = answer]]
      BY <2>1
    <3>2. [thread[s] EXCEPT !.pc = pc, !.answer = answer] \in ThreadRecord
      BY <1>1 DEF ThreadRecord, Pc, Answer
    <3> QED BY <1>1, <3>1, <3>2
  <2>5. wire' \in [Session -> Connection]
    BY <1>1, <2>2
  <2>6. worker' \in [Session -> WorkerRecord] /\ session' \in [Session -> Identity \cup {NoIdentity}]
    BY <1>1, <2>2
  <2>7. Carries(s)'
    BY <1>1, <2>1, <2>2 DEF ThreadRecord, Carries, Busy, Request
  <2>8. ServerTypeOK'
    BY <1>1, <1>2, <2>1, <2>2, <2>3, <2>4, <2>5, <2>6 DEF RegisterPublisher, ServerTypeOK, registry, window, sessions, control, clients
  <2> QED BY <2>1, <2>2, <2>7, <2>8, StepType
<1>3. ASSUME EnterMap(s) PROVE TypeInv'
  <2>1. Me(s) \in Identity /\ Me(s).publisher \in Publisher
    BY <1>1, <1>3 DEF EnterMap, At, Carries, Me, Identity
  <2>2. by_publisher[Me(s).publisher] \in Session \cup {NoSession}
    BY <1>1, <2>1 DEF ServerTypeOK
  <2>3. thread' \in [Session -> ThreadRecord]
    BY <1>1, <1>3, <2>1, <2>2 DEF EnterMap, Goto, ThreadRecord, At, Pc, Answer, Connection, Accepted, clients, Registered
  <2>4. wire' \in [Session -> Connection]
    BY <1>1, <1>3, <2>1, <2>2 DEF EnterMap, Connection, clients
  <2>5. worker' \in [Session -> WorkerRecord] /\ session' \in [Session -> Identity \cup {NoIdentity}]
    BY <1>1, <1>3, <2>1, <2>2 DEF EnterMap, WorkerRecord, Present, Deaf, clients, sessions, Carries, Me, At
  <2>6. Carries(s)'
    BY <1>1, <1>3, <2>1, <2>2 DEF EnterMap, Goto, ThreadRecord, At, Carries, Busy, Me, Connection, WorkerRecord, clients, sessions, Request, Registration, Mutation, Query
  <2>7. ServerTypeOK'
    BY <1>1, <1>3, <2>1, <2>2, <2>3, <2>4, <2>5 DEF EnterMap, ServerTypeOK, registry, window, sessions, control, clients
  <2> QED BY <1>3, <2>1, <2>2, <2>6, <2>7, StepType DEF EnterMap, Goto, clients, sessions
<1>4. ASSUME WriteFields(s) PROVE TypeInv'
  <2>1. thread[s].request \in Registration /\ thread[s].answer = "REGISTERED"
    BY <1>1, <1>4 DEF WriteFields, At, Carries
  <2>2. Fits(thread[s].request, thread[s].answer)
    BY <2>1 DEF Registration, Fits, Frame
  <2>3. thread' \in [Session -> ThreadRecord]
    BY <1>1, <1>4, <2>1, <2>2 DEF WriteFields, Goto, ThreadRecord, At, Pc, Answer, Connection, Accepted, clients, Registered
  <2>4. wire' \in [Session -> Connection]
    BY <1>1, <1>4, <2>1, <2>2 DEF WriteFields, Connection, clients
  <2>5. worker' \in [Session -> WorkerRecord] /\ session' \in [Session -> Identity \cup {NoIdentity}]
    BY <1>1, <1>4, <2>1, <2>2 DEF WriteFields, WorkerRecord, Present, Deaf, clients, sessions, Carries, Me, At
  <2>6. Carries(s)'
    BY <1>1, <1>4, <2>1, <2>2 DEF WriteFields, Goto, ThreadRecord, At, Carries, Busy, Me, Connection, WorkerRecord, clients, sessions, Request, Registration, Mutation, Query
  <2>7. ServerTypeOK'
    BY <1>1, <1>4, <2>1, <2>2, <2>3, <2>4, <2>5 DEF WriteFields, ServerTypeOK, registry, window, sessions, control, clients
  <2> QED BY <1>4, <2>1, <2>2, <2>6, <2>7, StepType DEF WriteFields, Goto, clients, sessions
<1>5. ASSUME FencePrevious(s) PROVE TypeInv'
  <2>1. thread[s].previous \in Session /\ Fits(thread[s].request, thread[s].answer)
    <3>1. /\ thread[s].previous \in Session
          /\ thread[s].request \in Registration /\ thread[s].answer = "REGISTERED"
      BY <1>1, <1>5 DEF FencePrevious, At, Carries
    <3> QED BY <3>1 DEF Registration, Fits, Frame
  <2>2. [kind |-> "FENCE_NOTICE"] \in Frame
    BY DEF Frame
  <2>3. /\ Delivered(thread[s].previous, [kind |-> "FENCE_NOTICE"]) \in Seq(Frame)
        /\ wire[thread[s].previous] \in Connection
    BY <1>1, <2>1, <2>2, DeliveredType
  <2>4. thread' \in [Session -> ThreadRecord]
    BY <1>1, <1>5, <2>1, <2>2, <2>3 DEF FencePrevious, Goto, ThreadRecord, At, Pc, Answer, Connection, Accepted, clients, Registered
  <2>5. wire' \in [Session -> Connection]
    BY <1>1, <1>5, <2>1, <2>2, <2>3 DEF FencePrevious, Connection, clients
  <2>6. worker' \in [Session -> WorkerRecord] /\ session' \in [Session -> Identity \cup {NoIdentity}]
    BY <1>1, <1>5, <2>1, <2>2, <2>3 DEF FencePrevious, WorkerRecord, Present, Deaf, clients, sessions, Carries, Me, At
  <2>7. Carries(s)'
    BY <1>1, <1>5, <2>1, <2>2, <2>3 DEF FencePrevious, Goto, ThreadRecord, At, Carries, Busy, Me, Connection, WorkerRecord, clients, sessions, Request, Registration, Mutation, Query
  <2>8. ServerTypeOK'
    BY <1>1, <1>5, <2>1, <2>2, <2>3, <2>4, <2>5, <2>6 DEF FencePrevious, ServerTypeOK, registry, window, sessions, control, clients
  <2> QED BY <1>5, <2>1, <2>2, <2>3, <2>7, <2>8, StepType DEF FencePrevious, Goto, clients, sessions
<1> QED BY <1>2, <1>3, <1>4, <1>5

\* The window stays a sequence of at most Window entries.
LEMMA RememberType ==
  ASSUME NEW order \in Seq(Remembrance), Len(order) <= Window, NEW r \in Mutation
  PROVE  /\ remember_attempt(order, r) \in Seq(Remembrance)
         /\ Len(remember_attempt(order, r)) <= Window
<1> DEFINE entry  == [attempt |-> r.attempt, payload |-> r.payload]
           longer == Append(order, entry)
<1>1. entry \in Remembrance
  BY DEF Mutation, Remembrance
<1>2. longer \in Seq(Remembrance) /\ longer # <<>> /\ Len(longer) = Len(order) + 1
  BY <1>1, AppendProperties
<1>3. Tail(longer) \in Seq(Remembrance) /\ Len(Tail(longer)) = Len(order)
  BY <1>2, HeadTailProperties
<1> QED BY <1>2, <1>3, ServerAssumption DEF remember_attempt

\* A mutation.
LEMMA MutateType ==
  ASSUME TypeInv, NEW s \in Session
  PROVE  /\ CaptureAuthority(s) => TypeInv'
         /\ Mutate(s) => TypeInv'
<1>1. /\ thread \in [Session -> ThreadRecord] /\ thread[s] \in ThreadRecord
      /\ wire \in [Session -> Connection] /\ wire[s] \in Connection
      /\ worker \in [Session -> WorkerRecord] /\ worker[s] \in WorkerRecord
      /\ wire[s].inbox \in Seq(Request) /\ wire[s].outbox \in Seq(Frame)
      /\ session \in [Session -> Identity \cup {NoIdentity}]
      /\ Carries(s) /\ ServerTypeOK
  BY Types
<1>2. ASSUME CaptureAuthority(s) PROVE TypeInv'
  <2>1. thread' \in [Session -> ThreadRecord]
    BY <1>1, <1>2 DEF CaptureAuthority, Goto, ThreadRecord, At, Pc, Answer, Connection, Accepted, clients, Registered
  <2>2. wire' \in [Session -> Connection]
    BY <1>1, <1>2 DEF CaptureAuthority, Connection, clients
  <2>3. worker' \in [Session -> WorkerRecord] /\ session' \in [Session -> Identity \cup {NoIdentity}]
    BY <1>1, <1>2 DEF CaptureAuthority, WorkerRecord, Present, Deaf, clients, sessions, Carries, Me, At
  <2>4. Carries(s)'
    BY <1>1, <1>2 DEF CaptureAuthority, Goto, ThreadRecord, At, Carries, Busy, Me, Connection, WorkerRecord, clients, sessions, Request, Registration, Mutation, Query
  <2>5. ServerTypeOK'
    BY <1>1, <1>2, <2>1, <2>2, <2>3 DEF CaptureAuthority, ServerTypeOK, registry, window, sessions, control, clients
  <2> QED BY <1>2, <2>4, <2>5, StepType DEF CaptureAuthority, Goto, clients, sessions
<1>3. ASSUME Mutate(s) PROVE TypeInv'
  <2>1. \E answer \in Accepted \cup {"REFUSED"} :
          thread' = [thread EXCEPT ![s] = [@ EXCEPT !.pc = "REPLY", !.answer = answer]]
    BY <1>3 DEF Mutate, Accepted
  <2>2. /\ thread[s].pc = "LOCK" /\ thread[s].request \in Mutation
        /\ worker[s].identity \in Identity /\ UNCHANGED <<worker, session, wire>>
        /\ \A answer \in Accepted \cup {"REFUSED"} : Fits(thread[s].request, answer)
    BY <1>1, <1>3 DEF Mutate, At, Carries, clients, sessions, Mutation, Fits, Frame
  <2>3. /\ attempt_order' \in Seq(Remembrance) /\ Len(attempt_order') <= Window
        /\ applied' \in Seq(Acceptance)
    <3>1. attempt_order \in Seq(Remembrance) /\ applied \in Seq(Acceptance) /\ Len(attempt_order) <= Window
      BY <1>1 DEF ServerTypeOK
    <3>2. CASE UNCHANGED window
      BY <3>1, <3>2 DEF window
    <3>3. CASE /\ applied' = Append(applied, [attempt |-> thread[s].request.attempt,
                                             payload |-> thread[s].request.payload,
                                             publisher |-> Me(s).publisher, boot |-> Me(s).boot])
               /\ attempt_order' = remember_attempt(attempt_order, thread[s].request)
      <4>1. [attempt |-> thread[s].request.attempt, payload |-> thread[s].request.payload,
             publisher |-> Me(s).publisher, boot |-> Me(s).boot] \in Acceptance
        BY <2>2 DEF Me, Identity, Mutation, Acceptance
      <4> QED BY <2>2, <3>1, <3>3, <4>1, RememberType
    <3> QED BY <1>3, <3>2, <3>3 DEF Mutate
  <2>4. thread' \in [Session -> ThreadRecord]
    <3>1. PICK answer \in Accepted \cup {"REFUSED"} :
            thread' = [thread EXCEPT ![s] = [@ EXCEPT !.pc = "REPLY", !.answer = answer]]
      BY <2>1
    <3>2. [thread[s] EXCEPT !.pc = "REPLY", !.answer = answer] \in ThreadRecord
      BY <1>1 DEF ThreadRecord, Pc, Answer
    <3> QED BY <1>1, <3>1, <3>2
  <2>5. wire' \in [Session -> Connection]
    BY <1>1, <2>2
  <2>6. worker' \in [Session -> WorkerRecord] /\ session' \in [Session -> Identity \cup {NoIdentity}]
    BY <1>1, <2>2
  <2>7. Carries(s)'
    BY <1>1, <2>1, <2>2 DEF ThreadRecord, Carries, Busy, Request
  <2>8. ServerTypeOK'
    BY <1>1, <1>3, <2>2, <2>3, <2>4, <2>5, <2>6 DEF Mutate, ServerTypeOK, registry, sessions, control, clients
  <2> QED BY <2>1, <2>2, <2>7, <2>8, StepType
<1> QED BY <1>2, <1>3

\* The end of a session.
LEMMA EndType ==
  ASSUME TypeInv, NEW s \in Session
  PROVE  /\ FenceOwn(s) => TypeInv'
         /\ Close(s) => TypeInv'
<1>1. /\ thread \in [Session -> ThreadRecord] /\ thread[s] \in ThreadRecord
      /\ wire \in [Session -> Connection] /\ wire[s] \in Connection
      /\ worker \in [Session -> WorkerRecord] /\ worker[s] \in WorkerRecord
      /\ wire[s].inbox \in Seq(Request) /\ wire[s].outbox \in Seq(Frame)
      /\ session \in [Session -> Identity \cup {NoIdentity}]
      /\ Carries(s) /\ ServerTypeOK
  BY Types
<1>2. ASSUME FenceOwn(s) PROVE TypeInv'
  <2>1. /\ publishers' \in [Publisher -> Boot \cup {NoBoot}]
        /\ fenced_boots' \subseteq Boot
    <3>1. publishers \in [Publisher -> Boot \cup {NoBoot}] /\ fenced_boots \subseteq Boot
      BY <1>1 DEF ServerTypeOK
    <3>2. CASE UNCHANGED registry
      BY <3>1, <3>2 DEF registry
    <3>3. CASE session[s] # NoIdentity /\ Registered(session[s])
      <4>1. session[s] \in Identity
        BY <1>1, <3>3
      <4>2. session[s].publisher \in Publisher /\ session[s].boot \in Boot
        BY <4>1 DEF Identity
      <4> QED BY <1>2, <3>1, <3>3, <4>2 DEF FenceOwn, fence_publisher
    <3> QED BY <1>2, <3>2, <3>3 DEF FenceOwn, fence_publisher
  <2>2. thread' \in [Session -> ThreadRecord]
    BY <1>1, <1>2, <2>1 DEF FenceOwn, Goto, ThreadRecord, At, Pc, Answer, Connection, Accepted, clients, Registered
  <2>3. wire' \in [Session -> Connection]
    BY <1>1, <1>2, <2>1 DEF FenceOwn, Connection, clients
  <2>4. worker' \in [Session -> WorkerRecord] /\ session' \in [Session -> Identity \cup {NoIdentity}]
    BY <1>1, <1>2, <2>1 DEF FenceOwn, WorkerRecord, Present, Deaf, clients, sessions, Carries, Me, At
  <2>5. Carries(s)'
    BY <1>1, <1>2, <2>1 DEF FenceOwn, Goto, ThreadRecord, At, Carries, Busy, Me, Connection, WorkerRecord, clients, sessions, Request, Registration, Mutation, Query
  <2>6. ServerTypeOK'
    BY <1>1, <1>2, <2>1, <2>2, <2>3, <2>4 DEF FenceOwn, ServerTypeOK, registry, window, sessions, control, clients
  <2> QED BY <1>2, <2>1, <2>5, <2>6, StepType DEF FenceOwn, Goto, clients, sessions
<1>3. ASSUME Close(s) PROVE TypeInv'
  <2>1. thread' \in [Session -> ThreadRecord]
    BY <1>1, <1>3 DEF Close, Goto, ThreadRecord, At, Pc, Answer, Connection, Accepted, clients, Registered
  <2>2. wire' \in [Session -> Connection]
    BY <1>1, <1>3, EmptySeq DEF Close, Connection
  <2>3. worker' \in [Session -> WorkerRecord] /\ session' \in [Session -> Identity \cup {NoIdentity}]
    BY <1>1, <1>3 DEF Close, WorkerRecord, Present, Deaf, clients, sessions, Carries, Me, At
  <2>4. Carries(s)'
    BY <1>1, <1>3 DEF Close, Goto, ThreadRecord, At, Carries, Busy, Me, Connection, WorkerRecord, clients, sessions, Request, Registration, Mutation, Query
  <2>5. ServerTypeOK'
    BY <1>1, <1>3, <2>1, <2>2, <2>3 DEF Close, ServerTypeOK, registry, window, sessions, control, clients
  <2> QED BY <1>3, <2>4, <2>5, StepType DEF Close, Goto, clients, sessions
<1> QED BY <1>2, <1>3

\* A worker.
LEMMA WorkerType ==
  ASSUME TypeInv, NEW s \in Session
  PROVE  /\ Receive(s) => TypeInv'
         /\ Leave(s) => TypeInv'
         /\ FallSilent(s) => TypeInv'
<1>1. /\ thread \in [Session -> ThreadRecord] /\ thread[s] \in ThreadRecord
      /\ wire \in [Session -> Connection] /\ wire[s] \in Connection
      /\ worker \in [Session -> WorkerRecord] /\ worker[s] \in WorkerRecord
      /\ wire[s].inbox \in Seq(Request) /\ wire[s].outbox \in Seq(Frame)
      /\ session \in [Session -> Identity \cup {NoIdentity}]
      /\ Carries(s) /\ ServerTypeOK
  BY Types
<1>2. ASSUME Receive(s) PROVE TypeInv'
  <2>1. Tail(wire[s].outbox) \in Seq(Frame)
    BY <1>1, <1>2, HeadTailProperties DEF Receive
  <2>2. /\ worker[s].state = "WAITING" /\ worker[s].asked \in Request
        /\ \E next \in {"GREETED", "READY", "GONE"} :
             worker' = [worker EXCEPT ![s] = [@ EXCEPT !.state = next, !.asked = NoRequest]]
    <3>1. worker[s].state = "WAITING" /\ worker[s].asked \in Request
      BY <1>1, <1>2 DEF Receive, Carries
    <3>2. \/ worker[s].asked \in Query \/ worker[s].asked \in Registration
          \/ worker[s].asked \in Mutation
      BY <3>1 DEF Request
    <3> QED BY <1>2, <3>1, <3>2 DEF Receive, Query, Registration, Mutation
  <2>3. told' \subseteq Mutation /\ UNCHANGED <<session, thread>>
    <3>1. Head(wire[s].outbox) \in Frame
      BY <1>1, <1>2, HeadTailProperties DEF Receive
    <3>2. Head(wire[s].outbox).kind = worker[s].asked.kind /\ Head(wire[s].outbox).answer \in Accepted
            => worker[s].asked \in Mutation
      BY <2>2, <3>1 DEF Frame, Accepted, Request, Registration, Mutation, Query
    <3> QED BY <1>1, <1>2, <3>2 DEF Receive, sessions, ServerTypeOK
  <2>4. thread' \in [Session -> ThreadRecord]
    BY <1>1, <1>2, <2>1, <2>2, <2>3 DEF Receive, Goto, ThreadRecord, At, Pc, Answer, Connection, Accepted, clients, Registered
  <2>5. wire' \in [Session -> Connection]
    BY <1>1, <1>2, <2>1, <2>2, <2>3 DEF Receive, Connection, clients
  <2>6. worker' \in [Session -> WorkerRecord] /\ session' \in [Session -> Identity \cup {NoIdentity}]
    <3>1. PICK next \in {"GREETED", "READY", "GONE"} :
            worker' = [worker EXCEPT ![s] = [@ EXCEPT !.state = next, !.asked = NoRequest]]
      BY <2>2
    <3>2. [worker[s] EXCEPT !.state = next, !.asked = NoRequest] \in WorkerRecord
      BY <1>1 DEF WorkerRecord, Present, Deaf
    <3> QED BY <1>1, <2>3, <3>1, <3>2
  <2>7. Carries(s)'
    BY <1>1, <2>2, <2>3 DEF Carries, WorkerRecord
  <2>8. ServerTypeOK'
    BY <1>1, <1>2, <2>1, <2>2, <2>3, <2>4, <2>5, <2>6 DEF Receive, ServerTypeOK, registry, window, sessions, control, clients
  <2> QED BY <2>2, <2>3, <2>7, <2>8, StepType
<1>3. ASSUME Leave(s) PROVE TypeInv'
  <2>1. thread' \in [Session -> ThreadRecord]
    BY <1>1, <1>3 DEF Leave, Goto, ThreadRecord, At, Pc, Answer, Connection, Accepted, clients, Registered
  <2>2. wire' \in [Session -> Connection]
    BY <1>1, <1>3, EmptySeq DEF Leave, Connection
  <2>3. worker' \in [Session -> WorkerRecord] /\ session' \in [Session -> Identity \cup {NoIdentity}]
    BY <1>1, <1>3 DEF Leave, WorkerRecord, Present, Deaf, clients, sessions, Carries, Me, At
  <2>4. Carries(s)'
    BY <1>1, <1>3 DEF Leave, Carries, WorkerRecord, sessions, Present, Deaf
  <2>5. ServerTypeOK'
    BY <1>1, <1>3, <2>1, <2>2, <2>3 DEF Leave, ServerTypeOK, registry, window, sessions, control, clients
  <2> QED BY <1>3, <2>4, <2>5, StepType DEF Leave, Goto, clients, sessions
<1>4. ASSUME FallSilent(s) PROVE TypeInv'
  <2>1. thread' \in [Session -> ThreadRecord]
    BY <1>1, <1>4 DEF FallSilent, Goto, ThreadRecord, At, Pc, Answer, Connection, Accepted, clients, Registered
  <2>2. wire' \in [Session -> Connection]
    BY <1>1, <1>4, EmptySeq DEF FallSilent, Connection
  <2>3. worker' \in [Session -> WorkerRecord] /\ session' \in [Session -> Identity \cup {NoIdentity}]
    BY <1>1, <1>4 DEF FallSilent, WorkerRecord, Present, Deaf, clients, sessions, Carries, Me, At
  <2>4. Carries(s)'
    BY <1>1, <1>4 DEF FallSilent, Carries, WorkerRecord, sessions, Present, Deaf
  <2>5. ServerTypeOK'
    BY <1>1, <1>4, <2>1, <2>2, <2>3 DEF FallSilent, ServerTypeOK, registry, window, sessions, control, clients
  <2> QED BY <1>4, <2>4, <2>5, StepType DEF FallSilent, Goto, clients, sessions
<1> QED BY <1>2, <1>3, <1>4

\* A worker that connects, or sends.
LEMMA SendType ==
  ASSUME TypeInv, NEW s \in Session
  PROVE  /\ \A i \in Identity : connect(s, i) => TypeInv'
         /\ \A r \in Request : Send(s, r) => TypeInv'
<1>1. /\ thread \in [Session -> ThreadRecord] /\ thread[s] \in ThreadRecord
      /\ wire \in [Session -> Connection] /\ wire[s] \in Connection
      /\ worker \in [Session -> WorkerRecord] /\ worker[s] \in WorkerRecord
      /\ wire[s].inbox \in Seq(Request)
      /\ Carries(s) /\ ServerTypeOK
  BY Types
<1>2. ASSUME NEW i \in Identity, connect(s, i) PROVE TypeInv'
  <2>1. /\ thread' \in [Session -> ThreadRecord]
        /\ thread'[s] = [thread[s] EXCEPT !.pc = "BACKLOG"]
        /\ \A x \in Session \ {s} : thread'[x] = thread[x]
    BY <1>1, <1>2, GotoType DEF connect, Pc
  <2>2. worker' \in [Session -> WorkerRecord]
    BY <1>1, <1>2 DEF connect, WorkerRecord, Present, Deaf
  <2>3. session[s] = NoIdentity
    BY <1>1, <1>2 DEF connect, Carries, WorkerRecord
  <2>4. Carries(s)'
    BY <1>1, <1>2, <2>1, <2>3 DEF connect, Carries, Busy, ThreadRecord, WorkerRecord, sessions
  <2>5. ServerTypeOK'
    BY <1>1, <1>2, <2>1, <2>2 DEF connect, ServerTypeOK, registry, window, sessions, control
  <2> QED BY <1>2, <2>1, <2>4, <2>5, StepType DEF connect, sessions
<1>3. ASSUME NEW r \in Request, Send(s, r) PROVE TypeInv'
  <2>1. worker[s].state \in {"NEW", "GREETED", "READY"}
    BY <1>3 DEF Send, Request
  <2>2. worker' = [worker EXCEPT ![s] = [@ EXCEPT !.state = "WAITING", !.asked = r]]
    BY <1>3 DEF Send
  <2>3. UNCHANGED <<thread, session>>
    BY <1>3 DEF Send, sessions
  <2>4. worker' \in [Session -> WorkerRecord]
    BY <1>1, <1>3, <2>2 DEF WorkerRecord, Present, Deaf
  <2>5. wire' \in [Session -> Connection]
    <3>1. Append(wire[s].inbox, r) \in Seq(Request)
      BY <1>1, <1>3, AppendProperties
    <3> QED BY <1>1, <1>3, <3>1 DEF Send, Connection
  <2>6. Carries(s)'
    BY <1>1, <1>3, <2>1, <2>2, <2>3 DEF Carries, WorkerRecord
  <2>7. ServerTypeOK'
    BY <1>1, <1>3, <2>4, <2>5 DEF Send, ServerTypeOK, registry, window, sessions, control
  <2> QED BY <1>3, <2>2, <2>6, <2>7, StepType DEF Send, sessions
<1> QED BY <1>2, <1>3

\* The owner of the server.
LEMMA OwnerType ==
  ASSUME TypeInv
  PROVE  (Stop \/ Join \/ UNCHANGED serverVars) => TypeInv'
<1>1. ServerTypeOK /\ \A s \in Session : Carries(s)
  BY DEF TypeInv
<1>2. ASSUME Stop PROVE TypeInv'
  <2>1. wire' \in [Session -> Connection]
    <3>1. \A s \in Session : wire[s] \in Connection /\ [wire[s] EXCEPT !.shut = TRUE] \in Connection
      BY <1>1 DEF ServerTypeOK, Connection
    <3> QED BY <1>2, <3>1 DEF Stop
  <2>2. ServerTypeOK'
    BY <1>1, <1>2, <2>1 DEF Stop, ServerTypeOK, registry, window, sessions, clients
  <2>3. \A s \in Session : Carries(s)'
    BY <1>1, <1>2 DEF Stop, Carries, clients, sessions
  <2> QED BY <2>2, <2>3 DEF TypeInv
<1>3. ASSUME Join PROVE TypeInv'
  <2>1. ServerTypeOK'
    BY <1>1, <1>3 DEF Join, ServerTypeOK, registry, window, sessions, clients
  <2>2. \A s \in Session : Carries(s)'
    BY <1>1, <1>3 DEF Join, Carries, clients, sessions
  <2> QED BY <2>1, <2>2 DEF TypeInv
<1>4. ASSUME UNCHANGED serverVars PROVE TypeInv'
  <2>1. ServerTypeOK'
    BY <1>1, <1>4 DEF serverVars, ServerTypeOK, registry, window, sessions, clients, control
  <2>2. \A s \in Session : Carries(s)'
    BY <1>1, <1>4 DEF serverVars, Carries, clients, sessions
  <2> QED BY <2>1, <2>2 DEF TypeInv
<1> QED BY <1>2, <1>3, <1>4

\* Every step keeps the types.
LEMMA TypeNext == TypeInv /\ [Next]_serverVars => TypeInv'
<1> SUFFICES ASSUME TypeInv, [Next]_serverVars PROVE TypeInv'
  OBVIOUS
<1>1. ASSUME NEW s \in Session, accept(s) \/ Thread(s) PROVE TypeInv'
  <2>1. CASE accept(s) \/ LoopTop(s) \/ ReadRequest(s) \/ PeerClosed(s) \/ ReadTimesOut(s)
             \/ Reject(s) \/ CheckLimit(s) \/ Read(s) \/ WriteFails(s) \/ Reply(s) \/ AfterReply(s)
    BY <2>1, LoopType
  <2>2. CASE RegisterPublisher(s) \/ EnterMap(s) \/ WriteFields(s) \/ FencePrevious(s)
    BY <2>2, RegisterType
  <2>3. CASE CaptureAuthority(s) \/ Mutate(s)
    BY <2>3, MutateType
  <2>4. CASE FenceOwn(s) \/ Close(s)
    BY <2>4, EndType
  <2> QED BY <1>1, <2>1, <2>2, <2>3, <2>4 DEF Thread
<1>2. ASSUME NEW s \in Session, Worker(s) PROVE TypeInv'
  BY <1>2, SendType, WorkerType DEF Worker
<1>3. CASE Stop \/ Join \/ UNCHANGED serverVars
  BY <1>3, OwnerType
<1> QED BY <1>1, <1>2, <1>3 DEF Next

\* Every variable keeps its type, the window its limit, and every thread carries
\* what its place in the code needs.
THEOREM ServerTypeCorrect == ServerSpec => []ServerTypeOK
<1>1. TypeInv => ServerTypeOK
  BY DEF TypeInv
<1> QED BY TypeInit, TypeNext, <1>1, PTL DEF ServerSpec

\* The types, and what threads carry, hold in every reachable state.
LEMMA TypeInvariant == ServerSpec => []TypeInv
BY TypeInit, TypeNext, PTL DEF ServerSpec

-----------------------------------------------------------------------------
(* No registration is orphaned.                                             *)

\* Who will fence an incarnation goes on to do so, through every step but the
\* fence itself.
LEMMA StaysResponsible ==
  ASSUME TypeInv, NEW t \in Session, NEW i \in Identity, WillFence(t, i),
         NEW s \in Session
  PROVE  /\ accept(s) => WillFence(t, i)'
         /\ Thread(s) => FenceOwn(s) \/ WillFence(t, i)'
         /\ Worker(s) => WillFence(t, i)'
<1> USE DEF Goto, At
<1>1. /\ thread \in [Session -> ThreadRecord] /\ thread[s] \in ThreadRecord
      /\ worker \in [Session -> WorkerRecord] /\ worker[s] \in WorkerRecord
      /\ session \in [Session -> Identity \cup {NoIdentity}]
      /\ Carries(s) /\ Carries(t) /\ i # NoIdentity
  BY Types, ServerAssumption DEF TypeInv, Identity
<1>2. ASSUME accept(s) PROVE WillFence(t, i)'
  <2>1. UNCHANGED <<session, worker>> /\ thread[s].pc = "BACKLOG"
    BY <1>2 DEF accept, sessions, clients
  <2>2. \E pc \in {"ENDED", "TOP"} : thread' = [thread EXCEPT ![s] = [@ EXCEPT !.pc = pc]]
    BY <1>2 DEF accept
  <2> QED BY <1>1, <2>1, <2>2 DEF WillFence, Active, Me, ThreadRecord
<1>3. ASSUME LoopTop(s) \/ PeerClosed(s) \/ CheckLimit(s) \/ WriteFails(s) \/ AfterReply(s)
             \/ ReadTimesOut(s) \/ Reject(s)
      PROVE WillFence(t, i)'
  <2>1. UNCHANGED <<session, worker>>
        /\ thread[s].pc \in {"TOP", "READ", "REJECT", "COUNTED", "REPLY", "AFTER"}
    BY <1>3 DEF LoopTop, PeerClosed, CheckLimit, WriteFails, AfterReply, ReadTimesOut, Reject, sessions, clients
  <2>2. \E pc \in {"TOP", "READ", "REJECT", "HANDLE", "AFTER", "END"} :
          thread' = [thread EXCEPT ![s] = [@ EXCEPT !.pc = pc]]
    BY <1>3 DEF LoopTop, PeerClosed, CheckLimit, WriteFails, AfterReply, ReadTimesOut, Reject
  <2> QED BY <1>1, <2>1, <2>2 DEF WillFence, Active, Me, ThreadRecord
<1>4. ASSUME ReadRequest(s) \/ Reply(s) \/ Read(s) \/ CaptureAuthority(s) PROVE WillFence(t, i)'
  <2>1. UNCHANGED <<session, worker>>
    BY <1>4 DEF ReadRequest, Reply, Read, CaptureAuthority, sessions, clients
  <2>2. /\ \A x \in Session \ {s} : thread'[x] = thread[x]
        /\ thread[s].pc \in {"READ", "REPLY", "HANDLE"}
        /\ thread'[s].pc \in {"COUNTED", "AFTER", "REPLY", "LOCK"}
    <3>1. CASE ReadRequest(s)
      BY <1>1, <3>1 DEF ReadRequest, ThreadRecord
    <3>2. CASE Reply(s)
      BY <1>1, <3>2 DEF Reply, ThreadRecord
    <3>3. CASE Read(s)
      BY <1>1, <3>3 DEF Read, ThreadRecord
    <3>4. CASE CaptureAuthority(s)
      BY <1>1, <3>4 DEF CaptureAuthority, ThreadRecord
    <3> QED BY <1>4, <3>1, <3>2, <3>3, <3>4
  <2> QED BY <1>1, <2>1, <2>2 DEF WillFence, Active, Me
<1>5. ASSUME Mutate(s) PROVE WillFence(t, i)'
  <2>1. UNCHANGED <<session, worker>> /\ thread[s].pc = "LOCK"
    BY <1>5 DEF Mutate, sessions, clients
  <2>2. \E answer : thread' = [thread EXCEPT ![s] = [@ EXCEPT !.pc = "REPLY", !.answer = answer]]
    BY <1>5 DEF Mutate
  <2> QED BY <1>1, <2>1, <2>2 DEF WillFence, Active, Me, ThreadRecord
<1>6. ASSUME RegisterPublisher(s) PROVE WillFence(t, i)'
  <2>1. UNCHANGED <<session, worker>> /\ thread[s].pc = "HANDLE"
    BY <1>6 DEF RegisterPublisher, sessions, clients
  <2>2. \E pc \in {"MAP", "REPLY"} : \E answer :
          thread' = [thread EXCEPT ![s] = [@ EXCEPT !.pc = pc, !.answer = answer]]
    BY <1>6 DEF RegisterPublisher
  <2> QED BY <1>1, <2>1, <2>2 DEF WillFence, Active, Me, ThreadRecord
<1>7. ASSUME EnterMap(s) \/ FencePrevious(s) PROVE WillFence(t, i)'
  <2>1. UNCHANGED <<session, worker>>
    BY <1>7 DEF EnterMap, FencePrevious, sessions, clients
  <2>2. /\ \A x \in Session \ {s} : thread'[x] = thread[x]
        /\ \/ thread[s].pc = "MAP" /\ thread'[s].pc = "FIELDS"
           \/ thread[s].pc = "FENCE" /\ thread'[s].pc = "REPLY"
    <3>1. CASE EnterMap(s)
      BY <1>1, <3>1 DEF EnterMap, ThreadRecord
    <3>2. CASE FencePrevious(s)
      BY <1>1, <3>2 DEF FencePrevious, ThreadRecord
    <3> QED BY <1>7, <3>1, <3>2
  <2> QED BY <1>1, <2>1, <2>2 DEF WillFence, Active, Me
<1>8. ASSUME WriteFields(s) PROVE WillFence(t, i)'
  <2>1. /\ session' = [session EXCEPT ![s] = Me(s)] /\ UNCHANGED worker
        /\ thread[s].pc = "FIELDS"
    BY <1>8 DEF WriteFields, clients
  <2>2. \E pc \in {"REPLY", "FENCE"} : thread' = [thread EXCEPT ![s] = [@ EXCEPT !.pc = pc]]
    BY <1>8 DEF WriteFields
  <2> QED BY <1>1, <2>1, <2>2 DEF WillFence, Active, Me, ThreadRecord, Carries
<1>9. ASSUME Close(s) PROVE WillFence(t, i)'
  <2>1. UNCHANGED <<session, worker>> /\ thread[s].pc = "ERASE"
    BY <1>9 DEF Close, clients
  <2>2. \A x \in Session \ {s} : thread'[x] = thread[x]
    BY <1>1, <1>9 DEF Close
  <2> QED BY <1>1, <2>1, <2>2 DEF WillFence, Active, Me
<1>10. ASSUME Worker(s) PROVE WillFence(t, i)'
  <2>1. ASSUME NEW j \in Identity, connect(s, j) PROVE WillFence(t, i)'
    <3>1. /\ thread[s].pc = "NONE" /\ UNCHANGED session
          /\ thread' = [thread EXCEPT ![s] = [@ EXCEPT !.pc = "BACKLOG"]]
          /\ \A x \in Session \ {s} : worker'[x] = worker[x]
      BY <1>1, <2>1 DEF connect, sessions, Carries
    <3> QED BY <1>1, <3>1 DEF WillFence, Active, Me, ThreadRecord
  <2>2. ASSUME (\E r \in Request : Send(s, r)) \/ Receive(s) \/ Leave(s) \/ FallSilent(s)
        PROVE  WillFence(t, i)'
    <3>1. UNCHANGED <<thread, session>>
      BY <2>2 DEF Send, Receive, Leave, FallSilent, sessions
    <3>2. \A x \in Session : worker'[x].identity = worker[x].identity
      <4>1. ASSUME NEW r, Send(s, r) PROVE \A x \in Session : worker'[x].identity = worker[x].identity
        <5>1. worker' = [worker EXCEPT ![s] = [@ EXCEPT !.state = "WAITING", !.asked = r]]
          BY <4>1 DEF Send
        <5> QED BY <1>1, <5>1 DEF WorkerRecord
      <4>2. ASSUME Receive(s) PROVE \A x \in Session : worker'[x].identity = worker[x].identity
        <5>1. \E next : worker' = [worker EXCEPT ![s] = [@ EXCEPT !.state = next, !.asked = NoRequest]]
          BY <4>2 DEF Receive
        <5> QED BY <1>1, <5>1 DEF WorkerRecord
      <4>3. ASSUME Leave(s) PROVE \A x \in Session : worker'[x].identity = worker[x].identity
        BY <1>1, <4>3 DEF Leave, WorkerRecord
      <4>4. ASSUME FallSilent(s) PROVE \A x \in Session : worker'[x].identity = worker[x].identity
        BY <1>1, <4>4 DEF FallSilent, WorkerRecord
      <4> QED BY <2>2, <4>1, <4>2, <4>3, <4>4
    <3> QED BY <1>1, <3>1, <3>2 DEF WillFence, Active, Me
  <2> QED BY <1>10, <2>1, <2>2 DEF Worker
<1> QED BY <1>2, <1>3, <1>4, <1>5, <1>6, <1>7, <1>8, <1>9, <1>10 DEF Thread

\* Every step leaves each registered boot with a session that will fence it.
LEMMA OrphanNext == TypeInv /\ NoOrphan /\ [Next]_serverVars => NoOrphan'
<1> SUFFICES ASSUME TypeInv, NoOrphan, [Next]_serverVars PROVE NoOrphan'
  OBVIOUS
<1> SUFFICES ASSUME NEW p \in Publisher, NEW b, publishers'[p] = b, b # NoBoot
             PROVE  \E t \in Session : WillFence(t, [publisher |-> p, boot |-> b])'
  BY DEF NoOrphan
<1> DEFINE i == [publisher |-> p, boot |-> b]
<1>1. /\ publishers \in [Publisher -> Boot \cup {NoBoot}]
      /\ session \in [Session -> Identity \cup {NoIdentity}]
      /\ publishers' \in [Publisher -> Boot \cup {NoBoot}]
  BY TypeNext DEF TypeInv, ServerTypeOK
<1>2. i \in Identity /\ (publishers[p] = b => \E t \in Session : WillFence(t, i))
  BY <1>1 DEF NoOrphan, Identity
<1>3. ASSUME publishers'[p] = publishers[p],
             \E s \in Session : accept(s) \/ (Thread(s) /\ ~FenceOwn(s)) \/ Worker(s)
      PROVE  \E t \in Session : WillFence(t, i)'
  BY <1>2, <1>3, StaysResponsible
<1>4. ASSUME Stop \/ Join \/ UNCHANGED serverVars
      PROVE  publishers'[p] = publishers[p] /\ \E t \in Session : WillFence(t, i)'
  <2>1. UNCHANGED <<publishers, thread, session, worker>>
    BY <1>4 DEF Stop, Join, serverVars, registry, sessions, clients
  <2> QED BY <1>2, <2>1 DEF WillFence, Active, Me
<1>5. ASSUME NEW s \in Session, accept(s) \/ Worker(s)
      PROVE  publishers'[p] = publishers[p]
  BY <1>5 DEF accept, Worker, connect, Send, Receive, Leave, FallSilent, registry
<1>6. ASSUME NEW s \in Session, Thread(s), ~RegisterPublisher(s), ~FenceOwn(s)
      PROVE  publishers'[p] = publishers[p]
  BY <1>6 DEF Thread, LoopTop, ReadRequest, PeerClosed, ReadTimesOut, Reject, CheckLimit, Read, EnterMap,
              WriteFields, FencePrevious, CaptureAuthority, Mutate, WriteFails, Reply, AfterReply,
              Close, registry
<1>7. ASSUME NEW s \in Session, RegisterPublisher(s)
      PROVE  \E t \in Session : WillFence(t, i)'
  <2>1. /\ thread \in [Session -> ThreadRecord] /\ thread[s] \in ThreadRecord
        /\ thread[s].pc = "HANDLE" /\ Carries(s)
    BY <1>7, Types DEF RegisterPublisher, At
  <2>2. Me(s) \in Identity
    BY <2>1 DEF Carries, Me
  <2>3. CASE publishers'[p] = publishers[p]
    <3>1. Thread(s) /\ ~FenceOwn(s)
      BY <1>7, <2>1 DEF Thread, FenceOwn, At
    <3> QED BY <1>3, <2>3, <3>1
  <2>4. CASE publishers'[p] # publishers[p]
    <3>1. /\ publishers' = [publishers EXCEPT ![Me(s).publisher] = Me(s).boot]
          /\ thread' = [thread EXCEPT ![s] = [@ EXCEPT !.pc = "MAP", !.answer = "REGISTERED"]]
          /\ UNCHANGED worker
      BY <1>7, <2>4 DEF RegisterPublisher, registry, clients
    <3>2. p = Me(s).publisher /\ b = Me(s).boot
      BY <1>1, <2>4, <3>1
    <3>3. Me(s) = i
      BY <2>2, <3>2 DEF Identity
    <3>4. thread'[s].pc = "MAP" /\ Me(s)' = Me(s)
      BY <2>1, <3>1 DEF ThreadRecord, Me
    <3> QED BY <3>3, <3>4 DEF WillFence
  <2> QED BY <2>3, <2>4
<1>8. ASSUME NEW s \in Session, FenceOwn(s)
      PROVE  \E t \in Session : WillFence(t, i)'
  <2>1. /\ thread \in [Session -> ThreadRecord] /\ thread[s].pc = "END"
        /\ thread' = [thread EXCEPT ![s] = [@ EXCEPT !.pc = "ERASE"]]
        /\ UNCHANGED <<session, worker>>
    BY <1>8, Types DEF FenceOwn, At, Goto, sessions, clients
  <2>2. publishers[p] = b /\ session[s] # i
    <3>1. CASE session[s] # NoIdentity /\ Registered(session[s])
      <4>1. session[s] \in Identity /\ session[s].publisher \in Publisher
        BY <1>1, <3>1 DEF Identity
      <4>2. publishers' = [publishers EXCEPT ![session[s].publisher] = NoBoot]
        BY <1>8, <3>1 DEF FenceOwn, fence_publisher
      <4> QED BY <1>1, <4>1, <4>2
    <3>2. CASE ~(session[s] # NoIdentity /\ Registered(session[s]))
      <4>1. publishers' = publishers
        BY <1>8, <3>2 DEF FenceOwn, fence_publisher, registry
      <4>2. session[s] = i => i # NoIdentity /\ Registered(i)
        BY <1>2, <4>1, ServerAssumption DEF Registered, Identity
      <4> QED BY <3>2, <4>1, <4>2
    <3> QED BY <3>1, <3>2
  <2>3. PICK t \in Session : WillFence(t, i)
    BY <1>2, <2>2
  <2>4. t # s
    BY <2>1, <2>2, <2>3 DEF WillFence
  <2>5. WillFence(t, i)'
    BY <2>1, <2>3, <2>4 DEF WillFence, Active, Me
  <2> QED BY <2>5
<1> QED BY <1>3, <1>4, <1>5, <1>6, <1>7, <1>8 DEF Next

\* Whenever a boot is registered, some session is there whose end will fence it.
THEOREM NobodyIsOrphaned == ServerSpec => []NoOrphan
<1>1. Init => NoOrphan
  BY DEF Init, NoOrphan
<1> QED BY TypeInvariant, <1>1, OrphanNext, PTL DEF ServerSpec

-----------------------------------------------------------------------------
(* The attempt window.                                                      *)

\* What one acceptance appends.
Entry(s) == [attempt |-> thread[s].request.attempt, payload |-> thread[s].request.payload,
             publisher |-> Me(s).publisher, boot |-> Me(s).boot]

\* The mutation of s is accepted for the first time, or again after its eviction.
Accepts(s) ==
  /\ Authorized(s) /\ Remembered(thread[s].request.attempt) = {}
  /\ applied' = Append(applied, Entry(s))
  /\ attempt_order' = remember_attempt(attempt_order, thread[s].request)
  /\ thread[s].request \in Mutation /\ Me(s) \in Identity
  /\ UNCHANGED <<publishers, fenced_boots>>

\* The window and the history change only when a mutation is accepted.
LEMMA WindowSteps ==
  ASSUME TypeInv, [Next]_serverVars
  PROVE  UNCHANGED window \/ \E s \in Session : Accepts(s)
<1>1. ASSUME NEW s \in Session, Mutate(s) PROVE UNCHANGED window \/ Accepts(s)
  <2>1. thread[s].request \in Mutation /\ Me(s) \in Identity
    BY <1>1, Types DEF Mutate, At, Carries, Me
  <2> QED BY <1>1, <2>1 DEF Mutate, Accepts, Entry, registry
<1>2. ASSUME NEW s \in Session, accept(s) \/ Worker(s) PROVE UNCHANGED window
  BY <1>2 DEF accept, Worker, connect, Send, Receive, Leave, FallSilent
<1>3. ASSUME NEW s \in Session, Thread(s), ~Mutate(s) PROVE UNCHANGED window
  BY <1>3 DEF Thread, LoopTop, ReadRequest, PeerClosed, ReadTimesOut, Reject, CheckLimit, Read,
              RegisterPublisher, EnterMap, WriteFields, FencePrevious, CaptureAuthority, WriteFails,
              Reply, AfterReply, FenceOwn, Close
<1>4. CASE Stop \/ Join \/ UNCHANGED serverVars
  BY <1>4 DEF Stop, Join, serverVars
<1> QED BY <1>1, <1>2, <1>3, <1>4 DEF Next

\* The window holds exactly the last accepted mutations.
Kept ==
  /\ Len(attempt_order) = IF Len(applied) <= Window THEN Len(applied) ELSE Window
  /\ \A j \in 1 .. Len(attempt_order) :
       LET k == Len(applied) - Len(attempt_order) + j
       IN  /\ attempt_order[j].attempt = applied[k].attempt
           /\ attempt_order[j].payload = applied[k].payload

\* Every step keeps the window and the last acceptances in agreement.
LEMMA KeptNext == TypeInv /\ Kept /\ [Next]_serverVars => Kept'
<1> SUFFICES ASSUME TypeInv, Kept, NEW s \in Session, Accepts(s) PROVE Kept'
  BY WindowSteps DEF window, Kept
<1> DEFINE r      == thread[s].request
           entry  == [attempt |-> r.attempt, payload |-> r.payload]
           longer == Append(attempt_order, entry)
           n      == Len(applied)
           m      == Len(attempt_order)
<1>1. /\ attempt_order \in Seq(Remembrance) /\ applied \in Seq(Acceptance)
      /\ entry \in Remembrance /\ Entry(s) \in Acceptance
  BY DEF TypeInv, ServerTypeOK, Accepts, Entry, Mutation, Identity, Remembrance, Acceptance
<1>2. n \in Nat /\ m \in Nat /\ Window \in Nat \ {0} /\ m <= n
  BY <1>1, LenProperties, ServerAssumption DEF Kept
<1>3. /\ longer \in Seq(Remembrance) /\ Len(longer) = m + 1 /\ longer[m + 1] = entry
      /\ \A j \in 1 .. m : longer[j] = attempt_order[j]
  BY <1>1, <1>2, AppendProperties
<1>4. /\ applied' \in Seq(Acceptance) /\ Len(applied') = n + 1 /\ applied'[n + 1] = Entry(s)
      /\ \A j \in 1 .. n : applied'[j] = applied[j]
  BY <1>1, <1>2, AppendProperties DEF Accepts
<1>5. attempt_order' = IF Len(longer) > Window THEN Tail(longer) ELSE longer
  BY DEF Accepts, remember_attempt
<1>6. CASE m < Window
  <2>1. attempt_order' = longer /\ m = n
    BY <1>2, <1>3, <1>5, <1>6 DEF Kept
  <2>2. \A j \in 1 .. m : attempt_order[j].attempt = applied[j].attempt
                          /\ attempt_order[j].payload = applied[j].payload
    BY <1>2, <2>1 DEF Kept
  <2>3. \A j \in 1 .. m + 1 : longer[j].attempt = applied'[j].attempt
                              /\ longer[j].payload = applied'[j].payload
    BY <1>2, <1>3, <1>4, <2>1, <2>2 DEF Entry
  <2> QED BY <1>2, <1>3, <1>4, <1>6, <2>1, <2>3 DEF Kept
<1>7. CASE m >= Window
  <2>1. m = Window /\ attempt_order' = Tail(longer) /\ n >= Window
    BY <1>2, <1>3, <1>5, <1>7 DEF Kept
  <2>2. Len(attempt_order') = m /\ \A j \in 1 .. m : attempt_order'[j] = longer[j + 1]
    BY <1>2, <1>3, <2>1, HeadTailProperties
  <2>3. ASSUME NEW j \in 1 .. m
        PROVE  /\ attempt_order'[j].attempt = applied'[n + 1 - m + j].attempt
               /\ attempt_order'[j].payload = applied'[n + 1 - m + j].payload
    <3>1. CASE j = m
      BY <1>2, <1>3, <1>4, <2>2, <3>1 DEF Entry
    <3>2. CASE j # m
      <4>1. j + 1 \in 1 .. m /\ n - m + (j + 1) \in 1 .. n
        BY <1>2, <2>1, <3>2
      <4>2. /\ attempt_order[j + 1].attempt = applied[n - m + (j + 1)].attempt
            /\ attempt_order[j + 1].payload = applied[n - m + (j + 1)].payload
        BY <4>1 DEF Kept
      <4>3. n + 1 - m + j = n - m + (j + 1)
        BY <1>2
      <4> QED BY <1>3, <1>4, <2>2, <4>1, <4>2, <4>3
    <3> QED BY <3>1, <3>2
  <2>4. /\ Len(applied') = n + 1 /\ Len(attempt_order') = m
        /\ \A j \in 1 .. Len(attempt_order') :
             Len(applied') - Len(attempt_order') + j = n + 1 - m + j
    BY <1>2, <1>4, <2>2
  <2>5. Len(attempt_order') = IF Len(applied') <= Window THEN Len(applied') ELSE Window
    BY <1>2, <2>1, <2>4
  <2> QED BY <2>3, <2>4, <2>5 DEF Kept
<1> QED BY <1>2, <1>6, <1>7

\* They agree in every reachable state.
LEMMA WindowInvariant == ServerSpec => []Kept
<1>1. Init => Kept
  BY ServerAssumption DEF Init, Kept
<1> QED BY <1>1, TypeInvariant, KeptNext, PTL DEF ServerSpec

\* An attempt the window does not remember is not among the last acceptances.
LEMMA ForgottenIsOld ==
  ASSUME TypeInv, Kept, NEW a, Remembered(a) = {},
         NEW k \in 1 .. Len(applied), k > Len(applied) - Window
  PROVE  applied[k].attempt # a
<1> DEFINE n == Len(applied)
           m == Len(attempt_order)
<1>1. /\ n \in Nat /\ m \in Nat /\ Window \in Nat \ {0}
      /\ DOMAIN attempt_order = 1 .. m
  BY ServerAssumption, LenProperties DEF TypeInv, ServerTypeOK
<1>2. m = IF n <= Window THEN n ELSE Window
  BY DEF Kept
<1>3. k - (n - m) \in 1 .. m /\ n - m + (k - (n - m)) = k
  <2>1. k \in Int /\ 1 <= k /\ k <= n /\ k > n - Window
    BY <1>1
  <2>2. CASE n <= Window
    BY <1>1, <1>2, <2>1, <2>2
  <2>3. CASE n > Window
    <3>1. m = Window
      BY <1>1, <1>2, <2>3
    <3> HIDE DEF n, m
    <3> QED BY <1>1, <2>1, <2>3, <3>1
  <2> QED BY <1>1, <2>2, <2>3
<1>4. attempt_order[k - (n - m)].attempt = applied[k].attempt
  BY <1>3 DEF Kept
<1> QED BY <1>1, <1>3, <1>4 DEF Remembered

\* The attempts of the accepted mutations, in order.
Log == [i \in DOMAIN applied |-> applied[i].attempt]

\* An acceptance of the server is an acceptance of the abstract log.
LEMMA AcceptRefines ==
  ASSUME TypeInv, Kept, NEW s \in Session, Accepts(s), NEW a, a = thread[s].request.attempt
  PROVE  Abstract!Accept(a)
<1> DEFINE n == Len(applied)
<1>1. applied \in Seq(Acceptance) /\ Entry(s) \in Acceptance /\ a \in Attempt
  BY DEF TypeInv, ServerTypeOK, Accepts, Entry, Mutation, Identity, Acceptance
<1>2. /\ n \in Nat /\ DOMAIN applied = 1 .. n
      /\ \A i \in 1 .. n : applied[i].attempt \in Attempt
  <2>1. n \in Nat /\ DOMAIN applied = 1 .. n
    BY <1>1, LenProperties
  <2>2. \A i \in 1 .. n : applied[i] \in Acceptance
    BY <1>1, <2>1, ElementOfSeq
  <2> QED BY <2>1, <2>2 DEF Acceptance
<1>3. Log \in Seq(Attempt) /\ Len(Log) = n
  BY <1>2 DEF Log
<1>4. /\ Len(applied') = n + 1 /\ DOMAIN applied' = 1 .. n + 1 /\ applied'[n + 1].attempt = a
      /\ \A j \in 1 .. n : applied'[j] = applied[j]
  BY <1>1, <1>2, AppendProperties, LenProperties DEF Accepts, Entry
<1>5. Log' \in Seq(Attempt) /\ Len(Log') = n + 1
  BY <1>1, <1>2, <1>4 DEF Log
<1>6. Append(Log, a) \in Seq(Attempt) /\ Len(Append(Log, a)) = n + 1
  BY <1>1, <1>3, AppendProperties
<1>7. \A j \in 1 .. n + 1 : Log'[j] = Append(Log, a)[j]
  BY <1>1, <1>2, <1>3, <1>4, AppendProperties DEF Log
<1>8. Log' = Append(Log, a)
  BY <1>5, <1>6, <1>7, SeqEqual
<1>9. a \notin Abstract!Recent
  <2> SUFFICES ASSUME NEW i \in 1 .. Len(Log), i > Len(Log) - Window PROVE Log[i] # a
    BY DEF Abstract!Recent, Log
  <2>1. applied[i].attempt # a
    BY <1>3, ForgottenIsOld DEF Accepts
  <2> QED BY <1>2, <1>3, <2>1 DEF Log
<1> QED BY <1>8, <1>9 DEF Abstract!Accept, Log

\* The accepted mutations implement AtMostOnce, whatever is retried, over which
\* connection, by which boot, in whichever order the threads run.
THEOREM AcceptedAtMostOnce == ServerSpec => AppliedAtMostOnce
<1>1. Init => Abstract!Init
  BY DEF Init, Abstract!Init
<1>2. TypeInv /\ Kept /\ [Next]_serverVars => [Abstract!Next]_Log
  <2> SUFFICES ASSUME TypeInv, Kept, [Next]_serverVars PROVE [Abstract!Next]_Log
    OBVIOUS
  <2>1. CASE UNCHANGED window
    BY <2>1 DEF window, Log
  <2>2. ASSUME NEW s \in Session, Accepts(s) PROVE Abstract!Next
    <3>1. PICK a \in Attempt : a = thread[s].request.attempt
      BY <2>2 DEF Accepts, Mutation
    <3>2. Abstract!Accept(a)
      BY <2>2, <3>1, AcceptRefines
    <3> QED BY <3>2 DEF Abstract!Next
  <2> QED BY <2>1, <2>2, WindowSteps
<1> QED BY <1>1, <1>2, TypeInvariant, WindowInvariant, PTL
        DEF ServerSpec, AppliedAtMostOnce, Abstract!Spec, Log

\* Two acceptances of one attempt are further apart than the window is long.
LEMMA SpacedNext == TypeInv /\ Kept /\ Abstract!Spaced /\ [Next]_serverVars => Abstract!Spaced'
<1> SUFFICES ASSUME TypeInv, Kept, Abstract!Spaced, [Next]_serverVars PROVE Abstract!Spaced'
  OBVIOUS
<1>1. CASE UNCHANGED window
  BY <1>1 DEF window, Abstract!Spaced
<1>2. ASSUME NEW s \in Session, Accepts(s) PROVE Abstract!Spaced'
  <2> DEFINE n == Len(applied)
  <2>1. applied \in Seq(Acceptance) /\ Entry(s) \in Acceptance
    BY <1>2 DEF TypeInv, ServerTypeOK, Accepts, Entry, Mutation, Identity, Acceptance
  <2>2. n \in Nat /\ DOMAIN applied = 1 .. n /\ Len(Log) = n /\ Window \in Nat
    BY <2>1, LenProperties, ServerAssumption DEF Log
  <2>3. /\ DOMAIN applied' = 1 .. n + 1 /\ Len(Log') = n + 1
        /\ applied'[n + 1].attempt = thread[s].request.attempt
        /\ \A j \in 1 .. n : applied'[j] = applied[j]
    BY <1>2, <2>1, <2>2, AppendProperties, LenProperties DEF Accepts, Entry, Log
  <2>4. \A i, j \in 1 .. n : i < j /\ applied[i].attempt = applied[j].attempt => j - i > Window
    BY <2>2 DEF Abstract!Spaced, Log
  <2>5. \A i \in 1 .. n : i > n - Window => applied[i].attempt # thread[s].request.attempt
    BY <1>2, ForgottenIsOld DEF Accepts
  <2>6. ASSUME NEW i \in 1 .. n + 1, NEW j \in 1 .. n + 1, i < j,
               applied'[i].attempt = applied'[j].attempt
        PROVE  j - i > Window
    <3>1. CASE j = n + 1
      <4>1. i \in 1 .. n /\ ~(i > n - Window)
        BY <2>2, <2>3, <2>5, <2>6, <3>1
      <4> QED BY <2>2, <3>1, <4>1
    <3>2. CASE j # n + 1
      <4>1. i \in 1 .. n /\ j \in 1 .. n
        BY <2>2, <2>6, <3>2
      <4> QED BY <2>3, <2>4, <2>6, <4>1
    <3> QED BY <3>1, <3>2
  <2> QED BY <2>3, <2>6 DEF Abstract!Spaced, Log
<1> QED BY <1>1, <1>2, WindowSteps

\* A retry that is applied again comes after at least Window other mutations.
THEOREM RetriesAreSpaced == ServerSpec => []Abstract!Spaced
<1>1. Init => Abstract!Spaced
  BY DEF Init, Abstract!Spaced
<1> QED BY <1>1, TypeInvariant, WindowInvariant, SpacedNext, PTL DEF ServerSpec

-----------------------------------------------------------------------------
(* One incarnation at a time.                                               *)

SamePublisher(j, k) == applied[j].publisher = applied[k].publisher

\* While no fence has been forgotten: a boot that mutated is fenced or is still the
\* registered one; a boot that mutated before another of its publisher is fenced;
\* and OneIncarnationAtATime.
Incarnations ==
  /\ IsFiniteSet(fenced_boots)
  /\ Cardinality(fenced_boots) < MaxPublishers =>
       /\ \A k \in DOMAIN applied :
            applied[k].boot \in fenced_boots \/ publishers[applied[k].publisher] = applied[k].boot
       /\ \A j, k \in DOMAIN applied :
            j < k /\ SamePublisher(j, k) /\ applied[j].boot # applied[k].boot
              => applied[j].boot \in fenced_boots
       /\ OneIncarnationAtATime

\* Registering over another boot, and fencing, fence it or find the table full.
LEMMA RegistrySteps ==
  ASSUME TypeInv, [Next]_serverVars, ~UNCHANGED registry
  PROVE  \/ \E i \in Identity :
              /\ publishers[i.publisher] = NoBoot \/ publishers[i.publisher] = i.boot
              /\ publishers' = [publishers EXCEPT ![i.publisher] = i.boot]
              /\ fenced_boots' = fenced_boots
         \/ \E i \in Identity, b \in Boot \cup {NoBoot} :
              /\ publishers[i.publisher] = i.boot
              /\ publishers' = [publishers EXCEPT ![i.publisher] = b]
              /\ IF Cardinality(fenced_boots) < MaxPublishers
                 THEN fenced_boots' = fenced_boots \cup {i.boot}
                 ELSE fenced_boots' = fenced_boots
<1>1. PICK s \in Session : RegisterPublisher(s) \/ FenceOwn(s)
  <2>1. ASSUME NEW s \in Session, accept(s) \/ Worker(s) PROVE UNCHANGED registry
    BY <2>1 DEF accept, Worker, connect, Send, Receive, Leave, FallSilent
  <2>2. ASSUME NEW s \in Session, Thread(s), ~RegisterPublisher(s), ~FenceOwn(s)
        PROVE  UNCHANGED registry
    BY <2>2 DEF Thread, LoopTop, ReadRequest, PeerClosed, ReadTimesOut, Reject, CheckLimit, Read, EnterMap,
                WriteFields, FencePrevious, CaptureAuthority, Mutate, WriteFails, Reply, AfterReply,
                Close
  <2>3. CASE Stop \/ Join \/ UNCHANGED serverVars
    BY <2>3 DEF Stop, Join, serverVars
  <2> QED BY <2>1, <2>2, <2>3 DEF Next
<1>2. /\ publishers \in [Publisher -> Boot \cup {NoBoot}]
      /\ session[s] \in Identity \cup {NoIdentity} /\ Carries(s)
  BY Types DEF ServerTypeOK, TypeInv
<1>3. CASE RegisterPublisher(s)
  <2> DEFINE i == Me(s)
             old == publishers[i.publisher]
  <2>1. i \in Identity /\ i.publisher \in Publisher /\ i.boot \in Boot
    BY <1>2, <1>3 DEF RegisterPublisher, At, Carries, Me, Identity
  <2>2. /\ CanRegister(i)
        /\ publishers' = [publishers EXCEPT ![i.publisher] = i.boot]
        /\ fenced_boots' = fenced_boots \cup ({old} \ {NoBoot, i.boot})
    BY <1>3 DEF RegisterPublisher, registry
  <2>3. CASE old \in {NoBoot, i.boot}
    BY <2>1, <2>2, <2>3
  <2>4. CASE old \notin {NoBoot, i.boot}
    <3>1. old \in Boot /\ Cardinality(fenced_boots) < MaxPublishers
      BY <1>2, <2>1, <2>2, <2>4 DEF CanRegister
    <3> DEFINE o == [publisher |-> i.publisher, boot |-> old]
    <3>2. o \in Identity /\ o.publisher = i.publisher /\ o.boot = old
      BY <2>1, <3>1 DEF Identity
    <3>3. fenced_boots' = fenced_boots \cup {o.boot}
      BY <2>2, <2>4, <3>2
    <3> QED BY <2>1, <2>2, <3>1, <3>2, <3>3
  <2> QED BY <2>3, <2>4
<1>4. CASE FenceOwn(s)
  <2>1. session[s] # NoIdentity /\ fence_publisher(session[s]) /\ Registered(session[s])
    BY <1>4 DEF FenceOwn, fence_publisher
  <2>2. session[s] \in Identity
    BY <1>2, <2>1
  <2>3. /\ publishers[session[s].publisher] = session[s].boot
        /\ publishers' = [publishers EXCEPT ![session[s].publisher] = NoBoot]
        /\ fenced_boots' = IF Cardinality(fenced_boots) < MaxPublishers
                           THEN fenced_boots \cup {session[s].boot} ELSE fenced_boots
    BY <2>1 DEF fence_publisher, Registered
  <2> QED BY <2>2, <2>3
<1> QED BY <1>1, <1>3, <1>4

\* No step gives a boot that was replaced its turn again.
LEMMA IncarnationsNext == TypeInv /\ Incarnations /\ [Next]_serverVars => Incarnations'
<1> SUFFICES ASSUME TypeInv, Incarnations, [Next]_serverVars PROVE Incarnations'
  OBVIOUS
<1>1. /\ publishers \in [Publisher -> Boot \cup {NoBoot}] /\ fenced_boots \subseteq Boot
      /\ applied \in Seq(Acceptance) /\ MaxPublishers \in Nat /\ NoBoot \notin Boot
  BY ServerAssumption DEF TypeInv, ServerTypeOK
<1>2. /\ DOMAIN applied = 1 .. Len(applied) /\ Len(applied) \in Nat
      /\ \A k \in DOMAIN applied : applied[k].publisher \in Publisher /\ applied[k].boot \in Boot
  <2>1. DOMAIN applied = 1 .. Len(applied) /\ Len(applied) \in Nat
    BY <1>1, LenProperties
  <2>2. \A k \in DOMAIN applied : applied[k] \in Acceptance
    BY <1>1, <2>1, ElementOfSeq
  <2> QED BY <2>1, <2>2 DEF Acceptance
<1>3. ASSUME NEW s \in Session, Accepts(s) PROVE Incarnations'
  <2> DEFINE n == Len(applied)
             i == Me(s)
  <2>1. /\ i.publisher \in Publisher /\ i.boot \in Boot /\ Entry(s) \in Acceptance
        /\ publishers[i.publisher] = i.boot /\ i.boot \notin fenced_boots
        /\ UNCHANGED <<publishers, fenced_boots>>
    BY <1>3 DEF Accepts, Authorized, Registered, Identity, Entry, Acceptance, Mutation
  <2>2. /\ DOMAIN applied' = 1 .. n + 1
        /\ applied'[n + 1].publisher = i.publisher /\ applied'[n + 1].boot = i.boot
        /\ \A k \in 1 .. n : applied'[k] = applied[k]
    BY <1>1, <1>2, <1>3, <2>1, AppendProperties, LenProperties DEF Accepts, Entry
  <2> SUFFICES ASSUME Cardinality(fenced_boots) < MaxPublishers PROVE Incarnations'
    BY <2>1 DEF Incarnations, OneIncarnationAtATime
  <2>3. \A k \in 1 .. n + 1 :
          applied'[k].boot \in fenced_boots \/ publishers[applied'[k].publisher] = applied'[k].boot
    BY <1>2, <2>1, <2>2 DEF Incarnations
  <2>4. ASSUME NEW j \in 1 .. n + 1, NEW k \in 1 .. n + 1, j < k,
               applied'[j].publisher = applied'[k].publisher, applied'[j].boot # applied'[k].boot
        PROVE  applied'[j].boot \in fenced_boots
    <3>1. CASE k = n + 1
      <4>1. j \in 1 .. n
        BY <1>2, <2>4, <3>1
      <4> QED BY <1>2, <2>1, <2>2, <2>3, <2>4, <3>1, <4>1
    <3>2. CASE k # n + 1
      <4>1. j \in 1 .. n /\ k \in 1 .. n
        BY <1>2, <2>4, <3>2
      <4> QED BY <1>2, <2>2, <2>4, <4>1 DEF Incarnations, SamePublisher
    <3> QED BY <3>1, <3>2
  <2>5. ASSUME NEW h \in 1 .. n + 1, NEW j \in 1 .. n + 1, NEW k \in 1 .. n + 1, h < j, j < k,
               applied'[h].publisher = applied'[j].publisher,
               applied'[j].publisher = applied'[k].publisher,
               applied'[h].boot = applied'[k].boot
        PROVE  applied'[j].boot = applied'[h].boot
    <3>1. CASE k = n + 1
      BY <2>1, <2>2, <2>4, <2>5, <3>1
    <3>2. CASE k # n + 1
      <4>1. h \in 1 .. n /\ j \in 1 .. n /\ k \in 1 .. n
        BY <1>2, <2>5, <3>2
      <4> QED BY <1>2, <2>2, <2>5, <4>1 DEF Incarnations, OneIncarnationAtATime
    <3> QED BY <3>1, <3>2
  <2> QED BY <2>1, <2>2, <2>3, <2>4, <2>5 DEF Incarnations, SamePublisher, OneIncarnationAtATime
<1>4. ASSUME UNCHANGED window, UNCHANGED registry PROVE Incarnations'
  BY <1>4 DEF window, registry, Incarnations, SamePublisher, OneIncarnationAtATime
<1>5. ASSUME UNCHANGED window, NEW i \in Identity,
             publishers[i.publisher] = NoBoot \/ publishers[i.publisher] = i.boot,
             publishers' = [publishers EXCEPT ![i.publisher] = i.boot],
             fenced_boots' = fenced_boots
      PROVE  Incarnations'
  <2>1. applied' = applied
    BY <1>5 DEF window
  <2>2. \A k \in DOMAIN applied :
          publishers[applied[k].publisher] = applied[k].boot
            => publishers'[applied[k].publisher] = applied[k].boot
    BY <1>1, <1>2, <1>5 DEF Identity
  <2> QED BY <1>5, <2>1, <2>2 DEF Incarnations, SamePublisher, OneIncarnationAtATime
<1>6. ASSUME UNCHANGED window, NEW i \in Identity, NEW b \in Boot \cup {NoBoot},
             publishers[i.publisher] = i.boot,
             publishers' = [publishers EXCEPT ![i.publisher] = b],
             IF Cardinality(fenced_boots) < MaxPublishers
             THEN fenced_boots' = fenced_boots \cup {i.boot}
             ELSE fenced_boots' = fenced_boots
      PROVE  Incarnations'
  <2>1. applied' = applied /\ IsFiniteSet(fenced_boots)
    BY <1>6 DEF window, Incarnations
  <2>2. CASE ~(Cardinality(fenced_boots) < MaxPublishers)
    BY <1>6, <2>1, <2>2 DEF Incarnations
  <2>3. CASE Cardinality(fenced_boots) < MaxPublishers
    <3>1. fenced_boots' = fenced_boots \cup {i.boot}
      BY <1>6, <2>3
    <3>2. IsFiniteSet(fenced_boots')
      BY <2>1, <3>1, FS_AddElement
    <3>3. \A k \in DOMAIN applied :
            publishers[applied[k].publisher] = applied[k].boot
              => \/ publishers'[applied[k].publisher] = applied[k].boot
                 \/ applied[k].boot \in fenced_boots'
      BY <1>1, <1>2, <1>6, <3>1 DEF Identity
    <3> QED BY <2>1, <2>3, <3>1, <3>2, <3>3 DEF Incarnations, SamePublisher, OneIncarnationAtATime
  <2> QED BY <2>2, <2>3
<1>7. ASSUME UNCHANGED window, ~UNCHANGED registry PROVE Incarnations'
  BY <1>5, <1>6, <1>7, RegistrySteps
<1> QED BY <1>3, <1>4, <1>7, WindowSteps

\* Between two accepted mutations of one boot there is none of another boot of its
\* publisher, while the fence table has room.
THEOREM OneIncarnation == ServerSpec => []OneIncarnationAtATime
<1>1. Init => Incarnations
  BY FS_EmptySet DEF Init, Incarnations, OneIncarnationAtATime
<1>2. Incarnations => OneIncarnationAtATime
  BY DEF Incarnations, OneIncarnationAtATime
<1> QED BY <1>1, <1>2, TypeInvariant, IncarnationsNext, PTL DEF ServerSpec

-----------------------------------------------------------------------------
(* A worker takes no answer but its own.                                    *)

\* The accepted mutations, attempt and payload.
Done == {r \in Mutation : \E k \in DOMAIN applied :
           applied[k].attempt = r.attempt /\ applied[k].payload = r.payload}

AnswerKind == {"REGISTER", "MUTATE", "QUERY"}

\* The places, in a queue of frames, of the answers among them.
Answers(frames) == {j \in DOMAIN frames : frames[j].kind \in AnswerKind}

\* A request is in one place at a time: on its way to the server, with its thread, or
\* answered by a frame not yet read.  An acceptance on its way is true.
Exchange(t, w, c, done) ==
  /\ t.pc = "REPLY" /\ t.answer \in Accepted => t.request \in done
  /\ w.state \notin Deaf =>
       /\ c.inbox # <<>> => w.state = "WAITING" /\ c.inbox = <<w.asked>>
       /\ t.pc \in Busy => w.state = "WAITING" /\ t.request = w.asked /\ c.inbox = <<>>
       /\ \A j \in Answers(c.outbox) :
            /\ w.state = "WAITING" /\ c.inbox = <<>> /\ t.pc \notin Busy
            /\ c.outbox[j].answer \in Accepted => w.asked \in done
       /\ \A j, k \in Answers(c.outbox) : j = k

Conversation ==
  /\ told \subseteq Done
  /\ \A s \in Session : Exchange(thread[s], worker[s], wire[s], Done)

\* What is accepted stays accepted.
LEMMA DoneGrows ==
  ASSUME TypeInv, [Next]_serverVars
  PROVE  Done \subseteq Done'
<1>1. CASE UNCHANGED window
  BY <1>1 DEF window, Done
<1>2. ASSUME NEW s \in Session, Accepts(s) PROVE Done \subseteq Done'
  <2>1. applied \in Seq(Acceptance) /\ Entry(s) \in Acceptance
    BY <1>2 DEF TypeInv, ServerTypeOK, Accepts, Entry, Mutation, Identity, Acceptance
  <2>2. \A k \in DOMAIN applied : k \in DOMAIN applied' /\ applied'[k] = applied[k]
    BY <1>2, <2>1, AppendProperties, LenProperties DEF Accepts
  <2> QED BY <2>2 DEF Done
<1> QED BY <1>1, <1>2, WindowSteps

\* A notice or an error on the way adds no answer.
LEMMA NoticeIsNoAnswer ==
  ASSUME NEW frames \in Seq(Frame), NEW f \in Frame, f.kind \notin AnswerKind
  PROVE  /\ Answers(Append(frames, f)) = Answers(frames)
         /\ \A j \in Answers(frames) : Append(frames, f)[j] = frames[j]
<1>1. /\ DOMAIN frames = 1 .. Len(frames) /\ Len(frames) \in Nat
      /\ DOMAIN Append(frames, f) = 1 .. Len(frames) + 1
      /\ Append(frames, f)[Len(frames) + 1] = f
      /\ \A j \in 1 .. Len(frames) : Append(frames, f)[j] = frames[j]
  BY AppendProperties, LenProperties
<1> QED BY <1>1 DEF Answers

\* Of the thread, an exchange depends on its place, its request and its answer; it
\* survives more acceptances, and a frame that is no answer.
LEMMA ExchangeKept ==
  ASSUME NEW t, NEW w, NEW c \in Connection, NEW done, NEW more, done \subseteq more,
         Exchange(t, w, c, done), NEW u, NEW d,
         d.inbox = c.inbox \/ d.inbox = <<>>,
         d.outbox = c.outbox
           \/ \E f \in Frame : f.kind \notin AnswerKind /\ d.outbox = Append(c.outbox, f),
         \/ u.pc \in Busy \ {"REPLY"} /\ t.pc \in Busy /\ u.request = t.request
         \/ u.pc = "REPLY" /\ t.pc \in Busy /\ u.request = t.request
              /\ (u.answer \in Accepted => u.request \in more)
         \/ u.pc \notin Busy
  PROVE  Exchange(u, w, d, more)
<1>1. c.outbox \in Seq(Frame)
  BY DEF Connection
<1>2. Answers(d.outbox) = Answers(c.outbox)
      /\ \A j \in Answers(c.outbox) : d.outbox[j] = c.outbox[j]
  BY <1>1, NoticeIsNoAnswer
<1> QED BY <1>2 DEF Exchange, Deaf, Busy

\* The exchange of every session but those of s survives.
LEMMA OthersConverse ==
  ASSUME TypeInv, Conversation, NEW s \in Session, Done \subseteq Done', told' \subseteq Done',
         Exchange(thread'[s], worker'[s], wire'[s], Done'),
         \A x \in Session \ {s} : /\ thread'[x] = thread[x] /\ worker'[x] = worker[x]
                                  /\ wire'[x] = wire[x]
  PROVE  Conversation'
<1> SUFFICES ASSUME NEW x \in Session \ {s}
             PROVE  Exchange(thread[x], worker[x], wire[x], Done')
  BY DEF Conversation
<1>1. Exchange(thread[x], worker[x], wire[x], Done)
  BY DEF Conversation
<1> QED BY <1>1 DEF Exchange, Deaf

\* A replay is recognised by an acceptance that happened.
LEMMA RememberedIsDone ==
  ASSUME TypeInv, Kept, NEW r \in Mutation, IsReplay(r)
  PROVE  r \in Done
<1>1. PICK j \in DOMAIN attempt_order : attempt_order[j].attempt = r.attempt
                                        /\ attempt_order[j].payload = r.payload
  BY DEF IsReplay, Remembered
<1> DEFINE n == Len(applied)
           m == Len(attempt_order)
<1>2. /\ DOMAIN attempt_order = 1 .. m /\ DOMAIN applied = 1 .. n /\ n \in Nat /\ m \in Nat
      /\ m <= n
  BY LenProperties, ServerAssumption DEF TypeInv, ServerTypeOK, Kept
<1>3. /\ n - m + j \in DOMAIN applied
      /\ applied[n - m + j].attempt = r.attempt /\ applied[n - m + j].payload = r.payload
  BY <1>1, <1>2 DEF Kept
<1> QED BY <1>3 DEF Done

\* The steps that move no frame of a request.
LEMMA QuietSteps ==
  ASSUME TypeInv, Kept, Conversation, [Next]_serverVars, NEW s \in Session,
         accept(s) \/ Thread(s), ~ReadRequest(s), ~Reply(s), ~FencePrevious(s)
  PROVE  Conversation'
<1> USE DEF Goto, At
<1>1. /\ thread \in [Session -> ThreadRecord] /\ thread[s] \in ThreadRecord
      /\ wire \in [Session -> Connection] /\ wire[s] \in Connection
      /\ Carries(s) /\ Exchange(thread[s], worker[s], wire[s], Done) /\ told \subseteq Done
      /\ [kind |-> "ERROR"] \in Frame /\ Done \subseteq Done'
  BY Types, DoneGrows DEF Conversation, Frame
<1> DEFINE Quiet(t, d) ==
      /\ UNCHANGED <<worker, told>>
      /\ thread' = [thread EXCEPT ![s] = t]
      /\ wire' = [wire EXCEPT ![s] = d]
      /\ d.inbox = wire[s].inbox \/ d.inbox = <<>>
      /\ d.outbox = wire[s].outbox
           \/ \E f \in Frame : f.kind \notin AnswerKind /\ d.outbox = Append(wire[s].outbox, f)
      /\ \/ t.pc \in Busy \ {"REPLY"} /\ thread[s].pc \in Busy /\ t.request = thread[s].request
         \/ t.pc = "REPLY" /\ thread[s].pc \in Busy /\ t.request = thread[s].request
              /\ (t.answer \in Accepted => t.request \in Done')
         \/ t.pc \notin Busy
<1>2. ASSUME NEW t, NEW d, Quiet(t, d) PROVE Conversation'
  <2>1. Exchange(t, worker[s], d, Done')
    BY <1>1, <1>2, ExchangeKept
  <2>2. thread'[s] = t /\ wire'[s] = d /\ worker' = worker /\ told' = told
        /\ \A x \in Session \ {s} : thread'[x] = thread[x] /\ wire'[x] = wire[x]
    BY <1>1, <1>2
  <2> QED BY <1>1, <2>1, <2>2, OthersConverse
<1>3. Delivered(s, [kind |-> "ERROR"]) \in {wire[s].outbox, Append(wire[s].outbox, [kind |-> "ERROR"])}
  BY DEF Delivered
<1>4. \A t : wire' = wire /\ Quiet(t, wire[s]) => Conversation'
  BY <1>2
<1> HIDE DEF Quiet
<1>5. ASSUME accept(s) PROVE Conversation'
  <2> DEFINE closed == [shut |-> TRUE, inbox |-> <<>>, outbox |-> Delivered(s, [kind |-> "ERROR"])]
  <2>1. CASE Cardinality(Active) >= MaxSessions
    <3>1. Quiet([thread[s] EXCEPT !.pc = "ENDED"], closed)
      BY <1>1, <1>3, <1>5, <2>1 DEF Quiet, accept, clients, ThreadRecord, Busy, AnswerKind
    <3> QED BY <1>2, <3>1
  <2>2. CASE ~(Cardinality(Active) >= MaxSessions)
    <3>1. Quiet([thread[s] EXCEPT !.pc = "TOP"], wire[s])
      BY <1>1, <1>5, <2>2 DEF Quiet, accept, clients, ThreadRecord, Busy
    <3> QED BY <1>2, <3>1
  <2> QED BY <2>1, <2>2
<1>6. ASSUME LoopTop(s) \/ PeerClosed(s) \/ WriteFails(s) \/ AfterReply(s) \/ FenceOwn(s) \/ CheckLimit(s)
             \/ ReadTimesOut(s)
      PROVE  Conversation'
  <2>1. PICK pc \in {"TOP", "READ", "REJECT", "END", "ERASE", "HANDLE"} :
          /\ thread' = [thread EXCEPT ![s] = [thread[s] EXCEPT !.pc = pc]]
          /\ pc = "HANDLE" => thread[s].pc = "COUNTED"
    BY <1>6 DEF LoopTop, PeerClosed, WriteFails, AfterReply, FenceOwn, CheckLimit, ReadTimesOut
  <2>2. UNCHANGED <<worker, told, wire>>
    BY <1>6 DEF LoopTop, PeerClosed, WriteFails, AfterReply, FenceOwn, CheckLimit, ReadTimesOut, clients
  <2>3. Quiet([thread[s] EXCEPT !.pc = pc], wire[s])
    BY <1>1, <2>1, <2>2 DEF Quiet, ThreadRecord, Busy
  <2> QED BY <1>2, <2>3
<1>7. ASSUME Reject(s) PROVE Conversation'
  <2> DEFINE d == [wire[s] EXCEPT !.outbox = Delivered(s, [kind |-> "ERROR"])]
  <2>1. d.inbox = wire[s].inbox /\ d.outbox = Delivered(s, [kind |-> "ERROR"])
    BY <1>1 DEF Connection
  <2>2. /\ thread' = [thread EXCEPT ![s] = [thread[s] EXCEPT !.pc = "END"]]
        /\ wire' = [wire EXCEPT ![s] = d] /\ UNCHANGED <<worker, told>>
    BY <1>7 DEF Reject, clients
  <2>3. Quiet([thread[s] EXCEPT !.pc = "END"], d)
    BY <1>1, <1>3, <2>1, <2>2 DEF Quiet, ThreadRecord, Busy, AnswerKind
  <2> QED BY <1>2, <2>3
<1>8. ASSUME Close(s) PROVE Conversation'
  <2> DEFINE d == [wire[s] EXCEPT !.shut = TRUE, !.inbox = <<>>]
             t == [thread[s] EXCEPT !.pc = "ENDED", !.request = NoRequest, !.granted = FALSE,
                                    !.answer = "REFUSED"]
  <2>1. d.inbox = <<>> /\ d.outbox = wire[s].outbox /\ t.pc = "ENDED"
    BY <1>1 DEF Connection, ThreadRecord
  <2>2. /\ thread' = [thread EXCEPT ![s] = t]
        /\ wire' = [wire EXCEPT ![s] = d] /\ UNCHANGED <<worker, told>>
    BY <1>8 DEF Close, clients
  <2> HIDE DEF d, t
  <2>3. Quiet(t, d)
    BY <1>1, <2>1, <2>2 DEF Quiet, Busy
  <2> QED BY <1>2, <2>3
<1>9. ASSUME Read(s) \/ RegisterPublisher(s) \/ EnterMap(s) \/ WriteFields(s) \/ CaptureAuthority(s)
      PROVE  Conversation'
  <2>1. UNCHANGED <<worker, told, wire>>
    BY <1>9 DEF Read, RegisterPublisher, EnterMap, WriteFields, CaptureAuthority, clients
  <2> DEFINE Goes(t) ==
        /\ thread' = [thread EXCEPT ![s] = t]
        /\ thread[s].pc \in Busy /\ t.request = thread[s].request
        /\ t.pc \in Busy /\ (t.pc = "REPLY" => t.answer \notin Accepted)
  <2>2. ASSUME NEW t, Goes(t) PROVE Conversation'
    <3>1. Quiet(t, wire[s])
      BY <1>1, <2>1, <2>2 DEF Quiet
    <3> QED BY <1>2, <3>1
  <2> HIDE DEF Goes
  <2>3. CASE Read(s)
    <3>1. Goes([thread[s] EXCEPT !.pc = "REPLY", !.answer = "READ"])
      BY <1>1, <2>3 DEF Goes, Read, ThreadRecord, Busy, Accepted
    <3> QED BY <2>2, <3>1
  <2>4. CASE RegisterPublisher(s)
    <3>1. PICK pc \in {"MAP", "REPLY"}, answer \in {"REGISTERED", "REFUSED"} :
            thread' = [thread EXCEPT ![s] = [thread[s] EXCEPT !.pc = pc, !.answer = answer]]
      BY <2>4 DEF RegisterPublisher
    <3>2. thread[s].pc = "HANDLE"
      BY <2>4 DEF RegisterPublisher
    <3>3. Goes([thread[s] EXCEPT !.pc = pc, !.answer = answer])
      BY <1>1, <3>1, <3>2 DEF Goes, ThreadRecord, Busy, Accepted
    <3> QED BY <2>2, <3>3
  <2>5. CASE EnterMap(s)
    <3>1. PICK q : thread' = [thread EXCEPT ![s] = [thread[s] EXCEPT !.pc = "FIELDS", !.previous = q]]
      BY <2>5 DEF EnterMap
    <3>2. Goes([thread[s] EXCEPT !.pc = "FIELDS", !.previous = q])
      BY <1>1, <2>5, <3>1 DEF Goes, EnterMap, ThreadRecord, Busy, Accepted
    <3> QED BY <2>2, <3>2
  <2>6. CASE WriteFields(s)
    <3>1. thread[s].answer = "REGISTERED" /\ thread[s].pc = "FIELDS"
      BY <1>1, <2>6 DEF WriteFields, Carries
    <3>2. PICK pc \in {"REPLY", "FENCE"} : thread' = [thread EXCEPT ![s] = [thread[s] EXCEPT !.pc = pc]]
      BY <2>6 DEF WriteFields
    <3>3. Goes([thread[s] EXCEPT !.pc = pc])
      BY <1>1, <3>1, <3>2 DEF Goes, ThreadRecord, Busy, Accepted
    <3> QED BY <2>2, <3>3
  <2>7. CASE CaptureAuthority(s)
    <3>1. PICK g : thread' = [thread EXCEPT ![s] = [thread[s] EXCEPT !.pc = "LOCK", !.granted = g]]
      BY <2>7 DEF CaptureAuthority
    <3>2. Goes([thread[s] EXCEPT !.pc = "LOCK", !.granted = g])
      BY <1>1, <2>7, <3>1 DEF Goes, CaptureAuthority, ThreadRecord, Busy, Accepted
    <3> QED BY <2>2, <3>2
  <2> QED BY <1>9, <2>3, <2>4, <2>5, <2>6, <2>7
<1>10. ASSUME Mutate(s) PROVE Conversation'
  <2>1. /\ UNCHANGED <<worker, told, wire>> /\ thread[s].pc = "LOCK"
        /\ thread[s].request \in Mutation
    BY <1>1, <1>10 DEF Mutate, clients, Carries
  <2>2. PICK answer : /\ thread' = [thread EXCEPT ![s] = [thread[s] EXCEPT !.pc = "REPLY", !.answer = answer]]
                      /\ answer \in Accepted => Accepts(s) \/ IsReplay(thread[s].request)
    <3>1. Me(s) \in Identity
      BY <1>1, <1>10 DEF Mutate, Carries, Me
    <3> DEFINE Answered(a) ==
          thread' = [thread EXCEPT ![s] = [thread[s] EXCEPT !.pc = "REPLY", !.answer = a]]
    <3>2. \/ Answered("APPLIED") /\ Accepts(s)
          \/ Answered("IDEMPOTENT") /\ IsReplay(thread[s].request)
          \/ Answered("REFUSED")
      BY <1>10, <2>1, <3>1 DEF Mutate, Accepts, Entry, registry
    <3> QED BY <3>2 DEF Accepted
  <2>3. Accepts(s) => thread[s].request \in Done'
    <3> SUFFICES ASSUME Accepts(s) PROVE thread[s].request \in Done'
      OBVIOUS
    <3>1. applied \in Seq(Acceptance) /\ Entry(s) \in Acceptance
      BY DEF TypeInv, ServerTypeOK, Accepts, Entry, Mutation, Identity, Acceptance
    <3>2. /\ Len(applied) + 1 \in DOMAIN applied'
          /\ applied'[Len(applied) + 1] = Entry(s)
      BY <3>1, AppendProperties, LenProperties DEF Accepts
    <3> QED BY <2>1, <3>2 DEF Done, Entry
  <2>4. IsReplay(thread[s].request) => thread[s].request \in Done'
    BY <1>1, <2>1, RememberedIsDone
  <2>5. Quiet([thread[s] EXCEPT !.pc = "REPLY", !.answer = answer], wire[s])
    BY <1>1, <2>1, <2>2, <2>3, <2>4 DEF Quiet, ThreadRecord, Busy
  <2> QED BY <1>2, <2>5
<1> QED BY <1>5, <1>6, <1>7, <1>8, <1>9, <1>10 DEF Thread

\* The steps that move a request or an answer.
LEMMA MovingSteps ==
  ASSUME TypeInv, Conversation, [Next]_serverVars, NEW s \in Session
  PROVE  /\ ReadRequest(s) => Conversation'
         /\ Reply(s) => Conversation'
         /\ FencePrevious(s) => Conversation'
<1>1. /\ thread \in [Session -> ThreadRecord] /\ thread[s] \in ThreadRecord
      /\ wire \in [Session -> Connection] /\ wire[s] \in Connection
      /\ wire[s].inbox \in Seq(Request) /\ wire[s].outbox \in Seq(Frame)
      /\ worker[s] \in WorkerRecord
      /\ Carries(s) /\ Exchange(thread[s], worker[s], wire[s], Done) /\ told \subseteq Done
      /\ Done \subseteq Done'
  BY Types, DoneGrows DEF Conversation
<1>2. ASSUME ReadRequest(s) PROVE Conversation'
  <2> DEFINE t == [thread[s] EXCEPT !.pc = "COUNTED", !.request = Head(wire[s].inbox)]
             d == [wire[s] EXCEPT !.inbox = Tail(wire[s].inbox)]
  <2>1. /\ thread' = [thread EXCEPT ![s] = t] /\ wire' = [wire EXCEPT ![s] = d]
        /\ UNCHANGED <<worker, told>> /\ thread[s].pc = "READ" /\ wire[s].inbox # <<>>
    BY <1>2 DEF ReadRequest, clients, At
  <2>2. /\ t.pc = "COUNTED" /\ t.request = Head(wire[s].inbox)
        /\ d.inbox = Tail(wire[s].inbox) /\ d.outbox = wire[s].outbox
    BY <1>1 DEF ThreadRecord, Connection
  <2>3. thread'[s] = t /\ wire'[s] = d
    BY <1>1, <2>1
  <2> HIDE DEF t, d
  <2>4. ASSUME worker[s].state \notin Deaf
        PROVE  /\ worker[s].state = "WAITING" /\ t.request = worker[s].asked /\ d.inbox = <<>>
               /\ Answers(d.outbox) = {}
    <3>1. worker[s].state = "WAITING" /\ wire[s].inbox = <<worker[s].asked>>
      BY <1>1, <2>1, <2>4 DEF Exchange, Deaf
    <3>2. Head(<<worker[s].asked>>) = worker[s].asked /\ Tail(<<worker[s].asked>>) = <<>>
      OBVIOUS
    <3>3. Answers(wire[s].outbox) = {}
      BY <1>1, <2>1, <2>4 DEF Exchange, Deaf
    <3> QED BY <2>2, <3>1, <3>2, <3>3
  <2>5. Exchange(t, worker[s], d, Done')
    BY <2>2, <2>4 DEF Exchange, Deaf
  <2> QED BY <1>1, <2>1, <2>3, <2>5, OthersConverse
<1>3. ASSUME Reply(s) PROVE Conversation'
  <2> DEFINE f == [kind |-> thread[s].request.kind, answer |-> thread[s].answer]
             t == [thread[s] EXCEPT !.pc = "AFTER", !.request = NoRequest, !.granted = FALSE,
                                    !.answer = "REFUSED"]
             d == [wire[s] EXCEPT !.outbox = Delivered(s, f)]
  <2>1. /\ thread' = [thread EXCEPT ![s] = t] /\ wire' = [wire EXCEPT ![s] = d]
        /\ UNCHANGED <<worker, told>> /\ thread[s].pc = "REPLY" /\ ~wire[s].shut
    BY <1>3 DEF Reply, clients, At
  <2>2. f \in Frame /\ f.answer = thread[s].answer
    BY <1>1, <2>1 DEF Carries, Fits
  <2>3. t.pc = "AFTER" /\ d.inbox = wire[s].inbox /\ d.outbox = Delivered(s, f)
    BY <1>1 DEF ThreadRecord, Connection
  <2>4. thread'[s] = t /\ wire'[s] = d
    BY <1>1, <2>1
  <2> HIDE DEF f, t, d
  <2>5. CASE worker[s].state \in Deaf
    <3>1. Exchange(t, worker[s], d, Done')
      BY <2>3, <2>5 DEF Exchange, Deaf
    <3> QED BY <1>1, <2>1, <2>4, <3>1, OthersConverse
  <2>6. CASE worker[s].state \notin Deaf
    <3>1. d.outbox = Append(wire[s].outbox, f)
      BY <2>1, <2>3, <2>6 DEF Delivered
    <3>2. /\ worker[s].state = "WAITING" /\ thread[s].request = worker[s].asked
          /\ wire[s].inbox = <<>> /\ Answers(wire[s].outbox) = {}
          /\ f.answer \in Accepted => worker[s].asked \in Done
      BY <1>1, <2>1, <2>2, <2>6 DEF Exchange, Deaf, Busy
    <3> DEFINE n == Len(wire[s].outbox)
    <3>3. /\ n \in Nat /\ DOMAIN wire[s].outbox = 1 .. n /\ DOMAIN d.outbox = 1 .. n + 1
          /\ d.outbox[n + 1] = f
          /\ \A j \in 1 .. n : d.outbox[j] = wire[s].outbox[j]
      BY <1>1, <2>2, <3>1, AppendProperties, LenProperties
    <3>4. Answers(d.outbox) \subseteq {n + 1}
      <4>1. \A j \in 1 .. n : wire[s].outbox[j].kind \notin AnswerKind
        BY <3>2, <3>3 DEF Answers
      <4>2. \A j \in 1 .. n : d.outbox[j].kind \notin AnswerKind
        BY <3>3, <4>1
      <4> QED BY <3>3, <4>2 DEF Answers
    <3>5. Exchange(t, worker[s], d, Done')
      BY <1>1, <2>3, <3>2, <3>3, <3>4 DEF Exchange, Deaf, Busy
    <3> QED BY <1>1, <2>1, <2>4, <3>5, OthersConverse
  <2> QED BY <2>5, <2>6
<1>4. ASSUME FencePrevious(s) PROVE Conversation'
  <2> DEFINE p == thread[s].previous
             f == [kind |-> "FENCE_NOTICE"]
             t == [thread[s] EXCEPT !.pc = "REPLY", !.previous = NoSession]
             d == [wire[p] EXCEPT !.shut = TRUE, !.outbox = Delivered(p, f)]
  <2>1. /\ thread' = [thread EXCEPT ![s] = t] /\ wire' = [wire EXCEPT ![p] = d]
        /\ UNCHANGED <<worker, told>> /\ thread[s].pc = "FENCE"
    BY <1>4 DEF FencePrevious, clients, At
  <2>2. p \in Session /\ thread[s].answer = "REGISTERED"
    BY <1>1, <2>1 DEF Carries
  <2>3. /\ wire[p] \in Connection /\ f \in Frame /\ f.kind \notin AnswerKind
        /\ Exchange(thread[p], worker[p], wire[p], Done)
    BY <2>2, Types DEF Frame, AnswerKind, Conversation
  <2>4. t.pc = "REPLY" /\ t.request = thread[s].request /\ t.answer = "REGISTERED"
    BY <1>1, <2>2 DEF ThreadRecord
  <2>5. d.inbox = wire[p].inbox /\ d.outbox \in {wire[p].outbox, Append(wire[p].outbox, f)}
    BY <2>3 DEF Connection, Delivered
  <2>6. /\ thread'[s] = t /\ wire'[p] = d
        /\ \A x \in Session \ {s} : thread'[x] = thread[x]
        /\ \A x \in Session \ {p} : wire'[x] = wire[x]
    BY <1>1, <2>1, <2>2
  <2> HIDE DEF p, f, t, d
  <2>7. ASSUME NEW x \in Session PROVE Exchange(thread'[x], worker[x], wire'[x], Done')
    <3>1. /\ Exchange(thread[x], worker[x], wire[x], Done) /\ wire[x] \in Connection
          /\ \/ wire'[x] = wire[x]
             \/ /\ wire'[x].inbox = wire[x].inbox
                /\ wire'[x].outbox \in {wire[x].outbox, Append(wire[x].outbox, f)}
      BY <2>5, <2>6, Types DEF Conversation
    <3>2. CASE x = s
      <4>1. wire'[s].outbox = wire[s].outbox
              \/ \E g \in Frame : g.kind \notin AnswerKind /\ wire'[s].outbox = Append(wire[s].outbox, g)
        BY <2>3, <3>1, <3>2
      <4>2. /\ thread'[s].pc = "REPLY" /\ thread[s].pc \in Busy
            /\ thread'[s].request = thread[s].request
            /\ thread'[s].answer \in Accepted => thread'[s].request \in Done'
        BY <2>1, <2>4, <2>6 DEF Busy, Accepted
      <4>3. wire'[s].inbox = wire[s].inbox
        BY <3>1, <3>2
      <4>4. Exchange(thread'[s], worker[s], wire'[s], Done')
        BY <1>1, <4>1, <4>2, <4>3, ExchangeKept
      <4> QED BY <3>2, <4>4
    <3>3. CASE x # s
      <4>1. Exchange(thread[x], worker[x], wire[x], Done')
        BY <1>1, <3>1 DEF Exchange, Deaf
      <4>2. Answers(wire'[x].outbox) = Answers(wire[x].outbox)
            /\ \A j \in Answers(wire[x].outbox) : wire'[x].outbox[j] = wire[x].outbox[j]
        <5>1. wire[x].outbox \in Seq(Frame)
          BY <3>1 DEF Connection
        <5> QED BY <2>3, <3>1, <5>1, NoticeIsNoAnswer
      <4> QED BY <2>6, <3>1, <3>3, <4>1, <4>2 DEF Exchange, Deaf
    <3> QED BY <3>2, <3>3
  <2> QED BY <1>1, <2>1, <2>7 DEF Conversation
<1> QED BY <1>2, <1>3, <1>4

\* The steps of a worker.
LEMMA WorkerConverses ==
  ASSUME TypeInv, Conversation, [Next]_serverVars, NEW s \in Session, Worker(s)
  PROVE  Conversation'
<1>1. /\ thread \in [Session -> ThreadRecord] /\ thread[s] \in ThreadRecord
      /\ wire \in [Session -> Connection] /\ wire[s] \in Connection
      /\ wire[s].inbox \in Seq(Request) /\ wire[s].outbox \in Seq(Frame)
      /\ worker \in [Session -> WorkerRecord] /\ worker[s] \in WorkerRecord
      /\ Carries(s) /\ Exchange(thread[s], worker[s], wire[s], Done) /\ told \subseteq Done
      /\ Done \subseteq Done'
  BY Types, DoneGrows DEF Conversation
<1>2. ASSUME NEW i \in Identity, connect(s, i) PROVE Conversation'
  <2>1. /\ thread' = [thread EXCEPT ![s] = [thread[s] EXCEPT !.pc = "BACKLOG"]]
        /\ worker' = [worker EXCEPT ![s] = [worker[s] EXCEPT !.state = "NEW", !.identity = i]]
        /\ worker[s].state = "AWAY" /\ UNCHANGED <<wire, told>>
    BY <1>2 DEF connect, Goto
  <2>2. /\ thread'[s].pc = "BACKLOG" /\ worker'[s].state = "NEW"
        /\ \A x \in Session \ {s} : thread'[x] = thread[x] /\ worker'[x] = worker[x]
    BY <1>1, <2>1 DEF ThreadRecord, WorkerRecord
  <2>3. wire[s].inbox = <<>> /\ Answers(wire[s].outbox) = {}
    BY <1>1, <2>1 DEF Exchange, Deaf
  <2>4. Exchange(thread'[s], worker'[s], wire'[s], Done')
    BY <2>1, <2>2, <2>3 DEF Exchange, Deaf, Busy
  <2> QED BY <1>1, <2>1, <2>2, <2>4, OthersConverse
<1>3. ASSUME NEW r \in Request, Send(s, r) PROVE Conversation'
  <2>1. /\ worker' = [worker EXCEPT ![s] = [worker[s] EXCEPT !.state = "WAITING", !.asked = r]]
        /\ wire' = [wire EXCEPT ![s] = [wire[s] EXCEPT !.inbox = Append(wire[s].inbox, r)]]
        /\ worker[s].state \in {"NEW", "GREETED", "READY"} /\ UNCHANGED <<thread, told>>
    BY <1>3 DEF Send, Request
  <2>2. wire[s].inbox = <<>> /\ Answers(wire[s].outbox) = {} /\ thread[s].pc \notin Busy
    BY <1>1, <2>1 DEF Exchange, Deaf
  <2>3. /\ worker'[s].state = "WAITING" /\ worker'[s].asked = r
        /\ wire'[s].inbox = <<r>> /\ wire'[s].outbox = wire[s].outbox
        /\ \A x \in Session \ {s} : worker'[x] = worker[x] /\ wire'[x] = wire[x]
    BY <1>1, <2>1, <2>2 DEF WorkerRecord, Connection
  <2>4. Exchange(thread'[s], worker'[s], wire'[s], Done')
    BY <2>1, <2>2, <2>3 DEF Exchange, Deaf, Busy
  <2> QED BY <1>1, <2>1, <2>3, <2>4, OthersConverse
<1>4. ASSUME Receive(s) PROVE Conversation'
  <2> DEFINE frame == Head(wire[s].outbox)
             mine  == frame.kind = worker[s].asked.kind
  <2>1. /\ wire' = [wire EXCEPT ![s] = [wire[s] EXCEPT !.outbox = Tail(wire[s].outbox)]]
        /\ worker[s].state = "WAITING" /\ wire[s].outbox # <<>> /\ UNCHANGED thread
        /\ told' = IF mine /\ frame.answer \in Accepted THEN told \cup {worker[s].asked} ELSE told
    BY <1>4 DEF Receive
  <2>2. PICK next : /\ worker' = [worker EXCEPT ![s] = [worker[s] EXCEPT !.state = next, !.asked = NoRequest]]
                    /\ ~mine => next = "GONE"
    BY <1>4 DEF Receive
  <2>3. worker[s].asked.kind \in AnswerKind
    BY <1>1, <2>1 DEF Carries, Request, Registration, Mutation, Query, AnswerKind
  <2>4. /\ 1 \in DOMAIN wire[s].outbox /\ frame = wire[s].outbox[1]
        /\ DOMAIN Tail(wire[s].outbox) = 1 .. Len(wire[s].outbox) - 1
        /\ DOMAIN wire[s].outbox = 1 .. Len(wire[s].outbox) /\ Len(wire[s].outbox) \in Nat
        /\ \A j \in 1 .. Len(wire[s].outbox) - 1 : Tail(wire[s].outbox)[j] = wire[s].outbox[j + 1]
    BY <1>1, <2>1, HeadTailProperties, LenProperties, EmptySeq
  <2>5. mine => /\ wire[s].inbox = <<>> /\ thread[s].pc \notin Busy
                /\ frame.answer \in Accepted => worker[s].asked \in Done
                /\ Answers(Tail(wire[s].outbox)) = {}
    <3> SUFFICES ASSUME mine
                 PROVE  /\ wire[s].inbox = <<>> /\ thread[s].pc \notin Busy
                        /\ frame.answer \in Accepted => worker[s].asked \in Done
                        /\ Answers(Tail(wire[s].outbox)) = {}
      OBVIOUS
    <3>1. 1 \in Answers(wire[s].outbox)
      BY <2>3, <2>4 DEF Answers
    <3>2. \A j \in Answers(Tail(wire[s].outbox)) : j \in Nat \ {0} /\ j + 1 \in Answers(wire[s].outbox)
      BY <2>4 DEF Answers
    <3>3. \A j \in Answers(wire[s].outbox) : j = 1
      BY <1>1, <2>1, <3>1 DEF Exchange, Deaf
    <3>4. Answers(Tail(wire[s].outbox)) = {}
      BY <3>2, <3>3
    <3> QED BY <1>1, <2>1, <2>4, <3>1, <3>4 DEF Exchange, Deaf
  <2>6. /\ worker'[s].state = next
        /\ wire'[s].inbox = wire[s].inbox /\ wire'[s].outbox = Tail(wire[s].outbox)
        /\ \A x \in Session \ {s} : worker'[x] = worker[x] /\ wire'[x] = wire[x]
    BY <1>1, <2>1, <2>2 DEF WorkerRecord, Connection
  <2>7. told' \subseteq Done'
    BY <1>1, <2>1, <2>5
  <2>8. thread[s].pc = "REPLY" /\ thread[s].answer \in Accepted => thread[s].request \in Done'
    BY <1>1 DEF Exchange, Deaf
  <2>9. Exchange(thread'[s], worker'[s], wire'[s], Done')
    BY <2>1, <2>2, <2>5, <2>6, <2>8 DEF Exchange, Deaf
  <2> QED BY <1>1, <2>1, <2>6, <2>7, <2>9, OthersConverse
<1>5. ASSUME Leave(s) PROVE Conversation'
  <2>1. /\ worker' = [worker EXCEPT ![s] = [worker[s] EXCEPT !.state = "GONE", !.asked = NoRequest]]
        /\ wire' = [wire EXCEPT ![s] = [wire[s] EXCEPT !.outbox = <<>>]] /\ UNCHANGED <<thread, told>>
    BY <1>5 DEF Leave
  <2>2. /\ worker'[s].state = "GONE"
        /\ \A x \in Session \ {s} : worker'[x] = worker[x] /\ wire'[x] = wire[x]
    BY <1>1, <2>1 DEF WorkerRecord
  <2>3. Exchange(thread'[s], worker'[s], wire'[s], Done')
    BY <1>1, <2>1, <2>2 DEF Exchange, Deaf
  <2> QED BY <1>1, <2>1, <2>2, <2>3, OthersConverse
<1>6. ASSUME FallSilent(s) PROVE Conversation'
  <2>1. /\ worker' = [worker EXCEPT ![s] = [worker[s] EXCEPT !.state = "SILENT", !.asked = NoRequest]]
        /\ wire' = [wire EXCEPT ![s] = [wire[s] EXCEPT !.outbox = <<>>]] /\ UNCHANGED <<thread, told>>
    BY <1>6 DEF FallSilent
  <2>2. /\ worker'[s].state = "SILENT"
        /\ \A x \in Session \ {s} : worker'[x] = worker[x] /\ wire'[x] = wire[x]
    BY <1>1, <2>1 DEF WorkerRecord
  <2>3. Exchange(thread'[s], worker'[s], wire'[s], Done')
    BY <1>1, <2>1, <2>2 DEF Exchange, Deaf
  <2> QED BY <1>1, <2>1, <2>2, <2>3, OthersConverse
<1> QED BY <1>2, <1>3, <1>4, <1>5, <1>6 DEF Worker

\* Every step keeps every conversation in order.
LEMMA ConversationNext == TypeInv /\ Kept /\ Conversation /\ [Next]_serverVars => Conversation'
<1> SUFFICES ASSUME TypeInv, Kept, Conversation, [Next]_serverVars PROVE Conversation'
  OBVIOUS
<1>1. ASSUME NEW s \in Session, accept(s) \/ Thread(s) PROVE Conversation'
  BY <1>1, QuietSteps, MovingSteps
<1>2. ASSUME NEW s \in Session, Worker(s) PROVE Conversation'
  BY <1>2, WorkerConverses
<1>3. ASSUME Stop \/ Join \/ UNCHANGED serverVars PROVE Conversation'
  <2>1. wire \in [Session -> Connection] /\ Done \subseteq Done'
    BY DoneGrows DEF TypeInv, ServerTypeOK
  <2>2. UNCHANGED <<thread, worker, told>>
    BY <1>3 DEF Stop, Join, serverVars, clients
  <2>3. \A x \in Session : wire'[x].inbox = wire[x].inbox /\ wire'[x].outbox = wire[x].outbox
    BY <1>3, <2>1 DEF Stop, Join, serverVars, Connection
  <2>4. ASSUME NEW x \in Session PROVE Exchange(thread[x], worker[x], wire'[x], Done')
    <3>1. Exchange(thread[x], worker[x], wire[x], Done)
      BY DEF Conversation
    <3> QED BY <2>1, <2>3, <3>1 DEF Exchange, Deaf
  <2> QED BY <2>1, <2>2, <2>4 DEF Conversation
<1> QED BY <1>1, <1>2, <1>3 DEF Next

\* What a worker was told is accepted has been applied, attempt and payload.
THEOREM AnswersAreAlwaysTrue == ServerSpec => []AnswersAreTrue
<1>1. Init => Conversation
  BY DEF Init, Conversation, Exchange, Deaf, Answers, Busy
<1>2. Conversation => AnswersAreTrue
  BY DEF Conversation, AnswersAreTrue, Done
<1> QED BY <1>1, <1>2, TypeInvariant, WindowInvariant, ConversationNext, PTL DEF ServerSpec

=============================================================================
