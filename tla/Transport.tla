------------------------------- MODULE Transport -------------------------------
(***************************************************************************)
(* One connection, one way: threads that write frames, bytes that arrive in *)
(* parts, and a reader with a deadline (src/transport.cpp, the frame codec  *)
(* of src/protocol.cpp).  Nothing orders two writers: the thread of a       *)
(* session writes its answers, the thread of the session that replaces it   *)
(* writes a fence notice on the same connection.                            *)
(*                                                                         *)
(* Bytes are cells that say which frame they are of and where in it.        *)
(***************************************************************************)
EXTENDS Naturals, Sequences

CONSTANTS
  Writer,
  Length,                   \* of payloads, in cells
  HeaderCells, TagCells,    \* kWireHeaderBytes, kWireTagBytes
  WriterLimit, ReaderLimit, \* max_frame_bytes at the two ends
  Deadline,                 \* deadline_ms, 0 for none
  Buffer,                   \* what the two sockets hold on the way
  MaxFrames                 \* bound of the model: frames per writer

ASSUME TransportAssumption ==
  /\ Length \subseteq Nat /\ HeaderCells \in Nat \ {0} /\ TagCells \in Nat \ {0}
  /\ WriterLimit \in Nat /\ ReaderLimit \in Nat /\ Deadline \in Nat
  /\ Buffer \in Nat \ {0} /\ MaxFrames \in Nat

VARIABLES
  begun,       \* per writer: the payload lengths of the frames it began to write
  progress,    \* per writer: the cells of its frame that send() has taken, 0 for none
  wire, conn,  \* the cells on their way, and what the socket is: OPEN, SHUT, LOST
  reader,      \* the call of read_frame, if any
  received,    \* per writer: the payloads that read_frame returned
  overlapped   \* history: a writer wrote while another was in the middle of a frame

transportVars == <<begun, progress, wire, conn, reader, received, overlapped>>

Size(length) == HeaderCells + length + TagCells

\* encode_frame: w's frame i, with a payload of this length.
encode_frame(w, i, length) ==
  [at \in 1 .. Size(length) |-> [writer |-> w, frame |-> i, at |-> at]]

Frame(w, i)    == encode_frame(w, i, begun[w][i])
HeaderOf(w, i) == SubSeq(Frame(w, i), 1, HeaderCells)
PayloadOf(frame) == SubSeq(frame, HeaderCells + 1, Len(frame) - TagCells)

Busy(w)   == progress[w] # 0
Reading   == reader.phase \in {"HEADER", "BODY"}
Complete  == Len(reader.got) = reader.want

NoRead == [phase |-> "IDLE", got |-> <<>>, want |-> 0, elapsed |-> 0, total |-> 0]

Init ==
  /\ begun = [w \in Writer |-> <<>>] /\ progress = [w \in Writer |-> 0]
  /\ wire = <<>> /\ conn = "OPEN"
  /\ reader = NoRead
  /\ received = [w \in Writer |-> <<>>]
  /\ overlapped = FALSE

-----------------------------------------------------------------------------
(* Writing.                                                                 *)

\* Mutation: a loop that starts again from the first byte.
send_from_start(w, frame, from, k) ==
  /\ Len(wire) + k <= Buffer
  /\ wire' = wire \o SubSeq(frame, 1, k)
  /\ progress' = [progress EXCEPT ![w] = IF from + k = Len(frame) THEN 0 ELSE from + k]
  /\ overlapped' = (overlapped \/ \E v \in Writer \ {w} : Busy(v))

\* send() takes the next k cells of w's frame: all that are left, or fewer; it blocks
\* while there is no room.
send(w, frame, from, k) ==
  /\ Len(wire) + k <= Buffer
  /\ wire' = wire \o SubSeq(frame, from + 1, from + k)
  /\ progress' = [progress EXCEPT ![w] = IF from + k = Len(frame) THEN 0 ELSE from + k]
  /\ overlapped' = (overlapped \/ \E v \in Writer \ {w} : Busy(v))

\* write_frame and its first send(); a payload over the limit gives no frame.
write_frame(w, length) ==
  /\ conn = "OPEN" /\ ~Busy(w) /\ Len(begun[w]) < MaxFrames
  /\ length <= WriterLimit
  /\ begun' = [begun EXCEPT ![w] = Append(@, length)]
  /\ \E k \in 1 .. Size(length) :
       send(w, encode_frame(w, Len(begun[w]) + 1, length), 0, k)
  /\ UNCHANGED <<conn, reader, received>>

\* send_all goes on where the last send() stopped.
send_all(w) ==
  /\ conn = "OPEN" /\ Busy(w)
  /\ LET frame == Frame(w, Len(begun[w])) IN
     \E k \in 1 .. Len(frame) - progress[w] : send(w, frame, progress[w], k)
  /\ UNCHANGED <<begun, conn, reader, received>>

\* ... and gives up when the socket fails it.
SendFails(w) ==
  /\ conn # "OPEN" /\ Busy(w)
  /\ progress' = [progress EXCEPT ![w] = 0]
  /\ UNCHANGED <<begun, wire, conn, reader, received, overlapped>>

\* Another thread's shutdown: what was sent still arrives.
shutdown ==
  /\ conn = "OPEN" /\ conn' = "SHUT"
  /\ UNCHANGED <<begun, progress, wire, reader, received, overlapped>>

\* The connection is reset: what was sent is gone.
Lost ==
  /\ conn # "LOST" /\ conn' = "LOST" /\ wire' = <<>>
  /\ UNCHANGED <<begun, progress, reader, received, overlapped>>

-----------------------------------------------------------------------------
(* Reading.                                                                 *)

StartRead ==
  /\ reader.phase = "IDLE"
  /\ reader' = [NoRead EXCEPT !.phase = "HEADER", !.want = HeaderCells]
  /\ UNCHANGED <<begun, progress, wire, conn, received, overlapped>>

InTime == Deadline = 0 \/ reader.elapsed < Deadline

\* Mutation: every byte that arrives restarts the clock.
recv_restarts_clock ==
  /\ Reading /\ ~Complete /\ InTime
  /\ conn # "LOST"
  /\ \E k \in 1 .. Len(wire) :
       /\ Len(reader.got) + k <= reader.want
       /\ reader' = [reader EXCEPT !.got = @ \o SubSeq(wire, 1, k), !.elapsed = 0]
       /\ wire' = SubSeq(wire, k + 1, Len(wire))
  /\ UNCHANGED <<begun, progress, conn, received, overlapped>>

\* receive_exactly takes what is there, up to what it wants.
recv ==
  /\ Reading /\ ~Complete /\ InTime
  /\ conn # "LOST"
  /\ \E k \in 1 .. Len(wire) :
       /\ Len(reader.got) + k <= reader.want
       /\ reader' = [reader EXCEPT !.got = @ \o SubSeq(wire, 1, k)]
       /\ wire' = SubSeq(wire, k + 1, Len(wire))
  /\ UNCHANGED <<begun, progress, conn, received, overlapped>>

\* Time passes; select() wakes at the deadline, which is not exceeded.
Tick ==
  /\ Reading /\ ~Complete /\ Deadline # 0 /\ reader.elapsed < Deadline
  /\ reader' = [reader EXCEPT !.elapsed = @ + 1, !.total = @ + 1]
  /\ UNCHANGED <<begun, progress, wire, conn, received, overlapped>>

\* A defect ends the session or the call, and its owner closes the connection.
Defect(phase) ==
  /\ reader' = [NoRead EXCEPT !.phase = phase, !.total = reader.total]
  /\ conn' = "LOST" /\ wire' = <<>>
  /\ UNCHANGED <<begun, progress, received, overlapped>>

\* The payload lengths that a header can declare.  One made of two frames says
\* anything, or nothing that is a header.
Declared ==
  LET frames == {f \in Writer \X (1 .. MaxFrames) :
                   f[2] <= Len(begun[f[1]]) /\ reader.got = HeaderOf(f[1], f[2])}
  IN  IF frames # {} THEN {begun[f[1]][f[2]] : f \in frames} ELSE Length

IsTorn == ~\E w \in Writer : \E i \in DOMAIN begun[w] : reader.got = HeaderOf(w, i)

\* Mutation: a header that asks for more than the reader's limit is believed.
AnyFits(length) == TRUE

Fits(length) == length <= ReaderLimit

\* The header is whole: the rest is read under a deadline of its own.
ParseHeader ==
  /\ reader.phase = "HEADER" /\ Complete
  /\ \/ \E length \in Declared :
          IF ~Fits(length)
          THEN Defect("FRAME_TOO_LARGE")
          ELSE /\ reader' = [reader EXCEPT !.phase = "BODY", !.elapsed = 0,
                               !.want = Size(length)]
               /\ UNCHANGED <<begun, progress, wire, conn, received, overlapped>>
     \/ IsTorn /\ Defect("BAD_FRAME")

\* Mutation: the tag is taken for granted.
HeaderMatches(w, i) ==
  /\ Len(reader.got) = Len(Frame(w, i))
  /\ SubSeq(reader.got, 1, HeaderCells) = HeaderOf(w, i)

\* decode_frame: the tag matches these bytes and no others.
Matches(w, i) == reader.got = Frame(w, i)

DecodeFrame ==
  /\ reader.phase = "BODY" /\ Complete
  /\ LET frames == {f \in Writer \X (1 .. MaxFrames) :
                      f[2] <= Len(begun[f[1]]) /\ Matches(f[1], f[2])}
     IN IF frames = {}
        THEN Defect("BAD_FRAME")
        ELSE /\ \E f \in frames :
                  received' = [received EXCEPT ![f[1]] = Append(@, PayloadOf(reader.got))]
             /\ reader' = [NoRead EXCEPT !.total = reader.total]
             /\ UNCHANGED <<begun, progress, wire, conn, overlapped>>

ReceiveTimesOut == Reading /\ ~Complete /\ ~InTime /\ Defect("PEER_TIMEOUT")

\* recv() returns 0 after the last byte, or fails.
PeerClosed == Reading /\ ~Complete /\ InTime /\ conn = "SHUT" /\ wire = <<>> /\ Defect("PEER_CLOSED")
ReadFails  == Reading /\ ~Complete /\ InTime /\ conn = "LOST" /\ Defect("TRUNCATED")

-----------------------------------------------------------------------------
Write(w) == (\E length \in Length : write_frame(w, length)) \/ send_all(w) \/ SendFails(w)

Read ==
  \/ StartRead \/ recv \/ Tick
  \/ ParseHeader \/ DecodeFrame
  \/ ReceiveTimesOut \/ PeerClosed \/ ReadFails

Next == (\E w \in Writer : Write(w)) \/ Read \/ shutdown \/ Lost

TransportSpec == Init /\ [][Next]_transportVars

-----------------------------------------------------------------------------
Cell == [writer : Writer, frame : Nat, at : Nat]

\* Every variable has its type, and no header makes the reader take more than its
\* own limit allows (transport.cpp, read_frame: the check before the allocation).
TransportTypeOK ==
  /\ begun \in [Writer -> Seq(Length)] /\ received \in [Writer -> Seq(Seq(Cell))]
  /\ progress \in [Writer -> Nat]
  /\ wire \in Seq(Cell) /\ conn \in {"OPEN", "SHUT", "LOST"}
  /\ reader \in [phase : {"IDLE", "HEADER", "BODY", "FRAME_TOO_LARGE", "BAD_FRAME",
                          "PEER_TIMEOUT", "PEER_CLOSED", "TRUNCATED"},
                 got : Seq(Cell), want : 0 .. Size(ReaderLimit), elapsed : Nat, total : Nat]
  /\ Len(reader.got) <= reader.want
  /\ overlapped \in BOOLEAN

\* The reader gets of each writer what it wrote, whole and in order, however the
\* bytes of several writers fall: a frame torn by another is never taken for a
\* message (protocol.cpp, decode_frame).
Abstract == INSTANCE Channel WITH
  Message   <- {PayloadOf(encode_frame(w, i, length)) :
                  w \in Writer, i \in 1 .. MaxFrames, length \in Length},
  sent      <- [w \in Writer |-> [i \in DOMAIN begun[w] |-> PayloadOf(Frame(w, i))]],
  delivered <- received

FramesAreWhole == Abstract!Spec

\* Only two writers at once spoil a frame: as long as one waits for the other, a
\* reader with the writers' limit sees its peer vanish or fall silent, and nothing else.
OneWriterNeverTears ==
  reader.phase = "BAD_FRAME" => overlapped

\* README: "a partial frame cannot pin a session forever".  A peer that sends byte by
\* byte holds a reader for no longer than one that is silent, two deadlines in all.
BoundedRead == Deadline # 0 => reader.total <= 2 * Deadline
=============================================================================
