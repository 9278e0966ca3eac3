---------------------------- MODULE TransportProofs ----------------------------
(***************************************************************************)
(* Proofs about Transport: a reader gets whole frames and in order, however *)
(* the bytes of its writers fall, a frame is torn by two writers at once    *)
(* only, and no peer holds a reader for more than two deadlines.            *)
(***************************************************************************)
EXTENDS Transport, SequenceTheorems, TLAPS

CellAt(w, i, at) == [writer |-> w, frame |-> i, at |-> at]
SizeOf(w, i)     == Size(begun[w][i])

-----------------------------------------------------------------------------
(* Frames and the pieces of them.                                           *)

\* A frame is the cells of its size, in order.
LEMMA FrameCells ==
  ASSUME NEW w \in Writer, NEW i \in Nat, NEW length \in Nat
  PROVE  /\ Size(length) \in Nat /\ Size(length) >= HeaderCells
         /\ encode_frame(w, i, length) \in Seq(Cell)
         /\ Len(encode_frame(w, i, length)) = Size(length)
         /\ \A at \in 1 .. Size(length) : encode_frame(w, i, length)[at] = CellAt(w, i, at)
<1>1. Size(length) \in Nat /\ Size(length) >= HeaderCells
  BY TransportAssumption DEF Size
<1>2. \A at \in 1 .. Size(length) : CellAt(w, i, at) \in Cell
  BY <1>1 DEF CellAt, Cell
<1>3. encode_frame(w, i, length) \in [1 .. Size(length) -> Cell]
  BY <1>2 DEF encode_frame, CellAt
<1>4. encode_frame(w, i, length) \in Seq(Cell)
  BY <1>1, <1>3, SeqDef
<1>5. Len(encode_frame(w, i, length)) = Size(length)
  BY <1>1, <1>3, <1>4, LenProperties
<1>6. \A at \in 1 .. Size(length) : encode_frame(w, i, length)[at] = CellAt(w, i, at)
  BY DEF encode_frame, CellAt
<1> QED BY <1>1, <1>4, <1>5, <1>6

\* A piece of a sequence.
LEMMA Piece ==
  ASSUME NEW S, NEW s \in Seq(S), NEW m \in Nat, NEW n \in Nat, m <= n, n <= Len(s)
  PROVE  /\ SubSeq(s, m + 1, n) \in Seq(S)
         /\ Len(SubSeq(s, m + 1, n)) = n - m
         /\ \A j \in 1 .. n - m : SubSeq(s, m + 1, n)[j] = s[m + j]
<1>1. \A j \in m + 1 .. n : s[j] \in S
  BY ElementOfSeq
<1> QED BY <1>1, SubSeqProperties

-----------------------------------------------------------------------------
(* The type invariant, and the two deadlines.                               *)

ReaderType ==
  [phase : {"IDLE", "HEADER", "BODY", "FRAME_TOO_LARGE", "BAD_FRAME",
            "PEER_TIMEOUT", "PEER_CLOSED", "TRUNCATED"},
   got : Seq(Cell), want : 0 .. Size(ReaderLimit), elapsed : Nat, total : Nat]

\* A defect leaves a reader with nothing.
LEMMA DefectTypes ==
  ASSUME TransportTypeOK, NEW phase \in {"FRAME_TOO_LARGE", "BAD_FRAME", "PEER_TIMEOUT",
                                         "PEER_CLOSED", "TRUNCATED"},
         Defect(phase)
  PROVE  TransportTypeOK'
<1>1. <<>> \in Seq(Cell) /\ Len(<<>>) = 0
  BY EmptySeq
<1>2. Size(ReaderLimit) \in Nat
  BY TransportAssumption DEF Size
<1>3. reader' = [phase |-> phase, got |-> <<>>, want |-> 0, elapsed |-> 0, total |-> reader.total]
  BY DEF Defect, NoRead
<1>4. reader' \in ReaderType /\ Len(reader'.got) <= reader'.want
  BY <1>1, <1>2, <1>3 DEF TransportTypeOK, ReaderType
<1>5. wire' \in Seq(Cell) /\ conn' = "LOST" /\ UNCHANGED <<begun, progress, received, overlapped>>
  BY <1>1 DEF Defect
<1> QED BY <1>4, <1>5 DEF TransportTypeOK, ReaderType

\* A step of send(), from inside a frame or from its start.
LEMMA SendTypes ==
  ASSUME TransportTypeOK, NEW w \in Writer, NEW i \in Nat, NEW length \in Nat,
         NEW from \in Nat, NEW k \in Nat, from + k <= Size(length),
         send(w, encode_frame(w, i, length), from, k)
  PROVE  /\ wire' \in Seq(Cell) /\ progress' \in [Writer -> Nat] /\ overlapped' \in BOOLEAN
<1> DEFINE piece == SubSeq(encode_frame(w, i, length), from + 1, from + k)
<1>1. piece \in Seq(Cell)
  <2>1. /\ encode_frame(w, i, length) \in Seq(Cell)
        /\ Len(encode_frame(w, i, length)) = Size(length)
    BY FrameCells
  <2> QED BY <2>1, Piece
<1>2. wire' = wire \o piece /\ wire \in Seq(Cell)
  BY DEF send, TransportTypeOK
<1> HIDE DEF piece
<1>3. wire' \in Seq(Cell)
  BY <1>1, <1>2, ConcatProperties
<1>4. progress' \in [Writer -> Nat] /\ overlapped' \in BOOLEAN
  BY DEF send, TransportTypeOK
<1> QED BY <1>3, <1>4


\* The frame that a busy writer is in: it has begun one, and the rest of it is what is left.
LEMMA InFrame ==
  ASSUME TransportTypeOK, NEW w \in Writer, NEW i \in DOMAIN begun[w]
  PROVE  i \in Nat /\ begun[w][i] \in Length /\ begun[w][i] \in Nat
<1>1. begun[w] \in Seq(Length)
  BY DEF TransportTypeOK
<1>2. begun[w] \in [1 .. Len(begun[w]) -> Length] /\ Len(begun[w]) \in Nat
     /\ DOMAIN begun[w] = 1 .. Len(begun[w])
  BY <1>1, LenProperties
<1>3. i \in 1 .. Len(begun[w])
  BY <1>2
<1>4. begun[w][i] \in Length
  BY <1>2, <1>3
<1>5. Length \subseteq Nat
  BY TransportAssumption DEF TransportAssumption
<1>6. i \in Nat
  BY <1>2, <1>3
<1> QED BY <1>4, <1>5, <1>6

\* What is read is a piece of what is on the wire; the two together do not change.
LEMMA RecvMoves ==
  ASSUME TransportTypeOK, recv
  PROVE  /\ reader'.got \in Seq(Cell) /\ wire' \in Seq(Cell)
         /\ reader'.got \o wire' = reader.got \o wire
         /\ Len(reader.got) <= Len(reader'.got) /\ Len(reader'.got) <= reader.want
         /\ reader' = [reader EXCEPT !.got = reader'.got]
         /\ \A j \in DOMAIN reader.got : reader'.got[j] = reader.got[j]
<1>1. PICK k \in 1 .. Len(wire) :
        /\ Len(reader.got) + k <= reader.want
        /\ reader' = [reader EXCEPT !.got = @ \o SubSeq(wire, 1, k)]
        /\ wire' = SubSeq(wire, k + 1, Len(wire))
  BY DEF recv
<1>2. wire \in Seq(Cell) /\ Len(wire) \in Nat /\ reader.got \in Seq(Cell) /\ Len(reader.got) \in Nat
  BY LenProperties DEF TransportTypeOK
<1> DEFINE head == SubSeq(wire, 1, k)
           tail == SubSeq(wire, k + 1, Len(wire))
<1>3. head \in Seq(Cell) /\ Len(head) = k
  <2>1. head = SubSeq(wire, 0 + 1, k) /\ k - 0 = k
    OBVIOUS
  <2> QED BY <1>2, <2>1, Piece
<1>4. tail \in Seq(Cell)
  BY <1>2, Piece
<1>5. head \o tail = wire
  <2>1. head \o tail = SubSeq(wire, 1, Len(wire))
    BY <1>2, ConcatAdjacentSubSeq
  <2> QED BY <1>2, <2>1, SubSeqFull
<1>6. reader'.got = reader.got \o head /\ reader' = [reader EXCEPT !.got = reader'.got]
  <2>1. reader' = [reader EXCEPT !.got = reader.got \o head]
    BY <1>1
  <2>2. reader \in ReaderType
    BY DEF TransportTypeOK, ReaderType
  <2> HIDE DEF head
  <2>3. reader'.got = reader.got \o head
    BY <2>1, <2>2 DEF ReaderType
  <2> QED BY <2>1, <2>3
<1> HIDE DEF head, tail
<1>7. /\ reader.got \o head \in Seq(Cell)
      /\ Len(reader.got \o head) = Len(reader.got) + k
      /\ \A j \in 1 .. Len(reader.got) + k :
           (reader.got \o head)[j] = IF j <= Len(reader.got) THEN reader.got[j]
                                                             ELSE head[j - Len(reader.got)]
  BY <1>2, <1>3, ConcatProperties
<1>8. \A j \in DOMAIN reader.got : (reader.got \o head)[j] = reader.got[j]
  <2>1. DOMAIN reader.got = 1 .. Len(reader.got)
    BY <1>2, LenProperties
  <2> QED BY <1>2, <1>7, <2>1
<1>9. (reader.got \o head) \o tail = reader.got \o wire
  <2>1. (reader.got \o head) \o tail = reader.got \o (head \o tail)
    <3>1. reader.got \in Seq(Cell) /\ head \in Seq(Cell) /\ tail \in Seq(Cell)
      BY <1>2, <1>3, <1>4
    <3>2. \A a, b, c \in Seq(Cell) : (a \o b) \o c = a \o (b \o c)
      BY ConcatAssociative
    <3> QED BY <3>1, <3>2, Zenon
  <2> QED BY <1>5, <2>1
<1>10. wire' = tail
  BY <1>1 DEF tail
<1>11. reader'.got \in Seq(Cell) /\ wire' \in Seq(Cell) /\ reader'.got \o wire' = reader.got \o wire
  BY <1>4, <1>6, <1>7, <1>9, <1>10
<1>12. Len(reader.got) <= Len(reader'.got) /\ Len(reader'.got) <= reader.want
  BY <1>1, <1>2, <1>6, <1>7
<1> QED BY <1>6, <1>8, <1>11, <1>12

\* What a whole header declares is a length that a writer may have sent.
LEMMA DeclaredLength ==
  ASSUME TransportTypeOK
  PROVE  Declared \subseteq Length
<1> DEFINE frames == {f \in Writer \X (1 .. MaxFrames) :
                        f[2] <= Len(begun[f[1]]) /\ reader.got = HeaderOf(f[1], f[2])}
<1>1. ASSUME NEW f \in frames PROVE begun[f[1]][f[2]] \in Length
  <2>1. begun[f[1]] \in Seq(Length) /\ f[1] \in Writer
    BY <1>1 DEF TransportTypeOK
  <2>2. DOMAIN begun[f[1]] = 1 .. Len(begun[f[1]]) /\ Len(begun[f[1]]) \in Nat
    BY <2>1, LenProperties
  <2>3. f[2] \in 1 .. MaxFrames /\ f[2] <= Len(begun[f[1]])
    BY <1>1
  <2>4. f[2] \in DOMAIN begun[f[1]]
    BY <2>2, <2>3, TransportAssumption DEF TransportAssumption
  <2> QED BY <2>1, <2>4, InFrame
<1>2. Declared = IF frames # {} THEN {begun[f[1]][f[2]] : f \in frames} ELSE Length
  BY DEF Declared
<1> HIDE DEF frames
<1> QED BY <1>1, <1>2


LEMMA TypesInit == Init => TransportTypeOK
<1> SUFFICES ASSUME Init PROVE TransportTypeOK
  OBVIOUS
<1>1. /\ <<>> \in Seq(Length) /\ <<>> \in Seq(Seq(Cell)) /\ <<>> \in Seq(Cell) /\ Len(<<>>) = 0
  BY EmptySeq
<1>2. Size(ReaderLimit) \in Nat
  BY TransportAssumption DEF Size, TransportAssumption
<1>3. reader \in ReaderType /\ Len(reader.got) <= reader.want
  BY <1>1, <1>2 DEF Init, NoRead, ReaderType
<1>4. begun \in [Writer -> Seq(Length)] /\ received \in [Writer -> Seq(Seq(Cell))]
  BY <1>1 DEF Init
<1>5. progress \in [Writer -> Nat] /\ wire \in Seq(Cell) /\ conn = "OPEN" /\ overlapped \in BOOLEAN
  BY <1>1 DEF Init
<1> QED BY <1>3, <1>4, <1>5 DEF TransportTypeOK, ReaderType

\* A busy writer is inside a frame that it has begun.
InFrames ==
  \A w \in Writer : Busy(w) =>
    Len(begun[w]) # 0 /\ progress[w] < SizeOf(w, Len(begun[w]))

\* read_frame begins with a header.
HeadersFirst == reader.phase = "HEADER" => reader.want = HeaderCells

TypeInv == TransportTypeOK /\ InFrames /\ HeadersFirst

\* What write_frame and send_all do to the stream: k more cells of the writer's last frame.
Sends(w, i, length, from, k) ==
  /\ w \in Writer /\ i \in Nat \ {0} /\ length \in Length /\ from \in Nat /\ k \in Nat \ {0}
  /\ from + k <= Size(length)
  /\ conn = "OPEN"
  /\ from = progress[w]
  /\ send(w, encode_frame(w, i, length), from, k)
  /\ UNCHANGED <<conn, reader, received>>
  /\ begun' \in [Writer -> Seq(Length)]
  /\ Len(begun'[w]) = i /\ begun'[w][i] = length
  /\ \A v \in Writer : Len(begun[v]) <= Len(begun'[v])
  /\ \A v \in Writer : \A n \in 1 .. Len(begun[v]) : begun'[v][n] = begun[v][n]
  /\ \A v \in Writer \ {w} : begun'[v] = begun[v]
  /\ IF from = 0 THEN i = Len(begun[w]) + 1 /\ i <= MaxFrames
                 ELSE begun' = begun

LEMMA WriteSends ==
  ASSUME TransportTypeOK, InFrames, NEW w \in Writer,
         (\E length \in Length : write_frame(w, length)) \/ send_all(w)
  PROVE  \E i, length, from, k \in Nat : Sends(w, i, length, from, k)
<1>0. Length \subseteq Nat
  BY TransportAssumption DEF TransportAssumption
<1>1. begun \in [Writer -> Seq(Length)] /\ progress \in [Writer -> Nat]
  BY DEF TransportTypeOK
<1>2. \A v \in Writer : Len(begun[v]) \in Nat /\ DOMAIN begun[v] = 1 .. Len(begun[v])
  BY <1>1, LenProperties
<1>3. ASSUME NEW length \in Length, write_frame(w, length)
      PROVE  \E i, n, from, k \in Nat : Sends(w, i, n, from, k)
  <2> DEFINE i == Len(begun[w]) + 1
             longer == Append(begun[w], length)
  <2>1. PICK k \in 1 .. Size(length) : send(w, encode_frame(w, i, length), 0, k)
    BY <1>3 DEF write_frame
  <2>2. /\ conn = "OPEN" /\ ~Busy(w) /\ Len(begun[w]) < MaxFrames
        /\ begun' = [begun EXCEPT ![w] = longer]
        /\ UNCHANGED <<conn, reader, received>>
    BY <1>3 DEF write_frame
  <2>3. begun[w] \in Seq(Length)
    BY <1>1
  <2>4. /\ longer \in Seq(Length) /\ Len(longer) = i /\ longer[i] = length
        /\ \A n \in 1 .. Len(begun[w]) : longer[n] = begun[w][n]
    BY <2>3, AppendProperties
  <2>5. /\ begun' \in [Writer -> Seq(Length)] /\ begun'[w] = longer
        /\ \A v \in Writer \ {w} : begun'[v] = begun[v]
    <3> HIDE DEF longer
    <3> QED BY <1>1, <2>2, <2>4
  <2>6. i \in Nat \ {0} /\ i <= MaxFrames
    BY <1>2, <2>2, TransportAssumption DEF TransportAssumption
  <2>7. \A v \in Writer : Len(begun[v]) <= Len(begun'[v])
    BY <1>2, <2>4, <2>5
  <2>8. \A v \in Writer : \A n \in 1 .. Len(begun[v]) : begun'[v][n] = begun[v][n]
    BY <2>4, <2>5
  <2>9. Size(length) \in Nat /\ length \in Nat
    BY <1>0, TransportAssumption DEF TransportAssumption, Size
  <2>10. progress[w] = 0
    BY <2>2 DEF Busy
  <2>11. k \in Nat \ {0} /\ 0 + k <= Size(length)
    BY <2>9
  <2> HIDE DEF i, longer
  <2>12. Sends(w, i, length, 0, k)
    BY <2>1, <2>2, <2>4, <2>5, <2>6, <2>7, <2>8, <2>10, <2>11 DEF Sends, i
  <2> QED BY <2>6, <2>9, <2>11, <2>12
<1>4. ASSUME send_all(w)
      PROVE  \E i, n, from, k \in Nat : Sends(w, i, n, from, k)
  <2> DEFINE i == Len(begun[w])
             length == begun[w][i]
  <2>1. PICK k \in 1 .. Len(Frame(w, i)) - progress[w] :
          send(w, Frame(w, i), progress[w], k)
    BY <1>4 DEF send_all
  <2>2. conn = "OPEN" /\ Busy(w) /\ UNCHANGED <<begun, conn, reader, received>>
    BY <1>4 DEF send_all
  <2>3. i \in Nat \ {0} /\ progress[w] < SizeOf(w, i) /\ progress[w] \in Nat \ {0}
    BY <1>1, <1>2, <2>2 DEF InFrames, Busy
  <2>4. i \in DOMAIN begun[w]
    BY <1>2, <2>3
  <2>5. length \in Length /\ length \in Nat
    BY <2>4, InFrame
  <2>6. Frame(w, i) = encode_frame(w, i, length)
    BY DEF Frame
  <2>7. Len(encode_frame(w, i, length)) = Size(length) /\ Size(length) \in Nat
    BY <2>3, <2>5, FrameCells
  <2>8. k \in Nat \ {0} /\ progress[w] + k <= Size(length)
    BY <2>3, <2>6, <2>7 DEF SizeOf
  <2>9. send(w, encode_frame(w, i, length), progress[w], k)
    BY <2>1, <2>6
  <2>10. /\ \A v \in Writer : Len(begun[v]) <= Len(begun'[v])
         /\ \A v \in Writer : \A n \in 1 .. Len(begun[v]) : begun'[v][n] = begun[v][n]
         /\ \A v \in Writer \ {w} : begun'[v] = begun[v]
         /\ begun' \in [Writer -> Seq(Length)]
         /\ Len(begun'[w]) = i /\ begun'[w][i] = length
    BY <1>1, <1>2, <2>2
  <2> HIDE DEF i, length
  <2>11. Sends(w, i, length, progress[w], k)
    BY <2>2, <2>3, <2>5, <2>8, <2>9, <2>10 DEF Sends
  <2> QED BY <2>3, <2>5, <2>8, <2>11
<1> QED BY <1>3, <1>4

LEMMA SendsTypes ==
  ASSUME TransportTypeOK, InFrames, NEW w, NEW i, NEW length, NEW from, NEW k,
         Sends(w, i, length, from, k)
  PROVE  TransportTypeOK' /\ InFrames'
<1>0. Length \subseteq Nat
  BY TransportAssumption DEF TransportAssumption
<1>1. /\ w \in Writer /\ i \in Nat \ {0} /\ length \in Nat /\ from \in Nat /\ k \in Nat \ {0}
      /\ from + k <= Size(length) /\ send(w, encode_frame(w, i, length), from, k)
  BY <1>0 DEF Sends
<1>2. wire' \in Seq(Cell) /\ progress' \in [Writer -> Nat] /\ overlapped' \in BOOLEAN
  BY <1>1, SendTypes
<1>3. begun' \in [Writer -> Seq(Length)] /\ UNCHANGED <<conn, reader, received>>
  BY DEF Sends
<1>4. TransportTypeOK'
  BY <1>2, <1>3 DEF TransportTypeOK
<1>5. Len(encode_frame(w, i, length)) = Size(length) /\ Size(length) \in Nat
  BY <1>1, FrameCells
<1>6. progress' = [progress EXCEPT ![w] = IF from + k = Size(length) THEN 0 ELSE from + k]
  BY <1>1, <1>5 DEF send
<1>7. ASSUME NEW v \in Writer, progress'[v] # 0
      PROVE  Len(begun'[v]) # 0 /\ progress'[v] < Size(begun'[v][Len(begun'[v])])
  <2>1. CASE v = w
    <3>1. progress'[w] = from + k /\ from + k # Size(length)
      BY <1>1, <1>6, <1>7, <2>1 DEF TransportTypeOK
    <3>2. Len(begun'[w]) = i /\ begun'[w][i] = length
      BY DEF Sends
    <3> QED BY <1>1, <1>5, <2>1, <3>1, <3>2
  <2>2. CASE v # w
    <3>1. progress'[v] = progress[v]
      BY <1>6, <2>2 DEF TransportTypeOK
    <3>2. begun'[v] = begun[v]
      BY <2>2 DEF Sends
    <3>3. Len(begun[v]) # 0 /\ progress[v] < Size(begun[v][Len(begun[v])])
      BY <1>7, <3>1 DEF InFrames, Busy, SizeOf
    <3> QED BY <3>1, <3>2, <3>3
  <2> QED BY <2>1, <2>2
<1> QED BY <1>4, <1>7 DEF InFrames, Busy, SizeOf

\* The payload of a frame is what lies between its header and its tag.
LEMMA PayloadCells ==
  ASSUME TransportTypeOK, NEW w \in Writer, NEW i \in 1 .. Len(begun[w])
  PROVE  PayloadOf(encode_frame(w, i, begun[w][i])) \in Seq(Cell)
<1> DEFINE frame == encode_frame(w, i, begun[w][i])
<1>1. i \in DOMAIN begun[w]
  BY LenProperties DEF TransportTypeOK
<1>2. i \in Nat /\ begun[w][i] \in Nat
  BY <1>1, InFrame
<1>3. frame \in Seq(Cell) /\ Len(frame) = HeaderCells + begun[w][i] + TagCells
  BY <1>2, FrameCells DEF Size
<1>4. /\ HeaderCells \in Nat /\ TagCells \in Nat
  BY TransportAssumption DEF TransportAssumption
<1> HIDE DEF frame
<1>5. \A j \in HeaderCells + 1 .. Len(frame) - TagCells : frame[j] \in Cell
  BY <1>2, <1>3, <1>4, ElementOfSeq
<1>6. SubSeq(frame, HeaderCells + 1, Len(frame) - TagCells) \in Seq(Cell)
  BY <1>2, <1>3, <1>4, <1>5, SubSeqProperties
<1> QED BY <1>6 DEF PayloadOf, frame

\* Every step keeps the types.
LEMMA TypesStep ==
  ASSUME TypeInv, [Next]_transportVars
  PROVE  TypeInv'
<1> USE DEF TypeInv
<1>1. \A w \in Writer : Len(begun[w]) \in Nat
  BY LenProperties DEF TransportTypeOK
<1>2. ASSUME NEW phase \in {"FRAME_TOO_LARGE", "BAD_FRAME", "PEER_TIMEOUT", "PEER_CLOSED", "TRUNCATED"},
             Defect(phase)
      PROVE  TypeInv'
  BY <1>2, DefectTypes DEF InFrames, HeadersFirst, Defect, NoRead, Busy, SizeOf
<1>3. CASE \E w \in Writer : Write(w)
  <2>1. PICK w \in Writer : Write(w)
    BY <1>3
  <2>2. CASE SendFails(w)
    BY <2>2 DEF SendFails, TransportTypeOK, InFrames, HeadersFirst, Busy, SizeOf
  <2>3. CASE (\E length \in Length : write_frame(w, length)) \/ send_all(w)
    <3>1. PICK i, length, from, k \in Nat : Sends(w, i, length, from, k)
      BY <2>3, WriteSends
    <3>2. TransportTypeOK' /\ InFrames'
      BY <3>1, SendsTypes
    <3>3. HeadersFirst'
      BY <3>1 DEF Sends, HeadersFirst
    <3> QED BY <3>2, <3>3
  <2> QED BY <2>1, <2>2, <2>3 DEF Write
<1>4. CASE StartRead
  <2>1. <<>> \in Seq(Cell) /\ Len(<<>>) = 0
    BY EmptySeq
  <2>2. reader' = [phase |-> "HEADER", got |-> <<>>, want |-> HeaderCells, elapsed |-> 0, total |-> 0]
    BY <1>4 DEF StartRead, NoRead
  <2>3. HeaderCells \in 0 .. Size(ReaderLimit)
    BY TransportAssumption DEF TransportAssumption, Size
  <2>4. reader' \in ReaderType /\ Len(reader'.got) <= reader'.want
    BY <2>1, <2>2, <2>3 DEF ReaderType
  <2> QED BY <1>4, <2>4 DEF StartRead, TransportTypeOK, ReaderType, InFrames, HeadersFirst, Busy, SizeOf
<1>5. CASE recv
  <2>1. /\ reader'.got \in Seq(Cell) /\ wire' \in Seq(Cell)
        /\ Len(reader'.got) <= reader.want
        /\ reader' = [reader EXCEPT !.got = reader'.got]
    BY <1>5, RecvMoves
  <2>2. reader' \in ReaderType /\ Len(reader'.got) <= reader'.want
    BY <2>1 DEF TransportTypeOK, ReaderType
  <2> QED BY <1>5, <2>1, <2>2 DEF recv, TransportTypeOK, ReaderType, InFrames, HeadersFirst, Busy, SizeOf
<1>6. CASE Tick
  <2>1. reader' = [reader EXCEPT !.elapsed = reader.elapsed + 1, !.total = reader.total + 1]
    BY <1>6 DEF Tick
  <2>2. reader' \in ReaderType /\ Len(reader'.got) <= reader'.want
    <3>1. reader \in ReaderType /\ Len(reader.got) <= reader.want
      BY DEF TransportTypeOK, ReaderType
    <3>2. reader.elapsed + 1 \in Nat /\ reader.total + 1 \in Nat
      BY <3>1 DEF ReaderType
    <3>3. reader'.got = reader.got /\ reader'.want = reader.want
      BY <2>1, <3>1 DEF ReaderType
    <3>4. reader' \in ReaderType
      BY <2>1, <3>1, <3>2 DEF ReaderType
    <3> QED BY <3>1, <3>3, <3>4
  <2> QED BY <1>6, <2>2 DEF Tick, TransportTypeOK, ReaderType, InFrames, HeadersFirst, Busy, SizeOf
<1>7. CASE ParseHeader
  <2>1. CASE IsTorn /\ Defect("BAD_FRAME")
    BY <1>2, <2>1
  <2>2. CASE \E length \in Declared :
               IF ~Fits(length) THEN Defect("FRAME_TOO_LARGE")
               ELSE /\ reader' = [reader EXCEPT !.phase = "BODY", !.elapsed = 0,
                                    !.want = Size(length)]
                    /\ UNCHANGED <<begun, progress, wire, conn, received, overlapped>>
    <3>1. PICK length \in Declared :
               IF ~Fits(length) THEN Defect("FRAME_TOO_LARGE")
               ELSE /\ reader' = [reader EXCEPT !.phase = "BODY", !.elapsed = 0,
                                    !.want = Size(length)]
                    /\ UNCHANGED <<begun, progress, wire, conn, received, overlapped>>
      BY <2>2
    <3>2. CASE ~Fits(length)
      BY <1>2, <3>1, <3>2
    <3>3. CASE Fits(length)
      <4>1. length \in Nat /\ length <= ReaderLimit
        BY <3>3, DeclaredLength, TransportAssumption DEF TransportAssumption, Fits
      <4>2. Size(length) \in 0 .. Size(ReaderLimit) /\ HeaderCells <= Size(length)
        BY <4>1, TransportAssumption DEF TransportAssumption, Size
      <4>3. Len(reader.got) = reader.want
        BY <1>7 DEF ParseHeader, Complete
      <4>4. reader' = [reader EXCEPT !.phase = "BODY", !.elapsed = 0, !.want = Size(length)]
        BY <3>1, <3>3
      <4>5. reader.want = HeaderCells
        BY <1>7 DEF ParseHeader, HeadersFirst
      <4>6. reader' \in ReaderType /\ Len(reader'.got) <= reader'.want /\ reader'.phase = "BODY"
        BY <4>2, <4>3, <4>4, <4>5 DEF TransportTypeOK, ReaderType
      <4>7. UNCHANGED <<begun, progress, wire, conn, received, overlapped>>
        BY <3>1, <3>3
      <4> QED BY <4>6, <4>7 DEF TransportTypeOK, ReaderType, InFrames, HeadersFirst, Busy, SizeOf
    <3> QED BY <3>2, <3>3
  <2> QED BY <1>7, <2>1, <2>2 DEF ParseHeader
<1>8. CASE DecodeFrame
  <2> DEFINE frames == {f \in Writer \X (1 .. MaxFrames) :
                          f[2] <= Len(begun[f[1]]) /\ Matches(f[1], f[2])}
  <2>1. CASE frames = {}
    BY <1>2, <1>8, <2>1 DEF DecodeFrame
  <2>2. CASE frames # {}
    <3>1. PICK f \in frames :
            received' = [received EXCEPT ![f[1]] = Append(@, PayloadOf(reader.got))]
      BY <1>8, <2>2 DEF DecodeFrame
    <3>2. /\ reader' = [NoRead EXCEPT !.total = reader.total]
          /\ UNCHANGED <<begun, progress, wire, conn, overlapped>>
      BY <1>8, <2>2 DEF DecodeFrame
    <3>3. f[1] \in Writer /\ f[2] \in Nat /\ f[2] \in 1 .. Len(begun[f[1]])
          /\ reader.got = Frame(f[1], f[2])
      BY <1>1 DEF Matches
    <3>4. PayloadOf(reader.got) \in Seq(Cell)
      BY <3>3, PayloadCells DEF Frame
    <3>5. received' \in [Writer -> Seq(Seq(Cell))]
      <4>1. \A w \in Writer : received[w] \in Seq(Seq(Cell))
        BY DEF TransportTypeOK
      <4>2. Append(received[f[1]], PayloadOf(reader.got)) \in Seq(Seq(Cell))
        BY <3>3, <3>4, <4>1, AppendProperties
      <4> QED BY <3>1, <4>1, <4>2 DEF TransportTypeOK
    <3>6. reader' \in ReaderType /\ Len(reader'.got) <= reader'.want /\ reader'.phase = "IDLE"
      <4>1. <<>> \in Seq(Cell) /\ Len(<<>>) = 0
        BY EmptySeq
      <4>2. reader' = [phase |-> "IDLE", got |-> <<>>, want |-> 0, elapsed |-> 0,
                       total |-> reader.total]
        BY <3>2 DEF NoRead
      <4>3. Size(ReaderLimit) \in Nat /\ reader.total \in Nat
        BY TransportAssumption DEF TransportAssumption, Size, TransportTypeOK
      <4> QED BY <4>1, <4>2, <4>3 DEF ReaderType
    <3> QED BY <3>2, <3>5, <3>6
            DEF TransportTypeOK, ReaderType, InFrames, HeadersFirst, Busy, SizeOf
  <2> QED BY <2>1, <2>2
<1>9. CASE shutdown \/ Lost
  <2>1. <<>> \in Seq(Cell)
    BY EmptySeq
  <2> QED BY <1>9, <2>1
          DEF shutdown, Lost, TransportTypeOK, InFrames, HeadersFirst, Busy, SizeOf
<1>10. CASE ReceiveTimesOut \/ PeerClosed \/ ReadFails
  BY <1>2, <1>10 DEF ReceiveTimesOut, PeerClosed, ReadFails
<1>11. CASE UNCHANGED transportVars
  BY <1>11 DEF transportVars, TransportTypeOK, InFrames, HeadersFirst, Busy, SizeOf
<1> QED BY <1>3, <1>4, <1>5, <1>6, <1>7, <1>8, <1>9, <1>10, <1>11 DEF Next, Read

LEMMA TypesHold == TransportSpec => []TypeInv
<1>1. Init => TypeInv
  BY TypesInit DEF Init, NoRead, TypeInv, InFrames, HeadersFirst, Busy
<1> QED BY <1>1, TypesStep, PTL DEF TransportSpec

\* Every variable keeps its type, and no header makes the reader take more than its own
\* limit allows, whatever length it declares.
THEOREM ReaderKeepsItsLimit == TransportSpec => []TransportTypeOK
BY TypesHold, PTL DEF TypeInv


\* Each of the two parts of a frame has a deadline of its own, and the first has passed
\* when the second begins.
TimeInv ==
  Deadline # 0 =>
    /\ reader.elapsed <= Deadline
    /\ reader.phase = "HEADER" => reader.total = reader.elapsed
    /\ reader.phase = "BODY" => reader.total <= Deadline + reader.elapsed
    /\ reader.total <= 2 * Deadline

LEMMA TimeStep ==
  ASSUME TypeInv, TimeInv, [Next]_transportVars
  PROVE  TimeInv'
<1>0. /\ Deadline \in Nat /\ reader.elapsed \in Nat /\ reader.total \in Nat
      /\ reader \in ReaderType
  BY TransportAssumption DEF TransportAssumption, TypeInv, TransportTypeOK, ReaderType
<1>1. ASSUME NEW phase \in {"IDLE", "FRAME_TOO_LARGE", "BAD_FRAME", "PEER_TIMEOUT",
                            "PEER_CLOSED", "TRUNCATED"},
             reader' = [NoRead EXCEPT !.phase = phase, !.total = reader.total]
      PROVE  TimeInv'
  BY <1>0, <1>1 DEF TimeInv, NoRead
<1>2. ASSUME NEW phase \in {"FRAME_TOO_LARGE", "BAD_FRAME", "PEER_TIMEOUT", "PEER_CLOSED",
                            "TRUNCATED"},
             Defect(phase)
      PROVE  TimeInv'
  BY <1>1, <1>2 DEF Defect
<1>3. ASSUME UNCHANGED reader PROVE TimeInv'
  BY <1>3 DEF TimeInv
<1>4. CASE (\E w \in Writer : Write(w)) \/ shutdown \/ Lost \/ UNCHANGED transportVars
  <2>1. UNCHANGED reader
    BY <1>4 DEF Write, write_frame, send_all, SendFails, shutdown, Lost, transportVars
  <2> QED BY <1>3, <2>1
<1>5. CASE StartRead
  BY <1>0, <1>5 DEF StartRead, NoRead, TimeInv
<1>6. CASE recv
  <2>1. reader' = [reader EXCEPT !.got = reader'.got]
    BY <1>6, RecvMoves DEF TypeInv
  <2>2. /\ reader'.phase = reader.phase /\ reader'.elapsed = reader.elapsed
        /\ reader'.total = reader.total
    BY <1>0, <2>1 DEF ReaderType
  <2> QED BY <2>2 DEF TimeInv
<1>7. CASE Tick
  <2>1. /\ reader.phase \in {"HEADER", "BODY"} /\ reader.elapsed < Deadline
        /\ reader' = [reader EXCEPT !.elapsed = reader.elapsed + 1, !.total = reader.total + 1]
    BY <1>7 DEF Tick, Reading
  <2>2. /\ reader'.phase = reader.phase /\ reader'.elapsed = reader.elapsed + 1
        /\ reader'.total = reader.total + 1
    BY <1>0, <2>1 DEF ReaderType
  <2> QED BY <1>0, <2>1, <2>2 DEF TimeInv
<1>8. CASE ParseHeader
  <2>1. reader.phase = "HEADER"
    BY <1>8 DEF ParseHeader
  <2>2. ASSUME NEW length,
               reader' = [reader EXCEPT !.phase = "BODY", !.elapsed = 0, !.want = Size(length)]
        PROVE  TimeInv'
    <3>1. reader'.phase = "BODY" /\ reader'.elapsed = 0 /\ reader'.total = reader.total
      BY <1>0, <2>2 DEF ReaderType
    <3> QED BY <1>0, <2>1, <3>1 DEF TimeInv
  <2> QED BY <1>2, <1>8, <2>2 DEF ParseHeader
<1>9. CASE DecodeFrame
  <2>1. \/ Defect("BAD_FRAME")
        \/ reader' = [NoRead EXCEPT !.phase = "IDLE", !.total = reader.total]
    BY <1>9 DEF DecodeFrame, NoRead
  <2> QED BY <1>1, <1>2, <2>1
<1>10. CASE ReceiveTimesOut \/ PeerClosed \/ ReadFails
  BY <1>2, <1>10 DEF ReceiveTimesOut, PeerClosed, ReadFails
<1> QED BY <1>4, <1>5, <1>6, <1>7, <1>8, <1>9, <1>10 DEF Next, Read

\* A peer that sends a byte now and then holds a reader for no longer than one that is
\* silent: two deadlines, one for the header and one for the rest, for every deadline.
THEOREM PeersCannotPinAReader == TransportSpec => []BoundedRead
<1>1. Init => TimeInv
  BY TransportAssumption DEF Init, NoRead, TimeInv, TransportAssumption
<1>2. TypeInv /\ TimeInv => BoundedRead
  BY DEF TimeInv, BoundedRead
<1> QED BY <1>1, <1>2, TypesHold, TimeStep, PTL DEF TransportSpec


-----------------------------------------------------------------------------
(* The stream between the writers and the reader.                           *)

\* What is on its way: what the reader's call has taken, then the wire.
Stream == reader.got \o wire

NextUp(w) == Len(received[w]) + 1

\* c goes out before d, by the same writer.
Before(c, d) ==
  /\ c.writer = d.writer
  /\ c.frame < d.frame \/ (c.frame = d.frame /\ c.at < d.at)

\* Of w's frame i, the cell at this place has been sent.
IsSent(w, i, at) == (Busy(w) /\ i = Len(begun[w])) => at <= progress[w]

\* No writer is behind its reader, or inside a frame that the reader has accepted.
Counts ==
  \A w \in Writer :
    /\ Len(received[w]) <= Len(begun[w]) /\ Len(begun[w]) <= MaxFrames
    /\ Busy(w) => Len(received[w]) < Len(begun[w])

\* A cell of a frame that the reader has yet to accept.
Pending(c) ==
  /\ c.frame \in NextUp(c.writer) .. Len(begun[c.writer])
  /\ c.at \in 1 .. SizeOf(c.writer, c.frame)
  /\ IsSent(c.writer, c.frame, c.at)

AllPending(s) == \A j \in 1 .. Len(s) : Pending(s[j])

\* The cells of one writer come in the order it sent them, and none is left out.
InOrder(s) ==
  \A j, k \in 1 .. Len(s) : (j < k /\ s[j].writer = s[k].writer) => Before(s[j], s[k])

NoGaps(s) ==
  \A k \in 1 .. Len(s) : \A i \in NextUp(s[k].writer) .. Len(begun[s[k].writer]) :
    \A at \in 1 .. SizeOf(s[k].writer, i) :
      Before(CellAt(s[k].writer, i, at), s[k]) =>
        \E j \in 1 .. Len(s) : s[j] = CellAt(s[k].writer, i, at)

\* As long as nothing is lost, all that was sent is there.
AllThere(s) ==
  \A w \in Writer : \A i \in NextUp(w) .. Len(begun[w]) : \A at \in 1 .. SizeOf(w, i) :
    IsSent(w, i, at) => \E j \in 1 .. Len(s) : s[j] = CellAt(w, i, at)

OrderInv ==
  /\ Counts /\ AllPending(Stream) /\ InOrder(Stream) /\ NoGaps(Stream)
  /\ conn = "OPEN" => AllThere(Stream)

\* A reader that is not reading has nothing, and one that met a defect lost its connection.
ReaderIs ==
  /\ ~Reading => reader.got = <<>>
  /\ (~Reading /\ reader.phase # "IDLE") => conn = "LOST"
  /\ conn = "LOST" => wire = <<>>

LEMMA StreamCells ==
  ASSUME TypeInv
  PROVE  /\ Stream \in Seq(Cell) /\ Len(Stream) \in Nat
         /\ Len(reader.got) \in Nat /\ Len(wire) \in Nat
         /\ Len(Stream) = Len(reader.got) + Len(wire)
         /\ \A j \in 1 .. Len(reader.got) : Stream[j] = reader.got[j]
         /\ \A j \in 1 .. Len(wire) : Stream[Len(reader.got) + j] = wire[j]
         /\ \A j \in 1 .. Len(Stream) : Stream[j] \in Cell
<1>1. reader.got \in Seq(Cell) /\ wire \in Seq(Cell)
  BY DEF TypeInv, TransportTypeOK
<1>2. Len(reader.got) \in Nat /\ Len(wire) \in Nat
  BY <1>1, LenProperties
<1>3. /\ Stream \in Seq(Cell) /\ Len(Stream) = Len(reader.got) + Len(wire)
      /\ \A j \in 1 .. Len(reader.got) + Len(wire) : Stream[j] =
           IF j <= Len(reader.got) THEN reader.got[j] ELSE wire[j - Len(reader.got)]
  BY <1>1, ConcatProperties DEF Stream
<1>4. \A j \in 1 .. Len(Stream) : Stream[j] \in Cell
  BY <1>3, ElementOfSeq
<1>5. \A j \in 1 .. Len(reader.got) : Stream[j] = reader.got[j]
  BY <1>2, <1>3
<1>6. ASSUME NEW j \in 1 .. Len(wire) PROVE Stream[Len(reader.got) + j] = wire[j]
  <2>1. /\ Len(reader.got) + j \in 1 .. Len(reader.got) + Len(wire)
        /\ ~(Len(reader.got) + j <= Len(reader.got))
        /\ Len(reader.got) + j - Len(reader.got) = j
    BY <1>2
  <2> DEFINE at == Len(reader.got) + j
  <2>2. at \in 1 .. Len(reader.got) + Len(wire) /\ ~(at <= Len(reader.got))
        /\ at - Len(reader.got) = j
    BY <2>1
  <2> HIDE DEF at
  <2>3. Stream[at] = wire[at - Len(reader.got)]
    BY <1>3, <2>2
  <2>4. Stream[at] = wire[j]
    BY <2>2, <2>3
  <2> QED BY <2>4 DEF at
<1> QED BY <1>2, <1>3, <1>4, <1>5, <1>6

\* The numbers that the counts are.
LEMMA NumberTypes ==
  ASSUME TypeInv
  PROVE  /\ \A w \in Writer : /\ Len(begun[w]) \in Nat /\ Len(received[w]) \in Nat
                              /\ NextUp(w) \in Nat \ {0} /\ progress[w] \in Nat
         /\ \A w \in Writer : \A i \in 1 .. Len(begun[w]) :
              SizeOf(w, i) \in Nat \ {0} /\ SizeOf(w, i) >= HeaderCells
<1>1. \A w \in Writer : begun[w] \in Seq(Length) /\ received[w] \in Seq(Seq(Cell))
                        /\ progress[w] \in Nat
  BY DEF TypeInv, TransportTypeOK
<1>2. \A w \in Writer : Len(begun[w]) \in Nat /\ Len(received[w]) \in Nat
                        /\ DOMAIN begun[w] = 1 .. Len(begun[w])
  BY <1>1, LenProperties
<1>3. \A w \in Writer : NextUp(w) \in Nat \ {0}
  <2>1. ASSUME NEW w \in Writer PROVE NextUp(w) \in Nat \ {0}
    <3> DEFINE n == Len(received[w])
    <3>1. n \in Nat /\ NextUp(w) = n + 1
      BY <1>2 DEF NextUp
    <3> HIDE DEF n
    <3> QED BY <3>1
  <2> QED BY <2>1
<1>4. ASSUME NEW w \in Writer, NEW i \in 1 .. Len(begun[w])
      PROVE  SizeOf(w, i) \in Nat \ {0} /\ SizeOf(w, i) >= HeaderCells
  <2>1. begun[w][i] \in Nat
    BY <1>2, InFrame DEF TypeInv
  <2> QED BY <2>1, TransportAssumption DEF TransportAssumption, SizeOf, Size
<1> QED BY <1>1, <1>2, <1>3, <1>4

\* A stream that loses its end, and writers that give up: what is left is in order.
LEMMA TruncatedInOrder ==
  ASSUME TypeInv, TypeInv', OrderInv,
         Len(Stream') <= Len(Stream),
         \A j \in 1 .. Len(Stream') : Stream'[j] = Stream[j],
         UNCHANGED <<begun, received>>,
         \A w \in Writer : progress'[w] \in {progress[w], 0},
         conn' = "OPEN" => (conn = "OPEN" /\ Stream' = Stream /\ progress' = progress)
  PROVE  OrderInv'
<1>1. Len(Stream) \in Nat /\ \A j \in 1 .. Len(Stream) : Stream[j] \in Cell
  BY StreamCells
<1>2. (Len(Stream) \in Nat)'
  BY StreamCells, PTL
<1>3. \A j \in 1 .. Len(Stream') : j \in 1 .. Len(Stream)
  BY <1>1, <1>2
<1>4. \A w \in Writer : Busy(w)' => Busy(w) /\ progress'[w] = progress[w]
  BY DEF Busy
<1>5. Counts'
  BY <1>4 DEF OrderInv, Counts
<1>6. ASSUME NEW j \in 1 .. Len(Stream') PROVE Pending(Stream[j])'
  BY <1>1, <1>3, <1>4, <1>6 DEF OrderInv, AllPending, Pending, NextUp, SizeOf, IsSent, Cell
<1>7. AllPending(Stream)'
  BY <1>6 DEF AllPending
<1>8. InOrder(Stream)'
  BY <1>3 DEF OrderInv, InOrder, Before
<1>9. ASSUME NEW k \in 1 .. Len(Stream'), NEW i \in NextUp(Stream[k].writer) .. Len(begun[Stream[k].writer]),
             NEW at \in 1 .. SizeOf(Stream[k].writer, i),
             Before(CellAt(Stream[k].writer, i, at), Stream[k])
      PROVE  \E j \in 1 .. Len(Stream') : Stream[j] = CellAt(Stream[k].writer, i, at)
  <2>1. k \in 1 .. Len(Stream)
    BY <1>3
  <2>2. PICK j \in 1 .. Len(Stream) : Stream[j] = CellAt(Stream[k].writer, i, at)
    BY <1>9, <2>1 DEF OrderInv, NoGaps
  <2>3. ~(k <= j)
    <3>1. SUFFICES ASSUME k <= j PROVE FALSE
      OBVIOUS
    <3>2. /\ Stream[j].writer = Stream[k].writer /\ Stream[j].frame = i /\ Stream[j].at = at
      BY <2>2 DEF CellAt
    <3>3. Stream[k].frame \in Nat /\ Stream[k].at \in Nat /\ Stream[k].writer \in Writer
      BY <1>1, <2>1 DEF Cell
    <3>4. i \in Int /\ at \in Int
      BY <1>1, <2>2, <3>2 DEF Cell
    <3>5. i < Stream[k].frame \/ (i = Stream[k].frame /\ at < Stream[k].at)
      BY <1>9 DEF Before, CellAt
    <3>6. CASE k = j
      BY <3>2, <3>3, <3>5, <3>6
    <3>7. CASE k < j
      <4>1. Before(Stream[k], Stream[j])
        BY <2>1, <3>2, <3>7 DEF OrderInv, InOrder
      <4> QED BY <3>2, <3>3, <3>4, <3>5, <4>1 DEF Before
    <3> QED BY <3>1, <3>6, <3>7
  <2>4. j \in 1 .. Len(Stream')
    BY <1>1, <1>2, <2>3
  <2> QED BY <2>2, <2>4
<1>10. NoGaps(Stream)'
  <2>1. \A k \in 1 .. Len(Stream') : Stream'[k] = Stream[k]
    OBVIOUS
  <2>2. ASSUME NEW k \in 1 .. Len(Stream'), NEW i \in NextUp(Stream[k].writer) .. Len(begun[Stream[k].writer]),
               NEW at \in 1 .. SizeOf(Stream[k].writer, i),
               Before(CellAt(Stream[k].writer, i, at), Stream[k])
        PROVE  \E j \in 1 .. Len(Stream') : Stream'[j] = CellAt(Stream[k].writer, i, at)
    <3>1. PICK j \in 1 .. Len(Stream') : Stream[j] = CellAt(Stream[k].writer, i, at)
      BY <1>9, <2>2
    <3> QED BY <2>1, <3>1
  <2>3. received' = received /\ begun' = begun
    OBVIOUS
  <2> QED BY <2>1, <2>2, <2>3 DEF NoGaps, NextUp, SizeOf, Before, CellAt
<1>11. ASSUME conn' = "OPEN" PROVE AllThere(Stream)'
  <2>1. Stream' = Stream /\ progress' = progress /\ received' = received /\ begun' = begun
        /\ AllThere(Stream)
    BY <1>11 DEF OrderInv
  <2> QED BY <2>1 DEF AllThere, NextUp, SizeOf, IsSent, Busy
<1> QED BY <1>5, <1>7, <1>8, <1>10, <1>11 DEF OrderInv


\* The stream after a send(): k more cells, and the frames are as they were.
LEMMA SendsExtend ==
  ASSUME TypeInv, TypeInv', NEW w, NEW i, NEW length, NEW from, NEW k,
         Sends(w, i, length, from, k)
  PROVE  /\ Len(Stream') = Len(Stream) + k
         /\ \A j \in 1 .. Len(Stream) : Stream'[j] = Stream[j]
         /\ \A j \in 1 .. k : Stream'[Len(Stream) + j] = CellAt(w, i, from + j)
         /\ w \in Writer /\ i \in Nat \ {0} /\ from \in Nat /\ k \in Nat \ {0}
         /\ conn = "OPEN" /\ conn' = "OPEN" /\ received' = received /\ reader' = reader
         /\ from = progress[w] /\ Len(begun'[w]) = i
         /\ SizeOf(w, i)' \in Nat /\ from + k <= SizeOf(w, i)'
         /\ progress'[w] = IF from + k = SizeOf(w, i)' THEN 0 ELSE from + k
         /\ \A v \in Writer \ {w} : progress'[v] = progress[v] /\ begun'[v] = begun[v]
         /\ \A v \in Writer : \A n \in 1 .. Len(begun[v]) : SizeOf(v, n)' = SizeOf(v, n)
         /\ from = 0 => (Len(begun[w]) = i - 1 /\ i <= MaxFrames)
         /\ from # 0 => begun' = begun
<1>0. /\ w \in Writer /\ i \in Nat \ {0} /\ length \in Nat /\ from \in Nat /\ k \in Nat \ {0}
      /\ from + k <= Size(length)
      /\ send(w, encode_frame(w, i, length), from, k)
      /\ reader' = reader /\ received' = received /\ conn = "OPEN" /\ conn' = "OPEN"
      /\ from = progress[w] /\ Len(begun'[w]) = i /\ begun'[w][i] = length
  BY TransportAssumption DEF Sends, TransportAssumption
<1> DEFINE piece == SubSeq(encode_frame(w, i, length), from + 1, from + k)
<1>1. /\ piece \in Seq(Cell) /\ wire' = wire \o piece /\ Len(piece) = k
      /\ \A j \in 1 .. k : piece[j] = CellAt(w, i, from + j)
  <2> DEFINE frame == encode_frame(w, i, length)
             end == from + k
  <2>1. /\ frame \in Seq(Cell) /\ Len(frame) = Size(length) /\ Size(length) \in Nat
        /\ \A at \in 1 .. Size(length) : frame[at] = CellAt(w, i, at)
    BY <1>0, FrameCells
  <2>2. end \in Nat /\ from \in Nat /\ from <= end /\ end <= Size(length) /\ end - from = k
    BY <1>0
  <2>3. piece = SubSeq(frame, from + 1, end) /\ wire' = wire \o piece
    BY <1>0 DEF send
  <2> HIDE DEF frame, end, piece
  <2>4. /\ piece \in Seq(Cell) /\ Len(piece) = end - from
        /\ \A j \in 1 .. end - from : piece[j] = frame[from + j]
    BY <2>1, <2>2, <2>3, Piece
  <2>5. \A j \in 1 .. k : from + j \in 1 .. Size(length)
    <3>1. from \in Nat /\ k \in Nat /\ from + k <= Size(length) /\ Size(length) \in Nat
      BY <1>0, <2>1
    <3> QED BY <3>1
  <2> QED BY <2>1, <2>2, <2>3, <2>4, <2>5
<1> HIDE DEF piece
<1>3. Len(encode_frame(w, i, length)) = Size(length) /\ Size(length) \in Nat
  BY <1>0, FrameCells
<1>4. progress' = [progress EXCEPT ![w] = IF from + k = Size(length) THEN 0 ELSE from + k]
  BY <1>0, <1>3 DEF send
<1>5. reader.got \in Seq(Cell) /\ wire \in Seq(Cell) /\ Stream \in Seq(Cell) /\ Len(Stream) \in Nat
  BY StreamCells DEF TypeInv, TransportTypeOK
<1>6. Stream' = Stream \o piece
  <2>1. \A a, b, c \in Seq(Cell) : (a \o b) \o c = a \o (b \o c)
    BY ConcatAssociative
  <2>2. (reader.got \o wire) \o piece = reader.got \o (wire \o piece)
    BY <1>1, <1>5, <2>1, Zenon
  <2> QED BY <1>0, <1>1, <2>2 DEF Stream
<1>7. /\ Len(Stream \o piece) = Len(Stream) + k
      /\ \A j \in 1 .. Len(Stream) + k : (Stream \o piece)[j] =
           IF j <= Len(Stream) THEN Stream[j] ELSE piece[j - Len(Stream)]
  <2>1. \A a, b \in Seq(Cell) :
          /\ Len(a \o b) = Len(a) + Len(b)
          /\ \A j \in 1 .. Len(a) + Len(b) : (a \o b)[j] =
               IF j <= Len(a) THEN a[j] ELSE b[j - Len(a)]
    BY ConcatProperties
  <2>2. /\ Len(Stream \o piece) = Len(Stream) + Len(piece)
        /\ \A j \in 1 .. Len(Stream) + Len(piece) : (Stream \o piece)[j] =
             IF j <= Len(Stream) THEN Stream[j] ELSE piece[j - Len(Stream)]
    BY <1>1, <1>5, <2>1, Zenon
  <2> QED BY <1>1, <2>2
<1>8. Len(Stream') = Len(Stream) + k /\ \A j \in 1 .. Len(Stream) : Stream'[j] = Stream[j]
  BY <1>0, <1>5, <1>6, <1>7
<1>9. ASSUME NEW j \in 1 .. k PROVE Stream'[Len(Stream) + j] = CellAt(w, i, from + j)
  <2> DEFINE at == Len(Stream) + j
  <2>1. at \in 1 .. Len(Stream) + k /\ ~(at <= Len(Stream)) /\ at - Len(Stream) = j
    BY <1>0, <1>5
  <2> HIDE DEF at
  <2>2. Stream'[at] = piece[j]
    BY <1>6, <1>7, <2>1
  <2> QED BY <1>1, <2>2 DEF at
<1>10. SizeOf(w, i)' = Size(length)
  BY <1>0 DEF SizeOf
<1>11. progress'[w] = IF from + k = Size(length) THEN 0 ELSE from + k
  BY <1>0, <1>4 DEF TypeInv, TransportTypeOK
<1>12. \A v \in Writer \ {w} : progress'[v] = progress[v] /\ begun'[v] = begun[v]
  BY <1>4 DEF Sends, TypeInv, TransportTypeOK
<1>13. \A v \in Writer : \A n \in 1 .. Len(begun[v]) : SizeOf(v, n)' = SizeOf(v, n)
  BY DEF Sends, SizeOf
<1>14. Len(begun[w]) \in Nat
  BY <1>0, NumberTypes
<1>15. /\ from = 0 => (Len(begun[w]) = i - 1 /\ i <= MaxFrames)
       /\ from # 0 => begun' = begun
  BY <1>0, <1>14 DEF Sends
<1> QED BY <1>0, <1>3, <1>8, <1>9, <1>10, <1>11, <1>12, <1>13, <1>15

LEMMA SendsInOrder ==
  ASSUME TypeInv, TypeInv', OrderInv, NEW w, NEW i, NEW length, NEW from, NEW k,
         Sends(w, i, length, from, k)
  PROVE  OrderInv'
<1> DEFINE n == Len(Stream)
<1>1. /\ Len(Stream') = n + k
      /\ \A j \in 1 .. n : Stream'[j] = Stream[j]
      /\ \A j \in 1 .. k : Stream'[n + j] = CellAt(w, i, from + j)
  BY SendsExtend
<1>2. /\ w \in Writer /\ i \in Nat \ {0} /\ from \in Nat /\ k \in Nat \ {0}
      /\ conn = "OPEN" /\ conn' = "OPEN" /\ received' = received
      /\ from = progress[w] /\ Len(begun'[w]) = i
      /\ SizeOf(w, i)' \in Nat /\ from + k <= SizeOf(w, i)'
      /\ progress'[w] = IF from + k = SizeOf(w, i)' THEN 0 ELSE from + k
  BY SendsExtend
<1>3. /\ \A v \in Writer \ {w} : progress'[v] = progress[v] /\ begun'[v] = begun[v]
      /\ \A v \in Writer : \A m \in 1 .. Len(begun[v]) : SizeOf(v, m)' = SizeOf(v, m)
      /\ from = 0 => (Len(begun[w]) = i - 1 /\ i <= MaxFrames)
      /\ from # 0 => begun' = begun
  BY SendsExtend
<1>4. n \in Nat /\ \A j \in 1 .. n : Stream[j] \in Cell
  BY StreamCells
<1> HIDE DEF n
<1>5. \A v \in Writer : Len(begun[v]) \in Nat /\ Len(received[v]) \in Nat /\ NextUp(v) \in Nat \ {0}
                        /\ NextUp(v) = Len(received[v]) + 1 /\ progress[v] \in Nat
  BY NumberTypes DEF NextUp
<1>6. \A v \in Writer : NextUp(v)' = NextUp(v)
  BY <1>2 DEF NextUp
\* What was sent before is sent, and of w's frame i so are k cells more.
<1>7. /\ ~Busy(w) \/ Len(begun[w]) = i
      /\ Len(received[w]) < i /\ i <= MaxFrames
      /\ Len(begun[w]) <= i
      /\ from # 0 => (Busy(w) /\ Len(begun[w]) = i)
      /\ from = 0 => (~Busy(w) /\ Len(begun[w]) = i - 1)
  BY <1>2, <1>3, <1>5 DEF Busy, OrderInv, Counts
<1>8. Counts'
  <2>1. ASSUME NEW v \in Writer
        PROVE  /\ Len(received'[v]) <= Len(begun'[v]) /\ Len(begun'[v]) <= MaxFrames
               /\ progress'[v] # 0 => Len(received'[v]) < Len(begun'[v])
    <3>1. CASE v = w
      BY <1>2, <1>5, <1>7, <3>1
    <3>2. CASE v # w
      BY <1>2, <1>3, <3>2 DEF OrderInv, Counts, Busy
    <3> QED BY <3>1, <3>2
  <2> QED BY <2>1 DEF Counts, Busy
\* The cells of every stream position.
<1>9. \A j \in 1 .. n + k : j \in 1 .. n \/ \E m \in 1 .. k : j = n + m
  <2>1. ASSUME NEW j \in 1 .. n + k, j \notin 1 .. n PROVE \E m \in 1 .. k : j = n + m
    <3>1. j - n \in 1 .. k /\ j = n + (j - n)
      BY <1>2, <1>4, <2>1
    <3> QED BY <3>1
  <2> QED BY <2>1
<1>10. ASSUME NEW j \in 1 .. n
       PROVE  /\ Stream[j].writer \in Writer /\ Stream[j].frame \in NextUp(Stream[j].writer) .. Len(begun[Stream[j].writer])
              /\ Stream[j].frame \in 1 .. Len(begun[Stream[j].writer])
              /\ Stream[j].at \in 1 .. SizeOf(Stream[j].writer, Stream[j].frame)
              /\ IsSent(Stream[j].writer, Stream[j].frame, Stream[j].at)
              /\ Stream[j].frame \in Nat /\ Stream[j].at \in Nat
              /\ Stream[j].writer = w /\ Stream[j].frame = i => Stream[j].at <= from
  <2>1. Stream[j].writer \in Writer /\ Stream[j].frame \in Nat /\ Stream[j].at \in Nat
    BY <1>4 DEF Cell
  <2>2. Pending(Stream[j])
    BY DEF OrderInv, AllPending, n
  <2>3. Stream[j].frame \in 1 .. Len(begun[Stream[j].writer])
    BY <1>5, <2>1, <2>2 DEF Pending
  <2>4. ASSUME Stream[j].writer = w, Stream[j].frame = i PROVE Stream[j].at <= from
    BY <1>2, <1>5, <1>7, <2>1, <2>2, <2>3, <2>4 DEF Pending, IsSent
  <2> QED BY <2>1, <2>2, <2>3, <2>4 DEF Pending
<1>11. ASSUME NEW j \in 1 .. k
       PROVE  /\ Stream'[n + j].writer = w /\ Stream'[n + j].frame = i /\ Stream'[n + j].at = from + j
  <2>1. Stream'[n + j] = CellAt(w, i, from + j)
    BY <1>1
  <2> DEFINE cell == Stream'[n + j]
  <2>2. cell = [writer |-> w, frame |-> i, at |-> from + j]
    BY <2>1 DEF CellAt
  <2> HIDE DEF cell
  <2>3. cell.writer = w /\ cell.frame = i /\ cell.at = from + j
    BY <2>2
  <2> QED BY <2>3 DEF cell
<1>12. AllPending(Stream)'
  <2>1. ASSUME NEW j \in 1 .. n PROVE Pending(Stream[j])'
    <3>1. Stream'[j] = Stream[j]
      BY <1>1
    <3>2. PICK v \in Writer, m \in Nat, at \in Nat :
               /\ Stream[j].writer = v /\ Stream[j].frame = m /\ Stream[j].at = at
               /\ m \in NextUp(v) .. Len(begun[v]) /\ m \in 1 .. Len(begun[v])
               /\ at \in 1 .. SizeOf(v, m) /\ IsSent(v, m, at)
               /\ v = w /\ m = i => at <= from
      BY <1>10
    <3>3. Len(begun'[v]) \in Nat /\ Len(begun[v]) <= Len(begun'[v])
      <4>1. CASE v = w
        BY <1>2, <1>5, <1>7, <4>1
      <4>2. CASE v # w
        BY <1>3, <1>5, <4>2
      <4> QED BY <4>1, <4>2
    <3>4. m \in NextUp(v)' .. Len(begun'[v]) /\ at \in 1 .. SizeOf(v, m)'
      <4>1. NextUp(v)' = NextUp(v) /\ NextUp(v) \in Nat /\ Len(begun[v]) \in Nat
        BY <1>5, <1>6, <3>2
      <4>2. m <= Len(begun[v]) /\ NextUp(v) <= m
        BY <3>2, <4>1
      <4>3. m \in NextUp(v)' .. Len(begun'[v])
        BY <3>2, <3>3, <4>1, <4>2
      <4>4. SizeOf(v, m)' = SizeOf(v, m)
        BY <1>3, <3>2
      <4> QED BY <3>2, <4>3, <4>4
    <3>5. ASSUME progress'[v] # 0, m = Len(begun'[v]) PROVE at <= progress'[v]
      <4>1. CASE v = w
        BY <1>2, <3>2, <3>5, <4>1
      <4>2. CASE v # w
        BY <1>3, <3>2, <3>5, <4>2 DEF IsSent, Busy
      <4> QED BY <4>1, <4>2
    <3> QED BY <3>1, <3>2, <3>4, <3>5 DEF Pending, IsSent, Busy, NextUp, SizeOf
  <2>3. ASSUME NEW j \in 1 .. k
        PROVE  /\ i \in NextUp(w)' .. Len(begun'[w])
               /\ from + j \in 1 .. SizeOf(w, i)'
               /\ (progress'[w] # 0 /\ i = Len(begun'[w])) => from + j <= progress'[w]
    <3>1. i \in NextUp(w)' .. Len(begun'[w])
      BY <1>2, <1>5, <1>6, <1>7
    <3> DEFINE size == SizeOf(w, i)'
    <3>2. /\ size \in Nat /\ from \in Nat /\ k \in Nat \ {0} /\ from + k <= size
          /\ progress'[w] = IF from + k = size THEN 0 ELSE from + k
      BY <1>2
    <3> HIDE DEF size
    <3>3. from + j \in 1 .. size
      BY <3>2
    <3>4. ASSUME progress'[w] # 0 PROVE from + j <= progress'[w]
      BY <3>2, <3>4
    <3> QED BY <3>1, <3>3, <3>4 DEF size
  <2>4. ASSUME NEW j \in 1 .. n + k PROVE Pending(Stream[j])'
    <3>1. CASE j \in 1 .. n
      BY <2>1, <3>1
    <3>2. ASSUME NEW m \in 1 .. k, j = n + m PROVE Pending(Stream[j])'
      <4>1. Stream'[j].writer = w /\ Stream'[j].frame = i /\ Stream'[j].at = from + m
        BY <1>11, <3>2
      <4> QED BY <2>3, <4>1 DEF Pending, IsSent, Busy, NextUp, SizeOf
    <3> QED BY <1>9, <3>1, <3>2
  <2> QED BY <1>1, <2>4 DEF AllPending
<1>13. InOrder(Stream)'
  <2>1. ASSUME NEW j \in 1 .. n + k, NEW l \in 1 .. n + k, j < l,
               Stream'[j].writer = Stream'[l].writer
        PROVE  /\ Stream'[j].frame < Stream'[l].frame
                  \/ (Stream'[j].frame = Stream'[l].frame /\ Stream'[j].at < Stream'[l].at)
    <3>1. CASE l \in 1 .. n
      <4>1. j \in 1 .. n
        BY <1>4, <2>1, <3>1
      <4>2. Before(Stream[j], Stream[l])
        BY <1>1, <2>1, <3>1, <4>1 DEF OrderInv, InOrder, n
      <4> QED BY <1>1, <3>1, <4>1, <4>2 DEF Before
    <3>2. ASSUME NEW m \in 1 .. k, l = n + m
          PROVE  Stream'[j].frame < Stream'[l].frame
                 \/ (Stream'[j].frame = Stream'[l].frame /\ Stream'[j].at < Stream'[l].at)
      <4>1. Stream'[l].writer = w /\ Stream'[l].frame = i /\ Stream'[l].at = from + m
        BY <1>11, <3>2
      <4>2. CASE j \in 1 .. n
        <5>1. Stream'[j] = Stream[j] /\ Stream[j].writer = w
          BY <1>1, <2>1, <4>1, <4>2
        <5>2. /\ Stream[j].frame \in 1 .. Len(begun[w]) /\ Stream[j].frame \in Nat
              /\ Stream[j].at \in Nat
              /\ Stream[j].frame = i => Stream[j].at <= from
          BY <1>10, <4>2, <5>1
        <5>3. Stream[j].frame <= i
          BY <1>2, <1>5, <1>7, <5>2
        <5>4. i \in Nat /\ from \in Nat /\ from < from + m
          BY <1>2
        <5>5. CASE Stream[j].frame = i
          <6>1. Stream[j].at < from + m
            BY <5>2, <5>4, <5>5
          <6> QED BY <4>1, <5>1, <5>5, <6>1
        <5>6. CASE Stream[j].frame # i
          <6>1. Stream[j].frame < i
            BY <5>2, <5>3, <5>4, <5>6
          <6> QED BY <4>1, <5>1, <6>1
        <5> QED BY <5>5, <5>6
      <4>3. ASSUME NEW m2 \in 1 .. k, j = n + m2
            PROVE  Stream'[j].frame = i /\ Stream'[j].at < from + m
        <5>1. Stream'[j].frame = i /\ Stream'[j].at = from + m2
          BY <1>11, <4>3
        <5>2. n \in Nat /\ from \in Nat /\ n + m2 < n + m
          BY <1>2, <1>4, <2>1, <3>2, <4>3
        <5>3. from + m2 < from + m
          BY <5>2
        <5> QED BY <5>1, <5>3
      <4> QED BY <1>9, <4>1, <4>2, <4>3
    <3> QED BY <1>9, <3>1, <3>2
  <2>2. ASSUME NEW j \in 1 .. Len(Stream'), NEW l \in 1 .. Len(Stream'), j < l,
               Stream'[j].writer = Stream'[l].writer
        PROVE  Before(Stream'[j], Stream'[l])
    BY <1>1, <2>1, <2>2 DEF Before
  <2> QED BY <2>2 DEF InOrder
\* The first cells are those that the writer had sent of the frame before.
<1>14. ASSUME NEW v \in Writer, NEW m \in NextUp(v) .. Len(begun'[v]), NEW at \in 1 .. Size(begun'[v][m]),
              v = w /\ m = i => at <= from,
              (v # w /\ Busy(v) /\ m = Len(begun[v])) => at <= progress[v]
       PROVE  \E j \in 1 .. n : Stream'[j] = CellAt(v, m, at)
  <2>1. Len(begun[v]) \in Nat /\ NextUp(v) \in Nat \ {0} /\ m \in Nat
    <3>1. Len(begun[v]) \in Nat /\ NextUp(v) \in Nat \ {0}
      BY <1>5
    <3>2. Len(begun'[v]) \in Nat
      BY <1>2, <1>3, <1>5
    <3> QED BY <3>1, <3>2
  <2>2. m \in NextUp(v) .. Len(begun[v]) /\ IsSent(v, m, at)
    <3>1. CASE v # w
      BY <1>3, <1>14, <3>1 DEF IsSent
    <3>2. CASE v = w /\ m # i
      <4>1. m <= i /\ m # i
        BY <1>2, <2>1, <3>2
      <4>2. m <= Len(begun[w]) /\ (Busy(w) => Len(begun[w]) = i)
        BY <1>2, <1>5, <1>7, <2>1, <4>1
      <4> QED BY <2>1, <3>2, <4>1, <4>2 DEF IsSent
    <3>3. CASE v = w /\ m = i
      <4>1. at <= from /\ at \in Int /\ at >= 1
        BY <1>2, <1>14, <3>3 DEF SizeOf
      <4>2. from # 0 /\ Len(begun[w]) = i
        BY <1>2, <1>7, <4>1
      <4> QED BY <1>2, <2>1, <3>3, <4>1, <4>2 DEF IsSent
    <3> QED BY <3>1, <3>2, <3>3
  <2>3. m \in 1 .. Len(begun[v])
    BY <2>1, <2>2
  <2>4. at \in 1 .. SizeOf(v, m)
    BY <1>3, <1>14, <2>3 DEF SizeOf
  <2>5. AllThere(Stream)
    BY <1>2 DEF OrderInv
  <2>6. PICK j \in 1 .. Len(Stream) : Stream[j] = CellAt(v, m, at)
    BY <2>2, <2>4, <2>5 DEF AllThere
  <2> QED BY <1>1, <2>6 DEF n
\* The last cells are the new ones.
<1>15. ASSUME NEW at \in Nat, from < at, at <= from + k
       PROVE  \E j \in 1 .. n + k : Stream'[j] = CellAt(w, i, at)
  <2>1. at - from \in 1 .. k /\ from + (at - from) = at
    BY <1>2, <1>15
  <2> DEFINE j == at - from
  <2>2. j \in 1 .. k /\ from + j = at
    BY <2>1
  <2> HIDE DEF j
  <2>3. n + j \in 1 .. n + k
    BY <1>2, <1>4, <2>2
  <2>4. Stream'[n + j] = CellAt(w, i, at)
    BY <1>1, <2>2
  <2> QED BY <2>3, <2>4
<1>16. \A j \in 1 .. n : j \in 1 .. n + k
  BY <1>2, <1>4
<1>17. ASSUME NEW l \in 1 .. n + k, NEW v, v = Stream'[l].writer,
              NEW m \in NextUp(v) .. Len(begun'[v]), NEW at \in 1 .. Size(begun'[v][m]),
              m < Stream'[l].frame \/ (m = Stream'[l].frame /\ at < Stream'[l].at)
       PROVE  \E j \in 1 .. n + k : Stream'[j] = CellAt(v, m, at)
  <2>1. CASE l \in 1 .. n
    <3>1. /\ Stream'[l] = Stream[l] /\ v \in Writer
          /\ Stream[l].frame \in NextUp(v) .. Len(begun[v])
          /\ Stream[l].frame \in Nat
      BY <1>1, <1>10, <1>17, <2>1
    <3>2. Len(begun[v]) \in Nat /\ NextUp(v) \in Nat \ {0} /\ Len(begun'[v]) \in Nat
      BY <1>2, <1>3, <1>5, <3>1
    <3>3. m \in NextUp(v) .. Len(begun[v]) /\ m \in 1 .. Len(begun[v])
      BY <1>17, <3>1, <3>2
    <3>4. at \in 1 .. SizeOf(v, m)
      BY <1>3, <1>17, <3>1, <3>3 DEF SizeOf
    <3>5. Before(CellAt(v, m, at), Stream[l])
      BY <1>17, <3>1 DEF Before, CellAt
    <3>6. PICK j \in 1 .. Len(Stream) : Stream[j] = CellAt(v, m, at)
      <4>1. NoGaps(Stream) /\ v = Stream[l].writer /\ l \in 1 .. Len(Stream)
        BY <1>17, <2>1, <3>1 DEF OrderInv, n
      <4> QED BY <3>3, <3>4, <3>5, <4>1 DEF NoGaps
    <3> QED BY <1>1, <1>16, <3>6 DEF n
  <2>2. ASSUME NEW d \in 1 .. k, l = n + d
        PROVE  \E j \in 1 .. n + k : Stream'[j] = CellAt(v, m, at)
    <3>1. v = w /\ Stream'[l].frame = i /\ Stream'[l].at = from + d
      BY <1>11, <1>17, <2>2
    <3>2. CASE m = i /\ from < at
      <4>1. at \in Nat /\ at <= from + k
        <5>1. at \in 1 .. SizeOf(w, i)'
          BY <1>17, <3>1, <3>2 DEF SizeOf
        <5> QED BY <1>2, <1>17, <3>1, <3>2, <5>1
      <4> QED BY <1>15, <3>1, <3>2, <4>1
    <3>3. CASE ~(m = i /\ from < at)
      <4>1. at \in Int
        OBVIOUS
      <4>2. v = w /\ m = i => at <= from
        BY <1>2, <3>3, <4>1
      <4>3. PICK j \in 1 .. n : Stream'[j] = CellAt(v, m, at)
        BY <1>2, <1>14, <1>17, <3>1, <4>2
      <4> QED BY <1>16, <4>3
    <3> QED BY <3>2, <3>3
  <2> QED BY <1>9, <2>1, <2>2
<1>18. NoGaps(Stream)'
  <2>1. \A v \in Writer : NextUp(v)' = NextUp(v)
    BY <1>6
  <2>2. ASSUME NEW l \in 1 .. n + k PROVE Stream'[l].writer \in Writer
    <3>1. \A j \in 1 .. n : Stream'[j].writer \in Writer
      BY <1>1, <1>10
    <3> QED BY <1>2, <1>9, <1>11, <3>1
  <2>3. ASSUME NEW l \in 1 .. Len(Stream'), NEW m \in NextUp(Stream[l].writer)' .. Len(begun'[Stream'[l].writer]),
               NEW at \in 1 .. SizeOf(Stream[l].writer, m)',
               Before(CellAt(Stream'[l].writer, m, at), Stream'[l])
        PROVE  \E j \in 1 .. Len(Stream') : Stream'[j] = CellAt(Stream'[l].writer, m, at)
    <3>1. PICK v \in Writer : v = Stream'[l].writer
      BY <1>1, <2>2
    <3>2. NextUp(Stream[l].writer)' = NextUp(v) /\ SizeOf(Stream[l].writer, m)' = Size(begun'[v][m])
      BY <2>1, <3>1 DEF NextUp, SizeOf
    <3>3. m < Stream'[l].frame \/ (m = Stream'[l].frame /\ at < Stream'[l].at)
      BY <2>3 DEF Before, CellAt
    <3> QED BY <1>1, <1>17, <2>3, <3>1, <3>2, <3>3
  <2> QED BY <2>3 DEF NoGaps
<1>19. AllThere(Stream)'
  <2>1. ASSUME NEW v \in Writer, NEW m \in NextUp(v)' .. Len(begun'[v]), NEW at \in 1 .. SizeOf(v, m)',
               IsSent(v, m, at)'
        PROVE  \E j \in 1 .. Len(Stream') : Stream'[j] = CellAt(v, m, at)
    <3>1. m \in NextUp(v) .. Len(begun'[v]) /\ at \in 1 .. Size(begun'[v][m]) /\ at \in Nat
      BY <1>6, <2>1 DEF SizeOf
    <3>2. CASE v = w /\ m = i /\ from < at
      <4>1. at <= from + k
        BY <1>2, <2>1, <3>1, <3>2 DEF IsSent, Busy
      <4> QED BY <1>1, <1>15, <3>1, <3>2, <4>1
    <3>3. CASE ~(v = w /\ m = i /\ from < at)
      <4>1. v = w /\ m = i => at <= from
        BY <1>2, <3>1, <3>3
      <4>2. (v # w /\ Busy(v) /\ m = Len(begun[v])) => at <= progress[v]
        BY <1>3, <2>1 DEF IsSent, Busy
      <4>3. PICK j \in 1 .. n : Stream'[j] = CellAt(v, m, at)
        BY <1>14, <3>1, <4>1, <4>2
      <4> QED BY <1>1, <1>16, <4>3
    <3> QED BY <3>2, <3>3
  <2> QED BY <2>1 DEF AllThere
<1> QED BY <1>8, <1>12, <1>13, <1>18, <1>19 DEF OrderInv


\* What the reader has when it is done with a frame: the first cells of the stream are that
\* frame, and the frame is the next one of its writer.
LEMMA NextFrame ==
  ASSUME TypeInv, OrderInv, NEW w \in Writer, NEW i \in 1 .. Len(begun[w]),
         reader.got = Frame(w, i)
  PROVE  /\ i = NextUp(w)
         /\ Len(reader.got) = SizeOf(w, i) /\ SizeOf(w, i) <= Len(Stream)
         /\ \A j \in 1 .. SizeOf(w, i) : Stream[j] = CellAt(w, i, j)
<1>1. SizeOf(w, i) \in Nat \ {0} /\ Len(begun[w]) \in Nat /\ NextUp(w) \in Nat \ {0}
  BY NumberTypes
<1>2. begun[w][i] \in Nat /\ i \in Nat
  <2>1. i \in DOMAIN begun[w]
    BY LenProperties DEF TypeInv, TransportTypeOK
  <2> QED BY <2>1, InFrame DEF TypeInv
<1>3. Len(reader.got) = SizeOf(w, i) /\ \A j \in 1 .. SizeOf(w, i) : reader.got[j] = CellAt(w, i, j)
  <2>1. reader.got = encode_frame(w, i, begun[w][i])
    BY DEF Frame
  <2> DEFINE length == begun[w][i]
             frame == encode_frame(w, i, length)
  <2>2. Len(frame) = Size(length) /\ \A j \in 1 .. Size(length) : frame[j] = CellAt(w, i, j)
    BY <1>2, FrameCells
  <2> QED BY <2>1, <2>2 DEF SizeOf
<1>4. /\ Len(Stream) \in Nat /\ Len(reader.got) \in Nat /\ Len(wire) \in Nat
      /\ Len(Stream) = Len(reader.got) + Len(wire)
      /\ \A j \in 1 .. Len(reader.got) : Stream[j] = reader.got[j]
      /\ \A j \in 1 .. Len(Stream) : Stream[j] \in Cell
  BY StreamCells
<1>5. SizeOf(w, i) <= Len(Stream) /\ \A j \in 1 .. SizeOf(w, i) : Stream[j] = CellAt(w, i, j)
  BY <1>1, <1>3, <1>4
<1>6. 1 \in 1 .. Len(Stream) /\ 1 \in 1 .. SizeOf(w, i)
  BY <1>1, <1>4, <1>5
<1>7. Stream[1].writer = w /\ Stream[1].frame = i /\ Stream[1].at = 1
  <2>1. Stream[1] = CellAt(w, i, 1)
    BY <1>5, <1>6
  <2> DEFINE first == Stream[1]
  <2>2. first = [writer |-> w, frame |-> i, at |-> 1]
    BY <2>1 DEF CellAt
  <2> HIDE DEF first
  <2>3. first.writer = w /\ first.frame = i /\ first.at = 1
    BY <2>2
  <2> QED BY <2>3 DEF first
<1>8. i >= NextUp(w)
  <2>1. Pending(Stream[1])
    BY <1>6 DEF OrderInv, AllPending
  <2> QED BY <1>1, <1>2, <1>7, <2>1 DEF Pending
<1>9. ASSUME i # NextUp(w) PROVE FALSE
  <2>1. NextUp(w) \in NextUp(w) .. Len(begun[w]) /\ NextUp(w) < i /\ NextUp(w) \in 1 .. Len(begun[w])
    BY <1>1, <1>2, <1>8, <1>9
  <2>2. SizeOf(w, NextUp(w)) \in Nat \ {0}
    BY <2>1, NumberTypes
  <2>3. 1 \in 1 .. SizeOf(w, NextUp(w))
    BY <2>2
  <2>4. Before(CellAt(w, NextUp(w), 1), Stream[1])
    BY <1>7, <2>1 DEF Before, CellAt
  <2>5. PICK j \in 1 .. Len(Stream) : Stream[j] = CellAt(w, NextUp(w), 1)
    BY <1>6, <1>7, <2>1, <2>3, <2>4 DEF OrderInv, NoGaps
  <2>6. Stream[j].writer = w /\ Stream[j].frame = NextUp(w)
    BY <2>5 DEF CellAt
  <2>7. j # 1
    BY <1>7, <1>9, <2>6
  <2>8. 1 < j
    BY <1>4, <2>7
  <2>9. Before(Stream[1], Stream[j])
    BY <1>6, <1>7, <2>6, <2>8 DEF OrderInv, InOrder
  <2> QED BY <1>1, <1>2, <1>7, <2>1, <2>6, <2>9 DEF Before
<1> QED BY <1>3, <1>5, <1>9

\* What is left of a stream once its first frame is accepted.
LEMMA AcceptedInOrder ==
  ASSUME TypeInv, TypeInv', OrderInv, NEW w \in Writer, NEW i \in 1 .. Len(begun[w]),
         reader.got = Frame(w, i),
         reader'.got = <<>>,
         UNCHANGED <<begun, progress, wire, conn>>,
         Len(received'[w]) = Len(received[w]) + 1,
         \A v \in Writer \ {w} : received'[v] = received[v]
  PROVE  OrderInv'
<1> DEFINE n == SizeOf(w, i)
<1>1. i = NextUp(w) /\ Len(reader.got) = n /\ n <= Len(Stream)
      /\ \A j \in 1 .. n : Stream[j] = CellAt(w, i, j)
  BY NextFrame
<1>2. n \in Nat \ {0} /\ Len(begun[w]) \in Nat /\ NextUp(w) \in Nat \ {0} /\ i \in Nat
  BY NumberTypes
<1>3. /\ Len(Stream) \in Nat /\ Len(wire) \in Nat /\ Len(Stream) = n + Len(wire)
      /\ \A j \in 1 .. Len(wire) : Stream[n + j] = wire[j]
      /\ \A j \in 1 .. Len(Stream) : Stream[j] \in Cell
  BY <1>1, StreamCells
<1>4. Stream' = wire
  <2>1. wire \in Seq(Cell) /\ wire' = wire
    BY DEF TypeInv, TransportTypeOK
  <2>2. \A s \in Seq(Cell) : <<>> \o s = s
    BY ConcatEmptySeq
  <2> QED BY <2>1, <2>2 DEF Stream
<1>5. NextUp(w)' = i + 1 /\ \A v \in Writer \ {w} : NextUp(v)' = NextUp(v)
  BY <1>1 DEF NextUp
<1> HIDE DEF n
<1>6. ASSUME NEW j \in 1 .. Len(wire)
      PROVE  /\ n + j \in 1 .. Len(Stream) /\ wire[j] = Stream[n + j] /\ wire[j] \in Cell
             /\ Pending(wire[j])
  <2> DEFINE at == n + j
  <2>1. at \in 1 .. Len(Stream)
    BY <1>2, <1>3
  <2>2. wire[j] = Stream[at]
    BY <1>3
  <2> HIDE DEF at
  <2>3. wire[j] \in Cell /\ Pending(wire[j])
    BY <1>3, <2>1, <2>2 DEF OrderInv, AllPending
  <2> QED BY <2>1, <2>2, <2>3 DEF at
\* The last cell of the frame that is accepted.
<1>7. n \in 1 .. Len(Stream) /\ Stream[n].writer = w /\ Stream[n].frame = i /\ Stream[n].at = n
  <2>1. n \in 1 .. n /\ n \in 1 .. Len(Stream)
    BY <1>1, <1>2, <1>3
  <2>2. Stream[n] = CellAt(w, i, n)
    BY <1>1, <2>1
  <2> QED BY <2>1, <2>2 DEF CellAt
\* Of its writer, only later frames are left.
<1>8. ASSUME NEW j \in 1 .. Len(wire), wire[j].writer = w
      PROVE  wire[j].frame \in i + 1 .. Len(begun[w])
  <2>1. /\ wire[j].frame \in Nat /\ wire[j].at \in Nat
        /\ wire[j].frame \in NextUp(w) .. Len(begun[w])
        /\ wire[j].at \in 1 .. SizeOf(w, wire[j].frame)
    BY <1>6, <1>8 DEF Cell, Pending
  <2> DEFINE at == n + j
  <2>2. at \in 1 .. Len(Stream) /\ n < at /\ Stream[at] = wire[j]
    BY <1>2, <1>3, <1>6
  <2> HIDE DEF at
  <2>3. Before(Stream[n], Stream[at])
    BY <1>7, <1>8, <2>2 DEF OrderInv, InOrder
  <2>4. i < wire[j].frame \/ (i = wire[j].frame /\ n < wire[j].at)
    BY <1>7, <2>2, <2>3 DEF Before
  <2>5. ~(i = wire[j].frame /\ n < wire[j].at)
    BY <1>2, <2>1 DEF n
  <2> QED BY <1>2, <2>1, <2>4, <2>5
\* The writer is not inside it.
<1>9. Busy(w) => i < Len(begun[w])
  <2>1. SUFFICES ASSUME Busy(w), i = Len(begun[w]) PROVE FALSE
    BY <1>2
  <2>2. Pending(Stream[n])
    BY <1>7 DEF OrderInv, AllPending
  <2>3. n <= progress[w]
    BY <1>7, <2>1, <2>2 DEF Pending, IsSent
  <2>4. progress[w] < SizeOf(w, Len(begun[w])) /\ progress[w] \in Nat
    BY <2>1, NumberTypes DEF TypeInv, InFrames
  <2> QED BY <1>2, <2>1, <2>3, <2>4 DEF n
<1>10. Counts'
  <2>1. ASSUME NEW v \in Writer
        PROVE  /\ Len(received'[v]) <= Len(begun[v]) /\ Len(begun[v]) <= MaxFrames
               /\ Busy(v) => Len(received'[v]) < Len(begun[v])
    <3>1. CASE v = w
      <4>1. Len(received'[w]) = i
        BY <1>1 DEF NextUp
      <4> QED BY <1>2, <1>9, <3>1, <4>1 DEF OrderInv, Counts
    <3>2. CASE v # w
      BY <3>2 DEF OrderInv, Counts
    <3> QED BY <3>1, <3>2
  <2> QED BY <2>1 DEF Counts, Busy
<1>11. \A v \in Writer : Len(begun[v]) \in Nat /\ NextUp(v) \in Nat \ {0}
  BY NumberTypes
<1>12. AllPending(Stream)'
  <2>1. ASSUME NEW j \in 1 .. Len(wire)
        PROVE  /\ wire[j].frame \in NextUp(wire[j].writer) .. Len(begun[wire[j].writer])
               /\ wire[j].writer = w => wire[j].frame \in i + 1 .. Len(begun[wire[j].writer])
               /\ wire[j].at \in 1 .. SizeOf(wire[j].writer, wire[j].frame)
               /\ IsSent(wire[j].writer, wire[j].frame, wire[j].at)
               /\ wire[j].writer \in Writer
    BY <1>6, <1>8 DEF Pending, Cell
  <2>2. ASSUME NEW j \in 1 .. Len(wire) PROVE Pending(wire[j])'
    <3>1. PICK v \in Writer : v = wire[j].writer
      BY <2>1
    <3>2. wire[j].frame \in NextUp(v)' .. Len(begun[v])
      BY <1>5, <2>1, <3>1
    <3>3. wire' = wire /\ begun' = begun /\ progress' = progress
      OBVIOUS
    <3> QED BY <2>1, <3>1, <3>2, <3>3 DEF Pending, IsSent, Busy, NextUp, SizeOf
  <2>3. wire' = wire
    OBVIOUS
  <2> QED BY <1>4, <2>2, <2>3 DEF AllPending
<1>13. InOrder(Stream)'
  <2>1. ASSUME NEW j \in 1 .. Len(wire), NEW l \in 1 .. Len(wire), j < l,
               wire[j].writer = wire[l].writer
        PROVE  Before(wire[j], wire[l])
    <3> DEFINE a == n + j
               b == n + l
    <3>1. a < b
      BY <1>2, <1>3, <2>1
    <3>2. a \in 1 .. Len(Stream) /\ b \in 1 .. Len(Stream) /\ wire[j] = Stream[a] /\ wire[l] = Stream[b]
      BY <1>6
    <3> HIDE DEF a, b
    <3> QED BY <2>1, <3>1, <3>2 DEF OrderInv, InOrder
  <2> QED BY <1>4, <2>1 DEF InOrder
\* A cell of another frame is not among the first.
<1>14. ASSUME NEW v, NEW m, NEW at, v # w \/ m # i,
              NEW j \in 1 .. Len(Stream), Stream[j] = CellAt(v, m, at)
       PROVE  \E l \in 1 .. Len(wire) : wire[l] = CellAt(v, m, at)
  <2>1. ~(j <= n)
    <3>1. SUFFICES ASSUME j <= n PROVE FALSE
      OBVIOUS
    <3>2. j \in 1 .. n
      BY <1>2, <1>3, <3>1
    <3>3. Stream[j] = CellAt(w, i, j)
      BY <1>1, <3>2
    <3> QED BY <1>14, <3>3 DEF CellAt
  <2> DEFINE l == j - n
  <2>2. l \in 1 .. Len(wire) /\ n + l = j
    BY <1>2, <1>3, <2>1
  <2> HIDE DEF l
  <2>3. wire[l] = Stream[j]
    BY <1>3, <2>2
  <2> QED BY <1>14, <2>2, <2>3
<1>15. NoGaps(Stream)'
  <2>1. ASSUME NEW l \in 1 .. Len(wire), NEW v \in Writer, v = wire[l].writer,
               NEW m \in NextUp(v)' .. Len(begun[v]), NEW at \in 1 .. SizeOf(v, m),
               Before(CellAt(v, m, at), wire[l])
        PROVE  \E j \in 1 .. Len(wire) : wire[j] = CellAt(v, m, at)
    <3>1. m \in NextUp(v) .. Len(begun[v]) /\ (v # w \/ m # i)
      BY <1>1, <1>2, <1>5, <1>11
    <3> DEFINE p == n + l
    <3>2. p \in 1 .. Len(Stream) /\ wire[l] = Stream[p]
      BY <1>6
    <3> HIDE DEF p
    <3>3. PICK j \in 1 .. Len(Stream) : Stream[j] = CellAt(v, m, at)
      BY <2>1, <3>1, <3>2 DEF OrderInv, NoGaps
    <3> QED BY <1>14, <3>1, <3>3
  <2>2. ASSUME NEW l \in 1 .. Len(wire), NEW m \in NextUp(wire[l].writer)' .. Len(begun[wire[l].writer]),
               NEW at \in 1 .. SizeOf(wire[l].writer, m),
               Before(CellAt(wire[l].writer, m, at), wire[l])
        PROVE  \E j \in 1 .. Len(wire) : wire[j] = CellAt(wire[l].writer, m, at)
    <3>1. PICK v \in Writer : v = wire[l].writer
      BY <1>6 DEF Cell
    <3>2. wire' = wire
      OBVIOUS
    <3>3. NextUp(wire[l].writer)' = NextUp(v)'
      BY <3>1, <3>2 DEF NextUp
    <3> QED BY <2>1, <2>2, <3>1, <3>3
  <2>3. wire' = wire /\ begun' = begun
    OBVIOUS
  <2>4. ASSUME NEW l \in 1 .. Len(Stream'),
               NEW m \in (NextUp(Stream[l].writer) .. Len(begun[Stream[l].writer]))',
               NEW at \in (1 .. SizeOf(Stream[l].writer, m))',
               Before(CellAt(Stream[l].writer, m, at), Stream[l])'
        PROVE  \E j \in 1 .. Len(Stream') : Stream'[j] = CellAt(Stream'[l].writer, m, at)
    <3>1. l \in 1 .. Len(wire) /\ Stream'[l] = wire[l]
      BY <1>4
    <3>2. m \in NextUp(wire[l].writer)' .. Len(begun[wire[l].writer])
      BY <1>4, <2>3 DEF NextUp
    <3>3. at \in 1 .. SizeOf(wire[l].writer, m)
      BY <1>4, <2>3 DEF SizeOf
    <3>4. Before(CellAt(wire[l].writer, m, at), wire[l])
      BY <1>4, <2>4 DEF Before, CellAt
    <3>5. \E j \in 1 .. Len(wire) : wire[j] = CellAt(wire[l].writer, m, at)
      BY <2>2, <3>1, <3>2, <3>3, <3>4
    <3> QED BY <1>4, <3>1, <3>5
  <2> QED BY <2>4 DEF NoGaps
<1>16. ASSUME conn' = "OPEN" PROVE AllThere(Stream)'
  <2>1. AllThere(Stream)
    BY <1>16 DEF OrderInv
  <2>2. ASSUME NEW v \in Writer, NEW m \in NextUp(v)' .. Len(begun[v]), NEW at \in 1 .. SizeOf(v, m),
               IsSent(v, m, at)
        PROVE  \E j \in 1 .. Len(wire) : wire[j] = CellAt(v, m, at)
    <3>1. m \in NextUp(v) .. Len(begun[v]) /\ (v # w \/ m # i)
      BY <1>1, <1>2, <1>5, <1>11
    <3>2. PICK j \in 1 .. Len(Stream) : Stream[j] = CellAt(v, m, at)
      BY <2>1, <2>2, <3>1 DEF AllThere
    <3> QED BY <1>14, <3>1, <3>2
  <2>3. wire' = wire /\ begun' = begun /\ progress' = progress
    OBVIOUS
  <2> QED BY <1>4, <2>2, <2>3 DEF AllThere, NextUp, SizeOf, IsSent, Busy
<1> QED BY <1>10, <1>12, <1>13, <1>15, <1>16 DEF OrderInv


\* decode_frame accepts w's frame i.
Accepts(w, i) ==
  /\ reader.got = Frame(w, i)
  /\ received' = [received EXCEPT ![w] = Append(@, PayloadOf(reader.got))]
  /\ reader' = [NoRead EXCEPT !.total = reader.total]
  /\ UNCHANGED <<begun, progress, wire, conn, overlapped>>

LEMMA DecodeAccepts ==
  ASSUME TypeInv, Counts, DecodeFrame
  PROVE  \/ /\ Defect("BAD_FRAME")
            /\ \A w \in Writer : \A i \in 1 .. Len(begun[w]) : reader.got # Frame(w, i)
         \/ \E w \in Writer : \E i \in 1 .. Len(begun[w]) : Accepts(w, i)
<1> DEFINE frames == {f \in Writer \X (1 .. MaxFrames) :
                        f[2] <= Len(begun[f[1]]) /\ Matches(f[1], f[2])}
<1>1. CASE frames = {}
  <2>1. ASSUME NEW w \in Writer, NEW i \in 1 .. Len(begun[w]), reader.got = Frame(w, i) PROVE FALSE
    <3>1. i \in 1 .. MaxFrames /\ i <= Len(begun[w])
      <4>1. Len(begun[w]) \in Nat /\ Len(begun[w]) <= MaxFrames /\ MaxFrames \in Nat
        BY NumberTypes, TransportAssumption DEF Counts, TransportAssumption
      <4> QED BY <4>1
    <3>2. <<w, i>> \in frames
      BY <2>1, <3>1 DEF Matches
    <3> QED BY <1>1, <3>2
  <2> QED BY <1>1, <2>1 DEF DecodeFrame
<1>2. CASE frames # {}
  <2>1. PICK f \in frames :
          received' = [received EXCEPT ![f[1]] = Append(@, PayloadOf(reader.got))]
    BY <1>2 DEF DecodeFrame
  <2>2. /\ reader' = [NoRead EXCEPT !.total = reader.total]
        /\ UNCHANGED <<begun, progress, wire, conn, overlapped>>
    BY <1>2 DEF DecodeFrame
  <2>3. f[1] \in Writer /\ f[2] \in 1 .. MaxFrames /\ f[2] <= Len(begun[f[1]])
        /\ reader.got = Frame(f[1], f[2])
    BY DEF Matches
  <2>4. Len(begun[f[1]]) \in Nat
    BY <2>3, NumberTypes
  <2>5. f[2] \in 1 .. Len(begun[f[1]])
    BY <2>3, <2>4
  <2>6. Accepts(f[1], f[2])
    BY <2>1, <2>2, <2>3 DEF Accepts
  <2> QED BY <2>3, <2>5, <2>6
<1> QED BY <1>1, <1>2

LEMMA AcceptsCounts ==
  ASSUME TypeInv, NEW w \in Writer, NEW i \in 1 .. Len(begun[w]), Accepts(w, i)
  PROVE  /\ Len(received'[w]) = Len(received[w]) + 1
         /\ \A v \in Writer \ {w} : received'[v] = received[v]
         /\ received'[w] = Append(received[w], PayloadOf(Frame(w, i)))
<1>1. received \in [Writer -> Seq(Seq(Cell))]
  BY DEF TypeInv, TransportTypeOK
<1> DEFINE payload == PayloadOf(Frame(w, i))
<1>2. payload \in Seq(Cell)
  BY PayloadCells DEF Frame, TypeInv
<1>3. received' = [received EXCEPT ![w] = Append(received[w], payload)]
  BY DEF Accepts
<1> HIDE DEF payload
<1>4. received'[w] = Append(received[w], payload) /\ \A v \in Writer \ {w} : received'[v] = received[v]
  BY <1>1, <1>3
<1>5. Len(Append(received[w], payload)) = Len(received[w]) + 1
  <2>1. received[w] \in Seq(Seq(Cell))
    BY <1>1
  <2> QED BY <1>2, <2>1, AppendProperties
<1> QED BY <1>4, <1>5 DEF payload

\* The invariant of a reader and its stream, step by step.
LEMMA DefectInOrder ==
  ASSUME TypeInv, TypeInv', OrderInv, NEW phase, Defect(phase)
  PROVE  OrderInv'
<1>1. reader'.got = <<>> /\ wire' = <<>> /\ conn' = "LOST" /\ UNCHANGED <<begun, progress, received>>
  BY DEF Defect, NoRead
<1>2. Len(Stream') = 0
  <2>1. <<>> \o <<>> = <<>> /\ Len(<<>>) = 0
    BY ConcatEmptySeq, EmptySeq
  <2> QED BY <1>1, <2>1 DEF Stream
<1>3. Len(Stream) \in Nat
  BY StreamCells
<1> QED BY <1>1, <1>2, <1>3, TruncatedInOrder

LEMMA SameInOrder ==
  ASSUME TypeInv, TypeInv', OrderInv, Stream' = Stream, UNCHANGED <<begun, received>>,
         \/ UNCHANGED <<progress, conn>>
         \/ /\ conn' # "OPEN"
            /\ \A w \in Writer : progress'[w] \in {progress[w], 0}
  PROVE  OrderInv'
<1>1. Len(Stream) \in Nat
  BY StreamCells
<1> QED BY <1>1, TruncatedInOrder

LEMMA OrderStep ==
  ASSUME TypeInv, TypeInv', OrderInv, ReaderIs, [Next]_transportVars
  PROVE  OrderInv' /\ ReaderIs'
<1>1. ASSUME NEW phase \in {"FRAME_TOO_LARGE", "BAD_FRAME", "PEER_TIMEOUT", "PEER_CLOSED", "TRUNCATED"},
             Defect(phase)
      PROVE  OrderInv' /\ ReaderIs'
  <2>1. ReaderIs'
    BY <1>1 DEF Defect, NoRead, ReaderIs, Reading
  <2> QED BY <1>1, <2>1, DefectInOrder
<1>2. CASE \E w \in Writer : Write(w)
  <2>1. PICK w \in Writer : Write(w)
    BY <1>2
  <2>2. CASE SendFails(w)
    <3>1. /\ conn' = conn /\ conn # "OPEN" /\ reader' = reader /\ wire' = wire
          /\ UNCHANGED <<begun, received>> /\ progress' = [progress EXCEPT ![w] = 0]
      BY <2>2 DEF SendFails
    <3>2. \A v \in Writer : progress'[v] \in {progress[v], 0}
      BY <3>1 DEF TypeInv, TransportTypeOK
    <3>3. Stream' = Stream /\ ReaderIs'
      BY <3>1 DEF Stream, ReaderIs, Reading
    <3> QED BY <3>1, <3>2, <3>3, SameInOrder
  <2>3. CASE (\E length \in Length : write_frame(w, length)) \/ send_all(w)
    <3>1. PICK i, length, from, k \in Nat : Sends(w, i, length, from, k)
      BY <2>3, WriteSends DEF TypeInv
    <3>2. OrderInv'
      BY <3>1, SendsInOrder
    <3>3. reader' = reader /\ conn' = conn /\ conn = "OPEN"
      BY <3>1 DEF Sends
    <3> QED BY <3>2, <3>3 DEF ReaderIs, Reading
  <2> QED BY <2>1, <2>2, <2>3 DEF Write
<1>3. ASSUME Stream' = Stream, UNCHANGED <<begun, received, progress, conn>> PROVE OrderInv'
  BY <1>3, SameInOrder
<1>4. CASE StartRead
  <2>1. reader.got = <<>>
    BY <1>4 DEF StartRead, ReaderIs, Reading
  <2>2. reader'.got = <<>> /\ reader'.phase = "HEADER"
    BY <1>4 DEF StartRead, NoRead
  <2>3. UNCHANGED <<begun, progress, wire, conn, received>>
    BY <1>4 DEF StartRead
  <2> QED BY <1>3, <2>1, <2>2, <2>3 DEF Stream, ReaderIs, Reading
<1>5. CASE recv
  <2>1. reader'.got \o wire' = reader.got \o wire /\ reader' = [reader EXCEPT !.got = reader'.got]
    BY <1>5, RecvMoves DEF TypeInv
  <2>2. UNCHANGED <<begun, progress, conn, received>> /\ conn # "LOST" /\ Reading
    BY <1>5 DEF recv
  <2>3. reader'.phase = reader.phase
    BY <2>1 DEF TypeInv, TransportTypeOK
  <2> QED BY <1>3, <2>1, <2>2, <2>3 DEF Stream, ReaderIs, Reading
<1>6. ASSUME Reading, Reading', reader'.got = reader.got,
             UNCHANGED <<begun, progress, wire, conn, received>>
      PROVE  OrderInv' /\ ReaderIs'
  BY <1>3, <1>6 DEF Stream, ReaderIs
<1>7. CASE Tick
  <2>1. reader'.phase = reader.phase /\ reader'.got = reader.got /\ Reading
        /\ UNCHANGED <<begun, progress, wire, conn, received>>
    BY <1>7 DEF Tick, TypeInv, TransportTypeOK
  <2> QED BY <1>6, <2>1 DEF Reading
<1>8. CASE ParseHeader
  <2>1. ASSUME NEW length, reader' = [reader EXCEPT !.phase = "BODY", !.elapsed = 0, !.want = Size(length)],
               UNCHANGED <<begun, progress, wire, conn, received, overlapped>>
        PROVE  OrderInv' /\ ReaderIs'
    <3>1. Reading
      BY <1>8 DEF ParseHeader, Reading
    <3>2. reader'.phase = "BODY" /\ reader'.got = reader.got
      BY <2>1 DEF TypeInv, TransportTypeOK
    <3> QED BY <1>6, <2>1, <3>1, <3>2 DEF Reading
  <2> QED BY <1>1, <1>8, <2>1 DEF ParseHeader
<1>9. CASE DecodeFrame
  <2>1. Defect("BAD_FRAME") \/ \E w \in Writer : \E i \in 1 .. Len(begun[w]) : Accepts(w, i)
    BY <1>9, DecodeAccepts DEF OrderInv
  <2>2. ASSUME NEW w \in Writer, NEW i \in 1 .. Len(begun[w]), Accepts(w, i)
        PROVE  OrderInv' /\ ReaderIs'
    <3>1. reader.got = Frame(w, i) /\ reader'.got = <<>> /\ reader'.phase = "IDLE"
          /\ UNCHANGED <<begun, progress, wire, conn>>
      BY <2>2 DEF Accepts, NoRead
    <3>2. Len(received'[w]) = Len(received[w]) + 1 /\ \A v \in Writer \ {w} : received'[v] = received[v]
      BY <2>2, AcceptsCounts
    <3>3. OrderInv'
      BY <3>1, <3>2, AcceptedInOrder
    <3>4. ReaderIs'
      BY <3>1 DEF ReaderIs, Reading
    <3> QED BY <3>3, <3>4
  <2> QED BY <1>1, <2>1, <2>2
<1>10. CASE ReceiveTimesOut \/ PeerClosed \/ ReadFails
  BY <1>1, <1>10 DEF ReceiveTimesOut, PeerClosed, ReadFails
<1>11. CASE shutdown
  <2>1. /\ Stream' = Stream /\ UNCHANGED <<begun, received, progress>> /\ conn' = "SHUT" /\ conn = "OPEN"
        /\ reader' = reader
    BY <1>11 DEF shutdown, Stream
  <2>2. \A w \in Writer : progress'[w] \in {progress[w], 0}
    BY <2>1
  <2> QED BY <2>1, <2>2, SameInOrder DEF ReaderIs, Reading
<1>12. CASE Lost
  <2>1. conn' = "LOST" /\ wire' = <<>> /\ UNCHANGED <<begun, progress, reader, received>>
    BY <1>12 DEF Lost
  <2>2. /\ Len(Stream) \in Nat /\ Len(reader.got) \in Nat /\ Len(wire) \in Nat
        /\ Len(Stream) = Len(reader.got) + Len(wire)
        /\ \A j \in 1 .. Len(reader.got) : Stream[j] = reader.got[j]
    BY StreamCells
  <2>3. Stream' = reader.got
    <3>1. \A s \in Seq(Cell) : s \o <<>> = s
      BY ConcatEmptySeq
    <3> QED BY <2>1, <3>1 DEF Stream, TypeInv, TransportTypeOK
  <2>4. OrderInv'
    BY <2>1, <2>2, <2>3, TruncatedInOrder
  <2>5. ReaderIs'
    BY <1>12, <2>1 DEF ReaderIs, Reading, Lost
  <2> QED BY <2>4, <2>5
<1>13. CASE UNCHANGED transportVars
  <2>1. Stream' = Stream /\ UNCHANGED <<begun, progress, conn, received, reader, wire>>
    BY <1>13 DEF transportVars, Stream
  <2> QED BY <1>3, <2>1 DEF ReaderIs, Reading
<1> QED BY <1>2, <1>4, <1>5, <1>7, <1>8, <1>9, <1>10, <1>11, <1>12, <1>13 DEF Next, Read

LEMMA OrderHolds == TransportSpec => [](TypeInv /\ OrderInv /\ ReaderIs)
<1>1. ASSUME Init, TypeInv PROVE OrderInv /\ ReaderIs
  <2>1. reader.got = <<>> /\ wire = <<>> /\ reader.phase = "IDLE" /\ conn = "OPEN"
    BY <1>1 DEF Init, NoRead
  <2>2. Len(Stream) = 0
    <3>1. <<>> \o <<>> = <<>> /\ Len(<<>>) = 0
      BY ConcatEmptySeq, EmptySeq
    <3> QED BY <2>1, <3>1 DEF Stream
  <2>3. \A w \in Writer : Len(begun[w]) = 0 /\ Len(received[w]) = 0 /\ ~Busy(w)
    <3>1. Len(<<>>) = 0
      BY EmptySeq
    <3> QED BY <1>1, <3>1 DEF Init, Busy
  <2>4. Counts /\ AllThere(Stream)
    BY <2>3, TransportAssumption DEF TransportAssumption, Counts, AllThere, NextUp
  <2>5. AllPending(Stream) /\ InOrder(Stream) /\ NoGaps(Stream)
    BY <2>2 DEF AllPending, InOrder, NoGaps
  <2>6. ReaderIs
    BY <2>1 DEF ReaderIs, Reading
  <2> QED BY <2>4, <2>5, <2>6 DEF OrderInv
<1> QED BY <1>1, TypesHold, OrderStep, PTL DEF TransportSpec


-----------------------------------------------------------------------------
(* The channel that the frames implement.                                   *)

SentBy == [w \in Writer |-> [i \in DOMAIN begun[w] |-> PayloadOf(Frame(w, i))]]

Payloads == {PayloadOf(encode_frame(w, n, begun[w][n])) : w \in Writer, n \in Nat}

LEMMA SentIs ==
  ASSUME TypeInv, NEW w \in Writer
  PROVE  /\ SentBy[w] = [n \in 1 .. Len(begun[w]) |-> PayloadOf(Frame(w, n))]
         /\ SentBy[w] \in Seq(Payloads) /\ Len(SentBy[w]) = Len(begun[w])
<1>1. DOMAIN begun[w] = 1 .. Len(begun[w]) /\ Len(begun[w]) \in Nat
  BY LenProperties DEF TypeInv, TransportTypeOK
<1>2. SentBy[w] = [n \in 1 .. Len(begun[w]) |-> PayloadOf(Frame(w, n))]
  BY <1>1 DEF SentBy
<1>3. \A n \in 1 .. Len(begun[w]) : PayloadOf(Frame(w, n)) \in Payloads
  BY <1>1 DEF Payloads, Frame
<1>4. SentBy[w] \in [1 .. Len(begun[w]) -> Payloads]
  BY <1>2, <1>3
<1>5. SentBy[w] \in Seq(Payloads)
  BY <1>1, <1>4, SeqDef
<1>6. DOMAIN SentBy[w] = 1 .. Len(SentBy[w]) /\ Len(SentBy[w]) \in Nat
  BY <1>5, LenProperties
<1>7. DOMAIN SentBy[w] = 1 .. Len(begun[w])
  BY <1>4
<1>8. Len(SentBy[w]) = Len(begun[w])
  BY <1>1, <1>6, <1>7
<1> QED BY <1>2, <1>5, <1>8

\* The messages that a writer began to write, and one more.
LEMMA SentGrows ==
  ASSUME TypeInv, TypeInv', NEW w \in Writer, NEW length \in Length, write_frame(w, length)
  PROVE  SentBy' = [SentBy EXCEPT ![w] =
                     Append(@, PayloadOf(encode_frame(w, Len(begun[w]) + 1, length)))]
<1> DEFINE i == Len(begun[w]) + 1
           m == PayloadOf(encode_frame(w, i, length))
           old == SentBy[w]
<1>1. begun \in [Writer -> Seq(Length)] /\ begun' = [begun EXCEPT ![w] = Append(begun[w], length)]
  BY DEF TypeInv, TransportTypeOK, write_frame
<1>2. begun'[w] = Append(begun[w], length) /\ \A v \in Writer \ {w} : begun'[v] = begun[v]
  BY <1>1
<1>3. begun[w] \in Seq(Length) /\ Len(begun[w]) \in Nat /\ DOMAIN begun[w] = 1 .. Len(begun[w])
  BY <1>1, LenProperties
<1>4. /\ Append(begun[w], length) \in Seq(Length)
      /\ Len(Append(begun[w], length)) = i
      /\ \A n \in 1 .. Len(begun[w]) : Append(begun[w], length)[n] = begun[w][n]
      /\ Append(begun[w], length)[i] = length
  BY <1>3, AppendProperties
<1>5. DOMAIN begun'[w] = 1 .. i /\ i \in Nat /\ i - 1 = Len(begun[w])
  BY <1>2, <1>3, <1>4, LenProperties
<1>6. /\ old \in Seq(Payloads) /\ Len(old) = Len(begun[w])
      /\ \A n \in 1 .. Len(begun[w]) : old[n] = PayloadOf(Frame(w, n))
  BY SentIs
\* The new list, place by place.
<1> DEFINE All == Payloads \cup {m}
<1>7. old \in Seq(All) /\ m \in All
  BY <1>6, SeqMonotonic
<1> DEFINE longer == Append(old, m)
<1>8. /\ longer \in Seq(All) /\ Len(longer) = i
      /\ \A n \in 1 .. Len(begun[w]) : longer[n] = PayloadOf(Frame(w, n))
      /\ longer[i] = m
  <2> HIDE DEF old, m, All
  <2>1. /\ Append(old, m) \in Seq(All)
        /\ Len(Append(old, m)) = Len(old) + 1
        /\ \A n \in 1 .. Len(old) : Append(old, m)[n] = old[n]
        /\ Append(old, m)[Len(old) + 1] = m
    BY <1>7, AppendProperties
  <2> QED BY <1>6, <2>1
<1>9. longer = [n \in 1 .. i |-> longer[n]]
  <2> HIDE DEF longer, All
  <2>1. longer \in [1 .. i -> All]
    BY <1>8, LenProperties
  <2> QED BY <2>1
<1>10. ASSUME NEW n \in 1 .. i
       PROVE  longer[n] = PayloadOf(encode_frame(w, n, begun'[w][n]))
  <2> HIDE DEF longer
  <2>1. CASE n = i
    <3>1. begun'[w][n] = length
      BY <1>2, <1>4, <2>1
    <3> QED BY <1>8, <2>1, <3>1
  <2>2. CASE n # i
    <3>1. n \in 1 .. Len(begun[w])
      BY <1>3, <2>2
    <3>2. begun'[w][n] = begun[w][n]
      BY <1>2, <1>4, <3>1
    <3> QED BY <1>8, <3>1, <3>2 DEF Frame
  <2> QED BY <2>1, <2>2
<1>11. SentBy'[w] = [n \in 1 .. i |-> PayloadOf(encode_frame(w, n, begun'[w][n]))]
  BY <1>5 DEF SentBy, Frame
<1>12. SentBy'[w] = longer
  <2> HIDE DEF longer, i
  <2> QED BY <1>9, <1>10, <1>11
<1>13. \A v \in Writer \ {w} : SentBy'[v] = SentBy[v]
  BY <1>2 DEF SentBy, Frame
<1>14. SentBy' = [v \in Writer |-> SentBy'[v]] /\ SentBy = [v \in Writer |-> SentBy[v]]
  BY DEF SentBy
<1> HIDE DEF longer, i, m
<1>15. SentBy' = [SentBy EXCEPT ![w] = longer]
  BY <1>12, <1>13, <1>14
<1> QED BY <1>15 DEF longer, i, m

\* What the reader accepts is the next message of its writer.
LEMMA AcceptsDelivers ==
  ASSUME TypeInv, OrderInv, NEW w \in Writer, NEW i \in 1 .. Len(begun[w]), Accepts(w, i)
  PROVE  /\ Len(received[w]) < Len(SentBy[w])
         /\ received' = [received EXCEPT ![w] = Append(@, SentBy[w][Len(@) + 1])]
         /\ SentBy' = SentBy
<1>1. reader.got = Frame(w, i)
  BY DEF Accepts
<1>2. i = Len(received[w]) + 1
  BY <1>1, NextFrame DEF NextUp
<1>3. Len(received[w]) \in Nat /\ Len(begun[w]) \in Nat
  BY NumberTypes
<1>4. Len(SentBy[w]) = Len(begun[w]) /\ SentBy[w][i] = PayloadOf(Frame(w, i))
  BY SentIs
<1>5. Len(received[w]) < Len(SentBy[w])
  BY <1>2, <1>3, <1>4
<1>6. received' = [received EXCEPT ![w] = Append(received[w], PayloadOf(Frame(w, i)))]
  BY <1>1 DEF Accepts
<1>7. received' = [received EXCEPT ![w] = Append(received[w], SentBy[w][Len(received[w]) + 1])]
  BY <1>2, <1>4, <1>6
<1>8. SentBy' = SentBy
  BY DEF Accepts, SentBy, Frame
<1> QED BY <1>5, <1>7, <1>8

\* A reader gets, of every writer, what it wrote, whole and in order, however the cells of
\* several writers fall: what one tears of another's frame is never taken for a message.
THEOREM FramesArriveWhole == TransportSpec => FramesAreWhole
<1>1. Init => Abstract!Init
  <2> SUFFICES ASSUME Init PROVE Abstract!Init
    OBVIOUS
  <2>1. TypeInv
    BY TypesInit DEF Init, NoRead, TypeInv, InFrames, HeadersFirst, Busy
  <2>2. ASSUME NEW w \in Writer PROVE SentBy[w] = <<>>
    <3>1. SentBy[w] \in Seq(Payloads) /\ Len(SentBy[w]) = Len(begun[w])
      BY <2>1, SentIs
    <3>2. Len(begun[w]) = 0
      BY EmptySeq DEF Init
    <3> QED BY <3>1, <3>2, EmptySeq
  <2>3. SentBy = [w \in Writer |-> <<>>]
    <3>1. SentBy = [w \in Writer |-> SentBy[w]]
      BY DEF SentBy
    <3> QED BY <2>2, <3>1
  <2> QED BY <2>3 DEF Init, Abstract!Init, SentBy
<1>2. TypeInv /\ TypeInv' /\ OrderInv /\ [Next]_transportVars => [Abstract!Next]_<<SentBy, received>>
  <2> SUFFICES ASSUME TypeInv, TypeInv', OrderInv, [Next]_transportVars
               PROVE  [Abstract!Next]_<<SentBy, received>>
    OBVIOUS
  <2>1. ASSUME UNCHANGED <<begun, received>> PROVE UNCHANGED <<SentBy, received>>
    BY <2>1 DEF SentBy, Frame
  <2>2. ASSUME NEW w \in Writer, NEW length \in Length, write_frame(w, length)
        PROVE  Abstract!Next
    <3> DEFINE m == PayloadOf(encode_frame(w, Len(begun[w]) + 1, length))
    <3>1. SentBy' = [SentBy EXCEPT ![w] = Append(@, m)]
      BY <2>2, SentGrows
    <3>2. received' = received
      BY <2>2 DEF write_frame
    <3>3. Len(begun[w]) + 1 \in 1 .. MaxFrames
      <4>1. Len(begun[w]) \in Nat
        BY NumberTypes
      <4> QED BY <2>2, <4>1, TransportAssumption DEF write_frame, TransportAssumption
    <3>4. PICK message \in {PayloadOf(encode_frame(v, n, l)) :
                            v \in Writer, n \in 1 .. MaxFrames, l \in Length} : message = m
      BY <3>3
    <3>5. Abstract!Send(w, message)
      BY <3>1, <3>2, <3>4 DEF Abstract!Send, SentBy
    <3> QED BY <3>5 DEF Abstract!Next
  <2>3. ASSUME NEW w \in Writer, NEW i \in 1 .. Len(begun[w]), Accepts(w, i)
        PROVE  Abstract!Next
    <3>1. /\ Len(received[w]) < Len(SentBy[w])
          /\ received' = [received EXCEPT ![w] = Append(@, SentBy[w][Len(@) + 1])]
          /\ SentBy' = SentBy
      BY <2>3, AcceptsDelivers
    <3>2. Abstract!Deliver(w)
      BY <3>1 DEF Abstract!Deliver, SentBy
    <3> QED BY <3>2 DEF Abstract!Next
  <2>4. CASE \E w \in Writer : Write(w)
    <3>1. PICK w \in Writer : Write(w)
      BY <2>4
    <3>2. CASE send_all(w) \/ SendFails(w)
      BY <2>1, <3>2 DEF send_all, SendFails
    <3>3. CASE \E length \in Length : write_frame(w, length)
      BY <2>2, <3>3
    <3> QED BY <3>1, <3>2, <3>3 DEF Write
  <2>5. CASE DecodeFrame
    BY <2>1, <2>3, <2>5, DecodeAccepts DEF Defect, OrderInv
  <2>6. CASE \/ StartRead \/ recv \/ Tick \/ ParseHeader \/ ReceiveTimesOut \/ PeerClosed
             \/ ReadFails \/ shutdown \/ Lost \/ UNCHANGED transportVars
    <3>1. UNCHANGED <<begun, received>>
      BY <2>6 DEF StartRead, recv, Tick, ParseHeader, ReceiveTimesOut, PeerClosed, ReadFails,
                  Defect, shutdown, Lost, transportVars
    <3> QED BY <2>1, <3>1
  <2> QED BY <2>4, <2>5, <2>6 DEF Next, Read
<1> QED BY <1>1, <1>2, OrderHolds, PTL
        DEF TransportSpec, FramesAreWhole, Abstract!Spec, SentBy


-----------------------------------------------------------------------------
(* One writer at a time.                                                    *)

\* The place in the stream before the first cell of the frame that the cell at j is of.
Start(s, j) == j - s[j].at

\* Around every cell lies its frame, as far as it has come, from its first cell on.
Runs(s) ==
  \A j \in 1 .. Len(s) :
    /\ Start(s, j) >= 0
    /\ \A p \in 1 .. Len(s) :
         (Start(s, j) < p /\ p <= Start(s, j) + SizeOf(s[j].writer, s[j].frame)) =>
           s[p] = CellAt(s[j].writer, s[j].frame, p - Start(s, j))

\* Every frame is there to its end, but for the one that its writer is about to go on with,
\* and that one is the last.
Ends(s) ==
  /\ \A v, w \in Writer : (Busy(v) /\ Busy(w)) => v = w
  /\ \A j \in 1 .. Len(s) :
       \/ Start(s, j) + SizeOf(s[j].writer, s[j].frame) <= Len(s)
       \/ /\ Busy(s[j].writer) /\ s[j].frame = Len(begun[s[j].writer])
          /\ Start(s, j) + progress[s[j].writer] = Len(s)
  /\ \A w \in Writer : Busy(w) =>
       /\ progress[w] <= Len(s)
       /\ \A at \in 1 .. progress[w] :
            s[Len(s) - progress[w] + at] = CellAt(w, Len(begun[w]), at)

\* A body's length is that of the frame whose header was read.
Believed ==
  reader.phase = "BODY" =>
    /\ Len(reader.got) >= HeaderCells
    /\ reader.want = SizeOf(reader.got[1].writer, reader.got[1].frame)

WholeInv ==
  ~overlapped =>
    /\ Runs(Stream) /\ (conn = "OPEN" => Ends(Stream))
    /\ Believed /\ reader.phase # "BAD_FRAME"

\* What a cell of the stream is.
LEMMA CellFacts ==
  ASSUME TypeInv, OrderInv, NEW j \in 1 .. Len(Stream)
  PROVE  \E v \in Writer, m, at, size \in Nat :
           /\ Stream[j].writer = v /\ Stream[j].frame = m /\ Stream[j].at = at
           /\ m \in 1 .. Len(begun[v]) /\ at >= 1 /\ at <= size
           /\ SizeOf(v, m) = size /\ size >= HeaderCells /\ Start(Stream, j) = j - at
<1>1. Stream[j] \in Cell
  BY StreamCells
<1>2. Pending(Stream[j])
  BY DEF OrderInv, AllPending
<1>3. PICK v \in Writer, m \in Nat, at \in Nat :
        Stream[j].writer = v /\ Stream[j].frame = m /\ Stream[j].at = at
  BY <1>1 DEF Cell
<1>4. NextUp(v) \in Nat \ {0} /\ Len(begun[v]) \in Nat
  BY NumberTypes
<1>5. m \in NextUp(v) .. Len(begun[v]) /\ at \in 1 .. SizeOf(v, m)
  BY <1>2, <1>3 DEF Pending
<1>6. m \in 1 .. Len(begun[v])
  BY <1>4, <1>5
<1>7. SizeOf(v, m) \in Nat /\ SizeOf(v, m) >= HeaderCells
  BY <1>6, NumberTypes
<1> QED BY <1>3, <1>5, <1>6, <1>7 DEF Start

\* A stream that loses its end is still made of runs.
LEMMA TruncatedRuns ==
  ASSUME TypeInv, TypeInv', OrderInv, Runs(Stream),
         Len(Stream') <= Len(Stream),
         \A j \in 1 .. Len(Stream') : Stream'[j] = Stream[j],
         begun' = begun
  PROVE  Runs(Stream)'
<1>1. Len(Stream) \in Nat
  BY StreamCells
<1>2. (Len(Stream) \in Nat)'
  BY StreamCells, PTL
<1>3. \A j \in 1 .. Len(Stream') : j \in 1 .. Len(Stream)
  BY <1>1, <1>2
<1> QED BY <1>3 DEF Runs, Start, SizeOf

\* The cells that send() adds go on where their frame stopped, when no other writer is in one.
LEMMA SendsRuns ==
  ASSUME TypeInv, TypeInv', OrderInv, Runs(Stream), Ends(Stream),
         NEW w, NEW i, NEW length, NEW from, NEW k, Sends(w, i, length, from, k),
         ~overlapped'
  PROVE  Runs(Stream)' /\ Ends(Stream)'
<1> DEFINE n == Len(Stream)
           size == SizeOf(w, i)'
<1>1. /\ Len(Stream') = n + k
      /\ \A j \in 1 .. n : Stream'[j] = Stream[j]
      /\ \A j \in 1 .. k : Stream'[n + j] = CellAt(w, i, from + j)
  BY SendsExtend
<1>2. /\ w \in Writer /\ i \in Nat \ {0} /\ from \in Nat /\ k \in Nat \ {0}
      /\ from = progress[w] /\ Len(begun'[w]) = i
      /\ size \in Nat /\ from + k <= size
      /\ progress'[w] = IF from + k = size THEN 0 ELSE from + k
  BY SendsExtend
<1>3. /\ \A v \in Writer \ {w} : progress'[v] = progress[v] /\ begun'[v] = begun[v]
      /\ \A v \in Writer : \A m \in 1 .. Len(begun[v]) : SizeOf(v, m)' = SizeOf(v, m)
      /\ from # 0 => begun' = begun
  BY SendsExtend
<1>4. n \in Nat
  BY StreamCells
\* No other writer is inside a frame.
<1>5. \A v \in Writer : v # w => ~Busy(v)
  <2>1. overlapped' = (overlapped \/ \E v \in Writer \ {w} : Busy(v))
    BY DEF Sends, send
  <2> QED BY <2>1
<1>6. from # 0 => (Len(begun[w]) = i /\ from <= n /\
        \A at \in 1 .. from : Stream[n - from + at] = CellAt(w, i, at))
  <2>1. SUFFICES ASSUME from # 0
                 PROVE  Len(begun[w]) = i /\ from <= n /\
                        \A at \in 1 .. from : Stream[n - from + at] = CellAt(w, i, at)
    OBVIOUS
  <2>2. Len(begun[w]) = i /\ Busy(w)
    BY <1>2, <1>3, <2>1 DEF Busy
  <2> QED BY <1>2, <2>2 DEF Ends
\* The frame that is going out begins from cells before the end of the old stream.
<1>7. from <= n
  BY <1>2, <1>4, <1>6
<1> HIDE DEF n, size
<1>8. ASSUME NEW p \in 1 .. n + k, n - from < p
      PROVE  Stream'[p] = CellAt(w, i, p - (n - from))
  <2>1. CASE p <= n
    <3> DEFINE at == p - (n - from)
    <3>1. at \in 1 .. from /\ from # 0 /\ n - from + at = p /\ p \in 1 .. n
      <4>1. from \in Nat /\ n \in Nat /\ p \in Nat /\ p >= 1 /\ p <= n /\ n - from < p
        BY <1>2, <1>4, <1>8, <2>1
      <4>2. at \in Int /\ 1 <= at /\ at <= from /\ n - from + at = p
        BY <4>1
      <4> HIDE DEF at
      <4> QED BY <4>1, <4>2
    <3> HIDE DEF at
    <3>2. Stream[p] = CellAt(w, i, at)
      BY <1>6, <3>1
    <3> QED BY <1>1, <3>1, <3>2 DEF at
  <2>2. CASE n < p
    <3> DEFINE d == p - n
    <3>1. d \in 1 .. k /\ n + d = p /\ from + d = p - (n - from)
      BY <1>2, <1>4, <1>8, <2>2
    <3> HIDE DEF d
    <3>2. Stream'[p] = CellAt(w, i, from + d)
      BY <1>1, <3>1
    <3> QED BY <3>1, <3>2
  <2> QED BY <1>2, <1>4, <2>1, <2>2
\* Every cell of the new stream is of an old frame that is complete, or of the one going out.
<1>9. ASSUME NEW j \in 1 .. n + k
      PROVE  \/ \E v \in Writer, m, at, total \in Nat :
                  /\ j \in 1 .. n /\ Stream'[j] = Stream[j]
                  /\ Stream[j].writer = v /\ Stream[j].frame = m /\ Stream[j].at = at
                  /\ SizeOf(v, m)' = total /\ SizeOf(v, m) = total
                  /\ at >= 1 /\ j - at >= 0 /\ j - at + total <= n
             \/ /\ Stream'[j].writer = w /\ Stream'[j].frame = i /\ j - Stream'[j].at = n - from
                /\ Stream'[j].at \in Nat
  <2>1. CASE j \in 1 .. n
    <3>1. PICK v \in Writer, m \in Nat, at \in Nat, total \in Nat :
            /\ Stream[j].writer = v /\ Stream[j].frame = m /\ Stream[j].at = at
            /\ m \in 1 .. Len(begun[v]) /\ at >= 1 /\ at <= total
            /\ SizeOf(v, m) = total /\ Start(Stream, j) = j - at
      BY <2>1, CellFacts DEF n
    <3>2. Stream'[j] = Stream[j] /\ SizeOf(v, m)' = total
      BY <1>1, <1>3, <2>1, <3>1
    <3>3. j - at >= 0
      BY <2>1, <3>1 DEF Runs, n
    <3>4. \/ j - at + total <= n
          \/ Busy(v) /\ m = Len(begun[v]) /\ j - at + progress[v] = n
      BY <2>1, <3>1 DEF Ends, n
    <3>5. CASE j - at + total <= n
      BY <2>1, <3>1, <3>2, <3>3, <3>5
    <3>6. CASE Busy(v) /\ m = Len(begun[v]) /\ j - at + progress[v] = n
      <4>1. v = w /\ from # 0
        BY <1>2, <1>5, <3>6 DEF Busy
      <4>2. m = i /\ j - at = n - from
        BY <1>2, <1>4, <1>6, <2>1, <3>1, <3>6, <4>1
      <4> QED BY <3>1, <3>2, <4>1, <4>2
    <3> QED BY <3>4, <3>5, <3>6
  <2>2. CASE j \notin 1 .. n
    <3> DEFINE d == j - n
    <3>1. d \in 1 .. k /\ n + d = j
      BY <1>2, <1>4, <2>2
    <3> HIDE DEF d
    <3>2. Stream'[j] = CellAt(w, i, from + d)
      BY <1>1, <3>1
    <3>3. Stream'[j].writer = w /\ Stream'[j].frame = i /\ Stream'[j].at = from + d
      BY <3>2 DEF CellAt
    <3>4. from + d \in Nat /\ j - (from + d) = n - from
      <4>1. from \in Nat /\ k \in Nat /\ n \in Nat /\ d \in Nat /\ j = n + d
        BY <1>2, <1>4, <3>1
      <4> QED BY <4>1
    <3> QED BY <3>3, <3>4
  <2> QED BY <2>1, <2>2
<1>10. Runs(Stream)'
  <2>1. ASSUME NEW j \in 1 .. n + k
        PROVE  /\ j - Stream'[j].at >= 0
               /\ \A p \in 1 .. n + k :
                    (/\ j - Stream'[j].at < p
                     /\ p <= j - Stream'[j].at + SizeOf(Stream[j].writer, Stream[j].frame)') =>
                      Stream'[p] = CellAt(Stream'[j].writer, Stream'[j].frame, p - (j - Stream'[j].at))
    <3>1. ASSUME NEW v \in Writer, NEW m \in Nat, NEW at \in Nat, NEW total \in Nat,
                 j \in 1 .. n, Stream'[j] = Stream[j],
                 Stream[j].writer = v, Stream[j].frame = m, Stream[j].at = at,
                 SizeOf(v, m)' = total, SizeOf(v, m) = total,
                 at >= 1, j - at >= 0, j - at + total <= n
          PROVE  /\ j - Stream'[j].at >= 0
                 /\ \A p \in 1 .. n + k :
                      (/\ j - Stream'[j].at < p
                       /\ p <= j - Stream'[j].at + SizeOf(Stream[j].writer, Stream[j].frame)') =>
                        Stream'[p] = CellAt(Stream'[j].writer, Stream'[j].frame, p - (j - Stream'[j].at))
      <4>1. SizeOf(Stream[j].writer, Stream[j].frame)' = total
        BY <3>1 DEF SizeOf
      <4>2. ASSUME NEW p \in 1 .. n + k, j - at < p, p <= j - at + total
            PROVE  Stream'[p] = CellAt(v, m, p - (j - at))
        <5>1. p \in 1 .. n
          BY <1>2, <1>4, <3>1, <4>2
        <5>2. Stream[p] = CellAt(v, m, p - (j - at))
          BY <3>1, <4>2, <5>1 DEF Runs, Start, n
        <5> QED BY <1>1, <5>1, <5>2
      <4> QED BY <3>1, <4>1, <4>2
    <3>2. ASSUME Stream'[j].writer = w, Stream'[j].frame = i, j - Stream'[j].at = n - from
          PROVE  /\ j - Stream'[j].at >= 0
                 /\ \A p \in 1 .. n + k :
                      (/\ j - Stream'[j].at < p
                       /\ p <= j - Stream'[j].at + SizeOf(Stream[j].writer, Stream[j].frame)') =>
                        Stream'[p] = CellAt(Stream'[j].writer, Stream'[j].frame, p - (j - Stream'[j].at))
      BY <1>2, <1>4, <1>7, <1>8, <3>2
    <3> QED BY <1>9, <3>1, <3>2
  <2> QED BY <1>1, <2>1 DEF Runs, Start
<1>11. Ends(Stream)'
  <2>1. \A u, v \in Writer : (progress'[u] # 0 /\ progress'[v] # 0) => u = v
    BY <1>3, <1>5 DEF Busy
  <2>2. ASSUME NEW j \in 1 .. n + k
        PROVE  \/ j - Stream'[j].at + SizeOf(Stream[j].writer, Stream[j].frame)' <= n + k
               \/ /\ progress'[Stream'[j].writer] # 0 /\ Stream'[j].frame = Len(begun'[Stream'[j].writer])
                  /\ j - Stream'[j].at + progress'[Stream'[j].writer] = n + k
    <3>1. ASSUME NEW v \in Writer, NEW m \in Nat, NEW at \in Nat, NEW total \in Nat,
                 Stream'[j] = Stream[j],
                 Stream[j].writer = v, Stream[j].frame = m, Stream[j].at = at,
                 SizeOf(v, m)' = total, j - at + total <= n
          PROVE  j - Stream'[j].at + SizeOf(Stream[j].writer, Stream[j].frame)' <= n + k
      <4>1. SizeOf(Stream[j].writer, Stream[j].frame)' = total
        BY <3>1 DEF SizeOf
      <4> QED BY <1>2, <1>4, <3>1, <4>1
    <3>2. ASSUME Stream'[j].writer = w, Stream'[j].frame = i, j - Stream'[j].at = n - from
          PROVE  \/ j - Stream'[j].at + SizeOf(Stream[j].writer, Stream[j].frame)' <= n + k
                 \/ /\ progress'[Stream'[j].writer] # 0 /\ Stream'[j].frame = Len(begun'[Stream'[j].writer])
                    /\ j - Stream'[j].at + progress'[Stream'[j].writer] = n + k
      <4>1. SizeOf(Stream[j].writer, Stream[j].frame)' = size
        BY <3>2 DEF SizeOf, size
      <4>2. CASE from + k = size
        BY <1>2, <1>4, <3>2, <4>1, <4>2
      <4>3. CASE from + k # size
        BY <1>2, <1>4, <3>2, <4>3
      <4> QED BY <4>2, <4>3
    <3> QED BY <1>9, <3>1, <3>2
  <2>3. ASSUME NEW v \in Writer, progress'[v] # 0
        PROVE  /\ progress'[v] <= n + k
               /\ \A at \in 1 .. progress'[v] :
                    Stream'[(n + k) - progress'[v] + at] = CellAt(v, Len(begun'[v]), at)
    <3>1. v = w
      BY <1>3, <1>5, <2>3 DEF Busy
    <3>2. progress'[w] = from + k
      BY <1>2, <2>3, <3>1
    <3>3. ASSUME NEW at \in 1 .. from + k
          PROVE  Stream'[(n + k) - (from + k) + at] = CellAt(w, i, at)
      <4> DEFINE p == n - from + at
      <4>1. /\ p \in 1 .. n + k /\ n - from < p /\ p - (n - from) = at
            /\ (n + k) - (from + k) + at = p
        <5>1. n \in Nat /\ from \in Nat /\ k \in Nat /\ from <= n
          BY <1>2, <1>4, <1>7
        <5>2. at \in Nat /\ at >= 1 /\ at <= from + k
          BY <5>1
        <5>3. (n + k) - (from + k) = n - from
          BY <5>1
        <5> QED BY <5>1, <5>2, <5>3
      <4> HIDE DEF p
      <4> QED BY <1>8, <4>1
    <3>4. progress'[v] = from + k /\ Len(begun'[v]) = i
      BY <1>2, <3>1, <3>2
    <3>5. from + k <= n + k
      BY <1>2, <1>4, <1>7
    <3>6. ASSUME NEW at \in 1 .. progress'[v]
          PROVE  Stream'[(n + k) - progress'[v] + at] = CellAt(v, Len(begun'[v]), at)
      BY <3>1, <3>3, <3>4
    <3> QED BY <3>4, <3>5, <3>6
  <2>4. \A u, v \in Writer : (Busy(u)' /\ Busy(v)') => u = v
    BY <2>1 DEF Busy
  <2>5. ASSUME NEW j \in 1 .. Len(Stream')
        PROVE  \/ (Start(Stream, j) + SizeOf(Stream[j].writer, Stream[j].frame) <= Len(Stream))'
               \/ (/\ Busy(Stream[j].writer) /\ Stream[j].frame = Len(begun[Stream[j].writer])
                   /\ Start(Stream, j) + progress[Stream[j].writer] = Len(Stream))'
    BY <1>1, <2>2 DEF Start, Busy
  <2>6. ASSUME NEW v \in Writer, Busy(v)'
        PROVE  /\ progress'[v] <= Len(Stream')
               /\ \A at \in 1 .. progress'[v] :
                    Stream'[Len(Stream') - progress'[v] + at] = CellAt(v, Len(begun'[v]), at)
    <3>1. progress'[v] # 0
      BY <2>6 DEF Busy
    <3>2. /\ progress'[v] <= n + k
          /\ \A at \in 1 .. progress'[v] :
               Stream'[(n + k) - progress'[v] + at] = CellAt(v, Len(begun'[v]), at)
      BY <2>3, <3>1
    <3>3. Len(Stream') = n + k
      BY <1>1
    <3>4. ASSUME NEW at \in 1 .. progress'[v]
          PROVE  Stream'[Len(Stream') - progress'[v] + at] = CellAt(v, Len(begun'[v]), at)
      <4>1. Stream'[(n + k) - progress'[v] + at] = CellAt(v, Len(begun'[v]), at)
        BY <3>2
      <4>2. Len(Stream') - progress'[v] + at = (n + k) - progress'[v] + at
        BY <3>3, Zenon
      <4> QED BY <4>1, <4>2, Zenon
    <3>5. progress'[v] <= Len(Stream')
      BY <3>2, <3>3
    <3> QED BY <3>4, <3>5
  <2> QED BY <2>4, <2>5, <2>6 DEF Ends
<1> QED BY <1>10, <1>11


\* What is left once the first frame is accepted begins where a frame begins.
LEMMA AcceptedRuns ==
  ASSUME TypeInv, TypeInv', OrderInv, OrderInv', Runs(Stream), conn = "OPEN" => Ends(Stream),
         NEW w \in Writer, NEW i \in 1 .. Len(begun[w]), Accepts(w, i)
  PROVE  Runs(Stream)' /\ (conn' = "OPEN" => Ends(Stream)')
<1> DEFINE n == SizeOf(w, i)
           rest == Len(wire)
<1>1. /\ i = NextUp(w) /\ Len(reader.got) = n /\ n <= Len(Stream)
      /\ \A j \in 1 .. n : Stream[j] = CellAt(w, i, j)
  BY NextFrame DEF Accepts
<1>2. n \in Nat \ {0} /\ Len(begun[w]) \in Nat /\ i \in Nat /\ Len(received[w]) \in Nat
  BY NumberTypes
<1>3. /\ rest \in Nat /\ Len(Stream) = n + rest
      /\ \A j \in 1 .. rest : Stream[n + j] = wire[j]
  BY <1>1, StreamCells
<1>4. reader'.got = <<>> /\ UNCHANGED <<begun, progress, wire, conn, overlapped>>
  BY DEF Accepts, NoRead
<1>5. Stream' = wire
  <2>1. wire \in Seq(Cell)
    BY DEF TypeInv, TransportTypeOK
  <2>2. \A s \in Seq(Cell) : <<>> \o s = s
    BY ConcatEmptySeq
  <2> QED BY <1>4, <2>1, <2>2 DEF Stream
<1>6. /\ NextUp(w)' = i + 1 /\ Len(received'[w]) = i
      /\ \A v \in Writer \ {w} : NextUp(v)' = NextUp(v)
  <2>1. Len(received'[w]) = Len(received[w]) + 1 /\ \A v \in Writer \ {w} : received'[v] = received[v]
    BY AcceptsCounts
  <2> QED BY <1>1, <2>1 DEF NextUp
<1>7. Stream[n] = CellAt(w, i, n) /\ n \in 1 .. Len(Stream)
  BY <1>1, <1>2, <1>3
<1> HIDE DEF n, rest
\* A cell that is left, and its place in the old stream.
<1>8. ASSUME NEW j \in 1 .. rest
      PROVE  \E v \in Writer, m, at, total, old \in Nat :
               /\ Stream'[j].writer = v /\ Stream'[j].frame = m /\ Stream'[j].at = at
               /\ SizeOf(v, m) = total /\ at >= 1 /\ at <= total
               /\ old = n + j /\ old \in 1 .. Len(Stream) /\ Stream[old] = Stream'[j]
               /\ ~(v = w /\ m = i)
  <2> DEFINE old == n + j
  <2>1. old \in 1 .. Len(Stream) /\ old \in Nat
    BY <1>2, <1>3
  <2>2. Stream[old] = Stream'[j]
    BY <1>3, <1>5
  <2>3. old = n + j
    OBVIOUS
  <2> HIDE DEF old
  <2>4. PICK v \in Writer, m \in Nat, at \in Nat, total \in Nat :
          /\ Stream[old].writer = v /\ Stream[old].frame = m /\ Stream[old].at = at
          /\ at >= 1 /\ at <= total /\ SizeOf(v, m) = total
    BY <2>1, CellFacts
  <2>5. ASSUME v = w, m = i PROVE FALSE
    <3>1. j \in 1 .. Len(Stream')
      BY <1>5 DEF rest
    <3>2. Pending(Stream[j])'
      BY <3>1 DEF OrderInv, AllPending
    <3>3. Stream'[j].writer = w /\ Stream'[j].frame = i
      BY <2>2, <2>4, <2>5
    <3>4. i \in NextUp(w)' .. Len(begun'[w])
      BY <3>2, <3>3 DEF Pending, NextUp
    <3> QED BY <1>2, <1>4, <1>6, <3>4
  <2> QED BY <2>1, <2>2, <2>3, <2>4, <2>5
\* No frame lies across the cut.
<1>9. ASSUME NEW j \in 1 .. rest, NEW v \in Writer, NEW m \in Nat, NEW at \in Nat,
             NEW total \in Nat, NEW old \in Nat,
             Stream'[j].writer = v, Stream'[j].frame = m, Stream'[j].at = at,
             SizeOf(v, m) = total, at >= 1, at <= total,
             old = n + j, old \in 1 .. Len(Stream), Stream[old] = Stream'[j], ~(v = w /\ m = i)
      PROVE  /\ j - at >= 0
             /\ \A p \in 1 .. rest : (j - at < p /\ p <= j - at + total) =>
                  Stream'[p] = CellAt(v, m, p - (j - at))
  <2>1. /\ old - at >= 0
        /\ \A p \in 1 .. Len(Stream) : (old - at < p /\ p <= old - at + total) =>
             Stream[p] = CellAt(v, m, p - (old - at))
    BY <1>9 DEF Runs, Start
  <2>2. ASSUME ~(j - at >= 0) PROVE FALSE
    <3>1. old - at < n /\ n <= old - at + total
      BY <1>2, <1>9, <2>2
    <3>2. Stream[n] = CellAt(v, m, n - (old - at))
      BY <1>7, <2>1, <3>1
    <3>3. v = w /\ m = i
      BY <1>7, <3>2 DEF CellAt
    <3> QED BY <1>9, <3>3
  <2>3. ASSUME NEW p \in 1 .. rest, j - at < p, p <= j - at + total
        PROVE  Stream'[p] = CellAt(v, m, p - (j - at))
    <3> DEFINE q == n + p
    <3>1. q \in 1 .. Len(Stream) /\ old - at < q /\ q <= old - at + total
          /\ q - (old - at) = p - (j - at)
      <4>1. /\ n \in Nat /\ rest \in Nat /\ Len(Stream) = n + rest
            /\ old = n + j /\ j \in Nat /\ p \in 1 .. rest
        BY <1>2, <1>3, <1>9
      <4>2. q \in 1 .. Len(Stream)
        BY <4>1
      <4>3. old - at < q /\ q <= old - at + total
        BY <2>3, <4>1
      <4>4. q - (old - at) = p - (j - at)
        BY <4>1
      <4> QED BY <4>2, <4>3, <4>4
    <3>2. Stream'[p] = Stream[q]
      BY <1>3, <1>5
    <3> HIDE DEF q
    <3>3. Stream[q] = CellAt(v, m, q - (old - at))
      BY <2>1, <3>1
    <3> QED BY <3>1, <3>2, <3>3
  <2> QED BY <2>2, <2>3
<1>10. Len(Stream') = rest /\ begun' = begun /\ progress' = progress /\ conn' = conn
  BY <1>4, <1>5 DEF rest
<1>11. Runs(Stream)'
  <2>1. ASSUME NEW j \in 1 .. rest
        PROVE  /\ j - Stream'[j].at >= 0
               /\ \A p \in 1 .. rest :
                    (/\ j - Stream'[j].at < p
                     /\ p <= j - Stream'[j].at + SizeOf(Stream[j].writer, Stream[j].frame)') =>
                      Stream'[p] = CellAt(Stream'[j].writer, Stream'[j].frame, p - (j - Stream'[j].at))
    <3>1. PICK v \in Writer, m \in Nat, at \in Nat, total \in Nat, old \in Nat :
            /\ Stream'[j].writer = v /\ Stream'[j].frame = m /\ Stream'[j].at = at
            /\ SizeOf(v, m) = total /\ at >= 1 /\ at <= total
            /\ old = n + j /\ old \in 1 .. Len(Stream) /\ Stream[old] = Stream'[j]
            /\ ~(v = w /\ m = i)
      BY <1>8
    <3>2. /\ j - at >= 0
          /\ \A p \in 1 .. rest : (j - at < p /\ p <= j - at + total) =>
               Stream'[p] = CellAt(v, m, p - (j - at))
      BY <1>9, <3>1
    <3>3. SizeOf(Stream[j].writer, Stream[j].frame)' = total
      BY <1>10, <3>1 DEF SizeOf
    <3> QED BY <3>1, <3>2, <3>3
  <2> QED BY <1>10, <2>1 DEF Runs, Start
<1>12. ASSUME conn' = "OPEN" PROVE Ends(Stream)'
  <2>1. Ends(Stream)
    BY <1>4, <1>12
  <2>2. ASSUME NEW j \in 1 .. Len(Stream')
        PROVE  \/ (Start(Stream, j) + SizeOf(Stream[j].writer, Stream[j].frame) <= Len(Stream))'
               \/ (/\ Busy(Stream[j].writer) /\ Stream[j].frame = Len(begun[Stream[j].writer])
                   /\ Start(Stream, j) + progress[Stream[j].writer] = Len(Stream))'
    <3>0. j \in 1 .. rest
      BY <1>10
    <3>1. PICK v \in Writer, m \in Nat, at \in Nat, total \in Nat, old \in Nat :
            /\ Stream'[j].writer = v /\ Stream'[j].frame = m /\ Stream'[j].at = at
            /\ SizeOf(v, m) = total /\ at >= 1 /\ at <= total
            /\ old = n + j /\ old \in 1 .. Len(Stream) /\ Stream[old] = Stream'[j]
            /\ ~(v = w /\ m = i)
      BY <1>8, <3>0
    <3>2. \/ old - at + total <= Len(Stream)
          \/ Busy(v) /\ m = Len(begun[v]) /\ old - at + progress[v] = Len(Stream)
      BY <2>1, <3>1 DEF Ends, Start
    <3>3. progress[v] \in Nat
      BY NumberTypes
    <3>4. \/ j - at + total <= rest
          \/ Busy(v) /\ m = Len(begun[v]) /\ j - at + progress[v] = rest
      <4>1. n \in Nat /\ rest \in Nat /\ Len(Stream) = n + rest /\ old = n + j /\ j \in Nat
        BY <1>2, <1>3, <3>0, <3>1
      <4>2. CASE old - at + total <= Len(Stream)
        BY <4>1, <4>2
      <4>3. CASE Busy(v) /\ m = Len(begun[v]) /\ old - at + progress[v] = Len(Stream)
        <5>1. j - at + progress[v] = rest
          BY <3>3, <4>1, <4>3
        <5> QED BY <4>3, <5>1
      <4> QED BY <3>2, <4>2, <4>3
    <3>5. SizeOf(Stream[j].writer, Stream[j].frame)' = total
      BY <1>10, <3>1 DEF SizeOf
    <3>6. Busy(v)' = Busy(v)
      BY <1>10 DEF Busy
    <3> QED BY <1>10, <3>1, <3>4, <3>5, <3>6 DEF Start, Busy
  <2>3. ASSUME NEW v \in Writer, Busy(v)'
        PROVE  /\ progress'[v] <= Len(Stream')
               /\ \A at \in 1 .. progress'[v] :
                    Stream'[Len(Stream') - progress'[v] + at] = CellAt(v, Len(begun'[v]), at)
    <3> DEFINE pr == progress[v]
    <3>1. Busy(v) /\ pr \in Nat /\ pr # 0
      BY <1>10, <2>3, NumberTypes DEF Busy
    <3>2. /\ pr <= Len(Stream)
          /\ \A at \in 1 .. pr : Stream[Len(Stream) - pr + at] = CellAt(v, Len(begun[v]), at)
      BY <2>1, <3>1 DEF Ends
    <3>3. progress'[v] = pr
      BY <1>10
    <3> HIDE DEF pr
    <3>4. ASSUME ~(pr <= rest) PROVE FALSE
      <4> DEFINE at == pr - rest
      <4>1. at \in 1 .. pr /\ Len(Stream) - pr + at = n
        BY <1>2, <1>3, <3>1, <3>2, <3>4
      <4> HIDE DEF at
      <4>2. Stream[n] = CellAt(v, Len(begun[v]), at)
        BY <3>2, <4>1
      <4>3. v = w /\ Len(begun[v]) = i
        BY <1>7, <4>2 DEF CellAt
      <4>4. Len(received'[w]) < Len(begun'[w])
        BY <2>3, <4>3 DEF OrderInv, Counts
      <4> QED BY <1>2, <1>6, <1>10, <4>3, <4>4
    <3>5. ASSUME NEW at \in 1 .. pr
          PROVE  Stream'[rest - pr + at] = CellAt(v, Len(begun[v]), at)
      <4> DEFINE p == rest - pr + at
      <4>1. p \in 1 .. rest /\ Len(Stream) - pr + at = n + p
        BY <1>2, <1>3, <3>1, <3>4
      <4> HIDE DEF p
      <4>2. Stream[n + p] = CellAt(v, Len(begun[v]), at)
        BY <3>2, <4>1
      <4>3. Stream'[p] = Stream[n + p]
        BY <1>3, <1>5, <4>1
      <4> QED BY <4>2, <4>3 DEF p
    <3> QED BY <1>10, <3>3, <3>4, <3>5
  <2>4. \A u, v \in Writer : (Busy(u)' /\ Busy(v)') => u = v
    BY <1>10, <2>1 DEF Ends, Busy
  <2> QED BY <2>2, <2>3, <2>4 DEF Ends
<1> QED BY <1>11, <1>12


\* A reader's bytes are of one frame, from its first cell on.
LEMMA FirstFrame ==
  ASSUME TypeInv, OrderInv, Runs(Stream), Len(reader.got) # 0
  PROVE  \E v \in Writer : \E m \in 1 .. Len(begun[v]) :
           /\ reader.got[1].writer = v /\ reader.got[1].frame = m
           /\ \A p \in 1 .. Len(reader.got) : p <= SizeOf(v, m) => reader.got[p] = CellAt(v, m, p)
<1>1. /\ Len(reader.got) \in Nat /\ Len(wire) \in Nat /\ Len(Stream) = Len(reader.got) + Len(wire)
      /\ \A j \in 1 .. Len(reader.got) : Stream[j] = reader.got[j]
  BY StreamCells
<1>2. 1 \in 1 .. Len(Stream) /\ 1 \in 1 .. Len(reader.got)
  BY <1>1
<1>3. Stream[1] = reader.got[1]
  BY <1>1, <1>2
<1>4. PICK v \in Writer, m \in Nat, at \in Nat, size \in Nat :
        /\ Stream[1].writer = v /\ Stream[1].frame = m /\ Stream[1].at = at
        /\ m \in 1 .. Len(begun[v]) /\ at >= 1
        /\ SizeOf(v, m) = size /\ Start(Stream, 1) = 1 - at
  BY <1>2, CellFacts
<1>5. Start(Stream, 1) = 0
  <2>1. Start(Stream, 1) >= 0
    BY <1>2 DEF Runs
  <2> QED BY <1>4, <2>1
<1>6. ASSUME NEW p \in 1 .. Len(reader.got), p <= size
      PROVE  reader.got[p] = CellAt(v, m, p)
  <2>1. p \in 1 .. Len(Stream) /\ 0 < p /\ p <= 0 + size /\ p - 0 = p
    BY <1>1, <1>6
  <2>2. Stream[p] = CellAt(v, m, p - 0)
    BY <1>2, <1>4, <1>5, <2>1 DEF Runs
  <2> QED BY <1>1, <2>1, <2>2
<1> QED BY <1>3, <1>4, <1>6

\* A frame and its header, cell by cell.
LEMMA HeaderCellsOf ==
  ASSUME TypeInv, NEW v \in Writer, NEW m \in 1 .. Len(begun[v])
  PROVE  /\ Frame(v, m) \in Seq(Cell) /\ Len(Frame(v, m)) = SizeOf(v, m)
         /\ \A p \in 1 .. SizeOf(v, m) : Frame(v, m)[p] = CellAt(v, m, p)
         /\ HeaderOf(v, m) \in Seq(Cell) /\ Len(HeaderOf(v, m)) = HeaderCells
         /\ \A p \in 1 .. HeaderCells : HeaderOf(v, m)[p] = CellAt(v, m, p)
         /\ SizeOf(v, m) \in Nat /\ SizeOf(v, m) >= HeaderCells
<1>1. SizeOf(v, m) \in Nat /\ SizeOf(v, m) >= HeaderCells /\ HeaderCells \in Nat /\ m \in Nat
  BY NumberTypes, TransportAssumption DEF TransportAssumption
<1>2. begun[v][m] \in Nat
  <2>1. m \in DOMAIN begun[v]
    BY LenProperties DEF TypeInv, TransportTypeOK
  <2> QED BY <2>1, InFrame DEF TypeInv
<1> DEFINE length == begun[v][m]
<1>3. /\ Frame(v, m) \in Seq(Cell) /\ Len(Frame(v, m)) = SizeOf(v, m)
      /\ \A p \in 1 .. SizeOf(v, m) : Frame(v, m)[p] = CellAt(v, m, p)
  <2> DEFINE frame == encode_frame(v, m, length)
  <2>1. frame \in Seq(Cell) /\ Len(frame) = Size(length)
        /\ \A p \in 1 .. Size(length) : frame[p] = CellAt(v, m, p)
    BY <1>1, <1>2, FrameCells
  <2>2. Frame(v, m) = frame /\ SizeOf(v, m) = Size(length)
    BY DEF Frame, SizeOf
  <2> HIDE DEF frame, length
  <2> QED BY <2>1, <2>2
<1> DEFINE frame == Frame(v, m)
           header == SubSeq(frame, 0 + 1, HeaderCells)
<1>4. header = HeaderOf(v, m)
  BY DEF HeaderOf
<1> HIDE DEF frame
<1>5. header \in Seq(Cell) /\ Len(header) = HeaderCells - 0
      /\ \A p \in 1 .. HeaderCells - 0 : header[p] = frame[0 + p]
  <2>1. frame \in Seq(Cell) /\ Len(frame) = SizeOf(v, m)
    BY <1>3 DEF frame
  <2> QED BY <1>1, <2>1, Piece
<1> HIDE DEF header
<1>6. Len(header) = HeaderCells /\ \A p \in 1 .. HeaderCells : header[p] = CellAt(v, m, p)
  <2>1. HeaderCells - 0 = HeaderCells
    BY <1>1
  <2>2. ASSUME NEW p \in 1 .. HeaderCells PROVE header[p] = CellAt(v, m, p)
    <3>1. 0 + p = p /\ p \in 1 .. SizeOf(v, m)
      BY <1>1
    <3>2. header[p] = frame[p]
      BY <1>5, <2>1, <3>1
    <3> QED BY <1>3, <3>1, <3>2 DEF frame
  <2> QED BY <1>5, <2>1, <2>2
<1> QED BY <1>1, <1>3, <1>4, <1>5, <1>6

\* A whole header is that of one frame, and declares its length.
LEMMA HeaderIsOne ==
  ASSUME TypeInv, OrderInv, Runs(Stream), reader.phase = "HEADER", Complete
  PROVE  /\ Len(reader.got) = HeaderCells /\ ~IsTorn
         /\ \A length \in Declared :
              Size(length) = SizeOf(reader.got[1].writer, reader.got[1].frame)
<1>0. HeaderCells \in Nat /\ HeaderCells # 0 /\ MaxFrames \in Nat
  BY TransportAssumption DEF TransportAssumption
<1>1. Len(reader.got) = HeaderCells /\ reader.got \in Seq(Cell)
  BY DEF TypeInv, HeadersFirst, Complete, TransportTypeOK
<1>2. PICK v \in Writer : \E m \in 1 .. Len(begun[v]) :
        /\ reader.got[1].writer = v /\ reader.got[1].frame = m
        /\ \A p \in 1 .. Len(reader.got) : p <= SizeOf(v, m) => reader.got[p] = CellAt(v, m, p)
  BY <1>0, <1>1, FirstFrame
<1>3. PICK m \in 1 .. Len(begun[v]) :
        /\ reader.got[1].writer = v /\ reader.got[1].frame = m
        /\ \A p \in 1 .. Len(reader.got) : p <= SizeOf(v, m) => reader.got[p] = CellAt(v, m, p)
  BY <1>2
<1>4. /\ HeaderOf(v, m) \in Seq(Cell) /\ Len(HeaderOf(v, m)) = HeaderCells
      /\ \A p \in 1 .. HeaderCells : HeaderOf(v, m)[p] = CellAt(v, m, p)
      /\ SizeOf(v, m) \in Nat /\ SizeOf(v, m) >= HeaderCells
  BY HeaderCellsOf
<1>5. \A p \in 1 .. HeaderCells : reader.got[p] = HeaderOf(v, m)[p]
  BY <1>0, <1>1, <1>3, <1>4
<1> DEFINE header == HeaderOf(v, m)
<1>6. header \in Seq(Cell) /\ Len(header) = Len(reader.got)
      /\ \A p \in 1 .. Len(reader.got) : reader.got[p] = header[p]
  BY <1>1, <1>4, <1>5
<1>7. reader.got = header
  <2> HIDE DEF header
  <2> QED BY <1>1, <1>6, SeqEqual
<1>8. m \in DOMAIN begun[v] /\ Len(begun[v]) \in Nat
  BY LenProperties DEF TypeInv, TransportTypeOK
<1>9. ~IsTorn
  BY <1>7, <1>8 DEF IsTorn
<1>10. ASSUME NEW f \in Writer \X (1 .. MaxFrames),
              f[2] <= Len(begun[f[1]]), reader.got = HeaderOf(f[1], f[2])
       PROVE  f[1] = v /\ f[2] = m
  <2>1. f[1] \in Writer /\ f[2] \in 1 .. MaxFrames
    BY <1>10
  <2>2. Len(begun[f[1]]) \in Nat
    BY <2>1, NumberTypes
  <2>3. f[2] \in 1 .. Len(begun[f[1]])
    BY <1>0, <1>10, <2>1, <2>2
  <2> DEFINE u == f[1]
             k == f[2]
  <2> HIDE DEF u, k
  <2>4. \A p \in 1 .. HeaderCells : HeaderOf(u, k)[p] = CellAt(u, k, p)
    BY <2>1, <2>3, HeaderCellsOf DEF u, k
  <2>5. reader.got[1] = CellAt(u, k, 1)
    BY <1>0, <1>10, <2>4 DEF u, k
  <2>6. u = v /\ k = m
    BY <1>3, <2>5 DEF CellAt
  <2> QED BY <2>6 DEF u, k
<1>11. <<v, m>> \in Writer \X (1 .. MaxFrames) /\ m <= Len(begun[v])
  <2>1. Len(begun[v]) <= MaxFrames
    BY DEF OrderInv, Counts
  <2> QED BY <1>0, <1>8, <2>1
<1> DEFINE frames == {f \in Writer \X (1 .. MaxFrames) :
                        f[2] <= Len(begun[f[1]]) /\ reader.got = HeaderOf(f[1], f[2])}
<1>12. frames # {} /\ \A f \in frames : f[1] = v /\ f[2] = m
  BY <1>7, <1>10, <1>11
<1>13. ASSUME NEW length \in Declared PROVE length = begun[v][m]
  <2>1. Declared = {begun[f[1]][f[2]] : f \in frames}
    BY <1>12 DEF Declared
  <2> QED BY <1>12, <2>1
<1>14. SizeOf(reader.got[1].writer, reader.got[1].frame) = Size(begun[v][m])
  BY <1>3 DEF SizeOf
<1> QED BY <1>1, <1>9, <1>13, <1>14

\* A whole body is a frame.
LEMMA BodyIsFrame ==
  ASSUME TypeInv, OrderInv, Runs(Stream), Believed, reader.phase = "BODY", Complete
  PROVE  \E v \in Writer : \E m \in 1 .. Len(begun[v]) : reader.got = Frame(v, m)
<1>0. HeaderCells \in Nat /\ HeaderCells # 0
  BY TransportAssumption DEF TransportAssumption
<1>1. Len(reader.got) >= HeaderCells /\ Len(reader.got) \in Nat /\ reader.got \in Seq(Cell)
      /\ Len(reader.got) = SizeOf(reader.got[1].writer, reader.got[1].frame)
  BY StreamCells DEF Believed, TypeInv, Complete, TransportTypeOK
<1>2. Len(reader.got) # 0
  BY <1>0, <1>1
<1>3. PICK v \in Writer : \E m \in 1 .. Len(begun[v]) :
        /\ reader.got[1].writer = v /\ reader.got[1].frame = m
        /\ \A p \in 1 .. Len(reader.got) : p <= SizeOf(v, m) => reader.got[p] = CellAt(v, m, p)
  BY <1>2, FirstFrame
<1>4. PICK m \in 1 .. Len(begun[v]) :
        /\ reader.got[1].writer = v /\ reader.got[1].frame = m
        /\ \A p \in 1 .. Len(reader.got) : p <= SizeOf(v, m) => reader.got[p] = CellAt(v, m, p)
  BY <1>3
<1> DEFINE frame == Frame(v, m)
<1>5. frame \in Seq(Cell) /\ Len(frame) = SizeOf(v, m)
      /\ \A p \in 1 .. SizeOf(v, m) : frame[p] = CellAt(v, m, p)
  BY HeaderCellsOf
<1>6. Len(reader.got) = SizeOf(v, m)
  BY <1>1, <1>4
<1>7. \A p \in 1 .. Len(reader.got) : reader.got[p] = frame[p]
  BY <1>1, <1>4, <1>5, <1>6
<1>8. reader.got = frame
  <2> HIDE DEF frame
  <2> QED BY <1>1, <1>5, <1>6, <1>7, SeqEqual
<1> QED BY <1>8


\* As long as no two writers overlap, a step leaves whole frames, and a reader that can
\* tell them.
LEMMA WholeStep ==
  ASSUME TypeInv, TypeInv', OrderInv, OrderInv', ReaderIs, WholeInv, [Next]_transportVars
  PROVE  WholeInv'
<1> SUFFICES ASSUME ~overlapped'
             PROVE  /\ Runs(Stream)' /\ (conn' = "OPEN" => Ends(Stream)')
                    /\ Believed' /\ reader'.phase # "BAD_FRAME"
  BY DEF WholeInv
<1>1. ~overlapped
  <2>1. overlapped' = overlapped \/ \E v \in Writer : overlapped' = (overlapped \/ \E u \in Writer \ {v} : Busy(u))
    BY DEF Next, Write, write_frame, send_all, send, SendFails, Read, StartRead, recv, Tick,
           ParseHeader, DecodeFrame, ReceiveTimesOut, PeerClosed, ReadFails, Defect, shutdown,
           Lost, transportVars
  <2> QED BY <2>1
<1>2. /\ Runs(Stream) /\ (conn = "OPEN" => Ends(Stream)) /\ Believed
      /\ reader.phase # "BAD_FRAME"
  BY <1>1 DEF WholeInv
<1>3. /\ Len(Stream) \in Nat /\ Len(reader.got) \in Nat /\ Len(wire) \in Nat
      /\ Len(Stream) = Len(reader.got) + Len(wire)
      /\ \A j \in 1 .. Len(reader.got) : Stream[j] = reader.got[j]
  BY StreamCells
<1>4. HeaderCells \in Nat /\ HeaderCells # 0
  BY TransportAssumption DEF TransportAssumption
\* A stream that does not change, and one that its reader drops.
<1>5. ASSUME Stream' = Stream, begun' = begun,
             conn' # "OPEN" \/ (conn' = conn /\ progress' = progress)
      PROVE  Runs(Stream)' /\ (conn' = "OPEN" => Ends(Stream)')
  <2>1. Runs(Stream)'
    BY <1>2, <1>3, <1>5, TruncatedRuns
  <2>2. ASSUME conn' = "OPEN" PROVE Ends(Stream)'
    <3>1. Ends(Stream) /\ progress' = progress
      BY <1>2, <1>5, <2>2
    <3> QED BY <1>5, <3>1 DEF Ends, Start, SizeOf, Busy
  <2> QED BY <2>1, <2>2
<1>6. ASSUME NEW phase \in {"FRAME_TOO_LARGE", "PEER_TIMEOUT", "PEER_CLOSED", "TRUNCATED"},
             Defect(phase)
      PROVE  /\ Runs(Stream)' /\ (conn' = "OPEN" => Ends(Stream)')
             /\ Believed' /\ reader'.phase # "BAD_FRAME"
  <2>1. reader'.got = <<>> /\ reader'.phase = phase /\ wire' = <<>> /\ conn' = "LOST" /\ begun' = begun
    BY <1>6 DEF Defect, NoRead
  <2>2. Len(Stream') = 0
    <3>1. <<>> \o <<>> = <<>> /\ Len(<<>>) = 0
      BY ConcatEmptySeq, EmptySeq
    <3> QED BY <2>1, <3>1 DEF Stream
  <2>3. Runs(Stream)'
    BY <1>2, <1>3, <2>1, <2>2, TruncatedRuns
  <2> QED BY <2>1, <2>3 DEF Believed
<1>7. CASE \E w \in Writer : Write(w)
  <2>1. PICK w \in Writer : Write(w)
    BY <1>7
  <2>2. CASE SendFails(w)
    <3>1. conn' # "OPEN" /\ reader' = reader /\ begun' = begun /\ Stream' = Stream
      BY <2>2 DEF SendFails, Stream
    <3>2. Believed'
      BY <1>2, <3>1 DEF Believed, SizeOf
    <3> QED BY <1>2, <1>5, <3>1, <3>2
  <2>3. CASE (\E length \in Length : write_frame(w, length)) \/ send_all(w)
    <3>1. PICK i, length, from, k \in Nat : Sends(w, i, length, from, k)
      BY <2>3, WriteSends DEF TypeInv
    <3>2. reader' = reader /\ conn = "OPEN"
      BY <3>1 DEF Sends
    <3>3. Runs(Stream)' /\ Ends(Stream)'
      BY <1>2, <3>1, <3>2, SendsRuns
    <3>4. \A v \in Writer : \A m \in 1 .. Len(begun[v]) : SizeOf(v, m)' = SizeOf(v, m)
      BY <3>1, SendsExtend
    <3>5. ASSUME reader.phase = "BODY"
          PROVE  SizeOf(reader.got[1].writer, reader.got[1].frame)' =
                   SizeOf(reader.got[1].writer, reader.got[1].frame)
      <4>1. Len(reader.got) # 0
        BY <1>2, <1>3, <1>4, <3>5 DEF Believed
      <4>2. PICK v \in Writer : \E m \in 1 .. Len(begun[v]) :
              reader.got[1].writer = v /\ reader.got[1].frame = m
        BY <1>2, <4>1, FirstFrame
      <4>3. PICK m \in 1 .. Len(begun[v]) : reader.got[1].writer = v /\ reader.got[1].frame = m
        BY <4>2
      <4>4. SizeOf(v, m)' = SizeOf(v, m)
        BY <3>4
      <4> QED BY <3>2, <4>3, <4>4 DEF SizeOf
    <3>6. Believed'
      BY <1>2, <3>2, <3>5 DEF Believed
    <3> QED BY <1>2, <3>2, <3>3, <3>6
  <2> QED BY <2>1, <2>2, <2>3 DEF Write
<1>8. CASE StartRead
  <2>1. reader.got = <<>> /\ reader'.got = <<>> /\ reader'.phase = "HEADER"
        /\ UNCHANGED <<begun, progress, wire, conn>>
    BY <1>8 DEF StartRead, ReaderIs, Reading, NoRead
  <2> QED BY <1>5, <2>1 DEF Stream, Believed
<1>9. CASE recv
  <2>1. /\ reader'.got \o wire' = reader.got \o wire /\ reader' = [reader EXCEPT !.got = reader'.got]
        /\ reader'.got \in Seq(Cell) /\ Len(reader.got) <= Len(reader'.got)
        /\ \A j \in DOMAIN reader.got : reader'.got[j] = reader.got[j]
    BY <1>9, RecvMoves DEF TypeInv
  <2>2. UNCHANGED <<begun, progress, conn>>
    BY <1>9 DEF recv
  <2>3. reader'.phase = reader.phase /\ reader'.want = reader.want
    BY <2>1 DEF TypeInv, TransportTypeOK
  <2>4. ASSUME reader.phase = "BODY"
        PROVE  reader'.got[1] = reader.got[1] /\ Len(reader'.got) >= HeaderCells
    <3>1. Len(reader.got) >= HeaderCells
      BY <1>2, <2>4 DEF Believed
    <3>2. DOMAIN reader.got = 1 .. Len(reader.got)
      BY LenProperties DEF TypeInv, TransportTypeOK
    <3>3. 1 \in DOMAIN reader.got
      BY <1>3, <1>4, <3>1, <3>2
    <3>4. Len(reader'.got) \in Nat
      BY <2>1, LenProperties
    <3> QED BY <1>3, <1>4, <2>1, <3>1, <3>3, <3>4
  <2>5. Believed'
    BY <1>2, <2>2, <2>3, <2>4 DEF Believed, SizeOf
  <2> QED BY <1>2, <1>5, <2>1, <2>2, <2>3, <2>5 DEF Stream
<1>10. CASE Tick
  <2>1. reader'.phase = reader.phase /\ reader'.got = reader.got /\ reader'.want = reader.want
        /\ UNCHANGED <<begun, progress, wire, conn>>
    BY <1>10 DEF Tick, TypeInv, TransportTypeOK
  <2> QED BY <1>2, <1>5, <2>1 DEF Stream, Believed, SizeOf
<1>11. CASE ParseHeader
  <2>1. /\ reader.phase = "HEADER" /\ Complete
    BY <1>11 DEF ParseHeader
  <2>2. /\ Len(reader.got) = HeaderCells /\ ~IsTorn
        /\ \A length \in Declared :
             Size(length) = SizeOf(reader.got[1].writer, reader.got[1].frame)
    BY <1>2, <2>1, HeaderIsOne
  <2>3. PICK length \in Declared :
          \/ Defect("FRAME_TOO_LARGE")
          \/ /\ reader' = [reader EXCEPT !.phase = "BODY", !.elapsed = 0, !.want = Size(length)]
             /\ UNCHANGED <<begun, progress, wire, conn, received, overlapped>>
    BY <1>11, <2>2 DEF ParseHeader
  <2>4. CASE Defect("FRAME_TOO_LARGE")
    BY <1>6, <2>4
  <2>5. CASE /\ reader' = [reader EXCEPT !.phase = "BODY", !.elapsed = 0, !.want = Size(length)]
             /\ UNCHANGED <<begun, progress, wire, conn, received, overlapped>>
    <3>1. reader'.phase = "BODY" /\ reader'.got = reader.got /\ reader'.want = Size(length)
      BY <2>5 DEF TypeInv, TransportTypeOK
    <3>2. Believed'
      BY <1>4, <2>2, <2>5, <3>1 DEF Believed, SizeOf
    <3> QED BY <1>5, <2>5, <3>1, <3>2 DEF Stream
  <2> QED BY <2>3, <2>4, <2>5
<1>12. CASE DecodeFrame
  <2>1. reader.phase = "BODY" /\ Complete
    BY <1>12 DEF DecodeFrame
  <2>2. \E v \in Writer : \E m \in 1 .. Len(begun[v]) : reader.got = Frame(v, m)
    BY <1>2, <2>1, BodyIsFrame
  <2>3. \E w \in Writer : \E i \in 1 .. Len(begun[w]) : Accepts(w, i)
    BY <1>12, <2>2, DecodeAccepts DEF OrderInv
  <2>4. PICK w \in Writer : \E i \in 1 .. Len(begun[w]) : Accepts(w, i)
    BY <2>3
  <2>5. PICK i \in 1 .. Len(begun[w]) : Accepts(w, i)
    BY <2>4
  <2>6. Runs(Stream)' /\ (conn' = "OPEN" => Ends(Stream)')
    BY <1>2, <2>5, AcceptedRuns
  <2>7. reader'.phase = "IDLE"
    BY <2>5 DEF Accepts, NoRead
  <2> QED BY <2>6, <2>7 DEF Believed
<1>13. CASE ReceiveTimesOut \/ PeerClosed \/ ReadFails
  BY <1>6, <1>13 DEF ReceiveTimesOut, PeerClosed, ReadFails
<1>14. CASE shutdown
  <2>1. Stream' = Stream /\ begun' = begun /\ conn' # "OPEN" /\ reader' = reader
    BY <1>14 DEF shutdown, Stream
  <2> QED BY <1>2, <1>5, <2>1 DEF Believed, SizeOf
<1>15. CASE Lost
  <2>1. conn' = "LOST" /\ wire' = <<>> /\ UNCHANGED <<begun, progress, reader, received>>
    BY <1>15 DEF Lost
  <2>2. Stream' = reader.got
    <3>1. \A s \in Seq(Cell) : s \o <<>> = s
      BY ConcatEmptySeq
    <3> QED BY <2>1, <3>1 DEF Stream, TypeInv, TransportTypeOK
  <2>3. Runs(Stream)'
    BY <1>2, <1>3, <2>1, <2>2, TruncatedRuns
  <2> QED BY <1>2, <2>1, <2>3 DEF Believed, SizeOf
<1>16. CASE UNCHANGED transportVars
  <2>1. Stream' = Stream /\ UNCHANGED <<begun, progress, conn, reader>>
    BY <1>16 DEF transportVars, Stream
  <2> QED BY <1>2, <1>5, <2>1 DEF Believed, SizeOf
<1> QED BY <1>7, <1>8, <1>9, <1>10, <1>11, <1>12, <1>13, <1>14, <1>15, <1>16 DEF Next, Read

\* As long as one writer waits for the other, no reader ever meets a frame that is none
\* (OneWriterNeverTears): not a header of two frames, nor a body whose tag does not match.
THEOREM OneWriterKeepsFrames == TransportSpec => []OneWriterNeverTears
<1>1. ASSUME Init, TypeInv PROVE WholeInv
  <2>1. reader.got = <<>> /\ wire = <<>> /\ reader.phase = "IDLE"
    BY <1>1 DEF Init, NoRead
  <2>2. Len(Stream) = 0
    <3>1. <<>> \o <<>> = <<>> /\ Len(<<>>) = 0
      BY ConcatEmptySeq, EmptySeq
    <3> QED BY <2>1, <3>1 DEF Stream
  <2>3. Runs(Stream)
    BY <2>2 DEF Runs
  <2>4. \A w \in Writer : ~Busy(w)
    BY <1>1 DEF Init, Busy
  <2>5. Ends(Stream)
    BY <2>2, <2>4 DEF Ends
  <2> QED BY <2>1, <2>3, <2>5 DEF WholeInv, Believed
<1>2. TypeInv /\ TypeInv' /\ OrderInv /\ OrderInv' /\ ReaderIs /\ WholeInv /\ [Next]_transportVars
        => WholeInv'
  BY WholeStep
<1>3. WholeInv => OneWriterNeverTears
  BY DEF WholeInv, OneWriterNeverTears
<1> QED BY <1>1, <1>2, <1>3, OrderHolds, PTL DEF TransportSpec

=============================================================================
