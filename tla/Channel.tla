-------------------------------- MODULE Channel --------------------------------
(***************************************************************************)
(* What a framed connection promises its reader: of every writer, a prefix  *)
(* of the messages it began to write, in order, each whole and once.        *)
(***************************************************************************)
EXTENDS Sequences, Naturals

CONSTANTS Writer, Message

VARIABLES
  sent,       \* per writer: the messages it began to write
  delivered   \* per writer: those the reader has accepted

Init == sent = [w \in Writer |-> <<>>] /\ delivered = [w \in Writer |-> <<>>]

Send(w, m) ==
  /\ sent' = [sent EXCEPT ![w] = Append(@, m)]
  /\ UNCHANGED delivered

Deliver(w) ==
  /\ Len(delivered[w]) < Len(sent[w])
  /\ delivered' = [delivered EXCEPT ![w] = Append(@, sent[w][Len(@) + 1])]
  /\ UNCHANGED sent

Next == \E w \in Writer : Deliver(w) \/ \E m \in Message : Send(w, m)

Spec == Init /\ [][Next]_<<sent, delivered>>
=============================================================================
