------------------------------ MODULE AtMostOnce ------------------------------
(***************************************************************************)
(* What the idempotency window promises to a client that retries: an attempt *)
(* is accepted at most once among any Window accepted mutations in a row,    *)
(* whoever sends it and over whatever connection.  An attempt that has left  *)
(* the window may be accepted again.                                         *)
(***************************************************************************)
EXTENDS Integers, Sequences

CONSTANTS
  Attempt,   \* the attempt ids
  Window     \* GovernorLimits::max_attempts_remembered, at least one

VARIABLE log   \* the attempts of the accepted mutations, in order

\* The attempts of the last Window accepted mutations.
Recent == {log[i] : i \in {j \in 1 .. Len(log) : j > Len(log) - Window}}

Init == log = <<>>

Accept(a) ==
  /\ a \notin Recent
  /\ log' = Append(log, a)

Next == \E a \in Attempt : Accept(a)

Spec == Init /\ [][Next]_log

\* At least Window other acceptances lie between two of one attempt.
Spaced ==
  \A i, j \in 1 .. Len(log) : i < j /\ log[i] = log[j] => j - i > Window
=============================================================================
