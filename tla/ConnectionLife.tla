--------------------------- MODULE ConnectionLife ----------------------------
(***************************************************************************)
(* What the library promises the user about every connection: it comes up  *)
(* at most once, its end is reported after that, and it is freed after     *)
(* that. The report may come again and again once the peer has closed its  *)
(* side, and only then; and only when the server is being destroyed may a  *)
(* connection be freed without a report.                                   *)
(***************************************************************************)
EXTENDS Naturals

CONSTANT Conns   \* one element per connection that is ever accepted

VARIABLES
  life,       \* how far each connection has come, as the user is told
  ends,       \* how often the user has been told that it is down
  lost,       \* the connections whose peer has closed its side
  stopping    \* the server is being destroyed

vars == <<life, ends, lost, stopping>>

Stages == {"none", "accepted", "up", "down", "freed"}

Init ==
  /\ life = [c \in Conns |-> "none"]
  /\ ends = [c \in Conns |-> 0]
  /\ lost = {}
  /\ stopping = FALSE

Advance(c, from, to) ==
  /\ life[c] \in from
  /\ life' = [life EXCEPT ![c] = to]
  /\ UNCHANGED <<lost, stopping>>

Accept(c) == Advance(c, {"none"}, "accepted") /\ UNCHANGED ends

\* The loop that accepts a connection may establish it at once.
Up(c) == Advance(c, {"none", "accepted"}, "up") /\ UNCHANGED ends

Report(c) == ends' = [ends EXCEPT ![c] = @ + 1]

\* The end is reported for the first time.
Down(c) == Advance(c, {"up"}, "down") /\ Report(c)

\* The end of the stream is seen once more before the connection is removed.
DownAgain(c) == c \in lost /\ Advance(c, {"down"}, "down") /\ Report(c)

\* The peer closes its side of a connection that has not been freed.
Lose(c) ==
  /\ life[c] \notin {"none", "freed"}
  /\ lost' = lost \cup {c}
  /\ UNCHANGED <<life, ends, stopping>>

\* Several connections may go at once, with the last references to them.
Free(S) ==
  /\ S # {}
  /\ \A c \in S : life[c] = "down" \/ (stopping /\ life[c] \in {"accepted", "up"})
  /\ life' = [c \in Conns |-> IF c \in S THEN "freed" ELSE life[c]]
  /\ UNCHANGED <<ends, lost, stopping>>

Stop ==
  /\ ~stopping
  /\ stopping' = TRUE
  /\ UNCHANGED <<life, ends, lost>>

Next ==
  \/ \E c \in Conns : Accept(c) \/ Up(c) \/ Down(c) \/ DownAgain(c) \/ Lose(c)
  \/ \E S \in SUBSET Conns : Free(S)
  \/ Stop

Spec == Init /\ [][Next]_vars
=============================================================================
