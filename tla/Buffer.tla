------------------------------- MODULE Buffer -------------------------------
(***************************************************************************)
(* Buffer: a vector with kCheapPrepend bytes in front, of which the bytes  *)
(* from readerIndex_ to writerIndex_ wait to be read. The callers append,  *)
(* read from a socket and retrieve; writeFd() only looks.                  *)
(*                                                                         *)
(* The bytes are numbered in the order in which they are put in; 0 is a    *)
(* byte nobody put in. Once a read has failed (fate) nothing more happens. *)
(***************************************************************************)
EXTENDS Integers

CONSTANTS
  kCheapPrepend,   \* the bytes in front
  kInitialSize,    \* the room for data at the beginning
  ExtraSize,       \* the size of readFd's buffer on the stack
  SizeModulus,     \* size_t counts modulo this number
  MaxBytes         \* bound: how many bytes are put in altogether

ASSUME SizesAssumption ==
  {kCheapPrepend, kInitialSize, ExtraSize, MaxBytes} \subseteq Nat
ASSUME ModulusAssumption == SizeModulus \in Nat \ {0}

VARIABLES
  size,          \* buffer_.size()
  buffer,        \* the bytes of buffer_
  readerIndex,   \* readerIndex_
  writerIndex,   \* writerIndex_
  given,         \* history: how many bytes have been put in
  taken,         \* history: how many have been retrieved
  peak,          \* history: the largest number of bytes that ever waited
  fate           \* after a failed read: "missed" by the code, or "aborted"

vars == <<size, buffer, readerIndex, writerIndex, given, taken, peak, fate>>

Init ==
  /\ size = kCheapPrepend + kInitialSize
  /\ buffer = [p \in 0 .. size - 1 |-> 0]
  /\ readerIndex = kCheapPrepend
  /\ writerIndex = kCheapPrepend
  /\ given = 0 /\ taken = 0 /\ peak = 0
  /\ fate = "fine"

readableBytes == writerIndex - readerIndex
writableBytes == size - writerIndex

-----------------------------------------------------------------------------
(* append(), on bytes d with the writer's index w.                          *)

\* d with the bytes first, first + 1, ... at w .. w + n - 1, in a vector of
\* `total' bytes.
Written(d, w, n, first, total) ==
  [p \in 0 .. total - 1 |-> IF w <= p /\ p < w + n THEN first + (p - w) ELSE d[p]]

\* Mutation: the indices are set back and the bytes stay.
MovedNothing(d, w) == d

\* The waiting bytes move to the front.
Moved(d, w) ==
  [p \in 0 .. size - 1 |->
     IF kCheapPrepend <= p /\ p < kCheapPrepend + (w - readerIndex)
     THEN d[p - kCheapPrepend + readerIndex] ELSE d[p]]

\* Mutation: the bytes in front count as room.
MustGrowWithoutPrepend(w, n) == size - w + readerIndex < n

\* Mutation: the room before readerIndex_ is not used again.
MustGrowAlways(w, n) == TRUE

MustGrow(w, n) == size - w + readerIndex < n + kCheapPrepend

appendAt(d, w, n, first) ==
  \/ /\ n <= size - w
     /\ buffer' = Written(d, w, n, first, size)
     /\ writerIndex' = w + n
     /\ UNCHANGED <<size, readerIndex>>
  \/ /\ n > size - w /\ MustGrow(w, n)
     /\ size' = w + n
     /\ buffer' = Written(d, w, n, first, w + n)
     /\ writerIndex' = w + n
     /\ UNCHANGED readerIndex
  \/ /\ n > size - w /\ ~MustGrow(w, n)
     /\ LET end == kCheapPrepend + (w - readerIndex) IN
          /\ buffer' = Written(Moved(d, w), end, n, first, size)
          /\ writerIndex' = end + n
     /\ readerIndex' = kCheapPrepend
     /\ UNCHANGED size

Arrive(n) ==
  /\ fate = "fine"
  /\ given + n <= MaxBytes
  /\ given' = given + n
  /\ peak' = IF given + n - taken > peak THEN given + n - taken ELSE peak
  /\ UNCHANGED <<taken, fate>>

append(n) ==
  /\ Arrive(n)
  /\ appendAt(buffer, writerIndex, n, given + 1)

-----------------------------------------------------------------------------
\* readv() fills the room behind writerIndex_ and then the buffer on the stack,
\* which is offered only if that room is smaller.
readFd(n) ==
  /\ n <= writableBytes + (IF writableBytes < ExtraSize THEN ExtraSize ELSE 0)
  /\ Arrive(n)
  /\ IF n < writableBytes
     THEN /\ buffer' = Written(buffer, writerIndex, n, given + 1, size)
          /\ writerIndex' = writerIndex + n
          /\ UNCHANGED <<size, readerIndex>>
     ELSE appendAt(Written(buffer, writerIndex, writableBytes, given + 1, size),
                   size, n - writableBytes, given + 1 + writableBytes)

\* readv() returns -1, and the size_t that holds it is not less than zero. The
\* copy of almost SizeModulus bytes faults or, where the length is seen to be
\* negative as a pointer difference, copies nothing.
readFdFails ==
  LET len == SizeModulus - 1 - writableBytes
  IN  /\ fate = "fine"
      /\ IF readerIndex < (len + kCheapPrepend) % SizeModulus
         THEN /\ size' = (size + len) % SizeModulus
              /\ buffer' = [p \in 0 .. size' - 1 |-> buffer[p]]
              /\ writerIndex' = (size + len) % SizeModulus
              /\ UNCHANGED readerIndex
         ELSE /\ buffer' = Moved(buffer, size)
              /\ writerIndex' = (kCheapPrepend + (size - readerIndex) + len) % SizeModulus
              /\ readerIndex' = kCheapPrepend
              /\ UNCHANGED size
      /\ fate' \in {"missed", "aborted"}
      /\ UNCHANGED <<given, taken, peak>>

\* More than is there counts as all. retrieveAsString() copies the bytes first.
retrieve(n) ==
  /\ fate = "fine"
  /\ IF n < readableBytes
     THEN /\ readerIndex' = readerIndex + n
          /\ taken' = taken + n
          /\ UNCHANGED writerIndex
     ELSE /\ readerIndex' = kCheapPrepend
          /\ writerIndex' = kCheapPrepend
          /\ taken' = given
  /\ UNCHANGED <<size, buffer, given, peak, fate>>

Next ==
  \/ \E n \in 0 .. MaxBytes : append(n) \/ readFd(n) \/ retrieve(n)
  \/ readFdFails

Spec == Init /\ [][Next]_vars

-----------------------------------------------------------------------------
(* Properties.                                                             *)

\* The indices stay in order, behind the bytes in front and inside the vector,
\* whatever is appended, read, moved and retrieved.
TypeOK ==
  /\ {size, readerIndex, writerIndex, given, taken, peak} \subseteq Nat
  /\ fate \in {"fine", "missed", "aborted"}
  /\ fate = "fine" =>
       /\ kCheapPrepend <= readerIndex
       /\ readerIndex <= writerIndex
       /\ writerIndex <= size
       /\ buffer \in [0 .. size - 1 -> Nat]

\* What waits is what was put in and has not been retrieved, in order: nothing
\* is lost, doubled or overwritten when the bytes move, when the vector grows,
\* or when a read ends in the buffer on the stack.
ContentsAreFifo ==
  fate = "fine" =>
    /\ readableBytes = given - taken
    /\ \A k \in 0 .. readableBytes - 1 : buffer[readerIndex + k] = taken + k + 1

\* The vector is never larger than twice what once waited, and the bytes in
\* front: the room that was retrieved is used again before the vector grows.
SizeBounded ==
  fate = "fine" =>
    \/ size = kCheapPrepend + kInitialSize
    \/ size <= kCheapPrepend + 2 * peak

\* A read that fails leaves the bytes that wait as they are.
FailedReadKeepsData ==
  fate = "missed" => (writerIndex - readerIndex) % SizeModulus = given - taken
=============================================================================
