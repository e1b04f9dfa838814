---------------------------- MODULE BufferProofs ----------------------------
(***************************************************************************)
(* The arithmetic of Buffer for every size: AppendAtWorks says what an     *)
(* append does to a vector whose indices are in order, wherever it finds   *)
(* the room; that the buffer is a queue of bytes and that its vector stays *)
(* within twice of what it had to hold follow by induction over the calls. *)
(***************************************************************************)
EXTENDS Buffer, TLAPS

\* d holds `count' bytes at reader .. w - 1, the first of which is number base+1.
Holds(d, reader, count, base) ==
  \A k \in 0 .. count - 1 : d[reader + k] = base + k + 1

LEMMA WrittenType ==
  ASSUME NEW total \in Nat, NEW d, NEW w \in Nat, NEW n \in Nat, NEW first \in Nat,
         \A p \in 0 .. total - 1 : (w <= p /\ p < w + n) \/ d[p] \in Nat
  PROVE  Written(d, w, n, first, total) \in [0 .. total - 1 -> Nat]
  BY DEF Written

\* Bytes written behind those that wait continue their numbers.
LEMMA WrittenHolds ==
  ASSUME NEW total \in Nat, NEW d, NEW reader \in Nat, NEW count \in Nat,
         NEW n \in Nat, NEW base \in Nat, NEW w, NEW first,
         w = reader + count, first = base + count + 1, w + n <= total,
         Holds(d, reader, count, base)
  PROVE  Holds(Written(d, w, n, first, total), reader, count + n, base)
<1> SUFFICES ASSUME NEW k \in 0 .. count + n - 1
             PROVE  Written(d, w, n, first, total)[reader + k] = base + k + 1
  BY DEF Holds
<1>1. reader + k \in 0 .. total - 1
  OBVIOUS
<1>2. CASE k < count
  BY <1>1, <1>2 DEF Written, Holds
<1>3. CASE k >= count
  BY <1>1, <1>3 DEF Written
<1> QED
  BY <1>2, <1>3

LEMMA MovedHolds ==
  ASSUME size \in Nat, readerIndex \in Nat, kCheapPrepend \in Nat,
         NEW d, NEW w \in Nat, NEW base \in Nat,
         kCheapPrepend <= readerIndex, readerIndex <= w, w <= size,
         d \in [0 .. size - 1 -> Nat],
         Holds(d, readerIndex, w - readerIndex, base)
  PROVE  /\ Moved(d, w) \in [0 .. size - 1 -> Nat]
         /\ Holds(Moved(d, w), kCheapPrepend, w - readerIndex, base)
<1>1. Moved(d, w) \in [0 .. size - 1 -> Nat]
  BY DEF Moved
<1>2. ASSUME NEW k \in 0 .. (w - readerIndex) - 1
      PROVE  Moved(d, w)[kCheapPrepend + k] = base + k + 1
  <2>1. kCheapPrepend + k \in 0 .. size - 1
    OBVIOUS
  <2>2. Moved(d, w)[kCheapPrepend + k] = d[readerIndex + k]
    BY <2>1 DEF Moved
  <2> QED
    BY <2>2 DEF Holds
<1> QED
  BY <1>1, <1>2 DEF Holds

-----------------------------------------------------------------------------
\* Wherever append() finds the room, the indices stay in order, the bytes that
\* wait keep their order in front of the new ones, and a vector that grows does
\* so to at most twice what it holds.
LEMMA AppendAtWorks ==
  ASSUME size \in Nat, readerIndex \in Nat, kCheapPrepend \in Nat,
         NEW d, NEW w \in Nat, NEW n \in Nat, NEW base \in Nat, NEW count \in Nat,
         kCheapPrepend <= readerIndex, w = readerIndex + count, w <= size,
         d \in [0 .. size - 1 -> Nat],
         Holds(d, readerIndex, count, base),
         appendAt(d, w, n, base + count + 1)
  PROVE  /\ {size', readerIndex', writerIndex'} \subseteq Nat
         /\ kCheapPrepend <= readerIndex'
         /\ writerIndex' = readerIndex' + count + n
         /\ writerIndex' <= size'
         /\ buffer' \in [0 .. size' - 1 -> Nat]
         /\ Holds(buffer', readerIndex', count + n, base)
         /\ size' = size \/ size' <= kCheapPrepend + 2 * (count + n)
<1> DEFINE first == base + count + 1
<1>0. first \in Nat /\ w - readerIndex = count /\ w \in Nat
  OBVIOUS
<1> HIDE DEF first
<1>1. CASE /\ n <= size - w
           /\ buffer' = Written(d, w, n, first, size)
           /\ writerIndex' = w + n
           /\ UNCHANGED <<size, readerIndex>>
  <2>1. \A p \in 0 .. size - 1 : (w <= p /\ p < w + n) \/ d[p] \in Nat
    OBVIOUS
  <2>2. buffer' \in [0 .. size - 1 -> Nat]
    BY <1>0, <1>1, <2>1, WrittenType
  <2>3. w + n <= size
    BY <1>1
  <2>4. Holds(buffer', readerIndex, count + n, base)
    BY <1>1, <2>3, WrittenHolds DEF first
  <2> QED
    BY <1>1, <2>2, <2>3, <2>4
<1>2. CASE /\ n > size - w /\ MustGrow(w, n)
           /\ size' = w + n
           /\ buffer' = Written(d, w, n, first, w + n)
           /\ writerIndex' = w + n
           /\ UNCHANGED readerIndex
  <2> DEFINE total == w + n
  <2>1. total \in Nat
    OBVIOUS
  <2>2. \A p \in 0 .. total - 1 : (w <= p /\ p < w + n) \/ d[p] \in Nat
    OBVIOUS
  <2>3. w + n <= total
    OBVIOUS
  <2>4. buffer' = Written(d, w, n, first, total) /\ size' = total
    BY <1>2
  <2> HIDE DEF total
  <2>5. buffer' \in [0 .. total - 1 -> Nat]
    BY <1>0, <2>1, <2>2, <2>4, WrittenType
  <2>6. Holds(buffer', readerIndex, count + n, base)
    BY <2>1, <2>3, <2>4, WrittenHolds DEF first
  <2>7. readerIndex < n + kCheapPrepend
    BY <1>2 DEF MustGrow
  <2>8. size' <= kCheapPrepend + 2 * (count + n)
    <3>1. w + n <= kCheapPrepend + (count + n) + (count + n)
      BY <2>7
    <3> QED
      BY <1>2, <3>1
  <2>9. writerIndex' = readerIndex + count + n /\ writerIndex' <= size'
    BY <1>2
  <2>10. size' \in Nat /\ writerIndex' \in Nat /\ readerIndex' = readerIndex
    BY <1>2, <2>9
  <2> QED
    BY <2>4, <2>5, <2>6, <2>8, <2>9, <2>10
<1>3. CASE /\ n > size - w /\ ~MustGrow(w, n)
           /\ buffer' = Written(Moved(d, w), kCheapPrepend + (w - readerIndex), n,
                                first, size)
           /\ writerIndex' = kCheapPrepend + (w - readerIndex) + n
           /\ readerIndex' = kCheapPrepend
           /\ UNCHANGED size
  <2> DEFINE end == kCheapPrepend + count
             moved == Moved(d, w)
  <2>1. end \in Nat /\ end + n <= size
    BY <1>3 DEF MustGrow
  <2>2. moved \in [0 .. size - 1 -> Nat] /\ Holds(moved, kCheapPrepend, count, base)
    BY <1>0, MovedHolds
  <2>3. buffer' = Written(moved, end, n, first, size)
    BY <1>0, <1>3
  <2> HIDE DEF moved
  <2>4. Holds(buffer', kCheapPrepend, count + n, base)
    BY <2>1, <2>2, <2>3, WrittenHolds DEF first
  <2> HIDE DEF end
  <2>5. \A p \in 0 .. size - 1 : (end <= p /\ p < end + n) \/ moved[p] \in Nat
    BY <2>2
  <2>6. buffer' \in [0 .. size - 1 -> Nat]
    BY <1>0, <2>1, <2>3, <2>5, WrittenType
  <2>7. writerIndex' = kCheapPrepend + count + n /\ writerIndex' <= size
    BY <1>0, <1>3, <2>1 DEF end
  <2> QED
    BY <1>3, <2>4, <2>6, <2>7
<1> QED
  BY <1>1, <1>2, <1>3 DEF appendAt, first

-----------------------------------------------------------------------------
\* Besides the three invariants: no more is retrieved than was put in, and peak
\* has seen what waits.
BufferInv ==
  /\ TypeOK
  /\ ContentsAreFifo
  /\ SizeBounded
  /\ fate = "fine" => given - taken <= peak

LEMMA InitBufferInv == Init => BufferInv
  BY SizesAssumption
  DEF Init, BufferInv, TypeOK, ContentsAreFifo, SizeBounded, readableBytes

LEMMA TwiceMore ==
  ASSUME NEW a \in Nat, NEW b \in Nat, NEW c \in Nat, NEW s \in Nat,
         a <= b, s <= c + 2 * a
  PROVE  s <= c + 2 * b
  OBVIOUS

\* What the two ways to put bytes in have in common.
LEMMA ArriveKeepsInv ==
  ASSUME BufferInv, NEW n \in Nat, Arrive(n),
         {size', readerIndex', writerIndex'} \subseteq Nat,
         kCheapPrepend <= readerIndex',
         writerIndex' = readerIndex' + (given - taken) + n,
         writerIndex' <= size',
         buffer' \in [0 .. size' - 1 -> Nat],
         Holds(buffer', readerIndex', (given - taken) + n, taken),
         size' = size \/ size' <= kCheapPrepend + 2 * ((given - taken) + n)
  PROVE  BufferInv'
<1>0. given \in Nat /\ taken \in Nat /\ peak \in Nat
  BY DEF BufferInv, TypeOK
<1>1. /\ fate = "fine"
      /\ given' = given + n /\ taken' = taken /\ fate' = fate
      /\ peak' = IF given + n - taken > peak THEN given + n - taken ELSE peak
  BY DEF Arrive
<1>2. peak' \in Nat /\ peak' >= peak /\ peak' >= (given - taken) + n
  BY <1>0, <1>1
<1>3. given - taken \in Nat
  BY <1>0, <1>1 DEF BufferInv, TypeOK, ContentsAreFifo, readableBytes
<1>4. readableBytes' = (given - taken) + n
  BY <1>0, <1>3 DEF readableBytes
<1>5. TypeOK'
  BY <1>0, <1>1, <1>2, <1>3 DEF TypeOK
<1>6. ContentsAreFifo'
  BY <1>0, <1>1, <1>4 DEF ContentsAreFifo, Holds
<1>7. SizeBounded'
  <2>1. size = kCheapPrepend + kInitialSize \/ size <= kCheapPrepend + 2 * peak
    BY <1>1 DEF BufferInv, SizeBounded
  <2>2. size \in Nat /\ size' \in Nat /\ kCheapPrepend \in Nat
    BY SizesAssumption DEF BufferInv, TypeOK
  <2>3. CASE size' = size
    <3>1. peak \in Nat /\ peak' \in Nat /\ peak <= peak'
      BY <1>0, <1>2
    <3>2. size = kCheapPrepend + kInitialSize \/ size <= kCheapPrepend + 2 * peak'
      BY <2>1, <2>2, <3>1, TwiceMore
    <3> QED
      BY <2>3, <3>2 DEF SizeBounded
  <2>4. CASE size' <= kCheapPrepend + 2 * ((given - taken) + n)
    <3> DEFINE waiting == (given - taken) + n
    <3>0. waiting \in Nat /\ waiting <= peak' /\ size' <= kCheapPrepend + 2 * waiting
      BY <1>2, <1>3, <2>4
    <3> HIDE DEF waiting
    <3>1. size' <= kCheapPrepend + 2 * peak'
      <4>1. peak' \in Nat
        BY <1>2
      <4> QED
        BY <2>2, <3>0, <4>1, TwiceMore
    <3> QED
      BY <3>1 DEF SizeBounded
  <2> QED
    BY <2>3, <2>4
<1>8. (given - taken <= peak)'
  BY <1>0, <1>1, <1>2
<1> QED
  BY <1>5, <1>6, <1>7, <1>8 DEF BufferInv

LEMMA NextBufferInv == BufferInv /\ [Next]_vars => BufferInv'
<1> SUFFICES ASSUME BufferInv, [Next]_vars
             PROVE  BufferInv'
  OBVIOUS
<1> DEFINE count == given - taken
<1>1. ASSUME fate = "fine"
      PROVE  /\ {size, readerIndex, writerIndex, given, taken, peak} \subseteq Nat
             /\ kCheapPrepend <= readerIndex
             /\ writerIndex = readerIndex + count /\ writerIndex <= size
             /\ count \in Nat
             /\ buffer \in [0 .. size - 1 -> Nat]
             /\ Holds(buffer, readerIndex, count, taken)
             /\ given + 1 = taken + count + 1
  BY <1>1 DEF BufferInv, TypeOK, ContentsAreFifo, Holds, readableBytes
<1>2. kCheapPrepend \in Nat /\ kInitialSize \in Nat
  BY SizesAssumption
<1>3. ASSUME NEW n \in Nat, append(n)
      PROVE  BufferInv'
  <2>1. Arrive(n) /\ appendAt(buffer, writerIndex, n, taken + count + 1) /\ fate = "fine"
    BY <1>1, <1>3 DEF append, Arrive
  <2> HIDE DEF count
  <2>2. /\ {size', readerIndex', writerIndex'} \subseteq Nat
        /\ kCheapPrepend <= readerIndex'
        /\ writerIndex' = readerIndex' + count + n
        /\ writerIndex' <= size'
        /\ buffer' \in [0 .. size' - 1 -> Nat]
        /\ Holds(buffer', readerIndex', count + n, taken)
        /\ size' = size \/ size' <= kCheapPrepend + 2 * (count + n)
    BY <1>1, <1>2, <2>1, AppendAtWorks
  <2> QED
    BY <2>1, <2>2, ArriveKeepsInv DEF count
<1>4. ASSUME NEW n \in Nat, readFd(n)
      PROVE  BufferInv'
  <2>1. Arrive(n) /\ fate = "fine"
    BY <1>4 DEF readFd, Arrive
  <2>2. /\ size \in Nat /\ readerIndex \in Nat /\ writerIndex \in Nat
        /\ given \in Nat /\ taken \in Nat /\ count \in Nat
        /\ writerIndex = readerIndex + count /\ writerIndex <= size
        /\ given + 1 = taken + count + 1 /\ given + 1 \in Nat
        /\ \A p \in 0 .. size - 1 : buffer[p] \in Nat
    BY <1>1, <2>1
  <2>3. CASE n < writableBytes
    <3>1. /\ buffer' = Written(buffer, writerIndex, n, given + 1, size)
          /\ writerIndex' = writerIndex + n
          /\ size' = size /\ readerIndex' = readerIndex
      BY <1>4, <2>3 DEF readFd
    <3>2. writerIndex + n <= size
      BY <2>2, <2>3 DEF writableBytes
    <3> HIDE DEF count
    <3>3. buffer' \in [0 .. size - 1 -> Nat]
      BY <2>2, <3>1, WrittenType
    <3>4. Holds(buffer', readerIndex, count + n, taken)
      BY <1>1, <2>1, <2>2, <3>1, <3>2, WrittenHolds
    <3>5. writerIndex' = readerIndex' + count + n /\ writerIndex' <= size'
      BY <2>2, <3>1, <3>2
    <3>6. {size', readerIndex', writerIndex'} \subseteq Nat
      BY <2>2, <3>1
    <3> QED
      BY <1>1, <2>1, <3>1, <3>3, <3>4, <3>5, <3>6, ArriveKeepsInv DEF count
  <2>4. CASE ~(n < writableBytes)
    <3> DEFINE room == size - writerIndex
               d == Written(buffer, writerIndex, room, given + 1, size)
    <3>1. room \in Nat /\ n - room \in Nat /\ size = readerIndex + (count + room)
      BY <2>2, <2>4 DEF writableBytes
    <3>2. appendAt(d, size, n - room, taken + (count + room) + 1)
      <4>1. appendAt(Written(buffer, writerIndex, writableBytes, given + 1, size),
                     size, n - writableBytes, given + 1 + writableBytes)
        BY <1>4, <2>4 DEF readFd
      <4>2. given + 1 + room = taken + (count + room) + 1
        BY <2>2, <3>1
      <4> QED
        BY <4>1, <4>2 DEF writableBytes
    <3>3. writerIndex + room <= size
      BY <2>2
    <3> HIDE DEF count, room
    <3>4. d \in [0 .. size - 1 -> Nat]
      BY <2>2, <3>1, WrittenType
    <3>5. Holds(d, readerIndex, count + room, taken)
      BY <1>1, <2>1, <2>2, <3>1, <3>3, WrittenHolds
    <3> HIDE DEF d
    <3>6. /\ {size', readerIndex', writerIndex'} \subseteq Nat
          /\ kCheapPrepend <= readerIndex'
          /\ writerIndex' = readerIndex' + (count + room) + (n - room)
          /\ writerIndex' <= size'
          /\ buffer' \in [0 .. size' - 1 -> Nat]
          /\ Holds(buffer', readerIndex', (count + room) + (n - room), taken)
          /\ \/ size' = size
             \/ size' <= kCheapPrepend + 2 * ((count + room) + (n - room))
      <4> DEFINE m == n - room
                 c == count + room
      <4>1. m \in Nat /\ c \in Nat
        BY <1>1, <2>1, <3>1
      <4>2. size \in Nat /\ readerIndex \in Nat /\ taken \in Nat /\ size <= size
        BY <1>1, <2>1
      <4>3. size = readerIndex + c /\ Holds(d, readerIndex, c, taken)
            /\ appendAt(d, size, m, taken + c + 1)
        BY <3>1, <3>2, <3>5
      <4> HIDE DEF m, c
      <4>4. /\ {size', readerIndex', writerIndex'} \subseteq Nat
            /\ kCheapPrepend <= readerIndex'
            /\ writerIndex' = readerIndex' + c + m
            /\ writerIndex' <= size'
            /\ buffer' \in [0 .. size' - 1 -> Nat]
            /\ Holds(buffer', readerIndex', c + m, taken)
            /\ size' = size \/ size' <= kCheapPrepend + 2 * (c + m)
        BY <1>1, <1>2, <2>1, <3>4, <4>1, <4>2, <4>3, AppendAtWorks
      <4> QED
        BY <4>4 DEF m, c
    <3>7. (count + room) + (n - room) = count + n
      BY <1>1, <2>1, <3>1
    <3>8. writerIndex' = readerIndex' + count + n
      BY <2>2, <3>1, <3>6, <3>7
    <3> QED
      BY <2>1, <3>6, <3>7, <3>8, ArriveKeepsInv DEF count
  <2> QED
    BY <2>3, <2>4
<1>5. ASSUME NEW n \in Nat, retrieve(n)
      PROVE  BufferInv'
  <2>1. /\ fate = "fine" /\ fate' = fate /\ size' = size /\ buffer' = buffer
        /\ given' = given /\ peak' = peak
    BY <1>5 DEF retrieve
  <2>2. /\ size \in Nat /\ readerIndex \in Nat /\ writerIndex \in Nat
        /\ given \in Nat /\ taken \in Nat /\ peak \in Nat /\ count \in Nat
        /\ kCheapPrepend <= readerIndex
        /\ writerIndex = readerIndex + count /\ writerIndex <= size
        /\ buffer \in [0 .. size - 1 -> Nat]
        /\ Holds(buffer, readerIndex, count, taken)
        /\ given = taken + count
    BY <1>1, <2>1
  <2>3. CASE n < readableBytes
    <3>1. /\ readerIndex' = readerIndex + n /\ taken' = taken + n
          /\ writerIndex' = writerIndex
      BY <1>5, <2>3 DEF retrieve
    <3>2. n < count
      BY <2>2, <2>3 DEF readableBytes
    <3>3. TypeOK'
      <4>1. /\ readerIndex' \in Nat /\ taken' \in Nat
            /\ kCheapPrepend <= readerIndex' /\ readerIndex' <= writerIndex'
        BY <1>2, <2>2, <3>1, <3>2
      <4> QED
        BY <2>1, <2>2, <3>1, <4>1 DEF TypeOK
    <3>4. readableBytes' = given' - taken' /\ readableBytes' = count - n
      BY <2>1, <2>2, <3>1 DEF readableBytes
    <3>5. ASSUME NEW k \in 0 .. (count - n) - 1
          PROVE  buffer[readerIndex + n + k] = taken + n + k + 1
      <4> HIDE DEF count
      <4>1. n + k \in 0 .. count - 1
        BY <2>2, <3>2
      <4>2. buffer[readerIndex + (n + k)] = taken + (n + k) + 1
        BY <2>2, <4>1 DEF Holds
      <4>3. /\ readerIndex + (n + k) = readerIndex + n + k
            /\ taken + (n + k) + 1 = taken + n + k + 1
        BY <2>2, <3>2
      <4> QED
        BY <4>2, <4>3
    <3>6. ContentsAreFifo'
      BY <2>1, <3>1, <3>4, <3>5 DEF ContentsAreFifo
    <3>7. SizeBounded' /\ (given - taken <= peak)'
      <4>1. SizeBounded /\ given - taken <= peak
        BY <2>1 DEF BufferInv
      <4>2. given' - taken' <= peak'
        BY <2>1, <2>2, <3>1, <4>1
      <4> QED
        BY <2>1, <4>1, <4>2 DEF SizeBounded
    <3> QED
      BY <3>3, <3>6, <3>7 DEF BufferInv
  <2>4. CASE ~(n < readableBytes)
    <3>1. /\ readerIndex' = kCheapPrepend /\ writerIndex' = kCheapPrepend
          /\ taken' = given
      BY <1>5, <2>4 DEF retrieve
    <3>2. TypeOK'
      BY <1>1, <1>2, <2>1, <3>1 DEF TypeOK
    <3>3. ContentsAreFifo'
      BY <1>1, <1>2, <2>1, <3>1 DEF ContentsAreFifo, readableBytes
    <3>4. SizeBounded' /\ (given - taken <= peak)'
      BY <1>1, <2>1, <3>1 DEF BufferInv, SizeBounded
    <3> QED
      BY <3>2, <3>3, <3>4 DEF BufferInv
  <2> QED
    BY <2>3, <2>4
<1>6. CASE readFdFails
  <2>1. /\ fate = "fine" /\ fate' \in {"missed", "aborted"}
        /\ given' = given /\ taken' = taken /\ peak' = peak
    BY <1>6 DEF readFdFails
  <2>2. {size', readerIndex', writerIndex'} \subseteq Nat
    <3> DEFINE len == SizeModulus - 1 - writableBytes
    <3>1. len \in Int /\ size \in Nat /\ readerIndex \in Nat /\ writerIndex \in Nat
      BY <1>1, <2>1, ModulusAssumption DEF writableBytes
    <3>2. /\ (size + len) % SizeModulus \in Nat
          /\ (kCheapPrepend + (size - readerIndex) + len) % SizeModulus \in Nat
      <4> HIDE DEF len
      <4> QED
        BY <1>2, <3>1, ModulusAssumption
    <3> QED
      BY <1>2, <1>6, <3>1, <3>2 DEF readFdFails
  <2> QED
    BY <2>1, <2>2 DEF BufferInv, TypeOK, ContentsAreFifo, SizeBounded
<1>7. CASE UNCHANGED vars
  BY <1>7 DEF vars, BufferInv, TypeOK, ContentsAreFifo, SizeBounded, readableBytes
<1>8. 0 .. MaxBytes \subseteq Nat
  BY SizesAssumption
<1> QED
  BY <1>3, <1>4, <1>5, <1>6, <1>7, <1>8 DEF Next

LEMMA BufferInvariant == Spec => []BufferInv
  BY InitBufferInv, NextBufferInv, PTL DEF Spec

\* The indices stay in order and inside the vector, for every size of the bytes
\* in front, of the vector and of the buffer on the stack.
THEOREM BufferTypeCorrect == Spec => []TypeOK
<1>1. BufferInv => TypeOK
  BY DEF BufferInv
<1> QED
  BY <1>1, BufferInvariant, PTL

\* The buffer is a first-in-first-out queue of bytes, whatever the sizes.
THEOREM BufferIsFifo == Spec => []ContentsAreFifo
<1>1. BufferInv => ContentsAreFifo
  BY DEF BufferInv
<1> QED
  BY <1>1, BufferInvariant, PTL

\* The vector never exceeds twice what it once had to hold.
THEOREM BufferSizeBounded == Spec => []SizeBounded
<1>1. BufferInv => SizeBounded
  BY DEF BufferInv
<1> QED
  BY <1>1, BufferInvariant, PTL
=============================================================================
