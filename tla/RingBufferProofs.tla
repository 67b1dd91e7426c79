-------------------------- MODULE RingBufferProofs ---------------------------
(***************************************************************************)
(* The ring buffer's indices stay inside the pool and in mirror order, for *)
(* every pool size, alignment, byte alphabet and transfer length; and what *)
(* it stores is the first-in first-out queue of ByteQueue.                 *)
(***************************************************************************)
EXTENDS RingBuffer, SequenceTheorems, TLAPS

\* The inductive invariant: where the indices are, and which one is ahead.
\* TypeOK alone is not inductive: put trusts data_len for the room it has,
\* and data_len is only the distance from reader to writer in mirror order.
IndexInv == TypeOK /\ MirrorOrder

\* A block handed to put or put_force is a sequence of bytes.
LEMMA BlockIsSeq ==
    ASSUME NEW s \in Block
    PROVE  s \in Seq(Byte) /\ Len(s) \in Nat
  <1>1. PICK n \in 0..MaxLength : s \in [1..n -> Byte]
    BY DEF Block
  <1>2. n \in Nat
    BY MaxLengthAssumption
  <1>3. s \in Seq(Byte)
    BY <1>1, <1>2, SeqDef
  <1> QED
    BY <1>3, LenProperties

\* What data_len answers is the distance from reader to writer, and never
\* more than the pool holds.
LEMMA DataLenIsDistance ==
    ASSUME IndexInv, Live
    PROVE  /\ DataLen \in 0..buffer_size
           /\ SpaceLen \in 0..buffer_size
           /\ SpaceLen = buffer_size - DataLen
           /\ DataLen = IF read_mirror = write_mirror
                        THEN write_index - read_index
                        ELSE buffer_size + write_index - read_index
  BY DEF IndexInv, TypeOK, MirrorOrder, Live, DataLen, SpaceLen, Status

\* An index moved by at most the pool's size is again an index of the pool.
LEMMA MovedInPool ==
    ASSUME NEW i \in Nat, NEW n \in Nat, buffer_size \in Nat,
           i < buffer_size, n <= buffer_size
    PROVE  Moved(i, n) \in Nat /\ Moved(i, n) < buffer_size
  BY DEF Moved, ReachesEnd

\* Copying a block into the pool leaves a pool of bytes.
LEMMA CopiedIsPool ==
    ASSUME TypeOK, Live, NEW s \in Seq(Byte), Len(s) <= buffer_size
    PROVE  Copied(s) \in [0..(buffer_size - 1) -> Byte]
  <1>1. ASSUME NEW i \in 0..(buffer_size - 1)
        PROVE  Copied(s)[i] \in Byte
    BY <1>1, ElementOfSeq, LenProperties DEF Copied, TypeOK, Live
  <1> QED
    BY <1>1 DEF Copied

\* The bytes after read_index are bytes of the pool.
LEMMA StoredIsByte ==
    ASSUME TypeOK, Live, NEW k \in 1..buffer_size
    PROVE  Stored(k) \in Byte
  BY DEF Stored, TypeOK, Live

LEMMA AlignDownNat ==
    ASSUME NEW n \in Requests
    PROVE  AlignDown(n) \in Int
  <1>1. n \in Int
    BY RequestsAssumption
  <1>2. n % Align \in Int
    BY <1>1, AlignAssumption
  <1> QED
    BY <1>1, <1>2 DEF AlignDown

-----------------------------------------------------------------------------
\* Every operation preserves the invariant.
LEMMA StepKeepsIndexInv == IndexInv /\ [Next]_vars => IndexInv'
<1> SUFFICES ASSUME IndexInv, [Next]_vars
             PROVE  IndexInv'
    OBVIOUS
<1>t. TypeOK /\ MirrorOrder
  BY DEF IndexInv
<1>e. <<>> \in Seq(Byte)
  BY EmptySeq
<1>1. ASSUME NEW request \in Requests, Create(request)
      PROVE  IndexInv'
  <2>1. CASE UNCHANGED <<buffer_size, buffer_ptr>>
    BY <1>1, <1>t, <1>e, <2>1
    DEF Create, ZeroIndices, Returns, IndexInv, TypeOK, MirrorOrder, Live
  <2>2. CASE /\ AlignDown(request) > 0
             /\ buffer_size' = AlignDown(request)
             /\ buffer_ptr' \in [0..(AlignDown(request) - 1) -> Byte]
    BY <1>1, <1>t, <1>e, <2>2, AlignDownNat
    DEF Create, ZeroIndices, Returns, IndexInv, TypeOK, MirrorOrder, Live
  <2> QED
    BY <1>1, <2>1, <2>2 DEF Create
<1>2. ASSUME Destroy
      PROVE  IndexInv'
  BY <1>2, <1>t, <1>e
  DEF Destroy, ZeroIndices, Returns, IndexInv, TypeOK, MirrorOrder, Live
<1>3. ASSUME Reset
      PROVE  IndexInv'
  BY <1>3, <1>t, <1>e
  DEF Reset, ZeroIndices, Returns, IndexInv, TypeOK, MirrorOrder, Live
<1>4. ASSUME NEW s \in Block, Put(s)
      PROVE  IndexInv'
  <2> DEFINE n == Smaller(SpaceLen, Len(s))
  <2>1. /\ n \in Nat /\ n <= SpaceLen /\ n <= Len(s) /\ n <= buffer_size
        /\ SpaceLen \in Nat /\ Live
    BY <1>4, DataLenIsDistance, BlockIsSeq DEF Put, Smaller, IndexInv, TypeOK
  <2>2. SubSeq(s, 1, n) \in Seq(Byte) /\ Len(SubSeq(s, 1, n)) = n
    <3>1. \A i \in 1..n : s[i] \in Byte
      BY <2>1, BlockIsSeq, ElementOfSeq, SMT
    <3> QED
      BY <3>1, <2>1, SubSeqProperties, SMT
  <2>3. buffer_ptr' \in [0..(buffer_size - 1) -> Byte]
    BY <1>4, <1>t, <2>1, <2>2, CopiedIsPool DEF Put
  <2>4. write_index' \in Nat /\ write_index' < buffer_size
    BY <1>4, <1>t, <2>1, MovedInPool DEF Put, TypeOK, Live
  <2>5. TypeOK'
    BY <1>4, <1>t, <2>1, <2>3, <2>4, BlockIsSeq
    DEF Put, TypeOK, Returns, FlipIf, Flip, Live
  <2>6. MirrorOrder'
    <3>1. /\ read_mirror' = read_mirror /\ read_index' = read_index
          /\ write_mirror' = FlipIf(ReachesEnd(write_index, n), write_mirror)
          /\ write_index' = Moved(write_index, n)
      BY <1>4 DEF Put
    <3> HIDE DEF n
    <3> QED
      BY <1>t, <2>1, <3>1, DataLenIsDistance
      DEF TypeOK, MirrorOrder, IndexInv, FlipIf, Flip, Moved, ReachesEnd, Live
  <2> QED
    BY <2>5, <2>6 DEF IndexInv
<1>5. ASSUME NEW s \in Block, PutForce(s)
      PROVE  IndexInv'
  <2> DEFINE n == Smaller(buffer_size, Len(s))
             d == SubSeq(s, Len(s) - n + 1, Len(s))
  <2>1. /\ n \in Nat /\ n <= Len(s) /\ n <= buffer_size /\ Len(s) \in Nat
        /\ SpaceLen \in Nat /\ Live
    BY <1>5, DataLenIsDistance, BlockIsSeq
    DEF PutForce, Smaller, IndexInv, TypeOK
  <2>2. d \in Seq(Byte) /\ Len(d) = n
    <3>1. \A i \in (Len(s) - n + 1)..Len(s) : s[i] \in Byte
      BY <2>1, BlockIsSeq, ElementOfSeq, SMT
    <3> QED
      BY <3>1, <2>1, SubSeqProperties, SMT
  <2>3. buffer_ptr' \in [0..(buffer_size - 1) -> Byte]
    BY <1>5, <1>t, <2>1, <2>2, CopiedIsPool DEF PutForce
  <2>4. Moved(write_index, n) \in Nat /\ Moved(write_index, n) < buffer_size
    BY <1>t, <2>1, MovedInPool DEF TypeOK, Live
  <2>5. TypeOK'
    <3>1. data' \in Seq(Byte) /\ ret' = n
      BY <1>5, BlockIsSeq DEF PutForce, Returns
    <3>2. read_mirror' \in {0, 1} /\ write_mirror' \in {0, 1}
      BY <1>5, <1>t DEF PutForce, TypeOK, FlipIf, Flip
    <3>3. /\ read_index' \in Nat /\ read_index' < buffer_size
          /\ write_index' \in Nat /\ write_index' < buffer_size
      BY <1>5, <1>t, <2>1, <2>4 DEF PutForce, TypeOK, Live
    <3>4. UNCHANGED buffer_size
      BY <1>5 DEF PutForce
    <3> HIDE DEF n
    <3> QED
      BY <1>t, <2>1, <2>3, <3>1, <3>2, <3>3, <3>4 DEF TypeOK, Live
  <2>6. MirrorOrder'
    <3>1. CASE n > SpaceLen
      BY <1>5, <2>4, <3>1 DEF PutForce, MirrorOrder
    <3>2. CASE ~(n > SpaceLen)
      <4>1. read_mirror' = read_mirror /\ read_index' = read_index
        BY <1>5, <3>2 DEF PutForce, FlipIf
      <4>2. write_mirror' = FlipIf(ReachesEnd(write_index, n), write_mirror)
        BY <1>5 DEF PutForce
      <4>3. write_index' = Moved(write_index, n)
        BY <1>5 DEF PutForce
      <4> HIDE DEF n
      <4> QED
        BY <1>t, <2>1, <3>2, <4>1, <4>2, <4>3, DataLenIsDistance
        DEF TypeOK, MirrorOrder, IndexInv, FlipIf, Flip, Moved, ReachesEnd, Live
    <3> QED
      BY <3>1, <3>2
  <2> QED
    BY <2>5, <2>6 DEF IndexInv
<1>6. ASSUME NEW length \in 0..MaxLength, Get(length)
      PROVE  IndexInv'
  <2> DEFINE n == Smaller(DataLen, length)
  <2>1. /\ n \in Nat /\ n <= DataLen /\ n <= buffer_size
        /\ DataLen \in Nat /\ Live
    BY <1>6, DataLenIsDistance, MaxLengthAssumption
    DEF Get, Smaller, IndexInv, TypeOK
  <2>2. data' \in Seq(Byte)
    <3>1. \A k \in 1..n : Stored(k) \in Byte
      BY <1>t, <2>1, StoredIsByte DEF TypeOK
    <3>2. [k \in 1..n |-> Stored(k)] \in [1..n -> Byte]
      BY <3>1
    <3> QED
      BY <1>6, <2>1, <3>2, SeqDef DEF Get, Returns
  <2>3. read_index' \in Nat /\ read_index' < buffer_size
    BY <1>6, <1>t, <2>1, MovedInPool DEF Get, TypeOK, Live
  <2>4. TypeOK'
    BY <1>6, <1>t, <2>1, <2>2, <2>3
    DEF Get, Returns, TypeOK, FlipIf, Flip, Live
  <2>5. MirrorOrder'
    BY <1>6, <1>t, <2>1, DataLenIsDistance
    DEF Get, TypeOK, MirrorOrder, IndexInv, FlipIf, Flip, Moved, ReachesEnd, Live
  <2> QED
    BY <2>4, <2>5 DEF IndexInv
<1>7. ASSUME NEW c \in Byte, Putchar(c)
      PROVE  IndexInv'
  <2>c. <<c>> \in Seq(Byte)
    OBVIOUS
  <2>r. data' \in Seq(Byte) /\ ret' \in {0, 1}
    BY <1>7, <2>c, Zenon DEF Putchar, Returns
  <2>1. CASE SpaceLen = 0
    <3>1. UNCHANGED <<buffer_size, buffer_ptr, indices>>
      BY <1>7, <2>1 DEF Putchar, indices
    <3> QED
      BY <1>t, <2>r, <3>1 DEF indices, IndexInv, TypeOK, MirrorOrder, Live
  <2>2. CASE SpaceLen # 0
    <3>1. TypeOK'
      <4>1. /\ buffer_size' = buffer_size /\ buffer_ptr' = WithChar(c)
            /\ write_mirror' = FlipIf(AtEnd(write_index), write_mirror)
            /\ write_index' = Following(write_index)
            /\ read_mirror' = read_mirror /\ read_index' = read_index /\ Live
        BY <1>7, <2>2 DEF Putchar
      <4> QED
        BY <1>t, <2>r, <4>1
        DEF WithChar, TypeOK, FlipIf, Flip, AtEnd, Following, Live
    <3>2. MirrorOrder'
      BY <1>7, <1>t, <2>2, DataLenIsDistance
      DEF Putchar, IndexInv, TypeOK, MirrorOrder, FlipIf, Flip, AtEnd,
          Following, Live
    <3> QED
      BY <3>1, <3>2 DEF IndexInv
  <2> QED
    BY <2>1, <2>2
<1>8. ASSUME NEW c \in Byte, PutcharForce(c)
      PROVE  IndexInv'
  BY <1>8, <1>t, <1>e
  DEF PutcharForce, ReadAfterForce, WithChar, Returns, Status, IndexInv,
      TypeOK, MirrorOrder, FlipIf, Flip, AtEnd, Following, Live
<1>9. ASSUME Getchar
      PROVE  IndexInv'
  <2>1. data' \in Seq(Byte) /\ ret' \in {0, 1}
    <3>1. buffer_ptr[read_index] \in Byte
      BY <1>9, <1>t DEF Getchar, TypeOK, Live
    <3>2. <<buffer_ptr[read_index]>> \in Seq(Byte)
      BY <3>1
    <3> QED
      BY <1>9, <1>e, <3>2, Zenon DEF Getchar, Returns
  <2>2. /\ read_mirror' \in {0, 1} /\ read_index' \in Nat
        /\ read_index' < buffer_size
        /\ MirrorOrder'
    BY <1>9, <1>t, DataLenIsDistance
    DEF Getchar, IndexInv, TypeOK, MirrorOrder, FlipIf, Flip, AtEnd,
        Following, Live
  <2> QED
    BY <1>9, <1>t, <2>1, <2>2 DEF Getchar, IndexInv, TypeOK, Live
<1>10. ASSUME UNCHANGED vars
       PROVE  IndexInv'
  BY <1>10, <1>t DEF vars, indices, IndexInv, TypeOK, MirrorOrder, Live
<1> QED
  BY <1>1, <1>2, <1>3, <1>4, <1>5, <1>6, <1>7, <1>8, <1>9, <1>10 DEF Next

\* The invariant holds of every reachable state.
THEOREM IndexInvariant == Spec => []IndexInv
<1>1. Init => IndexInv
  BY EmptySeq DEF Init, IndexInv, TypeOK, MirrorOrder, Live
<1> QED
  BY <1>1, StepKeepsIndexInv, PTL DEF Spec

\* No sequence of calls moves an index of rt_ringbuffer out of its pool or
\* stores anything but bytes in it.
THEOREM IndicesInPool == Spec => []TypeOK
<1>1. IndexInv => TypeOK
  BY DEF IndexInv
<1> QED
  BY <1>1, IndexInvariant, PTL

\* The mirror bits always tell which index is ahead.
THEOREM MirrorsTellOrder == Spec => []MirrorOrder
<1>1. IndexInv => MirrorOrder
  BY DEF IndexInv
<1> QED
  BY <1>1, IndexInvariant, PTL
-----------------------------------------------------------------------------
(* The stored bytes are a FIFO queue *)

\* The slot d places after slot i, around the end of the pool.
Slot(i, d) == IF i + d < buffer_size THEN i + d ELSE i + d - buffer_size

LengthIsDistance ==
    Live =>
        /\ DataLen \in 0..buffer_size
        /\ SpaceLen = buffer_size - DataLen
        /\ DataLen = IF read_mirror = write_mirror
                     THEN write_index - read_index
                     ELSE buffer_size + write_index - read_index

LEMMA InvLength == IndexInv => LengthIsDistance
  BY DataLenIsDistance DEF LengthIsDistance

\* The contents are as many bytes as data_len says, read from the pool.
ContentsAreStored ==
    Live =>
        /\ Contents \in Seq(Byte)
        /\ Len(Contents) = DataLen
        /\ \A k \in 1..DataLen :
              Contents[k] = buffer_ptr[Slot(read_index, k - 1)]

LEMMA InvContents == IndexInv => ContentsAreStored
<1> SUFFICES ASSUME IndexInv, Live
             PROVE  /\ Contents \in Seq(Byte)
                    /\ Len(Contents) = DataLen
                    /\ \A k \in 1..DataLen :
                          Contents[k] = buffer_ptr[Slot(read_index, k - 1)]
    BY DEF ContentsAreStored
<1>1. DataLen \in Nat /\ DataLen \in 0..buffer_size /\ buffer_size \in Nat
  BY DataLenIsDistance DEF IndexInv, TypeOK
<1>2. \A k \in 1..DataLen : Stored(k) \in Byte
  <2>1. \A k \in 1..DataLen : k \in 1..buffer_size
    BY <1>1
  <2> QED
    BY <2>1, StoredIsByte DEF IndexInv
<1>3. Contents \in [1..DataLen -> Byte]
  BY <1>2 DEF Contents
<1>4. Contents \in Seq(Byte) /\ Len(Contents) = DataLen
  BY <1>1, <1>3
<1>5. ASSUME NEW k \in 1..DataLen
      PROVE  Contents[k] = buffer_ptr[Slot(read_index, k - 1)]
  <2>1. read_index \in Nat /\ k \in Nat
    BY <1>1 DEF IndexInv, TypeOK
  <2>2. Contents[k] = Stored(k)
    BY DEF Contents
  <2>4. Stored(k) = buffer_ptr[IF read_index + k - 1 < buffer_size
                                 THEN read_index + k - 1
                                 ELSE (read_index + k - 1) - buffer_size]
    BY Zenon DEF Stored
  <2>3. (IF read_index + k - 1 < buffer_size
         THEN read_index + k - 1 ELSE (read_index + k - 1) - buffer_size)
        = Slot(read_index, k - 1)
    BY <1>1, <2>1 DEF Slot
  <2> QED
    BY <2>2, <2>3, <2>4, Zenon
<1> QED
  BY <1>4, <1>5

\* A block copied to write_index lies there in order, and the rest of the
\* pool is untouched.
LEMMA CopiedAt ==
    ASSUME IndexInv, Live, NEW s \in Seq(Byte), Len(s) <= buffer_size,
           NEW d \in 0..(buffer_size - 1)
    PROVE  /\ Slot(write_index, d) \in 0..(buffer_size - 1)
           /\ Copied(s)[Slot(write_index, d)] =
                  IF d < Len(s) THEN s[d + 1] ELSE buffer_ptr[Slot(write_index, d)]
<1>1. /\ write_index \in Nat /\ write_index < buffer_size /\ buffer_size \in Nat
      /\ Len(s) \in Nat
  BY LenProperties DEF IndexInv, TypeOK, Live
<1>2. Slot(write_index, d) \in 0..(buffer_size - 1)
  BY <1>1 DEF Slot
<1> DEFINE i == Slot(write_index, d)
           e == i - write_index
<1>3. Copied(s)[i] = IF 0 <= e /\ e < Len(s) THEN s[e + 1]
                     ELSE IF e < 0 /\ e + buffer_size < Len(s)
                          THEN s[e + buffer_size + 1]
                          ELSE buffer_ptr[i]
  BY <1>2 DEF Copied
<1>4. CASE write_index + d < buffer_size
  <2>1. e = d /\ 0 <= e
    BY <1>1, <1>4 DEF Slot
  <2> HIDE DEF e
  <2> QED
    BY <1>1, <1>2, <1>3, <2>1
<1>5. CASE ~(write_index + d < buffer_size)
  <2>1. e \in Int /\ e + buffer_size = d /\ e < 0
    BY <1>1, <1>5 DEF Slot
  <2> HIDE DEF e
  <2> QED
    BY <1>1, <1>2, <1>3, <2>1
<1> QED
  BY <1>4, <1>5

\* The reader's slots in terms of the writer's: first what is stored, then
\* what the writer fills next.
LEMMA ReaderSlots ==
    ASSUME IndexInv, Live, NEW k \in 1..buffer_size
    PROVE  Slot(read_index, k - 1) =
               IF k <= DataLen THEN Slot(write_index, buffer_size - DataLen + k - 1)
                               ELSE Slot(write_index, k - 1 - DataLen)
<1>1. /\ write_index \in Nat /\ write_index < buffer_size
      /\ read_index \in Nat /\ read_index < buffer_size /\ buffer_size \in Nat
      /\ read_mirror \in {0, 1} /\ write_mirror \in {0, 1}
  BY DEF IndexInv, TypeOK, Live
<1>2. /\ DataLen \in 0..buffer_size
      /\ \/ DataLen = write_index - read_index
         \/ DataLen = buffer_size + write_index - read_index
  BY DataLenIsDistance
<1> QED
  BY <1>1, <1>2 DEF Slot

LEMMA InvNext ==
    ASSUME IndexInv'
    PROVE  LengthIsDistance' /\ ContentsAreStored'
<1>1. (IndexInv => LengthIsDistance)' /\ (IndexInv => ContentsAreStored)'
  BY InvLength, InvContents, PTL
<1> QED
  BY <1>1

\* Copying a block that fits, and moving the write position over it, appends
\* the block.
LEMMA StoreAppends ==
    ASSUME IndexInv, Live, IndexInv', NEW q \in Seq(Byte), Len(q) <= SpaceLen,
           UNCHANGED <<buffer_size, read_mirror, read_index>>,
           buffer_ptr' = Copied(q),
           write_mirror' = FlipIf(ReachesEnd(write_index, Len(q)), write_mirror),
           write_index' = Moved(write_index, Len(q))
    PROVE  Contents' = Contents \o q
<1> DEFINE L == DataLen
           n == Len(q)
<1>1. /\ buffer_size \in Nat /\ read_index \in Nat /\ write_index \in Nat
      /\ write_index < buffer_size /\ read_index < buffer_size
      /\ read_mirror \in {0, 1} /\ write_mirror \in {0, 1}
  BY DEF IndexInv, TypeOK, Live
<1>2. /\ L \in 0..buffer_size /\ SpaceLen = buffer_size - L
      /\ L = IF read_mirror = write_mirror THEN write_index - read_index
             ELSE buffer_size + write_index - read_index
      /\ n \in Nat
  BY DataLenIsDistance, LenProperties
<1>3. Live' /\ LengthIsDistance' /\ ContentsAreStored'
  BY InvNext DEF Live
<1>4. /\ Contents \in Seq(Byte) /\ Len(Contents) = L
      /\ \A k \in 1..L : Contents[k] = buffer_ptr[Slot(read_index, k - 1)]
  BY InvContents DEF ContentsAreStored
<1>5. /\ Contents' \in Seq(Byte) /\ Len(Contents') = DataLen'
      /\ \A k \in 1..DataLen' : Contents'[k] = buffer_ptr'[Slot(read_index, k - 1)]
  BY <1>3 DEF ContentsAreStored, Slot
<1>6. DataLen' = L + n
  <2>1. DataLen' = IF read_mirror' = write_mirror' THEN write_index' - read_index'
                   ELSE buffer_size' + write_index' - read_index'
    BY <1>3 DEF LengthIsDistance
  <2>2. DataLen' \in 0..buffer_size
    BY <1>3 DEF LengthIsDistance
  <2> HIDE DEF L, n
  <2> QED
    BY <1>1, <1>2, <2>1, <2>2 DEF Moved, ReachesEnd, FlipIf, Flip, n
<1>7. /\ Contents \o q \in Seq(Byte) /\ Len(Contents \o q) = L + n
      /\ \A k \in 1..(L + n) : (Contents \o q)[k] = IF k <= L THEN Contents[k] ELSE q[k - L]
  BY <1>4, ConcatProperties
<1>c. \A d \in 0..(buffer_size - 1) :
         Copied(q)[Slot(write_index, d)] =
             IF d < n THEN q[d + 1] ELSE buffer_ptr[Slot(write_index, d)]
  <2>1. Len(q) <= buffer_size
    BY <1>1, <1>2
  <2> QED
    BY <2>1, CopiedAt
<1>8. ASSUME NEW k \in 1..(L + n)
      PROVE  Contents'[k] = (Contents \o q)[k]
  <2>1. k \in 1..buffer_size
    BY <1>1, <1>2
  <2>2. Contents'[k] = Copied(q)[Slot(read_index, k - 1)]
    BY <1>5, <1>6
  <2>3. CASE k <= L
    <3> DEFINE d == buffer_size - L + k - 1
    <3>1. d \in 0..(buffer_size - 1) /\ ~(d < n) /\ k \in 1..L
      BY <1>1, <1>2, <2>3
    <3>2. Slot(read_index, k - 1) = Slot(write_index, d)
      BY <2>1, <2>3, ReaderSlots
    <3> HIDE DEF d
    <3>3. Copied(q)[Slot(write_index, d)] = buffer_ptr[Slot(write_index, d)]
      BY <1>c, <3>1
    <3>4. (Contents \o q)[k] = Contents[k]
      BY <1>7, <2>3
    <3>5. Contents[k] = buffer_ptr[Slot(read_index, k - 1)]
      BY <1>4, <3>1
    <3> QED
      BY <2>2, <3>2, <3>3, <3>4, <3>5
  <2>4. CASE ~(k <= L)
    <3> DEFINE d == k - 1 - L
    <3>1. d \in 0..(buffer_size - 1) /\ d < n /\ d + 1 = k - L
      BY <1>1, <1>2, <2>4
    <3>2. Slot(read_index, k - 1) = Slot(write_index, d)
      BY <2>1, <2>4, ReaderSlots
    <3> HIDE DEF d
    <3>3. Copied(q)[Slot(write_index, d)] = q[d + 1]
      BY <1>c, <3>1
    <3>4. (Contents \o q)[k] = q[k - L]
      BY <1>7, <2>4
    <3> QED
      BY <2>2, <3>1, <3>2, <3>3, <3>4
  <2> QED
    BY <2>3, <2>4
<1> QED
  BY <1>5, <1>6, <1>7, <1>8, SeqEqual

\* Moving the read position over stored bytes takes the oldest.
LEMMA TakeRemoves ==
    ASSUME IndexInv, Live, IndexInv', NEW n \in Nat, n <= DataLen,
           UNCHANGED <<buffer_size, buffer_ptr, write_mirror, write_index>>,
           read_mirror' = FlipIf(ReachesEnd(read_index, n), read_mirror),
           read_index' = Moved(read_index, n)
    PROVE  Contents' = SubSeq(Contents, n + 1, Len(Contents))
<1> DEFINE L == DataLen
           q == SubSeq(Contents, n + 1, L)
<1>1. /\ buffer_size \in Nat /\ read_index \in Nat /\ write_index \in Nat
      /\ write_index < buffer_size /\ read_index < buffer_size
      /\ read_mirror \in {0, 1} /\ write_mirror \in {0, 1}
  BY DEF IndexInv, TypeOK, Live
<1>2. /\ L \in 0..buffer_size
      /\ L = IF read_mirror = write_mirror THEN write_index - read_index
             ELSE buffer_size + write_index - read_index
  BY DataLenIsDistance
<1>3. Live' /\ LengthIsDistance' /\ ContentsAreStored'
  BY InvNext DEF Live
<1>4. /\ Contents \in Seq(Byte) /\ Len(Contents) = L
      /\ \A k \in 1..L : Contents[k] = buffer_ptr[Slot(read_index, k - 1)]
  BY InvContents DEF ContentsAreStored
<1>5. /\ Contents' \in Seq(Byte) /\ Len(Contents') = DataLen'
      /\ \A k \in 1..DataLen' : Contents'[k] = buffer_ptr[Slot(read_index', k - 1)]
  BY <1>3 DEF ContentsAreStored, Slot
<1>6. DataLen' = L - n
  <2>1. DataLen' = IF read_mirror' = write_mirror' THEN write_index' - read_index'
                   ELSE buffer_size' + write_index' - read_index'
    BY <1>3 DEF LengthIsDistance
  <2>2. DataLen' \in 0..buffer_size
    BY <1>3 DEF LengthIsDistance
  <2> HIDE DEF L
  <2> QED
    BY <1>1, <1>2, <2>1, <2>2 DEF Moved, ReachesEnd, FlipIf, Flip, L
<1>7. /\ q \in Seq(Byte) /\ Len(q) = L - n
      /\ \A k \in 1..(L - n) : q[k] = Contents[n + k]
  <2>1. \A i \in (n + 1)..L : Contents[i] \in Byte
    BY <1>1, <1>2, <1>4, ElementOfSeq
  <2>2. n + 1 \in Int /\ L \in Int
    BY <1>1, <1>2
  <2>3. /\ q \in Seq(Byte) /\ Len(q) = IF n + 1 <= L THEN L - (n + 1) + 1 ELSE 0
        /\ \A k \in 1..(L - (n + 1) + 1) : q[k] = Contents[n + 1 + k - 1]
    BY <2>1, <2>2, SubSeqProperties
  <2>4. Len(q) = L - n
    BY <1>2, <2>2, <2>3
  <2>5. ASSUME NEW k \in 1..(L - n)
        PROVE  q[k] = Contents[n + k]
    <3>1. k \in 1..(L - (n + 1) + 1) /\ n + 1 + k - 1 = n + k
      BY <2>2
    <3> QED
      BY <2>3, <3>1
  <2> QED
    BY <2>3, <2>4, <2>5
<1>8. ASSUME NEW k \in 1..(L - n)
      PROVE  Contents'[k] = q[k]
  <2>1. k \in 1..DataLen' /\ n + k \in 1..L /\ n + k - 1 \in Nat
    BY <1>1, <1>2, <1>6
  <2>2. Slot(read_index', k - 1) = Slot(read_index, n + k - 1)
    BY <1>1, <1>2 DEF Slot, Moved, ReachesEnd
  <2>3. Contents'[k] = buffer_ptr[Slot(read_index', k - 1)]
    BY <1>5, <2>1
  <2>4. q[k] = buffer_ptr[Slot(read_index, n + k - 1)]
    BY <1>4, <1>7, <2>1
  <2> QED
    BY <2>2, <2>3, <2>4
<1> QED
  BY <1>4, <1>5, <1>6, <1>7, <1>8, SeqEqual

\* The newest n bytes of a queue.
LEMMA NewestAt ==
    ASSUME NEW S, NEW c \in Seq(S), NEW n \in Nat, n <= Len(c)
    PROVE  /\ Queue!Newest(c, n) \in Seq(S) /\ Len(Queue!Newest(c, n)) = n
           /\ \A k \in 1..n : Queue!Newest(c, n)[k] = c[Len(c) - n + k]
<1> DEFINE m == Len(c) - n + 1
           h == Len(c)
<1>1. h \in Nat /\ m \in Int /\ m \in 1..(h + 1) /\ h - m + 1 = n
  BY LenProperties
<1>2. Queue!Newest(c, n) = SubSeq(c, m, h)
  BY <1>1 DEF Queue!Newest, Queue!Least
<1>3. \A i \in m..h : c[i] \in S
  <2>1. \A i \in m..h : i \in 1..Len(c)
    BY <1>1
  <2> QED
    BY <2>1, ElementOfSeq
<1> HIDE DEF m
<1>4. /\ SubSeq(c, m, h) \in Seq(S)
      /\ Len(SubSeq(c, m, h)) = IF m <= h THEN h - m + 1 ELSE 0
      /\ \A i \in 1..(h - m + 1) : SubSeq(c, m, h)[i] = c[m + i - 1]
  BY <1>1, <1>3, SubSeqProperties
<1>5. Len(SubSeq(c, m, h)) = n
  BY <1>1, <1>4
<1>6. ASSUME NEW k \in 1..n
      PROVE  SubSeq(c, m, h)[k] = c[Len(c) - n + k]
  <2>1. k \in 1..(h - m + 1) /\ m + k - 1 = Len(c) - n + k
    BY <1>1 DEF m
  <2> QED
    BY <1>4, <2>1
<1> QED
  BY <1>2, <1>4, <1>5, <1>6

\* A queue that fits is all newest.
LEMMA NewestFits ==
    ASSUME NEW S, NEW c \in Seq(S), NEW n \in Nat, Len(c) <= n
    PROVE  Queue!Newest(c, n) = c
<1>1. Len(c) \in Nat
  BY LenProperties
<1>2. Len(c) - Queue!Least(n, Len(c)) + 1 = 1
  BY <1>1 DEF Queue!Least
<1> QED
  BY <1>2, SubSeqFull DEF Queue!Newest

\* Of a long block behind a queue, the newest bytes are the block's own.
LEMMA NewestOfLong ==
    ASSUME NEW S, NEW c \in Seq(S), NEW s \in Seq(S), NEW n \in Nat, n <= Len(s)
    PROVE  Queue!Newest(c \o s, n) = SubSeq(s, Len(s) - n + 1, Len(s))
<1> DEFINE a == Queue!Newest(c \o s, n)
           b == Queue!Newest(s, n)
<1>1. /\ Len(c) \in Nat /\ Len(s) \in Nat
      /\ c \o s \in Seq(S) /\ Len(c \o s) = Len(c) + Len(s)
  BY LenProperties, ConcatProperties
<1>2. n <= Len(c \o s)
  BY <1>1
<1>3. /\ a \in Seq(S) /\ Len(a) = n
      /\ \A k \in 1..n : a[k] = (c \o s)[Len(c \o s) - n + k]
  BY <1>1, <1>2, NewestAt
<1>4. b \in Seq(S) /\ Len(b) = n /\ \A k \in 1..n : b[k] = s[Len(s) - n + k]
  BY NewestAt
<1> HIDE DEF a, b
<1>5. ASSUME NEW k \in 1..n
      PROVE  a[k] = b[k]
  <2> DEFINE i == Len(c \o s) - n + k
  <2>1. /\ i \in 1..(Len(c) + Len(s)) /\ ~(i <= Len(c))
        /\ i - Len(c) = Len(s) - n + k
    BY <1>1
  <2>2. (c \o s)[i] = s[i - Len(c)]
    BY <2>1, ConcatProperties
  <2> QED
    BY <1>3, <1>4, <2>1, <2>2
<1>6. a = b
  BY <1>3, <1>4, <1>5, SeqEqual
<1> QED
  BY <1>1, <1>6 DEF a, b, Queue!Newest, Queue!Least

\* A block that overruns and drags the read position along leaves nothing
\* when the indices were in one mirror, and otherwise the newest bytes.
LEMMA OverrunKeepsNewest ==
    ASSUME IndexInv, Live, IndexInv', NEW q \in Seq(Byte),
           Len(q) <= buffer_size, Len(q) > SpaceLen,
           UNCHANGED buffer_size, buffer_ptr' = Copied(q),
           write_mirror' = FlipIf(ReachesEnd(write_index, Len(q)), write_mirror),
           read_mirror' = FlipIf(ReachesEnd(write_index, Len(q)), read_mirror),
           write_index' = Moved(write_index, Len(q)),
           read_index' = write_index'
    PROVE  /\ read_mirror = write_mirror => Contents' = <<>>
           /\ read_mirror # write_mirror =>
                  Contents' = Queue!Newest(Contents \o q, buffer_size)
<1> DEFINE L == DataLen
           n == Len(q)
           N == Queue!Newest(Contents \o q, buffer_size)
<1>1. /\ buffer_size \in Nat /\ read_index \in Nat /\ write_index \in Nat
      /\ write_index < buffer_size /\ read_index < buffer_size
      /\ read_mirror \in {0, 1} /\ write_mirror \in {0, 1}
  BY DEF IndexInv, TypeOK, Live
<1>2. /\ L \in 0..buffer_size /\ SpaceLen = buffer_size - L /\ n \in Nat
      /\ n <= buffer_size /\ n > buffer_size - L
  BY DataLenIsDistance, LenProperties
<1>3. Live' /\ LengthIsDistance' /\ ContentsAreStored'
  BY InvNext DEF Live
<1>4. /\ Contents \in Seq(Byte) /\ Len(Contents) = L
      /\ \A k \in 1..L : Contents[k] = buffer_ptr[Slot(read_index, k - 1)]
  BY InvContents DEF ContentsAreStored
<1>5. /\ Contents' \in Seq(Byte) /\ Len(Contents') = DataLen'
      /\ \A k \in 1..DataLen' :
            Contents'[k] = Copied(q)[Slot(Moved(write_index, n), k - 1)]
  BY <1>3 DEF ContentsAreStored, Slot
<1>6. DataLen' = IF read_mirror = write_mirror THEN 0 ELSE buffer_size
  <2>1. /\ write_index' \in Nat
        /\ DataLen' = IF read_mirror' = write_mirror' THEN write_index' - read_index'
                      ELSE buffer_size + write_index' - read_index'
    BY <1>3 DEF LengthIsDistance, IndexInv, TypeOK
  <2>2. read_mirror' = write_mirror' <=> read_mirror = write_mirror
    BY <1>1 DEF FlipIf, Flip
  <2> QED
    BY <1>1, <2>1, <2>2
<1>7. CASE read_mirror = write_mirror
  <2>1. Len(Contents') = 0 /\ Contents' \in Seq(Byte)
    BY <1>5, <1>6, <1>7
  <2> QED
    BY <1>7, <2>1, EmptySeq
<1>c. \A d \in 0..(buffer_size - 1) :
         Copied(q)[Slot(write_index, d)] =
             IF d < n THEN q[d + 1] ELSE buffer_ptr[Slot(write_index, d)]
  BY CopiedAt
<1>8. CASE read_mirror # write_mirror
  <2>1. /\ Contents \o q \in Seq(Byte) /\ Len(Contents \o q) = L + n
        /\ \A k \in 1..(L + n) :
              (Contents \o q)[k] = IF k <= L THEN Contents[k] ELSE q[k - L]
    BY <1>4, ConcatProperties
  <2>2. buffer_size <= L + n /\ L + n \in Nat
    BY <1>1, <1>2
  <2>3. /\ N \in Seq(Byte) /\ Len(N) = buffer_size
        /\ \A k \in 1..buffer_size :
              N[k] = (Contents \o q)[Len(Contents \o q) - buffer_size + k]
    <3>1. buffer_size <= Len(Contents \o q)
      BY <2>1, <2>2
    <3> QED
      BY <1>1, <2>1, <3>1, NewestAt
  <2>6. Len(Contents \o q) = L + n
    BY <2>1
  <2> HIDE DEF N
  <2>4. ASSUME NEW k \in 1..buffer_size
        PROVE  Contents'[k] = N[k]
    <3>1. Contents'[k] = Copied(q)[Slot(Moved(write_index, n), k - 1)]
      BY <1>5, <1>6, <1>8
    <3> DEFINE i == Len(Contents \o q) - buffer_size + k
    <3>2. N[k] = (Contents \o q)[i]
      BY <2>3
    <3>5. i = ((L + n) - buffer_size) + k
      BY <2>6, Zenon
    <3> HIDE DEF i
    <3>3. CASE n + k - 1 < buffer_size
      <4> DEFINE d == n + k - 1
      <4>1. /\ d \in 0..(buffer_size - 1) /\ ~(d < n)
            /\ i \in 1..L /\ i \in 1..buffer_size /\ i \in 1..(L + n)
            /\ d = buffer_size - L + i - 1
        BY <1>1, <1>2, <3>3, <3>5
      <4>2. Slot(Moved(write_index, n), k - 1) = Slot(write_index, d)
        BY <1>1, <1>2, <3>3 DEF Slot, Moved, ReachesEnd
      <4> HIDE DEF d
      <4>3. Copied(q)[Slot(write_index, d)] = buffer_ptr[Slot(write_index, d)]
        BY <1>c, <4>1
      <4>4. Slot(read_index, i - 1) = Slot(write_index, d)
        BY <1>2, <4>1, ReaderSlots
      <4>5. (Contents \o q)[i] = Contents[i]
        BY <2>1, <4>1
      <4>6. Contents[i] = buffer_ptr[Slot(read_index, i - 1)]
        BY <1>4, <4>1
      <4> QED
        BY <3>1, <3>2, <4>2, <4>3, <4>4, <4>5, <4>6
    <3>4. CASE ~(n + k - 1 < buffer_size)
      <4> DEFINE d == n + k - 1 - buffer_size
      <4>1. /\ d \in 0..(buffer_size - 1) /\ d < n
            /\ ~(i <= L) /\ i \in 1..(L + n) /\ i - L = d + 1
        BY <1>1, <1>2, <3>4, <3>5
      <4>2. Slot(Moved(write_index, n), k - 1) = Slot(write_index, d)
        BY <1>1, <1>2, <3>4 DEF Slot, Moved, ReachesEnd
      <4> HIDE DEF d
      <4>3. Copied(q)[Slot(write_index, d)] = q[d + 1]
        BY <1>c, <4>1
      <4>4. (Contents \o q)[i] = q[i - L]
        BY <2>1, <4>1
      <4> QED
        BY <3>1, <3>2, <4>1, <4>2, <4>3, <4>4
    <3> QED
      BY <3>3, <3>4
  <2>5. Contents' = N
    <3>1. Len(Contents') = buffer_size
      BY <1>5, <1>6, <1>8
    <3> QED
      BY <1>5, <2>3, <2>4, <3>1, SeqEqual
  <2> QED
    BY <1>8, <2>5 DEF N
<1> QED
  BY <1>7, <1>8

\* With equal indices in one mirror nothing is stored.
Level == read_mirror = write_mirror /\ read_index = write_index

LEMMA LevelIsEmpty == Level => Contents = <<>>
<1> SUFFICES ASSUME Level
             PROVE  Contents = <<>>
    OBVIOUS
<1>1. DataLen = 0
  BY DEF Level, DataLen, Status
<1>2. Contents = [k \in 1..0 |-> Stored(k)]
  BY <1>1 DEF Contents
<1> QED
  BY <1>2

LEMMA ZeroIsEmpty ==
    ASSUME ZeroIndices
    PROVE  Contents' = <<>>
<1>1. (Level => Contents = <<>>)'
  BY LevelIsEmpty, PTL
<1> QED
  BY <1>1 DEF ZeroIndices, Level

\* rt_ringbuffer_put stores what fits.
LEMMA PutIsPut ==
    ASSUME IndexInv, IndexInv', NEW s \in Seq(Byte), Put(s)
    PROVE  Queue!Put(s)
<1> DEFINE n == Smaller(SpaceLen, Len(s))
           q == SubSeq(s, 1, n)
<1>1. Live /\ Len(s) \in Nat /\ buffer_size \in Nat
  BY LenProperties DEF Put, IndexInv, TypeOK
<1>2. DataLen \in 0..buffer_size /\ SpaceLen = buffer_size - DataLen
  BY <1>1, DataLenIsDistance
<1>3. n \in Nat /\ n <= SpaceLen /\ n <= Len(s)
  BY <1>1, <1>2 DEF Smaller
<1>4. /\ buffer_ptr' = Copied(q)
      /\ write_mirror' = FlipIf(ReachesEnd(write_index, n), write_mirror)
      /\ write_index' = Moved(write_index, n)
      /\ ret' = n /\ data' = s
      /\ UNCHANGED <<buffer_size, read_mirror, read_index>>
  BY DEF Put, Returns
<1>5. Len(Contents) = DataLen
  BY <1>1, InvContents DEF ContentsAreStored
<1>6. n = Queue!Least(Len(s), buffer_size - Len(Contents))
  BY <1>1, <1>2, <1>5 DEF Smaller, Queue!Least
<1> HIDE DEF n
<1>7. q \in Seq(Byte) /\ Len(q) = n
  <2>1. \A i \in 1..n : s[i] \in Byte
    BY <1>1, <1>3, ElementOfSeq
  <2>2. 1 \in Int /\ n \in Int
    BY <1>3
  <2>3. q \in Seq(Byte) /\ Len(q) = IF 1 <= n THEN n - 1 + 1 ELSE 0
    BY <2>1, <2>2, SubSeqProperties
  <2> QED
    BY <1>3, <2>3
<1> HIDE DEF q
<1>8. Contents' = Contents \o q
  BY <1>1, <1>3, <1>4, <1>7, StoreAppends
<1> QED
  BY <1>1, <1>4, <1>6, <1>8 DEF Queue!Put, Live, q

\* rt_ringbuffer_put_force keeps the newest bytes or, on overrun, nothing.
LEMMA PutForceIsPutForce ==
    ASSUME IndexInv, IndexInv', NEW s \in Seq(Byte), PutForce(s)
    PROVE  Queue!PutForce(s)
<1> DEFINE n == Smaller(buffer_size, Len(s))
           m == Len(s) - n + 1
           q == SubSeq(s, m, Len(s))
<1>1. Live /\ Len(s) \in Nat /\ buffer_size \in Nat /\ buffer_size > 0
  BY LenProperties DEF PutForce, IndexInv, TypeOK, Live
<1>2. DataLen \in 0..buffer_size /\ SpaceLen = buffer_size - DataLen
  BY <1>1, DataLenIsDistance
<1>3. /\ n \in Nat /\ n <= buffer_size /\ n <= Len(s)
      /\ n = buffer_size \/ n = Len(s)
      /\ n = Queue!Least(Len(s), buffer_size)
  BY <1>1 DEF Smaller, Queue!Least
<1>4. /\ buffer_ptr' = Copied(q)
      /\ write_mirror' = FlipIf(ReachesEnd(write_index, n), write_mirror)
      /\ write_index' = Moved(write_index, n)
      /\ ret' = n /\ data' = s /\ buffer_size' = buffer_size
      /\ n > SpaceLen => /\ read_mirror' = FlipIf(ReachesEnd(write_index, n), read_mirror)
                         /\ read_index' = write_index'
      /\ ~(n > SpaceLen) => UNCHANGED <<read_mirror, read_index>>
  BY DEF PutForce, Returns, FlipIf
<1>5. Contents \in Seq(Byte) /\ Len(Contents) = DataLen
  BY <1>1, InvContents DEF ContentsAreStored
<1> HIDE DEF n
<1>6. m \in Int /\ m \in 1..(Len(s) + 1)
  BY <1>1, <1>3
<1>7. q \in Seq(Byte) /\ Len(q) = n
  <2>1. \A i \in m..Len(s) : s[i] \in Byte
    <3>1. \A i \in m..Len(s) : i \in 1..Len(s)
      BY <1>1, <1>6
    <3> QED
      BY <3>1, ElementOfSeq
  <2>2. q \in Seq(Byte) /\ Len(q) = IF m <= Len(s) THEN Len(s) - m + 1 ELSE 0
    BY <1>1, <1>6, <2>1, SubSeqProperties
  <2> QED
    BY <1>1, <1>3, <2>2
\* What is left of the block decides what is newest.
<1>8. Queue!Newest(Contents \o s, buffer_size) = Queue!Newest(Contents \o q, buffer_size)
  <2>1. CASE n = Len(s)
    <3>1. q = s
      BY <1>1, <2>1, SubSeqFull
    <3> QED
      BY <3>1
  <2>2. CASE n = buffer_size
    <3>1. Queue!Newest(Contents \o s, buffer_size) = q
      <4>1. Queue!Newest(Contents \o s, buffer_size)
                = SubSeq(s, Len(s) - buffer_size + 1, Len(s))
        BY <1>1, <1>3, <1>5, <2>2, NewestOfLong
      <4> QED
        BY <2>2, <4>1
    <3>2. Queue!Newest(Contents \o q, buffer_size)
              = SubSeq(q, Len(q) - buffer_size + 1, Len(q))
      <4>1. q \in Seq(Byte) /\ buffer_size <= Len(q)
        BY <1>1, <1>7, <2>2
      <4> HIDE DEF q
      <4> QED
        BY <1>1, <1>5, <4>1, NewestOfLong
    <3>3. Len(q) - buffer_size + 1 = 1
      BY <1>1, <1>7, <2>2
    <3> HIDE DEF q
    <3> QED
      BY <1>7, <3>1, <3>2, <3>3, SubSeqFull
  <2> QED
    BY <1>3, <2>1, <2>2
<1> HIDE DEF q
<1>9. CASE ~(n > SpaceLen)
  <2>1. Contents' = Contents \o q
    BY <1>1, <1>2, <1>3, <1>4, <1>7, <1>9, StoreAppends
  <2>2. Contents \o q \in Seq(Byte) /\ Len(Contents \o q) <= buffer_size
    <3>1. Contents \o q \in Seq(Byte) /\ Len(Contents \o q) = DataLen + n
      BY <1>5, <1>7, ConcatProperties
    <3> QED
      BY <1>1, <1>2, <1>3, <1>9, <3>1
  <2>3. Contents' = Queue!Newest(Contents \o q, buffer_size)
    BY <1>1, <2>1, <2>2, NewestFits
  <2> QED
    BY <1>1, <1>3, <1>4, <1>8, <2>3 DEF Queue!PutForce
<1>10. CASE n > SpaceLen
  <2>1. /\ read_mirror = write_mirror => Contents' = <<>>
        /\ read_mirror # write_mirror =>
               Contents' = Queue!Newest(Contents \o q, buffer_size)
    BY <1>1, <1>3, <1>4, <1>7, <1>10, OverrunKeepsNewest
  <2>2. Len(Contents) + Len(s) > buffer_size
    BY <1>1, <1>2, <1>3, <1>5, <1>10
  <2> QED
    BY <1>1, <1>3, <1>4, <1>8, <2>1, <2>2 DEF Queue!PutForce
<1> QED
  BY <1>9, <1>10

\* rt_ringbuffer_get takes the oldest bytes.
LEMMA GetIsGet ==
    ASSUME IndexInv, IndexInv', NEW length \in Nat, Get(length)
    PROVE  Queue!Get(length)
<1> DEFINE n == Smaller(DataLen, length)
<1>1. Live /\ buffer_size \in Nat
  BY DEF Get, IndexInv, TypeOK
<1>2. DataLen \in 0..buffer_size
  BY <1>1, DataLenIsDistance
<1>3. Contents \in Seq(Byte) /\ Len(Contents) = DataLen
  BY <1>1, InvContents DEF ContentsAreStored
<1>4. n \in Nat /\ n <= DataLen /\ n = Queue!Least(length, Len(Contents))
  BY <1>1, <1>2, <1>3 DEF Smaller, Queue!Least
<1>5. /\ ret' = n /\ data' = [k \in 1..n |-> Stored(k)]
      /\ read_mirror' = FlipIf(ReachesEnd(read_index, n), read_mirror)
      /\ read_index' = Moved(read_index, n)
      /\ UNCHANGED <<buffer_size, buffer_ptr, write_mirror, write_index>>
  BY DEF Get, Returns
<1> HIDE DEF n
<1>6. Contents' = SubSeq(Contents, n + 1, Len(Contents))
  BY <1>1, <1>4, <1>5, TakeRemoves
<1>7. data' = SubSeq(Contents, 1, n)
  <2>1. \A k \in 1..n : k \in 1..DataLen
    BY <1>1, <1>2, <1>4
  <2>2. \A k \in 1..n : Contents[k] = Stored(k)
    BY <2>1 DEF Contents
  <2>3. \A k \in 1..n : Contents[k] \in Byte
    BY <1>3, <2>1, ElementOfSeq
  <2>4. 1 \in Int /\ n \in Int
    BY <1>4
  <2>5. /\ SubSeq(Contents, 1, n) \in Seq(Byte)
        /\ Len(SubSeq(Contents, 1, n)) = IF 1 <= n THEN n - 1 + 1 ELSE 0
        /\ \A k \in 1..(n - 1 + 1) : SubSeq(Contents, 1, n)[k] = Contents[1 + k - 1]
    BY <2>3, <2>4, SubSeqProperties
  <2>6. Len(SubSeq(Contents, 1, n)) = n
    BY <1>4, <2>5
  <2>7. data' \in [1..n -> Byte]
    BY <1>5, <2>2, <2>3
  <2>8. data' \in Seq(Byte) /\ Len(data') = n
    BY <1>4, <2>7
  <2>9. ASSUME NEW k \in 1..n
        PROVE  data'[k] = SubSeq(Contents, 1, n)[k]
    <3>1. k \in 1..(n - 1 + 1) /\ 1 + k - 1 = k
      BY <1>4
    <3>2. SubSeq(Contents, 1, n)[k] = Contents[k]
      BY <2>5, <3>1
    <3>3. data'[k] = Stored(k)
      BY <1>5
    <3> QED
      BY <2>2, <3>2, <3>3
  <2> QED
    BY <2>5, <2>6, <2>8, <2>9, SeqEqual
<1> QED
  BY <1>1, <1>4, <1>5, <1>6, <1>7 DEF Queue!Get, Live

\* A block of one character copied to write_index is that character stored.
LEMMA CharIsBlock ==
    ASSUME IndexInv, Live, NEW c \in Byte
    PROVE  /\ <<c>> \in Seq(Byte) /\ Len(<<c>>) = 1
           /\ WithChar(c) = Copied(<<c>>)
           /\ \A i \in {read_index, write_index} :
                 /\ AtEnd(i) <=> ReachesEnd(i, 1)
                 /\ Following(i) = Moved(i, 1)
<1>1. /\ buffer_size \in Nat /\ write_index \in Nat /\ read_index \in Nat
      /\ write_index < buffer_size /\ read_index < buffer_size
      /\ buffer_ptr \in [0..(buffer_size - 1) -> Byte]
  BY DEF IndexInv, TypeOK, Live
<1>2. <<c>> \in Seq(Byte) /\ Len(<<c>>) = 1 /\ <<c>>[1] = c
  OBVIOUS
<1>3. \A i \in {read_index, write_index} :
         (AtEnd(i) <=> ReachesEnd(i, 1)) /\ Following(i) = Moved(i, 1)
  BY <1>1 DEF AtEnd, ReachesEnd, Following, Moved
<1>4. ASSUME NEW i \in 0..(buffer_size - 1)
      PROVE  WithChar(c)[i] = Copied(<<c>>)[i]
  <2> DEFINE d == i - write_index
  <2>1. Copied(<<c>>)[i] = IF 0 <= d /\ d < 1 THEN <<c>>[d + 1]
                           ELSE IF d < 0 /\ d + buffer_size < 1
                                THEN <<c>>[d + buffer_size + 1]
                                ELSE buffer_ptr[i]
    BY <1>2 DEF Copied
  <2>2. WithChar(c)[i] = IF i = write_index THEN c ELSE buffer_ptr[i]
    BY <1>1 DEF WithChar
  <2>3. /\ d \in Int /\ (i = write_index <=> d = 0)
        /\ ~(d < 0 /\ d + buffer_size < 1)
    BY <1>1
  <2> HIDE DEF d
  <2>4. CASE d = 0
    BY <1>2, <2>1, <2>2, <2>3, <2>4
  <2>5. CASE d # 0
    <3>1. ~(0 <= d /\ d < 1)
      BY <2>3, <2>5
    <3> QED
      BY <2>1, <2>2, <2>3, <2>5, <3>1
  <2> QED
    BY <2>4, <2>5
<1>5. WithChar(c) = Copied(<<c>>)
  <2>1. /\ WithChar(c) = [i \in 0..(buffer_size - 1) |-> WithChar(c)[i]]
        /\ Copied(<<c>>) = [i \in 0..(buffer_size - 1) |-> Copied(<<c>>)[i]]
    BY <1>1 DEF WithChar, Copied
  <2> QED
    BY <1>4, <2>1
<1> QED
  BY <1>2, <1>3, <1>5

\* rt_ringbuffer_putchar is put of one byte.
LEMMA PutcharIsPut ==
    ASSUME IndexInv, IndexInv', NEW c \in Byte, Putchar(c)
    PROVE  Queue!Put(<<c>>)
<1>1. Live /\ <<c>> \in Seq(Byte) /\ Len(<<c>>) = 1 /\ buffer_size \in Nat
  BY CharIsBlock DEF Putchar, IndexInv, TypeOK
<1>2. DataLen \in 0..buffer_size /\ SpaceLen = buffer_size - DataLen
  BY <1>1, DataLenIsDistance
<1>3. Contents \in Seq(Byte) /\ Len(Contents) = DataLen
  BY <1>1, InvContents DEF ContentsAreStored
<1>4. UNCHANGED <<buffer_size, read_mirror, read_index>>
  BY DEF Putchar
<1>5. CASE SpaceLen = 0
  <2>1. /\ UNCHANGED <<buffer_ptr, write_mirror, write_index>>
        /\ ret' = 0 /\ data' = <<c>>
    BY <1>5 DEF Putchar, Returns
  <2>2. Contents' = Contents
    BY <1>4, <2>1 DEF Contents, Stored, DataLen, Status
  <2>3. Queue!Least(Len(<<c>>), buffer_size - Len(Contents)) = 0
    BY <1>1, <1>2, <1>3, <1>5 DEF Queue!Least
  <2>4. Contents' = Contents \o SubSeq(<<c>>, 1, 0)
    BY <1>1, <1>3, <2>2, SubSeqEmpty, ConcatEmptySeq
  <2>5. buffer_size > 0 /\ buffer_size' = buffer_size /\ ret' = 0 /\ data' = <<c>>
    BY <1>1, <1>4, <2>1 DEF Live
  <2> QED
    BY <2>3, <2>4, <2>5 DEF Queue!Put
<1>6. CASE SpaceLen # 0
  <2>1. /\ buffer_ptr' = Copied(<<c>>)
        /\ write_mirror' = FlipIf(ReachesEnd(write_index, 1), write_mirror)
        /\ write_index' = Moved(write_index, 1)
        /\ ret' = 1 /\ data' = <<c>>
    <3>1. /\ buffer_ptr' = WithChar(c)
          /\ write_mirror' = FlipIf(AtEnd(write_index), write_mirror)
          /\ write_index' = Following(write_index)
          /\ ret' = 1 /\ data' = <<c>>
      BY <1>6 DEF Putchar, Returns
    <3> QED
      BY <1>1, <3>1, CharIsBlock, Zenon DEF FlipIf
  <2>2. Len(<<c>>) <= SpaceLen
    BY <1>1, <1>2, <1>6
  <2>3. Contents' = Contents \o <<c>>
    BY <1>1, <1>4, <2>1, <2>2, StoreAppends
  <2>4. Queue!Least(Len(<<c>>), buffer_size - Len(Contents)) = 1
    BY <1>1, <1>2, <1>3, <1>6 DEF Queue!Least
  <2>5. SubSeq(<<c>>, 1, 1) = <<c>>
    BY <1>1, SubSeqFull
  <2> QED
    BY <1>1, <1>4, <2>1, <2>3, <2>4, <2>5 DEF Queue!Put, Live
<1> QED
  BY <1>5, <1>6

\* rt_ringbuffer_putchar_force never loses more than the oldest byte.
LEMMA PutcharForceIsPutcharForce ==
    ASSUME IndexInv, IndexInv', NEW c \in Byte, PutcharForce(c)
    PROVE  Queue!PutcharForce(c)
<1>1. /\ Live /\ <<c>> \in Seq(Byte) /\ Len(<<c>>) = 1
      /\ buffer_size \in Nat /\ buffer_size > 0
  BY CharIsBlock DEF PutcharForce, IndexInv, TypeOK, Live
<1>2. DataLen \in 0..buffer_size /\ SpaceLen = buffer_size - DataLen
  BY <1>1, DataLenIsDistance
<1>3. Contents \in Seq(Byte) /\ Len(Contents) = DataLen
  BY <1>1, InvContents DEF ContentsAreStored
<1>4. /\ buffer_ptr' = Copied(<<c>>)
      /\ write_mirror' = FlipIf(ReachesEnd(write_index, 1), write_mirror)
      /\ write_index' = Moved(write_index, 1)
      /\ ret' = 1 /\ data' = <<c>> /\ buffer_size' = buffer_size
  <2>1. /\ buffer_ptr' = WithChar(c)
        /\ write_mirror' = FlipIf(AtEnd(write_index), write_mirror)
        /\ write_index' = Following(write_index)
        /\ ret' = 1 /\ data' = <<c>> /\ buffer_size' = buffer_size
    BY DEF PutcharForce, Returns
  <2> QED
    BY <1>1, <2>1, CharIsBlock, Zenon DEF FlipIf
<1>5. Append(Contents, c) = Contents \o <<c>>
  BY <1>3, AppendIsConcat
<1>6. Contents \o <<c>> \in Seq(Byte) /\ Len(Contents \o <<c>>) = DataLen + 1
  BY <1>1, <1>3, ConcatProperties
<1>7. Contents' = Queue!Newest(Contents \o <<c>>, buffer_size)
  <2>1. CASE Status = "FULL"
    <3>1. /\ read_mirror' = FlipIf(ReachesEnd(write_index, 1), read_mirror)
          /\ read_index' = write_index'
      BY <1>1, <1>4, <2>1, CharIsBlock DEF PutcharForce, ReadAfterForce, FlipIf
    <3>2. read_mirror # write_mirror /\ DataLen = buffer_size
      BY <2>1 DEF Status, DataLen
    <3>3. Len(<<c>>) > SpaceLen /\ Len(<<c>>) <= buffer_size
      BY <1>1, <1>2, <3>2
    <3> QED
      BY <1>1, <1>4, <3>1, <3>2, <3>3, OverrunKeepsNewest
  <2>2. CASE Status # "FULL"
    <3>1. read_mirror' = read_mirror /\ read_index' = read_index
      BY <2>2 DEF PutcharForce, ReadAfterForce, FlipIf
    <3>2. DataLen < buffer_size
      BY <1>1, <2>2
      DEF Status, DataLen, IndexInv, TypeOK, Live
    <3>3. Len(<<c>>) <= SpaceLen
      BY <1>1, <1>2, <3>2
    <3>4. Contents' = Contents \o <<c>>
      BY <1>1, <1>4, <3>1, <3>3, StoreAppends
    <3>5. Len(Contents \o <<c>>) <= buffer_size
      BY <1>1, <1>2, <1>6, <3>2
    <3> QED
      BY <1>1, <1>6, <3>4, <3>5, NewestFits
  <2> QED
    BY <2>1, <2>2
<1> QED
  BY <1>1, <1>4, <1>5, <1>7 DEF Queue!PutcharForce

\* rt_ringbuffer_getchar is get of one byte.
LEMMA GetcharIsGet ==
    ASSUME IndexInv, IndexInv', Getchar
    PROVE  Queue!Get(1)
<1>1. Live /\ buffer_size \in Nat
  BY DEF Getchar, IndexInv, TypeOK
<1>2. DataLen \in 0..buffer_size /\ DataLen \in Nat
  BY <1>1, DataLenIsDistance
<1>3. /\ Contents \in Seq(Byte) /\ Len(Contents) = DataLen
      /\ \A k \in 1..DataLen : Contents[k] = buffer_ptr[Slot(read_index, k - 1)]
  BY <1>1, InvContents DEF ContentsAreStored
<1>4. UNCHANGED <<buffer_size, buffer_ptr, write_mirror, write_index>>
  BY DEF Getchar
<1>5. CASE DataLen = 0
  <2>1. ret' = 0 /\ data' = <<>> /\ UNCHANGED <<read_mirror, read_index>>
    BY <1>5 DEF Getchar, Returns
  <2>2. Contents' = Contents
    BY <1>4, <2>1 DEF Contents, Stored, DataLen, Status
  <2>3. Queue!Least(1, Len(Contents)) = 0
    BY <1>3, <1>5 DEF Queue!Least
  <2>4. SubSeq(Contents, 1, 0) = <<>>
    BY <1>3, SubSeqEmpty
  <2>5. SubSeq(Contents, 0 + 1, Len(Contents)) = Contents
    BY <1>3, SubSeqFull
  <2> QED
    BY <1>1, <1>4, <2>1, <2>2, <2>3, <2>4, <2>5 DEF Queue!Get, Live
<1>6. CASE DataLen # 0
  <2>1. /\ ret' = 1 /\ data' = <<buffer_ptr[read_index]>>
        /\ read_mirror' = FlipIf(AtEnd(read_index), read_mirror)
        /\ read_index' = Following(read_index)
    BY <1>6 DEF Getchar, Returns
  <2>2. /\ read_mirror' = FlipIf(ReachesEnd(read_index, 1), read_mirror)
        /\ read_index' = Moved(read_index, 1)
    BY <2>1 DEF FlipIf, IndexInv, TypeOK, AtEnd, Following, ReachesEnd, Moved, Live, Getchar
  <2>3. 1 <= DataLen
    BY <1>2, <1>6
  <2>4. Contents' = SubSeq(Contents, 1 + 1, Len(Contents))
    BY <1>1, <1>4, <2>2, <2>3, TakeRemoves
  <2>5. Queue!Least(1, Len(Contents)) = 1
    BY <1>3, <2>3 DEF Queue!Least
  <2>6. Contents[1] = buffer_ptr[read_index]
    <3>1. 1 \in 1..DataLen
      BY <1>2, <2>3
    <3>2. Slot(read_index, 1 - 1) = read_index
      BY <1>1 DEF Slot, IndexInv, TypeOK, Live
    <3> QED
      BY <1>3, <3>1, <3>2
  <2>7. SubSeq(Contents, 1, 1) = <<Contents[1]>>
    <3>1. 1 \in 1..Len(Contents) /\ 1 + 1 = 2
      BY <1>2, <1>3, <2>3
    <3>2. SubSeq(Contents, 1, 1) = <<Contents[1]>> \o SubSeq(Contents, 2, 1)
      BY <1>3, <3>1, SubSeqRecursiveFirst
    <3>3. SubSeq(Contents, 2, 1) = <<>>
      BY <1>3, SubSeqEmpty
    <3>4. <<Contents[1]>> \in Seq(Byte)
      BY <1>3, <3>1, ElementOfSeq
    <3> QED
      BY <3>2, <3>3, <3>4, ConcatEmptySeq
  <2> QED
    BY <1>1, <1>4, <2>1, <2>4, <2>5, <2>6, <2>7 DEF Queue!Get, Live
<1> QED
  BY <1>5, <1>6

LEMMA StepIsQueueStep ==
    ASSUME IndexInv, IndexInv', [Next]_vars
    PROVE  [Queue!Next]_(Queue!fifo)
<1>1. ASSUME NEW request \in Requests, Create(request)
      PROVE  Queue!Next
  <2>1. buffer_size = 0 /\ Contents' = <<>> /\ ret' = 0 /\ data' = <<>>
    BY <1>1, ZeroIsEmpty DEF Create, Returns, Live, IndexInv, TypeOK
  <2>2. buffer_size' \in {AlignDown(n) : n \in Requests} \cup {0}
    BY <1>1, <2>1 DEF Create
  <2> QED
    BY <2>1, <2>2 DEF Queue!Next, Queue!Create
<1>2. ASSUME Destroy
      PROVE  Queue!Next
  BY <1>2, ZeroIsEmpty DEF Destroy, Returns, Live, Queue!Next, Queue!Destroy
<1>3. ASSUME Reset
      PROVE  Queue!Next
  BY <1>3, ZeroIsEmpty DEF Reset, Returns, Live, Queue!Next, Queue!Reset
<1>4. ASSUME NEW s \in Block, Put(s)
      PROVE  Queue!Next
  <2>1. data' = s
    BY <1>4 DEF Put, Returns
  <2>2. Queue!Put(s)
    BY <1>4, BlockIsSeq, PutIsPut
  <2> QED
    BY <2>1, <2>2 DEF Queue!Next
<1>5. ASSUME NEW s \in Block, PutForce(s)
      PROVE  Queue!Next
  <2>1. data' = s
    BY <1>5 DEF PutForce, Returns
  <2>2. Queue!PutForce(s)
    BY <1>5, BlockIsSeq, PutForceIsPutForce
  <2> QED
    BY <2>1, <2>2 DEF Queue!Next
<1>6. ASSUME NEW length \in 0..MaxLength, Get(length)
      PROVE  Queue!Next
  <2>1. length \in Nat
    BY MaxLengthAssumption
  <2>2. Queue!Get(length)
    BY <1>6, <2>1, GetIsGet
  <2> QED
    BY <2>2 DEF Queue!Next
<1>7. ASSUME NEW c \in Byte, Putchar(c)
      PROVE  Queue!Next
  BY <1>7, PutcharIsPut DEF Queue!Next
<1>8. ASSUME NEW c \in Byte, PutcharForce(c)
      PROVE  Queue!Next
  BY <1>8, PutcharForceIsPutcharForce DEF Queue!Next
<1>9. ASSUME Getchar
      PROVE  Queue!Next
  BY <1>9, GetcharIsGet DEF Queue!Next
<1>10. ASSUME UNCHANGED vars
       PROVE  UNCHANGED Queue!fifo
  BY <1>10 DEF vars, indices, Queue!fifo, Contents, Stored, DataLen, Status
<1> QED
  BY <1>1, <1>2, <1>3, <1>4, <1>5, <1>6, <1>7, <1>8, <1>9, <1>10 DEF Next

\* Mirrors and indices implement a bounded first-in first-out queue: for every
\* pool size and every sequence of the nine operations, bytes leave in the
\* order they came, once each, and only a forced put loses stored ones.
THEOREM RingIsQueue == Spec => IsByteQueue
<1>1. Init => Queue!Init
  BY LevelIsEmpty DEF Init, Level, Queue!Init
<1>2. IndexInv /\ IndexInv' /\ [Next]_vars => [Queue!Next]_(Queue!fifo)
  BY StepIsQueueStep
<1> QED
  BY <1>1, <1>2, IndexInvariant, PTL DEF Spec, IsByteQueue, Queue!Spec
==============================================================================
