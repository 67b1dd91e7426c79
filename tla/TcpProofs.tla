------------------------------ MODULE TcpProofs ------------------------------
(***************************************************************************)
(* What tcprecv.c does with a connection and with tcp_dat.                 *)
(*                                                                         *)
(* The two threads inside tcp_dat, for every pool size, block length and   *)
(* interleaving: every word keeps its type and put_force never starts a    *)
(* memcpy outside the pool; and until one thread's access falls into a     *)
(* window of the other, or a block overruns the buffer, the bytes come out *)
(* in the order they went in and a buffer that looks empty is.             *)
(*                                                                         *)
(* The invariant for the second half, Unraced, says how far apart the two  *)
(* words are, which slot holds which byte, and that what each thread has   *)
(* found out in the middle of data_len is still true when it acts on it,   *)
(* or wrong only on the safe side.                                         *)
(*                                                                         *)
(* The server, for any bounds on the peer and any block size: types, who   *)
(* owns the receive buffer, and what a handle is worth.  These properties  *)
(* speak of the server alone and are inductive only together with how far  *)
(* opening the socket has come (Opening) and with the state of the         *)
(* connection as lwIP sees it (Connection).                                *)
(***************************************************************************)
EXTENDS TcpDat, TcpServer, SequenceTheorems, TLAPS

\* The write word is only stored to by put_force, and what it decided about
\* wrapping when it copied still holds when it publishes.
WriterInv ==
    /\ wr.i \in 0..(Size - 1)
    /\ wr = [m |-> wr.m, i |-> wr.i]
    /\ put = [pc |-> put.pc, n |-> put.n, len |-> put.len, reg |-> put.reg]
    /\ put.n \in 0..MaxBlock
    /\ put.pc = "publish" => Size - wr.i > put.n
    /\ put.pc \in {"wrapMirror", "wrapIndex"} => Size - wr.i <= put.n

LEMMA SizeNat == Size \in Nat \ {0}
  BY SizeAssumption

\* Steps of the reader leave the writer's state alone.
LEMMA ReaderLeavesWriter ==
    ASSUME TakeChar
    PROVE  UNCHANGED <<wr, put>>
  BY DEF TakeChar, GetStatus, GetMirror, GetCompare, GetSubtract, GetFetch,
         GetAtEnd, GetFlip, GetFlipStore, GetZero, GetZeroStore, GetInc,
         GetIncStore, GetUse, GetLoad, GetStore, shared

LEMMA WriterStep ==
    ASSUME WriterInv, PutForce
    PROVE  WriterInv'
<1>1. CASE PutStatus
  BY <1>1 DEF WriterInv, PutStatus, PutGoes, shared
<1>2. CASE PutMirror
  BY <1>2 DEF WriterInv, PutMirror, PutMeasured, shared
<1>3. CASE PutCompare
  BY <1>3 DEF WriterInv, PutCompare, PutGoes, PutMeasured, shared
<1>4. CASE PutSubtract
  BY <1>4 DEF WriterInv, PutSubtract, PutMeasured, shared
<1>5. CASE PutMemcpy
  BY <1>5, SizeNat, MaxBlockAssumption
  DEF WriterInv, PutMemcpy, PutGoes, Wraps
<1>6. CASE PutPublish
  BY <1>6, SizeNat, MaxBlockAssumption DEF WriterInv, PutPublish, PutGoes
<1>7. CASE PutWrapMirror
  BY <1>7 DEF WriterInv, PutWrapMirror, PutGoes
<1>8. CASE PutWrapIndex
  BY <1>8, SizeNat, MaxBlockAssumption
  DEF WriterInv, PutWrapIndex, PutGoes
<1>9. CASE PutDragMirror
  BY <1>9 DEF WriterInv, PutDragMirror, PutLoad, shared
<1>10. CASE PutDragMirrorStore
  BY <1>10 DEF WriterInv, PutDragMirrorStore, PutGoes
<1>11. CASE PutDragIndex
  BY <1>11 DEF WriterInv, PutDragIndex, PutLoad, shared
<1>12. CASE PutDragIndexStore
  BY <1>12 DEF WriterInv, PutDragIndexStore, PutGoes
<1> QED
  BY <1>1, <1>2, <1>3, <1>4, <1>5, <1>6, <1>7, <1>8, <1>9, <1>10, <1>11, <1>12
  DEF PutForce

LEMMA WriterInit == Init => WriterInv
  BY SizeNat, MaxBlockAssumption DEF Init, WriterInv

LEMMA WriterNext ==
    ASSUME WriterInv, [Next]_vars
    PROVE  WriterInv'
<1>1. ASSUME NEW n \in 1..MaxBlock, Recv(n)
      PROVE  WriterInv'
  <2>1. n \in 0..MaxBlock
    BY <1>1, MaxBlockAssumption, SizeNat
  <2>2. /\ wr' = wr
        /\ put' = [pc |-> "status", n |-> n, len |-> put.len, reg |-> put.reg]
    BY <1>1 DEF WriterInv, Recv, shared
  <2> QED
    BY <2>1, <2>2 DEF WriterInv
<1>2. CASE PutForce
  BY <1>2, WriterStep
<1>3. CASE TakeChar
  BY <1>3, ReaderLeavesWriter DEF WriterInv
<1>4. CASE UNCHANGED vars
  BY <1>4 DEF WriterInv, vars, shared
<1> QED
  BY <1>1, <1>2, <1>3, <1>4 DEF Next

\* In every interleaving the write index stays inside the pool: what two racing
\* threads do to each other never makes tcprecvserv write outside tcp_dat.
THEOREM WriterStaysInPool == Spec => []WriterInPool
<1>1. WriterInv => WriterInPool
  BY SizeNat DEF WriterInv, WriterInPool
<1> QED
  BY <1>1, WriterInit, WriterNext, PTL DEF Spec
-----------------------------------------------------------------------------
\* TypeOK, with the fields it leaves out and no block longer than what came.
PutTyped ==
    /\ put = [pc |-> put.pc, n |-> put.n, len |-> put.len, reg |-> put.reg]
    /\ put.n \in 0..MaxBlock /\ put.len \in Int /\ put.reg \in Word

GetTyped ==
    /\ get = [pc |-> get.pc, inGetchar |-> get.inGetchar, dat |-> get.dat,
              reg |-> get.reg]
    /\ get.inGetchar \in BOOLEAN /\ get.dat \in 0..MaxBytes /\ get.reg \in Word

CountsTyped ==
    /\ sent \in 0..MaxBytes /\ put.n <= sent
    /\ delivered \in Seq(0..MaxBytes) /\ Len(delivered) <= MaxDelivered

Typed ==
    /\ pool \in [0..(Size - 1) -> 0..MaxBytes]
    /\ rd \in Word /\ wr \in Word
    /\ PutTyped /\ GetTyped /\ CountsTyped
    /\ raced \in BOOLEAN

\* A word is its two fields, and stays one when either is stored to.
LEMMA Words ==
    ASSUME NEW w \in Word
    PROVE  /\ w = [m |-> w.m, i |-> w.i]
           /\ w.m \in {0, 1} /\ w.i \in Index
  BY DEF Word

LEMMA WordStores ==
    ASSUME NEW w \in Word, NEW x
    PROVE  /\ [w EXCEPT !.m = x] = [m |-> x, i |-> w.i]
           /\ [w EXCEPT !.i = x] = [m |-> w.m, i |-> x]
  BY DEF Word

LEMMA MakeWord ==
    ASSUME NEW x \in {0, 1}, NEW y \in Index
    PROVE  [m |-> x, i |-> y] \in Word
  BY DEF Word

\* An index fits its 15 bits, wrapped or not.
LEMMA WrappedIndex ==
    ASSUME NEW y \in Nat
    PROVE  y % 32768 \in Index
  BY DEF Index

LEMMA SmallIndex ==
    ASSUME NEW y \in Nat, y < 32768
    PROVE  y \in Index
<1>1. y % 32768 = y
  OBVIOUS
<1> QED
  BY <1>1, WrappedIndex

LEMMA Indices ==
    /\ \A y \in Index : y \in Int /\ y >= 0
    /\ \A y \in 0..Size : y \in Index
<1>1. \A y \in Index : y \in Int /\ y >= 0
  BY DEF Index
<1>2. ASSUME NEW y \in 0..Size
      PROVE  y \in Index
  <2>1. Size \in Nat /\ Size < 32768
    BY SizeAssumption
  <2>2. y \in Nat /\ y < 32768
    BY <2>1
  <2> QED
    BY <2>2, SmallIndex
<1> QED
  BY <1>1, <1>2

\* What the assignments to put and get leave of their fields.
LEMMA PutGoesFields ==
    ASSUME PutTyped, NEW p, PutGoes(p)
    PROVE  /\ put'.pc = p /\ put'.n = put.n
           /\ put'.len = put.len /\ put'.reg = put.reg
           /\ PutTyped'
<1>1. put' = [pc |-> p, n |-> put.n, len |-> put.len, reg |-> put.reg]
  BY DEF PutTyped, PutGoes
<1> QED
  BY <1>1 DEF PutTyped

LEMMA PutMeasuredFields ==
    ASSUME PutTyped, NEW l \in Int, PutMeasured(l)
    PROVE  /\ put'.pc = "memcpy" /\ put'.n = put.n
           /\ put'.len = l /\ put'.reg = put.reg
           /\ PutTyped'
<1>1. put' = [pc |-> "memcpy", n |-> put.n, len |-> l, reg |-> put.reg]
  BY DEF PutTyped, PutMeasured
<1> QED
  BY <1>1 DEF PutTyped

LEMMA PutLoadFields ==
    ASSUME PutTyped, rd \in Word, NEW p, NEW q, PutLoad(p, q)
    PROVE  /\ put'.pc = q /\ put'.n = put.n
           /\ put'.len = put.len /\ put'.reg = rd
           /\ PutTyped'
<1>1. put' = [pc |-> q, n |-> put.n, len |-> put.len, reg |-> rd]
  BY DEF PutTyped, PutLoad
<1> QED
  BY <1>1 DEF PutTyped

LEMMA GetGoesFields ==
    ASSUME GetTyped, NEW p, GetGoes(p)
    PROVE  /\ get'.pc = p /\ get'.inGetchar = get.inGetchar
           /\ get'.dat = get.dat /\ get'.reg = get.reg
           /\ GetTyped'
<1>1. get' = [pc |-> p, inGetchar |-> get.inGetchar, dat |-> get.dat,
              reg |-> get.reg]
  BY DEF GetTyped, GetGoes
<1> QED
  BY <1>1 DEF GetTyped

LEMMA GetLoadFields ==
    ASSUME GetTyped, rd \in Word, NEW p, NEW q, GetLoad(p, q)
    PROVE  /\ get'.pc = q /\ get'.inGetchar = get.inGetchar
           /\ get'.dat = get.dat /\ get'.reg = rd
           /\ GetTyped'
<1>1. get' = [pc |-> q, inGetchar |-> get.inGetchar, dat |-> get.dat, reg |-> rd]
  BY DEF GetTyped, GetLoad
<1> QED
  BY <1>1 DEF GetTyped

\* The four answers data_len leads to.
LEMMA GetMeasuredFields ==
    ASSUME GetTyped, NEW l \in Int, GetMeasured(l)
    PROVE  /\ get'.dat = get.dat /\ get'.reg = get.reg /\ GetTyped'
           /\ ~get.inGetchar /\ l = 0 => get'.pc = "status" /\ ~get'.inGetchar
           /\ ~get.inGetchar /\ l # 0 => get'.pc = "status" /\ get'.inGetchar
           /\ get.inGetchar /\ l = 0 => get'.pc = "use" /\ get'.inGetchar
           /\ get.inGetchar /\ l # 0 => get'.pc = "fetch" /\ get'.inGetchar
<1>1. CASE ~get.inGetchar /\ l # 0
  <2>1. get' = [pc |-> "status", inGetchar |-> TRUE, dat |-> get.dat,
                reg |-> get.reg]
    BY <1>1 DEF GetTyped, GetMeasured
  <2> QED
    BY <1>1, <2>1 DEF GetTyped
<1>2. CASE ~get.inGetchar /\ l = 0
  <2>1. GetGoes("status")
    BY <1>2 DEF GetMeasured
  <2> QED
    BY <1>2, <2>1, GetGoesFields
<1>3. CASE get.inGetchar /\ l = 0
  <2>1. GetGoes("use")
    BY <1>3 DEF GetMeasured
  <2> QED
    BY <1>3, <2>1, GetGoesFields
<1>4. CASE get.inGetchar /\ l # 0
  <2>1. GetGoes("fetch")
    BY <1>4 DEF GetMeasured
  <2> QED
    BY <1>4, <2>1, GetGoesFields
<1> QED
  BY <1>1, <1>2, <1>3, <1>4

\* Of a writer's step only what it stores needs looking at.
LEMMA PutKeepsTyped ==
    ASSUME Typed, PutTyped', put'.n = put.n,
           pool' \in [0..(Size - 1) -> 0..MaxBytes], rd' \in Word, wr' \in Word,
           get' = get, sent' = sent, delivered' = delivered, raced' \in BOOLEAN
    PROVE  Typed'
  BY DEF Typed, GetTyped, CountsTyped

LEMMA GetKeepsTyped ==
    ASSUME Typed, GetTyped', CountsTyped', rd' \in Word,
           pool' = pool, wr' = wr, put' = put, raced' \in BOOLEAN
    PROVE  Typed'
  BY DEF Typed, PutTyped

\* The bytes of a block are bytes the peer has sent.
LEMMA BlockBytes ==
    ASSUME CountsTyped, NEW n \in Nat, n <= sent,
           NEW x \in Nat, x < n
    PROVE  sent - n + 1 + x \in 0..MaxBytes
  BY BoundsAssumption DEF CountsTyped

LEMMA PutForceTyped ==
    ASSUME Typed, WriterInv, PutForce
    PROVE  Typed'
<1> USE DEF shared
<1>t. /\ PutTyped /\ rd \in Word /\ wr \in Word /\ put.reg \in Word
      /\ pool \in [0..(Size - 1) -> 0..MaxBytes] /\ raced \in BOOLEAN
  BY DEF Typed, PutTyped
<1>i. rd.i \in Int /\ wr.i \in Int /\ Size \in Int
  BY <1>t, Words, Indices, SizeNat
<1>s. Flip(wr.m) \in {0, 1} /\ Flip(put.reg.m) \in {0, 1}
  BY <1>t, Words DEF Flip
<1>1. CASE PutStatus
  <2>1. PutTyped' /\ put'.n = put.n
    BY <1>1, <1>t, PutGoesFields DEF PutStatus
  <2> QED
    BY <1>1, <1>t, <2>1, PutKeepsTyped DEF PutStatus
<1>2. CASE PutMirror
  <2>1. (IF rd.m = wr.m THEN 0 ELSE Size) \in Int
    BY <1>i
  <2>2. PutTyped' /\ put'.n = put.n
    BY <1>2, <1>t, <2>1, PutMeasuredFields DEF PutMirror
  <2> QED
    BY <1>2, <1>t, <2>2, PutKeepsTyped DEF PutMirror
<1>3. CASE PutCompare
  <2>1. Around(rd.i, wr.i) \in Int
    BY <1>i DEF Around
  <2>2. PutTyped' /\ put'.n = put.n
    BY <1>3, <1>t, <2>1, PutMeasuredFields, PutGoesFields DEF PutCompare
  <2> QED
    BY <1>3, <1>t, <2>2, PutKeepsTyped DEF PutCompare
<1>4. CASE PutSubtract
  <2>1. Ahead(rd.i, wr.i) \in Int
    BY <1>i DEF Ahead
  <2>2. PutTyped' /\ put'.n = put.n
    BY <1>4, <1>t, <2>1, PutMeasuredFields DEF PutSubtract
  <2> QED
    BY <1>4, <1>t, <2>2, PutKeepsTyped DEF PutSubtract
<1>5. CASE PutMemcpy
  <2> DEFINE offset(k) == IF k >= wr.i THEN k - wr.i ELSE Size - wr.i + k
  <2>1. PutTyped' /\ put'.n = put.n
    BY <1>5, <1>t, PutGoesFields DEF PutMemcpy
  <2>2. put.n \in Nat /\ put.n <= sent /\ CountsTyped
    BY MaxBlockAssumption DEF Typed, PutTyped, CountsTyped
  <2>3. ASSUME NEW k \in 0..(Size - 1)
        PROVE  offset(k) \in Nat
    BY <1>i, SizeNat DEF WriterInv
  <2>4. ASSUME NEW k \in 0..(Size - 1)
        PROVE  (IF offset(k) < put.n THEN sent - put.n + 1 + offset(k) ELSE pool[k])
                 \in 0..MaxBytes
    <3>1. CASE offset(k) < put.n
      <4> HIDE DEF offset
      <4> QED
        BY <2>2, <2>3, <3>1, BlockBytes
    <3>2. CASE ~(offset(k) < put.n)
      <4> HIDE DEF offset
      <4> QED
        BY <1>t, <3>2
    <3> QED
      BY <3>1, <3>2
  <2>5. pool' = [k \in 0..(Size - 1) |->
                   IF offset(k) < put.n THEN sent - put.n + 1 + offset(k) ELSE pool[k]]
    BY <1>5 DEF PutMemcpy
  <2>6. pool' \in [0..(Size - 1) -> 0..MaxBytes]
    <3> HIDE DEF offset
    <3> QED
      BY <2>4, <2>5
  <2> HIDE DEF offset
  <2>7. rd' = rd /\ wr' = wr /\ get' = get /\ sent' = sent /\ delivered' = delivered
        /\ raced' \in BOOLEAN
    BY <1>5 DEF PutMemcpy
  <2> QED
    BY <1>t, <2>1, <2>6, <2>7, PutKeepsTyped
<1>6. CASE PutPublish
  <2>1. PutTyped' /\ put'.n = put.n
    BY <1>6, <1>t, PutGoesFields DEF PutPublish
  <2>2. wr.i + put.n \in 0..Size
    BY <1>6, SizeNat, MaxBlockAssumption DEF WriterInv, PutPublish
  <2>3. wr' \in Word
    BY <1>6, <1>t, <2>2, Words, WordStores, MakeWord, Indices DEF PutPublish
  <2> QED
    BY <1>6, <1>t, <2>1, <2>3, PutKeepsTyped DEF PutPublish
<1>7. CASE PutWrapMirror
  <2>1. PutTyped' /\ put'.n = put.n
    BY <1>7, <1>t, PutGoesFields DEF PutWrapMirror
  <2>2. wr' \in Word
    BY <1>7, <1>t, <1>s, Words, WordStores, MakeWord DEF PutWrapMirror
  <2> QED
    BY <1>7, <1>t, <2>1, <2>2, PutKeepsTyped DEF PutWrapMirror
<1>8. CASE PutWrapIndex
  <2>1. PutTyped' /\ put'.n = put.n
    BY <1>8, <1>t, PutGoesFields DEF PutWrapIndex
  <2>2. put.n - (Size - wr.i) \in 0..Size
    BY <1>8, SizeNat, MaxBlockAssumption DEF WriterInv, PutWrapIndex
  <2>3. wr' \in Word
    BY <1>8, <1>t, <2>2, Words, WordStores, MakeWord, Indices DEF PutWrapIndex
  <2> QED
    BY <1>8, <1>t, <2>1, <2>3, PutKeepsTyped DEF PutWrapIndex
<1>9. CASE PutDragMirror \/ PutDragIndex
  <2>1. PutTyped' /\ put'.n = put.n
    BY <1>9, <1>t, PutLoadFields DEF PutDragMirror, PutDragIndex
  <2> QED
    BY <1>9, <1>t, <2>1, PutKeepsTyped DEF PutDragMirror, PutDragIndex, PutLoad
<1>10. CASE PutDragMirrorStore
  <2>1. PutTyped' /\ put'.n = put.n
    BY <1>10, <1>t, PutGoesFields DEF PutDragMirrorStore
  <2>2. rd' \in Word
    BY <1>10, <1>t, <1>s, Words, WordStores, MakeWord DEF PutDragMirrorStore
  <2> QED
    BY <1>10, <1>t, <2>1, <2>2, PutKeepsTyped DEF PutDragMirrorStore
<1>11. CASE PutDragIndexStore
  <2>1. PutTyped' /\ put'.n = put.n
    BY <1>11, <1>t, PutGoesFields DEF PutDragIndexStore
  <2>2. rd' \in Word
    BY <1>11, <1>t, Words, WordStores, MakeWord DEF PutDragIndexStore
  <2> QED
    BY <1>11, <1>t, <2>1, <2>2, PutKeepsTyped DEF PutDragIndexStore
<1> QED
  BY <1>1, <1>2, <1>3, <1>4, <1>5, <1>6, <1>7, <1>8, <1>9, <1>10, <1>11 DEF PutForce

LEMMA TakeCharTyped ==
    ASSUME Typed, WriterInv, TakeChar
    PROVE  Typed'
<1> USE DEF shared
<1>t. /\ GetTyped /\ CountsTyped /\ rd \in Word /\ wr \in Word /\ get.reg \in Word
      /\ pool \in [0..(Size - 1) -> 0..MaxBytes] /\ raced \in BOOLEAN
  BY DEF Typed, GetTyped
<1>i. rd.i \in Int /\ rd.i >= 0 /\ wr.i \in Int /\ Size \in Int
  BY <1>t, Words, Indices, SizeNat
<1>w. wr' = wr /\ put' = put
  BY ReaderLeavesWriter
<1>c. sent' = sent /\ delivered' = delivered => CountsTyped'
  BY <1>t, <1>w DEF CountsTyped
<1>1. CASE GetStatus
  <2>1. GetTyped'
    BY <1>1, <1>t, GetGoesFields DEF GetStatus
  <2> QED
    BY <1>1, <1>t, <1>w, <1>c, <2>1, GetKeepsTyped DEF GetStatus
<1>2. CASE GetMirror
  <2>1. (IF rd.m = wr.m THEN 0 ELSE Size) \in Int
    BY <1>i
  <2>2. GetTyped'
    BY <1>2, <1>t, <2>1, GetMeasuredFields DEF GetMirror
  <2> QED
    BY <1>2, <1>t, <1>w, <1>c, <2>2, GetKeepsTyped DEF GetMirror
<1>3. CASE GetCompare
  <2>1. Around(rd.i, wr.i) \in Int
    BY <1>i DEF Around
  <2>2. GetTyped'
    BY <1>3, <1>t, <2>1, GetMeasuredFields, GetGoesFields DEF GetCompare
  <2> QED
    BY <1>3, <1>t, <1>w, <1>c, <2>2, GetKeepsTyped DEF GetCompare
<1>4. CASE GetSubtract
  <2>1. Ahead(rd.i, wr.i) \in Int
    BY <1>i DEF Ahead
  <2>2. GetTyped'
    BY <1>4, <1>t, <2>1, GetMeasuredFields DEF GetSubtract
  <2> QED
    BY <1>4, <1>t, <1>w, <1>c, <2>2, GetKeepsTyped DEF GetSubtract
<1>5. CASE GetFetch
  <2> DEFINE d == IF rd.i < Size THEN pool[rd.i] ELSE 0
  <2>1. d \in 0..MaxBytes
    <3>1. CASE rd.i < Size
      <4>1. rd.i \in 0..(Size - 1)
        BY <1>i, <3>1
      <4> QED
        BY <1>t, <3>1, <4>1
    <3>2. CASE ~(rd.i < Size)
      BY <3>2, BoundsAssumption
    <3> QED
      BY <3>1, <3>2
  <2> HIDE DEF d
  <2>2. get' = [get EXCEPT !.pc = "atEnd", !.dat = d]
    BY <1>5 DEF GetFetch, d
  <2>3. GetTyped'
    BY <1>t, <2>1, <2>2 DEF GetTyped
  <2> QED
    BY <1>5, <1>t, <1>w, <1>c, <2>3, GetKeepsTyped DEF GetFetch
<1>6. CASE GetAtEnd
  <2>1. GetTyped'
    BY <1>6, <1>t, GetGoesFields DEF GetAtEnd
  <2> QED
    BY <1>6, <1>t, <1>w, <1>c, <2>1, GetKeepsTyped DEF GetAtEnd
<1>7. CASE GetFlip \/ GetZero \/ GetInc
  <2>1. GetTyped'
    BY <1>7, <1>t, GetLoadFields DEF GetFlip, GetZero, GetInc
  <2> QED
    BY <1>7, <1>t, <1>w, <1>c, <2>1, GetKeepsTyped
    DEF GetFlip, GetZero, GetInc, GetLoad
<1>8. ASSUME NEW from, NEW to, NEW word \in Word, GetStore(from, word, to)
      PROVE  Typed'
  <2>1. GetTyped'
    BY <1>8, <1>t, GetGoesFields DEF GetStore
  <2> QED
    BY <1>8, <1>t, <1>w, <1>c, <2>1, GetKeepsTyped DEF GetStore
<1>9. CASE GetFlipStore
  <2>1. [get.reg EXCEPT !.m = Flip(get.reg.m)] \in Word
    <3>1. Flip(get.reg.m) \in {0, 1}
      BY <1>t, Words DEF Flip
    <3> QED
      BY <1>t, <3>1, Words, WordStores, MakeWord
  <2> QED
    BY <1>8, <1>9, <2>1 DEF GetFlipStore
<1>10. CASE GetZeroStore
  <2>1. 0 \in Index
    BY SmallIndex
  <2>2. [get.reg EXCEPT !.i = 0] \in Word
    BY <1>t, <2>1, Words, WordStores, MakeWord
  <2> QED
    BY <1>8, <1>10, <2>2 DEF GetZeroStore
<1>11. CASE GetIncStore
  <2>1. get.reg.i + 1 \in Nat
    BY <1>t, Words, Indices
  <2>2. (get.reg.i + 1) % 32768 \in Index
    BY <2>1, WrappedIndex
  <2>3. [get.reg EXCEPT !.i = (get.reg.i + 1) % 32768] \in Word
    BY <1>t, <2>2, Words, WordStores, MakeWord
  <2> QED
    BY <1>8, <1>11, <2>3 DEF GetIncStore
<1>12. CASE GetUse
  <2>1. GetTyped'
    BY <1>12, <1>t DEF GetUse, GetTyped
  <2>2. CountsTyped'
    <3>1. /\ delivered \in Seq(0..MaxBytes) /\ get.dat \in 0..MaxBytes
          /\ delivered' = Append(delivered, get.dat) /\ Len(delivered) < MaxDelivered
      BY <1>12, <1>t DEF GetUse, GetTyped, CountsTyped
    <3>2. /\ delivered' \in Seq(0..MaxBytes)
          /\ Len(delivered') = Len(delivered) + 1 /\ Len(delivered) \in Nat
      BY <3>1, AppendProperties, LenProperties
    <3>3. Len(delivered') <= MaxDelivered
      BY <3>1, <3>2, BoundsAssumption
    <3>4. sent' = sent /\ put'.n = put.n
      BY <1>12, <1>w DEF GetUse
    <3> QED
      BY <1>t, <3>2, <3>3, <3>4 DEF CountsTyped
  <2> QED
    BY <1>12, <1>t, <1>w, <2>1, <2>2, GetKeepsTyped DEF GetUse
<1> QED
  BY <1>1, <1>2, <1>3, <1>4, <1>5, <1>6, <1>7, <1>9, <1>10, <1>11, <1>12 DEF TakeChar

LEMMA RecvTyped ==
    ASSUME Typed, NEW n \in 1..MaxBlock, Recv(n)
    PROVE  Typed'
<1>1. /\ n \in 0..MaxBlock /\ n \in Nat /\ PutTyped /\ CountsTyped
      /\ sent \in Nat /\ sent + n <= MaxBytes /\ sent' = sent + n
      /\ get' = get /\ delivered' = delivered /\ rd' = rd /\ wr' = wr
      /\ pool' = pool /\ raced' = raced
  BY MaxBlockAssumption, SizeNat, BoundsAssumption
  DEF Recv, Typed, CountsTyped, shared
<1>2. put' = [pc |-> "status", n |-> n, len |-> put.len, reg |-> put.reg]
  BY <1>1 DEF PutTyped, Recv
<1>3. PutTyped' /\ put'.n = n
  BY <1>1, <1>2 DEF PutTyped
<1>4. sent' \in 0..MaxBytes /\ n <= sent'
  BY <1>1, BoundsAssumption
<1>5. CountsTyped'
  BY <1>1, <1>3, <1>4 DEF CountsTyped
<1> QED
  BY <1>1, <1>3, <1>5 DEF Typed, GetTyped

LEMMA StepTyped ==
    ASSUME Typed, WriterInv, [Next]_vars
    PROVE  Typed'
<1>1. CASE UNCHANGED vars
  BY <1>1 DEF vars, shared, Typed, PutTyped, GetTyped, CountsTyped
<1> QED
  BY <1>1, RecvTyped, PutForceTyped, TakeCharTyped DEF Next

LEMMA InitTyped == Init => Typed
<1> SUFFICES ASSUME Init
             PROVE  Typed
    OBVIOUS
<1>1. 0 \in 0..MaxBytes /\ 0 \in 0..MaxBlock /\ 0 <= MaxDelivered
  BY BoundsAssumption, MaxBlockAssumption, SizeNat
<1>2. rd \in Word /\ wr \in Word
  BY SmallIndex, MakeWord DEF Init
<1>3. /\ put = [pc |-> "recv", n |-> 0, len |-> 0, reg |-> rd]
      /\ get = [pc |-> "status", inGetchar |-> FALSE, dat |-> 0, reg |-> rd]
  BY DEF Init
<1>4. PutTyped /\ GetTyped /\ put.n = 0
  BY <1>1, <1>2, <1>3 DEF PutTyped, GetTyped
<1>5. delivered \in Seq(0..MaxBytes) /\ Len(delivered) = 0
  BY DEF Init
<1>6. CountsTyped
  BY <1>1, <1>4, <1>5 DEF CountsTyped, Init
<1>7. pool \in [0..(Size - 1) -> 0..MaxBytes]
  BY <1>1 DEF Init
<1> QED
  BY <1>2, <1>4, <1>6, <1>7 DEF Typed, Init

\* No interleaving, raced or not, takes a word of the buffer, a byte or a count
\* out of its range.
THEOREM RingWordsTyped == Spec => []TypeOK
<1>1. Init => Typed /\ WriterInv
  BY InitTyped, WriterInit
<1>2. Typed /\ WriterInv /\ [Next]_vars => (Typed /\ WriterInv)'
  BY StepTyped, WriterNext
<1>3. Typed => TypeOK
  BY DEF Typed, PutTyped, GetTyped, CountsTyped, TypeOK
<1> QED
  BY <1>1, <1>2, <1>3, PTL DEF Spec
-----------------------------------------------------------------------------
(* Away from the windows *)

\* The number of bytes in the pool, of bytes the write word shows, and of bytes
\* the read word has left behind.
Stored ==
    IF put.pc \in {"status", "mirror", "compare", "subtract", "memcpy"}
    THEN sent - put.n ELSE sent
Published == IF put.pc = "recv" THEN sent ELSE sent - put.n
Taken == IF get.pc = "use" THEN Len(delivered) + 1 ELSE Len(delivered)
Held == Published - Taken

\* The mirrors as they were before a half-done step over the end of the pool.
WriterMirror == IF HalfPublished THEN Flip(wr.m) ELSE wr.m
ReaderMirror == IF HalfTaken THEN Flip(rd.m) ELSE rd.m

\* The two words are as far apart as there are bytes between them.
Apart ==
    /\ Taken <= Published /\ Stored <= Taken + Size
    /\ IF ReaderMirror = WriterMirror
       THEN wr.i = rd.i + Held ELSE wr.i = rd.i + Held - Size

\* From read_index on the pool holds the bytes stored and not yet taken.
InSlots ==
    \A k \in 0..(Size - 1) :
        /\ k >= rd.i /\ k - rd.i < Stored - Taken => pool[k] = Taken + 1 + k - rd.i
        /\ k < rd.i /\ Size + k - rd.i < Stored - Taken
              => pool[k] = Taken + 1 + Size + k - rd.i

\* What the writer has found out so far still holds, or errs towards a buffer
\* fuller than it is.
WriterKnows ==
    /\ ~Dragging /\ put.pc # "dragMirror"
    /\ put.pc # "recv" => put.n >= 1
    /\ put.pc = "mirror" => rd.i = wr.i
    /\ put.pc = "compare" => rd.i # wr.i
    /\ put.pc = "subtract" => wr.i > rd.i
    /\ put.pc = "memcpy" => Held <= put.len /\ put.len <= Size
    /\ put.pc \in {"publish", "wrapMirror", "wrapIndex"} => ~Overruns(put.n, put.len)

\* So does what the reader has.
ReaderKnows ==
    /\ get.pc = "status" /\ get.inGetchar => Held >= 1
    /\ get.pc = "mirror" /\ get.inGetchar => Held = Size
    /\ get.pc \in {"compare", "subtract", "fetch", "atEnd", "flip", "flipStore",
                   "zero", "zeroStore", "inc", "incStore"} => Held >= 1
    /\ get.pc = "subtract" => wr.i > rd.i
    /\ get.pc \in {"atEnd", "flip", "flipStore", "zero", "zeroStore", "inc",
                   "incStore", "use"} => get.dat = Len(delivered) + 1
    /\ get.pc \in {"flip", "flipStore", "zero", "zeroStore"} => rd.i = Size - 1
    /\ get.pc \in {"inc", "incStore"} => rd.i # Size - 1
    /\ get.pc \in {"flipStore", "zeroStore", "incStore"} => get.reg = rd

InOrder == \A k \in 1..Len(delivered) : delivered[k] = k

Unraced ==
    /\ rd.i < Size
    /\ Apart /\ InSlots /\ WriterKnows /\ ReaderKnows
    /\ InOrder

\* The numbers the invariant relates, with their types.
LEMMA Numbers ==
    ASSUME Typed, WriterInv
    PROVE  /\ Size \in Int /\ Size >= 1
           /\ rd.i \in Int /\ rd.i >= 0
           /\ wr.i \in Int /\ wr.i >= 0 /\ wr.i < Size
           /\ rd.m \in {0, 1} /\ wr.m \in {0, 1}
           /\ put.n \in Int /\ put.n >= 0 /\ put.n <= Size /\ put.len \in Int
           /\ sent \in Int /\ put.n <= sent
           /\ Len(delivered) \in Int /\ Len(delivered) >= 0
<1>1. /\ rd \in Word /\ wr \in Word /\ put.n \in 0..MaxBlock /\ put.len \in Int
      /\ sent \in 0..MaxBytes /\ put.n <= sent /\ delivered \in Seq(0..MaxBytes)
  BY DEF Typed, PutTyped, CountsTyped
<1>2. Len(delivered) \in Nat
  BY <1>1, LenProperties
<1>3. rd.i \in Index /\ wr.i \in 0..(Size - 1) /\ rd.m \in {0, 1} /\ wr.m \in {0, 1}
  BY <1>1, Words DEF WriterInv
<1> QED
  BY <1>1, <1>2, <1>3, Indices, SizeNat, MaxBlockAssumption, BoundsAssumption

\* While neither word nor count changes, the bytes stay where they are.
LEMMA ApartStays ==
    ASSUME Apart, Stored' = Stored, Published' = Published, Taken' = Taken,
           ReaderMirror' = ReaderMirror, WriterMirror' = WriterMirror,
           rd'.i = rd.i, wr'.i = wr.i
    PROVE  Apart' /\ Held' = Held
  BY DEF Apart, Held

LEMMA InSlotsStay ==
    ASSUME InSlots, Stored' = Stored, Taken' = Taken, rd'.i = rd.i, pool' = pool
    PROVE  InSlots'
  BY DEF InSlots

\* What the reader knows, if the writer only looks.
LEMMA ReaderStillKnows ==
    ASSUME ReaderKnows, get' = get, delivered' = delivered, rd' = rd,
           wr'.i = wr.i, Held' = Held
    PROVE  ReaderKnows'
  BY DEF ReaderKnows

LEMMA WriterStillKnows ==
    ASSUME WriterKnows, put' = put, rd'.i = rd.i, wr' = wr, Held' = Held
    PROVE  WriterKnows'
  BY DEF WriterKnows, Dragging

\* A step of put_force that only loads.
LEMMA WriterLooks ==
    ASSUME Unraced, put.pc \in {"status", "mirror", "compare", "subtract"},
           put'.pc \in {"mirror", "compare", "subtract", "memcpy"},
           put'.n = put.n, rd' = rd, wr' = wr, pool' = pool, get' = get,
           sent' = sent, delivered' = delivered, WriterKnows'
    PROVE  Unraced'
<1>1. /\ Stored' = Stored /\ Published' = Published /\ Taken' = Taken
      /\ ReaderMirror' = ReaderMirror /\ WriterMirror' = WriterMirror
      /\ rd'.i = rd.i /\ wr'.i = wr.i
  BY DEF Stored, Published, Taken, ReaderMirror, WriterMirror, HalfTaken,
         HalfPublished
<1>2. Apart' /\ Held' = Held
  BY <1>1, ApartStays DEF Unraced
<1>3. InSlots' /\ ReaderKnows'
  BY <1>1, <1>2, InSlotsStay, ReaderStillKnows DEF Unraced
<1> QED
  BY <1>1, <1>2, <1>3 DEF Unraced, InOrder

\* A step of the reader that stores nothing and hands out nothing.
LEMMA ReaderLooks ==
    ASSUME Unraced, get.pc # "use", get'.pc # "use", HalfTaken' = HalfTaken,
           rd' = rd, wr' = wr, pool' = pool, put' = put,
           sent' = sent, delivered' = delivered,
           Held' = Held => ReaderKnows'
    PROVE  Unraced'
<1>1. /\ Stored' = Stored /\ Published' = Published /\ Taken' = Taken
      /\ ReaderMirror' = ReaderMirror /\ WriterMirror' = WriterMirror
      /\ rd'.i = rd.i /\ wr'.i = wr.i
  BY DEF Stored, Published, Taken, ReaderMirror, WriterMirror, HalfPublished
<1>2. Apart' /\ Held' = Held
  BY <1>1, ApartStays DEF Unraced
<1>3. InSlots' /\ WriterKnows'
  BY <1>1, <1>2, InSlotsStay, WriterStillKnows DEF Unraced
<1> QED
  BY <1>1, <1>2, <1>3 DEF Unraced, InOrder

\* Without overrun the comparison put_force makes is one of plain numbers.
LEMMA NoOverrun ==
    ASSUME NEW n \in Int, NEW len \in Int, len <= Size, 0 <= len, ~Overruns(n, len)
    PROVE  n <= Size - len
<1>1. Size - len \in Nat /\ Size - len < 32768
  <2>1. Size \in Nat /\ Size < 32768
    BY SizeAssumption
  <2> QED
    BY <2>1
<1> DEFINE x == Size - len
<1>2. x \in Nat /\ x < 32768
  BY <1>1
<1> HIDE DEF x
<1>3. x % 65536 = x
  BY <1>2
<1>4. ~(n > x % 65536)
  BY DEF Overruns, x
<1> QED
  BY <1>2, <1>3, <1>4 DEF x

LEMMA RecvUnraced ==
    ASSUME Typed, WriterInv, Unraced, NEW n \in 1..MaxBlock, Recv(n)
    PROVE  Unraced'
<1>1. /\ put' = [pc |-> "status", n |-> n, len |-> put.len, reg |-> put.reg]
      /\ put.pc = "recv"
      /\ rd' = rd /\ wr' = wr /\ pool' = pool /\ get' = get
      /\ sent' = sent + n /\ delivered' = delivered
  BY DEF Typed, PutTyped, Recv, shared
<1>2. n \in Int /\ n >= 1 /\ sent \in Int
  BY MaxBlockAssumption, SizeNat, Numbers
<1>3. /\ Stored' = Stored /\ Published' = Published /\ Taken' = Taken
      /\ ReaderMirror' = ReaderMirror /\ WriterMirror' = WriterMirror
      /\ rd'.i = rd.i /\ wr'.i = wr.i
  BY <1>1, <1>2 DEF Stored, Published, Taken, ReaderMirror, WriterMirror,
     HalfTaken, HalfPublished
<1>4. Apart' /\ Held' = Held
  BY <1>3, ApartStays DEF Unraced
<1>5. InSlots' /\ ReaderKnows'
  BY <1>1, <1>3, <1>4, InSlotsStay, ReaderStillKnows DEF Unraced
<1>6. WriterKnows'
  BY <1>1, <1>2 DEF WriterKnows, Dragging
<1> QED
  BY <1>1, <1>4, <1>5, <1>6 DEF Unraced, InOrder

LEMMA HeldBounds ==
    ASSUME Typed, WriterInv, Unraced
    PROVE  /\ Held \in Int /\ Held >= 0 /\ Held <= Size
           /\ (wr.i = rd.i + Held \/ wr.i = rd.i + Held - Size)
           /\ rd.i < Size
<1>1. /\ Taken <= Published /\ Stored <= Taken + Size
      /\ (wr.i = rd.i + Held \/ wr.i = rd.i + Held - Size)
      /\ rd.i < Size
  BY DEF Unraced, Apart
<1>2. /\ sent \in Int /\ put.n \in Int /\ put.n >= 0 /\ Len(delivered) \in Int
      /\ Size \in Int
  BY Numbers
<1>3. /\ Stored \in Int /\ Published \in Int /\ Taken \in Int
      /\ Published <= Stored
  BY <1>2 DEF Stored, Published, Taken
<1>4. Held \in Int /\ Held >= 0 /\ Held <= Size
  BY <1>1, <1>2, <1>3 DEF Held
<1> QED
  BY <1>1, <1>4

\* With no step over the end of the pool half done, the mirrors tell a full
\* buffer from an empty one.
LEMMA Measured ==
    ASSUME Typed, WriterInv, Unraced, ~HalfPublished, ~HalfTaken
    PROVE  /\ rd.m = wr.m => wr.i = rd.i + Held
           /\ rd.m # wr.m => wr.i = rd.i + Held - Size
<1>1. rd.m = wr.m <=> ReaderMirror = WriterMirror
  BY DEF ReaderMirror, WriterMirror
<1> QED
  BY <1>1 DEF Unraced, Apart

LEMMA PutLooksUnraced ==
    ASSUME Typed, WriterInv, Unraced, ~raced',
           PutStatus \/ PutMirror \/ PutCompare \/ PutSubtract
    PROVE  Unraced'
<1>1. /\ PutTyped /\ rd' = rd /\ wr' = wr /\ pool' = pool /\ get' = get
      /\ sent' = sent /\ delivered' = delivered
  BY DEF Typed, PutStatus, PutMirror, PutCompare, PutSubtract, shared
<1>2. put.n >= 1
  BY DEF Unraced, WriterKnows, PutStatus, PutMirror, PutCompare, PutSubtract
<1>3. /\ Held \in Int /\ Held >= 0 /\ Held <= Size
      /\ Size \in Int /\ wr.i \in Int /\ rd.i \in Int /\ wr.i < Size /\ wr.i >= 0
      /\ rd.i >= 0 /\ rd.i < Size
      /\ (wr.i = rd.i + Held \/ wr.i = rd.i + Held - Size)
  BY Numbers, HeldBounds
<1>4. ASSUME put'.pc \in {"mirror", "compare", "subtract", "memcpy"}, put'.n = put.n,
             put'.pc = "mirror" => rd.i = wr.i,
             put'.pc = "compare" => rd.i # wr.i,
             put'.pc = "subtract" => wr.i > rd.i,
             put'.pc = "memcpy" => Held <= put'.len /\ put'.len <= Size
      PROVE  Unraced'
  <2>1. put.pc \in {"status", "mirror", "compare", "subtract"}
    BY DEF PutStatus, PutMirror, PutCompare, PutSubtract
  <2>2. Held' = Held
    BY <1>1, <1>4, <2>1 DEF Held, Published, Taken
  <2>3. WriterKnows'
    BY <1>1, <1>2, <1>4, <2>2 DEF WriterKnows, Dragging
  <2> QED
    BY <1>1, <1>4, <2>1, <2>3, WriterLooks
<1>5. CASE PutStatus
  <2>1. /\ put'.n = put.n
        /\ put'.pc = IF rd.i = wr.i THEN "mirror" ELSE "compare"
    BY <1>1, <1>5, PutGoesFields DEF PutStatus
  <2> QED
    BY <1>4, <2>1
<1>6. CASE PutMirror
  <2> DEFINE len == IF rd.m = wr.m THEN 0 ELSE Size
  <2>1. len \in Int
    BY <1>3
  <2>2. put'.n = put.n /\ put'.pc = "memcpy" /\ put'.len = len
    BY <1>1, <1>6, <2>1, PutMeasuredFields DEF PutMirror
  <2>3. ~HalfTaken /\ ~HalfPublished /\ rd.i = wr.i
    BY <1>6 DEF PutMirror, HalfPublished, Unraced, WriterKnows
  <2>4. Held <= len /\ len <= Size
    BY <1>3, <2>3, Measured
  <2> HIDE DEF len
  <2> QED
    BY <1>4, <2>2, <2>4
<1>7. CASE PutCompare
  <2>1. CASE wr.i > rd.i
    <3>1. put'.n = put.n /\ put'.pc = "subtract"
      BY <1>1, <1>7, <2>1, PutGoesFields DEF PutCompare
    <3> QED
      BY <1>4, <2>1, <3>1
  <2>2. CASE ~(wr.i > rd.i)
    <3>1. Around(rd.i, wr.i) \in Int
      BY <1>3 DEF Around
    <3>2. put'.n = put.n /\ put'.pc = "memcpy" /\ put'.len = Around(rd.i, wr.i)
      BY <1>1, <1>7, <2>2, <3>1, PutMeasuredFields DEF PutCompare
    <3>3. rd.i # wr.i
      BY <1>7 DEF PutCompare, Unraced, WriterKnows
    <3>4. Held <= Around(rd.i, wr.i) /\ Around(rd.i, wr.i) <= Size
      BY <1>3, <2>2, <3>3 DEF Around
    <3> QED
      BY <1>4, <3>2, <3>4
  <2> QED
    BY <2>1, <2>2
<1>8. CASE PutSubtract
  <2>1. wr.i > rd.i
    BY <1>8 DEF PutSubtract, Unraced, WriterKnows
  <2>2. Ahead(rd.i, wr.i) \in Int /\ Held <= Ahead(rd.i, wr.i)
        /\ Ahead(rd.i, wr.i) <= Size
    BY <1>3, <2>1 DEF Ahead
  <2>3. put'.n = put.n /\ put'.pc = "memcpy" /\ put'.len = Ahead(rd.i, wr.i)
    BY <1>1, <1>8, <2>2, PutMeasuredFields DEF PutSubtract
  <2> QED
    BY <1>4, <2>2, <2>3
<1> QED
  BY <1>5, <1>6, <1>7, <1>8

\* The numbers of an undisturbed state, with their types.
LEMMA Amounts ==
    ASSUME Typed, WriterInv, Unraced
    PROVE  /\ Stored \in Int /\ Published \in Int /\ Taken \in Int
           /\ Taken >= 0 /\ Taken <= Published /\ Published <= Stored
           /\ Stored <= Taken + Size
           /\ Published = Taken + Held
<1>1. /\ sent \in Int /\ put.n \in Int /\ put.n >= 0 /\ Len(delivered) \in Int
      /\ Len(delivered) >= 0
  BY Numbers
<1>2. /\ Stored \in Int /\ Published \in Int /\ Taken \in Int
      /\ Published <= Stored /\ Taken >= 0
  BY <1>1 DEF Stored, Published, Taken
<1> QED
  BY <1>2 DEF Unraced, Apart, Held

\* Where a slot lies from the read index on, where from the write index on.
LEMMA SlotOffsets ==
    ASSUME NEW S \in Int, NEW r \in Int, NEW w \in Int, NEW h \in Int, NEW k \in Int,
           NEW n \in Int, S >= 1, 0 <= r, r < S, 0 <= w, w < S, 0 <= k, k < S,
           0 <= h, 0 <= n, h + n <= S, w = r + h \/ w = r + h - S,
           NEW x, x = IF k >= r THEN k - r ELSE S + k - r,
           NEW y, y = IF k >= w THEN k - w ELSE S - w + k,
           x < h + n
    PROVE  /\ x < h => ~(y < n)
           /\ ~(x < h) => y = x - h /\ y < n
  OBVIOUS

LEMMA MemcpyUnraced ==
    ASSUME Typed, WriterInv, Unraced, ~raced', PutMemcpy
    PROVE  Unraced'
<1> DEFINE x(k) == IF k >= rd.i THEN k - rd.i ELSE Size + k - rd.i
           y(k) == IF k >= wr.i THEN k - wr.i ELSE Size - wr.i + k
<1>1. /\ PutTyped /\ rd' = rd /\ wr' = wr /\ get' = get
      /\ sent' = sent /\ delivered' = delivered /\ put.pc = "memcpy"
      /\ ~Overruns(put.n, put.len)
      /\ pool' = [k \in 0..(Size - 1) |->
                    IF y(k) < put.n THEN sent - put.n + 1 + y(k) ELSE pool[k]]
  BY DEF Typed, PutMemcpy
<1>2. put'.n = put.n /\ put'.len = put.len /\ put'.pc \in {"wrapMirror", "publish"}
  BY <1>1, PutGoesFields DEF PutMemcpy
<1>3. put.n >= 1 /\ Held <= put.len /\ put.len <= Size
  BY <1>1 DEF Unraced, WriterKnows
<1>4. put.n + Held <= Size /\ put.n \in Int /\ put.n >= 0
  <2>1. put.n \in Int /\ put.len \in Int /\ Held \in Int /\ Held >= 0 /\ Size \in Int
    BY Numbers, HeldBounds
  <2>2. put.n <= Size - put.len
    BY <1>1, <1>3, <2>1, NoOverrun
  <2> QED
    BY <1>3, <2>1, <2>2
<1>5. /\ Published' = Published /\ Taken' = Taken /\ Held' = Held
      /\ ReaderMirror' = ReaderMirror /\ WriterMirror' = WriterMirror
      /\ rd'.i = rd.i /\ wr'.i = wr.i
  BY <1>1, <1>2 DEF Published, Taken, Held, ReaderMirror, WriterMirror,
     HalfTaken, HalfPublished
<1>6. Stored' = sent /\ Published = sent - put.n /\ sent \in Int
  BY <1>1, <1>2, Numbers DEF Stored, Published
<1>7. Stored' - Taken = Held + put.n
  BY <1>4, <1>6, Amounts, HeldBounds
<1>8. Apart'
  <2>1. Stored' <= Taken + Size
    BY <1>4, <1>6, <1>7, Amounts, HeldBounds, Numbers
  <2> QED
    BY <1>5, <2>1 DEF Apart, Unraced
<1>9. ReaderKnows'
  BY <1>1, <1>5, ReaderStillKnows DEF Unraced
<1>10. WriterKnows'
  BY <1>1, <1>2, <1>3 DEF WriterKnows, Dragging
<1>11. ASSUME NEW k \in 0..(Size - 1), x(k) < Held + put.n
       PROVE  pool'[k] = Taken + 1 + x(k)
  <2>1. /\ Size \in Int /\ Size >= 1 /\ rd.i \in Int /\ 0 <= rd.i /\ rd.i < Size
        /\ wr.i \in Int /\ 0 <= wr.i /\ wr.i < Size /\ Held \in Int /\ 0 <= Held
        /\ Held + put.n <= Size /\ (wr.i = rd.i + Held \/ wr.i = rd.i + Held - Size)
    BY <1>4, Numbers, HeldBounds
  <2>2. k \in Int /\ 0 <= k /\ k < Size
    BY <2>1
  <2>3. /\ x(k) < Held => ~(y(k) < put.n)
        /\ ~(x(k) < Held) => y(k) = x(k) - Held /\ y(k) < put.n
    BY <1>4, <1>11, <2>1, <2>2, SlotOffsets
  <2>4. pool'[k] = IF y(k) < put.n THEN sent - put.n + 1 + y(k) ELSE pool[k]
    BY <1>1
  <2>5. CASE x(k) < Held
    <3>1. pool'[k] = pool[k]
      BY <2>3, <2>4, <2>5
    <3>2. Stored - Taken = Held
      <4>1. Stored = Published
        BY <1>1 DEF Stored, Published
      <4>2. /\ Published \in Int /\ Taken \in Int /\ Held \in Int
            /\ Published = Taken + Held
        BY Amounts, HeldBounds
      <4> QED
        BY <4>1, <4>2
    <3>3. /\ k >= rd.i /\ k - rd.i < Held => pool[k] = Taken + 1 + k - rd.i
          /\ k < rd.i /\ Size + k - rd.i < Held
                => pool[k] = Taken + 1 + Size + k - rd.i
      BY <3>2 DEF InSlots, Unraced
    <3>4. Taken \in Int
      BY Amounts
    <3>5. pool[k] = Taken + 1 + x(k)
      BY <2>1, <2>2, <2>5, <3>3, <3>4
    <3> QED
      BY <3>1, <3>5
  <2>6. CASE ~(x(k) < Held)
    <3>1. pool'[k] = sent - put.n + 1 + y(k) /\ y(k) = x(k) - Held
      BY <2>3, <2>4, <2>6
    <3>2. sent - put.n = Taken + Held /\ Taken \in Int
      BY <1>6, Amounts
    <3>3. x(k) \in Int
      BY <2>1, <2>2
    <3> HIDE DEF x, y
    <3> QED
      BY <1>4, <1>6, <2>1, <3>1, <3>2, <3>3
  <2> QED
    BY <2>5, <2>6
<1>12. InSlots'
  <2> SUFFICES ASSUME NEW k \in 0..(Size - 1)
               PROVE  /\ k >= rd.i /\ k - rd.i < Held + put.n
                            => pool'[k] = Taken + 1 + k - rd.i
                      /\ k < rd.i /\ Size + k - rd.i < Held + put.n
                            => pool'[k] = Taken + 1 + Size + k - rd.i
    BY <1>5, <1>7 DEF InSlots
  <2>1. k \in Int /\ rd.i \in Int /\ Size \in Int /\ Taken \in Int
    BY Numbers, Amounts
  <2>2. CASE k >= rd.i
    BY <1>11, <2>1, <2>2
  <2>3. CASE k < rd.i
    BY <1>11, <2>1, <2>3
  <2> QED
    BY <2>1, <2>2, <2>3
<1> QED
  BY <1>1, <1>5, <1>8, <1>9, <1>10, <1>12 DEF Unraced, InOrder

\* Showing the reader a block that lies in the pool takes nothing from what it
\* knows, unless it is between finding the writer ahead and subtracting.
LEMMA ReaderSurvives ==
    ASSUME ReaderKnows, get' = get, delivered' = delivered, rd' = rd,
           Held \in Int, Held' \in Int, Held < Held', Held < Size, ~Subtracting
    PROVE  ReaderKnows'
<1>1. ~(get.pc = "mirror" /\ get.inGetchar)
  BY DEF ReaderKnows
<1>2. Held >= 1 => Held' >= 1
  OBVIOUS
<1> QED
  BY <1>1, <1>2 DEF ReaderKnows, Subtracting

\* The block in flight has its place between what is held and the pool's end.
LEMMA InFlight ==
    ASSUME Typed, WriterInv, Unraced, put.pc \in {"publish", "wrapMirror", "wrapIndex"}
    PROVE  /\ Held + put.n <= Size /\ put.n >= 1 /\ put.n \in Int
           /\ Stored = sent /\ Published = sent - put.n /\ sent \in Int
<1>1. /\ put.n >= 1 /\ put.n \in Int /\ Stored = sent /\ Published = sent - put.n
      /\ sent \in Int /\ Size \in Int
  BY Numbers DEF Unraced, WriterKnows, Stored, Published
<1>2. /\ Taken \in Int /\ Held \in Int /\ Stored <= Taken + Size
      /\ Published = Taken + Held
  BY Amounts, HeldBounds
<1> QED
  BY <1>1, <1>2

\* The write word has been moved past the block.
LEMMA BlockShown ==
    ASSUME Typed, WriterInv, Unraced, put.pc \in {"publish", "wrapIndex"},
           put'.pc = "recv", ~Subtracting, rd' = rd, pool' = pool, get' = get,
           sent' = sent, delivered' = delivered,
           IF ReaderMirror' = WriterMirror'
           THEN wr'.i = rd.i + Held + put.n ELSE wr'.i = rd.i + Held + put.n - Size
    PROVE  Unraced'
<1>1. /\ Stored' = Stored /\ Taken' = Taken /\ ReaderMirror' = ReaderMirror
      /\ Published' = sent
  BY DEF Stored, Published, Taken, ReaderMirror, HalfTaken
<1>2. /\ Held + put.n <= Size /\ put.n >= 1 /\ put.n \in Int
      /\ Published = sent - put.n /\ sent \in Int /\ Stored = sent
  BY InFlight
<1>3. /\ Taken \in Int /\ Held \in Int /\ Published = Taken + Held /\ Size \in Int
      /\ rd.i \in Int
  BY Amounts, HeldBounds, Numbers
<1>4. Held' = Held + put.n
  BY <1>1, <1>2, <1>3 DEF Held
<1>5. Apart'
  <2>1. Taken' <= Published' /\ Stored' <= Taken' + Size
    BY <1>1, <1>2, Amounts, Numbers
  <2>2. rd'.i + Held' = rd.i + Held + put.n
        /\ rd'.i + Held' - Size = rd.i + Held + put.n - Size
    BY <1>2, <1>3, <1>4
  <2> QED
    BY <2>1, <2>2 DEF Apart
<1>6. InSlots'
  BY <1>1, InSlotsStay DEF Unraced
<1>7. ReaderKnows'
  <2>1. Held' \in Int /\ Held < Held' /\ Held < Size
    BY <1>2, <1>3, <1>4
  <2> QED
    BY <1>3, <2>1, ReaderSurvives DEF Unraced
<1>8. WriterKnows'
  BY DEF WriterKnows, Dragging
<1> QED
  BY <1>5, <1>6, <1>7, <1>8 DEF Unraced, InOrder

LEMMA PublishUnraced ==
    ASSUME Typed, WriterInv, Unraced, ~raced', PutPublish
    PROVE  Unraced'
<1>1. /\ PutTyped /\ put.pc = "publish" /\ rd' = rd /\ pool' = pool /\ get' = get
      /\ sent' = sent /\ delivered' = delivered /\ ~Subtracting
      /\ wr \in Word /\ wr' = [wr EXCEPT !.i = wr.i + put.n]
  BY DEF Typed, PutPublish
<1>2. ~Overruns(put.n, put.len)
  BY <1>1 DEF Unraced, WriterKnows
<1>3. put'.pc = "recv"
  BY <1>1, <1>2, PutGoesFields DEF PutPublish
<1>4. wr'.m = wr.m /\ wr'.i = wr.i + put.n
  BY <1>1, WordStores
<1>5. ReaderMirror' = ReaderMirror /\ WriterMirror' = WriterMirror
  BY <1>1, <1>3, <1>4 DEF ReaderMirror, WriterMirror, HalfTaken, HalfPublished
<1>6. rd.i \in Int /\ Held \in Int /\ Size \in Int /\ put.n \in Int
  BY Numbers, HeldBounds
<1>7. IF ReaderMirror = WriterMirror
      THEN wr.i = rd.i + Held ELSE wr.i = rd.i + Held - Size
  BY DEF Unraced, Apart
<1>8. IF ReaderMirror' = WriterMirror'
      THEN wr'.i = rd.i + Held + put.n ELSE wr'.i = rd.i + Held + put.n - Size
  BY <1>4, <1>5, <1>6, <1>7
<1> QED
  BY <1>1, <1>3, <1>8, BlockShown

LEMMA WrapMirrorUnraced ==
    ASSUME Typed, WriterInv, Unraced, ~raced', PutWrapMirror
    PROVE  Unraced'
<1>1. /\ PutTyped /\ put.pc = "wrapMirror" /\ rd' = rd /\ pool' = pool /\ get' = get
      /\ sent' = sent /\ delivered' = delivered
      /\ wr \in Word /\ wr' = [wr EXCEPT !.m = Flip(wr.m)]
  BY DEF Typed, PutWrapMirror
<1>2. put'.pc = "wrapIndex" /\ put'.n = put.n /\ put'.len = put.len
  BY <1>1, PutGoesFields DEF PutWrapMirror
<1>3. wr'.m = Flip(wr.m) /\ wr'.i = wr.i /\ Flip(Flip(wr.m)) = wr.m
  BY <1>1, WordStores, Words DEF Flip
<1>4. /\ Stored' = Stored /\ Published' = Published /\ Taken' = Taken
      /\ ReaderMirror' = ReaderMirror /\ WriterMirror' = WriterMirror
      /\ rd'.i = rd.i /\ wr'.i = wr.i
  BY <1>1, <1>2, <1>3 DEF Stored, Published, Taken, ReaderMirror, WriterMirror,
     HalfTaken, HalfPublished
<1>5. Apart' /\ Held' = Held
  BY <1>4, ApartStays DEF Unraced
<1>6. InSlots' /\ ReaderKnows'
  BY <1>1, <1>4, <1>5, InSlotsStay, ReaderStillKnows DEF Unraced
<1>7. WriterKnows'
  BY <1>1, <1>2, <1>5 DEF Unraced, WriterKnows, Dragging
<1> QED
  BY <1>1, <1>5, <1>6, <1>7 DEF Unraced, InOrder

LEMMA WrapIndexUnraced ==
    ASSUME Typed, WriterInv, Unraced, ~raced', PutWrapIndex
    PROVE  Unraced'
<1>1. /\ PutTyped /\ put.pc = "wrapIndex" /\ rd' = rd /\ pool' = pool /\ get' = get
      /\ sent' = sent /\ delivered' = delivered /\ ~Subtracting
      /\ wr \in Word /\ wr' = [wr EXCEPT !.i = put.n - (Size - wr.i)]
  BY DEF Typed, PutWrapIndex
<1>2. ~Overruns(put.n, put.len)
  BY <1>1 DEF Unraced, WriterKnows
<1>3. put'.pc = "recv"
  BY <1>1, <1>2, PutGoesFields DEF PutWrapIndex
<1>4. wr'.m = wr.m /\ wr'.i = put.n - (Size - wr.i)
  BY <1>1, WordStores
<1>5. /\ ReaderMirror' = ReaderMirror /\ WriterMirror' = wr.m
      /\ WriterMirror = Flip(wr.m)
  BY <1>1, <1>3, <1>4 DEF ReaderMirror, WriterMirror, HalfTaken, HalfPublished
<1>6. /\ rd.i \in Int /\ rd.i < Size /\ Held \in Int /\ Size \in Int /\ put.n \in Int
      /\ Held + put.n <= Size /\ wr.i \in Int
  BY <1>1, Numbers, HeldBounds, InFlight
<1>7. IF ReaderMirror = Flip(wr.m)
      THEN wr.i = rd.i + Held ELSE wr.i = rd.i + Held - Size
  BY <1>5 DEF Unraced, Apart
<1>8. Size - wr.i <= put.n
  BY <1>1 DEF WriterInv
<1>9. ReaderMirror \in {0, 1} /\ wr.m \in {0, 1}
  BY Numbers DEF ReaderMirror, Flip
<1>10. CASE ReaderMirror = wr.m
  <2>1. ReaderMirror # Flip(wr.m)
    BY <1>9, <1>10 DEF Flip
  <2>2. wr.i = rd.i + Held - Size
    BY <1>7, <2>1
  <2> QED
    BY <1>6, <1>8, <2>2
<1>11. CASE ReaderMirror # wr.m
  <2>1. ReaderMirror = Flip(wr.m)
    BY <1>9, <1>11 DEF Flip
  <2>2. wr.i = rd.i + Held
    BY <1>7, <2>1
  <2>3. wr'.i = rd.i + Held + put.n - Size
    BY <1>4, <1>6, <2>2
  <2> QED
    BY <1>1, <1>3, <1>5, <1>11, <2>3, BlockShown
<1> QED
  BY <1>10, <1>11

LEMMA PutForceUnraced ==
    ASSUME Typed, WriterInv, Unraced, ~raced', PutForce
    PROVE  Unraced'
<1>1. ~(PutDragMirror \/ PutDragMirrorStore \/ PutDragIndex \/ PutDragIndexStore)
  BY DEF Unraced, WriterKnows, Dragging, PutDragMirror, PutDragMirrorStore,
         PutDragIndex, PutDragIndexStore, PutLoad
<1> QED
  BY <1>1, PutLooksUnraced, MemcpyUnraced, PublishUnraced, WrapMirrorUnraced,
     WrapIndexUnraced DEF PutForce

\* What data_len tells the reader is never that a buffer with bytes is empty.
LEMMA GetLooksUnraced ==
    ASSUME Typed, WriterInv, Unraced, ~raced',
           GetStatus \/ GetMirror \/ GetCompare \/ GetSubtract
    PROVE  Unraced'
<1>1. /\ GetTyped /\ rd' = rd /\ wr' = wr /\ pool' = pool /\ put' = put
      /\ sent' = sent /\ delivered' = delivered
  BY DEF Typed, GetStatus, GetMirror, GetCompare, GetSubtract, shared
<1>2. get.pc \in {"status", "mirror", "compare", "subtract"}
  BY DEF GetStatus, GetMirror, GetCompare, GetSubtract
<1>3. /\ Held \in Int /\ Held >= 0 /\ Held <= Size
      /\ Size \in Int /\ wr.i \in Int /\ rd.i \in Int /\ wr.i < Size /\ wr.i >= 0
      /\ rd.i >= 0 /\ rd.i < Size
      /\ (wr.i = rd.i + Held \/ wr.i = rd.i + Held - Size)
  BY Numbers, HeldBounds
<1>4. ~HalfTaken
  BY <1>2 DEF HalfTaken
<1>5. ASSUME get'.pc \in {"status", "mirror", "compare", "subtract", "fetch"},
             get'.pc = "status" /\ get'.inGetchar => Held >= 1,
             get'.pc = "mirror" /\ get'.inGetchar => Held = Size,
             get'.pc \in {"compare", "subtract", "fetch"} => Held >= 1,
             get'.pc = "subtract" => wr.i > rd.i
      PROVE  Unraced'
  <2>1. HalfTaken' = HalfTaken
    BY <1>2, <1>5 DEF HalfTaken
  <2>2. Held' = Held => ReaderKnows'
    BY <1>1, <1>5 DEF ReaderKnows
  <2> QED
    BY <1>1, <1>2, <1>5, <2>1, <2>2, ReaderLooks
<1>6. ASSUME NEW l \in Int, GetMeasured(l), l # 0 => Held >= 1,
             get.inGetchar => l # 0
      PROVE  Unraced'
  <2>1. /\ ~get.inGetchar /\ l = 0 => get'.pc = "status" /\ ~get'.inGetchar
        /\ ~get.inGetchar /\ l # 0 => get'.pc = "status" /\ get'.inGetchar
        /\ get.inGetchar /\ l # 0 => get'.pc = "fetch" /\ get'.inGetchar
    BY <1>1, <1>6, GetMeasuredFields
  <2>2. CASE l = 0
    BY <1>5, <1>6, <2>1, <2>2
  <2>3. CASE l # 0
    BY <1>5, <1>6, <2>1, <2>3
  <2> QED
    BY <2>2, <2>3
<1>7. CASE GetStatus
  <2>1. /\ get'.inGetchar = get.inGetchar /\ get.pc = "status"
        /\ get'.pc = IF rd.i = wr.i THEN "mirror" ELSE "compare"
        /\ ~HalfPublished
    BY <1>1, <1>7, GetGoesFields DEF GetStatus
  <2>2. get.inGetchar => Held >= 1
    BY <2>1 DEF Unraced, ReaderKnows
  <2>3. CASE rd.i = wr.i
    <3>1. get.inGetchar => Held = Size
      BY <1>3, <2>2, <2>3
    <3> QED
      BY <1>5, <2>1, <2>3, <3>1
  <2>4. CASE rd.i # wr.i
    <3>1. Held >= 1
      BY <1>3, <2>4
    <3> QED
      BY <1>5, <2>1, <2>4, <3>1
  <2> QED
    BY <2>3, <2>4
<1>8. CASE GetMirror
  <2> DEFINE l == IF rd.m = wr.m THEN 0 ELSE Size
  <2>1. l \in Int
    BY <1>3
  <2>2. GetMeasured(l) /\ ~HalfPublished /\ get.pc = "mirror"
    BY <1>8 DEF GetMirror
  <2>3. CASE rd.m = wr.m
    <3>1. Held # Size
      BY <1>3, <1>4, <2>2, <2>3, Measured
    <3>2. ~get.inGetchar
      BY <2>2, <3>1 DEF Unraced, ReaderKnows
    <3>3. l = 0
      BY <2>3
    <3> HIDE DEF l
    <3> QED
      BY <1>6, <2>1, <2>2, <3>2, <3>3
  <2>4. CASE rd.m # wr.m
    <3>1. Held >= 1
      BY <1>3, <1>4, <2>2, <2>4, Measured
    <3>2. l # 0
      BY <1>3, <2>4
    <3> HIDE DEF l
    <3> QED
      BY <1>6, <2>1, <2>2, <3>1, <3>2
  <2> QED
    BY <2>3, <2>4
<1>9. CASE GetCompare
  <2>1. Held >= 1 /\ get.pc = "compare"
    BY <1>9 DEF GetCompare, Unraced, ReaderKnows
  <2>2. CASE wr.i > rd.i
    <3>1. get'.pc = "subtract"
      BY <1>1, <1>9, <2>2, GetGoesFields DEF GetCompare
    <3> QED
      BY <1>5, <2>1, <2>2, <3>1
  <2>3. CASE ~(wr.i > rd.i)
    <3>1. Around(rd.i, wr.i) \in Int /\ Around(rd.i, wr.i) # 0
      BY <1>3 DEF Around
    <3>2. GetMeasured(Around(rd.i, wr.i))
      BY <1>9, <2>3 DEF GetCompare
    <3> QED
      BY <1>6, <2>1, <3>1, <3>2
  <2> QED
    BY <2>2, <2>3
<1>10. CASE GetSubtract
  <2>1. Held >= 1 /\ wr.i > rd.i
    BY <1>10 DEF GetSubtract, Unraced, ReaderKnows
  <2>2. Ahead(rd.i, wr.i) \in Int /\ Ahead(rd.i, wr.i) # 0
    BY <1>3, <2>1 DEF Ahead
  <2> QED
    BY <1>6, <1>10, <2>1, <2>2 DEF GetSubtract
<1> QED
  BY <1>7, <1>8, <1>9, <1>10

LEMMA FetchUnraced ==
    ASSUME Typed, WriterInv, Unraced, GetFetch
    PROVE  Unraced'
<1>1. /\ GetTyped /\ rd' = rd /\ wr' = wr /\ pool' = pool /\ put' = put
      /\ sent' = sent /\ delivered' = delivered /\ get.pc = "fetch"
      /\ rd.i < Size
      /\ get' = [get EXCEPT !.pc = "atEnd",
                            !.dat = IF rd.i < Size THEN pool[rd.i] ELSE 0]
  BY DEF Typed, Unraced, GetFetch, shared
<1>2. get'.pc = "atEnd" /\ get'.dat = pool[rd.i]
  BY <1>1 DEF GetTyped
<1>3. Held >= 1
  BY <1>1 DEF Unraced, ReaderKnows
<1>4. pool[rd.i] = Len(delivered) + 1
  <2>1. /\ rd.i \in Int /\ rd.i >= 0 /\ Size \in Int /\ Stored \in Int /\ Taken \in Int
        /\ Published \in Int /\ Published <= Stored /\ Published = Taken + Held
        /\ Held \in Int
    BY Numbers, Amounts, HeldBounds
  <2>2. rd.i \in 0..(Size - 1) /\ rd.i >= rd.i /\ rd.i - rd.i < Stored - Taken
    BY <1>1, <1>3, <2>1
  <2>3. pool[rd.i] = Taken + 1 + rd.i - rd.i
    BY <2>2 DEF Unraced, InSlots
  <2>4. Taken = Len(delivered)
    BY <1>1 DEF Taken
  <2> QED
    BY <2>1, <2>3, <2>4
<1>5. HalfTaken' = HalfTaken
  BY <1>1, <1>2 DEF HalfTaken
<1>6. Held' = Held => ReaderKnows'
  BY <1>1, <1>2, <1>3, <1>4 DEF ReaderKnows
<1> QED
  BY <1>1, <1>2, <1>5, <1>6, ReaderLooks

LEMMA GetLoadsUnraced ==
    ASSUME Typed, WriterInv, Unraced, GetAtEnd \/ GetFlip \/ GetZero \/ GetInc
    PROVE  Unraced'
<1>1. /\ GetTyped /\ rd \in Word /\ rd' = rd /\ wr' = wr /\ pool' = pool /\ put' = put
      /\ sent' = sent /\ delivered' = delivered
  BY DEF Typed, GetAtEnd, GetFlip, GetZero, GetInc, GetLoad, shared
<1>2. /\ Held >= 1 /\ get.dat = Len(delivered) + 1
      /\ get.pc \in {"flip", "zero"} => rd.i = Size - 1
      /\ get.pc = "inc" => rd.i # Size - 1
  BY DEF Unraced, ReaderKnows, GetAtEnd, GetFlip, GetZero, GetInc, GetLoad
<1>3. CASE GetAtEnd
  <2>1. /\ get'.pc = (IF rd.i = Size - 1 THEN "flip" ELSE "inc") /\ get'.dat = get.dat
        /\ get.pc = "atEnd"
    BY <1>1, <1>3, GetGoesFields DEF GetAtEnd
  <2>2. HalfTaken' = HalfTaken
    BY <2>1 DEF HalfTaken
  <2>3. Held' = Held => ReaderKnows'
    BY <1>1, <1>2, <2>1 DEF ReaderKnows
  <2> QED
    BY <1>1, <2>1, <2>2, <2>3, ReaderLooks
<1>4. ASSUME NEW from, NEW to, GetLoad(from, to),
             \/ from = "flip" /\ to = "flipStore"
             \/ from = "zero" /\ to = "zeroStore"
             \/ from = "inc" /\ to = "incStore"
      PROVE  Unraced'
  <2>1. get.pc = from /\ get'.pc = to /\ get'.dat = get.dat /\ get'.reg = rd
    BY <1>1, <1>4, GetLoadFields DEF GetLoad
  <2>2. /\ get.pc # "use" /\ get'.pc # "use"
        /\ \/ get.pc = "flip" /\ get'.pc = "flipStore"
           \/ get.pc = "zero" /\ get'.pc = "zeroStore"
           \/ get.pc = "inc" /\ get'.pc = "incStore"
    BY <1>4, <2>1
  <2>3. HalfTaken' = HalfTaken
    BY <2>2 DEF HalfTaken
  <2>4. Held' = Held => ReaderKnows'
    BY <1>1, <1>2, <2>1, <2>2 DEF ReaderKnows
  <2> QED
    BY <1>1, <2>2, <2>3, <2>4, ReaderLooks
<1> QED
  BY <1>3, <1>4 DEF GetFlip, GetZero, GetInc

LEMMA FlipStoreUnraced ==
    ASSUME Typed, WriterInv, Unraced, ~raced', GetFlipStore
    PROVE  Unraced'
<1>1. /\ GetTyped /\ rd \in Word /\ wr' = wr /\ pool' = pool /\ put' = put
      /\ sent' = sent /\ delivered' = delivered /\ get.pc = "flipStore"
      /\ ~Measuring
  BY DEF Typed, GetFlipStore, GetStore
<1>2. /\ get.reg = rd /\ rd.i = Size - 1 /\ Held >= 1
      /\ get.dat = Len(delivered) + 1
  BY <1>1 DEF Unraced, ReaderKnows
<1>3. get'.pc = "zero" /\ get'.dat = get.dat
  BY <1>1, GetGoesFields DEF GetFlipStore, GetStore
<1>4. rd' = [rd EXCEPT !.m = Flip(rd.m)]
  BY <1>2 DEF GetFlipStore, GetStore
<1>5. rd'.i = rd.i /\ rd'.m = Flip(rd.m) /\ Flip(Flip(rd.m)) = rd.m
  BY <1>1, <1>4, WordStores, Words DEF Flip
<1>6. /\ Stored' = Stored /\ Published' = Published /\ Taken' = Taken
      /\ ReaderMirror' = ReaderMirror /\ WriterMirror' = WriterMirror
      /\ rd'.i = rd.i /\ wr'.i = wr.i
  BY <1>1, <1>3, <1>5 DEF Stored, Published, Taken, ReaderMirror, WriterMirror,
     HalfTaken, HalfPublished
<1>7. Apart' /\ Held' = Held
  BY <1>6, ApartStays DEF Unraced
<1>8. InSlots'
  BY <1>1, <1>6, InSlotsStay DEF Unraced
<1>9. WriterKnows'
  BY <1>1, <1>5, <1>7, WriterStillKnows DEF Unraced
<1>10. ReaderKnows'
  BY <1>1, <1>2, <1>3, <1>5, <1>7 DEF ReaderKnows
<1> QED
  BY <1>1, <1>5, <1>7, <1>8, <1>9, <1>10 DEF Unraced, InOrder

\* The read word moves on by one byte: the slots seen from it do, too.
LEMMA SlotsShift ==
    ASSUME Typed, WriterInv, Unraced, pool' = pool, Stored' = Stored,
           Taken' = Taken + 1, Held >= 1,
           \/ rd.i = Size - 1 /\ rd'.i = 0
           \/ rd.i # Size - 1 /\ rd'.i = rd.i + 1
    PROVE  InSlots'
<1>1. /\ Stored \in Int /\ Taken \in Int /\ Stored <= Taken + Size
      /\ Size \in Int /\ Size >= 1 /\ rd.i \in Int /\ rd.i >= 0 /\ rd.i < Size
  BY Amounts, Numbers, HeldBounds
<1>2. ASSUME NEW k \in 0..(Size - 1)
      PROVE  /\ k >= rd'.i /\ k - rd'.i < Stored - (Taken + 1)
                   => pool[k] = Taken + 1 + 1 + k - rd'.i
             /\ k < rd'.i /\ Size + k - rd'.i < Stored - (Taken + 1)
                   => pool[k] = Taken + 1 + 1 + Size + k - rd'.i
  <2>1. /\ k >= rd.i /\ k - rd.i < Stored - Taken => pool[k] = Taken + 1 + k - rd.i
        /\ k < rd.i /\ Size + k - rd.i < Stored - Taken
              => pool[k] = Taken + 1 + Size + k - rd.i
    BY DEF Unraced, InSlots
  <2>2. k \in Int /\ 0 <= k /\ k <= Size - 1
    BY <1>1
  <2>3. CASE rd.i = Size - 1 /\ rd'.i = 0
    BY <1>1, <2>1, <2>2, <2>3
  <2>4. CASE rd.i # Size - 1 /\ rd'.i = rd.i + 1
    BY <1>1, <2>1, <2>2, <2>4
  <2> QED
    BY <2>3, <2>4
<1> QED
  BY <1>2 DEF InSlots

\* getchar's last store takes the byte it fetched out of the buffer.
LEMMA ByteTaken ==
    ASSUME Typed, WriterInv, Unraced, get.pc \in {"zeroStore", "incStore"},
           get'.pc = "use", get'.dat = get.dat, ~Measuring,
           wr' = wr, pool' = pool, put' = put, sent' = sent, delivered' = delivered,
           rd'.m = rd.m,
           \/ get.pc = "zeroStore" /\ rd.i = Size - 1 /\ rd'.i = 0
           \/ get.pc = "incStore" /\ rd.i # Size - 1 /\ rd'.i = rd.i + 1
    PROVE  Unraced'
<1>1. Held >= 1 /\ get.dat = Len(delivered) + 1
  BY DEF Unraced, ReaderKnows
<1>2. /\ Stored' = Stored /\ Published' = Published /\ Taken' = Taken + 1
      /\ WriterMirror' = WriterMirror /\ wr'.i = wr.i
      /\ ReaderMirror' = rd.m
  BY DEF Stored, Published, Taken, WriterMirror, ReaderMirror, HalfPublished, HalfTaken
<1>3. /\ Stored \in Int /\ Published \in Int /\ Taken \in Int /\ Held \in Int
      /\ Published = Taken + Held /\ Stored <= Taken + Size
      /\ Size \in Int /\ rd.i \in Int /\ rd.i >= 0 /\ rd.i < Size
      /\ wr.i \in Int /\ wr.i >= 0 /\ wr.i < Size
  BY Amounts, Numbers, HeldBounds
<1>4. Held' = Held - 1
  BY <1>2, <1>3 DEF Held
<1>5. Apart'
  <2>1. Taken' <= Published' /\ Stored' <= Taken' + Size
    BY <1>1, <1>2, <1>3
  <2>2. IF ReaderMirror = WriterMirror
        THEN wr.i = rd.i + Held ELSE wr.i = rd.i + Held - Size
    BY DEF Unraced, Apart
  <2>3. rd.m \in {0, 1} /\ WriterMirror \in {0, 1}
    BY Numbers DEF WriterMirror, Flip
  <2>4. CASE get.pc = "zeroStore"
    <3>1. rd.i = Size - 1 /\ rd'.i = 0 /\ ReaderMirror = Flip(rd.m)
      BY <2>4 DEF ReaderMirror, HalfTaken
    <3>2. ReaderMirror # WriterMirror
      BY <1>1, <1>3, <2>2, <3>1
    <3>3. rd.m = WriterMirror
      BY <2>3, <3>1, <3>2 DEF Flip
    <3>4. wr.i = 0 + (Held - 1)
      BY <1>3, <2>2, <3>1, <3>2
    <3> QED
      BY <1>2, <1>4, <2>1, <3>1, <3>3, <3>4 DEF Apart
  <2>5. CASE get.pc = "incStore"
    <3>1. rd'.i = rd.i + 1 /\ ReaderMirror = rd.m
      BY <2>5 DEF ReaderMirror, HalfTaken
    <3>2. IF rd.m = WriterMirror
          THEN wr.i = rd.i + 1 + (Held - 1) ELSE wr.i = rd.i + 1 + (Held - 1) - Size
      BY <1>3, <2>2, <3>1
    <3> QED
      BY <1>2, <1>4, <2>1, <3>1, <3>2 DEF Apart
  <2> QED
    BY <2>4, <2>5
<1>6. InSlots'
  BY <1>1, <1>2, SlotsShift
<1>7. WriterKnows'
  <2>1. put.pc = "memcpy" => Held <= put.len
    BY DEF Unraced, WriterKnows
  <2>2. put.pc = "memcpy" => Held' <= put.len
    BY <1>3, <1>4, <2>1, Numbers
  <2> QED
    BY <2>2 DEF Unraced, WriterKnows, Dragging, Measuring
<1>8. ReaderKnows'
  BY <1>1 DEF ReaderKnows
<1>9. rd'.i < Size
  BY <1>3
<1> QED
  BY <1>5, <1>6, <1>7, <1>8, <1>9 DEF Unraced, InOrder

LEMMA ZeroStoreUnraced ==
    ASSUME Typed, WriterInv, Unraced, ~raced', GetZeroStore
    PROVE  Unraced'
<1>1. /\ GetTyped /\ rd \in Word /\ wr' = wr /\ pool' = pool /\ put' = put
      /\ sent' = sent /\ delivered' = delivered /\ get.pc = "zeroStore"
      /\ ~Measuring
  BY DEF Typed, GetZeroStore, GetStore
<1>2. get.reg = rd /\ rd.i = Size - 1
  BY <1>1 DEF Unraced, ReaderKnows
<1>3. get'.pc = "use" /\ get'.dat = get.dat
  BY <1>1, GetGoesFields DEF GetZeroStore, GetStore
<1>4. rd' = [rd EXCEPT !.i = 0]
  BY <1>2 DEF GetZeroStore, GetStore
<1>5. rd'.i = 0 /\ rd'.m = rd.m
  BY <1>1, <1>4, WordStores
<1> QED
  BY <1>1, <1>2, <1>3, <1>5, ByteTaken

LEMMA IncStoreUnraced ==
    ASSUME Typed, WriterInv, Unraced, ~raced', GetIncStore
    PROVE  Unraced'
<1>1. /\ GetTyped /\ rd \in Word /\ wr' = wr /\ pool' = pool /\ put' = put
      /\ sent' = sent /\ delivered' = delivered /\ get.pc = "incStore"
      /\ ~Measuring /\ GetGoes("use")
  <2>1. PICK word : GetStore("incStore", word, "use")
    BY DEF GetIncStore
  <2> QED
    BY <2>1 DEF Typed, GetStore
<1>2. get.reg = rd /\ rd.i # Size - 1
  BY <1>1 DEF Unraced, ReaderKnows
<1>3. get'.pc = "use" /\ get'.dat = get.dat
  BY <1>1, GetGoesFields
<1>4. rd' = [rd EXCEPT !.i = (rd.i + 1) % 32768]
  BY <1>2 DEF GetIncStore, GetStore
<1>5. (rd.i + 1) % 32768 = rd.i + 1
  <2>1. Size \in Nat /\ Size < 32768
    BY SizeAssumption
  <2>2. rd.i + 1 \in Nat /\ rd.i + 1 < 32768
    BY <2>1, Numbers, HeldBounds
  <2> QED
    BY <2>2
<1>6. rd'.i = rd.i + 1 /\ rd'.m = rd.m
  BY <1>1, <1>4, <1>5, WordStores
<1> QED
  BY <1>1, <1>2, <1>3, <1>6, ByteTaken

LEMMA UseUnraced ==
    ASSUME Typed, WriterInv, Unraced, GetUse
    PROVE  Unraced'
<1>1. /\ GetTyped /\ rd' = rd /\ wr' = wr /\ pool' = pool /\ put' = put
      /\ sent' = sent /\ get.pc = "use"
      /\ delivered \in Seq(0..MaxBytes) /\ get.dat \in 0..MaxBytes
      /\ delivered' = Append(delivered, get.dat)
  BY DEF Typed, GetTyped, CountsTyped, GetUse, shared
<1>2. get'.pc = "status" /\ ~get'.inGetchar
  BY <1>1 DEF GetTyped, GetUse
<1>3. get.dat = Len(delivered) + 1
  BY <1>1 DEF Unraced, ReaderKnows
<1>4. /\ Len(delivered') = Len(delivered) + 1 /\ Len(delivered) \in Nat
      /\ \A k \in 1..Len(delivered) : delivered'[k] = delivered[k]
      /\ delivered'[Len(delivered) + 1] = get.dat
  BY <1>1, AppendProperties, LenProperties
<1>5. InOrder'
  <2> SUFFICES ASSUME NEW k \in 1..(Len(delivered) + 1)
               PROVE  delivered'[k] = k
    BY <1>4 DEF InOrder
  <2>1. k \in 1..Len(delivered) \/ k = Len(delivered) + 1
    BY <1>4
  <2> QED
    BY <1>3, <1>4, <2>1 DEF Unraced, InOrder
<1>6. /\ Stored' = Stored /\ Published' = Published /\ Taken' = Taken
      /\ ReaderMirror' = ReaderMirror /\ WriterMirror' = WriterMirror
      /\ rd'.i = rd.i /\ wr'.i = wr.i
  BY <1>1, <1>2, <1>4 DEF Stored, Published, Taken, ReaderMirror, WriterMirror,
     HalfTaken, HalfPublished
<1>7. Apart' /\ Held' = Held
  BY <1>6, ApartStays DEF Unraced
<1>8. InSlots' /\ WriterKnows'
  BY <1>1, <1>6, <1>7, InSlotsStay, WriterStillKnows DEF Unraced
<1>9. ReaderKnows'
  BY <1>2 DEF ReaderKnows
<1> QED
  BY <1>1, <1>5, <1>7, <1>8, <1>9 DEF Unraced

LEMMA TakeCharUnraced ==
    ASSUME Typed, WriterInv, Unraced, ~raced', TakeChar
    PROVE  Unraced'
  BY GetLooksUnraced, FetchUnraced, GetLoadsUnraced, FlipStoreUnraced,
     ZeroStoreUnraced, IncStoreUnraced, UseUnraced DEF TakeChar

\* What holds away from the windows holds until one of them is hit.
LEMMA UnracedStep ==
    ASSUME Typed, WriterInv, ~raced => Unraced, [Next]_vars, ~raced'
    PROVE  Unraced'
<1>1. ASSUME NEW n \in 1..MaxBlock, Recv(n)
      PROVE  Unraced'
  <2>1. Unraced
    BY <1>1 DEF Recv
  <2> QED
    BY <1>1, <2>1, RecvUnraced
<1>2. CASE PutForce
  <2>1. Unraced
    BY <1>2 DEF PutForce, PutStatus, PutMirror, PutCompare, PutSubtract, PutMemcpy,
       PutPublish, PutWrapMirror, PutWrapIndex, PutDragMirror, PutDragMirrorStore,
       PutDragIndex, PutDragIndexStore, PutLoad
  <2> QED
    BY <1>2, <2>1, PutForceUnraced
<1>3. CASE TakeChar
  <2>1. ASSUME NEW from, NEW to, NEW word, GetStore(from, word, to)
        PROVE  Unraced
    BY <2>1 DEF GetStore
  <2>2. GetFlipStore \/ GetZeroStore \/ GetIncStore => Unraced
    BY <2>1 DEF GetFlipStore, GetZeroStore, GetIncStore
  <2>3. Unraced
    BY <1>3, <2>2 DEF TakeChar, GetStatus, GetMirror, GetCompare, GetSubtract,
       GetFetch, GetAtEnd, GetFlip, GetZero, GetInc, GetUse, GetLoad
  <2> QED
    BY <1>3, <2>3, TakeCharUnraced
<1>4. CASE UNCHANGED vars
  <2>1. /\ pool' = pool /\ rd' = rd /\ wr' = wr /\ put' = put /\ get' = get
        /\ sent' = sent /\ delivered' = delivered /\ Unraced
    BY <1>4 DEF vars, shared
  <2> QED
    BY <2>1 DEF Unraced, Apart, InSlots, WriterKnows, ReaderKnows, InOrder, Stored,
       Published, Taken, Held, ReaderMirror, WriterMirror, HalfTaken, HalfPublished,
       Dragging
<1> QED
  BY <1>1, <1>2, <1>3, <1>4 DEF Next

LEMMA UnracedInit == Init => Unraced
<1> SUFFICES ASSUME Init
             PROVE  Unraced
    OBVIOUS
<1>1. /\ rd = [m |-> 0, i |-> 0] /\ wr = [m |-> 0, i |-> 0] /\ sent = 0
      /\ put.pc = "recv" /\ get.pc = "status" /\ ~get.inGetchar
      /\ Len(delivered) = 0 /\ Size \in Int /\ Size >= 1
  BY SizeNat DEF Init
<1>2. Stored = 0 /\ Published = 0 /\ Taken = 0 /\ Held = 0
  BY <1>1 DEF Stored, Published, Taken, Held
<1>3. ReaderMirror = 0 /\ WriterMirror = 0
  BY <1>1 DEF ReaderMirror, WriterMirror, HalfTaken, HalfPublished
<1>4. Apart /\ rd.i < Size
  BY <1>1, <1>2, <1>3 DEF Apart
<1>5. InSlots
  BY <1>1, <1>2 DEF InSlots
<1>6. WriterKnows /\ ReaderKnows
  BY <1>1 DEF WriterKnows, ReaderKnows, Dragging
<1>7. InOrder
  BY <1>1 DEF InOrder
<1> QED
  BY <1>4, <1>5, <1>6, <1>7 DEF Unraced

\* Inductive: the first two hold in every state, Unraced until a window is hit.
RingInv == Typed /\ WriterInv /\ (~raced => Unraced)

LEMMA RingInvariant == Spec => []RingInv
<1>1. Init => RingInv
  BY InitTyped, WriterInit, UnracedInit DEF RingInv
<1>2. RingInv /\ [Next]_vars => RingInv'
  BY StepTyped, WriterNext, UnracedStep DEF RingInv
<1> QED
  BY <1>1, <1>2, PTL DEF Spec

\* As long as no access of one thread falls into a window of the other and no
\* block overruns the buffer, protocol_recev_data looks at the bytes tcprecvserv
\* received in the order they came, each once, for every buffer and block size.
THEOREM BytesInOrder == Spec => []InOrderUnlessRaced
<1>1. RingInv => InOrderUnlessRaced
  BY DEF RingInv, Unraced, InOrder, InOrderUnlessRaced
<1> QED
  BY <1>1, RingInvariant, PTL

\* And when the two words are equal again between calls, the loop in
\* protocol_recev_data stopped with every byte received handed on.
THEOREM BufferDrained == Spec => []DrainedUnlessRaced
<1>1. RingInv => DrainedUnlessRaced
  <2> SUFFICES ASSUME Typed, WriterInv, Unraced, Quiet
               PROVE  Len(delivered) = sent
    BY DEF RingInv, DrainedUnlessRaced
  <2>1. rd = wr /\ put.pc = "recv" /\ get.pc = "status"
    BY DEF Quiet
  <2>2. rd.m = wr.m /\ rd.i = wr.i
    BY <2>1
  <2>3. wr.i = rd.i + Held
    BY <2>1, <2>2, Measured DEF HalfPublished, HalfTaken
  <2>4. Held = 0
    BY <2>2, <2>3, Numbers, HeldBounds
  <2>5. Published = sent /\ Taken = Len(delivered)
    BY <2>1 DEF Published, Taken
  <2> QED
    BY <2>4, <2>5, Amounts
<1> QED
  BY <1>1, RingInvariant, PTL
-----------------------------------------------------------------------------
(* tcprecv.c: the server *)

Live == peer \in {"open", "closing", "broken"}

\* What the server holds at each step of opening its socket; without a
\* listening socket there is no connection.
Opening ==
    /\ server = "malloc" => recv_data = "none"
    /\ server \in {"socket", "bind", "listen", "accept", "recv"} => recv_data = "held"
    /\ server = "exited" => recv_data # "held"
    /\ server \in {"accept", "recv"} <=> sock = "listening"
    /\ sock # "listening" => peer = "none"

\* The server is in recv exactly while a connection lives, a connection
\* breaks at most once, and a handle left over is one of a broken connection.
Connection ==
    /\ server = "recv" <=> Live
    /\ Live => connected = Handle
    /\ connected = Handle /\ ~Live => server = "accept" /\ resets > 0
    /\ peer \in {"waiting", "open", "closing"} => resets < conns
    /\ peer = "broken" => resets > 0

ServerInv == ServerTypeOK /\ Opening /\ Connection

\* The initial state of tcprecvserv: nothing allocated, connected = -1.
LEMMA InitServerInv == ServerInit => ServerInv
  BY MaxConnsAssumption
  DEF ServerInit, ServerInv, ServerTypeOK, Opening, Connection, Live, Handle

\* Each call of tcprecvserv, led_flash and the peer keeps the invariant.
LEMMA NextServerInv == ServerInv /\ [ServerNext]_serverVars => ServerInv'
<1> SUFFICES ASSUME ServerInv, [ServerNext]_serverVars PROVE ServerInv'
    OBVIOUS
<1> USE MaxConnsAssumption, BlockAssumption DEF ServerInv, Handle
<1>1. CASE Malloc
  BY <1>1 DEF Malloc, Exit, ServerTypeOK, Opening, Connection, Live, net
<1>2. CASE Socket
  BY <1>2 DEF Socket, Exit, ServerTypeOK, Opening, Connection, Live, net
<1>3. CASE Bind
  BY <1>3 DEF Bind, Exit, ServerTypeOK, Opening, Connection, Live, net
<1>4. CASE Listen
  BY <1>4 DEF Listen, Exit, ServerTypeOK, Opening, Connection, Live, net
<1>5. CASE Accept
  BY <1>5 DEF Accept, ServerTypeOK, Opening, Connection, Live
<1>6. ASSUME NEW n \in 1..BlockSize, Received(n) PROVE ServerInv'
  BY <1>6 DEF Received, ServerTypeOK, Opening, Connection, Live
<1>7. CASE ReceivedZero
  BY <1>7 DEF ReceivedZero, ServerTypeOK, Opening, Connection, Live
<1>8. CASE ReceiveError
  BY <1>8 DEF ReceiveError, ServerTypeOK, Opening, Connection, Live
<1>9. CASE AcceptFails
  BY <1>9 DEF AcceptFails, ServerTypeOK, Opening, Connection, Live, net
<1>10. CASE LedFlash
  BY <1>10 DEF LedFlash, ServerTypeOK, Opening, Connection, Live, net
<1>11. CASE Peer
  <2>1. CASE Connect
    BY <2>1 DEF Connect, ServerTypeOK, Opening, Connection, Live
  <2>2. ASSUME NEW s \in Writes, Write(s) PROVE ServerInv'
    BY <2>2 DEF Write, ServerTypeOK, Opening, Connection, Live
  <2>3. CASE Close
    BY <2>3 DEF Close, ServerTypeOK, Opening, Connection, Live
  <2>4. CASE Break
    BY <2>4 DEF Break, ServerTypeOK, Opening, Connection, Live
  <2> QED
    BY <1>11, <2>1, <2>2, <2>3, <2>4 DEF Peer
<1>12. CASE UNCHANGED serverVars
  BY <1>12 DEF serverVars, net, ServerTypeOK, Opening, Connection, Live
<1> QED
  BY <1>1, <1>2, <1>3, <1>4, <1>5, <1>6, <1>7, <1>8, <1>9, <1>10, <1>11, <1>12
  DEF ServerNext, Serve

\* The invariant holds throughout.
LEMMA ServerInvariance == ServerSpec => []ServerInv
<1>1. ServerInv /\ [ServerNext]_serverVars => ServerInv'
  BY NextServerInv
<1> QED
  BY InitServerInv, <1>1, PTL DEF ServerSpec

\* connected is a handle of accept or -1, never another error code, and no
\* more connections break than were made.
THEOREM ServerTypes == ServerSpec => []ServerTypeOK
<1>1. ServerInv => ServerTypeOK
  BY DEF ServerInv
<1> QED
  BY ServerInvariance, <1>1, PTL

\* recv is only called on a live connection with the handle of that
\* connection; a stale handle is left only by the error path of recv.
THEOREM ReceivesFromLive == ServerSpec => []NoUseAfterClose
<1>1. ServerInv => NoUseAfterClose
  BY DEF ServerInv, Connection, Live, NoUseAfterClose
<1> QED
  BY ServerInvariance, <1>1, PTL

\* Every error path of opening the socket frees recv_data, and the server
\* never serves without it.
THEOREM BufferFreedOnExit == ServerSpec => []BufferOwned
<1>1. ServerInv => BufferOwned
  BY DEF ServerInv, Opening, BufferOwned
<1> QED
  BY ServerInvariance, <1>1, PTL
=============================================================================
