-------------------------- MODULE WorkQueueProofs ---------------------------
(***************************************************************************)
(* Theorems about WorkQueue, for any number of callers, blocks and jobs.   *)
(*                                                                         *)
(* That a work has one owner is inductive only together with where the     *)
(* threads are: work_current is the running work until Clear (Current), a  *)
(* caller about to resume wlan_job has left it something to do (Resumes),  *)
(* and a refused work is the one just freed (RefusedInWindow).             *)
(***************************************************************************)
EXTENDS WorkQueue, SequenceTheorems, TLAPS

Doing == {"call", "waiting", "woken", "free", "clear"}

Current ==
    IF worker \in Doing THEN work_current = work /\ work \in Blocks
                        ELSE work_current = NULL

Resumes == \A c \in Callers : caller[c] = "resume" => work_list # <<>> /\ work_current = NULL

HandsBlock == \A c \in Callers : caller[c] \in {"dowork", "busy"} => block[c] \in Blocks

IInv ==
    /\ TypeOK /\ Current /\ Resumes /\ HandsBlock
    /\ OneOwner /\ WokenForWork /\ RefusedInWindow
-----------------------------------------------------------------------------
(* What queueing and taking do to the set of queued works *)

LEMMA AppendQueues ==
    ASSUME NEW S, NEW s \in Seq(S), NEW x \in S
    PROVE  /\ Append(s, x) \in Seq(S) /\ Append(s, x) # <<>>
           /\ Range(Append(s, x)) = Range(s) \cup {x}
           /\ IsInjective(s) /\ x \notin Range(s) => IsInjective(Append(s, x))
<1>1. Append(s, x) \in Seq(S) /\ Append(s, x) # <<>>
  BY AppendProperties
<1>2. DOMAIN s = 1..Len(s) /\ DOMAIN Append(s, x) = 1..(Len(s) + 1) /\ Len(s) \in Nat
  BY <1>1, AppendProperties, LenProperties
<1>3. /\ \A i \in 1..Len(s) : Append(s, x)[i] = s[i]
      /\ Append(s, x)[Len(s) + 1] = x
  BY AppendProperties
<1>4. 1..(Len(s) + 1) = (1..Len(s)) \cup {Len(s) + 1}
  BY <1>2
<1>5. Range(Append(s, x)) = Range(s) \cup {x}
  BY <1>2, <1>3, <1>4 DEF Range
<1>6. IsInjective(s) /\ x \notin Range(s) => IsInjective(Append(s, x))
  BY <1>2, <1>3, <1>4 DEF Range, IsInjective
<1> QED
  BY <1>1, <1>5, <1>6

LEMMA TailUnqueues ==
    ASSUME NEW S, NEW s \in Seq(S), s # <<>>, IsInjective(s)
    PROVE  /\ Head(s) \in S /\ Tail(s) \in Seq(S)
           /\ Range(Tail(s)) = Range(s) \ {Head(s)}
           /\ Head(s) \in Range(s)
           /\ IsInjective(Tail(s))
<1>1. Head(s) \in S /\ Tail(s) \in Seq(S)
  OBVIOUS
<1>2. Len(s) \in Nat \ {0} /\ DOMAIN s = 1..Len(s) /\ DOMAIN Tail(s) = 1..(Len(s) - 1)
  OBVIOUS
<1>3. Head(s) = s[1] /\ \A i \in 1..(Len(s) - 1) : Tail(s)[i] = s[i + 1]
  OBVIOUS
<1>4. \A i \in 1..Len(s) : i # 1 => i - 1 \in 1..(Len(s) - 1) /\ Tail(s)[i - 1] = s[i]
  BY <1>2, <1>3
<1>5. Range(Tail(s)) \subseteq Range(s) \ {Head(s)}
  BY <1>2, <1>3 DEF Range, IsInjective
<1>6. ASSUME NEW b \in Range(s), b # Head(s) PROVE b \in Range(Tail(s))
  <2>1. PICK i \in 1..Len(s) : b = s[i]
    BY <1>2 DEF Range
  <2>2. i - 1 \in DOMAIN Tail(s) /\ Tail(s)[i - 1] = b
    BY <1>2, <1>3, <1>4, <1>6, <2>1
  <2> QED
    BY <2>2 DEF Range
<1>7. Head(s) \in Range(s)
  BY <1>2, <1>3 DEF Range
<1>8. IsInjective(Tail(s))
  BY <1>2, <1>3 DEF IsInjective
<1> QED
  BY <1>1, <1>5, <1>6, <1>7, <1>8
-----------------------------------------------------------------------------
\* The initial state: an empty queue and no block in use.
LEMMA InitIInv == Init => IInv
<1> SUFFICES ASSUME Init PROVE IInv
    OBVIOUS
<1>1. Range(work_list) = {} /\ IsInjective(work_list) /\ work_list \in Seq(Blocks)
  BY DEF Init, Range, IsInjective
<1>2. accepted \in Seq(Job) /\ done \in Seq(Job)
  BY DEF Init
<1>3. TypeOK
  <2>1. missed \in BOOLEAN
    BY Zenon DEF Init
  <2>2. handed \in 0..MaxJobs
    BY MaxJobsAssumption DEF Init
  <2> QED
    BY <1>1, <1>2, <2>1, <2>2 DEF Init, TypeOK
<1>4. Current /\ Resumes /\ HandsBlock
  BY DEF Init, Current, Doing, Resumes, HandsBlock
<1>5. OneOwner
  BY <1>1 DEF Init, OneOwner, Holds, Queues, Hands
<1>6. WokenForWork /\ RefusedInWindow
  BY DEF Init, WokenForWork, RefusedInWindow
<1> QED
  BY <1>3, <1>4, <1>5, <1>6 DEF IInv

\* rt_wlan_workqueue_dowork and the callers' side of the queue.
LEMMA CallerStep ==
    ASSUME IInv, NEW c \in Callers,
           Dowork(c) \/ MallocFails(c) \/ \E b \in Blocks : Malloc(c, b)
    PROVE  IInv'
<1> USE NullAssumption, MaxJobsAssumption DEF Doing, workerVars, callerVars
<1>1. ASSUME NEW b \in Blocks, Malloc(c, b) PROVE IInv'
  <2> USE <1>1 DEF Malloc, IInv
  <2>1. TypeOK'
    BY DEF TypeOK, Job
  <2>2. Current' /\ Resumes' /\ HandsBlock'
    BY DEF TypeOK, Current, Resumes, HandsBlock
  <2>3. OneOwner'
    BY DEF TypeOK, OneOwner, Holds, Queues, Hands
  <2>4. WokenForWork' /\ RefusedInWindow'
    BY DEF TypeOK, WokenForWork, RefusedInWindow
  <2> QED
    BY <2>1, <2>2, <2>3, <2>4
<1>2. CASE MallocFails(c)
  BY <1>2 DEF MallocFails, IInv, TypeOK, Current, Resumes, HandsBlock, OneOwner, Holds, Queues,
     Hands, WokenForWork, RefusedInWindow
<1>3. CASE Refuse(c)
  <2> USE <1>3 DEF Refuse, IInv
  <2>1. TypeOK' /\ Current' /\ Resumes' /\ HandsBlock'
    BY DEF TypeOK, Current, Resumes, HandsBlock
  <2>2. OneOwner'
    BY DEF TypeOK, OneOwner, Holds, Queues, Hands
  <2>3. Hands(c, block[c]) /\ block[c] \in Blocks
    BY DEF Hands, HandsBlock
  <2>4. worker = "clear" /\ work = block[c]
    BY <2>3 DEF OneOwner, Holds, Current
  <2> QED
    BY <2>1, <2>2, <2>4 DEF TypeOK, WokenForWork, RefusedInWindow
<1>4. CASE Queue(c)
  <2> DEFINE x == block[c]
  <2> USE <1>4 DEF Queue, IInv
  <2>1. x \in Blocks /\ Hands(c, x) /\ x \notin Range(work_list) /\ heap[x] \in Job
    BY DEF Hands, HandsBlock, OneOwner, Queues, TypeOK
  <2>2. /\ work_list' \in Seq(Blocks) /\ work_list' # <<>>
        /\ Range(work_list') = Range(work_list) \cup {x} /\ IsInjective(work_list')
    BY <2>1, AppendQueues DEF TypeOK, OneOwner
  <2>3. TypeOK'
    BY <2>1, <2>2 DEF TypeOK
  <2>4. Current' /\ Resumes' /\ HandsBlock'
    BY <2>2 DEF TypeOK, Current, Resumes, HandsBlock
  <2>5. OneOwner'
    BY <2>1, <2>2 DEF TypeOK, OneOwner, Holds, Queues, Hands
  <2> QED
    BY <2>2, <2>3, <2>4, <2>5 DEF TypeOK, WokenForWork, RefusedInWindow
<1>5. CASE Resume(c)
  <2> USE <1>5 DEF Resume, IInv
  <2>1. worker # "waiting" /\ worker # "woken"
    BY DEF Resumes, Current, WokenForWork
  <2>2. TypeOK'
    BY DEF TypeOK
  <2>3. Current' /\ Resumes' /\ HandsBlock'
    BY <2>1 DEF TypeOK, Current, Resumes, HandsBlock
  <2>4. OneOwner'
    BY <2>1 DEF TypeOK, OneOwner, Holds, Queues, Hands
  <2>5. WokenForWork' /\ RefusedInWindow'
    BY <2>1 DEF TypeOK, Resumes, WokenForWork, RefusedInWindow
  <2> QED
    BY <2>2, <2>3, <2>4, <2>5
<1>6. CASE GiveUp(c)
  <2> USE <1>6 DEF GiveUp, IInv
  <2>1. Hands(c, block[c]) /\ block[c] \in Blocks
    BY DEF Hands, HandsBlock
  <2>2. TypeOK' /\ Current' /\ Resumes' /\ HandsBlock'
    BY <2>1 DEF TypeOK, Current, Resumes, HandsBlock
  <2>3. OneOwner'
    BY <2>1 DEF TypeOK, OneOwner, Holds, Queues, Hands
  <2> QED
    BY <2>2, <2>3 DEF TypeOK, WokenForWork, RefusedInWindow
<1> QED
  BY <1>1, <1>2, <1>3, <1>4, <1>5, <1>6 DEF Dowork

\* _workqueue_thread_entry, which runs only while every caller is idle.
LEMMA WlanJobStep == ASSUME IInv, WlanJob PROVE IInv'
<1> USE NullAssumption, MaxJobsAssumption DEF Doing, workerVars, callerVars, Runs
<1>1. CASE Check
  BY <1>1 DEF Check, IInv, TypeOK, Current, Resumes, HandsBlock, OneOwner, Holds, Queues, Hands,
     WokenForWork, RefusedInWindow
<1>2. CASE Suspend
  BY <1>2 DEF Suspend, IInv, TypeOK, Current, Resumes, HandsBlock, OneOwner, Holds, Queues,
     Hands, WokenForWork, RefusedInWindow
<1>3. CASE Take
  <2> USE <1>3 DEF Take, IInv
  <2>1. /\ work' \in Blocks /\ work_list' \in Seq(Blocks) /\ work' \in Range(work_list)
        /\ Range(work_list') = Range(work_list) \ {work'} /\ IsInjective(work_list')
    BY TailUnqueues DEF TypeOK, OneOwner
  <2>2. TypeOK' /\ Current' /\ Resumes' /\ HandsBlock'
    BY <2>1 DEF TypeOK, Current, Resumes, HandsBlock
  <2>3. OneOwner'
    BY <2>1 DEF OneOwner, Holds, Queues, Hands
  <2> QED
    BY <2>2, <2>3 DEF TypeOK, WokenForWork, RefusedInWindow
<1>4. CASE Wait
  BY <1>4 DEF Wait, IInv, TypeOK, Current, Resumes, HandsBlock, OneOwner, Holds, Queues, Hands,
     WokenForWork, RefusedInWindow
<1>5. CASE Call
  <2> USE <1>5 DEF Call, IInv
  <2>1. work \in Blocks /\ heap[work] \in Job
    BY DEF TypeOK, Current, OneOwner, Holds
  <2>2. TypeOK' /\ Current' /\ Resumes' /\ HandsBlock'
    BY <2>1 DEF TypeOK, Current, Resumes, HandsBlock
  <2>3. OneOwner'
    BY DEF OneOwner, Holds, Queues, Hands
  <2> QED
    BY <2>2, <2>3 DEF TypeOK, WokenForWork, RefusedInWindow
<1>6. CASE Free
  <2> USE <1>6 DEF Free, IInv
  <2>1. work \in Blocks /\ Holds(work)
    BY DEF Current, Holds
  <2>2. TypeOK' /\ Current' /\ Resumes' /\ HandsBlock'
    BY <2>1 DEF TypeOK, Current, Resumes, HandsBlock
  <2>3. OneOwner'
    BY <2>1 DEF TypeOK, OneOwner, Holds, Queues, Hands
  <2> QED
    BY <2>2, <2>3 DEF TypeOK, WokenForWork, RefusedInWindow
<1>7. CASE Clear
  BY <1>7 DEF Clear, IInv, TypeOK, Current, Resumes, HandsBlock, OneOwner, Holds, Queues, Hands,
     WokenForWork, RefusedInWindow
<1> QED
  BY <1>1, <1>2, <1>3, <1>4, <1>5, <1>6, <1>7 DEF WlanJob

\* The invariant holds throughout.
LEMMA Invariance == Spec => []IInv
<1>1. IInv /\ [Next]_vars => IInv'
  <2> SUFFICES ASSUME IInv, [Next]_vars PROVE IInv'
      OBVIOUS
  <2>1. CASE UNCHANGED vars
    BY <2>1 DEF vars, workerVars, callerVars, IInv, TypeOK, Current, Doing, Resumes, HandsBlock,
       OneOwner, Holds, Queues, Hands, WokenForWork, RefusedInWindow
  <2> QED
    BY <2>1, CallerStep, WlanJobStep DEF Next
<1> QED
  BY InitIInv, <1>1, PTL DEF Spec

\* Every field of the queue keeps its type: in particular a block that is
\* queued or done holds a job, so no work is done through a freed block.
THEOREM QueueTypes == Spec => []TypeOK
<1>1. IInv => TypeOK
  BY DEF IInv
<1> QED
  BY Invariance, <1>1, PTL

\* rt_free in rt_wlan_workqueue_fun and in the error path free a work once,
\* when nobody else has it, however many threads hand in jobs and however the
\* heap reuses blocks.
THEOREM WorkHasOneOwner == Spec => []OneOwner
<1>1. IInv => OneOwner
  BY DEF IInv
<1> QED
  BY Invariance, <1>1, PTL

\* rt_thread_resume in rt_workqueue_dowork wakes the thread only out of its
\* own suspension and only when there is work in the list.
THEOREM ResumeFindsWork == Spec => []WokenForWork
<1>1. IInv => WokenForWork
  BY DEF IInv
<1> QED
  BY Invariance, <1>1, PTL

\* The test queue->work_current == work refuses a new job only by taking it
\* for the one just done, whose block it was given.
THEOREM RefusalsAreReuse == Spec => []RefusedInWindow
<1>1. IInv => RefusedInWindow
  BY DEF IInv
<1> QED
  BY Invariance, <1>1, PTL
-----------------------------------------------------------------------------
(* The order of the jobs *)

\* The jobs that the works in sequence s hold in heap h.
Jobs(s, h) == [i \in 1..Len(s) |-> h[s[i]]]

LEMMA JobsType ==
    ASSUME NEW s \in Seq(Blocks), NEW h, \A b \in Range(s) : h[b] \in Job
    PROVE  Jobs(s, h) \in Seq(Job) /\ Len(Jobs(s, h)) = Len(s)
<1>1. \A i \in 1..Len(s) : s[i] \in Range(s)
  BY DEF Range
<1>2. Jobs(s, h) \in [1..Len(s) -> Job]
  BY <1>1 DEF Jobs
<1> QED
  BY <1>2

LEMMA JobsAppend ==
    ASSUME NEW d \in Seq(Job), NEW s \in Seq(Blocks), NEW h, NEW x \in Blocks, h[x] \in Job,
           \A b \in Range(s) : h[b] \in Job
    PROVE  d \o Jobs(Append(s, x), h) = Append(d \o Jobs(s, h), h[x])
<1> DEFINE j == Jobs(s, h)
           k == Jobs(Append(s, x), h)
<1>1. j \in Seq(Job) /\ Len(j) = Len(s)
  BY JobsType
<1>2. k \in Seq(Job) /\ Len(k) = Len(s) + 1
  <2>1. Append(s, x) \in Seq(Blocks) /\ Len(Append(s, x)) = Len(s) + 1
    BY AppendProperties
  <2>2. \A b \in Range(Append(s, x)) : h[b] \in Job
    BY AppendQueues
  <2> QED
    BY <2>1, <2>2, JobsType
<1>3. \A i \in 1..Len(s) : j[i] = h[s[i]]
  BY DEF Jobs
<1>4. \A i \in 1..(Len(s) + 1) : k[i] = h[Append(s, x)[i]]
  BY AppendProperties DEF Jobs
<1> HIDE DEF j, k
<1>5. Append(j, h[x]) \in Seq(Job) /\ Len(Append(j, h[x])) = Len(s) + 1
  BY <1>1, AppendProperties
<1>6. ASSUME NEW i \in 1..(Len(s) + 1)
      PROVE  k[i] = Append(j, h[x])[i]
  <2>1. CASE i = Len(s) + 1
    <3>1. Append(s, x)[i] = x
      BY <2>1, AppendProperties
    <3>2. Append(j, h[x])[i] = h[x]
      BY <2>1, <1>1, AppendProperties
    <3> QED
      BY <1>4, <3>1, <3>2
  <2>2. CASE i # Len(s) + 1
    <3>1. Len(s) \in Nat /\ i \in 1..Len(s)
      BY <2>2, LenProperties
    <3>2. Append(s, x)[i] = s[i]
      BY <3>1, AppendProperties
    <3>3. Append(j, h[x])[i] = j[i]
      BY <3>1, <1>1, AppendProperties
    <3> QED
      BY <1>3, <1>4, <3>1, <3>2, <3>3
  <2> QED
    BY <2>1, <2>2
<1>7. k = Append(j, h[x])
  BY <1>2, <1>5, <1>6, SeqEqual
<1>8. d \o Append(j, h[x]) = Append(d \o j, h[x])
  <2>1. d \o Append(j, h[x]) = d \o (j \o <<h[x]>>)
    BY <1>1, AppendIsConcat
  <2>2. <<h[x]>> \in Seq(Job)
    OBVIOUS
  <2>3. d \o (j \o <<h[x]>>) = (d \o j) \o <<h[x]>>
    BY <1>1, <2>2, ConcatAssociative
  <2>4. d \o j \in Seq(Job)
    BY <1>1, ConcatProperties
  <2> QED
    BY <2>1, <2>3, <2>4, AppendIsConcat
<1> QED
  BY <1>7, <1>8 DEF j, k

LEMMA JobsHead ==
    ASSUME NEW d \in Seq(Job), NEW s \in Seq(Blocks), NEW h, NEW w \in Blocks, h[w] \in Job,
           \A b \in Range(s) : h[b] \in Job
    PROVE  d \o Jobs(<<w>> \o s, h) = Append(d, h[w]) \o Jobs(s, h)
<1> DEFINE j == Jobs(s, h)
           ws == <<w>> \o s
           k == Jobs(ws, h)
<1>1. j \in Seq(Job) /\ Len(j) = Len(s) /\ Len(s) \in Nat
  BY JobsType, LenProperties
<1>2. /\ ws \in Seq(Blocks) /\ Len(ws) = Len(s) + 1
      /\ \A i \in 1..(Len(s) + 1) : ws[i] = IF i <= 1 THEN <<w>>[i] ELSE s[i - 1]
  <2>1. <<w>> \in Seq(Blocks) /\ Len(<<w>>) = 1
    OBVIOUS
  <2> QED
    BY <2>1, <1>1, ConcatProperties
<1>3. <<h[w]>> \in Seq(Job) /\ Len(<<h[w]>>) = 1 /\ <<h[w]>>[1] = h[w] /\ <<w>>[1] = w
  OBVIOUS
<1>4. \A i \in 1..Len(s) : j[i] = h[s[i]]
  BY DEF Jobs
<1>5. \A i \in 1..Len(ws) : k[i] = h[ws[i]]
  BY DEF Jobs
<1> HIDE DEF ws
<1>6. k \in Seq(Job) /\ Len(k) = Len(s) + 1
  <2>1. ASSUME NEW i \in 1..(Len(s) + 1)
        PROVE  h[ws[i]] \in Job
    <3>1. CASE i = 1
      BY <1>2, <1>3, <3>1
    <3>2. CASE i # 1
      <4>1. i - 1 \in 1..Len(s) /\ ws[i] = s[i - 1]
        BY <1>1, <1>2, <3>2
      <4> QED
        BY <4>1 DEF Range
    <3> QED
      BY <3>1, <3>2
  <2>2. \A b \in Range(ws) : h[b] \in Job
    BY <1>2, <2>1, LenProperties DEF Range
  <2> QED
    BY <1>2, <2>2, JobsType
<1> HIDE DEF j, k
<1>7. /\ <<h[w]>> \o j \in Seq(Job) /\ Len(<<h[w]>> \o j) = Len(s) + 1
      /\ \A i \in 1..(Len(s) + 1) :
            (<<h[w]>> \o j)[i] = IF i <= 1 THEN <<h[w]>>[i] ELSE j[i - 1]
  BY <1>1, <1>3, ConcatProperties
<1>8. ASSUME NEW i \in 1..(Len(s) + 1)
      PROVE  k[i] = (<<h[w]>> \o j)[i]
  <2>1. CASE i = 1
    <3>1. ws[i] = w /\ (<<h[w]>> \o j)[i] = h[w]
      BY <1>2, <1>3, <1>7, <2>1
    <3> QED
      BY <1>2, <1>5, <3>1
  <2>2. CASE i # 1
    <3>1. i - 1 \in 1..Len(s) /\ ~(i <= 1)
      BY <1>1, <2>2
    <3>2. ws[i] = s[i - 1] /\ (<<h[w]>> \o j)[i] = j[i - 1]
      BY <1>2, <1>7, <3>1
    <3> QED
      BY <1>2, <1>4, <1>5, <3>1, <3>2
  <2> QED
    BY <2>1, <2>2
<1>9. k = <<h[w]>> \o j
  BY <1>6, <1>7, <1>8, SeqEqual
<1>10. d \o (<<h[w]>> \o j) = Append(d, h[w]) \o j
  BY <1>1, <1>3, ConcatAssociative, AppendIsConcat
<1> QED
  BY <1>9, <1>10 DEF j, k, ws

\* A step that leaves the pending works and what they hold alone keeps the order.
LEMMA SamePending ==
    ASSUME InOrder, accepted' = accepted, done' = done, Pending' = Pending,
           \A i \in 1..Len(Pending) : heap'[Pending[i]] = heap[Pending[i]]
    PROVE  InOrder'
<1>1. [i \in 1..Len(Pending) |-> heap'[Pending[i]]] = [i \in 1..Len(Pending) |-> heap[Pending[i]]]
  OBVIOUS
<1> QED
  BY <1>1 DEF InOrder

\* The works still to be done hold jobs, and are queued or being done.
LEMMA PendingOwned ==
    ASSUME IInv
    PROVE  /\ Pending \in Seq(Blocks)
           /\ \A i \in 1..Len(Pending) :
                 heap[Pending[i]] \in Job /\ (Holds(Pending[i]) \/ Queues(Pending[i]))
<1>1. \A i \in 1..Len(work_list) :
         work_list[i] \in Blocks /\ Queues(work_list[i]) /\ heap[work_list[i]] \in Job
  BY DEF IInv, TypeOK, OneOwner, Queues, Range
<1>2. CASE worker \in {"call", "waiting", "woken"}
  <2>1. work \in Blocks /\ Holds(work) /\ heap[work] \in Job
    BY <1>2 DEF IInv, TypeOK, Current, Doing, OneOwner, Holds
  <2>2. Pending = <<work>> \o work_list /\ work_list \in Seq(Blocks)
    BY <1>2 DEF Pending, IInv, TypeOK
  <2>3. ASSUME NEW i \in 1..Len(Pending), i # 1
        PROVE  i - 1 \in 1..Len(work_list) /\ Pending[i] = work_list[i - 1]
    BY <2>1, <2>2, <2>3
  <2>4. Pending \in Seq(Blocks)
    BY <2>1, <2>2
  <2>5. Pending[1] = work
    BY <2>1, <2>2
  <2> QED
    BY <1>1, <2>1, <2>3, <2>4, <2>5
<1>3. CASE worker \notin {"call", "waiting", "woken"}
  BY <1>1, <1>3 DEF Pending, IInv, TypeOK
<1> QED
  BY <1>2, <1>3

\* Every step of the callers and of wlan_job keeps the order.
LEMMA OrderStep == ASSUME IInv, InOrder, [Next]_vars PROVE InOrder'
<1> USE DEF workerVars, callerVars, Runs
<1>1. ASSUME NEW c \in Callers, NEW b \in Blocks, Malloc(c, b) PROVE InOrder'
  <2>1. ~Holds(b) /\ ~Queues(b)
    BY <1>1 DEF Malloc, IInv, OneOwner
  <2>2. \A i \in 1..Len(Pending) : Pending[i] # b
    BY <2>1, PendingOwned
  <2>3. Pending' = Pending
    BY <1>1 DEF Malloc, Pending
  <2>4. \A i \in 1..Len(Pending) : heap'[Pending[i]] = heap[Pending[i]]
    BY <1>1, <2>2, PendingOwned DEF Malloc, IInv, TypeOK
  <2> QED
    BY <1>1, <2>3, <2>4, SamePending DEF Malloc
<1>2. ASSUME NEW c \in Callers, MallocFails(c) PROVE InOrder'
  BY <1>2 DEF MallocFails, InOrder, Pending
<1>3. ASSUME NEW c \in Callers, Refuse(c) PROVE InOrder'
  BY <1>3 DEF Refuse, InOrder, Pending
<1>4. ASSUME NEW c \in Callers, Queue(c) PROVE InOrder'
  <2> DEFINE x == block[c]
  <2>1. x \in Blocks /\ heap[x] \in Job
    BY <1>4 DEF Queue, IInv, TypeOK, HandsBlock, OneOwner, Hands
  <2>2. Pending \in Seq(Blocks) /\ \A b \in Range(Pending) : heap[b] \in Job
    BY PendingOwned DEF Range
  <2>3. Pending' = Append(Pending, x)
    <3>1. work_list \in Seq(Blocks) /\ work_list' = Append(work_list, x) /\ worker' = worker /\ work' = work
      BY <1>4 DEF Queue, IInv, TypeOK
    <3>2. <<work>> \o Append(work_list, x) = Append(<<work>> \o work_list, x)
      BY <2>1, <3>1
    <3> QED
      BY <3>1, <3>2 DEF Pending
  <2>4. accepted' = Append(accepted, heap[x]) /\ done' = done /\ heap' = heap
    BY <1>4 DEF Queue
  <2>5. done \in Seq(Job)
    BY DEF IInv, TypeOK
  <2>6. done \o Jobs(Append(Pending, x), heap) = Append(done \o Jobs(Pending, heap), heap[x])
    BY <2>1, <2>2, <2>5, JobsAppend
  <2>7. accepted = done \o Jobs(Pending, heap)
    BY DEF InOrder, Jobs
  <2>8. accepted' = done' \o Jobs(Pending', heap')
    BY <2>3, <2>4, <2>6, <2>7
  <2> QED
    BY <2>8 DEF InOrder, Jobs
<1>5. ASSUME NEW c \in Callers, Resume(c) PROVE InOrder'
  <2>1. worker # "waiting" /\ worker # "woken"
    BY <1>5, NullAssumption DEF Resume, IInv, Resumes, Current, Doing, WokenForWork
  <2>2. Pending' = Pending
    BY <1>5, <2>1 DEF Resume, Pending
  <2> QED
    BY <1>5, <2>2, SamePending DEF Resume
<1>6. ASSUME NEW c \in Callers, GiveUp(c) PROVE InOrder'
  <2>1. block[c] \in Blocks /\ ~Holds(block[c]) /\ ~Queues(block[c])
    BY <1>6 DEF GiveUp, IInv, HandsBlock, OneOwner, Hands
  <2>2. \A i \in 1..Len(Pending) : Pending[i] # block[c]
    BY <2>1, PendingOwned
  <2>3. Pending' = Pending
    BY <1>6 DEF GiveUp, Pending
  <2>4. \A i \in 1..Len(Pending) : heap'[Pending[i]] = heap[Pending[i]]
    BY <1>6, <2>2, PendingOwned DEF GiveUp, IInv, TypeOK
  <2> QED
    BY <1>6, <2>3, <2>4, SamePending DEF GiveUp
<1>7. CASE Check
  BY <1>7, SamePending DEF Check, Pending
<1>8. CASE Suspend
  BY <1>8, SamePending DEF Suspend, Pending
<1>9. CASE Take
  <2>1. work_list \in Seq(Blocks) /\ work_list # <<>>
    BY <1>9 DEF Take, IInv, TypeOK
  <2>2. <<Head(work_list)>> \o Tail(work_list) = work_list
    BY <2>1
  <2>3. Pending' = Pending
    BY <1>9, <2>2 DEF Take, Pending
  <2> QED
    BY <1>9, <2>3, SamePending DEF Take
<1>10. CASE Wait
  BY <1>10, SamePending DEF Wait, Pending
<1>11. CASE Call
  <2>1. work \in Blocks /\ heap[work] \in Job /\ done \in Seq(Job)
    BY <1>11 DEF Call, IInv, TypeOK, Current, Doing, OneOwner, Holds
  <2>2. work_list \in Seq(Blocks) /\ \A b \in Range(work_list) : heap[b] \in Job
    BY DEF IInv, TypeOK, OneOwner, Queues, Range
  <2>3. Pending = <<work>> \o work_list /\ Pending' = work_list
    BY <1>11 DEF Call, Pending
  <2>4. accepted' = accepted /\ done' = Append(done, heap[work]) /\ heap' = heap
    BY <1>11 DEF Call
  <2>5. accepted = done \o Jobs(Pending, heap)
    BY DEF InOrder, Jobs
  <2>6. accepted' = done' \o Jobs(Pending', heap')
    BY <2>1, <2>2, <2>3, <2>4, <2>5, JobsHead
  <2> QED
    BY <2>6 DEF InOrder, Jobs
<1>12. CASE Free
  <2>1. work \in Blocks /\ ~Queues(work)
    BY <1>12 DEF Free, IInv, Current, Doing, OneOwner, Holds
  <2>2. Pending = work_list /\ Pending' = work_list
    BY <1>12 DEF Free, Pending
  <2>3. \A i \in 1..Len(work_list) : work_list[i] # work
    BY <2>1 DEF Queues, Range, IInv, TypeOK
  <2>4. \A i \in 1..Len(Pending) : heap'[Pending[i]] = heap[Pending[i]]
    BY <1>12, <2>2, <2>3, PendingOwned DEF Free, IInv, TypeOK
  <2> QED
    BY <1>12, <2>2, <2>4, SamePending DEF Free
<1>13. CASE Clear
  BY <1>13, SamePending DEF Clear, Pending
<1>14. CASE UNCHANGED vars
  BY <1>14 DEF vars, InOrder, Pending
<1> QED
  BY <1>1, <1>2, <1>3, <1>4, <1>5, <1>6, <1>7, <1>8, <1>9, <1>10, <1>11, <1>12, <1>13, <1>14
  DEF Next, Dowork, WlanJob

\* Jobs handed to rt_wlan_workqueue_dowork are done in the order in which the
\* queue accepted them, each once, and what is not yet done is still queued.
THEOREM DoneInOrder == Spec => []InOrder
<1>1. Init => InOrder
  <2> SUFFICES ASSUME Init PROVE InOrder
      OBVIOUS
  <2>1. Pending = <<>> /\ done = <<>> /\ accepted = <<>>
    BY DEF Init, Pending
  <2>2. [i \in 1..Len(Pending) |-> heap[Pending[i]]] = <<>>
    BY <2>1
  <2> QED
    BY <2>1, <2>2 DEF InOrder
<1>2. IInv /\ InOrder /\ [Next]_vars => InOrder'
  BY OrderStep
<1> QED
  BY <1>1, <1>2, Invariance, PTL DEF Spec
-----------------------------------------------------------------------------
(* The wake-up *)

\* Every step of the callers and of wlan_job leaves somebody to wake it.
LEMMA WakeupStep == ASSUME IInv, NoLostWakeup, [Next]_vars PROVE NoLostWakeup'
<1> DEFINE Asleep == worker \in {"suspend", "suspended"}
           Comes == \E c \in Callers : caller[c] = "resume"
<1> USE DEF workerVars, callerVars, Runs
<1>t. caller \in [Callers -> {"idle", "dowork", "resume", "busy"}]
  BY DEF IInv, TypeOK
\* A step that ends no resume, queues nothing and does not send wlan_job to sleep.
<1>1. ASSUME Comes => Comes', missed => missed', Asleep' => Asleep, work_list' = work_list
      PROVE  NoLostWakeup'
  BY <1>1 DEF NoLostWakeup
<1>2. ASSUME NEW c \in Callers, NEW s \in {"dowork", "busy", "idle"}, caller[c] # "resume",
             caller' = [caller EXCEPT ![c] = s], UNCHANGED <<missed, worker, work_list>>
      PROVE  NoLostWakeup'
  <2>1. \A d \in Callers : caller[d] = "resume" => caller'[d] = "resume"
    BY <1>t, <1>2
  <2> QED
    BY <1>1, <1>2, <2>1
<1>3. ASSUME NEW c \in Callers, Dowork(c) \/ MallocFails(c) \/ \E b \in Blocks : Malloc(c, b)
      PROVE  NoLostWakeup'
  <2>1. CASE Queue(c)
    <3>1. work_current = NULL => caller'[c] = "resume"
      BY <1>t, <2>1 DEF Queue
    <3>2. Asleep => work_current = NULL
      BY DEF IInv, Current, Doing
    <3>3. worker' = worker
      BY <2>1 DEF Queue
    <3> QED
      BY <3>1, <3>2, <3>3 DEF NoLostWakeup
  \* The window: wlan_job has looked at the list and does not look again.
  <2>2. CASE Resume(c)
    <3>1. worker = "suspend" => missed'
      BY <2>2 DEF Resume
    <3>2. worker = "suspended" => worker' = "take"
      BY <2>2 DEF Resume
    <3>3. ~Asleep => ~Asleep'
      BY <2>2 DEF Resume
    <3> QED
      BY <3>1, <3>2, <3>3 DEF NoLostWakeup
  <2>3. CASE Refuse(c)
    BY <1>2, <2>3 DEF Refuse
  <2>4. CASE GiveUp(c)
    BY <1>2, <2>4 DEF GiveUp
  <2>5. CASE \E b \in Blocks : Malloc(c, b)
    BY <1>2, <2>5 DEF Malloc
  <2>6. CASE MallocFails(c)
    BY <1>1, <2>6 DEF MallocFails
  <2> QED
    BY <1>3, <2>1, <2>2, <2>3, <2>4, <2>5, <2>6 DEF Dowork
<1>4. CASE WlanJob
  <2>1. CASE Check
    BY <2>1 DEF Check, NoLostWakeup
  <2>2. CASE Suspend
    BY <1>1, <2>2 DEF Suspend
  <2>3. CASE Take \/ Wait \/ Call \/ Free \/ Clear
    BY <2>3 DEF Take, Wait, Call, Free, Clear, NoLostWakeup
  <2> QED
    BY <1>4, <2>1, <2>2, <2>3 DEF WlanJob
<1>5. CASE UNCHANGED vars
  BY <1>1, <1>5 DEF vars
<1> QED
  BY <1>3, <1>4, <1>5 DEF Next

\* Work is left to a suspended wlan_job only by a rt_thread_resume that came
\* between its look at the list and its rt_thread_suspend: in no other order
\* of the callers and of wlan_job is a wake-up lost.
THEOREM WakeupsAreKept == Spec => []NoLostWakeup
<1>1. Init => NoLostWakeup
  BY DEF Init, NoLostWakeup
<1>2. IInv /\ NoLostWakeup /\ [Next]_vars => NoLostWakeup'
  BY WakeupStep
<1> QED
  BY <1>1, <1>2, Invariance, PTL DEF Spec
=============================================================================
