------------------------------ MODULE WorkQueue ------------------------------
(***************************************************************************)
(* The queue through which the WLAN manager and the protocol layer hand    *)
(* jobs to the thread wlan_job: rt_wlan_workqueue_dowork of                *)
(* wlan_workqueue.c over rt_workqueue_dowork and _workqueue_thread_entry   *)
(* of workqueue.c.                                                         *)
(*                                                                         *)
(* Stretches with interrupts disabled are one step.  wlan_job has a lower  *)
(* priority than every thread that hands it jobs, so it takes no step      *)
(* while one of them is inside dowork; the callers preempt each other and  *)
(* wlan_job everywhere else.                                               *)
(***************************************************************************)
EXTENDS Integers, Sequences, SequencesExt

CONSTANTS
    Callers,      \* the threads that hand in jobs
    Blocks,       \* heap blocks a struct rt_wlan_work may lie in
    NULL,
    MaxJobs       \* bound on the jobs handed in

ASSUME NullAssumption == NULL \notin Blocks
ASSUME MaxJobsAssumption == MaxJobs \in Nat

Job == 1..MaxJobs

VARIABLES
    work_list,    \* the queued works, first to be done first
    work_current, \* the work being done
    worker,       \* where wlan_job is
    work,         \* its local: the work it took
    heap,         \* the job a block holds, 0 when it is free
    caller,       \* where each caller is
    block,        \* the work it allocated
    handed,       \* number of jobs callers came with
    accepted,     \* the jobs queued, in that order
    done,         \* the jobs done, in that order
    missed        \* a resume found wlan_job about to suspend itself

workerVars == <<worker, work>>
callerVars == <<caller, block>>
vars == <<work_list, work_current, workerVars, heap, callerVars, handed,
          accepted, done, missed>>

\* rt_wlan_workqueue_init; the thread has not run yet.
Init ==
    /\ work_list = <<>> /\ work_current = NULL
    /\ worker = "check" /\ work = NULL
    /\ heap = [b \in Blocks |-> 0]
    /\ caller = [c \in Callers |-> "idle"] /\ block = [c \in Callers |-> NULL]
    /\ handed = 0 /\ accepted = <<>> /\ done = <<>> /\ missed = FALSE
-----------------------------------------------------------------------------
(* rt_wlan_workqueue_dowork in a thread of the WLAN manager or lwIP *)

\* Mutant: the job is not filled in before the work is queued.
MallocUnfilled(c, b) ==
    /\ caller[c] = "idle" /\ handed < MaxJobs
    /\ heap[b] = 0
    /\ handed' = handed + 1
    /\ caller' = [caller EXCEPT ![c] = "dowork"]
    /\ block' = [block EXCEPT ![c] = b]
    /\ UNCHANGED <<work_list, work_current, workerVars, heap, accepted, done, missed>>

Malloc(c, b) ==
    /\ caller[c] = "idle" /\ handed < MaxJobs
    /\ heap[b] = 0
    /\ handed' = handed + 1
    /\ heap' = [heap EXCEPT ![b] = handed + 1]
    /\ caller' = [caller EXCEPT ![c] = "dowork"]
    /\ block' = [block EXCEPT ![c] = b]
    /\ UNCHANGED <<work_list, work_current, workerVars, accepted, done, missed>>

MallocFails(c) ==
    /\ caller[c] = "idle" /\ handed < MaxJobs
    /\ handed' = handed + 1
    /\ UNCHANGED <<work_list, work_current, workerVars, heap, callerVars, accepted, done, missed>>

\* rt_workqueue_dowork up to rt_hw_interrupt_enable.
Refuse(c) ==
    /\ caller[c] = "dowork" /\ work_current = block[c]
    /\ caller' = [caller EXCEPT ![c] = "busy"]
    /\ UNCHANGED <<work_list, work_current, workerVars, heap, block, handed, accepted, done, missed>>

\* Mutant: the work is put in front of the queue.
QueueFirst(c) ==
    /\ caller[c] = "dowork" /\ work_current # block[c]
    /\ work_list' = <<block[c]>> \o work_list
    /\ accepted' = Append(accepted, heap[block[c]])
    /\ caller' = [caller EXCEPT ![c] = IF work_current = NULL THEN "resume" ELSE "idle"]
    /\ UNCHANGED <<work_current, workerVars, heap, block, handed, done, missed>>

\* Mutant: the thread is resumed whether or not it is doing work.
QueueAlwaysResumes(c) ==
    /\ caller[c] = "dowork" /\ work_current # block[c]
    /\ work_list' = Append(work_list, block[c])
    /\ accepted' = Append(accepted, heap[block[c]])
    /\ caller' = [caller EXCEPT ![c] = "resume"]
    /\ UNCHANGED <<work_current, workerVars, heap, block, handed, done, missed>>

\* Mutant: the test of work_current is turned round.
QueueNeverResumes(c) ==
    /\ caller[c] = "dowork" /\ work_current # block[c]
    /\ work_list' = Append(work_list, block[c])
    /\ accepted' = Append(accepted, heap[block[c]])
    /\ caller' = [caller EXCEPT ![c] = IF work_current # NULL THEN "resume" ELSE "idle"]
    /\ UNCHANGED <<work_current, workerVars, heap, block, handed, done, missed>>

Queue(c) ==
    /\ caller[c] = "dowork" /\ work_current # block[c]
    /\ work_list' = Append(work_list, block[c])
    /\ accepted' = Append(accepted, heap[block[c]])
    /\ caller' = [caller EXCEPT ![c] = IF work_current = NULL THEN "resume" ELSE "idle"]
    /\ UNCHANGED <<work_current, workerVars, heap, block, handed, done, missed>>

\* rt_thread_resume: a thread that is not suspended is left alone.  wlan_job
\* may be suspended in its own loop or inside the job it is doing.
Resume(c) ==
    /\ caller[c] = "resume"
    /\ worker' = CASE worker = "suspended" -> "take"
                   [] worker = "waiting"   -> "woken"
                   [] OTHER                -> worker
    /\ missed' = CASE worker = "suspend"   -> TRUE
                   [] worker = "suspended" -> FALSE
                   [] OTHER                -> missed
    /\ caller' = [caller EXCEPT ![c] = "idle"]
    /\ UNCHANGED <<work_list, work_current, work, heap, block, handed, accepted, done>>

\* The error path of rt_wlan_workqueue_dowork.
GiveUp(c) ==
    /\ caller[c] = "busy"
    /\ heap' = [heap EXCEPT ![block[c]] = 0]
    /\ caller' = [caller EXCEPT ![c] = "idle"]
    /\ UNCHANGED <<work_list, work_current, workerVars, block, handed, accepted, done, missed>>

Dowork(c) == Refuse(c) \/ Queue(c) \/ Resume(c) \/ GiveUp(c)
-----------------------------------------------------------------------------
(* _workqueue_thread_entry *)

\* The callers have the higher priority.
Runs(here) == worker = here /\ \A c \in Callers : caller[c] = "idle"

Check ==
    /\ Runs("check")
    /\ worker' = IF work_list = <<>> THEN "suspend" ELSE "take"
    /\ UNCHANGED <<work_list, work_current, work, heap, callerVars, handed, accepted, done, missed>>

\* rt_thread_suspend and rt_schedule.
Suspend ==
    /\ Runs("suspend")
    /\ worker' = "suspended"
    /\ UNCHANGED <<work_list, work_current, work, heap, callerVars, handed, accepted, done, missed>>

\* Mutant: the work stays in the list.
TakeKeeps ==
    /\ Runs("take") /\ work_list # <<>>
    /\ work' = Head(work_list) /\ work_current' = Head(work_list)
    /\ worker' = "call"
    /\ UNCHANGED <<work_list, heap, callerVars, handed, accepted, done, missed>>

Take ==
    /\ Runs("take") /\ work_list # <<>>
    /\ work' = Head(work_list) /\ work_current' = Head(work_list)
    /\ work_list' = Tail(work_list)
    /\ worker' = "call"
    /\ UNCHANGED <<heap, callerVars, handed, accepted, done, missed>>

\* The job waits for a mutex or for another thread.
Wait ==
    /\ Runs("call")
    /\ worker' = "waiting"
    /\ UNCHANGED <<work_list, work_current, work, heap, callerVars, handed, accepted, done, missed>>

\* The job ends.
Call ==
    /\ \E here \in {"call", "waiting", "woken"} : Runs(here)
    /\ done' = Append(done, heap[work])
    /\ worker' = "free"
    /\ UNCHANGED <<work_list, work_current, work, heap, callerVars, handed, accepted, missed>>

\* rt_wlan_workqueue_fun frees the work its caller still has as current.
Free ==
    /\ Runs("free")
    /\ heap' = [heap EXCEPT ![work] = 0]
    /\ worker' = "clear"
    /\ UNCHANGED <<work_list, work_current, work, callerVars, handed, accepted, done, missed>>

\* Mutant: work_current is not reset.
ClearForgets ==
    /\ Runs("clear")
    /\ worker' = "check"
    /\ UNCHANGED <<work_list, work_current, work, heap, callerVars, handed, accepted, done, missed>>

\* The completion semaphore that follows has no taker.
Clear ==
    /\ Runs("clear")
    /\ work_current' = NULL
    /\ worker' = "check"
    /\ UNCHANGED <<work_list, work, heap, callerVars, handed, accepted, done, missed>>

WlanJob == Check \/ Suspend \/ Take \/ Wait \/ Call \/ Free \/ Clear

Next ==
    \/ WlanJob
    \/ \E c \in Callers : Dowork(c) \/ MallocFails(c) \/ \E b \in Blocks : Malloc(c, b)

\* Threads are scheduled, and a job that waits gets what it waits for.
Spec ==
    /\ Init /\ [][Next]_vars
    /\ WF_vars(WlanJob) /\ \A c \in Callers : WF_vars(Dowork(c))
-----------------------------------------------------------------------------
(* Properties *)

TypeOK ==
    /\ work_list \in Seq(Blocks) /\ work_current \in Blocks \cup {NULL}
    /\ worker \in {"check", "suspend", "suspended", "take", "call", "waiting",
                   "woken", "free", "clear"}
    /\ work \in Blocks \cup {NULL}
    /\ heap \in [Blocks -> {0} \cup Job]
    /\ caller \in [Callers -> {"idle", "dowork", "resume", "busy"}]
    /\ block \in [Callers -> Blocks \cup {NULL}]
    /\ handed \in 0..MaxJobs
    /\ accepted \in Seq(Job) /\ done \in Seq(Job) /\ missed \in BOOLEAN

\* Who still uses block b: wlan_job from Take to Free, the queue, a caller.
Holds(b) == worker \in {"call", "waiting", "woken", "free"} /\ work = b
Queues(b) == b \in Range(work_list)
Hands(c, b) == caller[c] \in {"dowork", "busy"} /\ block[c] = b

\* A work has one owner at a time and is freed by its last: nothing queued or
\* being done is freed, nothing is queued twice, and neither a finished nor a
\* refused job leaves a block behind, however blocks are reused.
OneOwner ==
    /\ \A b \in Blocks :
        /\ heap[b] # 0 <=> Holds(b) \/ Queues(b) \/ \E c \in Callers : Hands(c, b)
        /\ Holds(b) => ~Queues(b)
        /\ \A c \in Callers : Hands(c, b) =>
              /\ ~Holds(b) /\ ~Queues(b)
              /\ \A d \in Callers \ {c} : ~Hands(d, b)
    /\ IsInjective(work_list)

\* A resume wakes wlan_job only out of the loop's own suspension, and it finds
\* work then: it neither takes the head of an empty list for a work nor goes on
\* in the middle of a job without the mutex that job waited for.
WokenForWork ==
    /\ worker = "take" => work_list # <<>>
    /\ worker # "woken"

\* The works not yet done, in the order in which they will be.
Pending == IF worker \in {"call", "waiting", "woken"} THEN <<work>> \o work_list ELSE work_list

\* Accepted jobs are done in the order of acceptance, each once.
InOrder == accepted = done \o [i \in 1..Len(Pending) |-> heap[Pending[i]]]

\* A job is refused only in the window between the rt_free of the running work
\* and the reset of work_current, when malloc returned the same block again.
RefusedInWindow ==
    \A c \in Callers : caller[c] = "busy" => worker = "clear" /\ block[c] = work

\* wlan_job suspends itself, or stays suspended, with work in the list only
\* while a caller is still about to resume it, or when the resume came in the
\* window: the safety core of EventuallyDone.
NoLostWakeup ==
    worker \in {"suspend", "suspended"} /\ work_list # <<>> =>
        missed \/ \E c \in Callers : caller[c] = "resume"

\* Every accepted job is done unless a resume comes between wlan_job's look at
\* the list and its rt_thread_suspend: the only lost wake-up there is.  The
\* next job that finds wlan_job suspended wakes it for those left behind too.
EventuallyDone ==
    \A j \in Job : j \in Range(accepted) ~> (j \in Range(done) \/ missed)
==============================================================================
