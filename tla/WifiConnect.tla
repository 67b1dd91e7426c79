----------------------------- MODULE WifiConnect -----------------------------
(***************************************************************************)
(* wifi_auto_connect of wifi_connect.c and what it calls: scanning,        *)
(* connecting and event handling of the WLAN manager (wlan_mgnt.c), the    *)
(* address polling of its lwIP layer (wlan_lwip.c).  Three threads meet:   *)
(*   - main runs wifi_auto_connect;                                        *)
(*   - the WLAN driver reports access points, connections and their loss   *)
(*     (external; its calls of rt_wlan_dev_indicate_event_handle are not); *)
(*   - wlan_job does the jobs of the work queue, see WorkQueue, among them *)
(*     the polling for an address which a one-shot timer asks for.         *)
(* main has the higher priority of main and wlan_job.  mgnt_mutex is taken *)
(* by main only, so that its hold count is all there is to it.             *)
(***************************************************************************)
EXTENDS Integers, Sequences, SequencesExt

CONSTANTS
    APs,            \* access points in range
    Rank,           \* their order of preference: signal, channel, data rate
    Ours,           \* those with our SSID
    SCAN_CACHE_NUM, \* RT_WLAN_SCAN_CACHE_NUM
    MaxSessions     \* bound on the connections made

ASSUME CacheAssumption == SCAN_CACHE_NUM \in Nat \ {0} /\ MaxSessions \in Nat
ASSUME RankAssumption == Rank \in [APs -> Nat] /\ Ours \subseteq APs

VARIABLES
    \* main
    main, caller,   \* where wifi_auto_connect is; who called scan_sync
    mgnt,           \* how often main holds mgnt_mutex
    recved, info,   \* locals of rt_wlan_connect: events received, AP found
    best,           \* info_best: "null", into the "table" or one since "freed"
    \* the WLAN manager
    cache,          \* scan_result
    leaked,         \* the driver left scan_result_mutex locked
    complete,       \* the events of the completion main waits on
    waiting,        \* whether there is one
    state,          \* _sta_mgnt.state
    sem, value,     \* net_ready and its count
    registered,     \* the ready handler is in event_tab
    \* the driver and the radio
    device,         \* the station device exists
    scanning, air,  \* what the radio is doing
    event, stage,   \* the event being dispatched and how far it got
    session,        \* connections made so far
    \* lwIP's side
    connected_flag, timer, dhcp,
    ip,             \* the session the address is from, 0 for none
    jobs,           \* works queued for wlan_job
    job,            \* where wlan_job is
    handler,        \* the handler it fetched
    odd             \* what happened that should not, or hardly ever

mainVars == <<main, caller, mgnt, recved, info, best>>
mgntVars == <<cache, leaked, complete, waiting>>
semVars == <<sem, value, registered>>
radio == <<device, scanning, air>>
lwip == <<connected_flag, timer, dhcp, ip>>
worker == <<jobs, job, handler>>
net == <<radio, event, stage, session, lwip, worker>>
vars == <<mainVars, mgntVars, state, semVars, net, odd>>

\* The driver has been initialised before main starts, or failed to be.
Init ==
    /\ main = "scan" /\ caller = "app" /\ mgnt = 0
    /\ recved = {} /\ info = FALSE /\ best = "null"
    /\ cache = <<>> /\ leaked = FALSE /\ complete = {} /\ waiting = FALSE
    /\ state = {} /\ sem = "none" /\ value = 0 /\ registered = FALSE
    /\ device \in BOOLEAN /\ scanning = FALSE /\ air = "none"
    /\ event = "none" /\ stage = "none" /\ session = 0
    /\ connected_flag = FALSE /\ timer = FALSE /\ dhcp = FALSE /\ ip = 0
    /\ jobs = <<>> /\ job = "idle" /\ handler = FALSE
    /\ odd = {}

Goto(here, there) == main = here /\ main' = there

\* rt_wlan_complete_create and rt_wlan_complete_delete.
Create == waiting' = TRUE /\ complete' = {}
Delete == waiting' = FALSE /\ complete' = {}

\* rt_mutex_release by main, n times; releasing what one does not own does
\* nothing.
Released(n) == IF mgnt < n THEN 0 ELSE mgnt - n
-----------------------------------------------------------------------------
(* rt_wlan_scan_sync and rt_wlan_scan_with_info, called by main twice *)

\* rt_wlan_scan_sync returned null.
NoScan == IF caller = "app" THEN "done" ELSE "find again"
AfterScan == IF caller = "app" THEN "clean" ELSE "find again"

ScanWithoutDevice ==
    /\ ~device /\ Goto("scan", NoScan)
    /\ UNCHANGED <<caller, mgnt, recved, info, best, mgntVars, state, semVars, net, odd>>

\* rt_wlan_complete_create fails; it and its caller both release mgnt_mutex.
ScanNoMemory ==
    /\ device /\ Goto("scan", AfterScan)
    /\ mgnt' = Released(1)
    /\ UNCHANGED <<caller, recved, info, best, mgntVars, state, semVars, net, odd>>

ScanCreate ==
    /\ device /\ Goto("scan", "scan run")
    /\ mgnt' = mgnt + 2
    /\ Create
    /\ UNCHANGED <<caller, recved, info, best, cache, leaked, state, semVars, net, odd>>

ScanRun ==
    /\ Goto("scan run", "scan wait")
    /\ scanning' = TRUE
    /\ UNCHANGED <<caller, mgnt, recved, info, best, mgntVars, state, semVars, device, air, event, stage, session, lwip, worker, odd>>

\* Mutant: the error path keeps mgnt_mutex.
ScanFailsLocked ==
    /\ Goto("scan run", NoScan)
    /\ Delete
    /\ UNCHANGED <<caller, mgnt, recved, info, best, cache, leaked, state, semVars, net, odd>>

ScanFails ==
    /\ Goto("scan run", NoScan)
    /\ Delete /\ mgnt' = Released(2)
    /\ UNCHANGED <<caller, recved, info, best, cache, leaked, state, semVars, net, odd>>

\* Mutant: the wait has no time-out.
ScanWaitForever ==
    /\ Goto("scan wait", "scan end")
    /\ "scan done" \in complete
    /\ UNCHANGED <<caller, mgnt, recved, info, best, mgntVars, state, semVars, net, odd>>

\* rt_wlan_complete_wait returns, with the event or without.
ScanWait ==
    /\ Goto("scan wait", "scan end")
    /\ odd' = IF "scan done" \in complete THEN odd ELSE odd \cup {"scan timeout"}
    /\ UNCHANGED <<caller, mgnt, recved, info, best, mgntVars, state, semVars, net>>

ScanEnd ==
    /\ Goto("scan end", AfterScan)
    /\ Delete /\ mgnt' = Released(2)
    /\ UNCHANGED <<caller, recved, info, best, cache, leaked, state, semVars, net, odd>>

\* rt_wlan_scan_result_clean.
Clean ==
    /\ Goto("clean", IF caller = "app" THEN "sem init" ELSE "check info")
    /\ ~leaked
    /\ cache' = <<>>
    /\ UNCHANGED <<caller, mgnt, recved, info, best, leaked, complete, waiting, state, semVars, net, odd>>

Scan ==
    \/ ScanWithoutDevice \/ ScanNoMemory \/ ScanCreate \/ ScanRun \/ ScanFails
    \/ ScanWait \/ ScanEnd \/ Clean
-----------------------------------------------------------------------------
(* wifi_auto_connect after the first scan *)

SemInit ==
    /\ Goto("sem init", "register")
    /\ sem' = "live" /\ value' = 0
    /\ UNCHANGED <<caller, mgnt, recved, info, best, mgntVars, state, registered, net, odd>>

Register ==
    /\ Goto("register", "find")
    /\ registered' = TRUE
    /\ mgnt' = mgnt + 1                 \* rt_wlan_connect's MGNT_LOCK
    /\ UNCHANGED <<caller, recved, info, best, mgntVars, state, sem, value, net, odd>>

Finds == \E i \in 1..Len(cache) : cache[i] \in Ours

\* rt_wlan_find_best_by_cache up to the unlock ...
FindBest ==
    /\ Goto("find", "copy") \/ Goto("find again", "copy again")
    /\ ~leaked
    /\ best' = IF Finds THEN "table" ELSE "null"
    /\ UNCHANGED <<caller, mgnt, recved, info, mgntVars, state, semVars, net, odd>>

\* ... and the copy after it.  A freed table may still hold the information
\* or not.
Copied(found) ==
    /\ info' = found
    /\ best = "null" => ~found
    /\ best = "table" => found
    /\ odd' = IF best = "freed" THEN odd \cup {"freed read"} ELSE odd
    /\ best' = "null"

CopyBest ==
    /\ \E found \in BOOLEAN : Copied(found)
    /\ \/ Goto("copy", IF best = "null" THEN "scan" ELSE "check info") /\ caller' = "connect"
       \/ Goto("copy again", "clean") /\ UNCHANGED caller
    /\ UNCHANGED <<mgnt, recved, mgntVars, state, semVars, net>>

\* What happened to the scans matters no more from here on.
CheckInfo ==
    /\ Goto("check info", IF info THEN "join" ELSE "delay")
    /\ mgnt' = IF info THEN mgnt ELSE Released(1)
    /\ info' = FALSE /\ odd' = odd \ {"scan timeout", "freed read"}
    /\ UNCHANGED <<caller, recved, best, mgntVars, state, semVars, net>>

JoinNoMemory ==
    /\ Goto("join", "delay")
    /\ mgnt' = Released(2)
    /\ UNCHANGED <<caller, recved, info, best, mgntVars, state, semVars, net, odd>>

JoinCreate ==
    /\ Goto("join", "connect adv")
    /\ Create
    /\ UNCHANGED <<caller, mgnt, recved, info, best, cache, leaked, state, semVars, net, odd>>

\* rt_wlan_connect_adv; the driver takes the request or refuses it.
ConnectAdv ==
    /\ \/ /\ Goto("connect adv", "connect wait")
          /\ state' = state \cup {"connecting"} /\ air' = "joining"
          /\ UNCHANGED <<mgnt, waiting, complete>>
       \/ /\ Goto("connect adv", "delay")
          /\ state' = state \ {"connecting"}
          /\ Delete /\ mgnt' = Released(1)
          /\ UNCHANGED air
    /\ UNCHANGED <<caller, recved, info, best, cache, leaked, semVars, device, scanning, event, stage, session, lwip, worker, odd>>

ConnectWait ==
    /\ Goto("connect wait", "connect end")
    /\ recved' = IF complete \cap {"connect", "fail"} # {} THEN complete ELSE {}
    /\ UNCHANGED <<caller, mgnt, info, best, mgntVars, state, semVars, net, odd>>

ConnectEnd ==
    /\ Goto("connect end", IF "connect" \in recved THEN "take" ELSE "delay")
    /\ Delete /\ mgnt' = Released(1) /\ recved' = {}
    /\ UNCHANGED <<caller, info, best, cache, leaked, state, semVars, net, odd>>

\* rt_sem_take returns with the semaphore or at the time-out.
Take ==
    /\ Goto("take", "unregister")
    /\ \/ value > 0 /\ value' = value - 1 /\ UNCHANGED odd
       \/ value = 0 /\ odd' = odd \cup {"take timeout"} /\ UNCHANGED value
    /\ UNCHANGED <<caller, mgnt, recved, info, best, mgntVars, state, sem, registered, net>>

\* Mutant: the semaphore goes, the handler stays.
UnregisterNot ==
    /\ Goto("unregister", "detach")
    /\ UNCHANGED <<caller, mgnt, recved, info, best, mgntVars, state, semVars, net, odd>>

Unregister ==
    /\ Goto("unregister", "detach")
    /\ registered' = FALSE
    /\ UNCHANGED <<caller, mgnt, recved, info, best, mgntVars, state, sem, value, net, odd>>

Detach ==
    /\ Goto("detach", "delay")
    /\ sem' = "detached"
    /\ UNCHANGED <<caller, mgnt, recved, info, best, mgntVars, state, value, registered, net, odd>>

Delay ==
    /\ Goto("delay", "done")
    /\ UNCHANGED <<caller, mgnt, recved, info, best, mgntVars, state, semVars, net, odd>>

Main ==
    \/ Scan \/ SemInit \/ Register \/ FindBest \/ CopyBest \/ CheckInfo
    \/ JoinNoMemory \/ JoinCreate \/ ConnectAdv \/ ConnectWait \/ ConnectEnd
    \/ Take \/ Unregister \/ Detach \/ Delay

\* main waits for another thread or for time to pass.
MainWaits ==
    \/ main \in {"delay", "done"}
    \/ main = "scan wait" /\ "scan done" \notin complete
    \/ main = "connect wait" /\ complete \cap {"connect", "fail"} = {}
    \/ main = "take" /\ value = 0
    \/ main \in {"clean", "find", "find again"} /\ leaked
-----------------------------------------------------------------------------
(* The driver: what the radio does, and the dispatch of its events *)

\* Mutant: the search goes on after the place is found.
PositionLast(ap) ==
    SelectLastInSeq(cache \o <<ap>>, LAMBDA a : a = ap \/ Rank[ap] < Rank[a])

\* Where rt_wlan_scan_result_cache inserts.
Position(ap) ==
    SelectInSeq(cache \o <<ap>>, LAMBDA a : a = ap \/ Rank[ap] < Rank[a])

\* rt_wlan_scan_result_cache for an access point that is not in the cache yet.
\* The path for a full cache does not release scan_result_mutex.  A report for
\* which there is no memory, or no mutex, changes nothing.
Report(ap) ==
    /\ scanning /\ event = "none" /\ ap \notin Range(cache)
    /\ IF Len(cache) >= SCAN_CACHE_NUM
       THEN leaked' = TRUE /\ UNCHANGED <<cache, best>>
       ELSE /\ cache' = InsertAt(cache, Position(ap), ap)
            /\ best' = IF best = "table" THEN "freed" ELSE best
            /\ UNCHANGED leaked
    /\ UNCHANGED <<main, caller, mgnt, recved, info, complete, waiting, state, semVars, net, odd>>

\* rt_wlan_event_dispatch tells the completion.
Tells(e) == complete' = IF waiting THEN complete \cup {e} ELSE complete

ScanDone ==
    /\ scanning /\ event = "none"
    /\ scanning' = FALSE /\ Tells("scan done")
    /\ UNCHANGED <<mainVars, cache, leaked, waiting, state, semVars, device, air, event, stage, session, lwip, worker, odd>>

\* The radio joins, fails to, loses the access point or joins it again.
Radio(e) ==
    /\ event = "none"
    /\ \/ e = "connect" /\ air \in {"joining", "lost"} /\ session < MaxSessions /\ air' = "up"
       \/ e = "fail" /\ air = "joining" /\ air' = "none"
       \/ e = "disconnect" /\ air = "up" /\ air' = "lost"
    /\ event' = e /\ stage' = "mgnt"
    /\ session' = IF e = "connect" THEN session + 1 ELSE session
    /\ odd' = IF e = "connect" /\ "link" \in Range(jobs) THEN odd \cup {"flapped"} ELSE odd
    /\ UNCHANGED <<mainVars, mgntVars, state, semVars, device, scanning, lwip, worker>>

\* rt_wlan_event_dispatch: the state, and of a connection a job that saves its
\* configuration, which is not queued when there is no memory ...
DispatchState ==
    /\ stage = "mgnt" /\ stage' = "complete"
    /\ state' = CASE event = "connect" -> (state \cup {"connect"}) \ {"connecting"}
                  [] event = "fail"    -> {}
                  [] OTHER             -> state \ {"connect", "ready"}
    /\ \/ event = "connect" /\ jobs' = Append(jobs, "save")
       \/ UNCHANGED jobs
    /\ odd' = IF event = "disconnect" /\ job = "set" THEN odd \cup {"crossed"} ELSE odd
    /\ UNCHANGED <<mainVars, mgntVars, semVars, radio, event, session, lwip, job, handler>>

\* ... and the completion; the user's handlers do nothing here.
DispatchComplete ==
    /\ stage = "complete" /\ stage' = "prot"
    /\ Tells(event)
    /\ UNCHANGED <<mainVars, cache, leaked, waiting, state, semVars, radio, event, session, lwip, worker, odd>>

\* rt_wlan_lwip_event_handle; the result of rt_wlan_workqueue_dowork, which may
\* refuse the job, is ignored.
DispatchProt ==
    /\ stage = "prot" /\ stage' = "none" /\ event' = "none"
    /\ connected_flag' = CASE event = "connect"    -> TRUE
                           [] event = "disconnect" -> FALSE
                           [] OTHER                -> connected_flag
    /\ \/ connected_flag' = connected_flag /\ UNCHANGED <<jobs, odd>>
       \/ connected_flag' # connected_flag /\ jobs' = Append(jobs, "link") /\ UNCHANGED odd
       \/ connected_flag' # connected_flag /\ odd' = odd \cup {"job lost"} /\ UNCHANGED jobs
    /\ UNCHANGED <<mainVars, mgntVars, state, semVars, radio, session, timer, dhcp, ip, job, handler>>

Dispatch == DispatchState \/ DispatchComplete \/ DispatchProt

Driver ==
    \/ \E ap \in APs : Report(ap)
    \/ ScanDone
    \/ \E e \in {"connect", "fail", "disconnect"} : Radio(e)
    \/ Dispatch

\* DHCP (external) obtains an address.
AssignIp ==
    /\ dhcp /\ air = "up" /\ ip # session
    /\ ip' = session
    /\ UNCHANGED <<mainVars, mgntVars, state, semVars, radio, event, stage, session, connected_flag, timer, dhcp, worker, odd>>
-----------------------------------------------------------------------------
(* wlan_job and the timer that polls for the address *)

Takes(what) ==
    /\ MainWaits /\ job = "idle" /\ jobs # <<>> /\ Head(jobs) = what
    /\ jobs' = Tail(jobs)

\* rt_wlan_mgnt_work: the configuration goes into the cache of wlan_cfg.c, which
\* nothing here reads.
SaveConfig ==
    /\ Takes("save")
    /\ UNCHANGED <<mainVars, mgntVars, state, semVars, radio, event, stage, session, lwip, job, handler, odd>>

\* netif_set_connected.
SetConnected ==
    /\ Takes("link")
    /\ dhcp' = connected_flag /\ timer' = connected_flag
    /\ ip' = IF connected_flag THEN ip ELSE 0
    /\ UNCHANGED <<mainVars, mgntVars, state, semVars, radio, event, stage, session, connected_flag, job, handler, odd>>

\* Mutant: the timer is not started again when there is no address yet.
IsReadyOnce ==
    /\ Takes("ready")
    /\ timer' = FALSE
    /\ job' = IF ip = 0 THEN "tail" ELSE "check"
    /\ UNCHANGED <<mainVars, mgntVars, state, semVars, radio, event, stage, session, connected_flag, dhcp, ip, handler, odd>>

\* netif_is_ready: is there an address?
IsReady ==
    /\ Takes("ready")
    /\ timer' = (ip = 0)
    /\ job' = IF ip = 0 THEN "tail" ELSE "check"
    /\ UNCHANGED <<mainVars, mgntVars, state, semVars, radio, event, stage, session, connected_flag, dhcp, ip, handler, odd>>

\* Mutant: the connection is not looked at.
ReadyUnchecked ==
    /\ MainWaits /\ job = "check"
    /\ job' = IF "ready" \in state THEN "tail" ELSE "set"
    /\ UNCHANGED <<mainVars, mgntVars, state, semVars, radio, event, stage, session, lwip, jobs, handler, odd>>

\* rt_wlan_prot_ready_event: the conditions, ...
ReadyCheck ==
    /\ MainWaits /\ job = "check"
    /\ timer' = IF "connect" \notin state THEN TRUE ELSE timer
    /\ job' = IF "connect" \notin state \/ "ready" \in state THEN "tail" ELSE "set"
    /\ UNCHANGED <<mainVars, mgntVars, state, semVars, radio, event, stage, session, connected_flag, dhcp, ip, jobs, handler, odd>>

\* ... the stretch without interrupts, ...
ReadySet ==
    /\ MainWaits /\ job = "set"
    /\ state' = state \cup {"ready"}
    /\ handler' = registered /\ job' = "call"
    /\ UNCHANGED <<mainVars, mgntVars, semVars, radio, event, stage, session, lwip, jobs, odd>>

\* ... and wlan_ready_handler, whose rt_sem_release asserts a live semaphore.
ReadyCall ==
    /\ MainWaits /\ job = "call"
    /\ job' = IF handler /\ sem # "live" THEN "asserted" ELSE "tail"
    /\ value' = IF handler /\ sem = "live" THEN value + 1 ELSE value
    /\ handler' = FALSE
    /\ UNCHANGED <<mainVars, mgntVars, state, sem, registered, radio, event, stage, session, lwip, jobs, odd>>

\* The work is cleared and is no longer the current one.
ReadyTail ==
    /\ MainWaits /\ job = "tail"
    /\ job' = "idle"
    /\ UNCHANGED <<mainVars, mgntVars, state, semVars, radio, event, stage, session, lwip, jobs, handler, odd>>

WlanJob == SaveConfig \/ SetConnected \/ IsReady \/ ReadyCheck \/ ReadySet \/ ReadyCall \/ ReadyTail

\* timer_callback.  The one work is queued unless it is the current one (it is
\* then refused and cleared); initialising it while it is queued breaks the
\* list, of which nothing is claimed from then on.
TimerFires ==
    /\ timer /\ timer' = FALSE
    /\ IF job # "idle" \/ "ready" \in Range(jobs)
       THEN odd' = odd \cup {"job lost"} /\ UNCHANGED jobs
       ELSE jobs' = Append(jobs, "ready") /\ UNCHANGED odd
    /\ UNCHANGED <<mainVars, mgntVars, state, semVars, radio, event, stage, session, connected_flag, dhcp, ip, job, handler>>

Next == Main \/ Driver \/ AssignIp \/ WlanJob \/ TimerFires

\* The threads are scheduled and time-outs expire; the radio owes nothing.
Spec ==
    /\ Init /\ [][Next]_vars
    /\ WF_vars(Main) /\ WF_vars(Dispatch) /\ WF_vars(WlanJob) /\ WF_vars(TimerFires)
-----------------------------------------------------------------------------
(* Properties *)

\* The cache of access points is kept sorted and without duplicates.
CacheOK ==
    /\ Range(cache) \subseteq APs /\ Len(cache) <= SCAN_CACHE_NUM
    /\ IsInjective(cache)
    /\ \A i, j \in 1..Len(cache) : i < j => Rank[cache[i]] <= Rank[cache[j]]

TypeOK ==
    /\ main \in {"scan", "scan run", "scan wait", "scan end", "clean", "sem init",
                 "register", "find", "copy", "find again", "copy again",
                 "check info", "join", "connect adv", "connect wait",
                 "connect end", "take", "unregister", "detach", "delay", "done"}
    /\ caller \in {"app", "connect"} /\ mgnt \in 0..3
    /\ best \in {"null", "table", "freed"}
    /\ CacheOK
    /\ state \subseteq {"connecting", "connect", "ready"}
    /\ sem \in {"none", "live", "detached"} /\ value \in 0..MaxSessions
    /\ job \in {"idle", "check", "set", "call", "tail", "asserted"}
    /\ ip \in 0..session /\ session \in 0..MaxSessions

\* Whatever fails on the way, wifi_auto_connect ends with mgnt_mutex released
\* and no completion left in complete_tab.
LocksReleased == main = "done" => mgnt = 0 /\ ~waiting

\* The ready handler finds net_ready detached only if main's wait for it timed
\* out, and information about an access point is read from a freed table only
\* after a scan that timed out: never on the way to success.
DanglingOnlyAfterTimeout ==
    /\ job = "asserted" => "take timeout" \in odd
    /\ "freed read" \in odd => "scan timeout" \in odd

\* The manager says ready only while connected and with an address obtained
\* through this connection, unless a disconnection fell between the check and
\* the store of rt_wlan_prot_ready_event, a connection came before wlan_job had
\* seen the loss of the previous one, or the queue refused a job.
ReadyIsTrue ==
    "ready" \in state =>
        \/ "connect" \in state /\ (ip = session \/ air # "up")
        \/ odd \cap {"crossed", "flapped", "job lost"} # {}

\* wifi_auto_connect returns, whatever the driver and the network do, unless
\* more access points than the cache holds were reported: then it waits for
\* the scan cache for ever.
MainReturns == <>(main = "done" \/ leaked)

\* Once an address is there the manager becomes ready, unless the connection
\* is lost first, wlan_job takes the address back or hangs in the assertion
\* above, or the timer fired while its work was queued or being done.
ReadyReported ==
    ("connect" \in state /\ ip # 0) ~>
        \/ "ready" \in state \/ "connect" \notin state \/ ip = 0
        \/ job = "asserted" \/ "job lost" \in odd
==============================================================================
