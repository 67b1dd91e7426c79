-------------------------- MODULE WifiConnectProofs --------------------------
(***************************************************************************)
(* Proofs about WifiConnect, for any access points, any scan cache and any *)
(* number of connections.                                                  *)
(***************************************************************************)
EXTENDS WifiConnect, SequenceTheorems, WellFoundedInduction, TLAPS

\* Before main asks the driver to join.
Scanning == {"scan", "scan run", "scan wait", "scan end", "clean", "sem init",
             "register", "find", "copy", "find again", "copy again"}
Unjoined == Scanning \cup {"check info", "join", "connect adv"}

\* After the last rt_wlan_complete_wait.
Past == {"take", "unregister", "detach", "delay", "done"}

\* How often main can hold mgnt_mutex where it is, and where a completion exists.
Locks ==
    /\ main \in Unjoined \cup {"connect wait", "connect end"} \cup Past
    /\ caller \in {"app", "connect"}
    /\ main \in {"find again", "copy again"} => caller = "connect"
    /\ mgnt \in {0, 1, 2, 3}
    /\ main \notin {"scan run", "scan wait", "scan end"} => mgnt \in {0, 1}
    /\ main \in {"scan", "clean"} /\ caller = "app" => mgnt = 0
    /\ main \in {"scan run", "scan wait", "scan end"} /\ caller = "app" => mgnt \in {0, 1, 2}
    /\ main \in {"sem init", "register"} \cup Past => mgnt = 0
    /\ waiting \in BOOLEAN
    /\ waiting <=> main \in {"scan run", "scan wait", "scan end", "connect adv",
                             "connect wait", "connect end"}

\* A scan that goes on after main has stopped waiting for it has timed out.
Scans ==
    /\ best # "null" => main \in {"copy", "copy again"}
    /\ best = "freed" => "scan timeout" \in odd
    /\ "freed read" \in odd => "scan timeout" \in odd
    /\ scanning /\ main \in Scanning =>
            "scan timeout" \in odd \/ (main = "scan wait" /\ "scan done" \notin complete)
    /\ main = "scan run" /\ "scan done" \in complete => "scan timeout" \in odd

\* The driver's event agrees with the radio.
Radios ==
    /\ event \in {"none", "connect", "fail", "disconnect"}
    /\ stage \in {"none", "mgnt", "complete", "prot"}
    /\ event = "none" <=> stage = "none"
    /\ event = "connect" => air = "up"
    /\ event = "disconnect" => air = "lost"
    /\ event = "fail" => air = "none"
    /\ air \in {"none", "joining", "up", "lost"}
    /\ session \in Nat /\ ip \in Nat /\ ip <= session
    /\ air = "joining" \/ event = "fail" => session = 0
    /\ main \in Unjoined => session = 0 /\ air = "none" /\ event = "none"

\* Until the completion has heard of a connection wlan_job has nothing to do.
Before == main \in Unjoined \/ (main = "connect wait" /\ "connect" \notin complete)

JobKinds == {"save", "link", "ready"}

\* What wlan_job and the timer have to do at each place of main.
Silent ==
    /\ jobs \in Seq(JobKinds)
    /\ job \in {"idle", "check", "set", "call", "tail", "asserted"}
    /\ timer \in BOOLEAN /\ connected_flag \in BOOLEAN
    /\ main \notin Past => job = "idle"
    /\ Before =>
        /\ \/ jobs = <<>>
           \/ jobs = <<"save">> /\ event = "connect" /\ stage = "complete"
        /\ ~timer /\ ~connected_flag
        /\ air \in {"none", "joining", "up"}
        /\ air = "up" => event = "connect" /\ stage # "prot"

\* Who may still reach net_ready.
Semaphore ==
    /\ value \in Nat
    /\ handler \in BOOLEAN /\ registered \in BOOLEAN
    /\ main \notin Past => value = 0
    /\ handler => job = "call"
    /\ registered => sem = "live"
    /\ main = "register" => sem = "live"
    /\ main = "detach" => ~registered
    /\ main = "take" /\ value > 0 => ~handler
    /\ main \in {"unregister", "detach"} /\ handler => "take timeout" \in odd
    /\ handler /\ sem # "live" => "take timeout" \in odd
    /\ job = "asserted" => "take timeout" \in odd

Excused == odd \cap {"crossed", "flapped", "job lost"} # {}

\* The address is of the present connection, or its loss is on the way to wlan_job.
Addresses ==
    Excused \/
    /\ "ready" \in state => "connect" \in state
    /\ "connect" \in state => air = "up" \/ (event = "disconnect" /\ stage = "mgnt")
    /\ air = "up" => ip \in {0, session}
    /\ "ready" \in state /\ air = "up" => ip = session
    /\ air = "lost" => ip = 0 \/ "link" \in Range(jobs) \/ event = "disconnect"
    /\ job \in {"check", "set"} => ip # 0
    /\ job = "set" => "connect" \in state
    /\ air = "up" /\ "link" \in Range(jobs) => connected_flag
    /\ air = "lost" /\ event = "none" => ~connected_flag
    /\ event = "disconnect" \/ (air = "up" /\ event = "none") => connected_flag

\* The inductive invariant.
IInv == Locks /\ Scans /\ Radios /\ Silent /\ Semaphore /\ Addresses

\* What queueing and taking a job do to the queue.
LEMMA JobAppended ==
    ASSUME NEW s \in Seq(JobKinds), NEW w \in JobKinds
    PROVE  /\ Append(s, w) \in Seq(JobKinds)
           /\ "link" \in Range(Append(s, w)) <=> w = "link" \/ "link" \in Range(s)
<1>1. Append(s, w) \in Seq(JobKinds)
  OBVIOUS
<1>2. Append(s, w)[Len(s) + 1] = w /\ Len(s) + 1 \in DOMAIN Append(s, w)
  OBVIOUS
<1>3. ASSUME NEW i \in DOMAIN s PROVE i \in DOMAIN Append(s, w) /\ Append(s, w)[i] = s[i]
  OBVIOUS
<1>4. ASSUME NEW i \in DOMAIN Append(s, w)
      PROVE  i = Len(s) + 1 \/ (i \in DOMAIN s /\ Append(s, w)[i] = s[i])
  OBVIOUS
<1>5. Range(Append(s, w)) = Range(s) \cup {w}
  BY <1>2, <1>3, <1>4 DEF Range
<1> QED
  BY <1>1, <1>5

\* A queue of one job.
LEMMA OneJob ==
    /\ Append(<<>>, "save") = <<"save">>
    /\ Head(<<"save">>) = "save" /\ Tail(<<"save">>) = <<>>
<1>1. Append(<<>>, "save") = <<"save">>
  OBVIOUS
<1>2. Head(<<"save">>) = "save"
  OBVIOUS
<1>3. Tail(<<"save">>) = <<>>
  OBVIOUS
<1> QED
  BY <1>1, <1>2, <1>3

\* Only a link job taken from the head can take the last link job out.
LEMMA JobTaken ==
    ASSUME NEW s \in Seq(JobKinds), s # <<>>
    PROVE  /\ Tail(s) \in Seq(JobKinds)
           /\ "link" \in Range(Tail(s)) => "link" \in Range(s)
           /\ "link" \in Range(s) => Head(s) = "link" \/ "link" \in Range(Tail(s))
           /\ Head(s) = "link" => "link" \in Range(s)
<1>1. Tail(s) \in Seq(JobKinds)
  OBVIOUS
<1>2. Len(s) \in Nat \ {0} /\ DOMAIN s = 1..Len(s) /\ DOMAIN Tail(s) = 1..(Len(s) - 1)
  OBVIOUS
<1>3. Head(s) = s[1] /\ \A i \in 1..(Len(s) - 1) : Tail(s)[i] = s[i + 1]
  OBVIOUS
<1>4. \A i \in 1..Len(s) : i # 1 => i - 1 \in 1..(Len(s) - 1) /\ Tail(s)[i - 1] = s[i]
  BY <1>2, <1>3
<1>5. "link" \in Range(Tail(s)) => "link" \in Range(s)
  BY <1>2, <1>3 DEF Range
<1>6. ASSUME "link" \in Range(s), Head(s) # "link" PROVE "link" \in Range(Tail(s))
  <2>1. PICK i \in 1..Len(s) : s[i] = "link"
    BY <1>2, <1>6 DEF Range
  <2>2. i - 1 \in DOMAIN Tail(s) /\ Tail(s)[i - 1] = "link"
    BY <1>2, <1>3, <1>4, <1>6, <2>1
  <2> QED
    BY <2>2 DEF Range
<1>7. Head(s) = "link" => "link" \in Range(s)
  BY <1>2, <1>3 DEF Range
<1> QED
  BY <1>1, <1>5, <1>6, <1>7

\* An address comes with a connection.
LEMMA NoAddress == ASSUME Radios, session = 0 PROVE ip = 0
<1>1. ip \in Nat /\ ip <= session
  BY DEF Radios
<1> QED
  BY <1>1
-----------------------------------------------------------------------------
\* What releasing leaves of the holds there can be.
LEMMA Releases ==
    ASSUME mgnt \in {0, 1, 2, 3}
    PROVE  /\ Released(2) \in {0, 1}
           /\ mgnt \in {0, 1} => Released(1) = 0 /\ Released(2) = 0
           /\ mgnt \in {0, 1, 2} => Released(2) = 0
  BY DEF Released

\* Each step of main takes and gives back mgnt_mutex in balance.
LEMMA LocksStep == ASSUME Locks, Next PROVE Locks'
<1> USE DEF Scanning, Unjoined, Past, mainVars, mgntVars, Goto
<1>1. CASE ScanWithoutDevice
  BY <1>1 DEF Locks, ScanWithoutDevice, NoScan
<1>2. CASE ScanNoMemory
  BY <1>2, Releases DEF Locks, ScanNoMemory, AfterScan
<1>3. CASE ScanCreate
  <2>1. /\ main = "scan" /\ main' = "scan run"
        /\ UNCHANGED caller /\ waiting' = TRUE
    BY <1>3 DEF ScanCreate, Create
  <2>2. mgnt' = mgnt + 2
    BY <1>3 DEF ScanCreate
  <2>3. mgnt \in {0, 1}
    BY <2>1 DEF Locks
  <2>4. caller = "app" => mgnt = 0
    BY <2>1 DEF Locks
  <2>5. mgnt' \in {2, 3}
    BY <2>2, <2>3
  <2>6. caller = "app" => mgnt' = 2
    BY <2>2, <2>4
  <2> QED
    BY <2>1, <2>5, <2>6 DEF Locks
<1>4. CASE ScanRun \/ ScanFails \/ ScanWait \/ ScanEnd
  BY <1>4, Releases DEF Locks, ScanRun, ScanFails, NoScan, Delete, ScanWait, ScanEnd,
       AfterScan
<1>5. CASE Clean
  BY <1>5 DEF Locks, Clean
<1>6. CASE SemInit
  BY <1>6 DEF Locks, SemInit
<1>7. CASE Register
  <2>1. main = "register" /\ main' = "find" /\ UNCHANGED <<caller, waiting>>
    BY <1>7 DEF Register
  <2>2. mgnt = 0
    BY <2>1 DEF Locks
  <2>3. mgnt' = 1
    BY <1>7, <2>2 DEF Register
  <2> QED
    BY <2>1, <2>3 DEF Locks
<1>8. CASE FindBest
  BY <1>8 DEF Locks, FindBest
<1>9. CASE CopyBest
  <2>1. /\ UNCHANGED <<mgnt, waiting>>
        /\ \/ main = "copy" /\ main' \in {"scan", "check info"} /\ caller' = "connect"
           \/ main = "copy again" /\ main' = "clean" /\ UNCHANGED caller
    BY <1>9 DEF CopyBest
  <2>2. CASE main = "copy"
    BY <2>1, <2>2 DEF Locks
  <2>3. CASE main = "copy again"
    BY <2>1, <2>3 DEF Locks
  <2> QED
    BY <2>1, <2>2, <2>3
<1>10. CASE CheckInfo
  BY <1>10, Releases DEF Locks, CheckInfo
<1>11. CASE JoinNoMemory
  BY <1>11, Releases DEF Locks, JoinNoMemory
<1>12. CASE JoinCreate \/ ConnectAdv \/ ConnectWait \/ ConnectEnd
  BY <1>12, Releases DEF Locks, JoinCreate, Create, ConnectAdv, Delete, ConnectWait,
       ConnectEnd
<1>13. CASE Take
  BY <1>13 DEF Locks, Take
<1>14. CASE Unregister
  BY <1>14 DEF Locks, Unregister
<1>15. CASE Detach
  BY <1>15 DEF Locks, Detach
<1>16. CASE Delay
  BY <1>16 DEF Locks, Delay
<1>17. Driver \/ AssignIp \/ WlanJob \/ TimerFires => UNCHANGED <<main, caller, mgnt, waiting>>
  BY DEF Driver, Report, ScanDone, Radio, Dispatch, DispatchState, DispatchComplete,
     DispatchProt, AssignIp, WlanJob, SaveConfig, SetConnected, IsReady, ReadyCheck, ReadySet,
     ReadyCall, ReadyTail, TimerFires
<1>18. CASE UNCHANGED <<main, caller, mgnt, waiting>>
  BY <1>18 DEF Locks
<1> QED
  BY <1>1, <1>2, <1>3, <1>4, <1>5, <1>6, <1>7, <1>8, <1>9, <1>10, <1>11, <1>12, <1>13,
     <1>14, <1>15, <1>16, <1>17, <1>18 DEF Next, Main, Scan

\* A result of the scan that is read freed was asked for by a scan that timed out.
LEMMA ScansStep == ASSUME Scans, Radios, Next PROVE Scans'
<1> USE DEF Scanning, Unjoined, mainVars, mgntVars, semVars, radio, lwip, worker, net, Goto
<1>1. CASE ScanWithoutDevice
  BY <1>1 DEF Scans, ScanWithoutDevice, NoScan
<1>2. CASE ScanNoMemory
  BY <1>2 DEF Scans, ScanNoMemory, AfterScan
<1>3. CASE ScanCreate
  BY <1>3 DEF Scans, ScanCreate, Create
<1>4. CASE ScanRun
  BY <1>4 DEF Scans, ScanRun
<1>5. CASE ScanFails
  BY <1>5 DEF Scans, ScanFails, NoScan, Delete
<1>6. CASE ScanWait
  BY <1>6 DEF Scans, ScanWait
<1>7. CASE ScanEnd
  BY <1>7 DEF Scans, ScanEnd, AfterScan, Delete
<1>8. CASE Clean
  BY <1>8 DEF Scans, Clean
<1>9. CASE SemInit
  BY <1>9 DEF Scans, SemInit
<1>10. CASE Register
  BY <1>10 DEF Scans, Register
<1>11. CASE FindBest
  BY <1>11 DEF Scans, FindBest
<1>12. CASE CopyBest
  BY <1>12 DEF Scans, CopyBest, Copied
<1>13. CASE CheckInfo \/ JoinNoMemory \/ JoinCreate \/ ConnectAdv \/ ConnectWait \/
          ConnectEnd
  BY <1>13 DEF Scans, CheckInfo, JoinNoMemory, JoinCreate, Create, ConnectAdv, Delete,
       ConnectWait, ConnectEnd
<1>14. CASE Take \/ Unregister \/ Detach \/ Delay
  BY <1>14 DEF Scans, Take, Unregister, Detach, Delay
<1>15. ASSUME NEW ap \in APs, Report(ap) PROVE Scans'
  BY <1>15 DEF Scans, Report
<1>16. CASE ScanDone
  BY <1>16 DEF Scans, ScanDone, Tells
<1>17. ASSUME NEW e \in {"connect", "fail", "disconnect"}, Radio(e) PROVE Scans'
  BY <1>17 DEF Scans, Radio
<1>18. CASE DispatchState \/ DispatchComplete \/ DispatchProt
  BY <1>18 DEF Scans, DispatchState, Radios, DispatchComplete, Tells, DispatchProt
<1>19. CASE TimerFires
  <2>1. odd' \in {odd, odd \cup {"job lost"}}
    BY <1>19 DEF TimerFires
  <2>2. UNCHANGED <<best, main, scanning, complete>>
    BY <1>19 DEF TimerFires
  <2> QED
    BY <2>1, <2>2 DEF Scans
<1>20. AssignIp \/ SaveConfig \/ SetConnected \/ IsReady \/ ReadyCheck \/ ReadySet \/ ReadyCall \/
      ReadyTail
      => UNCHANGED <<best, main, odd, scanning, complete>>
  BY DEF AssignIp, SaveConfig, SetConnected, IsReady, ReadyCheck, ReadySet, ReadyCall, ReadyTail, Takes
<1>21. CASE UNCHANGED <<best, main, odd, scanning, complete>>
  BY <1>21 DEF Scans
<1> QED
  BY <1>1, <1>2, <1>3, <1>4, <1>5, <1>6, <1>7, <1>8, <1>9, <1>10, <1>11, <1>12, <1>13,
     <1>14, <1>15, <1>16, <1>17, <1>18, <1>19, <1>20, <1>21 DEF Next, Main, Scan, Driver,
     Dispatch, WlanJob

\* Events follow the radio, and an address is of a connection there has been.
LEMMA RadiosStep == ASSUME Radios, Locks, Silent, Next PROVE Radios'
<1> USE DEF Before, Scanning, Unjoined, mainVars, mgntVars, semVars, radio, lwip, worker, net, Goto
<1>1. CASE ScanWithoutDevice \/ ScanNoMemory \/ ScanCreate \/ ScanRun \/ ScanFails \/
          ScanWait \/ ScanEnd \/ Clean
  BY <1>1 DEF Radios, ScanWithoutDevice, NoScan, ScanNoMemory, AfterScan, ScanCreate,
       Create, ScanRun, ScanFails, Delete, ScanWait, ScanEnd, Clean
<1>2. CASE SemInit \/ Register \/ FindBest \/ CopyBest \/ CheckInfo \/ JoinNoMemory \/
          JoinCreate \/ ConnectAdv
  BY <1>2 DEF Radios, SemInit, Register, FindBest, CopyBest, Copied, CheckInfo,
       JoinNoMemory, JoinCreate, Create, ConnectAdv, Delete
<1>3. CASE ConnectWait \/ ConnectEnd \/ Take \/ Unregister \/ Detach \/ Delay
  BY <1>3 DEF Radios, ConnectWait, ConnectEnd, Delete, Take, Unregister, Detach, Delay
<1>4. ASSUME NEW e \in {"connect", "fail", "disconnect"}, Radio(e) PROVE Radios'
  <2>1. /\ event = "none" /\ event' = e /\ stage' = "mgnt" /\ air # "none"
        /\ UNCHANGED <<ip, main>>
    BY <1>4 DEF Radio
  <2>2. session' = IF e = "connect" THEN session + 1 ELSE session
    BY <1>4 DEF Radio
  <2>3. ip \in Nat /\ session \in Nat /\ ip <= session
    BY DEF Radios
  <2>4. session' \in Nat /\ ip' \in Nat /\ ip' <= session'
    BY <2>1, <2>2, <2>3
  <2>5. main \notin Unjoined
    BY <2>1 DEF Radios
  <2>6. /\ e = "connect" => air' = "up"
        /\ e = "fail" => air' = "none" /\ air = "joining" /\ session' = session
        /\ e = "disconnect" => air' = "lost"
    BY <1>4 DEF Radio
  <2> QED
    BY <2>1, <2>4, <2>5, <2>6 DEF Radios
<1>5. CASE DispatchState \/ DispatchComplete \/ DispatchProt
  BY <1>5 DEF Radios, DispatchState, DispatchComplete, Tells, DispatchProt
<1>6. CASE AssignIp
  <2>1. ip' = session /\ UNCHANGED <<event, stage, air, session, main>>
    BY <1>6 DEF AssignIp
  <2>2. session \in Nat
    BY DEF Radios
  <2>3. session' \in Nat /\ ip' \in Nat /\ ip' <= session'
    BY <2>1, <2>2
  <2> QED
    BY <2>1, <2>3 DEF Radios
<1>7. CASE SetConnected
  <2>1. ip' \in {ip, 0}
    BY <1>7 DEF SetConnected
  <2>2. UNCHANGED <<event, stage, air, session, main>>
    BY <1>7 DEF SetConnected
  <2>3. ip \in Nat /\ session \in Nat /\ ip <= session
    BY DEF Radios
  <2>4. ip' \in Nat /\ ip' <= session
    BY <2>1, <2>3
  <2> QED
    BY <2>2, <2>4 DEF Radios
<1>8. (\E ap \in APs : Report(ap)) \/ ScanDone \/ SaveConfig \/ IsReady \/ ReadyCheck \/
      ReadySet \/ ReadyCall \/ ReadyTail \/ TimerFires
      => UNCHANGED <<event, stage, air, session, ip, main>>
  BY DEF Report, ScanDone, SaveConfig, IsReady, ReadyCheck, ReadySet, ReadyCall, ReadyTail, TimerFires,
     Takes
<1>9. CASE UNCHANGED <<event, stage, air, session, ip, main>>
  BY <1>9 DEF Radios
<1> QED
  BY <1>1, <1>2, <1>3, <1>4, <1>5, <1>6, <1>7, <1>8, <1>9 DEF Next, Main, Scan, Driver,
     Dispatch, WlanJob

\* wlan_job starts when main has what it waits for.
LEMMA SilentStep == ASSUME Silent, Radios, Locks, Next PROVE Silent'
<1> USE DEF Before, Scanning, Unjoined, Past, MainWaits, mainVars, mgntVars, semVars, radio, lwip, worker, net, Goto
<1>1. CASE ScanWithoutDevice
  BY <1>1 DEF Silent, ScanWithoutDevice, NoScan
<1>2. CASE ScanNoMemory
  BY <1>2 DEF Silent, ScanNoMemory, AfterScan
<1>3. CASE ScanCreate
  BY <1>3 DEF Silent, ScanCreate, Create
<1>4. CASE ScanRun
  BY <1>4 DEF Silent, ScanRun
<1>5. CASE ScanFails
  BY <1>5 DEF Silent, ScanFails, NoScan, Delete
<1>6. CASE ScanWait
  BY <1>6 DEF Silent, ScanWait
<1>7. CASE ScanEnd
  BY <1>7 DEF Silent, ScanEnd, AfterScan, Delete
<1>8. CASE Clean
  BY <1>8 DEF Silent, Clean
<1>9. CASE SemInit
  BY <1>9 DEF Silent, SemInit
<1>10. CASE Register
  BY <1>10 DEF Silent, Register
<1>11. CASE FindBest
  BY <1>11 DEF Silent, FindBest
<1>12. CASE CopyBest
  BY <1>12 DEF Silent, CopyBest, Copied
<1>13. CASE CheckInfo
  BY <1>13 DEF Silent, CheckInfo
<1>14. CASE JoinNoMemory
  BY <1>14 DEF Silent, JoinNoMemory
<1>15. CASE JoinCreate
  BY <1>15 DEF Silent, JoinCreate, Create
<1>16. CASE ConnectAdv
  BY <1>16 DEF Silent, ConnectAdv, Delete
<1>17. CASE ConnectWait \/ ConnectEnd \/ Take \/ Unregister \/ Detach \/ Delay
  BY <1>17 DEF Silent, ConnectWait, ConnectEnd, Delete, Take, Unregister, Detach, Delay
<1>18. CASE ScanDone
  BY <1>18 DEF Silent, ScanDone, Tells
<1>19. ASSUME NEW e \in {"connect", "fail", "disconnect"}, Radio(e) PROVE Silent'
  BY <1>19 DEF Silent, Radio
<1>20. CASE DispatchState
  <2>1. /\ stage = "mgnt" /\ stage' = "complete"
        /\ UNCHANGED <<event, main, complete, job, timer, connected_flag, air>>
    BY <1>20 DEF DispatchState
  <2>2. jobs \in Seq(JobKinds)
    BY DEF Silent
  <2>3. jobs' = jobs \/ (event = "connect" /\ jobs' = Append(jobs, "save"))
    BY <1>20 DEF DispatchState
  <2>4. jobs' \in Seq(JobKinds)
    BY <2>2, <2>3, JobAppended DEF JobKinds
  <2>5. Before => jobs = <<>>
    BY <2>1 DEF Silent
  <2>6. Before => jobs' = <<>> \/ (jobs' = <<"save">> /\ event = "connect")
    BY <2>3, <2>5, OneJob
  <2> QED
    BY <2>1, <2>4, <2>6 DEF Silent
<1>21. CASE DispatchComplete
  BY <1>21 DEF Silent, Radios, Locks, DispatchComplete, Tells
<1>22. CASE DispatchProt
  <2>1. /\ stage = "prot" /\ stage' = "none" /\ event' = "none"
        /\ UNCHANGED <<timer, job, main, complete, air>>
    BY <1>22 DEF DispatchProt
  <2>2. connected_flag \in BOOLEAN /\ jobs \in Seq(JobKinds)
    BY DEF Silent
  <2>3. connected_flag' \in BOOLEAN /\ (event = "fail" => connected_flag' = connected_flag)
    BY <1>22, <2>2 DEF DispatchProt
  <2>4. jobs' = jobs \/ jobs' = Append(jobs, "link")
    BY <1>22 DEF DispatchProt
  <2>5. jobs' \in Seq(JobKinds)
    BY <2>2, <2>4, JobAppended DEF JobKinds
  <2>6. Before => event = "fail"
    BY <2>1 DEF Silent, Radios
  <2>7. event = "fail" => jobs' = jobs
    BY <1>22, <2>3 DEF DispatchProt
  <2> QED
    BY <2>1, <2>3, <2>5, <2>6, <2>7 DEF Silent
<1>23. CASE SetConnected
  <2>1. /\ jobs # <<>> /\ Head(jobs) = "link" /\ jobs' = Tail(jobs) /\ timer' = connected_flag
        /\ UNCHANGED <<job, main, complete, connected_flag, air, event, stage>>
    BY <1>23 DEF SetConnected, Takes
  <2>2. jobs' \in Seq(JobKinds)
    BY <2>1, JobTaken DEF Silent
  <2>3. ~Before
    BY <2>1, OneJob DEF Silent
  <2> QED
    BY <2>1, <2>2, <2>3 DEF Silent
<1>24. CASE SaveConfig
  <2>1. /\ jobs # <<>> /\ jobs' = Tail(jobs)
        /\ UNCHANGED <<job, timer, main, complete, connected_flag, air, event, stage>>
    BY <1>24 DEF SaveConfig, Takes
  <2>2. jobs' \in Seq(JobKinds)
    BY <2>1, JobTaken DEF Silent
  <2>3. Before => jobs = <<"save">>
    BY <2>1 DEF Silent
  <2>4. Before => jobs' = <<>>
    BY <2>1, <2>3, OneJob
  <2> QED
    BY <2>1, <2>2, <2>4 DEF Silent
<1>25. CASE IsReady
  <2>1. /\ jobs # <<>> /\ Head(jobs) = "ready" /\ job = "idle" /\ jobs' = Tail(jobs)
        /\ MainWaits /\ timer' \in BOOLEAN /\ job' \in {"tail", "check"}
        /\ UNCHANGED <<main, complete, connected_flag, air, event, stage>>
    BY <1>25 DEF IsReady, Takes
  <2>2. jobs' \in Seq(JobKinds)
    BY <2>1, JobTaken DEF Silent
  <2>3. ~Before /\ main \in Past
    BY <2>1, OneJob DEF Silent
  <2> QED
    BY <2>1, <2>2, <2>3 DEF Silent
<1>26. CASE ReadyCheck \/ ReadySet \/ ReadyCall \/ ReadyTail
  BY <1>26 DEF Silent, ReadyCheck, ReadySet, ReadyCall, ReadyTail
<1>27. CASE TimerFires
  <2>1. timer /\ timer' = FALSE /\ UNCHANGED <<job, main, complete, connected_flag, air, event, stage>>
    BY <1>27 DEF TimerFires
  <2>2. jobs \in Seq(JobKinds)
    BY DEF Silent
  <2>3. jobs' = jobs \/ jobs' = Append(jobs, "ready")
    BY <1>27 DEF TimerFires
  <2>4. jobs' \in Seq(JobKinds)
    BY <2>2, <2>3, JobAppended DEF JobKinds
  <2>5. ~Before
    BY <2>1 DEF Silent
  <2> QED
    BY <2>1, <2>4, <2>5 DEF Silent
<1>28. (\E ap \in APs : Report(ap)) \/ AssignIp
      => UNCHANGED <<jobs, job, timer, connected_flag, main, complete, air, event, stage>>
  BY DEF Report, AssignIp
<1>29. CASE UNCHANGED <<jobs, job, timer, connected_flag, main, complete, air, event, stage>>
  BY <1>29 DEF Silent
<1> QED
  BY <1>1, <1>2, <1>3, <1>4, <1>5, <1>6, <1>7, <1>8, <1>9, <1>10, <1>11, <1>12, <1>13,
     <1>14, <1>15, <1>16, <1>17, <1>18, <1>19, <1>20, <1>21, <1>22, <1>23, <1>24, <1>25,
     <1>26, <1>27, <1>28, <1>29 DEF Next, Main, Scan, Driver, Dispatch, WlanJob

\* Each step of main that takes, unregisters or detaches, against the handler.
LEMMA SemaphoreStep == ASSUME Semaphore, Silent, Locks, Next PROVE Semaphore'
<1> USE DEF Before, Scanning, Unjoined, Past, MainWaits, mainVars, mgntVars, semVars, radio, lwip, worker, net, Goto
<1>1. CASE ScanWithoutDevice
  BY <1>1 DEF Semaphore, ScanWithoutDevice, NoScan
<1>2. CASE ScanNoMemory
  BY <1>2 DEF Semaphore, ScanNoMemory, AfterScan
<1>3. CASE ScanCreate
  BY <1>3 DEF Semaphore, ScanCreate, Create
<1>4. CASE ScanRun
  BY <1>4 DEF Semaphore, ScanRun
<1>5. CASE ScanFails
  BY <1>5 DEF Semaphore, ScanFails, NoScan, Delete
<1>6. CASE ScanWait
  BY <1>6 DEF Semaphore, ScanWait
<1>7. CASE ScanEnd
  BY <1>7 DEF Semaphore, ScanEnd, AfterScan, Delete
<1>8. CASE Clean
  BY <1>8 DEF Semaphore, Clean
<1>9. CASE SemInit
  BY <1>9 DEF Semaphore, SemInit
<1>10. CASE Register
  BY <1>10 DEF Semaphore, Register
<1>11. CASE FindBest
  BY <1>11 DEF Semaphore, FindBest
<1>12. CASE CopyBest
  BY <1>12 DEF Semaphore, CopyBest, Copied
<1>13. CASE CheckInfo
  BY <1>13 DEF Semaphore, CheckInfo
<1>14. CASE JoinNoMemory
  BY <1>14 DEF Semaphore, JoinNoMemory
<1>15. CASE JoinCreate
  BY <1>15 DEF Semaphore, JoinCreate, Create
<1>16. CASE ConnectAdv
  BY <1>16 DEF Semaphore, ConnectAdv, Delete
<1>17. CASE ConnectWait
  BY <1>17 DEF Semaphore, ConnectWait
<1>18. CASE ConnectEnd
  BY <1>18 DEF Semaphore, Silent, ConnectEnd, Delete
<1>19. CASE Take
  <2>1. /\ main = "take" /\ main' = "unregister"
        /\ UNCHANGED <<handler, registered, sem, job>>
    BY <1>19 DEF Take
  <2>2. \/ value > 0 /\ value' = value - 1 /\ UNCHANGED odd
        \/ value = 0 /\ UNCHANGED value /\ odd' = odd \cup {"take timeout"}
    BY <1>19 DEF Take
  <2>3. value \in Nat
    BY DEF Semaphore
  <2>4. value' \in Nat
    <3>1. CASE value > 0 /\ value' = value - 1
      BY <2>3, <3>1
    <3>2. CASE value' = value
      BY <2>3, <3>2
    <3> QED
      BY <2>2, <3>1, <3>2
  <2>5. (value > 0 /\ UNCHANGED odd) \/ (odd \subseteq odd' /\ "take timeout" \in odd')
    BY <2>2
  <2> QED
    BY <2>1, <2>4, <2>5 DEF Semaphore
<1>20. CASE Unregister
  BY <1>20 DEF Semaphore, Unregister
<1>21. CASE Detach
  BY <1>21 DEF Semaphore, Detach
<1>22. CASE Delay
  BY <1>22 DEF Semaphore, Delay
<1>23. ASSUME NEW e \in {"connect", "fail", "disconnect"}, Radio(e) PROVE Semaphore'
  BY <1>23 DEF Semaphore, Radio
<1>24. CASE DispatchState
  BY <1>24 DEF Semaphore, DispatchState
<1>25. CASE DispatchProt
  BY <1>25 DEF Semaphore, DispatchProt
<1>26. CASE IsReady
  BY <1>26 DEF Semaphore, IsReady, Takes
<1>27. CASE ReadyCheck
  BY <1>27 DEF Semaphore, ReadyCheck
<1>28. CASE ReadySet
  <2>1. /\ MainWaits /\ job = "set" /\ job' = "call" /\ handler' = registered
        /\ UNCHANGED <<value, registered, main, sem, odd>>
    BY <1>28 DEF ReadySet
  <2>2. main \in Past
    BY <2>1 DEF Silent
  <2>3. main \in {"delay", "done"} \/ (main = "take" /\ value = 0)
    BY <2>1, <2>2 DEF MainWaits
  <2>4. main = "take" => ~(value > 0)
    BY <2>3
  <2> QED
    BY <2>1, <2>2, <2>3, <2>4 DEF Semaphore
<1>29. CASE ReadyCall
  <2>1. /\ job = "call" /\ job' \in {"asserted", "tail"} /\ handler' = FALSE
        /\ UNCHANGED <<registered, main, sem, odd>>
    BY <1>29 DEF ReadyCall
  <2>2. job' = "asserted" => handler /\ sem # "live"
    BY <1>29 DEF ReadyCall
  <2>3. value' = value \/ value' = value + 1
    BY <1>29 DEF ReadyCall
  <2>4. value \in Nat
    BY DEF Semaphore
  <2>5. value' \in Nat
    BY <2>3, <2>4
  <2>6. main \in Past
    BY <2>1 DEF Silent
  <2> QED
    BY <2>1, <2>2, <2>5, <2>6 DEF Semaphore
<1>30. CASE ReadyTail
  BY <1>30 DEF Semaphore, ReadyTail
<1>31. CASE TimerFires
  BY <1>31 DEF Semaphore, TimerFires
<1>32. (\E ap \in APs : Report(ap)) \/ ScanDone \/ DispatchComplete \/ AssignIp \/
      SaveConfig \/ SetConnected
      => UNCHANGED <<value, handler, registered, main, sem, job, odd>>
  BY DEF Report, ScanDone, DispatchComplete, AssignIp, SaveConfig, SetConnected, Takes
<1>33. CASE UNCHANGED <<value, handler, registered, main, sem, job, odd>>
  BY <1>33 DEF Semaphore
<1> QED
  BY <1>1, <1>2, <1>3, <1>4, <1>5, <1>6, <1>7, <1>8, <1>9, <1>10, <1>11, <1>12, <1>13,
     <1>14, <1>15, <1>16, <1>17, <1>18, <1>19, <1>20, <1>21, <1>22, <1>23, <1>24, <1>25,
     <1>26, <1>27, <1>28, <1>29, <1>30, <1>31, <1>32, <1>33 DEF Next, Main, Scan, Driver,
     Dispatch, WlanJob

\* The state of the manager, the address and the jobs under way, step by step.
LEMMA AddressesStep == ASSUME Addresses, Radios, Silent, Locks, Next PROVE Addresses'
<1> USE DEF Excused, Before, Scanning, Unjoined, Past, mainVars, mgntVars, semVars, radio, lwip, worker, net, Goto
<1>1. CASE ScanWait \/ CopyBest \/ CheckInfo
  BY <1>1 DEF Addresses, ScanWait, CopyBest, Copied, CheckInfo
<1>2. CASE ConnectAdv
  <2>1. main = "connect adv" /\ session = 0 /\ air = "none" /\ ip = 0
    BY <1>2, NoAddress DEF ConnectAdv, Radios
  <2>2. jobs = <<>> /\ job = "idle"
    BY <2>1 DEF Silent, Radios
  <2>3. /\ air' \in {"none", "joining"}
        /\ UNCHANGED <<odd, event, stage, ip, session, jobs, job, connected_flag>>
    BY <1>2, <2>1 DEF ConnectAdv
  <2>4. state' = state \cup {"connecting"} \/ state' = state \ {"connecting"}
    BY <1>2 DEF ConnectAdv
  <2>5. ("connect" \in state' => "connect" \in state) /\ ("ready" \in state' => "ready" \in state)
    BY <2>4
  <2>6. SUFFICES ASSUME ~Excused PROVE Addresses'
    BY <2>3 DEF Addresses
  <2>7. event = "none"
    BY <2>1 DEF Radios
  <2>8. "connect" \notin state /\ "ready" \notin state
    BY <2>1, <2>6, <2>7 DEF Addresses
  <2> QED
    BY <2>1, <2>2, <2>3, <2>5, <2>7, <2>8 DEF Addresses
<1>3. CASE Take
  BY <1>3 DEF Addresses, Take
<1>4. ASSUME NEW e \in {"connect", "fail", "disconnect"}, Radio(e) PROVE Addresses'
  <2>1. /\ event = "none" /\ event' = e /\ stage' = "mgnt"
        /\ UNCHANGED <<ip, state, jobs, job, connected_flag>>
    BY <1>4 DEF Radio
  <2>2. odd \subseteq odd' /\ (e = "connect" /\ "link" \in Range(jobs) => "flapped" \in odd')
    BY <1>4 DEF Radio
  <2>3. SUFFICES ASSUME ~Excused' PROVE Addresses'
    BY DEF Addresses
  <2>4. ~Excused
    BY <2>2, <2>3
  <2>5. CASE e = "connect"
    <3>1. air \in {"joining", "lost"} /\ air' = "up"
      BY <1>4, <2>5 DEF Radio
    <3>2. "link" \notin Range(jobs)
      BY <2>2, <2>3, <2>5
    <3>3. air = "joining" => ip = 0
      BY NoAddress DEF Radios
    <3>4. ip = 0
      BY <2>1, <2>4, <3>1, <3>2, <3>3 DEF Addresses
    <3>5. "connect" \notin state
      BY <2>1, <2>4, <3>1 DEF Addresses
    <3> QED
      BY <2>1, <2>4, <2>5, <3>1, <3>2, <3>4, <3>5 DEF Addresses
  <2>6. CASE e = "fail"
    <3>1. air = "joining" /\ air' = "none"
      BY <1>4, <2>6 DEF Radio
    <3>2. "connect" \notin state
      BY <2>1, <2>4, <3>1 DEF Addresses
    <3> QED
      BY <2>1, <2>4, <2>6, <3>1, <3>2 DEF Addresses
  <2>7. CASE e = "disconnect"
    <3>1. air = "up" /\ air' = "lost"
      BY <1>4, <2>7 DEF Radio
    <3> QED
      BY <2>1, <2>4, <2>7, <3>1 DEF Addresses
  <2> QED
    BY <2>5, <2>6, <2>7
<1>5. CASE DispatchState
  <2>1. jobs \in Seq(JobKinds)
    BY DEF Silent
  <2>2. jobs' = jobs \/ jobs' = Append(jobs, "save")
    BY <1>5 DEF DispatchState
  <2>3. "link" \in Range(jobs') <=> "link" \in Range(jobs)
    BY <2>1, <2>2, JobAppended DEF JobKinds
  <2> QED
    BY <1>5, <2>3 DEF Addresses, Radios, DispatchState
<1>6. CASE DispatchComplete
  BY <1>6 DEF Addresses, DispatchComplete, Tells
<1>7. CASE DispatchProt
  <2>1. /\ stage = "prot" /\ event' = "none"
        /\ UNCHANGED <<state, air, ip, session, job>>
    BY <1>7 DEF DispatchProt
  <2>2. /\ event = "connect" => connected_flag'
        /\ event = "disconnect" => ~connected_flag'
        /\ event = "fail" => connected_flag' = connected_flag
    BY <1>7 DEF DispatchProt
  <2>3. odd \subseteq odd'
    BY <1>7 DEF DispatchProt
  <2>4. SUFFICES ASSUME ~Excused' PROVE Addresses'
    BY DEF Addresses
  <2>5. ~Excused
    BY <2>3, <2>4
  <2>6. \/ connected_flag' = connected_flag /\ jobs' = jobs
        \/ connected_flag' # connected_flag /\ jobs' = Append(jobs, "link")
    BY <1>7, <2>4 DEF DispatchProt
  <2>7. "link" \in Range(jobs) => "link" \in Range(jobs')
    BY <2>6, JobAppended DEF Silent, JobKinds
  <2>8. event \in {"connect", "fail", "disconnect"}
    BY <2>1 DEF Radios
  <2>9. CASE event = "connect"
    BY <2>1, <2>2, <2>5, <2>9 DEF Addresses, Radios
  <2>10. CASE event = "fail"
    <3>1. jobs' = jobs
      BY <2>2, <2>6, <2>10
    <3> QED
      BY <2>1, <2>2, <2>5, <2>10, <3>1 DEF Addresses, Radios
  <2>11. CASE event = "disconnect"
    <3>1. connected_flag /\ air = "lost"
      BY <2>5, <2>11 DEF Addresses, Radios
    <3>2. "link" \in Range(jobs')
      BY <2>2, <2>6, <2>11, <3>1, JobAppended DEF Silent, JobKinds
    <3> QED
      BY <2>1, <2>2, <2>5, <2>11, <3>1, <3>2 DEF Addresses
  <2> QED
    BY <2>8, <2>9, <2>10, <2>11
<1>8. CASE AssignIp
  BY <1>8 DEF Addresses, AssignIp
<1>9. CASE SetConnected
  <2>1. /\ jobs # <<>> /\ Head(jobs) = "link" /\ jobs' = Tail(jobs) /\ job = "idle"
        /\ ip' = IF connected_flag THEN ip ELSE 0
        /\ UNCHANGED <<odd, state, air, event, stage, session, job, connected_flag>>
    BY <1>9 DEF SetConnected, Takes
  <2>2. jobs \in Seq(JobKinds)
    BY DEF Silent
  <2>3. "link" \in Range(jobs') => "link" \in Range(jobs)
    BY <2>1, <2>2, JobTaken
  <2>4. "link" \in Range(jobs)
    BY <2>1, <2>2, JobTaken
  <2>5. SUFFICES ASSUME ~Excused PROVE Addresses'
    BY <2>1 DEF Addresses
  <2>6. CASE connected_flag
    <3>1. ip' = ip
      BY <2>1, <2>6
    <3>2. air = "lost" => event = "disconnect"
      BY <2>5, <2>6 DEF Addresses, Radios
    <3> QED
      BY <2>1, <2>3, <2>5, <2>6, <3>1, <3>2 DEF Addresses
  <2>7. CASE ~connected_flag
    <3>1. ip' = 0 /\ air # "up"
      BY <2>1, <2>4, <2>5, <2>7 DEF Addresses
    <3> QED
      BY <2>1, <2>5, <2>7, <3>1 DEF Addresses
  <2> QED
    BY <2>6, <2>7
<1>10. CASE SaveConfig
  <2>1. /\ jobs # <<>> /\ Head(jobs) = "save" /\ jobs' = Tail(jobs)
        /\ UNCHANGED <<odd, state, air, event, stage, ip, session, job, connected_flag>>
    BY <1>10 DEF SaveConfig, Takes
  <2>2. "link" \in Range(jobs') <=> "link" \in Range(jobs)
    BY <2>1, JobTaken DEF Silent
  <2> QED
    BY <2>1, <2>2 DEF Addresses
<1>11. CASE IsReady
  <2>1. /\ jobs # <<>> /\ Head(jobs) = "ready" /\ jobs' = Tail(jobs)
        /\ job' = IF ip = 0 THEN "tail" ELSE "check"
        /\ UNCHANGED <<odd, state, air, event, stage, ip, session, connected_flag>>
    BY <1>11 DEF IsReady, Takes
  <2>2. "link" \in Range(jobs') <=> "link" \in Range(jobs)
    BY <2>1, JobTaken DEF Silent
  <2>3. job' \in {"check", "set"} => ip # 0 /\ job' = "check"
    BY <2>1
  <2> QED
    BY <2>1, <2>2, <2>3 DEF Addresses
<1>12. CASE ReadyCheck \/ ReadySet \/ ReadyCall \/ ReadyTail
  BY <1>12 DEF Addresses, ReadyCheck, ReadySet, ReadyCall, ReadyTail
<1>13. CASE TimerFires
  <2>1. /\ odd \subseteq odd'
        /\ UNCHANGED <<state, air, event, stage, ip, session, job, connected_flag>>
    BY <1>13 DEF TimerFires
  <2>2. jobs' = jobs \/ jobs' = Append(jobs, "ready")
    BY <1>13 DEF TimerFires
  <2>3. "link" \in Range(jobs') <=> "link" \in Range(jobs)
    BY <2>2, JobAppended DEF Silent, JobKinds
  <2> QED
    BY <2>1, <2>3 DEF Addresses
<1>14. ScanWithoutDevice \/ ScanNoMemory \/ ScanCreate \/ ScanRun \/ ScanFails \/ ScanEnd \/
      Clean \/ SemInit \/ Register \/ FindBest \/ JoinNoMemory \/ JoinCreate \/ ConnectWait
      \/ ConnectEnd \/ Unregister \/ Detach \/ Delay \/ (\E ap \in APs : Report(ap)) \/
      ScanDone
      => UNCHANGED <<odd, state, air, event, stage, ip, session, jobs, job, connected_flag>>
  BY DEF ScanWithoutDevice, ScanNoMemory, ScanCreate, ScanRun, ScanFails, ScanEnd, Clean,
     SemInit, Register, FindBest, JoinNoMemory, JoinCreate, ConnectWait, ConnectEnd,
     Unregister, Detach, Delay, Report, ScanDone
<1>15. CASE UNCHANGED <<odd, state, air, event, stage, ip, session, jobs, job, connected_flag>>
  BY <1>15 DEF Addresses
<1> QED
  BY <1>1, <1>2, <1>3, <1>4, <1>5, <1>6, <1>7, <1>8, <1>9, <1>10, <1>11, <1>12, <1>13, <1>14, <1>15
     DEF Next, Main, Scan, Driver, Dispatch, WlanJob
-----------------------------------------------------------------------------
\* Nothing is connected, held or queued when main starts.
LEMMA Start == Init => IInv
<1> SUFFICES ASSUME Init PROVE IInv
  OBVIOUS
<1> USE DEF Init, Scanning, Unjoined, Past
<1>1. Locks
  BY DEF Locks
<1>2. Scans
  BY DEF Scans
<1>3. Radios
  BY DEF Radios
<1>4. Silent
  <2>1. jobs \in Seq(JobKinds)
    OBVIOUS
  <2>2. timer = FALSE /\ connected_flag = FALSE /\ job = "idle" /\ air = "none"
    OBVIOUS
  <2> QED
    BY <2>1, <2>2 DEF Silent
<1>5. Semaphore
  BY DEF Semaphore
<1>6. Addresses
  BY DEF Addresses
<1> QED
  BY <1>1, <1>2, <1>3, <1>4, <1>5, <1>6 DEF IInv

\* The six parts together are kept by every step.
LEMMA InvariantStep == IInv /\ [Next]_vars => IInv'
<1>1. IInv /\ Next => IInv'
  BY LocksStep, ScansStep, RadiosStep, SilentStep, SemaphoreStep, AddressesStep DEF IInv
<1>2. IInv /\ UNCHANGED vars => IInv'
  <2> SUFFICES ASSUME IInv, UNCHANGED vars PROVE IInv'
    OBVIOUS
  <2> USE DEF IInv, vars, mainVars, mgntVars, semVars, net, radio, lwip, worker
  <2>1. Locks'
    BY DEF Locks
  <2>2. Scans'
    BY DEF Scans
  <2>3. Radios'
    BY DEF Radios
  <2>4. Silent'
    BY DEF Silent, Before
  <2>5. Semaphore'
    BY DEF Semaphore
  <2>6. Addresses'
    BY DEF Addresses, Excused
  <2> QED
    BY <2>1, <2>2, <2>3, <2>4, <2>5, <2>6
<1> QED
  BY <1>1, <1>2

LEMMA Invariance == Spec => []IInv
  BY Start, InvariantStep, PTL DEF Spec

\* wifi_auto_connect ends with mgnt_mutex released and no completion left, on
\* every path through scanning, finding and joining.
THEOREM LocksGivenBack == Spec => []LocksReleased
<1>1. IInv => LocksReleased
  BY DEF IInv, Locks, Past, LocksReleased
<1> QED
  BY <1>1, Invariance, PTL

\* net_ready is released after its detachment, and information about an access
\* point is read from a freed table, only after a wait has timed out.
THEOREM DanglingIsLate == Spec => []DanglingOnlyAfterTimeout
<1>1. IInv => DanglingOnlyAfterTimeout
  BY DEF IInv, Scans, Semaphore, DanglingOnlyAfterTimeout
<1> QED
  BY <1>1, Invariance, PTL

\* The manager says ready of a connection that stands, with an address of this
\* very connection, away from the three windows that are named.
THEOREM ReadyCorrect == Spec => []ReadyIsTrue
<1>1. IInv => ReadyIsTrue
  BY DEF IInv, Addresses, Excused, ReadyIsTrue
<1> QED
  BY <1>1, Invariance, PTL
-----------------------------------------------------------------------------
\* A set of numbers has a least one.
LEMMA LeastOf ==
    ASSUME NEW I \in SUBSET Nat, I # {}
    PROVE  Min(I) \in I /\ \A y \in I : Min(I) <= y
<1>1. \E x \in I : \A y \in I : ~(<<y, x>> \in OpToRel(<, Nat))
  BY NatLessThanWellFounded, WFMin
<1>2. ASSUME NEW x \in Nat, NEW y \in Nat, y < x
      PROVE  <<y, x>> \in OpToRel(<, Nat)
  BY <1>2 DEF OpToRel
<1>3. \E x \in I : \A y \in I : ~(y < x)
  BY <1>1, <1>2
<1>4. \E x \in I : \A y \in I : x <= y
  BY <1>3
<1> QED
  BY <1>4 DEF Min

\* What insertion leaves at each index.
LEMMA Inserted ==
    ASSUME NEW S, NEW s \in Seq(S), NEW p \in 1..(Len(s) + 1), NEW e \in S
    PROVE  /\ InsertAt(s, p, e) \in Seq(S)
           /\ Len(InsertAt(s, p, e)) = Len(s) + 1
           /\ \A j \in 1..(Len(s) + 1) :
                InsertAt(s, p, e)[j] =
                    IF j < p THEN s[j] ELSE IF j = p THEN e ELSE s[j - 1]
<1> DEFINE u == SubSeq(s, 1, p - 1)
           v == <<e>>
           w == SubSeq(s, p, Len(s))
<1>1. Len(s) \in Nat /\ p \in Int /\ 1 <= p /\ p <= Len(s) + 1
  BY LenProperties
<1>2. u \in Seq(S) /\ Len(u) = p - 1 /\ \A i \in 1..(p - 1) : u[i] = s[i]
  <2>1. p - 1 \in 0..Len(s) /\ 1 \in 1..(p - 1 + 1)
    BY <1>1
  <2>2. \A i \in 1..(p - 1) : i \in 1..Len(s)
    BY <1>1
  <2> QED
    BY <1>1, <2>1, <2>2, SubSeqProperties
<1>3. w \in Seq(S) /\ Len(w) = Len(s) - p + 1
      /\ \A i \in 1..(Len(s) - p + 1) : w[i] = s[p + i - 1]
  BY <1>1, SubSeqProperties
<1>4. v \in Seq(S) /\ Len(v) = 1 /\ v[1] = e
  OBVIOUS
<1>5. InsertAt(s, p, e) = u \o v \o w
  BY DEF InsertAt
<1> DEFINE x == u \o v
<1> HIDE DEF u, v, w
<1>6. /\ x \in Seq(S) /\ Len(x) = p
      /\ \A i \in 1..p : x[i] = IF i < p THEN s[i] ELSE e
  <2>1. /\ x \in Seq(S) /\ Len(x) = Len(u) + Len(v)
        /\ \A i \in 1..(Len(u) + Len(v)) :
              x[i] = IF i <= Len(u) THEN u[i] ELSE v[i - Len(u)]
    BY <1>2, <1>4, ConcatProperties
  <2> HIDE DEF x
  <2> QED
    BY <1>1, <1>2, <1>4, <2>1
<1> HIDE DEF x
<1>7. /\ x \o w \in Seq(S) /\ Len(x \o w) = Len(x) + Len(w)
      /\ \A i \in 1..(Len(x) + Len(w)) :
            (x \o w)[i] =
                IF i <= Len(x) THEN x[i] ELSE w[i - Len(x)]
  BY <1>3, <1>6, ConcatProperties
<1>8. Len(x) + Len(w) = Len(s) + 1
  BY <1>1, <1>3, <1>6
<1>9. ASSUME NEW j \in 1..(Len(s) + 1)
      PROVE  (x \o w)[j] = IF j < p THEN s[j] ELSE IF j = p THEN e ELSE s[j - 1]
  <2>1. CASE j <= p
    <3>1. (x \o w)[j] = x[j] /\ j \in 1..p
      BY <1>1, <1>6, <1>7, <1>8, <2>1
    <3> QED
      BY <1>1, <1>6, <2>1, <3>1
  <2>2. CASE p < j
    <3>1. (x \o w)[j] = w[j - p]
      BY <1>1, <1>6, <1>7, <1>8, <2>2
    <3>2. j - p \in 1..(Len(s) - p + 1) /\ p + (j - p) - 1 = j - 1
      BY <1>1, <2>2
    <3>3. w[j - p] = s[j - 1]
      BY <1>3, <3>2
    <3> QED
      BY <1>1, <2>2, <3>1, <3>3
  <2>3. j <= p \/ p < j
    BY <1>1
  <2> QED
    BY <2>1, <2>2, <2>3
<1> QED
  BY <1>5, <1>7, <1>8, <1>9 DEF x

\* The position is behind every access point at least as good, before the
\* first that is worse.
LEMMA PositionFound ==
    ASSUME cache \in Seq(APs), NEW ap \in APs, ap \notin Range(cache)
    PROVE  /\ Position(ap) \in 1..(Len(cache) + 1)
           /\ \A j \in 1..Len(cache) :
                /\ j < Position(ap) => ~(Rank[ap] < Rank[cache[j]])
                /\ j = Position(ap) => Rank[ap] < Rank[cache[j]]
<1> DEFINE t == cache \o <<ap>>
           I == {i \in 1..Len(t) : t[i] = ap \/ Rank[ap] < Rank[t[i]]}
<1>1. /\ Len(t) = Len(cache) + 1 /\ Len(cache) \in Nat
      /\ \A j \in 1..Len(cache) : t[j] = cache[j]
      /\ t[Len(cache) + 1] = ap
  OBVIOUS
<1>2. \A j \in 1..Len(cache) : cache[j] # ap
  BY DEF Range
<1> HIDE DEF t
<1>3. Len(cache) + 1 \in I /\ I \in SUBSET Nat
  BY <1>1
<1>4. Position(ap) = Min(I)
  <2>1. Position(ap) = IF I # {} THEN Min(I) ELSE 0
    BY DEF Position, SelectInSeq, t
  <2> QED
    BY <1>3, <2>1
<1>5. Min(I) \in I /\ \A y \in I : Min(I) <= y
  BY <1>3, LeastOf
<1>6. Min(I) \in 1..(Len(cache) + 1)
  BY <1>1, <1>5
<1>7. ASSUME NEW j \in 1..Len(cache)
      PROVE  /\ j < Min(I) => ~(Rank[ap] < Rank[cache[j]])
             /\ j = Min(I) => Rank[ap] < Rank[cache[j]]
  <2>1. j \in 1..Len(t) /\ t[j] = cache[j] /\ t[j] # ap
    BY <1>1, <1>2
  <2>2. j < Min(I) => j \notin I
    BY <1>1, <1>5, <1>6
  <2>3. j = Min(I) => j \in I
    BY <1>5
  <2> QED
    BY <2>1, <2>2, <2>3
<1> QED
  BY <1>4, <1>6, <1>7

\* The cache, and that it is a sequence.
Cached == cache \in Seq(APs) /\ CacheOK

\* An access point goes to its place: the cache stays sorted, without duplicates.
LEMMA ReportKeepsOrder ==
    ASSUME Cached, NEW ap \in APs, ap \notin Range(cache), Len(cache) < SCAN_CACHE_NUM,
           cache' = InsertAt(cache, Position(ap), ap)
    PROVE  Cached'
<1> DEFINE p == Position(ap)
           n == Len(cache)
<1>1. /\ p \in 1..(n + 1) /\ n \in Nat
      /\ \A j \in 1..n : /\ j < p => ~(Rank[ap] < Rank[cache[j]])
                         /\ j = p => Rank[ap] < Rank[cache[j]]
  BY PositionFound, LenProperties DEF Cached
<1>2. /\ cache' \in Seq(APs) /\ Len(cache') = n + 1
      /\ \A j \in 1..(n + 1) :
            cache'[j] = IF j < p THEN cache[j] ELSE IF j = p THEN ap ELSE cache[j - 1]
  <2>1. cache \in Seq(APs) /\ p \in 1..(Len(cache) + 1)
    BY <1>1 DEF Cached
  <2> HIDE DEF p
  <2>2. /\ InsertAt(cache, p, ap) \in Seq(APs) /\ Len(InsertAt(cache, p, ap)) = Len(cache) + 1
        /\ \A j \in 1..(Len(cache) + 1) :
              InsertAt(cache, p, ap)[j] =
                  IF j < p THEN cache[j] ELSE IF j = p THEN ap ELSE cache[j - 1]
    BY <2>1, Inserted
  <2>3. cache' = InsertAt(cache, p, ap)
    BY DEF p
  <2> QED
    BY <2>2, <2>3
<1>3. /\ \A j \in 1..n : cache[j] \in APs /\ cache[j] # ap /\ Rank[cache[j]] \in Nat
      /\ Rank[ap] \in Nat
      /\ \A i, j \in 1..n : cache[i] = cache[j] => i = j
      /\ \A i, j \in 1..n : i < j => Rank[cache[i]] <= Rank[cache[j]]
  BY RankAssumption DEF Cached, CacheOK, IsInjective, Range
<1> HIDE DEF p, n
<1>4. Range(cache') \subseteq APs
  BY <1>2 DEF Range
<1>5. Len(cache') <= SCAN_CACHE_NUM
  BY <1>1, <1>2, CacheAssumption DEF n
<1>6. ASSUME NEW i \in 1..(n + 1), NEW j \in 1..(n + 1), i < j
      PROVE  cache'[i] # cache'[j] /\ Rank[cache'[i]] <= Rank[cache'[j]]
  <2> DEFINE a == IF i < p THEN i ELSE i - 1
             b == IF j < p THEN j ELSE j - 1
  <2>1. i \in Int /\ j \in Int /\ p \in Int /\ n \in Int /\ 1 <= i /\ j <= n + 1
        /\ 1 <= p /\ p <= n + 1
    BY <1>1
  <2>2. CASE i = p
    <3>1. j - 1 \in 1..n /\ p <= j - 1 /\ ~(j < p) /\ j # p
      BY <1>6, <2>1, <2>2
    <3>2. cache'[i] = ap /\ cache'[j] = cache[j - 1]
      BY <1>2, <2>2, <3>1
    <3>3. p \in 1..n /\ Rank[ap] < Rank[cache[p]]
      BY <1>1, <2>1, <3>1
    <3>4. Rank[cache[p]] <= Rank[cache[j - 1]]
      BY <1>3, <2>1, <3>1, <3>3
    <3> QED
      BY <1>3, <3>1, <3>2, <3>3, <3>4
  <2>3. CASE j = p
    <3>1. i \in 1..n /\ i < p
      BY <1>6, <2>1, <2>3
    <3>2. cache'[j] = ap /\ cache'[i] = cache[i]
      BY <1>2, <2>3, <3>1
    <3> QED
      BY <1>1, <1>3, <3>1, <3>2
  <2>4. CASE i # p /\ j # p
    <3>1. a \in 1..n /\ b \in 1..n /\ a < b
      BY <1>6, <2>1, <2>4
    <3>2. cache'[i] = cache[a] /\ cache'[j] = cache[b]
      BY <1>2, <2>4
    <3> HIDE DEF a, b
    <3>3. cache[a] # cache[b] /\ Rank[cache[a]] <= Rank[cache[b]]
      BY <1>3, <3>1
    <3> QED
      BY <3>2, <3>3
  <2> QED
    BY <2>2, <2>3, <2>4
<1>7. IsInjective(cache')
  <2>1. DOMAIN cache' = 1..(n + 1)
    BY <1>2
  <2>2. \A i, j \in 1..(n + 1) : i # j => i < j \/ j < i
    BY <1>1
  <2>3. \A i, j \in 1..(n + 1) : cache'[i] = cache'[j] => i = j
    BY <1>6, <2>2
  <2> QED
    BY <2>1, <2>3 DEF IsInjective
<1>8. \A i, j \in 1..(n + 1) : i < j => Rank[cache'[i]] <= Rank[cache'[j]]
  BY <1>6
<1> QED
  BY <1>2, <1>4, <1>5, <1>7, <1>8 DEF Cached, CacheOK

LEMMA CachedStep == ASSUME Cached, Next PROVE Cached'
<1> USE DEF mainVars, mgntVars, semVars, radio, lwip, worker, net
<1>1. CASE Clean
  <2>1. cache' = <<>>
    BY <1>1 DEF Clean
  <2> QED
    BY <2>1, CacheAssumption DEF Cached, CacheOK, IsInjective, Range
<1>2. ASSUME NEW ap \in APs, Report(ap)
      PROVE  Cached'
  <2>1. CASE Len(cache) >= SCAN_CACHE_NUM
    <3>1. cache' = cache
      BY <1>2, <2>1 DEF Report
    <3> QED
      BY <3>1 DEF Cached, CacheOK
  <2>2. CASE ~(Len(cache) >= SCAN_CACHE_NUM)
    <3>1. ap \notin Range(cache) /\ cache' = InsertAt(cache, Position(ap), ap)
      BY <1>2, <2>2 DEF Report
    <3>2. Len(cache) < SCAN_CACHE_NUM
      BY <2>2, CacheAssumption, LenProperties DEF Cached
    <3> QED
      BY <3>1, <3>2, ReportKeepsOrder
  <2> QED
    BY <2>1, <2>2
<1>3. ScanWithoutDevice \/ ScanNoMemory \/ ScanCreate \/ ScanRun \/ ScanFails \/ ScanWait
      \/ ScanEnd \/ SemInit \/ Register \/ FindBest \/ CopyBest \/ CheckInfo
      \/ JoinNoMemory \/ JoinCreate \/ ConnectAdv \/ ConnectWait \/ ConnectEnd \/ Take
      \/ Unregister \/ Detach \/ Delay
      => cache' = cache
  BY DEF ScanWithoutDevice, ScanNoMemory, ScanCreate, ScanRun, ScanFails, ScanWait,
     ScanEnd, SemInit, Register, FindBest, CopyBest, CheckInfo, JoinNoMemory, JoinCreate,
     ConnectAdv, ConnectWait, ConnectEnd, Take, Unregister, Detach, Delay
<1>4. ScanDone \/ (\E e \in {"connect", "fail", "disconnect"} : Radio(e)) \/ Dispatch
      \/ AssignIp \/ WlanJob \/ TimerFires
      => cache' = cache
  BY DEF ScanDone, Radio, Dispatch, DispatchState, DispatchComplete, DispatchProt,
     AssignIp, WlanJob, SaveConfig, SetConnected, IsReady, ReadyCheck, ReadySet, ReadyCall, ReadyTail,
     TimerFires
<1>5. CASE cache' = cache
  BY <1>5 DEF Cached, CacheOK
<1> QED
  BY <1>1, <1>2, <1>3, <1>4, <1>5 DEF Next, Main, Scan, Driver

\* What no part of the invariant above speaks of.
Ranges ==
    /\ best \in {"null", "table", "freed"}
    /\ state \subseteq {"connecting", "connect", "ready"}
    /\ sem \in {"none", "live", "detached"}
    /\ session <= MaxSessions

LEMMA RangesStep == ASSUME Ranges, Radios, Next PROVE Ranges'
<1> USE DEF mainVars, mgntVars, semVars, radio, lwip, worker, net
<1>1. best' \in {"null", "table", "freed"}
  <2>1. best' = best \/ best' \in {"null", "table", "freed"}
    BY DEF Next, Main, Scan, Driver, Dispatch, WlanJob, ScanWithoutDevice, ScanNoMemory,
       ScanCreate, ScanRun, ScanFails, ScanWait, ScanEnd, Clean, SemInit, Register,
       FindBest, CopyBest, Copied, CheckInfo, JoinNoMemory, JoinCreate, ConnectAdv,
       ConnectWait, ConnectEnd, Take, Unregister, Detach, Delay, Report, ScanDone, Radio,
       DispatchState, DispatchComplete, DispatchProt, AssignIp, SaveConfig, SetConnected, IsReady,
       ReadyCheck, ReadySet, ReadyCall, ReadyTail, TimerFires
  <2> QED
    BY <2>1 DEF Ranges
<1>2. sem' \in {"none", "live", "detached"}
  <2>1. sem' = sem \/ sem' \in {"none", "live", "detached"}
    BY DEF Next, Main, Scan, Driver, Dispatch, WlanJob, ScanWithoutDevice, ScanNoMemory,
       ScanCreate, ScanRun, ScanFails, ScanWait, ScanEnd, Clean, SemInit, Register,
       FindBest, CopyBest, CheckInfo, JoinNoMemory, JoinCreate, ConnectAdv,
       ConnectWait, ConnectEnd, Take, Unregister, Detach, Delay, Report, ScanDone, Radio,
       DispatchState, DispatchComplete, DispatchProt, AssignIp, SaveConfig, SetConnected, IsReady,
       ReadyCheck, ReadySet, ReadyCall, ReadyTail, TimerFires
  <2> QED
    BY <2>1 DEF Ranges
<1>3. state' \subseteq {"connecting", "connect", "ready"}
  <2>1. CASE ConnectAdv
    BY <2>1 DEF Ranges, ConnectAdv
  <2>2. CASE DispatchState
    BY <2>2 DEF Ranges, DispatchState
  <2>3. CASE ReadySet
    BY <2>3 DEF Ranges, ReadySet
  <2>4. CASE state' = state
    BY <2>4 DEF Ranges
  <2> QED
    BY <2>1, <2>2, <2>3, <2>4
    DEF Next, Main, Scan, Driver, Dispatch, WlanJob, ScanWithoutDevice, ScanNoMemory,
       ScanCreate, ScanRun, ScanFails, ScanWait, ScanEnd, Clean, SemInit, Register,
       FindBest, CopyBest, CheckInfo, JoinNoMemory, JoinCreate,
       ConnectWait, ConnectEnd, Take, Unregister, Detach, Delay, Report, ScanDone, Radio,
       DispatchComplete, DispatchProt, AssignIp, SaveConfig, SetConnected, IsReady,
       ReadyCheck, ReadyCall, ReadyTail, TimerFires
<1>4. session' <= MaxSessions
  <2>1. ASSUME NEW e \in {"connect", "fail", "disconnect"}, Radio(e)
        PROVE  session' <= MaxSessions
    <3>1. session \in Nat /\ session <= MaxSessions
      BY DEF Radios, Ranges
    <3>2. \/ session < MaxSessions /\ session' = session + 1
          \/ session' = session
      BY <2>1 DEF Radio
    <3> QED
      BY <3>1, <3>2, CacheAssumption
  <2>2. CASE session' = session
    BY <2>2 DEF Ranges
  <2> QED
    BY <2>1, <2>2
    DEF Next, Main, Scan, Driver, Dispatch, WlanJob, ScanWithoutDevice, ScanNoMemory,
       ScanCreate, ScanRun, ScanFails, ScanWait, ScanEnd, Clean, SemInit, Register,
       FindBest, CopyBest, CheckInfo, JoinNoMemory, JoinCreate, ConnectAdv,
       ConnectWait, ConnectEnd, Take, Unregister, Detach, Delay, Report, ScanDone,
       DispatchState, DispatchComplete, DispatchProt, AssignIp, SaveConfig, SetConnected, IsReady,
       ReadyCheck, ReadySet, ReadyCall, ReadyTail, TimerFires
<1> QED
  BY <1>1, <1>2, <1>3, <1>4 DEF Ranges

\* Connections the manager has heard of, and releases of net_ready made or due.
Dispatched == IF event = "connect" /\ stage = "mgnt" THEN session - 1 ELSE session
Signals == IF handler THEN value + 1 ELSE value

\* A connection makes the manager ready, and releases net_ready, at most once:
\* one that was not reported ready yet still has its release to come.
Credits ==
    /\ Signals <= Dispatched
    /\ job = "set" => Signals < Dispatched
    /\ "connect" \in state /\ "ready" \notin state => Signals < Dispatched

LEMMA CreditsStep ==
    ASSUME Credits, Semaphore, Semaphore', Silent, Radios, Radios', Next
    PROVE  Credits'
<1> USE DEF mainVars, mgntVars, semVars, radio, lwip, worker, net
<1>t. /\ value \in Nat /\ value' \in Nat /\ session \in Nat /\ session' \in Nat
      /\ handler \in BOOLEAN /\ handler' \in BOOLEAN
      /\ handler => job = "call"
      /\ main \notin Past => value = 0
      /\ event = "none" <=> stage = "none"
  BY DEF Semaphore, Radios
<1>1. CASE SemInit
  <2>1. value = 0 /\ value' = 0
    BY <1>1, <1>t DEF SemInit, Goto, Past
  <2> QED
    BY <1>1, <2>1 DEF Credits, Signals, Dispatched, SemInit
<1>2. CASE ConnectAdv
  <2>1. "connect" \in state' /\ "ready" \notin state' => "connect" \in state /\ "ready" \notin state
    <3>1. state' = state \cup {"connecting"} \/ state' = state \ {"connecting"}
      BY <1>2 DEF ConnectAdv
    <3> QED
      BY <3>1
  <2>2. UNCHANGED <<value, handler, job, event, stage, session>>
    BY <1>2 DEF ConnectAdv
  <2> QED
    BY <2>1, <2>2 DEF Credits, Signals, Dispatched
<1>3. CASE Take
  <2>1. value' = value - 1 \/ value' = value
    BY <1>3 DEF Take
  <2>2. handler' = handler /\ job' = job /\ state' = state /\ event' = event
        /\ stage' = stage /\ session' = session
    BY <1>3 DEF Take
  <2>3. Signals' <= Signals /\ Dispatched' = Dispatched /\ Signals \in Int
        /\ Signals' \in Int /\ Dispatched \in Int
    <3>1. Dispatched' = Dispatched
      BY <2>2 DEF Dispatched
    <3>2. Dispatched \in Int
      BY <1>t DEF Dispatched
    <3>3. Signals \in Int /\ Signals' \in Int
      BY <1>t DEF Signals
    <3>4. value \in Nat /\ value' \in Nat /\ value' <= value
      BY <1>t, <2>1
    <3>5. CASE handler
      <4>1. Signals = value + 1 /\ Signals' = value' + 1
        BY <2>2, <3>5 DEF Signals
      <4>2. Signals' <= Signals
        <5>1. \A u, v \in Nat : u <= v => u + 1 <= v + 1
          OBVIOUS
        <5> QED
          BY <3>4, <4>1, <5>1, Zenon
      <4> QED
        BY <3>1, <3>2, <3>3, <4>2
    <3>6. CASE ~handler
      <4>1. Signals = value /\ Signals' = value'
        BY <2>2, <3>6 DEF Signals
      <4>2. Signals' <= Signals
        BY <3>4, <4>1
      <4> QED
        BY <3>1, <3>2, <3>3, <4>2
    <3> QED
      BY <3>5, <3>6
  <2> QED
    BY <2>2, <2>3 DEF Credits
<1>4. ASSUME NEW e \in {"connect", "fail", "disconnect"}, Radio(e)
      PROVE  Credits'
  <2>1. /\ event = "none" /\ event' = e /\ stage' = "mgnt"
        /\ session' = IF e = "connect" THEN session + 1 ELSE session
        /\ value' = value /\ handler' = handler /\ job' = job /\ state' = state
    BY <1>4 DEF Radio
  <2>2. Signals' = Signals /\ Dispatched' = Dispatched
    BY <1>t, <2>1 DEF Signals, Dispatched
  <2> QED
    BY <2>1, <2>2 DEF Credits
<1>5. CASE DispatchState
  <2>1. /\ stage = "mgnt" /\ stage' = "complete" /\ event' = event
        /\ session' = session /\ value' = value /\ handler' = handler /\ job' = job
    BY <1>5 DEF DispatchState
  <2>2. Signals' = Signals /\ Signals \in Int /\ Dispatched \in Int
    BY <1>t, <2>1 DEF Signals, Dispatched
  <2>3. CASE event = "connect"
    <3>1. Dispatched' = Dispatched + 1
      BY <1>t, <2>1, <2>3 DEF Dispatched
    <3> QED
      BY <2>1, <2>2, <3>1 DEF Credits
  <2>4. CASE event # "connect"
    <3>1. Dispatched' = Dispatched
      BY <2>1, <2>4 DEF Dispatched
    <3>2. "connect" \notin state'
      BY <1>5, <2>4 DEF DispatchState
    <3> QED
      BY <2>1, <2>2, <3>1, <3>2 DEF Credits
  <2> QED
    BY <2>3, <2>4
<1>6. CASE DispatchComplete \/ DispatchProt
  <2>1. /\ stage \in {"complete", "prot"} /\ stage' \in {"prot", "none"}
        /\ session' = session /\ value' = value /\ handler' = handler /\ job' = job
        /\ state' = state
    BY <1>6 DEF DispatchComplete, DispatchProt
  <2>2. Signals' = Signals /\ Dispatched' = Dispatched
    BY <2>1 DEF Signals, Dispatched
  <2> QED
    BY <2>1, <2>2 DEF Credits
<1>7. CASE IsReady \/ ReadyCheck \/ ReadyTail
  <2>1. /\ value' = value /\ handler' = handler /\ state' = state /\ event' = event
        /\ stage' = stage /\ session' = session
    BY <1>7 DEF IsReady, ReadyCheck, ReadyTail
  <2>2. job' = "set" => "connect" \in state /\ "ready" \notin state
    BY <1>7 DEF IsReady, ReadyCheck, ReadyTail
  <2>3. Signals' = Signals /\ Dispatched' = Dispatched
    BY <2>1 DEF Signals, Dispatched
  <2> QED
    BY <2>1, <2>2, <2>3 DEF Credits
<1>8. CASE ReadySet
  <2>1. /\ job = "set" /\ job' = "call" /\ "ready" \in state' /\ value' = value
        /\ event' = event /\ stage' = stage /\ session' = session
    BY <1>8 DEF ReadySet
  <2>2. Signals = value
    BY <1>t, <2>1 DEF Signals
  <2>3. Signals' \in Int /\ Signals' <= value + 1 /\ Dispatched' = Dispatched
        /\ Dispatched \in Int
    BY <1>t, <2>1 DEF Signals, Dispatched
  <2>4. value < Dispatched
    BY <2>1, <2>2 DEF Credits
  <2>5. Signals' <= Dispatched
    BY <1>t, <2>3, <2>4
  <2> QED
    BY <2>1, <2>3, <2>5 DEF Credits
<1>9. CASE ReadyCall
  <2>1. /\ job' # "set" /\ state' = state /\ handler' = FALSE
        /\ event' = event /\ stage' = stage /\ session' = session
        /\ value' = value \/ (handler /\ value' = value + 1)
    BY <1>9 DEF ReadyCall
  <2>2. Signals' <= Signals /\ Dispatched' = Dispatched /\ Signals \in Int
        /\ Signals' \in Int /\ Dispatched \in Int
    BY <1>t, <2>1 DEF Signals, Dispatched
  <2> QED
    BY <2>1, <2>2 DEF Credits
<1>10. CASE UNCHANGED <<value, handler, job, state, event, stage, session>>
  <2>1. /\ value' = value /\ handler' = handler /\ job' = job /\ state' = state
        /\ event' = event /\ stage' = stage /\ session' = session
    BY <1>10
  <2> QED
    BY <2>1 DEF Credits, Signals, Dispatched
<1>11. ScanWithoutDevice \/ ScanNoMemory \/ ScanCreate \/ ScanRun \/ ScanFails \/ ScanWait
      \/ ScanEnd \/ Clean \/ Register \/ FindBest \/ CopyBest \/ CheckInfo
      \/ JoinNoMemory \/ JoinCreate \/ ConnectWait \/ ConnectEnd
      \/ Unregister \/ Detach \/ Delay \/ (\E ap \in APs : Report(ap)) \/ ScanDone
      \/ AssignIp \/ SaveConfig \/ SetConnected \/ TimerFires
      => UNCHANGED <<value, handler, job, state, event, stage, session>>
  BY DEF ScanWithoutDevice, ScanNoMemory, ScanCreate, ScanRun, ScanFails, ScanWait,
     ScanEnd, Clean, Register, FindBest, CopyBest, CheckInfo, JoinNoMemory, JoinCreate,
     ConnectWait, ConnectEnd, Unregister, Detach, Delay, Report, ScanDone, AssignIp,
     SaveConfig, SetConnected, TimerFires
<1> QED
  BY <1>1, <1>2, <1>3, <1>4, <1>5, <1>6, <1>7, <1>8, <1>9, <1>10, <1>11
  DEF Next, Main, Scan, Driver, Dispatch, WlanJob

\* The cache of access points stays sorted, without duplicates and within
\* RT_WLAN_SCAN_CACHE_NUM; the manager's state, the hold count of mgnt_mutex and
\* the count of net_ready stay in their ranges: a connection releases net_ready
\* at most once, so it never counts more than the connections made.
THEOREM ConnectTypes == Spec => []TypeOK
<1> DEFINE All == IInv /\ Cached /\ Ranges /\ Credits
<1>1. Init => All
  <2> SUFFICES ASSUME Init
               PROVE  All
      OBVIOUS
  <2>1. Cached
    BY CacheAssumption DEF Init, Cached, CacheOK, IsInjective, Range
  <2>2. Ranges
    BY CacheAssumption DEF Init, Ranges
  <2>3. Credits
    BY DEF Init, Credits, Signals, Dispatched
  <2> QED
    BY <2>1, <2>2, <2>3, Start
<1>2. All /\ [Next]_vars => All'
  <2> SUFFICES ASSUME All, [Next]_vars
               PROVE  All'
      OBVIOUS
  <2>1. IInv'
    BY InvariantStep
  <2>2. CASE Next
    BY <2>1, <2>2, CachedStep, RangesStep, CreditsStep DEF IInv
  <2>3. CASE UNCHANGED vars
    <3>1. /\ cache' = cache /\ best' = best /\ state' = state /\ sem' = sem
          /\ session' = session /\ value' = value /\ handler' = handler /\ job' = job
          /\ event' = event /\ stage' = stage
      BY <2>3 DEF vars, mainVars, mgntVars, semVars, net, radio, lwip, worker
    <3> QED
      BY <2>1, <3>1 DEF Cached, CacheOK, Ranges, Credits, Signals, Dispatched
  <2> QED
    BY <2>2, <2>3
<1>3. All => TypeOK
  <2> SUFFICES ASSUME All
               PROVE  TypeOK
      OBVIOUS
  <2>1. /\ session \in Nat /\ ip \in Nat /\ ip <= session /\ session <= MaxSessions
        /\ value \in Nat /\ handler \in BOOLEAN
    BY DEF IInv, Radios, Semaphore, Ranges
  <2>2. value <= session
    <3>1. Signals <= Dispatched
      BY DEF Credits
    <3>2. Signals >= value /\ Dispatched <= session /\ Signals \in Int /\ Dispatched \in Int
      BY <2>1 DEF Signals, Dispatched
    <3> QED
      BY <2>1, <3>1, <3>2
  <2>3. value \in 0..MaxSessions /\ ip \in 0..session /\ session \in 0..MaxSessions
    BY <2>1, <2>2, CacheAssumption
  <2>4. mgnt \in 0..3
    <3>1. mgnt \in {0, 1, 2, 3}
      BY DEF IInv, Locks
    <3> HIDE DEF All
    <3> QED
      BY <3>1
  <2>5. /\ main \in {"scan", "scan run", "scan wait", "scan end", "clean", "sem init",
                 "register", "find", "copy", "find again", "copy again",
                 "check info", "join", "connect adv", "connect wait",
                 "connect end", "take", "unregister", "detach", "delay", "done"}
        /\ caller \in {"app", "connect"}
    BY DEF IInv, Locks, Unjoined, Scanning, Past
  <2>6. job \in {"idle", "check", "set", "call", "tail", "asserted"}
    BY DEF IInv, Silent
  <2> QED
    BY <2>3, <2>4, <2>5, <2>6 DEF Ranges, Cached, TypeOK
<1> HIDE DEF All
<1> QED
  BY <1>1, <1>2, <1>3, PTL DEF Spec
==============================================================================
