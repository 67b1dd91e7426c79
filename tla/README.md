# Verification of the roc_car firmware

The repository is the firmware of a four-wheel mecanum car: an STM32 board
running RT-Thread, driven from a phone over wifi. Most of the tree is the
vendored operating system, chip library, network stack and packages. The
program's own logic is in `application/roc_car/applications` and `ports`, in the
`rt-robot` package, and in what it drives of the vendored code: the ring buffer
that connects its two threads, the WLAN manager with its work queue, and the
environment store in flash. This directory holds TLA+ models of that logic, the
TLC runs that check them and TLAPS proofs about them.

## The system

`main` creates the ring buffer `tcp_dat`, connects to wifi, initialises the
robot, starts the threads `led_flash` and `wifi_control` and becomes the TCP
server itself.

| Part | State | Operations | Talks to |
|---|---|---|---|
| ring buffer (`ringbuffer.c`) | pool, read and write index, one mirror bit each | create, destroy, reset, put, put_force, get, putchar, putchar_force, getchar, data_len | main thread puts, `wifi_control` takes; no lock |
| TCP server (`tcprecv.c`) | receive buffer, listening socket, `connected` | malloc, socket, bind, listen, accept, recv | lwIP, ring buffer, LED thread |
| command protocol (`protocol_parser.c`) | package buffer, `m_recv_flag`, locals of the reassembly | protocol_recev_data, protocol_parser, getters, reinit | ring buffer, `wifi_control` |
| threads (`main.c`) | position in their loops | wifi_control, led_flash | all of the above |
| robot (`roc_robot.c`) | speed, status | movements, drive, set_speed | motors |
| motor (`single_pwm_motor.c`) | two pins, PWM pulse | set_speed, enable, disable | PWM driver |
| wifi connection (`wifi_connect.c`, `wlan_mgnt.c`, `wlan_lwip.c`) | semaphore `net_ready`, station state, scan cache, completion, event table, address timer | scan, connect, event dispatch, address polling | WLAN driver, work queue |
| work queue (`workqueue.c`, `wlan_workqueue.c`) | list of works, current work, heap blocks | dowork, worker thread | WLAN driver and lwIP threads, `wlan_job` |
| environment store (`ef_env.c`, `wifi_config.c`) | cache, two flash areas, changed flag, lock | load, default, update, set, save | flash port, WLAN configuration, shell |
| encoder, controller, wheel (`rt-robot`) | counts, last line value, PID errors, target | interrupt handler, measure, update, set_rpm | motors |
| chassis, kinematics, command, ps2 (`rt-robot`) | targets of four wheels, command table | set_velocity, update, handlers | wheels |

What is hard here:

* **two threads in one unlocked buffer.** `main` and `wifi_control` have the
  same priority and are time-sliced; either may be preempted between two
  accesses to the ring buffer. Mirror and index are bit fields of one 16-bit
  word.
* **byte streams.** TCP does not keep frames together. recv, the ring buffer
  and the 5 ms poll each may cut a frame, and the reassembly state is local to
  one call.
* **eight-bit counters** in the parser, a length byte taken from the peer.
* **events against time-outs**: the WLAN driver's events, the completion and the
  semaphore on `main`'s stack, and the jobs of `wlan_job` meet in
  `wifi_auto_connect`; each wait may end without what it waits for.
* **reused memory**: a job is queued through a heap block that the worker frees
  while the caller may still come back to it.
* **a store without a lock on its save**, flash calls that fail, power that goes
  between an erase and a write.
* **an interrupt between two reads** of the encoder's count; a tick counter that
  wraps; memory from `rt_malloc` that is read before it is written.
* **clamping**: four wheel speeds are computed from two components and limited
  one by one.

## Modules

| Module | Models | State and actions |
|---|---|---|
| `ByteQueue` | what the ring buffer promises: a bounded FIFO queue | capacity, queue, last call's result and bytes |
| `RingBuffer` | `ringbuffer.c`, every call one step | the C structure's fields; one action per function |
| `TcpDat` | `rt_ringbuffer_put_force` in one thread against data_len and getchar in the other, one load or store per step | the two 16-bit words, each thread's position and registers |
| `ProtocolParser` | `protocol_parser.c` and the loop of `wifi_control` | package buffer and locals; one action per path through an iteration |
| `TcpServer` | `tcprecvserv` and `led_flash` | server position, buffer, sockets, `connected`; the peer is external |
| `RocRobot` | `roc_robot.c` and the motor's set_speed | speed, status, pins and pulse of each motor |
| `WifiCar` | the whole path: TcpServer, ProtocolParser and RocRobot sharing the content of `tcp_dat` | instances of the three, plus the frames acted on and whether recv has cut the stream |
| `WorkQueue` | `rt_wlan_workqueue_dowork` over `rt_workqueue_dowork`, and the worker | list, current work, what each heap block holds, position of each caller |
| `WifiConnect` | `wifi_auto_connect` with everything it reaches of the WLAN manager and its lwIP layer | position of `main`, of the event being dispatched and of `wlan_job`; semaphore, completion, scan cache, station state, timer |
| `DurableStore` | what a cached store promises about power cuts | memory, disk, whether a fault has damaged it |
| `EnvStore` | `ef_env.c` with its callers `write_cfg`, setenv, saveenv, resetenv | both flash areas, the cache, where each caller is in set and save |
| `Wheel` | `ab_phase_encoder.c`, `encoder.c`, `inc_pid_controller.c`, `wheel_update` | pins, counts, errors, position in the update; the wheel itself is external |
| `CommandProofs` | theorems about `ProtocolParser` and `RocRobot`, the two ends of a command | |
| `TcpProofs` | theorems about `TcpDat` and `TcpServer`, the two halves of receiving | |
| `*Proofs` | theorems about the module they are named after | |
| `MC*` | constants for TLC | |

How they fit. `RingBuffer` is shown to implement `ByteQueue` (`IsByteQueue`,
refinement mapping `queue <- Contents`). `TcpDat` says when that view survives
two threads. `ProtocolParser` then uses a queue of bytes for `tcp_dat`;
`TcpServer` and `WifiCar` use one of `RingSize` bytes that put_force may overrun,
as in `ByteQueue`, and that holds anything of `Garbled` once a window of `TcpDat`
is hit, which may happen at any put_force. `lost` records both, and each property
says whether it holds after them. `WorkQueue` says which jobs are accepted and that the accepted are
done in order; `WifiConnect` uses a sequence of jobs from which a job may be
refused. `EnvStore` is shown to implement `DurableStore` (`Durable`): `mem` is
the cache, `disk` what the next start would load, `sound` the absence of a
failed or disturbed save since the last start.

Choices worth knowing:

* `RingBuffer`: a capacity of 0 stands for a null pointer. Either malloc of
  create may fail; a new pool has arbitrary content. `RT_ALIGN_DOWN` is
  modelled, so a request below the alignment yields no buffer.
* `ByteQueue.PutForce` allows, on overrun, either the newest bytes or an empty
  queue, because the code leaves an empty buffer in some positions; the run
  `ringbuffer_force` is about that difference.
* `TcpDat`: loads and stores are those of the debug build (`-O0`), in which
  every access of the source is an access of memory. A store to a mirror or an
  index rewrites the word from an earlier load. Loads of the write word by the
  writer and of the read word by the reader inside one expression are taken
  with the load of the other word, as nobody else stores to them except on
  overrun. The memcpy is one step: the reader looks at those slots only after
  the index is published, unless the block overruns, which `raced` records.
* `ProtocolParser`: sum and data read past the package buffer (a length below
  6) give either verdict. The resynchronisation loop is modelled by its effect
  on the index, the only one that is used. `wifi_control` has been through its
  loop once before bytes can arrive, since it starts before the socket exists.
* `TcpServer`: lwIP 2.0.2 ignores `MSG_WAITALL`, so recv returns what there is.
  The `SO_RCVTIMEO` option is given an `int` where lwIP expects a
  `struct timeval`; the call fails unnoticed and recv and accept have no
  timeout. accept may fail each time it is called (`AcceptFails`, in `WifiCar`
  too).
* `RocRobot`: cos and sin are constants, in thousandths; the proofs assume
  nothing of them but that they are integers. The truncation to `rt_int16_t` is
  modelled. The values in `MCRocRobot` are those of the arguments the code
  passes: degrees, where libm takes radians (`roc_robot.c:161`).
* `WorkQueue`: stretches with interrupts disabled are one step. `wlan_job` has
  the lowest priority of those involved, so it waits while a caller is inside
  dowork; callers preempt each other and `wlan_job` everywhere else.
* `WifiConnect`: the configuration of this car decides: `RT_DEBUG` is on (a
  release of a detached semaphore asserts), a scan cache of 50, a one-shot
  address timer of 1000 ms, no automatic reconnection, `main` at priority 10
  above `wlan_job` at 22, and no `BSP_USING_WIFI_THREAD_INIT` (the driver is up
  before `main`). Of the job that saves the configuration of a connection
  (`wlan_mgnt.c:507`) there is its turn in the queue, not what it saves. What used to happen stays visible in `odd`, the set of things
  that should not or hardly ever happen; each property names those it excuses.
* `EnvStore`: setenv takes any name, those of the WLAN configuration included.
  An entry has a size, a copy an end address, a saved count and a
  CRC, which is what it covers. One flash call is one step and so are the lines
  of `ef_save_env` before its erase and after its write. An erase that is cut or
  fails may have happened; a write that is cut leaves nothing valid.
* `Wheel`: floats are integers, the casts to `rt_int16_t` are kept. Memory from
  `rt_malloc` holds any value of `Garbage`. The handler may run at any step and
  some time after the edge it serves.

## Runs

| Run | Shows | Bounds |
|---|---|---|
| `ringbuffer` | indices and mirrors stay consistent; every call does what a queue does | pool of 4 with Align 4 (requests 3 and 5), blocks up to 5 bytes of two values: blocks shorter, equal to and longer than the pool at every offset |
| `ringbuffer_force` | *violated*: put_force does not always keep the newest bytes | same |
| `tcpdat` | without a race the parser sees every byte once, in order and eventually; the write index stays in the pool in every interleaving | pool of 3, blocks of 1 or 2, 9 bytes (three times round), a backlog of 5, so blocks also overrun; after a race 4 bytes |
| `tcpdat_lost` | *violated*: bytes vanish from a buffer that never overran | pool of 3, 6 bytes, backlog 3 |
| `parser` | stores in bounds; only whole, checked frames accepted | package buffer of 8 (the shortest frame exactly), every stream over START, END, the length 6 and 0, polled at every point |
| `rocrobot` | pulses within the period; only rotation spins | seven speeds with the extremes of `rt_int8_t`, four angles |
| `tcpserver` | no receive from a closed socket, buffer freed exactly on failure, back to accept | three connections, three writes of one or two bytes, recv of at most 2 |
| `wificar` | the car acts only on frames the phone wrote, in order; while nothing is cut or broken, none is skipped; the motors follow the last moving frame; every frame of an accepted connection is acted on, unless one was cut or bytes were lost | two frames of four kinds (the joystick at rest and at 90, a turning button, a speed that carries the START code as data), two connections, every cut of the stream, every break, every failing accept; a `tcp_dat` of 16 bytes, which two frames overrun, and a race at any put_force that leaves it empty or with the tail of a command and the command again |
| `workqueue` | each heap block has one owner, accepted jobs are done once and in order, a resume finds work, a job is refused only in one window, a wake-up is lost only in one other, and every accepted job is done | two callers, two blocks, four jobs: blocks are reused twice |
| `wificonnect` | `wifi_auto_connect` returns with its locks released; ready is said of the present connection; dangling objects are reached only after a time-out | three access points, a cache of two (insertion before, behind and into a full cache), two connections (one lost and one made again) |
| `envstore` | an area saved last is what the next start reads; length and contents of the configuration belong together; every call returns | two tasks, three calls, one flash error, one power cut anywhere, setenv of any name, two values of which two long ones do not fit |
| `wheel` | counts are lost only between two reads; the incremental controller computes the positional law of the textbooks until it is limited | three edges, five ticks of a counter that wraps at four, gains that reach the limits |

Bounds are small because the interesting cases are relative: a pool smaller
than two blocks wraps and overruns, a package buffer of exactly one frame meets
every limit, two frames suffice for one to disturb the next, two jobs meet in
one block when the first is freed, two areas alternate with every save, and a
tick counter of four wraps between two measurements. `RacedBound` in `MCTcpDat`
limits how far states are explored after a race; properties guarded by `~raced`
lose nothing by it. `LostBound` in `MCWifiCar` follows a run after a loss only
while nothing more is on the wire and up to the second frame acted on: of the
properties of `WifiCar` only `MotorsFollow` says anything after a loss. A
`tcp_dat` of 16 bytes stands for the 256 of the program: what matters is that a
frame fits, that two do not, and that either may have been taken before.

The violated properties state what a comment or a document says; each has an
entry under `findings` in `PROJECT.json` with the line quoted.

### What the models show of the code

Some behaviours are not properties of their own but bound one, and a reader of
the code should know them:

* *Ring buffer.* Between the stores of `write_mirror` and `write_index` the
  reader can take a nearly empty buffer for a full one. Between getchar's stores
  of `read_mirror` and `read_index` (`ringbuffer.c:277`) the writer takes a full
  buffer for an empty one and overwrites it without moving the read position;
  the proof of `BytesInOrder` failed until this window was named (`HalfTaken`).
  An overrun that falls between getchar's comparison and its increment takes
  `read_index` to `buffer_size`.
* *Parser.* A frame cut between two polls is dropped (`protocol_parser.c:30`:
  the reassembly state is local), although `docs/wifi_driver_part.md:169` says
  that no packet can be lost. `AllExecuted` excuses cut frames. When more than
  256 bytes wait, put_force drops what was not read (`tcprecv.c:114`), and the
  halves of two frames may meet; `lost` records it.
* *Server.* After a receive error `connected` keeps the closed handle
  (`tcprecv.c:87`): the LED shows a connection that is gone until the next
  accept. `NoUseAfterClose` says that this is the only place it is left stale.
* *WLAN manager.* When more access points report than the cache holds,
  `scan_result_mutex` is not released (`wlan_mgnt.c:253`) and `main` waits for
  it for ever; `MainReturns` excuses that (`leaked`). When the completion cannot be
  created, `mgnt_mutex` is released twice (`wlan_mgnt.c:651`), which does
  nothing the second time. The best access point is copied after the unlock and
  may be read from a table that has been reallocated. A ready event that comes
  after the semaphore's time-out may find it detached
  (`DanglingOnlyAfterTimeout`).
* *Work queue.* A caller given the block of the job just done is refused while
  that block is still `work_current` (`RefusedInWindow`); `wlan_lwip.c` ignores
  the refusal, which `WifiConnect` calls a lost job.
* *Environment store.* `ef_save_env` takes no lock: two overlapping saves can
  erase both areas (`ef_env.c:755`). The areas change places before the erase,
  so after an erase error the next save erases the only good copy (`:757`). A
  write error still clears `env_cache_changed` (`:795`). Resetting starts the
  saved count again (`:189`), so a reset that fails half way may leave an older
  copy that wins. A set that finds no room has already deleted the old value
  (`:513`), and the shell's setenv may change one half of the configuration.
  `hurt` and `mixed` record exactly these, and the properties hold away from
  them: these defects are described, not caught.
* *Wheel.* `output`, `cps` and the controller's `last_time` are read before they
  are written; `wheel_enable` waits a `sample_time` that is not set yet
  (`wheel.c:48`). An edge that comes before the one ahead of it is served is
  counted backward. The encoder measures every 1000 ms and the controller runs
  every 50, so that it reuses a stale speed up to twenty times.

### Fairness

Weak fairness is assumed of each thread as a whole: `PutForce`, `TakeChar`
(`TcpDat`), `Serve`, `LedFlash` (`TcpServer`), `WifiControl`, and
`TcpRecv` from the accepted connection on (`WifiCar`), `WlanJob` and each caller's `Dowork` (`WorkQueue`), `Main`,
`Dispatch`, `WlanJob`, `TimerFires` (`WifiConnect`) and each task's `Step`
(`EnvStore`). RT-Thread shares the processor among ready threads of one priority
in time slices; where priorities differ the higher ones block again, and the
models let the lower run only then. None of the loops disables interrupts or the
scheduler. `TimerFires` is the system timer, `Main` includes the time-outs of
its waits. Nothing is assumed of the phone, the radio, DHCP or the power, and
nothing makes accept, a join or a flash call succeed rather than fail: `Accept`
is in no fair action, so that `AllExecuted` speaks of connections that have been
accepted.
`RingBuffer`, `ProtocolParser`, `RocRobot` and `Wheel` have safety properties
only and no fairness.

`CHECK_DEADLOCK FALSE` is set where the system may really stop: the phone stops
sending (`TcpDat`, `WifiCar`), no job is handed in (`WorkQueue`),
`wifi_auto_connect` has returned and the radio is silent (`WifiConnect`), nobody
calls the store (`EnvStore`), or the bound on edges and ticks is reached
(`Wheel`).

## Theorems

Each is proved for every value of the constants that meets the module's named
assumptions, without the bounds of the runs except where a bound is a constant
of the module. Every invariant that the runs check is among them, those of
`WifiCar` under the conditions stated; the type invariants of `TcpDat` and
`TcpServer` are proved and no run checks them.

| Theorem | Statement | Argument |
|---|---|---|
| `WifiCarProofs!PlainFramesArriveInOrder` | `Spec => [](PlainFrames /\ resets = 0 => NoPhantom)`, where `NoPhantom` is about `~lost` | `PhantomInv`: each byte in the ring buffer or on the wire is located in a frame written, a frame's bytes one behind the other; the open frame is a prefix of the frame whose next byte is the next to come; the complete one lies between the frames acted on and the bytes on their way |
| `WifiCarProofs!PlainFramesAreObeyed` | `Spec => [](PlainFrames /\ resets = 0 /\ ~lost => MotorsFollow)` | the theorems above and below: frames that were written are whole |
| `WifiCarProofs!NoneIsSkipped` | `Spec => [](ProperFrames => NoneSkipped)`, where `NoneSkipped` is about `resets = 0 /\ ~cut /\ ~lost` | `SkipInv`: where each frame lies in the bytes on their way, the ring buffer ending where a frame does; the open frame is always the one after those acted on, and its bytes taken are all there is in the package buffer; a whole one is accepted because its check sum is that of the buffer padded with zeros |
| `WifiCarProofs!ProperFramesAreObeyed` | `Spec => [](ProperFrames /\ resets = 0 /\ ~cut /\ ~lost => MotorsFollow)` | the theorems above and below |
| `WifiCarProofs!MotorsDoAsAsked` | `Spec => [](WholeLength => MotorsFollow)` | `MotorInv`: after every frame acted on, speed and motors are those of the last frame of each kind; appending a frame either is the new last one or leaves them |
| `RingBufferProofs!IndicesInPool` | `Spec => []TypeOK` | the index part of the type invariant with `MirrorOrder`: how far an index moves is bounded by data_len, and data_len is right only while the mirrors tell the order |
| `RingBufferProofs!MirrorsTellOrder` | `Spec => []MirrorOrder` | the same inductive invariant |
| `RingBufferProofs!RingIsQueue` | `Spec => IsByteQueue` | each function moves an index by at most data_len or the space left; the bytes between the indices, counted round the pool, are the queue, and each copy is at most two pieces of it |
| `TcpProofs!WriterStaysInPool` | `Spec => []WriterInPool` | `WriterInv`: the write word is stored to by put_force only, and what it decided about wrapping at the memcpy still holds when it publishes |
| `TcpProofs!RingWordsTyped` | `Spec => []TypeOK` | `Typed`: registers hold words, counts follow the bytes |
| `TcpProofs!BytesInOrder` | `Spec => []InOrderUnlessRaced` | `Unraced`: the distance of the two words, which slot holds which byte, and for each place inside data_len what the thread found out there: still true when it acts on it, or wrong only on the safe side |
| `TcpProofs!BufferDrained` | `Spec => []DrainedUnlessRaced` | the same inductive invariant |
| `CommandProofs!ParserTypes` | `Spec => []TypeOK` | with `Follows` below |
| `CommandProofs!StoresStayInBuffer` | `Spec => []WriteInBounds` | `Follows`: the write position is one ahead of `m_RecvDataIndex`, and the "buffer is over" check bounds the index while the call goes on; the bound by itself is not inductive |
| `CommandProofs!AcceptedFramesAreWhole` | `Spec => []AcceptedIsWhole` | `FrameInv`: START is in place while a frame is open, END is where the length that was announced says, and the check sum was compared when its bytes are in the buffer |
| `CommandProofs!PulsesInPeriod` | `RobotSpec => []RobotTypeOK` | the clamp, by integer arithmetic |
| `CommandProofs!DrivingNeverSpins` | `RobotSpec => []NoSpin` | each movement gives the left wheels the same two speeds as the right ones, side by side or crosswise, and clamping is a function of the speed |
| `TcpProofs!ServerTypes` | `ServerSpec => []ServerTypeOK` | with `Opening` and `Connection` below |
| `TcpProofs!ReceivesFromLive` | `ServerSpec => []NoUseAfterClose` | `Connection`: at recv the connection is live; a stale handle comes from recv's error path only |
| `TcpProofs!BufferFreedOnExit` | `ServerSpec => []BufferOwned` | `Opening`: which resources exist at each step of opening the socket |
| `WorkQueueProofs!QueueTypes` | `Spec => []TypeOK` | one inductive invariant of seven parts serves all six |
| `WorkQueueProofs!WorkHasOneOwner` | `Spec => []OneOwner` | a block is queued, held by the worker or held by one caller: appending and taking keep the three apart |
| `WorkQueueProofs!ResumeFindsWork` | `Spec => []WokenForWork` | `Resumes`: a caller about to resume has left its work in the list, and only the worker takes works out |
| `WorkQueueProofs!RefusalsAreReuse` | `Spec => []RefusedInWindow` | `Current`: outside the worker's own step the current work is a block already freed |
| `WorkQueueProofs!WakeupsAreKept` | `Spec => []NoLostWakeup` | with that invariant the property is inductive by itself: whoever puts a job in an empty list is about to resume, and a resume that finds `wlan_job` not yet suspended is `missed` |
| `WorkQueueProofs!DoneInOrder` | `Spec => []InOrder` | the accepted jobs are the done ones followed by the pending ones, and each step moves one job from the head of the pending to the end of the done |
| `WifiConnectProofs!LocksGivenBack` | `Spec => []LocksReleased` | `Locks`: a bound on the holds of mgnt_mutex at each place of `main`, depending on who called the scan |
| `WifiConnectProofs!DanglingIsLate` | `Spec => []DanglingOnlyAfterTimeout` | `Semaphore`: `wlan_job` cannot hold the ready handler while `main` passes a take that succeeded, because the higher priority lets it run only while `main` waits; `Scans`: a scan still running was given up on |
| `WifiConnectProofs!ReadyCorrect` | `Spec => []ReadyIsTrue` | `Addresses`: the address is 0, of this session, or the job that takes it back is queued; the three windows are where this chain breaks |
| `WifiConnectProofs!ConnectTypes` | `Spec => []TypeOK` | the invariant above with `Cached`, an insertion that keeps the cache sorted and without duplicates, and `Credits`: what is released or about to be released of net_ready is at most one for each connection |
| `EnvStoreProofs!StoreTypes` | `Spec => []TypeOK` | `Typed`: where each task can be and what it remembers there; lemmas on create_env and del_env say what they do to names, values and room |
| `EnvStoreProofs!ReadsOneConfiguration` | `Spec => []ConfigWhole` | `ConfigInv`: what each CRC was taken of is one configuration, and so is the cache outside write_cfg; an area whose contents changed after the CRC is not valid |
| `EnvStoreProofs!NothingLeftToSave` | `Spec => []SavedIsCache` | `SaveInv`: at each step of an undisturbed save, the first or the second of two, which area holds what, and that no other save is running |
| `EnvStoreProofs!StoreIsDurable` | `Spec => Durable` | from `SaveInv` each step starts, edits, commits or dies; an erase never takes what would be read back, a write puts the cache in its place |
| `WheelProofs!TypeCorrect` | `Spec => []TypeOK` | every conversion stays in the integers; the clamp bounds `last_out` |
| `WheelProofs!PidCorrect` | `Spec => []PidIsPositional` | the increment of the output is the difference of the positional law at two consecutive errors |
| `WheelProofs!DistanceCorrect` | `Spec => []DistanceMeasured` | `EncoderInv`: the last value the handler saw is that of the pins before the pending edge, so a served edge moves the count as the wheel moved |

Assumptions: sizes and alignments are positive, a ring buffer request fits
`rt_int16_t` and so does the pool of `TcpDat`, where a block is no longer than
the pool; the ring buffer of `WifiCar` has any positive size, and what a race
leaves in it is any set of sequences of bytes; the package buffer has 8 to 256 bytes, START and END differ, speeds
are `rt_int8_t` values, frames are sequences of bytes, gains and targets are integers, sample times positive,
null is no block. In `EnvStore` the threads and the variables' names differ,
null differs from everything else, and the defaults leave room in the setting,
as `ef_env_init` asserts.

What was strengthened on the way: the order of bytes in `TcpDat` needed the
window of getchar above; the refinement of `DurableStore` rests on the order of
events in *both* saves of `ef_env_set_default`, because its count starts from 0
again and the other area may hold a higher one until the second save.

The conditions of the `WifiCar` theorems are those under which the code can keep
them. `ProperFrames` says of each frame the phone may write that it is one as the
protocol defines it, fits the package buffer and carries the right check sum,
which `NoneSkipped` needs as a frame with a wrong one is dropped; its data may be
anything. That its length byte is not END is part of it. `NoneSkipped` further
needs that no poll finds a frame cut, which `~cut` gives: recv has returned each
time all that had arrived. Both orders need `~lost`: put_force has neither
overrun `tcp_dat` nor hit a window of `TcpDat`. Without it bytes are missing
anywhere in the stream. It bounds how many bytes may wait at a time, by
`RingSize`, and not how many frames are sent.

Where frames may be cut, `NoPhantom` needs more: `PlainFrames` says of each frame
the phone may write that it is one as the protocol defines it, that START stands
only at its beginning and that its length byte is not END. Without them:

* a frame that a poll cuts is given up and what is left of it is skipped up to
  the next START; if that stands in its data, the rest of the frame and the
  beginning of the next can complete each other;
* END is looked for from the length byte on, while the announced length is still
  0 (`protocol_parser.c:47`), so that a frame whose length byte is 85 ends there,
  with a package length of 2;
* a connection that breaks leaves the beginning of a frame, which the next
  connection may complete: hence `resets = 0`.

In each case only the check sum stands between the two halves and the motors.
The run `wificar` checks `NoPhantom` and `MotorsFollow` without these conditions
on frames the phone does send: one of them has START as its data, and
connections break; `MCWifiCar` has TLC check that those frames meet
`ProperFrames`. `WholeLength` says that no frame acted on is shorter than the
eight bytes of a whole one: where the length is below 6 the check sum is read
past the buffer and may match by chance. `MotorsDoAsAsked` needs none of the
other conditions and holds after a loss too.

Only model-checked: all liveness (`Returns`, `MainReturns`, `ReadyReported`,
`EventuallyDone`, `DeliveredUnlessRaced`, `BackToAccept`, `AllExecuted`), which
is out of the prover's reach, and `NoPhantom` and `MotorsFollow` outside the
conditions above. The safety halves of two of them are proved: `NoLostWakeup`
says that no accepted job is left to a worker that nobody will wake, and
`NoneSkipped` that once nothing is left to read every frame has been acted on.

## Not modelled

Nearly all lines of the tree are vendored: the chip headers and HAL drivers, the
ports of RT-Thread to other boards, file systems, code page tables, lwIP. The
program uses a small part of them, as calls that succeed, fail or report an
event; modelling them would say nothing about the car.

* **RT-Thread's scheduler, semaphores, mutexes and timers, lwIP, the WLAN
  driver**: seen through their effects, as external actions or as the guards of
  the actions that call them.
* **`main`'s start-up**: it is the initial state of the models. That creating a
  thread or `tcp_dat` fails is not modelled.
* **WLAN manager**: access-point mode and automatic reconnection are not enabled
  in this program; what the configuration cache holds is left out.
* **Work queue**: cancelling, critical work and destroying a queue have no
  caller in the program.
* **Environment store**: the modes other than power-fail safeguard are not
  compiled; `ef_del_env` and `ef_set_and_save_env` have no caller; `ef_get_env`
  reads the cache without the lock and is left out, as is a preemption between
  the statements before the erase. The choice between two saved counts handles
  a wrap of the counter only in one of its two cases (`ef_env.c:709`), which
  takes 2^32 saves. The library is reached through `wlan_autoconnect_init`,
  which `wifi_connect.c:119` has commented out, and through the shell.
* **`read_cfg`, `get_len` and base64** (`wifi_config.c`): conversions of one
  buffer, without state.
* **`inc_pid_controller_reset`** zeroes the structure with its function pointers,
  and **`encoder_reset`** keeps `last_count`; neither has a caller.
* **Chassis and kinematics**: floating-point formulas over four wheels. The
  program enables the chassis and never calls `chassis_update` or
  `wheel_update`; the car drives open loop.
* **Dual PWM motor, single-phase encoder, positional controller, command table,
  PS2 pad**: the car uses none of them.
* **Flash ports and FAL**: transfers to a chip and a partition table below
  `EnvStore`.

## Plan

1. `ByteQueue`, `RingBuffer`, `TcpDat`, `ProtocolParser`, `RocRobot`,
   `TcpServer`, `WifiCar` with their runs and first proofs. *(done)*
2. `WifiConnect` and `WorkQueue`: events, time-outs and reused memory. *(done)*
3. `DurableStore` and `EnvStore`: failures and power cuts. *(done)*
4. `Wheel`: encoder, controller and their update, with proofs. *(done)*
5. Proofs about `TcpServer`, `WorkQueue` and `WifiConnect`. *(done)*
6. `RingBuffer` implements `ByteQueue` and `EnvStore` implements `DurableStore`,
   step by step; the order of bytes in `TcpDat` away from races; the remaining
   invariants of `ProtocolParser`, `WifiConnect` and `EnvStore`. *(done)*
7. `NoPhantom`, `NoneSkipped` and `MotorsFollow` of `WifiCar`, from conditions on
   the frames; `NoLostWakeup` of `WorkQueue`, the safety core of `EventuallyDone`.
   *(done)* Still worth having: what a broken connection can leave, for frames of
   one length.
8. Models still worth having: the start-up of `main` with failing allocations,
   `WifiConnect` composed with `TcpServer`; readers of the environment cache;
   `Kinematics` as operators, get_rpm against get_velocity on bounded inputs.
