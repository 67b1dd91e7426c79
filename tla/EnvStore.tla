------------------------------ MODULE EnvStore ------------------------------
(***************************************************************************)
(* The environment variables kept in flash: ef_env.c of EasyFlash in       *)
(* power-fail-safeguard mode, with the callers that the program has: the   *)
(* WLAN configuration (write_cfg of wifi_config.c) and the shell commands  *)
(* setenv, saveenv and resetenv of ef_cmd.c.                               *)
(*                                                                         *)
(* The cache is changed under env_cache_lock, but ef_save_env takes no     *)
(* lock: its steps interleave with everything the other caller does.  The  *)
(* flash may refuse an erase or a write, and the power may go at any time. *)
(***************************************************************************)
EXTENDS Integers, Sequences, SequencesExt

CONSTANTS
    Wlan, Shell,        \* the two threads that use the store
    LenKey, InfoKey,    \* wlan_cfg_len and wlan_cfg_info
    Boot,               \* boot_times, the only default
    Values,             \* what a variable may be set to
    NULL,
    Size,               \* bytes an entry with this value takes
    HeadSize,           \* ENV_PARAM_BYTE_SIZE
    SettingSize,        \* ENV_USER_SETTING_SIZE
    VerNum,             \* EF_ENV_VER_NUM of this firmware
    OldVerNum,          \* that of an earlier firmware
    MaxCalls, MaxErrors, MaxCuts   \* bounds on calls, flash errors, power cuts

Tasks == {Wlan, Shell}
Keys == {LenKey, InfoKey, Boot}
Areas == {0, 1}

Entry == [key : Keys, value : Values]
Entries == {e \in BoundedSeq(Entry, 3) :
                \A i, j \in 1..Len(e) : e[i].key = e[j].key => i = j}

\* What a CRC covers stands for it: end address, saved count and entries.
Crcs == Areas \X Nat \X Entries

\* A copy of the variables, in RAM or in an area of the flash.
Copies == [env : Entries, end : Areas, count : Nat,
           crc : Crcs \cup {NULL}, ver : {VerNum, OldVerNum}]

\* The value of the only default, boot_times.
Zero == CHOOSE v \in Values : TRUE

ASSUME NamesAssumption ==
    /\ Wlan # Shell /\ LenKey # InfoKey /\ Boot \notin {LenKey, InfoKey}
    /\ Values # {}
\* NULL marks what is missing.
ASSUME NullAssumption ==
    /\ NULL \notin Values \cup Tasks \cup Areas \cup Entry \cup {<<NULL>>}
    /\ NULL \notin Entries /\ NULL \notin Copies
\* ef_env_init asserts that the defaults fit.
ASSUME SizeAssumption ==
    /\ Size \in [Values -> Nat] /\ HeadSize \in Nat /\ SettingSize \in Nat
    /\ HeadSize + Size[Zero] < SettingSize

VARIABLES
    flash,              \* what each area holds, NULL when it is unreadable
    cur_load_area, next_save_area,
    env_cache,          \* entries, area of the end address, saved count, CRC, version
    env_cache_changed,
    init_ok,
    env_cache_lock,     \* the task that holds it, or NULL
    task,               \* where each task is
    calls, errors, cuts,
    hurt,               \* since the last start a save failed or was disturbed
    mixed               \* the pair of WLAN variables was saved half-written, did not
                        \* fit or was set by hand

areaVars == <<cur_load_area, next_save_area>>
bounds == <<calls, errors, cuts>>
vars == <<flash, areaVars, env_cache, env_cache_changed, init_ok, env_cache_lock,
          task, bounds, hurt, mixed>>

calc_env_crc(c) == <<c.end, c.count, c.env>>

find_env(env, k) == {i \in 1..Len(env) : env[i].key = k}

\* The entry with the name k, and its value.
EntryOf(env, k) == CHOOSE i \in find_env(env, k) : TRUE
ValueOf(env, k) == IF find_env(env, k) = {} THEN NULL ELSE env[EntryOf(env, k)].value

\* A name is in a copy once at most, so that its size is that of its value.
SizeOf(env, k) == IF find_env(env, k) = {} THEN 0 ELSE Size[ValueOf(env, k)]

Used(env) == HeadSize + SizeOf(env, LenKey) + SizeOf(env, InfoKey) + SizeOf(env, Boot)

\* Mutant: an entry may fill the setting to its last byte.
FullLate(env, v) == Size[v] + Used(env) > SettingSize

Full(env, v) == Size[v] + Used(env) >= SettingSize

\* create_env: nothing happens when the name exists or there is no room.
create_env(env, k, v) ==
    IF find_env(env, k) # {} \/ Full(env, v) THEN env
    ELSE Append(env, [key |-> k, value |-> v])

\* del_env: the entries behind it move forward.
del_env(env, k) ==
    IF find_env(env, k) = {} THEN env
    ELSE RemoveAt(env, EntryOf(env, k))

\* create_env for the default, if it is missing.
WithDefaults(env) == create_env(env, Boot, Zero)
-----------------------------------------------------------------------------
Idle == [pc |-> "idle", key |-> NULL, val |-> NULL, then |-> "none",
         again |-> "no", ok |-> TRUE, area |-> 0]

Image(a, ver) ==
    LET env == <<[key |-> Boot, value |-> Zero]>>
        c == [env |-> env, end |-> a, count |-> 1, crc |-> NULL, ver |-> ver]
    IN  [c EXCEPT !.crc = calc_env_crc(c)]

\* A new chip, or one formatted by an earlier firmware whose second save was cut.
Init ==
    /\ flash \in {[a \in Areas |-> NULL],
                  [a \in Areas |-> IF a = 0 THEN Image(0, OldVerNum) ELSE NULL]}
    /\ cur_load_area = 0 /\ next_save_area = 0
    /\ env_cache = [env |-> <<>>, end |-> 0, count |-> 0, crc |-> NULL, ver |-> VerNum]
    /\ env_cache_changed = FALSE /\ init_ok = FALSE /\ env_cache_lock = NULL
    /\ task = [t \in Tasks |-> IF t = Wlan THEN [Idle EXCEPT !.pc = "load"] ELSE Idle]
    /\ calls = 0 /\ errors = 0 /\ cuts = 0 /\ hurt = FALSE /\ mixed = FALSE

At(t, pc) == task[t].pc = pc

Goto(t, pc) == task' = [task EXCEPT ![t].pc = pc]

\* Another task is inside ef_save_env or between the two saves of ef_env_set_default.
OtherSaves(t) == \E u \in Tasks \ {t} :
    task[u].pc \in {"erase", "write", "clear"} \/ task[u].again # "no"

\* write_cfg has begun to change the two variables and not finished.
HalfWritten == At(Wlan, "create") \/ task[Wlan].then = "info"
-----------------------------------------------------------------------------
(* ef_load_env *)

\* The end address lies in the area and the CRC is right.
IsValid(a) ==
    /\ flash[a] # NULL
    /\ flash[a].end = a
    /\ flash[a].crc = calc_env_crc(flash[a])

\* Mutant: the smaller saved count wins.
ChosenOlder ==
    IF IsValid(0) /\ IsValid(1)
    THEN IF flash[0].count > flash[1].count THEN 1 ELSE 0
    ELSE IF IsValid(0) THEN 0 ELSE IF IsValid(1) THEN 1 ELSE NULL

\* The area that is loaded: of two valid ones the one saved more often, area 1
\* when they are equal.
Chosen ==
    IF IsValid(0) /\ IsValid(1)
    THEN IF flash[0].count > flash[1].count THEN 0 ELSE 1
    ELSE IF IsValid(0) THEN 0 ELSE IF IsValid(1) THEN 1 ELSE NULL

LoadArea ==
    /\ At(Wlan, "load")
    /\ Chosen # NULL
    /\ cur_load_area' = Chosen
    /\ next_save_area' = 1 - Chosen
    /\ env_cache' = flash[Chosen]
    /\ Goto(Wlan, "auto")
    /\ hurt' = FALSE
    /\ UNCHANGED <<flash, env_cache_changed, init_ok, env_cache_lock, bounds, mixed>>

LoadNone ==
    /\ At(Wlan, "load")
    /\ Chosen = NULL
    /\ cur_load_area' = 1 /\ next_save_area' = 0
    /\ task' = [task EXCEPT ![Wlan].pc = "default", ![Wlan].then = "load"]
    /\ hurt' = FALSE
    /\ UNCHANGED <<flash, env_cache, env_cache_changed, init_ok, env_cache_lock, bounds,
                   mixed>>

\* env_auto_update: the version comes from the flash.
AutoUpdate ==
    /\ At(Wlan, "auto") /\ env_cache_lock = NULL
    /\ LET old == flash[cur_load_area].ver # VerNum IN
       /\ env_cache' = [env_cache EXCEPT !.ver = VerNum,
                            !.env = IF old THEN WithDefaults(@) ELSE @]
       /\ env_cache_changed' = (env_cache_changed \/ old)
    /\ task' = [task EXCEPT ![Wlan].pc = "save", ![Wlan].then = "auto"]
    /\ UNCHANGED <<flash, areaVars, init_ok, env_cache_lock, bounds, hurt, mixed>>

\* ef_env_set_default up to its first ef_save_env.
SetDefault(t) ==
    /\ At(t, "default") /\ env_cache_lock = NULL
    /\ env_cache' = [env_cache EXCEPT !.env = WithDefaults(<<>>), !.end = cur_load_area,
                                      !.count = 0, !.ver = VerNum]
    /\ env_cache_changed' = TRUE
    /\ task' = [task EXCEPT ![t].pc = "save", ![t].again = "yes"]
    /\ hurt' = (hurt \/ OtherSaves(t))
    /\ mixed' = (mixed \/ (t = Shell /\ HalfWritten))
    /\ UNCHANGED <<flash, areaVars, init_ok, env_cache_lock, bounds>>
-----------------------------------------------------------------------------
(* ef_save_env *)

SaveUnchanged(t) ==
    /\ At(t, "save") /\ ~env_cache_changed
    /\ task' = [task EXCEPT ![t].pc = "saved", ![t].ok = TRUE]
    /\ UNCHANGED <<flash, areaVars, env_cache, env_cache_changed, init_ok, env_cache_lock,
                   bounds, hurt, mixed>>

\* The areas change places before anything is erased.
SaveHead(t) ==
    /\ At(t, "save") /\ env_cache_changed
    /\ cur_load_area' = next_save_area
    /\ next_save_area' = cur_load_area
    /\ LET c == [env_cache EXCEPT !.end = next_save_area, !.count = @ + 1]
       IN  env_cache' = [c EXCEPT !.crc = calc_env_crc(c)]
    /\ task' = [task EXCEPT ![t].pc = "erase", ![t].area = next_save_area]
    /\ hurt' = (hurt \/ OtherSaves(t))
    /\ mixed' = (mixed \/ (t = Shell /\ HalfWritten))
    /\ UNCHANGED <<flash, env_cache_changed, init_ok, env_cache_lock, bounds>>

Erase(t) ==
    /\ At(t, "erase")
    /\ flash' = [flash EXCEPT ![task[t].area] = NULL]
    /\ Goto(t, "write")
    /\ UNCHANGED <<areaVars, env_cache, env_cache_changed, init_ok, env_cache_lock, bounds,
                   hurt, mixed>>

\* ef_save_env returns: the areas stay exchanged and the cache stays changed.
EraseFails(t) ==
    /\ At(t, "erase") /\ errors < MaxErrors
    /\ errors' = errors + 1
    /\ flash' \in {flash, [flash EXCEPT ![task[t].area] = NULL]}
    /\ task' = [task EXCEPT ![t].pc = "saved", ![t].ok = FALSE]
    /\ hurt' = TRUE
    /\ UNCHANGED <<areaVars, env_cache, env_cache_changed, init_ok, env_cache_lock,
                   calls, cuts, mixed>>

\* The cache as it is now, which need not be the one the CRC was taken of.
Write(t) ==
    /\ At(t, "write")
    /\ flash' = [flash EXCEPT ![task[t].area] = env_cache]
    /\ task' = [task EXCEPT ![t].pc = "clear", ![t].ok = TRUE]
    /\ UNCHANGED <<areaVars, env_cache, env_cache_changed, init_ok, env_cache_lock, bounds,
                   hurt, mixed>>

WriteFails(t) ==
    /\ At(t, "write") /\ errors < MaxErrors
    /\ errors' = errors + 1
    /\ task' = [task EXCEPT ![t].pc = "clear", ![t].ok = FALSE]
    /\ UNCHANGED <<flash, areaVars, env_cache, env_cache_changed, init_ok, env_cache_lock,
                   calls, cuts, hurt, mixed>>

\* The save succeeded and the area holds the cache as it still is.
Clean(t) ==
    task[t].ok /\ flash[task[t].area] = env_cache /\ IsValid(task[t].area)

\* env_cache_changed is reset, after a failed write too.
Clear(t) ==
    /\ At(t, "clear")
    /\ env_cache_changed' = FALSE
    /\ hurt' = (hurt \/ ~Clean(t))
    /\ Goto(t, "saved")
    /\ UNCHANGED <<flash, areaVars, env_cache, init_ok, env_cache_lock, bounds, mixed>>

\* Back in ef_env_set_default: after a save that succeeded the other area too.
SaveAgain(t) ==
    /\ At(t, "saved") /\ task[t].again = "yes" /\ task[t].ok
    /\ env_cache_changed' = TRUE
    /\ task' = [task EXCEPT ![t].pc = "save", ![t].again = "done"]
    /\ UNCHANGED <<flash, areaVars, env_cache, init_ok, env_cache_lock, bounds, hurt, mixed>>

\* Back in ef_env_init, whose result env_auto_update does not change, or in the caller.
SaveReturns(t) ==
    /\ At(t, "saved") /\ ~(task[t].again = "yes" /\ task[t].ok)
    /\ task' = [task EXCEPT ![t] =
                    IF @.then = "load" /\ @.ok THEN [Idle EXCEPT !.pc = "auto"] ELSE Idle]
    /\ init_ok' = (init_ok \/ task[t].then = "auto")
    /\ UNCHANGED <<flash, areaVars, env_cache, env_cache_changed, env_cache_lock, bounds,
                   hurt, mixed>>

Save(t) ==
    \/ SaveUnchanged(t) \/ SaveHead(t)
    \/ Erase(t) \/ EraseFails(t)
    \/ Write(t) \/ WriteFails(t)
    \/ Clear(t) \/ SaveAgain(t) \/ SaveReturns(t)
-----------------------------------------------------------------------------
(* ef_set_env *)

\* Mutant: write_cfg saves after each variable.
AfterSetSaves(r) ==
    CASE r.then = "len"  -> [Idle EXCEPT !.pc = "save", !.then = "cfg"]
      [] r.then = "info" -> [Idle EXCEPT !.pc = "save", !.then = "cfg"]
      [] OTHER           -> Idle

\* write_cfg goes on with the second variable and then saves; both results are ignored.
AfterSet(r) ==
    CASE r.then = "len"  -> [r EXCEPT !.pc = "set", !.key = InfoKey, !.then = "info"]
      [] r.then = "info" -> [Idle EXCEPT !.pc = "save", !.then = "cfg"]
      [] OTHER           -> Idle

SetRefused(t) ==
    /\ At(t, "set") /\ ~init_ok
    /\ task' = [task EXCEPT ![t] = AfterSet(@)]
    /\ UNCHANGED <<flash, areaVars, env_cache, env_cache_changed, init_ok, env_cache_lock,
                   bounds, hurt, mixed>>

\* The variable is new or has the value already.  (No caller passes a NULL value,
\* which would delete it.)
Set(t) ==
    LET k == task[t].key
        v == task[t].val
        env == env_cache.env
        new == create_env(env, k, v)
    IN  /\ At(t, "set") /\ init_ok /\ env_cache_lock = NULL
        /\ ValueOf(env, k) \in {NULL, v}
        /\ env_cache' = [env_cache EXCEPT !.env = new]
        /\ env_cache_changed' = (env_cache_changed \/ new # env)
        /\ hurt' = (hurt \/ OtherSaves(t))
        /\ mixed' = (mixed \/ (t = Wlan /\ ValueOf(new, k) # v))
        /\ task' = [task EXCEPT ![t] = AfterSet(@)]
        /\ UNCHANGED <<flash, areaVars, init_ok, env_cache_lock, bounds>>

\* Mutant: deleting does not mark the cache as changed.
SetDeletesUnmarked(t) ==
    /\ At(t, "set") /\ init_ok /\ env_cache_lock = NULL
    /\ ValueOf(env_cache.env, task[t].key) \notin {NULL, task[t].val}
    /\ env_cache' = [env_cache EXCEPT !.env = del_env(@, task[t].key)]
    /\ env_cache_lock' = t
    /\ hurt' = (hurt \/ OtherSaves(t))
    /\ Goto(t, "create")
    /\ UNCHANGED <<flash, areaVars, env_cache_changed, init_ok, bounds, mixed>>

\* It has another value: the old entry is deleted first ...
SetDeletes(t) ==
    /\ At(t, "set") /\ init_ok /\ env_cache_lock = NULL
    /\ ValueOf(env_cache.env, task[t].key) \notin {NULL, task[t].val}
    /\ env_cache' = [env_cache EXCEPT !.env = del_env(@, task[t].key)]
    /\ env_cache_changed' = TRUE
    /\ env_cache_lock' = t
    /\ hurt' = (hurt \/ OtherSaves(t))
    /\ Goto(t, "create")
    /\ UNCHANGED <<flash, areaVars, init_ok, bounds, mixed>>

\* Mutant: the lock is not released when there is no room.
SetCreatesLocked(t) ==
    LET r == task[t]
        new == create_env(env_cache.env, r.key, r.val)
    IN  /\ At(t, "create")
        /\ env_cache' = [env_cache EXCEPT !.env = new]
        /\ env_cache_changed' = (env_cache_changed \/ new # env_cache.env)
        /\ hurt' = (hurt \/ OtherSaves(t))
        /\ mixed' = (mixed \/ (t = Wlan /\ new = env_cache.env))
        /\ env_cache_lock' = IF new = env_cache.env THEN t ELSE NULL
        /\ task' = [task EXCEPT ![t] = AfterSet(r)]
        /\ UNCHANGED <<flash, areaVars, init_ok, bounds>>

\* ... and the new one appended, unless there is no room: then neither is left.
SetCreates(t) ==
    LET r == task[t]
        new == create_env(env_cache.env, r.key, r.val)
    IN  /\ At(t, "create")
        /\ env_cache' = [env_cache EXCEPT !.env = new]
        /\ env_cache_changed' = (env_cache_changed \/ new # env_cache.env)
        /\ hurt' = (hurt \/ OtherSaves(t))
        /\ mixed' = (mixed \/ (t = Wlan /\ new = env_cache.env))
        /\ env_cache_lock' = NULL
        /\ task' = [task EXCEPT ![t] = AfterSet(r)]
        /\ UNCHANGED <<flash, areaVars, init_ok, bounds>>
-----------------------------------------------------------------------------
(* The callers; easyflash_init returns before any of them is called *)

Call(t) ==
    /\ At(t, "idle") /\ task[Wlan].pc # "load"
    /\ task[Wlan].then \notin {"load", "auto"} /\ ~At(Wlan, "auto")
    /\ calls < MaxCalls /\ calls' = calls + 1
    /\ UNCHANGED <<flash, areaVars, env_cache, env_cache_changed, init_ok, env_cache_lock,
                   errors, cuts, hurt>>

\* write_cfg with a configuration: its length and its contents, both named by v.
write_cfg(v) ==
    /\ Call(Wlan)
    /\ task' = [task EXCEPT ![Wlan] = [Idle EXCEPT !.pc = "set", !.key = LenKey,
                                                  !.val = v, !.then = "len"]]
    /\ UNCHANGED mixed

\* The shell sets any variable, one of the WLAN configuration too.
setenv(v) == \E k \in Keys :
    /\ Call(Shell)
    /\ task' = [task EXCEPT ![Shell] = [Idle EXCEPT !.pc = "set", !.key = k,
                                                   !.val = v, !.then = "cmd"]]
    /\ mixed' = (mixed \/ k # Boot)

saveenv ==
    /\ Call(Shell)
    /\ task' = [task EXCEPT ![Shell] = [Idle EXCEPT !.pc = "save", !.then = "cmd"]]
    /\ UNCHANGED mixed

resetenv ==
    /\ Call(Shell)
    /\ task' = [task EXCEPT ![Shell] = [Idle EXCEPT !.pc = "default", !.then = "cmd"]]
    /\ UNCHANGED mixed

\* The power goes and comes back: an area being erased or written is unreadable
\* or, when its erase had not begun, as it was.
PowerCut ==
    /\ cuts < MaxCuts /\ cuts' = cuts + 1
    /\ flash' \in {flash} \cup
         {[flash EXCEPT ![task[t].area] = NULL] : t \in {u \in Tasks : At(u, "erase")}}
    /\ cur_load_area' = 0 /\ next_save_area' = 0
    /\ env_cache' = [env |-> <<>>, end |-> 0, count |-> 0, crc |-> NULL, ver |-> VerNum]
    /\ env_cache_changed' = FALSE /\ init_ok' = FALSE /\ env_cache_lock' = NULL
    /\ task' = [t \in Tasks |-> IF t = Wlan THEN [Idle EXCEPT !.pc = "load"] ELSE Idle]
    /\ UNCHANGED <<calls, errors, hurt, mixed>>

Step(t) ==
    \/ t = Wlan /\ (LoadArea \/ LoadNone \/ AutoUpdate)
    \/ SetDefault(t)
    \/ Save(t)
    \/ SetRefused(t) \/ Set(t) \/ SetDeletes(t) \/ SetCreates(t)

Next ==
    \/ \E t \in Tasks : Step(t)
    \/ \E v \in Values : write_cfg(v)
    \/ \E v \in Values : setenv(v)
    \/ saveenv \/ resetenv
    \/ PowerCut

\* Both tasks go on until their call has returned.
Spec == Init /\ [][Next]_vars /\ \A t \in Tasks : WF_vars(Step(t))
-----------------------------------------------------------------------------
IsImage(c) == c \in Copies /\ Used(c.env) < SettingSize

\* Every variable has its type: no name is in a copy twice, the entries fit, and
\* the lock is held by the task that replaces an entry.
TypeOK ==
    /\ \A a \in Areas : flash[a] # NULL => IsImage(flash[a])
    /\ cur_load_area \in Areas /\ next_save_area \in Areas
    /\ IsImage(env_cache)
    /\ env_cache_changed \in BOOLEAN /\ init_ok \in BOOLEAN
    /\ env_cache_lock \in Tasks \cup {NULL}
    /\ \A t \in Tasks : task[t].area \in Areas /\ task[t].val \in Values \cup {NULL}
    /\ \A t \in Tasks : At(t, "create") <=> env_cache_lock = t
    /\ hurt \in BOOLEAN /\ mixed \in BOOLEAN

Recovered == IF Chosen = NULL THEN NULL ELSE flash[Chosen].env

Loaded == ~At(Wlan, "load") /\ ~(At(Wlan, "default") /\ task[Wlan].then = "load")

Store == INSTANCE DurableStore WITH
    Contents <- Entries, Blank <- NULL, Off <- <<NULL>>,
    mem <- IF Loaded THEN env_cache.env ELSE <<NULL>>,
    disk <- Recovered,
    sound <- ~hurt

\* The area written last is a backup-safe copy of the cache: whenever the power
\* goes, the next start reads back what the cache held at the last save or at the
\* one that was running, as long as no erase or write failed and no call of the
\* other task changed the cache while a save was running.
Durable == Store!Spec

Quiet == \A t \in Tasks : At(t, "idle")

\* With nothing left to save the flash holds what the cache holds, unless a write
\* failed or was disturbed: env_cache_changed is reset all the same.
SavedIsCache == Quiet /\ init_ok /\ ~env_cache_changed /\ ~hurt => Recovered = env_cache.env

\* Length and contents of the WLAN configuration read back at a start belong
\* together, whatever was cut or failed, unless saveenv ran between the two
\* ef_set_env of write_cfg, one of them found no room or the shell set one.
ConfigWhole ==
    ~mixed /\ Recovered # NULL => ValueOf(Recovered, LenKey) = ValueOf(Recovered, InfoKey)

\* ef_env_init returns, and so does every call: nobody waits for the lock or the
\* flash for ever.
Returns == \A t \in Tasks : []<>At(t, "idle")
=============================================================================
