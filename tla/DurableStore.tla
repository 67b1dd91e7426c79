---------------------------- MODULE DurableStore ----------------------------
(***************************************************************************)
(* What a store with a cache promises about power cuts: what is read back  *)
(* at the next start is what the cache held at some save that was running, *)
(* never a mixture and never nothing.  After a damaging fault (sound is    *)
(* FALSE) nothing is promised.                                             *)
(***************************************************************************)
CONSTANTS
    Contents,     \* what the store can hold
    Blank,        \* a disk that holds nothing
    Off           \* the memory of a machine without power

VARIABLES mem, disk, sound

vars == <<mem, disk, sound>>

Init == mem = Off /\ disk \in Contents \cup {Blank} /\ sound \in BOOLEAN

\* The start: the disk's contents, or defaults when there are none.
Load ==
    /\ mem = Off
    /\ IF disk = Blank THEN mem' \in Contents ELSE mem' = disk
    /\ UNCHANGED <<disk, sound>>

Change == mem \in Contents /\ mem' \in Contents /\ UNCHANGED <<disk, sound>>

Save == mem \in Contents /\ disk' = mem /\ UNCHANGED <<mem, sound>>

\* A save that was running has happened or not.
Cut == mem' = Off /\ disk' \in {disk, mem} \ {Off} /\ UNCHANGED sound

\* Beyond the promise: a step into, within or out of the unsound states.
Damaged == ~(sound /\ sound')

Next == Load \/ Change \/ Save \/ Cut \/ Damaged

Spec == Init /\ [][Next]_vars
=============================================================================
