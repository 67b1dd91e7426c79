-------------------------- MODULE EnvStoreProofs ---------------------------
(***************************************************************************)
(* The environment store, for any values and sizes and any number of       *)
(* calls, flash errors and power cuts.                                     *)
(*                                                                         *)
(*   Typed      where each task can be and what it remembers there;        *)
(*   ConfigInv  the cache and everything that the CRCs in flash vouch for  *)
(*              hold one WLAN configuration, or write_cfg is in between;   *)
(*   SaveInv    while a save is undisturbed, which of the two areas holds  *)
(*              what, at each of its steps and in each of the two saves of *)
(*              ef_env_set_default, and that it is the only save.          *)
(*                                                                         *)
(* The last makes every step a step of DurableStore.                       *)
(***************************************************************************)
EXTENDS EnvStore, SequenceTheorems, TLAPS

-----------------------------------------------------------------------------
(* What the operators on the entries of a copy do *)

\* What it is to be the entries of a copy.
LEMMA EntriesAre ==
    ASSUME NEW env
    PROVE  env \in Entries <=>
             /\ env \in Seq(Entry) /\ Len(env) \in 0..3
             /\ \A i, j \in 1..Len(env) : env[i].key = env[j].key => i = j
<1>1. ASSUME NEW m \in 0..3, env \in [1..m -> Entry]
      PROVE  env \in Seq(Entry) /\ Len(env) \in 0..3
  <2>1. m \in Nat
    OBVIOUS
  <2>2. env \in Seq(Entry) /\ Len(env) = m
    BY <1>1, <2>1
  <2> QED
    BY <2>2
<1>2. env \in BoundedSeq(Entry, 3) => env \in Seq(Entry) /\ Len(env) \in 0..3
  BY <1>1 DEF BoundedSeq, SeqOf
<1>3. ASSUME env \in Seq(Entry), Len(env) \in 0..3
      PROVE  env \in BoundedSeq(Entry, 3)
  <2>1. env \in [1..Len(env) -> Entry]
    BY <1>3, LenProperties
  <2> QED
    BY <1>3, <2>1 DEF BoundedSeq, SeqOf
<1> QED
  BY <1>2, <1>3 DEF Entries

\* The name k is among the entries, with the value v.
Has(env, k, v) == \E i \in 1..Len(env) : env[i].key = k /\ env[i].value = v

\* find_env finds the one entry there is.
LEMMA Lookup ==
    ASSUME NEW env \in Entries, NEW k, NEW i \in 1..Len(env), env[i].key = k
    PROVE  /\ find_env(env, k) # {}
           /\ EntryOf(env, k) = i
           /\ ValueOf(env, k) = env[i].value
           /\ SizeOf(env, k) = Size[env[i].value]
<1>1. i \in find_env(env, k)
  BY DEF find_env
<1>2. \A j \in find_env(env, k) : j = i
  BY EntriesAre DEF find_env
<1>3. EntryOf(env, k) = i
  BY <1>1, <1>2 DEF EntryOf
<1>4. ValueOf(env, k) = env[i].value
  BY <1>1, <1>3 DEF ValueOf
<1> QED
  BY <1>1, <1>3, <1>4 DEF SizeOf

LEMMA Missing ==
    ASSUME NEW env \in Entries, NEW k
    PROVE  /\ find_env(env, k) = {} <=> \A i \in 1..Len(env) : env[i].key # k
           /\ find_env(env, k) = {} => ValueOf(env, k) = NULL /\ SizeOf(env, k) = 0
           /\ find_env(env, k) # {} =>
                ValueOf(env, k) \in Values /\ SizeOf(env, k) = Size[ValueOf(env, k)]
<1>1. find_env(env, k) = {} <=> \A i \in 1..Len(env) : env[i].key # k
  BY DEF find_env
<1>2. ASSUME NEW i \in 1..Len(env), env[i].key = k
      PROVE  ValueOf(env, k) \in Values
  <2>1. env[i] \in Entry
    BY EntriesAre, ElementOfSeq
  <2> QED
    BY <1>2, <2>1, Lookup DEF Entry
<1> QED
  BY <1>1, <1>2 DEF ValueOf, SizeOf

\* Where a name has the same value in two copies it takes the same room.
LEMMA SameName ==
    ASSUME NEW env \in Entries, NEW new \in Entries, NEW k,
           \A v : Has(env, k, v) <=> Has(new, k, v)
    PROVE  ValueOf(new, k) = ValueOf(env, k) /\ SizeOf(new, k) = SizeOf(env, k)
<1>1. CASE \E i \in 1..Len(env) : env[i].key = k
  <2>1. PICK i \in 1..Len(env) : env[i].key = k
    BY <1>1
  <2>2. PICK j \in 1..Len(new) : new[j].key = k /\ new[j].value = env[i].value
    BY <2>1 DEF Has
  <2> QED
    BY <2>1, <2>2, Lookup
<1>2. CASE ~ \E i \in 1..Len(env) : env[i].key = k
  <2>1. ASSUME NEW j \in 1..Len(new), new[j].key = k
        PROVE  FALSE
    <3>1. Has(new, k, new[j].value)
      BY <2>1 DEF Has
    <3> QED
      BY <1>2, <3>1 DEF Has
  <2> QED
    BY <1>2, <2>1, Missing
<1> QED
  BY <1>1, <1>2

LEMMA RoomNat == \A env \in Entries : \A k : SizeOf(env, k) \in Nat
  BY Missing, SizeAssumption

\* Entries that are added: their names, their room.
LEMMA Created ==
    ASSUME NEW env \in Entries, Used(env) < SettingSize, NEW k \in Keys, NEW v \in Values,
           NEW new, new = create_env(env, k, v)
    PROVE  /\ new \in Entries /\ Used(new) < SettingSize
           /\ \A l : l # k => ValueOf(new, l) = ValueOf(env, l)
           /\ new = env \/ ValueOf(new, k) = v
<1>1. CASE new = env
  BY <1>1
<1>2. CASE new # env
  <2> DEFINE e == [key |-> k, value |-> v]
             n == Len(env)
  <2>1. find_env(env, k) = {} /\ ~Full(env, v) /\ new = Append(env, e)
    BY <1>2 DEF create_env
  <2>2. e \in Entry /\ e.key = k /\ e.value = v
    BY DEF Entry
  <2> HIDE DEF e
  <2>3. /\ env \in Seq(Entry) /\ n \in 0..3
        /\ \A i, j \in 1..n : env[i].key = env[j].key => i = j
    BY EntriesAre
  <2>4. \A i \in 1..n : env[i].key # k
    BY <2>1, Missing
  <2>5. /\ new \in Seq(Entry) /\ Len(new) = n + 1
        /\ \A i \in 1..n : new[i] = env[i]
        /\ new[n + 1] = e
    BY <2>1, <2>2, <2>3, AppendProperties
  <2>6. n # 3
    <3> SUFFICES ASSUME n = 3
                 PROVE  FALSE
      OBVIOUS
    <3>1. \A i \in 1..n : env[i].key \in Keys
      <4>1. \A i \in 1..n : env[i] \in Entry
        BY <2>3, ElementOfSeq
      <4> QED
        BY <4>1 DEF Entry
    <3>2. {1, 2, 3} \subseteq 1..n
      OBVIOUS
    <3> QED
      BY <2>3, <2>4, <3>1, <3>2 DEF Keys
  <2>7. new \in Entries
    <3>1. Len(new) \in 0..3
      BY <2>3, <2>5, <2>6
    <3>2. ASSUME NEW i \in 1..Len(new), NEW j \in 1..Len(new), new[i].key = new[j].key
          PROVE  i = j
      <4>1. i \in 1..n \/ i = n + 1
        BY <2>3, <2>5
      <4>2. j \in 1..n \/ j = n + 1
        BY <2>3, <2>5
      <4> QED
        BY <2>2, <2>3, <2>4, <2>5, <3>2, <4>1, <4>2
    <3> QED
      BY <2>5, <3>1, <3>2, EntriesAre
  <2>8. ASSUME NEW l, l # k
        PROVE  ValueOf(new, l) = ValueOf(env, l) /\ SizeOf(new, l) = SizeOf(env, l)
    <3>1. ASSUME NEW w PROVE Has(env, l, w) <=> Has(new, l, w)
      <4>1. \A i \in 1..n : i \in 1..Len(new)
        BY <2>3, <2>5
      <4>2. \A i \in 1..Len(new) : i \in 1..n \/ i = n + 1
        BY <2>3, <2>5
      <4> QED
        BY <2>2, <2>5, <2>8, <4>1, <4>2 DEF Has
    <3> QED
      BY <2>7, <3>1, SameName
  <2>9. ValueOf(new, k) = v /\ SizeOf(new, k) = Size[v]
    <3>1. n + 1 \in 1..Len(new)
      BY <2>3, <2>5
    <3> QED
      BY <2>2, <2>5, <2>7, <3>1, Lookup
  <2>10. Used(new) < SettingSize
    <3>1. /\ SizeOf(env, k) = 0
          /\ SizeOf(env, LenKey) \in Nat /\ SizeOf(env, InfoKey) \in Nat
          /\ SizeOf(env, Boot) \in Nat /\ Size[v] \in Nat
      BY <2>1, Missing, RoomNat, SizeAssumption
    <3>2. /\ ~(Size[v] + Used(env) >= SettingSize)
      BY <2>1 DEF Full
    <3>3. Used(new) = Used(env) + Size[v]
      <4>1. CASE k = LenKey
        BY <2>8, <2>9, <3>1, <4>1, NamesAssumption, SizeAssumption DEF Used
      <4>2. CASE k = InfoKey
        BY <2>8, <2>9, <3>1, <4>2, NamesAssumption, SizeAssumption DEF Used
      <4>3. CASE k = Boot
        BY <2>8, <2>9, <3>1, <4>3, NamesAssumption, SizeAssumption DEF Used
      <4> QED
        BY <4>1, <4>2, <4>3 DEF Keys
    <3>4. Used(env) \in Nat
      BY <3>1, SizeAssumption DEF Used
    <3> QED
      BY <3>1, <3>2, <3>3, <3>4, SizeAssumption
  <2> QED
    BY <2>7, <2>8, <2>9, <2>10
<1> QED
  BY <1>1, <1>2

\* The entries behind the one that goes move forward.
LEMMA Removed ==
    ASSUME NEW S, NEW s \in Seq(S), NEW i \in 1..Len(s)
    PROVE  /\ RemoveAt(s, i) \in Seq(S) /\ Len(RemoveAt(s, i)) = Len(s) - 1
           /\ \A j \in 1..(Len(s) - 1) :
                 RemoveAt(s, i)[j] = IF j < i THEN s[j] ELSE s[j + 1]
<1> DEFINE n == Len(s)
           x == SubSeq(s, 1, i - 1)
           y == SubSeq(s, i + 1, n)
<1>1. n \in Nat /\ i \in Nat /\ 1 <= i /\ i <= n /\ \A j \in 1..n : s[j] \in S
  BY LenProperties
<1>2. x \in Seq(S) /\ Len(x) = i - 1 /\ \A j \in 1..(i - 1) : x[j] = s[j]
  <2>1. 1 \in Int /\ i - 1 \in Int /\ \A j \in 1..(i - 1) : s[j] \in S
    BY <1>1
  <2>2. /\ x \in Seq(S) /\ Len(x) = IF 1 <= i - 1 THEN i - 1 - 1 + 1 ELSE 0
        /\ \A j \in 1..(i - 1 - 1 + 1) : x[j] = s[1 + j - 1]
    BY <2>1, SubSeqProperties
  <2> HIDE DEF x
  <2> QED
    BY <1>1, <2>2
<1>3. y \in Seq(S) /\ Len(y) = n - i /\ \A j \in 1..(n - i) : y[j] = s[i + j]
  <2>1. i + 1 \in Int /\ n \in Int /\ \A j \in (i + 1)..n : s[j] \in S
    BY <1>1
  <2>2. /\ y \in Seq(S) /\ Len(y) = IF i + 1 <= n THEN n - (i + 1) + 1 ELSE 0
        /\ \A j \in 1..(n - (i + 1) + 1) : y[j] = s[i + 1 + j - 1]
    BY <2>1, SubSeqProperties
  <2> HIDE DEF y
  <2> QED
    BY <1>1, <2>2
<1>4. RemoveAt(s, i) = x \o y
  BY DEF RemoveAt
<1> HIDE DEF x, y
<1>5. /\ x \o y \in Seq(S) /\ Len(x \o y) = Len(x) + Len(y)
      /\ \A j \in 1..(Len(x) + Len(y)) :
            (x \o y)[j] = IF j <= Len(x) THEN x[j] ELSE y[j - Len(x)]
  BY <1>2, <1>3, ConcatProperties
<1>6. Len(x) + Len(y) = n - 1
  BY <1>1, <1>2, <1>3
<1>7. ASSUME NEW j \in 1..(n - 1)
      PROVE  (x \o y)[j] = IF j < i THEN s[j] ELSE s[j + 1]
  <2>1. CASE j < i
    <3>1. j \in 1..(i - 1) /\ j <= Len(x)
      BY <1>1, <1>2, <2>1
    <3> QED
      BY <1>2, <1>5, <1>6, <2>1, <3>1
  <2>2. CASE ~(j < i)
    <3>1. j - (i - 1) \in 1..(n - i) /\ ~(j <= i - 1) /\ i + (j - (i - 1)) = j + 1
      BY <1>1, <2>2
    <3>2. (x \o y)[j] = y[j - (i - 1)]
      BY <1>2, <1>5, <1>6, <3>1
    <3>3. y[j - (i - 1)] = s[i + (j - (i - 1))]
      BY <1>3, <3>1
    <3> QED
      BY <2>2, <3>1, <3>2, <3>3
  <2> QED
    BY <2>1, <2>2
<1> QED
  BY <1>4, <1>5, <1>6, <1>7

\* An entry that is deleted leaves the others as they were, and room.
LEMMA Deleted ==
    ASSUME NEW env \in Entries, Used(env) < SettingSize, NEW k \in Keys,
           NEW new, new = del_env(env, k)
    PROVE  /\ new \in Entries /\ Used(new) < SettingSize
           /\ \A l : l # k => ValueOf(new, l) = ValueOf(env, l)
           /\ ValueOf(new, k) = NULL
<1>1. CASE find_env(env, k) = {}
  BY <1>1, Missing DEF del_env
<1>2. CASE find_env(env, k) # {}
  <2> DEFINE n == Len(env)
  <2>1. PICK i \in 1..n : env[i].key = k
    BY <1>2, Missing
  <2>2. new = RemoveAt(env, i)
    <3>1. EntryOf(env, k) = i
      BY <2>1, Lookup
    <3>2. del_env(env, k) = RemoveAt(env, EntryOf(env, k))
      BY <1>2 DEF del_env
    <3> QED
      BY <3>1, <3>2
  <2>3. /\ env \in Seq(Entry) /\ n \in 0..3
        /\ \A j, m \in 1..n : env[j].key = env[m].key => j = m
    BY EntriesAre
  <2>4. /\ new \in Seq(Entry) /\ Len(new) = n - 1
        /\ \A j \in 1..(n - 1) : new[j] = IF j < i THEN env[j] ELSE env[j + 1]
    <3>1. /\ RemoveAt(env, i) \in Seq(Entry) /\ Len(RemoveAt(env, i)) = Len(env) - 1
          /\ \A j \in 1..(Len(env) - 1) :
                RemoveAt(env, i)[j] = IF j < i THEN env[j] ELSE env[j + 1]
      BY <2>3, Removed
    <3> QED
      BY <2>2, <3>1
  <2>5. ASSUME NEW j \in 1..(n - 1)
        PROVE  \E m \in 1..n : m # i /\ new[j] = env[m] /\ (m = j \/ m = j + 1)
                               /\ (m = j <=> j < i)
    <3>1. j \in 1..n /\ j + 1 \in 1..n /\ i \in Nat /\ j \in Nat
      BY <2>3
    <3>2. CASE j < i
      BY <2>4, <3>1, <3>2
    <3>3. CASE ~(j < i)
      <4>1. j + 1 # i /\ j + 1 # j
        BY <3>1, <3>3
      <4> QED
        BY <2>4, <3>1, <3>3, <4>1
    <3> QED
      BY <3>2, <3>3
  <2>6. ASSUME NEW m \in 1..n, m # i
        PROVE  \E j \in 1..(n - 1) : new[j] = env[m]
    <3>1. CASE m < i
      <4>1. m \in 1..(n - 1)
        BY <2>3, <3>1
      <4> QED
        BY <2>4, <3>1, <4>1
    <3>2. CASE ~(m < i)
      <4>1. m - 1 \in 1..(n - 1) /\ ~(m - 1 < i) /\ (m - 1) + 1 = m
        BY <2>3, <2>6, <3>2
      <4> QED
        BY <2>4, <4>1
    <3> QED
      BY <3>1, <3>2
  <2>7. new \in Entries
    <3>1. Len(new) \in 0..3
      BY <2>1, <2>3, <2>4
    <3>2. ASSUME NEW j \in 1..(n - 1), NEW l \in 1..(n - 1), new[j].key = new[l].key
          PROVE  j = l
      <4>1. PICK m \in 1..n : new[j] = env[m] /\ (m = j \/ m = j + 1) /\ (m = j <=> j < i)
        BY <2>5
      <4>2. PICK q \in 1..n : new[l] = env[q] /\ (q = l \/ q = l + 1) /\ (q = l <=> l < i)
        BY <2>5
      <4>3. m = q
        BY <2>3, <3>2, <4>1, <4>2
      <4> HIDE DEF n
      <4> QED
        BY <4>1, <4>2, <4>3
    <3> QED
      BY <2>4, <3>1, <3>2, EntriesAre
  <2>8. ASSUME NEW l, l # k
        PROVE  ValueOf(new, l) = ValueOf(env, l) /\ SizeOf(new, l) = SizeOf(env, l)
    <3>1. ASSUME NEW w PROVE Has(env, l, w) => Has(new, l, w)
      <4> SUFFICES ASSUME Has(env, l, w)
                   PROVE  Has(new, l, w)
        OBVIOUS
      <4>1. PICK m \in 1..n : env[m].key = l /\ env[m].value = w
        BY DEF Has
      <4>2. m # i
        BY <2>1, <2>8, <4>1
      <4>3. PICK j \in 1..(n - 1) : new[j] = env[m]
        BY <2>6, <4>2
      <4> QED
        BY <2>4, <4>1, <4>3 DEF Has
    <3>2. ASSUME NEW w PROVE Has(new, l, w) => Has(env, l, w)
      <4> SUFFICES ASSUME Has(new, l, w)
                   PROVE  Has(env, l, w)
        OBVIOUS
      <4>1. PICK j \in 1..(n - 1) : new[j].key = l /\ new[j].value = w
        BY <2>4 DEF Has
      <4>2. PICK m \in 1..n : new[j] = env[m]
        BY <2>5
      <4> QED
        BY <4>1, <4>2 DEF Has
    <3> QED
      BY <2>7, <3>1, <3>2, SameName
  <2>9. ValueOf(new, k) = NULL /\ SizeOf(new, k) = 0
    <3>1. \A j \in 1..Len(new) : new[j].key # k
      BY <2>1, <2>3, <2>4, <2>5
    <3> QED
      BY <2>7, <3>1, Missing
  <2>10. Used(new) < SettingSize
    <3>1. /\ SizeOf(env, LenKey) \in Nat /\ SizeOf(env, InfoKey) \in Nat
          /\ SizeOf(env, Boot) \in Nat
      BY RoomNat
    <3>2. Used(env) \in Nat
      BY <3>1, SizeAssumption DEF Used
    <3>3. Used(new) = Used(env) - SizeOf(env, k)
      <4>1. CASE k = LenKey
        BY <2>8, <2>9, <3>1, <4>1, NamesAssumption, SizeAssumption DEF Used
      <4>2. CASE k = InfoKey
        BY <2>8, <2>9, <3>1, <4>2, NamesAssumption, SizeAssumption DEF Used
      <4>3. CASE k = Boot
        BY <2>8, <2>9, <3>1, <4>3, NamesAssumption, SizeAssumption DEF Used
      <4> QED
        BY <4>1, <4>2, <4>3 DEF Keys
    <3>4. SizeOf(env, k) \in Nat
      BY RoomNat
    <3> QED
      BY <3>2, <3>3, <3>4, SizeAssumption
  <2> QED
    BY <2>7, <2>8, <2>9, <2>10
<1> QED
  BY <1>1, <1>2

\* Nothing, and the defaults alone.
LEMMA Blanks ==
    /\ <<>> \in Entries /\ Used(<<>>) < SettingSize
    /\ \A k : ValueOf(<<>>, k) = NULL
    /\ Zero \in Values
    /\ WithDefaults(<<>>) = <<[key |-> Boot, value |-> Zero]>>
<1>1. <<>> \in Entries
  <2>1. <<>> \in Seq(Entry) /\ Len(<<>>) = 0
    OBVIOUS
  <2>2. ASSUME NEW env \in Seq(Entry), Len(env) = 0
        PROVE  env \in Entries
    <3>1. Len(env) \in 0..3 /\ \A i \in 1..Len(env) : FALSE
      BY <2>2
    <3> QED
      BY <3>1, EntriesAre
  <2> QED
    BY <2>1, <2>2
<1>2. \A k : find_env(<<>>, k) = {} /\ ValueOf(<<>>, k) = NULL /\ SizeOf(<<>>, k) = 0
  BY <1>1, Missing
<1>3. Zero \in Values
  BY NamesAssumption DEF Zero
<1>4. Used(<<>>) = HeadSize
  BY <1>2, SizeAssumption DEF Used
<1>5. Size[Zero] \in Nat /\ HeadSize \in Nat /\ HeadSize + Size[Zero] < SettingSize
      /\ SettingSize \in Nat
  BY <1>3, SizeAssumption
<1>6. ~Full(<<>>, Zero)
  BY <1>4, <1>5 DEF Full
<1>7. WithDefaults(<<>>) = Append(<<>>, [key |-> Boot, value |-> Zero])
  BY <1>2, <1>6 DEF WithDefaults, create_env
<1> QED
  BY <1>1, <1>2, <1>3, <1>4, <1>5, <1>7
-----------------------------------------------------------------------------
(* The inductive invariant: where the tasks are *)

Pcs == {"idle", "load", "auto", "default", "set", "create", "save", "erase", "write",
        "clear", "saved"}
Thens == {"none", "load", "auto", "len", "info", "cfg", "cmd"}
TaskRecord == [pc : Pcs, key : Keys \cup {NULL}, val : Values \cup {NULL}, then : Thens,
               again : {"no", "yes", "done"}, ok : BOOLEAN, area : Areas]

Setting == {"set", "create"}
Flashing == {"erase", "write", "clear"}
Saving == {"save", "saved"} \cup Flashing

\* Where task t can be and what it remembers there.
Proper(t, r) ==
    /\ r \in TaskRecord
    /\ r.pc \in {"idle", "load", "auto"} <=> r.then = "none"
    /\ r.then \in {"len", "info"} => r.pc \in Setting
    /\ r.pc \in Setting =>
         /\ r.val \in Values
         /\ \/ r.then = "len" /\ r.key = LenKey
            \/ r.then = "info" /\ r.key = InfoKey
            \/ r.then = "cmd" /\ r.key \in Keys
    /\ r.again # "no" => r.pc \in Saving
    /\ t = Shell => r.pc \notin {"load", "auto"} /\ r.then \in {"none", "cmd"}
    /\ t = Wlan => r.then # "cmd" /\ (r.pc = "default" => r.then = "load")

Begins(r) == r.pc \in {"load", "auto"} \/ r.then \in {"load", "auto"}

\* Nothing is called until ef_env_init is through.
Control ==
    /\ task = [t \in Tasks |-> task[t]]
    /\ \A t \in Tasks : Proper(t, task[t])
    /\ Begins(task[Wlan]) => At(Shell, "idle")
-----------------------------------------------------------------------------
(* Control *)

\* One task moves, to a proper place, and ef_env_init runs alone.
Moves(t) ==
    /\ \E r : task' = [task EXCEPT ![t] = r] /\ Proper(t, r) /\ (Begins(r) => Begins(task[t]))
    /\ t = Shell => ~Begins(task[Wlan])

LEMMA TasksAre == Wlan \in Tasks /\ Shell \in Tasks /\ \A t \in Tasks : t = Wlan \/ t = Shell
  BY DEF Tasks

LEMMA OneMoves ==
    ASSUME Control, NEW t \in Tasks, NEW r, task' = [task EXCEPT ![t] = r]
    PROVE  /\ task' = [u \in Tasks |-> task'[u]]
           /\ task'[t] = r
           /\ \A u \in Tasks : u # t => task'[u] = task[u]
<1>1. task = [u \in Tasks |-> task[u]]
  BY DEF Control
<1> QED
  BY <1>1

LEMMA MovesControl ==
    ASSUME Control, NEW t \in Tasks, Moves(t)
    PROVE  Control'
<1>1. PICK r : task' = [task EXCEPT ![t] = r] /\ Proper(t, r) /\ (Begins(r) => Begins(task[t]))
  BY DEF Moves
<1>2. /\ task' = [u \in Tasks |-> task'[u]]
      /\ task'[t] = r
      /\ \A u \in Tasks : u # t => task'[u] = task[u]
  BY <1>1, OneMoves
<1>3. \A u \in Tasks : Proper(u, task'[u])
  BY <1>1, <1>2 DEF Control
<1>4. ASSUME Begins(task'[Wlan])
      PROVE  task'[Shell].pc = "idle"
  <2>1. t = Wlan
    <3>1. t = Shell => ~Begins(task[Wlan]) /\ task'[Wlan] = task[Wlan]
      BY <1>2, TasksAre, NamesAssumption DEF Moves
    <3> QED
      BY <1>4, <3>1, TasksAre
  <2>2. Begins(task[Wlan]) /\ task'[Shell] = task[Shell]
    BY <1>1, <1>2, <1>4, <2>1, TasksAre, NamesAssumption
  <2> QED
    BY <2>2 DEF Control, At
<1> QED
  BY <1>2, <1>3, <1>4 DEF Control, At

LEMMA IdleProper == \A t \in Tasks : Proper(t, Idle)
  BY DEF Proper, Idle, TaskRecord, Pcs, Thens, Areas, Setting, Saving, Flashing

\* The call of ef_save_env, until it returns.
LEMMA SaveMoves ==
    ASSUME Control, next_save_area \in Areas, NEW t \in Tasks, Save(t)
    PROVE  Moves(t)
<1> DEFINE r == task[t]
<1> USE DEF At, Goto
<1>1. Proper(t, r) /\ (t = Shell => (r.pc # "idle" => ~Begins(task[Wlan])))
  BY DEF Control
<1>2. CASE SaveUnchanged(t)
  <2> DEFINE q == [r EXCEPT !.pc = "saved", !.ok = TRUE]
  <2>1. r.pc = "save" /\ task' = [task EXCEPT ![t] = q]
    BY <1>2 DEF SaveUnchanged
  <2>2. Proper(t, q) /\ (Begins(q) => Begins(r))
    BY <1>1, <2>1 DEF Proper, TaskRecord, Pcs, Setting, Saving, Flashing, Begins
  <2> QED
    BY <1>1, <2>1, <2>2 DEF Moves
<1>3. CASE SaveHead(t)
  <2> DEFINE q == [r EXCEPT !.pc = "erase", !.area = next_save_area]
  <2>1. r.pc = "save" /\ task' = [task EXCEPT ![t] = q]
    BY <1>3 DEF SaveHead
  <2>2. Proper(t, q) /\ (Begins(q) => Begins(r))
    BY <1>1, <2>1 DEF Proper, TaskRecord, Pcs, Setting, Saving, Flashing, Begins
  <2> QED
    BY <1>1, <2>1, <2>2 DEF Moves
<1>4. CASE Erase(t)
  <2> DEFINE q == [r EXCEPT !.pc = "write"]
  <2>1. r.pc = "erase" /\ task' = [task EXCEPT ![t] = q]
    BY <1>4 DEF Erase
  <2>2. Proper(t, q) /\ (Begins(q) => Begins(r))
    BY <1>1, <2>1 DEF Proper, TaskRecord, Pcs, Setting, Saving, Flashing, Begins
  <2> QED
    BY <1>1, <2>1, <2>2 DEF Moves
<1>5. CASE EraseFails(t)
  <2> DEFINE q == [r EXCEPT !.pc = "saved", !.ok = FALSE]
  <2>1. r.pc = "erase" /\ task' = [task EXCEPT ![t] = q]
    BY <1>5 DEF EraseFails
  <2>2. Proper(t, q) /\ (Begins(q) => Begins(r))
    BY <1>1, <2>1 DEF Proper, TaskRecord, Pcs, Setting, Saving, Flashing, Begins
  <2> QED
    BY <1>1, <2>1, <2>2 DEF Moves
<1>6. CASE Write(t)
  <2> DEFINE q == [r EXCEPT !.pc = "clear", !.ok = TRUE]
  <2>1. r.pc = "write" /\ task' = [task EXCEPT ![t] = q]
    BY <1>6 DEF Write
  <2>2. Proper(t, q) /\ (Begins(q) => Begins(r))
    BY <1>1, <2>1 DEF Proper, TaskRecord, Pcs, Setting, Saving, Flashing, Begins
  <2> QED
    BY <1>1, <2>1, <2>2 DEF Moves
<1>7. CASE WriteFails(t)
  <2> DEFINE q == [r EXCEPT !.pc = "clear", !.ok = FALSE]
  <2>1. r.pc = "write" /\ task' = [task EXCEPT ![t] = q]
    BY <1>7 DEF WriteFails
  <2>2. Proper(t, q) /\ (Begins(q) => Begins(r))
    BY <1>1, <2>1 DEF Proper, TaskRecord, Pcs, Setting, Saving, Flashing, Begins
  <2> QED
    BY <1>1, <2>1, <2>2 DEF Moves
<1>8. CASE Clear(t)
  <2> DEFINE q == [r EXCEPT !.pc = "saved"]
  <2>1. r.pc = "clear" /\ task' = [task EXCEPT ![t] = q]
    BY <1>8 DEF Clear
  <2>2. Proper(t, q) /\ (Begins(q) => Begins(r))
    BY <1>1, <2>1 DEF Proper, TaskRecord, Pcs, Setting, Saving, Flashing, Begins
  <2> QED
    BY <1>1, <2>1, <2>2 DEF Moves
<1>9. CASE SaveAgain(t)
  <2> DEFINE q == [r EXCEPT !.pc = "save", !.again = "done"]
  <2>1. r.pc = "saved" /\ task' = [task EXCEPT ![t] = q]
    BY <1>9 DEF SaveAgain
  <2>2. Proper(t, q) /\ (Begins(q) => Begins(r))
    BY <1>1, <2>1 DEF Proper, TaskRecord, Pcs, Setting, Saving, Flashing, Begins
  <2> QED
    BY <1>1, <2>1, <2>2 DEF Moves
<1>10. CASE SaveReturns(t)
  <2> DEFINE q == IF r.then = "load" /\ r.ok THEN [Idle EXCEPT !.pc = "auto"] ELSE Idle
  <2>1. r.pc = "saved" /\ task' = [task EXCEPT ![t] = q]
    BY <1>10 DEF SaveReturns
  <2>2. Proper(t, q) /\ (Begins(q) => Begins(r))
    <3>1. Proper(t, Idle) /\ ~Begins(Idle)
      BY IdleProper DEF Idle, Begins
    <3>2. CASE r.then = "load" /\ r.ok
      <4>1. t = Wlan
        BY <1>1, <3>2, TasksAre DEF Proper
      <4>2. q = [Idle EXCEPT !.pc = "auto"] /\ Begins(r)
        BY <3>2 DEF Begins
      <4>3. Proper(Wlan, [Idle EXCEPT !.pc = "auto"])
        BY NamesAssumption
        DEF Proper, Idle, TaskRecord, Pcs, Thens, Areas, Setting, Saving, Flashing
      <4> QED
        BY <4>1, <4>2, <4>3
    <3>3. CASE ~(r.then = "load" /\ r.ok)
      <4>1. q = Idle
        BY <3>3
      <4> QED
        BY <3>1, <4>1
    <3> QED
      BY <3>2, <3>3
  <2> QED
    BY <1>1, <2>1, <2>2 DEF Moves
<1> QED
  BY <1>2, <1>3, <1>4, <1>5, <1>6, <1>7, <1>8, <1>9, <1>10 DEF Save

\* The other steps of a task.
LEMMA StepMoves ==
    ASSUME Control, next_save_area \in Areas, NEW t \in Tasks, Step(t)
    PROVE  Moves(t)
<1> DEFINE r == task[t]
<1> USE DEF At, Goto
<1>1. Proper(t, r) /\ (t = Shell => (r.pc # "idle" => ~Begins(task[Wlan])))
  BY DEF Control
<1>s. CASE Save(t)
  BY <1>s, SaveMoves
<1>2. CASE t = Wlan /\ LoadArea
  <2> DEFINE q == [r EXCEPT !.pc = "auto"]
  <2>1. r.pc = "load" /\ task' = [task EXCEPT ![t] = q]
    BY <1>2 DEF LoadArea
  <2>2. Proper(t, q) /\ (Begins(q) => Begins(r))
    BY <1>2, <1>1, <2>1, NamesAssumption
    DEF Proper, TaskRecord, Pcs, Setting, Saving, Flashing, Begins, Thens
  <2> QED
    BY <1>2, <1>1, <2>1, <2>2, NamesAssumption DEF Moves
<1>3. CASE t = Wlan /\ LoadNone
  <2> DEFINE q == [r EXCEPT !.pc = "default", !.then = "load"]
  <2>1. r.pc = "load" /\ task' = [task EXCEPT ![t] = q]
    BY <1>3 DEF LoadNone
  <2>2. Proper(t, q) /\ (Begins(q) => Begins(r))
    BY <1>3, <1>1, <2>1, NamesAssumption
    DEF Proper, TaskRecord, Pcs, Setting, Saving, Flashing, Begins, Thens
  <2> QED
    BY <1>3, <1>1, <2>1, <2>2, NamesAssumption DEF Moves
<1>4. CASE t = Wlan /\ AutoUpdate
  <2> DEFINE q == [r EXCEPT !.pc = "save", !.then = "auto"]
  <2>1. r.pc = "auto" /\ task' = [task EXCEPT ![t] = q]
    BY <1>4 DEF AutoUpdate
  <2>2. Proper(t, q) /\ (Begins(q) => Begins(r))
    BY <1>4, <1>1, <2>1, NamesAssumption
    DEF Proper, TaskRecord, Pcs, Setting, Saving, Flashing, Begins, Thens
  <2> QED
    BY <1>4, <1>1, <2>1, <2>2, NamesAssumption DEF Moves
<1>5. CASE SetDefault(t)
  <2> DEFINE q == [r EXCEPT !.pc = "save", !.again = "yes"]
  <2>1. r.pc = "default" /\ task' = [task EXCEPT ![t] = q]
    BY <1>5 DEF SetDefault
  <2>2. Proper(t, q) /\ (Begins(q) => Begins(r))
    BY <1>1, <2>1 DEF Proper, TaskRecord, Pcs, Setting, Saving, Flashing, Begins
  <2> QED
    BY <1>1, <2>1, <2>2 DEF Moves
<1>6. CASE SetDeletes(t)
  <2> DEFINE q == [r EXCEPT !.pc = "create"]
  <2>1. r.pc = "set" /\ task' = [task EXCEPT ![t] = q]
    BY <1>6 DEF SetDeletes
  <2>2. Proper(t, q) /\ (Begins(q) => Begins(r))
    BY <1>1, <2>1 DEF Proper, TaskRecord, Pcs, Setting, Saving, Flashing, Begins
  <2> QED
    BY <1>1, <2>1, <2>2 DEF Moves
<1>7. CASE SetRefused(t) \/ Set(t) \/ SetCreates(t)
  <2> DEFINE q == AfterSet(r)
  <2>1. r.pc \in Setting /\ task' = [task EXCEPT ![t] = q]
    BY <1>7 DEF SetRefused, Set, SetCreates, Setting
  <2>2. Proper(t, q) /\ (Begins(q) => Begins(r))
    <3>1. CASE r.then = "len"
      <4>1. q = [r EXCEPT !.pc = "set", !.key = InfoKey, !.then = "info"]
        BY <3>1 DEF AfterSet
      <4> QED
        BY <1>1, <2>1, <3>1, <4>1
        DEF Proper, TaskRecord, Pcs, Thens, Keys, Setting, Saving, Flashing, Begins
    <3>2. CASE r.then = "info"
      <4>1. q = [Idle EXCEPT !.pc = "save", !.then = "cfg"] /\ t = Wlan
        BY <1>1, <3>2, TasksAre DEF AfterSet, Proper
      <4>2. Proper(Wlan, [Idle EXCEPT !.pc = "save", !.then = "cfg"])
        BY NamesAssumption
        DEF Proper, Idle, TaskRecord, Pcs, Thens, Areas, Setting, Saving, Flashing
      <4>3. ~Begins([Idle EXCEPT !.pc = "save", !.then = "cfg"])
        BY DEF Begins, Idle
      <4> HIDE DEF q
      <4> QED
        BY <4>1, <4>2, <4>3
    <3>3. CASE r.then = "cmd"
      <4>1. q = Idle
        BY <3>3 DEF AfterSet
      <4>2. ~Begins(Idle)
        BY DEF Begins, Idle
      <4> HIDE DEF q
      <4> QED
        BY <4>1, <4>2, IdleProper
    <3>4. r.then = "len" \/ r.then = "info" \/ r.then = "cmd"
      BY <1>1, <2>1 DEF Proper
    <3> HIDE DEF q
    <3> QED
      BY <3>1, <3>2, <3>3, <3>4
  <2> QED
    BY <1>1, <2>1, <2>2 DEF Moves, Setting
<1> QED
  BY <1>s, <1>2, <1>3, <1>4, <1>5, <1>6, <1>7 DEF Step

\* Where a call leaves its task.
Called(q) == q.pc \in {"set", "save", "default"} /\ q.again = "no" /\ q.then \in {"len", "cmd"}

LEMMA CallMoves ==
    ASSUME Control,
           (\E v \in Values : write_cfg(v) \/ setenv(v)) \/ saveenv \/ resetenv
    PROVE  \E t \in Tasks : /\ Call(t) /\ task[t].pc = "idle" /\ ~Begins(task[Wlan])
                            /\ Moves(t)
                            /\ \E q : task' = [task EXCEPT ![t] = q] /\ Called(q)
<1>1. ASSUME NEW t \in Tasks, Call(t), NEW q, task' = [task EXCEPT ![t] = q],
             Proper(t, q), ~Begins(q), Called(q)
      PROVE  /\ Call(t) /\ task[t].pc = "idle" /\ ~Begins(task[Wlan])
             /\ Moves(t)
             /\ \E x : task' = [task EXCEPT ![t] = x] /\ Called(x)
  <2>1. task[t].pc = "idle" /\ ~Begins(task[Wlan])
    BY <1>1 DEF Call, At, Begins
  <2> QED
    BY <1>1, <2>1 DEF Moves
<1> USE DEF Proper, TaskRecord, Pcs, Thens, Keys, Areas, Setting, Saving, Flashing, Begins,
            Idle, Called
<1>2. ASSUME NEW v \in Values, write_cfg(v)
      PROVE  \E q : /\ Call(Wlan) /\ task' = [task EXCEPT ![Wlan] = q]
                    /\ Proper(Wlan, q) /\ ~Begins(q) /\ Called(q)
  <2> DEFINE q == [Idle EXCEPT !.pc = "set", !.key = LenKey, !.val = v, !.then = "len"]
  <2>1. Call(Wlan) /\ task' = [task EXCEPT ![Wlan] = q]
    BY <1>2 DEF write_cfg
  <2>2. Proper(Wlan, q) /\ ~Begins(q) /\ Called(q)
    BY NamesAssumption
  <2> HIDE DEF q
  <2> QED
    BY <2>1, <2>2
<1>3. ASSUME NEW v \in Values, setenv(v)
      PROVE  \E q : /\ Call(Shell) /\ task' = [task EXCEPT ![Shell] = q]
                    /\ Proper(Shell, q) /\ ~Begins(q) /\ Called(q)
  <2>1. PICK k \in Keys :
          /\ Call(Shell)
          /\ task' = [task EXCEPT ![Shell] =
                          [Idle EXCEPT !.pc = "set", !.key = k, !.val = v, !.then = "cmd"]]
    BY <1>3, Zenon DEF setenv
  <2> DEFINE q == [Idle EXCEPT !.pc = "set", !.key = k, !.val = v, !.then = "cmd"]
  <2>2. Proper(Shell, q) /\ ~Begins(q) /\ Called(q)
    BY NamesAssumption
  <2>3. Call(Shell) /\ task' = [task EXCEPT ![Shell] = q]
    BY <2>1
  <2> HIDE DEF q
  <2> QED
    BY <2>2, <2>3
<1>4. ASSUME saveenv
      PROVE  \E q : /\ Call(Shell) /\ task' = [task EXCEPT ![Shell] = q]
                    /\ Proper(Shell, q) /\ ~Begins(q) /\ Called(q)
  <2> DEFINE q == [Idle EXCEPT !.pc = "save", !.then = "cmd"]
  <2>1. Call(Shell) /\ task' = [task EXCEPT ![Shell] = q]
    BY <1>4 DEF saveenv
  <2>2. Proper(Shell, q) /\ ~Begins(q) /\ Called(q)
    BY NamesAssumption
  <2> HIDE DEF q
  <2> QED
    BY <2>1, <2>2
<1>5. ASSUME resetenv
      PROVE  \E q : /\ Call(Shell) /\ task' = [task EXCEPT ![Shell] = q]
                    /\ Proper(Shell, q) /\ ~Begins(q) /\ Called(q)
  <2> DEFINE q == [Idle EXCEPT !.pc = "default", !.then = "cmd"]
  <2>1. Call(Shell) /\ task' = [task EXCEPT ![Shell] = q]
    BY <1>5 DEF resetenv
  <2>2. Proper(Shell, q) /\ ~Begins(q) /\ Called(q)
    BY NamesAssumption
  <2> HIDE DEF q
  <2> QED
    BY <2>1, <2>2
<1> QED
  <2> HIDE DEF Proper, Begins, Called
  <2> QED
    BY <1>1, <1>2, <1>3, <1>4, <1>5, TasksAre, Zenon

\* A start leaves main to load the environment and the shell idle.
Started == task = [t \in Tasks |-> IF t = Wlan THEN [Idle EXCEPT !.pc = "load"] ELSE Idle]

LEMMA StartedControl == Started => Control
<1> SUFFICES ASSUME Started
             PROVE  Control
  OBVIOUS
<1>1. task[Wlan] = [Idle EXCEPT !.pc = "load"] /\ task[Shell] = Idle
  BY TasksAre, NamesAssumption DEF Started
<1>2. Proper(Wlan, [Idle EXCEPT !.pc = "load"])
  BY NamesAssumption
  DEF Proper, Idle, TaskRecord, Pcs, Thens, Areas, Setting, Saving, Flashing
<1>3. task[Shell].pc = "idle"
  BY <1>1 DEF Idle
<1>4. task = [t \in Tasks |-> task[t]]
  BY DEF Started
<1> QED
  BY <1>1, <1>2, <1>3, <1>4, TasksAre, IdleProper DEF Control, At

LEMMA ControlStep ==
    ASSUME Control, next_save_area \in Areas, Next
    PROVE  Control'
<1>1. CASE \E t \in Tasks : Step(t)
  BY <1>1, StepMoves, MovesControl
<1>2. CASE (\E v \in Values : write_cfg(v) \/ setenv(v)) \/ saveenv \/ resetenv
  BY <1>2, CallMoves, MovesControl
<1>3. CASE PowerCut
  <2>1. Started'
    BY <1>3 DEF PowerCut, Started
  <2>2. Started' => Control'
    BY StartedControl, PTL
  <2> QED
    BY <2>1, <2>2
<1> QED
  BY <1>1, <1>2, <1>3 DEF Next
-----------------------------------------------------------------------------
(* Types *)

FlashTyped ==
    /\ flash = [a \in Areas |-> flash[a]]
    /\ \A a \in Areas : flash[a] # NULL => IsImage(flash[a])

LockTyped ==
    /\ env_cache_lock \in Tasks \cup {NULL}
    /\ \A t \in Tasks : At(t, "create") <=> env_cache_lock = t

Flags == /\ env_cache_changed \in BOOLEAN /\ init_ok \in BOOLEAN
         /\ hurt \in BOOLEAN /\ mixed \in BOOLEAN

Typed ==
    /\ Control
    /\ FlashTyped
    /\ cur_load_area \in Areas /\ next_save_area \in Areas
    /\ IsImage(env_cache)
    /\ LockTyped
    /\ Flags

\* A task of which Control holds has its areas and values.
LEMMA TypedIsTypeOK == Typed => TypeOK
<1> SUFFICES ASSUME Typed PROVE TypeOK
  OBVIOUS
<1>1. \A t \in Tasks : task[t] \in TaskRecord
  BY DEF Typed, Control, Proper
<1>2. \A t \in Tasks : task[t].area \in Areas /\ task[t].val \in Values \cup {NULL}
  BY <1>1 DEF TaskRecord
<1> QED
  BY <1>2 DEF Typed, TypeOK, FlashTyped, LockTyped, Flags

\* What a step may do to the flash.
LEMMA FlashMoves ==
    ASSUME Typed, Next
    PROVE  \/ flash' = flash
           \/ \E t \in Tasks : /\ task[t].pc \in {"erase", "write"}
                               /\ \/ flash' = [flash EXCEPT ![task[t].area] = NULL]
                                  \/ flash' = [flash EXCEPT ![task[t].area] = env_cache]
<1>1. ASSUME NEW t \in Tasks, Save(t)
      PROVE  \/ flash' = flash
             \/ /\ task[t].pc \in {"erase", "write"}
                /\ \/ flash' = [flash EXCEPT ![task[t].area] = NULL]
                   \/ flash' = [flash EXCEPT ![task[t].area] = env_cache]
  <2>1. CASE Erase(t) \/ EraseFails(t)
    BY <2>1 DEF Erase, EraseFails, At
  <2>2. CASE Write(t)
    BY <2>2 DEF Write, At
  <2>3. CASE SaveUnchanged(t) \/ SaveHead(t) \/ WriteFails(t)
    BY <2>3 DEF SaveUnchanged, SaveHead, WriteFails
  <2>4. CASE Clear(t) \/ SaveAgain(t) \/ SaveReturns(t)
    BY <2>4 DEF Clear, SaveAgain, SaveReturns
  <2> QED
    BY <1>1, <2>1, <2>2, <2>3, <2>4 DEF Save
<1>2. ASSUME NEW t \in Tasks, Step(t), ~Save(t)
      PROVE  flash' = flash
  <2>1. LoadArea \/ LoadNone \/ AutoUpdate \/ SetDefault(t) => flash' = flash
    BY DEF LoadArea, LoadNone, AutoUpdate, SetDefault
  <2>2. SetRefused(t) => flash' = flash
    BY DEF SetRefused
  <2>6. Set(t) => flash' = flash
    BY DEF Set
  <2>3. SetDeletes(t) => flash' = flash
    BY DEF SetDeletes
  <2>4. SetCreates(t) => flash' = flash
    BY DEF SetCreates
  <2>5. \/ LoadArea \/ LoadNone \/ AutoUpdate \/ SetDefault(t)
        \/ SetRefused(t) \/ Set(t) \/ SetDeletes(t) \/ SetCreates(t)
    BY <1>2, Zenon DEF Step
  <2> QED
    BY <2>1, <2>2, <2>3, <2>4, <2>5, <2>6, Zenon
<1>3. (\E v \in Values : write_cfg(v) \/ setenv(v)) \/ saveenv \/ resetenv => flash' = flash
  <2>1. \A v \in Values : write_cfg(v) => flash' = flash
    BY DEF write_cfg, Call
  <2>2. \A v \in Values : setenv(v) => flash' = flash
    BY DEF setenv, Call
  <2>3. saveenv \/ resetenv => flash' = flash
    BY DEF saveenv, resetenv, Call
  <2> QED
    BY <2>1, <2>2, <2>3, Zenon
<1>4. PowerCut => \/ flash' = flash
                  \/ \E t \in Tasks : /\ At(t, "erase")
                                      /\ flash' = [flash EXCEPT ![task[t].area] = NULL]
  BY DEF PowerCut
<1> QED
  BY <1>1, <1>2, <1>3, <1>4 DEF Next, At

LEMMA FlashStep ==
    ASSUME Typed, Next
    PROVE  FlashTyped'
<1>1. /\ flash = [a \in Areas |-> flash[a]]
      /\ \A a \in Areas : flash[a] # NULL => IsImage(flash[a])
      /\ IsImage(env_cache)
      /\ \A t \in Tasks : task[t].area \in Areas
  BY TypedIsTypeOK DEF Typed, FlashTyped, TypeOK
<1>2. ASSUME NEW a \in Areas, NEW c, c = NULL \/ IsImage(c), flash' = [flash EXCEPT ![a] = c]
      PROVE  FlashTyped'
  <2>1. /\ flash' = [b \in Areas |-> flash'[b]]
        /\ flash'[a] = c
        /\ \A b \in Areas : b # a => flash'[b] = flash[b]
    BY <1>1, <1>2
  <2>2. ASSUME NEW b \in Areas, flash'[b] # NULL
        PROVE  IsImage(flash'[b])
    BY <1>1, <1>2, <2>1, <2>2
  <2> QED
    BY <2>1, <2>2 DEF FlashTyped, IsImage
<1>3. CASE flash' = flash
  BY <1>1, <1>3 DEF FlashTyped, IsImage
<1> QED
  BY <1>1, <1>2, <1>3, FlashMoves

\* The fields of a copy.
LEMMA ImageIs ==
    ASSUME NEW c, IsImage(c)
    PROVE  /\ DOMAIN c = {"env", "end", "count", "crc", "ver"}
           /\ c.env \in Entries /\ c.end \in Areas /\ c.count \in Nat
           /\ c.crc \in Crcs \cup {NULL} /\ c.ver \in {VerNum, OldVerNum}
           /\ Used(c.env) < SettingSize /\ c # NULL
  BY NullAssumption DEF IsImage, Copies

\* A copy stays one with other entries, and when it is sealed for an area.
LEMMA Images ==
    ASSUME NEW c, IsImage(c)
    PROVE  /\ \A e \in Entries : Used(e) < SettingSize =>
                /\ IsImage([c EXCEPT !.env = e])
                /\ [c EXCEPT !.env = e].env = e
           /\ \A a \in Areas : IsImage([c EXCEPT !.end = a, !.count = @ + 1])
           /\ IsImage([c EXCEPT !.crc = calc_env_crc(c)])
           /\ IsImage([c EXCEPT !.ver = VerNum])
           /\ \A a \in Areas : IsImage([c EXCEPT !.end = a, !.count = 0, !.ver = VerNum])
<1>1. c \in Copies /\ Used(c.env) < SettingSize
  BY DEF IsImage
<1>2. ASSUME NEW e \in Entries, Used(e) < SettingSize
      PROVE  IsImage([c EXCEPT !.env = e]) /\ [c EXCEPT !.env = e].env = e
  BY <1>1, <1>2 DEF IsImage, Copies
<1>3. ASSUME NEW a \in Areas
      PROVE  IsImage([c EXCEPT !.end = a, !.count = @ + 1])
  <2> DEFINE n == c.count + 1
  <2>1. n \in Nat
    BY ImageIs
  <2> HIDE DEF n
  <2>2. IsImage([c EXCEPT !.end = a, !.count = n])
    BY <1>1, <2>1 DEF IsImage, Copies
  <2> QED
    BY <2>2 DEF n
<1>4. IsImage([c EXCEPT !.crc = calc_env_crc(c)])
  <2>1. calc_env_crc(c) \in Crcs
    BY <1>1 DEF calc_env_crc, Crcs, Copies
  <2> QED
    BY <1>1, <2>1 DEF IsImage, Copies
<1>5. IsImage([c EXCEPT !.ver = VerNum])
  BY <1>1 DEF IsImage, Copies
<1>6. ASSUME NEW a \in Areas
      PROVE  IsImage([c EXCEPT !.end = a, !.count = 0, !.ver = VerNum])
  BY <1>1 DEF IsImage, Copies
<1> QED
  BY <1>2, <1>3, <1>4, <1>5, <1>6

\* Nothing loaded yet.
LEMMA Empty ==
    IsImage([env |-> <<>>, end |-> 0, count |-> 0, crc |-> NULL, ver |-> VerNum])
<1> DEFINE e == <<>>
<1>1. e \in Entries /\ Used(e) < SettingSize
  BY Blanks
<1> HIDE DEF e
<1>2. IsImage([env |-> e, end |-> 0, count |-> 0, crc |-> NULL, ver |-> VerNum])
  BY <1>1 DEF IsImage, Copies, Areas
<1> QED
  BY <1>2 DEF e

\* The defaults fit every copy.
LEMMA Defaults ==
    ASSUME NEW env \in Entries, Used(env) < SettingSize
    PROVE  /\ WithDefaults(env) \in Entries /\ Used(WithDefaults(env)) < SettingSize
           /\ \A k : k # Boot => ValueOf(WithDefaults(env), k) = ValueOf(env, k)
  BY Blanks, Created DEF WithDefaults, Keys

\* The copy of an earlier firmware.
LEMMA OldImage == IsImage(Image(0, OldVerNum))
<1> DEFINE e == <<[key |-> Boot, value |-> Zero]>>
           c == [env |-> e, end |-> 0, count |-> 1, crc |-> NULL, ver |-> OldVerNum]
<1>1. e \in Entries /\ Used(e) < SettingSize
  <2>1. e = WithDefaults(<<>>)
    BY Blanks
  <2> HIDE DEF e
  <2> QED
    BY <2>1, Blanks, Defaults
<1>2. Image(0, OldVerNum) = [c EXCEPT !.crc = calc_env_crc(c)]
  BY DEF Image
<1> HIDE DEF e
<1>3. IsImage(c)
  BY <1>1 DEF IsImage, Copies, Areas
<1> HIDE DEF c
<1>4. IsImage([c EXCEPT !.crc = calc_env_crc(c)])
  BY <1>3, Images
<1> QED
  BY <1>2, <1>4

\* Each step leaves the cache a copy.
LEMMA CacheStep ==
    ASSUME Typed, Next
    PROVE  IsImage(env_cache)'
<1> DEFINE env == env_cache.env
<1>1. /\ IsImage(env_cache) /\ env \in Entries /\ Used(env) < SettingSize
      /\ \A a \in Areas : flash[a] # NULL => IsImage(flash[a])
      /\ cur_load_area \in Areas /\ next_save_area \in Areas
  BY ImageIs DEF Typed, FlashTyped
<1> HIDE DEF env
<1>2. ASSUME env_cache' = env_cache
      PROVE  IsImage(env_cache)'
  BY <1>1, <1>2 DEF IsImage
<1>3. ASSUME NEW e \in Entries, Used(e) < SettingSize,
              env_cache' = [env_cache EXCEPT !.env = e]
      PROVE  IsImage(env_cache)'
  <2>1. IsImage([env_cache EXCEPT !.env = e])
    BY <1>1, <1>3, Images
  <2> QED
    BY <1>3, <2>1 DEF IsImage
<1>4. ASSUME NEW t \in Tasks, Save(t)
      PROVE  IsImage(env_cache)'
  <2>1. CASE SaveHead(t)
    <3> DEFINE c == [env_cache EXCEPT !.end = next_save_area, !.count = @ + 1]
    <3>1. env_cache' = [c EXCEPT !.crc = calc_env_crc(c)]
      BY <2>1 DEF SaveHead
    <3>2. IsImage(c)
      BY <1>1, Images
    <3> HIDE DEF c
    <3>3. IsImage([c EXCEPT !.crc = calc_env_crc(c)])
      BY <3>2, Images
    <3> QED
      BY <3>1, <3>3 DEF IsImage
  <2>2. CASE ~SaveHead(t)
    <3>1. env_cache' = env_cache
      BY <1>4, <2>2 DEF Save, SaveUnchanged, Erase, EraseFails, Write, WriteFails, Clear,
         SaveAgain, SaveReturns
    <3> QED
      BY <1>2, <3>1
  <2> QED
    BY <2>1, <2>2
<1>5. CASE LoadArea
  <2>1. env_cache' = flash[Chosen] /\ Chosen \in Areas /\ flash[Chosen] # NULL
    BY <1>5 DEF LoadArea, Chosen, IsValid, Areas
  <2> QED
    BY <1>1, <2>1 DEF IsImage
<1>6. CASE LoadNone \/ \E t \in Tasks : SetRefused(t)
  BY <1>2, <1>6 DEF LoadNone, SetRefused
<1>7. CASE AutoUpdate
  <2> DEFINE e == IF flash[cur_load_area].ver # VerNum THEN WithDefaults(env) ELSE env
  <2>1. env_cache' = [env_cache EXCEPT !.ver = VerNum, !.env = e]
    BY <1>7 DEF AutoUpdate, env
  <2>2. e \in Entries /\ Used(e) < SettingSize
    BY <1>1, Defaults
  <2> HIDE DEF e
  <2>3. IsImage([[env_cache EXCEPT !.ver = VerNum] EXCEPT !.env = e])
    <3>1. IsImage([env_cache EXCEPT !.ver = VerNum])
      BY <1>1, Images
    <3> QED
      BY <2>2, <3>1, Images
  <2>4. env_cache' = [[env_cache EXCEPT !.ver = VerNum] EXCEPT !.env = e]
    BY <2>1
  <2> QED
    BY <2>3, <2>4 DEF IsImage
<1>8. ASSUME NEW t \in Tasks, SetDefault(t)
      PROVE  IsImage(env_cache)'
  <2> DEFINE e == WithDefaults(<<>>)
             c == [env_cache EXCEPT !.end = cur_load_area, !.count = 0, !.ver = VerNum]
  <2>1. env_cache' = [env_cache EXCEPT !.env = e, !.end = cur_load_area, !.count = 0,
                                       !.ver = VerNum]
    BY <1>8 DEF SetDefault
  <2>2. e \in Entries /\ Used(e) < SettingSize
    BY Blanks, Defaults
  <2> HIDE DEF e
  <2>3. env_cache' = [c EXCEPT !.env = e]
    BY <2>1
  <2>4. IsImage(c)
    BY <1>1, Images
  <2> HIDE DEF c
  <2>5. IsImage([c EXCEPT !.env = e])
    BY <2>2, <2>4, Images
  <2> QED
    BY <2>3, <2>5 DEF IsImage
<1>9. ASSUME NEW t \in Tasks, Set(t) \/ SetCreates(t)
      PROVE  IsImage(env_cache)'
  <2> DEFINE e == create_env(env, task[t].key, task[t].val)
  <2>1. env_cache' = [env_cache EXCEPT !.env = e] /\ task[t].pc \in Setting
    BY <1>9 DEF Set, SetCreates, At, Setting, env
  <2>2. task[t].key \in Keys /\ task[t].val \in Values
    BY <2>1 DEF Typed, Control, Proper, Keys
  <2>3. e \in Entries /\ Used(e) < SettingSize
    BY <1>1, <2>2, Created
  <2> HIDE DEF e
  <2> QED
    BY <1>3, <2>1, <2>3
<1>10. ASSUME NEW t \in Tasks, SetDeletes(t)
       PROVE  IsImage(env_cache)'
  <2> DEFINE e == del_env(env, task[t].key)
  <2>1. env_cache' = [env_cache EXCEPT !.env = e] /\ task[t].pc \in Setting
    BY <1>10 DEF SetDeletes, At, Setting, env
  <2>2. task[t].key \in Keys
    BY <2>1 DEF Typed, Control, Proper, Keys
  <2>3. e \in Entries /\ Used(e) < SettingSize
    BY <1>1, <2>2, Deleted
  <2> HIDE DEF e
  <2> QED
    BY <1>3, <2>1, <2>3
<1>11. CASE (\E v \in Values : write_cfg(v) \/ setenv(v)) \/ saveenv \/ resetenv
  <2>1. env_cache' = env_cache
    BY <1>11, Zenon DEF write_cfg, setenv, saveenv, resetenv, Call
  <2> QED
    BY <1>2, <2>1
<1>12. CASE PowerCut
  <2>1. env_cache' = [env |-> <<>>, end |-> 0, count |-> 0, crc |-> NULL, ver |-> VerNum]
    BY <1>12 DEF PowerCut
  <2> QED
    BY <2>1, Empty DEF IsImage
<1>13. ASSUME NEW t \in Tasks, Step(t)
       PROVE  IsImage(env_cache)'
  BY <1>4, <1>5, <1>6, <1>7, <1>8, <1>9, <1>10, <1>13 DEF Step
<1> QED
  BY <1>11, <1>12, <1>13 DEF Next

\* The lock is taken to replace an entry and given back when it is.
LEMMA LockStep ==
    ASSUME Typed, Next
    PROVE  LockTyped'
<1> USE DEF At
<1>1. /\ env_cache_lock \in Tasks \cup {NULL}
      /\ \A u \in Tasks : task[u].pc = "create" <=> env_cache_lock = u
      /\ NULL \notin Tasks
      /\ Control
  BY NullAssumption DEF Typed, LockTyped
<1>2. ASSUME NEW t \in Tasks, NEW r, task' = [task EXCEPT ![t] = r]
      PROVE  task'[t] = r /\ \A u \in Tasks : u # t => task'[u] = task[u]
  BY <1>1, <1>2, OneMoves
\* A task that is not replacing an entry, and does not begin to, leaves the lock.
<1>3. ASSUME NEW t \in Tasks, NEW r, task' = [task EXCEPT ![t] = r],
             task[t].pc # "create", r.pc # "create", env_cache_lock' = env_cache_lock
      PROVE  LockTyped'
  <2>1. \A u \in Tasks : task'[u].pc = "create" <=> env_cache_lock' = u
    BY <1>1, <1>2, <1>3
  <2> QED
    BY <1>1, <1>3, <2>1 DEF LockTyped
<1>4. ASSUME NEW t \in Tasks, Moves(t)
      PROVE  Proper(t, task'[t])
  <2>1. PICK r : task' = [task EXCEPT ![t] = r] /\ Proper(t, r)
    BY <1>4 DEF Moves
  <2> QED
    BY <1>2, <2>1
<1>5. ASSUME NEW t \in Tasks, Save(t)
      PROVE  LockTyped'
  <2>1. PICK r : task' = [task EXCEPT ![t] = r] /\ Proper(t, r)
    BY <1>1, <1>5, SaveMoves DEF Moves, Typed
  <2>2. task[t].pc # "create" /\ env_cache_lock' = env_cache_lock
    BY <1>5 DEF Save, SaveUnchanged, SaveHead, Erase, EraseFails, Write, WriteFails, Clear,
       SaveAgain, SaveReturns
  <2>3. task'[t].pc # "create"
    <3>1. CASE SaveReturns(t)
      BY <1>2, <3>1 DEF SaveReturns, Idle
    <3>2. CASE ~SaveReturns(t)
      <4>1. Proper(t, task[t])
        BY <1>1 DEF Control
      <4>2. DOMAIN task[t] = {"pc", "key", "val", "then", "again", "ok", "area"}
        BY <4>1 DEF Proper, TaskRecord
      <4> QED
        BY <1>2, <1>5, <3>2, <4>2 DEF Save, SaveUnchanged, SaveHead, Erase, EraseFails, Write,
           WriteFails, Clear, SaveAgain, Goto
    <3> QED
      BY <3>1, <3>2
  <2> QED
    BY <1>2, <1>3, <2>1, <2>2, <2>3
<1>6. ASSUME NEW t \in Tasks,
             \/ t = Wlan /\ (LoadArea \/ LoadNone \/ AutoUpdate)
             \/ SetDefault(t) \/ SetRefused(t) \/ Set(t)
      PROVE  LockTyped'
  <2>0. DOMAIN task[t] = {"pc", "key", "val", "then", "again", "ok", "area"}
    BY <1>1 DEF Control, Proper, TaskRecord
  <2>1. task[t].pc # "create" /\ env_cache_lock' = env_cache_lock
    <3>1. CASE t = Wlan /\ (LoadArea \/ LoadNone \/ AutoUpdate)
      BY <3>1 DEF LoadArea, LoadNone, AutoUpdate
    <3>2. CASE SetDefault(t) \/ SetRefused(t)
      BY <3>2 DEF SetDefault, SetRefused
    <3>3. CASE Set(t)
      BY <3>3 DEF Set
    <3> QED
      BY <1>6, <3>1, <3>2, <3>3
  <2>2. PICK r : task' = [task EXCEPT ![t] = r] /\ task'[t] = r
    BY <1>1, <1>2, <1>6, StepMoves DEF Moves, Typed, Step
  <2>3. r.pc # "create"
    <3>1. CASE t = Wlan /\ LoadArea
      <4> DEFINE q == [task[t] EXCEPT !.pc = "auto"]
      <4>1. task' = [task EXCEPT ![t] = q]
        BY <3>1 DEF LoadArea, Goto
      <4>2. q.pc # "create"
        BY <2>0
      <4> HIDE DEF q
      <4> QED
        BY <1>2, <2>2, <4>1, <4>2
    <3>2. CASE t = Wlan /\ LoadNone
      <4> DEFINE q == [task[t] EXCEPT !.pc = "default", !.then = "load"]
      <4>1. task' = [task EXCEPT ![t] = q]
        BY <3>2 DEF LoadNone
      <4>2. q.pc # "create"
        BY <2>0
      <4> HIDE DEF q
      <4> QED
        BY <1>2, <2>2, <4>1, <4>2
    <3>3. CASE t = Wlan /\ AutoUpdate
      <4> DEFINE q == [task[t] EXCEPT !.pc = "save", !.then = "auto"]
      <4>1. task' = [task EXCEPT ![t] = q]
        BY <3>3 DEF AutoUpdate
      <4>2. q.pc # "create"
        BY <2>0
      <4> HIDE DEF q
      <4> QED
        BY <1>2, <2>2, <4>1, <4>2
    <3>4. CASE SetDefault(t)
      <4> DEFINE q == [task[t] EXCEPT !.pc = "save", !.again = "yes"]
      <4>1. task' = [task EXCEPT ![t] = q]
        BY <3>4 DEF SetDefault
      <4>2. q.pc # "create"
        BY <2>0
      <4> HIDE DEF q
      <4> QED
        BY <1>2, <2>2, <4>1, <4>2
    <3>5. CASE SetRefused(t) \/ Set(t)
      <4>1. task' = [task EXCEPT ![t] = AfterSet(task[t])]
        BY <3>5 DEF SetRefused, Set
      <4>2. AfterSet(task[t]).pc # "create"
        BY <2>0 DEF AfterSet, Idle
      <4> QED
        BY <1>2, <2>2, <4>1, <4>2
    <3> QED
      BY <1>6, <3>1, <3>2, <3>3, <3>4, <3>5
  <2> QED
    BY <1>3, <2>1, <2>2, <2>3
<1>7. ASSUME NEW t \in Tasks, SetDeletes(t)
      PROVE  LockTyped'
  <2>1. task' = [task EXCEPT ![t] = [task[t] EXCEPT !.pc = "create"]] /\ env_cache_lock = NULL
        /\ env_cache_lock' = t
    BY <1>7 DEF SetDeletes, Goto
  <2>2. [task[t] EXCEPT !.pc = "create"].pc = "create"
    BY <1>1 DEF Control, Proper, TaskRecord
  <2>3. task'[t] = [task[t] EXCEPT !.pc = "create"]
        /\ \A u \in Tasks : u # t => task'[u] = task[u]
    BY <1>2, <2>1
  <2>4. task'[t].pc = "create" /\ \A u \in Tasks : u # t => task'[u].pc # "create"
    BY <1>1, <2>1, <2>2, <2>3
  <2> QED
    BY <2>1, <2>4 DEF LockTyped
<1>8. ASSUME NEW t \in Tasks, SetCreates(t)
      PROVE  LockTyped'
  <2>1. task' = [task EXCEPT ![t] = AfterSet(task[t])] /\ env_cache_lock = t
        /\ env_cache_lock' = NULL
    BY <1>1, <1>8 DEF SetCreates
  <2>2. AfterSet(task[t]).pc # "create"
    <3>1. DOMAIN task[t] = {"pc", "key", "val", "then", "again", "ok", "area"}
      BY <1>1 DEF Control, Proper, TaskRecord
    <3> QED
      BY <3>1 DEF AfterSet, Idle
  <2>3. \A u \in Tasks : task'[u].pc # "create"
    <3>1. task'[t] = AfterSet(task[t]) /\ \A u \in Tasks : u # t => task'[u] = task[u]
      BY <1>2, <2>1
    <3>2. \A u \in Tasks : u # t => task[u].pc # "create"
      BY <1>1, <2>1, Zenon DEF LockTyped
    <3> QED
      BY <2>2, <3>1, <3>2, Zenon
  <2> QED
    BY <1>1, <2>1, <2>3 DEF LockTyped
<1>9. CASE (\E v \in Values : write_cfg(v) \/ setenv(v)) \/ saveenv \/ resetenv
  <2>1. PICK t \in Tasks : /\ Call(t) /\ task[t].pc = "idle"
                           /\ \E q : task' = [task EXCEPT ![t] = q] /\ Called(q)
    BY <1>1, <1>9, CallMoves
  <2>2. env_cache_lock' = env_cache_lock
    BY <2>1 DEF Call
  <2> QED
    BY <1>3, <2>1, <2>2 DEF Called
<1>10. CASE PowerCut
  <2>1. env_cache_lock' = NULL
        /\ task' = [t \in Tasks |-> IF t = Wlan THEN [Idle EXCEPT !.pc = "load"] ELSE Idle]
    BY <1>10 DEF PowerCut
  <2>2. \A u \in Tasks : task'[u].pc # "create"
    BY <2>1 DEF Idle
  <2> QED
    BY <1>1, <2>1, <2>2 DEF LockTyped
<1>11. ASSUME NEW t \in Tasks, Step(t)
       PROVE  LockTyped'
  BY <1>5, <1>6, <1>7, <1>8, <1>11 DEF Step
<1> QED
  BY <1>9, <1>10, <1>11 DEF Next

LEMMA FlagsStep ==
    ASSUME Typed, Next
    PROVE  Flags'
<1>1. env_cache_changed \in BOOLEAN /\ init_ok \in BOOLEAN
      /\ hurt \in BOOLEAN /\ mixed \in BOOLEAN
  BY DEF Typed, Flags
<1>2. ASSUME NEW t \in Tasks, Save(t)
      PROVE  Flags'
  BY <1>1, <1>2 DEF Flags, Save, SaveUnchanged, SaveHead, Erase, EraseFails, Write, WriteFails,
     Clear, SaveAgain, SaveReturns
<1>3. CASE LoadArea \/ LoadNone \/ AutoUpdate
  BY <1>1, <1>3 DEF Flags, LoadArea, LoadNone, AutoUpdate
<1>4. ASSUME NEW t \in Tasks, SetDefault(t) \/ SetRefused(t) \/ Set(t)
                                 \/ SetDeletes(t) \/ SetCreates(t)
      PROVE  Flags'
  BY <1>1, <1>4 DEF Flags, SetDefault, SetRefused, Set, SetDeletes, SetCreates
<1>5. CASE (\E v \in Values : write_cfg(v) \/ setenv(v)) \/ saveenv \/ resetenv
  <2>1. PICK t \in Tasks : Call(t)
    BY <1>5, CallMoves DEF Typed
  <2>2. mixed' \in BOOLEAN
    BY <1>1, <1>5 DEF write_cfg, setenv, saveenv, resetenv, Flags
  <2> QED
    BY <1>1, <2>1, <2>2 DEF Call, Flags
<1>6. CASE PowerCut
  BY <1>1, <1>6 DEF PowerCut, Flags
<1>7. ASSUME NEW t \in Tasks, Step(t)
      PROVE  Flags'
  BY <1>2, <1>3, <1>4, <1>7 DEF Step
<1> QED
  BY <1>5, <1>6, <1>7 DEF Next

LEMMA AreasStep ==
    ASSUME Typed, Next
    PROVE  cur_load_area' \in Areas /\ next_save_area' \in Areas
<1>1. cur_load_area \in Areas /\ next_save_area \in Areas
  BY DEF Typed
<1>2. ASSUME NEW t \in Tasks, Save(t)
      PROVE  cur_load_area' \in Areas /\ next_save_area' \in Areas
  <2>1. CASE SaveHead(t)
    BY <1>1, <2>1 DEF SaveHead
  <2>2. CASE ~SaveHead(t)
    BY <1>1, <1>2, <2>2 DEF Save, SaveUnchanged, Erase, EraseFails, Write, WriteFails,
     Clear, SaveAgain, SaveReturns, areaVars
  <2> QED
    BY <2>1, <2>2
<1>3. CASE LoadArea \/ LoadNone
  BY <1>3 DEF LoadArea, LoadNone, Chosen, Areas
<1>4. CASE PowerCut
  BY <1>4 DEF PowerCut, Areas
<1>5. ASSUME areaVars' = areaVars
      PROVE  cur_load_area' \in Areas /\ next_save_area' \in Areas
  BY <1>1, <1>5 DEF areaVars
<1>6. ASSUME NEW t \in Tasks, Step(t)
      PROVE  cur_load_area' \in Areas /\ next_save_area' \in Areas
  <2>1. AutoUpdate \/ SetDefault(t) => areaVars' = areaVars
    BY DEF AutoUpdate, SetDefault
  <2>2. SetRefused(t) \/ Set(t) => areaVars' = areaVars
    BY DEF SetRefused, Set
  <2>3. SetDeletes(t) \/ SetCreates(t) => areaVars' = areaVars
    BY DEF SetDeletes, SetCreates
  <2> QED
    BY <1>2, <1>3, <1>5, <1>6, <2>1, <2>2, <2>3 DEF Step
<1>7. CASE (\E v \in Values : write_cfg(v) \/ setenv(v)) \/ saveenv \/ resetenv
  <2>1. PICK t \in Tasks : Call(t)
    BY <1>7, CallMoves DEF Typed
  <2> QED
    BY <1>5, <2>1 DEF Call
<1> QED
  BY <1>4, <1>6, <1>7 DEF Next

LEMMA TypedStep ==
    ASSUME Typed, [Next]_vars
    PROVE  Typed'
<1>1. CASE Next
  <2>1. Control'
    BY <1>1, ControlStep DEF Typed
  <2>2. FlashTyped' /\ IsImage(env_cache)' /\ LockTyped' /\ Flags'
    BY <1>1, FlashStep, CacheStep, LockStep, FlagsStep
  <2>3. cur_load_area' \in Areas /\ next_save_area' \in Areas
    BY <1>1, AreasStep
  <2> QED
    BY <2>1, <2>2, <2>3 DEF Typed
<1>2. CASE UNCHANGED vars
  BY <1>2 DEF vars, areaVars, Typed, Control, FlashTyped, LockTyped, Flags, IsImage, At, Begins,
     Proper
<1> QED
  BY <1>1, <1>2

LEMMA TypedInit == Init => Typed
<1> SUFFICES ASSUME Init PROVE Typed
  OBVIOUS
<1>1. Control /\ \A u \in Tasks : task[u].pc # "create"
  <2>1. Started
    BY DEF Init, Started
  <2>2. \A u \in Tasks : task[u].pc # "create"
    BY <2>1 DEF Started, Idle
  <2> QED
    BY <2>1, <2>2, StartedControl
<1>2. FlashTyped
  <2>1. CASE flash = [a \in Areas |-> NULL]
    BY <2>1 DEF FlashTyped
  <2>2. CASE flash = [a \in Areas |-> IF a = 0 THEN Image(0, OldVerNum) ELSE NULL]
    BY <2>2, OldImage DEF FlashTyped
  <2> QED
    BY <2>1, <2>2 DEF Init
<1>3. IsImage(env_cache)
  BY Empty DEF Init
<1>4. LockTyped
  BY <1>1, NullAssumption DEF Init, LockTyped, At
<1> QED
  BY <1>1, <1>2, <1>3, <1>4 DEF Init, Typed, Flags, Areas

LEMMA TypedAlways == Spec => []Typed
<1>1. Init => Typed
  BY TypedInit
<1>2. Typed /\ [Next]_vars => Typed'
  BY TypedStep
<1> QED
  BY <1>1, <1>2, PTL DEF Spec

\* Every variable has its type; no name is twice among the entries of a copy, the
\* entries fit the setting, and the lock is held by the task that replaces an entry.
THEOREM StoreTypes == Spec => []TypeOK
<1>1. Typed => TypeOK
  BY TypedIsTypeOK
<1> QED
  BY <1>1, TypedAlways, PTL
-----------------------------------------------------------------------------
(* Where each action leaves its task *)

\* Task t goes from a to b and remembers again, ok and area as given, the rest as before.
Goes(t, a, b, again, ok, area) ==
    /\ task[t].pc = a /\ task'[t].pc = b
    /\ task'[t].key = task[t].key /\ task'[t].val = task[t].val
    /\ task'[t].then = task[t].then
    /\ task'[t].again = again /\ task'[t].ok = ok /\ task'[t].area = area
    /\ \A u \in Tasks : u # t => task'[u] = task[u]

LEMMA ActionsGo ==
    ASSUME Control, NEW t \in Tasks
    PROVE  LET r == task[t]
           IN  /\ SaveUnchanged(t) => Goes(t, "save", "saved", r.again, TRUE, r.area)
               /\ SaveHead(t) => Goes(t, "save", "erase", r.again, r.ok, next_save_area)
               /\ Erase(t) => Goes(t, "erase", "write", r.again, r.ok, r.area)
               /\ EraseFails(t) => Goes(t, "erase", "saved", r.again, FALSE, r.area)
               /\ Write(t) => Goes(t, "write", "clear", r.again, TRUE, r.area)
               /\ WriteFails(t) => Goes(t, "write", "clear", r.again, FALSE, r.area)
               /\ Clear(t) => Goes(t, "clear", "saved", r.again, r.ok, r.area)
               /\ SaveAgain(t) => Goes(t, "saved", "save", "done", r.ok, r.area)
               /\ SetDefault(t) => Goes(t, "default", "save", "yes", r.ok, r.area)
               /\ SetDeletes(t) => Goes(t, "set", "create", r.again, r.ok, r.area)
<1> DEFINE r == task[t]
<1> USE DEF At, Goto
<1>0. DOMAIN r = {"pc", "key", "val", "then", "again", "ok", "area"}
  BY DEF Control, Proper, TaskRecord
<1>1. SaveUnchanged(t) => Goes(t, "save", "saved", r.again, TRUE, r.area)
  <2> SUFFICES ASSUME SaveUnchanged(t) PROVE Goes(t, "save", "saved", r.again, TRUE, r.area)
    OBVIOUS
  <2> DEFINE q == [r EXCEPT !.pc = "saved", !.ok = TRUE]
  <2>1. r.pc = "save" /\ task' = [task EXCEPT ![t] = q]
    BY DEF SaveUnchanged
  <2>2. /\ q.pc = "saved" /\ q.key = r.key /\ q.val = r.val /\ q.then = r.then
        /\ q.again = r.again /\ q.ok = TRUE /\ q.area = r.area
    BY <1>0
  <2> HIDE DEF q
  <2>3. task'[t] = q /\ \A u \in Tasks : u # t => task'[u] = task[u]
    BY <2>1, OneMoves
  <2> QED
    BY <2>1, <2>2, <2>3 DEF Goes
<1>2. SaveHead(t) => Goes(t, "save", "erase", r.again, r.ok, next_save_area)
  <2> SUFFICES ASSUME SaveHead(t) PROVE Goes(t, "save", "erase", r.again, r.ok, next_save_area)
    OBVIOUS
  <2> DEFINE q == [r EXCEPT !.pc = "erase", !.area = next_save_area]
  <2>1. r.pc = "save" /\ task' = [task EXCEPT ![t] = q]
    BY DEF SaveHead
  <2>2. /\ q.pc = "erase" /\ q.key = r.key /\ q.val = r.val /\ q.then = r.then
        /\ q.again = r.again /\ q.ok = r.ok /\ q.area = next_save_area
    BY <1>0
  <2> HIDE DEF q
  <2>3. task'[t] = q /\ \A u \in Tasks : u # t => task'[u] = task[u]
    BY <2>1, OneMoves
  <2> QED
    BY <2>1, <2>2, <2>3 DEF Goes
<1>3. Erase(t) => Goes(t, "erase", "write", r.again, r.ok, r.area)
  <2> SUFFICES ASSUME Erase(t) PROVE Goes(t, "erase", "write", r.again, r.ok, r.area)
    OBVIOUS
  <2> DEFINE q == [r EXCEPT !.pc = "write"]
  <2>1. r.pc = "erase" /\ task' = [task EXCEPT ![t] = q]
    BY DEF Erase
  <2>2. /\ q.pc = "write" /\ q.key = r.key /\ q.val = r.val /\ q.then = r.then
        /\ q.again = r.again /\ q.ok = r.ok /\ q.area = r.area
    BY <1>0
  <2> HIDE DEF q
  <2>3. task'[t] = q /\ \A u \in Tasks : u # t => task'[u] = task[u]
    BY <2>1, OneMoves
  <2> QED
    BY <2>1, <2>2, <2>3 DEF Goes
<1>4. EraseFails(t) => Goes(t, "erase", "saved", r.again, FALSE, r.area)
  <2> SUFFICES ASSUME EraseFails(t) PROVE Goes(t, "erase", "saved", r.again, FALSE, r.area)
    OBVIOUS
  <2> DEFINE q == [r EXCEPT !.pc = "saved", !.ok = FALSE]
  <2>1. r.pc = "erase" /\ task' = [task EXCEPT ![t] = q]
    BY DEF EraseFails
  <2>2. /\ q.pc = "saved" /\ q.key = r.key /\ q.val = r.val /\ q.then = r.then
        /\ q.again = r.again /\ q.ok = FALSE /\ q.area = r.area
    BY <1>0
  <2> HIDE DEF q
  <2>3. task'[t] = q /\ \A u \in Tasks : u # t => task'[u] = task[u]
    BY <2>1, OneMoves
  <2> QED
    BY <2>1, <2>2, <2>3 DEF Goes
<1>5. Write(t) => Goes(t, "write", "clear", r.again, TRUE, r.area)
  <2> SUFFICES ASSUME Write(t) PROVE Goes(t, "write", "clear", r.again, TRUE, r.area)
    OBVIOUS
  <2> DEFINE q == [r EXCEPT !.pc = "clear", !.ok = TRUE]
  <2>1. r.pc = "write" /\ task' = [task EXCEPT ![t] = q]
    BY DEF Write
  <2>2. /\ q.pc = "clear" /\ q.key = r.key /\ q.val = r.val /\ q.then = r.then
        /\ q.again = r.again /\ q.ok = TRUE /\ q.area = r.area
    BY <1>0
  <2> HIDE DEF q
  <2>3. task'[t] = q /\ \A u \in Tasks : u # t => task'[u] = task[u]
    BY <2>1, OneMoves
  <2> QED
    BY <2>1, <2>2, <2>3 DEF Goes
<1>6. WriteFails(t) => Goes(t, "write", "clear", r.again, FALSE, r.area)
  <2> SUFFICES ASSUME WriteFails(t) PROVE Goes(t, "write", "clear", r.again, FALSE, r.area)
    OBVIOUS
  <2> DEFINE q == [r EXCEPT !.pc = "clear", !.ok = FALSE]
  <2>1. r.pc = "write" /\ task' = [task EXCEPT ![t] = q]
    BY DEF WriteFails
  <2>2. /\ q.pc = "clear" /\ q.key = r.key /\ q.val = r.val /\ q.then = r.then
        /\ q.again = r.again /\ q.ok = FALSE /\ q.area = r.area
    BY <1>0
  <2> HIDE DEF q
  <2>3. task'[t] = q /\ \A u \in Tasks : u # t => task'[u] = task[u]
    BY <2>1, OneMoves
  <2> QED
    BY <2>1, <2>2, <2>3 DEF Goes
<1>7. Clear(t) => Goes(t, "clear", "saved", r.again, r.ok, r.area)
  <2> SUFFICES ASSUME Clear(t) PROVE Goes(t, "clear", "saved", r.again, r.ok, r.area)
    OBVIOUS
  <2> DEFINE q == [r EXCEPT !.pc = "saved"]
  <2>1. r.pc = "clear" /\ task' = [task EXCEPT ![t] = q]
    BY DEF Clear
  <2>2. /\ q.pc = "saved" /\ q.key = r.key /\ q.val = r.val /\ q.then = r.then
        /\ q.again = r.again /\ q.ok = r.ok /\ q.area = r.area
    BY <1>0
  <2> HIDE DEF q
  <2>3. task'[t] = q /\ \A u \in Tasks : u # t => task'[u] = task[u]
    BY <2>1, OneMoves
  <2> QED
    BY <2>1, <2>2, <2>3 DEF Goes
<1>8. SaveAgain(t) => Goes(t, "saved", "save", "done", r.ok, r.area)
  <2> SUFFICES ASSUME SaveAgain(t) PROVE Goes(t, "saved", "save", "done", r.ok, r.area)
    OBVIOUS
  <2> DEFINE q == [r EXCEPT !.pc = "save", !.again = "done"]
  <2>1. r.pc = "saved" /\ task' = [task EXCEPT ![t] = q]
    BY DEF SaveAgain
  <2>2. /\ q.pc = "save" /\ q.key = r.key /\ q.val = r.val /\ q.then = r.then
        /\ q.again = "done" /\ q.ok = r.ok /\ q.area = r.area
    BY <1>0
  <2> HIDE DEF q
  <2>3. task'[t] = q /\ \A u \in Tasks : u # t => task'[u] = task[u]
    BY <2>1, OneMoves
  <2> QED
    BY <2>1, <2>2, <2>3 DEF Goes
<1>9. SetDefault(t) => Goes(t, "default", "save", "yes", r.ok, r.area)
  <2> SUFFICES ASSUME SetDefault(t) PROVE Goes(t, "default", "save", "yes", r.ok, r.area)
    OBVIOUS
  <2> DEFINE q == [r EXCEPT !.pc = "save", !.again = "yes"]
  <2>1. r.pc = "default" /\ task' = [task EXCEPT ![t] = q]
    BY DEF SetDefault
  <2>2. /\ q.pc = "save" /\ q.key = r.key /\ q.val = r.val /\ q.then = r.then
        /\ q.again = "yes" /\ q.ok = r.ok /\ q.area = r.area
    BY <1>0
  <2> HIDE DEF q
  <2>3. task'[t] = q /\ \A u \in Tasks : u # t => task'[u] = task[u]
    BY <2>1, OneMoves
  <2> QED
    BY <2>1, <2>2, <2>3 DEF Goes
<1>10. SetDeletes(t) => Goes(t, "set", "create", r.again, r.ok, r.area)
  <2> SUFFICES ASSUME SetDeletes(t) PROVE Goes(t, "set", "create", r.again, r.ok, r.area)
    OBVIOUS
  <2> DEFINE q == [r EXCEPT !.pc = "create"]
  <2>1. r.pc = "set" /\ task' = [task EXCEPT ![t] = q]
    BY DEF SetDeletes
  <2>2. /\ q.pc = "create" /\ q.key = r.key /\ q.val = r.val /\ q.then = r.then
        /\ q.again = r.again /\ q.ok = r.ok /\ q.area = r.area
    BY <1>0
  <2> HIDE DEF q
  <2>3. task'[t] = q /\ \A u \in Tasks : u # t => task'[u] = task[u]
    BY <2>1, OneMoves
  <2> QED
    BY <2>1, <2>2, <2>3 DEF Goes
<1> QED
  BY <1>1, <1>2, <1>3, <1>4, <1>5, <1>6, <1>7, <1>8, <1>9, <1>10

\* The same for the other actions, which leave their call or turn to another.
LEMMA OthersGo ==
    ASSUME Control, NEW t \in Tasks
    PROVE  LET r == task[t]
               q == task'[t]
               rest == \A u \in Tasks : u # t => task'[u] = task[u]
           IN  /\ t = Wlan /\ LoadArea => Goes(t, "load", "auto", r.again, r.ok, r.area)
               /\ t = Wlan /\ LoadNone =>
                    rest /\ r.pc = "load" /\ q.pc = "default"
                        /\ q.then = "load" /\ q.again = "no"
               /\ t = Wlan /\ AutoUpdate =>
                    rest /\ r.pc = "auto" /\ q.pc = "save" /\ q.then = "auto" /\ q.again = "no"
               /\ SaveReturns(t) =>
                    /\ rest /\ r.pc = "saved" /\ q.again = "no" /\ q.then = "none"
                    /\ q.pc = IF r.then = "load" /\ r.ok THEN "auto" ELSE "idle"
               /\ SetRefused(t) \/ Set(t) \/ SetCreates(t) =>
                    /\ rest /\ q = AfterSet(r) /\ q.again = "no"
                    /\ \/ r.then = "len" /\ q.pc = "set" /\ q.then = "info" /\ q.val = r.val
                       \/ r.then = "info" /\ q.pc = "save" /\ q.then = "cfg"
                       \/ r.then = "cmd" /\ q.pc = "idle" /\ q.then = "none"
<1> DEFINE r == task[t]
           rest == \A u \in Tasks : u # t => task'[u] = task[u]
<1> USE DEF At, Goto
<1>0. /\ DOMAIN r = {"pc", "key", "val", "then", "again", "ok", "area"}
      /\ Proper(t, r)
  BY DEF Control, Proper, TaskRecord
<1> HIDE DEF r
<1>1. t = Wlan /\ LoadArea => Goes(t, "load", "auto", r.again, r.ok, r.area)
  <2> SUFFICES ASSUME t = Wlan, LoadArea PROVE Goes(t, "load", "auto", r.again, r.ok, r.area)
    OBVIOUS
  <2> DEFINE q == [r EXCEPT !.pc = "auto"]
  <2>1. r.pc = "load" /\ task' = [task EXCEPT ![t] = q]
    BY DEF LoadArea, r
  <2>2. /\ q.pc = "auto" /\ q.key = r.key /\ q.val = r.val /\ q.then = r.then
        /\ q.again = r.again /\ q.ok = r.ok /\ q.area = r.area
    BY <1>0
  <2> HIDE DEF q
  <2>3. task'[t] = q /\ \A u \in Tasks : u # t => task'[u] = task[u]
    BY <2>1, OneMoves
  <2> QED
    BY <2>1, <2>2, <2>3 DEF Goes, r
<1>2. ASSUME t = Wlan, LoadNone
      PROVE  /\ rest /\ r.pc = "load"
             /\ task'[t].pc = "default" /\ task'[t].then = "load" /\ task'[t].again = "no"
  <2> DEFINE q == [r EXCEPT !.pc = "default", !.then = "load"]
  <2>1. r.pc = "load" /\ task' = [task EXCEPT ![t] = q]
    BY <1>2 DEF LoadNone, r
  <2>2. r.again = "no"
    BY <1>0, <2>1 DEF Proper, TaskRecord, Saving, Flashing
  <2>3. q.pc = "default" /\ q.then = "load" /\ q.again = r.again
    BY <1>0
  <2> HIDE DEF q
  <2>4. task'[t] = q /\ rest
    BY <2>1, OneMoves
  <2> QED
    BY <2>1, <2>2, <2>3, <2>4
<1>3. ASSUME t = Wlan, AutoUpdate
      PROVE  /\ rest /\ r.pc = "auto"
             /\ task'[t].pc = "save" /\ task'[t].then = "auto" /\ task'[t].again = "no"
  <2> DEFINE q == [r EXCEPT !.pc = "save", !.then = "auto"]
  <2>1. r.pc = "auto" /\ task' = [task EXCEPT ![t] = q]
    BY <1>3 DEF AutoUpdate, r
  <2>2. r.again = "no"
    BY <1>0, <2>1 DEF Proper, TaskRecord, Saving, Flashing
  <2>3. q.pc = "save" /\ q.then = "auto" /\ q.again = r.again
    BY <1>0
  <2> HIDE DEF q
  <2>4. task'[t] = q /\ rest
    BY <2>1, OneMoves
  <2> QED
    BY <2>1, <2>2, <2>3, <2>4
<1>4. ASSUME SaveReturns(t)
      PROVE  /\ rest /\ r.pc = "saved" /\ task'[t].again = "no" /\ task'[t].then = "none"
             /\ task'[t].pc = IF r.then = "load" /\ r.ok THEN "auto" ELSE "idle"
  <2> DEFINE q == IF r.then = "load" /\ r.ok THEN [Idle EXCEPT !.pc = "auto"] ELSE Idle
  <2>1. r.pc = "saved" /\ task' = [task EXCEPT ![t] = q]
    BY <1>4 DEF SaveReturns, r
  <2>2. /\ q.again = "no" /\ q.then = "none"
        /\ q.pc = IF r.then = "load" /\ r.ok THEN "auto" ELSE "idle"
    BY DEF Idle
  <2> HIDE DEF q
  <2>3. task'[t] = q /\ rest
    BY <2>1, OneMoves
  <2> QED
    BY <2>1, <2>2, <2>3
<1>5. ASSUME SetRefused(t) \/ Set(t) \/ SetCreates(t)
      PROVE  /\ rest /\ task'[t] = AfterSet(r) /\ task'[t].again = "no"
             /\ \/ /\ r.then = "len" /\ task'[t].pc = "set"
                   /\ task'[t].then = "info" /\ task'[t].val = r.val
                \/ r.then = "info" /\ task'[t].pc = "save" /\ task'[t].then = "cfg"
                \/ r.then = "cmd" /\ task'[t].pc = "idle" /\ task'[t].then = "none"
  <2> DEFINE q == AfterSet(r)
  <2>1. r.pc \in Setting /\ task' = [task EXCEPT ![t] = q]
    BY <1>5 DEF SetRefused, Set, SetCreates, Setting, r
  <2>2. r.again = "no" /\ (r.then = "len" \/ r.then = "info" \/ r.then = "cmd")
    BY <1>0, <2>1 DEF Proper, TaskRecord, Saving, Flashing, Setting
  <2>3. /\ q.again = "no"
        /\ \/ r.then = "len" /\ q.pc = "set" /\ q.then = "info" /\ q.val = r.val
           \/ r.then = "info" /\ q.pc = "save" /\ q.then = "cfg"
           \/ r.then = "cmd" /\ q.pc = "idle" /\ q.then = "none"
    BY <1>0, <2>2 DEF AfterSet, Idle
  <2> HIDE DEF q
  <2>4. task'[t] = q /\ rest
    BY <2>1, OneMoves
  <2> QED
    BY <2>3, <2>4 DEF q
<1> QED
  BY <1>1, <1>2, <1>3, <1>4, <1>5 DEF r

LEMMA StepOthers ==
    ASSUME Control, next_save_area \in Areas, NEW t \in Tasks, Step(t)
    PROVE  \A u \in Tasks : u # t => task'[u] = task[u]
<1>1. PICK r : task' = [task EXCEPT ![t] = r]
  BY StepMoves DEF Moves
<1> QED
  BY <1>1, OneMoves
-----------------------------------------------------------------------------
(* The WLAN configuration stays whole *)

Whole(env) == ValueOf(env, LenKey) = ValueOf(env, InfoKey)

\* The CRCs of the areas, and that of a cache about to be written, were taken of whole
\* configurations.
CrcsWhole ==
    /\ \A a \in Areas : flash[a] # NULL => Whole(flash[a].crc[3])
    /\ \A t \in Tasks : task[t].pc \in {"erase", "write"} => Whole(env_cache.crc[3])

\* The length is that of the contents which write_cfg sets next; otherwise the two are one
\* configuration, unless write_cfg is between deleting and creating.
CacheWhole ==
    LET r == task[Wlan]
        env == env_cache.env
    IN  IF r.then = "info" /\ init_ok THEN ValueOf(env, LenKey) = r.val
        ELSE r.pc = "create" \/ Whole(env)

\* What the shell sets is not of the configuration.
OtherName == task[Shell].pc \in Setting => task[Shell].key = Boot

ConfigInv ==
    /\ \A t \in Tasks : task[t].pc = "create" => init_ok
    /\ ~mixed => CrcsWhole /\ CacheWhole /\ OtherName

\* Two sets of entries with the same configuration.
Alike(env, new) == \A k \in {LenKey, InfoKey} : ValueOf(new, k) = ValueOf(env, k)

\* mixed stays set.
LEMMA MixedStays ==
    ASSUME Typed, Next, ~mixed'
    PROVE  ~mixed
<1>1. mixed \in BOOLEAN
  BY DEF Typed, Flags
<1>2. ASSUME NEW t \in Tasks, Save(t), mixed
      PROVE  mixed'
  BY <1>2 DEF Save, SaveUnchanged, SaveHead, Erase, EraseFails, Write, WriteFails, Clear,
     SaveAgain, SaveReturns
<1>3. ASSUME NEW t \in Tasks, Step(t), mixed
      PROVE  mixed'
  <2>1. CASE LoadArea \/ LoadNone \/ AutoUpdate \/ SetDefault(t)
    BY <1>3, <2>1 DEF LoadArea, LoadNone, AutoUpdate, SetDefault
  <2>2. CASE SetRefused(t) \/ Set(t)
    BY <1>3, <2>2 DEF SetRefused, Set
  <2>3. CASE SetDeletes(t) \/ SetCreates(t)
    BY <1>3, <2>3 DEF SetDeletes, SetCreates
  <2> QED
    BY <1>2, <1>3, <2>1, <2>2, <2>3 DEF Step
<1>4. (\E v \in Values : write_cfg(v) \/ setenv(v)) \/ saveenv \/ resetenv => (mixed => mixed')
  BY DEF write_cfg, setenv, saveenv, resetenv
<1>5. PowerCut => mixed' = mixed
  BY DEF PowerCut
<1> QED
  BY <1>1, <1>3, <1>4, <1>5 DEF Next

LEMMA OtherNameStep ==
    ASSUME Typed, ConfigInv, Next, ~mixed'
    PROVE  OtherName'
<1> USE DEF At
<1>1. /\ Control /\ Wlan \in Tasks /\ Shell \in Tasks /\ Wlan # Shell
      /\ \A t \in Tasks : t = Wlan \/ t = Shell
      /\ next_save_area \in Areas
  BY TasksAre, NamesAssumption, TypedIsTypeOK DEF Typed, Control, TypeOK
<1>2. ~mixed /\ OtherName
  BY MixedStays DEF ConfigInv
<1>3. ASSUME task'[Shell] = task[Shell]
      PROVE  OtherName'
  BY <1>2, <1>3 DEF OtherName
<1>4. ASSUME task'[Shell].pc \notin Setting
      PROVE  OtherName'
  BY <1>4 DEF OtherName
<1>5. ASSUME Step(Wlan)
      PROVE  OtherName'
  BY <1>1, <1>3, <1>5, StepOthers
<1>6. ASSUME Step(Shell)
      PROVE  OtherName'
  <2>1. CASE Save(Shell) \/ SetDefault(Shell)
    BY <1>1, <1>4, <2>1, ActionsGo, OthersGo DEF Save, Goes, Setting
  <2>2. CASE SetDeletes(Shell)
    <3>1. task[Shell].pc = "set" /\ task'[Shell].key = task[Shell].key
      BY <1>1, <2>2, ActionsGo DEF Goes
    <3> QED
      BY <1>2, <3>1 DEF OtherName, Setting
  <2>3. CASE SetRefused(Shell) \/ Set(Shell) \/ SetCreates(Shell)
    <3>1. task[Shell].then \notin {"len", "info"}
      BY <1>1 DEF Control, Proper
    <3>2. task'[Shell].pc = "idle"
      BY <1>1, <2>3, <3>1, OthersGo
    <3> QED
      BY <1>4, <3>2 DEF Setting
  <2> QED
    BY <1>1, <1>6, <2>1, <2>2, <2>3 DEF Step
<1>7. ASSUME NEW v \in Values, setenv(v)
      PROVE  OtherName'
  <2>1. PICK k \in Keys :
          /\ task' = [task EXCEPT ![Shell] =
                          [Idle EXCEPT !.pc = "set", !.key = k, !.val = v, !.then = "cmd"]]
          /\ mixed' = (mixed \/ k # Boot)
    BY <1>7, Zenon DEF setenv
  <2>2. k = Boot
    BY <2>1
  <2>3. task'[Shell] = [Idle EXCEPT !.pc = "set", !.key = k, !.val = v, !.then = "cmd"]
    BY <1>1, <2>1 DEF Control
  <2> QED
    BY <2>2, <2>3 DEF OtherName, Idle
<1>8. ASSUME NEW v \in Values, write_cfg(v)
      PROVE  OtherName'
  <2>1. task'[Shell] = task[Shell]
    BY <1>1, <1>8 DEF Control, write_cfg
  <2> QED
    BY <1>3, <2>1
<1>9. CASE saveenv \/ resetenv
  <2>1. task'[Shell].pc \in {"save", "default"}
    BY <1>1, <1>9 DEF Control, saveenv, resetenv, Idle
  <2> QED
    BY <1>4, <2>1 DEF Setting
<1>10. CASE PowerCut
  <2>1. task'[Shell].pc = "idle"
    BY <1>1, <1>10 DEF PowerCut, Idle
  <2> QED
    BY <1>4, <2>1 DEF Setting
<1> QED
  BY <1>1, <1>5, <1>6, <1>7, <1>8, <1>9, <1>10 DEF Next

LEMMA CacheWholeStep ==
    ASSUME Typed, ConfigInv, Next, ~mixed'
    PROVE  CacheWhole'
<1> DEFINE r == task[Wlan]
           env == env_cache.env
           new == env_cache'.env
<1> USE DEF At
<1>1. /\ Control /\ Wlan \in Tasks /\ Shell \in Tasks /\ Wlan # Shell
      /\ \A t \in Tasks : t = Wlan \/ t = Shell
      /\ Proper(Wlan, r) /\ Proper(Shell, task[Shell])
      /\ IsImage(env_cache) /\ env \in Entries /\ Used(env) < SettingSize
      /\ DOMAIN env_cache = {"env", "end", "count", "crc", "ver"}
  BY TasksAre, NamesAssumption, ImageIs DEF Typed, Control
<1>2. /\ r.pc = "create" => init_ok
      /\ r.then = "info" => r.pc \in {"set", "create"} /\ r.key = InfoKey /\ r.val \in Values
      /\ r.then = "len" => r.pc \in {"set", "create"} /\ r.key = LenKey /\ r.val \in Values
      /\ r.pc \in {"set", "create"} => r.then \in {"info", "len"}
  BY <1>1, NamesAssumption DEF ConfigInv, Proper, Setting
<1>3. ~mixed
  BY MixedStays
<1>4. CacheWhole
  BY <1>3 DEF ConfigInv
\* Where write_cfg is not at work the cache holds one configuration ...
<1>5. r.pc \notin {"set", "create"} => Whole(env)
  BY <1>2, <1>4 DEF CacheWhole
\* ... and that is enough.
<1>6. ASSUME Whole(new), task'[Wlan].then # "info"
      PROVE  CacheWhole'
  BY <1>6 DEF CacheWhole, Whole
<1>7. ASSUME Alike(env, new), task'[Wlan] = r, init_ok' = init_ok
      PROVE  CacheWhole'
  BY <1>4, <1>7 DEF CacheWhole, Whole, Alike
<1>8. ASSUME Alike(env, new), r.pc \notin {"set", "create"}, task'[Wlan].then # "info"
      PROVE  CacheWhole'
  BY <1>5, <1>6, <1>8 DEF Whole, Alike
<1>9. new = env => Alike(env, new)
  BY DEF Alike
<1> HIDE DEF env, new
<1>10. ASSUME NEW t \in Tasks, Save(t)
       PROVE  CacheWhole'
  <2>1. new = env
    BY <1>1, <1>10 DEF Save, SaveUnchanged, SaveHead, Erase, EraseFails, Write, WriteFails,
       Clear, SaveAgain, SaveReturns, env, new
  <2>2. CASE SaveReturns(t)
    <3>1. CASE t = Wlan
      BY <1>1, <1>8, <1>9, <2>1, <2>2, <3>1, OthersGo
    <3>2. CASE t = Shell
      <4>1. task'[Wlan] = r
        BY <1>1, <2>2, <3>2, OthersGo
      <4>2. init_ok' = init_ok
        BY <1>1, <2>2, <3>2 DEF SaveReturns, Proper, Typed, Flags
      <4> QED
        BY <1>7, <1>9, <2>1, <4>1, <4>2
    <3> QED
      BY <1>1, <3>1, <3>2
  <2>3. CASE ~SaveReturns(t)
    <3>1. /\ task[t].pc \notin {"set", "create"} /\ task'[t].then = task[t].then
          /\ \A u \in Tasks : u # t => task'[u] = task[u]
      BY <1>1, <1>10, <2>3, ActionsGo DEF Save, Goes
    <3>2. init_ok' = init_ok
      BY <1>10, <2>3 DEF Save, SaveUnchanged, SaveHead, Erase, EraseFails, Write,
         WriteFails, Clear, SaveAgain
    <3>3. CASE t = Wlan
      <4>1. r.pc \notin {"set", "create"} /\ task'[Wlan].then = r.then
        BY <3>1, <3>3
      <4> QED
        BY <1>2, <1>8, <1>9, <2>1, <4>1
    <3>4. CASE t = Shell
      <4>1. task'[Wlan] = r
        BY <1>1, <3>1, <3>4
      <4> QED
        BY <1>7, <1>9, <2>1, <3>2, <4>1
    <3> QED
      BY <1>1, <3>3, <3>4
  <2> QED
    BY <2>2, <2>3
<1>11. CASE LoadArea
  <2>1. /\ env_cache' = flash[Chosen] /\ Chosen \in Areas /\ flash[Chosen] # NULL
        /\ flash[Chosen].crc = calc_env_crc(flash[Chosen])
    BY <1>11 DEF LoadArea, Chosen, IsValid, Areas
  <2>2. Whole(flash[Chosen].crc[3])
    BY <1>3, <2>1 DEF ConfigInv, CrcsWhole
  <2>3. flash[Chosen].crc[3] = flash[Chosen].env
    BY <2>1 DEF calc_env_crc
  <2>4. Whole(new)
    BY <2>1, <2>2, <2>3 DEF new
  <2>5. task'[Wlan].then = r.then /\ r.pc = "load"
    BY <1>1, <1>11, OthersGo DEF Goes
  <2> QED
    BY <1>2, <1>6, <2>4, <2>5
<1>12. CASE LoadNone
  <2>1. new = env
    BY <1>12 DEF LoadNone, env, new
  <2>2. r.pc = "load" /\ task'[Wlan].then = "load"
    BY <1>1, <1>12, OthersGo
  <2> QED
    BY <1>8, <1>9, <2>1, <2>2
<1>13. CASE AutoUpdate
  <2>1. new = WithDefaults(env) \/ new = env
    BY <1>1, <1>13 DEF AutoUpdate, env, new
  <2>2. Alike(env, new)
    BY <1>1, <1>9, <2>1, Defaults, NamesAssumption DEF Alike
  <2>3. r.pc = "auto" /\ task'[Wlan].then = "auto"
    BY <1>1, <1>13, OthersGo
  <2> QED
    BY <1>8, <2>2, <2>3
<1>14. ASSUME NEW t \in Tasks, SetDefault(t)
       PROVE  CacheWhole'
  <2>1. new = WithDefaults(<<>>) /\ init_ok' = init_ok
    BY <1>1, <1>14 DEF SetDefault, new
  <2>2. Whole(new)
    BY <2>1, Blanks, Defaults, NamesAssumption DEF Whole
  <2>3. Goes(t, "default", "save", "yes", task[t].ok, task[t].area)
    BY <1>1, <1>14, ActionsGo
  <2>4. task'[Wlan].then # "info"
    <3>1. CASE t = Wlan
      BY <1>2, <2>3, <3>1 DEF Goes
    <3>2. CASE t = Shell
      <4>1. task'[Wlan] = r
        BY <1>1, <2>3, <3>2 DEF Goes
      <4>2. mixed' = (mixed \/ HalfWritten)
        BY <1>1, <1>14, <3>2 DEF SetDefault
      <4> QED
        BY <4>1, <4>2 DEF HalfWritten
    <3> QED
      BY <1>1, <3>1, <3>2
  <2> QED
    BY <1>6, <2>2, <2>4
<1>15. ASSUME NEW t \in Tasks, SetRefused(t)
       PROVE  CacheWhole'
  <2>1. new = env /\ init_ok' = init_ok /\ ~init_ok /\ task[t].pc = "set"
    BY <1>15 DEF SetRefused, env, new
  <2>2. CASE t = Wlan
    <3>1. Whole(new)
      BY <1>2, <1>4, <2>1, <2>2 DEF CacheWhole, env
    <3> QED
      BY <2>1, <3>1 DEF CacheWhole, Whole, new
  <2>3. CASE t = Shell
    <3>1. task'[Wlan] = r
      BY <1>1, <1>15, <2>3, OthersGo
    <3> QED
      BY <1>7, <1>9, <2>1, <3>1
  <2> QED
    BY <1>1, <2>2, <2>3
\* The entries change under another name than those of the configuration.
<1>16. ASSUME NEW t \in Tasks, t = Shell, Set(t) \/ SetDeletes(t) \/ SetCreates(t)
       PROVE  CacheWhole'
  <2>1. task[t].pc \in Setting /\ init_ok' = init_ok
    BY <1>16 DEF Set, SetDeletes, SetCreates, Setting
  <2>2. task[t].key = Boot /\ task[t].val \in Values
    BY <1>1, <1>3, <1>16, <2>1 DEF Proper, ConfigInv, OtherName
  <2>3. new = create_env(env, Boot, task[t].val) \/ new = del_env(env, Boot)
    BY <1>1, <1>16, <2>2 DEF Set, SetDeletes, SetCreates, env, new
  <2>4. Alike(env, new)
    <3>1. Boot \in Keys /\ \A k \in {LenKey, InfoKey} : k # Boot
      BY NamesAssumption DEF Keys
    <3>2. env \in Entries /\ Used(env) < SettingSize
      BY <1>1
    <3>3. \A l : l # Boot => ValueOf(new, l) = ValueOf(env, l)
      <4>1. CASE new = create_env(env, Boot, task[t].val)
        BY <2>2, <3>1, <3>2, <4>1, Created
      <4>2. CASE new = del_env(env, Boot)
        BY <3>1, <3>2, <4>2, Deleted
      <4> QED
        BY <2>3, <4>1, <4>2
    <3> QED
      BY <3>1, <3>3, Zenon DEF Alike
  <2>5. task'[Wlan] = r
    <3>1. \A u \in Tasks : u # t => task'[u] = task[u]
      BY <1>1, <1>16, ActionsGo, OthersGo DEF Goes
    <3> QED
      BY <1>1, <1>16, <3>1
  <2> QED
    BY <1>7, <2>1, <2>4, <2>5
<1>17. CASE SetDeletes(Wlan)
  <2>1. new = del_env(env, r.key) /\ r.pc = "set" /\ init_ok' = init_ok
    BY <1>1, <1>17 DEF SetDeletes, env, new
  <2>2. r.key \in {LenKey, InfoKey} /\ \A l : l # r.key => ValueOf(new, l) = ValueOf(env, l)
    BY <1>1, <1>2, <2>1, Deleted DEF Keys
  <2>3. task'[Wlan].pc = "create" /\ task'[Wlan].then = r.then /\ task'[Wlan].val = r.val
    BY <1>1, <1>17, ActionsGo DEF Goes
  <2>4. r.then = "info" => ValueOf(new, LenKey) = ValueOf(env, LenKey)
    BY <1>2, <2>2, NamesAssumption
  <2> QED
    BY <1>4, <2>1, <2>3, <2>4 DEF CacheWhole, env, new
<1>18. CASE Set(Wlan) \/ SetCreates(Wlan)
  <2>1. new = create_env(env, r.key, r.val) /\ r.pc \in {"set", "create"} /\ init_ok' = init_ok
    BY <1>1, <1>18 DEF Set, SetCreates, env, new
  <2>2. init_ok
    BY <1>2, <1>18 DEF Set, SetCreates
  <2>3. /\ r.key \in {LenKey, InfoKey} /\ r.val \in Values
        /\ \A l : l # r.key => ValueOf(new, l) = ValueOf(env, l)
        /\ new = env \/ ValueOf(new, r.key) = r.val
    BY <1>1, <1>2, <2>1, Created DEF Keys
  <2>4. ValueOf(new, r.key) = r.val
    <3>1. CASE Set(Wlan)
      <4>1. ValueOf(create_env(env, r.key, r.val), r.key) = r.val
        BY <3>1 DEF Set, env
      <4> QED
        BY <2>1, <4>1
    <3>2. CASE SetCreates(Wlan)
      <4>1. create_env(env, r.key, r.val) # env
        BY <3>2 DEF SetCreates, env
      <4> QED
        BY <2>1, <2>3, <4>1
    <3> QED
      BY <1>18, <3>1, <3>2
  <2>5. CASE r.then = "len"
    <3>1. task'[Wlan].then = "info" /\ task'[Wlan].val = r.val
      BY <1>1, <1>18, <2>5, OthersGo
    <3> QED
      BY <1>2, <2>1, <2>2, <2>4, <2>5, <3>1 DEF CacheWhole, new
  <2>6. CASE r.then = "info"
    <3>1. task'[Wlan].then = "cfg"
      BY <1>1, <1>18, <2>6, OthersGo
    <3>2. ValueOf(env, LenKey) = r.val
      BY <1>4, <2>2, <2>6 DEF CacheWhole, env
    <3>3. ValueOf(new, LenKey) = r.val /\ ValueOf(new, InfoKey) = r.val
      BY <1>2, <2>3, <2>4, <2>6, <3>2, NamesAssumption
    <3> QED
      BY <1>6, <3>1, <3>3 DEF Whole
  <2> QED
    BY <1>2, <2>1, <2>5, <2>6
<1>19. CASE (\E v \in Values : write_cfg(v) \/ setenv(v)) \/ saveenv \/ resetenv
  <2>1. PICK t \in Tasks : /\ Call(t) /\ task[t].pc = "idle"
                           /\ \E q : task' = [task EXCEPT ![t] = q] /\ Called(q)
    BY <1>1, <1>19, CallMoves
  <2>2. PICK q : task' = [task EXCEPT ![t] = q] /\ Called(q)
    BY <2>1
  <2>3. task'[t] = q /\ \A u \in Tasks : u # t => task'[u] = task[u]
    BY <1>1, <2>2, OneMoves
  <2>4. new = env /\ init_ok' = init_ok
    BY <2>1 DEF Call, env, new
  <2>5. CASE t = Wlan
    BY <1>8, <1>9, <2>1, <2>2, <2>3, <2>4, <2>5 DEF Called
  <2>6. CASE t = Shell
    BY <1>1, <1>7, <1>9, <2>3, <2>4, <2>6
  <2> QED
    BY <1>1, <2>5, <2>6
<1>20. CASE PowerCut
  <2>1. new = <<>> /\ task'[Wlan].then = "none"
    BY <1>1, <1>20 DEF PowerCut, new, Idle
  <2> QED
    BY <1>6, <2>1, Blanks DEF Whole
<1>21. ASSUME NEW t \in Tasks, Step(t)
       PROVE  CacheWhole'
  <2>1. CASE Set(t) \/ SetDeletes(t) \/ SetCreates(t)
    BY <1>1, <1>16, <1>17, <1>18, <2>1
  <2> QED
    BY <1>10, <1>11, <1>12, <1>13, <1>14, <1>15, <1>21, <2>1 DEF Step
<1> QED
  BY <1>19, <1>20, <1>21 DEF Next

LEMMA CrcsWholeStep ==
    ASSUME Typed, ConfigInv, Next, ~mixed'
    PROVE  CrcsWhole'
<1> USE DEF At
<1>1. /\ Control /\ Wlan \in Tasks /\ Shell \in Tasks /\ Wlan # Shell
      /\ \A t \in Tasks : t = Wlan \/ t = Shell
      /\ \A t \in Tasks : Proper(t, task[t]) /\ task[t].area \in Areas
      /\ IsImage(env_cache)
      /\ DOMAIN env_cache = {"env", "end", "count", "crc", "ver"}
  BY TasksAre, NamesAssumption, TypedIsTypeOK, ImageIs DEF Typed, Control, TypeOK
<1>2. CrcsWhole /\ CacheWhole
  BY MixedStays DEF ConfigInv
\* What is written has a CRC of a whole configuration.
<1>3. ASSUME NEW a \in Areas, flash'[a] # NULL
      PROVE  Whole(flash'[a].crc[3])
  <2>1. flash = [b \in Areas |-> flash[b]]
    BY DEF Typed, FlashTyped
  <2>2. CASE flash' = flash
    BY <1>2, <1>3, <2>2 DEF CrcsWhole
  <2>3. CASE \E t \in Tasks : /\ task[t].pc \in {"erase", "write"}
                              /\ \/ flash' = [flash EXCEPT ![task[t].area] = NULL]
                                 \/ flash' = [flash EXCEPT ![task[t].area] = env_cache]
    <3>1. PICK t \in Tasks : /\ task[t].pc \in {"erase", "write"}
                             /\ \/ flash' = [flash EXCEPT ![task[t].area] = NULL]
                                \/ flash' = [flash EXCEPT ![task[t].area] = env_cache]
      BY <2>3
    <3>2. Whole(env_cache.crc[3])
      BY <1>2, <3>1 DEF CrcsWhole
    <3>3. flash'[a] = flash[a] \/ flash'[a] = env_cache
      BY <1>1, <1>3, <2>1, <3>1
    <3> QED
      BY <1>2, <1>3, <3>2, <3>3 DEF CrcsWhole
  <2> QED
    BY <2>2, <2>3, FlashMoves
\* The CRC is taken under the name of the task that saves; the others leave it.
<1>4. ASSUME NEW t \in Tasks, SaveHead(t)
      PROVE  Whole(env_cache'.crc[3])
  <2> DEFINE c == [env_cache EXCEPT !.end = next_save_area, !.count = @ + 1]
  <2>1. /\ env_cache' = [c EXCEPT !.crc = calc_env_crc(c)]
        /\ task[t].pc = "save" /\ (mixed' <=> mixed \/ (t = Shell /\ HalfWritten))
    BY <1>4 DEF SaveHead, Typed, Flags
  <2>2. DOMAIN c = {"env", "end", "count", "crc", "ver"} /\ c.env = env_cache.env
    BY <1>1
  <2> HIDE DEF c
  <2>3. env_cache'.crc[3] = env_cache.env
    BY <2>1, <2>2 DEF calc_env_crc
  <2>4. task[Wlan].then # "info" /\ task[Wlan].pc # "create"
    <3>1. CASE t = Wlan
      BY <1>1, <2>1, <3>1 DEF Proper, Setting
    <3>2. CASE t = Shell
      BY <2>1, <3>2 DEF HalfWritten
    <3> QED
      BY <1>1, <3>1, <3>2
  <2>5. Whole(env_cache.env)
    BY <1>2, <2>4 DEF CacheWhole
  <2> QED
    BY <2>3, <2>5
<1>5. ASSUME env_cache'.crc = env_cache.crc,
             \A u \in Tasks : task'[u].pc \in {"erase", "write"} =>
                \E t \in Tasks : task[t].pc \in {"erase", "write"}
      PROVE  CrcsWhole'
  BY <1>2, <1>3, <1>5 DEF CrcsWhole
<1>6. ASSUME \A u \in Tasks : task'[u].pc \notin {"erase", "write"}
      PROVE  CrcsWhole'
  BY <1>3, <1>6 DEF CrcsWhole
<1>7. ASSUME NEW t \in Tasks, Save(t)
      PROVE  CrcsWhole'
  <2>1. CASE SaveHead(t)
    BY <1>3, <1>4, <2>1 DEF CrcsWhole
  <2>2. CASE ~SaveHead(t)
    <3>1. env_cache' = env_cache
      BY <1>7, <2>2 DEF Save, SaveUnchanged, Erase, EraseFails, Write, WriteFails, Clear,
         SaveAgain, SaveReturns
    <3>2. /\ \A u \in Tasks : u # t => task'[u] = task[u]
          /\ task'[t].pc \in {"erase", "write"} => task[t].pc \in {"erase", "write"}
      BY <1>1, <1>7, <2>2, ActionsGo, OthersGo DEF Save, Goes
    <3> QED
      BY <1>5, <3>1, <3>2
  <2> QED
    BY <2>1, <2>2
<1>8. CASE LoadArea
  <2>1. task'[Wlan].pc = "auto" /\ task'[Shell] = task[Shell] /\ task[Wlan].pc = "load"
    BY <1>1, <1>8, OthersGo DEF Goes
  <2>2. task[Shell].pc = "idle"
    BY <1>1, <2>1 DEF Control, Begins
  <2> QED
    BY <1>1, <1>6, <2>1, <2>2
<1>9. ASSUME NEW t \in Tasks, \/ t = Wlan /\ (LoadNone \/ AutoUpdate)
                              \/ SetDefault(t) \/ SetDeletes(t)
                              \/ SetRefused(t) \/ Set(t) \/ SetCreates(t)
      PROVE  CrcsWhole'
  <2>1. env_cache'.crc = env_cache.crc
    <3>1. CASE LoadNone \/ SetRefused(t)
      BY <3>1 DEF LoadNone, SetRefused
    <3>2. CASE AutoUpdate
      BY <1>1, <3>2 DEF AutoUpdate
    <3>3. CASE SetDefault(t)
      BY <1>1, <3>3 DEF SetDefault
    <3>4. CASE SetDeletes(t)
      BY <1>1, <3>4 DEF SetDeletes
    <3>5. CASE Set(t)
      BY <1>1, <3>5 DEF Set
    <3>6. CASE SetCreates(t)
      BY <1>1, <3>6 DEF SetCreates
    <3> QED
      BY <1>9, <3>1, <3>2, <3>3, <3>4, <3>5, <3>6
  <2>2. /\ \A u \in Tasks : u # t => task'[u] = task[u]
        /\ task'[t].pc \notin {"erase", "write"}
    BY <1>1, <1>9, ActionsGo, OthersGo DEF Goes
  <2> QED
    BY <1>5, <2>1, <2>2
<1>10. CASE (\E v \in Values : write_cfg(v) \/ setenv(v)) \/ saveenv \/ resetenv
  <2>1. PICK t \in Tasks : /\ Call(t) /\ task[t].pc = "idle"
                           /\ \E q : task' = [task EXCEPT ![t] = q] /\ Called(q)
    BY <1>1, <1>10, CallMoves
  <2>2. PICK q : task' = [task EXCEPT ![t] = q] /\ Called(q)
    BY <2>1
  <2>3. task'[t] = q /\ \A u \in Tasks : u # t => task'[u] = task[u]
    BY <1>1, <2>2, OneMoves
  <2>4. env_cache' = env_cache
    BY <2>1 DEF Call
  <2> QED
    BY <1>5, <2>2, <2>3, <2>4 DEF Called
<1>11. CASE PowerCut
  <2>1. \A u \in Tasks : task'[u].pc \notin {"erase", "write"}
    BY <1>11 DEF PowerCut, Idle
  <2> QED
    BY <1>6, <2>1
<1>12. ASSUME NEW t \in Tasks, Step(t)
       PROVE  CrcsWhole'
  BY <1>7, <1>8, <1>9, <1>12 DEF Step
<1> QED
  BY <1>10, <1>11, <1>12 DEF Next

\* init_ok is not reset while a task replaces an entry.
LEMMA CreatingStep ==
    ASSUME Typed, ConfigInv, Next
    PROVE  \A t \in Tasks : task'[t].pc = "create" => init_ok'
<1> SUFFICES ASSUME NEW u \in Tasks, task'[u].pc = "create"
             PROVE  init_ok'
  OBVIOUS
<1> USE DEF At
<1>1. Control /\ init_ok \in BOOLEAN /\ (task[u].pc = "create" => init_ok)
  BY DEF Typed, Flags, ConfigInv
<1>2. ASSUME NEW t \in Tasks, Step(t)
      PROVE  init_ok'
  <2>1. init_ok => init_ok'
    <3>1. Save(t) => (init_ok => init_ok')
      BY DEF Save, SaveUnchanged, SaveHead, Erase, EraseFails, Write, WriteFails, Clear,
         SaveAgain, SaveReturns
    <3>2. LoadArea \/ LoadNone \/ AutoUpdate \/ SetDefault(t) => (init_ok => init_ok')
      BY DEF LoadArea, LoadNone, AutoUpdate, SetDefault
    <3>3. SetRefused(t) \/ Set(t) => (init_ok => init_ok')
      BY DEF SetRefused, Set
    <3>4. SetDeletes(t) \/ SetCreates(t) => (init_ok => init_ok')
      BY DEF SetDeletes, SetCreates
    <3> QED
      BY <1>2, <3>1, <3>2, <3>3, <3>4 DEF Step
  <2>2. CASE SetDeletes(t)
    BY <2>1, <2>2 DEF SetDeletes
  <2>3. CASE ~SetDeletes(t)
    <3>1. (\A x \in Tasks : x # t => task'[x] = task[x]) /\ task'[t].pc # "create"
      BY <1>1, <1>2, <2>3, ActionsGo, OthersGo DEF Step, Save, Goes
    <3> QED
      BY <1>1, <2>1, <3>1
  <2> QED
    BY <2>2, <2>3
<1>3. CASE (\E v \in Values : write_cfg(v) \/ setenv(v)) \/ saveenv \/ resetenv
  <2>1. PICK t \in Tasks : Call(t) /\ \E q : task' = [task EXCEPT ![t] = q] /\ Called(q)
    BY <1>1, <1>3, CallMoves
  <2>2. PICK q : task' = [task EXCEPT ![t] = q] /\ Called(q)
    BY <2>1
  <2>3. task'[t] = q /\ \A x \in Tasks : x # t => task'[x] = task[x]
    BY <1>1, <2>2, OneMoves
  <2> QED
    BY <1>1, <2>1, <2>2, <2>3 DEF Called, Call
<1>4. ~PowerCut
  BY DEF PowerCut, Idle
<1> QED
  BY <1>2, <1>3, <1>4 DEF Next

LEMMA ConfigStep ==
    ASSUME Typed, ConfigInv, [Next]_vars
    PROVE  ConfigInv'
<1>1. CASE Next
  BY <1>1, CreatingStep, CrcsWholeStep, CacheWholeStep, OtherNameStep DEF ConfigInv
<1>2. CASE UNCHANGED vars
  BY <1>2 DEF vars, ConfigInv, CrcsWhole, CacheWhole, OtherName, Whole
<1> QED
  BY <1>1, <1>2

LEMMA ConfigInit == Init => ConfigInv
<1> SUFFICES ASSUME Init
             PROVE  ConfigInv
  OBVIOUS
<1>1. /\ env_cache.env = <<>> /\ task[Wlan].then = "none"
      /\ \A t \in Tasks : task[t].pc \in {"load", "idle"}
  BY TasksAre DEF Init, Idle
<1>2. CacheWhole
  BY <1>1, Blanks DEF CacheWhole, Whole
<1>3. Whole(Image(0, OldVerNum).crc[3])
  <2>1. Image(0, OldVerNum).crc[3] = WithDefaults(<<>>)
    BY Blanks DEF Image, calc_env_crc
  <2> QED
    BY <2>1, Blanks, Defaults, NamesAssumption DEF Whole
<1>4. CrcsWhole
  BY <1>1, <1>3 DEF Init, CrcsWhole
<1>5. OtherName
  BY <1>1, TasksAre DEF OtherName, Setting
<1> QED
  BY <1>1, <1>2, <1>4, <1>5 DEF ConfigInv

LEMMA ConfigAlways == Spec => []ConfigInv
<1>1. Init => ConfigInv
  BY ConfigInit
<1>2. Typed /\ ConfigInv /\ [Next]_vars => ConfigInv'
  BY ConfigStep
<1> QED
  BY <1>1, <1>2, TypedAlways, PTL DEF Spec

\* Length and contents of the WLAN configuration that a start reads back belong
\* together, whatever was cut or failed, unless another task saved or reset between the
\* two ef_set_env of write_cfg, one of the two found no room or the shell set one by hand.
THEOREM ReadsOneConfiguration == Spec => []ConfigWhole
<1>1. Typed /\ ConfigInv => ConfigWhole
  <2> SUFFICES ASSUME Typed, ConfigInv, ~mixed, Recovered # NULL
               PROVE  ValueOf(Recovered, LenKey) = ValueOf(Recovered, InfoKey)
    BY DEF ConfigWhole
  <2>1. Chosen # NULL /\ Recovered = flash[Chosen].env
    BY DEF Recovered
  <2>2. /\ Chosen \in Areas /\ flash[Chosen] # NULL
        /\ flash[Chosen].crc = calc_env_crc(flash[Chosen])
    BY <2>1 DEF Chosen, IsValid, Areas
  <2>3. flash[Chosen].crc[3] = flash[Chosen].env
    BY <2>2 DEF calc_env_crc
  <2> QED
    BY <2>1, <2>2, <2>3 DEF ConfigInv, CrcsWhole, Whole
<1> QED
  BY <1>1, TypedAlways, ConfigAlways, PTL
-----------------------------------------------------------------------------
(* A save that nobody disturbs *)

\* Task t is inside ef_save_env or between the two saves of ef_env_set_default.
Saver(t) == task[t].pc \in Flashing \/ task[t].again # "no"

Alone(t) == \A u \in Tasks : u # t => ~Saver(u)

\* The area before the one being written is a whole copy, saved once less.
Backup ==
    /\ Chosen = next_save_area
    /\ flash[next_save_area].count + 1 = env_cache.count

\* The header of the cache says that it is for this area, and the CRC is right.
Sealed ==
    /\ env_cache.end = cur_load_area
    /\ env_cache.crc = calc_env_crc(env_cache)

\* The current area holds the cache as it was last saved.
Kept == Chosen = cur_load_area /\ flash[cur_load_area].count = env_cache.count

\* The current area holds the cache as it is.
Copied == IsValid(cur_load_area) /\ flash[cur_load_area] = env_cache

\* ef_save_env once.
OneSave(r) ==
    /\ r.pc \in {"erase", "write"} => Sealed /\ Backup
    /\ r.pc = "write" => flash[cur_load_area] = NULL
    /\ r.pc = "clear" /\ r.ok => Copied /\ Chosen = cur_load_area

\* The first of the two saves of ef_env_set_default, which counts from 0.
FirstSave(r) ==
    /\ r.pc = "save" =>
         env_cache_changed /\ env_cache.count = 0 /\ Chosen \in {cur_load_area, NULL}
    /\ r.pc \in {"erase", "write"} =>
         Sealed /\ env_cache.count = 1 /\ Chosen \in {next_save_area, NULL}
    /\ r.pc = "write" => flash[cur_load_area] = NULL
    /\ r.pc = "clear" /\ r.ok => Copied /\ env_cache.count = 1
    /\ r.pc = "saved" => Copied /\ env_cache.count = 1

\* The second, into the other area.
SecondSave(r) ==
    /\ r.pc = "save" => env_cache_changed /\ Copied /\ env_cache.count = 1
    /\ r.pc \in {"erase", "write"} =>
         /\ Sealed /\ env_cache.count = 2
         /\ IsValid(next_save_area) /\ flash[next_save_area].env = env_cache.env
         /\ flash[next_save_area].count = 1
    /\ r.pc = "write" => flash[cur_load_area] = NULL
    /\ r.pc = "clear" /\ r.ok => Copied /\ Chosen = cur_load_area
    /\ r.pc = "saved" => Kept /\ flash[cur_load_area].env = env_cache.env

Saves(r) ==
    /\ r.pc \in Flashing => r.area = cur_load_area
    /\ r.again = "no" => OneSave(r)
    /\ r.again = "yes" => FirstSave(r)
    /\ r.again = "done" => SecondSave(r)

\* Between saves.
Rest == Kept /\ (~env_cache_changed => flash[cur_load_area].env = env_cache.env)

Undisturbed ==
    /\ \A t \in Tasks : Saver(t) => Saves(task[t]) /\ Alone(t)
    /\ \A t \in Tasks : task[t].pc = "saved" => task[t].ok
    /\ Loaded /\ (\A t \in Tasks : ~Saver(t)) => Rest

SaveInv ==
    /\ ~At(Wlan, "load") => next_save_area = 1 - cur_load_area
    /\ At(Wlan, "default") => Chosen = NULL
    /\ ~hurt => Undisturbed

\* Which area a start chooses.
ChosenFacts ==
    \A a, b \in Areas : a # b =>
        /\ Chosen \in {a, b, NULL}
        /\ Chosen = a => IsValid(a)
        /\ ~IsValid(a) => Chosen = IF IsValid(b) THEN b ELSE NULL
        /\ IsValid(a) /\ (IsValid(b) => flash[a].count > flash[b].count) => Chosen = a

LEMMA ChosenIs == FlashTyped => ChosenFacts
<1> SUFFICES ASSUME FlashTyped, NEW a \in Areas, NEW b \in Areas, a # b
             PROVE  /\ Chosen \in {a, b, NULL}
                    /\ Chosen = a => IsValid(a)
                    /\ ~IsValid(a) => Chosen = IF IsValid(b) THEN b ELSE NULL
                    /\ IsValid(a) /\ (IsValid(b) => flash[a].count > flash[b].count)
                             => Chosen = a
  BY DEF ChosenFacts
<1>1. \A x \in Areas : IsValid(x) => flash[x].count \in Nat
  BY ImageIs DEF FlashTyped, IsValid
<1>2. NULL # 0 /\ NULL # 1
  BY NullAssumption DEF Areas
<1>3. (a = 0 /\ b = 1) \/ (a = 1 /\ b = 0)
  BY DEF Areas
<1>4. 0 \in Areas /\ 1 \in Areas
  BY DEF Areas
<1> QED
  BY <1>1, <1>2, <1>3, <1>4 DEF Chosen

\* While a task is at work the environment is loaded.
LEMMA IsLoaded ==
    ASSUME Control, NEW t \in Tasks,
           \/ t = Shell /\ task[t].pc # "idle"
           \/ task[t].pc \notin {"idle", "load", "default"}
    PROVE  Loaded /\ task[Wlan].pc # "load"
<1>1. CASE t = Shell
  BY <1>1 DEF Control, Begins, Loaded, At
<1>2. CASE t = Wlan
  BY <1>2, NamesAssumption DEF Loaded, At
<1> QED
  BY <1>1, <1>2, TasksAre

\* A step of a task that does not save, beside one that may.
LEMMA Beside ==
    ASSUME Undisturbed, NEW t \in Tasks,
           \A u \in Tasks : u # t => task'[u] = task[u],
           flash' = flash, cur_load_area' = cur_load_area, next_save_area' = next_save_area,
           env_cache' = env_cache, env_cache_changed' = env_cache_changed,
           ~Saver(t), task'[t].pc \notin Flashing, task'[t].again = "no",
           task'[t].pc = "saved" => task'[t].ok,
           Loaded' => Loaded
    PROVE  Undisturbed'
<1>1. \A u \in Tasks : Saver(u)' <=> Saver(u)
  BY DEF Saver
<1>2. ASSUME NEW u \in Tasks, Saver(u)'
      PROVE  Saves(task[u])' /\ Alone(u)'
  <2>1. Saver(u) /\ u # t /\ task'[u] = task[u] /\ Saves(task[u]) /\ Alone(u)
    BY <1>1, <1>2 DEF Undisturbed
  <2>2. Saves(task[u])'
    BY <2>1 DEF Saves, OneSave, FirstSave, SecondSave, Sealed, Backup, Kept, Copied, IsValid,
       Chosen
  <2> QED
    BY <1>1, <2>1, <2>2 DEF Alone
<1>3. Rest' <=> Rest
  BY DEF Rest, Kept, IsValid, Chosen
<1>4. \A u \in Tasks : task'[u].pc = "saved" => task'[u].ok
  BY DEF Undisturbed
<1> QED
  BY <1>1, <1>2, <1>3, <1>4 DEF Undisturbed

\* After a step no task saves.
LEMMA Nobody ==
    ASSUME Undisturbed, NEW t \in Tasks, Alone(t),
           \A u \in Tasks : u # t => task'[u] = task[u],
           task'[t].pc \notin Flashing, task'[t].again = "no",
           task'[t].pc = "saved" => task'[t].ok,
           Loaded' => Rest'
    PROVE  Undisturbed'
<1>1. \A u \in Tasks : ~Saver(u)'
  BY DEF Saver, Alone
<1>2. \A u \in Tasks : task'[u].pc = "saved" => task'[u].ok
  BY DEF Undisturbed
<1> QED
  BY <1>1, <1>2 DEF Undisturbed

\* After a step task t alone saves.
LEMMA Somebody ==
    ASSUME Undisturbed, NEW t \in Tasks, Alone(t),
           \A u \in Tasks : u # t => task'[u] = task[u],
           Saver(t)', Saves(task[t])',
           task'[t].pc = "saved" => task'[t].ok
    PROVE  Undisturbed'
<1>1. Alone(t)' /\ \A u \in Tasks : u # t => ~Saver(u)'
  BY DEF Saver, Alone
<1>2. \A u \in Tasks : task'[u].pc = "saved" => task'[u].ok
  BY DEF Undisturbed
<1>3. \A u \in Tasks : Saver(u)' => Saves(task[u])' /\ Alone(u)'
  BY <1>1
<1> QED
  BY <1>1, <1>2, <1>3 DEF Undisturbed

LEMMA AloneIs == \A t \in Tasks : OtherSaves(t) <=> ~Alone(t)
  BY DEF OtherSaves, Alone, Saver, Flashing

\* The areas change places; the defaults are set at a start only when nothing is found.
LEMMA SwapStep ==
    ASSUME Typed, SaveInv, Next, task'[Wlan].pc # "load"
    PROVE  next_save_area' = 1 - cur_load_area'
<1> USE DEF At
<1>1. /\ Control /\ Wlan \in Tasks /\ cur_load_area \in Areas /\ next_save_area \in Areas
      /\ \A t \in Tasks : t = Wlan \/ t = Shell
      /\ task[Wlan].pc # "load" => next_save_area = 1 - cur_load_area
  BY TasksAre DEF Typed, SaveInv
<1>2. ASSUME areaVars' = areaVars, task[Wlan].pc # "load"
      PROVE  next_save_area' = 1 - cur_load_area'
  BY <1>1, <1>2 DEF areaVars
<1>3. ASSUME NEW t \in Tasks, Step(t)
      PROVE  next_save_area' = 1 - cur_load_area'
  <2>1. CASE t = Wlan /\ LoadArea
    BY <2>1 DEF LoadArea
  <2>2. CASE t = Wlan /\ LoadNone
    BY <2>2 DEF LoadNone
  <2>3. CASE ~(t = Wlan /\ (LoadArea \/ LoadNone))
    <3>1. task[Wlan].pc # "load"
      <4>1. CASE t = Wlan
        BY <1>1, <1>3, <2>3, <4>1, ActionsGo, OthersGo
        DEF Step, Save, Goes, SetRefused, Set, SetCreates
      <4>2. CASE t = Shell
        <5>1. task'[Wlan] = task[Wlan]
          BY <1>1, <1>3, <4>2, NamesAssumption, StepOthers
        <5> QED
          BY <5>1
      <4> QED
        BY <1>1, <4>1, <4>2
    <3>2. CASE SaveHead(t)
      <4>1. cur_load_area' = next_save_area /\ next_save_area' = cur_load_area
        BY <3>2 DEF SaveHead
      <4> QED
        BY <1>1, <3>1, <4>1 DEF Areas
    <3>3. CASE ~SaveHead(t)
      <4>1. AutoUpdate \/ SetDefault(t) => areaVars' = areaVars
        BY DEF AutoUpdate, SetDefault
      <4>2. SetRefused(t) \/ Set(t) => areaVars' = areaVars
        BY DEF SetRefused, Set
      <4>3. SetDeletes(t) \/ SetCreates(t) => areaVars' = areaVars
        BY DEF SetDeletes, SetCreates
      <4>4. Save(t) => areaVars' = areaVars
        BY <3>3 DEF Save, SaveUnchanged, Erase, EraseFails, Write, WriteFails, Clear,
           SaveAgain, SaveReturns
      <4>5. areaVars' = areaVars
        BY <1>3, <2>3, <4>1, <4>2, <4>3, <4>4 DEF Step
      <4> QED
        BY <1>2, <3>1, <4>5
    <3> QED
      BY <3>2, <3>3
  <2> QED
    BY <2>1, <2>2, <2>3
<1>4. CASE (\E v \in Values : write_cfg(v) \/ setenv(v)) \/ saveenv \/ resetenv
  <2>1. PICK t \in Tasks : Call(t) /\ ~Begins(task[Wlan])
    BY <1>1, <1>4, CallMoves
  <2>2. areaVars' = areaVars /\ task[Wlan].pc # "load"
    BY <2>1 DEF Call, Begins
  <2> QED
    BY <1>2, <2>2
<1>5. CASE PowerCut
  <2>1. task'[Wlan].pc = "load"
    BY <1>1, <1>5 DEF PowerCut, Idle
  <2> QED
    BY <2>1
<1> QED
  BY <1>3, <1>4, <1>5 DEF Next

LEMMA BlankStep ==
    ASSUME Typed, SaveInv, Next, task'[Wlan].pc = "default"
    PROVE  Chosen' = NULL
<1> USE DEF At
<1>1. /\ Control /\ Wlan \in Tasks /\ Shell \in Tasks /\ Wlan # Shell
      /\ \A t \in Tasks : t = Wlan \/ t = Shell
      /\ task[Wlan].pc = "default" => Begins(task[Wlan]) /\ task[Shell].pc = "idle"
  BY TasksAre, NamesAssumption DEF Typed, Control, Proper, Begins
<1>2. CASE LoadNone
  BY <1>2 DEF LoadNone, Chosen, IsValid
<1>3. ASSUME Step(Wlan)
      PROVE  LoadNone
  BY <1>1, <1>3, ActionsGo, OthersGo DEF Step, Save, Goes
<1>4. ASSUME Step(Shell)
      PROVE  FALSE
  <2>1. task'[Wlan] = task[Wlan] /\ task[Shell].pc # "idle"
    BY <1>1, <1>4, ActionsGo, OthersGo DEF Step, Save, Goes, SetRefused, Set, SetCreates
  <2> QED
    BY <1>1, <2>1
<1>5. ASSUME (\E v \in Values : write_cfg(v) \/ setenv(v)) \/ saveenv \/ resetenv
      PROVE  FALSE
  <2>1. PICK t \in Tasks : /\ ~Begins(task[Wlan]) /\ Moves(t)
                           /\ \E q : task' = [task EXCEPT ![t] = q] /\ Called(q)
    BY <1>1, <1>5, CallMoves
  <2>2. PICK q : task' = [task EXCEPT ![t] = q] /\ Called(q)
    BY <2>1
  <2>3. task'[t] = q /\ \A u \in Tasks : u # t => task'[u] = task[u]
    BY <1>1, <2>2, OneMoves
  <2>4. Control'
    BY <1>1, <2>1, MovesControl
  <2>5. Proper(Wlan, task'[Wlan])
    BY <1>1, <2>4 DEF Control
  <2>6. task'[Wlan].then = "load"
    BY <2>5 DEF Proper
  <2> QED
    BY <1>1, <2>1, <2>2, <2>3, <2>6 DEF Called
<1>6. ~PowerCut
  <2>1. PowerCut => task'[Wlan].pc = "load"
    BY <1>1 DEF PowerCut, Idle
  <2> QED
    BY <2>1
<1> QED
  BY <1>1, <1>2, <1>3, <1>4, <1>5, <1>6 DEF Next

\* What erasing and writing an area do to the choice.
LEMMA Erased ==
    ASSUME Typed, Typed', NEW a \in Areas, NEW b \in Areas, a # b,
           flash' = [flash EXCEPT ![a] = NULL]
    PROVE  /\ flash'[a] = NULL /\ flash'[b] = flash[b]
           /\ IsValid(b)' <=> IsValid(b)
           /\ Chosen' = IF IsValid(b) THEN b ELSE NULL
<1>1. flash = [x \in Areas |-> flash[x]]
  BY DEF Typed, FlashTyped
<1>2. flash'[a] = NULL /\ flash'[b] = flash[b]
  BY <1>1
<1>3. (IsValid(b)' <=> IsValid(b)) /\ ~IsValid(a)'
  BY <1>2 DEF IsValid
<1>4. ChosenFacts'
  BY ChosenIs, PTL DEF Typed
<1>5. Chosen' = IF IsValid(b)' THEN b ELSE NULL
  BY <1>3, <1>4 DEF ChosenFacts
<1> QED
  BY <1>2, <1>3, <1>5

LEMMA Written ==
    ASSUME Typed, Typed', NEW a \in Areas, NEW b \in Areas, a # b,
           flash' = [flash EXCEPT ![a] = env_cache],
           env_cache.end = a, env_cache.crc = calc_env_crc(env_cache)
    PROVE  /\ flash'[a] = env_cache /\ flash'[b] = flash[b]
           /\ IsValid(a)' /\ (IsValid(b)' <=> IsValid(b))
           /\ Chosen' \in {a, b}
           /\ (IsValid(b) => env_cache.count > flash[b].count) => Chosen' = a
<1>1. flash = [x \in Areas |-> flash[x]] /\ env_cache # NULL
  BY ImageIs DEF Typed, FlashTyped
<1>2. flash'[a] = env_cache /\ flash'[b] = flash[b]
  BY <1>1
<1>3. (IsValid(b)' <=> IsValid(b)) /\ IsValid(a)'
  BY <1>1, <1>2 DEF IsValid
<1>4. ChosenFacts'
  BY ChosenIs, PTL DEF Typed
<1>5. /\ Chosen' \in {a, b, NULL}
      /\ (IsValid(b)' => flash'[a].count > flash'[b].count) => Chosen' = a
      /\ ~IsValid(b)' => Chosen' = IF IsValid(a)' THEN a ELSE NULL
  BY <1>3, <1>4 DEF ChosenFacts
<1>6. Chosen' # NULL
  <2>1. IsValid(0)' \/ IsValid(1)'
    BY <1>3 DEF Areas
  <2>2. NULL # 0 /\ NULL # 1
    BY NullAssumption DEF Areas
  <2> QED
    BY <2>1, <2>2 DEF Chosen
<1> QED
  BY <1>2, <1>3, <1>5, <1>6

\* Each step of ef_save_env, as long as nothing disturbs it.
LEMMA SaveUndisturbed ==
    ASSUME Typed, Typed', SaveInv, NEW t \in Tasks, Save(t), ~hurt'
    PROVE  Undisturbed'
<1> DEFINE c == cur_load_area
           n == next_save_area
           r == task[t]
           q == task'[t]
<1> USE DEF At
<1>1. /\ Control /\ Control' /\ c \in Areas /\ n \in Areas
      /\ env_cache.count \in Nat /\ env_cache # NULL
      /\ DOMAIN env_cache = {"env", "end", "count", "crc", "ver"}
      /\ hurt \in BOOLEAN /\ r.ok \in BOOLEAN /\ r.again \in {"no", "yes", "done"}
      /\ \A a \in Areas : IsValid(a) => flash[a].count \in Nat
  <2>1. r.ok \in BOOLEAN /\ r.again \in {"no", "yes", "done"}
    BY DEF Typed, Control, Proper, TaskRecord
  <2>2. \A a \in Areas : IsValid(a) => flash[a].count \in Nat
    BY ImageIs DEF Typed, FlashTyped, IsValid
  <2> QED
    BY <2>1, <2>2, ImageIs DEF Typed, Flags
<1>2. /\ r.pc \in Saving /\ \A u \in Tasks : u # t => task'[u] = task[u]
  <2>1. r.pc \in Saving
    BY <1>1, ActionsGo, OthersGo DEF Save, Goes, Saving, Flashing
  <2> QED
    BY <1>1, <2>1, StepOthers DEF Step
<1>3. Loaded /\ n = 1 - c /\ c # n
  <2>1. Loaded /\ task[Wlan].pc # "load"
    BY <1>1, <1>2, IsLoaded DEF Saving, Flashing
  <2>2. n = 1 - c
    BY <2>1 DEF SaveInv
  <2> QED
    BY <1>1, <2>1, <2>2 DEF Areas
<1>4. ~hurt /\ Undisturbed
  <2>1. hurt => hurt'
    BY <1>1 DEF Save, SaveUnchanged, SaveHead, Erase, EraseFails, Write, WriteFails, Clear,
       SaveAgain, SaveReturns
  <2> QED
    BY <2>1 DEF SaveInv
<1>5. Saver(t) => Saves(r) /\ Alone(t)
  BY <1>4 DEF Undisturbed
<1>6. (\A u \in Tasks : ~Saver(u)) => Rest
  BY <1>3, <1>4 DEF Undisturbed
<1>7. r.pc = "saved" => r.ok
  BY <1>4 DEF Undisturbed
<1>8. ChosenFacts
  BY ChosenIs DEF Typed
<1>9. CASE SaveUnchanged(t)
  <2>1. Goes(t, "save", "saved", r.again, TRUE, r.area) /\ ~env_cache_changed
    BY <1>1, <1>9, ActionsGo DEF SaveUnchanged
  <2>2. /\ flash' = flash /\ cur_load_area' = c /\ next_save_area' = n
        /\ env_cache' = env_cache /\ env_cache_changed' = env_cache_changed
    BY <1>9 DEF SaveUnchanged, areaVars
  <2>3. ~Saver(t)
    BY <1>1, <1>5, <2>1 DEF Saver, Saves, FirstSave, SecondSave, Goes, Flashing
  <2>4. q.pc = "saved" /\ q.ok /\ q.again = "no" /\ Loaded
    BY <1>3, <2>1, <2>3 DEF Goes, Saver
  <2>5. q.pc \notin Flashing
    BY <2>4 DEF Flashing
  <2> QED
    BY <1>2, <1>4, <2>2, <2>3, <2>4, <2>5, Beside
<1>10. CASE SaveHead(t)
  <2> DEFINE d == [env_cache EXCEPT !.end = n, !.count = @ + 1]
  <2>1. /\ flash' = flash /\ cur_load_area' = n /\ next_save_area' = c
        /\ env_cache' = [d EXCEPT !.crc = calc_env_crc(d)] /\ env_cache_changed
        /\ env_cache_changed' = env_cache_changed
    BY <1>10 DEF SaveHead
  <2>2. /\ DOMAIN d = {"env", "end", "count", "crc", "ver"}
        /\ d.env = env_cache.env /\ d.end = n /\ d.count = env_cache.count + 1
    BY <1>1
  <2> HIDE DEF d
  <2>3. /\ env_cache'.env = env_cache.env /\ env_cache'.end = n
        /\ env_cache'.count = env_cache.count + 1
        /\ env_cache'.crc = calc_env_crc(env_cache')
    BY <2>1, <2>2 DEF calc_env_crc
  <2>4. Sealed'
    BY <2>1, <2>3 DEF Sealed, calc_env_crc
  <2>5. Goes(t, "save", "erase", r.again, r.ok, n)
    BY <1>1, <1>10, ActionsGo
  <2>6. r.pc = "save" /\ q.pc = "erase" /\ q.again = r.again /\ q.area = cur_load_area'
    BY <2>1, <2>5 DEF Goes
  <2>7. Alone(t)
    BY <1>4, <1>10, AloneIs DEF SaveHead
  <2>8. \A a \in Areas : IsValid(a)' <=> IsValid(a)
    BY <2>1 DEF IsValid
  <2>9. Chosen' = Chosen
    BY <2>1 DEF Chosen, IsValid
  <2>10. ASSUME r.again = "no"
         PROVE  Saves(task[t])'
    <3>1. Rest
      BY <1>6, <2>6, <2>7, <2>10 DEF Saver, Alone, Flashing
    <3>2. Backup'
      BY <2>1, <2>3, <2>9, <3>1 DEF Rest, Kept, Backup
    <3>3. OneSave(task[t])'
      BY <2>4, <2>6, <3>2 DEF OneSave
    <3> QED
      BY <2>6, <2>10, <3>3 DEF Saves
  <2>11. ASSUME r.again = "yes"
         PROVE  Saves(task[t])'
    <3>1. env_cache.count = 0 /\ Chosen \in {c, NULL}
      BY <1>5, <2>6, <2>11 DEF Saver, Saves, FirstSave
    <3>2. env_cache'.count = 1 /\ Chosen' \in {next_save_area', NULL}
      BY <2>1, <2>3, <2>9, <3>1
    <3>3. FirstSave(task[t])'
      BY <2>4, <2>6, <3>2 DEF FirstSave
    <3> QED
      BY <2>6, <2>11, <3>3 DEF Saves
  <2>12. ASSUME r.again = "done"
         PROVE  Saves(task[t])'
    <3>1. Copied /\ env_cache.count = 1
      BY <1>5, <2>6, <2>12 DEF Saver, Saves, SecondSave
    <3>2. /\ IsValid(next_save_area)'
          /\ flash'[next_save_area'].env = env_cache'.env
          /\ flash'[next_save_area'].count = 1 /\ env_cache'.count = 2
      BY <2>1, <2>3, <3>1 DEF Copied, IsValid
    <3>3. SecondSave(task[t])'
      BY <2>4, <2>6, <3>2 DEF SecondSave
    <3> QED
      BY <2>6, <2>12, <3>3 DEF Saves
  <2>13. Saves(task[t])'
    BY <1>1, <2>10, <2>11, <2>12
  <2>14. Saver(t)' /\ (task'[t].pc = "saved" => task'[t].ok)
    BY <2>6 DEF Saver, Flashing
  <2> QED
    BY <1>2, <1>4, <2>7, <2>13, <2>14, Somebody
<1>11. CASE Erase(t)
  <2>1. Goes(t, "erase", "write", r.again, r.ok, r.area)
    BY <1>1, <1>11, ActionsGo
  <2>2. /\ r.pc = "erase" /\ q.pc = "write" /\ q.again = r.again /\ q.area = r.area
    BY <2>1 DEF Goes
  <2>3. Saver(t) /\ r.area = c /\ Alone(t) /\ Saves(r)
    BY <1>5, <2>2 DEF Saver, Saves, Flashing
  <2>4. /\ flash' = [flash EXCEPT ![c] = NULL]
        /\ cur_load_area' = c /\ next_save_area' = n /\ env_cache' = env_cache
    BY <1>11, <2>3 DEF Erase, areaVars
  <2>5. /\ flash'[c] = NULL /\ flash'[n] = flash[n] /\ (IsValid(n)' <=> IsValid(n))
        /\ Chosen' = IF IsValid(n) THEN n ELSE NULL
    BY <1>1, <1>3, <2>4, Erased
  <2>6. Sealed' <=> Sealed
    BY <2>4 DEF Sealed, calc_env_crc
  <2>7. ASSUME r.again = "no"
        PROVE  Saves(task[t])'
    <3>1. Sealed /\ Backup
      BY <2>2, <2>3, <2>7 DEF Saves, OneSave
    <3>2. IsValid(n)
      BY <1>1, <1>3, <1>8, <3>1 DEF Backup, ChosenFacts
    <3>3. Backup' /\ flash'[cur_load_area'] = NULL
      BY <2>4, <2>5, <3>1, <3>2 DEF Backup
    <3>4. OneSave(task[t])'
      BY <2>2, <2>6, <3>1, <3>3 DEF OneSave
    <3> QED
      BY <2>2, <2>3, <2>4, <2>7, <3>4 DEF Saves
  <2>8. ASSUME r.again = "yes"
        PROVE  Saves(task[t])'
    <3>1. Sealed /\ env_cache.count = 1
      BY <2>2, <2>3, <2>8 DEF Saves, FirstSave
    <3>2. Chosen' \in {next_save_area', NULL} /\ flash'[cur_load_area'] = NULL
      BY <2>4, <2>5
    <3>3. FirstSave(task[t])'
      BY <2>2, <2>4, <2>6, <3>1, <3>2 DEF FirstSave
    <3> QED
      BY <2>2, <2>3, <2>4, <2>8, <3>3 DEF Saves
  <2>9. ASSUME r.again = "done"
        PROVE  Saves(task[t])'
    <3>1. /\ Sealed /\ env_cache.count = 2 /\ IsValid(n)
          /\ flash[n].env = env_cache.env /\ flash[n].count = 1
      BY <2>2, <2>3, <2>9 DEF Saves, SecondSave
    <3>2. /\ IsValid(next_save_area)' /\ flash'[next_save_area'].env = env_cache'.env
          /\ flash'[next_save_area'].count = 1 /\ flash'[cur_load_area'] = NULL
      BY <2>4, <2>5, <3>1 DEF IsValid
    <3>3. SecondSave(task[t])'
      BY <2>2, <2>4, <2>6, <3>1, <3>2 DEF SecondSave
    <3> QED
      BY <2>2, <2>3, <2>4, <2>9, <3>3 DEF Saves
  <2>10. Saves(task[t])'
    BY <1>1, <2>7, <2>8, <2>9
  <2>11. Saver(t)' /\ (task'[t].pc = "saved" => task'[t].ok)
    BY <2>2 DEF Saver, Flashing
  <2> QED
    BY <1>2, <1>4, <2>3, <2>10, <2>11, Somebody
<1>12. CASE Write(t)
  <2>1. Goes(t, "write", "clear", r.again, TRUE, r.area)
    BY <1>1, <1>12, ActionsGo
  <2>2. /\ r.pc = "write" /\ q.pc = "clear" /\ q.again = r.again /\ q.area = r.area
    BY <2>1 DEF Goes
  <2>3. Saver(t) /\ r.area = c /\ Alone(t) /\ Saves(r)
    BY <1>5, <2>2 DEF Saver, Saves, Flashing
  <2>4. /\ flash' = [flash EXCEPT ![c] = env_cache]
        /\ cur_load_area' = c /\ next_save_area' = n /\ env_cache' = env_cache
    BY <1>12, <2>3 DEF Write, areaVars
  <2>5. Sealed
    BY <1>1, <2>2, <2>3 DEF Saves, OneSave, FirstSave, SecondSave
  <2>6. /\ flash'[c] = env_cache /\ IsValid(c)'
        /\ (IsValid(n) => env_cache.count > flash[n].count) => Chosen' = c
    BY <1>1, <1>3, <2>4, <2>5, Written DEF Sealed
  <2>7. Copied'
    BY <2>4, <2>6 DEF Copied, IsValid
  <2>8. ASSUME r.again = "no"
        PROVE  Saves(task[t])'
    <3>1. Backup
      BY <2>2, <2>3, <2>8 DEF Saves, OneSave
    <3>2. Chosen' = cur_load_area'
      BY <1>1, <2>4, <2>6, <3>1 DEF Backup
    <3>3. OneSave(task[t])'
      BY <2>2, <2>7, <3>2 DEF OneSave
    <3> QED
      BY <2>2, <2>3, <2>4, <2>8, <3>3 DEF Saves
  <2>9. ASSUME r.again = "yes"
        PROVE  Saves(task[t])'
    <3>1. env_cache.count = 1
      BY <2>2, <2>3, <2>9 DEF Saves, FirstSave
    <3>2. FirstSave(task[t])'
      BY <2>2, <2>4, <2>7, <3>1 DEF FirstSave
    <3> QED
      BY <2>2, <2>3, <2>4, <2>9, <3>2 DEF Saves
  <2>10. ASSUME r.again = "done"
         PROVE  Saves(task[t])'
    <3>1. env_cache.count = 2 /\ flash[n].count = 1
      BY <2>2, <2>3, <2>10 DEF Saves, SecondSave
    <3>2. Chosen' = cur_load_area'
      BY <2>4, <2>6, <3>1
    <3>3. SecondSave(task[t])'
      BY <2>2, <2>7, <3>2 DEF SecondSave
    <3> QED
      BY <2>2, <2>3, <2>4, <2>10, <3>3 DEF Saves
  <2>11. Saves(task[t])'
    BY <1>1, <2>8, <2>9, <2>10
  <2>12. Saver(t)' /\ (task'[t].pc = "saved" => task'[t].ok)
    BY <2>2 DEF Saver, Flashing
  <2> QED
    BY <1>2, <1>4, <2>3, <2>11, <2>12, Somebody
<1>13. CASE WriteFails(t)
  <2>1. Goes(t, "write", "clear", r.again, FALSE, r.area)
    BY <1>1, <1>13, ActionsGo
  <2>2. r.pc = "write" /\ q.pc = "clear" /\ ~q.ok /\ q.area = r.area
    BY <2>1 DEF Goes
  <2>3. Saver(t) /\ r.area = c /\ Alone(t)
    BY <1>5, <2>2 DEF Saver, Saves, Flashing
  <2>4. cur_load_area' = c
    BY <1>13 DEF WriteFails, areaVars
  <2>5. OneSave(task[t])' /\ FirstSave(task[t])' /\ SecondSave(task[t])'
    BY <2>2 DEF OneSave, FirstSave, SecondSave
  <2>6. Saves(task[t])'
    BY <2>2, <2>3, <2>4, <2>5 DEF Saves
  <2>7. Saver(t)' /\ (task'[t].pc = "saved" => task'[t].ok)
    BY <2>2 DEF Saver, Flashing
  <2> QED
    BY <1>2, <1>4, <2>3, <2>6, <2>7, Somebody
<1>14. CASE Clear(t)
  <2>1. Goes(t, "clear", "saved", r.again, r.ok, r.area)
    BY <1>1, <1>14, ActionsGo
  <2>2. r.pc = "clear" /\ q.pc = "saved" /\ q.again = r.again /\ q.ok = r.ok
    BY <2>1 DEF Goes
  <2>3. Saver(t) /\ r.area = c /\ Alone(t) /\ Saves(r)
    BY <1>5, <2>2 DEF Saver, Saves, Flashing
  <2>4. /\ flash' = flash /\ cur_load_area' = c /\ next_save_area' = n
        /\ env_cache' = env_cache /\ r.ok
    BY <1>14 DEF Clear, Clean, areaVars
  <2>5. Copied
    BY <1>1, <2>2, <2>3, <2>4 DEF Saves, OneSave, FirstSave, SecondSave
  <2>6. Copied' /\ Chosen' = Chosen
    BY <2>4, <2>5 DEF Copied, Chosen, IsValid
  <2>7. Chosen = c => Kept' /\ Rest' /\ flash'[cur_load_area'].env = env_cache'.env
    BY <2>4, <2>5, <2>6 DEF Kept, Rest, Copied
  <2>8. CASE r.again = "no"
    <3>1. Rest'
      BY <2>2, <2>3, <2>4, <2>7, <2>8 DEF Saves, OneSave
    <3> QED
      BY <1>2, <1>4, <2>2, <2>3, <2>4, <2>8, <3>1, Nobody DEF Flashing
  <2>9. ASSUME r.again = "yes"
        PROVE  Saves(task[t])'
    <3>1. env_cache.count = 1
      BY <2>2, <2>3, <2>4, <2>9 DEF Saves, FirstSave
    <3>2. FirstSave(task[t])'
      BY <2>2, <2>4, <2>6, <3>1 DEF FirstSave
    <3> QED
      BY <2>2, <2>9, <3>2 DEF Saves, Flashing
  <2>10. ASSUME r.again = "done"
         PROVE  Saves(task[t])'
    <3>1. Chosen = c
      BY <2>2, <2>3, <2>4, <2>10 DEF Saves, SecondSave
    <3>2. SecondSave(task[t])'
      BY <2>2, <2>7, <3>1 DEF SecondSave
    <3> QED
      BY <2>2, <2>10, <3>2 DEF Saves, Flashing
  <2>11. CASE r.again # "no"
    <3>1. Saves(task[t])'
      BY <1>1, <2>9, <2>10, <2>11
    <3>2. Saver(t)' /\ task'[t].ok
      BY <2>2, <2>4, <2>11 DEF Saver
    <3> QED
      BY <1>2, <1>4, <2>3, <3>1, <3>2, Somebody
  <2> QED
    BY <2>8, <2>11
<1>15. CASE SaveAgain(t)
  <2>1. Goes(t, "saved", "save", "done", r.ok, r.area) /\ r.again = "yes"
    BY <1>1, <1>15, ActionsGo DEF SaveAgain
  <2>2. r.pc = "saved" /\ q.pc = "save" /\ q.again = "done"
    BY <2>1 DEF Goes
  <2>3. Saver(t) /\ Alone(t) /\ Saves(r)
    BY <1>5, <2>1 DEF Saver
  <2>4. /\ flash' = flash /\ cur_load_area' = c /\ env_cache' = env_cache /\ env_cache_changed'
    BY <1>15 DEF SaveAgain, areaVars
  <2>5. Copied /\ env_cache.count = 1
    BY <2>1, <2>2, <2>3 DEF Saves, FirstSave
  <2>6. Copied' /\ env_cache'.count = 1
    BY <2>4, <2>5 DEF Copied, IsValid
  <2>7. SecondSave(task[t])'
    BY <2>2, <2>4, <2>6 DEF SecondSave
  <2>8. Saves(task[t])'
    BY <2>2, <2>7 DEF Saves, Flashing
  <2>9. Saver(t)' /\ (task'[t].pc = "saved" => task'[t].ok)
    BY <2>2 DEF Saver
  <2> QED
    BY <1>2, <1>4, <2>3, <2>8, <2>9, Somebody
<1>16. CASE SaveReturns(t)
  <2>1. /\ r.pc = "saved" /\ q.again = "no" /\ q.pc \notin Flashing /\ q.pc # "saved"
    BY <1>1, <1>16, OthersGo DEF Flashing
  <2>2. /\ flash' = flash /\ cur_load_area' = c /\ next_save_area' = n
        /\ env_cache' = env_cache /\ env_cache_changed' = env_cache_changed
    BY <1>16 DEF SaveReturns, areaVars
  <2>3. r.again # "yes"
    BY <1>7, <1>16, <2>1 DEF SaveReturns
  <2>4. CASE r.again = "no"
    <3>1. ~Saver(t)
      BY <2>1, <2>4 DEF Saver, Flashing
    <3> QED
      BY <1>2, <1>3, <1>4, <2>1, <2>2, <3>1, Beside
  <2>5. CASE r.again = "done"
    <3>1. Alone(t) /\ Kept /\ flash[c].env = env_cache.env
      BY <1>5, <2>1, <2>5 DEF Saver, Saves, SecondSave
    <3>2. Rest'
      BY <2>2, <3>1 DEF Rest, Kept, Chosen, IsValid
    <3> QED
      BY <1>2, <1>4, <2>1, <3>1, <3>2, Nobody
  <2> QED
    BY <1>1, <2>3, <2>4, <2>5
<1>17. ~EraseFails(t)
  BY DEF EraseFails
<1> QED
  BY <1>9, <1>10, <1>11, <1>12, <1>13, <1>14, <1>15, <1>16, <1>17 DEF Save

\* The other steps of a task.
LEMMA StepUndisturbed ==
    ASSUME Typed, Typed', SaveInv, NEW t \in Tasks, Step(t), ~Save(t), ~hurt'
    PROVE  Undisturbed'
<1> DEFINE c == cur_load_area
           n == next_save_area
           r == task[t]
           q == task'[t]
<1> USE DEF At
<1>1. /\ Control /\ c \in Areas /\ n \in Areas /\ Wlan \in Tasks /\ Shell \in Tasks
      /\ \A u \in Tasks : u = Wlan \/ u = Shell
      /\ DOMAIN env_cache = {"env", "end", "count", "crc", "ver"}
      /\ hurt \in BOOLEAN
      /\ \A u \in Tasks : u # t => task'[u] = task[u]
      /\ Proper(t, r)
  BY TasksAre, ImageIs, StepOthers DEF Typed, Flags, Control
\* A start: nothing else runs.
<1>2. ASSUME t = Wlan, r.pc = "load", q.pc \notin Flashing, q.pc # "saved", q.again = "no",
             Loaded' => Rest'
      PROVE  Undisturbed'
  <2>1. task[Shell].pc = "idle" /\ task'[Shell] = task[Shell]
    BY <1>1, <1>2, NamesAssumption DEF Control, Begins
  <2>2. task[Shell].again = "no"
    BY <1>1, <2>1 DEF Control, Proper, TaskRecord, Saving, Flashing
  <2>3. \A u \in Tasks : ~Saver(u)' /\ task'[u].pc # "saved"
    BY <1>1, <1>2, <2>1, <2>2 DEF Saver, Flashing
  <2> QED
    BY <1>2, <2>3 DEF Undisturbed
<1>3. CASE t = Wlan /\ LoadArea
  <2>1. Goes(t, "load", "auto", r.again, r.ok, r.area)
    BY <1>1, <1>3, OthersGo
  <2>2. r.pc = "load" /\ q.pc = "auto" /\ q.again = "no"
    BY <1>1, <2>1 DEF Goes, Proper, TaskRecord, Saving, Flashing
  <2>3. cur_load_area' = Chosen /\ env_cache' = flash[Chosen] /\ flash' = flash
    BY <1>3 DEF LoadArea
  <2>4. Chosen' = Chosen
    BY <2>3 DEF Chosen, IsValid
  <2>5. Rest'
    BY <2>3, <2>4 DEF Rest, Kept
  <2> QED
    BY <1>2, <1>3, <2>2, <2>5 DEF Flashing
<1>4. CASE t = Wlan /\ LoadNone
  <2>1. r.pc = "load" /\ q.pc = "default" /\ q.then = "load" /\ q.again = "no"
    BY <1>1, <1>4, OthersGo
  <2>2. ~Loaded'
    BY <1>4, <2>1 DEF Loaded
  <2> QED
    BY <1>2, <1>4, <2>1, <2>2 DEF Flashing
<1>5. CASE ~(t = Wlan /\ (LoadArea \/ LoadNone))
\* Nothing has been disturbed before either, and t was not saving.
  <2>1. ~hurt
    <3>1. AutoUpdate \/ SetDefault(t) => (hurt => hurt')
      BY <1>1 DEF AutoUpdate, SetDefault
    <3>2. SetRefused(t) \/ Set(t) => (hurt => hurt')
      BY <1>1 DEF SetRefused, Set
    <3>3. SetDeletes(t) \/ SetCreates(t) => (hurt => hurt')
      BY <1>1 DEF SetDeletes, SetCreates
    <3> QED
      BY <1>5, <3>1, <3>2, <3>3 DEF Step
  <2>2. Undisturbed
    BY <2>1 DEF SaveInv
  <2>3. r.pc \in {"auto", "default", "set", "create"}
    BY <1>1, <1>5, ActionsGo, OthersGo DEF Step, Goes, AutoUpdate, SetDefault, SetRefused,
       Set, SetDeletes, SetCreates
  <2>4. r.again = "no" /\ ~Saver(t)
    BY <1>1, <2>3 DEF Proper, TaskRecord, Saving, Flashing, Saver
  <2>5. Alone(t) /\ Loaded => Rest
    BY <2>2, <2>4 DEF Undisturbed, Alone
  <2>6. CASE t = Wlan /\ AutoUpdate
    <3>1. r.pc = "auto" /\ q.pc = "save" /\ q.again = "no"
      BY <1>1, <2>6, OthersGo
    <3>2. Alone(t)
      <4>1. task[Shell].pc = "idle"
        BY <1>1, <2>6, <3>1 DEF Control, Begins
      <4>2. task[Shell].again = "no"
        BY <1>1, <4>1 DEF Control, Proper, TaskRecord, Saving, Flashing
      <4> QED
        BY <1>1, <2>6, <4>1, <4>2 DEF Alone, Saver, Flashing
    <3>3. Loaded
      BY <1>1, <3>1, IsLoaded
    <3>4. /\ flash' = flash /\ cur_load_area' = c /\ env_cache'.count = env_cache.count
          /\ ~env_cache_changed' => ~env_cache_changed /\ env_cache'.env = env_cache.env
      BY <1>1, <2>6 DEF AutoUpdate, areaVars
    <3>5. Chosen' = Chosen
      BY <3>4 DEF Chosen, IsValid
    <3>6. Rest'
      BY <2>5, <3>2, <3>3, <3>4, <3>5 DEF Rest, Kept
    <3> QED
      BY <1>1, <2>2, <3>1, <3>2, <3>6, Nobody DEF Flashing
  <2>7. CASE SetDefault(t)
    <3>1. Goes(t, "default", "save", "yes", r.ok, r.area) /\ Alone(t)
      BY <1>1, <2>1, <2>7, ActionsGo, AloneIs DEF SetDefault
    <3>2. r.pc = "default" /\ q.pc = "save" /\ q.again = "yes"
      BY <3>1 DEF Goes
    <3>3. Chosen \in {c, NULL}
      <4>1. CASE t = Wlan
        BY <3>2, <4>1 DEF SaveInv
      <4>2. CASE t = Shell
        <5>1. Loaded
          BY <1>1, <3>2, <4>2, IsLoaded
        <5> QED
          BY <2>5, <3>1, <5>1 DEF Rest, Kept
      <4> QED
        BY <1>1, <4>1, <4>2
    <3>4. /\ flash' = flash /\ cur_load_area' = c /\ env_cache'.count = 0
          /\ env_cache_changed'
      BY <1>1, <2>7 DEF SetDefault, areaVars
    <3>5. Chosen' \in {cur_load_area', NULL}
      BY <3>3, <3>4 DEF Chosen, IsValid
    <3>6. FirstSave(task[t])'
      BY <3>2, <3>4, <3>5 DEF FirstSave
    <3>7. Saves(task[t])' /\ Saver(t)' /\ (task'[t].pc = "saved" => task'[t].ok)
      BY <3>2, <3>6 DEF Saves, Saver, Flashing
    <3> QED
      BY <1>1, <2>2, <3>1, <3>7, Somebody
  <2>8. CASE SetRefused(t)
    <3>1. q.again = "no" /\ q.pc \in {"set", "save", "idle"}
      BY <1>1, <2>8, OthersGo
    <3>2. /\ flash' = flash /\ cur_load_area' = c /\ next_save_area' = n
          /\ env_cache' = env_cache /\ env_cache_changed' = env_cache_changed
      BY <2>8 DEF SetRefused, areaVars
    <3>3. r.pc = "set" /\ Loaded
      BY <1>1, <2>8, IsLoaded DEF SetRefused
    <3> QED
      BY <1>1, <2>2, <2>4, <3>1, <3>2, <3>3, Beside DEF Flashing
  <2>9. CASE Set(t) \/ SetDeletes(t) \/ SetCreates(t)
    <3>1. q.again = "no" /\ q.pc \in {"set", "save", "idle", "create"}
      BY <1>1, <2>4, <2>9, ActionsGo, OthersGo DEF Goes
    <3>2. Alone(t) /\ r.pc \in {"set", "create"}
      BY <2>1, <2>9, AloneIs DEF Set, SetDeletes, SetCreates
    <3>3. Rest
      BY <1>1, <2>5, <3>2, IsLoaded
    <3>4. /\ flash' = flash /\ cur_load_area' = c /\ env_cache'.count = env_cache.count
          /\ ~env_cache_changed' => ~env_cache_changed /\ env_cache'.env = env_cache.env
      <4>1. CASE Set(t)
        BY <1>1, <4>1 DEF Set, areaVars
      <4>2. CASE SetDeletes(t)
        BY <1>1, <4>2 DEF SetDeletes, areaVars
      <4>3. CASE SetCreates(t)
        BY <1>1, <4>3 DEF SetCreates, areaVars
      <4> QED
        BY <2>9, <4>1, <4>2, <4>3
    <3>5. Chosen' = Chosen
      BY <3>4 DEF Chosen, IsValid
    <3>6. Rest'
      BY <3>3, <3>4, <3>5 DEF Rest, Kept
    <3> QED
      BY <1>1, <2>2, <3>1, <3>2, <3>6, Nobody DEF Flashing
  <2> QED
    BY <1>5, <2>6, <2>7, <2>8, <2>9 DEF Step
<1> QED
  BY <1>3, <1>4, <1>5

LEMMA SaveInvStep ==
    ASSUME Typed, Typed', SaveInv, [Next]_vars
    PROVE  SaveInv'
<1> USE DEF At
<1>1. CASE Next
  <2>1. task'[Wlan].pc # "load" => next_save_area' = 1 - cur_load_area'
    BY <1>1, SwapStep
  <2>2. task'[Wlan].pc = "default" => Chosen' = NULL
    BY <1>1, BlankStep
  <2>3. ASSUME ~hurt', NEW t \in Tasks, Step(t)
        PROVE  Undisturbed'
    BY <2>3, SaveUndisturbed, StepUndisturbed
  <2>4. ASSUME ~hurt', (\E v \in Values : write_cfg(v) \/ setenv(v)) \/ saveenv \/ resetenv
        PROVE  Undisturbed'
    <3>1. PICK t \in Tasks : /\ Call(t) /\ task[t].pc = "idle" /\ ~Begins(task[Wlan])
                             /\ \E q : task' = [task EXCEPT ![t] = q] /\ Called(q)
      BY <2>4, CallMoves DEF Typed
    <3>2. PICK q : task' = [task EXCEPT ![t] = q] /\ Called(q)
      BY <3>1
    <3>3. task'[t] = q /\ \A u \in Tasks : u # t => task'[u] = task[u]
      BY <3>2, OneMoves DEF Typed
    <3>4. /\ flash' = flash /\ cur_load_area' = cur_load_area
          /\ next_save_area' = next_save_area /\ env_cache' = env_cache
          /\ env_cache_changed' = env_cache_changed /\ hurt' = hurt
      BY <3>1 DEF Call, areaVars
    <3>5. task[t].again = "no" /\ ~Saver(t)
      BY <3>1 DEF Typed, Control, Proper, TaskRecord, Saving, Flashing, Saver
    <3>6. Loaded
      BY <3>1 DEF Loaded, Begins
    <3>7. task'[t].pc \notin Flashing /\ task'[t].again = "no" /\ task'[t].pc # "saved"
      BY <3>2, <3>3 DEF Called, Flashing
    <3>8. Undisturbed
      BY <2>4, <3>4 DEF SaveInv
    <3> QED
      BY <3>3, <3>4, <3>5, <3>6, <3>7, <3>8, Beside
  <2>5. CASE PowerCut
    <3>1. \A u \in Tasks : task'[u] = IF u = Wlan THEN [Idle EXCEPT !.pc = "load"] ELSE Idle
      BY <2>5 DEF PowerCut
    <3>2. \A u \in Tasks : ~Saver(u)' /\ task'[u].pc # "saved"
      BY <3>1 DEF Saver, Idle, Flashing
    <3>3. ~Loaded'
      BY <3>1, TasksAre DEF Loaded, Idle
    <3>4. Undisturbed'
      BY <3>2, <3>3 DEF Undisturbed
    <3> QED
      BY <2>1, <2>2, <3>4 DEF SaveInv
  <2> QED
    BY <1>1, <2>1, <2>2, <2>3, <2>4, <2>5 DEF Next, SaveInv
<1>2. CASE UNCHANGED vars
  BY <1>2 DEF vars, areaVars, SaveInv, Undisturbed, Saver, Alone, Saves, OneSave, FirstSave,
     SecondSave, Sealed, Backup, Kept, Copied, Rest, Chosen, IsValid, Loaded
<1> QED
  BY <1>1, <1>2

LEMMA SaveInvInit == Init => SaveInv
<1> SUFFICES ASSUME Init
             PROVE  SaveInv
  OBVIOUS
<1>1. \A u \in Tasks : task[u] = IF u = Wlan THEN [Idle EXCEPT !.pc = "load"] ELSE Idle
  BY DEF Init
<1>2. \A u \in Tasks : ~Saver(u) /\ task[u].pc # "saved"
  BY <1>1 DEF Saver, Idle, Flashing
<1>3. task[Wlan].pc = "load" /\ ~Loaded
  BY <1>1, TasksAre DEF Loaded, Idle, At
<1> QED
  BY <1>2, <1>3 DEF SaveInv, Undisturbed, At

LEMMA SaveInvAlways == Spec => []SaveInv
<1>1. Init => SaveInv
  BY SaveInvInit
<1>2. Typed /\ Typed' /\ SaveInv /\ [Next]_vars => SaveInv'
  BY SaveInvStep
<1> QED
  BY <1>1, <1>2, TypedAlways, PTL DEF Spec

\* With nothing left to save the flash holds what the cache holds, unless a write failed
\* or was disturbed: env_cache_changed is reset all the same.
THEOREM NothingLeftToSave == Spec => []SavedIsCache
<1>1. Typed /\ SaveInv => SavedIsCache
  <2> SUFFICES ASSUME Typed, SaveInv, Quiet, ~env_cache_changed, ~hurt
               PROVE  Recovered = env_cache.env
    BY DEF SavedIsCache
  <2>1. \A t \in Tasks : ~Saver(t)
    BY DEF Quiet, At, Saver, Typed, Control, Proper, TaskRecord, Saving, Flashing
  <2>2. Loaded
    BY TasksAre DEF Quiet, At, Loaded
  <2>3. Rest
    BY <2>1, <2>2 DEF SaveInv, Undisturbed
  <2>4. Chosen = cur_load_area /\ cur_load_area # NULL
    BY <2>3, NullAssumption DEF Rest, Kept, Typed, Areas
  <2> QED
    BY <2>3, <2>4 DEF Recovered, Rest
<1> QED
  BY <1>1, TypedAlways, SaveInvAlways, PTL
-----------------------------------------------------------------------------
(* The store is a durable one *)

\* What a step is to the abstract store: the start, a change of the variables, the
\* write that a save consists of, or a power cut, which also stands for the steps of
\* a machine that has not started.
Starts == /\ ~Loaded /\ Loaded'
          /\ Recovered # NULL => env_cache'.env = Recovered
          /\ Recovered' = Recovered
Edits == Loaded /\ Loaded' /\ Recovered' = Recovered
Commits == /\ Loaded /\ Loaded' /\ env_cache'.env = env_cache.env
           /\ Recovered' = env_cache.env
Dies == /\ ~Loaded'
        /\ \/ Recovered' = Recovered
           \/ Loaded /\ Recovered' = env_cache.env

LEMMA SameFlash == flash' = flash => Recovered' = Recovered
  BY DEF Recovered, Chosen, IsValid

\* The area that is being written is not the one that is read back, unless the other
\* holds what the cache holds.
LEMMA SavingArea ==
    ASSUME Typed, SaveInv, ~hurt, NEW t \in Tasks, task[t].pc \in {"erase", "write"}
    PROVE  /\ Loaded /\ next_save_area \in Areas /\ cur_load_area # next_save_area
           /\ task[t].area = cur_load_area /\ cur_load_area \in Areas
           /\ Sealed
           /\ \/ task[t].again = "no" /\ Backup
              \/ task[t].again = "yes" /\ Chosen \in {next_save_area, NULL}
              \/ /\ task[t].again = "done" /\ env_cache.count = 2
                 /\ IsValid(next_save_area) /\ flash[next_save_area].env = env_cache.env
                 /\ flash[next_save_area].count = 1
<1>1. Loaded /\ task[Wlan].pc # "load"
  BY IsLoaded DEF Typed
<1>2. next_save_area = 1 - cur_load_area /\ cur_load_area \in Areas
  BY <1>1 DEF SaveInv, At, Typed
<1>3. Saver(t) /\ Saves(task[t])
  BY DEF SaveInv, Undisturbed, Saver, Flashing
<1>4. task[t].again \in {"no", "yes", "done"}
  BY DEF Typed, Control, Proper, TaskRecord
<1>5. next_save_area \in Areas /\ cur_load_area # next_save_area
  BY <1>2 DEF Areas
<1>6. task[t].area = cur_load_area
  BY <1>3 DEF Saves, Flashing
<1>7. /\ Sealed
      /\ \/ task[t].again = "no" /\ Backup
         \/ task[t].again = "yes" /\ Chosen \in {next_save_area, NULL}
         \/ /\ task[t].again = "done" /\ env_cache.count = 2
            /\ IsValid(next_save_area) /\ flash[next_save_area].env = env_cache.env
            /\ flash[next_save_area].count = 1
  BY <1>3, <1>4 DEF Saves, OneSave, FirstSave, SecondSave
<1> QED
  BY <1>1, <1>2, <1>5, <1>6, <1>7

\* An erase loses nothing.
LEMMA EraseKeeps ==
    ASSUME Typed, Typed', SaveInv, ~hurt, NEW t \in Tasks, task[t].pc = "erase",
           flash' = [flash EXCEPT ![task[t].area] = NULL]
    PROVE  Loaded /\ Recovered' \in {Recovered, env_cache.env}
<1> DEFINE c == cur_load_area
           n == next_save_area
<1>1. /\ Loaded /\ c \in Areas /\ n \in Areas /\ c # n /\ task[t].area = c
      /\ \/ Backup
         \/ Chosen \in {n, NULL}
         \/ IsValid(n) /\ flash[n].env = env_cache.env
  BY SavingArea
<1>2. /\ flash'[n] = flash[n] /\ Chosen' = IF IsValid(n) THEN n ELSE NULL
  BY <1>1, Erased
<1>3. NULL \notin Areas
  BY NullAssumption
<1>4. CASE Chosen \in {n, NULL}
  <2>1. Chosen = n => IsValid(n)
    BY <1>1, ChosenIs DEF Typed, ChosenFacts
  <2>2. Chosen = NULL => ~IsValid(n)
    BY <1>1, <1>3 DEF Chosen, Areas
  <2>3. Chosen' = Chosen
    BY <1>2, <1>4, <2>1, <2>2
  <2>4. Recovered' = Recovered
    BY <1>2, <1>4, <2>3 DEF Recovered
  <2> QED
    BY <1>1, <2>4
<1>5. CASE IsValid(n) /\ flash[n].env = env_cache.env
  <2>1. Chosen' = n /\ n # NULL
    BY <1>1, <1>2, <1>3, <1>5
  <2>2. Recovered' = env_cache.env
    BY <1>2, <1>5, <2>1 DEF Recovered
  <2> QED
    BY <1>1, <2>2
<1> QED
  BY <1>1, <1>4, <1>5 DEF Backup

\* A write puts what the cache holds in the place of what was read back before, or,
\* in the first of two saves, may leave that to the second.
LEMMA WriteSaves ==
    ASSUME Typed, Typed', SaveInv, ~hurt, NEW t \in Tasks, task[t].pc = "write",
           flash' = [flash EXCEPT ![task[t].area] = env_cache]
    PROVE  Loaded /\ Recovered' \in {Recovered, env_cache.env}
<1>1. PICK c \in Areas, n \in Areas :
          /\ Loaded /\ c # n /\ task[t].area = c
          /\ env_cache.end = c /\ env_cache.crc = calc_env_crc(env_cache)
          /\ \/ Chosen \in {n, NULL}
             \/ flash[n].env = env_cache.env
  BY SavingArea DEF Sealed, Backup
<1>2. /\ flash'[c] = env_cache /\ flash'[n] = flash[n] /\ Chosen' \in {c, n}
      /\ IsValid(n)' <=> IsValid(n)
  <2>1. flash' = [flash EXCEPT ![c] = env_cache]
    BY <1>1
  <2> QED
    BY <1>1, <2>1, Written
<1>3. NULL \notin Areas
  BY NullAssumption
<1>4. CASE Chosen' = c
  BY <1>1, <1>2, <1>3, <1>4 DEF Recovered
<1>5. CASE Chosen' = n
  <2>1. Recovered' = flash[n].env
    BY <1>1, <1>2, <1>3, <1>5 DEF Recovered
  <2>2. IsValid(n)
    <3>1. ChosenFacts'
      BY ChosenIs, PTL DEF Typed
    <3>2. IsValid(n)'
      BY <1>1, <1>5, <3>1 DEF ChosenFacts
    <3> QED
      BY <1>2, <3>2
  <2>3. CASE Chosen \in {n, NULL}
    <3>1. Chosen # NULL
      BY <1>1, <1>3, <2>2 DEF Chosen, Areas
    <3>2. Recovered = flash[n].env
      BY <1>1, <1>3, <2>3, <3>1 DEF Recovered
    <3> QED
      BY <1>1, <2>1, <3>2
  <2> QED
    BY <1>1, <2>1, <2>3
<1> QED
  BY <1>2, <1>4, <1>5

\* Only a start that finds nothing ends in LoadNone.
LEMMA StaysLoaded ==
    ASSUME Typed, NEW t \in Tasks, Step(t), ~(t = Wlan /\ LoadNone)
    PROVE  /\ t = Wlan \/ Loaded => Loaded'
           /\ Loaded \/ (t = Wlan /\ (LoadArea \/ SetDefault(t)))
<1>1. /\ Control /\ next_save_area \in Areas /\ Wlan # Shell
  BY NamesAssumption DEF Typed
<1>2. task'[t].pc \notin {"load", "default"}
  BY <1>1, ActionsGo, OthersGo DEF Step, Save, Goes
<1>3. CASE t = Wlan
  <2>1. Loaded'
    BY <1>2, <1>3 DEF Loaded, At
  <2>2. Loaded \/ LoadArea \/ SetDefault(t)
    <3>1. task[t].pc \in {"load", "default"} => LoadArea \/ SetDefault(t)
      BY <1>1, <1>3, ActionsGo, OthersGo DEF Step, Save, Goes, SetRefused, Set, SetCreates, At
    <3> QED
      BY <1>3, <3>1 DEF Loaded, At
  <2> QED
    BY <1>3, <2>1, <2>2
<1>4. CASE t = Shell
  <2>1. task'[Wlan] = task[Wlan]
    BY <1>1, <1>4, TasksAre, StepOthers
  <2>2. task[Shell].pc # "idle"
    BY <1>1, <1>4, ActionsGo, OthersGo DEF Step, Save, Goes, SetRefused, Set, SetCreates, At
  <2>3. Loaded
    BY <1>1, <1>4, <2>2, IsLoaded
  <2>4. Loaded'
    BY <2>1, <2>3 DEF Loaded, At
  <2> QED
    BY <2>3, <2>4
<1> QED
  BY <1>3, <1>4, TasksAre

LEMMA StepStores ==
    ASSUME Typed, Typed', SaveInv, NEW t \in Tasks, Step(t), ~hurt, ~hurt'
    PROVE  Starts \/ Edits \/ Commits \/ Dies
<1> USE DEF At
<1>1. Control /\ Wlan \in Tasks
  BY TasksAre DEF Typed
<1>2. CASE t = Wlan /\ LoadNone
  <2>1. task'[Wlan].pc = "default" /\ task'[Wlan].then = "load"
    BY <1>1, <1>2, OthersGo
  <2>2. flash' = flash
    BY <1>2 DEF LoadNone
  <2> QED
    BY <2>1, <2>2, SameFlash DEF Loaded, Dies
<1>3. CASE t = Wlan /\ LoadArea
  <2>1. ~Loaded /\ Loaded'
    BY <1>1, <1>3, ActionsGo, OthersGo, StaysLoaded DEF LoadArea, Loaded, LoadNone
  <2>2. flash' = flash /\ env_cache'.env = flash[Chosen].env
    BY <1>3 DEF LoadArea
  <2>3. Recovered # NULL => env_cache'.env = Recovered
    BY <2>2 DEF Recovered
  <2> QED
    BY <2>1, <2>2, <2>3, SameFlash DEF Starts
<1>4. ASSUME flash' = flash, ~(t = Wlan /\ (LoadNone \/ LoadArea))
      PROVE  Starts \/ Edits
  <2>1. CASE Loaded
    BY <1>4, <2>1, StaysLoaded, SameFlash DEF Edits
  <2>2. CASE ~Loaded
    <3>1. t = Wlan /\ SetDefault(t) /\ Loaded'
      BY <1>4, <2>2, StaysLoaded
    <3>2. Recovered = NULL
      BY <3>1 DEF SetDefault, SaveInv, Recovered
    <3> QED
      BY <1>4, <2>2, <3>1, <3>2, SameFlash DEF Starts
  <2> QED
    BY <2>1, <2>2
<1>5. CASE Erase(t)
  <2>1. task[t].pc = "erase" /\ flash' = [flash EXCEPT ![task[t].area] = NULL]
        /\ env_cache' = env_cache
    BY <1>5 DEF Erase
  <2>2. Loaded /\ Recovered' \in {Recovered, env_cache.env}
    BY <2>1, EraseKeeps
  <2>3. Loaded'
    BY <1>5, <2>2, StaysLoaded, ActionsGo DEF Typed, Erase, LoadNone
  <2> QED
    BY <2>1, <2>2, <2>3 DEF Edits, Commits
<1>6. CASE Write(t)
  <2>1. task[t].pc = "write" /\ flash' = [flash EXCEPT ![task[t].area] = env_cache]
        /\ env_cache' = env_cache
    BY <1>6 DEF Write
  <2>2. Loaded /\ Recovered' \in {Recovered, env_cache.env}
    BY <2>1, WriteSaves
  <2>3. Loaded'
    BY <1>6, <2>2, StaysLoaded DEF Write, LoadNone
  <2> QED
    BY <2>1, <2>2, <2>3 DEF Edits, Commits
<1>7. CASE ~Erase(t) /\ ~Write(t) /\ ~(t = Wlan /\ (LoadNone \/ LoadArea))
  <2>1. ~EraseFails(t)
    BY DEF EraseFails
  <2>2. Save(t) => flash' = flash
    BY <1>7, <2>1 DEF Save, SaveUnchanged, SaveHead, WriteFails, Clear, SaveAgain, SaveReturns
  <2>3. ~Save(t) => flash' = flash
    <3>1. AutoUpdate \/ SetDefault(t) => flash' = flash
      BY DEF AutoUpdate, SetDefault
    <3>2. SetRefused(t) \/ Set(t) => flash' = flash
      BY DEF SetRefused, Set
    <3>3. SetDeletes(t) \/ SetCreates(t) => flash' = flash
      BY DEF SetDeletes, SetCreates
    <3> QED
      BY <1>7, <3>1, <3>2, <3>3 DEF Step
  <2> QED
    BY <1>4, <1>7, <2>2, <2>3
<1> QED
  BY <1>2, <1>3, <1>5, <1>6, <1>7

LEMMA NextStores ==
    ASSUME Typed, Typed', SaveInv, Next, ~hurt, ~hurt'
    PROVE  Starts \/ Edits \/ Commits \/ Dies
<1>1. ASSUME NEW t \in Tasks, Step(t)
      PROVE  Starts \/ Edits \/ Commits \/ Dies
  BY <1>1, StepStores
<1>2. CASE (\E v \in Values : write_cfg(v) \/ setenv(v)) \/ saveenv \/ resetenv
  <2>1. PICK t \in Tasks : /\ Call(t) /\ ~Begins(task[Wlan])
                           /\ \E q : task' = [task EXCEPT ![t] = q] /\ Called(q)
    BY <1>2, CallMoves DEF Typed
  <2>2. PICK q : task' = [task EXCEPT ![t] = q] /\ Called(q)
    BY <2>1
  <2>3. flash' = flash
    BY <2>1 DEF Call
  <2>4. Loaded
    BY <2>1 DEF Loaded, Begins, At
  <2>5. task'[t] = q /\ \A u \in Tasks : u # t => task'[u] = task[u]
    BY <2>2, OneMoves DEF Typed
  <2>6. Loaded'
    BY <2>2, <2>4, <2>5, TasksAre DEF Loaded, Called, At
  <2> QED
    BY <2>3, <2>4, <2>6, SameFlash DEF Edits
<1>3. CASE PowerCut
  <2>1. ~Loaded'
    BY <1>3, TasksAre DEF PowerCut, Loaded, Idle, At
  <2>2. CASE flash' = flash
    BY <2>1, <2>2, SameFlash DEF Dies
  <2>3. CASE flash' # flash
    <3>1. PICK t \in Tasks : /\ task[t].pc = "erase"
                             /\ flash' = [flash EXCEPT ![task[t].area] = NULL]
      BY <1>3, <2>3 DEF PowerCut, At
    <3>2. Loaded /\ Recovered' \in {Recovered, env_cache.env}
      BY <3>1, EraseKeeps
    <3> QED
      BY <2>1, <3>2 DEF Dies
  <2> QED
    BY <2>2, <2>3
<1> QED
  BY <1>1, <1>2, <1>3 DEF Next

\* What is in the cache and what would be read back are contents of the store.
Holds == env_cache.env \in Entries /\ Recovered \in Entries \cup {NULL}

LEMMA StoreHolds ==
    ASSUME Typed
    PROVE  Holds /\ <<NULL>> \notin Entries /\ <<NULL>> # NULL
<1>1. env_cache.env \in Entries
  BY ImageIs DEF Typed
<1>2. ASSUME Chosen # NULL
      PROVE  flash[Chosen].env \in Entries
  <2>1. Chosen \in Areas /\ flash[Chosen] # NULL
    BY <1>2 DEF Chosen, IsValid, Areas
  <2> QED
    BY <2>1, ImageIs DEF Typed, FlashTyped
<1>3. <<NULL>> \notin Entries
  <2> SUFFICES ASSUME <<NULL>> \in Entries
               PROVE  FALSE
    OBVIOUS
  <2>1. <<NULL>> \in Seq(Entry)
    BY EntriesAre
  <2>2. <<NULL>>[1] \in Entry
    BY <2>1, ElementOfSeq
  <2> QED
    BY <2>2, NullAssumption
<1> QED
  BY <1>1, <1>2, <1>3, NullAssumption DEF Recovered, Holds

\* Each step is one of the abstract store, or a fault of which it promises nothing.
LEMMA StoreStep ==
    ASSUME Typed, Typed', SaveInv, [Next]_vars
    PROVE  [Store!Next]_(Store!vars)
<1>1. CASE Next /\ ~hurt /\ ~hurt'
  <2>1. /\ env_cache.env \in Entries /\ Recovered \in Entries \cup {NULL}
        /\ <<NULL>> \notin Entries /\ <<NULL>> # NULL
    BY StoreHolds DEF Holds
  <2>2. env_cache'.env \in Entries /\ Recovered' \in Entries \cup {NULL}
    <3>1. Holds'
      BY StoreHolds, PTL
    <3> QED
      BY <3>1 DEF Holds
  <2>3. (~hurt)' = ~hurt
    BY <1>1
  <2>4. Starts => Store!Load
    BY <2>1, <2>2, <2>3 DEF Starts, Store!Load
  <2>5. Edits => Store!Change
    BY <2>1, <2>2, <2>3 DEF Edits, Store!Change
  <2>6. Commits => Store!Save
    BY <2>1, <2>2, <2>3 DEF Commits, Store!Save
  <2>7. Dies => Store!Cut
    BY <2>1, <2>2, <2>3 DEF Dies, Store!Cut
  <2> QED
    BY <1>1, <2>4, <2>5, <2>6, <2>7, NextStores DEF Store!Next
<1>2. CASE hurt \/ hurt'
  BY <1>2 DEF Store!Next, Store!Damaged
<1>3. CASE UNCHANGED vars
  <2>1. (Loaded' <=> Loaded) /\ env_cache' = env_cache /\ flash' = flash /\ hurt' = hurt
    BY <1>3 DEF vars, Loaded, At
  <2>2. Recovered' = Recovered
    BY <2>1, SameFlash
  <2> QED
    BY <2>1, <2>2 DEF Store!vars
<1> QED
  BY <1>1, <1>2, <1>3

\* The area written last is a backup-safe copy of the cache: whenever the power goes, the
\* next start reads back what the cache held at the last save or at the one that was
\* running, as long as no erase or write failed and no call of the other task changed the
\* cache while a save was running.
THEOREM StoreIsDurable == Spec => Durable
<1>1. Init => Store!Init
  <2> SUFFICES ASSUME Init
               PROVE  Store!Init
    OBVIOUS
  <2>1. Typed
    BY TypedInit
  <2>2. Recovered \in Entries \cup {NULL}
    BY <2>1, StoreHolds DEF Holds
  <2>3. ~Loaded
    BY TasksAre DEF Init, Loaded, Idle, At
  <2> QED
    BY <2>2, <2>3 DEF Init, Store!Init
<1>2. Typed /\ Typed' /\ SaveInv /\ [Next]_vars => [Store!Next]_(Store!vars)
  BY StoreStep
<1> QED
  BY <1>1, <1>2, TypedAlways, SaveInvAlways, PTL DEF Spec, Durable, Store!Spec
=============================================================================
