----------------------------- MODULE EstmProof -----------------------------
(***************************************************************************)
(* Proofs about Estm for any threads, addresses and settings in which no   *)
(* elastic transaction is started inside another transaction.              *)
(***************************************************************************)
EXTENDS Estm, TLAPS, FiniteSetTheorems, SequenceTheorems

\* A nested start keeps the type of a transaction normal.
Flat == \A s \in Settings : \A t \in Threads : "EL" \notin s.clients[t].nested

-----------------------------------------------------------------------------
(* Types *)

Val == [Bytes -> Nat]
Pos == Nat \ {0}
FreeLock  == [owner : {"none"}, entry : {0}, version : Nat]
OwnedLock == [owner : Threads, entry : Pos, version : {0}]
Read      == [addr : Addresses, value : Val]
Cell      == [addr : Addresses \cup {NULL}, value : Val]
ReadEntry  == [version : Nat, lock : Stripes]
WriteEntry == [addr : Addresses, mask : SUBSET Bytes, lock : Nat, version : Nat, next : Nat,
               value : Val]

Descriptor ==
  [status : {"STOPPED", "ACTIVE"}, type : {"EL", "NL"}, start : Nat, end : Nat,
   r_set : Seq(ReadEntry), w_set : Seq(WriteEntry), size : Nat, reallocate : BOOLEAN,
   nesting : Nat, ro : BOOLEAN, can_extend : BOOLEAN, lastraddr : [1 .. 2 -> Cell],
   marker : 1 .. 2, starts : Nat, accesses : Nat]

Plain == {"out", "ready", "start", "overflow", "asleep", "awake", "window", "timestamp"}
Calls ==
  [pc : Plain]
  \cup [pc : {"rollback"}, i : Pos]
  \cup [pc : {"validate"}, for : {"commit"}, i : Pos, now : Nat]
  \cup [pc : {"validate"}, for : {"load"}, i : Pos, now : Nat, addr : Addresses, l : FreeLock,
        value : Val]
  \cup [pc : {"value"}, addr : Addresses, l : FreeLock]
  \cup [pc : {"check", "extend", "recheck"}, addr : Addresses, l : FreeLock, value : Val]
  \cup [pc : {"verLock", "verValue", "verCheck"}, addr : Addresses, i : 0 .. 2, l : FreeLock,
        value : Val, x : Cell, ts : Nat]
  \cup [pc : {"write", "cas"}, addr : Addresses, value : Val, mask : SUBSET Bytes, l : FreeLock,
        elastic : BOOLEAN]
  \cup [pc : {"writeBack", "release"}, i : Pos, v : Nat]

TypeOf(t) == tx[t] \in Descriptor /\ at[t] \in Calls /\ seen[t] \subseteq Read

Running == {t \in Threads : at[t].pc \notin {"out", "asleep", "awake"}}

Global ==
  /\ setting \in Settings /\ clock \in Nat /\ tx_overflow \in BOOLEAN
  /\ tx_count = Cardinality(Running)
  /\ locks \in [Stripes -> FreeLock \cup OwnedLock]
  /\ memory \in [Addresses -> Val] /\ base \in [Addresses -> Val]
  /\ tx \in [Threads -> Descriptor]
  /\ at = [t \in Threads |-> at[t]] /\ seen = [t \in Threads |-> seen[t]]
  /\ log = [v \in 1 .. clock |-> log[v]] /\ \A v \in 1 .. clock : log[v].reads \subseteq Read

-----------------------------------------------------------------------------
(* Locks and write sets *)

W(t) == tx[t].w_set
R(t) == tx[t].r_set
Covers(t, s) == \E i \in DOMAIN W(t) : W(t)[i].lock = s

\* t has its timestamp and is still validating, or writes back.
Pending(t)   == At(t, "validate") /\ at[t].for = "commit"
Committed(t) == at[t].pc \in {"writeBack", "release"}

\* The entries from here on still hold their locks.
From(t) == IF at[t].pc \in {"rollback", "writeBack", "release"} THEN at[t].i ELSE 1
Holds(t, i, s) == i \in DOMAIN W(t) /\ From(t) <= i /\ W(t)[i].lock = s
Unwritten(t, i) == i > at[t].i \/ (i = at[t].i /\ At(t, "writeBack"))

Writes(v, s) == \E a \in DOMAIN log[v].writes : Stripe[a] = s
NoneLater(s, k) == \A v \in DOMAIN log : v > k => ~Writes(v, s)

\* Nobody will write under s any more with a timestamp up to k.
Settled(s, k) == \A u \in Threads : Pending(u) /\ at[u].now <= k => ~Covers(u, s)
\* a has the value at k, whatever is still decided.
Fixed(a, value, k) == value = Snapshot(k)[a] /\ Settled(Stripe[a], k)
\* Nothing was written under s from a version to k.
Stable(version, s, k) ==
  /\ \A v \in DOMAIN log : version < v /\ v <= k => ~Writes(v, s)
  /\ Settled(s, k)

LockOf(s) ==
  IF IsOwned(locks[s])
  THEN LET t == locks[s].owner IN
       /\ locks[s].entry \in DOMAIN W(t) /\ W(t)[locks[s].entry].lock = s
       /\ \E i \in DOMAIN W(t) : Holds(t, i, s)
  ELSE locks[s].version <= clock /\ NoneLater(s, locks[s].version)

EntryOf(t, i) ==
  LET e == W(t)[i] IN
  /\ e.lock = Stripe[e.addr] /\ e.version <= clock
  /\ e.next = 0 <=> \A j \in DOMAIN W(t) : j > i => W(t)[j].lock # e.lock
  /\ \A j \in DOMAIN W(t) : j # i => W(t)[j].addr # e.addr
  /\ Pending(t) => e.version < at[t].now
  /\ Committed(t) => e.version < at[t].v
  /\ From(t) <= i =>
       /\ locks[e.lock].owner = t
       /\ NoneLater(e.lock, IF Committed(t) THEN at[t].v ELSE e.version)
  /\ Committed(t) /\ Unwritten(t, i) /\ e.mask # {} => Snapshot(clock)[e.addr] = e.value

MemoryOf(a) ==
  \/ memory[a] = Snapshot(clock)[a]
  \/ \E u \in Threads : Committed(u) /\
       \E i \in DOMAIN W(u) : Unwritten(u, i) /\ W(u)[i].addr = a /\ W(u)[i].mask # {}

LogOf(v) == \A r \in log[v].reads : Fixed(r.addr, r.value, v - 1)

-----------------------------------------------------------------------------
(* Threads *)

Idle(t) ==
  tx[t].status # "ACTIVE" \/ at[t].pc \in {"out", "start", "overflow", "asleep", "awake"}
Aborting(t) == At(t, "rollback")

IdleOf(t) ==
  /\ tx[t].status # "ACTIVE" => at[t].pc \in {"out", "ready"}
  /\ at[t].pc = "out" => tx[t].status # "ACTIVE"
  /\ Idle(t) => /\ W(t) = <<>> /\ R(t) = <<>> /\ seen[t] = {} /\ tx[t].lastraddr = NoWindow
                /\ tx[t].start = 0 /\ tx[t].end = 0

\* The value of an address is being loaded.
Carrying(t) ==
  \/ at[t].pc \in {"value", "check", "extend", "recheck", "verValue", "verCheck"}
  \/ At(t, "validate") /\ at[t].for = "load"
ValueKnown(t) == Carrying(t) /\ at[t].pc \notin {"value", "verValue"}

TimesOf(t) ==
  /\ tx[t].start <= clock /\ tx[t].end <= clock
  /\ Carrying(t) \/ At(t, "cas") => at[t].l.version <= clock
  /\ At(t, "validate") => at[t].now <= clock
  /\ Pending(t) => tx[t].end < at[t].now
  /\ At(t, "validate") /\ at[t].for = "load" => tx[t].end <= at[t].now /\ at[t].l.version <= at[t].now
  /\ At(t, "recheck") => at[t].l.version <= tx[t].end
  /\ at[t].pc \in {"verLock", "verValue", "verCheck"} => at[t].ts <= clock
  /\ Committed(t) => at[t].v <= clock /\ tx[t].end < at[t].v /\ at[t].i \in DOMAIN W(t)
  /\ At(t, "timestamp") \/ Pending(t) => W(t) # <<>>

PendingOf(t) ==
  Pending(t) =>
    /\ log[at[t].now] = NoCommit
    /\ \A u \in Threads \ {t} : Pending(u) => at[u].now # at[t].now

\* what has been validated
Goal(t) == IF at[t].for = "commit" THEN at[t].now - 1 ELSE at[t].now

ReadEntryOf(t, j) ==
  LET r == R(t)[j] IN
  /\ r.version <= tx[t].end /\ Stable(r.version, r.lock, tx[t].end)
  /\ \A i \in DOMAIN W(t) : W(t)[i].lock = r.lock => W(t)[i].version <= tx[t].end
  /\ At(t, "cas") /\ Stripe[at[t].addr] = r.lock => at[t].l.version <= tx[t].end
  /\ At(t, "validate") /\ j < at[t].i => Stable(r.version, r.lock, Goal(t))

ReadsOf(t) ==
  ~Aborting(t) =>
    /\ \A r \in seen[t] : Fixed(r.addr, r.value, tx[t].end)
    /\ tx[t].ro => W(t) = <<>> /\ at[t].pc \notin {"write", "cas", "extend", "validate"}
    /\ ~tx[t].ro => \A r \in seen[t] : \E j \in DOMAIN R(t) : R(t)[j].lock = Stripe[r.addr]
    /\ ~Committed(t) => \A j \in DOMAIN R(t) : ReadEntryOf(t, j)

Window(t, i) == tx[t].lastraddr[i]

WindowOf(t) ==
  ~Aborting(t) /\ tx[t].type = "EL" =>
    \A i \in 1 .. 2 : Window(t, i).addr # NULL =>
      Fixed(Window(t, i).addr, Window(t, i).value, tx[t].start)

VerOf(t) ==
  at[t].pc \in {"verLock", "verValue", "verCheck"} =>
    /\ tx[t].type = "EL"
    /\ at[t].i > 0 =>
         /\ at[t].ts >= tx[t].start /\ at[t].x.addr # NULL
         /\ Fixed(at[t].x.addr, at[t].x.value, at[t].ts)
         /\ at[t].addr = Window(t, at[t].i).addr
         /\ \A j \in 1 .. 2 : j < at[t].i /\ Window(t, j).addr # NULL =>
              Fixed(Window(t, j).addr, Window(t, j).value, at[t].ts)

FlightOf(t) ==
  Carrying(t) =>
    LET s == Stripe[at[t].addr]
        l == at[t].l
    IN  /\ ~IsOwned(locks[s]) => l.version <= locks[s].version
        /\ \A u \in Threads : \A i \in DOMAIN W(u) : Holds(u, i, s) =>
             /\ l.version <= W(u)[i].version
             /\ ValueKnown(t) /\ ~Committed(u) /\ l.version = W(u)[i].version =>
                  at[t].value = memory[at[t].addr]
        /\ ValueKnown(t) /\ locks[s] = l => at[t].value = memory[at[t].addr]

\* where only a normal transaction is
NormalSteps == {"value", "check", "extend", "recheck", "validate", "write", "cas"}

FlatOf(t) ==
  /\ tx[t].type = "EL" => W(t) = <<>> /\ seen[t] = {} /\ at[t].pc \notin NormalSteps
  /\ ~Aborting(t) /\ tx[t].end <= tx[t].start =>
       \A r \in seen[t] : Fixed(r.addr, r.value, tx[t].start)

ThreadOf(t) ==
  /\ TypeOf(t) /\ IdleOf(t) /\ TimesOf(t) /\ PendingOf(t) /\ ReadsOf(t) /\ WindowOf(t)
  /\ VerOf(t) /\ FlightOf(t) /\ FlatOf(t)
  /\ \A i \in DOMAIN W(t) : EntryOf(t, i)

\* The inductive invariant.
IInv ==
  /\ Global
  /\ \A s \in Stripes : LockOf(s)
  /\ \A a \in Addresses : MemoryOf(a)
  /\ \A v \in DOMAIN log : LogOf(v)
  /\ \A t \in Threads : ThreadOf(t)
-----------------------------------------------------------------------------
(* What the types say.                                                     *)

\* Every stripe is a number, every address has one.
LEMMA SettingIs ==
  ASSUME setting \in Settings
  PROVE  /\ Stripe \in [Addresses -> Nat] /\ Stripes \subseteq Nat
         /\ \A a \in Addresses : Stripe[a] \in Stripes
         /\ RW_SET_SIZE \in Nat \ {0} /\ VERSION_MAX \in Nat \ {0}
         /\ \A a \in Addresses : a \in Nat /\ a # NULL
<1>1. Setting(setting) /\ Addresses \subseteq Nat \ {0}
  BY EstmAssumption
<1>2. Stripe \in [Addresses -> Nat]
  BY <1>1 DEF Setting, Stripe
<1>3. RW_SET_SIZE \in Nat \ {0} /\ VERSION_MAX \in Nat \ {0}
  BY <1>1 DEF Setting, RW_SET_SIZE, VERSION_MAX
<1>4. QED
  BY <1>1, <1>2, <1>3 DEF Stripes, NULL

\* What a client may ask for.
LEMMA ClientIs ==
  ASSUME setting \in Settings, NEW t \in Threads
  PROVE  /\ Client(t).types \subseteq {"EL", "NL"} /\ Client(t).nested \subseteq {"EL", "NL"}
         /\ Client(t).ro \subseteq BOOLEAN /\ Client(t).byte \in Nat
         /\ Client(t).masks \subseteq SUBSET Bytes
<1>1. Setting(setting)
  BY EstmAssumption
<1>2. Client(t) \in [types : SUBSET {"EL", "NL"}, nested : SUBSET {"EL", "NL"},
                     ro : SUBSET BOOLEAN, byte : Nat, masks : SUBSET SUBSET Bytes,
                     aborts : BOOLEAN, ends : BOOLEAN, starts : Nat, accesses : Nat]
  BY <1>1 DEF Setting, Client
<1>3. QED
  BY <1>2

\* A lock is owned by a thread or free.
LEMMA LockIs ==
  ASSUME Global, NEW s \in Stripes
  PROVE  /\ IsOwned(locks[s]) => locks[s] \in OwnedLock /\ locks[s].owner \in Threads
         /\ ~IsOwned(locks[s]) => locks[s] \in FreeLock
<1>1. locks[s] \in FreeLock \cup OwnedLock
  BY DEF Global
<1>2. QED
  BY <1>1, EstmAssumption DEF FreeLock, OwnedLock, IsOwned

\* A free lock is its version.
LEMMA FreeIs ==
  /\ \A l \in FreeLock : l = Free(l.version) /\ ~IsOwned(l) /\ l.version \in Nat
  /\ \A v \in Nat : Free(v) \in FreeLock /\ Free(v).version = v /\ ~IsOwned(Free(v))
  /\ \A l, m \in FreeLock : l = m <=> l.version = m.version
  BY DEF FreeLock, Free, IsOwned

\* An owned lock names its owner and an entry.
LEMMA OwnedIs ==
  ASSUME NEW t \in Threads, NEW i \in Pos
  PROVE  Owned(t, i) \in OwnedLock /\ Owned(t, i).owner = t /\ Owned(t, i).entry = i
         /\ IsOwned(Owned(t, i))
  BY EstmAssumption DEF Owned, OwnedLock, IsOwned

\* Where a thread is says which locals it has.
LEMMA CallIs ==
  ASSUME NEW c \in Calls
  PROVE  /\ c.pc \in Plain \cup {"rollback", "validate", "value", "check", "extend", "recheck",
                   "verLock", "verValue", "verCheck", "write", "cas", "writeBack", "release"}
         /\ c.pc = "rollback" => c \in [pc : {"rollback"}, i : Pos]
         /\ c.pc = "validate" => c.for \in {"commit", "load"}
         /\ c.pc = "validate" /\ c.for = "commit" =>
              c \in [pc : {"validate"}, for : {"commit"}, i : Pos, now : Nat]
         /\ c.pc = "validate" /\ c.for = "load" =>
              c \in [pc : {"validate"}, for : {"load"}, i : Pos, now : Nat, addr : Addresses,
                     l : FreeLock, value : Val]
         /\ c.pc = "value" => c \in [pc : {"value"}, addr : Addresses, l : FreeLock]
         /\ c.pc \in {"check", "extend", "recheck"} =>
              c \in [pc : {"check", "extend", "recheck"}, addr : Addresses, l : FreeLock,
                     value : Val]
         /\ c.pc \in {"verLock", "verValue", "verCheck"} =>
              c \in [pc : {"verLock", "verValue", "verCheck"}, addr : Addresses, i : 0 .. 2,
                     l : FreeLock, value : Val, x : Cell, ts : Nat]
         /\ c.pc \in {"write", "cas"} =>
              c \in [pc : {"write", "cas"}, addr : Addresses, value : Val, mask : SUBSET Bytes,
                     l : FreeLock, elastic : BOOLEAN]
         /\ c.pc \in {"writeBack", "release"} =>
              c \in [pc : {"writeBack", "release"}, i : Pos, v : Nat]
<1>1. CASE c \in [pc : Plain]
  BY <1>1 DEF Plain
<1>2. CASE c \in [pc : {"rollback"}, i : Pos]
  BY <1>2
<1>3. CASE c \in [pc : {"validate"}, for : {"commit"}, i : Pos, now : Nat]
  BY <1>3
<1>4. CASE c \in [pc : {"validate"}, for : {"load"}, i : Pos, now : Nat, addr : Addresses,
                  l : FreeLock, value : Val]
  BY <1>4
<1>5. CASE c \in [pc : {"value"}, addr : Addresses, l : FreeLock]
  BY <1>5
<1>6. CASE c \in [pc : {"check", "extend", "recheck"}, addr : Addresses, l : FreeLock,
                  value : Val]
  BY <1>6
<1>7. CASE c \in [pc : {"verLock", "verValue", "verCheck"}, addr : Addresses, i : 0 .. 2,
                  l : FreeLock, value : Val, x : Cell, ts : Nat]
  BY <1>7
<1>8. CASE c \in [pc : {"write", "cas"}, addr : Addresses, value : Val, mask : SUBSET Bytes,
                  l : FreeLock, elastic : BOOLEAN]
  BY <1>8
<1>9. CASE c \in [pc : {"writeBack", "release"}, i : Pos, v : Nat]
  BY <1>9
<1>10. QED
  BY <1>1, <1>2, <1>3, <1>4, <1>5, <1>6, <1>7, <1>8, <1>9 DEF Calls

\* The fields of a transaction descriptor.
LEMMA DescriptorIs ==
  ASSUME NEW d \in Descriptor
  PROVE  /\ d.status \in {"STOPPED", "ACTIVE"} /\ d.type \in {"EL", "NL"} /\ d.start \in Nat
         /\ d.end \in Nat /\ d.r_set \in Seq(ReadEntry) /\ d.w_set \in Seq(WriteEntry)
         /\ d.ro \in BOOLEAN /\ d.can_extend \in BOOLEAN
         /\ d.lastraddr \in [1 .. 2 -> Cell] /\ d.marker \in 1 .. 2
         /\ \A i \in DOMAIN d.w_set :
              /\ i \in Pos /\ i <= Len(d.w_set) /\ d.w_set[i] \in WriteEntry
         /\ \A j \in DOMAIN d.r_set :
              /\ j \in Pos /\ j <= Len(d.r_set) /\ d.r_set[j] \in ReadEntry
<1>1. d.r_set \in Seq(ReadEntry) /\ d.w_set \in Seq(WriteEntry)
  BY DEF Descriptor
<1>2. /\ \A i \in DOMAIN d.w_set : /\ i \in Pos /\ i <= Len(d.w_set) /\ d.w_set[i] \in WriteEntry
      /\ \A j \in DOMAIN d.r_set : /\ j \in Pos /\ j <= Len(d.r_set) /\ d.r_set[j] \in ReadEntry
  BY <1>1 DEF Pos
<1>3. QED
  BY <1>1, <1>2 DEF Descriptor
-----------------------------------------------------------------------------
(* The memory at a timestamp.                                              *)

\* Every nonempty set of natural numbers up to a bound has a greatest element.
LEMMA Greatest ==
  ASSUME NEW n \in Nat, NEW T \in SUBSET (0 .. n), T # {}
  PROVE  \E x \in T : \A y \in T : y <= x
<1> DEFINE Less == OpToRel(<, Nat)
           U == {n - x : x \in T}
<1>1. IsWellFoundedOn(Less, Nat)
  BY NatLessThanWellFounded
<1>2. U \subseteq Nat /\ U # {}
  <2>1. \A x \in T : n - x \in Nat
    OBVIOUS
  <2>2. PICK x \in T : TRUE
    OBVIOUS
  <2>3. n - x \in U
    OBVIOUS
  <2>4. QED
    BY <2>1, <2>3
<1>3. PICK z \in U : \A y \in U : ~(<<y, z>> \in Less)
  <2> HIDE DEF Less, U
  <2> QED
    BY <1>1, <1>2, WFMin
<1>4. \A y \in U : z \in Nat /\ y \in Nat /\ ~(y < z)
  <2>1. \A y \in U : y \in Nat /\ z \in Nat
    BY <1>2
  <2>2. \A y \in U : y < z => <<y, z>> \in Less
    BY <2>1 DEF OpToRel
  <2> HIDE DEF Less, U
  <2>3. QED
    BY <1>3, <2>1, <2>2
<1>5. PICK x \in T : z = n - x
  BY <1>3
<1>6. \A y \in T : n - y \in U
  OBVIOUS
<1>7. \A y \in T : y <= x
  <2> HIDE DEF U
  <2> QED
    BY <1>4, <1>5, <1>6
<1>8. QED
  BY <1>7

WritersIn(lg, k, a) == {v \in 1 .. k \cap DOMAIN lg : a \in DOMAIN lg[v].writes}
ValueIn(b, lg, k, a) ==
  IF WritersIn(lg, k, a) = {} THEN b
  ELSE lg[CHOOSE v \in WritersIn(lg, k, a) : \A w \in WritersIn(lg, k, a) : w <= v].writes[a]

\* The memory at a timestamp, address by address, before and after a step.
LEMMA SnapshotIs ==
  ASSUME NEW k, NEW a \in Addresses
  PROVE  /\ Snapshot(k)[a] = ValueIn(base[a], log, k, a)
         /\ Snapshot(k)'[a] = ValueIn(base'[a], log', k, a)
  BY DEF Snapshot, ValueIn, WritersIn

\* The value of the last writer, or the value before all.
LEMMA ValueLast ==
  ASSUME NEW b, NEW lg, NEW k \in Nat, NEW a, NEW v \in WritersIn(lg, k, a),
         \A w \in WritersIn(lg, k, a) : w <= v
  PROVE  ValueIn(b, lg, k, a) = lg[v].writes[a]
<1> DEFINE S == WritersIn(lg, k, a)
           c == CHOOSE x \in S : \A w \in S : w <= x
<1>1. S \subseteq Nat
  BY DEF WritersIn
<1>2. c \in S /\ \A w \in S : w <= c
  OBVIOUS
<1>3. c <= v /\ v <= c /\ c \in Nat /\ v \in Nat
  BY <1>1, <1>2
<1>4. c = v
  <2> HIDE DEF c
  <2> QED
    BY <1>3
<1>5. QED
  BY <1>4 DEF ValueIn

\* Two histories with the same writers of an address give it the same value.
LEMMA ValueSame ==
  ASSUME NEW b, NEW lg, NEW lg2, NEW j \in Nat, NEW k \in Nat, NEW a,
         WritersIn(lg, j, a) = WritersIn(lg2, k, a),
         \A v \in WritersIn(lg, j, a) : lg[v].writes[a] = lg2[v].writes[a]
  PROVE  ValueIn(b, lg, j, a) = ValueIn(b, lg2, k, a)
<1> DEFINE S == WritersIn(lg, j, a)
<1>1. CASE S = {}
  BY <1>1 DEF ValueIn
<1>2. CASE S # {}
  <2>1. S \subseteq 0 .. j
    BY DEF WritersIn
  <2>2. PICK v \in S : \A w \in S : w <= v
    BY <1>2, <2>1, Greatest
  <2>3. ValueIn(b, lg, j, a) = lg[v].writes[a]
    BY <2>2, ValueLast
  <2>4. ValueIn(b, lg2, k, a) = lg2[v].writes[a]
    BY <2>2, ValueLast
  <2>5. QED
    BY <2>3, <2>4
<1>3. QED
  BY <1>1, <1>2

\* Without a write in between, an address has the same value at two timestamps.
LEMMA SnapshotSame ==
  ASSUME NEW j \in Nat, NEW k \in Nat, j <= k, NEW a \in Addresses,
         \A v \in DOMAIN log : j < v /\ v <= k => a \notin DOMAIN log[v].writes
  PROVE  Snapshot(j)[a] = Snapshot(k)[a]
<1>1. WritersIn(log, j, a) = WritersIn(log, k, a)
  BY DEF WritersIn
<1>2. ValueIn(base[a], log, j, a) = ValueIn(base[a], log, k, a)
  BY <1>1, ValueSame
<1>3. QED
  BY <1>2, SnapshotIs

-----------------------------------------------------------------------------
(* What a step leaves alone.                                               *)

SameThread(u) == tx'[u] = tx[u] /\ at'[u] = at[u] /\ seen'[u] = seen[u]
\* The step changes no thread but t.
Only(t) ==
  /\ tx' = [tx EXCEPT ![t] = tx'[t]] /\ at' = [at EXCEPT ![t] = at'[t]]
  /\ seen' = [seen EXCEPT ![t] = seen'[t]]

\* What is settled of the past stays as it is.
Past ==
  /\ setting' = setting /\ clock \in Nat /\ clock' \in Nat /\ clock <= clock'
  /\ \A s \in Stripes : \A k \in 0 .. clock : Settled(s, k) =>
       /\ Settled(s, k)'
       /\ \A v \in DOMAIN log' : v <= k /\ Writes(v, s)' => v \in DOMAIN log /\ Writes(v, s)
  /\ \A a \in Addresses : \A k \in 0 .. clock :
       Settled(Stripe[a], k) => Snapshot(k)'[a] = Snapshot(k)[a]

\* A read that was right at a timestamp stays right when the past is kept.
LEMMA PastStays ==
  ASSUME setting \in Settings, Past
  PROVE  /\ \A a \in Addresses : \A k \in 0 .. clock : \A value :
              Fixed(a, value, k) => Fixed(a, value, k)'
         /\ \A s \in Stripes : \A k \in 0 .. clock : \A version :
              Stable(version, s, k) => Stable(version, s, k)'
<1>1. ASSUME NEW a \in Addresses, NEW k \in 0 .. clock, NEW value, Fixed(a, value, k)
      PROVE  Fixed(a, value, k)'
  <2>1. Settled(Stripe[a], k) /\ value = Snapshot(k)[a] /\ Stripe[a] \in Stripes
    BY <1>1, SettingIs DEF Fixed
  <2>2. Snapshot(k)'[a] = Snapshot(k)[a] /\ Settled(Stripe[a], k)'
    <3>1. PICK s \in Stripes : s = Stripe[a]
      BY <2>1
    <3>2. Settled(s, k)' /\ s = Stripe'[a]
      BY <2>1, <3>1 DEF Past, Stripe
    <3>3. QED
      BY <2>1, <3>2 DEF Past
  <2>3. QED
    BY <2>1, <2>2 DEF Fixed
<1>2. ASSUME NEW s \in Stripes, NEW k \in 0 .. clock, NEW version, Stable(version, s, k)
      PROVE  Stable(version, s, k)'
  BY <1>2 DEF Stable, Past
<1>3. QED
  BY <1>1, <1>2

\* The locals of a thread.
LEMMA LocalsAre ==
  ASSUME NEW t \in Threads, TypeOf(t)
  PROVE  /\ tx[t].start \in Nat /\ tx[t].end \in Nat
         /\ At(t, "validate") => at[t].now \in Nat /\ at[t].i \in Pos
         /\ Carrying(t) =>
              /\ at[t].addr \in Addresses /\ at[t].l \in FreeLock /\ at[t].l.version \in Nat
              /\ ValueKnown(t) => at[t].value \in Val
         /\ At(t, "cas") => /\ at[t].addr \in Addresses /\ at[t].l \in FreeLock
                            /\ at[t].l.version \in Nat
         /\ at[t].pc \in {"verLock", "verValue", "verCheck"} =>
              /\ at[t].ts \in Nat /\ at[t].i \in 0 .. 2 /\ at[t].addr \in Addresses
              /\ at[t].x \in Cell /\ at[t].l \in FreeLock
         /\ At(t, "rollback") => at[t].i \in Pos
         /\ Committed(t) => at[t].i \in Pos /\ at[t].v \in Nat
         /\ \A i \in 1 .. 2 : /\ Window(t, i).addr \in Addresses \cup {NULL}
                               /\ Window(t, i).value \in Val
         /\ \A r \in seen[t] : r.addr \in Addresses /\ r.value \in Val
         /\ \A i \in DOMAIN W(t) :
              /\ i \in Pos /\ i <= Len(W(t)) /\ W(t)[i] \in WriteEntry
              /\ W(t)[i].addr \in Addresses /\ W(t)[i].lock \in Nat /\ W(t)[i].version \in Nat
              /\ W(t)[i].next \in Nat
         /\ \A j \in DOMAIN R(t) :
              /\ j \in Pos /\ j <= Len(R(t)) /\ R(t)[j] \in ReadEntry
              /\ R(t)[j].lock \in Stripes /\ R(t)[j].version \in Nat
<1>1. tx[t] \in Descriptor /\ at[t] \in Calls /\ seen[t] \subseteq Read
  BY DEF TypeOf
<1> DEFINE c == at[t]
           d == tx[t]
<1>2. /\ At(t, "validate") => c.now \in Nat /\ c.i \in Pos
      /\ At(t, "rollback") => c.i \in Pos
      /\ Committed(t) => c.i \in Pos /\ c.v \in Nat
  BY <1>1, CallIs DEF At, Committed
<1>3. Carrying(t) => /\ c.addr \in Addresses /\ c.l \in FreeLock
                     /\ ValueKnown(t) => c.value \in Val
  BY <1>1, CallIs DEF At, Carrying, ValueKnown
<1>4. /\ At(t, "cas") => c.addr \in Addresses /\ c.l \in FreeLock
      /\ c.pc \in {"verLock", "verValue", "verCheck"} =>
           /\ c.ts \in Nat /\ c.i \in 0 .. 2 /\ c.addr \in Addresses /\ c.x \in Cell
           /\ c.l \in FreeLock
  BY <1>1, CallIs DEF At
<1>5. /\ d.start \in Nat /\ d.end \in Nat
      /\ \A i \in 1 .. 2 : /\ Window(t, i).addr \in Addresses \cup {NULL}
                            /\ Window(t, i).value \in Val
  BY <1>1, DescriptorIs DEF Window, Cell
<1>6. /\ \A i \in DOMAIN W(t) : i \in Pos /\ i <= Len(W(t)) /\ W(t)[i] \in WriteEntry
      /\ \A j \in DOMAIN R(t) : j \in Pos /\ j <= Len(R(t)) /\ R(t)[j] \in ReadEntry
  BY <1>1, DescriptorIs DEF W, R
<1>7. /\ \A i \in DOMAIN W(t) : /\ W(t)[i].addr \in Addresses /\ W(t)[i].lock \in Nat
                                /\ W(t)[i].version \in Nat /\ W(t)[i].next \in Nat
      /\ \A j \in DOMAIN R(t) : R(t)[j].lock \in Stripes /\ R(t)[j].version \in Nat
  BY <1>6 DEF WriteEntry, ReadEntry
<1>8. \A r \in seen[t] : r.addr \in Addresses /\ r.value \in Val
  BY <1>1 DEF Read
<1>9. \A l \in FreeLock : l.version \in Nat
  BY DEF FreeLock
<1>10. QED
  BY <1>2, <1>3, <1>4, <1>5, <1>6, <1>7, <1>8, <1>9

\* A thread that the step does not touch.
LEMMA OtherThread ==
  ASSUME Global, Past, NEW u \in Threads, ThreadOf(u), SameThread(u), PendingOf(u)',
         \A i \in DOMAIN W(u) : EntryOf(u, i)', FlightOf(u)'
  PROVE  ThreadOf(u)'
<1> USE DEF SameThread
<1>1. /\ setting \in Settings /\ Stripe' = Stripe /\ Stripes' = Stripes
      /\ clock \in Nat /\ clock' \in Nat /\ clock <= clock'
  BY DEF Past, Stripe, Stripes, Global
<1>2. TypeOf(u) /\ TypeOf(u)'
  BY <1>1 DEF ThreadOf, TypeOf, Calls, Descriptor, ReadEntry
<1>3. IdleOf(u)'
  BY DEF ThreadOf, IdleOf, Idle, At, W, R, NoWindow, None, NULL
<1>4. TimesOf(u) /\ TypeOf(u) /\ ReadsOf(u) /\ WindowOf(u) /\ VerOf(u) /\ FlatOf(u)
  BY DEF ThreadOf
<1>5. TimesOf(u)'
  BY <1>1, <1>4, LocalsAre DEF TimesOf, At, Carrying, Pending, Committed, W
<1>6. /\ \A a \in Addresses : \A k \in 0 .. clock : \A value :
           Fixed(a, value, k) => Fixed(a, value, k)'
      /\ \A s \in Stripes : \A k \in 0 .. clock : \A version :
           Stable(version, s, k) => Stable(version, s, k)'
  BY <1>1, PastStays
<1>7. tx[u].start \in 0 .. clock /\ tx[u].end \in 0 .. clock
  BY <1>1, <1>4, LocalsAre DEF TimesOf
<1>8. \A j \in DOMAIN R(u) : ReadEntryOf(u, j) => ReadEntryOf(u, j)'
  <2> SUFFICES ASSUME NEW j \in DOMAIN R(u), ReadEntryOf(u, j)
               PROVE  ReadEntryOf(u, j)'
    OBVIOUS
  <2>1. R(u)[j].lock \in Stripes /\ Stable(R(u)[j].version, R(u)[j].lock, tx[u].end)'
    BY <1>4, <1>6, <1>7, LocalsAre DEF ReadEntryOf, R
  <2>2. ASSUME At(u, "validate") PROVE Goal(u) \in 0 .. clock
    BY <1>1, <1>4, <2>2, LocalsAre DEF TimesOf, Goal, Pending
  <2>3. At(u, "validate") /\ j < at[u].i => Stable(R(u)[j].version, R(u)[j].lock, Goal(u))'
    BY <1>6, <2>1, <2>2 DEF ReadEntryOf, R, Goal
  <2>4. QED
    BY <1>1, <2>1, <2>3 DEF ReadEntryOf, R, W, At
<1>9. ReadsOf(u)'
  <2>1. ~Aborting(u) => \A r \in seen[u] : Fixed(r.addr, r.value, tx[u].end)'
    BY <1>4, <1>6, <1>7, LocalsAre DEF ReadsOf
  <2>2. QED
    BY <1>1, <1>4, <1>8, <2>1 DEF ReadsOf, R, W, Aborting, At, Committed
<1>10. WindowOf(u)'
  BY <1>4, <1>6, <1>7, LocalsAre DEF WindowOf, Window, Aborting, At, NULL
<1>11. VerOf(u)'
  <2> SUFFICES ASSUME at[u].pc \in {"verLock", "verValue", "verCheck"} PROVE VerOf(u)'
    BY DEF VerOf
  <2>1. at[u].ts \in 0 .. clock
    BY <1>1, <1>4, LocalsAre DEF TimesOf
  <2>2. at[u].x.addr # NULL => at[u].x.addr \in Addresses
    BY <1>4, LocalsAre DEF Cell
  <2>3. \A j \in 1 .. 2 : Window(u, j).addr # NULL => Window(u, j).addr \in Addresses
    BY <1>4, LocalsAre
  <2>4. QED
    BY <1>4, <1>6, <2>1, <2>2, <2>3 DEF VerOf, Window, NULL
<1>12. FlatOf(u)'
  BY <1>4, <1>6, <1>7, LocalsAre DEF FlatOf, Aborting, At, W
<1>13. QED
  BY <1>2, <1>3, <1>5, <1>9, <1>10, <1>11, <1>12 DEF ThreadOf, W

\* An entry of a thread that the step does not touch.
LEMMA OtherEntry ==
  ASSUME Global, Past, NEW u \in Threads, TypeOf(u), SameThread(u), NEW i \in DOMAIN W(u),
         EntryOf(u, i),
         From(u) <= i =>
           /\ locks'[W(u)[i].lock].owner = u
           /\ \A v \in DOMAIN log' : Writes(v, W(u)[i].lock)' =>
                v \in DOMAIN log /\ Writes(v, W(u)[i].lock)
           /\ Committed(u) => Snapshot(clock)'[W(u)[i].addr] = Snapshot(clock)[W(u)[i].addr]
  PROVE  EntryOf(u, i)'
<1> DEFINE e == W(u)[i]
<1>1. /\ setting' = setting /\ Stripe' = Stripe /\ clock \in Nat /\ clock' \in Nat
      /\ clock <= clock' /\ tx'[u] = tx[u] /\ at'[u] = at[u] /\ W(u)' = W(u) /\ i \in Pos
  BY LocalsAre DEF Past, Stripe, SameThread, W
<1>2. e.version \in Nat /\ e.addr \in Addresses
  BY LocalsAre
<1>3. /\ e.lock = Stripe[e.addr] /\ e.version <= clock'
      /\ e.next = 0 <=> \A j \in DOMAIN W(u) : j > i => W(u)[j].lock # e.lock
      /\ \A j \in DOMAIN W(u) : j # i => W(u)[j].addr # e.addr
  BY <1>1, <1>2 DEF EntryOf
<1>4. /\ Pending(u)' => e.version < at[u].now
      /\ Committed(u)' => e.version < at[u].v
  BY <1>1 DEF EntryOf, Pending, Committed, At
<1>5. From(u)' = From(u) /\ Committed(u)' = Committed(u) /\ Unwritten(u, i)' = Unwritten(u, i)
  BY <1>1 DEF From, Committed, Unwritten, At
<1>6. ASSUME From(u) <= i, NEW k, NoneLater(e.lock, k) PROVE NoneLater(e.lock, k)'
  BY <1>1, <1>6 DEF NoneLater
<1>7. From(u) <= i =>
        /\ locks'[e.lock].owner = u
        /\ NoneLater(e.lock, IF Committed(u) THEN at[u].v ELSE e.version)'
  <2>1. PICK k : k = IF Committed(u) THEN at[u].v ELSE e.version
    OBVIOUS
  <2>2. From(u) <= i => NoneLater(e.lock, k)'
    BY <1>6, <2>1 DEF EntryOf
  <2>3. k = (IF Committed(u) THEN at[u].v ELSE e.version)'
    BY <1>1, <1>5, <2>1
  <2>4. QED
    BY <2>2, <2>3
<1>8. Unwritten(u, i) /\ Committed(u) => From(u) <= i
  BY <1>1, LocalsAre DEF Unwritten, From, Committed, At, Pos
<1>9. Committed(u)' /\ Unwritten(u, i)' /\ e.mask # {} => Snapshot(clock)'[e.addr] = e.value
  BY <1>5, <1>8 DEF EntryOf
<1>10. QED
  BY <1>1, <1>3, <1>4, <1>5, <1>7, <1>9 DEF EntryOf

\* The other threads keep their descriptors and calls.
LEMMA OthersSame ==
  ASSUME Global, NEW t \in Threads, Only(t)
  PROVE  \A u \in Threads \ {t} : SameThread(u)
  BY DEF Global, Only, SameThread

\* A step of t that touches nothing shared and no entry of its write set.
Quiet(t) ==
  /\ UNCHANGED <<setting, clock, locks, memory, base, log>>
  /\ Only(t)
  /\ tx'[t].w_set = W(t)
  /\ Pending(t)' => Pending(t) /\ at'[t].now = at[t].now
  /\ ~Committed(t) /\ ~Committed(t)' /\ From(t) = 1 /\ From(t)' = 1

\* A step without effect on locks, memory and history keeps what is said of the others.
LEMMA QuietStep ==
  ASSUME IInv, NEW t \in Threads, Quiet(t)
  PROVE  /\ Past /\ Stripes' = Stripes /\ Stripe' = Stripe /\ W(t)' = W(t)
         /\ \A s \in Stripes : LockOf(s)'
         /\ \A a \in Addresses : MemoryOf(a)'
         /\ \A v \in DOMAIN log : LogOf(v)'
         /\ \A u \in Threads \ {t} : ThreadOf(u)'
         /\ \A i \in DOMAIN W(t) : EntryOf(t, i)'
         /\ PendingOf(t)'
<1> DEFINE Others == Threads \ {t}
<1>1. /\ setting' = setting /\ clock' = clock /\ locks' = locks /\ memory' = memory
      /\ base' = base /\ log' = log /\ Stripes' = Stripes /\ Stripe' = Stripe
  BY DEF Quiet, Stripes, Stripe
<1>2. /\ Global /\ \A u \in Threads : ThreadOf(u) /\ TypeOf(u)
  BY DEF IInv, ThreadOf
<1>0. \A u \in Others : SameThread(u)
  BY <1>2, OthersSame DEF Quiet
<1>3. \A u \in Threads : W(u)' = W(u) /\ From(u)' = From(u) /\ Committed(u)' = Committed(u)
  BY <1>0 DEF Quiet, SameThread, W, From, Committed, At
<1>4. \A u \in Threads : Pending(u)' => Pending(u) /\ at'[u].now = at[u].now
  BY <1>0 DEF Quiet, SameThread, Pending, At
<1>5. \A u \in Threads : \A i \in DOMAIN W(u) : Committed(u) => Unwritten(u, i)' = Unwritten(u, i)
  BY <1>0 DEF Quiet, SameThread, Unwritten, At
<1>6. \A u \in Threads : \A s : Covers(u, s)' = Covers(u, s)
  BY <1>3 DEF Covers
<1>7. \A u \in Threads : \A i : \A s : Holds(u, i, s)' = Holds(u, i, s)
  BY <1>3 DEF Holds
<1>8. \A a \in Addresses : \A k : Snapshot(k)'[a] = Snapshot(k)[a]
  BY <1>1, SnapshotIs
<1>9. \A v : \A s : Writes(v, s)' = Writes(v, s)
  BY <1>1 DEF Writes
<1>10. \A s : \A k : NoneLater(s, k)' = NoneLater(s, k)
  BY <1>1, <1>9 DEF NoneLater
<1>11. Past
  <2>1. \A s \in Stripes : \A k \in 0 .. clock : Settled(s, k) => Settled(s, k)'
    BY <1>4, <1>6 DEF Settled
  <2>2. clock \in Nat
    BY <1>2 DEF Global
  <2>3. QED
    BY <1>1, <1>8, <1>9, <2>1, <2>2 DEF Past
<1>12. \A s \in Stripes : LockOf(s)'
  <2> SUFFICES ASSUME NEW s \in Stripes PROVE LockOf(s)'
    OBVIOUS
  <2>1. LockOf(s)
    BY DEF IInv
  <2>2. IsOwned(locks[s]) => locks[s].owner \in Threads
    BY <1>2, LockIs
  <2>3. QED
    BY <1>1, <1>3, <1>7, <1>10, <2>1, <2>2 DEF LockOf
<1>13. \A a \in Addresses : MemoryOf(a)'
  <2> SUFFICES ASSUME NEW a \in Addresses PROVE MemoryOf(a)'
    OBVIOUS
  <2>1. MemoryOf(a)
    BY DEF IInv
  <2>2. Snapshot(clock)'[a] = Snapshot(clock)[a]
    BY <1>1, <1>8
  <2>3. QED
    BY <1>1, <1>3, <1>5, <2>1, <2>2 DEF MemoryOf
<1>14. \A v \in DOMAIN log : LogOf(v)'
  <2> SUFFICES ASSUME NEW v \in DOMAIN log, NEW r \in log[v].reads
               PROVE  Fixed(r.addr, r.value, v - 1)'
    BY <1>1 DEF LogOf
  <2>1. Fixed(r.addr, r.value, v - 1)
    BY DEF IInv, LogOf
  <2>2. r.addr \in Addresses /\ v - 1 \in 0 .. clock
    BY <1>2 DEF Global, Read
  <2>3. QED
    BY <1>2, <1>11, <2>1, <2>2, PastStays DEF Global
<1>15. \A u \in Others : \A i \in DOMAIN W(u) : EntryOf(u, i)'
  <2> SUFFICES ASSUME NEW u \in Others, NEW i \in DOMAIN W(u) PROVE EntryOf(u, i)'
    OBVIOUS
  <2>1. EntryOf(u, i) /\ W(u)[i].addr \in Addresses
    BY <1>2, LocalsAre DEF ThreadOf
  <2>2. Snapshot(clock)'[W(u)[i].addr] = Snapshot(clock)[W(u)[i].addr]
    BY <1>1, <1>8, <2>1
  <2>3. From(u) <= i => locks'[W(u)[i].lock].owner = u
    BY <1>1, <2>1 DEF EntryOf
  <2>4. \A v \in DOMAIN log' : Writes(v, W(u)[i].lock)' =>
          v \in DOMAIN log /\ Writes(v, W(u)[i].lock)
    BY <1>1, <1>3, <1>9
  <2>5. QED
    BY <1>0, <1>2, <1>11, <2>1, <2>2, <2>3, <2>4, OtherEntry
<1>16. \A u \in Others : PendingOf(u)'
  <2> SUFFICES ASSUME NEW u \in Others, Pending(u)' PROVE PendingOf(u)'
    BY DEF PendingOf
  <2>1. PendingOf(u) /\ Pending(u) /\ at'[u].now = at[u].now
    BY <1>2, <1>4 DEF ThreadOf
  <2>2. log'[at'[u].now] = NoCommit
    BY <1>1, <2>1 DEF PendingOf
  <2>3. \A x \in Threads \ {u} : Pending(x)' => at'[x].now # at'[u].now
    BY <1>4, <2>1 DEF PendingOf
  <2>4. QED
    BY <2>2, <2>3 DEF PendingOf, NoCommit
<1>17. \A u \in Others : FlightOf(u)'
  <2> SUFFICES ASSUME NEW u \in Others PROVE FlightOf(u)'
    OBVIOUS
  <2>1. FlightOf(u) /\ at'[u] = at[u]
    BY <1>0, <1>2 DEF ThreadOf, SameThread
  <2>2. QED
    BY <1>1, <1>3, <1>7, <2>1 DEF FlightOf, Carrying, ValueKnown, At
<1>18. \A u \in Others : ThreadOf(u)'
  <2> SUFFICES ASSUME NEW u \in Others PROVE ThreadOf(u)'
    OBVIOUS
  <2>1. ThreadOf(u) /\ SameThread(u)
    BY <1>0, <1>2
  <2>2. QED
    BY <1>2, <1>11, <1>15, <1>16, <1>17, <2>1, OtherThread
<1>19. \A i \in DOMAIN W(t) : EntryOf(t, i)'
  <2> SUFFICES ASSUME NEW i \in DOMAIN W(t) PROVE EntryOf(t, i)'
    OBVIOUS
  <2>1. EntryOf(t, i) /\ W(t)[i].addr \in Addresses
    BY <1>2, LocalsAre DEF ThreadOf
  <2>2. \A k : NoneLater(W(t)[i].lock, k)' = NoneLater(W(t)[i].lock, k)
    BY <1>10, <1>3
  <2>3. ~Committed(t) /\ ~Committed(t)' /\ Pending(t)' => Pending(t) /\ at'[t].now = at[t].now
    BY DEF Quiet
  <2>4. QED
    BY <1>1, <1>3, <1>4, <2>1, <2>2, <2>3 DEF EntryOf, Quiet
<1>20. PendingOf(t)'
  <2> SUFFICES ASSUME Pending(t)' PROVE PendingOf(t)'
    BY DEF PendingOf
  <2>1. PendingOf(t) /\ Pending(t) /\ at'[t].now = at[t].now
    BY <1>2, <1>4 DEF ThreadOf
  <2>2. log'[at'[t].now] = NoCommit
    BY <1>1, <2>1 DEF PendingOf
  <2>3. \A x \in Threads \ {t} : Pending(x)' => at'[x].now # at'[t].now
    BY <1>4, <2>1 DEF PendingOf
  <2>4. QED
    BY <2>2, <2>3 DEF PendingOf, NoCommit
<1>21. QED
  BY <1>1, <1>3, <1>11, <1>12, <1>13, <1>14, <1>18, <1>19, <1>20

\* So that only the thread that moves is left to look at.
LEMMA QuietDone ==
  ASSUME IInv, NEW t \in Threads, Quiet(t), tx_overflow' \in BOOLEAN,
         tx_count' = Cardinality(Running'),
         TypeOf(t)', IdleOf(t)', TimesOf(t)', ReadsOf(t)', WindowOf(t)', VerOf(t)',
         FlightOf(t)', FlatOf(t)'
  PROVE  IInv'
<1>1. /\ Past /\ Stripes' = Stripes /\ Stripe' = Stripe /\ W(t)' = W(t)
      /\ \A s \in Stripes : LockOf(s)'
      /\ \A a \in Addresses : MemoryOf(a)'
      /\ \A v \in DOMAIN log : LogOf(v)'
      /\ \A u \in Threads \ {t} : ThreadOf(u)'
      /\ \A i \in DOMAIN W(t) : EntryOf(t, i)'
      /\ PendingOf(t)'
  BY QuietStep
<1>2. Global /\ log' = log
  BY DEF IInv, Quiet
<1>3. Global'
  <2>1. tx' \in [Threads -> Descriptor]'
    BY <1>1, <1>2, ZenonT(60) DEF Global, Quiet, Only, TypeOf, Descriptor, ReadEntry
  <2>2. /\ at' = [u \in Threads |-> at'[u]] /\ seen' = [u \in Threads |-> seen'[u]]
    BY <1>2 DEF Global, Quiet, Only
  <2>3. QED
    BY <1>1, <1>2, <2>1, <2>2 DEF Global, Quiet
<1>4. ThreadOf(t)'
  BY <1>1 DEF ThreadOf
<1>5. QED
  BY <1>1, <1>2, <1>3, <1>4 DEF IInv

\* A thread without a transaction, or before its first access.
LEMMA IdleThread ==
  ASSUME NEW t \in Threads, clock' \in Nat, TypeOf(t)', IdleOf(t)', Idle(t)'
  PROVE  ThreadOf(t)'
<1>1. /\ W(t)' = <<>> /\ R(t)' = <<>> /\ seen'[t] = {} /\ tx'[t].lastraddr = NoWindow'
      /\ tx'[t].start = 0 /\ tx'[t].end = 0
  BY DEF IdleOf
<1>2. at'[t].pc \in {"out", "ready", "start", "overflow", "asleep", "awake"}
  BY DEF IdleOf, Idle
<1>3. TimesOf(t)' /\ PendingOf(t)'
  BY <1>1, <1>2 DEF TimesOf, PendingOf, Pending, Carrying, Committed, At
<1>4. WindowOf(t)' /\ VerOf(t)' /\ FlightOf(t)' /\ FlatOf(t)'
  <2>1. \A i \in 1 .. 2 : Window(t, i)'.addr = NULL
    BY <1>1 DEF Window, NoWindow, None, ELASTICITY
  <2>2. QED
    BY <1>1, <1>2, <2>1 DEF WindowOf, VerOf, FlightOf, FlatOf, Carrying, At, NormalSteps
<1>5. ReadsOf(t)'
  BY <1>1, <1>2 DEF ReadsOf
<1>6. \A i \in DOMAIN W(t)' : FALSE
  BY <1>1
<1>7. QED
  BY <1>3, <1>4, <1>5, <1>6 DEF ThreadOf

\* A descriptor that is reset, or whose transaction has ended, is empty.
LEMMA ResetIs ==
  ASSUME setting \in Settings
  PROVE  /\ Reset \in Descriptor /\ Reset.w_set = <<>> /\ Reset.r_set = <<>>
         /\ Reset.lastraddr = NoWindow /\ Reset.start = 0 /\ Reset.end = 0
         /\ Reset.status = "STOPPED" /\ Reset.type = "NL"
         /\ \A t \in Threads : tx[t] \in Descriptor =>
              /\ Ended(t) \in Descriptor /\ Ended(t).w_set = <<>> /\ Ended(t).r_set = <<>>
              /\ Ended(t).lastraddr = NoWindow /\ Ended(t).start = 0 /\ Ended(t).end = 0
              /\ Ended(t).status = "STOPPED" /\ Ended(t).type = "NL"
<1>1. Zero \in Val
  BY DEF Zero, Word, Val
<1>2. NoWindow \in [1 .. 2 -> Cell]
  BY <1>1 DEF NoWindow, None, NULL, Cell, ELASTICITY
<1>3. RW_SET_SIZE \in Nat
  BY SettingIs
<1>4. Reset \in Descriptor
  BY <1>2, <1>3 DEF Reset, Descriptor
<1>5. \A t \in Threads : tx[t] \in Descriptor => Ended(t) \in Descriptor
  BY <1>4 DEF Ended, Descriptor
<1>6. QED
  BY <1>4, <1>5 DEF Reset, Ended

-----------------------------------------------------------------------------
(* Steps that leave everything shared as it is.                            *)

Away == {"out", "asleep", "awake"}

\* tx_count follows a thread that comes, goes or stays.
LEMMA CountIs ==
  ASSUME Global, NEW t \in Threads, at' = [at EXCEPT ![t] = at'[t]]
  PROVE  /\ IsFiniteSet(Running) /\ tx_count \in Nat
         /\ (at[t].pc \in Away <=> at'[t].pc \in Away) => Cardinality(Running') = tx_count
         /\ at[t].pc \in Away /\ at'[t].pc \notin Away => Cardinality(Running') = tx_count + 1
         /\ at[t].pc \notin Away /\ at'[t].pc \in Away => Cardinality(Running') = tx_count - 1
<1>1. IsFiniteSet(Running) /\ tx_count = Cardinality(Running)
  BY EstmAssumption, FS_Subset DEF Global, Running
<1>2. tx_count \in Nat
  BY <1>1, FS_CardinalityType
<1>3. \A u \in Threads \ {t} : at'[u] = at[u]
  BY DEF Global
<1>4. ASSUME at[t].pc \in Away <=> at'[t].pc \in Away PROVE Cardinality(Running') = tx_count
  <2>1. Running' = Running
    BY <1>3, <1>4 DEF Running, Away
  <2>2. QED
    BY <1>1, <2>1
<1>5. ASSUME at[t].pc \in Away, at'[t].pc \notin Away PROVE Cardinality(Running') = tx_count + 1
  <2>1. Running' = Running \cup {t} /\ t \notin Running
    BY <1>3, <1>5 DEF Running, Away
  <2>2. QED
    BY <1>1, <2>1, FS_AddElement
<1>6. ASSUME at[t].pc \notin Away, at'[t].pc \in Away PROVE Cardinality(Running') = tx_count - 1
  <2>1. Running' = Running \ {t} /\ t \in Running
    BY <1>3, <1>6 DEF Running, Away
  <2>2. QED
    BY <1>1, <2>1, FS_RemoveElement
<1>7. QED
  BY <1>1, <1>2, <1>4, <1>5, <1>6

\* A quiet step after which the thread has no transaction under way.
LEMMA QuietIdle ==
  ASSUME IInv, NEW t \in Threads, Quiet(t), tx_overflow' \in BOOLEAN,
         tx_count' = Cardinality(Running'), TypeOf(t)', IdleOf(t)', Idle(t)'
  PROVE  IInv'
<1>1. clock' \in Nat
  BY DEF IInv, Global, Quiet
<1>2. ThreadOf(t)'
  BY <1>1, IdleThread
<1>3. QED
  BY <1>2, QuietDone DEF ThreadOf

\* The types depend on the setting alone.
LEMMA TypesStay ==
  ASSUME setting' = setting
  PROVE  /\ Stripe' = Stripe /\ Stripes' = Stripes /\ Descriptor' = Descriptor /\ Calls' = Calls
         /\ VERSION_MAX' = VERSION_MAX
<1>1. Stripe' = Stripe /\ Stripes' = Stripes /\ VERSION_MAX' = VERSION_MAX
  BY DEF Stripe, Stripes, VERSION_MAX
<1>2. Descriptor' = Descriptor
  BY <1>1 DEF Descriptor, ReadEntry
<1>3. Calls' = Calls
  BY DEF Calls
<1>4. QED
  BY <1>1, <1>2, <1>3

\* The steps at which a thread has no locals.
LEMMA PlainIs ==
  \A pc \in Plain : [pc |-> pc] \in Calls
  BY DEF Calls

\* Before the step.
LEMMA Before ==
  ASSUME IInv, NEW t \in Threads
  PROVE  /\ Global /\ setting \in Settings /\ clock \in Nat /\ ThreadOf(t) /\ TypeOf(t)
         /\ tx[t] \in Descriptor /\ at[t] \in Calls /\ seen[t] \subseteq Read
         /\ tx \in [Threads -> Descriptor]
         /\ at = [u \in Threads |-> at[u]] /\ seen = [u \in Threads |-> seen[u]]
         /\ IdleOf(t) /\ TimesOf(t) /\ PendingOf(t) /\ ReadsOf(t) /\ WindowOf(t) /\ VerOf(t)
         /\ FlightOf(t) /\ FlatOf(t) /\ \A i \in DOMAIN W(t) : EntryOf(t, i)
         /\ tx_overflow \in BOOLEAN
  BY DEF IInv, Global, ThreadOf, TypeOf

\* A step after which the transaction of t has not begun to access anything.
LEMMA IdleMove ==
  ASSUME IInv, NEW t \in Threads, NEW d \in Descriptor, NEW c \in Calls,
         UNCHANGED <<setting, clock, locks, memory, base, log>>,
         tx' = [tx EXCEPT ![t] = d], at' = [at EXCEPT ![t] = c],
         (seen' = seen /\ seen[t] = {}) \/ seen' = [seen EXCEPT ![t] = {}],
         W(t) = <<>>, d.w_set = <<>>, d.r_set = <<>>, d.lastraddr = NoWindow,
         d.start = 0, d.end = 0, ~Committed(t), From(t) = 1,
         \/ c.pc \in {"out", "ready"} /\ d.status = "STOPPED"
         \/ c.pc \in {"start", "overflow", "asleep", "awake"} /\ d.status = "ACTIVE",
         tx_overflow' \in BOOLEAN, tx_count' = Cardinality(Running')
  PROVE  IInv'
<1>1. tx'[t] = d /\ at'[t] = c /\ seen'[t] = {}
  BY Before
<1>2. Only(t)
  BY <1>1, Before DEF Only
<1>3. Quiet(t)
  BY <1>1, <1>2 DEF Quiet, Pending, Committed, From, At
<1>4. TypeOf(t)'
  BY <1>1, TypesStay DEF TypeOf
<1>5. Idle(t)' /\ IdleOf(t)'
  BY <1>1 DEF Idle, IdleOf, W, R
<1>6. QED
  BY <1>3, <1>4, <1>5, QuietIdle

\* A thread whose transaction has not begun to access anything.
LEMMA IdleIs ==
  ASSUME IInv, NEW t \in Threads, Idle(t)
  PROVE  /\ tx[t] \in Descriptor /\ at[t] \in Calls
         /\ tx[t].w_set = <<>> /\ tx[t].r_set = <<>> /\ W(t) = <<>> /\ seen[t] = {}
         /\ tx[t].lastraddr = NoWindow /\ tx[t].start = 0 /\ tx[t].end = 0
         /\ ~Committed(t) /\ From(t) = 1
         /\ tx[t].status # "ACTIVE" => tx[t].status = "STOPPED" /\ at[t].pc \in {"out", "ready"}
         /\ tx[t].status = "ACTIVE" => at[t].pc \in {"start", "overflow", "asleep", "awake"}
<1>1. IdleOf(t) /\ TypeOf(t)
  BY Before
<1>2. tx[t] \in Descriptor /\ at[t] \in Calls /\ tx[t].status \in {"STOPPED", "ACTIVE"}
  BY <1>1 DEF TypeOf, Descriptor
<1>3. QED
  BY <1>1, <1>2 DEF IdleOf, Idle, W, R, Committed, From

\* stm_init_thread keeps the invariant.
LEMMA InitThreadStep ==
  ASSUME IInv, NEW t \in Threads, InitThread(t)
  PROVE  IInv'
<1>1. /\ tx' = [tx EXCEPT ![t] = Reset] /\ at' = [at EXCEPT ![t] = Ready] /\ seen' = seen
      /\ UNCHANGED <<setting, clock, locks, memory, base, log, tx_overflow>>
      /\ at[t].pc = "out" /\ tx_count' = tx_count + 1 /\ Ready.pc = "ready" /\ Ready \in Calls
  BY PlainIs DEF InitThread, Goto, At, history, Ready, Plain
<1>2. Idle(t)
  BY <1>1 DEF Idle
<1>3. tx_count' = Cardinality(Running')
  BY <1>1, Before, CountIs DEF Away
<1>4. QED
  BY <1>1, <1>2, <1>3, IdleIs, IdleMove, ResetIs, Before

\* stm_elastic_start and stm_normal_start keep the invariant.
LEMMA StartStep ==
  ASSUME IInv, NEW t \in Threads, NEW type \in Client(t).types, NEW ro \in Client(t).ro,
         Start(t, type, ro)
  PROVE  IInv'
<1> DEFINE d == [tx[t] EXCEPT !.type = type, !.status = "ACTIVE", !.nesting = 1, !.ro = ro,
                              !.starts = @ + 1]
           c == [pc |-> "start"]
<1>1. /\ tx' = [tx EXCEPT ![t] = d] /\ at' = [at EXCEPT ![t] = c] /\ seen' = seen
      /\ UNCHANGED <<setting, clock, locks, memory, base, log, tx_overflow, tx_count>>
      /\ at[t].pc = "ready" /\ tx[t].status # "ACTIVE" /\ c \in Calls
  BY Before, PlainIs DEF Start, Goto, At, history, unmoved, Plain
<1>2. Idle(t)
  BY <1>1 DEF Idle
<1>3. tx_count' = Cardinality(Running')
  BY <1>1, Before, CountIs DEF Away
<1>4. type \in {"EL", "NL"} /\ ro \in BOOLEAN /\ tx[t] \in Descriptor
  BY Before, ClientIs
<1>5. /\ d \in Descriptor /\ d.w_set = tx[t].w_set /\ d.r_set = tx[t].r_set
      /\ d.lastraddr = tx[t].lastraddr /\ d.start = tx[t].start /\ d.end = tx[t].end
      /\ d.status = "ACTIVE"
  <2>1. PICK n \in Nat : n = tx[t].starts + 1
    BY <1>4 DEF Descriptor
  <2>2. d \in Descriptor
    <3>1. [tx[t] EXCEPT !.type = type, !.status = "ACTIVE", !.nesting = 1, !.ro = ro,
                        !.starts = n] \in Descriptor
      BY <1>4 DEF Descriptor
    <3>2. QED
      BY <2>1, <3>1
  <2>3. /\ d.w_set = tx[t].w_set /\ d.r_set = tx[t].r_set
        /\ d.lastraddr = tx[t].lastraddr /\ d.start = tx[t].start /\ d.end = tx[t].end
    BY <1>4 DEF Descriptor
  <2>4. d.status = "ACTIVE"
    BY <1>4 DEF Descriptor
  <2>5. QED
    BY <2>2, <2>3, <2>4
<1>6. c.pc = "start"
  OBVIOUS
<1> HIDE DEF d, c
<1>7. /\ W(t) = <<>> /\ d.w_set = <<>> /\ d.r_set = <<>> /\ d.lastraddr = NoWindow
      /\ d.start = 0 /\ d.end = 0 /\ seen[t] = {} /\ ~Committed(t) /\ From(t) = 1
  BY <1>2, <1>5, IdleIs
<1>8. tx_overflow' \in BOOLEAN
  BY <1>1, Before
<1>9. QED
  BY <1>1, <1>3, <1>5, <1>6, <1>7, <1>8, IdleMove

\* The steps of a thread that is not counted, or about to be.
LEMMA SleepStep ==
  ASSUME IInv, NEW t \in Threads,
         SpuriousWakeup(t) \/ Awake(t) \/ (Overflow(t) /\ tx_count # 1)
  PROVE  IInv'
<1>1. PICK pc \in {"asleep", "awake", "start"} :
        /\ tx' = tx /\ at' = [at EXCEPT ![t] = [pc |-> pc]] /\ seen' = seen
        /\ UNCHANGED <<setting, clock, locks, memory, base, log>>
        /\ at[t].pc \in {"asleep", "awake", "overflow"} /\ tx_overflow' \in BOOLEAN
        /\ tx_count' = IF at[t].pc \in Away <=> pc \in Away THEN tx_count
                       ELSE IF pc \in Away THEN tx_count - 1 ELSE tx_count + 1
  <2>1. CASE SpuriousWakeup(t)
    BY <2>1, Before DEF SpuriousWakeup, Goto, At, unmoved, history, Away
  <2>2. CASE Awake(t)
    BY <2>2, Before DEF Awake, Goto, At, unmoved, history, Away
  <2>3. CASE Overflow(t) /\ tx_count # 1
    BY <2>3, Before DEF Overflow, Goto, At, unmoved, history, Away
  <2>4. QED
    BY <2>1, <2>2, <2>3
<1>2. Idle(t) /\ tx[t].status = "ACTIVE"
  BY <1>1, Before DEF Idle, IdleOf
<1>3. tx' = [tx EXCEPT ![t] = tx[t]] /\ [pc |-> pc] \in Calls
  BY <1>1, Before, PlainIs DEF Plain
<1>4. at'[t] = [pc |-> pc]
  BY <1>1, Before
<1>5. tx_count' = Cardinality(Running')
  BY <1>1, <1>4, Before, CountIs DEF Away
<1>6. QED
  BY <1>1, <1>2, <1>3, <1>5, IdleIs, IdleMove

\* A step of t that keeps its write set.
Moves(t, d, c, r) ==
  /\ UNCHANGED <<setting, clock, locks, memory, base, log, tx_overflow, tx_count>>
  /\ tx' = [tx EXCEPT ![t] = d] /\ at' = [at EXCEPT ![t] = c] /\ seen' = [seen EXCEPT ![t] = r]
  /\ d \in Descriptor /\ c \in Calls /\ r \subseteq Read /\ d.w_set = W(t)
  /\ at[t].pc \notin Away \cup {"rollback", "writeBack", "release"}
  /\ c.pc \notin Away \cup {"writeBack", "release"}

\* A quiet step with the descriptor, the call and the reads it leads to.
LEMMA QuietMove ==
  ASSUME IInv, NEW t \in Threads, NEW d, NEW c, NEW r, Moves(t, d, c, r),
         c.pc = "rollback" => c.i = 1,
         c.pc = "validate" /\ c.for = "commit" => Pending(t) /\ c.now = at[t].now
  PROVE  /\ tx'[t] = d /\ at'[t] = c /\ seen'[t] = r /\ Past /\ TypeOf(t)'
         /\ setting' = setting /\ Stripe' = Stripe /\ Stripes' = Stripes /\ clock' = clock
         /\ locks' = locks /\ memory' = memory /\ W(t)' = W(t) /\ clock \in Nat
         /\ \A u \in Threads : \A i : \A s : Holds(u, i, s)' = Holds(u, i, s)
         /\ \A u \in Threads : W(u)' = W(u) /\ Committed(u)' = Committed(u)
         /\ \A a \in Addresses : \A k \in 0 .. clock : \A value :
              Fixed(a, value, k) => Fixed(a, value, k)'
         /\ \A s \in Stripes : \A k \in 0 .. clock : \A version :
              Stable(version, s, k) => Stable(version, s, k)'
         /\ IdleOf(t)' /\ TimesOf(t)' /\ ReadsOf(t)' /\ WindowOf(t)' /\ VerOf(t)' /\ FlightOf(t)'
            /\ FlatOf(t)' => IInv'
<1>1. tx'[t] = d /\ at'[t] = c /\ seen'[t] = r
  BY Before DEF Moves
<1>2. Only(t)
  BY <1>1 DEF Only, Moves
<1>3. Quiet(t)
  BY <1>1, <1>2 DEF Quiet, Moves, Pending, Committed, From, At
<1>4. /\ setting' = setting /\ clock' = clock /\ locks' = locks /\ memory' = memory
      /\ tx_overflow' = tx_overflow /\ tx_count' = tx_count
  BY DEF Moves
<1>5. TypeOf(t)'
  BY <1>1, <1>4, TypesStay DEF TypeOf, Moves
<1>6. tx_count' = Cardinality(Running')
  BY <1>1, <1>4, Before, CountIs DEF Moves, Away
<1>7. Past /\ Stripe' = Stripe /\ Stripes' = Stripes /\ W(t)' = W(t)
  BY <1>3, QuietStep
<1>8. \A u \in Threads : W(u)' = W(u) /\ From(u)' = From(u) /\ Committed(u)' = Committed(u)
  <2>1. \A u \in Threads \ {t} : SameThread(u)
    BY <1>2, Before, OthersSame
  <2>2. \A u \in Threads \ {t} : W(u)' = W(u) /\ From(u)' = From(u) /\ Committed(u)' = Committed(u)
    BY <2>1 DEF SameThread, W, From, Committed, At
  <2>3. W(t)' = W(t) /\ From(t)' = From(t) /\ Committed(t)' = Committed(t)
    BY <1>3, <1>7 DEF Quiet, Committed
  <2>4. QED
    BY <2>2, <2>3
<1>9. \A u \in Threads : \A i : \A s : Holds(u, i, s)' = Holds(u, i, s)
  BY <1>8 DEF Holds
<1>10. IdleOf(t)' /\ TimesOf(t)' /\ ReadsOf(t)' /\ WindowOf(t)' /\ VerOf(t)' /\ FlightOf(t)'
       /\ FlatOf(t)' => IInv'
  BY <1>3, <1>4, <1>5, <1>6, Before, QuietDone
<1>11. QED
  BY <1>1, <1>4, <1>5, <1>7, <1>8, <1>9, <1>10, PastStays, Before

\* The transaction begins to roll back.
LEMMA RollbackMove ==
  ASSUME IInv, NEW t \in Threads, NEW d, Moves(t, d, [pc |-> "rollback", i |-> 1], seen[t]),
         d.status = "ACTIVE", d.start <= clock, d.end <= clock,
         d.type = "EL" => W(t) = <<>> /\ seen[t] = {}
  PROVE  IInv'
<1> DEFINE c == [pc |-> "rollback", i |-> 1]
<1>1. c.pc = "rollback" /\ c.i = 1
  OBVIOUS
<1> HIDE DEF c
<1>2. /\ tx'[t] = d /\ at'[t] = c /\ seen'[t] = seen[t] /\ clock' = clock /\ W(t)' = W(t)
      /\ IdleOf(t)' /\ TimesOf(t)' /\ ReadsOf(t)' /\ WindowOf(t)' /\ VerOf(t)' /\ FlightOf(t)'
         /\ FlatOf(t)' => IInv'
  BY <1>1, QuietMove DEF c
<1>3. IdleOf(t)' /\ TimesOf(t)'
  BY <1>1, <1>2 DEF IdleOf, Idle, TimesOf, Carrying, Pending, Committed, At
<1>4. ReadsOf(t)' /\ WindowOf(t)' /\ VerOf(t)' /\ FlightOf(t)' /\ FlatOf(t)'
  BY <1>1, <1>2 DEF ReadsOf, WindowOf, VerOf, FlightOf, FlatOf, Carrying, Aborting, At, NormalSteps
<1>5. QED
  BY <1>2, <1>3, <1>4

\* What has been read stays readable while the validity range stays as it is.
LEMMA ReadsStay ==
  ASSUME IInv, NEW t \in Threads, NEW d, NEW c, Moves(t, d, c, seen[t]), c.pc # "rollback",
         c.pc = "validate" /\ c.for = "commit" => Pending(t) /\ c.now = at[t].now,
         d.end = tx[t].end, d.r_set = R(t), d.ro = tx[t].ro,
         tx[t].ro => c.pc \notin {"write", "cas", "extend", "validate"}
  PROVE  /\ \A j \in DOMAIN R(t) :
              /\ ReadEntryOf(t, j) /\ Stable(R(t)[j].version, R(t)[j].lock, tx[t].end)'
              /\ c.pc \notin {"cas", "validate"} => ReadEntryOf(t, j)'
         /\ (\A j \in DOMAIN R(t) : ReadEntryOf(t, j)') => ReadsOf(t)'
         /\ c.pc \notin {"cas", "validate"} => ReadsOf(t)'
<1>1. /\ tx'[t] = d /\ at'[t] = c /\ seen'[t] = seen[t] /\ clock' = clock /\ W(t)' = W(t)
      /\ Stripe' = Stripe /\ clock \in Nat
      /\ \A a \in Addresses : \A k \in 0 .. clock : \A value :
              Fixed(a, value, k) => Fixed(a, value, k)'
      /\ \A s \in Stripes : \A k \in 0 .. clock : \A version :
              Stable(version, s, k) => Stable(version, s, k)'
  BY QuietMove
<1>2. ~Aborting(t) /\ ~Aborting(t)' /\ ~Committed(t) /\ R(t)' = R(t)
  BY <1>1 DEF Moves, Aborting, Committed, At, R
<1>3. tx[t].end \in 0 .. clock
  BY Before, LocalsAre DEF TimesOf
<1>4. \A r \in seen[t] : Fixed(r.addr, r.value, tx[t].end)'
  <2>1. \A r \in seen[t] : Fixed(r.addr, r.value, tx[t].end) /\ r.addr \in Addresses
    BY <1>2, Before, LocalsAre DEF ReadsOf
  <2>2. tx'[t].end = tx[t].end
    BY <1>1
  <2>3. QED
    BY <1>1, <1>3, <2>1, <2>2
<1>5. \A j \in DOMAIN R(t) :
        /\ ReadEntryOf(t, j) /\ Stable(R(t)[j].version, R(t)[j].lock, tx[t].end)'
        /\ c.pc \notin {"cas", "validate"} => ReadEntryOf(t, j)'
  <2> SUFFICES ASSUME NEW j \in DOMAIN R(t)
               PROVE  /\ ReadEntryOf(t, j) /\ Stable(R(t)[j].version, R(t)[j].lock, tx[t].end)'
                      /\ c.pc \notin {"cas", "validate"} => ReadEntryOf(t, j)'
    OBVIOUS
  <2>1. ReadEntryOf(t, j)
    BY <1>2, Before DEF ReadsOf
  <2>2. R(t)[j].lock \in Stripes /\ tx'[t].end = tx[t].end
    BY <1>1, Before, LocalsAre
  <2>3. Stable(R(t)[j].version, R(t)[j].lock, tx[t].end)'
    BY <1>1, <1>2, <1>3, <2>1, <2>2 DEF ReadEntryOf
  <2>4. c.pc \notin {"cas", "validate"} => ReadEntryOf(t, j)'
    BY <1>1, <1>2, <2>1, <2>2, <2>3 DEF ReadEntryOf, At
  <2>5. QED
    BY <2>1, <2>3, <2>4
<1>6. /\ tx[t].ro => W(t) = <<>>
      /\ ~tx[t].ro => \A r \in seen[t] : \E j \in DOMAIN R(t) : R(t)[j].lock = Stripe[r.addr]
  BY <1>2, Before DEF ReadsOf
<1>7. tx'[t].ro = tx[t].ro /\ (tx[t].ro => at'[t].pc \notin {"write", "cas", "extend", "validate"})
  BY <1>1
<1>8. (\A j \in DOMAIN R(t) : ReadEntryOf(t, j)') => ReadsOf(t)'
  BY <1>1, <1>2, <1>4, <1>6, <1>7 DEF ReadsOf
<1>9. QED
  BY <1>5, <1>8

\* A step in the middle of a transaction that keeps what it has read.
Keeps(t, d, c) ==
  /\ Moves(t, d, c, seen[t])
  /\ d.start = tx[t].start /\ d.end = tx[t].end /\ d.r_set = tx[t].r_set /\ d.ro = tx[t].ro
  /\ d.status = "ACTIVE" /\ d.type \in {tx[t].type, "NL"}
  /\ d.lastraddr \in {tx[t].lastraddr, NoWindow}
  /\ c.pc \notin {"out", "start", "overflow", "asleep", "awake", "rollback"}
  /\ tx[t].ro => c.pc \notin {"write", "cas", "extend", "validate"}
  /\ d.type = "EL" => c.pc \notin NormalSteps

\* A step within a transaction that keeps its reads and its validity range.
LEMMA KeepMove ==
  ASSUME IInv, NEW t \in Threads, NEW d, NEW c, Keeps(t, d, c),
         c.pc = "validate" /\ c.for = "commit" => Pending(t) /\ c.now = at[t].now
  PROVE  /\ IdleOf(t)' /\ WindowOf(t)' /\ FlatOf(t)'
         /\ c.pc \notin {"cas", "validate"} => ReadsOf(t)'
         /\ (\A j \in DOMAIN R(t) : ReadEntryOf(t, j)') => ReadsOf(t)'
         /\ \A j \in DOMAIN R(t) :
              /\ ReadEntryOf(t, j) /\ Stable(R(t)[j].version, R(t)[j].lock, tx[t].end)'
         /\ ReadsOf(t)' /\ TimesOf(t)' /\ VerOf(t)' /\ FlightOf(t)' => IInv'
<1>1. /\ Moves(t, d, c, seen[t]) /\ c.pc # "rollback"
  BY DEF Keeps
<1>2. /\ tx'[t] = d /\ at'[t] = c /\ seen'[t] = seen[t] /\ clock' = clock /\ W(t)' = W(t)
      /\ Stripe' = Stripe /\ clock \in Nat
      /\ \A a \in Addresses : \A k \in 0 .. clock : \A value :
              Fixed(a, value, k) => Fixed(a, value, k)'
      /\ \A s \in Stripes : \A k \in 0 .. clock : \A version :
              Stable(version, s, k) => Stable(version, s, k)'
      /\ IdleOf(t)' /\ TimesOf(t)' /\ ReadsOf(t)' /\ WindowOf(t)' /\ VerOf(t)' /\ FlightOf(t)'
         /\ FlatOf(t)' => IInv'
  BY <1>1, QuietMove
<1>3. IdleOf(t)'
  BY <1>2 DEF IdleOf, Idle, Keeps
<1>4. ~Aborting(t) /\ ~Aborting(t)' /\ ~Committed(t) /\ R(t)' = R(t)
  BY <1>2 DEF Keeps, Moves, Aborting, Committed, At, R
<1>5. tx[t].start \in 0 .. clock /\ tx[t].end \in 0 .. clock
  BY Before, LocalsAre DEF TimesOf
<1>6. /\ \A j \in DOMAIN R(t) :
           ReadEntryOf(t, j) /\ Stable(R(t)[j].version, R(t)[j].lock, tx[t].end)'
      /\ (\A j \in DOMAIN R(t) : ReadEntryOf(t, j)') => ReadsOf(t)'
      /\ c.pc \notin {"cas", "validate"} => ReadsOf(t)'
  BY <1>1, ReadsStay DEF Keeps, R
<1>7. WindowOf(t)'
  <2>1. CASE d.type = "EL" /\ d.lastraddr = tx[t].lastraddr
    <3>1. tx[t].type = "EL" /\ d.start = tx[t].start
      BY <2>1 DEF Keeps
    <3>2. \A i \in 1 .. 2 : Window(t, i)' = Window(t, i)
      BY <1>2, <2>1 DEF Window
    <3>3. \A i \in 1 .. 2 : Window(t, i).addr # NULL => Window(t, i).addr \in Addresses
      BY Before, LocalsAre
    <3>4. \A i \in 1 .. 2 : Window(t, i).addr # NULL =>
            Fixed(Window(t, i).addr, Window(t, i).value, tx[t].start)'
      BY <1>2, <1>4, <1>5, <3>1, <3>2, <3>3, Before DEF WindowOf
    <3>5. QED
      BY <3>2, <3>4 DEF WindowOf
  <2>2. CASE d.type # "EL"
    BY <1>2, <2>2 DEF WindowOf
  <2>3. CASE d.lastraddr = NoWindow
    <3>1. \A i \in 1 .. 2 : Window(t, i)'.addr = NULL
      BY <1>2, <2>3 DEF Window, NoWindow, None, ELASTICITY
    <3>2. QED
      BY <3>1 DEF WindowOf
  <2>4. QED
    BY <2>1, <2>2, <2>3 DEF Keeps
<1>8. FlatOf(t)'
  <2>1. d.type = "EL" => tx[t].type = "EL" /\ c.pc \notin NormalSteps
    BY DEF Keeps
  <2>2. d.start = tx[t].start /\ d.end = tx[t].end
    BY DEF Keeps
  <2>3. tx[t].end <= tx[t].start => \A r \in seen[t] : Fixed(r.addr, r.value, tx[t].start)'
    <3>1. tx[t].end <= tx[t].start => \A r \in seen[t] :
            Fixed(r.addr, r.value, tx[t].start) /\ r.addr \in Addresses
      BY <1>4, Before, LocalsAre DEF FlatOf
    <3>2. tx'[t].start = tx[t].start
      BY <1>2, <2>2
    <3>3. QED
      BY <1>2, <1>5, <3>1, <3>2
  <2>4. QED
    BY <1>2, <2>1, <2>2, <2>3, Before DEF FlatOf
<1>9. QED
  BY <1>2, <1>3, <1>6, <1>7, <1>8

\* The same, whatever the next call of t is.
Calm(t, d) ==
  /\ UNCHANGED <<setting, clock, locks, memory, seen, base, log, tx_overflow, tx_count>>
  /\ tx' = [tx EXCEPT ![t] = d] /\ d \in Descriptor /\ d.w_set = W(t)
  /\ d.start = tx[t].start /\ d.end = tx[t].end /\ d.r_set = tx[t].r_set /\ d.ro = tx[t].ro
  /\ d.status = "ACTIVE" /\ d.type \in {tx[t].type, "NL"}
  /\ d.lastraddr \in {tx[t].lastraddr, NoWindow}
  /\ at[t].pc \notin Away \cup {"rollback", "writeBack", "release"}

\* A calm step keeps the reads wherever it leads inside the transaction.
LEMMA CalmKeeps ==
  ASSUME IInv, NEW t \in Threads, NEW d, NEW c \in Calls, Calm(t, d),
         at' = [at EXCEPT ![t] = c],
         c.pc \notin {"out", "start", "overflow", "asleep", "awake", "rollback", "writeBack",
                      "release"},
         tx[t].ro => c.pc \notin {"write", "cas", "extend", "validate"},
         d.type = "EL" => c.pc \notin NormalSteps
  PROVE  Keeps(t, d, c)
<1>1. seen' = [seen EXCEPT ![t] = seen[t]] /\ seen[t] \subseteq Read
  BY Before DEF Calm
<1>2. QED
  BY <1>1 DEF Calm, Keeps, Moves, Away

\* From everywhere a transaction may begin to roll back.
LEMMA CalmRollback ==
  ASSUME IInv, NEW t \in Threads, NEW d, Calm(t, d), Rollback(t)
  PROVE  IInv'
<1>1. seen' = [seen EXCEPT ![t] = seen[t]] /\ seen[t] \subseteq Read
  BY Before DEF Calm
<1>2. [pc |-> "rollback", i |-> 1] \in Calls
  BY DEF Calls, Pos
<1>3. Moves(t, d, [pc |-> "rollback", i |-> 1], seen[t])
  BY <1>1, <1>2 DEF Calm, Moves, Away, Rollback, Goto
<1>4. d.start <= clock /\ d.end <= clock /\ d.status = "ACTIVE"
  BY Before DEF Calm, TimesOf
<1>5. d.type = "EL" => W(t) = <<>> /\ seen[t] = {}
  BY Before DEF Calm, FlatOf
<1>6. QED
  BY <1>3, <1>4, <1>5, RollbackMove

\* A step that leaves the descriptor alone is calm.
LEMMA CalmSame ==
  ASSUME IInv, NEW t \in Threads, tx[t].status = "ACTIVE",
         UNCHANGED <<setting, clock, locks, memory, tx, seen, base, log, tx_overflow, tx_count>>,
         at[t].pc \notin Away \cup {"rollback", "writeBack", "release"}
  PROVE  Calm(t, tx[t])
  BY Before DEF Calm, W

\* A calm step to where nothing is under way.
LEMMA RestMove ==
  ASSUME IInv, NEW t \in Threads, NEW d, NEW c \in Calls, Calm(t, d),
         at' = [at EXCEPT ![t] = c], c.pc \in {"ready", "window", "write", "timestamp"},
         c.pc = "timestamp" => W(t) # <<>>, c.pc = "write" => ~tx[t].ro /\ d.type # "EL"
  PROVE  IInv'
<1>1. Keeps(t, d, c)
  BY CalmKeeps DEF NormalSteps
<1>2. at'[t] = c /\ tx'[t] = d /\ W(t)' = W(t) /\ clock' = clock
  BY Before DEF Calm, W
<1>3. d.start <= clock /\ d.end <= clock
  BY Before DEF Calm, TimesOf
<1>4. TimesOf(t)'
  BY <1>2, <1>3 DEF TimesOf, Carrying, Pending, Committed, At
<1>5. VerOf(t)' /\ FlightOf(t)'
  BY <1>2 DEF VerOf, FlightOf, Carrying, At
<1>6. QED
  BY <1>1, <1>4, <1>5, KeepMove

\* Loading the lock of an address that nobody owns.
LEMMA LoadMove ==
  ASSUME IInv, NEW t \in Threads, NEW d, Calm(t, d), d.type = "NL", NEW a \in Addresses, NEW l,
         l = locks[Stripe[a]] \/ (Carrying(t) /\ at[t].addr = a /\ at[t].l = l),
         LoadLocked(t, a, l)
  PROVE  IInv'
<1>1. Stripe[a] \in Stripes /\ Global
  BY Before, SettingIs
<1>2. CASE IsOwned(l) /\ l.owner = t
  BY <1>2, PlainIs, RestMove DEF LoadLocked, Ready, Goto, Plain
<1>3. CASE IsOwned(l) /\ l.owner # t
  BY <1>3, CalmRollback DEF LoadLocked
<1>4. CASE ~IsOwned(l)
  <2> DEFINE c == [pc |-> "value", addr |-> a, l |-> l]
  <2>1. at' = [at EXCEPT ![t] = c]
    BY <1>4 DEF LoadLocked, Goto
  <2>2. l \in FreeLock /\ l.version <= clock
    <3>1. CASE l = locks[Stripe[a]]
      BY <1>1, <1>4, <3>1, LockIs DEF IInv, LockOf
    <3>2. CASE Carrying(t) /\ at[t].addr = a /\ at[t].l = l
      BY <3>2, Before, LocalsAre DEF TimesOf
    <3>3. QED
      BY <3>1, <3>2
  <2>3. c \in Calls /\ c.pc = "value" /\ c.addr = a /\ c.l = l
    BY <2>2 DEF Calls
  <2> HIDE DEF c
  <2>4. Keeps(t, d, c)
    BY <2>1, <2>3, CalmKeeps
  <2>5. at'[t] = c /\ tx'[t] = d /\ W(t)' = W(t) /\ clock' = clock /\ Stripe' = Stripe
        /\ locks' = locks /\ \A u \in Threads : W(u)' = W(u) /\ \A i : \A s : Holds(u, i, s)' = Holds(u, i, s)
    BY <2>1, <2>3, <2>4, QuietMove DEF Keeps
  <2>6. TimesOf(t)'
    <3>1. d.start <= clock /\ d.end <= clock
      BY Before DEF Calm, TimesOf
    <3>2. QED
      BY <2>2, <2>3, <2>5, <3>1 DEF TimesOf, Carrying, Pending, Committed, At
  <2>7. FlightOf(t)'
    <3>1. /\ ~IsOwned(locks[Stripe[a]]) => l.version <= locks[Stripe[a]].version
          /\ \A u \in Threads : \A i \in DOMAIN W(u) : Holds(u, i, Stripe[a]) =>
               l.version <= W(u)[i].version
      <4>1. CASE l = locks[Stripe[a]]
        <5>1. \A u \in Threads : \A i \in DOMAIN W(u) : ~Holds(u, i, Stripe[a])
          BY <1>4, <4>1, EstmAssumption, Before DEF EntryOf, Holds, IsOwned
        <5>2. l.version <= l.version
          BY <2>2, FreeIs
        <5>3. QED
          BY <4>1, <5>1, <5>2
      <4>2. CASE Carrying(t) /\ at[t].addr = a /\ at[t].l = l
        BY <4>2, Before DEF FlightOf
      <4>3. QED
        BY <4>1, <4>2
    <3>2. ~ValueKnown(t)'
      BY <2>3, <2>5 DEF ValueKnown
    <3>3. QED
      BY <2>3, <2>5, <3>1, <3>2 DEF FlightOf
  <2>8. VerOf(t)'
    BY <2>3, <2>5 DEF VerOf
  <2>9. QED
    BY <2>3, <2>4, <2>6, <2>7, <2>8, KeepMove
<1>5. QED
  BY <1>2, <1>3, <1>4

\* An address under a free lock has one value since the version of the lock.
LEMMA FreeValue ==
  ASSUME IInv, NEW a \in Addresses, NEW s \in Stripes, s = Stripe[a], ~IsOwned(locks[s]),
         NEW k \in 0 .. clock, locks[s].version <= k
  PROVE  Fixed(a, memory[a], k) /\ Stable(locks[s].version, s, k)
<1>1. \A u \in Threads : \A i \in DOMAIN W(u) : W(u)[i].lock = s => ~(From(u) <= i)
  BY EstmAssumption, Before DEF EntryOf, IsOwned
<1>2. \A u \in Threads : \A i \in DOMAIN W(u) : i \in Pos /\ W(u)[i].lock = Stripe[W(u)[i].addr]
  BY Before, LocalsAre DEF EntryOf
<1>3. Settled(s, k)
  BY <1>1, <1>2 DEF Settled, Covers, Pending, From, At, Pos
<1>4. memory[a] = Snapshot(clock)[a]
  <2>1. MemoryOf(a)
    BY DEF IInv
  <2>2. ASSUME NEW u \in Threads, Committed(u), NEW i \in DOMAIN W(u), Unwritten(u, i),
               W(u)[i].addr = a
        PROVE  FALSE
    <3>1. at[u].i \in Pos /\ i \in Pos
      BY <2>2, <1>2, Before, LocalsAre
    <3>2. From(u) <= i
      BY <2>2, <3>1 DEF Unwritten, From, Committed, Pos
    <3>3. QED
      BY <1>1, <1>2, <2>2, <3>2
  <2>3. QED
    BY <2>1, <2>2 DEF MemoryOf
<1>5. LockOf(s) /\ NoneLater(s, locks[s].version) /\ locks[s].version \in Nat
  BY Before, LockIs DEF IInv, LockOf, FreeLock
<1>6. k \in Nat /\ clock \in Nat /\ k <= clock /\ DOMAIN log = 1 .. clock
  <2>1. clock \in Nat /\ log = [v \in 1 .. clock |-> log[v]]
    BY DEF IInv, Global
  <2>2. QED
    BY <2>1
<1>7. \A v \in DOMAIN log : k < v => a \notin DOMAIN log[v].writes
  BY <1>5, <1>6 DEF NoneLater, Writes
<1>8. Snapshot(k)[a] = Snapshot(clock)[a]
  BY <1>6, <1>7, SnapshotSame
<1>9. Stable(locks[s].version, s, k)
  BY <1>3, <1>5 DEF Stable, NoneLater
<1>10. QED
  BY <1>3, <1>4, <1>8, <1>9 DEF Fixed

\* The start of a transaction reads the clock, or finds that it must be reset.
LEMMA ReadClockStep ==
  ASSUME IInv, NEW t \in Threads, ReadClock(t)
  PROVE  IInv'
<1>1. /\ UNCHANGED <<setting, clock, locks, memory, seen, base, log, tx_overflow, tx_count>>
      /\ at[t].pc = "start"
  BY DEF ReadClock, unmoved, history, At
<1>2. Idle(t) /\ tx[t].status = "ACTIVE"
  BY <1>1, Before DEF Idle, IdleOf
<1>3. CASE clock >= VERSION_MAX
  <2> DEFINE c == [pc |-> "overflow"]
  <2>1. at' = [at EXCEPT ![t] = c] /\ tx' = [tx EXCEPT ![t] = tx[t]] /\ c \in Calls
    BY <1>3, Before, PlainIs DEF ReadClock, Goto, Plain
  <2>2. tx_count' = Cardinality(Running') /\ tx_overflow' \in BOOLEAN
    BY <1>1, <2>1, Before, CountIs DEF Away
  <2>3. c.pc = "overflow"
    OBVIOUS
  <2> HIDE DEF c
  <2>4. QED
    BY <1>1, <1>2, <2>1, <2>2, <2>3, IdleIs, IdleMove
<1>4. CASE ~(clock >= VERSION_MAX)
  <2> DEFINE d == [tx[t] EXCEPT !.start = clock, !.end = clock, !.can_extend = tx[t].type = "NL",
                                !.reallocate = FALSE]
             c == Ready
  <2>1. tx' = [tx EXCEPT ![t] = d] /\ at' = [at EXCEPT ![t] = c]
    BY <1>4, Before DEF ReadClock, Goto
  <2>2. tx[t] \in Descriptor /\ clock \in Nat
    BY Before
  <2>3. d \in Descriptor
    <3>1. PICK b \in BOOLEAN : b = (tx[t].type = "NL")
      OBVIOUS
    <3>2. [tx[t] EXCEPT !.start = clock, !.end = clock, !.can_extend = b, !.reallocate = FALSE]
             \in Descriptor
      BY <2>2 DEF Descriptor
    <3>3. QED
      BY <3>1, <3>2
  <2>4. /\ d.w_set = <<>> /\ d.r_set = <<>> /\ d.lastraddr = NoWindow /\ d.status = "ACTIVE"
        /\ d.start = clock /\ d.end = clock
    <3>1. /\ d.w_set = tx[t].w_set /\ d.r_set = tx[t].r_set /\ d.lastraddr = tx[t].lastraddr
          /\ d.status = tx[t].status /\ d.start = clock /\ d.end = clock
      BY <2>2 DEF Descriptor
    <3>2. QED
      BY <1>2, <3>1, IdleIs
  <2>5. c \in Calls /\ c.pc = "ready"
    BY PlainIs DEF Ready, Plain
  <2> HIDE DEF d, c
  <2>6. W(t) = <<>> /\ seen[t] = {}
    BY <1>2, IdleIs
  <2>7. Moves(t, d, c, seen[t])
    BY <1>1, <2>1, <2>3, <2>4, <2>5, <2>6, Before DEF Moves, Away
  <2>8. /\ tx'[t] = d /\ at'[t] = c /\ seen'[t] = {} /\ clock' = clock /\ W(t)' = <<>>
        /\ IdleOf(t)' /\ TimesOf(t)' /\ ReadsOf(t)' /\ WindowOf(t)' /\ VerOf(t)' /\ FlightOf(t)'
           /\ FlatOf(t)' => IInv'
    BY <2>5, <2>6, <2>7, QuietMove
  <2>9. IdleOf(t)' /\ TimesOf(t)'
    BY <2>2, <2>4, <2>5, <2>8
       DEF IdleOf, Idle, TimesOf, Carrying, Pending, Committed, At
  <2>10. VerOf(t)' /\ FlightOf(t)' /\ FlatOf(t)'
    BY <2>5, <2>8 DEF VerOf, FlightOf, FlatOf, Carrying, At, NormalSteps
  <2>11. WindowOf(t)'
    <3>1. \A i \in 1 .. 2 : Window(t, i)'.addr = NULL
      BY <2>4, <2>8 DEF Window, NoWindow, None, ELASTICITY
    <3>2. QED
      BY <3>1 DEF WindowOf
  <2>12. ReadsOf(t)'
    <3>1. R(t)' = <<>>
      BY <2>4, <2>8 DEF R
    <3>2. QED
      BY <2>5, <2>8, <3>1 DEF ReadsOf
  <2>13. QED
    BY <2>8, <2>9, <2>10, <2>11, <2>12
<1>5. QED
  BY <1>3, <1>4

\* The transaction of a thread that may call the library is under way.
LEMMA ActiveIs ==
  ASSUME IInv, NEW t \in Threads
  PROVE  /\ Active(t) => at[t].pc = "ready" /\ tx[t].status = "ACTIVE"
         /\ at[t].pc \notin {"out", "ready"} => tx[t].status = "ACTIVE"
  BY Before DEF Active, At, IdleOf

\* A nested start keeps a normal transaction normal.
LEMMA NestStep ==
  ASSUME IInv, Flat, NEW t \in Threads, NEW type \in Client(t).nested, Nest(t, type)
  PROVE  IInv'
<1>1. /\ UNCHANGED <<setting, clock, locks, memory, seen, base, log, tx_overflow, tx_count, at>>
      /\ at[t].pc = "ready" /\ tx[t].status = "ACTIVE"
  BY ActiveIs DEF Nest, unmoved, history
<1>2. type = "NL"
  BY Before, ClientIs DEF Flat, Client
<1>3. PICK n \in Nat : n = tx[t].nesting + 1
  BY Before DEF Descriptor
<1> DEFINE d == [tx[t] EXCEPT !.type = "NL", !.nesting = n]
<1>4. tx' = [tx EXCEPT ![t] = d]
  <2>1. tx' = [tx EXCEPT ![t].type = "NL", ![t].nesting = n,
                        ![t].lastraddr = tx[t].lastraddr, ![t].marker = tx[t].marker]
    BY <1>2, <1>3 DEF Nest
  <2>2. [tx[t] EXCEPT !.type = "NL", !.nesting = n, !.lastraddr = tx[t].lastraddr,
                      !.marker = tx[t].marker] = d
    BY Before DEF Descriptor
  <2>3. QED
    BY <2>1, <2>2, Before
<1>5. Calm(t, d)
  <2>1. d \in Descriptor
    BY Before, ZenonT(60) DEF Descriptor
  <2>2. /\ d.w_set = W(t) /\ d.start = tx[t].start /\ d.end = tx[t].end /\ d.r_set = tx[t].r_set
        /\ d.ro = tx[t].ro /\ d.lastraddr = tx[t].lastraddr /\ d.type = "NL"
        /\ d.status = tx[t].status
    BY Before DEF Descriptor, W
  <2>3. QED
    BY <1>1, <1>4, <2>1, <2>2 DEF Calm, Away
<1>6. at' = [at EXCEPT ![t] = at[t]] /\ at[t] \in Calls
  BY <1>1, Before
<1>7. QED
  BY <1>1, <1>5, <1>6, RestMove

\* stm_exit_thread of a thread that is not the last one.
LEMMA ExitThreadStep ==
  ASSUME IInv, NEW t \in Threads, ExitThread(t), ~(tx_overflow /\ tx_count' = 0)
  PROVE  IInv'
<1> DEFINE c == [pc |-> "out"]
<1>1. /\ tx' = [tx EXCEPT ![t] = Reset] /\ at' = [at EXCEPT ![t] = c] /\ seen' = seen
      /\ UNCHANGED <<setting, clock, locks, memory, base, log, tx_overflow>>
      /\ at[t].pc = "ready" /\ tx[t].status # "ACTIVE" /\ tx_count' = tx_count - 1
      /\ c.pc = "out" /\ c \in Calls
  BY PlainIs DEF ExitThread, At, Plain
<1> HIDE DEF c
<1>2. Idle(t)
  BY <1>1 DEF Idle
<1>3. tx_count' = Cardinality(Running') /\ tx_overflow' \in BOOLEAN
  BY <1>1, Before, CountIs DEF Away
<1>4. QED
  BY <1>1, <1>2, <1>3, IdleIs, IdleMove, ResetIs, Before

\* The first part of stm_commit keeps the invariant.
LEMMA CommitStep ==
  ASSUME IInv, NEW t \in Threads, Commit(t)
  PROVE  IInv'
<1>1. /\ UNCHANGED <<setting, clock, locks, memory, base, log, tx_overflow, tx_count>>
      /\ at[t].pc = "ready" /\ tx[t].status = "ACTIVE"
  BY ActiveIs DEF Commit, unmoved
<1>2. /\ tx[t] \in Descriptor /\ at[t] \in Calls /\ at = [at EXCEPT ![t] = at[t]]
  BY Before
<1>3. CASE tx[t].nesting > 1
  <2>1. PICK n \in Nat : n = tx[t].nesting - 1
    BY <1>2, <1>3 DEF Descriptor
  <2> DEFINE d == [tx[t] EXCEPT !.nesting = n]
  <2>2. tx' = [tx EXCEPT ![t] = d] /\ at' = at /\ seen' = seen
    BY <1>3, <2>1, Before DEF Commit
  <2>3. d \in Descriptor
    BY <1>2 DEF Descriptor
  <2>4. /\ d.w_set = W(t) /\ d.start = tx[t].start /\ d.end = tx[t].end /\ d.r_set = tx[t].r_set
        /\ d.ro = tx[t].ro /\ d.lastraddr = tx[t].lastraddr /\ d.type = tx[t].type
        /\ d.status = tx[t].status
    BY <1>2 DEF Descriptor, W
  <2> HIDE DEF d
  <2>5. Calm(t, d)
    BY <1>1, <2>2, <2>3, <2>4 DEF Calm, Away
  <2>6. QED
    BY <1>1, <1>2, <2>2, <2>5, RestMove
<1>4. CASE ~(tx[t].nesting > 1) /\ (tx[t].type = "EL" \/ tx[t].w_set = <<>>)
  <2>1. W(t) = <<>>
    BY <1>4, Before DEF FlatOf, W
  <2>2. tx' = [tx EXCEPT ![t] = Ended(t)] /\ at' = [at EXCEPT ![t] = at[t]]
        /\ seen' = [seen EXCEPT ![t] = {}]
    BY <1>2, <1>4 DEF Commit
  <2>3. tx_count' = Cardinality(Running') /\ tx_overflow' \in BOOLEAN
    BY <1>1, <2>2, Before, CountIs
  <2>4. ~Committed(t) /\ From(t) = 1
    BY <1>1 DEF Committed, From
  <2>5. QED
    BY <1>1, <1>2, <2>1, <2>2, <2>3, <2>4, Before, IdleMove, ResetIs
<1>5. CASE ~(tx[t].nesting > 1) /\ ~(tx[t].type = "EL" \/ tx[t].w_set = <<>>)
  <2> DEFINE c == [pc |-> "timestamp"]
  <2>1. at' = [at EXCEPT ![t] = c] /\ tx' = tx /\ seen' = seen
    BY <1>5 DEF Commit, Goto
  <2>2. c \in Calls /\ c.pc = "timestamp" /\ W(t) # <<>>
    BY <1>5, PlainIs DEF Plain, W
  <2> HIDE DEF c
  <2>3. Calm(t, tx[t])
    BY <1>1, <2>1, CalmSame DEF Away
  <2>4. QED
    BY <2>1, <2>2, <2>3, RestMove
<1>6. QED
  BY <1>3, <1>4, <1>5

\* stm_abort keeps the invariant.
LEMMA AbortStep ==
  ASSUME IInv, NEW t \in Threads, Abort(t)
  PROVE  IInv'
<1>1. Calm(t, tx[t]) /\ Rollback(t)
  BY ActiveIs, CalmSame DEF Abort, unmoved, history, Away
<1>2. QED
  BY <1>1, CalmRollback

\* A valid entry of the read set has not been overwritten.
LEMMA ValidIs ==
  ASSUME IInv, NEW t \in Threads, ~Aborting(t), ~Committed(t), NEW j \in DOMAIN R(t),
         Valid(t, R(t)[j]), NEW k \in 0 .. clock, tx[t].end <= k,
         Pending(t) => k < at[t].now
  PROVE  Stable(R(t)[j].version, R(t)[j].lock, k)
<1> DEFINE r == R(t)[j]
<1>1. r.lock \in Stripes /\ r.version \in Nat /\ ReadEntryOf(t, j) /\ tx[t].end \in Nat
  BY Before, LocalsAre DEF ReadsOf
<1>2. CASE locks[r.lock].owner = t
  <2>1. IsOwned(locks[r.lock])
    BY <1>2, EstmAssumption DEF IsOwned
  <2>2. PICK i \in DOMAIN W(t) : Holds(t, i, r.lock)
    BY <1>1, <1>2, <2>1 DEF IInv, LockOf
  <2>3. NoneLater(r.lock, W(t)[i].version) /\ W(t)[i].version <= tx[t].end /\ W(t)[i].version \in Nat
    BY <1>1, <2>2, Before, LocalsAre DEF EntryOf, Holds, ReadEntryOf
  <2>4. \A v \in DOMAIN log : v \in Nat
    BY Before DEF Global
  <2>5. \A v \in DOMAIN log : r.version < v /\ v <= k => ~Writes(v, r.lock)
    BY <1>1, <2>3, <2>4 DEF NoneLater, ReadEntryOf, Stable
  <2>6. ASSUME NEW u \in Threads, Pending(u), at[u].now <= k, Covers(u, r.lock) PROVE FALSE
    <3>1. PICK h \in DOMAIN W(u) : W(u)[h].lock = r.lock
      BY <2>6 DEF Covers
    <3>2. From(u) <= h
      BY <2>6, Before, LocalsAre DEF From, Pending, At, Pos
    <3>3. u = t
      BY <1>2, <3>1, <3>2, Before DEF EntryOf
    <3>4. at[u].now \in Nat
      BY <2>6, Before, LocalsAre DEF Pending
    <3>5. QED
      BY <2>6, <3>3, <3>4
  <2>7. QED
    BY <2>5, <2>6 DEF Stable, Settled
<1>3. CASE locks[r.lock] = Free(r.version)
  <2>1. ~IsOwned(locks[r.lock]) /\ locks[r.lock].version = r.version
    BY <1>1, <1>3, FreeIs
  <2>2. PICK a \in Addresses : Stripe[a] = r.lock
    BY <1>1 DEF Stripes
  <2>3. r.version <= k
    BY <1>1 DEF ReadEntryOf
  <2>4. QED
    BY <1>1, <2>1, <2>2, <2>3, FreeValue
<1>4. QED
  BY <1>2, <1>3 DEF Valid

\* An entry of the read set is validated (stm_validate).
LEMMA ValidateStep ==
  ASSUME IInv, NEW t \in Threads, Validate(t)
  PROVE  IInv'
<1>1. /\ UNCHANGED <<setting, clock, locks, memory, tx, seen, base, log, tx_overflow, tx_count>>
      /\ at[t].pc = "validate" /\ At(t, "validate") /\ at[t].i <= Len(R(t))
  BY DEF Validate, unmoved, history, At, R
<1>2. Calm(t, tx[t])
  BY <1>1, ActiveIs, CalmSame DEF Away
<1> DEFINE i == at[t].i
<1>3. i \in Pos /\ i \in DOMAIN R(t)
  <2>1. i \in Pos /\ R(t) \in Seq(ReadEntry)
    BY <1>1, Before, LocalsAre, DescriptorIs DEF R
  <2>2. QED
    BY <1>1, <2>1 DEF Pos
<1>4. CASE ~Valid(t, tx[t].r_set[i])
  BY <1>2, <1>4, CalmRollback DEF Validate
<1>5. CASE Valid(t, tx[t].r_set[i])
  <2>1. PICK n \in Pos : n = i + 1
    BY <1>3 DEF Pos
  <2> DEFINE c == [at[t] EXCEPT !.i = n]
  <2>2. at' = [at EXCEPT ![t] = c]
    BY <1>5, <2>1 DEF Validate, Goto
  <2>3. /\ c \in Calls /\ c.pc = "validate" /\ c.for = at[t].for /\ c.i = n /\ c.now = at[t].now
        /\ at[t].for = "load" => c.addr = at[t].addr /\ c.l = at[t].l /\ c.value = at[t].value
        /\ at[t].for \in {"load", "commit"}
    <3>1. at[t].for \in {"commit", "load"}
      BY <1>1, Before, CallIs
    <3>2. CASE at[t].for = "commit"
      <4>1. at[t] \in [pc : {"validate"}, for : {"commit"}, i : Pos, now : Nat]
        BY <1>1, <3>2, Before, CallIs
      <4>2. c \in [pc : {"validate"}, for : {"commit"}, i : Pos, now : Nat] /\ c.i = n
            /\ c.now = at[t].now
        BY <4>1
      <4>3. c \in Calls
        BY <4>2 DEF Calls
      <4>4. QED
        BY <3>2, <4>2, <4>3
    <3>3. CASE at[t].for = "load"
      <4>1. at[t] \in [pc : {"validate"}, for : {"load"}, i : Pos, now : Nat, addr : Addresses,
                       l : FreeLock, value : Val]
        BY <1>1, <3>3, Before, CallIs
      <4>2. /\ c \in [pc : {"validate"}, for : {"load"}, i : Pos, now : Nat, addr : Addresses,
                      l : FreeLock, value : Val]
            /\ c.i = n /\ c.now = at[t].now
            /\ c.addr = at[t].addr /\ c.l = at[t].l /\ c.value = at[t].value
        BY <4>1
      <4>3. c \in Calls
        BY <4>2 DEF Calls
      <4>4. QED
        BY <3>3, <4>2, <4>3
    <3>4. QED
      BY <3>1, <3>2, <3>3
  <2> HIDE DEF c
  <2>4. ~tx[t].ro /\ ~Aborting(t) /\ ~Committed(t)
    BY <1>1, Before DEF ReadsOf, Aborting, Committed, At
  <2>5. Keeps(t, tx[t], c)
    <3>1. tx[t].type # "EL"
      BY <1>1, Before DEF FlatOf, NormalSteps
    <3>2. QED
      BY <1>2, <2>2, <2>3, <2>4, <3>1, CalmKeeps
  <2>6. c.pc = "validate" /\ c.for = "commit" => Pending(t) /\ c.now = at[t].now
    BY <1>1, <2>3 DEF Pending
  <2>7. /\ at'[t] = c /\ tx' = tx /\ W(t)' = W(t) /\ R(t)' = R(t) /\ clock' = clock
        /\ Stripe' = Stripe /\ locks' = locks /\ memory' = memory /\ seen' = seen
        /\ \A u \in Threads : \A h : \A s : Holds(u, h, s)' = Holds(u, h, s)
        /\ \A u \in Threads : W(u)' = W(u) /\ Committed(u)' = Committed(u)
        /\ \A s \in Stripes : \A k \in 0 .. clock : \A version :
              Stable(version, s, k) => Stable(version, s, k)'
    BY <1>1, <2>3, <2>5, <2>6, QuietMove DEF Keeps, R
  <2>8. Goal(t) \in 0 .. clock /\ tx[t].end <= Goal(t) /\ (Pending(t) => Goal(t) < at[t].now)
        /\ Goal(t)' = Goal(t)
    <3>1. at[t].now \in Nat /\ tx[t].end \in Nat /\ clock \in Nat /\ at[t].now <= clock
          /\ (at[t].for = "commit" => tx[t].end < at[t].now)
          /\ (at[t].for = "load" => tx[t].end <= at[t].now)
      BY <1>1, Before, LocalsAre DEF TimesOf, Pending
    <3>2. Goal(t)' = Goal(t)
      BY <2>3, <2>7 DEF Goal
    <3>3. QED
      BY <2>3, <3>1, <3>2 DEF Goal, Pending
  <2>9. \A j \in DOMAIN R(t) : ReadEntryOf(t, j)'
    <3> SUFFICES ASSUME NEW j \in DOMAIN R(t) PROVE ReadEntryOf(t, j)'
      OBVIOUS
    <3>1. ReadEntryOf(t, j) /\ Stable(R(t)[j].version, R(t)[j].lock, tx[t].end)'
      BY <2>5, <2>6, KeepMove
    <3>2. R(t)[j].lock \in Stripes /\ j \in Pos
      BY Before, LocalsAre
    <3>3. j < n => Stable(R(t)[j].version, R(t)[j].lock, Goal(t))
      <4>1. CASE j < i
        BY <1>1, <3>1, <4>1 DEF ReadEntryOf
      <4>2. CASE j = i
        BY <1>5, <2>4, <2>8, <4>2, ValidIs DEF R
      <4>3. QED
        BY <1>3, <2>1, <3>2, <4>1, <4>2 DEF Pos
    <3>4. j < n => Stable(R(t)[j].version, R(t)[j].lock, Goal(t))'
      <4>1. PICK k \in 0 .. clock : k = Goal(t)
        BY <2>8
      <4>2. j < n => Stable(R(t)[j].version, R(t)[j].lock, k)'
        BY <2>7, <3>2, <3>3, <4>1
      <4>3. QED
        BY <2>8, <4>1, <4>2
    <3>5. QED
      BY <2>3, <2>7, <3>1, <3>4 DEF ReadEntryOf, At
  <2>10. TimesOf(t)'
    BY <1>1, <2>3, <2>7, Before DEF TimesOf, Carrying, Pending, Committed, At
  <2>11. VerOf(t)'
    BY <2>3, <2>7 DEF VerOf
  <2>12. FlightOf(t)'
    BY <1>1, <2>3, <2>7, Before DEF FlightOf, Carrying, ValueKnown, At
  <2>13. QED
    BY <2>5, <2>6, <2>9, <2>10, <2>11, <2>12, KeepMove
<1>6. QED
  BY <1>4, <1>5

\* One more access.
LEMMA AccessedIs ==
  ASSUME IInv, NEW t \in Threads, Active(t),
         UNCHANGED <<setting, clock, locks, memory, base, log, seen, tx_overflow, tx_count>>,
         tx' = Accessed(t)
  PROVE  \E d : Calm(t, d) /\ d.type = tx[t].type
<1>1. tx[t] \in Descriptor /\ at[t].pc = "ready" /\ tx[t].status = "ACTIVE"
  BY Before, ActiveIs
<1>2. PICK n \in Nat : n = tx[t].accesses + 1
  BY <1>1 DEF Descriptor
<1> DEFINE d == [tx[t] EXCEPT !.accesses = n]
<1>3. tx' = [tx EXCEPT ![t] = d]
  BY <1>2, Before DEF Accessed
<1>4. d \in Descriptor
  BY <1>1 DEF Descriptor
<1>5. /\ d.w_set = W(t) /\ d.start = tx[t].start /\ d.end = tx[t].end /\ d.r_set = tx[t].r_set
      /\ d.ro = tx[t].ro /\ d.lastraddr = tx[t].lastraddr /\ d.type = tx[t].type
      /\ d.status = tx[t].status
  BY <1>1 DEF Descriptor, W
<1> HIDE DEF d
<1>6. Calm(t, d)
  BY <1>1, <1>3, <1>4, <1>5 DEF Calm, Away
<1>7. QED
  BY <1>5, <1>6

\* stm_normal_load reads a lock.
LEMMA NormalLoadStep ==
  ASSUME IInv, NEW t \in Threads, NEW a \in Addresses, NormalLoad(t, a)
  PROVE  IInv'
<1>1. PICK d : Calm(t, d) /\ d.type = "NL"
  BY AccessedIs DEF NormalLoad, unmoved, history
<1>2. QED
  BY <1>1, LoadMove DEF NormalLoad

\* The value is read between two reads of the lock.
LEMMA LoadValueStep ==
  ASSUME IInv, NEW t \in Threads, LoadValue(t)
  PROVE  IInv'
<1>1. /\ UNCHANGED <<setting, clock, locks, memory, tx, seen, base, log, tx_overflow, tx_count>>
      /\ at[t].pc = "value"
  BY DEF LoadValue, unmoved, history, At
<1>2. Calm(t, tx[t]) /\ tx[t].type # "EL"
  BY <1>1, ActiveIs, CalmSame, Before DEF Away, FlatOf, NormalSteps
<1>3. at[t].addr \in Addresses /\ at[t].l \in FreeLock /\ memory[at[t].addr] \in Val
  BY <1>1, Before, LocalsAre DEF Carrying, Global
<1> DEFINE c == [pc |-> "check", addr |-> at[t].addr, l |-> at[t].l, value |-> memory[at[t].addr]]
<1>4. at' = [at EXCEPT ![t] = c]
  BY DEF LoadValue, Goto
<1>5. /\ c \in Calls /\ c.pc = "check" /\ c.addr = at[t].addr /\ c.l = at[t].l
      /\ c.value = memory[at[t].addr]
  BY <1>3 DEF Calls
<1> HIDE DEF c
<1>6. Keeps(t, tx[t], c)
  BY <1>2, <1>4, <1>5, CalmKeeps
<1>7. /\ at'[t] = c /\ tx' = tx /\ W(t)' = W(t) /\ clock' = clock /\ Stripe' = Stripe
      /\ locks' = locks /\ memory' = memory
      /\ \A u \in Threads : \A i : \A s : Holds(u, i, s)' = Holds(u, i, s)
      /\ \A u \in Threads : W(u)' = W(u) /\ Committed(u)' = Committed(u)
  BY <1>1, <1>5, <1>6, QuietMove DEF Keeps
<1>8. TimesOf(t)'
  BY <1>1, <1>5, <1>7, Before DEF TimesOf, Carrying, Pending, Committed, At
<1>9. VerOf(t)'
  BY <1>5, <1>7 DEF VerOf
<1>10. FlightOf(t)'
  BY <1>1, <1>5, <1>7, Before DEF FlightOf, Carrying, ValueKnown, At
<1>11. QED
  BY <1>5, <1>6, <1>8, <1>9, <1>10, KeepMove

\* The value that was loaded under a lock that has not changed since.
LEMMA LoadedStep ==
  ASSUME IInv, NEW t \in Threads, at[t].pc \in {"check", "recheck"},
         locks[Stripe[at[t].addr]] = at[t].l, at[t].l.version <= tx[t].end,
         Loaded(t, at[t].l.version),
         UNCHANGED <<setting, clock, locks, memory, base, log, tx_overflow, tx_count>>
  PROVE  IInv'
<1>0. PICK s \in Stripes, l \in FreeLock, a \in Addresses :
        s = Stripe[at[t].addr] /\ l = at[t].l /\ a = at[t].addr
  BY Before, LocalsAre, SettingIs DEF Carrying
<1> DEFINE entry == [version |-> l.version, lock |-> s]
           read == [addr |-> a, value |-> at[t].value]
           r == seen[t] \cup {read}
           d == IF tx[t].ro THEN tx[t] ELSE [tx[t] EXCEPT !.r_set = Append(R(t), entry)]
           c == Ready
<1>1. /\ a \in Addresses /\ l \in FreeLock /\ at[t].value \in Val /\ s \in Stripes
      /\ l.version \in Nat /\ ~IsOwned(l) /\ tx[t].end \in Nat /\ tx[t].start \in Nat
      /\ tx[t].end <= clock /\ tx[t].start <= clock /\ l.version <= tx[t].end
  BY <1>0, Before, LocalsAre, SettingIs, FreeIs DEF Carrying, ValueKnown, TimesOf
<1>2. tx[t].type # "EL" /\ tx[t].status = "ACTIVE" /\ ~Aborting(t) /\ ~Committed(t) /\ From(t) = 1
  BY Before, ActiveIs DEF FlatOf, NormalSteps, Aborting, Committed, From, At
<1>3. tx[t] \in Descriptor /\ R(t) \in Seq(ReadEntry) /\ entry \in ReadEntry /\ read \in Read
  BY <1>1, Before, DescriptorIs DEF R, ReadEntry, Read
<1>4. tx' = [tx EXCEPT ![t] = d] /\ at' = [at EXCEPT ![t] = c] /\ seen' = [seen EXCEPT ![t] = r]
  <2>1. tx' = IF tx[t].ro THEN tx ELSE [tx EXCEPT ![t] = [tx[t] EXCEPT !.r_set = Append(R(t), entry)]]
    BY <1>0 DEF Loaded, R
  <2>2. tx = [tx EXCEPT ![t] = tx[t]]
    BY Before
  <2>3. at' = [at EXCEPT ![t] = c] /\ seen' = [seen EXCEPT ![t] = r]
    BY <1>0 DEF Loaded, Goto
  <2>4. QED
    BY <2>1, <2>2, <2>3
<1>5. d \in Descriptor
  <2>1. PICK q \in Seq(ReadEntry) : q = Append(R(t), entry)
    <3>1. \A x \in Seq(ReadEntry) : \A e \in ReadEntry : Append(x, e) \in Seq(ReadEntry)
      OBVIOUS
    <3>2. QED
      BY <1>3, <3>1
  <2>2. [tx[t] EXCEPT !.r_set = q] \in Descriptor
    BY <1>3 DEF Descriptor
  <2>3. QED
    BY <1>3, <2>1, <2>2
<1>6. /\ d.w_set = W(t) /\ d.start = tx[t].start /\ d.end = tx[t].end /\ d.ro = tx[t].ro
      /\ d.lastraddr = tx[t].lastraddr /\ d.type = tx[t].type /\ d.status = "ACTIVE"
      /\ d.r_set = IF tx[t].ro THEN R(t) ELSE Append(R(t), entry)
  BY <1>2, <1>3 DEF Descriptor, W, R
<1>7. c \in Calls /\ c.pc = "ready" /\ r \subseteq Read
  BY <1>3, Before, PlainIs DEF Ready, Plain
<1> HIDE DEF d, c
<1>8. Moves(t, d, c, r)
  BY <1>4, <1>5, <1>6, <1>7 DEF Moves, Away
<1>9. /\ tx'[t] = d /\ at'[t] = c /\ seen'[t] = r /\ clock' = clock /\ W(t)' = W(t)
      /\ Stripe' = Stripe /\ clock \in Nat
      /\ \A x \in Addresses : \A k \in 0 .. clock : \A value :
              Fixed(x, value, k) => Fixed(x, value, k)'
      /\ \A x \in Stripes : \A k \in 0 .. clock : \A version :
              Stable(version, x, k) => Stable(version, x, k)'
      /\ IdleOf(t)' /\ TimesOf(t)' /\ ReadsOf(t)' /\ WindowOf(t)' /\ VerOf(t)' /\ FlightOf(t)'
         /\ FlatOf(t)' => IInv'
  BY <1>7, <1>8, QuietMove
<1>10. IdleOf(t)' /\ TimesOf(t)'
  BY <1>1, <1>6, <1>7, <1>9 DEF IdleOf, Idle, TimesOf, Carrying, Pending, Committed, At
<1>11. VerOf(t)' /\ FlightOf(t)'
  BY <1>7, <1>9 DEF VerOf, FlightOf, Carrying, At
<1>12. WindowOf(t)'
  BY <1>2, <1>6, <1>9 DEF WindowOf
<1>13. at[t].value = memory[a]
  BY <1>0, Before DEF FlightOf, Carrying, ValueKnown
<1>14. \A k \in 0 .. clock : l.version <= k =>
         Fixed(a, at[t].value, k) /\ Stable(l.version, s, k)
  BY <1>0, <1>1, <1>13, FreeValue
<1>15. FlatOf(t)'
  <2>1. tx[t].end <= tx[t].start => \A x \in r : Fixed(x.addr, x.value, tx[t].start)'
    <3> SUFFICES ASSUME tx[t].end <= tx[t].start, NEW x \in r
                 PROVE  Fixed(x.addr, x.value, tx[t].start)'
      OBVIOUS
    <3>1. Fixed(x.addr, x.value, tx[t].start) /\ x.addr \in Addresses
      <4>1. CASE x = read
        BY <1>1, <1>14, <4>1
      <4>2. CASE x \in seen[t]
        BY <1>2, <4>2, Before, LocalsAre DEF FlatOf
      <4>3. QED
        BY <4>1, <4>2
    <3>2. tx[t].start \in 0 .. clock /\ tx'[t].start = tx[t].start
      BY <1>1, <1>6, <1>9
    <3>3. QED
      BY <1>9, <3>1, <3>2
  <2>2. QED
    BY <1>2, <1>6, <1>9, <2>1 DEF FlatOf
<1>16. \A x \in r : Fixed(x.addr, x.value, tx[t].end)'
  <2> SUFFICES ASSUME NEW x \in r PROVE Fixed(x.addr, x.value, tx[t].end)'
    OBVIOUS
  <2>1. Fixed(x.addr, x.value, tx[t].end) /\ x.addr \in Addresses
    <3>1. CASE x = read
      BY <1>1, <1>14, <3>1
    <3>2. CASE x \in seen[t]
      BY <1>2, <3>2, Before, LocalsAre DEF ReadsOf
    <3>3. QED
      BY <3>1, <3>2
  <2>2. tx[t].end \in 0 .. clock /\ tx'[t].end = tx[t].end
    BY <1>1, <1>6, <1>9
  <2>3. QED
    BY <1>9, <2>1, <2>2
<1>17. \A j \in DOMAIN R(t) : R(t)'[j] = R(t)[j] /\ j \in DOMAIN R(t)'
  <2>1. R(t)' = IF tx[t].ro THEN R(t) ELSE Append(R(t), entry)
    BY <1>6, <1>9 DEF R
  <2>2. \A j \in DOMAIN R(t) : /\ Append(R(t), entry)[j] = R(t)[j]
                              /\ j \in DOMAIN Append(R(t), entry)
    BY <1>3
  <2>3. QED
    BY <2>1, <2>2
<1>18. ASSUME ~tx[t].ro
       PROVE  /\ \A j \in DOMAIN R(t)' : j \in DOMAIN R(t) \/ R(t)'[j] = entry
              /\ \E j \in DOMAIN R(t)' : R(t)'[j] = entry
  <2>1. R(t)' = Append(R(t), entry)
    BY <1>6, <1>9, <1>18 DEF R
  <2>2. /\ Len(R(t)) + 1 \in DOMAIN Append(R(t), entry)
        /\ Append(R(t), entry)[Len(R(t)) + 1] = entry
        /\ \A j \in DOMAIN Append(R(t), entry) : j \in DOMAIN R(t) \/ j = Len(R(t)) + 1
    BY <1>3
  <2>3. QED
    BY <2>1, <2>2
<1>19. tx[t].ro => R(t)' = R(t)
  BY <1>6, <1>9 DEF R
<1>20. \A j \in DOMAIN R(t)' : ReadEntryOf(t, j)'
  <2> SUFFICES ASSUME NEW j \in DOMAIN R(t)' PROVE ReadEntryOf(t, j)'
    OBVIOUS
  <2>1. at'[t].pc = "ready" /\ tx'[t].end = tx[t].end /\ tx[t].end \in 0 .. clock
    BY <1>1, <1>6, <1>7, <1>9
  <2>2. CASE j \in DOMAIN R(t)
    <3>1. ReadEntryOf(t, j) /\ R(t)[j].lock \in Stripes /\ R(t)'[j] = R(t)[j]
      BY <1>2, <1>17, <2>2, Before, LocalsAre DEF ReadsOf
    <3>2. Stable(R(t)[j].version, R(t)[j].lock, tx[t].end)'
      BY <1>9, <2>1, <2>2, <3>1 DEF ReadEntryOf
    <3>3. QED
      BY <1>9, <2>1, <3>1, <3>2 DEF ReadEntryOf, At
  <2>3. CASE R(t)'[j] = entry
    <3>1. Stable(l.version, s, tx[t].end)
      BY <1>1, <1>14, <2>1
    <3>2. Stable(l.version, s, tx[t].end)'
      BY <1>9, <2>1, <3>1
    <3>3. \A i \in DOMAIN W(t) : W(t)[i].lock # s
      <4>1. \A i \in DOMAIN W(t) : W(t)[i].lock = s => locks[s].owner = t
        BY <1>2, Before, LocalsAre DEF EntryOf, Pos
      <4>2. locks[s].owner # t
        BY <1>0, <1>1, EstmAssumption DEF IsOwned
      <4>3. QED
        BY <4>1, <4>2
    <3>4. R(t)'[j].version = l.version /\ R(t)'[j].lock = s
      BY <2>3
    <3>5. Stable(R(t)[j].version, R(t)[j].lock, tx[t].end)'
      BY <3>2, <3>4
    <3>6. QED
      BY <1>1, <1>9, <2>1, <3>3, <3>4, <3>5 DEF ReadEntryOf, At
  <2>4. QED
    BY <1>18, <1>19, <2>2, <2>3
<1>21. ReadsOf(t)'
  <2>1. tx[t].ro => W(t) = <<>>
    BY <1>2, Before DEF ReadsOf
  <2>2. ~tx[t].ro => \A x \in r : \E j \in DOMAIN R(t)' : R(t)'[j].lock = Stripe[x.addr]
    <3> SUFFICES ASSUME ~tx[t].ro, NEW x \in r
                 PROVE  \E j \in DOMAIN R(t)' : R(t)'[j].lock = Stripe[x.addr]
      OBVIOUS
    <3>1. CASE x = read
      BY <1>0, <1>18, <3>1
    <3>2. CASE x \in seen[t]
      BY <1>2, <1>17, <3>2, Before DEF ReadsOf
    <3>3. QED
      BY <3>1, <3>2
  <2>3. tx'[t].ro = tx[t].ro /\ at'[t].pc = "ready" /\ tx'[t].end = tx[t].end
    BY <1>6, <1>7, <1>9
  <2>4. \A x \in seen'[t] : Fixed(x.addr, x.value, tx[t].end)'
    BY <1>9, <1>16
  <2>5. QED
    BY <1>9, <1>20, <2>1, <2>2, <2>3, <2>4 DEF ReadsOf
<1>22. QED
  BY <1>9, <1>10, <1>11, <1>12, <1>15, <1>21

\* The value that was loaded is carried along.
LEMMA FlightStays ==
  ASSUME IInv, NEW t \in Threads, NEW d, NEW c, NEW r, Moves(t, d, c, r), c.pc # "rollback",
         c.pc = "validate" /\ c.for = "commit" => Pending(t) /\ c.now = at[t].now,
         ValueKnown(t), c.addr = at[t].addr, c.l = at[t].l, c.value = at[t].value
  PROVE  FlightOf(t)'
<1>1. /\ at'[t] = c /\ Stripe' = Stripe /\ locks' = locks /\ memory' = memory
      /\ \A u \in Threads : \A h : \A s : Holds(u, h, s)' = Holds(u, h, s)
      /\ \A u \in Threads : W(u)' = W(u) /\ Committed(u)' = Committed(u)
  BY QuietMove
<1>2. FlightOf(t) /\ Carrying(t)
  BY Before DEF ValueKnown
<1>3. QED
  BY <1>1, <1>2 DEF FlightOf

\* The lock is as before the value was read, or the load starts again.
LEMMA LoadCheckStep ==
  ASSUME IInv, NEW t \in Threads, LoadCheck(t)
  PROVE  IInv'
<1>1. /\ UNCHANGED <<setting, clock, locks, memory, base, log, tx_overflow, tx_count>>
      /\ at[t].pc = "check"
  BY DEF LoadCheck, unmoved, At
<1>2. at[t].addr \in Addresses /\ at[t].l \in FreeLock /\ at[t].value \in Val /\ ValueKnown(t)
  BY <1>1, Before, LocalsAre DEF Carrying, ValueKnown
<1>3. tx[t].type = "NL" /\ tx[t].status = "ACTIVE" /\ at[t].pc \notin Away
  BY <1>1, Before, ActiveIs DEF FlatOf, NormalSteps, Descriptor, Away
<1>4. CASE at[t].l # locks[Stripe[at[t].addr]]
  <2>1. tx' = tx /\ seen' = seen /\ LoadLocked(t, at[t].addr, locks[Stripe[at[t].addr]])
    BY <1>4 DEF LoadCheck
  <2>2. Calm(t, tx[t])
    BY <1>1, <1>3, <2>1, CalmSame
  <2>3. QED
    BY <1>2, <1>3, <2>1, <2>2, LoadMove
<1>5. CASE at[t].l = locks[Stripe[at[t].addr]] /\ at[t].l.version <= tx[t].end
  <2>1. Loaded(t, at[t].l.version)
    BY <1>5 DEF LoadCheck
  <2>2. QED
    BY <1>1, <1>5, <2>1, LoadedStep
<1>6. CASE at[t].l = locks[Stripe[at[t].addr]] /\ ~(at[t].l.version <= tx[t].end)
  <2>1. tx' = tx /\ seen' = seen
    BY <1>6 DEF LoadCheck
  <2>2. Calm(t, tx[t])
    BY <1>1, <1>3, <2>1, CalmSame
  <2>3. CASE tx[t].ro \/ ~tx[t].can_extend
    BY <1>6, <2>2, <2>3, CalmRollback DEF LoadCheck
  <2>4. CASE ~(tx[t].ro \/ ~tx[t].can_extend)
    <3> DEFINE c == [at[t] EXCEPT !.pc = "extend"]
    <3>1. at' = [at EXCEPT ![t] = c]
      BY <1>6, <2>4 DEF LoadCheck, Goto
    <3>2. /\ c \in Calls /\ c.pc = "extend" /\ c.addr = at[t].addr /\ c.l = at[t].l
          /\ c.value = at[t].value
      <4>1. at[t] \in [pc : {"check", "extend", "recheck"}, addr : Addresses, l : FreeLock,
                       value : Val]
        BY <1>1, Before, CallIs
      <4>2. c \in [pc : {"check", "extend", "recheck"}, addr : Addresses, l : FreeLock,
                   value : Val]
        BY <4>1
      <4>3. c \in Calls
        BY <4>2 DEF Calls
      <4>4. QED
        BY <4>1, <4>3
    <3> HIDE DEF c
    <3>3. Keeps(t, tx[t], c)
      BY <1>3, <2>2, <2>4, <3>1, <3>2, CalmKeeps
    <3>4. at'[t] = c /\ tx' = tx /\ clock' = clock /\ W(t)' = W(t)
      BY <1>1, <2>1, <3>2, <3>3, QuietMove DEF Keeps
    <3>5. TimesOf(t)' /\ VerOf(t)'
      BY <1>1, <3>2, <3>4, Before DEF TimesOf, VerOf, Carrying, Pending, Committed, At
    <3>6. FlightOf(t)'
      BY <1>2, <3>2, <3>3, FlightStays DEF Keeps
    <3>7. QED
      BY <3>2, <3>3, <3>5, <3>6, KeepMove
  <2>5. QED
    BY <2>3, <2>4
<1>7. QED
  BY <1>4, <1>5, <1>6

\* stm_extend begins.
LEMMA ExtendStep ==
  ASSUME IInv, NEW t \in Threads, Extend(t)
  PROVE  IInv'
<1>1. /\ UNCHANGED <<setting, clock, locks, memory, tx, seen, base, log, tx_overflow, tx_count>>
      /\ at[t].pc = "extend"
  BY DEF Extend, unmoved, history, At
<1>2. at[t].addr \in Addresses /\ at[t].l \in FreeLock /\ at[t].value \in Val /\ ValueKnown(t)
      /\ clock \in Nat
  BY <1>1, Before, LocalsAre DEF Carrying, ValueKnown
<1>3. Calm(t, tx[t]) /\ tx[t].type # "EL" /\ ~tx[t].ro
  BY <1>1, ActiveIs, CalmSame, Before DEF Away, FlatOf, NormalSteps, ReadsOf, Aborting, At
<1>4. CASE clock >= VERSION_MAX
  BY <1>3, <1>4, CalmRollback DEF Extend
<1>5. CASE ~(clock >= VERSION_MAX)
  <2> DEFINE c == [pc |-> "validate", for |-> "load", i |-> 1, now |-> clock,
                   addr |-> at[t].addr, l |-> at[t].l, value |-> at[t].value]
  <2>1. at' = [at EXCEPT ![t] = c]
    BY <1>5 DEF Extend, Goto
  <2>2. /\ c \in Calls /\ c.pc = "validate" /\ c.for = "load" /\ c.i = 1 /\ c.now = clock
        /\ c.addr = at[t].addr /\ c.l = at[t].l /\ c.value = at[t].value
    BY <1>2 DEF Calls, Pos
  <2> HIDE DEF c
  <2>3. Keeps(t, tx[t], c)
    BY <1>3, <2>1, <2>2, CalmKeeps
  <2>4. at'[t] = c /\ tx' = tx /\ clock' = clock /\ W(t)' = W(t) /\ R(t)' = R(t)
    BY <1>1, <2>2, <2>3, QuietMove DEF Keeps, R
  <2>5. TimesOf(t)' /\ VerOf(t)'
    BY <1>1, <1>2, <2>2, <2>4, Before DEF TimesOf, VerOf, Carrying, Pending, Committed, At
  <2>6. FlightOf(t)'
    BY <1>2, <2>2, <2>3, FlightStays DEF Keeps
  <2>7. \A j \in DOMAIN R(t) : ReadEntryOf(t, j)'
    <3> SUFFICES ASSUME NEW j \in DOMAIN R(t) PROVE ReadEntryOf(t, j)'
      OBVIOUS
    <3>1. ReadEntryOf(t, j) /\ Stable(R(t)[j].version, R(t)[j].lock, tx[t].end)'
      BY <2>2, <2>3, KeepMove
    <3>2. j \in Nat /\ ~(j < 1)
      BY Before, LocalsAre DEF Pos
    <3>3. QED
      BY <2>2, <2>4, <3>1, <3>2 DEF ReadEntryOf, At
  <2>8. QED
    BY <2>2, <2>3, <2>5, <2>6, <2>7, KeepMove
<1>6. QED
  BY <1>4, <1>5

\* Everything that was read up to the old end has been validated up to the new one.
LEMMA ExtendedStep ==
  ASSUME IInv, NEW t \in Threads, Extended(t)
  PROVE  IInv'
<1>1. /\ UNCHANGED <<setting, clock, locks, memory, seen, base, log, tx_overflow, tx_count>>
      /\ at[t].pc = "validate" /\ at[t].for = "load" /\ at[t].i > Len(R(t))
  BY DEF Extended, Validated, unmoved, history, At, R
<1>2. PICK now \in Nat, a \in Addresses, l \in FreeLock, value \in Val :
        now = at[t].now /\ a = at[t].addr /\ l = at[t].l /\ value = at[t].value
  BY <1>1, Before, LocalsAre DEF Carrying, ValueKnown, At
<1>3. /\ tx[t].type # "EL" /\ ~tx[t].ro /\ ~Aborting(t) /\ ~Committed(t) /\ ~Pending(t)
      /\ tx[t].status = "ACTIVE" /\ tx[t] \in Descriptor /\ ValueKnown(t)
  BY <1>1, ActiveIs, Before
     DEF Away, FlatOf, NormalSteps, ReadsOf, Aborting, Committed, Pending, ValueKnown, Carrying, At
<1>4. /\ now <= clock /\ tx[t].end <= now /\ l.version <= now /\ tx[t].start <= clock
      /\ tx[t].end \in Nat /\ tx[t].start \in Nat /\ clock \in Nat /\ l.version \in Nat
  BY <1>1, <1>2, Before, LocalsAre, FreeIs DEF TimesOf, At
<1> DEFINE d == [tx[t] EXCEPT !.end = now]
           c == [pc |-> "recheck", addr |-> a, l |-> l, value |-> value]
<1>5. tx' = [tx EXCEPT ![t] = d] /\ at' = [at EXCEPT ![t] = c]
  BY <1>2 DEF Extended, Goto
<1>6. /\ d \in Descriptor
      /\ d.w_set = W(t) /\ d.start = tx[t].start /\ d.end = now /\ d.r_set = R(t)
      /\ d.ro = tx[t].ro /\ d.type = tx[t].type /\ d.status = "ACTIVE"
  BY <1>3 DEF Descriptor, W, R
<1>7. c \in Calls /\ c.pc = "recheck" /\ c.addr = a /\ c.l = l /\ c.value = value
  BY DEF Calls
<1> HIDE DEF d, c
<1>8. Moves(t, d, c, seen[t])
  BY <1>1, <1>5, <1>6, <1>7, Before DEF Moves, Away
<1>9. /\ tx'[t] = d /\ at'[t] = c /\ seen'[t] = seen[t] /\ clock' = clock /\ W(t)' = W(t)
      /\ Stripe' = Stripe
      /\ \A x \in Addresses : \A k \in 0 .. clock : \A v :
              Fixed(x, v, k) => Fixed(x, v, k)'
      /\ \A x \in Stripes : \A k \in 0 .. clock : \A v :
              Stable(v, x, k) => Stable(v, x, k)'
      /\ IdleOf(t)' /\ TimesOf(t)' /\ ReadsOf(t)' /\ WindowOf(t)' /\ VerOf(t)' /\ FlightOf(t)'
         /\ FlatOf(t)' => IInv'
  BY <1>7, <1>8, QuietMove
<1>10. R(t)' = R(t)
  BY <1>6, <1>9 DEF R
<1>11. IdleOf(t)' /\ TimesOf(t)'
  BY <1>4, <1>6, <1>7, <1>9 DEF IdleOf, Idle, TimesOf, Carrying, Pending, Committed, At
<1>12. VerOf(t)' /\ WindowOf(t)'
  BY <1>3, <1>6, <1>7, <1>9 DEF VerOf, WindowOf
<1>13. FlightOf(t)'
  BY <1>2, <1>3, <1>7, <1>8, FlightStays
<1>14. \A j \in DOMAIN R(t) : ReadEntryOf(t, j) /\ Stable(R(t)[j].version, R(t)[j].lock, now)
  <2> SUFFICES ASSUME NEW j \in DOMAIN R(t)
               PROVE  ReadEntryOf(t, j) /\ Stable(R(t)[j].version, R(t)[j].lock, now)
    OBVIOUS
  <2>1. ReadEntryOf(t, j)
    BY <1>3, Before DEF ReadsOf
  <2>2. j < at[t].i
    <3>1. j \in Nat /\ j <= Len(R(t)) /\ at[t].i \in Nat /\ Len(R(t)) \in Nat
      BY <1>1, Before, LocalsAre, DescriptorIs DEF At, Pos, R
    <3>2. QED
      BY <1>1, <3>1
  <2>3. Goal(t) = now
    BY <1>1, <1>2 DEF Goal
  <2>4. QED
    BY <1>1, <2>1, <2>2, <2>3 DEF ReadEntryOf, At
<1>15. \A r \in seen[t] : Fixed(r.addr, r.value, now) /\ r.addr \in Addresses
  <2> SUFFICES ASSUME NEW r \in seen[t]
               PROVE  Fixed(r.addr, r.value, now) /\ r.addr \in Addresses
    OBVIOUS
  <2>1. r.addr \in Addresses /\ Fixed(r.addr, r.value, tx[t].end)
    BY <1>3, Before, LocalsAre DEF ReadsOf
  <2>2. PICK j \in DOMAIN R(t) : R(t)[j].lock = Stripe[r.addr]
    BY <1>3, Before DEF ReadsOf
  <2>3. Stable(R(t)[j].version, R(t)[j].lock, now) /\ R(t)[j].version <= tx[t].end
        /\ R(t)[j].version \in Nat
    BY <1>14, Before, LocalsAre DEF ReadEntryOf
  <2>4. \A v \in DOMAIN log : v \in Nat
    BY Before DEF Global
  <2>5. \A v \in DOMAIN log : tx[t].end < v /\ v <= now => r.addr \notin DOMAIN log[v].writes
    BY <1>4, <2>1, <2>2, <2>3, <2>4 DEF Stable, Writes
  <2>6. Snapshot(tx[t].end)[r.addr] = Snapshot(now)[r.addr]
    BY <1>4, <2>1, <2>5, SnapshotSame
  <2>7. QED
    BY <2>1, <2>2, <2>3, <2>6 DEF Fixed, Stable
<1>16. ReadsOf(t)'
  <2>1. \A r \in seen[t] : Fixed(r.addr, r.value, now)'
    BY <1>4, <1>9, <1>15
  <2>2. \A j \in DOMAIN R(t) : ReadEntryOf(t, j)'
    <3> SUFFICES ASSUME NEW j \in DOMAIN R(t) PROVE ReadEntryOf(t, j)'
      OBVIOUS
    <3>1. ReadEntryOf(t, j) /\ R(t)[j].lock \in Stripes /\ R(t)[j].version \in Nat
      BY <1>14, Before, LocalsAre
    <3>2. Stable(R(t)[j].version, R(t)[j].lock, now)'
      BY <1>4, <1>9, <1>10, <1>14, <3>1
    <3>3. \A i \in DOMAIN W(t) : W(t)[i].version \in Nat
      BY Before, LocalsAre
    <3>4. QED
      BY <1>4, <1>6, <1>7, <1>9, <1>10, <3>1, <3>2, <3>3 DEF ReadEntryOf, At
  <2>3. \A r \in seen[t] : \E j \in DOMAIN R(t) : R(t)[j].lock = Stripe[r.addr]
    BY <1>3, Before DEF ReadsOf
  <2>4. QED
    BY <1>3, <1>6, <1>9, <1>10, <2>1, <2>2, <2>3 DEF ReadsOf
<1>17. FlatOf(t)'
  <2>1. now <= tx[t].start => \A r \in seen[t] : Fixed(r.addr, r.value, tx[t].start)'
    <3>1. now <= tx[t].start => \A r \in seen[t] : Fixed(r.addr, r.value, tx[t].start)
      BY <1>3, <1>4, Before DEF FlatOf
    <3>2. tx'[t].start = tx[t].start /\ tx[t].start \in 0 .. clock
      BY <1>4, <1>6, <1>9
    <3>3. QED
      BY <1>9, <1>15, <3>1, <3>2
  <2>2. QED
    BY <1>3, <1>6, <1>9, <2>1 DEF FlatOf
<1>18. QED
  BY <1>9, <1>11, <1>12, <1>13, <1>16, <1>17

\* After the extension the lock is looked at once more.
LEMMA LoadRecheckStep ==
  ASSUME IInv, NEW t \in Threads, LoadRecheck(t)
  PROVE  IInv'
<1>1. /\ UNCHANGED <<setting, clock, locks, memory, base, log, tx_overflow, tx_count>>
      /\ at[t].pc = "recheck"
  BY DEF LoadRecheck, unmoved, At
<1>2. at[t].addr \in Addresses /\ Carrying(t) /\ at[t].l.version <= tx[t].end
  BY <1>1, Before, LocalsAre DEF Carrying, TimesOf, At
<1>3. tx[t].type = "NL" /\ tx[t].status = "ACTIVE" /\ at[t].pc \notin Away
  BY <1>1, Before, ActiveIs DEF FlatOf, NormalSteps, Descriptor, Away
<1>4. CASE locks[Stripe[at[t].addr]] # at[t].l
  <2>1. tx' = tx /\ seen' = seen /\ LoadLocked(t, at[t].addr, at[t].l)
    BY <1>4 DEF LoadRecheck
  <2>2. Calm(t, tx[t])
    BY <1>1, <1>3, <2>1, CalmSame
  <2>3. QED
    BY <1>2, <1>3, <2>1, <2>2, LoadMove
<1>5. CASE locks[Stripe[at[t].addr]] = at[t].l
  <2>1. Loaded(t, at[t].l.version)
    BY <1>5 DEF LoadRecheck
  <2>2. QED
    BY <1>1, <1>2, <1>5, <2>1, LoadedStep
<1>6. QED
  BY <1>4, <1>5

\* stm_elastic_load begins.
LEMMA ElasticLoadStep ==
  ASSUME IInv, NEW t \in Threads, NEW a \in Addresses, ElasticLoad(t, a)
  PROVE  IInv'
<1>1. PICK d : Calm(t, d) /\ d.type = "EL" /\ tx'[t] = d
  <2>1. PICK d : Calm(t, d) /\ d.type = tx[t].type
    BY AccessedIs DEF ElasticLoad, unmoved, history
  <2>2. tx'[t] = d /\ tx[t].type = "EL"
    BY <2>1, Before DEF Calm, ElasticLoad
  <2>3. QED
    BY <2>1, <2>2
<1> DEFINE c == [pc |-> "verLock", addr |-> a, i |-> 0, l |-> Free(0), value |-> Zero, x |-> None,
                 ts |-> 0]
<1>2. at' = [at EXCEPT ![t] = c]
  BY DEF ElasticLoad, Goto
<1>3. /\ c \in Calls /\ c.pc = "verLock" /\ c.i = 0 /\ c.ts = 0
  <2>1. Zero \in Val /\ None \in Cell /\ Free(0) \in FreeLock
    BY FreeIs DEF Zero, Word, Val, None, Cell
  <2>2. c \in [pc : {"verLock", "verValue", "verCheck"}, addr : Addresses, i : 0 .. 2,
               l : FreeLock, value : Val, x : Cell, ts : Nat]
    BY <2>1
  <2>3. QED
    BY <2>2 DEF Calls
<1> HIDE DEF c
<1>4. Keeps(t, d, c)
  BY <1>1, <1>2, <1>3, CalmKeeps DEF NormalSteps
<1>5. at'[t] = c /\ clock' = clock /\ W(t)' = W(t) /\ clock \in Nat
  BY <1>3, <1>4, QuietMove DEF Keeps
<1>6. TimesOf(t)'
  <2>1. d.start <= clock /\ d.end <= clock
    BY <1>1, Before DEF Calm, TimesOf
  <2>2. QED
    BY <1>1, <1>3, <1>5, <2>1 DEF TimesOf, Carrying, Pending, Committed, At
<1>7. VerOf(t)' /\ FlightOf(t)'
  BY <1>1, <1>3, <1>5 DEF VerOf, FlightOf, Carrying, At
<1>8. QED
  BY <1>3, <1>4, <1>6, <1>7, KeepMove

\* The load of an elastic transaction goes on with the same address.
LEMMA VerMove ==
  ASSUME IInv, NEW t \in Threads, at[t].pc \in {"verLock", "verValue", "verCheck"},
         UNCHANGED <<setting, clock, locks, memory, tx, seen, base, log, tx_overflow, tx_count>>,
         NEW l \in FreeLock, NEW value \in Val, NEW pc \in {"verLock", "verValue", "verCheck"},
         at' = [at EXCEPT ![t] = [at[t] EXCEPT !.pc = pc, !.l = l, !.value = value]],
         \/ pc = "verLock"
         \/ pc = "verValue" /\ l = locks[Stripe[at[t].addr]]
         \/ pc = "verCheck" /\ l = at[t].l /\ at[t].pc = "verValue" /\ value = memory[at[t].addr]
  PROVE  IInv'
<1>1. Calm(t, tx[t]) /\ tx[t].type = "EL"
  BY ActiveIs, CalmSame, Before DEF Away, VerOf
<1> DEFINE c == [at[t] EXCEPT !.pc = pc, !.l = l, !.value = value]
<1>2. /\ at[t].addr \in Addresses /\ c \in Calls /\ c.pc = pc /\ c.addr = at[t].addr
      /\ c.l = l /\ c.value = value /\ c.i = at[t].i /\ c.x = at[t].x /\ c.ts = at[t].ts
  <2>1. at[t] \in [pc : {"verLock", "verValue", "verCheck"}, addr : Addresses, i : 0 .. 2,
                   l : FreeLock, value : Val, x : Cell, ts : Nat]
    BY Before, CallIs
  <2>2. /\ c \in [pc : {"verLock", "verValue", "verCheck"}, addr : Addresses, i : 0 .. 2,
                  l : FreeLock, value : Val, x : Cell, ts : Nat]
        /\ c.pc = pc /\ c.addr = at[t].addr
        /\ c.l = l /\ c.value = value /\ c.i = at[t].i /\ c.x = at[t].x /\ c.ts = at[t].ts
    BY <2>1
  <2>3. c \in Calls
    BY <2>2 DEF Calls
  <2>4. QED
    BY <2>1, <2>2, <2>3
<1> HIDE DEF c
<1>3. Keeps(t, tx[t], c)
  BY <1>1, <1>2, CalmKeeps DEF NormalSteps, c
<1>4. /\ at'[t] = c /\ tx' = tx /\ clock' = clock /\ W(t)' = W(t) /\ Stripe' = Stripe
      /\ locks' = locks /\ memory' = memory /\ clock \in Nat
      /\ \A u \in Threads : W(u)' = W(u) /\ Committed(u)' = Committed(u)
                            /\ \A i : \A s : Holds(u, i, s)' = Holds(u, i, s)
      /\ \A a \in Addresses : \A k \in 0 .. clock : \A v :
           Fixed(a, v, k) => Fixed(a, v, k)'
  BY <1>2, <1>3, QuietMove DEF Keeps
<1>5. Stripe[at[t].addr] \in Stripes
  BY <1>2, Before, SettingIs
<1>6. pc = "verValue" => l.version <= clock
  BY <1>5, FreeIs DEF IInv, LockOf
<1>7. TimesOf(t)'
  BY <1>2, <1>4, <1>6, Before DEF TimesOf, Carrying, Pending, Committed, At
<1>8. VerOf(t)'
  <2>1. VerOf(t) /\ at[t].ts \in 0 .. clock /\ tx'[t] = tx[t]
    BY <1>4, Before, LocalsAre DEF TimesOf
  <2>2. at[t].i > 0 => Fixed(at[t].x.addr, at[t].x.value, at[t].ts)'
    <3>1. at[t].i > 0 =>
            at[t].x.addr \in Addresses /\ Fixed(at[t].x.addr, at[t].x.value, at[t].ts)
      BY <2>1, Before, LocalsAre DEF VerOf, Cell
    <3>2. at'[t].x = at[t].x /\ at'[t].ts = at[t].ts
      BY <1>2, <1>4
    <3>3. QED
      BY <1>4, <2>1, <3>1, <3>2
  <2>3. at[t].i > 0 => \A j \in 1 .. 2 : j < at[t].i /\ Window(t, j).addr # NULL =>
          Fixed(Window(t, j).addr, Window(t, j).value, at[t].ts)'
    <3>1. at[t].i > 0 => \A j \in 1 .. 2 : j < at[t].i /\ Window(t, j).addr # NULL =>
            /\ Window(t, j).addr \in Addresses
            /\ Fixed(Window(t, j).addr, Window(t, j).value, at[t].ts)
      BY <2>1, Before, LocalsAre DEF VerOf
    <3>2. at'[t].ts = at[t].ts /\ \A j \in 1 .. 2 : Window(t, j)' = Window(t, j)
      BY <1>2, <1>4 DEF Window
    <3>3. QED
      BY <1>4, <2>1, <3>1, <3>2
  <2>4. \A j \in 1 .. 2 : Window(t, j)' = Window(t, j)
    BY <2>1 DEF Window
  <2>5. /\ at[t].i > 0 => at[t].ts >= tx[t].start /\ at[t].x.addr # NULL
                          /\ at[t].addr = Window(t, at[t].i).addr
    BY <2>1 DEF VerOf
  <2>6. /\ at'[t].i = at[t].i /\ at'[t].x = at[t].x /\ at'[t].ts = at[t].ts
        /\ at'[t].addr = at[t].addr
    BY <1>2, <1>4
  <2>7. at[t].i \in 0 .. 2
    BY Before, LocalsAre
  <2>8. QED
    BY <1>1, <2>1, <2>2, <2>3, <2>4, <2>5, <2>6, <2>7 DEF VerOf
<1>9. FlightOf(t)'
  <2>1. CASE pc = "verLock"
    BY <1>2, <1>4, <2>1 DEF FlightOf, Carrying, At
  <2>2. CASE pc = "verValue"
    <3>1. l = locks[Stripe[at[t].addr]] /\ ~IsOwned(l) /\ l.version \in Nat
      BY <2>2, FreeIs
    <3>2. \A u \in Threads : \A i \in DOMAIN W(u) : ~Holds(u, i, Stripe[at[t].addr])
      BY <3>1, EstmAssumption, Before DEF EntryOf, Holds, IsOwned
    <3>3. ~ValueKnown(t)'
      BY <1>2, <1>4, <2>2 DEF ValueKnown
    <3>4. QED
      BY <1>2, <1>4, <3>1, <3>2, <3>3 DEF FlightOf
  <2>3. CASE pc = "verCheck"
    <3>1. FlightOf(t) /\ Carrying(t) /\ ~Committed(t)
      BY <2>3, Before DEF Carrying, Committed
    <3>2. at'[t].l = at[t].l /\ at'[t].addr = at[t].addr /\ at'[t].value = memory[at[t].addr]
      BY <1>2, <1>4, <2>3
    <3>3. QED
      BY <1>4, <3>1, <3>2 DEF FlightOf
  <2>4. QED
    BY <2>1, <2>2, <2>3
<1>10. QED
  BY <1>2, <1>3, <1>7, <1>8, <1>9, KeepMove

\* stm_vervalver waits for a free lock.
LEMMA VerLockStep ==
  ASSUME IInv, NEW t \in Threads, VerLock(t)
  PROVE  IInv'
<1>1. /\ UNCHANGED <<setting, clock, locks, memory, tx, seen, base, log, tx_overflow, tx_count>>
      /\ at[t].pc = "verLock"
  BY DEF VerLock, unmoved, history, At
<1>2. at[t] \in [pc : {"verLock", "verValue", "verCheck"}, addr : Addresses, i : 0 .. 2,
                 l : FreeLock, value : Val, x : Cell, ts : Nat]
  BY <1>1, Before, CallIs
<1>3. PICK l : l = locks[Stripe[at[t].addr]]
  OBVIOUS
<1>4. l \in FreeLock
  BY <1>2, <1>3, Before, SettingIs, LockIs DEF VerLock
<1>5. at' = [at EXCEPT ![t] = [at[t] EXCEPT !.pc = "verValue", !.l = l]]
  BY <1>3 DEF VerLock, Goto
<1>6. [at[t] EXCEPT !.pc = "verValue", !.l = l]
        = [at[t] EXCEPT !.pc = "verValue", !.l = l, !.value = at[t].value]
  BY <1>2, <1>4
<1>7. at' = [at EXCEPT ![t] = [at[t] EXCEPT !.pc = "verValue", !.l = l, !.value = at[t].value]]
  BY <1>5, <1>6
<1>8. at[t].value \in Val
  BY <1>2
<1>9. QED
  BY <1>1, <1>3, <1>4, <1>7, <1>8, VerMove

\* stm_vervalver reads the value.
LEMMA VerValueStep ==
  ASSUME IInv, NEW t \in Threads, VerValue(t)
  PROVE  IInv'
<1>1. /\ UNCHANGED <<setting, clock, locks, memory, tx, seen, base, log, tx_overflow, tx_count>>
      /\ at[t].pc = "verValue"
  BY DEF VerValue, unmoved, history, At
<1>2. at[t] \in [pc : {"verLock", "verValue", "verCheck"}, addr : Addresses, i : 0 .. 2,
                 l : FreeLock, value : Val, x : Cell, ts : Nat]
  BY <1>1, Before, CallIs
<1>3. PICK value \in Val : value = memory[at[t].addr]
  BY <1>2, Before DEF Global
<1>4. at' = [at EXCEPT ![t] = [at[t] EXCEPT !.pc = "verCheck", !.value = value]]
  BY <1>3 DEF VerValue, Goto
<1>5. [at[t] EXCEPT !.pc = "verCheck", !.value = value]
        = [at[t] EXCEPT !.pc = "verCheck", !.l = at[t].l, !.value = value]
  BY <1>2
<1>6. at' = [at EXCEPT ![t] = [at[t] EXCEPT !.pc = "verCheck", !.l = at[t].l, !.value = value]]
  BY <1>4, <1>5
<1>7. at[t].l \in FreeLock
  BY <1>2
<1>8. QED
  BY <1>1, <1>3, <1>6, <1>7, VerMove

\* The address and the rotating buffer have had their values at one timestamp.
LEMMA ElasticLoadedStep ==
  ASSUME IInv, NEW t \in Threads, at[t].pc = "verCheck",
         NEW x \in Cell, x.addr # NULL, NEW ts \in 0 .. clock, ts >= tx[t].start,
         Fixed(x.addr, x.value, ts),
         \A j \in 1 .. 2 : Window(t, j).addr # NULL =>
           Fixed(Window(t, j).addr, Window(t, j).value, ts),
         UNCHANGED <<setting, clock, locks, memory, seen, base, log, tx_overflow, tx_count>>,
         ElasticLoaded(t, x, ts)
  PROVE  IInv'
<1>1. /\ tx[t].type = "EL" /\ tx[t].status = "ACTIVE" /\ W(t) = <<>> /\ seen[t] = {}
      /\ tx[t] \in Descriptor
  BY Before, ActiveIs DEF VerOf, FlatOf
<1>2. PICK m \in 1 .. 2, n \in 1 .. 2 : m = tx[t].marker /\ n = (m % 2) + 1
  BY <1>1 DEF Descriptor
<1>3. PICK w \in [1 .. 2 -> Cell] : w = [tx[t].lastraddr EXCEPT ![m] = x]
  BY <1>1 DEF Descriptor
<1> DEFINE d == [tx[t] EXCEPT !.start = ts, !.lastraddr = w, !.marker = n]
           c == Ready
<1>4. tx' = [tx EXCEPT ![t] = d] /\ at' = [at EXCEPT ![t] = c]
  <2>1. tx' = [tx EXCEPT ![t] = [tx[t] EXCEPT !.start = ts,
                                   !.lastraddr = [tx[t].lastraddr EXCEPT ![m] = x],
                                   !.marker = (m % 2) + 1]]
    BY <1>1, <1>2, Before DEF ElasticLoaded, ELASTICITY, Descriptor
  <2>2. QED
    BY <1>2, <1>3, <2>1 DEF ElasticLoaded, Goto
<1>5. ts \in Nat /\ clock \in Nat /\ ts <= clock
  BY Before
<1>6. /\ d \in Descriptor /\ d.w_set = W(t) /\ d.start = ts /\ d.end = tx[t].end
      /\ d.r_set = R(t) /\ d.ro = tx[t].ro /\ d.lastraddr = w /\ d.type = "EL"
      /\ d.status = "ACTIVE"
  BY <1>1, <1>5 DEF Descriptor, W, R
<1>7. c \in Calls /\ c.pc = "ready"
  BY PlainIs DEF Ready, Plain
<1> HIDE DEF d, c
<1>8. Moves(t, d, c, seen[t])
  BY <1>4, <1>6, <1>7, Before DEF Moves, Away
<1>9. /\ tx'[t] = d /\ at'[t] = c /\ seen'[t] = seen[t] /\ clock' = clock /\ W(t)' = W(t)
      /\ \A a \in Addresses : \A k \in 0 .. clock : \A value :
              Fixed(a, value, k) => Fixed(a, value, k)'
      /\ IdleOf(t)' /\ TimesOf(t)' /\ ReadsOf(t)' /\ WindowOf(t)' /\ VerOf(t)' /\ FlightOf(t)'
         /\ FlatOf(t)' => IInv'
  BY <1>7, <1>8, QuietMove
<1>10. ReadsOf(t)'
  BY <1>6, <1>7, <1>8, ReadsStay
<1>11. tx[t].end <= clock
  BY Before DEF TimesOf
<1>12. IdleOf(t)' /\ TimesOf(t)'
  BY <1>5, <1>6, <1>7, <1>9, <1>11 DEF IdleOf, Idle, TimesOf, Carrying, Pending, Committed, At
<1>13. VerOf(t)' /\ FlightOf(t)' /\ FlatOf(t)'
  BY <1>1, <1>6, <1>7, <1>9 DEF VerOf, FlightOf, FlatOf, Carrying, At, NormalSteps
<1>14. WindowOf(t)'
  <2>1. \A i \in 1 .. 2 : Window(t, i)' = IF i = m THEN x ELSE Window(t, i)
    BY <1>1, <1>3, <1>6, <1>9 DEF Window, Descriptor
  <2>2. \A i \in 1 .. 2 : Window(t, i).addr # NULL => Window(t, i).addr \in Addresses
    BY Before, LocalsAre
  <2>3. x.addr \in Addresses
    BY DEF Cell
  <2>4. ASSUME NEW i \in 1 .. 2, NEW y \in {x, Window(t, i)}, y.addr # NULL
        PROVE  Fixed(y.addr, y.value, ts)'
    <3>1. y.addr \in Addresses /\ Fixed(y.addr, y.value, ts)
      BY <2>2, <2>3, <2>4
    <3>2. QED
      BY <1>9, <3>1
  <2>5. tx'[t].start = ts
    BY <1>6, <1>9
  <2>6. ASSUME NEW i \in 1 .. 2, Window(t, i)'.addr # NULL
        PROVE  Fixed(Window(t, i).addr, Window(t, i).value, ts)'
    <3>1. PICK y \in {x, Window(t, i)} : y = Window(t, i)'
      BY <2>1
    <3>2. QED
      BY <2>4, <2>6, <3>1
  <2>7. QED
    BY <2>5, <2>6 DEF WindowOf
<1>15. QED
  BY <1>9, <1>10, <1>12, <1>13, <1>14

\* On to the next address of the rotating buffer.
LEMMA CheckWindowStep ==
  ASSUME IInv, NEW t \in Threads, at[t].pc = "verCheck",
         NEW x \in Cell, x.addr # NULL, NEW ts \in 0 .. clock, ts >= tx[t].start,
         Fixed(x.addr, x.value, ts), NEW i \in 0 .. 2,
         \A j \in 1 .. 2 : j <= i /\ Window(t, j).addr # NULL =>
           Fixed(Window(t, j).addr, Window(t, j).value, ts),
         UNCHANGED <<setting, clock, locks, memory, seen, base, log, tx_overflow, tx_count>>,
         CheckWindow(t, x, ts, i)
  PROVE  IInv'
<1> DEFINE further == {j \in i + 1 .. ELASTICITY : tx[t].lastraddr[j].addr # NULL}
           first == CHOOSE j \in further : \A k \in further : j <= k
<1>1. \A j \in 1 .. 2 : j \in further <=> j > i /\ Window(t, j).addr # NULL
  BY DEF ELASTICITY, Window
<1>2. further \subseteq 1 .. 2
  BY DEF ELASTICITY
<1>3. CASE further = {}
  <2>1. ElasticLoaded(t, x, ts)
    BY <1>3 DEF CheckWindow
  <2>2. \A j \in 1 .. 2 : Window(t, j).addr # NULL =>
          Fixed(Window(t, j).addr, Window(t, j).value, ts)
    BY <1>1, <1>3
  <2> HIDE DEF further
  <2>3. QED
    BY <2>1, <2>2, ElasticLoadedStep
<1>4. CASE further # {}
  <2>1. first \in further /\ \A k \in further : first <= k
    <3> HIDE DEF further
    <3>1. \E j \in further : \A k \in further : j <= k
      <4>1. CASE 1 \in further
        BY <1>2, <4>1
      <4>2. CASE 1 \notin further
        <5>1. \A k \in further : k = 2
          BY <1>2, <4>2
        <5>2. QED
          BY <1>4, <5>1
      <4>3. QED
        BY <4>1, <4>2
    <3>2. QED
      BY <3>1
  <2>2. PICK j \in 1 .. 2 : j = first
    BY <1>2, <2>1
  <2>3. j > i /\ Window(t, j).addr # NULL
        /\ \A k \in 1 .. 2 : k > i /\ Window(t, k).addr # NULL => j <= k
    BY <1>1, <2>1, <2>2
  <2>4. PICK a \in Addresses : a = Window(t, j).addr
    BY <2>3, Before, LocalsAre
  <2> DEFINE c == [pc |-> "verLock", addr |-> a, i |-> j, l |-> Free(0), value |-> Zero,
                   x |-> x, ts |-> ts]
  <2>5. at' = [at EXCEPT ![t] = c] /\ tx' = tx
    BY <1>4, <2>2, <2>4 DEF CheckWindow, Goto, Window
  <2>6. ts \in Nat /\ ts <= clock /\ clock \in Nat
    BY Before
  <2>7. /\ c \in Calls /\ c.pc = "verLock" /\ c.addr = a /\ c.i = j /\ c.x = x /\ c.ts = ts
    <3>1. Zero \in Val /\ Free(0) \in FreeLock
      BY FreeIs DEF Zero, Word, Val
    <3>2. c \in [pc : {"verLock", "verValue", "verCheck"}, addr : Addresses, i : 0 .. 2,
                 l : FreeLock, value : Val, x : Cell, ts : Nat]
      BY <2>6, <3>1
    <3>3. QED
      BY <3>2 DEF Calls
  <2> HIDE DEF c, first, further
  <2>8. Calm(t, tx[t]) /\ tx[t].type = "EL"
    BY <2>5, ActiveIs, CalmSame, Before DEF Away, VerOf
  <2>9. Keeps(t, tx[t], c)
    BY <2>5, <2>7, <2>8, CalmKeeps DEF NormalSteps
  <2>10. /\ at'[t] = c /\ clock' = clock /\ W(t)' = W(t)
         /\ \A b \in Addresses : \A k \in 0 .. clock : \A v : Fixed(b, v, k) => Fixed(b, v, k)'
    BY <2>7, <2>9, QuietMove DEF Keeps
  <2>11. TimesOf(t)'
    BY <2>5, <2>6, <2>7, <2>10, Before DEF TimesOf, Carrying, Pending, Committed, At
  <2>12. FlightOf(t)'
    BY <2>7, <2>10 DEF FlightOf, Carrying, At
  <2>13. VerOf(t)'
    <3>1. \A k \in 1 .. 2 : Window(t, k)' = Window(t, k)
      BY <2>5 DEF Window
    <3>2. Fixed(x.addr, x.value, ts)'
      BY <2>10 DEF Cell
    <3>3. ASSUME NEW k \in 1 .. 2, k < j, Window(t, k).addr # NULL
          PROVE  Fixed(Window(t, k).addr, Window(t, k).value, ts)'
      <4>1. Window(t, k).addr \in Addresses
        BY <3>3, Before, LocalsAre
      <4>2. k <= i
        BY <2>3, <3>3
      <4>3. PICK b, v : b = Window(t, k).addr /\ v = Window(t, k).value /\ b \in Addresses
        BY <4>1
      <4>4. Fixed(b, v, ts)'
        BY <2>10, <3>3, <4>2, <4>3
      <4>5. QED
        BY <3>1, <4>3, <4>4
    <3>4. tx'[t].start = tx[t].start /\ tx'[t].type = "EL"
      BY <2>5, <2>8
    <3>5. /\ at'[t].i = j /\ at'[t].ts = ts /\ at'[t].x = x /\ at'[t].addr = a
      BY <2>7, <2>10
    <3>6. QED
      BY <2>3, <2>4, <3>1, <3>2, <3>3, <3>4, <3>5 DEF VerOf
  <2>14. QED
    BY <2>7, <2>9, <2>11, <2>12, <2>13, KeepMove
<1>5. QED
  BY <1>3, <1>4

\* stm_vervalver reads the lock again; what it has is the value at the version.
LEMMA VerCheckStep ==
  ASSUME IInv, NEW t \in Threads, VerCheck(t)
  PROVE  IInv'
<1>1. /\ UNCHANGED <<setting, clock, locks, memory, seen, base, log, tx_overflow, tx_count>>
      /\ at[t].pc = "verCheck" /\ tx[t].status = "ACTIVE" /\ tx[t].type = "EL" /\ ~Aborting(t)
  BY ActiveIs, Before DEF VerCheck, unmoved, history, At, VerOf, Aborting
<1>2. at[t] \in [pc : {"verLock", "verValue", "verCheck"}, addr : Addresses, i : 0 .. 2,
                 l : FreeLock, value : Val, x : Cell, ts : Nat]
  BY <1>1, Before, CallIs
<1>3. PICK a, s, l : /\ a = at[t].addr /\ s = Stripe[a] /\ l = locks[s]
                     /\ a \in Addresses /\ s \in Stripes
  BY <1>2, Before, SettingIs
<1>4. ~IsOwned(l) => l \in FreeLock
  BY <1>3, Before, LockIs
<1>5. PICK i \in 0 .. 2, value \in Val : i = at[t].i /\ value = at[t].value
  BY <1>2
<1>6. ~IsOwned(at[t].l) /\ at[t].l.version \in Nat /\ at[t].l \in FreeLock
  BY <1>2, FreeIs
<1>7. CASE l # at[t].l /\ IsOwned(l)
  <2>1. at' = [at EXCEPT ![t] = [at[t] EXCEPT !.pc = "verLock"]] /\ tx' = tx
    BY <1>3, <1>7 DEF VerCheck, Goto
  <2>2. [at[t] EXCEPT !.pc = "verLock"]
          = [at[t] EXCEPT !.pc = "verLock", !.l = at[t].l, !.value = value]
    BY <1>2, <1>5
  <2>3. at' = [at EXCEPT ![t] = [at[t] EXCEPT !.pc = "verLock", !.l = at[t].l, !.value = value]]
    BY <2>1, <2>2
  <2>4. UNCHANGED <<setting, clock, locks, memory, tx, seen, base, log, tx_overflow, tx_count>>
    BY <1>1, <2>1
  <2>5. QED
    BY <1>1, <1>6, <2>3, <2>4, VerMove
<1>8. CASE l # at[t].l /\ ~IsOwned(l)
  <2>1. at' = [at EXCEPT ![t] = [at[t] EXCEPT !.pc = "verValue", !.l = l]] /\ tx' = tx
    BY <1>3, <1>8 DEF VerCheck, Goto
  <2>2. [at[t] EXCEPT !.pc = "verValue", !.l = l]
          = [at[t] EXCEPT !.pc = "verValue", !.l = l, !.value = value]
    BY <1>2, <1>4, <1>5, <1>8
  <2>3. at' = [at EXCEPT ![t] = [at[t] EXCEPT !.pc = "verValue", !.l = l, !.value = value]]
    BY <2>1, <2>2
  <2>4. UNCHANGED <<setting, clock, locks, memory, tx, seen, base, log, tx_overflow, tx_count>>
    BY <1>1, <2>1
  <2>5. QED
    BY <1>1, <1>3, <1>4, <1>8, <2>3, <2>4, VerMove
<1>9. CASE l = at[t].l
  <2>1. ~IsOwned(l) /\ l.version \in Nat /\ l.version <= clock /\ clock \in Nat
        /\ tx[t].start \in Nat /\ tx[t].start <= clock
    BY <1>3, <1>6, <1>9, Before, LocalsAre DEF IInv, LockOf, TimesOf
  <2>2. value = memory[a]
    BY <1>1, <1>3, <1>5, <1>9, Before DEF FlightOf, Carrying, ValueKnown
  <2>3. \A k \in 0 .. clock : l.version <= k => Fixed(a, value, k)
    BY <1>3, <2>1, <2>2, FreeValue
  <2>4. CASE i = 0
    <3>1. PICK x \in Cell : x = [addr |-> a, value |-> value]
      BY <1>3 DEF Cell
    <3>5. x.addr = a /\ x.value = value /\ x.addr # NULL
      BY <1>3, <3>1, Before, SettingIs
    <3>2. CASE l.version > tx[t].start
      <4>1. CheckWindow(t, x, l.version, 0)
        BY <1>3, <1>5, <1>9, <2>4, <3>1, <3>2 DEF VerCheck
      <4>2. l.version \in 0 .. clock /\ Fixed(x.addr, x.value, l.version)
            /\ l.version >= tx[t].start
        BY <2>1, <2>3, <3>2, <3>5
      <4>3. \A j \in 1 .. 2 : ~(j <= 0)
        OBVIOUS
      <4>4. QED
        BY <1>1, <3>5, <4>1, <4>2, <4>3, CheckWindowStep
    <3>3. CASE ~(l.version > tx[t].start)
      <4>1. ElasticLoaded(t, x, tx[t].start)
        BY <1>3, <1>5, <1>9, <2>4, <3>1, <3>3 DEF VerCheck
      <4>2. tx[t].start \in 0 .. clock /\ Fixed(x.addr, x.value, tx[t].start)
            /\ tx[t].start >= tx[t].start
        BY <2>1, <2>3, <3>3, <3>5
      <4>3. \A j \in 1 .. 2 : Window(t, j).addr # NULL =>
              Fixed(Window(t, j).addr, Window(t, j).value, tx[t].start)
        BY <1>1, Before DEF WindowOf
      <4>4. QED
        BY <1>1, <3>5, <4>1, <4>2, <4>3, ElasticLoadedStep
    <3>4. QED
      BY <3>2, <3>3
  <2>5. CASE i # 0
    <3>1. CASE l.version > tx[t].start
      <4>1. Rollback(t) /\ tx' = tx
        BY <1>3, <1>5, <1>9, <2>5, <3>1 DEF VerCheck
      <4>2. Calm(t, tx[t])
        BY <1>1, <4>1, CalmSame DEF Away
      <4>3. QED
        BY <4>1, <4>2, CalmRollback
    <3>2. CASE ~(l.version > tx[t].start)
      <4>1. PICK x \in Cell, ts \in Nat : x = at[t].x /\ ts = at[t].ts
        BY <1>2
      <4>2. CheckWindow(t, x, ts, i)
        BY <1>3, <1>5, <1>9, <2>5, <3>2, <4>1 DEF VerCheck
      <4>3. /\ i > 0 /\ ts >= tx[t].start /\ x.addr # NULL /\ Fixed(x.addr, x.value, ts)
            /\ a = Window(t, i).addr /\ i \in 1 .. 2 /\ ts \in 0 .. clock
            /\ \A j \in 1 .. 2 : j < i /\ Window(t, j).addr # NULL =>
                 Fixed(Window(t, j).addr, Window(t, j).value, ts)
        BY <1>1, <1>3, <1>5, <2>1, <2>5, <4>1, Before DEF VerOf, TimesOf
      <4>4. Fixed(a, Window(t, i).value, ts)
        <5>1. Fixed(a, Window(t, i).value, tx[t].start)
          BY <1>1, <1>3, <4>3, Before, SettingIs DEF WindowOf
        <5>2. Fixed(a, value, tx[t].start) /\ Fixed(a, value, ts)
          BY <2>1, <2>3, <3>2, <4>3
        <5>3. QED
          BY <5>1, <5>2 DEF Fixed
      <4>5. \A j \in 1 .. 2 : j <= i /\ Window(t, j).addr # NULL =>
              Fixed(Window(t, j).addr, Window(t, j).value, ts)
        BY <4>3, <4>4
      <4>6. QED
        BY <1>1, <4>2, <4>3, <4>5, CheckWindowStep
    <3>3. QED
      BY <3>1, <3>2
  <2>6. QED
    BY <2>4, <2>5
<1>10. QED
  BY <1>7, <1>8, <1>9

\* The first store of an elastic transaction looks at its window.
LEMMA StoreWindowStep ==
  ASSUME IInv, NEW t \in Threads, StoreWindow(t)
  PROVE  IInv'
<1>1. /\ UNCHANGED <<setting, clock, locks, memory, seen, base, log, tx_overflow, tx_count>>
      /\ at[t].pc = "window" /\ tx[t].status = "ACTIVE"
  BY ActiveIs DEF StoreWindow, unmoved, history, At
<1>2. Ready \in Calls /\ Ready.pc = "ready"
  BY PlainIs DEF Ready, Plain
<1>3. ASSUME tx' = tx PROVE Calm(t, tx[t])
  BY <1>1, <1>3, CalmSame DEF Away
<1>4. ASSUME tx' = [tx EXCEPT ![t].lastraddr = NoWindow] PROVE \E d : Calm(t, d)
  <2> DEFINE d == [tx[t] EXCEPT !.lastraddr = NoWindow]
  <2>1. NoWindow \in [1 .. 2 -> Cell]
    BY Before, ResetIs, DescriptorIs
  <2>2. d \in Descriptor
    BY <2>1, Before, ZenonT(60) DEF Descriptor
  <2>3. /\ d.w_set = W(t) /\ d.start = tx[t].start /\ d.end = tx[t].end /\ d.r_set = tx[t].r_set
        /\ d.ro = tx[t].ro /\ d.lastraddr = NoWindow /\ d.type = tx[t].type
        /\ d.status = tx[t].status
    BY Before DEF Descriptor, W
  <2>4. tx' = [tx EXCEPT ![t] = d]
    BY <1>4, Before
  <2> HIDE DEF d
  <2>5. QED
    BY <1>1, <2>2, <2>3, <2>4 DEF Calm, Away
<1>5. PICK d : Calm(t, d) /\ (Rollback(t) \/ at' = [at EXCEPT ![t] = Ready])
  BY <1>3, <1>4 DEF StoreWindow, Goto
<1>6. QED
  BY <1>2, <1>5, CalmRollback, RestMove

-----------------------------------------------------------------------------
(* Steps that change locks, write sets or the memory, but no history.      *)

\* A step of t that decides nothing.
Undecided(t) ==
  /\ UNCHANGED <<setting, clock, base, log>>
  /\ Only(t)
  /\ Pending(t)' => Pending(t) /\ at'[t].now = at[t].now /\ W(t)' = W(t)

\* A step that decides no commit leaves the history and what is settled as they are.
LEMMA UndecidedIs ==
  ASSUME IInv, NEW t \in Threads, Undecided(t)
  PROVE  /\ Past /\ Stripes' = Stripes /\ Stripe' = Stripe /\ clock \in Nat
         /\ \A a \in Addresses : \A k : Snapshot(k)'[a] = Snapshot(k)[a]
         /\ \A v : \A s : Writes(v, s)' = Writes(v, s)
         /\ \A s : \A k : NoneLater(s, k)' = NoneLater(s, k)
         /\ \A a \in Addresses : \A k \in 0 .. clock : \A value :
              Fixed(a, value, k) => Fixed(a, value, k)'
         /\ \A s \in Stripes : \A k \in 0 .. clock : \A version :
              Stable(version, s, k) => Stable(version, s, k)'
         /\ \A v \in DOMAIN log : LogOf(v)'
         /\ \A u \in Threads : PendingOf(u)'
         /\ \A u \in Threads \ {t} :
              /\ SameThread(u) /\ W(u)' = W(u) /\ From(u)' = From(u)
              /\ Committed(u)' = Committed(u)
              /\ \A i : Unwritten(u, i)' = Unwritten(u, i)
              /\ \A i : \A s : Holds(u, i, s)' = Holds(u, i, s)
<1>1. /\ setting' = setting /\ clock' = clock /\ base' = base /\ log' = log
      /\ Stripes' = Stripes /\ Stripe' = Stripe
  BY DEF Undecided, Stripes, Stripe
<1>2. /\ Global /\ clock \in Nat /\ \A u \in Threads : PendingOf(u)
  BY Before
<1>3. \A u \in Threads \ {t} : SameThread(u)
  BY <1>2, OthersSame DEF Undecided
<1>4. \A u \in Threads \ {t} :
        /\ SameThread(u) /\ W(u)' = W(u) /\ From(u)' = From(u) /\ Committed(u)' = Committed(u)
        /\ \A i : Unwritten(u, i)' = Unwritten(u, i)
        /\ \A i : \A s : Holds(u, i, s)' = Holds(u, i, s)
  <2> SUFFICES ASSUME NEW u \in Threads \ {t}
               PROVE  /\ SameThread(u) /\ W(u)' = W(u) /\ From(u)' = From(u)
                      /\ Committed(u)' = Committed(u)
                      /\ \A i : Unwritten(u, i)' = Unwritten(u, i)
                      /\ \A i : \A s : Holds(u, i, s)' = Holds(u, i, s)
    OBVIOUS
  <2>1. SameThread(u)
    BY <1>3
  <2>2. W(u)' = W(u) /\ From(u)' = From(u)
    BY <2>1 DEF SameThread, W, From
  <2>3. Committed(u)' = Committed(u) /\ \A i : Unwritten(u, i)' = Unwritten(u, i)
    BY <2>1 DEF SameThread, Committed, Unwritten, At
  <2>4. \A i : \A s : Holds(u, i, s)' = Holds(u, i, s)
    BY <2>2 DEF Holds
  <2>5. QED
    BY <2>1, <2>2, <2>3, <2>4
<1>5. \A u \in Threads : Pending(u)' => Pending(u) /\ at'[u].now = at[u].now /\ W(u)' = W(u)
  BY <1>3, <1>4 DEF Undecided, SameThread, Pending, At
<1>6. \A a \in Addresses : \A k : Snapshot(k)'[a] = Snapshot(k)[a]
  BY <1>1, SnapshotIs
<1>7. \A v : \A s : Writes(v, s)' = Writes(v, s)
  BY <1>1 DEF Writes
<1>8. \A s : \A k : NoneLater(s, k)' = NoneLater(s, k)
  BY <1>1, <1>7 DEF NoneLater
<1>9. Past
  <2>1. \A s \in Stripes : \A k \in 0 .. clock : Settled(s, k) => Settled(s, k)'
    <3> SUFFICES ASSUME NEW s \in Stripes, NEW k \in 0 .. clock, Settled(s, k),
                        NEW u \in Threads, Pending(u)', at'[u].now <= k
                 PROVE  ~Covers(u, s)'
      BY DEF Settled
    <3>1. ~Covers(u, s) /\ W(u)' = W(u)
      BY <1>5 DEF Settled
    <3>2. QED
      BY <3>1 DEF Covers
  <2>2. QED
    BY <1>1, <1>2, <1>6, <1>7, <2>1 DEF Past
<1>10. /\ \A a \in Addresses : \A k \in 0 .. clock : \A value :
            Fixed(a, value, k) => Fixed(a, value, k)'
       /\ \A s \in Stripes : \A k \in 0 .. clock : \A version :
            Stable(version, s, k) => Stable(version, s, k)'
  BY <1>2, <1>9, PastStays DEF Global
<1>11. \A v \in DOMAIN log : LogOf(v)'
  <2> SUFFICES ASSUME NEW v \in DOMAIN log, NEW r \in log[v].reads
               PROVE  Fixed(r.addr, r.value, v - 1)'
    BY <1>1 DEF LogOf
  <2>1. Fixed(r.addr, r.value, v - 1)
    BY DEF IInv, LogOf
  <2>2. r.addr \in Addresses /\ v - 1 \in 0 .. clock
    BY <1>2 DEF Global, Read
  <2>3. QED
    BY <1>10, <2>1, <2>2
<1>12. \A u \in Threads : PendingOf(u)'
  <2> SUFFICES ASSUME NEW u \in Threads, Pending(u)' PROVE PendingOf(u)'
    BY DEF PendingOf
  <2>1. PendingOf(u) /\ Pending(u) /\ at'[u].now = at[u].now
    BY <1>2, <1>5
  <2>2. log'[at'[u].now] = NoCommit
    BY <1>1, <2>1 DEF PendingOf
  <2>3. \A x \in Threads \ {u} : Pending(x)' => at'[x].now # at'[u].now
    BY <1>5, <2>1 DEF PendingOf
  <2>4. QED
    BY <2>2, <2>3 DEF PendingOf, NoCommit
<1>13. QED
  BY <1>1, <1>2, <1>4, <1>6, <1>7, <1>8, <1>9, <1>10, <1>11, <1>12

\* Nor does it matter to the others when only locks of the thread itself change.
LEMMA UndecidedOthers ==
  ASSUME IInv, NEW t \in Threads, Undecided(t),
         \A s \in Stripes : locks'[s] = locks[s] \/ ~IsOwned(locks[s]) \/ locks[s].owner = t,
         \A u \in Threads \ {t} : FlightOf(u)'
  PROVE  \A u \in Threads \ {t} : ThreadOf(u)'
<1> SUFFICES ASSUME NEW u \in Threads \ {t} PROVE ThreadOf(u)'
  OBVIOUS
<1>1. /\ Past /\ PendingOf(u)' /\ SameThread(u) /\ Global /\ ThreadOf(u) /\ TypeOf(u)
      /\ clock' = clock /\ log' = log
  BY UndecidedIs, Before DEF Undecided
<1>2. \A i \in DOMAIN W(u) : EntryOf(u, i)'
  <2> SUFFICES ASSUME NEW i \in DOMAIN W(u) PROVE EntryOf(u, i)'
    OBVIOUS
  <2>1. EntryOf(u, i) /\ W(u)[i].addr \in Addresses
    BY Before, LocalsAre
  <2>2. Snapshot(clock)'[W(u)[i].addr] = Snapshot(clock)[W(u)[i].addr]
    BY <1>1, <2>1, UndecidedIs
  <2>3. From(u) <= i => locks'[W(u)[i].lock].owner = u
    <3>1. W(u)[i].lock \in Stripes
      BY <2>1, Before, SettingIs DEF EntryOf
    <3>2. QED
      BY <2>1, <3>1, EstmAssumption DEF EntryOf, IsOwned
  <2>4. \A v \in DOMAIN log' : Writes(v, W(u)[i].lock)' =>
          v \in DOMAIN log /\ Writes(v, W(u)[i].lock)
    <3>1. PICK s : s = W(u)[i].lock
      OBVIOUS
    <3>2. \A v : Writes(v, s)' = Writes(v, s)
      BY UndecidedIs
    <3>3. W(u)'[i].lock = s
      BY <1>1, <3>1 DEF SameThread, W
    <3>4. QED
      BY <1>1, <3>1, <3>2, <3>3
  <2>5. QED
    BY <1>1, <2>1, <2>2, <2>3, <2>4, OtherEntry
<1>3. QED
  BY <1>1, <1>2, OtherThread

-----------------------------------------------------------------------------
(* Stores.                                                                 *)

\* An entry with the version of an earlier entry for the lock, or of the lock itself.
Inherits(t, e) ==
  \/ \E j \in DOMAIN W(t) : W(t)[j].lock = e.lock /\ W(t)[j].version = e.version
  \/ /\ ~IsOwned(locks[e.lock]) /\ locks[e.lock].version = e.version
     /\ \A j \in DOMAIN R(t) : R(t)[j].lock = e.lock => e.version <= tx[t].end

\* The write set changes its entries or gets new ones.
Grows(t, d, c, q) ==
  /\ UNCHANGED <<setting, clock, memory, seen, base, log, tx_overflow, tx_count>>
  /\ tx' = [tx EXCEPT ![t] = d] /\ at' = [at EXCEPT ![t] = c]
  /\ d \in Descriptor /\ c \in Calls /\ q \in Seq(WriteEntry)
  /\ c.pc \in {"ready", "window"} /\ at[t].pc \in {"ready", "write", "cas"}
  /\ tx[t].status = "ACTIVE" /\ ~tx[t].ro
  /\ d.start = tx[t].start /\ d.end = tx[t].end /\ d.r_set = R(t) /\ ~d.ro
  /\ d.status = "ACTIVE" /\ d.type = "NL" /\ d.w_set = q
  /\ locks' \in [Stripes -> FreeLock \cup OwnedLock]
  /\ \A s \in Stripes : \/ locks'[s] = locks[s]
                        \/ /\ ~IsOwned(locks[s])
                           /\ \E n \in DOMAIN q : q[n].lock = s /\ locks'[s] = Owned(t, n)
  /\ \A i \in DOMAIN W(t) : i \in DOMAIN q /\ q[i].lock = W(t)[i].lock
  /\ \A i \in DOMAIN q :
       /\ q[i].lock = Stripe[q[i].addr] /\ q[i].addr \in Addresses
       /\ q[i].next = 0 <=> \A j \in DOMAIN q : j > i => q[j].lock # q[i].lock
       /\ \A j \in DOMAIN q : j # i => q[j].addr # q[i].addr
       /\ Inherits(t, q[i]) /\ locks'[q[i].lock].owner = t

\* A write set grows, or its entries change, under locks of its own.
LEMMA GrowStep ==
  ASSUME IInv, NEW t \in Threads, NEW d, NEW c, NEW q, Grows(t, d, c, q)
  PROVE  IInv'
<1> USE DEF Grows
<1>1. /\ tx'[t] = d /\ at'[t] = c /\ seen'[t] = seen[t] /\ W(t)' = q /\ R(t)' = R(t)
      /\ clock' = clock /\ locks \in [Stripes -> FreeLock \cup OwnedLock]
  BY Before DEF W, R, Global
<1>2. ~Committed(t) /\ ~Committed(t)' /\ From(t) = 1 /\ From(t)' = 1 /\ ~Aborting(t)
      /\ ~Pending(t)'
  BY <1>1 DEF Committed, From, Aborting, Pending, At
<1>3. Undecided(t)
  <2>1. Only(t)
    BY <1>1, Before DEF Only
  <2>2. QED
    BY <1>2, <2>1 DEF Undecided
<1>4. /\ Past /\ Stripes' = Stripes /\ Stripe' = Stripe /\ clock \in Nat
      /\ \A a \in Addresses : \A k : Snapshot(k)'[a] = Snapshot(k)[a]
      /\ \A s : \A k : NoneLater(s, k)' = NoneLater(s, k)
      /\ \A a \in Addresses : \A k \in 0 .. clock : \A value :
           Fixed(a, value, k) => Fixed(a, value, k)'
      /\ \A s \in Stripes : \A k \in 0 .. clock : \A version :
           Stable(version, s, k) => Stable(version, s, k)'
      /\ \A v \in DOMAIN log : LogOf(v)'
      /\ \A u \in Threads : PendingOf(u)'
      /\ \A u \in Threads \ {t} :
           /\ SameThread(u) /\ W(u)' = W(u) /\ From(u)' = From(u)
           /\ Committed(u)' = Committed(u)
           /\ \A i : Unwritten(u, i)' = Unwritten(u, i)
           /\ \A i : \A s : Holds(u, i, s)' = Holds(u, i, s)
  BY <1>3, UndecidedIs
<1>5. \A i \in DOMAIN q : i \in Pos /\ q[i] \in WriteEntry /\ q[i].version \in Nat
                          /\ q[i].lock \in Stripes
  <2>1. \A i \in DOMAIN q : i \in Pos /\ q[i] \in WriteEntry
    BY DEF Pos
  <2>2. \A i \in DOMAIN q : q[i].version \in Nat /\ q[i].lock \in Stripes
    BY <2>1, Before, SettingIs DEF WriteEntry
  <2>3. QED
    BY <2>1, <2>2
<1>6. \A i \in DOMAIN W(t) : i \in Pos /\ W(t)[i].version \in Nat /\ EntryOf(t, i)
  BY Before, LocalsAre
<1>7. \A i \in DOMAIN q : \A s : Holds(t, i, s)' <=> q[i].lock = s
  BY <1>1, <1>2, <1>5 DEF Holds, Pos
<1>8. \A i \in DOMAIN W(t) : \A s : Holds(t, i, s) <=> W(t)[i].lock = s
  BY <1>2, <1>6 DEF Holds, Pos
<1>9. \A i \in DOMAIN q : q[i].version <= clock /\ NoneLater(q[i].lock, q[i].version)
  <2> SUFFICES ASSUME NEW i \in DOMAIN q
               PROVE  q[i].version <= clock /\ NoneLater(q[i].lock, q[i].version)
    OBVIOUS
  <2>1. CASE \E j \in DOMAIN W(t) : W(t)[j].lock = q[i].lock /\ W(t)[j].version = q[i].version
    BY <1>2, <1>6, <2>1 DEF EntryOf, Pos
  <2>2. CASE ~IsOwned(locks[q[i].lock]) /\ locks[q[i].lock].version = q[i].version
    BY <1>5, <2>2 DEF IInv, LockOf
  <2>3. QED
    BY <2>1, <2>2 DEF Inherits
<1>10. \A s \in Stripes : LockOf(s)'
  <2> SUFFICES ASSUME NEW s \in Stripes PROVE LockOf(s)'
    OBVIOUS
  <2>1. LockOf(s) /\ (IsOwned(locks[s]) => locks[s].owner \in Threads)
    BY Before, LockIs DEF IInv
  <2>2. CASE locks'[s] = locks[s] /\ IsOwned(locks[s]) /\ locks[s].owner # t
    BY <1>4, <2>1, <2>2 DEF LockOf
  <2>3. CASE locks'[s] = locks[s] /\ IsOwned(locks[s]) /\ locks[s].owner = t
    <3>1. /\ locks[s].entry \in DOMAIN q /\ q[locks[s].entry].lock = s
          /\ \E i \in DOMAIN W(t) : Holds(t, i, s)
      BY <2>1, <2>3 DEF LockOf
    <3>2. \E i \in DOMAIN q : Holds(t, i, s)'
      BY <1>7, <1>8, <3>1
    <3>3. QED
      BY <1>1, <2>3, <3>1, <3>2 DEF LockOf
  <2>4. CASE locks'[s] = locks[s] /\ ~IsOwned(locks[s])
    <3>1. locks[s].version <= clock /\ NoneLater(s, locks[s].version)
      BY <2>1, <2>4 DEF LockOf
    <3>2. PICK k : k = locks[s].version
      OBVIOUS
    <3>3. NoneLater(s, k)'
      BY <1>4, <3>1, <3>2
    <3>4. QED
      BY <1>1, <2>4, <3>1, <3>2, <3>3 DEF LockOf
  <2>5. CASE \E n \in DOMAIN q : q[n].lock = s /\ locks'[s] = Owned(t, n)
    <3>1. PICK n \in DOMAIN q : q[n].lock = s /\ locks'[s] = Owned(t, n)
      BY <2>5
    <3>2. locks'[s].owner = t /\ locks'[s].entry = n /\ IsOwned(locks'[s])
      BY <1>5, <3>1, OwnedIs
    <3>3. Holds(t, n, s)'
      BY <1>7, <3>1
    <3>4. QED
      BY <1>1, <3>1, <3>2, <3>3 DEF LockOf
  <2>6. QED
    BY <2>2, <2>3, <2>4, <2>5
<1>11. \A a \in Addresses : MemoryOf(a)'
  <2> SUFFICES ASSUME NEW a \in Addresses PROVE MemoryOf(a)'
    OBVIOUS
  <2>1. MemoryOf(a) /\ Snapshot(clock)'[a] = Snapshot(clock)[a] /\ memory' = memory
    BY <1>4 DEF IInv
  <2>2. CASE memory[a] = Snapshot(clock)[a]
    BY <1>1, <2>1, <2>2 DEF MemoryOf
  <2>3. CASE \E u \in Threads : Committed(u) /\
               \E i \in DOMAIN W(u) : Unwritten(u, i) /\ W(u)[i].addr = a /\ W(u)[i].mask # {}
    BY <1>2, <1>4, <2>3 DEF MemoryOf
  <2>4. QED
    BY <2>1, <2>2, <2>3 DEF MemoryOf
<1>12. \A u \in Threads \ {t} : FlightOf(u)'
  <2> SUFFICES ASSUME NEW u \in Threads \ {t}, Carrying(u)' PROVE FlightOf(u)'
    BY DEF FlightOf
  <2>1. at'[u] = at[u] /\ Carrying(u) /\ ValueKnown(u)' = ValueKnown(u) /\ FlightOf(u)
    BY <1>4, Before DEF SameThread, Carrying, ValueKnown, At
  <2>2. PICK s \in Stripes, l \in FreeLock : s = Stripe[at[u].addr] /\ l = at[u].l
    BY <2>1, Before, LocalsAre, SettingIs
  <2>3. /\ ~IsOwned(locks[s]) => l.version <= locks[s].version
        /\ \A x \in Threads : \A i \in DOMAIN W(x) : Holds(x, i, s) =>
             /\ l.version <= W(x)[i].version
             /\ ValueKnown(u) /\ ~Committed(x) /\ l.version = W(x)[i].version =>
                  at[u].value = memory[at[u].addr]
        /\ ValueKnown(u) /\ locks[s] = l => at[u].value = memory[at[u].addr]
    BY <2>1, <2>2 DEF FlightOf
  <2>4. ~IsOwned(l) /\ \A n \in Pos : IsOwned(Owned(t, n))
    BY <2>2, FreeIs, OwnedIs
  <2>5. ~IsOwned(locks'[s]) => locks'[s] = locks[s]
    BY <1>5, <2>4
  <2>6. \A i \in DOMAIN q : q[i].lock = s =>
          /\ l.version <= q[i].version
          /\ ValueKnown(u) /\ l.version = q[i].version => at[u].value = memory[at[u].addr]
    <3> SUFFICES ASSUME NEW i \in DOMAIN q, q[i].lock = s
                 PROVE  /\ l.version <= q[i].version
                        /\ ValueKnown(u) /\ l.version = q[i].version =>
                             at[u].value = memory[at[u].addr]
      OBVIOUS
    <3>1. CASE \E j \in DOMAIN W(t) : W(t)[j].lock = q[i].lock /\ W(t)[j].version = q[i].version
      BY <1>2, <1>8, <2>3, <3>1
    <3>2. CASE ~IsOwned(locks[q[i].lock]) /\ locks[q[i].lock].version = q[i].version
      <4>1. locks[s] \in FreeLock
        BY <3>2, Before, LockIs
      <4>2. l.version = q[i].version => locks[s] = l
        BY <2>2, <3>2, <4>1, FreeIs
      <4>3. QED
        BY <2>3, <3>2, <4>2
    <3>3. QED
      BY <3>1, <3>2 DEF Inherits
  <2>7. \A x \in Threads : \A i \in DOMAIN W(x)' : Holds(x, i, s)' =>
             /\ l.version <= W(x)'[i].version
             /\ ValueKnown(u) /\ ~Committed(x)' /\ l.version = W(x)'[i].version =>
                  at[u].value = memory[at[u].addr]
    <3> SUFFICES ASSUME NEW x \in Threads, NEW i \in DOMAIN W(x)', Holds(x, i, s)'
                 PROVE  /\ l.version <= W(x)'[i].version
                        /\ ValueKnown(u) /\ ~Committed(x)' /\ l.version = W(x)'[i].version =>
                             at[u].value = memory[at[u].addr]
      OBVIOUS
    <3>1. CASE x = t
      BY <1>1, <1>7, <2>6, <3>1
    <3>2. CASE x # t
      BY <1>4, <2>3, <3>2
    <3>3. QED
      BY <3>1, <3>2
  <2>8. ~IsOwned(locks'[s]) => l.version <= locks'[s].version
    BY <2>3, <2>5
  <2>9. ValueKnown(u) /\ locks'[s] = l => at[u].value = memory[at[u].addr]
    BY <2>3, <2>4, <2>5
  <2>10. Stripe'[at'[u].addr] = s /\ at'[u].l = l /\ memory' = memory
    BY <1>4, <2>1, <2>2
  <2>11. QED
    BY <2>1, <2>7, <2>8, <2>9, <2>10 DEF FlightOf
<1>13. \A u \in Threads \ {t} : ThreadOf(u)'
  BY <1>3, <1>12, UndecidedOthers
<1>14. \A i \in DOMAIN q : EntryOf(t, i)'
  <2> SUFFICES ASSUME NEW i \in DOMAIN q PROVE EntryOf(t, i)'
    OBVIOUS
  <2>1. PICK s, k : s = q[i].lock /\ k = q[i].version
    OBVIOUS
  <2>2. NoneLater(s, k)'
    BY <1>4, <1>9, <2>1
  <2>3. QED
    BY <1>1, <1>2, <1>4, <1>5, <1>9, <2>1, <2>2 DEF EntryOf
<1>15. tx[t].end \in 0 .. clock /\ tx[t].start \in 0 .. clock
  BY Before, LocalsAre DEF TimesOf
<1>16. \A j \in DOMAIN R(t) : ReadEntryOf(t, j)'
  <2> SUFFICES ASSUME NEW j \in DOMAIN R(t) PROVE ReadEntryOf(t, j)'
    OBVIOUS
  <2>1. ReadEntryOf(t, j) /\ R(t)[j].lock \in Stripes /\ R(t)[j].version \in Nat
    BY <1>2, Before, LocalsAre DEF ReadsOf
  <2>2. Stable(R(t)[j].version, R(t)[j].lock, tx[t].end)'
    BY <1>1, <1>4, <1>15, <2>1 DEF ReadEntryOf
  <2>3. \A i \in DOMAIN q : q[i].lock = R(t)[j].lock => q[i].version <= tx[t].end
    BY <2>1 DEF Inherits, ReadEntryOf
  <2>4. QED
    BY <1>1, <2>1, <2>2, <2>3 DEF ReadEntryOf, At
<1>17. /\ \A r \in seen[t] : Fixed(r.addr, r.value, tx[t].end)'
       /\ tx[t].end <= tx[t].start => \A r \in seen[t] : Fixed(r.addr, r.value, tx[t].start)'
  <2>1. \A r \in seen[t] : r.addr \in Addresses /\ Fixed(r.addr, r.value, tx[t].end)
          /\ (tx[t].end <= tx[t].start => Fixed(r.addr, r.value, tx[t].start))
    BY <1>2, Before, LocalsAre DEF ReadsOf, FlatOf
  <2>2. tx'[t].end = tx[t].end /\ tx'[t].start = tx[t].start
    BY <1>1
  <2>3. QED
    BY <1>4, <1>15, <2>1, <2>2
<1>18. ReadsOf(t)'
  <2>1. \A r \in seen[t] : \E j \in DOMAIN R(t) : R(t)[j].lock = Stripe[r.addr]
    BY <1>2, Before DEF ReadsOf
  <2>2. tx'[t].end = tx[t].end /\ ~tx'[t].ro
    BY <1>1
  <2>3. QED
    BY <1>1, <1>2, <1>4, <1>16, <1>17, <2>1, <2>2 DEF ReadsOf
<1>19. TypeOf(t)'
  <2>1. setting' = setting
    OBVIOUS
  <2>2. QED
    BY <1>1, <2>1, Before, TypesStay DEF TypeOf
<1>20. IdleOf(t)' /\ TimesOf(t)'
  BY <1>1, <1>15 DEF IdleOf, Idle, TimesOf, Carrying, Pending, Committed, At
<1>21. WindowOf(t)' /\ VerOf(t)' /\ FlightOf(t)'
  BY <1>1 DEF WindowOf, VerOf, FlightOf, Carrying, At
<1>22. FlatOf(t)'
  BY <1>1, <1>17 DEF FlatOf
<1>23. ThreadOf(t)'
  BY <1>1, <1>4, <1>14, <1>18, <1>19, <1>20, <1>21, <1>22 DEF ThreadOf
<1>24. tx_count' = Cardinality(Running')
  BY <1>1, Before, CountIs DEF Away
<1>25. Global'
  <2>1. setting' = setting /\ Descriptor' = Descriptor
    BY TypesStay
  <2>2. tx' \in [Threads -> Descriptor']
    BY <2>1, Before
  <2>3. at' = [u \in Threads |-> at'[u]] /\ seen' = [u \in Threads |-> seen'[u]]
    BY Before DEF Global
  <2>4. QED
    BY <1>4, <1>24, <2>1, <2>2, <2>3, Before DEF Global
<1>26. QED
  BY <1>10, <1>11, <1>13, <1>4, <1>23, <1>25 DEF IInv

\* A write set with one more entry.
LEMMA AppendIs ==
  ASSUME NEW w \in Seq(WriteEntry), NEW e \in WriteEntry, NEW q, q = Append(w, e)
  PROVE  /\ q \in Seq(WriteEntry) /\ Len(w) \in Nat /\ q[Len(w) + 1] = e
         /\ Len(w) + 1 \in DOMAIN q
         /\ \A i \in DOMAIN w : /\ i \in Nat /\ i <= Len(w) /\ i \in DOMAIN q /\ q[i] = w[i]
                                /\ w[i] \in WriteEntry
         /\ \A i \in DOMAIN q : i \in DOMAIN w \/ i = Len(w) + 1
  OBVIOUS

\* The new entry of a store.
LEMMA EntryIs ==
  ASSUME Global, NEW c, c.addr \in Addresses, c.value \in Val, c.mask \in SUBSET Bytes,
         NEW version \in Nat
  PROVE  /\ Entry(c, version) \in WriteEntry /\ Entry(c, version).addr = c.addr
         /\ Entry(c, version).lock = Stripe[c.addr] /\ Entry(c, version).version = version
         /\ Entry(c, version).next = 0
<1>1. \A x \in Val : \A y \in Val : Merge(x, y, c.mask) \in Val
  BY DEF Merge, Val
<1>2. Zero \in Val /\ memory[c.addr] \in Val
  BY DEF Zero, Word, Val, Global
<1>3. PICK v \in Val :
        v = IF c.mask = {} THEN Zero ELSE Merge(memory[c.addr], c.value, c.mask)
  BY <1>1, <1>2
<1>4. Stripe[c.addr] \in Nat
  BY SettingIs DEF Global
<1>5. Entry(c, version) = [addr |-> c.addr, mask |-> c.mask, lock |-> Stripe[c.addr],
                           version |-> version, next |-> 0, value |-> v]
  BY <1>3 DEF Entry
<1>6. QED
  BY <1>4, <1>5 DEF WriteEntry

\* Before a step that stores: the descriptor with which it begins.
Stores(t, d) ==
  /\ UNCHANGED <<setting, clock, memory, seen, base, log, tx_overflow, tx_count>>
  /\ d \in Descriptor /\ d.w_set = W(t)
  /\ d.start = tx[t].start /\ d.end = tx[t].end /\ d.r_set = tx[t].r_set /\ d.ro = tx[t].ro
  /\ d.status = "ACTIVE" /\ d.type = "NL" /\ d.lastraddr = tx[t].lastraddr
  /\ at[t].pc \in {"ready", "write", "cas"} /\ tx[t].status = "ACTIVE"

\* A transaction that stores: its entries and their locks.
LEMMA StoresIs ==
  ASSUME IInv, NEW t \in Threads, NEW d, Stores(t, d)
  PROVE  /\ locks \in [Stripes -> FreeLock \cup OwnedLock]
         /\ \A i \in DOMAIN W(t) :
              /\ i \in Nat /\ EntryOf(t, i) /\ W(t)[i].addr \in Addresses
              /\ W(t)[i].lock = Stripe[W(t)[i].addr] /\ W(t)[i].lock \in Stripes
              /\ W(t)[i].next = 0 <=> \A j \in DOMAIN W(t) : j > i => W(t)[j].lock # W(t)[i].lock
              /\ \A j \in DOMAIN W(t) : j # i => W(t)[j].addr # W(t)[i].addr
              /\ locks[W(t)[i].lock].owner = t /\ Inherits(t, W(t)[i])
         /\ W(t) \in Seq(WriteEntry) /\ Len(W(t)) \in Nat
         /\ tx' = [[tx EXCEPT ![t] = d] EXCEPT ![t] = d] => tx' = [tx EXCEPT ![t] = d]
<1>1. From(t) = 1
  BY DEF Stores, From
<1>2. W(t) \in Seq(WriteEntry) /\ Len(W(t)) \in Nat
  BY Before, DescriptorIs DEF W
<1>3. \A i \in DOMAIN W(t) : i \in Pos /\ EntryOf(t, i) /\ W(t)[i].addr \in Addresses
  BY Before, LocalsAre
<1>4. \A i \in DOMAIN W(t) : Inherits(t, W(t)[i])
  BY DEF Inherits
<1>5. \A i \in DOMAIN W(t) : /\ W(t)[i].lock = Stripe[W(t)[i].addr] /\ W(t)[i].lock \in Stripes
  BY <1>3, Before, SettingIs DEF EntryOf
<1>6. \A i \in DOMAIN W(t) :
        /\ W(t)[i].next = 0 <=> \A j \in DOMAIN W(t) : j > i => W(t)[j].lock # W(t)[i].lock
        /\ \A j \in DOMAIN W(t) : j # i => W(t)[j].addr # W(t)[i].addr
        /\ locks[W(t)[i].lock].owner = t
  BY <1>1, <1>3 DEF EntryOf, Pos
<1>7. \A i \in DOMAIN W(t) : i \in Nat
  BY <1>3 DEF Pos
<1>8. QED
  BY <1>2, <1>3, <1>4, <1>5, <1>6, <1>7, Before DEF Global

\* A store to an address that has an entry.
LEMMA StoreAgainStep ==
  ASSUME IInv, NEW t \in Threads, NEW d, Stores(t, d), ~tx[t].ro, locks' = locks,
         NEW c \in Calls, c.pc \in {"ready", "window"}, at' = [at EXCEPT ![t] = c],
         NEW i \in DOMAIN W(t), NEW value \in Val, NEW mask \in SUBSET Bytes,
         tx' = [tx EXCEPT ![t] = [d EXCEPT !.w_set[i].value = value, !.w_set[i].mask = mask]]
  PROVE  IInv'
<1> DEFINE e == [W(t)[i] EXCEPT !.value = value, !.mask = mask]
           q == [W(t) EXCEPT ![i] = e]
           f == [d EXCEPT !.w_set = q]
<1>1. W(t) \in Seq(WriteEntry) /\ W(t)[i] \in WriteEntry
  BY Before, LocalsAre, DescriptorIs DEF W
<1>2. e \in WriteEntry /\ e.addr = W(t)[i].addr /\ e.lock = W(t)[i].lock
      /\ e.version = W(t)[i].version /\ e.next = W(t)[i].next
  BY <1>1 DEF WriteEntry
<1> HIDE DEF e
<1>3. /\ q \in Seq(WriteEntry) /\ DOMAIN q = DOMAIN W(t)
      /\ \A j \in DOMAIN W(t) :
           /\ q[j].addr = W(t)[j].addr /\ q[j].lock = W(t)[j].lock
           /\ q[j].version = W(t)[j].version /\ q[j].next = W(t)[j].next
  BY <1>1, <1>2
<1>4. tx' = [tx EXCEPT ![t] = f]
  <2>1. [d EXCEPT !.w_set[i].value = value, !.w_set[i].mask = mask] = f
    BY <1>1 DEF Stores, Descriptor, e
  <2>2. QED
    BY <2>1
<1> HIDE DEF q
<1>5. /\ f \in Descriptor /\ f.w_set = q /\ f.start = tx[t].start /\ f.end = tx[t].end
      /\ f.r_set = R(t) /\ ~f.ro /\ f.status = "ACTIVE" /\ f.type = "NL"
  BY <1>3 DEF Stores, Descriptor, R
<1> HIDE DEF f
<1>6. /\ locks' \in [Stripes -> FreeLock \cup OwnedLock]
      /\ \A j \in DOMAIN q :
           /\ q[j].lock = Stripe[q[j].addr] /\ q[j].addr \in Addresses
           /\ q[j].next = 0 <=> \A k \in DOMAIN q : k > j => q[k].lock # q[j].lock
           /\ \A k \in DOMAIN q : k # j => q[k].addr # q[j].addr
           /\ Inherits(t, q[j]) /\ locks'[q[j].lock].owner = t
  <2>1. \A j \in DOMAIN W(t) : Inherits(t, q[j])
    BY <1>3 DEF Inherits
  <2>2. \A j \in DOMAIN W(t) :
         /\ W(t)[j].addr \in Addresses /\ W(t)[j].lock = Stripe[W(t)[j].addr]
         /\ W(t)[j].next = 0 <=> \A k \in DOMAIN W(t) : k > j => W(t)[k].lock # W(t)[j].lock
         /\ \A k \in DOMAIN W(t) : k # j => W(t)[k].addr # W(t)[j].addr
         /\ locks[W(t)[j].lock].owner = t
    BY StoresIs, ZenonT(60)
  <2>3. locks' \in [Stripes -> FreeLock \cup OwnedLock]
    BY StoresIs
  <2>4. \A j \in DOMAIN q :
           /\ q[j].lock = Stripe[q[j].addr] /\ q[j].addr \in Addresses
           /\ q[j].next = 0 <=> \A k \in DOMAIN q : k > j => q[k].lock # q[j].lock
           /\ \A k \in DOMAIN q : k # j => q[k].addr # q[j].addr
           /\ locks'[q[j].lock].owner = t
    BY <1>3, <2>2
  <2>5. QED
    BY <1>3, <2>1, <2>3, <2>4
<1>7. /\ UNCHANGED <<setting, clock, memory, seen, base, log, tx_overflow, tx_count>>
      /\ at[t].pc \in {"ready", "write", "cas"} /\ tx[t].status = "ACTIVE"
      /\ \A s \in Stripes : locks'[s] = locks[s]
  BY DEF Stores
<1>8. \A j \in DOMAIN W(t) : j \in DOMAIN q /\ q[j].lock = W(t)[j].lock
  BY <1>3
<1>9. Grows(t, f, c, q)
  BY <1>3, <1>4, <1>5, <1>6, <1>7, <1>8 DEF Grows
<1>10. QED
  BY <1>9, GrowStep

\* A store to another address under a lock of our own.
LEMMA StoreLinkedStep ==
  ASSUME IInv, NEW t \in Threads, NEW d, Stores(t, d), ~tx[t].ro, locks' = locks,
         NEW c \in Calls, c.pc \in {"ready", "window"}, at' = [at EXCEPT ![t] = c],
         NEW e \in WriteEntry, e.addr \in Addresses, e.lock = Stripe[e.addr], e.next = 0,
         \A i \in DOMAIN W(t) : W(t)[i].addr # e.addr,
         NEW prev \in DOMAIN W(t), W(t)[prev].lock = e.lock, W(t)[prev].next = 0,
         e.version = W(t)[prev].version,
         tx' = [tx EXCEPT ![t] = [d EXCEPT !.w_set = AppendLinked(W(t), e, prev)]]
  PROVE  IInv'
<1> DEFINE n == Len(W(t)) + 1
           f == [W(t)[prev] EXCEPT !.next = n]
           w == [W(t) EXCEPT ![prev] = f]
<1>1. W(t) \in Seq(WriteEntry) /\ W(t)[prev] \in WriteEntry /\ prev # 0 /\ n \in Nat /\ n # 0
      /\ Len(W(t)) \in Nat
  BY Before, LocalsAre, DescriptorIs DEF W, Pos
<1>2. f \in WriteEntry /\ f.addr = W(t)[prev].addr /\ f.lock = W(t)[prev].lock
      /\ f.version = W(t)[prev].version /\ f.next # 0
  BY <1>1 DEF WriteEntry
<1>3. AppendLinked(W(t), e, prev) = Append(w, e)
  BY <1>1 DEF AppendLinked
<1> HIDE DEF f
<1>4. /\ w \in Seq(WriteEntry) /\ DOMAIN w = DOMAIN W(t) /\ Len(w) = Len(W(t)) /\ w[prev] = f
      /\ \A j \in DOMAIN W(t) : j # prev => w[j] = W(t)[j]
  BY <1>1, <1>2
<1> HIDE DEF w
<1>5. PICK q : q = Append(w, e)
  OBVIOUS
<1>6. /\ q \in Seq(WriteEntry) /\ q[n] = e /\ n \in DOMAIN q
      /\ \A i \in DOMAIN W(t) : i \in Nat /\ i < n /\ i \in DOMAIN q
      /\ \A i \in DOMAIN q : i \in DOMAIN W(t) \/ i = n
      /\ q[prev] = f /\ \A i \in DOMAIN W(t) : i # prev => q[i] = W(t)[i]
  <2>1. /\ q \in Seq(WriteEntry) /\ Len(w) \in Nat /\ q[Len(w) + 1] = e
        /\ Len(w) + 1 \in DOMAIN q
        /\ \A i \in DOMAIN w : i \in Nat /\ i <= Len(w) /\ i \in DOMAIN q /\ q[i] = w[i]
        /\ \A i \in DOMAIN q : i \in DOMAIN w \/ i = Len(w) + 1
    BY <1>4, <1>5, AppendIs
  <2>2. QED
    BY <1>1, <1>4, <2>1
<1> HIDE DEF n
<1>7. \A i \in DOMAIN W(t) : /\ q[i].addr = W(t)[i].addr /\ q[i].lock = W(t)[i].lock
                             /\ q[i].version = W(t)[i].version
                             /\ q[i].next = 0 <=> (W(t)[i].next = 0 /\ i # prev)
  BY <1>2, <1>6
<1> DEFINE g == [d EXCEPT !.w_set = q]
<1>8. tx' = [tx EXCEPT ![t] = g]
  BY <1>3, <1>5
<1>9. /\ g \in Descriptor /\ g.w_set = q /\ g.start = tx[t].start /\ g.end = tx[t].end
      /\ g.r_set = R(t) /\ ~g.ro /\ g.status = "ACTIVE" /\ g.type = "NL"
  BY <1>6 DEF Stores, Descriptor, R
<1> HIDE DEF g
<1>10. \A i \in DOMAIN W(t) :
         /\ i \in Nat /\ W(t)[i].addr \in Addresses
         /\ W(t)[i].lock = Stripe[W(t)[i].addr] /\ W(t)[i].lock \in Stripes
         /\ W(t)[i].next = 0 <=> \A j \in DOMAIN W(t) : j > i => W(t)[j].lock # W(t)[i].lock
         /\ \A j \in DOMAIN W(t) : j # i => W(t)[j].addr # W(t)[i].addr
         /\ locks[W(t)[i].lock].owner = t /\ Inherits(t, W(t)[i])
  BY StoresIs, ZenonT(60)
<1>11. \A i \in DOMAIN q :
         q[i].next = 0 <=> \A j \in DOMAIN q : j > i => q[j].lock # q[i].lock
  <2> SUFFICES ASSUME NEW i \in DOMAIN q
               PROVE  q[i].next = 0 <=> \A j \in DOMAIN q : j > i => q[j].lock # q[i].lock
    OBVIOUS
  <2>1. CASE i = n
    <3>1. \A j \in DOMAIN q : ~(j > i)
      BY <1>1, <1>6, <2>1 DEF n
    <3>2. q[i].next = 0
      BY <1>6, <2>1
    <3>3. QED
      BY <3>1, <3>2
  <2>2. CASE i = prev
    <3>1. n > i /\ q[n].lock = q[i].lock /\ q[i].next # 0
      BY <1>1, <1>6, <1>7, <2>2 DEF n
    <3>2. QED
      BY <1>6, <3>1
  <2>3. CASE i \in DOMAIN W(t) /\ i # prev /\ W(t)[i].lock = e.lock
    <3>1. W(t)[i].next # 0
      <4>1. i < prev \/ prev < i
        BY <1>10, <2>3
      <4>2. QED
        BY <1>10, <2>3, <4>1
    <3>2. PICK j \in DOMAIN W(t) : j > i /\ W(t)[j].lock = W(t)[i].lock
      BY <1>10, <2>3, <3>1
    <3>3. j \in DOMAIN q /\ q[j].lock = q[i].lock /\ q[i].next # 0
      BY <1>6, <1>7, <2>3, <3>1, <3>2
    <3>4. QED
      BY <3>2, <3>3
  <2>4. CASE i \in DOMAIN W(t) /\ i # prev /\ W(t)[i].lock # e.lock
    <3>1. q[i].next = 0 <=> \A j \in DOMAIN W(t) : j > i => W(t)[j].lock # W(t)[i].lock
      BY <1>7, <1>10, <2>4
    <3>2. \A j \in DOMAIN q : q[j].lock = q[i].lock => j \in DOMAIN W(t)
      BY <1>6, <1>7, <2>4
    <3>3. QED
      BY <1>6, <1>7, <2>4, <3>1, <3>2
  <2>5. QED
    BY <1>6, <2>1, <2>2, <2>3, <2>4
<1>12. \A i \in DOMAIN q :
         /\ q[i].lock = Stripe[q[i].addr] /\ q[i].addr \in Addresses
         /\ \A j \in DOMAIN q : j # i => q[j].addr # q[i].addr
  BY <1>6, <1>7, <1>10, SMTT(30)
<1>13. \A i \in DOMAIN q : Inherits(t, q[i]) /\ locks[q[i].lock].owner = t
  <2>1. \A i \in DOMAIN W(t) : Inherits(t, q[i]) /\ locks[q[i].lock].owner = t
    BY <1>7, <1>10 DEF Inherits
  <2>2. Inherits(t, q[n]) /\ locks[q[n].lock].owner = t
    BY <1>6, <1>10 DEF Inherits
  <2>3. QED
    BY <1>6, <2>1, <2>2
<1>14. locks' \in [Stripes -> FreeLock \cup OwnedLock]
  BY StoresIs
<1>15. \A i \in DOMAIN W(t) : i \in DOMAIN q /\ q[i].lock = W(t)[i].lock
  BY <1>6, <1>7
<1>16. /\ UNCHANGED <<setting, clock, memory, seen, base, log, tx_overflow, tx_count>>
       /\ at[t].pc \in {"ready", "write", "cas"} /\ tx[t].status = "ACTIVE"
       /\ \A s \in Stripes : locks'[s] = locks[s]
  BY DEF Stores
<1>17. \A i \in DOMAIN q :
         /\ q[i].lock = Stripe[q[i].addr] /\ q[i].addr \in Addresses
         /\ q[i].next = 0 <=> \A j \in DOMAIN q : j > i => q[j].lock # q[i].lock
         /\ \A j \in DOMAIN q : j # i => q[j].addr # q[i].addr
         /\ Inherits(t, q[i]) /\ locks'[q[i].lock].owner = t
  BY <1>11, <1>12, <1>13
<1>18. Grows(t, g, c, q)
  BY <1>6, <1>8, <1>9, <1>14, <1>15, <1>16, <1>17 DEF Grows
<1>19. QED
  BY <1>18, GrowStep

StoreCall == [pc : {"write", "cas"}, addr : Addresses, value : Val, mask : SUBSET Bytes,
              l : FreeLock, elastic : BOOLEAN]

\* Where a store leads to when it is done.
LEMMA WrittenIs ==
  ASSUME NEW t \in Threads, NEW c \in StoreCall, Written(t, c)
  PROVE  \E n \in Calls : n.pc \in {"ready", "window"} /\ at' = [at EXCEPT ![t] = n]
<1>1. [pc |-> "window"] \in Calls /\ Ready \in Calls /\ Ready.pc = "ready"
  BY PlainIs DEF Plain, Ready
<1>2. QED
  BY <1>1 DEF Written, Goto

\* A store that writes nothing is a calm step.
LEMMA StoresCalm ==
  ASSUME IInv, NEW t \in Threads, NEW d, Stores(t, d), locks' = locks,
         tx' = [tx EXCEPT ![t] = d]
  PROVE  Calm(t, d)
  BY DEF Stores, Calm, Away

\* A write set that is full rolls the transaction back.
LEMMA ReallocateStep ==
  ASSUME IInv, NEW t \in Threads, NEW d, Stores(t, d), locks' = locks,
         Reallocate(t, [tx EXCEPT ![t] = d])
  PROVE  IInv'
<1>1. PICK n \in Nat : n = d.size * 2
  BY DEF Stores, Descriptor
<1> DEFINE f == [d EXCEPT !.size = n, !.reallocate = TRUE]
<1>2. tx' = [tx EXCEPT ![t] = f] /\ Rollback(t)
  BY <1>1, Before DEF Reallocate
<1>3. Stores(t, f)
  BY DEF Stores, Descriptor
<1> HIDE DEF f
<1>4. QED
  BY <1>2, <1>3, StoresCalm, CalmRollback

\* Of the entries for a lock, one is the last.
LEMMA LastEntry ==
  ASSUME IInv, NEW t \in Threads, NEW d, Stores(t, d), NEW s \in Stripes, locks[s].owner = t
  PROVE  \E j \in DOMAIN W(t) : W(t)[j].lock = s /\ W(t)[j].next = 0
<1> DEFINE T == {j \in DOMAIN W(t) : W(t)[j].lock = s}
<1>1. IsOwned(locks[s]) /\ LockOf(s)
  BY EstmAssumption DEF IsOwned, IInv
<1>2. T # {}
  BY <1>1 DEF LockOf
<1>3. T \subseteq 0 .. Len(W(t)) /\ Len(W(t)) \in Nat
  BY Before, DescriptorIs DEF W
<1>4. PICK j \in T : \A k \in T : k <= j
  <2> HIDE DEF T
  <2> QED
    BY <1>2, <1>3, Greatest
<1>5. \A k \in DOMAIN W(t) : k > j => W(t)[k].lock # W(t)[j].lock
  BY <1>3, <1>4
<1>6. W(t)[j].next = 0
  BY <1>4, <1>5, StoresIs
<1>7. QED
  BY <1>4, <1>6

\* A store under a lock of the transaction.
LEMMA WriteOwnedStep ==
  ASSUME IInv, NEW t \in Threads, NEW d, Stores(t, d), locks' = locks, ~tx[t].ro,
         NEW c \in StoreCall, locks[Stripe[c.addr]].owner = t,
         WriteOwned(t, [tx EXCEPT ![t] = d], c)
  PROVE  IInv'
<1>0. PICK D \in [Threads -> Descriptor] :
        /\ D = [tx EXCEPT ![t] = d] /\ D[t] = d /\ WriteOwned(t, D, c)
        /\ \A f : [D EXCEPT ![t] = f] = [tx EXCEPT ![t] = f]
  BY Before DEF Stores
<1> DEFINE same == {i \in DOMAIN D[t].w_set : D[t].w_set[i].addr = c.addr}
           entry == CHOOSE i \in same : TRUE
<1>1. /\ D[t] = d /\ d.w_set = W(t) /\ d \in Descriptor /\ W(t) \in Seq(WriteEntry)
      /\ c.addr \in Addresses /\ c.value \in Val /\ c.mask \in SUBSET Bytes
      /\ memory[c.addr] \in Val
  BY <1>0, Before, DescriptorIs DEF Stores, StoreCall, Global
<1>2. PICK s \in Stripes : s = Stripe[c.addr]
  BY <1>1, Before, SettingIs
<1>3. CASE same # {}
  <2>1. PICK i \in DOMAIN W(t) : i = entry /\ W(t)[i].addr = c.addr
    BY <1>1, <1>3
  <2>0. PICK old : old = IF D[t].w_set[i].mask = {} THEN memory[c.addr] ELSE D[t].w_set[i].value
    OBVIOUS
  <2>2. /\ tx' = IF c.mask = {} THEN D
                 ELSE [D EXCEPT ![t].w_set[i].value = Merge(old, c.value, c.mask),
                                ![t].w_set[i].mask = @ \cup c.mask]
        /\ Written(t, c)
    BY <1>0, <1>3, <2>0, <2>1 DEF WriteOwned
  <2>3. PICK n \in Calls : n.pc \in {"ready", "window"} /\ at' = [at EXCEPT ![t] = n]
    BY <2>2, WrittenIs
  <2>4. CASE c.mask = {}
    <3>1. Calm(t, d)
      BY <1>0, <2>2, <2>4, StoresCalm
    <3>2. QED
      BY <2>3, <3>1, RestMove
  <2>5. CASE c.mask # {}
    <3>1. W(t)[i] \in WriteEntry
      BY <1>1
    <3>2. PICK mask \in SUBSET Bytes : mask = W(t)[i].mask \cup c.mask
      BY <1>1, <3>1 DEF WriteEntry
    <3>3. PICK value \in Val : value = Merge(old, c.value, c.mask)
      <4>1. \A x \in Val : \A y \in Val : Merge(x, y, c.mask) \in Val
        BY DEF Merge, Val
      <4>2. W(t)[i].value \in Val
        BY <3>1 DEF WriteEntry
      <4>3. QED
        BY <1>1, <2>0, <4>1, <4>2
    <3>4. tx' = [D EXCEPT ![t].w_set[i].value = value, ![t].w_set[i].mask = @ \cup c.mask]
      BY <2>2, <2>5, <3>3
    <3>5. [D EXCEPT ![t].w_set[i].value = value, ![t].w_set[i].mask = @ \cup c.mask]
           = [D EXCEPT ![t] = [d EXCEPT !.w_set[i].value = value, !.w_set[i].mask = mask]]
      BY <1>0, <1>1, <3>1, <3>2 DEF Descriptor, WriteEntry
    <3>7. tx' = [tx EXCEPT ![t] = [d EXCEPT !.w_set[i].value = value, !.w_set[i].mask = mask]]
      BY <1>0, <3>4, <3>5
    <3>8. QED
      BY <2>3, <3>7, StoreAgainStep
  <2>6. QED
    BY <2>4, <2>5
<1>4. CASE same = {} /\ Len(W(t)) = d.size
  <2>1. Reallocate(t, D)
    BY <1>0, <1>1, <1>4 DEF WriteOwned
  <2>2. QED
    BY <1>0, <2>1, ReallocateStep
<1>5. CASE same = {} /\ Len(W(t)) # d.size
  <2> DEFINE last == CHOOSE j \in DOMAIN D[t].w_set :
                       D[t].w_set[j].lock = Stripe[c.addr] /\ D[t].w_set[j].next = 0
  <2>1. \E j \in DOMAIN W(t) : W(t)[j].lock = s /\ W(t)[j].next = 0
    BY <1>2, LastEntry
  <2>2. PICK prev \in DOMAIN W(t) : prev = last /\ W(t)[prev].lock = s /\ W(t)[prev].next = 0
    BY <1>1, <1>2, <2>1
  <2>3. PICK version \in Nat : version = W(t)[prev].version
    BY Before, LocalsAre
  <2>4. PICK e \in WriteEntry :
          /\ e = Entry(c, version) /\ e.addr = c.addr /\ e.lock = s /\ e.version = version
          /\ e.next = 0
    BY <1>1, <1>2, Before, EntryIs
  <2>5. /\ tx' = [D EXCEPT ![t].w_set = AppendLinked(@, e, prev)]
        /\ Written(t, c)
    <3>1. Entry(c, D[t].w_set[prev].version) = e
      BY <1>1, <2>3, <2>4
    <3>2. /\ tx' = [D EXCEPT ![t].w_set =
                       AppendLinked(@, Entry(c, D[t].w_set[prev].version), prev)]
          /\ Written(t, c)
      BY <1>0, <1>1, <1>5, <2>2 DEF WriteOwned
    <3>3. QED
      BY <3>1, <3>2
  <2>6. tx' = [tx EXCEPT ![t] = [d EXCEPT !.w_set = AppendLinked(W(t), e, prev)]]
    BY <1>0, <1>1, <2>5
  <2>7. PICK n \in Calls : n.pc \in {"ready", "window"} /\ at' = [at EXCEPT ![t] = n]
    BY <2>5, WrittenIs
  <2>8. \A i \in DOMAIN W(t) : W(t)[i].addr # e.addr
    BY <1>1, <1>5, <2>4
  <2>9. e.addr \in Addresses /\ e.lock = Stripe[e.addr] /\ W(t)[prev].lock = e.lock
        /\ e.version = W(t)[prev].version
    BY <1>1, <1>2, <2>2, <2>3, <2>4
  <2>10. QED
    BY <2>2, <2>4, <2>6, <2>7, <2>8, <2>9, StoreLinkedStep
<1>6. QED
  BY <1>3, <1>4, <1>5

\* stm_write up to the compare-and-swap.
LEMMA WriteStep ==
  ASSUME IInv, NEW t \in Threads, NEW d, Stores(t, d), locks' = locks,
         NEW c \in StoreCall, c.pc = "write", Write(t, [tx EXCEPT ![t] = d], c)
  PROVE  IInv'
<1>0. PICK D : /\ D = [tx EXCEPT ![t] = d] /\ D[t] = d /\ Write(t, D, c)
  BY Before
<1>1. PICK s, l : /\ s = Stripe[c.addr] /\ l = locks[s]
                  /\ s \in Stripes /\ c.addr \in Addresses
  BY Before, SettingIs DEF StoreCall
<1>2. /\ d.w_set = W(t) /\ d \in Descriptor /\ d.ro = tx[t].ro /\ d.end = tx[t].end
      /\ d.r_set = R(t)
  BY DEF Stores, R
<1>3. CASE Rollback(t) /\ tx' = D
  BY <1>0, <1>3, StoresCalm, CalmRollback
<1>4. CASE ~d.ro /\ l.owner = t
  <2>1. WriteOwned(t, D, c)
    BY <1>0, <1>1, <1>4 DEF Write
  <2>2. QED
    BY <1>0, <1>1, <1>2, <1>4, <2>1, WriteOwnedStep
<1>5. CASE Reallocate(t, D)
  BY <1>0, <1>5, ReallocateStep
<1>6. CASE /\ ~d.ro /\ ~IsOwned(l) /\ ~(l.version > d.end /\ (~d.can_extend \/ HasRead(t, s)))
           /\ Goto(t, [c EXCEPT !.pc = "cas", !.l = l]) /\ tx' = D
  <2>1. l \in FreeLock /\ l.version \in Nat /\ l.version <= clock
    BY <1>1, <1>6, Before, LockIs, FreeIs DEF IInv, LockOf
  <2> DEFINE n == [c EXCEPT !.pc = "cas", !.l = l]
  <2>2. at' = [at EXCEPT ![t] = n] /\ tx' = [tx EXCEPT ![t] = d]
    BY <1>0, <1>6 DEF Goto
  <2>3. n \in StoreCall /\ n.pc = "cas" /\ n.addr = c.addr /\ n.l = l
    BY <2>1 DEF StoreCall
  <2> HIDE DEF n
  <2>4. n \in Calls
    BY <2>3 DEF Calls, StoreCall
  <2>5. Calm(t, d)
    BY <2>2, StoresCalm
  <2>6. Keeps(t, d, n)
    <3>1. d.type # "EL"
      BY DEF Stores
    <3>2. QED
      BY <1>2, <1>6, <2>2, <2>3, <2>4, <2>5, <3>1, CalmKeeps
  <2>7. /\ at'[t] = n /\ tx'[t] = d /\ clock' = clock /\ W(t)' = W(t) /\ clock \in Nat
        /\ Stripe' = Stripe
    BY <2>3, <2>6, QuietMove DEF Keeps
  <2>8. R(t)' = R(t)
    BY <1>2, <2>7 DEF R
  <2>9. TimesOf(t)'
    <3>1. d.start <= clock /\ d.end <= clock
      BY Before DEF Stores, TimesOf
    <3>2. QED
      BY <2>1, <2>3, <2>7, <3>1 DEF TimesOf, Carrying, Pending, Committed, At
  <2>10. VerOf(t)' /\ FlightOf(t)'
    BY <2>3, <2>7 DEF VerOf, FlightOf, Carrying, At
  <2>11. \A j \in DOMAIN R(t) : ReadEntryOf(t, j)'
    <3> SUFFICES ASSUME NEW j \in DOMAIN R(t) PROVE ReadEntryOf(t, j)'
      OBVIOUS
    <3>1. ReadEntryOf(t, j) /\ Stable(R(t)[j].version, R(t)[j].lock, tx[t].end)'
      BY <2>3, <2>6, KeepMove
    <3>2. tx'[t].end = tx[t].end /\ tx[t].end \in Nat
      BY <1>2, <2>7, Before, LocalsAre
    <3>3. R(t)[j].lock = s => l.version <= tx[t].end
      <4>1. R(t)[j].lock = s => HasRead(t, s)
        BY DEF HasRead, R
      <4>2. QED
        BY <1>2, <1>6, <2>1, <3>2, <4>1
    <3>4. at'[t].l = l /\ Stripe'[at'[t].addr] = s /\ at'[t].pc = "cas"
      BY <1>1, <2>3, <2>7
    <3>5. /\ R(t)[j].version <= tx[t].end
          /\ \A i \in DOMAIN W(t) : W(t)[i].lock = R(t)[j].lock => W(t)[i].version <= tx[t].end
      BY <3>1 DEF ReadEntryOf
    <3>6. QED
      BY <2>7, <2>8, <3>1, <3>2, <3>3, <3>4, <3>5 DEF ReadEntryOf, At
  <2>12. QED
    BY <2>3, <2>6, <2>9, <2>10, <2>11, KeepMove
<1>7. QED
  BY <1>0, <1>1, <1>3, <1>4, <1>5, <1>6 DEF Write

\* stm_store and stm_store2 keep the invariant.
LEMMA StoreStep ==
  ASSUME IInv, NEW t \in Threads, NEW a \in Addresses, NEW mask \in Client(t).masks,
         Store(t, a, Word(Client(t).byte), mask)
  PROVE  IInv'
<1>1. /\ UNCHANGED <<setting, clock, locks, memory, seen, base, log, tx_overflow, tx_count>>
      /\ at[t].pc = "ready" /\ tx[t].status = "ACTIVE"
  BY ActiveIs DEF Store, unmoved, history
<1>2. PICK n \in Nat : n = tx[t].accesses + 1
  BY Before DEF Descriptor
<1> DEFINE d == [tx[t] EXCEPT !.accesses = n, !.type = "NL"]
           c == [pc |-> "write", addr |-> a, value |-> Word(Client(t).byte), mask |-> mask,
                 l |-> Free(0), elastic |-> tx[t].type = "EL"]
<1>3. [tx EXCEPT ![t].accesses = @ + 1, ![t].type = "NL"] = [tx EXCEPT ![t] = d]
  BY <1>2, Before
<1>4. Write(t, [tx EXCEPT ![t] = d], c)
  BY <1>3 DEF Store
<1>5. Stores(t, d)
  BY <1>1, Before, ZenonT(60) DEF Stores, Descriptor, W
<1>6. c \in StoreCall /\ c.pc = "write"
  <2>1. Word(Client(t).byte) \in Val /\ Free(0) \in FreeLock /\ mask \in SUBSET Bytes
    BY Before, ClientIs, FreeIs DEF Word, Val
  <2>2. PICK e \in BOOLEAN : e = (tx[t].type = "EL")
    OBVIOUS
  <2>3. [pc |-> "write", addr |-> a, value |-> Word(Client(t).byte), mask |-> mask,
         l |-> Free(0), elastic |-> e] \in StoreCall
    BY <2>1 DEF StoreCall
  <2>4. QED
    BY <2>2, <2>3
<1> HIDE DEF d, c
<1>7. QED
  BY <1>1, <1>4, <1>5, <1>6, WriteStep

\* The lock has changed under the compare-and-swap: the store starts again.
LEMMA WriteAgainStep ==
  ASSUME IInv, NEW t \in Threads, WriteAgain(t)
  PROVE  IInv'
<1>1. /\ UNCHANGED <<setting, clock, locks, memory, seen, base, log, tx_overflow, tx_count>>
      /\ at[t].pc = "write" /\ tx[t].status = "ACTIVE" /\ tx[t].type = "NL"
  BY ActiveIs, Before DEF WriteAgain, unmoved, history, At, FlatOf, NormalSteps, Descriptor
<1>2. Stores(t, tx[t])
  BY <1>1, Before DEF Stores, W
<1>3. at[t] \in StoreCall
  BY <1>1, Before, CallIs DEF StoreCall
<1>4. Write(t, [tx EXCEPT ![t] = tx[t]], at[t])
  <2>1. [tx EXCEPT ![t] = tx[t]] = tx
    BY Before
  <2>2. QED
    BY <2>1 DEF WriteAgain
<1>5. QED
  BY <1>1, <1>2, <1>3, <1>4, WriteStep

\* The compare-and-swap takes the lock, at the version it was seen with.
LEMMA WriteCasStep ==
  ASSUME IInv, NEW t \in Threads, WriteCas(t)
  PROVE  IInv'
<1>1. /\ UNCHANGED <<setting, clock, memory, seen, base, log, tx_overflow, tx_count>>
      /\ at[t].pc = "cas" /\ tx[t].status = "ACTIVE" /\ tx[t].type = "NL" /\ ~tx[t].ro
      /\ ~Aborting(t) /\ ~Committed(t)
  BY ActiveIs, Before
     DEF WriteCas, unmoved, history, At, FlatOf, NormalSteps, Descriptor, ReadsOf, Aborting,
         Committed
<1>2. Stores(t, tx[t])
  BY <1>1, Before DEF Stores, W
<1>3. PICK c \in StoreCall : c = at[t]
  BY <1>1, Before, CallIs DEF StoreCall
<1>4. /\ c.addr \in Addresses /\ c.value \in Val /\ c.mask \in SUBSET Bytes /\ c.l \in FreeLock
      /\ c.l.version \in Nat /\ c.elastic \in BOOLEAN
  BY <1>3, FreeIs DEF StoreCall
<1>5. PICK s \in Stripes : s = Stripe[c.addr]
  BY <1>4, Before, SettingIs
<1>6. CASE locks[s] # c.l
  <2> DEFINE n == [c EXCEPT !.pc = "write", !.l = Free(0)]
  <2>1. at' = [at EXCEPT ![t] = n] /\ tx' = tx /\ locks' = locks
    BY <1>3, <1>5, <1>6 DEF WriteCas, Goto
  <2>2. n \in StoreCall /\ n.pc = "write"
    BY FreeIs DEF StoreCall
  <2> HIDE DEF n
  <2>3. n \in Calls
    BY <2>2 DEF Calls, StoreCall
  <2>4. Calm(t, tx[t])
    BY <1>1, <2>1, CalmSame DEF Away
  <2>5. QED
    BY <1>1, <2>1, <2>2, <2>3, <2>4, RestMove
<1>7. CASE locks[s] = c.l
  <2>1. PICK e \in WriteEntry :
          /\ e = Entry(c, c.l.version) /\ e.addr = c.addr /\ e.lock = s
          /\ e.version = c.l.version /\ e.next = 0
    BY <1>4, <1>5, Before, EntryIs
  <2>2. PICK q : q = Append(W(t), e)
    OBVIOUS
  <2>3. PICK n \in Pos : n = Len(W(t)) + 1
    BY <1>2, StoresIs DEF Pos
  <2>4. /\ q \in Seq(WriteEntry) /\ q[n] = e /\ n \in DOMAIN q /\ n \in Nat
        /\ \A i \in DOMAIN W(t) : i \in Nat /\ i < n /\ i \in DOMAIN q /\ q[i] = W(t)[i]
        /\ \A i \in DOMAIN q : i \in DOMAIN W(t) \/ i = n
    <3>1. W(t) \in Seq(WriteEntry) /\ Len(W(t)) \in Nat
      BY <1>2, StoresIs
    <3>2. /\ q \in Seq(WriteEntry) /\ q[Len(W(t)) + 1] = e /\ Len(W(t)) + 1 \in DOMAIN q
          /\ \A i \in DOMAIN W(t) : i \in Nat /\ i <= Len(W(t)) /\ i \in DOMAIN q /\ q[i] = W(t)[i]
          /\ \A i \in DOMAIN q : i \in DOMAIN W(t) \/ i = Len(W(t)) + 1
      BY <2>2, <3>1, AppendIs
    <3>3. QED
      BY <2>3, <3>1, <3>2
  <2>5. /\ locks' = [locks EXCEPT ![s] = Owned(t, n)]
        /\ tx' = [tx EXCEPT ![t].w_set = Append(@, Entry(c, c.l.version))]
        /\ Written(t, c)
    BY <1>3, <1>5, <1>7, <2>3 DEF WriteCas, W
  <2> DEFINE d == [tx[t] EXCEPT !.w_set = q]
  <2>6. tx' = [tx EXCEPT ![t] = d]
    BY <2>1, <2>2, <2>5, Before DEF W
  <2>7. PICK p \in Calls : p.pc \in {"ready", "window"} /\ at' = [at EXCEPT ![t] = p]
    BY <2>5, WrittenIs
  <2>8. /\ d \in Descriptor /\ d.w_set = q /\ d.start = tx[t].start /\ d.end = tx[t].end
        /\ d.r_set = R(t) /\ ~d.ro /\ d.status = "ACTIVE" /\ d.type = "NL"
    <3>0. q \in Seq(WriteEntry) /\ tx[t] \in Descriptor
      BY <2>4, Before
    <3>1. d \in Descriptor
      BY <3>0 DEF Descriptor
    <3>2. /\ d.w_set = q /\ d.start = tx[t].start /\ d.end = tx[t].end /\ d.r_set = R(t)
          /\ d.ro = tx[t].ro /\ d.status = tx[t].status /\ d.type = tx[t].type
      BY Before DEF Descriptor, R
    <3>3. QED
      BY <1>1, <3>1, <3>2
  <2> HIDE DEF d
  <2>9. \A i \in DOMAIN W(t) :
         /\ W(t)[i].addr \in Addresses
         /\ W(t)[i].lock = Stripe[W(t)[i].addr] /\ W(t)[i].lock \in Stripes
         /\ W(t)[i].next = 0 <=> \A j \in DOMAIN W(t) : j > i => W(t)[j].lock # W(t)[i].lock
         /\ \A j \in DOMAIN W(t) : j # i => W(t)[j].addr # W(t)[i].addr
         /\ locks[W(t)[i].lock].owner = t /\ Inherits(t, W(t)[i])
    BY <1>2, StoresIs
  <2>10. locks[s].owner # t /\ ~IsOwned(locks[s]) /\ locks[s].version = e.version
    BY <1>4, <1>7, <2>1, FreeIs, EstmAssumption DEF IsOwned
  <2>11. \A i \in DOMAIN W(t) : W(t)[i].lock # s /\ W(t)[i].addr # c.addr
    BY <1>5, <2>9, <2>10
  <2>12. locks' \in [Stripes -> FreeLock \cup OwnedLock]
    BY <1>2, <2>5, StoresIs, OwnedIs
  <2>13. /\ locks'[s] = Owned(t, n) /\ locks'[s].owner = t
         /\ \A x \in Stripes \ {s} : locks'[x] = locks[x]
    <3>1. locks \in [Stripes -> FreeLock \cup OwnedLock]
      BY <1>2, StoresIs
    <3>2. QED
      BY <2>5, <3>1, OwnedIs
  <2>14. Inherits(t, e)
    <3>1. ASSUME NEW j \in DOMAIN R(t), R(t)[j].lock = e.lock PROVE e.version <= tx[t].end
      BY <1>1, <1>3, <1>5, <2>1, <3>1, Before DEF ReadsOf, ReadEntryOf, At
    <3>2. QED
      BY <2>1, <2>10, <3>1 DEF Inherits
  <2>15. \A i \in DOMAIN q :
           /\ q[i].lock = Stripe[q[i].addr] /\ q[i].addr \in Addresses
           /\ \A j \in DOMAIN q : j # i => q[j].addr # q[i].addr
           /\ Inherits(t, q[i]) /\ locks'[q[i].lock].owner = t
    <3>1. \A i \in DOMAIN W(t) : locks'[W(t)[i].lock].owner = t
      BY <2>9, <2>11, <2>13
    <3>2. QED
      BY <1>4, <1>5, <2>1, <2>4, <2>9, <2>11, <2>13, <2>14, <3>1
  <2>16. \A i \in DOMAIN q :
           q[i].next = 0 <=> \A j \in DOMAIN q : j > i => q[j].lock # q[i].lock
    <3> SUFFICES ASSUME NEW i \in DOMAIN q
                 PROVE  q[i].next = 0 <=> \A j \in DOMAIN q : j > i => q[j].lock # q[i].lock
      OBVIOUS
    <3>1. CASE i = n
      BY <2>1, <2>4, <3>1
    <3>2. CASE i \in DOMAIN W(t)
      <4>1. q[n].lock # q[i].lock /\ q[i] = W(t)[i]
        BY <2>1, <2>4, <2>11, <3>2
      <4>2. QED
        BY <2>4, <2>9, <3>2, <4>1
    <3>3. QED
      BY <2>4, <3>1, <3>2
  <2>17. \A x \in Stripes : \/ locks'[x] = locks[x]
                            \/ /\ ~IsOwned(locks[x])
                               /\ \E k \in DOMAIN q : q[k].lock = x /\ locks'[x] = Owned(t, k)
    BY <2>1, <2>4, <2>10, <2>13
  <2>18. \A i \in DOMAIN W(t) : i \in DOMAIN q /\ q[i].lock = W(t)[i].lock
    BY <2>4
  <2>19. Grows(t, d, p, q)
    BY <1>1, <2>4, <2>6, <2>7, <2>8, <2>12, <2>15, <2>16, <2>17, <2>18 DEF Grows
  <2>20. QED
    BY <2>19, GrowStep
<1>8. QED
  BY <1>6, <1>7

-----------------------------------------------------------------------------
(* Dropping the locks.                                                     *)

\* The transaction leaves its entry i behind, and with the last entry of a lock the lock.
Drops(t, i, k, d, c, r) ==
  /\ UNCHANGED <<setting, clock, memory, base, log, tx_overflow, tx_count>>
  /\ at[t].pc \in {"rollback", "release"} /\ i = at[t].i /\ k \in Nat
  /\ i \in DOMAIN W(t) => k = IF Committed(t) THEN at[t].v ELSE W(t)[i].version
  /\ locks' = IF i \in DOMAIN W(t) /\ W(t)[i].next = 0
              THEN [locks EXCEPT ![W(t)[i].lock] = Free(k)] ELSE locks
  /\ tx' = [tx EXCEPT ![t] = d] /\ at' = [at EXCEPT ![t] = c] /\ seen' = [seen EXCEPT ![t] = r]
  /\ c \in Calls
  /\ \/ /\ i < Len(W(t)) /\ d = tx[t] /\ r = seen[t] /\ c.i = i + 1
        /\ \/ at[t].pc = "rollback" /\ c.pc = "rollback"
           \/ at[t].pc = "release" /\ c.pc = "writeBack" /\ c.v = at[t].v
     \/ ~(i < Len(W(t))) /\ d = Ended(t) /\ r = {} /\ c = Ready

\* An entry gives its lock back, by a rollback or a commit.
LEMMA DropStep ==
  ASSUME IInv, NEW t \in Threads, NEW i, NEW k, NEW d, NEW c, NEW r, Drops(t, i, k, d, c, r)
  PROVE  IInv'
<1> DEFINE on == i < Len(W(t))
           w == W(t)[i]
           dropped == i \in DOMAIN W(t) /\ w.next = 0
<1>1. /\ tx'[t] = d /\ at'[t] = c /\ seen'[t] = r /\ clock' = clock /\ clock \in Nat
      /\ memory' = memory /\ locks \in [Stripes -> FreeLock \cup OwnedLock]
      /\ i \in Pos /\ W(t) \in Seq(WriteEntry) /\ Len(W(t)) \in Nat /\ From(t) = i
      /\ DOMAIN W(t) = 1 .. Len(W(t)) /\ c \in Calls
  BY Before, LocalsAre, DescriptorIs DEF Drops, Global, W, At, Committed, From
<1>2. on => /\ W(t)' = W(t) /\ From(t)' = i + 1 /\ Committed(t)' = Committed(t)
            /\ (Committed(t) => at'[t].v = at[t].v)
            /\ \A j \in DOMAIN W(t) : Unwritten(t, j)' => Unwritten(t, j)
            /\ \A j \in DOMAIN W(t) : Committed(t) /\ Unwritten(t, j) => Unwritten(t, j)'
  <2> SUFFICES ASSUME on
               PROVE  /\ W(t)' = W(t) /\ From(t)' = i + 1 /\ Committed(t)' = Committed(t)
                      /\ (Committed(t) => at'[t].v = at[t].v)
                      /\ \A j \in DOMAIN W(t) : Unwritten(t, j)' => Unwritten(t, j)
                      /\ \A j \in DOMAIN W(t) :
                           Committed(t) /\ Unwritten(t, j) => Unwritten(t, j)'
    OBVIOUS
  <2>1. /\ d = tx[t] /\ c.i = i + 1
        /\ \/ at[t].pc = "rollback" /\ c.pc = "rollback"
           \/ at[t].pc = "release" /\ c.pc = "writeBack" /\ c.v = at[t].v
    BY DEF Drops
  <2>2. W(t)' = W(t) /\ From(t)' = i + 1 /\ Committed(t)' = Committed(t)
        /\ (Committed(t) => at'[t].v = at[t].v)
    BY <1>1, <2>1 DEF W, From, Committed
  <2>3. at[t].i = i /\ i \in Nat
    BY <1>1 DEF Drops, Pos
  <2>4. \A j \in DOMAIN W(t) : Unwritten(t, j)' => Unwritten(t, j)
    BY <1>1, <2>1, <2>3 DEF Unwritten, At
  <2>5. \A j \in DOMAIN W(t) : Committed(t) /\ Unwritten(t, j) => Unwritten(t, j)'
    BY <1>1, <2>1, <2>3 DEF Unwritten, Committed, At
  <2>6. QED
    BY <2>2, <2>4, <2>5
<1>3. ~on => /\ W(t)' = <<>> /\ ~Committed(t)' /\ From(t)' = 1
  <2>1. ~on => d = Ended(t) /\ c = Ready /\ r = {}
    BY DEF Drops
  <2>2. Ended(t).w_set = <<>> /\ Ready.pc = "ready"
    BY Before, ResetIs DEF Ready
  <2>3. QED
    BY <1>1, <2>1, <2>2 DEF W, Committed, From
<1>4. ~Pending(t)'
  <2>1. c.pc # "validate"
    BY DEF Drops, Ready
  <2>2. QED
    BY <1>1, <2>1 DEF Pending, At
<1>5. Undecided(t)
  <2>1. Only(t)
    BY <1>1 DEF Only, Drops
  <2>2. QED
    BY <1>4, <2>1 DEF Undecided, Drops
<1>6. /\ Past /\ Stripes' = Stripes /\ Stripe' = Stripe
      /\ \A a \in Addresses : \A x : Snapshot(x)'[a] = Snapshot(x)[a]
      /\ \A s : \A x : NoneLater(s, x)' = NoneLater(s, x)
      /\ \A v \in DOMAIN log : LogOf(v)'
      /\ \A u \in Threads : PendingOf(u)'
      /\ \A u \in Threads \ {t} :
           /\ SameThread(u) /\ W(u)' = W(u) /\ From(u)' = From(u)
           /\ Committed(u)' = Committed(u)
           /\ \A j : Unwritten(u, j)' = Unwritten(u, j)
           /\ \A j : \A s : Holds(u, j, s)' = Holds(u, j, s)
  BY <1>5, UndecidedIs
<1>7. \A j \in DOMAIN W(t) : /\ j \in Pos /\ W(t)[j].version \in Nat /\ W(t)[j].lock \in Stripes
                             /\ EntryOf(t, j)
  <2>1. \A j \in DOMAIN W(t) : /\ j \in Pos /\ W(t)[j].version \in Nat /\ EntryOf(t, j)
                               /\ W(t)[j].addr \in Addresses
    BY Before, LocalsAre
  <2>2. QED
    BY <2>1, Before, SettingIs DEF EntryOf
<1>8. \A j \in DOMAIN W(t) : \A s : Holds(t, j, s) <=> (i <= j /\ W(t)[j].lock = s)
  BY <1>1 DEF Holds
<1>9. \A j \in DOMAIN W(t)' : \A s :
        Holds(t, j, s)' => on /\ i + 1 <= j /\ j \in DOMAIN W(t) /\ W(t)[j].lock = s
                           /\ Holds(t, j, s) /\ W(t)'[j] = W(t)[j]
  <2>1. on => \A j \in DOMAIN W(t) : \A s : Holds(t, j, s)' => i + 1 <= j /\ W(t)[j].lock = s
    BY <1>2 DEF Holds
  <2>2. \A j \in DOMAIN W(t) : i + 1 <= j => i <= j
    BY <1>1 DEF Pos
  <2>3. QED
    BY <1>2, <1>3, <1>8, <2>1, <2>2
<1>10. i \in DOMAIN W(t) =>
         /\ locks[w.lock].owner = t /\ k <= clock /\ NoneLater(w.lock, k) /\ w.version <= k
         /\ Committed(t) => w.version < k
         /\ ~Committed(t) => w.version = k
  <2>1. Committed(t) => at[t].v <= clock /\ at[t].v \in Nat
    BY Before, LocalsAre DEF TimesOf
  <2>2. i \in DOMAIN W(t) => k = IF Committed(t) THEN at[t].v ELSE w.version
    BY DEF Drops
  <2>3. i \in DOMAIN W(t) =>
          /\ locks[w.lock].owner = t /\ w.version <= clock /\ w.version \in Nat
          /\ NoneLater(w.lock, IF Committed(t) THEN at[t].v ELSE w.version)
          /\ Committed(t) => w.version < at[t].v
    BY <1>1, <1>7 DEF EntryOf, Pos
  <2>4. QED
    BY <2>1, <2>2, <2>3
<1>11. /\ dropped => locks'[w.lock] = Free(k) /\ \A s \in Stripes : s # w.lock => locks'[s] = locks[s]
       /\ ~dropped => \A s \in Stripes : locks'[s] = locks[s]
  <2>1. dropped => locks' = [locks EXCEPT ![w.lock] = Free(k)]
    BY DEF Drops
  <2>2. ~dropped => locks' = locks
    BY DEF Drops
  <2>3. QED
    BY <1>1, <1>7, <2>1, <2>2
<1>12. k \in Nat /\ Free(k) \in FreeLock /\ ~IsOwned(Free(k)) /\ Free(k).version = k
  BY FreeIs DEF Drops
<1> HIDE DEF w, dropped, on
<1>13. \A s \in Stripes : IsOwned(locks'[s]) /\ locks'[s].owner = t =>
         on /\ \E j \in DOMAIN W(t) : i + 1 <= j /\ W(t)[j].lock = s
  <2> SUFFICES ASSUME NEW s \in Stripes, IsOwned(locks'[s]), locks'[s].owner = t
               PROVE  on /\ \E j \in DOMAIN W(t) : i + 1 <= j /\ W(t)[j].lock = s
    OBVIOUS
  <2>1. locks'[s] = locks[s] /\ ~(dropped /\ s = w.lock)
    BY <1>11, <1>12
  <2>2. PICK j \in DOMAIN W(t) : i <= j /\ W(t)[j].lock = s
    BY <1>8, <2>1 DEF IInv, LockOf
  <2>3. \E h \in DOMAIN W(t) : i + 1 <= h /\ W(t)[h].lock = s
    <3>1. CASE j # i
      BY <1>1, <1>7, <2>2, <3>1 DEF Pos
    <3>2. CASE j = i
      <4>1. w.next # 0 /\ w.lock = s
        BY <2>1, <2>2, <3>2 DEF dropped, w
      <4>2. PICK h \in DOMAIN W(t) : h > i /\ W(t)[h].lock = w.lock
        BY <1>7, <2>2, <3>2, <4>1 DEF EntryOf, w
      <4>3. QED
        BY <1>1, <1>7, <4>1, <4>2 DEF Pos
    <3>3. QED
      BY <3>1, <3>2
  <2>4. on
    BY <1>1, <2>3 DEF on, Pos
  <2>5. QED
    BY <2>3, <2>4
<1>14. \A s \in Stripes : LockOf(s)'
  <2> SUFFICES ASSUME NEW s \in Stripes PROVE LockOf(s)'
    OBVIOUS
  <2>1. LockOf(s) /\ (IsOwned(locks[s]) => locks[s].owner \in Threads)
    BY Before, LockIs DEF IInv
  <2>2. CASE dropped /\ s = w.lock
    <3>1. k <= clock /\ NoneLater(s, k)
      BY <1>10, <2>2 DEF dropped
    <3>2. NoneLater(s, k)' /\ ~IsOwned(locks'[s]) /\ locks'[s].version = k
      BY <1>6, <1>11, <1>12, <2>2, <3>1
    <3>3. QED
      BY <1>1, <3>1, <3>2 DEF LockOf
  <2>3. CASE locks'[s] = locks[s] /\ ~IsOwned(locks[s])
    <3>1. PICK x : x = locks[s].version
      OBVIOUS
    <3>2. x <= clock /\ NoneLater(s, x)'
      BY <1>6, <2>1, <2>3, <3>1 DEF LockOf
    <3>3. QED
      BY <1>1, <2>3, <3>1, <3>2 DEF LockOf
  <2>4. CASE locks'[s] = locks[s] /\ IsOwned(locks[s]) /\ locks[s].owner # t
    BY <1>6, <2>1, <2>4 DEF LockOf
  <2>5. CASE locks'[s] = locks[s] /\ IsOwned(locks[s]) /\ locks[s].owner = t
    <3>1. on /\ \E j \in DOMAIN W(t) : i + 1 <= j /\ W(t)[j].lock = s
      BY <1>13, <2>5
    <3>2. \E j \in DOMAIN W(t) : Holds(t, j, s)'
      BY <1>2, <3>1 DEF Holds
    <3>3. locks[s].entry \in DOMAIN W(t) /\ W(t)[locks[s].entry].lock = s
      BY <2>1, <2>5 DEF LockOf
    <3>4. QED
      BY <1>2, <2>5, <3>1, <3>2, <3>3 DEF LockOf
  <2>6. QED
    BY <1>11, <2>2, <2>3, <2>4, <2>5
<1>15. \A a \in Addresses : MemoryOf(a)'
  <2> SUFFICES ASSUME NEW a \in Addresses PROVE MemoryOf(a)'
    OBVIOUS
  <2>1. MemoryOf(a) /\ Snapshot(clock)'[a] = Snapshot(clock)[a]
    BY <1>1, <1>6 DEF IInv
  <2>2. CASE memory[a] = Snapshot(clock)[a]
    BY <1>1, <2>1, <2>2 DEF MemoryOf
  <2>3. CASE \E u \in Threads : Committed(u) /\
               \E j \in DOMAIN W(u) : Unwritten(u, j) /\ W(u)[j].addr = a /\ W(u)[j].mask # {}
    <3>1. PICK u, j : /\ u \in Threads /\ j \in DOMAIN W(u) /\ Committed(u) /\ Unwritten(u, j)
                      /\ W(u)[j].addr = a /\ W(u)[j].mask # {}
      BY <2>3
    <3>2. CASE u # t
      BY <1>6, <3>1, <3>2 DEF MemoryOf
    <3>3. CASE u = t
      <4>1. on
        <5>1. i < j
          BY <3>1, <3>3 DEF Unwritten, Committed, At, Drops
        <5>2. j <= Len(W(t)) /\ j \in Nat /\ i \in Nat
          BY <1>1, <3>1, <3>3 DEF Pos
        <5>3. QED
          BY <1>1, <5>1, <5>2 DEF on
      <4>2. QED
        BY <1>2, <3>1, <3>3, <4>1 DEF MemoryOf
    <3>4. QED
      BY <3>2, <3>3
  <2>4. QED
    BY <2>1, <2>2, <2>3 DEF MemoryOf
<1>16. \A u \in Threads \ {t} : FlightOf(u)'
  <2> SUFFICES ASSUME NEW u \in Threads \ {t}, Carrying(u)' PROVE FlightOf(u)'
    BY DEF FlightOf
  <2>1. at'[u] = at[u] /\ Carrying(u) /\ ValueKnown(u)' = ValueKnown(u) /\ FlightOf(u)
    BY <1>6, Before DEF SameThread, Carrying, ValueKnown, At
  <2>2. PICK s \in Stripes, l \in FreeLock : s = Stripe[at[u].addr] /\ l = at[u].l
    BY <2>1, Before, LocalsAre, SettingIs
  <2>3. /\ ~IsOwned(locks[s]) => l.version <= locks[s].version
        /\ \A x \in Threads : \A j \in DOMAIN W(x) : Holds(x, j, s) =>
             /\ l.version <= W(x)[j].version
             /\ ValueKnown(u) /\ ~Committed(x) /\ l.version = W(x)[j].version =>
                  at[u].value = memory[at[u].addr]
        /\ ValueKnown(u) /\ locks[s] = l => at[u].value = memory[at[u].addr]
    BY <2>1, <2>2 DEF FlightOf
  <2>4. l.version \in Nat
    BY <2>2, FreeIs
  <2>5. dropped /\ s = w.lock =>
          /\ l.version <= w.version /\ w.version \in Nat /\ w.version <= k
          /\ Committed(t) => w.version < k
          /\ ~Committed(t) => w.version = k
          /\ ValueKnown(u) /\ ~Committed(t) /\ l.version = w.version =>
               at[u].value = memory[at[u].addr]
    <3>1. dropped /\ s = w.lock => i \in DOMAIN W(t) /\ Holds(t, i, s) /\ i <= i
      BY <1>1, <1>8 DEF dropped, w, Pos
    <3>2. QED
      BY <1>7, <1>10, <2>3, <3>1 DEF w
  <2>6. ~IsOwned(locks'[s]) => l.version <= locks'[s].version
    BY <1>11, <1>12, <2>3, <2>4, <2>5
  <2>7. ValueKnown(u) /\ locks'[s] = l => at[u].value = memory[at[u].addr]
    <3>1. CASE dropped /\ s = w.lock
      <4>1. locks'[s] = l => l.version = k
        BY <1>11, <1>12, <3>1
      <4>2. QED
        BY <1>12, <2>4, <2>5, <3>1, <4>1
    <3>2. CASE ~(dropped /\ s = w.lock)
      BY <1>11, <2>3, <3>2
    <3>3. QED
      BY <3>1, <3>2
  <2>8. \A x \in Threads : \A j \in DOMAIN W(x)' : Holds(x, j, s)' =>
             /\ l.version <= W(x)'[j].version
             /\ ValueKnown(u) /\ ~Committed(x)' /\ l.version = W(x)'[j].version =>
                  at[u].value = memory[at[u].addr]
    <3> SUFFICES ASSUME NEW x \in Threads, NEW j \in DOMAIN W(x)', Holds(x, j, s)'
                 PROVE  /\ l.version <= W(x)'[j].version
                        /\ ValueKnown(u) /\ ~Committed(x)' /\ l.version = W(x)'[j].version =>
                             at[u].value = memory[at[u].addr]
      OBVIOUS
    <3>1. CASE x = t
      <4>1. j \in DOMAIN W(t)' /\ Holds(t, j, s)'
        BY <3>1
      <4>2. on /\ j \in DOMAIN W(t) /\ Holds(t, j, s) /\ W(t)'[j] = W(t)[j]
        BY <1>9, <4>1
      <4>3. Committed(x)' = Committed(t)
        BY <1>2, <3>1, <4>2
      <4>4. W(x)'[j] = W(t)[j]
        BY <3>1, <4>2
      <4>5. QED
        BY <2>3, <4>2, <4>3, <4>4
    <3>2. CASE x # t
      BY <1>6, <2>3, <3>2
    <3>3. QED
      BY <3>1, <3>2
  <2>9. Stripe'[at'[u].addr] = s /\ at'[u].l = l
    BY <1>6, <2>1, <2>2
  <2>10. QED
    BY <1>1, <2>1, <2>6, <2>7, <2>8, <2>9 DEF FlightOf
<1>17. \A u \in Threads \ {t} : ThreadOf(u)'
  <2>1. \A s \in Stripes : locks'[s] = locks[s] \/ ~IsOwned(locks[s]) \/ locks[s].owner = t
    BY <1>10, <1>11 DEF dropped
  <2>2. QED
    BY <1>5, <1>16, <2>1, UndecidedOthers
<1>18. tx[t].status = "ACTIVE" /\ ~Pending(t) /\ ~Carrying(t)
  BY ActiveIs DEF Drops, Pending, Carrying, At
<1>19. setting' = setting /\ tx_overflow' = tx_overflow /\ tx_count' = tx_count
  BY DEF Drops
<1>20. ThreadOf(t)'
  <2>1. CASE on
    <3>1. /\ d = tx[t] /\ r = seen[t] /\ c.i = i + 1
          /\ \/ at[t].pc = "rollback" /\ c.pc = "rollback"
             \/ at[t].pc = "release" /\ c.pc = "writeBack" /\ c.v = at[t].v
      BY <2>1 DEF Drops, on
    <3>2. \A j \in DOMAIN W(t) : EntryOf(t, j)'
      <4> SUFFICES ASSUME NEW j \in DOMAIN W(t) PROVE EntryOf(t, j)'
        OBVIOUS
      <4>1. EntryOf(t, j) /\ j \in Pos /\ i \in Nat /\ W(t)[j].addr \in Addresses
        BY <1>1, <1>7, Before, LocalsAre DEF Pos
      <4>2. i + 1 <= j => locks'[W(t)[j].lock].owner = t
        <5>1. i + 1 <= j => locks[W(t)[j].lock].owner = t
          BY <1>1, <4>1 DEF EntryOf, Pos
        <5>2. i + 1 <= j => ~(dropped /\ W(t)[j].lock = w.lock)
          BY <1>7, <4>1 DEF EntryOf, dropped, w, Pos
        <5>3. QED
          BY <1>7, <1>11, <5>1, <5>2
      <4>3. PICK s, x : s = W(t)[j].lock /\ x = IF Committed(t) THEN at[t].v ELSE W(t)[j].version
        OBVIOUS
      <4>4. i + 1 <= j => NoneLater(s, x)'
        BY <1>1, <1>6, <4>1, <4>3 DEF EntryOf, Pos
      <4>5. x = IF Committed(t)' THEN at'[t].v ELSE W(t)[j].version
        BY <1>2, <2>1, <4>3
      <4>6. Snapshot(clock)'[W(t)[j].addr] = Snapshot(clock)[W(t)[j].addr]
        BY <1>1, <1>6, <4>1
      <4>7. Committed(t)' => W(t)[j].version < at'[t].v
        BY <1>2, <2>1, <4>1 DEF EntryOf
      <4>8. QED
        BY <1>1, <1>2, <1>4, <1>6, <2>1, <4>1, <4>2, <4>3, <4>4, <4>5, <4>6, <4>7 DEF EntryOf
    <3>3. TypeOf(t)'
      BY <1>1, <1>19, <3>1, Before, TypesStay DEF TypeOf
    <3>4. IdleOf(t)' /\ VerOf(t)' /\ FlightOf(t)'
      BY <1>1, <1>18, <3>1 DEF IdleOf, Idle, VerOf, FlightOf, Carrying, At
    <3>5. i + 1 \in DOMAIN W(t)
      BY <1>1, <2>1 DEF on, Pos
    <3>6. TimesOf(t)'
      <4>1. /\ tx[t].start <= clock /\ tx[t].end <= clock
            /\ Committed(t) => at[t].v <= clock /\ tx[t].end < at[t].v
        BY Before DEF TimesOf
      <4>2. Committed(t) <=> c.pc = "writeBack"
        BY <3>1 DEF Committed
      <4>3. QED
        BY <1>1, <1>2, <2>1, <3>1, <3>5, <4>1, <4>2
           DEF TimesOf, Carrying, Pending, Committed, At
    <3>7. W(t) # <<>>
      BY <3>5
    <3>8. tx[t].type # "EL"
      BY <3>7, Before DEF FlatOf
    <3>9. WindowOf(t)'
      BY <1>1, <3>1, <3>8 DEF WindowOf
    <3>10. /\ c.pc # "rollback" => \A x \in seen[t] : Fixed(x.addr, x.value, tx[t].end)'
           /\ c.pc # "rollback" /\ tx[t].end <= tx[t].start =>
                \A x \in seen[t] : Fixed(x.addr, x.value, tx[t].start)'
      <4>1. /\ \A a \in Addresses : \A x \in 0 .. clock : \A value :
                 Fixed(a, value, x) => Fixed(a, value, x)'
        BY <1>5, UndecidedIs
      <4>2. c.pc # "rollback" => ~Aborting(t)
        BY <3>1 DEF Aborting, At
      <4>3. c.pc # "rollback" => \A x \in seen[t] :
              /\ x.addr \in Addresses /\ Fixed(x.addr, x.value, tx[t].end)
              /\ tx[t].end <= tx[t].start => Fixed(x.addr, x.value, tx[t].start)
        BY <4>2, Before, LocalsAre DEF ReadsOf, FlatOf
      <4>4. tx[t].end \in 0 .. clock /\ tx[t].start \in 0 .. clock
        BY Before, LocalsAre DEF TimesOf
      <4>5. tx'[t] = tx[t]
        BY <1>1, <3>1
      <4>6. QED
        BY <4>1, <4>3, <4>4, <4>5
    <3>11. FlatOf(t)'
      BY <1>1, <3>1, <3>8, <3>10 DEF FlatOf, Aborting, At
    <3>12. ReadsOf(t)'
      <4>1. CASE c.pc = "rollback"
        BY <1>1, <4>1 DEF ReadsOf, Aborting, At
      <4>2. CASE c.pc = "writeBack"
        <5>1. ~Aborting(t) /\ R(t)' = R(t) /\ Committed(t)'
          BY <1>1, <3>1, <4>2 DEF Aborting, At, R, Committed
        <5>2. /\ tx[t].ro => W(t) = <<>>
              /\ ~tx[t].ro => \A x \in seen[t] : \E j \in DOMAIN R(t) : R(t)[j].lock = Stripe[x.addr]
          BY <5>1, Before DEF ReadsOf
        <5>3. QED
          BY <1>1, <1>2, <1>6, <2>1, <3>1, <3>10, <4>2, <5>1, <5>2 DEF ReadsOf
      <4>3. QED
        BY <3>1, <4>1, <4>2
    <3>13. QED
      BY <1>2, <1>6, <2>1, <3>2, <3>3, <3>4, <3>6, <3>9, <3>11, <3>12 DEF ThreadOf
  <2>2. CASE ~on
    <3>1. /\ d = Ended(t) /\ r = {} /\ c = Ready
      BY <2>2 DEF Drops, on
    <3>2. /\ Ended(t) \in Descriptor /\ Ended(t).w_set = <<>> /\ Ended(t).r_set = <<>>
          /\ Ended(t).lastraddr = NoWindow /\ Ended(t).start = 0 /\ Ended(t).end = 0
          /\ Ended(t).status = "STOPPED" /\ Ready.pc = "ready"
      BY Before, ResetIs DEF Ready
    <3>3. TypeOf(t)'
      BY <1>1, <1>19, <3>1, <3>2, TypesStay DEF TypeOf
    <3>4. IdleOf(t)' /\ Idle(t)'
      BY <1>1, <3>1, <3>2 DEF IdleOf, Idle, W, R, NoWindow, None
    <3>5. QED
      BY <1>1, <3>3, <3>4, IdleThread
  <2>3. QED
    BY <2>1, <2>2
<1>21. tx_count' = Cardinality(Running')
  <2>1. /\ at[t].pc \in {"rollback", "release"} /\ c.pc \in {"rollback", "writeBack", "ready"}
        /\ at' = [at EXCEPT ![t] = c]
    BY DEF Drops, Ready
  <2>2. at[t].pc \notin Away /\ at'[t].pc \notin Away
    BY <1>1, <2>1 DEF Away
  <2>3. at' = [at EXCEPT ![t] = at'[t]]
    BY <1>1, <2>1
  <2>4. QED
    BY <1>1, <1>19, <2>2, <2>3, Before, CountIs
<1>22. Global'
  <2>1. d \in Descriptor
    BY Before, ResetIs DEF Drops
  <2>2. tx' \in [Threads -> Descriptor'] /\ Descriptor' = Descriptor
    BY <1>19, <2>1, Before, TypesStay DEF Drops
  <2>3. at' = [u \in Threads |-> at'[u]] /\ seen' = [u \in Threads |-> seen'[u]]
    BY Before DEF Drops
  <2>4. locks' \in [Stripes -> FreeLock \cup OwnedLock]
    BY <1>1, <1>12 DEF Drops
  <2>5. log' = log /\ base' = base
    BY DEF Drops
  <2>6. QED
    BY <1>1, <1>6, <1>19, <1>21, <2>2, <2>3, <2>4, <2>5, Before DEF Global
<1>23. log' = log
  BY DEF Drops
<1>24. QED
  BY <1>6, <1>14, <1>15, <1>17, <1>20, <1>22, <1>23 DEF IInv


\* stm_rollback: the lock of an entry, at the version it had.
LEMMA RollbackStepStep ==
  ASSUME IInv, NEW t \in Threads, RollbackStep(t)
  PROVE  IInv'
<1> DEFINE i == at[t].i
           k == IF i \in DOMAIN W(t) THEN W(t)[i].version ELSE 0
           on == i < Len(W(t))
           d == IF on THEN tx[t] ELSE Ended(t)
           c == IF on THEN [at[t] EXCEPT !.i = i + 1] ELSE Ready
           r == IF on THEN seen[t] ELSE {}
<1>1. at[t].pc = "rollback" /\ i \in Pos /\ at[t] \in Calls
  BY Before, LocalsAre DEF RollbackStep, At
<1>2. W(t) \in Seq(WriteEntry) /\ \A j \in DOMAIN W(t) : W(t)[j].version \in Nat
  BY Before, LocalsAre, DescriptorIs DEF W
<1>3. i <= Len(W(t)) <=> i \in DOMAIN W(t)
  BY <1>1, <1>2 DEF Pos
<1>4. k \in Nat
  BY <1>2
<1>5. c \in Calls
  <2>1. at[t] \in [pc : {"rollback"}, i : Pos] /\ i + 1 \in Pos
    BY <1>1, CallIs DEF Pos
  <2>2. [at[t] EXCEPT !.i = i + 1] \in [pc : {"rollback"}, i : Pos]
    BY <2>1
  <2>3. Ready \in Calls
    BY PlainIs DEF Ready, Plain
  <2>4. QED
    BY <2>2, <2>3 DEF Calls
<1>6. on => c.i = i + 1 /\ c.pc = "rollback"
  <2>1. at[t] \in [pc : {"rollback"}, i : Pos]
    BY <1>1, CallIs
  <2>2. QED
    BY <2>1
<1>7. locks' = IF i \in DOMAIN W(t) /\ W(t)[i].next = 0
               THEN [locks EXCEPT ![W(t)[i].lock] = Free(k)] ELSE locks
  <2>1. locks' = IF i <= Len(W(t)) /\ W(t)[i].next = 0
                 THEN [locks EXCEPT ![W(t)[i].lock] = Free(W(t)[i].version)] ELSE locks
    BY DEF RollbackStep, W
  <2>2. QED
    BY <1>3, <2>1
<1>8. /\ tx' = [tx EXCEPT ![t] = d] /\ at' = [at EXCEPT ![t] = c]
      /\ seen' = [seen EXCEPT ![t] = r]
  <2>1. CASE on
    <3>1. tx' = tx /\ seen' = seen /\ at' = [at EXCEPT ![t] = [at[t] EXCEPT !.i = i + 1]]
      BY <2>1 DEF RollbackStep, W, Goto
    <3>2. tx = [tx EXCEPT ![t] = tx[t]] /\ seen = [seen EXCEPT ![t] = seen[t]]
      BY Before
    <3>3. QED
      BY <2>1, <3>1, <3>2
  <2>2. CASE ~on
    BY <2>2 DEF RollbackStep, W, Goto
  <2>3. QED
    BY <2>1, <2>2
<1>9. UNCHANGED <<setting, clock, memory, base, log, tx_overflow, tx_count>>
  BY DEF RollbackStep, unmoved
<1>10. ~Committed(t)
  BY <1>1 DEF Committed
<1>11. /\ on => d = tx[t] /\ r = seen[t]
       /\ ~on => d = Ended(t) /\ r = {} /\ c = Ready
       /\ i \in DOMAIN W(t) => k = W(t)[i].version
  OBVIOUS
<1>12. i = at[t].i
  OBVIOUS
<1> HIDE DEF i, k, d, c, r
<1>13. Drops(t, i, k, d, c, r)
  BY <1>1, <1>4, <1>5, <1>6, <1>7, <1>8, <1>9, <1>10, <1>11, <1>12 DEF Drops
<1>14. QED
  BY <1>13, DropStep

\* The lock of an entry is released at the timestamp of the commit.
LEMMA ReleaseStep ==
  ASSUME IInv, NEW t \in Threads, Release(t)
  PROVE  IInv'
<1> DEFINE i == at[t].i
           k == at[t].v
           on == i < Len(W(t))
           d == IF on THEN tx[t] ELSE Ended(t)
           c == IF on THEN [at[t] EXCEPT !.pc = "writeBack", !.i = i + 1] ELSE Ready
           r == IF on THEN seen[t] ELSE {}
<1>1. at[t].pc = "release" /\ i \in Pos /\ at[t] \in Calls /\ Committed(t) /\ k \in Nat
  BY Before, LocalsAre DEF Release, At, Committed
<1>2. i \in DOMAIN W(t)
  BY <1>1, Before DEF TimesOf
<1>3. at[t] \in [pc : {"writeBack", "release"}, i : Pos, v : Nat] /\ i + 1 \in Pos
  BY <1>1, CallIs DEF Pos
<1>4. c \in Calls
  <2>1. [at[t] EXCEPT !.pc = "writeBack", !.i = i + 1]
          \in [pc : {"writeBack", "release"}, i : Pos, v : Nat]
    BY <1>3
  <2>2. Ready \in Calls
    BY PlainIs DEF Ready, Plain
  <2>3. QED
    BY <2>1, <2>2 DEF Calls
<1>5. on => c.i = i + 1 /\ c.pc = "writeBack" /\ c.v = at[t].v
  BY <1>3
<1>6. locks' = IF i \in DOMAIN W(t) /\ W(t)[i].next = 0
               THEN [locks EXCEPT ![W(t)[i].lock] = Free(k)] ELSE locks
  BY <1>2 DEF Release, W
<1>7. /\ tx' = [tx EXCEPT ![t] = d] /\ at' = [at EXCEPT ![t] = c]
      /\ seen' = [seen EXCEPT ![t] = r]
  <2>1. CASE on
    <3>1. /\ tx' = tx /\ seen' = seen
          /\ at' = [at EXCEPT ![t] = [at[t] EXCEPT !.pc = "writeBack", !.i = i + 1]]
      BY <2>1 DEF Release, W, Goto
    <3>2. tx = [tx EXCEPT ![t] = tx[t]] /\ seen = [seen EXCEPT ![t] = seen[t]]
      BY Before
    <3>3. QED
      BY <2>1, <3>1, <3>2
  <2>2. CASE ~on
    BY <2>2 DEF Release, W, Goto
  <2>3. QED
    BY <2>1, <2>2
<1>8. UNCHANGED <<setting, clock, memory, base, log, tx_overflow, tx_count>>
  BY DEF Release, unmoved
<1>9. /\ on => d = tx[t] /\ r = seen[t]
      /\ ~on => d = Ended(t) /\ r = {} /\ c = Ready
      /\ k = at[t].v
  OBVIOUS
<1>10. i = at[t].i
  OBVIOUS
<1> HIDE DEF i, k, d, c, r
<1>11. Drops(t, i, k, d, c, r)
  BY <1>1, <1>4, <1>5, <1>6, <1>7, <1>8, <1>9, <1>10 DEF Drops
<1>12. QED
  BY <1>11, DropStep


\* A value goes to the memory under a lock that nobody else can hold.
LEMMA WriteBackStep ==
  ASSUME IInv, NEW t \in Threads, WriteBack(t)
  PROVE  IInv'
<1> DEFINE i == at[t].i
           w == W(t)[i]
           c == [at[t] EXCEPT !.pc = "release"]
<1>1. at[t].pc = "writeBack" /\ i \in Pos /\ at[t] \in Calls /\ Committed(t) /\ ~Aborting(t)
  BY Before, LocalsAre DEF WriteBack, At, Committed, Aborting
<1>2. /\ i \in DOMAIN W(t) /\ EntryOf(t, i) /\ w \in WriteEntry /\ w.addr \in Addresses
      /\ w.value \in Val
  <2>1. i \in DOMAIN W(t)
    BY <1>1, Before DEF TimesOf
  <2>2. QED
    BY <2>1, Before, LocalsAre DEF WriteEntry
<1>3. /\ c \in Calls /\ c.pc = "release" /\ c.i = i /\ c.v = at[t].v
  <2>1. at[t] \in [pc : {"writeBack", "release"}, i : Pos, v : Nat]
    BY <1>1, CallIs
  <2>2. c \in [pc : {"writeBack", "release"}, i : Pos, v : Nat]
    BY <2>1
  <2>3. QED
    BY <2>1, <2>2 DEF Calls
<1>4. /\ at' = [at EXCEPT ![t] = c]
      /\ memory' = IF w.mask # {} THEN [memory EXCEPT ![w.addr] = w.value] ELSE memory
      /\ UNCHANGED <<setting, clock, locks, tx, seen, base, log, tx_overflow, tx_count>>
  BY DEF WriteBack, Goto, unmoved, history, W
<1> HIDE DEF c, w, i
<1>5. /\ at'[t] = c /\ W(t)' = W(t) /\ R(t)' = R(t) /\ From(t)' = i /\ From(t) = i /\ Committed(t)'
      /\ clock \in Nat /\ ~Pending(t)' /\ at[t].i = i
  BY <1>1, <1>3, <1>4, Before DEF W, R, From, Committed, Pending, At, i
<1>6. Undecided(t)
  <2>1. Only(t)
    BY <1>4, <1>5, Before DEF Only
  <2>2. QED
    BY <1>4, <1>5, <2>1 DEF Undecided
<1>7. /\ Past /\ Stripes' = Stripes /\ Stripe' = Stripe
      /\ \A a \in Addresses : \A x : Snapshot(x)'[a] = Snapshot(x)[a]
      /\ \A s : \A x : NoneLater(s, x)' = NoneLater(s, x)
      /\ \A v \in DOMAIN log : LogOf(v)'
      /\ \A u \in Threads : PendingOf(u)'
      /\ \A u \in Threads \ {t} :
           /\ SameThread(u) /\ W(u)' = W(u) /\ From(u)' = From(u)
           /\ Committed(u)' = Committed(u)
           /\ \A j : Unwritten(u, j)' = Unwritten(u, j)
           /\ \A j : \A s : Holds(u, j, s)' = Holds(u, j, s)
  BY <1>6, UndecidedIs
<1>8. \A u \in Threads : /\ W(u)' = W(u) /\ Committed(u)' = Committed(u)
                         /\ \A j : \A s : Holds(u, j, s)' = Holds(u, j, s)
  <2>1. \A j : \A s : Holds(t, j, s)' = Holds(t, j, s)
    BY <1>5 DEF Holds
  <2>2. Committed(t)' = Committed(t)
    BY <1>1, <1>5 DEF Committed
  <2>3. QED
    BY <1>5, <1>7, <2>1, <2>2
<1>9. /\ w.lock = Stripe[w.addr] /\ locks[w.lock].owner = t
      /\ w.mask # {} => Snapshot(clock)[w.addr] = w.value
  <2>1. Unwritten(t, i)
    BY <1>1, <1>5 DEF Unwritten, At
  <2>2. From(t) <= i
    BY <1>1, <1>5 DEF Pos
  <2>3. QED
    BY <1>1, <1>2, <2>1, <2>2 DEF EntryOf, w
<1>10. \A a \in Addresses : a # w.addr \/ w.mask = {} => memory'[a] = memory[a]
  BY <1>4, Before DEF Global
<1>11. memory' \in [Addresses -> Val] /\ (w.mask # {} => memory'[w.addr] = w.value)
  BY <1>2, <1>4, Before DEF Global
<1>12. \A j \in DOMAIN W(t) : /\ Unwritten(t, j)' => Unwritten(t, j)
                              /\ Unwritten(t, j) => Unwritten(t, j)' \/ j = i
  BY <1>1, <1>3, <1>5 DEF Unwritten, At
<1>13. \A s \in Stripes : LockOf(s)'
  <2> SUFFICES ASSUME NEW s \in Stripes PROVE LockOf(s)'
    OBVIOUS
  <2>1. LockOf(s) /\ (IsOwned(locks[s]) => locks[s].owner \in Threads)
    BY Before, LockIs DEF IInv
  <2>2. locks' = locks /\ clock' = clock
    BY <1>4
  <2>3. QED
    BY <1>7, <1>8, <2>1, <2>2 DEF LockOf
<1>14. \A a \in Addresses : MemoryOf(a)'
  <2> SUFFICES ASSUME NEW a \in Addresses PROVE MemoryOf(a)'
    OBVIOUS
  <2>1. MemoryOf(a) /\ Snapshot(clock)'[a] = Snapshot(clock)[a]
    <3>1. clock' = clock
      BY <1>4
    <3>2. QED
      BY <1>7, <3>1 DEF IInv
  <2>2. CASE a = w.addr /\ w.mask # {}
    BY <1>4, <1>9, <1>11, <2>1, <2>2 DEF MemoryOf
  <2>3. CASE ~(a = w.addr /\ w.mask # {}) /\ memory[a] = Snapshot(clock)[a]
    BY <1>4, <1>10, <2>1, <2>3 DEF MemoryOf
  <2>4. CASE /\ ~(a = w.addr /\ w.mask # {})
             /\ \E u \in Threads : Committed(u) /\
                  \E j \in DOMAIN W(u) : Unwritten(u, j) /\ W(u)[j].addr = a /\ W(u)[j].mask # {}
    <3>1. PICK u, j : /\ u \in Threads /\ j \in DOMAIN W(u) /\ Committed(u) /\ Unwritten(u, j)
                      /\ W(u)[j].addr = a /\ W(u)[j].mask # {}
      BY <2>4
    <3>2. Unwritten(u, j)'
      BY <1>7, <1>12, <2>4, <3>1 DEF w
    <3>3. QED
      BY <1>8, <3>1, <3>2 DEF MemoryOf
  <2>5. QED
    BY <2>1, <2>2, <2>3, <2>4 DEF MemoryOf
<1>15. \A u \in Threads \ {t} : FlightOf(u)'
  <2> SUFFICES ASSUME NEW u \in Threads \ {t}, Carrying(u)' PROVE FlightOf(u)'
    BY DEF FlightOf
  <2>1. at'[u] = at[u] /\ Carrying(u) /\ ValueKnown(u)' = ValueKnown(u) /\ FlightOf(u)
    BY <1>7, Before DEF SameThread, Carrying, ValueKnown, At
  <2>2. PICK a \in Addresses, s \in Stripes, l \in FreeLock :
          a = at[u].addr /\ s = Stripe[a] /\ l = at[u].l
    BY <2>1, Before, LocalsAre, SettingIs
  <2>3. /\ ~IsOwned(locks[s]) => l.version <= locks[s].version
        /\ \A x \in Threads : \A j \in DOMAIN W(x) : Holds(x, j, s) =>
             /\ l.version <= W(x)[j].version
             /\ ValueKnown(u) /\ ~Committed(x) /\ l.version = W(x)[j].version =>
                  at[u].value = memory[a]
        /\ ValueKnown(u) /\ locks[s] = l => at[u].value = memory[a]
    BY <2>1, <2>2 DEF FlightOf
  <2>4. memory'[a] = memory[a] \/ s = w.lock
    BY <1>9, <1>10, <2>2
  <2>5. s = w.lock => locks[s] # l
    BY <1>9, <2>2, EstmAssumption DEF FreeLock
  <2>6. \A x \in Threads : \A j \in DOMAIN W(x) : Holds(x, j, s) /\ s = w.lock => x = t
    <3> SUFFICES ASSUME NEW x \in Threads, NEW j \in DOMAIN W(x), Holds(x, j, s), s = w.lock
                 PROVE  x = t
      OBVIOUS
    <3>1. EntryOf(x, j)
      BY Before
    <3>2. locks[s].owner = x
      BY <3>1 DEF EntryOf, Holds
    <3>3. QED
      BY <1>9, <3>2
  <2>7. /\ \A x \in Threads : \A j \in DOMAIN W(x)' : Holds(x, j, s)' =>
             /\ l.version <= W(x)'[j].version
             /\ ValueKnown(u) /\ ~Committed(x)' /\ l.version = W(x)'[j].version =>
                  at[u].value = memory'[a]
        /\ ValueKnown(u) /\ locks[s] = l => at[u].value = memory'[a]
    BY <1>1, <1>8, <2>3, <2>4, <2>5, <2>6
  <2>8. Stripe'[at'[u].addr] = s /\ at'[u].l = l /\ at'[u].addr = a /\ at'[u].value = at[u].value
    BY <1>7, <2>1, <2>2
  <2>9. QED
    BY <1>4, <2>1, <2>3, <2>7, <2>8 DEF FlightOf
<1>16. \A u \in Threads \ {t} : ThreadOf(u)'
  <2>1. \A s \in Stripes : locks'[s] = locks[s] \/ ~IsOwned(locks[s]) \/ locks[s].owner = t
    BY <1>4
  <2>2. QED
    BY <1>6, <1>15, <2>1, UndecidedOthers
<1>17. tx[t].status = "ACTIVE" /\ tx'[t] = tx[t] /\ seen'[t] = seen[t]
  BY <1>1, <1>4, ActiveIs
<1>18. /\ \A j \in DOMAIN W(t) : EntryOf(t, j)'
  <2> SUFFICES ASSUME NEW j \in DOMAIN W(t) PROVE EntryOf(t, j)'
    OBVIOUS
  <2>1. EntryOf(t, j) /\ W(t)[j].addr \in Addresses
    BY Before, LocalsAre
  <2>2. PICK s, x : s = W(t)[j].lock /\ x = at[t].v
    OBVIOUS
  <2>3. From(t) <= j => NoneLater(s, x)'
    BY <1>1, <1>7, <2>1, <2>2 DEF EntryOf
  <2>4. clock' = clock /\ locks' = locks /\ Stripe' = Stripe /\ at'[t].v = at[t].v
    BY <1>3, <1>4, <1>5, <1>7
  <2>5. Snapshot(clock)'[W(t)[j].addr] = Snapshot(clock)[W(t)[j].addr]
    BY <1>7, <2>1, <2>4
  <2>6. QED
    BY <1>1, <1>5, <1>12, <2>1, <2>2, <2>3, <2>4, <2>5 DEF EntryOf
<1>19. tx[t].type # "EL"
  BY <1>2, Before DEF FlatOf
<1>20. TypeOf(t)' /\ IdleOf(t)' /\ WindowOf(t)' /\ VerOf(t)' /\ FlightOf(t)'
  <2>1. TypeOf(t)'
    BY <1>3, <1>4, <1>5, <1>17, Before, TypesStay DEF TypeOf
  <2>2. IdleOf(t)' /\ VerOf(t)' /\ FlightOf(t)' /\ WindowOf(t)'
    BY <1>3, <1>5, <1>17, <1>19 DEF IdleOf, Idle, VerOf, FlightOf, WindowOf, Carrying, At
  <2>3. QED
    BY <2>1, <2>2
<1>21. TimesOf(t)'
  <2>1. /\ tx[t].start <= clock /\ tx[t].end <= clock
        /\ at[t].v <= clock /\ tx[t].end < at[t].v
    BY <1>1, Before DEF TimesOf
  <2>2. QED
    BY <1>2, <1>3, <1>4, <1>5, <1>17, <2>1 DEF TimesOf, Carrying, Pending, Committed, At
<1>22. /\ \A x \in seen[t] : Fixed(x.addr, x.value, tx[t].end)'
       /\ tx[t].end <= tx[t].start => \A x \in seen[t] : Fixed(x.addr, x.value, tx[t].start)'
  <2>1. /\ \A a \in Addresses : \A x \in 0 .. clock : \A value :
             Fixed(a, value, x) => Fixed(a, value, x)'
    BY <1>6, UndecidedIs
  <2>2. \A x \in seen[t] :
          /\ x.addr \in Addresses /\ Fixed(x.addr, x.value, tx[t].end)
          /\ tx[t].end <= tx[t].start => Fixed(x.addr, x.value, tx[t].start)
    BY <1>1, Before, LocalsAre DEF ReadsOf, FlatOf
  <2>3. tx[t].end \in 0 .. clock /\ tx[t].start \in 0 .. clock
    BY Before, LocalsAre DEF TimesOf
  <2>4. QED
    BY <1>17, <2>1, <2>2, <2>3
<1>23. FlatOf(t)'
  BY <1>5, <1>17, <1>19, <1>22 DEF FlatOf
<1>24. ReadsOf(t)'
  <2>1. /\ tx[t].ro => W(t) = <<>>
        /\ ~tx[t].ro => \A x \in seen[t] : \E j \in DOMAIN R(t) : R(t)[j].lock = Stripe[x.addr]
    BY <1>1, Before DEF ReadsOf
  <2>2. QED
    BY <1>3, <1>5, <1>7, <1>17, <1>22, <2>1 DEF ReadsOf
<1>25. ThreadOf(t)'
  BY <1>5, <1>7, <1>18, <1>20, <1>21, <1>23, <1>24 DEF ThreadOf
<1>26. Global'
  <2>1. at' = [u \in Threads |-> at'[u]]
    BY <1>4, Before
  <2>2. tx_count' = Cardinality(Running')
    <3>1. at[t].pc \notin Away /\ at'[t].pc \notin Away /\ at' = [at EXCEPT ![t] = at'[t]]
      BY <1>1, <1>3, <1>4, <1>5 DEF Away
    <3>2. QED
      BY <1>4, <3>1, Before, CountIs
  <2>3. Descriptor' = Descriptor
    BY <1>4, TypesStay
  <2>4. QED
    BY <1>4, <1>7, <1>11, <2>1, <2>2, <2>3, Before DEF Global
<1>27. QED
  BY <1>4, <1>7, <1>13, <1>14, <1>16, <1>25, <1>26 DEF IInv


-----------------------------------------------------------------------------
(* The commit with a timestamp enters the history.                         *)

\* One more record.
LEMMA AppendLog ==
  ASSUME NEW n \in Nat, NEW q, q = [v \in 1 .. n |-> q[v]], NEW x
  PROVE  Append(q, x) = [v \in 1 .. n + 1 |-> IF v = n + 1 THEN x ELSE q[v]]
<1> DEFINE S == {q[v] : v \in 1 .. n} \cup {x}
           p == Append(q, x)
           o == [v \in 1 .. n + 1 |-> IF v = n + 1 THEN x ELSE q[v]]
<1>1. q \in Seq(S) /\ x \in S /\ Len(q) = n
  <2>1. q \in [1 .. n -> S] /\ x \in S
    OBVIOUS
  <2> HIDE DEF S
  <2>2. q \in Seq(S)
    BY <2>1, SeqDef
  <2>3. QED
    BY <2>1, <2>2
<1> HIDE DEF S
<1>2. p \in Seq(S) /\ Len(p) = n + 1
  BY <1>1, AppendProperties
<1>3. \A v \in 1 .. n : p[v] = q[v]
  BY <1>1, AppendProperties
<1>4. p[n + 1] = x
  BY <1>1, AppendProperties
<1> HIDE DEF p
<1>5. p = [v \in 1 .. n + 1 |-> p[v]]
  BY <1>2, LenProperties
<1>6. \A v \in 1 .. n + 1 : p[v] = o[v]
  <2>1. \A v \in 1 .. n + 1 : v \in 1 .. n \/ v = n + 1
    OBVIOUS
  <2>2. QED
    BY <1>3, <1>4, <2>1
<1>7. p = o
  BY <1>5, <1>6
<1>8. QED
  BY <1>7 DEF p

\* A commit writes the value of every entry that has one.
LEMMA DecidedIs ==
  ASSUME IInv, NEW t \in Threads, NEW n
  PROVE  /\ Decided(t, n).reads = seen[t] /\ Decided(t, n).held = held[t]
         /\ \A a \in DOMAIN Decided(t, n).writes :
              \E j \in DOMAIN W(t) : W(t)[j].addr = a /\ W(t)[j].mask # {}
         /\ \A j \in DOMAIN W(t) : W(t)[j].mask # {} =>
              /\ W(t)[j].addr \in DOMAIN Decided(t, n).writes
              /\ Decided(t, n).writes[W(t)[j].addr] = W(t)[j].value
<1> DEFINE written == {i \in DOMAIN tx[t].w_set : tx[t].w_set[i].mask # {}}
           entry(a) == CHOOSE i \in written : tx[t].w_set[i].addr = a
           writes == [a \in {tx[t].w_set[i].addr : i \in written} |-> tx[t].w_set[entry(a)].value]
<1>1. Decided(t, n) = [reads |-> seen[t], held |-> held[t], writes |-> writes]
  BY DEF Decided
<1>2. \A i, j \in DOMAIN W(t) : W(t)[i].addr = W(t)[j].addr => i = j
  BY Before DEF EntryOf
<1>3. ASSUME NEW j \in DOMAIN W(t), W(t)[j].mask # {}
      PROVE  W(t)[j].addr \in DOMAIN writes /\ writes[W(t)[j].addr] = W(t)[j].value
  <2>1. j \in written
    BY <1>3 DEF W
  <2>2. PICK a : a = W(t)[j].addr
    OBVIOUS
  <2>3. entry(a) \in written /\ tx[t].w_set[entry(a)].addr = a
    BY <2>1, <2>2 DEF W
  <2>4. entry(a) = j
    BY <1>2, <2>1, <2>2, <2>3 DEF W
  <2>5. a \in {tx[t].w_set[i].addr : i \in written}
    BY <2>1, <2>2 DEF W
  <2>6. writes[a] = tx[t].w_set[entry(a)].value
    BY <2>5
  <2>7. QED
    BY <2>2, <2>4, <2>5, <2>6 DEF W
<1>4. \A a \in DOMAIN writes : \E j \in DOMAIN W(t) : W(t)[j].addr = a /\ W(t)[j].mask # {}
  BY DEF W
<1>5. /\ Decided(t, n).reads = seen[t] /\ Decided(t, n).held = held[t]
      /\ Decided(t, n).writes = writes
  <2> HIDE DEF writes
  <2> QED
    BY <1>1
<1> HIDE DEF writes
<1>6. QED
  BY <1>3, <1>4, <1>5

\* t draws the timestamp n, or has drawn it and decides: c is its call then, X its record.
Records(t, n, X, c) ==
  /\ UNCHANGED <<setting, locks, memory, tx, seen, base, tx_overflow, tx_count>>
  /\ at' = [at EXCEPT ![t] = c] /\ c \in Calls /\ X.reads \subseteq Read
  /\ log' = [v \in 1 .. clock' |-> IF v = n THEN X ELSE log[v]]
  /\ \/ clock' = clock + 1 /\ n = clock + 1 /\ At(t, "timestamp")
     \/ clock' = clock /\ Pending(t) /\ at[t].now = n
  /\ \/ c.pc = "rollback" /\ c.i = 1 /\ X = NoCommit
     \/ /\ c.pc = "validate" /\ c.for = "commit" /\ c.i = 1 /\ c.now = n /\ X = NoCommit
        /\ n = clock + 1
     \/ /\ c.pc = "writeBack" /\ c.i = 1 /\ c.v = n
        /\ \A r \in X.reads : Fixed(r.addr, r.value, n - 1)
        /\ \A a \in DOMAIN X.writes :
             \E j \in DOMAIN W(t) : W(t)[j].addr = a /\ W(t)[j].mask # {}
        /\ \A j \in DOMAIN W(t) : W(t)[j].mask # {} =>
             /\ W(t)[j].addr \in DOMAIN X.writes
             /\ X.writes[W(t)[j].addr] = W(t)[j].value

\* Drawing or deciding a timestamp concerns t alone, and t holds what it will write.
LEMMA RecordsIs ==
  ASSUME IInv, NEW t \in Threads, NEW n, NEW X, NEW c, Records(t, n, X, c)
  PROVE  /\ clock \in Nat /\ clock' \in Nat /\ clock <= clock' /\ n \in Pos /\ n <= clock'
         /\ n \in DOMAIN log' /\ log'[n] = X /\ DOMAIN log' = 1 .. clock'
         /\ DOMAIN log = 1 .. clock
         /\ \A v \in DOMAIN log' : v # n => v \in DOMAIN log /\ log'[v] = log[v]
         /\ n \in DOMAIN log => DOMAIN log[n].writes = {} /\ n = at[t].now /\ Pending(t)
         /\ W(t) # <<>> /\ tx[t].end < n
         /\ tx'[t] = tx[t] /\ at'[t] = c /\ seen'[t] = seen[t]
         /\ From(t) = 1 /\ From(t)' = 1 /\ ~Committed(t) /\ ~Aborting(t) /\ at[t].pc \notin Away
         /\ Stripe' = Stripe /\ Stripes' = Stripes
         /\ \A a \in DOMAIN X.writes : a \in Addresses /\ Covers(t, Stripe[a])
         /\ c.pc # "writeBack" => DOMAIN X.writes = {}
         /\ \A s : Covers(t, s) => locks[s].owner = t
         /\ \A u \in Threads \ {t} : SameThread(u)
         /\ Only(t)
<1>1. /\ clock \in Nat /\ log = [v \in 1 .. clock |-> log[v]] /\ setting' = setting
      /\ tx' = tx /\ seen' = seen /\ at' = [at EXCEPT ![t] = c]
      /\ log' = [v \in 1 .. clock' |-> IF v = n THEN X ELSE log[v]]
      /\ c.pc \in {"rollback", "validate", "writeBack"}
  BY Before DEF Records, Global
<1>2. /\ at[t].pc \in {"timestamp", "validate"} /\ W(t) # <<>> /\ tx[t].end \in Nat
      /\ at[t].pc = "timestamp" <=> ~Pending(t)
      /\ at[t].pc = "timestamp" => clock' = clock + 1 /\ n = clock + 1
      /\ Pending(t) => /\ at[t].now = n \/ n = clock + 1
                       /\ at[t].now = n /\ clock' = clock /\ n \in Nat /\ n <= clock
                       /\ tx[t].end < n /\ log[n] = NoCommit
  BY Before, LocalsAre DEF Records, At, Pending, TimesOf, PendingOf
<1>3. n \in Pos /\ clock' \in Nat /\ n <= clock' /\ tx[t].end < n
  BY <1>1, <1>2, Before DEF Pos, TimesOf
<1>4. DOMAIN NoCommit.writes = {}
  BY DEF NoCommit
<1>5. n \in DOMAIN log => DOMAIN log[n].writes = {} /\ n = at[t].now /\ Pending(t)
  BY <1>1, <1>2, <1>4
<1>6. \A v \in DOMAIN log' : v # n => v \in DOMAIN log /\ log'[v] = log[v]
  BY <1>1, <1>2
<1>7. From(t) = 1 /\ From(t)' = 1 /\ ~Committed(t) /\ ~Aborting(t) /\ at[t].pc \notin Away
  BY <1>1, <1>2, Before DEF From, Committed, Aborting, At, Away, Records
<1>8. \A j \in DOMAIN W(t) :
        /\ W(t)[j].addr \in Addresses /\ W(t)[j].lock = Stripe[W(t)[j].addr]
        /\ locks[W(t)[j].lock].owner = t
  BY <1>7, Before, LocalsAre DEF EntryOf, Pos
<1>9. \A s : Covers(t, s) => locks[s].owner = t
  BY <1>8 DEF Covers
<1>10. c.pc # "writeBack" => DOMAIN X.writes = {}
  BY <1>1, <1>4 DEF Records
<1>11. \A a \in DOMAIN X.writes : a \in Addresses /\ Covers(t, Stripe[a])
  <2>1. \A a \in DOMAIN X.writes : \E j \in DOMAIN W(t) : W(t)[j].addr = a
    BY <1>10 DEF Records
  <2>2. QED
    BY <1>8, <2>1 DEF Covers
<1>12. /\ tx'[t] = tx[t] /\ at'[t] = c /\ seen'[t] = seen[t]
       /\ \A u \in Threads \ {t} : SameThread(u)
  BY <1>1, Before DEF SameThread
<1>13. Only(t)
  BY <1>1, <1>12, Before DEF Only
<1>14. Stripe' = Stripe /\ Stripes' = Stripes
  BY <1>1, TypesStay
<1>15. clock <= clock'
  BY <1>1, <1>2
<1>16. DOMAIN log' = 1 .. clock' /\ n \in DOMAIN log' /\ log'[n] = X /\ DOMAIN log = 1 .. clock
  BY <1>1, <1>3 DEF Pos
<1>17. QED
  BY <1>1, <1>2, <1>3, <1>5, <1>6, <1>7, <1>9, <1>10, <1>11, <1>12, <1>13, <1>14, <1>15, <1>16

\* The record changes nothing that is settled; the values at the end are those it writes.
LEMMA RecordsPast ==
  ASSUME IInv, NEW t \in Threads, NEW n, NEW X, NEW c, Records(t, n, X, c)
  PROVE  /\ Past
         /\ \A v \in DOMAIN log' : \A s : Writes(v, s)' =>
              \/ v \in DOMAIN log /\ v # n /\ Writes(v, s)
              \/ v = n /\ Covers(t, s) /\ c.pc = "writeBack"
         /\ \A a \in Addresses : a \notin DOMAIN X.writes =>
              Snapshot(clock)'[a] = Snapshot(clock)[a]
         /\ \A a \in DOMAIN X.writes : NoneLater(Stripe[a], n) =>
              Snapshot(clock)'[a] = X.writes[a]
<1>1. /\ clock \in Nat /\ clock' \in Nat /\ clock <= clock' /\ n \in Pos /\ n <= clock'
      /\ n \in DOMAIN log' /\ log'[n] = X /\ DOMAIN log' = 1 .. clock'
      /\ DOMAIN log = 1 .. clock
      /\ \A v \in DOMAIN log' : v # n => v \in DOMAIN log /\ log'[v] = log[v]
      /\ n \in DOMAIN log => DOMAIN log[n].writes = {} /\ n = at[t].now /\ Pending(t)
      /\ Stripe' = Stripe /\ Stripes' = Stripes /\ at'[t] = c
      /\ \A a \in DOMAIN X.writes : a \in Addresses /\ Covers(t, Stripe[a])
      /\ c.pc # "writeBack" => DOMAIN X.writes = {}
      /\ \A u \in Threads \ {t} : SameThread(u)
  BY RecordsIs
<1>2. base' = base /\ setting' = setting /\ (c.pc = "validate" => c.now = n /\ n = clock + 1)
  BY DEF Records
<1>3. \A v \in DOMAIN log' : \A s : Writes(v, s)' =>
        \/ v \in DOMAIN log /\ v # n /\ Writes(v, s)
        \/ v = n /\ Covers(t, s) /\ c.pc = "writeBack"
  BY <1>1 DEF Writes
<1>4. ASSUME NEW s \in Stripes, NEW k \in 0 .. clock, Settled(s, k)
      PROVE  /\ Settled(s, k)'
             /\ \A v \in DOMAIN log' : v <= k /\ Writes(v, s)' => v \in DOMAIN log /\ Writes(v, s)
             /\ n <= k => ~Covers(t, s)
  <2>1. \A u \in Threads : Pending(u) /\ at[u].now <= k => ~Covers(u, s)
    BY <1>4 DEF Settled
  <2>2. n <= k => ~Covers(t, s)
    <3>1. n <= k => n \in DOMAIN log
      BY <1>1 DEF Pos
    <3>2. QED
      BY <1>1, <2>1, <3>1
  <2>3. ASSUME NEW u \in Threads, Pending(u)', at'[u].now <= k PROVE ~Covers(u, s)'
    <3>1. CASE u = t
      BY <1>1, <1>2, <2>3, <3>1 DEF Pending, At
    <3>2. CASE u # t
      <4>1. SameThread(u)
        BY <1>1, <3>2
      <4>2. QED
        BY <2>1, <2>3, <4>1 DEF SameThread, Pending, At, Covers, W
    <3>3. QED
      BY <3>1, <3>2
  <2>4. QED
    BY <1>1, <1>3, <2>2, <2>3 DEF Settled
<1>5. ASSUME NEW a \in Addresses, NEW k \in 0 .. clock, n <= k => ~Covers(t, Stripe[a])
      PROVE  Snapshot(k)'[a] = Snapshot(k)[a]
  <2>1. \A v : v \in WritersIn(log, k, a) => v \in WritersIn(log', k, a)
    BY <1>1 DEF WritersIn
  <2>2. \A v : v \in WritersIn(log', k, a) => v \in WritersIn(log, k, a)
    BY <1>1, <1>5 DEF WritersIn
  <2>3. WritersIn(log, k, a) = WritersIn(log', k, a)
    BY <2>1, <2>2
  <2>4. \A v \in WritersIn(log, k, a) : log[v].writes[a] = log'[v].writes[a]
    BY <1>1 DEF WritersIn
  <2>5. k \in Nat
    BY <1>1
  <2>6. ValueIn(base[a], log, k, a) = ValueIn(base[a], log', k, a)
    BY <2>3, <2>4, <2>5, ValueSame
  <2>7. QED
    BY <1>2, <2>6, SnapshotIs
<1>6. Past
  <2>1. \A a \in Addresses : \A k \in 0 .. clock :
          Settled(Stripe[a], k) => Snapshot(k)'[a] = Snapshot(k)[a]
    <3> SUFFICES ASSUME NEW a \in Addresses, NEW k \in 0 .. clock, Settled(Stripe[a], k)
                 PROVE  Snapshot(k)'[a] = Snapshot(k)[a]
      OBVIOUS
    <3>1. Stripe[a] \in Stripes
      BY Before, SettingIs
    <3>2. n <= k => ~Covers(t, Stripe[a])
      BY <1>4, <3>1
    <3>3. QED
      BY <1>5, <3>2
  <2>2. QED
    BY <1>1, <1>2, <1>4, <2>1 DEF Past
<1>7. ASSUME NEW a \in Addresses, a \notin DOMAIN X.writes
      PROVE  Snapshot(clock)'[a] = Snapshot(clock)[a]
  <2>1. PICK j, k : j = clock /\ k = clock'
    OBVIOUS
  <2>2. \A v : v \in WritersIn(log, j, a) => v \in WritersIn(log', k, a)
    BY <1>1, <2>1 DEF WritersIn
  <2>3. \A v : v \in WritersIn(log', k, a) => v \in WritersIn(log, j, a)
    BY <1>1, <1>7, <2>1 DEF WritersIn
  <2>4. WritersIn(log, j, a) = WritersIn(log', k, a)
    BY <2>2, <2>3
  <2>5. \A v \in WritersIn(log, j, a) : log[v].writes[a] = log'[v].writes[a]
    BY <1>1 DEF WritersIn
  <2>6. ValueIn(base[a], log, j, a) = ValueIn(base[a], log', k, a)
    BY <1>1, <2>1, <2>4, <2>5, ValueSame
  <2>7. Snapshot(k)'[a] = ValueIn(base[a], log', k, a) /\ Snapshot(j)[a] = ValueIn(base[a], log, j, a)
    BY <1>2, SnapshotIs
  <2>8. Snapshot(clock)'[a] = Snapshot(k)'[a] /\ Snapshot(clock)[a] = Snapshot(j)[a]
    BY <2>1
  <2>9. QED
    BY <2>6, <2>7, <2>8
<1>8. ASSUME NEW a \in DOMAIN X.writes, NoneLater(Stripe[a], n)
      PROVE  Snapshot(clock)'[a] = X.writes[a]
  <2>1. PICK k : k = clock'
    OBVIOUS
  <2>2. n \in WritersIn(log', k, a)
    BY <1>1, <2>1 DEF WritersIn, Pos
  <2>3. \A v \in WritersIn(log', k, a) : v <= n
    <3> SUFFICES ASSUME NEW v \in WritersIn(log', k, a), v > n PROVE FALSE
      BY <1>1 DEF WritersIn, Pos
    <3>1. v \in DOMAIN log' /\ v # n /\ a \in DOMAIN log'[v].writes
      BY <1>1 DEF WritersIn, Pos
    <3>2. v \in DOMAIN log /\ Writes(v, Stripe[a])
      BY <1>1, <3>1 DEF Writes
    <3>3. QED
      BY <1>8, <3>2 DEF NoneLater
  <2>4. ValueIn(base[a], log', k, a) = X.writes[a]
    BY <1>1, <2>1, <2>2, <2>3, ValueLast
  <2>5. Snapshot(k)'[a] = ValueIn(base[a], log', k, a)
    BY <1>1, <1>2, SnapshotIs
  <2>6. Snapshot(clock)'[a] = Snapshot(k)'[a]
    BY <2>1
  <2>7. QED
    BY <2>4, <2>5, <2>6
<1>9. QED
  BY <1>3, <1>6, <1>7, <1>8


\* A commit enters the history, or fails.
LEMMA RecordStep ==
  ASSUME IInv, NEW t \in Threads, NEW n, NEW X, NEW c, Records(t, n, X, c)
  PROVE  IInv'
<1>1. /\ clock \in Nat /\ clock' \in Nat /\ clock <= clock' /\ n \in Pos /\ n <= clock'
      /\ n \in DOMAIN log' /\ log'[n] = X /\ DOMAIN log' = 1 .. clock'
      /\ DOMAIN log = 1 .. clock
      /\ \A v \in DOMAIN log' : v # n => v \in DOMAIN log /\ log'[v] = log[v]
      /\ n \in DOMAIN log => DOMAIN log[n].writes = {} /\ n = at[t].now /\ Pending(t)
      /\ W(t) # <<>> /\ tx[t].end < n
      /\ tx'[t] = tx[t] /\ at'[t] = c /\ seen'[t] = seen[t]
      /\ From(t) = 1 /\ From(t)' = 1 /\ ~Committed(t) /\ ~Aborting(t) /\ at[t].pc \notin Away
      /\ Stripe' = Stripe /\ Stripes' = Stripes
      /\ \A a \in DOMAIN X.writes : a \in Addresses /\ Covers(t, Stripe[a])
      /\ c.pc # "writeBack" => DOMAIN X.writes = {}
      /\ \A s : Covers(t, s) => locks[s].owner = t
      /\ \A u \in Threads \ {t} : SameThread(u)
  BY RecordsIs
<1>2. /\ Past
      /\ \A v \in DOMAIN log' : \A s : Writes(v, s)' =>
           \/ v \in DOMAIN log /\ v # n /\ Writes(v, s)
           \/ v = n /\ Covers(t, s) /\ c.pc = "writeBack"
      /\ \A a \in Addresses : a \notin DOMAIN X.writes =>
           Snapshot(clock)'[a] = Snapshot(clock)[a]
      /\ \A a \in DOMAIN X.writes : NoneLater(Stripe[a], n) =>
           Snapshot(clock)'[a] = X.writes[a]
  BY RecordsPast
<1>3. /\ setting' = setting /\ locks' = locks /\ memory' = memory /\ tx' = tx /\ seen' = seen
      /\ base' = base /\ tx_overflow' = tx_overflow /\ tx_count' = tx_count
      /\ at' = [at EXCEPT ![t] = c] /\ c \in Calls /\ X.reads \subseteq Read
      /\ log' = [v \in 1 .. clock' |-> IF v = n THEN X ELSE log[v]]
      /\ c.pc \in {"rollback", "validate", "writeBack"}
  BY DEF Records
<1>4. /\ c.pc = "rollback" => X = NoCommit
      /\ c.pc = "validate" =>
           c.for = "commit" /\ c.i = 1 /\ c.now = n /\ X = NoCommit /\ n = clock + 1
      /\ c.pc = "writeBack" =>
           /\ c.i = 1 /\ c.v = n
           /\ \A r \in X.reads : Fixed(r.addr, r.value, n - 1)
           /\ \A a \in DOMAIN X.writes :
                \E j \in DOMAIN W(t) : W(t)[j].addr = a /\ W(t)[j].mask # {}
           /\ \A j \in DOMAIN W(t) : W(t)[j].mask # {} =>
                /\ W(t)[j].addr \in DOMAIN X.writes
                /\ X.writes[W(t)[j].addr] = W(t)[j].value
  BY DEF Records
<1>5. /\ \A a \in Addresses : \A k \in 0 .. clock : \A value :
           Fixed(a, value, k) => Fixed(a, value, k)'
      /\ \A s \in Stripes : \A k \in 0 .. clock : \A version :
           Stable(version, s, k) => Stable(version, s, k)'
  BY <1>2, Before, PastStays
<1>6. \A u \in Threads : /\ W(u)' = W(u) /\ R(u)' = R(u) /\ From(u)' = From(u)
                         /\ \A j : \A s : Holds(u, j, s)' = Holds(u, j, s)
                         /\ u # t => Committed(u)' = Committed(u) /\ Pending(u)' = Pending(u)
                                     /\ at'[u] = at[u]
                                     /\ \A j : Unwritten(u, j)' = Unwritten(u, j)
  <2> SUFFICES ASSUME NEW u \in Threads
               PROVE  /\ W(u)' = W(u) /\ R(u)' = R(u) /\ From(u)' = From(u)
                      /\ \A j : \A s : Holds(u, j, s)' = Holds(u, j, s)
                      /\ u # t => Committed(u)' = Committed(u) /\ Pending(u)' = Pending(u)
                                  /\ at'[u] = at[u]
                                  /\ \A j : Unwritten(u, j)' = Unwritten(u, j)
    OBVIOUS
  <2>1. W(u)' = W(u) /\ R(u)' = R(u)
    BY <1>3 DEF W, R
  <2>2. u # t => /\ at'[u] = at[u] /\ From(u)' = From(u) /\ Committed(u)' = Committed(u)
                 /\ Pending(u)' = Pending(u) /\ \A j : Unwritten(u, j)' = Unwritten(u, j)
    BY <1>1 DEF SameThread, From, Committed, Pending, At, Unwritten
  <2>3. From(u)' = From(u)
    BY <1>1, <2>2
  <2>4. \A j : \A s : Holds(u, j, s)' = Holds(u, j, s)
    BY <2>1, <2>3 DEF Holds
  <2>5. QED
    BY <2>1, <2>2, <2>3, <2>4
<1>7. \A j \in DOMAIN W(t) :
        /\ EntryOf(t, j) /\ j \in Pos /\ W(t)[j].addr \in Addresses /\ W(t)[j].version \in Nat
        /\ W(t)[j].lock = Stripe[W(t)[j].addr] /\ Covers(t, W(t)[j].lock)
        /\ NoneLater(W(t)[j].lock, W(t)[j].version) /\ W(t)[j].version < n
  <2> SUFFICES ASSUME NEW j \in DOMAIN W(t)
               PROVE  /\ EntryOf(t, j) /\ j \in Pos /\ W(t)[j].addr \in Addresses
                      /\ W(t)[j].version \in Nat
                      /\ W(t)[j].lock = Stripe[W(t)[j].addr] /\ Covers(t, W(t)[j].lock)
                      /\ NoneLater(W(t)[j].lock, W(t)[j].version) /\ W(t)[j].version < n
    OBVIOUS
  <2>1. EntryOf(t, j) /\ j \in Pos /\ W(t)[j].addr \in Addresses /\ W(t)[j].version \in Nat
    BY Before, LocalsAre
  <2>2. W(t)[j].version <= clock /\ (Pending(t) => W(t)[j].version < at[t].now)
    BY <2>1 DEF EntryOf
  <2>3. n = clock + 1 \/ (Pending(t) /\ n = at[t].now)
    BY DEF Records
  <2>4. W(t)[j].version < n
    BY <1>1, <2>1, <2>2, <2>3 DEF Pos
  <2>5. NoneLater(W(t)[j].lock, W(t)[j].version) /\ W(t)[j].lock = Stripe[W(t)[j].addr]
    BY <1>1, <2>1 DEF EntryOf, Pos
  <2>6. QED
    BY <2>1, <2>4, <2>5 DEF Covers
<1>8. \A s \in Stripes : LockOf(s)'
  <2> SUFFICES ASSUME NEW s \in Stripes PROVE LockOf(s)'
    OBVIOUS
  <2>1. LockOf(s) /\ (IsOwned(locks[s]) => locks[s].owner \in Threads)
        /\ (~IsOwned(locks[s]) => locks[s].version \in Nat)
    BY Before, LockIs, FreeIs DEF IInv
  <2>2. CASE IsOwned(locks[s])
    BY <1>3, <1>6, <2>1, <2>2 DEF LockOf
  <2>3. CASE ~IsOwned(locks[s])
    <3>1. PICK k \in Nat : k = locks[s].version
      BY <2>1, <2>3
    <3>2. ~Covers(t, s)
      BY <1>1, <2>3, EstmAssumption DEF IsOwned
    <3>3. NoneLater(s, k)' /\ k <= clock'
      BY <1>1, <1>2, <2>1, <2>3, <3>1, <3>2 DEF LockOf, NoneLater
    <3>4. QED
      BY <1>3, <2>3, <3>1, <3>3 DEF LockOf
  <2>4. QED
    BY <2>2, <2>3
<1>9. \A a \in Addresses : MemoryOf(a)'
  <2> SUFFICES ASSUME NEW a \in Addresses PROVE MemoryOf(a)'
    OBVIOUS
  <2>1. MemoryOf(a)
    BY DEF IInv
  <2>2. CASE a \in DOMAIN X.writes
    <3>1. c.pc = "writeBack" /\ c.i = 1
      BY <1>1, <1>4, <2>2
    <3>2. PICK j \in DOMAIN W(t) : W(t)[j].addr = a /\ W(t)[j].mask # {}
      BY <1>4, <2>2, <3>1
    <3>3. Committed(t)' /\ Unwritten(t, j)'
      BY <1>1, <1>7, <3>1 DEF Committed, Unwritten, At, Pos
    <3>4. QED
      BY <1>6, <3>2, <3>3 DEF MemoryOf
  <2>3. CASE a \notin DOMAIN X.writes /\ memory[a] = Snapshot(clock)[a]
    BY <1>2, <1>3, <2>3 DEF MemoryOf
  <2>4. CASE \E u \in Threads : Committed(u) /\
               \E j \in DOMAIN W(u) : Unwritten(u, j) /\ W(u)[j].addr = a /\ W(u)[j].mask # {}
    <3>1. PICK u, j : /\ u \in Threads /\ j \in DOMAIN W(u) /\ Committed(u) /\ Unwritten(u, j)
                      /\ W(u)[j].addr = a /\ W(u)[j].mask # {}
      BY <2>4
    <3>2. u # t
      BY <1>1, <3>1
    <3>3. QED
      BY <1>6, <3>1, <3>2 DEF MemoryOf
  <2>5. QED
    BY <2>1, <2>2, <2>3, <2>4 DEF MemoryOf
<1>10. \A v \in DOMAIN log' : LogOf(v)'
  <2> SUFFICES ASSUME NEW v \in DOMAIN log', NEW r \in log'[v].reads
               PROVE  Fixed(r.addr, r.value, v - 1)'
    BY DEF LogOf
  <2>1. PICK k : k = v - 1
    OBVIOUS
  <2>2. r.addr \in Addresses /\ k \in 0 .. clock
    <3>1. v \in 1 .. clock => log[v].reads \subseteq Read
      BY Before DEF Global
    <3>2. r \in Read
      BY <1>1, <1>3, <3>1
    <3>3. v - 1 <= clock /\ v \in Pos
      <4>1. n \in DOMAIN log \/ n = clock + 1
        BY <1>1 DEF Records, Pos, Pending
      <4>2. QED
        BY <1>1, <4>1 DEF Pos
    <3>4. QED
      BY <1>1, <2>1, <3>2, <3>3 DEF Read, Pos
  <2>3. Fixed(r.addr, r.value, k)
    <3>1. CASE v # n
      BY <1>1, <2>1, <3>1 DEF IInv, LogOf
    <3>2. CASE v = n
      <4>1. X # NoCommit
        BY <1>1, <3>2 DEF NoCommit
      <4>2. QED
        BY <1>1, <1>3, <1>4, <2>1, <3>2, <4>1
    <3>3. QED
      BY <3>1, <3>2
  <2>4. Fixed(r.addr, r.value, k)'
    BY <1>5, <2>2, <2>3
  <2>5. QED
    BY <2>1, <2>4
<1>11. \A u \in Threads \ {t} : ThreadOf(u)'
  <2> SUFFICES ASSUME NEW u \in Threads, u # t PROVE ThreadOf(u)'
    OBVIOUS
  <2>1. ThreadOf(u) /\ TypeOf(u) /\ SameThread(u) /\ TimesOf(u) /\ PendingOf(u) /\ FlightOf(u)
    BY <1>1, Before
  <2>2. PendingOf(u)'
    <3> SUFFICES ASSUME Pending(u) PROVE PendingOf(u)'
      BY <1>6, <2>1 DEF PendingOf
    <3>1. PICK m : m = at[u].now
      OBVIOUS
    <3>2. m \in Nat /\ m <= clock /\ tx[u].end < m /\ tx[u].end \in Nat
      BY <2>1, <3>1, LocalsAre DEF TimesOf, Pending
    <3>3. log[m] = NoCommit /\ \A x \in Threads \ {u} : Pending(x) => at[x].now # m
      BY <2>1, <3>1 DEF PendingOf
    <3>4. m # n
      <4>1. n = clock + 1 \/ (Pending(t) /\ at[t].now = n)
        BY DEF Records
      <4>2. QED
        BY <1>1, <3>2, <3>3, <4>1
    <3>5. m \in 1 .. clock' /\ log'[m] = NoCommit
      BY <1>1, <1>3, <3>2, <3>3, <3>4
    <3>6. \A x \in Threads \ {u} : Pending(x)' => at'[x].now # m
      <4>1. Pending(t)' => at'[t].now = n
        BY <1>1, <1>4 DEF Pending, At
      <4>2. QED
        BY <1>6, <3>3, <3>4, <4>1
    <3>7. at'[u].now = m
      BY <1>6, <2>1, <3>1
    <3>8. QED
      BY <3>5, <3>6, <3>7 DEF PendingOf
  <2>3. \A j \in DOMAIN W(u) : EntryOf(u, j)'
    <3> SUFFICES ASSUME NEW j \in DOMAIN W(u) PROVE EntryOf(u, j)'
      OBVIOUS
    <3>1. EntryOf(u, j) /\ W(u)[j].addr \in Addresses
      BY Before, LocalsAre
    <3>2. From(u) <= j => /\ locks'[W(u)[j].lock].owner = u /\ ~Covers(t, W(u)[j].lock)
                          /\ W(u)[j].lock = Stripe[W(u)[j].addr]
      <4>1. /\ W(u)[j].lock = Stripe[W(u)[j].addr]
            /\ From(u) <= j => locks[W(u)[j].lock].owner = u
        BY <3>1 DEF EntryOf
      <4>2. Covers(t, W(u)[j].lock) => locks[W(u)[j].lock].owner = t
        BY <1>1
      <4>3. QED
        BY <1>3, <4>1, <4>2
    <3>3. From(u) <= j => \A v \in DOMAIN log' : Writes(v, W(u)[j].lock)' =>
                            v \in DOMAIN log /\ Writes(v, W(u)[j].lock)
      <4>1. PICK s : s = W(u)[j].lock
        OBVIOUS
      <4>2. From(u) <= j => \A v \in DOMAIN log' : Writes(v, s)' => v \in DOMAIN log /\ Writes(v, s)
        BY <1>2, <3>2, <4>1
      <4>3. W(u)' = W(u)
        BY <1>6
      <4>4. QED
        BY <4>1, <4>2, <4>3
    <3>4. From(u) <= j => Snapshot(clock)'[W(u)[j].addr] = Snapshot(clock)[W(u)[j].addr]
      BY <1>1, <1>2, <3>1, <3>2
    <3>5. QED
      BY <1>2, <2>1, <3>1, <3>2, <3>3, <3>4, Before, OtherEntry
  <2>4. FlightOf(u)'
    <3> SUFFICES ASSUME Carrying(u)' PROVE FlightOf(u)'
      BY DEF FlightOf
    <3>1. at'[u] = at[u] /\ Carrying(u) /\ ValueKnown(u)' = ValueKnown(u)
      BY <1>6 DEF Carrying, ValueKnown, At
    <3>2. PICK s, l, a : s = Stripe[a] /\ l = at[u].l /\ a = at[u].addr
      OBVIOUS
    <3>3. \A x \in Threads : Committed(x) => Committed(x)'
      BY <1>1, <1>6
    <3>4. /\ ~IsOwned(locks[s]) => l.version <= locks[s].version
          /\ \A x \in Threads : \A j \in DOMAIN W(x) : Holds(x, j, s) =>
               /\ l.version <= W(x)[j].version
               /\ ValueKnown(u) /\ ~Committed(x) /\ l.version = W(x)[j].version =>
                    at[u].value = memory[a]
          /\ ValueKnown(u) /\ locks[s] = l => at[u].value = memory[a]
      BY <2>1, <3>1, <3>2 DEF FlightOf
    <3>5. Stripe'[at'[u].addr] = s /\ at'[u].l = l /\ at'[u].addr = a /\ at'[u].value = at[u].value
      BY <1>1, <3>1, <3>2
    <3>6. \A x \in Threads : \A j \in DOMAIN W(x)' : Holds(x, j, s)' =>
             /\ l.version <= W(x)'[j].version
             /\ ValueKnown(u) /\ ~Committed(x)' /\ l.version = W(x)'[j].version =>
                  at[u].value = memory'[a]
      BY <1>3, <1>6, <3>3, <3>4
    <3>7. QED
      BY <1>3, <3>1, <3>4, <3>5, <3>6 DEF FlightOf
  <2>5. QED
    BY <1>2, <2>1, <2>2, <2>3, <2>4, Before, OtherThread
<1>12. ThreadOf(t)'
  <2>1. tx[t].status = "ACTIVE" /\ tx[t].type # "EL" /\ ~tx[t].ro /\ ~Carrying(t)'
    <3>1. at[t].pc \notin {"out", "ready"}
      BY DEF Records, At, Pending
    <3>2. QED
      BY <1>1, <1>3, <1>4, <3>1, Before, ActiveIs DEF FlatOf, ReadsOf, Carrying, At
  <2>2. TypeOf(t)' /\ IdleOf(t)' /\ WindowOf(t)' /\ VerOf(t)' /\ FlightOf(t)'
    <3>1. TypeOf(t)'
      BY <1>1, <1>3, Before, TypesStay DEF TypeOf
    <3>2. IdleOf(t)' /\ VerOf(t)' /\ FlightOf(t)' /\ WindowOf(t)'
      BY <1>1, <1>3, <2>1 DEF IdleOf, Idle, VerOf, FlightOf, WindowOf
    <3>3. QED
      BY <3>1, <3>2
  <2>3. 1 \in DOMAIN W(t)
    <3>1. W(t) \in Seq(WriteEntry)
      BY Before, DescriptorIs DEF W
    <3>2. QED
      BY <1>1, <3>1
  <2>4. TimesOf(t)'
    <3>1. tx[t].start <= clock /\ tx[t].end <= clock /\ tx[t].start \in Nat /\ tx[t].end \in Nat
      BY Before, LocalsAre DEF TimesOf
    <3>2. QED
      BY <1>1, <1>3, <1>4, <1>6, <2>1, <2>3, <3>1 DEF TimesOf, Pending, Committed, At, Pos
  <2>5. PendingOf(t)'
    <3> SUFFICES ASSUME Pending(t)' PROVE PendingOf(t)'
      BY DEF PendingOf
    <3>1. c.pc = "validate" /\ c.now = n /\ X = NoCommit /\ n = clock + 1
      BY <1>1, <1>4 DEF Pending, At
    <3>2. \A u \in Threads \ {t} : Pending(u)' => at'[u].now # n
      <4>1. \A u \in Threads : Pending(u) => at[u].now <= clock /\ at[u].now \in Nat
        BY Before, LocalsAre DEF TimesOf, Pending
      <4>2. QED
        BY <1>1, <1>6, <3>1, <4>1
    <3>3. QED
      BY <1>1, <3>1, <3>2 DEF PendingOf
  <2>6. /\ \A r \in seen[t] : Fixed(r.addr, r.value, tx[t].end)'
        /\ tx[t].end <= tx[t].start => \A r \in seen[t] : Fixed(r.addr, r.value, tx[t].start)'
    <3>1. \A r \in seen[t] :
            /\ r.addr \in Addresses /\ Fixed(r.addr, r.value, tx[t].end)
            /\ tx[t].end <= tx[t].start => Fixed(r.addr, r.value, tx[t].start)
      BY <1>1, Before, LocalsAre DEF ReadsOf, FlatOf
    <3>2. tx[t].end \in 0 .. clock /\ tx[t].start \in 0 .. clock
      BY Before, LocalsAre DEF TimesOf
    <3>3. tx'[t] = tx[t] /\ seen'[t] = seen[t]
      BY <1>1
    <3>4. QED
      BY <1>5, <3>1, <3>2, <3>3
  <2>7. FlatOf(t)'
    BY <1>1, <2>1, <2>6 DEF FlatOf
  <2>8. ReadsOf(t)'
    <3>1. \A r \in seen[t] : \E j \in DOMAIN R(t) : R(t)[j].lock = Stripe[r.addr]
      BY <1>1, <2>1, Before DEF ReadsOf
    <3>2. ~Aborting(t)' /\ ~Committed(t)' => \A j \in DOMAIN R(t) : ReadEntryOf(t, j)'
      <4> SUFFICES ASSUME ~Aborting(t)', ~Committed(t)', NEW j \in DOMAIN R(t)
                   PROVE  ReadEntryOf(t, j)'
        OBVIOUS
      <4>1. c.pc = "validate" /\ c.i = 1
        BY <1>1, <1>3, <1>4 DEF Aborting, Committed, At
      <4>2. ReadEntryOf(t, j) /\ R(t)[j].lock \in Stripes /\ j \in Pos
        BY <1>1, Before, LocalsAre DEF ReadsOf
      <4>3. PICK k, s, v : k = tx[t].end /\ s = R(t)[j].lock /\ v = R(t)[j].version
        OBVIOUS
      <4>4. Stable(v, s, k)'
        <5>1. k \in 0 .. clock
          BY <4>3, Before, LocalsAre DEF TimesOf
        <5>2. Stable(v, s, k)
          BY <4>2, <4>3 DEF ReadEntryOf
        <5>3. QED
          BY <1>5, <4>2, <4>3, <5>1, <5>2
      <4>5. Stable(R(t)[j].version, R(t)[j].lock, tx[t].end)'
        BY <1>1, <1>6, <4>3, <4>4
      <4>6. ~(At(t, "cas")') /\ ~((At(t, "validate") /\ j < at[t].i)')
        BY <1>1, <4>1, <4>2 DEF At, Pos
      <4>7. QED
        BY <1>1, <1>6, <4>2, <4>5, <4>6 DEF ReadEntryOf
    <3>3. QED
      BY <1>1, <1>6, <2>1, <2>6, <3>1, <3>2 DEF ReadsOf
  <2>9. \A j \in DOMAIN W(t) : EntryOf(t, j)'
    <3> SUFFICES ASSUME NEW j \in DOMAIN W(t) PROVE EntryOf(t, j)'
      OBVIOUS
    <3> DEFINE e == W(t)[j]
    <3>1. /\ EntryOf(t, j) /\ j \in Pos /\ e.addr \in Addresses /\ e.version \in Nat
          /\ e.lock = Stripe[e.addr] /\ NoneLater(e.lock, e.version) /\ e.version < n
          /\ e.version <= clock
          /\ (e.next = 0 <=> \A h \in DOMAIN W(t) : h > j => W(t)[h].lock # e.lock)
          /\ \A h \in DOMAIN W(t) : h # j => W(t)[h].addr # e.addr
          /\ locks[e.lock].owner = t
      BY <1>1, <1>7 DEF EntryOf
    <3>2. PICK s, k : s = e.lock /\ k = IF c.pc = "writeBack" THEN n ELSE e.version
      OBVIOUS
    <3>3. NoneLater(s, k)'
      BY <1>1, <1>2, <3>1, <3>2 DEF NoneLater, Pos
    <3>4. NoneLater(Stripe[e.addr], n)
      BY <1>1, <3>1 DEF NoneLater, Pos
    <3>5. c.pc = "writeBack" /\ e.mask # {} => Snapshot(clock)'[e.addr] = e.value
      BY <1>2, <1>4, <3>4
    <3>6. /\ Committed(t)' <=> c.pc = "writeBack"
          /\ Pending(t)' => c.now = n
          /\ c.pc = "writeBack" => c.v = n
      BY <1>1, <1>3, <1>4 DEF Committed, Pending, At
    <3>7. /\ W(t)' = W(t) /\ W(t)'[j] = e /\ at'[t] = c /\ locks'[e.lock].owner = t
          /\ e.version <= clock'
      <4>1. W(t)' = W(t) /\ W(t)'[j] = e
        BY <1>6
      <4>2. locks'[e.lock].owner = t
        BY <1>3, <3>1
      <4>3. e.version <= clock'
        BY <1>1, <3>1
      <4>4. QED
        BY <1>1, <4>1, <4>2, <4>3
    <3> HIDE DEF e
    <3>8. QED
      BY <1>1, <3>1, <3>2, <3>3, <3>5, <3>6, <3>7 DEF EntryOf
  <2>10. QED
    BY <1>6, <2>2, <2>4, <2>5, <2>7, <2>8, <2>9 DEF ThreadOf
<1>13. Global'
  <2>1. at' = [u \in Threads |-> at'[u]] /\ at' = [at EXCEPT ![t] = at'[t]]
    BY <1>1, <1>3, Before
  <2>2. tx_count' = Cardinality(Running')
    <3>1. at'[t].pc \notin Away
      BY <1>1, <1>3 DEF Away
    <3>2. QED
      BY <1>1, <1>3, <2>1, <3>1, Before, CountIs
  <2>3. log' = [v \in 1 .. clock' |-> log'[v]]
    BY <1>3
  <2>4. \A v \in 1 .. clock' : log'[v].reads \subseteq Read
    BY <1>1, <1>3, Before DEF Global
  <2>5. Descriptor' = Descriptor
    BY <1>3, TypesStay
  <2>6. QED
    BY <1>1, <1>3, <2>1, <2>2, <2>3, <2>4, <2>5, Before DEF Global
<1>14. QED
  BY <1>1, <1>8, <1>9, <1>10, <1>11, <1>12, <1>13 DEF IInv


\* The fetch-and-increment of the clock; nothing to validate if nobody else committed.
LEMMA TimestampIs ==
  ASSUME IInv, NEW t \in Threads, Timestamp(t)
  PROVE  \E n, X, c : Records(t, n, X, c) /\ X.held \subseteq held[t]
<1> DEFINE n == clock + 1
<1>1. /\ clock \in Nat /\ clock' = n /\ At(t, "timestamp") /\ seen[t] \subseteq Read
      /\ log = [v \in 1 .. clock |-> log[v]]
      /\ UNCHANGED <<setting, locks, memory, tx, seen, base, tx_overflow, tx_count>>
  BY Before DEF Timestamp, unmoved, Global
<1>2. \A X : Append(log, X) = [v \in 1 .. clock' |-> IF v = n THEN X ELSE log[v]]
  BY <1>1, AppendLog
<1>3. CASE clock' >= VERSION_MAX
  <2>1. PICK c : c = [pc |-> "rollback", i |-> 1]
    OBVIOUS
  <2>2. at' = [at EXCEPT ![t] = c] /\ log' = Append(log, NoCommit)
    BY <1>3, <2>1 DEF Timestamp, Rollback, Goto
  <2>3. c \in Calls /\ c.pc = "rollback" /\ c.i = 1
    <3>1. c \in [pc : {"rollback"}, i : Pos]
      BY <2>1 DEF Pos
    <3>2. QED
      BY <2>1, <3>1 DEF Calls
  <2>4. NoCommit.reads \subseteq Read /\ NoCommit.held = {}
    BY DEF NoCommit
  <2>5. Records(t, n, NoCommit, c)
    BY <1>1, <1>2, <2>2, <2>3, <2>4 DEF Records
  <2>6. QED
    BY <2>4, <2>5
<1>4. CASE ~(clock' >= VERSION_MAX) /\ tx[t].start = clock
  <2>1. PICK c, X : c = [pc |-> "writeBack", i |-> 1, v |-> n] /\ X = Decided(t, clock')
    OBVIOUS
  <2>2. at' = [at EXCEPT ![t] = c] /\ log' = Append(log, X)
    BY <1>1, <1>4, <2>1 DEF Timestamp, Goto
  <2>3. c \in Calls /\ c.pc = "writeBack" /\ c.i = 1 /\ c.v = n
    <3>1. c \in [pc : {"writeBack", "release"}, i : Pos, v : Nat]
      BY <1>1, <2>1 DEF Pos
    <3>2. QED
      BY <2>1, <3>1 DEF Calls
  <2>4. /\ X.reads = seen[t] /\ X.held = held[t]
        /\ \A a \in DOMAIN X.writes :
             \E j \in DOMAIN W(t) : W(t)[j].addr = a /\ W(t)[j].mask # {}
        /\ \A j \in DOMAIN W(t) : W(t)[j].mask # {} =>
             /\ W(t)[j].addr \in DOMAIN X.writes
             /\ X.writes[W(t)[j].addr] = W(t)[j].value
    BY <2>1, DecidedIs
  <2>5. \A r \in X.reads : Fixed(r.addr, r.value, n - 1)
    <3>1. tx[t].end <= tx[t].start /\ ~Aborting(t)
      BY <1>1, <1>4, Before DEF TimesOf, Aborting, At
    <3>2. \A r \in seen[t] : Fixed(r.addr, r.value, clock)
      BY <1>4, <3>1, Before DEF FlatOf
    <3>3. n - 1 = clock
      BY <1>1
    <3>4. QED
      BY <2>4, <3>2, <3>3
  <2>6. Records(t, n, X, c)
    BY <1>1, <1>2, <2>2, <2>3, <2>4, <2>5 DEF Records
  <2>7. QED
    BY <2>4, <2>6
<1>5. CASE ~(clock' >= VERSION_MAX) /\ tx[t].start # clock
  <2>1. PICK c : c = [pc |-> "validate", for |-> "commit", i |-> 1, now |-> n]
    OBVIOUS
  <2>2. at' = [at EXCEPT ![t] = c] /\ log' = Append(log, NoCommit)
    BY <1>1, <1>5, <2>1 DEF Timestamp, Goto
  <2>3. c \in Calls /\ c.pc = "validate" /\ c.for = "commit" /\ c.i = 1 /\ c.now = n
    <3>1. c \in [pc : {"validate"}, for : {"commit"}, i : Pos, now : Nat]
      BY <1>1, <2>1 DEF Pos
    <3>2. QED
      BY <2>1, <3>1 DEF Calls
  <2>4. NoCommit.reads \subseteq Read /\ NoCommit.held = {}
    BY DEF NoCommit
  <2>5. Records(t, n, NoCommit, c)
    BY <1>1, <1>2, <2>2, <2>3, <2>4 DEF Records
  <2>6. QED
    BY <2>4, <2>5
<1>6. QED
  BY <1>3, <1>4, <1>5

LEMMA TimestampStep ==
  ASSUME IInv, NEW t \in Threads, Timestamp(t)
  PROVE  IInv'
  BY TimestampIs, RecordStep

\* What has been validated was still as it was read just before the timestamp.
LEMMA CommitValidatedIs ==
  ASSUME IInv, NEW t \in Threads, CommitValidated(t)
  PROVE  \E n, X, c : Records(t, n, X, c) /\ X.held \subseteq held[t]
<1> DEFINE n == at[t].now
           c == [pc |-> "writeBack", i |-> 1, v |-> n]
           X == Decided(t, n)
<1>1. /\ Pending(t) /\ ~Aborting(t) /\ ~Committed(t) /\ at[t].i > Len(R(t))
      /\ log' = [log EXCEPT ![n] = X] /\ at' = [at EXCEPT ![t] = c]
      /\ UNCHANGED <<setting, clock, locks, memory, tx, seen, base, tx_overflow, tx_count>>
  BY DEF CommitValidated, Validated, Pending, Aborting, Committed, At, unmoved, Goto, R
<1>2. /\ clock \in Nat /\ n \in Nat /\ n <= clock /\ tx[t].end < n /\ tx[t].end \in Nat
      /\ at[t].i \in Pos /\ n \in 1 .. clock /\ seen[t] \subseteq Read /\ W(t) # <<>>
      /\ log = [v \in 1 .. clock |-> log[v]]
  BY <1>1, Before, LocalsAre DEF TimesOf, Pending, Global
<1>3. log' = [v \in 1 .. clock' |-> IF v = n THEN X ELSE log[v]]
  <2> HIDE DEF X, n
  <2> QED
    BY <1>1, <1>2
<1>4. c \in Calls /\ c.pc = "writeBack" /\ c.i = 1 /\ c.v = n
  <2>1. c \in [pc : {"writeBack", "release"}, i : Pos, v : Nat]
    BY <1>2 DEF Pos
  <2>2. QED
    BY <2>1 DEF Calls
<1>5. /\ X.reads = seen[t] /\ X.held = held[t]
      /\ \A a \in DOMAIN X.writes :
           \E j \in DOMAIN W(t) : W(t)[j].addr = a /\ W(t)[j].mask # {}
      /\ \A j \in DOMAIN W(t) : W(t)[j].mask # {} =>
           /\ W(t)[j].addr \in DOMAIN X.writes
           /\ X.writes[W(t)[j].addr] = W(t)[j].value
  BY DecidedIs
<1>6. ASSUME NEW r \in seen[t] PROVE Fixed(r.addr, r.value, n - 1)
  <2>1. Fixed(r.addr, r.value, tx[t].end) /\ ~tx[t].ro /\ r.addr \in Addresses
    BY <1>1, <1>2, <1>6, Before, LocalsAre DEF ReadsOf
  <2>2. PICK j \in DOMAIN R(t) : R(t)[j].lock = Stripe[r.addr]
    BY <1>1, <1>6, <2>1, Before DEF ReadsOf
  <2>3. ReadEntryOf(t, j) /\ j < at[t].i /\ At(t, "validate") /\ Goal(t) = n - 1
    <3>1. j \in Pos /\ j <= Len(R(t)) /\ Len(R(t)) \in Nat
      BY Before, LocalsAre, DescriptorIs DEF R
    <3>2. QED
      BY <1>1, <1>2, <3>1, Before DEF ReadsOf, Pending, Goal, Pos
  <2>4. PICK v, s, k, e : /\ v = R(t)[j].version /\ s = R(t)[j].lock /\ k = n - 1
                          /\ e = tx[t].end
    OBVIOUS
  <2>5. Stable(v, s, k) /\ v <= e /\ v \in Nat /\ s = Stripe[r.addr] /\ k \in Nat /\ e \in Nat
        /\ e <= k /\ k <= clock
    BY <1>2, <2>2, <2>3, <2>4, Before, LocalsAre DEF ReadEntryOf
  <2>6. \A u \in DOMAIN log : e < u /\ u <= k => r.addr \notin DOMAIN log[u].writes
    <3>1. \A u \in DOMAIN log : v < u /\ u <= k => ~Writes(u, s)
      BY <2>5 DEF Stable
    <3>2. \A u \in DOMAIN log : e < u => v < u
      BY <1>2, <2>5
    <3>3. QED
      BY <2>5, <3>1, <3>2 DEF Writes
  <2>7. Snapshot(e)[r.addr] = Snapshot(k)[r.addr]
    BY <2>1, <2>5, <2>6, SnapshotSame
  <2>8. Fixed(r.addr, r.value, k)
    BY <2>1, <2>4, <2>5, <2>7 DEF Fixed, Stable
  <2>9. QED
    BY <2>4, <2>8
<1>7. clock' = clock /\ at[t].now = n
  BY <1>1
<1> HIDE DEF n, c, X
<1>8. Records(t, n, X, c)
  BY <1>1, <1>2, <1>3, <1>4, <1>5, <1>6, <1>7 DEF Records
<1>9. QED
  BY <1>5, <1>8

LEMMA CommitValidatedStep ==
  ASSUME IInv, NEW t \in Threads, CommitValidated(t)
  PROVE  IInv'
  BY CommitValidatedIs, RecordStep


-----------------------------------------------------------------------------
(* The last thread that is running resets the clock.                       *)

\* Whoever is the only one that is running knows that the others are away.
LEMMA OneRunning ==
  ASSUME IInv, NEW t \in Threads, at[t].pc \notin Away, tx_count = 1
  PROVE  \A u \in Threads \ {t} : at[u].pc \in Away
<1>1. IsFiniteSet(Running) /\ Cardinality(Running) = 1 /\ t \in Running
  BY Before, EstmAssumption, FS_Subset DEF Global, Running, Away
<1>2. PICK x : Running = {x}
  BY <1>1, FS_Singleton
<1>3. QED
  BY <1>1, <1>2 DEF Running, Away

\* Nobody else is in a transaction: the reset begins a new history.
LEMMA ResetStep ==
  ASSUME IInv, NEW t \in Threads, NEW d \in Descriptor, NEW c \in Calls,
         at[t].pc \notin Away, tx_count = 1, Idle(t),
         UNCHANGED <<setting, memory, seen>>, tx' = [tx EXCEPT ![t] = d],
         ResetClock([at EXCEPT ![t] = c]),
         d.w_set = <<>>, d.r_set = <<>>, d.lastraddr = NoWindow, d.start = 0, d.end = 0,
         \/ c.pc = "out" /\ d.status = "STOPPED" /\ tx_count' = 0
         \/ c.pc = "start" /\ d.status = "ACTIVE" /\ tx_count' = 1
  PROVE  IInv'
<1>1. \A u \in Threads \ {t} : at[u].pc \in Away
  BY OneRunning
<1>2. /\ locks' = [s \in Stripes |-> Free(0)] /\ clock' = 0 /\ tx_overflow' = FALSE
      /\ base' = memory /\ log' = <<>> /\ memory' = memory /\ seen' = seen
      /\ at' = [u \in Threads |-> IF [at EXCEPT ![t] = c][u].pc = "asleep" THEN [pc |-> "awake"]
                                  ELSE [at EXCEPT ![t] = c][u]]
  BY DEF ResetClock
<1>3. at'[t] = c /\ \A u \in Threads \ {t} :
        at'[u] = IF at[u].pc = "asleep" THEN [pc |-> "awake"] ELSE at[u]
  BY <1>2, Before
<1>4. tx'[t] = d /\ \A u \in Threads \ {t} : tx'[u] = tx[u]
  BY Before
<1>5. /\ setting' = setting /\ Descriptor' = Descriptor /\ Calls' = Calls /\ Stripes' = Stripes
      /\ Stripe' = Stripe
  BY TypesStay
<1>6. \A u \in Threads : ThreadOf(u)'
  <2> SUFFICES ASSUME NEW u \in Threads PROVE ThreadOf(u)'
    OBVIOUS
  <2>1. CASE u = t
    <3>1. seen[t] = {}
      BY IdleIs
    <3>2. TypeOf(t)'
      BY <1>2, <1>3, <1>4, <1>5, <3>1 DEF TypeOf
    <3>3. IdleOf(t)' /\ Idle(t)'
      BY <1>2, <1>3, <1>4, <3>1 DEF IdleOf, Idle, W, R, NoWindow, None
    <3>4. QED
      BY <1>2, <2>1, <3>2, <3>3, IdleThread
  <2>2. CASE u # t
    <3>1. at[u].pc \in Away /\ IdleOf(u) /\ TypeOf(u)
      BY <1>1, <2>2, Before
    <3>2. Idle(u)
      BY <3>1 DEF Idle, IdleOf, Away
    <3>3. at'[u] \in Calls
      <4>1. [pc |-> "awake"] \in Calls
        BY PlainIs DEF Plain
      <4>2. QED
        BY <1>3, <2>2, <4>1, Before
    <3>4. TypeOf(u)'
      BY <1>2, <1>4, <1>5, <2>2, <3>1, <3>3 DEF TypeOf
    <3>5. at'[u].pc \in Away /\ (at'[u].pc = "out" <=> at[u].pc = "out")
      BY <1>3, <2>2, <3>1 DEF Away
    <3>6. IdleOf(u)' /\ Idle(u)'
      <4>1. /\ W(u) = <<>> /\ R(u) = <<>> /\ seen[u] = {} /\ tx[u].lastraddr = NoWindow
            /\ tx[u].start = 0 /\ tx[u].end = 0
            /\ tx[u].status # "ACTIVE" => at[u].pc \in {"out", "ready"}
            /\ at[u].pc = "out" => tx[u].status # "ACTIVE"
        BY <3>1, <3>2 DEF IdleOf
      <4>2. tx'[u] = tx[u] /\ seen'[u] = seen[u]
        BY <1>2, <1>4, <2>2
      <4>3. QED
        BY <3>1, <3>5, <4>1, <4>2 DEF IdleOf, Idle, W, R, NoWindow, None, Away
    <3>7. QED
      BY <1>2, <3>4, <3>6, IdleThread
  <2>3. QED
    BY <2>1, <2>2
<1>7. \A s \in Stripes' : LockOf(s)'
  <2> SUFFICES ASSUME NEW s \in Stripes PROVE LockOf(s)'
    BY <1>5
  <2>1. ~IsOwned(locks'[s]) /\ locks'[s].version = 0
    BY <1>2, FreeIs
  <2>2. NoneLater(s, 0)'
    BY <1>2 DEF NoneLater
  <2>3. QED
    BY <1>2, <2>1, <2>2 DEF LockOf
<1>8. \A a \in Addresses : MemoryOf(a)'
  <2> SUFFICES ASSUME NEW a \in Addresses PROVE MemoryOf(a)'
    OBVIOUS
  <2>1. PICK k : k = clock'
    OBVIOUS
  <2>2. WritersIn(log', k, a) = {}
    BY <1>2 DEF WritersIn
  <2>3. Snapshot(k)'[a] = base'[a]
    BY <2>2, SnapshotIs DEF ValueIn
  <2>4. Snapshot(clock)'[a] = Snapshot(k)'[a]
    BY <2>1
  <2>5. memory'[a] = Snapshot(clock)'[a]
    BY <1>2, <2>3, <2>4
  <2>6. QED
    BY <2>5 DEF MemoryOf
<1>9. \A v \in DOMAIN log' : LogOf(v)'
  BY <1>2
<1>10. Global'
  <2>1. tx' \in [Threads -> Descriptor]
    BY Before
  <2>2. locks' \in [Stripes -> FreeLock \cup OwnedLock]
    BY <1>2, FreeIs
  <2>3. at' = [u \in Threads |-> at'[u]] /\ seen' = [u \in Threads |-> seen'[u]]
    BY <1>2, Before
  <2>4. log' = [v \in 1 .. clock' |-> log'[v]]
    BY <1>2
  <2>5. \A v \in 1 .. clock' : log'[v].reads \subseteq Read
    BY <1>2
  <2>6. tx_count' = Cardinality(Running')
    <3>1. \A u \in Threads \ {t} : at'[u].pc \in Away
      BY <1>1, <1>3 DEF Away
    <3>2. CASE c.pc = "out" /\ tx_count' = 0
      <4>1. Running' = {}
        BY <1>3, <3>1, <3>2 DEF Running, Away
      <4>2. QED
        BY <3>2, <4>1, FS_EmptySet
    <3>3. CASE c.pc = "start" /\ tx_count' = 1
      <4>1. Running' = {t}
        BY <1>3, <3>1, <3>3 DEF Running, Away
      <4>2. QED
        BY <3>3, <4>1, FS_Singleton
    <3>4. QED
      BY <3>2, <3>3
  <2>7. memory' \in [Addresses -> Val] /\ base' \in [Addresses -> Val]
    BY <1>2, Before DEF Global
  <2>8. QED
    BY <1>2, <1>5, <2>1, <2>2, <2>3, <2>4, <2>5, <2>6, <2>7, Before DEF Global
<1>11. QED
  BY <1>5, <1>6, <1>7, <1>8, <1>9, <1>10 DEF IInv

\* stm_overflow keeps the invariant.
LEMMA OverflowStep ==
  ASSUME IInv, NEW t \in Threads, Overflow(t)
  PROVE  IInv'
<1>1. CASE tx_count # 1
  BY <1>1, SleepStep
<1>2. CASE tx_count = 1
  <2>1. /\ at[t].pc = "overflow" /\ ResetClock([at EXCEPT ![t] = [pc |-> "start"]])
        /\ tx_count' = 1 /\ UNCHANGED <<setting, memory, tx, seen>>
    BY <1>2 DEF Overflow, At
  <2>2. Idle(t) /\ tx[t].status = "ACTIVE" /\ at[t].pc \notin Away
    BY <2>1, ActiveIs DEF Idle, Away
  <2>3. /\ tx[t] \in Descriptor /\ tx[t].w_set = <<>> /\ tx[t].r_set = <<>>
        /\ tx[t].lastraddr = NoWindow /\ tx[t].start = 0 /\ tx[t].end = 0
    BY <2>2, IdleIs
  <2>4. tx' = [tx EXCEPT ![t] = tx[t]]
    BY <2>1, Before
  <2>5. PICK c : c = [pc |-> "start"]
    OBVIOUS
  <2>6. c \in Calls /\ c.pc = "start" /\ ResetClock([at EXCEPT ![t] = c])
    BY <2>1, <2>5, PlainIs DEF Plain
  <2>7. QED
    BY <1>2, <2>1, <2>2, <2>3, <2>4, <2>6, ResetStep
<1>3. QED
  BY <1>1, <1>2

\* stm_exit_thread keeps the invariant.
LEMMA ExitStep ==
  ASSUME IInv, NEW t \in Threads, ExitThread(t)
  PROVE  IInv'
<1>1. CASE ~(tx_overflow /\ tx_count' = 0)
  BY <1>1, ExitThreadStep
<1>2. CASE tx_overflow /\ tx_count' = 0
  <2>1. PICK c : c = [pc |-> "out"]
    OBVIOUS
  <2>2. /\ at[t].pc = "ready" /\ tx[t].status # "ACTIVE" /\ tx_count' = tx_count - 1
        /\ ResetClock([at EXCEPT ![t] = c])
        /\ tx' = [tx EXCEPT ![t] = Reset] /\ UNCHANGED <<setting, memory, seen>>
    BY <1>2, <2>1 DEF ExitThread, At
  <2>3. Idle(t) /\ at[t].pc \notin Away
    BY <2>2 DEF Idle, Away
  <2>4. tx_count = 1
    <3>1. tx_count \in Nat
      BY Before, EstmAssumption, FS_Subset, FS_CardinalityType DEF Global, Running
    <3>2. QED
      BY <1>2, <2>2, <3>1
  <2>5. c \in Calls /\ c.pc = "out"
    BY <2>1, PlainIs DEF Plain
  <2>6. /\ Reset \in Descriptor /\ Reset.w_set = <<>> /\ Reset.r_set = <<>>
        /\ Reset.lastraddr = NoWindow /\ Reset.start = 0 /\ Reset.end = 0
        /\ Reset.status = "STOPPED"
    BY Before, ResetIs
  <2>7. QED
    BY <1>2, <2>2, <2>3, <2>4, <2>5, <2>6, ResetStep
<1>3. QED
  BY <1>1, <1>2

-----------------------------------------------------------------------------
(* What is read under a lock of one's own.                                 *)

Byte == [addr : Addresses, byte : Bytes, value : Nat]
\* The byte has the value at k, whatever is still decided.
FixedByte(r, k) == r.value = Snapshot(k)[r.addr][r.byte] /\ Settled(Stripe[r.addr], k)

\* What t has read under a lock of its own is the state at the version of the lock or at
\* the end of its validity range, whichever is later.
HeldOf(t) ==
  ~Aborting(t) => \A r \in held[t] : \E i \in DOMAIN W(t) :
    W(t)[i].lock = Stripe[r.addr] /\ FixedByte(r, Later(W(t)[i].version, tx[t].end))

\* The bytes of an entry that were not stored are those of the memory.
Merged(e) == e.mask # {} => \A b \in Bytes \ e.mask : e.value[b] = memory[e.addr][b]
MergedOf(t) == ~Aborting(t) /\ ~Committed(t) => \A i \in DOMAIN W(t) : Merged(W(t)[i])

\* Beside IInv, an inductive invariant about held.
HInv ==
  /\ held = [t \in Threads |-> held[t]]
  /\ \A t \in Threads : held[t] \subseteq Byte /\ HeldOf(t) /\ MergedOf(t)
  /\ \A v \in DOMAIN log : log[v].held \subseteq Byte /\ \A r \in log[v].held : FixedByte(r, v - 1)

\* The later of two timestamps.
LEMMA LaterIs ==
  ASSUME NEW v \in Nat, NEW w \in Nat
  PROVE  /\ Later(v, w) \in Nat /\ v <= Later(v, w) /\ w <= Later(v, w)
         /\ Later(v, w) \in {v, w}
  BY DEF Later

\* A byte that was right at a timestamp stays right when the past is kept.
LEMMA ByteStays ==
  ASSUME setting \in Settings, Past, NEW r \in Byte, NEW k \in 0 .. clock, FixedByte(r, k)
  PROVE  FixedByte(r, k)'
<1>1. PICK a, x : a \in Addresses /\ a = r.addr /\ x = Snapshot(k)[a]
  BY DEF Byte
<1>2. Fixed(a, x, k)
  BY <1>1 DEF Fixed, FixedByte
<1>3. Fixed(a, x, k)'
  BY <1>1, <1>2, PastStays
<1>4. QED
  BY <1>1, <1>3 DEF Fixed, FixedByte

\* Of the lock of an entry that is not yet written back, nothing changes from its version
\* on, neither what the commits have written nor the memory.
LEMMA OwnIs ==
  ASSUME IInv, NEW t \in Threads, ~Aborting(t), ~Committed(t), NEW i \in DOMAIN W(t)
  PROVE  /\ W(t)[i].version \in Nat /\ W(t)[i].version <= clock
         /\ locks[W(t)[i].lock].owner = t
         /\ \A k \in Nat : W(t)[i].version <= k /\ k <= clock /\ (Pending(t) => k < at[t].now) =>
              /\ Settled(W(t)[i].lock, k)
              /\ \A a \in Addresses : Stripe[a] = W(t)[i].lock => Snapshot(k)[a] = Snapshot(clock)[a]
         /\ \A a \in Addresses : Stripe[a] = W(t)[i].lock => memory[a] = Snapshot(clock)[a]
<1> DEFINE e == W(t)[i]
<1>0. PICK s, w : s = e.lock /\ w = e.version
  OBVIOUS
<1>1. /\ i \in Pos /\ w \in Nat /\ EntryOf(t, i) /\ clock \in Nat /\ From(t) = 1
  BY <1>0, Before, LocalsAre DEF Committed, Aborting, From, At
<1>2. w <= clock /\ locks[s].owner = t /\ NoneLater(s, w)
  BY <1>0, <1>1 DEF EntryOf, Pos
<1>3. ASSUME NEW u \in Threads, NEW j \in DOMAIN W(u), From(u) <= j, W(u)[j].lock = s
      PROVE  u = t
  <2>1. EntryOf(u, j)
    BY Before
  <2>2. QED
    BY <1>2, <1>3, <2>1 DEF EntryOf
<1>4. ASSUME NEW k \in Nat, w <= k, k <= clock, Pending(t) => k < at[t].now
      PROVE  /\ Settled(s, k)
             /\ \A a \in Addresses : Stripe[a] = s => Snapshot(k)[a] = Snapshot(clock)[a]
  <2>1. ASSUME NEW u \in Threads, Pending(u), at[u].now <= k, Covers(u, s) PROVE FALSE
    <3>1. PICK j \in DOMAIN W(u) : W(u)[j].lock = s
      BY <2>1 DEF Covers
    <3>2. From(u) <= j
      BY <2>1, Before, LocalsAre DEF Pending, From, At, Pos
    <3>3. u = t /\ at[u].now \in Nat
      BY <1>3, <2>1, <3>1, <3>2, Before, LocalsAre DEF Pending
    <3>4. QED
      BY <1>4, <2>1, <3>3
  <2>2. ASSUME NEW a \in Addresses, Stripe[a] = s PROVE Snapshot(k)[a] = Snapshot(clock)[a]
    <3>1. \A v \in DOMAIN log : k < v => a \notin DOMAIN log[v].writes
      <4>1. \A v \in DOMAIN log : k < v => v > w
        BY <1>1, <1>4, Before DEF Global
      <4>2. QED
        BY <1>2, <2>2, <4>1 DEF NoneLater, Writes
    <3>2. PICK n \in Nat : n = clock
      BY <1>1
    <3>3. Snapshot(k)[a] = Snapshot(n)[a]
      BY <1>4, <3>1, <3>2, SnapshotSame
    <3>4. QED
      BY <3>2, <3>3
  <2>3. QED
    BY <2>1, <2>2 DEF Settled
<1>5. ASSUME NEW a \in Addresses, Stripe[a] = s, memory[a] # Snapshot(clock)[a] PROVE FALSE
  <2>0. PICK u \in Threads : /\ Committed(u)
                             /\ \E j \in DOMAIN W(u) : Unwritten(u, j) /\ W(u)[j].addr = a
    BY <1>5 DEF IInv, MemoryOf
  <2>1. PICK j \in DOMAIN W(u) : Unwritten(u, j) /\ W(u)[j].addr = a
    BY <2>0
  <2>2. EntryOf(u, j) /\ j \in Pos
    BY Before, LocalsAre
  <2>3. From(u) <= j /\ W(u)[j].lock = s
    <3>1. at[u].i \in Pos
      BY <2>0, Before, LocalsAre
    <3>2. QED
      BY <1>5, <2>0, <2>1, <2>2, <3>1 DEF EntryOf, Unwritten, From, Committed, Pos
  <2>4. u = t
    BY <1>3, <2>3
  <2>5. QED
    BY <2>0, <2>4
<1>6. QED
  BY <1>0, <1>1, <1>2, <1>4, <1>5

\* What was read under a lock of one's own is still the memory, and the state at any
\* timestamp from the version of the lock on.
LEMMA HeldIs ==
  ASSUME IInv, HInv, NEW t \in Threads, ~Aborting(t), ~Committed(t), NEW r \in held[t]
  PROVE  /\ r \in Byte
         /\ \E i \in DOMAIN W(t) :
              /\ W(t)[i].lock = Stripe[r.addr]
              /\ \A k \in Nat : W(t)[i].version <= k /\ k <= clock /\ (Pending(t) => k < at[t].now) =>
                   FixedByte(r, k)
<1>1. r \in Byte /\ r.addr \in Addresses
  BY DEF HInv, Byte
<1>2. PICK i \in DOMAIN W(t) :
        /\ W(t)[i].lock = Stripe[r.addr] /\ FixedByte(r, Later(W(t)[i].version, tx[t].end))
  BY DEF HInv, HeldOf
<1>3. PICK n, m : n = W(t)[i].version /\ m = Later(n, tx[t].end)
  OBVIOUS
<1>4. /\ n \in Nat /\ n <= clock /\ tx[t].end \in Nat /\ tx[t].end <= clock /\ clock \in Nat
      /\ EntryOf(t, i)
  BY <1>3, OwnIs, Before, LocalsAre DEF TimesOf
<1>5. m \in Nat /\ n <= m /\ m <= clock
  BY <1>3, <1>4, LaterIs
<1>6. Pending(t) => at[t].now \in Nat /\ m < at[t].now
  <2>1. Pending(t) => at[t].now \in Nat /\ n < at[t].now /\ tx[t].end < at[t].now
    BY <1>3, <1>4, Before, LocalsAre DEF EntryOf, TimesOf, Pending
  <2>2. QED
    BY <1>3, <1>4, <2>1, LaterIs
<1>7. r.value = Snapshot(clock)[r.addr][r.byte]
  BY <1>1, <1>2, <1>3, <1>5, <1>6, OwnIs DEF FixedByte
<1>8. ASSUME NEW k \in Nat, n <= k, k <= clock, Pending(t) => k < at[t].now
      PROVE  FixedByte(r, k)
  BY <1>1, <1>2, <1>3, <1>7, <1>8, OwnIs DEF FixedByte
<1>9. QED
  BY <1>1, <1>2, <1>3, <1>8

\* A thread without a transaction holds nothing.
LEMMA HeldIdle ==
  ASSUME IInv, HInv, NEW t \in Threads, Idle(t)
  PROVE  held[t] = {} /\ W(t) = <<>> /\ ~Aborting(t) /\ tx[t].end = 0
<1>1. W(t) = <<>> /\ ~Aborting(t) /\ tx[t].end = 0
  BY Before DEF IdleOf, Idle, Aborting, At
<1>2. HeldOf(t)
  BY DEF HInv
<1>3. QED
  BY <1>1, <1>2 DEF HeldOf

\* A load under a lock of one's own returns the present memory, also through an entry.
LEMMA HeldBytesIs ==
  ASSUME IInv, HInv, NEW t \in Threads, ~Aborting(t), ~Committed(t), NEW a \in Addresses,
         NEW r \in HeldBytes(t, a)
  PROVE  r \in Byte /\ r.addr = a /\ r.value = memory[a][r.byte]
<1> DEFINE same == {i \in DOMAIN tx[t].w_set : tx[t].w_set[i].addr = a /\ tx[t].w_set[i].mask # {}}
           own == {b \in Bytes : \E i \in same : b \in tx[t].w_set[i].mask}
           word == IF same = {} THEN memory[a] ELSE tx[t].w_set[CHOOSE i \in same : TRUE].value
<1>1. PICK b \in Bytes \ own : r = [addr |-> a, byte |-> b, value |-> word[b]]
  BY DEF HeldBytes
<1>2. memory[a] \in Val
  BY Before DEF Global
<1>3. word[b] = memory[a][b]
  <2>1. CASE same = {}
    BY <2>1
  <2>2. CASE same # {}
    <3>1. PICK i \in same : i = CHOOSE j \in same : TRUE
      BY <2>2
    <3>2. i \in DOMAIN W(t) /\ W(t)[i].addr = a /\ W(t)[i].mask # {} /\ b \notin W(t)[i].mask
      BY <1>1, <3>1 DEF W
    <3>3. Merged(W(t)[i])
      BY <3>2 DEF HInv, MergedOf
    <3>4. word = W(t)[i].value
      BY <2>2, <3>1 DEF W
    <3>5. QED
      BY <3>2, <3>3, <3>4 DEF Merged
  <2>3. QED
    BY <2>1, <2>2
<1>4. memory[a][b] \in Nat
  BY <1>2 DEF Val
<1> HIDE DEF same, own, word
<1>5. QED
  BY <1>1, <1>3, <1>4 DEF Byte

\* What is left to look at when t moves: its own reads, and those it puts into the history.
LEMMA HeldMove ==
  ASSUME IInv, HInv, NEW t \in Threads, Past, held' = [held EXCEPT ![t] = held'[t]],
         \A u \in Threads \ {t} : tx'[u] = tx[u] /\ at'[u] = at[u],
         \A u \in Threads \ {t} : ~Aborting(u) /\ ~Committed(u) =>
           \A i \in DOMAIN W(u) : memory'[W(u)[i].addr] = memory[W(u)[i].addr],
         \A v \in DOMAIN log' :
           \/ v \in DOMAIN log /\ log'[v].held = log[v].held
           \/ log'[v].held \subseteq Byte /\ \A r \in log'[v].held : FixedByte(r, v - 1)',
         held'[t] \subseteq Byte, HeldOf(t)', MergedOf(t)'
  PROVE  HInv'
<1>1. setting \in Settings /\ clock \in Nat /\ DOMAIN log = 1 .. clock /\ Stripe' = Stripe
  BY Before, TypesStay DEF IInv, Global, Past
<1>2. /\ held = [u \in Threads |-> held[u]]
      /\ \A u \in Threads : held[u] \subseteq Byte /\ HeldOf(u) /\ MergedOf(u)
      /\ \A v \in DOMAIN log : log[v].held \subseteq Byte /\ \A r \in log[v].held : FixedByte(r, v - 1)
  BY DEF HInv
<1>3. held' = [u \in Threads |-> held'[u]] /\ \A u \in Threads \ {t} : held'[u] = held[u]
  BY <1>2
<1>4. ASSUME NEW u \in Threads \ {t} PROVE HeldOf(u)' /\ MergedOf(u)'
  <2>1. W(u)' = W(u) /\ Aborting(u)' = Aborting(u) /\ Committed(u)' = Committed(u)
    BY <1>4 DEF W, Aborting, Committed, At
  <2>2. ASSUME ~Aborting(u), NEW r \in held[u], NEW i \in DOMAIN W(u),
               FixedByte(r, Later(W(u)[i].version, tx[u].end))
        PROVE  FixedByte(r, Later(W(u)[i].version, tx[u].end))'
    <3>1. PICK m : m = Later(W(u)[i].version, tx[u].end)
      OBVIOUS
    <3>2. W(u)[i].version \in Nat /\ tx[u].end \in Nat /\ W(u)[i].version <= clock
          /\ tx[u].end <= clock
          /\ clock \in Nat
      BY <1>1, <1>4, Before, LocalsAre DEF EntryOf, TimesOf
    <3>3. m \in 0 .. clock
      BY <3>1, <3>2, LaterIs
    <3>4. r \in Byte
      BY <1>2
    <3>5. FixedByte(r, m)'
      BY <1>1, <2>2, <3>1, <3>3, <3>4, ByteStays
    <3>6. m = Later(W(u)[i].version, tx[u].end)'
      BY <1>4, <2>1, <3>1 DEF Later
    <3>7. QED
      BY <3>5, <3>6 DEF FixedByte
  <2>3. HeldOf(u)'
    BY <1>1, <1>2, <1>3, <1>4, <2>1, <2>2 DEF HeldOf
  <2>4. MergedOf(u)'
    BY <1>2, <1>4, <2>1 DEF MergedOf, Merged
  <2>5. QED
    BY <2>3, <2>4
<1>5. ASSUME NEW v \in DOMAIN log'
      PROVE  log'[v].held \subseteq Byte /\ \A r \in log'[v].held : FixedByte(r, v - 1)'
  <2>1. CASE v \in DOMAIN log /\ log'[v].held = log[v].held
    <3>1. v - 1 \in 0 .. clock
      BY <1>1, <2>1
    <3>2. \A r \in log[v].held : r \in Byte /\ FixedByte(r, v - 1)
      BY <1>2, <2>1
    <3>3. \A r \in log[v].held : FixedByte(r, v - 1)'
      BY <1>1, <3>1, <3>2, ByteStays
    <3>4. QED
      BY <2>1, <3>2, <3>3
  <2>2. QED
    BY <2>1
<1>6. QED
  BY <1>3, <1>4, <1>5, <1>2 DEF HInv

\* A step of t that leaves the history alone and is no decision.
Framed(t) ==
  /\ UNCHANGED <<setting, clock, base, log>>
  /\ held' = [held EXCEPT ![t] = held'[t]]
  /\ \A u \in Threads \ {t} : tx'[u] = tx[u] /\ at'[u] = at[u]
  /\ Pending(t)' => Pending(t) /\ at'[t].now = at[t].now /\ W(t)' = W(t)

\* It keeps the past.
LEMMA FramedPast ==
  ASSUME IInv, NEW t \in Threads, Framed(t)
  PROVE  Past
<1>1. \A a \in Addresses : \A k : Snapshot(k)'[a] = Snapshot(k)[a]
  BY SnapshotIs DEF Framed
<1>2. \A v : \A s : Writes(v, s)' = Writes(v, s)
  BY TypesStay DEF Framed, Writes
<1>3. ASSUME NEW u \in Threads, Pending(u)'
      PROVE  Pending(u) /\ at'[u].now = at[u].now /\ W(u)' = W(u)
  BY <1>3 DEF Framed, Pending, At, W
<1>4. \A s : \A k : Settled(s, k) => Settled(s, k)'
  BY <1>3 DEF Settled, Covers
<1>5. clock \in Nat
  BY DEF IInv, Global
<1>6. QED
  BY <1>1, <1>2, <1>4, <1>5 DEF Past, Framed

\* A step that reads nothing under a lock of its own.
LEMMA HeldSame ==
  ASSUME IInv, HInv, NEW t \in Threads, Framed(t), memory' = memory, held' = held,
         W(t)' = W(t), tx'[t].end = tx[t].end, Aborting(t) => Aborting(t)',
         Committed(t) => Committed(t)'
  PROVE  HInv'
<1>1. Past /\ setting' = setting /\ log' = log /\ Stripe' = Stripe /\ setting \in Settings
  BY FramedPast, TypesStay, Before DEF Framed
<1>2. HeldOf(t) /\ MergedOf(t) /\ held[t] \subseteq Byte
  BY DEF HInv
<1>3. HeldOf(t)'
  <2> SUFFICES ASSUME ~Aborting(t)', NEW r \in held[t]
               PROVE  \E i \in DOMAIN W(t)' : /\ W(t)'[i].lock = Stripe[r.addr]
                                              /\ FixedByte(r, Later(W(t)[i].version, tx[t].end))'
    BY <1>1 DEF HeldOf
  <2>1. PICK i \in DOMAIN W(t) :
          W(t)[i].lock = Stripe[r.addr] /\ FixedByte(r, Later(W(t)[i].version, tx[t].end))
    BY <1>2 DEF HeldOf
  <2>2. PICK m : m = Later(W(t)[i].version, tx[t].end)
    OBVIOUS
  <2>3. W(t)[i].version \in Nat /\ tx[t].end \in Nat /\ W(t)[i].version <= clock
        /\ tx[t].end <= clock /\ clock \in Nat
    BY Before, LocalsAre DEF EntryOf, TimesOf
  <2>4. m \in 0 .. clock /\ r \in Byte
    BY <1>2, <2>2, <2>3, LaterIs
  <2>5. FixedByte(r, m)'
    BY <1>1, <2>1, <2>2, <2>4, ByteStays
  <2>6. m = Later(W(t)[i].version, tx[t].end)'
    BY <2>2 DEF Later
  <2>7. FixedByte(r, Later(W(t)[i].version, tx[t].end))'
    BY <2>5, <2>6 DEF FixedByte
  <2>8. QED
    BY <2>1, <2>7
<1>4. MergedOf(t)'
  BY <1>2 DEF MergedOf, Merged
<1>5. QED
  BY <1>1, <1>2, <1>3, <1>4, HeldMove DEF Framed

\* A step after which t holds nothing.
LEMMA HeldNothing ==
  ASSUME IInv, HInv, NEW t \in Threads, Framed(t), memory' = memory, held'[t] = {},
         W(t)' = <<>>
  PROVE  HInv'
<1>1. Past /\ log' = log
  BY FramedPast DEF Framed
<1>2. HeldOf(t)' /\ MergedOf(t)'
  BY DEF HeldOf, MergedOf
<1>3. QED
  BY <1>1, <1>2, HeldMove DEF Framed

\* A step of a normal transaction that reads under a lock of its own, stores or extends its
\* range: all that it has read is the present memory, which stays.
LEMMA HeldFresh ==
  ASSUME IInv, HInv, NEW t \in Threads, Framed(t), UNCHANGED memory, ~Aborting(t), ~Committed(t),
         ~Pending(t), tx'[t].end \in Nat, tx'[t].end <= clock, held'[t] \subseteq Byte,
         \A r \in held'[t] : \/ r \in held[t]
                             \/ /\ r.value = memory[r.addr][r.byte]
                                /\ \E i \in DOMAIN W(t) : W(t)[i].lock = Stripe[r.addr],
         \A i \in DOMAIN W(t) : i \in DOMAIN W(t)' /\ W(t)'[i].lock = W(t)[i].lock
                                                 /\ W(t)'[i].version = W(t)[i].version,
         \A i \in DOMAIN W(t)' : Merged(W(t)'[i])
  PROVE  HInv'
<1>1. Past /\ setting' = setting /\ log' = log /\ Stripe' = Stripe /\ setting \in Settings
      /\ clock \in Nat /\ clock' = clock
  BY FramedPast, TypesStay, Before DEF Framed
<1>2. HeldOf(t)'
  <2> SUFFICES ASSUME NEW r \in held'[t]
               PROVE  \E i \in DOMAIN W(t)' : /\ W(t)'[i].lock = Stripe[r.addr]
                                              /\ FixedByte(r, Later(W(t)[i].version, tx[t].end))'
    BY <1>1 DEF HeldOf
  <2>1. PICK i \in DOMAIN W(t) :
          /\ W(t)[i].lock = Stripe[r.addr]
          /\ \A k \in Nat : W(t)[i].version <= k /\ k <= clock => FixedByte(r, k)
    <3>1. CASE r \in held[t]
      BY <3>1, HeldIs
    <3>2. CASE r \notin held[t]
      <4>1. PICK i \in DOMAIN W(t) : W(t)[i].lock = Stripe[r.addr]
        BY <3>2
      <4>2. r.addr \in Addresses /\ r.value = memory[r.addr][r.byte]
        BY <3>2 DEF Byte
      <4>3. memory[r.addr] = Snapshot(clock)[r.addr]
        BY <4>1, <4>2, OwnIs
      <4>4. ASSUME NEW k \in Nat, W(t)[i].version <= k, k <= clock PROVE FixedByte(r, k)
        <5>1. Settled(W(t)[i].lock, k) /\ Snapshot(k)[r.addr] = Snapshot(clock)[r.addr]
          BY <4>1, <4>2, <4>4, OwnIs
        <5>2. QED
          BY <4>1, <4>2, <4>3, <5>1 DEF FixedByte
      <4>5. QED
        BY <4>1, <4>4
    <3>3. QED
      BY <3>1, <3>2
  <2>2. PICK m : m = Later(W(t)[i].version, tx'[t].end)
    OBVIOUS
  <2>3. W(t)[i].version \in Nat /\ W(t)[i].version <= clock
    BY OwnIs
  <2>4. m \in Nat /\ W(t)[i].version <= m /\ m <= clock /\ r \in Byte
    BY <2>2, <2>3, LaterIs
  <2>5. FixedByte(r, m)'
    BY <1>1, <2>1, <2>4, ByteStays
  <2>6. m = Later(W(t)[i].version, tx[t].end)'
    BY <2>2 DEF Later
  <2>7. FixedByte(r, Later(W(t)[i].version, tx[t].end))'
    BY <2>5, <2>6 DEF FixedByte
  <2>8. QED
    BY <2>1, <2>7
<1>3. MergedOf(t)'
  BY DEF MergedOf, Merged
<1>4. QED
  BY <1>1, <1>2, <1>3, HeldMove DEF Framed

-----------------------------------------------------------------------------
(* Steps that keep what is held.                                           *)

\* A call with its locals, and a transaction whose write set stays.
Apart(t) ==
  /\ UNCHANGED <<setting, clock, memory, held, base, log>>
  /\ tx' = [tx EXCEPT ![t] = tx'[t]] /\ at' = [at EXCEPT ![t] = at'[t]]
  /\ tx'[t].w_set = W(t) /\ (tx'[t].end = tx[t].end \/ Idle(t))

\* It keeps what is held, if it neither decides nor goes back on a decision.
LEMMA HeldApart ==
  ASSUME IInv, HInv, NEW t \in Threads, Apart(t), Pending(t)' => Pending(t) /\ at'[t].now = at[t].now,
         Aborting(t) => Aborting(t)', Committed(t) => Committed(t)'
  PROVE  HInv'
<1>1. Framed(t) /\ W(t)' = W(t)
  BY Before DEF Framed, Apart, HInv, W
<1>2. CASE Idle(t)
  <2>1. held'[t] = {} /\ W(t)' = <<>>
    BY <1>1, <1>2, HeldIdle DEF Apart
  <2>2. QED
    BY <1>1, <2>1, HeldNothing DEF Apart
<1>3. CASE tx'[t].end = tx[t].end
  BY <1>1, <1>3, HeldSame DEF Apart
<1>4. QED
  BY <1>2, <1>3 DEF Apart

\* A thread whose transaction has not begun to access anything moves.
LEMMA HeldIdleMove ==
  ASSUME IInv, HInv, NEW t \in Threads, Idle(t), NEW d, d.w_set = <<>>, NEW c, c.pc # "validate",
         UNCHANGED <<setting, clock, memory, held, base, log>>,
         tx' = [tx EXCEPT ![t] = d], at' = [at EXCEPT ![t] = c]
  PROVE  HInv'
<1>1. W(t) = <<>> /\ ~Committed(t) /\ ~Aborting(t)
  BY IdleIs, HeldIdle
<1>2. tx'[t] = d /\ at'[t] = c
  BY Before
<1>3. Apart(t)
  BY <1>1, <1>2 DEF Apart
<1>4. ~Pending(t)'
  BY <1>2 DEF Pending, At
<1>5. QED
  BY <1>1, <1>3, <1>4, HeldApart

\* Threads that come and go, and transactions before their first access.
LEMMA HeldOutside ==
  ASSUME IInv, HInv, NEW t \in Threads,
         InitThread(t) \/ SpuriousWakeup(t) \/ Awake(t) \/ ReadClock(t)
  PROVE  HInv'
<1>1. Idle(t) /\ tx = [tx EXCEPT ![t] = tx[t]] /\ tx[t].w_set = <<>> /\ Reset.w_set = <<>>
      /\ tx[t] \in Descriptor
  <2>1. Idle(t)
    BY DEF Idle, InitThread, SpuriousWakeup, Awake, ReadClock, At
  <2>2. QED
    BY <2>1, Before, IdleIs, ResetIs
<1>2. UNCHANGED <<setting, clock, memory, held, base, log>>
  BY DEF InitThread, SpuriousWakeup, Awake, ReadClock, unmoved, history
<1>3. CASE InitThread(t)
  <2>1. tx' = [tx EXCEPT ![t] = Reset] /\ at' = [at EXCEPT ![t] = Ready] /\ Ready.pc # "validate"
    BY <1>3 DEF InitThread, Goto, Ready
  <2>2. QED
    BY <1>1, <1>2, <2>1, HeldIdleMove
<1>4. ASSUME NEW pc, pc # "validate", tx' = tx, at' = [at EXCEPT ![t] = [pc |-> pc]] PROVE HInv'
  <2>1. PICK c : c = [pc |-> pc]
    OBVIOUS
  <2>2. /\ tx' = [tx EXCEPT ![t] = tx[t]] /\ at' = [at EXCEPT ![t] = c]
        /\ c.pc # "validate"
    BY <1>1, <1>4, <2>1
  <2>3. QED
    BY <1>1, <1>2, <2>1, <2>2, HeldIdleMove
<1>5. CASE SpuriousWakeup(t) \/ Awake(t) \/ (ReadClock(t) /\ clock >= VERSION_MAX)
  BY <1>4, <1>5 DEF SpuriousWakeup, Awake, ReadClock, Goto
<1>6. CASE ReadClock(t) /\ ~(clock >= VERSION_MAX)
  <2>1. PICK d : d = [tx[t] EXCEPT !.start = clock, !.end = clock, !.can_extend = (tx[t].type = "NL"),
                                   !.reallocate = FALSE]
    OBVIOUS
  <2>2. d.w_set = <<>>
    BY <1>1, <2>1 DEF Descriptor
  <2>3. tx' = [tx EXCEPT ![t] = d] /\ at' = [at EXCEPT ![t] = Ready] /\ Ready.pc # "validate"
    BY <1>6, <2>1, Before DEF ReadClock, Goto, Ready
  <2>4. QED
    BY <1>1, <1>2, <2>2, <2>3, HeldIdleMove
<1>7. QED
  BY <1>3, <1>5, <1>6

\* A transaction begins.
LEMMA HeldStart ==
  ASSUME IInv, HInv, NEW t \in Threads, NEW type, NEW ro, Start(t, type, ro)
  PROVE  HInv'
<1>1. /\ tx[t].status # "ACTIVE" /\ UNCHANGED <<setting, clock, memory, held, base, log>>
      /\ tx' = [tx EXCEPT ![t].type = type, ![t].status = "ACTIVE", ![t].nesting = 1, ![t].ro = ro,
                          ![t].starts = @ + 1]
      /\ at' = [at EXCEPT ![t] = [pc |-> "start"]]
  BY DEF Start, Goto, unmoved, history
<1>2. Idle(t) /\ tx[t].w_set = <<>>
  BY <1>1, IdleIs DEF Idle
<1>3. PICK d : d = [tx[t] EXCEPT !.type = type, !.status = "ACTIVE", !.nesting = 1, !.ro = ro,
                                 !.starts = @ + 1]
  OBVIOUS
<1>4. d.w_set = <<>>
  BY <1>2, <1>3, Before DEF Descriptor
<1>5. PICK c : c = [pc |-> "start"]
  OBVIOUS
<1>6. tx' = [tx EXCEPT ![t] = d] /\ at' = [at EXCEPT ![t] = c] /\ c.pc # "validate"
  BY <1>1, <1>3, <1>5, Before
<1>7. QED
  BY <1>1, <1>2, <1>4, <1>5, <1>6, HeldIdleMove

\* A thread ends or sleeps, and the clock is not reset.
LEMMA HeldAway ==
  ASSUME IInv, HInv, NEW t \in Threads,
         \/ ExitThread(t) /\ ~(tx_overflow /\ tx_count' = 0)
         \/ Overflow(t) /\ tx_count # 1
  PROVE  HInv'
<1>1. CASE ExitThread(t) /\ ~(tx_overflow /\ tx_count' = 0)
  <2>1. PICK c : c = [pc |-> "out"]
    OBVIOUS
  <2>2. /\ tx[t].status # "ACTIVE" /\ UNCHANGED <<setting, clock, memory, held, base, log>>
        /\ tx' = [tx EXCEPT ![t] = Reset] /\ at' = [at EXCEPT ![t] = c] /\ c.pc # "validate"
    BY <1>1, <2>1 DEF ExitThread
  <2>3. Idle(t) /\ Reset.w_set = <<>>
    BY <2>2, Before, ResetIs DEF Idle
  <2>4. QED
    BY <2>1, <2>2, <2>3, HeldIdleMove
<1>2. CASE Overflow(t) /\ tx_count # 1
  <2>1. PICK c : c = [pc |-> "asleep"]
    OBVIOUS
  <2>2. /\ at[t].pc = "overflow" /\ UNCHANGED <<setting, clock, memory, held, base, log>>
        /\ tx' = tx /\ at' = [at EXCEPT ![t] = c] /\ c.pc # "validate"
    BY <1>2, <2>1 DEF Overflow, Goto, At
  <2>3. Idle(t) /\ tx[t].w_set = <<>> /\ tx' = [tx EXCEPT ![t] = tx[t]]
    BY <2>2, Before, IdleIs DEF Idle
  <2>4. QED
    BY <2>1, <2>2, <2>3, HeldIdleMove
<1>3. QED
  BY <1>1, <1>2

\* Steps inside a transaction that leave its descriptor alone.
LEMMA HeldInside ==
  ASSUME IInv, HInv, NEW t \in Threads,
         \/ Abort(t) \/ Validate(t) \/ LoadValue(t) \/ Extend(t) \/ VerLock(t) \/ VerValue(t)
  PROVE  HInv'
<1>1. /\ UNCHANGED <<setting, clock, memory, held, base, log, tx>>
      /\ ~Committed(t) /\ ~Aborting(t)
  BY DEF Abort, Validate, LoadValue, Extend, VerLock, VerValue, unmoved, history, At, Active,
         Committed, Aborting
<1>2. at' = [at EXCEPT ![t] = at'[t]] /\ (Pending(t)' => Pending(t) /\ at'[t].now = at[t].now)
  <2>1. CASE Validate(t)
    <3>1. at[t] \in Calls /\ at[t].pc = "validate" /\ at = [u \in Threads |-> at[u]]
      BY <2>1, Before DEF Validate, At
    <3>2. CASE Rollback(t)
      BY <3>1, <3>2 DEF Rollback, Goto, Pending, At
    <3>3. CASE at' = [at EXCEPT ![t] = [at[t] EXCEPT !.i = @ + 1]]
      <4>1. at'[t] = [at[t] EXCEPT !.i = @ + 1]
        BY <3>1, <3>3
      <4>2. at[t].for = "commit" => at'[t].now = at[t].now /\ at'[t].for = at[t].for
        BY <3>1, <4>1, CallIs
      <4>3. at[t].for # "commit" => at'[t].for = at[t].for
        BY <3>1, <4>1, CallIs
      <4>4. QED
        BY <3>1, <3>3, <4>1, <4>2, <4>3 DEF Pending, At
    <3>4. QED
      BY <2>1, <3>2, <3>3 DEF Validate, Goto
  <2>2. CASE Extend(t)
    BY <2>2, Before DEF Extend, Rollback, Goto, Pending, At
  <2>3. CASE Abort(t) \/ LoadValue(t)
    BY <2>3, Before DEF Abort, LoadValue, Rollback, Goto, Pending, At
  <2>4. CASE VerLock(t) \/ VerValue(t)
    <3>1. at[t] \in Calls /\ at[t].pc \in {"verLock", "verValue"} /\ at = [u \in Threads |-> at[u]]
      BY <2>4, Before DEF VerLock, VerValue, At
    <3>2. at[t] \in [pc : {"verLock", "verValue", "verCheck"}, addr : Addresses, i : 0 .. 2,
                     l : FreeLock, value : Val, x : Cell, ts : Nat]
      BY <3>1, CallIs
    <3>3. CASE VerLock(t)
      <4>1. at' = [at EXCEPT ![t] = [at[t] EXCEPT !.pc = "verValue", !.l = locks[Stripe[at[t].addr]]]]
        BY <3>3 DEF VerLock, Goto
      <4>2. at'[t].pc = "verValue"
        BY <3>1, <3>2, <4>1
      <4>3. QED
        BY <3>1, <4>1, <4>2 DEF Pending, At
    <3>4. CASE VerValue(t)
      <4>1. at' = [at EXCEPT ![t] = [at[t] EXCEPT !.pc = "verCheck", !.value = memory[at[t].addr]]]
        BY <3>4 DEF VerValue, Goto
      <4>2. at'[t].pc = "verCheck"
        BY <3>1, <3>2, <4>1
      <4>3. QED
        BY <3>1, <4>1, <4>2 DEF Pending, At
    <3>5. QED
      BY <2>4, <3>3, <3>4
  <2>5. QED
    BY <2>1, <2>2, <2>3, <2>4
<1>3. Apart(t)
  BY <1>1, <1>2, Before DEF Apart, W
<1>4. QED
  BY <1>1, <1>2, <1>3, HeldApart

\* A step of a call that is no decision, with a new descriptor and new locals.
LEMMA HeldTxMove ==
  ASSUME IInv, HInv, NEW t \in Threads, ~Committed(t), ~Aborting(t),
         NEW d, d.w_set = W(t), d.end = tx[t].end, NEW c, c.pc # "validate",
         UNCHANGED <<setting, clock, memory, held, base, log>>,
         tx' = [tx EXCEPT ![t] = d], at' = [at EXCEPT ![t] = c]
  PROVE  HInv'
<1>1. tx'[t] = d /\ at'[t] = c
  BY Before
<1>2. Apart(t)
  BY <1>1 DEF Apart
<1>3. ~Pending(t)'
  BY <1>1 DEF Pending, At
<1>4. QED
  BY <1>2, <1>3, HeldApart

\* Where t is, its locals apart.
LEMMA WhereIs ==
  ASSUME IInv, NEW t \in Threads
  PROVE  /\ at[t].pc \notin {"rollback", "writeBack", "release"} => ~Committed(t) /\ ~Aborting(t)
         /\ at[t].pc # "validate" => ~Pending(t)
         /\ at = [at EXCEPT ![t] = at[t]] /\ tx = [tx EXCEPT ![t] = tx[t]]
         /\ tx[t].w_set = W(t)
  BY Before DEF Committed, Aborting, Pending, At, W

\* A nested start.
LEMMA HeldNest ==
  ASSUME IInv, HInv, Flat, NEW t \in Threads, NEW type \in Client(t).nested, Nest(t, type)
  PROVE  HInv'
<1>1. /\ UNCHANGED <<setting, clock, memory, held, base, log, at>> /\ at[t].pc = "ready"
  BY ActiveIs DEF Nest, unmoved, history
<1>2. type = "NL"
  BY Before, ClientIs DEF Flat, Client
<1>3. PICK n \in Nat : n = tx[t].nesting + 1
  BY Before DEF Descriptor
<1>4. PICK d : d = [tx[t] EXCEPT !.type = "NL", !.nesting = n, !.lastraddr = tx[t].lastraddr,
                                 !.marker = tx[t].marker]
  OBVIOUS
<1>5. tx' = [tx EXCEPT ![t].type = "NL", ![t].nesting = n,
                       ![t].lastraddr = tx[t].lastraddr, ![t].marker = tx[t].marker]
  BY <1>2, <1>3 DEF Nest
<1>6. tx' = [tx EXCEPT ![t] = d]
  BY <1>4, <1>5, Before
<1>7. d.w_set = W(t) /\ d.end = tx[t].end
  BY <1>4, Before DEF Descriptor, W
<1>8. QED
  BY <1>1, <1>6, <1>7, WhereIs, HeldTxMove

\* An elastic load begins.
LEMMA HeldElasticLoad ==
  ASSUME IInv, HInv, NEW t \in Threads, NEW a \in Addresses, ElasticLoad(t, a)
  PROVE  HInv'
<1>1. /\ UNCHANGED <<setting, clock, memory, held, base, log>> /\ at[t].pc = "ready"
  BY ActiveIs DEF ElasticLoad, unmoved, history
<1>2. PICK c : c = [pc |-> "verLock", addr |-> a, i |-> 0, l |-> Free(0), value |-> Zero,
                    x |-> None, ts |-> 0]
  OBVIOUS
<1>3. PICK d : d = [tx[t] EXCEPT !.accesses = @ + 1]
  OBVIOUS
<1>4. tx' = [tx EXCEPT ![t] = d] /\ at' = [at EXCEPT ![t] = c] /\ c.pc # "validate"
  BY <1>2, <1>3, Before DEF ElasticLoad, Accessed, Goto
<1>5. d.w_set = W(t) /\ d.end = tx[t].end
  BY <1>3, Before DEF Descriptor, W
<1>6. QED
  BY <1>1, <1>4, <1>5, WhereIs, HeldTxMove

\* The first store of an elastic transaction looks at its window.
LEMMA HeldStoreWindow ==
  ASSUME IInv, HInv, NEW t \in Threads, StoreWindow(t)
  PROVE  HInv'
<1>1. /\ UNCHANGED <<setting, clock, memory, held, base, log>> /\ at[t].pc = "window"
  BY DEF StoreWindow, unmoved, history, At
<1>2. PICK c : c.pc # "validate" /\ at' = [at EXCEPT ![t] = c]
  <2>1. at' = [at EXCEPT ![t] = Ready] \/ at' = [at EXCEPT ![t] = [pc |-> "rollback", i |-> 1]]
    BY DEF StoreWindow, Rollback, Goto
  <2>2. QED
    BY <2>1 DEF Ready
<1>3. PICK d : tx' = [tx EXCEPT ![t] = d] /\ d.w_set = W(t) /\ d.end = tx[t].end
  <2>1. tx' = tx \/ tx' = [tx EXCEPT ![t].lastraddr = NoWindow]
    BY DEF StoreWindow
  <2>2. PICK e : e = [tx[t] EXCEPT !.lastraddr = NoWindow]
    OBVIOUS
  <2>3. e.w_set = W(t) /\ e.end = tx[t].end
    BY <2>2, Before DEF Descriptor, W
  <2>4. tx' = [tx EXCEPT ![t] = e] \/ tx' = [tx EXCEPT ![t] = tx[t]]
    BY <2>1, <2>2, Before
  <2>5. QED
    BY <2>3, <2>4, WhereIs
<1>4. QED
  BY <1>1, <1>2, <1>3, WhereIs, HeldTxMove

\* An elastic load goes on.
LEMMA HeldVerCheck ==
  ASSUME IInv, HInv, NEW t \in Threads, VerCheck(t)
  PROVE  HInv'
<1>1. /\ UNCHANGED <<setting, clock, memory, held, base, log>> /\ at[t].pc = "verCheck"
  BY DEF VerCheck, unmoved, history, At
<1>2. at[t] \in [pc : {"verLock", "verValue", "verCheck"}, addr : Addresses, i : 0 .. 2,
                 l : FreeLock, value : Val, x : Cell, ts : Nat]
  BY <1>1, Before, CallIs
<1>3. ASSUME NEW c, c.pc # "validate", at' = [at EXCEPT ![t] = c], tx' = tx PROVE HInv'
  BY <1>1, <1>3, WhereIs, HeldTxMove
<1>4. ASSUME NEW x, NEW ts, ElasticLoaded(t, x, ts) PROVE HInv'
  <2>1. PICK d : d = [tx[t] EXCEPT !.start = ts, !.lastraddr[tx[t].marker] = x,
                                   !.marker = (@ % ELASTICITY) + 1]
    OBVIOUS
  <2>2. tx' = [tx EXCEPT ![t] = d] /\ at' = [at EXCEPT ![t] = Ready] /\ Ready.pc # "validate"
    BY <1>4, <2>1, Before DEF ElasticLoaded, Goto, Ready
  <2>3. d.w_set = W(t) /\ d.end = tx[t].end
    BY <2>1, Before DEF Descriptor, W
  <2>4. QED
    BY <1>1, <2>2, <2>3, WhereIs, HeldTxMove
<1>5. ASSUME NEW x, NEW ts, NEW i, CheckWindow(t, x, ts, i) PROVE HInv'
  <2>1. CASE ElasticLoaded(t, x, ts)
    BY <1>4, <2>1
  <2>2. CASE ~ElasticLoaded(t, x, ts)
    <3>1. PICK j : /\ at' = [at EXCEPT ![t] = [pc |-> "verLock", addr |-> tx[t].lastraddr[j].addr,
                                     i |-> j, l |-> Free(0), value |-> Zero, x |-> x, ts |-> ts]]
                   /\ tx' = tx
      BY <1>5, <2>2 DEF CheckWindow, Goto
    <3>2. PICK c : c = [pc |-> "verLock", addr |-> tx[t].lastraddr[j].addr,
                        i |-> j, l |-> Free(0), value |-> Zero, x |-> x, ts |-> ts]
      OBVIOUS
    <3>3. c.pc # "validate" /\ at' = [at EXCEPT ![t] = c]
      BY <3>1, <3>2
    <3>4. QED
      BY <1>3, <3>1, <3>3
  <2>3. QED
    BY <2>1, <2>2
<1>6. CASE Rollback(t) /\ tx' = tx
  <2>1. PICK c : c = [pc |-> "rollback", i |-> 1]
    OBVIOUS
  <2>2. c.pc # "validate" /\ at' = [at EXCEPT ![t] = c]
    BY <1>6, <2>1 DEF Rollback, Goto
  <2>3. QED
    BY <1>3, <1>6, <2>2
<1>8. PICK l, x : l = locks[Stripe[at[t].addr]] /\ x = [addr |-> at[t].addr, value |-> at[t].value]
  OBVIOUS
<1>9. CASE l # at[t].l
  <2>1. PICK c : c = IF IsOwned(l) THEN [at[t] EXCEPT !.pc = "verLock"]
                     ELSE [at[t] EXCEPT !.pc = "verValue", !.l = l]
    OBVIOUS
  <2>2. c.pc # "validate"
    BY <1>2, <2>1
  <2>3. tx' = tx /\ at' = [at EXCEPT ![t] = c]
    BY <1>8, <1>9, <2>1 DEF VerCheck, Goto
  <2>4. QED
    BY <1>3, <2>2, <2>3
<1>10. CASE l = at[t].l
  <2>1. \/ CheckWindow(t, x, l.version, 0) \/ ElasticLoaded(t, x, tx[t].start)
        \/ (Rollback(t) /\ tx' = tx) \/ CheckWindow(t, at[t].x, at[t].ts, at[t].i)
    BY <1>8, <1>10 DEF VerCheck
  <2>2. QED
    BY <1>4, <1>5, <1>6, <2>1
<1>11. QED
  BY <1>9, <1>10

\* A lock is loaded for a normal load.
LEMMA HeldLoadLocked ==
  ASSUME IInv, HInv, NEW t \in Threads, ~Committed(t), ~Aborting(t), ~Pending(t),
         NEW d, d.w_set = W(t), d.end = tx[t].end, tx' = [tx EXCEPT ![t] = d],
         UNCHANGED <<setting, clock, memory, base, log>>,
         NEW a \in Addresses, NEW l, l = locks[Stripe[a]] \/ l \in FreeLock, LoadLocked(t, a, l)
  PROVE  HInv'
<1>1. PICK c : c.pc # "validate" /\ at' = [at EXCEPT ![t] = c]
  <2>1. \/ at' = [at EXCEPT ![t] = [pc |-> "value", addr |-> a, l |-> l]]
        \/ at' = [at EXCEPT ![t] = Ready]
        \/ at' = [at EXCEPT ![t] = [pc |-> "rollback", i |-> 1]]
    BY DEF LoadLocked, Rollback, Goto
  <2>2. QED
    BY <2>1 DEF Ready
<1>2. CASE l.owner # t
  <2>1. held' = held
    BY <1>2 DEF LoadLocked
  <2>2. QED
    BY <1>1, <2>1, HeldTxMove
<1>3. CASE l.owner = t
  <2>1. IsOwned(l) /\ l = locks[Stripe[a]]
    BY <1>3, EstmAssumption DEF IsOwned, FreeLock
  <2>2. PICK s \in Stripes : s = Stripe[a]
    BY Before, SettingIs
  <2>3. \E i \in DOMAIN W(t) : W(t)[i].lock = s
    BY <1>3, <2>1, <2>2 DEF IInv, LockOf
  <2>4. held' = [held EXCEPT ![t] = held[t] \cup HeldBytes(t, a)]
    BY <1>3 DEF LoadLocked
  <2>5. held'[t] = held[t] \cup HeldBytes(t, a) /\ held[t] \subseteq Byte
    BY <2>4 DEF HInv
  <2>6. \A r \in HeldBytes(t, a) : r \in Byte /\ r.addr = a /\ r.value = memory[a][r.byte]
    BY HeldBytesIs
  <2>7. /\ tx'[t] = d /\ at'[t] = c /\ W(t)' = W(t)
        /\ \A u \in Threads \ {t} : tx'[u] = tx[u] /\ at'[u] = at[u]
    BY <1>1, Before DEF W
  <2>8. Framed(t)
    BY <1>1, <2>4, <2>5, <2>7 DEF Framed, Pending, At
  <2>10. \A i \in DOMAIN W(t)' : Merged(W(t)'[i])
    BY <2>7 DEF HInv, MergedOf
  <2>11. tx'[t].end \in Nat /\ tx'[t].end <= clock
    BY <2>7, Before, LocalsAre DEF TimesOf
  <2>12. \A r \in held'[t] : \/ r \in held[t]
                            \/ /\ r.value = memory[r.addr][r.byte]
                               /\ \E i \in DOMAIN W(t) : W(t)[i].lock = Stripe[r.addr]
    BY <2>2, <2>3, <2>5, <2>6
  <2>13. held'[t] \subseteq Byte
    BY <2>5, <2>6
  <2>14. QED
    BY <2>7, <2>8, <2>10, <2>11, <2>12, <2>13, HeldFresh
<1>4. QED
  BY <1>2, <1>3

\* A normal load begins.
LEMMA HeldNormalLoad ==
  ASSUME IInv, HInv, NEW t \in Threads, NEW a \in Addresses, NormalLoad(t, a)
  PROVE  HInv'
<1>1. /\ UNCHANGED <<setting, clock, memory, base, log>> /\ at[t].pc = "ready"
      /\ LoadLocked(t, a, locks[Stripe[a]]) /\ tx' = Accessed(t)
  BY ActiveIs DEF NormalLoad, unmoved
<1>2. PICK d : d = [tx[t] EXCEPT !.accesses = @ + 1]
  OBVIOUS
<1>3. tx' = [tx EXCEPT ![t] = d]
  BY <1>1, <1>2, Before DEF Accessed
<1>4. d.w_set = W(t) /\ d.end = tx[t].end
  BY <1>2, Before DEF Descriptor, W
<1>5. QED
  BY <1>1, <1>3, <1>4, WhereIs, HeldLoadLocked

\* A value that is good goes to the read set.
LEMMA HeldLoaded ==
  ASSUME IInv, HInv, NEW t \in Threads, ~Committed(t), ~Aborting(t), NEW version,
         UNCHANGED <<setting, clock, memory, base, log>>, Loaded(t, version)
  PROVE  HInv'
<1>1. PICK e : e = [version |-> version, lock |-> Stripe[at[t].addr]]
  OBVIOUS
<1>2. PICK d : d = [tx[t] EXCEPT !.r_set = Append(@, e)]
  OBVIOUS
<1>3. tx' = [tx EXCEPT ![t] = d] \/ tx' = [tx EXCEPT ![t] = tx[t]]
  <2>1. tx' = IF tx[t].ro THEN tx ELSE [tx EXCEPT ![t].r_set = Append(@, e)]
    BY <1>1 DEF Loaded
  <2>2. QED
    BY <1>2, <2>1, WhereIs
<1>4. d.w_set = W(t) /\ d.end = tx[t].end
  BY <1>2, Before DEF Descriptor, W
<1>5. at' = [at EXCEPT ![t] = Ready] /\ Ready.pc # "validate" /\ held' = held
  BY DEF Loaded, Goto, Ready
<1>6. QED
  BY <1>3, <1>4, <1>5, WhereIs, HeldTxMove

\* The lock is loaded again, after the value.
LEMMA HeldLoadCheck ==
  ASSUME IInv, HInv, NEW t \in Threads, LoadCheck(t)
  PROVE  HInv'
<1>1. UNCHANGED <<setting, clock, memory, base, log>> /\ at[t].pc = "check"
  BY DEF LoadCheck, unmoved, At
<1>2. /\ at[t] \in [pc : {"check", "extend", "recheck"}, addr : Addresses, l : FreeLock, value : Val]
      /\ at[t].addr \in Addresses
  BY <1>1, Before, CallIs
<1>3. CASE LoadLocked(t, at[t].addr, locks[Stripe[at[t].addr]]) /\ tx' = tx
  BY <1>1, <1>2, <1>3, WhereIs, HeldLoadLocked
<1>4. CASE Loaded(t, at[t].l.version)
  BY <1>1, <1>4, WhereIs, HeldLoaded
<1>5. ASSUME NEW c, c.pc # "validate", at' = [at EXCEPT ![t] = c], tx' = tx, held' = held
      PROVE  HInv'
  BY <1>1, <1>5, WhereIs, HeldTxMove
<1>6. CASE Rollback(t) /\ tx' = tx /\ held' = held
  <2>1. PICK c : c = [pc |-> "rollback", i |-> 1]
    OBVIOUS
  <2>2. c.pc # "validate" /\ at' = [at EXCEPT ![t] = c]
    BY <1>6, <2>1 DEF Rollback, Goto
  <2>3. QED
    BY <1>5, <1>6, <2>2
<1>7. CASE at' = [at EXCEPT ![t] = [at[t] EXCEPT !.pc = "extend"]] /\ tx' = tx /\ held' = held
  <2>1. PICK c : c = [at[t] EXCEPT !.pc = "extend"]
    OBVIOUS
  <2>2. c.pc # "validate" /\ at' = [at EXCEPT ![t] = c]
    BY <1>2, <1>7, <2>1
  <2>3. QED
    BY <1>5, <1>7, <2>2
<1>8. QED
  BY <1>3, <1>4, <1>6, <1>7 DEF LoadCheck, Goto

\* The lock is loaded again, after the range was extended.
LEMMA HeldLoadRecheck ==
  ASSUME IInv, HInv, NEW t \in Threads, LoadRecheck(t)
  PROVE  HInv'
<1>1. UNCHANGED <<setting, clock, memory, base, log>> /\ at[t].pc = "recheck"
  BY DEF LoadRecheck, unmoved, At
<1>2. at[t].addr \in Addresses /\ at[t].l \in FreeLock
  BY <1>1, Before, CallIs
<1>3. CASE LoadLocked(t, at[t].addr, at[t].l) /\ tx' = tx
  BY <1>1, <1>2, <1>3, WhereIs, HeldLoadLocked
<1>4. CASE Loaded(t, locks[Stripe[at[t].addr]].version)
  BY <1>1, <1>4, WhereIs, HeldLoaded
<1>5. QED
  BY <1>3, <1>4 DEF LoadRecheck

\* The range is extended: what is held was read under locks that are still held.
LEMMA HeldExtended ==
  ASSUME IInv, HInv, NEW t \in Threads, Extended(t)
  PROVE  HInv'
<1>1. /\ UNCHANGED <<setting, clock, memory, held, base, log>>
      /\ at[t].pc = "validate" /\ at[t].for = "load"
  BY DEF Extended, Validated, unmoved, history, At
<1>2. at[t].now \in Nat /\ at[t].now <= clock /\ ~Pending(t) /\ ~Committed(t) /\ ~Aborting(t)
  BY <1>1, Before, LocalsAre DEF TimesOf, Pending, Committed, Aborting, At
<1>3. PICK c : c = [pc |-> "recheck", addr |-> at[t].addr, l |-> at[t].l, value |-> at[t].value]
  OBVIOUS
<1>4. at' = [at EXCEPT ![t] = c] /\ c.pc = "recheck" /\ tx' = [tx EXCEPT ![t].end = at[t].now]
  BY <1>3 DEF Extended, Goto
<1>5. PICK d : d = [tx[t] EXCEPT !.end = at[t].now]
  OBVIOUS
<1>6. d.w_set = W(t) /\ d.end = at[t].now /\ tx' = [tx EXCEPT ![t] = d]
  BY <1>4, <1>5, Before DEF Descriptor, W
<1>7. /\ tx'[t] = d /\ at'[t] = c /\ W(t)' = W(t)
      /\ \A u \in Threads \ {t} : tx'[u] = tx[u] /\ at'[u] = at[u]
  BY <1>4, <1>6, Before DEF W
<1>8. Framed(t)
  BY <1>1, <1>4, <1>7 DEF Framed, HInv, Pending, At
<1>9. held'[t] = held[t] /\ held[t] \subseteq Byte /\ \A i \in DOMAIN W(t)' : Merged(W(t)'[i])
  BY <1>1, <1>2, <1>7 DEF HInv, MergedOf
<1>10. QED
  BY <1>1, <1>2, <1>6, <1>7, <1>8, <1>9, HeldFresh

\* A transaction ends and holds nothing any more.
LEMMA HeldEnded ==
  ASSUME IInv, HInv, NEW t \in Threads, UNCHANGED <<setting, clock, memory, base, log>>,
         tx' = [tx EXCEPT ![t] = Ended(t)], held' = [held EXCEPT ![t] = {}],
         at[t].pc # "validate", at' = at \/ at' = [at EXCEPT ![t] = Ready]
  PROVE  HInv'
<1>1. /\ W(t)' = <<>> /\ held'[t] = {} /\ \A u \in Threads \ {t} : tx'[u] = tx[u]
  BY Before, ResetIs DEF W, HInv
<1>2. at'[t].pc # "validate" /\ \A u \in Threads \ {t} : at'[u] = at[u]
  BY Before DEF Ready
<1>3. Framed(t)
  BY <1>1, <1>2 DEF Framed, Pending, At
<1>4. QED
  BY <1>1, <1>3, HeldNothing

\* The first part of stm_commit.
LEMMA HeldCommit ==
  ASSUME IInv, HInv, NEW t \in Threads, Commit(t)
  PROVE  HInv'
<1>1. UNCHANGED <<setting, clock, memory, base, log>> /\ at[t].pc = "ready"
  BY ActiveIs DEF Commit, unmoved
<1>2. CASE tx[t].nesting > 1
  <2>1. PICK d : d = [tx[t] EXCEPT !.nesting = @ - 1]
    OBVIOUS
  <2>2. tx' = [tx EXCEPT ![t] = d] /\ at' = at /\ held' = held
    BY <1>2, <2>1, Before DEF Commit
  <2>3. d.w_set = W(t) /\ d.end = tx[t].end
    BY <2>1, Before DEF Descriptor, W
  <2>4. QED
    BY <1>1, <2>2, <2>3, WhereIs, HeldTxMove
<1>3. CASE ~(tx[t].nesting > 1) /\ (tx[t].type = "EL" \/ tx[t].w_set = <<>>)
  <2>1. tx' = [tx EXCEPT ![t] = Ended(t)] /\ held' = [held EXCEPT ![t] = {}] /\ at' = at
    BY <1>3 DEF Commit
  <2>2. QED
    BY <1>1, <2>1, HeldEnded
<1>4. CASE ~(tx[t].nesting > 1) /\ ~(tx[t].type = "EL" \/ tx[t].w_set = <<>>)
  <2>1. PICK c : c = [pc |-> "timestamp"]
    BY Zenon
  <2>2. at' = [at EXCEPT ![t] = c] /\ c.pc # "validate" /\ tx' = tx /\ held' = held
    BY <1>4, <2>1 DEF Commit, Goto
  <2>3. QED
    BY <1>1, <2>2, WhereIs, HeldTxMove
<1>5. QED
  BY <1>2, <1>3, <1>4

\* A step of a transaction that ends, whose write set stays.
LEMMA HeldEnding ==
  ASSUME IInv, HInv, NEW t \in Threads, NEW c, c.pc # "validate",
         Aborting(t) => c.pc = "rollback", Committed(t) => c.pc \in {"writeBack", "release"},
         UNCHANGED <<setting, clock, memory, held, tx, base, log>>, at' = [at EXCEPT ![t] = c]
  PROVE  HInv'
<1>1. at'[t] = c
  BY Before
<1>2. Apart(t)
  BY <1>1, Before DEF Apart, W
<1>3. ~Pending(t)' /\ (Aborting(t) => Aborting(t)') /\ (Committed(t) => Committed(t)')
  BY <1>1 DEF Pending, Aborting, Committed, At
<1>4. QED
  BY <1>2, <1>3, HeldApart

\* stm_rollback drops the locks, one after the other.
LEMMA HeldRollbackStep ==
  ASSUME IInv, HInv, NEW t \in Threads, RollbackStep(t)
  PROVE  HInv'
<1>1. /\ UNCHANGED <<setting, clock, memory, base, log>> /\ at[t].pc = "rollback" /\ ~Committed(t)
      /\ at[t].pc # "validate"
  BY DEF RollbackStep, unmoved, At, Committed
<1>2. CASE at[t].i < Len(tx[t].w_set)
  <2>1. at[t] \in [pc : {"rollback"}, i : Pos]
    BY <1>1, Before, CallIs
  <2>2. PICK c : c = [at[t] EXCEPT !.i = at[t].i + 1]
    OBVIOUS
  <2>3. c.pc = "rollback"
    BY <2>1, <2>2
  <2>4. at' = [at EXCEPT ![t] = c] /\ tx' = tx /\ held' = held
    BY <1>2, <2>2 DEF RollbackStep, Goto
  <2>5. QED
    BY <1>1, <2>3, <2>4, HeldEnding
<1>3. CASE ~(at[t].i < Len(tx[t].w_set))
  <2>1. /\ tx' = [tx EXCEPT ![t] = Ended(t)] /\ held' = [held EXCEPT ![t] = {}]
        /\ at' = [at EXCEPT ![t] = Ready]
    BY <1>3 DEF RollbackStep, Goto
  <2>2. QED
    BY <1>1, <2>1, HeldEnded
<1>4. QED
  BY <1>2, <1>3

\* The locks are released at the timestamp of the commit.
LEMMA HeldRelease ==
  ASSUME IInv, HInv, NEW t \in Threads, Release(t)
  PROVE  HInv'
<1>1. /\ UNCHANGED <<setting, clock, memory, base, log>> /\ at[t].pc = "release" /\ ~Aborting(t)
      /\ at[t].pc # "validate"
  BY DEF Release, unmoved, At, Aborting
<1>2. CASE at[t].i < Len(tx[t].w_set)
  <2>1. at[t] \in [pc : {"writeBack", "release"}, i : Pos, v : Nat]
    BY <1>1, Before, CallIs
  <2>2. PICK c : c = [at[t] EXCEPT !.pc = "writeBack", !.i = @ + 1]
    OBVIOUS
  <2>3. c.pc = "writeBack"
    BY <2>1, <2>2
  <2>4. at' = [at EXCEPT ![t] = c] /\ tx' = tx /\ held' = held
    BY <1>2, <2>2 DEF Release, Goto
  <2>5. QED
    BY <1>1, <2>3, <2>4, HeldEnding
<1>3. CASE ~(at[t].i < Len(tx[t].w_set))
  <2>1. /\ tx' = [tx EXCEPT ![t] = Ended(t)] /\ held' = [held EXCEPT ![t] = {}]
        /\ at' = [at EXCEPT ![t] = Ready]
    BY <1>3 DEF Release, Goto
  <2>2. QED
    BY <1>1, <2>1, HeldEnded
<1>4. QED
  BY <1>2, <1>3

\* A value goes to the memory: those who still read have other locks.
LEMMA HeldWriteBack ==
  ASSUME IInv, HInv, NEW t \in Threads, WriteBack(t)
  PROVE  HInv'
<1>1. /\ UNCHANGED <<setting, clock, tx, held, base, log>> /\ at[t].pc = "writeBack"
      /\ at' = [at EXCEPT ![t] = [at[t] EXCEPT !.pc = "release"]]
  BY DEF WriteBack, Goto, unmoved, history, At
<1>2. at[t] \in [pc : {"writeBack", "release"}, i : Pos, v : Nat]
  BY <1>1, Before, CallIs
<1>3. at'[t] = [at[t] EXCEPT !.pc = "release"] /\ at'[t].pc = "release"
      /\ \A u \in Threads \ {t} : at'[u] = at[u]
  BY <1>1, <1>2, Before
<1>4. /\ Committed(t) /\ Committed(t)' /\ ~Aborting(t) /\ ~Aborting(t)' /\ ~Pending(t)'
      /\ at[t].i \in DOMAIN W(t)
  BY <1>1, <1>3, Before DEF Committed, Aborting, Pending, At, TimesOf
<1>5. Framed(t)
  BY <1>1, <1>3, <1>4 DEF Framed, HInv
<1>6. Past /\ Stripe' = Stripe /\ setting \in Settings /\ W(t)' = W(t)
  BY <1>1, <1>5, FramedPast, TypesStay, Before DEF W
<1>7. PICK i : i = at[t].i /\ i \in DOMAIN W(t)
  BY <1>4
<1>8. locks[W(t)[i].lock].owner = t /\ W(t)[i].lock = Stripe[W(t)[i].addr]
  <2>1. From(t) = i /\ EntryOf(t, i) /\ i \in Pos
    BY <1>1, <1>7, Before, LocalsAre DEF From
  <2>2. QED
    BY <2>1 DEF EntryOf, Pos
<1>9. \A a \in Addresses : a # W(t)[i].addr => memory'[a] = memory[a]
  BY <1>7, Before DEF WriteBack, W, Global
<1>10. ASSUME NEW u \in Threads \ {t}, ~Aborting(u), ~Committed(u), NEW j \in DOMAIN W(u)
       PROVE  memory'[W(u)[j].addr] = memory[W(u)[j].addr]
  <2>1. locks[W(u)[j].lock].owner = u /\ W(u)[j].lock = Stripe[W(u)[j].addr]
        /\ W(u)[j].addr \in Addresses
    BY <1>10, OwnIs, Before, LocalsAre DEF EntryOf, WriteEntry
  <2>2. QED
    BY <1>8, <1>9, <1>10, <2>1
<1>11. HeldOf(t)'
  <2> SUFFICES ASSUME NEW r \in held[t]
               PROVE  \E j \in DOMAIN W(t) : /\ W(t)[j].lock = Stripe[r.addr]
                                             /\ FixedByte(r, Later(W(t)[j].version, tx[t].end))'
    BY <1>1, <1>6 DEF HeldOf
  <2>1. PICK j \in DOMAIN W(t) :
          W(t)[j].lock = Stripe[r.addr] /\ FixedByte(r, Later(W(t)[j].version, tx[t].end))
    BY <1>4 DEF HInv, HeldOf
  <2>2. PICK m : m = Later(W(t)[j].version, tx[t].end)
    OBVIOUS
  <2>3. W(t)[j].version \in Nat /\ tx[t].end \in Nat /\ W(t)[j].version <= clock
        /\ tx[t].end <= clock /\ clock \in Nat
    BY Before, LocalsAre DEF EntryOf, TimesOf
  <2>4. m \in 0 .. clock /\ r \in Byte
    BY <2>2, <2>3, LaterIs DEF HInv
  <2>5. FixedByte(r, m)'
    BY <1>6, <2>1, <2>2, <2>4, ByteStays
  <2>6. m = Later(W(t)[j].version, tx[t].end)'
    BY <1>1, <1>6, <2>2 DEF Later
  <2>7. FixedByte(r, Later(W(t)[j].version, tx[t].end))'
    BY <2>5, <2>6 DEF FixedByte
  <2>8. QED
    BY <2>1, <2>7
<1>12. MergedOf(t)'
  BY <1>4 DEF MergedOf
<1>13. QED
  BY <1>1, <1>3, <1>5, <1>6, <1>10, <1>11, <1>12, HeldMove DEF HInv, Framed

\* A store that leaves the versions and locks of the entries as they are.
LEMMA HeldStored ==
  ASSUME IInv, HInv, NEW t \in Threads, NEW d, Stores(t, d), held' = held,
         at' = [at EXCEPT ![t] = at'[t]], at'[t].pc # "validate",
         tx' = [tx EXCEPT ![t] = tx'[t]], tx'[t].end = tx[t].end,
         \A i \in DOMAIN W(t) : i \in DOMAIN W(t)' /\ W(t)'[i].lock = W(t)[i].lock
                                                 /\ W(t)'[i].version = W(t)[i].version,
         \A i \in DOMAIN W(t)' : Merged(W(t)'[i])
  PROVE  HInv'
<1>1. /\ UNCHANGED <<setting, clock, memory, base, log>>
      /\ at[t].pc \in {"ready", "write", "cas"} /\ ~Committed(t) /\ ~Aborting(t) /\ ~Pending(t)
  BY WhereIs DEF Stores
<1>2. \A u \in Threads \ {t} : tx'[u] = tx[u] /\ at'[u] = at[u]
  BY Before
<1>3. Framed(t)
  BY <1>1, <1>2 DEF Framed, HInv, Pending, At
<1>4. held'[t] = held[t] /\ held[t] \subseteq Byte
  BY DEF HInv
<1>5. tx'[t].end \in Nat /\ tx'[t].end <= clock
  BY Before, LocalsAre DEF TimesOf
<1>6. QED
  BY <1>1, <1>2, <1>3, <1>4, <1>5, HeldFresh

\* A store that writes nothing.
LEMMA HeldCalm ==
  ASSUME IInv, HInv, NEW t \in Threads, NEW d, Stores(t, d), held' = held,
         NEW c, c.pc # "validate", at' = [at EXCEPT ![t] = c],
         NEW f, f.w_set = W(t), f.end = tx[t].end, tx' = [tx EXCEPT ![t] = f]
  PROVE  HInv'
<1>1. UNCHANGED <<setting, clock, memory, base, log>> /\ ~Committed(t) /\ ~Aborting(t)
  BY WhereIs DEF Stores
<1>2. QED
  BY <1>1, HeldTxMove

\* A store that is rolled back, also when the write set is full.
LEMMA HeldReallocate ==
  ASSUME IInv, HInv, NEW t \in Threads, NEW d, Stores(t, d), held' = held,
         \/ Reallocate(t, [tx EXCEPT ![t] = d])
         \/ Rollback(t) /\ tx' = [tx EXCEPT ![t] = d]
  PROVE  HInv'
<1>1. PICK c : c = [pc |-> "rollback", i |-> 1]
  BY Zenon
<1>2. at' = [at EXCEPT ![t] = c] /\ c.pc # "validate"
  BY <1>1 DEF Reallocate, Rollback, Goto
<1>3. d \in Descriptor /\ d.w_set = W(t) /\ d.end = tx[t].end
  BY DEF Stores
<1>4. CASE tx' = [tx EXCEPT ![t] = d]
  BY <1>2, <1>3, <1>4, HeldCalm
<1>5. CASE Reallocate(t, [tx EXCEPT ![t] = d])
  <2>1. PICK f : f = [d EXCEPT !.size = @ * 2, !.reallocate = TRUE]
    BY Zenon
  <2>2. tx' = [tx EXCEPT ![t] = f]
    BY <1>5, <2>1, Before DEF Reallocate
  <2>3. f.w_set = W(t) /\ f.end = tx[t].end
    BY <1>3, <2>1 DEF Descriptor
  <2>4. QED
    BY <1>2, <2>2, <2>3, HeldCalm
<1>6. QED
  BY <1>4, <1>5

\* A new entry takes the bytes that are not stored from the memory.
LEMMA EntryMerged ==
  ASSUME NEW c, NEW version
  PROVE  Merged(Entry(c, version))
<1>1. PICK e : e = Entry(c, version)
  BY Zenon
<1>2. e.mask = c.mask /\ e.addr = c.addr
      /\ e.value = IF c.mask = {} THEN Zero ELSE Merge(memory[c.addr], c.value, c.mask)
  BY <1>1 DEF Entry
<1>3. Merged(e)
  BY <1>2 DEF Merged, Merge
<1>4. QED
  BY <1>1, <1>3

\* A store to an address that has an entry.
LEMMA HeldAgain ==
  ASSUME IInv, HInv, NEW t \in Threads, NEW d, Stores(t, d), held' = held,
         at' = [at EXCEPT ![t] = at'[t]], at'[t].pc # "validate",
         tx' = [tx EXCEPT ![t] = tx'[t]], tx'[t].end = tx[t].end,
         NEW i \in DOMAIN W(t), W(t)' = [W(t) EXCEPT ![i] = W(t)'[i]],
         W(t)'[i].lock = W(t)[i].lock, W(t)'[i].version = W(t)[i].version, Merged(W(t)'[i])
  PROVE  HInv'
<1>1. DOMAIN W(t)' = DOMAIN W(t) /\ \A j \in DOMAIN W(t) : j # i => W(t)'[j] = W(t)[j]
  <2>1. W(t) \in Seq(WriteEntry)
    BY Before, DescriptorIs DEF W
  <2>2. PICK q, e : q = W(t)' /\ e = W(t)'[i]
    BY Zenon
  <2>3. q = [W(t) EXCEPT ![i] = e]
    BY <2>2
  <2>4. DOMAIN q = DOMAIN W(t) /\ \A j \in DOMAIN W(t) : j # i => q[j] = W(t)[j]
    BY <2>1, <2>3
  <2>5. QED
    BY <2>2, <2>4
<1>2. \A j \in DOMAIN W(t) : Merged(W(t)[j])
  BY WhereIs DEF Stores, HInv, MergedOf
<1>3. \A j \in DOMAIN W(t)' : Merged(W(t)'[j])
  BY <1>1, <1>2
<1>4. \A j \in DOMAIN W(t) : j \in DOMAIN W(t)' /\ W(t)'[j].lock = W(t)[j].lock
                                               /\ W(t)'[j].version = W(t)[j].version
  BY <1>1
<1>5. QED
  BY <1>3, <1>4, HeldStored

\* A store under a lock of our own to another address.
LEMMA HeldLinked ==
  ASSUME IInv, HInv, NEW t \in Threads, NEW d, Stores(t, d), held' = held,
         NEW c, c.pc # "validate", at' = [at EXCEPT ![t] = c],
         NEW e \in WriteEntry, Merged(e), NEW prev \in DOMAIN W(t),
         tx' = [tx EXCEPT ![t] = [d EXCEPT !.w_set = AppendLinked(W(t), e, prev)]]
  PROVE  HInv'
<1>1. W(t) \in Seq(WriteEntry) /\ W(t)[prev] \in WriteEntry /\ prev # 0 /\ Len(W(t)) \in Nat
      /\ d \in Descriptor /\ d.w_set = W(t)
  BY Before, LocalsAre, DescriptorIs DEF W, Pos, Stores
<1>0. PICK m \in Nat : m = Len(W(t)) + 1
  BY <1>1
<1>2. PICK g : g = [W(t)[prev] EXCEPT !.next = m]
  BY Zenon
<1>3. /\ g \in WriteEntry /\ g.addr = W(t)[prev].addr /\ g.lock = W(t)[prev].lock
      /\ g.version = W(t)[prev].version /\ g.mask = W(t)[prev].mask /\ g.value = W(t)[prev].value
  BY <1>1, <1>2 DEF WriteEntry
<1>4. PICK w : w = [W(t) EXCEPT ![prev] = g]
  BY Zenon
<1>5. /\ w \in Seq(WriteEntry) /\ DOMAIN w = DOMAIN W(t) /\ w[prev] = g
      /\ \A j \in DOMAIN W(t) : j # prev => w[j] = W(t)[j]
  BY <1>1, <1>3, <1>4
<1>6. PICK q : q = Append(w, e)
  BY Zenon
<1>7. q = AppendLinked(W(t), e, prev)
  BY <1>0, <1>1, <1>2, <1>4, <1>6 DEF AppendLinked
<1>8. PICK n : n = Len(w) + 1
  BY Zenon
<1>9. /\ q[n] = e /\ \A i \in DOMAIN w : i \in DOMAIN q /\ q[i] = w[i]
      /\ \A i \in DOMAIN q : i \in DOMAIN w \/ i = n
  BY <1>5, <1>6, <1>8, AppendIs
<1>10. \A j \in DOMAIN W(t) : Merged(W(t)[j])
  BY WhereIs DEF Stores, HInv, MergedOf
<1>11. Merged(g)
  BY <1>3, <1>10 DEF Merged
<1>12. \A j \in DOMAIN q : Merged(q[j])
  BY <1>5, <1>9, <1>10, <1>11
<1>13. \A i \in DOMAIN W(t) : i \in DOMAIN q /\ q[i].lock = W(t)[i].lock
                                             /\ q[i].version = W(t)[i].version
  BY <1>3, <1>5, <1>9
<1>14. PICK f : f = [d EXCEPT !.w_set = q]
  BY Zenon
<1>15. f.w_set = q /\ f.end = tx[t].end /\ tx' = [tx EXCEPT ![t] = f]
  BY <1>1, <1>7, <1>14 DEF Stores, Descriptor
<1>16. tx'[t] = f /\ W(t)' = q /\ at'[t] = c
  BY <1>15, Before DEF W
<1>17. QED
  BY <1>12, <1>13, <1>15, <1>16, HeldStored

\* Where a store leads to when it is done.
LEMMA HeldWritten ==
  ASSUME NEW t \in Threads, NEW c, Written(t, c)
  PROVE  \E n : n.pc # "validate" /\ at' = [at EXCEPT ![t] = n]
<1>1. PICK n : n = IF c.elastic THEN [pc |-> "window"] ELSE Ready
  BY Zenon
<1>2. n.pc # "validate" /\ at' = [at EXCEPT ![t] = n]
  BY <1>1 DEF Written, Goto, Ready
<1>3. QED
  BY <1>2

\* A store under a lock of the transaction.
LEMMA HeldWriteOwned ==
  ASSUME IInv, HInv, NEW t \in Threads, NEW d, Stores(t, d), held' = held, ~tx[t].ro,
         NEW c \in StoreCall, locks[Stripe[c.addr]].owner = t,
         WriteOwned(t, [tx EXCEPT ![t] = d], c)
  PROVE  HInv'
<1>0. PICK D \in [Threads -> Descriptor] :
        /\ D = [tx EXCEPT ![t] = d] /\ D[t] = d /\ WriteOwned(t, D, c)
        /\ \A f : [D EXCEPT ![t] = f] = [tx EXCEPT ![t] = f]
  BY Before DEF Stores
<1> DEFINE same == {i \in DOMAIN D[t].w_set : D[t].w_set[i].addr = c.addr}
           entry == CHOOSE i \in same : TRUE
<1>1. /\ D[t] = d /\ d.w_set = W(t) /\ d \in Descriptor /\ W(t) \in Seq(WriteEntry)
      /\ c.addr \in Addresses /\ c.value \in Val /\ c.mask \in SUBSET Bytes
  BY <1>0, Before, DescriptorIs DEF Stores, StoreCall, Global
<1>2. PICK s \in Stripes : s = Stripe[c.addr]
  BY <1>1, Before, SettingIs
<1>3. CASE same # {}
  <2>1. PICK i \in DOMAIN W(t) : i = entry /\ W(t)[i].addr = c.addr
    BY <1>1, <1>3
  <2>2. PICK old : old = IF D[t].w_set[i].mask = {} THEN memory[c.addr] ELSE D[t].w_set[i].value
    BY Zenon
  <2>3. /\ tx' = IF c.mask = {} THEN D
                 ELSE [D EXCEPT ![t].w_set[i].value = Merge(old, c.value, c.mask),
                                ![t].w_set[i].mask = @ \cup c.mask]
        /\ Written(t, c)
    BY <1>0, <1>3, <2>1, <2>2 DEF WriteOwned
  <2>4. PICK n : n.pc # "validate" /\ at' = [at EXCEPT ![t] = n]
    BY <2>3, HeldWritten
  <2>5. CASE c.mask = {}
    <3>1. tx' = [tx EXCEPT ![t] = d] /\ d.end = tx[t].end
      BY <1>0, <2>3, <2>5 DEF Stores
    <3>2. QED
      BY <1>1, <2>4, <3>1, HeldCalm
  <2>6. CASE c.mask # {}
    <3>1. PICK mask, value : mask = W(t)[i].mask \cup c.mask /\ value = Merge(old, c.value, c.mask)
      BY Zenon
    <3>2. W(t)[i] \in WriteEntry
      BY <1>1
    <3>3. tx' = [D EXCEPT ![t].w_set[i].value = value, ![t].w_set[i].mask = @ \cup c.mask]
      BY <2>3, <2>6, <3>1
    <3>4. PICK e : e = [W(t)[i] EXCEPT !.value = value, !.mask = mask]
      BY Zenon
    <3>5. PICK q : q = [W(t) EXCEPT ![i] = e]
      BY Zenon
    <3>6. PICK f : f = [d EXCEPT !.w_set = q]
      BY Zenon
    <3>7. [D EXCEPT ![t].w_set[i].value = value, ![t].w_set[i].mask = @ \cup c.mask]
           = [D EXCEPT ![t] = [d EXCEPT !.w_set[i].value = value, !.w_set[i].mask = mask]]
      BY <1>0, <1>1, <3>1, <3>2 DEF Descriptor, WriteEntry
    <3>8. tx' = [tx EXCEPT ![t] = f] /\ f.w_set = q /\ f.end = tx[t].end
      <4>1. [d EXCEPT !.w_set[i].value = value, !.w_set[i].mask = mask] = f
        <5>1. [d EXCEPT !.w_set[i].value = value, !.w_set[i].mask = mask] = [d EXCEPT !.w_set = q]
          BY <1>1, <3>4, <3>5 DEF Descriptor
        <5>2. QED
          BY <3>6, <5>1
      <4>2. tx' = [D EXCEPT ![t] = f]
        BY <3>3, <3>7, <4>1
      <4>3. f.w_set = q /\ f.end = d.end
        BY <1>1, <3>6 DEF Descriptor
      <4>4. QED
        BY <1>0, <4>2, <4>3 DEF Stores
    <3>9. /\ e.addr = c.addr /\ e.lock = W(t)[i].lock /\ e.version = W(t)[i].version
          /\ e.mask = mask /\ e.value = value
      BY <2>1, <3>2, <3>4 DEF WriteEntry
    <3>10. Merged(e)
      <4>1. Merged(W(t)[i])
        BY WhereIs DEF Stores, HInv, MergedOf
      <4> SUFFICES ASSUME NEW b \in Bytes \ mask PROVE value[b] = memory[c.addr][b]
        BY <3>9 DEF Merged
      <4>2. value[b] = old[b] /\ b \notin W(t)[i].mask
        BY <3>1 DEF Merge
      <4>3. QED
        BY <1>1, <2>1, <2>2, <4>1, <4>2 DEF Merged
    <3>11. QED
      <4>1. tx'[t] = f /\ W(t)' = q /\ W(t)'[i] = e /\ at'[t] = n
        BY <1>1, <2>4, <3>5, <3>8, Before DEF W
      <4>2. /\ at' = [at EXCEPT ![t] = at'[t]] /\ at'[t].pc # "validate"
            /\ tx' = [tx EXCEPT ![t] = tx'[t]] /\ tx'[t].end = tx[t].end
        <5>1. at' = [at EXCEPT ![t] = at'[t]] /\ at'[t].pc # "validate"
          BY <2>4, <4>1
        <5>2. tx' = [tx EXCEPT ![t] = tx'[t]] /\ tx'[t].end = tx[t].end
          BY <3>8, <4>1
        <5>3. QED
          BY <5>1, <5>2
      <4>3. /\ W(t)' = [W(t) EXCEPT ![i] = W(t)'[i]] /\ W(t)'[i].lock = W(t)[i].lock
            /\ W(t)'[i].version = W(t)[i].version /\ Merged(W(t)'[i])
        BY <3>5, <3>9, <3>10, <4>1
      <4>4. QED
        BY <4>2, <4>3, HeldAgain
  <2>7. QED
    BY <2>5, <2>6
<1>4. CASE same = {} /\ Len(W(t)) = d.size
  <2>1. Reallocate(t, D)
    BY <1>0, <1>1, <1>4 DEF WriteOwned
  <2>2. QED
    BY <1>0, <2>1, HeldReallocate
<1>5. CASE same = {} /\ Len(W(t)) # d.size
  <2> DEFINE last == CHOOSE j \in DOMAIN D[t].w_set :
                       D[t].w_set[j].lock = Stripe[c.addr] /\ D[t].w_set[j].next = 0
  <2>1. PICK prev \in DOMAIN W(t) : prev = last
    <3>1. \E j \in DOMAIN W(t) : W(t)[j].lock = s /\ W(t)[j].next = 0
      BY <1>2, LastEntry
    <3>2. QED
      BY <1>1, <1>2, <3>1
  <2>2. PICK version \in Nat : version = W(t)[prev].version
    BY Before, LocalsAre
  <2>3. PICK e \in WriteEntry : e = Entry(c, version)
    BY <1>1, Before, EntryIs
  <2>4. Merged(e)
    BY <2>3, EntryMerged
  <2>5. /\ tx' = [D EXCEPT ![t].w_set = AppendLinked(@, e, prev)]
        /\ Written(t, c)
    <3>1. Entry(c, D[t].w_set[prev].version) = e
      BY <1>1, <2>2, <2>3
    <3>2. /\ tx' = [D EXCEPT ![t].w_set =
                       AppendLinked(@, Entry(c, D[t].w_set[prev].version), prev)]
          /\ Written(t, c)
      BY <1>0, <1>1, <1>5, <2>1 DEF WriteOwned
    <3>3. QED
      BY <3>1, <3>2
  <2>6. tx' = [tx EXCEPT ![t] = [d EXCEPT !.w_set = AppendLinked(W(t), e, prev)]]
    BY <1>0, <1>1, <2>5
  <2>7. PICK n : n.pc # "validate" /\ at' = [at EXCEPT ![t] = n]
    BY <2>5, HeldWritten
  <2>8. QED
    BY <2>4, <2>6, <2>7, HeldLinked
<1>6. QED
  BY <1>3, <1>4, <1>5

\* stm_write up to the compare-and-swap.
LEMMA HeldWrite ==
  ASSUME IInv, HInv, NEW t \in Threads, NEW d, Stores(t, d), held' = held,
         NEW c \in StoreCall, Write(t, [tx EXCEPT ![t] = d], c)
  PROVE  HInv'
<1>0. PICK D : /\ D = [tx EXCEPT ![t] = d] /\ D[t] = d /\ Write(t, D, c)
  BY Before
<1>1. PICK s, l : s = Stripe[c.addr] /\ l = locks[s]
  BY Zenon
<1>2. d.w_set = W(t) /\ d.ro = tx[t].ro /\ d.end = tx[t].end
  BY DEF Stores
<1>3. CASE Rollback(t) /\ tx' = D
  BY <1>0, <1>3, HeldReallocate
<1>4. CASE ~d.ro /\ l.owner = t
  <2>1. WriteOwned(t, D, c)
    BY <1>0, <1>1, <1>4 DEF Write
  <2>2. QED
    BY <1>0, <1>1, <1>2, <1>4, <2>1, HeldWriteOwned
<1>5. CASE Reallocate(t, D)
  BY <1>0, <1>5, HeldReallocate
<1>6. CASE Goto(t, [c EXCEPT !.pc = "cas", !.l = l]) /\ tx' = D
  <2>1. PICK n : n = [c EXCEPT !.pc = "cas", !.l = l]
    BY Zenon
  <2>2. at' = [at EXCEPT ![t] = n] /\ n.pc # "validate"
    BY <1>6, <2>1 DEF Goto, StoreCall
  <2>3. QED
    BY <1>0, <1>2, <1>6, <2>2, HeldCalm
<1>7. QED
  BY <1>0, <1>1, <1>3, <1>4, <1>5, <1>6 DEF Write

\* stm_store and stm_store2.
LEMMA HeldStore ==
  ASSUME IInv, HInv, NEW t \in Threads, NEW a \in Addresses, NEW mask \in Client(t).masks,
         Store(t, a, Word(Client(t).byte), mask)
  PROVE  HInv'
<1>1. /\ UNCHANGED <<setting, clock, locks, memory, seen, held, base, log, tx_overflow, tx_count>>
      /\ at[t].pc = "ready" /\ tx[t].status = "ACTIVE"
  BY ActiveIs DEF Store, unmoved, history
<1>2. PICK n \in Nat : n = tx[t].accesses + 1
  BY Before DEF Descriptor
<1> DEFINE d == [tx[t] EXCEPT !.accesses = n, !.type = "NL"]
           c == [pc |-> "write", addr |-> a, value |-> Word(Client(t).byte), mask |-> mask,
                 l |-> Free(0), elastic |-> tx[t].type = "EL"]
<1>3. [tx EXCEPT ![t].accesses = @ + 1, ![t].type = "NL"] = [tx EXCEPT ![t] = d]
  BY <1>2, Before
<1>4. Write(t, [tx EXCEPT ![t] = d], c)
  BY <1>3 DEF Store
<1>5. Stores(t, d)
  <2>1. tx[t] \in Descriptor
    BY Before
  <2>2. d \in Descriptor /\ d.type = "NL" /\ d.status = "ACTIVE" /\ d.ro = tx[t].ro
    BY <1>1, <1>2, <2>1 DEF Descriptor
  <2>3. /\ d.w_set = W(t) /\ d.r_set = tx[t].r_set /\ d.start = tx[t].start /\ d.end = tx[t].end
        /\ d.lastraddr = tx[t].lastraddr /\ d.nesting = tx[t].nesting /\ d.size = tx[t].size
        /\ d.can_extend = tx[t].can_extend /\ d.marker = tx[t].marker
        /\ d.reallocate = tx[t].reallocate
    BY <1>2, <2>1 DEF Descriptor, W
  <2> HIDE DEF d
  <2>4. QED
    BY <1>1, <2>2, <2>3 DEF Stores
<1>6. c \in StoreCall
  <2>1. Word(Client(t).byte) \in Val /\ Free(0) \in FreeLock /\ mask \in SUBSET Bytes
    BY Before, ClientIs, FreeIs DEF Word, Val
  <2>2. PICK e \in BOOLEAN : e = (tx[t].type = "EL")
    OBVIOUS
  <2>3. [pc |-> "write", addr |-> a, value |-> Word(Client(t).byte), mask |-> mask,
         l |-> Free(0), elastic |-> e] \in StoreCall
    BY <2>1 DEF StoreCall
  <2>4. QED
    BY <2>2, <2>3
<1> HIDE DEF d, c
<1>7. QED
  BY <1>1, <1>4, <1>5, <1>6, HeldWrite

\* The store starts again.
LEMMA HeldWriteAgain ==
  ASSUME IInv, HInv, NEW t \in Threads, WriteAgain(t)
  PROVE  HInv'
<1>1. /\ UNCHANGED <<setting, clock, locks, memory, seen, held, base, log, tx_overflow, tx_count>>
      /\ at[t].pc = "write" /\ tx[t].status = "ACTIVE" /\ tx[t].type = "NL"
  BY ActiveIs, Before DEF WriteAgain, unmoved, history, At, FlatOf, NormalSteps, Descriptor
<1>2. Stores(t, tx[t])
  BY <1>1, Before DEF Stores, W
<1>3. at[t] \in StoreCall
  BY <1>1, Before, CallIs DEF StoreCall
<1>4. Write(t, [tx EXCEPT ![t] = tx[t]], at[t])
  BY WhereIs DEF WriteAgain
<1>5. QED
  BY <1>1, <1>2, <1>3, <1>4, HeldWrite

\* The compare-and-swap takes the lock.
LEMMA HeldWriteCas ==
  ASSUME IInv, HInv, NEW t \in Threads, WriteCas(t)
  PROVE  HInv'
<1>1. /\ UNCHANGED <<setting, clock, memory, seen, held, base, log, tx_overflow, tx_count>>
      /\ at[t].pc = "cas" /\ tx[t].status = "ACTIVE" /\ tx[t].type = "NL"
  BY ActiveIs, Before DEF WriteCas, unmoved, history, At, FlatOf, NormalSteps, Descriptor
<1>2. Stores(t, tx[t])
  BY <1>1, Before DEF Stores, W
<1>3. PICK c \in StoreCall : c = at[t]
  BY <1>1, Before, CallIs DEF StoreCall
<1>4. /\ c.addr \in Addresses /\ c.value \in Val /\ c.mask \in SUBSET Bytes /\ c.l \in FreeLock
      /\ c.l.version \in Nat
  BY <1>3, FreeIs DEF StoreCall
<1>5. PICK s : s = Stripe[c.addr]
  BY Zenon
<1>6. CASE locks[s] # c.l
  <2>1. PICK n : n = [c EXCEPT !.pc = "write", !.l = Free(0)]
    BY Zenon
  <2>2. at' = [at EXCEPT ![t] = n] /\ tx' = tx
    BY <1>3, <1>5, <1>6, <2>1 DEF WriteCas, Goto
  <2>3. n.pc # "validate"
    BY <2>1 DEF StoreCall
  <2>4. QED
    BY <1>1, <1>2, <2>2, <2>3, WhereIs, HeldCalm
<1>7. CASE locks[s] = c.l
  <2>1. PICK e \in WriteEntry : e = Entry(c, c.l.version)
    BY <1>4, Before, EntryIs
  <2>2. Merged(e)
    BY <2>1, EntryMerged
  <2>3. PICK q : q = Append(W(t), e)
    BY Zenon
  <2>4. PICK n \in Nat : n = Len(W(t)) + 1
    BY Before, DescriptorIs DEF W
  <2>5. /\ q[n] = e /\ \A i \in DOMAIN W(t) : i \in DOMAIN q /\ q[i] = W(t)[i]
        /\ \A i \in DOMAIN q : i \in DOMAIN W(t) \/ i = n
    <3>1. W(t) \in Seq(WriteEntry)
      BY Before, DescriptorIs DEF W
    <3>2. QED
      BY <2>3, <2>4, <3>1, AppendIs
  <2>6. /\ tx' = [tx EXCEPT ![t].w_set = Append(@, Entry(c, c.l.version))] /\ Written(t, c)
    BY <1>3, <1>5, <1>7 DEF WriteCas
  <2>7. PICK f : f = [tx[t] EXCEPT !.w_set = q]
    BY Zenon
  <2>8. tx' = [tx EXCEPT ![t] = f]
    BY <2>1, <2>3, <2>6, <2>7, Before DEF W
  <2>9. f.w_set = q /\ f.end = tx[t].end
    BY <2>7, Before DEF Descriptor
  <2>10. PICK p : p.pc # "validate" /\ at' = [at EXCEPT ![t] = p]
    BY <2>6, HeldWritten
  <2>11. tx'[t] = f /\ W(t)' = q /\ at'[t] = p
    BY <2>8, <2>9, <2>10, Before DEF W
  <2>12. \A j \in DOMAIN W(t) : Merged(W(t)[j])
    BY <1>1, WhereIs DEF HInv, MergedOf
  <2>13. \A j \in DOMAIN q : Merged(q[j])
    BY <2>2, <2>5, <2>12
  <2>14. QED
    BY <1>1, <1>2, <2>5, <2>8, <2>9, <2>10, <2>11, <2>13, HeldStored
<1>8. QED
  BY <1>6, <1>7

-----------------------------------------------------------------------------
(* Timestamps and the reset of the clock.                                  *)

\* What was read under locks of t is the state just before the timestamp of t, which is
\* later than all their versions.
LEMMA HeldRecord ==
  ASSUME IInv, HInv, NEW t \in Threads, NEW n, NEW X, NEW c, Records(t, n, X, c),
         held' = held, X.held \subseteq held[t]
  PROVE  HInv'
<1>1. /\ clock \in Nat /\ n \in Pos /\ n <= clock' /\ DOMAIN log' = 1 .. clock'
      /\ log'[n] = X /\ \A v \in DOMAIN log' : v # n => v \in DOMAIN log /\ log'[v] = log[v]
      /\ tx'[t] = tx[t] /\ ~Committed(t) /\ ~Aborting(t) /\ Stripe' = Stripe
      /\ \A u \in Threads \ {t} : SameThread(u)
  BY RecordsIs
<1>2. Past /\ setting \in Settings
  BY RecordsPast, Before DEF Global
<1>3. /\ memory' = memory /\ tx' = tx
      /\ \/ clock' = clock + 1 /\ n = clock + 1 /\ ~Pending(t)
         \/ clock' = clock /\ Pending(t) /\ at[t].now = n
  BY DEF Records, Pending, At
<1>4. PICK k : k = n - 1
  OBVIOUS
<1>5. k \in 0 .. clock /\ (Pending(t) => k < at[t].now)
  BY <1>1, <1>3, <1>4 DEF Pos
<1>6. ASSUME NEW i \in DOMAIN W(t) PROVE W(t)[i].version <= k
  <2>1. W(t)[i].version \in Nat /\ W(t)[i].version <= clock /\ EntryOf(t, i)
    BY <1>1, OwnIs, Before
  <2>2. QED
    BY <1>1, <1>3, <1>4, <2>1 DEF EntryOf, Pos
<1>7. \A r \in held[t] : r \in Byte /\ FixedByte(r, k)
  BY <1>1, <1>5, <1>6, HeldIs
<1>8. \A r \in held[t] : FixedByte(r, k)'
  BY <1>2, <1>5, <1>7, ByteStays
<1>9. HeldOf(t)'
  <2> SUFFICES ASSUME NEW r \in held[t]
               PROVE  \E i \in DOMAIN W(t) : /\ W(t)[i].lock = Stripe[r.addr]
                                             /\ FixedByte(r, Later(W(t)[i].version, tx[t].end))'
    BY <1>1, <1>3 DEF HeldOf, W
  <2>1. PICK i \in DOMAIN W(t) :
          W(t)[i].lock = Stripe[r.addr] /\ FixedByte(r, Later(W(t)[i].version, tx[t].end))
    BY <1>1 DEF HInv, HeldOf
  <2>2. PICK m : m = Later(W(t)[i].version, tx[t].end)
    OBVIOUS
  <2>3. W(t)[i].version \in Nat /\ tx[t].end \in Nat /\ W(t)[i].version <= clock
        /\ tx[t].end <= clock
    BY <1>1, OwnIs, Before, LocalsAre DEF TimesOf
  <2>4. m \in 0 .. clock
    <3>1. m \in {W(t)[i].version, tx[t].end}
      BY <2>2, <2>3, LaterIs
    <3>2. QED
      BY <1>1, <2>3, <3>1
  <2>5. FixedByte(r, m)'
    BY <1>2, <1>7, <2>1, <2>2, <2>4, ByteStays
  <2>6. m = Later(W(t)[i].version, tx[t].end)'
    BY <1>3, <2>2 DEF Later, W
  <2>7. FixedByte(r, Later(W(t)[i].version, tx[t].end))'
    BY <2>5, <2>6 DEF FixedByte
  <2>8. QED
    BY <2>1, <2>7
<1>10. MergedOf(t)'
  <2>1. \A i \in DOMAIN W(t) : Merged(W(t)[i])
    BY <1>1 DEF HInv, MergedOf
  <2>2. QED
    BY <1>3, <2>1 DEF MergedOf, Merged, W
<1>11. ASSUME NEW v \in DOMAIN log'
       PROVE  \/ v \in DOMAIN log /\ log'[v].held = log[v].held
              \/ log'[v].held \subseteq Byte /\ \A r \in log'[v].held : FixedByte(r, v - 1)'
  <2>1. CASE v = n
    <3>1. \A r \in X.held : r \in Byte /\ FixedByte(r, k)'
      BY <1>7, <1>8
    <3>2. QED
      BY <1>1, <1>4, <2>1, <3>1
  <2>2. QED
    BY <1>1, <2>1
<1>12. \A u \in Threads \ {t} : tx'[u] = tx[u] /\ at'[u] = at[u]
  BY <1>1 DEF SameThread
<1>13. held' = [held EXCEPT ![t] = held'[t]] /\ held'[t] \subseteq Byte
  BY DEF HInv
<1>14. QED
  BY <1>2, <1>3, <1>9, <1>10, <1>11, <1>12, <1>13, HeldMove

\* The commit draws its timestamp and is decided.
LEMMA HeldTimestamp ==
  ASSUME IInv, HInv, NEW t \in Threads, Timestamp(t) \/ CommitValidated(t)
  PROVE  HInv'
<1>1. held' = held
  BY DEF Timestamp, CommitValidated
<1>2. PICK n, X, c : Records(t, n, X, c) /\ X.held \subseteq held[t]
  BY TimestampIs, CommitValidatedIs
<1>3. QED
  BY <1>1, <1>2, HeldRecord

\* The clock is reset: nobody is in a transaction, and the history begins again.
LEMMA HeldReset ==
  ASSUME IInv, HInv, NEW t \in Threads, NEW d, d.w_set = <<>>, tx_count = 1, Idle(t),
         at[t].pc \notin Away, tx' = [tx EXCEPT ![t] = d], held' = held, log' = <<>>
  PROVE  HInv'
<1>1. \A u \in Threads \ {t} : at[u].pc \in Away
  BY OneRunning
<1>2. \A u \in Threads : Idle(u)
  <2>1. ASSUME NEW u \in Threads \ {t} PROVE Idle(u)
    <3>1. IdleOf(u)
      BY Before
    <3>2. QED
      BY <1>1, <3>1 DEF Idle, IdleOf, Away
  <2>2. QED
    BY <2>1
<1>3. \A u \in Threads : held[u] = {} /\ W(u) = <<>>
  BY <1>2, HeldIdle
<1>4. \A u \in Threads : W(u)' = <<>>
  BY <1>3, Before DEF W
<1>5. \A u \in Threads : HeldOf(u)' /\ MergedOf(u)'
  BY <1>3, <1>4 DEF HeldOf, MergedOf
<1>6. held' = [u \in Threads |-> held'[u]]
  BY DEF HInv
<1>7. QED
  BY <1>3, <1>5, <1>6 DEF HInv

\* stm_exit_thread and stm_overflow.
LEMMA HeldRollover ==
  ASSUME IInv, HInv, NEW t \in Threads, ExitThread(t) \/ Overflow(t)
  PROVE  HInv'
<1>1. CASE ExitThread(t) /\ tx_overflow /\ tx_count' = 0
  <2>1. /\ at[t].pc = "ready" /\ tx[t].status # "ACTIVE" /\ tx_count' = tx_count - 1
        /\ tx' = [tx EXCEPT ![t] = Reset] /\ held' = held /\ log' = <<>>
    BY <1>1 DEF ExitThread, At, ResetClock
  <2>2. Idle(t) /\ at[t].pc \notin Away /\ Reset.w_set = <<>>
    BY <2>1, Before, ResetIs DEF Idle, Away
  <2>3. tx_count = 1
    <3>1. tx_count \in Nat
      BY Before, EstmAssumption, FS_Subset, FS_CardinalityType DEF Global, Running
    <3>2. QED
      BY <1>1, <2>1, <3>1
  <2>4. QED
    BY <2>1, <2>2, <2>3, HeldReset
<1>2. CASE Overflow(t) /\ tx_count = 1
  <2>1. at[t].pc = "overflow" /\ tx' = tx /\ held' = held /\ log' = <<>>
    BY <1>2 DEF Overflow, At, ResetClock
  <2>2. Idle(t) /\ at[t].pc \notin Away /\ tx[t].w_set = <<>>
    BY <2>1, Before, IdleIs DEF Idle, Away
  <2>3. tx' = [tx EXCEPT ![t] = tx[t]]
    BY <2>1, Before
  <2>4. QED
    BY <1>2, <2>1, <2>2, <2>3, HeldReset
<1>3. QED
  BY <1>1, <1>2, HeldAway

-----------------------------------------------------------------------------
(* The invariant and what follows from it.                                 *)

\* It holds after stm_init.
LEMMA IInvInit == Init => IInv
<1> SUFFICES ASSUME Init PROVE IInv
  OBVIOUS
<1>1. /\ setting \in Settings /\ clock = 0 /\ locks = [s \in Stripes |-> Free(0)]
      /\ memory = [a \in Addresses |-> Zero] /\ tx = [t \in Threads |-> Reset]
      /\ at = [t \in Threads |-> [pc |-> "out"]] /\ tx_count = 0 /\ tx_overflow = FALSE
      /\ seen = [t \in Threads |-> {}] /\ base = memory /\ log = <<>>
  BY DEF Init
<1>2. /\ Reset \in Descriptor /\ Reset.w_set = <<>> /\ Reset.r_set = <<>>
      /\ Reset.lastraddr = NoWindow /\ Reset.start = 0 /\ Reset.end = 0
      /\ Reset.status = "STOPPED" /\ Reset.type = "NL"
  BY <1>1, ResetIs
<1>3. [pc |-> "out"] \in Calls
  BY PlainIs DEF Plain
<1>4. Zero \in Val
  BY DEF Zero, Word, Val
<1>5. \A t \in Threads : ThreadOf(t)
  <2> SUFFICES ASSUME NEW t \in Threads PROVE ThreadOf(t)
    OBVIOUS
  <2>1. /\ tx[t] = Reset /\ at[t] = [pc |-> "out"] /\ at[t].pc = "out" /\ seen[t] = {}
        /\ W(t) = <<>> /\ R(t) = <<>>
    BY <1>1, <1>2 DEF W, R
  <2>2. TypeOf(t)
    BY <1>2, <1>3, <2>1 DEF TypeOf
  <2>3. IdleOf(t)
    BY <1>2, <2>1 DEF IdleOf
  <2>4. TimesOf(t) /\ PendingOf(t) /\ VerOf(t) /\ FlightOf(t)
    BY <1>1, <1>2, <2>1 DEF TimesOf, PendingOf, VerOf, FlightOf, Carrying, Pending, Committed, At
  <2>5. ReadsOf(t) /\ WindowOf(t) /\ FlatOf(t)
    BY <1>2, <2>1 DEF ReadsOf, WindowOf, FlatOf
  <2>6. \A i \in DOMAIN W(t) : EntryOf(t, i)
    BY <2>1
  <2>7. QED
    BY <2>2, <2>3, <2>4, <2>5, <2>6 DEF ThreadOf
<1>6. \A s \in Stripes : LockOf(s)
  <2> SUFFICES ASSUME NEW s \in Stripes PROVE LockOf(s)
    OBVIOUS
  <2>1. ~IsOwned(locks[s]) /\ locks[s].version = 0
    BY <1>1, FreeIs
  <2>2. NoneLater(s, 0)
    BY <1>1 DEF NoneLater
  <2>3. QED
    BY <1>1, <2>1, <2>2 DEF LockOf
<1>7. \A a \in Addresses : MemoryOf(a)
  <2> SUFFICES ASSUME NEW a \in Addresses PROVE MemoryOf(a)
    OBVIOUS
  <2>1. WritersIn(log, clock, a) = {}
    BY <1>1 DEF WritersIn
  <2>2. Snapshot(clock)[a] = base[a]
    BY <2>1, SnapshotIs DEF ValueIn
  <2>3. QED
    BY <1>1, <2>2 DEF MemoryOf
<1>8. \A v \in DOMAIN log : LogOf(v)
  BY <1>1
<1>9. Global
  <2>1. Running = {}
    BY <1>1 DEF Running
  <2>2. tx_count = Cardinality(Running)
    BY <1>1, <2>1, FS_EmptySet
  <2>3. locks \in [Stripes -> FreeLock \cup OwnedLock]
    BY <1>1, FreeIs
  <2>4. tx \in [Threads -> Descriptor] /\ memory \in [Addresses -> Val] /\ base \in [Addresses -> Val]
    BY <1>1, <1>2, <1>4
  <2>5. at = [t \in Threads |-> at[t]] /\ seen = [t \in Threads |-> seen[t]]
    BY <1>1
  <2>6. log = [v \in 1 .. clock |-> log[v]] /\ \A v \in 1 .. clock : log[v].reads \subseteq Read
    BY <1>1
  <2>7. QED
    BY <1>1, <2>2, <2>3, <2>4, <2>5, <2>6 DEF Global
<1>10. QED
  BY <1>5, <1>6, <1>7, <1>8, <1>9 DEF IInv


\* It holds as long as nothing happens.
LEMMA IInvStutter ==
  ASSUME IInv, UNCHANGED vars
  PROVE  IInv'
<1>1. /\ setting' = setting /\ clock' = clock /\ locks' = locks /\ memory' = memory /\ tx' = tx
      /\ at' = at /\ tx_count' = tx_count /\ tx_overflow' = tx_overflow /\ seen' = seen
      /\ base' = base /\ log' = log
  BY DEF vars
<1>2. /\ Stripe' = Stripe /\ Stripes' = Stripes /\ Descriptor' = Descriptor /\ Calls' = Calls
      /\ Running' = Running
  BY <1>1, TypesStay DEF Running
<1>3. Global /\ Global'
  BY <1>1, <1>2 DEF IInv, Global
<1>4. \A a \in Addresses : \A k : Snapshot(k)'[a] = Snapshot(k)[a]
  BY <1>1, SnapshotIs
<1>5. /\ \A v : \A s : Writes(v, s)' = Writes(v, s)
      /\ \A s : \A k : NoneLater(s, k)' = NoneLater(s, k)
      /\ \A s : \A k : Settled(s, k)' = Settled(s, k)
  BY <1>1, <1>2 DEF Writes, NoneLater, Settled, Pending, At, Covers, W
<1>6. Past
  BY <1>1, <1>3, <1>4, <1>5 DEF Past, Global
<1>7. \A u \in Threads :
        /\ SameThread(u) /\ W(u)' = W(u) /\ Committed(u)' = Committed(u) /\ Pending(u)' = Pending(u)
        /\ \A i : Unwritten(u, i)' = Unwritten(u, i)
        /\ \A i : \A s : Holds(u, i, s)' = Holds(u, i, s)
  BY <1>1 DEF SameThread, W, Committed, Pending, Unwritten, At, Holds, From
<1>8. \A u \in Threads : ThreadOf(u)'
  <2> SUFFICES ASSUME NEW u \in Threads PROVE ThreadOf(u)'
    OBVIOUS
  <2>1. ThreadOf(u) /\ TypeOf(u) /\ PendingOf(u) /\ FlightOf(u)
    BY DEF IInv, ThreadOf
  <2>2. PendingOf(u)'
    BY <1>1, <1>7, <2>1 DEF PendingOf
  <2>3. FlightOf(u)'
    <3>1. Carrying(u)' = Carrying(u) /\ ValueKnown(u)' = ValueKnown(u)
      BY <1>1 DEF Carrying, ValueKnown, At
    <3>2. QED
      BY <1>1, <1>2, <1>7, <2>1, <3>1 DEF FlightOf
  <2>4. \A i \in DOMAIN W(u) : EntryOf(u, i)'
    <3> SUFFICES ASSUME NEW i \in DOMAIN W(u) PROVE EntryOf(u, i)'
      OBVIOUS
    <3>1. EntryOf(u, i) /\ W(u)[i].addr \in Addresses
      BY <2>1, LocalsAre DEF ThreadOf
    <3>2. PICK s, a, k : s = W(u)[i].lock /\ a = W(u)[i].addr /\ k = clock
      OBVIOUS
    <3>3. /\ \A v \in DOMAIN log' : Writes(v, s)' => v \in DOMAIN log /\ Writes(v, s)
          /\ Snapshot(k)'[a] = Snapshot(k)[a]
      BY <1>1, <1>4, <1>5, <3>1, <3>2
    <3>4. /\ \A v \in DOMAIN log' : Writes(v, W(u)[i].lock)' =>
               v \in DOMAIN log /\ Writes(v, W(u)[i].lock)
          /\ Snapshot(clock)'[W(u)[i].addr] = Snapshot(clock)[W(u)[i].addr]
      BY <1>1, <1>7, <3>2, <3>3
    <3>5. From(u) <= i => locks'[W(u)[i].lock].owner = u
      BY <1>1, <3>1 DEF EntryOf
    <3>6. QED
      BY <1>3, <1>6, <1>7, <2>1, <3>1, <3>4, <3>5, OtherEntry
  <2>5. QED
    BY <1>3, <1>6, <1>7, <2>1, <2>2, <2>3, <2>4, OtherThread
<1>9. \A s \in Stripes : LockOf(s)'
  <2> SUFFICES ASSUME NEW s \in Stripes PROVE LockOf(s)'
    OBVIOUS
  <2>1. LockOf(s) /\ (IsOwned(locks[s]) => locks[s].owner \in Threads)
    BY Before, <1>3, LockIs DEF IInv
  <2>2. QED
    BY <1>1, <1>5, <1>7, <2>1 DEF LockOf
<1>10. \A a \in Addresses : MemoryOf(a)'
  <2> SUFFICES ASSUME NEW a \in Addresses PROVE MemoryOf(a)'
    OBVIOUS
  <2>1. MemoryOf(a) /\ Snapshot(clock)'[a] = Snapshot(clock)[a]
    BY <1>1, <1>4 DEF IInv
  <2>2. QED
    BY <1>1, <1>7, <2>1 DEF MemoryOf
<1>11. \A v \in DOMAIN log : LogOf(v)'
  <2> SUFFICES ASSUME NEW v \in DOMAIN log, NEW r \in log[v].reads
               PROVE  Fixed(r.addr, r.value, v - 1)'
    BY <1>1 DEF LogOf
  <2>1. Fixed(r.addr, r.value, v - 1) /\ r.addr \in Addresses
    BY <1>3 DEF IInv, LogOf, Global, Read
  <2>2. QED
    BY <1>2, <1>4, <1>5, <2>1 DEF Fixed
<1>12. QED
  BY <1>1, <1>2, <1>3, <1>8, <1>9, <1>10, <1>11 DEF IInv

\* Every call and every step of a thread keeps it.
LEMMA IInvNext ==
  ASSUME Flat, IInv, [Next]_vars
  PROVE  IInv'
<1>1. CASE UNCHANGED vars
  BY <1>1, IInvStutter
<1>2. ASSUME NEW t \in Threads, Call(t) PROVE IInv'
  <2>1. CASE InitThread(t)
    BY <2>1, InitThreadStep
  <2>2. CASE ExitThread(t)
    BY <2>2, ExitStep
  <2>3. CASE Commit(t)
    BY <2>3, CommitStep
  <2>4. CASE Abort(t)
    BY <2>4, AbortStep
  <2>5. ASSUME NEW type \in Client(t).types, NEW ro \in Client(t).ro, Start(t, type, ro)
        PROVE  IInv'
    BY <2>5, StartStep
  <2>6. ASSUME NEW type \in Client(t).nested, Nest(t, type) PROVE IInv'
    BY <2>6, NestStep
  <2>7. ASSUME NEW a \in Addresses, NormalLoad(t, a) PROVE IInv'
    BY <2>7, NormalLoadStep
  <2>8. ASSUME NEW a \in Addresses, ElasticLoad(t, a) PROVE IInv'
    BY <2>8, ElasticLoadStep
  <2>9. ASSUME NEW a \in Addresses, NEW mask \in Client(t).masks,
               Store(t, a, Word(Client(t).byte), mask)
        PROVE  IInv'
    BY <2>9, StoreStep
  <2>10. QED
    BY <1>2, <2>1, <2>2, <2>3, <2>4, <2>5, <2>6, <2>7, <2>8, <2>9 DEF Call
<1>3. ASSUME NEW t \in Threads, Step(t) PROVE IInv'
  <2>1. CASE ReadClock(t)
    BY <2>1, ReadClockStep
  <2>2. CASE Overflow(t)
    BY <2>2, OverflowStep
  <2>3. CASE SpuriousWakeup(t) \/ Awake(t)
    BY <2>3, SleepStep
  <2>4. CASE RollbackStep(t)
    BY <2>4, RollbackStepStep
  <2>5. CASE Validate(t)
    BY <2>5, ValidateStep
  <2>6. CASE LoadValue(t)
    BY <2>6, LoadValueStep
  <2>7. CASE LoadCheck(t)
    BY <2>7, LoadCheckStep
  <2>8. CASE Extend(t)
    BY <2>8, ExtendStep
  <2>9. CASE Extended(t)
    BY <2>9, ExtendedStep
  <2>10. CASE LoadRecheck(t)
    BY <2>10, LoadRecheckStep
  <2>11. CASE VerLock(t)
    BY <2>11, VerLockStep
  <2>12. CASE VerValue(t)
    BY <2>12, VerValueStep
  <2>13. CASE VerCheck(t)
    BY <2>13, VerCheckStep
  <2>14. CASE WriteAgain(t)
    BY <2>14, WriteAgainStep
  <2>15. CASE WriteCas(t)
    BY <2>15, WriteCasStep
  <2>16. CASE StoreWindow(t)
    BY <2>16, StoreWindowStep
  <2>17. CASE Timestamp(t)
    BY <2>17, TimestampStep
  <2>18. CASE CommitValidated(t)
    BY <2>18, CommitValidatedStep
  <2>19. CASE WriteBack(t)
    BY <2>19, WriteBackStep
  <2>20. CASE Release(t)
    BY <2>20, ReleaseStep
  <2>21. QED
    BY <1>3, <2>1, <2>2, <2>3, <2>4, <2>5, <2>6, <2>7, <2>8, <2>9, <2>10, <2>11, <2>12, <2>13,
       <2>14, <2>15, <2>16, <2>17, <2>18, <2>19, <2>20 DEF Step
<1>4. QED
  BY <1>1, <1>2, <1>3 DEF Next

\* Nothing is held after stm_init.
LEMMA HInvInit == Init => HInv
<1> SUFFICES ASSUME Init PROVE HInv
  OBVIOUS
<1>1. held = [t \in Threads |-> {}] /\ log = <<>> /\ tx = [t \in Threads |-> Reset]
  BY DEF Init
<1>2. \A t \in Threads : W(t) = <<>>
  BY <1>1, ResetIs DEF W, Init
<1>3. \A t \in Threads : HeldOf(t) /\ MergedOf(t)
  BY <1>1, <1>2 DEF HeldOf, MergedOf
<1>4. QED
  BY <1>1, <1>3 DEF HInv

\* What is held stays as long as nothing happens.
LEMMA HInvStutter ==
  ASSUME HInv, UNCHANGED vars
  PROVE  HInv'
<1>1. /\ setting' = setting /\ clock' = clock /\ memory' = memory /\ tx' = tx /\ at' = at
      /\ held' = held /\ base' = base /\ log' = log
  BY DEF vars
<1>2. \A r, k : FixedByte(r, k)' = FixedByte(r, k)
  <2>1. \A s, k : Settled(s, k)' = Settled(s, k)
    BY <1>1 DEF Settled, Pending, Covers, At, W
  <2>2. \A k : Snapshot(k)' = Snapshot(k)
    BY <1>1 DEF Snapshot
  <2>3. Stripe' = Stripe
    BY <1>1 DEF Stripe
  <2>4. QED
    BY <2>1, <2>2, <2>3 DEF FixedByte
<1>3. ASSUME NEW t \in Threads PROVE HeldOf(t)' /\ MergedOf(t)'
  <2>1. HeldOf(t) /\ MergedOf(t)
    BY DEF HInv
  <2>2. W(t)' = W(t) /\ Aborting(t)' = Aborting(t) /\ Committed(t)' = Committed(t)
        /\ Stripe' = Stripe
    BY <1>1 DEF W, Aborting, Committed, At, Stripe
  <2>3. \A r, v, w : FixedByte(r, Later(v, w))' = FixedByte(r, Later(v, w))
    BY <1>2
  <2>4. QED
    BY <1>1, <1>2, <2>1, <2>2 DEF HeldOf, MergedOf, Merged
<1>4. QED
  BY <1>1, <1>2, <1>3 DEF HInv

\* Every call and every step of a thread keeps what is held.
LEMMA HInvNext ==
  ASSUME Flat, IInv, HInv, [Next]_vars
  PROVE  HInv'
<1>1. CASE UNCHANGED vars
  BY <1>1, HInvStutter
<1>2. ASSUME NEW t \in Threads, Call(t) PROVE HInv'
  <2>1. CASE InitThread(t)
    BY <2>1, HeldOutside
  <2>2. CASE ExitThread(t)
    BY <2>2, HeldRollover
  <2>3. CASE Commit(t)
    BY <2>3, HeldCommit
  <2>4. CASE Abort(t)
    BY <2>4, HeldInside
  <2>5. ASSUME NEW type \in Client(t).types, NEW ro \in Client(t).ro, Start(t, type, ro)
        PROVE  HInv'
    BY <2>5, HeldStart
  <2>6. ASSUME NEW type \in Client(t).nested, Nest(t, type) PROVE HInv'
    BY <2>6, HeldNest
  <2>7. ASSUME NEW a \in Addresses, NormalLoad(t, a) PROVE HInv'
    BY <2>7, HeldNormalLoad
  <2>8. ASSUME NEW a \in Addresses, ElasticLoad(t, a) PROVE HInv'
    BY <2>8, HeldElasticLoad
  <2>9. ASSUME NEW a \in Addresses, NEW mask \in Client(t).masks,
               Store(t, a, Word(Client(t).byte), mask)
        PROVE  HInv'
    BY <2>9, HeldStore
  <2>10. QED
    BY <1>2, <2>1, <2>2, <2>3, <2>4, <2>5, <2>6, <2>7, <2>8, <2>9 DEF Call
<1>3. ASSUME NEW t \in Threads, Step(t) PROVE HInv'
  <2>1. CASE ReadClock(t) \/ SpuriousWakeup(t) \/ Awake(t)
    BY <2>1, HeldOutside
  <2>2. CASE Overflow(t)
    BY <2>2, HeldRollover
  <2>3. CASE Validate(t) \/ LoadValue(t) \/ Extend(t) \/ VerLock(t) \/ VerValue(t)
    BY <2>3, HeldInside
  <2>4. CASE RollbackStep(t)
    BY <2>4, HeldRollbackStep
  <2>5. CASE LoadCheck(t)
    BY <2>5, HeldLoadCheck
  <2>6. CASE Extended(t)
    BY <2>6, HeldExtended
  <2>7. CASE LoadRecheck(t)
    BY <2>7, HeldLoadRecheck
  <2>8. CASE VerCheck(t)
    BY <2>8, HeldVerCheck
  <2>9. CASE WriteAgain(t)
    BY <2>9, HeldWriteAgain
  <2>10. CASE WriteCas(t)
    BY <2>10, HeldWriteCas
  <2>11. CASE StoreWindow(t)
    BY <2>11, HeldStoreWindow
  <2>12. CASE Timestamp(t) \/ CommitValidated(t)
    BY <2>12, HeldTimestamp
  <2>13. CASE WriteBack(t)
    BY <2>13, HeldWriteBack
  <2>14. CASE Release(t)
    BY <2>14, HeldRelease
  <2>15. QED
    BY <1>3, <2>1, <2>2, <2>3, <2>4, <2>5, <2>6, <2>7, <2>8, <2>9, <2>10, <2>11, <2>12, <2>13,
       <2>14 DEF Step
<1>4. QED
  BY <1>1, <1>2, <1>3 DEF Next

\* What a transaction has read, what its locks are and what the memory holds agree with the
\* history at every step of any number of threads, on every code path of the library.
THEOREM Invariant == Flat => (Spec => [](IInv /\ HInv))
<1> SUFFICES ASSUME Flat PROVE Spec => [](IInv /\ HInv)
  OBVIOUS
<1>1. Init => IInv /\ HInv
  BY IInvInit, HInvInit
<1>2. IInv /\ HInv /\ [Next]_vars => IInv' /\ HInv'
  BY IInvNext, HInvNext
<1>3. QED
  BY <1>1, <1>2, PTL DEF Spec

\* A lock that is taken leads to an entry of its owner, a free one holds a version that the
\* clock has reached, and tx_count counts the threads that may use the locks: the last one
\* may reset them (stm_rollback, stm_commit, stm_overflow, stm_exit_thread).
THEOREM AnchoredAlways == Flat => (Spec => []LocksAnchored)
<1>1. IInv => LocksAnchored
  <2> SUFFICES ASSUME IInv PROVE LocksAnchored
    OBVIOUS
  <2>1. tx_count = Cardinality({t \in Threads : at[t].pc \notin {"out", "asleep", "awake"}})
    BY DEF IInv, Global, Running
  <2>2. ASSUME NEW s \in Stripes
        PROVE  /\ IsOwned(locks[s]) => /\ locks[s].entry \in DOMAIN tx[locks[s].owner].w_set
                                       /\ tx[locks[s].owner].w_set[locks[s].entry].lock = s
               /\ ~IsOwned(locks[s]) => locks[s].version \in 0 .. clock
    <3>1. LockOf(s) /\ Global
      BY DEF IInv
    <3>2. ~IsOwned(locks[s]) => locks[s].version \in Nat
      BY <3>1, LockIs, FreeIs
    <3>3. clock \in Nat
      BY <3>1 DEF Global
    <3>4. QED
      BY <3>1, <3>2, <3>3 DEF LockOf, W
  <2>3. QED
    BY <2>1, <2>2 DEF LocksAnchored
<1>2. QED
  BY <1>1, Invariant, PTL

\* What a running transaction has read through its read set is the state of the memory at
\* the end of its validity range (stm_normal_load, stm_extend), what an elastic one has in
\* its buffer that at its start (stm_elastic_load), whatever the others commit in between;
\* what it has read from memory under a lock of its own is the state at the version with
\* which stm_write took the lock, if that is later.
THEOREM OpaqueAlways == Flat => (Spec => []Opaque)
<1>1. IInv /\ HInv => Opaque
  <2> SUFFICES ASSUME IInv, HInv, NEW t \in Threads, tx[t].status = "ACTIVE", ~At(t, "rollback")
               PROVE  /\ \A r \in seen[t] : r.value = Snapshot(tx[t].end)[r.addr]
                      /\ \A r \in held[t] : \E i \in DOMAIN tx[t].w_set :
                          /\ tx[t].w_set[i].lock = Stripe[r.addr]
                          /\ r.value = Snapshot(Later(tx[t].w_set[i].version, tx[t].end))[r.addr][r.byte]
                      /\ tx[t].type = "EL" =>
                           \A i \in 1 .. ELASTICITY : tx[t].lastraddr[i].addr # NULL =>
                             tx[t].lastraddr[i].value
                               = Snapshot(tx[t].start)[tx[t].lastraddr[i].addr]
    BY DEF Opaque
  <2>1. ReadsOf(t) /\ WindowOf(t) /\ ~Aborting(t) /\ HeldOf(t)
    BY Before DEF Aborting, HInv
  <2>2. \A r \in seen[t] : r.value = Snapshot(tx[t].end)[r.addr]
    BY <2>1 DEF ReadsOf, Fixed
  <2>3. \A r \in held[t] : \E i \in DOMAIN tx[t].w_set :
          /\ tx[t].w_set[i].lock = Stripe[r.addr]
          /\ r.value = Snapshot(Later(tx[t].w_set[i].version, tx[t].end))[r.addr][r.byte]
    BY <2>1 DEF HeldOf, FixedByte, W
  <2>4. tx[t].type = "EL" =>
          \A i \in 1 .. ELASTICITY : tx[t].lastraddr[i].addr # NULL =>
            tx[t].lastraddr[i].value = Snapshot(tx[t].start)[tx[t].lastraddr[i].addr]
    BY <2>1 DEF WindowOf, Window, Fixed, ELASTICITY
  <2>5. QED
    BY <2>2, <2>3, <2>4
<1>2. QED
  BY <1>1, Invariant, PTL

\* In the order of their timestamps every committed transaction has read what those before
\* it have written (stm_commit), though it read before it drew its timestamp, and though
\* what it read under locks of its own may be later than the rest: the validation makes
\* all of it the state just before the timestamp.
THEOREM SerializableAlways == Flat => (Spec => []Serializable)
<1>1. IInv /\ HInv => Serializable
  <2> SUFFICES ASSUME IInv, HInv, NEW v \in DOMAIN log
               PROVE  /\ \A r \in log[v].reads : r.value = Snapshot(v - 1)[r.addr]
                      /\ \A r \in log[v].held : r.value = Snapshot(v - 1)[r.addr][r.byte]
    BY DEF Serializable
  <2>1. LogOf(v) /\ \A r \in log[v].held : FixedByte(r, v - 1)
    BY DEF IInv, HInv
  <2>2. QED
    BY <2>1 DEF LogOf, Fixed, FixedByte
<1>2. QED
  BY <1>1, Invariant, PTL
=============================================================================
