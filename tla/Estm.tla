-------------------------------- MODULE Estm --------------------------------
(***************************************************************************)
(* The elastic transactional memory E-STM 0.3.0 (estm-0.3.0/src/stm.c):    *)
(* word-based, write-back, encounter-time locking, a global version clock  *)
(* that rolls over. Every atomic access to a lock, the clock or the shared *)
(* memory is a step; the steps under tx_count_mutex are one.               *)
(*                                                                         *)
(* A thread whose transaction is rolled back jumps back to its start, as   *)
(* with sigsetjmp, and may then do anything: a retry is one such case. No  *)
(* callbacks are registered. The sets of a transaction are emptied when it *)
(* ends; the code does so when the next one starts, and nothing reads them *)
(* in between. seen, held, base and log are there for the properties only. *)
(***************************************************************************)
EXTENDS Integers, Sequences, FiniteSets

CONSTANTS
    Threads,
    Addresses,
    Bytes,          \* of a word
    Settings

\* A setting says which lock covers an address (LOCK_IDX), where the clock overflows
\* (VERSION_MAX, 2^63 - 1 in the code), how large a write set is at first (RW_SET_SIZE,
\* 4096 in the code) and what each thread may ask for: the types of its transactions and
\* of the transactions nested in them, whether they may be read-only, the byte that its
\* stores repeat, the masks of its stores, whether it aborts transactions and ends, and
\* two bounds, on its starts and on the loads and stores of a transaction.
Setting(s) ==
    /\ s.stripe \in [Addresses -> Nat]
    /\ {s.version_max, s.rw_set_size} \subseteq Nat \ {0}
    /\ s.clients \in [Threads -> [types : SUBSET {"EL", "NL"}, nested : SUBSET {"EL", "NL"},
                                   ro : SUBSET BOOLEAN, byte : Nat, masks : SUBSET SUBSET Bytes,
                                   aborts : BOOLEAN, ends : BOOLEAN, starts : Nat, accesses : Nat]]

ASSUME EstmAssumption ==
    /\ IsFiniteSet(Threads) /\ "none" \notin Threads
    /\ Addresses \subseteq Nat \ {0}
    /\ \A s \in Settings : Setting(s)

VARIABLES
    setting,
    clock,
    locks,          \* per stripe, free at a version or owned by a write set entry
    memory,
    tx,             \* the transaction descriptor of each thread
    at,             \* where each thread is, with the locals of the call
    tx_count,
    tx_overflow,
    seen,           \* what the normal loads of each transaction returned for its read set
    held,           \* the bytes of memory that they returned under locks of its own
    base,           \* the memory when the clock was last reset
    log             \* per commit timestamp since then, what was read and written

vars == <<setting, clock, locks, memory, tx, at, tx_count, tx_overflow, seen, held, base, log>>
history == <<seen, held, base, log>>
unmoved == <<setting, tx_count, tx_overflow>>

Stripe == setting.stripe
VERSION_MAX == setting.version_max
RW_SET_SIZE == setting.rw_set_size
Client(t) == setting.clients[t]
Stripes == {Stripe[a] : a \in Addresses}
Word(byte) == [b \in Bytes |-> byte]
Zero == Word(0)
NULL == 0
None == [addr |-> NULL, value |-> Zero]
ELASTICITY == 2
NoWindow == [i \in 1..ELASTICITY |-> None]

Free(version) == [owner |-> "none", entry |-> 0, version |-> version]
Owned(t, i) == [owner |-> t, entry |-> i, version |-> 0]
IsOwned(l) == l.owner # "none"

\* TX_IDLE, TX_COMMITTED and TX_ABORTED are one: nothing but stm_aborted tells them apart
Reset == [status |-> "STOPPED", type |-> "NL", start |-> 0, end |-> 0, r_set |-> <<>>, w_set |-> <<>>,
          size |-> RW_SET_SIZE, reallocate |-> FALSE, nesting |-> 0, ro |-> FALSE,
          can_extend |-> FALSE, lastraddr |-> NoWindow, marker |-> 1,
          starts |-> 0, accesses |-> 0]

\* a transaction that ended keeps the size of its write set
Ended(t) ==
    [Reset EXCEPT !.size = tx[t].size, !.reallocate = tx[t].reallocate, !.starts = tx[t].starts]

Merge(old, new, mask) == [b \in Bytes |-> IF b \in mask THEN new[b] ELSE old[b]]

\* the memory after the commits up to a timestamp
Snapshot(k) ==
    [a \in Addresses |->
        LET writers == {v \in 1..k \cap DOMAIN log : a \in DOMAIN log[v].writes}
        IN IF writers = {} THEN base[a]
           ELSE log[CHOOSE v \in writers : \A w \in writers : w <= v].writes[a]]

NoCommit == [reads |-> {}, held |-> {}, writes |-> <<>>]

--------------------------------------------------------------------------------
Goto(t, call) == at' = [at EXCEPT ![t] = call]
Ready == [pc |-> "ready"]
At(t, pc) == at[t].pc = pc
Active(t) == At(t, "ready") /\ tx[t].status = "ACTIVE"

\* stm_init
Init ==
    /\ setting \in Settings
    /\ clock = 0
    /\ locks = [s \in Stripes |-> Free(0)]
    /\ memory = [a \in Addresses |-> Zero]
    /\ tx = [t \in Threads |-> Reset]
    /\ at = [t \in Threads |-> [pc |-> "out"]]
    /\ tx_count = 0
    /\ tx_overflow = FALSE
    /\ seen = [t \in Threads |-> {}]
    /\ held = [t \in Threads |-> {}]
    /\ base = memory
    /\ log = <<>>

\* stm_rollback: the thread drops the locks of its write set, one after the other
Rollback(t) == Goto(t, [pc |-> "rollback", i |-> 1])

\* all transactions are stopped: the clock restarts at 0
ResetClock(calls) ==
    /\ locks' = [s \in Stripes |-> Free(0)]
    /\ clock' = 0
    /\ tx_overflow' = FALSE
    /\ base' = memory
    /\ log' = <<>>
    /\ at' = [t \in Threads |-> IF calls[t].pc = "asleep" THEN [pc |-> "awake"] ELSE calls[t]]

\* stm_init_thread; stm_rollover_enter waits as long as a reset is due
InitThread(t) ==
    /\ At(t, "out")
    /\ ~tx_overflow
    /\ tx_count' = tx_count + 1
    /\ tx' = [tx EXCEPT ![t] = Reset]
    /\ Goto(t, Ready)
    /\ UNCHANGED <<setting, clock, locks, memory, tx_overflow, history>>

\* stm_exit_thread
ExitThread(t) ==
    /\ At(t, "ready")
    /\ tx[t].status # "ACTIVE"
    /\ Client(t).ends
    /\ tx_count' = tx_count - 1
    /\ LET calls == [at EXCEPT ![t] = [pc |-> "out"]]
       IN IF tx_overflow /\ tx_count' = 0
          THEN ResetClock(calls)
          ELSE at' = calls /\ UNCHANGED <<clock, locks, tx_overflow, base, log>>
    /\ tx' = [tx EXCEPT ![t] = Reset]
    /\ UNCHANGED <<setting, memory, seen, held>>

\* stm_elastic_start and stm_normal_start up to the label start
Start(t, type, ro) ==
    /\ At(t, "ready")
    /\ tx[t].status # "ACTIVE"
    /\ tx[t].starts < Client(t).starts
    /\ tx' = [tx EXCEPT ![t].type = type, ![t].status = "ACTIVE", ![t].nesting = 1, ![t].ro = ro,
                        ![t].starts = @ + 1]
    /\ Goto(t, [pc |-> "start"])
    /\ UNCHANGED <<clock, locks, memory, unmoved, history>>

\* a start inside a transaction: the type changes all the same
Nest(t, type) ==
    /\ Active(t)
    /\ tx[t].nesting = 1
    /\ tx' = [tx EXCEPT ![t].type = type, ![t].nesting = @ + 1,
                        ![t].lastraddr = IF type = "EL" THEN NoWindow ELSE @,
                        ![t].marker = IF type = "EL" THEN 1 ELSE @]
    /\ UNCHANGED <<clock, locks, memory, at, unmoved, history>>

\* from the label start
ReadClock(t) ==
    /\ At(t, "start")
    /\ IF clock >= VERSION_MAX
       THEN Goto(t, [pc |-> "overflow"]) /\ UNCHANGED tx
       ELSE /\ tx' = [tx EXCEPT ![t].start = clock, ![t].end = clock,
                                ![t].can_extend = tx[t].type = "NL", ![t].reallocate = FALSE]
            /\ Goto(t, Ready)
    /\ UNCHANGED <<clock, locks, memory, unmoved, history>>

\* mutated: the thread counts itself among those that are still running
OverflowEarly(t) ==
    /\ At(t, "overflow")
    /\ IF tx_count <= 2
       THEN /\ ResetClock([at EXCEPT ![t] = [pc |-> "start"]])
            /\ UNCHANGED tx_count
       ELSE /\ tx_count' = tx_count - 1
            /\ tx_overflow' = TRUE
            /\ Goto(t, [pc |-> "asleep"])
            /\ UNCHANGED <<clock, locks, base, log>>
    /\ UNCHANGED <<setting, memory, tx, seen, held>>

\* stm_overflow up to its wait: the last thread resets the clock, the others sleep
Overflow(t) ==
    /\ At(t, "overflow")
    /\ IF tx_count = 1
       THEN /\ ResetClock([at EXCEPT ![t] = [pc |-> "start"]])
            /\ UNCHANGED tx_count
       ELSE /\ tx_count' = tx_count - 1
            /\ tx_overflow' = TRUE
            /\ Goto(t, [pc |-> "asleep"])
            /\ UNCHANGED <<clock, locks, base, log>>
    /\ UNCHANGED <<setting, memory, tx, seen, held>>

\* pthread_cond_wait may return without a broadcast
SpuriousWakeup(t) ==
    /\ At(t, "asleep")
    /\ Goto(t, [pc |-> "awake"])
    /\ UNCHANGED <<clock, locks, memory, tx, unmoved, history>>

\* the wait is over and is not repeated
Awake(t) ==
    /\ At(t, "awake")
    /\ tx_count' = tx_count + 1
    /\ Goto(t, [pc |-> "start"])
    /\ UNCHANGED <<setting, clock, locks, memory, tx, tx_overflow, history>>

--------------------------------------------------------------------------------
(* rollback, validation                                                        *)

RollbackStep(t) ==
    /\ At(t, "rollback")
    /\ LET i == at[t].i
           w == tx[t].w_set[i]
       IN /\ locks' = IF i <= Len(tx[t].w_set) /\ w.next = 0
                      THEN [locks EXCEPT ![w.lock] = Free(w.version)] ELSE locks
          /\ IF i < Len(tx[t].w_set)
             THEN Goto(t, [at[t] EXCEPT !.i = i + 1]) /\ UNCHANGED <<tx, seen, held>>
             ELSE /\ tx' = [tx EXCEPT ![t] = Ended(t)]
                  /\ seen' = [seen EXCEPT ![t] = {}]
                  /\ held' = [held EXCEPT ![t] = {}]
                  /\ Goto(t, Ready)
    /\ UNCHANGED <<clock, memory, unmoved, base, log>>

\* stm_abort
Abort(t) ==
    /\ Active(t)
    /\ Client(t).aborts
    /\ Rollback(t)
    /\ UNCHANGED <<clock, locks, memory, tx, unmoved, history>>

\* mutated: a lock of another transaction is taken for one of ours
ValidOwned(t, r) == IsOwned(locks[r.lock]) \/ locks[r.lock] = Free(r.version)

\* stm_validate, one entry of the read set: ours, or free at the version that was read
Valid(t, r) == locks[r.lock].owner = t \/ locks[r.lock] = Free(r.version)

Validate(t) ==
    /\ At(t, "validate")
    /\ at[t].i <= Len(tx[t].r_set)
    /\ IF Valid(t, tx[t].r_set[at[t].i]) THEN Goto(t, [at[t] EXCEPT !.i = @ + 1]) ELSE Rollback(t)
    /\ UNCHANGED <<clock, locks, memory, tx, unmoved, history>>

Validated(t) == At(t, "validate") /\ at[t].i > Len(tx[t].r_set)

--------------------------------------------------------------------------------
(* stm_normal_load                                                             *)

\* what a load under a lock of its own returns from memory: the bytes that it has not
\* stored, which a store with a mask has merged into its entry
HeldBytes(t, a) ==
    LET same == {i \in DOMAIN tx[t].w_set : tx[t].w_set[i].addr = a /\ tx[t].w_set[i].mask # {}}
        own == {b \in Bytes : \E i \in same : b \in tx[t].w_set[i].mask}
        word == IF same = {} THEN memory[a] ELSE tx[t].w_set[CHOOSE i \in same : TRUE].value
    IN {[addr |-> a, byte |-> b, value |-> word[b]] : b \in Bytes \ own}

\* the label restart_no_load; a load under a lock of its own makes no entry in the read set
LoadLocked(t, a, l) ==
    /\ IF ~IsOwned(l) THEN Goto(t, [pc |-> "value", addr |-> a, l |-> l])
       ELSE IF l.owner = t THEN Goto(t, Ready)
       ELSE Rollback(t)
    /\ held' = IF l.owner = t THEN [held EXCEPT ![t] = @ \cup HeldBytes(t, a)] ELSE held

Accessed(t) == [tx EXCEPT ![t].accesses = @ + 1]

NormalLoad(t, a) ==
    /\ Active(t)
    /\ tx[t].type = "NL"
    /\ tx[t].accesses < Client(t).accesses
    /\ tx' = Accessed(t)
    /\ LoadLocked(t, a, locks[Stripe[a]])
    /\ UNCHANGED <<clock, locks, memory, unmoved, seen, base, log>>

LoadValue(t) ==
    /\ At(t, "value")
    /\ Goto(t, [pc |-> "check", addr |-> at[t].addr, l |-> at[t].l, value |-> memory[at[t].addr]])
    /\ UNCHANGED <<clock, locks, memory, tx, unmoved, history>>

\* the version is good: into the read set
Loaded(t, version) ==
    /\ tx' = IF tx[t].ro THEN tx
             ELSE [tx EXCEPT ![t].r_set = Append(@, [version |-> version, lock |-> Stripe[at[t].addr]])]
    /\ seen' = [seen EXCEPT ![t] = @ \cup {[addr |-> at[t].addr, value |-> at[t].value]}]
    /\ Goto(t, Ready)
    /\ UNCHANGED held

LoadCheck(t) ==
    /\ At(t, "check")
    /\ LET l == at[t].l
           l2 == locks[Stripe[at[t].addr]]
       IN IF l # l2 THEN LoadLocked(t, at[t].addr, l2) /\ UNCHANGED <<tx, seen>>
          ELSE IF l.version <= tx[t].end THEN Loaded(t, l.version)
          ELSE /\ IF tx[t].ro \/ ~tx[t].can_extend
                  THEN Rollback(t)
                  ELSE Goto(t, [at[t] EXCEPT !.pc = "extend"])
               /\ UNCHANGED <<tx, seen, held>>
    /\ UNCHANGED <<clock, locks, memory, unmoved, base, log>>

\* stm_extend
Extend(t) ==
    /\ At(t, "extend")
    /\ IF clock >= VERSION_MAX
       THEN Rollback(t)
       ELSE Goto(t, [pc |-> "validate", for |-> "load", i |-> 1, now |-> clock,
                     addr |-> at[t].addr, l |-> at[t].l, value |-> at[t].value])
    /\ UNCHANGED <<clock, locks, memory, tx, unmoved, history>>

Extended(t) ==
    /\ Validated(t)
    /\ at[t].for = "load"
    /\ tx' = [tx EXCEPT ![t].end = at[t].now]
    /\ Goto(t, [pc |-> "recheck", addr |-> at[t].addr, l |-> at[t].l, value |-> at[t].value])
    /\ UNCHANGED <<clock, locks, memory, unmoved, history>>

\* mutated: the value is used as it was read before the extension
LoadRecheckNot(t) ==
    /\ At(t, "recheck")
    /\ Loaded(t, at[t].l.version)
    /\ UNCHANGED <<clock, locks, memory, unmoved, base, log>>

\* the value was not yet in the read set that was validated; if the lock has changed, the
\* value is loaded again under the lock as it was before
LoadRecheck(t) ==
    /\ At(t, "recheck")
    /\ LET l == locks[Stripe[at[t].addr]]
       IN IF l # at[t].l THEN LoadLocked(t, at[t].addr, at[t].l) /\ UNCHANGED <<tx, seen>>
          ELSE Loaded(t, l.version)
    /\ UNCHANGED <<clock, locks, memory, unmoved, base, log>>

--------------------------------------------------------------------------------
(* stm_elastic_load                                                            *)

ElasticLoad(t, a) ==
    /\ Active(t)
    /\ tx[t].type = "EL"
    /\ tx[t].accesses < Client(t).accesses
    /\ tx' = Accessed(t)
    /\ Goto(t, [pc |-> "verLock", addr |-> a, i |-> 0, l |-> Free(0), value |-> Zero, x |-> None, ts |-> 0])
    /\ UNCHANGED <<clock, locks, memory, unmoved, history>>

\* stm_vervalver waits until the lock is free
VerLock(t) ==
    /\ At(t, "verLock")
    /\ LET l == locks[Stripe[at[t].addr]]
       IN ~IsOwned(l) /\ Goto(t, [at[t] EXCEPT !.pc = "verValue", !.l = l])
    /\ UNCHANGED <<clock, locks, memory, tx, unmoved, history>>

VerValue(t) ==
    /\ At(t, "verValue")
    /\ Goto(t, [at[t] EXCEPT !.pc = "verCheck", !.value = memory[at[t].addr]])
    /\ UNCHANGED <<clock, locks, memory, tx, unmoved, history>>

\* the load of x is done
ElasticLoaded(t, x, start) ==
    /\ tx' = [tx EXCEPT ![t].start = start, ![t].lastraddr[tx[t].marker] = x,
                        ![t].marker = (@ % ELASTICITY) + 1]
    /\ Goto(t, Ready)

\* on to the next address of the rotating buffer, if there is one
CheckWindow(t, x, ts, i) ==
    LET further == {j \in i + 1..ELASTICITY : tx[t].lastraddr[j].addr # NULL}
        j == CHOOSE j \in further : \A k \in further : j <= k
    IN IF further = {} THEN ElasticLoaded(t, x, ts)
       ELSE /\ Goto(t, [pc |-> "verLock", addr |-> tx[t].lastraddr[j].addr, i |-> j, l |-> Free(0),
                        value |-> Zero, x |-> x, ts |-> ts])
            /\ UNCHANGED tx

VerCheck(t) ==
    /\ At(t, "verCheck")
    /\ LET c == at[t]
           l == locks[Stripe[c.addr]]
           x == [addr |-> c.addr, value |-> c.value]
       IN IF l # c.l
          THEN /\ Goto(t, IF IsOwned(l) THEN [c EXCEPT !.pc = "verLock"]
                          ELSE [c EXCEPT !.pc = "verValue", !.l = l])
               /\ UNCHANGED tx
          ELSE IF c.i = 0
          THEN IF l.version > tx[t].start THEN CheckWindow(t, x, l.version, 0)
               ELSE ElasticLoaded(t, x, tx[t].start)
          ELSE IF l.version > tx[t].start THEN Rollback(t) /\ UNCHANGED tx
          ELSE CheckWindow(t, c.x, c.ts, c.i)
    /\ UNCHANGED <<clock, locks, memory, unmoved, history>>

--------------------------------------------------------------------------------
(* stm_store, stm_store2                                                       *)

HasRead(t, s) == \E i \in DOMAIN tx[t].r_set : tx[t].r_set[i].lock = s

\* a new entry, linked behind entry prev of the same lock
AppendLinked(w_set, entry, prev) ==
    Append(IF prev = 0 THEN w_set ELSE [w_set EXCEPT ![prev].next = Len(w_set) + 1], entry)

Entry(c, version) ==
    [addr |-> c.addr, mask |-> c.mask, lock |-> Stripe[c.addr], version |-> version, next |-> 0,
     value |-> IF c.mask = {} THEN Zero ELSE Merge(memory[c.addr], c.value, c.mask)]

\* the first store of an elastic transaction checks the rotating buffer
Written(t, c) == Goto(t, IF c.elastic THEN [pc |-> "window"] ELSE Ready)

\* the write set is full: it is allocated anew at the next start
Reallocate(t, d) ==
    /\ tx' = [d EXCEPT ![t].size = @ * 2, ![t].reallocate = TRUE]
    /\ Rollback(t)

\* stm_write with a lock of our own
WriteOwned(t, d, c) ==
    LET w_set == d[t].w_set
        same == {i \in DOMAIN w_set : w_set[i].addr = c.addr}
        i == CHOOSE i \in same : TRUE
        prev == CHOOSE j \in DOMAIN w_set : w_set[j].lock = Stripe[c.addr] /\ w_set[j].next = 0
        old == IF w_set[i].mask = {} THEN memory[c.addr] ELSE w_set[i].value
    IN IF same # {}
       THEN /\ tx' = IF c.mask = {} THEN d
                     ELSE [d EXCEPT ![t].w_set[i].value = Merge(old, c.value, c.mask),
                                    ![t].w_set[i].mask = @ \cup c.mask]
            /\ Written(t, c)
       ELSE IF Len(w_set) = d[t].size THEN Reallocate(t, d)
       ELSE /\ tx' = [d EXCEPT ![t].w_set = AppendLinked(@, Entry(c, w_set[prev].version), prev)]
            /\ Written(t, c)

\* stm_write up to the compare-and-swap, d the descriptors before it
Write(t, d, c) ==
    LET s == Stripe[c.addr]
        l == locks[s]
    IN IF d[t].ro THEN Rollback(t) /\ tx' = d
       ELSE IF l.owner = t THEN WriteOwned(t, d, c)
       ELSE IF IsOwned(l) THEN Rollback(t) /\ tx' = d
       ELSE IF l.version > d[t].end /\ (~d[t].can_extend \/ HasRead(t, s)) THEN Rollback(t) /\ tx' = d
       ELSE IF Len(d[t].w_set) = d[t].size THEN Reallocate(t, d)
       ELSE Goto(t, [c EXCEPT !.pc = "cas", !.l = l]) /\ tx' = d

Store(t, a, value, mask) ==
    /\ Active(t)
    /\ tx[t].accesses < Client(t).accesses
    /\ Write(t, [tx EXCEPT ![t].accesses = @ + 1, ![t].type = "NL"],
             [pc |-> "write", addr |-> a, value |-> value, mask |-> mask, l |-> Free(0),
              elastic |-> tx[t].type = "EL"])
    /\ UNCHANGED <<clock, locks, memory, unmoved, history>>

WriteAgain(t) ==
    /\ At(t, "write")
    /\ Write(t, tx, at[t])
    /\ UNCHANGED <<clock, locks, memory, unmoved, history>>

WriteCas(t) ==
    /\ At(t, "cas")
    /\ LET c == at[t]
           s == Stripe[c.addr]
       IN IF locks[s] = c.l
          THEN /\ locks' = [locks EXCEPT ![s] = Owned(t, Len(tx[t].w_set) + 1)]
               /\ tx' = [tx EXCEPT ![t].w_set = Append(@, Entry(c, c.l.version))]
               /\ Written(t, c)
          ELSE Goto(t, [c EXCEPT !.pc = "write", !.l = Free(0)]) /\ UNCHANGED <<locks, tx>>
    /\ UNCHANGED <<clock, memory, unmoved, history>>

\* the loop over the rotating buffer in stm_elastic_store: it empties the buffer at the
\* end of its first pass, so that only the first address is ever checked
StoreWindow(t) ==
    /\ At(t, "window")
    /\ LET y == tx[t].lastraddr[1]
           l == locks[Stripe[y.addr]]
           emptied == [tx EXCEPT ![t].lastraddr = NoWindow]
       IN IF y.addr = NULL THEN tx' = emptied /\ Goto(t, Ready)
          ELSE IF l.owner = t THEN Goto(t, Ready) /\ UNCHANGED tx
          ELSE IF IsOwned(l) \/ l.version > tx[t].start THEN Rollback(t) /\ UNCHANGED tx
          ELSE tx' = emptied /\ Goto(t, Ready)
    /\ UNCHANGED <<clock, locks, memory, unmoved, history>>

--------------------------------------------------------------------------------
(* stm_commit                                                                  *)

Commit(t) ==
    /\ Active(t)
    /\ IF tx[t].nesting > 1
       THEN tx' = [tx EXCEPT ![t].nesting = @ - 1] /\ UNCHANGED <<at, seen, held>>
       ELSE IF tx[t].type = "EL" \/ tx[t].w_set = <<>>
       THEN /\ tx' = [tx EXCEPT ![t] = Ended(t)]
            /\ seen' = [seen EXCEPT ![t] = {}]
            /\ held' = [held EXCEPT ![t] = {}]
            /\ UNCHANGED at
       ELSE Goto(t, [pc |-> "timestamp"]) /\ UNCHANGED <<tx, seen, held>>
    /\ UNCHANGED <<clock, locks, memory, unmoved, base, log>>

\* what the commit with timestamp v does to the history
Decided(t, v) ==
    LET written == {i \in DOMAIN tx[t].w_set : tx[t].w_set[i].mask # {}}
        entry(a) == CHOOSE i \in written : tx[t].w_set[i].addr = a
    IN [reads |-> seen[t], held |-> held[t],
        writes |-> [a \in {tx[t].w_set[i].addr : i \in written} |-> tx[t].w_set[entry(a)].value]]

\* FETCH_INC_CLOCK; the reads need no validation if nothing was committed since the start
Timestamp(t) ==
    /\ At(t, "timestamp")
    /\ clock' = clock + 1
    /\ IF clock' >= VERSION_MAX THEN Rollback(t) /\ log' = Append(log, NoCommit)
       ELSE IF tx[t].start = clock
       THEN Goto(t, [pc |-> "writeBack", i |-> 1, v |-> clock']) /\ log' = Append(log, Decided(t, clock'))
       ELSE /\ Goto(t, [pc |-> "validate", for |-> "commit", i |-> 1, now |-> clock'])
            /\ log' = Append(log, NoCommit)
    /\ UNCHANGED <<locks, memory, tx, unmoved, seen, held, base>>

CommitValidated(t) ==
    /\ Validated(t)
    /\ at[t].for = "commit"
    /\ Goto(t, [pc |-> "writeBack", i |-> 1, v |-> at[t].now])
    /\ log' = [log EXCEPT ![at[t].now] = Decided(t, at[t].now)]
    /\ UNCHANGED <<clock, locks, memory, tx, unmoved, seen, held, base>>

WriteBack(t) ==
    /\ At(t, "writeBack")
    /\ LET w == tx[t].w_set[at[t].i]
       IN memory' = IF w.mask # {} THEN [memory EXCEPT ![w.addr] = w.value] ELSE memory
    /\ Goto(t, [at[t] EXCEPT !.pc = "release"])
    /\ UNCHANGED <<clock, locks, tx, unmoved, history>>

\* the lock is dropped with the last address it covers
Release(t) ==
    /\ At(t, "release")
    /\ LET w == tx[t].w_set[at[t].i]
       IN locks' = IF w.next = 0 THEN [locks EXCEPT ![w.lock] = Free(at[t].v)] ELSE locks
    /\ IF at[t].i < Len(tx[t].w_set)
       THEN Goto(t, [at[t] EXCEPT !.pc = "writeBack", !.i = @ + 1]) /\ UNCHANGED <<tx, seen, held>>
       ELSE /\ tx' = [tx EXCEPT ![t] = Ended(t)]
            /\ seen' = [seen EXCEPT ![t] = {}]
            /\ held' = [held EXCEPT ![t] = {}]
            /\ Goto(t, Ready)
    /\ UNCHANGED <<clock, memory, unmoved, base, log>>

--------------------------------------------------------------------------------
Call(t) ==
    \/ InitThread(t) \/ ExitThread(t) \/ Commit(t) \/ Abort(t)
    \/ \E type \in Client(t).types, ro \in Client(t).ro : Start(t, type, ro)
    \/ \E type \in Client(t).nested : Nest(t, type)
    \/ \E a \in Addresses :
        \/ NormalLoad(t, a) \/ ElasticLoad(t, a)
        \/ \E mask \in Client(t).masks : Store(t, a, Word(Client(t).byte), mask)

Step(t) ==
    \/ ReadClock(t) \/ Overflow(t) \/ SpuriousWakeup(t) \/ Awake(t)
    \/ RollbackStep(t) \/ Validate(t)
    \/ LoadValue(t) \/ LoadCheck(t) \/ Extend(t) \/ Extended(t) \/ LoadRecheck(t)
    \/ VerLock(t) \/ VerValue(t) \/ VerCheck(t)
    \/ WriteAgain(t) \/ WriteCas(t) \/ StoreWindow(t)
    \/ Timestamp(t) \/ CommitValidated(t) \/ WriteBack(t) \/ Release(t)

Next == \E t \in Threads : Call(t) \/ Step(t)

Spec == Init /\ [][Next]_vars

--------------------------------------------------------------------------------
Later(v, w) == IF v > w THEN v ELSE w

\* An owned lock leads to an entry for it in the write set of a transaction that has not
\* ended, so that no lock outlives its owner; a free lock holds a version that the clock
\* has reached, also after the clock was reset under the locks; and tx_count counts the
\* threads that may use the locks, which is why the last one may reset them.
LocksAnchored ==
    /\ tx_count = Cardinality({t \in Threads : at[t].pc \notin {"out", "asleep", "awake"}})
    /\ \A s \in Stripes :
        LET l == locks[s]
        IN /\ IsOwned(l) => /\ l.entry \in DOMAIN tx[l.owner].w_set
                            /\ tx[l.owner].w_set[l.entry].lock = s
           /\ ~IsOwned(l) => l.version \in 0..clock

\* What a running transaction has read through its read set is one state of the memory,
\* that at the end of its validity range, and what an elastic one has in its rotating buffer
\* is that at its start timestamp. What it has read from memory under a lock of its own is
\* the state at the version of that lock, if this is later: a store extends no range. Other
\* commits lock, write back and release between the loads of the lock, the value and the
\* lock, and during an extension.
Opaque ==
    \A t \in Threads : tx[t].status = "ACTIVE" /\ ~At(t, "rollback") =>
        /\ \A r \in seen[t] : r.value = Snapshot(tx[t].end)[r.addr]
        /\ \A r \in held[t] : \E i \in DOMAIN tx[t].w_set :
            /\ tx[t].w_set[i].lock = Stripe[r.addr]
            /\ r.value = Snapshot(Later(tx[t].w_set[i].version, tx[t].end))[r.addr][r.byte]
        /\ tx[t].type = "EL" =>
            \A i \in 1..ELASTICITY : LET y == tx[t].lastraddr[i] IN
                y.addr # NULL => y.value = Snapshot(tx[t].start)[y.addr]

\* The transactions that commit with a timestamp could have run one after the other in
\* the order of their timestamps: each has read what its predecessors have written, also
\* under locks of its own, though it reads before it takes its timestamp and they may
\* still be writing back.
Serializable ==
    \A v \in DOMAIN log :
        /\ \A r \in log[v].reads : r.value = Snapshot(v - 1)[r.addr]
        /\ \A r \in log[v].held : r.value = Snapshot(v - 1)[r.addr][r.byte]
=============================================================================
