--------------------------------- MODULE Gc ---------------------------------
(***************************************************************************)
(* Memory reclamation of E-STM 0.2.4.3, as built by its Makefile (EPOCH_GC,*)
(* NDEBUG): the epochs and regions of gc.c, which estm-0.3.0 shares, and   *)
(* its clients, the nodes that transactions allocate and free (mod_mem.c)  *)
(* and the write sets of stm.c. A block that a transaction unlinks may     *)
(* still be held by another one; it is handed to gc_free with the time of  *)
(* the clock and returned to malloc once every transaction began later.    *)
(*                                                                         *)
(* Every atomic access to the array of threads or to the clock is a step,  *)
(* those under tx_count_mutex are one. What a transaction reads and        *)
(* whether it commits is left open, as far as the locks of the Estm module *)
(* allow it. The read set and the descriptor, handed over with the write   *)
(* set at a thread's end, are left out: nobody else ever sees them.        *)
(***************************************************************************)
EXTENDS Integers, Sequences, FiniteSets, SequencesExt

CONSTANTS
    Thread,
    Addr,           \* the blocks of memory, of any kind
    Start,          \* the nodes that are in the list before the first transaction
    MAX_THREADS,    \* 1024 in the code
    VERSION_MAX,    \* where the clock overflows
    MaxStarts,      \* bound: transactions that each thread starts
    MaxLives        \* bound: how often each thread is created

ASSUME GcAssumption ==
    /\ Start \subseteq Addr
    /\ IsFiniteSet(Thread)
    /\ MAX_THREADS \in Nat /\ Cardinality(Thread) <= MAX_THREADS
    /\ VERSION_MAX \in Nat \ {0}
    /\ MaxStarts \in [Thread -> Nat] /\ MaxLives \in [Thread -> Nat]

VARIABLES
    clock, tx_count, tx_overflow,
    threads,        \* per slot: its use, its epoch, its regions from head to tail
    nb_threads,
    heap,           \* the blocks that malloc may return
    linked,         \* the nodes that a transaction reaches from the root of the list
    at,             \* where each thread is, with the locals of its call
    tx,             \* per thread: slot, start, write set, references, mem_info, two counts
    exited,         \* stm_exit was called
    raced           \* gc_reset met a thread that was using its regions

vars == <<clock, tx_count, tx_overflow, threads, nb_threads, heap, linked, at, tx, exited, raced>>
rollover == <<tx_count, tx_overflow, exited, raced>>
memory == <<heap, linked>>

Slot == 0 .. MAX_THREADS - 1
\* later than any time of the clock
EPOCH_MAX == VERSION_MAX + Cardinality(Thread) + 1
NULL == "NULL"
None == {}

At(t, pc) == at[t].pc = pc
Goto(t, call) == at' = [at EXCEPT ![t] = call]
Go(t, pc) == Goto(t, [pc |-> pc])
Mine(t) == threads[tx[t].idx]
BlocksOf(regions) == UNION {regions[k].blocks : k \in DOMAIN regions}
AllBlocks == UNION {BlocksOf(threads[s].regions) : s \in Slot}
\* nodes whose locks thread t holds: it unlinks and overwrites them when it commits
Freed(t) == tx[t].freed
LockedByOthers(t) == UNION {Freed(u) : u \in Thread \ {t}}

\* stm_init, after main built the list
Init ==
    /\ clock = 0 /\ tx_count = 0 /\ tx_overflow = FALSE
    /\ threads = [s \in Slot |-> [used |-> NULL, ts |-> EPOCH_MAX, regions |-> <<>>]]
    /\ nb_threads = 0
    /\ linked = Start /\ heap = Addr \ Start
    /\ at = [t \in Thread |-> [pc |-> "out"]]
    /\ tx = [t \in Thread |-> [idx |-> 0, start |-> 0, w_set |-> None, reallocate |-> FALSE,
                               holds |-> {}, allocated |-> {}, freed |-> {},
                               starts |-> 0, lives |-> 0]]
    /\ exited = FALSE /\ raced = FALSE

-----------------------------------------------------------------------------
(* gc_init_thread: the first slot that nobody uses *)

InitThread(t) ==
    /\ At(t, "out") /\ tx[t].lives < MaxLives[t] /\ ~exited
    /\ nb_threads' = nb_threads + 1
    /\ Goto(t, [pc |-> "slot", i |-> 0])
    /\ tx' = [tx EXCEPT ![t].lives = @ + 1]
    /\ UNCHANGED <<clock, threads, memory, rollover>>

NextSlot(t) == Goto(t, [pc |-> "slot", i |-> (at[t].i + 1) % MAX_THREADS])

LoadUsed(t) ==
    /\ At(t, "slot")
    /\ LET used == threads[at[t].i].used
       IN IF used = "BUSY" THEN NextSlot(t)
          ELSE Goto(t, [pc |-> "cas", i |-> at[t].i, used |-> used])
    /\ UNCHANGED <<clock, threads, nb_threads, memory, tx, rollover>>

TakeSlot(t) ==
    /\ At(t, "cas")
    /\ LET i == at[t].i
       IN IF threads[i].used = at[t].used
          THEN /\ threads' = [threads EXCEPT ![i].used = "BUSY"]
               /\ tx' = [tx EXCEPT ![t].idx = i]
               /\ Go(t, "epoch")
          ELSE NextSlot(t) /\ UNCHANGED <<threads, tx>>
    /\ UNCHANGED <<clock, nb_threads, memory, rollover>>

CurrentEpoch(t) ==
    /\ At(t, "epoch")
    /\ Goto(t, [pc |-> "bound", epoch |-> clock])
    /\ UNCHANGED <<clock, threads, nb_threads, memory, tx, rollover>>

LowerBound(t) ==
    /\ At(t, "bound")
    /\ threads' = [threads EXCEPT ![tx[t].idx].ts = at[t].epoch]
    /\ Go(t, "enter")
    /\ UNCHANGED <<clock, nb_threads, memory, tx, rollover>>

\* stm_init_thread after gc_init_thread, with stm_rollover_enter
Enter(t) ==
    /\ At(t, "enter") /\ ~tx_overflow
    /\ tx_count' = tx_count + 1
    /\ \E a \in heap : heap' = heap \ {a} /\ tx' = [tx EXCEPT ![t].w_set = {a}]
    /\ Go(t, "idle")
    /\ UNCHANGED <<clock, tx_overflow, threads, nb_threads, linked, exited, raced>>

-----------------------------------------------------------------------------
(* gc_free(addr, epoch) of each block of todo, then on to the step "after" *)

Hand(t, todo, epoch, after) ==
    Goto(t, [pc |-> "free", todo |-> todo, epoch |-> epoch, after |-> after])

\* the regions with block a handed over at epoch: in a region at the tail, unless
\* the head is not older
WithBlock(regions, a, epoch) ==
    IF regions = <<>> \/ regions[1].ts < epoch
    THEN Append(regions, [ts |-> epoch, blocks |-> {a}])
    ELSE [regions EXCEPT ![1].blocks = @ \cup {a}]

GcFree(t) ==
    /\ At(t, "free")
    /\ \E a \in at[t].todo :
        /\ threads' = [threads EXCEPT ![tx[t].idx].regions = WithBlock(@, a, at[t].epoch)]
        /\ Goto(t, [at[t] EXCEPT !.pc = "cleanup", !.todo = @ \ {a}])
    /\ UNCHANGED <<clock, nb_threads, memory, tx, rollover>>

\* mutated: the first slot is left out
CleanupFromOne(t) ==
    /\ At(t, "cleanup")
    /\ Goto(t, [pc |-> "used", todo |-> at[t].todo, epoch |-> at[t].epoch, after |-> at[t].after,
                min |-> clock, i |-> 1])
    /\ UNCHANGED <<clock, threads, nb_threads, memory, tx, rollover>>

\* gc_cleanup reads the clock, then gc_compute_min each slot
Cleanup(t) ==
    /\ At(t, "cleanup")
    /\ Goto(t, [pc |-> "used", todo |-> at[t].todo, epoch |-> at[t].epoch, after |-> at[t].after,
                min |-> clock, i |-> 0])
    /\ UNCHANGED <<clock, threads, nb_threads, memory, tx, rollover>>

MinUsed(t) ==
    /\ At(t, "used")
    /\ LET i == at[t].i
       IN Goto(t, IF i \notin Slot \/ threads[i].used = NULL THEN [at[t] EXCEPT !.pc = "clean"]
                  ELSE IF threads[i].used = "BUSY" THEN [at[t] EXCEPT !.pc = "ts"]
                  ELSE [at[t] EXCEPT !.i = i + 1])
    /\ UNCHANGED <<clock, threads, nb_threads, memory, tx, rollover>>

MinTs(t) ==
    /\ At(t, "ts")
    /\ LET ts == threads[at[t].i].ts
       IN Goto(t, [at[t] EXCEPT !.pc = "used", !.i = @ + 1, !.min = IF ts < @ THEN ts ELSE @])
    /\ UNCHANGED <<clock, threads, nb_threads, memory, tx, rollover>>

\* the regions that are left: from the first that is not older than min
Left(regions, min) ==
    LET k == SelectInSeq(regions, LAMBDA r : ~(min > r.ts))
    IN IF k = 0 THEN <<>> ELSE SubSeq(regions, k, Len(regions))

\* gc_cleanup_thread
Clean(t) ==
    /\ At(t, "clean")
    /\ LET left == Left(Mine(t).regions, at[t].min)
       IN /\ threads' = [threads EXCEPT ![tx[t].idx].regions = left]
          /\ heap' = heap \cup (BlocksOf(Mine(t).regions) \ BlocksOf(left))
    /\ IF at[t].todo = {} THEN Go(t, at[t].after)
       ELSE Hand(t, at[t].todo, at[t].epoch, at[t].after)
    /\ UNCHANGED <<clock, nb_threads, linked, tx, rollover>>

-----------------------------------------------------------------------------
(* A transaction *)

\* stm_normal_start up to its overflow check, again after an overflow; a write set
\* that was too small is replaced
StartTx(t) ==
    /\ \/ At(t, "idle") /\ tx[t].starts < MaxStarts[t]
       \/ At(t, "start")
    /\ LET late == clock >= VERSION_MAX
           replace == tx[t].reallocate /\ ~late
       IN /\ tx' = [tx EXCEPT ![t].start = clock,
                              ![t].starts = IF At(t, "idle") THEN @ + 1 ELSE @,
                              ![t].w_set = IF replace THEN None ELSE @,
                              ![t].reallocate = @ /\ late]
          /\ IF late THEN Go(t, "overflow")
             ELSE IF replace THEN Hand(t, tx[t].w_set, clock, "begin") ELSE Go(t, "begin")
    /\ UNCHANGED <<clock, threads, nb_threads, memory, rollover>>

\* gc_set_epoch, after stm_allocate_ws_entries
SetEpoch(t) ==
    /\ At(t, "begin")
    /\ IF tx[t].w_set # None THEN UNCHANGED <<heap, tx>>
       ELSE \E a \in heap : heap' = heap \ {a} /\ tx' = [tx EXCEPT ![t].w_set = {a}]
    /\ threads' = [threads EXCEPT ![tx[t].idx].ts = tx[t].start]
    /\ Go(t, "active")
    /\ UNCHANGED <<clock, nb_threads, linked, rollover>>

\* stm_load of a pointer to a node
Load(t) ==
    /\ At(t, "active")
    /\ \E n \in linked \ (tx[t].holds \cup LockedByOthers(t)) :
        tx' = [tx EXCEPT ![t].holds = @ \cup {n}]
    /\ UNCHANGED <<clock, threads, nb_threads, memory, at, rollover>>

StmMalloc(t) ==
    /\ At(t, "active")
    /\ \E n \in heap :
        /\ heap' = heap \ {n}
        /\ tx' = [tx EXCEPT ![t].allocated = @ \cup {n}]
    /\ UNCHANGED <<clock, threads, nb_threads, linked, at, rollover>>

\* stm_free2 of a node that the transaction unlinks: it takes the locks of the node
StmFree(t) ==
    /\ At(t, "active")
    /\ \E n \in (tx[t].holds \cap linked) \ (Freed(t) \cup LockedByOthers(t)) :
        tx' = [tx EXCEPT ![t].freed = @ \cup {n}]
    /\ UNCHANGED <<clock, threads, nb_threads, memory, at, rollover>>

\* stm_rollback with on_abort, back to before the start of the transaction
Rollback(t, full) ==
    /\ heap' = heap \cup tx[t].allocated
    /\ tx' = [tx EXCEPT ![t].holds = {}, ![t].allocated = {}, ![t].freed = {},
                        ![t].reallocate = full]
    /\ Go(t, "idle")

\* for a conflict, or because stm_write finds the write set full
Abort(t) ==
    /\ At(t, "active")
    /\ \E full \in BOOLEAN : Rollback(t, full)
    /\ UNCHANGED <<clock, threads, nb_threads, linked, rollover>>

\* stm_validate: what it read is still there and not locked
Validate(t) == tx[t].holds \subseteq linked \ LockedByOthers(t)

\* stm_normal_commit; a transaction may write without allocating or freeing a node
Commit(t) ==
    /\ At(t, "active")
    /\ \E writes \in {tx[t].allocated \cup Freed(t) # {}, TRUE} :
        /\ clock' = IF writes THEN clock + 1 ELSE clock
        /\ IF writes /\ (clock' >= VERSION_MAX \/ (tx[t].start # clock /\ ~Validate(t)))
           THEN Rollback(t, FALSE) /\ UNCHANGED linked
           ELSE /\ linked' = (linked \cup tx[t].allocated) \ Freed(t)
                /\ tx' = [tx EXCEPT ![t].holds = {}, ![t].allocated = {}]
                /\ Go(t, "on_commit")
                /\ UNCHANGED heap
    /\ UNCHANGED <<threads, nb_threads, rollover>>

\* on_commit of mod_mem: what the transaction freed, at the present time
OnCommit(t) ==
    /\ At(t, "on_commit")
    /\ tx' = [tx EXCEPT ![t].freed = {}]
    /\ IF Freed(t) = {} THEN Go(t, "idle") ELSE Hand(t, Freed(t), clock, "idle")
    /\ UNCHANGED <<clock, threads, nb_threads, memory, rollover>>

-----------------------------------------------------------------------------
(* The rollover of the clock *)

\* thread u is at a step on its own regions that no mutex protects
UsesRegions(u) == at[u].pc \in {"free", "clean", "release"}

Woken(calls) == [u \in Thread |-> IF calls[u].pc = "wait" THEN [pc |-> "woken"] ELSE calls[u]]

\* gc_reset, with the clock back at 0 and the waiting threads woken
GcReset(calls) ==
    /\ clock' = 0 /\ tx_overflow' = FALSE
    /\ threads' = [s \in Slot |->
         IF threads[s].used = NULL THEN threads[s]
         ELSE [threads[s] EXCEPT !.ts = EPOCH_MAX, !.regions = <<>>]]
    /\ heap' = heap \cup AllBlocks
    /\ raced' = \E u \in Thread : UsesRegions(u)
    /\ at' = Woken(calls)

\* stm_overflow, or its part before the wait
Overflow(t) ==
    /\ At(t, "overflow")
    /\ IF tx_count = 1
       THEN GcReset([at EXCEPT ![t] = [pc |-> "start"]]) /\ UNCHANGED tx_count
       ELSE /\ tx_overflow' = TRUE /\ tx_count' = tx_count - 1
            /\ Go(t, "wait")
            /\ UNCHANGED <<clock, threads, heap, raced>>
    /\ UNCHANGED <<nb_threads, linked, tx, exited>>

WakeUp(t) ==
    /\ At(t, "woken")
    /\ tx_count' = tx_count + 1
    /\ Go(t, "start")
    /\ UNCHANGED <<clock, tx_overflow, threads, nb_threads, memory, tx, exited, raced>>

-----------------------------------------------------------------------------
(* The end of a thread and of the process *)

\* stm_exit_thread with stm_rollover_exit
Exit(t) ==
    /\ At(t, "idle")
    /\ tx_count' = tx_count - 1
    /\ IF tx_overflow /\ tx_count = 1 THEN GcReset([at EXCEPT ![t] = [pc |-> "exit"]])
       ELSE Go(t, "exit") /\ UNCHANGED <<clock, tx_overflow, threads, heap, raced>>
    /\ UNCHANGED <<nb_threads, linked, tx, exited>>

FreeTx(t) ==
    /\ At(t, "exit")
    /\ tx' = [tx EXCEPT ![t].w_set = None, ![t].reallocate = FALSE, ![t].start = 0]
    /\ Hand(t, tx[t].w_set, clock, "leave")
    /\ UNCHANGED <<clock, threads, nb_threads, memory, rollover>>

\* gc_exit_thread: the epoch, then the slot
Leave(t) ==
    /\ At(t, "leave")
    /\ threads' = [threads EXCEPT ![tx[t].idx].ts = EPOCH_MAX]
    /\ Go(t, "release")
    /\ UNCHANGED <<clock, nb_threads, memory, tx, rollover>>

Release(t) ==
    /\ At(t, "release")
    /\ threads' = [threads EXCEPT ![tx[t].idx].used =
                     IF Mine(t).regions = <<>> THEN "FREE_EMPTY" ELSE "FREE_FULL"]
    /\ nb_threads' = nb_threads - 1
    /\ Go(t, "out")
    /\ tx' = [tx EXCEPT ![t].idx = 0]
    /\ UNCHANGED <<clock, memory, rollover>>

\* stm_exit, when main has joined its threads
GcExit ==
    /\ ~exited /\ \A t \in Thread : At(t, "out")
    /\ nb_threads = 0
    /\ exited' = TRUE
    /\ heap' = heap \cup AllBlocks
    /\ threads' = [s \in Slot |-> [threads[s] EXCEPT !.regions = <<>>]]
    /\ UNCHANGED <<clock, tx_count, tx_overflow, nb_threads, linked, at, tx, raced>>

\* once gc_reset met a thread that was using its regions, nothing is defined
Next ==
    /\ ~raced
    /\ \/ \E t \in Thread :
            \/ InitThread(t) \/ LoadUsed(t) \/ TakeSlot(t) \/ CurrentEpoch(t) \/ LowerBound(t)
            \/ Enter(t) \/ GcFree(t) \/ Cleanup(t) \/ MinUsed(t) \/ MinTs(t) \/ Clean(t)
            \/ StartTx(t) \/ SetEpoch(t) \/ Load(t) \/ StmMalloc(t) \/ StmFree(t) \/ Abort(t)
            \/ Commit(t) \/ OnCommit(t) \/ Overflow(t) \/ WakeUp(t)
            \/ Exit(t) \/ FreeTx(t) \/ Leave(t) \/ Release(t)
       \/ GcExit

Spec == Init /\ [][Next]_vars

-----------------------------------------------------------------------------
Time == 0 .. VERSION_MAX + Cardinality(Thread)

TypeOK ==
    /\ clock \in Time /\ tx_count \in 0 .. Cardinality(Thread)
    /\ tx_overflow \in BOOLEAN /\ exited \in BOOLEAN /\ raced \in BOOLEAN
    /\ \A s \in Slot :
        /\ threads[s].used \in {NULL, "BUSY", "FREE_EMPTY", "FREE_FULL"}
        /\ threads[s].ts \in Time \cup {EPOCH_MAX}
    /\ nb_threads = Cardinality({t \in Thread : ~At(t, "out")})
    /\ heap \cup linked \subseteq Addr

\* the places that a block is in
Places(a) ==
    {<<"heap">> : x \in {a} \cap heap} \cup {<<"linked">> : x \in {a} \cap linked}
    \cup {<<"w_set", t>> : t \in {u \in Thread : a \in tx[u].w_set}}
    \cup {<<"allocated", t>> : t \in {u \in Thread : a \in tx[u].allocated}}
    \cup {<<"freed", t>> : t \in {u \in Thread : At(u, "on_commit") /\ a \in Freed(u)}}
    \cup {<<"todo", t>> : t \in {u \in Thread : "todo" \in DOMAIN at[u] /\ a \in at[u].todo}}
    \cup UNION {{<<"region", s, k>> : k \in {j \in DOMAIN threads[s].regions :
                                              a \in threads[s].regions[j].blocks}} : s \in Slot}

\* no block is lost, and none is freed twice
OnePlace == \A a \in Addr : Cardinality(Places(a)) = 1

\* no transaction holds a block that malloc may return
NobodyHolds == \A t \in Thread : tx[t].holds \cap heap = {}

\* A block is returned to malloc once, when no transaction holds it any more,
\* and gc_exit returns them all: whoever commits, leaves its slot to another
\* thread or rolls the clock over while a minimum is being computed, unless
\* gc_reset meets a thread on its way out.
Reclaims ==
    /\ TypeOK
    /\ ~raced => OnePlace /\ NobodyHolds
    /\ exited => heap \cup linked = Addr
=============================================================================
