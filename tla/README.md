# HOSK in TLA+

HOSK is a concurrent skip list for NUMA machines (`src/src/hosk`). The keys are
in ONE lock-free linked list, the data layer, shared by all threads. Every
*enclave* pairs an application thread, which executes contains, insert and
delete, with a helper thread on the same core, which builds a private index for
it from the operations the application thread reports. The repository also
carries the library of atomic operations HOSK is written in (`atomic_ops`) and
two versions of the elastic transactional memory E-STM (`utils`). This directory
specifies the logic of all of these, checks it with TLC and proves the central
properties of HOSK with TLAPS. Every definition is translated from the source
lines that `PROJECT.json` ("map") names.

## Components

| component | code | state | operations | used by |
|---|---|---|---|---|
| operation array | `enclave.cpp` opbuffer_insert, opbuffer_remove | `opbuffer`, `app_idx`, `hlp_idx`: plain fields | insert (application thread), remove (helper) | initial_populate, application_loop; helper_loop |
| data layer | `application.cpp` sl_traverse_data, sl_finish_*; `skiplist.cpp` node_new | nodes with `key`, `val`, `next`, `prev`; sentinel with key 0 | contains, insert, delete by CAS on `val` and `next` | every application thread |
| physical removal | `helper.cpp` node_remove | marks `val = node` | never called: nothing makes the mark | - |
| intermediate and index layers | `helper.cpp`; sl_traverse_index in `application.cpp` | mnodes, inodes, the sentinel pointer, `non_del`, `tall_del` | update_intermediate_layer, update_index_layer (removal, raising, lowering), reset_index; the search reads without synchronisation | helper thread writes, application thread reads |
| allocator | `allocator.cpp` | `buf_cur`, `buf_old`, `last_alloc_half`, the list of buffers | nalloc, nfree, nrealloc, nreset | helper thread (and thread_init) |
| workload | `application.cpp` application_loop, update_results, get_unext; `test.cpp` | `last`, `unext`, `otype`, counters | the choice of the next operation, the sums | application thread, main |
| life cycle | `test.cpp` main; `enclave.cpp` start/stop; helper_loop, initial_populate | `running`, `finished`, `populate_init`, `reset_index` | create, populate, reset, wait for the level, run, stop, clean up | main |
| barrier | `test.cpp` barrier_init, barrier_cross | `count`, `crossing`, a mutex and a condition | cross | main, application threads |
| hardware layout | `hardware_layout.cpp`; `test.cpp` | sockets, cores, hyperthreads; the next place | fill the table, place and pin the enclaves | main, thread_init |
| atomic_ops | `atomic_ops/*.h` | the AO_HAVE_ macros | derive the operations of a platform from those of its header | the CAS, FAI and IAF of HOSK and E-STM |
| E-STM transactions | `estm-0.3.0/src/stm.c` | clock, locks, read and write sets | start, load, store, commit, abort, rollover | transactional programs |
| E-STM memory | `estm-0.2.4.3/src/gc.c`, `mod_mem.c`, `stm.c` | an array of slots with epochs and regions | stm_malloc, stm_free, gc_free, gc_cleanup, gc_reset | E-STM transactions |
| red-black tree | `estm-0.2.4.3/bench/lf-rbtree` | nodes with parent, children and colour | insert, update, delete, get, contains, verify | the benchmark of E-STM |

The components interact by calls and by shared memory: an application thread
searches its enclave's index (written by its helper), works on the data layer
(shared with all other application threads) and hands each successful update to
its helper through the operation array. `main` places the enclaves, starts and
stops their threads and adds up the counters. HOSK does not link E-STM.

What makes each component correct:

- operation array: operations arrive whole, in order, once; the helper keeps up;
- data layer: every operation is atomic on one set of keys; the list is sorted,
  has each key once, and leads to every node; some operation always finishes;
- index: the entry point a search returns is a node of the list whose key is not
  beyond the search key, whatever the helper is doing; a level contains a part of
  the level below, in order; a deleted key leaves the intermediate layer;
- allocator: two live blocks never overlap, requests keep their alignment;
- workload: the counters say exactly what happened to the set, the modes choose
  the operations they promise;
- life cycle: one helper per enclave, the index is reset once between population
  and measurement, `main` does not wait for ever, nothing runs in freed memory;
- barrier: nobody crosses before all have arrived;
- hardware layout: every hardware thread is in the table once, and every enclave
  has its own two;
- atomic_ops: an operation orders what its suffix promises;
- E-STM: the read set of a transaction is of one state of the memory, even if it
  will abort, and what it reads under its own locks is of a state known for each;
  commits are serial; a block is returned once, when nobody holds it;
- red-black tree: a balanced tree of exactly what was put in.

Hard here: unordered plain memory accesses (operation array), CASes racing on
two fields of the same node (data layer), a reader inside a structure its writer
frees (index, allocator), index arithmetic at the wrapping and other numeric
edges, flags shared by `main` and the helpers, a clock that rolls over under
running transactions, epochs read slot by slot while their owners change.
`PROJECT.json` lists each hazard at its line with the properties about it.

## Plan

| module | models | builds on | state |
|---|---|---|---|
| OpBuffer, OpQueue | the operation array and the queue it promises to be | - | checked, proved |
| DataLayer, KeySet | the lock-free list and the atomic set it promises to be | - | checked, proved |
| IndexLayer | the private index of an enclave, its helper and its search | - | checked, proved |
| Lifecycle | main, the helpers and the application threads | the lengths of OpQueue | checked, proved |
| Measurement | application_loop, the counters and the barrier | KeySet (INSTANCE) | checked, proved |
| Allocator | sizes, alignment and contents of the blocks | - | checked, proved |
| HardwareLayout | the table of hardware threads and the placement | - | checked, proved |
| AtomicOps | what the headers of atomic_ops derive | - | checked |
| Estm | the transactions of E-STM 0.3.0 | - | checked, proved |
| Gc | the memory reclamation of E-STM | - | checked, proved |
| RedBlackTree | the tree of the E-STM benchmarks | - | checked |

Measurement and Lifecycle use the proved abstractions (KeySet, OpQueue) and not
the detailed modules: that is what the refinements are for.

Theorems still worth proving: the index after it has been lowered once, as long as
it has two rows; with a third, searches may come into blocks given back (see the
findings).
Two questions to TLC stay open: a search that starts at an
entry point of the index composed with DataLayer, and lock-freedom with three
threads.

## The modules

### OpBuffer

State: `opbuffer`, `app_idx`, `hlp_idx` are the fields of the enclave;
`calling`/`newop`/`storing`/`app_at` are the application thread inside
`opbuffer_insert`, `loading`/`hlp_at`/`job` the helper inside
`opbuffer_remove`. `inserted` and `removed` are histories.

A call is its test (`Accept`, `CallRemove`) and then its memory accesses one at
a time (`StoreField`, `StoreIdx`, `LoadField`, `AdvanceIdx`) in any order,
because the fields are plain and `VOLATILE` is defined empty (`common.h`).
`CallInsert`, `RefuseAndExit` and `StartApplication` are the two callers:
population retries a refused insert, `application_loop` calls `exit`.

`OpQueue` is the promise: a queue that loses, repeats, reorders and tears
nothing. It says nothing about when an operation arrives.

### DataLayer

State: the fields of the nodes (`key`, `val`, `next`, `prev`), the ghost set
`linked` of nodes a CAS has put in the list, and for each application thread its
place (`pc`) and its local variables. One action is one access to a shared node:
`ReadVal`, then the load of `next` with what follows from it without another
access (`Advance`, `Answer`, `Found`, `Allocate`), `DelRead`, `DelCAS`,
`Revive`, `Link`/`LinkFails` (the CAS on `next` and its failure, which frees the
node) and `SetPrev`. `Start` takes an entry point of the index; `Return` hands
the node to the helper.

Three points of the source decide the shape of the model:

- no store makes the mark of physical removal (`val = node`), so the branches
  behind it, `node_remove` among them, are dead and the list only grows;
- the fields are not volatile, so the first `node->val` of `sl_finish_delete` may
  be loaded again or not: `Found` goes to either place. Beyond that, loads are
  taken in program order;
- the entry point is a contract here: the sentinel, or a node this enclave has
  published, not beyond the search key. `EntryIsNear` of IndexLayer is the other
  side of it, and `NoSynchronizationNeeded` the case in which it is broken.

`KeySet` is the promise: each operation takes effect at one instant between its
call and its return, on one set of keys. The refinement maps the set to the
unmarked linked keys and the answer to `EffectiveAnswer`, which is known as soon
as the deciding value is read.

### IndexLayer

State: `mem` is what the allocator has handed out, block by block, each an mnode,
an inode or zeroed; `last` is `buf_old` and `released` says that `buf_cur` has
gone back to it. `sentinel`, `non_del`, `tall_del` are the enclave's. `pc`, `at`,
`row`, `raised`, `skipping`, `old` are the helper inside a round; where its loop
stands otherwise follows from the structure, since it is the only writer (the
next mnode to remove is the first removable one). `search` is the application
thread. `phase` and `mine` are what `application_loop` does with the keys;
`live`, `stay`, `clean` are histories. `setting` holds the keys and the bounds.

| code | actions |
|---|---|
| update_intermediate_layer | `Apply`, with `Descend` for its search |
| bg_trav_mnodes, bg_mremove | `StartRound`, `Unlink`, `FreeMnode`, `EndRemoval` |
| bg_raise_mlevel | `RaiseMnode`, `EndMraise` |
| bg_raise_ilevel | `SkipDeleted`, `RaiseInode`, `PassInode`, `EndRow` |
| bg_lower_ilevel | `EndRound`, `CutDown`, `FreeInode` |
| reset_index | `ResetIndex` |
| sl_traverse_index | `StartSearch`, `SearchRight`, `SearchDown`, `SearchWalk`, `SearchLost` |
| nalloc, nfree | `NAlloc`, `NFree` inside those actions |

A helper's action ends at a store the search can see; a search's action is one
load of a pointer that may change, including the keys read with it. `SearchWalk`
loads `mnode->next` once for each time round its loop, as the optimised build
does. Data-layer nodes are named by their keys: nodes never leave the list and
each key has one node (`Sorted`), so a key determines its node. `node->level` is
only compared with itself and left out. `nfree` is modelled by what it does, a
comparison of contents. When it takes back a wrong block the model stops
(`corrupt`): from there on the helper follows null pointers.

`alternating` restricts the operations to those the program produces: inserts in
the population, then each thread deletes only the key it inserted last. Without
it any client of the data layer is meant, whose threads delete one another's
keys; a delete may then name a key the index has never had.

### Lifecycle

State: the four flags of each enclave; `app`, `num_populate`, `published` for its
application thread and `hpc`, `update_all`, `applied`, `level` for its helper;
`main`, `k`, `returnTo` say where `main` is, in the loop over the enclaves and in
`stop_helper`; `stop` is the flag of the measurement. `resets` is a history.

Each action is one access to a flag that another thread may access: a helper
reads `populate_init` when it begins, tests `reset_index` and then `finished`
(`HelperStart`, `HelperReset`, `HelperTest`), takes operations as long as more
than two are there, and makes a round. `main` is one action per call:
`StartHelper`, `PopulateBegin`, `PopulateEnd`, `StopHelper` and `JoinHelper`,
`ResetIndexLayer`, the loop of test.cpp:380 (`WaitEnds`), the application
threads, `Delete`. The index is its number of rows: a round may raise any number
that IndexLayer's rounds can, and after the reset exactly the rows that the
complete chain yields (`Levels`, `Rows`, `NewLevel`).
`WaitLevel` is the comparison with its conversion to an unsigned number.

### Measurement

State: the barrier (`count`, `crossing`), `pc` of every party, the locals of
application_loop (`unext`, `last`, `otype`), its counters `ares`, the flag `stop`
and main's sums. The set, the call and the answer are those of `KeySet`, whose
actions `Choose`, `Operation` and `Result` use.

`Arrive` is barrier_cross up to its wait; `SpuriousWakeup` is a return of
`pthread_cond_wait` without a signal, which the code does not test for.
`FirstDraw` is the first get_unext, `Update` and `Read` the two branches of the loop with
their modes, `Result` update_results with opbuffer_insert and get_unext, `Exit`
the refused insert. `JoinNext` adds up.

### Allocator

State: the pointers of the allocator, `mem` for the contents of the half lines,
and `live` for the blocks in use with what their owners wrote. `NAlloc` has the
alignment, `Move` the half line that is skipped and `NRealloc` the new buffer;
`NFree` has `Same`, the memcmp with the last block; `NReset` is the destructor.
`twins` and `repeated` are histories of the two kinds of request under which the
code does not keep what its comments say.

### HardwareLayout

`CheckLscpu` and `Fill` are get_hardware_layout, one pass of its loop per action.
`CreateThread`, `ThreadInit` and `Join` are main and its thread_init threads,
which may run in any order after their creation. `enclaves` holds the core each
thread has pinned itself to; the application and the helper thread of an enclave
pin themselves to the two hardware threads of that core.

### AtomicOps

The state is what the preprocessor knows: `def`, the operations defined so far,
each with its body and with what it orders, and `have`, the AO_HAVE_ macros.
A step is one conditional or definition of the headers (`pos`) of a platform. What an
operation orders is a set of pairs of earlier, own and later reads and writes;
`Orders` derives it from the parts of a body. `Rest`, `Loops`, `LoadRest` and so
on stand for the repeated stretches of generalize.h and generalize-small.h; the
headers of the five processors are lists of primitives.

### Estm

`tx` is the transaction descriptor of each thread, `at` its place with the locals
of the call; every access to a lock, the clock or the shared memory is a step, so
that other threads come between the two loads of a lock and the load of the value
between them, and between the entries of a validation, a write-back and a
rollback. Elastic transactions have their rotating buffer of two addresses
(`lastraddr`); they become normal at their first store. `Overflow`, `Awake`,
`InitThread` and `ExitThread` are the rollover of the clock with threads that
come and go. A `Setting` says what each client may ask for.

Two history variables record what loads return from memory: `seen` through the
read set, `held` byte by byte under locks of the transaction itself, for which the
code makes no entry in the read set (`LoadLocked`, `HeldBytes`: another word of the
stripe, or the bytes that no store has covered). `log` has what the commits with a
timestamp read and wrote.

### Gc

`threads` is the array of slots of gc.c, each with its use, its epoch and its
regions; `heap` and `linked` are the blocks malloc may return and the nodes of a
list. `InitThread` to `LowerBound` are gc_init_thread with its CAS on a slot,
`GcFree`, `Cleanup`, `MinUsed`, `MinTs` and `Clean` are gc_free with the
computation of the minimum slot by slot. A transaction loads references, allocates,
unlinks and commits, as far as the locks of E-STM allow it. The rollover
calls gc_reset, which says that all threads are stopped; a thread that has left
the count of transactions and is still in its gc_free is not. The model records
that as `raced` and goes no further.

### RedBlackTree

`tree` holds the links and colours, `op` the operation in progress with its
locals; a pass of a loop is a step, and the four mirrored cases of the two repairs
are one definition each with a side as parameter. `dict` is the dictionary it
should be, `allocated` what malloc has handed out.

## What the runs check

| run | question | bounds | states | outcome |
|---|---|---|---|---|
| op_buffer | do operations arrive whole, in order, once; how long does an array live? | 5 slots, 2 keys, 1 node | 890 thousand | holds |
| data_layer | sorted, no dangling pointer, linearizable; does some operation always finish, and every lookup? | 2 threads, 2 keys, 3 nodes | 953 thousand | holds |
| index_layer | the index, searched all the time | the program: 5 keys, 5 operations, 3 rounds; any client, lowered at every chance: 7 keys searched, 15 keys not, 2 operations, 3 rounds | 1.51 million | holds |
| index_layer_sync | does a search always get a node? | 5 keys, 4 operations, 3 rounds | - | no |
| lifecycle | does main wait for ever, is each index reset once, is anything alive when it is freed? | 2 enclaves, 0, 3, 5 or 16 initial keys, 1 update each | 95 thousand | holds |
| measurement | do the counters add up, do the modes keep their promise, does it end? | 2 threads and main, 2 keys, 3 operations each, 4 modes | 1.40 million | holds |
| allocator | do blocks stay apart, intact and aligned? | buffers of 0 or 2 lines, 5 allocations, 2 contents | 215 thousand | holds |
| layout | is the table a bijection, has every enclave a core? | up to 3 sockets of 3 cores, 2 to 7 enclaves | 8 thousand | holds |
| atomic_ops | does every operation order what its name says? | 11 builds of 5 processors | 7 thousand | holds |
| estm | which state does a transaction read, are commits serial, do locks survive their owner? | 2 threads, 2 words of 2 bytes, 4 settings | 3.41 million | holds |
| gc | is a block returned once, when nobody holds it? | 2 threads, 4 blocks, a clock of 3, 1 or 2 lives each | 2.64 million | holds |
| rbtree | balanced, and a dictionary? | 9 keys loaded in order, any calls on 5 keys, two values on 3 | 333 thousand | holds |

`TypeOK` is a property of its own in OpBuffer and DataLayer; in the other modules it
is a conjunct of the first invariant (`LevelCountsRows`,
`CleanupSafe`, `AddsUp`, `WithinBuffer`, `TableIsBijection`, `OrderKept`,
`RedBlack`, `Reclaims`). Estm has none beside `LocksAnchored`, which
holds the locks, the clock and the counts to their ranges.

What some of the properties mean, where that is not obvious:

- `CleanupSafe`: enclaves are deleted with their threads joined, and the
  destructor, which would stop the threads again, finds them finished.
- `EndsWithTwoEach` has two sides: with at least two initial keys for each
  enclave the program ends; with fewer it never gets to the measurement, since
  the level is compared with `floor_log_2(d) - 1` as an unsigned number.
- `AddsUp` covers the expected size and both ways main counts reads and updates.
- `ModesKept`: in the alternate mode a thread deletes only the key it inserted,
  which nobody else deletes, and always finds it; in the effective mode the
  rate of successful updates is never exceeded by more than one update.
- `GrowsOutsideAlternate`: outside the alternate mode the remove branch keeps the
  operation of the iteration before, so no key is ever deleted.
- `CrossTogether` and `Ends`: a wake-up without a signal lets a party cross alone,
  and only that; the barrier still opens for the others.
- `LiveBlocksIntact` and `NoSpillUnlessRepeated` hold outside of two cases, which
  are in their premises: a block is freed while another has the same contents
  (the memcmp of nfree), and two half lines are requested in a row.
- `OwnCoresUnlessOvercommitted`: with too many enclaves the program reports that
  it reduces their number and does not; some enclave then gets a core behind the
  array of its socket.
- `NeverWeakened`: no definition of a header is replaced by one that orders less.
- `Opaque` holds for transactions that run and may still abort. It says which state
  each read is of: that at the end of the validity range for the read set, and for a
  read under a lock of its own that at the version of the lock, if this is later. It
  does not say that the two are one state, and they need not be (see the findings).
  `Serializable` compares each committed transaction with the memory its
  predecessors left: there all reads, of either kind, are of one state.
- `Reclaims` says nothing after `raced`.

Why the bounds are enough to mean something:

- OpBuffer: with 5 slots the array wraps, fills after wrapping, and the helper
  takes two operations before it freezes; the proofs cover every size from 3.
- DataLayer: the hard cases need two threads between the same two neighbours, or
  on one value; three nodes allow a failed link that frees its node beside two
  linked ones, so that no thread ever waits for an address. The proofs cover any
  number of threads, keys and nodes.
- IndexLayer: `bg_raise_mlevel` raises the middle of three neighbours without a
  level, so 3 keys raise one inode; a third row needs 7. In the first setting the
  chain starts with 3 populated keys and grows under the search; 3 rounds are a
  round of removal after a deletion after a raise. The ratio for lowering is 10
  in the code; the second setting has 0, so that the index is lowered within few
  rounds. The counters are sums over rounds, so a smaller ratio only reaches the
  lowering earlier. A deleted inode of the SECOND row that is skipped while a
  third is on it needs 15 keys, which the third setting has; the rows it leaves are
  what `LowestLevelRemoved` makes an exception of.
- Lifecycle: the four sizes give shares of 0, of 1 and 2 (a remainder), of 2 and 3
  and of 8, at which the level to wait for is -2, -1, 0 and 2; a second row needs
  all of 8. A third enclave would add nothing to flags that only main and one
  helper share. `UnsignedRange` is 2^16 in place of 2^32.
- Measurement: two threads meet on one key, insert it twice, and delete it in the
  alternate mode; three operations are an insertion, its deletion and one more
  of either. An array of two operations makes the exit of a refused insert happen.
- Allocator: the buffer of two lines takes four half lines or one whole line after
  one half; five allocations fill it and two more. The size 0 stands for the
  population of no key.
- HardwareLayout: three sockets and cores make all carries of the loop happen; 7
  enclaves overcommit all machines but those of 9 cores and of 8 or 7.
- AtomicOps: the bounds are the builds; the headers are finite and complete.
- Estm: two threads are enough for a read between the lock and the write-back, an
  extension with the version overtaken, and a lock lost in a rollover; the second
  word makes two transactions read what the other writes. `Conflict`, `Elastic`,
  `Covered` (both words under one lock, nesting, aborts, masks, a write set of one
  entry) and `Rollover` (a clock of 2, threads that come and go) are the settings.
  Words of two bytes, of which one thread stores the first, give entries that mix
  stored bytes with those of the memory; 2 or 3 accesses per transaction are enough
  for a load, a store that takes a later lock, and a load under that lock.
- Gc: the clock of 3 rolls over; a thread created twice takes over a slot with its
  regions. Four blocks are a write set for each thread, one node of the list and one
  to put in its place. Three of them are interchangeable (symmetry).
- RedBlackTree: nine keys in ascending order recolour and rotate on two levels, and
  five in any order reach every case of the repair after a deletion, as
  the coverage of TLC shows.

`CHECK_DEADLOCK FALSE` stands where the system may stop: OpBuffer and Measurement
end in `exit(-1)` or with nothing left to do, Lifecycle and HardwareLayout with
the end of main, the others at their bounds.

### Fairness

- `FairSpec` of OpBuffer: a thread inside a call, and the helper with something to
  remove, are scheduled. They are ordinary threads that never block in these
  calls. Whether another operation comes is left open.
- `LockFreeSpec` of DataLayer: SOME thread inside an operation is scheduled;
  nothing is assumed of a particular one. That is what lock-freedom promises on.
- `ContainsFinishes` assumes, on top of it and for one thread at a time, that the
  thread of the lookup itself is scheduled, and nothing of the others.
- `FairSpec` of Lifecycle: main, every helper and every application thread are
  scheduled, the measurement ends after its duration, and population finds new
  keys in the end (main asserts that the range holds them).
- `FairSpec` of Measurement: main and every application thread are scheduled, and
  the duration passes. No wake-up out of turn is assumed.
- The other modules state no fairness and no liveness property.

## What is proved

TLAPS checks, for every value of the constants under the stated assumptions:

- `OpBufferProof`, for `BufSize >= 3`: `TypeCorrect`, `LifetimeBounded`, `Frozen`,
  `ImplementsOpQueue`. The inductive invariant `IInv` adds to the types where the
  two indices stand relative to the lengths of the histories (`IndexInv`) and what
  the slots and half-made copies hold (`DataInv`). It rests on one observation:
  a removal starts only when `app_idx` is at least three slots ahead without
  wrapping, so no removal starts after the wrap and `hlp_idx` never passes
  `BufSize - 3`. That turns all modular arithmetic into linear arithmetic. The
  two slots left untouched are also why unordered stores do no harm: an operation
  being stored is never the one being loaded, which is why `Fifo` holds for plain
  fields.
- `DataLayerProof`, for any threads, keys and nodes: `TypeCorrect`,
  `AlwaysSorted`, `PrevAlwaysLeadsBack`, `NeverDangling`, `AlwaysLinearizable`.
  `Sorted` is stated without reachability: the next node of a linked node has the
  least greater key among all linked nodes. With it, a search standing before a
  greater key has seen that its key is in no linked node, which is the
  linearization point of a failed search. `ThreadInv` says what a thread knows
  between two accesses, in terms that no other thread's step disturbs, and
  `Private` that an allocated node belongs to one thread until it is linked. The
  ABA on `val` (deleted and revived in between) is harmless because a node's
  value is its key or NULL and the CAS decides by it.

- `MeasurementProof`, for any number of threads from 2, a finite set of keys, any
  modes and bounds: `TypeCorrect`, `BooksBalance`, `ModesAreKept`, `BarrierHolds`,
  `OnlyGrows`. The sums of main only close at the end, so the invariant balances
  the books at every step (`Books`): what all the threads have added to the set,
  with the operation that has taken effect and is not yet counted, is what the set
  has grown, and the sums main holds are those of the threads it has joined. A sum
  over the threads changes by what one of them changes; that is proved by taking
  the least prefix for which it would not. `Own` keeps the key a thread inserted
  out of every other thread's hands, `Paced` and `RateNotExceeded` bound the rate,
  and `Gathering` says what `crossing` counts until the last party arrives.
- `LifecycleProof`, for any number of enclaves from 2, any sizes and bounds:
  `TypeCorrect`, `ResetsOnce`, `PopulationComplete`, `CleanupIsSafe`. main walks
  over the enclaves in loops; where it is, and its index, determine for every
  enclave which of its threads exist (`Threads`), how far its reset is (`Resets`)
  and what has been handed to it (`Handed`). That the shares add up is again the
  argument of the least prefix, with the remainder of the division given to the
  first enclaves.
- `EnclaveProof`, on HardwareLayout, for machines of any size and any number of
  enclaves:
  `TableIsComplete`, `PlacesAreOwn`. A CPU number is a number of three digits in
  the bases cores, sockets and threads per core; the nested counters of
  get_hardware_layout are its digits (`Digits`), every number has exactly one such
  form, and so the table filled so far is a bijection onto the numbers counted
  so far (`Table`). main counts the places in the same way with the socket first.
- `EnclaveProof`, on Allocator, for buffers of any size with a largest one, any
  contents but 0 and any number of calls: `BlocksIntact`, `InsideBuffers`, `NoSpill`. The blocks
  of the present buffer end at or before `buf_cur`, and the block handed out last
  is the one that ends there, or is free and zero (`Stacked`). The memcmp of nfree
  then finds exactly this block as long as no other one has the same contents,
  for a block that is free begins with 0 and one in use does not.
  `Halves` adds that `last_alloc_half` says whether the pointer stands in the
  middle of a line, which is so until two half lines are requested in a row.
- `EstmProof`, for any finite set of threads, any addresses, bytes, settings and
  bounds: `AnchoredAlways`, `OpaqueAlways`, `SerializableAlways`, provided that no
  client starts an elastic transaction inside another one (`Flat`; see the
  findings). The invariant `IInv` describes the moments between the accesses.
  An owned lock and its entry lead to each other (`LockOf`, `EntryOf`). The memory
  is what the history says (`Snapshot`), but for the words that a committed writer
  has yet to write back under its locks (`MemoryOf`). A value read is the one at
  some time k and stays so (`Fixed`), because no transaction with a timestamp up
  to k that is still validating covers its stripe (`Settled`): an extension and a
  commit must establish this entry by entry, which is what `PendingOf` and
  `ReadsOf` say of a half-done validation. `FlightOf` says what the value between
  two loads of the lock is worth: if the second load finds the same version,
  nobody has written in between. A commit enters the history when its
  validation ends (`Records`), and from then on everything others may read is
  either before its timestamp or behind its locks. A reset of the clock starts
  a new history: every other thread is then outside its transaction (`Away`),
  so no read, lock or write set refers to the old one. `HInv` is a second invariant,
  inductive beside `IInv`, for the reads under own locks: while the lock is held
  nothing is written under it from its version on (`OwnIs`), so that such a read is
  at once the present memory and the state at every timestamp from that version to
  now (`HeldIs`), also at the one before the commit's. It needs `Merged`: the
  bytes of an entry that were not stored are still those of the memory.
- `GcProof`, for any finite set of threads with a slot for each, any blocks and
  bounds: `ReclaimsAlways`. What a transaction holds is safe because of what
  every thread and slot knows of it (`Held`): whoever has unlinked the block hands
  it over with a time after the transaction began, so do the regions (`Later`), and
  whoever computes a minimum over a region with the block has met the epoch of
  the transaction or will meet it (`Met`). No slot is missed, for the slots ever
  used are the first ones, a thread keeps its slot while it has a transaction, and
  a slot is never unused again (`Slots`). That each block is in one place is one
  map from blocks to places (`Here`), on which every step moves blocks from one
  place to another. A timestamp never passes the largest one, because only
  threads that began before the overflow still draw one (`Drawing`). gc_reset finds
  the caller as the only thread that is counted (`Alone`), so no transaction runs.
  The theorem, like the model, says nothing about what follows a `raced` reset.

- `IndexLayerProof`, for any settings: any finite set of populated keys, any
  operations, number of rounds and ratio. `JobsMirrored`, `RowsCounted`,
  `TowersStand`, `EntryNear`, `LiveRaised` and `OwnBlockFreed` are about behaviours
  in which the index is not lowered (`[]Unlowered`), which is every behaviour up to
  its first lowering; with the operations of the program it is never lowered
  (`LoweredNever`), so that `ProgramSound` needs no such premise. `Chain`, `Row`
  and `Column` walk along pointers, so the invariant describes what they walk
  on as sets of blocks: the chain `C`, in which each pointer leads to the next
  greater key (`Chained`), and the rows, a `rank` for each inode, in each of which
  the pointers lead to the next greater key still in the row and every inode stands
  on one of the rank below with its key (`Indexed`). That the walk visits exactly
  such a set in its order is proved once. An inode skipped out of its row keeps its
  rank and its pointers: inodes above still stand on it and searches come by it,
  and from it too one gets only forward. Each kind of store (a new mnode, a mark,
  an mnode taken out, a new inode in a row, a skipped inode, a new top row, the
  reset) is a lemma about these sets, and each action applies one of them. For the
  search, `Passable` is the set of the mnodes it may stand on, those taken out
  meanwhile included, from which it cannot get past a key that has been there all
  the time. nfree compares contents: it takes back the right block because the
  last block, if an mnode, is in the chain or the one being freed, and their keys
  differ (`Allocated`). That `tall_del` never exceeds `non_del` is a pairing
  (`Paired`): in alternate mode each thread deletes only the key it inserted last,
  and a deleted mnode with a level, or one that may be deleted next, has a live mnode
  of its own between it and the next such one, a neighbour at the time it was
  raised.

The invariants of all these proofs, `IInv` in each module and `HInv`, have been checked with
TLC on the instances of the runs before they were proved.

Only model-checked: the liveness properties, which are out of the prover's reach,
the index while and after it is lowered, and the properties of AtomicOps and
RedBlackTree. The heights of RedBlackTree are recursive over the tree, which the
prover does not reach; AtomicOps is finite and TLC goes through all of it.

## Findings

One run expects a violation:

- `NoSynchronizationNeeded`: an mnode that was the last allocation is zeroed as
  soon as it is unlinked; a search that stands on it returns NULL for a node.

The properties that hold say some more that a reader of the comments would not expect:

- "The lowest index level is removed by nullifying the reference to the lowest level
  from the second lowest level" (helper.cpp:254): bg_lower_ilevel nullifies the
  references of the inodes in the second row, but one that was skipped out of that row
  because its key was deleted keeps its own. If an inode above still stands on it (the
  only inode of a row is never skipped), a search comes through both into the lowest
  row that was given back; `LowestLevelRemoved`, a part of
  `TowersAnchored`, says that this is the only way, and
  without its second disjunct TLC shows the way with the fifteen keys. The ratio 0 of
  that setting stands for a later round: the counters are never reset, and with 31
  keys all deleted but the last one with a level each round adds fourteen to
  `tall_del` and one to `non_del`. The program in alternate mode never gets there.
- The array of operations is called circular and population retries a refused
  insert, but after the wrap nothing is removed any more (`FrozenAfterWrap`). An
  array of 2,000,000 slots carries at most 3,999,996 operations
  (`LifetimeBound`), then population spins or the program exits.
- Deleted nodes are never physically removed: application.cpp:229 says so, but the
  test of line 255 needs a mark that nothing makes.
- For fewer than two initial keys per enclave main waits for ever (test.cpp:380).
  The level it waits for is also the one left by the population until the new
  helper has reset it, so the measurement may begin on an index about to be reset.
- Outside the alternate mode nothing is ever deleted (application.cpp:333).
- Enclaves that are too many for the machine get a core behind the array
  (test.cpp:263). `zia->freq` is never set (test.cpp:308-318).
- Two requests of half a line and then a whole one give a block that spills over a
  cache line (allocator.cpp:48-50). nfree compares contents (allocator.cpp:77): of
  two equal blocks the wrong one is taken back. The shipped workload never
  lowers an index (`NeverLowers`), so this needs a client that deletes most keys.
- `opbuffer_remove` leaves two elements behind where `enclave.cpp:172` says one;
  `sl_finish_delete` answers 0 for a node already deleted where
  `application.cpp:85` says -1; and `tall_del`, "# deleted intermediate nodes w/
  towers above" (`enclave.h:85`), also counts mnodes whose inode has been skipped
  out of the lowest row, since `bg_raise_ilevel` leaves their level as it is. Such
  an mnode stays in the chain until the index is reset: a lowering takes one from the
  level of an mnode of the second row, which is then at least 1.
- atomic_ops: on powerpc the operations `_full` have lwsync on both sides, which
  lets an earlier write pass a later read; `OrderKept` leaves them out.
  `AO_HAVE_NOP_READ` and `AO_HAVE_NOP_WRITE` are set and never tested
  (read_ordered.h:36, ordered_except_wr.h:40), so generalize.h:167 replaces these
  definitions, by stronger ones, though generalize.h:33 says that none is; `or_full` and the small
  `fetch_and_add_full` set no AO_HAVE (generalize.h:839-844,
  generalize-small.h:239-243).
- E-STM 0.3.0: a nested start changes the type before it looks at the nesting
  (stm.c:919), though the comment says that it only counts (stm.c:158-160), and the
  commit is chosen by the type (stm.c:1125-1128). After an elastic start inside a
  normal transaction that has stored, the commit is elastic: it neither writes back
  nor releases the locks. With such a client neither `LocksAnchored` nor
  `Serializable` holds; the settings of the run and the theorems leave it out.
- E-STM 0.3.0: "the value returned is consistent with respect to previous reads from
  the same transaction" (stm.h:230-232) is not so of a transaction that stores and later
  aborts. stm_write takes a lock newer than the validity range if its stripe was
  never read (stm.c:673-683) and does not extend the range; a load under this
  lock returns memory without a look at the versions (stm.c:1284-1300). T1 loads x at 0,
  T2 commits x and b at 1, T1 stores one byte of b, or another word of its
  stripe, and loads b: it has x from before T2 and b from after. Only the next
  validation, at the commit or in an extension, finds this and rolls T1 back, so that
  `Serializable` holds; until then T1 runs on a memory that never was. With a property that asks for one state
  in place of `Opaque`, TLC shows this in the setting `Conflict` within 21 states.
- E-STM 0.3.0: elastic_store empties its buffer inside the loop, so only the first
  address is checked (stm.c:1383-1411); stm_vervalver compares the owner of a lock
  with the transaction though locks hold entries of its write set, and waits
  for a lock of its own (stm.c:1162).
- E-STM 0.2.4.3: gc_reset asserts that no thread is registered (gc.c:440), which is
  never so while a rollover is under way; only the build without assertions runs.
  It also runs while a thread may still be in its last gc_free (`raced`). A
  thread that starts no transaction holds back the reclamation of all.

## Not modelled

- `node_remove` and the walk along `prev`: dead code, see above.
- `ADDRESS_CHECKING`, `COUNT_TRAVERSAL`, `BG_STATS`: compiled out, counters only.
- Command line, printing and statistics of `test.cpp`; the options are settings.
- Composition of the whole program: the modules meet at the proved abstractions
  and at `EntryIsNear`; no model has a data layer and an index together.
- Memory order below the level of a load or store, outside OpBuffer and AtomicOps:
  sequential consistency is assumed, so a missing fence (gc_set_epoch) is not seen.
- AtomicOps leaves out what the operations compute, and the compilers' own fences.
- Estm leaves out callbacks, the signal handler, statistics, and use without
  longjmp; a rolled-back thread may do anything next, and unit loads and stores
  outside of transactions do not occur.
- Gc has abstract transactions, and leaves out the blocks of descriptors and read
  sets, gc_cleanup_all, which nothing calls, and the elastic starts of 0.2.4.3.
- The iterator of the red-black tree and its printing.
- The transactions of E-STM 0.2.4.3 (those of 0.3.0 with one remembered address),
  `wrappers.c`, `mod_local.c` and `mod_stats.c`, and the other benchmarks
  (lf-skiplist, lf-hashtable, lf-linkedlist, lf-deque), which are clients of the
  same library; `versioned-lock`, which nothing uses.
