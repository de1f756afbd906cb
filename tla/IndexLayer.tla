----------------------------- MODULE IndexLayer -----------------------------
(***************************************************************************)
(* The private index of one enclave (helper.cpp): the chain of             *)
(* intermediate nodes (mnodes), one for each key the helper thread has     *)
(* heard of, and rows of index nodes (inodes) above it.  The helper thread *)
(* changes it; the application thread searches it at the same time with no *)
(* synchronisation at all (sl_traverse_index).                             *)
(*                                                                         *)
(* An action of the helper ends at a store the search can see, an action   *)
(* of the search is one load of a pointer that may change.  The positions  *)
(* of the helper's own loops are not kept where the structure determines   *)
(* them: it is the only writer.  A data-layer node is named by its key,    *)
(* the sentinel node by 0; its level field, which is only ever compared    *)
(* with itself, is left out.                                               *)
(*                                                                         *)
(* mem is the memory the allocator has handed out, block by block.  nfree  *)
(* takes back the last block only; any other freed block keeps its         *)
(* contents for ever.  Before the reset inodes come from malloc            *)
(* (base_malloc); nothing is freed by then, so it makes no difference.     *)
(***************************************************************************)
EXTENDS Integers, Sequences, FiniteSets

CONSTANT Settings  \* what a run may start from, see Setting

\* keys: those of the operations; searched: those the application thread
\* searches; populated: those in the chain before the first round; alternating:
\* only the operations application_loop reports; ratio: tall_del over non_del for
\* lowering, 10 in the code; jobs, rounds: bounds on the operations applied and
\* the rounds of update_index_layer.
Setting(s) ==
  /\ s.keys \subseteq Nat \ {0} /\ s.searched \subseteq s.keys
  /\ s.populated \subseteq s.keys /\ s.alternating \in BOOLEAN
  /\ {s.ratio, s.jobs, s.rounds} \subseteq Nat
  /\ IsFiniteSet(s.populated) /\ (s.alternating => s.ratio > 0)

ASSUME SettingsAssumption == \A s \in Settings : Setting(s)

NULL   == 0     \* no block
First  == 1     \* the mnode of the sentinel node, sentinel->intermed
NoNode == -1    \* what the search returns when it has read a block given back

VARIABLES
  setting,    \* the member of Settings chosen
  mem,        \* the blocks: [kind |-> "mnode" | "inode" | "zero", ...]
  last,       \* buf_old, the block of the last allocation
  released,   \* buf_cur = buf_old: the next allocation reuses it
  sentinel,   \* the first inode of the top row
  non_del, tall_del,
  pc,         \* where the helper is
  at, row, raised, skipping, old,  \* its cursors and flags in a round
  search,     \* the application thread: [pc, key, at, entry]
  phase,      \* "populate", then "rebuild" from the reset to the first operation
              \* of application_loop, then "measure"
  mine,       \* the key inserted and not yet deleted again, or 0
  live,       \* history: the keys that the operations applied leave
  stay,       \* history: keys in the chain since the search began
  clean,      \* history: no block was given back since the search began, nor a
              \* block in use before it
  jobs, rounds

alloc   == <<last, released>>
round   == <<at, row, raised, skipping, old>>
count   == <<non_del, tall_del>>
history == <<live, stay, clean>>
bounds  == <<jobs, rounds>>
vars == <<setting, mem, alloc, sentinel, count, pc, round, search, phase, mine, history,
          bounds>>

Keys        == setting.keys
SearchKeys  == setting.searched
Populated   == setting.populated
Alternating == setting.alternating
-----------------------------------------------------------------------------
(* Memory. *)
Mnode(next, k) ==
  [kind |-> "mnode", next |-> next, key |-> k, level |-> 0, marked |-> FALSE]
Inode(right, down, m, k) ==
  [kind |-> "inode", right |-> right, down |-> down, intermed |-> m, key |-> k]
Zeroed == [kind |-> "zero"]

Fresh == IF released THEN last ELSE Len(mem) + 1
Put(rec) == IF released THEN [mem EXCEPT ![last] = rec] ELSE Append(mem, rec)

NAlloc == last' = Fresh /\ released' = FALSE

\* nfree compares contents: equal contents pass for the last block.
NFree(b) ==
  IF mem[b] = mem[last]
  THEN /\ mem' = [mem EXCEPT ![last] = Zeroed]
       /\ released' = TRUE
       /\ clean' = (clean /\ search.pc = "done")
  ELSE UNCHANGED <<mem, released, clean>>

\* It has taken back a block that is in use.  The process does not survive its
\* next access to it; what follows is not modelled.
TakesAnother(b) == b # last /\ mem[b] = mem[last]

(* The structure, as sequences of blocks. *)
\* A pointer of all the blocks, NULL in a block of another kind.
Pointers(kind, field) ==
  [b \in 0 .. Len(mem) |-> IF b # NULL /\ mem[b].kind = kind THEN mem[b][field] ELSE NULL]

\* The blocks from the first one along a pointer, no more than there are.
Along(first, pointer) ==
  LET f[i \in DOMAIN pointer] ==
        IF i = 0 THEN <<first>>
        ELSE LET s == f[i - 1]
                 b == pointer[s[Len(s)]]
             IN  IF b = NULL THEN s ELSE Append(s, b)
  IN  f[Cardinality(DOMAIN pointer) - 1]

Chain      == Along(First, Pointers("mnode", "next"))
Row(first) == Along(first, Pointers("inode", "right"))
\* inodes[0 ..], the first inode of each row, lowest row first.
Column ==
  LET top == Along(sentinel, Pointers("inode", "down"))
  IN  [r \in DOMAIN top |-> top[Len(top) + 1 - r]]

Members(s)   == {s[i] : i \in DOMAIN s}
ChainKeys    == {mem[m].key : m \in Members(Chain)} \ {0}
Level(m)     == mem[m].level
\* Faulty variant: looks at the first node of the layer, as bg_raise_mlevel does.
DeletedFirst(i) == mem[First].marked

Deleted(i)   == mem[mem[i].intermed].marked
\* The last block of a row whose key is below k.
Before(s, k) ==
  CHOOSE b \in Members(s) :
    /\ mem[b].key < k
    /\ \A c \in Members(s) : mem[c].key < k => mem[c].key <= mem[b].key
-----------------------------------------------------------------------------
\* The i-th of the keys populated.
PopulatedKey(i) ==
  CHOOSE k \in Populated : Cardinality({x \in Populated : x < k}) = i - 1

\* The chain of the keys populated, no row but the sentinel inode of thread_init.
Init ==
  /\ setting \in Settings
  /\ LET n == Cardinality(Populated)
         link(b) == IF b <= n THEN b + 1 ELSE NULL
     IN  mem = <<[Mnode(link(1), 0) EXCEPT !.level = 1]>>
                 \o [i \in 1 .. n |-> Mnode(link(i + 1), PopulatedKey(i))]
                 \o <<Inode(NULL, NULL, First, 0)>>
  /\ last = Len(mem) /\ released = FALSE
  /\ sentinel = Len(mem)
  /\ non_del = 0 /\ tall_del = 0
  /\ pc = "loop"
  /\ at = NULL /\ row = 0 /\ raised = FALSE /\ skipping = FALSE /\ old = NULL
  /\ search = [pc |-> "done", key |-> 0, at |-> NULL, entry |-> 0]
  /\ phase = "populate"
  /\ mine = 0
  /\ live = Populated /\ stay = {} /\ clean = TRUE
  /\ jobs = 0 /\ rounds = 0
-----------------------------------------------------------------------------
(* The helper thread: one operation of the array. *)

\* Its own search for a key: one step from each block, through the rows and then
\* along the chain.
Onward(k) ==
  [b \in DOMAIN mem |->
     IF mem[b].kind = "mnode"
     THEN LET n == mem[b].next IN IF n # NULL /\ mem[n].key <= k THEN n ELSE b
     ELSE LET r == mem[b].right IN
          CASE r # NULL /\ mem[r].key = k -> mem[b].intermed
            [] r # NULL /\ mem[r].key < k -> r
            [] (r # NULL => mem[r].key > k) /\ mem[b].down = NULL -> mem[b].intermed
            [] OTHER -> mem[b].down]

\* The mnode it ends at.  It comes to no block twice.
Descend(k) ==
  LET place[i \in 0 .. Len(mem)] == IF i = 0 THEN sentinel ELSE Onward(k)[place[i - 1]]
  IN  place[Len(mem)]

\* The operations in the array.  Those of initial_populate are inserts; some may
\* be left in it after the reset, before those of application_loop (own).  In
\* alternate mode that deletes the key it has inserted before it inserts another;
\* in the other mode it never deletes, which is a longer population.
\* ~Alternating: any client of the data layer, whose keys others delete too.
Reported(k, insert, own) ==
  /\ ~own => phase # "measure" /\ insert /\ k \notin live
  /\ own  => phase # "populate"
  /\ own /\ Alternating => IF insert THEN mine = 0 /\ k \notin live ELSE k = mine

MarkFor(m, insert) == ~insert

Apply(k, insert, own) ==
  /\ pc = "loop" /\ jobs < setting.jobs
  /\ Reported(k, insert, own)
  /\ LET m == Descend(k) IN
     IF insert /\ mem[m].key # k
     THEN /\ mem' = [Put(Mnode(mem[m].next, k)) EXCEPT ![m].next = Fresh]
          /\ NAlloc
     ELSE /\ mem' = IF mem[m].key = k THEN [mem EXCEPT ![m].marked = MarkFor(m, insert)] ELSE mem
          /\ UNCHANGED alloc
  /\ phase' = IF own THEN "measure" ELSE phase
  /\ mine' = IF own /\ insert THEN k ELSE 0
  /\ live' = IF insert THEN live \cup {k} ELSE live \ {k}
  /\ jobs' = jobs + 1
  /\ UNCHANGED <<sentinel, count, pc, round, search, stay, clean, rounds>>
-----------------------------------------------------------------------------
(* The helper thread: a round of update_index_layer.                       *)

StartRound ==
  /\ pc = "loop" /\ rounds < setting.rounds
  /\ pc' = "remove"
  /\ rounds' = rounds + 1
  /\ UNCHANGED <<mem, alloc, sentinel, count, round, search, phase, mine, history, jobs>>

\* Faulty variants: one of the two conditions is missing.
RemovableLive(m) == mem[m].level = 0
RemovableTall(m) == mem[m].marked

Removable(m) == mem[m].marked /\ mem[m].level = 0

\* Faulty variant: clears the next pointer of the mnode it takes out.
UnlinkClearing ==
  /\ pc = "remove"
  /\ \E j \in 2 .. Len(Chain) :
       /\ Removable(Chain[j])
       /\ \A i \in 2 .. j - 1 : ~Removable(Chain[i])
       /\ mem' = [mem EXCEPT ![Chain[j - 1]].next = mem[Chain[j]].next,
                              ![Chain[j]].next = NULL]
       /\ old' = Chain[j]
       /\ stay' = stay \ {mem[Chain[j]].key}
  /\ pc' = "mfree"
  /\ UNCHANGED <<alloc, sentinel, count, at, row, raised, skipping, search, phase, mine,
                 live, clean, bounds>>

\* bg_mremove: the next deleted mnode without a level leaves the chain ...
Unlink ==
  /\ pc = "remove"
  /\ LET chain == Chain IN \E j \in 2 .. Len(chain) :
       /\ Removable(chain[j])
       /\ \A i \in 2 .. j - 1 : ~Removable(chain[i])
       /\ mem' = [mem EXCEPT ![chain[j - 1]].next = mem[chain[j]].next]
       /\ old' = chain[j]
       /\ stay' = stay \ {mem[chain[j]].key}
  /\ pc' = "mfree"
  /\ UNCHANGED <<alloc, sentinel, count, at, row, raised, skipping, search, phase, mine,
                 live, clean, bounds>>

\* ... and goes back to the allocator (mnode_delete).
FreeMnode ==
  /\ pc = "mfree"
  /\ NFree(old)
  /\ old' = NULL
  /\ pc' = IF TakesAnother(old) THEN "corrupt" ELSE "remove"
  /\ UNCHANGED <<last, sentinel, count, at, row, raised, skipping, search, phase, mine,
                 live, stay, bounds>>

\* Faulty variant: the counters are exchanged.
UndeletedExchanged(m) == mem[m].marked
Undeleted(m)          == ~mem[m].marked

\* bg_trav_mnodes has removed and counted to the end of the chain.
EndRemoval ==
  /\ pc = "remove"
  /\ LET rest == Members(Chain) \ {First} IN
     /\ \A m \in rest : ~Removable(m)
     /\ non_del' = non_del + Cardinality({m \in rest : Undeleted(m)})
     /\ tall_del' = tall_del + Cardinality({m \in rest : ~Undeleted(m) /\ Level(m) >= 1})
  /\ raised' = FALSE
  /\ pc' = "mraise"
  /\ UNCHANGED <<mem, alloc, sentinel, at, row, skipping, old, search, phase, mine, history,
                 bounds>>

\* bg_raise_mlevel: the middle one of three neighbours without a level.
Raisable(chain, j) ==
  /\ ~mem[First].marked
  /\ \A i \in {j - 1, j, j + 1} : Level(chain[i]) = 0

RaiseMnode ==
  /\ pc = "mraise"
  /\ LET chain == Chain IN \E j \in 2 .. Len(chain) - 1 :
       /\ Raisable(chain, j)
       /\ \A i \in 2 .. j - 1 : ~Raisable(chain, i)
       /\ LET m == chain[j]
              p == Before(Row(Column[1]), mem[m].key)
          IN  mem' = [Put(Inode(mem[p].right, NULL, m, mem[m].key)) EXCEPT
                        ![p].right = Fresh, ![m].level = 1]
  /\ NAlloc
  /\ raised' = TRUE
  /\ UNCHANGED <<sentinel, count, pc, at, row, skipping, old, search, phase, mine, history,
                 bounds>>

\* Faulty variant: does not count the row.
NewTopUncounted ==
  /\ mem' = Put(Inode(NULL, sentinel, First, 0))
  /\ NAlloc
  /\ sentinel' = Fresh

\* A new top row: set_sentinel(inode_new(NULL, sentinel, sentinel->intermed, ...)).
NewTop ==
  /\ mem' = [Put(Inode(NULL, sentinel, First, 0)) EXCEPT ![First].level = @ + 1]
  /\ NAlloc
  /\ sentinel' = Fresh

StartRow(r) ==
  /\ row' = r /\ at' = Column[r]
  /\ skipping' = FALSE
  /\ pc' = "iraise"

EndMraise ==
  /\ pc = "mraise"
  /\ LET chain == Chain IN \A j \in 2 .. Len(chain) - 1 : ~Raisable(chain, j)
  /\ IF raised /\ Level(First) = 1 THEN NewTop ELSE UNCHANGED <<mem, alloc, sentinel>>
  /\ IF mem'[First].level > 1 THEN StartRow(1)
     ELSE pc' = "lower" /\ UNCHANGED <<row, at, skipping>>
  /\ raised' = FALSE
  /\ UNCHANGED <<count, old, search, phase, mine, history, bounds>>
-----------------------------------------------------------------------------
(* bg_raise_ilevel on one row: at is iprev, Index and Inext follow it.     *)
Index == mem[at].right
Inext == mem[Index].right

\* Deleted inodes leave the row, the last one only after another.
SkipDeleted ==
  /\ pc = "iraise" /\ Index # NULL
  /\ Deleted(Index) /\ (Inext # NULL \/ skipping)
  /\ mem' = [mem EXCEPT ![at].right = Inext]
  /\ skipping' = TRUE
  /\ UNCHANGED <<alloc, sentinel, count, pc, at, row, raised, old, search, phase, mine,
                 history, bounds>>

BetweenLow == \A i \in {at, Index, Inext} : Level(mem[i].intermed) <= row

RaiseInode ==
  /\ pc = "iraise" /\ Index # NULL /\ Inext # NULL
  /\ ~Deleted(Index) /\ BetweenLow
  /\ LET m == mem[Index].intermed
         p == Before(Row(Column[row + 1]), mem[m].key)
     IN  mem' = [Put(Inode(mem[p].right, Index, m, mem[m].key)) EXCEPT
                   ![p].right = Fresh, ![m].level = row + 1]
  /\ NAlloc
  /\ raised' = TRUE
  /\ at' = Index /\ skipping' = FALSE
  /\ UNCHANGED <<sentinel, count, pc, row, old, search, phase, mine, history, bounds>>

PassInode ==
  /\ pc = "iraise" /\ Index # NULL /\ Inext # NULL
  /\ ~Deleted(Index) /\ ~BetweenLow
  /\ at' = Index /\ skipping' = FALSE
  /\ UNCHANGED <<mem, alloc, sentinel, count, pc, row, raised, old, search, phase, mine,
                 history, bounds>>

RowEnds ==
  Index # NULL => Inext = NULL /\ ~(skipping /\ Deleted(Index))

\* The next row, or the end of the loop of update_index_layer: a new top row
\* if the last row raised an inode.
EndRow ==
  /\ pc = "iraise" /\ RowEnds
  /\ IF row + 1 < Level(First)
     THEN UNCHANGED <<mem, alloc, sentinel>> /\ StartRow(row + 1)
     ELSE /\ IF raised THEN NewTop ELSE UNCHANGED <<mem, alloc, sentinel>>
          /\ pc' = "lower" /\ at' = NULL /\ row' = 0 /\ skipping' = FALSE
  /\ raised' = FALSE
  /\ UNCHANGED <<count, old, search, phase, mine, history, bounds>>
-----------------------------------------------------------------------------
(* bg_lower_ilevel: the second row becomes the lowest.                     *)
MustLower == tall_del > setting.ratio * non_del /\ Len(Column) > 1

EndRound ==
  /\ pc = "lower"
  /\ IF MustLower THEN pc' = "cut" /\ at' = Column[2] /\ old' = Column[1]
     ELSE pc' = "loop" /\ UNCHANGED <<at, old>>
  /\ UNCHANGED <<mem, alloc, sentinel, count, row, raised, skipping, search, phase, mine,
                 history, bounds>>

CutDown ==
  /\ pc = "cut"
  /\ mem' = [mem EXCEPT ![at].down = NULL, ![mem[at].intermed].level = @ - 1]
  /\ at' = mem[at].right
  /\ pc' = IF at' = NULL THEN "ifree" ELSE "cut"
  /\ UNCHANGED <<alloc, sentinel, count, row, raised, skipping, old, search, phase, mine,
                 history, bounds>>

FreeInode ==
  /\ pc = "ifree"
  /\ NFree(old)
  /\ old' = mem[old].right
  /\ pc' = IF TakesAnother(old) THEN "corrupt" ELSE IF old' = NULL THEN "loop" ELSE "ifree"
  /\ UNCHANGED <<last, sentinel, count, at, row, raised, skipping, search, phase, mine,
                 live, stay, bounds>>

\* The helper thread starts again after the population (reset_index).  main has
\* joined the populating thread, so no search is under way.
ResetIndex ==
  /\ phase = "populate" /\ pc = "loop" /\ search.pc = "done"
  /\ LET top(b) == IF b = First THEN 1 ELSE 0
         flat   == [b \in 1 .. Len(mem) |->
                      IF b \in Members(Chain) THEN [mem[b] EXCEPT !.level = top(b)]
                      ELSE mem[b]]
     IN  mem' = Append(flat, Inode(NULL, NULL, First, 0))
  /\ NAlloc
  /\ sentinel' = Fresh
  /\ phase' = "rebuild"
  /\ UNCHANGED <<count, pc, round, search, mine, history, bounds>>

Helper ==
  \/ \E k \in Keys, insert, own \in BOOLEAN : Apply(k, insert, own)
  \/ StartRound \/ Unlink \/ FreeMnode \/ EndRemoval
  \/ RaiseMnode \/ EndMraise
  \/ SkipDeleted \/ RaiseInode \/ PassInode \/ EndRow
  \/ EndRound \/ CutDown \/ FreeInode
  \/ ResetIndex
-----------------------------------------------------------------------------
(* The application thread: sl_traverse_index.                              *)
Go(where, b)  == search' = [search EXCEPT !.pc = where, !.at = b]
Answer(n)     == search' = [search EXCEPT !.pc = "done", !.at = NULL, !.entry = n]
Standing(where, kind) == search.pc = where /\ mem[search.at].kind = kind

StartSearch(k) ==
  /\ search.pc = "done"
  /\ search' = [search EXCEPT !.pc = "right", !.key = k, !.at = sentinel]
  /\ stay' = ChainKeys /\ clean' = (pc # "corrupt")
  /\ UNCHANGED <<mem, alloc, sentinel, count, pc, round, phase, mine, live, bounds>>

\* next_item = item->right, and the key of that inode (0 in any other block).
SearchRight ==
  /\ Standing("right", "inode")
  /\ LET r == mem[search.at].right IN
     IF r = NULL THEN Go("down", search.at)
     ELSE LET k == IF mem[r].kind = "inode" THEN mem[r].key ELSE 0 IN
          \/ k < search.key /\ Go("right", r)
          \/ k = search.key /\ Go("walk", mem[search.at].intermed)
          \/ k > search.key /\ Go("down", search.at)
  /\ UNCHANGED <<mem, alloc, sentinel, count, pc, round, phase, mine, history, bounds>>

\* next_item = item->down
SearchDown ==
  /\ Standing("down", "inode")
  /\ LET d == mem[search.at].down IN
     IF d = NULL THEN Go("walk", mem[search.at].intermed) ELSE Go("right", d)
  /\ UNCHANGED <<mem, alloc, sentinel, count, pc, round, phase, mine, history, bounds>>

\* The loop along the chain loads mnode->next once each time round.  Read as an
\* mnode, a block that has become an inode has a pointer for a key.
SearchWalk ==
  /\ Standing("walk", "mnode")
  /\ LET n == mem[search.at].next IN
     IF n # NULL /\ (CASE mem[n].kind = "mnode" -> mem[n].key <= search.key
                       [] mem[n].kind = "zero"  -> TRUE
                       [] mem[n].kind = "inode" -> FALSE)
     THEN Go("walk", n) ELSE Answer(mem[search.at].key)
  /\ UNCHANGED <<mem, alloc, sentinel, count, pc, round, phase, mine, history, bounds>>

\* The block is zero or has become a block of the other kind: no data-layer
\* node comes out of what the search reads from here.
SearchLost ==
  /\ search.pc # "done"
  /\ mem[search.at].kind # (IF search.pc = "walk" THEN "mnode" ELSE "inode")
  /\ Answer(NoNode)
  /\ UNCHANGED <<mem, alloc, sentinel, count, pc, round, phase, mine, history, bounds>>

SearchStep == SearchRight \/ SearchDown \/ SearchWalk \/ SearchLost
Search     == (\E k \in SearchKeys : StartSearch(k)) \/ SearchStep

Next == (Helper \/ Search) /\ UNCHANGED setting
Spec == Init /\ [][Next]_vars

-----------------------------------------------------------------------------
Ascending(s) == \A i, j \in DOMAIN s : i < j => mem[s[i]].key < mem[s[j]].key
Rows == {<<r, Row(Column[r])>> : r \in DOMAIN Column}

\* The variables keep their types, and the cursors lie in the memory.
TypeOK ==
  /\ \A b \in DOMAIN mem : mem[b].kind \in {"mnode", "inode", "zero"}
  /\ last \in DOMAIN mem /\ sentinel \in DOMAIN mem /\ released \in BOOLEAN
  /\ {at, old, search.at} \subseteq 0 .. Len(mem)
  /\ non_del \in Nat /\ tall_del \in Nat
  /\ search.pc \in {"right", "down", "walk", "done"}
  /\ search.entry \in Keys \cup {0, NoNode}

\* The chain holds every key once, in order, and the unmarked ones are the keys
\* that the operations leave, in the order they were taken from the array: no
\* operation is applied to the wrong mnode, and no removal takes a live key
\* (update_intermediate_layer, bg_mremove).
ChainMirrorsJobs ==
  /\ Ascending(Chain)
  /\ {mem[m].key : m \in {x \in Members(Chain) \ {First} : ~mem[x].marked}} = live

\* "the lowest index level is removed by nullifying the reference to the lowest
\* level from the second lowest level" (helper.cpp:254): no pointer leads into the
\* inodes that are given back, unless an inode stands on one that was skipped out of
\* the second row and has kept its reference.
LowestLevelRemoved ==
  LET right == Pointers("inode", "right")
      down  == Pointers("inode", "down")
      rows  == UNION {Members(rr[2]) : rr \in Rows}
      reached[n \in Nat] ==
        IF n = 0 THEN {sentinel}
        ELSE UNION {{b, right[b], down[b]} : b \in reached[n - 1]}
  IN  pc = "ifree" => \/ old \notin reached[Len(mem)]
                      \/ \E i \in rows : down[i] \notin rows \cup {NULL}

\* Every inode of a row stands on an mnode of the chain that the removal will
\* not take, and on an inode of its own key in the row below, whatever has been
\* raised, skipped, lowered or reset before, and no pointer leads into a row that is
\* given back.
TowersAnchored ==
  /\ pc \notin {"cut", "corrupt"} => LET chain == Members(Chain) IN \A rr \in Rows :
       /\ Ascending(rr[2])
       /\ \A i \in Members(rr[2]) :
            /\ mem[i].intermed \in chain
            /\ Level(mem[i].intermed) >= rr[1]
            /\ mem[i].key = mem[mem[i].intermed].key
            /\ IF rr[1] = 1 THEN mem[i].down = NULL
               ELSE mem[i].down # NULL /\ mem[mem[i].down].key = mem[i].key
  /\ LowestLevelRemoved

\* The level of the first mnode counts the rows (the asserts of lines 303 and
\* 306 of helper.cpp): the loops over inodes[] stay in bounds.
LevelCountsRows ==
  /\ TypeOK
  /\ pc # "corrupt" => Level(First) = Len(Column)

\* With the operations of the program no round ever finds more deleted mnodes
\* with a level than undeleted ones, let alone ten times as many in all rounds
\* together: the index is never lowered (helper.cpp:348).
NeverLowers == Alternating => tall_del <= non_del /\ pc \notin {"cut", "ifree"}

\* If no block was given back meanwhile, a search returns a node of the list not
\* beyond its key, and at least as near to it as every mnode that was in the
\* chain all the time: rows that are raised, skipped and lowered under it, and
\* mnodes unlinked under it, only cost it steps.
EntryIsNear ==
  search.pc = "done" /\ clean =>
    /\ search.entry \in 0 .. search.key
    /\ \A k \in stay : k <= search.key => k <= search.entry

\* "don't raise deleted nodes" (helper.cpp:171, :216): no row gets an inode for
\* a key that is marked as deleted at that moment.
RaisesOnlyLive ==
  [][\A i \in DOMAIN mem' :
       (i \notin DOMAIN mem \/ mem[i] # mem'[i]) /\ mem'[i].kind = "inode"
         /\ (i \notin DOMAIN mem \/ mem[i].kind # "inode")
       => ~mem[mem'[i].intermed].marked]_vars

\* "since this operates on the intermediate layer alone, no synchronization
\* techniques are needed" (helper.cpp:45): a search always gets a node of the
\* list that is not beyond its key.  It does not: the mnode it stands on may be
\* zeroed and used again.
NoSynchronizationNeeded ==
  search.pc = "done" => search.entry \in 0 .. search.key

=============================================================================
