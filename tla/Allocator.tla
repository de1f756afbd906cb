------------------------------ MODULE Allocator ------------------------------
(***************************************************************************)
(* The allocator of one enclave (allocator.cpp): a pointer that moves      *)
(* forward in a buffer, a new buffer when the request does not fit, and    *)
(* the last block taken back when it is freed at once.  An address is a    *)
(* buffer and an offset in it; memory is a number for every half line,     *)
(* which is all that a comparison of contents can tell apart.              *)
(*                                                                         *)
(* Two kinds of block are ever asked for: an inode (32 bytes) and an mnode *)
(* (40 bytes, of which the last 8 hold the flag marked).                   *)
(***************************************************************************)
EXTENDS Integers, Sequences, FiniteSets

CONSTANTS BufSizes,   \* the sizes of a buffer to choose from, in bytes
          Content,    \* what a node's fields may hold
          MaxAllocs   \* bound: allocations

CacheSize == 64
Half      == CacheSize \div 2
Inode     == 32     \* INODE_SZ
Mnode     == 40     \* MNODE_SZ

ASSUME BufSizesAssumption ==
  /\ \A s \in BufSizes : s \in Nat /\ s % CacheSize = 0
  /\ \E s \in BufSizes : \A r \in BufSizes : r <= s
ASSUME ContentAssumption  == Content \subseteq Nat \ {0}
ASSUME BoundAssumption    == MaxAllocs \in Nat

VARIABLES
  buf_size, buf_start, buf_cur, buf_old, other_buffers, last_alloc_half, empty,
  mem,       \* the contents of the half lines
  freed,     \* the buffers given back to the system, in order
  live,      \* history: the blocks in use, with what their owners wrote
  allocs,    \* history: the number of allocations
  twins,     \* history: a block was freed while another in use had its contents
  repeated   \* history: two half lines were asked for, no whole line between

buffers == <<buf_start, other_buffers>>
history == <<twins, repeated>>
vars == <<buf_size, buffers, buf_cur, buf_old, last_alloc_half, empty, mem, freed,
          live, allocs, history>>

\* The buffers that a run can reach, and the half lines of one, those past its
\* end included.
Buffer == 1 .. MaxAllocs + 1
Slot   == 0 .. (CHOOSE s \in BufSizes : \A r \in BufSizes : r <= s) \div Half + 2

Init ==
  /\ buf_size \in BufSizes
  /\ buf_start = 1 /\ buf_cur = 0 /\ buf_old = -1
  /\ other_buffers = <<>>
  /\ last_alloc_half = FALSE /\ empty = FALSE
  /\ mem = [a \in Buffer \X Slot |-> 0]
  /\ freed = <<>>
  /\ live = {}
  /\ allocs = 0
  /\ twins = FALSE /\ repeated = FALSE
-----------------------------------------------------------------------------
Alignment(ssize) == IF ssize <= Half THEN Half ELSE CacheSize

Align(old, alignment)    == old + ((alignment - (old % alignment)) % alignment)

AlignedSize(ssize) == Align(ssize, Alignment(ssize))

\* The half lines of n bytes from an offset, and those of a block.
Slots(offset, n) == {i \in Slot : Half * i < offset + n /\ offset < Half * (i + 1)}
Cells(b) == {b.buf} \X Slots(b.offset, AlignedSize(b.ssize))

\* Half a line is left unused before a whole line is handed out.
Move(ssize) ==
  IF last_alloc_half /\ Alignment(ssize) = CacheSize
  THEN [cur |-> buf_cur + Half, half |-> FALSE]
  ELSE [cur |-> buf_cur, half |-> last_alloc_half \/ Alignment(ssize) = Half]

\* Faulty variant: tested before the pointer is moved.
FitsUnmoved(cur, ssize) == buf_cur + AlignedSize(ssize) <= buf_size
Fits(cur, ssize)        == cur + AlignedSize(ssize) <= buf_size

\* The old buffer is kept for nreset; numa_alloc_local returns a fresh one.
NRealloc ==
  /\ other_buffers' = Append(other_buffers, buf_start)
  /\ buf_start' = buf_start + 1

\* nalloc, and the stores of inode_new or mnode_new (marked is false).
NAlloc(ssize, content) ==
  /\ ~empty /\ allocs < MaxAllocs
  /\ LET cur  == Move(ssize).cur
         fits == Fits(cur, ssize)
     IN
     /\ IF fits THEN UNCHANGED buffers ELSE NRealloc
     /\ buf_old' = IF fits THEN cur ELSE 0
     /\ buf_cur' = buf_old' + AlignedSize(ssize)
     /\ LET b == [buf |-> buf_start', offset |-> buf_old', ssize |-> ssize, content |-> content]
        IN  /\ live' = live \cup {b}
            /\ mem' = [a \in DOMAIN mem |->
                         IF a \notin Cells(b) THEN mem[a]
                         ELSE IF a[2] * Half <= buf_old' THEN content ELSE 0]
  /\ last_alloc_half' = Move(ssize).half
  /\ allocs' = allocs + 1
  /\ repeated' = (repeated \/ (last_alloc_half /\ Alignment(ssize) = Half))
  /\ UNCHANGED <<buf_size, empty, freed, twins>>

\* The owner changes the fields of a node.
Write(b, content) ==
  /\ ~empty /\ content # b.content
  /\ live' = (live \ {b}) \cup {[b EXCEPT !.content = content]}
  /\ mem' = [mem EXCEPT ![<<b.buf, b.offset \div Half>>] = content]
  /\ UNCHANGED <<buf_size, buffers, buf_cur, buf_old, last_alloc_half, empty, freed,
                 allocs, history>>

\* Faulty variant: whatever block is freed.
SameAlways(b) == TRUE

\* memcmp of the block with the last one handed out.
Same(b) ==
  \A i \in 0 .. AlignedSize(b.ssize) \div Half - 1 :
    mem[<<b.buf, b.offset \div Half + i>>] = mem[<<buf_start, buf_old \div Half + i>>]

\* Faulty variant: the flag is left alone.
HalfAfterKept(ssize) == last_alloc_half
HalfAfter(ssize)     == last_alloc_half /\ Alignment(ssize) # Half

NFree(b) ==
  /\ ~empty
  /\ live' = live \ {b}
  /\ twins' = (twins \/ \E c \in live \ {b} : c.content = b.content)
  /\ IF Same(b)
     THEN /\ buf_cur' = buf_old
          /\ mem' = [a \in DOMAIN mem |->
                       IF a \in {buf_start} \X Slots(buf_old, AlignedSize(b.ssize))
                       THEN 0 ELSE mem[a]]
          /\ last_alloc_half' = HalfAfter(b.ssize)
     ELSE UNCHANGED <<buf_cur, mem, last_alloc_half>>
  /\ UNCHANGED <<buf_size, buffers, buf_old, empty, freed, allocs, repeated>>

\* The destructor: the other buffers from the last to the first, then the
\* primary one.  The blocks still in use go with them.
NReset ==
  /\ ~empty
  /\ empty' = TRUE
  /\ LET n == Len(other_buffers) IN
     freed' = Append([i \in 1 .. n |-> other_buffers[n + 1 - i]], buf_start)
  /\ live' = {}
  /\ UNCHANGED <<buf_size, buffers, buf_cur, buf_old, last_alloc_half, mem, allocs, history>>

Next ==
  \/ \E ssize \in {Inode, Mnode}, c \in Content : NAlloc(ssize, c)
  \/ \E b \in live : NFree(b) \/ \E c \in Content : Write(b, c)
  \/ NReset

Spec == Init /\ [][Next]_vars
-----------------------------------------------------------------------------
(* Properties *)

\* The types of all the variables; the pointers stay multiples of half a line.
TypeOK ==
  /\ buf_size \in BufSizes /\ {last_alloc_half, empty} \subseteq BOOLEAN
  /\ buf_start \in Buffer /\ other_buffers \in Seq(Buffer) /\ freed \in Seq(Buffer)
  /\ buf_cur \in {Half * i : i \in Slot}
  /\ buf_old \in {Half * i : i \in Slot} \cup {-1}
  /\ mem \in [Buffer \X Slot -> Content \cup {0}]
  /\ allocs \in 0 .. MaxAllocs

\* Two blocks in use never overlap, and each holds what its owner wrote: neither
\* the memset of nfree nor a later allocation touches it, unless a block was
\* freed while another one had the same contents (the memcmp of nfree).
LiveBlocksIntact ==
  ~twins =>
    \A b \in live :
      /\ mem[<<b.buf, b.offset \div Half>>] = b.content
      /\ \A c \in live \ {b} : Cells(b) \cap Cells(c) = {}

\* A block lies inside a buffer that is still held, unless the buffers have no
\* room for one line (population of no key).
WithinBuffer ==
  /\ TypeOK
  /\ buf_size > 0 =>
    \A b \in live :
      /\ b.offset + AlignedSize(b.ssize) <= buf_size
      /\ b.buf = buf_start \/ \E i \in DOMAIN other_buffers : other_buffers[i] = b.buf

\* A node of more than half a line begins at a line, the purpose that the comment
\* of lines 48-49 gives for last_alloc_half, as long as no two half lines are
\* asked for with no whole line between, and no block is freed while another has
\* the same contents.
NoSpillUnlessRepeated ==
  ~repeated /\ ~twins => \A b \in live : b.ssize > Half => b.offset % CacheSize = 0
=============================================================================
