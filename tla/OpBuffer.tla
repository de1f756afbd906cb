------------------------------ MODULE OpBuffer ------------------------------
(***************************************************************************)
(* The circular operation array of one enclave (enclave.cpp), shared       *)
(* without locks or atomics by the enclave's application thread, the only  *)
(* caller of opbuffer_insert, and its helper thread, the only caller of    *)
(* opbuffer_remove.                                                        *)
(*                                                                         *)
(* The indices and the slots are plain fields: nothing in the source       *)
(* orders the three stores of an insert, or the two loads and the store of *)
(* a remove.  Each call is therefore a check followed by its memory        *)
(* accesses one at a time in ANY order.  Two inserts never overlap: between*)
(* them the application thread executes a CAS, a full barrier.             *)
(***************************************************************************)
EXTENDS Integers, Sequences

CONSTANTS Key,      \* the keys of operations
          Node,     \* the data layer nodes an operation can point to
          NULL,     \* the node of a remove operation, and of an empty slot
          BufSize   \* buf_size, 2000000 in test.cpp

ASSUME BufSizeAssumption == BufSize \in Nat /\ BufSize >= 3
ASSUME KeyAssumption     == Key \subseteq Nat \ {0} /\ NULL \notin Node

Op     == [key : Key, node : Node \cup {NULL}]
NoOp   == [key |-> 0, node |-> NULL]
Slots  == 0 .. BufSize - 1
Access == {"key", "node", "idx"}   \* the memory accesses of one call

VARIABLES opbuffer,   \* the array
          app_idx,    \* next slot the application thread fills
          hlp_idx,    \* next slot the helper thread empties
          calling,    \* the application thread is at opbuffer_insert's check
          newop,      \* the arguments of the current opbuffer_insert
          storing,    \* its stores still to be made
          app_at,     \* the slot they go to
          loading,    \* the accesses of the current opbuffer_remove to be made
          hlp_at,     \* the slot it loads from
          job,        \* the helper's local copy of an operation
          phase,      \* "populate", "apply", or "exited" after exit(-1)
          inserted,   \* history: operations published through app_idx
          removed     \* history: operations returned by opbuffer_remove

appVars  == <<app_idx, calling, newop, storing, app_at, phase, inserted>>
hlpVars  == <<hlp_idx, loading, hlp_at, job, removed>>
vars     == <<opbuffer, appVars, hlpVars>>

Init ==
  /\ opbuffer = [i \in Slots |-> NoOp]
  /\ app_idx = 0 /\ hlp_idx = 0
  /\ calling = FALSE /\ newop = NoOp /\ storing = {} /\ app_at = 0
  /\ loading = {} /\ hlp_at = 0 /\ job = NoOp
  /\ phase = "populate"
  /\ inserted = << >> /\ removed = << >>

\* Faulty variants: an index that never comes back to slot 0, a test for room
\* that forgets the wrapping, a removal that takes the last operation too, and
\* one that leaves an operation more.
NextIdxNoWrap(i)       == i + 1
FullNoWrap             == app_idx + 1 = hlp_idx
RemovableToLast        == app_idx # hlp_idx
RemovableLeavingThree  == app_idx - ((hlp_idx + 1) % BufSize) > 2

NextIdx(i) == (i + 1) % BufSize
Full       == NextIdx(app_idx) = hlp_idx
\* opbuffer_remove returns NULL unless this holds.
Removable  == app_idx - NextIdx(hlp_idx) > 1

-----------------------------------------------------------------------------
(* The application thread: initial_populate, then application_loop.        *)

\* A successful update calls opbuffer_insert.
CallInsert(op) ==
  /\ ~calling /\ storing = {} /\ phase # "exited"
  /\ calling' = TRUE /\ newop' = op
  /\ UNCHANGED <<opbuffer, app_idx, storing, app_at, phase, inserted, hlpVars>>

\* opbuffer_insert finds room and goes on to store.
Accept ==
  /\ calling /\ phase # "exited" /\ ~Full
  /\ calling' = FALSE /\ storing' = Access /\ app_at' = app_idx
  /\ UNCHANGED <<opbuffer, app_idx, newop, phase, inserted, hlpVars>>

\* opbuffer_insert returns false.  initial_populate tries again at once (no
\* change of state); application_loop prints and ends the process.
RefuseAndExit ==
  /\ calling /\ phase = "apply" /\ Full
  /\ phase' = "exited"
  /\ UNCHANGED <<opbuffer, app_idx, calling, newop, storing, app_at, inserted,
                 hlpVars>>

StoreField(f) ==
  /\ f \in storing \ {"idx"} /\ phase # "exited"
  /\ opbuffer' = [opbuffer EXCEPT ![app_at][f] = newop[f]]
  /\ storing' = storing \ {f}
  /\ UNCHANGED <<app_idx, calling, newop, app_at, phase, inserted, hlpVars>>

StoreIdx ==
  /\ "idx" \in storing /\ phase # "exited"
  /\ app_idx' = NextIdx(app_at)
  /\ inserted' = Append(inserted, newop)
  /\ storing' = storing \ {"idx"}
  /\ UNCHANGED <<opbuffer, calling, newop, app_at, phase, hlpVars>>

\* populate_end has joined initial_populate; application_loop starts.
StartApplication ==
  /\ phase = "populate" /\ ~calling /\ storing = {}
  /\ phase' = "apply"
  /\ UNCHANGED <<opbuffer, app_idx, calling, newop, storing, app_at, inserted,
                 hlpVars>>

-----------------------------------------------------------------------------
(* The helper thread: the draining loop of helper_loop.                    *)

CallRemove ==
  /\ loading = {} /\ phase # "exited" /\ Removable
  /\ loading' = Access /\ hlp_at' = hlp_idx
  /\ UNCHANGED <<opbuffer, hlp_idx, job, removed, appVars>>

\* Access f is made; the call returns the job with the last one.
Loaded(f) ==
  /\ loading' = loading \ {f}
  /\ removed' = IF loading' = {} THEN Append(removed, job') ELSE removed

LoadField(f) ==
  /\ f \in loading \ {"idx"} /\ phase # "exited"
  /\ job' = [job EXCEPT ![f] = opbuffer[hlp_at][f]]
  /\ Loaded(f)
  /\ UNCHANGED <<opbuffer, hlp_idx, hlp_at, appVars>>

AdvanceIdx ==
  /\ "idx" \in loading /\ phase # "exited"
  /\ hlp_idx' = NextIdx(hlp_at)
  /\ job' = job
  /\ Loaded("idx")
  /\ UNCHANGED <<opbuffer, hlp_at, appVars>>

-----------------------------------------------------------------------------
Store == Accept \/ StoreIdx \/ \E f \in Access : StoreField(f)
Drain == CallRemove \/ AdvanceIdx \/ \E f \in Access : LoadField(f)

Next ==
  \/ \E op \in Op : CallInsert(op)
  \/ Store
  \/ RefuseAndExit
  \/ StartApplication
  \/ Drain

Spec == Init /\ [][Next]_vars

\* A running thread is scheduled.  Whether there is another update to publish,
\* and when population ends, is left open.
FairSpec == Spec /\ WF_vars(Store) /\ WF_vars(Drain)
-----------------------------------------------------------------------------
(* Properties                                                              *)

\* The types of all the variables.
TypeOK ==
  /\ opbuffer \in [Slots -> [key : Key \cup {0}, node : Node \cup {NULL}]]
  /\ {app_idx, hlp_idx, app_at, hlp_at} \subseteq Slots
  /\ calling \in BOOLEAN
  /\ newop \in Op \cup {NoOp}
  /\ storing \subseteq Access /\ loading \subseteq Access
  /\ job \in [key : Key \cup {0}, node : Node \cup {NULL}]
  /\ phase \in {"populate", "apply", "exited"}
  /\ inserted \in Seq(Op) /\ removed \in Seq(Op)

\* The helper receives what the application published, in its order, nothing
\* twice, nothing skipped and no operation with the key of one and the node of
\* another, although no store or load of the two threads is ordered: the slots
\* opbuffer_remove leaves untouched keep it away from a slot being written.
Queue == INSTANCE OpQueue
Fifo  == Queue!Spec

\* The application thread has come back to slot 0.
Wrapped == Len(inserted) >= BufSize

\* opbuffer_remove subtracts the indices without regard to the wrapping: from
\* the moment app_idx has wrapped no further removal starts.
FrozenAfterWrap == [][Wrapped => ~(loading = {} /\ loading' # {})]_vars

\* So one array carries at most 2 * buf_size - 4 operations in its whole life;
\* the next update spins (initial_populate) or ends the process
\* (application_loop).
LifetimeBound == Len(inserted) <= 2 * BufSize - 4

\* Until the array wraps the helper keeps up: only the operations that
\* opbuffer_remove always leaves behind stay in the array.
DrainsBeforeWrap ==
  TRUE ~> (Wrapped \/ phase = "exited" \/ Len(inserted) - Len(removed) <= 2)

=============================================================================
