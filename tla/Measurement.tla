----------------------------- MODULE Measurement -----------------------------
(***************************************************************************)
(* The measurement: main and the application threads meet at a barrier,    *)
(* the threads update and search the set until main raises the flag stop,  *)
(* main joins them and adds up their counters (application_loop,           *)
(* update_results, get_unext, barrier_cross, main).                        *)
(*                                                                         *)
(* The data layer is the atomic set of KeySet, which DataLayer implements. *)
(* pthread_cond_wait may return without a signal, as POSIX allows; the     *)
(* source waits without a loop.                                            *)
(***************************************************************************)
EXTENDS Integers, FiniteSets

CONSTANTS NbThreads,  \* nb_threads
          Key,        \* the keys of the range
          Populations,\* what the population may have left in the set
          Mode,       \* the options to choose from: alternate, effective, update
          Room,       \* operations an array takes before it refuses one
          MaxOps,     \* bound: operations of one thread
          NoCall

ASSUME ThreadsAssumption == NbThreads \in Nat /\ NbThreads > 1
ASSUME KeyAssumption     ==
  Key \subseteq Nat \ {0} /\ IsFiniteSet(Key) /\ Populations \subseteq SUBSET Key
ASSUME ModeAssumption    ==
  Mode \subseteq [alternate : BOOLEAN, effective : BOOLEAN, update : 0 .. 100]
ASSUME BoundAssumption   == Room \in Nat /\ MaxOps \in Nat

Thread  == 1 .. NbThreads
MainThread == 0
Parties == Thread \cup {MainThread}     \* of the barrier
Counter == {"add", "added", "remove", "removed", "contains", "found"}

VARIABLES
  mode, first,        \* the options, and the key populated last
  count, crossing,    \* the barrier
  pc,                 \* of every party
  set, call, answer,  \* the data layer, as KeySet describes it
  unext, last, otype, \* locals of application_loop
  ares,               \* its counters, app_res
  published,          \* operations it has handed to its helper
  stop,
  joined, sum,        \* what main has joined and added up
  start,              \* history: the set when the measurement begins
  early               \* history: the parties woken without a signal

given   == <<mode, first, start>>
barrier == <<count, crossing, early>>
data    == <<set, call, answer>>
loop    == <<unext, last, otype, ares, published>>
summing == <<joined, sum>>
vars == <<given, barrier, pc, data, loop, stop, summing>>

Data == INSTANCE KeySet WITH Key <- Key \cup {0}

Init ==
  /\ mode \in Mode
  \* The population's last key, 0 where nothing was populated.
  /\ set \in Populations
  /\ first \in IF set = {} THEN {0} ELSE set
  /\ start = set
  /\ count = NbThreads + 1 /\ crossing = 0 /\ early = {}
  /\ pc = [p \in Parties |-> "arrive"]
  /\ call = [t \in Thread |-> NoCall] /\ answer = [t \in Thread |-> "none"]
  /\ unext = [t \in Thread |-> FALSE]
  /\ last = [t \in Thread |-> -1]
  /\ otype = [t \in Thread |-> "none"]
  /\ ares = [t \in Thread |-> [c \in Counter |-> 0]]
  /\ published = [t \in Thread |-> 0]
  /\ stop = FALSE
  /\ joined = 0
  /\ sum = [reads |-> 0, effreads |-> 0, updates |-> 0, effupds |-> 0,
            size |-> Cardinality(set)]
-----------------------------------------------------------------------------
(* barrier_cross; the mutex makes each side of the wait one step.          *)

\* Faulty variants: one short, and the wake-up of one waiter only.
ArriveEarly(p) ==
  /\ pc[p] = "arrive"
  /\ IF crossing + 2 < count
     THEN pc' = [pc EXCEPT ![p] = "wait"] /\ crossing' = crossing + 1
     ELSE /\ pc' = [q \in Parties |->
                      IF q = p \/ pc[q] = "wait" THEN "crossed" ELSE pc[q]]
          /\ crossing' = 0
  /\ UNCHANGED <<given, count, early, data, loop, stop, summing>>
ArriveSignal(p) ==
  /\ pc[p] = "arrive"
  /\ crossing' = IF crossing + 1 < count THEN crossing + 1 ELSE 0
  /\ IF crossing + 1 < count THEN pc' = [pc EXCEPT ![p] = "wait"]
     ELSE \E r \in Parties :
            pc' = [q \in Parties |->
                     IF q = p \/ (q = r /\ pc[q] = "wait") THEN "crossed" ELSE pc[q]]
  /\ UNCHANGED <<given, count, early, data, loop, stop, summing>>

\* One more through: the last one wakes all that wait.
Arrive(p) ==
  /\ pc[p] = "arrive"
  /\ IF crossing + 1 < count
     THEN pc' = [pc EXCEPT ![p] = "wait"] /\ crossing' = crossing + 1
     ELSE /\ pc' = [q \in Parties |->
                      IF q = p \/ pc[q] = "wait" THEN "crossed" ELSE pc[q]]
          /\ crossing' = 0
  /\ UNCHANGED <<given, count, early, data, loop, stop, summing>>

SpuriousWakeup(p) ==
  /\ pc[p] = "wait"
  /\ pc' = [pc EXCEPT ![p] = "crossed"]
  /\ early' = early \cup {p}
  /\ UNCHANGED <<given, count, crossing, data, loop, stop, summing>>
-----------------------------------------------------------------------------
(* application_loop                                                        *)

Ops(t) == ares[t]["add"] + ares[t]["remove"] + ares[t]["contains"]
Eff(t) == ares[t]["added"] + ares[t]["removed"]

\* rand_range_re(&seed, 100) - 1 < update
Drawn == {b \in BOOLEAN : (b => mode.update > 0) /\ (~b => mode.update < 100)}

FirstDraw(t) ==
  /\ pc[t] = "crossed"
  /\ unext' \in {[unext EXCEPT ![t] = b] : b \in Drawn}
  /\ pc' = [pc EXCEPT ![t] = "loop"]
  /\ UNCHANGED <<given, barrier, data, last, otype, ares, published, stop, summing>>

\* Faulty variants: the remove branch sets otype in every mode; the alternate
\* mode forgets its key.
UpdateDeleting(t) ==
  /\ unext[t]
  /\ IF last[t] < 0
     THEN otype' = [otype EXCEPT ![t] = "INSERT"] /\ call'[t].key \in Key
     ELSE /\ otype' = [otype EXCEPT ![t] = "DELETE"]
          /\ IF mode.alternate THEN call'[t].key = last[t] ELSE call'[t].key \in Key
  /\ UNCHANGED last
UpdateAnyKey(t) ==
  /\ unext[t]
  /\ IF last[t] < 0 THEN otype' = [otype EXCEPT ![t] = "INSERT"]
     ELSE otype' = [otype EXCEPT ![t] = IF mode.alternate THEN "DELETE" ELSE @]
  /\ call'[t].key \in Key
  /\ UNCHANGED last

\* The next operation is an update.  Outside the alternate mode the remove
\* branch leaves otype as the iteration before has set it.
Update(t) ==
  /\ unext[t]
  /\ IF last[t] < 0
     THEN otype' = [otype EXCEPT ![t] = "INSERT"] /\ call'[t].key \in Key
     ELSE IF mode.alternate
     THEN otype' = [otype EXCEPT ![t] = "DELETE"] /\ call'[t].key = last[t]
     ELSE UNCHANGED otype /\ call'[t].key \in Key
  /\ UNCHANGED last

\* The next operation is a read: in alternate mode of the thread's own key.
Read(t) ==
  /\ ~unext[t]
  /\ otype' = [otype EXCEPT ![t] = "CONTAINS"]
  /\ IF mode.alternate /\ mode.update = 0
     THEN IF last[t] < 0
          THEN call'[t].key = first /\ last' = [last EXCEPT ![t] = first]
          ELSE call'[t].key \in Key /\ last' = [last EXCEPT ![t] = -1]
     ELSE /\ UNCHANGED last
          /\ IF mode.alternate /\ last[t] >= 0
             THEN call'[t].key = last[t] ELSE call'[t].key \in Key

\* AO_load_full(stop) = 0, and the choice of the operation.
Choose(t) ==
  /\ pc[t] = "loop" /\ ~stop /\ Ops(t) < MaxOps
  /\ Data!Invoke(t)
  /\ Update(t) \/ Read(t)
  /\ call'[t].op = otype'[t]
  /\ pc' = [pc EXCEPT ![t] = "operation"]
  /\ UNCHANGED <<given, barrier, unext, ares, published, stop, summing>>

\* sl_do_operation
Operation(t) ==
  /\ pc[t] = "operation"
  /\ Data!TakeEffect(t)
  /\ pc' = [pc EXCEPT ![t] = "result"]
  /\ UNCHANGED <<given, barrier, loop, stop, summing>>

Tried == [CONTAINS |-> "contains", INSERT |-> "add", DELETE |-> "remove"]
Done  == [CONTAINS |-> "found", INSERT |-> "added", DELETE |-> "removed"]

\* Faulty variant: an insert counts as added whatever the data layer answers.
CountedAlways(t) ==
  [ares[t] EXCEPT ![Tried[otype[t]]] = @ + 1, ![Done[otype[t]]] = @ + 1]

\* update_results: the counters, and the key to remember.
Counted(t) ==
  IF answer[t] = "yes"
  THEN [ares[t] EXCEPT ![Tried[otype[t]]] = @ + 1, ![Done[otype[t]]] = @ + 1]
  ELSE [ares[t] EXCEPT ![Tried[otype[t]]] = @ + 1]

Remembered(t) ==
  CASE otype[t] = "INSERT" /\ answer[t] = "yes" -> call[t].key
    [] otype[t] = "DELETE" /\ (answer[t] = "yes" \/ mode.alternate) -> -1
    [] OTHER -> last[t]

\* Faulty variant: an effective update counts for nothing.
RateIgnored(t) == {100 * ares'[t]["found"] < mode.update * Ops(t)'}

\* get_unext
Rate(t) ==
  IF mode.effective THEN {b \in BOOLEAN : b <=> 100 * Eff(t)' < mode.update * Ops(t)'}
                    ELSE Drawn

Updates(t) == answer[t] = "yes" /\ otype[t] # "CONTAINS"

\* opbuffer_insert finds room for one more operation.
Fits(t) == published[t] < Room

Result(t) ==
  /\ pc[t] = "result"
  /\ Updates(t) => Fits(t)
  /\ ares' = [ares EXCEPT ![t] = Counted(t)]
  /\ last' = [last EXCEPT ![t] = Remembered(t)]
  /\ published' = [published EXCEPT ![t] = IF Updates(t) THEN @ + 1 ELSE @]
  /\ unext' \in {[unext EXCEPT ![t] = b] : b \in Rate(t)}
  /\ Data!Return(t)
  /\ pc' = [pc EXCEPT ![t] = "loop"]
  /\ UNCHANGED <<given, barrier, otype, stop, summing>>

\* opbuffer_insert refuses the operation: exit(-1) ends every thread.
Exit(t) ==
  /\ pc[t] = "result" /\ Updates(t) /\ ~Fits(t)
  /\ pc' = [p \in Parties |-> "exited"]
  /\ UNCHANGED <<given, barrier, data, loop, stop, summing>>

\* AO_load_full(stop) # 0
LeaveLoop(t) ==
  /\ pc[t] = "loop" /\ stop
  /\ pc' = [pc EXCEPT ![t] = "returned"]
  /\ UNCHANGED <<given, barrier, data, loop, stop, summing>>
-----------------------------------------------------------------------------
(* main *)

\* AO_store_full(&stop, 1) after the duration, or a signal.
Stop ==
  /\ pc[MainThread] = "crossed"
  /\ stop' = TRUE
  /\ pc' = [pc EXCEPT ![MainThread] = "join"]
  /\ UNCHANGED <<given, barrier, data, loop, summing>>

\* stop_application of the next enclave, and the sums over its results.
JoinNext ==
  /\ pc[MainThread] = "join" /\ pc[joined + 1] = "returned"
  /\ joined' = joined + 1
  /\ LET r == ares[joined + 1] IN
     sum' = [reads    |-> sum.reads + r["contains"],
             effreads |-> sum.effreads + r["contains"] + (r["add"] - r["added"])
                                       + (r["remove"] - r["removed"]),
             updates  |-> sum.updates + r["add"] + r["remove"],
             effupds  |-> sum.effupds + r["removed"] + r["added"],
             size     |-> sum.size + r["added"] - r["removed"]]
  /\ pc' = [pc EXCEPT ![MainThread] = IF joined' = NbThreads THEN "done" ELSE "join"]
  /\ UNCHANGED <<given, barrier, data, loop, stop>>

Application(t) ==
  Arrive(t) \/ FirstDraw(t) \/ Choose(t) \/ Operation(t) \/ Result(t) \/ Exit(t) \/ LeaveLoop(t)
Main == Arrive(MainThread) \/ Stop \/ JoinNext

Next == Main \/ (\E t \in Thread : Application(t)) \/ (\E p \in Parties : SpuriousWakeup(p))

Spec == Init /\ [][Next]_vars

\* Every thread is scheduled, and the duration passes.
FairSpec == Spec /\ WF_vars(Main) /\ \A t \in Thread : WF_vars(Application(t))
-----------------------------------------------------------------------------
(* Properties *)

\* The types of all the variables.
TypeOK ==
  /\ mode \in Mode /\ first \in Key \cup {0} /\ {set, start} \subseteq SUBSET Key
  /\ count = NbThreads + 1 /\ crossing \in 0 .. count - 1
  /\ pc \in [Parties -> {"arrive", "wait", "crossed", "loop", "operation", "result",
                         "returned", "join", "done", "exited"}]
  /\ unext \in [Thread -> BOOLEAN] /\ last \in [Thread -> Key \cup {-1, 0}]
  /\ otype \in [Thread -> Data!Optype \cup {"none"}]
  /\ ares \in [Thread -> [Counter -> Nat]]
  /\ published \in [Thread -> 0 .. Room]
  /\ joined \in 0 .. NbThreads /\ early \subseteq Parties

\* h[1] + ... + h[n], for every n.
Sums(h) == LET f[n \in 0 .. NbThreads] == IF n = 0 THEN 0 ELSE f[n - 1] + h[n] IN f

AllOps == [t \in Thread |-> Ops(t)]
Total  == Sums(AllOps)[NbThreads]

\* The expected size that main prints is the size of the list, and every
\* operation is in each of the two ways of counting reads and updates, once:
\* no success is counted that did not change the set, none is missed.
AddsUp ==
  /\ TypeOK
  /\ pc[MainThread] = "done" =>
    /\ sum.size = Cardinality(set)
    /\ sum.reads + sum.updates = Total
    /\ sum.effreads + sum.effupds = Total

\* Thread t remembers a key it has not deleted yet.
Owns(t) == last[t] >= 0 /\ pc[t] \in {"loop", "operation", "returned"}

\* In the alternate mode each thread has at most one key in the set beyond
\* those of the start, a key that no other thread deletes: so every delete
\* finds its key, and the set shrinks back to the start's.
OwnKeys ==
  mode.alternate /\ mode.update > 0 =>
    \A t \in Thread :
      /\ ares[t]["remove"] = ares[t]["removed"]
      /\ Owns(t) => /\ last[t] \in set \ start
                    /\ \A u \in Thread \ {t} : Owns(u) => last[u] # last[t]

\* Outside the alternate mode no key is ever deleted: a thread deletes only
\* after a delete, and the remove branch never begins one.
GrowsOutsideAlternate == [][~mode.alternate => set \subseteq set']_vars

\* In the effective mode a thread's successful updates never exceed, by more
\* than one, the rate asked for of the operations before its last.
RateNotExceeded ==
  mode.effective => \A t \in Thread :
    Ops(t) > 0 => 100 * Eff(t) <= mode.update * (Ops(t) - 1) + 100

\* What the modes promise of the choice of operations.
ModesKept == OwnKeys /\ RateNotExceeded

\* Nobody that waits for the signal crosses before all have arrived; with no
\* wake-up out of turn the threads start together.
CrossTogether ==
  \A p \in Parties \ early : pc[p] \notin {"arrive", "wait", "exited"} =>
    \A q \in Parties : pc[q] # "arrive"

\* The measurement ends, whoever crosses early, unless an array refuses an
\* update: then the whole process exits.
Ends == <>(pc[MainThread] \in {"done", "exited"})
=============================================================================
