------------------------------ MODULE Lifecycle ------------------------------
(***************************************************************************)
(* The life of the enclaves under main (test.cpp, enclave.cpp): helpers    *)
(* are started, application threads populate the list, helpers are stopped *)
(* and started again to rebuild their indices from scratch (reset_index),  *)
(* main waits for the indices to grow, the measurement runs, everything is *)
(* stopped and deleted.                                                    *)
(*                                                                         *)
(* main and a helper share plain fields (running, finished, reset_index,   *)
(* populate_init, the level of the index); pthread_create and pthread_join *)
(* are the only synchronisation.  The operation array is the queue of      *)
(* OpQueue by its two lengths, the index is its number of rows.            *)
(***************************************************************************)
EXTENDS Integers, FiniteSets, FiniteSetsExt

CONSTANTS NbThreads,    \* nb_threads, the number of enclaves
          Initial,      \* the sizes of the initial set to choose from
          MaxUpdates,   \* bound: updates of one thread in the measurement
          UnsignedRange \* number of values of an unsigned int, 2^32 in the code

ASSUME ThreadsAssumption == NbThreads \in Nat /\ NbThreads > 1
ASSUME BoundAssumption ==
  Initial \subseteq Nat /\ MaxUpdates \in Nat /\ UnsignedRange \in Nat \ {0}

Enclave == 1 .. NbThreads

VARIABLES
  initial,                                         \* -i
  running, finished, reset_index, populate_init,   \* fields of the enclaves
  num_populate, app, published,    \* the application thread: what it runs, and
                                   \* the operations it has put in the array
  hpc, update_all, applied, level, \* the helper thread, its local update_all,
                                   \* the operations taken, the rows of the index
  main, k, returnTo,               \* main, its loop index, the caller of stop_helper
  stop,                            \* the flag of the measurement
  deleted,                         \* the enclaves deleted
  resets                           \* history: resets of each index

flags   == <<running, finished, reset_index, populate_init>>
appVars == <<num_populate, app, published>>
hlpVars == <<hpc, update_all, applied, level>>
mainVars == <<main, k, returnTo>>
vars == <<initial, flags, appVars, hlpVars, mainVars, stop, deleted, resets>>

Init ==
  /\ initial \in Initial
  /\ running = [e \in Enclave |-> FALSE]
  /\ finished = [e \in Enclave |-> FALSE]
  /\ reset_index = [e \in Enclave |-> FALSE]
  /\ populate_init = [e \in Enclave |-> FALSE]
  /\ num_populate = [e \in Enclave |-> 0]
  /\ app = [e \in Enclave |-> "none"]
  /\ published = [e \in Enclave |-> 0]
  /\ hpc = [e \in Enclave |-> "none"]
  /\ update_all = [e \in Enclave |-> FALSE]
  /\ applied = [e \in Enclave |-> 0]
  /\ level = [e \in Enclave |-> 1]
  /\ main = "start" /\ k = 1 /\ returnTo = "none"
  /\ stop = FALSE
  /\ deleted = {}
  /\ resets = [e \in Enclave |-> 0]
-----------------------------------------------------------------------------
(* The helper thread of enclave e (helper_loop).                           *)

\* Faulty variant: the flag is read at the end of the population only.
HelperStartBlind(e) ==
  /\ hpc[e] = "created"
  /\ hpc' = [hpc EXCEPT ![e] = "reset"]
  /\ UNCHANGED <<update_all, applied, level, initial, flags, appVars, mainVars, stop, deleted,
                 resets>>

HelperStart(e) ==
  /\ hpc[e] = "created"
  /\ update_all' = [update_all EXCEPT ![e] = populate_init[e]]
  /\ hpc' = [hpc EXCEPT ![e] = "reset"]
  /\ UNCHANGED <<applied, level, initial, flags, appVars, mainVars, stop, deleted, resets>>

\* Faulty variant: a helper that is to finish does not reset first.
ResetUnlessFinished(e) ==
  /\ hpc[e] = "reset"
  /\ IF reset_index[e] /\ ~finished[e]
     THEN /\ reset_index' = [reset_index EXCEPT ![e] = FALSE]
          /\ level' = [level EXCEPT ![e] = 1]
          /\ resets' = [resets EXCEPT ![e] = @ + 1]
     ELSE UNCHANGED <<reset_index, level, resets>>
  /\ hpc' = [hpc EXCEPT ![e] = "test"]
  /\ UNCHANGED <<update_all, applied, initial, running, finished, populate_init, appVars,
                 mainVars, stop, deleted>>

HelperReset(e) ==
  /\ hpc[e] = "reset"
  /\ IF reset_index[e]
     THEN /\ reset_index' = [reset_index EXCEPT ![e] = FALSE]
          /\ level' = [level EXCEPT ![e] = 1]
          /\ resets' = [resets EXCEPT ![e] = @ + 1]
     ELSE UNCHANGED <<reset_index, level, resets>>
  /\ hpc' = [hpc EXCEPT ![e] = "test"]
  /\ UNCHANGED <<update_all, applied, initial, running, finished, populate_init, appVars,
                 mainVars, stop, deleted>>

HelperTest(e) ==
  /\ hpc[e] = "test"
  /\ hpc' = [hpc EXCEPT ![e] = IF finished[e] THEN "returned" ELSE "drain"]
  /\ UNCHANGED <<update_all, applied, level, initial, flags, appVars, mainVars, stop, deleted,
                 resets>>

\* opbuffer_remove leaves two operations in an array that has not wrapped.
HelperDrain(e) ==
  /\ hpc[e] = "drain"
  /\ IF published[e] - applied[e] > 2
     THEN applied' = [applied EXCEPT ![e] = @ + 1] /\ UNCHANGED hpc
     ELSE hpc' = [hpc EXCEPT ![e] = "index"] /\ UNCHANGED applied
  /\ UNCHANGED <<update_all, level, initial, flags, appVars, mainVars, stop, deleted, resets>>

\* The rows with inodes above n mnodes (or inodes): at best every second one is
\* raised, never the first nor the last.
Rows[n \in Nat] == IF n < 3 THEN 0 ELSE 1 + Rows[(n - 1) \div 2]

\* What one round of update_index_layer can make of the level: one more row,
\* and a second one when the first is new.
Levels(e) ==
  {l \in level[e] .. 1 + Rows[applied[e]] : l - level[e] <= IF level[e] = 1 THEN 2 ELSE 1}
    \cup {level[e]}

\* After the reset the chain is complete and without levels, and a round raises
\* all it can.  Before, and in the measurement, what it raises depends on the
\* order in which the keys arrive.
NewLevel(e) ==
  IF update_all[e] /\ resets[e] > 0 THEN {Max(Levels(e))} ELSE Levels(e)

\* In the measurement a round takes place with the chance update_freq, which is
\* any number: main never sets the freq it hands to thread_init.
HelperRound(e) ==
  /\ hpc[e] = "index"
  /\ \/ \E l \in NewLevel(e) : level' = [level EXCEPT ![e] = l]
     \/ ~update_all[e] /\ UNCHANGED level
  /\ hpc' = [hpc EXCEPT ![e] = "test"]
  /\ UNCHANGED <<update_all, applied, initial, flags, appVars, mainVars, stop, deleted, resets>>

Helper(e) ==
  HelperStart(e) \/ HelperReset(e) \/ HelperTest(e) \/ HelperDrain(e) \/ HelperRound(e)
-----------------------------------------------------------------------------
(* The application thread of enclave e.                                    *)

\* initial_populate: one more key inserted and handed to the helper, or the end.
\* Attempts that hit a key of the list change nothing.
PopulateOne(e) ==
  /\ app[e] = "populating"
  /\ IF published[e] < num_populate[e]
     THEN published' = [published EXCEPT ![e] = @ + 1] /\ UNCHANGED app
     ELSE app' = [app EXCEPT ![e] = "returned"] /\ UNCHANGED published
  /\ UNCHANGED <<num_populate, initial, flags, hlpVars, mainVars, stop, deleted, resets>>

\* application_loop: an update handed to the helper, and the end.
ApplyOne(e) ==
  /\ app[e] = "applying" /\ ~stop
  /\ published[e] < num_populate[e] + MaxUpdates
  /\ published' = [published EXCEPT ![e] = @ + 1]
  /\ UNCHANGED <<num_populate, app, initial, flags, hlpVars, mainVars, stop, deleted, resets>>

SeeStop(e) ==
  /\ app[e] = "applying" /\ stop
  /\ app' = [app EXCEPT ![e] = "returned"]
  /\ UNCHANGED <<num_populate, published, initial, flags, hlpVars, mainVars, stop, deleted,
                 resets>>

Application(e) == PopulateOne(e) \/ ApplyOne(e) \/ SeeStop(e)
-----------------------------------------------------------------------------
(* main                                                                    *)

\* The loop of main at "here" goes on with the next enclave, or ends.
Continue(here, done) ==
  IF k = NbThreads THEN main' = done /\ k' = 1 ELSE main' = here /\ k' = k + 1

\* start_helper(pop_all)
CreateHelper(pop_all) ==
  IF running[k] THEN UNCHANGED <<populate_init, running, finished, hpc>>
  ELSE /\ populate_init' = [populate_init EXCEPT ![k] = pop_all]
       /\ running' = [running EXCEPT ![k] = TRUE]
       /\ finished' = [finished EXCEPT ![k] = FALSE]
       /\ hpc' = [hpc EXCEPT ![k] = "created"]

StartHelper(here, pop_all, next) ==
  /\ main = here
  /\ CreateHelper(pop_all)
  /\ Continue(IF here = "restart" THEN "wait" ELSE here, next)
  /\ UNCHANGED <<reset_index, update_all, applied, level, returnTo, initial, appVars, stop,
                 deleted, resets>>

d == initial \div NbThreads
m == initial % NbThreads
\* Faulty variant: one enclave too many gets the remainder.
ShareOneMore(e) == IF e <= m + 1 THEN d + 1 ELSE d

\* The enclaves before m get one key more.
Share(e) == IF e <= m THEN d + 1 ELSE d

PopulateBegin ==
  /\ main = "populate"
  /\ num_populate' = [num_populate EXCEPT ![k] = Share(k)]
  /\ app' = [app EXCEPT ![k] = "populating"]
  /\ Continue("populate", "collect")
  /\ UNCHANGED <<published, returnTo, initial, flags, hlpVars, stop, deleted, resets>>

\* populate_end, then stop_helper and reset_index_layer.
PopulateEnd ==
  /\ main = "collect" /\ app[k] = "returned"
  /\ app' = [app EXCEPT ![k] = "none"]
  /\ main' = "stop" /\ returnTo' = "reset"
  /\ UNCHANGED <<num_populate, published, k, initial, flags, hlpVars, stop, deleted, resets>>

\* stop_helper: the flag ...
StopHelper ==
  /\ main = "stop"
  /\ finished' = [finished EXCEPT ![k] = finished[k] \/ running[k]]
  /\ main' = "join"
  /\ UNCHANGED <<running, reset_index, populate_init, k, returnTo, initial, appVars, hlpVars,
                 stop, deleted, resets>>

\* Faulty variant: ... without waiting for the thread.
JoinHelperDetached ==
  /\ main = "join"
  /\ running' = [running EXCEPT ![k] = FALSE]
  /\ main' = returnTo /\ returnTo' = "none"
  /\ UNCHANGED <<hpc, finished, reset_index, populate_init, update_all, applied, level, k,
                 initial, appVars, stop, deleted, resets>>

\* ... and the join.
JoinHelper ==
  /\ main = "join" /\ (running[k] => hpc[k] = "returned")
  /\ running' = [running EXCEPT ![k] = FALSE]
  /\ hpc' = [hpc EXCEPT ![k] = IF running[k] THEN "none" ELSE @]
  /\ main' = returnTo /\ returnTo' = "none"
  /\ UNCHANGED <<finished, reset_index, populate_init, update_all, applied, level, k, initial,
                 appVars, stop, deleted, resets>>

ResetIndexLayer ==
  /\ main = "reset"
  /\ reset_index' = [reset_index EXCEPT ![k] = TRUE]
  /\ Continue("collect", "rebuild")
  /\ UNCHANGED <<running, finished, populate_init, returnTo, initial, appVars, hlpVars, stop,
                 deleted, resets>>

\* The position of the highest bit, -1 for 0.
floor_log_2[n \in Nat] == IF n < 2 THEN n - 1 ELSE 1 + floor_log_2[n \div 2]

\* The level is unsigned, so the comparison converts the other side.
WaitLevel == (floor_log_2[d] - 1) % UnsignedRange

\* The loop sees the level of the moment, then stops the helper and starts it
\* again for the measurement.
WaitEnds ==
  /\ main = "wait" /\ level[k] >= WaitLevel
  /\ main' = "stop" /\ returnTo' = "restart"
  /\ UNCHANGED <<k, initial, flags, appVars, hlpVars, stop, deleted, resets>>

StartApplication ==
  /\ main = "apply"
  /\ app' = [app EXCEPT ![k] = "applying"]
  /\ Continue("apply", "measure")
  /\ UNCHANGED <<num_populate, published, returnTo, initial, flags, hlpVars, stop, deleted,
                 resets>>

\* The measurement ends after its duration, or with a signal.
StopMeasurement ==
  /\ main = "measure"
  /\ stop' = TRUE
  /\ main' = "results"
  /\ UNCHANGED <<k, returnTo, initial, flags, appVars, hlpVars, deleted, resets>>

StopApplication ==
  /\ main = "results" /\ app[k] = "returned"
  /\ app' = [app EXCEPT ![k] = "none"]
  /\ Continue("results", "cleanup")
  /\ UNCHANGED <<num_populate, published, returnTo, initial, flags, hlpVars, stop, deleted,
                 resets>>

Cleanup ==
  /\ main = "cleanup"
  /\ main' = "stop" /\ returnTo' = "delete"
  /\ UNCHANGED <<k, initial, flags, appVars, hlpVars, stop, deleted, resets>>

\* delete enclaves[i]: the destructor does nothing where it finds finished set
\* (CleanupSafe); the allocator of the enclave goes with it.
Delete ==
  /\ main = "delete"
  /\ deleted' = deleted \cup {k}
  /\ Continue("cleanup", "done")
  /\ UNCHANGED <<returnTo, initial, flags, appVars, hlpVars, stop, resets>>

Main ==
  \/ StartHelper("start", TRUE, "populate")
  \/ PopulateBegin \/ PopulateEnd \/ StopHelper \/ JoinHelper \/ ResetIndexLayer
  \/ StartHelper("rebuild", TRUE, "wait")
  \/ WaitEnds
  \/ StartHelper("restart", FALSE, "apply")
  \/ StartApplication \/ StopMeasurement \/ StopApplication \/ Cleanup \/ Delete

Next == Main \/ \E e \in Enclave : Helper(e) \/ Application(e)

Spec == Init /\ [][Next]_vars

\* Every thread is scheduled, and the measurement ends.  An application thread
\* finds a new key in the end: main asserts that the range holds them all.
FairSpec ==
  /\ Spec
  /\ WF_vars(Main)
  /\ \A e \in Enclave : WF_vars(Helper(e)) /\ WF_vars(Application(e))
-----------------------------------------------------------------------------
(* Properties *)

Places == {"start", "populate", "collect", "stop", "join", "reset", "rebuild", "wait",
           "restart", "apply", "measure", "results", "cleanup", "delete", "done"}

\* The types of all the variables.
TypeOK ==
  /\ initial \in Initial
  /\ {running, finished, reset_index, populate_init, update_all}
       \subseteq [Enclave -> BOOLEAN]
  /\ {num_populate, published, applied, level, resets} \subseteq [Enclave -> Nat]
  /\ app \in [Enclave -> {"none", "populating", "applying", "returned"}]
  /\ hpc \in [Enclave -> {"none", "created", "reset", "test", "drain", "index", "returned"}]
  /\ main \in Places /\ k \in Enclave /\ returnTo \in {"none", "reset", "restart", "delete"}
  /\ stop \in BOOLEAN /\ deleted \subseteq Enclave

Measuring == main \in {"apply", "measure", "results"}

\* Whatever main and the helpers see of each other's flags, each index is reset
\* exactly once, between its population and the measurement: a helper told to
\* finish before it has begun still resets, and nobody resets an index that an
\* application thread may be searching.
ResetOnce ==
  /\ \A e \in Enclave : resets[e] <= 1 /\ (app[e] # "none" /\ hpc[e] = "reset" => ~reset_index[e])
  /\ Measuring => \A e \in Enclave : resets[e] = 1

\* The shares of the enclaves add up: with the population joined, the set has
\* exactly the initial size, all of it handed to the helpers.
PopulatesInitial ==
  main \in {"rebuild", "wait"} => MapThenSumSet(LAMBDA e : published[e], Enclave) = initial

\* No thread of an enclave is alive when the enclave and its allocator are
\* deleted, and its destructor finds finished set: it does not stop, and join,
\* the threads a second time.
CleanupSafe ==
  /\ TypeOK
  /\ \A e \in deleted : hpc[e] = "none" /\ app[e] = "none" /\ finished[e] /\ ~running[e]

\* With two keys for each enclave, or more, main waits long enough for every
\* index and the program ends.  With fewer, it waits for ever: the level can
\* not reach an unsigned -1.
EndsWithTwoEach ==
  IF d >= 2 THEN <>(main = "done") ELSE []~Measuring
=============================================================================
