--------------------------- MODULE HardwareLayout ---------------------------
(***************************************************************************)
(* The table of hardware threads that get_hardware_layout fills from what  *)
(* lscpu prints, and the placement of the enclaves on it by main: one      *)
(* thread_init thread for each enclave, pinned to its core, which main     *)
(* joins before it goes on.                                                *)
(*                                                                         *)
(* The machine and the number of enclaves are chosen in LayoutInit,        *)
(* lscpu's answers among those that disagree with each other.  The names   *)
(* are distinct from those of Allocator: EnclaveProof is about both.       *)
(***************************************************************************)
EXTENDS Integers, FiniteSets, Sequences

CONSTANTS MaxSockets, MaxCores, MaxThreads   \* bounds on the machine and on -t

ASSUME MachineAssumption == {MaxSockets, MaxCores, MaxThreads} \subseteq Nat \ {0}

THREADS_PER_CORE == 2
APP_IDX == 0
HLP_IDX == 1
None    == -1                                               \* an entry not filled
NoEnclave == [core |-> <<None, None>>, socket_num |-> None]  \* not made yet

VARIABLES
  num_sockets, cores_per_socket, threads_per_core, max_cpu_num,  \* from lscpu
  nb_threads,                       \* number of enclaves
  hwthread_id,                      \* the table, [socket, core, index] to CPU
  pnum, csocket, ccore, cphysical,  \* the loop that fills it
  sock_id, core_id,                 \* the next place for an enclave
  zargs,                            \* arguments of the thread_init threads
  enclaves,                         \* the enclaves made
  joined,                           \* the thread_init threads main has joined
  pc                                \* where main is

machine == <<num_sockets, cores_per_socket, threads_per_core, max_cpu_num, nb_threads>>
filling == <<hwthread_id, pnum, csocket, ccore, cphysical>>
placing == <<sock_id, core_id, zargs>>
layoutVars == <<machine, filling, placing, enclaves, joined, pc>>

Cores == (0 .. num_sockets - 1) \X (0 .. cores_per_socket - 1)
Cpu(core, idx) == hwthread_id[<<core[1], core[2], idx>>]

LayoutInit ==
  /\ num_sockets \in 1 .. MaxSockets
  /\ cores_per_socket \in 1 .. MaxCores
  /\ threads_per_core \in {1, THREADS_PER_CORE}
  \* One CPU may be off line.
  /\ LET all == num_sockets * cores_per_socket * threads_per_core IN
     max_cpu_num \in {all, all - 1}
  /\ nb_threads \in 2 .. MaxThreads
  /\ hwthread_id = [e \in (0 .. num_sockets - 1) \X (0 .. cores_per_socket - 1)
                            \X (0 .. THREADS_PER_CORE - 1) |-> None]
  /\ pnum = 0 /\ csocket = 0 /\ ccore = 0 /\ cphysical = 0
  /\ sock_id = 0 /\ core_id = 0
  /\ zargs = << >>
  /\ enclaves = [i \in 1 .. nb_threads |-> NoEnclave]
  /\ joined = 0
  /\ pc = "check"
-----------------------------------------------------------------------------
(* get_hardware_layout *)

NumHwCpus == num_sockets * cores_per_socket * threads_per_core

CheckLscpu ==
  /\ pc = "check"
  /\ pc' = IF threads_per_core = THREADS_PER_CORE /\ NumHwCpus = max_cpu_num
           THEN "fill" ELSE "exited"
  /\ UNCHANGED <<machine, filling, placing, enclaves, joined>>

LastCoreKeeping  == csocket' = csocket /\ cphysical' = cphysical + 1
LastCoreOfSocket ==
  IF (csocket + 1) % num_sockets = 0
  THEN csocket' = 0 /\ cphysical' = cphysical + 1
  ELSE csocket' = csocket + 1 /\ UNCHANGED cphysical

Fill ==
  /\ pc = "fill"
  /\ hwthread_id' = [hwthread_id EXCEPT ![<<csocket, ccore, cphysical>>] = pnum]
  /\ ccore' = (ccore + 1) % cores_per_socket
  /\ IF ccore' = 0 THEN LastCoreOfSocket ELSE UNCHANGED <<csocket, cphysical>>
  /\ pnum' = pnum + 1
  /\ pc' = CASE cphysical' = THREADS_PER_CORE /\ pnum' < NumHwCpus -> "exited"
             [] pnum' = NumHwCpus -> "place"
             [] OTHER -> "fill"
  /\ UNCHANGED <<machine, placing, enclaves, joined>>
-----------------------------------------------------------------------------
(* main: the placement *)

\* The core of the next enclave: nothing keeps core_id inside the table.  Its
\* two hardware threads, which thread_init and the threads of the enclave read.
NextCore == <<sock_id, core_id>>

\* Faulty variant: the core does not move on with the sockets.
NextPlaceSameCore == sock_id' = (sock_id + 1) % num_sockets /\ UNCHANGED core_id

NextPlace ==
  /\ sock_id' = (sock_id + 1) % num_sockets
  /\ core_id' = IF sock_id' = 0 THEN core_id + 1 ELSE core_id

\* pthread_create(&thds[i], NULL, thread_init, zia), with sock_num, core and
\* enclave_num filled in.  Too many enclaves for the machine are reported
\* ("Changing to"), but not reduced.
CreateThread ==
  /\ pc = "place"
  /\ zargs' = Append(zargs, [core |-> NextCore, sock_num |-> sock_id, num |-> Len(zargs) + 1])
  /\ NextPlace
  /\ pc' = IF Len(zargs') = nb_threads THEN "join" ELSE "place"
  /\ UNCHANGED <<machine, filling, enclaves, joined>>

\* The thread pins itself and makes its enclave.
ThreadInit(i) ==
  /\ i <= Len(zargs) /\ enclaves[i] = NoEnclave
  /\ enclaves' = [enclaves EXCEPT ![zargs[i].num] = [core |-> zargs[i].core,
                                                     socket_num |-> zargs[i].sock_num]]
  /\ UNCHANGED <<machine, filling, placing, joined, pc>>

\* pthread_join(thds[i], NULL), in the order of the enclaves.
Join ==
  /\ pc = "join" /\ enclaves[joined + 1] # NoEnclave
  /\ joined' = joined + 1
  /\ pc' = IF joined' = nb_threads THEN "ready" ELSE "join"
  /\ UNCHANGED <<machine, filling, placing, enclaves>>

LayoutNext ==
  \/ CheckLscpu \/ Fill \/ CreateThread \/ Join
  \/ \E i \in 1 .. nb_threads : ThreadInit(i)

LayoutSpec == LayoutInit /\ [][LayoutNext]_layoutVars
-----------------------------------------------------------------------------
(* Properties *)

\* The types of all the variables.
LayoutTypeOK ==
  /\ {num_sockets, cores_per_socket, threads_per_core, nb_threads} \subseteq Nat \ {0}
  /\ {max_cpu_num, pnum, ccore, csocket, core_id, sock_id} \subseteq Nat
  /\ csocket < num_sockets /\ ccore < cores_per_socket /\ cphysical \in 0 .. THREADS_PER_CORE
  /\ \A e \in DOMAIN hwthread_id : hwthread_id[e] \in {None} \cup 0 .. max_cpu_num - 1
  /\ joined \in 0 .. nb_threads
  /\ pc \in {"check", "fill", "place", "join", "ready", "exited"}

Filled == pc \in {"place", "join", "ready"}

\* Where the loop has ended, every entry of the table holds a CPU, no CPU is in
\* it twice and none is missing; the test for "More CPUs than calculated" never
\* ends the program (pc leaves "fill" only with the whole table).
TableIsBijection ==
  /\ LayoutTypeOK
  /\ Filled => /\ {hwthread_id[e] : e \in DOMAIN hwthread_id} = 0 .. max_cpu_num - 1
               /\ Cardinality(DOMAIN hwthread_id) = max_cpu_num
  /\ pc = "exited" => pnum = 0

Made == {i \in 1 .. nb_threads : enclaves[i] # NoEnclave}

\* If the machine has two hardware threads for each enclave, every enclave gets
\* a core of the table for itself, on the socket it records: no two of the
\* 2 * nb_threads application and helper threads are pinned to one CPU, and an
\* application thread and its helper share a core.
OwnCores ==
  \A i \in Made :
    /\ enclaves[i].core \in Cores
    /\ enclaves[i].socket_num = enclaves[i].core[1]
    /\ Cpu(enclaves[i].core, APP_IDX) # Cpu(enclaves[i].core, HLP_IDX)
    /\ \A j \in Made \ {i}, x, y \in {APP_IDX, HLP_IDX} :
         Cpu(enclaves[i].core, x) # Cpu(enclaves[j].core, y)

\* When main goes on, each enclave has been made by its own thread.  Where there
\* are too few hardware threads, some enclave then has a core behind the end of
\* its socket's array: test.cpp:263 says that the number of threads is reduced,
\* but no statement reduces it.
OwnCoresUnlessOvercommitted ==
  /\ pc = "ready" => Made = 1 .. nb_threads
  /\ IF 2 * nb_threads <= max_cpu_num THEN OwnCores
     ELSE pc = "ready" => \E i \in Made : enclaves[i].core \notin Cores
=============================================================================
