---------------------------- MODULE EnclaveProof ----------------------------
(***************************************************************************)
(* Proofs about what an enclave is given: the cores that main pins its     *)
(* threads to (HardwareLayout), for machines of any size and any number of *)
(* enclaves, and the memory of its index (Allocator), for buffers of any   *)
(* size, any contents and any number of allocations.                       *)
(***************************************************************************)
EXTENDS Allocator, HardwareLayout, TLAPS, FiniteSetTheorems, FunctionTheorems
-----------------------------------------------------------------------------
(***************************************************************************)
(* The layout of the machine.                                              *)
(*                                                                         *)
(* get_hardware_layout counts the CPUs as a number of three digits: the    *)
(* core counts up to cores_per_socket, the socket up to num_sockets, the   *)
(* index of the hardware thread up to two.  main counts the places in the  *)
(* same way, the socket first.                                             *)
(***************************************************************************)

Sockets == 0 .. num_sockets - 1
CoresOfSocket == 0 .. cores_per_socket - 1
Entries == Sockets \X CoresOfSocket \X (0 .. THREADS_PER_CORE - 1)

\* The CPU that belongs in an entry of the table.
Number(s, c, p) == c + cores_per_socket * (s + num_sockets * p)

Machine ==
  /\ num_sockets \in Nat \ {0} /\ cores_per_socket \in Nat \ {0}
  /\ threads_per_core \in Nat \ {0} /\ nb_threads \in Nat \ {0} /\ max_cpu_num \in Nat
  /\ pc \in {"check", "fill", "place", "join", "ready", "exited"}
  /\ pc \notin {"check", "exited"} =>
       threads_per_core = THREADS_PER_CORE /\ NumHwCpus = max_cpu_num

\* The loop is at the entry of CPU pnum, and has filled those before.
Digits ==
  /\ csocket \in Sockets /\ ccore \in CoresOfSocket /\ cphysical \in 0 .. THREADS_PER_CORE
  /\ pnum = Number(csocket, ccore, cphysical)
  /\ pc \in {"check", "exited"} => pnum = 0
  /\ pc = "fill" => cphysical < THREADS_PER_CORE
  /\ Filled => pnum = max_cpu_num

Table ==
  /\ hwthread_id \in [Entries -> Int]
  /\ \A s \in Sockets, c \in CoresOfSocket, p \in 0 .. THREADS_PER_CORE - 1 :
       hwthread_id[<<s, c, p>>] = IF Number(s, c, p) < pnum THEN Number(s, c, p) ELSE None

\* The places of the enclaves, in the order of the sockets.
PlaceOf(i, core) ==
  core[1] \in Sockets /\ core[2] \in Nat /\ core[1] + num_sockets * core[2] = i - 1

Placing ==
  /\ sock_id \in Sockets /\ core_id \in Nat
  /\ zargs \in Seq([core : Sockets \X Nat, sock_num : Nat, num : Nat])
  /\ Len(zargs) = sock_id + num_sockets * core_id
  /\ ~Filled => zargs = << >>
  /\ pc = "place" => Len(zargs) < nb_threads
  /\ pc \in {"join", "ready"} => Len(zargs) = nb_threads
  /\ \A i \in 1 .. Len(zargs) :
       PlaceOf(i, zargs[i].core) /\ zargs[i].sock_num = zargs[i].core[1] /\ zargs[i].num = i

Enclaves ==
  /\ DOMAIN enclaves = 1 .. nb_threads
  /\ \A i \in Made :
       /\ i <= Len(zargs)
       /\ enclaves[i] = [core |-> zargs[i].core, socket_num |-> zargs[i].sock_num]

Joined ==
  /\ joined \in 0 .. nb_threads
  /\ joined = nb_threads <=> pc = "ready"
  /\ \A i \in 1 .. joined : i \in Made

\* The inductive invariant.
LayoutInv == Machine /\ Digits /\ Table /\ Placing /\ Enclaves /\ Joined
-----------------------------------------------------------------------------
(* Numbers of two digits: x + b * u, x less than b.                        *)

LEMMA ProductLess ==
  ASSUME NEW b \in Nat \ {0}, NEW u \in Nat, NEW v \in Nat
  PROVE  /\ u < v => b * u + b <= b * v
         /\ u <= v => b * u <= b * v
<1>1. \A n \in Nat : b * n \in Nat
  OBVIOUS
<1>2. ASSUME u <= v PROVE b * u <= b * v
  <2> DEFINE n == v - u
  <2>1. n \in Nat /\ v = u + n
    BY <1>2
  <2>2. b * (u + n) = b * u + b * n
    BY <2>1
  <2>3. QED
    BY <1>1, <2>1, <2>2
<1>3. ASSUME u < v PROVE b * u + b <= b * v
  <2> DEFINE n == v - u - 1
  <2>1. n \in Nat /\ v = u + 1 + n
    BY <1>3
  <2> HIDE DEF n
  <2>2. b * (u + 1 + n) = b * u + b + b * n
    BY <2>1
  <2>3. b * n \in Nat /\ b * u \in Nat
    BY <1>1, <2>1
  <2>4. QED
    BY <2>1, <2>2, <2>3
<1>4. QED
  BY <1>2, <1>3

LEMMA DigitsAreUnique ==
  ASSUME NEW b \in Nat \ {0}, NEW x \in 0 .. b - 1, NEW y \in 0 .. b - 1,
         NEW u \in Nat, NEW v \in Nat, x + b * u = y + b * v
  PROVE  x = y /\ u = v
<1>1. b * u \in Nat /\ b * v \in Nat
  OBVIOUS
<1>2. ~(u < v)
  BY <1>1, ProductLess
<1>3. ~(v < u)
  BY <1>1, ProductLess
<1>4. u = v
  BY <1>2, <1>3
<1>5. QED
  BY <1>1, <1>4

LEMMA DigitsBound ==
  ASSUME NEW b \in Nat \ {0}, NEW x \in 0 .. b - 1, NEW u \in Nat, NEW n \in Nat
  PROVE  u < n <=> x + b * u < b * n
<1>1. b * u \in Nat /\ b * n \in Nat
  OBVIOUS
<1>2. u < n => x + b * u < b * n
  BY <1>1, ProductLess
<1>3. n <= u => b * n <= b * u
  BY ProductLess
<1>4. QED
  BY <1>1, <1>2, <1>3

LEMMA DigitsExist ==
  ASSUME NEW b \in Nat \ {0}, NEW n \in Nat
  PROVE  n % b \in 0 .. b - 1 /\ n \div b \in Nat /\ n = (n % b) + b * (n \div b)
  OBVIOUS

\* The first digit goes on, or starts again with a carry.
LEMMA NextDigit ==
  ASSUME NEW b \in Nat \ {0}, NEW x \in 0 .. b - 1
  PROVE  /\ (x + 1) % b \in 0 .. b - 1
         /\ (x + 1) % b = 0 => x + 1 = b
         /\ (x + 1) % b # 0 => (x + 1) % b = x + 1
<1>1. CASE x + 1 = b
  <2>1. b % b = 0
    OBVIOUS
  <2>2. QED
    BY <1>1, <2>1
<1>2. CASE x + 1 < b
  <2>1. (x + 1) % b = x + 1
    BY <1>2
  <2>2. QED
    BY <1>2, <2>1
<1>3. QED
  BY <1>1, <1>2
-----------------------------------------------------------------------------
(* The numbers of the CPUs.                                                *)

LEMMA NumbersFit ==
  ASSUME Machine, threads_per_core = THREADS_PER_CORE, NEW s \in Sockets,
         NEW c \in CoresOfSocket, NEW p \in Nat
  PROVE  /\ s + num_sockets * p \in Nat /\ Number(s, c, p) \in Nat
         /\ p < THREADS_PER_CORE <=> Number(s, c, p) < NumHwCpus
<1> DEFINE S == num_sockets
           C == cores_per_socket
           u == s + S * p
<1>1. /\ S \in Nat \ {0} /\ C \in Nat \ {0} /\ s \in 0 .. S - 1 /\ c \in 0 .. C - 1
      /\ threads_per_core = 2
  BY DEF Machine, Sockets, CoresOfSocket, THREADS_PER_CORE
<1>2. NumHwCpus = C * (S * 2) /\ Number(s, c, p) = c + C * u
  BY <1>1 DEF NumHwCpus, Number
<1> HIDE DEF S, C
<1>3. u \in Nat /\ S * 2 \in Nat
  BY <1>1
<1>4. p < 2 <=> u < S * 2
  BY <1>1, DigitsBound
<1> HIDE DEF u
<1>5. u < S * 2 <=> c + C * u < C * (S * 2)
  BY <1>1, <1>3, DigitsBound
<1>6. c + C * u \in Nat
  BY <1>1, <1>3
<1>7. QED
  BY <1>2, <1>3, <1>4, <1>5, <1>6 DEF THREADS_PER_CORE, u, S

LEMMA NumbersDiffer ==
  ASSUME Machine, NEW s \in Sockets, NEW c \in CoresOfSocket, NEW p \in Nat,
         NEW s1 \in Sockets, NEW c1 \in CoresOfSocket, NEW p1 \in Nat,
         Number(s, c, p) = Number(s1, c1, p1)
  PROVE  s = s1 /\ c = c1 /\ p = p1
<1> DEFINE S == num_sockets
           C == cores_per_socket
           u == s + S * p
           v == s1 + S * p1
<1>1. /\ S \in Nat \ {0} /\ s \in 0 .. S - 1 /\ s1 \in 0 .. S - 1
      /\ C \in Nat \ {0} /\ c \in 0 .. C - 1 /\ c1 \in 0 .. C - 1
  BY DEF Machine, Sockets, CoresOfSocket
<1>2. c + C * u = c1 + C * v
  BY DEF Number
<1> HIDE DEF S, C
<1>3. u \in Nat /\ v \in Nat
  BY <1>1
<1>4. c = c1 /\ u = v
  <2> HIDE DEF u, v
  <2> QED
    BY <1>1, <1>2, <1>3, DigitsAreUnique
<1>5. s = s1 /\ p = p1
  BY <1>1, <1>4, DigitsAreUnique
<1>6. QED
  BY <1>4, <1>5

LEMMA NumbersExist ==
  ASSUME Machine, threads_per_core = THREADS_PER_CORE, NEW n \in 0 .. NumHwCpus - 1
  PROVE  \E s \in Sockets, c \in CoresOfSocket, p \in 0 .. THREADS_PER_CORE - 1 :
           Number(s, c, p) = n
<1> DEFINE S == num_sockets
           C == cores_per_socket
           u == n \div C
           c == n % C
           s == u % S
           p == u \div S
<1>1. S \in Nat \ {0} /\ C \in Nat \ {0} /\ n \in Nat /\ NumHwCpus \in Nat
  BY DEF Machine, NumHwCpus, THREADS_PER_CORE
<1>2. u \in Nat /\ c \in 0 .. C - 1 /\ n = c + C * u
  BY <1>1, DigitsExist
<1>3. p \in Nat /\ s \in 0 .. S - 1 /\ u = s + S * p
  <2> HIDE DEF u
  <2> QED
    BY <1>1, <1>2, DigitsExist
<1>4. n = Number(s, c, p)
  BY <1>2, <1>3 DEF Number
<1> HIDE DEF u, c, s, p
<1>5. s \in Sockets /\ c \in CoresOfSocket
  BY <1>2, <1>3 DEF Sockets, CoresOfSocket
<1>6. n < NumHwCpus
  BY <1>1
<1>7. p < THREADS_PER_CORE
  BY <1>3, <1>4, <1>5, <1>6, NumbersFit
<1>8. p \in 0 .. THREADS_PER_CORE - 1
  BY <1>3, <1>7 DEF THREADS_PER_CORE
<1>9. QED
  BY <1>4, <1>5, <1>8
-----------------------------------------------------------------------------
LEMMA LayoutStarts == LayoutInit => LayoutInv
<1> SUFFICES ASSUME LayoutInit PROVE LayoutInv
  OBVIOUS
<1> USE DEF LayoutInit
<1>1. /\ num_sockets \in Nat \ {0} /\ cores_per_socket \in Nat \ {0}
      /\ threads_per_core \in Nat \ {0} /\ nb_threads \in Nat \ {0}
  BY MachineAssumption DEF THREADS_PER_CORE
<1>2. Machine
  <2> DEFINE all == num_sockets * cores_per_socket * threads_per_core
  <2>1. all \in Nat \ {0}
    BY <1>1
  <2>2. max_cpu_num \in {all, all - 1}
    OBVIOUS
  <2> HIDE DEF all
  <2>3. max_cpu_num \in Nat
    BY <2>1, <2>2
  <2>4. QED
    BY <1>1, <2>3 DEF Machine
<1>3. 0 \in Sockets /\ 0 \in CoresOfSocket
  BY <1>1 DEF Sockets, CoresOfSocket
<1>4. Digits
  BY <1>1, <1>3 DEF Digits, Number, THREADS_PER_CORE, Filled
<1>5. Table
  <2>1. hwthread_id \in [Entries -> Int]
    BY DEF Entries, Sockets, CoresOfSocket, None
  <2>2. ASSUME NEW s \in Sockets, NEW c \in CoresOfSocket, NEW p \in 0 .. THREADS_PER_CORE - 1
        PROVE  ~(Number(s, c, p) < pnum) /\ hwthread_id[<<s, c, p>>] = None
    <3>1. <<s, c, p>> \in Entries /\ s \in Nat /\ c \in Nat /\ p \in Nat
      BY <2>2 DEF Entries, Sockets, CoresOfSocket, THREADS_PER_CORE
    <3>2. s + num_sockets * p \in Nat
      BY ONLY <1>1, <3>1
    <3>3. Number(s, c, p) \in Nat
      <4> DEFINE u == s + num_sockets * p
      <4> HIDE DEF u
      <4>1. c + cores_per_socket * u \in Nat
        BY ONLY <1>1, <3>1, <3>2 DEF u
      <4>2. QED
        BY <4>1 DEF u, Number
    <3>4. QED
      BY <3>1, <3>3 DEF Entries, Sockets, CoresOfSocket
  <2>3. QED
    BY <2>1, <2>2 DEF Table
<1>6. Placing
  BY <1>1, <1>3 DEF Placing, Filled
<1>7. Enclaves
  BY DEF Enclaves, Made
<1>8. Joined
  BY <1>1 DEF Joined
<1>9. QED
  BY <1>2, <1>4, <1>5, <1>6, <1>7, <1>8 DEF LayoutInv
-----------------------------------------------------------------------------
LEMMA CheckLscpuStep == LayoutInv /\ CheckLscpu => LayoutInv'
<1> SUFFICES ASSUME Machine, Digits, Table, Placing, Enclaves, Joined, CheckLscpu PROVE LayoutInv'
  BY DEF LayoutInv
<1> USE DEF machine, filling, placing
<1>1. /\ pc = "check" /\ pc' \in {"fill", "exited"} /\ UNCHANGED <<machine, filling, placing,
                                                                   enclaves, joined>>
      /\ pc' = "fill" => threads_per_core = THREADS_PER_CORE /\ NumHwCpus = max_cpu_num
  BY DEF CheckLscpu
<1>2. Machine'
  BY <1>1 DEF Machine, NumHwCpus
<1>3. Digits'
  <2>1. pnum = 0
    BY <1>1 DEF Digits
  <2>2. threads_per_core = THREADS_PER_CORE => 0 < NumHwCpus
    BY DEF Machine, NumHwCpus, THREADS_PER_CORE
  <2>3. pc' = "fill" => cphysical < THREADS_PER_CORE
    <3>1. ASSUME pc' = "fill" PROVE cphysical < THREADS_PER_CORE
      <4>1. /\ csocket \in Sockets /\ ccore \in CoresOfSocket /\ cphysical \in Nat
            /\ Number(csocket, ccore, cphysical) < NumHwCpus
        BY <1>1, <2>1, <2>2, <3>1 DEF Digits, THREADS_PER_CORE
      <4>2. QED
        BY <1>1, <3>1, <4>1, NumbersFit
    <3>2. QED
      BY <3>1
  <2>4. QED
    BY <1>1, <2>3 DEF Digits, Number, Sockets, CoresOfSocket, Filled
<1>4. Table'
  BY <1>1 DEF Table, Entries, Number, Sockets, CoresOfSocket
<1>5. Placing'
  BY <1>1 DEF Placing, PlaceOf, Sockets, Filled
<1>6. Enclaves'
  BY <1>1 DEF Enclaves, Made
<1>7. Joined'
  BY <1>1 DEF Joined, Made
<1>8. QED
  BY <1>2, <1>3, <1>4, <1>5, <1>6, <1>7 DEF LayoutInv

\* The digits count: the next entry is the one of the next CPU, and the index of
\* the hardware thread runs over only with the last of them.
LEMMA FillCounts ==
  ASSUME LayoutInv, Fill
  PROVE  /\ csocket' \in Sockets /\ ccore' \in CoresOfSocket
         /\ cphysical' \in 0 .. THREADS_PER_CORE
         /\ pnum' = Number(csocket', ccore', cphysical')
         /\ cphysical' < THREADS_PER_CORE <=> pnum' < NumHwCpus
         /\ pnum' <= NumHwCpus
<1> DEFINE S == num_sockets
           C == cores_per_socket
<1>1. /\ S \in Nat \ {0} /\ C \in Nat \ {0} /\ threads_per_core = THREADS_PER_CORE
      /\ csocket \in 0 .. S - 1 /\ ccore \in 0 .. C - 1 /\ cphysical \in 0 .. 1
      /\ pnum = ccore + C * (csocket + S * cphysical) /\ pnum \in Nat /\ pnum < NumHwCpus
      /\ NumHwCpus \in Nat
  <2>1. /\ threads_per_core = THREADS_PER_CORE /\ cphysical \in 0 .. 1 /\ cphysical \in Nat
        /\ cphysical < THREADS_PER_CORE
        /\ Machine /\ csocket \in Sockets /\ ccore \in CoresOfSocket
        /\ pnum = Number(csocket, ccore, cphysical)
    BY DEF LayoutInv, Fill, Machine, Digits, THREADS_PER_CORE
  <2>2. pnum \in Nat /\ pnum < NumHwCpus
    BY <2>1, NumbersFit
  <2>3. NumHwCpus \in Nat
    BY <2>1 DEF Machine, NumHwCpus, THREADS_PER_CORE
  <2>4. QED
    BY <2>1, <2>2, <2>3 DEF Machine, Number, Sockets, CoresOfSocket
<1>2. /\ ccore' = (ccore + 1) % C
      /\ IF ccore' = 0 THEN LastCoreOfSocket ELSE UNCHANGED <<csocket, cphysical>>
      /\ pnum' = pnum + 1
      /\ UNCHANGED machine
  BY DEF Fill
<1>3. /\ ccore' \in 0 .. C - 1
      /\ ccore' = 0 => ccore + 1 = C
      /\ ccore' # 0 => ccore' = ccore + 1
  BY <1>1, <1>2, NextDigit
<1>4. /\ (csocket + 1) % S \in 0 .. S - 1
      /\ (csocket + 1) % S = 0 => csocket + 1 = S
      /\ (csocket + 1) % S # 0 => (csocket + 1) % S = csocket + 1
  BY <1>1, NextDigit
<1> HIDE DEF S, C
<1>5. /\ csocket' \in 0 .. S - 1 /\ cphysical' \in 0 .. 2
      /\ pnum + 1 = ccore' + C * (csocket' + S * cphysical')
  <2>1. CASE ccore' # 0
    BY <1>1, <1>2, <1>3, <2>1
  <2>2. CASE ccore' = 0 /\ (csocket + 1) % S # 0
    <3>1. csocket' = csocket + 1 /\ cphysical' = cphysical
      BY <1>2, <1>4, <2>2 DEF LastCoreOfSocket, S
    <3>2. C * (csocket + 1 + S * cphysical) = C * (csocket + S * cphysical) + C
      BY <1>1
    <3>3. QED
      BY <1>1, <1>3, <1>4, <2>2, <3>1, <3>2
  <2>3. CASE ccore' = 0 /\ (csocket + 1) % S = 0
    <3>1. csocket' = 0 /\ cphysical' = cphysical + 1 /\ csocket + 1 = S
      BY <1>2, <1>4, <2>3 DEF LastCoreOfSocket, S
    <3>2. 0 + S * (cphysical + 1) = csocket + S * cphysical + 1
      BY <1>1, <3>1
    <3>3. C * (csocket + S * cphysical + 1) = C * (csocket + S * cphysical) + C
      BY <1>1
    <3>4. QED
      BY <1>1, <1>3, <2>3, <3>1, <3>2, <3>3
  <2>4. QED
    BY <2>1, <2>2, <2>3
<1>6. /\ csocket' \in Sockets /\ ccore' \in CoresOfSocket
      /\ cphysical' \in 0 .. THREADS_PER_CORE /\ cphysical' \in Nat
      /\ pnum' = Number(csocket', ccore', cphysical')
  <2>1. csocket' \in Sockets /\ ccore' \in CoresOfSocket
    BY ONLY <1>3, <1>5 DEF S, C, Sockets, CoresOfSocket
  <2>2. cphysical' \in 0 .. THREADS_PER_CORE /\ cphysical' \in Nat
    BY ONLY <1>5 DEF THREADS_PER_CORE
  <2>3. pnum' = Number(csocket', ccore', cphysical')
    BY ONLY <1>2, <1>5, Zenon DEF S, C, Number
  <2>4. QED
    BY ONLY <2>1, <2>2, <2>3
<1>7. cphysical' < THREADS_PER_CORE <=> pnum' < NumHwCpus
  BY <1>1, <1>6, NumbersFit DEF LayoutInv
<1>8. pnum' <= NumHwCpus
  BY <1>1, <1>2
<1>9. QED
  BY <1>6, <1>7, <1>8

LEMMA FillStep == LayoutInv /\ Fill => LayoutInv'
<1> SUFFICES ASSUME LayoutInv, Machine, Digits, Table, Placing, Enclaves, Joined, Fill PROVE LayoutInv'
  BY DEF LayoutInv
<1> USE DEF machine, placing
<1>1. /\ csocket' \in Sockets /\ ccore' \in CoresOfSocket
      /\ cphysical' \in 0 .. THREADS_PER_CORE
      /\ pnum' = Number(csocket', ccore', cphysical')
      /\ cphysical' < THREADS_PER_CORE <=> pnum' < NumHwCpus
      /\ pnum' <= NumHwCpus
  BY FillCounts
<1>2. /\ pc = "fill" /\ UNCHANGED <<machine, placing, enclaves, joined>>
      /\ threads_per_core = THREADS_PER_CORE /\ NumHwCpus = max_cpu_num
      /\ hwthread_id' = [hwthread_id EXCEPT ![<<csocket, ccore, cphysical>>] = pnum]
      /\ pnum' = pnum + 1 /\ pnum = Number(csocket, ccore, cphysical)
      /\ cphysical < THREADS_PER_CORE
      /\ csocket \in Sockets /\ ccore \in CoresOfSocket
      /\ cphysical \in 0 .. THREADS_PER_CORE - 1
  BY DEF Fill, Machine, Digits, THREADS_PER_CORE
<1>3. /\ pc' \in {"fill", "place"}
      /\ pc' = "fill" => pnum' < NumHwCpus
      /\ pc' = "place" => pnum' = NumHwCpus
  <2>1. NumHwCpus \in Nat /\ pnum' \in Int /\ cphysical' \in Int
    <3>1. NumHwCpus \in Nat
      BY <1>2 DEF Machine
    <3>2. pnum' \in Int
      <4>1. pnum \in Nat
        BY <1>2, NumbersFit DEF THREADS_PER_CORE
      <4>2. QED
        BY <1>2, <4>1
    <3>3. QED
      BY <1>1, <3>1, <3>2 DEF THREADS_PER_CORE
  <2>2. pc' = CASE cphysical' = THREADS_PER_CORE /\ pnum' < NumHwCpus -> "exited"
                [] pnum' = NumHwCpus -> "place"
                [] OTHER -> "fill"
    BY DEF Fill
  <2>3. cphysical' < THREADS_PER_CORE \/ cphysical' = THREADS_PER_CORE
    BY <1>1 DEF THREADS_PER_CORE
  <2>4. ~(cphysical' = THREADS_PER_CORE /\ pnum' < NumHwCpus)
    BY <1>1, <2>1 DEF THREADS_PER_CORE
  <2>5. QED
    BY <1>1, <2>1, <2>2, <2>4
<1>4. Machine'
  BY <1>2, <1>3 DEF Machine, NumHwCpus
<1>5. Digits'
  BY <1>1, <1>2, <1>3 DEF Digits, Number, Sockets, CoresOfSocket, Filled
<1>6. Table'
  <2>1. hwthread_id' \in [Entries -> Int]
    <3>1. pnum \in Int
      BY <1>2, NumbersFit DEF THREADS_PER_CORE
    <3>2. hwthread_id \in [Entries -> Int]
      BY DEF Table
    <3>3. QED
      BY <1>2, <3>1, <3>2
  <2>2. ASSUME NEW s \in Sockets, NEW c \in CoresOfSocket, NEW p \in 0 .. THREADS_PER_CORE - 1
        PROVE  hwthread_id'[<<s, c, p>>]
                 = IF Number(s, c, p) < pnum' THEN Number(s, c, p) ELSE None
    <3>1. Number(s, c, p) \in Nat /\ pnum \in Nat
      BY <1>2, NumbersFit DEF THREADS_PER_CORE
    <3>2. hwthread_id[<<s, c, p>>] = IF Number(s, c, p) < pnum THEN Number(s, c, p) ELSE None
      BY DEF Table
    <3>3. {<<s, c, p>>, <<csocket, ccore, cphysical>>} \subseteq DOMAIN hwthread_id
      BY <1>2 DEF Table, Entries
    <3>4. CASE <<s, c, p>> = <<csocket, ccore, cphysical>>
      BY <1>2, <3>1, <3>3, <3>4
    <3>5. CASE <<s, c, p>> # <<csocket, ccore, cphysical>>
      <4>1. Number(s, c, p) # pnum
        BY <1>2, <3>5, NumbersDiffer DEF THREADS_PER_CORE
      <4>2. hwthread_id'[<<s, c, p>>] = hwthread_id[<<s, c, p>>]
        BY <1>2, <3>3, <3>5
      <4>3. QED
        BY <1>2, <3>1, <3>2, <4>1, <4>2
    <3>6. QED
      BY <3>4, <3>5
  <2>3. QED
    BY <1>2, <2>1, <2>2 DEF Table, Entries, Number, Sockets, CoresOfSocket
<1>7. Placing'
  <2>1. zargs = << >> /\ nb_threads \in Nat \ {0}
    BY <1>2 DEF Placing, Filled, Machine
  <2>2. QED
    BY <1>2, <1>3, <2>1 DEF Placing, PlaceOf, Sockets, Filled
<1>8. Enclaves'
  BY <1>2 DEF Enclaves, Made
<1>9. Joined'
  BY <1>2, <1>3 DEF Joined, Made
<1>10. QED
  BY <1>4, <1>5, <1>6, <1>7, <1>8, <1>9 DEF LayoutInv

\* The places count as well, the socket first.
LEMMA CreateThreadStep == LayoutInv /\ CreateThread => LayoutInv'
<1> SUFFICES ASSUME LayoutInv, Machine, Digits, Table, Placing, Enclaves, Joined, CreateThread
             PROVE  LayoutInv'
  BY DEF LayoutInv
<1> USE DEF machine, filling
<1> DEFINE S == num_sockets
           arg == [core |-> NextCore, sock_num |-> sock_id, num |-> Len(zargs) + 1]
           Args == [core : Sockets \X Nat, sock_num : Nat, num : Nat]
<1>1. /\ pc = "place" /\ zargs' = Append(zargs, arg) /\ NextPlace
      /\ pc' = IF Len(zargs') = nb_threads THEN "join" ELSE "place"
      /\ UNCHANGED <<machine, filling, enclaves, joined>>
  BY DEF CreateThread
<1>2. /\ S \in Nat \ {0} /\ nb_threads \in Nat \ {0}
      /\ sock_id \in 0 .. S - 1 /\ core_id \in Nat
      /\ zargs \in Seq(Args) /\ Len(zargs) = sock_id + S * core_id /\ Len(zargs) \in Nat
      /\ Len(zargs) < nb_threads
  BY <1>1 DEF Machine, Placing, Sockets
<1>3. arg \in Args
  BY <1>2 DEF NextCore, Sockets
<1>4. /\ zargs' \in Seq(Args) /\ Len(zargs') = Len(zargs) + 1
      /\ zargs'[Len(zargs) + 1] = arg
      /\ \A i \in 1 .. Len(zargs) : zargs'[i] = zargs[i]
  <2> HIDE DEF arg, Args
  <2> QED
    BY <1>1, <1>2, <1>3
<1>5. /\ sock_id' \in 0 .. S - 1 /\ core_id' \in Nat
      /\ Len(zargs) + 1 = sock_id' + S * core_id'
  <2>1. /\ (sock_id + 1) % S \in 0 .. S - 1
        /\ (sock_id + 1) % S = 0 => sock_id + 1 = S
        /\ (sock_id + 1) % S # 0 => (sock_id + 1) % S = sock_id + 1
    BY <1>2, NextDigit
  <2>2. /\ sock_id' = (sock_id + 1) % S
        /\ core_id' = IF sock_id' = 0 THEN core_id + 1 ELSE core_id
    BY <1>1 DEF NextPlace
  <2> HIDE DEF S
  <2>3. S * (core_id + 1) = S * core_id + S /\ S * core_id \in Nat
    BY <1>2
  <2>4. CASE (sock_id + 1) % S = 0
    BY <1>2, <2>1, <2>2, <2>3, <2>4
  <2>5. CASE (sock_id + 1) % S # 0
    BY <1>2, <2>1, <2>2, <2>3, <2>5
  <2>6. QED
    BY <2>4, <2>5
<1>6. /\ pc' \in {"place", "join"}
      /\ pc' = "place" => Len(zargs') < nb_threads
      /\ pc' = "join" => Len(zargs') = nb_threads
  BY <1>1, <1>2, <1>4
<1>7. Machine'
  BY <1>1, <1>6 DEF Machine, NumHwCpus
<1>8. Digits'
  BY <1>1, <1>6 DEF Digits, Number, Sockets, CoresOfSocket, Filled
<1>9. Table'
  BY <1>1 DEF Table, Entries, Number, Sockets, CoresOfSocket
<1>10. Placing'
  <2>1. ASSUME NEW i \in 1 .. Len(zargs')
        PROVE  /\ PlaceOf(i, zargs'[i].core) /\ zargs'[i].sock_num = zargs'[i].core[1]
               /\ zargs'[i].num = i
    <3>1. CASE i = Len(zargs) + 1
      <4>1. zargs'[i] = arg
        BY <1>4, <3>1
      <4>2. /\ arg.core = <<sock_id, core_id>> /\ arg.sock_num = sock_id
            /\ arg.num = Len(zargs) + 1
        BY DEF NextCore
      <4> HIDE DEF arg
      <4>3. PlaceOf(i, <<sock_id, core_id>>)
        BY <1>2, <3>1 DEF PlaceOf, Sockets
      <4>4. QED
        BY <3>1, <4>1, <4>2, <4>3
    <3>2. CASE i # Len(zargs) + 1
      <4>1. i \in 1 .. Len(zargs)
        BY <1>2, <1>4, <2>1, <3>2
      <4>2. QED
        BY <1>4, <4>1 DEF Placing
    <3>3. QED
      BY <3>1, <3>2
  <2>2. Sockets' = Sockets /\ num_sockets' = num_sockets /\ nb_threads' = nb_threads
    BY <1>1 DEF Sockets
  <2>3. sock_id' \in Sockets /\ core_id' \in Nat /\ Len(zargs') = sock_id' + S * core_id'
    BY <1>4, <1>5 DEF Sockets
  <2> HIDE DEF arg
  <2>4. QED
    BY <1>4, <1>6, <2>1, <2>2, <2>3 DEF Placing, PlaceOf, Filled
<1>11. Enclaves'
  <2>1. ASSUME NEW i \in Made
        PROVE  /\ i <= Len(zargs')
               /\ enclaves[i] = [core |-> zargs'[i].core, socket_num |-> zargs'[i].sock_num]
    <3>1. /\ i \in Nat /\ 1 <= i /\ i <= Len(zargs)
          /\ enclaves[i] = [core |-> zargs[i].core, socket_num |-> zargs[i].sock_num]
      BY <1>2 DEF Enclaves, Made
    <3>2. zargs'[i] = zargs[i] /\ i <= Len(zargs')
      BY <1>2, <1>4, <3>1
    <3>3. QED
      BY <3>1, <3>2
  <2>2. Made' = Made
    BY <1>1 DEF Made
  <2>3. QED
    BY <1>1, <2>1, <2>2 DEF Enclaves
<1>12. Joined'
  BY <1>1, <1>6 DEF Joined, Made
<1>13. QED
  BY <1>7, <1>8, <1>9, <1>10, <1>11, <1>12 DEF LayoutInv

LEMMA ThreadInitStep == LayoutInv /\ (\E i \in 1 .. nb_threads : ThreadInit(i)) => LayoutInv'
<1> SUFFICES ASSUME LayoutInv, Machine, Digits, Table, Placing, Enclaves, Joined,
                    NEW i \in 1 .. nb_threads, ThreadInit(i)
             PROVE  LayoutInv'
  BY DEF LayoutInv
<1> USE DEF machine, filling, placing
<1> DEFINE made == [core |-> zargs[i].core, socket_num |-> zargs[i].sock_num]
<1>1. /\ i <= Len(zargs) /\ enclaves[i] = NoEnclave
      /\ enclaves' = [enclaves EXCEPT ![zargs[i].num] = made]
      /\ UNCHANGED <<machine, filling, placing, joined, pc>>
  BY DEF ThreadInit
<1>2. /\ nb_threads \in Nat /\ i \in 1 .. Len(zargs) /\ zargs[i].num = i
      /\ zargs[i].sock_num = zargs[i].core[1] /\ zargs[i].core[1] \in Sockets
  BY <1>1 DEF Machine, Placing, PlaceOf
<1>3. made # NoEnclave
  <2>1. made.socket_num \in Nat
    BY <1>2 DEF Sockets
  <2>2. NoEnclave.socket_num = -1
    BY DEF NoEnclave, None
  <2>3. QED
    BY <2>1, <2>2
<1> HIDE DEF made
<1>4. /\ DOMAIN enclaves' = 1 .. nb_threads /\ enclaves'[i] = made
      /\ \A j \in 1 .. nb_threads : j # i => enclaves'[j] = enclaves[j]
  BY <1>1, <1>2 DEF Enclaves
<1>5. Made' = Made \cup {i}
  BY <1>1, <1>3, <1>4 DEF Made
<1>6. Machine'
  BY <1>1 DEF Machine, NumHwCpus
<1>7. Digits'
  BY <1>1 DEF Digits, Number, Sockets, CoresOfSocket, Filled
<1>8. Table'
  BY <1>1 DEF Table, Entries, Number, Sockets, CoresOfSocket
<1>9. Placing'
  BY <1>1 DEF Placing, PlaceOf, Sockets, Filled
<1>10. Enclaves'
  <2>1. ASSUME NEW j \in Made \cup {i}
        PROVE  /\ j <= Len(zargs)
               /\ enclaves'[j] = [core |-> zargs[j].core, socket_num |-> zargs[j].sock_num]
    BY <1>1, <1>4 DEF Enclaves, Made, made
  <2>2. QED
    BY <1>1, <1>4, <1>5, <2>1 DEF Enclaves
<1>11. Joined'
  BY <1>1, <1>5 DEF Joined
<1>12. QED
  BY <1>6, <1>7, <1>8, <1>9, <1>10, <1>11 DEF LayoutInv

LEMMA JoinStep == LayoutInv /\ Join => LayoutInv'
<1> SUFFICES ASSUME LayoutInv, Machine, Digits, Table, Placing, Enclaves, Joined, Join PROVE LayoutInv'
  BY DEF LayoutInv
<1> USE DEF machine, filling, placing
<1>1. /\ pc = "join" /\ enclaves[joined + 1] # NoEnclave /\ joined' = joined + 1
      /\ pc' = IF joined' = nb_threads THEN "ready" ELSE "join"
      /\ UNCHANGED <<machine, filling, placing, enclaves>>
  BY DEF Join
<1>2. nb_threads \in Nat /\ joined \in Nat /\ joined + 1 <= nb_threads
  BY <1>1 DEF Machine, Joined
<1>3. Machine'
  BY <1>1 DEF Machine, NumHwCpus
<1>4. Digits'
  BY <1>1 DEF Digits, Number, Sockets, CoresOfSocket, Filled
<1>5. Table'
  BY <1>1 DEF Table, Entries, Number, Sockets, CoresOfSocket
<1>6. Placing'
  BY <1>1 DEF Placing, PlaceOf, Sockets, Filled
<1>7. Enclaves'
  BY <1>1 DEF Enclaves, Made
<1>8. Joined'
  <2>1. ASSUME NEW i \in 1 .. joined + 1 PROVE i \in Made
    <3>1. CASE i = joined + 1
      BY <1>1, <1>2, <3>1 DEF Made
    <3>2. CASE i # joined + 1
      BY <1>2, <2>1, <3>2 DEF Joined
    <3>3. QED
      BY <3>1, <3>2
  <2>2. Made' = Made
    BY <1>1 DEF Made
  <2>3. QED
    BY <1>1, <1>2, <2>1, <2>2 DEF Joined
<1>9. QED
  BY <1>3, <1>4, <1>5, <1>6, <1>7, <1>8 DEF LayoutInv

LEMMA LayoutStutters == LayoutInv /\ UNCHANGED layoutVars => LayoutInv'
<1> SUFFICES ASSUME Machine, Digits, Table, Placing, Enclaves, Joined, UNCHANGED layoutVars
             PROVE  LayoutInv'
  BY DEF LayoutInv
<1> USE DEF layoutVars, machine, filling, placing
<1>1. Machine'
  BY DEF Machine, NumHwCpus
<1>2. Digits'
  BY DEF Digits, Number, Sockets, CoresOfSocket, Filled
<1>3. Table'
  BY DEF Table, Entries, Number, Sockets, CoresOfSocket
<1>4. Placing'
  BY DEF Placing, PlaceOf, Sockets, Filled
<1>5. Enclaves' /\ Joined'
  BY DEF Enclaves, Joined, Made
<1>6. QED
  BY <1>1, <1>2, <1>3, <1>4, <1>5 DEF LayoutInv

LEMMA LayoutSteps == LayoutInv /\ [LayoutNext]_layoutVars => LayoutInv'
  BY CheckLscpuStep, FillStep, CreateThreadStep, ThreadInitStep, JoinStep, LayoutStutters DEF
     LayoutNext
-----------------------------------------------------------------------------
\* The table and the places are filled in the order of counting, in every
\* reachable state.
THEOREM LayoutInvariant == LayoutSpec => []LayoutInv
  BY LayoutStarts, LayoutSteps, PTL DEF LayoutSpec

\* What the table holds where the loop has ended.
LEMMA WholeTable ==
  ASSUME LayoutInv, Filled
  PROVE  /\ threads_per_core = THREADS_PER_CORE /\ NumHwCpus = max_cpu_num
         /\ max_cpu_num \in Nat
         /\ \A s \in Sockets, c \in CoresOfSocket, p \in 0 .. THREADS_PER_CORE - 1 :
              /\ hwthread_id[<<s, c, p>>] = Number(s, c, p)
              /\ Number(s, c, p) \in 0 .. max_cpu_num - 1
<1>1. /\ threads_per_core = THREADS_PER_CORE /\ NumHwCpus = max_cpu_num
      /\ max_cpu_num \in Nat /\ pnum = max_cpu_num /\ Machine
  BY DEF LayoutInv, Machine, Digits, Filled
<1>2. ASSUME NEW s \in Sockets, NEW c \in CoresOfSocket, NEW p \in 0 .. THREADS_PER_CORE - 1
      PROVE  /\ hwthread_id[<<s, c, p>>] = Number(s, c, p)
             /\ Number(s, c, p) \in 0 .. max_cpu_num - 1
  <2>1. p \in Nat /\ p < THREADS_PER_CORE
    BY DEF THREADS_PER_CORE
  <2>2. Number(s, c, p) \in Nat /\ Number(s, c, p) < max_cpu_num
    BY <1>1, <2>1, NumbersFit
  <2>3. hwthread_id[<<s, c, p>>] = IF Number(s, c, p) < pnum THEN Number(s, c, p) ELSE None
    BY DEF LayoutInv, Table
  <2>4. QED
    BY <1>1, <2>2, <2>3
<1>3. QED
  BY <1>1, <1>2

LEMMA TypesHold == LayoutInv => LayoutTypeOK
<1> SUFFICES ASSUME LayoutInv PROVE LayoutTypeOK
  OBVIOUS
<1> USE DEF LayoutInv
<1>1. /\ num_sockets \in Nat \ {0} /\ cores_per_socket \in Nat \ {0}
      /\ threads_per_core \in Nat \ {0} /\ nb_threads \in Nat \ {0} /\ max_cpu_num \in Nat
      /\ pc \in {"check", "fill", "place", "join", "ready", "exited"}
  BY DEF Machine
<1>2. /\ csocket \in Nat /\ csocket < num_sockets /\ ccore \in Nat /\ ccore < cores_per_socket
      /\ cphysical \in 0 .. THREADS_PER_CORE
  BY <1>1 DEF Digits, Sockets, CoresOfSocket
<1>3. sock_id \in Nat /\ core_id \in Nat /\ joined \in 0 .. nb_threads
  BY <1>1 DEF Placing, Sockets, Joined
<1>4. pnum \in Nat /\ pnum <= max_cpu_num
  <2>1. CASE pc \in {"check", "exited"}
    BY <1>1, <2>1 DEF Digits
  <2>2. CASE pc \in {"fill"}
    <3>1. /\ threads_per_core = THREADS_PER_CORE /\ NumHwCpus = max_cpu_num
          /\ csocket \in Sockets /\ ccore \in CoresOfSocket /\ cphysical \in Nat
          /\ cphysical < THREADS_PER_CORE /\ pnum = Number(csocket, ccore, cphysical)
      BY <2>2 DEF Machine, Digits, THREADS_PER_CORE
    <3>2. pnum \in Nat /\ pnum < max_cpu_num
      BY <3>1, NumbersFit
    <3>3. QED
      BY <1>1, <3>2
  <2>3. CASE Filled
    BY <1>1, <2>3 DEF Digits
  <2>4. QED
    BY <1>1, <2>1, <2>2, <2>3 DEF Filled
<1>5. ASSUME NEW e \in DOMAIN hwthread_id
      PROVE  hwthread_id[e] \in {None} \cup 0 .. max_cpu_num - 1
  <2>1. PICK s \in Sockets, c \in CoresOfSocket, p \in 0 .. THREADS_PER_CORE - 1 :
          e = <<s, c, p>>
    BY <1>5 DEF Table, Entries
  <2>2. hwthread_id[e] = IF Number(s, c, p) < pnum THEN Number(s, c, p) ELSE None
    BY <2>1 DEF Table
  <2>3. CASE Number(s, c, p) < pnum
    <3>1. s \in Nat /\ c \in Nat /\ p \in Nat
      BY DEF Sockets, CoresOfSocket, THREADS_PER_CORE
    <3>2. s + num_sockets * p \in Nat
      BY ONLY <1>1, <3>1
    <3>3. \A u \in Nat : c + cores_per_socket * u \in Nat
      BY ONLY <1>1, <3>1
    <3>4. Number(s, c, p) \in Nat
      BY ONLY <3>2, <3>3 DEF Number
    <3>5. QED
      BY <1>1, <1>4, <2>2, <2>3, <3>4
  <2>4. CASE ~(Number(s, c, p) < pnum)
    BY <2>2, <2>4
  <2>5. QED
    BY <2>3, <2>4
<1>6. QED
  BY <1>1, <1>2, <1>3, <1>4, <1>5 DEF LayoutTypeOK

\* The numbers map the entries of the table to the CPUs one to one.
LEMMA TableMaps ==
  ASSUME LayoutInv, Filled
  PROVE  /\ hwthread_id \in Bijection(Entries, 0 .. max_cpu_num - 1)
         /\ {hwthread_id[e] : e \in DOMAIN hwthread_id} = 0 .. max_cpu_num - 1
<1> DEFINE Cpus == 0 .. max_cpu_num - 1
<1>1. DOMAIN hwthread_id = Entries /\ Machine
  BY DEF LayoutInv, Table
<1>2. ASSUME NEW e \in Entries PROVE hwthread_id[e] \in Cpus
  BY <1>2, WholeTable DEF Entries
<1>3. ASSUME NEW n \in Cpus PROVE \E e \in Entries : hwthread_id[e] = n
  <2>1. PICK s \in Sockets, c \in CoresOfSocket, p \in 0 .. THREADS_PER_CORE - 1 :
          Number(s, c, p) = n
    <3>1. n \in 0 .. NumHwCpus - 1 /\ threads_per_core = THREADS_PER_CORE
      BY WholeTable
    <3>2. QED
      BY <1>1, <3>1, NumbersExist
  <2>2. hwthread_id[<<s, c, p>>] = n /\ <<s, c, p>> \in Entries
    BY <2>1, WholeTable DEF Entries
  <2>3. QED
    BY <2>2
<1>4. ASSUME NEW e \in Entries, NEW f \in Entries, hwthread_id[e] = hwthread_id[f]
      PROVE  e = f
  <2>1. PICK s \in Sockets, c \in CoresOfSocket, p \in 0 .. THREADS_PER_CORE - 1 :
          e = <<s, c, p>>
    BY DEF Entries
  <2>2. PICK s1 \in Sockets, c1 \in CoresOfSocket, p1 \in 0 .. THREADS_PER_CORE - 1 :
          f = <<s1, c1, p1>>
    BY DEF Entries
  <2>3. Number(s, c, p) = Number(s1, c1, p1)
    BY <1>4, <2>1, <2>2, WholeTable
  <2>4. s = s1 /\ c = c1 /\ p = p1
    <3>1. p \in Nat /\ p1 \in Nat
      BY DEF THREADS_PER_CORE
    <3>2. QED
      BY <1>1, <2>3, <3>1, NumbersDiffer
  <2>5. QED
    BY <2>1, <2>2, <2>4
<1>5. hwthread_id \in [Entries -> Cpus]
  <2>1. hwthread_id \in [Entries -> Int]
    BY DEF LayoutInv, Table
  <2>2. QED
    BY <1>2, <2>1
<1> HIDE DEF Cpus
<1>6. {hwthread_id[e] : e \in DOMAIN hwthread_id} = Cpus
  BY <1>1, <1>2, <1>3
<1>7. hwthread_id \in Bijection(Entries, Cpus)
  BY <1>3, <1>4, <1>5 DEF Bijection, Injection, Surjection, IsInjective
<1>8. QED
  BY <1>6, <1>7 DEF Cpus

\* get_hardware_layout gives every entry of its table one CPU of lscpu's, and
\* every CPU one entry, and does not end the program once it has begun.
THEOREM TableIsComplete == LayoutSpec => []TableIsBijection
<1>1. LayoutInv => TableIsBijection
  <2> SUFFICES ASSUME LayoutInv PROVE TableIsBijection
    OBVIOUS
  <2>1. ASSUME Filled
        PROVE  /\ {hwthread_id[e] : e \in DOMAIN hwthread_id} = 0 .. max_cpu_num - 1
               /\ Cardinality(DOMAIN hwthread_id) = max_cpu_num
    <3> DEFINE Cpus == 0 .. max_cpu_num - 1
    <3>1. /\ hwthread_id \in Bijection(Entries, Cpus)
          /\ {hwthread_id[e] : e \in DOMAIN hwthread_id} = 0 .. max_cpu_num - 1
      BY <2>1, TableMaps
    <3>2. IsFiniteSet(Cpus) /\ Cardinality(Cpus) = max_cpu_num
      <4>1. max_cpu_num \in Nat
        BY <2>1, WholeTable
      <4>2. QED
        BY <4>1, FS_Interval
    <3> HIDE DEF Cpus
    <3>3. ExistsBijection(Cpus, Entries)
      BY <3>1, Fun_ExistsBijSymmetric DEF ExistsBijection
    <3>4. Cardinality(Entries) = Cardinality(Cpus)
      BY <3>2, <3>3, FS_Bijection
    <3>5. DOMAIN hwthread_id = Entries
      BY DEF LayoutInv, Table
    <3>6. QED
      BY <3>1, <3>2, <3>4, <3>5
  <2>2. pc = "exited" => pnum = 0
    BY DEF LayoutInv, Digits
  <2>3. QED
    BY <2>1, <2>2, TypesHold DEF TableIsBijection
<1>2. QED
  BY <1>1, LayoutInvariant, PTL

\* An enclave made is on the place that its number counts.
LEMMA MadePlaces ==
  ASSUME LayoutInv, NEW i \in Made
  PROVE  /\ Filled /\ i \in 1 .. nb_threads
         /\ PlaceOf(i, enclaves[i].core) /\ enclaves[i].socket_num = enclaves[i].core[1]
         /\ enclaves[i].core \in Sockets \X Nat
<1>1. /\ i \in 1 .. nb_threads /\ i <= Len(zargs) /\ Len(zargs) \in Nat
      /\ enclaves[i] = [core |-> zargs[i].core, socket_num |-> zargs[i].sock_num]
      /\ nb_threads \in Nat
  BY DEF LayoutInv, Enclaves, Made, Machine, Placing
<1>2. i \in 1 .. Len(zargs)
  BY <1>1
<1>3. PlaceOf(i, zargs[i].core) /\ zargs[i].sock_num = zargs[i].core[1]
  BY <1>2 DEF LayoutInv, Placing
<1>4. zargs # << >>
  BY <1>2
<1>5. Filled
  BY <1>4 DEF LayoutInv, Placing
<1>6. zargs[i].core \in Sockets \X Nat
  <2> DEFINE Args == [core : Sockets \X Nat, sock_num : Nat, num : Nat]
  <2>1. zargs \in Seq(Args)
    BY DEF LayoutInv, Placing
  <2>2. zargs[i] \in Args
    <3> HIDE DEF Args
    <3> QED
      BY <1>2, <2>1
  <2>3. QED
    BY <2>2
<1>7. QED
  BY <1>1, <1>3, <1>5, <1>6

LEMMA MadeHaveOwnCores == LayoutInv /\ 2 * nb_threads <= max_cpu_num => OwnCores
<1> SUFFICES ASSUME LayoutInv, 2 * nb_threads <= max_cpu_num PROVE OwnCores
  OBVIOUS
<1>1. /\ num_sockets \in Nat \ {0} /\ cores_per_socket \in Nat \ {0} /\ nb_threads \in Nat
      /\ Machine
  BY DEF LayoutInv, Machine
<1>2. ASSUME NEW i \in Made
      PROVE  \E s \in Sockets, c \in CoresOfSocket :
               /\ enclaves[i].core = <<s, c>> /\ s + num_sockets * c = i - 1
               /\ enclaves[i].socket_num = s /\ i \in Nat
  <2>1. PICK s \in Sockets, c \in Nat :
          /\ enclaves[i].core = <<s, c>> /\ s + num_sockets * c = i - 1
          /\ enclaves[i].socket_num = s
    BY MadePlaces DEF PlaceOf
  <2>2. i \in Nat /\ i <= nb_threads
    BY <1>1, MadePlaces
  <2>3. s + num_sockets * c < num_sockets * cores_per_socket
    <3>1. /\ max_cpu_num = num_sockets * cores_per_socket * 2
          /\ num_sockets * cores_per_socket \in Nat
      BY <1>1, MadePlaces, WholeTable DEF NumHwCpus, THREADS_PER_CORE
    <3>2. nb_threads <= num_sockets * cores_per_socket
      BY <1>1, <3>1
    <3>3. QED
      BY <1>1, <2>1, <2>2, <3>1, <3>2
  <2>4. c < cores_per_socket
    BY <1>1, <2>3, DigitsBound DEF Sockets
  <2>5. c \in CoresOfSocket
    BY <1>1, <2>4 DEF CoresOfSocket
  <2>6. QED
    BY <2>1, <2>2, <2>5
<1>3. ASSUME NEW i \in Made, NEW x \in {APP_IDX, HLP_IDX}
      PROVE  \E s \in Sockets, c \in CoresOfSocket :
               /\ enclaves[i].core = <<s, c>> /\ s + num_sockets * c = i - 1
               /\ Cpu(enclaves[i].core, x) = Number(s, c, x)
  <2>1. PICK s \in Sockets, c \in CoresOfSocket :
          enclaves[i].core = <<s, c>> /\ s + num_sockets * c = i - 1
    BY <1>2
  <2>2. x \in 0 .. THREADS_PER_CORE - 1
    BY DEF THREADS_PER_CORE, APP_IDX, HLP_IDX
  <2>3. Filled
    BY MadePlaces
  <2>4. Cpu(enclaves[i].core, x) = Number(s, c, x)
    BY <2>1, <2>2, <2>3, WholeTable DEF Cpu
  <2>5. QED
    BY <2>1, <2>4
<1>4. ASSUME NEW i \in Made
      PROVE  /\ enclaves[i].core \in Cores /\ enclaves[i].socket_num = enclaves[i].core[1]
             /\ Cpu(enclaves[i].core, APP_IDX) # Cpu(enclaves[i].core, HLP_IDX)
  <2>1. PICK s \in Sockets, c \in CoresOfSocket :
          enclaves[i].core = <<s, c>> /\ enclaves[i].socket_num = s
    BY <1>2
  <2>2. /\ Cpu(enclaves[i].core, APP_IDX) = Number(s, c, APP_IDX)
        /\ Cpu(enclaves[i].core, HLP_IDX) = Number(s, c, HLP_IDX)
    BY <1>3, <2>1
  <2>3. Number(s, c, APP_IDX) # Number(s, c, HLP_IDX)
    BY <1>1, NumbersDiffer DEF APP_IDX, HLP_IDX
  <2>4. QED
    BY <2>1, <2>2, <2>3 DEF Cores, Sockets, CoresOfSocket
<1>5. ASSUME NEW i \in Made, NEW j \in Made \ {i},
             NEW x \in {APP_IDX, HLP_IDX}, NEW y \in {APP_IDX, HLP_IDX}
      PROVE  Cpu(enclaves[i].core, x) # Cpu(enclaves[j].core, y)
  <2>1. PICK s \in Sockets, c \in CoresOfSocket :
          s + num_sockets * c = i - 1 /\ Cpu(enclaves[i].core, x) = Number(s, c, x)
    BY <1>3
  <2>2. PICK s1 \in Sockets, c1 \in CoresOfSocket :
          s1 + num_sockets * c1 = j - 1 /\ Cpu(enclaves[j].core, y) = Number(s1, c1, y)
    BY <1>3
  <2>3. i \in Nat /\ j \in Nat /\ i # j
    BY <1>2
  <2>4. ~(s = s1 /\ c = c1)
    BY <2>1, <2>2, <2>3
  <2>5. x \in Nat /\ y \in Nat
    BY DEF APP_IDX, HLP_IDX
  <2>6. QED
    BY <1>1, <2>1, <2>2, <2>4, <2>5, NumbersDiffer
<1>6. QED
  BY <1>4, <1>5 DEF OwnCores

\* With two hardware threads for each enclave no CPU is given to two threads;
\* with fewer, the table ends before the places do (test.cpp, the placement).
THEOREM PlacesAreOwn == LayoutSpec => []OwnCoresUnlessOvercommitted
<1>1. LayoutInv => OwnCoresUnlessOvercommitted
  <2> SUFFICES ASSUME LayoutInv PROVE OwnCoresUnlessOvercommitted
    OBVIOUS
  <2>1. pc = "ready" => Made = 1 .. nb_threads
    BY DEF LayoutInv, Joined, Made
  <2>2. ASSUME ~(2 * nb_threads <= max_cpu_num), pc = "ready"
        PROVE  \E i \in Made : enclaves[i].core \notin Cores
    <3>1. /\ num_sockets \in Nat \ {0} /\ cores_per_socket \in Nat \ {0}
          /\ nb_threads \in Nat \ {0}
      BY DEF LayoutInv, Machine
    <3>2. nb_threads \in Made
      BY <2>1, <2>2, <3>1
    <3>3. PICK s \in Sockets, c \in Nat :
            enclaves[nb_threads].core = <<s, c>> /\ s + num_sockets * c = nb_threads - 1
      BY <3>2, MadePlaces DEF PlaceOf
    <3>4. /\ max_cpu_num = num_sockets * cores_per_socket * 2
          /\ num_sockets * cores_per_socket \in Nat
      BY <2>2, <3>1, WholeTable DEF NumHwCpus, THREADS_PER_CORE, Filled
    <3>5. ~(s + num_sockets * c < num_sockets * cores_per_socket)
      BY <2>2, <3>1, <3>3, <3>4
    <3>6. ~(c < cores_per_socket)
      BY <3>1, <3>5, DigitsBound DEF Sockets
    <3>7. enclaves[nb_threads].core \notin Cores
      BY <3>1, <3>3, <3>6 DEF Cores
    <3>8. QED
      BY <3>2, <3>7
  <2>3. QED
    BY <2>1, <2>2, MadeHaveOwnCores DEF OwnCoresUnlessOvercommitted
<1>2. QED
  BY <1>1, LayoutInvariant, PTL

-----------------------------------------------------------------------------
(***************************************************************************)
(* The allocator.                                                          *)
(*                                                                         *)
(* The blocks in use lie before buf_cur, one after the other, so a block   *)
(* that is handed out overlaps none of them.  nfree finds the last block   *)
(* by its contents: it is right as long as no other block in use has the   *)
(* same ones, since a block taken back is zero and a block in use is not.  *)
(***************************************************************************)

Block == [buf : Buffer, offset : {Half * i : i \in Slot}, ssize : {Inode, Mnode},
          content : Content]

End(b)   == b.offset + AlignedSize(b.ssize)
First(b) == <<b.buf, b.offset \div Half>>
LastCell == <<buf_start, buf_old \div Half>>

\* Room for a line, which a buffer of no size is used for all the same.
Limit == IF buf_size > 0 THEN buf_size ELSE CacheSize

Pointers ==
  /\ live \subseteq Block
  /\ buf_start <= allocs + 1
  /\ Len(other_buffers) = buf_start - 1
  /\ \A i \in DOMAIN other_buffers : other_buffers[i] = i
  /\ buf_old <= buf_cur /\ buf_cur <= Limit
  /\ buf_old = -1 \/ empty => live = {}
  /\ \A b \in live : b.buf <= buf_start /\ End(b) <= Limit

\* The block handed out last is still in use, and is the one before buf_cur.
IsLast(b) ==
  /\ b.buf = buf_start /\ b.offset = buf_old /\ buf_cur = End(b)
  /\ \A c \in live \ {b} : c.buf = buf_start => End(c) <= buf_old

Stacked ==
  /\ \A b \in live : b.buf = buf_start => End(b) <= buf_cur
  /\ \/ buf_old = -1
     \/ buf_old # -1 /\ buf_cur = buf_old /\ mem[LastCell] = 0
     \/ \E b \in live : IsLast(b)

Intact ==
  \A b \in live :
    mem[First(b)] = b.content /\ \A c \in live \ {b} : Cells(b) \cap Cells(c) = {}

\* Half a line is taken, after the last whole one, exactly if last_alloc_half
\* says so.
Halves ==
  /\ last_alloc_half <=> buf_cur % CacheSize = Half
  /\ \A b \in live : /\ b.ssize > Half => b.offset % CacheSize = 0
                     /\ IsLast(b) /\ b.ssize = Inode => last_alloc_half

\* The inductive invariant.
IInv ==
  /\ TypeOK /\ Pointers
  /\ ~twins /\ ~empty => Stacked /\ Intact
  /\ ~twins /\ ~empty /\ ~repeated => Halves
-----------------------------------------------------------------------------
(* Sizes, slots and cells.                                                 *)

LEMMA Sizes ==
  /\ CacheSize = 64 /\ Half = 32 /\ Inode = 32 /\ Mnode = 40
  /\ Alignment(Inode) = Half /\ Alignment(Mnode) = CacheSize
  /\ AlignedSize(Inode) = 32 /\ AlignedSize(Mnode) = 64
  BY DEF CacheSize, Half, Inode, Mnode, Alignment, AlignedSize, Align

LEMMA Remainders ==
  ASSUME NEW n \in Nat, n % 64 = 0
  PROVE  (n + 32) % 64 = 32 /\ (n + 64) % 64 = 0
<1>1. n = 64 * (n \div 64) /\ n \div 64 \in Nat
  OBVIOUS
<1>2. \A k \in Nat : (64 * k + 32) % 64 = 32 /\ (64 * k + 64) % 64 = 0
  OBVIOUS
<1>3. QED
  BY ONLY <1>1, <1>2

LEMMA Room ==
  /\ \E n \in Nat : n >= 2 /\ Slot = 0 .. n /\ \A s \in BufSizes : s <= 32 * (n - 2)
  /\ \A s \in BufSizes : s \in Nat /\ s % 64 = 0
<1> DEFINE max == CHOOSE s \in BufSizes : \A r \in BufSizes : r <= s
<1>1. max \in BufSizes /\ \A r \in BufSizes : r <= max
  BY BufSizesAssumption
<1>2. \A s \in BufSizes : s \in Nat /\ s % 64 = 0
  BY BufSizesAssumption, Sizes
<1>3. Slot = 0 .. (max \div 32) + 2
  BY Sizes DEF Slot
<1> HIDE DEF max
<1> DEFINE n == (max \div 32) + 2
<1>4. n \in Nat /\ n >= 2 /\ max = 32 * (n - 2)
  <2>1. max \in Nat /\ max % 64 = 0
    BY <1>1, <1>2
  <2>2. PICK k \in Nat : max = 64 * k
    <3>1. max = 64 * (max \div 64) /\ max \div 64 \in Nat
      BY <2>1
    <3>2. QED
      BY <3>1
  <2>3. max \div 32 = 2 * k
    BY <2>2
  <2>4. QED
    BY <2>2, <2>3
<1>5. \A s \in BufSizes : s <= 32 * (n - 2)
  BY <1>1, <1>4
<1>6. QED
  BY <1>2, <1>3, <1>4, <1>5

\* A block begins at a slot and takes one or two.
LEMMA BlockIs ==
  ASSUME NEW b \in Block
  PROVE  /\ b.buf \in Buffer /\ b.buf \in Nat /\ b.ssize \in {Inode, Mnode}
         /\ b.content \in Content /\ b.content \in Nat \ {0}
         /\ b.offset \in Nat /\ b.offset \div Half \in Slot /\ b.offset \div Half \in Nat
         /\ b.offset = 32 * (b.offset \div Half)
         /\ AlignedSize(b.ssize) \in {32, 64} /\ End(b) \in Nat
         /\ First(b) \in Cells(b) /\ First(b) \in Buffer \X Slot
<1>1. PICK i \in Slot : b.offset = Half * i
  BY DEF Block
<1>2. i \in Nat
  BY Room
<1>3. b.offset \div Half = i /\ b.offset = 32 * i
  BY <1>1, <1>2, Sizes
<1>4. b.ssize \in {Inode, Mnode} /\ b.content \in Content /\ b.buf \in Buffer
  BY DEF Block
<1>5. b.content \in Nat \ {0} /\ b.buf \in Nat
  <2>1. b.content \in Nat \ {0}
    BY <1>4, ContentAssumption
  <2>2. b.buf \in Nat
    BY <1>4, BoundAssumption DEF Buffer
  <2>3. QED
    BY <2>1, <2>2
<1>6. AlignedSize(b.ssize) \in {32, 64}
  BY <1>4, Sizes
<1>7. End(b) \in Nat
  BY <1>2, <1>3, <1>6 DEF End
<1>8. First(b) = <<b.buf, i>>
  BY <1>3 DEF First
<1>9. <<b.buf, i>> \in Cells(b)
  BY <1>1, <1>2, <1>3, <1>6, Sizes DEF Cells, Slots
<1>10. QED
  BY <1>1, <1>2, <1>3, <1>4, <1>5, <1>6, <1>7, <1>8, <1>9

LEMMA Apart ==
  ASSUME NEW b \in Block, NEW c \in Block,
         b.buf # c.buf \/ End(b) <= c.offset \/ End(c) <= b.offset
  PROVE  Cells(b) \cap Cells(c) = {}
<1> SUFFICES ASSUME NEW x \in Cells(b), x \in Cells(c) PROVE FALSE
  OBVIOUS
<1>1. PICK i \in Slot : /\ x = <<b.buf, i>> /\ x = <<c.buf, i>>
                        /\ Half * i < End(b) /\ b.offset < Half * (i + 1)
                        /\ Half * i < End(c) /\ c.offset < Half * (i + 1)
  BY DEF Cells, Slots, End
<1>2. i \in Nat
  BY Room
<1>3. PICK j \in Nat, k \in Nat : b.offset = 32 * j /\ c.offset = 32 * k
  BY BlockIs
<1>4. End(b) \in {32 * (j + 1), 32 * (j + 2)} /\ End(c) \in {32 * (k + 1), 32 * (k + 2)}
  BY <1>3, BlockIs DEF End
<1>5. b.buf = c.buf
  BY <1>1
<1>6. 32 * i < End(b) /\ 32 * j < 32 * (i + 1) /\ 32 * i < End(c) /\ 32 * k < 32 * (i + 1)
  BY <1>1, <1>3, Sizes
<1>7. j <= i /\ k <= i
  BY <1>2, <1>3, <1>6
<1>8. CASE End(b) <= c.offset
  BY <1>2, <1>3, <1>4, <1>6, <1>7, <1>8
<1>9. CASE End(c) <= b.offset
  BY <1>2, <1>3, <1>4, <1>6, <1>7, <1>9
<1>10. QED
  BY <1>5, <1>8, <1>9

\* A block that another one begins in the middle of, or begins with.
LEMMA SameFirst ==
  ASSUME NEW b \in Block, NEW c \in Block, First(b) = First(c)
  PROVE  b.buf = c.buf /\ b.offset = c.offset /\ Cells(b) \cap Cells(c) # {}
<1>1. b.buf = c.buf /\ b.offset \div Half = c.offset \div Half
  BY DEF First
<1>2. QED
  BY <1>1, BlockIs
-----------------------------------------------------------------------------
\* What TypeOK says of each variable.
LEMMA TypeIs ==
  TypeOK <=> /\ buf_size \in BufSizes /\ last_alloc_half \in BOOLEAN /\ empty \in BOOLEAN
             /\ buf_start \in Buffer /\ other_buffers \in Seq(Buffer) /\ freed \in Seq(Buffer)
             /\ buf_cur \in {Half * i : i \in Slot}
             /\ buf_old \in {Half * i : i \in Slot} \cup {-1}
             /\ mem \in [Buffer \X Slot -> Content \cup {0}]
             /\ allocs \in 0 .. MaxAllocs
  BY DEF TypeOK

\* The pointers in lines and half lines.
LEMMA PointersAre ==
  ASSUME TypeOK
  PROVE  /\ buf_size \in Nat /\ buf_size % 64 = 0 /\ Limit \in Nat /\ Limit >= 64
         /\ \E n \in Nat : Slot = 0 .. n /\ Limit <= 32 * n
         /\ \E i \in Slot : buf_cur = 32 * i
         /\ buf_old = -1 \/ \E i \in Slot : buf_old = 32 * i
         /\ buf_cur \in Nat /\ buf_old \in Int /\ buf_start \in Nat /\ allocs \in Nat
<1>1. buf_size \in BufSizes /\ buf_start \in Buffer /\ allocs \in 0 .. MaxAllocs
  BY TypeIs
<1>2. buf_size \in Nat /\ buf_size % 64 = 0
  BY <1>1, Room
<1>3. Limit \in Nat /\ Limit >= 64
  BY <1>2, Sizes DEF Limit
<1>4. \E n \in Nat : Slot = 0 .. n /\ Limit <= 32 * n
  <2>1. PICK n \in Nat : n >= 2 /\ Slot = 0 .. n /\ \A s \in BufSizes : s <= 32 * (n - 2)
    BY Room
  <2>2. Limit <= 32 * n
    BY <1>1, <1>2, <2>1, Sizes DEF Limit
  <2>3. QED
    BY <2>1, <2>2
<1>5. /\ \E i \in Slot : buf_cur = 32 * i
      /\ buf_old = -1 \/ \E i \in Slot : buf_old = 32 * i
  BY Sizes, TypeIs
<1>6. \A i \in Slot : i \in Nat
  BY Room
<1>7. buf_cur \in Nat /\ buf_old \in Int
  BY <1>5, <1>6
<1>8. buf_start \in Nat /\ allocs \in Nat
  BY <1>1, BoundAssumption DEF Buffer
<1>9. QED
  BY <1>2, <1>3, <1>4, <1>5, <1>7, <1>8

LEMMA InitInv == Init => IInv
<1> SUFFICES ASSUME Init PROVE IInv
  OBVIOUS
<1> USE DEF Init
<1>1. 1 \in Buffer /\ MaxAllocs \in Nat
  BY BoundAssumption DEF Buffer
<1>2. 0 \in Slot
  BY Room
<1>3. buf_cur \in {Half * i : i \in Slot}
  BY <1>2, Sizes
<1>4. mem \in [Buffer \X Slot -> Content \cup {0}]
  OBVIOUS
<1>5. other_buffers \in Seq(Buffer) /\ freed \in Seq(Buffer)
  OBVIOUS
<1>6. TypeOK
  <2>1. buf_size \in BufSizes /\ buf_start \in Buffer /\ allocs \in 0 .. MaxAllocs
    BY <1>1
  <2>2. last_alloc_half \in BOOLEAN /\ empty \in BOOLEAN
    <3>1. last_alloc_half = FALSE /\ empty = FALSE
      OBVIOUS
    <3>2. QED
      BY ONLY <3>1
  <2>3. buf_old \in {Half * i : i \in Slot} \cup {-1}
    <3>1. buf_old = -1
      OBVIOUS
    <3>2. QED
      BY ONLY <3>1
  <2>4. QED
    BY ONLY <1>3, <1>4, <1>5, <2>1, <2>2, <2>3, TypeIs
<1>7. Pointers
  BY <1>6, PointersAre DEF Pointers
<1>8. Stacked /\ Intact
  BY DEF Stacked, Intact
<1>9. Halves
  BY Sizes DEF Halves
<1>10. QED
  BY <1>6, <1>7, <1>8, <1>9 DEF IInv
-----------------------------------------------------------------------------
(* nalloc                                                                  *)

\* Where the next block comes to lie, and the pointers behind it.
LEMMA PlaceIs ==
  ASSUME TypeOK, Pointers, NEW ssize \in {Inode, Mnode}, NEW content, NAlloc(ssize, content)
  PROVE  /\ AlignedSize(ssize) \in {32, 64} /\ Move(ssize).cur \in {buf_cur, buf_cur + 32}
         /\ buf_cur' = buf_old' + AlignedSize(ssize) /\ buf_cur' <= Limit
         /\ \/ /\ buf_start' = buf_start /\ other_buffers' = other_buffers
               /\ buf_old' = Move(ssize).cur
            \/ /\ buf_start' = buf_start + 1 /\ other_buffers' = Append(other_buffers, buf_start)
               /\ buf_old' = 0
         /\ \E i \in Nat : buf_old' = 32 * i
<1> DEFINE cur == Move(ssize).cur
<1>1. AlignedSize(ssize) \in {32, 64}
  BY Sizes
<1>2. cur \in {buf_cur, buf_cur + 32}
  BY Sizes DEF Move
<1>3. /\ buf_old' = IF Fits(cur, ssize) THEN cur ELSE 0
      /\ buf_cur' = buf_old' + AlignedSize(ssize)
      /\ IF Fits(cur, ssize) THEN UNCHANGED buffers ELSE NRealloc
  BY DEF NAlloc
<1>4. PICK i \in Nat : buf_cur = 32 * i
  BY PointersAre, Room
<1>5. /\ buf_size \in Nat /\ Limit >= 64 /\ Limit \in Nat
      /\ buf_size > 0 => Limit = buf_size
  BY PointersAre DEF Limit
<1> HIDE DEF cur
<1>6. CASE Fits(cur, ssize)
  <2>1. buf_old' = cur /\ buf_start' = buf_start /\ other_buffers' = other_buffers
    BY <1>3, <1>6 DEF buffers
  <2>2. cur = 32 * i \/ cur = 32 * (i + 1)
    BY <1>2, <1>4
  <2>3. cur + AlignedSize(ssize) <= buf_size
    BY <1>6 DEF Fits
  <2>4. cur + AlignedSize(ssize) <= Limit
    BY <1>1, <1>4, <1>5, <2>2, <2>3
  <2>5. \E j \in Nat : buf_old' = 32 * j
    <3>1. i + 1 \in Nat
      OBVIOUS
    <3>2. QED
      BY <2>1, <2>2, <3>1
  <2>6. QED
    BY <1>1, <1>2, <1>3, <2>1, <2>4, <2>5 DEF cur
<1>7. CASE ~Fits(cur, ssize)
  <2>1. /\ buf_old' = 0 /\ buf_start' = buf_start + 1
        /\ other_buffers' = Append(other_buffers, buf_start)
    BY <1>3, <1>7 DEF NRealloc
  <2>2. buf_old' = 32 * 0
    BY <2>1
  <2>3. QED
    BY <1>1, <1>2, <1>3, <1>5, <2>1, <2>2 DEF cur
<1>8. QED
  BY <1>6, <1>7

\* The block that nalloc hands out.
New(ssize, content) ==
  [buf |-> buf_start', offset |-> buf_old', ssize |-> ssize, content |-> content]

LEMMA NAllocTypes ==
  ASSUME TypeOK, Pointers, NEW ssize \in {Inode, Mnode}, NEW content \in Content,
         NAlloc(ssize, content)
  PROVE  TypeOK' /\ New(ssize, content) \in Block
<1>1. /\ AlignedSize(ssize) \in {32, 64}
      /\ buf_cur' = buf_old' + AlignedSize(ssize) /\ buf_cur' <= Limit
      /\ \/ /\ buf_start' = buf_start /\ other_buffers' = other_buffers
            /\ buf_old' = Move(ssize).cur
         \/ /\ buf_start' = buf_start + 1 /\ other_buffers' = Append(other_buffers, buf_start)
            /\ buf_old' = 0
      /\ \E i \in Nat : buf_old' = 32 * i
  BY PlaceIs
<1>2. /\ allocs' = allocs + 1 /\ allocs < MaxAllocs /\ UNCHANGED <<buf_size, empty, freed>>
      /\ last_alloc_half' = Move(ssize).half
  BY DEF NAlloc
<1>3. /\ allocs \in Nat /\ allocs' \in 0 .. MaxAllocs /\ buf_start \in Buffer
      /\ buf_start \in Nat /\ buf_start <= allocs + 1
  <2>1. allocs \in Nat /\ buf_start \in Nat /\ buf_start \in Buffer
    BY PointersAre, TypeIs
  <2>2. allocs' \in 0 .. MaxAllocs
    BY <1>2, <2>1, BoundAssumption
  <2>3. QED
    BY <2>1, <2>2 DEF Pointers
<1>4. buf_start' \in Buffer
  BY <1>1, <1>2, <1>3, BoundAssumption DEF Buffer
<1>5. other_buffers' \in Seq(Buffer)
  <2>1. other_buffers \in Seq(Buffer)
    BY TypeIs
  <2>2. Append(other_buffers, buf_start) \in Seq(Buffer)
    BY <1>3, <2>1
  <2>3. QED
    BY <1>1, <2>1, <2>2
<1>6. PICK i \in Nat, n \in Nat : buf_old' = 32 * i /\ Slot = 0 .. n /\ Limit <= 32 * n
  BY <1>1, PointersAre
<1>7. PICK k \in {1, 2} : AlignedSize(ssize) = 32 * k
  BY <1>1
<1>8. Limit \in Nat /\ 32 * (i + k) <= Limit /\ buf_cur' = 32 * (i + k)
  BY <1>1, <1>6, <1>7, PointersAre
<1>9. i \in Slot /\ i + k \in Slot
  BY <1>6, <1>7, <1>8
<1>10. buf_old' \in {Half * j : j \in Slot} /\ buf_cur' \in {Half * j : j \in Slot}
  BY <1>6, <1>8, <1>9, Sizes
<1>11. last_alloc_half' \in BOOLEAN
  <2>1. last_alloc_half \in BOOLEAN
    BY TypeIs
  <2>2. QED
    BY <1>2, <2>1 DEF Move
<1>12. mem' \in [Buffer \X Slot -> Content \cup {0}]
  <2>1. mem \in [Buffer \X Slot -> Content \cup {0}]
    BY TypeIs
  <2>2. mem' = [a \in DOMAIN mem |->
                  IF a \notin Cells(New(ssize, content)) THEN mem[a]
                  ELSE IF a[2] * Half <= buf_old' THEN content ELSE 0]
    BY DEF NAlloc, New
  <2>3. QED
    BY <2>1, <2>2
<1>13. TypeOK'
  <2>1. /\ buf_size' \in BufSizes /\ empty' \in BOOLEAN /\ freed' \in Seq(Buffer)
    BY <1>2, TypeIs
  <2>2. buf_old' \in {Half * j : j \in Slot} \cup {-1}
    BY <1>10
  <2>3. QED
    BY <1>3, <1>4, <1>5, <1>10, <1>11, <1>12, <2>1, <2>2 DEF TypeOK
<1>14. New(ssize, content) \in Block
  BY <1>4, <1>10 DEF New, Block
<1>15. QED
  BY <1>13, <1>14

LEMMA NAllocStep ==
  ASSUME IInv, NEW ssize \in {Inode, Mnode}, NEW content \in Content, NAlloc(ssize, content)
  PROVE  IInv'
<1>new. PICK new : new = New(ssize, content)
  OBVIOUS
<1>1. TypeOK /\ Pointers
  BY DEF IInv
<1>2. TypeOK' /\ new \in Block
  BY <1>1, <1>new, NAllocTypes
<1>3. /\ AlignedSize(ssize) \in {32, 64} /\ Move(ssize).cur \in {buf_cur, buf_cur + 32}
      /\ buf_cur' = buf_old' + AlignedSize(ssize) /\ buf_cur' <= Limit
      /\ \/ /\ buf_start' = buf_start /\ other_buffers' = other_buffers
            /\ buf_old' = Move(ssize).cur
         \/ /\ buf_start' = buf_start + 1 /\ other_buffers' = Append(other_buffers, buf_start)
            /\ buf_old' = 0
      /\ buf_old' \in Nat
  <2>1. \E i \in Nat : buf_old' = 32 * i
    BY <1>1, PlaceIs
  <2>2. buf_old' \in Nat
    BY <2>1
  <2>3. QED
    BY <1>1, <2>2, PlaceIs
<1>4. /\ live' = live \cup {new} /\ allocs' = allocs + 1
      /\ UNCHANGED <<buf_size, empty, twins>> /\ ~empty
      /\ last_alloc_half' = Move(ssize).half
      /\ repeated' = (repeated \/ (last_alloc_half /\ Alignment(ssize) = Half))
      /\ mem' = [a \in DOMAIN mem |->
                   IF a \notin Cells(new) THEN mem[a]
                   ELSE IF a[2] * Half <= buf_old' THEN content ELSE 0]
  BY <1>new DEF NAlloc, New
<1>5. /\ new.buf = buf_start' /\ new.offset = buf_old' /\ new.ssize = ssize
      /\ new.content = content /\ End(new) = buf_cur'
  BY <1>3, <1>new DEF New, End
<1>6. /\ buf_cur \in Nat /\ buf_start \in Nat /\ allocs \in Nat /\ Limit \in Nat
      /\ Limit' = Limit
  BY <1>1, <1>4, PointersAre DEF Limit
<1>7. Pointers'
  <2>1. live' \subseteq Block /\ buf_start' <= allocs' + 1
    BY <1>1, <1>2, <1>3, <1>4, <1>6 DEF Pointers
  <2>2. Len(other_buffers') = buf_start' - 1 /\ \A i \in DOMAIN other_buffers' : other_buffers'[i] = i
    <3>1. /\ other_buffers \in Seq(Buffer) /\ Len(other_buffers) = buf_start - 1
          /\ \A i \in DOMAIN other_buffers : other_buffers[i] = i
      BY <1>1, TypeIs DEF Pointers
    <3>2. CASE other_buffers' = other_buffers /\ buf_start' = buf_start
      BY <3>1, <3>2
    <3>3. CASE other_buffers' = Append(other_buffers, buf_start) /\ buf_start' = buf_start + 1
      BY <1>6, <3>1, <3>3
    <3>4. QED
      BY <1>3, <3>2, <3>3
  <2>3. buf_old' <= buf_cur' /\ buf_cur' <= Limit' /\ buf_old' # -1 /\ ~empty'
    BY <1>3, <1>4, <1>6
  <2>4. ASSUME NEW b \in live' PROVE b.buf <= buf_start' /\ End(b) <= Limit'
    <3>1. CASE b \in live
      <4>1. b \in Block /\ b.buf <= buf_start /\ End(b) <= Limit
        BY <1>1, <3>1 DEF Pointers
      <4>2. QED
        BY <1>3, <1>6, <4>1, BlockIs
    <3>2. CASE b = new
      BY <1>1, <1>2, <1>3, <1>5, <1>6, <3>2, PointersAre, BlockIs
    <3>3. QED
      BY <1>4, <3>1, <3>2
  <2>5. QED
    BY <2>1, <2>2, <2>3, <2>4 DEF Pointers
<1>8. ASSUME ~twins PROVE Stacked' /\ Intact'
  <2>1. Stacked /\ Intact /\ live \subseteq Block
    BY <1>1, <1>4, <1>8 DEF IInv, Pointers
  \* The blocks of the buffer lie before the new one.
  <2>2. ASSUME NEW c \in live, c.buf = buf_start' PROVE End(c) <= buf_old'
    <3>1. c.buf <= buf_start /\ c \in Block
      BY <1>1, <2>1 DEF Pointers
    <3>2. c.buf = buf_start /\ buf_old' = Move(ssize).cur
      BY <1>3, <1>6, <2>2, <3>1
    <3>3. End(c) <= buf_cur /\ End(c) \in Nat
      BY <2>1, <3>1, <3>2, BlockIs DEF Stacked
    <3>4. QED
      BY <1>3, <1>6, <3>2, <3>3
  <2>3. ASSUME NEW c \in live PROVE Cells(c) \cap Cells(new) = {}
    <3>1. c \in Block
      BY <2>1
    <3>2. c.buf # new.buf \/ End(c) <= new.offset
      BY <1>5, <2>2
    <3>3. QED
      BY <1>2, <3>1, <3>2, Apart
  <2>4. new \notin live
    BY <1>2, <2>3, BlockIs
  <2>5. IsLast(new)'
    <3>1. new.buf = buf_start' /\ new.offset = buf_old' /\ buf_cur' = End(new)
      BY <1>5
    <3>2. \A c \in live' \ {new} : c.buf = buf_start' => End(c) <= buf_old'
      BY <1>4, <2>2
    <3>3. QED
      BY <3>1, <3>2 DEF IsLast, End
  <2>6. Stacked'
    <3>1. ASSUME NEW b \in live', b.buf = buf_start' PROVE End(b) <= buf_cur'
      <4>1. CASE b \in live
        <5>1. End(b) <= buf_old' /\ End(b) \in Nat
          BY <2>1, <2>2, <3>1, <4>1, BlockIs
        <5>2. QED
          BY <1>3, <5>1
      <4>2. CASE b = new
        BY <1>3, <1>5, <4>2
      <4>3. QED
        BY <1>4, <4>1, <4>2
    <3>2. new \in live'
      BY <1>4
    <3>3. \A b \in live' : b.buf = buf_start' => End(b) <= buf_cur'
      BY <3>1
    <3>4. QED
      BY ONLY <2>5, <3>2, <3>3 DEF Stacked, End
  <2>7. DOMAIN mem = Buffer \X Slot
    BY <1>1, TypeIs
  <2>8. ASSUME NEW b \in live' PROVE mem'[First(b)] = b.content
    <3>1. CASE b \in live
      <4>1. First(b) \in Cells(b) /\ First(b) \in Buffer \X Slot
        BY <2>1, <3>1, BlockIs
      <4>2. First(b) \notin Cells(new)
        BY <2>3, <3>1, <4>1
      <4>3. mem[First(b)] = b.content
        BY <2>1, <3>1 DEF Intact
      <4>4. QED
        BY <1>4, <2>7, <4>1, <4>2, <4>3
    <3>2. CASE b = new
      <4>1. First(new) \in Cells(new) /\ First(new) \in Buffer \X Slot
        BY <1>2, BlockIs
      <4>2. (First(new)[2]) * Half <= buf_old'
        <5>1. PICK k \in Nat : k = new.offset \div Half /\ new.offset = 32 * k
          BY <1>2, BlockIs
        <5>2. First(new)[2] = k
          BY <5>1 DEF First
        <5>3. k * Half <= buf_old'
          BY <1>5, <5>1, Sizes
        <5>4. QED
          BY ONLY <5>2, <5>3
      <4>3. mem'[First(new)] = content
        BY <1>4, <2>7, <4>1, <4>2
      <4>4. QED
        BY <1>5, <3>2, <4>3
    <3>3. QED
      BY <1>4, <3>1, <3>2
  <2>9. ASSUME NEW b \in live', NEW c \in live' \ {b} PROVE Cells(b) \cap Cells(c) = {}
    BY <1>4, <2>1, <2>3 DEF Intact
  <2>10. Intact'
    BY <2>8, <2>9 DEF Intact, First, Cells, Slots
  <2>11. QED
    BY <2>6, <2>10
<1>9. ASSUME ~twins, ~repeated' PROVE Halves'
  <2>1. Halves /\ ~repeated /\ Stacked /\ live \subseteq Block
    BY <1>1, <1>4, <1>9 DEF IInv, Pointers
  <2>2. PICK i \in Nat : buf_cur = 32 * i
    BY <1>1, PointersAre, Room
  <2>3. last_alloc_half <=> buf_cur % 64 = 32
    BY <2>1, Sizes DEF Halves
  <2>4. /\ ssize = Inode => /\ ~last_alloc_half /\ last_alloc_half'
                            /\ buf_old' % 64 = 0 /\ buf_cur' % 64 = 32
        /\ ssize = Mnode => ~last_alloc_half' /\ buf_old' % 64 = 0 /\ buf_cur' % 64 = 0
    <3>1. CASE ssize = Inode
      <4>1. ~last_alloc_half /\ last_alloc_half' /\ Move(ssize).cur = buf_cur
        BY <1>4, <1>9, <3>1, Sizes DEF Move
      <4>2. AlignedSize(ssize) = 32 /\ Mnode # Inode
        BY <3>1, Sizes
      <4>3. buf_cur % 64 = 0
        BY <2>2, <2>3, <4>1
      <4>4. buf_old' % 64 = 0
        <5>1. buf_old' = buf_cur \/ buf_old' = 0
          BY <1>3, <4>1
        <5>2. QED
          BY <4>3, <5>1
      <4>5. buf_cur' % 64 = 32
        <5>1. buf_cur' = buf_old' + 32 /\ buf_old' \in Nat
          BY <1>3, <4>2
        <5>2. QED
          BY <4>4, <5>1, Remainders
      <4>6. QED
        BY <3>1, <4>1, <4>2, <4>4, <4>5
    <3>2. CASE ssize = Mnode
      <4>1. ~last_alloc_half' /\ AlignedSize(ssize) = 64 /\ Mnode # Inode
        <5>1. Alignment(ssize) = CacheSize /\ CacheSize # Half /\ last_alloc_half \in BOOLEAN
          BY <1>1, <3>2, Sizes, TypeIs
        <5>2. Move(ssize).half = FALSE
          BY <5>1 DEF Move
        <5>3. ~last_alloc_half'
          BY <1>4, <5>2
        <5>4. QED
          BY <3>2, <5>3, Sizes
      <4>2. Move(ssize).cur = IF last_alloc_half THEN buf_cur + 32 ELSE buf_cur
        BY <3>2, Sizes DEF Move
      <4>3. Move(ssize).cur % 64 = 0
        BY <2>2, <2>3, <4>2
      <4>4. buf_old' % 64 = 0
        <5>1. buf_old' = Move(ssize).cur \/ buf_old' = 0
          BY <1>3
        <5>2. QED
          BY <4>3, <5>1
      <4>5. buf_cur' % 64 = 0
        <5>1. buf_cur' = buf_old' + 64 /\ buf_old' \in Nat
          BY <1>3, <4>1
        <5>2. QED
          BY <4>4, <5>1, Remainders
      <4>6. QED
        BY <3>2, <4>1, <4>4, <4>5
    <3>3. QED
      BY <3>1, <3>2
  <2>5. last_alloc_half' <=> buf_cur' % CacheSize = Half
    BY <2>4, Sizes
  <2>6. ASSUME NEW b \in live' PROVE b.ssize > Half => b.offset % CacheSize = 0
    <3>1. CASE b \in live
      BY <2>1, <3>1 DEF Halves
    <3>2. CASE b = new
      BY <1>5, <2>4, <3>2, Sizes
    <3>3. QED
      BY <1>4, <3>1, <3>2
  <2>7. ASSUME NEW b \in live', IsLast(b)', b.ssize = Inode PROVE last_alloc_half'
    <3>1. b.buf = buf_start' /\ b.offset = buf_old' /\ buf_cur' = End(b)
      BY <2>7 DEF IsLast, End
    <3>2. AlignedSize(ssize) = 32
      BY <1>3, <2>7, <3>1, Sizes DEF End
    <3>3. ssize = Inode
      BY <3>2, Sizes
    <3>4. QED
      BY <2>4, <3>3
  <2>8. QED
    BY <2>5, <2>6, <2>7 DEF Halves
<1>10. QED
  BY <1>2, <1>4, <1>7, <1>8, <1>9 DEF IInv
-----------------------------------------------------------------------------
(* Writes of the owner.                                                    *)

LEMMA WriteStep ==
  ASSUME IInv, NEW b \in live, NEW content \in Content, Write(b, content)
  PROVE  IInv'
<1>new. PICK new : new = [b EXCEPT !.content = content]
  OBVIOUS
<1>1. /\ live' = (live \ {b}) \cup {new} /\ mem' = [mem EXCEPT ![First(b)] = content]
      /\ UNCHANGED <<buf_size, buf_start, other_buffers, buf_cur, buf_old, last_alloc_half,
                     empty, freed, allocs, twins, repeated>>
      /\ ~empty
  BY <1>new DEF Write, First, buffers, history
<1>2. TypeOK /\ Pointers /\ live \subseteq Block /\ b \in Block
  BY DEF IInv, Pointers
<1>3. /\ new \in Block /\ new.buf = b.buf /\ new.offset = b.offset
      /\ new.ssize = b.ssize /\ new.content = content
  BY <1>2, <1>new DEF Block
<1>4. End(new) = End(b) /\ First(new) = First(b) /\ Cells(new) = Cells(b)
  BY <1>3 DEF End, First, Cells, Slots
<1>5. /\ First(b) \in Buffer \X Slot /\ DOMAIN mem = Buffer \X Slot
      /\ mem \in [Buffer \X Slot -> Content \cup {0}]
  BY <1>2, BlockIs, TypeIs
<1>6. mem'[First(b)] = content /\ \A a \in Buffer \X Slot \ {First(b)} : mem'[a] = mem[a]
  BY <1>1, <1>5
<1>7. TypeOK'
  <2>1. mem' \in [Buffer \X Slot -> Content \cup {0}]
    BY <1>1, <1>5
  <2>2. QED
    BY <1>1, <1>2, <2>1 DEF TypeOK
<1>8. Limit' = Limit
  BY <1>1 DEF Limit
<1>9. Pointers'
  <2>1. b.buf <= buf_start /\ End(b) <= Limit /\ buf_old # -1
    BY <1>2 DEF Pointers
  <2>2. \A c \in live' : c.buf <= buf_start' /\ End(c) <= Limit'
    BY <1>1, <1>2, <1>3, <1>4, <1>8, <2>1 DEF Pointers
  <2>3. live' \subseteq Block
    BY <1>1, <1>2, <1>3
  <2>4. QED
    BY <1>1, <1>2, <1>8, <2>1, <2>2, <2>3 DEF Pointers
\* What the last block is, before and after.
<1>10. /\ \A c \in live \ {b} : IsLast(c) => IsLast(c)'
       /\ IsLast(b) => IsLast(new)'
       /\ \A c \in live : IsLast(c)' /\ c # new /\ c # b => IsLast(c)
       /\ IsLast(new)' /\ new \notin live => IsLast(b)
  <2>1. ASSUME NEW c \in live \ {b}, IsLast(c) PROVE IsLast(c)'
    <3>1. \A d \in live' \ {c} : d.buf = buf_start => End(d) <= buf_old
      BY <1>1, <1>3, <1>4, <2>1 DEF IsLast
    <3>2. c.buf = buf_start /\ c.offset = buf_old /\ buf_cur = End(c)
      BY <2>1 DEF IsLast
    <3>3. QED
      BY <1>1, <3>1, <3>2 DEF IsLast, End
  <2>2. ASSUME IsLast(b) PROVE IsLast(new)'
    <3>1. \A d \in live' \ {new} : d.buf = buf_start => End(d) <= buf_old
      BY <1>1, <2>2 DEF IsLast
    <3>2. new.buf = buf_start /\ new.offset = buf_old /\ buf_cur = End(new)
      BY <1>3, <1>4, <2>2 DEF IsLast
    <3>3. QED
      BY <1>1, <3>1, <3>2 DEF IsLast, End
  <2>3. ASSUME NEW c \in live, IsLast(c)', c # new, c # b PROVE IsLast(c)
    <3>1. /\ c.buf = buf_start /\ c.offset = buf_old /\ buf_cur = End(c)
          /\ \A d \in live' \ {c} : d.buf = buf_start => End(d) <= buf_old
      BY <1>1, <2>3 DEF IsLast, End
    <3>2. \A d \in live \ {c} : d.buf = buf_start => End(d) <= buf_old
      BY <1>1, <1>3, <1>4, <2>3, <3>1
    <3>3. QED
      BY <3>1, <3>2 DEF IsLast
  <2>4. ASSUME IsLast(new)', new \notin live PROVE IsLast(b)
    <3>1. /\ new.buf = buf_start /\ new.offset = buf_old /\ buf_cur = End(new)
          /\ \A d \in live' \ {new} : d.buf = buf_start => End(d) <= buf_old
      BY <1>1, <2>4 DEF IsLast, End
    <3>2. \A d \in live \ {b} : d.buf = buf_start => End(d) <= buf_old
      BY <1>1, <2>4, <3>1
    <3>3. QED
      BY <1>3, <1>4, <3>1, <3>2 DEF IsLast
  <2>5. QED
    BY <2>1, <2>2, <2>3, <2>4
<1>11. ASSUME ~twins PROVE Stacked' /\ Intact' /\ new \notin live \ {b}
  <2>1. Stacked /\ Intact
    BY <1>1, <1>11 DEF IInv
  <2>2. ASSUME NEW c \in live \ {b} PROVE First(c) # First(b) /\ First(c) \in Buffer \X Slot
    <3>1. c \in Block /\ Cells(b) \cap Cells(c) = {}
      BY <1>2, <2>1 DEF Intact
    <3>2. QED
      BY <1>2, <3>1, SameFirst, BlockIs
  <2>3. new \notin live \ {b}
    BY <1>4, <2>2
  <2>4. Intact'
    <3>1. ASSUME NEW c \in live' PROVE mem'[First(c)] = c.content
      <4>1. CASE c \in live \ {b}
        BY <1>6, <2>1, <2>2, <4>1 DEF Intact
      <4>2. CASE c = new
        BY <1>3, <1>4, <1>6, <4>2
      <4>3. QED
        BY <1>1, <4>1, <4>2
    <3>2. ASSUME NEW c \in live', NEW d \in live' \ {c} PROVE Cells(c) \cap Cells(d) = {}
      <4>1. /\ c \in live \ {b} \/ c = new
            /\ d \in live \ {b} \/ d = new
            /\ c # d
        BY <1>1
      <4>2. QED
        BY <1>4, <2>1, <4>1 DEF Intact
    <3>3. QED
      BY <3>1, <3>2 DEF Intact, First, Cells, Slots
  <2>5. Stacked'
    <3>1. \A c \in live' : c.buf = buf_start => End(c) <= buf_cur
      BY <1>1, <1>3, <1>4, <2>1 DEF Stacked
    <3>2. CASE buf_old = -1
      BY <1>1, <3>1, <3>2 DEF Stacked, End
    <3>3. CASE buf_old # -1 /\ buf_cur = buf_old /\ mem[LastCell] = 0
      <4>1. mem[First(b)] # 0
        BY <1>2, <2>1, BlockIs DEF Intact
      <4>2. LastCell \in Buffer \X Slot
        <5>1. buf_start \in Buffer
          BY <1>2, TypeIs
        <5>2. PICK i \in Slot : buf_old = 32 * i
          BY <1>2, <3>3, PointersAre
        <5>3. buf_old \div Half = i
          BY <5>2, Room, Sizes
        <5>4. QED
          BY <5>1, <5>3 DEF LastCell
      <4>3. mem'[LastCell] = 0
        BY <1>6, <3>3, <4>1, <4>2
      <4>4. LastCell' = LastCell
        BY <1>1 DEF LastCell
      <4>5. QED
        BY <1>1, <3>1, <3>3, <4>3, <4>4 DEF Stacked, End
    <3>4. CASE \E c \in live : IsLast(c)
      <4>1. PICK c \in live : IsLast(c)
        BY <3>4
      <4>2. \E d \in live' : IsLast(d)'
        BY <1>1, <1>10, <4>1
      <4>3. \A d \in live' : d.buf = buf_start' => End(d) <= buf_cur'
        BY <1>1, <3>1
      <4>4. QED
        BY ONLY <4>2, <4>3 DEF Stacked, End
    <3>5. QED
      BY <2>1, <3>2, <3>3, <3>4 DEF Stacked
  <2>6. QED
    BY <2>3, <2>4, <2>5
<1>12. ASSUME ~twins, ~repeated PROVE Halves'
  <2>1. Halves /\ new \notin live \ {b}
    BY <1>1, <1>11, <1>12 DEF IInv
  <2>2. \A c \in live' : c.ssize > Half => c.offset % CacheSize = 0
    BY <1>1, <1>3, <2>1 DEF Halves
  <2>3. ASSUME NEW c \in live', IsLast(c)', c.ssize = Inode PROVE last_alloc_half
    <3>1. CASE c = new
      <4>1. b = new => IsLast(b)
        <5>1. SUFFICES ASSUME b = new PROVE IsLast(b)
          OBVIOUS
        <5>2. live' = live
          BY <1>1, <5>1
        <5>3. QED
          BY <1>1, <2>3, <3>1, <5>1, <5>2 DEF IsLast, End
      <4>2. IsLast(b)
        BY <1>10, <2>1, <2>3, <3>1, <4>1
      <4>3. QED
        BY <1>3, <2>1, <2>3, <3>1, <4>2 DEF Halves
    <3>2. CASE c \in live \ {b} /\ c # new
      BY <1>10, <2>1, <2>3, <3>2 DEF Halves
    <3>3. QED
      BY <1>1, <3>1, <3>2
  <2>4. QED
    BY <1>1, <2>1, <2>2, <2>3 DEF Halves
<1>13. QED
  BY <1>1, <1>7, <1>9, <1>11, <1>12 DEF IInv
-----------------------------------------------------------------------------
(* nfree                                                                   *)

\* What nfree says is the last block, if no other block has its contents.
LEMMA SameIsLast ==
  ASSUME IInv, NEW b \in live, NFree(b), ~twins'
  PROVE  Same(b) <=> IsLast(b)
<1>1. ~twins /\ ~empty /\ \A c \in live \ {b} : c.content # b.content
  BY DEF NFree
<1>2. Stacked /\ Intact /\ Pointers /\ live \subseteq Block /\ b \in Block
  BY <1>1 DEF IInv, Pointers
<1>3. buf_old # -1
  BY <1>2 DEF Pointers
<1>4. ASSUME Same(b) PROVE IsLast(b)
  <2>1. mem[First(b)] = mem[LastCell]
    <3>1. 0 \in 0 .. AlignedSize(b.ssize) \div Half - 1
      <4>1. AlignedSize(b.ssize) = 32 \/ AlignedSize(b.ssize) = 64
        BY <1>2, BlockIs
      <4>2. AlignedSize(b.ssize) \div Half \in {1, 2}
        BY <4>1, Sizes
      <4>3. QED
        BY <4>2
    <3>2. mem[<<b.buf, b.offset \div Half + 0>>] = mem[<<buf_start, buf_old \div Half + 0>>]
      BY <1>4, <3>1 DEF Same
    <3>3. b.offset \div Half \in Int /\ buf_old \div Half \in Int
      <4>1. TypeOK
        BY DEF IInv
      <4>2. QED
        BY <1>2, <4>1, BlockIs, PointersAre, Sizes
    <3>4. b.offset \div Half + 0 = b.offset \div Half /\ buf_old \div Half + 0 = buf_old \div Half
      BY <3>3
    <3>5. QED
      BY <3>2, <3>4 DEF First, LastCell
  <2>2. mem[First(b)] = b.content /\ b.content # 0
    BY <1>2, BlockIs DEF Intact
  <2>3. PICK c \in live : IsLast(c)
    BY <1>2, <1>3, <2>1, <2>2 DEF Stacked
  <2>4. LastCell = First(c)
    BY <2>3 DEF IsLast, LastCell, First
  <2>5. mem[First(c)] = c.content
    BY <1>2 DEF Intact
  <2>6. c = b
    BY <1>1, <2>1, <2>2, <2>4, <2>5
  <2>7. QED
    BY <2>3, <2>6
<1>5. ASSUME IsLast(b) PROVE Same(b)
  BY <1>5 DEF IsLast, Same
<1>6. QED
  BY <1>4, <1>5

LEMMA NFreeStep ==
  ASSUME IInv, NEW b \in live, NFree(b)
  PROVE  IInv'
<1>1. /\ live' = live \ {b}
      /\ UNCHANGED <<buf_size, buf_start, other_buffers, buf_old, empty, freed, allocs, repeated>>
      /\ ~empty /\ (~twins' => ~twins)
  BY DEF NFree, buffers
<1>2. \/ /\ Same(b) /\ buf_cur' = buf_old
         /\ mem' = [a \in DOMAIN mem |->
                      IF a \in {buf_start} \X Slots(buf_old, AlignedSize(b.ssize))
                      THEN 0 ELSE mem[a]]
         /\ last_alloc_half' = HalfAfter(b.ssize)
      \/ ~Same(b) /\ UNCHANGED <<buf_cur, mem, last_alloc_half>>
  BY DEF NFree
<1>3. TypeOK /\ Pointers /\ live \subseteq Block /\ b \in Block
  BY DEF IInv, Pointers
<1>4. /\ mem \in [Buffer \X Slot -> Content \cup {0}] /\ DOMAIN mem = Buffer \X Slot
      /\ last_alloc_half \in BOOLEAN /\ buf_cur \in Nat /\ buf_old \in Int
      /\ Limit \in Nat /\ Limit' = Limit
  BY <1>1, <1>3, TypeIs, PointersAre DEF Limit
<1>5. buf_old # -1
  BY <1>3 DEF Pointers
<1>6. TypeOK'
  <2>1. mem' \in [Buffer \X Slot -> Content \cup {0}]
    BY <1>2, <1>4
  <2>2. last_alloc_half' \in BOOLEAN
    BY <1>2, <1>4 DEF HalfAfter
  <2>3. buf_cur' \in {Half * i : i \in Slot}
    <3>1. buf_cur \in {Half * i : i \in Slot} /\ buf_old \in {Half * i : i \in Slot}
      BY <1>3, <1>5, TypeIs
    <3>2. QED
      BY <1>2, <3>1
  <2>4. QED
    BY <1>1, <1>3, <2>1, <2>2, <2>3 DEF TypeOK
<1>7. Pointers'
  <2>1. buf_old <= buf_cur' /\ buf_cur' <= Limit
    BY <1>2, <1>3, <1>4 DEF Pointers
  <2>2. QED
    BY <1>1, <1>3, <1>4, <2>1 DEF Pointers, End
<1>8. ASSUME ~twins' PROVE Stacked' /\ Intact'
  <2>1. Stacked /\ Intact
    BY <1>1, <1>8 DEF IInv
  <2>2. Same(b) <=> IsLast(b)
    BY <1>8, SameIsLast
  <2>3. CASE Same(b)
    <3>1. b.buf = buf_start /\ b.offset = buf_old
      BY <2>2, <2>3 DEF IsLast
    <3>2. mem' = [a \in DOMAIN mem |-> IF a \in Cells(b) THEN 0 ELSE mem[a]]
      BY <1>2, <2>3, <3>1 DEF Cells
    <3>3. First(b) \in Cells(b) /\ LastCell = First(b) /\ First(b) \in Buffer \X Slot
      BY <1>3, <3>1, BlockIs DEF LastCell, First
    <3>4. mem'[LastCell] = 0 /\ LastCell' = LastCell
      BY <1>1, <1>4, <3>2, <3>3 DEF LastCell
    <3>5. buf_cur' = buf_old
      BY <1>2, <2>3
    <3>6. \A c \in live' : c.buf = buf_start => End(c) <= buf_old
      BY <1>1, <2>2, <2>3 DEF IsLast
    <3>7. Stacked'
      BY <1>1, <1>5, <3>4, <3>5, <3>6 DEF Stacked, End
    <3>8. ASSUME NEW c \in live' PROVE mem'[First(c)] = c.content
      <4>1. c \in live \ {b} /\ c \in Block
        BY <1>1, <1>3
      <4>2. First(c) \in Cells(c) /\ First(c) \in Buffer \X Slot
        BY <4>1, BlockIs
      <4>3. First(c) \notin Cells(b)
        BY <2>1, <4>1, <4>2 DEF Intact
      <4>4. mem[First(c)] = c.content
        BY <2>1, <4>1 DEF Intact
      <4>5. QED
        BY <1>4, <3>2, <4>2, <4>3, <4>4
    <3>9. Intact'
      BY <1>1, <2>1, <3>8 DEF Intact, First, Cells, Slots
    <3>10. QED
      BY <3>7, <3>9
  <2>4. CASE ~Same(b)
    <3>1. UNCHANGED <<buf_cur, mem, last_alloc_half>> /\ ~IsLast(b)
      BY <1>2, <2>2, <2>4
    <3>2. Intact'
      BY <1>1, <2>1, <3>1 DEF Intact, First, Cells, Slots
    <3>3. \A c \in live' : c.buf = buf_start' => End(c) <= buf_cur'
      BY <1>1, <2>1, <3>1 DEF Stacked
    <3>4. CASE \E c \in live : IsLast(c)
      <4>1. PICK c \in live : IsLast(c)
        BY <3>4
      <4>2. c \in live' /\ IsLast(c)'
        BY <1>1, <3>1, <4>1 DEF IsLast, End
      <4>3. QED
        BY ONLY <3>2, <3>3, <4>2 DEF Stacked, End
    <3>5. CASE buf_cur = buf_old /\ mem[LastCell] = 0
      <4>1. buf_old' # -1 /\ buf_cur' = buf_old' /\ mem'[LastCell'] = 0
        BY <1>1, <1>5, <3>1, <3>5 DEF LastCell
      <4>2. QED
        BY ONLY <3>2, <3>3, <4>1 DEF Stacked, End
    <3>6. QED
      BY <1>5, <2>1, <3>4, <3>5 DEF Stacked
  <2>5. QED
    BY <2>3, <2>4
<1>9. ASSUME ~twins', ~repeated PROVE Halves'
  <2>1. Halves
    BY <1>1, <1>9 DEF IInv
  <2>2. Same(b) <=> IsLast(b)
    BY <1>9, SameIsLast
  <2>3. \A c \in live' : c.ssize > Half => c.offset % CacheSize = 0
    BY <1>1, <2>1 DEF Halves
  <2>4. CASE Same(b)
    <3>1. b.buf = buf_start /\ b.offset = buf_old /\ buf_cur = End(b)
      BY <2>2, <2>4 DEF IsLast
    <3>2. buf_cur' = b.offset /\ last_alloc_half' = HalfAfter(b.ssize)
      BY <1>2, <2>4, <3>1
    <3>3. PICK i \in Nat : b.offset = 32 * i
      BY <1>3, BlockIs
    <3>4. ~last_alloc_half' /\ b.offset % 64 = 0
      <4>1. CASE b.ssize = Inode
        <5>1. buf_cur % 64 = 32
          BY <2>1, <2>2, <2>4, <4>1, Sizes DEF Halves
        <5>2. buf_cur = b.offset + 32
          BY <3>1, <4>1, Sizes DEF End
        <5>3. b.offset % 64 = 0
          BY <3>3, <5>1, <5>2
        <5>4. ~last_alloc_half'
          BY <3>2, <4>1, Sizes DEF HalfAfter
        <5>5. QED
          BY <5>3, <5>4
      <4>2. CASE b.ssize = Mnode
        <5>1. b.offset % 64 = 0
          BY <2>1, <4>2, Sizes DEF Halves
        <5>2. buf_cur = b.offset + 64
          BY <3>1, <4>2, Sizes DEF End
        <5>3. buf_cur % 64 = 0
          BY <3>3, <5>1, <5>2, Remainders
        <5>4. ~last_alloc_half
          BY <2>1, <5>3, Sizes DEF Halves
        <5>5. ~last_alloc_half'
          BY <3>2, <5>4 DEF HalfAfter
        <5>6. QED
          BY <5>1, <5>5
      <4>3. QED
        BY <1>3, <4>1, <4>2, BlockIs
    <3>5. last_alloc_half' <=> buf_cur' % CacheSize = Half
      BY <3>2, <3>4, Sizes
    <3>6. ASSUME NEW c \in live' PROVE ~IsLast(c)'
      <4>1. SUFFICES ASSUME IsLast(c)' PROVE FALSE
        OBVIOUS
      <4>2. c.offset = buf_old /\ buf_old = End(c)
        BY <1>1, <3>1, <3>2, <4>1 DEF IsLast, End
      <4>3. AlignedSize(c.ssize) \in {32, 64} /\ c.offset \in Nat
        BY <1>1, <1>3, BlockIs
      <4>4. QED
        BY <4>2, <4>3 DEF End
    <3>7. QED
      BY <2>3, <3>5, <3>6 DEF Halves
  <2>5. CASE ~Same(b)
    <3>1. UNCHANGED <<buf_cur, mem, last_alloc_half>> /\ ~IsLast(b)
      BY <1>2, <2>2, <2>5
    <3>2. ASSUME NEW c \in live', IsLast(c)' PROVE IsLast(c)
      <4>1. /\ c.buf = buf_start /\ c.offset = buf_old /\ buf_cur = End(c)
            /\ \A d \in live' \ {c} : d.buf = buf_start => End(d) <= buf_old
        BY <1>1, <3>1, <3>2 DEF IsLast, End
      <4>2. b.buf = buf_start => End(b) <= buf_old
        <5>1. SUFFICES ASSUME b.buf = buf_start PROVE End(b) <= buf_old
          OBVIOUS
        <5>3. Stacked
          BY <1>1, <1>9 DEF IInv
        <5>4. CASE \E e \in live : IsLast(e)
          BY <3>1, <5>1, <5>4 DEF IsLast
        <5>5. CASE buf_cur = buf_old
          BY <5>1, <5>3, <5>5 DEF Stacked
        <5>6. QED
          BY <1>5, <5>3, <5>4, <5>5 DEF Stacked
      <4>3. QED
        BY <1>1, <4>1, <4>2 DEF IsLast
    <3>3. QED
      BY <1>1, <2>1, <2>3, <3>1, <3>2 DEF Halves
  <2>6. QED
    BY <2>4, <2>5
<1>10. QED
  BY <1>1, <1>6, <1>7, <1>8, <1>9 DEF IInv
-----------------------------------------------------------------------------
(* nreset, and the invariant                                               *)

LEMMA NResetStep == ASSUME IInv, NReset PROVE IInv'
<1>1. /\ empty' = TRUE /\ live' = {}
      /\ UNCHANGED <<buf_size, buf_start, other_buffers, buf_cur, buf_old, last_alloc_half,
                     mem, allocs>>
  BY DEF NReset, buffers
<1>2. TypeOK /\ Pointers
  BY DEF IInv
<1>3. TypeOK'
  <2>1. freed' \in Seq(Buffer)
    <3>1. other_buffers \in Seq(Buffer) /\ buf_start \in Buffer
      BY <1>2, TypeIs
    <3>2. PICK n \in Nat : n = Len(other_buffers)
      BY <3>1
    <3>3. PICK s : s = [i \in 1 .. n |-> other_buffers[n + 1 - i]]
      OBVIOUS
    <3>4. \A i \in 1 .. n : s[i] \in Buffer
      <4>1. \A i \in 1 .. n : other_buffers[i] \in Buffer
        BY <3>1, <3>2
      <4>2. \A i \in 1 .. n : n + 1 - i \in 1 .. n
        BY <3>2
      <4>3. QED
        BY <3>3, <4>1, <4>2
    <3>5. s \in Seq(Buffer)
      BY <3>2, <3>3, <3>4
    <3>6. Append(s, buf_start) \in Seq(Buffer)
      BY <3>1, <3>5
    <3>7. freed' = Append(s, buf_start)
      BY <3>2, <3>3 DEF NReset
    <3>8. QED
      BY <3>6, <3>7
  <2>2. QED
    BY <1>1, <1>2, <2>1 DEF TypeOK
<1>4. Pointers'
  BY <1>1, <1>2 DEF Pointers, Limit
<1>5. QED
  BY <1>1, <1>3, <1>4 DEF IInv

LEMMA StutterStep == ASSUME IInv, UNCHANGED vars PROVE IInv'
<1> USE DEF vars, buffers, history
<1>1. TypeOK' /\ Pointers'
  BY DEF IInv, TypeOK, Pointers, Limit, End
<1>2. UNCHANGED <<twins, empty, repeated>>
  OBVIOUS
<1>3. Stacked /\ Intact => Stacked' /\ Intact'
  BY DEF Stacked, Intact, IsLast, LastCell, End, First, Cells, Slots
<1>4. Halves => Halves'
  BY DEF Halves, IsLast, End
<1>5. QED
  BY <1>1, <1>2, <1>3, <1>4 DEF IInv

LEMMA StepInv == ASSUME IInv, [Next]_vars PROVE IInv'
<1>1. CASE Next
  <2>1. ASSUME NEW ssize \in {Inode, Mnode}, NEW c \in Content, NAlloc(ssize, c) PROVE IInv'
    BY <2>1, NAllocStep
  <2>2. ASSUME NEW b \in live, NFree(b) PROVE IInv'
    BY <2>2, NFreeStep
  <2>3. ASSUME NEW b \in live, NEW c \in Content, Write(b, c) PROVE IInv'
    BY <2>3, WriteStep
  <2>4. CASE NReset
    BY <2>4, NResetStep
  <2>5. QED
    BY <1>1, <2>1, <2>2, <2>3, <2>4 DEF Next
<1>2. CASE UNCHANGED vars
  BY <1>2, StutterStep
<1>3. QED
  BY <1>1, <1>2

\* The pointers stay in order and the blocks in use before them, unless a block
\* was taken for another: nalloc, nfree, nreset and the stores of the owners.
THEOREM Invariant == Spec => []IInv
<1>1. Init => IInv
  BY InitInv
<1>2. IInv /\ [Next]_vars => IInv'
  BY StepInv
<1>3. QED
  BY <1>1, <1>2, PTL DEF Spec

\* No two blocks in use overlap, and each holds what its owner wrote, unless
\* the memcmp of nfree has met two blocks with the same contents.
THEOREM BlocksIntact == Spec => []LiveBlocksIntact
<1>1. IInv => LiveBlocksIntact
  <2> SUFFICES ASSUME IInv, ~twins PROVE LiveBlocksIntact
    BY DEF LiveBlocksIntact
  <2>1. CASE empty
    BY <2>1 DEF IInv, Pointers, LiveBlocksIntact
  <2>2. CASE ~empty
    BY <2>2 DEF IInv, Intact, First, LiveBlocksIntact
  <2>3. QED
    BY <2>1, <2>2
<1>2. QED
  BY <1>1, Invariant, PTL

\* A block in use lies inside a buffer that nreset has yet to give back.
THEOREM InsideBuffers == Spec => []WithinBuffer
<1>1. IInv => WithinBuffer
  <2> SUFFICES ASSUME IInv PROVE WithinBuffer
    OBVIOUS
  <2>1. TypeOK /\ Pointers
    BY DEF IInv
  <2>2. ASSUME buf_size > 0, NEW b \in live
        PROVE  /\ b.offset + AlignedSize(b.ssize) <= buf_size
               /\ b.buf = buf_start \/ \E i \in DOMAIN other_buffers : other_buffers[i] = b.buf
    <3>1. b \in Block /\ b.buf <= buf_start /\ End(b) <= buf_size
      BY <2>1, <2>2 DEF Pointers, Limit
    <3>2. /\ other_buffers \in Seq(Buffer) /\ Len(other_buffers) = buf_start - 1
          /\ \A i \in DOMAIN other_buffers : other_buffers[i] = i
      BY <2>1, TypeIs DEF Pointers
    <3>3. b.buf \in Nat \ {0} /\ buf_start \in Nat
      <4>1. b.buf \in Buffer /\ b.buf \in Nat /\ buf_start \in Nat
        BY <2>1, <3>1, BlockIs, PointersAre
      <4>2. b.buf # 0
        BY <4>1, BoundAssumption DEF Buffer
      <4>3. QED
        BY <4>1, <4>2
    <3>4. b.buf # buf_start => b.buf \in DOMAIN other_buffers
      BY <3>1, <3>2, <3>3
    <3>5. QED
      BY <3>1, <3>2, <3>4 DEF End
  <2>3. QED
    BY <2>1, <2>2 DEF WithinBuffer
<1>2. QED
  BY <1>1, Invariant, PTL

\* An mnode begins at a line of the cache as long as no two inodes were asked
\* for in a row and no block was taken for another.
THEOREM NoSpill == Spec => []NoSpillUnlessRepeated
<1>1. IInv => NoSpillUnlessRepeated
  <2> SUFFICES ASSUME IInv, ~repeated, ~twins PROVE NoSpillUnlessRepeated
    BY DEF NoSpillUnlessRepeated
  <2>1. CASE empty
    BY <2>1 DEF IInv, Pointers, NoSpillUnlessRepeated
  <2>2. CASE ~empty
    BY <2>2 DEF IInv, Halves, NoSpillUnlessRepeated
  <2>3. QED
    BY <2>1, <2>2
<1>2. QED
  BY <1>1, Invariant, PTL
=============================================================================
