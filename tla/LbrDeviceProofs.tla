--------------------------- MODULE LbrDeviceProofs ---------------------------
(***************************************************************************)
(* The device, for any number of CPUs, clients and ioctls, any size of the *)
(* ring and of the records.  First, why kernel branches do not turn up     *)
(* within a program's trail: theorem KernelEntriesStayOldest.  Then what a *)
(* client gets from the device: the types of the state, for any clients;   *)
(* and for one client at a time the absence of invalid accesses, the trail *)
(* it reads and the branch it measures.                                    *)
(***************************************************************************)
EXTENDS LbrDevice, FiniteSetTheorems, WellFoundedInduction, TLAPS

\* CPUs a thread can be bound to, as all_enable_LBR picks them.
Picked == {First(S) : S \in SUBSET ThreadCPUs} \cup ThreadCPUs
ThreadRecords == [cpu : Picked, st : {"new", "ready", "select", "gone"}]
RingRecords == [cpu : CPUs, n : Int, from : Froms]

HardwareTypes ==
  /\ ring \in [CPUs -> [Slots -> RingRecords]]
  /\ tos \in [CPUs -> Slots]
  /\ on \in [CPUs -> BOOLEAN]
  /\ select \in [CPUs -> {0, 1}]
  /\ count \in [CPUs -> Nat]
ThreadTypes == threads \in Seq(ThreadRecords)
TodoTypes == todo \in [Clients -> SUBSET ThreadCPUs]

\* Records are numbered in the order they are made.
NumbersUpToCount == \A c \in CPUs : \A s \in Slots : ring[c][s].n <= count[c]
\* A CPU records without the filter only between the two steps of enable_LBR.
Filtering(c) == \E t \in DOMAIN threads : threads[t].cpu = c /\ threads[t].st = "select"
UnfilteredOnlyInThread == \A c \in CPUs : on[c] /\ select[c] = 0 => Filtering(c)
\* No program's branch is recorded before the filter is set.
NoProgramBeforeFilter ==
  \A c \in CPUs : select[c] = 0 => \A s \in Slots : ring[c][s].from \notin {"src", "other"}

HardwareInvariant ==
  /\ HardwareTypes /\ NumbersUpToCount /\ NoProgramBeforeFilter /\ KernelEntriesOldest
ThreadInvariant == ThreadTypes /\ TodoTypes /\ UnfilteredOnlyInThread
FilterInvariant == HardwareInvariant /\ ThreadInvariant

-----------------------------------------------------------------------------
\* Register numbers stay within the ring.
LEMMA ModInSlots ==
  ASSUME NEW a \in Int
  PROVE  (a % Count) \in Nat /\ (a % Count) \in Slots
<1>1. Count \in Int /\ Count > 0
  BY CountAssumption
<1>2. a % Count \in 0 .. Count - 1
  BY <1>1
<1> QED
  BY <1>1, <1>2 DEF Slots

\* start_function: old records only, nothing recorded yet.
LEMMA InitFilter == Init => FilterInvariant
<1> SUFFICES ASSUME Init PROVE FilterInvariant
  OBVIOUS
<1>0. Slots \subseteq Nat /\ Count \in Nat \ {0}
  BY CountAssumption DEF Slots
<1>1. HardwareTypes
  <2>1. tos \in [CPUs -> Slots]
    BY DEF Init
  <2>2. \A c \in CPUs : \A s \in Slots : -((tos[c] - s) % Count) \in Int
    <3> SUFFICES ASSUME NEW c \in CPUs, NEW s \in Slots PROVE -((tos[c] - s) % Count) \in Int
      OBVIOUS
    <3>1. tos[c] \in Int /\ s \in Int
      BY <1>0, <2>1 DEF Slots
    <3>3. tos[c] - s \in Int
      BY <3>1
    <3>2. (tos[c] - s) % Count \in Nat
      BY <3>3, ModInSlots
    <3> QED
      BY <3>2
  <2>3. ring \in [CPUs -> [Slots -> RingRecords]]
    BY <2>2 DEF Init, Entry, RingRecords, Froms
  <2> QED
    BY <2>1, <2>3 DEF Init, HardwareTypes
<1>2. NumbersUpToCount
  <2> SUFFICES ASSUME NEW c \in CPUs, NEW s \in Slots PROVE ring[c][s].n <= count[c]
    BY DEF NumbersUpToCount
  <2>0. tos[c] \in Int /\ s \in Int
    BY <1>0, <1>1 DEF HardwareTypes, Slots
  <2>1. tos[c] - s \in Int
    BY <2>0
  <2>2. (tos[c] - s) % Count \in Nat
    BY <2>1, ModInSlots
  <2>3. ring[c][s].n = -((tos[c] - s) % Count) /\ count[c] = 0
    BY DEF Init, Entry
  <2> QED
    BY <2>2, <2>3
<1>3. NoProgramBeforeFilter /\ KernelEntriesOldest
  <2>1. \A c \in CPUs : \A s \in Slots : ring[c][s].from = "old"
    BY DEF Init, Entry
  <2> QED
    BY <2>1 DEF NoProgramBeforeFilter, KernelEntriesOldest
<1>4. ThreadTypes
  <2>1. PICK order \in [1 .. Cardinality(ThreadCPUs) -> ThreadCPUs] :
          threads = [t \in DOMAIN order |-> [cpu |-> order[t], st |-> "ready"]]
    BY DEF Init
  <2>2. Cardinality(ThreadCPUs) \in Nat
    BY CPUAssumption, FS_CardinalityType
  <2>3. threads \in [1 .. Cardinality(ThreadCPUs) -> ThreadRecords]
    BY <2>1 DEF ThreadRecords, Picked
  <2> QED
    BY <2>2, <2>3 DEF ThreadTypes
<1>5. TodoTypes /\ UnfilteredOnlyInThread
  BY DEF Init, TodoTypes, UnfilteredOnlyInThread
<1> QED
  BY <1>1, <1>2, <1>3, <1>4, <1>5
  DEF FilterInvariant, HardwareInvariant, ThreadInvariant

-----------------------------------------------------------------------------
\* Steps that leave a part alone.
LEMMA HardwareFrame ==
  ASSUME HardwareInvariant, UNCHANGED <<ring, tos, select, count>>, on' \in [CPUs -> BOOLEAN]
  PROVE  HardwareInvariant'
BY DEF HardwareInvariant, HardwareTypes, NumbersUpToCount, NoProgramBeforeFilter, KernelEntriesOldest

LEMMA ThreadFrame ==
  ASSUME ThreadInvariant, UNCHANGED <<on, select, threads>>, TodoTypes'
  PROVE  ThreadInvariant'
BY DEF ThreadInvariant, ThreadTypes, UnfilteredOnlyInThread, Filtering

LEMMA OtherFrame ==
  ASSUME FilterInvariant, UNCHANGED <<hwVars, threads>>, TodoTypes'
  PROVE  FilterInvariant'
<1>1. HardwareInvariant'
  BY HardwareFrame DEF FilterInvariant, HardwareInvariant, HardwareTypes, hwVars
<1>2. ThreadInvariant'
  BY ThreadFrame DEF FilterInvariant, hwVars
<1> QED
  BY <1>1, <1>2 DEF FilterInvariant

\* The processor makes a record: by the kernel, before the filter is set, or
\* by a program, after it is.
LEMMA RecordFilter ==
  ASSUME FilterInvariant, NEW c \in CPUs, NEW from \in {"kernel", "src", "other"},
         Record(c, from), from = "kernel" <=> select[c] = 0
  PROVE  FilterInvariant'
<1> DEFINE r == (tos[c] + 1) % Count
           e == Entry(c, count[c] + 1, from)
<1>0. HardwareTypes /\ NumbersUpToCount /\ NoProgramBeforeFilter /\ KernelEntriesOldest
  BY DEF FilterInvariant, HardwareInvariant
<1>1. r \in Slots
  <2>1. tos[c] \in Int
    BY <1>0, CountAssumption DEF HardwareTypes, Slots
  <2> QED
    BY <2>1, ModInSlots
<1>2. e \in RingRecords /\ e.n = count[c] + 1 /\ e.from = from /\ count[c] \in Nat
  <2>1. count[c] \in Nat
    BY <1>0 DEF HardwareTypes
  <2>2. count[c] + 1 \in Int
    BY <2>1
  <2> QED
    BY <2>1, <2>2 DEF Entry, RingRecords, Froms
<1>3. /\ ring' = [ring EXCEPT ![c][r] = e]
      /\ count' = [count EXCEPT ![c] = @ + 1]
      /\ tos' = [tos EXCEPT ![c] = r]
      /\ UNCHANGED <<on, select, threads, todo>>
  BY DEF Record, threadVars
<1>4. ASSUME NEW d \in CPUs, NEW s \in Slots
      PROVE  ring'[d][s] = IF d = c /\ s = r THEN e ELSE ring[d][s]
  BY <1>0, <1>1, <1>3 DEF HardwareTypes
<1>5. HardwareTypes'
  <2>1. ring' \in [CPUs -> [Slots -> RingRecords]]
    BY <1>0, <1>1, <1>2, <1>3 DEF HardwareTypes
  <2>2. count' \in [CPUs -> Nat] /\ tos' \in [CPUs -> Slots]
    BY <1>0, <1>1, <1>3 DEF HardwareTypes
  <2> QED
    BY <1>0, <1>3, <2>1, <2>2 DEF HardwareTypes
<1>6. ASSUME NEW d \in CPUs
      PROVE  count'[d] = IF d = c THEN count[d] + 1 ELSE count[d]
  BY <1>0, <1>3 DEF HardwareTypes
<1>7. ASSUME NEW d \in CPUs, NEW s \in Slots
      PROVE  ring[d][s].n \in Int /\ ring[d][s].n <= count[d] /\ count[d] \in Nat
  BY <1>0 DEF HardwareTypes, NumbersUpToCount, RingRecords
<1>8. NumbersUpToCount'
  BY <1>2, <1>4, <1>6, <1>7 DEF NumbersUpToCount
<1>9. NoProgramBeforeFilter'
  BY <1>0, <1>2, <1>3, <1>4 DEF NoProgramBeforeFilter
<1>10. KernelEntriesOldest'
  <2> SUFFICES ASSUME NEW d \in CPUs, NEW s \in Slots, NEW t \in Slots,
                      ring'[d][s].from = "kernel", ring'[d][t].from \in {"src", "other"}
               PROVE  ring'[d][s].n < ring'[d][t].n
    BY DEF KernelEntriesOldest
  <2>1. CASE d # c \/ (s # r /\ t # r)
    BY <1>0, <1>4, <2>1 DEF KernelEntriesOldest
  <2>2. CASE d = c /\ s = r
    <3>1. from = "kernel"
      BY <1>2, <1>4, <2>2
    <3>2. ring'[d][t] = ring[d][t]
      BY <1>2, <1>4, <2>2, <3>1
    <3>3. ring[d][t].from \notin {"src", "other"}
      BY <1>0, <2>2, <3>1 DEF NoProgramBeforeFilter
    <3> QED
      BY <3>2, <3>3
  <2>3. CASE d = c /\ t = r /\ s # r
    BY <1>2, <1>4, <1>7, <2>3
  <2> QED
    BY <2>1, <2>2, <2>3
<1>11. ThreadInvariant'
  <2>1. ThreadInvariant /\ TodoTypes'
    BY <1>3 DEF FilterInvariant, ThreadInvariant, TodoTypes
  <2> QED
    BY <1>3, <2>1, ThreadFrame
<1> QED
  BY <1>5, <1>8, <1>9, <1>10, <1>11 DEF FilterInvariant, HardwareInvariant

LEMMA UserBranchFilter ==
  ASSUME FilterInvariant, NEW c \in CPUs, UserBranch(c)
  PROVE  FilterInvariant'
<1>1. PICK from \in {"src", "other"} : Record(c, from)
  BY DEF UserBranch
<1>2. ~Filtering(c)
  BY DEF UserBranch, Free, Filtering
<1>3. select[c] # 0
  BY <1>1, <1>2 DEF Record, FilterInvariant, ThreadInvariant, UnfilteredOnlyInThread
<1> QED
  BY <1>1, <1>3, RecordFilter

LEMMA KernelBranchFilter ==
  ASSUME FilterInvariant, NEW c \in CPUs, KernelBranch(c)
  PROVE  FilterInvariant'
BY RecordFilter DEF KernelBranch

\* An ioctl only switches off.
LEMMA IoctlFilter ==
  ASSUME FilterInvariant, NEW p \in Clients, Ioctl(p)
  PROVE  FilterInvariant'
<1>0. on \in [CPUs -> BOOLEAN]
  BY DEF FilterInvariant, HardwareInvariant, HardwareTypes
<1>1. /\ on' = [on EXCEPT ![cpu[p]] = FALSE]
      /\ UNCHANGED <<ring, tos, select, count, threads, todo>>
  BY DEF Ioctl, threadVars
<1>2. on' \in [CPUs -> BOOLEAN] /\ \A c \in CPUs : on'[c] => on[c]
  BY <1>0, <1>1
<1>3. HardwareInvariant'
  BY <1>1, <1>2, HardwareFrame DEF FilterInvariant
<1>4. ThreadInvariant'
  BY <1>1, <1>2
  DEF FilterInvariant, ThreadInvariant, ThreadTypes, TodoTypes, UnfilteredOnlyInThread, Filtering
<1> QED
  BY <1>3, <1>4 DEF FilterInvariant

-----------------------------------------------------------------------------
\* Threads: what matters is only who is between the two steps of enable_LBR.
LEMMA SetStateType ==
  ASSUME NEW q \in Seq(ThreadRecords), NEW t, NEW st \in {"new", "ready", "select", "gone"}
  PROVE  /\ [q EXCEPT ![t].st = st] \in Seq(ThreadRecords)
         /\ DOMAIN [q EXCEPT ![t].st = st] = DOMAIN q
         /\ \A u \in DOMAIN q : /\ [q EXCEPT ![t].st = st][u].cpu = q[u].cpu
                                /\ [q EXCEPT ![t].st = st][u].st = IF u = t THEN st ELSE q[u].st
<1>1. q \in [1 .. Len(q) -> ThreadRecords] /\ Len(q) \in Nat /\ DOMAIN q = 1 .. Len(q)
  OBVIOUS
<1>2. [q EXCEPT ![t].st = st] \in [1 .. Len(q) -> ThreadRecords]
  BY <1>1 DEF ThreadRecords
<1>3. [q EXCEPT ![t].st = st] \in Seq(ThreadRecords)
  BY <1>1, <1>2
<1>4. ASSUME NEW u \in DOMAIN q
      PROVE  /\ [q EXCEPT ![t].st = st][u].cpu = q[u].cpu
             /\ [q EXCEPT ![t].st = st][u].st = IF u = t THEN st ELSE q[u].st
  BY <1>1 DEF ThreadRecords
<1> QED
  BY <1>1, <1>2, <1>3, <1>4

LEMMA CreateThreadFilter ==
  ASSUME FilterInvariant, NEW p \in Clients, CreateThread(p)
  PROVE  FilterInvariant'
<1> DEFINE c == First(todo[p])
           new == [cpu |-> c, st |-> "new"]
<1>0. ThreadTypes /\ TodoTypes /\ UnfilteredOnlyInThread /\ HardwareInvariant
  BY DEF FilterInvariant, ThreadInvariant
<1>1. /\ threads' = Append(threads, new)
      /\ todo' = [todo EXCEPT ![p] = IF @ = {c} THEN ThreadCPUs ELSE @ \ {c}]
      /\ UNCHANGED <<ring, tos, on, select, count>>
  BY DEF CreateThread, hwVars
<1>2. new \in ThreadRecords
  BY <1>0 DEF TodoTypes, ThreadRecords, Picked
<1>3. ThreadTypes'
  BY <1>0, <1>1, <1>2 DEF ThreadTypes
<1>4. TodoTypes'
  BY <1>0, <1>1 DEF TodoTypes
<1>5. \A t \in DOMAIN threads : t \in DOMAIN threads' /\ threads'[t] = threads[t]
  BY <1>0, <1>1, <1>2 DEF ThreadTypes
<1>6. UnfilteredOnlyInThread'
  BY <1>0, <1>1, <1>5 DEF UnfilteredOnlyInThread, Filtering
<1>7. HardwareInvariant'
  BY <1>0, <1>1, HardwareFrame DEF HardwareInvariant, HardwareTypes
<1> QED
  BY <1>3, <1>4, <1>6, <1>7 DEF FilterInvariant, ThreadInvariant

LEMMA WakeThreadFilter ==
  ASSUME FilterInvariant, NEW p \in Clients, WakeThread(p)
  PROVE  FilterInvariant'
<1> DEFINE t == ts[First(todo[p])]
<1>0. ThreadTypes /\ TodoTypes /\ UnfilteredOnlyInThread /\ HardwareInvariant
  BY DEF FilterInvariant, ThreadInvariant
<1>1. /\ todo' = [todo EXCEPT ![p] = @ \ {First(todo[p])}]
      /\ UNCHANGED <<ring, tos, on, select, count>>
  BY DEF WakeThread, hwVars
<1>2. \/ UNCHANGED threads
      \/ threads' = [threads EXCEPT ![t].st = "ready"] /\ threads[t].st = "new"
  BY DEF WakeThread
<1>3. TodoTypes'
  BY <1>0, <1>1 DEF TodoTypes
<1>4. ThreadTypes' /\ DOMAIN threads' = DOMAIN threads
  <2>1. CASE UNCHANGED threads
    BY <1>0, <2>1 DEF ThreadTypes
  <2>2. CASE threads' = [threads EXCEPT ![t].st = "ready"]
    <3>1. threads \in Seq(ThreadRecords)
      BY <1>0 DEF ThreadTypes
    <3>2. /\ [threads EXCEPT ![t].st = "ready"] \in Seq(ThreadRecords)
          /\ DOMAIN [threads EXCEPT ![t].st = "ready"] = DOMAIN threads
      BY <3>1, SetStateType
    <3> QED
      BY <2>2, <3>2 DEF ThreadTypes
  <2> QED
    BY <1>2, <2>1, <2>2
<1>5. \A u \in DOMAIN threads : threads[u].st = "select" =>
        threads'[u].st = "select" /\ threads'[u].cpu = threads[u].cpu
  BY <1>0, <1>2, SetStateType DEF ThreadTypes
<1>6. UnfilteredOnlyInThread'
  BY <1>0, <1>1, <1>4, <1>5 DEF UnfilteredOnlyInThread, Filtering
<1>7. HardwareInvariant'
  BY <1>0, <1>1, HardwareFrame DEF HardwareInvariant, HardwareTypes
<1> QED
  BY <1>3, <1>4, <1>6, <1>7 DEF FilterInvariant, ThreadInvariant

LEMMA EnableFilter ==
  ASSUME FilterInvariant, NEW t \in DOMAIN threads, EnableLBR(t)
  PROVE  FilterInvariant'
<1>0. ThreadTypes /\ TodoTypes /\ UnfilteredOnlyInThread /\ HardwareInvariant
  BY DEF FilterInvariant, ThreadInvariant
<1>1. /\ threads[t].st = "ready"
      /\ on' = [on EXCEPT ![threads[t].cpu] = TRUE]
      /\ threads' = [threads EXCEPT ![t].st = "select"]
      /\ UNCHANGED <<ring, tos, select, count, todo>>
  BY DEF EnableLBR
<1>2. on \in [CPUs -> BOOLEAN]
  BY <1>0 DEF HardwareInvariant, HardwareTypes
<1>3. on' \in [CPUs -> BOOLEAN] /\ \A c \in CPUs : on'[c] => on[c] \/ c = threads[t].cpu
  BY <1>1, <1>2
<1>4. ThreadTypes' /\ DOMAIN threads' = DOMAIN threads
  BY <1>0, <1>1, SetStateType DEF ThreadTypes
<1>5. \A u \in DOMAIN threads :
        /\ threads'[u].cpu = threads[u].cpu
        /\ threads[u].st = "select" \/ u = t => threads'[u].st = "select"
  BY <1>0, <1>1, SetStateType DEF ThreadTypes
<1>6. UnfilteredOnlyInThread'
  BY <1>0, <1>1, <1>3, <1>4, <1>5 DEF UnfilteredOnlyInThread, Filtering
<1>7. HardwareInvariant'
  BY <1>0, <1>1, <1>3, HardwareFrame
<1>8. TodoTypes'
  BY <1>0, <1>1 DEF TodoTypes
<1> QED
  BY <1>4, <1>6, <1>7, <1>8 DEF FilterInvariant, ThreadInvariant

LEMMA FilterFilter ==
  ASSUME FilterInvariant, NEW t \in DOMAIN threads, FilterLBR(t)
  PROVE  FilterInvariant'
<1>0. ThreadTypes /\ TodoTypes /\ UnfilteredOnlyInThread /\ HardwareInvariant
  BY DEF FilterInvariant, ThreadInvariant
<1>1. /\ select' = [select EXCEPT ![threads[t].cpu] = 1]
      /\ threads' = [threads EXCEPT ![t].st = "gone"]
      /\ UNCHANGED <<ring, tos, on, count, todo>>
  BY DEF FilterLBR
<1>2. HardwareTypes
  BY <1>0 DEF HardwareInvariant
<1>3. select' \in [CPUs -> {0, 1}]
  BY <1>1, <1>2 DEF HardwareTypes
<1>4. \A c \in CPUs : select'[c] = 0 => select[c] = 0 /\ c # threads[t].cpu
  BY <1>1, <1>2 DEF HardwareTypes
<1>5. ThreadTypes' /\ DOMAIN threads' = DOMAIN threads
  BY <1>0, <1>1, SetStateType DEF ThreadTypes
<1>6. \A u \in DOMAIN threads :
        /\ threads'[u].cpu = threads[u].cpu
        /\ u # t => threads'[u].st = threads[u].st
  BY <1>0, <1>1, SetStateType DEF ThreadTypes
<1>7. UnfilteredOnlyInThread'
  BY <1>0, <1>1, <1>4, <1>5, <1>6 DEF UnfilteredOnlyInThread, Filtering
<1>8. HardwareInvariant'
  BY <1>0, <1>1, <1>3, <1>4
  DEF HardwareInvariant, HardwareTypes, NumbersUpToCount, NoProgramBeforeFilter, KernelEntriesOldest
<1>9. TodoTypes'
  BY <1>0, <1>1 DEF TodoTypes
<1> QED
  BY <1>5, <1>7, <1>8, <1>9 DEF FilterInvariant, ThreadInvariant

-----------------------------------------------------------------------------
\* Everything else a client does leaves the CPUs and the threads alone.
LEMMA ClientFilter ==
  ASSUME FilterInvariant, NEW p \in Clients,
         \/ ReadTos(p) \/ ReadNext(p) \/ ResetIndex(p) \/ CreateFails(p)
         \/ TestIndex(p) \/ CopyByte(p) \/ CopyFromNull(p)
         \/ ReadRecord(p) \/ OtherRead(p) \/ Measure(p) \/ NextRound(p) \/ Migrate(p)
  PROVE  FilterInvariant'
<1>0. TodoTypes
  BY DEF FilterInvariant, ThreadInvariant
<1>1. UNCHANGED <<hwVars, threads>>
  BY DEF ReadTos, ReadNext, ResetIndex, CreateFails, TestIndex, CopyByte, CopyFromNull,
         ReadRecord, OtherRead, ReadCall, Measure, NextRound, Migrate, threadVars
<1>2. UNCHANGED todo \/ todo' = [todo EXCEPT ![p] = ThreadCPUs]
  BY DEF ReadTos, ReadNext, ResetIndex, CreateFails, TestIndex, CopyByte, CopyFromNull,
         ReadRecord, OtherRead, ReadCall, Measure, NextRound, Migrate
<1>3. TodoTypes'
  BY <1>0, <1>2 DEF TodoTypes
<1> QED
  BY <1>1, <1>3, OtherFrame

LEMMA NextFilter ==
  ASSUME FilterInvariant, [Next]_vars
  PROVE  FilterInvariant'
<1>1. ASSUME NEW p \in Clients, KernelStep(p) \/ ClientStep(p) \/ Migrate(p)
      PROVE  FilterInvariant'
  BY <1>1, ClientFilter, CreateThreadFilter, WakeThreadFilter, IoctlFilter
  DEF KernelStep, ClientStep
<1>2. ASSUME NEW t \in DOMAIN threads, ThreadStep(t)
      PROVE  FilterInvariant'
  BY <1>2, EnableFilter, FilterFilter DEF ThreadStep
<1>3. ASSUME NEW c \in CPUs, CpuStep(c)
      PROVE  FilterInvariant'
  BY <1>3, UserBranchFilter, KernelBranchFilter DEF CpuStep
<1>4. CASE UNCHANGED vars
  BY <1>4, OtherFrame DEF vars, threadVars, FilterInvariant, ThreadInvariant, TodoTypes
<1> QED
  BY <1>1, <1>2, <1>3, <1>4 DEF Next

(***************************************************************************)
(* enable_LBR switches a CPU's recording on before it sets the filter, and *)
(* the filter is never taken away: whatever the kernel has recorded is     *)
(* older than every program's branch on record.                            *)
(***************************************************************************)
THEOREM KernelEntriesStayOldest == Spec => []KernelEntriesOldest
<1>1. FilterInvariant => KernelEntriesOldest
  BY DEF FilterInvariant, HardwareInvariant
<1> QED
  BY InitFilter, NextFilter, <1>1, PTL DEF Spec

-----------------------------------------------------------------------------
(***************************************************************************)
(* Arithmetic.                                                             *)
(***************************************************************************)
LEMMA LeastElement ==
  ASSUME NEW S \in SUBSET Nat, S # {}
  PROVE  \E x \in S : \A y \in S : x <= y
<1> DEFINE R == {ss \in Nat \X Nat : ss[1] < ss[2]}
<1>1. IsWellFoundedOn(R, Nat)
  BY NatLessThanWellFounded DEF OpToRel
<1>2. PICK x \in S : \A y \in S : ~(<<y, x>> \in R)
  <2> HIDE DEF R
  <2> QED
    BY <1>1, WFMin
<1>3. ASSUME NEW y \in S PROVE x <= y
  <2>1. ~(<<y, x>> \in {ss \in Nat \X Nat : ss[1] < ss[2]})
    BY <1>2
  <2>2. <<y, x>>[1] = y /\ <<y, x>>[2] = x /\ <<y, x>> \in Nat \X Nat
    OBVIOUS
  <2>3. ~(y < x)
    BY <2>1, <2>2
  <2> QED
    BY <2>3
<1> QED
  BY <1>3

\* The CPU all_enable_LBR serves next.
LEMMA FirstIn == \A S \in SUBSET ThreadCPUs : S # {} => First(S) \in S
<1> SUFFICES ASSUME NEW S \in SUBSET ThreadCPUs, S # {} PROVE First(S) \in S
  OBVIOUS
<1>1. S \in SUBSET Nat
  BY CPUAssumption
<1>2. \E c \in S : \A d \in S : c <= d
  BY <1>1, LeastElement
<1> QED
  BY <1>2 DEF First

\* The record searched for: the last of some.
LEMMA LastIn ==
  ASSUME NEW S \in SUBSET Slots, S # {}
  PROVE  \E x \in S : \A y \in S : y <= x
<1> DEFINE T == {Count - y : y \in S}
<1>0. Count \in Nat /\ \A y \in S : y \in Nat /\ Count - y \in Nat
  BY CountAssumption DEF Slots
<1>1. T \in SUBSET Nat /\ T # {}
  BY <1>0
<1>2. PICK t \in T : \A u \in T : t <= u
  <2> HIDE DEF T
  <2> QED
    BY <1>1, LeastElement
<1>3. PICK x \in S : t = Count - x
  BY <1>2
<1>4. ASSUME NEW y \in S PROVE y <= x
  <2>1. Count - y \in T
    OBVIOUS
  <2>2. Count - x <= Count - y
    BY <1>2, <1>3, <2>1
  <2>3. x \in Nat /\ y \in Nat /\ Count \in Nat
    BY <1>0
  <2> HIDE DEF T
  <2> QED
    BY <2>2, <2>3
<1> QED
  BY <1>4

\* Register numbers: the next one, and how long ago register s was written.
Succ(t) == IF t + 1 = Count THEN 0 ELSE t + 1
Age(t, s) == IF s <= t THEN t - s ELSE t - s + Count

LEMMA SuccIs == \A t \in Slots : (t + 1) % Count = Succ(t) /\ Succ(t) \in Slots
<1> SUFFICES ASSUME NEW t \in Slots PROVE (t + 1) % Count = Succ(t) /\ Succ(t) \in Slots
  OBVIOUS
<1>1. Count \in Nat /\ Count > 0 /\ t \in Nat /\ t < Count
  BY CountAssumption DEF Slots
<1>2. t + 1 < Count => (t + 1) % Count = t + 1
  BY <1>1
<1>3. Count % Count = 0
  BY <1>1
<1> QED
  BY <1>1, <1>2, <1>3 DEF Succ, Slots

LEMMA AgeIs == \A t, s \in Slots : (t - s) % Count = Age(t, s) /\ Age(t, s) \in Slots
<1> SUFFICES ASSUME NEW t \in Slots, NEW s \in Slots PROVE (t - s) % Count = Age(t, s) /\ Age(t, s) \in Slots
  OBVIOUS
<1>1. Count \in Nat /\ Count > 0 /\ t \in Nat /\ t < Count /\ s \in Nat /\ s < Count
  BY CountAssumption DEF Slots
<1>2. s <= t => (t - s) % Count = t - s
  BY <1>1
<1>3. s > t => (t - s) % Count = t - s + Count
  BY <1>1
<1> QED
  BY <1>1, <1>2, <1>3 DEF Age, Slots

\* Byte positions.
LEMMA RecordOf ==
  ASSUME NEW b \in 0 .. Size - 1
  PROVE  b \div RecordSize \in Slots /\ b % RecordSize \in 0 .. RecordSize - 1
<1>1. Count \in Nat /\ RecordSize \in Nat /\ RecordSize > 0 /\ Count > 0
  BY CountAssumption
<1>2. b \in Nat /\ b < Count * RecordSize
  BY <1>1 DEF Size
<1>3. PICK q \in Nat, r \in 0 .. RecordSize - 1 : b = q * RecordSize + r /\ q = b \div RecordSize /\ r = b % RecordSize
  BY <1>1, <1>2
<1>4. q < Count
  BY <1>1, <1>2, <1>3
<1> QED
  BY <1>1, <1>3, <1>4 DEF Slots

LEMMA StartOf ==
  ASSUME NEW k \in Slots
  PROVE  /\ k * RecordSize \in 0 .. Size - 1 /\ (k * RecordSize) \div RecordSize = k
         /\ (k + 1) * RecordSize = k * RecordSize + RecordSize /\ (k + 1) * RecordSize <= Size
         /\ k + 1 = Count => (k + 1) * RecordSize = Size
<1>1. Count \in Nat /\ RecordSize \in Nat /\ RecordSize > 0 /\ Count > 0 /\ k \in Nat /\ k < Count
  BY CountAssumption DEF Slots
<1>2. k + 1 <= Count => (k + 1) * RecordSize <= Count * RecordSize
  BY <1>1
<1>3. (k + 1) * RecordSize = k * RecordSize + RecordSize /\ k * RecordSize \in Nat
  BY <1>1
<1>4. (k * RecordSize) \div RecordSize = k
  BY <1>1
<1> QED
  BY <1>1, <1>2, <1>3, <1>4 DEF Size

-----------------------------------------------------------------------------
(***************************************************************************)
(* The type invariant, in parts, and what makes it inductive: how far the  *)
(* loops have come.                                                        *)
(***************************************************************************)
States == {"run", "tos", "entry", "index", "create", "wake", "read", "test", "copy", "done", "measured", "dead"}
Threads == [cpu : ThreadCPUs, st : {"new", "ready", "select", "gone"}]
Msrs == [i : Slots, o : Slots, left : 0 .. Count]
Reads == [length : Nat, seen : Nat, at : {Discard} \cup 0 .. Size]
Wants == [cpu : CPUs, n : Nat, src : Numbers]
Buffers == [0 .. Size - 1 -> Bytes]

CpuTypes ==
  /\ ring \in [CPUs -> [Slots -> Entries]] /\ tos \in [CPUs -> Slots]
  /\ on \in [CPUs -> BOOLEAN] /\ select \in [CPUs -> {0, 1}]
  /\ count \in [CPUs -> Nat] /\ lastSrc \in [CPUs -> Numbers]
MemoryTypes == lbr_data \in [Slots -> Entries] /\ index \in Nat
PointerTypes == threads \in Seq(Threads) /\ ts \in [ThreadCPUs -> DOMAIN threads]
KernelTypes ==
  /\ pc \in [Clients -> States] /\ cpu \in [Clients -> CPUs] /\ msr \in [Clients -> Msrs]
  /\ todo \in [Clients -> SUBSET ThreadCPUs]
  /\ \A p \in Clients : pc[p] \in {"create", "wake"} => todo[p] # {}
ReadTypes ==
  /\ rd \in [Clients -> Reads] /\ next \in [Clients -> 0 .. Count] /\ buf \in [Clients -> Buffers]
  /\ sample \in [Clients -> Numbers] /\ want \in [Clients -> Wants]
FaultTypes ==
  /\ dumps \in 0 .. MaxDumps /\ failed \subseteq {"kmalloc", "kthread"}
  /\ bad \subseteq {"error pointer", "null", "beyond buffer", "thread"}

Loops(p) ==
  /\ pc[p] = "entry" => msr[p].left >= 1
  /\ pc[p] = "read" => next[p] < Count
  /\ pc[p] \in {"test", "copy"} /\ rd[p].at # Discard =>
       next[p] < Count /\ rd[p].at + rd[p].length = (next[p] + 1) * RecordSize
  /\ pc[p] = "copy" => rd[p].length > 0
LoopsOK == \A p \in Clients : Loops(p)
Types ==
  CpuTypes /\ MemoryTypes /\ PointerTypes /\ KernelTypes /\ ReadTypes /\ FaultTypes
TypeInvariant == Types /\ LoopsOK

LEMMA TypesAreIt == Types <=> LTypeOK
BY DEF Types, LTypeOK, CpuTypes, MemoryTypes, PointerTypes, KernelTypes, ReadTypes, FaultTypes,
   States, Threads, Msrs, Reads, Wants, Buffers

\* Values without a state.
LEMMA Constants ==
  /\ Count \in Nat /\ Count >= 1 /\ RecordSize \in Nat /\ RecordSize >= 1 /\ Size \in Nat
  /\ 0 \in Slots /\ Count - 1 \in Slots /\ Slots \subseteq Nat
  /\ First(ThreadCPUs) \in ThreadCPUs /\ First(ThreadCPUs) \in CPUs
  /\ NotFound \in Numbers /\ NotFound \in Int /\ Discard \notin Nat
  /\ Unset(First(ThreadCPUs)) \in Entries /\ Fresh \in Buffers
  /\ NoMsr \in Msrs /\ NoRead \in Reads /\ NoWant \in Wants
<1>1. Count \in Nat /\ Count >= 1 /\ RecordSize \in Nat /\ RecordSize >= 1 /\ Size \in Nat
  BY CountAssumption DEF Size
<1>2. 0 \in Slots /\ Count - 1 \in Slots /\ Slots \subseteq Nat
  BY <1>1 DEF Slots
<1>3. First(ThreadCPUs) \in ThreadCPUs /\ First(ThreadCPUs) \in CPUs
  BY CPUAssumption, FirstIn
<1>4. NotFound \in Numbers /\ NotFound \in Int /\ Discard \notin Nat
  BY <1>1 DEF NotFound, Numbers, Discard
<1>5. Unset(First(ThreadCPUs)) \in Entries
  BY <1>1, <1>3 DEF Unset, Entry, Entries, Froms
<1>6. Fresh \in Buffers
  <2>1. <<Unset(First(ThreadCPUs)), 0>> \in Bytes
    BY <1>1, <1>5 DEF Bytes
  <2> QED
    BY <2>1 DEF Fresh, Buffers
<1>7. NoMsr \in Msrs /\ NoRead \in Reads /\ NoWant \in Wants
  BY <1>1, <1>2, <1>3, <1>4 DEF NoMsr, Msrs, NoRead, Reads, NoWant, Wants
<1> QED
  BY <1>1, <1>2, <1>3, <1>4, <1>5, <1>6, <1>7

LEMMA InitTypes == Init => TypeInvariant
<1> SUFFICES ASSUME Init PROVE TypeInvariant
  OBVIOUS
<1>1. CpuTypes
  <2>1. tos \in [CPUs -> Slots]
    BY DEF Init
  <2>2. ASSUME NEW c \in CPUs, NEW s \in Slots PROVE Entry(c, -((tos[c] - s) % Count), "old") \in Entries
    <3>1. (tos[c] - s) % Count \in Slots
      BY <2>1, AgeIs
    <3>2. -((tos[c] - s) % Count) \in Int /\ -((tos[c] - s) % Count) > -Count
      BY <3>1, Constants DEF Slots
    <3> QED
      BY <3>2 DEF Entry, Entries, Froms
  <2>3. ring \in [CPUs -> [Slots -> Entries]]
    BY <2>2 DEF Init
  <2> QED
    BY <2>1, <2>3, Constants DEF Init, CpuTypes
<1>2. MemoryTypes
  BY Constants DEF Init, MemoryTypes
<1>3. PointerTypes
  <2>0. PICK n \in Nat : n = Cardinality(ThreadCPUs)
    BY CPUAssumption, FS_CardinalityType
  <2>1. PICK order \in [1 .. n -> ThreadCPUs] :
          /\ \A j, k \in DOMAIN order : j < k => order[j] < order[k]
          /\ threads = [t \in DOMAIN order |-> [cpu |-> order[t], st |-> "ready"]]
          /\ ts = [c \in ThreadCPUs |-> CHOOSE t \in DOMAIN order : order[t] = c]
    BY <2>0 DEF Init
  <2>2. threads \in [1 .. n -> Threads]
    BY <2>1 DEF Threads
  <2>3. threads \in Seq(Threads) /\ DOMAIN threads = 1 .. n
    BY <2>2
  <2>4. order \in Injection(1 .. n, ThreadCPUs)
    <3>1. ASSUME NEW j \in 1 .. n, NEW k \in 1 .. n, order[j] = order[k] PROVE j = k
      <4>0. order[j] \in ThreadCPUs /\ order[k] \in ThreadCPUs /\ DOMAIN order = 1 .. n
        OBVIOUS
      <4>1. order[j] \in Nat /\ order[k] \in Nat /\ j \in DOMAIN order /\ k \in DOMAIN order /\ j \in Nat /\ k \in Nat
        <5>1. order[j] \in Nat /\ order[k] \in Nat
          BY <4>0, CPUAssumption
        <5> QED
          BY <4>0, <5>1
      <4>2. ~(j < k) /\ ~(k < j)
        BY <2>1, <3>1, <4>1
      <4> QED
        BY <4>1, <4>2
    <3> QED
      BY <3>1 DEF Injection, IsInjective
  <2>5. Cardinality(1 .. n) = n
    BY FS_Interval
  <2>6. order \in Surjection(1 .. n, ThreadCPUs)
    BY <2>0, <2>4, <2>5, CPUAssumption, FS_Injection
  <2>7. \A c \in ThreadCPUs : \E t \in DOMAIN order : order[t] = c
    BY <2>6 DEF Surjection
  <2>8. ts \in [ThreadCPUs -> DOMAIN threads]
    BY <2>1, <2>3, <2>7
  <2> QED
    BY <2>3, <2>8 DEF PointerTypes
<1>4. KernelTypes /\ ReadTypes /\ LoopsOK
  BY Constants DEF Init, KernelTypes, ReadTypes, LoopsOK, Loops, States
<1>5. FaultTypes
  BY BoundAssumption DEF Init, FaultTypes
<1> QED
  BY <1>1, <1>2, <1>3, <1>4, <1>5 DEF TypeInvariant, Types

-----------------------------------------------------------------------------
(***************************************************************************)
(* The steps.                                                              *)
(***************************************************************************)
LEMMA RecordTypes ==
  ASSUME CpuTypes, NEW c \in CPUs, NEW from \in {"kernel", "src", "other"}, Record(c, from)
  PROVE  CpuTypes'
<1>1. PICK r, n : r = (tos[c] + 1) % Count /\ n = count[c] + 1
  OBVIOUS
<1>2. r \in Slots
  BY <1>1, SuccIs DEF CpuTypes
<1>3. n \in Nat /\ n > 0 /\ n \in Numbers
  BY <1>1 DEF CpuTypes, Numbers
<1>4. Entry(c, n, from) \in Entries
  <2>1. n \in Int /\ n > -Count
    BY <1>3, Constants
  <2> QED
    BY <1>3, <2>1 DEF Entry, Entries, Froms
<1>5. /\ tos' = [tos EXCEPT ![c] = r] /\ ring' = [ring EXCEPT ![c][r] = Entry(c, n, from)]
      /\ count' = [count EXCEPT ![c] = n] /\ UNCHANGED <<on, select>>
      /\ lastSrc' = [lastSrc EXCEPT ![c] = IF from = "src" THEN n ELSE @]
  BY <1>1 DEF Record
<1>6. ring' \in [CPUs -> [Slots -> Entries]]
  BY <1>2, <1>4, <1>5 DEF CpuTypes
<1>7. tos' \in [CPUs -> Slots] /\ count' \in [CPUs -> Nat] /\ lastSrc' \in [CPUs -> Numbers]
  BY <1>2, <1>3, <1>5 DEF CpuTypes
<1> QED
  BY <1>5, <1>6, <1>7 DEF CpuTypes

LEMMA CpuTypesStep == ASSUME CpuTypes, [Next]_vars PROVE CpuTypes'
<1>1. ASSUME UNCHANGED hwVars PROVE CpuTypes'
  BY <1>1 DEF hwVars, CpuTypes
<1>2. ASSUME NEW c \in CPUs, CpuStep(c) PROVE CpuTypes'
  BY <1>2, RecordTypes DEF CpuStep, UserBranch, KernelBranch
<1>3. ASSUME NEW p \in Clients, Ioctl(p) PROVE CpuTypes'
  BY <1>3 DEF Ioctl, CpuTypes
<1>4. ASSUME NEW t \in DOMAIN threads, ThreadStep(t) PROVE CpuTypes'
  BY <1>4 DEF ThreadStep, EnableLBR, FilterLBR, CpuTypes
<1>5. ASSUME NEW p \in Clients, KernelStep(p) \/ ClientStep(p) \/ Migrate(p)
      PROVE  Ioctl(p) \/ UNCHANGED hwVars
  BY <1>5 DEF KernelStep, ClientStep, Migrate, ReadTos, ReadNext, ResetIndex, CreateThread, CreateFails, WakeThread,
     TestIndex, CopyByte, CopyFromNull, ReadRecord, OtherRead, ReadCall, Measure, NextRound
<1>6. UNCHANGED vars => UNCHANGED hwVars
  BY DEF vars
<1> QED
  BY <1>1, <1>2, <1>3, <1>4, <1>5, <1>6 DEF Next

Rest == MemoryTypes /\ PointerTypes /\ KernelTypes /\ ReadTypes /\ FaultTypes /\ LoopsOK

LEMMA LoopsFrame ==
  ASSUME LoopsOK, NEW p \in Clients,
         \A q \in Clients \ {p} :
           pc'[q] = pc[q] /\ msr'[q] = msr[q] /\ rd'[q] = rd[q] /\ next'[q] = next[q],
         Loops(p)'
  PROVE  LoopsOK'
<1>1. ASSUME NEW q \in Clients \ {p} PROVE Loops(q)'
  BY <1>1 DEF LoopsOK, Loops
<1> QED
  BY <1>1 DEF LoopsOK

\* CPUs and threads leave the clients alone.
LEMMA ElsewhereTypes ==
  ASSUME Rest, UNCHANGED <<bufVars, threadVars, pc, cpu, msr, todo, readVars, want, faultVars>>
  PROVE  Rest'
BY DEF Rest, MemoryTypes, PointerTypes, KernelTypes, ReadTypes, FaultTypes, LoopsOK, Loops,
   bufVars, threadVars, readVars, faultVars

LEMMA ThreadStepTypes == ASSUME Rest, NEW t \in DOMAIN threads, ThreadStep(t) PROVE Rest'
<1>1. PICK st \in {"select", "gone"} :
        /\ threads' = [threads EXCEPT ![t].st = st] /\ ts' = ts
        /\ UNCHANGED <<bufVars, pc, cpu, msr, todo, readVars, want, faultVars>>
  BY DEF ThreadStep, EnableLBR, FilterLBR
<1>2. threads' \in Seq(Threads) /\ DOMAIN threads' = DOMAIN threads
  <2>1. threads \in [1 .. Len(threads) -> Threads] /\ Len(threads) \in Nat /\ DOMAIN threads = 1 .. Len(threads)
    BY DEF Rest, PointerTypes
  <2>2. threads' \in [1 .. Len(threads) -> Threads]
    BY <1>1, <2>1 DEF Threads
  <2> QED
    BY <2>1, <2>2
<1>3. PointerTypes'
  BY <1>1, <1>2 DEF Rest, PointerTypes
<1>4. MemoryTypes' /\ KernelTypes' /\ ReadTypes' /\ FaultTypes' /\ LoopsOK'
  BY <1>1 DEF Rest, MemoryTypes, KernelTypes, ReadTypes, FaultTypes, LoopsOK, Loops, bufVars, readVars, faultVars
<1> QED
  BY <1>3, <1>4 DEF Rest

LEMMA MigrateTypes == ASSUME Rest, NEW p \in Clients, Migrate(p) PROVE Rest'
<1>1. PICK c \in CPUs : cpu' = [cpu EXCEPT ![p] = c]
  BY DEF Migrate
<1>2. UNCHANGED <<bufVars, threadVars, pc, msr, todo, readVars, want, faultVars>>
  BY DEF Migrate
<1> QED
  BY <1>1, <1>2 DEF Rest, MemoryTypes, PointerTypes, KernelTypes, ReadTypes, FaultTypes, LoopsOK, Loops,
     bufVars, threadVars, readVars, faultVars

LEMMA IoctlTypes == ASSUME CpuTypes, Rest, NEW p \in Clients, Ioctl(p) PROVE Rest'
<1>1. PICK x \in {"tos", "index"} : pc' = [pc EXCEPT ![p] = x]
  BY DEF Ioctl, Goto
<1>2. /\ dumps' = dumps + 1 /\ dumps < MaxDumps
      /\ want' = [want EXCEPT ![p] = [cpu |-> cpu[p], n |-> count[cpu[p]], src |-> lastSrc[cpu[p]]]]
      /\ UNCHANGED <<bufVars, threadVars, cpu, msr, todo, readVars, failed, bad>>
  BY DEF Ioctl
<1>3. KernelTypes'
  BY <1>1, <1>2 DEF Rest, KernelTypes, States
<1>4. ReadTypes'
  BY <1>2 DEF CpuTypes, Rest, KernelTypes, ReadTypes, Wants, readVars
<1>5. FaultTypes'
  <2>1. dumps \in 0 .. MaxDumps /\ MaxDumps \in Nat
    BY BoundAssumption DEF Rest, FaultTypes
  <2>2. dumps' \in 0 .. MaxDumps
    BY <1>2, <2>1
  <2> QED
    BY <1>2, <2>2 DEF Rest, FaultTypes
<1>6. LoopsOK'
  <2>1. pc'[p] = x /\ \A q \in Clients \ {p} : pc'[q] = pc[q]
    BY <1>1 DEF Rest, KernelTypes
  <2> QED
    BY <1>2, <2>1, LoopsFrame DEF Rest, Loops, readVars
<1> QED
  BY <1>2, <1>3, <1>4, <1>5, <1>6 DEF Rest, MemoryTypes, PointerTypes, bufVars, threadVars

LEMMA ReadTosTypes == ASSUME CpuTypes, Rest, NEW p \in Clients, ReadTos(p) PROVE Rest'
<1>1. /\ pc' = [pc EXCEPT ![p] = "entry"]
      /\ msr' = [msr EXCEPT ![p] = [i |-> tos[cpu[p]], o |-> Count - 1, left |-> Count]]
      /\ UNCHANGED <<bufVars, threadVars, cpu, todo, readVars, want, faultVars>>
  BY DEF ReadTos, Goto
<1>2. [i |-> tos[cpu[p]], o |-> Count - 1, left |-> Count] \in Msrs
  BY Constants DEF CpuTypes, Rest, KernelTypes, Msrs
<1>3. KernelTypes'
  BY <1>1, <1>2 DEF Rest, KernelTypes, States
<1>4. LoopsOK'
  <2>1. pc'[p] = "entry" /\ msr'[p].left = Count /\ \A q \in Clients \ {p} : pc'[q] = pc[q] /\ msr'[q] = msr[q]
    BY <1>1 DEF Rest, KernelTypes
  <2> QED
    BY <1>1, <2>1, LoopsFrame, Constants DEF Rest, Loops, readVars
<1> QED
  BY <1>1, <1>3, <1>4
  DEF Rest, MemoryTypes, PointerTypes, ReadTypes, FaultTypes, bufVars, threadVars, readVars, faultVars

LEMMA ReadNextTypes == ASSUME CpuTypes, Rest, NEW p \in Clients, ReadNext(p) PROVE Rest'
<1>1. /\ lbr_data' = [lbr_data EXCEPT ![msr[p].o] = ring[cpu[p]][msr[p].i]]
      /\ msr' = [msr EXCEPT ![p] = IF @.left = 1 THEN NoMsr
                              ELSE [i |-> (@.i + 1) % Count, o |-> (@.o + 1) % Count, left |-> @.left - 1]]
      /\ pc' = [pc EXCEPT ![p] = IF msr[p].left = 1 THEN "index" ELSE "entry"]
      /\ UNCHANGED <<index, threadVars, cpu, todo, readVars, want, faultVars>> /\ pc[p] = "entry"
  BY DEF ReadNext, Goto
<1>2. msr[p] \in Msrs /\ msr[p].left \in 1 .. Count /\ msr[p].i \in Slots /\ msr[p].o \in Slots
  <2>1. msr[p] \in Msrs /\ msr[p].left >= 1
    BY <1>1 DEF Rest, KernelTypes, LoopsOK, Loops
  <2> QED
    BY <2>1, Constants DEF Msrs
<1>3. PICK m : m = IF msr[p].left = 1 THEN NoMsr
                   ELSE [i |-> (msr[p].i + 1) % Count, o |-> (msr[p].o + 1) % Count, left |-> msr[p].left - 1]
  OBVIOUS
<1>4. m \in Msrs /\ (msr[p].left # 1 => m.left >= 1)
  <2>1. (msr[p].i + 1) % Count \in Slots /\ (msr[p].o + 1) % Count \in Slots
    BY <1>2, SuccIs
  <2>2. msr[p].left # 1 => msr[p].left - 1 \in 0 .. Count /\ msr[p].left - 1 >= 1
    BY <1>2, Constants
  <2> QED
    BY <1>3, <2>1, <2>2, Constants DEF Msrs
<1>5. msr' = [msr EXCEPT ![p] = m]
  BY <1>1, <1>3 DEF Rest, KernelTypes
<1>6. KernelTypes'
  BY <1>1, <1>4, <1>5 DEF Rest, KernelTypes, States
<1>7. LoopsOK'
  <2>1. /\ pc'[p] \in {"index", "entry"} /\ (pc'[p] = "entry" => msr[p].left # 1) /\ msr'[p] = m
        /\ \A q \in Clients \ {p} : pc'[q] = pc[q] /\ msr'[q] = msr[q]
    BY <1>1, <1>5 DEF Rest, KernelTypes
  <2> QED
    BY <1>1, <1>4, <2>1, LoopsFrame DEF Rest, Loops, readVars
<1>8. MemoryTypes'
  <2>1. ring[cpu[p]][msr[p].i] \in Entries
    BY <1>2 DEF CpuTypes, Rest, KernelTypes
  <2> QED
    BY <1>1, <2>1 DEF Rest, MemoryTypes
<1> QED
  BY <1>1, <1>6, <1>7, <1>8
  DEF Rest, PointerTypes, ReadTypes, FaultTypes, threadVars, readVars, faultVars

LEMMA ResetIndexTypes == ASSUME Rest, NEW p \in Clients, ResetIndex(p) PROVE Rest'
<1>1. /\ index' = 0 /\ todo' = [todo EXCEPT ![p] = ThreadCPUs] /\ pc' = [pc EXCEPT ![p] = "create"]
      /\ UNCHANGED <<lbr_data, threadVars, cpu, msr, readVars, want, faultVars>>
  BY DEF ResetIndex, Goto
<1>2. KernelTypes'
  BY <1>1, CPUAssumption DEF Rest, KernelTypes, States
<1>3. LoopsOK'
  <2>1. pc'[p] = "create" /\ \A q \in Clients \ {p} : pc'[q] = pc[q]
    BY <1>1 DEF Rest, KernelTypes
  <2> QED
    BY <1>1, <2>1, LoopsFrame DEF Rest, Loops, readVars
<1> QED
  BY <1>1, <1>2, <1>3
  DEF Rest, MemoryTypes, PointerTypes, ReadTypes, FaultTypes, threadVars, readVars, faultVars

LEMMA CreateThreadTypes == ASSUME Rest, NEW p \in Clients, CreateThread(p) PROVE Rest'
<1>1. PICK c : c = First(todo[p])
  OBVIOUS
<1>2. /\ threads' = Append(threads, [cpu |-> c, st |-> "new"])
      /\ ts' = [ts EXCEPT ![c] = Len(threads) + 1]
      /\ todo' = [todo EXCEPT ![p] = IF @ = {c} THEN ThreadCPUs ELSE @ \ {c}]
      /\ pc' = [pc EXCEPT ![p] = IF todo[p] = {c} THEN "wake" ELSE "create"]
      /\ UNCHANGED <<bufVars, cpu, msr, readVars, want, faultVars>> /\ pc[p] = "create"
  BY <1>1 DEF CreateThread, Goto
<1>3. todo[p] \in SUBSET ThreadCPUs /\ todo[p] # {} /\ c \in todo[p]
  BY <1>1, <1>2, FirstIn DEF Rest, KernelTypes
<1>4. PointerTypes'
  <2>1. threads \in Seq(Threads) /\ [cpu |-> c, st |-> "new"] \in Threads
    BY <1>3 DEF Rest, PointerTypes, Threads
  <2>2. threads' \in Seq(Threads) /\ DOMAIN threads \subseteq DOMAIN threads' /\ Len(threads) + 1 \in DOMAIN threads'
    BY <1>2, <2>1
  <2> QED
    BY <1>2, <2>2 DEF Rest, PointerTypes
<1>5. KernelTypes'
  <2>1. todo' \in [Clients -> SUBSET ThreadCPUs] /\ todo'[p] # {} /\ \A q \in Clients \ {p} : todo'[q] = todo[q]
    BY <1>2, <1>3, CPUAssumption DEF Rest, KernelTypes
  <2> QED
    BY <1>2, <2>1 DEF Rest, KernelTypes, States
<1>6. LoopsOK'
  <2>1. pc'[p] \in {"wake", "create"} /\ \A q \in Clients \ {p} : pc'[q] = pc[q]
    BY <1>2 DEF Rest, KernelTypes
  <2> QED
    BY <1>2, <2>1, LoopsFrame DEF Rest, Loops, readVars
<1> QED
  BY <1>2, <1>4, <1>5, <1>6 DEF Rest, MemoryTypes, ReadTypes, FaultTypes, bufVars, readVars, faultVars

LEMMA FailureTypes == ASSUME Rest, NEW p \in Clients, CreateFails(p) \/ CopyFromNull(p) PROVE Rest'
<1>1. /\ pc' = [pc EXCEPT ![p] = "dead"]
      /\ UNCHANGED <<bufVars, threadVars, cpu, msr, todo, readVars, want, dumps>>
      /\ failed' = failed \/ failed' = failed \cup {"kthread"}
      /\ bad' = bad \cup {"null"} \/ bad' = bad \cup {"error pointer"}
  BY DEF CreateFails, CopyFromNull, Goto
<1>2. KernelTypes'
  BY <1>1 DEF Rest, KernelTypes, States
<1>3. LoopsOK'
  <2>1. pc'[p] = "dead" /\ \A q \in Clients \ {p} : pc'[q] = pc[q]
    BY <1>1 DEF Rest, KernelTypes
  <2> QED
    BY <1>1, <2>1, LoopsFrame DEF Rest, Loops, readVars
<1>4. FaultTypes'
  BY <1>1 DEF Rest, FaultTypes
<1> QED
  BY <1>1, <1>2, <1>3, <1>4 DEF Rest, MemoryTypes, PointerTypes, ReadTypes, bufVars, threadVars, readVars

LEMMA WakeThreadTypes == ASSUME Rest, NEW p \in Clients, WakeThread(p) PROVE Rest'
<1>1. PICK c, t : c = First(todo[p]) /\ t = ts[c]
  OBVIOUS
<1>2. /\ threads' = [threads EXCEPT ![t].st = "ready"] \/ threads' = threads
      /\ bad' = bad \cup {"thread"} \/ bad' = bad
      /\ todo' = [todo EXCEPT ![p] = @ \ {c}]
      /\ IF todo[p] = {c} THEN pc' = [pc EXCEPT ![p] = "read"] /\ next' = [next EXCEPT ![p] = 0]
         ELSE pc' = pc /\ next' = next
      /\ UNCHANGED <<bufVars, ts, cpu, msr, rd, buf, sample, want, dumps, failed>> /\ pc[p] = "wake"
  BY <1>1 DEF WakeThread, Goto
<1>3. todo[p] \in SUBSET ThreadCPUs /\ todo[p] # {} /\ c \in todo[p]
  BY <1>1, <1>2, FirstIn DEF Rest, KernelTypes
<1>4. PointerTypes'
  <2>1. threads \in [1 .. Len(threads) -> Threads] /\ Len(threads) \in Nat /\ DOMAIN threads = 1 .. Len(threads)
    BY DEF Rest, PointerTypes
  <2>2. threads' \in [1 .. Len(threads) -> Threads]
    BY <1>2, <2>1 DEF Threads
  <2>3. threads' \in Seq(Threads) /\ DOMAIN threads' = DOMAIN threads
    BY <2>1, <2>2
  <2> QED
    BY <1>2, <2>3 DEF Rest, PointerTypes
<1>5. KernelTypes'
  <2>1. /\ todo' \in [Clients -> SUBSET ThreadCPUs] /\ (todo[p] # {c} => todo'[p] # {})
        /\ \A q \in Clients \ {p} : todo'[q] = todo[q]
    BY <1>2, <1>3 DEF Rest, KernelTypes
  <2>2. /\ pc' \in [Clients -> States] /\ (pc'[p] \in {"create", "wake"} => todo[p] # {c})
        /\ \A q \in Clients \ {p} : pc'[q] = pc[q]
    BY <1>2 DEF Rest, KernelTypes, States
  <2> QED
    BY <1>2, <2>1, <2>2 DEF Rest, KernelTypes
<1>6. LoopsOK'
  <2>1. /\ (pc'[p] = "read" /\ next'[p] = 0) \/ (pc'[p] = "wake" /\ next'[p] = next[p])
        /\ \A q \in Clients \ {p} : pc'[q] = pc[q] /\ next'[q] = next[q]
    BY <1>2 DEF Rest, KernelTypes, ReadTypes
  <2> QED
    BY <1>2, <2>1, LoopsFrame, Constants DEF Rest, Loops
<1>7. ReadTypes'
  <2>1. 0 \in 0 .. Count
    BY Constants
  <2> QED
    BY <1>2, <2>1 DEF Rest, ReadTypes
<1> QED
  BY <1>2, <1>4, <1>5, <1>6, <1>7 DEF Rest, MemoryTypes, FaultTypes, bufVars

LEMMA ReadCallTypes ==
  ASSUME Rest, NEW p \in Clients, ReadRecord(p) \/ OtherRead(p)
  PROVE  Rest'
<1>1. PICK length, at : /\ length \in Nat /\ ReadCall(p, length, at)
                        /\ \/ at = Discard
                           \/ /\ pc[p] = "read" /\ at = next[p] * RecordSize /\ length = RecordSize
  BY EnvironmentAssumption, Constants DEF ReadRecord, OtherRead
<1>2. next[p] \in 0 .. Count
  BY DEF Rest, ReadTypes
<1>3. at = Discard \/ (at \in 0 .. Size /\ next[p] < Count /\ at + length = (next[p] + 1) * RecordSize)
  <2>1. ASSUME pc[p] = "read" PROVE next[p] < Count /\ next[p] \in Slots
    <3>1. next[p] < Count
      BY <2>1 DEF Rest, LoopsOK, Loops
    <3> QED
      BY <1>2, <3>1, Constants DEF Slots
  <2>2. ASSUME pc[p] = "read", at = next[p] * RecordSize, length = RecordSize
        PROVE  at \in 0 .. Size /\ next[p] < Count /\ at + length = (next[p] + 1) * RecordSize
    <3>1. PICK k \in Slots : k = next[p]
      BY <2>1, <2>2
    <3>2. k * RecordSize \in 0 .. Size - 1 /\ (k + 1) * RecordSize = k * RecordSize + RecordSize
      BY StartOf
    <3>3. at \in 0 .. Size
      BY <2>2, <3>1, <3>2, Constants
    <3> QED
      BY <2>1, <2>2, <3>1, <3>2, <3>3
  <2> QED
    BY <1>1, <2>2
<1>4. /\ index' = (IF index = Size THEN 0 ELSE index)
      /\ rd' = [rd EXCEPT ![p] = [length |-> length, seen |-> 0, at |-> at]]
      /\ pc' = [pc EXCEPT ![p] = "test"]
      /\ UNCHANGED <<lbr_data, threadVars, cpu, msr, todo, next, buf, sample, want, faultVars>>
  BY <1>1 DEF ReadCall, Goto
<1>5. KernelTypes'
  BY <1>4 DEF Rest, KernelTypes, States
<1>6. ReadTypes'
  <2>1. [length |-> length, seen |-> 0, at |-> at] \in Reads
    BY <1>1, <1>3 DEF Reads
  <2> QED
    BY <1>4, <2>1 DEF Rest, ReadTypes
<1>7. LoopsOK'
  <2>1. /\ pc'[p] = "test" /\ rd'[p].at = at /\ rd'[p].length = length
        /\ \A q \in Clients \ {p} : pc'[q] = pc[q] /\ rd'[q] = rd[q]
    BY <1>4 DEF Rest, KernelTypes, ReadTypes
  <2> QED
    BY <1>3, <1>4, <2>1, LoopsFrame DEF Rest, Loops
<1>8. MemoryTypes'
  BY <1>4 DEF Rest, MemoryTypes
<1> QED
  BY <1>4, <1>5, <1>6, <1>7, <1>8 DEF Rest, PointerTypes, FaultTypes, threadVars, faultVars

LEMMA TestIndexTypes == ASSUME Rest, NEW p \in Clients, TestIndex(p) PROVE Rest'
<1>0. /\ pc[p] = "test" /\ UNCHANGED <<bufVars, threadVars, cpu, msr, todo, buf, sample, want, faultVars>>
      /\ index \in Nat /\ rd[p] \in Reads
  BY DEF TestIndex, Rest, MemoryTypes, ReadTypes
<1>1. PICK x, r, n :
        x \in {"copy", "run", "done", "read"} /\ pc' = [pc EXCEPT ![p] = x] /\ rd' = [rd EXCEPT ![p] = r] /\ next' = [next EXCEPT ![p] = n]
        /\ \/ x = "copy" /\ InLoop(p) /\ r = [rd[p] EXCEPT !.seen = index] /\ n = next[p]
           \/ x = "run" /\ r = NoRead /\ rd[p].at = Discard /\ n = next[p]
           \/ x # "copy" /\ r = NoRead /\ rd[p].at # Discard /\ n = next[p] + 1 /\ (x = "read" => next[p] + 1 # Count)
  <2>1. next = [next EXCEPT ![p] = next[p]]
    BY DEF Rest, ReadTypes
  <2>2. CASE InLoop(p)
    <3>1. /\ pc' = [pc EXCEPT ![p] = "copy"] /\ rd' = [rd EXCEPT ![p] = [rd[p] EXCEPT !.seen = index]]
          /\ next' = [next EXCEPT ![p] = next[p]]
      BY <2>1, <2>2 DEF TestIndex, Goto, Rest, ReadTypes
    <3> QED
      BY <2>2, <3>1
  <2>3. CASE ~InLoop(p) /\ rd[p].at = Discard
    BY <2>1, <2>3 DEF TestIndex, Goto
  <2>4. CASE ~InLoop(p) /\ rd[p].at # Discard
    BY <2>4 DEF TestIndex, Goto, Rest, ReadTypes
  <2> QED
    BY <2>2, <2>3, <2>4
<1>2. Loops(p) /\ next[p] \in 0 .. Count
  BY DEF Rest, LoopsOK, ReadTypes
<1>3. KernelTypes'
  BY <1>0, <1>1 DEF Rest, KernelTypes, States
<1>4. /\ r \in Reads /\ n \in 0 .. Count /\ (x = "read" => n < Count)
      /\ x = "copy" => r.at = rd[p].at /\ r.length = rd[p].length /\ r.length > 0 /\ n = next[p]
  <2>1. x = "copy" => /\ r \in Reads /\ r.at = rd[p].at /\ r.length = rd[p].length /\ r.length > 0 /\ n = next[p]
    BY <1>0, <1>1 DEF Reads, InLoop
  <2>2. x # "copy" => r \in Reads
    BY <1>1, Constants
  <2>3. n \in 0 .. Count /\ (x = "read" => n < Count)
    BY <1>0, <1>1, <1>2, Constants DEF Loops
  <2> QED
    BY <2>1, <2>2, <2>3
<1>5. ReadTypes'
  BY <1>0, <1>1, <1>4 DEF Rest, ReadTypes
<1>6. LoopsOK'
  <2>1. /\ pc'[p] = x /\ rd'[p] = r /\ next'[p] = n
        /\ \A q \in Clients \ {p} : pc'[q] = pc[q] /\ rd'[q] = rd[q] /\ next'[q] = next[q]
    BY <1>1 DEF Rest, KernelTypes, ReadTypes
  <2>2. Loops(p)'
    <3>1. x \in {"copy", "run", "done", "read"}
      BY <1>1
    <3> QED
      BY <1>0, <1>2, <1>4, <2>1, <3>1 DEF Loops
  <2> QED
    BY <1>0, <2>1, <2>2, LoopsFrame DEF Rest
<1> QED
  BY <1>0, <1>3, <1>5, <1>6 DEF Rest, MemoryTypes, PointerTypes, FaultTypes, bufVars, threadVars, faultVars

LEMMA CopyByteTypes == ASSUME Rest, NEW p \in Clients, CopyByte(p) PROVE Rest'
<1>0. /\ pc[p] = "copy" /\ rd[p] \in Reads /\ rd[p].length \in Nat /\ rd[p].length > 0 /\ rd[p].seen \in Nat
      /\ index \in Nat /\ Loops(p) /\ next[p] \in 0 .. Count /\ rd[p].at \in {Discard} \cup 0 .. Size
  BY DEF CopyByte, Rest, ReadTypes, Reads, LoopsOK, Loops, MemoryTypes
<1>1. PICK j \in {index, rd[p].seen} :
        /\ index' = j + 1
        /\ IF j < Size
           THEN /\ buf' = IF rd[p].at = Discard THEN buf
                          ELSE [buf EXCEPT ![p][rd[p].at] = <<lbr_data[j \div RecordSize], j % RecordSize>>]
                /\ UNCHANGED bad
           ELSE bad' = bad \cup {"beyond buffer"} /\ UNCHANGED buf
  BY DEF CopyByte
<1>2. PICK r : r = [rd[p] EXCEPT !.length = @ - 1, !.at = IF @ = Discard THEN @ ELSE @ + 1]
  OBVIOUS
<1>3. /\ rd' = [rd EXCEPT ![p] = r] /\ pc' = [pc EXCEPT ![p] = "test"]
      /\ UNCHANGED <<lbr_data, threadVars, cpu, msr, todo, next, sample, want, dumps, failed>>
  <2>1. rd' = [rd EXCEPT ![p].length = @ - 1, ![p].at = IF @ = Discard THEN @ ELSE @ + 1]
    BY DEF CopyByte
  <2>2. rd' = [rd EXCEPT ![p] = r]
    BY <1>0, <1>2, <2>1 DEF Rest, ReadTypes, Reads
  <2> QED
    BY <2>2 DEF CopyByte, Goto
<1>4. r.length = rd[p].length - 1 /\ r.seen = rd[p].seen /\ r.at = IF rd[p].at = Discard THEN Discard ELSE rd[p].at + 1
  BY <1>0, <1>2 DEF Reads
<1>5. rd[p].at # Discard => /\ rd[p].at + 1 \in 0 .. Size /\ next[p] < Count /\ rd[p].at \in Nat
                            /\ (rd[p].at + 1) + (rd[p].length - 1) = (next[p] + 1) * RecordSize
                            /\ rd[p].at + 1 # Discard
  <2> SUFFICES ASSUME rd[p].at # Discard
               PROVE  /\ rd[p].at + 1 \in 0 .. Size /\ next[p] < Count /\ rd[p].at \in Nat
                      /\ (rd[p].at + 1) + (rd[p].length - 1) = (next[p] + 1) * RecordSize
                      /\ rd[p].at + 1 # Discard
    OBVIOUS
  <2>1. next[p] < Count /\ rd[p].at + rd[p].length = (next[p] + 1) * RecordSize /\ rd[p].at \in Nat
    BY <1>0 DEF Loops
  <2>2. PICK k \in Slots : k = next[p]
    BY <1>0, <2>1, Constants DEF Slots
  <2>3. (k + 1) * RecordSize <= Size /\ (k + 1) * RecordSize \in Nat
    <3>1. /\ k * RecordSize \in 0 .. Size - 1 /\ (k + 1) * RecordSize = k * RecordSize + RecordSize
          /\ (k + 1) * RecordSize <= Size
      BY StartOf
    <3>2. k * RecordSize \in Nat /\ RecordSize \in Nat
      BY <3>1, Constants
    <3> QED
      BY <3>1, <3>2
  <2>4. PICK e \in Nat : e = (k + 1) * RecordSize
    BY <2>3
  <2>5. rd[p].at + rd[p].length = e /\ e <= Size
    BY <2>1, <2>2, <2>3, <2>4
  <2>6. rd[p].at + 1 \in 0 .. Size /\ (rd[p].at + 1) + (rd[p].length - 1) = e
    BY <1>0, <2>1, <2>5, Constants
  <2> QED
    BY <2>1, <2>2, <2>4, <2>6 DEF Discard
<1>6. r \in Reads
  <2>1. /\ r.length \in Nat /\ r.seen \in Nat /\ r.at \in {Discard} \cup 0 .. Size
    BY <1>0, <1>4, <1>5
  <2>2. r = [length |-> r.length, seen |-> r.seen, at |-> r.at]
    BY <1>0, <1>2 DEF Reads
  <2> QED
    BY <2>1, <2>2 DEF Reads
<1>7. buf' \in [Clients -> Buffers]
  <2>1. CASE buf' = buf
    BY <2>1 DEF Rest, ReadTypes
  <2>2. CASE /\ j < Size
             /\ buf' = [buf EXCEPT ![p][rd[p].at] = <<lbr_data[j \div RecordSize], j % RecordSize>>]
    <3>1. j \in 0 .. Size - 1
      BY <1>0, <1>1, <2>2, Constants
    <3>2. lbr_data[j \div RecordSize] \in Entries /\ j % RecordSize \in 0 .. RecordSize - 1
      BY <3>1, RecordOf DEF Rest, MemoryTypes
    <3>3. PICK v \in Bytes : v = <<lbr_data[j \div RecordSize], j % RecordSize>>
      BY <3>2 DEF Bytes
    <3>4. buf' = [buf EXCEPT ![p][rd[p].at] = v]
      BY <2>2, <3>3
    <3> QED
      BY <3>4 DEF Rest, ReadTypes, Buffers
  <2> QED
    BY <1>1, <2>1, <2>2
<1>8. ReadTypes'
  BY <1>3, <1>6, <1>7 DEF Rest, ReadTypes
<1>9. KernelTypes'
  BY <1>3 DEF Rest, KernelTypes, States
<1>10. LoopsOK'
  <2>1. /\ pc'[p] = "test" /\ rd'[p] = r
        /\ \A q \in Clients \ {p} : pc'[q] = pc[q] /\ rd'[q] = rd[q]
    BY <1>3 DEF Rest, KernelTypes, ReadTypes
  <2>2. Loops(p)'
    BY <1>3, <1>4, <1>5, <2>1 DEF Loops
  <2> QED
    BY <1>3, <2>1, <2>2, LoopsFrame DEF Rest
<1>11. MemoryTypes' /\ FaultTypes'
  <2>1. j \in Nat /\ index' = j + 1
    BY <1>0, <1>1
  <2>2. index' \in Nat
    BY <2>1
  <2>3. bad' = bad \/ bad' = bad \cup {"beyond buffer"}
    BY <1>1
  <2> QED
    BY <1>3, <2>2, <2>3 DEF Rest, MemoryTypes, FaultTypes
<1> QED
  BY <1>3, <1>8, <1>9, <1>10, <1>11 DEF Rest, PointerTypes, threadVars

\* The record chosen is one of those found.
LEMMA ChosenIn ==
  ASSUME NEW p \in Clients, Found(p) # {}
  PROVE  Chosen(p) \in Found(p) /\ \A k \in Found(p) : k <= Chosen(p)
<1>1. Found(p) \in SUBSET Slots
  BY DEF Found
<1>2. \E k \in Found(p) : \A j \in Found(p) : j <= k
  BY <1>1, LastIn
<1> QED
  BY <1>2, Zenon DEF Chosen

LEMMA MeasureTypes == ASSUME Rest, NEW p \in Clients, Measure(p) PROVE Rest'
<1>1. PICK n : n = IF Found(p) = {} THEN NotFound ELSE Got(p, Chosen(p)).n
  OBVIOUS
<1>2. /\ sample' = [sample EXCEPT ![p] = n] /\ pc' = [pc EXCEPT ![p] = "measured"]
      /\ UNCHANGED <<bufVars, threadVars, cpu, msr, todo, rd, next, buf, want, faultVars>>
  BY <1>1 DEF Measure, Goto
<1>3. n \in Numbers
  <2>1. CASE Found(p) = {}
    BY <1>1, <2>1, Constants
  <2>2. CASE Found(p) # {}
    <3>1. Chosen(p) \in Slots /\ Got(p, Chosen(p)).from = "src"
      BY <2>2, ChosenIn DEF Found
    <3>2. PICK b \in 0 .. Size - 1 : b = Chosen(p) * RecordSize
      BY <3>1, StartOf
    <3>3. buf[p][b] \in Bytes
      BY DEF Rest, ReadTypes, Buffers
    <3>4. Got(p, Chosen(p)) \in Entries
      BY <3>2, <3>3 DEF Got, Bytes
    <3> QED
      BY <1>1, <2>2, <3>1, <3>4 DEF Entries, Numbers
  <2> QED
    BY <2>1, <2>2
<1>4. KernelTypes'
  BY <1>2 DEF Rest, KernelTypes, States
<1>5. LoopsOK'
  <2>1. pc'[p] = "measured" /\ \A q \in Clients \ {p} : pc'[q] = pc[q]
    BY <1>2 DEF Rest, KernelTypes
  <2> QED
    BY <1>2, <2>1, LoopsFrame DEF Rest, Loops
<1>6. ReadTypes'
  BY <1>2, <1>3 DEF Rest, ReadTypes
<1> QED
  BY <1>2, <1>4, <1>5, <1>6 DEF Rest, MemoryTypes, PointerTypes, FaultTypes, bufVars, threadVars, faultVars

LEMMA NextRoundTypes == ASSUME Rest, NEW p \in Clients, NextRound(p) PROVE Rest'
<1>1. /\ buf' = buf \/ buf' = [buf EXCEPT ![p] = Fresh]
      /\ next' = [next EXCEPT ![p] = 0] /\ sample' = [sample EXCEPT ![p] = NotFound]
      /\ want' = [want EXCEPT ![p] = NoWant] /\ pc' = [pc EXCEPT ![p] = "run"]
      /\ UNCHANGED <<bufVars, threadVars, cpu, msr, todo, rd, faultVars>>
  BY DEF NextRound, Goto
<1>2. ReadTypes'
  <2>1. 0 \in 0 .. Count
    BY Constants
  <2> QED
    BY <1>1, <2>1, Constants DEF Rest, ReadTypes
<1>3. KernelTypes'
  BY <1>1 DEF Rest, KernelTypes, States
<1>4. LoopsOK'
  <2>1. pc'[p] = "run" /\ \A q \in Clients \ {p} : pc'[q] = pc[q] /\ next'[q] = next[q]
    BY <1>1 DEF Rest, KernelTypes, ReadTypes
  <2> QED
    BY <1>1, <2>1, LoopsFrame DEF Rest, Loops
<1> QED
  BY <1>1, <1>2, <1>3, <1>4 DEF Rest, MemoryTypes, PointerTypes, FaultTypes, bufVars, threadVars, faultVars

LEMMA NextTypes == ASSUME TypeInvariant, [Next]_vars PROVE TypeInvariant'
<1>1. CpuTypes /\ CpuTypes' /\ Rest
  BY CpuTypesStep DEF TypeInvariant, Types, Rest
<1>2. ASSUME NEW p \in Clients, KernelStep(p) \/ ClientStep(p) \/ Migrate(p) PROVE Rest'
  BY <1>1, <1>2, ReadTosTypes, ReadNextTypes, ResetIndexTypes, CreateThreadTypes, FailureTypes, WakeThreadTypes,
     TestIndexTypes, CopyByteTypes, IoctlTypes, ReadCallTypes, MeasureTypes, NextRoundTypes, MigrateTypes
  DEF KernelStep, ClientStep
<1>3. ASSUME NEW t \in DOMAIN threads, ThreadStep(t) PROVE Rest'
  BY <1>1, <1>3, ThreadStepTypes
<1>4. ASSUME (\E c \in CPUs : CpuStep(c)) \/ UNCHANGED vars PROVE Rest'
  BY <1>1, <1>4, ElsewhereTypes DEF CpuStep, UserBranch, KernelBranch, Record, vars
<1> QED
  BY <1>1, <1>2, <1>3, <1>4 DEF Next, TypeInvariant, Types, Rest

\* The state of the device and its clients is well typed, whatever the number
\* of clients: no loop leaves its array, and the pointers ts1 .. ts4 always
\* hold threads that exist.
THEOREM DeviceTyped == Spec => []LTypeOK
<1>1. TypeInvariant => LTypeOK
  BY TypesAreIt DEF TypeInvariant
<1> QED
  BY <1>1, InitTypes, NextTypes, PTL DEF Spec

-----------------------------------------------------------------------------
(***************************************************************************)
(* The trail of one client.                                                *)
(*  RingOK: the registers of a CPU hold its last Count branches, and the   *)
(*    number kept of the measured branch is that of its latest execution.  *)
(*  Stopped: during the copy the recording is off where it is made.        *)
(*  Saving: the records copied so far are in place, and o is the place of  *)
(*    register i.                                                          *)
(*  Dumped: until the reads are done the buffer holds the whole trail.     *)
(*  Position: lbr_data_index is where the client is in its own buffer.     *)
(*  Waking: the pointers hold threads that have been created and not yet   *)
(*    been woken.                                                          *)
(***************************************************************************)
RingSlot(c, s) ==
  /\ ring[c][s].cpu = c /\ ring[c][s].n = count[c] - Age(tos[c], s)
  /\ ring[c][s].from = "src" => ring[c][s].n <= lastSrc[c]
  /\ ring[c][s].n = lastSrc[c] => ring[c][s].from = "src"
RingOK == \A c \in CPUs : lastSrc[c] <= count[c] /\ \A s \in Slots : RingSlot(c, s)

Stopped(p) ==
  pc[p] \in {"tos", "entry"} =>
    /\ ~on[cpu[p]] /\ HaveData
    /\ want[p] = [cpu |-> cpu[p], n |-> count[cpu[p]], src |-> lastSrc[cpu[p]]]
Saved(p, s) ==
  /\ lbr_data[s].cpu = want[p].cpu /\ lbr_data[s].n = want[p].n - Count + 1 + s
  /\ lbr_data[s].from = "src" => lbr_data[s].n <= want[p].src
  /\ lbr_data[s].n = want[p].src => lbr_data[s].from = "src"
Passed(p, s) == msr[p].left < Count /\ (s = Count - 1 \/ s < msr[p].o)
Saving(p) ==
  pc[p] = "entry" =>
    /\ Age(tos[cpu[p]], msr[p].i) = Count - 1 - msr[p].o
    /\ msr[p].o = IF msr[p].left = Count THEN Count - 1 ELSE Count - 1 - msr[p].left
    /\ \A s \in Slots : Passed(p, s) => Saved(p, s)
Reading(p) ==
  \/ pc[p] \in {"index", "create", "wake", "read", "done"}
  \/ pc[p] \in {"test", "copy"} /\ rd[p].at # Discard
Dumped(p) == Reading(p) /\ HaveData => \A s \in Slots : Saved(p, s)
Copied(p, n) ==
  \A b \in 0 .. Size - 1 : b < n => buf[p][b] = <<lbr_data[b \div RecordSize], b % RecordSize>>
Position(p) ==
  /\ pc[p] \in {"create", "wake"} => index = 0
  /\ pc[p] = "read" => index = next[p] * RecordSize /\ Copied(p, index)
  /\ pc[p] \in {"test", "copy"} /\ rd[p].at # Discard => index = rd[p].at /\ Copied(p, index)
  /\ pc[p] = "copy" => rd[p].seen = index /\ index < Size
  /\ pc[p] = "done" => HaveData /\ Copied(p, Size)
  /\ ~HaveData /\ (pc[p] = "read" \/ (pc[p] = "test" /\ rd[p].at # Discard)) => next[p] = 0 /\ index = 0
Created(c) == threads[ts[c]].st = "new" /\ threads[ts[c]].cpu = c
Waking(p) ==
  /\ pc[p] = "create" => \A c \in ThreadCPUs \ todo[p] : Created(c)
  /\ pc[p] = "wake" => \A c \in todo[p] : Created(c)
Measured(p) ==
  pc[p] = "measured" =>
    sample[p] = IF want[p].src > want[p].n - Count THEN want[p].src ELSE NotFound
Client(p) ==
  Stopped(p) /\ Saving(p) /\ Dumped(p) /\ Position(p) /\ Waking(p) /\ Measured(p)
DumpInvariant == (\A p \in Clients : Client(p)) /\ ValidAccesses

\* The measured branch is never later than the stop it was to be found before.
WantOK == \A p \in Clients : want[p].src <= want[p].n

OneClient == \A p, q \in Clients : p = q

\* A register numbered one later is one younger, and the one written is new.
LEMMA AgeSucc ==
  ASSUME NEW t \in Slots, NEW s \in Slots
  PROVE  /\ Age(t, s) \in Slots /\ Age(Succ(t), Succ(t)) = 0
         /\ s # Succ(t) => Age(Succ(t), s) = Age(t, s) + 1
         /\ Age(t, Succ(t)) = Count - 1
         /\ Age(t, Succ(s)) = IF Age(t, s) = 0 THEN Count - 1 ELSE Age(t, s) - 1
<1>1. Count \in Nat /\ t \in Nat /\ s \in Nat /\ t < Count /\ s < Count /\ Count >= 1
  BY Constants DEF Slots
<1> QED
  BY <1>1 DEF Age, Succ, Slots

LEMMA InitRing == Init => RingOK
<1> SUFFICES ASSUME Init, NEW c \in CPUs, NEW s \in Slots PROVE lastSrc[c] <= count[c] /\ RingSlot(c, s)
  BY Constants DEF RingOK
<1>1. count[c] = 0 /\ lastSrc[c] = -Count /\ tos[c] \in Slots
  BY DEF Init, NotFound
<1>2. ring[c][s] = Entry(c, -Age(tos[c], s), "old")
  <2>1. ring[c][s] = Entry(c, -((tos[c] - s) % Count), "old")
    BY DEF Init
  <2> QED
    BY <1>1, <2>1, AgeIs
<1>3. Age(tos[c], s) \in Nat /\ Age(tos[c], s) < Count
  BY <1>1, AgeIs, Constants DEF Slots
<1>4. ring[c][s].cpu = c /\ ring[c][s].n = -Age(tos[c], s) /\ ring[c][s].from = "old"
  BY <1>2 DEF Entry
<1> QED
  BY <1>1, <1>3, <1>4, Constants DEF RingSlot

LEMMA RecordRing ==
  ASSUME CpuTypes, RingOK, NEW c \in CPUs, NEW from \in {"kernel", "src", "other"}, Record(c, from)
  PROVE  RingOK'
<1>1. PICK r, m, l : /\ r = Succ(tos[c]) /\ m = count[c] + 1
                     /\ l = IF from = "src" THEN m ELSE lastSrc[c]
  OBVIOUS
<1>2. tos[c] \in Slots /\ r \in Slots /\ r = (tos[c] + 1) % Count
  BY <1>1, SuccIs DEF CpuTypes
<1>3. /\ tos' = [tos EXCEPT ![c] = r] /\ ring' = [ring EXCEPT ![c][r] = Entry(c, m, from)]
      /\ count' = [count EXCEPT ![c] = m] /\ lastSrc' = [lastSrc EXCEPT ![c] = l]
  BY <1>1, <1>2 DEF Record, CpuTypes
<1>4. ASSUME NEW d \in CPUs, d # c PROVE (lastSrc[d] <= count[d])' /\ \A s \in Slots : RingSlot(d, s)'
  <2>1. tos'[d] = tos[d] /\ ring'[d] = ring[d] /\ count'[d] = count[d] /\ lastSrc'[d] = lastSrc[d]
    BY <1>3, <1>4 DEF CpuTypes
  <2> QED
    BY <2>1 DEF RingOK, RingSlot
<1>5. tos'[c] = r /\ count'[c] = m /\ lastSrc'[c] = l
      /\ \A s \in Slots : ring'[c][s] = IF s = r THEN Entry(c, m, from) ELSE ring[c][s]
  BY <1>2, <1>3 DEF CpuTypes
<1>6. count[c] \in Nat /\ lastSrc[c] \in Int /\ lastSrc[c] <= count[c]
  BY Constants DEF CpuTypes, Numbers, RingOK
<1>7. l <= m /\ l \in Int /\ m \in Nat
  BY <1>1, <1>6
<1>8. ASSUME NEW s \in Slots PROVE RingSlot(c, s)'
  <2>1. CASE s = r
    <3>1. ring'[c][s].cpu = c /\ ring'[c][s].n = m /\ ring'[c][s].from = from
      BY <1>5, <2>1 DEF Entry
    <3>2. Age(r, s) = 0
      BY <1>1, <1>2, <2>1, AgeSucc
    <3>3. (m = l => from = "src") /\ m = m - 0
      BY <1>1, <1>6, <1>7
    <3> QED
      BY <1>5, <1>7, <3>1, <3>2, <3>3, <1>1 DEF RingSlot
  <2>2. CASE s # r
    <3>1. ring'[c][s] = ring[c][s] /\ RingSlot(c, s)
      BY <1>5, <2>2 DEF RingOK
    <3>2. Age(r, s) = Age(tos[c], s) + 1 /\ Age(tos[c], s) \in Slots
      <4>1. PICK u \in Slots : u = tos[c]
        BY <1>2
      <4>2. s # Succ(u)
        BY <1>1, <2>2, <4>1
      <4>3. Age(Succ(u), s) = Age(u, s) + 1 /\ Age(u, s) \in Slots
        BY <4>2, AgeSucc
      <4> QED
        BY <1>1, <4>1, <4>3
    <3>3. PICK a \in Nat : a = Age(tos[c], s)
      BY <3>2, Constants
    <3>4. ring[c][s].n = count[c] - a /\ ring[c][s].cpu = c /\ ring[c][s].n \in Int
      BY <1>6, <3>1, <3>3 DEF RingSlot
    <3>5. ring[c][s].n = m - (a + 1) /\ ring[c][s].n < m
      BY <1>1, <1>6, <3>3, <3>4
    <3>6. /\ ring[c][s].from = "src" => ring[c][s].n <= l
          /\ ring[c][s].n = l => ring[c][s].from = "src"
      BY <1>1, <1>6, <1>7, <3>1, <3>4, <3>5 DEF RingSlot
    <3> QED
      BY <1>5, <3>1, <3>2, <3>3, <3>4, <3>5, <3>6 DEF RingSlot
  <2> QED
    BY <2>1, <2>2
<1>9. (lastSrc[c] <= count[c])'
  BY <1>5, <1>7
<1> QED
  BY <1>4, <1>8, <1>9 DEF RingOK

LEMMA NextRing == ASSUME CpuTypes, RingOK, [Next]_vars PROVE RingOK'
<1>1. ASSUME UNCHANGED <<ring, tos, count, lastSrc>> PROVE RingOK'
  BY <1>1 DEF RingOK, RingSlot
<1>2. ASSUME NEW c \in CPUs, CpuStep(c) PROVE RingOK'
  BY <1>2, RecordRing DEF CpuStep, UserBranch, KernelBranch
<1>3. ASSUME NEW p \in Clients, KernelStep(p) \/ ClientStep(p) \/ Migrate(p)
      PROVE  UNCHANGED <<ring, tos, count, lastSrc>>
  BY <1>3 DEF KernelStep, ClientStep, Migrate, ReadTos, ReadNext, ResetIndex, CreateThread, CreateFails, WakeThread,
     TestIndex, CopyByte, CopyFromNull, ReadRecord, OtherRead, ReadCall, Measure, NextRound, Ioctl, hwVars
<1>4. ASSUME NEW t \in DOMAIN threads, ThreadStep(t) PROVE UNCHANGED <<ring, tos, count, lastSrc>>
  BY <1>4 DEF ThreadStep, EnableLBR, FilterLBR
<1>5. UNCHANGED vars => UNCHANGED <<ring, tos, count, lastSrc>>
  BY DEF vars, hwVars
<1> QED
  BY <1>1, <1>2, <1>3, <1>4, <1>5 DEF Next

LEMMA InitDump == Init => DumpInvariant
BY DEF Init, DumpInvariant, ValidAccesses, Client, Stopped, Saving, Dumped, Reading, Position, Waking, Measured

LEMMA BranchDump ==
  ASSUME TypeInvariant, DumpInvariant, NEW c \in CPUs, CpuStep(c)
  PROVE  DumpInvariant'
<1>1. PICK from : Record(c, from)
  BY DEF CpuStep, UserBranch, KernelBranch
<1>2. /\ on[c]
      /\ UNCHANGED <<on, lbr_data, index, threads, ts, pc, cpu, msr, todo, rd, next, buf, sample, want, failed, bad>>
  BY <1>1 DEF Record, bufVars, threadVars, readVars, faultVars
<1>3. \A d \in CPUs : d # c => tos'[d] = tos[d] /\ count'[d] = count[d] /\ lastSrc'[d] = lastSrc[d]
  BY <1>1 DEF Record, TypeInvariant, Types, CpuTypes
<1>4. ASSUME NEW p \in Clients PROVE Client(p)'
  <2>1. Client(p) /\ cpu[p] \in CPUs
    BY DEF DumpInvariant, TypeInvariant, Types, KernelTypes
  <2>2. pc[p] \in {"tos", "entry"} =>
          cpu[p] # c /\ tos'[cpu[p]] = tos[cpu[p]] /\ count'[cpu[p]] = count[cpu[p]] /\ lastSrc'[cpu[p]] = lastSrc[cpu[p]]
    BY <1>2, <1>3, <2>1 DEF Client, Stopped
  <2>3. Stopped(p)'
    BY <1>2, <2>1, <2>2 DEF Client, Stopped, HaveData
  <2>4. \A s : Saved(p, s)' <=> Saved(p, s)
    BY <1>2 DEF Saved
  <2>5. Saving(p)'
    BY <1>2, <2>1, <2>2, <2>4 DEF Client, Saving, Passed
  <2>6. Dumped(p)'
    BY <1>2, <2>1, <2>4 DEF Client, Dumped, Reading, HaveData
  <2>7. Position(p)' /\ Waking(p)' /\ Measured(p)'
    BY <1>2, <2>1 DEF Client, Position, Copied, HaveData, Waking, Created, Measured
  <2> QED
    BY <2>3, <2>5, <2>6, <2>7 DEF Client
<1>5. ValidAccesses'
  BY <1>2 DEF DumpInvariant, ValidAccesses
<1> QED
  BY <1>4, <1>5 DEF DumpInvariant

LEMMA ThreadDump ==
  ASSUME TypeInvariant, DumpInvariant, NEW t \in DOMAIN threads, ThreadStep(t)
  PROVE  DumpInvariant'
<1>1. /\ UNCHANGED <<tos, count, lastSrc, lbr_data, index, ts, pc, cpu, msr, todo, rd, next, buf, sample,
                     want, failed, bad>>
  BY DEF ThreadStep, EnableLBR, FilterLBR, bufVars, readVars, faultVars
<1>2. PICK st \in {"select", "gone"} : threads' = [threads EXCEPT ![t].st = st]
  BY DEF ThreadStep, EnableLBR, FilterLBR
<1>3. threads[t].st # "new" /\ threads[t].cpu \in CPUs
  <2>1. threads[t] \in Threads
    BY DEF TypeInvariant, Types, PointerTypes
  <2> QED
    BY <2>1, CPUAssumption DEF ThreadStep, EnableLBR, FilterLBR, Threads
<1>4. \A c \in ThreadCPUs : Created(c) => Created(c)'
  BY <1>1, <1>2, <1>3 DEF Created, TypeInvariant, Types, PointerTypes
<1>5. ASSUME NEW p \in Clients, pc[p] \in {"tos", "entry"} PROVE on'[cpu[p]] = on[cpu[p]]
  <2>1. EnableLBR(t) => cpu[p] # threads[t].cpu
    BY <1>5 DEF EnableLBR, Free
  <2>2. on' = on \/ (on' = [on EXCEPT ![threads[t].cpu] = TRUE] /\ cpu[p] # threads[t].cpu)
    BY <2>1 DEF ThreadStep, EnableLBR, FilterLBR
  <2> QED
    BY <2>2 DEF TypeInvariant, Types, CpuTypes, KernelTypes
<1>6. ASSUME NEW p \in Clients PROVE Client(p)'
  <2>1. Client(p)
    BY DEF DumpInvariant
  <2>2. \A s : Saved(p, s)' <=> Saved(p, s)
    BY <1>1 DEF Saved
  <2>3. Stopped(p)'
    BY <1>1, <1>5, <2>1 DEF Client, Stopped, HaveData
  <2>4. Saving(p)' /\ Dumped(p)'
    BY <1>1, <2>1, <2>2 DEF Client, Saving, Passed, Dumped, Reading, HaveData
  <2>5. Position(p)' /\ Measured(p)'
    BY <1>1, <2>1 DEF Client, Position, Copied, HaveData, Measured
  <2>6. todo[p] \subseteq ThreadCPUs
    BY DEF TypeInvariant, Types, KernelTypes
  <2>7. Waking(p)'
    BY <1>1, <1>4, <2>1, <2>6 DEF Client, Waking
  <2> QED
    BY <2>3, <2>4, <2>5, <2>7 DEF Client
<1>7. ValidAccesses'
  BY <1>1 DEF DumpInvariant, ValidAccesses
<1> QED
  BY <1>6, <1>7 DEF DumpInvariant

\* Steps of the client.
LEMMA OneClientDump ==
  ASSUME OneClient, NEW p \in Clients, Client(p)', ValidAccesses'
  PROVE  DumpInvariant'
BY DEF OneClient, DumpInvariant

LEMMA IdleDump ==
  ASSUME TypeInvariant, DumpInvariant, OneClient, NEW p \in Clients,
         Migrate(p) \/ NextRound(p) \/ CreateFails(p) \/ CopyFromNull(p)
  PROVE  DumpInvariant'
<1>1. pc'[p] \in {"run", "dead"}
  <2>1. (pc' = pc /\ pc[p] = "run") \/ \E x \in {"run", "dead"} : pc' = [pc EXCEPT ![p] = x]
    BY DEF Migrate, NextRound, CreateFails, CopyFromNull, Goto
  <2> QED
    BY <2>1 DEF TypeInvariant, Types, KernelTypes
<1>2. Client(p)'
  BY <1>1 DEF Client, Stopped, Saving, Dumped, Reading, Position, Waking, Measured
<1>3. ValidAccesses'
  BY DEF Migrate, NextRound, CreateFails, CopyFromNull, faultVars, DumpInvariant, ValidAccesses, HaveData
<1> QED
  BY <1>2, <1>3, OneClientDump

LEMMA IoctlDump ==
  ASSUME TypeInvariant, DumpInvariant, OneClient, NEW p \in Clients, Ioctl(p)
  PROVE  DumpInvariant'
<1>1. /\ pc' = [pc EXCEPT ![p] = IF HaveData THEN "tos" ELSE "index"]
      /\ on' = [on EXCEPT ![cpu[p]] = FALSE]
      /\ want' = [want EXCEPT ![p] = [cpu |-> cpu[p], n |-> count[cpu[p]], src |-> lastSrc[cpu[p]]]]
      /\ UNCHANGED <<count, lastSrc, cpu, failed, bad>>
  BY DEF Ioctl, Goto
<1>2. /\ pc'[p] = IF HaveData THEN "tos" ELSE "index"
      /\ ~on'[cpu[p]]
      /\ want'[p] = [cpu |-> cpu[p], n |-> count[cpu[p]], src |-> lastSrc[cpu[p]]]
  BY <1>1 DEF TypeInvariant, Types, CpuTypes, KernelTypes, ReadTypes
<1>3. HaveData' <=> HaveData
  BY <1>1 DEF HaveData
<1>4. Client(p)'
  BY <1>1, <1>2, <1>3 DEF Client, Stopped, Saving, Dumped, Reading, Position, Waking, Measured
<1>5. ValidAccesses'
  BY <1>1 DEF DumpInvariant, ValidAccesses
<1> QED
  BY <1>4, <1>5, OneClientDump

LEMMA ReadTosDump ==
  ASSUME TypeInvariant, DumpInvariant, OneClient, NEW p \in Clients, ReadTos(p)
  PROVE  DumpInvariant'
<1>1. /\ pc[p] = "tos" /\ pc' = [pc EXCEPT ![p] = "entry"]
      /\ msr' = [msr EXCEPT ![p] = [i |-> tos[cpu[p]], o |-> Count - 1, left |-> Count]]
      /\ UNCHANGED <<tos, on, count, lastSrc, cpu, want, failed, bad>>
  BY DEF ReadTos, Goto, hwVars, faultVars
<1>2. pc'[p] = "entry" /\ msr'[p].i = tos[cpu[p]] /\ msr'[p].o = Count - 1 /\ msr'[p].left = Count
  BY <1>1 DEF TypeInvariant, Types, KernelTypes
<1>3. Stopped(p)'
  BY <1>1, <1>2 DEF DumpInvariant, Client, Stopped, HaveData
<1>4. tos[cpu[p]] \in Slots
  BY DEF TypeInvariant, Types, KernelTypes, CpuTypes
<1>5. Age(tos[cpu[p]], tos[cpu[p]]) = Count - 1 - (Count - 1) /\ ~(Count < Count)
  BY <1>4, Constants DEF Age, Slots
<1>6. Saving(p)'
  BY <1>1, <1>2, <1>5 DEF Saving, Passed
<1>7. Client(p)'
  BY <1>2, <1>3, <1>6 DEF Client, Dumped, Reading, Position, Waking, Measured
<1>8. ValidAccesses'
  BY <1>1 DEF DumpInvariant, ValidAccesses
<1> QED
  BY <1>7, <1>8, OneClientDump

LEMMA ReadNextDump ==
  ASSUME TypeInvariant, RingOK, DumpInvariant, OneClient, NEW p \in Clients, ReadNext(p)
  PROVE  DumpInvariant'
<1>0. PICK c \in CPUs, i \in Slots, o \in Slots, left \in 1 .. Count :
        c = cpu[p] /\ i = msr[p].i /\ o = msr[p].o /\ left = msr[p].left
  <2>1. pc[p] = "entry" /\ msr[p] \in Msrs /\ msr[p].left >= 1
    BY DEF ReadNext, TypeInvariant, Types, KernelTypes, LoopsOK, Loops
  <2>2. msr[p].left \in 1 .. Count
    BY <2>1, Constants DEF Msrs
  <2> QED
    BY <2>1, <2>2 DEF Msrs, TypeInvariant, Types, KernelTypes
<1>1. /\ pc[p] = "entry" /\ pc' = [pc EXCEPT ![p] = IF left = 1 THEN "index" ELSE "entry"]
      /\ lbr_data' = [lbr_data EXCEPT ![o] = ring[c][i]]
      /\ msr' = [msr EXCEPT ![p] = IF left = 1 THEN NoMsr
                              ELSE [i |-> (i + 1) % Count, o |-> (o + 1) % Count, left |-> left - 1]]
      /\ UNCHANGED <<tos, on, count, lastSrc, cpu, want, failed, bad>>
  BY <1>0 DEF ReadNext, Goto, hwVars, faultVars, TypeInvariant, Types, KernelTypes
<1>2. /\ pc'[p] = (IF left = 1 THEN "index" ELSE "entry")
      /\ \A s \in Slots : lbr_data'[s] = IF s = o THEN ring[c][i] ELSE lbr_data[s]
      /\ left # 1 => msr'[p].i = Succ(i) /\ msr'[p].o = Succ(o) /\ msr'[p].left = left - 1
  BY <1>1, SuccIs DEF TypeInvariant, Types, KernelTypes, MemoryTypes
<1>3. /\ Stopped(p) /\ Saving(p) /\ RingSlot(c, i) /\ tos[c] \in Slots /\ count[c] \in Nat
  BY DEF DumpInvariant, Client, RingOK, TypeInvariant, Types, CpuTypes
<1>4. /\ want[p].cpu = c /\ want[p].n = count[c] /\ want[p].src = lastSrc[c] /\ HaveData /\ ~on[c]
      /\ want[p] = [cpu |-> c, n |-> count[c], src |-> lastSrc[c]]
  BY <1>0, <1>1, <1>3 DEF Stopped
<1>5. /\ Age(tos[c], i) = Count - 1 - o
      /\ o = IF left = Count THEN Count - 1 ELSE Count - 1 - left
      /\ \A s \in Slots : (left < Count /\ (s = Count - 1 \/ s < o)) => Saved(p, s)
  BY <1>0, <1>1, <1>3 DEF Saving, Passed
<1>6. Count \in Nat /\ Count >= 1 /\ o \in Nat /\ left \in Nat
  BY Constants
<1>7. Saved(p, o)'
  <2>1. ring[c][i].n = count[c] - Age(tos[c], i)
    BY <1>3 DEF RingSlot
  <2>2. ring[c][i].n = count[c] - Count + 1 + o
    BY <1>3, <1>5, <1>6, <2>1
  <2>3. lbr_data'[o] = ring[c][i] /\ want' = want
    BY <1>1, <1>2
  <2> QED
    BY <1>3, <1>4, <2>2, <2>3 DEF Saved, RingSlot
<1>8. \A s \in Slots : s # o /\ Saved(p, s) => Saved(p, s)'
  BY <1>1, <1>2 DEF Saved
<1>9. \A s \in Slots : (s = o \/ (left < Count /\ (s = Count - 1 \/ s < o))) => Saved(p, s)'
  BY <1>5, <1>7, <1>8
<1>10. Stopped(p)'
  BY <1>0, <1>1, <1>2, <1>4 DEF Stopped, HaveData
<1>11. CASE left = 1
  <2>1. \A s \in Slots : s = o \/ (left < Count /\ (s = Count - 1 \/ s < o))
    BY <1>5, <1>6, <1>11 DEF Slots
  <2>2. Dumped(p)'
    BY <1>9, <2>1 DEF Dumped
  <2>3. Client(p)'
    BY <1>2, <1>10, <1>11, <2>2 DEF Client, Saving, Position, Waking, Measured
  <2>4. ValidAccesses'
    BY <1>1 DEF DumpInvariant, ValidAccesses
  <2> QED
    BY <2>3, <2>4, OneClientDump
<1>12. CASE left # 1
  <2>1. /\ Succ(o) = IF left - 1 = Count THEN Count - 1 ELSE Count - 1 - (left - 1)
        /\ \A s \in Slots : left - 1 < Count /\ (s = Count - 1 \/ s < Succ(o)) =>
             s = o \/ (left < Count /\ (s = Count - 1 \/ s < o))
    BY <1>0, <1>5, <1>6, <1>12 DEF Succ, Slots
  <2>2. Age(tos[c], Succ(i)) = IF Age(tos[c], i) = 0 THEN Count - 1 ELSE Age(tos[c], i) - 1
    BY <1>3, AgeSucc
  <2>3. Age(tos[c], Succ(i)) = Count - 1 - Succ(o)
    <3>1. PICK a, x : a = Age(tos[c], i) /\ x = Age(tos[c], Succ(i))
      OBVIOUS
    <3>2. a = Count - 1 - o /\ x = IF a = 0 THEN Count - 1 ELSE a - 1
      BY <1>5, <2>2, <3>1
    <3>3. x = Count - 1 - Succ(o)
      BY <1>6, <3>2 DEF Succ
    <3> QED
      BY <3>1, <3>3
  <2>4. Saving(p)'
    <3>1. \A s \in Slots : Passed(p, s)' => Saved(p, s)'
      BY <1>2, <1>9, <1>12, <2>1 DEF Passed
    <3>2. (Age(tos[cpu[p]], msr[p].i) = Count - 1 - msr[p].o)'
      BY <1>0, <1>1, <1>2, <1>12, <2>3
    <3>3. (msr[p].o = IF msr[p].left = Count THEN Count - 1 ELSE Count - 1 - msr[p].left)'
      BY <1>2, <1>12, <2>1
    <3> QED
      BY <3>1, <3>2, <3>3 DEF Saving
  <2>5. Client(p)'
    BY <1>2, <1>10, <1>12, <2>4 DEF Client, Dumped, Reading, Position, Waking, Measured
  <2>6. ValidAccesses'
    BY <1>1 DEF DumpInvariant, ValidAccesses
  <2> QED
    BY <2>5, <2>6, OneClientDump
<1> QED
  BY <1>11, <1>12

\* The trail in the buffer stays while nothing writes there.
LEMMA KeepsTrail ==
  ASSUME NEW p \in Clients, Dumped(p), Reading(p)' => Reading(p),
         UNCHANGED <<lbr_data, want>>, HaveData' <=> HaveData
  PROVE  Dumped(p)'
BY DEF Dumped, Saved

LEMMA ResetIndexDump ==
  ASSUME TypeInvariant, DumpInvariant, OneClient, NEW p \in Clients, ResetIndex(p)
  PROVE  DumpInvariant'
<1>1. /\ pc[p] = "index" /\ index' = 0 /\ todo' = [todo EXCEPT ![p] = ThreadCPUs] /\ pc' = [pc EXCEPT ![p] = "create"]
      /\ UNCHANGED <<lbr_data, want, failed, bad>>
  BY DEF ResetIndex, Goto, faultVars
<1>2. pc'[p] = "create" /\ todo'[p] = ThreadCPUs
  BY <1>1 DEF TypeInvariant, Types, KernelTypes
<1>3. Dumped(p)'
  BY <1>1, <1>2, KeepsTrail DEF DumpInvariant, Client, Reading, HaveData
<1>4. Client(p)'
  BY <1>1, <1>2, <1>3 DEF Client, Stopped, Saving, Position, Waking, Measured
<1>5. ValidAccesses'
  BY <1>1 DEF DumpInvariant, ValidAccesses
<1> QED
  BY <1>4, <1>5, OneClientDump

LEMMA CreateThreadDump ==
  ASSUME TypeInvariant, DumpInvariant, OneClient, NEW p \in Clients, CreateThread(p)
  PROVE  DumpInvariant'
<1>1. PICK c : c = First(todo[p])
  OBVIOUS
<1>2. /\ threads' = Append(threads, [cpu |-> c, st |-> "new"])
      /\ ts' = [ts EXCEPT ![c] = Len(threads) + 1]
      /\ todo' = [todo EXCEPT ![p] = IF @ = {c} THEN ThreadCPUs ELSE @ \ {c}]
      /\ pc' = [pc EXCEPT ![p] = IF todo[p] = {c} THEN "wake" ELSE "create"] /\ pc[p] = "create"
      /\ UNCHANGED <<lbr_data, index, want, failed, bad>>
  BY <1>1 DEF CreateThread, Goto, bufVars, faultVars
<1>3. /\ pc'[p] = (IF todo[p] = {c} THEN "wake" ELSE "create")
      /\ todo'[p] = IF todo[p] = {c} THEN ThreadCPUs ELSE todo[p] \ {c}
  BY <1>2 DEF TypeInvariant, Types, KernelTypes
<1>4. todo[p] \in SUBSET ThreadCPUs /\ todo[p] # {} /\ c \in todo[p]
  BY <1>1, <1>2, FirstIn DEF TypeInvariant, Types, KernelTypes
<1>5. Created(c)'
  <2>1. threads \in Seq(Threads) /\ [cpu |-> c, st |-> "new"] \in Threads
    BY <1>4 DEF TypeInvariant, Types, PointerTypes, Threads
  <2>2. threads'[Len(threads) + 1] = [cpu |-> c, st |-> "new"] /\ ts'[c] = Len(threads) + 1
    BY <1>2, <1>4, <2>1 DEF TypeInvariant, Types, PointerTypes
  <2> QED
    BY <2>2 DEF Created
<1>6. ASSUME NEW d \in ThreadCPUs, d # c, Created(d) PROVE Created(d)'
  <2>1. ts'[d] = ts[d] /\ ts[d] \in DOMAIN threads /\ threads \in Seq(Threads)
    BY <1>2, <1>6 DEF TypeInvariant, Types, PointerTypes
  <2>2. threads'[ts[d]] = threads[ts[d]]
    BY <1>2, <2>1
  <2> QED
    BY <1>6, <2>1, <2>2 DEF Created
<1>7. Waking(p)'
  <2>1. \A d \in ThreadCPUs \ todo[p] : Created(d)
    BY <1>2 DEF DumpInvariant, Client, Waking
  <2>2. \A d \in ThreadCPUs : d \notin todo[p] \/ d = c => Created(d)'
    BY <1>4, <1>5, <1>6, <2>1
  <2> QED
    BY <1>3, <1>4, <2>2 DEF Waking
<1>8. Dumped(p)'
  BY <1>2, <1>3, KeepsTrail DEF DumpInvariant, Client, Reading, HaveData
<1>9. Position(p)'
  BY <1>2, <1>3 DEF DumpInvariant, Client, Position
<1>10. Client(p)'
  BY <1>3, <1>7, <1>8, <1>9 DEF Client, Stopped, Saving, Measured
<1>11. ValidAccesses'
  BY <1>2 DEF DumpInvariant, ValidAccesses
<1> QED
  BY <1>10, <1>11, OneClientDump

LEMMA WakeThreadDump ==
  ASSUME TypeInvariant, DumpInvariant, OneClient, NEW p \in Clients, WakeThread(p)
  PROVE  DumpInvariant'
<1>1. PICK c, t : c = First(todo[p]) /\ t = ts[c]
  OBVIOUS
<1>2. todo[p] \in SUBSET ThreadCPUs /\ todo[p] # {} /\ c \in todo[p] /\ pc[p] = "wake"
  BY <1>1, FirstIn DEF WakeThread, TypeInvariant, Types, KernelTypes
<1>3. Created(c) /\ \A d \in todo[p] : Created(d)
  BY <1>2 DEF DumpInvariant, Client, Waking
<1>4. /\ threads' = [threads EXCEPT ![t].st = "ready"] /\ todo' = [todo EXCEPT ![p] = @ \ {c}]
      /\ IF todo[p] = {c} THEN pc' = [pc EXCEPT ![p] = "read"] /\ next' = [next EXCEPT ![p] = 0]
         ELSE pc' = pc /\ next' = next
      /\ UNCHANGED <<lbr_data, index, ts, want, failed, bad>>
  BY <1>1, <1>3 DEF WakeThread, Goto, Created, bufVars
<1>5. /\ todo'[p] = todo[p] \ {c}
      /\ IF todo[p] = {c} THEN pc'[p] = "read" /\ next'[p] = 0 ELSE pc'[p] = "wake"
  BY <1>2, <1>4 DEF TypeInvariant, Types, KernelTypes, ReadTypes
<1>6. ASSUME NEW d \in todo[p] \ {c} PROVE Created(d)'
  <2>1. ts[d] # t /\ threads[ts[d]].st = "new" /\ threads[ts[d]].cpu = d
    BY <1>1, <1>3 DEF Created
  <2>2. threads'[ts[d]] = threads[ts[d]]
    <3>1. ts[d] \in DOMAIN threads
      BY <1>2 DEF TypeInvariant, Types, PointerTypes
    <3> QED
      BY <1>4, <2>1, <3>1
  <2> QED
    BY <1>4, <2>1, <2>2 DEF Created
<1>7. Waking(p)'
  BY <1>5, <1>6 DEF Waking
<1>8. Dumped(p)'
  BY <1>2, <1>4, <1>5, KeepsTrail DEF DumpInvariant, Client, Reading, HaveData
<1>9. Position(p)'
  <2>1. index' = 0 /\ 0 * RecordSize = 0
    BY <1>2, <1>4, Constants DEF DumpInvariant, Client, Position
  <2>2. Copied(p, index)'
    BY <2>1, Constants DEF Copied
  <2> QED
    BY <1>5, <2>1, <2>2 DEF Position
<1>10. Client(p)'
  BY <1>5, <1>7, <1>8, <1>9 DEF Client, Stopped, Saving, Measured
<1>11. ValidAccesses'
  BY <1>4 DEF DumpInvariant, ValidAccesses
<1> QED
  BY <1>10, <1>11, OneClientDump

LEMMA ReadRecordDump ==
  ASSUME TypeInvariant, DumpInvariant, OneClient, NEW p \in Clients, ReadRecord(p)
  PROVE  DumpInvariant'
<1>1. /\ pc[p] = "read" /\ index' = (IF index = Size THEN 0 ELSE index)
      /\ rd' = [rd EXCEPT ![p] = [length |-> RecordSize, seen |-> 0, at |-> next[p] * RecordSize]]
      /\ pc' = [pc EXCEPT ![p] = "test"] /\ UNCHANGED <<lbr_data, next, buf, want, failed, bad>>
  BY DEF ReadRecord, ReadCall, Goto, faultVars
<1>2. pc'[p] = "test" /\ rd'[p].at = next[p] * RecordSize
  BY <1>1 DEF TypeInvariant, Types, KernelTypes, ReadTypes
<1>3. PICK k \in Slots : k = next[p]
  BY <1>1, Constants DEF TypeInvariant, Types, ReadTypes, LoopsOK, Loops, Slots
<1>4. k * RecordSize \in 0 .. Size - 1
  BY StartOf
<1>5. index = k * RecordSize /\ Copied(p, index)
  BY <1>1, <1>3 DEF DumpInvariant, Client, Position
<1>6. index' = index /\ rd'[p].at = index
  BY <1>1, <1>2, <1>3, <1>4, <1>5, Constants
<1>7. Position(p)'
  <2>1. Copied(p, index)'
    BY <1>1, <1>5, <1>6 DEF Copied
  <2>2. ~HaveData' => next'[p] = 0 /\ index' = 0
    BY <1>1, <1>6 DEF DumpInvariant, Client, Position, HaveData
  <2> QED
    BY <1>2, <1>6, <2>1, <2>2 DEF Position
<1>8. Dumped(p)'
  BY <1>1, KeepsTrail DEF DumpInvariant, Client, Reading, HaveData
<1>9. Client(p)'
  BY <1>2, <1>7, <1>8 DEF Client, Stopped, Saving, Waking, Measured
<1>10. ValidAccesses'
  BY <1>1 DEF DumpInvariant, ValidAccesses
<1> QED
  BY <1>9, <1>10, OneClientDump

LEMMA OtherReadDump ==
  ASSUME TypeInvariant, DumpInvariant, OneClient, NEW p \in Clients, OtherRead(p)
  PROVE  DumpInvariant'
<1>1. PICK length \in Lengths : /\ rd' = [rd EXCEPT ![p] = [length |-> length, seen |-> 0, at |-> Discard]]
                                /\ pc' = [pc EXCEPT ![p] = "test"] /\ UNCHANGED <<failed, bad>>
  BY DEF OtherRead, ReadCall, Goto, faultVars
<1>2. pc'[p] = "test" /\ rd'[p].at = Discard
  BY <1>1 DEF TypeInvariant, Types, KernelTypes, ReadTypes
<1>3. Client(p)'
  BY <1>2 DEF Client, Stopped, Saving, Dumped, Reading, Position, Waking, Measured
<1>4. ValidAccesses'
  BY <1>1 DEF DumpInvariant, ValidAccesses
<1> QED
  BY <1>3, <1>4, OneClientDump

LEMMA TestIndexDump ==
  ASSUME TypeInvariant, DumpInvariant, OneClient, NEW p \in Clients, TestIndex(p)
  PROVE  DumpInvariant'
<1>0. /\ pc[p] = "test" /\ UNCHANGED <<lbr_data, index, buf, want, failed, bad>>
      /\ index \in Nat /\ rd[p] \in Reads /\ rd[p].length \in Nat /\ Loops(p) /\ Position(p) /\ Dumped(p)
      /\ next[p] \in 0 .. Count
  BY DEF TestIndex, TypeInvariant, Types, MemoryTypes, ReadTypes, Reads, LoopsOK, DumpInvariant, Client,
     bufVars, faultVars
<1>1. HaveData' <=> HaveData
  BY <1>0 DEF HaveData
<1>2. ValidAccesses'
  BY <1>0 DEF DumpInvariant, ValidAccesses
<1>3. CASE InLoop(p)
  <2>1. /\ pc' = [pc EXCEPT ![p] = "copy"] /\ rd' = [rd EXCEPT ![p].seen = index] /\ next' = next
    BY <1>3 DEF TestIndex, Goto
  <2>2. pc'[p] = "copy" /\ rd'[p].seen = index /\ rd'[p].at = rd[p].at /\ index < Size
    BY <1>3, <2>1 DEF TypeInvariant, Types, KernelTypes, ReadTypes, Reads, InLoop
  <2>3. Dumped(p)'
    BY <1>0, <1>1, <2>2, KeepsTrail DEF Reading
  <2>4. Position(p)'
    BY <1>0, <1>1, <2>1, <2>2 DEF Position, Copied
  <2>5. Client(p)'
    BY <2>2, <2>3, <2>4 DEF Client, Stopped, Saving, Waking, Measured
  <2> QED
    BY <1>2, <2>5, OneClientDump
<1>4. CASE ~InLoop(p) /\ rd[p].at = Discard
  <2>1. pc'[p] = "run"
    BY <1>4 DEF TestIndex, Goto, TypeInvariant, Types, KernelTypes
  <2>2. Client(p)'
    BY <2>1 DEF Client, Stopped, Saving, Dumped, Reading, Position, Waking, Measured
  <2> QED
    BY <1>2, <2>2, OneClientDump
<1>5. CASE ~InLoop(p) /\ rd[p].at # Discard
  <2>1. /\ next' = [next EXCEPT ![p] = @ + 1]
        /\ pc' = [pc EXCEPT ![p] = IF next[p] + 1 = Count THEN "done" ELSE "read"]
    BY <1>5 DEF TestIndex, Goto
  <2>2. next'[p] = next[p] + 1 /\ pc'[p] = IF next[p] + 1 = Count THEN "done" ELSE "read"
    BY <2>1 DEF TypeInvariant, Types, KernelTypes, ReadTypes
  <2>3. PICK k \in Slots : k = next[p]
    BY <1>0, <1>5, Constants DEF Loops, Slots
  <2>4. PICK e : e = (k + 1) * RecordSize
    OBVIOUS
  <2>5. /\ e \in Nat /\ e <= Size /\ (k + 1 = Count => e = Size)
    <3>1. /\ k * RecordSize \in 0 .. Size - 1 /\ e = k * RecordSize + RecordSize
          /\ e <= Size /\ (k + 1 = Count => e = Size)
      BY <2>4, StartOf
    <3>2. k * RecordSize \in Nat /\ RecordSize \in Nat
      BY <3>1, Constants
    <3> QED
      BY <3>1, <3>2
  <2>6. index + rd[p].length = e /\ index = rd[p].at /\ Copied(p, index)
    BY <1>0, <1>5, <2>3, <2>4 DEF Loops, Position
  <2>7. rd[p].length = 0 /\ index = e
    BY <1>0, <1>5, <2>5, <2>6, Constants DEF InLoop
  <2>8. HaveData
    <3>1. ~HaveData => next[p] = 0 /\ index = 0
      BY <1>0, <1>5 DEF Position
    <3>2. next[p] = 0 => e = RecordSize
      BY <2>3, <2>4, Constants
    <3> QED
      BY <2>7, <3>1, <3>2, Constants
  <2>9. Dumped(p)'
    BY <1>0, <1>1, <1>5, KeepsTrail DEF Reading
  <2>10. Position(p)'
    <3>1. Copied(p, index)'
      BY <1>0, <2>6 DEF Copied
    <3>2. pc'[p] = "done" => Copied(p, Size)'
      BY <1>0, <2>2, <2>3, <2>5, <2>6, <2>7 DEF Copied
    <3>3. index' = next'[p] * RecordSize
      BY <1>0, <2>2, <2>3, <2>4, <2>7
    <3> QED
      BY <1>1, <2>2, <2>8, <3>1, <3>2, <3>3 DEF Position
  <2>11. Client(p)'
    BY <2>2, <2>9, <2>10 DEF Client, Stopped, Saving, Waking, Measured
  <2> QED
    BY <1>2, <2>11, OneClientDump
<1> QED
  BY <1>3, <1>4, <1>5

LEMMA CopyByteDump ==
  ASSUME TypeInvariant, DumpInvariant, OneClient, NEW p \in Clients, CopyByte(p)
  PROVE  DumpInvariant'
<1>0. /\ pc[p] = "copy" /\ HaveData /\ UNCHANGED <<lbr_data, want, failed>>
      /\ index \in Nat /\ rd[p] \in Reads /\ Position(p) /\ Dumped(p)
  BY DEF CopyByte, TypeInvariant, Types, MemoryTypes, ReadTypes, DumpInvariant, Client
<1>1. rd[p].seen = index /\ index < Size
  BY <1>0 DEF Position
<1>2. /\ index' = index + 1 /\ bad' = bad
      /\ buf' = IF rd[p].at = Discard THEN buf
                ELSE [buf EXCEPT ![p][rd[p].at] = <<lbr_data[index \div RecordSize], index % RecordSize>>]
  BY <1>1 DEF CopyByte
<1>3. /\ rd' = [rd EXCEPT ![p].length = @ - 1, ![p].at = IF @ = Discard THEN @ ELSE @ + 1]
      /\ pc' = [pc EXCEPT ![p] = "test"]
  BY DEF CopyByte, Goto
<1>4. pc'[p] = "test" /\ rd'[p].at = IF rd[p].at = Discard THEN Discard ELSE rd[p].at + 1
  BY <1>0, <1>3 DEF TypeInvariant, Types, KernelTypes, ReadTypes, Reads
<1>5. ValidAccesses' /\ HaveData'
  BY <1>0, <1>2 DEF DumpInvariant, ValidAccesses, HaveData
<1>6. Dumped(p)'
  BY <1>0, <1>4, <1>5, KeepsTrail DEF Reading
<1>7. Position(p)'
  <2>1. CASE rd[p].at = Discard
    BY <1>4, <1>5, <2>1 DEF Position
  <2>2. CASE rd[p].at # Discard
    <3>1. index = rd[p].at /\ Copied(p, index)
      BY <1>0, <2>2 DEF Position
    <3>2. \A b \in 0 .. Size - 1 :
            buf'[p][b] = IF b = index THEN <<lbr_data[index \div RecordSize], index % RecordSize>> ELSE buf[p][b]
      <4>1. PICK v : v = <<lbr_data[index \div RecordSize], index % RecordSize>>
        OBVIOUS
      <4>2. buf' = [buf EXCEPT ![p][index] = v]
        BY <1>2, <2>2, <3>1, <4>1
      <4>3. \A b \in 0 .. Size - 1 : buf'[p][b] = IF b = index THEN v ELSE buf[p][b]
        BY <4>2 DEF TypeInvariant, Types, ReadTypes, Buffers
      <4> QED
        BY <4>1, <4>3
    <3>3. \A b \in 0 .. Size - 1 : b < index + 1 => b = index \/ b < index
      BY <1>0
    <3>4. Copied(p, index)'
      <4>1. \A b \in 0 .. Size - 1 : b < index + 1 => buf'[p][b] = <<lbr_data[b \div RecordSize], b % RecordSize>>
        BY <3>1, <3>2, <3>3 DEF Copied
      <4> QED
        BY <1>0, <1>2, <4>1 DEF Copied
    <3>5. index' = rd'[p].at
      BY <1>2, <1>4, <2>2, <3>1
    <3> QED
      BY <1>4, <1>5, <3>4, <3>5 DEF Position
  <2> QED
    BY <2>1, <2>2
<1>8. Client(p)'
  BY <1>4, <1>6, <1>7 DEF Client, Stopped, Saving, Waking, Measured
<1> QED
  BY <1>5, <1>8, OneClientDump

\* What the client holds when its reads are done.
LEMMA AtDone ==
  ASSUME TypeInvariant, DumpInvariant, NEW p \in Clients, pc[p] = "done"
  PROVE  /\ \A s \in Slots : Saved(p, s)
         /\ \A b \in 0 .. Size - 1 : buf[p][b] = <<lbr_data[b \div RecordSize], b % RecordSize>>
         /\ \A k \in Slots : Got(p, k) = lbr_data[k]
<1>1. Dumped(p) /\ Position(p)
  BY DEF DumpInvariant, Client
<1>2. HaveData /\ Copied(p, Size) /\ \A s \in Slots : Saved(p, s)
  BY <1>1 DEF Position, Dumped, Reading
<1>3. \A b \in 0 .. Size - 1 : b < Size
  BY Constants
<1>4. \A b \in 0 .. Size - 1 : buf[p][b] = <<lbr_data[b \div RecordSize], b % RecordSize>>
  BY <1>2, <1>3 DEF Copied
<1>5. ASSUME NEW k \in Slots PROVE Got(p, k) = lbr_data[k]
  <2>1. PICK b \in 0 .. Size - 1 : b = k * RecordSize /\ b \div RecordSize = k
    BY StartOf
  <2>2. buf[p][b][1] = lbr_data[b \div RecordSize]
    BY <1>4
  <2> QED
    BY <2>1, <2>2 DEF Got
<1> QED
  BY <1>2, <1>4, <1>5

LEMMA InitWant == Init => WantOK
<1> SUFFICES ASSUME Init, NEW p \in Clients PROVE want[p].src <= want[p].n
  BY DEF WantOK
<1>1. want[p] = NoWant
  BY DEF Init
<1> QED
  BY <1>1, Constants DEF NoWant, NotFound

LEMMA NextWant == ASSUME TypeInvariant, RingOK, WantOK, [Next]_vars PROVE WantOK'
<1>1. ASSUME UNCHANGED want PROVE WantOK'
  BY <1>1 DEF WantOK
<1>2. ASSUME NEW p \in Clients, NEW w, want' = [want EXCEPT ![p] = w], w.src <= w.n PROVE WantOK'
  BY <1>2 DEF WantOK, TypeInvariant, Types, ReadTypes
<1>3. ASSUME NEW p \in Clients, Ioctl(p) PROVE WantOK'
  <2>1. PICK w : w = [cpu |-> cpu[p], n |-> count[cpu[p]], src |-> lastSrc[cpu[p]]]
    OBVIOUS
  <2>2. want' = [want EXCEPT ![p] = w]
    BY <1>3, <2>1 DEF Ioctl
  <2>3. cpu[p] \in CPUs
    BY DEF TypeInvariant, Types, KernelTypes
  <2>4. w.src <= w.n
    BY <2>1, <2>3 DEF RingOK
  <2> QED
    BY <1>2, <2>2, <2>4
<1>4. ASSUME NEW p \in Clients, NextRound(p) PROVE WantOK'
  <2>1. want' = [want EXCEPT ![p] = NoWant]
    BY <1>4 DEF NextRound
  <2>2. NoWant.src <= NoWant.n
    BY Constants DEF NoWant, NotFound
  <2> QED
    BY <1>2, <2>1, <2>2
<1>5. ASSUME NEW p \in Clients, KernelStep(p) \/ ReadRecord(p) \/ OtherRead(p) \/ Measure(p) \/ Migrate(p)
      PROVE  UNCHANGED want
  BY <1>5 DEF KernelStep, Migrate, ReadTos, ReadNext, ResetIndex, CreateThread, CreateFails, WakeThread,
     TestIndex, CopyByte, CopyFromNull, ReadRecord, OtherRead, ReadCall, Measure
<1>6. ASSUME NEW t \in DOMAIN threads, ThreadStep(t) PROVE UNCHANGED want
  BY <1>6 DEF ThreadStep, EnableLBR, FilterLBR
<1>7. ASSUME NEW c \in CPUs, CpuStep(c) PROVE UNCHANGED want
  BY <1>7 DEF CpuStep, UserBranch, KernelBranch, Record
<1>8. UNCHANGED vars => UNCHANGED want
  BY DEF vars
<1> QED
  BY <1>1, <1>3, <1>4, <1>5, <1>6, <1>7, <1>8 DEF Next, ClientStep

LEMMA MeasureDump ==
  ASSUME TypeInvariant, WantOK, DumpInvariant, OneClient, NEW p \in Clients, Measure(p)
  PROVE  DumpInvariant'
<1>1. PICK n : n = IF Found(p) = {} THEN NotFound ELSE Got(p, Chosen(p)).n
  OBVIOUS
<1>2. /\ pc[p] = "done" /\ sample' = [sample EXCEPT ![p] = n] /\ pc' = [pc EXCEPT ![p] = "measured"]
      /\ UNCHANGED <<want, failed, bad>>
  BY <1>1 DEF Measure, Goto, faultVars
<1>3. pc'[p] = "measured" /\ sample'[p] = n
  BY <1>2 DEF TypeInvariant, Types, KernelTypes, ReadTypes
<1>4. PICK w, src : w = want[p].n /\ src = want[p].src
  OBVIOUS
<1>5. w \in Nat /\ src \in Int /\ Count \in Nat /\ \A k \in Slots : k \in Nat /\ k < Count
  BY <1>4, Constants DEF TypeInvariant, Types, ReadTypes, Wants, Numbers, Slots
<1>6. \A k \in Slots : /\ Got(p, k).n = w - Count + 1 + k
                       /\ Got(p, k).from = "src" => Got(p, k).n <= src
                       /\ Got(p, k).n = src => Got(p, k).from = "src"
  BY <1>2, <1>4, AtDone DEF Saved
<1>7. n = IF src > w - Count THEN src ELSE NotFound
  <2>1. CASE src > w - Count /\ src <= w
    <3>1. PICK k \in Slots : k = src - w + Count - 1
      <4>1. src - w + Count - 1 \in Slots
        BY <1>5, <2>1 DEF Slots
      <4> QED
        BY <4>1
    <3>2. Got(p, k).n = src /\ k \in Found(p)
      <4>1. Got(p, k).n = src
        BY <1>5, <1>6, <3>1
      <4> QED
        BY <1>6, <4>1 DEF Found
    <3>3. PICK m \in Slots : m = Chosen(p) /\ Got(p, m).from = "src" /\ k <= m
      BY <3>2, ChosenIn DEF Found
    <3>4. m <= k
      <4>1. Got(p, m).n = w - Count + 1 + m /\ Got(p, m).n <= src
        BY <1>6, <3>3
      <4>2. w - Count + 1 + m <= src
        BY <4>1
      <4> QED
        BY <1>5, <3>1, <4>2
    <3>5. m = k
      BY <1>5, <3>3, <3>4
    <3> QED
      BY <1>1, <2>1, <3>2, <3>3, <3>5
  <2>2. CASE ~(src > w - Count)
    <3>1. ASSUME NEW k \in Found(p) PROVE FALSE
      <4>1. k \in Slots /\ Got(p, k).from = "src"
        BY DEF Found
      <4>2. w - Count + 1 + k <= src
        BY <1>6, <4>1
      <4> QED
        BY <1>5, <2>2, <4>1, <4>2
    <3> QED
      BY <1>1, <2>2, <3>1
  <2>3. src <= w
    BY <1>4 DEF WantOK
  <2> QED
    BY <1>5, <2>1, <2>2, <2>3
<1>8. Measured(p)'
  BY <1>2, <1>3, <1>4, <1>7 DEF Measured
<1>9. Client(p)'
  BY <1>3, <1>8 DEF Client, Stopped, Saving, Dumped, Reading, Position, Waking
<1>10. ValidAccesses'
  BY <1>2 DEF DumpInvariant, ValidAccesses
<1> QED
  BY <1>9, <1>10, OneClientDump

LEMMA NextDump ==
  ASSUME TypeInvariant, RingOK, WantOK, DumpInvariant, OneClient, [Next]_vars
  PROVE  DumpInvariant'
<1>1. ASSUME NEW p \in Clients, KernelStep(p) PROVE DumpInvariant'
  BY <1>1, ReadTosDump, ReadNextDump, ResetIndexDump, CreateThreadDump, IdleDump, WakeThreadDump,
     TestIndexDump, CopyByteDump
  DEF KernelStep
<1>2. ASSUME NEW p \in Clients, ClientStep(p) \/ Migrate(p) PROVE DumpInvariant'
  BY <1>2, IoctlDump, ReadRecordDump, OtherReadDump, MeasureDump, IdleDump DEF ClientStep
<1>3. ASSUME NEW t \in DOMAIN threads, ThreadStep(t) PROVE DumpInvariant'
  BY <1>3, ThreadDump
<1>4. ASSUME NEW c \in CPUs, CpuStep(c) PROVE DumpInvariant'
  BY <1>4, BranchDump
<1>5. ASSUME UNCHANGED vars PROVE DumpInvariant'
  <2>1. UNCHANGED <<tos, on, count, lastSrc, lbr_data, index, ts, threads, pc, cpu, msr, todo, rd, next, buf, sample,
                    want, failed, bad>>
    BY <1>5 DEF vars, hwVars, bufVars, threadVars, readVars, faultVars
  <2>2. ASSUME NEW p \in Clients PROVE Client(p)'
    <3>1. Client(p)
      BY DEF DumpInvariant
    <3>2. \A s : Saved(p, s)' <=> Saved(p, s)
      BY <2>1 DEF Saved
    <3>3. Stopped(p)'
      BY <2>1, <3>1 DEF Client, Stopped, HaveData
    <3>4. Saving(p)' /\ Dumped(p)'
      BY <2>1, <3>1, <3>2 DEF Client, Saving, Passed, Dumped, Reading, HaveData
    <3>5. Position(p)' /\ Measured(p)' /\ Waking(p)'
      BY <2>1, <3>1 DEF Client, Position, Copied, HaveData, Measured, Waking, Created
    <3> QED
      BY <3>3, <3>4, <3>5 DEF Client
  <2>3. ValidAccesses'
    BY <2>1 DEF DumpInvariant, ValidAccesses
  <2> QED
    BY <2>2, <2>3 DEF DumpInvariant
<1> QED
  BY <1>1, <1>2, <1>3, <1>4, <1>5 DEF Next

\* The registers of every CPU hold its last branches in order, whatever the
\* clients do; with one client, so does the buffer it reads.
LEMMA OneClientInvariant ==
  ASSUME OneClient
  PROVE  Spec => [](TypeInvariant /\ RingOK /\ WantOK /\ DumpInvariant)
<1>1. Init => TypeInvariant /\ RingOK /\ WantOK /\ DumpInvariant
  BY InitTypes, InitRing, InitWant, InitDump
<1>2. ASSUME TypeInvariant, RingOK, WantOK, DumpInvariant, [Next]_vars
      PROVE  TypeInvariant' /\ RingOK' /\ WantOK' /\ DumpInvariant'
  <2>1. CpuTypes
    BY <1>2 DEF TypeInvariant, Types
  <2> QED
    BY <1>2, <2>1, NextTypes, NextRing, NextWant, NextDump
<1> QED
  BY <1>1, <1>2, PTL DEF Spec

\* With one client the only invalid accesses of the device are the ones that
\* follow a failed kmalloc and a failed kthread_create, for every number of
\* records and bytes in one: device_read's index stays inside the buffer, and
\* all_enable_LBR wakes only threads that wait.
THEOREM AccessesValid == ASSUME OneClient PROVE Spec => []ValidAccesses
<1>1. DumpInvariant => ValidAccesses
  BY DEF DumpInvariant
<1> QED
  BY <1>1, OneClientInvariant, PTL

\* With one client, what LbrReader::read_lbr has read is the trail of the CPU
\* its ioctl ran on: the last Count branches before the ioctl, oldest first,
\* every byte in place, however the threads and the CPUs interleave.
THEOREM DumpReadsTrail == ASSUME OneClient PROVE Spec => []DumpIsTrail
<1>1. ASSUME TypeInvariant, DumpInvariant PROVE DumpIsTrail
  <2> SUFFICES ASSUME NEW p \in Clients, pc[p] = "done", NEW b \in 0 .. Size - 1
               PROVE  /\ buf[p][b][1].cpu = want[p].cpu
                      /\ buf[p][b][1].n = want[p].n - Count + 1 + (b \div RecordSize)
                      /\ buf[p][b][2] = b % RecordSize
    BY DEF DumpIsTrail
  <2>1. PICK s : s = b \div RecordSize
    OBVIOUS
  <2>2. s \in Slots
    BY <2>1, RecordOf
  <2>3. buf[p][b] = <<lbr_data[s], b % RecordSize>> /\ Saved(p, s)
    BY <1>1, <2>1, <2>2, AtDone
  <2> QED
    BY <2>1, <2>3 DEF Saved
<1> QED
  BY <1>1, OneClientInvariant, PTL

\* With one client, LbrStats is given the record of the measured branch's latest
\* execution before the ioctl, and is given one exactly when that execution is
\* among the last Count branches of the CPU.
THEOREM LatestMeasured == ASSUME OneClient PROVE Spec => []MeasuresLatest
<1>1. DumpInvariant => MeasuresLatest
  BY DEF DumpInvariant, Client, Measured, MeasuresLatest
<1> QED
  BY <1>1, OneClientInvariant, PTL
=============================================================================
