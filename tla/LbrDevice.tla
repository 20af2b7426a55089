------------------------------ MODULE LbrDevice ------------------------------
(***************************************************************************)
(* The branch record device (module_lbr_chardev) and its clients.          *)
(*                                                                         *)
(* Every CPU keeps its last Count branches in a ring of registers.  An     *)
(* ioctl stops the recording on the CPU it runs on, copies the ring into   *)
(* the one buffer of the module, and starts a kernel thread on each CPU    *)
(* that switches the recording on again.  A client (LbrReader, or          *)
(* tester/trigger_dump.c) then reads the buffer record by record and looks *)
(* for the branch it measures.  There is no lock anywhere.                 *)
(***************************************************************************)
EXTENDS Integers, Sequences, FiniteSetsExt

CONSTANTS
  CPUs,         \* the machine's CPUs
  ThreadCPUs,   \* the ones KTH1 .. KTH4 are bound to (0 .. 3 in the code)
  Clients,      \* processes that use the device
  Count,        \* lbr_count
  RecordSize,   \* sizeof(struct lbr_data)
  Lengths,      \* lengths other programs pass to read()
  Faults,       \* subset of {"kmalloc", "kthread"}: allocations that may fail
  MaxBranches,  \* bound: recorded branches, all CPUs together
  MaxDumps      \* bound: ioctls in a behaviour

ASSUME CountAssumption == Count \in Nat \ {0} /\ RecordSize \in Nat \ {0}
ASSUME CPUAssumption ==
  /\ ThreadCPUs \subseteq CPUs /\ ThreadCPUs \subseteq Nat
  /\ IsFiniteSet(ThreadCPUs) /\ ThreadCPUs # {}
ASSUME EnvironmentAssumption ==
  Lengths \subseteq Nat /\ Faults \subseteq {"kmalloc", "kthread"}
ASSUME BoundAssumption == MaxBranches \in Nat /\ MaxDumps \in Nat

Size == Count * RecordSize  \* lbr_data_size
Slots == 0 .. Count - 1
Null == 0  \* no thread

VARIABLES
  ring,      \* ring[c]: the branch records of CPU c, by register number
  tos,       \* tos[c]: the register written last
  on,        \* on[c]: bit 0 of MSR_IA32_DEBUGCTLMSR, records branches
  select,    \* select[c]: MSR_LBR_SELECT; 1 leaves out branches in the kernel
  count,     \* history: branches recorded on c
  lastSrc,   \* history: number of the last record on c of the measured branch
  lbr_data,  \* the module's buffer, if it was allocated
  index,     \* lbr_data_index
  ts,        \* ts[c]: the static pointers ts1 .. ts4
  threads,   \* the kernel threads created so far, by number
  pc,        \* pc[p]: what client p is doing
  cpu,       \* cpu[p]: where it is doing it
  msr,       \* msr[p]: i, o and the entries left in read_lbr
  todo,      \* todo[p]: CPUs all_enable_LBR has still to serve
  rd,        \* rd[p]: the local variables of device_read
  next,      \* next[p]: the loop variable of LbrReader::read_lbr
  buf,       \* buf[p]: m_lbr_data, by byte
  sample,    \* sample[p]: number of the record given to the statistics
  want,      \* history: where and when p's ioctl stopped the recording
  dumps,     \* number of ioctls, to bound the model
  failed,    \* the allocations that have failed
  bad        \* the invalid accesses that have happened

\* lbr_data != NULL
HaveData == "kmalloc" \notin failed

hwVars     == <<ring, tos, on, select, count, lastSrc>>
bufVars    == <<lbr_data, index>>
threadVars == <<ts, threads>>
readVars   == <<rd, next, buf, sample>>
faultVars  == <<dumps, failed, bad>>
vars == <<hwVars, bufVars, threadVars, pc, cpu, msr, todo, readVars, want, faultVars>>

(***************************************************************************)
(* The processor.  The n-th branch recorded on CPU c is                    *)
(* [cpu |-> c, n |-> n, from |-> where]; numbers up to 0 are of branches   *)
(* from before the module was loaded.                                      *)
(***************************************************************************)
Entry(c, n, from) == [cpu |-> c, n |-> n, from |-> from]
Froms == {"old", "kernel", "src", "other", "unset"}
Entries ==
  {e \in [cpu : CPUs, n : Int, from : Froms] : e.n > -Count /\ (e.from = "src" => e.n > 0)}
Unset(c) == Entry(c, 0, "unset")  \* memory not yet written
\* Byte k of a record.
Bytes == Entries \X (0 .. RecordSize - 1)

\* A taken branch on a CPU that records: the next register is overwritten.
Record(c, from) ==
  /\ on[c] /\ MapThenSumSet(LAMBDA d : count[d], CPUs) < MaxBranches
  /\ tos' = [tos EXCEPT ![c] = (@ + 1) % Count]
  /\ ring' = [ring EXCEPT ![c][(tos[c] + 1) % Count] = Entry(c, count[c] + 1, from)]
  /\ count' = [count EXCEPT ![c] = @ + 1]
  /\ lastSrc' = [lastSrc EXCEPT ![c] = IF from = "src" THEN count[c] + 1 ELSE @]
  /\ UNCHANGED <<on, select, bufVars, threadVars, pc, cpu, msr, todo, readVars, want, faultVars>>

\* CPU c is not in the middle of module code that does not sleep; the kernel
\* is one that does not preempt kernel code.
Free(c) ==
  /\ \A p \in Clients : cpu[p] = c => pc[p] \notin {"tos", "entry", "index"}
  /\ \A t \in DOMAIN threads : threads[t].cpu = c => threads[t].st # "select"

\* A program, measured or not, branches on c.
UserBranch(c) == Free(c) /\ \E from \in {"src", "other"} : Record(c, from)
\* The kernel does: an interrupt, or the code around the module's.
KernelBranch(c) == select[c] = 0 /\ Record(c, "kernel")
\* The scheduler moves a client (where it is only matters when it calls ioctl).
Migrate(p) ==
  /\ pc[p] = "run" /\ Free(cpu[p])
  /\ \E c \in CPUs \ {cpu[p]} : cpu' = [cpu EXCEPT ![p] = c]
  /\ UNCHANGED <<hwVars, bufVars, threadVars, pc, msr, todo, readVars, want, faultVars>>

-----------------------------------------------------------------------------
(***************************************************************************)
(* device_ioctl.                                                           *)
(***************************************************************************)
\* Where a client goes next, everything of its own unchanged.
Goto(p, where) == pc' = [pc EXCEPT ![p] = where]

\* Mutant: the recording is stopped the way disable_LBR stops it, filter and all.
IoctlDropsFilter(p) ==
  /\ pc[p] = "run" /\ Free(cpu[p]) /\ dumps < MaxDumps
  /\ dumps' = dumps + 1
  /\ on' = [on EXCEPT ![cpu[p]] = FALSE]
  /\ select' = [select EXCEPT ![cpu[p]] = 0]
  /\ want' = [want EXCEPT ![p] = [cpu |-> cpu[p], n |-> count[cpu[p]], src |-> lastSrc[cpu[p]]]]
  /\ Goto(p, IF HaveData THEN "tos" ELSE "index")
  /\ UNCHANGED <<ring, tos, count, lastSrc, bufVars, threadVars, cpu, msr, todo,
                 readVars, failed, bad>>
\* lbr_disable_inline() on whatever CPU this is; the NULL check.
Ioctl(p) ==
  /\ pc[p] = "run" /\ Free(cpu[p]) /\ dumps < MaxDumps
  /\ dumps' = dumps + 1
  /\ on' = [on EXCEPT ![cpu[p]] = FALSE]
  /\ want' = [want EXCEPT ![p] = [cpu |-> cpu[p], n |-> count[cpu[p]], src |-> lastSrc[cpu[p]]]]
  /\ Goto(p, IF HaveData THEN "tos" ELSE "index")
  /\ UNCHANGED <<ring, tos, select, count, lastSrc, bufVars, threadVars, cpu, msr, todo,
                 readVars, failed, bad>>

First(S) == CHOOSE c \in S : \A d \in S : c <= d
Discard == -1
NotFound == -Count
NoWant == [cpu |-> First(ThreadCPUs), n |-> 0, src |-> NotFound]
\* Local variables before they are set and after their last use.
NoMsr == [i |-> 0, o |-> 0, left |-> 0]
NoRead == [length |-> 0, seen |-> 0, at |-> Discard]
Fresh == [b \in 0 .. Size - 1 |-> <<Unset(First(ThreadCPUs)), 0>>]

\* int i = read_lbr_tos(); int o = lbr_count-1;
ReadTos(p) ==
  /\ pc[p] = "tos"
  /\ msr' = [msr EXCEPT ![p] = [i |-> tos[cpu[p]], o |-> Count - 1, left |-> Count]]
  /\ Goto(p, "entry")
  /\ UNCHANGED <<hwVars, bufVars, threadVars, cpu, todo, readVars, want, faultVars>>

\* Mutant: o is not wrapped around.
ReadNextUnwrapped(p) ==
  /\ pc[p] = "entry"
  /\ lbr_data' = [lbr_data EXCEPT ![msr[p].o] = ring[cpu[p]][msr[p].i]]
  /\ msr' = [msr EXCEPT ![p] = IF @.left = 1 THEN NoMsr
                              ELSE [i |-> (@.i + 1) % Count, o |-> @.o + 1, left |-> @.left - 1]]
  /\ Goto(p, IF msr[p].left = 1 THEN "index" ELSE "entry")
  /\ UNCHANGED <<hwVars, index, threadVars, cpu, todo, readVars, want, faultVars>>
\* read_next(): newest record to the end, then the oldest to the front, and on.
ReadNext(p) ==
  /\ pc[p] = "entry"
  /\ lbr_data' = [lbr_data EXCEPT ![msr[p].o] = ring[cpu[p]][msr[p].i]]
  /\ msr' = [msr EXCEPT ![p] = IF @.left = 1 THEN NoMsr
                              ELSE [i |-> (@.i + 1) % Count, o |-> (@.o + 1) % Count, left |-> @.left - 1]]
  /\ Goto(p, IF msr[p].left = 1 THEN "index" ELSE "entry")
  /\ UNCHANGED <<hwVars, index, threadVars, cpu, todo, readVars, want, faultVars>>

\* Mutant: the read position of the previous dump is kept.
ResetIndexNot(p) ==
  /\ pc[p] = "index"
  /\ todo' = [todo EXCEPT ![p] = ThreadCPUs]
  /\ Goto(p, "create")
  /\ UNCHANGED <<hwVars, bufVars, threadVars, cpu, msr, readVars, want, faultVars>>
\* lbr_data_index = 0, and into all_enable_LBR.
ResetIndex(p) ==
  /\ pc[p] = "index"
  /\ index' = 0
  /\ todo' = [todo EXCEPT ![p] = ThreadCPUs]
  /\ Goto(p, "create")
  /\ UNCHANGED <<hwVars, lbr_data, threadVars, cpu, msr, readVars, want, faultVars>>

(***************************************************************************)
(* all_enable_LBR: four threads are created and bound, one after the other *)
(* (kthread_create sleeps), into four static pointers, then all are woken. *)
(***************************************************************************)
CreateThread(p) ==
  /\ pc[p] = "create"
  /\ LET c == First(todo[p])
     IN /\ threads' = Append(threads, [cpu |-> c, st |-> "new"])
        /\ ts' = [ts EXCEPT ![c] = Len(threads) + 1]
        /\ todo' = [todo EXCEPT ![p] = IF @ = {c} THEN ThreadCPUs ELSE @ \ {c}]
        /\ Goto(p, IF todo[p] = {c} THEN "wake" ELSE "create")
  /\ UNCHANGED <<hwVars, bufVars, cpu, msr, readVars, want, faultVars>>

\* kthread_bind() is handed the error pointer before IS_ERR is looked at.
CreateFails(p) ==
  /\ pc[p] = "create" /\ "kthread" \in Faults
  /\ failed' = failed \cup {"kthread"}
  /\ bad' = bad \cup {"error pointer"}
  /\ Goto(p, "dead")
  /\ UNCHANGED <<hwVars, bufVars, threadVars, cpu, msr, todo, readVars, want, dumps>>

\* Mutant: the last thread is created and not woken.
WakeThreadButLast(p) ==
  /\ pc[p] = "wake"
  /\ LET c == First(todo[p])
     IN /\ threads' = IF todo[p] = {c} THEN threads ELSE [threads EXCEPT ![ts[c]].st = "ready"]
        /\ todo' = [todo EXCEPT ![p] = @ \ {c}]
        /\ IF todo[p] = {c}
           THEN Goto(p, "read") /\ next' = [next EXCEPT ![p] = 0]
           ELSE UNCHANGED <<pc, next>>
  /\ UNCHANGED <<hwVars, bufVars, ts, cpu, msr, rd, buf, sample, want, faultVars>>
\* wake_up_process(ts): whichever thread the pointer holds by now.
WakeThread(p) ==
  /\ pc[p] = "wake"
  /\ LET c == First(todo[p])
         t == ts[c]
     IN /\ IF threads[t].st = "new"
           THEN threads' = [threads EXCEPT ![t].st = "ready"] /\ UNCHANGED bad
           ELSE /\ bad' = IF threads[t].st = "gone" THEN bad \cup {"thread"} ELSE bad
                /\ UNCHANGED threads
        /\ todo' = [todo EXCEPT ![p] = @ \ {c}]
        /\ IF todo[p] = {c}
           THEN Goto(p, "read") /\ next' = [next EXCEPT ![p] = 0]
           ELSE UNCHANGED <<pc, next>>
  /\ UNCHANGED <<hwVars, bufVars, ts, cpu, msr, rd, buf, sample, want, dumps, failed>>

\* enable_LBR, in a thread of its own: first the switch, then the filter.
EnableLBR(t) ==
  /\ threads[t].st = "ready" /\ Free(threads[t].cpu)
  /\ on' = [on EXCEPT ![threads[t].cpu] = TRUE]
  /\ threads' = [threads EXCEPT ![t].st = "select"]
  /\ UNCHANGED <<ring, tos, select, count, lastSrc, bufVars, ts, pc, cpu, msr, todo,
                 readVars, want, faultVars>>
FilterLBR(t) ==
  /\ threads[t].st = "select"
  /\ select' = [select EXCEPT ![threads[t].cpu] = 1]
  /\ threads' = [threads EXCEPT ![t].st = "gone"]
  /\ UNCHANGED <<ring, tos, on, count, lastSrc, bufVars, ts, pc, cpu, msr, todo,
                 readVars, want, faultVars>>

-----------------------------------------------------------------------------
(***************************************************************************)
(* device_read, called by LbrReader::read_lbr for one record at a time and *)
(* by other programs for any length (their bytes are not followed).        *)
(***************************************************************************)
ReadCall(p, length, at) ==
  /\ index' = IF index = Size THEN 0 ELSE index
  /\ rd' = [rd EXCEPT ![p] = [length |-> length, seen |-> 0, at |-> at]]
  /\ Goto(p, "test")
  /\ UNCHANGED <<hwVars, lbr_data, threadVars, cpu, msr, todo, next, buf, sample, want, faultVars>>
ReadRecord(p) == pc[p] = "read" /\ ReadCall(p, RecordSize, next[p] * RecordSize)
OtherRead(p) == pc[p] = "run" /\ \E length \in Lengths : ReadCall(p, length, Discard)

\* Mutant: one byte too many.
InLoopInclusive(p) == rd[p].length > 0 /\ index <= Size
\* The head of the loop; on the way out, the number of bytes is returned
\* and read_lbr ignores it.
InLoop(p) == rd[p].length > 0 /\ index < Size
TestIndex(p) ==
  /\ pc[p] = "test"
  /\ IF InLoop(p)
     THEN Goto(p, "copy") /\ rd' = [rd EXCEPT ![p].seen = index] /\ UNCHANGED next
     ELSE /\ rd' = [rd EXCEPT ![p] = NoRead]
          /\ IF rd[p].at = Discard THEN Goto(p, "run") /\ UNCHANGED next
             ELSE /\ next' = [next EXCEPT ![p] = @ + 1]
                  /\ Goto(p, IF next[p] + 1 = Count THEN "done" ELSE "read")
  /\ UNCHANGED <<hwVars, bufVars, threadVars, cpu, msr, todo, buf, sample, want, faultVars>>

\* put_user(((char *)lbr_data)[lbr_data_index++], buffer++): the index is
\* either read again or still in a register from the test.
CopyByte(p) ==
  /\ pc[p] = "copy" /\ HaveData
  /\ \E j \in {index, rd[p].seen} :
       /\ index' = j + 1
       /\ IF j < Size
          THEN /\ buf' = IF rd[p].at = Discard THEN buf
                         ELSE [buf EXCEPT ![p][rd[p].at] = <<lbr_data[j \div RecordSize], j % RecordSize>>]
               /\ UNCHANGED bad
          ELSE bad' = bad \cup {"beyond buffer"} /\ UNCHANGED buf
  /\ rd' = [rd EXCEPT ![p].length = @ - 1, ![p].at = IF @ = Discard THEN @ ELSE @ + 1]
  /\ Goto(p, "test")
  /\ UNCHANGED <<hwVars, lbr_data, threadVars, cpu, msr, todo, next, sample, want, dumps, failed>>

\* The same without a buffer: unlike the ioctl, read does not look.
CopyFromNull(p) ==
  /\ pc[p] = "copy" /\ ~HaveData
  /\ bad' = bad \cup {"null"}
  /\ Goto(p, "dead")
  /\ UNCHANGED <<hwVars, bufVars, threadVars, cpu, msr, todo, readVars, want, dumps, failed>>

-----------------------------------------------------------------------------
(***************************************************************************)
(* The client: LbrStats::add_from_lbr_data takes the last record whose     *)
(* source is the measured branch (the address is in the first bytes).      *)
(***************************************************************************)
Got(p, k) == buf[p][k * RecordSize][1]
Found(p) == {k \in Slots : Got(p, k).from = "src"}
\* Mutant: the first match ends the search.
ChosenFirst(p) == CHOOSE k \in Found(p) : \A j \in Found(p) : k <= j
Chosen(p) == CHOOSE k \in Found(p) : \A j \in Found(p) : j <= k
Measure(p) ==
  /\ pc[p] = "done"
  /\ sample' = [sample EXCEPT ![p] =
       IF Found(p) = {} THEN NotFound ELSE Got(p, Chosen(p)).n]
  /\ Goto(p, "measured")
  /\ UNCHANGED <<hwVars, bufVars, threadVars, cpu, msr, todo, rd, next, buf, want, faultVars>>

\* The next round.  The scripts run a new process for every measurement, also
\* after one that was killed before its reads were done or that, like
\* tester/test.c, reads nothing.  A process that measures again itself reads
\* into the memory it has: once its buffer has been read through, the next
\* dump overwrites it byte for byte.
NextRound(p) ==
  /\ pc[p] \in {"read", "measured"}
  /\ buf' = IF pc[p] = "read" THEN [buf EXCEPT ![p] = Fresh] ELSE buf
  /\ next' = [next EXCEPT ![p] = 0]
  /\ sample' = [sample EXCEPT ![p] = NotFound]
  /\ want' = [want EXCEPT ![p] = NoWant]
  /\ Goto(p, "run")
  /\ UNCHANGED <<hwVars, bufVars, threadVars, cpu, msr, todo, rd, faultVars>>

-----------------------------------------------------------------------------
\* start_function has returned: the device is registered, the threads are
\* woken, and kmalloc has succeeded or not.
Init ==
  /\ \E t \in Slots : tos = [c \in CPUs |-> t]
  /\ ring = [c \in CPUs |-> [s \in Slots |-> Entry(c, -((tos[c] - s) % Count), "old")]]
  /\ on = [c \in CPUs |-> FALSE] /\ select = [c \in CPUs |-> 0]
  /\ count = [c \in CPUs |-> 0] /\ lastSrc = [c \in CPUs |-> NotFound]
  /\ lbr_data = [s \in Slots |-> Unset(First(ThreadCPUs))] /\ index = 0
  /\ \E order \in [1 .. Cardinality(ThreadCPUs) -> ThreadCPUs] :
       /\ \A j, k \in DOMAIN order : j < k => order[j] < order[k]
       /\ threads = [t \in DOMAIN order |-> [cpu |-> order[t], st |-> "ready"]]
       /\ ts = [c \in ThreadCPUs |-> CHOOSE t \in DOMAIN order : order[t] = c]
  /\ pc = [p \in Clients |-> "run"] /\ cpu \in [Clients -> CPUs]
  /\ msr = [p \in Clients |-> NoMsr]
  /\ todo = [p \in Clients |-> {}]
  /\ rd = [p \in Clients |-> NoRead]
  /\ next = [p \in Clients |-> 0]
  /\ buf = [p \in Clients |-> Fresh]
  /\ sample = [p \in Clients |-> NotFound]
  /\ want = [p \in Clients |-> NoWant]
  /\ dumps = 0 /\ bad = {}
  /\ failed \in {{}, {"kmalloc"} \cap Faults}

\* A client inside the kernel goes on.
KernelStep(p) ==
  \/ ReadTos(p) \/ ReadNext(p) \/ ResetIndex(p) \/ CreateThread(p) \/ CreateFails(p)
  \/ WakeThread(p) \/ TestIndex(p) \/ CopyByte(p) \/ CopyFromNull(p)
ClientStep(p) ==
  Ioctl(p) \/ ReadRecord(p) \/ OtherRead(p) \/ Measure(p) \/ NextRound(p)
ThreadStep(t) == EnableLBR(t) \/ FilterLBR(t)
CpuStep(c) == UserBranch(c) \/ KernelBranch(c)

Next ==
  \/ \E p \in Clients : KernelStep(p) \/ ClientStep(p) \/ Migrate(p)
  \/ \E t \in DOMAIN threads : ThreadStep(t)
  \/ \E c \in CPUs : CpuStep(c)
Spec == Init /\ [][Next]_vars

\* The scheduler lets a process go on in the kernel and gives every thread
\* that is ready its turn.
MaxThreads == (MaxDumps + 1) * Cardinality(ThreadCPUs)
FairSpec ==
  /\ Spec
  /\ \A p \in Clients : WF_vars(KernelStep(p))
  /\ \A t \in 1 .. MaxThreads : SF_vars(t \in DOMAIN threads /\ ThreadStep(t))

-----------------------------------------------------------------------------
(***************************************************************************)
(* Type invariant.                                                         *)
(***************************************************************************)
Numbers == {NotFound} \cup (Nat \ {0})
LTypeOK ==
  /\ ring \in [CPUs -> [Slots -> Entries]] /\ tos \in [CPUs -> Slots]
  /\ on \in [CPUs -> BOOLEAN] /\ select \in [CPUs -> {0, 1}]
  /\ count \in [CPUs -> Nat] /\ lastSrc \in [CPUs -> Numbers]
  /\ lbr_data \in [Slots -> Entries] /\ index \in Nat
  /\ threads \in Seq([cpu : ThreadCPUs, st : {"new", "ready", "select", "gone"}])
  /\ ts \in [ThreadCPUs -> DOMAIN threads]
  /\ pc \in [Clients -> {"run", "tos", "entry", "index", "create", "wake", "read", "test",
                         "copy", "done", "measured", "dead"}]
  /\ cpu \in [Clients -> CPUs]
  /\ msr \in [Clients -> [i : Slots, o : Slots, left : 0 .. Count]]
  /\ todo \in [Clients -> SUBSET ThreadCPUs]
  /\ \A p \in Clients : pc[p] \in {"create", "wake"} => todo[p] # {}
  /\ rd \in [Clients -> [length : Nat, seen : Nat, at : {Discard} \cup 0 .. Size]]
  /\ next \in [Clients -> 0 .. Count]
  /\ buf \in [Clients -> [0 .. Size - 1 -> Bytes]]
  /\ sample \in [Clients -> Numbers]
  /\ want \in [Clients -> [cpu : CPUs, n : Nat, src : Numbers]]
  /\ dumps \in 0 .. MaxDumps
  /\ failed \subseteq {"kmalloc", "kthread"}
  /\ bad \subseteq {"error pointer", "null", "beyond buffer", "thread"}

(***************************************************************************)
(* What a client has read after its lbr_count reads are the last Count     *)
(* branches recorded on the CPU its ioctl ran on, oldest first and whole,  *)
(* whatever other programs read or left unread before and however late the *)
(* threads of earlier ioctls run.  Holds for one client at a time.         *)
(***************************************************************************)
DumpIsTrail ==
  \A p \in Clients : pc[p] = "done" =>
    \A b \in 0 .. Size - 1 :
      /\ buf[p][b][1].cpu = want[p].cpu
      /\ buf[p][b][1].n = want[p].n - Count + 1 + (b \div RecordSize)
      /\ buf[p][b][2] = b % RecordSize

(***************************************************************************)
(* The record given to the statistics is that of the latest execution of   *)
(* the measured branch on record, and one is given whenever that is among  *)
(* the last Count.                                                         *)
(***************************************************************************)
MeasuresLatest ==
  \A p \in Clients : pc[p] = "measured" =>
    sample[p] = IF want[p].src > want[p].n - Count THEN want[p].src ELSE NotFound

(***************************************************************************)
(* enable_LBR switches the recording on before it filters out the kernel.  *)
(* That window exists only once per CPU: device_ioctl leaves the filter in *)
(* place, so kernel branches are older than every program's branch on      *)
(* record and do not turn up within a program's trail.                     *)
(***************************************************************************)
KernelEntriesOldest ==
  \A c \in CPUs : \A s, t \in Slots :
    ring[c][s].from = "kernel" /\ ring[c][t].from \in {"src", "other"}
      => ring[c][s].n < ring[c][t].n

(***************************************************************************)
(* No read passes the buffer's end and no thread is woken that is gone,    *)
(* also after a failed allocation.  Only two accesses ever go wrong, the   *)
(* one through the null pointer when kmalloc has failed and the one        *)
(* through the error pointer when kthread_create has.                      *)
(***************************************************************************)
ValidAccesses ==
  /\ bad \subseteq {"null", "error pointer"}
  /\ "null" \in bad => "kmalloc" \in failed
  /\ "error pointer" \in bad => "kthread" \in failed

(***************************************************************************)
(* Recording that an ioctl has stopped is started again on every CPU that  *)
(* has a thread, unless creating the threads fails.                        *)
(***************************************************************************)
RecordingResumes ==
  \A c \in ThreadCPUs : ~on[c] ~> (on[c] \/ "kthread" \in failed)
=============================================================================
