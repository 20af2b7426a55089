--------------------------- MODULE BranchConversion ---------------------------
(***************************************************************************)
(* The LLVM pass X86BranchConversion (X86BranchConversion.cpp), which      *)
(* rewrites one machine function.  Every block that branches is changed to *)
(* load the address of a trampoline into R15; the block then runs into a   *)
(* "fake" block holding `jmp *r15', and the trampolines, all placed in     *)
(* front of the function, lead from fake block to fake block until they    *)
(* reach the branch target.                                                *)
(*                                                                         *)
(* The pass walks the block list once.  While it walks, a "lane" stands    *)
(* for a path that has left its source block and has not arrived yet.      *)
(*                                                                         *)
(* Machine blocks are numbered: 1..N are the blocks of the input in layout *)
(* order, later numbers are given to blocks in the order of their          *)
(* creation.  0 is the null pointer.                                       *)
(***************************************************************************)
EXTENDS Naturals, Sequences, SequencesExt, FiniteSets

CONSTANTS
  N,         \* number of blocks of the input function
  Sources,   \* the instruction sequences an input block may consist of
  Conds,     \* condition codes
  Asserts,   \* TRUE for a build with assertions, FALSE for a release build
  DummyInstr \* the option x86-bc-dummy-instr

Null == 0
NoCond == "none"

(***************************************************************************)
(* An instruction is its opcode class, the set of blocks it names and the  *)
(* condition code it tests.  "body" stands for straight-line code that     *)
(* defines EFLAGS and "keep" for straight-line code that does not; "call"  *)
(* is a call that does not return, "stop" any other last instruction with  *)
(* no way out (ud2, a trap), "tailcc" a conditional tail call.  A "jcc"    *)
(* without a condition is a conditional branch that does not test EFLAGS   *)
(* (loop, jrcxz, xbegin).                                                  *)
(***************************************************************************)
Ops == {"body", "keep", "jcc", "jmp", "ind", "ret", "call", "stop", "tailcc",
        "lea", "leatmp", "cmov", "jmpreg", "dummy"}
Instr == [op : Ops, to : SUBSET Nat, cc : Conds \cup {NoCond}]
Plain(o) == [op |-> o, to |-> {}, cc |-> NoCond]

\* Mutant: the conditional move tests a fixed condition.
CMovFixed(c) == [op |-> "cmov", to |-> {}, cc |-> CHOOSE d \in Conds : TRUE]

Jmp(b)     == [op |-> "jmp",    to |-> {b}, cc |-> NoCond] \* JMP_4 b
Lea(b)     == [op |-> "lea",    to |-> {b}, cc |-> NoCond] \* LEA64r R15, [RIP + b]
LeaTmp(b)  == [op |-> "leatmp", to |-> {b}, cc |-> NoCond] \* LEA64r R13, [RIP + b]
CMov(c)    == [op |-> "cmov",   to |-> {},  cc |-> c]      \* CMOVc R11, R15, R13
JmpTarget  == Plain("jmpreg")                              \* JMP64r R15
Add8Zero   == Plain("dummy")                               \* ADD8ri R13B, 0

(***************************************************************************)
(* The predicates of MachineInstr the pass asks about, as the .td files    *)
(* of the X86 target set the flags of these opcodes.                       *)
(***************************************************************************)
IsUnconditionalBranch(i) == i.op = "jmp"
IsIndirectBranch(i)      == i.op \in {"ind", "jmpreg"}
IsConditionalBranch(i)   == i.op \in {"jcc", "tailcc"}
IsBranch(i)              == i.op \in {"jmp", "jcc", "tailcc", "ind", "jmpreg"}
IsReturn(i)              == i.op \in {"ret", "tailcc"}
IsCall(i)                == i.op \in {"call", "tailcc"}
IsBarrier(i)             == i.op \in {"jmp", "ind", "ret", "jmpreg"}

\* The instructions s ends in that branch or return.
Terminators(s) ==
  {i \in DOMAIN s : \A j \in i .. Len(s) : IsBranch(s[j]) \/ IsReturn(s[j])}

(***************************************************************************)
(* The control-flow graph of an input function f.                          *)
(***************************************************************************)
Named(s) == UNION {s[i].to : i \in DOMAIN s}
MayFall(s) == s = <<>> \/ Last(s).op \in {"body", "keep", "jcc", "tailcc"}
SourceSuccessors(f, b) ==
  Named(f[b]) \cup (IF MayFall(f[b]) /\ b < N THEN {b + 1} ELSE {})

\* A function never runs off its end.  (Its last block may be empty: an
\* `unreachable' leaves no instruction behind.)
WellFormed(f) == f[N] = <<>> \/ ~MayFall(f[N])

ASSUME NAssumption == N \in Nat \ {0}
SourceOps == {"body", "keep", "jcc", "jmp", "ind", "ret", "call", "stop", "tailcc"}
SourceInstr(i) ==
  /\ i \in Instr
  /\ i.op \in SourceOps
  /\ i.to \subseteq 1 .. N
  /\ i.op \in {"jcc", "jmp"} => \E b \in 1 .. N : i.to = {b}
  /\ i.op \in {"ret", "call", "stop"} => i.to = {}
ASSUME SourcesAssumption ==
  \A s \in Sources : s \in Seq(Instr) /\ \A i \in DOMAIN s : SourceInstr(s[i])
ASSUME BuildAssumption == Asserts \in BOOLEAN /\ DummyInstr \in BOOLEAN
ASSUME CondsAssumption == NoCond \notin Conds

VARIABLES
  fn,        \* the input function: its N blocks before the pass (never changes)
  before,    \* the function's block list up to the iterator iMBB ...
  after,     \* ... and from iMBB on: the list is before \o after
  code,      \* code[b]: the instructions of block b
  succ,      \* succ[b]: the successor blocks recorded for b
  processed, \* processedMBBs
  lanes,     \* takenBlocks, up to laneIterator ...
  pending,   \* ... and from laneIterator on
  takenLane, \* position in lanes of the lane *takenLane, or Null
  mbb,       \* &MBB, the block the loop is at
  fakeBlock, \* the fake block behind it, or Null
  originalFallThrough,
  pc         \* where runOnMachineFunction is

vars == <<fn, before, after, code, succ, processed, lanes, pending, takenLane,
          mbb, fakeBlock, originalFallThrough, pc>>
laneVars == <<lanes, pending, takenLane>>
blockVars == <<mbb, fakeBlock, originalFallThrough>>
listVars == <<before, after>>

Lane == [current : Nat, dest : Nat, taken : BOOLEAN]
EmptyLane == [current |-> Null, dest |-> Null, taken |-> TRUE]
DeadLane == [current |-> Null, dest |-> Null, taken |-> FALSE]

Init ==
  /\ fn \in {f \in [1 .. N -> Sources] : WellFormed(f)}
  /\ before = <<>>
  /\ after = [b \in 1 .. N |-> b]
  /\ code = fn
  /\ succ = [b \in 1 .. N |-> SourceSuccessors(fn, b)]
  /\ processed = {}
  /\ lanes = <<EmptyLane>>          \* the startup lane
  /\ pending = <<>>
  /\ takenLane = Null
  /\ mbb = Null
  /\ fakeBlock = Null
  /\ originalFallThrough = Null
  /\ pc = "block"

-----------------------------------------------------------------------------
(***************************************************************************)
(* The head of the loop over the blocks.                                   *)
(***************************************************************************)
IsReturnBlock(b) == code[b] # <<>> /\ IsReturn(Last(code[b]))

(***************************************************************************)
(* X86InstrInfo::analyzeBranch makes out the jump at the end of s if only  *)
(* conditional jumps stand before it, all of them the same, or the first   *)
(* of them one of a known pair with the others: `ne or p' to one place, or *)
(* `e and not p' where the other way is the one of the jump.               *)
(***************************************************************************)
Paired(i, j, jump) ==
  \/ i.to = j.to /\ {i.cc, j.cc} = {"ne", "p"}
  \/ i.to = jump.to /\ <<i.cc, j.cc>> \in {<<"ne", "np">>, <<"p", "e">>}
AnalyzableJump(s) ==
  LET branches == Terminators(s) \ {Len(s)}
  IN /\ Last(s).op = "jmp"
     /\ \A i \in branches : s[i].op = "jcc" /\ s[i].cc # NoCond
     /\ \A i, j \in branches : i < j =>
          \/ s[i] = s[j]
          \/ Paired(s[i], s[j], Last(s)) /\ \A k \in branches : i <= k

\* Mutant: asked for after the fake block has been inserted behind b.
GetFallThroughLate(b, rest) == Null

\* MachineBasicBlock::getFallThrough for a block b followed by the list rest.
GetFallThrough(b, rest) ==
  IF /\ rest # <<>>
     /\ Head(rest) \in succ[b]
     /\ \/ code[b] = <<>>
        \/ ~IsBarrier(Last(code[b]))
        \/ /\ AnalyzableJump(code[b])
           /\ \E i \in Terminators(code[b]) : Head(rest) \in code[b][i].to
  THEN Head(rest) ELSE Null

\* Mutant: the last block never gets a fake block.
NeedsFakeBlockUnlessLast(b, rest) == rest # <<>>

\* Only a return block at the very end of the function gets no fake block.
NeedsFakeBlock(b, rest) == ~(rest = <<>> /\ IsReturnBlock(b))

NextBlock ==
  /\ pc = "block" /\ after # <<>>
  /\ LET b == Head(after)
         rest == Tail(after)
         f == Len(code) + 1
     IN /\ mbb' = b
        /\ after' = rest
        /\ processed' = processed \cup {b}
        /\ originalFallThrough' = GetFallThrough(b, rest)
        /\ IF NeedsFakeBlock(b, rest)
           THEN /\ fakeBlock' = f
                /\ before' = before \o <<b, f>>
                /\ code' = Append(code, <<JmpTarget>>)
                /\ succ' = Append(succ, {})
           ELSE /\ fakeBlock' = Null
                /\ before' = Append(before, b)
                /\ UNCHANGED <<code, succ>>
  /\ pending' = lanes
  /\ lanes' = <<>>
  /\ takenLane' = Null
  /\ pc' = "lanes"
  /\ UNCHANGED fn

(***************************************************************************)
(* One iteration of the loop over the lanes: the lane arrives at MBB, is   *)
(* led around it, or is dropped.                                           *)
(***************************************************************************)
lane == Head(pending)
Arrives(l) == l.taken \/ l.dest = mbb

\* Mutant: a lane that is erased does not get its jump to MBB.
LaneArrivesOnce ==
  /\ pc = "lanes" /\ pending # <<>>
  /\ Arrives(lane)
  /\ IF lane.current # Null /\ takenLane = Null
     THEN /\ code' = [code EXCEPT ![lane.current] = Append(@, Jmp(mbb))]
          /\ succ' = [succ EXCEPT ![lane.current] = @ \cup {mbb}]
     ELSE UNCHANGED <<code, succ>>
  /\ IF takenLane = Null
     THEN takenLane' = Len(lanes) + 1 /\ lanes' = Append(lanes, lane)
     ELSE UNCHANGED <<takenLane, lanes>>
  /\ pending' = Tail(pending)
  /\ UNCHANGED <<fn, listVars, processed, blockVars, pc>>

\* The first lane to arrive is kept, to be reused for the way out of MBB;
\* any other one is erased from the list.
LaneArrives ==
  /\ pc = "lanes" /\ pending # <<>>
  /\ Arrives(lane)
  /\ IF lane.current # Null
     THEN /\ code' = [code EXCEPT ![lane.current] = Append(@, Jmp(mbb))]
          /\ succ' = [succ EXCEPT ![lane.current] = @ \cup {mbb}]
     ELSE UNCHANGED <<code, succ>>
  /\ IF takenLane = Null
     THEN /\ takenLane' = Len(lanes) + 1
          /\ lanes' = Append(lanes, lane)
     ELSE UNCHANGED <<takenLane, lanes>>
  /\ pending' = Tail(pending)
  /\ UNCHANGED <<fn, listVars, processed, blockVars, pc>>

\* addDummyInstructions: one for every instruction of MBB but two.
Dummies ==
  IF DummyInstr THEN [i \in 1 .. (IF Len(code[mbb]) > 2 THEN Len(code[mbb]) - 2 ELSE 0) |-> Add8Zero]
  ELSE <<>>

\* Mutant: a lane is not led through the skipped block.
LaneSkipsNothing ==
  /\ pc = "lanes" /\ pending # <<>>
  /\ ~Arrives(lane) /\ lane.current # Null /\ fakeBlock # Null
  /\ lanes' = Append(lanes, lane)
  /\ pending' = Tail(pending)
  /\ UNCHANGED <<fn, listVars, code, succ, processed, takenLane, blockVars, pc>>

LaneSkips ==
  /\ pc = "lanes" /\ pending # <<>>
  /\ ~Arrives(lane) /\ lane.current # Null /\ fakeBlock # Null
  /\ LET z == Len(code) + 1
     IN /\ before' = <<z>> \o before
        /\ code' = Append([code EXCEPT ![lane.current] = @ \o Dummies \o <<Lea(z), Jmp(fakeBlock)>>],
                          <<>>)
        /\ succ' = Append([[succ EXCEPT ![mbb] = @ \cup {z}]
                             EXCEPT ![lane.current] = @ \cup {fakeBlock}], {})
        /\ lanes' = Append(lanes, [lane EXCEPT !.current = z])
  /\ pending' = Tail(pending)
  /\ UNCHANGED <<fn, after, processed, takenLane, blockVars, pc>>

\* There is no fake block to skip through.  With assertions the compiler
\* aborts; without, the lane stays as it is.
LaneCannotSkip ==
  /\ pc = "lanes" /\ pending # <<>>
  /\ ~Arrives(lane) /\ lane.current # Null /\ fakeBlock = Null
  /\ IF Asserts
     THEN pc' = "abort" /\ UNCHANGED <<lanes, pending>>
     ELSE /\ lanes' = Append(lanes, lane)
          /\ pending' = Tail(pending)
          /\ UNCHANGED pc
  /\ UNCHANGED <<fn, listVars, code, succ, processed, takenLane, blockVars>>

\* Mutant: laneIterator is moved back without an erase before it.
LaneDiesInPlace ==
  /\ pc = "lanes" /\ pending # <<>>
  /\ ~Arrives(lane) /\ lane.current = Null
  /\ UNCHANGED vars

LaneDies ==
  /\ pc = "lanes" /\ pending # <<>>
  /\ ~Arrives(lane) /\ lane.current = Null
  /\ pending' = Tail(pending)
  /\ UNCHANGED <<fn, listVars, code, succ, processed, lanes, takenLane, blockVars, pc>>

\* Mutant: the new lane is not put in the list.
LanesDoneUnlisted ==
  /\ pc = "lanes" /\ pending = <<>>
  /\ takenLane' = IF takenLane = Null THEN Len(lanes) + 1 ELSE takenLane
  /\ pc' = "term"
  /\ UNCHANGED <<fn, listVars, code, succ, processed, lanes, pending, blockVars>>

\* After the last lane.  No lane arrived at a block that is only reached by
\* an indirect jump (or not at all): it gets a lane of its own.
LanesDone ==
  /\ pc = "lanes" /\ pending = <<>>
  /\ IF takenLane = Null
     THEN /\ lanes' = Append(lanes, EmptyLane)
          /\ takenLane' = Len(lanes) + 1
     ELSE UNCHANGED <<lanes, takenLane>>
  /\ pc' = "term"
  /\ UNCHANGED <<fn, listVars, code, succ, processed, pending, blockVars>>

-----------------------------------------------------------------------------
(***************************************************************************)
(* The end of MBB is converted, by the kind of its last instruction.       *)
(***************************************************************************)
last == Last(code[mbb])
UpdateLane(l) == [lanes EXCEPT ![takenLane] = l]

EmptyBlock ==
  /\ pc = "term" /\ code[mbb] = <<>>
  /\ pc' = "block"
  /\ UNCHANGED <<fn, listVars, code, succ, processed, laneVars, blockVars>>

\* Mutant: what is left of MBB is not converted.
SplitJumpOnly ==
  /\ pc = "term" /\ code[mbb] # <<>>
  /\ IsUnconditionalBranch(last)
  /\ Len(code[mbb]) > 1 /\ IsConditionalBranch(code[mbb][Len(code[mbb]) - 1])
  /\ LET newBlock == Len(code) + 1
     IN /\ code' = Append([code EXCEPT ![mbb] = Front(@)], <<last>>)
        /\ succ' = Append([succ EXCEPT ![mbb] = @ \cup {newBlock}], {})
        /\ after' = <<newBlock>> \o after
  /\ pc' = "block"
  /\ UNCHANGED <<fn, before, processed, laneVars, blockVars>>

\* je + jmp: the jmp moves to a block of its own, which the loop visits next.
\* What is left of MBB is then converted as a conditional branch.
SplitJump ==
  /\ pc = "term" /\ code[mbb] # <<>>
  /\ IsUnconditionalBranch(last)
  /\ Len(code[mbb]) > 1 /\ IsConditionalBranch(code[mbb][Len(code[mbb]) - 1])
  /\ LET newBlock == Len(code) + 1
     IN /\ code' = Append([code EXCEPT ![mbb] = Front(@)], <<last>>)
        /\ succ' = Append([succ EXCEPT ![mbb] = @ \cup {newBlock}], {})
        /\ after' = <<newBlock>> \o after
  /\ UNCHANGED <<fn, before, processed, laneVars, blockVars, pc>>

\* Mutant: a backward jump loads the address of the target itself.
ReplaceBackwardJumpDirectly ==
  /\ pc = "term" /\ code[mbb] # <<>>
  /\ IsUnconditionalBranch(last)
  /\ ~(Len(code[mbb]) > 1 /\ IsConditionalBranch(code[mbb][Len(code[mbb]) - 1]))
  /\ \E dst \in last.to :
       /\ dst \in processed
       /\ code' = [code EXCEPT ![mbb] = Append(Front(@), Lea(dst))]
       /\ lanes' = UpdateLane(DeadLane)
  /\ pc' = "block"
  /\ UNCHANGED <<fn, listVars, succ, processed, pending, takenLane, blockVars>>

ReplaceUnconditionalJump ==
  /\ pc = "term" /\ code[mbb] # <<>>
  /\ IsUnconditionalBranch(last)
  /\ ~(Len(code[mbb]) > 1 /\ IsConditionalBranch(code[mbb][Len(code[mbb]) - 1]))
  /\ \E dst \in last.to :
       LET z == Len(code) + 1
           back == dst \in processed
       IN /\ before' = <<z>> \o before
          /\ code' = Append([code EXCEPT ![mbb] = Append(Front(@), Lea(z))],
                            IF back THEN <<Jmp(dst)>> ELSE <<>>)
          /\ succ' = Append([succ EXCEPT ![mbb] = @ \cup {z}],
                            IF back THEN {dst} ELSE {})
          /\ lanes' = UpdateLane(IF back THEN DeadLane
                                 ELSE [current |-> z, dest |-> dst, taken |-> FALSE])
  /\ pc' = "block"
  /\ UNCHANGED <<fn, after, processed, pending, takenLane, blockVars>>

\* Mutant: the lane that arrived is left as it was.
ReplaceIndirectJumpKeepsLane ==
  /\ pc = "term" /\ code[mbb] # <<>>
  /\ IsIndirectBranch(last)
  /\ pc' = "block"
  /\ UNCHANGED <<fn, listVars, code, succ, processed, laneVars, blockVars>>

\* Indirect jumps are left alone.
ReplaceIndirectJump ==
  /\ pc = "term" /\ code[mbb] # <<>>
  /\ IsIndirectBranch(last)
  /\ lanes' = UpdateLane(DeadLane)
  /\ pc' = "block"
  /\ UNCHANGED <<fn, listVars, code, succ, processed, pending, takenLane, blockVars>>

\* z is the trampoline of the fall-through, z + 1 the one of the branch.
ReplaceConditionalBranch ==
  /\ pc = "term" /\ code[mbb] # <<>>
  /\ IsConditionalBranch(last) /\ last.cc # NoCond
  /\ \E dst \in last.to :
       LET z == Len(code) + 1
           back == dst \in processed
           fallLane == [current |-> z, dest |-> Null, taken |-> TRUE]
           jumpLane == [current |-> z + 1, dest |-> dst, taken |-> FALSE]
       IN /\ before' = <<z + 1, z>> \o before
          /\ code' = [code EXCEPT ![mbb] = Front(@) \o <<Lea(z), LeaTmp(z + 1), CMov(last.cc)>>]
                       \o << <<>>, IF back THEN <<Jmp(dst)>> ELSE <<>> >>
          /\ succ' = [succ EXCEPT ![mbb] = @ \cup {z, z + 1}]
                       \o << {}, IF back THEN {dst} ELSE {} >>
          /\ lanes' = IF back THEN UpdateLane(fallLane)
                      ELSE Append(UpdateLane(fallLane), jumpLane)
  /\ pc' = "block"
  /\ UNCHANGED <<fn, after, processed, pending, takenLane, blockVars>>

\* llvm_unreachable("non MBB operands not supported"), or assert(CC < 16) in
\* getCMovFromCond for a branch without a condition.  (In a release build what
\* happens then is undefined.)
UnsupportedBranch ==
  /\ pc = "term" /\ code[mbb] # <<>>
  /\ IsConditionalBranch(last) /\ (last.to = {} \/ last.cc = NoCond)
  /\ pc' = "abort"
  /\ UNCHANGED <<fn, listVars, code, succ, processed, laneVars, blockVars>>

NotABranch ==
  /\ pc = "term" /\ code[mbb] # <<>>
  /\ ~IsUnconditionalBranch(last) /\ ~IsIndirectBranch(last) /\ ~IsConditionalBranch(last)
LeavesBlock == originalFallThrough # Null \/ IsReturn(last) \/ IsCall(last)

\* assert(... && "either we have a fallthrough, or we return")
NoWayOut ==
  /\ NotABranch
  /\ Asserts /\ ~LeavesBlock
  /\ pc' = "abort"
  /\ UNCHANGED <<fn, listVars, code, succ, processed, laneVars, blockVars>>

\* Mutant: the trampoline is not recorded as a successor of MBB.
ReplaceNoBranchBlockUnlinked ==
  /\ NotABranch
  /\ Asserts => LeavesBlock
  /\ IF originalFallThrough # Null
     THEN LET z == Len(code) + 1
          IN /\ before' = <<z>> \o before
             /\ code' = Append([code EXCEPT ![mbb] = Append(@, Lea(z))], <<>>)
             /\ succ' = Append(succ, {})
             /\ lanes' = UpdateLane([current |-> z, dest |-> Null, taken |-> TRUE])
     ELSE /\ lanes' = UpdateLane(DeadLane)
          /\ UNCHANGED <<before, code, succ>>
  /\ pc' = "block"
  /\ UNCHANGED <<fn, after, processed, pending, takenLane, blockVars>>

ReplaceNoBranchBlock ==
  /\ NotABranch
  /\ Asserts => LeavesBlock
  /\ IF originalFallThrough # Null
     THEN LET z == Len(code) + 1
          IN /\ before' = <<z>> \o before
             /\ code' = Append([code EXCEPT ![mbb] = Append(@, Lea(z))], <<>>)
             /\ succ' = Append([succ EXCEPT ![mbb] = @ \cup {z}], {})
             /\ lanes' = UpdateLane([current |-> z, dest |-> Null, taken |-> TRUE])
     ELSE /\ lanes' = UpdateLane(DeadLane)
          /\ UNCHANGED <<before, code, succ>>
  /\ pc' = "block"
  /\ UNCHANGED <<fn, after, processed, pending, takenLane, blockVars>>

\* Mutant: the entry is looked up after the new block has become the first.
FinishLateEntry ==
  /\ pc = "block" /\ after = <<>>
  /\ before' = <<Len(code) + 1>> \o before
  /\ code' = Append(code, <<Jmp(Len(code) + 1)>>)
  /\ succ' = Append(succ, {Len(code) + 1})
  /\ pc' = "done"
  /\ UNCHANGED <<fn, after, processed, laneVars, blockVars>>

\* The jump over the trampolines becomes the new first block.
Finish ==
  /\ pc = "block" /\ after = <<>>
  /\ before' = <<Len(code) + 1>> \o before
  /\ code' = Append(code, <<Jmp(1)>>)
  /\ succ' = Append(succ, {1})
  /\ pc' = "done"
  /\ UNCHANGED <<fn, after, processed, laneVars, blockVars>>

LaneStep == LaneArrives \/ LaneSkips \/ LaneCannotSkip \/ LaneDies \/ LanesDone
TermStep ==
  \/ EmptyBlock \/ SplitJump \/ ReplaceUnconditionalJump \/ ReplaceIndirectJump
  \/ ReplaceConditionalBranch \/ UnsupportedBranch \/ NoWayOut \/ ReplaceNoBranchBlock
PassStep == NextBlock \/ LaneStep \/ TermStep \/ Finish

Stopped == pc \in {"done", "abort"} /\ UNCHANGED vars

Next == PassStep \/ Stopped
Spec == Init /\ [][Next]_vars
FairSpec == Spec /\ WF_vars(PassStep)

-----------------------------------------------------------------------------
(***************************************************************************)
(* Type invariant of the pass.                                             *)
(***************************************************************************)
Blocks == 1 .. Len(code)
CodeOK(c, s) ==
  /\ c \in Seq(Seq(Instr)) /\ s \in Seq(SUBSET Nat)
  /\ Len(c) >= N /\ Len(s) = Len(c)
LanesOK(ls, n) ==
  ls \in Seq(Lane) /\ \A i \in DOMAIN ls : ls[i].current \in 0 .. n
TypeOK ==
  /\ fn \in [1 .. N -> Sources] /\ WellFormed(fn)
  /\ CodeOK(code, succ)
  /\ before \in Seq(Blocks) /\ after \in Seq(Blocks) /\ processed \subseteq Blocks
  /\ LanesOK(lanes, Len(code)) /\ LanesOK(pending, Len(code))
  /\ takenLane \in 0 .. Len(lanes)
  /\ mbb \in 0 .. Len(code) /\ fakeBlock \in 0 .. Len(code)
  /\ originalFallThrough \in 0 .. Len(code)
  /\ pc \in {"block", "lanes", "term", "done", "abort"}
  /\ pc \in {"lanes", "term"} => mbb # Null
  /\ pc = "term" => takenLane # Null

(***************************************************************************)
(* assert(fakeBlock != nullptr && "assuming this will never happen for     *)
(* last block"): a lane that has to be led around MBB always finds a fake  *)
(* block behind MBB to be led through.                                     *)
(***************************************************************************)
SkipHasFakeBlock ==
  pc = "lanes" /\ pending # <<>> /\ ~Arrives(lane) /\ lane.current # Null
    => fakeBlock # Null

(***************************************************************************)
(* assert(... "either we have a fallthrough, or we return"): the last      *)
(* instruction of a block that does not branch falls through, returns or   *)
(* calls.                                                                  *)
(***************************************************************************)
FallsThroughOrReturns == NotABranch => LeavesBlock

(***************************************************************************)
(* The pass ends the compilation only over a function it does not support: *)
(* one with an empty block, a block that ends in a trap, a conditional     *)
(* tail call or a branch that tests no flag.  In particular neither of its *)
(* assertions can fail on any other function.                              *)
(***************************************************************************)
Supported(f) ==
  \A b \in 1 .. N :
    /\ f[b] # <<>>
    /\ Last(f[b]).op # "stop"
    /\ \A i \in DOMAIN f[b] : f[b][i].op # "tailcc" /\ (f[b][i].op = "jcc" => f[b][i].cc # NoCond)
RefusesOnlyUnsupported == pc = "abort" => ~Supported(fn)

(***************************************************************************)
(* Both asserted conditions hold for a supported function, whether or not  *)
(* the build evaluates them.                                               *)
(***************************************************************************)
AssertionsHold == Supported(fn) => SkipHasFakeBlock /\ FallsThroughOrReturns

(***************************************************************************)
(* What makes RefusesOnlyUnsupported inductive, by parts.                  *)
(*  AfterInOrder: the blocks still to be visited are distinct, and a       *)
(*    source block is followed by the next source block.                   *)
(*  AfterUntouched: they are still the source's; a split-off jump is the   *)
(*    only other kind of block there.                                      *)
(*  VisitedOrAhead: a block not yet visited is still to be visited.        *)
(*  LanesApart: no lane is writing to the block at hand or a later one.    *)
(*  LanesLeadAhead: a lane bound for a destination will get there.         *)
(*  AtBlock: what is known of the block at hand.                           *)
(***************************************************************************)
Visiting == pc \in {"lanes", "term"}
AfterInOrder ==
  /\ \A j, k \in DOMAIN after : after[j] = after[k] => j = k
  /\ \A k \in DOMAIN after : after[k] < N => k < Len(after) /\ after[k + 1] = after[k] + 1
  /\ Visiting => mbb \notin Range(after)
Untouched(b) ==
  IF b <= N THEN code[b] = fn[b] /\ SourceSuccessors(fn, b) \subseteq succ[b]
  ELSE Len(code[b]) = 1 /\ code[b][1].op = "jmp" /\ SourceInstr(code[b][1])
AfterUntouched == \A b \in Range(after) : Untouched(b)
VisitedOrAhead == 1 .. N \subseteq processed \cup Range(after)
Ahead == Range(after) \cup (IF Visiting THEN {mbb} ELSE {})
LanesApart ==
  \A l \in Range(lanes) \cup Range(pending) :
    l.current # Null => l.current > N /\ l.current \notin Ahead
Bound(l) == l.current # Null /\ ~l.taken
LanesLeadAhead ==
  /\ \A i \in DOMAIN lanes :
       Bound(lanes[i]) /\ ~(Visiting /\ i = takenLane) => lanes[i].dest \in Range(after)
  /\ \A l \in Range(pending) : Bound(l) => l.dest \in Ahead
  /\ pc # "lanes" => pending = <<>>
AtBlock ==
  Visiting =>
    /\ fakeBlock = Null => after = <<>> /\ IsReturn(last)
    /\ code[mbb] # <<>>
    /\ \A i \in DOMAIN code[mbb] : SourceInstr(code[mbb][i]) /\ code[mbb][i].op # "tailcc"
    /\ \A i \in DOMAIN code[mbb] : code[mbb][i].op = "jcc" => code[mbb][i].cc # NoCond
    /\ Last(code[mbb]).op # "stop"
    /\ Last(code[mbb]).op \in {"body", "keep"} => originalFallThrough # Null
PassInvariant ==
  /\ pc # "abort" /\ AfterInOrder /\ AfterUntouched /\ VisitedOrAhead
  /\ LanesApart /\ LanesLeadAhead /\ AtBlock
ConversionInvariant == TypeOK /\ (Supported(fn) => PassInvariant)

(***************************************************************************)
(* The trampolines still without a jump are exactly the ones some lane     *)
(* is going to complete, each by one lane only: no trampoline is forgotten *)
(* (control would run off its end) and none is completed twice.  The lane  *)
(* *takenLane has just been completed and is about to be replaced.         *)
(***************************************************************************)
OpenLanes ==
  {i \in DOMAIN lanes : lanes[i].current # Null /\ ~(pc \in {"lanes", "term"} /\ i = takenLane)}
OpenPending == {i \in DOMAIN pending : pending[i].current # Null}
OpenTrampolinesHaveOneLane ==
  /\ {b \in Blocks : b > N /\ code[b] = <<>>} =
       {lanes[i].current : i \in OpenLanes} \cup {pending[i].current : i \in OpenPending}
  /\ \A i, j \in OpenLanes : lanes[i].current = lanes[j].current => i = j
  /\ \A i, j \in OpenPending : pending[i].current = pending[j].current => i = j
  /\ \A i \in OpenLanes, j \in OpenPending : lanes[i].current # pending[j].current

(***************************************************************************)
(* When the pass is done, control cannot run off the end of any block into *)
(* the block that happens to be next: the block ends in an instruction     *)
(* that does not continue, or has loaded R15 and is followed by `jmp *r15'.*)
(***************************************************************************)
Layout == before \o after
FollowedByFake(p) == p < Len(Layout) /\ code[Layout[p + 1]] = <<JmpTarget>>
EveryBlockLeaves ==
  pc = "done" =>
    \A p \in DOMAIN Layout :
      LET s == code[Layout[p]]
      IN s # <<>> /\ \/ Last(s).op \in {"jmp", "ind", "jmpreg", "ret", "call", "stop"}
                     \/ Last(s).op \in {"lea", "cmov"} /\ FollowedByFake(p)

(***************************************************************************)
(* AsmPrinter emits a block's label unless nothing, or only the block just *)
(* in front of it, leads to it according to the recorded successors.       *)
(* Every block that an instruction of the result names has its label.      *)
(***************************************************************************)
Preds(b) == {p \in Blocks : b \in succ[p]}
LayoutSuccessor(p, b) == \E k \in 1 .. Len(Layout) - 1 : Layout[k] = p /\ Layout[k + 1] = b
OnlyReachableByFallthrough(b) ==
  \E p \in Preds(b) :
    /\ Preds(b) = {p} /\ LayoutSuccessor(p, b)
    /\ \A i \in Terminators(code[p]) :
         IsBranch(code[p][i]) /\ ~IsIndirectBranch(code[p][i]) /\ b \notin code[p][i].to
LabelEmitted(b) == Preds(b) # {} /\ ~OnlyReachableByFallthrough(b)
NamedBlocksHaveLabels ==
  pc = "done" => \A b \in Blocks : \A t \in Named(code[b]) : LabelEmitted(t)

(***************************************************************************)
(* "convert all branch instructions into unconditional branches"           *)
(* (README.md): no conditional and no source-level indirect branch is left.*)
(***************************************************************************)
NoBranchLeft ==
  pc = "done" =>
    \A b \in Blocks : \A i \in DOMAIN code[b] : code[b][i].op \notin {"jcc", "ind"}

(***************************************************************************)
(* The pass comes to its end, although it adds blocks to the list it walks *)
(* and lanes to the list it walks for each of them.                        *)
(***************************************************************************)
PassTerminates == <>(pc \in {"done", "abort"})
=============================================================================
