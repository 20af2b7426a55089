--------------------------- MODULE ExecutionProofs ---------------------------
(***************************************************************************)
(* Theorems about the converted function as it runs: it implements the     *)
(* source function, block for block, and control stays within the code.    *)
(* They rest on the goals of PathProofs: at any moment the goal of the     *)
(* block control is in is a block the source goes to next.                 *)
(***************************************************************************)
EXTENDS ConvertedExecution, PathProofs

-----------------------------------------------------------------------------
(***************************************************************************)
(* The pass runs as before, and the result runs when it is done.           *)
(***************************************************************************)
LEMMA XStepIsStep == [XNext]_allvars => [Next]_vars
BY DEF XNext, Convert, Execute, Over, Next, allvars

LEMMA PassRuns == XSpec => Spec
<1>1. XInit => Init
  BY DEF XInit
<1> QED
  BY <1>1, XStepIsStep, PTL DEF XSpec, Spec

\* A step of the run: the code is complete and stays as it is.
LEMMA XSteps ==
  ASSUME [XNext]_allvars
  PROVE  (PassStep /\ UNCHANGED xvars) \/ (Exec /\ UNCHANGED vars) \/ UNCHANGED allvars
BY DEF XNext, Convert, Execute, Over

LEMMA PassStepRuns == PassStep => pc # "done"
BY DEF PassStep, NextBlock, LaneStep, LaneArrives, LaneSkips, LaneCannotSkip, LaneDies, LanesDone,
   TermStep, EmptyBlock, SplitJump, ReplaceUnconditionalJump, ReplaceIndirectJump,
   ReplaceConditionalBranch, UnsupportedBranch, NoWayOut, NotABranch, ReplaceNoBranchBlock, Finish

(***************************************************************************)
(* What the source does at the end of a block.                             *)
(***************************************************************************)
LEMMA ExitAt ==
  ASSUME Good, NEW b \in 1 .. N, NEW fl, NEW i \in 1 .. Len(fn[b]), Source!Leaves(fn[b][i], fl),
         \A j \in 1 .. i - 1 : ~Source!Leaves(fn[b][j], fl)
  PROVE  Source!Targets(b, fl) = fn[b][i].to
<1> DEFINE exits == {j \in DOMAIN fn[b] : Source!Leaves(fn[b][j], fl)}
<1>1. DOMAIN fn[b] = 1 .. Len(fn[b]) /\ Len(fn[b]) \in Nat
  BY FnFacts
<1>2. i \in exits /\ \A j \in exits : i <= j
  BY <1>1
<1>3. \A j \in exits : (\A k \in exits : j <= k) => j = i
  BY <1>1, <1>2
<1>4. Source!FirstExit(b, fl) = Source!Min(exits)
  BY <1>2 DEF Source!FirstExit
<1> HIDE DEF exits
<1>5. Source!Min(exits) = i
  BY <1>2, <1>3 DEF Source!Min
<1> QED
  BY <1>4, <1>5 DEF Source!Targets

LEMMA NoExit ==
  ASSUME Good, NEW b \in 1 .. N, NEW fl, \A j \in 1 .. Len(fn[b]) : ~Source!Leaves(fn[b][j], fl)
  PROVE  Source!Targets(b, fl) = {b + 1}
<1>1. DOMAIN fn[b] = 1 .. Len(fn[b])
  BY FnFacts
<1> QED
  BY <1>1 DEF Source!FirstExit, Source!Targets

LEMMA ContinuesTarget ==
  ASSUME Good, NEW b \in 1 .. N, NEW fl, NEW k \in 0 .. Len(fn[b]), NEW t, Continues(b, k, t),
         \A j \in 1 .. k : ~Source!Leaves(fn[b][j], fl)
  PROVE  Source!Targets(b, fl) = {t}
<1>1. Len(fn[b]) \in Nat
  BY FnFacts
<1>2. CASE k = Len(fn[b]) /\ t = b + 1
  BY <1>2, NoExit
<1>3. CASE k < Len(fn[b]) /\ fn[b][k + 1].op = "jmp" /\ fn[b][k + 1].to = {t}
  <2>1. PICK i \in 1 .. Len(fn[b]) : i = k + 1
    BY <1>1, <1>3
  <2>2. \A j \in 1 .. i - 1 : ~Source!Leaves(fn[b][j], fl)
    BY <1>1, <2>1
  <2>3. Source!Leaves(fn[b][i], fl)
    BY <1>3, <2>1 DEF Source!Leaves
  <2> QED
    BY <1>3, <2>1, <2>2, <2>3, ExitAt
<1> QED
  BY <1>2, <1>3 DEF Continues

(***************************************************************************)
(* The finished code.                                                      *)
(***************************************************************************)
Entry ==
  pc = "done" =>
    before # <<>> /\ before[1] \in N + 1 .. Len(code) /\ code[before[1]] = <<Jmp(1)>>
Finished(g) == Good /\ OneLane /\ LayoutOK /\ PathGoals(g) /\ Entry /\ pc = "done"

LEMMA FinishedFacts ==
  ASSUME NEW g, Finished(g)
  PROVE  /\ Good /\ GoalOK(g) /\ LeaBeforeFake /\ Layout = before /\ Len(before) \in Nat
         /\ N \in Nat /\ N >= 1 /\ Len(code) \in Nat /\ N <= Len(code)
         /\ \A b \in 1 .. N : Converted(g, b)
         /\ \A b \in N + 1 .. Len(code) : Fake(b) \/ Path(g, b)
         /\ \A b \in 1 .. Len(code) : /\ b \in 1 .. N \/ b \in N + 1 .. Len(code)
                                      /\ code[b] \in Seq(Instr) /\ Len(code[b]) \in Nat
                                      /\ DOMAIN code[b] = 1 .. Len(code[b])
<1>1. Good /\ OneLane /\ LayoutOK /\ PathGoals(g) /\ pc = "done"
  BY DEF Finished
<1>2. /\ after = <<>> /\ \A b \in 1 .. N : Converted(g, b)
      /\ \A b \in N + 1 .. Len(code) : Fake(b) \/ Path(g, b)
  BY <1>1, DoneFacts
<1>3. Layout = before /\ Len(before) \in Nat
  BY <1>1, <1>2, ListFacts DEF Layout
<1>4. \A b \in 1 .. Len(code) : code[b] \in Seq(Instr)
  BY <1>1, GoodFacts
<1>5. \A b \in 1 .. Len(code) : Len(code[b]) \in Nat /\ DOMAIN code[b] = 1 .. Len(code[b])
  BY <1>4
<1> QED
  BY <1>1, <1>2, <1>3, <1>4, <1>5, SizeFacts DEF PathGoals, LayoutOK

LEMMA OpFacts ==
  /\ \A z : Lea(z).op = "lea" /\ Lea(z).to = {z}
  /\ \A z : LeaTmp(z).op = "leatmp" /\ LeaTmp(z).to = {z}
  /\ \A z : Jmp(z).op = "jmp" /\ Jmp(z).to = {z}
  /\ \A c : CMov(c).op = "cmov" /\ CMov(c).cc = c /\ CMov(c).to = {}
  /\ JmpTarget.op = "jmpreg" /\ JmpTarget.to = {}
BY DEF Lea, LeaTmp, Jmp, CMov, JmpTarget, Plain

\* The instructions of a trampoline.
LEMMA PathInsn ==
  ASSUME NEW g, NEW b, Path(g, b), NEW i \in 1 .. Len(code[b])
  PROVE  /\ code[b][i].op \in {"dummy", "lea", "jmp"} /\ (code[b][i].op = "dummy" => DummyInstr)
         /\ code[b][i].op = "lea" => Hop(g, b, i)
         /\ code[b][i].op = "jmp" => Arrival(g, b, i)
<1>1. (DummyInstr /\ code[b][i].op = "dummy") \/ Hop(g, b, i) \/ Arrival(g, b, i)
  BY DEF Path, Add8Zero, Plain
<1>2. Hop(g, b, i) => code[b][i].op = "lea"
  BY DEF Hop, Lea
<1>3. Arrival(g, b, i) => code[b][i].op = "jmp"
  BY DEF Arrival, Jmp
<1> QED
  BY <1>1, <1>2, <1>3

\* The instructions of a converted source block: the source's, up to the
\* loads at its end.
LEMMA ConvertedInsn ==
  ASSUME NEW g, Finished(g), NEW b \in 1 .. N, NEW i \in 1 .. Len(code[b])
  PROVE  \/ code[b][i].op \in {"lea", "leatmp", "cmov"} /\ code[b][i].to \subseteq N + 1 .. Len(code)
         \/ /\ i \in 1 .. Len(fn[b]) /\ \A j \in 1 .. i : code[b][j] = fn[b][j]
            /\ SourceInstr(code[b][i])
<1>1. /\ Good /\ Converted(g, b) /\ Len(code[b]) \in Nat
  <2>1. b \in 1 .. Len(code)
    BY FinishedFacts
  <2> QED
    BY <2>1, FinishedFacts
<1>2. Len(fn[b]) \in Nat /\ \A j \in 1 .. Len(fn[b]) : SourceInstr(fn[b][j])
  BY <1>1, FnFacts
<1>3. ASSUME NEW k, Keeps(b, k), i \in 1 .. k, k \in Nat
      PROVE  /\ i \in 1 .. Len(fn[b]) /\ \A j \in 1 .. i : code[b][j] = fn[b][j]
             /\ SourceInstr(code[b][i])
  <2>1. i \in 1 .. Len(fn[b]) /\ \A j \in 1 .. i : j \in 1 .. k
    BY <1>2, <1>3 DEF Keeps
  <2> QED
    BY <1>2, <1>3, <2>1 DEF Keeps
<1>4. CASE EndsAsBefore(b)
  BY <1>2, <1>3, <1>4 DEF EndsAsBefore
<1>5. CASE EndsInLea(g, b)
  <2>1. PICK k \in 0 .. Len(fn[b]), z \in N + 1 .. Len(code) :
          Keeps(b, k) /\ Len(code[b]) = k + 1 /\ code[b][k + 1] = Lea(z)
    BY <1>5 DEF EndsInLea
  <2>2. k \in Nat /\ (i = k + 1 \/ i \in 1 .. k)
    BY <1>2, <2>1
  <2> QED
    BY <1>3, <2>1, <2>2, OpFacts
<1>6. CASE EndsInCMov(g, b)
  <2>1. PICK k \in 1 .. Len(fn[b]), z \in N + 1 .. Len(code), y \in N + 1 .. Len(code) :
          /\ Keeps(b, k - 1) /\ Len(code[b]) = k + 2
          /\ code[b][k] = Lea(z) /\ code[b][k + 1] = LeaTmp(y) /\ code[b][k + 2] = CMov(fn[b][k].cc)
    BY <1>6 DEF EndsInCMov
  <2>2. k - 1 \in Nat /\ (i = k \/ i = k + 1 \/ i = k + 2 \/ i \in 1 .. k - 1)
    <3>1. k \in Nat /\ k >= 1 /\ i \in Nat /\ i >= 1 /\ i <= k + 2
      BY <1>2, <2>1
    <3> QED
      BY <3>1
  <2>3. CASE i \in 1 .. k - 1
    <3>1. PICK q \in Nat : q = k - 1
      BY <2>2
    <3> QED
      BY <1>3, <2>1, <2>3, <3>1
  <2>4. CASE i = k \/ i = k + 1 \/ i = k + 2
    <3>1. \/ code[b][i] = Lea(z) \/ code[b][i] = LeaTmp(y) \/ code[b][i] = CMov(fn[b][k].cc)
      BY <2>1, <2>4
    <3> QED
      BY <3>1 DEF Lea, LeaTmp, CMov
  <2> QED
    BY <2>2, <2>3, <2>4
<1> QED
  BY <1>1, <1>4, <1>5, <1>6 DEF Converted

\* Where the instructions of the finished code lead.
LEMMA Operands ==
  ASSUME NEW g, Finished(g), NEW b \in 1 .. Len(code), NEW i \in 1 .. Len(code[b])
  PROVE  /\ code[b][i].op # "dummy" => code[b][i].to \subseteq 1 .. Len(code)
         /\ code[b][i].op \in {"lea", "leatmp"} => code[b][i].to \subseteq N + 1 .. Len(code)
<1>1. 1 .. N \subseteq 1 .. Len(code) /\ N + 1 .. Len(code) \subseteq 1 .. Len(code)
  BY FinishedFacts
<1>2. CASE b \in 1 .. N
  <2>1. SourceInstr(code[b][i]) => code[b][i].to \subseteq 1 .. N /\ code[b][i].op \notin {"lea", "leatmp"}
    BY DEF SourceInstr, SourceOps
  <2> QED
    BY <1>1, <1>2, <2>1, ConvertedInsn
<1>3. CASE Fake(b)
  <2>1. code[b][i] = JmpTarget
    BY <1>3 DEF Fake
  <2> QED
    BY <2>1, OpFacts
<1>4. CASE Path(g, b)
  <2>1. code[b][i].op = "dummy" \/ Hop(g, b, i) \/ Arrival(g, b, i)
    BY <1>4 DEF Path, Add8Zero, Plain
  <2>2. CASE Hop(g, b, i)
    BY <1>1, <2>2 DEF Hop, Lea
  <2>3. CASE Arrival(g, b, i)
    BY <1>1, <2>3 DEF Arrival, Jmp
  <2> QED
    BY <1>1, <2>1, <2>2, <2>3
<1> QED
  BY <1>2, <1>3, <1>4, FinishedFacts

LEMMA EntryHolds == Spec => [](Supported(fn) => Entry)
<1> DEFINE Inv == Supported(fn) => Good
           P == Supported(fn) => Entry
<1>1. Init => P
  BY DEF Init, Entry
<1>2. P /\ Inv /\ [Next]_vars => P'
  <2> SUFFICES ASSUME P, Inv, [Next]_vars, Supported(fn)' PROVE Entry'
    OBVIOUS
  <2>1. Supported(fn)
    BY FunctionFixed DEF Supported
  <2>2. Good
    BY <2>1
  <2>3. CASE Finish
    <3>1. PICK z : z = Len(code) + 1
      OBVIOUS
    <3>2. Len(code') = z /\ code'[z] = <<Jmp(1)>> /\ before' = <<z>> \o before
      BY <2>2, <2>3, <3>1, FinishEffect
    <3>3. z \in Nat /\ z \in N + 1 .. z /\ before \in Seq(Nat)
      BY <2>2, <3>1, SizeFacts, BeforeIsNat
    <3>4. (<<z>> \o before)[1] = z /\ <<z>> \o before # <<>>
      BY <3>3, ConsFacts
    <3> QED
      BY <3>2, <3>3, <3>4 DEF Entry
  <2>4. CASE UNCHANGED vars
    BY <2>1, <2>4 DEF vars, Entry
  <2>5. pc' # "done" \/ Finish \/ UNCHANGED vars
    <3>1. PassStep \/ UNCHANGED vars
      BY DEF Next, Stopped
    <3>2. PassStep => pc' # "done" \/ Finish
      BY DEF PassStep, NextBlock, LaneStep, LaneArrives, LaneSkips, LaneCannotSkip, LaneDies, LanesDone,
         TermStep, EmptyBlock, SplitJump, ReplaceUnconditionalJump, ReplaceIndirectJump,
         ReplaceConditionalBranch, UnsupportedBranch, NoWayOut, NotABranch, ReplaceNoBranchBlock
    <3> QED
      BY <3>1, <3>2
  <2> QED
    BY <2>3, <2>4, <2>5 DEF Entry
<1>3. TypeOK /\ (Supported(fn) => Good) /\ LayoutInvariant => Inv
  OBVIOUS
<1> QED
  BY <1>1, <1>2, <1>3, LayoutHolds, PTL DEF Spec

\* What is known of the code throughout.
CodeKnown == Supported(fn) => Good /\ OneLane /\ LayoutOK /\ PathInvariant /\ Entry

LEMMA CodeIsKnown == XSpec => []CodeKnown
<1>1. (Supported(fn) => Good) /\ LayoutInvariant /\ PathsInvariant /\ (Supported(fn) => Entry) => CodeKnown
  BY DEF CodeKnown, LayoutInvariant, PathsInvariant
<1> QED
  BY <1>1, LayoutHolds, PathsHold, EntryHolds, PassRuns, PTL

(***************************************************************************)
(* Before the function is entered, and whether it may be.                  *)
(***************************************************************************)
Idle ==
  /\ run = "off" => /\ blk = Null /\ ip = 1 /\ regs = [r \in Regs |-> 0] /\ eflags = {}
                    /\ at = 0 /\ flags = {} /\ tick = FALSE /\ trail = <<>>
  /\ run # "off" => pc = "done"
  /\ run \in {"off", "on", "over"} /\ home \in Homes

LEMMA IdleHolds == XSpec => []Idle
<1>1. XInit => Idle
  BY DEF XInit, Idle
<1>2. Idle /\ [XNext]_allvars => Idle'
  <2> SUFFICES ASSUME Idle, [XNext]_allvars PROVE Idle'
    OBVIOUS
  <2>1. CASE PassStep /\ UNCHANGED xvars
    BY <2>1, PassStepRuns DEF Idle, xvars
  <2>2. CASE UNCHANGED allvars
    BY <2>2 DEF allvars, vars, xvars, Idle
  <2>3. CASE Exec /\ UNCHANGED vars
    <3>1. pc' = pc
      BY <2>3 DEF vars
    <3>2. CASE Start
      BY <3>1, <3>2 DEF Start, Idle
    <3>3. CASE run = "on" /\ run' \in {"on", "over"} /\ home' = home
      BY <3>1, <3>3 DEF Idle
    <3>4. Start \/ (run = "on" /\ run' \in {"on", "over"} /\ home' = home)
      BY <2>3 DEF Exec, ExecBody, ExecLea, ExecCMov, ExecDummy, ExecJump, ExecJcc, ExecJmpTarget,
         ExecLeave, FallThrough, Executing
    <3> QED
      BY <3>2, <3>3, <3>4
  <2> QED
    BY <2>1, <2>2, <2>3, XSteps
<1> QED
  BY <1>1, <1>2, PTL DEF XSpec

(***************************************************************************)
(* Type correctness of the run.                                            *)
(***************************************************************************)
LEMMA OutcomesType == \A b, fl : fl \subseteq Conds => Source!Outcomes(b, fl) \subseteq SUBSET Conds
BY DEF Source!Outcomes

Placement ==
  /\ blk \in 0 .. Len(code) /\ ip \in Nat \ {0} /\ eflags \subseteq Conds /\ flags \subseteq Conds
  /\ at \in 0 .. N /\ tick \in BOOLEAN /\ trail \in Seq(Blocks)

LEMMA GoToType ==
  ASSUME Good, UNCHANGED vars, Placement, NEW b \in 1 .. Len(code), NEW tr \in Seq(Blocks), GoTo(b, tr)
  PROVE  Placement'
<1>1. code' = code
  BY DEF vars
<1>2. N \in Nat /\ Len(code) \in Nat /\ N <= Len(code) /\ b \in 0 .. Len(code) /\ 1 \in Nat \ {0}
  BY SizeFacts
<1>3. <<>> \in Seq(Blocks) /\ Blocks' = Blocks
  BY <1>1 DEF Blocks
<1>4. CASE b <= N
  <2>1. b \in 0 .. N /\ eflags' \in Source!Outcomes(b, eflags) /\ flags' = eflags'
        /\ at' = b /\ tick' = ~tick /\ trail' = <<>> /\ blk' = b /\ ip' = 1
    BY <1>2, <1>4 DEF GoTo
  <2>2. eflags' \subseteq Conds
    BY <2>1, OutcomesType DEF Placement
  <2> QED
    BY <1>1, <1>2, <1>3, <2>1, <2>2 DEF Placement
<1>5. CASE ~(b <= N)
  BY <1>1, <1>2, <1>3, <1>5 DEF GoTo, Placement
<1> QED
  BY <1>4, <1>5

LEMMA AdvanceType ==
  ASSUME UNCHANGED vars, Placement, Advance, eflags' \subseteq Conds
  PROVE  Placement'
<1>1. code' = code /\ Blocks' = Blocks
  BY DEF vars, Blocks
<1>2. ip' \in Nat \ {0}
  BY DEF Placement, Advance
<1> QED
  BY <1>1, <1>2 DEF Placement, Advance

\* The values before the function is entered are of the right type.
LEMMA IdleType ==
  ASSUME Idle, run = "off", TypeOK
  PROVE  XTypeOK
<1>1. Len(code) \in Nat /\ N \in Nat
  BY NAssumption DEF TypeOK, CodeOK
<1>2. 0 \in 0 .. Len(code) /\ 0 \in 0 .. N /\ 1 \in Nat \ {0}
  BY <1>1
<1>3. regs \in [Regs -> {0} \cup N + 1 .. Len(code)]
  BY DEF Idle
<1>4. <<>> \in Seq(Blocks)
  OBVIOUS
<1>5. tick \in BOOLEAN
  BY DEF Idle
<1> QED
  BY <1>2, <1>3, <1>4, <1>5 DEF Idle, XTypeOK, Null

LEMMA IdleTypeNext == Idle' /\ run' = "off" /\ TypeOK' => XTypeOK'
<1>1. Idle /\ run = "off" /\ TypeOK => XTypeOK
  BY IdleType
<1>2. (Idle /\ run = "off" /\ TypeOK => XTypeOK)'
  BY <1>1, PTL
<1> QED
  BY <1>2

\* One instruction.
Values == {0} \cup N + 1 .. Len(code)
Within(b, i) == b # Null /\ i <= Len(code[b]) + 1
ExecTyped == Placement' /\ regs' \in [Regs -> Values] /\ (run' # "off" => Within(blk', ip'))

LEMMA ExecType ==
  ASSUME NEW g, Finished(g), XTypeOK, Exec, UNCHANGED vars
  PROVE  ExecTyped
<1>0. Good /\ code' = code /\ Layout = before /\ Len(before) \in Nat
      /\ \A p \in 1 .. Len(before) : before[p] \in 1 .. Len(code)
  BY FinishedFacts, ListFacts DEF vars
<1>1. Placement /\ regs \in [Regs -> Values] /\ trail \in Seq(Blocks) /\ eflags \subseteq Conds
  BY DEF XTypeOK, Placement, Values
<1>2. run = "on" => blk \in 1 .. Len(code)
  BY <1>0, SizeFacts DEF XTypeOK, Null
<1>3. Executing => blk \in 1 .. Len(code) /\ ip \in 1 .. Len(code[blk])
  <2>1. Executing => Len(code[blk]) \in Nat
    BY <1>2, FinishedFacts DEF Executing
  <2> QED
    BY <1>2, <2>1 DEF Executing, XTypeOK
<1>4. Executing /\ insn.op # "dummy" => insn.to \subseteq 1 .. Len(code)
  BY <1>3, Operands DEF insn
<1>5. ASSUME NEW b \in 1 .. Len(code), NEW tr \in Seq(Blocks), GoTo(b, tr), regs' = regs PROVE ExecTyped
  <2>1. blk' = b /\ ip' = 1 /\ b # Null
    BY <1>0, <1>5, SizeFacts DEF GoTo, Null
  <2>2. Len(code[b]) \in Nat
    BY FinishedFacts
  <2>3. Within(blk', ip')
    BY <2>1, <2>2 DEF Within
  <2> QED
    BY <1>0, <1>1, <1>5, <2>3, GoToType DEF ExecTyped
<1>6. ASSUME Executing, Advance, eflags' \subseteq Conds, regs' \in [Regs -> Values] PROVE ExecTyped
  <2>1. blk' = blk /\ ip' = ip + 1 /\ blk # Null
    BY <1>3, <1>6 DEF Advance, Null
  <2>2. Within(blk', ip')
    BY <1>3, <1>6, <2>1, FinishedFacts DEF Within
  <2> QED
    BY <1>1, <1>6, <2>2, AdvanceType DEF ExecTyped
<1>7. CASE Start
  <2>1. GoTo(before[1], trail) /\ regs' = regs
    BY <1>0, <1>7 DEF Start
  <2>2. before[1] \in 1 .. Len(code)
    <3>1. before[1] \in N + 1 .. Len(code)
      BY DEF Finished, Entry
    <3> QED
      BY <1>0, <3>1, SizeFacts
  <2> QED
    BY <1>1, <1>5, <2>1, <2>2
<1>8. CASE ExecBody
  BY <1>1, <1>6, <1>8 DEF ExecBody
<1>9. CASE ExecLea
  <2>1. PICK r \in Regs, b \in insn.to : regs' = [regs EXCEPT ![r] = b]
    BY <1>9 DEF ExecLea, Regs
  <2>2. Executing /\ Advance /\ eflags' = eflags /\ insn.op \in {"lea", "leatmp"}
    BY <1>9 DEF ExecLea
  <2>3. b \in Values
    BY <1>3, <2>1, <2>2, Operands DEF insn, Values
  <2>4. regs' \in [Regs -> Values]
    BY <1>1, <2>1, <2>3
  <2> QED
    BY <1>1, <1>6, <2>2, <2>4
<1>10. CASE ExecCMov
  <2>1. Executing /\ Advance /\ eflags' = eflags
    BY <1>10 DEF ExecCMov
  <2>2. regs["R13"] \in Values
    BY <1>1 DEF Regs
  <2>3. regs' \in [Regs -> Values]
    BY <1>1, <1>10, <2>2 DEF ExecCMov
  <2> QED
    BY <1>1, <1>6, <2>1, <2>3
<1>11. CASE ExecDummy
  BY <1>1, <1>6, <1>11 DEF ExecDummy
<1>12. CASE ExecJump
  <2>1. PICK b \in insn.to : GoTo(b, trail)
    BY <1>12 DEF ExecJump
  <2>2. regs' = regs /\ b \in 1 .. Len(code)
    BY <1>4, <1>12, <2>1 DEF ExecJump
  <2> QED
    BY <1>1, <1>5, <2>1, <2>2
<1>13. CASE ExecJcc
  <2>1. Executing /\ regs' = regs /\ insn.op = "jcc"
        /\ \/ \E b \in insn.to : GoTo(b, trail)
           \/ Advance /\ eflags' = eflags
    BY <1>13 DEF ExecJcc
  <2>2. CASE Advance /\ eflags' = eflags
    BY <1>1, <1>6, <2>1, <2>2
  <2>3. CASE \E b \in insn.to : GoTo(b, trail)
    BY <1>1, <1>4, <1>5, <2>1, <2>3
  <2> QED
    BY <2>1, <2>2, <2>3
<1>14. CASE ExecJmpTarget
  <2>1. regs["R15"] \in 1 .. Len(code) /\ GoTo(regs["R15"], Append(trail, blk)) /\ regs' = regs
        /\ blk \in 1 .. Len(code)
    BY <1>3, <1>14 DEF ExecJmpTarget, Blocks
  <2>2. Append(trail, blk) \in Seq(Blocks)
    BY <1>1, <2>1 DEF Blocks
  <2> QED
    BY <1>5, <2>1, <2>2
<1>15. CASE ExecLeave
  <2>1. UNCHANGED <<blk, ip, regs, eflags, at, flags, tick, trail>> /\ run' = "over" /\ Executing
    BY <1>15 DEF ExecLeave, history
  <2>2. Within(blk', ip')
    BY <2>1 DEF Executing, XTypeOK, Within
  <2> QED
    BY <1>0, <1>1, <2>1, <2>2 DEF ExecTyped, Placement, Blocks
<1>16. CASE FallThrough
  <2>1. PICK k \in 1 .. Len(before) - 1 : GoTo(before[k + 1], trail) /\ regs' = regs
    BY <1>0, <1>16 DEF FallThrough
  <2>2. before[k + 1] \in 1 .. Len(code)
    <3>1. k + 1 \in 1 .. Len(before)
      BY <1>0
    <3> QED
      BY <1>0, <3>1
  <2> QED
    BY <1>1, <1>5, <2>1, <2>2
<1> QED
  BY <1>7, <1>8, <1>9, <1>10, <1>11, <1>12, <1>13, <1>14, <1>15, <1>16 DEF Exec

\* The run of a supported function is well typed: from the call to the return
\* control is at an instruction of a block or just behind its last one, and no
\* register ever holds the address of a source block, so that `jmp *r15' leads
\* into a trampoline and nowhere else.
THEOREM RunTyped == XSpec => [](Supported(fn) => XTypeOK)
<1> DEFINE P == Supported(fn) => XTypeOK
<1>1. XInit /\ Idle => P
  BY InitType, IdleType DEF XInit
<1>2. P /\ CodeKnown /\ CodeKnown' /\ Idle /\ Idle' /\ [XNext]_allvars => P'
  <2> SUFFICES ASSUME P, CodeKnown, CodeKnown', Idle, Idle', [XNext]_allvars, Supported(fn)'
               PROVE  XTypeOK'
    OBVIOUS
  <2>1. Supported(fn)
    BY XStepIsStep, FunctionFixed DEF Supported
  <2>2. Good /\ Good' /\ OneLane /\ LayoutOK /\ Entry /\ XTypeOK
    BY <2>1 DEF CodeKnown
  <2>4. CASE UNCHANGED allvars
    BY <2>2, <2>4 DEF allvars, vars, xvars, XTypeOK, Blocks
  <2>5. CASE PassStep /\ UNCHANGED xvars
    <3>1. run' = "off" /\ TypeOK'
      BY <2>2, <2>5, PassStepRuns DEF Idle, xvars, Good
    <3> QED
      BY <3>1, IdleTypeNext
  <2>6. CASE Exec /\ UNCHANGED vars
    <3>1. PICK g : PathGoals(g)
      BY <2>1 DEF CodeKnown, PathInvariant
    <3>2. pc = "done" /\ code' = code /\ Blocks' = Blocks
      BY <2>6 DEF Exec, Start, ExecBody, ExecLea, ExecCMov, ExecDummy, ExecJump, ExecJcc, ExecJmpTarget,
         ExecLeave, FallThrough, Executing, Idle, vars, Blocks
    <3>3. Finished(g)
      BY <2>2, <3>1, <3>2 DEF Finished
    <3>4. ExecTyped
      BY <2>2, <2>6, <3>3, ExecType
    <3> QED
      <4>1. regs' \in [Regs -> {0} \cup N + 1 .. Len(code')] /\ Placement'
            /\ (run' # "off" => blk' # Null /\ ip' <= Len(code'[blk']) + 1)
        BY <3>2, <3>4 DEF ExecTyped, Values, Within
      <4>2. run' \in {"off", "on", "over"} /\ home' \in Homes
        BY DEF Idle
      <4> QED
        BY <4>1, <4>2, Zenon DEF Placement, XTypeOK
  <2> QED
    BY <2>4, <2>5, <2>6, XSteps
<1> QED
  BY <1>1, <1>2, CodeIsKnown, IdleHolds, PTL DEF XSpec
(***************************************************************************)
(* Where the run is on its way to.                                         *)
(***************************************************************************)
Way == IF at = 0 THEN {1} ELSE Source!Targets(at, flags)
Bound15(g) == \E t \in Way : Leads(g, regs["R15"], t)
Loaded ==
  ip > 1 =>
    /\ code[blk][ip - 1].op = "lea" => regs["R15"] \in code[blk][ip - 1].to
    /\ code[blk][ip - 1].op = "leatmp" =>
         /\ regs["R13"] \in code[blk][ip - 1].to
         /\ ip > 2 /\ code[blk][ip - 2].op = "lea" => regs["R15"] \in code[blk][ip - 2].to
RunOK(g) ==
  /\ blk \in 1 .. Len(code) /\ ip \in 1 .. Len(code[blk]) + 1
  /\ at \in 0 .. N /\ (DummyInstr \/ eflags = flags)
  /\ \A i \in 1 .. ip - 1 : ~Source!Leaves(code[blk][i], flags)
  /\ blk <= N => at = blk /\ eflags = flags
  /\ blk > N /\ ~Fake(blk) => g[blk] \in Way
  /\ Fake(blk) => ip = 1 /\ Bound15(g)
  /\ Loaded
  /\ ip > 1 /\ code[blk][ip - 1].op = "cmov" => Bound15(g)

\* With the dummy instructions in the trampolines, only a block that sets the
\* flags itself runs as it did in the source.
FlagsSafe(f) ==
  DummyInstr => \A b \in 1 .. N : \E i \in DOMAIN f[b] : f[b][i].op = "body"

\* A step that the source does not see.
Unseen == UNCHANGED <<fn, at, flags, tick>> /\ (run' = "over" <=> run = "over")

\* Control reaches a block of the source.
LEMMA EntersSource ==
  ASSUME NEW g, Finished(g), UNCHANGED vars, NEW b \in 1 .. N, NEW tr, GoTo(b, tr), b \in Way,
         run # "over", run' # "over", DummyInstr \/ eflags = flags, FlagsSafe(fn)
  PROVE  RunOK(g)' /\ Source!Enter(b)
<1>1. /\ blk' = b /\ ip' = 1 /\ at' = b /\ tick' = ~tick /\ eflags' \in Source!Outcomes(b, eflags)
      /\ flags' = eflags' /\ fn' = fn /\ code' = code
  <2>1. b <= N
    BY FinishedFacts
  <2> QED
    BY <2>1 DEF GoTo, vars
<1>2. Source!Outcomes(b, eflags) = Source!Outcomes(b, flags)
  BY DEF FlagsSafe, Source!Outcomes
<1>3. Source!Enter(b)
  BY <1>1, <1>2 DEF Source!Enter, Way
<1>4. /\ b \in 1 .. Len(code) /\ b \in 0 .. N /\ 1 \in 1 .. Len(code[b]) + 1 /\ ~(b > N)
      /\ 1 .. 1 - 1 = {} /\ ~Fake(b)
  BY FinishedFacts DEF GoalOK
<1>5. RunOK(g)'
  BY <1>1, <1>4 DEF RunOK, Loaded, Fake
<1> QED
  BY <1>3, <1>5

\* Control reaches a block made by the pass.
LEMMA EntersMade ==
  ASSUME NEW g, Finished(g), UNCHANGED vars, NEW b \in N + 1 .. Len(code), NEW tr, GoTo(b, tr),
         regs' = regs, at \in 0 .. N, DummyInstr \/ eflags = flags,
         IF Fake(b) THEN Bound15(g) ELSE g[b] \in Way
  PROVE  RunOK(g)' /\ UNCHANGED <<fn, at, flags, tick>>
<1>1. /\ blk' = b /\ ip' = 1 /\ UNCHANGED <<eflags, at, flags, tick, fn, code>>
  <2>1. ~(b <= N)
    BY FinishedFacts
  <2> QED
    BY <2>1 DEF GoTo, vars
<1>2. Way' = Way
  BY <1>1 DEF Way, Source!Targets, Source!FirstExit
<1>3. Bound15(g) => Bound15(g)'
  BY <1>1, <1>2 DEF Bound15, Leads, Fake
<1>4. /\ b \in 1 .. Len(code) /\ 1 \in 1 .. Len(code[b]) + 1 /\ ~(b <= N) /\ 1 .. 1 - 1 = {}
  <2>1. b \in 1 .. Len(code)
    BY FinishedFacts
  <2> QED
    BY <2>1, FinishedFacts
<1>5. RunOK(g)'
  BY <1>1, <1>2, <1>3, <1>4 DEF RunOK, Loaded, Fake
<1> QED
  BY <1>1, <1>5

\* The instruction at hand.
LEMMA AtInsn ==
  ASSUME NEW g, Finished(g), RunOK(g), Executing
  PROVE  /\ blk \in 1 .. Len(code) /\ ip \in 1 .. Len(code[blk])
         /\ Len(code[blk]) \in Nat /\ (blk \in 1 .. N \/ blk \in N + 1 .. Len(code))
         /\ blk \in 1 .. N <=> blk <= N
<1>1. blk \in 1 .. Len(code) /\ ip \in 1 .. Len(code[blk]) + 1 /\ ip <= Len(code[blk])
  BY DEF RunOK, Executing
<1>2. Len(code[blk]) \in Nat /\ (blk \in 1 .. N \/ blk \in N + 1 .. Len(code)) /\ N \in Nat /\ Len(code) \in Nat
  BY <1>1, FinishedFacts
<1> QED
  BY <1>1, <1>2

\* An instruction that leaves control in its block.
LEMMA Advances ==
  ASSUME NEW g, Finished(g), RunOK(g), UNCHANGED vars, Executing, Advance, run' = run,
         ~Fake(blk), ~Source!Leaves(insn, flags),
         eflags' = eflags \/ (blk > N /\ DummyInstr),
         insn.op = "lea" => regs'["R15"] \in insn.to,
         insn.op = "leatmp" => regs'["R13"] \in insn.to /\ regs'["R15"] = regs["R15"],
         insn.op = "cmov" => \E t \in Way : Leads(g, regs'["R15"], t)
  PROVE  RunOK(g)' /\ Unseen
<1>1. UNCHANGED <<fn, code, blk, at, flags, tick, run>> /\ ip' = ip + 1
  BY DEF vars, Advance
<1>2. Way' = Way
  BY <1>1 DEF Way, Source!Targets, Source!FirstExit
<1>3. /\ blk \in 1 .. Len(code) /\ ip \in 1 .. Len(code[blk]) /\ Len(code[blk]) \in Nat /\ N \in Nat
      /\ blk \in Nat
  BY AtInsn, FinishedFacts
<1>4. /\ ip + 1 \in 1 .. Len(code[blk]) + 1 /\ (ip + 1) - 1 = ip /\ (ip + 1) - 2 = ip - 1
      /\ ip + 1 > 1 /\ (ip + 1 > 2 <=> ip > 1)
      /\ \A i \in 1 .. ip : i = ip \/ i \in 1 .. ip - 1
  BY <1>3
<1>5. PICK n : n = ip /\ ip' = n + 1
  BY <1>1
<1>6. insn = code[blk][n]
  BY <1>5 DEF insn
<1>7. (\A i \in 1 .. ip - 1 : ~Source!Leaves(code[blk][i], flags))'
  <2>1. \A i \in 1 .. n : ~Source!Leaves(code[blk][i], flags)
    BY <1>4, <1>5, <1>6 DEF RunOK
  <2> QED
    BY <1>1, <1>4, <1>5, <2>1 DEF Source!Leaves
<1>8. Loaded'
  <2>1. Loaded
    BY DEF RunOK
  <2>2. code'[blk'][ip' - 1] = code[blk][n] /\ code'[blk'][ip' - 2] = code[blk][n - 1] /\ (ip' > 2 <=> n > 1)
    BY <1>1, <1>4, <1>5
  <2>3. n > 1 /\ code[blk][n - 1].op = "lea" => regs["R15"] \in code[blk][n - 1].to
    BY <2>1, <1>5 DEF Loaded
  <2> QED
    BY <1>6, <2>2, <2>3 DEF Loaded
<1>9. (Fake(blk)' <=> Fake(blk)) /\ code'[blk'][ip' - 1] = insn
  BY <1>1, <1>4, <1>5, <1>6 DEF Fake
<1>10. insn.op = "cmov" => Bound15(g)'
  <2>1. ASSUME NEW t, Leads(g, regs'["R15"], t) PROVE (Leads(g, regs["R15"], t))'
    BY <1>1, <2>1 DEF Leads, Fake
  <2> QED
    BY <1>2, <2>1 DEF Bound15
<1>11. /\ at \in 0 .. N /\ (DummyInstr \/ eflags = flags)
       /\ blk <= N => at = blk /\ eflags = flags
       /\ blk > N => g[blk] \in Way
  BY DEF RunOK
<1>12. /\ (DummyInstr \/ eflags' = flags)
       /\ blk <= N => at = blk /\ eflags' = flags
  BY <1>3, <1>11
<1> QED
  BY <1>1, <1>2, <1>3, <1>4, <1>7, <1>8, <1>9, <1>10, <1>11, <1>12 DEF RunOK, Unseen
Running(g) ==
  Finished(g) /\ RunOK(g) /\ FlagsSafe(fn) /\ run = "on" /\ regs \in [Regs -> Values]
Follows(g) == RunOK(g)' /\ (Unseen \/ \E b \in 1 .. N : Source!Enter(b))

\* Control goes from the block at hand to a block that is on the way.
LEMMA Moves ==
  ASSUME NEW g, Running(g), UNCHANGED vars, NEW b \in 1 .. Len(code), NEW tr, GoTo(b, tr),
         regs' = regs, run' = run,
         IF Fake(b) THEN Bound15(g) ELSE g[b] \in Way
  PROVE  Follows(g)
<1>1. Finished(g) /\ FlagsSafe(fn) /\ at \in 0 .. N /\ (DummyInstr \/ eflags = flags) /\ run # "over"
  BY DEF Running, RunOK
<1>2. (b \in 1 .. N /\ g[b] = b /\ ~Fake(b)) \/ b \in N + 1 .. Len(code)
  BY <1>1, FinishedFacts DEF GoalOK
<1>3. CASE b \in 1 .. N /\ g[b] = b /\ ~Fake(b)
  BY <1>1, <1>3, EntersSource DEF Follows
<1>4. CASE b \in N + 1 .. Len(code)
  BY <1>1, <1>4, EntersMade DEF Follows, Unseen
<1> QED
  BY <1>2, <1>3, <1>4

LEMMA RunBody == ASSUME NEW g, Running(g), UNCHANGED vars, ExecBody PROVE Follows(g)
<1>1. ~Fake(blk)
  <2>1. Fake(blk) => insn = JmpTarget
    BY DEF Running, RunOK, Fake, insn
  <2> QED
    BY <2>1, OpFacts DEF ExecBody
<1>2. ~Source!Leaves(insn, flags)
  BY DEF ExecBody, Source!Leaves
<1> QED
  BY <1>1, <1>2, Advances DEF ExecBody, Running, Follows

LEMMA RunLea == ASSUME NEW g, Running(g), UNCHANGED vars, ExecLea PROVE Follows(g)
<1>1. ~Fake(blk)
  <2>1. Fake(blk) => insn = JmpTarget
    BY DEF Running, RunOK, Fake, insn
  <2> QED
    BY <2>1, OpFacts DEF ExecLea
<1>2. ~Source!Leaves(insn, flags)
  BY DEF ExecLea, Source!Leaves
<1>3. /\ insn.op = "lea" => regs'["R15"] \in insn.to
      /\ insn.op = "leatmp" => regs'["R13"] \in insn.to /\ regs'["R15"] = regs["R15"]
  <2>1. regs \in [Regs -> Values] /\ "R15" \in Regs /\ "R13" \in Regs
    BY DEF Running, Regs
  <2>2. PICK b \in insn.to : regs' = [regs EXCEPT ![IF insn.op = "lea" THEN "R15" ELSE "R13"] = b]
    BY DEF ExecLea
  <2> QED
    BY <2>1, <2>2
<1>4. insn.op # "cmov"
  BY DEF ExecLea
<1> QED
  BY <1>1, <1>2, <1>3, <1>4, Advances DEF ExecLea, Running, Follows

LEMMA RunDummy == ASSUME NEW g, Running(g), UNCHANGED vars, ExecDummy PROVE Follows(g)
<1>0. Finished(g) /\ RunOK(g) /\ Executing /\ insn.op = "dummy"
  BY DEF Running, ExecDummy
<1>1. ~Fake(blk)
  <2>1. Fake(blk) => insn = JmpTarget
    BY DEF Running, RunOK, Fake, insn
  <2> QED
    BY <2>1, OpFacts DEF ExecDummy
<1>2. ~Source!Leaves(insn, flags)
  BY DEF ExecDummy, Source!Leaves
<1>3. blk \in N + 1 .. Len(code) /\ ip \in 1 .. Len(code[blk])
  <2>1. blk \in 1 .. N => FALSE
    <3>1. SourceInstr(insn) => insn.op # "dummy"
      BY DEF SourceInstr, SourceOps
    <3> QED
      BY <1>0, <3>1, AtInsn, ConvertedInsn DEF insn
  <2> QED
    BY <1>0, <2>1, AtInsn
<1>4. DummyInstr /\ blk > N
  <2>1. Path(g, blk)
    BY <1>0, <1>1, <1>3, FinishedFacts
  <2>2. DummyInstr
    BY <1>0, <1>3, <2>1, PathInsn DEF insn
  <2> QED
    BY <1>0, <1>3, <2>2, FinishedFacts
<1> QED
  BY <1>0, <1>1, <1>2, <1>4, Advances DEF ExecDummy, Running, Follows

\* Where a jump in a source block goes, the source goes.
LEMMA SourceJump ==
  ASSUME NEW g, Running(g), Executing, blk \in 1 .. N, Source!Leaves(insn, flags)
  PROVE  Way = insn.to
<1>1. Finished(g) /\ RunOK(g) /\ Good /\ N \in Nat
  BY FinishedFacts DEF Running
<1>2. ip \in 1 .. Len(code[blk]) /\ at = blk /\ at # 0
  BY <1>1, AtInsn DEF RunOK
<1>3. insn.op \notin {"lea", "leatmp", "cmov"}
  BY DEF Source!Leaves
<1>4. ip \in 1 .. Len(fn[blk]) /\ \A j \in 1 .. ip : code[blk][j] = fn[blk][j]
  BY <1>1, <1>2, <1>3, ConvertedInsn DEF insn
<1>5. ip \in 1 .. ip /\ \A j \in 1 .. ip - 1 : j \in 1 .. ip
  BY <1>4
<1>6. insn = fn[blk][ip] /\ \A j \in 1 .. ip - 1 : ~Source!Leaves(fn[blk][j], flags)
  BY <1>1, <1>4, <1>5 DEF RunOK, insn
<1> QED
  BY <1>1, <1>2, <1>4, <1>6, ExitAt DEF Way

LEMMA SourceTarget ==
  ASSUME NEW g, Running(g), Executing, blk \in 1 .. N, Source!Leaves(insn, flags), NEW b \in insn.to
  PROVE  b \in 1 .. Len(code) /\ b \in Way /\ g[b] = b /\ ~Fake(b)
<1>1. Finished(g) /\ RunOK(g)
  BY DEF Running
<1>2. insn.op \notin {"lea", "leatmp", "cmov"}
  BY DEF Source!Leaves
<1>3. SourceInstr(insn)
  BY <1>1, <1>2, AtInsn, ConvertedInsn DEF insn
<1>4. b \in 1 .. N
  BY <1>3 DEF SourceInstr
<1> QED
  BY <1>1, <1>4, SourceJump, FinishedFacts DEF GoalOK

\* What the block at hand is, by its instruction.
LEMMA WhereAt ==
  ASSUME NEW g, Running(g), Executing
  PROVE  /\ insn.op \in {"jmpreg"} <=> Fake(blk)
         /\ insn.op \in {"leatmp", "cmov", "ind", "jcc", "ret", "call", "stop"} => blk \in 1 .. N
         /\ insn.op = "jmp" => blk \in 1 .. N \/ (blk \in N + 1 .. Len(code) /\ Path(g, blk))
<1>1. Finished(g) /\ RunOK(g)
  BY DEF Running
<1>2. ip \in 1 .. Len(code[blk]) /\ (blk \in 1 .. N \/ (blk \in N + 1 .. Len(code) /\ (Fake(blk) \/ Path(g, blk))))
  BY <1>1, AtInsn, FinishedFacts
<1>3. CASE Fake(blk)
  <2>1. insn = JmpTarget
    BY <1>1, <1>3 DEF RunOK, Fake, insn
  <2> QED
    BY <2>1, <1>3, OpFacts
<1>4. CASE ~Fake(blk) /\ blk \in 1 .. N
  <2>1. SourceInstr(insn) => insn.op # "jmpreg"
    BY DEF SourceInstr, SourceOps
  <2> QED
    BY <1>1, <1>2, <1>4, <2>1, ConvertedInsn DEF insn
<1>5. CASE ~Fake(blk) /\ blk \in N + 1 .. Len(code) /\ Path(g, blk)
  BY <1>2, <1>5, PathInsn DEF insn
<1> QED
  BY <1>2, <1>3, <1>4, <1>5

LEMMA RunJump == ASSUME NEW g, Running(g), UNCHANGED vars, ExecJump PROVE Follows(g)
<1>0. /\ Finished(g) /\ RunOK(g) /\ Executing /\ insn.op \in {"jmp", "ind"}
      /\ regs' = regs /\ run' = run
  BY DEF Running, ExecJump
<1>1. PICK b \in insn.to : GoTo(b, trail)
  BY DEF ExecJump
<1>2. CASE blk \in 1 .. N
  <2>1. Source!Leaves(insn, flags)
    BY <1>0 DEF Source!Leaves
  <2>2. b \in 1 .. Len(code) /\ b \in Way /\ g[b] = b /\ ~Fake(b)
    BY <1>0, <1>1, <1>2, <2>1, SourceTarget
  <2> QED
    BY <1>0, <1>1, <2>2, Moves
<1>3. CASE insn.op = "jmp" /\ blk \in N + 1 .. Len(code) /\ Path(g, blk)
  <2>1. Arrival(g, blk, ip)
    BY <1>0, <1>3, AtInsn, PathInsn DEF insn
  <2>2. PICK t \in 1 .. Len(code) :
          /\ insn = Jmp(t)
          /\ IF Fake(t) THEN ip > 1 /\ code[blk][ip - 1].op = "lea" ELSE g[t] = g[blk]
    BY <2>1 DEF Arrival, insn
  <2>3. t = b
    BY <1>1, <2>2, OpFacts
  <2>4. blk > N /\ ~Fake(blk) /\ g[blk] \in Way
    <3>1. blk > N
      BY <1>0, <1>3, FinishedFacts
    <3>2. ~Fake(blk)
      BY <1>0, <1>3, WhereAt
    <3> QED
      BY <1>0, <3>1, <3>2 DEF RunOK
  <2>5. ASSUME ip > 1, code[blk][ip - 1].op = "lea" PROVE Bound15(g)
    <3>1. ip - 1 \in 1 .. Len(code[blk])
      BY <1>0, <2>5, AtInsn
    <3>2. PICK n \in 1 .. Len(code[blk]) : n = ip - 1
      BY <3>1
    <3>3. Hop(g, blk, n)
      BY <1>3, <2>5, <3>2, PathInsn
    <3>4. regs["R15"] \in code[blk][n].to
      BY <1>0, <2>5, <3>2 DEF RunOK, Loaded
    <3>5. Leads(g, regs["R15"], g[blk])
      BY <3>3, <3>4, OpFacts DEF Hop
    <3> QED
      BY <2>4, <3>5 DEF Bound15
  <2>6. IF Fake(b) THEN Bound15(g) ELSE g[b] \in Way
    BY <2>2, <2>3, <2>4, <2>5
  <2> QED
    BY <1>0, <1>1, <2>2, <2>3, <2>6, Moves
<1> QED
  BY <1>0, <1>2, <1>3, WhereAt

LEMMA RunJcc == ASSUME NEW g, Running(g), UNCHANGED vars, ExecJcc PROVE Follows(g)
<1>0. /\ Finished(g) /\ RunOK(g) /\ Executing /\ insn.op = "jcc" /\ regs' = regs /\ run' = run
  BY DEF Running, ExecJcc
<1>1. blk \in 1 .. N /\ ~Fake(blk)
  BY <1>0, WhereAt
<1>2. eflags = flags
  BY <1>0, <1>1, FinishedFacts DEF RunOK
<1>3. CASE insn.cc \in eflags
  <2>1. Source!Leaves(insn, flags)
    BY <1>0, <1>2, <1>3 DEF Source!Leaves
  <2>2. PICK b \in insn.to : GoTo(b, trail)
    BY <1>3 DEF ExecJcc
  <2>3. b \in 1 .. Len(code) /\ b \in Way /\ g[b] = b /\ ~Fake(b)
    BY <1>0, <1>1, <2>1, <2>2, SourceTarget
  <2> QED
    BY <1>0, <2>2, <2>3, Moves
<1>4. CASE insn.cc \notin eflags
  <2>1. ~Source!Leaves(insn, flags)
    BY <1>0, <1>2, <1>4 DEF Source!Leaves
  <2>2. Advance /\ eflags' = eflags
    BY <1>4 DEF ExecJcc
  <2> QED
    BY <1>0, <1>1, <2>1, <2>2, Advances DEF Follows
<1> QED
  BY <1>3, <1>4

LEMMA RunJmpTarget == ASSUME NEW g, Running(g), UNCHANGED vars, ExecJmpTarget PROVE Follows(g)
<1>0. /\ Finished(g) /\ RunOK(g) /\ Executing /\ insn.op = "jmpreg" /\ regs' = regs /\ run' = run
      /\ GoTo(regs["R15"], Append(trail, blk))
  BY DEF Running, ExecJmpTarget
<1>1. Bound15(g)
  BY <1>0, WhereAt DEF RunOK
<1>2. PICK z : z = regs["R15"]
  OBVIOUS
<1>3. z \in N + 1 .. Len(code) /\ ~Fake(z) /\ g[z] \in Way
  BY <1>1, <1>2 DEF Bound15, Leads
<1>4. z \in 1 .. Len(code)
  BY <1>0, <1>3, FinishedFacts
<1> QED
  BY <1>0, <1>2, <1>3, <1>4, Moves

\* The function returns where the source returns.
LEMMA RunLeave == ASSUME NEW g, Running(g), UNCHANGED vars, ExecLeave PROVE Source!Halt
<1>0. /\ Finished(g) /\ RunOK(g) /\ Executing /\ insn.op \in {"ret", "call", "stop"}
  BY DEF Running, ExecLeave
<1>1. blk \in 1 .. N
  BY <1>0, WhereAt
<1>2. at # 0
  BY <1>0, <1>1, FinishedFacts DEF RunOK
<1>3. Source!Leaves(insn, flags) /\ insn.op \notin {"lea", "leatmp", "cmov"}
  BY <1>0 DEF Source!Leaves
<1>4. SourceInstr(insn)
  BY <1>0, <1>1, <1>3, AtInsn, ConvertedInsn DEF insn
<1>5. Way = {}
  BY <1>0, <1>1, <1>3, <1>4, SourceJump DEF SourceInstr
<1>6. run = "on" /\ run' = "over" /\ UNCHANGED <<fn, at, flags, tick>>
  BY DEF Running, ExecLeave, history, vars
<1>7. Source!Targets(at, flags) = {}
  BY <1>2, <1>5 DEF Way
<1> QED
  BY <1>2, <1>6, <1>7 DEF Source!Halt

\* The conditional move selects the trampoline of the branch taken.
LEMMA RunCMov ==
  ASSUME Emission = "obj", NEW g, Running(g), UNCHANGED vars, ExecCMov
  PROVE  Follows(g)
<1>0. /\ Finished(g) /\ RunOK(g) /\ Executing /\ insn.op = "cmov" /\ run' = run /\ Advance /\ eflags' = eflags
      /\ regs \in [Regs -> Values] /\ "R15" \in Regs
  BY DEF Running, ExecCMov, Regs
<1>1. blk \in 1 .. N /\ ~Fake(blk) /\ ip \in 1 .. Len(code[blk])
  BY <1>0, WhereAt, AtInsn
<1>2. eflags = flags /\ at = blk /\ at # 0 /\ Good /\ Converted(g, blk)
  BY <1>0, <1>1, FinishedFacts DEF RunOK
<1>3. Len(fn[blk]) \in Nat /\ \A i \in 1 .. Len(fn[blk]) : fn[blk][i].op # "cmov"
  BY <1>1, <1>2, FnFacts DEF SourceInstr, SourceOps
<1>4. EndsInCMov(g, blk)
  <2>1. ASSUME EndsAsBefore(blk) PROVE FALSE
    BY <1>0, <1>1, <1>3, <2>1 DEF EndsAsBefore, Keeps, insn
  <2>2. ASSUME EndsInLea(g, blk) PROVE FALSE
    <3>1. PICK k, z : /\ k \in 0 .. Len(fn[blk]) /\ Keeps(blk, k)
                      /\ Len(code[blk]) = k + 1 /\ code[blk][k + 1] = Lea(z)
      BY <2>2 DEF EndsInLea
    <3>2. ip = k + 1 \/ (ip \in 1 .. k /\ ip \in 1 .. Len(fn[blk]))
      BY <1>1, <1>3, <3>1
    <3> QED
      BY <1>0, <1>3, <3>1, <3>2, OpFacts DEF Keeps, insn
  <2> QED
    BY <1>2, <2>1, <2>2 DEF Converted
<1>5. PICK k \in 1 .. Len(fn[blk]), z \in N + 1 .. Len(code), y \in N + 1 .. Len(code), t \in 1 .. N, u \in 1 .. N :
        /\ Keeps(blk, k - 1) /\ fn[blk][k].op = "jcc" /\ Len(code[blk]) = k + 2
        /\ code[blk][k] = Lea(z) /\ code[blk][k + 1] = LeaTmp(y) /\ code[blk][k + 2] = CMov(fn[blk][k].cc)
        /\ Leads(g, z, t) /\ Continues(blk, k, t) /\ Leads(g, y, u) /\ fn[blk][k].to = {u}
  BY <1>4, Zenon DEF EndsInCMov
<1>6. ip = k + 2
  <2>0. k \in Nat /\ ip \in 1 .. k + 2 /\ k <= Len(fn[blk])
    BY <1>1, <1>3, <1>5
  <2>1. ip = k + 2 \/ ip = k + 1 \/ ip = k \/ (ip \in 1 .. k - 1 /\ ip \in 1 .. Len(fn[blk]))
    <3>1. PICK m \in Nat : m = Len(fn[blk])
      BY <1>3
    <3>2. \A x, j, q \in Nat : x \in 1 .. j + 2 /\ j <= q =>
            x = j + 2 \/ x = j + 1 \/ x = j \/ (x \in 1 .. j - 1 /\ x \in 1 .. q)
      OBVIOUS
    <3>3. ip \in Nat /\ k <= m
      BY <2>0, <3>1
    <3>4. ip = k + 2 \/ ip = k + 1 \/ ip = k \/ (ip \in 1 .. k - 1 /\ ip \in 1 .. m)
      BY <2>0, <3>2, <3>3
    <3> QED
      BY <3>1, <3>4
  <2>2. code[blk][ip].op = "cmov"
    BY <1>0 DEF insn
  <2>3. code[blk][k].op # "cmov" /\ code[blk][k + 1].op # "cmov"
    BY <1>5, OpFacts
  <2>4. \A i \in 1 .. k - 1 : code[blk][i] = fn[blk][i]
    BY <1>5 DEF Keeps
  <2> QED
    BY <1>3, <2>1, <2>2, <2>3, <2>4
<1>7. ip > 1 /\ ip - 1 = k + 1 /\ ip > 2 /\ ip - 2 = k /\ k - 1 \in Nat /\ k \in Nat /\ k \in 0 .. Len(fn[blk])
  BY <1>3, <1>5, <1>6
<1>8. regs["R13"] = y /\ regs["R15"] = z
  <2>1. Loaded
    BY <1>0 DEF RunOK
  <2>2. regs["R13"] \in LeaTmp(y).to /\ regs["R15"] \in Lea(z).to
    BY <1>5, <1>7, <2>1, OpFacts, SMTT(30) DEF Loaded
  <2> QED
    BY <2>2, OpFacts
<1>9. \A j \in 1 .. k - 1 : ~Source!Leaves(fn[blk][j], flags)
  <2>1. \A j \in 1 .. k - 1 : j \in 1 .. ip - 1
    BY <1>3, <1>5, <1>6
  <2> QED
    BY <1>0, <1>5, <2>1 DEF RunOK, Keeps
<1>10. insn.cc = fn[blk][k].cc
  BY <1>5, <1>6, OpFacts DEF insn
<1>11. \E w \in Way : Leads(g, regs'["R15"], w)
  <2>1. CASE insn.cc \in flags
    <3>1. Source!Leaves(fn[blk][k], flags)
      BY <1>5, <1>10, <2>1 DEF Source!Leaves
    <3>2. Way = {u}
      BY <1>1, <1>2, <1>5, <1>9, <3>1, ExitAt DEF Way
    <3>3. regs'["R15"] = y
      BY <1>0, <1>2, <1>8, <2>1 DEF ExecCMov, CMovDest
    <3> QED
      BY <1>5, <3>2, <3>3
  <2>2. CASE insn.cc \notin flags
    <3>1. ~Source!Leaves(fn[blk][k], flags)
      BY <1>5, <1>10, <2>2 DEF Source!Leaves
    <3>2. \A j \in 1 .. k : ~Source!Leaves(fn[blk][j], flags)
      <4>1. \A j \in 1 .. k : j = k \/ j \in 1 .. k - 1
        BY <1>7
      <4> QED
        BY <1>9, <3>1, <4>1
    <3>3. Way = {t}
      BY <1>1, <1>2, <1>5, <1>7, <3>2, ContinuesTarget DEF Way
    <3>4. regs'["R15"] = z
      BY <1>0, <1>2, <1>8, <2>2 DEF ExecCMov
    <3> QED
      BY <1>5, <3>3, <3>4
  <2> QED
    BY <2>1, <2>2
<1>12. ~Source!Leaves(insn, flags)
  BY <1>0 DEF Source!Leaves
<1> QED
  BY <1>0, <1>1, <1>11, <1>12, Advances DEF Follows

\* Control runs off the end of a block only into a fake block, with R15 set.
LEMMA AtTheEnd ==
  ASSUME NEW g, Running(g), ip > Len(code[blk])
  PROVE  EndsInLoad(blk) /\ Bound15(g)
<1>0. /\ Finished(g) /\ RunOK(g) /\ Loaded /\ blk \in 1 .. Len(code) /\ Good
      /\ \A i \in 1 .. ip - 1 : ~Source!Leaves(code[blk][i], flags)
  BY FinishedFacts DEF Running, RunOK
<1>1. /\ Len(code[blk]) \in Nat /\ code[blk] \in Seq(Instr) /\ N \in Nat /\ Len(code) \in Nat
      /\ blk \in 1 .. N \/ (blk \in N + 1 .. Len(code) /\ (Fake(blk) \/ Path(g, blk)))
  BY <1>0, FinishedFacts
<1>2. PICK n \in Nat : n = Len(code[blk])
  BY <1>1
<1>3. ip = n + 1 /\ ip - 1 = n /\ (ip > 1 <=> n >= 1)
  BY <1>0, <1>1, <1>2 DEF RunOK
<1>4. n >= 1 => /\ code[blk] # <<>> /\ Last(code[blk]) = code[blk][n]
                /\ ~Source!Leaves(code[blk][n], flags)
  <2>1. PICK s \in Seq(Instr) : s = code[blk]
    BY <1>1
  <2>2. Len(s) >= 1 => s # <<>> /\ Last(s) = s[Len(s)]
    BY <2>1 DEF Last
  <2> QED
    BY <1>0, <1>2, <1>3, <2>1, <2>2
<1>5. ~Fake(blk)
  <2>1. Fake(blk) => Len(code[blk]) = 1 /\ ip = 1
    BY <1>0 DEF RunOK, Fake
  <2>2. Fake(blk) => n = 1 /\ ip = 1
    BY <1>2, <2>1
  <2>3. ~(n = 1 /\ ip = 1)
    BY <1>3
  <2> QED
    BY <2>2, <2>3
<1>6. CASE blk \in 1 .. N
  <2>1. at = blk /\ at # 0 /\ Converted(g, blk) /\ Len(fn[blk]) \in Nat /\ Len(fn[blk]) >= 1
        /\ Last(fn[blk]) = fn[blk][Len(fn[blk])]
    BY <1>0, <1>6, FinishedFacts, FnFacts DEF RunOK
  <2>2. CASE EndsAsBefore(blk)
    <3>1. n >= 1 /\ code[blk][n] = Last(fn[blk]) /\ Last(fn[blk]).op \in {"ret", "call", "ind"}
      BY <1>2, <2>1, <2>2 DEF EndsAsBefore, Keeps
    <3> QED
      BY <1>4, <3>1 DEF Source!Leaves
  <2>3. CASE EndsInLea(g, blk)
    <3>1. PICK k \in 0 .. Len(fn[blk]), z \in N + 1 .. Len(code), t \in 1 .. N :
            /\ Keeps(blk, k) /\ Len(code[blk]) = k + 1 /\ code[blk][k + 1] = Lea(z)
            /\ Leads(g, z, t) /\ Continues(blk, k, t)
      BY <2>3, Zenon DEF EndsInLea
    <3>2. n = k + 1 /\ n >= 1 /\ code[blk][n] = Lea(z) /\ \A j \in 1 .. k : j \in 1 .. ip - 1
      BY <1>2, <1>3, <2>1, <3>1
    <3>3. regs["R15"] = z
      BY <1>0, <1>3, <3>2, OpFacts DEF Loaded
    <3>4. \A j \in 1 .. k : ~Source!Leaves(fn[blk][j], flags)
      BY <1>0, <3>1, <3>2 DEF Keeps
    <3>5. Way = {t}
      BY <1>0, <1>6, <2>1, <3>1, <3>4, ContinuesTarget DEF Way
    <3> QED
      BY <1>4, <3>1, <3>2, <3>3, <3>5, OpFacts DEF Bound15, EndsInLoad, Loads
  <2>4. CASE EndsInCMov(g, blk)
    <3>1. PICK k \in 1 .. Len(fn[blk]) : Len(code[blk]) = k + 2 /\ code[blk][k + 2] = CMov(fn[blk][k].cc)
      BY <2>4, Zenon DEF EndsInCMov
    <3>2. n >= 1 /\ code[blk][n].op = "cmov"
      BY <1>2, <2>1, <3>1, OpFacts
    <3> QED
      BY <1>0, <1>3, <1>4, <3>2 DEF RunOK, EndsInLoad, Loads
  <2> QED
    BY <2>1, <2>2, <2>3, <2>4 DEF Converted
<1>7. CASE blk \in N + 1 .. Len(code) /\ Path(g, blk)
  <2>1. code[blk] # <<>> /\ Last(code[blk]).op \in {"jmp", "lea"}
    BY <1>7 DEF Path
  <2>2. n >= 1
    <3>1. PICK s \in Seq(Instr) : s = code[blk]
      BY <1>1
    <3>2. s # <<>> => Len(s) # 0
      BY <3>1
    <3> QED
      BY <1>2, <2>1, <3>1, <3>2
  <2>3. code[blk][n].op = "lea" /\ n \in 1 .. Len(code[blk])
    BY <1>2, <1>4, <2>1, <2>2 DEF Source!Leaves
  <2>4. Hop(g, blk, n)
    BY <1>7, <2>3, PathInsn
  <2>5. regs["R15"] \in code[blk][n].to
    BY <1>0, <1>3, <2>2, <2>3 DEF Loaded
  <2>6. Leads(g, regs["R15"], g[blk])
    BY <2>4, <2>5, OpFacts DEF Hop
  <2>7. blk > N
    BY <1>1, <1>7
  <2>8. g[blk] \in Way
    BY <1>0, <1>5, <2>7 DEF RunOK
  <2> QED
    BY <1>4, <2>2, <2>3, <2>6, <2>8 DEF Bound15, EndsInLoad, Loads
<1> QED
  BY <1>1, <1>5, <1>6, <1>7

LEMMA RunFallThrough == ASSUME NEW g, Running(g), UNCHANGED vars, FallThrough PROVE Follows(g)
<1>0. Finished(g) /\ regs' = regs /\ run' = run /\ ip > Len(code[blk])
  BY DEF Running, FallThrough
<1>1. EndsInLoad(blk) /\ Bound15(g)
  BY <1>0, AtTheEnd
<1>2. Layout = before /\ Len(before) \in Nat /\ LeaBeforeFake /\ Good
  BY <1>0, FinishedFacts
<1>3. PICK k \in 1 .. Len(before) - 1 : before[k] = blk /\ GoTo(before[k + 1], trail)
  BY <1>2 DEF FallThrough
<1>4. k \in 1 .. Len(before) /\ k + 1 \in 1 .. Len(before)
  BY <1>2, <1>3
<1>5. Fake(before[k + 1]) /\ before[k + 1] \in 1 .. Len(code)
  BY <1>1, <1>2, <1>3, <1>4, ListFacts DEF LeaBeforeFake
<1> QED
  BY <1>0, <1>1, <1>3, <1>5, Moves

\* The function is entered: the way is to the first block of the source.
LEMMA RunStart == ASSUME NEW g, Finished(g), Idle, UNCHANGED vars, Start PROVE RunOK(g)' /\ Unseen
<1>1. /\ before[1] \in N + 1 .. Len(code) /\ code[before[1]] = <<Jmp(1)>> /\ Layout = before
      /\ N \in Nat /\ N >= 1 /\ Good /\ GoalOK(g)
  BY FinishedFacts DEF Finished, Entry
<1>2. PICK b \in N + 1 .. Len(code) : b = before[1]
  BY <1>1
<1>3. GoTo(b, trail) /\ regs' = regs /\ run = "off" /\ run' = "on"
  BY <1>1, <1>2 DEF Start
<1>4. at = 0 /\ eflags = flags
  BY <1>3 DEF Idle
<1>5. code[b] = <<Jmp(1)>> /\ Len(code[b]) = 1 /\ code[b][1] = Jmp(1) /\ 1 \in 1 .. Len(code[b])
  <2>1. code[b] = <<Jmp(1)>>
    BY <1>1, <1>2
  <2> QED
    BY <2>1
<1>6. ~Fake(b)
  BY <1>5, OpFacts DEF Fake
<1>7. Path(g, b)
  BY <1>6, FinishedFacts
<1>8. Arrival(g, b, 1)
  <2>1. code[b][1].op = "jmp"
    BY <1>5, OpFacts
  <2> QED
    BY <1>5, <1>7, <2>1, PathInsn
<1>9. PICK t : code[b][1] = Jmp(t) /\ IF Fake(t) THEN 1 > 1 ELSE g[t] = g[b]
  BY <1>8 DEF Arrival
<1>10. t = 1
  BY <1>5, <1>9, OpFacts
<1>11. g[b] = 1
  BY <1>1, <1>9, <1>10 DEF GoalOK
<1>12. at \in 0 .. N /\ g[b] \in Way
  BY <1>1, <1>4, <1>11 DEF Way
<1> QED
  BY <1>3, <1>4, <1>6, <1>12, EntersMade DEF Unseen

(***************************************************************************)
(* The run follows the source.                                             *)
(***************************************************************************)
Compared == Supported(fn) /\ FlagsSafe(fn)
RunInvariant == Compared /\ run = "on" => \E g : PathGoals(g) /\ RunOK(g)

LEMMA ExecFollows ==
  ASSUME Emission = "obj", Compared, CodeKnown, Idle, XTypeOK, RunInvariant, Exec, UNCHANGED vars
  PROVE  RunInvariant' /\ (Unseen \/ Source!Next)
<1>1. pc = "done" /\ Good /\ OneLane /\ LayoutOK /\ Entry /\ PathInvariant
  BY DEF Exec, Start, ExecBody, ExecLea, ExecCMov, ExecDummy, ExecJump, ExecJcc, ExecJmpTarget,
     ExecLeave, FallThrough, Executing, Idle, Compared, CodeKnown
<1>2. CASE Start
  <2>1. PICK g : PathGoals(g)
    BY <1>1 DEF PathInvariant
  <2>2. Finished(g)
    BY <1>1, <2>1 DEF Finished
  <2>3. RunOK(g)' /\ Unseen /\ PathGoals(g)'
    BY <1>1, <1>2, <2>1, <2>2, RunStart, SameGoals
  <2> QED
    BY <2>3 DEF RunInvariant
<1>3. CASE ~Start
  <2>1. run = "on"
    BY <1>3 DEF Exec, ExecBody, ExecLea, ExecCMov, ExecDummy, ExecJump, ExecJcc, ExecJmpTarget,
       ExecLeave, FallThrough, Executing
  <2>2. PICK g : PathGoals(g) /\ RunOK(g)
    BY <2>1 DEF RunInvariant
  <2>3. Running(g)
    BY <1>1, <2>1, <2>2 DEF Finished, Running, XTypeOK, Values, Compared
  <2>4. CASE Follows(g)
    <3>1. PathGoals(g)' /\ RunOK(g)'
      BY <1>1, <2>2, <2>4, SameGoals DEF Follows
    <3> QED
      BY <2>4, <3>1 DEF RunInvariant, Follows, Source!Next
  <2>5. CASE ExecLeave
    <3>1. Source!Halt
      BY <2>3, <2>5, RunLeave
    <3>2. run' # "on"
      BY <2>5 DEF ExecLeave
    <3> QED
      BY <3>1, <3>2 DEF RunInvariant, Source!Next
  <2> QED
    BY <1>3, <2>3, <2>4, <2>5, RunBody, RunLea, RunCMov, RunDummy, RunJump, RunJcc, RunJmpTarget,
       RunFallThrough DEF Exec
<1> QED
  BY <1>2, <1>3

\* A supported function, compiled to machine code, runs as its source does:
\* it enters the same blocks in the same order under the same conditions and
\* returns where the source returns, whatever its size and the shape of its
\* control flow.  With the dummy instructions this needs every block to set
\* the flags it branches on, for the dummies overwrite them.
THEOREM RunFollowsSource ==
  ASSUME Emission = "obj"
  PROVE  XSpec /\ Supported(fn) /\ FlagsSafe(fn) => FollowsSource
<1> DEFINE Known == CodeKnown /\ Idle /\ (Supported(fn) => XTypeOK)
           Step == [Source!Next]_(Source!svars)
<1>1. XInit => RunInvariant /\ Source!Init
  BY DEF XInit, RunInvariant, Source!Init
<1>2. Compared /\ [XNext]_allvars => Compared'
  <2>1. [XNext]_allvars => fn' = fn
    BY XStepIsStep, FunctionFixed
  <2> QED
    BY <2>1 DEF Compared, Supported, FlagsSafe
<1>3. Known /\ Compared /\ RunInvariant /\ [XNext]_allvars => RunInvariant' /\ Step
  <2> SUFFICES ASSUME Known, Compared, RunInvariant, [XNext]_allvars PROVE RunInvariant' /\ Step
    OBVIOUS
  <2>1. Supported(fn) /\ XTypeOK /\ CodeKnown /\ Idle /\ fn' = fn
    BY XStepIsStep, FunctionFixed DEF Compared
  <2>2. Unseen => Step
    BY DEF Unseen, Source!svars
  <2>3. CASE UNCHANGED allvars
    <3>1. UNCHANGED vars /\ UNCHANGED <<run, blk, ip, regs, eflags, at, flags, tick>>
      BY <2>3 DEF allvars, xvars
    <3>2. Unseen
      BY <2>1, <3>1 DEF Unseen
    <3>3. ASSUME run' = "on" PROVE RunInvariant'
      <4>1. PICK g : PathGoals(g) /\ RunOK(g)
        BY <3>1, <3>3 DEF RunInvariant
      <4>2. PathGoals(g)'
        BY <2>1, <3>1, <4>1, SameGoals DEF CodeKnown
      <4>3. RunOK(g)'
        <5>1. code' = code /\ fn' = fn
          BY <3>1 DEF vars
        <5>2. Way' = Way
          BY <3>1, <5>1 DEF Way, Source!Targets, Source!FirstExit
        <5>3. Bound15(g)' <=> Bound15(g)
          BY <3>1, <5>1, <5>2 DEF Bound15, Leads, Fake
        <5>4. Loaded' <=> Loaded
          BY <3>1, <5>1 DEF Loaded
        <5> QED
          BY <3>1, <4>1, <5>1, <5>2, <5>3, <5>4 DEF RunOK, Fake
      <4> QED
        BY <4>2, <4>3 DEF RunInvariant
    <3> QED
      BY <2>2, <3>2, <3>3 DEF RunInvariant
  <2>4. CASE PassStep /\ UNCHANGED xvars
    <3>1. run' = "off" /\ UNCHANGED <<run, at, flags, tick>>
      BY <2>1, <2>4, PassStepRuns DEF Idle, xvars
    <3>2. Unseen
      BY <2>1, <3>1 DEF Unseen
    <3> QED
      BY <2>2, <3>1, <3>2 DEF RunInvariant
  <2>5. CASE Exec /\ UNCHANGED vars
    <3>1. RunInvariant' /\ (Unseen \/ Source!Next)
      BY <2>1, <2>5, ExecFollows
    <3> QED
      BY <2>2, <3>1
  <2> QED
    BY <2>3, <2>4, <2>5, XSteps
<1>4. Supported(fn) /\ FlagsSafe(fn) => Compared
  BY DEF Compared
<1> HIDE DEF Known
<1>5. CodeKnown /\ Idle /\ (Supported(fn) => XTypeOK) => Known
  BY DEF Known
<1>6. XSpec /\ Supported(fn) /\ FlagsSafe(fn) => Source!Init /\ [][Source!Next]_(Source!svars)
  BY <1>1, <1>2, <1>3, <1>4, <1>5, CodeIsKnown, IdleHolds, RunTyped, PTL DEF XSpec
<1> QED
  BY <1>6, PTL DEF FollowsSource, Source!Spec
=============================================================================
