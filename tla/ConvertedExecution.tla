-------------------------- MODULE ConvertedExecution --------------------------
(***************************************************************************)
(* A function is converted by the pass and the result is then run, one     *)
(* action per machine instruction.  The run is compared with the source    *)
(* function: `at' and `flags' are history variables that record the source *)
(* blocks entered and the flags at their ends.                             *)
(***************************************************************************)
EXTENDS BranchConversion

CONSTANTS
  Emission,  \* "obj": machine code is emitted; "asm": assembly text, assembled later
  Homes      \* registers the register allocator may keep a program value in

ASSUME EmissionAssumption == Emission \in {"obj", "asm"}

Regs == {"R11", "R13", "R15", "RBX"}
ASSUME HomesAssumption == Homes \subseteq Regs

VARIABLES
  run,     \* "off" until the pass is done, then "on"; "over" after the return
  blk, ip, \* the instruction to execute next: code[blk][ip]
  regs,    \* registers: 0 is the program value, b > 0 the address of block b
  eflags,  \* the conditions that hold
  home,    \* the register that holds a value the program needs throughout
  at, flags, tick, \* history: see SourceExecution
  trail    \* history: the `jmp *r15' blocks passed since block `at'

xvars == <<run, blk, ip, regs, eflags, home, at, flags, tick, trail>>
history == <<at, flags, tick, trail>>
allvars == <<vars, xvars>>

Source == INSTANCE SourceExecution WITH halted <- (run = "over")

XInit ==
  /\ Init
  /\ run = "off" /\ blk = Null /\ ip = 1
  /\ regs = [r \in Regs |-> 0]
  /\ eflags = {} /\ home \in Homes
  /\ at = 0 /\ flags = {} /\ tick = FALSE /\ trail = <<>>

Convert == PassStep /\ UNCHANGED xvars

-----------------------------------------------------------------------------
(***************************************************************************)
(* Control is transferred to block b, having passed the fake blocks tr.    *)
(* What the code of a source block does to the flags is drawn on entry.    *)
(***************************************************************************)
GoTo(b, tr) ==
  /\ blk' = b /\ ip' = 1
  /\ IF b <= N
     THEN /\ at' = b /\ tick' = ~tick
          /\ eflags' \in Source!Outcomes(b, eflags)
          /\ flags' = eflags'
          /\ trail' = <<>>
     ELSE /\ trail' = tr
          /\ UNCHANGED <<eflags, at, flags, tick>>
Advance ==
  /\ ip' = ip + 1
  /\ UNCHANGED <<blk, at, flags, tick, trail>>

Executing == run = "on" /\ ip <= Len(code[blk])
insn == code[blk][ip]

\* The first block of the result is where the function is entered.
Start ==
  /\ pc = "done" /\ run = "off"
  /\ run' = "on"
  /\ GoTo(Layout[1], trail)
  /\ UNCHANGED <<regs, home>>

ExecBody ==
  /\ Executing /\ insn.op \in {"body", "keep"}
  /\ Advance
  /\ UNCHANGED <<run, regs, eflags, home>>

ExecLea ==
  /\ Executing /\ insn.op \in {"lea", "leatmp"}
  /\ \E b \in insn.to :
       regs' = [regs EXCEPT ![IF insn.op = "lea" THEN "R15" ELSE "R13"] = b]
  /\ Advance
  /\ UNCHANGED <<run, eflags, home>>

(***************************************************************************)
(* CMOV64rr is built with the operands R11, R15, R13 where the first is    *)
(* the definition and tied to the second.  The machine-code emitter skips  *)
(* the first operand of such an instruction and encodes R15, R13; the      *)
(* printer writes the first and the last one, R11 and R13.                 *)
(***************************************************************************)
CMovDest == IF Emission = "obj" THEN "R15" ELSE "R11"
ExecCMov ==
  /\ Executing /\ insn.op = "cmov"
  /\ regs' = IF insn.cc \in eflags THEN [regs EXCEPT ![CMovDest] = regs["R13"]] ELSE regs
  /\ Advance
  /\ UNCHANGED <<run, eflags, home>>

\* add $0, %r13b sets the flags by the low byte of an address.
ExecDummy ==
  /\ Executing /\ insn.op = "dummy"
  /\ eflags' \in SUBSET Conds
  /\ Advance
  /\ UNCHANGED <<run, regs, home>>

ExecJump ==
  /\ Executing /\ insn.op \in {"jmp", "ind"}
  /\ \E b \in insn.to : GoTo(b, trail)
  /\ UNCHANGED <<run, regs, home>>

ExecJcc ==
  /\ Executing /\ insn.op = "jcc"
  /\ IF insn.cc \in eflags THEN \E b \in insn.to : GoTo(b, trail)
     ELSE Advance /\ UNCHANGED eflags
  /\ UNCHANGED <<run, regs, home>>

\* With anything but the address of a block in R15 there is no next step.
ExecJmpTarget ==
  /\ Executing /\ insn.op = "jmpreg"
  /\ regs["R15"] \in Blocks
  /\ GoTo(regs["R15"], Append(trail, blk))
  /\ UNCHANGED <<run, regs, home>>

ExecLeave ==
  /\ Executing /\ insn.op \in {"ret", "call", "stop"}
  /\ run' = "over"
  /\ UNCHANGED <<blk, ip, regs, eflags, home, history>>

FallThrough ==
  /\ run = "on" /\ ip > Len(code[blk])
  /\ \E k \in 1 .. Len(Layout) - 1 : Layout[k] = blk /\ GoTo(Layout[k + 1], trail)
  /\ UNCHANGED <<run, regs, home>>

Exec ==
  \/ Start \/ ExecBody \/ ExecLea \/ ExecCMov \/ ExecDummy \/ ExecJump \/ ExecJcc
  \/ ExecJmpTarget \/ ExecLeave \/ FallThrough
Execute == Exec /\ UNCHANGED vars

Over == (run = "over" \/ pc = "abort") /\ UNCHANGED allvars

XNext == Convert \/ Execute \/ Over
XSpec == XInit /\ [][XNext]_allvars
XFairSpec == XSpec /\ WF_allvars(Convert) /\ WF_allvars(Execute)

-----------------------------------------------------------------------------
(***************************************************************************)
(* Type invariant of the run.  Control is at an instruction of a block or  *)
(* has just passed its last one, and no register is ever loaded with the   *)
(* address of a block of the source: a jump through R15 leads to a         *)
(* trampoline.                                                             *)
(***************************************************************************)
XTypeOK ==
  /\ run \in {"off", "on", "over"}
  /\ blk \in 0 .. Len(code) /\ ip \in Nat \ {0}
  /\ run # "off" => blk # Null /\ ip <= Len(code[blk]) + 1
  /\ regs \in [Regs -> {0} \cup N + 1 .. Len(code)]
  /\ eflags \subseteq Conds /\ flags \subseteq Conds
  /\ home \in Homes /\ at \in 0 .. N /\ tick \in BOOLEAN
  /\ trail \in Seq(Blocks)

(***************************************************************************)
(* The converted function enters the same blocks in the same order as the  *)
(* source function would under the same conditions, and returns where it   *)
(* returns.                                                                *)
(***************************************************************************)
FollowsSource == Source!Spec

(***************************************************************************)
(* It also gets there: no branch is lost in a loop of trampolines.         *)
(***************************************************************************)
ReachesNextBlock == Source!FairSpec

(***************************************************************************)
(* A value the program keeps in a register survives the trampolines.       *)
(***************************************************************************)
ProgramValueIntact == run = "on" => regs[home] = 0

(***************************************************************************)
(* What the conversion is for: on the way to a later block, control runs   *)
(* through the jump behind every block it skips, in layout order, so that  *)
(* a skipped block and an executed one are left by the same jumps; on the  *)
(* way back it has passed the jump behind the block it left.               *)
(***************************************************************************)
Position(b) == CHOOSE k \in DOMAIN Layout : Layout[k] = b
IsFake(b) == code[b] = <<JmpTarget>>
FakesBetween(a, b) ==
  {Layout[k] : k \in {j \in Position(a) .. Position(b) : IsFake(Layout[j])}}
InLayoutOrder(s) ==
  \A i, j \in DOMAIN s : i < j => Position(s[i]) < Position(s[j])
TrailIsUniform(a, b) ==
  IF b > a THEN Range(trail) = FakesBetween(a, b) /\ InLayoutOrder(trail)
  ELSE trail # <<>> /\ Layout[Position(a) + 1] = trail[1]
ForwardJumpsVisitEveryBlock ==
  [][tick' # tick /\ at # 0 => TrailIsUniform(at, at')]_xvars
=============================================================================
