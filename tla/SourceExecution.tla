--------------------------- MODULE SourceExecution ----------------------------
(***************************************************************************)
(* What running a machine function means before any conversion: control    *)
(* is at one block after the other, and where it goes next depends on the  *)
(* condition flags at the end of the block.  This is the promise the       *)
(* converted function is held to.                                          *)
(*                                                                         *)
(* FirstExit, Targets and Outcomes give the meaning of the machine code    *)
(* the X86 target emits for a block; that meaning is the processor's.      *)
(***************************************************************************)
EXTENDS Naturals, Sequences, FiniteSetsExt

CONSTANTS N, Conds
VARIABLES
  fn,     \* the function: fn[b] is the instruction sequence of block b
  at,     \* the block control is at, 0 before the function is entered
  flags,  \* the conditions that hold at the end of that block
  tick,   \* toggles with every block entered
  halted  \* the function has returned (or called what never returns)

svars == <<fn, at, flags, tick, halted>>

(***************************************************************************)
(* The instruction with which control leaves block b under the conditions  *)
(* fl, or 0 if control falls through.                                      *)
(***************************************************************************)
Leaves(i, fl) ==
  \/ i.op \in {"jmp", "ind", "ret", "call", "stop"}
  \/ i.op \in {"jcc", "tailcc"} /\ i.cc \in fl
FirstExit(b, fl) ==
  LET exits == {i \in DOMAIN fn[b] : Leaves(fn[b][i], fl)}
  IN IF exits = {} THEN 0 ELSE Min(exits)

\* The blocks control may go to next; none if it leaves the function.
Targets(b, fl) ==
  IF FirstExit(b, fl) = 0 THEN {b + 1} ELSE fn[b][FirstExit(b, fl)].to

\* The conditions that may hold at the end of b when fl hold at its start.
Outcomes(b, fl) ==
  IF \E i \in DOMAIN fn[b] : fn[b][i].op = "body" THEN SUBSET Conds ELSE {fl}

Init ==
  /\ at = 0 /\ flags = {} /\ tick = FALSE /\ halted = FALSE

Enter(b) ==
  /\ ~halted
  /\ IF at = 0 THEN b = 1 ELSE b \in Targets(at, flags)
  /\ at' = b
  /\ flags' \in Outcomes(b, flags)
  /\ tick' = ~tick
  /\ UNCHANGED <<fn, halted>>

Halt ==
  /\ ~halted /\ at # 0
  /\ Targets(at, flags) = {}
  /\ halted' = TRUE
  /\ UNCHANGED <<fn, at, flags, tick>>

Next == (\E b \in 1 .. N : Enter(b)) \/ Halt
Spec == Init /\ [][Next]_svars
FairSpec == Spec /\ WF_svars(Next)
=============================================================================
