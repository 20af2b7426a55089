-------------------------- MODULE MCBranchConversion --------------------------
(***************************************************************************)
(* Small instances of the pass: the blocks an input function is made of.   *)
(***************************************************************************)
EXTENDS BranchConversion

Body == Plain("body")
Keep == Plain("keep")
Jcc(c, b) == [op |-> "jcc", to |-> {b}, cc |-> c]
Ind(S) == [op |-> "ind", to |-> S, cc |-> NoCond]
TailCC(c) == [op |-> "tailcc", to |-> {}, cc |-> c]

Falls    == {<<Body>>}
Exits    == {<<Body, Plain("ret")>>, <<Body, Plain("call")>>}
Jumps    == {<<Jmp(b)>> : b \in 1 .. N}
Branches == {<<Body, Jcc("ne", b)>> : b \in 1 .. N}
TwoWays  == {<<Body, Jcc("ne", a), Jmp(b)>> : a, b \in 1 .. N}
Pairs    == {<<Body, Jcc("ne", b), Jcc("p", b)>> : b \in 1 .. N}
Triples  == {<<Body, Jcc("ne", a), Jcc("p", a), Jmp(N + 1 - a)>> : a \in {1, N}}
Indirect == {<<Body, Ind(1 .. N)>>}

\* Blocks whose whole control flow the pass converts.
Convertible == Falls \cup Exits \cup Jumps \cup Branches \cup TwoWays
\* All blocks it accepts.
Accepted == Convertible \cup Pairs \cup Triples \cup Indirect
\* The same to be run: blocks that find the flags set by an earlier block.
Executed == (Accepted \ {<<Body, Plain("call")>>}) \cup {<<Keep, Jcc("ne", N)>>}
\* Blocks it refuses: a conditional tail call, an empty block, a trap, jrcxz.
Refused == {<<Body, TailCC("ne")>>, <<>>, <<Body, Plain("stop")>>, <<Body, Jcc(NoCond, N)>>}
AnyBlock == Refused \cup Falls \cup Exits \cup Jumps \cup Branches \cup Indirect
WithEmpty == {<<>>, <<Body, Plain("ret")>>} \cup Jumps
\* Enough for four blocks, each of which sets the flags; some are of more than
\* two instructions.
FourBlocks ==
  {<<Body, Body, Body>>, <<Body, Plain("ret")>>, <<Body, Jcc("ne", N), Jmp(2)>>}
    \cup {<<Body, Jmp(b)>> : b \in 1 .. N} \cup {<<Body, Body, Jcc("ne", b)>> : b \in 2 .. N}
\* Blocks that test the flags of an earlier one.
LateTests ==
  {<<Body, Body, Body>>, <<Body, Plain("ret")>>, <<Keep, Jcc("ne", N)>>} \cup Branches

MCConds == {"ne", "p"}
OneCond == {"ne"}
=============================================================================
