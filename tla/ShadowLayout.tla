----------------------------- MODULE ShadowLayout -----------------------------
(***************************************************************************)
(* The code builder of the test application (shadow_code/untrusted/shadow, *)
(* mem, and the three setup functions of BranchShadow.cpp).                *)
(*                                                                         *)
(* A Shadow is a list of machine code segments.  Two of them must end up   *)
(* at addresses that agree in their low bits with two given ones, src and  *)
(* dst; the others are loose and go where there is room.  finalize() maps  *)
(* memory that has room at those low bits, moves the segments there,       *)
(* computes the jumps between them and writes everything.                  *)
(*                                                                         *)
(* Only the layout is modelled: which bytes a segment occupies and where   *)
(* its jump goes.  Segment sizes and jump ranges are the code's;           *)
(* 2^lbr_entry_bits and the page size are parameters.                      *)
(***************************************************************************)
EXTENDS Integers, Sequences, FiniteSetsExt

CONSTANTS
  Align,       \* 2^lbr_entry_bits
  PageSize,    \* granularity of mmap
  Sources,     \* values of src
  Distances,   \* values of dst - src
  Mems         \* addresses mmap may return

ASSUME AlignAssumption ==
  Align \in Nat \ {0} /\ PageSize \in Nat \ {0} /\ Align % PageSize = 0
\* Room for every segment on both sides of src and dst, and within Align.
ASSUME AddressAssumption ==
  /\ \A s \in Sources, d \in Distances :
       s \in Nat /\ d \in Int /\ s > 600 /\ s + d > 600 /\ d - 600 > -Align /\ d + 600 < Align
  /\ \A m \in Mems : m \in Nat \ {0} /\ m % PageSize = 0

Nullptr == 0
MapFailed == -1  \* MAP_FAILED
Builders == {"jmp", "jmp_rev", "jne"}

VARIABLES
  builder,     \* setup_jmp_shadow, setup_jmp_shadow_rev or setup_jne_shadow
  indirect,    \* m_use_indirect_targets
  src, dst,    \* m_src, m_dst
  plan,        \* the segments still to be added
  segments,    \* m_segments
  loose,       \* m_loose_segments
  pos,         \* pos[s]: m_pos of segment s
  mem,         \* m_mem: what mmap returned, the size asked for, and entry
  jump,        \* jump[s]: the displacement, or address, in the code of s
  step         \* where the program is; "aborted" after a failed assertion

vars == <<builder, indirect, src, dst, plan, segments, loose, pos, mem, jump, step>>
input == <<builder, indirect, src, dst>>

-----------------------------------------------------------------------------
(***************************************************************************)
(* The segments the three setup functions make, and the order they add     *)
(* them in.                                                                *)
(***************************************************************************)
Names == {"entry", "pretest", "goto_src", "src", "if", "goto_end_if", "else",
          "goto_end_else", "goto_if", "end_if", "end_else"}
Forward == src < dst

Kind(s) ==
  CASE s = "entry" -> IF indirect THEN "SetPosInReg" ELSE "Nop"
    [] s = "pretest" -> IF indirect THEN "EaxAndOneIndir" ELSE "EaxAndOne"
    [] s = "src" -> IF builder = "jne" THEN "JneEaxZero"
                    ELSE IF indirect THEN "JumpR13" ELSE "Jump"
    [] s \in {"if", "else"} -> "EaxWrite"
    [] s \in {"end_if", "end_else"} -> "Retq"
    [] s \in {"goto_end_if", "goto_end_else"} ->
         IF builder = "jne" /\ Forward THEN "Jump" ELSE "LongJump"
    [] s = "goto_src" -> "LongJump"
    [] s = "goto_if" -> "Jump"

KindSize ==
  [Nop |-> 1, SetPosInReg |-> 10, EaxAndOne |-> 3, EaxAndOneIndir |-> 6, JneEaxZero |-> 4,
   Jump |-> 2, JumpR13 |-> 4, LongJump |-> 5, EaxWrite |-> 5, Retq |-> 121]
Size(s) == KindSize[Kind(s)]

\* The segment that has to be at dst, and is the target of the jump at src.
DstSegment == IF builder = "jmp_rev" THEN "if" ELSE "else"
Target(s) ==
  CASE s \in {"src", "entry"} -> DstSegment
    [] s = "goto_src" -> "src"
    [] s = "goto_if" -> "if"
    [] s = "goto_end_if" -> "end_if"
    [] s = "goto_end_else" -> "end_else"

JneOffset == 2
GivenPos(s) ==
  CASE s = "src" -> IF builder = "jne" THEN src - JneOffset ELSE src
    [] s = DstSegment -> dst
    [] OTHER -> Nullptr

BranchesPlan == <<"if", "goto_end_if", "else", "goto_end_else">>
EndPlan == <<"end_if", "end_else">>
Plan ==
  IF builder = "jne"
  THEN <<"entry", "pretest", "goto_src">>
         \o (IF Forward THEN <<"src">> \o BranchesPlan
             ELSE BranchesPlan \o <<"src", "goto_if">>)
         \o EndPlan
  ELSE (IF Forward THEN <<"entry", "src">> \o BranchesPlan
        ELSE BranchesPlan \o <<"entry", "src">>)
         \o EndPlan

-----------------------------------------------------------------------------
(***************************************************************************)
(* Shadow::add_segment and place_segment.                                  *)
(***************************************************************************)
Last(s) == s[Len(s)]
End(s) == pos[s] + Size(s)  \* get_end
Goto(where) == step' = where
Abort == Goto("aborted") /\ UNCHANGED <<input, plan, segments, loose, pos, mem, jump>>

\* "segment order is correct"
InOrder(s) == segments # <<>> /\ pos[s] # Nullptr => pos[Last(segments)] < pos[s]
OutOfOrder == step = "add" /\ plan # <<>> /\ ~InOrder(Head(plan)) /\ Abort

AddLoose ==
  /\ step = "add" /\ plan # <<>> /\ pos[Head(plan)] = Nullptr
  /\ loose' = Append(loose, Head(plan))
  /\ plan' = Tail(plan)
  /\ UNCHANGED <<input, segments, pos, mem, jump, step>>

Total ==
  LET sum[k \in 0 .. Len(loose)] == IF k = 0 THEN 0 ELSE sum[k - 1] + Size(loose[k])
  IN sum[Len(loose)]
Space(s) == pos[s] - End(Last(segments))
SegmentSpacing == 2  \* s_segment_spacing
\* Mutant: the room the segments themselves take is forgotten.
SpacingOfAll(s) == IF segments = <<>> THEN SegmentSpacing ELSE Space(s) \div Len(loose)
Spacing(s) == IF segments = <<>> THEN SegmentSpacing ELSE (Space(s) - Total) \div Len(loose)
\* Mutant: segments that fill the space exactly are refused.
FitsLoosely(s) ==
  /\ segments # <<>> /\ loose # <<>> => Total < Space(s)
  /\ loose # <<>> => Spacing(s) < 10000
\* "elements fit into available space", "spacing is within sane range"
Fits(s) ==
  /\ segments # <<>> /\ loose # <<>> => Total <= Space(s)
  /\ loose # <<>> => Spacing(s) < 10000

\* Where the loose segments go: backwards from the positioned one.
PosBefore(s) ==
  LET back[k \in 1 .. Len(loose)] ==
        (IF k = Len(loose) THEN pos[s] ELSE back[k + 1]) - Size(loose[k]) - Spacing(s)
  IN [t \in Names |-> IF \E k \in DOMAIN loose : loose[k] = t
                      THEN back[CHOOSE k \in DOMAIN loose : loose[k] = t]
                      ELSE pos[t]]

\* Mutant: m_loose_segments.clear() is missing.
PlaceSegmentKeepsLoose ==
  /\ step = "add" /\ plan # <<>>
  /\ LET s == Head(plan)
     IN /\ pos[s] # Nullptr /\ InOrder(s) /\ Fits(s)
        /\ pos' = PosBefore(s)
        /\ segments' = segments \o Append(loose, s)
  /\ plan' = Tail(plan)
  /\ UNCHANGED <<input, loose, mem, jump, step>>
PlaceSegment ==
  /\ step = "add" /\ plan # <<>>
  /\ LET s == Head(plan)
     IN /\ pos[s] # Nullptr /\ InOrder(s) /\ Fits(s)
        /\ pos' = PosBefore(s)
        /\ segments' = segments \o Append(loose, s)
  /\ loose' = <<>>
  /\ plan' = Tail(plan)
  /\ UNCHANGED <<input, mem, jump, step>>

DoesNotFit ==
  /\ step = "add" /\ plan # <<>>
  /\ pos[Head(plan)] # Nullptr /\ InOrder(Head(plan)) /\ ~Fits(Head(plan))
  /\ Abort

-----------------------------------------------------------------------------
(***************************************************************************)
(* Shadow::finalize and AlignedMem.                                        *)
(***************************************************************************)
\* The segments still loose go behind the last one placed.
PlaceRest ==
  /\ step = "add" /\ plan = <<>>
  /\ LET ahead[k \in 1 .. Len(loose)] ==
           (IF k = 1 THEN End(Last(segments)) ELSE ahead[k - 1] + Size(loose[k - 1])) + SegmentSpacing
     IN pos' = [t \in Names |-> IF \E k \in DOMAIN loose : loose[k] = t
                                THEN ahead[CHOOSE k \in DOMAIN loose : loose[k] = t]
                                ELSE pos[t]]
  /\ segments' = segments \o loose
  /\ Goto("map")
  /\ UNCHANGED <<input, plan, loose, mem, jump>>

GetSize == pos[Last(segments)] - End(segments[1])
\* Mutant: no room to move the area to its low bits.
MapSizeOfArea == GetSize
MapSize == Align + GetSize
Base(a) == a - (a % Align)  \* a & ~mask

\* AlignedMem::allocate.
Allocate ==
  /\ step = "map"
  /\ \E m \in Mems :
       LET e == Base(m) + (pos[segments[1]] % Align)
       IN mem' = [addr |-> m, size |-> MapSize, entry |-> IF e < m THEN e + Align - 1 ELSE e]
  /\ Goto("move")
  /\ UNCHANGED <<input, plan, segments, loose, pos, jump>>

\* mmap fails, and its result is compared with nullptr: allocate() returns
\* true and finalize() goes on to write where nothing is mapped.
AllocateFails ==
  /\ step = "map"
  /\ mem' = [addr |-> MapFailed, size |-> MapSize, entry |-> MapFailed]
  /\ Goto("wild")
  /\ UNCHANGED <<input, plan, segments, loose, pos, jump>>

\* Mutant: the first segment is moved to entry as it stands.
ApplyBaseEntry(s) == mem.entry
\* apply_base on the first segment, apply_offset on the others.
ApplyBase(s) == (pos[s] % Align) + Base(mem.entry)
Move ==
  /\ step = "move"
  /\ LET offset == ApplyBase(segments[1]) - pos[segments[1]]
     IN pos' = [s \in Names |-> IF pos[s] = Nullptr THEN Nullptr ELSE pos[s] + offset]
  /\ Goto("fill")
  /\ UNCHANGED <<input, plan, segments, loose, mem, jump>>

\* fill_with_nops: the area is written for the first time, before any segment
\* is finalized.
FillWithNops ==
  step = "fill" /\ Goto("finalize") /\ UNCHANGED <<input, plan, segments, loose, pos, mem, jump>>

ShortRange == -127 .. 127
\* Mutant: the distance is taken from where the jump begins.
DiffFromPos(s) == pos[Target(s)] - pos[s]
Diff(s) == pos[Target(s)] - End(s)
\* (char) diff
ToChar(n) == ((n + 128) % 256) - 128

\* "jump distance is withing jmp limits"
JumpTooFar ==
  /\ step = "finalize"
  /\ \E s \in Range(segments) : Kind(s) = "Jump" /\ Diff(s) \notin ShortRange
  /\ Abort

\* The finalize() of each segment.
FinalizeSegments ==
  /\ step = "finalize"
  /\ \A s \in Range(segments) : Kind(s) = "Jump" => Diff(s) \in ShortRange
  /\ jump' = [s \in Names |->
       IF s \notin Range(segments) THEN 0 ELSE
       CASE Kind(s) \in {"Jump", "JneEaxZero"} -> ToChar(Diff(s))
         [] Kind(s) = "LongJump" -> Diff(s)
         [] Kind(s) = "SetPosInReg" /\ builder # "jne" -> pos[Target(s)]
         [] OTHER -> 0]
  /\ Goto("write")
  /\ UNCHANGED <<input, plan, segments, loose, pos, mem>>

\* The segments are copied into the area.
Write == step = "write" /\ Goto("done") /\ UNCHANGED <<input, plan, segments, loose, pos, mem, jump>>

\* Mutant: the area is taken not to cross a multiple of Align.
GetAlignedPtrUncrossed(a) ==
  LET p == (a % Align) + Base(pos["entry"])
  IN IF p < pos[segments[1]] \/ p > End(Last(segments)) THEN Nullptr ELSE p
\* Shadow::get_aligned_ptr
GetAlignedPtr(a) ==
  LET start == pos[segments[1]]
      p == (a % Align) + Base(pos["entry"])
      q == IF p < start THEN p + Align ELSE p
  IN IF q < start \/ q > End(Last(segments)) THEN Nullptr ELSE q

NoMem == [addr |-> Nullptr, size |-> 0, entry |-> Nullptr]
Init ==
  /\ builder \in Builders /\ indirect \in BOOLEAN /\ src \in Sources
  /\ dst \in {src + d : d \in Distances}
  /\ plan = Plan /\ segments = <<>> /\ loose = <<>>
  /\ pos = [s \in Names |-> GivenPos(s)]
  /\ mem = NoMem /\ jump = [s \in Names |-> 0]
  /\ step = "add"

Next ==
  \/ OutOfOrder \/ AddLoose \/ PlaceSegment \/ DoesNotFit
  \/ PlaceRest \/ Allocate \/ AllocateFails \/ Move \/ FillWithNops \/ JumpTooFar \/ FinalizeSegments \/ Write
Spec == Init /\ [][Next]_vars

-----------------------------------------------------------------------------
(***************************************************************************)
(* Type invariant.                                                         *)
(***************************************************************************)
LayoutTypeOK ==
  /\ builder \in Builders /\ indirect \in BOOLEAN /\ src \in Sources /\ dst - src \in Distances
  /\ pos \in [Names -> Nat]
  /\ LET all == segments \o (IF step = "add" THEN loose ELSE <<>>) \o plan
     IN step # "aborted" => all = Plan
  /\ mem.addr \in Mems \cup {Nullptr, MapFailed} /\ mem.size \in Nat /\ mem.entry \in Nat \cup {MapFailed}
  /\ jump \in [Names -> Int]
  /\ step \in {"add", "map", "move", "fill", "finalize", "write", "done", "aborted", "wild"}

(***************************************************************************)
(* place_segment: "TODO: Detect bad placements where segments overwrite    *)
(* each-other".  From the moment they are in the list to the moment they   *)
(* are written, no segment reaches into the next; the only ones that can   *)
(* are src and dst where nothing is placed between them (jmp_rev), when    *)
(* they are given closer together than the jump at src is long.            *)
(***************************************************************************)
SegmentsDisjoint ==
  \A i, j \in DOMAIN segments : i < j =>
    \/ pos[segments[i]] + Size(segments[i]) <= pos[segments[j]]
    \/ /\ builder = "jmp_rev" /\ segments[i] = "src" /\ segments[j] = "if"
       /\ dst - src < Size("src")

(***************************************************************************)
(* What the builder is for: at the end the jump at src and the segment at  *)
(* dst have the low bits they were given, wherever mmap put the memory.    *)
(***************************************************************************)
LowBitsKept ==
  step = "done" => \A s \in {"src", DstSegment} : pos[s] % Align = GivenPos(s) % Align

(***************************************************************************)
(* Every jump in the finished code lands on the segment it was made for,   *)
(* although it was moved after it was placed, with one exception: SegJump  *)
(* asserts its range and SegJneEaxZero does not, so that the jne lands     *)
(* elsewhere exactly if dst is more than 129 bytes behind src.             *)
(***************************************************************************)
Jumps == {s \in Range(segments) : Kind(s) \in {"Jump", "LongJump", "JneEaxZero", "JumpR13"}}
Lands(s) == IF Kind(s) = "JumpR13" THEN jump["entry"] ELSE End(s) + jump[s]
JumpsLand ==
  step = "done" => \A s \in Jumps :
    Lands(s) = pos[Target(s)] <=> ~(Kind(s) = "JneEaxZero" /\ dst - src > 129)

(***************************************************************************)
(* The distances from src to dst for which the builder does not abort (the *)
(* jne among them whose jump, by JumpsLand, lands elsewhere).              *)
(***************************************************************************)
Supported ==
  LET d == dst - src
  IN CASE builder = "jmp" /\ Forward -> IF indirect THEN d \in 14 .. 20013 ELSE d \in 12 .. 129
       [] builder = "jmp" /\ ~Forward -> IF indirect THEN -d \in 20 .. 20019 ELSE -d \in 11 .. 125
       [] builder = "jmp_rev" /\ Forward -> indirect \/ d <= 129
       [] builder = "jmp_rev" /\ ~Forward -> IF indirect THEN -d \in 30 .. 40029 ELSE -d \in 21 .. 125
       [] builder = "jne" /\ Forward -> d \in 9 .. 242
       [] builder = "jne" /\ ~Forward -> -d \in 12 .. 107
AbortsOnlyUnsupported ==
  (step = "aborted" => ~Supported) /\ (step = "done" => Supported)

(***************************************************************************)
(* The area written, with nops first, lies within the mapping, also where  *)
(* the builder aborts later.  The area begins below the mapping when the   *)
(* first segment's low bits are all zero (entry is moved up by the mask    *)
(* and not by mask + 1), it can end behind it because get_size leaves out  *)
(* the first and the last segment; there is no other case.                 *)
(***************************************************************************)
RoundUp(n) == ((n + PageSize - 1) \div PageSize) * PageSize
AreaStart == pos[segments[1]]
AreaEnd == Max({End(s) : s \in Range(segments)})
Slack == ((AreaStart - mem.addr) % Align) + Size(segments[1]) + Size(Last(segments))
AreaMapped ==
  step \in {"fill", "finalize", "write", "done"} =>
    /\ AreaStart < mem.addr <=> AreaStart % Align = 0 /\ mem.addr % Align # 0
    /\ AreaEnd > mem.addr + RoundUp(mem.size) => Slack > Align

(***************************************************************************)
(* "expecting a jne at aligned src address": the assertion of t1_run_jne,  *)
(* which looks the jump up again from the address it was made for.         *)
(***************************************************************************)
JneAtAlignedSrc ==
  step = "done" /\ builder = "jne" => GetAlignedPtr(src) = pos["src"] + JneOffset
=============================================================================
