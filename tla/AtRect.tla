------------------------------ MODULE AtRect ------------------------------
(***************************************************************************)
(* The part of src/at_comm.c that finds out, in one dimension, which ghost *)
(* cells a processor receives and which cells it sends for a shift (@) by  *)
(* comp.  Every processor computes both sides from the bounds alone: the   *)
(* receiver's idea of what arrives and the sender's of what is wanted come *)
(* from different formulas and must agree.                                 *)
(*                                                                         *)
(* reg is the region of the statement, arr that of the array, both in this *)
(* dimension; l is the processor's place along it, and b, where it is      *)
(* wanted, what the processor has of reg or of arr.  The result is a range *)
(* of cells and the place of the processor at the other end.               *)
(***************************************************************************)
EXTENDS Blocks

Rect(proc, lo, hi) == [proc |-> proc, lo |-> lo, hi |-> hi]
NoRect == Rect(-1, 0, -1)

\* The range, if there is something in it and cond holds.
RectIf(cond, proc, lo, hi) == IF cond /\ lo <= hi THEN Rect(proc, lo, hi) ELSE NoRect

\* As many strides as bring x to bound or past it.
Above(x, bound, r) == IF x < bound THEN x + r.stride * Up(bound - x, r.stride) ELSE x
Below(x, bound, r) == IF x > bound THEN x - r.stride * Up(x - bound, r.stride) ELSE x

\* The part of reg in l's block of the distribution, as the functions below
\* compute it.
BlockLo(reg, d, l) == Most(SnapUp(MyLo(d, l), reg), GlobLo(reg))
BlockHi(reg, d, l) == Least(SnapDn(MyHi(d, l), reg), GlobHi(reg))

-----------------------------------------------------------------------------
(* What is exchanged with a processor at the same place in this dimension. *)

\* _ComputeCommFlatDim: one processor has all of the dimension.
FlatDim(b, comp) == Rect(0, b.lo + comp, b.hi + comp)

\* _ComputeCommZeroComp
ZeroComp(b, l) == RectIf(TRUE, l, b.lo, b.hi)

\* _ComputeCommZeroCompPosRoot and _ComputeCommZeroCompPosRootWrap, which
\* take the end of the block of the distribution and of the region.
PosRoot(reg, d, l, comp, myhi) ==
  LET hi == Below(BlockHi(reg, d, l) + comp, myhi, reg)
  IN RectIf(MyLo(d, l) + comp <= hi, l, BlockLo(reg, d, l) + comp, hi)

\* _ComputeCommZeroCompNegRoot and _ComputeCommZeroCompNegRootWrap
NegRoot(reg, d, l, comp, mylo) ==
  LET lo == Above(BlockLo(reg, d, l) + comp, mylo, reg)
  IN RectIf(lo <= MyHi(d, l) + comp, l, lo, BlockHi(reg, d, l) + comp)

-----------------------------------------------------------------------------
(* What is exchanged with a neighbour in this dimension.                   *)

\* _ComputeSendPosComp: the processors below read upwards into this block.
SendPos(reg, d, l, comp) ==
  LET snapped == SnapDn(MyLo(d, l) - 1, reg)
      one == snapped + Least(reg.stride, comp)
      next == IF one < MyLo(d, l) THEN one + reg.stride ELSE one
      lo == Most(next, GlobLo(reg) + comp)
  IN RectIf(lo <= MyHi(d, l), Most(0, ToProc(d, lo - comp)),
            lo, Least(snapped, GlobHi(reg)) + comp)

\* _ComputeRecvPosComp: this processor reads above its block.
RecvPos(reg, d, l, comp) ==
  LET snapped == SnapDn(MyHi(d, l), reg)
      one == snapped + Least(reg.stride, comp)
      next == IF one <= MyHi(d, l) THEN one + reg.stride ELSE one
      lo == Most(next, GlobLo(reg) + comp)
      hi == Least(snapped, GlobHi(reg)) + comp
  IN RectIf(MyLo(d, l) + comp <= hi, Least(d.size - 1, ToProc(d, lo)), lo, hi)

\* _ComputeSendNegComp: the processors above read downwards into this block.
SendNeg(reg, d, l, comp) ==
  LET snapped == SnapUp(MyHi(d, l) + 1, reg)
      one == snapped + Most(-reg.stride, comp)
      next == IF one > MyHi(d, l) THEN one - reg.stride ELSE one
      hi == Least(next, GlobHi(reg) + comp)
  IN RectIf(MyLo(d, l) <= hi, Least(d.size - 1, ToProc(d, hi - comp)),
            Most(snapped, GlobLo(reg)) + comp, hi)

\* _ComputeRecvNegComp: this processor reads below its block.
RecvNeg(reg, d, l, comp) ==
  LET snapped == SnapUp(MyLo(d, l), reg)
      one == snapped + Most(-reg.stride, comp)
      next == IF one >= MyLo(d, l) THEN one - reg.stride ELSE one
      lo == Most(snapped, GlobLo(reg)) + comp
      hi == Least(next, GlobHi(reg) + comp)
  IN RectIf(lo <= MyHi(d, l) + comp, Most(0, ToProc(d, hi)), lo, hi)

-----------------------------------------------------------------------------
(* The same where the shift wraps around at the ends of the array.  A cell *)
(* beyond an end of arr stands for the one a span of arr further on.       *)

\* _INV_BEG_OF_REG, _INV_END_OF_REG
HasBeg(r, d, l) == r.lo \in MyLo(d, l)..MyHi(d, l)
HasEnd(r, d, l) == r.hi \in MyLo(d, l)..MyHi(d, l)

\* The processor with the other end of lo .. hi, shifted into arr by span.
WrapRect(d, lo, hi, span, comp) ==
  RectIf(TRUE, Place(d, hi + span), lo + comp, hi + comp)

\* _ComputeSendPosCompWrap; lo .. hi are the indices whose reads these are.
SendPosWrap(b, reg, arr, d, l, comp) ==
  LET mylo == IF HasBeg(arr, d, l) THEN arr.lo ELSE MyLo(d, l)
      remlo == b.lo - comp
      remhi == Least(b.hi - comp, mylo - 1)
      wraparound == reg.hi + comp > arr.hi
      lo == CASE wraparound /\ remlo <= arr.lo - comp -> SnapUpWrap(arr.lo - comp, reg, arr)
              [] wraparound /\ remlo \in (arr.lo - comp + 1)..(arr.lo - 1) ->
                   SnapUpWrap(remlo, reg, arr)
              [] OTHER -> IF remlo < reg.lo THEN reg.lo ELSE SnapUp(remlo, reg)
      hi == CASE remhi > reg.hi -> reg.hi
              [] remhi \in reg.lo..reg.hi -> SnapDn(remhi, reg)
              [] OTHER -> IF wraparound THEN SnapDnWrap(arr.lo - 1, reg, arr) ELSE remhi
  IN IF b.lo > b.hi \/ remlo > remhi THEN NoRect
     ELSE WrapRect(d, lo, hi, IF hi < arr.lo THEN Span(arr) ELSE 0, comp)

\* _ComputeRecvPosCompWrap
RecvPosWrap(b, reg, arr, d, l, comp) ==
  LET myhi == IF HasEnd(arr, d, l) THEN arr.hi ELSE MyHi(d, l)
      lo == IF b.lo + comp <= myhi THEN SnapUp(myhi + 1 - comp, reg) + comp
            ELSE b.lo + comp
  IN IF b.lo > b.hi THEN NoRect
     ELSE WrapRect(d, lo, b.hi + comp, IF lo > arr.hi THEN -Span(arr) ELSE 0, 0)

\* _ComputeSendNegCompWrap.  It looks for the end of reg, where the three
\* other functions look for an end of arr.
SendNegWrap(b, reg, arr, d, l, comp) ==
  LET myhi == IF HasEnd(reg, d, l) THEN reg.hi ELSE MyHi(d, l)
      remlo == Most(b.lo - comp, myhi + 1)
      remhi == b.hi - comp
      wraparound == arr.lo > reg.lo + comp
      lo == CASE remlo < reg.lo -> reg.lo
              [] remlo \in reg.lo..reg.hi -> SnapUp(remlo, reg)
              [] OTHER -> IF wraparound THEN SnapUpWrap(arr.hi + 1, reg, arr) ELSE remlo
      hi == CASE wraparound /\ remhi >= arr.hi - comp -> SnapDnWrap(arr.hi - comp, reg, arr)
              [] wraparound /\ remhi \in (arr.hi + 1)..(arr.hi - comp - 1) ->
                   SnapDnWrap(remhi, reg, arr)
              [] OTHER -> IF remhi > reg.hi THEN reg.hi ELSE SnapDn(remhi, reg)
  IN IF b.lo > b.hi \/ remlo > remhi THEN NoRect
     ELSE WrapRect(d, lo, hi, IF lo > arr.hi THEN -Span(arr) ELSE 0, comp)

\* _ComputeRecvNegCompWrap
RecvNegWrap(b, reg, arr, d, l, comp) ==
  LET mylo == IF HasBeg(arr, d, l) THEN arr.lo ELSE MyLo(d, l)
      hi == IF b.hi + comp >= mylo THEN SnapDn(mylo - 1 - comp, reg) + comp
            ELSE b.hi + comp
  IN IF b.lo > b.hi THEN NoRect
     ELSE WrapRect(d, b.lo + comp, hi, IF hi < arr.lo THEN Span(arr) ELSE 0, 0)

-----------------------------------------------------------------------------
\* The two branches of _FindRect: what is exchanged in this dimension for a
\* shift by comp with the neighbours on side ptr.
PlainRect(reg, d, l, ptr, comp, sr) ==
  CASE d.size = 1 -> FlatDim(MyBlock(reg, d, l), comp)
    [] d.size # 1 /\ ptr = 0 /\ comp = 0 -> ZeroComp(MyBlock(reg, d, l), l)
    [] d.size # 1 /\ ptr = 0 /\ comp < 0 -> NegRoot(reg, d, l, comp, MyLo(d, l))
    [] d.size # 1 /\ ptr = 0 /\ comp > 0 -> PosRoot(reg, d, l, comp, MyHi(d, l))
    [] d.size # 1 /\ ptr # 0 /\ comp < 0 ->
         IF sr = "SEND" THEN SendNeg(reg, d, l, comp) ELSE RecvNeg(reg, d, l, comp)
    [] OTHER ->
         IF sr = "SEND" THEN SendPos(reg, d, l, comp) ELSE RecvPos(reg, d, l, comp)

WrappedRect(reg, arr, d, l, ptr, comp, sr) ==
  CASE ptr = 0 /\ comp = 0 -> ZeroComp(MyBlock(reg, d, l), l)
    [] ptr = 0 /\ comp < 0 -> NegRoot(arr, d, l, comp, MyBlock(arr, d, l).lo)
    [] ptr = 0 /\ comp > 0 -> PosRoot(arr, d, l, comp, MyBlock(arr, d, l).hi)
    [] ptr # 0 /\ comp < 0 ->
         IF sr = "SEND" THEN SendNegWrap(MyBlock(arr, d, l), reg, arr, d, l, comp)
         ELSE RecvNegWrap(MyBlock(reg, d, l), reg, arr, d, l, comp)
    [] OTHER ->
         IF sr = "SEND" THEN SendPosWrap(MyBlock(arr, d, l), reg, arr, d, l, comp)
         ELSE RecvPosWrap(MyBlock(reg, d, l), reg, arr, d, l, comp)
=============================================================================
