------------------------------ MODULE Blocks ------------------------------
(***************************************************************************)
(* How the indices of one dimension are divided among the processors along *)
(* it: distributions (src/distribution.c), regions (src/region.c) and the  *)
(* bounds of the arrays declared over them (src/ensemble.c).               *)
(*                                                                         *)
(* Everything here concerns one dimension.  d is a distribution over       *)
(* d.size processors, l the place of one of them, 0 .. d.size - 1.  r is a *)
(* region: the indices of r.lo .. r.hi that differ from r.align by a       *)
(* multiple of r.stride.                                                   *)
(***************************************************************************)
EXTENDS Integers, Sequences

\* INT_MAX>>1, the end of a distribution that covers all indices.
CONSTANT Far

ASSUME FarAssumption == Far \in Nat

Least(a, b) == IF a <= b THEN a ELSE b
Most(a, b) == IF a <= b THEN b ELSE a
Clamp(x, lo, hi) == IF x < lo THEN lo ELSE IF x > hi THEN hi ELSE x

\* a / b rounded up, and as C rounds.
Up(a, b) == -((-a) \div b)
Quotient(a, b) == IF a >= 0 THEN a \div b ELSE Up(a, b)

-----------------------------------------------------------------------------
\* _SNAP_UP, _SNAP_DN: the nearest index of r at or above x, at or below it.
SnapUp(x, r) == x + ((r.align - x) % r.stride)
SnapDn(x, r) == x - ((x - r.align) % r.stride)

\* _REG_GLOB_LO, _REG_GLOB_HI, _REG_SPAN
GlobLo(r) == SnapUp(r.lo, r)
GlobHi(r) == SnapDn(r.hi, r)
Span(r) == r.hi - r.lo + 1

IsRegion(r) == r.lo \in Int /\ r.hi \in Int /\ r.align \in Int /\ r.stride \in Nat \ {0}

\* _SNAP_UP_WRAP, _SNAP_DN_WRAP: the same for an index outside a, as it wraps.
SnapUpWrap(x, r, a) == x + ((Span(a) + r.align - x) % r.stride)
SnapDnWrap(x, r, a) == x - ((x + Span(a) - r.align) % r.stride)

-----------------------------------------------------------------------------
\* _blkInit: a block distribution has an index for every processor.
Blk(lo, hi, size) ==
  [kind |-> "blk", lo |-> lo, hi |-> Most(hi, lo + size - 1), size |-> size]

\* _cutSetup: the blocks end at the cuts.
Cut(cuts) ==
  [kind |-> "cut", lo |-> -Far, hi |-> Far, size |-> Len(cuts) + 1, cuts |-> cuts]

\* _gooferSetup, _fourferSetup: blocks of one index and of four.
Goofer(size) == [kind |-> "goofer", lo |-> -Far, hi |-> Far, size |-> size]
Fourfer(size) == [kind |-> "fourfer", lo |-> -Far, hi |-> Far, size |-> size]

\* A distribution as these leave it, with cuts that the program gave in order.
IsDist(d) ==
  /\ d.size \in Nat \ {0}
  /\ \/ /\ d.kind = "blk"
        /\ d.lo \in Int /\ d.hi \in Int /\ d.hi - d.lo + 1 >= d.size
     \/ /\ d.kind = "cut"
        /\ d.cuts \in [1..(d.size - 1) -> Int]
        /\ \A j, k \in 1..(d.size - 1) : j <= k => d.cuts[j] <= d.cuts[k]
     \/ d.kind \in {"goofer", "fourfer"}

\* Where block l ends; the last one has no end.
BlockEnd(d, l) ==
  CASE d.kind = "cut" -> d.cuts[l + 1]
    [] d.kind = "goofer" -> l
    [] d.kind = "fourfer" -> 4 * l + 3

\* _DIST_MYLO and _DIST_MYHI, as _blkInit, _cutInit .. set them.
MyLo(d, l) ==
  IF d.kind = "blk" THEN Up((d.hi - d.lo + 1) * l, d.size) + d.lo
  ELSE IF l = 0 THEN -Far ELSE BlockEnd(d, l - 1) + 1
MyHi(d, l) ==
  IF d.kind = "blk" THEN Up((d.hi - d.lo + 1) * (l + 1), d.size) - 1 + d.lo
  ELSE IF l = d.size - 1 THEN Far ELSE BlockEnd(d, l)

\* Mutant: the share of an index is rounded to the processor above.
ToProcUp(d, i) == Up((i - d.lo) * d.size, d.hi - d.lo + 1)
\* _DIST_TO_PROC: _blkToProc, _cutToProc, _gooferToProc, _fourferToProc.
ToProc(d, i) ==
  CASE d.kind = "blk" -> Quotient((i - d.lo) * d.size, d.hi - d.lo + 1)
    [] d.kind = "cut" ->
         CHOOSE j \in 0..(d.size - 1) :
           /\ j = d.size - 1 \/ i <= d.cuts[j + 1]
           /\ \A k \in 1..j : i > d.cuts[k]
    [] d.kind = "goofer" -> Clamp(i, 0, d.size - 1)
    [] d.kind = "fourfer" -> Clamp(Quotient(i, 4), 0, d.size - 1)

\* The processor that has index i: those at the ends have what is beyond.
Place(d, i) == Clamp(ToProc(d, i), 0, d.size - 1)

-----------------------------------------------------------------------------
Interval(lo, hi) == [lo |-> lo, hi |-> hi]
Empty == Interval(0, -1)

\* _SetMyBlock: the part of r that falls into distlo .. disthi; the first and
\* the last processor take what is below and above.
SetMyBlock(r, d, l, distlo, disthi) ==
  LET beg == l = 0
      end == l = d.size - 1
      mylo == IF GlobLo(r) < distlo /\ ~beg THEN SnapUp(distlo, r) ELSE GlobLo(r)
      myhi == IF GlobHi(r) > disthi /\ ~end THEN SnapDn(disthi, r) ELSE GlobHi(r)
  IN IF \/ GlobLo(r) > disthi /\ ~end
        \/ GlobHi(r) < distlo /\ ~beg
        \/ mylo > myhi
     THEN Empty ELSE Interval(mylo, myhi)

\* _CalcRegionBounds and _InitRegionCore: what processor l has of r.  A region
\* that begins and ends with one processor is all its own.
MyBlock(r, d, l) ==
  LET min == Place(d, GlobLo(r))
      max == IF ToProc(d, GlobLo(r)) >= d.size THEN min ELSE Place(d, GlobHi(r))
  IN IF min # max THEN SetMyBlock(r, d, l, MyLo(d, l), MyHi(d, l))
     ELSE IF min = l THEN Interval(GlobLo(r), GlobHi(r)) ELSE Empty

\* Mutant: the region is not made larger where the array wraps.
EnsembleBlockPlain(r, d, l, down, up, wraps) ==
  SetMyBlock(r, d, l, MyLo(d, l) - down, MyHi(d, l) + up)
\* _InitEnsembleCore: the bounds of an array over r that has down ghost cells
\* below its block and up above it; where it wraps, r is made larger.
EnsembleBlock(r, d, l, down, up, wraps) ==
  LET w == IF wraps THEN [r EXCEPT !.lo = @ - down, !.hi = @ + up] ELSE r
  IN SetMyBlock(w, d, l, MyLo(d, l) - down, MyHi(d, l) + up)
=============================================================================
