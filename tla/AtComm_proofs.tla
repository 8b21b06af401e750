--------------------------- MODULE AtComm_proofs ---------------------------
(***************************************************************************)
(* Proofs about the index arithmetic of the runtime, for every grid, every *)
(* distribution of the four kinds, and every region with any bounds and    *)
(* strides: distribution.c maps an index to the processor in whose block   *)
(* region.c puts it, although the two compute with different formulas.     *)
(***************************************************************************)
EXTENDS AtComm, TLAPS, WellFoundedInduction

-----------------------------------------------------------------------------
(* Division                                                                *)

LEMMA DivMod ==
  ASSUME NEW a \in Int, NEW b \in Nat \ {0}
  PROVE  /\ a \div b \in Int /\ a % b \in 0..(b - 1)
         /\ a = b * (a \div b) + (a % b)
OBVIOUS

LEMMA Times ==
  ASSUME NEW x \in Int, NEW y \in Int, NEW b \in Nat, x <= y
  PROVE  b * x <= b * y
OBVIOUS

LEMMA DivAtLeast ==
  ASSUME NEW a \in Int, NEW b \in Nat \ {0}, NEW q \in Int
  PROVE  a \div b \in Int /\ (a \div b >= q <=> a >= b * q)
<1>1. /\ a \div b \in Int /\ a % b \in 0..(b - 1)
      /\ a = b * (a \div b) + (a % b)
  BY DivMod
<1> DEFINE d == a \div b
           m == a % b
<1>2. d \in Int /\ m \in 0..(b - 1) /\ a = b * d + m /\ b * d \in Int /\ b * q \in Int
  BY <1>1
<1> HIDE DEF d, m
<1>3. ASSUME d >= q PROVE a >= b * q
  <2>1. b * q <= b * d
    BY <1>2, <1>3, Times
  <2> QED
    BY <1>2, <2>1
<1>4. ASSUME ~(d >= q) PROVE ~(a >= b * q)
  <2>1. b * (d + 1) <= b * q
    BY <1>2, <1>4, Times
  <2>2. b * (d + 1) = b * d + b
    BY <1>2
  <2> QED
    BY <1>2, <2>1, <2>2
<1> QED
  BY <1>2, <1>3, <1>4 DEF d

LEMMA UpAtMost ==
  ASSUME NEW a \in Int, NEW b \in Nat \ {0}, NEW q \in Int
  PROVE  Up(a, b) \in Int /\ (Up(a, b) <= q <=> a <= b * q)
<1>1. -a \in Int /\ -q \in Int
  OBVIOUS
<1>2. (-a) \div b \in Int /\ ((-a) \div b >= -q <=> -a >= b * (-q))
  BY <1>1, DivAtLeast
<1>3. b * (-q) = -(b * q) /\ b * q \in Int
  OBVIOUS
<1> QED
  BY <1>2, <1>3 DEF Up

\* C rounds towards 0, which makes no difference to a bound above it.
LEMMA QuotientAtLeast ==
  ASSUME NEW a \in Int, NEW b \in Nat \ {0}, NEW q \in Nat \ {0}
  PROVE  Quotient(a, b) \in Int /\ (Quotient(a, b) >= q <=> a >= b * q)
<1>1. CASE a >= 0
  BY <1>1, DivAtLeast DEF Quotient
<1>2. CASE a < 0
  <2>1. Up(a, b) \in Int /\ (Up(a, b) <= 0 <=> a <= b * 0)
    BY UpAtMost
  <2>2. b * 0 = 0 /\ b * 0 <= b * q /\ b * q \in Int
    BY Times
  <2> QED
    BY <1>2, <2>1, <2>2 DEF Quotient
<1> QED
  BY <1>1, <1>2

LEMMA Smallest ==
  ASSUME NEW S, S \subseteq Nat, S # {}
  PROVE  \E x \in S : \A y \in S : x <= y
<1> DEFINE R == {ss \in Nat \X Nat : ss[1] < ss[2]}
<1>1. IsWellFoundedOn(R, Nat)
  BY NatLessThanWellFounded DEF OpToRel
<1>2. PICK x \in S : \A y \in S : ~(<<y, x>> \in R)
  <2> HIDE DEF R
  <2> QED
    BY <1>1, WFMin
<1>3. ASSUME NEW y \in S PROVE x <= y
  <2>1. <<y, x>> \in Nat \X Nat /\ ~(<<y, x>> \in R)
    BY <1>2
  <2>2. ~(y < x)
    BY <2>1
  <2> QED
    BY <2>2
<1> QED
  BY <1>3

-----------------------------------------------------------------------------
(* Distributions                                                           *)

\* _cutToProc finds the first cut that is not below i.
LEMMA CutFound ==
  ASSUME NEW d, IsDist(d), d.kind = "cut", NEW i \in Int
  PROVE  /\ ToProc(d, i) \in 0..(d.size - 1)
         /\ ToProc(d, i) = d.size - 1 \/ i <= d.cuts[ToProc(d, i) + 1]
         /\ \A k \in 1..ToProc(d, i) : i > d.cuts[k]
<1> DEFINE n == d.size
           S == {j \in 0..(n - 1) : j = n - 1 \/ i <= d.cuts[j + 1]}
<1>1. n \in Nat \ {0} /\ d.cuts \in [1..(n - 1) -> Int]
  BY DEF IsDist
<1> HIDE DEF n
<1>2. PICK j \in S : \A k \in S : j <= k
  <2>1. S \subseteq Nat /\ n - 1 \in S
    BY <1>1
  <2> QED
    BY <2>1, Smallest
<1>3. ASSUME NEW k \in 1..j PROVE i > d.cuts[k]
  <2>1. k - 1 \in 0..(n - 1) /\ k - 1 < j /\ k - 1 # n - 1 /\ j \in 0..(n - 1)
    BY <1>1, <1>2
  <2>2. k - 1 \notin S
    <3> HIDE DEF S
    <3> SUFFICES ASSUME k - 1 \in S PROVE FALSE
      OBVIOUS
    <3>1. j <= k - 1
      BY <1>2
    <3> QED
      BY <2>1, <3>1
  <2>3. ~(i <= d.cuts[(k - 1) + 1]) /\ (k - 1) + 1 = k
    BY <1>1, <2>1, <2>2
  <2> QED
    BY <1>1, <2>1, <2>3
<1>4. ToProc(d, i) = CHOOSE l \in 0..(n - 1) :
           /\ l = n - 1 \/ i <= d.cuts[l + 1]
           /\ \A k \in 1..l : i > d.cuts[k]
  BY DEF ToProc, n
<1> QED
  BY <1>1, <1>2, <1>3, <1>4 DEF n

LEMMA PlaceIn ==
  ASSUME NEW d, IsDist(d), NEW i \in Int
  PROVE  Place(d, i) \in 0..(d.size - 1) /\ ToProc(d, i) \in Int
<1>1. ToProc(d, i) \in Int
  <2>1. CASE d.kind = "blk"
    <3>1. /\ (i - d.lo) * d.size \in Int /\ d.hi - d.lo + 1 \in Nat \ {0} /\ 1 \in Nat \ {0}
      BY <2>1 DEF IsDist
    <3> QED
      BY <2>1, <3>1, QuotientAtLeast DEF ToProc
  <2>2. CASE d.kind = "cut"
    BY <2>2, CutFound DEF IsDist
  <2>3. CASE d.kind = "goofer"
    BY <2>3 DEF ToProc, IsDist, Clamp
  <2>4. CASE d.kind = "fourfer"
    <3>1. Quotient(i, 4) \in Int
      BY QuotientAtLeast
    <3> QED
      BY <2>4, <3>1 DEF ToProc, IsDist, Clamp
  <2> QED
    BY <2>1, <2>2, <2>3, <2>4 DEF IsDist
<1> QED
  BY <1>1 DEF Place, Clamp, IsDist

\* An index belongs to processor l or a later one exactly if it is not below
\* the block of l: _DIST_TO_PROC and _DIST_MYLO agree.
LEMMA PlaceFrom ==
  ASSUME NEW d, IsDist(d), NEW i \in Int, NEW l \in 1..(d.size - 1)
  PROVE  MyLo(d, l) \in Int /\ (Place(d, i) >= l <=> i >= MyLo(d, l))
<1>0. ToProc(d, i) \in Int
  BY PlaceIn
<1>1. d.size \in Nat \ {0} /\ l \in Nat \ {0} /\ ToProc(d, i) \in Int
  BY <1>0 DEF IsDist
<1>2. Place(d, i) >= l <=> ToProc(d, i) >= l
  BY <1>1 DEF Place, Clamp
<1>3. CASE d.kind = "blk"
  <2> DEFINE n == d.hi - d.lo + 1
             k == i - d.lo
  <2>1. n \in Nat \ {0} /\ k \in Int /\ k * d.size \in Int /\ n * l \in Int /\ d.lo \in Int
    BY <1>1, <1>3 DEF IsDist
  <2>2. ToProc(d, i) = Quotient(k * d.size, n) /\ MyLo(d, l) = Up(n * l, d.size) + d.lo
    BY <1>3 DEF ToProc, MyLo
  <2> HIDE DEF n, k
  <2>3. ToProc(d, i) >= l <=> k * d.size >= n * l
    BY <1>1, <2>1, <2>2, QuotientAtLeast
  <2>4. Up(n * l, d.size) \in Int /\ (Up(n * l, d.size) <= k <=> n * l <= d.size * k)
    BY <1>1, <2>1, UpAtMost
  <2>5. k * d.size = d.size * k
    BY <1>1, <2>1
  <2>6. ToProc(d, i) >= l <=> Up(n * l, d.size) <= k
    BY <1>1, <2>1, <2>3, <2>4, <2>5
  <2> QED
    BY <1>2, <2>1, <2>2, <2>4, <2>6 DEF k
<1>4. CASE d.kind = "cut"
  <2> DEFINE t == ToProc(d, i)
  <2>1. /\ t \in 0..(d.size - 1)
        /\ t = d.size - 1 \/ i <= d.cuts[t + 1]
        /\ \A k \in 1..t : i > d.cuts[k]
    BY <1>4, CutFound
  <2>2. /\ d.cuts \in [1..(d.size - 1) -> Int]
        /\ \A j, k \in 1..(d.size - 1) : j <= k => d.cuts[j] <= d.cuts[k]
    BY <1>4 DEF IsDist
  <2>3. MyLo(d, l) = d.cuts[l] + 1 /\ d.cuts[l] \in Int
    BY <1>1, <1>4, <2>2 DEF MyLo, BlockEnd
  <2> HIDE DEF t
  <2>4. ASSUME t >= l PROVE i > d.cuts[l]
    BY <1>1, <2>1, <2>4
  <2>5. ASSUME ~(t >= l) PROVE ~(i > d.cuts[l])
    <3>1. t + 1 \in 1..(d.size - 1) /\ t + 1 <= l /\ i <= d.cuts[t + 1]
      BY <1>1, <2>1, <2>5
    <3>2. d.cuts[t + 1] <= d.cuts[l] /\ d.cuts[t + 1] \in Int
      BY <2>2, <3>1
    <3> QED
      BY <2>3, <3>1, <3>2
  <2> QED
    BY <1>2, <2>3, <2>4, <2>5 DEF t
<1>5. CASE d.kind = "goofer"
  BY <1>1, <1>2, <1>5 DEF ToProc, Clamp, MyLo, BlockEnd
<1>6. CASE d.kind = "fourfer"
  <2>1. Quotient(i, 4) \in Int /\ (Quotient(i, 4) >= l <=> i >= 4 * l)
    <3>1. 4 \in Nat \ {0} /\ l \in Nat \ {0}
      BY <1>1
    <3> QED
      BY <3>1, QuotientAtLeast
  <2>2. MyLo(d, l) = 4 * l
    BY <1>1, <1>6 DEF MyLo, BlockEnd
  <2> QED
    BY <1>1, <1>2, <1>6, <2>1, <2>2 DEF ToProc, Clamp
<1> QED
  BY <1>3, <1>4, <1>5, <1>6 DEF IsDist

\* The blocks follow each other without a gap.
LEMMA MyHiIs ==
  ASSUME NEW d, IsDist(d), NEW l \in 0..(d.size - 2)
  PROVE  MyHi(d, l) = MyLo(d, l + 1) - 1 /\ MyHi(d, l) \in Int
<1>1. /\ d.size \in Nat \ {0} /\ l \in Nat /\ l # d.size - 1 /\ l + 1 # 0
      /\ (l + 1) - 1 = l /\ l + 1 \in 1..(d.size - 1) /\ 0 \in Int
  BY DEF IsDist
<1>2. MyLo(d, l + 1) \in Int
  BY <1>1, PlaceFrom
<1>3. CASE d.kind = "blk"
  <2> DEFINE u == Up((d.hi - d.lo + 1) * (l + 1), d.size)
  <2>1. MyHi(d, l) = u - 1 + d.lo /\ MyLo(d, l + 1) = u + d.lo
    BY <1>3 DEF MyHi, MyLo
  <2>2. u \in Int /\ d.lo \in Int
    <3>1. (d.hi - d.lo + 1) * (l + 1) \in Int /\ d.lo \in Int
      BY <1>1, <1>3 DEF IsDist
    <3> QED
      BY <1>1, <3>1, UpAtMost
  <2> HIDE DEF u
  <2> QED
    BY <2>1, <2>2
<1>4. CASE d.kind # "blk"
  <2>1. MyHi(d, l) = BlockEnd(d, l) /\ MyLo(d, l + 1) = BlockEnd(d, l) + 1
    BY <1>1, <1>4 DEF MyHi, MyLo
  <2>2. BlockEnd(d, l) \in Int
    <3>1. CASE d.kind = "cut"
      BY <1>1, <3>1 DEF BlockEnd, IsDist
    <3>2. CASE d.kind \in {"goofer", "fourfer"}
      BY <1>1, <3>2 DEF BlockEnd
    <3> QED
      BY <1>4, <3>1, <3>2 DEF IsDist
  <2> QED
    BY <2>1, <2>2
<1> QED
  BY <1>3, <1>4

\* The indices of processor l are those of its block, and what is beyond the
\* block if there is no processor there: _DIST_TO_PROC, _DIST_MYLO and
\* _DIST_MYHI agree.
LEMMA PlaceIs ==
  ASSUME NEW d, IsDist(d), NEW i \in Int, NEW l \in 0..(d.size - 1)
  PROVE  Place(d, i) = l <=> /\ l = 0 \/ i >= MyLo(d, l)
                             /\ l = d.size - 1 \/ i <= MyHi(d, l)
<1>0. Place(d, i) \in 0..(d.size - 1)
  BY PlaceIn
<1>1. d.size \in Nat \ {0} /\ l \in Nat /\ Place(d, i) \in 0..(d.size - 1)
  BY <1>0 DEF IsDist
<1>2. Place(d, i) >= l <=> l = 0 \/ i >= MyLo(d, l)
  <2>1. CASE l = 0
    BY <1>1, <2>1
  <2>2. CASE l # 0
    <3>1. l \in 1..(d.size - 1)
      BY <1>1, <2>2
    <3> QED
      BY <2>2, <3>1, PlaceFrom
  <2> QED
    BY <2>1, <2>2
<1>3. Place(d, i) <= l <=> l = d.size - 1 \/ i <= MyHi(d, l)
  <2>1. CASE l = d.size - 1
    BY <1>1, <2>1
  <2>2. CASE l # d.size - 1
    <3>1. l \in 0..(d.size - 2) /\ l + 1 \in 1..(d.size - 1)
      BY <1>1, <2>2
    <3>2. MyHi(d, l) = MyLo(d, l + 1) - 1
      BY <3>1, MyHiIs
    <3>3. MyLo(d, l + 1) \in Int /\ (Place(d, i) >= l + 1 <=> i >= MyLo(d, l + 1))
      BY <3>1, PlaceFrom
    <3> QED
      BY <1>1, <2>2, <3>2, <3>3
  <2> QED
    BY <2>1, <2>2
<1> QED
  BY <1>1, <1>2, <1>3

\* A later index never belongs to an earlier processor.
LEMMA PlaceMonotone ==
  ASSUME NEW d, IsDist(d), NEW i \in Int, NEW j \in Int, i <= j
  PROVE  Place(d, i) <= Place(d, j)
<1> DEFINE l == Place(d, i)
<1>1. l \in 0..(d.size - 1) /\ Place(d, j) \in 0..(d.size - 1) /\ d.size \in Nat \ {0}
  BY PlaceIn DEF IsDist
<1> HIDE DEF l
<1>2. CASE l = 0
  BY <1>1, <1>2 DEF l
<1>3. CASE l # 0
  <2>1. l \in 1..(d.size - 1)
    BY <1>1, <1>3
  <2>2. MyLo(d, l) \in Int /\ (Place(d, i) >= l <=> i >= MyLo(d, l))
    BY <2>1, PlaceFrom
  <2>3. Place(d, j) >= l <=> j >= MyLo(d, l)
    BY <2>1, PlaceFrom
  <2>4. Place(d, i) >= l
    BY <1>1 DEF l
  <2> QED
    BY <1>1, <2>2, <2>3, <2>4 DEF l
<1> QED
  BY <1>2, <1>3

-----------------------------------------------------------------------------
(* Regions                                                                 *)

\* The indices of a region, without its bounds.
On(x, r) == (x - r.align) % r.stride = 0

LEMMA Multiple ==
  ASSUME NEW a \in Int, NEW b \in Nat \ {0}
  PROVE  (a % b = 0) <=> \E q \in Int : a = b * q
<1>1. /\ a \div b \in Int /\ a % b \in 0..(b - 1)
      /\ a = b * (a \div b) + (a % b)
  BY DivMod
<1> DEFINE d == a \div b
           m == a % b
<1>2. d \in Int /\ m \in 0..(b - 1) /\ a = b * d + m /\ b * d \in Int
  BY <1>1
<1> HIDE DEF d, m
<1>3. ASSUME m = 0 PROVE \E q \in Int : a = b * q
  BY <1>2, <1>3
<1>4. ASSUME NEW q \in Int, a = b * q PROVE m = 0
  <2>1. m = b * (q - d) /\ q - d \in Int
    BY <1>2, <1>4
  <2>2. CASE q - d >= 1
    <3>1. b * 1 <= b * (q - d)
      BY <2>1, <2>2, Times
    <3> QED
      BY <1>2, <2>1, <3>1
  <2>3. CASE q - d <= -1
    <3>1. b * (q - d) <= b * (-1)
      BY <2>1, <2>3, Times
    <3> QED
      BY <1>2, <2>1, <3>1
  <2>4. CASE q - d = 0
    BY <1>2, <2>1, <2>4
  <2> QED
    BY <2>1, <2>2, <2>3, <2>4
<1> QED
  BY <1>3, <1>4 DEF m

\* Nothing of a region lies between x and what _SNAP_UP makes of it.
LEMMA SnapUpLeast ==
  ASSUME NEW r, IsRegion(r), NEW x \in Int
  PROVE  /\ SnapUp(x, r) \in Int /\ SnapUp(x, r) >= x
         /\ \A y \in Int : On(y, r) => (y >= SnapUp(x, r) <=> y >= x)
<1> DEFINE s == r.stride
           a == r.align - x
           m == a % s
           d == a \div s
<1>1. s \in Nat \ {0} /\ a \in Int /\ r.align \in Int
  BY DEF IsRegion
<1>2. d \in Int /\ m \in 0..(s - 1) /\ a = s * d + m
  BY <1>1, DivMod
<1>3. SnapUp(x, r) = x + m
  BY DEF SnapUp
<1>4. ASSUME NEW y \in Int, On(y, r), y >= x PROVE y >= x + m
  <2>1. PICK q \in Int : y - r.align = s * q
    <3>1. y - r.align \in Int /\ (y - r.align) % s = 0
      BY <1>1, <1>4 DEF On
    <3> QED
      BY <1>1, <3>1, Multiple
  <2> HIDE DEF m, d, s
  <2>2. y - (x + m) = s * (q + d) /\ q + d \in Int /\ s * (q + d) \in Int
    <3>1. s * (q + d) = s * q + s * d /\ s * q \in Int /\ s * d \in Int
      BY <1>1, <1>2
    <3> QED
      BY <1>1, <1>2, <2>1, <3>1
  <2>3. q + d >= 0
    <3> SUFFICES ASSUME q + d <= -1 PROVE FALSE
      BY <2>2
    <3>1. s * (q + d) <= s * (-1)
      BY <1>1, <2>2, Times
    <3>2. y - (x + m) <= -s
      BY <1>1, <2>2, <3>1
    <3> QED
      BY <1>1, <1>2, <1>4, <3>2
  <2>4. s * 0 <= s * (q + d)
    BY <1>1, <2>2, <2>3, Times
  <2> QED
    BY <1>1, <1>2, <2>2, <2>4
<1> HIDE DEF m
<1> QED
  BY <1>1, <1>2, <1>3, <1>4

LEMMA SnapDnMost ==
  ASSUME NEW r, IsRegion(r), NEW x \in Int
  PROVE  /\ SnapDn(x, r) \in Int /\ SnapDn(x, r) <= x
         /\ \A y \in Int : On(y, r) => (y <= SnapDn(x, r) <=> y <= x)
<1> DEFINE s == r.stride
           a == x - r.align
           m == a % s
           d == a \div s
<1>1. s \in Nat \ {0} /\ a \in Int /\ r.align \in Int
  BY DEF IsRegion
<1>2. d \in Int /\ m \in 0..(s - 1) /\ a = s * d + m
  BY <1>1, DivMod
<1>3. SnapDn(x, r) = x - m
  BY DEF SnapDn
<1>4. ASSUME NEW y \in Int, On(y, r), y <= x PROVE y <= x - m
  <2>1. PICK q \in Int : y - r.align = s * q
    <3>1. y - r.align \in Int /\ (y - r.align) % s = 0
      BY <1>1, <1>4 DEF On
    <3> QED
      BY <1>1, <3>1, Multiple
  <2> HIDE DEF m, d, s
  <2>2. (x - m) - y = s * (d - q) /\ d - q \in Int /\ s * (d - q) \in Int
    <3>1. s * (d - q) = s * d - s * q /\ s * q \in Int /\ s * d \in Int
      BY <1>1, <1>2
    <3> QED
      BY <1>1, <1>2, <2>1, <3>1
  <2>3. d - q >= 0
    <3> SUFFICES ASSUME d - q <= -1 PROVE FALSE
      BY <2>2
    <3>1. s * (d - q) <= s * (-1)
      BY <1>1, <2>2, Times
    <3>2. (x - m) - y <= -s
      BY <1>1, <2>2, <3>1
    <3> QED
      BY <1>1, <1>2, <1>4, <3>2
  <2>4. s * 0 <= s * (d - q)
    BY <1>1, <2>2, <2>3, Times
  <2> QED
    BY <1>1, <1>2, <2>2, <2>4
<1> HIDE DEF m
<1> QED
  BY <1>1, <1>2, <1>3, <1>4

LEMMA GlobIs ==
  ASSUME NEW r, IsRegion(r)
  PROVE  GlobLo(r) \in Int /\ GlobHi(r) \in Int
<1>1. r.lo \in Int /\ r.hi \in Int
  BY DEF IsRegion
<1> QED
  BY <1>1, SnapUpLeast, SnapDnMost DEF GlobLo, GlobHi

\* What _SetMyBlock gives processor l of a region: the indices between the
\* ends of its block, the first and the last processor those beyond it too.
LEMMA SetMyBlockIs ==
  ASSUME NEW r, IsRegion(r), NEW d, NEW l, NEW distlo, NEW disthi,
         l = 0 \/ distlo \in Int, l = d.size - 1 \/ disthi \in Int,
         NEW x \in Int, On(x, r)
  PROVE  LET b == SetMyBlock(r, d, l, distlo, disthi)
         IN x \in b.lo..b.hi <=> /\ x \in GlobLo(r)..GlobHi(r)
                                 /\ l = 0 \/ x >= distlo
                                 /\ l = d.size - 1 \/ x <= disthi
<1> DEFINE lo == GlobLo(r)
           hi == GlobHi(r)
           beg == l = 0
           end == l = d.size - 1
           mylo == IF lo < distlo /\ ~beg THEN SnapUp(distlo, r) ELSE lo
           myhi == IF hi > disthi /\ ~end THEN SnapDn(disthi, r) ELSE hi
           b == SetMyBlock(r, d, l, distlo, disthi)
           none == \/ lo > disthi /\ ~end
                   \/ hi < distlo /\ ~beg
                   \/ mylo > myhi
<1>1. lo \in Int /\ hi \in Int
  BY GlobIs
<1>2. b = IF none THEN Empty ELSE Interval(mylo, myhi)
  BY DEF SetMyBlock
<1>3. mylo \in Int /\ (x >= mylo <=> x >= lo /\ (beg \/ x >= distlo))
  <2>1. CASE lo < distlo /\ ~beg
    <3>1. distlo \in Int /\ mylo = SnapUp(distlo, r)
      BY <2>1
    <3>2. SnapUp(distlo, r) \in Int /\ (x >= SnapUp(distlo, r) <=> x >= distlo)
      BY <3>1, SnapUpLeast
    <3> HIDE DEF lo, mylo
    <3> QED
      BY <1>1, <2>1, <3>1, <3>2
  <2>2. CASE ~(lo < distlo /\ ~beg)
    <3>1. mylo = lo
      BY <2>2
    <3>2. beg \/ distlo \in Int
      OBVIOUS
    <3> HIDE DEF lo, mylo
    <3> QED
      BY <1>1, <2>2, <3>1, <3>2
  <2> QED
    BY <2>1, <2>2
<1>4. myhi \in Int /\ (x <= myhi <=> x <= hi /\ (end \/ x <= disthi))
  <2>1. CASE hi > disthi /\ ~end
    <3>1. disthi \in Int /\ myhi = SnapDn(disthi, r)
      BY <2>1
    <3>2. SnapDn(disthi, r) \in Int /\ (x <= SnapDn(disthi, r) <=> x <= disthi)
      BY <3>1, SnapDnMost
    <3> HIDE DEF hi, myhi
    <3> QED
      BY <1>1, <2>1, <3>1, <3>2
  <2>2. CASE ~(hi > disthi /\ ~end)
    <3>1. myhi = hi
      BY <2>2
    <3>2. end \/ disthi \in Int
      OBVIOUS
    <3> HIDE DEF hi, myhi
    <3> QED
      BY <1>1, <2>2, <3>1, <3>2
  <2> QED
    BY <2>1, <2>2
<1> HIDE DEF lo, hi, mylo, myhi, b
<1>5. CASE ~none
  BY <1>1, <1>2, <1>3, <1>4, <1>5 DEF Interval, lo, hi, b
<1>6. CASE none
  <2>1. ~(x \in b.lo..b.hi)
    BY <1>2, <1>6 DEF Empty, Interval
  <2>2. ~(/\ x >= lo /\ x <= hi
          /\ beg \/ x >= distlo
          /\ end \/ x <= disthi)
    <3>1. beg \/ distlo \in Int
      OBVIOUS
    <3>2. end \/ disthi \in Int
      OBVIOUS
    <3> HIDE DEF beg, end
    <3> QED
      BY <1>1, <1>3, <1>4, <1>6, <3>1, <3>2
  <2> QED
    BY <1>1, <2>1, <2>2 DEF lo, hi, b
<1> QED
  BY <1>5, <1>6

\* What _InitRegionCore gives processor l of a region are the indices that
\* _DIST_TO_PROC maps to l.
LEMMA MyBlockIs ==
  ASSUME NEW r, IsRegion(r), NEW d, IsDist(d), NEW l \in 0..(d.size - 1),
         NEW x \in Int, On(x, r)
  PROVE  x \in MyBlock(r, d, l).lo..MyBlock(r, d, l).hi
           <=> x \in GlobLo(r)..GlobHi(r) /\ Place(d, x) = l
<1> DEFINE lo == GlobLo(r)
           hi == GlobHi(r)
           min == Place(d, lo)
           max == IF ToProc(d, lo) >= d.size THEN min ELSE Place(d, hi)
           b == MyBlock(r, d, l)
<1>1. lo \in Int /\ hi \in Int
  BY GlobIs
<1>2. b = IF min # max THEN SetMyBlock(r, d, l, MyLo(d, l), MyHi(d, l))
          ELSE IF min = l THEN Interval(lo, hi) ELSE Empty
  BY DEF MyBlock
<1>3. CASE min # max
  <2>1. l = 0 \/ MyLo(d, l) \in Int
    <3> SUFFICES ASSUME l # 0 PROVE MyLo(d, l) \in Int
      OBVIOUS
    <3>1. l \in 1..(d.size - 1) /\ 0 \in Int
      BY DEF IsDist
    <3> QED
      BY <3>1, PlaceFrom
  <2>2. l = d.size - 1 \/ MyHi(d, l) \in Int
    <3> SUFFICES ASSUME l # d.size - 1 PROVE MyHi(d, l) \in Int
      OBVIOUS
    <3>1. l \in 0..(d.size - 2)
      BY DEF IsDist
    <3> QED
      BY <3>1, MyHiIs
  <2>3. x \in b.lo..b.hi <=> /\ x \in lo..hi
                             /\ l = 0 \/ x >= MyLo(d, l)
                             /\ l = d.size - 1 \/ x <= MyHi(d, l)
    <3>1. b = SetMyBlock(r, d, l, MyLo(d, l), MyHi(d, l))
      BY <1>2, <1>3
    <3> HIDE DEF b
    <3> QED
      BY <2>1, <2>2, <3>1, SetMyBlockIs
  <2>4. Place(d, x) = l <=> /\ l = 0 \/ x >= MyLo(d, l)
                            /\ l = d.size - 1 \/ x <= MyHi(d, l)
    BY PlaceIs
  <2> QED
    BY <2>3, <2>4
<1>4. CASE min = max
  <2>1. ASSUME x \in lo..hi PROVE Place(d, x) = min
    <3>1. min <= Place(d, x) /\ Place(d, x) <= Place(d, hi)
      BY <1>1, <2>1, PlaceMonotone
    <3>2. /\ Place(d, x) \in 0..(d.size - 1) /\ Place(d, hi) \in 0..(d.size - 1)
          /\ min \in 0..(d.size - 1) /\ ToProc(d, lo) \in Int
      BY <1>1, PlaceIn
    <3>3. d.size \in Nat \ {0}
      BY DEF IsDist
    <3>4. CASE ToProc(d, lo) >= d.size
      <4>1. min = d.size - 1
        BY <3>2, <3>3, <3>4 DEF Place, Clamp
      <4> HIDE DEF min
      <4> QED
        BY <3>1, <3>2, <3>3, <4>1
    <3>5. CASE ~(ToProc(d, lo) >= d.size)
      <4>1. min = Place(d, hi)
        BY <1>4, <3>5
      <4> HIDE DEF min
      <4> QED
        BY <3>1, <3>2, <3>3, <4>1
    <3> QED
      BY <3>4, <3>5
  <2>2. CASE min = l
    <3>1. b.lo = lo /\ b.hi = hi
      BY <1>2, <1>4, <2>2 DEF Interval
    <3> HIDE DEF b, lo, hi
    <3> QED
      BY <2>1, <2>2, <3>1 DEF b, lo, hi
  <2>3. CASE min # l
    <3>1. b.lo = 0 /\ b.hi = -1
      BY <1>2, <1>4, <2>3 DEF Empty, Interval
    <3>2. ~(x \in b.lo..b.hi)
      <4> HIDE DEF b
      <4> QED
        BY <3>1
    <3> QED
      BY <2>1, <2>3, <3>2
  <2> QED
    BY <2>2, <2>3
<1> QED
  BY <1>3, <1>4

-----------------------------------------------------------------------------
(* The processors of the grid                                              *)

LEMMA BoxIs ==
  ASSUME NEW reg, NEW b, NEW x
  PROVE  x \in Box(reg, b) <=>
           /\ x \in [1..Len(reg) -> Int]
           /\ \A i \in 1..Len(reg) : x[i] \in b[i].lo..b[i].hi /\ On(x[i], reg[i])
<1>1. ASSUME x \in Box(reg, b)
      PROVE  /\ x \in [1..Len(reg) -> Int]
             /\ \A i \in 1..Len(reg) : x[i] \in b[i].lo..b[i].hi /\ On(x[i], reg[i])
  BY <1>1 DEF Box, On
<1>2. ASSUME x \in [1..Len(reg) -> Int],
             \A i \in 1..Len(reg) : x[i] \in b[i].lo..b[i].hi /\ On(x[i], reg[i])
      PROVE  x \in Box(reg, b)
  BY <1>2 DEF Box, On
<1> QED
  BY <1>1, <1>2

\* The regions of a scenario.
Regions(s) == {s.arrs[a].reg : a \in 1..Len(s.arrs)} \cup {s.stmts[i].reg : i \in 1..Len(s.stmts)}

LEMMA ProcIs ==
  ASSUME IsScenario(sc), NEW p
  PROVE  p \in Proc <=> /\ p \in [1..Len(sc.grid) -> Int]
                        /\ \A i \in 1..Len(sc.grid) : p[i] \in 0..(sc.grid[i] - 1)
<1>1. Len(sc.grid) \in Nat /\ \A i \in 1..Len(sc.grid) : sc.grid[i] \in Nat \ {0}
  BY DEF IsScenario
<1>2. ASSUME p \in Proc
      PROVE  /\ p \in [1..Len(sc.grid) -> Int]
             /\ \A i \in 1..Len(sc.grid) : p[i] \in 0..(sc.grid[i] - 1)
  <2>1. /\ p \in [1..Len(sc.grid) -> UNION {0..(sc.grid[i] - 1) : i \in 1..Len(sc.grid)}]
        /\ \A i \in 1..Len(sc.grid) : p[i] < sc.grid[i]
    BY <1>2 DEF Proc
  <2>2. \A i \in 1..Len(sc.grid) : p[i] \in Nat
    BY <1>1, <2>1
  <2>3. \A i \in 1..Len(sc.grid) : p[i] \in 0..(sc.grid[i] - 1)
    BY <1>1, <2>1, <2>2
  <2>4. p \in [1..Len(sc.grid) -> Int]
    BY <2>1, <2>2
  <2> QED
    BY <2>3, <2>4
<1>3. ASSUME p \in [1..Len(sc.grid) -> Int],
             \A i \in 1..Len(sc.grid) : p[i] \in 0..(sc.grid[i] - 1)
      PROVE  p \in Proc
  <2>1. \A i \in 1..Len(sc.grid) : p[i] < sc.grid[i]
    BY <1>1, <1>3
  <2>2. p \in [1..Len(sc.grid) -> UNION {0..(sc.grid[i] - 1) : i \in 1..Len(sc.grid)}]
    BY <1>3
  <2> QED
    BY <2>1, <2>2 DEF Proc
<1> QED
  BY <1>2, <1>3

\* What p computes of a region, if it computes any of it, are the indices that
\* the distributions map to p in every dimension.
LEMMA OwnIs ==
  ASSUME IsScenario(sc), NEW reg \in Regions(sc), NEW p \in Proc, NEW x
  PROVE  x \in Own(p, reg) <=>
           /\ ~Beyond(p, Len(reg))
           /\ x \in All(reg)
           /\ \A i \in 1..Len(reg) : p[i] = Place(sc.dist[i], x[i])
<1> DEFINE n == Len(reg)
           mine == [i \in 1..n |-> MyBlock(reg[i], sc.dist[i], p[i])]
           whole == [i \in 1..n |-> Interval(GlobLo(reg[i]), GlobHi(reg[i]))]
<1>1. /\ n \in 0..Len(sc.grid) /\ Len(sc.grid) \in Nat
      /\ \A i \in 1..n : IsRegion(reg[i]) /\ IsDist(sc.dist[i]) /\ p[i] \in 0..(sc.dist[i].size - 1)
  <2>1. n \in 0..Len(sc.grid) /\ Len(sc.grid) \in Nat /\ \A i \in 1..n : IsRegion(reg[i])
    BY DEF IsScenario, Regions
  <2>2. \A i \in 1..Len(sc.grid) : IsDist(sc.dist[i]) /\ p[i] \in 0..(sc.dist[i].size - 1)
    BY ProcIs DEF IsScenario
  <2> QED
    BY <2>1, <2>2
<1>2. ASSUME x \in [1..n -> Int], \A i \in 1..n : On(x[i], reg[i])
      PROVE  \A i \in 1..n : x[i] \in mine[i].lo..mine[i].hi <=>
               x[i] \in whole[i].lo..whole[i].hi /\ Place(sc.dist[i], x[i]) = p[i]
  <2> TAKE i \in 1..n
  <2>1. /\ mine[i] = MyBlock(reg[i], sc.dist[i], p[i])
        /\ whole[i].lo = GlobLo(reg[i]) /\ whole[i].hi = GlobHi(reg[i])
    BY DEF Interval
  <2>2. x[i] \in Int /\ On(x[i], reg[i])
    BY <1>2
  <2> HIDE DEF mine, whole
  <2> QED
    BY <1>1, <2>1, <2>2, MyBlockIs
<1>3. Own(p, reg) = IF Beyond(p, n) THEN {} ELSE Box(reg, mine)
  BY DEF Own
<1>4. All(reg) = Box(reg, whole)
  BY DEF All
<1> HIDE DEF mine, whole
<1>5. x \in Box(reg, mine) <=> /\ x \in [1..n -> Int]
        /\ \A i \in 1..n : x[i] \in mine[i].lo..mine[i].hi /\ On(x[i], reg[i])
  BY BoxIs
<1>6. x \in Box(reg, whole) <=> /\ x \in [1..n -> Int]
        /\ \A i \in 1..n : x[i] \in whole[i].lo..whole[i].hi /\ On(x[i], reg[i])
  BY BoxIs
<1>7. x \in Box(reg, mine) <=>
        x \in Box(reg, whole) /\ \A i \in 1..n : p[i] = Place(sc.dist[i], x[i])
  BY <1>2, <1>5, <1>6
<1> QED
  BY <1>3, <1>4, <1>7

-----------------------------------------------------------------------------
\* The scenario is never changed.
LEMMA ScenarioKept == Spec => [](sc \in Scenarios)
<1>1. Init => sc \in Scenarios
  BY DEF Init
<1>2. sc \in Scenarios /\ [Next]_vars => (sc \in Scenarios)'
  <2> SUFFICES ASSUME [Next]_vars PROVE sc' = sc
    OBVIOUS
  <2>1. CASE Next
    <3>1. PICK p \in Proc, c \in Cid, s \in 1..Len(sc.stmts) :
            \/ Write(p, c, s) \/ New(p, c, s) \/ DR(p, c, s)
            \/ SR(p, c, s) \/ DN(p, c, s) \/ Old(p, c, s)
      BY <2>1 DEF Next, Step
    <3>2. Return(p)
      <4>1. CASE Write(p, c, s)
        BY <4>1 DEF Write
      <4>2. CASE New(p, c, s)
        BY <4>2 DEF New
      <4>3. CASE DR(p, c, s)
        BY <4>3 DEF DR
      <4>4. CASE SR(p, c, s)
        BY <4>4 DEF SR
      <4>5. CASE DN(p, c, s)
        BY <4>5 DEF DN
      <4>6. CASE Old(p, c, s)
        BY <4>6 DEF Old
      <4> QED
        BY <3>1, <4>1, <4>2, <4>3, <4>4, <4>5, <4>6
    <3> QED
      BY <3>2 DEF Return
  <2>2. CASE UNCHANGED vars
    BY <2>2 DEF vars
  <2> QED
    BY <2>1, <2>2
<1> QED
  BY <1>1, <1>2, PTL DEF Spec

\* Each index of a region, in any number of dimensions, belongs to one
\* processor of the grid and to no other: the blocks of region.c and the
\* owners of distribution.c, which are computed by different formulas, agree,
\* whatever the grid, the distributions, the bounds and the strides are.
THEOREM Partitioned == Spec => []RegionPartitioned
<1>1. ASSUME sc \in Scenarios PROVE RegionPartitioned
  <2>1. IsScenario(sc)
    BY <1>1, ScenariosAssumption
  <2>2. ASSUME NEW reg \in Regions(sc)
        PROVE  /\ UNION {Own(p, reg) : p \in Proc} = All(reg)
               /\ \A p \in Proc : \A x \in Own(p, reg) :
                    \A i \in 1..Len(reg) : p[i] = Place(sc.dist[i], x[i])
    <3>1. ASSUME NEW p \in Proc, NEW x \in Own(p, reg)
          PROVE  x \in All(reg) /\ \A i \in 1..Len(reg) : p[i] = Place(sc.dist[i], x[i])
      BY <2>1, <2>2, <3>1, OwnIs
    <3>2. ASSUME NEW x \in All(reg) PROVE \E p \in Proc : x \in Own(p, reg)
      <4> DEFINE n == Len(reg)
                 p == [i \in 1..Len(sc.grid) |-> IF i <= n THEN Place(sc.dist[i], x[i]) ELSE 0]
      <4>1. /\ n \in 0..Len(sc.grid) /\ Len(sc.grid) \in Nat
            /\ \A i \in 1..Len(sc.grid) : /\ IsDist(sc.dist[i]) /\ sc.dist[i].size = sc.grid[i]
                                          /\ sc.grid[i] \in Nat \ {0}
        BY <2>1, <2>2 DEF IsScenario, Regions
      <4>2. \A i \in 1..n : x[i] \in Int
        BY BoxIs DEF All
      <4>3. \A i \in 1..Len(sc.grid) : p[i] \in 0..(sc.grid[i] - 1)
        <5> TAKE i \in 1..Len(sc.grid)
        <5>1. CASE i <= n
          <6>1. x[i] \in Int /\ IsDist(sc.dist[i]) /\ sc.dist[i].size = sc.grid[i]
            BY <4>1, <4>2, <5>1
          <6>2. p[i] = Place(sc.dist[i], x[i])
            BY <5>1
          <6> QED
            BY <6>1, <6>2, PlaceIn
        <5>2. CASE ~(i <= n)
          <6>1. p[i] = 0 /\ sc.grid[i] \in Nat \ {0}
            BY <4>1, <5>2
          <6> HIDE DEF p
          <6> QED
            BY <6>1
        <5> QED
          BY <5>1, <5>2
      <4>4. p \in [1..Len(sc.grid) -> Int]
        <5>1. p = [i \in 1..Len(sc.grid) |-> p[i]] /\ \A i \in 1..Len(sc.grid) : p[i] \in Int
          BY <4>3
        <5> HIDE DEF p
        <5> QED
          BY <5>1
      <4>5. p \in Proc
        <5> HIDE DEF p
        <5> QED
          BY <2>1, <4>3, <4>4, ProcIs
      <4>6. ~Beyond(p, n)
        <5>1. \A i \in (n + 1)..Len(sc.grid) : p[i] = 0
          BY <4>1
        <5> HIDE DEF p
        <5> QED
          BY <5>1 DEF Beyond
      <4>7. \A i \in 1..n : p[i] = Place(sc.dist[i], x[i])
        BY <4>1
      <4> HIDE DEF p
      <4>8. x \in Own(p, reg)
        BY <2>1, <4>5, <4>6, <4>7, OwnIs
      <4> QED
        BY <4>5, <4>8
    <3> QED
      BY <3>1, <3>2
  <2> QED
    BY <2>2 DEF RegionPartitioned, Regions, Arrays
<1> QED
  BY <1>1, ScenarioKept, PTL
=============================================================================
