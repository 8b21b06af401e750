------------------------------ MODULE AtComm ------------------------------
(***************************************************************************)
(* The layer of the runtime that turns a reference A@d into communication  *)
(* (src/at_comm.c).  When a communication begins (_AtComm_New) every       *)
(* processor works out alone, from the bounds, which ghost cells it will   *)
(* receive and which of its cells others want, for each side it may have a *)
(* neighbour on.  It hands one pair of descriptions for each side to       *)
(* IRONMAN, and keeps apart what it must copy from itself to itself.       *)
(*                                                                         *)
(* A scenario is a program on a grid: the arrays, the statements with      *)
(* shifted references, and the calls that all processors make.  WRITE      *)
(* stands for the computation that writes the array before the call SR; an *)
(* element is known by its index and by the number of that computation.    *)
(*                                                                         *)
(* IRONMAN is what Ironman.tla promises of it: the k-th description of an  *)
(* instance is sent by SR and has arrived when DN returns.  Between DR and *)
(* DN nothing here looks at what it stores, so DN stores it.               *)
(***************************************************************************)
EXTENDS AtRect, FiniteSets, SequencesExt

CONSTANT Scenarios

\* A region has a distribution in each of its dimensions, over the processors
\* that the grid has there.
IsScenario(s) ==
  /\ s.grid \in Seq(Nat \ {0})
  /\ \A i \in 1..Len(s.grid) : IsDist(s.dist[i]) /\ s.dist[i].size = s.grid[i]
  /\ \A reg \in {s.arrs[a].reg : a \in 1..Len(s.arrs)}
                 \cup {s.stmts[i].reg : i \in 1..Len(s.stmts)} :
       /\ Len(reg) \in 0..Len(s.grid)
       /\ \A i \in 1..Len(reg) : IsRegion(reg[i])

ASSUME ScenariosAssumption == \A s \in Scenarios : IsScenario(s)

VARIABLES
  sc,         \* the scenario
  pos,        \* pos[p]: the calls processor p has returned from
  im,         \* IM_COMMBANK: im[p][c], the pairs p gives to IRONMAN
  at,         \* AT_COMMBANK: at[p][c], the pairs p copies itself
  recvready,  \* recvready[p][c], sendready[p][c]: the pairs of at[p][c]
  sendready,  \*   of which only DR, only SR has been called
  net,        \* net[p][q]: what IRONMAN carries from p to q
  mem         \* mem[p][a]: the elements of array a that p has memory for

vars == <<sc, pos, im, at, recvready, sendready, net, mem>>

-----------------------------------------------------------------------------
(* The scenario: grid, sizes of its dimensions; dist, their distributions; *)
(* arrs, for each array its region, the width of its ghost areas and       *)
(* whether it wraps; stmts, for each statement its region and the shifted  *)
(* references in it; calls, <<op, id, statement>>.                         *)

\* The processors, by their place in the grid.
Proc == {p \in [1..Len(sc.grid) -> UNION {0..(sc.grid[i] - 1) : i \in 1..Len(sc.grid)}] :
           \A i \in 1..Len(sc.grid) : p[i] < sc.grid[i]}
Cid == {sc.calls[i][2] : i \in 1..Len(sc.calls)}
Arrays == 1..Len(sc.arrs)

\* A processor beyond the rank of a region in the grid has nothing of it.
Beyond(p, rank) == \E i \in (rank + 1)..Len(sc.grid) : p[i] # 0

\* The indices lo .. hi, in every dimension, with the strides of reg.
Box(reg, b) ==
  {x \in [1..Len(reg) -> UNION {b[i].lo..b[i].hi : i \in 1..Len(reg)}] :
     \A i \in 1..Len(reg) :
       x[i] \in b[i].lo..b[i].hi /\ (x[i] - reg[i].align) % reg[i].stride = 0}

\* _REG_MYLO, _REG_MYHI: what p computes of a region.
Own(p, reg) ==
  IF Beyond(p, Len(reg)) THEN {}
  ELSE Box(reg, [i \in 1..Len(reg) |-> MyBlock(reg[i], sc.dist[i], p[i])])

\* The region itself.
All(reg) ==
  Box(reg, [i \in 1..Len(reg) |-> Interval(GlobLo(reg[i]), GlobHi(reg[i]))])

\* _InitEnsembleCore: the elements p has memory for.
Allocated(p, arr) ==
  LET n == Len(arr.reg)
  IN IF \A i \in 1..n : arr.down[i] = 0 /\ arr.up[i] = 0 THEN Own(p, arr.reg)
     ELSE Box(arr.reg, [i \in 1..n |->
            EnsembleBlock(arr.reg[i], sc.dist[i], p[i], arr.down[i], arr.up[i], arr.wraps)])

\* The index that x stands for, where the array wraps around.
WrapIndex(arr, x) ==
  [i \in DOMAIN x |->
     LET r == arr.reg[i]
     IN IF ~arr.wraps \/ x[i] \in r.lo..r.hi THEN x[i]
        ELSE IF x[i] < r.lo THEN x[i] + Span(r) ELSE x[i] - Span(r)]

Shift(x, dir) == [i \in DOMAIN x |-> x[i] + dir[i]]

-----------------------------------------------------------------------------
(* _InitAtCommPerGrid: the sides, in the order in which all processors go  *)
(* through them.  First those all of whose dimensions are distributed,     *)
(* then those some of whose dimensions are, and from the end backwards     *)
(* those without communication.                                            *)
Sidevect(n, k) == [i \in 1..n |-> ((k \div 3^(n - i)) % 3) - 1]

\* Mutant: a side is distributed when all dimensions that it names are.
DistributedAll(g, v) == \A i \in 1..Len(g) : v[i] # 0 => g[i] # 1
Distributed(g, v) == \E i \in 1..Len(g) : v[i] # 0 /\ g[i] # 1
WellDistributed(g, v) == \A i \in 1..Len(g) : v[i] # 0 => g[i] # 1

Vects(g) ==
  SelectSeq([k \in 1..(3^Len(g)) |-> Sidevect(Len(g), k - 1)],
            LAMBDA v : \E i \in 1..Len(g) : v[i] # 0)
UsefulAt(g) == SelectSeq(Vects(g), LAMBDA v : Distributed(g, v) /\ WellDistributed(g, v))
UsefulWrap(g) == SelectSeq(Vects(g), LAMBDA v : Distributed(g, v) /\ ~WellDistributed(g, v))
Useless(g) == Reverse(SelectSeq(Vects(g), LAMBDA v : ~Distributed(g, v)))
Dirptr(g) == UsefulAt(g) \o UsefulWrap(g) \o Useless(g)

-----------------------------------------------------------------------------
(* _FindRect: the box that p exchanges on side v for the references info   *)
(* to one array, as the union of the boxes of its directions.  A direction *)
(* counts if no dimension comes out empty; the dimensions before an empty  *)
(* one have widened the box by then.                                       *)
Illegal == <<-1>>

\* The ranges of one direction, up to the first dimension without any.
UpToEmpty(rs) == SubSeq(rs, 1, Cardinality({i \in DOMAIN rs : \A j \in 1..i : rs[j] # NoRect}))
Ranges(p, reg, info, v, dir, wrapped, sr) ==
  UpToEmpty([i \in 1..Len(reg) |->
    IF wrapped
    THEN WrappedRect(reg[i], sc.arrs[info.arr].reg[i], sc.dist[i], p[i], v[i], dir[i], sr)
    ELSE PlainRect(reg[i], sc.dist[i], p[i], v[i], dir[i], sr)])

Widen(box, rank, rs) ==
  LET first == box.proc = <<>>
      proc == [i \in 1..Len(sc.grid) |-> IF i <= rank /\ Len(rs) = rank THEN rs[i].proc ELSE 0]
  IN [lo |-> [i \in 1..rank |-> IF i > Len(rs) THEN box.lo[i]
                ELSE IF first THEN rs[i].lo ELSE Least(box.lo[i], rs[i].lo)],
      hi |-> [i \in 1..rank |-> IF i > Len(rs) THEN box.hi[i]
                ELSE IF first THEN rs[i].hi ELSE Most(box.hi[i], rs[i].hi)],
      proc |-> IF Len(rs) < rank THEN box.proc
               ELSE IF first THEN proc
               ELSE IF proc = box.proc THEN proc ELSE Illegal]

Exchanged(p, rank, info, box) ==
  IF Beyond(p, rank) \/ (box.proc = p /\ info.numwrapdirs = 0)
  THEN [box EXCEPT !.proc = <<>>] ELSE box

FindRect(p, reg, info, v, sr) ==
  LET zero == [i \in 1..Len(reg) |-> 0]
  IN Exchanged(p, Len(reg), info,
       FoldLeft(LAMBDA box, k :
                  Widen(box, Len(reg),
                        Ranges(p, reg, info, v, info.dirs[k], k <= info.numwrapdirs, sr)),
                [lo |-> zero, hi |-> zero, proc |-> <<>>],
                [k \in 1..Len(info.dirs) |-> k]))

\* _SetupDenseMemInfo: the elements of arr in the box, in row-major order.
MemInfo(info, box) ==
  LET reg == sc.arrs[info.arr].reg
      rank == Len(reg)
      lo == [i \in 1..rank |-> SnapUp(box.lo[i], reg[i])]
      hi == [i \in 1..rank |-> SnapDn(box.hi[i], reg[i])]
  IN [arr |-> info.arr, lo |-> lo,
      stride |-> [i \in 1..rank |-> reg[i].stride],
      num |-> [i \in 1..rank |-> IF lo[i] > hi[i] THEN 0
                                 ELSE (hi[i] - lo[i]) \div reg[i].stride + 1]]

HasData(b) == \A i \in DOMAIN b.num : b.num[i] > 0

\* _SetupCommInfo: the description of one side, a block for each array.
NoInfo == [proc |-> <<>>, blocks |-> <<>>]
AddBlock(acc, proc, block) ==
  IF proc = <<>> \/ ~HasData(block) THEN acc
  ELSE [proc |-> IF acc.blocks = <<>> \/ acc.proc = proc THEN proc ELSE Illegal,
        blocks |-> Append(acc.blocks, block)]
AddBox(acc, info, box) == AddBlock(acc, box.proc, MemInfo(info, box))
SetupCommInfo(p, reg, infos, v, sr) ==
  FoldLeft(LAMBDA acc, info : AddBox(acc, info, FindRect(p, reg, info, v, sr)), NoInfo, infos)

\* COMM_NON, COMM_REM, COMM_LCL
Kind(p, info) ==
  IF info.blocks = <<>> THEN "NON" ELSE IF info.proc = p THEN "LCL" ELSE "REM"
-----------------------------------------------------------------------------
(* _AtComm_New                                                             *)

NumUsefulAt == Len(UsefulAt(sc.grid))
MaxWrapDirs == IF \E a \in Arrays : sc.arrs[a].wraps THEN 1 ELSE 0
NumUsefulComm == NumUsefulAt + MaxWrapDirs * Len(UsefulWrap(sc.grid))

\* A direction belongs to the sides that lie in it.
Compatible(v, dir) == \A i \in DOMAIN dir : v[i] # 0 => v[i] * dir[i] > 0

\* The references that need side k: those that wrap on every side, the others
\* where all dimensions of the side are distributed.
SideInfos(k, refs) ==
  LET v == Dirptr(sc.grid)[k]
      wraps(r) == SelectSeq(SubSeq(r.dirs, 1, r.numwrapdirs), LAMBDA d : Compatible(v, d))
      plain(r) == IF k > NumUsefulAt THEN <<>>
                  ELSE SelectSeq(SubSeq(r.dirs, r.numwrapdirs + 1, Len(r.dirs)),
                                 LAMBDA d : Compatible(v, d))
      infos == [i \in 1..Len(refs) |->
                  [arr |-> refs[i].arr, lhscomm |-> refs[i].lhscomm,
                   dirs |-> wraps(refs[i]) \o plain(refs[i]),
                   numwrapdirs |-> Len(wraps(refs[i]))]]
  IN SelectSeq(infos, LAMBDA info : info.dirs # <<>>)

\* Both descriptions of side k; for a shift on the left they change places.
SidePair(p, stmt, k) ==
  LET infos == SideInfos(k, stmt.refs)
      v == Dirptr(sc.grid)[k]
      left == infos[1].lhscomm
  IN [recv |-> SetupCommInfo(p, stmt.reg, infos, v, IF left THEN "SEND" ELSE "RECV"),
      send |-> SetupCommInfo(p, stmt.reg, infos, v, IF left THEN "RECV" ELSE "SEND")]

\* The sides that may lead to other processors, and all others, as far as the
\* statement needs them.
SidesOf(stmt) ==
  LET used == {k \in 1..Len(Dirptr(sc.grid)) : SideInfos(k, stmt.refs) # <<>>}
      haswrap == \E k \in used : /\ k \in (NumUsefulAt + 1)..NumUsefulComm
                                 /\ \E i \in 1..Len(SideInfos(k, stmt.refs)) :
                                      SideInfos(k, stmt.refs)[i].numwrapdirs > 0
      hi == IF haswrap THEN NumUsefulComm ELSE NumUsefulAt
      inorder(S) == SetToSortSeq(S, LAMBDA a, b : a < b)
  IN [comm |-> inorder({k \in used : k <= hi}), local |-> inorder({k \in used : k > hi})]

NoPair == [recv |-> NoInfo, send |-> NoInfo]

\* Mutant: a side that is local here is not counted.
GivenRemote(p, old, pairs) == SelectSeq(pairs, LAMBDA pr : Kind(p, pr.recv) # "LCL")
\* What IRONMAN is given for the sides: nothing is written to a slot for what
\* is missing, and to none where the side is local; yet each side has a slot,
\* as a side that is local here may be nothing elsewhere.
Given(p, old, pairs) ==
  [k \in 1..Len(pairs) |->
     LET before == IF k <= Len(old) THEN old[k] ELSE NoPair
         kind == Kind(p, pairs[k].recv)
     IN [recv |-> IF kind = "REM" THEN pairs[k].recv ELSE before.recv,
         send |-> IF kind # "LCL" /\ pairs[k].send.blocks # <<>> THEN pairs[k].send
                  ELSE before.send]]
-----------------------------------------------------------------------------
\* Copying: the elements of a block by their offsets from its corner.
Offsets(b) ==
  {o \in [DOMAIN b.num -> UNION {0..(b.num[i] - 1) : i \in DOMAIN b.num}] :
     \A i \in DOMAIN b.num : o[i] < b.num[i]}
Cell(b, o) == [i \in DOMAIN o |-> b.lo[i] + o[i] * b.stride[i]]
Cells(b) == {Cell(b, o) : o \in Offsets(b)}

\* What p finds in block b, and the memory m after w was stored in block b.
Garbage(x) == [ind |-> x, ver |-> -1]
Fetch(p, b) ==
  [o \in Offsets(b) |-> IF Cell(b, o) \in DOMAIN mem[p][b.arr]
                        THEN mem[p][b.arr][Cell(b, o)] ELSE Garbage(Cell(b, o))]
Store(m, b, w) ==
  [m EXCEPT ![b.arr] =
     [x \in DOMAIN @ |->
        IF \E o \in Offsets(b) \cap DOMAIN w : Cell(b, o) = x
        THEN w[CHOOSE o \in Offsets(b) \cap DOMAIN w : Cell(b, o) = x] ELSE @[x]]]

FetchAll(p, info) == [i \in 1..Len(info.blocks) |-> Fetch(p, info.blocks[i])]
StoreAll(m, info, ws) ==
  FoldLeft(LAMBDA acc, i : Store(acc, info.blocks[i], ws[i]), m,
           [i \in 1..Least(Len(info.blocks), Len(ws)) |-> i])

\* _LocalComm for the pairs K of at[p][c].
LocalComm(p, c, m, K) ==
  FoldLeft(LAMBDA acc, i : StoreAll(acc, at[p][c][i].recv, FetchAll(p, at[p][c][i].send)),
           m, SetToSortSeq(K, LAMBDA a, b : a < b))

-----------------------------------------------------------------------------
Running(p) == pos[p] < Len(sc.calls)
At(p, op, c, s) == Running(p) /\ sc.calls[pos[p] + 1] = <<op, c, s>>
Return(p) == pos' = [pos EXCEPT ![p] = @ + 1] /\ UNCHANGED sc

InitMem(p, a) == [x \in Allocated(p, sc.arrs[a]) |-> [ind |-> x, ver |-> 0]]

Init ==
  /\ sc \in Scenarios
  /\ pos = [p \in Proc |-> 0]
  /\ im = [p \in Proc |-> [c \in Cid |-> <<>>]]
  /\ at = [p \in Proc |-> [c \in Cid |-> <<>>]]
  /\ recvready = [p \in Proc |-> [c \in Cid |-> {}]]
  /\ sendready = [p \in Proc |-> [c \in Cid |-> {}]]
  /\ net = [p \in Proc |-> [q \in Proc |-> <<>>]]
  /\ mem = [p \in Proc |-> [a \in Arrays |-> InitMem(p, a)]]

\* The cells p writes for statement s: its own of the arrays that are read, or,
\* for a shift on the left, those that the statement assigns to.
Written(p, s, a) ==
  LET stmt == sc.stmts[s]
      refs == {stmt.refs[i] : i \in 1..Len(stmt.refs)}
  IN UNION {IF ref.arr # a THEN {}
            ELSE IF ref.lhscomm
            THEN {Shift(x, ref.dirs[k]) : x \in Own(p, stmt.reg), k \in 1..Len(ref.dirs)}
            ELSE Own(p, sc.arrs[a].reg) : ref \in refs}

\* p computes the elements that statement s is about.
Write(p, c, s) ==
  /\ At(p, "WRITE", c, s)
  /\ mem' = [mem EXCEPT ![p] = [a \in Arrays |->
       [x \in DOMAIN @[a] |->
          IF x \in Written(p, s, a)
          THEN [ind |-> WrapIndex(sc.arrs[a], x), ver |-> pos[p] + 1] ELSE @[a][x]]]]
  /\ Return(p)
  /\ UNCHANGED <<im, at, recvready, sendready, net>>

\* _AtComm_New.  Where several processors would be at the other end of a side
\* the program ends with an error: the pair is then marked Illegal.
SidePairs(p, stmt, ks) == [i \in 1..Len(ks) |-> SidePair(p, stmt, ks[i])]
Hand(p, c, comm, local) ==
  /\ im' = [im EXCEPT ![p][c] = Given(p, @, comm)]
  /\ at' = [at EXCEPT ![p][c] =
       SelectSeq(comm, LAMBDA pr : Kind(p, pr.recv) = "LCL")
       \o SelectSeq(local, LAMBDA pr : Kind(p, pr.recv) # "NON")]
New(p, c, s) ==
  LET sides == SidesOf(sc.stmts[s])
  IN /\ At(p, "NEW", c, s)
     /\ Hand(p, c, SidePairs(p, sc.stmts[s], sides.comm), SidePairs(p, sc.stmts[s], sides.local))
     /\ Return(p)
     /\ UNCHANGED <<recvready, sendready, net, mem>>

\* _AtComm_DR: IM_DR, and the local copies whose SR has come.
DR(p, c, s) ==
  LET ready == sendready[p][c] \cap (1..Len(at[p][c]))
  IN /\ At(p, "DR", c, s)
     /\ mem' = [mem EXCEPT ![p] = LocalComm(p, c, @, ready)]
     /\ sendready' = [sendready EXCEPT ![p][c] = @ \ ready]
     /\ recvready' = [recvready EXCEPT ![p][c] = @ \cup ((1..Len(at[p][c])) \ ready)]
     /\ Return(p)
     /\ UNCHANGED <<im, at, net>>

\* What IM_SR sends: the k-th description of c.
Message(p, c, k) == [id |-> <<c, k>>, data |-> FetchAll(p, im[p][c][k].send)]

\* _AtComm_SR: IM_SR, and the local copies whose DR has come.
SR(p, c, s) ==
  LET ready == recvready[p][c] \cap (1..Len(at[p][c]))
      sends(q) == SelectSeq([k \in 1..Len(im[p][c]) |-> k], LAMBDA k : im[p][c][k].send.proc = q)
  IN /\ At(p, "SR", c, s)
     /\ net' = [net EXCEPT ![p] = [q \in Proc |->
          @[q] \o [i \in 1..Len(sends(q)) |-> Message(p, c, sends(q)[i])]]]
     /\ mem' = [mem EXCEPT ![p] = LocalComm(p, c, @, ready)]
     /\ recvready' = [recvready EXCEPT ![p][c] = @ \ ready]
     /\ sendready' = [sendready EXCEPT ![p][c] = @ \cup ((1..Len(at[p][c])) \ ready)]
     /\ Return(p)
     /\ UNCHANGED <<im, at>>

Receives(p, c) == {k \in 1..Len(im[p][c]) : im[p][c][k].recv.blocks # <<>>}
Source(p, c, k) == im[p][c][k].recv.proc
Arrived(p, c, k) ==
  {i \in 1..Len(net[Source(p, c, k)][p]) : net[Source(p, c, k)][p][i].id = <<c, k>>}
FirstArrived(p, c, k) == CHOOSE i \in Arrived(p, c, k) : \A j \in Arrived(p, c, k) : i <= j

\* _AtComm_DN: IM_DN waits for what is expected, which is stored by then.
DN(p, c, s) ==
  LET first(k) == FirstArrived(p, c, k)
      taken(q) == {first(k) : k \in {j \in Receives(p, c) : Source(p, c, j) = q}}
  IN /\ At(p, "DN", c, s)
     /\ \A k \in Receives(p, c) : Arrived(p, c, k) # {}
     /\ mem' = [mem EXCEPT ![p] =
          FoldLeft(LAMBDA m, k : StoreAll(m, im[p][c][k].recv,
                                          net[Source(p, c, k)][p][first(k)].data),
                   @, SetToSortSeq(Receives(p, c), LAMBDA a, b : a < b))]
     /\ net' = [q \in Proc |-> [net[q] EXCEPT ![p] =
          [i \in 1..(Len(@) - Cardinality(taken(q))) |->
             @[SetToSortSeq((1..Len(@)) \ taken(q), LAMBDA a, b : a < b)[i]]]]]
     /\ Return(p)
     /\ UNCHANGED <<im, at, recvready, sendready>>

\* Mutant: the slots keep what was in them.
OldKeeps(pairs) == pairs
\* _AtComm_Old: IM_Old, and the slots are emptied.
Cleared(pairs) == <<>>
Old(p, c, s) ==
  /\ At(p, "OLD", c, s)
  /\ im' = [im EXCEPT ![p][c] = Cleared(@)]
  /\ Return(p)
  /\ UNCHANGED <<at, recvready, sendready, net, mem>>

Step(p) == \E c \in Cid, s \in 1..Len(sc.stmts) :
  Write(p, c, s) \/ New(p, c, s) \/ DR(p, c, s) \/ SR(p, c, s) \/ DN(p, c, s) \/ Old(p, c, s)

Finished == \A p \in Proc : ~Running(p)
Next == \E p \in Proc : Step(p)

Spec == Init /\ [][Next]_vars

-----------------------------------------------------------------------------
(* Properties                                                              *)

\* The calls of c that p has returned from in the instance it is in.
Began(p, c) ==
  LET calls == {i \in 1..pos[p] : sc.calls[i][1] = "NEW" /\ sc.calls[i][2] = c}
  IN IF calls = {} THEN pos[p] + 1 ELSE CHOOSE i \in calls : \A j \in calls : j <= i
Returned(p, c, op) ==
  \E i \in Began(p, c)..pos[p] : sc.calls[i][1] = op /\ sc.calls[i][2] = c
Open(p, c) == Returned(p, c, "NEW") /\ ~Returned(p, c, "OLD")
SameInstance(p, q, c) == Open(p, c) /\ Open(q, c) /\ Began(p, c) = Began(q, c)
OpenStmt(p, c) == sc.stmts[sc.calls[Began(p, c)][3]]

\* The WRITE that the elements of array a come from, when p is where it is.
Version(p, a) ==
  LET writes == {i \in 1..pos[p] : /\ sc.calls[i][1] = "WRITE"
                                  /\ \E k \in 1..Len(sc.stmts[sc.calls[i][3]].refs) :
                                       sc.stmts[sc.calls[i][3]].refs[k].arr = a}
  IN CHOOSE i \in writes \cup {0} : \A j \in writes : j <= i

Elem(a, x, v) == [ind |-> WrapIndex(sc.arrs[a], x), ver |-> v]

\* The pairs are about processors of the grid and memory that p has allocated.
TypeOK ==
  /\ sc \in Scenarios
  /\ \A p \in Proc : pos[p] \in 0..Len(sc.calls)
  /\ \A p \in Proc, c \in Cid :
       LET pairs == {im[p][c][k] : k \in 1..Len(im[p][c])}
                    \cup {at[p][c][k] : k \in 1..Len(at[p][c])}
       IN /\ recvready[p][c] \cup sendready[p][c] \subseteq 1..Len(at[p][c])
          /\ \A info \in UNION {{pr.recv, pr.send} : pr \in pairs} :
               /\ info.proc \in Proc \cup {<<>>}
               /\ \A i \in 1..Len(info.blocks) :
                    Cells(info.blocks[i]) \subseteq DOMAIN mem[p][info.blocks[i].arr]

\* Each index of a region belongs to exactly one processor, the one to which
\* _DIST_TO_PROC maps it: region.c and distribution.c compute blocks and
\* owners by different formulas.
RegionPartitioned ==
  \A reg \in {sc.arrs[a].reg : a \in Arrays} \cup {sc.stmts[s].reg : s \in 1..Len(sc.stmts)} :
    /\ UNION {Own(p, reg) : p \in Proc} = All(reg)
    /\ \A p \in Proc : \A x \in Own(p, reg) : \A i \in 1..Len(reg) : p[i] = Place(sc.dist[i], x[i])

\* Processors that are in the same communication have given IRONMAN equally
\* many pairs, and if one sends to the other in the k-th, the other receives
\* from it in the k-th as much in each array, and from nobody else: what the
\* modules of IRONMAN assume of the directions of a communication.
Pairs(p, q, k, c) ==
  LET send == im[p][c][k].send
      recv == im[q][c][k].recv
      shape(info) == [i \in 1..Len(info.blocks) |-> <<info.blocks[i].arr, info.blocks[i].num>>]
  IN (send.proc = q <=> recv.proc = p) /\ (send.proc = q => shape(send) = shape(recv))
SendsMatchReceives ==
  \A c \in Cid : \A p, q \in Proc :
    SameInstance(p, q, c) =>
      /\ Len(im[p][c]) = Len(im[q][c])
      /\ \A k \in 1..Len(im[p][c]) : Pairs(p, q, k, c)

\* From DN to OLD every element that p reads through a shift is at p, as it
\* was written last before the communication, and every element that was
\* assigned through a shift is with its owner.
NeededPresent ==
  \A p \in Proc, c \in Cid :
    Open(p, c) /\ Returned(p, c, "DN") =>
      LET stmt == OpenStmt(p, c)
      IN \A i \in 1..Len(stmt.refs) : \A k \in 1..Len(stmt.refs[i].dirs) :
           LET ref == stmt.refs[i]
               m == mem[p][ref.arr]
               arr == sc.arrs[ref.arr]
           IN IF ref.lhscomm
              THEN \A x \in All(stmt.reg) :
                     LET y == WrapIndex(arr, Shift(x, ref.dirs[k]))
                     IN y \in Own(p, arr.reg) => m[y] = Elem(ref.arr, y, Version(p, ref.arr))
              ELSE \A x \in Own(p, stmt.reg) :
                     LET y == Shift(x, ref.dirs[k])
                     IN /\ y \in DOMAIN m
                        /\ m[y] = Elem(ref.arr, y, Version(p, ref.arr))

\* In DN a processor waits only for one that has not come as far, and in the
\* end nothing is left under way: all processors come to the end.
WaitsPointBackwards ==
  /\ \A p \in Proc, c \in Cid, s \in 1..Len(sc.stmts) :
       At(p, "DN", c, s) => \A k \in Receives(p, c) :
         Arrived(p, c, k) = {} => pos[Source(p, c, k)] < pos[p]
  /\ Finished => \A p, q \in Proc : net[p][q] = <<>>
=============================================================================
