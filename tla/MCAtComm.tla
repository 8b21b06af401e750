----------------------------- MODULE MCAtComm -----------------------------
(***************************************************************************)
(* Scenarios for the runs of AtComm.                                       *)
(***************************************************************************)
EXTENDS AtComm, TLC

R(lo, hi) == [lo |-> lo, hi |-> hi, align |-> 0, stride |-> 1]
ByTwo(lo, hi, align) == [lo |-> lo, hi |-> hi, align |-> align, stride |-> 2]

Array(reg, dn, up, w) == [reg |-> reg, down |-> dn, up |-> up, wraps |-> w]
Read(a, dirs) == [arr |-> a, dirs |-> dirs, numwrapdirs |-> 0, lhscomm |-> FALSE]
ReadWrap(a, dirs) == [arr |-> a, dirs |-> dirs, numwrapdirs |-> Len(dirs), lhscomm |-> FALSE]
Assign(a, dir) == [arr |-> a, dirs |-> <<dir>>, numwrapdirs |-> 0, lhscomm |-> TRUE]

\* One instance of statement s; two of them; two statements that overlap.
One(c, s) == [i \in 1..6 |-> <<(<<"WRITE", "NEW", "DR", "SR", "DN", "OLD">>)[i], c, s>>]
\* Two communications astride each other.
Astride(s, t) ==
  <<<<"WRITE", 1, s>>, <<"NEW", 1, s>>, <<"DR", 1, s>>, <<"WRITE", 2, t>>, <<"SR", 1, s>>,
    <<"NEW", 2, t>>, <<"DR", 2, t>>, <<"SR", 2, t>>, <<"DN", 1, s>>, <<"OLD", 1, s>>,
    <<"DN", 2, t>>, <<"OLD", 2, t>>>>
Early(c, s) == [i \in 1..6 |-> <<(<<"NEW", "DR", "WRITE", "SR", "DN", "OLD">>)[i], c, s>>]

Shifts == {-1, 1}

\* One dimension over two or three processors: block, cut, goofer and fourfer
\* distributions, shifts by one either way, over some of the array or more.
Dists1 == {<<<<2>>, <<Blk(1, 5, 2)>>>>, <<<<3>>, <<Blk(1, 7, 3)>>>>, <<<<2>>, <<Cut(<<2>>)>>>>,
           <<<<3>>, <<Goofer(3)>>>>, <<<<2>>, <<Fourfer(2)>>>>}
Line ==
  {[grid |-> gd[1], dist |-> gd[2],
    arrs |-> <<Array(<<R(0, 7)>>, <<1>>, <<1>>, FALSE)>>,
    stmts |-> <<[reg |-> <<R(1, hi)>>, refs |-> <<Read(1, <<<<c>>>>)>>],
                [reg |-> <<R(3, 6)>>, refs |-> <<Read(1, <<<<-c>>>>)>>]>>,
    calls |-> One(1, 1) \o One(1, 2)] : gd \in Dists1, c \in Shifts, hi \in {2, 6}}

\* Shifts by as much as a block, both ways at once, and two arrays together.
Wide ==
  {[grid |-> <<2>>, dist |-> <<Blk(1, 6, 2)>>,
    arrs |-> <<Array(<<R(1, 6)>>, <<3>>, <<2>>, FALSE), Array(<<R(0, 7)>>, <<1>>, <<1>>, FALSE)>>,
    stmts |-> <<[reg |-> <<R(lo, 4)>>, refs |-> <<Read(1, <<<<-3>>, <<2>>>>), Read(2, <<<<c>>>>)>>],
                [reg |-> <<R(2, 5)>>, refs |-> <<Read(2, <<<<-1>>, <<1>>>>)>>]>>,
    calls |-> calls] : lo \in {4}, c \in Shifts, calls \in {Early(1, 1), Astride(1, 2)}}

\* Statements over every second index, of arrays with all or with every second.
Strided ==
  {[grid |-> <<2>>, dist |-> <<d>>,
    arrs |-> <<Array(<<ac[1]>>, <<2>>, <<2>>, FALSE)>>,
    stmts |-> <<[reg |-> <<ByTwo(3, 6, 1)>>, refs |-> <<Read(1, <<<<ac[2]>>>>)>>]>>,
    calls |-> One(1, 1)] :
     d \in {Blk(1, 8, 2), Blk(1, 7, 2)},
     ac \in ({R(1, 8)} \X {-2, -1, 1, 2}) \cup ({ByTwo(1, 8, 1)} \X {-2, 2})}

\* Shifts on the left.
Left ==
  {[grid |-> <<2>>, dist |-> <<Blk(1, 5, 2)>>,
    arrs |-> <<Array(<<R(0, 6)>>, <<1>>, <<1>>, FALSE)>>,
    stmts |-> <<[reg |-> <<R(1, 5)>>, refs |-> <<Assign(1, <<c>>)>>],
                [reg |-> <<R(1, 5)>>, refs |-> <<Read(1, <<<<c>>>>)>>]>>,
    calls |-> One(1, 1) \o One(1, 2)] : c \in Shifts}

\* Wrapping shifts over all of the array, which may lie on fewer processors
\* than there are.
Torus ==
  {[grid |-> <<n>>, dist |-> <<Blk(1, 5, n)>>,
    arrs |-> <<Array(<<R(lo, hi)>>, <<1>>, <<1>>, TRUE)>>,
    stmts |-> <<[reg |-> <<R(lo, hi)>>, refs |-> <<ReadWrap(1, <<<<c>>>>)>>]>>,
    calls |-> One(1, 1) \o One(1, 1)] : n \in {2, 3}, c \in Shifts, lo \in {1, 2}, hi \in {2, 5}}

\* Wrapping shifts over a part of the array.
PartOfTorus(c) ==
  {[grid |-> <<2>>, dist |-> <<Blk(1, 4, 2)>>,
    arrs |-> <<Array(<<R(1, hi)>>, <<1>>, <<1>>, TRUE)>>,
    stmts |-> <<[reg |-> <<part>>, refs |-> <<ReadWrap(1, <<<<c>>>>)>>]>>,
    calls |-> One(1, 1)] : hi \in {3, 4}, part \in {R(1, 2), R(2, 2), R(2, 3), R(3, 3)}}
PartUpwards == PartOfTorus(1)
PartDownwards == PartOfTorus(-1)

\* The statements of examples/mg.z that go from one level of the grid hierarchy
\* to the next: over every second element, and over those between them.
Multigrid ==
  {[grid |-> <<n>>, dist |-> <<Blk(1, 8, n)>>,
    arrs |-> <<Array(<<ar[1]>>, <<1>>, <<1>>, TRUE)>>,
    stmts |-> <<[reg |-> <<ar[2]>>, refs |-> <<ReadWrap(1, dirs)>>]>>,
    calls |-> One(1, 1)] :
     n \in {2, 3}, ar \in {<<R(1, 8), ByTwo(1, 8, 0)>>, <<ByTwo(1, 8, 0), ByTwo(0, 7, 1)>>},
     dirs \in {<<<<1>>>>, <<<<-1>>>>, <<<<1>>, <<-1>>>>}}

\* Two dimensions: edges and corners, on four processors and on flat grids; and
\* an array of one dimension on such a grid.
Square(lo, hi) == <<R(lo, hi), R(lo, hi)>>
Plane ==
  {[grid |-> g, dist |-> <<Blk(0, 3, g[1]), Blk(0, 3, g[2])>>,
    arrs |-> <<Array(Square(0, 3), <<1, 1>>, <<1, 1>>, FALSE)>>,
    stmts |-> <<[reg |-> Square(1, 2), refs |-> <<ref>>]>>,
    calls |-> One(1, 1)] :
     g \in {<<2, 1>>, <<1, 2>>, <<2, 2>>},
     ref \in {Read(1, <<<<-1, 1>>>>), Read(1, <<<<1, 0>>, <<1, 1>>>>),
              Read(1, <<<<0, -1>>, <<1, 0>>>>), Assign(1, <<-1, 0>>), Assign(1, <<1, -1>>)}}
RowOfPlane ==
  {[grid |-> <<2, 2>>, dist |-> <<Blk(0, 3, 2), Blk(0, 3, 2)>>,
    arrs |-> <<Array(<<R(0, 3)>>, <<1>>, <<1>>, FALSE)>>,
    stmts |-> <<[reg |-> <<R(1, 2)>>, refs |-> <<Read(1, <<<<1>>>>)>>]>>,
    calls |-> One(1, 1)]}
TorusPlane ==
  {[grid |-> g, dist |-> <<Blk(1, 2, g[1]), Blk(1, 3, g[2])>>,
    arrs |-> <<Array(<<R(1, 2), R(1, hi)>>, <<1, 1>>, <<1, 1>>, TRUE)>>,
    stmts |-> <<[reg |-> <<R(1, 2), R(1, hi)>>, refs |-> <<ReadWrap(1, <<dir>>)>>]>>,
    calls |-> One(1, 1)] :
     g \in {<<2, 1>>, <<1, 2>>, <<2, 2>>}, hi \in {1, 3}, dir \in {<<0, 1>>, <<1, -1>>}}

AllScenarios ==
  UNION {Line, Wide, Strided, Left, Torus, PartUpwards, Multigrid, Plane, RowOfPlane, TorusPlane}
=============================================================================
