----------------------------- MODULE MCStream -----------------------------
(***************************************************************************)
(* Scenarios for the run of Stream.                                        *)
(***************************************************************************)
EXTENDS Stream

R(lo, hi) == [lo |-> lo, hi |-> hi, align |-> 0, stride |-> 1]
By(lo, hi, stride) == [lo |-> lo, hi |-> hi, align |-> lo % stride, stride |-> stride]

Opened(w) == [op |-> "open", write |-> w, reg |-> <<>>]
Closed == [op |-> "close", write |-> FALSE, reg |-> <<>>]
Array(op, w, reg) == [op |-> op, write |-> w, reg |-> reg]

\* Two arrays are written and read again.
File(ops, r1, r2) ==
  <<Opened(TRUE), Array(ops[1], TRUE, r1), Array(ops[2], TRUE, r2), Closed,
    Opened(FALSE), Array(ops[1], FALSE, r1), Array(ops[2], FALSE, r2), Closed>>
Output2(r1, r2) == <<Array("text", TRUE, r1), Array("text", TRUE, r2), Closed>>

Lines ==
  {[grid |-> g[1], dist |-> <<g[2]>>, shmem |-> FALSE, std |-> FALSE,
    calls |-> File(ops, <<R(lo, 4)>>, <<R(1, 3)>>)] :
     g \in {<<<<2>>, Blk(1, 4, 2)>>, <<<<3>>, Blk(1, 5, 3)>>, <<<<2>>, Goofer(2)>>},
     lo \in {1, 3}, ops \in {<<"text", "text">>, <<"bin", "text">>}}

\* Regions that leave out processors.
Sparse ==
  {[grid |-> <<3>>, dist |-> <<d>>, shmem |-> shmem, std |-> TRUE,
    calls |-> Output2(<<By(1, 9, 4)>>, <<By(1, 5, 4)>>)] :
     d \in {Blk(1, 9, 3), Fourfer(3), Cut(<<2, 4>>)}, shmem \in BOOLEAN}

Planes ==
  {[grid |-> g, dist |-> <<Blk(1, 4, g[1]), Blk(1, 4, g[2])>>, shmem |-> shmem, std |-> std,
    calls |-> IF std THEN Output2(r, <<R(2, 3), R(1, 4)>>)
              ELSE <<Opened(TRUE), Array("text", TRUE, r), Closed,
                     Opened(FALSE), Array("text", FALSE, r), Closed>>] :
     g \in {<<2, 1>>, <<1, 2>>, <<2, 2>>},
     r \in {<<R(1, 3), R(2, 4)>>, <<R(1, 4), R(4, 4)>>, <<R(3, 3), R(2, 3)>>, <<R(2, 3)>>},
     shmem \in BOOLEAN, std \in BOOLEAN}

\* Left out: with SHMEM, a file with a position, whose value may come after the
\* flag; and on the standard output arrays that lie on one processor alone,
\* which does not flush them.
OnePlace(s, reg) == \A i \in 1..Len(reg) :
  Place(s.dist[i], GlobLo(reg[i])) = Place(s.dist[i], GlobHi(reg[i]))
Covered(s) ==
  /\ s.shmem => s.std
  /\ s.std => \A i \in 1..Len(s.calls) : s.calls[i].op = "text" => ~OnePlace(s, s.calls[i].reg)
AllScenarios == {s \in Lines \cup Sparse \cup Planes : Covered(s)}
=============================================================================
