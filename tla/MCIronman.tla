----------------------------- MODULE MCIronman -----------------------------
(***************************************************************************)
(* Small sets of programs and directions, shared by the runs of the        *)
(* IRONMAN modules.                                                        *)
(***************************************************************************)
EXTENDS IronmanCalls, FiniteSets, FiniteSetsExt, TLC

CONSTANTS p1, p2, p3, c1, c2

\* n instances of c, one after the other.
Instances(c, n) ==
  [i \in 1..(5 * n) |->
     <<(<<"NEW", "DR", "SR", "DN", "OLD">>)[((i - 1) % 5) + 1], c>>]

\* A pipelined loop with n tiles over c: DN comes before SR.
Wave(c, n) ==
  [i \in 1..(6 * n + 1) |->
     IF i = 1 THEN <<"INIT", c>>
     ELSE <<(<<"NEW", "DR", "DN", "SR", "OLD", "POST">>)[((i - 2) % 6) + 1], c>>]

\* One with a tile over c and e, in the order comm.c's table gives.
WaveOfTwo(c, e) ==
  <<<<"INIT", c>>, <<"NEW", e>>, <<"NEW", c>>, <<"DR", e>>, <<"DR", c>>,
    <<"DN", e>>, <<"DN", c>>, <<"SR", e>>, <<"SR", c>>, <<"OLD", e>>,
    <<"OLD", c>>, <<"POST", c>>>>

\* The interleaving of s and t in which s's calls are at the places S.
Merge(s, t, S) ==
  LET before(i) == Cardinality({j \in S : j <= i})
  IN [i \in 1..(Len(s) + Len(t)) |->
        IF i \in S THEN s[before(i)] ELSE t[i - before(i)]]

Shuffle(s, t) == {Merge(s, t, S) : S \in kSubset(Len(s), 1..(Len(s) + Len(t)))}

-----------------------------------------------------------------------------
TwoProcs == {p1, p2}

East2 == p1 :> p2 @@ p2 :> NoProc
West2 == p1 :> NoProc @@ p2 :> p1
Swap == p1 :> p2 @@ p2 :> p1
Nobody == p1 :> NoProc @@ p2 :> NoProc

\* Every order in which the calls of two communications can interleave; c2
\* has two directions, c1 one or two, or none with a neighbour.
CommPair(s, ds) ==
  [calls |-> s, dirs |-> (c1 :> <<ds>> @@ c2 :> <<<<West2, East2>>>>)]
TwoComms ==
  {CommPair(s, ds) : s \in Shuffle(Instances(c1, 1), Instances(c2, 1)),
                     ds \in {<<Swap>>, <<East2, Swap>>, <<Nobody>>}}

\* Some of these orders: c2 inside, around, astride and alternating with c1.
SomeTwoComms ==
  {CommPair(Merge(Instances(c1, 1), Instances(c2, 1), S), ds) :
     S \in {{1, 2, 8, 9, 10}, {4, 5, 6, 7, 8}, {1, 2, 3, 6, 8},
            {1, 3, 5, 7, 9}, {3, 4, 5, 9, 10}},
     ds \in {<<East2, Swap>>, <<Nobody>>}}

\* A second instance of c1, with other neighbours, after, around, inside and
\* astride c2.
Again ==
  {[calls |-> Merge(Instances(c2, 1), Instances(c1, 2), S),
    dirs |-> (c1 :> <<<<Swap, East2>>, ds>> @@ c2 :> <<<<Swap>>>>)] :
     S \in {{1, 2, 3, 4, 5}, {3, 5, 7, 9, 11}, {2, 4, 8, 10, 14},
            {1, 2, 10, 11, 12}, {6, 8, 9, 13, 15}, {7, 9, 10, 11, 12}},
     ds \in {<<West2, Swap>>, <<East2>>}}

\* A pipelined loop of two tiles over c1 before c2 or inside it, while c2 is
\* open from DR or from SR on, the second tile perhaps not on all processors;
\* and one of a tile over both.
Waves ==
  {[calls |-> Merge(Wave(c1, 2), Instances(c2, 1), S),
    dirs |-> (c1 :> <<<<East2>>, <<tile>>>> @@ c2 :> <<<<ds>>>>)] :
     S \in {1..13, 4..16, 3..15}, tile \in {East2, Nobody}, ds \in {Swap, West2}}
  \cup {[calls |-> WaveOfTwo(c1, c2),
         dirs |-> (c1 :> <<<<East2>>>> @@ c2 :> <<<<East2>>>>)]}

\* Two tiles over c1 and c2, the second without neighbours, so that a
\* processor may have it or not, and c1 once more after the loop.
SkewedWaves ==
  {[calls |-> WaveOfTwo(c1, c2) \o Tail(WaveOfTwo(c1, c2)) \o Instances(c1, 1),
    dirs |-> (c1 :> <<<<East2>>, <<Nobody>>, <<Swap>>>>
              @@ c2 :> <<<<East2>>, <<Nobody>>>>)]}

-----------------------------------------------------------------------------
ThreeProcs == {p1, p2, p3}

Ring == p1 :> p2 @@ p2 :> p3 @@ p3 :> p1
RingBack == p1 :> p3 @@ p3 :> p2 @@ p2 :> p1
Chain == p1 :> p2 @@ p2 :> p3 @@ p3 :> NoProc

\* A ring, with a chain whose ends have one neighbour each inside or astride
\* it; both directions of a ring at once; and a pipelined loop.
ThreeProcPrograms ==
  {[calls |-> Merge(Instances(c1, 1), Instances(c2, 1), S),
    dirs |-> (c1 :> <<<<Ring>>>> @@ c2 :> <<<<Chain>>>>)] :
     S \in {{1, 2, 3, 9, 10}, {1, 3, 5, 7, 9}}}
  \cup {[calls |-> Instances(c1, 1),
         dirs |-> (c1 :> <<<<Ring, RingBack>>>> @@ c2 :> <<>>)],
        [calls |-> Wave(c1, 2),
         dirs |-> (c1 :> <<<<Chain>>, <<Chain>>>> @@ c2 :> <<>>)]}
=============================================================================
