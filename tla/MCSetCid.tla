------------------------------ MODULE MCSetCid ------------------------------
(***************************************************************************)
(* Programs of three functions for the runs of SetCid: main calls f, once  *)
(* or twice, f calls g, and g may call f.                                  *)
(***************************************************************************)
EXTENDS SetCid

CONSTANTS main, f, g

ThreeFcns == {main, f, g}

\* A call of h by a function with the communications c and d: with neither
\* open, one, both, or with a free id below an open one.
CallBlocks(c, d, h) ==
  {<<<<"CALL", h>>>>,
   <<<<"NEW", c>>, <<"OLD", c>>, <<"TEMP", Temp>>, <<"CALL", h>>>>,
   <<<<"NEW", c>>, <<"USE", c>>, <<"CALL", h>>, <<"OLD", c>>>>,
   <<<<"NEW", c>>, <<"NEW", d>>, <<"CALL", h>>, <<"USE", c>>, <<"OLD", d>>, <<"OLD", c>>>>,
   <<<<"NEW", c>>, <<"NEW", d>>, <<"OLD", c>>, <<"CALL", h>>, <<"USE", d>>, <<"OLD", d>>>>}

\* No call: communications nested, one after the other, overlapping.
Leaves(c, d) ==
  {<<<<"NEW", c>>, <<"TEMP", Temp>>, <<"USE", c>>, <<"OLD", c>>>>,
   <<<<"NEW", c>>, <<"NEW", d>>, <<"USE", c>>, <<"OLD", c>>, <<"USE", d>>, <<"OLD", d>>>>,
   <<<<"TEMP", Temp>>>>}

\* main calls f, and perhaps later g.
MainBodies ==
  CallBlocks(1, 2, f) \cup
  {s \o t : s \in CallBlocks(1, 2, f),
            t \in {<<<<"CALL", f>>>>,
                   <<<<"NEW", 3>>, <<"CALL", f>>, <<"OLD", 3>>>>,
                   <<<<"NEW", 3>>, <<"CALL", g>>, <<"OLD", 3>>>>}}

ProgramsOf(mains, fs, gs) ==
  {[h \in ThreeFcns |-> CASE h = main -> m [] h = f -> b [] h = g -> l] :
     m \in mains, b \in fs, l \in gs}

AllPrograms ==
  ProgramsOf(MainBodies, CallBlocks(4, 5, g) \cup Leaves(4, 5),
             CallBlocks(6, 7, f) \cup Leaves(6, 7))

\* No recursion.
PlainPrograms == ProgramsOf(MainBodies, CallBlocks(4, 5, g), Leaves(6, 7))
=============================================================================
