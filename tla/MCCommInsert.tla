--------------------------- MODULE MCCommInsert ---------------------------
(***************************************************************************)
(* Basic blocks for the run of CommInsert.  No statement both assigns to   *)
(* an array and reads it with a shift.                                     *)
(***************************************************************************)
EXTENDS CommInsert

CONSTANTS a, b, c, e, w

S(out, in) == [out |-> out, in |-> in, fixed |-> FALSE]
Fixed == [out |-> <<>>, in |-> <<>>, fixed |-> TRUE]
Block(stmts, remove_redundant, combine, pipeline, max_latency) ==
  [stmts |-> stmts, remove_redundant |-> remove_redundant, combine |-> combine,
   pipeline |-> pipeline, max_latency |-> max_latency]
Optimized(stmts) == Block(stmts, TRUE, TRUE, TRUE, FALSE)
\* Combining as it was meant: with the other two.
Options == {o \in [1..4 -> BOOLEAN] : o[2] => o[1] /\ o[3]}

\* What a statement reads: at most n of the arrays, in any order.
Reads1(arrays, dirs) == {[var |-> v, dir |-> d] : v \in arrays, d \in dirs}
Ins(n, arrays, dirs) ==
  {in \in UNION {[1..k -> Reads1(arrays, dirs)] : k \in 0..n} :
     \A i, j \in 1..Len(in) : i # j => in[i].var # in[j].var}
Statements(n, arrays, dirs) ==
  {s \in {S(out, in) : out \in {<<>>} \cup {<<v>> : v \in arrays}, in \in Ins(n, arrays, dirs)} :
     Vars(s.in) \cap Range(s.out) = {}}

\* Three statements over two arrays, with all options.
Two == Statements(2, {a, b}, {e})
Short == {Block(<<s1, s2, s3>>, o[1], o[2], o[3], o[4]) :
            o \in Options, s1 \in Two, s2 \in Two, s3 \in Two}

\* Two shifts of one array, and reads without a shift.
Shifts == Statements(1, {a, b}, {e, w, NoShift})
Shifted == {Optimized(<<s1, s2, s3>>) : s1 \in Shifts, s2 \in Shifts, s3 \in Shifts}

\* Longer blocks: what is combined below is read again above.
One == Statements(1, {a, b}, {e})
Long == {Optimized(<<s1, s2, s3, S(<<>>, in)>>) :
           s1 \in One, s2 \in One, s3 \in One, in \in {in \in Ins(2, {a, b}, {e}) : Len(in) = 2}}

\* Three arrays at once.
All == {S(<<>>, in) : in \in {in \in Ins(3, {a, b, c}, {e}) : Len(in) >= 2}}
Sets == {S(<<>>, <<>>), S(<<a>>, <<>>), S(<<b>>, <<>>), S(<<c>>, <<>>)}
Three == {Optimized(<<s1, s2, s3, s4>>) : s1 \in Sets, s2 \in Sets, s3 \in Sets, s4 \in All}
           \cup {Optimized(<<s1, s2, s3>>) : s1 \in Sets, s2 \in All, s3 \in All}

\* With a call of fixed position.
Around == {Optimized(<<s1, s2, Fixed, s3>>) : s1 \in Two, s2 \in One, s3 \in Two}
            \cup {Optimized(<<s1, Fixed, s2, s3>>) : s1 \in Two, s2 \in One, s3 \in Two}

BasicBlocks == Short \cup Shifted \cup Long \cup Three \cup Around
=============================================================================
