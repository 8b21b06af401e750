--------------------------- MODULE IronmanCalls ---------------------------
(***************************************************************************)
(* The callers of the IRONMAN interface (include/ironman.h).               *)
(*                                                                         *)
(* A ZPL program is compiled to one C program that every processor runs:   *)
(* at each point of the program all processors make the same call of the   *)
(* interface, for the same static communication id, with their own         *)
(* neighbours.  The calls a communication goes through are                 *)
(*                                                                         *)
(*     NEW  set up          DR  destination ready   SR  source ready       *)
(*     DN   data needed     OLD release                                    *)
(*                                                                         *)
(* (IM_SV, "source volatile", is a macro that expands to nothing in every  *)
(* implementation, so it is not a call.)  The compiler emits them in this  *)
(* order for each id, except in a pipelined loop: there a processor needs  *)
(* the data of the one up the wave before it computes its own, and DN      *)
(* comes before SR.  It interleaves the calls of different ids, to overlap *)
(* communication with computation.                                         *)
(*                                                                         *)
(* A pipelined loop works tile by tile.  It saves the dynamic id at its    *)
(* start (INIT) and sets it back after every tile (POST).  A processor     *)
(* whose block has fewer tiles than those of others makes fewer            *)
(* iterations; it has no neighbour in the tiles it lacks.                  *)
(*                                                                         *)
(* A direction of a communication is a partial injection on the            *)
(* processors: who sends to whom.  Edges from a processor to itself never  *)
(* reach IRONMAN: at_comm.c copies them locally.                           *)
(***************************************************************************)
EXTENDS Naturals, Sequences, FiniteSets

CONSTANTS
  Proc,      \* the processors of the grid
  Cid,       \* the static communication ids the compiler assigned
  NoProc,    \* "no neighbour in this direction"
  MaxDirs,   \* maxdirs, the most directions of one communication
  Programs   \* the programs: sequences of calls and their directions

Op == {"NEW", "DR", "SR", "DN", "OLD"}

\* The calls an instance of a communication has returned from before call o.
Required ==
  [NEW |-> {}, DR |-> {"NEW"}, SR |-> {"NEW", "DR"}, DN |-> {"NEW", "DR"},
   OLD |-> {"NEW", "DR", "SR", "DN"}]

\* _MSCAN_INIT and _MSCAN_POST, around the tiles of a pipelined loop.
LoopOp == {"INIT", "POST"}

\* IM_commpair: in a direction a processor has at most one processor it
\* sends to and at most one it receives from, never itself.
Direction ==
  {f \in [Proc -> Proc \cup {NoProc}] :
     \A p \in Proc : /\ f[p] # p
                     /\ \A q \in Proc : f[p] = f[q] /\ f[p] # NoProc => p = q}

\* A program fixes the order of the calls, and for the g-th NEW of an id the
\* directions of that instance of the communication.
Program ==
  [calls : Seq((Op \cup LoopOp) \X Cid), dirs : [Cid -> Seq(Seq(Direction))]]

\* The places among the first n calls of program pr that are call o of id c.
Places(pr, o, c, n) == {i \in 1..n : pr.calls[i] = <<o, c>>}

\* How many instances of c begin in the first n calls.
GenAt(pr, c, n) == Cardinality(Places(pr, "NEW", c, n))

ASSUME NoProcAssumption == NoProc \notin Proc
ASSUME MaxDirsAssumption == MaxDirs \in Nat
ASSUME ProgramsAssumption ==
  /\ Programs \subseteq Program
  /\ \A pr \in Programs, c \in Cid : \A g \in 1..Len(pr.dirs[c]) :
       Len(pr.dirs[c][g]) \in 1..MaxDirs

\* Place i of program pr is in the tile of a pipelined loop that ends at j.
InTile(pr, i, j) ==
  /\ pr.calls[j][1] = "POST"
  /\ \A k \in i..(j - 1) : pr.calls[k][1] \notin LoopOp

\* The calls of a communication are in one basic block: those in a tile belong
\* to instances that begin and end in it.
TilesClosed(pr) ==
  \A c \in Cid, j \in 1..Len(pr.calls) : \A i \in 1..(j - 1), o \in Op :
    InTile(pr, i, j) /\ pr.calls[i] = <<o, c>> =>
      /\ o # "OLD" => \E k \in (i + 1)..(j - 1) : pr.calls[k] = <<"OLD", c>>
      /\ o # "NEW" =>
           \E k \in 1..(i - 1) : InTile(pr, k, j) /\ pr.calls[k] = <<"NEW", c>>

ASSUME TilesAssumption == \A pr \in Programs : TilesClosed(pr)

\* The calls made for the instance of c that is open after the first n calls.
DoneAt(pr, c, n) ==
  {o \in Op \ {"OLD"} : \E k \in 1..n :
     /\ pr.calls[k] = <<o, c>>
     /\ \A i \in k..n : pr.calls[i] # <<"OLD", c>>}

\* The compiler emits the calls of an instance once each, and in order.
CallsOrdered(pr) ==
  \A c \in Cid, o \in Op : \A n \in 1..Len(pr.calls) :
    pr.calls[n] = <<o, c>> =>
      o \notin DoneAt(pr, c, n - 1) /\ Required[o] \subseteq DoneAt(pr, c, n - 1)

ASSUME OrderAssumption == \A pr \in Programs : CallsOrdered(pr)

-----------------------------------------------------------------------------
(* What the program itself makes processors wait for, whatever the         *)
(* implementation does.                                                    *)

\* The places of pr that are call o of the instance of c that place n is in.
SameInstance(pr, o, c, n) ==
  {m \in Places(pr, o, c, Len(pr.calls)) : GenAt(pr, c, m) = GenAt(pr, c, n)}

\* In the instance of c that place n is in, q sends to p.
Sends(pr, q, p, c, n) ==
  LET ds == pr.dirs[c][GenAt(pr, c, n)] IN \E d \in DOMAIN ds : ds[d][q] = p

\* What call n of p awaits, as pairs of a processor and places of which it has
\* to be past one: in DN the SR of all that send to p, and in SR, if the sender
\* waits for its receivers, the DR of all that p sends to.
AwaitsSR(pr, p, n) ==
  LET c == pr.calls[n][2] IN
  {<<q, SameInstance(pr, "SR", c, n)>> :
     q \in {r \in Proc : pr.calls[n][1] = "DN" /\ Sends(pr, r, p, c, n)}}
AwaitsDR(pr, p, n) ==
  LET c == pr.calls[n][2] IN
  {<<q, SameInstance(pr, "DR", c, n)>> :
     q \in {r \in Proc : pr.calls[n][1] = "SR" /\ Sends(pr, p, r, c, n)}}

\* W[p][n] is what call n of p awaits.  Wherever the processors are, one that
\* has a call left awaits nothing the others have yet to do: the order of the
\* program's calls and of what they await has no cycle.
NoneStuck(pr, W) ==
  \A at \in [Proc -> 0..Len(pr.calls)] :
    (\E p \in Proc : at[p] < Len(pr.calls)) =>
      \E p \in Proc :
        /\ at[p] < Len(pr.calls)
        /\ \A x \in W[p][at[p] + 1] : \E m \in x[2] : m <= at[x[1]]

\* No pipelined loops: DN comes after SR.
Plain(pr) ==
  \A c \in Cid : \A n \in 1..Len(pr.calls) :
    pr.calls[n] = <<"DN", c>> => "SR" \in DoneAt(pr, c, n - 1)

VARIABLES
  prog,  \* the program all processors run
  pos,   \* pos[p]: how many calls processor p has returned from
  inst   \* inst[p][c]: the instance of c that p is in or was in last, and the
         \* calls p returned from in it; none before NEW and after OLD

callVars == <<prog, pos, inst>>

Running(p) == pos[p] < Len(prog.calls)
At(p, o, c) == Running(p) /\ prog.calls[pos[p] + 1] = <<o, c>>
AtOp(p, o) == \E c \in Cid : At(p, o, c)

\* The instance of c that the call p is at belongs to.
Gen(p, c) == IF At(p, "NEW", c) THEN inst[p][c].gen + 1 ELSE inst[p][c].gen
Dirs(p, c) == prog.dirs[c][Gen(p, c)]

SendDirs(p, ds) == {d \in DOMAIN ds : ds[d][p] # NoProc}
RecvDirs(p, ds) == {d \in DOMAIN ds : \E q \in Proc : ds[d][q] = p}
Source(p, ds, d) == CHOOSE q \in Proc : ds[d][q] = p

\* What q sends in direction d for instance g of c: the data is known by
\* where it comes from, so a receiver can tell right data from wrong.
Data(q, c, g, d) == [src |-> q, cid |-> c, gen |-> g, dir |-> d]
DataSet == [src : Proc, cid : Cid, gen : Nat, dir : 1..MaxDirs]

\* From i to n is a tile of pr, and p has no neighbour in it.
TileLacks(pr, p, i, n) ==
  /\ pr.calls[i][1] \in LoopOp /\ pr.calls[n][1] = "POST"
  /\ \A k \in (i + 1)..(n - 1) :
       /\ pr.calls[k][1] \notin LoopOp
       /\ \A c \in Cid : pr.calls[k] = <<"NEW", c>> =>
            LET g == GenAt(pr, c, k) IN
            g \in DOMAIN pr.dirs[c] =>
              /\ SendDirs(p, pr.dirs[c][g]) = {}
              /\ RecvDirs(p, pr.dirs[c][g]) = {}

InitCalls ==
  /\ prog \in Programs
  /\ pos = [p \in Proc |-> 0]
  /\ inst = [p \in Proc |-> [c \in Cid |-> [done |-> {}, gen |-> 0]]]

\* p may be in call o of id c.
May(p, o, c) ==
  /\ At(p, o, c)
  /\ o \notin inst[p][c].done
  /\ Required[o] \subseteq inst[p][c].done

\* p returns from call o of id c.  The compiler emits the calls of an id in
\* order, and the program has the directions of every instance.
Return(p, o, c) ==
  /\ May(p, o, c)
  /\ Gen(p, c) \in DOMAIN prog.dirs[c]
  /\ pos' = [pos EXCEPT ![p] = @ + 1]
  /\ inst' = [inst EXCEPT ![p][c] =
       [done |-> IF o = "OLD" THEN {} ELSE @.done \cup {o}, gen |-> Gen(p, c)]]
  /\ UNCHANGED prog

\* p is past the start of a pipelined loop, or past a tile of it.
Pass(p, o) ==
  /\ AtOp(p, o)
  /\ pos' = [pos EXCEPT ![p] = @ + 1]
  /\ UNCHANGED <<prog, inst>>

\* The instances of c that begin between p's place and place n.
Begun(p, c, n) == {i \in (pos[p] + 1)..(n - 1) : prog.calls[i] = <<"NEW", c>>}
GenAfter(p, c, n) == inst[p][c].gen + Cardinality(Begun(p, c, n))

\* At a tile of a pipelined loop that p does not have, and whose POST is at
\* place n: p has no neighbour in the instances that begin there, and makes
\* none of the calls.
SkipTo(p, n) ==
  /\ pos[p] > 0 /\ prog.calls[pos[p]][1] \in LoopOp
  /\ AtOp(p, "NEW")
  /\ prog.calls[n][1] = "POST"
  /\ \A i \in (pos[p] + 1)..(n - 1) : prog.calls[i][1] \notin LoopOp
  /\ \A c \in Cid :
       /\ Begun(p, c, n) # {} => inst[p][c].done = {}
       /\ \A g \in (inst[p][c].gen + 1)..GenAfter(p, c, n) :
            /\ g \in DOMAIN prog.dirs[c]
            /\ SendDirs(p, prog.dirs[c][g]) = {}
            /\ RecvDirs(p, prog.dirs[c][g]) = {}
  /\ pos' = [pos EXCEPT ![p] = n]
  /\ inst' = [inst EXCEPT ![p] = [c \in Cid |->
       [done |-> @[c].done, gen |-> GenAfter(p, c, n)]]]
  /\ UNCHANGED prog

SkipTile(p) == \E n \in (pos[p] + 1)..Len(prog.calls) : SkipTo(p, n)

CallsTypeOK ==
  /\ prog \in Program
  /\ pos \in [Proc -> Nat]
  /\ \A p \in Proc : pos[p] <= Len(prog.calls)
  /\ inst \in [Proc -> [Cid -> [done : SUBSET Op, gen : Nat]]]

\* The directions in which p sends to q in instance g of c.
Edges(p, q, c, g) == {d \in DOMAIN prog.dirs[c][g] : prog.dirs[c][g][d][p] = q}

\* q has yet to make the OLD of instance g of c.
Holds(q, c, g) == inst[q][c].gen < g \/ (inst[q][c].gen = g /\ inst[q][c].done # {})

Finished == \A p \in Proc : ~Running(p)
=============================================================================
