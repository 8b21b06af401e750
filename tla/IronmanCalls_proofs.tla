------------------------ MODULE IronmanCalls_proofs ------------------------
(***************************************************************************)
(* Lemmas about the callers of the IRONMAN interface, for the proofs of    *)
(* its specification and of its implementations.                           *)
(***************************************************************************)
EXTENDS IronmanCalls, FiniteSetTheorems, WellFoundedInduction, TLAPS

\* A communication that is open, or was, has the directions of its instance.
GenOK ==
  \A p \in Proc, c \in Cid :
    /\ inst[p][c].gen \in 0..Len(prog.dirs[c])
    /\ inst[p][c].done # {} => inst[p][c].gen > 0

\* The calls of an instance were made in order.
OrderOK ==
  \A p \in Proc, c \in Cid : \A o \in inst[p][c].done :
    Required[o] \subseteq inst[p][c].done

CallsInv == prog \in Programs /\ CallsTypeOK /\ GenOK /\ OrderOK

-----------------------------------------------------------------------------
\* The entries of a table are of its values.
LEMMA TableEntry ==
  ASSUME NEW X, NEW Y, NEW Z, NEW S, NEW f \in [X -> [Y -> [Z -> S]]],
         NEW x \in X, NEW y \in Y, NEW z \in Z
  PROVE  f[x][y][z] \in S
OBVIOUS

\* A table stays one when one of its entries changes to another value.
LEMMA TableType ==
  ASSUME NEW X, NEW Y, NEW Z, NEW S, NEW f \in [X -> [Y -> [Z -> S]]],
         NEW x \in X, NEW y \in Y, NEW z \in Z, NEW v \in S
  PROVE  [f EXCEPT ![x][y][z] = v] \in [X -> [Y -> [Z -> S]]]
OBVIOUS

\* The directions of an instance are a sequence of at most MaxDirs of them.
LEMMA DirsType ==
  ASSUME prog \in Programs, NEW c \in Cid, NEW g \in 1..Len(prog.dirs[c])
  PROVE  /\ prog.dirs[c][g] \in Seq(Direction)
         /\ DOMAIN prog.dirs[c][g] \subseteq 1..MaxDirs
<1>1. prog \in Program
  BY ProgramsAssumption
<1>2. prog.dirs[c] \in Seq(Seq(Direction))
  BY <1>1 DEF Program
<1>3. prog.dirs[c][g] \in Seq(Direction)
  BY <1>2
<1>4. Len(prog.dirs[c][g]) \in 1..MaxDirs
  BY ProgramsAssumption
<1> QED
  BY <1>3, <1>4, MaxDirsAssumption

\* A processor has a source in the directions it receives in.
LEMMA SourceType ==
  ASSUME NEW p, NEW ds, NEW d \in RecvDirs(p, ds)
  PROVE  Source(p, ds, d) \in Proc /\ ds[d][Source(p, ds, d)] = p
BY DEF RecvDirs, Source

\* What is sent is data.
LEMMA DataType ==
  ASSUME NEW q \in Proc, NEW c \in Cid, NEW g \in Nat, NEW d \in 1..MaxDirs
  PROVE  Data(q, c, g, d) \in DataSet
BY DEF Data, DataSet

-----------------------------------------------------------------------------
\* The calls of one instance after call o.
DoneAfter(done, o) == IF o = "OLD" THEN {} ELSE done \cup {o}

\* A return keeps the callers' state well typed; only its own id moves on.
LEMMA ReturnStep ==
  ASSUME CallsInv, NEW p \in Proc, NEW o \in Op, NEW c \in Cid, Return(p, o, c)
  PROVE  /\ prog' \in Programs
         /\ CallsTypeOK'
         /\ GenOK'
         /\ OrderOK'
         /\ o \notin inst[p][c].done
         /\ Required[o] \subseteq inst[p][c].done
         /\ inst'[p][c] = [done |-> DoneAfter(inst[p][c].done, o), gen |-> Gen(p, c)]
         /\ \A r \in Proc, e \in Cid : <<r, e>> # <<p, c>> => inst'[r][e] = inst[r][e]
         /\ Gen(p, c) = IF o = "NEW" THEN inst[p][c].gen + 1 ELSE inst[p][c].gen
<1> USE DEF CallsInv, CallsTypeOK
<1>0. prog' = prog /\ prog \in Program
  BY DEF Return
<1>1. /\ Running(p)
      /\ prog.calls[pos[p] + 1] = <<o, c>>
      /\ o \notin inst[p][c].done
      /\ Required[o] \subseteq inst[p][c].done
  BY DEF Return, May, At
<1>2. Gen(p, c) = IF o = "NEW" THEN inst[p][c].gen + 1 ELSE inst[p][c].gen
  BY <1>1 DEF Gen, At
<1>3. Gen(p, c) \in Nat
  BY <1>2
<1>4. prog.dirs[c] \in Seq(Seq(Direction))
  BY <1>0 DEF Program
<1>5. Gen(p, c) \in 1..Len(prog.dirs[c])
  BY <1>4 DEF Return
<1>6. /\ inst' = [inst EXCEPT ![p][c] =
           [done |-> DoneAfter(inst[p][c].done, o), gen |-> Gen(p, c)]]
      /\ pos' = [pos EXCEPT ![p] = @ + 1]
  BY DEF Return, DoneAfter
<1>7. DoneAfter(inst[p][c].done, o) \in SUBSET Op
  BY DEF DoneAfter
<1>13. inst' \in [Proc -> [Cid -> [done : SUBSET Op, gen : Nat]]]
  BY <1>3, <1>6, <1>7
<1>8. prog.calls \in Seq((Op \cup LoopOp) \X Cid)
  BY <1>0 DEF Program
<1>9. /\ pos' \in [Proc -> Nat]
      /\ \A r \in Proc : pos'[r] <= Len(prog'.calls)
  BY <1>0, <1>1, <1>6, <1>8 DEF Running
<1>10. inst'[p][c] = [done |-> DoneAfter(inst[p][c].done, o), gen |-> Gen(p, c)]
  BY <1>6
<1>11. \A r \in Proc, e \in Cid : <<r, e>> # <<p, c>> => inst'[r][e] = inst[r][e]
  BY <1>6
<1>12. GenOK'
  <2> SUFFICES ASSUME NEW r \in Proc, NEW e \in Cid
               PROVE  /\ inst'[r][e].gen \in 0..Len(prog.dirs[e])
                      /\ inst'[r][e].done # {} => inst'[r][e].gen > 0
    BY <1>0 DEF GenOK
  <2>1. CASE r = p /\ e = c
    BY <2>1, <1>4, <1>5, <1>10
  <2>2. CASE <<r, e>> # <<p, c>>
    BY <2>2, <1>11 DEF GenOK
  <2> QED
    BY <2>1, <2>2
<1>14. OrderOK'
  <2> SUFFICES ASSUME NEW r \in Proc, NEW e \in Cid, NEW a \in inst'[r][e].done
               PROVE  Required[a] \subseteq inst'[r][e].done
    BY DEF OrderOK
  <2>1. CASE r = p /\ e = c
    BY <2>1, <1>1, <1>10 DEF OrderOK, DoneAfter
  <2>2. CASE <<r, e>> # <<p, c>>
    BY <2>2, <1>11 DEF OrderOK
  <2> QED
    BY <2>1, <2>2
<1> QED
  BY <1>0, <1>1, <1>2, <1>9, <1>10, <1>11, <1>12, <1>13, <1>14

\* The start and the end of a tile only advance in the program.
LEMMA PassStep ==
  ASSUME CallsInv, NEW p \in Proc, NEW o \in LoopOp, Pass(p, o)
  PROVE  /\ prog' \in Programs
         /\ CallsTypeOK'
         /\ GenOK'
         /\ OrderOK'
         /\ prog' = prog /\ inst' = inst
<1> USE DEF CallsInv, CallsTypeOK
<1>1. prog' = prog /\ inst' = inst /\ prog \in Program
  BY DEF Pass
<1>2. Running(p) /\ pos' = [pos EXCEPT ![p] = @ + 1]
  BY DEF Pass, AtOp, At
<1>3. prog.calls \in Seq((Op \cup LoopOp) \X Cid)
  BY <1>1 DEF Program
<1>4. /\ pos' \in [Proc -> Nat]
      /\ \A r \in Proc : pos'[r] <= Len(prog'.calls)
  BY <1>1, <1>2, <1>3 DEF Running
<1>5. GenOK' /\ OrderOK'
  BY <1>1 DEF GenOK, OrderOK
<1> QED
  BY <1>1, <1>4, <1>5

\* The number of instances that begin up to a place.
LEMMA BegunCount ==
  ASSUME CallsTypeOK, NEW p \in Proc, NEW c \in Cid,
         NEW n \in (pos[p] + 1)..Len(prog.calls)
  PROVE  /\ inst[p][c].gen \in Nat
         /\ Cardinality(Begun(p, c, n)) \in Nat
         /\ Cardinality(Begun(p, c, n)) = 0 <=> Begun(p, c, n) = {}
<1>1. pos[p] + 1 \in Int /\ n - 1 \in Int /\ inst[p][c].gen \in Nat
  BY DEF CallsTypeOK
<1>2. IsFiniteSet((pos[p] + 1)..(n - 1))
  BY <1>1, FS_Interval
<1>3. IsFiniteSet(Begun(p, c, n))
  BY <1>2, FS_Subset DEF Begun
<1> QED
  BY <1>1, <1>3, FS_CardinalityType, FS_EmptySet

\* Without its tile a processor is past it, and past the instances in it, in
\* which it has nothing to receive.
LEMMA SkipStep ==
  ASSUME CallsInv, NEW p \in Proc, SkipTile(p)
  PROVE  /\ prog' \in Programs /\ prog' = prog
         /\ CallsTypeOK'
         /\ GenOK'
         /\ OrderOK'
         /\ \A r \in Proc, e \in Cid :
              \/ inst'[r][e] = inst[r][e]
              \/ /\ r = p /\ inst[r][e].done = {} /\ inst'[r][e].done = {}
                 /\ RecvDirs(p, prog.dirs[e][inst'[r][e].gen]) = {}
<1> USE DEF CallsInv, CallsTypeOK
<1>1. PICK n \in (pos[p] + 1)..Len(prog.calls) : SkipTo(p, n)
  BY DEF SkipTile
<1>2. /\ prog' = prog /\ prog \in Program
      /\ prog.calls \in Seq((Op \cup LoopOp) \X Cid)
  BY <1>1, ProgramsAssumption DEF SkipTo, Program
<1>3. /\ pos' \in [Proc -> Nat]
      /\ \A r \in Proc : pos'[r] <= Len(prog'.calls)
  BY <1>1, <1>2, SMTT(30) DEF SkipTo
<1>7. \A c \in Cid : /\ GenAfter(p, c, n) \in Nat
                     /\ GenAfter(p, c, n) >= inst[p][c].gen
                     /\ Begun(p, c, n) = {} => GenAfter(p, c, n) = inst[p][c].gen
                     /\ Begun(p, c, n) # {} => GenAfter(p, c, n) > inst[p][c].gen
  BY BegunCount DEF GenAfter
<1>4. inst' \in [Proc -> [Cid -> [done : SUBSET Op, gen : Nat]]]
  <2>1. inst' = [inst EXCEPT ![p] = [c \in Cid |->
          [done |-> inst[p][c].done, gen |-> GenAfter(p, c, n)]]]
    BY <1>1 DEF SkipTo
  <2>2. \A c \in Cid : [done |-> inst[p][c].done, gen |-> GenAfter(p, c, n)]
                         \in [done : SUBSET Op, gen : Nat]
    BY <1>7
  <2> QED
    BY <2>1, <2>2
<1>5. ASSUME NEW r \in Proc, NEW e \in Cid
      PROVE  \/ inst'[r][e] = inst[r][e]
             \/ /\ r = p
                /\ inst[r][e].done = {} /\ inst'[r][e].done = {}
                /\ inst'[r][e].gen \in DOMAIN prog.dirs[e]
                /\ inst'[r][e].gen \in Nat /\ inst'[r][e].gen > 0
                /\ RecvDirs(p, prog.dirs[e][inst'[r][e].gen]) = {}
  <2>1. CASE r # p
    BY <1>1, <2>1 DEF SkipTo
  <2>2. CASE r = p
    <3>1. inst'[p][e] = [done |-> inst[p][e].done, gen |-> GenAfter(p, e, n)]
      BY <1>1 DEF SkipTo
    <3>2. CASE Begun(p, e, n) = {}
      <4>1. inst[p][e] \in [done : SUBSET Op, gen : Nat]
        OBVIOUS
      <4>2. inst[p][e] = [done |-> inst[p][e].done, gen |-> inst[p][e].gen]
        BY <4>1
      <4> QED
        BY <1>7, <2>2, <3>1, <3>2, <4>2
    <3>3. CASE Begun(p, e, n) # {}
      <4>1. inst[p][e].gen \in Nat
        OBVIOUS
      <4>2. GenAfter(p, e, n) \in (inst[p][e].gen + 1)..GenAfter(p, e, n)
        BY <1>7, <3>3, <4>1
      <4>3. /\ inst[p][e].done = {}
            /\ GenAfter(p, e, n) \in DOMAIN prog.dirs[e]
            /\ RecvDirs(p, prog.dirs[e][GenAfter(p, e, n)]) = {}
        BY <1>1, <3>3, <4>2 DEF SkipTo
      <4>4. GenAfter(p, e, n) \in Nat /\ GenAfter(p, e, n) > 0
        BY <1>7, <3>3, <4>1
      <4> QED
        BY <2>2, <3>1, <4>3, <4>4
    <3> QED
      BY <3>2, <3>3
  <2> QED
    BY <2>1, <2>2
<1>6. GenOK'
  <2> SUFFICES ASSUME NEW r \in Proc, NEW e \in Cid
               PROVE  /\ inst'[r][e].gen \in 0..Len(prog.dirs[e])
                      /\ inst'[r][e].done # {} => inst'[r][e].gen > 0
    BY <1>2 DEF GenOK
  <2>1. prog.dirs[e] \in Seq(Seq(Direction))
    BY <1>2 DEF Program
  <2>2. CASE inst'[r][e] = inst[r][e]
    BY <2>2 DEF GenOK
  <2>3. CASE inst'[r][e] # inst[r][e]
    <3>1. /\ inst'[r][e].gen \in DOMAIN prog.dirs[e]
          /\ inst'[r][e].gen \in Nat /\ inst'[r][e].gen > 0
      BY <1>5, <2>3
    <3> QED
      BY <2>1, <3>1
  <2> QED
    BY <2>2, <2>3
<1>8. OrderOK'
  <2> SUFFICES ASSUME NEW r \in Proc, NEW e \in Cid, NEW a \in inst'[r][e].done
               PROVE  Required[a] \subseteq inst'[r][e].done
    BY DEF OrderOK
  <2>1. inst'[r][e] = inst[r][e]
    BY <1>5
  <2> QED
    BY <2>1 DEF OrderOK
<1> QED
  BY <1>2, <1>3, <1>4, <1>5, <1>6, <1>8

\* A communication that is open has an instance, with its directions.
LEMMA OpenGen ==
  ASSUME CallsInv, NEW p \in Proc, NEW c \in Cid, inst[p][c].done # {}
  PROVE  inst[p][c].gen \in Nat /\ inst[p][c].gen \in 1..Len(prog.dirs[c])
<1>1. prog.dirs[c] \in Seq(Seq(Direction))
  BY ProgramsAssumption DEF CallsInv, Program
<1>2. Len(prog.dirs[c]) \in Nat
  BY <1>1
<1>3. inst[p][c].gen \in 0..Len(prog.dirs[c]) /\ inst[p][c].gen > 0
  BY DEF CallsInv, GenOK
<1> QED
  BY <1>2, <1>3

\* NEW is called only for a communication that is not open.
LEMMA NewClosed ==
  ASSUME CallsInv, NEW p \in Proc, NEW c \in Cid, May(p, "NEW", c)
  PROVE  inst[p][c].done = {}
<1>1. inst[p][c].done \in SUBSET Op /\ "NEW" \notin inst[p][c].done
  BY DEF CallsInv, CallsTypeOK, May
<1>2. \A o \in inst[p][c].done : Required[o] \subseteq inst[p][c].done
  BY DEF CallsInv, OrderOK
<1> QED
  BY <1>1, <1>2 DEF Required, Op

-----------------------------------------------------------------------------
LEMMA InitCallsInv == InitCalls => CallsInv
<1> SUFFICES ASSUME InitCalls PROVE CallsInv
  OBVIOUS
<1>1. prog \in Programs /\ prog \in Program
  BY ProgramsAssumption DEF InitCalls
<1>2. CallsTypeOK
  BY <1>1 DEF InitCalls, CallsTypeOK, Op, Program
<1>3. GenOK
  BY <1>1 DEF InitCalls, GenOK, Program
<1>4. OrderOK
  BY DEF InitCalls, OrderOK
<1> QED
  BY <1>1, <1>2, <1>3, <1>4 DEF CallsInv

\* What the callers do keeps their invariant.
LEMMA CallsStep ==
  ASSUME CallsInv, NEW p \in Proc,
         \/ \E c \in Cid, o \in Op : Return(p, o, c)
         \/ \E o \in LoopOp : Pass(p, o)
         \/ SkipTile(p)
         \/ UNCHANGED callVars
  PROVE  CallsInv'
<1>1. CASE UNCHANGED callVars
  BY <1>1 DEF CallsInv, CallsTypeOK, GenOK, OrderOK, callVars
<1> QED
  BY <1>1, ReturnStep, PassStep, SkipStep DEF CallsInv
-----------------------------------------------------------------------------
(* What a processor is in follows from its place in the program.           *)

\* The instance p is in, or was in last, and the calls it made in it, are those
\* of the program up to p's place.
GensInv == \A p \in Proc, c \in Cid : inst[p][c].gen = GenAt(prog, c, pos[p])
DoneInv == \A p \in Proc, c \in Cid : inst[p][c].done = DoneAt(prog, c, pos[p])
PlaceInv == CallsInv /\ GensInv /\ DoneInv

\* A processor is in one call at a time.
LEMMA OneCall ==
  ASSUME NEW p \in Proc, NEW o, NEW c, At(p, o, c), NEW a, NEW e, a # o \/ e # c
  PROVE  ~At(p, a, e) /\ ~May(p, a, e)
BY DEF At, May

\* Processors that do not move stay in their calls.
LEMMA SameMay ==
  ASSUME NEW r \in Proc, prog' = prog, pos'[r] = pos[r], inst'[r] = inst[r]
  PROVE  \A o, c : May(r, o, c)' <=> May(r, o, c)
BY DEF May, At, Running

\* The instances of c that began up to a place.
LEMMA GenCount ==
  ASSUME NEW c \in Cid, NEW n \in Nat
  PROVE  /\ GenAt(prog, c, n) \in Nat
         /\ GenAt(prog, c, 0) = 0
         /\ GenAt(prog, c, n + 1) = IF prog.calls[n + 1] = <<"NEW", c>>
                              THEN GenAt(prog, c, n) + 1 ELSE GenAt(prog, c, n)
<1> DEFINE P(k) == Places(prog, "NEW", c, k)
<1>1. IsFiniteSet(P(n))
  <2>1. 1 \in Int /\ n \in Int
    OBVIOUS
  <2>2. IsFiniteSet(1..n)
    BY <2>1, FS_Interval
  <2> QED
    BY <2>2, FS_Subset DEF Places
<1>2. P(0) = {} /\ n + 1 \notin P(n)
  BY DEF Places
<1>3. P(n + 1) = IF prog.calls[n + 1] = <<"NEW", c>> THEN P(n) \cup {n + 1} ELSE P(n)
  BY DEF Places
<1> HIDE DEF P
<1>4. /\ Cardinality(P(n)) \in Nat
      /\ Cardinality(P(n) \cup {n + 1}) = Cardinality(P(n)) + 1
      /\ Cardinality(P(0)) = 0
  BY <1>1, <1>2, FS_CardinalityType, FS_AddElement, FS_EmptySet
<1> QED
  BY <1>3, <1>4 DEF GenAt, P

\* The instances that begin in a tile are counted at its end.
LEMMA GenSkip ==
  ASSUME NEW p \in Proc, NEW c \in Cid, pos[p] \in Nat, NEW n \in Nat, n > pos[p],
         prog.calls[n] # <<"NEW", c>>
  PROVE  GenAt(prog, c, n) = GenAt(prog, c, pos[p]) + Cardinality(Begun(p, c, n))
<1> DEFINE A == Places(prog, "NEW", c, pos[p])
           B == Begun(p, c, n)
<1>1. IsFiniteSet(A)
  <2>1. IsFiniteSet(1..pos[p])
    BY FS_Interval
  <2> QED
    BY <2>1, FS_Subset DEF Places
<1>2. IsFiniteSet(B)
  <2>1. pos[p] + 1 \in Int /\ n - 1 \in Int
    OBVIOUS
  <2>2. IsFiniteSet((pos[p] + 1)..(n - 1))
    BY <2>1, FS_Interval
  <2> QED
    BY <2>2, FS_Subset DEF Begun
<1>3. A \cap B = {} /\ Places(prog, "NEW", c, n) = A \cup B
  <2>1. A \cap B = {}
    BY DEF Places, Begun
  <2>2. \A i \in 1..n : prog.calls[i] = <<"NEW", c>> =>
          i \in 1..pos[p] \/ i \in (pos[p] + 1)..(n - 1)
    OBVIOUS
  <2> QED
    BY <2>1, <2>2 DEF Places, Begun
<1> HIDE DEF A, B
<1>4. Cardinality(A \cup B) = Cardinality(A) + Cardinality(B) - Cardinality(A \cap B)
  BY <1>1, <1>2, FS_Union
<1>5. /\ Cardinality(A \cap B) = 0 /\ Cardinality(A) \in Nat /\ Cardinality(B) \in Nat
  BY <1>1, <1>2, <1>3, FS_EmptySet, FS_CardinalityType
<1>6. Cardinality(A \cup B) = Cardinality(A) + Cardinality(B)
  BY <1>4, <1>5
<1> QED
  BY <1>3, <1>6 DEF GenAt, A, B

\* Instances begin in their order, each at one place.
LEMMA GenOrder ==
  ASSUME NEW c \in Cid, NEW m \in Nat, NEW n \in Nat, m <= n
  PROVE  /\ GenAt(prog, c, m) \in Nat /\ GenAt(prog, c, n) \in Nat
         /\ GenAt(prog, c, m) <= GenAt(prog, c, n)
         /\ m < n /\ prog.calls[n] = <<"NEW", c>> => GenAt(prog, c, m) < GenAt(prog, c, n)
<1> DEFINE P(i) == Places(prog, "NEW", c, i)
<1>1. ASSUME NEW i \in Nat PROVE IsFiniteSet(P(i)) /\ P(i) \subseteq 1..i
  <2>1. IsFiniteSet(1..i)
    BY FS_Interval
  <2> QED
    BY <2>1, FS_Subset DEF Places
<1>2. P(m) \subseteq P(n)
  BY DEF Places
<1>3. IsFiniteSet(P(m)) /\ IsFiniteSet(P(n))
  BY <1>1
<1> HIDE DEF P
<1>4. /\ Cardinality(P(m)) \in Nat /\ Cardinality(P(n)) \in Nat
      /\ Cardinality(P(m)) <= Cardinality(P(n))
      /\ Cardinality(P(m)) = Cardinality(P(n)) => P(m) = P(n)
  BY <1>2, <1>3, FS_CardinalityType, FS_Subset
<1>5. m < n /\ prog.calls[n] = <<"NEW", c>> => P(m) # P(n)
  <2> SUFFICES ASSUME m < n, prog.calls[n] = <<"NEW", c>> PROVE n \in P(n) /\ n \notin P(m)
    OBVIOUS
  <2> QED
    BY DEF P, Places
<1>6. \A i : GenAt(prog, c, i) = Cardinality(P(i))
  BY DEF GenAt, P
<1> QED
  BY <1>4, <1>5, <1>6

\* The place of the call that a processor returns from.
LEMMA Place ==
  ASSUME CallsInv, NEW p \in Proc, NEW o \in Op, NEW c \in Cid, Return(p, o, c)
  PROVE  /\ pos[p] \in Nat /\ prog' = prog
         /\ pos' = [pos EXCEPT ![p] = pos[p] + 1]
         /\ prog.calls[pos[p] + 1] = <<o, c>>
         /\ Gen(p, c) \in 1..Len(prog.dirs[c])
         /\ \A r \in Proc : r # p => inst'[r] = inst[r]
<1>1. prog.dirs[c] \in Seq(Seq(Direction))
  BY ProgramsAssumption DEF CallsInv, Program
<1>2. Gen(p, c) \in 1..Len(prog.dirs[c])
  BY <1>1 DEF Return
<1> QED
  BY <1>2 DEF CallsInv, CallsTypeOK, Return, May, At

\* Only NEW begins an instance.
LEMMA ReturnGen ==
  ASSUME CallsInv, NEW p \in Proc, NEW o \in Op, NEW c \in Cid, Return(p, o, c)
  PROVE  /\ inst'[p][c].gen = Gen(p, c)
         /\ Gen(p, c) = IF o = "NEW" THEN inst[p][c].gen + 1 ELSE inst[p][c].gen
         /\ \A e \in Cid : e # c => inst'[p][e] = inst[p][e]
<1>1. /\ inst'[p][c] = [done |-> DoneAfter(inst[p][c].done, o), gen |-> Gen(p, c)]
      /\ \A r \in Proc, e \in Cid : <<r, e>> # <<p, c>> => inst'[r][e] = inst[r][e]
      /\ Gen(p, c) = IF o = "NEW" THEN inst[p][c].gen + 1 ELSE inst[p][c].gen
  BY ReturnStep
<1>2. ASSUME NEW e \in Cid, e # c PROVE inst'[p][e] = inst[p][e]
  <2>1. <<p, e>> # <<p, c>>
    BY <1>2
  <2> QED
    BY <1>1, <2>1
<1> QED
  BY <1>1, <1>2

\* A tile that a processor leaves out ends nothing that is open.
LEMMA SkipTags ==
  ASSUME CallsInv, NEW p \in Proc, NEW n \in (pos[p] + 1)..Len(prog.calls), SkipTo(p, n),
         NEW e \in Cid, inst[p][e].done # {}
  PROVE  \A k \in (pos[p] + 1)..n : prog.calls[k] # <<"OLD", e>>
<1> SUFFICES ASSUME NEW k \in (pos[p] + 1)..n, prog.calls[k] = <<"OLD", e>>
             PROVE  FALSE
  OBVIOUS
<1>1. pos[p] \in Nat /\ pos[p] > 0 /\ Len(prog.calls) \in Nat /\ n \in Nat /\ k \in Nat
  <2>1. prog.calls \in Seq((Op \cup LoopOp) \X Cid)
    BY ProgramsAssumption DEF CallsInv, Program
  <2> QED
    BY <2>1, SMTT(30) DEF CallsInv, CallsTypeOK, SkipTo
<1>2. /\ prog.calls[pos[p]][1] \in LoopOp /\ prog.calls[n][1] = "POST"
      /\ \A i \in (pos[p] + 1)..(n - 1) : prog.calls[i][1] \notin LoopOp
      /\ Begun(p, e, n) # {} => inst[p][e].done = {}
  BY DEF SkipTo
<1>3. k # n
  BY <1>2
<1>4. k \in 1..(n - 1) /\ InTile(prog, k, n)
  BY <1>1, <1>2, <1>3 DEF InTile
<1>5. TilesClosed(prog) /\ n \in 1..Len(prog.calls)
  BY <1>1, TilesAssumption DEF CallsInv
<1>6. PICK i \in 1..(k - 1) : InTile(prog, i, n) /\ prog.calls[i] = <<"NEW", e>>
  BY <1>4, <1>5 DEF TilesClosed, Op
<1>7. i > pos[p]
  BY <1>1, <1>2, <1>6 DEF InTile
<1>8. i \in Begun(p, e, n)
  BY <1>1, <1>6, <1>7 DEF Begun
<1> QED
  BY <1>2, <1>8

\* What is done is the calls of the program up to this place.
LEMMA InitDone == InitCalls => DoneInv
<1> SUFFICES ASSUME InitCalls, NEW p \in Proc, NEW c \in Cid
             PROVE  inst[p][c].done = DoneAt(prog, c, pos[p])
  BY DEF DoneInv
<1>1. inst[p][c].done = {} /\ pos[p] = 0
  BY DEF InitCalls
<1>2. DoneAt(prog, c, 0) = {}
  BY DEF DoneAt
<1> QED
  BY <1>1, <1>2

\* The next call of a program, and a tile of it.
LEMMA DoneNext ==
  ASSUME NEW c \in Cid, NEW n \in Nat
  PROVE  /\ \A o \in Op : prog.calls[n + 1] = <<o, c>> =>
              DoneAt(prog, c, n + 1) = DoneAfter(DoneAt(prog, c, n), o)
         /\ (\A o \in Op : prog.calls[n + 1] # <<o, c>>) =>
              DoneAt(prog, c, n + 1) = DoneAt(prog, c, n)
<1> DEFINE Made(o, k, i) == /\ prog.calls[k] = <<o, c>>
                            /\ \A j \in k..i : prog.calls[j] # <<"OLD", c>>
<1>1. \A k \in 1..n : \A j : j \in k..(n + 1) <=> j \in k..n \/ j = n + 1
  OBVIOUS
<1>2. \A k : k \in 1..(n + 1) <=> k \in 1..n \/ k = n + 1
  OBVIOUS
<1>3. \A j : j \in (n + 1)..(n + 1) <=> j = n + 1
  OBVIOUS
<1>4. ASSUME NEW o \in Op \ {"OLD"}
      PROVE  (\E k \in 1..(n + 1) : Made(o, k, n + 1)) <=>
               /\ prog.calls[n + 1] # <<"OLD", c>>
               /\ prog.calls[n + 1] = <<o, c>> \/ \E k \in 1..n : Made(o, k, n)
  <2> SUFFICES (\E k \in 1..(n + 1) : Made(o, k, n + 1)) <=>
                 (\E k \in 1..n : Made(o, k, n + 1)) \/ Made(o, n + 1, n + 1)
    <3>1. ASSUME NEW k \in 1..n
          PROVE  Made(o, k, n + 1) <=> prog.calls[n + 1] # <<"OLD", c>> /\ Made(o, k, n)
      BY <1>1
    <3>2. Made(o, n + 1, n + 1) <=> prog.calls[n + 1] = <<o, c>> /\ prog.calls[n + 1] # <<"OLD", c>>
      BY <1>3
    <3>3. prog.calls[n + 1] = <<o, c>> => prog.calls[n + 1] # <<"OLD", c>>
      OBVIOUS
    <3> HIDE DEF Made
    <3> QED
      BY <3>1, <3>2, <3>3
  <2> HIDE DEF Made
  <2> QED
    BY <1>2
<1>5. \A i : DoneAt(prog, c, i) = {o \in Op \ {"OLD"} : \E k \in 1..i : Made(o, k, i)}
  BY DEF DoneAt
<1> HIDE DEF Made
<1>6. ASSUME NEW o \in Op, prog.calls[n + 1] = <<o, c>>
      PROVE  DoneAt(prog, c, n + 1) = DoneAfter(DoneAt(prog, c, n), o)
  <2>1. \A a : prog.calls[n + 1] = <<a, c>> <=> a = o
    BY <1>6
  <2> QED
    BY <1>4, <1>5, <2>1 DEF DoneAfter
<1>7. ASSUME \A o \in Op : prog.calls[n + 1] # <<o, c>>
      PROVE  DoneAt(prog, c, n + 1) = DoneAt(prog, c, n)
  <2>1. "OLD" \in Op
    BY DEF Op
  <2> QED
    BY <1>4, <1>5, <1>7, <2>1
<1> QED
  BY <1>6, <1>7

\* A tile that a processor leaves out begins and ends what it opens.
LEMMA SkipDone ==
  ASSUME CallsInv, DoneInv, NEW p \in Proc, NEW n \in (pos[p] + 1)..Len(prog.calls),
         SkipTo(p, n), NEW c \in Cid
  PROVE  DoneAt(prog, c, n) = DoneAt(prog, c, pos[p])
<1>1. pos[p] \in Nat /\ Len(prog.calls) \in Nat /\ n \in Nat /\ TilesClosed(prog)
  <2>1. prog.calls \in Seq((Op \cup LoopOp) \X Cid)
    BY ProgramsAssumption DEF CallsInv, Program
  <2> QED
    BY <2>1, TilesAssumption DEF CallsInv, CallsTypeOK
<1>2. /\ prog.calls[n][1] = "POST"
      /\ \A i \in (pos[p] + 1)..(n - 1) : prog.calls[i][1] \notin LoopOp
  BY DEF SkipTo
<1>3. ASSUME NEW o \in DoneAt(prog, c, pos[p]) PROVE o \in DoneAt(prog, c, n)
  <2>1. PICK k \in 1..pos[p] : /\ prog.calls[k] = <<o, c>>
                               /\ \A i \in k..pos[p] : prog.calls[i] # <<"OLD", c>>
    BY <1>3 DEF DoneAt
  <2>2. inst[p][c].done # {}
    BY <1>3 DEF DoneInv
  <2>3. \A i \in (pos[p] + 1)..n : prog.calls[i] # <<"OLD", c>>
    BY <2>2, SkipTags
  <2>4. \A i \in k..n : i \in k..pos[p] \/ i \in (pos[p] + 1)..n
    BY <1>1
  <2>5. k \in 1..n
    BY <1>1
  <2> QED
    BY <1>3, <2>1, <2>3, <2>4, <2>5 DEF DoneAt
<1>4. ASSUME NEW o \in DoneAt(prog, c, n) PROVE o \in DoneAt(prog, c, pos[p])
  <2>1. PICK k \in 1..n : /\ prog.calls[k] = <<o, c>>
                          /\ \A i \in k..n : prog.calls[i] # <<"OLD", c>>
    BY <1>4 DEF DoneAt
  <2>2. o \in Op /\ o # "OLD" /\ o # "POST"
    BY <1>4 DEF DoneAt, Op
  <2>3. CASE k <= pos[p]
    <3>1. k \in 1..pos[p] /\ \A i \in k..pos[p] : i \in k..n
      BY <1>1, <2>3
    <3> QED
      BY <2>1, <2>2, <3>1 DEF DoneAt
  <2>4. CASE k > pos[p]
    <3>1. k # n
      BY <1>2, <2>1, <2>2
    <3>2. n \in 1..Len(prog.calls) /\ k \in 1..(n - 1) /\ InTile(prog, k, n)
      BY <1>1, <1>2, <2>4, <3>1 DEF InTile
    <3>3. PICK i \in (k + 1)..(n - 1) : prog.calls[i] = <<"OLD", c>>
      BY <1>1, <2>1, <2>2, <3>2 DEF TilesClosed
    <3>4. i \in k..n
      BY <1>1, <3>3
    <3> QED
      BY <2>1, <3>3, <3>4
  <2> QED
    BY <1>1, <2>3, <2>4
<1> QED
  BY <1>3, <1>4

LEMMA InitPlace == InitCalls => PlaceInv
<1>1. InitCalls => GensInv
  BY GenCount DEF GensInv, InitCalls
<1> QED
  BY <1>1, InitCallsInv, InitDone DEF PlaceInv

\* Whatever a processor does next, it is where its place says.
LEMMA PlaceStep ==
  ASSUME PlaceInv, NEW p \in Proc,
         \/ \E c \in Cid, o \in Op : Return(p, o, c)
         \/ \E o \in LoopOp : Pass(p, o)
         \/ SkipTile(p)
         \/ UNCHANGED callVars
  PROVE  /\ PlaceInv' /\ prog' = prog
         /\ \A r \in Proc : r # p => pos'[r] = pos[r] /\ inst'[r] = inst[r]
<1>0. CallsInv /\ Op = {"NEW", "DR", "SR", "DN", "OLD"} /\ LoopOp = {"INIT", "POST"}
  BY DEF PlaceInv, Op, LoopOp
<1>1. /\ prog' = prog
      /\ \A r \in Proc : r # p => pos'[r] = pos[r] /\ inst'[r] = inst[r]
  <2>1. CASE \E c \in Cid, o \in Op : Return(p, o, c)
    BY <1>0, <2>1 DEF Return, CallsInv, CallsTypeOK
  <2>2. CASE \E o \in LoopOp : Pass(p, o)
    BY <1>0, <2>2 DEF Pass, CallsInv, CallsTypeOK
  <2>3. CASE SkipTile(p)
    BY <1>0, <2>3 DEF SkipTile, SkipTo, CallsInv, CallsTypeOK
  <2>4. CASE UNCHANGED callVars
    BY <2>4 DEF callVars
  <2> QED
    BY <2>1, <2>2, <2>3, <2>4
<1>2. pos[p] \in Nat /\ DOMAIN pos = Proc /\ DOMAIN inst = Proc
  BY <1>0 DEF CallsInv, CallsTypeOK
<1>3. CallsInv'
  BY <1>0, CallsStep
<1> DEFINE Right(e) == /\ inst'[p][e].gen = GenAt(prog, e, pos'[p])
                       /\ inst'[p][e].done = DoneAt(prog, e, pos'[p])
<1>4. SUFFICES ASSUME NEW e \in Cid PROVE Right(e)
  <2>1. \A r \in Proc, e \in Cid : r # p =>
          /\ inst'[r][e].gen = GenAt(prog, e, pos'[r])
          /\ inst'[r][e].done = DoneAt(prog, e, pos'[r])
    BY <1>1 DEF PlaceInv, GensInv, DoneInv
  <2>2. \A e \in Cid : Right(e)
    BY <1>4
  <2> QED
    BY <1>1, <1>3, <2>1, <2>2 DEF PlaceInv, GensInv, DoneInv
<1>5. /\ inst[p][e].gen = GenAt(prog, e, pos[p])
      /\ inst[p][e].done = DoneAt(prog, e, pos[p])
  BY DEF PlaceInv, GensInv, DoneInv
<1>6. ASSUME NEW o \in Op, NEW c \in Cid, Return(p, o, c) PROVE Right(e)
  <2>1. pos'[p] = pos[p] + 1 /\ prog.calls[pos[p] + 1] = <<o, c>>
    BY <1>0, <1>2, <1>6, Place
  <2>2. CASE e = c
    <3>1. /\ inst'[p][c].done = DoneAfter(inst[p][c].done, o)
          /\ inst'[p][c].gen = IF o = "NEW" THEN inst[p][c].gen + 1 ELSE inst[p][c].gen
      <4>1. /\ inst'[p][c] = [done |-> DoneAfter(inst[p][c].done, o), gen |-> Gen(p, c)]
            /\ Gen(p, c) = IF o = "NEW" THEN inst[p][c].gen + 1 ELSE inst[p][c].gen
        BY <1>0, <1>6, ReturnStep
      <4> QED
        BY <4>1
    <3>2. DoneAt(prog, c, pos[p] + 1) = DoneAfter(DoneAt(prog, c, pos[p]), o)
      BY <1>2, <2>1, DoneNext
    <3>3. prog.calls[pos[p] + 1] = <<"NEW", c>> <=> o = "NEW"
      BY <2>1
    <3>4. GenAt(prog, c, pos[p] + 1)
            = IF o = "NEW" THEN GenAt(prog, c, pos[p]) + 1 ELSE GenAt(prog, c, pos[p])
      BY <1>2, <3>3, GenCount
    <3> QED
      BY <1>5, <2>1, <2>2, <3>1, <3>2, <3>4
  <2>3. CASE e # c
    <3>1. inst'[p][e] = inst[p][e]
      BY <1>0, <1>6, <2>3, ReturnGen
    <3>2. /\ \A a \in Op : prog.calls[pos[p] + 1] # <<a, e>>
          /\ prog.calls[pos[p] + 1] # <<"NEW", e>>
      BY <2>1, <2>3
    <3>3. /\ DoneAt(prog, e, pos[p] + 1) = DoneAt(prog, e, pos[p])
          /\ GenAt(prog, e, pos[p] + 1) = GenAt(prog, e, pos[p])
      BY <1>2, <3>2, DoneNext, GenCount
    <3> QED
      BY <1>5, <2>1, <3>1, <3>3
  <2> QED
    BY <2>2, <2>3
<1>7. ASSUME NEW o \in LoopOp, Pass(p, o) PROVE Right(e)
  <2>1. pos'[p] = pos[p] + 1 /\ inst' = inst
    BY <1>2, <1>7 DEF Pass
  <2>2. PICK c \in Cid : prog.calls[pos[p] + 1] = <<o, c>>
    BY <1>7 DEF Pass, AtOp, At
  <2>3. o \notin Op /\ o # "NEW"
    BY <1>0
  <2>4. /\ \A a \in Op : prog.calls[pos[p] + 1] # <<a, e>>
        /\ prog.calls[pos[p] + 1] # <<"NEW", e>>
    BY <2>2, <2>3
  <2>5. /\ DoneAt(prog, e, pos[p] + 1) = DoneAt(prog, e, pos[p])
        /\ GenAt(prog, e, pos[p] + 1) = GenAt(prog, e, pos[p])
    BY <1>2, <2>4, DoneNext, GenCount
  <2> QED
    BY <1>5, <2>1, <2>5
<1>8. ASSUME SkipTile(p) PROVE Right(e)
  <2>1. PICK n \in (pos[p] + 1)..Len(prog.calls) : SkipTo(p, n)
    BY <1>8 DEF SkipTile
  <2>2. /\ inst'[p][e].done = inst[p][e].done /\ pos'[p] = n
        /\ inst'[p][e].gen = GenAfter(p, e, n)
    BY <1>2, <2>1 DEF SkipTo
  <2>3. DoneAt(prog, e, n) = DoneAt(prog, e, pos[p])
    BY <1>0, <2>1, SkipDone DEF PlaceInv
  <2>4. GenAt(prog, e, n) = GenAfter(p, e, n)
    <3>1. n \in Nat /\ n > pos[p]
      BY <1>2
    <3>2. prog.calls[n] # <<"NEW", e>>
      BY <2>1 DEF SkipTo
    <3> QED
      BY <1>2, <1>5, <3>1, <3>2, GenSkip DEF GenAfter
  <2> QED
    BY <1>5, <2>2, <2>3, <2>4
<1>9. CASE UNCHANGED callVars
  BY <1>5, <1>9 DEF callVars
<1> QED
  BY <1>0, <1>6, <1>7, <1>8, <1>9

\* A processor that is at a call is in it: the calls of an instance come in
\* order.
LEMMA AtIsMay ==
  ASSUME CallsInv, DoneInv, NEW p \in Proc, NEW o \in Op, NEW c \in Cid, At(p, o, c)
  PROVE  May(p, o, c)
<1> DEFINE n == pos[p] + 1
<1>1. /\ prog \in Programs /\ pos[p] \in Nat
      /\ inst[p][c].done = DoneAt(prog, c, pos[p])
  BY DEF CallsInv, CallsTypeOK, DoneInv
<1>2. Len(prog.calls) \in Nat
  <2>1. prog.calls \in Seq((Op \cup LoopOp) \X Cid)
    BY <1>1, ProgramsAssumption DEF Program
  <2> QED
    BY <2>1
<1>3. n \in 1..Len(prog.calls) /\ prog.calls[n] = <<o, c>> /\ n - 1 = pos[p]
  <2>1. pos[p] < Len(prog.calls) /\ prog.calls[n] = <<o, c>>
    BY DEF At, Running
  <2> DEFINE i == pos[p]
             l == Len(prog.calls)
  <2>2. i \in Nat /\ l \in Nat /\ i < l /\ n = i + 1
    BY <1>1, <1>2, <2>1
  <2> HIDE DEF i, l, n
  <2>3. n \in 1..l /\ n - 1 = i
    BY <2>2
  <2> QED
    BY <2>1, <2>3 DEF i, l
<1> HIDE DEF n
<1>4. o \notin DoneAt(prog, c, n - 1) /\ Required[o] \subseteq DoneAt(prog, c, n - 1)
  BY <1>1, <1>3, OrderAssumption DEF CallsOrdered
<1> QED
  BY <1>1, <1>3, <1>4 DEF May

\* An instance is open since the place of its NEW.
LEMMA OpenPlace ==
  ASSUME PlaceInv, NEW p \in Proc, NEW c \in Cid, inst[p][c].done # {}
  PROVE  \E m \in 1..pos[p] :
           /\ prog.calls[m] = <<"NEW", c>>
           /\ GenAt(prog, c, m) = inst[p][c].gen
           /\ \A k \in (m + 1)..pos[p] :
                prog.calls[k] # <<"OLD", c>> /\ prog.calls[k] # <<"NEW", c>>
<1>1. /\ CallsInv /\ prog \in Programs /\ pos[p] \in Nat
      /\ inst[p][c].done = DoneAt(prog, c, pos[p])
      /\ inst[p][c].gen = GenAt(prog, c, pos[p])
      /\ inst[p][c].done \in SUBSET Op
  BY DEF PlaceInv, CallsInv, CallsTypeOK, DoneInv, GensInv
<1>2. pos[p] <= Len(prog.calls) /\ Len(prog.calls) \in Nat
  <2>1. prog.calls \in Seq((Op \cup LoopOp) \X Cid)
    BY <1>1, ProgramsAssumption DEF Program
  <2> QED
    BY <1>1, <2>1 DEF CallsInv, CallsTypeOK
<1>3. "NEW" \in DoneAt(prog, c, pos[p])
  <2>1. \A o \in inst[p][c].done : Required[o] \subseteq inst[p][c].done
    BY <1>1 DEF CallsInv, OrderOK
  <2> QED
    BY <1>1, <2>1 DEF Op, Required
<1>4. PICK m \in 1..pos[p] : /\ prog.calls[m] = <<"NEW", c>>
                             /\ \A i \in m..pos[p] : prog.calls[i] # <<"OLD", c>>
  BY <1>3 DEF DoneAt
<1>5. ASSUME NEW k \in (m + 1)..pos[p]
      PROVE  prog.calls[k] # <<"OLD", c>> /\ prog.calls[k] # <<"NEW", c>>
  <2>1. k \in m..pos[p] /\ k \in 1..Len(prog.calls) /\ m \in 1..(k - 1)
        /\ \A i \in m..(k - 1) : i \in m..pos[p]
    BY <1>1, <1>2
  <2>2. "NEW" \in DoneAt(prog, c, k - 1)
    BY <1>4, <2>1 DEF DoneAt, Op
  <2> QED
    BY <1>1, <1>4, <2>1, <2>2, OrderAssumption DEF CallsOrdered, Op
<1>6. GenAt(prog, c, m) = GenAt(prog, c, pos[p])
  <2>1. \A k \in 1..pos[p] : k \in 1..m \/ k \in (m + 1)..pos[p]
    BY <1>1
  <2>2. \A k \in 1..m : k \in 1..pos[p]
    BY <1>1
  <2>3. Places(prog, "NEW", c, m) = Places(prog, "NEW", c, pos[p])
    BY <1>5, <2>1, <2>2 DEF Places
  <2> QED
    BY <2>3 DEF GenAt
<1> QED
  BY <1>1, <1>4, <1>5, <1>6

\* An instance begins at one place.
LEMMA SamePlace ==
  ASSUME NEW c \in Cid, NEW m \in Nat, NEW l \in Nat,
         prog.calls[m] = <<"NEW", c>>, prog.calls[l] = <<"NEW", c>>,
         GenAt(prog, c, m) = GenAt(prog, c, l)
  PROVE  m = l
<1>1. ASSUME l < m PROVE FALSE
  BY <1>1, GenOrder
<1>2. ASSUME m < l PROVE FALSE
  BY <1>2, GenOrder
<1> QED
  BY <1>1, <1>2

-----------------------------------------------------------------------------
\* Directions, and how many of them there are.
LEMMA SetBound ==
  ASSUME NEW S \in SUBSET (1..MaxDirs)
  PROVE  /\ IsFiniteSet(S) /\ Cardinality(S) \in 0..MaxDirs
         /\ Cardinality(S) = 0 <=> S = {}
<1>1. IsFiniteSet(1..MaxDirs) /\ Cardinality(1..MaxDirs) = MaxDirs
  BY MaxDirsAssumption, FS_Interval
<1>2. IsFiniteSet(S) /\ Cardinality(S) <= MaxDirs
  BY <1>1, FS_Subset
<1>3. Cardinality(S) \in Nat /\ (Cardinality(S) = 0 <=> S = {})
  BY <1>2, FS_CardinalityType, FS_EmptySet
<1> QED
  BY <1>2, <1>3, MaxDirsAssumption

\* How many directions of a set are before each of them tells them apart.
LEMMA Smaller ==
  ASSUME NEW D \in SUBSET (1..MaxDirs), NEW d \in D
  PROVE  /\ Cardinality({x \in D : x < d}) \in 0..MaxDirs
         /\ Cardinality({x \in D : x < d}) < Cardinality(D)
         /\ Cardinality(D) \in 0..MaxDirs
         /\ \A e \in D :
              Cardinality({x \in D : x < d}) = Cardinality({x \in D : x < e}) => d = e
<1> DEFINE B(x) == {y \in D : y < x}
<1>1. ASSUME NEW x \in D
      PROVE  /\ IsFiniteSet(B(x)) /\ Cardinality(B(x)) \in 0..MaxDirs
             /\ IsFiniteSet(D) /\ Cardinality(D) \in 0..MaxDirs
  <2>1. B(x) \in SUBSET (1..MaxDirs)
    OBVIOUS
  <2> HIDE DEF B
  <2> QED
    BY <2>1, SetBound
<1>2. ASSUME NEW x \in D, NEW y \in D, x < y
      PROVE  Cardinality(B(x)) < Cardinality(B(y))
  <2>1. B(x) \subseteq B(y) /\ x \in B(y) /\ x \notin B(x)
    <3>1. \A e \in D : e \in Nat
      OBVIOUS
    <3>2. \A e \in D : e < x => e < y
      BY <1>2, <3>1
    <3>3. ~(x < x)
      BY <3>1
    <3> QED
      BY <1>2, <3>2, <3>3
  <2> HIDE DEF B
  <2>2. B(x) # B(y)
    BY <2>1
  <2>3. IsFiniteSet(B(x)) /\ IsFiniteSet(B(y))
    BY <1>1
  <2>4. /\ Cardinality(B(x)) \in Nat /\ Cardinality(B(y)) \in Nat
        /\ Cardinality(B(x)) <= Cardinality(B(y))
        /\ Cardinality(B(x)) = Cardinality(B(y)) => B(x) = B(y)
    BY <2>1, <2>3, FS_CardinalityType, FS_Subset
  <2> QED
    BY <2>2, <2>4
<1>3. Cardinality(B(d)) < Cardinality(D)
  <2>1. B(d) \subseteq D /\ d \in D /\ d \notin B(d)
    BY MaxDirsAssumption
  <2> HIDE DEF B
  <2>2. /\ Cardinality(B(d)) \in Nat /\ Cardinality(D) \in Nat
        /\ Cardinality(B(d)) <= Cardinality(D)
        /\ Cardinality(B(d)) = Cardinality(D) => B(d) = D
    BY <1>1, <2>1, FS_CardinalityType, FS_Subset
  <2> QED
    BY <2>1, <2>2
<1>4. \A x \in D : Cardinality({y \in D : y < x}) = Cardinality(B(x)) /\ x \in Nat
  OBVIOUS
<1> HIDE DEF B
<1>5. ASSUME NEW e \in D,
             Cardinality({x \in D : x < d}) = Cardinality({x \in D : x < e})
      PROVE  d = e
  <2>1. ~(d < e) /\ ~(e < d)
    BY <1>1, <1>2, <1>4, <1>5
  <2> QED
    BY <1>4, <2>1
<1> QED
  BY <1>1, <1>3, <1>4, <1>5

\* A direction more of those of a set.
LEMMA AddedOne ==
  ASSUME NEW W \in SUBSET (1..MaxDirs), NEW O \in SUBSET (1..MaxDirs), NEW d \in W, d \notin O
  PROVE  /\ Cardinality(W \cap O) \in Nat /\ Cardinality(W) \in Nat
         /\ Cardinality(W \cap O) < Cardinality(W)
         /\ Cardinality(W \cap (O \cup {d})) = Cardinality(W \cap O) + 1
<1>3. IsFiniteSet(W) /\ IsFiniteSet(W \cap O) /\ Cardinality(W) \in 0..MaxDirs
      /\ Cardinality(W \cap O) \in 0..MaxDirs
  BY SetBound
<1>4. W \cap (O \cup {d}) = (W \cap O) \cup {d} /\ d \notin W \cap O
  OBVIOUS
<1>5. Cardinality((W \cap O) \cup {d}) = Cardinality(W \cap O) + 1
  BY <1>3, <1>4, FS_AddElement
<1>6. (W \cap O) \cup {d} \subseteq W
  OBVIOUS
<1>7. Cardinality((W \cap O) \cup {d}) <= Cardinality(W)
  BY <1>3, <1>6, FS_Subset
<1>8. Cardinality(W) \in Nat /\ Cardinality(W \cap O) \in Nat
  BY <1>3, MaxDirsAssumption
<1>9. Cardinality(W \cap (O \cup {d})) = Cardinality(W \cap O) + 1
  BY <1>4, <1>5
<1>10. Cardinality(W \cap O) + 1 <= Cardinality(W)
  BY <1>5, <1>7
<1>11. Cardinality(W \cap O) < Cardinality(W)
  BY <1>8, <1>10
<1> QED
  BY <1>8, <1>9, <1>11

\* The directions between two processors are few.
LEMMA LinksFew ==
  ASSUME CallsInv, NEW q \in Proc, NEW p \in Proc, NEW c \in Cid, NEW g \in 1..Len(prog.dirs[c])
  PROVE  /\ Edges(p, q, c, g) \in SUBSET (1..MaxDirs)
         /\ DOMAIN prog.dirs[c][g] \subseteq 1..MaxDirs
  BY DirsType DEF Edges, CallsInv

LEMMA NoLoop ==
  ASSUME CallsInv, NEW p \in Proc, NEW c \in Cid, NEW g \in 1..Len(prog.dirs[c])
  PROVE  Edges(p, p, c, g) = {}
<1>1. prog.dirs[c][g] \in Seq(Direction)
  BY DirsType DEF CallsInv
<1>2. \A d \in DOMAIN prog.dirs[c][g] : prog.dirs[c][g][d] \in Direction
  BY <1>1
<1> QED
  BY <1>2 DEF Edges, Direction

\* A processor receives from one processor in a direction.
LEMMA EdgeOne ==
  ASSUME CallsInv, NEW c \in Cid, NEW g \in 1..Len(prog.dirs[c]),
         NEW p \in Proc, NEW r \in Proc, NEW q \in Proc,
         NEW d \in Edges(p, q, c, g), d \in Edges(r, q, c, g)
  PROVE  p = r
<1>1. prog.dirs[c][g] \in Seq(Direction)
  BY DirsType DEF CallsInv
<1>2. prog.dirs[c][g][d] \in Direction
  BY <1>1 DEF Edges
<1> QED
  BY <1>2, NoProcAssumption DEF Edges, Direction

-----------------------------------------------------------------------------
\* The least of some numbers.
LEMMA LeastIs ==
  ASSUME NEW S, S \subseteq Nat, S # {}
  PROVE  \E x \in S : \A y \in S : x <= y
<1> DEFINE R == {ss \in Nat \X Nat : ss[1] < ss[2]}
<1>1. IsWellFoundedOn(R, Nat)
  BY NatLessThanWellFounded DEF OpToRel
<1>2. PICK x \in S : \A y \in S : ~(<<y, x>> \in R)
  <2> HIDE DEF R
  <2> QED
    BY <1>1, WFMin
<1>3. ASSUME NEW y \in S PROVE x <= y
  <2>1. <<y, x>> \in Nat \X Nat /\ ~(<<y, x>> \in R)
    BY <1>2
  <2>2. ~(y < x)
    BY <2>1, SMT
  <2> QED
    BY <2>2
<1> QED
  BY <1>3

\* What holds at first and carries over from each place to the next holds at
\* all places.
LEMMA AllPlaces ==
  ASSUME NEW S, NEW l \in Nat, 0 \in S, \A n \in 1..l : n - 1 \in S => n \in S
  PROVE  \A n \in 0..l : n \in S
<1> DEFINE Bad == {n \in 0..l : n \notin S}
<1> SUFFICES ASSUME Bad # {} PROVE FALSE
  OBVIOUS
<1>1. Bad \subseteq Nat
  OBVIOUS
<1>2. PICK m \in Bad : \A k \in Bad : m <= k
  <2> HIDE DEF Bad
  <2> QED
    BY <1>1, LeastIs
<1>3. m \in 1..l /\ m \notin S
  <2>1. m # 0
    OBVIOUS
  <2> QED
    BY <2>1
<1>4. m - 1 \in 0..l /\ ~(m <= m - 1)
  BY <1>3
<1>5. m - 1 \in S
  BY <1>2, <1>4
<1> QED
  BY <1>3, <1>5

LEMMA CallsTyped ==
  ASSUME CallsInv, NEW p \in Proc
  PROVE  /\ Len(prog.calls) \in Nat
         /\ pos[p] \in 0..Len(prog.calls)
         /\ \A k \in 1..Len(prog.calls) : prog.calls[k] \in (Op \cup LoopOp) \X Cid
<1>1. prog.calls \in Seq((Op \cup LoopOp) \X Cid)
  BY ProgramsAssumption DEF CallsInv, Program
<1>2. pos[p] \in Nat /\ pos[p] <= Len(prog.calls)
  BY DEF CallsInv, CallsTypeOK
<1> DEFINE s == prog.calls
           T == (Op \cup LoopOp) \X Cid
<1> HIDE DEF s, T
<1>3. Len(s) \in Nat /\ \A k \in 1..Len(s) : s[k] \in T
  BY <1>1 DEF s, T
<1> QED
  BY <1>2, <1>3 DEF s, T

\* Whoever leaves out a tile has no neighbour in it.
LEMMA SkipLacks ==
  ASSUME PlaceInv, NEW p \in Proc, NEW n \in (pos[p] + 1)..Len(prog.calls), SkipTo(p, n)
  PROVE  /\ pos[p] \in 1..(n - 1) /\ n \in 1..Len(prog.calls)
         /\ TileLacks(prog, p, pos[p], n)
<1>1. CallsInv /\ Len(prog.calls) \in Nat /\ pos[p] \in Nat
  BY CallsTyped DEF PlaceInv
<1>2. /\ pos[p] > 0 /\ prog.calls[pos[p]][1] \in LoopOp
      /\ prog.calls[n][1] = "POST"
      /\ \A k \in (pos[p] + 1)..(n - 1) : prog.calls[k][1] \notin LoopOp
  BY DEF SkipTo
<1>3. pos[p] \in 1..(n - 1) /\ n \in 1..Len(prog.calls)
  BY <1>1, <1>2
<1>4. ASSUME NEW k \in (pos[p] + 1)..(n - 1), NEW c \in Cid, prog.calls[k] = <<"NEW", c>>
      PROVE  LET g == GenAt(prog, c, k) IN
             g \in DOMAIN prog.dirs[c] =>
               /\ SendDirs(p, prog.dirs[c][g]) = {}
               /\ RecvDirs(p, prog.dirs[c][g]) = {}
  <2>1. k \in Nat /\ n \in Nat /\ pos[p] < k /\ k <= n
    BY <1>1
  <2>2. prog.calls[n] # <<"NEW", c>> /\ n > pos[p]
    <3>1. prog.calls[n] # <<"NEW", c>>
      BY <1>2
    <3> QED
      BY <1>1, <2>1, <3>1
  <2>3. /\ GenAt(prog, c, pos[p]) \in Nat /\ GenAt(prog, c, k) \in Nat
        /\ GenAt(prog, c, n) \in Nat
        /\ GenAt(prog, c, pos[p]) < GenAt(prog, c, k)
        /\ GenAt(prog, c, k) <= GenAt(prog, c, n)
    <3>1. GenAt(prog, c, pos[p]) < GenAt(prog, c, k)
      <4>1. pos[p] <= k
        BY <1>1, <2>1
      <4> QED
        BY <1>1, <1>4, <2>1, <4>1, GenOrder
    <3>2. /\ GenAt(prog, c, k) \in Nat /\ GenAt(prog, c, n) \in Nat
          /\ GenAt(prog, c, k) <= GenAt(prog, c, n)
      BY <2>1, GenOrder
    <3>3. GenAt(prog, c, pos[p]) \in Nat
      BY <1>1, GenCount
    <3> QED
      BY <3>1, <3>2, <3>3
  <2>4. GenAt(prog, c, pos[p]) = inst[p][c].gen
    BY DEF PlaceInv, GensInv
  <2>5. GenAt(prog, c, n) = GenAfter(p, c, n)
    BY <1>1, <2>1, <2>2, <2>4, GenSkip DEF GenAfter
  <2>6. GenAt(prog, c, k) \in (inst[p][c].gen + 1)..GenAfter(p, c, n)
    BY <2>3, <2>4, <2>5
  <2> QED
    BY <2>6 DEF SkipTo
<1> QED
  BY <1>2, <1>3, <1>4 DEF TileLacks

\* What a return does to the calls p is in and to other processors.
LEMMA ReturnOpens ==
  ASSUME CallsInv, NEW p \in Proc, NEW o \in Op, NEW c \in Cid, Return(p, o, c)
  PROVE  /\ \A e \in Cid : ~At(p, "SR", e) \/ (o = "SR" /\ e = c)
         /\ o # "NEW" => inst[p][c].done # {}
         /\ o = "NEW" => inst[p][c].done = {}
         /\ o # "OLD" => inst'[p][c].done # {}
         /\ o = "OLD" => inst'[p][c].done = {}
         /\ \A e \in Cid : e # c => inst'[p][e] = inst[p][e]
         /\ \A r \in Proc : r # p => inst'[r] = inst[r] /\ pos'[r] = pos[r]
         /\ prog' = prog
<1>1. /\ Required[o] \subseteq inst[p][c].done
      /\ inst'[p][c].done = DoneAfter(inst[p][c].done, o)
      /\ \A e \in Cid : e # c => inst'[p][e] = inst[p][e]
  <2>1. /\ Required[o] \subseteq inst[p][c].done
        /\ inst'[p][c] = [done |-> DoneAfter(inst[p][c].done, o), gen |-> Gen(p, c)]
        /\ \A r \in Proc, e \in Cid : <<r, e>> # <<p, c>> => inst'[r][e] = inst[r][e]
    BY ReturnStep
  <2> QED
    BY <2>1
<1>2. \A e \in Cid : ~At(p, "SR", e) \/ (o = "SR" /\ e = c)
  BY DEF Return, May, At
<1>3. o # "NEW" => inst[p][c].done # {}
  BY <1>1 DEF Op, Required
<1>4. o = "NEW" => inst[p][c].done = {}
  BY NewClosed DEF Return
<1>5. (o # "OLD" => inst'[p][c].done # {}) /\ (o = "OLD" => inst'[p][c].done = {})
  BY <1>1 DEF DoneAfter
<1>6. \A r \in Proc : r # p => inst'[r] = inst[r] /\ pos'[r] = pos[r]
  BY DEF Return, CallsInv, CallsTypeOK
<1>7. prog' = prog
  BY DEF Return
<1> QED
  BY <1>1, <1>2, <1>3, <1>4, <1>5, <1>6, <1>7

\* In a pipelined loop a communication stays as it is, or is closed and goes on
\* to instances in which p has no neighbour.
LEMMA LoopInst ==
  ASSUME CallsInv, NEW p \in Proc, SkipTile(p) \/ \E o \in LoopOp : Pass(p, o)
  PROVE  /\ prog' = prog
         /\ \A e \in Cid :
              \/ inst'[p][e] = inst[p][e]
              \/ /\ inst[p][e].done = {} /\ inst'[p][e].done = {}
                 /\ inst'[p][e].gen >= inst[p][e].gen
                 /\ \A g \in (inst[p][e].gen + 1)..inst'[p][e].gen :
                      /\ SendDirs(p, prog.dirs[e][g]) = {}
                      /\ RecvDirs(p, prog.dirs[e][g]) = {}
<1>1. CASE \E o \in LoopOp : Pass(p, o)
  BY <1>1, PassStep
<1>2. CASE SkipTile(p)
  <2>1. PICK n \in (pos[p] + 1)..Len(prog.calls) : SkipTo(p, n)
    BY <1>2 DEF SkipTile
  <2>2. prog' = prog /\ inst' = [inst EXCEPT ![p] = [e \in Cid |->
          [done |-> inst[p][e].done, gen |-> GenAfter(p, e, n)]]]
    BY <2>1 DEF SkipTo
  <2>3. \A e \in Cid : inst'[p][e] = [done |-> inst[p][e].done, gen |-> GenAfter(p, e, n)]
    BY <2>2 DEF CallsInv, CallsTypeOK
  <2>4. ASSUME NEW e \in Cid
        PROVE  \/ inst'[p][e] = inst[p][e]
               \/ /\ inst[p][e].done = {} /\ inst'[p][e].done = {}
                  /\ inst'[p][e].gen >= inst[p][e].gen
                  /\ \A g \in (inst[p][e].gen + 1)..inst'[p][e].gen :
                       /\ SendDirs(p, prog.dirs[e][g]) = {}
                       /\ RecvDirs(p, prog.dirs[e][g]) = {}
    <3>1. /\ inst[p][e].gen \in Nat /\ Cardinality(Begun(p, e, n)) \in Nat
          /\ Cardinality(Begun(p, e, n)) = 0 <=> Begun(p, e, n) = {}
      BY BegunCount DEF CallsInv
    <3>2. inst[p][e] \in [done : SUBSET Op, gen : Nat]
      BY DEF CallsInv, CallsTypeOK
    <3>3. CASE Begun(p, e, n) = {}
      <4>1. GenAfter(p, e, n) = inst[p][e].gen
        BY <3>1, <3>3 DEF GenAfter
      <4>2. inst'[p][e] = inst[p][e]
        BY <2>3, <3>2, <4>1
      <4> QED
        BY <4>2
    <3>4. CASE Begun(p, e, n) # {}
      <4>1. /\ inst[p][e].done = {}
            /\ \A g \in (inst[p][e].gen + 1)..GenAfter(p, e, n) :
                 /\ SendDirs(p, prog.dirs[e][g]) = {}
                 /\ RecvDirs(p, prog.dirs[e][g]) = {}
        BY <2>1, <3>4 DEF SkipTo
      <4>2. GenAfter(p, e, n) >= inst[p][e].gen
        BY <3>1 DEF GenAfter
      <4> DEFINE G == GenAfter(p, e, n)
      <4> HIDE DEF G
      <4>4. inst'[p][e] = [done |-> inst[p][e].done, gen |-> G]
        BY <2>3 DEF G
      <4>3. inst'[p][e].done = inst[p][e].done /\ inst'[p][e].gen = GenAfter(p, e, n)
        BY <4>4 DEF G
      <4> QED
        BY <4>1, <4>2, <4>3
    <3> QED
      BY <3>3, <3>4
  <2> QED
    BY <2>2, <2>4
<1> QED
  BY <1>1, <1>2

\* Only OLD lets go of the addresses of an instance.
LEMMA HoldsStays ==
  ASSUME CallsInv, NEW r \in Proc, NEW q \in Proc, NEW p \in Proc, NEW c \in Cid,
         NEW g \in Nat, Edges(q, p, c, g) # {}, Holds(q, c, g),
         \/ \E e \in Cid, o \in Op \ {"OLD"} : Return(r, o, e)
         \/ \E o \in LoopOp : Pass(r, o)
         \/ SkipTile(r)
         \/ UNCHANGED callVars
  PROVE  Holds(q, c, g)'
<1>0. inst[q][c].gen \in Nat /\ inst \in [Proc -> [Cid -> [done : SUBSET Op, gen : Nat]]]
  BY DEF CallsInv, CallsTypeOK
<1>1. ASSUME NEW e \in Cid, NEW o \in Op \ {"OLD"}, Return(r, o, e) PROVE Holds(q, c, g)'
  <2>1. /\ inst'[r][e] = [done |-> inst[r][e].done \cup {o}, gen |-> Gen(r, e)]
        /\ \A x \in Proc, f \in Cid : <<x, f>> # <<r, e>> => inst'[x][f] = inst[x][f]
        /\ Gen(r, e) = IF o = "NEW" THEN inst[r][e].gen + 1 ELSE inst[r][e].gen
    BY <1>1, ReturnStep DEF DoneAfter
  <2>2. CASE <<q, c>> # <<r, e>>
    BY <2>1, <2>2 DEF Holds
  <2>3. CASE q = r /\ c = e /\ o = "NEW"
    <3>1. inst[q][c].done = {}
      BY <1>1, <2>3, NewClosed DEF Return
    <3>2. inst'[q][c].gen = inst[q][c].gen + 1 /\ inst'[q][c].done # {}
      BY <2>1, <2>3
    <3> QED
      BY <1>0, <3>1, <3>2 DEF Holds
  <2>4. CASE q = r /\ c = e /\ o # "NEW"
    <3>1. inst'[q][c].gen = inst[q][c].gen /\ inst'[q][c].done # {}
      BY <2>1, <2>4
    <3> QED
      BY <3>1 DEF Holds
  <2> QED
    BY <2>2, <2>3, <2>4
<1>2. ASSUME NEW o \in LoopOp, Pass(r, o) PROVE Holds(q, c, g)'
  BY <1>2 DEF Pass, Holds
<1>3. ASSUME SkipTile(r) PROVE Holds(q, c, g)'
  <2>1. PICK n \in (pos[r] + 1)..Len(prog.calls) : SkipTo(r, n)
    BY <1>3 DEF SkipTile
  <2>2. inst'[r][c] = [done |-> inst[r][c].done, gen |-> GenAfter(r, c, n)]
        /\ \A x \in Proc : x # r => inst'[x] = inst[x]
    BY <1>0, <2>1 DEF SkipTo
  <2>3. CASE q # r
    BY <2>2, <2>3 DEF Holds
  <2>4. CASE q = r
    <3>1. /\ inst[r][c].gen \in Nat /\ Cardinality(Begun(r, c, n)) \in Nat
          /\ Cardinality(Begun(r, c, n)) = 0 <=> Begun(r, c, n) = {}
      BY BegunCount DEF CallsInv
    <3>2. /\ Begun(r, c, n) # {} => inst[r][c].done = {}
          /\ \A h \in (inst[r][c].gen + 1)..GenAfter(r, c, n) : SendDirs(r, prog.dirs[c][h]) = {}
      BY <2>1 DEF SkipTo
    <3>3. SendDirs(q, prog.dirs[c][g]) # {}
      BY NoProcAssumption DEF SendDirs, Edges
    <3>4. g \notin (inst[r][c].gen + 1)..GenAfter(r, c, n)
      BY <2>4, <3>2, <3>3
    <3>5. CASE inst[q][c].gen < g
      <4>1. GenAfter(r, c, n) \in Nat /\ GenAfter(r, c, n) < g
        BY <2>4, <3>1, <3>4, <3>5 DEF GenAfter
      <4> QED
        BY <2>2, <2>4, <4>1 DEF Holds
    <3>6. CASE inst[q][c].gen = g /\ inst[q][c].done # {}
      <4>1. GenAfter(r, c, n) = inst[r][c].gen
        BY <2>4, <3>1, <3>2, <3>6 DEF GenAfter
      <4> QED
        BY <2>2, <2>4, <3>6, <4>1 DEF Holds
    <3> QED
      BY <3>5, <3>6 DEF Holds
  <2> QED
    BY <2>3, <2>4
<1>4. ASSUME UNCHANGED callVars PROVE Holds(q, c, g)'
  BY <1>4 DEF callVars, Holds
<1> QED
  BY <1>1, <1>2, <1>3, <1>4
-----------------------------------------------------------------------------
(* What calls await, and who has yet to do it.                             *)

\* Of what W holds, q has yet to make every call of an entry.
Undone(W, q) ==
  \E x \in W : x[1] = q /\ x[2] \subseteq Nat /\ \A m \in x[2] : pos[q] < m

\* Between the calls of one instance no other begins.
LEMMA SameGen ==
  ASSUME NEW c \in Cid, NEW k \in Nat, NEW n \in Nat, k <= n,
         \A j \in (k + 1)..n : prog.calls[j] # <<"NEW", c>>
  PROVE  GenAt(prog, c, k) = GenAt(prog, c, n)
<1>1. Places(prog, "NEW", c, k) = Places(prog, "NEW", c, n)
  BY DEF Places
<1> QED
  BY <1>1 DEF GenAt

\* A call made for the instance that place n is in stands before it.
LEMMA MadeBefore ==
  ASSUME prog \in Programs, NEW c \in Cid, NEW o \in Op \ {"NEW"},
         NEW n \in 1..Len(prog.calls), prog.calls[n] = <<o, c>>,
         NEW a \in DoneAt(prog, c, n - 1)
  PROVE  \E m \in SameInstance(prog, a, c, n) : m < n
<1>0. Len(prog.calls) \in Nat /\ CallsOrdered(prog) /\ a \in Op
  BY OrderAssumption, ProgramsAssumption DEF Program, DoneAt
<1>1. PICK k \in 1..(n - 1) : /\ prog.calls[k] = <<a, c>>
                              /\ \A i \in k..(n - 1) : prog.calls[i] # <<"OLD", c>>
  BY DEF DoneAt
<1>2. ASSUME NEW j \in (k + 1)..(n - 1), prog.calls[j] = <<"NEW", c>> PROVE FALSE
  <2>1. "NEW" \notin DoneAt(prog, c, j - 1)
    <3>1. j \in 1..Len(prog.calls)
      BY <1>0
    <3> QED
      BY <1>0, <1>2, <3>1 DEF CallsOrdered, Op
  <2>2. \E i \in 1..k : /\ prog.calls[i] = <<"NEW", c>>
                        /\ \A l \in i..(k - 1) : prog.calls[l] # <<"OLD", c>>
    <3>1. CASE a = "NEW"
      <4>1. k \in 1..k /\ \A l \in k..(k - 1) : FALSE
        OBVIOUS
      <4> QED
        BY <1>1, <3>1, <4>1
    <3>2. CASE a # "NEW"
      <4>1. k \in 1..Len(prog.calls)
        BY <1>0
      <4>2. Required[a] \subseteq DoneAt(prog, c, k - 1)
        BY <1>0, <1>1, <4>1 DEF CallsOrdered
      <4>3. "NEW" \in Required[a]
        BY <1>0, <3>2 DEF Required, Op
      <4>4. "NEW" \in DoneAt(prog, c, k - 1)
        BY <4>2, <4>3
      <4>5. PICK i \in 1..(k - 1) :
              /\ prog.calls[i] = <<"NEW", c>>
              /\ \A l \in i..(k - 1) : prog.calls[l] # <<"OLD", c>>
        BY <4>4 DEF DoneAt
      <4>6. i \in 1..k
        BY <4>5
      <4> QED
        BY <4>5, <4>6
    <3> QED
      BY <3>1, <3>2
  <2>3. PICK i \in 1..k : /\ prog.calls[i] = <<"NEW", c>>
                          /\ \A l \in i..(k - 1) : prog.calls[l] # <<"OLD", c>>
    BY <2>2
  <2>4. i \in 1..(j - 1) /\ \A l \in i..(j - 1) : l \in i..(k - 1) \/ l \in k..(n - 1)
    BY <1>0
  <2> QED
    BY <1>1, <2>1, <2>3, <2>4 DEF DoneAt, Op
<1>3. \A j \in (k + 1)..n : prog.calls[j] # <<"NEW", c>>
  <2>1. \A j \in (k + 1)..n : j \in (k + 1)..(n - 1) \/ j = n
    BY <1>0
  <2> QED
    BY <1>2, <2>1
<1>4. GenAt(prog, c, k) = GenAt(prog, c, n)
  <2>1. k \in Nat /\ n \in Nat /\ k <= n
    BY <1>0
  <2> QED
    BY <1>3, <2>1, SameGen
<1>5. k \in SameInstance(prog, a, c, n)
  <2>1. k \in 1..Len(prog.calls)
    BY <1>0
  <2> QED
    BY <1>1, <1>4, <2>1 DEF SameInstance, Places
<1> QED
  BY <1>5

\* Without pipelined loops what SR and DN await stands before them.
LEMMA PlainAwaits ==
  ASSUME prog \in Programs, Plain(prog), NEW p \in Proc, NEW n \in 1..Len(prog.calls),
         NEW x \in AwaitsSR(prog, p, n) \cup AwaitsDR(prog, p, n)
  PROVE  x[1] \in Proc /\ \E m \in x[2] : m \in Nat /\ m < n
<1>0. /\ prog.calls[n] \in (Op \cup LoopOp) \X Cid /\ CallsOrdered(prog)
      /\ Len(prog.calls) \in Nat
  BY OrderAssumption, ProgramsAssumption DEF Program
<1>1. PICK c \in Cid : c = prog.calls[n][2]
  BY <1>0
<1>2. PICK o \in {"SR", "DN"}, a \in DoneAt(prog, c, n - 1) :
        prog.calls[n] = <<o, c>> /\ x[1] \in Proc /\ x[2] = SameInstance(prog, a, c, n)
  <2>1. CASE x \in AwaitsSR(prog, p, n)
    <3>1. /\ prog.calls[n] = <<"DN", c>> /\ x[1] \in Proc
          /\ x[2] = SameInstance(prog, "SR", c, n)
      BY <1>0, <1>1, <2>1 DEF AwaitsSR
    <3>2. "SR" \in DoneAt(prog, c, n - 1)
      BY <3>1 DEF Plain
    <3> QED
      BY <3>1, <3>2
  <2>2. CASE x \in AwaitsDR(prog, p, n)
    <3>1. /\ prog.calls[n] = <<"SR", c>> /\ x[1] \in Proc
          /\ x[2] = SameInstance(prog, "DR", c, n)
      BY <1>0, <1>1, <2>2 DEF AwaitsDR
    <3>2. "DR" \in DoneAt(prog, c, n - 1)
      BY <1>0, <3>1 DEF CallsOrdered, Op, Required
    <3> QED
      BY <3>1, <3>2
  <2> QED
    BY <2>1, <2>2
<1>3. \E m \in SameInstance(prog, a, c, n) : m < n
  <2>1. o \in Op \ {"NEW"}
    BY DEF Op
  <2> QED
    BY <1>2, <2>1, MadeBefore
<1> QED
  BY <1>0, <1>2, <1>3 DEF SameInstance, Places

\* If each call awaits only what stands before it, the processor that is furthest
\* behind can go on.
LEMMA BehindRuns ==
  ASSUME prog \in Programs, NEW W,
         \A p \in Proc : \A n \in 1..Len(prog.calls) : \A x \in W[p][n] :
           x[1] \in Proc /\ \E m \in x[2] : m \in Nat /\ m < n
  PROVE  NoneStuck(prog, W)
<1>0. Len(prog.calls) \in Nat
  BY ProgramsAssumption DEF Program
<1> SUFFICES ASSUME NEW at \in [Proc -> 0..Len(prog.calls)],
                    NEW r \in Proc, at[r] < Len(prog.calls)
             PROVE  \E p \in Proc :
                      /\ at[p] < Len(prog.calls)
                      /\ \A x \in W[p][at[p] + 1] : \E m \in x[2] : m <= at[x[1]]
  BY DEF NoneStuck
<1>1. PICK k \in {at[p] : p \in Proc} : \A l \in {at[p] : p \in Proc} : k <= l
  <2>1. {at[p] : p \in Proc} \subseteq Nat /\ {at[p] : p \in Proc} # {}
    BY <1>0
  <2> QED
    BY <2>1, LeastIs
<1>2. PICK p \in Proc : at[p] = k
  BY <1>1
<1>3. k \in 0..Len(prog.calls) /\ k <= at[r] /\ at[r] \in 0..Len(prog.calls)
  BY <1>1, <1>2
<1>4. k < Len(prog.calls) /\ k + 1 \in 1..Len(prog.calls)
  BY <1>0, <1>3
<1>5. ASSUME NEW x \in W[p][at[p] + 1] PROVE \E m \in x[2] : m <= at[x[1]]
  <2>1. PICK m \in x[2] : x[1] \in Proc /\ m \in Nat /\ m < k + 1
    BY <1>2, <1>4, <1>5
  <2>2. k <= at[x[1]] /\ at[x[1]] \in Nat /\ k \in Nat
    BY <1>0, <1>1, <1>3, <2>1
  <2>3. m <= at[x[1]]
    BY <2>1, <2>2
  <2> QED
    BY <2>1, <2>3
<1> QED
  BY <1>2, <1>4, <1>5

\* If the program makes no cycle, then of the processors S one awaits nothing
\* that another of them, or one that has finished, has yet to do.
LEMMA SomeoneFree ==
  ASSUME CallsInv, NEW W, NoneStuck(prog, W),
         NEW S \in SUBSET {p \in Proc : Running(p)}, S # {}
  PROVE  \E p \in S : \A q \in Proc : Undone(W[p][pos[p] + 1], q) => Running(q) /\ q \notin S
<1> DEFINE L == Len(prog.calls)
           at == [p \in Proc |-> IF p \in S THEN pos[p] ELSE L]
<1>0. L \in Nat /\ \A p \in Proc : pos[p] \in 0..L
  BY CallsTyped
<1>1. at \in [Proc -> 0..L]
  BY <1>0
<1>2. \A p \in Proc : at[p] < L <=> p \in S
  BY <1>0 DEF Running
<1>3. PICK p \in Proc : at[p] < L /\ \A x \in W[p][at[p] + 1] : \E m \in x[2] : m <= at[x[1]]
  <2> HIDE DEF at
  <2> QED
    BY <1>1, <1>2 DEF NoneStuck
<1>4. p \in S /\ at[p] = pos[p]
  BY <1>2, <1>3
<1>5. ASSUME NEW q \in Proc, Undone(W[p][pos[p] + 1], q) PROVE Running(q) /\ q \notin S
  <2>1. PICK x \in W[p][at[p] + 1] :
          x[1] = q /\ x[2] \subseteq Nat /\ \A m \in x[2] : pos[q] < m
    BY <1>4, <1>5 DEF Undone
  <2>2. PICK m \in x[2] : m <= at[q]
    BY <1>3, <2>1
  <2>3. m \in Nat /\ pos[q] < m
    BY <2>1
  <2>4. pos[q] \in 0..L /\ at[q] = IF q \in S THEN pos[q] ELSE L
    BY <1>0
  <2> HIDE DEF at
  <2>5. q \notin S /\ pos[q] < L
    BY <1>0, <2>2, <2>3, <2>4
  <2> QED
    BY <2>5 DEF Running
<1> QED
  BY <1>4, <1>5

\* q has yet to make call o of the instance of c that place n is in.
LEMMA NotYet ==
  ASSUME PlaceInv, NEW q \in Proc, NEW c \in Cid, NEW o \in Op, NEW n \in Nat,
         ~(inst[q][c].gen > GenAt(prog, c, n)),
         inst[q][c].gen = GenAt(prog, c, n) =>
           inst[q][c].done # {} /\ o \notin inst[q][c].done
  PROVE  SameInstance(prog, o, c, n) \subseteq Nat
         /\ \A m \in SameInstance(prog, o, c, n) : pos[q] < m
<1>0. /\ CallsInv /\ pos[q] \in Nat /\ Len(prog.calls) \in Nat
      /\ inst[q][c].gen = GenAt(prog, c, pos[q])
      /\ inst[q][c].done = DoneAt(prog, c, pos[q])
  BY CallsTyped DEF PlaceInv, GensInv, DoneInv
<1>1. ASSUME NEW m \in SameInstance(prog, o, c, n), m <= pos[q] PROVE FALSE
  <2>1. /\ m \in 1..Len(prog.calls) /\ prog.calls[m] = <<o, c>>
        /\ GenAt(prog, c, m) = GenAt(prog, c, n)
    BY DEF SameInstance, Places
  <2>2. /\ GenAt(prog, c, m) \in Nat /\ GenAt(prog, c, pos[q]) \in Nat
        /\ GenAt(prog, c, m) <= GenAt(prog, c, pos[q])
    <3>1. m \in Nat
      BY <2>1
    <3> QED
      BY <1>0, <1>1, <3>1, GenOrder
  <2>3. inst[q][c].gen = GenAt(prog, c, m) /\ inst[q][c].done # {} /\ o \notin inst[q][c].done
    BY <1>0, <2>1, <2>2
  <2>4. PICK l \in 1..pos[q] :
          /\ prog.calls[l] = <<"NEW", c>> /\ GenAt(prog, c, l) = inst[q][c].gen
          /\ \A k \in (l + 1)..pos[q] : prog.calls[k] # <<"OLD", c>>
    BY <2>3, OpenPlace
  <2>5. ~(m < l)
    <3>1. m < l => GenAt(prog, c, m) < GenAt(prog, c, l)
      <4>1. m \in Nat /\ l \in Nat /\ (m < l => m <= l)
        BY <1>0, <2>1
      <4> QED
        BY <2>4, <4>1, GenOrder
    <3> QED
      BY <2>2, <2>3, <2>4, <3>1
  <2>6. \A i \in m..pos[q] : prog.calls[i] # <<"OLD", c>>
    <3>1. \A i \in m..pos[q] : i = l \/ i \in (l + 1)..pos[q]
      BY <1>0, <2>1, <2>5
    <3> QED
      BY <2>4, <3>1
  <2>7. m \in 1..pos[q] /\ m \in m..pos[q]
    BY <1>0, <1>1, <2>1
  <2>8. o \in DoneAt(prog, c, pos[q])
    BY <2>1, <2>6, <2>7 DEF DoneAt
  <2> QED
    BY <1>0, <2>3, <2>8
<1>2. SameInstance(prog, o, c, n) \subseteq Nat
  BY <1>0 DEF SameInstance, Places
<1> QED
  BY <1>0, <1>1, <1>2

\* A call other than NEW is of the instance its processor is in.
LEMMA OwnGen ==
  ASSUME PlaceInv, NEW p \in Proc, NEW c \in Cid, NEW o \in Op \ {"NEW"}, At(p, o, c)
  PROVE  /\ pos[p] + 1 \in 1..Len(prog.calls) /\ prog.calls[pos[p] + 1] = <<o, c>>
         /\ GenAt(prog, c, pos[p] + 1) = inst[p][c].gen
<1>0. CallsInv /\ pos[p] \in 0..Len(prog.calls) /\ Len(prog.calls) \in Nat
  BY CallsTyped DEF PlaceInv
<1>1. prog.calls[pos[p] + 1] = <<o, c>> /\ pos[p] + 1 \in 1..Len(prog.calls)
  BY <1>0 DEF At, Running
<1>2. prog.calls[pos[p] + 1] # <<"NEW", c>>
  BY <1>1
<1>3. pos[p] \in Nat
  BY <1>0
<1>4. GenAt(prog, c, pos[p] + 1) = GenAt(prog, c, pos[p])
  BY <1>2, <1>3, GenCount
<1> QED
  BY <1>1, <1>4 DEF PlaceInv, GensInv

\* In DN a processor awaits each one that has yet to make the SR, and in SR each
\* that has yet to make the DR.
LEMMA YetToSend ==
  ASSUME PlaceInv, NEW p \in Proc, NEW q \in Proc, NEW c \in Cid, At(p, "DN", c),
         Edges(q, p, c, inst[p][c].gen) # {},
         ~(inst[q][c].gen > inst[p][c].gen),
         inst[q][c].gen = inst[p][c].gen =>
           inst[q][c].done # {} /\ "SR" \notin inst[q][c].done
  PROVE  Undone(AwaitsSR(prog, p, pos[p] + 1), q)
<1>1. /\ pos[p] + 1 \in 1..Len(prog.calls) /\ prog.calls[pos[p] + 1] = <<"DN", c>>
      /\ GenAt(prog, c, pos[p] + 1) = inst[p][c].gen
  BY OwnGen DEF Op
<1>2. PICK n \in 1..Len(prog.calls) : n = pos[p] + 1
  BY <1>1
<1>3. n \in Nat /\ "SR" \in Op
  BY CallsTyped DEF PlaceInv, Op
<1>4. /\ SameInstance(prog, "SR", c, n) \subseteq Nat
      /\ \A m \in SameInstance(prog, "SR", c, n) : pos[q] < m
  BY <1>1, <1>2, <1>3, NotYet
<1>5. Sends(prog, q, p, c, n)
  BY <1>1, <1>2 DEF Sends, Edges
<1>6. <<q, SameInstance(prog, "SR", c, n)>> \in AwaitsSR(prog, p, n)
  <2>1. prog.calls[n] = <<"DN", c>>
    BY <1>1, <1>2
  <2> QED
    BY <1>5, <2>1 DEF AwaitsSR
<1> QED
  BY <1>2, <1>4, <1>6 DEF Undone

LEMMA YetToListen ==
  ASSUME PlaceInv, NEW p \in Proc, NEW q \in Proc, NEW c \in Cid, At(p, "SR", c),
         Edges(p, q, c, inst[p][c].gen) # {},
         ~(inst[q][c].gen > inst[p][c].gen),
         inst[q][c].gen = inst[p][c].gen =>
           inst[q][c].done # {} /\ "DR" \notin inst[q][c].done
  PROVE  Undone(AwaitsDR(prog, p, pos[p] + 1), q)
<1>1. /\ pos[p] + 1 \in 1..Len(prog.calls) /\ prog.calls[pos[p] + 1] = <<"SR", c>>
      /\ GenAt(prog, c, pos[p] + 1) = inst[p][c].gen
  BY OwnGen DEF Op
<1>2. PICK n \in 1..Len(prog.calls) : n = pos[p] + 1
  BY <1>1
<1>3. n \in Nat /\ "DR" \in Op
  BY CallsTyped DEF PlaceInv, Op
<1>4. /\ SameInstance(prog, "DR", c, n) \subseteq Nat
      /\ \A m \in SameInstance(prog, "DR", c, n) : pos[q] < m
  BY <1>1, <1>2, <1>3, NotYet
<1>5. Sends(prog, p, q, c, n)
  BY <1>1, <1>2 DEF Sends, Edges
<1>6. <<q, SameInstance(prog, "DR", c, n)>> \in AwaitsDR(prog, p, n)
  <2>1. prog.calls[n] = <<"SR", c>>
    BY <1>1, <1>2
  <2> QED
    BY <1>5, <2>1 DEF AwaitsDR
<1> QED
  BY <1>2, <1>4, <1>6 DEF Undone

\* NEW is of the instance it begins.
LEMMA NewGen ==
  ASSUME PlaceInv, NEW p \in Proc, NEW c \in Cid, At(p, "NEW", c)
  PROVE  /\ pos[p] + 1 \in 1..Len(prog.calls) /\ prog.calls[pos[p] + 1] = <<"NEW", c>>
         /\ GenAt(prog, c, pos[p] + 1) = Gen(p, c)
<1>0. /\ CallsInv /\ pos[p] \in 0..Len(prog.calls) /\ Len(prog.calls) \in Nat
      /\ inst[p][c].gen = GenAt(prog, c, pos[p])
  BY CallsTyped DEF PlaceInv, GensInv
<1>1. prog.calls[pos[p] + 1] = <<"NEW", c>> /\ pos[p] + 1 \in 1..Len(prog.calls)
  BY <1>0 DEF At, Running
<1>2. pos[p] \in Nat
  BY <1>0
<1>3. GenAt(prog, c, pos[p] + 1) = GenAt(prog, c, pos[p]) + 1
  BY <1>1, <1>2, GenCount
<1> QED
  BY <1>0, <1>1, <1>3 DEF Gen

\* An instance that a processor began and is no longer in ended before its place.
LEMMA OldBefore ==
  ASSUME PlaceInv, NEW p \in Proc, NEW e \in Cid, NEW n \in 1..pos[p],
         prog.calls[n] = <<"NEW", e>>,
         ~(inst[p][e].done # {} /\ inst[p][e].gen = GenAt(prog, e, n))
  PROVE  \E m \in SameInstance(prog, "OLD", e, n) : m < pos[p] + 1
<1>0. /\ CallsInv /\ prog \in Programs /\ CallsOrdered(prog)
      /\ pos[p] \in 0..Len(prog.calls) /\ Len(prog.calls) \in Nat
      /\ inst[p][e].done = DoneAt(prog, e, pos[p])
      /\ inst[p][e].gen = GenAt(prog, e, pos[p])
  BY CallsTyped, OrderAssumption DEF PlaceInv, GensInv, DoneInv, CallsInv
<1>1. PICK o \in Op \ {"OLD"} : o = "NEW"
  BY DEF Op
<1> DEFINE Ends == {k \in (n + 1)..pos[p] : prog.calls[k] \in {<<"NEW", e>>, <<"OLD", e>>}}
<1>2. Ends # {}
  <2> SUFFICES ASSUME Ends = {} PROVE FALSE
    OBVIOUS
  <2>1. \A k \in (n + 1)..pos[p] : prog.calls[k] # <<"NEW", e>> /\ prog.calls[k] # <<"OLD", e>>
    OBVIOUS
  <2>2. n \in Nat /\ pos[p] \in Nat /\ n <= pos[p]
    BY <1>0
  <2>3. GenAt(prog, e, n) = GenAt(prog, e, pos[p])
    BY <2>1, <2>2, SameGen
  <2>4. \A i \in n..pos[p] : prog.calls[i] # <<"OLD", e>>
    <3>1. \A i \in n..pos[p] : i = n \/ i \in (n + 1)..pos[p]
      BY <2>2
    <3> QED
      BY <2>1, <3>1
  <2>5. o \in DoneAt(prog, e, pos[p])
    BY <1>1, <2>4 DEF DoneAt
  <2> QED
    BY <1>0, <2>3, <2>5
<1>3. PICK k \in Ends : \A l \in Ends : k <= l
  <2>1. Ends \subseteq Nat
    BY <1>0
  <2> HIDE DEF Ends
  <2> QED
    BY <1>2, <2>1, LeastIs
<1>4. /\ k \in Nat /\ n \in Nat /\ n < k /\ k <= pos[p] /\ k \in 1..Len(prog.calls)
      /\ prog.calls[k] \in {<<"NEW", e>>, <<"OLD", e>>}
  BY <1>0
<1>5. \A l \in (n + 1)..(k - 1) : prog.calls[l] # <<"NEW", e>> /\ prog.calls[l] # <<"OLD", e>>
  <2>1. ASSUME NEW l \in (n + 1)..(k - 1), l \in Ends PROVE FALSE
    <3>1. k <= l /\ l < k /\ l \in Nat
      BY <1>3, <1>4, <2>1
    <3> QED
      BY <1>4, <3>1
  <2>2. \A l \in (n + 1)..(k - 1) : l \in (n + 1)..pos[p]
    BY <1>0, <1>4
  <2> QED
    BY <2>1, <2>2
<1>6. CASE prog.calls[k] = <<"NEW", e>>
  <2>1. n \in 1..(k - 1) /\ \A i \in n..(k - 1) : i = n \/ i \in (n + 1)..(k - 1)
    BY <1>4
  <2>2. o \in DoneAt(prog, e, k - 1)
    BY <1>1, <1>5, <2>1 DEF DoneAt
  <2> QED
    BY <1>0, <1>1, <1>4, <1>6, <2>2 DEF CallsOrdered, Op
<1>7. CASE prog.calls[k] = <<"OLD", e>>
  <2>1. \A l \in (n + 1)..k : prog.calls[l] # <<"NEW", e>>
    <3>1. \A l \in (n + 1)..k : l = k \/ l \in (n + 1)..(k - 1)
      BY <1>4
    <3> QED
      BY <1>5, <1>7, <3>1
  <2>2. n <= k
    BY <1>4
  <2>3. GenAt(prog, e, n) = GenAt(prog, e, k)
    BY <1>4, <2>1, <2>2, SameGen
  <2>4. k \in SameInstance(prog, "OLD", e, n)
    BY <1>4, <1>7, <2>3 DEF SameInstance, Places
  <2>5. k < pos[p] + 1
    BY <1>0, <1>4
  <2> QED
    BY <2>4, <2>5
<1> QED
  BY <1>4, <1>6, <1>7

\* A processor that holds on to an instance has yet to make its OLD.
LEMMA YetToRelease ==
  ASSUME PlaceInv, NEW q \in Proc, NEW e \in Cid, NEW n \in Nat,
         Holds(q, e, GenAt(prog, e, n))
  PROVE  SameInstance(prog, "OLD", e, n) \subseteq Nat
         /\ \A m \in SameInstance(prog, "OLD", e, n) : pos[q] < m
<1>1. PICK o \in Op : o = "OLD"
  BY DEF Op
<1>2. /\ inst[q][e].gen \in Nat /\ GenAt(prog, e, n) \in Nat
      /\ inst[q][e].done = DoneAt(prog, e, pos[q])
  BY GenCount DEF PlaceInv, CallsInv, CallsTypeOK, DoneInv
<1>3. o \notin inst[q][e].done
  BY <1>1, <1>2 DEF DoneAt
<1>4. /\ ~(inst[q][e].gen > GenAt(prog, e, n))
      /\ inst[q][e].gen = GenAt(prog, e, n) => inst[q][e].done # {} /\ o \notin inst[q][e].done
  BY <1>2, <1>3 DEF Holds
<1>5. SameInstance(prog, o, e, n) \subseteq Nat /\ \A m \in SameInstance(prog, o, e, n) : pos[q] < m
  BY <1>4, NotYet
<1> QED
  BY <1>1, <1>5
=============================================================================
