--------------------------- MODULE SetCid_proofs ---------------------------
(***************************************************************************)
(* Theorems about the pass setcid: for every program, a function never     *)
(* begins a communication under an id it holds already, never uses an id   *)
(* that the function calling it holds at the call, nor, where all callers  *)
(* hold one, an id that any caller further up holds.                       *)
(*                                                                         *)
(* The invariant says of every function how much of it is right already:   *)
(* all of it when it was handled under its present lo, the statements      *)
(* before at when it is being handled, nothing while it waits in tasks.    *)
(***************************************************************************)
EXTENDS SetCid, TLAPS, WellFoundedInduction, FiniteSetTheorems

Pending(f) == \E i \in 1..Len(tasks) : tasks[i] = f

\* How many statements of f have their final ids, unless lo[f] is raised.
Scanned(f) ==
  IF f = cur THEN at - 1
  ELSE IF Pending(f) \/ ~Reached(f) THEN 0 ELSE Len(prog[f])

\* The lowest id of these statements.
Base(f) == IF f = cur THEN startingpoint ELSE lo[f]

\* Statement k of f is right: its id is not below base, it is new for a NEW
\* and a temporary, and that of the NEW for the other calls; a callee is kept
\* above the ids held at the call.
IdRight(f, k) ==
  /\ prog[f][k][1] # "CALL" => iron[f][k] >= Base(f)
  /\ prog[f][k][1] \in {"NEW", "TEMP"} => iron[f][k] \notin Held(f, k)
  /\ prog[f][k][1] \in {"USE", "OLD"} =>
       \A j \in 1..(k - 1) :
         OpenAt(prog[f], j, k) /\ prog[f][j][2] = prog[f][k][2]
           => iron[f][k] = iron[f][j]
CallRight(f, k) ==
  prog[f][k][1] = "CALL" => \A id \in Held(f, k) : id < lo[prog[f][k][2]]

ScannedOK == \A f \in Fcn : \A k \in 1..Scanned(f) : IdRight(f, k) /\ CallRight(f, k)

\* The table holds the open communications of cur, each under the id of its
\* NEW, and nothing else.
TableOK ==
  /\ cur = NoFcn => DOMAIN commIDs = {}
  /\ cur # NoFcn =>
       /\ at <= Len(prog[cur]) + 1
       /\ \A j \in 1..(at - 1) : OpenAt(prog[cur], j, at) =>
            /\ iron[cur][j] \in DOMAIN commIDs
            /\ commIDs[iron[cur][j]] = prog[cur][j][2]
       /\ \A i \in DOMAIN commIDs :
            /\ i >= startingpoint
            /\ \E j \in 1..(at - 1) : OpenAt(prog[cur], j, at) /\ iron[cur][j] = i

\* A function with a task has a lo; so has the one being handled, and it is
\* the one it was begun with, unless it was raised and the function waits.
LoOK ==
  /\ \A i \in 1..Len(tasks) : lo[tasks[i]] >= 0
  /\ cur # NoFcn => lo[cur] >= 0 /\ (Pending(cur) \/ startingpoint = lo[cur])

IInv == TypeOK /\ LoOK /\ TableOK /\ ScannedOK

-----------------------------------------------------------------------------
(* Facts about numbers, bodies and ids.                                    *)

LEMMA LeastExists ==
  ASSUME NEW S, S \subseteq Nat, S # {}
  PROVE  /\ Least(S) \in S
         /\ \A j \in S : Least(S) <= j
<1> DEFINE R == {ss \in Nat \X Nat : ss[1] < ss[2]}
<1>1. IsWellFoundedOn(R, Nat)
  BY NatLessThanWellFounded DEF OpToRel
<1>2. PICK x \in S : \A y \in S : ~(<<y, x>> \in R)
  <2> HIDE DEF R
  <2> QED BY <1>1, WFMin
<1>3. ASSUME NEW y \in S PROVE x <= y
  <2>1. <<y, x>> \in Nat \X Nat /\ ~(<<y, x>> \in R)
    BY <1>2
  <2>2. ~(y < x)
    BY <2>1, SMT
  <2> QED BY <2>2
<1> QED BY <1>3 DEF Least

\* What a body is, and how the open communications change at a statement.
Body == {b \in Seq(Stmt) : WellFormed(b)}

LEMMA BodyStmt ==
  ASSUME NEW b \in Body, NEW k \in 1..Len(b)
  PROVE  /\ b[k] = <<b[k][1], b[k][2]>>
         /\ b[k][1] \in Op
         /\ b[k][1] \in {"NEW", "USE", "OLD"} => b[k][2] \in Cid
         /\ b[k][1] = "CALL" => b[k][2] \in Fcn
<1>1. b[k] \in Stmt
  BY DEF Body
<1>2. b[k] = <<b[k][1], b[k][2]>> /\ b[k][1] \in Op
  BY <1>1 DEF Stmt, Op
<1>3. b[k][1] = "CALL" => b[k][2] \in Fcn
  BY <1>1 DEF Stmt, Op
<1>4. ASSUME NEW j \in 1..Len(b), b[j][1] = "NEW" PROVE b[j][2] \in Cid
  BY <1>4 DEF Body, WellFormed
<1>5. b[k][1] \in {"USE", "OLD"} => b[k][2] \in Cid
  <2> SUFFICES ASSUME b[k][1] \in {"USE", "OLD"} PROVE b[k][2] \in Cid
    OBVIOUS
  <2>1. b[k][2] \in OpenCids(b, k)
    BY DEF Body, WellFormed
  <2>2. PICK j \in 1..Len(b) : OpenAt(b, j, k) /\ b[k][2] = b[j][2]
    BY <2>1 DEF OpenCids
  <2> QED BY <2>2, <1>4 DEF OpenAt
<1> QED BY <1>2, <1>3, <1>4, <1>5

LEMMA OpenNext ==
  ASSUME NEW b \in Body, NEW k \in 1..Len(b), NEW j \in Nat
  PROVE  OpenAt(b, j, k + 1) <=>
           \/ j = k /\ b[k][1] = "NEW"
           \/ OpenAt(b, j, k) /\ b[k] # <<"OLD", b[j][2]>>
<1>1. Len(b) \in Nat
  BY DEF Body
<1>2. CASE j = k
  BY <1>1, <1>2 DEF OpenAt
<1>3. CASE j # k
  BY <1>1, <1>3 DEF OpenAt
<1> QED BY <1>2, <1>3

LEMMA OpenOnce ==
  ASSUME NEW b \in Body, NEW k \in 1..(Len(b) + 1), NEW i \in Nat, NEW j \in Nat,
         OpenAt(b, i, k), OpenAt(b, j, k), b[i][2] = b[j][2]
  PROVE  i = j
<1>1. Len(b) \in Nat
  BY DEF Body
<1>2. ASSUME NEW m \in Nat, NEW n \in Nat, m < n, OpenAt(b, m, k), OpenAt(b, n, k),
             b[m][2] = b[n][2]
      PROVE  FALSE
  <2>1. OpenAt(b, m, n)
    BY <1>1, <1>2 DEF OpenAt
  <2>2. b[n][2] \in OpenCids(b, n)
    <3>1. m \in 1..Len(b)
      BY <1>1, <1>2 DEF OpenAt
    <3> QED BY <1>2, <2>1, <3>1 DEF OpenCids
  <2>3. b[n][2] \notin OpenCids(b, n)
    BY <1>1, <1>2 DEF Body, WellFormed, OpenAt
  <2> QED BY <2>2, <2>3
<1> QED BY <1>2

LEMMA ProgBody ==
  ASSUME TypeOK, NEW f \in Fcn
  PROVE  prog[f] \in Body
BY ProgramsAssumption DEF TypeOK, Body

-----------------------------------------------------------------------------
(* The invariant.                                                          *)

LEMMA InitIInv == Init => IInv
<1> SUFFICES ASSUME Init PROVE IInv
  OBVIOUS
<1> USE EntryAssumption, MaxLoAssumption
<1>1. TypeOK
  <2>1. lo \in [Fcn -> -1..MaxLo] /\ tasks \in Seq(Fcn)
    BY DEF Init
  <2>2. DOMAIN commIDs = {} /\ commIDs \in [DOMAIN commIDs -> Cid]
    BY DEF Init
  <2>3. DOMAIN iron = Fcn /\ \A f \in Fcn : iron[f] \in [1..Len(prog[f]) -> 0..maxcommid]
    BY DEF Init
  <2>4. /\ prog \in Programs /\ cur \in Fcn \cup {NoFcn} /\ at \in Nat \ {0}
        /\ startingpoint \in Nat /\ maxcommid \in Nat
    BY DEF Init
  <2>5. fatal \in BOOLEAN
    BY DEF Init
  <2> QED BY <2>1, <2>2, <2>3, <2>4, <2>5 DEF TypeOK
<1>2. LoOK
  BY DEF Init, LoOK
<1>3. TableOK
  BY DEF Init, TableOK
<1>4. ScannedOK
  <2>1. ASSUME NEW f \in Fcn PROVE Scanned(f) = 0
    <3>1. f = Entry => Pending(f)
      BY DEF Init, Pending
    <3>2. f # Entry => ~Reached(f)
      BY DEF Init, Reached
    <3> QED BY <3>1, <3>2 DEF Init, Scanned
  <2> QED BY <2>1 DEF ScannedOK
<1> QED BY <1>1, <1>2, <1>3, <1>4 DEF IInv

\* The first free id is a new one, and not below startingpoint.
LEMMA NewId ==
  ASSUME TypeOK
  PROVE  LET id == Least(FreeIds(commIDs)) IN
         id \in Nat /\ id >= startingpoint /\ id \notin DOMAIN commIDs
<1>1. startingpoint + maxcommid + 1 \in FreeIds(commIDs)
  BY DEF TypeOK, FreeIds
<1>2. FreeIds(commIDs) \subseteq Nat
  BY DEF TypeOK, FreeIds
<1>3. Least(FreeIds(commIDs)) \in FreeIds(commIDs)
  BY <1>1, <1>2, LeastExists
<1> QED BY <1>3 DEF TypeOK, FreeIds

\* FindTopCommID is above all ids in use.
LEMMA TopId ==
  ASSUME TypeOK
  PROVE  FindTopCommID \in Nat /\ \A i \in DOMAIN commIDs : i < FindTopCommID
<1> DEFINE S == {n \in 0..(maxcommid + 1) : \A i \in DOMAIN commIDs : i < n}
<1>1. maxcommid + 1 \in S /\ S \subseteq Nat
  BY DEF TypeOK
<1>2. Least(S) \in S
  <2> HIDE DEF S
  <2> QED BY <1>1, LeastExists
<1> QED BY <1>2 DEF FindTopCommID, TypeOK

\* The statement at which the pass is.
LEMMA CurStmt ==
  ASSUME IInv, NEW o, AtStmt(o)
  PROVE  /\ cur \in Fcn /\ cur # NoFcn
         /\ prog[cur] \in Body
         /\ at \in 1..Len(prog[cur]) /\ Len(prog[cur]) \in Nat
         /\ prog[cur][at] = <<o, Arg>>
<1>1. cur \in Fcn /\ cur # NoFcn
  BY DEF IInv, TypeOK, AtStmt
<1>2. prog[cur] \in Body
  BY <1>1, ProgBody DEF IInv
<1>3. at \in 1..Len(prog[cur]) /\ Len(prog[cur]) \in Nat
  BY <1>2 DEF IInv, TypeOK, AtStmt, Body
<1> QED BY <1>1, <1>2, <1>3, BodyStmt DEF AtStmt, Arg

\* The id of the open communication of a USE or an OLD.
LEMMA ExistingId ==
  ASSUME IInv, NEW o \in {"USE", "OLD"}, AtStmt(o)
  PROVE  \E j \in 1..(at - 1) :
           /\ OpenAt(prog[cur], j, at)
           /\ prog[cur][j][2] = Arg
           /\ iron[cur][j] \in Nat
           /\ iron[cur][j] >= startingpoint
           /\ \A i \in DOMAIN commIDs : commIDs[i] = Arg <=> i = iron[cur][j]
           /\ iron[cur][j] \in DOMAIN commIDs
           /\ Uses(Arg) = {iron[cur][j]}
           /\ Least(Uses(Arg)) = iron[cur][j]
<1>1. /\ cur \in Fcn /\ cur # NoFcn
      /\ prog[cur] \in Body
      /\ at \in 1..Len(prog[cur]) /\ Len(prog[cur]) \in Nat
      /\ prog[cur][at] = <<o, Arg>>
  BY CurStmt
<1>2. Arg \in OpenCids(prog[cur], at)
  BY <1>1 DEF Body, WellFormed
<1>3. PICK j \in 1..Len(prog[cur]) : OpenAt(prog[cur], j, at) /\ prog[cur][j][2] = Arg
  BY <1>2 DEF OpenCids
<1>4. j \in 1..(at - 1)
  BY <1>3 DEF OpenAt
<1>5. /\ iron[cur][j] \in DOMAIN commIDs
      /\ commIDs[iron[cur][j]] = Arg
      /\ iron[cur][j] \in Nat
      /\ iron[cur][j] >= startingpoint
  <2>1. iron[cur][j] \in DOMAIN commIDs /\ commIDs[iron[cur][j]] = Arg
    BY <1>1, <1>3, <1>4 DEF IInv, TableOK
  <2>2. iron[cur][j] >= startingpoint
    BY <1>1, <2>1 DEF IInv, TableOK
  <2>3. DOMAIN commIDs \subseteq 0..maxcommid /\ maxcommid \in Nat
    BY DEF IInv, TypeOK
  <2> QED BY <2>1, <2>2, <2>3
<1>6. ASSUME NEW i \in DOMAIN commIDs, commIDs[i] = Arg PROVE i = iron[cur][j]
  <2>1. PICK m \in 1..(at - 1) : OpenAt(prog[cur], m, at) /\ iron[cur][m] = i
    BY <1>1, <1>6 DEF IInv, TableOK
  <2>2. prog[cur][m][2] = Arg
    BY <1>1, <1>6, <2>1 DEF IInv, TableOK
  <2>3. at \in 1..(Len(prog[cur]) + 1)
    BY <1>1
  <2>4. m = j
    BY <1>1, <1>3, <2>1, <2>2, <2>3, OpenOnce
  <2> QED BY <2>1, <2>4
<1>7. Uses(Arg) = {iron[cur][j]}
  BY <1>5, <1>6 DEF Uses
<1>8. Least(Uses(Arg)) \in Uses(Arg)
  BY <1>5, <1>7, LeastExists
<1> QED BY <1>3, <1>4, <1>5, <1>6, <1>7, <1>8

-----------------------------------------------------------------------------
(* Every step preserves the invariant.                                     *)

LEMMA HeldFrame ==
  ASSUME prog' = prog, NEW f \in Fcn, NEW k \in Nat,
         \A j \in 1..(k - 1) : iron'[f][j] = iron[f][j]
  PROVE  Held(f, k)' = Held(f, k)
BY DEF Held

\* The ids held at the statement the pass is at are in the table.
LEMMA HeldInTable ==
  ASSUME IInv, cur # NoFcn
  PROVE  Held(cur, at) \subseteq DOMAIN commIDs
BY DEF IInv, TableOK, Held

\* Giving statement at a right id keeps what is scanned right.
LEMMA ScannedIron ==
  ASSUME IInv, NEW o \in {"NEW", "USE", "OLD", "TEMP"}, AtStmt(o),
         NEW id \in Nat, id >= startingpoint,
         o \in {"NEW", "TEMP"} => id \notin DOMAIN commIDs,
         o \in {"USE", "OLD"} =>
           \A j \in 1..(at - 1) :
             OpenAt(prog[cur], j, at) /\ prog[cur][j][2] = Arg => id = iron[cur][j],
         iron' = [iron EXCEPT ![cur][at] = id],
         NextStmt, UNCHANGED <<lo, tasks>>
  PROVE  ScannedOK'
<1>1. /\ cur \in Fcn /\ cur # NoFcn
      /\ at \in 1..Len(prog[cur]) /\ Len(prog[cur]) \in Nat
      /\ prog[cur][at] = <<o, Arg>>
  BY CurStmt
<1>2. /\ prog' = prog /\ cur' = cur /\ at' = at + 1 /\ startingpoint' = startingpoint
      /\ lo' = lo /\ tasks' = tasks
  BY DEF NextStmt
<1>3. /\ \A f \in Fcn \ {cur} : iron'[f] = iron[f]
      /\ \A k \in 1..Len(prog[cur]) : k # at => iron'[cur][k] = iron[cur][k]
      /\ iron'[cur][at] = id
  BY <1>1 DEF IInv, TypeOK
<1> SUFFICES ASSUME NEW f \in Fcn, NEW k \in 1..Scanned(f)'
             PROVE  IdRight(f, k)' /\ CallRight(f, k)'
  BY <1>2 DEF ScannedOK
<1>4. CASE f # cur
  <2>1. Scanned(f)' = Scanned(f)
    BY <1>2, <1>4 DEF Scanned, Pending, Reached
  <2>2. Scanned(f)' \in Nat
    BY <1>2, <1>4, ProgBody DEF Scanned, IInv, TypeOK, Body
  <2>3. IdRight(f, k) /\ CallRight(f, k)
    BY <2>1 DEF IInv, ScannedOK
  <2>4. Held(f, k)' = Held(f, k)
    BY <1>2, <1>3, <1>4, <2>2, HeldFrame
  <2>5. Base(f)' = Base(f)
    BY <1>2, <1>4 DEF Base
  <2> QED BY <1>2, <1>3, <1>4, <2>3, <2>4, <2>5 DEF IdRight, CallRight
<1>5. CASE f = cur
  <2>1. Scanned(f) = at - 1 /\ Scanned(f)' = at
    BY <1>1, <1>2, <1>5 DEF Scanned
  <2>2. k \in 1..at /\ k \in Nat
    BY <1>1, <2>1
  <2>3. \A j \in 1..(k - 1) : iron'[f][j] = iron[f][j]
    BY <1>1, <1>3, <1>5, <2>2
  <2>4. Held(f, k)' = Held(f, k)
    BY <1>2, <2>2, <2>3, HeldFrame
  <2>5. Base(f)' = startingpoint /\ Base(f) = startingpoint
    BY <1>2, <1>5 DEF Base
  <2>6. CASE k = at
    <3>1. Held(f, k) \subseteq DOMAIN commIDs
      BY <1>1, <1>5, <2>6, HeldInTable
    <3> QED
      BY <1>1, <1>2, <1>3, <1>5, <2>3, <2>4, <2>5, <2>6, <3>1 DEF IdRight, CallRight
  <2>7. CASE k # at
    <3>1. IdRight(f, k) /\ CallRight(f, k)
      BY <1>1, <2>1, <2>2, <2>7 DEF IInv, ScannedOK
    <3>2. iron'[f][k] = iron[f][k]
      BY <1>1, <1>3, <1>5, <2>2, <2>7
    <3> QED BY <1>2, <1>5, <2>3, <2>4, <2>5, <3>1, <3>2 DEF IdRight, CallRight
  <2> QED BY <2>6, <2>7
<1> QED BY <1>4, <1>5

\* A statement that opens and closes nothing leaves the table right.
LEMMA TableKept ==
  ASSUME IInv, NEW o \in {"USE", "TEMP", "CALL"}, AtStmt(o),
         \A j \in 1..(at - 1) : iron'[cur][j] = iron[cur][j],
         NextStmt, UNCHANGED commIDs
  PROVE  TableOK'
<1>1. /\ cur \in Fcn /\ cur # NoFcn
      /\ prog[cur] \in Body
      /\ at \in 1..Len(prog[cur]) /\ Len(prog[cur]) \in Nat
      /\ prog[cur][at] = <<o, Arg>>
  BY CurStmt
<1>2. prog' = prog /\ cur' = cur /\ at' = at + 1 /\ startingpoint' = startingpoint
  BY DEF NextStmt
<1>3. ASSUME NEW j \in 1..at
      PROVE  OpenAt(prog[cur], j, at + 1) <=> j # at /\ OpenAt(prog[cur], j, at)
  <2>1. prog[cur][at][1] # "NEW" /\ prog[cur][at] # <<"OLD", prog[cur][j][2]>>
    BY <1>1
  <2>2. ~OpenAt(prog[cur], at, at)
    BY <1>1 DEF OpenAt
  <2>3. \/ j = at /\ prog[cur][at][1] = "NEW"
        \/ OpenAt(prog[cur], j, at) /\ prog[cur][at] # <<"OLD", prog[cur][j][2]>>
        <=> OpenAt(prog[cur], j, at + 1)
    <3>1. j \in Nat
      BY <1>1
    <3> QED BY <1>1, <3>1, OpenNext
  <2> QED BY <2>1, <2>2, <2>3
<1>4. \A j \in 1..at : j # at => j \in 1..(at - 1)
  BY <1>1
<1>5. \A j \in 1..((at + 1) - 1) : j \in 1..at
  BY <1>1
<1>6. \A j \in 1..(at - 1) : j \in 1..((at + 1) - 1) /\ j \in 1..at /\ j # at
  BY <1>1
<1>7. at + 1 <= Len(prog[cur]) + 1
  BY <1>1
<1>8. /\ \A j \in 1..(at - 1) : OpenAt(prog[cur], j, at) =>
           iron[cur][j] \in DOMAIN commIDs /\ commIDs[iron[cur][j]] = prog[cur][j][2]
      /\ \A i \in DOMAIN commIDs : /\ i >= startingpoint
           /\ \E j \in 1..(at - 1) : OpenAt(prog[cur], j, at) /\ iron[cur][j] = i
  BY <1>1 DEF IInv, TableOK
<1>9. ASSUME NEW j \in 1..((at + 1) - 1), OpenAt(prog[cur], j, at + 1)
      PROVE  iron'[cur][j] \in DOMAIN commIDs /\ commIDs[iron'[cur][j]] = prog[cur][j][2]
  <2>1. j \in 1..(at - 1) /\ OpenAt(prog[cur], j, at)
    BY <1>3, <1>4, <1>5, <1>9
  <2> QED BY <1>8, <2>1
<1>10. ASSUME NEW i \in DOMAIN commIDs
       PROVE  /\ i >= startingpoint
              /\ \E j \in 1..((at + 1) - 1) : OpenAt(prog[cur], j, at + 1) /\ iron'[cur][j] = i
  <2>1. PICK j \in 1..(at - 1) : OpenAt(prog[cur], j, at) /\ iron[cur][j] = i
    BY <1>8
  <2>2. OpenAt(prog[cur], j, at + 1) /\ iron'[cur][j] = i
    BY <1>3, <1>6, <2>1
  <2> QED BY <1>6, <1>8, <2>2
<1> QED BY <1>1, <1>2, <1>7, <1>9, <1>10 DEF TableOK

LEMMA LoKept ==
  ASSUME IInv, UNCHANGED <<lo, tasks, cur, startingpoint>>
  PROVE  LoOK'
BY DEF IInv, LoOK, Pending

LEMMA NewIInv == IInv /\ New => IInv'
<1> SUFFICES ASSUME IInv, New PROVE IInv'
  OBVIOUS
<1> DEFINE id == Least(FreeIds(commIDs))
<1>1. /\ cur \in Fcn /\ cur # NoFcn
      /\ prog[cur] \in Body
      /\ at \in 1..Len(prog[cur]) /\ Len(prog[cur]) \in Nat
      /\ prog[cur][at] = <<"NEW", Arg>>
  BY CurStmt DEF New
<1>2. id \in Nat /\ id >= startingpoint /\ id \notin DOMAIN commIDs
  BY NewId DEF IInv
<1>3. /\ iron' = [iron EXCEPT ![cur][at] = id]
      /\ maxcommid' = IF id > maxcommid THEN id ELSE maxcommid
  BY DEF New, GetNewCommID
<1>4. /\ prog' = prog /\ cur' = cur /\ at' = at + 1 /\ startingpoint' = startingpoint
      /\ lo' = lo /\ tasks' = tasks /\ fatal' = fatal
  BY DEF New, NextStmt
<1>5. /\ iron'[cur][at] = id
      /\ \A j \in 1..(at - 1) : iron'[cur][j] = iron[cur][j]
  BY <1>1, <1>3 DEF IInv, TypeOK
<1>6. commIDs' = [i \in DOMAIN commIDs \cup {id} |-> IF i = id THEN Arg ELSE commIDs[i]]
  BY <1>5 DEF New
<1> HIDE DEF id
<1>7. Arg \in Cid
  BY <1>1, BodyStmt
<1>8. TypeOK'
  <2>1. maxcommid' \in Nat /\ maxcommid <= maxcommid' /\ id <= maxcommid'
    BY <1>2, <1>3 DEF IInv, TypeOK
  <2>2. DOMAIN commIDs' \subseteq 0..maxcommid'
    BY <1>2, <1>6, <2>1 DEF IInv, TypeOK
  <2>3. commIDs' \in [DOMAIN commIDs' -> Cid]
    BY <1>6, <1>7 DEF IInv, TypeOK
  <2>4. DOMAIN iron' = Fcn /\ \A f \in Fcn : iron'[f] \in [1..Len(prog'[f]) -> 0..maxcommid']
    BY <1>1, <1>2, <1>3, <1>4, <2>1, SMTT(30) DEF IInv, TypeOK
  <2>5. at' \in Nat \ {0}
    BY <1>1, <1>4
  <2> QED BY <1>4, <2>1, <2>2, <2>3, <2>4, <2>5 DEF IInv, TypeOK
<1>9. LoOK'
  BY <1>4, LoKept
<1>10. TableOK'
  <2>1. ASSUME NEW j \in 1..at
        PROVE  OpenAt(prog[cur], j, at + 1) <=> j = at \/ OpenAt(prog[cur], j, at)
    BY <1>1, OpenNext
  <2>2. \A j \in 1..at : j # at => j \in 1..(at - 1)
    BY <1>1
  <2>3. \A j \in 1..at : OpenAt(prog[cur], j, at + 1) =>
          /\ iron'[cur][j] \in DOMAIN commIDs'
          /\ commIDs'[iron'[cur][j]] = prog[cur][j][2]
    <3> SUFFICES ASSUME NEW j \in 1..at, OpenAt(prog[cur], j, at + 1)
                 PROVE  /\ iron'[cur][j] \in DOMAIN commIDs'
                        /\ commIDs'[iron'[cur][j]] = prog[cur][j][2]
      OBVIOUS
    <3>1. CASE j = at
      <4>1. prog[cur][j][2] = Arg
        BY <1>1, <3>1
      <4> QED BY <1>5, <1>6, <3>1, <4>1
    <3>2. CASE j # at
      <4>1. j \in 1..(at - 1) /\ OpenAt(prog[cur], j, at)
        BY <2>1, <2>2, <3>2
      <4>2. iron[cur][j] \in DOMAIN commIDs /\ commIDs[iron[cur][j]] = prog[cur][j][2]
        BY <1>1, <4>1 DEF IInv, TableOK
      <4> QED BY <1>2, <1>5, <1>6, <4>1, <4>2
    <3> QED BY <3>1, <3>2
  <2>4. ASSUME NEW i \in DOMAIN commIDs'
        PROVE  /\ i >= startingpoint
               /\ \E j \in 1..at : OpenAt(prog[cur], j, at + 1) /\ iron'[cur][j] = i
    <3>1. CASE i = id
      BY <1>1, <1>2, <1>5, <2>1, <3>1
    <3>2. CASE i # id
      <4>1. PICK j \in 1..(at - 1) : OpenAt(prog[cur], j, at) /\ iron[cur][j] = i
        BY <1>1, <1>6, <3>2 DEF IInv, TableOK
      <4>2. j \in 1..at
        BY <1>1
      <4>3. i >= startingpoint
        BY <1>1, <1>6, <3>2 DEF IInv, TableOK
      <4> QED BY <1>5, <2>1, <4>1, <4>2, <4>3
    <3> QED BY <3>1, <3>2
  <2>5. at + 1 <= Len(prog[cur]) + 1 /\ (at + 1) - 1 = at
    BY <1>1
  <2> QED BY <1>1, <1>4, <2>3, <2>4, <2>5 DEF TableOK
<1>11. ScannedOK'
  <2>1. AtStmt("NEW") /\ NextStmt /\ UNCHANGED <<lo, tasks>>
    BY DEF New
  <2> QED BY <1>2, <1>3, <2>1, ScannedIron
<1> QED BY <1>8, <1>9, <1>10, <1>11 DEF IInv

LEMMA TemporaryIInv == IInv /\ Temporary => IInv'
<1> SUFFICES ASSUME IInv, Temporary PROVE IInv'
  OBVIOUS
<1> DEFINE id == Least(FreeIds(commIDs))
<1>1. /\ cur \in Fcn /\ cur # NoFcn
      /\ at \in 1..Len(prog[cur]) /\ Len(prog[cur]) \in Nat
  BY CurStmt DEF Temporary
<1>2. id \in Nat /\ id >= startingpoint /\ id \notin DOMAIN commIDs
  BY NewId DEF IInv
<1>3. /\ iron' = [iron EXCEPT ![cur][at] = id]
      /\ maxcommid' = IF id > maxcommid THEN id ELSE maxcommid
  BY DEF Temporary, GetNewCommID
<1>4. /\ prog' = prog /\ cur' = cur /\ at' = at + 1 /\ startingpoint' = startingpoint
      /\ lo' = lo /\ tasks' = tasks /\ fatal' = fatal /\ commIDs' = commIDs
  BY DEF Temporary, NextStmt
<1>5. \A j \in 1..(at - 1) : iron'[cur][j] = iron[cur][j]
  BY <1>1, <1>3 DEF IInv, TypeOK
<1> HIDE DEF id
<1>6. AtStmt("TEMP") /\ NextStmt /\ UNCHANGED <<lo, tasks, commIDs>>
  BY DEF Temporary
<1>7. TypeOK'
  <2>1. maxcommid' \in Nat /\ maxcommid <= maxcommid' /\ id <= maxcommid'
    BY <1>2, <1>3 DEF IInv, TypeOK
  <2>2. DOMAIN iron' = Fcn /\ \A f \in Fcn : iron'[f] \in [1..Len(prog'[f]) -> 0..maxcommid']
    BY <1>1, <1>2, <1>3, <1>4, <2>1, SMTT(30) DEF IInv, TypeOK
  <2>3. at' \in Nat \ {0} /\ DOMAIN commIDs' \subseteq 0..maxcommid'
    BY <1>1, <1>4, <2>1 DEF IInv, TypeOK
  <2> QED BY <1>4, <2>1, <2>2, <2>3 DEF IInv, TypeOK
<1>8. LoOK'
  BY <1>4, LoKept
<1>9. TableOK'
  BY <1>5, <1>6, TableKept
<1>10. ScannedOK'
  BY <1>2, <1>3, <1>6, ScannedIron
<1> QED BY <1>7, <1>8, <1>9, <1>10 DEF IInv

\* The internal error of GetExistingCommID does not happen.
LEMMA ExistingStep ==
  ASSUME IInv, NEW o \in {"USE", "OLD"}, NEW ids, Existing(o, ids)
  PROVE  /\ AtStmt(o) /\ NextStmt /\ UNCHANGED <<lo, tasks, fatal, maxcommid>>
         /\ commIDs' = ids
         /\ iron' = [iron EXCEPT ![cur][at] = Least(Uses(Arg))]
BY ExistingId DEF Existing

LEMMA ExistingIInv ==
  ASSUME IInv, NEW o \in {"USE", "OLD"}, NEW ids, Existing(o, ids),
         DOMAIN ids \subseteq DOMAIN commIDs, ids \in [DOMAIN ids -> Cid]
  PROVE  TypeOK' /\ LoOK' /\ ScannedOK'
<1>1. /\ cur \in Fcn /\ cur # NoFcn
      /\ prog[cur] \in Body
      /\ at \in 1..Len(prog[cur]) /\ Len(prog[cur]) \in Nat
  BY CurStmt, ExistingStep
<1>2. AtStmt(o) /\ NextStmt /\ UNCHANGED <<lo, tasks, fatal, maxcommid>>
  BY ExistingStep
<1>3. PICK j \in 1..(at - 1) :
        /\ OpenAt(prog[cur], j, at)
        /\ prog[cur][j][2] = Arg
        /\ iron[cur][j] \in Nat
        /\ iron[cur][j] >= startingpoint
        /\ Least(Uses(Arg)) = iron[cur][j]
  BY <1>2, ExistingId
<1>4. iron' = [iron EXCEPT ![cur][at] = iron[cur][j]] /\ commIDs' = ids
  BY <1>3, ExistingStep
<1>5. TypeOK'
  <2>1. j \in 1..Len(prog[cur])
    BY <1>1
  <2>2. DOMAIN iron' = Fcn /\ \A f \in Fcn : iron'[f] \in [1..Len(prog[f]) -> 0..maxcommid]
    BY <1>1, <1>4, <2>1 DEF IInv, TypeOK
  <2>3. at' \in Nat \ {0}
    BY <1>1, <1>2 DEF NextStmt
  <2>4. DOMAIN commIDs' \subseteq 0..maxcommid /\ commIDs' \in [DOMAIN commIDs' -> Cid]
    BY <1>4 DEF IInv, TypeOK
  <2> QED BY <1>2, <2>2, <2>3, <2>4 DEF IInv, TypeOK, NextStmt
<1>6. LoOK'
  BY <1>2, LoKept DEF NextStmt
<1>7. ASSUME NEW i \in 1..(at - 1), OpenAt(prog[cur], i, at), prog[cur][i][2] = Arg
      PROVE  iron[cur][j] = iron[cur][i]
  <2>1. at \in 1..(Len(prog[cur]) + 1) /\ i \in Nat /\ j \in Nat
    BY <1>1
  <2> QED BY <1>1, <1>3, <1>7, <2>1, OpenOnce
<1>8. ScannedOK'
  BY <1>2, <1>3, <1>4, <1>7, ScannedIron
<1> QED BY <1>5, <1>6, <1>8

LEMMA UseIInv == IInv /\ Use => IInv'
<1> SUFFICES ASSUME IInv, Use PROVE IInv'
  OBVIOUS
<1>1. TypeOK' /\ LoOK' /\ ScannedOK'
  BY ExistingIInv DEF Use, IInv, TypeOK
<1>2. AtStmt("USE") /\ NextStmt /\ commIDs' = commIDs
  BY ExistingStep DEF Use
<1>3. \A j \in 1..(at - 1) : iron'[cur][j] = iron[cur][j]
  <2>1. cur \in Fcn /\ at \in 1..Len(prog[cur]) /\ Len(prog[cur]) \in Nat
    BY <1>2, CurStmt
  <2>2. iron' = [iron EXCEPT ![cur][at] = Least(Uses(Arg))]
    BY ExistingStep DEF Use
  <2> QED BY <2>1, <2>2 DEF IInv, TypeOK
<1>4. TableOK'
  BY <1>2, <1>3, TableKept
<1> QED BY <1>1, <1>4 DEF IInv

LEMMA OldIInv == IInv /\ Old => IInv'
<1> SUFFICES ASSUME IInv, Old PROVE IInv'
  OBVIOUS
<1>1. /\ AtStmt("OLD") /\ NextStmt
      /\ commIDs' = FreeCommID(commIDs, Arg)
      /\ iron' = [iron EXCEPT ![cur][at] = Least(Uses(Arg))]
  BY ExistingStep DEF Old
<1>2. /\ cur \in Fcn /\ cur # NoFcn
      /\ prog[cur] \in Body
      /\ at \in 1..Len(prog[cur]) /\ Len(prog[cur]) \in Nat
      /\ prog[cur][at] = <<"OLD", Arg>>
  BY <1>1, CurStmt
<1>3. PICK m \in 1..(at - 1) :
        /\ OpenAt(prog[cur], m, at)
        /\ prog[cur][m][2] = Arg
        /\ iron[cur][m] \in Nat
        /\ iron[cur][m] \in DOMAIN commIDs
        /\ \A i \in DOMAIN commIDs : commIDs[i] = Arg <=> i = iron[cur][m]
  BY <1>1, ExistingId
<1>4. commIDs' = [i \in DOMAIN commIDs \ {iron[cur][m]} |-> commIDs[i]]
  <2>1. {i \in DOMAIN commIDs : commIDs[i] = Arg} = {iron[cur][m]}
    BY <1>3
  <2>2. Least({iron[cur][m]}) \in {iron[cur][m]}
    BY <1>3, LeastExists
  <2> QED BY <1>1, <2>1, <2>2 DEF FreeCommID
<1>5. TypeOK' /\ LoOK' /\ ScannedOK'
  <2>1. DOMAIN commIDs' \subseteq DOMAIN commIDs /\ commIDs' \in [DOMAIN commIDs' -> Cid]
    BY <1>4 DEF IInv, TypeOK
  <2>2. Existing("OLD", commIDs')
    BY <1>1 DEF Old
  <2> QED BY <2>1, <2>2, ExistingIInv
<1>6. TableOK'
  <2>1. ASSUME NEW j \in 1..at
        PROVE  OpenAt(prog[cur], j, at + 1) <=>
                 j # at /\ OpenAt(prog[cur], j, at) /\ prog[cur][j][2] # Arg
    <3>1. ~OpenAt(prog[cur], at, at)
      BY <1>2 DEF OpenAt
    <3>2. j \in Nat /\ prog[cur][at][1] # "NEW"
      BY <1>2
    <3>3. prog[cur][at] # <<"OLD", prog[cur][j][2]>> <=> prog[cur][j][2] # Arg
      BY <1>2
    <3>4. OpenAt(prog[cur], j, at + 1) <=>
            \/ j = at /\ prog[cur][at][1] = "NEW"
            \/ OpenAt(prog[cur], j, at) /\ prog[cur][at] # <<"OLD", prog[cur][j][2]>>
      BY <1>2, <3>2, OpenNext
    <3> QED BY <3>1, <3>2, <3>3, <3>4, Zenon
  <2>2. \A j \in 1..at : j # at => j \in 1..(at - 1)
    BY <1>2
  <2>3. \A j \in 1..(at - 1) : j \in 1..at /\ j # at
    BY <1>2
  <2>4. \A j \in 1..(at - 1) : iron'[cur][j] = iron[cur][j]
    BY <1>1, <1>2 DEF IInv, TypeOK
  <2>5. \A j \in 1..at : OpenAt(prog[cur], j, at + 1) =>
          /\ iron'[cur][j] \in DOMAIN commIDs'
          /\ commIDs'[iron'[cur][j]] = prog[cur][j][2]
    <3> SUFFICES ASSUME NEW j \in 1..at, OpenAt(prog[cur], j, at + 1)
                 PROVE  /\ iron'[cur][j] \in DOMAIN commIDs'
                        /\ commIDs'[iron'[cur][j]] = prog[cur][j][2]
      OBVIOUS
    <3>1. j \in 1..(at - 1) /\ OpenAt(prog[cur], j, at) /\ prog[cur][j][2] # Arg
      BY <2>1, <2>2
    <3>2. iron[cur][j] \in DOMAIN commIDs /\ commIDs[iron[cur][j]] = prog[cur][j][2]
      BY <1>2, <3>1 DEF IInv, TableOK
    <3> QED BY <1>3, <1>4, <2>4, <3>1, <3>2
  <2>6. ASSUME NEW i \in DOMAIN commIDs'
        PROVE  /\ i >= startingpoint
               /\ \E j \in 1..at : OpenAt(prog[cur], j, at + 1) /\ iron'[cur][j] = i
    <3>1. i \in DOMAIN commIDs /\ commIDs[i] # Arg
      BY <1>3, <1>4
    <3>2. PICK j \in 1..(at - 1) : OpenAt(prog[cur], j, at) /\ iron[cur][j] = i
      BY <1>2, <3>1 DEF IInv, TableOK
    <3>3. prog[cur][j][2] # Arg
      BY <1>2, <3>1, <3>2 DEF IInv, TableOK
    <3>4. i >= startingpoint
      BY <1>2, <3>1 DEF IInv, TableOK
    <3> QED BY <2>1, <2>3, <2>4, <3>2, <3>3, <3>4
  <2>7. at + 1 <= Len(prog[cur]) + 1 /\ (at + 1) - 1 = at
    BY <1>2
  <2>8. prog' = prog /\ cur' = cur /\ at' = at + 1 /\ startingpoint' = startingpoint
    BY <1>1 DEF NextStmt
  <2> QED BY <1>2, <2>5, <2>6, <2>7, <2>8 DEF TableOK
<1> QED BY <1>5, <1>6 DEF IInv
\* What is right stays so when the ids stay and lo does not fall.
LEMMA RightKept ==
  ASSUME UNCHANGED <<prog, iron>>, lo \in [Fcn -> Int], lo' \in [Fcn -> Int],
         \A g \in Fcn : lo'[g] >= lo[g], TypeOK,
         NEW f \in Fcn, NEW k \in 1..Len(prog[f]), Base(f)' = Base(f),
         IdRight(f, k), CallRight(f, k)
  PROVE  IdRight(f, k)' /\ CallRight(f, k)'
<1>1. prog[f] \in Body /\ k \in Nat
  BY ProgBody DEF Body
<1>2. Held(f, k)' = Held(f, k)
  BY <1>1, HeldFrame
<1>3. IdRight(f, k)'
  BY <1>2 DEF IdRight
<1>4. ASSUME prog[f][k][1] = "CALL" PROVE \A id \in Held(f, k) : id < lo'[prog[f][k][2]]
  <2>1. prog[f][k][2] \in Fcn
    BY <1>1, <1>4, BodyStmt
  <2>2. \A id \in Held(f, k) : id \in Int
    <3> SUFFICES ASSUME NEW j \in 1..(k - 1) PROVE iron[f][j] \in Int
      BY DEF Held
    <3>1. j \in 1..Len(prog[f])
      BY <1>1 DEF Body
    <3> QED BY <3>1 DEF TypeOK
  <2> QED BY <1>4, <2>1, <2>2 DEF CallRight
<1> QED BY <1>2, <1>3, <1>4 DEF CallRight

LEMMA GetTaskIInv == IInv /\ GetTask => IInv'
<1> SUFFICES ASSUME IInv, GetTask PROVE IInv'
  OBVIOUS
<1> DEFINE h == Head(tasks)
<1>1. /\ tasks \in Seq(Fcn) /\ tasks # <<>> /\ Len(tasks) \in Nat \ {0}
      /\ h = tasks[1] /\ h \in Fcn
      /\ tasks' \in Seq(Fcn) /\ Len(tasks') = Len(tasks) - 1
      /\ \A i \in 1..Len(tasks') : i + 1 \in 1..Len(tasks) /\ tasks'[i] = tasks[i + 1]
  BY DEF GetTask, IInv, TypeOK
<1>2. /\ cur = NoFcn /\ cur' = h /\ at' = 1 /\ startingpoint' = lo[h]
      /\ prog' = prog /\ lo' = lo /\ commIDs' = commIDs /\ maxcommid' = maxcommid
      /\ iron' = iron /\ fatal' = fatal
  BY DEF GetTask
<1> HIDE DEF h
<1>3. lo[h] >= 0 /\ lo[h] \in Nat
  <2>1. 1 \in 1..Len(tasks)
    BY <1>1
  <2>2. lo[h] >= 0
    BY <1>1, <2>1 DEF IInv, LoOK
  <2> QED BY <1>1, <2>2 DEF IInv, TypeOK
<1>4. h # NoFcn /\ prog[h] \in Body /\ Len(prog[h]) \in Nat
  BY <1>1, EntryAssumption, ProgBody DEF IInv, Body
<1>5. TypeOK'
  BY <1>1, <1>2, <1>3 DEF IInv, TypeOK
<1>6. LoOK'
  BY <1>1, <1>2, <1>3 DEF IInv, LoOK
<1>7. TableOK'
  <2>1. DOMAIN commIDs = {}
    BY <1>2 DEF IInv, TableOK
  <2> QED BY <1>2, <1>4, <2>1 DEF TableOK
<1>8. ScannedOK'
  <2> SUFFICES ASSUME NEW f \in Fcn, NEW k \in 1..Scanned(f)'
               PROVE  IdRight(f, k)' /\ CallRight(f, k)'
    BY DEF ScannedOK
  <2>1. f # h
    BY <1>2 DEF Scanned
  <2>2. f # cur
    BY <1>2, EntryAssumption
  <2>3. Pending(f) => Pending(f)'
    <3> SUFFICES ASSUME NEW i \in 1..Len(tasks), tasks[i] = f PROVE Pending(f)'
      BY DEF Pending
    <3>1. i # 1 /\ i - 1 \in 1..Len(tasks') /\ (i - 1) + 1 = i
      BY <1>1, <2>1
    <3>2. tasks'[i - 1] = f
      BY <1>1, <3>1
    <3> QED BY <3>1, <3>2 DEF Pending
  <2>4. Scanned(f)' = Len(prog[f]) /\ Scanned(f) = Len(prog[f])
    BY <1>2, <2>1, <2>2, <2>3 DEF Scanned, Reached
  <2>5. Base(f)' = Base(f)
    BY <1>2, <2>1, <2>2 DEF Base
  <2>6. IdRight(f, k) /\ CallRight(f, k) /\ k \in 1..Len(prog[f])
    BY <2>4 DEF IInv, ScannedOK
  <2>7. lo \in [Fcn -> Int] /\ \A g \in Fcn : lo[g] >= lo[g]
    BY DEF IInv, TypeOK
  <2>8. TypeOK
    BY DEF IInv
  <2> QED BY <1>2, <2>5, <2>6, <2>7, <2>8, RightKept
<1> QED BY <1>5, <1>6, <1>7, <1>8 DEF IInv

LEMMA CallIInv == IInv /\ Call => IInv'
<1> SUFFICES ASSUME IInv, Call PROVE IInv'
  OBVIOUS
<1>1. /\ cur \in Fcn /\ cur # NoFcn
      /\ prog[cur] \in Body
      /\ at \in 1..Len(prog[cur]) /\ Len(prog[cur]) \in Nat
      /\ prog[cur][at] = <<"CALL", Arg>>
  BY CurStmt DEF Call
<1>2. /\ prog' = prog /\ cur' = cur /\ at' = at + 1 /\ startingpoint' = startingpoint
      /\ commIDs' = commIDs /\ maxcommid' = maxcommid /\ iron' = iron /\ fatal' = fatal
  BY DEF Call, NextStmt
<1>3. Arg \in Fcn
  BY <1>1, BodyStmt
<1>4. FindTopCommID \in Nat /\ FindTopCommID <= MaxLo /\ MaxLo \in Nat
  BY TopId, MaxLoAssumption DEF Call, Bounded, IInv
<1>5. lo \in [Fcn -> -1..MaxLo] /\ tasks \in Seq(Fcn) /\ Len(tasks) \in Nat
  BY DEF IInv, TypeOK
<1>6. /\ lo' \in [Fcn -> -1..MaxLo] /\ tasks' \in Seq(Fcn)
      /\ \A f \in Fcn : lo'[f] >= lo[f]
      /\ lo'[Arg] >= FindTopCommID
  <2>1. CASE Raises(Arg)
    <3>1. lo' = [lo EXCEPT ![Arg] = FindTopCommID] /\ tasks' = Append(tasks, Arg)
      BY <2>1 DEF Call, AddTask
    <3>2. FindTopCommID > lo[Arg]
      BY <2>1 DEF Raises
    <3> QED BY <1>3, <1>4, <1>5, <3>1, <3>2
  <2>2. CASE ~Raises(Arg)
    <3>1. lo' = lo /\ tasks' = tasks
      BY <2>2 DEF Call
    <3>2. ~(FindTopCommID > lo[Arg])
      BY <2>2 DEF Raises
    <3> QED BY <1>3, <1>4, <1>5, <3>1, <3>2
  <2> QED BY <2>1, <2>2
<1>7. /\ \A f \in Fcn : Pending(f) => Pending(f)'
      /\ \A f \in Fcn : lo'[f] = lo[f] \/ Pending(f)'
      /\ \A i \in 1..Len(tasks') : lo'[tasks'[i]] >= 0
  <2>1. CASE Raises(Arg)
    <3>1. lo' = [lo EXCEPT ![Arg] = FindTopCommID] /\ tasks' = Append(tasks, Arg)
      BY <2>1 DEF Call, AddTask
    <3>2. /\ Len(tasks') = Len(tasks) + 1
          /\ \A i \in 1..Len(tasks) : tasks'[i] = tasks[i]
          /\ tasks'[Len(tasks) + 1] = Arg
      BY <1>3, <1>5, <3>1
    <3>3. \E i \in 1..Len(tasks') : tasks'[i] = Arg
      BY <1>5, <3>2
    <3>4. \A f \in Fcn : Pending(f) => Pending(f)'
      BY <1>5, <3>2 DEF Pending
    <3>5. \A f \in Fcn : lo'[f] = lo[f] \/ Pending(f)'
      BY <1>3, <1>5, <3>1, <3>3 DEF Pending
    <3>6. ASSUME NEW i \in 1..Len(tasks') PROVE lo'[tasks'[i]] >= 0
      <4>1. CASE i = Len(tasks) + 1
        BY <1>3, <1>4, <1>5, <3>1, <3>2, <4>1
      <4>2. CASE i # Len(tasks) + 1
        <5>1. i \in 1..Len(tasks) /\ tasks[i] \in Fcn /\ tasks'[i] = tasks[i]
          BY <1>5, <3>2, <4>2
        <5>2. lo[tasks[i]] >= 0
          BY <5>1 DEF IInv, LoOK
        <5> QED BY <1>5, <1>6, <5>1, <5>2, SMTT(30)
      <4> QED BY <4>1, <4>2
    <3> QED BY <3>4, <3>5, <3>6
  <2>2. CASE ~Raises(Arg)
    BY <2>2 DEF Call, Pending, IInv, LoOK
  <2> QED BY <2>1, <2>2
<1>8. TypeOK'
  BY <1>1, <1>2, <1>6, SMTT(30) DEF IInv, TypeOK
<1>9. LoOK'
  <2>1. lo[cur] >= 0 /\ (Pending(cur) \/ startingpoint = lo[cur])
    BY <1>1 DEF IInv, LoOK
  <2>2. lo'[cur] >= 0
    BY <1>1, <1>5, <1>6, <2>1
  <2>3. Pending(cur)' \/ startingpoint = lo'[cur]
    BY <1>1, <1>2, <1>7, <2>1 DEF Pending
  <2> QED BY <1>2, <1>7, <2>2, <2>3 DEF LoOK, Pending
<1>10. TableOK'
  <2>1. AtStmt("CALL") /\ NextStmt /\ UNCHANGED commIDs
    BY DEF Call
  <2>2. \A j \in 1..(at - 1) : iron'[cur][j] = iron[cur][j]
    BY <1>2
  <2> QED BY <2>1, <2>2, TableKept
<1>11. ScannedOK'
  <2> SUFFICES ASSUME NEW f \in Fcn, NEW k \in 1..Scanned(f)'
               PROVE  IdRight(f, k)' /\ CallRight(f, k)'
    BY DEF ScannedOK
  <2>1. Base(f)' = Base(f) \/ (f # cur /\ Pending(f)')
    BY <1>2, <1>7 DEF Base
  <2>2. lo \in [Fcn -> Int] /\ lo' \in [Fcn -> Int]
    BY <1>5, <1>6
  <2>3. TypeOK /\ UNCHANGED <<prog, iron>>
    BY <1>2 DEF IInv
  <2>4. CASE f # cur
    <3>1. ~Pending(f)'
      <4> SUFFICES ASSUME Pending(f)' PROVE Scanned(f)' = 0
        OBVIOUS
      <4> QED BY <1>2, <2>4 DEF Scanned
    <3>2. lo'[f] = lo[f] /\ ~Pending(f)
      BY <1>7, <3>1
    <3>3. Scanned(f)' = Len(prog[f]) /\ Scanned(f) = Len(prog[f])
      BY <1>2, <2>4, <3>1, <3>2 DEF Scanned, Reached
    <3>4. IdRight(f, k) /\ CallRight(f, k) /\ k \in 1..Len(prog[f])
      BY <3>3 DEF IInv, ScannedOK
    <3> QED BY <1>6, <2>1, <2>2, <2>3, <3>1, <3>4, RightKept
  <2>5. CASE f = cur
    <3>1. Scanned(f)' = at /\ Scanned(f) = at - 1
      BY <1>1, <1>2, <2>5 DEF Scanned
    <3>2. CASE k = at
      <4>1. IdRight(f, k)'
        BY <1>1, <1>2, <2>5, <3>2 DEF IdRight
      <4>2. Held(f, k)' = Held(f, k)
        BY <1>1, <1>2, <3>2, HeldFrame
      <4>3. Held(f, k) \subseteq DOMAIN commIDs /\ DOMAIN commIDs \subseteq Nat
        BY <1>1, <2>5, <3>2, HeldInTable DEF IInv, TypeOK
      <4>4. \A id \in DOMAIN commIDs : id < FindTopCommID
        BY <2>3, TopId
      <4>5. \A id \in Held(f, k) : id < lo'[Arg]
        BY <1>3, <1>4, <1>6, <2>2, <4>3, <4>4
      <4> QED BY <1>1, <1>2, <2>5, <3>2, <4>1, <4>2, <4>5 DEF CallRight
    <3>3. CASE k # at
      <4>1. k \in 1..Scanned(f) /\ k \in 1..Len(prog[f])
        BY <1>1, <2>5, <3>1, <3>3
      <4>2. IdRight(f, k) /\ CallRight(f, k)
        BY <4>1 DEF IInv, ScannedOK
      <4> QED BY <1>6, <2>1, <2>2, <2>3, <2>5, <4>1, <4>2, RightKept
    <3> QED BY <3>2, <3>3
  <2> QED BY <2>4, <2>5
<1> QED BY <1>8, <1>9, <1>10, <1>11 DEF IInv

LEMMA EndFunctionIInv == IInv /\ EndFunction => IInv'
<1> SUFFICES ASSUME IInv, EndFunction PROVE IInv'
  OBVIOUS
<1>1. /\ cur # NoFcn /\ cur \in Fcn /\ at > Len(prog[cur]) /\ cur' = NoFcn
      /\ prog' = prog /\ lo' = lo /\ tasks' = tasks /\ at' = at
      /\ startingpoint' = startingpoint /\ commIDs' = commIDs
      /\ maxcommid' = maxcommid /\ iron' = iron /\ fatal' = fatal
  BY DEF EndFunction, IInv, TypeOK
<1>2. prog[cur] \in Body /\ Len(prog[cur]) \in Nat
  BY <1>1, ProgBody DEF IInv, Body
<1>3. at = Len(prog[cur]) + 1
  BY <1>1, <1>2 DEF IInv, TypeOK, TableOK
<1>4. DOMAIN commIDs = {}
  <2> SUFFICES ASSUME NEW i \in DOMAIN commIDs PROVE FALSE
    OBVIOUS
  <2>1. PICK j \in 1..(at - 1) : OpenAt(prog[cur], j, at)
    BY <1>1 DEF IInv, TableOK
  <2>2. prog[cur][j][2] \in OpenCids(prog[cur], Len(prog[cur]) + 1)
    BY <1>2, <1>3, <2>1 DEF OpenCids
  <2> QED BY <1>2, <2>2 DEF Body, WellFormed
<1>5. TypeOK'
  BY <1>1 DEF IInv, TypeOK
<1>6. LoOK'
  BY <1>1 DEF IInv, LoOK
<1>7. TableOK'
  BY <1>1, <1>4 DEF TableOK
<1>8. ScannedOK'
  <2> SUFFICES ASSUME NEW f \in Fcn, NEW k \in 1..Scanned(f)'
               PROVE  IdRight(f, k)' /\ CallRight(f, k)'
    BY DEF ScannedOK
  <2>1. f # NoFcn
    BY EntryAssumption
  <2>2. ~Pending(f)
    <3> SUFFICES ASSUME Pending(f) PROVE Scanned(f)' = 0
      OBVIOUS
    <3> QED BY <1>1, <2>1 DEF Scanned, Pending
  <2>3. Scanned(f)' = Len(prog[f])
    BY <1>1, <2>1 DEF Scanned, Reached, Pending
  <2>4. Scanned(f) = Len(prog[f])
    BY <1>1, <1>2, <1>3, <2>1, <2>3 DEF Scanned, Reached, Pending
  <2>5. Base(f)' = Base(f)
    BY <1>1, <2>1, <2>2 DEF Base, IInv, LoOK
  <2>6. IdRight(f, k) /\ CallRight(f, k) /\ k \in 1..Len(prog[f])
    BY <2>3, <2>4 DEF IInv, ScannedOK
  <2>7. lo \in [Fcn -> Int] /\ \A g \in Fcn : lo[g] >= lo[g]
    BY DEF IInv, TypeOK
  <2>8. TypeOK
    BY DEF IInv
  <2> QED BY <1>1, <2>5, <2>6, <2>7, <2>8, RightKept
<1> QED BY <1>5, <1>6, <1>7, <1>8 DEF IInv

\* Giving up, or standing still, disturbs nothing.
LEMMA Undisturbed ==
  ASSUME IInv, UNCHANGED <<walk, commIDs, maxcommid, iron>>, fatal' \in BOOLEAN
  PROVE  IInv'
<1>1. /\ prog' = prog /\ lo' = lo /\ tasks' = tasks /\ cur' = cur /\ at' = at
      /\ startingpoint' = startingpoint /\ commIDs' = commIDs
      /\ maxcommid' = maxcommid /\ iron' = iron
  BY DEF walk
<1>2. TypeOK'
  BY <1>1, Zenon DEF IInv, TypeOK
<1>3. LoOK'
  BY <1>1 DEF IInv, LoOK, Pending
<1>4. TableOK'
  BY <1>1 DEF IInv, TableOK
<1>5. ScannedOK'
  <2> SUFFICES ASSUME NEW f \in Fcn, NEW k \in 1..Scanned(f)'
               PROVE  IdRight(f, k)' /\ CallRight(f, k)'
    BY DEF ScannedOK
  <2>1. Scanned(f)' = Scanned(f) /\ Base(f)' = Base(f)
    BY <1>1 DEF Scanned, Base, Pending, Reached
  <2>2. IdRight(f, k) /\ CallRight(f, k)
    BY <2>1 DEF IInv, ScannedOK
  <2>3. prog[f] \in Body /\ Len(prog[f]) \in Nat
    BY ProgBody DEF IInv, Body
  <2>4. k \in 1..Len(prog[f])
    <3>1. Scanned(f) \in 0..Len(prog[f])
      <4>1. CASE f = cur
        <5>1. at \in Nat \ {0} /\ f # NoFcn
          BY EntryAssumption DEF IInv, TypeOK
        <5>2. at <= Len(prog[f]) + 1
          BY <4>1, <5>1 DEF IInv, TableOK
        <5> QED BY <2>3, <4>1, <5>1, <5>2 DEF Scanned
      <4>2. CASE f # cur
        BY <2>3, <4>2 DEF Scanned
      <4> QED BY <4>1, <4>2
    <3> QED BY <2>1, <2>3, <3>1
  <2>5. lo \in [Fcn -> Int] /\ \A g \in Fcn : lo[g] >= lo[g]
    BY DEF IInv, TypeOK
  <2>6. TypeOK
    BY DEF IInv
  <2> QED BY <1>1, <2>1, <2>2, <2>4, <2>5, <2>6, RightKept
<1> QED BY <1>2, <1>3, <1>4, <1>5 DEF IInv

LEMMA NextIInv == IInv /\ [Next]_vars => IInv'
<1> SUFFICES ASSUME IInv, [Next]_vars PROVE IInv'
  OBVIOUS
<1>1. CASE GetTask
  BY <1>1, GetTaskIInv
<1>2. CASE New
  BY <1>2, NewIInv
<1>3. CASE Use
  BY <1>3, UseIInv
<1>4. CASE Old
  BY <1>4, OldIInv
<1>5. CASE Temporary
  BY <1>5, TemporaryIInv
<1>6. CASE Call
  BY <1>6, CallIInv
<1>7. CASE TooHigh
  <2>1. fatal' \in BOOLEAN
    BY <1>7, Zenon DEF TooHigh
  <2> QED BY <1>7, <2>1, Undisturbed DEF TooHigh
<1>8. CASE EndFunction
  BY <1>8, EndFunctionIInv
<1>9. CASE UNCHANGED vars
  <2>1. fatal' \in BOOLEAN
    BY <1>9, Zenon DEF vars, IInv, TypeOK
  <2> QED BY <1>9, <2>1, Undisturbed DEF vars
<1> QED
  BY <1>1, <1>2, <1>3, <1>4, <1>5, <1>6, <1>7, <1>8, <1>9, Zenon DEF Next, Step, Terminated

LEMMA Invariance == Spec => []IInv
BY InitIInv, NextIInv, PTL DEF Spec

\* The pass stays within its types: in particular lo never passes the bound,
\* and the table of ids is never written above maxcommid.
THEOREM SetCidTyping == Spec => []TypeOK
BY Invariance, PTL DEF IInv

-----------------------------------------------------------------------------
(* What has been handled when the worklist is empty.                       *)

\* Every statement of every function the pass reached is right at the end.
LEMMA AllScanned ==
  ASSUME IInv, Done, NEW f \in Fcn, Reached(f), NEW k \in 1..Len(prog[f])
  PROVE  IdRight(f, k) /\ CallRight(f, k) /\ Base(f) = lo[f]
<1>1. f # cur
  BY EntryAssumption DEF Done
<1>2. ~Pending(f)
  BY DEF Done, Pending
<1>3. Scanned(f) = Len(prog[f]) /\ Base(f) = lo[f]
  BY <1>1, <1>2 DEF Scanned, Base
<1> QED BY <1>3 DEF IInv, ScannedOK

\* The runtime can use the ids of a function: what it begins is not open
\* under its id yet, and all calls of a communication name the id of its NEW.
THEOREM OwnIdsAtEnd == Spec => []OwnIds
<1>1. IInv => OwnIds
  <2> SUFFICES ASSUME IInv, Done, NEW f \in Fcn, Reached(f), NEW k \in 1..Len(prog[f])
               PROVE  /\ prog[f][k][1] \in {"NEW", "TEMP"} => iron[f][k] \notin Held(f, k)
                      /\ prog[f][k][1] \in {"USE", "OLD"} =>
                           \A j \in 1..(k - 1) :
                             OpenAt(prog[f], j, k) /\ prog[f][j][2] = prog[f][k][2]
                               => iron[f][k] = iron[f][j]
    BY DEF OwnIds
  <2> QED BY AllScanned DEF IdRight
<1> QED BY <1>1, Invariance, PTL

\* A callee stays clear of what its caller holds at the call, in every
\* program, however often a raised lo brought a function back.
THEOREM CalleesClearAtEnd == Spec => []CalleesClear
<1>1. IInv => CalleesClear
  <2> SUFFICES ASSUME IInv, Done, NEW f \in Fcn, Reached(f), NEW k \in 1..Len(prog[f]),
                      prog[f][k][1] = "CALL",
                      NEW id \in Held(f, k), id \in Ids(prog[f][k][2])
               PROVE  FALSE
    BY DEF CalleesClear
  <2> DEFINE g == prog[f][k][2]
  <2>1. prog[f] \in Body /\ Len(prog[f]) \in Nat
    BY ProgBody DEF IInv, Body
  <2>2. g \in Fcn
    BY <2>1, BodyStmt
  <2>3. id < lo[g]
    BY AllScanned DEF CallRight
  <2>4. id \in Nat
    <3>1. PICK j \in 1..(k - 1) : iron[f][j] = id
      BY DEF Held
    <3>2. j \in 1..Len(prog[f])
      BY <2>1
    <3> QED BY <3>1, <3>2 DEF IInv, TypeOK
  <2> HIDE DEF g
  <2>5. Reached(g) /\ lo[g] \in Int
    BY <2>2, <2>3, <2>4 DEF Reached, IInv, TypeOK
  <2>6. PICK m \in 1..Len(prog[g]) : prog[g][m][1] # "CALL" /\ iron[g][m] = id
    BY DEF Ids, g
  <2>7. id >= lo[g]
    BY <2>2, <2>5, <2>6, AllScanned DEF IdRight
  <2> QED BY <2>3, <2>4, <2>5, <2>7
<1> QED BY <1>1, Invariance, PTL

-----------------------------------------------------------------------------
(* Giving up.                                                              *)

\* Where the pass stands when it has given up.
FatalInv ==
  fatal => /\ cur # NoFcn /\ at <= Len(prog[cur]) /\ prog[cur][at][1] = "CALL"
           /\ FindTopCommID > MaxLo

LEMMA FatalStep == IInv /\ FatalInv /\ [Next]_vars => FatalInv'
<1> SUFFICES ASSUME IInv, FatalInv, [Next]_vars, fatal' PROVE FatalInv'
  BY DEF FatalInv
<1>1. CASE GetTask \/ New \/ Temporary \/ Call \/ EndFunction
  <2>1. ~fatal /\ fatal' = fatal
    BY <1>1, Zenon DEF GetTask, New, Temporary, Call, EndFunction, AtStmt
  <2> QED BY <2>1
<1>2. CASE Use \/ Old
  <2>1. PICK o \in {"USE", "OLD"} : AtStmt(o)
    BY <1>2, Zenon DEF Use, Old, Existing
  <2>2. Uses(Arg) # {}
    BY <2>1, ExistingId
  <2>3. ~fatal /\ fatal' = fatal
    BY <1>2, <2>2, Zenon DEF Use, Old, Existing, AtStmt
  <2> QED BY <2>3
<1>3. CASE TooHigh
  <2>1. AtStmt("CALL") /\ ~Bounded
    BY <1>3 DEF TooHigh
  <2>2. cur # NoFcn /\ at <= Len(prog[cur]) /\ prog[cur][at][1] = "CALL"
    BY <2>1 DEF AtStmt
  <2>3. FindTopCommID \in Nat
    BY TopId DEF IInv
  <2>4. FindTopCommID > MaxLo
    BY <2>1, <2>3, MaxLoAssumption DEF Bounded
  <2>5. UNCHANGED <<prog, cur, at, maxcommid, commIDs>>
    BY <1>3 DEF TooHigh, walk
  <2> QED BY <2>2, <2>4, <2>5 DEF FatalInv, FindTopCommID
<1>4. CASE UNCHANGED vars
  BY <1>4 DEF vars, walk, FatalInv, FindTopCommID
<1> QED
  BY <1>1, <1>2, <1>3, <1>4, Zenon DEF Next, Step, Terminated

\* The internal error of a communication without an id never happens: the pass
\* gives up only at a call, where the ids held pass the bound.
THEOREM GivesUpAtCall == Spec => [](fatal => /\ prog[cur][at][1] = "CALL"
                                             /\ FindTopCommID > MaxLo)
<1>1. Init => FatalInv
  BY DEF Init, FatalInv
<1>2. FatalInv => (fatal => prog[cur][at][1] = "CALL" /\ FindTopCommID > MaxLo)
  BY DEF FatalInv
<1> QED BY <1>1, <1>2, FatalStep, Invariance, PTL DEF Spec

-----------------------------------------------------------------------------
(* Chains of calls.                                                        *)

\* Chains of m calls that lead to g, and the ids held in chains of up to n.
Chains(m, g) ==
  {c \in [1..m -> Fcn \X Nat] :
     c[1] \in CallSites(g) /\ \A i \in 1..(m - 1) : c[i + 1] \in CallSites(c[i][1])}
HeldIn(n, g) ==
  {x \in UNION {Held(s[1], s[2]) : s \in Fcn \X Nat} :
     \E m \in 1..n : \E c \in Chains(m, g) : x \in Held(c[m][1], c[m][2])}

LEMMA CallSiteIs ==
  ASSUME NEW g \in Fcn, NEW s \in CallSites(g)
  PROVE  /\ s \in Fcn \X Nat /\ Reached(s[1])
         /\ s[2] \in 1..Len(prog[s[1]]) /\ prog[s[1]][s[2]] = <<"CALL", g>>
<1>1. PICK f \in Fcn : \E k \in 1..Len(prog[f]) :
        s = <<f, k>> /\ Reached(f) /\ prog[f][k] = <<"CALL", g>>
  BY DEF CallSites
<1>2. PICK k \in 1..Len(prog[f]) : s = <<f, k>> /\ Reached(f) /\ prog[f][k] = <<"CALL", g>>
  BY <1>1
<1> QED BY <1>2

LEMMA HeldInNext ==
  ASSUME NEW n \in Nat \ {0}, NEW g \in Fcn
  PROVE  HeldIn(n, g) =
           UNION {Held(s[1], s[2]) \cup HeldIn(n - 1, s[1]) : s \in CallSites(g)}
<1> DEFINE U == UNION {Held(s[1], s[2]) \cup HeldIn(n - 1, s[1]) : s \in CallSites(g)}
<1>1. ASSUME NEW x \in HeldIn(n, g) PROVE x \in U
  <2>1. PICK m \in 1..n : \E c \in Chains(m, g) : x \in Held(c[m][1], c[m][2])
    BY DEF HeldIn
  <2>2. PICK c \in Chains(m, g) : x \in Held(c[m][1], c[m][2])
    BY <2>1
  <2>3. /\ c \in [1..m -> Fcn \X Nat] /\ c[1] \in CallSites(g)
        /\ \A i \in 1..(m - 1) : c[i + 1] \in CallSites(c[i][1])
    BY DEF Chains
  <2>4. CASE m = 1
    BY <2>2, <2>3, <2>4
  <2>5. CASE m # 1
    <3> DEFINE e == [i \in 1..(m - 1) |-> c[i + 1]]
    <3>1. m - 1 \in 1..(n - 1) /\ e \in [1..(m - 1) -> Fcn \X Nat]
      BY <2>3, <2>5
    <3>2. e[1] \in CallSites(c[1][1])
      <4>1. 1 \in 1..(m - 1) /\ e[1] = c[1 + 1]
        BY <2>5
      <4> QED BY <2>3, <4>1
    <3>3. ASSUME NEW i \in 1..((m - 1) - 1) PROVE e[i + 1] \in CallSites(e[i][1])
      <4>1. /\ i \in 1..(m - 1) /\ i + 1 \in 1..(m - 1)
            /\ e[i] = c[i + 1] /\ e[i + 1] = c[(i + 1) + 1]
        BY <2>5
      <4> QED BY <2>3, <4>1
    <3>4. e[m - 1] = c[m]
      BY <2>5
    <3> HIDE DEF e
    <3>5. e \in Chains(m - 1, c[1][1])
      BY <3>1, <3>2, <3>3 DEF Chains
    <3>6. x \in HeldIn(n - 1, c[1][1])
      BY <2>2, <3>1, <3>4, <3>5 DEF HeldIn
    <3> QED BY <2>3, <3>6
  <2> QED BY <2>4, <2>5
<1>2. ASSUME NEW x \in U PROVE x \in HeldIn(n, g)
  <2>1. PICK s \in CallSites(g) : x \in Held(s[1], s[2]) \cup HeldIn(n - 1, s[1])
    BY <1>2
  <2>2. s \in Fcn \X Nat
    BY CallSiteIs
  <2>3. CASE x \in Held(s[1], s[2])
    <3> DEFINE e == [i \in 1..1 |-> s]
    <3>1. e \in Chains(1, g) /\ e[1] = s
      BY <2>2 DEF Chains
    <3> HIDE DEF e
    <3>2. x \in UNION {Held(z[1], z[2]) : z \in Fcn \X Nat}
      BY <2>2, <2>3
    <3> QED BY <2>3, <3>1, <3>2 DEF HeldIn
  <2>4. CASE x \in HeldIn(n - 1, s[1])
    <3>1. PICK m \in 1..(n - 1) : \E c \in Chains(m, s[1]) : x \in Held(c[m][1], c[m][2])
      BY <2>4 DEF HeldIn
    <3>2. PICK c \in Chains(m, s[1]) : x \in Held(c[m][1], c[m][2])
      BY <3>1
    <3>3. /\ c \in [1..m -> Fcn \X Nat] /\ c[1] \in CallSites(s[1])
          /\ \A i \in 1..(m - 1) : c[i + 1] \in CallSites(c[i][1])
      BY DEF Chains
    <3> DEFINE e == [i \in 1..(m + 1) |-> IF i = 1 THEN s ELSE c[i - 1]]
    <3>4. m + 1 \in 1..n /\ e \in [1..(m + 1) -> Fcn \X Nat]
      BY <2>2, <3>3
    <3>5. e[1] = s /\ e[m + 1] = c[m]
      OBVIOUS
    <3>6. ASSUME NEW i \in 1..((m + 1) - 1) PROVE e[i + 1] \in CallSites(e[i][1])
      <4>1. e[i + 1] = c[i] /\ e[i] = (IF i = 1 THEN s ELSE c[i - 1])
        OBVIOUS
      <4> HIDE DEF e
      <4>2. CASE i = 1
        BY <3>3, <4>1, <4>2
      <4>3. CASE i # 1
        <5>1. i - 1 \in 1..(m - 1) /\ c[i] = c[(i - 1) + 1]
          BY <4>3
        <5> QED BY <3>3, <4>1, <4>3, <5>1
      <4> QED BY <4>2, <4>3
    <3> HIDE DEF e
    <3>7. e \in Chains(m + 1, g)
      BY <3>4, <3>5, <3>6 DEF Chains
    <3>8. x \in UNION {Held(z[1], z[2]) : z \in Fcn \X Nat}
      BY <2>4 DEF HeldIn
    <3> QED BY <3>2, <3>4, <3>5, <3>7, <3>8 DEF HeldIn
  <2> QED BY <2>1, <2>3, <2>4
<1> QED BY <1>1, <1>2

\* There is a function as HeldAbove is defined, so HeldAbove is one.
LEMMA HeldAboveIs ==
  HeldAbove =
    [n \in Nat |->
       IF n = 0 THEN [g \in Fcn |-> {}]
       ELSE [g \in Fcn |-> UNION {Held(s[1], s[2]) \cup HeldAbove[n - 1][s[1]] :
                                     s \in CallSites(g)}]]
<1> DEFINE H == [n \in Nat |-> [g \in Fcn |-> HeldIn(n, g)]]
           R(F) == [n \in Nat |->
                      IF n = 0 THEN [g \in Fcn |-> {}]
                      ELSE [g \in Fcn |-> UNION {Held(s[1], s[2]) \cup F[n - 1][s[1]] :
                                                    s \in CallSites(g)}]]
<1>1. H = R(H)
  <2>1. ASSUME NEW n \in Nat, n = 0 PROVE [g \in Fcn |-> HeldIn(n, g)] = [g \in Fcn |-> {}]
    BY <2>1 DEF HeldIn
  <2>2. ASSUME NEW n \in Nat, n # 0, NEW g \in Fcn
        PROVE  HeldIn(n, g) =
                 UNION {Held(s[1], s[2]) \cup H[n - 1][s[1]] : s \in CallSites(g)}
    <3>1. ASSUME NEW s \in CallSites(g) PROVE H[n - 1][s[1]] = HeldIn(n - 1, s[1])
      <4>1. n - 1 \in Nat /\ s[1] \in Fcn
        BY <2>2, CallSiteIs
      <4> QED BY <4>1
    <3> HIDE DEF H
    <3>2. UNION {Held(s[1], s[2]) \cup H[n - 1][s[1]] : s \in CallSites(g)}
            = UNION {Held(s[1], s[2]) \cup HeldIn(n - 1, s[1]) : s \in CallSites(g)}
      BY <3>1
    <3> QED BY <2>2, <3>2, HeldInNext
  <2> QED BY <2>1, <2>2
<1> HIDE DEF H
<1>2. HeldAbove = R(HeldAbove)
  BY <1>1 DEF HeldAbove
<1> QED BY <1>2

\* Every id held in a chain to g is below lo[g]: the caller has an id between.
LEMMA ChainBelow ==
  ASSUME IInv, Done, AllHold, NEW n \in Nat, NEW g \in Fcn, NEW x \in HeldAbove[n][g]
  PROVE  x \in Nat /\ x < lo[g]
<1> DEFINE Bad == {m \in Nat : \E h \in Fcn : \E y \in HeldAbove[m][h] : ~(y \in Nat /\ y < lo[h])}
<1> SUFFICES ASSUME ~(x \in Nat /\ x < lo[g]) PROVE FALSE
  OBVIOUS
<1>1. Bad # {} /\ Bad \subseteq Nat
  OBVIOUS
<1>2. PICK m \in Bad : \A k \in Bad : m <= k
  <2> HIDE DEF Bad
  <2> QED BY <1>1, LeastExists
<1>h. PICK h \in Fcn : \E y \in HeldAbove[m][h] : ~(y \in Nat /\ y < lo[h])
  OBVIOUS
<1>3. PICK y \in HeldAbove[m][h] : ~(y \in Nat /\ y < lo[h])
  BY <1>h
<1>4. m # 0 /\ m \in Nat
  BY HeldAboveIs
<1>5. PICK s \in CallSites(h) : y \in Held(s[1], s[2]) \cup HeldAbove[m - 1][s[1]]
  <2>1. HeldAbove[m] =
          [e \in Fcn |-> UNION {Held(s[1], s[2]) \cup HeldAbove[m - 1][s[1]] :
                                  s \in CallSites(e)}]
    BY <1>4, HeldAboveIs
  <2>2. y \in UNION {Held(s[1], s[2]) \cup HeldAbove[m - 1][s[1]] : s \in CallSites(h)}
    BY <2>1
  <2> QED BY <2>2
<1> DEFINE f == s[1]
           j == s[2]
<1>6. f \in Fcn /\ Reached(f) /\ j \in 1..Len(prog[f]) /\ prog[f][j] = <<"CALL", h>>
  BY CallSiteIs
<1>7. Len(prog[f]) \in Nat /\ lo[f] \in Nat /\ lo[h] \in Int
  <2>1. lo[f] \in -1..MaxLo /\ lo[f] # -1 /\ lo[h] \in Int
    BY <1>6, MaxLoAssumption DEF IInv, TypeOK, Reached
  <2>2. Len(prog[f]) \in Nat
    BY <1>6, ProgBody DEF IInv, Body
  <2> QED BY <2>1, <2>2, MaxLoAssumption
<1> HIDE DEF f, j, Bad
<1>8. ASSUME NEW z \in Held(f, j) PROVE z \in Nat /\ lo[f] <= z /\ z < lo[h]
  <2>1. PICK i \in 1..(j - 1) : OpenAt(prog[f], i, j) /\ z = iron[f][i]
    BY DEF Held
  <2>2. i \in 1..Len(prog[f]) /\ prog[f][i][1] = "NEW"
    BY <1>6, <1>7, <2>1 DEF OpenAt
  <2>3. z \in Nat
    BY <1>6, <2>1, <2>2 DEF IInv, TypeOK
  <2>4. z >= lo[f]
    <3>1. IdRight(f, i) /\ Base(f) = lo[f]
      BY <1>6, <2>2, AllScanned
    <3> QED BY <2>1, <2>2, <3>1 DEF IdRight
  <2>5. z < lo[h]
    <3>1. CallRight(f, j)
      BY <1>6, AllScanned
    <3> QED BY <1>6, <3>1 DEF CallRight
  <2> QED BY <1>7, <2>3, <2>4, <2>5
<1>9. y \in HeldAbove[m - 1][f]
  BY <1>3, <1>5, <1>8 DEF f, j
<1>10. y \in Nat /\ y < lo[f]
  <2>1. m - 1 \in Nat /\ m - 1 \notin Bad
    <3>1. m - 1 \in Bad => m <= m - 1
      BY <1>2
    <3> QED BY <1>4, <3>1
  <2> QED BY <1>6, <1>9, <2>1 DEF Bad
<1>11. PICK z \in Held(f, j) : TRUE
  BY DEF AllHold, f, j
<1>12. z \in Nat /\ lo[f] <= z /\ z < lo[h]
  BY <1>8
<1>13. y < lo[h]
  BY <1>7, <1>10, <1>12
<1> QED BY <1>3, <1>10, <1>13

\* In every program where each caller holds an id at its calls, no function
\* uses an id that any function in a chain of calls to it holds.
THEOREM ChainsClearAtEnd == Spec => []ChainsClearIfHolding
<1>1. IInv => ChainsClearIfHolding
  <2> DEFINE n == Cardinality(Fcn)
  <2> SUFFICES ASSUME IInv, Done, AllHold, NEW g \in Fcn, Reached(g),
                      NEW x \in HeldAbove[n][g], x \in Ids(g)
               PROVE  FALSE
    BY DEF ChainsClearIfHolding, ChainsClear
  <2>1. n \in Nat
    BY FcnAssumption, FS_CardinalityType
  <2> HIDE DEF n
  <2>2. x \in Nat /\ x < lo[g]
    BY <2>1, ChainBelow
  <2>3. PICK k \in 1..Len(prog[g]) : prog[g][k][1] # "CALL" /\ iron[g][k] = x
    BY DEF Ids
  <2>4. x >= lo[g]
    BY <2>3, AllScanned DEF IdRight
  <2>5. lo[g] \in Int
    BY DEF IInv, TypeOK
  <2> QED BY <2>2, <2>4, <2>5
<1> QED BY <1>1, Invariance, PTL
=============================================================================
