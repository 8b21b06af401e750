------------------------------ MODULE SetCid ------------------------------
(***************************************************************************)
(* The compiler pass setcid (comp/interproc/setcid.c): it gives every      *)
(* communication of a program the static id under which the runtime keeps  *)
(* its handle, its buffers and its memory descriptions.  Ids are few, so   *)
(* they are used again: two communications may share an id unless one is   *)
(* open (between its NEW and its OLD) while the other is.  A communication *)
(* may stay open across a function call, so that a callee must stay clear  *)
(* of the ids its callers hold.                                            *)
(*                                                                         *)
(* The pass walks over the statements of the functions on a worklist,      *)
(* beginning with the entry function.  lo[f] is the lowest id f may use;   *)
(* a call of f raises it above the ids its caller holds there, and a       *)
(* function whose lo was raised is handled again.                          *)
(*                                                                         *)
(* A function is the sequence of its statements that the pass looks at, in *)
(* the order in which it visits them.  It walks into loops and             *)
(* conditionals in program order, except that it visits the statements     *)
(* before and after the body of a pipelined loop (setcid.c:200-207), where *)
(* the calls of the wave are, before that body: in there the wave is over  *)
(* for the pass, and "open" below is open as the pass sees it.             *)
(***************************************************************************)
EXTENDS Integers, Sequences, FiniteSets

CONSTANTS
  Fcn,      \* the functions of the program
  Entry,    \* the entry function
  NoFcn,    \* no function is being handled
  Cid,      \* the ids of the communications before the pass, all different
  Temp,     \* -1, the id of wraps, reflections, scans and reductions
  MaxLo,    \* 64, the bound that AnnotateFunction checks
  Programs  \* the programs

Op == {"NEW", "USE", "OLD", "TEMP", "CALL"}
Stmt == (Op \ {"CALL"}) \X (Cid \cup {Temp}) \cup {"CALL"} \X Fcn

\* The NEW at statement j is not closed before statement k.
OpenAt(body, j, k) ==
  /\ j \in 1..(k - 1) /\ j <= Len(body)
  /\ body[j][1] = "NEW"
  /\ \A i \in (j + 1)..(k - 1) : body[i] # <<"OLD", body[j][2]>>

\* The communications open before statement k.
OpenCids(body, k) == {body[j][2] : j \in {i \in 1..Len(body) : OpenAt(body, i, k)}}

\* What insert_comm leaves in a function: every communication with its NEW
\* first and its OLD last.
WellFormed(body) ==
  /\ \A k \in 1..Len(body) :
       /\ body[k][1] = "NEW" => body[k][2] \in Cid \ OpenCids(body, k)
       /\ body[k][1] \in {"USE", "OLD"} => body[k][2] \in OpenCids(body, k)
       /\ body[k][1] = "TEMP" => body[k][2] = Temp
  /\ OpenCids(body, Len(body) + 1) = {}

ASSUME EntryAssumption == Entry \in Fcn /\ NoFcn \notin Fcn /\ Temp \notin Cid
ASSUME FcnAssumption == IsFiniteSet(Fcn)
ASSUME MaxLoAssumption == MaxLo \in Nat
ASSUME ProgramsAssumption ==
  /\ Programs \subseteq [Fcn -> Seq(Stmt)]
  /\ \A pr \in Programs, f \in Fcn : WellFormed(pr[f])

VARIABLES
  prog,          \* the program
  lo,            \* T_LO_COMMID of every function, -1 if it has none yet
  tasks,         \* the task list
  cur,           \* the function being handled
  at,            \* the next statement of cur
  startingpoint, \* the lowest id for cur
  commIDs,       \* the ids in use, and what for
  maxcommid,     \* the highest id ever used: the runtime has room up to it
  iron,          \* T_IRON_COMMID of every statement
  fatal          \* the pass has ended the compiler with an internal error

walk == <<prog, lo, tasks, cur, at, startingpoint>>
vars == <<walk, commIDs, maxcommid, iron, fatal>>

-----------------------------------------------------------------------------
\* The smallest element of a set of numbers that has one.
Least(S) == CHOOSE i \in S : \A j \in S : i <= j

\* Mutant: the search does not look whether an id is taken.
FreeIdsUnchecked(ids) == startingpoint..(startingpoint + maxcommid + 1)

\* The ids GetNewCommID may find; the table grows as far as need be.
FreeIds(ids) == (startingpoint..(startingpoint + maxcommid + 1)) \ DOMAIN ids

\* GetNewCommID: the first free id, for statement at of cur.
GetNewCommID ==
  LET id == Least(FreeIds(commIDs)) IN
  /\ iron' = [iron EXCEPT ![cur][at] = id]
  /\ maxcommid' = IF id > maxcommid THEN id ELSE maxcommid

Uses(c) == {i \in DOMAIN commIDs : i >= startingpoint /\ commIDs[i] = c}

\* Mutant: the first entry is cleared, whatever it is for.
FreeFirstCommID(ids, c) == [i \in DOMAIN ids \ {Least(DOMAIN ids)} |-> ids[i]]
\* FreeCommID: the first entry for c is cleared.
FreeCommID(ids, c) ==
  LET held == {i \in DOMAIN ids : ids[i] = c}
      freed == IF held = {} THEN {} ELSE {Least(held)}
  IN [i \in DOMAIN ids \ freed |-> ids[i]]

\* Mutant: the top id itself is taken for the first one above it.
FindTopCommIDLow ==
  Least({n \in 0..(maxcommid + 1) : \A i \in DOMAIN commIDs : i <= n})
\* The first id above all that the function being handled holds.
FindTopCommID ==
  Least({n \in 0..(maxcommid + 1) : \A i \in DOMAIN commIDs : i < n})

Init ==
  /\ prog \in Programs
  /\ lo = [f \in Fcn |-> IF f = Entry THEN 0 ELSE -1]
  /\ tasks = <<Entry>>
  /\ cur = NoFcn
  /\ at = 1
  /\ startingpoint = 0
  /\ commIDs = <<>>
  /\ maxcommid = 0
  /\ iron = [f \in Fcn |-> [k \in 1..Len(prog[f]) |-> 0]]
  /\ fatal = FALSE

\* ProcessTasks, HandleFunction: the next function is begun.
GetTask ==
  /\ cur = NoFcn /\ tasks # <<>> /\ ~fatal
  /\ cur' = Head(tasks)
  /\ tasks' = Tail(tasks)
  /\ at' = 1
  /\ startingpoint' = lo[Head(tasks)]
  /\ UNCHANGED <<prog, lo, commIDs, maxcommid, iron, fatal>>

AtStmt(o) ==
  cur # NoFcn /\ ~fatal /\ at <= Len(prog[cur]) /\ prog[cur][at][1] = o
Arg == prog[cur][at][2]
NextStmt == at' = at + 1 /\ UNCHANGED <<prog, cur, startingpoint>>

\* C_NEW.
New ==
  /\ AtStmt("NEW")
  /\ GetNewCommID
  /\ commIDs' = [i \in DOMAIN commIDs \cup {iron'[cur][at]} |->
                   IF i = iron'[cur][at] THEN Arg ELSE commIDs[i]]
  /\ NextStmt
  /\ UNCHANGED <<lo, tasks, fatal>>

\* C_DR, C_SR, C_DN and C_SV, for all of them USE, and C_OLD.  An id that
\* is not there is the internal error of GetExistingCommID.
Existing(o, ids) ==
  /\ AtStmt(o)
  /\ IF Uses(Arg) = {}
     THEN fatal' = TRUE /\ UNCHANGED <<walk, commIDs, iron>>
     ELSE /\ iron' = [iron EXCEPT ![cur][at] = Least(Uses(Arg))]
          /\ commIDs' = ids
          /\ NextStmt
          /\ UNCHANGED <<lo, tasks, fatal>>
  /\ UNCHANGED maxcommid

Use == Existing("USE", commIDs)
Old == Existing("OLD", FreeCommID(commIDs, Arg))

\* A wrap, a reflection, a scan or a reduction: its id is free again at once.
Temporary ==
  /\ AtStmt("TEMP")
  /\ GetNewCommID
  /\ NextStmt
  /\ UNCHANGED <<lo, tasks, commIDs, fatal>>

\* Mutant: a function already handled is not handled again.
AddTaskOnce(f) == IF lo[f] = -1 THEN Append(tasks, f) ELSE tasks
AddTask(f) == Append(tasks, f)

\* Mutant: a call that raises nothing makes its callee a task, too.
RaisesOrKeeps(f) == FindTopCommID >= lo[f]
Raises(f) == FindTopCommID > lo[f]

\* Mutant: the bound is not checked.
Unbounded == TRUE
Bounded == FindTopCommID <= MaxLo

\* AnnotateFunction: the callee must stay above the ids held at the call.
Call ==
  /\ AtStmt("CALL")
  /\ Bounded
  /\ IF Raises(Arg)
     THEN lo' = [lo EXCEPT ![Arg] = FindTopCommID] /\ tasks' = AddTask(Arg)
     ELSE UNCHANGED <<lo, tasks>>
  /\ NextStmt
  /\ UNCHANGED <<commIDs, maxcommid, iron, fatal>>

\* "Infinite Recursion Suspected in AnnotateFunction()".
TooHigh ==
  /\ AtStmt("CALL")
  /\ ~Bounded
  /\ fatal' = TRUE
  /\ UNCHANGED <<walk, commIDs, maxcommid, iron>>

\* The end of HandleFunction.
EndFunction ==
  /\ cur # NoFcn /\ ~fatal /\ at > Len(prog[cur])
  /\ cur' = NoFcn
  /\ UNCHANGED <<prog, lo, tasks, at, startingpoint, commIDs, maxcommid, iron, fatal>>

Done == cur = NoFcn /\ tasks = <<>>
Terminated == (Done \/ fatal) /\ UNCHANGED vars

Step ==
  GetTask \/ New \/ Use \/ Old \/ Temporary \/ Call \/ TooHigh \/ EndFunction
Next == Step \/ Terminated

Spec == Init /\ [][Next]_vars
FairSpec == Spec /\ WF_vars(Step)

-----------------------------------------------------------------------------
TypeOK ==
  /\ prog \in Programs
  /\ lo \in [Fcn -> -1..MaxLo]
  /\ tasks \in Seq(Fcn)
  /\ cur \in Fcn \cup {NoFcn}
  /\ at \in Nat \ {0}
  /\ startingpoint \in Nat
  /\ maxcommid \in Nat
  /\ DOMAIN commIDs \subseteq 0..maxcommid
  /\ commIDs \in [DOMAIN commIDs -> Cid]
  /\ DOMAIN iron = Fcn
  /\ \A f \in Fcn : iron[f] \in [1..Len(prog[f]) -> 0..maxcommid]
  /\ fatal \in BOOLEAN

\* The pass has reached f.
Reached(f) == lo[f] # -1
\* The ids of the communications of f that are open before its statement k.
Held(f, k) == {iron[f][j] : j \in {i \in 1..(k - 1) : OpenAt(prog[f], i, k)}}
\* The ids f uses.
Ids(f) == {iron[f][k] : k \in {i \in 1..Len(prog[f]) : prog[f][i][1] # "CALL"}}
CallSites(g) ==
  UNION {{<<f, k>> : k \in {i \in 1..Len(prog[f]) : prog[f][i] = <<"CALL", g>>}} :
         f \in {h \in Fcn : Reached(h)}}

\* When the pass is over, every function it reached can run: what it begins,
\* it begins under an id that none of its own open communications has, and
\* all calls of a communication have the id of its NEW.
OwnIds ==
  Done => \A f \in Fcn : Reached(f) => \A k \in 1..Len(prog[f]) :
    /\ prog[f][k][1] \in {"NEW", "TEMP"} => iron[f][k] \notin Held(f, k)
    /\ prog[f][k][1] \in {"USE", "OLD"} =>
         \A j \in 1..(k - 1) :
           OpenAt(prog[f], j, k) /\ prog[f][j][2] = prog[f][k][2]
             => iron[f][k] = iron[f][j]

\* When the pass is over, no function uses an id that the function calling
\* it holds at the call, however often the worklist came back to either.
CalleesClear ==
  Done => \A f \in Fcn : Reached(f) => \A k \in 1..Len(prog[f]) :
    prog[f][k][1] = "CALL" => Held(f, k) \cap Ids(prog[f][k][2]) = {}

\* HeldAbove[n][g]: the ids held by the callers in chains of n calls to g.
HeldAbove[n \in Nat] ==
  IF n = 0 THEN [g \in Fcn |-> {}]
  ELSE [g \in Fcn |-> UNION {Held(s[1], s[2]) \cup HeldAbove[n - 1][s[1]] :
                                s \in CallSites(g)}]

\* When the pass is over, no function uses an id that any function in a
\* chain of calls that leads to it holds: the communication that has it is
\* still open, and its handle and buffers are kept under that id.
ChainsClear ==
  Done => \A g \in Fcn : Reached(g) => HeldAbove[Cardinality(Fcn)][g] \cap Ids(g) = {}

\* Every function that calls another holds an id of its own there.
AllHold == \A g \in Fcn : \A s \in CallSites(g) : Held(s[1], s[2]) # {}

\* Chains of calls are clear when every caller in them holds an id: what each
\* caller makes its callee keep clear of is then above all that is held below.
ChainsClearIfHolding == AllHold => ChainsClear

\* Functions that a chain of n calls or fewer leads to from f.
CalledFrom[n \in Nat] ==
  [f \in Fcn |->
     IF n = 0 THEN {}
     ELSE LET callees == {g \in Fcn : \E k \in 1..Len(prog[f]) : prog[f][k] = <<"CALL", g>>}
          IN callees \cup UNION {CalledFrom[n - 1][g] : g \in callees}]

\* The pass gives up only at a call in a program with recursion: no
\* communication is looked up that has no id.
GivesUpOnRecursion ==
  fatal => prog[cur][at][1] = "CALL" /\ \E f \in Fcn : f \in CalledFrom[Cardinality(Fcn)][f]

\* The worklist runs dry, or the bound stops a recursion that goes on
\* raising lo.
Ends == <>(Done \/ fatal)
=============================================================================
