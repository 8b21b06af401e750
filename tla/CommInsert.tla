---------------------------- MODULE CommInsert ----------------------------
(***************************************************************************)
(* Where the compiler puts the six IRONMAN calls of a communication        *)
(* (comp/comm/comm.c): a basic block is walked backwards, one statement at *)
(* a time, in four phases, and what is still wanted at its top, or after a *)
(* call of fixed position, is placed there.                                *)
(*                                                                         *)
(* A statement assigns to the arrays st.out and reads those of st.in, with *)
(* the shift of each, NoShift for none; st.fixed marks one that calls what *)
(* the compiler does not know (its out set holds ExternalDep).  Arrays     *)
(* depend on each other when they are the same.  Shifts stand on the right *)
(* (lhscomm = 0), outside pipelined loops, over one region, which a region *)
(* scope that ends every basic block sees to.                              *)
(***************************************************************************)
EXTENDS Integers, Sequences, FiniteSets, SequencesExt

CONSTANTS
  Programs,   \* of [stmts, remove_redundant, combine, pipeline, max_latency]
  NoShift

VARIABLES
  prog,        \* the statements, and the options of call_insert_comm
  code,        \* the block: its statements, and the calls placed so far
  uses,        \* the use_info_structs allocated so far
  phase,       \* what is done next, or the internal error that stops the compiler
  at,          \* the statement that is handled
  todo,        \* what is left of its out set or its in set
  met,         \* whether its first pending use was found for Head(todo)
  doing1,      \* ids whose SR is placed, to be given NEW and DR
  awaiting1,   \*   and those that are left for later
  awaiting2,   \* uses whose definition has not been met
  finish2,     \* uses whose SR is placed, to be given DN, SV and OLD
  postsend,    \* awaiting_phase3: the next definition of each array, 0 if none
  already,     \* uses combined with others
  cid          \* the next id

pending == <<doing1, awaiting1, awaiting2, finish2, postsend, already, cid>>
vars == <<prog, code, uses, phase, at, todo, met, pending>>

CallTypes == <<"NEW", "DR", "SR", "DN", "SV", "OLD">>
Normal == "AT_NORMAL"

-----------------------------------------------------------------------------
(* The block: nodes [type, id, info].  A statement has its number as id, a *)
(* call the arrays and directions it is for.                               *)
Stmt(n) == [type |-> "STMT", id |-> n, info |-> <<>>]
Call(type, id, info) == [type |-> type, id |-> id, info |-> info]

IsAt(c, i, type, id) == c[i].type = type /\ c[i].id = id
Position(c, type, id) == CHOOSE i \in 1..Len(c) : IsAt(c, i, type, id)
Placed(c, type, id) == \E i \in 1..Len(c) : IsAt(c, i, type, id)
Info(c, type, id) == c[Position(c, type, id)].info

\* placement_table[AT_SAME]: the calls of another communication, with a
\* greater or a smaller id, that a call of type t is placed after.
AfterGreater == [t \in Range(CallTypes) |->
  CASE t = "NEW" -> {"NEW"}
    [] t = "DR" -> {"NEW", "DR"}
    [] t = "SR" -> {"NEW", "DR", "SR"}
    [] t = "DN" -> {"SR", "DN", "SV", "OLD"}
    [] t = "SV" -> {"NEW", "DR", "SR", "SV"}
    [] t = "OLD" -> {"NEW", "DR", "SR", "SV", "OLD"}]
AfterSmaller == [t \in Range(CallTypes) |->
  CASE t = "NEW" -> {}
    [] t = "DR" -> {"NEW"}
    [] t = "SR" -> {"NEW", "DR"}
    [] t = "DN" -> {"NEW", "DR", "SR", "SV", "OLD"}
    [] t = "SV" -> {"NEW", "DR", "SR"}
    [] t = "OLD" -> {"NEW", "DR", "SR", "SV"}]
AfterEqual == [t \in Range(CallTypes) |->
  {CallTypes[i] : i \in {j \in 1..6 : \E k \in (j + 1)..6 : CallTypes[k] = t}}]

\* get_placement_constraint
PlacedAfter(new, old) ==
  old.type \in CASE new.id < old.id -> AfterGreater[new.type]
                 [] new.id = old.id -> AfterEqual[new.type]
                 [] new.id > old.id -> AfterSmaller[new.type]

\* find_best_insertion_pt and insert_comm: next to statement s, or beyond
\* those of the calls between s and its neighbour that new must not precede
\* or follow.
Stops(node, new, placement) ==
  \/ node.type = "STMT"
  \/ PlacedAfter(new, node) = (placement = "BEFORE")
InsertBefore(c, new, i) ==
  LET stops == {j \in 1..(i - 1) : ~prog.pipeline \/ Stops(c[j], new, "BEFORE")}
      last == IF stops = {} THEN 0 ELSE CHOOSE j \in stops : \A k \in stops : k <= j
  IN InsertAt(c, last + 1, new)
InsertAfter(c, new, i) ==
  LET stops == {j \in (i + 1)..Len(c) : ~prog.pipeline \/ Stops(c[j], new, "AFTER")}
      first == IF stops = {} THEN Len(c) + 1 ELSE CHOOSE j \in stops : \A k \in stops : k >= j
  IN InsertAt(c, first, new)
Insert(c, new, s, placement) ==
  IF placement = "BEFORE" THEN InsertBefore(c, new, Position(c, "STMT", s))
  ELSE InsertAfter(c, new, Position(c, "STMT", s))
InsertAll(c, types, id, info, s, placement) ==
  FoldLeft(LAMBDA acc, t : Insert(acc, Call(t, id, info), s, placement), c, types)

\* insertDR: NEW and DR for the SR of id.
InsertDR(c, id, s, placement) ==
  InsertAll(c, <<"NEW", "DR">>, id, Info(c, "SR", id), s, placement)

-----------------------------------------------------------------------------
(* The uses.                                                               *)
Vars(reads) == {reads[i].var : i \in 1..Len(reads)}
Reads(s) == prog.stmts[s].in
Defines(s) == prog.stmts[s].out

\* find_use_info, remove_dependent, remove_redundant_info: the place in a list
\* of the first use of var, 0 if there is none.
Find(list, var) == SelectInSeq(list, LAMBDA u : uses[u].ens.var = var)

\* UI_NEXT(use), UI_NEXT(UI_NEXT(use)) ..
ChainOf(us, u) ==
  FoldLeft(LAMBDA acc, i : IF us[Last(acc)].next = 0 THEN acc
                           ELSE Append(acc, us[Last(acc)].next),
           <<u>>, us)

\* What insert_from_info and add_comm_info give a call: each use goes before
\* the one it is chained to.
InfoOf(us, u) ==
  LET chain == Reverse(ChainOf(us, u))
  IN [i \in 1..Len(chain) |-> [ens |-> us[chain[i]].ens, dirs |-> us[chain[i]].dirs]]

\* is_inserted: statement s reads an array of the SR of id.
IsRead(c, s, id) ==
  LET info == Info(c, "SR", id)
  IN \E i \in 1..Len(info) : info[i].ens.var \in Vars(Reads(s))

\* remove_similar_use_info, as often as it finds one.
Similar(u, list) ==
  IF ~prog.combine THEN <<>>
  ELSE SelectSeq(list, LAMBDA o : /\ uses[o].attype = uses[u].attype
                                  /\ prog.max_latency => uses[u].recv <= uses[o].recv)
Without(list, others) == SelectSeq(list, LAMBDA u : u \notin Range(others))

\* combine_similar: the others are chained to u, which takes the earliest DN
\* and SV.
\* Mutants: the definition that another statement after it follows; the DN of
\* the use that is met last.
EarlierLast(a, b) == IF a = 0 \/ (b # 0 /\ b >= a) THEN b ELSE a
Earlier(a, b) == IF a = 0 \/ (b # 0 /\ b <= a) THEN b ELSE a
JoinedKeepRecv(use, other) == [use EXCEPT !.postsend = Earlier(@, other.postsend)]
Joined(use, other) ==
  [use EXCEPT !.recv = IF other.recv <= use.recv THEN other.recv ELSE @,
              !.cid = IF other.recv <= use.recv THEN other.cid ELSE @,
              !.postsend = Earlier(@, other.postsend)]
Chained(us, u, others) ==
  [v \in DOMAIN us |->
     LET next == IF others = <<>> \/ v \notin {u} \cup Range(others) THEN us[v].next
                 ELSE IF v = u THEN others[1]
                 ELSE LET i == CHOOSE i \in 1..Len(others) : others[i] = v
                      IN IF i = Len(others) THEN us[v].next ELSE others[i + 1]
     IN IF v = u
        THEN [FoldLeft(Joined, us[u], [i \in 1..Len(others) |-> us[others[i]]])
                EXCEPT !.next = next]
        ELSE [us[v] EXCEPT !.next = next]]

\* INT_COND_FATAL in combine_similar
ChainBroken(others) == \E i \in 1..Len(others) : uses[others[i]].next # 0

Stop(what) == phase' = what /\ UNCHANGED <<prog, code, uses, at, todo, met, pending>>

\* The use u, taken from awaiting2 with rest left, is combined with others and
\* its SR placed; UI_INSERTED of all of them is then the id.
Combined(us, u, others) ==
  LET cs == Chained(us, u, others)
      chain == IF prog.pipeline THEN Range(ChainOf(cs, u)) ELSE {}
  IN [v \in DOMAIN us |-> IF v \in chain THEN [cs[v] EXCEPT !.inserted = cs[u].cid] ELSE cs[v]]

InsertSR(us, u, s, placement) ==
  IF prog.pipeline THEN Insert(code, Call("SR", us[u].cid, InfoOf(us, u)), s, placement)
  ELSE code

-----------------------------------------------------------------------------
Init ==
  /\ prog \in Programs
  /\ code = [n \in 1..Len(prog.stmts) |-> Stmt(n)]
  /\ uses = <<>>
  /\ at = Len(prog.stmts) /\ phase = "phase1" /\ todo = <<>> /\ met = FALSE
  /\ doing1 = <<>> /\ awaiting1 = <<>> /\ awaiting2 = <<>> /\ finish2 = <<>>
  /\ postsend = [v \in UNION {Vars(Reads(n)) \cup Range(Defines(n)) :
                              n \in 1..Len(prog.stmts)} |-> 0]
  /\ already = <<>> /\ cid = 1

\* Phase 1: NEW and DR of what is sent further down go after the last
\* statement that reads one of its arrays.
Phase1 ==
  /\ phase = "phase1" /\ doing1 # <<>>
  /\ doing1' = Tail(doing1)
  /\ IF IsRead(code, at, Head(doing1))
     THEN /\ code' = InsertDR(code, Head(doing1), at, "AFTER")
          /\ UNCHANGED awaiting1
     ELSE /\ awaiting1' = Append(awaiting1, Head(doing1))
          /\ UNCHANGED code
  /\ UNCHANGED <<prog, uses, phase, at, todo, met, awaiting2, finish2, postsend, already,
                 cid>>

Phase1Done ==
  /\ phase = "phase1" /\ doing1 = <<>>
  /\ phase' = "phase2" /\ todo' = Defines(at) /\ met' = FALSE
  /\ UNCHANGED <<prog, code, uses, at, pending>>

\* Phase 2: a definition of an array for which a use is pending.
Phase2Combine ==
  /\ phase = "phase2" /\ todo # <<>> /\ Find(awaiting2, Head(todo)) # 0
  /\ LET i == Find(awaiting2, Head(todo))
         u == awaiting2[i]
         rest == RemoveAt(awaiting2, i)
         others == Similar(u, rest)
     IN IF ChainBroken(others) THEN Stop("Next USE should be NULL.")
        ELSE /\ uses' = Combined(uses, u, others)
             /\ awaiting2' = Without(rest, others)
             /\ already' = IF uses[u].attype = Normal THEN Reverse(others) \o already ELSE already
             /\ finish2' = <<u>> \o finish2
             /\ LET id == uses'[u].cid
                    sent == InsertSR(uses', u, at, "AFTER")
                    now == prog.pipeline /\ IsRead(sent, at, id)
                IN /\ code' = IF now THEN InsertDR(sent, id, at, "AFTER") ELSE sent
                   /\ awaiting1' = IF now \/ ~prog.pipeline THEN awaiting1
                                   ELSE Append(awaiting1, id)
             /\ met' = TRUE
             /\ UNCHANGED <<prog, phase, at, todo, doing1, postsend, cid>>

\* There is none (any more); one combined with another stays combined.
Phase2Next ==
  /\ phase = "phase2" /\ todo # <<>> /\ Find(awaiting2, Head(todo)) = 0
  /\ todo' = Tail(todo) /\ met' = FALSE
  /\ already' = IF met \/ Find(already, Head(todo)) = 0 THEN already
                ELSE RemoveAt(already, Find(already, Head(todo)))
  /\ UNCHANGED <<prog, code, uses, phase, at, doing1, awaiting1, awaiting2, finish2, postsend,
                 cid>>

Phase2Done ==
  /\ phase = "phase2" /\ todo = <<>>
  /\ phase' = "recvs"
  /\ UNCHANGED <<prog, code, uses, at, todo, met, pending>>

\* insertDN and insertSV: DN goes before the first use, SV and OLD before the
\* next definition, or to the end.  Without pipelining all six calls go before
\* the use.
InsertRecv(c, u) ==
  IF ~prog.pipeline THEN InsertAll(c, CallTypes, u.cid, InfoOf(uses, finish2[1]), u.recv, "BEFORE")
  ELSE LET info == Info(c, "SR", u.inserted)
           received == Insert(c, Call("DN", u.inserted, info), u.recv, "BEFORE")
       IN IF u.postsend = 0
          THEN InsertAll(received, <<"SV", "OLD">>, u.inserted, info, Len(prog.stmts), "AFTER")
          ELSE InsertAll(received, <<"SV", "OLD">>, u.inserted, info, u.postsend, "BEFORE")

Recvs ==
  /\ phase \in {"recvs", "resolve recvs"} /\ finish2 # <<>>
  /\ code' = InsertRecv(code, uses[Head(finish2)])
  /\ finish2' = Tail(finish2)
  /\ UNCHANGED <<prog, uses, phase, at, todo, met, doing1, awaiting1, awaiting2, postsend,
                 already, cid>>

RecvsDone ==
  /\ phase = "recvs" /\ finish2 = <<>>
  /\ phase' = "phase3" /\ todo' = SelectSeq(Reads(at), LAMBDA r : r.dir # NoShift)
  /\ UNCHANGED <<prog, code, uses, at, met, pending>>

-----------------------------------------------------------------------------
(* Phase 3: the shifted reads of the statement.                            *)

\* add_dir_info: one more direction for u, and the statement as its receiver.
AddDir(use, read) ==
  [use EXCEPT !.dirs = IF read.dir \in Range(@) THEN @ ELSE <<read.dir>> \o @, !.recv = at]

\* remove_redundant_info, uncombine_comm: an old use with a new id.
Again(u, read) ==
  /\ uses' = [uses EXCEPT ![u] = AddDir([@ EXCEPT !.cid = cid], read)]
  /\ cid' = cid + 1

\* uncombine_comm takes from SR, DN, SV and OLD the entry that follows the one
\* for the use in NEW; NEW and DR stay as they are.
EntryOf(u) == SelectInSeq(Info(code, "NEW", uses[u].inserted), LAMBDA e : e.ens = uses[u].ens)
CannotUncombine(u) ==
  \E i \in 1..Len(code) : /\ code[i].id = uses[u].inserted
                          /\ code[i].type \in {"SR", "DN", "SV", "OLD"}
                          /\ Len(code[i].info) <= EntryOf(u)
Uncombined(u) ==
  [i \in 1..Len(code) |->
     IF code[i].id = uses[u].inserted /\ code[i].type \in {"SR", "DN", "SV", "OLD"}
     THEN [code[i] EXCEPT !.info = RemoveAt(@, EntryOf(u) + 1)] ELSE code[i]]

CombinedUse == prog.combine /\ Find(already, Head(todo).var) # 0
PendingUse == prog.remove_redundant /\ Find(awaiting2, Head(todo).var) # 0

Phase3Uncombine ==
  /\ phase = "phase3" /\ todo # <<>> /\ CombinedUse
  /\ LET i == Find(already, Head(todo).var)
         u == already[i]
     IN IF uses[u].inserted = 0 THEN Stop("C_NEW not found.")
        ELSE IF CannotUncombine(u) THEN Stop("Comm info NULL.")
        ELSE /\ already' = RemoveAt(already, i)
             /\ code' = Uncombined(u)
             /\ Again(u, Head(todo))
             /\ awaiting2' = Append(awaiting2, u)
             /\ todo' = Tail(todo)
             /\ UNCHANGED <<prog, phase, at, met, doing1, awaiting1, finish2, postsend>>

Phase3Redundant ==
  /\ phase = "phase3" /\ todo # <<>> /\ ~CombinedUse /\ PendingUse
  /\ LET i == Find(awaiting2, Head(todo).var)
         u == awaiting2[i]
     IN /\ Again(u, Head(todo))
        /\ awaiting2' = Append(RemoveAt(awaiting2, i), u)
        /\ todo' = Tail(todo)
        /\ UNCHANGED <<prog, code, phase, at, met, doing1, awaiting1, finish2, postsend,
                       already>>

\* copy_use_info does not copy the kind of shift: it is what malloc returns.
Phase3New ==
  /\ phase = "phase3" /\ todo # <<>> /\ ~CombinedUse /\ ~PendingUse
  /\ \E attype \in IF postsend[Head(todo).var] = 0 THEN {Normal} ELSE {Normal, "other"} :
       LET use == [ens |-> Head(todo), attype |-> attype, dirs |-> <<>>, cid |-> cid,
                   recv |-> 0, postsend |-> postsend[Head(todo).var], inserted |-> 0,
                   next |-> 0]
       IN uses' = Append(uses, AddDir(use, Head(todo)))
  /\ awaiting2' = Append(awaiting2, Len(uses'))
  /\ cid' = cid + 1
  /\ todo' = Tail(todo)
  /\ UNCHANGED <<prog, code, phase, at, met, doing1, awaiting1, finish2, postsend, already>>

\* Mutant: only the top of the block resolves what is pending.
Phase4Across ==
  /\ phase = "phase3" /\ todo = <<>>
  /\ postsend' = [v \in DOMAIN postsend |-> IF v \in Range(Defines(at)) THEN at ELSE postsend[v]]
  /\ IF at = 1
     THEN /\ phase' = "resolve dr"
          /\ doing1' = Reverse(awaiting1)
          /\ UNCHANGED at
     ELSE /\ phase' = "phase1"
          /\ at' = at - 1
          /\ doing1' = awaiting1
  /\ awaiting1' = <<>>
  /\ UNCHANGED <<prog, code, uses, todo, met, awaiting2, finish2, already, cid>>

\* Phase 4: the statement's definitions are where the sends of what is read
\* above must be complete.  Then resolve_pending, at the top of the block and
\* below a statement of fixed position.
Phase4 ==
  /\ phase = "phase3" /\ todo = <<>>
  /\ postsend' = [v \in DOMAIN postsend |-> IF v \in Range(Defines(at)) THEN at ELSE postsend[v]]
  /\ IF at = 1 \/ prog.stmts[at - 1].fixed
     THEN /\ phase' = "resolve dr"
          /\ doing1' = Reverse(awaiting1)
          /\ UNCHANGED at
     ELSE /\ phase' = "phase1"
          /\ at' = at - 1
          /\ doing1' = awaiting1
  /\ awaiting1' = <<>>
  /\ UNCHANGED <<prog, code, uses, todo, met, awaiting2, finish2, already, cid>>

-----------------------------------------------------------------------------
(* resolve_pending                                                         *)
ResolveDR ==
  /\ phase = "resolve dr" /\ doing1 # <<>>
  /\ code' = InsertDR(code, Head(doing1), at, "BEFORE")
  /\ doing1' = Tail(doing1)
  /\ UNCHANGED <<prog, uses, phase, at, todo, met, awaiting1, awaiting2, finish2, postsend,
                 already, cid>>

ResolveSR ==
  /\ phase = "resolve dr" /\ doing1 = <<>> /\ awaiting2 # <<>>
  /\ LET u == Head(awaiting2)
         others == Similar(u, Tail(awaiting2))
     IN IF ChainBroken(others) THEN Stop("Next USE should be NULL.")
        ELSE /\ uses' = Combined(uses, u, others)
             /\ awaiting2' = Without(Tail(awaiting2), others)
             /\ finish2' = <<u>> \o finish2
             /\ code' = InsertSR(uses', u, at, "BEFORE")
             /\ awaiting1' = IF prog.pipeline THEN <<uses'[u].cid>> \o awaiting1 ELSE awaiting1
             /\ UNCHANGED <<prog, phase, at, todo, met, doing1, postsend, already, cid>>

ResolveSRDone ==
  /\ phase = "resolve dr" /\ doing1 = <<>> /\ awaiting2 = <<>>
  /\ phase' = "resolve recvs"
  /\ UNCHANGED <<prog, code, uses, at, todo, met, pending>>

ResolveLast ==
  /\ phase = "resolve recvs" /\ finish2 = <<>> /\ awaiting1 # <<>>
  /\ code' = InsertDR(code, Head(awaiting1), at, "BEFORE")
  /\ awaiting1' = Tail(awaiting1)
  /\ UNCHANGED <<prog, uses, phase, at, todo, met, doing1, awaiting2, finish2, postsend,
                 already, cid>>

ResolveDone ==
  /\ phase = "resolve recvs" /\ finish2 = <<>> /\ awaiting1 = <<>>
  /\ IF at = 1 THEN phase' = "done" /\ UNCHANGED at
     ELSE phase' = "phase1" /\ at' = at - 1
  /\ UNCHANGED <<prog, code, uses, todo, met, pending>>

\* The end of the block.  A state that an internal error leaves is stuck.
Terminated == phase = "done" /\ UNCHANGED vars

Next ==
  \/ Phase1 \/ Phase1Done \/ Phase2Combine \/ Phase2Next \/ Phase2Done
  \/ Recvs \/ RecvsDone \/ Phase3Uncombine \/ Phase3Redundant \/ Phase3New \/ Phase4
  \/ ResolveDR \/ ResolveSR \/ ResolveSRDone \/ ResolveLast \/ ResolveDone
  \/ Terminated

Spec == Init /\ [][Next]_vars

-----------------------------------------------------------------------------
(* What the calls mean for the data.                                       *)
Done == phase = "done"
Ids == {code[i].id : i \in {j \in 1..Len(code) : code[j].type = "NEW"}}

\* The version of an array at a place in the block, and whether it is read
\* there with a shift.
Version(var, i) ==
  Cardinality({j \in 1..(i - 1) : code[j].type = "STMT" /\ var \in Range(Defines(code[j].id))})
ReadAt(i) ==
  IF code[i].type # "STMT" THEN {}
  ELSE {r \in Range(Reads(code[i].id)) : r.dir # NoShift}

\* What a communication carries, from which place in the block, to which
\* places: the calls are generated from the arrays of NEW.
Carries(id, read) ==
  LET info == Info(code, "NEW", id)
  IN \E i \in 1..Len(info) : info[i].ens.var = read.var /\ read.dir \in Range(info[i].dirs)
At(type, id) == Position(code, type, id)

\* The six calls of a communication are there, in their order.
Whole(id) ==
  \A i \in 1..6 : /\ Placed(code, CallTypes[i], id)
                  /\ i > 1 => At(CallTypes[i - 1], id) < At(CallTypes[i], id)

\* Every shifted read finds the version of the array that the program means,
\* whenever the data moves between the calls: some communication has brought
\* it, and none that carries another version may write after it.
FluffCurrent ==
  Done => \A i \in 1..Len(code) : \A r \in ReadAt(i) :
    LET carrying == {id \in Ids : Carries(id, r)}
        current == {id \in carrying : Version(r.var, At("SR", id)) = Version(r.var, i)}
    IN \E id \in current :
         /\ Whole(id)
         /\ At("DN", id) < i
         /\ \A other \in carrying \ current :
              At("DN", other) < At("DR", id) \/ i < At("DR", other)

\* No statement changes an array between the SR and the SV of a communication
\* that carries it: the data may be sent at any time between them.
SourceStable ==
  Done => \A id \in Ids : LET info == Info(code, "NEW", id) IN
    \A i \in 1..Len(info) :
      Version(info[i].ens.var, At("SR", id)) = Version(info[i].ens.var, At("SV", id))

\* No statement of fixed position stands between the first call of a
\* communication and the DN of it.
NoneSpansFixed ==
  Done => \A id \in Ids : \A i \in At("NEW", id)..At("DN", id) :
    code[i].type = "STMT" => ~prog.stmts[code[i].id].fixed
=============================================================================
