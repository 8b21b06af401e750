------------------------------- MODULE Stream -------------------------------
(***************************************************************************)
(* Reading and writing arrays (src/file_io.c, src/file_io_ens.c).  All     *)
(* processors have the file open, each with a position and a buffer of its *)
(* own.  The text of an array is written, or read, by one processor at a   *)
(* time, in row-major order: the one whose turn it is passes a token with  *)
(* the position of the file to the next as soon as its part of a row ends  *)
(* (src/token.c and mpi_token.c, pvm_token.c, shmem_token.c).  In binary   *)
(* every processor writes at once, each at the places of its own elements. *)
(*                                                                         *)
(* A scenario is a program on a grid: the calls that all processors make   *)
(* in one order, each to open or close the file or to read or write an     *)
(* array.  An element is one character wide, and known by its index and by *)
(* the number of the call that wrote it.                                   *)
(***************************************************************************)
EXTENDS Blocks, FiniteSets, SequencesExt

CONSTANT Scenarios

VARIABLES
  sc,          \* the scenario
  call,        \* call[p]: the calls p has returned from
  pc,          \* pc[p]: where p is in the next one
  zindex,      \* _zindex[p]: the element p is at
  felloff,     \* felloff[p]: the dimensions in which p's part ended with it
  pos,         \* file->pos at p
  at,          \* at[p]: the position of p's FILE
  buf,         \* buf[p]: what p has written and not flushed, with its places
  text,        \* what is in the file
  got,         \* got[p]: what p has read
  net,         \* net[p]: the tokens, or puts, under way to p
  sent,        \* sent[p]: the processors that may keep p's send from returning
  printtoken,  \* printtoken[p], tokenval[p]: the flag and value of a token
  tokenval,    \*   over SHMEM
  bar,         \* bar[p]: the barriers p has come to
  cast,        \* the values that were broadcast
  casts        \* casts[p]: those p has taken part in

files == <<pos, at, buf, text, got>>
tokens == <<net, sent, printtoken, tokenval>>
synch == <<bar, cast, casts>>
vars == <<sc, call, pc, zindex, felloff, files, tokens, synch>>

-----------------------------------------------------------------------------
(* The scenario: grid, dist, as in AtComm; shmem, whether tokens are puts; *)
(* std, whether the file is the standard output, which has no position;    *)
(* calls, records with op, one of "open", "close", "text" and "bin", and   *)
(* with write, whether the file or array is written, and reg.              *)

Dims == 1..Len(sc.grid)
Proc == {p \in [Dims -> UNION {0..(sc.grid[i] - 1) : i \in Dims}] :
           \A i \in Dims : p[i] < sc.grid[i]}
Root == [i \in Dims |-> 0]

Call(p) == sc.calls[call[p] + 1]
Is(p, at_pc) == call[p] < Len(sc.calls) /\ pc[p] = at_pc
Reg(p) == Call(p).reg
Rank(reg) == 1..Len(reg)

\* _MIN_PROC and _MAX_PROC of a region in dimension i.
MinPlace(reg, i) == IF i \in Rank(reg) THEN Place(sc.dist[i], GlobLo(reg[i])) ELSE 0
MaxPlace(reg, i) ==
  IF i \notin Rank(reg) THEN 0
  ELSE IF ToProc(sc.dist[i], GlobLo(reg[i])) >= sc.dist[i].size THEN MinPlace(reg, i)
  ELSE Place(sc.dist[i], GlobHi(reg[i]))
FirstProc(reg) == [i \in Dims |-> MinPlace(reg, i)]
LastProc(reg) == [i \in Dims |-> MaxPlace(reg, i)]
OneWide(reg, i) == MinPlace(reg, i) = MaxPlace(reg, i)

Block(p, reg, i) ==
  IF \E k \in Dims \ Rank(reg) : p[k] # 0 THEN Empty ELSE MyBlock(reg[i], sc.dist[i], p[i])
HasPart(p, reg) == \A i \in Rank(reg) : Block(p, reg, i) # Empty

\* The dimension after which a line ends: the last with several indices.
LfDim(reg) ==
  LET wide == {i \in Rank(reg) : GlobLo(reg[i]) # GlobHi(reg[i])} \cup {1}
  IN CHOOSE i \in wide : \A k \in wide : k <= i
LineFeed == <<"linefeed">>
Nothing == <<"nothing">>

-----------------------------------------------------------------------------
(* The file                                                                *)

\* text with character c at place i, counted from 0.
Put(t, i, c) ==
  [k \in 1..Most(Len(t), i + 1) |-> IF k = i + 1 THEN c ELSE IF k <= Len(t) THEN t[k] ELSE Nothing]

\* fflush: the standard output takes what comes as it comes.
Flushed(t, b) ==
  FoldLeft(LAMBDA acc, w : IF sc.std THEN Append(acc, w[2]) ELSE Put(acc, w[1], w[2]), t, b)
Flush(p) == text' = Flushed(text, buf[p]) /\ buf' = [buf EXCEPT ![p] = <<>>]

\* Mutant: the position stays as it was when p was given the turn.
GetPosKept(p) == pos[p]
\* fzgetpos
GetPos(p) == IF sc.std THEN pos[p] ELSE at[p]

\* fzsetpos to place v, which flushes.
SetPos(p, v) ==
  /\ pos' = [pos EXCEPT ![p] = v]
  /\ at' = [at EXCEPT ![p] = IF sc.std THEN @ ELSE v]
  /\ IF sc.std THEN UNCHANGED <<text, buf>> ELSE Flush(p)
  /\ UNCHANGED got

\* Where the next element is: fscanf skips line feeds.
NextElem(i) ==
  LET elems == {k \in (i + 1)..Len(text) : text[k] # LineFeed}
  IN IF elems = {} THEN 0 ELSE CHOOSE k \in elems : \A m \in elems : k <= m

-----------------------------------------------------------------------------
(* Barriers and broadcasts                                                 *)

Go(p, to) == pc' = [pc EXCEPT ![p] = to] /\ UNCHANGED <<sc, call>>

\* p comes to the barrier at to.
Enter(p, to) == Go(p, to) /\ bar' = [bar EXCEPT ![p] = @ + 1] /\ UNCHANGED <<cast, casts>>

After == [opened |-> "return", closing |-> "fclose", reset |-> "drain", tokens |-> "begin",
          ended |-> "return"]

\* _BarrierSynch.  Over SHMEM it also waits for all puts.
Leave(p) ==
  /\ pc[p] \in DOMAIN After
  /\ \A q \in Proc : bar[q] >= bar[p]
  /\ sc.shmem => \A q \in Proc : net[q] = {}
  /\ Go(p, After[pc[p]])
  /\ UNCHANGED <<zindex, felloff, files, tokens, synch>>

\* _UpdateFilePosition, before the array and after it: the position of root.
UpdateFilePosition(p, root) ==
  /\ IF p = root
     THEN /\ cast' = Append(cast, GetPos(p))
          /\ pos' = [pos EXCEPT ![p] = GetPos(p)]
          /\ UNCHANGED <<at, buf, text, got>>
     ELSE /\ Len(cast) > casts[p]
          /\ SetPos(p, cast[casts[p] + 1])
          /\ UNCHANGED cast
  /\ casts' = [casts EXCEPT ![p] = @ + 1]

-----------------------------------------------------------------------------
(* Tokens                                                                  *)

\* _ResetToken: what is under way is received and forgotten.
Drain(p) ==
  /\ Is(p, "drain")
  /\ net' = [net EXCEPT ![p] = {}]
  /\ Enter(p, "tokens")
  /\ UNCHANGED <<zindex, felloff, files, sent, printtoken, tokenval>>

\* _SendTokenWithValue.  MPI_Send may wait until the token is received; the two
\* puts of SHMEM arrive in any order.
SendToken(p, q, v) ==
  /\ net' = [net EXCEPT ![q] = @ \cup
       IF sc.shmem THEN {<<"tokenval", p, v>>, <<"printtoken", p, 1>>} ELSE {<<"token", p, v>>}]
  /\ \E waits \in (IF sc.shmem THEN {{}} ELSE {{}, {q}}) : sent' = [sent EXCEPT ![p] = waits]
  /\ UNCHANGED <<printtoken, tokenval>>
Returned(p) == \A q \in sent[p] : \A m \in net[q] : m[2] # p

Deliver(q) == \E m \in net[q] :
  /\ sc.shmem
  /\ net' = [net EXCEPT ![q] = @ \ {m}]
  /\ IF m[1] = "tokenval"
     THEN tokenval' = [tokenval EXCEPT ![q] = m[3]] /\ UNCHANGED printtoken
     ELSE printtoken' = [printtoken EXCEPT ![q] = m[3]] /\ UNCHANGED tokenval
  /\ UNCHANGED <<sc, call, pc, zindex, felloff, files, sent, synch>>

\* _RecvTokenWithValue, from whoever sent it.
RecvToken(p, v) ==
  \/ /\ ~sc.shmem
     /\ \E m \in net[p] : v = m[3] /\ net' = [net EXCEPT ![p] = @ \ {m}]
     /\ UNCHANGED <<sent, printtoken, tokenval>>
  \/ /\ sc.shmem /\ printtoken[p] = 1
     /\ v = tokenval[p]
     /\ printtoken' = [printtoken EXCEPT ![p] = 0]
     /\ UNCHANGED <<net, sent, tokenval>>

-----------------------------------------------------------------------------
(* The calls                                                               *)

\* _OpenFile, up to its barrier.
Open(p) ==
  /\ Is(p, "call") /\ Call(p).op = "open"
  /\ text' = IF Call(p).write THEN <<>> ELSE text
  /\ pos' = [pos EXCEPT ![p] = 0]
  /\ at' = [at EXCEPT ![p] = 0]
  /\ Enter(p, "opened")
  /\ UNCHANGED <<zindex, felloff, buf, got, tokens>>

\* _CloseFile, and for the standard output the end of the program.
Close(p) ==
  /\ Is(p, "call") /\ Call(p).op = "close"
  /\ Enter(p, "closing")
  /\ UNCHANGED <<zindex, felloff, files, tokens>>
FClose(p) ==
  /\ Is(p, "fclose")
  /\ Flush(p)
  /\ Go(p, "return")
  /\ UNCHANGED <<zindex, felloff, pos, at, got, tokens, synch>>

\* _StreamEnsembleTxt up to its first barrier.
Corner(p, reg) == [i \in Rank(reg) |-> Block(p, reg, i).lo]
Text(p) ==
  /\ Is(p, "call") /\ Call(p).op = "text"
  /\ zindex' = [zindex EXCEPT ![p] = Corner(p, Reg(p))]
  /\ IF sc.shmem THEN Enter(p, "tokens") ELSE Enter(p, "reset")
  /\ printtoken' = IF sc.shmem THEN [printtoken EXCEPT ![p] = 0] ELSE printtoken
  /\ UNCHANGED <<felloff, files, net, sent, tokenval>>

\* All take the position of processor 0, which begins or lets another begin.
\* Mutant: nobody waits.
StartAll(p) == IF ~HasPart(p, Reg(p)) THEN "done" ELSE "elem"
Start(p) == IF ~HasPart(p, Reg(p)) THEN "done" ELSE IF p = Root THEN "elem" ELSE "wait"
Begin(p) ==
  /\ Is(p, "begin")
  /\ UpdateFilePosition(p, Root)
  /\ Go(p, IF p = Root /\ FirstProc(Reg(p)) # Root THEN "first" ELSE Start(p))
  /\ UNCHANGED <<zindex, felloff, tokens, bar>>

\* _PassPosFirstProc
First(p) ==
  /\ Is(p, "first")
  /\ pos' = [pos EXCEPT ![p] = GetPos(p)]
  /\ SendToken(p, FirstProc(Reg(p)), GetPos(p))
  /\ Go(p, Start(p))
  /\ UNCHANGED <<zindex, felloff, at, buf, text, got, synch>>

\* _WaitForPos, after the standard output is flushed.
Wait(p) ==
  /\ Is(p, "wait") /\ Returned(p)
  /\ IF sc.std THEN Flush(p) ELSE UNCHANGED <<text, buf>>
  /\ Go(p, "recv")
  /\ UNCHANGED <<zindex, felloff, pos, at, got, tokens, synch>>
Recv(p) ==
  /\ Is(p, "recv")
  /\ \E v \in 0..Far : RecvToken(p, v) /\ SetPos(p, v)
  /\ Go(p, "elem")
  /\ UNCHANGED <<zindex, felloff, synch>>

\* The element at p, with the end of the line if it is the last of one.
Written(p) ==
  LET reg == Reg(p)
      lf == LfDim(reg)
      ends == p[lf] = MaxPlace(reg, lf) /\ zindex[p][lf] = Block(p, reg, lf).hi
      elem == <<at[p], <<call[p] + 1, zindex[p]>>>>
  IN IF ends THEN <<elem, <<at[p] + 1, LineFeed>>>> ELSE <<elem>>

ReadOrWrite(p) ==
  IF Call(p).write
  THEN /\ buf' = [buf EXCEPT ![p] = @ \o Written(p)]
       /\ at' = [at EXCEPT ![p] = @ + Len(Written(p))]
       /\ UNCHANGED <<got, text, pos>>
  ELSE LET k == NextElem(at[p])
       IN /\ got' = [got EXCEPT ![p] = @ \cup
                      {<<call[p] + 1, zindex[p], IF k = 0 THEN Nothing ELSE text[k]>>}]
          /\ at' = [at EXCEPT ![p] = IF k = 0 THEN Len(text) ELSE k]
          /\ UNCHANGED <<buf, text, pos>>

\* The dimensions that come to an end with element z, from the last inwards,
\* and the element after it.
Ended(p, reg, z) == {i \in Rank(reg) : \A k \in i..Len(reg) : z[k] + reg[k].stride > Block(p, reg, k).hi}
Bumped(p, reg, z) ==
  [i \in Rank(reg) |->
     CASE i \in Ended(p, reg, z) /\ i # 1 -> Block(p, reg, i).lo
       [] i \in Ended(p, reg, z) /\ i = 1 -> z[i] + reg[i].stride
       [] OTHER -> IF \A k \in (i + 1)..Len(reg) : k \in Ended(p, reg, z)
                   THEN z[i] + reg[i].stride ELSE z[i]]
MoreToDo(p) == zindex[p][1] <= Block(p, Reg(p), 1).hi

\* _StreamArrayTxtDns: one element.
Elem(p) ==
  LET z == Bumped(p, Reg(p), zindex[p])
      off == {i \in Ended(p, Reg(p), zindex[p]) : ~OneWide(Reg(p), i)}
  IN /\ Is(p, "elem") /\ Returned(p)
     /\ ReadOrWrite(p)
     /\ zindex' = [zindex EXCEPT ![p] = z]
     /\ felloff' = [felloff EXCEPT ![p] = off]
     /\ Go(p, CASE off # {} -> "fell"
                [] off = {} /\ z[1] > Block(p, Reg(p), 1).hi -> "done"
                [] OTHER -> "elem")
     /\ UNCHANGED <<tokens, synch>>

\* What was written is flushed before the turn passes to another.  The last
\* processor keeps it when it is through.
Fell(p) ==
  /\ Is(p, "fell")
  /\ IF Call(p).write THEN Flush(p) ELSE UNCHANGED <<text, buf>>
  /\ Go(p, IF MoreToDo(p) \/ p # LastProc(Reg(p)) THEN "pass" ELSE "done")
  /\ UNCHANGED <<zindex, felloff, pos, at, got, tokens, synch>>

\* _PassPosNextProc: along the dimensions that came to an end, from the last,
\* back to the first processor or, if there is one, on to the next.
NextPlace(p, reg, i) == ToProc(sc.dist[i], Block(p, reg, i).hi + reg[i].stride)
NextProc(p, reg) ==
  [i \in Dims |->
     IF i \in felloff[p] /\ \A k \in felloff[p] : k > i => p[k] = MaxPlace(reg, k)
     THEN IF p[i] = MaxPlace(reg, i) THEN MinPlace(reg, i) ELSE NextPlace(p, reg, i)
     ELSE p[i]]
Pass(p) ==
  /\ Is(p, "pass")
  /\ pos' = [pos EXCEPT ![p] = GetPos(p)]
  /\ SendToken(p, NextProc(p, Reg(p)), GetPos(p))
  /\ Go(p, IF MoreToDo(p) THEN "wait" ELSE "done")
  /\ UNCHANGED <<zindex, felloff, at, buf, text, got, synch>>

\* The rest of _StreamEnsembleTxt: what is left is flushed, except by the last
\* processor, and all take the position of the last.
Done(p) ==
  /\ Is(p, "done") /\ Returned(p)
  /\ IF Call(p).write /\ p # LastProc(Reg(p)) THEN Flush(p) ELSE UNCHANGED <<text, buf>>
  /\ Go(p, "update")
  /\ UNCHANGED <<zindex, felloff, pos, at, got, tokens, synch>>
Update(p) ==
  /\ Is(p, "update")
  /\ UpdateFilePosition(p, LastProc(Reg(p)))
  /\ bar' = [bar EXCEPT ![p] = @ + 1]
  /\ Go(p, "ended")
  /\ UNCHANGED <<zindex, felloff, tokens>>

\* _StreamEnsembleBin for regions without strides: element after element, each
\* at its place in the box of the region.
Offset(reg, z) ==
  LET width(i) == Span(reg[i])
      below(i) == FoldLeft(LAMBDA acc, k : acc * width(k), 1, [k \in 1..(Len(reg) - i) |-> i + k])
  IN FoldLeft(LAMBDA acc, i : acc + (z[i] - GlobLo(reg[i])) * below(i), 0,
              [i \in Rank(reg) |-> i])
Bin(p) ==
  /\ Is(p, "call") /\ Call(p).op = "bin"
  /\ UpdateFilePosition(p, Root)
  /\ zindex' = [zindex EXCEPT ![p] = Corner(p, Reg(p))]
  /\ Go(p, IF HasPart(p, Reg(p)) THEN "binelem" ELSE "binend")
  /\ UNCHANGED <<felloff, tokens, bar>>
BinElem(p) ==
  LET place == pos[p] + Offset(Reg(p), zindex[p])
      z == Bumped(p, Reg(p), zindex[p])
  IN /\ Is(p, "binelem")
     /\ IF Call(p).write
        THEN text' = Put(text, place, <<call[p] + 1, zindex[p]>>) /\ UNCHANGED got
        ELSE /\ got' = [got EXCEPT ![p] = @ \cup {<<call[p] + 1, zindex[p],
                          IF place < Len(text) THEN text[place + 1] ELSE Nothing>>}]
             /\ UNCHANGED text
     /\ zindex' = [zindex EXCEPT ![p] = z]
     /\ Go(p, IF z[1] > Block(p, Reg(p), 1).hi THEN "binend" ELSE "binelem")
     /\ UNCHANGED <<felloff, pos, at, buf, tokens, synch>>
BinEnd(p) ==
  /\ Is(p, "binend")
  /\ SetPos(p, pos[p] + Offset(Reg(p), [i \in Rank(Reg(p)) |-> GlobHi(Reg(p)[i])]) + 1)
  /\ Go(p, "return")
  /\ UNCHANGED <<zindex, felloff, tokens, synch>>

Return(p) ==
  /\ pc[p] = "return"
  /\ call' = [call EXCEPT ![p] = @ + 1]
  /\ pc' = [pc EXCEPT ![p] = "call"]
  /\ UNCHANGED <<sc, zindex, felloff, files, tokens, synch>>

-----------------------------------------------------------------------------
Init ==
  /\ sc \in Scenarios
  /\ call = [p \in Proc |-> 0]
  /\ pc = [p \in Proc |-> "call"]
  /\ zindex = [p \in Proc |-> <<>>]
  /\ felloff = [p \in Proc |-> {}]
  /\ pos = [p \in Proc |-> 0]
  /\ at = [p \in Proc |-> 0]
  /\ buf = [p \in Proc |-> <<>>]
  /\ text = <<>>
  /\ got = [p \in Proc |-> {}]
  /\ net = [p \in Proc |-> {}]
  /\ sent = [p \in Proc |-> {}]
  /\ printtoken = [p \in Proc |-> 0]
  /\ tokenval = [p \in Proc |-> 0]
  /\ bar = [p \in Proc |-> 0]
  /\ cast = <<>>
  /\ casts = [p \in Proc |-> 0]

Step(p) ==
  \/ Open(p) \/ Close(p) \/ FClose(p) \/ Text(p) \/ Drain(p) \/ Begin(p) \/ First(p)
  \/ Wait(p) \/ Recv(p) \/ Elem(p) \/ Fell(p) \/ Pass(p) \/ Done(p) \/ Update(p)
  \/ Bin(p) \/ BinElem(p) \/ BinEnd(p) \/ Return(p) \/ Leave(p)

Finished == \A p \in Proc : call[p] = Len(sc.calls)
Terminated == Finished /\ UNCHANGED vars
Next == (\E p \in Proc : Step(p)) \/ (\E p \in Proc : Deliver(p)) \/ Terminated

Spec == Init /\ [][Next]_vars

-----------------------------------------------------------------------------
(* Properties                                                              *)

\* At any time one processor at most has the turn, or a token is on its way to
\* one: nobody reads or writes text out of turn, and no token stays behind to
\* be taken for the next array.
HasTurn(p) ==
  IF Is(p, "begin") \/ Is(p, "first") THEN p = Root
  ELSE Is(p, "elem") \/ Is(p, "fell") \/ Is(p, "pass")
Coming(p) ==
  Cardinality({m \in net[p] : m[1] # "tokenval"}) + printtoken[p]
OneTurn ==
  Cardinality({p \in Proc : HasTurn(p)})
    + FoldSet(LAMBDA p, acc : acc + Coming(p), 0, Proc) <= 1

\* The elements of reg in row-major order.
Below(x, y) == \E i \in DOMAIN x : x[i] < y[i] /\ \A k \in 1..(i - 1) : x[k] = y[k]
RowMajor(reg) ==
  LET indices == {x \in [Rank(reg) -> UNION {reg[i].lo..reg[i].hi : i \in Rank(reg)}] :
                    \A i \in Rank(reg) : /\ x[i] \in reg[i].lo..reg[i].hi
                                         /\ (x[i] - reg[i].align) % reg[i].stride = 0}
  IN [k \in 1..Cardinality(indices) |->
        CHOOSE x \in indices : Cardinality({y \in indices : Below(y, x)}) = k - 1]

\* What call c puts into the file.
Output(c) ==
  LET reg == sc.calls[c].reg
      ends(x) == sc.calls[c].op = "text" /\ x[LfDim(reg)] = GlobHi(reg[LfDim(reg)])
      shown(x) == IF ends(x) THEN <<<<c, x>>, LineFeed>> ELSE <<<<c, x>>>>
  IN IF sc.calls[c].op \in {"text", "bin"} /\ sc.calls[c].write
     THEN FlattenSeq([k \in 1..Len(RowMajor(reg)) |-> shown(RowMajor(reg)[k])])
     ELSE <<>>
AllOutput == FlattenSeq([c \in 1..Len(sc.calls) |-> Output(c)])

\* What is in the file at any time is there in its place: arrays in the order
\* of the calls, each in row-major order with its lines; the standard output
\* has no gaps; and in the end everything is there.  An element that is read
\* is the one that was written in the same place of the same order.
InOrder ==
  LET out == AllOutput
      elems == SelectSeq(out, LAMBDA c : c # LineFeed)
      reads == {c \in 1..Len(sc.calls) : sc.calls[c].op \in {"text", "bin"} /\ ~sc.calls[c].write}
  IN /\ Len(text) <= Len(out)
     /\ \A i \in 1..Len(text) : text[i] = out[i] \/ (~sc.std /\ text[i] = Nothing)
     /\ Finished => text = out
     /\ \A p \in Proc : \A g \in got[p] :
          LET orders == FlattenSeq([c \in 1..Len(sc.calls) |->
                          IF c \in reads
                          THEN [k \in 1..Len(RowMajor(sc.calls[c].reg)) |->
                                  <<c, RowMajor(sc.calls[c].reg)[k]>>]
                          ELSE <<>>])
          IN \E k \in 1..Least(Len(orders), Len(elems)) :
               orders[k] = <<g[1], g[2]>> /\ elems[k] = g[3]
=============================================================================
