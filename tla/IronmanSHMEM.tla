--------------------------- MODULE IronmanSHMEM ---------------------------
(***************************************************************************)
(* IRONMAN over SHMEM (src/shmem/shmem_ironman.c): one-sided communication *)
(* in which a sender stores straight into the ghost areas of the receiver. *)
(*                                                                         *)
(* Processors synchronise through flags in each other's memory:            *)
(*   - NEW at the receiver stores the addresses of its ghost areas (its    *)
(*     memory blocks) in REMMEM at the sender, having waited for           *)
(*     REMMEMWRITABLE, and then raises REMMEMREADY there;                  *)
(*   - DR at the receiver lowers its own PUTDONE and raises DSTREADY at    *)
(*     the sender, one per direction;                                      *)
(*   - SR at the sender waits for REMMEMREADY (once per instance) and for  *)
(*     DSTREADY, lowers them, stores the data, and after a fence raises    *)
(*     PUTDONE at the receiver, with the last of its directions;           *)
(*   - DN waits for PUTDONE; OLD at the sender raises REMMEMWRITABLE.      *)
(*                                                                         *)
(* A put is asynchronous: it reaches the memory of its target later, and   *)
(* the puts of one processor to another may reach it in any order, except  *)
(* that none overtakes a fence.                                            *)
(*                                                                         *)
(* An instance of a communication has one DR, SR and DN, so firstsend is   *)
(* always set when SR reads it and is left out.                            *)
(***************************************************************************)
EXTENDS IronmanCalls, FiniteSets

CONSTANTS
  NoData,  \* the content of a ghost area nothing was received into
  NoBlock, \* no memory block: REMMEM at first, remmeminfo before it is read
  Comms    \* maxcomms, the number of descriptors

ASSUME CommsAssumption ==
  IsFiniteSet(Cid) /\ Comms \in Nat /\ Comms >= Cardinality(Cid)

VARIABLES
  freelist, \* freelist[p]: p's free descriptors, the next one last
  commbank, \* commbank[p][s]: what descriptor s receives and sends, by direction
  handle,   \* handle[p][c]: the descriptor IM_New returned for c
  counters, \* counters[p][s][q]: SENDSTOPROC, RECVSFMPROC and COUNTER
  flags,    \* flags[p]: the flags in p's memory that are raised
  remmem,   \* remmem[p][s][q][k]: the blocks others stored in p's memory
  puts,     \* puts[p][q]: p's puts to q under way, in batches split by fences
  step,     \* step[p]: the directions p has handled in the call it is in
  ghost     \* ghost[p][c][d]: the content of p's ghost area for direction d

descVars == <<freelist, commbank, handle, counters>>
vars == <<callVars, descVars, flags, remmem, puts, step, ghost>>

Slot == 0..(Comms - 1)
\* The addresses of the ghost area for direction dir of area, as they are in
\* instance gen of the communication.
Block == [area : Cid, gen : Nat, dir : 1..MaxDirs]
ASSUME BlockAssumption == NoBlock \notin Block
Recv == [proc : Proc, area : Cid]
Send == [proc : Proc, area : Cid, remmeminfo : Block \cup {NoBlock}]
IsMap(m, S) == DOMAIN m \subseteq 1..MaxDirs /\ m \in [DOMAIN m -> S]

\* A flag is known by its array, the descriptor, the other processor and, for
\* DSTREADY, the position among the directions shared with that processor.
Flag(name, s, q, k) == [name |-> name, slot |-> s, proc |-> q, k |-> k]
FlagSet == [name : {"REMMEMREADY", "REMMEMWRITABLE", "DSTREADY", "PUTDONE"},
            slot : Slot, proc : Proc, k : 0..MaxDirs]

\* What a put stores: a memory block, a flag (d tells apart the puts of one
\* loop that store the same flag), or data.
PutBlock(s, k, b) == [kind |-> "block", slot |-> s, k |-> k, block |-> b]
PutFlag(f, d) == [kind |-> "flag", flag |-> f, d |-> d]
PutData(b, val) == [kind |-> "data", block |-> b, val |-> val]
PutSet == [kind : {"block"}, slot : Slot, k : 0..MaxDirs, block : Block]
     \cup [kind : {"flag"}, flag : FlagSet, d : 0..MaxDirs]
     \cup [kind : {"data"}, block : Block, val : DataSet]

TypeOK ==
  /\ CallsTypeOK
  /\ freelist \in [Proc -> Seq(Slot)]
  /\ \A p \in Proc, s \in Slot :
       IsMap(commbank[p][s].recvinfo, Recv) /\ IsMap(commbank[p][s].sendinfo, Send)
  /\ handle \in [Proc -> [Cid -> Slot]]
  /\ counters \in [Proc -> [Slot -> [Proc ->
       [sends : 0..MaxDirs, recvs : 0..MaxDirs, count : 0..MaxDirs]]]]
  /\ flags \in [Proc -> SUBSET FlagSet]
  /\ remmem \in [Proc -> [Slot -> [Proc -> [0..MaxDirs -> Block \cup {NoBlock}]]]]
  /\ puts \in [Proc -> [Proc -> Seq(SUBSET PutSet)]]
  /\ step \in [Proc -> SUBSET (1..MaxDirs)]
  /\ ghost \in [Proc -> [Cid -> [1..MaxDirs -> DataSet \cup {NoData}]]]

\* IM_Initialize: only the REMMEMWRITABLE flags are raised.
Init ==
  /\ InitCalls
  /\ freelist = [p \in Proc |-> [i \in 1..Comms |-> Comms - i]]
  /\ commbank = [p \in Proc |->
       [s \in Slot |-> [recvinfo |-> <<>>, sendinfo |-> <<>>]]]
  /\ handle = [p \in Proc |-> [c \in Cid |-> 0]]
  /\ counters = [p \in Proc |-> [s \in Slot |-> [q \in Proc |->
       [sends |-> 0, recvs |-> 0, count |-> 0]]]]
  /\ flags = [p \in Proc |->
       {Flag("REMMEMWRITABLE", s, q, 0) : s \in Slot, q \in Proc}]
  /\ remmem = [p \in Proc |-> [s \in Slot |-> [q \in Proc |->
       [k \in 0..MaxDirs |-> NoBlock]]]]
  /\ puts = [p \in Proc |-> [q \in Proc |-> <<>>]]
  /\ step = [p \in Proc |-> {}]
  /\ ghost = [p \in Proc |-> [c \in Cid |-> [d \in 1..MaxDirs |-> NoData]]]

-----------------------------------------------------------------------------
(* Puts under way: a sequence of batches, none empty but perhaps the last. *)

AddPuts(batches, new) ==
  IF batches = <<>>
  THEN IF new = {} THEN <<>> ELSE <<new>>
  ELSE [batches EXCEPT ![Len(batches)] = @ \cup new]

Fence(batches) ==
  IF batches = <<>> \/ batches[Len(batches)] = {} THEN batches
  ELSE Append(batches, {})

RemovePut(batches, put) ==
  LET rest == Head(batches) \ {put} IN
  IF rest # {} THEN [batches EXCEPT ![1] = rest]
  ELSE IF Len(batches) = 2 /\ batches[2] = {} THEN <<>>
  ELSE Tail(batches)

-----------------------------------------------------------------------------
(* Positions among the directions of one processor.                        *)

IsNext(d, D) == d \in D /\ \A e \in D : d <= e
With(info, q) == {d \in DOMAIN info : info[d].proc = q}
Before(info, d) == Cardinality({e \in With(info, info[d].proc) : e < d})

\* Mutant: COUNTER is not reset.
AdvanceNoReset(count, n, total) == count + n

\* COUNTER after n increments that each reset it when it reaches total.
Advance(count, n, total) == IF n = 0 THEN count ELSE (count + n) % total
\* One of the n increments made it reach total.
Reached(count, n, total) == n > 0 /\ count + n >= total

\* The free list after NEW took a descriptor; the mutant gives it back when
\* there is nothing to receive.
TakenToReceive(list, recvs) ==
  IF recvs = <<>> THEN list ELSE SubSeq(list, 1, Len(list) - 1)
Taken(list, recvs) == SubSeq(list, 1, Len(list) - 1)

\* IM_New: take a descriptor, count the directions of each neighbour, tell
\* each one this processor receives from where to store the data.  Only the
\* first receive waits for REMMEMWRITABLE.
New(p) ==
  \E c \in Cid :
    LET ds == Dirs(p, c)
        s == freelist[p][Len(freelist[p])]
        recvs == [d \in RecvDirs(p, ds) |->
                    [proc |-> Source(p, ds, d), area |-> c]]
        sends == [d \in SendDirs(p, ds) |->
                    [proc |-> ds[d][p], area |-> c, remmeminfo |-> NoBlock]]
        total(q) == counters[p][s][q].recvs + Cardinality(With(recvs, q))
        writable == {Flag("REMMEMWRITABLE", s, recvs[d].proc, 0) :
                       d \in {e \in DOMAIN recvs : IsNext(e, DOMAIN recvs)}}
        blocks(q) == {PutBlock(s, counters[p][s][q].recvs + Before(recvs, d),
                               [area |-> c, gen |-> Gen(p, c), dir |-> d]) :
                        d \in With(recvs, q)}
        ready(q) == IF Reached(counters[p][s][q].count,
                               Cardinality(With(recvs, q)), total(q))
                    THEN {PutFlag(Flag("REMMEMREADY", s, p, 0), 0)} ELSE {}
    IN /\ Return(p, "NEW", c)
       /\ writable \subseteq flags[p]
       /\ flags' = [flags EXCEPT ![p] = @ \ writable]
       /\ freelist' = [freelist EXCEPT ![p] = Taken(@, recvs)]
       /\ handle' = [handle EXCEPT ![p][c] = s]
       /\ commbank' = [commbank EXCEPT ![p][s] =
            [recvinfo |-> recvs, sendinfo |-> sends]]
       /\ counters' = [counters EXCEPT ![p][s] = [q \in Proc |->
            [sends |-> @[q].sends + Cardinality(With(sends, q)),
             recvs |-> total(q),
             count |-> Advance(@[q].count, Cardinality(With(recvs, q)), total(q))]]]
       /\ puts' = [puts EXCEPT ![p] = [q \in Proc |->
            IF recvs = <<>> THEN @[q]
            ELSE AddPuts(Fence(AddPuts(@[q], blocks(q))), ready(q))]]
       /\ UNCHANGED <<remmem, step, ghost>>

RecvInfo(p, c) == commbank[p][handle[p][c]].recvinfo
SendInfo(p, c) == commbank[p][handle[p][c]].sendinfo

\* The flags DR lowers: PUTDONE of every processor p receives from; the
\* mutant lowers none.
PutDonesKept(p, c) == {}
PutDones(p, c) ==
  {Flag("PUTDONE", handle[p][c], RecvInfo(p, c)[d].proc, 0) :
     d \in DOMAIN RecvInfo(p, c)}

\* The position of the DSTREADY flag that DR raises for direction d; the
\* mutant does not advance COUNTER from one direction to the next.
DstIndexStuck(p, c, d) ==
  counters[p][handle[p][c]][RecvInfo(p, c)[d].proc].count
DstIndex(p, c, d) ==
  LET n == counters[p][handle[p][c]][RecvInfo(p, c)[d].proc]
  IN (n.count + Before(RecvInfo(p, c), d)) % n.recvs

\* IM_DR: lower PUTDONE here, raise DSTREADY at the sender, per direction.
DR(p) ==
  \E c \in Cid :
    LET s == handle[p][c]
        recvs == RecvInfo(p, c)
        n(q) == Cardinality(With(recvs, q))
        dst(q) == {PutFlag(Flag("DSTREADY", s, p, DstIndex(p, c, d)), d) :
                     d \in With(recvs, q)}
    IN /\ Return(p, "DR", c)
       /\ flags' = [flags EXCEPT ![p] = @ \ PutDones(p, c)]
       /\ puts' = [puts EXCEPT ![p] = [q \in Proc |-> AddPuts(@[q], dst(q))]]
       /\ counters' = [counters EXCEPT ![p][s] = [q \in Proc |->
            [counters[p][s][q] EXCEPT !.count = Advance(@, n(q), counters[p][s][q].recvs)]]]
       /\ UNCHANGED <<freelist, commbank, handle, remmem, step, ghost>>

\* IM_SR at direction d, the next one it has to send.
Sending(p, c, d) ==
  /\ May(p, "SR", c)
  /\ IsNext(d, DOMAIN SendInfo(p, c) \ step[p])

\* The flag SR waits for before it takes the addresses for direction d:
\* REMMEMREADY, with the first direction of a processor; the mutant never waits.
ReadyUnchecked(p, c, d) == {}
Ready(p, c, d) ==
  LET isend == SendInfo(p, c)[d].proc
  IN IF counters[p][handle[p][c]][isend].count = 0
     THEN {Flag("REMMEMREADY", handle[p][c], isend, 0)} ELSE {}

\* Mutant: the addresses are waited for and not taken.
SRAddrAgain(p) ==
  \E c \in Cid : \E d \in DOMAIN SendInfo(p, c) :
    /\ Sending(p, c, d)
    /\ SendInfo(p, c)[d].remmeminfo = NoBlock
    /\ Ready(p, c, d) \subseteq flags[p]
    /\ UNCHANGED vars

\* Take the addresses to store the data at, once they are there.
SRAddr(p) ==
  \E c \in Cid : \E d \in DOMAIN SendInfo(p, c) :
    LET s == handle[p][c]
        isend == SendInfo(p, c)[d].proc
        count == counters[p][s][isend].count
    IN /\ Sending(p, c, d)
       /\ SendInfo(p, c)[d].remmeminfo = NoBlock
       /\ Ready(p, c, d) \subseteq flags[p]
       /\ flags' = [flags EXCEPT ![p] = @ \ Ready(p, c, d)]
       /\ commbank' = [commbank EXCEPT ![p][s].sendinfo[d].remmeminfo =
                         remmem[p][s][isend][count]]
       /\ UNCHANGED <<callVars, freelist, handle, counters, remmem, puts, step, ghost>>

\* Wait for DSTREADY and store the data.
SRPut(p) ==
  \E c \in Cid : \E d \in DOMAIN SendInfo(p, c) :
    LET s == handle[p][c]
        info == SendInfo(p, c)[d]
        n == counters[p][s][info.proc]
        dst == Flag("DSTREADY", s, info.proc, n.count)
        data == PutData(info.remmeminfo,
                        Data(p, info.area, inst[p][info.area].gen, d))
    IN /\ Sending(p, c, d)
       /\ info.remmeminfo # NoBlock
       /\ dst \in flags[p]
       /\ flags' = [flags EXCEPT ![p] = @ \ {dst}]
       /\ puts' = [puts EXCEPT ![p][info.proc] = AddPuts(@, {data})]
       /\ counters' = [counters EXCEPT ![p][s][info.proc].count = Advance(@, 1, n.sends)]
       /\ step' = [step EXCEPT ![p] = @ \cup {d}]
       /\ UNCHANGED <<callVars, freelist, commbank, handle, remmem, ghost>>

\* The fence between the data and PUTDONE; the mutant has none.
NoDataFence(batches) == batches
DataFence(batches) == Fence(batches)

\* When all data is under way: fence, then raise PUTDONE once per receiver.
SRReturn(p) ==
  \E c \in Cid :
    LET s == handle[p][c]
        sends == SendInfo(p, c)
        n(q) == Cardinality(With(sends, q))
        done(q) == IF Reached(counters[p][s][q].count, n(q), counters[p][s][q].sends)
                   THEN {PutFlag(Flag("PUTDONE", s, p, 0), 0)} ELSE {}
    IN /\ Return(p, "SR", c)
       /\ step[p] = DOMAIN sends
       /\ puts' = [puts EXCEPT ![p] = [q \in Proc |->
            IF sends = <<>> THEN @[q] ELSE AddPuts(DataFence(@[q]), done(q))]]
       /\ counters' = [counters EXCEPT ![p][s] = [q \in Proc |->
            [counters[p][s][q] EXCEPT !.count = Advance(@, n(q), counters[p][s][q].sends)]]]
       /\ step' = [step EXCEPT ![p] = {}]
       /\ UNCHANGED <<freelist, commbank, handle, flags, remmem, ghost>>

\* IM_DN: wait for PUTDONE of every direction.
DN(p) ==
  \E c \in Cid :
    /\ Return(p, "DN", c)
    /\ \A d \in DOMAIN RecvInfo(p, c) :
         Flag("PUTDONE", handle[p][c], RecvInfo(p, c)[d].proc, 0) \in flags[p]
    /\ UNCHANGED <<descVars, flags, remmem, puts, step, ghost>>

\* IM_Old: raise REMMEMWRITABLE at the receivers, forget the counts, and free
\* the descriptor.
Old(p) ==
  \E c \in Cid :
    LET s == handle[p][c]
        recvs == RecvInfo(p, c)
        sends == SendInfo(p, c)
        writable(q) == {PutFlag(Flag("REMMEMWRITABLE", s, p, 0), d) : d \in With(sends, q)}
    IN /\ Return(p, "OLD", c)
       /\ puts' = [puts EXCEPT ![p] = [q \in Proc |-> AddPuts(@[q], writable(q))]]
       /\ counters' = [counters EXCEPT ![p][s] = [q \in Proc |->
            [counters[p][s][q] EXCEPT
               !.sends = IF With(sends, q) = {} THEN @ ELSE 0,
               !.recvs = IF With(recvs, q) = {} THEN @ ELSE 0]]]
       /\ freelist' = [freelist EXCEPT ![p] = Append(@, s)]
       /\ UNCHANGED <<commbank, handle, flags, remmem, step, ghost>>

\* SHMEM: some put of p to q, of the oldest batch, reaches q's memory.
Deliver(p) ==
  \E q \in Proc :
    /\ puts[p][q] # <<>>
    /\ \E put \in Head(puts[p][q]) :
         /\ puts' = [puts EXCEPT ![p][q] = RemovePut(@, put)]
         /\ remmem' = IF put.kind = "block"
                      THEN [remmem EXCEPT ![q][put.slot][p][put.k] = put.block]
                      ELSE remmem
         /\ flags' = IF put.kind = "flag"
                     THEN [flags EXCEPT ![q] = @ \cup {put.flag}] ELSE flags
         /\ ghost' = IF put.kind = "data"
                     THEN [ghost EXCEPT ![q][put.block.area][put.block.dir] = put.val]
                     ELSE ghost
    /\ UNCHANGED <<callVars, descVars, step>>

\* In a pipelined loop: _SetDynamicCommID is a macro that expands to nothing.
Loop(p) ==
  /\ SkipTile(p) \/ \E o \in LoopOp : Pass(p, o)
  /\ UNCHANGED <<descVars, flags, remmem, puts, step, ghost>>

Step(p) ==
  \/ New(p) \/ DR(p) \/ SRAddr(p) \/ SRPut(p) \/ SRReturn(p) \/ DN(p) \/ Old(p) \/ Loop(p)

Terminated == Finished /\ UNCHANGED vars

Next == (\E p \in Proc : Step(p) \/ Deliver(p)) \/ Terminated

Spec == Init /\ [][Next]_vars

\* Every processor keeps running, and every put arrives in the end.
FairSpec == Spec /\ \A p \in Proc : WF_vars(Step(p)) /\ WF_vars(Deliver(p))

-----------------------------------------------------------------------------
(* The free list is a stack, and nothing sets it back after a tile of a    *)
(* pipelined loop: a tile that gives its descriptors back in the order in  *)
(* which it took them permutes it, and a processor that lacks the tile     *)
(* keeps the old order.                                                    *)

\* What a call of NEW or OLD makes of the free list and the handles.
BankNext(b, call) ==
  IF call[1] = "NEW"
  THEN [free |-> SubSeq(b.free, 1, Len(b.free) - 1),
        handle |-> [b.handle EXCEPT ![call[2]] = b.free[Len(b.free)]]]
  ELSE IF call[1] = "OLD"
  THEN [free |-> Append(b.free, b.handle[call[2]]), handle |-> b.handle]
  ELSE b

\* Free list and handles after each place of program pr, for a processor that
\* leaves out none of its calls.
BankAfter(pr) ==
  LET bank[n \in 0..Len(pr.calls)] ==
        IF n = 0 THEN [free |-> [i \in 1..Comms |-> Comms - i],
                       handle |-> [c \in Cid |-> 0]]
        ELSE BankNext(bank[n - 1], pr.calls[n])
  IN bank

\* Tiles that a processor may lack leave the free list as they find it.  The
\* compiler does not see to that: a tile with one communication does, one with
\* two does not.
SkipsRestore(pr) ==
  \A n \in 1..Len(pr.calls) : \A i \in 1..(n - 1), p \in Proc :
    TileLacks(pr, p, i, n) => BankAfter(pr)[n].free = BankAfter(pr)[i].free

-----------------------------------------------------------------------------
UnderWay(p, q) == UNION {puts[p][q][i] : i \in 1..Len(puts[p][q])}

\* The addresses a sender stores data at are those its receiver gave it for
\* this instance and direction, although only the first receive of NEW waits
\* until the sender no longer needs the addresses of the instance before.
AddressesCurrent ==
  \A p \in Proc, c \in Cid :
    May(p, "SR", c) =>
      \A d \in DOMAIN SendInfo(p, c) :
        LET b == SendInfo(p, c)[d].remmeminfo IN
        b = NoBlock \/ b = [area |-> c, gen |-> inst[p][c].gen, dir |-> d]

\* No signal is lost: a REMMEMREADY, DSTREADY or PUTDONE never reaches a
\* flag that is still raised, so every one of them is seen once.
NoSignalLost ==
  \A p, q \in Proc : \A put \in UnderWay(p, q) :
    put.kind = "flag" /\ put.flag.name # "REMMEMWRITABLE" => put.flag \notin flags[q]

\* The processors take and return descriptors in step, so that descriptor s
\* means the same communication to the processors that use it at a time.
SameDescriptor ==
  \A p, q \in Proc, c \in Cid :
    /\ inst[p][c].done # {} /\ inst[q][c].done # {}
    /\ inst[p][c].gen = inst[q][c].gen
    => handle[p][c] = handle[q][c]

\* f is up in p's memory, or on its way from q.
Coming(f, p, q) ==
  f \in flags[p] \/ \E put \in UnderWay(q, p) : put.kind = "flag" /\ put.flag = f

\* p waits for q: for a flag, in NEW, SR or DN, that is neither up nor on its way.
WaitsFor(p, q) ==
  \E c \in Cid :
    \/ /\ At(p, "NEW", c)
       /\ \E d \in RecvDirs(p, Dirs(p, c)) :
            /\ IsNext(d, RecvDirs(p, Dirs(p, c))) /\ Source(p, Dirs(p, c), d) = q
            /\ ~Coming(Flag("REMMEMWRITABLE", freelist[p][Len(freelist[p])], q, 0), p, q)
    \/ \E d \in DOMAIN SendInfo(p, c) :
         LET s == handle[p][c]
             count == counters[p][s][q].count
         IN /\ Sending(p, c, d) /\ SendInfo(p, c)[d].proc = q
            /\ \/ /\ SendInfo(p, c)[d].remmeminfo = NoBlock /\ count = 0
                  /\ ~Coming(Flag("REMMEMREADY", s, q, 0), p, q)
               \/ ~Coming(Flag("DSTREADY", s, q, count), p, q)
    \/ /\ At(p, "DN", c)
       /\ \E d \in DOMAIN RecvInfo(p, c) :
            /\ RecvInfo(p, c)[d].proc = q
            /\ ~Coming(Flag("PUTDONE", handle[p][c], q, 0), p, q)

\* No cycle of waits: of any processors that are still running, one waits
\* neither for another of them nor for one that has finished.
NoCycleOfWaits ==
  \A S \in SUBSET {p \in Proc : Running(p)} : S # {} =>
    \E p \in S : \A q \in Proc : WaitsFor(p, q) => Running(q) /\ q \notin S

\* What NEW of p awaits of the processor q that it receives from in its first
\* direction: the OLD of each instance that was over by then, had the same
\* descriptor, and in which q sent to p.
AwaitsOLD(pr, p, n) ==
  LET c == pr.calls[n][2]
      bank == BankAfter(pr)
      first(q) == \E d \in RecvDirs(p, pr.dirs[c][GenAt(pr, c, n)]) :
                    /\ IsNext(d, RecvDirs(p, pr.dirs[c][GenAt(pr, c, n)]))
                    /\ Source(p, pr.dirs[c][GenAt(pr, c, n)], d) = q
  IN {<<x[1], SameInstance(pr, "OLD", x[2], x[3])>> :
        x \in {y \in Proc \X Cid \X (1..(n - 1)) :
                 /\ pr.calls[n][1] = "NEW" /\ first(y[1])
                 /\ pr.calls[y[3]] = <<"NEW", y[2]>>
                 /\ bank[y[3]].handle[y[2]] = bank[n].handle[c]
                 /\ Sends(pr, y[1], p, y[2], y[3])
                 /\ \E m \in SameInstance(pr, "OLD", y[2], y[3]) : m < n}}

\* The program itself makes no cycle, though SR awaits the DR of its receivers
\* and NEW that its first source no longer needs the addresses of before.
Runnable(pr) ==
  NoneStuck(pr, [p \in Proc |-> [n \in 1..Len(pr.calls) |->
                   AwaitsSR(pr, p, n) \cup AwaitsDR(pr, p, n) \cup AwaitsOLD(pr, p, n)]])

-----------------------------------------------------------------------------
(* The refinement: data is out once it was put.                            *)
Abstract == INSTANCE Ironman WITH
  out <- [p \in Proc |-> IF AtOp(p, "SR") THEN step[p] ELSE {}]

\* The calls over puts and flags keep what the interface promises:
\* each ghost area receives what its neighbour sent for the same instance, in
\* the DR..DN window, and DN returns only when all of it is there.
Refines == Abstract!Spec

\* Every processor returns from every call.
Completes == Abstract!Completes
=============================================================================
