------------------------ MODULE IronmanSHMEM_proofs ------------------------
(***************************************************************************)
(* Proofs about IRONMAN over SHMEM, for every program, grid, number of     *)
(* directions and size of the bank: typing, the ownership of descriptors,  *)
(* what the counters of descriptors stand for, that nobody waits in a      *)
(* circle, and that it implements the interface.  One counter serves NEW,  *)
(* DR and SR in turn, and is not reset between them nor by OLD: each pass  *)
(* must leave it at 0, and does, because it is counted modulo the          *)
(* directions of a neighbour.                                              *)
(***************************************************************************)
EXTENDS IronmanSHMEMLink, IronmanCalls_proofs

\* The communications open at p hold a descriptor each, and the free list has
\* the others, once.
Free(p, s) == \E i \in 1..Len(freelist[p]) : freelist[p][i] = s
Held(p, s) == \E c \in Cid : InUse(p, c) /\ handle[p][c] = s
Owned(p) ==
  /\ \A c, e \in Cid : InUse(p, c) /\ InUse(p, e) /\ handle[p][c] = handle[p][e] => c = e
  /\ \A i, j \in 1..Len(freelist[p]) : freelist[p][i] = freelist[p][j] => i = j
  /\ \A s \in Slot : Free(p, s) <=> ~Held(p, s)

\* The directions that p has sent are some of those of the SR it is in.
StepOK(p) ==
  step[p] # {} => \E c \in Cid : May(p, "SR", c) /\ step[p] \subseteq DOMAIN SendInfo(p, c)

\* The counters of a free descriptor are 0.  Those of the descriptor of an
\* open communication count its directions, and those sent already.
Zero == [sends |-> 0, recvs |-> 0, count |-> 0]
Total(p, c, q) ==
  LET n == Cardinality(With(SendInfo(p, c), q))
  IN [sends |-> n, recvs |-> Cardinality(With(RecvInfo(p, c), q)),
      count |-> Advance(0, Cardinality(With(SendInfo(p, c), q) \cap Out(p, c)), n)]
CountersOK(p) ==
  /\ \A s \in Slot : Free(p, s) => \A q \in Proc : counters[p][s][q] = Zero
  /\ \A c \in Cid : InUse(p, c) => \A q \in Proc : counters[p][handle[p][c]][q] = Total(p, c, q)

Counter == [sends : 0..MaxDirs, recvs : 0..MaxDirs, count : 0..MaxDirs]
Maps(S) == UNION {[D -> S] : D \in SUBSET (1..MaxDirs)}
Entry == [recvinfo : Maps(Recv), sendinfo : Maps(Send)]
SHMEMTypeOK ==
  /\ freelist \in [Proc -> Seq(Slot)]
  /\ commbank \in [Proc -> [Slot -> Entry]]
  /\ handle \in [Proc -> [Cid -> Slot]]
  /\ counters \in [Proc -> [Slot -> [Proc -> Counter]]]
  /\ flags \in [Proc -> SUBSET FlagSet]
  /\ remmem \in [Proc -> [Slot -> [Proc -> [0..MaxDirs -> Block \cup {NoBlock}]]]]
  /\ puts \in [Proc -> [Proc -> Seq(SUBSET PutSet)]]
  /\ step \in [Proc -> SUBSET (1..MaxDirs)]
  /\ ghost \in [Proc -> [Cid -> [1..MaxDirs -> DataSet \cup {NoData}]]]

LocalOK(p) == Owned(p) /\ StepOK(p) /\ CountersOK(p)
SInv == CallsInv /\ SHMEMTypeOK /\ \A p \in Proc : LocalOK(p)
-----------------------------------------------------------------------------
LEMMA WithBound ==
  ASSUME NEW S, NEW info \in Maps(S), NEW q
  PROVE  /\ With(info, q) \in SUBSET (1..MaxDirs)
         /\ \A d \in DOMAIN info : info[d] \in S /\ Before(info, d) \in 0..MaxDirs
<1>1. PICK D \in SUBSET (1..MaxDirs) : info \in [D -> S]
  BY DEF Maps
<1>2. \A r : With(info, r) \in SUBSET (1..MaxDirs)
  BY <1>1 DEF With
<1>3. ASSUME NEW d \in DOMAIN info
      PROVE  info[d] \in S /\ Before(info, d) \in 0..MaxDirs
  <2>1. {e \in With(info, info[d].proc) : e < d} \in SUBSET (1..MaxDirs)
    BY <1>2
  <2>2. Cardinality({e \in With(info, info[d].proc) : e < d}) \in 0..MaxDirs
    BY <2>1, SetBound
  <2> QED
    BY <1>1, <2>2 DEF Before
<1> QED
  BY <1>2, <1>3

\* What an open communication's descriptor holds.
LEMMA InfoTyped ==
  ASSUME SHMEMTypeOK, NEW p \in Proc, NEW c \in Cid
  PROVE  /\ handle[p][c] \in Slot
         /\ RecvInfo(p, c) \in Maps(Recv) /\ SendInfo(p, c) \in Maps(Send)
<1>1. handle[p][c] \in Slot
  BY DEF SHMEMTypeOK
<1>2. commbank[p][handle[p][c]] \in Entry
  BY <1>1 DEF SHMEMTypeOK
<1> QED
  BY <1>1, <1>2 DEF Entry, RecvInfo, SendInfo
-----------------------------------------------------------------------------
\* The puts under way stay sets of puts.
LEMMA AddPutsType ==
  ASSUME NEW P, NEW batches \in Seq(SUBSET P), NEW new \in SUBSET P
  PROVE  AddPuts(batches, new) \in Seq(SUBSET P)
<1>1. CASE batches = <<>>
  <2>1. <<>> \in Seq(SUBSET P) /\ <<new>> \in Seq(SUBSET P)
    OBVIOUS
  <2> QED
    BY <1>1, <2>1 DEF AddPuts
<1>2. CASE batches # <<>>
  <2> DEFINE n == Len(batches)
  <2>1. n \in Nat /\ n > 0 /\ batches \in [1..n -> SUBSET P]
    BY <1>2
  <2>2. batches[n] \cup new \in SUBSET P
    BY <2>1
  <2>3. [batches EXCEPT ![n] = @ \cup new] \in [1..n -> SUBSET P]
    BY <2>1, <2>2
  <2>4. [batches EXCEPT ![n] = @ \cup new] \in Seq(SUBSET P)
    BY <2>1, <2>3
  <2> QED
    BY <1>2, <2>4 DEF AddPuts
<1> QED
  BY <1>1, <1>2

LEMMA FenceType ==
  ASSUME NEW P, NEW batches \in Seq(SUBSET P)
  PROVE  Fence(batches) \in Seq(SUBSET P)
BY DEF Fence

LEMMA RemovePutType ==
  ASSUME NEW P, NEW batches \in Seq(SUBSET P), batches # <<>>, NEW put
  PROVE  RemovePut(batches, put) \in Seq(SUBSET P)
<1> DEFINE rest == Head(batches) \ {put}
<1>1. Head(batches) \in SUBSET P /\ Tail(batches) \in Seq(SUBSET P)
  OBVIOUS
<1>2. CASE rest # {}
  <2>1. Len(batches) \in Nat /\ batches \in [1..Len(batches) -> SUBSET P]
    OBVIOUS
  <2>2. [batches EXCEPT ![1] = rest] \in [1..Len(batches) -> SUBSET P]
    BY <1>1, <2>1
  <2>3. [batches EXCEPT ![1] = rest] \in Seq(SUBSET P)
    BY <2>1, <2>2
  <2> QED
    BY <1>2, <2>3 DEF RemovePut
<1>3. CASE rest = {}
  BY <1>1, <1>3 DEF RemovePut
<1> QED
  BY <1>2, <1>3

\* The signals and blocks that are put.
LEMMA SignalType ==
  ASSUME NEW name \in {"REMMEMREADY", "REMMEMWRITABLE", "DSTREADY", "PUTDONE"},
         NEW s \in Slot, NEW p \in Proc, NEW k \in 0..MaxDirs, NEW d \in 0..MaxDirs
  PROVE  /\ Flag(name, s, p, k) \in FlagSet
         /\ PutFlag(Flag(name, s, p, k), d) \in PutSet
<1>1. Flag(name, s, p, k) \in FlagSet
  BY DEF Flag, FlagSet
<1> QED
  BY <1>1 DEF PutFlag, PutSet
-----------------------------------------------------------------------------
\* COUNTER is back at 0 after all directions of a neighbour, and one further
\* after one of those that are left.
LEMMA AdvanceAll ==
  ASSUME NEW n \in Nat
  PROVE  Advance(0, n, n) = 0
BY DEF Advance

LEMMA AdvanceOne ==
  ASSUME NEW n \in Nat, NEW k \in Nat, k < n
  PROVE  Advance(Advance(0, k, n), 1, n) = Advance(0, k + 1, n)
<1>1. k % n = k
  OBVIOUS
<1> QED
  BY <1>1 DEF Advance
-----------------------------------------------------------------------------
\* The sums of a processor are those of its directions, and these are few.
LEMMA TotalType ==
  ASSUME SHMEMTypeOK, NEW p \in Proc, NEW c \in Cid, NEW q
  PROVE  /\ Cardinality(With(RecvInfo(p, c), q)) \in 0..MaxDirs
         /\ Cardinality(With(SendInfo(p, c), q)) \in 0..MaxDirs
         /\ Cardinality(With(RecvInfo(p, c), q)) = 0 <=> With(RecvInfo(p, c), q) = {}
         /\ Cardinality(With(SendInfo(p, c), q)) = 0 <=> With(SendInfo(p, c), q) = {}
BY InfoTyped, WithBound, SetBound

\* A processor that is not in SR has sent nothing yet, and all its counters
\* are back at 0.
LEMMA NotSending ==
  ASSUME SHMEMTypeOK, NEW p \in Proc, LocalOK(p), \A c \in Cid : ~May(p, "SR", c)
  PROVE  /\ step[p] = {}
         /\ \A c \in Cid, q \in Proc : InUse(p, c) =>
              LET n == counters[p][handle[p][c]][q]
              IN /\ n.sends = Cardinality(With(SendInfo(p, c), q))
                 /\ n.recvs = Cardinality(With(RecvInfo(p, c), q))
                 /\ n.count = 0
<1>1. step[p] = {}
  BY DEF LocalOK, StepOK
<1>2. ASSUME NEW c \in Cid, NEW q \in Proc, InUse(p, c)
      PROVE  /\ counters[p][handle[p][c]][q].sends = Cardinality(With(SendInfo(p, c), q))
             /\ counters[p][handle[p][c]][q].recvs = Cardinality(With(RecvInfo(p, c), q))
             /\ counters[p][handle[p][c]][q].count = 0
  <2>1. counters[p][handle[p][c]][q] = Total(p, c, q)
    BY <1>2 DEF LocalOK, CountersOK
  <2>2. With(SendInfo(p, c), q) \cap Out(p, c) = {}
    BY DEF Out
  <2>3. Advance(0, Cardinality(With(SendInfo(p, c), q) \cap Out(p, c)),
                Cardinality(With(SendInfo(p, c), q))) = 0
    BY <2>2, FS_EmptySet DEF Advance
  <2> QED
    BY <2>1, <2>3 DEF Total
<1> QED
  BY <1>1, <1>2

\* A call of p that takes and frees no descriptor, and leaves the counters as
\* they should be.
LEMMA KeepsLocal ==
  ASSUME NEW p \in Proc, LocalOK(p), StepOK(p)',
         freelist'[p] = freelist[p], handle'[p] = handle[p],
         counters'[p] = counters[p],
         \A c \in Cid : inst'[p][c].done = {} <=> inst[p][c].done = {},
         \A c \in Cid, q \in Proc : InUse(p, c) => Total(p, c, q)' = Total(p, c, q)
  PROVE  LocalOK(p)'
<1>1. \A c \in Cid : InUse(p, c)' <=> InUse(p, c)
  BY DEF InUse
<1>2. \A s : (Free(p, s)' <=> Free(p, s)) /\ (Held(p, s)' <=> Held(p, s))
  BY <1>1 DEF Free, Held
<1>3. Owned(p)'
  BY <1>1, <1>2 DEF Owned, LocalOK
<1>4. CountersOK(p)'
  <2>1. \A s \in Slot : Free(p, s)' => \A q \in Proc : counters'[p][s][q] = Zero
    BY <1>2 DEF LocalOK, CountersOK
  <2>2. ASSUME NEW c \in Cid, InUse(p, c)', NEW q \in Proc
        PROVE  counters'[p][handle'[p][c]][q] = Total(p, c, q)'
    <3>1. counters[p][handle[p][c]][q] = Total(p, c, q)
      BY <1>1, <2>2 DEF LocalOK, CountersOK
    <3> QED
      BY <1>1, <2>2, <3>1
  <2> QED
    BY <2>1, <2>2 DEF CountersOK, Zero
<1> QED
  BY <1>3, <1>4 DEF LocalOK

\* The state of a processor that is of no concern to another's step.
Own(p) ==
  <<freelist[p], handle[p], commbank[p], counters[p], step[p], pos[p], inst[p], prog>>

LEMMA SameLocal ==
  ASSUME NEW p \in Proc, LocalOK(p), Own(p)' = Own(p)
  PROVE  LocalOK(p)'
<1> USE DEF Own
<1>1. \A o, c : May(p, o, c)' <=> May(p, o, c)
  BY DEF May, At, Running
<1>2. \A c : /\ RecvInfo(p, c)' = RecvInfo(p, c)
             /\ SendInfo(p, c)' = SendInfo(p, c)
             /\ Out(p, c)' = Out(p, c)
  BY <1>1 DEF RecvInfo, SendInfo, Out
<1>3. StepOK(p)'
  BY <1>1, <1>2 DEF LocalOK, StepOK
<1>4. \A c, q : Total(p, c, q)' = Total(p, c, q)
  BY <1>2 DEF Total
<1> QED
  BY <1>3, <1>4, KeepsLocal

\* A call that leaves p where it has nothing under way, as before it.
LEMMA QuietLocal ==
  ASSUME SHMEMTypeOK, NEW p \in Proc, LocalOK(p), \A c \in Cid : ~May(p, "SR", c),
         UNCHANGED <<descVars, step>>,
         \A c \in Cid : inst'[p][c].done = {} <=> inst[p][c].done = {}
  PROVE  LocalOK(p)'
<1>1. step[p] = {} /\ step'[p] = {}
  BY NotSending
<1>2. \A c : /\ RecvInfo(p, c)' = RecvInfo(p, c)
             /\ SendInfo(p, c)' = SendInfo(p, c)
             /\ Out(p, c)' = {} /\ Out(p, c) = {}
  BY <1>1 DEF RecvInfo, SendInfo, Out, descVars
<1>3. StepOK(p)'
  BY <1>1 DEF StepOK
<1>4. \A c, q : Total(p, c, q)' = Total(p, c, q)
  BY <1>2 DEF Total
<1> QED
  BY <1>3, <1>4, KeepsLocal DEF descVars
-----------------------------------------------------------------------------
\* What a return does to the calls p is in and to other processors.
LEMMA ReturnDone ==
  ASSUME CallsInv, NEW p \in Proc, NEW o \in Op, NEW c \in Cid, Return(p, o, c)
  PROVE  /\ \A e \in Cid : ~At(p, "SR", e) \/ (o = "SR" /\ e = c)
         /\ o # "NEW" => InUse(p, c)
         /\ o = "NEW" => ~InUse(p, c)
         /\ o # "OLD" => InUse(p, c)'
         /\ o = "OLD" => ~InUse(p, c)'
         /\ \A e \in Cid : e # c => inst'[p][e] = inst[p][e]
         /\ \A r \in Proc : r # p => inst'[r] = inst[r] /\ pos'[r] = pos[r]
         /\ prog' = prog
BY ReturnOpens DEF InUse

\* While a communication is not open there is a free descriptor: there are at
\* least as many as communications, and each is held by a different one.
LEMMA NotEmpty ==
  ASSUME NEW p \in Proc, Owned(p), NEW c \in Cid, ~InUse(p, c)
  PROVE  freelist[p] # <<>>
<1> SUFFICES ASSUME freelist[p] = <<>> PROVE FALSE
  OBVIOUS
<1>1. \A s \in Slot : Held(p, s)
  BY DEF Owned, Free
<1> DEFINE f == [s \in Slot |-> CHOOSE e \in Cid : InUse(p, e) /\ handle[p][e] = s]
<1>2. \A s \in Slot : f[s] \in Cid /\ InUse(p, f[s]) /\ handle[p][f[s]] = s
  BY <1>1 DEF Held
<1>3. f \in [Slot -> Cid \ {c}]
  BY <1>2
<1>4. IsFiniteSet(Slot) /\ Cardinality(Slot) = Comms
  BY CommsAssumption, FS_Interval DEF Slot
<1>5. /\ IsFiniteSet(Cid \ {c})
      /\ Cardinality(Cid \ {c}) < Comms
  <2>1. IsFiniteSet(Cid \ {c}) /\ Cardinality(Cid \ {c}) = Cardinality(Cid) - 1
    BY CommsAssumption, FS_RemoveElement
  <2>2. Cardinality(Cid) \in Nat /\ Comms \in Nat /\ Comms >= Cardinality(Cid)
    BY CommsAssumption, FS_CardinalityType
  <2> QED
    BY <2>1, <2>2
<1>6. PICK s, t \in Slot : s # t /\ f[s] = f[t]
  <2> HIDE DEF f
  <2> QED
    BY <1>3, <1>4, <1>5, FS_PigeonHole
<1> QED
  BY <1>2, <1>6

\* NEW takes the last free descriptor, which nothing else holds.
LEMMA TakeOwned ==
  ASSUME SHMEMTypeOK, NEW p \in Proc, Owned(p), NEW c \in Cid,
         NEW s, s = freelist[p][Len(freelist[p])],
         ~InUse(p, c), InUse(p, c)',
         \A e \in Cid : e # c => inst'[p][e] = inst[p][e],
         freelist'[p] = SubSeq(freelist[p], 1, Len(freelist[p]) - 1),
         handle'[p] = [handle[p] EXCEPT ![c] = s]
  PROVE  /\ Owned(p)' /\ s \in Slot /\ Free(p, s)
         /\ freelist'[p] \in Seq(Slot)
         /\ \A t \in Slot : Free(p, t)' => Free(p, t)
         /\ \A e \in Cid : InUse(p, e)' /\ e # c => InUse(p, e) /\ handle'[p][e] = handle[p][e]
<1> DEFINE n == Len(freelist[p])
<1>1. n \in Nat /\ n > 0 /\ s \in Slot /\ freelist[p] \in Seq(Slot)
  <2>1. freelist[p] # <<>>
    BY NotEmpty
  <2> QED
    BY <2>1 DEF SHMEMTypeOK
<1>2. /\ Len(freelist'[p]) = n - 1 /\ freelist'[p] \in Seq(Slot)
      /\ \A i \in 1..(n - 1) : freelist'[p][i] = freelist[p][i]
  BY <1>1
<1>3. \A e \in Cid : e # c => /\ InUse(p, e)' <=> InUse(p, e)
                              /\ handle'[p][e] = handle[p][e]
  BY DEF InUse, SHMEMTypeOK
<1>4. handle'[p][c] = s
  BY DEF SHMEMTypeOK
<1>5. Free(p, s) /\ freelist[p][n] = s
  BY <1>1 DEF Free
<1>6. \A i, j \in 1..n : freelist[p][i] = freelist[p][j] => i = j
  BY DEF Owned
<1>7. \A t \in Slot : Free(p, t)' <=> Free(p, t) /\ t # s
  <2>1. n - 1 \in Nat /\ 1..n = (1..(n - 1)) \cup {n} /\ n \notin 1..(n - 1)
    BY <1>1
  <2>2. \A t \in Slot : Free(p, t)' <=> \E i \in 1..(n - 1) : freelist[p][i] = t
    BY <1>2 DEF Free
  <2>3. \A t \in Slot : Free(p, t) <=> \E i \in 1..n : freelist[p][i] = t
    BY DEF Free
  <2> HIDE DEF n
  <2>4. ASSUME NEW t \in Slot, Free(p, t)' PROVE Free(p, t) /\ t # s
    <3>1. PICK i \in 1..(n - 1) : freelist[p][i] = t
      BY <2>2, <2>4
    <3>2. i \in 1..n /\ i # n /\ n \in 1..n
      BY <2>1
    <3> QED
      BY <1>5, <1>6, <2>3, <3>1, <3>2
  <2>5. ASSUME NEW t \in Slot, Free(p, t), t # s PROVE Free(p, t)'
    BY <1>5, <2>1, <2>2, <2>3, <2>5
  <2> QED
    BY <2>4, <2>5
<1>8. \A t \in Slot : Held(p, t)' <=> Held(p, t) \/ t = s
  BY <1>3, <1>4 DEF Held
<1>9. \A t \in Slot : Free(p, t) <=> ~Held(p, t)
  BY DEF Owned
<1>10. \A t \in Slot : Free(p, t)' <=> ~Held(p, t)'
  BY <1>7, <1>8, <1>9
<1>11. ~Held(p, s)
  BY <1>1, <1>5, <1>9
<1>12. \A e, f \in Cid : InUse(p, e)' /\ InUse(p, f)' /\ handle'[p][e] = handle'[p][f]
                         => e = f
  <2>1. \A e, f \in Cid : InUse(p, e) /\ InUse(p, f) /\ handle[p][e] = handle[p][f]
                          => e = f
    BY DEF Owned
  <2> QED
    BY <1>3, <1>4, <1>11, <2>1 DEF Held
<1>13. \A i, j \in 1..(n - 1) : freelist'[p][i] = freelist'[p][j] => i = j
  BY <1>1, <1>2, <1>6
<1>14. Owned(p)'
  BY <1>2, <1>10, <1>12, <1>13 DEF Owned
<1> QED
  BY <1>1, <1>2, <1>3, <1>5, <1>7, <1>14

\* OLD gives the descriptor back.
LEMMA GiveOwned ==
  ASSUME SHMEMTypeOK, NEW p \in Proc, Owned(p), NEW c \in Cid,
         InUse(p, c), ~InUse(p, c)',
         \A e \in Cid : e # c => inst'[p][e] = inst[p][e],
         freelist'[p] = Append(freelist[p], handle[p][c]),
         handle'[p] = handle[p]
  PROVE  /\ Owned(p)' /\ freelist'[p] \in Seq(Slot)
         /\ \A t \in Slot : Free(p, t)' => Free(p, t) \/ t = handle[p][c]
         /\ \A e \in Cid : InUse(p, e)' => InUse(p, e) /\ handle[p][e] # handle[p][c]
<1> DEFINE n == Len(freelist[p])
           s == handle[p][c]
<1>1. n \in Nat /\ s \in Slot /\ freelist[p] \in Seq(Slot)
  BY DEF SHMEMTypeOK
<1>2. /\ Len(freelist'[p]) = n + 1 /\ freelist'[p] \in Seq(Slot)
      /\ freelist'[p][n + 1] = s
      /\ \A i \in 1..n : freelist'[p][i] = freelist[p][i]
  BY <1>1
<1>3. \A e \in Cid : /\ InUse(p, e)' => InUse(p, e) /\ e # c
                     /\ InUse(p, e) /\ e # c => InUse(p, e)'
  BY DEF InUse
<1>4. \A e, f \in Cid : InUse(p, e) /\ InUse(p, f) /\ handle[p][e] = handle[p][f]
                        => e = f
  BY DEF Owned
<1>5. 1..(n + 1) = (1..n) \cup {n + 1}
  BY <1>1
<1>6. \A t \in Slot : Free(p, t)' <=> Free(p, t) \/ t = s
  <2>1. \A t \in Slot : Free(p, t) <=> \E i \in 1..n : freelist[p][i] = t
    BY DEF Free
  <2>2. \A t \in Slot : Free(p, t)' <=> \E i \in 1..(n + 1) : freelist'[p][i] = t
    BY <1>2 DEF Free
  <2> HIDE DEF n, s
  <2> QED
    BY <1>2, <1>5, <2>1, <2>2
<1>7. \A t \in Slot : Held(p, t)' <=> Held(p, t) /\ t # s
  BY <1>1, <1>3, <1>4 DEF Held
<1>8. \A t \in Slot : Free(p, t) <=> ~Held(p, t)
  BY DEF Owned
<1>9. \A t \in Slot : Free(p, t)' <=> ~Held(p, t)'
  BY <1>6, <1>7, <1>8
<1>10. ~Free(p, s)
  BY <1>1, <1>8 DEF Held
<1>11. \A i, j \in 1..(n + 1) : freelist'[p][i] = freelist'[p][j] => i = j
  <2>1. \A i, j \in 1..n : freelist[p][i] = freelist[p][j] => i = j
    BY DEF Owned
  <2>2. \A i \in 1..n : freelist[p][i] # s
    BY <1>10 DEF Free
  <2> HIDE DEF n, s
  <2> QED
    BY <1>2, <1>5, <2>1, <2>2
<1>12. \A e, f \in Cid : InUse(p, e)' /\ InUse(p, f)' /\ handle'[p][e] = handle'[p][f]
                         => e = f
  BY <1>3, <1>4
<1>13. Owned(p)'
  BY <1>2, <1>9, <1>11, <1>12 DEF Owned
<1> QED
  BY <1>2, <1>3, <1>4, <1>6, <1>13
-----------------------------------------------------------------------------
\* NEW keeps typing: what it takes from the program and the bank is typed.
LEMMA NewType ==
  ASSUME SInv, NEW p \in Proc, NEW c \in Cid, Return(p, "NEW", c)
  PROVE  /\ [d \in RecvDirs(p, Dirs(p, c)) |->
              [proc |-> Source(p, Dirs(p, c), d), area |-> c]] \in Maps(Recv)
         /\ [d \in SendDirs(p, Dirs(p, c)) |->
              [proc |-> Dirs(p, c)[d][p], area |-> c, remmeminfo |-> NoBlock]] \in Maps(Send)
         /\ Gen(p, c) \in Nat
<1> DEFINE ds == Dirs(p, c)
<1>1. prog.dirs[c] \in Seq(Seq(Direction)) /\ Gen(p, c) \in 1..Len(prog.dirs[c])
  BY ProgramsAssumption DEF SInv, CallsInv, Program, Return
<1>2. Gen(p, c) \in Nat /\ ds \in Seq(Direction) /\ DOMAIN ds \subseteq 1..MaxDirs
  BY <1>1, DirsType DEF SInv, CallsInv, Dirs
<1> HIDE DEF ds
<1>3. \A d \in DOMAIN ds : ds[d] \in Direction
  BY <1>2
<1>4. [d \in RecvDirs(p, ds) |-> [proc |-> Source(p, ds, d), area |-> c]] \in Maps(Recv)
  <2>1. RecvDirs(p, ds) \in SUBSET (1..MaxDirs)
    BY <1>2 DEF RecvDirs
  <2>2. \A d \in RecvDirs(p, ds) : [proc |-> Source(p, ds, d), area |-> c] \in Recv
    BY SourceType DEF Recv
  <2>3. [d \in RecvDirs(p, ds) |-> [proc |-> Source(p, ds, d), area |-> c]]
          \in [RecvDirs(p, ds) -> Recv]
    BY <2>2
  <2> QED
    BY <2>1, <2>3 DEF Maps
<1>5. [d \in SendDirs(p, ds) |-> [proc |-> ds[d][p], area |-> c, remmeminfo |-> NoBlock]]
        \in Maps(Send)
  <2>1. SendDirs(p, ds) \in SUBSET (1..MaxDirs)
    BY <1>2 DEF SendDirs
  <2>2. \A d \in SendDirs(p, ds) :
          [proc |-> ds[d][p], area |-> c, remmeminfo |-> NoBlock] \in Send
    BY <1>3 DEF Send, SendDirs, Direction
  <2>3. [d \in SendDirs(p, ds) |-> [proc |-> ds[d][p], area |-> c, remmeminfo |-> NoBlock]]
          \in [SendDirs(p, ds) -> Send]
    BY <2>2
  <2> QED
    BY <2>1, <2>3 DEF Maps
<1> QED
  BY <1>2, <1>4, <1>5 DEF ds

LEMMA StepNew ==
  ASSUME SInv, NEW p \in Proc, New(p)
  PROVE  SHMEMTypeOK' /\ LocalOK(p)'
<1>1. PICK c \in Cid :
  LET ds == Dirs(p, c)
      s == freelist[p][Len(freelist[p])]
      recvs == [d \in RecvDirs(p, ds) |-> [proc |-> Source(p, ds, d), area |-> c]]
      sends == [d \in SendDirs(p, ds) |->
                  [proc |-> ds[d][p], area |-> c, remmeminfo |-> NoBlock]]
      total(q) == counters[p][s][q].recvs + Cardinality(With(recvs, q))
      blocks(q) == {PutBlock(s, counters[p][s][q].recvs + Before(recvs, d),
                             [area |-> c, gen |-> Gen(p, c), dir |-> d]) :
                      d \in With(recvs, q)}
      ready(q) == IF Reached(counters[p][s][q].count,
                             Cardinality(With(recvs, q)), total(q))
                  THEN {PutFlag(Flag("REMMEMREADY", s, p, 0), 0)} ELSE {}
  IN /\ Return(p, "NEW", c)
     /\ \E writable : flags' = [flags EXCEPT ![p] = @ \ writable]
     /\ freelist' = [freelist EXCEPT ![p] = Taken(@, recvs)]
     /\ handle' = [handle EXCEPT ![p][c] = s]
     /\ commbank' = [commbank EXCEPT ![p][s] = [recvinfo |-> recvs, sendinfo |-> sends]]
     /\ counters' = [counters EXCEPT ![p][s] = [q \in Proc |->
          [sends |-> @[q].sends + Cardinality(With(sends, q)),
           recvs |-> total(q),
           count |-> Advance(@[q].count, Cardinality(With(recvs, q)), total(q))]]]
     /\ puts' = [puts EXCEPT ![p] = [q \in Proc |->
          IF recvs = <<>> THEN @[q]
          ELSE AddPuts(Fence(AddPuts(@[q], blocks(q))), ready(q))]]
     /\ UNCHANGED <<remmem, step, ghost>>
  BY Zenon DEF New
<1> DEFINE ds == Dirs(p, c)
           s == freelist[p][Len(freelist[p])]
           recvs == [d \in RecvDirs(p, ds) |-> [proc |-> Source(p, ds, d), area |-> c]]
           sends == [d \in SendDirs(p, ds) |->
                       [proc |-> ds[d][p], area |-> c, remmeminfo |-> NoBlock]]
           nr(q) == Cardinality(With(recvs, q))
           ns(q) == Cardinality(With(sends, q))
           blocks(q) == {PutBlock(s, counters[p][s][q].recvs + Before(recvs, d),
                                  [area |-> c, gen |-> Gen(p, c), dir |-> d]) :
                           d \in With(recvs, q)}
           ready(q) == IF Reached(counters[p][s][q].count, nr(q),
                                  counters[p][s][q].recvs + nr(q))
                       THEN {PutFlag(Flag("REMMEMREADY", s, p, 0), 0)} ELSE {}
<1>2. Return(p, "NEW", c) /\ "NEW" \in Op
  BY Zenon, <1>1 DEF Op
<1>3. recvs \in Maps(Recv) /\ sends \in Maps(Send) /\ Gen(p, c) \in Nat
  BY <1>2, NewType
<1>4. /\ \A e \in Cid : ~May(p, "SR", e)
      /\ ~InUse(p, c) /\ InUse(p, c)'
      /\ \A e \in Cid : e # c => inst'[p][e] = inst[p][e]
  <2> DEFINE o == "NEW"
  <2>1. o \in Op /\ o = "NEW" /\ o # "SR" /\ o # "OLD" /\ Return(p, o, c)
    BY <1>2
  <2> HIDE DEF o
  <2> QED
    BY <2>1, ReturnDone DEF SInv, May
<1>5. freelist'[p] = SubSeq(freelist[p], 1, Len(freelist[p]) - 1)
      /\ \A r \in Proc : r # p => freelist'[r] = freelist[r]
  BY Zenon, <1>1 DEF Taken, SInv, SHMEMTypeOK
<1>6. handle' = [handle EXCEPT ![p][c] = s]
      /\ handle'[p] = [handle[p] EXCEPT ![c] = s]
  BY <1>1 DEF SInv, SHMEMTypeOK
<1>7. /\ Owned(p)' /\ s \in Slot /\ Free(p, s)
      /\ freelist'[p] \in Seq(Slot)
      /\ \A t \in Slot : Free(p, t)' => Free(p, t)
      /\ \A e \in Cid : InUse(p, e)' /\ e # c => InUse(p, e) /\ handle'[p][e] = handle[p][e]
  <2> HIDE DEF s
  <2>1. s = freelist[p][Len(freelist[p])]
    BY DEF s
  <2> QED
    BY <1>4, <1>5, <1>6, <2>1, TakeOwned DEF SInv, LocalOK
<1>8. \A q \in Proc : counters[p][s][q] = Zero
  BY <1>7 DEF SInv, LocalOK, CountersOK
<1>9. \A q : nr(q) \in 0..MaxDirs /\ ns(q) \in 0..MaxDirs
  BY <1>3, WithBound, SetBound
<1> HIDE DEF ds, s, recvs, sends, nr, ns
<1>10. commbank' = [commbank EXCEPT ![p][s] = [recvinfo |-> recvs, sendinfo |-> sends]]
  BY Zenon, <1>1 DEF s, recvs, sends, ds
<1>11. counters' = [counters EXCEPT ![p][s] = [q \in Proc |->
         [sends |-> ns(q), recvs |-> nr(q), count |-> 0]]]
  <2>1. counters' = [counters EXCEPT ![p][s] = [q \in Proc |->
          [sends |-> counters[p][s][q].sends + ns(q),
           recvs |-> counters[p][s][q].recvs + nr(q),
           count |-> Advance(counters[p][s][q].count, nr(q),
                             counters[p][s][q].recvs + nr(q))]]]
    BY Zenon, <1>1 DEF s, recvs, sends, ds, nr, ns
  <2>2. \A q \in Proc : [sends |-> counters[p][s][q].sends + ns(q),
                         recvs |-> counters[p][s][q].recvs + nr(q),
                         count |-> Advance(counters[p][s][q].count, nr(q),
                                           counters[p][s][q].recvs + nr(q))]
                        = [sends |-> ns(q), recvs |-> nr(q), count |-> 0]
    <3> SUFFICES ASSUME NEW q \in Proc
                 PROVE  [sends |-> counters[p][s][q].sends + ns(q),
                         recvs |-> counters[p][s][q].recvs + nr(q),
                         count |-> Advance(counters[p][s][q].count, nr(q),
                                           counters[p][s][q].recvs + nr(q))]
                        = [sends |-> ns(q), recvs |-> nr(q), count |-> 0]
      OBVIOUS
    <3>1. ns(q) \in Nat /\ nr(q) \in Nat
      BY <1>9
    <3>2. counters[p][s][q].sends = 0 /\ counters[p][s][q].recvs = 0
          /\ counters[p][s][q].count = 0
      BY <1>8 DEF Zero
    <3> QED
      BY <3>1, <3>2, AdvanceAll
  <2> QED
    BY Zenon, <2>1, <2>2
<1>12. puts' = [puts EXCEPT ![p] = [q \in Proc |->
         IF recvs = <<>> THEN puts[p][q]
         ELSE AddPuts(Fence(AddPuts(puts[p][q], blocks(q))), ready(q))]]
  BY Zenon, <1>1 DEF s, recvs, ds, nr
<1>13. \A q \in Proc : blocks(q) \in SUBSET PutSet /\ ready(q) \in SUBSET PutSet
  <2> SUFFICES ASSUME NEW q \in Proc
               PROVE  blocks(q) \in SUBSET PutSet /\ ready(q) \in SUBSET PutSet
    OBVIOUS
  <2>1. ASSUME NEW d \in With(recvs, q)
        PROVE  PutBlock(s, counters[p][s][q].recvs + Before(recvs, d),
                        [area |-> c, gen |-> Gen(p, c), dir |-> d]) \in PutSet
    <3>1. d \in 1..MaxDirs /\ Before(recvs, d) \in 0..MaxDirs
      BY <1>3, WithBound DEF With
    <3>2. counters[p][s][q].recvs + Before(recvs, d) = Before(recvs, d)
      BY <1>8, <3>1 DEF Zero
    <3>3. [area |-> c, gen |-> Gen(p, c), dir |-> d] \in Block
      BY <1>3, <3>1 DEF Block
    <3> QED
      BY <1>7, <3>1, <3>2, <3>3 DEF PutBlock, PutSet
  <2>2. PutFlag(Flag("REMMEMREADY", s, p, 0), 0) \in PutSet
    BY <1>7, SignalType, MaxDirsAssumption
  <2> QED
    BY <2>1, <2>2
<1> HIDE DEF blocks, ready
<1>14. SHMEMTypeOK'
  <2> USE DEF SInv, SHMEMTypeOK
  <2>1. freelist' \in [Proc -> Seq(Slot)]
    BY <1>1, <1>5, <1>7
  <2>2. commbank' \in [Proc -> [Slot -> Entry]]
    <3>1. [recvinfo |-> recvs, sendinfo |-> sends] \in Entry
      BY <1>3 DEF Entry
    <3> QED
      BY <1>7, <1>10, <3>1
  <2>3. handle' \in [Proc -> [Cid -> Slot]]
    BY <1>6, <1>7
  <2>4. counters' \in [Proc -> [Slot -> [Proc -> Counter]]]
    <3>1. \A q : [sends |-> ns(q), recvs |-> nr(q), count |-> 0] \in Counter
      BY <1>9, MaxDirsAssumption DEF Counter
    <3>2. [q \in Proc |-> [sends |-> ns(q), recvs |-> nr(q), count |-> 0]] \in [Proc -> Counter]
      BY <3>1
    <3> QED
      BY <1>7, <1>11, <3>2
  <2>5. flags' \in [Proc -> SUBSET FlagSet]
    <3>1. PICK writable : flags' = [flags EXCEPT ![p] = @ \ writable]
      BY <1>1
    <3>2. flags \in [Proc -> SUBSET FlagSet] /\ flags[p] \ writable \in SUBSET FlagSet
      OBVIOUS
    <3> QED
      BY Zenon, <3>1, <3>2
  <2>6. puts' \in [Proc -> [Proc -> Seq(SUBSET PutSet)]]
    <3>1. ASSUME NEW q \in Proc
          PROVE  AddPuts(Fence(AddPuts(puts[p][q], blocks(q))), ready(q)) \in Seq(SUBSET PutSet)
      <4>1. puts[p][q] \in Seq(SUBSET PutSet)
        OBVIOUS
      <4>2. AddPuts(puts[p][q], blocks(q)) \in Seq(SUBSET PutSet)
        BY <1>13, <4>1, AddPutsType
      <4>3. Fence(AddPuts(puts[p][q], blocks(q))) \in Seq(SUBSET PutSet)
        BY <4>2, FenceType
      <4> QED
        BY <1>13, <4>3, AddPutsType
    <3>2. \A q \in Proc : (IF recvs = <<>> THEN puts[p][q]
                           ELSE AddPuts(Fence(AddPuts(puts[p][q], blocks(q))), ready(q)))
                            \in Seq(SUBSET PutSet)
      BY <3>1
    <3> QED
      BY <1>12, <3>2
  <2> QED
    BY Zenon, <1>1, <2>1, <2>2, <2>3, <2>4, <2>5, <2>6
<1>15. step[p] = {} /\ step'[p] = {}
  BY Zenon, <1>1, <1>4, NotSending DEF SInv
<1>16. StepOK(p)'
  BY <1>15 DEF StepOK
<1>17. CountersOK(p)'
  <2>1. ASSUME NEW t \in Slot, Free(p, t)', NEW q \in Proc
        PROVE  counters'[p][t][q] = Zero
    <3>1. counters[p][t][q] = Zero
      BY <1>7, <2>1 DEF SInv, LocalOK, CountersOK
    <3>2. t # s
      <4>1. handle'[p][c] = s
        BY <1>6 DEF SInv, SHMEMTypeOK
      <4> QED
        BY <1>4, <1>7, <2>1, <4>1 DEF Owned, Held
    <3> QED
      BY <1>7, <1>11, <3>1, <3>2 DEF SInv, SHMEMTypeOK
  <2>2. ASSUME NEW e \in Cid, InUse(p, e)', NEW q \in Proc
        PROVE  counters'[p][handle'[p][e]][q] = Total(p, e, q)'
    <3>1. Out(p, e)' = {}
      BY <1>15 DEF Out
    <3>2. CASE e = c
      <4>1. handle'[p][c] = s
        BY <1>6 DEF SInv, SHMEMTypeOK
      <4>2. RecvInfo(p, c)' = recvs /\ SendInfo(p, c)' = sends
        BY <1>7, <1>10, <4>1 DEF RecvInfo, SendInfo, SInv, SHMEMTypeOK
      <4>3. Total(p, c, q)' = [sends |-> ns(q), recvs |-> nr(q), count |-> 0]
        BY <3>1, <3>2, <4>2, FS_EmptySet DEF Total, ns, nr, Advance
      <4>4. counters'[p][s][q] = [sends |-> ns(q), recvs |-> nr(q), count |-> 0]
        BY <1>7, <1>11 DEF SInv, SHMEMTypeOK
      <4> QED
        BY <3>2, <4>1, <4>3, <4>4
    <3>3. CASE e # c
      <4>1. InUse(p, e) /\ handle'[p][e] = handle[p][e]
        BY <1>7, <2>2, <3>3
      <4>2. handle[p][e] \in Slot /\ handle[p][e] # s
        BY <1>7, <4>1 DEF SInv, SHMEMTypeOK, LocalOK, Owned, Held
      <4>3. RecvInfo(p, e)' = RecvInfo(p, e) /\ SendInfo(p, e)' = SendInfo(p, e)
        BY <1>7, <1>10, <4>1, <4>2 DEF RecvInfo, SendInfo, SInv, SHMEMTypeOK
      <4>4. Total(p, e, q)' = Total(p, e, q)
        BY <1>15, <3>1, <4>3 DEF Total, Out
      <4>5. counters'[p][handle[p][e]][q] = counters[p][handle[p][e]][q]
        BY <1>7, <1>11, <4>2 DEF SInv, SHMEMTypeOK
      <4> QED
        BY <4>1, <4>4, <4>5 DEF SInv, LocalOK, CountersOK
    <3> QED
      BY <3>2, <3>3
  <2> QED
    BY <2>1, <2>2 DEF CountersOK, Zero
<1> QED
  BY <1>7, <1>14, <1>16, <1>17 DEF LocalOK
-----------------------------------------------------------------------------
\* DR raises a flag per direction, within the flags of the descriptor, and
\* leaves the counters as they are.
LEMMA DstIndexType ==
  ASSUME SInv, NEW p \in Proc, NEW c \in Cid, InUse(p, c), \A e \in Cid : ~May(p, "SR", e),
         NEW q \in Proc, NEW d \in With(RecvInfo(p, c), q)
  PROVE  DstIndex(p, c, d) \in 0..MaxDirs
<1>1. /\ RecvInfo(p, c)[d].proc = q
      /\ Before(RecvInfo(p, c), d) \in 0..MaxDirs
  <2>1. d \in DOMAIN RecvInfo(p, c) /\ RecvInfo(p, c)[d].proc = q
    BY DEF With
  <2>2. RecvInfo(p, c) \in Maps(Recv)
    BY Zenon, InfoTyped DEF SInv
  <2> QED
    BY <2>1, <2>2, WithBound
<1>2. /\ counters[p][handle[p][c]][q].count = 0
      /\ counters[p][handle[p][c]][q].recvs = Cardinality(With(RecvInfo(p, c), q))
  BY NotSending DEF SInv
<1>3. Cardinality(With(RecvInfo(p, c), q)) \in 1..MaxDirs
  <2>1. Cardinality(With(RecvInfo(p, c), q)) \in 0..MaxDirs
        /\ Cardinality(With(RecvInfo(p, c), q)) # 0
    BY TotalType DEF SInv
  <2> QED
    BY <2>1, MaxDirsAssumption
<1> DEFINE b == Before(RecvInfo(p, c), d)
           n == Cardinality(With(RecvInfo(p, c), q))
<1>4. DstIndex(p, c, d) = (0 + b) % n
  BY <1>1, <1>2 DEF DstIndex
<1> HIDE DEF b, n
<1>5. b \in Nat /\ n \in 1..MaxDirs
  BY <1>1, <1>3, MaxDirsAssumption DEF b, n
<1>6. (0 + b) % n \in 0..(n - 1)
  BY <1>5, MaxDirsAssumption
<1> QED
  BY <1>4, <1>5, <1>6, MaxDirsAssumption

LEMMA SameCounters ==
  ASSUME SInv, NEW p \in Proc, NEW s \in Slot, NEW v \in [Proc -> Nat],
         \A q \in Proc : counters[p][s][q].count = v[q],
         counters' = [counters EXCEPT ![p][s] =
                        [q \in Proc |-> [counters[p][s][q] EXCEPT !.count = v[q]]]]
  PROVE  counters' = counters
<1>1. counters \in [Proc -> [Slot -> [Proc -> Counter]]]
  BY DEF SInv, SHMEMTypeOK
<1>2. ASSUME NEW q \in Proc
      PROVE  [counters[p][s][q] EXCEPT !.count = v[q]] = counters[p][s][q]
  <2>1. counters[p][s][q] \in [sends : 0..MaxDirs, recvs : 0..MaxDirs, count : 0..MaxDirs]
    BY <1>1 DEF Counter
  <2>2. counters[p][s][q].count = v[q]
    OBVIOUS
  <2> QED
    BY <2>1, <2>2
<1>3. [q \in Proc |-> [counters[p][s][q] EXCEPT !.count = v[q]]] = counters[p][s]
  <2>1. counters[p][s] \in [Proc -> Counter]
    BY <1>1
  <2>2. [q \in Proc |-> [counters[p][s][q] EXCEPT !.count = v[q]]]
          = [q \in Proc |-> counters[p][s][q]]
    BY <1>2
  <2> QED
    BY <2>1, <2>2
<1>4. counters[p] \in [Slot -> [Proc -> Counter]]
  BY <1>1
<1>5. [counters[p] EXCEPT ![s] = counters[p][s]] = counters[p]
  BY <1>4
<1>6. counters' = [counters EXCEPT ![p] = counters[p]]
  BY <1>3, <1>5
<1> QED
  BY <1>1, <1>6

LEMMA StepDR ==
  ASSUME SInv, NEW p \in Proc, DR(p)
  PROVE  SHMEMTypeOK' /\ LocalOK(p)'
<1>1. PICK c \in Cid :
  LET s == handle[p][c]
      recvs == RecvInfo(p, c)
      n(q) == Cardinality(With(recvs, q))
      dst(q) == {PutFlag(Flag("DSTREADY", s, p, DstIndex(p, c, d)), d) :
                   d \in With(recvs, q)}
  IN /\ Return(p, "DR", c)
     /\ \E down : flags' = [flags EXCEPT ![p] = @ \ down]
     /\ puts' = [puts EXCEPT ![p] = [q \in Proc |-> AddPuts(@[q], dst(q))]]
     /\ counters' = [counters EXCEPT ![p][s] = [q \in Proc |->
          [counters[p][s][q] EXCEPT !.count = Advance(@, n(q), counters[p][s][q].recvs)]]]
     /\ UNCHANGED <<freelist, commbank, handle, remmem, step, ghost>>
  BY DEF DR
<1> DEFINE s == handle[p][c]
           n(q) == Cardinality(With(RecvInfo(p, c), q))
           dst(q) == {PutFlag(Flag("DSTREADY", s, p, DstIndex(p, c, d)), d) :
                        d \in With(RecvInfo(p, c), q)}
<1>2. Return(p, "DR", c) /\ "DR" \in Op
  BY <1>1 DEF Op
<1>3. /\ \A e \in Cid : ~May(p, "SR", e)
      /\ InUse(p, c) /\ \A e \in Cid : inst'[p][e].done = {} <=> inst[p][e].done = {}
  <2> DEFINE o == "DR"
  <2>1. o \in Op /\ o # "SR" /\ o # "OLD" /\ o # "NEW" /\ Return(p, o, c)
    BY <1>2
  <2> HIDE DEF o
  <2>2. /\ \A e \in Cid : ~At(p, "SR", e) \/ (o = "SR" /\ e = c)
        /\ InUse(p, c) /\ InUse(p, c)' /\ \A e \in Cid : e # c => inst'[p][e] = inst[p][e]
    BY <2>1, ReturnDone DEF SInv
  <2> QED
    BY <2>1, <2>2 DEF May, InUse
<1>4. s \in Slot /\ RecvInfo(p, c) \in Maps(Recv)
  BY InfoTyped DEF SInv
<1>5. ASSUME NEW q \in Proc
      PROVE  counters[p][s][q].count = 0 /\ counters[p][s][q].recvs = n(q) /\ n(q) \in Nat
  <2>1. n(q) \in 0..MaxDirs
    BY TotalType DEF SInv
  <2>2. counters[p][s][q].count = 0 /\ counters[p][s][q].recvs = n(q)
    BY <1>3, NotSending DEF SInv
  <2> QED
    BY <2>1, <2>2, MaxDirsAssumption
<1>6. counters' = counters
  <2> DEFINE zero == [q \in Proc |-> 0]
  <2>1. counters' = [counters EXCEPT ![p][s] = [q \in Proc |->
          [counters[p][s][q] EXCEPT
             !.count = Advance(counters[p][s][q].count, n(q), counters[p][s][q].recvs)]]]
    BY <1>1
  <2>2. \A q \in Proc : Advance(counters[p][s][q].count, n(q), counters[p][s][q].recvs) = zero[q]
    <3> HIDE DEF n, s
    <3> QED
      BY <1>5, AdvanceAll
  <2> HIDE DEF n, s, zero
  <2>3. counters' = [counters EXCEPT ![p][s] =
          [q \in Proc |-> [counters[p][s][q] EXCEPT !.count = zero[q]]]]
    BY <2>1, <2>2
  <2>4. zero \in [Proc -> Nat] /\ \A q \in Proc : counters[p][s][q].count = zero[q]
    BY <1>5 DEF zero
  <2> QED
    BY Zenon, <1>4, <2>3, <2>4, SameCounters
<1>7. SHMEMTypeOK'
  <2>1. flags' \in [Proc -> SUBSET FlagSet]
    <3>1. PICK down : flags' = [flags EXCEPT ![p] = @ \ down]
      <4> HIDE DEF s, n, dst
      <4> QED
        BY <1>1
    <3>2. flags \in [Proc -> SUBSET FlagSet] /\ flags[p] \ down \in SUBSET FlagSet
      BY DEF SInv, SHMEMTypeOK
    <3> QED
      BY <3>1, <3>2
  <2>2. puts' \in [Proc -> [Proc -> Seq(SUBSET PutSet)]]
    <3>1. ASSUME NEW q \in Proc
          PROVE  AddPuts(puts[p][q], dst(q)) \in Seq(SUBSET PutSet)
      <4>1. ASSUME NEW d \in With(RecvInfo(p, c), q)
            PROVE  PutFlag(Flag("DSTREADY", s, p, DstIndex(p, c, d)), d) \in PutSet
        <5>1. DstIndex(p, c, d) \in 0..MaxDirs
          BY <1>3, DstIndexType
        <5>2. With(RecvInfo(p, c), q) \in SUBSET (1..MaxDirs)
          BY <1>4, WithBound
        <5>3. d \in 0..MaxDirs
          BY <5>2, MaxDirsAssumption
        <5> QED
          BY <1>4, <5>1, <5>3, SignalType
      <4>2. dst(q) \in SUBSET PutSet
        BY <4>1
      <4>3. puts[p][q] \in Seq(SUBSET PutSet)
        BY DEF SInv, SHMEMTypeOK
      <4> HIDE DEF dst
      <4> QED
        BY <4>2, <4>3, AddPutsType
    <3>2. puts' = [puts EXCEPT ![p] = [q \in Proc |-> AddPuts(puts[p][q], dst(q))]]
      BY <1>1
    <3> HIDE DEF dst
    <3> QED
      BY <3>1, <3>2 DEF SInv, SHMEMTypeOK
  <2> QED
    BY <1>1, <1>6, <2>1, <2>2 DEF SInv, SHMEMTypeOK
<1>8. LocalOK(p)'
  <2>1. UNCHANGED <<descVars, step>>
    BY <1>1, <1>6 DEF descVars
  <2> QED
    BY <1>3, <2>1, QuietLocal DEF SInv
<1> QED
  BY <1>7, <1>8
-----------------------------------------------------------------------------
\* DN and the ends of tiles change nothing but the place in the program.
LEMMA StepDN ==
  ASSUME SInv, NEW p \in Proc, DN(p)
  PROVE  SHMEMTypeOK' /\ LocalOK(p)'
<1>1. PICK c \in Cid : /\ Return(p, "DN", c)
                       /\ UNCHANGED <<descVars, flags, remmem, puts, step, ghost>>
  BY DEF DN
<1>2. /\ \A e \in Cid : ~May(p, "SR", e)
      /\ \A e \in Cid : inst'[p][e].done = {} <=> inst[p][e].done = {}
  <2> DEFINE o == "DN"
  <2>1. o \in Op /\ o # "SR" /\ o # "OLD" /\ o # "NEW" /\ Return(p, o, c)
    BY <1>1 DEF Op
  <2> HIDE DEF o
  <2>2. /\ \A e \in Cid : ~At(p, "SR", e) \/ (o = "SR" /\ e = c)
        /\ InUse(p, c) /\ InUse(p, c)' /\ \A e \in Cid : e # c => inst'[p][e] = inst[p][e]
    BY <2>1, ReturnDone DEF SInv
  <2> QED
    BY <2>1, <2>2 DEF May, InUse
<1>3. SHMEMTypeOK'
  BY <1>1 DEF SInv, SHMEMTypeOK, descVars
<1>4. LocalOK(p)'
  BY <1>1, <1>2, QuietLocal DEF SInv
<1> QED
  BY <1>3, <1>4

LEMMA StepLoop ==
  ASSUME SInv, NEW p \in Proc, Loop(p)
  PROVE  SHMEMTypeOK' /\ LocalOK(p)'
<1>1. /\ SkipTile(p) \/ \E o \in LoopOp : Pass(p, o)
      /\ UNCHANGED <<descVars, flags, remmem, puts, step, ghost>>
  BY DEF Loop
<1>2. \A e \in Cid : ~May(p, "SR", e)
  <2>1. AtOp(p, "NEW") \/ \E o \in LoopOp : AtOp(p, o)
    BY <1>1 DEF SkipTile, SkipTo, Pass
  <2> QED
    BY <2>1 DEF AtOp, At, May, LoopOp
<1>3. \A e \in Cid : inst'[p][e].done = {} <=> inst[p][e].done = {}
  BY <1>1, SkipStep, PassStep DEF SInv
<1>4. SHMEMTypeOK'
  BY <1>1 DEF SInv, SHMEMTypeOK, descVars
<1>5. LocalOK(p)'
  BY <1>1, <1>2, <1>3, QuietLocal DEF SInv
<1> QED
  BY <1>4, <1>5
-----------------------------------------------------------------------------
\* In SR: of the open communications only the one being sent has counts that
\* a direction moves.
LEMMA InSR ==
  ASSUME SInv, NEW p \in Proc, NEW c \in Cid, May(p, "SR", c)
  PROVE  /\ InUse(p, c)
         /\ \A e \in Cid : May(p, "SR", e) => e = c
         /\ step[p] \subseteq DOMAIN SendInfo(p, c)
         /\ Out(p, c) = step[p]
         /\ \A e \in Cid : InUse(p, e) /\ e # c => Out(p, e) = {} /\ handle[p][e] # handle[p][c]
<1>1. InUse(p, c)
  BY DEF May, Required, InUse
<1>2. \A e \in Cid : May(p, "SR", e) => e = c
  BY DEF May, At
<1>3. step[p] \subseteq DOMAIN SendInfo(p, c)
  BY <1>2 DEF SInv, LocalOK, StepOK
<1>4. \A e \in Cid : e # c => Out(p, e) = {}
  BY <1>2 DEF Out
<1>5. \A e \in Cid : InUse(p, e) /\ e # c => handle[p][e] # handle[p][c]
  BY <1>1 DEF SInv, LocalOK, Owned
<1> QED
  BY <1>1, <1>2, <1>3, <1>4, <1>5 DEF Out

LEMMA StepSRAddr ==
  ASSUME SInv, NEW p \in Proc, SRAddr(p)
  PROVE  SHMEMTypeOK' /\ LocalOK(p)'
<1> DEFINE Takes(e, k) ==
        LET bank == handle[p][e]
            to == SendInfo(p, e)[k].proc
        IN /\ k \in DOMAIN SendInfo(p, e)
           /\ Sending(p, e, k)
           /\ \E up : flags' = [flags EXCEPT ![p] = @ \ up]
           /\ commbank' = [commbank EXCEPT ![p][bank].sendinfo[k].remmeminfo =
                             remmem[p][bank][to][counters[p][bank][to].count]]
           /\ UNCHANGED <<callVars, freelist, handle, counters, remmem, puts, step, ghost>>
<1>c. PICK c \in Cid : \E k \in DOMAIN SendInfo(p, c) : Takes(c, k)
  BY Zenon DEF SRAddr
<1>d. PICK d : Takes(c, d)
  BY Zenon, <1>c
<1>1. Takes(c, d)
  BY Zenon, <1>d
<1> DEFINE s == handle[p][c]
           isend == SendInfo(p, c)[d].proc
           count == counters[p][s][isend].count
           b == remmem[p][s][isend][count]
<1>2. s \in Slot /\ SendInfo(p, c) \in Maps(Send) /\ isend \in Proc /\ b \in Block \cup {NoBlock}
  <2>1. s \in Slot /\ SendInfo(p, c) \in Maps(Send)
    BY InfoTyped DEF SInv
  <2>2. isend \in Proc
    <3>1. d \in DOMAIN SendInfo(p, c)
      BY Zenon, <1>1
    <3>2. SendInfo(p, c)[d] \in Send
      BY <2>1, <3>1, WithBound
    <3> QED
      BY <3>2 DEF Send
  <2> HIDE DEF s, isend
  <2>3. counters[p][s][isend] \in Counter
    BY <2>1, <2>2 DEF SInv, SHMEMTypeOK
  <2>4. count \in 0..MaxDirs
    BY <2>3 DEF Counter
  <2> HIDE DEF count
  <2>5. b \in Block \cup {NoBlock}
    <3>1. remmem[p][s][isend] \in [0..MaxDirs -> Block \cup {NoBlock}]
      BY <2>1, <2>2 DEF SInv, SHMEMTypeOK
    <3> QED
      BY Zenon, <2>4, <3>1
  <2> QED
    BY <2>1, <2>2, <2>5
<1>3. commbank' = [commbank EXCEPT ![p][s].sendinfo[d].remmeminfo = b]
  BY Zenon, <1>1
<1> HIDE DEF b, count, isend
<1>4. /\ commbank' \in [Proc -> [Slot -> Entry]]
      /\ \A t \in Slot : /\ commbank'[p][t].recvinfo = commbank[p][t].recvinfo
                         /\ DOMAIN commbank'[p][t].sendinfo = DOMAIN commbank[p][t].sendinfo
                         /\ \A e \in DOMAIN commbank[p][t].sendinfo :
                              commbank'[p][t].sendinfo[e].proc = commbank[p][t].sendinfo[e].proc
  <2> DEFINE old == commbank[p][s]
             new == [old EXCEPT !.sendinfo[d].remmeminfo = b]
  <2>1. commbank \in [Proc -> [Slot -> Entry]] /\ old \in Entry
    BY <1>2 DEF SInv, SHMEMTypeOK
  <2>2. commbank' = [commbank EXCEPT ![p][s] = new]
    BY <1>3
  <2> DEFINE info == old.sendinfo
             i2 == [info EXCEPT ![d] = [info[d] EXCEPT !.remmeminfo = b]]
  <2>3. d \in DOMAIN info
    BY Zenon, <1>1 DEF SendInfo
  <2>4. new = [old EXCEPT !.sendinfo = i2]
    OBVIOUS
  <2> HIDE DEF old, new, info, i2
  <2>5. old.sendinfo = info /\ info \in Maps(Send) /\ old.recvinfo \in Maps(Recv)
    BY <2>1 DEF Entry, info
  <2>6. PICK D \in SUBSET (1..MaxDirs) : info \in [D -> Send]
    BY <2>5 DEF Maps
  <2>7. /\ [info[d] EXCEPT !.remmeminfo = b] \in Send
        /\ [info[d] EXCEPT !.remmeminfo = b].proc = info[d].proc
    BY <1>2, <2>3, <2>6 DEF Send
  <2>8. /\ i2 \in [D -> Send] /\ DOMAIN i2 = DOMAIN info
        /\ \A e \in DOMAIN info : i2[e].proc = info[e].proc
    BY <2>3, <2>6, <2>7 DEF i2
  <2>9. i2 \in Maps(Send)
    BY <2>8 DEF Maps
  <2>10. new \in Entry /\ new.recvinfo = old.recvinfo /\ new.sendinfo = i2
    BY <2>1, <2>4, <2>9 DEF Entry
  <2>11. commbank' \in [Proc -> [Slot -> Entry]]
    BY <1>2, <2>1, <2>2, <2>10
  <2>12. /\ commbank'[p][s] = new
         /\ \A t \in Slot : t # s => commbank'[p][t] = commbank[p][t]
    BY <1>2, <2>1, <2>2
  <2>13. /\ commbank'[p][s].recvinfo = commbank[p][s].recvinfo
         /\ DOMAIN commbank'[p][s].sendinfo = DOMAIN commbank[p][s].sendinfo
         /\ \A e \in DOMAIN commbank[p][s].sendinfo :
              commbank'[p][s].sendinfo[e].proc = commbank[p][s].sendinfo[e].proc
    BY <2>5, <2>8, <2>10, <2>12 DEF old
  <2> QED
    BY <2>11, <2>12, <2>13
<1>5. SHMEMTypeOK'
  <2>1. flags' \in [Proc -> SUBSET FlagSet]
    <3>1. PICK up : flags' = [flags EXCEPT ![p] = @ \ up]
      BY Zenon, <1>1
    <3>2. flags \in [Proc -> SUBSET FlagSet] /\ flags[p] \ up \in SUBSET FlagSet
      BY DEF SInv, SHMEMTypeOK
    <3> QED
      BY <3>1, <3>2
  <2> QED
    BY Zenon, <1>1, <1>4, <2>1 DEF SInv, SHMEMTypeOK
<1>6. ASSUME NEW e \in Cid
      PROVE  /\ \A q \in Proc : Total(p, e, q)' = Total(p, e, q)
             /\ DOMAIN SendInfo(p, e)' = DOMAIN SendInfo(p, e)
             /\ May(p, "SR", e)' <=> May(p, "SR", e)
  <2>1. handle'[p][e] = handle[p][e] /\ handle[p][e] \in Slot
    BY Zenon, <1>1, InfoTyped DEF SInv
  <2>2. /\ RecvInfo(p, e)' = RecvInfo(p, e)
        /\ DOMAIN SendInfo(p, e)' = DOMAIN SendInfo(p, e)
        /\ \A x \in DOMAIN SendInfo(p, e) : SendInfo(p, e)'[x].proc = SendInfo(p, e)[x].proc
    BY <1>4, <2>1 DEF RecvInfo, SendInfo
  <2>3. May(p, "SR", e)' <=> May(p, "SR", e)
    BY Zenon, <1>1 DEF May, At, Running, callVars
  <2>4. Out(p, e)' = Out(p, e)
    BY Zenon, <1>1, <2>3 DEF Out
  <2>5. ASSUME NEW q \in Proc PROVE With(SendInfo(p, e), q)' = With(SendInfo(p, e), q)
    BY <2>2 DEF With
  <2>6. \A q \in Proc : Total(p, e, q)' = Total(p, e, q)
    BY Zenon, <2>2, <2>4, <2>5 DEF Total
  <2> QED
    BY <2>2, <2>3, <2>6
<1>7. StepOK(p)'
  BY Zenon, <1>1, <1>6 DEF StepOK, SInv, LocalOK
<1>8. LocalOK(p)'
  BY Zenon, <1>1, <1>6, <1>7, KeepsLocal DEF SInv, callVars
<1> QED
  BY <1>5, <1>8

\* A direction more of the ones to q that are out.
LEMMA OneMore ==
  ASSUME SHMEMTypeOK, NEW p \in Proc, NEW c \in Cid, NEW q,
         NEW O \in SUBSET (1..MaxDirs), NEW d \in With(SendInfo(p, c), q), d \notin O
  PROVE  LET W == With(SendInfo(p, c), q)
         IN /\ Cardinality(W \cap O) \in Nat /\ Cardinality(W) \in Nat
            /\ Cardinality(W \cap O) < Cardinality(W)
            /\ Cardinality(W \cap (O \cup {d})) = Cardinality(W \cap O) + 1
<1> DEFINE W == With(SendInfo(p, c), q)
<1>1. W \in SUBSET (1..MaxDirs)
  BY InfoTyped, WithBound
<1> QED
  BY <1>1, AddedOne

LEMMA StepSRPut ==
  ASSUME SInv, NEW p \in Proc, SRPut(p)
  PROVE  /\ SHMEMTypeOK' /\ LocalOK(p)'
         /\ \A r \in Proc : r # p => Own(r)' = Own(r)
<1> DEFINE Puts(e, m) ==
        LET bank == handle[p][e]
            to == SendInfo(p, e)[m]
            now == counters[p][bank][to.proc]
            dst == Flag("DSTREADY", bank, to.proc, now.count)
        IN /\ m \in DOMAIN SendInfo(p, e)
           /\ Sending(p, e, m)
           /\ to.remmeminfo # NoBlock
           /\ dst \in flags[p]
           /\ flags' = [flags EXCEPT ![p] = @ \ {dst}]
           /\ puts' = [puts EXCEPT ![p][to.proc] =
                         AddPuts(@, {PutData(to.remmeminfo,
                                             Data(p, to.area, inst[p][to.area].gen, m))})]
           /\ counters' = [counters EXCEPT ![p][bank][to.proc].count = Advance(@, 1, now.sends)]
           /\ step' = [step EXCEPT ![p] = @ \cup {m}]
           /\ UNCHANGED <<callVars, freelist, commbank, handle, remmem, ghost>>
<1>c. PICK c \in Cid : \E m \in DOMAIN SendInfo(p, c) : Puts(c, m)
  BY Zenon DEF SRPut
<1>d. PICK d : Puts(c, d)
  BY Zenon, <1>c
<1>1. Puts(c, d)
  BY Zenon, <1>d
<1> DEFINE s == handle[p][c]
           info == SendInfo(p, c)[d]
<1>0. PICK q : q = info.proc
  OBVIOUS
<1> DEFINE W == With(SendInfo(p, c), q)
           k == Cardinality(W \cap step[p])
           n == Cardinality(W)
           data == PutData(info.remmeminfo,
                           Data(p, info.area, inst[p][info.area].gen, d))
<1>2. /\ d \in DOMAIN SendInfo(p, c) /\ May(p, "SR", c) /\ d \notin step[p]
      /\ info.remmeminfo # NoBlock
  BY Zenon, <1>1 DEF Sending, IsNext
<1>3. s \in Slot /\ SendInfo(p, c) \in Maps(Send)
  BY InfoTyped DEF SInv
<1>4. info \in Send /\ q \in Proc /\ d \in 1..MaxDirs /\ d \in W
  <2>1. info \in Send /\ info.proc \in Proc
    <3>1. info \in Send
      BY <1>2, <1>3, WithBound
    <3> QED
      BY <3>1 DEF Send
  <2>2. d \in W
    BY <1>0, <1>2 DEF With
  <2>3. W \in SUBSET (1..MaxDirs)
    BY <1>3, WithBound
  <2> HIDE DEF W, info
  <2> QED
    BY <1>0, <2>1, <2>2, <2>3
<1>5. step[p] \in SUBSET (1..MaxDirs)
  BY DEF SInv, SHMEMTypeOK
<1>6. /\ k \in Nat /\ n \in Nat /\ k < n
      /\ Cardinality(W \cap (step[p] \cup {d})) = k + 1
  <2> DEFINE O == step[p]
  <2>1. SHMEMTypeOK /\ O \in SUBSET (1..MaxDirs) /\ d \in With(SendInfo(p, c), q) /\ d \notin O
    BY <1>2, <1>4, <1>5 DEF SInv
  <2> HIDE DEF O, info, s
  <2>2. LET V == With(SendInfo(p, c), q)
        IN /\ Cardinality(V \cap O) \in Nat /\ Cardinality(V) \in Nat
           /\ Cardinality(V \cap O) < Cardinality(V)
           /\ Cardinality(V \cap (O \cup {d})) = Cardinality(V \cap O) + 1
    BY <2>1, OneMore
  <2> QED
    BY <2>2 DEF O
<1>7. /\ InUse(p, c)
      /\ \A e \in Cid : May(p, "SR", e) => e = c
      /\ step[p] \subseteq DOMAIN SendInfo(p, c)
      /\ Out(p, c) = step[p]
      /\ \A e \in Cid : InUse(p, e) /\ e # c => Out(p, e) = {} /\ handle[p][e] # s
  BY <1>2, InSR
<1>8. counters[p][s][q] \in Counter /\ counters[p][s][q] = Total(p, c, q)
  BY <1>3, <1>4, <1>7 DEF SInv, SHMEMTypeOK, LocalOK, CountersOK
<1>9. counters[p][s][q].count = Advance(0, k, n) /\ counters[p][s][q].sends = n
  BY <1>7, <1>8 DEF Total
<1>10. /\ flags' = [flags EXCEPT ![p] = @ \ {Flag("DSTREADY", s, q, counters[p][s][q].count)}]
       /\ puts' = [puts EXCEPT ![p][q] = AddPuts(@, {data})]
       /\ counters' = [counters EXCEPT ![p][s][q].count =
                         Advance(@, 1, counters[p][s][q].sends)]
       /\ step' = [step EXCEPT ![p] = @ \cup {d}]
       /\ UNCHANGED <<callVars, freelist, commbank, handle, remmem, ghost>>
  <2>1. flags' = [flags EXCEPT ![p] = @ \ {Flag("DSTREADY", s, q, counters[p][s][q].count)}]
    BY Zenon, <1>0, <1>1
  <2>2. puts' = [puts EXCEPT ![p][q] = AddPuts(@, {data})]
    BY Zenon, <1>0, <1>1
  <2>3. counters' = [counters EXCEPT ![p][s][q].count = Advance(@, 1, counters[p][s][q].sends)]
    BY Zenon, <1>0, <1>1
  <2>4. /\ step' = [step EXCEPT ![p] = @ \cup {d}]
        /\ UNCHANGED <<callVars, freelist, commbank, handle, remmem, ghost>>
    BY Zenon, <1>1
  <2> QED
    BY <2>1, <2>2, <2>3, <2>4
<1> HIDE DEF s, W, k, n, data
<1>11. counters' = [counters EXCEPT ![p][s][q].count = Advance(0, k + 1, n)]
  BY <1>6, <1>9, <1>10, AdvanceOne
<1>12. Advance(0, k + 1, n) \in 0..MaxDirs
  <2>1. n \in 0..MaxDirs /\ n > 0
    <3>1. n \in 0..MaxDirs
      BY TotalType DEF SInv, n, W
    <3> QED
      BY <1>6, <3>1
  <2>2. (0 + (k + 1)) % n \in 0..(n - 1)
    BY <1>6, <2>1, MaxDirsAssumption
  <2> QED
    BY <1>6, <2>1, <2>2, MaxDirsAssumption DEF Advance
<1>13. data \in PutSet
  <2>1. info.remmeminfo \in Block /\ info.area \in Cid
    BY <1>2, <1>4 DEF Send
  <2>2. inst[p][info.area].gen \in Nat
    BY <2>1 DEF SInv, CallsInv, CallsTypeOK
  <2>3. Data(p, info.area, inst[p][info.area].gen, d) \in DataSet
    BY <1>4, <2>1, <2>2, DataType
  <2> QED
    BY <2>1, <2>3 DEF data, PutData, PutSet
<1>14. counters' \in [Proc -> [Slot -> [Proc -> Counter]]]
       /\ counters'[p][s][q] = [counters[p][s][q] EXCEPT !.count = Advance(0, k + 1, n)]
       /\ \A t \in Slot, r \in Proc : <<t, r>> # <<s, q>> =>
            counters'[p][t][r] = counters[p][t][r]
  <2> DEFINE new == [counters[p][s][q] EXCEPT !.count = Advance(0, k + 1, n)]
  <2>1. counters' = [counters EXCEPT ![p][s][q] = new]
    BY <1>11
  <2>2. new \in Counter
    BY <1>8, <1>12 DEF Counter
  <2> HIDE DEF new
  <2>3. counters' \in [Proc -> [Slot -> [Proc -> Counter]]]
    <3>1. counters \in [Proc -> [Slot -> [Proc -> Counter]]]
      BY DEF SInv, SHMEMTypeOK
    <3> QED
      BY <1>3, <1>4, <2>1, <2>2, <3>1, TableType
  <2>4. /\ counters'[p][s][q] = new
        /\ \A t \in Slot, r \in Proc : t # s \/ r # q => counters'[p][t][r] = counters[p][t][r]
    BY <1>3, <1>4, <2>1 DEF SInv, SHMEMTypeOK
  <2> QED
    BY <2>3, <2>4 DEF new
<1>15. SHMEMTypeOK'
  <2>1. flags' \in [Proc -> SUBSET FlagSet]
    <3>1. PICK down : flags' = [flags EXCEPT ![p] = @ \ down]
      BY <1>10
    <3>2. flags \in [Proc -> SUBSET FlagSet] /\ flags[p] \ down \in SUBSET FlagSet
      BY DEF SInv, SHMEMTypeOK
    <3> QED
      BY <3>1, <3>2
  <2>2. puts' \in [Proc -> [Proc -> Seq(SUBSET PutSet)]]
    <3>1. puts \in [Proc -> [Proc -> Seq(SUBSET PutSet)]]
      BY DEF SInv, SHMEMTypeOK
    <3>2. AddPuts(puts[p][q], {data}) \in Seq(SUBSET PutSet)
      BY <1>4, <1>13, <3>1, AddPutsType
    <3> QED
      BY <1>4, <1>10, <3>1, <3>2
  <2>3. step' \in [Proc -> SUBSET (1..MaxDirs)]
    BY <1>4, <1>5, <1>10 DEF SInv, SHMEMTypeOK
  <2> QED
    BY <1>10, <1>14, <2>1, <2>2, <2>3 DEF SInv, SHMEMTypeOK
<1>16. step'[p] = step[p] \cup {d}
  BY <1>10 DEF SInv, SHMEMTypeOK
<1>17. /\ \A o, e : May(p, o, e)' <=> May(p, o, e)
       /\ \A e : SendInfo(p, e)' = SendInfo(p, e) /\ RecvInfo(p, e)' = RecvInfo(p, e)
       /\ \A e : InUse(p, e)' <=> InUse(p, e)
       /\ freelist' = freelist /\ handle' = handle
  BY <1>10 DEF May, At, Running, callVars, SendInfo, RecvInfo, InUse
<1>18. StepOK(p)'
  BY <1>2, <1>7, <1>16, <1>17 DEF StepOK
<1>19. Owned(p)'
  BY <1>17 DEF SInv, LocalOK, Owned, Free, Held
<1>20. CountersOK(p)'
  <2>1. ASSUME NEW t \in Slot, Free(p, t)', NEW r \in Proc
        PROVE  counters'[p][t][r] = Zero
    <3>1. Free(p, t)
      BY <1>17, <2>1 DEF Free
    <3>2. t # s
      BY <1>3, <1>7, <3>1 DEF SInv, LocalOK, Owned, Held, s
    <3>3. <<t, r>> # <<s, q>>
      BY <3>2
    <3>4. counters[p][t][r] = Zero
      BY <3>1 DEF SInv, LocalOK, CountersOK
    <3> QED
      BY <1>14, <3>3, <3>4
  <2>2. ASSUME NEW e \in Cid, InUse(p, e)', NEW r \in Proc
        PROVE  counters'[p][handle'[p][e]][r] = Total(p, e, r)'
    <3>1. InUse(p, e) /\ handle'[p][e] = handle[p][e] /\ handle[p][e] \in Slot
      BY <1>17, <2>2 DEF SInv, SHMEMTypeOK
    <3>2. counters[p][handle[p][e]][r] = Total(p, e, r)
      BY <3>1 DEF SInv, LocalOK, CountersOK
    <3>3. CASE e # c
      <4>1. Out(p, e) = {} /\ handle[p][e] # s
        BY <1>7, <3>1, <3>3
      <4>2. Out(p, e)' = {}
        BY <1>7, <1>17, <3>3 DEF Out
      <4>3. Total(p, e, r)' = Total(p, e, r)
        BY <1>17, <4>1, <4>2 DEF Total
      <4>4. <<handle[p][e], r>> # <<s, q>>
        BY <4>1
      <4> QED
        BY <1>14, <3>1, <3>2, <4>3, <4>4
    <3>4. CASE e = c
      <4>1. Out(p, c)' = step[p] \cup {d} /\ handle[p][e] = s
        BY <1>2, <1>16, <1>17, <3>4 DEF Out, s
      <4>2. CASE r = q
        <5>1. With(SendInfo(p, c), r)' = W
          BY <1>17, <4>2 DEF W
        <5>2. Cardinality(With(SendInfo(p, c), r)' \cap Out(p, c)') = k + 1
          BY <1>6, <4>1, <5>1
        <5>3. Total(p, c, r)' = [sends |-> n, recvs |-> Cardinality(With(RecvInfo(p, c), r)),
                                 count |-> Advance(0, k + 1, n)]
          BY <1>17, <5>1, <5>2 DEF Total, n
        <5>4. Total(p, c, r) = [sends |-> n, recvs |-> Cardinality(With(RecvInfo(p, c), r)),
                                count |-> Advance(0, k, n)]
          BY <1>7, <4>2 DEF Total, n, k, W
        <5>5. [Total(p, c, r) EXCEPT !.count = Advance(0, k + 1, n)] = Total(p, c, r)'
          BY <5>3, <5>4
        <5>6. counters'[p][s][r] = Total(p, c, r)'
          BY <1>8, <1>14, <4>2, <5>5
        <5> QED
          BY <3>1, <3>4, <4>1, <5>6
      <4>3. CASE r # q
        <5>1. d \notin With(SendInfo(p, c), r)
          BY <1>0, <4>3 DEF With
        <5>2. With(SendInfo(p, c), r) \cap Out(p, c)' = With(SendInfo(p, c), r) \cap Out(p, c)
          BY <1>7, <4>1, <5>1
        <5>3. Total(p, c, r)' = Total(p, c, r)
          BY <1>17, <5>2 DEF Total
        <5>4. <<s, r>> # <<s, q>>
          BY <4>3
        <5> QED
          BY <1>3, <1>14, <3>1, <3>2, <3>4, <4>1, <5>3, <5>4
      <4> QED
        BY <4>2, <4>3
    <3> QED
      BY <3>3, <3>4
  <2> QED
    BY <2>1, <2>2 DEF CountersOK, Zero
<1>21. ASSUME NEW r \in Proc, r # p PROVE Own(r)' = Own(r)
  <2>1. counters'[r] = counters[r] /\ step'[r] = step[r]
    BY <1>10, <1>21 DEF SInv, SHMEMTypeOK
  <2> QED
    BY <1>10, <2>1 DEF Own, callVars
<1> QED
  BY <1>15, <1>18, <1>19, <1>20, <1>21 DEF LocalOK

\* When all directions are out COUNTER is where it was before SR.
LEMMA StepSRReturn ==
  ASSUME SInv, NEW p \in Proc, SRReturn(p)
  PROVE  SHMEMTypeOK' /\ LocalOK(p)'
<1>1. PICK c \in Cid :
  LET s == handle[p][c]
      sends == SendInfo(p, c)
      n(q) == Cardinality(With(sends, q))
      done(q) == IF Reached(counters[p][s][q].count, n(q), counters[p][s][q].sends)
                 THEN {PutFlag(Flag("PUTDONE", s, p, 0), 0)} ELSE {}
  IN /\ Return(p, "SR", c)
     /\ step[p] = DOMAIN sends
     /\ puts' = [puts EXCEPT ![p] = [q \in Proc |->
          IF sends = <<>> THEN @[q] ELSE AddPuts(DataFence(@[q]), done(q))]]
     /\ counters' = [counters EXCEPT ![p][s] = [q \in Proc |->
          [counters[p][s][q] EXCEPT !.count = Advance(@, n(q), counters[p][s][q].sends)]]]
     /\ step' = [step EXCEPT ![p] = {}]
     /\ UNCHANGED <<freelist, commbank, handle, flags, remmem, ghost>>
  BY Zenon DEF SRReturn
<1> DEFINE s == handle[p][c]
           n(q) == Cardinality(With(SendInfo(p, c), q))
           done(q) == IF Reached(counters[p][s][q].count, n(q), counters[p][s][q].sends)
                      THEN {PutFlag(Flag("PUTDONE", s, p, 0), 0)} ELSE {}
<1>2. Return(p, "SR", c) /\ "SR" \in Op /\ May(p, "SR", c)
  BY <1>1 DEF Op, Return
<1>3. \A e \in Cid : inst'[p][e].done = {} <=> inst[p][e].done = {}
  <2> DEFINE o == "SR"
  <2>1. o \in Op /\ o # "OLD" /\ o # "NEW" /\ Return(p, o, c)
    BY <1>2
  <2> HIDE DEF o
  <2>2. InUse(p, c) /\ InUse(p, c)' /\ \A e \in Cid : e # c => inst'[p][e] = inst[p][e]
    BY <2>1, ReturnDone DEF SInv
  <2> QED
    BY <2>2 DEF InUse
<1>4. s \in Slot /\ SendInfo(p, c) \in Maps(Send)
  BY InfoTyped DEF SInv
<1>5. /\ InUse(p, c)
      /\ \A e \in Cid : May(p, "SR", e) => e = c
      /\ Out(p, c) = step[p]
      /\ \A e \in Cid : InUse(p, e) /\ e # c => Out(p, e) = {}
  BY <1>2, InSR
<1>6. step[p] = DOMAIN SendInfo(p, c) /\ step'[p] = {}
  BY <1>1 DEF SInv, SHMEMTypeOK
<1>7. ASSUME NEW q \in Proc
      PROVE  counters[p][s][q].count = 0 /\ counters[p][s][q].sends = n(q) /\ n(q) \in Nat
  <2>1. n(q) \in Nat
    <3>1. n(q) \in 0..MaxDirs
      BY TotalType DEF SInv
    <3> QED
      BY <3>1, MaxDirsAssumption
  <2>2. counters[p][s][q] = Total(p, c, q)
    BY <1>5 DEF SInv, LocalOK, CountersOK
  <2>3. With(SendInfo(p, c), q) \cap Out(p, c) = With(SendInfo(p, c), q)
    BY <1>5, <1>6 DEF With
  <2>4. Total(p, c, q) = [sends |-> n(q), recvs |-> Cardinality(With(RecvInfo(p, c), q)),
                          count |-> Advance(0, n(q), n(q))]
    BY <2>3 DEF Total
  <2> HIDE DEF n, s
  <2> QED
    BY <2>1, <2>2, <2>4, AdvanceAll DEF s
<1>8. counters' = counters
  <2> DEFINE zero == [q \in Proc |-> 0]
  <2>1. counters' = [counters EXCEPT ![p][s] = [q \in Proc |->
          [counters[p][s][q] EXCEPT
             !.count = Advance(counters[p][s][q].count, n(q), counters[p][s][q].sends)]]]
    BY <1>1
  <2>2. \A q \in Proc : Advance(counters[p][s][q].count, n(q), counters[p][s][q].sends) = zero[q]
    <3> HIDE DEF n, s
    <3> QED
      BY <1>7, AdvanceAll
  <2> HIDE DEF n, s, zero
  <2>3. counters' = [counters EXCEPT ![p][s] =
          [q \in Proc |-> [counters[p][s][q] EXCEPT !.count = zero[q]]]]
    BY <2>1, <2>2
  <2>4. zero \in [Proc -> Nat] /\ \A q \in Proc : counters[p][s][q].count = zero[q]
    BY <1>7 DEF zero
  <2> QED
    BY <1>4, <2>3, <2>4, SameCounters
<1>9. SHMEMTypeOK'
  <2>1. puts' \in [Proc -> [Proc -> Seq(SUBSET PutSet)]]
    <3>1. ASSUME NEW q \in Proc
          PROVE  (IF SendInfo(p, c) = <<>> THEN puts[p][q]
                  ELSE AddPuts(DataFence(puts[p][q]), done(q))) \in Seq(SUBSET PutSet)
      <4>1. PutFlag(Flag("PUTDONE", s, p, 0), 0) \in PutSet
        BY <1>4, SignalType, MaxDirsAssumption
      <4>2. done(q) \in SUBSET PutSet
        BY <4>1
      <4>3. puts[p][q] \in Seq(SUBSET PutSet)
        BY DEF SInv, SHMEMTypeOK
      <4> HIDE DEF done
      <4>4. DataFence(puts[p][q]) \in Seq(SUBSET PutSet)
        BY Zenon, <4>3, FenceType DEF DataFence
      <4> QED
        BY <4>2, <4>3, <4>4, AddPutsType
    <3>2. puts' = [puts EXCEPT ![p] = [q \in Proc |->
            IF SendInfo(p, c) = <<>> THEN puts[p][q]
            ELSE AddPuts(DataFence(puts[p][q]), done(q))]]
      BY <1>1
    <3> HIDE DEF done
    <3> QED
      BY <3>1, <3>2 DEF SInv, SHMEMTypeOK
  <2> QED
    BY <1>1, <1>8, <2>1 DEF SInv, SHMEMTypeOK
<1>10. StepOK(p)'
  BY Zenon, <1>6 DEF StepOK
<1>11. \A e \in Cid : /\ SendInfo(p, e)' = SendInfo(p, e)
                      /\ RecvInfo(p, e)' = RecvInfo(p, e) /\ Out(p, e)' = {}
  BY <1>1, <1>6 DEF SendInfo, RecvInfo, Out
<1>12. ASSUME NEW e \in Cid, NEW q \in Proc, InUse(p, e)
       PROVE  Total(p, e, q)' = Total(p, e, q)
  <2>1. CASE e # c
    BY <1>5, <1>11, <1>12, <2>1 DEF Total
  <2>2. CASE e = c
    <3>1. Total(p, c, q).count = 0
      BY <1>5, <1>7 DEF SInv, LocalOK, CountersOK
    <3> DEFINE zero == [sends |-> Cardinality(With(SendInfo(p, c), q)),
                        recvs |-> Cardinality(With(RecvInfo(p, c), q)), count |-> 0]
    <3>2. Total(p, c, q) = zero
      BY <3>1 DEF Total
    <3>3. Total(p, c, q)' = zero
      <4>1. With(SendInfo(p, c), q) \cap {} = {} /\ Cardinality({}) = 0
        BY FS_EmptySet
      <4>2. Advance(0, Cardinality({}), Cardinality(With(SendInfo(p, c), q))) = 0
        BY Zenon, <4>1 DEF Advance
      <4> QED
        BY <1>11, <4>1, <4>2 DEF Total
    <3> HIDE DEF zero
    <3> QED
      BY <2>2, <3>2, <3>3
  <2> QED
    BY <2>1, <2>2
<1>13. LocalOK(p)'
  BY <1>1, <1>3, <1>8, <1>10, <1>12, KeepsLocal DEF SInv
<1> QED
  BY <1>9, <1>13

LEMMA ResetBoth ==
  ASSUME NEW A, NEW B, NEW C, NEW n \in [sends : A, recvs : B, count : C]
  PROVE  [n EXCEPT !.sends = 0, !.recvs = 0]
           = [sends |-> 0, recvs |-> 0, count |-> n.count]
<1> DEFINE m == [n EXCEPT !.sends = 0]
<1>1. m = [sends |-> 0, recvs |-> n.recvs, count |-> n.count]
  OBVIOUS
<1>2. [n EXCEPT !.sends = 0, !.recvs = 0] = [m EXCEPT !.recvs = 0]
  OBVIOUS
<1> HIDE DEF m
<1>3. [m EXCEPT !.recvs = 0] = [sends |-> 0, recvs |-> 0, count |-> n.count]
  BY <1>1
<1> QED
  BY <1>2, <1>3

\* OLD forgets the counts of the directions, and so frees a descriptor that
\* counts nothing.
LEMMA StepOld ==
  ASSUME SInv, NEW p \in Proc, Old(p)
  PROVE  SHMEMTypeOK' /\ LocalOK(p)'
<1>1. PICK c \in Cid :
  LET s == handle[p][c]
      recvs == RecvInfo(p, c)
      sends == SendInfo(p, c)
      writable(q) == {PutFlag(Flag("REMMEMWRITABLE", s, p, 0), d) : d \in With(sends, q)}
  IN /\ Return(p, "OLD", c)
     /\ puts' = [puts EXCEPT ![p] = [q \in Proc |-> AddPuts(@[q], writable(q))]]
     /\ counters' = [counters EXCEPT ![p][s] = [q \in Proc |->
          [counters[p][s][q] EXCEPT
             !.sends = IF With(sends, q) = {} THEN @ ELSE 0,
             !.recvs = IF With(recvs, q) = {} THEN @ ELSE 0]]]
     /\ freelist' = [freelist EXCEPT ![p] = Append(@, s)]
     /\ UNCHANGED <<commbank, handle, flags, remmem, step, ghost>>
  BY Zenon DEF Old
<1> DEFINE s == handle[p][c]
           recvs == RecvInfo(p, c)
           sends == SendInfo(p, c)
           writable(q) == {PutFlag(Flag("REMMEMWRITABLE", s, p, 0), d) : d \in With(sends, q)}
<1>2. Return(p, "OLD", c) /\ "OLD" \in Op
  BY Zenon, <1>1 DEF Op
<1>3. /\ \A e \in Cid : ~May(p, "SR", e)
      /\ InUse(p, c) /\ ~InUse(p, c)'
      /\ \A e \in Cid : e # c => inst'[p][e] = inst[p][e]
  <2> DEFINE o == "OLD"
  <2>1. o \in Op /\ o # "SR" /\ o = "OLD" /\ o # "NEW" /\ Return(p, o, c)
    BY <1>2
  <2> HIDE DEF o
  <2> QED
    BY <2>1, ReturnDone DEF SInv, May
<1>4. s \in Slot /\ sends \in Maps(Send)
  BY InfoTyped DEF SInv
<1>5. freelist'[p] = Append(freelist[p], s) /\ handle' = handle
  BY Zenon, <1>1 DEF SInv, SHMEMTypeOK
<1>6. /\ Owned(p)' /\ freelist'[p] \in Seq(Slot)
      /\ \A t \in Slot : Free(p, t)' => Free(p, t) \/ t = s
      /\ \A e \in Cid : InUse(p, e)' => InUse(p, e) /\ handle[p][e] # s
  BY <1>3, <1>5, GiveOwned DEF SInv, LocalOK
<1>7. step[p] = {}
  BY <1>3, NotSending DEF SInv
<1>8. counters' = [counters EXCEPT ![p][s] = [q \in Proc |-> Zero]]
  <2> DEFINE new(q) == [counters[p][s][q] EXCEPT
               !.sends = IF With(sends, q) = {} THEN counters[p][s][q].sends ELSE 0,
               !.recvs = IF With(recvs, q) = {} THEN counters[p][s][q].recvs ELSE 0]
  <2>1. counters' = [counters EXCEPT ![p][s] = [q \in Proc |-> new(q)]]
    BY Zenon, <1>1
  <2>2. ASSUME NEW q \in Proc PROVE new(q) = Zero
    <3>1. /\ counters[p][s][q].sends = Cardinality(With(sends, q))
          /\ counters[p][s][q].recvs = Cardinality(With(recvs, q))
          /\ counters[p][s][q].count = 0
      BY <1>3, NotSending DEF SInv
    <3>2. /\ With(sends, q) = {} => Cardinality(With(sends, q)) = 0
          /\ With(recvs, q) = {} => Cardinality(With(recvs, q)) = 0
      BY FS_EmptySet
    <3>3. counters[p][s][q] \in Counter
      BY <1>4 DEF SInv, SHMEMTypeOK
    <3> HIDE DEF s, sends, recvs
    <3>4. /\ (IF With(sends, q) = {} THEN counters[p][s][q].sends ELSE 0) = 0
          /\ (IF With(recvs, q) = {} THEN counters[p][s][q].recvs ELSE 0) = 0
      BY <3>1, <3>2
    <3>5. new(q) = [counters[p][s][q] EXCEPT !.sends = 0, !.recvs = 0]
      BY <3>4
    <3>6. [counters[p][s][q] EXCEPT !.sends = 0, !.recvs = 0]
            = [sends |-> 0, recvs |-> 0, count |-> counters[p][s][q].count]
      BY Zenon, <3>3, ResetBoth DEF Counter
    <3> HIDE DEF new
    <3> QED
      BY <3>1, <3>5, <3>6 DEF Zero
  <2> HIDE DEF s, new
  <2> QED
    BY <2>1, <2>2
<1>9. SHMEMTypeOK'
  <2>1. puts' \in [Proc -> [Proc -> Seq(SUBSET PutSet)]]
    <3>1. ASSUME NEW q \in Proc
          PROVE  AddPuts(puts[p][q], writable(q)) \in Seq(SUBSET PutSet)
      <4>1. With(sends, q) \in SUBSET (1..MaxDirs)
        BY <1>4, WithBound
      <4>2. \A d \in With(sends, q) : PutFlag(Flag("REMMEMWRITABLE", s, p, 0), d) \in PutSet
        <5> HIDE DEF s, sends
        <5> QED
          BY <1>4, <4>1, SignalType, MaxDirsAssumption
      <4>3. writable(q) \in SUBSET PutSet
        BY <4>2
      <4>4. puts[p][q] \in Seq(SUBSET PutSet)
        BY DEF SInv, SHMEMTypeOK
      <4> HIDE DEF writable
      <4> QED
        BY <4>3, <4>4, AddPutsType
    <3>2. puts' = [puts EXCEPT ![p] = [q \in Proc |-> AddPuts(puts[p][q], writable(q))]]
      BY Zenon, <1>1
    <3> HIDE DEF writable
    <3> QED
      BY <3>1, <3>2 DEF SInv, SHMEMTypeOK
  <2>2. counters' \in [Proc -> [Slot -> [Proc -> Counter]]]
    <3>1. [q \in Proc |-> Zero] \in [Proc -> Counter]
      BY MaxDirsAssumption DEF Zero, Counter
    <3> QED
      BY <1>4, <1>8, <3>1 DEF SInv, SHMEMTypeOK
  <2>3. freelist' \in [Proc -> Seq(Slot)]
    BY Zenon, <1>1, <1>5, <1>6 DEF SInv, SHMEMTypeOK
  <2> QED
    BY Zenon, <1>1, <2>1, <2>2, <2>3 DEF SInv, SHMEMTypeOK
<1>10. step' = step /\ StepOK(p)'
  BY Zenon, <1>1, <1>7 DEF StepOK
<1>11. CountersOK(p)'
  <2>1. /\ \A q \in Proc : counters'[p][s][q] = Zero
        /\ \A t \in Slot, q \in Proc : t # s => counters'[p][t][q] = counters[p][t][q]
    BY <1>4, <1>8 DEF SInv, SHMEMTypeOK
  <2>2. ASSUME NEW t \in Slot, Free(p, t)', NEW q \in Proc
        PROVE  counters'[p][t][q] = Zero
    BY <1>6, <2>1, <2>2 DEF SInv, LocalOK, CountersOK
  <2>3. ASSUME NEW e \in Cid, InUse(p, e)', NEW q \in Proc
        PROVE  counters'[p][handle'[p][e]][q] = Total(p, e, q)'
    <3>1. InUse(p, e) /\ handle'[p][e] = handle[p][e] /\ handle[p][e] # s
      BY <1>5, <1>6, <2>3
    <3>2. handle[p][e] \in Slot
      BY DEF SInv, SHMEMTypeOK
    <3>3. /\ SendInfo(p, e)' = SendInfo(p, e) /\ RecvInfo(p, e)' = RecvInfo(p, e)
          /\ Out(p, e)' = {} /\ Out(p, e) = {}
      BY Zenon, <1>1, <1>7, <1>10 DEF SendInfo, RecvInfo, Out
    <3>4. Total(p, e, q)' = Total(p, e, q)
      BY <3>3 DEF Total
    <3>5. counters[p][handle[p][e]][q] = Total(p, e, q)
      BY <3>1 DEF SInv, LocalOK, CountersOK
    <3> QED
      BY <2>1, <3>1, <3>2, <3>4, <3>5
  <2> QED
    BY <2>2, <2>3 DEF CountersOK, Zero
<1> QED
  BY <1>6, <1>9, <1>10, <1>11 DEF LocalOK
-----------------------------------------------------------------------------
\* A put that arrives changes the memory of its target alone.
LEMMA StepDeliver ==
  ASSUME SInv, NEW p \in Proc, Deliver(p)
  PROVE  /\ SHMEMTypeOK'
         /\ UNCHANGED <<callVars, descVars, step>>
<1>1. UNCHANGED <<callVars, descVars, step>>
  BY DEF Deliver
<1>0. PICK q \in Proc :
        /\ puts[p][q] # <<>>
        /\ \E put \in Head(puts[p][q]) :
             /\ puts' = [puts EXCEPT ![p][q] = RemovePut(@, put)]
             /\ remmem' = IF put.kind = "block"
                          THEN [remmem EXCEPT ![q][put.slot][p][put.k] = put.block]
                          ELSE remmem
             /\ flags' = IF put.kind = "flag"
                         THEN [flags EXCEPT ![q] = @ \cup {put.flag}] ELSE flags
             /\ ghost' = IF put.kind = "data"
                         THEN [ghost EXCEPT ![q][put.block.area][put.block.dir] = put.val]
                         ELSE ghost
  BY DEF Deliver
<1>2. PICK put \in Head(puts[p][q]) :
        /\ puts' = [puts EXCEPT ![p][q] = RemovePut(@, put)]
        /\ remmem' = IF put.kind = "block"
                     THEN [remmem EXCEPT ![q][put.slot][p][put.k] = put.block]
                     ELSE remmem
        /\ flags' = IF put.kind = "flag"
                    THEN [flags EXCEPT ![q] = @ \cup {put.flag}] ELSE flags
        /\ ghost' = IF put.kind = "data"
                    THEN [ghost EXCEPT ![q][put.block.area][put.block.dir] = put.val]
                    ELSE ghost
  BY <1>0
<1>3. puts[p][q] \in Seq(SUBSET PutSet) /\ puts[p][q] # <<>>
  BY <1>0 DEF SInv, SHMEMTypeOK
<1>4. put \in PutSet
  <2>1. Head(puts[p][q]) \in SUBSET PutSet
    BY <1>3
  <2> QED
    BY <2>1
<1>5. puts' \in [Proc -> [Proc -> Seq(SUBSET PutSet)]]
  <2>1. RemovePut(puts[p][q], put) \in Seq(SUBSET PutSet)
    BY <1>3, RemovePutType
  <2> QED
    BY <1>2, <2>1 DEF SInv, SHMEMTypeOK
<1>6. remmem' \in [Proc -> [Slot -> [Proc -> [0..MaxDirs -> Block \cup {NoBlock}]]]]
  <2>1. CASE put.kind = "block"
    <3>1. put.slot \in Slot /\ put.k \in 0..MaxDirs /\ put.block \in Block
      BY <1>4, <2>1 DEF PutSet
    <3>2. remmem \in [Proc -> [Slot -> [Proc -> [0..MaxDirs -> Block \cup {NoBlock}]]]]
      BY DEF SInv, SHMEMTypeOK
    <3> DEFINE row == [remmem[q][put.slot][p] EXCEPT ![put.k] = put.block]
    <3>3. row \in [0..MaxDirs -> Block \cup {NoBlock}]
      BY <3>1, <3>2
    <3>4. remmem' = [remmem EXCEPT ![q][put.slot][p] = row]
      BY <1>2, <2>1
    <3> HIDE DEF row
    <3> QED
      BY <3>1, <3>2, <3>3, <3>4, TableType
  <2>2. CASE put.kind # "block"
    BY <1>2, <2>2 DEF SInv, SHMEMTypeOK
  <2> QED
    BY <2>1, <2>2
<1>7. flags' \in [Proc -> SUBSET FlagSet]
  <2>1. put.kind = "flag" => put.flag \in FlagSet
    BY <1>4 DEF PutSet
  <2>2. flags \in [Proc -> SUBSET FlagSet]
    BY DEF SInv, SHMEMTypeOK
  <2> QED
    BY <1>2, <2>1, <2>2
<1>8. ghost' \in [Proc -> [Cid -> [1..MaxDirs -> DataSet \cup {NoData}]]]
  <2>1. CASE put.kind = "data"
    <3>1. put.block \in Block /\ put.val \in DataSet
      BY <1>4, <2>1 DEF PutSet
    <3>2. put.block.area \in Cid /\ put.block.dir \in 1..MaxDirs
      BY <3>1 DEF Block
    <3>3. ghost \in [Proc -> [Cid -> [1..MaxDirs -> DataSet \cup {NoData}]]]
      BY DEF SInv, SHMEMTypeOK
    <3>4. ghost' = [ghost EXCEPT ![q][put.block.area][put.block.dir] = put.val]
      BY <1>2, <2>1
    <3>5. put.val \in DataSet \cup {NoData}
      BY <3>1
    <3> QED
      BY <3>2, <3>3, <3>4, <3>5, TableType
  <2>2. CASE put.kind # "data"
    BY <1>2, <2>2 DEF SInv, SHMEMTypeOK
  <2> QED
    BY <2>1, <2>2
<1> QED
  BY <1>1, <1>5, <1>6, <1>7, <1>8 DEF SInv, SHMEMTypeOK, descVars

\* A step of one processor is no concern of another's descriptors.
LEMMA OthersStay ==
  ASSUME SInv, NEW p \in Proc, Step(p), NEW r \in Proc, r # p
  PROVE  Own(r)' = Own(r)
<1> USE DEF SInv, CallsInv, CallsTypeOK, SHMEMTypeOK
<1>1. ASSUME freelist'[r] = freelist[r], handle'[r] = handle[r],
             commbank'[r] = commbank[r], counters'[r] = counters[r], step'[r] = step[r],
             pos'[r] = pos[r], inst'[r] = inst[r], prog' = prog
      PROVE  Own(r)' = Own(r)
  BY <1>1 DEF Own
<1>2. ASSUME NEW o, NEW c, Return(p, o, c)
      PROVE  pos'[r] = pos[r] /\ inst'[r] = inst[r] /\ prog' = prog
  BY Zenon, <1>2 DEF Return
<1>3. CASE New(p)
  BY <1>1, <1>2, <1>3 DEF New
<1>4. CASE DR(p)
  BY <1>1, <1>2, <1>4 DEF DR
<1>5. CASE SRAddr(p)
  BY Zenon, <1>1, <1>5 DEF SRAddr, callVars
<1>6. CASE SRPut(p)
  BY <1>6, StepSRPut
<1>7. CASE SRReturn(p)
  BY <1>1, <1>2, <1>7 DEF SRReturn
<1>8. CASE DN(p)
  BY <1>1, <1>2, <1>8 DEF DN, descVars
<1>9. CASE Old(p)
  BY Zenon, <1>1, <1>2, <1>9 DEF Old
<1>10. CASE Loop(p)
  BY <1>1, <1>10 DEF Loop, SkipTile, SkipTo, Pass, descVars
<1> QED
  BY <1>3, <1>4, <1>5, <1>6, <1>7, <1>8, <1>9, <1>10 DEF Step
-----------------------------------------------------------------------------
LEMMA InitSInv == Init => SInv
<1> SUFFICES ASSUME Init PROVE SInv
  OBVIOUS
<1>1. CallsInv
  BY InitCallsInv DEF Init
<1>2. \A p \in Proc : freelist[p] = [i \in 1..Comms |-> Comms - i] /\ Comms \in Nat
  BY CommsAssumption DEF Init
<1>3. [i \in 1..Comms |-> Comms - i] \in Seq(Slot)
  <2> DEFINE all == [i \in 1..Comms |-> Comms - i]
  <2>1. \A i \in 1..Comms : Comms - i \in 0..(Comms - 1)
    BY CommsAssumption
  <2>2. all \in [1..Comms -> Slot]
    BY <2>1 DEF Slot
  <2> HIDE DEF all
  <2>3. all \in Seq(Slot)
    BY <2>2, CommsAssumption
  <2> QED
    BY <2>3 DEF all
<1>4. \A p \in Proc : freelist[p] \in Seq(Slot) /\ Len(freelist[p]) = Comms
  BY <1>2, <1>3, CommsAssumption
<1>5. Zero \in Counter
  BY MaxDirsAssumption DEF Zero, Counter
<1>6. [recvinfo |-> <<>>, sendinfo |-> <<>>] \in Entry
  <2>1. {} \in SUBSET (1..MaxDirs) /\ \A S : <<>> \in [{} -> S]
    OBVIOUS
  <2>2. \A S : <<>> \in Maps(S)
    BY <2>1 DEF Maps
  <2> QED
    BY <2>2 DEF Entry
<1>7. SHMEMTypeOK
  <2>1. freelist \in [Proc -> Seq(Slot)]
    BY <1>4 DEF Init
  <2>2. commbank \in [Proc -> [Slot -> Entry]]
    BY <1>6 DEF Init
  <2>3. handle \in [Proc -> [Cid -> Slot]]
    <3>1. \A c \in Cid : 0 \in Slot
      <4> SUFFICES ASSUME NEW c \in Cid PROVE 0 \in Slot
        OBVIOUS
      <4>1. Cardinality(Cid) \in Nat /\ Cardinality(Cid) # 0
        BY CommsAssumption, FS_CardinalityType, FS_EmptySet
      <4> QED
        BY <4>1, CommsAssumption DEF Slot
    <3> QED
      BY <3>1 DEF Init
  <2>4. counters \in [Proc -> [Slot -> [Proc -> Counter]]]
    BY <1>5 DEF Init, Zero
  <2>5. flags \in [Proc -> SUBSET FlagSet]
    <3>1. \A s \in Slot, q \in Proc : Flag("REMMEMWRITABLE", s, q, 0) \in FlagSet
      BY MaxDirsAssumption DEF Flag, FlagSet
    <3>2. {Flag("REMMEMWRITABLE", s, q, 0) : s \in Slot, q \in Proc} \in SUBSET FlagSet
      BY <3>1
    <3> QED
      BY <3>2 DEF Init
  <2>6. remmem \in [Proc -> [Slot -> [Proc -> [0..MaxDirs -> Block \cup {NoBlock}]]]]
    BY DEF Init
  <2>7. puts \in [Proc -> [Proc -> Seq(SUBSET PutSet)]]
    BY DEF Init
  <2>8. step \in [Proc -> SUBSET (1..MaxDirs)]
    BY DEF Init
  <2>9. ghost \in [Proc -> [Cid -> [1..MaxDirs -> DataSet \cup {NoData}]]]
    BY DEF Init
  <2> QED
    BY <2>1, <2>2, <2>3, <2>4, <2>5, <2>6, <2>7, <2>8, <2>9 DEF SHMEMTypeOK
<1>8. ASSUME NEW p \in Proc PROVE LocalOK(p)
  <2>1. \A c \in Cid : ~InUse(p, c)
    BY DEF Init, InitCalls, InUse
  <2>2. \A i \in 1..Len(freelist[p]) : freelist[p][i] = Comms - i
    BY <1>2, <1>4
  <2>3. ASSUME NEW s \in Slot PROVE Free(p, s)
    <3>1. Comms - s \in 1..Len(freelist[p]) /\ Comms - (Comms - s) = s
      BY <1>2, <1>4 DEF Slot
    <3> QED
      BY <2>2, <3>1 DEF Free
  <2>4. \A i, j \in 1..Len(freelist[p]) : freelist[p][i] = freelist[p][j] => i = j
    BY <1>2, <1>4, <2>2
  <2>5. Owned(p)
    BY <2>1, <2>3, <2>4 DEF Owned, Held
  <2>6. StepOK(p)
    BY DEF Init, StepOK
  <2>7. CountersOK(p)
    BY <2>1 DEF CountersOK, Init, Zero
  <2> QED
    BY <2>5, <2>6, <2>7 DEF LocalOK
<1> QED
  BY <1>1, <1>7, <1>8 DEF SInv

LEMMA NextSInv == SInv /\ [Next]_vars => SInv'
<1> SUFFICES ASSUME SInv, [Next]_vars PROVE SInv'
  OBVIOUS
<1>1. CASE UNCHANGED vars
  <2>1. UNCHANGED <<callVars, freelist, commbank, handle, counters, flags, remmem, puts, step,
                    ghost>>
    BY <1>1 DEF vars, descVars
  <2>2. CallsInv'
    BY <2>1 DEF SInv, CallsInv, CallsTypeOK, GenOK, OrderOK, callVars
  <2>3. SHMEMTypeOK'
    BY <2>1 DEF SInv, SHMEMTypeOK
  <2>4. \A p \in Proc : LocalOK(p)'
    BY <2>1, SameLocal DEF SInv, Own, callVars
  <2> QED
    BY <2>2, <2>3, <2>4 DEF SInv
<1>2. CASE \E p \in Proc : Step(p)
  <2>1. PICK p \in Proc : Step(p)
    BY <1>2
  <2>2. CallsInv'
    <3>1. \/ \E c \in Cid, o \in Op : Return(p, o, c)
          \/ \E o \in LoopOp : Pass(p, o)
          \/ SkipTile(p)
          \/ UNCHANGED callVars
      <4>1. CASE New(p) \/ DR(p) \/ SRReturn(p) \/ DN(p) \/ Old(p)
        BY Zenon, <4>1 DEF New, DR, SRReturn, DN, Old, Op
      <4>2. CASE SRAddr(p) \/ SRPut(p)
        BY Zenon, <4>2 DEF SRAddr, SRPut
      <4>3. CASE Loop(p)
        BY <4>3 DEF Loop
      <4> QED
        BY <2>1, <4>1, <4>2, <4>3 DEF Step
    <3> QED
      BY <3>1, CallsStep DEF SInv
  <2>3. SHMEMTypeOK' /\ LocalOK(p)'
    BY <2>1, StepNew, StepDR, StepSRAddr, StepSRPut, StepSRReturn, StepDN, StepOld, StepLoop
       DEF Step
  <2>4. \A r \in Proc : r # p => LocalOK(r)'
    BY <2>1, OthersStay, SameLocal DEF SInv
  <2> QED
    BY <2>2, <2>3, <2>4 DEF SInv
<1>3. CASE \E p \in Proc : Deliver(p)
  <2>1. SHMEMTypeOK' /\ UNCHANGED <<callVars, descVars, step>>
    BY <1>3, StepDeliver
  <2>2. CallsInv'
    BY <2>1 DEF SInv, CallsInv, CallsTypeOK, GenOK, OrderOK, callVars
  <2>3. \A p \in Proc : LocalOK(p)'
    BY <2>1, SameLocal DEF SInv, Own, callVars, descVars
  <2> QED
    BY <2>1, <2>2, <2>3 DEF SInv
<1> QED
  BY <1>1, <1>2, <1>3 DEF Next, Terminated

\* Every variable keeps its type, for every program, grid and bank: in
\* particular COUNTER always stays below the number of directions it counts,
\* though one counter serves NEW, DR and SR and OLD does not reset it.
THEOREM SHMEMTyping == Spec => []TypeOK
<1>1. SInv => TypeOK
  <2> SUFFICES ASSUME SInv PROVE TypeOK
    OBVIOUS
  <2>1. ASSUME NEW S, NEW m \in Maps(S) PROVE IsMap(m, S)
    BY DEF Maps, IsMap
  <2>2. ASSUME NEW p \in Proc, NEW s \in Slot
        PROVE  IsMap(commbank[p][s].recvinfo, Recv) /\ IsMap(commbank[p][s].sendinfo, Send)
    <3>1. commbank[p][s] \in Entry
      BY DEF SInv, SHMEMTypeOK
    <3> QED
      BY <2>1, <3>1 DEF Entry
  <2> QED
    BY <2>2 DEF SInv, CallsInv, SHMEMTypeOK, TypeOK, Counter
<1> QED
  BY <1>1, InitSInv, NextSInv, PTL DEF Spec
-----------------------------------------------------------------------------
\* No descriptor is free and in use, and NEW never finds the free list empty.
DescriptorsOwned ==
  \A p \in Proc :
    /\ \A c \in Cid, i \in 1..Len(freelist[p]) :
         InUse(p, c) => freelist[p][i] # handle[p][c]
    /\ (\E c \in Cid : May(p, "NEW", c)) => freelist[p] # <<>>

\* Between calls COUNTER is 0, for every descriptor and neighbour.
CountersBack ==
  \A p \in Proc : (\A c \in Cid : ~May(p, "SR", c)) =>
    \A s \in Slot, q \in Proc : counters[p][s][q].count = 0

\* The bank over SHMEM works like the one of the other implementations: NEW
\* takes a descriptor that nobody holds, and there always is one.
THEOREM SHMEMDescriptors == Spec => []DescriptorsOwned
<1>1. SInv => DescriptorsOwned
  <2> SUFFICES ASSUME SInv, NEW p \in Proc
               PROVE  /\ \A c \in Cid, i \in 1..Len(freelist[p]) :
                           InUse(p, c) => freelist[p][i] # handle[p][c]
                      /\ (\E c \in Cid : May(p, "NEW", c)) => freelist[p] # <<>>
    BY DEF DescriptorsOwned
  <2>1. ASSUME NEW c \in Cid, NEW i \in 1..Len(freelist[p]), InUse(p, c)
        PROVE  freelist[p][i] # handle[p][c]
    <3>1. handle[p][c] \in Slot /\ Held(p, handle[p][c])
      BY <2>1 DEF SInv, SHMEMTypeOK, Held
    <3> QED
      BY <3>1 DEF SInv, LocalOK, Owned, Free
  <2>2. ASSUME NEW c \in Cid, May(p, "NEW", c) PROVE freelist[p] # <<>>
    <3>1. ~InUse(p, c)
      BY <2>2, NewClosed DEF SInv, InUse
    <3> QED
      BY <3>1, NotEmpty DEF SInv, LocalOK
  <2> QED
    BY <2>1, <2>2
<1> QED
  BY <1>1, InitSInv, NextSInv, PTL DEF Spec

\* NEW, DR and SR each bring the COUNTER they share back to 0, whatever the
\* number of directions, so that each of them starts from 0 although OLD and
\* the next NEW do not reset it.
THEOREM SHMEMCounters == Spec => []CountersBack
<1>1. SInv => CountersBack
  <2> SUFFICES ASSUME SInv, NEW p \in Proc, \A c \in Cid : ~May(p, "SR", c),
                      NEW s \in Slot, NEW q \in Proc
               PROVE  counters[p][s][q].count = 0
    BY DEF CountersBack
  <2>1. CASE Free(p, s)
    BY <2>1 DEF SInv, LocalOK, CountersOK, Zero
  <2>2. CASE ~Free(p, s)
    <3>1. PICK c \in Cid : InUse(p, c) /\ handle[p][c] = s
      BY <2>2 DEF SInv, LocalOK, Owned, Held
    <3> QED
      BY <3>1, NotSending DEF SInv
  <2> QED
    BY <2>1, <2>2
<1> QED
  BY <1>1, InitSInv, NextSInv, PTL DEF Spec
-----------------------------------------------------------------------------
(* Descriptors at places of the program.                                   *)

\* BankAfter is a function as it is defined: one for fewer places can always
\* be continued.
BankStart == [free |-> [i \in 1..Comms |-> Comms - i], handle |-> [c \in Cid |-> 0]]
BankUpTo(pr, f, m) ==
  [n \in 0..m |-> IF n = 0 THEN BankStart ELSE BankNext(f[n - 1], pr.calls[n])]

LEMMA BankContinues ==
  ASSUME NEW pr, NEW m \in Nat \ {0}, NEW f, f = BankUpTo(pr, f, m - 1)
  PROVE  \E g : g = BankUpTo(pr, g, m)
<1> DEFINE g == [n \in 0..m |-> IF n = m THEN BankNext(f[m - 1], pr.calls[m]) ELSE f[n]]
<1>1. ASSUME NEW n \in 0..m
      PROVE  g[n] = IF n = 0 THEN BankStart ELSE BankNext(g[n - 1], pr.calls[n])
  <2>1. CASE n = 0
    <3>1. n \in 0..(m - 1) /\ n # m
      BY <2>1
    <3>2. f[n] = BankStart
      BY <2>1, <3>1 DEF BankUpTo
    <3> QED
      BY <2>1, <3>1, <3>2
  <2>2. CASE n # 0
    <3>1. n - 1 \in 0..(m - 1) /\ n - 1 \in 0..m /\ n - 1 # m
      BY <2>2
    <3>2. g[n - 1] = f[n - 1]
      BY <3>1
    <3>3. CASE n = m
      BY <2>2, <3>2, <3>3
    <3>4. CASE n # m
      <4>1. n \in 0..(m - 1)
        BY <3>4
      <4>2. f[n] = BankNext(f[n - 1], pr.calls[n])
        BY <2>2, <4>1 DEF BankUpTo
      <4> QED
        BY <2>2, <3>2, <3>4, <4>2
    <3> QED
      BY <3>3, <3>4
  <2> QED
    BY <2>1, <2>2
<1>2. g = [n \in 0..m |-> g[n]]
  OBVIOUS
<1> HIDE DEF g
<1>3. g = BankUpTo(pr, g, m)
  BY <1>1, <1>2 DEF BankUpTo
<1> QED
  BY <1>3

LEMMA BankIs ==
  ASSUME NEW pr, Len(pr.calls) \in Nat
  PROVE  /\ BankAfter(pr)[0] = BankStart
         /\ \A n \in 1..Len(pr.calls) :
              BankAfter(pr)[n] = BankNext(BankAfter(pr)[n - 1], pr.calls[n])
<1> DEFINE Bad == {m \in Nat : \A f : f # BankUpTo(pr, f, m)}
           l == Len(pr.calls)
<1>1. Bad = {}
  <2> SUFFICES ASSUME Bad # {} PROVE FALSE
    OBVIOUS
  <2>1. Bad \subseteq Nat
    OBVIOUS
  <2>2. PICK m \in Bad : \A k \in Bad : m <= k
    <3> HIDE DEF Bad
    <3> QED
      BY <2>1, LeastIs
  <2>3. m # 0
    <3> SUFFICES ASSUME m = 0 PROVE FALSE
      OBVIOUS
    <3> DEFINE f == [n \in 0..0 |-> BankStart]
    <3>1. f = BankUpTo(pr, f, 0)
      BY DEF BankUpTo
    <3> HIDE DEF f
    <3> QED
      BY <3>1
  <2>4. m - 1 \in Nat /\ m - 1 \notin Bad
    <3>1. m - 1 \in Bad => m <= m - 1
      BY <2>2
    <3> QED
      BY <2>3, <3>1
  <2>5. PICK f : f = BankUpTo(pr, f, m - 1)
    BY <2>4
  <2>6. \E g : g = BankUpTo(pr, g, m)
    BY <2>3, <2>5, BankContinues
  <2> QED
    BY <2>6
<1>2. PICK f : f = BankUpTo(pr, f, l)
  BY <1>1
<1>3. BankAfter(pr) = BankUpTo(pr, BankAfter(pr), l)
  BY <1>2, Zenon DEF BankAfter, BankUpTo, BankStart
<1> DEFINE b == BankAfter(pr)
<1> HIDE DEF b
<1>4. \A n \in 0..l : b[n] = IF n = 0 THEN BankStart ELSE BankNext(b[n - 1], pr.calls[n])
  <2>1. b = BankUpTo(pr, b, l)
    BY <1>3 DEF b
  <2>2. \A n \in 0..l : BankUpTo(pr, b, l)[n] = IF n = 0 THEN BankStart ELSE BankNext(b[n - 1], pr.calls[n])
    BY DEF BankUpTo
  <2> QED
    BY <2>1, <2>2
<1>5. \A n \in 1..l : n \in 0..l /\ n # 0
  OBVIOUS
<1>6. 0 \in 0..l
  OBVIOUS
<1> QED
  BY <1>4, <1>5, <1>6 DEF b
-----------------------------------------------------------------------------
\* The handle of a communication changes with its NEW.
LEMMA BankTyped ==
  ASSUME NEW pr, Len(pr.calls) \in Nat
  PROVE  \A n \in 0..Len(pr.calls) : DOMAIN BankAfter(pr)[n].handle = Cid
<1> DEFINE b == BankAfter(pr)
           S == {n \in Nat : DOMAIN b[n].handle = Cid}
<1>1. /\ b[0] = BankStart
      /\ \A n \in 1..Len(pr.calls) : b[n] = BankNext(b[n - 1], pr.calls[n])
  BY BankIs
<1> HIDE DEF b
<1>2. 0 \in S
  BY <1>1 DEF BankStart
<1>3. ASSUME NEW n \in 1..Len(pr.calls), n - 1 \in S PROVE n \in S
  <2>1. DOMAIN b[n - 1].handle = Cid /\ n \in Nat
    BY <1>3
  <2>2. DOMAIN BankNext(b[n - 1], pr.calls[n]).handle = Cid
    BY <2>1 DEF BankNext
  <2> QED
    BY <1>1, <2>1, <2>2
<1> HIDE DEF S
<1>4. \A n \in 0..Len(pr.calls) : n \in S
  BY <1>2, <1>3, AllPlaces
<1> QED
  BY <1>4 DEF S, b

LEMMA HandleKept ==
  ASSUME NEW pr, Len(pr.calls) \in Nat, NEW c \in Cid,
         NEW m \in 0..Len(pr.calls), NEW n \in m..Len(pr.calls),
         \A k \in (m + 1)..n : pr.calls[k] # <<"NEW", c>>,
         \A k \in 1..Len(pr.calls) : pr.calls[k] \in (Op \cup LoopOp) \X Cid
  PROVE  BankAfter(pr)[n].handle[c] = BankAfter(pr)[m].handle[c]
<1> DEFINE b == BankAfter(pr)
           l == Len(pr.calls)
           S == {i \in Nat : i >= m /\ i <= n => b[i].handle[c] = b[m].handle[c]}
<1>1. /\ \A i \in 1..l : b[i] = BankNext(b[i - 1], pr.calls[i])
      /\ \A i \in 0..l : DOMAIN b[i].handle = Cid
  BY BankIs, BankTyped
<1> HIDE DEF b
<1>2. 0 \in S
  <2>1. ASSUME 0 >= m PROVE m = 0
    BY <2>1
  <2> QED
    BY <2>1
<1>3. ASSUME NEW i \in 1..l, i - 1 \in S PROVE i \in S
  <2> SUFFICES ASSUME i >= m, i <= n PROVE b[i].handle[c] = b[m].handle[c]
    OBVIOUS
  <2>1. CASE i = m
    BY <2>1
  <2>2. CASE i # m
    <3>1. i - 1 >= m /\ i - 1 <= n /\ i \in (m + 1)..n /\ i - 1 \in 0..l
      BY <2>2
    <3>2. b[i - 1].handle[c] = b[m].handle[c]
      BY <1>3, <3>1
    <3>3. pr.calls[i] # <<"NEW", c>> /\ pr.calls[i] \in (Op \cup LoopOp) \X Cid
      BY <3>1
    <3>4. DOMAIN b[i - 1].handle = Cid /\ b[i] = BankNext(b[i - 1], pr.calls[i])
      BY <1>1, <3>1
    <3>5. BankNext(b[i - 1], pr.calls[i]).handle[c] = b[i - 1].handle[c]
      <4> DEFINE call == pr.calls[i]
                 h == b[i - 1].handle
      <4>1. call[1] = "NEW" => call[2] # c
        BY <3>3
      <4> HIDE DEF call
      <4> QED
        BY <3>4, <4>1 DEF BankNext, call
    <3> QED
      BY <3>2, <3>4, <3>5
  <2> QED
    BY <2>1, <2>2
<1> HIDE DEF S
<1>4. \A i \in 0..l : i \in S
  BY <1>2, <1>3, AllPlaces
<1>5. n \in S /\ n \in Nat /\ n >= m /\ n <= n
  BY <1>4
<1> QED
  BY <1>5 DEF S, b
-----------------------------------------------------------------------------
(* Processors take and give back descriptors in step.                      *)

\* Free list and handles are those of the program up to p's place, as long as
\* tiles that a processor may lack leave the free list as they find it.
Lock(p) ==
  /\ freelist[p] = BankAfter(prog)[pos[p]].free
  /\ \A c \in Cid : InUse(p, c) => handle[p][c] = BankAfter(prog)[pos[p]].handle[c]
LockInv == SkipsRestore(prog) /\ SInv /\ PlaceInv /\ \A p \in Proc : Lock(p)

\* The bank at the next place.
LEMMA BankStep ==
  ASSUME CallsInv, NEW p \in Proc, pos[p] < Len(prog.calls)
  PROVE  /\ BankAfter(prog)[pos[p] + 1]
              = BankNext(BankAfter(prog)[pos[p]], prog.calls[pos[p] + 1])
         /\ DOMAIN BankAfter(prog)[pos[p]].handle = Cid
<1>1. Len(prog.calls) \in Nat /\ pos[p] \in 0..Len(prog.calls)
  BY CallsTyped
<1>2. pos[p] + 1 \in 1..Len(prog.calls) /\ pos[p] + 1 - 1 = pos[p]
  BY <1>1
<1>3. BankAfter(prog)[pos[p] + 1]
        = BankNext(BankAfter(prog)[pos[p] + 1 - 1], prog.calls[pos[p] + 1])
  BY <1>1, <1>2, BankIs
<1>4. DOMAIN BankAfter(prog)[pos[p]].handle = Cid
  BY <1>1, BankTyped
<1> QED
  BY <1>2, <1>3, <1>4

LEMMA LockQuiet ==
  ASSUME CallsInv, NEW p \in Proc, Lock(p),
         \/ \E c \in Cid, o \in {"DR", "SR", "DN"} : Return(p, o, c)
         \/ \E o \in LoopOp : Pass(p, o),
         freelist' = freelist, handle' = handle
  PROVE  Lock(p)'
<1>1. /\ prog' = prog /\ pos'[p] = pos[p] + 1 /\ pos[p] < Len(prog.calls)
      /\ prog.calls[pos[p] + 1][1] \notin {"NEW", "OLD"}
      /\ \A c \in Cid : inst'[p][c].done # {} => inst[p][c].done # {}
  <2>1. CASE \E c \in Cid, o \in {"DR", "SR", "DN"} : Return(p, o, c)
    <3>1. PICK c \in Cid, o \in {"DR", "SR", "DN"} : Return(p, o, c)
      BY <2>1
    <3>2. o \in Op /\ o \notin {"NEW", "OLD"}
      BY DEF Op
    <3>3. InUse(p, c) /\ \A e \in Cid : e # c => inst'[p][e] = inst[p][e]
      BY <3>1, <3>2, ReturnDone
    <3>4. prog' = prog /\ pos'[p] = pos[p] + 1 /\ prog.calls[pos[p] + 1] = <<o, c>>
      BY <3>1, <3>2, Place DEF CallsInv, CallsTypeOK
    <3>5. pos[p] < Len(prog.calls)
      BY <3>1 DEF Return, May, At, Running
    <3> QED
      BY <3>2, <3>3, <3>4, <3>5 DEF InUse
  <2>2. CASE \E o \in LoopOp : Pass(p, o)
    BY <2>2 DEF Pass, AtOp, At, Running, LoopOp, CallsInv, CallsTypeOK
  <2> QED
    BY <2>1, <2>2
<1>2. BankAfter(prog)[pos[p] + 1] = BankAfter(prog)[pos[p]]
  BY <1>1, BankStep DEF BankNext
<1> QED
  BY <1>1, <1>2 DEF Lock, InUse

LEMMA LockNew ==
  ASSUME SInv, NEW p \in Proc, Lock(p), New(p)
  PROVE  Lock(p)'
<1>1. PICK c \in Cid :
        /\ Return(p, "NEW", c)
        /\ freelist' = [freelist EXCEPT ![p] = SubSeq(freelist[p], 1, Len(freelist[p]) - 1)]
        /\ handle' = [handle EXCEPT ![p][c] = freelist[p][Len(freelist[p])]]
  BY Zenon DEF New, Taken
<1>2. /\ freelist \in [Proc -> Seq(Slot)] /\ handle \in [Proc -> [Cid -> Slot]]
      /\ CallsInv /\ "NEW" \in Op
  BY DEF SInv, SHMEMTypeOK, Op
<1>3. /\ prog' = prog /\ pos'[p] = pos[p] + 1 /\ prog.calls[pos[p] + 1] = <<"NEW", c>>
      /\ pos[p] < Len(prog.calls)
  <2>1. pos[p] < Len(prog.calls)
    BY <1>1 DEF Return, May, At, Running
  <2> QED
    BY <1>1, <1>2, <2>1, Place DEF CallsInv, CallsTypeOK
<1> DEFINE b == BankAfter(prog)[pos[p]]
           f == freelist[p]
<1>6. /\ BankAfter(prog)[pos[p] + 1] = BankNext(b, <<"NEW", c>>)
      /\ DOMAIN b.handle = Cid
  BY <1>2, <1>3, BankStep
<1>7. f = b.free /\ \A e \in Cid : InUse(p, e) => handle[p][e] = b.handle[e]
  BY DEF Lock
<1> HIDE DEF b
<1>8. BankNext(b, <<"NEW", c>>) =
        [free |-> SubSeq(b.free, 1, Len(b.free) - 1),
         handle |-> [b.handle EXCEPT ![c] = b.free[Len(b.free)]]]
  BY DEF BankNext
<1>9. /\ freelist'[p] = SubSeq(b.free, 1, Len(b.free) - 1)
      /\ handle'[p] = [handle[p] EXCEPT ![c] = b.free[Len(b.free)]]
  BY <1>1, <1>2, <1>7
<1>10. ASSUME NEW e \in Cid, InUse(p, e)'
       PROVE  handle'[p][e] = [b.handle EXCEPT ![c] = b.free[Len(b.free)]][e]
  <2>1. e # c => InUse(p, e)
    <3>1. e # c => inst'[p][e] = inst[p][e]
      BY <1>1, <1>2, ReturnDone
    <3> QED
      BY <1>10, <3>1 DEF InUse
  <2>2. handle[p] \in [Cid -> Slot]
    BY <1>2
  <2> QED
    BY <1>6, <1>7, <1>9, <2>1, <2>2
<1>11. BankAfter(prog)'[pos'[p]] = BankNext(b, <<"NEW", c>>)
  BY <1>3, <1>6
<1> DEFINE n == BankNext(b, <<"NEW", c>>)
<1> HIDE DEF n
<1>12. /\ n.free = SubSeq(b.free, 1, Len(b.free) - 1)
       /\ n.handle = [b.handle EXCEPT ![c] = b.free[Len(b.free)]]
  BY <1>8 DEF n
<1>13. freelist'[p] = n.free /\ \A e \in Cid : InUse(p, e)' => handle'[p][e] = n.handle[e]
  <2>1. freelist'[p] = n.free
    BY <1>9, <1>12
  <2> QED
    BY <1>10, <1>12, <2>1, Zenon
<1> QED
  BY <1>11, <1>13 DEF Lock, n

LEMMA LockOld ==
  ASSUME SInv, NEW p \in Proc, Lock(p), Old(p)
  PROVE  Lock(p)'
<1>1. PICK c \in Cid :
        /\ Return(p, "OLD", c)
        /\ freelist' = [freelist EXCEPT ![p] = Append(@, handle[p][c])]
        /\ handle' = handle
  BY Zenon DEF Old
<1>2. /\ freelist \in [Proc -> Seq(Slot)]
      /\ CallsInv /\ "OLD" \in Op /\ "OLD" # "NEW"
  BY DEF SInv, SHMEMTypeOK, Op
<1>3. /\ prog' = prog /\ pos'[p] = pos[p] + 1 /\ prog.calls[pos[p] + 1] = <<"OLD", c>>
      /\ pos[p] < Len(prog.calls)
  <2>1. pos[p] < Len(prog.calls)
    BY <1>1 DEF Return, May, At, Running
  <2> QED
    BY <1>1, <1>2, <2>1, Place DEF CallsInv, CallsTypeOK
<1> DEFINE b == BankAfter(prog)[pos[p]]
<1>6. BankAfter(prog)[pos[p] + 1] = BankNext(b, <<"OLD", c>>)
  BY <1>2, <1>3, BankStep
<1>7. InUse(p, c) /\ \A e \in Cid : InUse(p, e)' => InUse(p, e)
  <2>1. /\ InUse(p, c) /\ ~InUse(p, c)'
        /\ \A e \in Cid : e # c => inst'[p][e] = inst[p][e]
    BY <1>1, <1>2, ReturnDone
  <2> QED
    BY <2>1 DEF InUse
<1>8. freelist[p] = b.free /\ \A e \in Cid : InUse(p, e) => handle[p][e] = b.handle[e]
  BY DEF Lock
<1> HIDE DEF b
<1>9. BankNext(b, <<"OLD", c>>) =
        [free |-> Append(b.free, b.handle[c]), handle |-> b.handle]
  BY DEF BankNext
<1>10. freelist'[p] = Append(b.free, b.handle[c])
  BY <1>1, <1>2, <1>7, <1>8
<1>11. BankAfter(prog)'[pos'[p]] = BankNext(b, <<"OLD", c>>)
  BY <1>3, <1>6
<1> DEFINE n == BankNext(b, <<"OLD", c>>)
<1> HIDE DEF n
<1>12. n.free = Append(b.free, b.handle[c]) /\ n.handle = b.handle
  BY <1>9 DEF n
<1>13. freelist'[p] = n.free /\ \A e \in Cid : InUse(p, e)' => handle'[p][e] = n.handle[e]
  <2>1. freelist'[p] = n.free
    BY <1>10, <1>12
  <2> QED
    BY <1>1, <1>7, <1>8, <1>12, <2>1, Zenon
<1> QED
  BY <1>11, <1>13 DEF Lock, n

LEMMA LockSkip ==
  ASSUME SkipsRestore(prog), PlaceInv, NEW p \in Proc, Lock(p), SkipTile(p),
         freelist' = freelist, handle' = handle
  PROVE  Lock(p)'
<1>1. PICK n \in (pos[p] + 1)..Len(prog.calls) : SkipTo(p, n)
  BY DEF SkipTile
<1>2. /\ pos[p] \in 1..(n - 1) /\ n \in 1..Len(prog.calls)
      /\ TileLacks(prog, p, pos[p], n)
  BY <1>1, SkipLacks
<1>3. CallsInv /\ Len(prog.calls) \in Nat /\ pos[p] \in 0..Len(prog.calls)
      /\ \A k \in 1..Len(prog.calls) : prog.calls[k] \in (Op \cup LoopOp) \X Cid
  BY CallsTyped DEF PlaceInv
<1>4. BankAfter(prog)[n].free = BankAfter(prog)[pos[p]].free
  BY <1>2 DEF SkipsRestore
<1>5. /\ prog' = prog /\ pos'[p] = n
      /\ \A c \in Cid : inst'[p][c].done = inst[p][c].done
  BY <1>1, <1>3 DEF SkipTo, CallsInv, CallsTypeOK
<1>6. ASSUME NEW c \in Cid, InUse(p, c)
      PROVE  BankAfter(prog)[n].handle[c] = BankAfter(prog)[pos[p]].handle[c]
  <2>1. Begun(p, c, n) = {} /\ prog.calls[n][1] = "POST"
    BY <1>1, <1>6 DEF SkipTo, InUse
  <2>2. ASSUME NEW k \in (pos[p] + 1)..n PROVE prog.calls[k] # <<"NEW", c>>
    <3>1. CASE k = n
      BY <2>1, <3>1
    <3>2. CASE k # n
      <4>1. k \in (pos[p] + 1)..(n - 1)
        BY <1>2, <1>3, <3>2
      <4> QED
        BY <2>1, <4>1 DEF Begun
    <3> QED
      BY <3>1, <3>2
  <2>3. n \in pos[p]..Len(prog.calls)
    BY <1>2, <1>3
  <2> QED
    BY <1>3, <2>2, <2>3, HandleKept
<1> QED
  BY <1>4, <1>5, <1>6 DEF Lock, InUse

LEMMA NextLock == LockInv /\ [Next]_vars => LockInv'
<1> SUFFICES ASSUME LockInv, [Next]_vars PROVE LockInv'
  OBVIOUS
<1>0. SkipsRestore(prog) /\ SInv /\ PlaceInv /\ CallsInv /\ SInv' /\ (\A p \in Proc : Lock(p))
  BY NextSInv DEF LockInv, SInv
<1>1. ASSUME UNCHANGED vars PROVE LockInv'
  <2>1. UNCHANGED callVars /\ UNCHANGED <<prog, freelist, handle, pos, inst>>
    BY <1>1 DEF vars, descVars, callVars
  <2>2. PlaceInv'
    BY <1>0, <2>1 DEF PlaceInv, CallsInv, CallsTypeOK, GenOK, OrderOK, GensInv, DoneInv
  <2> QED
    BY <1>0, <2>1, <2>2 DEF LockInv, Lock, InUse
<1>2. ASSUME NEW p \in Proc, Deliver(p) PROVE LockInv'
  <2>1. UNCHANGED callVars /\ UNCHANGED <<prog, freelist, handle, pos, inst>>
    BY <1>2, <1>0, StepDeliver DEF descVars, callVars
  <2>2. PlaceInv'
    BY <1>0, <2>1 DEF PlaceInv, CallsInv, CallsTypeOK, GenOK, OrderOK, GensInv, DoneInv
  <2> QED
    BY <1>0, <2>1, <2>2 DEF LockInv, Lock, InUse
<1>3. ASSUME NEW p \in Proc, Step(p) PROVE LockInv'
  <2>1. /\ \/ \E c \in Cid, o \in Op : Return(p, o, c)
           \/ \E o \in LoopOp : Pass(p, o)
           \/ SkipTile(p)
           \/ UNCHANGED callVars
    <3>1. CASE New(p) \/ DR(p) \/ SRReturn(p) \/ DN(p) \/ Old(p)
      <4>1. \E c \in Cid, o \in {"NEW", "DR", "SR", "DN", "OLD"} : Return(p, o, c)
        <5>1. New(p) => \E c \in Cid : Return(p, "NEW", c)
          BY Zenon DEF New
        <5>2. DR(p) => \E c \in Cid : Return(p, "DR", c)
          BY Zenon DEF DR
        <5>3. SRReturn(p) => \E c \in Cid : Return(p, "SR", c)
          BY Zenon DEF SRReturn
        <5>4. DN(p) => \E c \in Cid : Return(p, "DN", c)
          BY Zenon DEF DN
        <5>5. Old(p) => \E c \in Cid : Return(p, "OLD", c)
          BY Zenon DEF Old
        <5> QED
          BY <3>1, <5>1, <5>2, <5>3, <5>4, <5>5
      <4> QED
        BY <4>1 DEF Op
    <3>2. CASE SRAddr(p)
      BY Zenon, <3>2 DEF SRAddr
    <3>3. CASE SRPut(p)
      BY Zenon, <3>3 DEF SRPut
    <3>4. CASE Loop(p)
      BY <3>4 DEF Loop
    <3> QED
      BY <1>3, <3>1, <3>2, <3>3, <3>4 DEF Step
  <2>2. PlaceInv' /\ prog' = prog
    BY <1>0, <2>1, PlaceStep
  <2>3. ASSUME NEW r \in Proc, r # p PROVE Lock(r)'
    <3>1. Own(r)' = Own(r)
      BY <1>0, <1>3, <2>3, OthersStay
    <3>2. /\ freelist'[r] = freelist[r] /\ handle'[r] = handle[r]
          /\ pos'[r] = pos[r] /\ inst'[r] = inst[r]
      BY <3>1 DEF Own
    <3> QED
      BY <1>0, <2>2, <3>2 DEF Lock, InUse
  <2>4. Lock(p)'
    <3>1. CASE New(p)
      BY <1>0, <3>1, LockNew
    <3>2. CASE Old(p)
      BY <1>0, <3>2, LockOld
    <3>3. CASE DR(p) \/ SRReturn(p) \/ DN(p)
      <4>1. \E c \in Cid, o \in {"DR", "SR", "DN"} : Return(p, o, c)
        <5>2. DR(p) => \E c \in Cid : Return(p, "DR", c)
          BY Zenon DEF DR
        <5>3. SRReturn(p) => \E c \in Cid : Return(p, "SR", c)
          BY Zenon DEF SRReturn
        <5>4. DN(p) => \E c \in Cid : Return(p, "DN", c)
          BY Zenon DEF DN
        <5> QED
          BY <3>3, <5>2, <5>3, <5>4
      <4>2. freelist' = freelist /\ handle' = handle
        <5>1. DR(p) => freelist' = freelist /\ handle' = handle
          BY Zenon DEF DR
        <5>2. SRReturn(p) => freelist' = freelist /\ handle' = handle
          BY Zenon DEF SRReturn
        <5>3. DN(p) => freelist' = freelist /\ handle' = handle
          BY DEF DN, descVars
        <5> QED
          BY <3>3, <5>1, <5>2, <5>3
      <4> QED
        BY <1>0, <4>1, <4>2, LockQuiet
    <3>4. CASE SRAddr(p) \/ SRPut(p)
      <4>1. UNCHANGED <<prog, pos, inst, freelist, handle>>
        <5>1. SRAddr(p) => UNCHANGED <<prog, pos, inst, freelist, handle>>
          BY Zenon DEF SRAddr, callVars
        <5>2. SRPut(p) => UNCHANGED <<prog, pos, inst, freelist, handle>>
          BY Zenon DEF SRPut, callVars
        <5> QED
          BY <3>4, <5>1, <5>2
      <4> QED
        BY <1>0, <4>1 DEF Lock, InUse
    <3>5. CASE Loop(p)
      <4>1. freelist' = freelist /\ handle' = handle
        BY <3>5 DEF Loop, descVars
      <4>2. CASE SkipTile(p)
        BY <1>0, <4>1, <4>2, LockSkip
      <4>3. CASE \E o \in LoopOp : Pass(p, o)
        BY <1>0, <4>1, <4>3, LockQuiet
      <4> QED
        BY <3>5, <4>2, <4>3 DEF Loop
    <3> QED
      BY <1>3, <3>1, <3>2, <3>3, <3>4, <3>5 DEF Step
  <2> QED
    BY <1>0, <2>2, <2>3, <2>4 DEF LockInv
<1> QED
  BY <1>1, <1>2, <1>3 DEF Next, Terminated

LEMMA InitLock == Init /\ SkipsRestore(prog) => LockInv
<1> SUFFICES ASSUME Init, SkipsRestore(prog) PROVE LockInv
  OBVIOUS
<1>1. SInv /\ PlaceInv
  BY InitSInv, InitPlace DEF Init
<1>2. ASSUME NEW p \in Proc PROVE Lock(p)
  <2>1. Len(prog.calls) \in Nat
    BY <1>1, CallsTyped DEF SInv
  <2>2. BankAfter(prog)[0] = BankStart
    BY <2>1, BankIs
  <2>3. /\ pos[p] = 0 /\ freelist[p] = [i \in 1..Comms |-> Comms - i]
        /\ \A c \in Cid : ~InUse(p, c)
    BY DEF Init, InitCalls, InUse
  <2>4. BankStart.free = [i \in 1..Comms |-> Comms - i]
    BY DEF BankStart
  <2> QED
    BY <2>2, <2>3, <2>4 DEF Lock
<1> QED
  BY <1>1, <1>2 DEF LockInv

\* The descriptor of an open communication is that of the place of its NEW.
LEMMA SlotOf ==
  ASSUME LockInv, NEW p \in Proc, NEW c \in Cid, InUse(p, c),
         NEW n \in 1..Len(prog.calls), prog.calls[n] = <<"NEW", c>>,
         GenAt(prog, c, n) = inst[p][c].gen
  PROVE  handle[p][c] = SlotAt(n, c)
<1>0. /\ PlaceInv /\ CallsInv /\ Len(prog.calls) \in Nat /\ pos[p] \in 0..Len(prog.calls)
      /\ \A k \in 1..Len(prog.calls) : prog.calls[k] \in (Op \cup LoopOp) \X Cid
  BY CallsTyped DEF LockInv, SInv
<1>1. PICK m \in 1..pos[p] : /\ prog.calls[m] = <<"NEW", c>>
                             /\ GenAt(prog, c, m) = inst[p][c].gen
                             /\ \A k \in (m + 1)..pos[p] : prog.calls[k] # <<"NEW", c>>
  BY <1>0, OpenPlace DEF InUse
<1>2. m = n
  <2>1. m \in Nat /\ n \in Nat
    BY <1>0
  <2> QED
    BY <1>1, <2>1, SamePlace
<1>3. m \in 0..Len(prog.calls) /\ pos[p] \in m..Len(prog.calls)
  BY <1>0
<1>4. BankAfter(prog)[pos[p]].handle[c] = BankAfter(prog)[m].handle[c]
  BY <1>0, <1>1, <1>3, HandleKept
<1> QED
  BY <1>2, <1>4 DEF LockInv, Lock, SlotAt

\* Processors in the same instance hold the same descriptor for it.
LEMMA LockSame ==
  ASSUME LockInv, NEW p \in Proc, NEW q \in Proc, NEW c \in Cid,
         InUse(p, c), InUse(q, c), inst[p][c].gen = inst[q][c].gen
  PROVE  handle[p][c] = handle[q][c]
<1>1. PICK m \in 1..pos[p] : /\ prog.calls[m] = <<"NEW", c>>
                             /\ GenAt(prog, c, m) = inst[p][c].gen
  BY OpenPlace DEF InUse, LockInv
<1>2. m \in 1..Len(prog.calls)
  BY CallsTyped DEF LockInv, SInv
<1> QED
  BY <1>1, <1>2, SlotOf

\* SHMEM processors pass no descriptors to each other: that a descriptor is the
\* same communication on both sides of a neighbourhood rests on each of them
\* taking and giving back descriptors in the order of the program.
THEOREM SHMEMSameDescriptor ==
  (\A pr \in Programs : SkipsRestore(pr)) => (Spec => []SameDescriptor)
<1> SUFFICES ASSUME \A pr \in Programs : SkipsRestore(pr) PROVE Spec => []SameDescriptor
  OBVIOUS
<1>1. Init => LockInv
  <2>1. Init => prog \in Programs
    BY DEF Init, InitCalls
  <2> QED
    BY <2>1, InitLock
<1>2. LockInv /\ [Next]_vars => LockInv'
  BY NextLock
<1>3. LockInv => SameDescriptor
  BY LockSame DEF SameDescriptor, InUse
<1> QED
  BY <1>1, <1>2, <1>3, PTL DEF Spec
-----------------------------------------------------------------------------
(* Links between processors.                                               *)

LinkInv ==
  /\ LockInv
  /\ \A p \in Proc : DirsOK(p) /\ AddrOK(p)
  /\ \A q, p \in Proc : NotAhead(q, p) /\ NoStray(q, p)
  /\ \A q, p \in Proc, c \in Cid : Listens(q, p, c) => Flow(q, p, c)
-----------------------------------------------------------------------------
\* What happens to puts under way when others are added, fenced off, or arrive.
Keeps(b, b1, K) ==
  \A x \in K :
    /\ x \in In(b1) <=> x \in In(b)
    /\ Once(b, x) => Once(b1, x)
    /\ \A y \in K : Earlier(b, x, y) => Earlier(b1, x, y)

LEMMA InIs ==
  ASSUME NEW b, NEW x
  PROVE  x \in In(b) <=> \E i \in 1..Len(b) : x \in b[i]
BY DEF In

LEMMA KeepsTwice ==
  ASSUME NEW a, NEW b, NEW c, NEW K, Keeps(a, b, K), Keeps(b, c, K)
  PROVE  Keeps(a, c, K)
BY DEF Keeps

LEMMA KeepsFewer ==
  ASSUME NEW a, NEW b, NEW K, NEW J \in SUBSET K, Keeps(a, b, K)
  PROVE  Keeps(a, b, J)
BY DEF Keeps

\* The batches of AddPuts.
LEMMA AddBatches ==
  ASSUME NEW P, NEW b \in Seq(SUBSET P), NEW new \in SUBSET P, b # <<>>
  PROVE  /\ Len(b) \in Nat /\ Len(b) > 0
         /\ Len(AddPuts(b, new)) = Len(b)
         /\ \A i \in 1..Len(b) : \A x :
              x \in AddPuts(b, new)[i] <=> x \in b[i] \/ (i = Len(b) /\ x \in new)
<1> DEFINE n == Len(b)
<1>1. n \in Nat /\ n > 0 /\ b \in [1..n -> SUBSET P]
  OBVIOUS
<1>2. [b EXCEPT ![n] = b[n] \cup new] \in [1..n -> SUBSET P]
  BY <1>1
<1>3. Len([b EXCEPT ![n] = b[n] \cup new]) = n
  BY <1>1, <1>2
<1>4. AddPuts(b, new) = [b EXCEPT ![n] = b[n] \cup new]
  BY DEF AddPuts
<1> QED
  BY Zenon, <1>1, <1>3, <1>4

LEMMA AddIn ==
  ASSUME NEW P, NEW b \in Seq(SUBSET P), NEW new \in SUBSET P
  PROVE  /\ In(AddPuts(b, new)) = In(b) \cup new
         /\ \A x : x \notin In(b) => Once(AddPuts(b, new), x)
<1>1. CASE b = <<>>
  <2>1. AddPuts(b, new) = IF new = {} THEN <<>> ELSE <<new>>
    BY <1>1 DEF AddPuts
  <2>2. In(<<>>) = {} /\ In(<<new>>) = new
    BY DEF In
  <2>3. \A x : Once(<<>>, x) /\ Once(<<new>>, x)
    BY DEF Once
  <2> QED
    BY <1>1, <2>1, <2>2, <2>3
<1>2. CASE b # <<>>
  <2> DEFINE n == Len(b)
             b1 == AddPuts(b, new)
  <2>1. /\ n \in Nat /\ n > 0 /\ Len(b1) = n
        /\ \A i \in 1..n : \A x : x \in b1[i] <=> x \in b[i] \/ (i = n /\ x \in new)
    BY <1>2, AddBatches
  <2> HIDE DEF b1
  <2>2. n \in 1..n
    BY <2>1
  <2>3. \A x : x \in In(b1) <=> x \in In(b) \/ x \in new
    BY <2>1, <2>2, InIs
  <2>4. ASSUME NEW x, x \notin In(b) PROVE Once(b1, x)
    <3>1. \A i \in 1..n : x \in b1[i] => i = n
      BY <2>1, <2>4, InIs
    <3> QED
      BY <2>1, <3>1 DEF Once
  <2> QED
    BY <2>3, <2>4 DEF b1
<1> QED
  BY <1>1, <1>2

LEMMA AddKeeps ==
  ASSUME NEW P, NEW b \in Seq(SUBSET P), NEW new \in SUBSET P, NEW K, K \cap new = {}
  PROVE  Keeps(b, AddPuts(b, new), K)
<1> DEFINE b1 == AddPuts(b, new)
<1>1. In(b1) = In(b) \cup new
  BY AddIn
<1>2. CASE b = <<>>
  <2>1. b1 = <<>> \/ b1 = <<new>>
    BY <1>2 DEF AddPuts
  <2>2. \A x \in K : \A i \in 1..Len(b1) : x \notin b1[i]
    BY <2>1
  <2>3. In(b) = {}
    BY <1>2 DEF In
  <2> HIDE DEF b1
  <2>4. \A x \in K : x \notin In(b1) /\ x \notin In(b)
    BY <2>2, <2>3, InIs
  <2> QED
    BY <2>2, <2>4 DEF Keeps, Once, Earlier, b1
<1>3. CASE b # <<>>
  <2>1. /\ Len(b1) = Len(b)
        /\ \A i \in 1..Len(b) : \A x :
             x \in b1[i] <=> x \in b[i] \/ (i = Len(b) /\ x \in new)
    BY <1>3, AddBatches
  <2>2. \A x \in K : \A i \in 1..Len(b) : x \in b1[i] <=> x \in b[i]
    BY <2>1
  <2> HIDE DEF b1
  <2>3. ASSUME NEW x \in K PROVE Once(b, x) => Once(b1, x)
    BY <2>1, <2>2 DEF Once
  <2>4. ASSUME NEW x \in K, NEW y \in K PROVE Earlier(b, x, y) => Earlier(b1, x, y)
    BY <2>1, <2>2 DEF Earlier
  <2> QED
    BY <1>1, <2>3, <2>4 DEF Keeps, b1
<1> QED
  BY <1>2, <1>3

LEMMA FenceKeeps ==
  ASSUME NEW P, NEW b \in Seq(SUBSET P), NEW K
  PROVE  /\ In(Fence(b)) = In(b) /\ Keeps(b, Fence(b), K)
         /\ Fence(b) = <<>> \/ Fence(b)[Len(Fence(b))] = {}
<1>1. CASE Fence(b) = b
  BY <1>1 DEF Fence, Keeps
<1>2. CASE Fence(b) # b
  <2> DEFINE b1 == Append(b, {})
  <2>1. Fence(b) = b1
    BY <1>2 DEF Fence
  <2>2. /\ Len(b) \in Nat /\ Len(b1) = Len(b) + 1 /\ b1[Len(b) + 1] = {}
        /\ \A i \in 1..Len(b) : b1[i] = b[i]
    OBVIOUS
  <2> HIDE DEF b1
  <2>3. \A x : \A i \in 1..Len(b1) : x \in b1[i] => i \in 1..Len(b) /\ x \in b[i]
    BY <2>2
  <2>4. \A i \in 1..Len(b) : i \in 1..Len(b1)
    BY <2>2
  <2>5. \A x : x \in In(b1) <=> x \in In(b)
    BY <2>2, <2>3, <2>4, InIs
  <2>6. ASSUME NEW x \in K PROVE Once(b, x) => Once(b1, x)
    BY <2>3 DEF Once
  <2>7. ASSUME NEW x \in K, NEW y \in K PROVE Earlier(b, x, y) => Earlier(b1, x, y)
    BY <2>3 DEF Earlier
  <2>8. Keeps(b, b1, K)
    BY <2>5, <2>6, <2>7 DEF Keeps
  <2> QED
    BY <2>1, <2>2, <2>5, <2>8
<1> QED
  BY <1>1, <1>2

\* A put after a fence is later than what was under way.
LEMMA FenceAfter ==
  ASSUME NEW P, NEW b \in Seq(SUBSET P), NEW new \in SUBSET P,
         NEW x, NEW y, x \notin new, y \notin In(b)
  PROVE  Earlier(AddPuts(Fence(b), new), x, y)
<1> DEFINE f == Fence(b)
           b1 == AddPuts(f, new)
<1>1. f \in Seq(SUBSET P) /\ In(f) = In(b)
  BY FenceType, FenceKeeps
<1>2. f = <<>> \/ f[Len(f)] = {}
  BY FenceKeeps
<1>3. CASE f = <<>>
  <2>1. b1 = <<>> \/ b1 = <<new>>
    BY <1>3 DEF AddPuts
  <2>2. \A i \in 1..Len(b1) : x \notin b1[i]
    BY <2>1
  <2> QED
    BY <2>2 DEF Earlier
<1>4. CASE f # <<>>
  <2> DEFINE n == Len(f)
  <2> HIDE DEF f
  <2>1. /\ n \in Nat /\ n > 0 /\ Len(b1) = n
        /\ \A i \in 1..n : \A z : z \in b1[i] <=> z \in f[i] \/ (i = n /\ z \in new)
    BY <1>1, <1>4, AddBatches
  <2> HIDE DEF b1
  <2>2. n \in 1..n
    BY <2>1
  <2>3. \A z : z \in b1[n] <=> z \in new
    BY <1>2, <1>4, <2>1, <2>2
  <2>4. \A i \in 1..n : y \in b1[i] => i = n
    BY <1>1, <2>1, InIs
  <2>5. \A i \in 1..n : x \in b1[i] => i < n
    BY <2>1, <2>3
  <2> QED
    BY <2>1, <2>4, <2>5 DEF Earlier, b1, f
<1> QED
  BY <1>3, <1>4

\* One put of the oldest batch arrives.
LEMMA RemoveKeeps ==
  ASSUME NEW P, NEW b \in Seq(SUBSET P), b # <<>>, NEW put \in Head(b),
         NEW K, put \notin K
  PROVE  LET b1 == RemovePut(b, put) IN
         /\ \A x : x \in In(b1) => x \in In(b)
         /\ \A x : x \in In(b) => x = put \/ x \in In(b1)
         /\ put \in In(b) /\ put \in P
         /\ Once(b, put) => put \notin In(b1)
         /\ \A y : Earlier(b, y, put) => y \notin In(b)
         /\ \A x, y : Earlier(b, x, y) => Earlier(b1, x, y)
         /\ Keeps(b, b1, K)
<1> DEFINE b1 == RemovePut(b, put)
           n == Len(b)
           rest == Head(b) \ {put}
           k == IF rest # {} THEN 0 ELSE 1
<1>1. /\ n \in Nat /\ n > 0 /\ 1 \in 1..n /\ Head(b) = b[1]
      /\ \A i \in 1..n : b[i] \in SUBSET P
  OBVIOUS
<1>2. Len(Tail(b)) = n - 1 /\ \A i \in 1..(n - 1) : Tail(b)[i] = b[i + 1]
  BY <1>1
<1>3. \* b1 is b without put in its first batch, and perhaps without that
      \E l \in 0..n : \E e \in 0..1 :
        /\ Len(b1) = l
        /\ \A i \in 1..l : i + e \in 1..n /\ b1[i] = IF i + e = 1 THEN rest ELSE b[i + e]
        /\ \A j \in 1..n : (\E i \in 1..l : i + e = j) \/ b[j] = {} \/ (j = 1 /\ rest = {})
  <2>1. CASE rest # {}
    <3>1. b1 = [b EXCEPT ![1] = rest]
      BY <2>1 DEF RemovePut
    <3>2. b \in [1..n -> SUBSET P] /\ rest \in SUBSET P
      BY <1>1
    <3>3. Len(b1) = n /\ \A i \in 1..n : b1[i] = IF i = 1 THEN rest ELSE b[i]
      <4>1. [b EXCEPT ![1] = rest] \in [1..n -> SUBSET P]
        BY <3>2
      <4>2. Len([b EXCEPT ![1] = rest]) = n
        BY <1>1, <4>1
      <4> QED
        BY <1>1, <3>1, <3>2, <4>2
    <3> HIDE DEF b1
    <3>4. \A j \in 1..n : j + 0 = j
      BY <1>1
    <3>5. n \in 0..n /\ 0 \in 0..1
      BY <1>1
    <3> HIDE DEF rest
    <3> QED
      BY <3>3, <3>4, <3>5
  <2>2. CASE rest = {} /\ n = 2 /\ b[2] = {}
    <3>1. b1 = <<>>
      BY <2>2 DEF RemovePut
    <3>2. Len(b1) = 0
      BY <3>1
    <3> HIDE DEF b1
    <3>3. \A j \in 1..n : b[j] = {} \/ (j = 1 /\ rest = {})
      BY <2>2
    <3>4. 0 \in 0..n /\ 0 \in 0..1 /\ \A i \in 1..0 : FALSE
      BY <1>1
    <3> QED
      BY <3>2, <3>3, <3>4
  <2>3. CASE rest = {} /\ ~(n = 2 /\ b[2] = {})
    <3>1. b1 = Tail(b)
      BY <2>3 DEF RemovePut
    <3>2. Len(b1) = n - 1 /\ \A i \in 1..(n - 1) : b1[i] = b[i + 1] /\ i + 1 \in 1..n /\ i + 1 # 1
      BY <1>1, <1>2, <3>1
    <3> HIDE DEF b1
    <3>3. \A j \in 1..n : j = 1 \/ (j - 1 \in 1..(n - 1) /\ (j - 1) + 1 = j)
      BY <1>1
    <3>4. n - 1 \in 0..n /\ 1 \in 0..1
      BY <1>1
    <3>5. \A j \in 1..n : (\E i \in 1..(n - 1) : i + 1 = j) \/ (j = 1 /\ rest = {})
      BY <2>3, <3>3
    <3> QED
      BY <3>2, <3>4, <3>5
  <2> QED
    BY <2>1, <2>2, <2>3
<1> HIDE DEF b1
<1>4. PICK l \in 0..n : \E e \in 0..1 :
        /\ Len(b1) = l
        /\ \A i \in 1..l : i + e \in 1..n /\ b1[i] = IF i + e = 1 THEN rest ELSE b[i + e]
        /\ \A j \in 1..n : (\E i \in 1..l : i + e = j) \/ b[j] = {} \/ (j = 1 /\ rest = {})
  BY <1>3
<1>5. PICK e \in 0..1 :
        /\ Len(b1) = l
        /\ \A i \in 1..l : i + e \in 1..n /\ b1[i] = IF i + e = 1 THEN rest ELSE b[i + e]
        /\ \A j \in 1..n : (\E i \in 1..l : i + e = j) \/ b[j] = {} \/ (j = 1 /\ rest = {})
  BY <1>4
<1>6. \A x : \A i \in 1..l : x \in b1[i] => i + e \in 1..n /\ x \in b[i + e]
  BY <1>1, <1>5
<1>7. \A x : x # put => \A j \in 1..n : x \in b[j] => \E i \in 1..l : i + e = j /\ x \in b1[i]
  <2> SUFFICES ASSUME NEW x, x # put, NEW j \in 1..n, x \in b[j]
               PROVE  \E i \in 1..l : i + e = j /\ x \in b1[i]
    OBVIOUS
  <2>1. j = 1 => x \in rest
    BY <1>1
  <2>2. PICK i \in 1..l : i + e = j
    BY <1>5, <2>1
  <2>3. x \in b1[i]
    BY <1>5, <2>1, <2>2
  <2> QED
    BY <2>2, <2>3
<1>8. l \in Nat /\ e \in Nat /\ Len(b1) = l
  BY <1>1, <1>5
<1>9. /\ \A x : x \in In(b1) => x \in In(b)
      /\ \A x : x \in In(b) => x = put \/ x \in In(b1)
  BY <1>6, <1>7, <1>8, InIs
<1>10. put \in In(b) /\ put \in P
  BY <1>1, InIs
<1>11. Once(b, put) => put \notin In(b1)
  <2> SUFFICES ASSUME Once(b, put), NEW i \in 1..l, put \in b1[i] PROVE FALSE
    BY <1>8, InIs
  <2>1. i + e \in 1..n /\ put \in b[i + e] /\ (i + e = 1 => put \in rest)
    BY <1>5, <1>6
  <2>2. i + e = 1
    BY <1>1, <2>1 DEF Once
  <2> QED
    BY <2>1, <2>2
<1>12. ASSUME NEW y, Earlier(b, y, put) PROVE y \notin In(b)
  <2> SUFFICES ASSUME NEW i \in 1..n, y \in b[i] PROVE FALSE
    BY InIs
  <2>1. i < 1
    BY <1>1, <1>12 DEF Earlier
  <2> QED
    BY <2>1
<1>13. ASSUME NEW x, NEW y, Earlier(b, x, y) PROVE Earlier(b1, x, y)
  <2> SUFFICES ASSUME NEW i \in 1..l, NEW j \in 1..l, x \in b1[i], y \in b1[j] PROVE i < j
    BY <1>8 DEF Earlier
  <2>1. i + e < j + e
    BY <1>6, <1>13 DEF Earlier
  <2> QED
    BY <1>8, <2>1
<1>14. Keeps(b, b1, K)
  <2>1. ASSUME NEW x \in K, Once(b, x) PROVE Once(b1, x)
    <3> SUFFICES ASSUME NEW i \in 1..l, NEW j \in 1..l, x \in b1[i], x \in b1[j] PROVE i = j
      BY <1>8 DEF Once
    <3>1. i + e = j + e
      BY <1>6, <2>1 DEF Once
    <3> QED
      BY <1>8, <3>1
  <2>2. \A x \in K : x \in In(b1) <=> x \in In(b)
    BY <1>9
  <2> QED
    BY <1>13, <2>1, <2>2 DEF Keeps
<1> QED
  BY <1>9, <1>10, <1>11, <1>12, <1>13, <1>14 DEF b1
-----------------------------------------------------------------------------
\* The flags, blocks and data of a link, and those of others.
LEMMA FlagIs ==
  ASSUME NEW a, NEW s, NEW q, NEW k
  PROVE  /\ Flag(a, s, q, k).name = a /\ Flag(a, s, q, k).slot = s
         /\ Flag(a, s, q, k).proc = q /\ Flag(a, s, q, k).k = k
BY DEF Flag

LEMMA PutIs ==
  /\ \A f, d : /\ PutFlag(f, d).kind = "flag" /\ PutFlag(f, d).flag = f
               /\ PutFlag(f, d).d = d
  /\ \A s, k, b : /\ PutBlock(s, k, b).kind = "block" /\ PutBlock(s, k, b).slot = s
                  /\ PutBlock(s, k, b).k = k /\ PutBlock(s, k, b).block = b
  /\ \A b, v : /\ PutData(b, v).kind = "data" /\ PutData(b, v).block = b
               /\ PutData(b, v).val = v
BY DEF PutFlag, PutBlock, PutData

LEMMA HereIs ==
  ASSUME NEW q, NEW c, NEW d
  PROVE  /\ Here(q, c, d).area = c /\ Here(q, c, d).gen = inst[q][c].gen
         /\ Here(q, c, d).dir = d
BY DEF Here

LEMMA RankOrder ==
  ASSUME NEW D \in SUBSET (1..MaxDirs), NEW d \in D
  PROVE  /\ Rank(D, d) \in 0..MaxDirs /\ Rank(D, d) < Cardinality(D)
         /\ Cardinality(D) \in 0..MaxDirs
         /\ \A e \in D : Rank(D, d) = Rank(D, e) => d = e
BY Smaller DEF Rank

LEMMA LinkTyped ==
  ASSUME CallsInv, SHMEMTypeOK, NEW q \in Proc, NEW p \in Proc, NEW c \in Cid, InUse(q, c)
  PROVE  /\ Links(q, p, c) \in SUBSET (1..MaxDirs)
         /\ handle[q][c] \in Slot /\ inst[q][c].gen \in Nat
         /\ inst[q][c].gen \in 1..Len(prog.dirs[c])
         /\ \A d \in Links(q, p, c) : Rank(Links(q, p, c), d) \in 0..MaxDirs
<1>1. inst[q][c].gen \in Nat /\ inst[q][c].gen \in 1..Len(prog.dirs[c])
  BY OpenGen DEF InUse
<1>2. Links(q, p, c) \in SUBSET (1..MaxDirs)
  BY <1>1, LinksFew DEF Links
<1>3. \A d \in Links(q, p, c) : Rank(Links(q, p, c), d) \in 0..MaxDirs
  BY <1>2, RankOrder
<1>4. handle[q][c] \in Slot
  BY DEF SHMEMTypeOK
<1> QED
  BY <1>1, <1>2, <1>3, <1>4

\* What the flags of a link say, and its puts.
LEMMA LinkParts ==
  ASSUME CallsInv, SHMEMTypeOK, NEW q \in Proc, NEW p \in Proc, NEW c \in Cid, InUse(q, c)
  PROVE  /\ \A f \in UpFlags(q, p, c) : f.slot = handle[q][c] /\ f.proc = q /\ f.name \in UpFlag
         /\ DoneFlag(q, p, c).slot = handle[q][c] /\ DoneFlag(q, p, c).proc = p
         /\ DoneFlag(q, p, c).name = "PUTDONE"
         /\ \A x \in UpPuts(q, p, c) :
              /\ x \in UpPut
              /\ \/ x.kind = "flag" /\ x.flag \in UpFlags(q, p, c)
                 \/ x.kind = "block" /\ x.slot = handle[q][c]
         /\ \A x \in DownPuts(q, p, c) :
              /\ x \in DownPut
              /\ \/ x.kind = "flag" /\ x.flag = DoneFlag(q, p, c)
                 \/ x.kind = "data" /\ x.block.area = c
<1> DEFINE s == handle[q][c]
           L == Links(q, p, c)
<1>1. /\ L \in SUBSET (1..MaxDirs) /\ s \in Slot
      /\ inst[q][c].gen \in Nat /\ inst[q][c].gen \in 1..Len(prog.dirs[c])
      /\ \A d \in L : Rank(L, d) \in 0..MaxDirs
  BY LinkTyped
<1>2. 0 \in 0..MaxDirs /\ \A d \in L : d \in 0..MaxDirs /\ d \in 1..MaxDirs
  BY <1>1, MaxDirsAssumption
<1>3. /\ ReadyFlag(q, c).slot = s /\ ReadyFlag(q, c).proc = q
      /\ ReadyFlag(q, c).name = "REMMEMREADY"
      /\ DoneFlag(q, p, c).slot = s /\ DoneFlag(q, p, c).proc = p
      /\ DoneFlag(q, p, c).name = "PUTDONE"
      /\ \A d : /\ DstFlag(q, p, c, d).slot = s /\ DstFlag(q, p, c, d).proc = q
                /\ DstFlag(q, p, c, d).name = "DSTREADY"
  BY FlagIs DEF ReadyFlag, DoneFlag, DstFlag
<1>4. \A f \in UpFlags(q, p, c) : f.slot = s /\ f.proc = q /\ f.name \in UpFlag
  BY <1>3, Zenon DEF UpFlags, UpFlag
<1>5. /\ PutFlag(ReadyFlag(q, c), 0) \in PutSet
      /\ PutFlag(DoneFlag(q, p, c), 0) \in PutSet
      /\ \A d \in L : PutFlag(DstFlag(q, p, c, d), d) \in PutSet
  BY <1>1, <1>2, SignalType DEF ReadyFlag, DoneFlag, DstFlag
<1>6. \A d \in L : BlockPut(q, p, c, d) \in PutSet
  <2>1. \A d \in L : Here(q, c, d) \in Block
    BY <1>1, <1>2 DEF Here, Block
  <2> HIDE DEF s, L
  <2> QED
    BY <1>1, <2>1 DEF BlockPut, PutBlock, PutSet, s, L
<1>7. \A d \in L : DataPut(q, p, c, d) \in PutSet
  <2>1. \A d \in L : Here(q, c, d) \in Block
    BY <1>1, <1>2 DEF Here, Block
  <2>2. \A d \in L : Data(p, c, inst[q][c].gen, d) \in DataSet
    BY <1>1, <1>2, DataType
  <2> QED
    BY <2>1, <2>2 DEF DataPut, PutData, PutSet
<1>8. ASSUME NEW x \in UpPuts(q, p, c)
      PROVE  /\ x \in UpPut
             /\ \/ x.kind = "flag" /\ x.flag \in UpFlags(q, p, c)
                \/ x.kind = "block" /\ x.slot = s
  <2>1. CASE x = PutFlag(ReadyFlag(q, c), 0)
    <3>1. x.kind = "flag" /\ x.flag = ReadyFlag(q, c)
      BY <2>1, PutIs
    <3> QED
      BY <1>3, <1>5, <2>1, <3>1 DEF UpPut, UpFlag, UpFlags
  <2>2. ASSUME NEW d \in L, x = PutFlag(DstFlag(q, p, c, d), d)
        PROVE  x \in UpPut /\ x.kind = "flag" /\ x.flag \in UpFlags(q, p, c)
    <3>1. x.kind = "flag" /\ x.flag = DstFlag(q, p, c, d)
      BY <2>2, PutIs
    <3> QED
      BY <1>3, <1>5, <2>2, <3>1 DEF UpPut, UpFlag, UpFlags
  <2>3. ASSUME NEW d \in L, x = BlockPut(q, p, c, d)
        PROVE  x \in UpPut /\ x.kind = "block" /\ x.slot = s
    <3>1. x.kind = "block" /\ x.slot = s
      BY <2>3, PutIs DEF BlockPut
    <3> QED
      BY <1>6, <2>3, <3>1 DEF UpPut
  <2> HIDE DEF s
  <2> QED
    BY <1>8, <2>1, <2>2, <2>3 DEF UpPuts
<1>9. ASSUME NEW x \in DownPuts(q, p, c)
      PROVE  /\ x \in DownPut
             /\ \/ x.kind = "flag" /\ x.flag = DoneFlag(q, p, c)
                \/ x.kind = "data" /\ x.block.area = c
  <2>1. CASE x = PutFlag(DoneFlag(q, p, c), 0)
    <3>1. x.kind = "flag" /\ x.flag = DoneFlag(q, p, c)
      BY <2>1, PutIs
    <3> QED
      BY <1>3, <1>5, <2>1, <3>1 DEF DownPut
  <2>2. ASSUME NEW d \in L, x = DataPut(q, p, c, d)
        PROVE  x \in DownPut /\ x.kind = "data" /\ x.block.area = c
    <3>1. x.kind = "data" /\ x.block = Here(q, c, d)
      BY <2>2, PutIs DEF DataPut
    <3> QED
      BY <1>7, <2>2, <3>1, HereIs DEF DownPut
  <2> QED
    BY <1>9, <2>1, <2>2 DEF DownPuts
<1> QED
  BY <1>3, <1>4, <1>8, <1>9

\* Communications that are open at the same time share no flag and no put.
LEMMA Apart ==
  ASSUME CallsInv, SHMEMTypeOK, NEW q \in Proc, NEW p \in Proc, Owned(q),
         NEW c \in Cid, NEW e \in Cid, c # e, InUse(q, c), InUse(q, e)
  PROVE  /\ handle[q][c] # handle[q][e]
         /\ UpFlags(q, p, c) \cap UpFlags(q, p, e) = {}
         /\ UpPuts(q, p, c) \cap UpPuts(q, p, e) = {}
         /\ DownPuts(q, p, c) \cap DownPuts(q, p, e) = {}
         /\ DoneFlag(q, p, c) # DoneFlag(q, p, e)
<1>1. handle[q][c] # handle[q][e]
  BY DEF Owned
<1>2. /\ UpFlags(q, p, c) \cap UpFlags(q, p, e) = {}
      /\ DoneFlag(q, p, c) # DoneFlag(q, p, e)
  BY <1>1, LinkParts
<1>3. UpPuts(q, p, c) \cap UpPuts(q, p, e) = {}
  <2> SUFFICES ASSUME NEW x \in UpPuts(q, p, c), x \in UpPuts(q, p, e) PROVE FALSE
    OBVIOUS
  <2> QED
    BY <1>1, <1>2, LinkParts
<1>4. DownPuts(q, p, c) \cap DownPuts(q, p, e) = {}
  <2> SUFFICES ASSUME NEW x \in DownPuts(q, p, c), x \in DownPuts(q, p, e) PROVE FALSE
    OBVIOUS
  <2> QED
    BY <1>2, LinkParts
<1> QED
  BY <1>1, <1>2, <1>3, <1>4

\* Within one communication, the directions have their own.
LEMMA ApartDirs ==
  ASSUME CallsInv, SHMEMTypeOK, NEW q \in Proc, NEW p \in Proc, NEW c \in Cid, InUse(q, c),
         NEW d \in Links(q, p, c)
  PROVE  /\ DstFlag(q, p, c, d) # ReadyFlag(q, c)
         /\ \A e \in Links(q, p, c) : d # e =>
              /\ DstFlag(q, p, c, d) # DstFlag(q, p, c, e)
              /\ Rank(Links(q, p, c), d) # Rank(Links(q, p, c), e)
              /\ BlockPut(q, p, c, d) # BlockPut(q, p, c, e)
              /\ DataPut(q, p, c, d) # DataPut(q, p, c, e)
<1>1. DstFlag(q, p, c, d) # ReadyFlag(q, c)
  BY FlagIs DEF DstFlag, ReadyFlag
<1>2. ASSUME NEW e \in Links(q, p, c), d # e
      PROVE  /\ DstFlag(q, p, c, d) # DstFlag(q, p, c, e)
             /\ Rank(Links(q, p, c), d) # Rank(Links(q, p, c), e)
             /\ BlockPut(q, p, c, d) # BlockPut(q, p, c, e)
             /\ DataPut(q, p, c, d) # DataPut(q, p, c, e)
  <2>1. Rank(Links(q, p, c), d) # Rank(Links(q, p, c), e)
    BY <1>2, LinkTyped, RankOrder
  <2>2. DstFlag(q, p, c, d) # DstFlag(q, p, c, e)
    BY <2>1, FlagIs DEF DstFlag
  <2>3. Here(q, c, d) # Here(q, c, e)
    BY <1>2, HereIs
  <2>4. BlockPut(q, p, c, d) # BlockPut(q, p, c, e)
    BY <2>3, PutIs DEF BlockPut
  <2>5. DataPut(q, p, c, d) # DataPut(q, p, c, e)
    BY <2>3, PutIs DEF DataPut
  <2> QED
    BY <2>1, <2>2, <2>4, <2>5
<1> QED
  BY <1>1, <1>2
-----------------------------------------------------------------------------
\* A step that leaves a communication of a link alone.
ObjectsStay(q, p, c) ==
  /\ handle'[q][c] = handle[q][c] /\ inst'[q][c].gen = inst[q][c].gen
  /\ Links(q, p, c)' = Links(q, p, c)
DueStays(q, p, c) ==
  /\ Opened(q, c)' <=> Opened(q, c)
  /\ ReadyDue(q, p, c)' <=> ReadyDue(q, p, c)
  /\ DoneDue(q, p, c)' <=> DoneDue(q, p, c)
  /\ \A d \in Links(q, p, c) : /\ DstDue(q, p, c, d)' <=> DstDue(q, p, c, d)
                               /\ DataDue(q, p, c, d)' <=> DataDue(q, p, c, d)

LEMMA SameObjects ==
  ASSUME NEW q \in Proc, NEW p \in Proc, NEW c \in Cid, ObjectsStay(q, p, c)
  PROVE  /\ ReadyFlag(q, c)' = ReadyFlag(q, c) /\ DoneFlag(q, p, c)' = DoneFlag(q, p, c)
         /\ \A d : /\ DstFlag(q, p, c, d)' = DstFlag(q, p, c, d)
                   /\ BlockPut(q, p, c, d)' = BlockPut(q, p, c, d)
                   /\ DataPut(q, p, c, d)' = DataPut(q, p, c, d)
                   /\ Here(q, c, d)' = Here(q, c, d)
         /\ UpFlags(q, p, c)' = UpFlags(q, p, c)
         /\ UpPuts(q, p, c)' = UpPuts(q, p, c)
         /\ DownPuts(q, p, c)' = DownPuts(q, p, c)
<1>1. /\ ReadyFlag(q, c)' = ReadyFlag(q, c) /\ DoneFlag(q, p, c)' = DoneFlag(q, p, c)
      /\ \A d : /\ DstFlag(q, p, c, d)' = DstFlag(q, p, c, d)
                /\ Here(q, c, d)' = Here(q, c, d)
  BY DEF ObjectsStay, ReadyFlag, DoneFlag, DstFlag, Here
<1>2. \A d : /\ BlockPut(q, p, c, d)' = BlockPut(q, p, c, d)
             /\ DataPut(q, p, c, d)' = DataPut(q, p, c, d)
  BY <1>1 DEF ObjectsStay, BlockPut, DataPut
<1>3. Links(q, p, c)' = Links(q, p, c)
  BY DEF ObjectsStay
<1>4. UpFlags(q, p, c)' = UpFlags(q, p, c)
  BY <1>1, <1>3 DEF UpFlags
<1>5. UpPuts(q, p, c)' = UpPuts(q, p, c)
  BY <1>1, <1>2, <1>3 DEF UpPuts
<1>6. DownPuts(q, p, c)' = DownPuts(q, p, c)
  BY <1>1, <1>2, <1>3 DEF DownPuts
<1> QED
  BY <1>1, <1>2, <1>4, <1>5, <1>6

\* The memory and the puts of a link, as far as c is concerned.
UpStays(q, p, c) ==
  /\ Keeps(puts[q][p], puts'[q][p], UpPuts(q, p, c))
  /\ \A f \in UpFlags(q, p, c) : f \in flags'[p] <=> f \in flags[p]
  /\ \A d \in Links(q, p, c) : Stored(q, p, c, d) => Stored(q, p, c, d)'
DownStays(q, p, c) ==
  /\ Keeps(puts[p][q], puts'[p][q], DownPuts(q, p, c))
  /\ DoneFlag(q, p, c) \in flags'[q] <=> DoneFlag(q, p, c) \in flags[q]
  /\ \A d \in Links(q, p, c) : Arrived(q, p, c, d) => Arrived(q, p, c, d)'

LEMMA ReadyStays ==
  ASSUME NEW q \in Proc, NEW p \in Proc, NEW c \in Cid, ObjectsStay(q, p, c),
         ReadyDue(q, p, c)' <=> ReadyDue(q, p, c),
         NEW K, Keeps(puts[q][p], puts'[q][p], K), PutFlag(ReadyFlag(q, c), 0) \in K,
         \A d \in Links(q, p, c) : BlockPut(q, p, c, d) \in K,
         ReadyFlag(q, c) \in flags'[p] <=> ReadyFlag(q, c) \in flags[p],
         \A d \in Links(q, p, c) : Stored(q, p, c, d) => Stored(q, p, c, d)'
  PROVE  /\ ReadyOK(q, p, c) => ReadyOK(q, p, c)'
         /\ \A d \in Links(q, p, c) : BlockOK(q, p, c, d) => BlockOK(q, p, c, d)'
<1> DEFINE x == PutFlag(ReadyFlag(q, c), 0)
           L == Links(q, p, c)
<1>1. /\ ReadyFlag(q, c)' = ReadyFlag(q, c)
      /\ \A d : BlockPut(q, p, c, d)' = BlockPut(q, p, c, d)
  BY SameObjects
<1>2. x \in K /\ x.flag = ReadyFlag(q, c)
  BY PutIs
<1>4. ASSUME ReadyOK(q, p, c) PROVE ReadyOK(q, p, c)'
  <2>1. Signal(ReadyDue(q, p, c), x, flags[p], puts[q][p])
    BY <1>4 DEF ReadyOK
  <2>2. Signal(ReadyDue(q, p, c)', x, flags'[p], puts'[q][p])
    BY <1>2, <2>1 DEF Signal, Keeps
  <2>3. ReadyFlag(q, c) \in flags'[p] => ReadyDue(q, p, c)'
    BY <1>4 DEF ReadyOK
  <2> QED
    BY <1>1, <2>2, <2>3 DEF ReadyOK
<1>5. ASSUME NEW d \in L, BlockOK(q, p, c, d) PROVE BlockOK(q, p, c, d)'
  <2> DEFINE y == BlockPut(q, p, c, d)
  <2>1. y \in K
    OBVIOUS
  <2>2. /\ y \in In(puts'[q][p]) <=> y \in In(puts[q][p])
        /\ Earlier(puts[q][p], y, x) => Earlier(puts'[q][p], y, x)
    BY <1>2, <2>1 DEF Keeps
  <2> QED
    BY <1>1, <1>5, <2>2 DEF BlockOK
<1> QED
  BY <1>4, <1>5

LEMMA DstStays ==
  ASSUME NEW q \in Proc, NEW p \in Proc, NEW c \in Cid, ObjectsStay(q, p, c),
         NEW d, DstDue(q, p, c, d)' <=> DstDue(q, p, c, d),
         NEW K, Keeps(puts[q][p], puts'[q][p], K), PutFlag(DstFlag(q, p, c, d), d) \in K,
         DstFlag(q, p, c, d) \in flags'[p] <=> DstFlag(q, p, c, d) \in flags[p],
         DstOK(q, p, c, d)
  PROVE  DstOK(q, p, c, d)'
<1> DEFINE y == PutFlag(DstFlag(q, p, c, d), d)
<1>1. DstFlag(q, p, c, d)' = DstFlag(q, p, c, d)
  BY SameObjects
<1>2. y \in K /\ y.flag = DstFlag(q, p, c, d)
  BY PutIs
<1>3. Signal(DstDue(q, p, c, d), y, flags[p], puts[q][p])
  BY DEF DstOK
<1>4. Signal(DstDue(q, p, c, d)', y, flags'[p], puts'[q][p])
  BY <1>2, <1>3 DEF Signal, Keeps
<1>5. DstFlag(q, p, c, d) \in flags'[p] => DstDue(q, p, c, d)'
  BY DEF DstOK
<1> QED
  BY <1>1, <1>4, <1>5 DEF DstOK

LEMMA DoneStays ==
  ASSUME NEW q \in Proc, NEW p \in Proc, NEW c \in Cid, ObjectsStay(q, p, c),
         Opened(q, c)' <=> Opened(q, c), DoneDue(q, p, c)' <=> DoneDue(q, p, c),
         NEW K, Keeps(puts[p][q], puts'[p][q], K), PutFlag(DoneFlag(q, p, c), 0) \in K,
         DoneFlag(q, p, c) \in flags'[q] <=> DoneFlag(q, p, c) \in flags[q],
         DoneOK(q, p, c)
  PROVE  DoneOK(q, p, c)'
<1> DEFINE x == PutFlag(DoneFlag(q, p, c), 0)
<1>1. DoneFlag(q, p, c)' = DoneFlag(q, p, c)
  BY SameObjects
<1>2. x \in K /\ x.flag = DoneFlag(q, p, c)
  BY PutIs
<1>3. ASSUME Opened(q, c)'
      PROVE  Signal(DoneDue(q, p, c)', x, flags'[q], puts'[p][q])
  <2>1. Signal(DoneDue(q, p, c), x, flags[q], puts[p][q])
    BY <1>3 DEF DoneOK
  <2> QED
    BY <1>2, <2>1 DEF Signal, Keeps
<1>4. x \in In(puts'[p][q]) => Opened(q, c)'
  BY <1>2 DEF DoneOK, Keeps
<1>5. Opened(q, c)' /\ DoneFlag(q, p, c) \in flags'[q] => DoneDue(q, p, c)'
  BY DEF DoneOK
<1> QED
  BY <1>1, <1>3, <1>4, <1>5 DEF DoneOK

LEMMA DataStays ==
  ASSUME NEW q \in Proc, NEW p \in Proc, NEW c \in Cid, ObjectsStay(q, p, c),
         NEW d, DataDue(q, p, c, d)' <=> DataDue(q, p, c, d),
         NEW K, Keeps(puts[p][q], puts'[p][q], K), PutFlag(DoneFlag(q, p, c), 0) \in K,
         DataPut(q, p, c, d) \in K,
         DoneFlag(q, p, c) \in flags'[q] <=> DoneFlag(q, p, c) \in flags[q],
         Arrived(q, p, c, d) => Arrived(q, p, c, d)', DataOK(q, p, c, d)
  PROVE  DataOK(q, p, c, d)'
<1> DEFINE x == PutFlag(DoneFlag(q, p, c), 0)
           y == DataPut(q, p, c, d)
<1>1. DoneFlag(q, p, c)' = DoneFlag(q, p, c) /\ DataPut(q, p, c, d)' = y
  BY SameObjects
<1>2. /\ y \in In(puts'[p][q]) <=> y \in In(puts[p][q])
      /\ Earlier(puts[p][q], y, x) => Earlier(puts'[p][q], y, x)
  BY DEF Keeps
<1> QED
  BY <1>1, <1>2 DEF DataOK

LEMMA FlowStays ==
  ASSUME NEW q \in Proc, NEW p \in Proc, NEW c \in Cid, ObjectsStay(q, p, c),
         DueStays(q, p, c), UpStays(q, p, c), DownStays(q, p, c), Flow(q, p, c)
  PROVE  Flow(q, p, c)'
<1> DEFINE U == UpPuts(q, p, c)
           D == DownPuts(q, p, c)
<1>a. /\ PutFlag(ReadyFlag(q, c), 0) \in U /\ PutFlag(DoneFlag(q, p, c), 0) \in D
      /\ \A d \in Links(q, p, c) : /\ PutFlag(DstFlag(q, p, c, d), d) \in U
                                   /\ BlockPut(q, p, c, d) \in U
                                   /\ DataPut(q, p, c, d) \in D
  BY DEF UpPuts, DownPuts
<1>b. ReadyFlag(q, c) \in UpFlags(q, p, c)
      /\ \A d \in Links(q, p, c) : DstFlag(q, p, c, d) \in UpFlags(q, p, c)
  BY DEF UpFlags
<1>c. Keeps(puts[q][p], puts'[q][p], U) /\ Keeps(puts[p][q], puts'[p][q], D)
  BY DEF UpStays, DownStays
<1> HIDE DEF U, D
<1>1. /\ ReadyOK(q, p, c)'
      /\ \A d \in Links(q, p, c) : BlockOK(q, p, c, d)'
  BY <1>a, <1>b, <1>c, ReadyStays DEF DueStays, Flow, UpStays
<1>2. /\ DoneOK(q, p, c)'
      /\ \A d \in Links(q, p, c) : DstOK(q, p, c, d)' /\ DataOK(q, p, c, d)'
  <2>1. DoneOK(q, p, c)'
    BY <1>a, <1>c, DoneStays DEF DueStays, Flow, DownStays
  <2>2. ASSUME NEW d \in Links(q, p, c) PROVE DstOK(q, p, c, d)'
    BY <1>a, <1>b, <1>c, DstStays DEF DueStays, Flow, UpStays
  <2>3. ASSUME NEW d \in Links(q, p, c) PROVE DataOK(q, p, c, d)'
    BY <1>a, <1>c, DataStays DEF DueStays, Flow, DownStays
  <2> QED
    BY <2>1, <2>2, <2>3
<1>3. Links(q, p, c)' = Links(q, p, c)
  BY DEF ObjectsStay
<1> QED
  BY <1>1, <1>2, <1>3 DEF Flow

\* Nothing strays as long as what comes up or on its way belongs to an instance
\* that listens, and what stops listening has nothing left.
Silent(q, p, c) ==
  /\ UpFlags(q, p, c) \cap flags[p] = {}
  /\ UpPuts(q, p, c) \cap In(puts[q][p]) = {}
  /\ DownPuts(q, p, c) \cap In(puts[p][q]) = {}

LEMMA StrayStays ==
  ASSUME NEW q \in Proc, NEW p \in Proc, NoStray(q, p),
         \A c \in Cid : Listens(q, p, c) =>
           Silent(q, p, c) \/ (Listens(q, p, c)' /\ ObjectsStay(q, p, c)),
         \A f \in flags'[p] : f.proc = q /\ f.name \in UpFlag =>
           \/ f \in flags[p]
           \/ \E c \in Cid : Listens(q, p, c)' /\ f \in UpFlags(q, p, c)',
         \A x \in In(puts'[q][p]) \cap UpPut :
           \/ x \in In(puts[q][p])
           \/ \E c \in Cid : Listens(q, p, c)' /\ x \in UpPuts(q, p, c)',
         \A x \in In(puts'[p][q]) \cap DownPut :
           \/ x \in In(puts[p][q])
           \/ \E c \in Cid : Listens(q, p, c)' /\ x \in DownPuts(q, p, c)'
  PROVE  NoStray(q, p)'
<1>1. \A c \in Cid : Listens(q, p, c) => Silent(q, p, c) \/
        /\ Listens(q, p, c)'
        /\ UpFlags(q, p, c)' = UpFlags(q, p, c)
        /\ UpPuts(q, p, c)' = UpPuts(q, p, c)
        /\ DownPuts(q, p, c)' = DownPuts(q, p, c)
  BY SameObjects
<1>2. ASSUME NEW f \in flags'[p], f.proc = q, f.name \in UpFlag
      PROVE  \E c \in Cid : Listens(q, p, c)' /\ f \in UpFlags(q, p, c)'
  <2>1. CASE f \in flags[p]
    <3>1. PICK c \in Cid : Listens(q, p, c) /\ f \in UpFlags(q, p, c)
      BY <1>2, <2>1 DEF NoStray
    <3> QED
      BY <1>1, <1>2, <2>1, <3>1 DEF Silent
  <2> QED
    BY <1>2, <2>1
<1>3. ASSUME NEW x \in In(puts'[q][p]) \cap UpPut
      PROVE  \E c \in Cid : Listens(q, p, c)' /\ x \in UpPuts(q, p, c)'
  <2>1. CASE x \in In(puts[q][p])
    <3>1. PICK c \in Cid : Listens(q, p, c) /\ x \in UpPuts(q, p, c)
      BY <1>3, <2>1 DEF NoStray
    <3> QED
      BY <1>1, <1>3, <2>1, <3>1 DEF Silent
  <2> QED
    BY <1>3, <2>1
<1>4. ASSUME NEW x \in In(puts'[p][q]) \cap DownPut
      PROVE  \E c \in Cid : Listens(q, p, c)' /\ x \in DownPuts(q, p, c)'
  <2>1. CASE x \in In(puts[p][q])
    <3>1. PICK c \in Cid : Listens(q, p, c) /\ x \in DownPuts(q, p, c)
      BY <1>4, <2>1 DEF NoStray
    <3> QED
      BY <1>1, <1>4, <2>1, <3>1 DEF Silent
  <2> QED
    BY <1>4, <2>1
<1> DEFINE A == \A f \in flags[p] : f.proc = q /\ f.name \in UpFlag =>
                  \E c \in Cid : Listens(q, p, c) /\ f \in UpFlags(q, p, c)
           B == \A x \in In(puts[q][p]) \cap UpPut :
                  \E c \in Cid : Listens(q, p, c) /\ x \in UpPuts(q, p, c)
           C == \A x \in In(puts[p][q]) \cap DownPut :
                  \E c \in Cid : Listens(q, p, c) /\ x \in DownPuts(q, p, c)
<1>5. A' /\ B' /\ C'
  BY <1>2, <1>3, <1>4
<1> QED
  BY <1>5 DEF NoStray
-----------------------------------------------------------------------------
\* The directions that a descriptor has of one processor.
LEMMA WithSends ==
  ASSUME NEW ds, NEW p, NEW info, DOMAIN info = SendDirs(p, ds),
         \A d \in SendDirs(p, ds) : info[d].proc = ds[d][p], NEW q \in Proc
  PROVE  With(info, q) = {d \in DOMAIN ds : ds[d][p] = q}
BY NoProcAssumption DEF With, SendDirs

LEMMA WithRecvs ==
  ASSUME NEW ds \in Seq(Direction), NEW q \in Proc, NEW info, DOMAIN info = RecvDirs(q, ds),
         \A d \in RecvDirs(q, ds) : info[d].proc = Source(q, ds, d), NEW p \in Proc
  PROVE  With(info, p) = {d \in DOMAIN ds : ds[d][p] = q}
<1>1. \A d \in RecvDirs(q, ds) :
        Source(q, ds, d) \in Proc /\ ds[d][Source(q, ds, d)] = q /\ d \in DOMAIN ds
  BY SourceType DEF RecvDirs
<1>2. \A d \in DOMAIN ds : ds[d] \in Direction
  OBVIOUS
<1>3. q # NoProc
  BY NoProcAssumption
<1>4. \A d \in RecvDirs(q, ds) : Source(q, ds, d) = p <=> ds[d][p] = q
  BY <1>1, <1>2, <1>3 DEF Direction
<1>5. \A d \in DOMAIN ds : ds[d][p] = q => d \in RecvDirs(q, ds)
  BY DEF RecvDirs
<1> QED
  BY <1>1, <1>4, <1>5 DEF With

\* What NEW does: its descriptor is that of the instance, and each neighbour it
\* receives from is sent the blocks, a fence, and the signal.
Blocks(s, c, g, D) == {PutBlock(s, Rank(D, d), [area |-> c, gen |-> g, dir |-> d]) : d \in D}
Some(D, put) == IF D = {} THEN {} ELSE {put}

LEMMA NewFacts ==
  ASSUME SInv, NEW p \in Proc, New(p)
  PROVE  \E c \in Cid :
    LET g == inst[p][c].gen + 1
        ds == prog.dirs[c][g]
        s == handle'[p][c]
        W(q) == {d \in DOMAIN ds : ds[d][q] = p}
    IN /\ Return(p, "NEW", c) /\ g \in 1..Len(prog.dirs[c])
       /\ inst'[p][c] = [done |-> {"NEW"}, gen |-> g]
       /\ \E writable : /\ \A f \in writable : f.name = "REMMEMWRITABLE"
                        /\ flags' = [flags EXCEPT ![p] = @ \ writable]
       /\ UNCHANGED <<remmem, step, ghost>> /\ step[p] = {}
       /\ RecvInfo(p, c)' = [d \in RecvDirs(p, ds) |-> [proc |-> Source(p, ds, d), area |-> c]]
       /\ SendInfo(p, c)' = [d \in SendDirs(p, ds) |->
                               [proc |-> ds[d][p], area |-> c, remmeminfo |-> NoBlock]]
       /\ \A e \in Cid : e # c /\ InUse(p, e) =>
            /\ handle'[p][e] = handle[p][e]
            /\ RecvInfo(p, e)' = RecvInfo(p, e) /\ SendInfo(p, e)' = SendInfo(p, e)
       /\ \A r \in Proc : r # p => puts'[r] = puts[r]
       /\ \A q \in Proc :
            \/ puts'[p][q] = puts[p][q] /\ W(q) = {}
            \/ puts'[p][q] = AddPuts(Fence(AddPuts(puts[p][q], Blocks(s, c, g, W(q)))),
                                     Some(W(q), PutFlag(Flag("REMMEMREADY", s, p, 0), 0)))
<1>1. PICK c \in Cid :
  LET ds == Dirs(p, c)
      s == freelist[p][Len(freelist[p])]
      recvs == [d \in RecvDirs(p, ds) |-> [proc |-> Source(p, ds, d), area |-> c]]
      sends == [d \in SendDirs(p, ds) |->
                  [proc |-> ds[d][p], area |-> c, remmeminfo |-> NoBlock]]
      total(q) == counters[p][s][q].recvs + Cardinality(With(recvs, q))
      writable == {Flag("REMMEMWRITABLE", s, recvs[d].proc, 0) :
                     d \in {e \in DOMAIN recvs : IsNext(e, DOMAIN recvs)}}
      blocks(q) == {PutBlock(s, counters[p][s][q].recvs + Before(recvs, d),
                             [area |-> c, gen |-> Gen(p, c), dir |-> d]) :
                      d \in With(recvs, q)}
      ready(q) == IF Reached(counters[p][s][q].count,
                             Cardinality(With(recvs, q)), total(q))
                  THEN {PutFlag(Flag("REMMEMREADY", s, p, 0), 0)} ELSE {}
  IN /\ Return(p, "NEW", c)
     /\ flags' = [flags EXCEPT ![p] = @ \ writable]
     /\ freelist' = [freelist EXCEPT ![p] = Taken(@, recvs)]
     /\ handle' = [handle EXCEPT ![p][c] = s]
     /\ commbank' = [commbank EXCEPT ![p][s] = [recvinfo |-> recvs, sendinfo |-> sends]]
     /\ puts' = [puts EXCEPT ![p] = [q \in Proc |->
          IF recvs = <<>> THEN @[q]
          ELSE AddPuts(Fence(AddPuts(@[q], blocks(q))), ready(q))]]
     /\ UNCHANGED <<remmem, step, ghost>>
  BY Zenon DEF New
<1> DEFINE ds == Dirs(p, c)
           g == inst[p][c].gen + 1
           s == freelist[p][Len(freelist[p])]
           recvs == [d \in RecvDirs(p, ds) |-> [proc |-> Source(p, ds, d), area |-> c]]
           sends == [d \in SendDirs(p, ds) |->
                       [proc |-> ds[d][p], area |-> c, remmeminfo |-> NoBlock]]
           nr(q) == Cardinality(With(recvs, q))
           W(q) == {d \in DOMAIN ds : ds[d][q] = p}
           writable == {Flag("REMMEMWRITABLE", s, recvs[d].proc, 0) :
                          d \in {e \in DOMAIN recvs : IsNext(e, DOMAIN recvs)}}
           blocks(q) == {PutBlock(s, counters[p][s][q].recvs + Before(recvs, d),
                                  [area |-> c, gen |-> Gen(p, c), dir |-> d]) :
                           d \in With(recvs, q)}
           ready(q) == IF Reached(counters[p][s][q].count, nr(q),
                                  counters[p][s][q].recvs + nr(q))
                       THEN {PutFlag(Flag("REMMEMREADY", s, p, 0), 0)} ELSE {}
<1>2. Return(p, "NEW", c) /\ "NEW" \in Op
  BY <1>1 DEF Op
<1>3. recvs \in Maps(Recv) /\ sends \in Maps(Send) /\ Gen(p, c) \in Nat
  BY <1>2, NewType
<1>4. /\ \A e \in Cid : ~May(p, "SR", e)
      /\ ~InUse(p, c) /\ InUse(p, c)'
      /\ \A e \in Cid : e # c => inst'[p][e] = inst[p][e]
      /\ Gen(p, c) = g /\ inst'[p][c] = [done |-> {"NEW"}, gen |-> g]
      /\ g \in 1..Len(prog.dirs[c]) /\ ds = prog.dirs[c][g]
  <2> DEFINE o == "NEW"
  <2>1. o \in Op /\ o = "NEW" /\ o # "SR" /\ o # "OLD" /\ Return(p, o, c)
    BY <1>2
  <2> HIDE DEF o
  <2>2. /\ \A e \in Cid : ~May(p, "SR", e)
        /\ ~InUse(p, c) /\ InUse(p, c)'
        /\ \A e \in Cid : e # c => inst'[p][e] = inst[p][e]
    BY <2>1, ReturnDone DEF SInv, May
  <2>3. /\ Gen(p, c) = g /\ Gen(p, c) \in 1..Len(prog.dirs[c])
        /\ inst'[p][c] = [done |-> DoneAfter(inst[p][c].done, o), gen |-> Gen(p, c)]
    BY <2>1, ReturnStep, Place DEF SInv
  <2>4. DoneAfter(inst[p][c].done, o) = {"NEW"}
    BY <2>1, <2>2 DEF DoneAfter, InUse
  <2>5. ds = prog.dirs[c][g]
    BY Zenon, <2>3 DEF Dirs
  <2> HIDE DEF ds, g
  <2> QED
    BY <2>2, <2>3, <2>4, <2>5
<1>5. freelist'[p] = SubSeq(freelist[p], 1, Len(freelist[p]) - 1)
  BY Zenon, <1>1 DEF Taken, SInv, SHMEMTypeOK
<1>6. handle'[p] = [handle[p] EXCEPT ![c] = s]
  BY Zenon, <1>1 DEF SInv, SHMEMTypeOK
<1>7. /\ s \in Slot /\ Free(p, s)
      /\ \A e \in Cid : InUse(p, e)' /\ e # c => InUse(p, e) /\ handle'[p][e] = handle[p][e]
  <2> HIDE DEF s
  <2>1. s = freelist[p][Len(freelist[p])]
    BY DEF s
  <2> QED
    BY <1>4, <1>5, <1>6, <2>1, TakeOwned DEF SInv, LocalOK
<1>8. \A q \in Proc : counters[p][s][q] = Zero
  BY <1>7 DEF SInv, LocalOK, CountersOK
<1>9. \A q : nr(q) \in 0..MaxDirs /\ (nr(q) = 0 <=> With(recvs, q) = {})
  BY <1>3, WithBound, SetBound
<1>10. ds \in Seq(Direction)
  BY <1>4, DirsType DEF SInv, CallsInv
<1>11. \A q \in Proc : With(recvs, q) = W(q)
  <2>1. /\ DOMAIN recvs = RecvDirs(p, ds)
        /\ \A d \in RecvDirs(p, ds) : recvs[d].proc = Source(p, ds, d)
    OBVIOUS
  <2> HIDE DEF ds, recvs
  <2> QED
    BY <1>10, <2>1, WithRecvs
<1>12. recvs = <<>> => \A q \in Proc : W(q) = {}
  <2> SUFFICES ASSUME recvs = <<>>, NEW q \in Proc PROVE With(recvs, q) = {}
    BY <1>11
  <2>1. DOMAIN recvs = {}
    OBVIOUS
  <2> HIDE DEF recvs
  <2> QED
    BY <2>1 DEF With
<1>13. commbank' = [commbank EXCEPT ![p][s] = [recvinfo |-> recvs, sendinfo |-> sends]]
  BY <1>1
<1>14. puts' = [puts EXCEPT ![p] = [q \in Proc |->
         IF recvs = <<>> THEN puts[p][q]
         ELSE AddPuts(Fence(AddPuts(puts[p][q], blocks(q))), ready(q))]]
  BY Zenon, <1>1
<1>15. flags' = [flags EXCEPT ![p] = flags[p] \ writable]
       /\ \A f \in writable : f.name = "REMMEMWRITABLE"
  BY <1>1, FlagIs
<1>16. UNCHANGED <<remmem, step, ghost>>
  BY Zenon, <1>1
<1> HIDE DEF ds, s, recvs, sends, nr, writable
<1>17. step[p] = {}
  BY <1>4, NotSending DEF SInv
<1>18. handle'[p][c] = s
  BY <1>6 DEF SInv, SHMEMTypeOK
<1>19. RecvInfo(p, c)' = recvs /\ SendInfo(p, c)' = sends
  BY <1>7, <1>13, <1>18 DEF RecvInfo, SendInfo, SInv, SHMEMTypeOK
<1>20. ASSUME NEW e \in Cid, e # c, InUse(p, e)
       PROVE  /\ handle'[p][e] = handle[p][e]
              /\ RecvInfo(p, e)' = RecvInfo(p, e) /\ SendInfo(p, e)' = SendInfo(p, e)
  <2>1. handle'[p][e] = handle[p][e]
    BY <1>6, <1>20 DEF SInv, SHMEMTypeOK
  <2>2. handle[p][e] \in Slot /\ handle[p][e] # s
    BY <1>7, <1>20 DEF SInv, SHMEMTypeOK, LocalOK, Owned, Held
  <2> QED
    BY <1>7, <1>13, <2>1, <2>2 DEF RecvInfo, SendInfo, SInv, SHMEMTypeOK
<1>21. ASSUME NEW q \in Proc
       PROVE  /\ blocks(q) = Blocks(s, c, g, W(q))
              /\ ready(q) = Some(W(q), PutFlag(Flag("REMMEMREADY", s, p, 0), 0))
  <2>1. With(recvs, q) = W(q)
    BY <1>11
  <2>2. counters[p][s][q].recvs = 0 /\ counters[p][s][q].count = 0
    BY <1>8 DEF Zero
  <2>3. ASSUME NEW d \in W(q)
        PROVE  counters[p][s][q].recvs + Before(recvs, d) = Rank(W(q), d)
    <3>1. d \in DOMAIN recvs /\ recvs[d].proc = q
      BY <2>1, <2>3 DEF With
    <3>2. Before(recvs, d) = Rank(W(q), d)
      BY <2>1, <3>1 DEF Before, Rank
    <3>3. Before(recvs, d) \in 0..MaxDirs
      BY <1>3, <3>1, WithBound
    <3> QED
      BY <2>2, <3>2, <3>3
  <2>4. blocks(q) = Blocks(s, c, g, W(q))
    <3> HIDE DEF W, g
    <3>1. blocks(q) = {PutBlock(s, counters[p][s][q].recvs + Before(recvs, d),
                                  [area |-> c, gen |-> g, dir |-> d]) : d \in W(q)}
      BY <1>4, <2>1
    <3> QED
      BY <2>3, <3>1 DEF Blocks
  <2>5. nr(q) \in Nat /\ (nr(q) > 0 <=> W(q) # {})
    BY <1>9, <2>1
  <2>6. Reached(counters[p][s][q].count, nr(q), counters[p][s][q].recvs + nr(q)) <=> W(q) # {}
    <3> HIDE DEF W
    <3> QED
      BY <2>2, <2>5 DEF Reached
  <2> HIDE DEF W
  <2>7. ready(q) = Some(W(q), PutFlag(Flag("REMMEMREADY", s, p, 0), 0))
    BY <2>6 DEF Some
  <2> QED
    BY <2>4, <2>7
<1> HIDE DEF blocks, ready, W, g
<1>22. /\ \A r \in Proc : r # p => puts'[r] = puts[r]
       /\ \A q \in Proc :
            \/ puts'[p][q] = puts[p][q] /\ W(q) = {}
            \/ puts'[p][q] = AddPuts(Fence(AddPuts(puts[p][q], Blocks(s, c, g, W(q)))),
                                     Some(W(q), PutFlag(Flag("REMMEMREADY", s, p, 0), 0)))
  <2>1. puts \in [Proc -> [Proc -> Seq(SUBSET PutSet)]]
    BY DEF SInv, SHMEMTypeOK
  <2>2. \A r \in Proc : r # p => puts'[r] = puts[r]
    BY <1>14, <2>1
  <2>3. \A q \in Proc : puts'[p][q] =
           IF recvs = <<>> THEN puts[p][q]
           ELSE AddPuts(Fence(AddPuts(puts[p][q], blocks(q))), ready(q))
    BY <1>14, <2>1
  <2> QED
    BY <1>12, <1>21, <2>2, <2>3
<1>23. \E w : /\ \A f \in w : f.name = "REMMEMWRITABLE"
              /\ flags' = [flags EXCEPT ![p] = @ \ w]
  BY <1>15
<1>24. RecvInfo(p, c)' = [d \in RecvDirs(p, ds) |-> [proc |-> Source(p, ds, d), area |-> c]]
  BY <1>19 DEF recvs
<1>25. SendInfo(p, c)' = [d \in SendDirs(p, ds) |->
                            [proc |-> ds[d][p], area |-> c, remmeminfo |-> NoBlock]]
  BY <1>19 DEF sends
<1>26. /\ Return(p, "NEW", c) /\ g \in 1..Len(prog.dirs[c]) /\ ds = prog.dirs[c][g]
       /\ inst'[p][c] = [done |-> {"NEW"}, gen |-> g]
  BY <1>2, <1>4
<1> DEFINE D == prog.dirs[c][g]
           h == handle'[p][c]
           V(q) == {d \in DOMAIN D : D[d][q] = p}
<1>27. D = ds /\ h = s /\ \A q : V(q) = W(q)
  BY <1>18, <1>26 DEF W
<1>28. /\ \A r \in Proc : r # p => puts'[r] = puts[r]
       /\ \A q \in Proc :
            \/ puts'[p][q] = puts[p][q] /\ V(q) = {}
            \/ puts'[p][q] = AddPuts(Fence(AddPuts(puts[p][q], Blocks(h, c, g, V(q)))),
                                     Some(V(q), PutFlag(Flag("REMMEMREADY", h, p, 0), 0)))
  BY Zenon, <1>22, <1>27
<1>29. /\ RecvInfo(p, c)' = [d \in RecvDirs(p, D) |-> [proc |-> Source(p, D, d), area |-> c]]
       /\ SendInfo(p, c)' = [d \in SendDirs(p, D) |->
                               [proc |-> D[d][p], area |-> c, remmeminfo |-> NoBlock]]
  BY Zenon, <1>24, <1>25, <1>27
<1> WITNESS c \in Cid
<1> QED
  BY Zenon, <1>16, <1>17, <1>20, <1>23, <1>26, <1>28, <1>29 DEF V, h, D, g
-----------------------------------------------------------------------------
\* A step of r that lowers flags of its own and puts under way what sent[x]
\* has for x.
Effect(r, lost, sent) ==
  /\ prog' = prog /\ remmem' = remmem /\ ghost' = ghost
  /\ \A x \in Proc : x # r => /\ Own(x)' = Own(x)
                              /\ puts'[x] = puts[x] /\ flags'[x] = flags[x]
  /\ \A f : f \in flags'[r] <=> f \in flags[r] /\ f \notin lost
  /\ \A x \in Proc : \A y : y \in In(puts'[r][x]) <=> y \in In(puts[r][x]) \/ y \in sent[x]
  /\ \A x \in Proc : \A K : K \cap sent[x] = {} => Keeps(puts[r][x], puts'[r][x], K)

\* What a sender has done is what it had.
SendView(p, q, c, g) ==
  /\ Over(p, c, g)' <=> Over(p, c, g)
  /\ Took(p, q, c, g)' <=> Took(p, q, c, g)
  /\ \A d \in Edges(p, q, c, g) : Sent(p, c, g, d)' <=> Sent(p, c, g, d)
\* What a receiver listens to.
RecvView(q, c) ==
  /\ handle'[q][c] = handle[q][c] /\ inst'[q][c].gen = inst[q][c].gen
  /\ InUse(q, c)' <=> InUse(q, c)
  /\ "DN" \in inst'[q][c].done <=> "DN" \in inst[q][c].done
  /\ "DR" \in inst'[q][c].done <=> "DR" \in inst[q][c].done

LEMMA SameKeeps ==
  ASSUME NEW b, NEW K
  PROVE  Keeps(b, b, K)
BY DEF Keeps

\* What a processor that makes no step has done, and listens to.
LEMMA OwnViews ==
  ASSUME NEW r \in Proc, Own(r)' = Own(r)
  PROVE  /\ \A q \in Proc, c \in Cid : \A g : SendView(r, q, c, g)
         /\ \A c \in Cid : RecvView(r, c) /\ (InUse(r, c)' <=> InUse(r, c))
         /\ inst'[r] = inst[r]
         /\ \A c \in Cid : SendInfo(r, c)' = SendInfo(r, c) /\ RecvInfo(r, c)' = RecvInfo(r, c)
         /\ \A o, c : May(r, o, c)' <=> May(r, o, c)
<1> USE DEF Own
<1>1. \A o, c : May(r, o, c)' <=> May(r, o, c)
  BY DEF May, At, Running
<1>2. \A c : /\ RecvInfo(r, c)' = RecvInfo(r, c)
             /\ SendInfo(r, c)' = SendInfo(r, c)
             /\ Out(r, c)' = Out(r, c)
             /\ InUse(r, c)' <=> InUse(r, c)
  BY <1>1 DEF RecvInfo, SendInfo, Out, InUse
<1>3. \A q \in Proc, c \in Cid : \A g : Edges(r, q, c, g)' = Edges(r, q, c, g)
  BY DEF Edges
<1>4. \A c \in Cid : \A g : Over(r, c, g)' <=> Over(r, c, g)
  BY DEF Over
<1>5. \A q \in Proc, c \in Cid : \A g : SendView(r, q, c, g)
  BY <1>2, <1>3, <1>4 DEF SendView, Took, Sent
<1>6. \A c \in Cid : RecvView(r, c)
  BY <1>2 DEF RecvView
<1> QED
  BY <1>1, <1>2, <1>5, <1>6

\* A link both of whose ends see of each other what they saw.
LEMMA ViewDues ==
  ASSUME NEW q \in Proc, NEW p \in Proc, NEW c \in Cid, prog' = prog, RecvView(q, c)
  PROVE  /\ ObjectsStay(q, p, c)
         /\ Listens(q, p, c)' <=> Listens(q, p, c)
         /\ Opened(q, c)' <=> Opened(q, c)
         /\ SendView(p, q, c, inst[q][c].gen) => DueStays(q, p, c)
<1>1. Links(q, p, c)' = Links(q, p, c)
  BY DEF Links, Edges, RecvView
<1>2. Links(q, p, c) = Edges(p, q, c, inst[q][c].gen)
  BY DEF Links
<1>3. ObjectsStay(q, p, c)
  BY <1>1 DEF ObjectsStay, RecvView
<1>4. Opened(q, c)' <=> Opened(q, c)
  BY DEF Opened, RecvView
<1>5. ASSUME SendView(p, q, c, inst[q][c].gen) PROVE DueStays(q, p, c)
  <2>1. /\ Over(p, c, inst[q][c].gen)' <=> Over(p, c, inst[q][c].gen)
        /\ Took(p, q, c, inst[q][c].gen)' <=> Took(p, q, c, inst[q][c].gen)
        /\ \A d \in Links(q, p, c) :
             Sent(p, c, inst[q][c].gen, d)' <=> Sent(p, c, inst[q][c].gen, d)
    BY <1>2, <1>5 DEF SendView, RecvView
  <2> QED
    BY <1>4, <2>1 DEF DueStays, ReadyDue, DoneDue, DstDue, DataDue
<1>7. Listens(q, p, c)' <=> Listens(q, p, c)
  BY <1>1 DEF Listens, RecvView
<1> QED
  BY <1>3, <1>4, <1>5, <1>7

\* The links a step of r leaves alone: those of others, ...
LEMMA EffectThird ==
  ASSUME NEW r \in Proc, NEW lost, NEW sent, Effect(r, lost, sent),
         NEW q \in Proc, NEW p \in Proc, q # r, p # r, NEW c \in Cid
  PROVE  /\ Listens(q, p, c)' <=> Listens(q, p, c)
         /\ Flow(q, p, c) => Flow(q, p, c)'
<1>1. RecvView(q, c) /\ SendView(p, q, c, inst[q][c].gen) /\ prog' = prog
  BY OwnViews DEF Effect
<1>2. ObjectsStay(q, p, c) /\ DueStays(q, p, c) /\ (Listens(q, p, c)' <=> Listens(q, p, c))
  BY <1>1, ViewDues
<1>3. /\ puts'[q] = puts[q] /\ puts'[p] = puts[p] /\ flags'[q] = flags[q] /\ flags'[p] = flags[p]
      /\ remmem' = remmem /\ ghost' = ghost
  BY DEF Effect
<1>4. UpStays(q, p, c) /\ DownStays(q, p, c)
  BY <1>2, <1>3, SameKeeps, SameObjects DEF UpStays, DownStays, Stored, Arrived, ObjectsStay
<1> QED
  BY <1>2, <1>4, FlowStays

\* ... those to a receiver of r, ...
LEMMA EffectSends ==
  ASSUME NEW p \in Proc, NEW lost, NEW sent, Effect(p, lost, sent),
         NEW q \in Proc, q # p, NEW c \in Cid,
         Listens(q, p, c) => /\ SendView(p, q, c, inst[q][c].gen)
                             /\ lost \cap UpFlags(q, p, c) = {}
                             /\ sent[q] \cap DownPuts(q, p, c) = {}
  PROVE  /\ Listens(q, p, c)' <=> Listens(q, p, c)
         /\ Listens(q, p, c) /\ Flow(q, p, c) => Flow(q, p, c)'
<1>1. RecvView(q, c) /\ prog' = prog
  BY OwnViews DEF Effect
<1>a. Listens(q, p, c)' <=> Listens(q, p, c)
  BY <1>1, ViewDues
<1> SUFFICES ASSUME Listens(q, p, c), Flow(q, p, c) PROVE Flow(q, p, c)'
  BY <1>a
<1>2. ObjectsStay(q, p, c) /\ DueStays(q, p, c)
  BY <1>1, ViewDues
<1>3. /\ puts'[q] = puts[q] /\ flags'[q] = flags[q]
      /\ \A f \in UpFlags(q, p, c) : f \in flags'[p] <=> f \in flags[p]
      /\ Keeps(puts[p][q], puts'[p][q], DownPuts(q, p, c))
      /\ remmem' = remmem /\ ghost' = ghost
  BY DEF Effect
<1>4. UpStays(q, p, c)
  BY <1>2, <1>3, SameKeeps, SameObjects DEF UpStays, Stored, ObjectsStay
<1>5. DownStays(q, p, c)
  BY <1>2, <1>3, SameObjects DEF DownStays, Arrived, ObjectsStay
<1> QED
  BY <1>2, <1>4, <1>5, FlowStays

\* ... and those from a sender to r.
LEMMA EffectReceives ==
  ASSUME NEW q \in Proc, NEW lost, NEW sent, Effect(q, lost, sent),
         NEW p \in Proc, q # p, NEW c \in Cid, RecvView(q, c),
         Listens(q, p, c) => DoneFlag(q, p, c) \notin lost /\ sent[p] \cap UpPuts(q, p, c) = {}
  PROVE  /\ Listens(q, p, c)' <=> Listens(q, p, c)
         /\ Listens(q, p, c) /\ Flow(q, p, c) => Flow(q, p, c)'
<1>1. SendView(p, q, c, inst[q][c].gen) /\ prog' = prog
  BY OwnViews DEF Effect
<1>2. ObjectsStay(q, p, c) /\ DueStays(q, p, c) /\ (Listens(q, p, c)' <=> Listens(q, p, c))
  BY <1>1, ViewDues
<1> SUFFICES ASSUME Listens(q, p, c), Flow(q, p, c) PROVE Flow(q, p, c)'
  BY <1>2
<1>3. /\ puts'[p] = puts[p] /\ flags'[p] = flags[p]
      /\ DoneFlag(q, p, c) \in flags'[q] <=> DoneFlag(q, p, c) \in flags[q]
      /\ Keeps(puts[q][p], puts'[q][p], UpPuts(q, p, c))
      /\ remmem' = remmem /\ ghost' = ghost
  BY DEF Effect
<1>4. UpStays(q, p, c)
  BY <1>2, <1>3, SameObjects DEF UpStays, Stored, ObjectsStay
<1>5. DownStays(q, p, c)
  BY <1>2, <1>3, SameKeeps, SameObjects DEF DownStays, Arrived, ObjectsStay
<1> QED
  BY <1>2, <1>4, <1>5, FlowStays

\* Nothing strays after a step of r.
LEMMA EffectStray ==
  ASSUME NEW r \in Proc, NEW lost, NEW sent, Effect(r, lost, sent),
         \A q, p \in Proc : NoStray(q, p),
         \A p \in Proc, c \in Cid : Listens(r, p, c) =>
           Silent(r, p, c) \/ (Listens(r, p, c)' /\ ObjectsStay(r, p, c)),
         \A x \in Proc : \A y \in sent[x] \cap UpPut :
           \E c \in Cid : Listens(r, x, c)' /\ y \in UpPuts(r, x, c)',
         \A x \in Proc : \A y \in sent[x] \cap DownPut :
           \E c \in Cid : Listens(x, r, c)' /\ y \in DownPuts(x, r, c)'
  PROVE  \A q, p \in Proc : NoStray(q, p)'
<1> SUFFICES ASSUME NEW q \in Proc, NEW p \in Proc PROVE NoStray(q, p)'
  OBVIOUS
<1>1. \A c \in Cid : Listens(q, p, c) =>
        Silent(q, p, c) \/ (Listens(q, p, c)' /\ ObjectsStay(q, p, c))
  <2>1. CASE q = r
    BY <2>1
  <2>2. CASE q # r
    <3>1. inst'[q] = inst[q] /\ handle'[q] = handle[q] /\ prog' = prog
      BY <2>2, OwnViews DEF Effect, Own
    <3>2. \A c \in Cid : Links(q, p, c)' = Links(q, p, c)
      BY <3>1 DEF Links, Edges
    <3>3. \A c \in Cid : Listens(q, p, c)' <=> Listens(q, p, c)
      BY <3>1, <3>2 DEF Listens, InUse
    <3> QED
      BY <3>1, <3>2, <3>3 DEF ObjectsStay
  <2> QED
    BY <2>1, <2>2
<1>2. \A f \in flags'[p] : f \in flags[p]
  BY DEF Effect
<1>3. \A x \in In(puts'[q][p]) \cap UpPut :
        x \in In(puts[q][p]) \/ \E c \in Cid : Listens(q, p, c)' /\ x \in UpPuts(q, p, c)'
  <2>1. CASE q = r
    <3>1. \A x \in In(puts'[q][p]) \cap UpPut : x \in In(puts[q][p]) \/ x \in sent[p] \cap UpPut
      BY <2>1 DEF Effect
    <3> QED
      BY <2>1, <3>1
  <2>2. CASE q # r
    BY <2>2 DEF Effect
  <2> QED
    BY <2>1, <2>2
<1>4. \A x \in In(puts'[p][q]) \cap DownPut :
        x \in In(puts[p][q]) \/ \E c \in Cid : Listens(q, p, c)' /\ x \in DownPuts(q, p, c)'
  <2>1. CASE p = r
    <3>1. \A x \in In(puts'[p][q]) \cap DownPut :
            x \in In(puts[p][q]) \/ x \in sent[q] \cap DownPut
      BY <2>1 DEF Effect
    <3> QED
      BY <2>1, <3>1
  <2>2. CASE p # r
    BY <2>2 DEF Effect
  <2> QED
    BY <2>1, <2>2
<1>5. NoStray(q, p)
  OBVIOUS
<1> QED
  BY <1>1, <1>2, <1>3, <1>4, <1>5, StrayStays

\* A receiver stays as far as it was, and its sender too.
LEMMA AheadStays ==
  ASSUME NEW q \in Proc, NEW p \in Proc, NotAhead(q, p), prog' = prog,
         \A c \in Cid : \A g \in 1..Len(prog.dirs[c]) : Edges(p, q, c, g) # {} =>
           /\ Took(p, q, c, g)' => Took(p, q, c, g) \/ inst'[q][c].gen >= g
           /\ inst[q][c].gen >= g => inst'[q][c].gen >= g
           /\ \A d \in Edges(p, q, c, g) :
                Sent(p, c, g, d)' => Sent(p, c, g, d) \/ Past(q, c, g, "DR")'
           /\ Past(q, c, g, "DR") => Past(q, c, g, "DR")'
           /\ Past(q, c, g, "DN")' => Past(q, c, g, "DN") \/ Over(p, c, g)'
           /\ Over(p, c, g) => Over(p, c, g)'
  PROVE  NotAhead(q, p)'
<1> SUFFICES ASSUME NEW c \in Cid, NEW g \in 1..Len(prog.dirs[c]), Edges(p, q, c, g) # {}
             PROVE  /\ Took(p, q, c, g)' => inst'[q][c].gen >= g
                    /\ \A d \in Edges(p, q, c, g) : Sent(p, c, g, d)' => Past(q, c, g, "DR")'
                    /\ Past(q, c, g, "DN")' => Over(p, c, g)'
  <2>1. \A c \in Cid : \A g : Edges(p, q, c, g)' = Edges(p, q, c, g)
    BY DEF Edges
  <2> QED
    BY <2>1 DEF NotAhead
<1>1. /\ Took(p, q, c, g) => inst[q][c].gen >= g
      /\ \A d \in Edges(p, q, c, g) : Sent(p, c, g, d) => Past(q, c, g, "DR")
      /\ Past(q, c, g, "DN") => Over(p, c, g)
  BY DEF NotAhead
<1> QED
  BY <1>1
-----------------------------------------------------------------------------
\* The directions that an open descriptor has of a neighbour are those of its
\* links.
LEMMA InfoLinks ==
  ASSUME SInv, NEW p \in Proc, DirsOK(p), NEW c \in Cid, InUse(p, c), NEW q \in Proc
  PROVE  /\ With(SendInfo(p, c), q) = Edges(p, q, c, inst[p][c].gen)
         /\ With(RecvInfo(p, c), q) = Links(p, q, c)
         /\ \A d \in Edges(p, q, c, inst[p][c].gen) :
              /\ d \in DOMAIN SendInfo(p, c)
              /\ SendInfo(p, c)[d].proc = q /\ SendInfo(p, c)[d].area = c
<1> DEFINE ds == prog.dirs[c][inst[p][c].gen]
<1>1. inst[p][c].gen \in 1..Len(prog.dirs[c])
  BY OpenGen DEF InUse, SInv
<1>2. ds \in Seq(Direction)
  BY <1>1, DirsType DEF SInv, CallsInv
<1>3. /\ DOMAIN SendInfo(p, c) = SendDirs(p, ds)
      /\ DOMAIN RecvInfo(p, c) = RecvDirs(p, ds)
      /\ \A d \in SendDirs(p, ds) : SendInfo(p, c)[d].proc = ds[d][p] /\ SendInfo(p, c)[d].area = c
      /\ \A d \in RecvDirs(p, ds) : RecvInfo(p, c)[d].proc = Source(p, ds, d)
  BY DEF DirsOK
<1> HIDE DEF ds
<1>4. With(SendInfo(p, c), q) = {d \in DOMAIN ds : ds[d][p] = q}
  BY <1>3, WithSends
<1>5. With(RecvInfo(p, c), q) = {d \in DOMAIN ds : ds[d][q] = p}
  BY <1>2, <1>3, WithRecvs
<1>6. /\ With(SendInfo(p, c), q) = Edges(p, q, c, inst[p][c].gen)
      /\ With(RecvInfo(p, c), q) = Links(p, q, c)
  BY <1>4, <1>5 DEF Edges, Links, ds
<1>7. \A d \in With(SendInfo(p, c), q) :
        /\ d \in DOMAIN SendInfo(p, c)
        /\ SendInfo(p, c)[d].proc = q /\ SendInfo(p, c)[d].area = c
  BY <1>3 DEF With
<1> QED
  BY <1>6, <1>7

\* Neither end gets ahead when only r moves.
LEMMA AheadAll ==
  ASSUME CallsInv, NEW r \in Proc, prog' = prog,
         \A x \in Proc : x # r => Own(x)' = Own(x),
         \A q, p \in Proc : NotAhead(q, p),
         \A q \in Proc, c \in Cid : \A g \in 1..Len(prog.dirs[c]) :
           q # r /\ Edges(r, q, c, g) # {} =>
             /\ Took(r, q, c, g)' => Took(r, q, c, g) \/ inst[q][c].gen >= g
             /\ \A d \in Edges(r, q, c, g) :
                  Sent(r, c, g, d)' => Sent(r, c, g, d) \/ Past(q, c, g, "DR")
             /\ Over(r, c, g) => Over(r, c, g)',
         \A p \in Proc, c \in Cid : \A g \in 1..Len(prog.dirs[c]) :
           p # r /\ Edges(p, r, c, g) # {} =>
             /\ inst[r][c].gen >= g => inst'[r][c].gen >= g
             /\ Past(r, c, g, "DR") => Past(r, c, g, "DR")'
             /\ Past(r, c, g, "DN")' => Past(r, c, g, "DN") \/ Over(p, c, g)
  PROVE  \A q, p \in Proc : NotAhead(q, p)'
<1> SUFFICES ASSUME NEW q \in Proc, NEW p \in Proc PROVE NotAhead(q, p)'
  OBVIOUS
<1>1. \A x \in Proc : x # r =>
        /\ inst'[x] = inst[x]
        /\ \A y \in Proc, c \in Cid : \A g : SendView(x, y, c, g)
  BY OwnViews
<1>2. \A x \in Proc, c \in Cid : \A g, o : x # r =>
        (Past(x, c, g, o)' <=> Past(x, c, g, o))
  BY <1>1 DEF Past, InUse
<1>3. ASSUME NEW c \in Cid, NEW g \in 1..Len(prog.dirs[c]), Edges(p, q, c, g) # {}
      PROVE  /\ Took(p, q, c, g)' => Took(p, q, c, g) \/ inst'[q][c].gen >= g
             /\ inst[q][c].gen >= g => inst'[q][c].gen >= g
             /\ \A d \in Edges(p, q, c, g) :
                  Sent(p, c, g, d)' => Sent(p, c, g, d) \/ Past(q, c, g, "DR")'
             /\ Past(q, c, g, "DR") => Past(q, c, g, "DR")'
             /\ Past(q, c, g, "DN")' => Past(q, c, g, "DN") \/ Over(p, c, g)'
             /\ Over(p, c, g) => Over(p, c, g)'
  <2>1. p # q
    BY <1>3, NoLoop
  <2>2. CASE p = r
    BY <1>1, <1>2, <1>3, <2>1, <2>2
  <2>3. CASE q = r
    BY <1>1, <1>3, <2>1, <2>3 DEF SendView
  <2>4. CASE p # r /\ q # r
    BY <1>1, <1>2, <2>4 DEF SendView
  <2> QED
    BY <2>2, <2>3, <2>4
<1>4. NotAhead(q, p)
  OBVIOUS
<1> QED
  BY <1>3, <1>4, AheadStays

\* As a sender, p is where it was after every call but SR.
LEMMA CallSends ==
  ASSUME SInv, NEW p \in Proc, NEW o \in {"DR", "DN", "OLD"}, NEW c \in Cid, Return(p, o, c),
         UNCHANGED <<handle, commbank, step>>
  PROVE  \A q \in Proc, e \in Cid : \A g : SendView(p, q, e, g)
<1>1. o \in Op /\ o # "SR" /\ o # "NEW"
  BY DEF Op
<1>2. /\ \A e \in Cid : ~May(p, "SR", e)
      /\ InUse(p, c) /\ prog' = prog
      /\ \A e \in Cid : e # c => inst'[p][e] = inst[p][e]
  BY <1>1, ReturnDone DEF SInv, May
<1>3. /\ inst'[p][c] = [done |-> DoneAfter(inst[p][c].done, o), gen |-> inst[p][c].gen]
      /\ Required[o] \subseteq inst[p][c].done
  <2>1. /\ inst'[p][c] = [done |-> DoneAfter(inst[p][c].done, o), gen |-> Gen(p, c)]
        /\ Required[o] \subseteq inst[p][c].done
        /\ Gen(p, c) = IF o = "NEW" THEN inst[p][c].gen + 1 ELSE inst[p][c].gen
    BY <1>1, ReturnStep DEF SInv
  <2> QED
    BY <1>1, <2>1
<1>4. step[p] = {} /\ step'[p] = {}
  BY <1>2, NotSending DEF SInv
<1>5. \A e : SendInfo(p, e)' = SendInfo(p, e) /\ Out(p, e)' = {} /\ Out(p, e) = {}
  BY <1>4 DEF SendInfo, Out
<1>6. /\ "SR" \in inst'[p][c].done \/ inst'[p][c].done = {}
           <=> "SR" \in inst[p][c].done
      /\ inst[p][c].done # {} /\ inst'[p][c].gen = inst[p][c].gen
      /\ inst'[p][c].done = {} => "SR" \in inst[p][c].done
  BY <1>1, <1>2, <1>3 DEF InUse, DoneAfter, Required
<1>7. \A e \in Cid : \A g : Over(p, e, g)' <=> Over(p, e, g)
  BY <1>2, <1>6 DEF Over
<1>8. ASSUME NEW q \in Proc, NEW e \in Cid, NEW g PROVE SendView(p, q, e, g)
  <2>1. Edges(p, q, e, g)' = Edges(p, q, e, g)
    BY <1>2 DEF Edges
  <2>2. Took(p, q, e, g)' <=> Took(p, q, e, g)
    <3>1. CASE e # c
      BY <1>2, <1>5, <1>7, <2>1, <3>1 DEF Took, InUse
    <3>2. CASE e = c
      BY <1>2, <1>5, <1>6, <1>7, <2>1, <3>2 DEF Took, InUse, Over
    <3> QED
      BY <3>1, <3>2
  <2>3. \A d : Sent(p, e, g, d)' <=> Sent(p, e, g, d)
    BY <1>5, <1>7 DEF Sent
  <2> QED
    BY <1>7, <2>2, <2>3 DEF SendView
<1> QED
  BY <1>8

\* As a receiver, it is where it was after every call but NEW, DR and DN.
LEMMA CallReceives ==
  ASSUME SInv, NEW q \in Proc, NEW o \in Op, o # "NEW", NEW c \in Cid, Return(q, o, c),
         UNCHANGED <<handle, commbank>>
  PROVE  /\ \A e \in Cid : e # c \/ o = "SR" => RecvView(q, e)
         /\ \A p \in Proc, e \in Cid : ~Listens(q, p, e) /\ e = c /\ o = "OLD" => ~Listens(q, p, e)'
         /\ o = "OLD" => \A p \in Proc : ~Listens(q, p, c)
         /\ \A e \in Cid : inst'[q][e].gen = inst[q][e].gen
         /\ \A e \in Cid : \A g :
              /\ Past(q, e, g, "DR")' <=>
                   Past(q, e, g, "DR") \/ (o = "DR" /\ e = c /\ g = inst[q][c].gen)
              /\ Past(q, e, g, "DN")' <=>
                   Past(q, e, g, "DN") \/ (o = "DN" /\ e = c /\ g = inst[q][c].gen)
<1>1. /\ InUse(q, c) /\ prog' = prog
      /\ \A e \in Cid : e # c => inst'[q][e] = inst[q][e]
      /\ o # "OLD" => InUse(q, c)'
      /\ o = "OLD" => ~InUse(q, c)'
  BY ReturnDone DEF SInv
<1>2. /\ inst'[q][c] = [done |-> DoneAfter(inst[q][c].done, o), gen |-> inst[q][c].gen]
      /\ Required[o] \subseteq inst[q][c].done
  <2>1. /\ inst'[q][c] = [done |-> DoneAfter(inst[q][c].done, o), gen |-> Gen(q, c)]
        /\ Required[o] \subseteq inst[q][c].done
        /\ Gen(q, c) = IF o = "NEW" THEN inst[q][c].gen + 1 ELSE inst[q][c].gen
    BY ReturnStep DEF SInv
  <2> QED
    BY <2>1
<1>3. \A e \in Cid : e # c \/ o = "SR" => RecvView(q, e)
  <2>1. ASSUME NEW e \in Cid, e # c PROVE RecvView(q, e)
    BY <1>1, <2>1 DEF RecvView, InUse
  <2>2. ASSUME o = "SR" PROVE RecvView(q, c)
    BY <1>1, <1>2, <2>2 DEF RecvView, DoneAfter
  <2> QED
    BY <2>1, <2>2
<1>4. o = "OLD" => {"DR", "DN"} \subseteq inst[q][c].done
  BY <1>2 DEF Required
<1>5. \A e \in Cid : inst'[q][e].gen = inst[q][e].gen
  BY <1>1, <1>2
<1>6. ASSUME NEW e \in Cid, NEW g, NEW a \in {"DR", "DN"}
      PROVE  Past(q, e, g, a)' <=> Past(q, e, g, a) \/ (o = a /\ e = c /\ g = inst[q][c].gen)
  <2>1. CASE e # c
    BY <1>1, <2>1 DEF Past, InUse
  <2>2. CASE e = c /\ o = "OLD"
    BY <1>1, <1>2, <1>4, <2>2 DEF Past
  <2>3. CASE e = c /\ o # "OLD"
    <3>1. a \in inst'[q][c].done <=> a \in inst[q][c].done \/ a = o
      BY <1>2, <2>3 DEF DoneAfter
    <3>2. InUse(q, c) /\ InUse(q, c)'
      BY <1>1, <2>3
    <3> QED
      BY <1>5, <2>3, <3>1, <3>2 DEF Past
  <2> QED
    BY <2>1, <2>2, <2>3
<1>7. o = "OLD" => \A p \in Proc : ~Listens(q, p, c) /\ ~Listens(q, p, c)'
  BY <1>1, <1>4 DEF Listens
<1> QED
  BY <1>3, <1>5, <1>6, <1>7
-----------------------------------------------------------------------------
(* How the calls that concern no link, or end one, leave the links.        *)

\* Puts added, with or without a fence before them.
LEMMA AddEffect ==
  ASSUME NEW b \in Seq(SUBSET PutSet), NEW new
  PROVE  /\ \A y : y \in In(AddPuts(b, new)) <=> y \in In(b) \/ y \in new
         /\ \A y : y \in In(AddPuts(Fence(b), new)) <=> y \in In(b) \/ y \in new
         /\ \A K : K \cap new = {} => /\ Keeps(b, AddPuts(b, new), K)
                                      /\ Keeps(b, AddPuts(Fence(b), new), K)
<1> DEFINE P == PutSet \cup new
<1>1. new \in SUBSET P /\ SUBSET PutSet \subseteq SUBSET P
  OBVIOUS
<1>2. b \in Seq(SUBSET P)
  <2> HIDE DEF P
  <2>1. Len(b) \in Nat /\ \A i \in 1..Len(b) : b[i] \in SUBSET P
    BY <1>1
  <2>2. b \in [1..Len(b) -> SUBSET P]
    BY <2>1
  <2> QED
    BY <2>1, <2>2
<1> HIDE DEF P
<1>3. Fence(b) \in Seq(SUBSET P) /\ In(Fence(b)) = In(b) /\ \A K : Keeps(b, Fence(b), K)
  BY <1>2, FenceType, FenceKeeps
<1>4. In(AddPuts(b, new)) = In(b) \cup new
  BY <1>1, <1>2, AddIn
<1>5. In(AddPuts(Fence(b), new)) = In(Fence(b)) \cup new
  BY <1>1, <1>3, AddIn
<1>6. ASSUME NEW K, K \cap new = {}
      PROVE  Keeps(b, AddPuts(b, new), K) /\ Keeps(b, AddPuts(Fence(b), new), K)
  <2>1. Keeps(b, AddPuts(b, new), K)
    BY <1>1, <1>2, <1>6, AddKeeps
  <2>2. Keeps(Fence(b), AddPuts(Fence(b), new), K)
    BY <1>1, <1>3, <1>6, AddKeeps
  <2> QED
    BY <1>3, <2>1, <2>2, KeepsTwice
<1> QED
  BY <1>3, <1>4, <1>5, <1>6

LEMMA EffectOf ==
  ASSUME SInv, NEW r \in Proc, Step(r), NEW lost, NEW sent,
         remmem' = remmem, ghost' = ghost,
         flags' = [flags EXCEPT ![r] = flags[r] \ lost],
         \A x \in Proc : x # r => puts'[x] = puts[x],
         \A x \in Proc : \/ puts'[r][x] = puts[r][x] /\ sent[x] = {}
                         \/ puts'[r][x] = AddPuts(puts[r][x], sent[x])
                         \/ puts'[r][x] = AddPuts(Fence(puts[r][x]), sent[x])
  PROVE  Effect(r, lost, sent)
<1>1. prog' = prog /\ \A x \in Proc : x # r => Own(x)' = Own(x)
  <2>1. prog' = prog
    BY Zenon DEF Step, New, DR, SRAddr, SRPut, SRReturn, DN, Old, Loop, Return, Pass, SkipTile,
           SkipTo, callVars
  <2> QED
    BY <2>1, OthersStay
<1>2. \A x \in Proc : x # r => flags'[x] = flags[x]
  BY DEF SInv, SHMEMTypeOK
<1>3. \A f : f \in flags'[r] <=> f \in flags[r] /\ f \notin lost
  BY DEF SInv, SHMEMTypeOK
<1>4. ASSUME NEW x \in Proc
      PROVE  /\ \A y : y \in In(puts'[r][x]) <=> y \in In(puts[r][x]) \/ y \in sent[x]
             /\ \A K : K \cap sent[x] = {} => Keeps(puts[r][x], puts'[r][x], K)
  <2>1. puts[r][x] \in Seq(SUBSET PutSet)
    BY DEF SInv, SHMEMTypeOK
  <2>2. CASE puts'[r][x] = puts[r][x] /\ sent[x] = {}
    BY <2>2, SameKeeps
  <2>3. CASE puts'[r][x] = AddPuts(puts[r][x], sent[x])
    <3>1. /\ \A y : y \in In(AddPuts(puts[r][x], sent[x])) <=> y \in In(puts[r][x]) \/ y \in sent[x]
          /\ \A K : K \cap sent[x] = {} => Keeps(puts[r][x], AddPuts(puts[r][x], sent[x]), K)
      BY <2>1, AddEffect
    <3> QED
      BY <2>3, <3>1
  <2>4. CASE puts'[r][x] = AddPuts(Fence(puts[r][x]), sent[x])
    <3>1. /\ \A y : y \in In(AddPuts(Fence(puts[r][x]), sent[x]))
                      <=> y \in In(puts[r][x]) \/ y \in sent[x]
          /\ \A K : K \cap sent[x] = {} =>
               Keeps(puts[r][x], AddPuts(Fence(puts[r][x]), sent[x]), K)
      BY <2>1, AddEffect
    <3> QED
      BY <2>4, <3>1
  <2> QED
    BY <2>2, <2>3, <2>4
<1> QED
  BY <1>1, <1>2, <1>3, <1>4 DEF Effect

\* Which puts belong to links.
LEMMA PutKinds ==
  /\ UpPut \cap DownPut = {}
  /\ \A s, q, k, d : PutFlag(Flag("REMMEMWRITABLE", s, q, k), d) \notin UpPut \cup DownPut
  /\ \A a \in UpFlag : \A s, q, k, d : PutFlag(Flag(a, s, q, k), d) \notin DownPut
  /\ \A s, q, k, d : PutFlag(Flag("PUTDONE", s, q, k), d) \notin UpPut
  /\ \A s, k, b : PutBlock(s, k, b) \notin DownPut
  /\ \A b, v : PutData(b, v) \notin UpPut
<1>1. \A a, s, q, k, d : /\ PutFlag(Flag(a, s, q, k), d).kind = "flag"
                         /\ PutFlag(Flag(a, s, q, k), d).flag.name = a
  BY FlagIs, PutIs
<1>2. UpPut \cap DownPut = {}
  BY DEF UpPut, DownPut, UpFlag
<1>3. /\ \A s, q, k, d : PutFlag(Flag("REMMEMWRITABLE", s, q, k), d) \notin UpPut \cup DownPut
      /\ \A s, q, k, d : PutFlag(Flag("PUTDONE", s, q, k), d) \notin UpPut
  BY <1>1 DEF UpPut, DownPut, UpFlag
<1>4. ASSUME NEW a \in UpFlag, NEW s, NEW q, NEW k, NEW d
      PROVE  PutFlag(Flag(a, s, q, k), d) \notin DownPut
  BY <1>1 DEF DownPut, UpFlag
<1>5. /\ \A s, k, b : PutBlock(s, k, b) \notin DownPut
      /\ \A b, v : PutData(b, v) \notin UpPut
  BY PutIs DEF UpPut, DownPut
<1> QED
  BY <1>2, <1>3, <1>4, <1>5

\* A step of r that concerns no link.
LEMMA QuietLinks ==
  ASSUME LinkInv, NEW r \in Proc, NEW lost, NEW sent, Effect(r, lost, sent),
         lost = {}, \A x \in Proc : sent[x] \cap (UpPut \cup DownPut) = {},
         \A q \in Proc, c \in Cid : Listens(q, r, c) => SendView(r, q, c, inst[q][c].gen),
         \A p \in Proc, c \in Cid : Listens(r, p, c) => RecvView(r, c),
         \A p \in Proc, c \in Cid : ~Listens(r, p, c) => ~Listens(r, p, c)'
  PROVE  /\ \A q, p \in Proc : NoStray(q, p)'
         /\ \A q, p \in Proc, c \in Cid : Listens(q, p, c)' => Flow(q, p, c)'
<1>1. CallsInv /\ SHMEMTypeOK /\ SInv /\ prog' = prog
  BY DEF LinkInv, LockInv, SInv, Effect
<1>2. \A q, p \in Proc, c \in Cid : Listens(q, p, c) =>
        /\ UpPuts(q, p, c) \subseteq UpPut /\ DownPuts(q, p, c) \subseteq DownPut
        /\ q # p
  <2> SUFFICES ASSUME NEW q \in Proc, NEW p \in Proc, NEW c \in Cid, Listens(q, p, c)
               PROVE  /\ UpPuts(q, p, c) \subseteq UpPut /\ DownPuts(q, p, c) \subseteq DownPut
                      /\ q # p
    OBVIOUS
  <2>1. InUse(q, c) /\ Links(q, p, c) # {}
    BY DEF Listens
  <2>2. UpPuts(q, p, c) \subseteq UpPut /\ DownPuts(q, p, c) \subseteq DownPut
    BY <1>1, <2>1, LinkParts
  <2>3. inst[q][c].gen \in 1..Len(prog.dirs[c])
    BY <1>1, <2>1, LinkTyped
  <2> QED
    BY <1>1, <2>1, <2>2, <2>3, NoLoop DEF Links
<1>3. \A q, p \in Proc : NoStray(q, p)'
  <2>1. \A p \in Proc, c \in Cid : Listens(r, p, c) => Listens(r, p, c)' /\ ObjectsStay(r, p, c)
    BY <1>1, ViewDues
  <2>2. \A q, p \in Proc : NoStray(q, p)
    BY DEF LinkInv
  <2>3. \A x \in Proc : sent[x] \cap UpPut = {} /\ sent[x] \cap DownPut = {}
    OBVIOUS
  <2> QED
    BY <2>1, <2>2, <2>3, EffectStray
<1>4. ASSUME NEW q \in Proc, NEW p \in Proc, NEW c \in Cid, Listens(q, p, c)'
      PROVE  Flow(q, p, c)'
  <2>1. Listens(q, p, c) => Flow(q, p, c) /\ q # p
    BY <1>2 DEF LinkInv
  <2>2. CASE q # r /\ p # r
    BY <1>4, <2>1, <2>2, EffectThird
  <2>3. CASE p = r /\ q # r
    <3>1. Listens(q, r, c) => lost \cap UpFlags(q, r, c) = {} /\ sent[q] \cap DownPuts(q, r, c) = {}
      BY <1>2
    <3> QED
      BY <1>4, <2>1, <2>3, <3>1, EffectSends
  <2>4. CASE q = r
    <3>1. Listens(r, p, c)
      BY <1>4, <2>4
    <3>2. DoneFlag(r, p, c) \notin lost /\ sent[p] \cap UpPuts(r, p, c) = {} /\ RecvView(r, c)
      BY <1>2, <3>1
    <3> QED
      BY <1>4, <2>1, <2>4, <3>1, <3>2, EffectReceives
  <2> QED
    BY <2>2, <2>3, <2>4
<1> QED
  BY <1>3, <1>4
-----------------------------------------------------------------------------
\* The addresses p has, when it makes no step, ...
LEMMA AddrOwn ==
  ASSUME NEW p \in Proc, DirsOK(p), AddrOK(p), Own(p)' = Own(p)
  PROVE  DirsOK(p)' /\ AddrOK(p)'
<1>1. /\ inst'[p] = inst[p] /\ prog' = prog /\ step'[p] = step[p]
      /\ \A c \in Cid : SendInfo(p, c)' = SendInfo(p, c) /\ RecvInfo(p, c)' = RecvInfo(p, c)
      /\ \A o, c : May(p, o, c)' <=> May(p, o, c)
  BY OwnViews DEF Own
<1>2. \A c \in Cid : (InUse(p, c)' <=> InUse(p, c)) /\ Out(p, c)' = Out(p, c)
  BY Zenon, <1>1 DEF InUse, Out
<1>3. DirsOK(p)'
  BY <1>1, <1>2 DEF DirsOK
<1>4. AddrOK(p)'
  <2>1. \A c \in Cid : \A d : Here(p, c, d)' = Here(p, c, d)
    BY <1>1 DEF Here
  <2> QED
    BY <1>1, <1>2, <2>1 DEF AddrOK
<1> QED
  BY <1>3, <1>4

\* A processor keeps the ends of its links while it sends.
SameEnds(p, e) ==
  /\ DOMAIN SendInfo(p, e)' = DOMAIN SendInfo(p, e)
  /\ \A k \in DOMAIN SendInfo(p, e) :
       /\ SendInfo(p, e)'[k].proc = SendInfo(p, e)[k].proc
       /\ SendInfo(p, e)'[k].area = SendInfo(p, e)[k].area

LEMMA DirsKeep ==
  ASSUME NEW p \in Proc, DirsOK(p), prog' = prog,
         \A e \in Cid : InUse(p, e)' =>
           /\ InUse(p, e) /\ inst'[p][e].gen = inst[p][e].gen
           /\ RecvInfo(p, e)' = RecvInfo(p, e)
           /\ SameEnds(p, e)
  PROVE  DirsOK(p)'
<1> SUFFICES ASSUME NEW e \in Cid, InUse(p, e)'
      PROVE (LET ds == prog.dirs[e][inst[p][e].gen] IN
            /\ DOMAIN SendInfo(p, e) = SendDirs(p, ds)
            /\ DOMAIN RecvInfo(p, e) = RecvDirs(p, ds)
            /\ \A k \in SendDirs(p, ds) :
                 SendInfo(p, e)[k].proc = ds[k][p] /\ SendInfo(p, e)[k].area = e
            /\ \A k \in RecvDirs(p, ds) : RecvInfo(p, e)[k].proc = Source(p, ds, k))'
  BY DEF DirsOK
<1> DEFINE ds == prog.dirs[e][inst[p][e].gen]
<1>1. InUse(p, e) /\ RecvInfo(p, e)' = RecvInfo(p, e) /\ SameEnds(p, e)
  OBVIOUS
<1>2. /\ DOMAIN SendInfo(p, e) = SendDirs(p, ds)
      /\ DOMAIN RecvInfo(p, e) = RecvDirs(p, ds)
      /\ \A k \in SendDirs(p, ds) :
           SendInfo(p, e)[k].proc = ds[k][p] /\ SendInfo(p, e)[k].area = e
      /\ \A k \in RecvDirs(p, ds) : RecvInfo(p, e)[k].proc = Source(p, ds, k)
  BY <1>1 DEF DirsOK
<1>3. ds' = ds
  OBVIOUS
<1> HIDE DEF ds
<1>4. /\ SendDirs(p, ds)' = SendDirs(p, ds) /\ RecvDirs(p, ds)' = RecvDirs(p, ds)
      /\ \A k : Source(p, ds, k)' = Source(p, ds, k)
  BY <1>3 DEF SendDirs, RecvDirs, Source
<1>5. (/\ DOMAIN SendInfo(p, e) = SendDirs(p, ds)
       /\ DOMAIN RecvInfo(p, e) = RecvDirs(p, ds)
       /\ \A k \in SendDirs(p, ds) :
            SendInfo(p, e)[k].proc = ds[k][p] /\ SendInfo(p, e)[k].area = e
       /\ \A k \in RecvDirs(p, ds) : RecvInfo(p, e)[k].proc = Source(p, ds, k))'
  BY <1>1, <1>2, <1>3, <1>4 DEF SameEnds
<1> QED
  BY Zenon, <1>5 DEF ds

\* ... and when it is not in SR.
LEMMA AddrQuiet ==
  ASSUME SInv, NEW p \in Proc, DirsOK(p), AddrOK(p), prog' = prog,
         UNCHANGED <<handle, commbank, step>>, \A e \in Cid : ~May(p, "SR", e),
         \A e \in Cid : InUse(p, e)' =>
           /\ InUse(p, e) /\ inst'[p][e].gen = inst[p][e].gen
           /\ inst[p][e].done \subseteq inst'[p][e].done
  PROVE  DirsOK(p)' /\ AddrOK(p)'
<1>1. step[p] = {} /\ step'[p] = {}
  BY NotSending DEF SInv
<1>2. \A c \in Cid : /\ SendInfo(p, c)' = SendInfo(p, c)
                     /\ RecvInfo(p, c)' = RecvInfo(p, c) /\ Out(p, c)' = {}
  BY Zenon, <1>1 DEF SendInfo, RecvInfo, Out
<1>3. DirsOK(p)'
  BY <1>2 DEF DirsOK
<1>4. AddrOK(p)'
  <2>1. ASSUME NEW c \in Cid, InUse(p, c)', NEW d \in DOMAIN SendInfo(p, c)
        PROVE  /\ SendInfo(p, c)[d].remmeminfo \in {NoBlock, Here(p, c, d)'}
               /\ SendInfo(p, c)[d].remmeminfo # NoBlock => "SR" \in inst'[p][c].done
    <3>1. /\ InUse(p, c) /\ inst'[p][c].gen = inst[p][c].gen
          /\ inst[p][c].done \subseteq inst'[p][c].done
      BY <2>1
    <3>2. Here(p, c, d)' = Here(p, c, d)
      BY <3>1 DEF Here
    <3>3. /\ SendInfo(p, c)[d].remmeminfo \in {NoBlock, Here(p, c, d)}
          /\ SendInfo(p, c)[d].remmeminfo # NoBlock => "SR" \in inst[p][c].done
      BY <2>1, <3>1 DEF AddrOK
    <3> QED
      BY <3>1, <3>2, <3>3
  <2> QED
    BY <1>2, <2>1 DEF AddrOK
<1> QED
  BY <1>3, <1>4

\* OLD raises flags that are of no concern to the links.
LEMMA LinkOld ==
  ASSUME LinkInv, NEW p \in Proc, Old(p)
  PROVE  LinksOK'
<1>0. SInv /\ CallsInv /\ SHMEMTypeOK
  BY DEF LinkInv, LockInv, SInv
<1>1. PICK c \in Cid :
  LET s == handle[p][c]
      sends == SendInfo(p, c)
      writable(q) == {PutFlag(Flag("REMMEMWRITABLE", s, p, 0), d) : d \in With(sends, q)}
  IN /\ Return(p, "OLD", c)
     /\ puts' = [puts EXCEPT ![p] = [q \in Proc |-> AddPuts(@[q], writable(q))]]
     /\ UNCHANGED <<commbank, handle, flags, remmem, step, ghost>>
  BY Zenon DEF Old
<1> DEFINE writable(q) == {PutFlag(Flag("REMMEMWRITABLE", handle[p][c], p, 0), d) :
                             d \in With(SendInfo(p, c), q)}
           sent == [q \in Proc |-> writable(q)]
           o == "OLD"
<1>2. o \in Op /\ o # "NEW" /\ o # "SR" /\ o = "OLD" /\ o # "DR" /\ o # "DN" /\ Return(p, o, c)
  BY <1>1 DEF Op
<1>3. puts' = [puts EXCEPT ![p] = [q \in Proc |-> AddPuts(puts[p][q], writable(q))]]
      /\ UNCHANGED <<commbank, handle, flags, remmem, step, ghost>>
  BY <1>1
<1>4. \A x \in Proc : sent[x] \cap (UpPut \cup DownPut) = {}
  BY PutKinds
<1> HIDE DEF o, writable
<1>5. Effect(p, {}, sent)
  <2>1. \A x \in Proc : x # p => puts'[x] = puts[x]
    BY <1>0, <1>3 DEF SHMEMTypeOK
  <2>2. \A x \in Proc : puts'[p][x] = AddPuts(puts[p][x], sent[x])
    BY <1>0, <1>3 DEF SHMEMTypeOK
  <2>3. flags' = [flags EXCEPT ![p] = flags[p] \ {}]
    BY <1>0, <1>3 DEF SHMEMTypeOK
  <2>4. Step(p)
    BY DEF Step
  <2> HIDE DEF sent
  <2> QED
    BY <1>0, <1>3, <2>1, <2>2, <2>3, <2>4, EffectOf
<1> HIDE DEF sent
<1>6. /\ InUse(p, c) /\ ~InUse(p, c)' /\ prog' = prog
      /\ \A e \in Cid : ~May(p, "SR", e)
      /\ \A e \in Cid : e # c => inst'[p][e] = inst[p][e]
  BY <1>0, <1>2, ReturnDone DEF May
<1>7. \A q \in Proc, e \in Cid : \A g : SendView(p, q, e, g)
  BY <1>0, <1>1, <1>3, CallSends
<1>8. /\ \A e \in Cid : e # c => RecvView(p, e)
      /\ \A q \in Proc : ~Listens(p, q, c)
      /\ \A e \in Cid : inst'[p][e].gen = inst[p][e].gen
      /\ \A e \in Cid : \A g : /\ Past(p, e, g, "DR")' <=> Past(p, e, g, "DR")
                               /\ Past(p, e, g, "DN")' <=> Past(p, e, g, "DN")
  BY <1>0, <1>2, <1>3, CallReceives
<1>9. \A q \in Proc, e \in Cid : ~Listens(p, q, e) => ~Listens(p, q, e)'
  <2>1. \A q \in Proc : ~Listens(p, q, c)'
    BY <1>6 DEF Listens
  <2>2. \A q \in Proc, e \in Cid : e # c => (Listens(p, q, e)' <=> Listens(p, q, e))
    BY <1>6, <1>8, ViewDues
  <2> QED
    BY <2>1, <2>2
<1>10. /\ \A q, x \in Proc : NoStray(q, x)'
       /\ \A q, x \in Proc, e \in Cid : Listens(q, x, e)' => Flow(q, x, e)'
  BY <1>4, <1>5, <1>7, <1>8, <1>9, QuietLinks
<1>11. \A q, x \in Proc : NotAhead(q, x)'
  <2>1. \A x \in Proc : x # p => Own(x)' = Own(x)
    BY <1>5 DEF Effect
  <2> QED
    BY <1>0, <1>6, <1>7, <1>8, <2>1, AheadAll DEF SendView, LinkInv
<1>12. \A x \in Proc : DirsOK(x)' /\ AddrOK(x)'
  <2>1. \A x \in Proc : x # p => DirsOK(x)' /\ AddrOK(x)'
    BY <1>5, AddrOwn DEF Effect, LinkInv
  <2>2. \A e \in Cid : InUse(p, e)' =>
          /\ InUse(p, e) /\ inst'[p][e].gen = inst[p][e].gen
          /\ inst[p][e].done \subseteq inst'[p][e].done
    BY <1>6 DEF InUse
  <2>3. DirsOK(p)' /\ AddrOK(p)'
    BY <1>0, <1>3, <1>6, <2>2, AddrQuiet DEF LinkInv
  <2> QED
    BY <2>1, <2>3
<1> QED
  BY <1>10, <1>11, <1>12 DEF LinksOK

\* A processor that passes a loop, or leaves out a tile, has no link there.
LEMMA LinkLoop ==
  ASSUME LinkInv, NEW p \in Proc, Loop(p)
  PROVE  LinksOK'
<1>0. SInv /\ CallsInv /\ SHMEMTypeOK
  BY DEF LinkInv, LockInv, SInv
<1>1. /\ SkipTile(p) \/ \E o \in LoopOp : Pass(p, o)
      /\ UNCHANGED <<descVars, flags, remmem, puts, step, ghost>>
  BY DEF Loop
<1>2. \A e \in Cid : ~May(p, "SR", e)
  <2>1. AtOp(p, "NEW") \/ \E o \in LoopOp : AtOp(p, o)
    BY <1>1 DEF SkipTile, SkipTo, Pass
  <2> QED
    BY <2>1 DEF AtOp, At, May, LoopOp
<1>3. /\ prog' = prog
      /\ \A e \in Cid :
           \/ inst'[p][e] = inst[p][e]
           \/ /\ inst[p][e].done = {} /\ inst'[p][e].done = {}
              /\ inst'[p][e].gen >= inst[p][e].gen
              /\ \A g \in (inst[p][e].gen + 1)..inst'[p][e].gen :
                   /\ SendDirs(p, prog.dirs[e][g]) = {}
                   /\ RecvDirs(p, prog.dirs[e][g]) = {}
  BY <1>0, <1>1, LoopInst
<1>4. ASSUME NEW e \in Cid
      PROVE  /\ InUse(p, e)' <=> InUse(p, e)
             /\ InUse(p, e) => inst'[p][e] = inst[p][e]
             /\ inst'[p][e].done = inst[p][e].done
             /\ inst'[p][e].gen \in Nat /\ inst[p][e].gen \in Nat
             /\ inst'[p][e].gen >= inst[p][e].gen
  <2>1. CallsTypeOK'
    BY <1>0, <1>1, SkipStep, PassStep
  <2>2. inst'[p][e].gen \in Nat /\ inst[p][e].gen \in Nat
    BY <1>0, <2>1 DEF CallsInv, CallsTypeOK
  <2>3. CASE inst'[p][e] = inst[p][e]
    BY <2>2, <2>3 DEF InUse
  <2>4. CASE inst'[p][e] # inst[p][e]
    BY <1>3, <2>2, <2>4 DEF InUse
  <2> QED
    BY <2>3, <2>4
<1>5. ASSUME NEW q \in Proc, NEW e \in Cid, NEW g \in 1..Len(prog.dirs[e]),
             Edges(p, q, e, g) # {} \/ Edges(q, p, e, g) # {}
      PROVE  inst'[p][e] = inst[p][e] \/
             /\ inst'[p][e].gen >= g <=> inst[p][e].gen >= g
             /\ inst[p][e].done = {} /\ inst'[p][e].done = {}
  <2>1. PICK d \in DOMAIN prog.dirs[e][g] :
          prog.dirs[e][g][d][p] = q \/ prog.dirs[e][g][d][q] = p
    BY <1>5 DEF Edges
  <2>2. SendDirs(p, prog.dirs[e][g]) # {} \/ RecvDirs(p, prog.dirs[e][g]) # {}
    BY <2>1, NoProcAssumption DEF SendDirs, RecvDirs
  <2>3. CASE inst'[p][e] # inst[p][e]
    <3>1. ~(g \in (inst[p][e].gen + 1)..inst'[p][e].gen)
      BY <1>3, <2>2, <2>3
    <3>2. g \in Nat /\ inst'[p][e].gen \in Nat /\ inst[p][e].gen \in Nat
          /\ inst'[p][e].gen >= inst[p][e].gen
      BY <1>4
    <3>3. inst'[p][e].gen >= g <=> inst[p][e].gen >= g
      BY <3>1, <3>2
    <3> QED
      BY <1>3, <2>3, <3>3
  <2> QED
    BY <2>3
<1>6. /\ \A e : SendInfo(p, e)' = SendInfo(p, e)
      /\ \A e : Out(p, e)' = {} /\ Out(p, e) = {}
  <2>1. step[p] = {} /\ step'[p] = {}
    BY <1>0, <1>1, <1>2, NotSending DEF SInv
  <2> QED
    BY <1>1, <2>1 DEF SendInfo, Out, descVars
<1>7. ASSUME NEW q \in Proc, NEW e \in Cid, NEW g \in 1..Len(prog.dirs[e]),
             Edges(p, q, e, g) # {} \/ Edges(q, p, e, g) # {}
      PROVE  /\ SendView(p, q, e, g)
             /\ \A o : Past(p, e, g, o)' <=> Past(p, e, g, o)
             /\ inst'[p][e].gen >= g <=> inst[p][e].gen >= g
  <2>1. Edges(p, q, e, g)' = Edges(p, q, e, g)
    BY <1>3 DEF Edges
  <2>2. CASE inst'[p][e] = inst[p][e]
    BY <1>6, <2>1, <2>2 DEF SendView, Past, Over, Took, Sent, InUse
  <2>3. CASE /\ inst'[p][e].gen >= g <=> inst[p][e].gen >= g
             /\ inst[p][e].done = {} /\ inst'[p][e].done = {}
    <3>1. g \in Nat /\ inst'[p][e].gen \in Nat /\ inst[p][e].gen \in Nat
      BY <1>4
    <3>2. /\ Over(p, e, g) <=> inst[p][e].gen >= g
          /\ Over(p, e, g)' <=> inst'[p][e].gen >= g
          /\ \A o : Past(p, e, g, o) <=> inst[p][e].gen >= g
          /\ \A o : Past(p, e, g, o)' <=> inst'[p][e].gen >= g
      BY <2>3, <3>1 DEF Over, Past, InUse
    <3>3. ~InUse(p, e) /\ ~InUse(p, e)'
      BY <2>3 DEF InUse
    <3> QED
      BY <1>6, <2>1, <2>3, <3>2, <3>3 DEF SendView, Took, Sent
  <2> QED
    BY <1>5, <1>7, <2>2, <2>3
<1>8. /\ \A q \in Proc, e \in Cid : Listens(q, p, e) => SendView(p, q, e, inst[q][e].gen)
      /\ \A q \in Proc, e \in Cid : Listens(p, q, e) => RecvView(p, e)
      /\ \A q \in Proc, e \in Cid : ~Listens(p, q, e) => ~Listens(p, q, e)'
  <2>1. ASSUME NEW q \in Proc, NEW e \in Cid, Listens(q, p, e)
        PROVE  SendView(p, q, e, inst[q][e].gen)
    <3>1. Edges(p, q, e, inst[q][e].gen) # {} /\ InUse(q, e)
      BY <2>1 DEF Listens, Links
    <3>2. inst[q][e].gen \in 1..Len(prog.dirs[e])
      BY <1>0, <3>1, LinkTyped
    <3> QED
      BY <1>7, <3>1, <3>2
  <2>2. ASSUME NEW e \in Cid, InUse(p, e) PROVE RecvView(p, e)
    BY <1>1, <1>4, <2>2 DEF RecvView, descVars, InUse
  <2>3. ASSUME NEW q \in Proc, NEW e \in Cid, ~Listens(p, q, e) PROVE ~Listens(p, q, e)'
    <3>1. CASE InUse(p, e)
      BY <1>3, <2>2, <2>3, <3>1, ViewDues
    <3>2. CASE ~InUse(p, e)
      BY <1>4, <3>2 DEF Listens
    <3> QED
      BY <3>1, <3>2
  <2> QED
    BY <2>1, <2>2, <2>3 DEF Listens
<1> DEFINE sent == [x \in Proc |-> {}]
<1>9. Effect(p, {}, sent) /\ \A x \in Proc : sent[x] = {}
  <2>1. Step(p)
    BY DEF Step
  <2>2. flags' = [flags EXCEPT ![p] = flags[p] \ {}]
    BY <1>0, <1>1 DEF SHMEMTypeOK
  <2>3. \A x \in Proc : sent[x] = {}
    OBVIOUS
  <2> HIDE DEF sent
  <2> QED
    BY <1>0, <1>1, <2>1, <2>2, <2>3, EffectOf
<1> HIDE DEF sent
<1>10. /\ \A q, x \in Proc : NoStray(q, x)'
       /\ \A q, x \in Proc, e \in Cid : Listens(q, x, e)' => Flow(q, x, e)'
  BY <1>8, <1>9, QuietLinks
<1>11. \A q, x \in Proc : NotAhead(q, x)'
  <2>1. \A x \in Proc : x # p => Own(x)' = Own(x)
    BY <1>9 DEF Effect
  <2> QED
    BY <1>0, <1>3, <1>7, <2>1, AheadAll DEF SendView, LinkInv
<1>12. \A x \in Proc : DirsOK(x)' /\ AddrOK(x)'
  <2>1. \A x \in Proc : x # p => DirsOK(x)' /\ AddrOK(x)'
    BY <1>9, AddrOwn DEF Effect, LinkInv
  <2>2. DirsOK(p)' /\ AddrOK(p)'
    <3>1. \A e \in Cid : InUse(p, e)' =>
            /\ InUse(p, e) /\ inst'[p][e].gen = inst[p][e].gen
            /\ inst[p][e].done \subseteq inst'[p][e].done
      BY <1>4
    <3> QED
      BY <1>0, <1>1, <1>2, <1>3, <3>1, AddrQuiet DEF LinkInv, descVars
  <2> QED
    BY <2>1, <2>2
<1> QED
  BY <1>10, <1>11, <1>12 DEF LinksOK
-----------------------------------------------------------------------------
\* What DN has waited for is over: nothing of the link is left.
LEMMA LinkSilent ==
  ASSUME SInv, NEW q \in Proc, NEW p \in Proc, NEW c \in Cid, Listens(q, p, c),
         Flow(q, p, c), Opened(q, c), DoneFlag(q, p, c) \in flags[q]
  PROVE  Silent(q, p, c) /\ Over(p, c, inst[q][c].gen)
<1> DEFINE g == inst[q][c].gen
<1>1. Over(p, c, g)
  BY DEF Flow, DoneOK, DoneDue
<1>2. ~ReadyDue(q, p, c) /\ \A d : ~DstDue(q, p, c, d)
  BY <1>1 DEF ReadyDue, DstDue, Took, Sent
<1>3. PutFlag(ReadyFlag(q, c), 0) \notin In(puts[q][p]) /\ ReadyFlag(q, c) \notin flags[p]
  BY <1>2 DEF Flow, ReadyOK, Signal
<1>4. ASSUME NEW d \in Links(q, p, c)
      PROVE  /\ PutFlag(DstFlag(q, p, c, d), d) \notin In(puts[q][p])
             /\ DstFlag(q, p, c, d) \notin flags[p]
             /\ BlockPut(q, p, c, d) \notin In(puts[q][p])
             /\ DataPut(q, p, c, d) \notin In(puts[p][q])
  BY <1>2 DEF Flow, DstOK, BlockOK, DataOK, Signal
<1>5. PutFlag(DoneFlag(q, p, c), 0) \notin In(puts[p][q])
  <2>1. PutFlag(DoneFlag(q, p, c), 0).flag = DoneFlag(q, p, c)
    BY PutIs
  <2> QED
    BY <2>1 DEF Flow, DoneOK, Signal
<1>6. UpFlags(q, p, c) \cap flags[p] = {}
  BY <1>3, <1>4 DEF UpFlags
<1>7. UpPuts(q, p, c) \cap In(puts[q][p]) = {}
  BY <1>3, <1>4 DEF UpPuts
<1>8. DownPuts(q, p, c) \cap In(puts[p][q]) = {}
  BY <1>4, <1>5 DEF DownPuts
<1> QED
  BY <1>1, <1>6, <1>7, <1>8 DEF Silent

LEMMA LinkDN ==
  ASSUME LinkInv, NEW q \in Proc, DN(q)
  PROVE  LinksOK'
<1>0. SInv /\ CallsInv /\ SHMEMTypeOK
  BY DEF LinkInv, LockInv, SInv
<1>1. PICK c \in Cid :
        /\ Return(q, "DN", c)
        /\ \A d \in DOMAIN RecvInfo(q, c) :
             Flag("PUTDONE", handle[q][c], RecvInfo(q, c)[d].proc, 0) \in flags[q]
        /\ UNCHANGED <<descVars, flags, remmem, puts, step, ghost>>
  BY DEF DN
<1> DEFINE o == "DN"
           g == inst[q][c].gen
<1>2. o \in Op /\ o # "NEW" /\ o # "SR" /\ o # "OLD" /\ o # "DR" /\ o = "DN" /\ Return(q, o, c)
  BY <1>1 DEF Op
<1> HIDE DEF o
<1>3. UNCHANGED <<handle, commbank, step>>
  BY <1>1 DEF descVars
<1>4. /\ InUse(q, c) /\ InUse(q, c)' /\ prog' = prog
      /\ \A e \in Cid : ~May(q, "SR", e)
      /\ \A e \in Cid : e # c => inst'[q][e] = inst[q][e]
  BY <1>0, <1>2, ReturnDone DEF May
<1>5. /\ o \notin inst[q][c].done /\ Required[o] \subseteq inst[q][c].done
      /\ inst'[q][c].done = inst[q][c].done \cup {o}
  <2>1. /\ o \notin inst[q][c].done /\ Required[o] \subseteq inst[q][c].done
        /\ inst'[q][c] = [done |-> DoneAfter(inst[q][c].done, o), gen |-> Gen(q, c)]
    BY <1>0, <1>2, ReturnStep
  <2> QED
    BY <1>2, <2>1 DEF DoneAfter
<1>6. Opened(q, c) /\ "DN" \notin inst[q][c].done /\ "DN" \in inst'[q][c].done
  BY <1>2, <1>5 DEF Opened, Required
<1>7. \A x \in Proc, e \in Cid : \A h : SendView(q, x, e, h)
  BY <1>0, <1>1, <1>3, CallSends
<1>8. /\ \A e \in Cid : e # c => RecvView(q, e)
      /\ \A e \in Cid : inst'[q][e].gen = inst[q][e].gen
      /\ \A e \in Cid : \A h :
           /\ Past(q, e, h, "DR")' <=> Past(q, e, h, "DR")
           /\ Past(q, e, h, "DN")' <=> Past(q, e, h, "DN") \/ (e = c /\ h = g)
  BY <1>0, <1>2, <1>3, CallReceives
<1>9. ASSUME NEW p \in Proc, Links(q, p, c) # {}
      PROVE  Silent(q, p, c) /\ Over(p, c, g)
  <2>1. PICK d : d \in Links(q, p, c)
    BY <1>9
  <2>2. d \in DOMAIN RecvInfo(q, c) /\ RecvInfo(q, c)[d].proc = p
    <3>1. d \in With(RecvInfo(q, c), p)
      BY <1>0, <1>4, <2>1, InfoLinks DEF LinkInv
    <3> QED
      BY <3>1 DEF With
  <2>3. DoneFlag(q, p, c) \in flags[q]
    BY <1>1, <2>2 DEF DoneFlag
  <2>4. Listens(q, p, c)
    BY <1>4, <1>6, <1>9 DEF Listens
  <2>5. Flow(q, p, c)
    BY <2>4 DEF LinkInv
  <2> QED
    BY <1>0, <1>6, <2>3, <2>4, <2>5, LinkSilent
<1> DEFINE sent == [x \in Proc |-> {}]
<1>10. Effect(q, {}, sent) /\ \A x \in Proc : sent[x] = {}
  <2>1. Step(q)
    BY DEF Step
  <2>2. flags' = [flags EXCEPT ![q] = flags[q] \ {}]
    BY <1>0, <1>1 DEF SHMEMTypeOK
  <2>3. \A x \in Proc : sent[x] = {}
    OBVIOUS
  <2> HIDE DEF sent
  <2> QED
    BY <1>0, <1>1, <2>1, <2>2, <2>3, EffectOf
<1> HIDE DEF sent
<1>11. \A e \in Cid : e # c => \A p \in Proc :
         ObjectsStay(q, p, e) /\ (Listens(q, p, e)' <=> Listens(q, p, e))
  BY <1>4, <1>8, ViewDues
<1>12. \A a, p \in Proc : NoStray(a, p)'
  <2>1. \A p \in Proc, e \in Cid : Listens(q, p, e) =>
          Silent(q, p, e) \/ (Listens(q, p, e)' /\ ObjectsStay(q, p, e))
    BY <1>9, <1>11 DEF Listens
  <2>2. \A a, p \in Proc : NoStray(a, p)
    BY DEF LinkInv
  <2>3. \A x \in Proc : sent[x] \cap UpPut = {} /\ sent[x] \cap DownPut = {}
    BY <1>10
  <2> QED
    BY <1>10, <2>1, <2>2, <2>3, EffectStray
<1>13. ASSUME NEW a \in Proc, NEW p \in Proc, NEW e \in Cid, Listens(a, p, e)'
       PROVE  Flow(a, p, e)'
  <2>1. Listens(a, p, e) => Flow(a, p, e)
    BY DEF LinkInv
  <2>2. CASE a # q /\ p # q
    BY <1>10, <1>13, <2>1, <2>2, EffectThird
  <2>3. CASE p = q /\ a # q
    <3>1. {} \cap UpFlags(a, p, e) = {} /\ sent[a] \cap DownPuts(a, p, e) = {}
      BY <1>10
    <3> QED
      BY <1>7, <1>10, <1>13, <2>1, <2>3, <3>1, EffectSends
  <2>4. CASE a = q
    <3>1. e # c
      BY <1>6, <1>13, <2>4 DEF Listens
    <3>2. RecvView(q, e) /\ Listens(q, p, e)
      BY <1>8, <1>11, <1>13, <2>4, <3>1
    <3>3. p # q
      <4>1. inst[q][e].gen \in 1..Len(prog.dirs[e])
        BY <1>0, <3>2, LinkTyped DEF Listens
      <4> QED
        BY <1>0, <3>2, <4>1, NoLoop DEF Listens, Links
    <3>4. sent[p] \cap UpPuts(q, p, e) = {}
      BY <1>10
    <3> QED
      BY <1>10, <1>13, <2>1, <2>4, <3>2, <3>3, <3>4, EffectReceives
  <2> QED
    BY <2>2, <2>3, <2>4
<1>14. \A a, p \in Proc : NotAhead(a, p)'
  <2>1. \A x \in Proc : x # q => Own(x)' = Own(x)
    BY <1>10 DEF Effect
  <2>2. ASSUME NEW p \in Proc, NEW e \in Cid, NEW h \in 1..Len(prog.dirs[e]),
               Edges(p, q, e, h) # {}
        PROVE  Past(q, e, h, "DN")' => Past(q, e, h, "DN") \/ Over(p, e, h)
    BY <1>8, <1>9, <2>2 DEF Links
  <2>3. \A a, p \in Proc : NotAhead(a, p)
    BY DEF LinkInv
  <2> QED
    BY <1>0, <1>4, <1>7, <1>8, <2>1, <2>2, <2>3, AheadAll DEF SendView
<1>15. \A x \in Proc : DirsOK(x)' /\ AddrOK(x)'
  <2>1. \A x \in Proc : x # q => DirsOK(x)' /\ AddrOK(x)'
    BY <1>10, AddrOwn DEF Effect, LinkInv
  <2>2. \A e \in Cid : InUse(q, e)' =>
          /\ InUse(q, e) /\ inst'[q][e].gen = inst[q][e].gen
          /\ inst[q][e].done \subseteq inst'[q][e].done
    <3> SUFFICES ASSUME NEW e \in Cid, InUse(q, e)'
                 PROVE  /\ InUse(q, e) /\ inst'[q][e].gen = inst[q][e].gen
                        /\ inst[q][e].done \subseteq inst'[q][e].done
      OBVIOUS
    <3>1. CASE e = c
      BY <1>4, <1>5, <1>8, <3>1
    <3>2. CASE e # c
      BY <1>4, <1>8, <3>2 DEF InUse
    <3> QED
      BY <3>1, <3>2
  <2>3. DirsOK(q)' /\ AddrOK(q)'
    BY <1>0, <1>3, <1>4, <2>2, AddrQuiet DEF LinkInv
  <2> QED
    BY <2>1, <2>3
<1> QED
  BY <1>12, <1>13, <1>14, <1>15 DEF LinksOK
-----------------------------------------------------------------------------
\* The DSTREADY flags that DR raises are those of the links.
LEMMA DstSame ==
  ASSUME SInv, NEW q \in Proc, DirsOK(q), NEW c \in Cid, InUse(q, c),
         \A e \in Cid : ~May(q, "SR", e), NEW p \in Proc, NEW d \in Links(q, p, c)
  PROVE  DstIndex(q, c, d) = Rank(Links(q, p, c), d)
<1> DEFINE L == Links(q, p, c)
           n == counters[q][handle[q][c]][p]
<1>0. CallsInv /\ SHMEMTypeOK
  BY DEF SInv
<1>1. With(RecvInfo(q, c), p) = L
  BY InfoLinks
<1>2. d \in DOMAIN RecvInfo(q, c) /\ RecvInfo(q, c)[d].proc = p
  BY <1>1 DEF With
<1>3. n.recvs = Cardinality(L) /\ n.count = 0
  BY <1>0, <1>1, NotSending DEF SInv
<1>4. Before(RecvInfo(q, c), d) = Rank(L, d)
  BY <1>1, <1>2 DEF Before, Rank
<1>5. L \in SUBSET (1..MaxDirs)
  BY <1>0, LinkTyped
<1>6. Rank(L, d) \in 0..MaxDirs /\ Rank(L, d) < Cardinality(L) /\ Cardinality(L) \in 0..MaxDirs
  BY <1>5, RankOrder
<1>7. DstIndex(q, c, d) = (n.count + Before(RecvInfo(q, c), d)) % n.recvs
  BY <1>2 DEF DstIndex
<1> DEFINE k == Rank(L, d)
           m == Cardinality(L)
<1>8. k \in Nat /\ m \in Nat /\ k < m
  BY <1>6, MaxDirsAssumption
<1> HIDE DEF k, m
<1>9. (0 + k) % m = k
  BY <1>8
<1> QED
  BY <1>3, <1>4, <1>7, <1>9 DEF k, m

\* The link that DR opens: p has done nothing yet.
LEMMA FlowOpens ==
  ASSUME SInv, NEW q \in Proc, NEW p \in Proc, p # q, NEW c \in Cid, Listens(q, p, c),
         NotAhead(q, p), Flow(q, p, c), "DR" \notin inst[q][c].done, Opened(q, c)',
         NEW lost, NEW sent, Effect(q, lost, sent), ObjectsStay(q, p, c),
         DoneFlag(q, p, c) \in lost,
         sent[p] = {PutFlag(DstFlag(q, p, c, d), d) : d \in Links(q, p, c)},
         puts'[q][p] = AddPuts(puts[q][p], sent[p])
  PROVE  Flow(q, p, c)'
<1> DEFINE g == inst[q][c].gen
           L == Links(q, p, c)
<1>0. CallsInv /\ SHMEMTypeOK /\ InUse(q, c) /\ L # {}
  BY DEF SInv, Listens
<1>1. g \in 1..Len(prog.dirs[c]) /\ L \in SUBSET (1..MaxDirs) /\ L = Edges(p, q, c, g) /\ g \in Nat
  BY <1>0, LinkTyped DEF Links
<1>2. \A d \in L : ~Sent(p, c, g, d)
  <2>1. ~Past(q, c, g, "DR")
    BY <1>0, <1>1 DEF Past
  <2> QED
    BY <1>0, <1>1, <2>1 DEF NotAhead
<1>3. ~Over(p, c, g) /\ ~Opened(q, c)
  BY <1>0, <1>2 DEF Sent, Opened
<1>4. SendView(p, q, c, g) /\ prog' = prog
  BY OwnViews DEF Effect
<1>5. /\ inst'[q][c].gen = g /\ L' = L
      /\ ~Over(p, c, g)' /\ \A d \in L : ~Sent(p, c, g, d)'
      /\ Took(p, q, c, g)' <=> Took(p, q, c, g)
  BY <1>1, <1>2, <1>3, <1>4 DEF SendView, ObjectsStay
<1> HIDE DEF g
<1>6. /\ ReadyDue(q, p, c)' <=> ReadyDue(q, p, c)
      /\ ~DoneDue(q, p, c)'
      /\ \A d \in L : DstDue(q, p, c, d)' /\ ~DataDue(q, p, c, d)' /\ ~DstDue(q, p, c, d)
  BY <1>3, <1>5 DEF g, ReadyDue, DoneDue, DstDue, DataDue
<1>7. /\ puts'[p] = puts[p] /\ flags'[p] = flags[p] /\ remmem' = remmem /\ ghost' = ghost
      /\ DoneFlag(q, p, c) \notin flags'[q]
  BY DEF Effect
<1>8. /\ ReadyFlag(q, c)' = ReadyFlag(q, c) /\ DoneFlag(q, p, c)' = DoneFlag(q, p, c)
      /\ \A d : /\ DstFlag(q, p, c, d)' = DstFlag(q, p, c, d)
                /\ DataPut(q, p, c, d)' = DataPut(q, p, c, d)
                /\ Here(q, c, d)' = Here(q, c, d)
  BY SameObjects
<1>9. ReadyOK(q, p, c)' /\ \A d \in L : BlockOK(q, p, c, d)'
  <2> DEFINE K == {PutFlag(ReadyFlag(q, c), 0)} \cup {BlockPut(q, p, c, d) : d \in L}
  <2>1. K \cap sent[p] = {}
    <3>1. \A d, e \in L : /\ PutFlag(ReadyFlag(q, c), 0) # PutFlag(DstFlag(q, p, c, d), d)
                          /\ BlockPut(q, p, c, e) # PutFlag(DstFlag(q, p, c, d), d)
      BY <1>0, ApartDirs, PutIs DEF BlockPut
    <3> QED
      BY <3>1
  <2>2. Keeps(puts[q][p], puts'[q][p], K)
    BY <2>1 DEF Effect
  <2>3. \A d \in L : Stored(q, p, c, d) => Stored(q, p, c, d)'
    BY <1>5, <1>7, <1>8 DEF Stored, ObjectsStay
  <2>4. PutFlag(ReadyFlag(q, c), 0) \in K /\ \A d \in L : BlockPut(q, p, c, d) \in K
    OBVIOUS
  <2> HIDE DEF K
  <2> QED
    BY <1>6, <1>7, <2>2, <2>3, <2>4, ReadyStays DEF Flow
<1>10. ASSUME NEW d \in L PROVE DstOK(q, p, c, d)'
  <2> DEFINE x == PutFlag(DstFlag(q, p, c, d), d)
  <2>1. DstOK(q, p, c, d) /\ x.flag = DstFlag(q, p, c, d)
    BY PutIs DEF Flow
  <2>2. x \notin In(puts[q][p]) /\ x.flag \notin flags[p]
    BY <1>6, <2>1 DEF DstOK, Signal
  <2>3. x \in sent[p]
    OBVIOUS
  <2>4. Once(puts'[q][p], x)
    <3> DEFINE P == PutSet \cup sent[p]
    <3>1. puts[q][p] \in Seq(SUBSET P) /\ sent[p] \in SUBSET P
      <4>1. puts[q][p] \in Seq(SUBSET PutSet)
        BY <1>0 DEF SHMEMTypeOK
      <4>2. PutSet \subseteq P
        OBVIOUS
      <4> HIDE DEF P
      <4>3. Len(puts[q][p]) \in Nat /\ \A i \in 1..Len(puts[q][p]) : puts[q][p][i] \in SUBSET P
        BY <4>1, <4>2
      <4>4. puts[q][p] \in [1..Len(puts[q][p]) -> SUBSET P]
        BY <4>1, <4>3
      <4> QED
        BY <4>3, <4>4 DEF P
    <3> HIDE DEF P, x
    <3>2. x \notin In(puts[q][p])
      BY <2>2
    <3>3. \A y : y \notin In(puts[q][p]) => Once(AddPuts(puts[q][p], sent[p]), y)
      BY <3>1, AddIn
    <3> QED
      BY <3>2, <3>3
  <2>5. x \in In(puts'[q][p])
    BY <2>3 DEF Effect
  <2> QED
    BY <1>6, <1>7, <1>8, <2>1, <2>2, <2>4, <2>5 DEF DstOK, Signal
<1>11. DoneOK(q, p, c)'
  <2>1. PutFlag(DoneFlag(q, p, c), 0) \notin In(puts[p][q])
    BY <1>3 DEF Flow, DoneOK
  <2> QED
    BY <1>6, <1>7, <1>8, <2>1 DEF DoneOK, Signal
<1>12. ASSUME NEW d \in L PROVE DataOK(q, p, c, d)'
  <2>1. ~DataDue(q, p, c, d)
    BY <1>3 DEF DataDue
  <2>2. DataPut(q, p, c, d) \notin In(puts[p][q])
    BY <2>1 DEF Flow, DataOK
  <2> QED
    BY <1>6, <1>7, <1>8, <2>2 DEF DataOK
<1> QED
  BY <1>5, <1>9, <1>10, <1>11, <1>12 DEF Flow

LEMMA LinkDR ==
  ASSUME LinkInv, NEW q \in Proc, DR(q)
  PROVE  LinksOK'
<1>0. SInv /\ CallsInv /\ SHMEMTypeOK /\ Owned(q)
  BY Zenon DEF LinkInv, LockInv, SInv, LocalOK
<1>1. PICK c \in Cid :
  LET s == handle[q][c]
      recvs == RecvInfo(q, c)
      dst(x) == {PutFlag(Flag("DSTREADY", s, q, DstIndex(q, c, d)), d) : d \in With(recvs, x)}
  IN /\ Return(q, "DR", c)
     /\ flags' = [flags EXCEPT ![q] = @ \ PutDones(q, c)]
     /\ puts' = [puts EXCEPT ![q] = [x \in Proc |-> AddPuts(@[x], dst(x))]]
     /\ UNCHANGED <<commbank, handle, remmem, step, ghost>>
  BY DEF DR
<1> DEFINE o == "DR"
           dst(x) == {PutFlag(Flag("DSTREADY", handle[q][c], q, DstIndex(q, c, d)), d) :
                        d \in With(RecvInfo(q, c), x)}
           sent == [x \in Proc |-> dst(x)]
           lost == PutDones(q, c)
<1>2. o \in Op /\ o # "NEW" /\ o # "SR" /\ o # "OLD" /\ o # "DN" /\ o = "DR" /\ Return(q, o, c)
  BY <1>1 DEF Op
<1>3. /\ flags' = [flags EXCEPT ![q] = flags[q] \ lost]
      /\ puts' = [puts EXCEPT ![q] = [x \in Proc |-> AddPuts(puts[q][x], sent[x])]]
      /\ UNCHANGED <<handle, commbank, remmem, step, ghost>>
  BY <1>1
<1> HIDE DEF o, lost, sent
<1>4. /\ InUse(q, c) /\ InUse(q, c)' /\ prog' = prog
      /\ \A e \in Cid : ~May(q, "SR", e)
      /\ \A e \in Cid : e # c => inst'[q][e] = inst[q][e]
  BY <1>0, <1>2, ReturnDone DEF May
<1>5. /\ "DR" \notin inst[q][c].done /\ "DN" \notin inst[q][c].done
      /\ inst'[q][c].done = inst[q][c].done \cup {"DR"}
  <2>1. /\ o \notin inst[q][c].done
        /\ inst'[q][c] = [done |-> DoneAfter(inst[q][c].done, o), gen |-> Gen(q, c)]
    BY <1>0, <1>2, ReturnStep
  <2>2. "DN" \in inst[q][c].done => "DR" \in inst[q][c].done
    BY <1>0 DEF CallsInv, OrderOK, Required
  <2> QED
    BY <1>2, <2>1, <2>2 DEF DoneAfter
<1>6. \A x \in Proc, e \in Cid : \A h : SendView(q, x, e, h)
  BY <1>0, <1>1, <1>3, CallSends
<1>7. /\ \A e \in Cid : e # c => RecvView(q, e)
      /\ \A e \in Cid : inst'[q][e].gen = inst[q][e].gen
      /\ \A e \in Cid : \A h :
           /\ Past(q, e, h, "DR") => Past(q, e, h, "DR")'
           /\ Past(q, e, h, "DN")' <=> Past(q, e, h, "DN")
  BY <1>0, <1>2, <1>3, CallReceives
<1>8. ASSUME NEW p \in Proc
      PROVE  /\ sent[p] = {PutFlag(DstFlag(q, p, c, d), d) : d \in Links(q, p, c)}
             /\ Links(q, p, c) # {} => DoneFlag(q, p, c) \in lost
  <2>1. With(RecvInfo(q, c), p) = Links(q, p, c) /\ DirsOK(q)
    BY <1>0, <1>4, InfoLinks DEF LinkInv
  <2>2. \A d \in Links(q, p, c) : DstIndex(q, c, d) = Rank(Links(q, p, c), d)
    BY <1>0, <1>4, <2>1, DstSame
  <2>3. sent[p] = {PutFlag(DstFlag(q, p, c, d), d) : d \in Links(q, p, c)}
    BY <2>1, <2>2 DEF sent, DstFlag
  <2>4. \A d \in Links(q, p, c) : d \in DOMAIN RecvInfo(q, c) /\ RecvInfo(q, c)[d].proc = p
    BY <2>1 DEF With
  <2> QED
    BY <2>3, <2>4 DEF lost, PutDones, DoneFlag
<1>9. \A f \in lost : f.name = "PUTDONE" /\ f.slot = handle[q][c]
  BY FlagIs DEF lost, PutDones
<1>10. \A p \in Proc : sent[p] \subseteq UpPuts(q, p, c) /\ sent[p] \cap DownPut = {}
  <2>1. ASSUME NEW p \in Proc PROVE sent[p] \subseteq UpPuts(q, p, c)
    BY <1>8 DEF UpPuts
  <2>2. ASSUME NEW p \in Proc PROVE UpPuts(q, p, c) \subseteq UpPut
    BY <1>0, <1>4, LinkParts
  <2> QED
    BY <2>1, <2>2, PutKinds
<1>11. Effect(q, lost, sent)
  <2>1. Step(q)
    BY DEF Step
  <2>2. /\ \A x \in Proc : x # q => puts'[x] = puts[x]
        /\ \A x \in Proc : puts'[q][x] = AddPuts(puts[q][x], sent[x])
    BY <1>0, <1>3 DEF SHMEMTypeOK
  <2> QED
    BY <1>0, <1>3, <2>1, <2>2, EffectOf
<1>12. ASSUME NEW p \in Proc
       PROVE  /\ \A e \in Cid : ObjectsStay(q, p, e)
              /\ \A e \in Cid : Listens(q, p, e)' <=> Listens(q, p, e)
              /\ Links(q, p, c) # {} => Listens(q, p, c)
  <2>1. \A e \in Cid : e # c => ObjectsStay(q, p, e) /\ (Listens(q, p, e)' <=> Listens(q, p, e))
    BY Zenon, <1>4, <1>7, ViewDues
  <2>2. ObjectsStay(q, p, c)
    BY <1>3, <1>4, <1>7 DEF ObjectsStay, Links, Edges
  <2>3. Listens(q, p, c)' <=> Listens(q, p, c)
    BY <1>4, <1>5, <2>2 DEF Listens, ObjectsStay
  <2>4. Links(q, p, c) # {} => Listens(q, p, c)
    BY <1>4, <1>5 DEF Listens
  <2> QED
    BY <2>1, <2>2, <2>3, <2>4
<1>13. \A a, p \in Proc : NoStray(a, p)'
  <2>1. \A p \in Proc, e \in Cid : Listens(q, p, e) =>
          Silent(q, p, e) \/ (Listens(q, p, e)' /\ ObjectsStay(q, p, e))
    BY <1>12
  <2>2. \A a, p \in Proc : NoStray(a, p)
    BY DEF LinkInv
  <2>3. \A x \in Proc : \A y \in sent[x] \cap UpPut :
          \E e \in Cid : Listens(q, x, e)' /\ y \in UpPuts(q, x, e)'
    <3> SUFFICES ASSUME NEW x \in Proc, NEW y \in sent[x]
                 PROVE  Listens(q, x, c)' /\ y \in UpPuts(q, x, c)'
      OBVIOUS
    <3>1. Links(q, x, c) # {}
      BY <1>8
    <3>2. UpPuts(q, x, c)' = UpPuts(q, x, c)
      BY <1>12, SameObjects
    <3> QED
      BY <1>10, <1>12, <3>1, <3>2
  <2>4. \A x \in Proc : \A y \in sent[x] \cap DownPut :
          \E e \in Cid : Listens(x, q, e)' /\ y \in DownPuts(x, q, e)'
    BY <1>10
  <2> QED
    BY <1>11, <2>1, <2>2, <2>3, <2>4, EffectStray
<1>14. ASSUME NEW a \in Proc, NEW p \in Proc, NEW e \in Cid, Listens(a, p, e)'
       PROVE  Flow(a, p, e)'
  <2>1. Listens(a, p, e) => Flow(a, p, e)
    BY DEF LinkInv
  <2>2. CASE a # q /\ p # q
    BY <1>11, <1>14, <2>1, <2>2, EffectThird
  <2>3. CASE p = q /\ a # q
    <3>1. Listens(a, q, e) =>
            lost \cap UpFlags(a, q, e) = {} /\ sent[a] \cap DownPuts(a, q, e) = {}
      <4> SUFFICES ASSUME Listens(a, q, e)
                   PROVE  lost \cap UpFlags(a, q, e) = {} /\ sent[a] \cap DownPuts(a, q, e) = {}
        OBVIOUS
      <4>1. InUse(a, e)
        BY DEF Listens
      <4>2. /\ \A f \in UpFlags(a, q, e) : f.name \in UpFlag
            /\ DownPuts(a, q, e) \subseteq DownPut
        BY <1>0, <4>1, LinkParts
      <4> QED
        BY <1>9, <1>10, <4>2 DEF UpFlag
    <3> QED
      BY <1>6, <1>11, <1>14, <2>1, <2>3, <3>1, EffectSends
  <2>4. CASE a = q
    <3>1. Listens(q, p, e) /\ InUse(q, e)
      BY <1>12, <1>14, <2>4 DEF Listens
    <3>3. p # q
      <4>1. inst[q][e].gen \in 1..Len(prog.dirs[e])
        BY <1>0, <3>1, LinkTyped
      <4> QED
        BY <1>0, <3>1, <4>1, NoLoop DEF Listens, Links
    <3>4. CASE e # c
      <4>1. /\ handle[q][e] # handle[q][c]
            /\ UpPuts(q, p, e) \cap UpPuts(q, p, c) = {}
        BY <1>0, <1>4, <3>1, <3>4, Apart
      <4>2. DoneFlag(q, p, e).slot = handle[q][e]
        BY FlagIs DEF DoneFlag
      <4>3. DoneFlag(q, p, e) \notin lost /\ sent[p] \cap UpPuts(q, p, e) = {}
        BY <1>9, <1>10, <4>1, <4>2
      <4>4. RecvView(q, e)
        BY <1>7, <3>4
      <4> QED
        BY <1>11, <2>1, <2>4, <3>1, <3>3, <4>3, <4>4, EffectReceives
    <3>5. CASE e = c
      <4>1. Opened(q, c)'
        BY <1>5 DEF Opened
      <4>2. puts'[q][p] = AddPuts(puts[q][p], sent[p])
        BY <1>0, <1>3 DEF SHMEMTypeOK
      <4>3. DoneFlag(q, p, c) \in lost
        BY <1>8, <3>1, <3>5 DEF Listens
      <4>4. NotAhead(q, p) /\ ObjectsStay(q, p, c)
        BY <1>12 DEF LinkInv
      <4> QED
        BY <1>0, <1>5, <1>8, <1>11, <2>1, <2>4, <3>1, <3>3, <3>5, <4>1, <4>2, <4>3, <4>4, FlowOpens
    <3> QED
      BY <3>4, <3>5
  <2> QED
    BY <2>2, <2>3, <2>4
<1>15. \A a, p \in Proc : NotAhead(a, p)'
  <2>1. \A x \in Proc : x # q => Own(x)' = Own(x)
    BY <1>11 DEF Effect
  <2>3. \A a, p \in Proc : NotAhead(a, p)
    BY DEF LinkInv
  <2> QED
    BY <1>0, <1>4, <1>6, <1>7, <2>1, <2>3, AheadAll DEF SendView
<1>16. \A x \in Proc : DirsOK(x)' /\ AddrOK(x)'
  <2>1. \A x \in Proc : x # q => DirsOK(x)' /\ AddrOK(x)'
    BY <1>11, AddrOwn DEF Effect, LinkInv
  <2>2. \A e \in Cid : InUse(q, e)' =>
          /\ InUse(q, e) /\ inst'[q][e].gen = inst[q][e].gen
          /\ inst[q][e].done \subseteq inst'[q][e].done
    <3> SUFFICES ASSUME NEW e \in Cid, InUse(q, e)'
                 PROVE  /\ InUse(q, e) /\ inst'[q][e].gen = inst[q][e].gen
                        /\ inst[q][e].done \subseteq inst'[q][e].done
      OBVIOUS
    <3>1. CASE e = c
      BY <1>4, <1>5, <1>7, <3>1
    <3>2. CASE e # c
      BY <1>4, <1>7, <3>2 DEF InUse
    <3> QED
      BY <3>1, <3>2
  <2>3. DirsOK(q)' /\ AddrOK(q)'
    BY <1>0, <1>3, <1>4, <2>2, AddrQuiet DEF LinkInv
  <2> QED
    BY <2>1, <2>3
<1> QED
  BY <1>13, <1>14, <1>15, <1>16 DEF LinksOK
-----------------------------------------------------------------------------
(* SR at the sender.                                                       *)

\* A signal for the descriptor that p sends with, from an instance that p has
\* yet to serve, is from the instance p sends in.
LEMMA Match ==
  ASSUME LinkInv, NEW p \in Proc, NEW q \in Proc, NEW c \in Cid, May(p, "SR", c),
         Edges(p, q, c, inst[p][c].gen) # {},
         NEW e \in Cid, Listens(q, p, e), handle[q][e] = handle[p][c],
         ~Over(p, e, inst[q][e].gen)
  PROVE  e = c /\ inst[q][c].gen = inst[p][c].gen
<1> DEFINE g == inst[p][c].gen
           h == inst[q][e].gen
<1>0. /\ SInv /\ CallsInv /\ SHMEMTypeOK /\ PlaceInv /\ LockInv
      /\ Owned(p) /\ Owned(q) /\ NotAhead(q, p)
  BY DEF LinkInv, LockInv, SInv, LocalOK
<1>1. InUse(p, c) /\ InUse(q, e) /\ "SR" \notin inst[p][c].done
  BY <1>0, InSR DEF Listens, May
<1>2. /\ g \in Nat /\ h \in Nat /\ inst[p][e].gen \in Nat /\ inst[q][c].gen \in Nat
      /\ g \in 1..Len(prog.dirs[c])
      /\ pos[p] \in Nat /\ pos[q] \in Nat
      /\ \A x \in Proc, b \in Cid : inst[x][b].gen = GenAt(prog, b, pos[x])
  <2>1. g \in 1..Len(prog.dirs[c])
    BY <1>0, <1>1, OpenGen DEF InUse
  <2> QED
    BY <1>0, <2>1 DEF CallsInv, CallsTypeOK, PlaceInv, GensInv
<1>3. ~(inst[p][e].gen > h) /\ (inst[p][e].gen = h => InUse(p, e))
  BY DEF Over, InUse
<1>4. CASE inst[p][e].gen = h
  <2>1. handle[p][e] = handle[q][e]
    BY <1>0, <1>1, <1>3, <1>4, LockSame
  <2>2. e = c
    BY <1>0, <1>1, <1>3, <1>4, <2>1 DEF Owned
  <2> QED
    BY <1>4, <2>2
<1>5. CASE inst[p][e].gen < h
  <2>1. pos[p] < pos[q]
    <3>1. ASSUME pos[q] <= pos[p] PROVE h <= inst[p][e].gen
      <4>1. GenAt(prog, e, pos[q]) <= GenAt(prog, e, pos[p])
        BY <1>2, <3>1, GenOrder
      <4> QED
        BY <1>2, <4>1
    <3> QED
      BY <1>2, <1>5, <3>1
  <2>2. g <= inst[q][c].gen
    <3>0. pos[p] \in Nat /\ pos[q] \in Nat /\ pos[p] <= pos[q]
      BY <1>2, <2>1
    <3>1. GenAt(prog, c, pos[p]) <= GenAt(prog, c, pos[q])
      BY <3>0, GenOrder
    <3> QED
      BY <1>2, <3>1
  <2>3. CASE inst[q][c].gen = g /\ InUse(q, c)
    <3>1. handle[p][c] = handle[q][c]
      BY <1>0, <1>1, <2>3, LockSame
    <3>2. e = c
      BY <1>0, <1>1, <2>3, <3>1 DEF Owned
    <3> QED
      BY <1>2, <1>5, <2>3, <3>2
  <2>4. CASE ~(inst[q][c].gen = g /\ InUse(q, c))
    <3>1. Past(q, c, g, "DN")
      BY <1>2, <2>2, <2>4 DEF Past
    <3>2. Over(p, c, g)
      BY Zenon, <1>0, <1>2, <3>1 DEF NotAhead
    <3>3. FALSE
      BY <1>1, <1>2, <3>2 DEF Over, InUse
    <3> QED
      BY <3>3
  <2> QED
    BY <2>3, <2>4
<1> QED
  BY <1>2, <1>3, <1>4, <1>5

\* Where SR is when it handles direction d for q: it has dealt with the
\* directions before it.
SRAt(p, c, d, q) ==
  LET g == inst[p][c].gen
      D == Edges(p, q, c, g)
  IN /\ q \in Proc /\ q # p /\ InUse(p, c) /\ May(p, "SR", c)
     /\ g \in Nat /\ g \in 1..Len(prog.dirs[c])
     /\ "SR" \notin inst[p][c].done /\ ~Over(p, c, g)
     /\ d \in D /\ D \in SUBSET (1..MaxDirs) /\ SendInfo(p, c)[d].area = c
     /\ Out(p, c) = step[p] /\ d \notin step[p] /\ IsNext(d, DOMAIN SendInfo(p, c) \ step[p])
     /\ \A e \in D : e \in step[p] <=> e < d
     /\ counters[p][handle[p][c]][q].count = Rank(D, d)
     /\ counters[p][handle[p][c]][q].count = 0 => \A e \in D : e \notin step[p]

LEMMA SRPlace ==
  ASSUME LinkInv, NEW p \in Proc, NEW c \in Cid, NEW d \in DOMAIN SendInfo(p, c),
         Sending(p, c, d), NEW q, q = SendInfo(p, c)[d].proc
  PROVE  SRAt(p, c, d, q)
<1> DEFINE g == inst[p][c].gen
           D == Edges(p, q, c, g)
           s == handle[p][c]
<1>0. SInv /\ CallsInv /\ SHMEMTypeOK /\ DirsOK(p) /\ AddrOK(p) /\ CountersOK(p)
  BY DEF LinkInv, LockInv, SInv, LocalOK
<1>1. /\ May(p, "SR", c) /\ d \notin step[p] /\ IsNext(d, DOMAIN SendInfo(p, c) \ step[p])
      /\ "SR" \notin inst[p][c].done
      /\ \A e \in DOMAIN SendInfo(p, c) \ step[p] : d <= e
  BY DEF Sending, IsNext, May
<1>2. InUse(p, c) /\ Out(p, c) = step[p] /\ step[p] \subseteq DOMAIN SendInfo(p, c)
  BY <1>0, <1>1, InSR
<1>3. q \in Proc /\ SendInfo(p, c) \in Maps(Send)
  <2>1. SendInfo(p, c) \in Maps(Send)
    BY <1>0, InfoTyped
  <2>2. SendInfo(p, c)[d] \in Send
    BY <2>1, WithBound
  <2> QED
    BY <2>1, <2>2 DEF Send
<1>4. g \in Nat /\ g \in 1..Len(prog.dirs[c])
  BY <1>0, <1>2, OpenGen DEF InUse
<1>5. /\ With(SendInfo(p, c), q) = D
      /\ \A e \in D : e \in DOMAIN SendInfo(p, c) /\ SendInfo(p, c)[e].area = c
  BY <1>0, <1>2, <1>3, InfoLinks
<1>6. d \in D
  BY <1>5 DEF With
<1>7. D \in SUBSET (1..MaxDirs)
  BY <1>0, <1>3, <1>4, LinksFew
<1>8. q # p
  BY <1>0, <1>4, <1>6, NoLoop
<1>9. ~Over(p, c, g)
  BY <1>1, <1>2, <1>4 DEF Over, InUse
<1> HIDE DEF D, g
<1>10. \A e \in D : e \in Nat
  BY <1>7
<1>11. ASSUME NEW e \in D PROVE e \in step[p] <=> e < d
  <2>1. e < d => e \in step[p]
    BY <1>1, <1>5, <1>6, <1>10
  <2>2. e \in step[p] /\ d < e => d \in step[p]
    BY <1>0, <1>2, <1>5, <1>6 DEF AddrOK
  <2> QED
    BY <1>1, <1>6, <1>10, <2>1, <2>2
<1>12. D \cap step[p] = {e \in D : e < d}
  BY <1>11
<1>13. /\ Rank(D, d) \in 0..MaxDirs /\ Rank(D, d) < Cardinality(D) /\ Cardinality(D) \in 0..MaxDirs
       /\ Rank(D, d) = 0 <=> {e \in D : e < d} = {}
  <2>1. /\ Rank(D, d) \in 0..MaxDirs /\ Rank(D, d) < Cardinality(D)
        /\ Cardinality(D) \in 0..MaxDirs
    BY <1>6, <1>7, RankOrder
  <2>2. {e \in D : e < d} \in SUBSET (1..MaxDirs)
    BY <1>7
  <2>3. Rank(D, d) = 0 <=> {e \in D : e < d} = {}
    BY <2>2, SetBound DEF Rank
  <2> QED
    BY <2>1, <2>3
<1>14. counters[p][s][q].count = Advance(0, Rank(D, d), Cardinality(D))
  <2>1. counters[p][s][q] = Total(p, c, q)
    BY <1>0, <1>2, <1>3 DEF CountersOK
  <2>2. Total(p, c, q).count = Advance(0, Cardinality(D \cap step[p]), Cardinality(D))
    BY <1>2, <1>5 DEF Total
  <2> QED
    BY <1>12, <2>1, <2>2 DEF Rank
<1>15. Advance(0, Rank(D, d), Cardinality(D)) = Rank(D, d)
  <2> DEFINE k == Rank(D, d)
             m == Cardinality(D)
  <2>1. k \in Nat /\ m \in Nat /\ k < m
    BY <1>13, MaxDirsAssumption
  <2> HIDE DEF k, m
  <2>2. (0 + k) % m = k
    BY <2>1
  <2>3. Advance(0, k, m) = k
    BY <2>1, <2>2 DEF Advance
  <2> QED
    BY <2>3 DEF k, m
<1>16. counters[p][s][q].count = Rank(D, d)
  BY Zenon, <1>14, <1>15
<1>17. counters[p][s][q].count = 0 => \A e \in D : e \notin step[p]
  BY <1>12, <1>13, <1>16
<1> QED
  BY <1>1, <1>2, <1>3, <1>4, <1>5, <1>6, <1>7, <1>8, <1>9, <1>11, <1>16, <1>17 DEF D, g, SRAt

\* The address that SR takes from REMMEM for q is that of the instance.
AddrAt(p, c, d, q) ==
  LET n == counters[p][handle[p][c]][q].count IN
  /\ Listens(q, p, c) /\ inst[q][c].gen = inst[p][c].gen /\ handle[q][c] = handle[p][c]
  /\ n = 0 => /\ Ready(p, c, d) = {ReadyFlag(q, c)} /\ ReadyFlag(q, c) \in flags[p]
              /\ ~Took(p, q, c, inst[p][c].gen)
  /\ n # 0 => Ready(p, c, d) = {} /\ Took(p, q, c, inst[p][c].gen)
  /\ remmem[p][handle[p][c]][q][n] = Here(p, c, d)

LEMMA AddrSource ==
  ASSUME LinkInv, NEW p \in Proc, NEW c \in Cid, NEW d \in DOMAIN SendInfo(p, c),
         Sending(p, c, d), NEW q, q = SendInfo(p, c)[d].proc, Ready(p, c, d) \subseteq flags[p]
  PROVE  AddrAt(p, c, d, q)
<1> DEFINE g == inst[p][c].gen
           D == Edges(p, q, c, g)
           s == handle[p][c]
           n == counters[p][s][q].count
<1>0. SInv /\ CallsInv /\ SHMEMTypeOK /\ LockInv
  BY DEF LinkInv, LockInv, SInv
<1>1. /\ q \in Proc /\ q # p /\ InUse(p, c) /\ May(p, "SR", c)
      /\ g \in Nat /\ g \in 1..Len(prog.dirs[c])
      /\ "SR" \notin inst[p][c].done /\ ~Over(p, c, g)
      /\ d \in D /\ D \in SUBSET (1..MaxDirs)
      /\ Out(p, c) = step[p] /\ d \notin step[p]
      /\ \A e \in D : e \in step[p] <=> e < d
      /\ n = Rank(D, d)
      /\ n = 0 => \A e \in D : e \notin step[p]
  <2>1. SRAt(p, c, d, q)
    BY SRPlace
  <2> QED
    BY <2>1 DEF SRAt
<1> HIDE DEF D, g, s, n
<1>2. NotAhead(q, p) /\ NoStray(q, p) /\ DirsOK(p) /\ AddrOK(p)
  BY <1>1 DEF LinkInv
<1>3. Ready(p, c, d) = IF n = 0 THEN {Flag("REMMEMREADY", s, q, 0)} ELSE {}
  BY DEF Ready, n, s
<1>4. CASE n = 0
  <2> DEFINE f == Flag("REMMEMREADY", s, q, 0)
  <2>1. f \in flags[p] /\ f.name = "REMMEMREADY" /\ f.proc = q /\ f.slot = s
    BY <1>3, <1>4, FlagIs
  <2>2. PICK e \in Cid : Listens(q, p, e) /\ f \in UpFlags(q, p, e)
    BY <1>2, <2>1 DEF NoStray, UpFlag
  <2>3. f = ReadyFlag(q, e) /\ handle[q][e] = s
    <3>1. \A k \in Links(q, p, e) : DstFlag(q, p, e, k).name = "DSTREADY"
      BY FlagIs DEF DstFlag
    <3>2. f = ReadyFlag(q, e)
      BY <2>1, <2>2, <3>1 DEF UpFlags
    <3>3. ReadyFlag(q, e).slot = handle[q][e]
      BY FlagIs DEF ReadyFlag
    <3> QED
      BY <2>1, <3>2, <3>3
  <2>4. Flow(q, p, e)
    BY <1>1, <2>2 DEF LinkInv
  <2>5. ReadyDue(q, p, e)
    BY <2>1, <2>3, <2>4 DEF Flow, ReadyOK
  <2>6. ~Over(p, e, inst[q][e].gen)
    BY <2>5 DEF ReadyDue, Took
  <2>7. e = c /\ inst[q][c].gen = g
    <3>1. May(p, "SR", c) /\ handle[q][e] = handle[p][c]
      BY <1>1, <2>3 DEF s
    <3>2. Edges(p, q, c, inst[p][c].gen) # {}
      BY <1>1 DEF D, g
    <3>3. q \in Proc
      BY <1>1
    <3> QED
      BY <2>2, <2>6, <3>1, <3>2, <3>3, Match DEF g
  <2>8. Links(q, p, c) = D /\ d \in Links(q, p, c)
    BY <1>1, <2>7 DEF Links, D
  <2>9. Stored(q, p, c, d)
    BY <2>1, <2>3, <2>4, <2>7, <2>8 DEF Flow, BlockOK
  <2>10. remmem[p][s][q][n] = Here(p, c, d)
    BY <1>1, <2>3, <2>7, <2>8, <2>9 DEF Stored, Here, g
  <2>11. ~Took(p, q, c, g)
    BY <2>5, <2>7 DEF ReadyDue
  <2> QED
    BY <1>3, <1>4, <2>1, <2>2, <2>3, <2>7, <2>10, <2>11 DEF g, s, n, AddrAt
<1>5. CASE n # 0
  <2>1. PICK e \in D : e \in step[p]
    <3>1. {x \in D : x < d} # {}
      BY <1>1, <1>5, FS_EmptySet DEF Rank
    <3> QED
      BY <1>1, <3>1
  <2>2. e \in DOMAIN SendInfo(p, c)
    BY <1>0, <1>1, <1>2, <2>1, InfoLinks DEF D, g
  <2>3. SendInfo(p, c)[e].remmeminfo # NoBlock
    BY <1>1, <1>2, <2>1, <2>2 DEF AddrOK
  <2>4. Took(p, q, c, g)
    BY <1>1, <2>1, <2>3 DEF Took, D, g
  <2>5. Sent(p, c, g, e)
    BY <1>1, <2>1 DEF Sent, g
  <2>6. Past(q, c, g, "DR") /\ ~Past(q, c, g, "DN")
    BY Zenon, <1>1, <1>2, <2>1, <2>5 DEF NotAhead, D
  <2>7. inst[q][c].gen = g /\ InUse(q, c) /\ "DN" \notin inst[q][c].done
    BY <2>6 DEF Past
  <2>8. Links(q, p, c) = D /\ d \in Links(q, p, c) /\ Listens(q, p, c)
    BY <1>1, <2>7 DEF Links, Listens, D
  <2>9. handle[q][c] = s
    BY <1>0, <1>1, <2>7, LockSame DEF g, s
  <2>10. Flow(q, p, c)
    BY <1>1, <2>8 DEF LinkInv
  <2>11. ~ReadyDue(q, p, c)
    BY <2>4, <2>7 DEF ReadyDue
  <2>12. Stored(q, p, c, d)
    BY <2>8, <2>10, <2>11 DEF Flow, BlockOK
  <2>13. remmem[p][s][q][n] = Here(p, c, d)
    BY <1>1, <2>7, <2>8, <2>9, <2>12 DEF Stored, Here, g
  <2> QED
    BY Zenon, <1>3, <1>5, <2>4, <2>7, <2>8, <2>9, <2>13 DEF g, s, n, AddrAt
<1> QED
  BY <1>4, <1>5
-----------------------------------------------------------------------------
\* SR takes an address: one entry of one descriptor changes.
Takes(p, c, d, b) ==
  commbank' = [commbank EXCEPT ![p][handle[p][c]].sendinfo[d].remmeminfo = b]

LEMMA TakeInfo ==
  ASSUME SInv, NEW p \in Proc, NEW c \in Cid, InUse(p, c), NEW d \in DOMAIN SendInfo(p, c),
         NEW b \in Block \cup {NoBlock}, handle' = handle,
         Takes(p, c, d, b)
  PROVE  /\ \A r \in Proc : r # p => commbank'[r] = commbank[r]
         /\ \A e \in Cid : RecvInfo(p, e)' = RecvInfo(p, e)
         /\ \A e \in Cid : InUse(p, e) /\ e # c => SendInfo(p, e)' = SendInfo(p, e)
         /\ DOMAIN SendInfo(p, c)' = DOMAIN SendInfo(p, c)
         /\ \A k \in DOMAIN SendInfo(p, c) :
              /\ SendInfo(p, c)'[k].proc = SendInfo(p, c)[k].proc
              /\ SendInfo(p, c)'[k].area = SendInfo(p, c)[k].area
              /\ SendInfo(p, c)'[k].remmeminfo =
                   IF k = d THEN b ELSE SendInfo(p, c)[k].remmeminfo
<1> DEFINE s == handle[p][c]
           old == commbank[p][s]
           new == [old EXCEPT !.sendinfo[d].remmeminfo = b]
           info == old.sendinfo
           one == [info[d] EXCEPT !.remmeminfo = b]
           i2 == [info EXCEPT ![d] = one]
<1>0. SHMEMTypeOK /\ Owned(p)
  BY DEF SInv, LocalOK
<1>1. s \in Slot /\ commbank \in [Proc -> [Slot -> Entry]] /\ old \in Entry
  BY <1>0 DEF SHMEMTypeOK
<1>2. commbank' = [commbank EXCEPT ![p][s] = new]
  BY DEF Takes
<1>3. new = [old EXCEPT !.sendinfo = i2]
  OBVIOUS
<1>4. d \in DOMAIN info
  BY DEF SendInfo
<1> HIDE DEF s, old, new, info, one, i2
<1>5. old.sendinfo = info /\ info \in Maps(Send) /\ old.recvinfo \in Maps(Recv)
  BY <1>1 DEF Entry, info
<1>6. PICK D \in SUBSET (1..MaxDirs) : info \in [D -> Send]
  BY <1>5 DEF Maps
<1>7. one.remmeminfo = b /\ one.proc = info[d].proc /\ one.area = info[d].area
  BY <1>4, <1>6 DEF Send, one
<1>8. /\ DOMAIN i2 = DOMAIN info /\ i2[d] = one
      /\ \A k \in DOMAIN info : k # d => i2[k] = info[k]
  BY <1>4, <1>6 DEF i2
<1>9. new.sendinfo = i2 /\ new.recvinfo = old.recvinfo
  BY <1>1, <1>3 DEF Entry
<1>10. /\ commbank'[p][s] = new
       /\ \A t \in Slot : t # s => commbank'[p][t] = commbank[p][t]
       /\ \A r \in Proc : r # p => commbank'[r] = commbank[r]
  BY <1>1, <1>2
<1>11. ASSUME NEW e \in Cid PROVE RecvInfo(p, e)' = RecvInfo(p, e)
  <2>1. handle[p][e] \in Slot
    BY <1>0, InfoTyped
  <2>2. CASE handle[p][e] = s
    BY <1>9, <1>10, <2>2 DEF RecvInfo, old
  <2>3. CASE handle[p][e] # s
    BY <1>10, <2>1, <2>3 DEF RecvInfo
  <2> QED
    BY <2>2, <2>3
<1>12. ASSUME NEW e \in Cid, InUse(p, e), e # c PROVE SendInfo(p, e)' = SendInfo(p, e)
  <2>1. handle[p][e] \in Slot /\ handle[p][e] # s
    BY <1>0, <1>12, InfoTyped DEF Owned, s
  <2> QED
    BY <1>10, <2>1 DEF SendInfo
<1>13. SendInfo(p, c) = info /\ SendInfo(p, c)' = i2
  BY <1>9, <1>10 DEF SendInfo, info, old, s
<1>14. \A k \in DOMAIN info : /\ i2[k].proc = info[k].proc /\ i2[k].area = info[k].area
                              /\ i2[k].remmeminfo = IF k = d THEN b ELSE info[k].remmeminfo
  BY <1>7, <1>8
<1> QED
  BY <1>8, <1>10, <1>11, <1>12, <1>13, <1>14

\* The link whose first address SR takes: REMMEMREADY was seen.
LEMMA FlowTaken ==
  ASSUME SInv, NEW q \in Proc, NEW p \in Proc, p # q, NEW c \in Cid, Listens(q, p, c),
         Flow(q, p, c), NEW g, g = inst[q][c].gen, NEW lost, NEW sent, Effect(p, lost, sent),
         lost = {ReadyFlag(q, c)}, ReadyFlag(q, c) \in flags[p],
         \A x \in Proc : sent[x] = {},
         Over(p, c, g)' <=> Over(p, c, g),
         \A d : Sent(p, c, g, d)' <=> Sent(p, c, g, d),
         Took(p, q, c, g)'
  PROVE  Flow(q, p, c)'
<1> DEFINE L == Links(q, p, c)
<1>0. CallsInv /\ SHMEMTypeOK /\ InUse(q, c)
  BY DEF SInv, Listens
<1>1. RecvView(q, c) /\ prog' = prog /\ inst'[q][c].gen = inst[q][c].gen
  BY OwnViews DEF Effect
<1>2. ObjectsStay(q, p, c) /\ (Opened(q, c)' <=> Opened(q, c))
  BY <1>1, ViewDues
<1>3. /\ ~ReadyDue(q, p, c)'
      /\ DoneDue(q, p, c)' <=> DoneDue(q, p, c)
      /\ \A d \in L : /\ DstDue(q, p, c, d)' <=> DstDue(q, p, c, d)
                      /\ DataDue(q, p, c, d)' <=> DataDue(q, p, c, d)
  BY <1>1, <1>2 DEF ReadyDue, DoneDue, DstDue, DataDue
<1>4. /\ puts'[q] = puts[q] /\ flags'[q] = flags[q] /\ remmem' = remmem /\ ghost' = ghost
      /\ \A f : f \in flags'[p] <=> f \in flags[p] /\ f # ReadyFlag(q, c)
      /\ \A K : Keeps(puts[p][q], puts'[p][q], K) /\ Keeps(puts[q][p], puts'[q][p], K)
  BY SameKeeps DEF Effect
<1>5. /\ ReadyFlag(q, c)' = ReadyFlag(q, c) /\ L' = L
      /\ \A d : /\ DstFlag(q, p, c, d)' = DstFlag(q, p, c, d)
                /\ BlockPut(q, p, c, d)' = BlockPut(q, p, c, d)
                /\ Here(q, c, d)' = Here(q, c, d)
  BY <1>2, SameObjects DEF ObjectsStay
<1>6. PutFlag(ReadyFlag(q, c), 0) \notin In(puts[q][p])
  BY PutIs DEF Flow, ReadyOK, Signal
<1>7. ReadyOK(q, p, c)'
  BY <1>3, <1>4, <1>5, <1>6 DEF ReadyOK, Signal
<1>8. ASSUME NEW d \in L PROVE BlockOK(q, p, c, d)'
  <2>1. BlockPut(q, p, c, d) \notin In(puts[q][p]) /\ Stored(q, p, c, d)
    BY DEF Flow, BlockOK
  <2>2. Stored(q, p, c, d)'
    BY <1>2, <1>4, <1>5, <2>1 DEF Stored, ObjectsStay
  <2> QED
    BY <1>4, <1>5, <2>1, <2>2 DEF BlockOK
<1>9. ASSUME NEW d \in L PROVE DstOK(q, p, c, d)'
  <2> DEFINE K == {PutFlag(DstFlag(q, p, c, d), d)}
  <2>1. DstFlag(q, p, c, d) # ReadyFlag(q, c)
    BY <1>0, ApartDirs
  <2>2. DstOK(q, p, c, d) /\ Keeps(puts[q][p], puts'[q][p], K)
    BY <1>4 DEF Flow
  <2>3. PutFlag(DstFlag(q, p, c, d), d) \in K
    OBVIOUS
  <2> HIDE DEF K
  <2> QED
    BY <1>2, <1>3, <1>4, <2>1, <2>2, <2>3, DstStays
<1>10. DoneOK(q, p, c)' /\ \A d \in L : DataOK(q, p, c, d)'
  <2> DEFINE K == DownPuts(q, p, c)
  <2>1. Keeps(puts[p][q], puts'[p][q], K)
    BY <1>4
  <2>2. PutFlag(DoneFlag(q, p, c), 0) \in K /\ \A d \in L : DataPut(q, p, c, d) \in K
    BY DEF DownPuts
  <2>3. \A d \in L : Arrived(q, p, c, d) => Arrived(q, p, c, d)'
    BY <1>1, <1>4 DEF Arrived
  <2> HIDE DEF K
  <2>4. DoneOK(q, p, c)'
    BY <1>2, <1>3, <1>4, <2>1, <2>2, DoneStays DEF Flow
  <2>5. ASSUME NEW d \in L PROVE DataOK(q, p, c, d)'
    BY <1>2, <1>3, <1>4, <2>1, <2>2, <2>3, DataStays DEF Flow
  <2> QED
    BY <2>4, <2>5
<1> QED
  BY <1>5, <1>7, <1>8, <1>9, <1>10 DEF Flow
-----------------------------------------------------------------------------
LEMMA LinkSRAddr ==
  ASSUME LinkInv, NEW p \in Proc, SRAddr(p)
  PROVE  LinksOK'
<1>0. SInv /\ CallsInv /\ SHMEMTypeOK /\ DirsOK(p) /\ AddrOK(p)
  BY DEF LinkInv, LockInv, SInv
<1>1. PICK c \in Cid : \E d \in DOMAIN SendInfo(p, c) :
  LET s == handle[p][c]
      isend == SendInfo(p, c)[d].proc
      count == counters[p][s][isend].count
  IN /\ Sending(p, c, d)
     /\ Ready(p, c, d) \subseteq flags[p]
     /\ flags' = [flags EXCEPT ![p] = @ \ Ready(p, c, d)]
     /\ commbank' = [commbank EXCEPT ![p][s].sendinfo[d].remmeminfo =
                       remmem[p][s][isend][count]]
     /\ UNCHANGED <<callVars, freelist, handle, counters, remmem, puts, step, ghost>>
  BY Zenon DEF SRAddr
<1>2. PICK d \in DOMAIN SendInfo(p, c) :
  LET s == handle[p][c]
      isend == SendInfo(p, c)[d].proc
      count == counters[p][s][isend].count
  IN /\ Sending(p, c, d)
     /\ Ready(p, c, d) \subseteq flags[p]
     /\ flags' = [flags EXCEPT ![p] = @ \ Ready(p, c, d)]
     /\ commbank' = [commbank EXCEPT ![p][s].sendinfo[d].remmeminfo =
                       remmem[p][s][isend][count]]
     /\ UNCHANGED <<callVars, freelist, handle, counters, remmem, puts, step, ghost>>
  BY Zenon, <1>1
<1>g. PICK g : g = inst[p][c].gen
  OBVIOUS
<1>t. PICK to : to = SendInfo(p, c)[d].proc
  OBVIOUS
<1> DEFINE n == counters[p][handle[p][c]][to].count
           b == remmem[p][handle[p][c]][to][n]
           lost == Ready(p, c, d)
           sent == [x \in Proc |-> {}]
<1>3. /\ Sending(p, c, d) /\ lost \subseteq flags[p]
      /\ flags' = [flags EXCEPT ![p] = flags[p] \ lost]
      /\ commbank' = [commbank EXCEPT ![p][handle[p][c]].sendinfo[d].remmeminfo = b]
      /\ UNCHANGED <<callVars, freelist, handle, counters, remmem, puts, step, ghost>>
  BY Zenon, <1>2, <1>t
<1>4. SRAt(p, c, d, to)
  BY Zenon, <1>3, <1>t, SRPlace
<1>5. /\ Listens(to, p, c) /\ inst[to][c].gen = g /\ handle[to][c] = handle[p][c]
      /\ n = 0 => /\ lost = {ReadyFlag(to, c)} /\ ReadyFlag(to, c) \in flags[p]
                  /\ ~Took(p, to, c, g)
      /\ n # 0 => lost = {} /\ Took(p, to, c, g)
      /\ b = Here(p, c, d)
  <2>1. AddrAt(p, c, d, to)
    BY Zenon, <1>3, <1>t, AddrSource
  <2> QED
    BY <1>g, <2>1 DEF AddrAt
<1> HIDE DEF n, lost, sent, b
<1>6. /\ to \in Proc /\ to # p /\ InUse(p, c) /\ May(p, "SR", c) /\ g \in Nat
      /\ d \in Edges(p, to, c, g) /\ Edges(p, to, c, g) \in SUBSET (1..MaxDirs)
      /\ Out(p, c) = step[p] /\ d \notin step[p] /\ ~Over(p, c, g)
      /\ IsNext(d, DOMAIN SendInfo(p, c) \ step[p])
  BY <1>4, <1>g DEF SRAt
<1>7. b \in Block /\ b # NoBlock
  <2>1. d \in 1..MaxDirs
    BY <1>6
  <2>2. b \in Block
    BY Zenon, <1>5, <1>6, <1>g, <2>1 DEF Here, Block
  <2> QED
    BY <2>2, BlockAssumption
<1>8. /\ prog' = prog /\ inst' = inst /\ pos' = pos /\ handle' = handle
      /\ step' = step /\ puts' = puts /\ remmem' = remmem /\ ghost' = ghost
  BY <1>3 DEF callVars
<1>9. /\ \A e \in Cid : RecvInfo(p, e)' = RecvInfo(p, e)
      /\ \A e \in Cid : InUse(p, e) /\ e # c => SendInfo(p, e)' = SendInfo(p, e)
      /\ DOMAIN SendInfo(p, c)' = DOMAIN SendInfo(p, c)
      /\ \A k \in DOMAIN SendInfo(p, c) :
           /\ SendInfo(p, c)'[k].proc = SendInfo(p, c)[k].proc
           /\ SendInfo(p, c)'[k].area = SendInfo(p, c)[k].area
           /\ SendInfo(p, c)'[k].remmeminfo =
                IF k = d THEN b ELSE SendInfo(p, c)[k].remmeminfo
  <2>1. b \in Block \cup {NoBlock}
    BY <1>7
  <2> QED
    <3>1. Takes(p, c, d, b)
      BY <1>3 DEF Takes
    <3> QED
      BY <1>0, <1>6, <1>8, <2>1, <3>1, TakeInfo
<1>10. \A e : /\ May(p, "SR", e)' <=> May(p, "SR", e)
              /\ Out(p, e)' = Out(p, e)
              /\ InUse(p, e)' <=> InUse(p, e)
  BY <1>8 DEF Out, May, At, Running, InUse
<1>11. \A e, h : /\ Over(p, e, h)' <=> Over(p, e, h)
                 /\ \A k : Sent(p, e, h, k)' <=> Sent(p, e, h, k)
  BY Zenon, <1>8, <1>10 DEF Over, Sent
<1>12. Effect(p, lost, sent)
  <2>1. Step(p)
    BY DEF Step
  <2>2. \A x \in Proc : puts'[x] = puts[x] /\ sent[x] = {}
    BY <1>8 DEF sent
  <2> QED
    BY <1>0, <1>3, <1>8, <2>1, <2>2, EffectOf
<1>13. ASSUME NEW x \in Proc, NEW e \in Cid, NEW h
       PROVE  /\ Took(p, x, e, h) => Took(p, x, e, h)'
              /\ Took(p, x, e, h)' => Took(p, x, e, h) \/ (x = to /\ e = c /\ h = g)
  <2>1. CASE e = c /\ h = g
    <3>1. \A k \in Edges(p, x, c, g) : k \in DOMAIN SendInfo(p, c) /\ SendInfo(p, c)[k].proc = x
      BY <1>0, <1>6, <1>g, InfoLinks
    <3>2. Edges(p, x, c, g)' = Edges(p, x, c, g) /\ inst'[p][c].gen = g
      BY <1>8, <1>g DEF Edges
    <3>3. \A k \in Edges(p, x, c, g) :
            SendInfo(p, c)'[k].remmeminfo =
              IF k = d THEN b ELSE SendInfo(p, c)[k].remmeminfo
      BY <1>9, <3>1
    <3>4. Took(p, x, c, g)' <=>
            \/ Over(p, c, g)
            \/ \E k \in Edges(p, x, c, g) : SendInfo(p, c)'[k].remmeminfo # NoBlock
      BY <1>6, <1>8, <1>10, <1>11, <3>2 DEF Took
    <3>5. Took(p, x, c, g) <=>
            \/ Over(p, c, g)
            \/ \E k \in Edges(p, x, c, g) : SendInfo(p, c)[k].remmeminfo # NoBlock
      BY <1>6, <1>g DEF Took
    <3>6. d \in Edges(p, x, c, g) => x = to
      BY <3>1, <1>t
    <3> QED
      BY Zenon, <1>7, <2>1, <3>3, <3>4, <3>5, <3>6
  <2>2. CASE ~(e = c /\ h = g)
    <3>1. CASE e = c
      BY <1>8, <1>11, <1>g, <2>2, <3>1 DEF Took
    <3>2. CASE e # c
      <4>1. InUse(p, e) => SendInfo(p, e)' = SendInfo(p, e)
        BY <1>9, <3>2
      <4> QED
        BY <1>8, <1>10, <1>11, <4>1 DEF Took, Edges
    <3> QED
      BY <3>1, <3>2
  <2> QED
    BY <2>1, <2>2
<1>14. ASSUME NEW x \in Proc, NEW e \in Cid, NEW h, x # to \/ e # c \/ h # g \/ n # 0
       PROVE  SendView(p, x, e, h)
  <2>1. Took(p, x, e, h)' <=> Took(p, x, e, h)
    BY <1>5, <1>13, <1>14
  <2> QED
    BY <1>11, <2>1 DEF SendView
<1>15. \A e \in Cid : RecvView(p, e)
  BY <1>8, <1>10 DEF RecvView
<1>16. \A x \in Proc, e \in Cid :
         /\ ObjectsStay(p, x, e)
         /\ Listens(p, x, e)' <=> Listens(p, x, e)
  BY <1>8, <1>15, ViewDues
<1>17. \A f \in lost : f = ReadyFlag(to, c) /\ f.name = "REMMEMREADY" /\ f.proc = to
  <2>1. \A f \in lost : f = ReadyFlag(to, c)
    BY <1>5
  <2> QED
    BY <2>1, FlagIs DEF ReadyFlag
<1>18. \A a, x \in Proc : NoStray(a, x)'
  <2>1. \A x \in Proc, e \in Cid : Listens(p, x, e) =>
          Silent(p, x, e) \/ (Listens(p, x, e)' /\ ObjectsStay(p, x, e))
    BY <1>16
  <2>2. \A a, x \in Proc : NoStray(a, x)
    BY DEF LinkInv
  <2>3. \A x \in Proc : sent[x] = {}
    BY DEF sent
  <2> QED
    BY <1>12, <2>1, <2>2, <2>3, EffectStray
<1>19. ASSUME NEW a \in Proc, NEW x \in Proc, NEW e \in Cid, Listens(a, x, e)'
       PROVE  Flow(a, x, e)'
  <2>1. Listens(a, x, e) => Flow(a, x, e)
    BY DEF LinkInv
  <2>2. CASE a # p /\ x # p
    BY <1>12, <1>19, <2>1, <2>2, EffectThird
  <2>3. CASE x = p /\ a # p
    <3>1. CASE a = to /\ e = c /\ n = 0
      <4>1. Flow(to, p, c)
        BY <1>5, <1>6 DEF LinkInv
      <4>2. lost = {ReadyFlag(to, c)} /\ ReadyFlag(to, c) \in flags[p]
        BY <1>5, <3>1
      <4>3. Took(p, to, c, g)' /\ g = inst[to][c].gen
        <5>1. d \in Edges(p, to, c, g)' /\ SendInfo(p, c)'[d].remmeminfo # NoBlock
          <6>1. Edges(p, to, c, g)' = Edges(p, to, c, g)
            BY <1>8 DEF Edges
          <6>2. d \in DOMAIN SendInfo(p, c)
            OBVIOUS
          <6> QED
            BY <1>6, <1>7, <1>9, <6>1, <6>2
        <5>2. inst'[p][c].gen = g /\ InUse(p, c)'
          BY <1>6, <1>8, <1>10, <1>g
        <5> QED
          BY <1>5, <5>1, <5>2 DEF Took
      <4>4. \A y \in Proc : sent[y] = {}
        BY DEF sent
      <4>5. /\ Over(p, c, g)' <=> Over(p, c, g)
            /\ \A k : Sent(p, c, g, k)' <=> Sent(p, c, g, k)
        BY <1>11
      <4>6. Listens(to, p, c) /\ to \in Proc /\ p # to
        BY <1>5, <1>6
      <4>7. Flow(to, p, c)'
        BY <1>0, <1>12, <4>1, <4>2, <4>3, <4>4, <4>5, <4>6, FlowTaken
      <4> QED
        BY <2>3, <3>1, <4>7
    <3>2. CASE ~(a = to /\ e = c /\ n = 0)
      <4>1. ASSUME Listens(a, p, e)
            PROVE  /\ SendView(p, a, e, inst[a][e].gen)
                   /\ lost \cap UpFlags(a, p, e) = {}
                   /\ sent[a] \cap DownPuts(a, p, e) = {}
        <5>1. SendView(p, a, e, inst[a][e].gen)
          BY <1>14, <3>2
        <5>2. InUse(a, e)
          BY <4>1 DEF Listens
        <5>3. \A f \in UpFlags(a, p, e) : f.proc = a
          BY <1>0, <5>2, LinkParts
        <5>4. CASE a # to
          BY <1>17, <5>1, <5>3, <5>4 DEF sent
        <5>5. CASE a = to /\ e # c
          <6>1. Owned(a) /\ InUse(a, c)
            BY <1>0, <1>5, <5>5 DEF SInv, LocalOK, Listens
          <6>2. UpFlags(a, p, e) \cap UpFlags(a, p, c) = {}
            BY <1>0, <5>2, <5>5, <6>1, Apart
          <6>3. ReadyFlag(a, c) \in UpFlags(a, p, c)
            BY DEF UpFlags
          <6> QED
            BY <1>17, <5>1, <5>5, <6>2, <6>3 DEF sent
        <5>6. CASE n # 0
          BY <1>5, <5>1, <5>6 DEF sent
        <5> QED
          BY <3>2, <5>4, <5>5, <5>6
      <4> QED
        BY <1>12, <1>19, <2>1, <2>3, <4>1, EffectSends
    <3> QED
      BY <3>1, <3>2
  <2>4. CASE a = p
    <3>1. Listens(p, x, e) /\ InUse(p, e)
      BY <1>16, <1>19, <2>4 DEF Listens
    <3>2. x # p
      <4>1. inst[p][e].gen \in 1..Len(prog.dirs[e])
        BY <1>0, <3>1, LinkTyped
      <4> QED
        BY <1>0, <3>1, <4>1, NoLoop DEF Listens, Links
    <3>3. DoneFlag(p, x, e) \notin lost /\ sent[x] \cap UpPuts(p, x, e) = {}
      <4>1. DoneFlag(p, x, e).name = "PUTDONE"
        BY FlagIs DEF DoneFlag
      <4> QED
        BY <1>17, <4>1 DEF sent
    <3> QED
      BY <1>12, <1>15, <2>1, <2>4, <3>1, <3>2, <3>3, EffectReceives
  <2> QED
    BY <2>2, <2>3, <2>4
<1>20. \A a, x \in Proc : NotAhead(a, x)'
  <2>1. \A x \in Proc : x # p => Own(x)' = Own(x)
    BY <1>12 DEF Effect
  <2>2. \A a, x \in Proc : NotAhead(a, x)
    BY DEF LinkInv
  <2>3. \A x \in Proc, e \in Cid : \A h :
          Took(p, x, e, h)' => Took(p, x, e, h) \/ inst[x][e].gen >= h
    <3>1. inst[to][c].gen >= g
      BY <1>5, <1>6
    <3> QED
      BY <1>13, <3>1
  <2>4. \A e, h, o : /\ Past(p, e, h, o)' <=> Past(p, e, h, o)
                     /\ inst'[p][e].gen = inst[p][e].gen
    BY <1>8, <1>10 DEF Past
  <2> QED
    BY <1>0, <1>8, <1>11, <2>1, <2>2, <2>3, <2>4, AheadAll
<1>21. \A x \in Proc : DirsOK(x)' /\ AddrOK(x)'
  <2>1. \A x \in Proc : x # p => DirsOK(x)' /\ AddrOK(x)'
    BY <1>12, AddrOwn DEF Effect, LinkInv
  <2>2. DirsOK(p)'
    <3>1. ASSUME NEW e \in Cid, InUse(p, e)'
          PROVE  /\ InUse(p, e) /\ inst'[p][e].gen = inst[p][e].gen
                 /\ RecvInfo(p, e)' = RecvInfo(p, e)
                 /\ SameEnds(p, e)
      <4>1. CASE e = c
        BY <1>8, <1>9, <1>10, <3>1, <4>1 DEF SameEnds
      <4>2. CASE e # c
        BY <1>8, <1>9, <1>10, <3>1, <4>2 DEF SameEnds
      <4> QED
        BY <4>1, <4>2
    <3> QED
      BY <1>0, <1>8, <3>1, DirsKeep
  <2>3. AddrOK(p)'
    <3> SUFFICES ASSUME NEW e \in Cid, InUse(p, e)', NEW k \in DOMAIN SendInfo(p, e)'
          PROVE (LET v == SendInfo(p, e)[k].remmeminfo IN
                /\ v \in {NoBlock, Here(p, e, k)}
                /\ v # NoBlock =>
                     "SR" \in inst[p][e].done \/
                       (/\ May(p, "SR", e)
                        /\ k \in step[p] \/ IsNext(k, DOMAIN SendInfo(p, e) \ step[p]))
                /\ k \in Out(p, e) =>
                     v # NoBlock /\ \A i \in DOMAIN SendInfo(p, e) : i < k => i \in Out(p, e))'
      BY DEF AddrOK
    <3>1. InUse(p, e) /\ DOMAIN SendInfo(p, e)' = DOMAIN SendInfo(p, e)
      BY <1>9, <1>10
    <3>2. k \in DOMAIN SendInfo(p, e)
      BY <3>1
    <3> DEFINE v == SendInfo(p, e)[k].remmeminfo
    <3>3. /\ v \in {NoBlock, Here(p, e, k)}
          /\ v # NoBlock =>
                     "SR" \in inst[p][e].done \/
                       (/\ May(p, "SR", e)
                        /\ k \in step[p] \/ IsNext(k, DOMAIN SendInfo(p, e) \ step[p]))
          /\ k \in Out(p, e) =>
                     v # NoBlock /\ \A i \in DOMAIN SendInfo(p, e) : i < k => i \in Out(p, e)
      BY <1>0, <3>1, <3>2 DEF AddrOK
    <3>4. Here(p, e, k)' = Here(p, e, k)
      BY <1>8 DEF Here
    <3>5. CASE e = c /\ k = d
      <4>1. v' = b
        BY <1>9, <3>2, <3>5
      <4> HIDE DEF v
      <4>2. v' \in {NoBlock, Here(p, e, k)'}
        BY <1>5, <3>4, <3>5, <4>1
      <4>3. k \notin Out(p, e)'
        BY <1>6, <1>10, <3>5
      <4>4. May(p, "SR", e)' /\ IsNext(k, DOMAIN SendInfo(p, e) \ step[p])'
        BY <1>6, <1>8, <1>10, <3>1, <3>5 DEF IsNext
      <4> QED
        BY <4>2, <4>3, <4>4 DEF v
    <3>6. CASE ~(e = c /\ k = d)
      <4>1. v' = v
        BY <1>9, <3>1, <3>2, <3>6
      <4> HIDE DEF v
      <4>2. IsNext(k, DOMAIN SendInfo(p, e) \ step[p])' <=>
              IsNext(k, DOMAIN SendInfo(p, e) \ step[p])
        BY Zenon, <1>8, <3>1 DEF IsNext
      <4> QED
        BY <1>8, <1>10, <3>1, <3>3, <3>4, <4>1, <4>2 DEF v
    <3> QED
      BY <3>5, <3>6
  <2> QED
    BY <2>1, <2>2, <2>3
<1> QED
  BY <1>18, <1>19, <1>20, <1>21 DEF LinksOK
-----------------------------------------------------------------------------
\* The DSTREADY that SR sees is that of the instance, and so is the address it
\* stores the data at.
DstAt(p, c, d, q) ==
  /\ Listens(q, p, c) /\ inst[q][c].gen = inst[p][c].gen
  /\ d \in Links(q, p, c) /\ DstDue(q, p, c, d)
  /\ Flag("DSTREADY", handle[p][c], q, counters[p][handle[p][c]][q].count)
       = DstFlag(q, p, c, d)
  /\ PutData(SendInfo(p, c)[d].remmeminfo, Data(p, c, inst[p][c].gen, d)) = DataPut(q, p, c, d)

LEMMA DstSource ==
  ASSUME LinkInv, NEW p \in Proc, NEW c \in Cid, NEW d \in DOMAIN SendInfo(p, c),
         Sending(p, c, d), SendInfo(p, c)[d].remmeminfo # NoBlock,
         NEW q, q = SendInfo(p, c)[d].proc,
         Flag("DSTREADY", handle[p][c], q, counters[p][handle[p][c]][q].count) \in flags[p]
  PROVE  DstAt(p, c, d, q)
<1> DEFINE g == inst[p][c].gen
           D == Edges(p, q, c, g)
           s == handle[p][c]
           n == counters[p][s][q].count
           f == Flag("DSTREADY", s, q, n)
<1>0. SInv /\ CallsInv /\ SHMEMTypeOK /\ LockInv
  BY Zenon DEF LinkInv, LockInv, SInv
<1>1. /\ q \in Proc /\ q # p /\ InUse(p, c) /\ May(p, "SR", c)
      /\ d \in D /\ D \in SUBSET (1..MaxDirs) /\ n = Rank(D, d)
  <2>1. SRAt(p, c, d, q)
    BY SRPlace
  <2> QED
    BY <2>1 DEF SRAt
<1> HIDE DEF D, g, s, n
<1>2. NotAhead(q, p) /\ NoStray(q, p) /\ AddrOK(p)
  BY Zenon, <1>1 DEF LinkInv
<1>3. f \in flags[p] /\ f.name = "DSTREADY" /\ f.proc = q /\ f.slot = s /\ f.k = n
  BY FlagIs DEF s, n
<1> HIDE DEF f
<1>4. PICK e \in Cid : Listens(q, p, e) /\ f \in UpFlags(q, p, e)
  BY Zenon, <1>2, <1>3 DEF NoStray, UpFlag
<1>5. f # ReadyFlag(q, e)
  BY <1>3, FlagIs DEF ReadyFlag
<1>6. PICK k \in Links(q, p, e) : f = DstFlag(q, p, e, k)
  BY Zenon, <1>4, <1>5 DEF UpFlags
<1>7. handle[q][e] = s /\ Rank(Links(q, p, e), k) = n
  BY <1>3, <1>6, FlagIs DEF DstFlag
<1>8. Flow(q, p, e)
  BY Zenon, <1>1, <1>4 DEF LinkInv
<1>9. DstDue(q, p, e, k)
  BY Zenon, <1>3, <1>6, <1>8 DEF Flow, DstOK
<1>10. ~Over(p, e, inst[q][e].gen)
  BY Zenon, <1>9 DEF DstDue, Sent
<1>11. e = c /\ inst[q][c].gen = g
  <2>1. /\ May(p, "SR", c) /\ handle[q][e] = handle[p][c] /\ q \in Proc
        /\ Listens(q, p, e) /\ ~Over(p, e, inst[q][e].gen)
    BY <1>1, <1>4, <1>7, <1>10 DEF s
  <2>2. Edges(p, q, c, inst[p][c].gen) # {}
    BY <1>1 DEF D, g
  <2>3. e = c /\ inst[q][c].gen = inst[p][c].gen
    BY SMTT(20), <2>1, <2>2, Match
  <2> QED
    BY <2>3 DEF g
<1>12. Links(q, p, c) = D
  BY <1>11 DEF Links, D
<1>13. k = d
  <2>1. k \in D /\ Rank(D, k) = Rank(D, d)
    BY <1>1, <1>6, <1>7, <1>11, <1>12
  <2> QED
    BY <1>1, <2>1, RankOrder
<1>14. SendInfo(p, c)[d].remmeminfo = Here(q, c, d)
  <2>1. SendInfo(p, c)[d].remmeminfo \in {NoBlock, Here(p, c, d)}
    BY <1>1, <1>2 DEF AddrOK
  <2>2. Here(p, c, d) = Here(q, c, d)
    BY <1>11 DEF Here, g
  <2> QED
    BY Zenon, <2>1, <2>2
<1>15. /\ Listens(q, p, c) /\ inst[q][c].gen = g /\ d \in Links(q, p, c)
       /\ DstDue(q, p, c, d) /\ f = DstFlag(q, p, c, d)
       /\ PutData(SendInfo(p, c)[d].remmeminfo, Data(p, c, g, d)) = DataPut(q, p, c, d)
  BY Zenon, <1>4, <1>6, <1>9, <1>11, <1>13, <1>14 DEF DataPut
<1> QED
  BY Zenon, <1>15 DEF DstAt, f, g, s, n

\* The link whose data SR stores.
LEMMA FlowPut ==
  ASSUME SInv, NEW q \in Proc, NEW p \in Proc, p # q, NEW c \in Cid, Listens(q, p, c),
         Flow(q, p, c), NEW g, g = inst[q][c].gen, NEW lost, NEW sent, Effect(p, lost, sent),
         NEW d \in Links(q, p, c), DstDue(q, p, c, d), DstFlag(q, p, c, d) \in flags[p],
         lost = {DstFlag(q, p, c, d)}, sent[q] = {DataPut(q, p, c, d)},
         Over(p, c, g)' <=> Over(p, c, g), Took(p, q, c, g)' <=> Took(p, q, c, g),
         Sent(p, c, g, d)', \A e : e # d => (Sent(p, c, g, e)' <=> Sent(p, c, g, e))
  PROVE  Flow(q, p, c)'
<1> DEFINE L == Links(q, p, c)
<1>0. CallsInv /\ SHMEMTypeOK /\ InUse(q, c)
  BY DEF SInv, Listens
<1>1. RecvView(q, c) /\ prog' = prog /\ inst'[q][c].gen = inst[q][c].gen
  BY OwnViews DEF Effect
<1>2. ObjectsStay(q, p, c) /\ (Opened(q, c)' <=> Opened(q, c))
  BY <1>1, ViewDues
<1>3. /\ ReadyDue(q, p, c)' <=> ReadyDue(q, p, c)
      /\ DoneDue(q, p, c)' <=> DoneDue(q, p, c)
      /\ \A e \in L : e # d => /\ DstDue(q, p, c, e)' <=> DstDue(q, p, c, e)
                               /\ DataDue(q, p, c, e)' <=> DataDue(q, p, c, e)
      /\ ~DstDue(q, p, c, d)' /\ (Opened(q, c) => DataDue(q, p, c, d)')
  BY <1>1, <1>2 DEF ReadyDue, DoneDue, DstDue, DataDue
<1>4. Opened(q, c) /\ ~Over(p, c, g) /\ ~DoneDue(q, p, c)
  BY DEF DstDue, Sent, DoneDue
<1>5. /\ puts'[q] = puts[q] /\ flags'[q] = flags[q] /\ remmem' = remmem /\ ghost' = ghost
      /\ \A f : f \in flags'[p] <=> f \in flags[p] /\ f # DstFlag(q, p, c, d)
      /\ \A K : Keeps(puts[q][p], puts'[q][p], K)
      /\ \A y : y \in In(puts'[p][q]) <=> y \in In(puts[p][q]) \/ y = DataPut(q, p, c, d)
      /\ \A K : DataPut(q, p, c, d) \notin K => Keeps(puts[p][q], puts'[p][q], K)
  BY Zenon, SameKeeps DEF Effect
<1>6. /\ DoneFlag(q, p, c)' = DoneFlag(q, p, c) /\ L' = L
      /\ \A e : /\ DstFlag(q, p, c, e)' = DstFlag(q, p, c, e)
                /\ DataPut(q, p, c, e)' = DataPut(q, p, c, e)
  BY <1>2, SameObjects DEF ObjectsStay
<1>7. DstFlag(q, p, c, d) # ReadyFlag(q, c)
  BY <1>0, ApartDirs
<1>8. ReadyOK(q, p, c)' /\ \A e \in L : BlockOK(q, p, c, e)'
  <2> DEFINE K == UpPuts(q, p, c)
  <2>1. Keeps(puts[q][p], puts'[q][p], K)
    BY <1>5
  <2>2. PutFlag(ReadyFlag(q, c), 0) \in K /\ \A e \in L : BlockPut(q, p, c, e) \in K
    BY Zenon DEF UpPuts
  <2>3. \A e \in L : Stored(q, p, c, e) => Stored(q, p, c, e)'
    BY <1>2, <1>5, <1>6, SameObjects DEF Stored, ObjectsStay
  <2>4. ReadyFlag(q, c) \in flags'[p] <=> ReadyFlag(q, c) \in flags[p]
    BY <1>5, <1>7
  <2> HIDE DEF K
  <2> QED
    BY Zenon, <1>2, <1>3, <2>1, <2>2, <2>3, <2>4, ReadyStays DEF Flow
<1>9. DstOK(q, p, c, d)'
  <2>1. PutFlag(DstFlag(q, p, c, d), d) \notin In(puts[q][p])
    BY PutIs DEF Flow, DstOK, Signal
  <2> QED
    BY Zenon, <1>3, <1>5, <1>6, <2>1 DEF DstOK, Signal
<1>10. ASSUME NEW e \in L, e # d PROVE DstOK(q, p, c, e)'
  <2> DEFINE K == {PutFlag(DstFlag(q, p, c, e), e)}
  <2>1. DstFlag(q, p, c, e) # DstFlag(q, p, c, d)
    BY <1>0, <1>10, ApartDirs
  <2>2. DstOK(q, p, c, e) /\ Keeps(puts[q][p], puts'[q][p], K)
    BY <1>5 DEF Flow
  <2>3. PutFlag(DstFlag(q, p, c, e), e) \in K
    OBVIOUS
  <2> HIDE DEF K
  <2> QED
    BY <1>2, <1>3, <1>5, <1>10, <2>1, <2>2, <2>3, DstStays
<1>11. PutFlag(DoneFlag(q, p, c), 0) # DataPut(q, p, c, d)
  BY PutIs DEF DataPut
<1>12. DoneOK(q, p, c)'
  <2> DEFINE K == {PutFlag(DoneFlag(q, p, c), 0)}
  <2>1. Keeps(puts[p][q], puts'[p][q], K)
    BY <1>5, <1>11
  <2>2. PutFlag(DoneFlag(q, p, c), 0) \in K
    OBVIOUS
  <2> HIDE DEF K
  <2> QED
    BY Zenon, <1>2, <1>3, <1>5, <2>1, <2>2, DoneStays DEF Flow
<1>13. ASSUME NEW e \in L, e # d PROVE DataOK(q, p, c, e)'
  <2> DEFINE K == {PutFlag(DoneFlag(q, p, c), 0), DataPut(q, p, c, e)}
  <2>1. DataPut(q, p, c, e) # DataPut(q, p, c, d)
    BY Zenon, <1>0, <1>13, ApartDirs
  <2>2. Keeps(puts[p][q], puts'[p][q], K)
    BY Zenon, <1>5, <1>11, <2>1
  <2>3. PutFlag(DoneFlag(q, p, c), 0) \in K /\ DataPut(q, p, c, e) \in K
    OBVIOUS
  <2>4. Arrived(q, p, c, e) => Arrived(q, p, c, e)'
    BY Zenon, <1>1, <1>5 DEF Arrived
  <2> HIDE DEF K
  <2> QED
    BY Zenon, <1>2, <1>3, <1>5, <1>13, <2>2, <2>3, <2>4, DataStays DEF Flow
<1>14. DataOK(q, p, c, d)'
  <2> DEFINE y == PutFlag(DoneFlag(q, p, c), 0)
  <2>1. y \notin In(puts[p][q]) /\ DoneFlag(q, p, c) \notin flags[q]
    BY <1>4 DEF Flow, DoneOK, Signal
  <2>2. y \notin In(puts'[p][q])
    BY <1>5, <1>11, <2>1
  <2> HIDE DEF y
  <2>3. \A x : Earlier(puts'[p][q], x, y)
    BY <2>2, InIs DEF Earlier
  <2>4. y = PutFlag(DoneFlag(q, p, c)', 0)
    BY Zenon, <1>6 DEF y
  <2> QED
    BY Zenon, <1>3, <1>4, <1>5, <1>6, <2>1, <2>3, <2>4 DEF DataOK
<1> QED
  BY <1>6, <1>8, <1>9, <1>10, <1>12, <1>13, <1>14 DEF Flow
-----------------------------------------------------------------------------
LEMMA LinkSRPut ==
  ASSUME LinkInv, NEW p \in Proc, SRPut(p)
  PROVE  LinksOK'
<1>0. SInv /\ CallsInv /\ SHMEMTypeOK /\ DirsOK(p) /\ AddrOK(p)
  BY DEF LinkInv, LockInv, SInv
<1>1. PICK c \in Cid : \E d \in DOMAIN SendInfo(p, c) :
  LET s == handle[p][c]
      info == SendInfo(p, c)[d]
      n == counters[p][s][info.proc]
      dst == Flag("DSTREADY", s, info.proc, n.count)
      data == PutData(info.remmeminfo, Data(p, info.area, inst[p][info.area].gen, d))
  IN /\ Sending(p, c, d)
     /\ info.remmeminfo # NoBlock
     /\ dst \in flags[p]
     /\ flags' = [flags EXCEPT ![p] = @ \ {dst}]
     /\ puts' = [puts EXCEPT ![p][info.proc] = AddPuts(@, {data})]
     /\ step' = [step EXCEPT ![p] = @ \cup {d}]
     /\ UNCHANGED <<callVars, freelist, commbank, handle, remmem, ghost>>
  BY Zenon DEF SRPut
<1>2. PICK d \in DOMAIN SendInfo(p, c) :
  LET s == handle[p][c]
      info == SendInfo(p, c)[d]
      n == counters[p][s][info.proc]
      dst == Flag("DSTREADY", s, info.proc, n.count)
      data == PutData(info.remmeminfo, Data(p, info.area, inst[p][info.area].gen, d))
  IN /\ Sending(p, c, d)
     /\ info.remmeminfo # NoBlock
     /\ dst \in flags[p]
     /\ flags' = [flags EXCEPT ![p] = @ \ {dst}]
     /\ puts' = [puts EXCEPT ![p][info.proc] = AddPuts(@, {data})]
     /\ step' = [step EXCEPT ![p] = @ \cup {d}]
     /\ UNCHANGED <<callVars, freelist, commbank, handle, remmem, ghost>>
  BY Zenon, <1>1
<1>g. PICK g : g = inst[p][c].gen
  OBVIOUS
<1>t. PICK to : to = SendInfo(p, c)[d].proc
  OBVIOUS
<1> DEFINE dst == Flag("DSTREADY", handle[p][c], to, counters[p][handle[p][c]][to].count)
           data == PutData(SendInfo(p, c)[d].remmeminfo, Data(p, c, inst[p][c].gen, d))
           lost == {dst}
           sent == [x \in Proc |-> IF x = to THEN {data} ELSE {}]
<1>3. Sending(p, c, d) /\ SRAt(p, c, d, to)
  <2>1. Sending(p, c, d)
    BY Zenon, <1>2
  <2> QED
    BY <2>1, <1>t, SRPlace
<1>4. /\ to \in Proc /\ to # p /\ InUse(p, c) /\ May(p, "SR", c) /\ g \in Nat
      /\ d \in Edges(p, to, c, g) /\ SendInfo(p, c)[d].area = c
      /\ Out(p, c) = step[p] /\ d \notin step[p] /\ ~Over(p, c, g)
      /\ IsNext(d, DOMAIN SendInfo(p, c) \ step[p])
  BY Zenon, <1>3, <1>g DEF SRAt
<1>5. /\ SendInfo(p, c)[d].remmeminfo # NoBlock
      /\ dst \in flags[p]
      /\ flags' = [flags EXCEPT ![p] = flags[p] \ lost]
      /\ puts' = [puts EXCEPT ![p][to] = AddPuts(puts[p][to], {data})]
      /\ step' = [step EXCEPT ![p] = step[p] \cup {d}]
      /\ UNCHANGED <<callVars, freelist, commbank, handle, remmem, ghost>>
  BY Zenon, <1>2, <1>4, <1>t
<1>6. DstAt(p, c, d, to)
  BY Zenon, <1>3, <1>5, <1>t, DstSource
<1>7. /\ Listens(to, p, c) /\ inst[to][c].gen = g
      /\ d \in Links(to, p, c) /\ DstDue(to, p, c, d)
      /\ dst = DstFlag(to, p, c, d) /\ data = DataPut(to, p, c, d)
  BY <1>6, <1>g DEF DstAt
<1> HIDE DEF dst, data, lost, sent
<1>8. lost = {DstFlag(to, p, c, d)} /\ sent[to] = {DataPut(to, p, c, d)}
      /\ \A x \in Proc : x # to => sent[x] = {}
  BY <1>4, <1>7 DEF lost, sent
<1>9. /\ prog' = prog /\ inst' = inst /\ pos' = pos /\ handle' = handle
      /\ commbank' = commbank /\ remmem' = remmem /\ ghost' = ghost
      /\ step'[p] = step[p] \cup {d}
  BY <1>0, <1>5 DEF callVars, SHMEMTypeOK
<1>10. /\ \A e : /\ May(p, "SR", e)' <=> May(p, "SR", e)
                 /\ InUse(p, e)' <=> InUse(p, e)
                 /\ SendInfo(p, e)' = SendInfo(p, e) /\ RecvInfo(p, e)' = RecvInfo(p, e)
       /\ \A e \in Cid : e # c => ~May(p, "SR", e)
       /\ \A e \in Cid : e # c => Out(p, e)' = Out(p, e)
       /\ Out(p, c)' = step[p] \cup {d}
  <2>1. \A e : /\ May(p, "SR", e)' <=> May(p, "SR", e)
               /\ InUse(p, e)' <=> InUse(p, e)
               /\ SendInfo(p, e)' = SendInfo(p, e) /\ RecvInfo(p, e)' = RecvInfo(p, e)
    BY <1>9 DEF May, At, Running, InUse, SendInfo, RecvInfo
  <2>2. \A e \in Cid : e # c => ~May(p, "SR", e)
    BY <1>0, <1>4, InSR
  <2> QED
    BY <1>4, <1>9, <2>1, <2>2 DEF Out
<1>11. ASSUME NEW x \in Proc, NEW e \in Cid, NEW h
       PROVE  /\ Over(p, e, h)' <=> Over(p, e, h)
              /\ Took(p, x, e, h)' <=> Took(p, x, e, h)
              /\ \A k : Sent(p, e, h, k)' <=>
                          Sent(p, e, h, k) \/ (e = c /\ h = g /\ k = d)
  <2>1. Over(p, e, h)' <=> Over(p, e, h)
    BY <1>9 DEF Over
  <2>2. Took(p, x, e, h)' <=> Took(p, x, e, h)
    BY <1>9, <1>10, <2>1 DEF Took, Edges
  <2>3. CASE e = c
    <3>1. \A k : Sent(p, c, h, k)' <=> Over(p, c, h) \/ (g = h /\ k \in step[p] \cup {d})
      BY <1>9, <1>10, <1>g, <2>1, <2>3 DEF Sent
    <3>2. \A k : Sent(p, c, h, k) <=> Over(p, c, h) \/ (g = h /\ k \in step[p])
      BY <1>4, <1>g DEF Sent
    <3> QED
      BY <2>1, <2>2, <2>3, <3>1, <3>2
  <2>4. CASE e # c
    BY <1>9, <1>10, <2>1, <2>2, <2>4 DEF Sent
  <2> QED
    BY <2>3, <2>4
<1>12. \A x \in Proc : d \in Edges(p, x, c, g) => x = to
  BY <1>4 DEF Edges
<1>13. Effect(p, lost, sent)
  <2>1. Step(p)
    BY DEF Step
  <2>2. \A x \in Proc : x # p => puts'[x] = puts[x]
    BY <1>0, <1>5 DEF SHMEMTypeOK
  <2>3. \A x \in Proc : puts'[p][x] = IF x = to THEN AddPuts(puts[p][to], {data}) ELSE puts[p][x]
    BY <1>0, <1>4, <1>5 DEF SHMEMTypeOK
  <2>4. \A x \in Proc : \/ puts'[p][x] = puts[p][x] /\ sent[x] = {}
                        \/ puts'[p][x] = AddPuts(puts[p][x], sent[x])
    BY <1>7, <1>8, <2>3
  <2> QED
    BY <1>0, <1>5, <1>9, <2>1, <2>2, <2>4, EffectOf
<1>14. ASSUME NEW x \in Proc, NEW e \in Cid, NEW h, x # to \/ e # c \/ h # g
       PROVE  SendView(p, x, e, h)
  BY <1>11, <1>12, <1>14 DEF SendView
<1>15. \A e \in Cid : RecvView(p, e)
  BY <1>9, <1>10 DEF RecvView
<1>16. \A x \in Proc, e \in Cid :
         /\ ObjectsStay(p, x, e)
         /\ Listens(p, x, e)' <=> Listens(p, x, e)
  BY <1>9, <1>15, ViewDues
<1>17. \A f \in lost : f = DstFlag(to, p, c, d) /\ f.name = "DSTREADY" /\ f.proc = to
  <2>1. \A f \in lost : f = DstFlag(to, p, c, d)
    BY <1>8
  <2> QED
    BY <2>1, FlagIs DEF DstFlag
<1>18. /\ \A x \in Proc : sent[x] \cap UpPut = {}
       /\ DataPut(to, p, c, d) \in DownPuts(to, p, c)
  <2>1. DataPut(to, p, c, d) \notin UpPut
    BY PutKinds DEF DataPut
  <2>2. DataPut(to, p, c, d) \in DownPuts(to, p, c)
    BY <1>7 DEF DownPuts
  <2> QED
    BY <1>8, <2>1, <2>2
<1>19. \A a, x \in Proc : NoStray(a, x)'
  <2>1. \A x \in Proc, e \in Cid : Listens(p, x, e) =>
          Silent(p, x, e) \/ (Listens(p, x, e)' /\ ObjectsStay(p, x, e))
    BY <1>16
  <2>2. \A a, x \in Proc : NoStray(a, x)
    BY DEF LinkInv
  <2>3. \A x \in Proc : \A y \in sent[x] \cap DownPut :
          \E e \in Cid : Listens(x, p, e)' /\ y \in DownPuts(x, p, e)'
    <3>1. RecvView(to, c) /\ prog' = prog
      BY <1>4, <1>13, OwnViews DEF Effect
    <3>2. Listens(to, p, c)' /\ ObjectsStay(to, p, c)
      BY <1>4, <1>7, <3>1, ViewDues
    <3>3. DownPuts(to, p, c)' = DownPuts(to, p, c)
      BY <1>4, <3>2, SameObjects
    <3> QED
      BY <1>8, <1>18, <3>2, <3>3
  <2> QED
    BY <1>13, <1>18, <2>1, <2>2, <2>3, EffectStray
<1>20. ASSUME NEW a \in Proc, NEW x \in Proc, NEW e \in Cid, Listens(a, x, e)'
       PROVE  Flow(a, x, e)'
  <2>1. Listens(a, x, e) => Flow(a, x, e)
    BY DEF LinkInv
  <2>2. CASE a # p /\ x # p
    BY <1>13, <1>20, <2>1, <2>2, EffectThird
  <2>3. CASE x = p /\ a # p
    <3>1. CASE a = to /\ e = c
      <4>1. Flow(to, p, c)
        BY <1>4, <1>7 DEF LinkInv
      <4>2. DstFlag(to, p, c, d) \in flags[p]
        BY <1>5, <1>7
      <4>3. /\ Over(p, c, g)' <=> Over(p, c, g)
            /\ Took(p, to, c, g)' <=> Took(p, to, c, g)
            /\ Sent(p, c, g, d)'
            /\ \A k : k # d => (Sent(p, c, g, k)' <=> Sent(p, c, g, k))
        BY <1>4, <1>11
      <4>4. g = inst[to][c].gen /\ p # to
        BY <1>4, <1>7
      <4>5. Flow(to, p, c)'
        BY <1>0, <1>4, <1>7, <1>8, <1>13, <4>1, <4>2, <4>3, <4>4, FlowPut
      <4> QED
        BY <2>3, <3>1, <4>5
    <3>2. CASE ~(a = to /\ e = c)
      <4>1. ASSUME Listens(a, p, e)
            PROVE  /\ SendView(p, a, e, inst[a][e].gen)
                   /\ lost \cap UpFlags(a, p, e) = {}
                   /\ sent[a] \cap DownPuts(a, p, e) = {}
        <5>1. SendView(p, a, e, inst[a][e].gen)
          BY <1>14, <3>2
        <5>2. InUse(a, e)
          BY <4>1 DEF Listens
        <5>3. \A f \in UpFlags(a, p, e) : f.proc = a
          BY <1>0, <5>2, LinkParts
        <5>4. CASE a # to
          BY <1>8, <1>17, <5>1, <5>3, <5>4
        <5>5. CASE a = to /\ e # c
          <6>1. Owned(a) /\ InUse(a, c)
            BY <1>0, <1>7, <5>5 DEF SInv, LocalOK, Listens
          <6>2. /\ UpFlags(a, p, e) \cap UpFlags(a, p, c) = {}
                /\ DownPuts(a, p, e) \cap DownPuts(a, p, c) = {}
            BY <1>0, <5>2, <5>5, <6>1, Apart
          <6>3. DstFlag(to, p, c, d) \in UpFlags(to, p, c)
            BY <1>7 DEF UpFlags
          <6> QED
            BY <1>8, <1>17, <1>18, <5>1, <5>5, <6>2, <6>3
        <5> QED
          BY <3>2, <5>4, <5>5
      <4> QED
        BY <1>13, <1>20, <2>1, <2>3, <4>1, EffectSends
    <3> QED
      BY <3>1, <3>2
  <2>4. CASE a = p
    <3>1. Listens(p, x, e) /\ InUse(p, e)
      BY <1>16, <1>20, <2>4 DEF Listens
    <3>2. x # p
      <4>1. inst[p][e].gen \in 1..Len(prog.dirs[e])
        BY <1>0, <3>1, LinkTyped
      <4> QED
        BY <1>0, <3>1, <4>1, NoLoop DEF Listens, Links
    <3>3. DoneFlag(p, x, e) \notin lost /\ sent[x] \cap UpPuts(p, x, e) = {}
      <4>1. DoneFlag(p, x, e).name = "PUTDONE"
        BY FlagIs DEF DoneFlag
      <4>2. UpPuts(p, x, e) \subseteq UpPut
        BY <1>0, <3>1, LinkParts
      <4> QED
        BY <1>17, <1>18, <4>1, <4>2
    <3> QED
      BY <1>13, <1>15, <2>1, <2>4, <3>1, <3>2, <3>3, EffectReceives
  <2> QED
    BY <2>2, <2>3, <2>4
<1>21. \A a, x \in Proc : NotAhead(a, x)'
  <2>1. \A x \in Proc : x # p => Own(x)' = Own(x)
    BY <1>13 DEF Effect
  <2>2. \A a, x \in Proc : NotAhead(a, x)
    BY DEF LinkInv
  <2>3. \A x \in Proc, e \in Cid : \A h : \A k \in Edges(p, x, e, h) :
          Sent(p, e, h, k)' => Sent(p, e, h, k) \/ Past(x, e, h, "DR")
    <3>1. Past(to, c, g, "DR")
      BY <1>7 DEF DstDue, Opened, Past
    <3> QED
      BY <1>11, <1>12, <3>1
  <2>4. \A e, h, o : /\ Past(p, e, h, o)' <=> Past(p, e, h, o)
                     /\ inst'[p][e].gen = inst[p][e].gen
    BY <1>9, <1>10 DEF Past
  <2> QED
    BY <1>0, <1>9, <1>11, <2>1, <2>2, <2>3, <2>4, AheadAll
<1>22. \A x \in Proc : DirsOK(x)' /\ AddrOK(x)'
  <2>1. \A x \in Proc : x # p => DirsOK(x)' /\ AddrOK(x)'
    BY <1>13, AddrOwn DEF Effect, LinkInv
  <2>2. DirsOK(p)'
    <3>1. \A e \in Cid : InUse(p, e)' =>
            /\ InUse(p, e) /\ inst'[p][e].gen = inst[p][e].gen
            /\ RecvInfo(p, e)' = RecvInfo(p, e)
            /\ SameEnds(p, e)
      BY <1>9, <1>10 DEF SameEnds
    <3> QED
      BY <1>0, <1>9, <3>1, DirsKeep
  <2>3. AddrOK(p)'
    <3> SUFFICES ASSUME NEW e \in Cid, InUse(p, e)', NEW k \in DOMAIN SendInfo(p, e)'
          PROVE (LET v == SendInfo(p, e)[k].remmeminfo IN
                /\ v \in {NoBlock, Here(p, e, k)}
                /\ v # NoBlock =>
                     "SR" \in inst[p][e].done \/
                       (/\ May(p, "SR", e)
                        /\ k \in step[p] \/ IsNext(k, DOMAIN SendInfo(p, e) \ step[p]))
                /\ k \in Out(p, e) =>
                     v # NoBlock /\ \A i \in DOMAIN SendInfo(p, e) : i < k => i \in Out(p, e))'
      BY DEF AddrOK
    <3>1. InUse(p, e) /\ SendInfo(p, e)' = SendInfo(p, e) /\ k \in DOMAIN SendInfo(p, e)
      BY <1>10
    <3> DEFINE v == SendInfo(p, e)[k].remmeminfo
    <3>3. /\ v \in {NoBlock, Here(p, e, k)}
          /\ v # NoBlock =>
                     "SR" \in inst[p][e].done \/
                       (/\ May(p, "SR", e)
                        /\ k \in step[p] \/ IsNext(k, DOMAIN SendInfo(p, e) \ step[p]))
          /\ k \in Out(p, e) =>
                     v # NoBlock /\ \A i \in DOMAIN SendInfo(p, e) : i < k => i \in Out(p, e)
      BY Zenon, <1>0, <3>1 DEF AddrOK
    <3>4. Here(p, e, k)' = Here(p, e, k) /\ v' = v
      BY <1>9, <3>1 DEF Here
    <3> HIDE DEF v
    <3>5. CASE e = c
      <4>1. /\ \A i \in DOMAIN SendInfo(p, c) \ step[p] : d <= i
            /\ d \in DOMAIN SendInfo(p, c)
        BY <1>4 DEF IsNext
      <4>2. \A i \in DOMAIN SendInfo(p, c) : i \in Nat
        <5>1. SendInfo(p, c) \in Maps(Send)
          BY <1>0, InfoTyped
        <5>2. DOMAIN SendInfo(p, c) \subseteq 1..MaxDirs
          BY <5>1 DEF Maps
        <5> QED
          BY <5>2
      <4>3. IsNext(k, DOMAIN SendInfo(p, c) \ step[p]) => k = d
        BY <1>4, <4>2 DEF IsNext
      <4>4. \A i \in DOMAIN SendInfo(p, c) : i < d => i \in step[p]
        BY <4>1, <4>2
      <4>5. k \in Out(p, c)' =>
              v # NoBlock /\ \A i \in DOMAIN SendInfo(p, c) : i < k => i \in Out(p, c)'
        <5>1. CASE k = d
          BY <1>5, <1>10, <3>5, <4>4, <5>1 DEF v
        <5>2. CASE k # d
          BY <1>4, <1>10, <3>3, <3>5, <5>2
        <5> QED
          BY <5>1, <5>2
      <4>6. v # NoBlock =>
              "SR" \in inst'[p][c].done \/ (May(p, "SR", c)' /\ k \in step'[p])
        BY <1>9, <1>10, <3>3, <3>5, <4>3
      <4> QED
        BY <3>1, <3>3, <3>4, <3>5, <4>5, <4>6 DEF v
    <3>6. CASE e # c
      BY <1>9, <1>10, <3>1, <3>3, <3>4, <3>6 DEF v
    <3> QED
      BY <3>5, <3>6
  <2> QED
    BY <2>1, <2>2, <2>3
<1> QED
  BY <1>19, <1>20, <1>21, <1>22 DEF LinksOK
-----------------------------------------------------------------------------
\* The link whose PUTDONE SR raises, behind its data.
LEMMA FlowReturn ==
  ASSUME SInv, NEW q \in Proc, NEW p \in Proc, p # q, NEW c \in Cid, Listens(q, p, c),
         Flow(q, p, c), NEW g, g = inst[q][c].gen, NEW lost, NEW sent, Effect(p, lost, sent),
         lost = {}, sent[q] = {PutFlag(DoneFlag(q, p, c), 0)},
         puts'[p][q] = AddPuts(Fence(puts[p][q]), sent[q]), Opened(q, c),
         ~Over(p, c, g), Over(p, c, g)', Took(p, q, c, g), Took(p, q, c, g)',
         \A d \in Links(q, p, c) : Sent(p, c, g, d) /\ Sent(p, c, g, d)'
  PROVE  Flow(q, p, c)'
<1> DEFINE L == Links(q, p, c)
           y == PutFlag(DoneFlag(q, p, c), 0)
<1>0. CallsInv /\ SHMEMTypeOK /\ InUse(q, c) /\ puts[p][q] \in Seq(SUBSET PutSet)
  BY Zenon DEF SInv, Listens, SHMEMTypeOK
<1>1. RecvView(q, c) /\ prog' = prog /\ inst'[q][c].gen = inst[q][c].gen
  BY OwnViews DEF Effect
<1>2. ObjectsStay(q, p, c) /\ (Opened(q, c)' <=> Opened(q, c))
  BY <1>1, ViewDues
<1>3. /\ ReadyDue(q, p, c)' <=> ReadyDue(q, p, c)
      /\ ~DoneDue(q, p, c) /\ DoneDue(q, p, c)' /\ Opened(q, c)'
      /\ \A d \in L : /\ DstDue(q, p, c, d)' <=> DstDue(q, p, c, d)
                      /\ DataDue(q, p, c, d)' /\ DataDue(q, p, c, d)
  BY <1>1, <1>2 DEF ReadyDue, DoneDue, DstDue, DataDue
<1>4. /\ puts'[q] = puts[q] /\ flags'[q] = flags[q] /\ remmem' = remmem /\ ghost' = ghost
      /\ \A f : f \in flags'[p] <=> f \in flags[p]
      /\ \A K : Keeps(puts[q][p], puts'[q][p], K)
      /\ \A x : x \in In(puts'[p][q]) <=> x \in In(puts[p][q]) \/ x = y
      /\ y \in sent[q]
  BY SameKeeps DEF Effect
<1>5. /\ DoneFlag(q, p, c)' = DoneFlag(q, p, c) /\ L' = L /\ y' = y
      /\ \A d : DataPut(q, p, c, d)' = DataPut(q, p, c, d)
  BY <1>2, SameObjects DEF ObjectsStay
<1>6. y \notin In(puts[p][q]) /\ DoneFlag(q, p, c) \notin flags[q] /\ y.flag = DoneFlag(q, p, c)
  BY <1>3, PutIs DEF Flow, DoneOK, Signal
<1>7. y \in PutSet
  <2>1. handle[q][c] \in Slot
    BY <1>0 DEF SHMEMTypeOK
  <2> QED
    BY <2>1, SignalType, MaxDirsAssumption DEF DoneFlag
<1> DEFINE K == UpPuts(q, p, c)
<1>8. /\ Keeps(puts[q][p], puts'[q][p], K)
      /\ PutFlag(ReadyFlag(q, c), 0) \in K
      /\ \A d \in L : BlockPut(q, p, c, d) \in K /\ PutFlag(DstFlag(q, p, c, d), d) \in K
  BY <1>4 DEF UpPuts
<1> HIDE DEF K, y
<1>9. ReadyOK(q, p, c)' /\ \A d \in L : BlockOK(q, p, c, d)'
  <2>1. \A d \in L : Stored(q, p, c, d) => Stored(q, p, c, d)'
    BY <1>2, <1>4, <1>5, SameObjects DEF Stored, ObjectsStay
  <2> QED
    BY <1>2, <1>3, <1>4, <1>8, <2>1, ReadyStays DEF Flow
<1>10. ASSUME NEW d \in L PROVE DstOK(q, p, c, d)'
  BY <1>2, <1>3, <1>4, <1>8, DstStays DEF Flow
<1>11. Once(puts'[p][q], y)
  <2>1. Fence(puts[p][q]) \in Seq(SUBSET PutSet) /\ In(Fence(puts[p][q])) = In(puts[p][q])
    BY <1>0, FenceType, FenceKeeps
  <2>2. sent[q] \in SUBSET PutSet
    BY <1>7 DEF y
  <2> QED
    <3> DEFINE b == Fence(puts[p][q])
    <3> HIDE DEF b
    <3>1. \A x : x \notin In(b) => Once(AddPuts(b, sent[q]), x)
      BY <2>1, <2>2, AddIn DEF b
    <3> QED
      BY <1>6, <2>1, <3>1 DEF b
<1>12. DoneOK(q, p, c)'
  BY <1>3, <1>4, <1>5, <1>6, <1>11 DEF DoneOK, Signal, y
<1>13. ASSUME NEW d \in L PROVE DataOK(q, p, c, d)'
  <2>1. DataPut(q, p, c, d) # y
    BY PutIs DEF DataPut, y
  <2>2. Earlier(puts'[p][q], DataPut(q, p, c, d), y)
    <3>1. sent[q] \in SUBSET PutSet /\ DataPut(q, p, c, d) \notin sent[q]
      BY <1>7, <2>1 DEF y
    <3> QED
      BY <1>0, <1>6, <3>1, FenceAfter
  <2>3. DataOK(q, p, c, d)
    BY DEF Flow
  <2>4. DataPut(q, p, c, d) \in In(puts'[p][q]) \/ Arrived(q, p, c, d)
    BY <1>3, <1>4, <2>3 DEF DataOK
  <2>5. Arrived(q, p, c, d)' <=> Arrived(q, p, c, d)
    BY <1>1, <1>4 DEF Arrived
  <2> QED
    BY <1>3, <1>4, <1>5, <1>6, <2>2, <2>4, <2>5 DEF DataOK, y
<1> QED
  BY <1>5, <1>9, <1>10, <1>12, <1>13 DEF Flow

\* Where SR is when it returns: all data is out.
LEMMA ReturnPlace ==
  ASSUME LinkInv, NEW p \in Proc, NEW c \in Cid, May(p, "SR", c),
         step[p] = DOMAIN SendInfo(p, c), NEW q \in Proc
  PROVE  /\ ~Over(p, c, inst[p][c].gen)
         /\ counters[p][handle[p][c]][q].count = 0
         /\ counters[p][handle[p][c]][q].sends = Cardinality(With(SendInfo(p, c), q))
         /\ With(SendInfo(p, c), q) = Edges(p, q, c, inst[p][c].gen)
         /\ Edges(p, q, c, inst[p][c].gen) # {} =>
              /\ Cardinality(With(SendInfo(p, c), q)) > 0
              /\ Listens(q, p, c) /\ Opened(q, c) /\ inst[q][c].gen = inst[p][c].gen
              /\ handle[q][c] = handle[p][c]
              /\ Took(p, q, c, inst[p][c].gen)
         /\ \A d \in Edges(p, q, c, inst[p][c].gen) : Sent(p, c, inst[p][c].gen, d)
<1> DEFINE g == inst[p][c].gen
           D == Edges(p, q, c, g)
           s == handle[p][c]
           W == With(SendInfo(p, c), q)
<1>0. SInv /\ CallsInv /\ SHMEMTypeOK /\ LockInv /\ DirsOK(p) /\ AddrOK(p) /\ CountersOK(p)
      /\ NotAhead(q, p)
  BY DEF LinkInv, LockInv, SInv, LocalOK
<1>1. InUse(p, c) /\ Out(p, c) = DOMAIN SendInfo(p, c) /\ "SR" \notin inst[p][c].done
  BY <1>0, InSR DEF May
<1>2. g \in Nat /\ g \in 1..Len(prog.dirs[c])
  BY <1>0, <1>1, OpenGen DEF InUse
<1>3. ~Over(p, c, g)
  BY <1>1, <1>2 DEF Over, InUse
<1>4. W = D /\ \A d \in D : d \in DOMAIN SendInfo(p, c)
  BY <1>0, <1>1, InfoLinks
<1>5. W \in SUBSET (1..MaxDirs)
  BY <1>0, <1>1, <1>2, <1>4, LinksFew
<1> HIDE DEF D, g, s, W
<1>6. Cardinality(W) \in Nat /\ (W # {} => Cardinality(W) > 0)
  <2>1. Cardinality(W) \in 0..MaxDirs /\ (Cardinality(W) = 0 <=> W = {})
    BY <1>5, SetBound
  <2> QED
    BY <2>1, MaxDirsAssumption
<1>7. counters[p][s][q].count = 0 /\ counters[p][s][q].sends = Cardinality(W)
  <2>1. counters[p][s][q] = Total(p, c, q)
    BY <1>0, <1>1 DEF CountersOK, s
  <2>2. W \cap Out(p, c) = W
    BY <1>1 DEF W, With
  <2>3. Total(p, c, q).count = Advance(0, Cardinality(W), Cardinality(W))
        /\ Total(p, c, q).sends = Cardinality(W)
    BY <2>2 DEF Total, W
  <2> QED
    BY <1>6, <2>1, <2>3, AdvanceAll
<1>8. \A d \in D : Sent(p, c, g, d)
  BY <1>1, <1>4 DEF Sent, g
<1>9. ASSUME NEW d \in D
      PROVE  /\ Listens(q, p, c) /\ Opened(q, c) /\ inst[q][c].gen = g
             /\ handle[q][c] = s /\ Took(p, q, c, g)
  <2>1. Past(q, c, g, "DR") /\ ~Past(q, c, g, "DN")
    BY <1>0, <1>2, <1>3, <1>8 DEF NotAhead, D
  <2>2. inst[q][c].gen = g /\ InUse(q, c) /\ "DN" \notin inst[q][c].done /\ Opened(q, c)
    BY <2>1 DEF Past, Opened
  <2>3. Listens(q, p, c)
    BY <2>2 DEF Listens, Links, D
  <2>4. handle[q][c] = s
    BY <1>0, <1>1, <2>2, LockSame DEF g, s
  <2>5. SendInfo(p, c)[d].remmeminfo # NoBlock
    BY <1>0, <1>1, <1>4 DEF AddrOK
  <2>6. Took(p, q, c, g)
    BY <1>1, <2>5 DEF Took, D, g
  <2> QED
    BY <2>2, <2>3, <2>4, <2>6
<1>10. D # {} => /\ Cardinality(W) > 0
                 /\ Listens(q, p, c) /\ Opened(q, c) /\ inst[q][c].gen = g
                 /\ handle[q][c] = s /\ Took(p, q, c, g)
  BY Zenon, <1>4, <1>6, <1>9
<1> QED
  BY <1>3, <1>4, <1>7, <1>8, <1>10 DEF D, g, s, W
-----------------------------------------------------------------------------
LEMMA LinkSRReturn ==
  ASSUME LinkInv, NEW p \in Proc, SRReturn(p)
  PROVE  LinksOK'
<1>0. SInv /\ CallsInv /\ SHMEMTypeOK /\ DirsOK(p) /\ AddrOK(p)
  BY DEF LinkInv, LockInv, SInv
<1>1. PICK c \in Cid :
  LET s == handle[p][c]
      sends == SendInfo(p, c)
      n(q) == Cardinality(With(sends, q))
      done(q) == IF Reached(counters[p][s][q].count, n(q), counters[p][s][q].sends)
                 THEN {PutFlag(Flag("PUTDONE", s, p, 0), 0)} ELSE {}
  IN /\ Return(p, "SR", c)
     /\ step[p] = DOMAIN sends
     /\ puts' = [puts EXCEPT ![p] = [q \in Proc |->
          IF sends = <<>> THEN @[q] ELSE AddPuts(DataFence(@[q]), done(q))]]
     /\ step' = [step EXCEPT ![p] = {}]
     /\ UNCHANGED <<freelist, commbank, handle, flags, remmem, ghost>>
  BY DEF SRReturn
<1>g. PICK g : g = inst[p][c].gen
  OBVIOUS
<1> DEFINE o == "SR"
           put == PutFlag(Flag("PUTDONE", handle[p][c], p, 0), 0)
           sent == [x \in Proc |-> IF Edges(p, x, c, g) = {} THEN {} ELSE {put}]
           lost == {}
<1>2. o \in Op /\ o # "NEW" /\ o # "OLD" /\ o # "DR" /\ o # "DN" /\ o = "SR" /\ Return(p, o, c)
  BY <1>1 DEF Op
<1> HIDE DEF o
<1>3. /\ step[p] = DOMAIN SendInfo(p, c) /\ step' = [step EXCEPT ![p] = {}]
      /\ UNCHANGED <<commbank, handle, flags, remmem, ghost>>
  BY <1>1
<1>4. /\ InUse(p, c) /\ InUse(p, c)' /\ prog' = prog /\ May(p, "SR", c)
      /\ \A e \in Cid : e # c => inst'[p][e] = inst[p][e]
  BY Zenon, <1>0, <1>2, ReturnDone DEF Return
<1>5. inst'[p][c].done = inst[p][c].done \cup {"SR"}
  <2>1. inst'[p][c] = [done |-> DoneAfter(inst[p][c].done, o), gen |-> Gen(p, c)]
    BY <1>0, <1>2, ReturnStep
  <2> QED
    BY <1>2, <2>1 DEF DoneAfter
<1>6. /\ \A e \in Cid : RecvView(p, e)
      /\ \A e \in Cid : inst'[p][e].gen = inst[p][e].gen
      /\ \A e \in Cid : \A h :
           /\ Past(p, e, h, "DR") <=> Past(p, e, h, "DR")'
           /\ Past(p, e, h, "DN")' <=> Past(p, e, h, "DN")
  BY <1>0, <1>2, <1>3, CallReceives
<1>7. /\ ~Over(p, c, g)
      /\ \A x \in Proc : Edges(p, x, c, g) # {} =>
           /\ Listens(x, p, c) /\ Opened(x, c) /\ inst[x][c].gen = g
           /\ handle[x][c] = handle[p][c] /\ Took(p, x, c, g)
      /\ \A x \in Proc : \A d \in Edges(p, x, c, g) : Sent(p, c, g, d)
  <2>1. ASSUME NEW x \in Proc
        PROVE  /\ ~Over(p, c, inst[p][c].gen)
               /\ Edges(p, x, c, inst[p][c].gen) # {} =>
                    /\ Listens(x, p, c) /\ Opened(x, c) /\ inst[x][c].gen = inst[p][c].gen
                    /\ handle[x][c] = handle[p][c]
                    /\ Took(p, x, c, inst[p][c].gen)
               /\ \A d \in Edges(p, x, c, inst[p][c].gen) : Sent(p, c, inst[p][c].gen, d)
    <3>1. May(p, "SR", c) /\ step[p] = DOMAIN SendInfo(p, c)
      BY <1>3, <1>4
    <3> QED
      BY Zenon, <3>1, ReturnPlace
  <2> QED
    BY <1>g, <2>1
<1>8. ASSUME NEW x \in Proc, Edges(p, x, c, g) # {}
      PROVE  sent[x] = {PutFlag(DoneFlag(x, p, c), 0)}
  BY <1>7, <1>8 DEF DoneFlag
<1>9. /\ g \in Nat /\ inst'[p][c].gen = g /\ Over(p, c, g)'
      /\ \A e \in Cid : Out(p, e)' = {}
      /\ \A e \in Cid : (InUse(p, e)' <=> InUse(p, e))
      /\ \A e \in Cid : SendInfo(p, e)' = SendInfo(p, e) /\ RecvInfo(p, e)' = RecvInfo(p, e)
  <2>1. g \in Nat
    BY <1>0, <1>4, <1>g, OpenGen DEF InUse
  <2>2. inst'[p][c].gen = g
    BY <1>6, <1>g
  <2>3. Over(p, c, g)'
    BY <1>5, <2>2 DEF Over
  <2>4. step'[p] = {}
    BY <1>0, <1>3 DEF SHMEMTypeOK
  <2> QED
    BY <1>3, <1>6, <2>1, <2>2, <2>3, <2>4 DEF Out, RecvView, SendInfo, RecvInfo
<1>10. ASSUME NEW e \in Cid, NEW h, e # c \/ h # g
       PROVE  /\ Over(p, e, h)' <=> Over(p, e, h)
              /\ \A x \in Proc : SendView(p, x, e, h)
  <2>1. Over(p, e, h)' <=> Over(p, e, h)
    <3>1. CASE e = c
      BY <1>6, <1>9, <1>10, <1>g, <3>1 DEF Over
    <3>2. CASE e # c
      BY <1>4, <3>2 DEF Over
    <3> QED
      BY <3>1, <3>2
  <2>2. \A x \in Proc : Took(p, x, e, h)' <=> Took(p, x, e, h)
    <3>1. \A x \in Proc : Edges(p, x, e, h)' = Edges(p, x, e, h)
      BY <1>4 DEF Edges
    <3> QED
      BY <1>6, <1>9, <2>1, <3>1 DEF Took
  <2>3. \A k : Sent(p, e, h, k)' <=> Sent(p, e, h, k)
    <3>1. CASE e = c
      BY <1>6, <1>9, <1>10, <1>g, <2>1, <3>1 DEF Sent
    <3>2. CASE e # c
      <4>1. Out(p, e) = {}
        <5>1. ~May(p, "SR", e)
          BY <1>0, <1>4, <3>2, InSR
        <5> QED
          BY <5>1 DEF Out
      <4> QED
        BY <1>9, <2>1, <4>1 DEF Sent
    <3> QED
      BY <3>1, <3>2
  <2> QED
    BY <2>1, <2>2, <2>3 DEF SendView
<1>11. \A x \in Proc : /\ Took(p, x, c, g)'
                       /\ \A d : Sent(p, c, g, d)'
  BY <1>9 DEF Took, Sent
<1>12. /\ \A x \in Proc : x # p => puts'[x] = puts[x]
       /\ \A x \in Proc : \/ puts'[p][x] = puts[p][x] /\ sent[x] = {}
                          \/ puts'[p][x] = AddPuts(Fence(puts[p][x]), sent[x])
       /\ \A x \in Proc : Edges(p, x, c, g) # {} =>
            puts'[p][x] = AddPuts(Fence(puts[p][x]), sent[x])
  <2> DEFINE n(x) == Cardinality(With(SendInfo(p, c), x))
             done(x) == IF Reached(counters[p][handle[p][c]][x].count, n(x),
                                   counters[p][handle[p][c]][x].sends)
                        THEN {put} ELSE {}
  <2>1. puts' = [puts EXCEPT ![p] = [x \in Proc |->
          IF SendInfo(p, c) = <<>> THEN puts[p][x] ELSE AddPuts(Fence(puts[p][x]), done(x))]]
    BY <1>1 DEF DataFence
  <2>2. ASSUME NEW x \in Proc
        PROVE  /\ done(x) = sent[x]
               /\ Edges(p, x, c, g) # {} => SendInfo(p, c) # <<>>
    <3>1. /\ counters[p][handle[p][c]][x].count = 0
          /\ counters[p][handle[p][c]][x].sends = n(x)
          /\ With(SendInfo(p, c), x) = Edges(p, x, c, g)
          /\ Edges(p, x, c, g) # {} => n(x) > 0
      BY <1>3, <1>4, <1>g, ReturnPlace
    <3>2. n(x) = IF Edges(p, x, c, g) = {} THEN 0 ELSE n(x)
      BY <3>1, FS_EmptySet
    <3>3. n(x) \in Nat
      <4>1. g \in 1..Len(prog.dirs[c])
        BY <1>0, <1>4, <1>g, OpenGen DEF InUse
      <4>2. Edges(p, x, c, g) \in SUBSET (1..MaxDirs)
        BY <1>0, <4>1, LinksFew
      <4> QED
        BY <3>1, <4>2, SetBound, MaxDirsAssumption
    <3> DEFINE m == n(x)
               k == counters[p][handle[p][c]][x]
    <3> HIDE DEF m, k
    <3>4. Reached(k.count, m, k.sends) <=> Edges(p, x, c, g) # {}
      BY <3>1, <3>2, <3>3 DEF Reached, m, k
    <3>5. done(x) = sent[x]
      BY <3>4 DEF m, k
    <3>6. SendInfo(p, c) = <<>> => With(SendInfo(p, c), x) = {}
      BY DEF With
    <3> QED
      BY Zenon, <3>1, <3>5, <3>6
  <2> HIDE DEF done, sent, put
  <2>3. \A x \in Proc : SendInfo(p, c) = <<>> => sent[x] = {}
    BY <2>2 DEF sent
  <2>4. \A x \in Proc : puts'[p][x] =
          IF SendInfo(p, c) = <<>> THEN puts[p][x] ELSE AddPuts(Fence(puts[p][x]), done(x))
    BY <1>0, <2>1 DEF SHMEMTypeOK
  <2>5. \A x \in Proc : x # p => puts'[x] = puts[x]
    BY <1>0, <2>1 DEF SHMEMTypeOK
  <2> QED
    BY <2>2, <2>3, <2>4, <2>5
<1> HIDE DEF put, lost
<1>13. /\ \A x \in Proc : sent[x] \cap UpPut = {}
       /\ \A x \in Proc : sent[x] # {} => Edges(p, x, c, g) # {}
  BY PutKinds DEF put
<1> HIDE DEF sent
<1>14. lost = {} /\ Effect(p, lost, sent)
  <2>1. Step(p)
    BY DEF Step
  <2>2. flags' = [flags EXCEPT ![p] = flags[p] \ lost]
    BY <1>0, <1>3 DEF SHMEMTypeOK, lost
  <2> QED
    BY <1>0, <1>3, <1>12, <2>1, <2>2, EffectOf DEF lost
<1>16. \A x \in Proc, e \in Cid :
         /\ ObjectsStay(p, x, e)
         /\ Listens(p, x, e)' <=> Listens(p, x, e)
  BY <1>4, <1>6, ViewDues
<1>19. \A a, x \in Proc : NoStray(a, x)'
  <2>1. \A x \in Proc, e \in Cid : Listens(p, x, e) =>
          Silent(p, x, e) \/ (Listens(p, x, e)' /\ ObjectsStay(p, x, e))
    BY <1>16
  <2>2. \A a, x \in Proc : NoStray(a, x)
    BY DEF LinkInv
  <2>3. \A x \in Proc : \A y \in sent[x] \cap DownPut :
          \E e \in Cid : Listens(x, p, e)' /\ y \in DownPuts(x, p, e)'
    <3> SUFFICES ASSUME NEW x \in Proc, NEW y \in sent[x]
                 PROVE  Listens(x, p, c)' /\ y \in DownPuts(x, p, c)'
      OBVIOUS
    <3>1. Edges(p, x, c, g) # {} /\ y = PutFlag(DoneFlag(x, p, c), 0)
      BY <1>8, <1>13
    <3>2. Listens(x, p, c) /\ y \in DownPuts(x, p, c)
      BY <1>7, <3>1 DEF DownPuts
    <3>3. RecvView(x, c)
      BY <1>6, <1>14, OwnViews DEF Effect
    <3>4. Listens(x, p, c)' /\ ObjectsStay(x, p, c)
      BY <1>4, <3>2, <3>3, ViewDues
    <3>5. DownPuts(x, p, c)' = DownPuts(x, p, c)
      BY <3>4, SameObjects
    <3> QED
      BY <3>2, <3>4, <3>5
  <2> QED
    BY <1>13, <1>14, <2>1, <2>2, <2>3, EffectStray
<1>20. ASSUME NEW a \in Proc, NEW x \in Proc, NEW e \in Cid, Listens(a, x, e)'
       PROVE  Flow(a, x, e)'
  <2>1. Listens(a, x, e) => Flow(a, x, e)
    BY DEF LinkInv
  <2>2. CASE a # p /\ x # p
    BY <1>14, <1>20, <2>1, <2>2, EffectThird
  <2>3. CASE x = p /\ a # p
    <3>0. Listens(a, p, e) /\ Flow(a, p, e)
      <4>1. RecvView(a, e)
        BY <1>14, <2>3, OwnViews DEF Effect
      <4> QED
        BY <1>4, <1>20, <2>1, <2>3, <4>1, ViewDues
    <3>1. CASE e = c /\ inst[a][c].gen = g
      <4>1. Edges(p, a, c, g) # {} /\ Links(a, p, c) = Edges(p, a, c, g)
        BY <3>0, <3>1 DEF Listens, Links
      <4>2. sent[a] = {PutFlag(DoneFlag(a, p, c), 0)}
        BY <1>8, <4>1
      <4>3. puts'[p][a] = AddPuts(Fence(puts[p][a]), sent[a])
        BY <1>12, <4>1
      <4>4. /\ Opened(a, c) /\ ~Over(p, c, g) /\ Over(p, c, g)'
            /\ Took(p, a, c, g) /\ Took(p, a, c, g)'
        BY <1>7, <1>9, <1>11, <4>1
      <4>5. \A d \in Links(a, p, c) : Sent(p, c, g, d) /\ Sent(p, c, g, d)'
        BY <1>7, <1>11, <4>1
      <4>6. g = inst[a][c].gen /\ p # a /\ Listens(a, p, c) /\ Flow(a, p, c)
        BY <2>3, <3>0, <3>1
      <4>7. Flow(a, p, c)'
        BY <1>0, <1>14, <4>2, <4>3, <4>4, <4>5, <4>6, FlowReturn
      <4> QED
        BY <2>3, <3>1, <4>7
    <3>2. CASE ~(e = c /\ inst[a][c].gen = g)
      <4>1. SendView(p, a, e, inst[a][e].gen)
        BY <1>10, <3>2
      <4>2. sent[a] \cap DownPuts(a, p, e) = {}
        <5>1. CASE Edges(p, a, c, g) = {}
          BY <1>13, <5>1
        <5>2. CASE Edges(p, a, c, g) # {}
          <6>1. Listens(a, p, c) /\ e # c
            BY <1>7, <3>2, <5>2
          <6>2. Owned(a) /\ InUse(a, c) /\ InUse(a, e)
            BY <1>0, <3>0, <6>1 DEF SInv, LocalOK, Listens
          <6>3. DownPuts(a, p, e) \cap DownPuts(a, p, c) = {}
            BY <1>0, <6>1, <6>2, Apart
          <6>4. PutFlag(DoneFlag(a, p, c), 0) \in DownPuts(a, p, c)
            BY DEF DownPuts
          <6> QED
            BY <1>8, <5>2, <6>3, <6>4
        <5> QED
          BY <5>1, <5>2
      <4> QED
        BY <1>14, <1>20, <2>3, <3>0, <4>1, <4>2, EffectSends
    <3> QED
      BY <3>1, <3>2
  <2>4. CASE a = p
    <3>1. Listens(p, x, e) /\ InUse(p, e)
      BY <1>16, <1>20, <2>4 DEF Listens
    <3>2. x # p
      <4>1. inst[p][e].gen \in 1..Len(prog.dirs[e])
        BY <1>0, <3>1, LinkTyped
      <4> QED
        BY <1>0, <3>1, <4>1, NoLoop DEF Listens, Links
    <3>3. DoneFlag(p, x, e) \notin lost /\ sent[x] \cap UpPuts(p, x, e) = {}
      <4>2. UpPuts(p, x, e) \subseteq UpPut
        BY <1>0, <3>1, LinkParts
      <4> QED
        BY <1>13, <1>14, <4>2
    <3> QED
      BY <1>6, <1>14, <2>1, <2>4, <3>1, <3>2, <3>3, EffectReceives
  <2> QED
    BY <2>2, <2>3, <2>4
<1>21. \A a, x \in Proc : NotAhead(a, x)'
  <2>1. \A x \in Proc : x # p => Own(x)' = Own(x)
    BY <1>14 DEF Effect
  <2>2. \A a, x \in Proc : NotAhead(a, x)
    BY DEF LinkInv
  <2>3. ASSUME NEW x \in Proc, NEW e \in Cid, NEW h, Edges(p, x, e, h) # {}
        PROVE  /\ Took(p, x, e, h)' => Took(p, x, e, h) \/ inst[x][e].gen >= h
               /\ \A k \in Edges(p, x, e, h) :
                    Sent(p, e, h, k)' => Sent(p, e, h, k) \/ Past(x, e, h, "DR")
               /\ Over(p, e, h) => Over(p, e, h)'
    <3>1. CASE e = c /\ h = g
      BY <1>7, <2>3, <3>1
    <3>2. CASE e # c \/ h # g
      BY <1>10, <3>2 DEF SendView
    <3> QED
      BY <3>1, <3>2
  <2> QED
    BY <1>0, <1>4, <1>6, <2>1, <2>2, <2>3, AheadAll
<1>22. \A x \in Proc : DirsOK(x)' /\ AddrOK(x)'
  <2>1. \A x \in Proc : x # p => DirsOK(x)' /\ AddrOK(x)'
    BY <1>14, AddrOwn DEF Effect, LinkInv
  <2>2. DirsOK(p)'
    <3>1. \A e \in Cid : InUse(p, e)' =>
            /\ InUse(p, e) /\ inst'[p][e].gen = inst[p][e].gen
            /\ RecvInfo(p, e)' = RecvInfo(p, e)
            /\ SameEnds(p, e)
      BY <1>4, <1>6, <1>9 DEF SameEnds
    <3> QED
      BY <1>0, <1>4, <3>1, DirsKeep
  <2>3. AddrOK(p)'
    <3> SUFFICES ASSUME NEW e \in Cid, InUse(p, e)', NEW k \in DOMAIN SendInfo(p, e)'
          PROVE (LET v == SendInfo(p, e)[k].remmeminfo IN
                /\ v \in {NoBlock, Here(p, e, k)}
                /\ v # NoBlock =>
                     "SR" \in inst[p][e].done \/
                       (/\ May(p, "SR", e)
                        /\ k \in step[p] \/ IsNext(k, DOMAIN SendInfo(p, e) \ step[p]))
                /\ k \in Out(p, e) =>
                     v # NoBlock /\ \A i \in DOMAIN SendInfo(p, e) : i < k => i \in Out(p, e))'
      BY DEF AddrOK
    <3>1. InUse(p, e) /\ SendInfo(p, e)' = SendInfo(p, e) /\ k \in DOMAIN SendInfo(p, e)
      BY <1>9
    <3> DEFINE v == SendInfo(p, e)[k].remmeminfo
    <3>3. /\ v \in {NoBlock, Here(p, e, k)}
          /\ v # NoBlock => "SR" \in inst[p][e].done \/ May(p, "SR", e)
      BY <1>0, <3>1 DEF AddrOK
    <3>4. Here(p, e, k)' = Here(p, e, k) /\ v' = v
      BY <1>6, <3>1 DEF Here
    <3> HIDE DEF v
    <3>5. v # NoBlock => "SR" \in inst'[p][e].done
      <4>1. CASE e = c
        BY <1>5, <4>1
      <4>2. CASE e # c
        <5>1. ~May(p, "SR", e)
          BY <1>0, <1>4, <4>2, InSR
        <5> QED
          BY <1>4, <3>3, <4>2, <5>1
      <4> QED
        BY <4>1, <4>2
    <3> QED
      BY <1>9, <3>3, <3>4, <3>5 DEF v
  <2> QED
    BY <2>1, <2>2, <2>3
<1> QED
  BY <1>19, <1>20, <1>21, <1>22 DEF LinksOK
-----------------------------------------------------------------------------
\* Nothing that names a free descriptor is up or under way.
Unnamed(q, p, s, c) ==
  /\ \A f \in flags[p] : f.proc = q /\ f.name \in UpFlag => f.slot # s
  /\ \A x \in In(puts[q][p]) :
       /\ x.kind = "flag" /\ x.flag.name \in UpFlag => x.flag.slot # s
       /\ x.kind = "block" => x.slot # s
  /\ \A x \in In(puts[p][q]) :
       /\ x.kind = "flag" /\ x.flag.name = "PUTDONE" => x.flag.slot # s
       /\ x.kind = "data" => x.block.area # c

LEMMA FreeQuiet ==
  ASSUME SInv, NEW q \in Proc, NEW p \in Proc, NoStray(q, p), NEW s, NEW c \in Cid,
         ~InUse(q, c), \A e \in Cid : InUse(q, e) => handle[q][e] # s
  PROVE  Unnamed(q, p, s, c)
<1>0. CallsInv /\ SHMEMTypeOK
  BY DEF SInv
<1>1. \A e \in Cid : Listens(q, p, e) => InUse(q, e) /\ e # c /\ handle[q][e] # s
  BY DEF Listens
<1>2. In(puts[q][p]) \subseteq PutSet /\ In(puts[p][q]) \subseteq PutSet
  <2>1. ASSUME NEW b \in Seq(SUBSET PutSet) PROVE In(b) \subseteq PutSet
    BY InIs
  <2>2. puts[q][p] \in Seq(SUBSET PutSet) /\ puts[p][q] \in Seq(SUBSET PutSet)
    BY <1>0 DEF SHMEMTypeOK
  <2> QED
    BY <2>1, <2>2
<1>3. ASSUME NEW f \in flags[p], f.proc = q, f.name \in UpFlag PROVE f.slot # s
  <2>1. PICK e \in Cid : Listens(q, p, e) /\ f \in UpFlags(q, p, e)
    BY <1>3 DEF NoStray
  <2> QED
    BY <1>0, <1>1, <2>1, LinkParts
<1>4. ASSUME NEW x \in In(puts[q][p])
      PROVE  /\ x.kind = "flag" /\ x.flag.name \in UpFlag => x.flag.slot # s
             /\ x.kind = "block" => x.slot # s
  <2>1. CASE x \in UpPut
    <3>1. PICK e \in Cid : Listens(q, p, e) /\ x \in UpPuts(q, p, e)
      BY <2>1 DEF NoStray
    <3>2. /\ \A f \in UpFlags(q, p, e) : f.slot = handle[q][e]
          /\ \/ x.kind = "flag" /\ x.flag \in UpFlags(q, p, e)
             \/ x.kind = "block" /\ x.slot = handle[q][e]
      BY <1>0, <1>1, <3>1, LinkParts
    <3> QED
      BY <1>1, <3>1, <3>2
  <2>2. CASE x \notin UpPut
    BY <1>2, <2>2 DEF UpPut
  <2> QED
    BY <2>1, <2>2
<1>5. ASSUME NEW x \in In(puts[p][q])
      PROVE  /\ x.kind = "flag" /\ x.flag.name = "PUTDONE" => x.flag.slot # s
             /\ x.kind = "data" => x.block.area # c
  <2>1. CASE x \in DownPut
    <3>1. PICK e \in Cid : Listens(q, p, e) /\ x \in DownPuts(q, p, e)
      BY <2>1 DEF NoStray
    <3>2. /\ DoneFlag(q, p, e).slot = handle[q][e]
          /\ \/ x.kind = "flag" /\ x.flag = DoneFlag(q, p, e)
             \/ x.kind = "data" /\ x.block.area = e
      BY <1>0, <1>1, <3>1, LinkParts
    <3> QED
      BY <1>1, <3>1, <3>2
  <2>2. CASE x \notin DownPut
    BY <1>2, <2>2 DEF DownPut
  <2> QED
    BY <2>1, <2>2
<1> QED
  BY <1>3, <1>4, <1>5 DEF Unnamed

\* The link that NEW sets up: its blocks, and behind them REMMEMREADY.
LEMMA FlowNew ==
  ASSUME SInv, NEW q \in Proc, NEW p \in Proc, p # q, NEW c \in Cid, ~InUse(q, c),
         NoStray(q, p), NEW g, g = inst'[q][c].gen, NEW s, s = handle'[q][c],
         \A e \in Cid : InUse(q, e) => handle[q][e] # s,
         ~Opened(q, c)', ~Took(p, q, c, g)',
         NEW W, W = Links(q, p, c)', Blocks(s, c, g, W) \subseteq PutSet,
         NEW ready \in PutSet, ready = PutFlag(Flag("REMMEMREADY", s, q, 0), 0),
         puts'[p] = puts[p], flags'[p] = flags[p],
         puts'[q][p] = AddPuts(Fence(AddPuts(puts[q][p], Blocks(s, c, g, W))), {ready})
  PROVE  Flow(q, p, c)'
<1> DEFINE B == Blocks(s, c, g, W)
           b1 == AddPuts(puts[q][p], B)
           f == Flag("REMMEMREADY", s, q, 0)
           blk(d) == PutBlock(s, Rank(W, d), [area |-> c, gen |-> g, dir |-> d])
           dst(d) == Flag("DSTREADY", s, q, Rank(W, d))
           don == Flag("PUTDONE", s, p, 0)
<1>0. puts[q][p] \in Seq(SUBSET PutSet)
  BY DEF SInv, SHMEMTypeOK
<1>1. /\ ReadyFlag(q, c)' = f /\ DoneFlag(q, p, c)' = don
      /\ \A d : DstFlag(q, p, c, d)' = dst(d)
      /\ \A d : BlockPut(q, p, c, d)' = blk(d)
      /\ \A d : DataPut(q, p, c, d)'.kind = "data" /\ DataPut(q, p, c, d)'.block.area = c
  <2>1. \A d : Here(q, c, d)' = [area |-> c, gen |-> g, dir |-> d]
    BY DEF Here
  <2>2. ReadyFlag(q, c)' = f /\ DoneFlag(q, p, c)' = don
    BY DEF ReadyFlag, DoneFlag
  <2>3. \A d : Rank(Links(q, p, c), d)' = Rank(W, d)
    BY DEF Rank
  <2>4. \A d : DstFlag(q, p, c, d)' = dst(d) /\ BlockPut(q, p, c, d)' = blk(d)
    BY <2>1, <2>3 DEF DstFlag, BlockPut
  <2>5. \A d : DataPut(q, p, c, d)'.kind = "data" /\ DataPut(q, p, c, d)'.block.area = c
    BY <2>1, PutIs DEF DataPut
  <2> QED
    BY <2>2, <2>4, <2>5
<1>2. /\ f.name = "REMMEMREADY" /\ f.slot = s /\ f.proc = q
      /\ don.name = "PUTDONE" /\ don.slot = s
      /\ \A d : dst(d).name = "DSTREADY" /\ dst(d).slot = s /\ dst(d).proc = q
      /\ ready.kind = "flag" /\ ready.flag = f
      /\ \A d : blk(d).kind = "block" /\ blk(d).slot = s
      /\ B = {blk(d) : d \in W}
  BY FlagIs, PutIs DEF Blocks
<1>3. /\ \A d \in W : blk(d) \in B
      /\ \A x \in B : x.kind = "block"
  BY Zenon, <1>2
<1> HIDE DEF B, f, blk, dst, don
<1>4. /\ f \notin flags[p] /\ \A d : dst(d) \notin flags[p]
      /\ ready \notin In(puts[q][p])
      /\ \A d : PutFlag(dst(d), d) \notin In(puts[q][p])
      /\ PutFlag(don, 0) \notin In(puts[p][q])
      /\ \A d : DataPut(q, p, c, d)' \notin In(puts[p][q])
  <2>1. /\ \A h \in flags[p] : h.proc = q /\ h.name \in UpFlag => h.slot # s
        /\ \A x \in In(puts[q][p]) :
             /\ x.kind = "flag" /\ x.flag.name \in UpFlag => x.flag.slot # s
             /\ x.kind = "block" => x.slot # s
        /\ \A x \in In(puts[p][q]) :
             /\ x.kind = "flag" /\ x.flag.name = "PUTDONE" => x.flag.slot # s
             /\ x.kind = "data" => x.block.area # c
    <3>1. Unnamed(q, p, s, c)
      BY FreeQuiet
    <3> QED
      BY <3>1 DEF Unnamed
  <2>2. f.name \in UpFlag /\ \A d : dst(d).name \in UpFlag
    BY <1>2 DEF UpFlag
  <2> QED
    BY <1>1, <1>2, <2>1, <2>2, PutIs
<1>5. b1 \in Seq(SUBSET PutSet) /\ In(b1) = In(puts[q][p]) \cup B
  <2>1. B \in SUBSET PutSet
    BY DEF B
  <2> QED
    BY <1>0, <2>1, AddPutsType, AddIn
<1> HIDE DEF b1
<1>6. ready \notin In(b1)
  BY Zenon, <1>2, <1>3, <1>4, <1>5
<1>7. puts'[q][p] = AddPuts(Fence(b1), {ready}) /\ Fence(b1) \in Seq(SUBSET PutSet)
      /\ In(Fence(b1)) = In(b1)
  BY <1>5, FenceType, FenceKeeps DEF b1, B
<1>8. /\ In(puts'[q][p]) = In(puts[q][p]) \cup B \cup {ready}
      /\ Once(puts'[q][p], ready)
  <2>1. /\ In(AddPuts(Fence(b1), {ready})) = In(Fence(b1)) \cup {ready}
        /\ \A x : x \notin In(Fence(b1)) => Once(AddPuts(Fence(b1), {ready}), x)
    <3>1. {ready} \in SUBSET PutSet
      OBVIOUS
    <3> QED
      BY <1>7, <3>1, AddIn
  <2> QED
    BY <1>5, <1>6, <1>7, <2>1
<1>9. \A x : x # ready => Earlier(puts'[q][p], x, ready)
  <2>1. \A x : x # ready => Earlier(AddPuts(Fence(b1), {ready}), x, ready)
    BY <1>5, <1>6, FenceAfter
  <2> QED
    BY <1>7, <2>1
<1>10. ReadyDue(q, p, c)' /\ ~DoneDue(q, p, c)'
       /\ \A d : ~DstDue(q, p, c, d)' /\ ~DataDue(q, p, c, d)'
  BY Zenon DEF ReadyDue, DoneDue, DstDue, DataDue
<1>11. ReadyOK(q, p, c)'
  <2>1. PutFlag(ReadyFlag(q, c)', 0) = ready
    BY <1>1 DEF f
  <2> QED
    BY <1>1, <1>2, <1>4, <1>8, <1>10, <2>1 DEF ReadyOK, Signal
<1>12. ASSUME NEW d \in W PROVE DstOK(q, p, c, d)'
  <2>1. PutFlag(dst(d), d) # ready
    BY <1>2, PutIs
  <2>2. PutFlag(dst(d), d) \notin In(puts'[q][p])
    BY <1>3, <1>4, <1>8, <2>1, PutIs
  <2> QED
    BY <1>1, <1>4, <1>10, <2>2 DEF DstOK, Signal
<1>13. DoneOK(q, p, c)'
  BY <1>1, <1>4 DEF DoneOK
<1>14. ASSUME NEW d \in W PROVE BlockOK(q, p, c, d)'
  <2>1. blk(d) \in In(puts'[q][p]) /\ blk(d) # ready
    BY <1>2, <1>3, <1>8
  <2>2. Earlier(puts'[q][p], blk(d), ready)
    BY <1>9, <2>1
  <2>3. PutFlag(ReadyFlag(q, c)', 0) = ready
    BY <1>1 DEF f
  <2> QED
    BY <1>1, <1>4, <1>10, <2>1, <2>2, <2>3 DEF BlockOK
<1>15. ASSUME NEW d \in W PROVE DataOK(q, p, c, d)'
  BY <1>4, <1>10 DEF DataOK
<1> QED
  BY <1>11, <1>12, <1>13, <1>14, <1>15 DEF Flow
-----------------------------------------------------------------------------
\* What NEW sends to one processor.
LEMMA NewBatches ==
  ASSUME NEW b \in Seq(SUBSET PutSet), NEW B \in SUBSET PutSet, NEW R \in SUBSET PutSet
  PROVE  LET b1 == AddPuts(Fence(AddPuts(b, B)), R) IN
         /\ \A y : y \in In(b1) <=> y \in In(b) \/ y \in B \cup R
         /\ \A K : K \cap (B \cup R) = {} => Keeps(b, b1, K)
<1> DEFINE m == AddPuts(b, B)
           b1 == AddPuts(Fence(m), R)
<1>1. m \in Seq(SUBSET PutSet)
  BY AddPutsType
<1>2. /\ \A y : y \in In(m) <=> y \in In(b) \/ y \in B
      /\ \A K : K \cap B = {} => Keeps(b, m, K)
  BY AddEffect
<1> HIDE DEF m
<1>3. /\ \A y : y \in In(b1) <=> y \in In(m) \/ y \in R
      /\ \A K : K \cap R = {} => Keeps(m, b1, K)
  BY <1>1, AddEffect
<1> HIDE DEF b1
<1>4. \A y : y \in In(b1) <=> y \in In(b) \/ y \in B \cup R
  BY <1>2, <1>3
<1>5. ASSUME NEW K, K \cap (B \cup R) = {} PROVE Keeps(b, b1, K)
  <2>1. Keeps(b, m, K) /\ Keeps(m, b1, K)
    BY <1>2, <1>3, <1>5
  <2> QED
    BY <2>1, KeepsTwice
<1> QED
  BY <1>4, <1>5 DEF m, b1

\* NEW as the links see it.
NewAt(q, c, g, s, lost, sent) ==
  /\ ~InUse(q, c) /\ InUse(q, c)' /\ g \in Nat /\ g \in 1..Len(prog.dirs[c])
  /\ inst[q][c].gen = g - 1 /\ inst'[q][c] = [done |-> {"NEW"}, gen |-> g]
  /\ s = handle'[q][c] /\ s \in Slot /\ \A e \in Cid : InUse(q, e) => handle[q][e] # s
  /\ \A e \in Cid : e # c => inst'[q][e] = inst[q][e]
  /\ \A e \in Cid : ~May(q, "SR", e)
  /\ step'[q] = {}
  /\ DOMAIN SendInfo(q, c)' = SendDirs(q, prog.dirs[c][g])
  /\ DOMAIN RecvInfo(q, c)' = RecvDirs(q, prog.dirs[c][g])
  /\ \A d \in SendDirs(q, prog.dirs[c][g]) :
       SendInfo(q, c)'[d] = [proc |-> prog.dirs[c][g][d][q], area |-> c, remmeminfo |-> NoBlock]
  /\ \A d \in RecvDirs(q, prog.dirs[c][g]) :
       RecvInfo(q, c)'[d] = [proc |-> Source(q, prog.dirs[c][g], d), area |-> c]
  /\ \A e \in Cid : e # c /\ InUse(q, e) =>
       /\ handle'[q][e] = handle[q][e]
       /\ RecvInfo(q, e)' = RecvInfo(q, e) /\ SendInfo(q, e)' = SendInfo(q, e)
  /\ \A f \in lost : f.name = "REMMEMWRITABLE"
  /\ Effect(q, lost, sent)
  /\ \A x \in Proc :
       LET W == Edges(x, q, c, g)
           ready == PutFlag(Flag("REMMEMREADY", s, q, 0), 0)
       IN /\ sent[x] = Blocks(s, c, g, W) \cup Some(W, ready)
          /\ ready \in PutSet /\ Blocks(s, c, g, W) \subseteq PutSet
          /\ W # {} => puts'[q][x] =
                         AddPuts(Fence(AddPuts(puts[q][x], Blocks(s, c, g, W))), {ready})

LEMMA NewView ==
  ASSUME SInv, NEW q \in Proc, New(q)
  PROVE  \E c \in Cid : \E g, s, lost, sent : NewAt(q, c, g, s, lost, sent)
<1>0. CallsInv /\ SHMEMTypeOK /\ SHMEMTypeOK' /\ Owned(q)'
  BY StepNew DEF SInv, LocalOK
<1>1. PICK c \in Cid :
    LET g == inst[q][c].gen + 1
        ds == prog.dirs[c][g]
        s == handle'[q][c]
        W(x) == {d \in DOMAIN ds : ds[d][x] = q}
    IN /\ Return(q, "NEW", c) /\ g \in 1..Len(prog.dirs[c])
       /\ inst'[q][c] = [done |-> {"NEW"}, gen |-> g]
       /\ \E writable : /\ \A f \in writable : f.name = "REMMEMWRITABLE"
                        /\ flags' = [flags EXCEPT ![q] = @ \ writable]
       /\ UNCHANGED <<remmem, step, ghost>> /\ step[q] = {}
       /\ RecvInfo(q, c)' = [d \in RecvDirs(q, ds) |-> [proc |-> Source(q, ds, d), area |-> c]]
       /\ SendInfo(q, c)' = [d \in SendDirs(q, ds) |->
                               [proc |-> ds[d][q], area |-> c, remmeminfo |-> NoBlock]]
       /\ \A e \in Cid : e # c /\ InUse(q, e) =>
            /\ handle'[q][e] = handle[q][e]
            /\ RecvInfo(q, e)' = RecvInfo(q, e) /\ SendInfo(q, e)' = SendInfo(q, e)
       /\ \A r \in Proc : r # q => puts'[r] = puts[r]
       /\ \A x \in Proc :
            \/ puts'[q][x] = puts[q][x] /\ W(x) = {}
            \/ puts'[q][x] = AddPuts(Fence(AddPuts(puts[q][x], Blocks(s, c, g, W(x)))),
                                     Some(W(x), PutFlag(Flag("REMMEMREADY", s, q, 0), 0)))
  BY Zenon, NewFacts
<1>g. PICK g : g = inst[q][c].gen + 1
  OBVIOUS
<1>s. PICK s : s = handle'[q][c]
  OBVIOUS
<1> DEFINE o == "NEW"
           ready == PutFlag(Flag("REMMEMREADY", s, q, 0), 0)
           W(x) == Edges(x, q, c, g)
           B(x) == Blocks(s, c, g, W(x))
           R(x) == Some(W(x), ready)
           sent == [x \in Proc |-> B(x) \cup R(x)]
<1>2. /\ o = "NEW" /\ o \in Op /\ Return(q, o, c) /\ g \in 1..Len(prog.dirs[c])
      /\ inst'[q][c] = [done |-> {"NEW"}, gen |-> g]
      /\ \E writable : /\ \A f \in writable : f.name = "REMMEMWRITABLE"
                       /\ flags' = [flags EXCEPT ![q] = flags[q] \ writable]
      /\ UNCHANGED <<remmem, step, ghost>> /\ step[q] = {}
  BY Zenon, <1>1, <1>g DEF Op
<1>3. PICK lost : /\ \A f \in lost : f.name = "REMMEMWRITABLE"
                  /\ flags' = [flags EXCEPT ![q] = flags[q] \ lost]
  BY Zenon, <1>2
<1>4. /\ RecvInfo(q, c)' = [d \in RecvDirs(q, prog.dirs[c][g]) |->
                              [proc |-> Source(q, prog.dirs[c][g], d), area |-> c]]
      /\ SendInfo(q, c)' = [d \in SendDirs(q, prog.dirs[c][g]) |->
                              [proc |-> prog.dirs[c][g][d][q], area |-> c, remmeminfo |-> NoBlock]]
      /\ \A e \in Cid : e # c /\ InUse(q, e) =>
            /\ handle'[q][e] = handle[q][e]
            /\ RecvInfo(q, e)' = RecvInfo(q, e) /\ SendInfo(q, e)' = SendInfo(q, e)
      /\ \A r \in Proc : r # q => puts'[r] = puts[r]
  BY Zenon, <1>1, <1>g
<1>5. \A x \in Proc : \/ puts'[q][x] = puts[q][x] /\ W(x) = {}
                      \/ puts'[q][x] = AddPuts(Fence(AddPuts(puts[q][x], B(x))), R(x))
  <2> DEFINE h == inst[q][c].gen + 1
             t == handle'[q][c]
             V(x) == {d \in DOMAIN prog.dirs[c][h] : prog.dirs[c][h][d][x] = q}
  <2>1. \A x \in Proc : \/ puts'[q][x] = puts[q][x] /\ V(x) = {}
                        \/ puts'[q][x] = AddPuts(Fence(AddPuts(puts[q][x], Blocks(t, c, h, V(x)))),
                                     Some(V(x), PutFlag(Flag("REMMEMREADY", t, q, 0), 0)))
    BY Zenon, <1>1
  <2>2. h = g /\ t = s /\ \A x : V(x) = W(x)
    BY <1>g, <1>s DEF Edges
  <2> HIDE DEF h, t, V, W
  <2> QED
    BY <2>1, <2>2
<1> HIDE DEF o
<1>6. /\ ~InUse(q, c) /\ InUse(q, c)' /\ prog' = prog
      /\ \A e \in Cid : e # c => inst'[q][e] = inst[q][e]
      /\ \A e \in Cid : ~May(q, "SR", e)
  BY <1>0, <1>2, ReturnDone DEF May
<1>7. g \in Nat /\ inst[q][c].gen = g - 1
  <2>1. inst[q][c].gen \in Nat
    BY <1>0 DEF CallsInv, CallsTypeOK
  <2> QED
    BY <1>g, <2>1
<1>8. s \in Slot /\ \A e \in Cid : InUse(q, e) => handle[q][e] # s
  <2>1. s \in Slot
    BY <1>0, <1>s DEF SHMEMTypeOK
  <2>2. ASSUME NEW e \in Cid, InUse(q, e) PROVE handle[q][e] # s
    <3>1. e # c /\ InUse(q, e)' /\ handle'[q][e] = handle[q][e]
      BY <1>4, <1>6, <2>2 DEF InUse
    <3> QED
      BY <1>0, <1>6, <1>s, <3>1 DEF Owned
  <2> QED
    BY <2>1, <2>2
<1>9. ready \in PutSet
  BY <1>8, SignalType, MaxDirsAssumption
<1>10. ASSUME NEW x \in Proc PROVE B(x) \subseteq PutSet /\ R(x) \subseteq PutSet
  <2> DEFINE V == W(x)
  <2>1. V \in SUBSET (1..MaxDirs)
    BY <1>0, <1>2, LinksFew
  <2> HIDE DEF V
  <2>2. ASSUME NEW d \in V
        PROVE  PutBlock(s, Rank(V, d), [area |-> c, gen |-> g, dir |-> d]) \in PutSet
    <3>1. Rank(V, d) \in 0..MaxDirs
      BY <2>1, RankOrder
    <3>2. [area |-> c, gen |-> g, dir |-> d] \in Block
      BY <1>7, <2>1 DEF Block
    <3> QED
      BY <1>8, <3>1, <3>2 DEF PutBlock, PutSet
  <2>3. Blocks(s, c, g, V) \subseteq PutSet /\ Some(V, ready) \subseteq PutSet
    BY <1>9, <2>2 DEF Blocks, Some
  <2> QED
    BY <2>3 DEF V
<1>11. ASSUME NEW x \in Proc
       PROVE  /\ \A y : y \in In(puts'[q][x]) <=> y \in In(puts[q][x]) \/ y \in sent[x]
              /\ \A K : K \cap sent[x] = {} => Keeps(puts[q][x], puts'[q][x], K)
  <2> DEFINE b == puts[q][x]
             b1 == AddPuts(Fence(AddPuts(b, B(x))), R(x))
  <2>1. b \in Seq(SUBSET PutSet) /\ B(x) \in SUBSET PutSet /\ R(x) \in SUBSET PutSet
    BY <1>0, <1>10 DEF SHMEMTypeOK
  <2>2. sent[x] = B(x) \cup R(x)
    OBVIOUS
  <2>3. CASE puts'[q][x] = b /\ W(x) = {}
    <3>1. sent[x] = {}
      BY <2>2, <2>3 DEF Blocks, Some
    <3> QED
      BY <2>3, <3>1, SameKeeps
  <2>4. CASE puts'[q][x] = b1
    <3> HIDE DEF B, R, b, sent
    <3>1. /\ \A y : y \in In(b1) <=> y \in In(b) \/ y \in B(x) \cup R(x)
          /\ \A K : K \cap (B(x) \cup R(x)) = {} => Keeps(b, b1, K)
      BY <2>1, NewBatches
    <3> HIDE DEF b1
    <3> QED
      BY <2>2, <2>4, <3>1 DEF b
  <2> QED
    BY <1>5, <2>3, <2>4
<1>12. Effect(q, lost, sent)
  <2>1. Step(q)
    BY DEF Step
  <2>2. \A x \in Proc : x # q => Own(x)' = Own(x)
    BY <2>1, OthersStay
  <2>3. flags'[q] = flags[q] \ lost /\ \A x \in Proc : x # q => flags'[x] = flags[x]
    BY <1>0, <1>3 DEF SHMEMTypeOK
  <2> HIDE DEF sent
  <2> QED
    BY <1>2, <1>4, <1>6, <1>11, <2>2, <2>3 DEF Effect
<1>13. ASSUME NEW x \in Proc
       PROVE  /\ sent[x] = B(x) \cup R(x) /\ ready \in PutSet /\ B(x) \subseteq PutSet
              /\ W(x) # {} => puts'[q][x] = AddPuts(Fence(AddPuts(puts[q][x], B(x))), {ready})
  BY <1>5, <1>9, <1>10 DEF Some
<1>14. step'[q] = {}
  BY <1>2
<1> HIDE DEF sent, ready
<1>15. NewAt(q, c, g, s, lost, sent)
  BY <1>2, <1>3, <1>4, <1>6, <1>7, <1>8, <1>12, <1>13, <1>14, <1>s DEF NewAt, ready
<1> QED
  BY <1>15
-----------------------------------------------------------------------------
LEMMA LinkNew ==
  ASSUME LinkInv, NEW q \in Proc, New(q)
  PROVE  LinksOK'
<1>0. SInv /\ CallsInv /\ SHMEMTypeOK /\ DirsOK(q) /\ AddrOK(q)
  BY DEF LinkInv, LockInv, SInv
<1>a. PICK c \in Cid : \E g, s, lost, sent : NewAt(q, c, g, s, lost, sent)
  BY <1>0, NewView
<1>b. PICK g, s, lost, sent : NewAt(q, c, g, s, lost, sent)
  BY Zenon, <1>a
<1>1. /\ ~InUse(q, c) /\ InUse(q, c)' /\ g \in Nat /\ g \in 1..Len(prog.dirs[c])
      /\ inst[q][c].gen = g - 1 /\ inst'[q][c] = [done |-> {"NEW"}, gen |-> g]
      /\ s = handle'[q][c] /\ s \in Slot /\ \A e \in Cid : InUse(q, e) => handle[q][e] # s
      /\ \A e \in Cid : e # c => inst'[q][e] = inst[q][e]
      /\ \A e \in Cid : ~May(q, "SR", e)
      /\ step'[q] = {}
  BY <1>b DEF NewAt
<1>2. /\ DOMAIN SendInfo(q, c)' = SendDirs(q, prog.dirs[c][g])
      /\ DOMAIN RecvInfo(q, c)' = RecvDirs(q, prog.dirs[c][g])
      /\ \A d \in SendDirs(q, prog.dirs[c][g]) :
           /\ SendInfo(q, c)'[d].proc = prog.dirs[c][g][d][q]
           /\ SendInfo(q, c)'[d].area = c
           /\ SendInfo(q, c)'[d].remmeminfo = NoBlock
      /\ \A d \in RecvDirs(q, prog.dirs[c][g]) :
           RecvInfo(q, c)'[d].proc = Source(q, prog.dirs[c][g], d)
  BY <1>b DEF NewAt
<1>3. /\ \A e \in Cid : e # c /\ InUse(q, e) =>
           /\ handle'[q][e] = handle[q][e]
           /\ RecvInfo(q, e)' = RecvInfo(q, e) /\ SendInfo(q, e)' = SendInfo(q, e)
      /\ \A f \in lost : f.name = "REMMEMWRITABLE"
      /\ Effect(q, lost, sent) /\ prog' = prog
  BY <1>b DEF NewAt, Effect
<1> DEFINE ready == PutFlag(Flag("REMMEMREADY", s, q, 0), 0)
           W(x) == Edges(x, q, c, g)
<1>4. \A x \in Proc :
        /\ sent[x] = Blocks(s, c, g, W(x)) \cup Some(W(x), ready)
        /\ ready \in PutSet /\ Blocks(s, c, g, W(x)) \subseteq PutSet
        /\ W(x) # {} => puts'[q][x] =
                       AddPuts(Fence(AddPuts(puts[q][x], Blocks(s, c, g, W(x)))), {ready})
  BY <1>b DEF NewAt
<1>5. ASSUME NEW x \in Proc
      PROVE  /\ ~Listens(q, x, c) /\ Links(q, x, c)' = W(x)
             /\ Listens(q, x, c)' <=> W(x) # {}
             /\ ReadyFlag(q, c)' = Flag("REMMEMREADY", s, q, 0)
             /\ \A d \in W(x) : BlockPut(q, x, c, d)' =
                  PutBlock(s, Rank(W(x), d), [area |-> c, gen |-> g, dir |-> d])
  <2>1. ~Listens(q, x, c)
    BY <1>1 DEF Listens
  <2>2. Links(q, x, c)' = W(x)
    BY <1>1, <1>3 DEF Links, Edges
  <2>3. Listens(q, x, c)' <=> W(x) # {}
    BY <1>1, <2>2 DEF Listens
  <2>4. ReadyFlag(q, c)' = Flag("REMMEMREADY", s, q, 0)
    BY <1>1 DEF ReadyFlag
  <2> HIDE DEF W
  <2>5. \A d : Here(q, c, d)' = [area |-> c, gen |-> g, dir |-> d]
    BY <1>1 DEF Here
  <2>6. \A d : Rank(Links(q, x, c), d)' = Rank(W(x), d)
    BY <2>2 DEF Rank
  <2>7. \A d \in W(x) : BlockPut(q, x, c, d)' =
                  PutBlock(s, Rank(W(x), d), [area |-> c, gen |-> g, dir |-> d])
    BY <1>1, <2>5, <2>6 DEF BlockPut
  <2> QED
    BY <2>1, <2>2, <2>3, <2>4, <2>7
<1>6. ASSUME NEW x \in Proc
      PROVE  /\ sent[x] \subseteq UpPuts(q, x, c)'
             /\ sent[x] # {} => W(x) # {}
             /\ sent[x] \cap DownPut = {}
             /\ \A y \in sent[x] : \/ y.kind = "flag" /\ y.flag.slot = s
                                   \/ y.kind = "block" /\ y.slot = s
  <2> HIDE DEF W
  <2>1. \A y \in Blocks(s, c, g, W(x)) : \E d \in W(x) :
          y = PutBlock(s, Rank(W(x), d), [area |-> c, gen |-> g, dir |-> d])
    BY DEF Blocks
  <2>2. Some(W(x), ready) \subseteq {ready} /\ (W(x) = {} => Some(W(x), ready) = {})
    BY DEF Some
  <2>3. UpPuts(q, x, c)' =
          {PutFlag(ReadyFlag(q, c)', 0)}
            \cup {PutFlag(DstFlag(q, x, c, d)', d) : d \in W(x)}
            \cup {BlockPut(q, x, c, d)' : d \in W(x)}
    BY <1>5 DEF UpPuts
  <2>a. sent[x] = Blocks(s, c, g, W(x)) \cup Some(W(x), ready)
    BY <1>4
  <2>0. ASSUME NEW y \in sent[x]
        PROVE  /\ W(x) # {}
               /\ \/ \E d \in W(x) :
                       y = PutBlock(s, Rank(W(x), d), [area |-> c, gen |-> g, dir |-> d])
                  \/ y = ready
    <3>1. y \in Blocks(s, c, g, W(x)) \/ y \in Some(W(x), ready)
      BY <2>a
    <3> QED
      BY <2>1, <2>2, <3>1
  <2>4. sent[x] \subseteq UpPuts(q, x, c)'
    <3> SUFFICES ASSUME NEW y \in sent[x] PROVE y \in UpPuts(q, x, c)'
      OBVIOUS
    <3>1. CASE y = ready
      <4>1. y = PutFlag(ReadyFlag(q, c)', 0)
        BY <1>5, <3>1
      <4> QED
        BY <2>3, <4>1
    <3>2. ASSUME NEW d \in W(x),
                 y = PutBlock(s, Rank(W(x), d), [area |-> c, gen |-> g, dir |-> d])
          PROVE  y \in UpPuts(q, x, c)'
      <4>1. y = BlockPut(q, x, c, d)'
        BY <1>5, <3>2
      <4> QED
        BY <2>3, <4>1
    <3> QED
      BY <2>0, <3>1, <3>2
  <2>5. sent[x] # {} => W(x) # {}
    BY <2>0
  <2> HIDE DEF ready
  <2>8. ready = PutFlag(Flag("REMMEMREADY", s, q, 0), 0)
    BY DEF ready
  <2>6. sent[x] \cap DownPut = {}
    <3> SUFFICES ASSUME NEW y \in sent[x] PROVE y \notin DownPut
      OBVIOUS
    <3>1. CASE y = ready
      <4>1. "REMMEMREADY" \in UpFlag
        BY DEF UpFlag
      <4> QED
        BY <2>8, <3>1, <4>1, PutKinds
    <3>2. ASSUME NEW d \in W(x),
                 y = PutBlock(s, Rank(W(x), d), [area |-> c, gen |-> g, dir |-> d])
          PROVE  y \notin DownPut
      BY <3>2, PutKinds
    <3> QED
      BY <2>0, <3>1, <3>2
  <2>7. \A y \in sent[x] : \/ y.kind = "flag" /\ y.flag.slot = s
                           \/ y.kind = "block" /\ y.slot = s
    <3> SUFFICES ASSUME NEW y \in sent[x]
                 PROVE  \/ y.kind = "flag" /\ y.flag.slot = s
                        \/ y.kind = "block" /\ y.slot = s
      OBVIOUS
    <3>1. CASE y = ready
      BY <2>8, <3>1, PutIs, FlagIs
    <3>2. ASSUME NEW d \in W(x),
                 y = PutBlock(s, Rank(W(x), d), [area |-> c, gen |-> g, dir |-> d])
          PROVE  y.kind = "block" /\ y.slot = s
      BY <3>2, PutIs
    <3> QED
      BY <2>0, <3>1, <3>2
  <2> QED
    BY <2>4, <2>5, <2>6, <2>7
<1>7. /\ \A e \in Cid : Out(q, e) = {} /\ Out(q, e)' = {}
      /\ \A e \in Cid : e # c => (InUse(q, e)' <=> InUse(q, e))
  BY <1>0, <1>1, NotSending DEF Out, InUse, SInv
<1>8. ASSUME NEW e \in Cid, NEW h \in Nat
      PROVE  /\ Over(q, e, h)' <=> Over(q, e, h)
             /\ \A x \in Proc : SendView(q, x, e, h)
  <2>1. Over(q, e, h)' <=> Over(q, e, h)
    <3>1. CASE e = c
      <4>1. Over(q, c, h) <=> g - 1 > h \/ g - 1 = h
        BY <1>1 DEF Over, InUse
      <4>2. Over(q, c, h)' <=> g > h
        BY <1>1 DEF Over
      <4> QED
        BY <1>1, <3>1, <4>1, <4>2
    <3>2. CASE e # c
      BY <1>1, <3>2 DEF Over
    <3> QED
      BY <3>1, <3>2
  <2>2. \A k : Sent(q, e, h, k)' <=> Sent(q, e, h, k)
    BY <1>7, <2>1 DEF Sent
  <2>3. ASSUME NEW x \in Proc PROVE Took(q, x, e, h)' <=> Took(q, x, e, h)
    <3>0. Edges(q, x, e, h)' = Edges(q, x, e, h)
      BY <1>3 DEF Edges
    <3>1. CASE e = c
      <4>1. Took(q, x, c, h) <=> Over(q, c, h)
        BY <1>1 DEF Took
      <4>2. h = g => \A d \in Edges(q, x, c, h) : SendInfo(q, c)'[d].remmeminfo = NoBlock
        <5>1. \A d \in Edges(q, x, c, g) : d \in SendDirs(q, prog.dirs[c][g])
          BY NoProcAssumption DEF Edges, SendDirs
        <5> QED
          BY <1>2, <5>1
      <4>3. Took(q, x, c, h)' <=> Over(q, c, h)'
        BY <1>1, <3>0, <3>1, <4>2 DEF Took
      <4> QED
        BY <2>1, <3>1, <4>1, <4>3
    <3>2. CASE e # c
      BY <1>1, <1>3, <1>7, <2>1, <3>0, <3>2 DEF Took
    <3> QED
      BY <3>1, <3>2
  <2> QED
    BY <2>1, <2>2, <2>3 DEF SendView
<1>9. ASSUME NEW e \in Cid, e # c, InUse(q, e)
      PROVE  /\ RecvView(q, e)
             /\ \A x \in Proc : ObjectsStay(q, x, e) /\ (Listens(q, x, e)' <=> Listens(q, x, e))
  <2>1. RecvView(q, e)
    BY <1>1, <1>3, <1>7, <1>9 DEF RecvView
  <2> QED
    BY <1>3, <2>1, ViewDues
<1>10. ASSUME NEW e \in Cid, e # c, NEW x \in Proc, Listens(q, x, e) \/ Listens(q, x, e)'
       PROVE  InUse(q, e) /\ Listens(q, x, e) /\ Listens(q, x, e)'
  <2>1. InUse(q, e)
    BY <1>7, <1>10 DEF Listens
  <2> QED
    BY <1>9, <1>10, <2>1
<1> HIDE DEF W, ready
<1>19. \A a, x \in Proc : NoStray(a, x)'
  <2>1. \A x \in Proc, e \in Cid : Listens(q, x, e) =>
          Silent(q, x, e) \/ (Listens(q, x, e)' /\ ObjectsStay(q, x, e))
    BY <1>5, <1>9, <1>10
  <2>2. \A a, x \in Proc : NoStray(a, x)
    BY DEF LinkInv
  <2>3. \A x \in Proc : \A y \in sent[x] \cap UpPut :
          \E e \in Cid : Listens(q, x, e)' /\ y \in UpPuts(q, x, e)'
    BY <1>5, <1>6
  <2>4. \A x \in Proc : \A y \in sent[x] \cap DownPut :
          \E e \in Cid : Listens(x, q, e)' /\ y \in DownPuts(x, q, e)'
    BY <1>6
  <2> QED
    BY <1>3, <2>1, <2>2, <2>3, <2>4, EffectStray
<1>20. ASSUME NEW a \in Proc, NEW x \in Proc, NEW e \in Cid, Listens(a, x, e)'
       PROVE  Flow(a, x, e)'
  <2>1. Listens(a, x, e) => Flow(a, x, e)
    BY DEF LinkInv
  <2>2. CASE a # q /\ x # q
    BY <1>3, <1>20, <2>1, <2>2, EffectThird
  <2>3. CASE x = q /\ a # q
    <3>1. ASSUME Listens(a, q, e)
          PROVE  /\ SendView(q, a, e, inst[a][e].gen)
                 /\ lost \cap UpFlags(a, q, e) = {}
                 /\ sent[a] \cap DownPuts(a, q, e) = {}
      <4>1. InUse(a, e) /\ inst[a][e].gen \in Nat
        BY <1>0, <3>1 DEF Listens, CallsInv, CallsTypeOK
      <4>2. SendView(q, a, e, inst[a][e].gen)
        BY <1>8, <4>1
      <4>3. /\ \A f \in UpFlags(a, q, e) : f.name \in UpFlag
            /\ DownPuts(a, q, e) \subseteq DownPut
        BY <1>0, <4>1, LinkParts
      <4> QED
        BY <1>3, <1>6, <4>2, <4>3 DEF UpFlag
    <3> QED
      BY <1>3, <1>20, <2>1, <2>3, <3>1, EffectSends
  <2>4. CASE a = q
    <3>0. inst'[q][e].gen \in 1..Len(prog.dirs[e]) /\ Links(q, x, e)' # {}
      <4>1. CASE e = c
        BY <1>1, <1>20, <2>4, <4>1 DEF Listens
      <4>2. CASE e # c
        <5>1. inst[q][e].gen \in 1..Len(prog.dirs[e])
          BY <1>0, <1>10, <1>20, <2>4, <4>2, LinkTyped
        <5> QED
          BY <1>1, <1>20, <2>4, <4>2, <5>1 DEF Listens
      <4> QED
        BY <4>1, <4>2
    <3>1. x # q
      <4>1. Links(q, x, e)' = Edges(x, q, e, inst'[q][e].gen)
        BY <1>3 DEF Links, Edges
      <4> QED
        BY <1>0, <3>0, <4>1, NoLoop
    <3>2. CASE e # c
      <4>1. InUse(q, e) /\ Listens(q, x, e) /\ RecvView(q, e)
        BY <1>9, <1>10, <1>20, <2>4, <3>2
      <4>2. DoneFlag(q, x, e) \notin lost
        BY <1>3, FlagIs DEF DoneFlag
      <4>3. sent[x] \cap UpPuts(q, x, e) = {}
        <5>1. /\ \A f \in UpFlags(q, x, e) : f.slot = handle[q][e]
              /\ \A y \in UpPuts(q, x, e) :
                   \/ y.kind = "flag" /\ y.flag \in UpFlags(q, x, e)
                   \/ y.kind = "block" /\ y.slot = handle[q][e]
          BY <1>0, <4>1, LinkParts
        <5>2. handle[q][e] # s
          BY <1>1, <4>1
        <5> QED
          BY <1>6, <5>1, <5>2
      <4> QED
        BY <1>3, <2>1, <2>4, <3>1, <4>1, <4>2, <4>3, EffectReceives
    <3>3. CASE e = c
      <4>1. NoStray(q, x) /\ NotAhead(q, x) /\ W(x) # {}
        BY <1>5, <1>20, <2>4, <3>3 DEF LinkInv
      <4>2. ~Opened(q, c)'
        BY <1>1 DEF Opened
      <4>3. ~Took(x, q, c, g)'
        <5>1. ~Took(x, q, c, g)
          BY <1>1, <4>1 DEF NotAhead, W
        <5>2. SendView(x, q, c, g)
          BY <1>3, <3>1, OwnViews DEF Effect
        <5> QED
          BY <5>1, <5>2 DEF SendView
      <4>4. puts'[x] = puts[x] /\ flags'[x] = flags[x]
        BY <1>3, <3>1 DEF Effect
      <4>7. g = inst'[q][c].gen /\ inst'[q][c].done = {"NEW"}
        BY <1>1
      <4>8. W(x) = Links(q, x, c)'
        BY <1>5
      <4>9. ready = PutFlag(Flag("REMMEMREADY", s, q, 0), 0)
        BY DEF ready
      <4>10. Blocks(s, c, g, W(x)) \subseteq PutSet /\ ready \in PutSet
        BY <1>4
      <4>11. puts'[q][x] = AddPuts(Fence(AddPuts(puts[q][x], Blocks(s, c, g, W(x)))), {ready})
        BY <1>4, <4>1
      <4>12. PICK w : w = W(x)
        OBVIOUS
      <4>13. PICK r : r = ready
        OBVIOUS
      <4>14. r \in PutSet /\ r = PutFlag(Flag("REMMEMREADY", s, q, 0), 0)
        BY <4>9, <4>10, <4>13
      <4>15. w = Links(q, x, c)' /\ Blocks(s, c, g, w) \subseteq PutSet
        BY <4>8, <4>10, <4>12
      <4>16. puts'[q][x] = AddPuts(Fence(AddPuts(puts[q][x], Blocks(s, c, g, w))), {r})
        BY <4>11, <4>12, <4>13
      <4>17. /\ SInv /\ ~InUse(q, c) /\ s = handle'[q][c]
             /\ \A k \in Cid : InUse(q, k) => handle[q][k] # s
        BY <1>0, <1>1
      <4>18. g = inst'[q][c].gen /\ NoStray(q, x)
        BY <4>1, <4>7
      <4> HIDE DEF W, ready
      <4>6. Flow(q, x, c)'
        BY <3>1, <4>2, <4>3, <4>4, <4>14, <4>15, <4>16, <4>17, <4>18, FlowNew
      <4> QED
        BY <2>4, <3>3, <4>6
    <3> QED
      BY <3>2, <3>3
  <2> QED
    BY <2>2, <2>3, <2>4
<1>21. \A a, x \in Proc : NotAhead(a, x)'
  <2>1. \A x \in Proc : x # q => Own(x)' = Own(x)
    BY <1>3 DEF Effect
  <2>2. \A a, x \in Proc : NotAhead(a, x)
    BY DEF LinkInv
  <2>3. ASSUME NEW e \in Cid, NEW h \in Nat
        PROVE  /\ inst[q][e].gen >= h => inst'[q][e].gen >= h
               /\ Past(q, e, h, "DR") => Past(q, e, h, "DR")'
               /\ Past(q, e, h, "DN")' => Past(q, e, h, "DN")
    <3>1. CASE e = c
      <4>1. /\ Past(q, c, h, "DR") <=> g - 1 > h \/ g - 1 = h
            /\ Past(q, c, h, "DN") <=> g - 1 > h \/ g - 1 = h
        BY <1>1 DEF Past
      <4>2. /\ Past(q, c, h, "DR")' <=> g > h
            /\ Past(q, c, h, "DN")' <=> g > h
        BY <1>1 DEF Past
      <4> QED
        BY <1>1, <3>1, <4>1, <4>2
    <3>2. CASE e # c
      BY <1>1, <1>7, <3>2 DEF Past
    <3> QED
      BY <3>1, <3>2
  <2>4. \A e \in Cid : \A h \in 1..Len(prog.dirs[e]) : h \in Nat
    OBVIOUS
  <2> QED
    BY <1>0, <1>3, <1>8, <2>1, <2>2, <2>3, <2>4, AheadAll DEF SendView
<1>22. \A x \in Proc : DirsOK(x)' /\ AddrOK(x)'
  <2>1. \A x \in Proc : x # q => DirsOK(x)' /\ AddrOK(x)'
    BY <1>3, AddrOwn DEF Effect, LinkInv
  <2>2. DirsOK(q)'
    <3> SUFFICES ASSUME NEW e \in Cid, InUse(q, e)'
          PROVE (LET ds == prog.dirs[e][inst[q][e].gen] IN
                /\ DOMAIN SendInfo(q, e) = SendDirs(q, ds)
                /\ DOMAIN RecvInfo(q, e) = RecvDirs(q, ds)
                /\ \A k \in SendDirs(q, ds) :
                     SendInfo(q, e)[k].proc = ds[k][q] /\ SendInfo(q, e)[k].area = e
                /\ \A k \in RecvDirs(q, ds) : RecvInfo(q, e)[k].proc = Source(q, ds, k))'
      BY DEF DirsOK
    <3> DEFINE ds == prog.dirs[e][inst[q][e].gen]
    <3>1. PICK d2 : d2 = prog.dirs[e][inst'[q][e].gen]
      OBVIOUS
    <3>2. ds' = d2
      BY <1>3, <3>1
    <3> HIDE DEF ds
    <3>3. /\ SendDirs(q, ds)' = SendDirs(q, d2) /\ RecvDirs(q, ds)' = RecvDirs(q, d2)
          /\ \A k : Source(q, ds, k)' = Source(q, d2, k)
      BY <3>2 DEF SendDirs, RecvDirs, Source
    <3>4. /\ DOMAIN SendInfo(q, e)' = SendDirs(q, d2)
          /\ DOMAIN RecvInfo(q, e)' = RecvDirs(q, d2)
          /\ \A k \in SendDirs(q, d2) :
               SendInfo(q, e)'[k].proc = d2[k][q] /\ SendInfo(q, e)'[k].area = e
          /\ \A k \in RecvDirs(q, d2) : RecvInfo(q, e)'[k].proc = Source(q, d2, k)
      <4>1. CASE e = c
        BY <1>1, <1>2, <3>1, <4>1
      <4>2. CASE e # c
        <5>1. InUse(q, e) /\ d2 = prog.dirs[e][inst[q][e].gen]
          BY Zenon, <1>1, <1>7, <3>1, <4>2
        <5>2. /\ DOMAIN SendInfo(q, e) = SendDirs(q, d2)
              /\ DOMAIN RecvInfo(q, e) = RecvDirs(q, d2)
              /\ \A k \in SendDirs(q, d2) :
                   SendInfo(q, e)[k].proc = d2[k][q] /\ SendInfo(q, e)[k].area = e
              /\ \A k \in RecvDirs(q, d2) : RecvInfo(q, e)[k].proc = Source(q, d2, k)
          BY <1>0, <5>1 DEF DirsOK
        <5> QED
          BY Zenon, <1>3, <4>2, <5>1, <5>2
      <4> QED
        BY Zenon, <4>1, <4>2
    <3>5. (/\ DOMAIN SendInfo(q, e) = SendDirs(q, ds)
           /\ DOMAIN RecvInfo(q, e) = RecvDirs(q, ds)
           /\ \A k \in SendDirs(q, ds) :
                     SendInfo(q, e)[k].proc = ds[k][q] /\ SendInfo(q, e)[k].area = e
           /\ \A k \in RecvDirs(q, ds) : RecvInfo(q, e)[k].proc = Source(q, ds, k))'
      BY <3>2, <3>3, <3>4
    <3> QED
      BY Zenon, <3>5 DEF ds
  <2>3. AddrOK(q)'
    <3> SUFFICES ASSUME NEW e \in Cid, InUse(q, e)', NEW k \in DOMAIN SendInfo(q, e)'
          PROVE (LET v == SendInfo(q, e)[k].remmeminfo IN
                /\ v \in {NoBlock, Here(q, e, k)}
                /\ v # NoBlock =>
                     "SR" \in inst[q][e].done \/
                       (/\ May(q, "SR", e)
                        /\ k \in step[q] \/ IsNext(k, DOMAIN SendInfo(q, e) \ step[q]))
                /\ k \in Out(q, e) =>
                     v # NoBlock /\ \A i \in DOMAIN SendInfo(q, e) : i < k => i \in Out(q, e))'
      BY DEF AddrOK
    <3> DEFINE v == SendInfo(q, e)[k].remmeminfo
    <3>1. CASE e = c
      <4>1. v' = NoBlock
        BY <1>2, <3>1
      <4> HIDE DEF v
      <4> QED
        BY <1>7, <4>1 DEF v
    <3>2. CASE e # c
      <4>1. InUse(q, e) /\ SendInfo(q, e)' = SendInfo(q, e) /\ k \in DOMAIN SendInfo(q, e)
        BY <1>3, <1>7, <3>2
      <4>2. /\ v \in {NoBlock, Here(q, e, k)}
            /\ v # NoBlock => "SR" \in inst[q][e].done
        BY <1>0, <1>1, <4>1 DEF AddrOK
      <4>3. Here(q, e, k)' = Here(q, e, k) /\ v' = v /\ inst'[q][e] = inst[q][e]
        BY <1>1, <3>2, <4>1 DEF Here
      <4> HIDE DEF v
      <4> QED
        BY <1>7, <4>2, <4>3 DEF v
    <3> QED
      BY <3>1, <3>2
  <2> QED
    BY <2>1, <2>2, <2>3
<1> QED
  BY <1>19, <1>20, <1>21, <1>22 DEF LinksOK
-----------------------------------------------------------------------------
\* A put of r reaches the memory of t.
Lands(r, t, put) ==
  /\ prog' = prog /\ \A x \in Proc : Own(x)' = Own(x)
  /\ \A x, y \in Proc : x # r \/ y # t => puts'[x][y] = puts[x][y]
  /\ \A x : x \in In(puts'[r][t]) => x \in In(puts[r][t])
  /\ \A x : x \in In(puts[r][t]) => x = put \/ x \in In(puts'[r][t])
  /\ put \in In(puts[r][t]) /\ put \in PutSet
  /\ Once(puts[r][t], put) => put \notin In(puts'[r][t])
  /\ \A y : Earlier(puts[r][t], y, put) => y \notin In(puts[r][t])
  /\ \A x, y : Earlier(puts[r][t], x, y) => Earlier(puts'[r][t], x, y)
  /\ \A K : put \notin K => Keeps(puts[r][t], puts'[r][t], K)

\* What it does there.
Stores(r, t, put) ==
  /\ \A x \in Proc : \A f :
       f \in flags'[x] <=> f \in flags[x] \/ (x = t /\ put.kind = "flag" /\ f = put.flag)
  /\ \A x \in Proc, s \in Slot, y \in Proc, k \in 0..MaxDirs :
       remmem'[x][s][y][k] =
         IF put.kind = "block" /\ x = t /\ y = r /\ s = put.slot /\ k = put.k
         THEN put.block ELSE remmem[x][s][y][k]
  /\ \A x \in Proc, c \in Cid, d \in 1..MaxDirs :
       ghost'[x][c][d] =
         IF put.kind = "data" /\ x = t /\ c = put.block.area /\ d = put.block.dir
         THEN put.val ELSE ghost[x][c][d]

LEMMA PutSorts ==
  ASSUME NEW put \in PutSet
  PROVE  /\ put.kind \in {"block", "flag", "data"}
         /\ put.kind = "block" => put.slot \in Slot /\ put.k \in 0..MaxDirs /\ put.block \in Block
         /\ put.kind = "flag" => put.flag \in FlagSet
         /\ put.kind = "data" => put.block \in Block /\ put.val \in DataSet
BY DEF PutSet

Filled(t, put) ==
  IF put.kind = "data" THEN [ghost EXCEPT ![t][put.block.area][put.block.dir] = put.val]
  ELSE ghost

LEMMA DeliverView ==
  ASSUME SInv, NEW r \in Proc, Deliver(r)
  PROVE  \E t \in Proc : \E put :
           Lands(r, t, put) /\ Stores(r, t, put) /\ ghost' = Filled(t, put)
<1>1. PICK t \in Proc :
        /\ puts[r][t] # <<>>
        /\ \E put \in Head(puts[r][t]) :
             /\ puts' = [puts EXCEPT ![r][t] = RemovePut(puts[r][t], put)]
             /\ remmem' = IF put.kind = "block"
                          THEN [remmem EXCEPT ![t][put.slot][r][put.k] = put.block]
                          ELSE remmem
             /\ flags' = IF put.kind = "flag"
                         THEN [flags EXCEPT ![t] = flags[t] \cup {put.flag}] ELSE flags
             /\ ghost' = IF put.kind = "data"
                         THEN [ghost EXCEPT ![t][put.block.area][put.block.dir] = put.val]
                         ELSE ghost
  BY DEF Deliver
<1>2. PICK put \in Head(puts[r][t]) :
        /\ puts' = [puts EXCEPT ![r][t] = RemovePut(puts[r][t], put)]
        /\ remmem' = IF put.kind = "block"
                     THEN [remmem EXCEPT ![t][put.slot][r][put.k] = put.block]
                     ELSE remmem
        /\ flags' = IF put.kind = "flag"
                    THEN [flags EXCEPT ![t] = flags[t] \cup {put.flag}] ELSE flags
        /\ ghost' = IF put.kind = "data"
                    THEN [ghost EXCEPT ![t][put.block.area][put.block.dir] = put.val]
                    ELSE ghost
  BY <1>1
<1>3. puts[r][t] \in Seq(SUBSET PutSet) /\ puts[r][t] # <<>>
  BY <1>1 DEF SInv, SHMEMTypeOK
<1>4. UNCHANGED <<callVars, descVars, step>>
  BY StepDeliver
<1>5. prog' = prog /\ \A x \in Proc : Own(x)' = Own(x)
  BY <1>4 DEF Own, callVars, descVars
<1>6. PICK b : b = puts[r][t]
  OBVIOUS
<1>7. PICK b1 : b1 = RemovePut(b, put)
  OBVIOUS
<1>8. /\ \A x, y \in Proc : x # r \/ y # t => puts'[x][y] = puts[x][y]
      /\ puts'[r][t] = b1
  BY <1>2, <1>6, <1>7 DEF SInv, SHMEMTypeOK
<1>9. ASSUME NEW K, put \notin K
      PROVE  /\ \A x : x \in In(b1) => x \in In(b)
             /\ \A x : x \in In(b) => x = put \/ x \in In(b1)
             /\ put \in In(b) /\ put \in PutSet
             /\ Once(b, put) => put \notin In(b1)
             /\ \A y : Earlier(b, y, put) => y \notin In(b)
             /\ \A x, y : Earlier(b, x, y) => Earlier(b1, x, y)
             /\ Keeps(b, b1, K)
  BY <1>2, <1>3, <1>6, <1>7, <1>9, RemoveKeeps
<1>10. put \notin {}
  OBVIOUS
<1>11. Lands(r, t, put)
  <2>1. \A K : put \notin K => Keeps(b, b1, K)
    BY <1>9
  <2> QED
    BY <1>5, <1>6, <1>8, <1>9, <1>10, <2>1 DEF Lands
<1>12. put \in PutSet
  BY <1>9, <1>10
<1>13. Stores(r, t, put)
  <2>1. \A x \in Proc : \A f :
          f \in flags'[x] <=> f \in flags[x] \/ (x = t /\ put.kind = "flag" /\ f = put.flag)
    BY <1>2 DEF SInv, SHMEMTypeOK
  <2>2. \A x \in Proc, s \in Slot, y \in Proc, k \in 0..MaxDirs :
          remmem'[x][s][y][k] =
            IF put.kind = "block" /\ x = t /\ y = r /\ s = put.slot /\ k = put.k
            THEN put.block ELSE remmem[x][s][y][k]
    <3>1. CASE put.kind = "block"
      <4>1. remmem' = [remmem EXCEPT ![t][put.slot][r][put.k] = put.block]
        BY <1>2, <3>1
      <4>2. remmem \in [Proc -> [Slot -> [Proc -> [0..MaxDirs -> Block \cup {NoBlock}]]]]
        BY DEF SInv, SHMEMTypeOK
      <4>3. put.slot \in Slot /\ put.k \in 0..MaxDirs
        BY <1>12, <3>1, PutSorts
      <4>4. PICK s : s = put.slot
        OBVIOUS
      <4>5. PICK k : k = put.k
        OBVIOUS
      <4>6. PICK v : v = put.block
        OBVIOUS
      <4>7. remmem' = [remmem EXCEPT ![t][s][r][k] = v]
        BY <4>1, <4>4, <4>5, <4>6
      <4>8. \A x \in Proc : x # t => remmem'[x] = remmem[x]
        BY <4>2, <4>7
      <4>9. remmem'[t] = [remmem[t] EXCEPT ![s][r][k] = v]
        BY <4>2, <4>7
      <4>10. \A u \in Slot : u # s => remmem'[t][u] = remmem[t][u]
        BY <4>2, <4>9
      <4>15. s \in Slot /\ k \in 0..MaxDirs
        BY <4>3, <4>4, <4>5
      <4>16. DOMAIN remmem[t] = Slot /\ DOMAIN remmem[t][s][r] = 0..MaxDirs
        BY <4>2, <4>15
      <4>11. remmem'[t][s] = [remmem[t][s] EXCEPT ![r][k] = v]
        BY <4>9, <4>15, <4>16
      <4>12. \A y \in Proc : y # r => remmem'[t][s][y] = remmem[t][s][y]
        BY <4>2, <4>11, <4>15
      <4>13. remmem'[t][s][r] = [remmem[t][s][r] EXCEPT ![k] = v]
        BY <4>2, <4>11, <4>15
      <4>14. \A l \in 0..MaxDirs : remmem'[t][s][r][l] =
               IF l = k THEN v ELSE remmem[t][s][r][l]
        BY <4>13, <4>15, <4>16
      <4> QED
        BY <3>1, <4>4, <4>5, <4>6, <4>8, <4>10, <4>12, <4>14
    <3>2. CASE put.kind # "block"
      BY <1>2, <3>2
    <3> QED
      BY <3>1, <3>2
  <2>3. \A x \in Proc, c \in Cid, d \in 1..MaxDirs :
          ghost'[x][c][d] =
            IF put.kind = "data" /\ x = t /\ c = put.block.area /\ d = put.block.dir
            THEN put.val ELSE ghost[x][c][d]
    <3>1. CASE put.kind = "data"
      <4>1. ghost' = [ghost EXCEPT ![t][put.block.area][put.block.dir] = put.val]
        BY <1>2, <3>1
      <4>2. ghost \in [Proc -> [Cid -> [1..MaxDirs -> DataSet \cup {NoData}]]]
        BY DEF SInv, SHMEMTypeOK
      <4>3. put.block.area \in Cid /\ put.block.dir \in 1..MaxDirs
        BY <1>12, <3>1, PutSorts DEF Block
      <4>4. PICK c : c = put.block.area
        OBVIOUS
      <4>5. PICK d : d = put.block.dir
        OBVIOUS
      <4>6. PICK v : v = put.val
        OBVIOUS
      <4>7. ghost' = [ghost EXCEPT ![t][c][d] = v]
        BY <4>1, <4>4, <4>5, <4>6
      <4>8. \A x \in Proc : x # t => ghost'[x] = ghost[x]
        BY <4>2, <4>7
      <4>9. ghost'[t] = [ghost[t] EXCEPT ![c][d] = v]
        BY <4>2, <4>7
      <4>10. \A e \in Cid : e # c => ghost'[t][e] = ghost[t][e]
        BY <4>2, <4>9
      <4>11. ghost'[t][c] = [ghost[t][c] EXCEPT ![d] = v]
        BY <4>2, <4>3, <4>4, <4>9
      <4>13. DOMAIN ghost[t][c] = 1..MaxDirs
        BY <4>2, <4>3, <4>4
      <4>12. \A e \in 1..MaxDirs : ghost'[t][c][e] = IF e = d THEN v ELSE ghost[t][c][e]
        BY <4>11, <4>13
      <4> QED
        BY <3>1, <4>4, <4>5, <4>6, <4>8, <4>10, <4>12
    <3>2. CASE put.kind # "data"
      BY <1>2, <3>2
    <3> QED
      BY <3>1, <3>2
  <2> QED
    BY <2>1, <2>2, <2>3 DEF Stores
<1>14. ghost' = Filled(t, put)
  BY <1>2 DEF Filled
<1> QED
  BY <1>11, <1>13, <1>14

\* Whose put it is.
LEMMA PutFrom ==
  ASSUME LinkInv, NEW r \in Proc, NEW t \in Proc, NEW put \in PutSet, put \in In(puts[r][t])
  PROVE  \/ put.kind = "flag" /\ put.flag.name = "REMMEMWRITABLE"
         \/ \E e \in Cid : Listens(r, t, e) /\ put \in UpPuts(r, t, e)
         \/ \E e \in Cid : Listens(t, r, e) /\ put \in DownPuts(t, r, e)
<1>1. NoStray(r, t) /\ NoStray(t, r)
  BY DEF LinkInv
<1>2. CASE put \in UpPut
  BY <1>1, <1>2 DEF NoStray
<1>3. CASE put \in DownPut
  BY <1>1, <1>3 DEF NoStray
<1>4. CASE put \notin UpPut \cup DownPut
  <2>1. put.kind = "flag" /\ put.flag.name \notin UpFlag /\ put.flag.name # "PUTDONE"
    BY <1>4, PutSorts DEF UpPut, DownPut
  <2>2. put.flag.name \in {"REMMEMREADY", "REMMEMWRITABLE", "DSTREADY", "PUTDONE"}
    BY <2>1, PutSorts DEF FlagSet
  <2> QED
    BY <2>1, <2>2 DEF UpFlag
<1> QED
  BY <1>2, <1>3, <1>4
-----------------------------------------------------------------------------
LEMMA LandsDues ==
  ASSUME NEW r, NEW t, NEW put, Lands(r, t, put), NEW q \in Proc, NEW p \in Proc, NEW c \in Cid
  PROVE  /\ ObjectsStay(q, p, c) /\ DueStays(q, p, c)
         /\ Listens(q, p, c)' <=> Listens(q, p, c)
<1>1. prog' = prog /\ Own(q)' = Own(q) /\ Own(p)' = Own(p)
  BY DEF Lands
<1>2. RecvView(q, c) /\ SendView(p, q, c, inst[q][c].gen)
  BY <1>1, OwnViews
<1> QED
  BY <1>1, <1>2, ViewDues

\* A link the put does not belong to.
LEMMA FlowElse ==
  ASSUME LinkInv, NEW r \in Proc, NEW t \in Proc, NEW put, Lands(r, t, put), Stores(r, t, put),
         NEW q \in Proc, NEW p \in Proc, NEW c \in Cid, Listens(q, p, c),
         ~(q = r /\ p = t /\ put \in UpPuts(q, p, c)),
         ~(p = r /\ q = t /\ put \in DownPuts(q, p, c))
  PROVE  Flow(q, p, c)'
<1>0. /\ SInv /\ CallsInv /\ SHMEMTypeOK /\ InUse(q, c) /\ Flow(q, p, c)
      /\ \A x \in Proc : Owned(x)
  BY DEF LinkInv, LockInv, SInv, Listens, LocalOK
<1>1. ObjectsStay(q, p, c) /\ DueStays(q, p, c)
  BY LandsDues
<1>2. /\ put \in PutSet
      /\ \/ put.kind = "flag" /\ put.flag.name = "REMMEMWRITABLE"
         \/ \E e \in Cid : Listens(r, t, e) /\ put \in UpPuts(r, t, e)
         \/ \E e \in Cid : Listens(t, r, e) /\ put \in DownPuts(t, r, e)
  BY PutFrom DEF Lands
<1>3. ASSUME NEW e \in Cid, Listens(r, t, e), put \in UpPuts(r, t, e)
      PROVE  /\ InUse(r, e)
             /\ \/ put.kind = "flag" /\ put.flag \in UpFlags(r, t, e)
                                     /\ put.flag.proc = r /\ put.flag.name \in UpFlag
                \/ put.kind = "block" /\ put.slot = handle[r][e]
  <2>1. InUse(r, e)
    BY <1>3 DEF Listens
  <2> QED
    BY <1>0, <1>3, <2>1, LinkParts
<1>4. ASSUME NEW e \in Cid, Listens(t, r, e), put \in DownPuts(t, r, e)
      PROVE  /\ InUse(t, e)
             /\ \/ put.kind = "flag" /\ put.flag = DoneFlag(t, r, e)
                                     /\ put.flag.proc = r /\ put.flag.name = "PUTDONE"
                \/ /\ put.kind = "data" /\ put.block.area = e
                   /\ \E d \in Links(t, r, e) : put.block.dir = d
  <2>1. InUse(t, e)
    BY <1>4 DEF Listens
  <2>2. \/ put.kind = "flag" /\ put.flag = DoneFlag(t, r, e)
        \/ put.kind = "data" /\ put.block.area = e
    <3>1. \A x \in DownPuts(t, r, e) :
            \/ x.kind = "flag" /\ x.flag = DoneFlag(t, r, e)
            \/ x.kind = "data" /\ x.block.area = e
      BY <1>0, <2>1, LinkParts
    <3> QED
      BY <1>4, <3>1
  <2>3. ASSUME put.kind = "data" PROVE \E d \in Links(t, r, e) : put.block.dir = d
    <3>1. put # PutFlag(DoneFlag(t, r, e), 0)
      BY <2>3, PutIs
    <3>2. PICK d \in Links(t, r, e) : put = DataPut(t, r, e, d)
      BY <1>4, <3>1 DEF DownPuts
    <3>3. put.block = Here(t, e, d)
      BY <3>2, PutIs DEF DataPut
    <3> QED
      BY <3>3, HereIs
  <2>4. DoneFlag(t, r, e).proc = r /\ DoneFlag(t, r, e).name = "PUTDONE"
    BY FlagIs DEF DoneFlag
  <2> QED
    BY <2>1, <2>2, <2>3, <2>4
<1>5. ASSUME NEW f \in UpFlags(q, p, c), p = t, put.kind = "flag", f = put.flag PROVE FALSE
  <2>1. f.proc = q /\ f.name \in UpFlag
    BY <1>0, LinkParts
  <2>2. PICK e \in Cid : Listens(r, t, e) /\ put \in UpPuts(r, t, e)
    BY <1>2, <1>4, <1>5, <2>1 DEF UpFlag
  <2>3. put.flag \in UpFlags(r, t, e) /\ r = q /\ InUse(q, e)
    BY <1>3, <1>5, <2>1, <2>2
  <2>4. e # c
    BY <1>5, <2>2, <2>3
  <2> QED
    BY <1>0, <1>5, <2>3, <2>4, Apart
<1>6. ~(q = t /\ put.kind = "flag" /\ DoneFlag(q, p, c) = put.flag)
  <2> SUFFICES ASSUME q = t, put.kind = "flag", DoneFlag(q, p, c) = put.flag PROVE FALSE
    OBVIOUS
  <2>1. put.flag.proc = p /\ put.flag.name = "PUTDONE"
    BY <1>0, LinkParts
  <2>2. PICK e \in Cid : Listens(t, r, e) /\ put \in DownPuts(t, r, e)
    BY <1>2, <1>3, <2>1 DEF UpFlag
  <2>3. put.flag = DoneFlag(t, r, e) /\ r = p /\ InUse(q, e)
    BY <1>4, <2>1, <2>2
  <2>4. e # c
    BY <2>2, <2>3
  <2> QED
    BY <1>0, <2>3, <2>4, Apart
<1>7. ~(put.kind = "block" /\ p = t /\ q = r /\ put.slot = handle[q][c])
  <2> SUFFICES ASSUME put.kind = "block", p = t, q = r, put.slot = handle[q][c] PROVE FALSE
    OBVIOUS
  <2>2. PICK e \in Cid : Listens(r, t, e) /\ put \in UpPuts(r, t, e)
    BY <1>2, <1>4
  <2>3. put.slot = handle[q][e] /\ InUse(q, e)
    BY <1>3, <2>2
  <2>4. e # c
    BY <2>2
  <2> QED
    BY <1>0, <2>3, <2>4, Apart
<1>8. ASSUME NEW d \in Links(q, p, c), put.kind = "data", q = t, c = put.block.area,
             d = put.block.dir
      PROVE  FALSE
  <2>1. PICK e \in Cid : Listens(t, r, e) /\ put \in DownPuts(t, r, e)
    BY <1>2, <1>3, <1>8
  <2>2. e = c /\ d \in Links(q, r, c)
    BY <1>4, <1>8, <2>1
  <2>3. inst[q][c].gen \in 1..Len(prog.dirs[c])
    BY <1>0, LinkTyped
  <2>4. p = r
    BY <1>0, <1>8, <2>2, <2>3, EdgeOne DEF Links
  <2> QED
    BY <1>8, <2>1, <2>2, <2>4
<1>9. handle[q][c] \in Slot /\ \A d \in Links(q, p, c) :
        d \in 1..MaxDirs /\ Rank(Links(q, p, c), d) \in 0..MaxDirs
  BY <1>0, LinkTyped
<1>10. UpStays(q, p, c)
  <2>1. Keeps(puts[q][p], puts'[q][p], UpPuts(q, p, c))
    <3>1. CASE q = r /\ p = t
      BY <3>1 DEF Lands
    <3>2. CASE ~(q = r /\ p = t)
      BY <3>2, SameKeeps DEF Lands
    <3> QED
      BY <3>1, <3>2
  <2>2. \A f \in UpFlags(q, p, c) : f \in flags'[p] <=> f \in flags[p]
    BY <1>5 DEF Stores
  <2>3. ASSUME NEW d \in Links(q, p, c), Stored(q, p, c, d) PROVE Stored(q, p, c, d)'
    <3>1. PICK k : k = Rank(Links(q, p, c), d)
      OBVIOUS
    <3>2. remmem'[p][handle[q][c]][q][k] = remmem[p][handle[q][c]][q][k]
      BY <1>7, <1>9, <3>1 DEF Stores
    <3>3. /\ handle'[q][c] = handle[q][c] /\ Here(q, c, d)' = Here(q, c, d)
          /\ Rank(Links(q, p, c), d)' = k
      BY <1>1, <3>1, SameObjects DEF ObjectsStay, Rank
    <3> QED
      BY <2>3, <3>1, <3>2, <3>3 DEF Stored
  <2> QED
    BY <2>1, <2>2, <2>3 DEF UpStays
<1>11. DownStays(q, p, c)
  <2>1. Keeps(puts[p][q], puts'[p][q], DownPuts(q, p, c))
    <3>1. CASE p = r /\ q = t
      BY <3>1 DEF Lands
    <3>2. CASE ~(p = r /\ q = t)
      BY <3>2, SameKeeps DEF Lands
    <3> QED
      BY <3>1, <3>2
  <2>2. DoneFlag(q, p, c) \in flags'[q] <=> DoneFlag(q, p, c) \in flags[q]
    BY <1>6 DEF Stores
  <2>3. ASSUME NEW d \in Links(q, p, c), Arrived(q, p, c, d) PROVE Arrived(q, p, c, d)'
    <3>1. ghost'[q][c][d] = ghost[q][c][d]
      BY <1>8, <1>9 DEF Stores
    <3>2. inst'[q][c].gen = inst[q][c].gen
      BY <1>1 DEF ObjectsStay
    <3> QED
      BY <2>3, <3>1, <3>2 DEF Arrived
  <2> QED
    BY <2>1, <2>2, <2>3 DEF DownStays
<1> QED
  BY <1>0, <1>1, <1>10, <1>11, FlowStays
-----------------------------------------------------------------------------
\* A flag or block of the receiver reaches the sender.
LEMMA FlowLandsUp ==
  ASSUME SInv, NEW q \in Proc, NEW p \in Proc, p # q, NEW c \in Cid, Listens(q, p, c),
         Flow(q, p, c), NEW put \in UpPuts(q, p, c), Lands(q, p, put), Stores(q, p, put)
  PROVE  Flow(q, p, c)'
<1> DEFINE L == Links(q, p, c)
<1>0. CallsInv /\ SHMEMTypeOK /\ InUse(q, c)
  BY DEF SInv, Listens
<1>1. ObjectsStay(q, p, c) /\ DueStays(q, p, c)
  BY LandsDues
<1>2. put \notin DownPut /\ put \in UpPut
  BY <1>0, LinkParts, PutKinds
<1>3. /\ puts'[p][q] = puts[p][q]
      /\ \A K : Keeps(puts[p][q], puts'[p][q], K)
  BY SameKeeps DEF Lands
<1>4. /\ ReadyFlag(q, c)' = ReadyFlag(q, c) /\ L' = L
      /\ \A d : /\ DstFlag(q, p, c, d)' = DstFlag(q, p, c, d)
                /\ BlockPut(q, p, c, d)' = BlockPut(q, p, c, d)
                /\ Here(q, c, d)' = Here(q, c, d)
      /\ handle'[q][c] = handle[q][c]
  BY <1>1, SameObjects DEF ObjectsStay
<1>5. /\ ReadyDue(q, p, c)' <=> ReadyDue(q, p, c)
      /\ \A d \in L : DstDue(q, p, c, d)' <=> DstDue(q, p, c, d)
      /\ Opened(q, c)' <=> Opened(q, c)
      /\ DoneDue(q, p, c)' <=> DoneDue(q, p, c)
      /\ \A d \in L : DataDue(q, p, c, d)' <=> DataDue(q, p, c, d)
  BY <1>1 DEF DueStays
<1>6. DoneOK(q, p, c)' /\ \A d \in L : DataOK(q, p, c, d)'
  <2> DEFINE K == DownPuts(q, p, c)
  <2>1. Keeps(puts[p][q], puts'[p][q], K)
    BY <1>3
  <2>2. PutFlag(DoneFlag(q, p, c), 0) \in K /\ \A d \in L : DataPut(q, p, c, d) \in K
    BY DEF DownPuts
  <2>3. DoneFlag(q, p, c) \in flags'[q] <=> DoneFlag(q, p, c) \in flags[q]
    BY DEF Stores
  <2>4. ASSUME NEW d \in L, Arrived(q, p, c, d) PROVE Arrived(q, p, c, d)'
    <3>1. d \in 1..MaxDirs /\ inst'[q][c].gen = inst[q][c].gen
      BY <1>0, <1>1, LinkTyped DEF ObjectsStay
    <3>2. ghost'[q][c][d] = ghost[q][c][d]
      BY <3>1 DEF Stores
    <3> QED
      BY <2>4, <3>1, <3>2 DEF Arrived
  <2> HIDE DEF K
  <2>5. DoneOK(q, p, c)'
    BY Zenon, <1>1, <1>5, <2>1, <2>2, <2>3, DoneStays DEF Flow
  <2>6. ASSUME NEW d \in L PROVE DataOK(q, p, c, d)'
    BY <1>1, <1>5, <2>1, <2>2, <2>3, <2>4, DataStays DEF Flow
  <2> QED
    BY <2>5, <2>6
<1>7. /\ \A x : x \in In(puts'[q][p]) => x \in In(puts[q][p])
      /\ \A x : x \in In(puts[q][p]) => x = put \/ x \in In(puts'[q][p])
      /\ put \in In(puts[q][p])
      /\ Once(puts[q][p], put) => put \notin In(puts'[q][p])
      /\ \A y : Earlier(puts[q][p], y, put) => y \notin In(puts[q][p])
      /\ \A x, y : Earlier(puts[q][p], x, y) => Earlier(puts'[q][p], x, y)
      /\ \A K : put \notin K => Keeps(puts[q][p], puts'[q][p], K)
      /\ \A f : f \in flags'[p] <=> f \in flags[p] \/ (put.kind = "flag" /\ f = put.flag)
  BY DEF Lands, Stores
<1>8. handle[q][c] \in Slot /\ \A d \in L : Rank(L, d) \in 0..MaxDirs
  BY <1>0, LinkTyped
<1>9. ASSUME NEW d \in L
      PROVE  Stored(q, p, c, d)' <=>
               IF put.kind = "block" /\ handle[q][c] = put.slot /\ Rank(L, d) = put.k
               THEN put.block = Here(q, c, d) ELSE Stored(q, p, c, d)
  <2>1. PICK k : k = Rank(L, d)
    OBVIOUS
  <2>2. Rank(Links(q, p, c), d)' = k
    BY <1>4, <2>1 DEF Rank
  <2>3. remmem'[p][handle[q][c]][q][k] =
          IF put.kind = "block" /\ handle[q][c] = put.slot /\ k = put.k
          THEN put.block ELSE remmem[p][handle[q][c]][q][k]
    BY <1>8, <2>1 DEF Stores
  <2> QED
    BY <1>4, <2>1, <2>2, <2>3 DEF Stored
<1>10. /\ ReadyOK(q, p, c)
       /\ \A d \in L : DstOK(q, p, c, d) /\ BlockOK(q, p, c, d)
  BY DEF Flow
<1>11. ASSUME NEW d \in L
       PROVE  /\ DstFlag(q, p, c, d) # ReadyFlag(q, c)
              /\ \A e \in L : d # e => /\ DstFlag(q, p, c, d) # DstFlag(q, p, c, e)
                                       /\ Rank(L, d) # Rank(L, e)
                                       /\ BlockPut(q, p, c, d) # BlockPut(q, p, c, e)
  BY <1>0, ApartDirs
<1> HIDE DEF L
<1>12. ASSUME put.kind # "flag" \/ put.flag \notin {DstFlag(q, p, c, d) : d \in L}
       PROVE  \A d \in L : DstOK(q, p, c, d)'
  <2> SUFFICES ASSUME NEW d \in L PROVE DstOK(q, p, c, d)'
    OBVIOUS
  <2> DEFINE K == {PutFlag(DstFlag(q, p, c, d), d)}
  <2>1. put \notin K
    BY <1>12, PutIs
  <2>2. Keeps(puts[q][p], puts'[q][p], K)
    BY <1>7, <2>1
  <2>3. PutFlag(DstFlag(q, p, c, d), d) \in K
    OBVIOUS
  <2>4. DstFlag(q, p, c, d) \in flags'[p] <=> DstFlag(q, p, c, d) \in flags[p]
    BY <1>7, <1>12
  <2> HIDE DEF K
  <2> QED
    BY <1>1, <1>5, <1>10, <2>2, <2>3, <2>4, DstStays
<1>13. CASE put = PutFlag(ReadyFlag(q, c), 0)
  <2>1. put.kind = "flag" /\ put.flag = ReadyFlag(q, c)
    BY <1>13, PutIs
  <2>2. ReadyDue(q, p, c) /\ put \notin In(puts'[q][p]) /\ ReadyFlag(q, c) \in flags'[p]
    BY <1>7, <1>10, <1>13, <2>1 DEF ReadyOK, Signal
  <2>3. ReadyOK(q, p, c)'
    BY <1>4, <1>5, <1>13, <2>1, <2>2 DEF ReadyOK, Signal
  <2>4. ASSUME NEW d \in L PROVE BlockOK(q, p, c, d)'
    <3>1. BlockPut(q, p, c, d) \notin In(puts[q][p])
      BY <1>7, <1>10, <1>13 DEF BlockOK
    <3>2. Stored(q, p, c, d)'
      BY <1>9, <1>10, <2>1, <3>1 DEF BlockOK
    <3>3. BlockPut(q, p, c, d)' \notin In(puts'[q][p])
      BY <1>4, <1>7, <3>1
    <3> QED
      BY <3>2, <3>3 DEF BlockOK
  <2>5. \A d \in L : DstOK(q, p, c, d)'
    BY <1>11, <1>12, <2>1
  <2> QED
    BY <1>4, <1>6, <2>3, <2>4, <2>5 DEF Flow, L
<1>14. ASSUME NEW e \in L, put = PutFlag(DstFlag(q, p, c, e), e)
       PROVE  Flow(q, p, c)'
  <2>1. put.kind = "flag" /\ put.flag = DstFlag(q, p, c, e)
    BY <1>14, PutIs
  <2>2. DstDue(q, p, c, e) /\ put \notin In(puts'[q][p]) /\ DstFlag(q, p, c, e) \in flags'[p]
    BY <1>7, <1>10, <1>14, <2>1 DEF DstOK, Signal
  <2>3. DstOK(q, p, c, e)'
    BY <1>4, <1>5, <1>14, <2>1, <2>2 DEF DstOK, Signal
  <2>4. ASSUME NEW d \in L, d # e PROVE DstOK(q, p, c, d)'
    <3> DEFINE K == {PutFlag(DstFlag(q, p, c, d), d)}
    <3>1. DstFlag(q, p, c, d) # DstFlag(q, p, c, e)
      BY <1>11, <2>4
    <3>2. put \notin K
      BY <2>1, <3>1, PutIs
    <3>3. Keeps(puts[q][p], puts'[q][p], K)
      BY <1>7, <3>2
    <3>4. PutFlag(DstFlag(q, p, c, d), d) \in K
      OBVIOUS
    <3>5. DstFlag(q, p, c, d) \in flags'[p] <=> DstFlag(q, p, c, d) \in flags[p]
      BY <1>7, <2>1, <3>1
    <3> HIDE DEF K
    <3> QED
      BY <1>1, <1>5, <1>10, <3>3, <3>4, <3>5, DstStays
  <2>5. ReadyOK(q, p, c)' /\ \A d \in L : BlockOK(q, p, c, d)'
    <3> DEFINE K == {PutFlag(ReadyFlag(q, c), 0)} \cup {BlockPut(q, p, c, d) : d \in L}
    <3>1. put \notin K
      BY <1>11, <2>1, PutIs DEF BlockPut
    <3>2. Keeps(puts[q][p], puts'[q][p], K)
      BY <1>7, <3>1
    <3>3. PutFlag(ReadyFlag(q, c), 0) \in K /\ \A d \in L : BlockPut(q, p, c, d) \in K
      OBVIOUS
    <3>4. ReadyFlag(q, c) \in flags'[p] <=> ReadyFlag(q, c) \in flags[p]
      BY <1>7, <1>11, <2>1
    <3>5. \A d \in L : Stored(q, p, c, d) => Stored(q, p, c, d)'
      BY <1>9, <2>1
    <3> HIDE DEF K
    <3> QED
      BY <1>1, <1>5, <1>10, <3>2, <3>3, <3>4, <3>5, ReadyStays DEF L
  <2> QED
    BY <1>4, <1>6, <2>3, <2>4, <2>5 DEF Flow, L
<1>15. ASSUME NEW e \in L, put = BlockPut(q, p, c, e)
       PROVE  Flow(q, p, c)'
  <2>1. /\ put.kind = "block" /\ put.slot = handle[q][c] /\ put.k = Rank(L, e)
        /\ put.block = Here(q, c, e)
    BY <1>15, PutIs DEF BlockPut, L
  <2>2. \A d \in L : DstOK(q, p, c, d)'
    BY <1>12, <2>1
  <2>3. ReadyFlag(q, c) \in flags'[p] <=> ReadyFlag(q, c) \in flags[p]
    BY <1>7, <2>1
  <2>4. ReadyOK(q, p, c)'
    <3> DEFINE x == PutFlag(ReadyFlag(q, c), 0)
    <3>1. put # x
      BY <2>1, PutIs
    <3>2. Keeps(puts[q][p], puts'[q][p], {x})
      BY <1>7, <3>1
    <3>3. (x \in In(puts'[q][p]) <=> x \in In(puts[q][p]))
          /\ (Once(puts[q][p], x) => Once(puts'[q][p], x))
      BY <3>2 DEF Keeps
    <3>4. x.flag = ReadyFlag(q, c)
      BY PutIs
    <3>5. PutFlag(ReadyFlag(q, c)', 0) = x
      BY <1>4
    <3> HIDE DEF x
    <3>6. x = PutFlag(ReadyFlag(q, c), 0)
      BY DEF x
    <3> QED
      BY <1>4, <1>5, <1>10, <2>3, <3>3, <3>4, <3>5, <3>6 DEF ReadyOK, Signal
  <2>5. ASSUME NEW d \in L PROVE BlockOK(q, p, c, d)'
    <3>1. BlockPut(q, p, c, d) \in In(puts'[q][p]) \/ Stored(q, p, c, d)'
      <4>1. CASE d = e
        BY <1>9, <2>1, <4>1
      <4>2. CASE d # e
        <5>1. Rank(L, d) # Rank(L, e) /\ BlockPut(q, p, c, d) # put
          BY <1>11, <1>15, <4>2
        <5>2. Stored(q, p, c, d)' <=> Stored(q, p, c, d)
          BY <1>9, <2>1, <5>1
        <5> QED
          BY <1>7, <1>10, <5>1, <5>2 DEF BlockOK
      <4> QED
        BY <4>1, <4>2
    <3>2. BlockPut(q, p, c, d) \in In(puts'[q][p]) =>
            /\ ReadyDue(q, p, c) /\ ReadyFlag(q, c) \notin flags[p]
            /\ Earlier(puts'[q][p], BlockPut(q, p, c, d), PutFlag(ReadyFlag(q, c), 0))
      BY <1>7, <1>10 DEF BlockOK
    <3> QED
      BY <1>4, <1>5, <2>3, <3>1, <3>2 DEF BlockOK
  <2> QED
    BY <1>4, <1>6, <2>2, <2>4, <2>5 DEF Flow, L
<1> QED
  BY <1>13, <1>14, <1>15 DEF UpPuts, L
-----------------------------------------------------------------------------
\* Data or PUTDONE of the sender reaches the receiver.
LEMMA FlowLandsDown ==
  ASSUME SInv, NEW q \in Proc, NEW p \in Proc, p # q, NEW c \in Cid, Listens(q, p, c),
         Flow(q, p, c), NEW put \in DownPuts(q, p, c), Lands(p, q, put), Stores(p, q, put)
  PROVE  Flow(q, p, c)'
<1> DEFINE L == Links(q, p, c)
<1>0. CallsInv /\ SHMEMTypeOK /\ InUse(q, c)
  BY DEF SInv, Listens
<1>1. ObjectsStay(q, p, c) /\ DueStays(q, p, c)
  BY LandsDues
<1>2. puts'[q][p] = puts[q][p]
  BY DEF Lands
<1>4. /\ DoneFlag(q, p, c)' = DoneFlag(q, p, c) /\ L' = L
      /\ \A d : /\ DataPut(q, p, c, d)' = DataPut(q, p, c, d)
                /\ Here(q, c, d)' = Here(q, c, d)
      /\ handle'[q][c] = handle[q][c] /\ inst'[q][c].gen = inst[q][c].gen
  BY <1>1, SameObjects DEF ObjectsStay
<1>5. /\ ReadyDue(q, p, c)' <=> ReadyDue(q, p, c)
      /\ \A d \in L : DstDue(q, p, c, d)' <=> DstDue(q, p, c, d)
      /\ Opened(q, c)' <=> Opened(q, c)
      /\ DoneDue(q, p, c)' <=> DoneDue(q, p, c)
      /\ \A d \in L : DataDue(q, p, c, d)' <=> DataDue(q, p, c, d)
  BY <1>1 DEF DueStays
<1>6. put.kind # "block"
  <2>1. put.kind = "flag" \/ put.kind = "data"
    BY <1>0, LinkParts
  <2> QED
    BY <2>1
<1>8. handle[q][c] \in Slot /\ \A d \in L : d \in 1..MaxDirs /\ Rank(L, d) \in 0..MaxDirs
  BY <1>0, LinkTyped
<1>9. /\ ReadyOK(q, p, c)'
      /\ \A d \in L : DstOK(q, p, c, d)' /\ BlockOK(q, p, c, d)'
  <2> DEFINE K == UpPuts(q, p, c)
  <2>1. Keeps(puts[q][p], puts'[q][p], K)
    BY <1>2, SameKeeps
  <2>2. /\ PutFlag(ReadyFlag(q, c), 0) \in K
        /\ \A d \in L : BlockPut(q, p, c, d) \in K /\ PutFlag(DstFlag(q, p, c, d), d) \in K
    BY DEF UpPuts
  <2>3. \A f : f \in flags'[p] <=> f \in flags[p]
    BY DEF Stores
  <2>4. ASSUME NEW d \in L, Stored(q, p, c, d) PROVE Stored(q, p, c, d)'
    <3>1. PICK k : k = Rank(L, d)
      OBVIOUS
    <3>2. Rank(Links(q, p, c), d)' = k
      BY <1>4, <3>1 DEF Rank
    <3>3. remmem'[p][handle[q][c]][q][k] = remmem[p][handle[q][c]][q][k]
      BY <1>6, <1>8, <3>1 DEF Stores
    <3> QED
      BY <1>4, <2>4, <3>1, <3>2, <3>3 DEF Stored
  <2> HIDE DEF K
  <2>5. ReadyOK(q, p, c)' /\ \A d \in L : BlockOK(q, p, c, d)'
    BY <1>1, <1>5, <2>1, <2>2, <2>3, <2>4, ReadyStays DEF Flow
  <2>6. ASSUME NEW d \in L PROVE DstOK(q, p, c, d)'
    BY <1>1, <1>5, <2>1, <2>2, <2>3, DstStays DEF Flow
  <2> QED
    BY <2>5, <2>6
<1>7. /\ \A x : x \in In(puts'[p][q]) => x \in In(puts[p][q])
      /\ \A x : x \in In(puts[p][q]) => x = put \/ x \in In(puts'[p][q])
      /\ put \in In(puts[p][q])
      /\ Once(puts[p][q], put) => put \notin In(puts'[p][q])
      /\ \A y : Earlier(puts[p][q], y, put) => y \notin In(puts[p][q])
      /\ \A x, y : Earlier(puts[p][q], x, y) => Earlier(puts'[p][q], x, y)
      /\ \A K : put \notin K => Keeps(puts[p][q], puts'[p][q], K)
      /\ \A f : f \in flags'[q] <=> f \in flags[q] \/ (put.kind = "flag" /\ f = put.flag)
  BY DEF Lands, Stores
<1>10. DoneOK(q, p, c) /\ \A d \in L : DataOK(q, p, c, d)
  BY DEF Flow
<1>11. ASSUME NEW d \in L
       PROVE  Arrived(q, p, c, d)' <=>
                IF put.kind = "data" /\ c = put.block.area /\ d = put.block.dir
                THEN put.val = Data(p, c, inst[q][c].gen, d) ELSE Arrived(q, p, c, d)
  <2>1. ghost'[q][c][d] =
          IF put.kind = "data" /\ c = put.block.area /\ d = put.block.dir
          THEN put.val ELSE ghost[q][c][d]
    BY <1>8 DEF Stores
  <2> QED
    BY <1>4, <2>1 DEF Arrived
<1> HIDE DEF L
<1>12. CASE put = PutFlag(DoneFlag(q, p, c), 0)
  <2>1. put.kind = "flag" /\ put.flag = DoneFlag(q, p, c)
    BY <1>12, PutIs
  <2>2. Opened(q, c) /\ DoneDue(q, p, c) /\ put \notin In(puts'[p][q])
        /\ DoneFlag(q, p, c) \in flags'[q]
    BY <1>7, <1>10, <1>12, <2>1 DEF DoneOK, Signal
  <2>3. DoneOK(q, p, c)'
    BY <1>4, <1>5, <1>12, <2>1, <2>2 DEF DoneOK, Signal
  <2>4. ASSUME NEW d \in L PROVE DataOK(q, p, c, d)'
    <3>1. DataPut(q, p, c, d) \notin In(puts[p][q])
      BY <1>7, <1>10, <1>12 DEF DataOK
    <3>2. DataDue(q, p, c, d) => Arrived(q, p, c, d)'
      BY <1>10, <1>11, <2>1, <3>1 DEF DataOK
    <3>3. DataPut(q, p, c, d)' \notin In(puts'[p][q])
      BY <1>4, <1>7, <3>1
    <3> QED
      BY <1>5, <3>2, <3>3 DEF DataOK
  <2> QED
    BY <1>4, <1>9, <2>3, <2>4 DEF Flow, L
<1>13. ASSUME NEW e \in L, put = DataPut(q, p, c, e)
       PROVE  Flow(q, p, c)'
  <2>1. /\ put.kind = "data" /\ put.block.area = c /\ put.block.dir = e
        /\ put.val = Data(p, c, inst[q][c].gen, e)
    BY <1>13, PutIs, HereIs DEF DataPut
  <2>2. DoneFlag(q, p, c) \in flags'[q] <=> DoneFlag(q, p, c) \in flags[q]
    BY <1>7, <2>1
  <2>3. DoneOK(q, p, c)'
    <3> DEFINE K == {PutFlag(DoneFlag(q, p, c), 0)}
    <3>1. put \notin K
      BY <2>1, PutIs
    <3>2. Keeps(puts[p][q], puts'[p][q], K)
      BY <1>7, <3>1
    <3>3. PutFlag(DoneFlag(q, p, c), 0) \in K
      OBVIOUS
    <3> HIDE DEF K
    <3> QED
      BY <1>1, <1>5, <1>10, <2>2, <3>2, <3>3, DoneStays
  <2>4. ASSUME NEW d \in L PROVE DataOK(q, p, c, d)'
    <3>1. DataDue(q, p, c, d) => DataPut(q, p, c, d) \in In(puts'[p][q]) \/ Arrived(q, p, c, d)'
      <4>1. CASE d = e
        BY <1>11, <2>1, <4>1
      <4>2. CASE d # e
        <5>1. DataPut(q, p, c, d) # put
          BY <1>13, <2>1, <4>2, PutIs, HereIs DEF DataPut
        <5>2. Arrived(q, p, c, d)' <=> Arrived(q, p, c, d)
          BY <1>11, <2>1, <4>2
        <5> QED
          BY <1>7, <1>10, <5>1, <5>2 DEF DataOK
      <4> QED
        BY <4>1, <4>2
    <3>2. DataPut(q, p, c, d) \in In(puts'[p][q]) =>
            /\ DataDue(q, p, c, d) /\ DoneFlag(q, p, c) \notin flags[q]
            /\ Earlier(puts'[p][q], DataPut(q, p, c, d), PutFlag(DoneFlag(q, p, c), 0))
      BY <1>7, <1>10 DEF DataOK
    <3> QED
      BY <1>4, <1>5, <2>2, <3>1, <3>2 DEF DataOK
  <2> QED
    BY <1>4, <1>9, <2>3, <2>4 DEF Flow, L
<1> QED
  BY <1>12, <1>13 DEF DownPuts, L
-----------------------------------------------------------------------------
LEMMA LinkDeliver ==
  ASSUME LinkInv, NEW r \in Proc, Deliver(r)
  PROVE  LinksOK'
<1>0. SInv /\ CallsInv /\ SHMEMTypeOK
  BY DEF LinkInv, LockInv, SInv
<1>1. PICK t \in Proc : \E put : Lands(r, t, put) /\ Stores(r, t, put)
  BY <1>0, DeliverView
<1>2. PICK put : Lands(r, t, put) /\ Stores(r, t, put)
  BY <1>1
<1>3. prog' = prog /\ \A x \in Proc : Own(x)' = Own(x)
  BY <1>2 DEF Lands
<1>4. \A q, p \in Proc, c \in Cid : ObjectsStay(q, p, c) /\ (Listens(q, p, c)' <=> Listens(q, p, c))
  BY <1>2, LandsDues
<1>5. \A p \in Proc : DirsOK(p)' /\ AddrOK(p)'
  BY <1>3, AddrOwn DEF LinkInv
<1>6. ASSUME NEW q \in Proc, NEW p \in Proc PROVE NotAhead(q, p)'
  <2>1. inst'[q] = inst[q] /\ \A c \in Cid : InUse(q, c)' <=> InUse(q, c)
    BY <1>3, OwnViews
  <2>2. \A c \in Cid : \A g : SendView(p, q, c, g)
    BY <1>3, OwnViews
  <2>3. \A c \in Cid : \A g : /\ Past(q, c, g, "DR")' <=> Past(q, c, g, "DR")
                              /\ Past(q, c, g, "DN")' <=> Past(q, c, g, "DN")
    BY <2>1 DEF Past
  <2>4. NotAhead(q, p)
    BY DEF LinkInv
  <2>5. \A c \in Cid : \A g \in 1..Len(prog.dirs[c]) :
          /\ Took(p, q, c, g)' => Took(p, q, c, g)
          /\ inst[q][c].gen >= g => inst'[q][c].gen >= g
          /\ \A d \in Edges(p, q, c, g) : Sent(p, c, g, d)' => Sent(p, c, g, d)
          /\ Over(p, c, g) => Over(p, c, g)'
    BY <2>1, <2>2 DEF SendView
  <2> QED
    BY <1>3, <2>3, <2>4, <2>5, AheadStays
<1>7. ASSUME NEW q \in Proc, NEW p \in Proc PROVE NoStray(q, p)'
  <2>1. put.kind = "flag" =>
          \/ put.flag.name \notin UpFlag
          \/ \E e \in Cid : Listens(r, t, e) /\ put.flag \in UpFlags(r, t, e) /\ put.flag.proc = r
    <3> SUFFICES ASSUME put.kind = "flag", put.flag.name \in UpFlag
                 PROVE  \E e \in Cid : /\ Listens(r, t, e) /\ put.flag \in UpFlags(r, t, e)
                                       /\ put.flag.proc = r
      OBVIOUS
    <3>1. put \in PutSet /\ put \in In(puts[r][t])
      BY <1>2 DEF Lands
    <3>2. put \notin DownPut
      BY DEF DownPut, UpFlag
    <3>3. \A e \in Cid : Listens(t, r, e) => put \notin DownPuts(t, r, e)
      BY <1>0, <3>2, LinkParts DEF Listens
    <3>4. PICK e \in Cid : Listens(r, t, e) /\ put \in UpPuts(r, t, e)
      BY <3>1, <3>3, PutFrom DEF UpFlag
    <3>5. InUse(r, e)
      BY <3>4 DEF Listens
    <3>6. /\ \A f \in UpFlags(r, t, e) : f.proc = r
          /\ \A x \in UpPuts(r, t, e) :
               (x.kind = "flag" /\ x.flag \in UpFlags(r, t, e)) \/ x.kind = "block"
      BY <1>0, <3>5, LinkParts
    <3> QED
      BY <3>4, <3>6
  <2>2. \A f \in flags'[p] : f.proc = q /\ f.name \in UpFlag =>
           \/ f \in flags[p]
           \/ \E c \in Cid : Listens(q, p, c)' /\ f \in UpFlags(q, p, c)'
    <3> SUFFICES ASSUME NEW f \in flags'[p], f.proc = q, f.name \in UpFlag, f \notin flags[p]
                 PROVE  \E c \in Cid : Listens(q, p, c)' /\ f \in UpFlags(q, p, c)'
      OBVIOUS
    <3>1. p = t /\ put.kind = "flag" /\ f = put.flag
      BY <1>2 DEF Stores
    <3>2. PICK e \in Cid : Listens(r, t, e) /\ f \in UpFlags(r, t, e) /\ f.proc = r
      BY <2>1, <3>1
    <3>3. q = r
      BY <3>2
    <3>4. Listens(q, p, e)' /\ UpFlags(q, p, e)' = UpFlags(q, p, e)
      BY <1>4, <3>1, <3>2, <3>3, SameObjects
    <3> QED
      BY <3>1, <3>2, <3>3, <3>4
  <2>3. \A a, b \in Proc : \A x : x \in In(puts'[a][b]) => x \in In(puts[a][b])
    BY <1>2 DEF Lands
  <2>4. NoStray(q, p)
    BY DEF LinkInv
  <2>5. \A c \in Cid : Listens(q, p, c) => Listens(q, p, c)' /\ ObjectsStay(q, p, c)
    BY <1>4
  <2>6. /\ \A x \in In(puts'[q][p]) \cap UpPut : x \in In(puts[q][p])
        /\ \A x \in In(puts'[p][q]) \cap DownPut : x \in In(puts[p][q])
    BY <2>3
  <2> QED
    BY <2>2, <2>4, <2>5, <2>6, StrayStays
<1>8. ASSUME NEW q \in Proc, NEW p \in Proc, NEW c \in Cid, Listens(q, p, c)'
      PROVE  Flow(q, p, c)'
  <2>1. Listens(q, p, c) /\ Flow(q, p, c)
    BY <1>4, <1>8 DEF LinkInv
  <2>2. p # q
    <3>1. /\ inst[q][c].gen \in 1..Len(prog.dirs[c])
          /\ Links(q, p, c) # {}
      BY <1>0, <2>1, LinkTyped DEF Listens
    <3> QED
      BY <1>0, <3>1, NoLoop DEF Links
  <2>3. CASE q = r /\ p = t /\ put \in UpPuts(q, p, c)
    BY <1>0, <1>2, <2>1, <2>2, <2>3, FlowLandsUp
  <2>4. CASE p = r /\ q = t /\ put \in DownPuts(q, p, c)
    BY <1>0, <1>2, <2>1, <2>2, <2>4, FlowLandsDown
  <2>5. CASE /\ ~(q = r /\ p = t /\ put \in UpPuts(q, p, c))
             /\ ~(p = r /\ q = t /\ put \in DownPuts(q, p, c))
    BY <1>2, <2>1, <2>5, FlowElse
  <2> QED
    BY <2>3, <2>4, <2>5
<1> QED
  BY <1>5, <1>6, <1>7, <1>8 DEF LinksOK

LEMMA NextLink == LinkInv /\ [Next]_vars => LinkInv'
<1> SUFFICES ASSUME LinkInv, [Next]_vars PROVE LinkInv'
  OBVIOUS
<1>1. LockInv'
  BY NextLock DEF LinkInv
<1>2. CASE UNCHANGED vars
  <2>1. /\ prog' = prog /\ pos' = pos /\ inst' = inst /\ freelist' = freelist
        /\ commbank' = commbank /\ handle' = handle /\ counters' = counters
        /\ flags' = flags /\ remmem' = remmem /\ puts' = puts /\ step' = step /\ ghost' = ghost
    BY <1>2 DEF vars, callVars, descVars
  <2>2. \A x \in Proc : Own(x)' = Own(x)
    BY <2>1 DEF Own
  <2>3. \A p \in Proc : DirsOK(p)' /\ AddrOK(p)'
    BY <2>2, AddrOwn DEF LinkInv
  <2>4. \A q, p \in Proc, c \in Cid : /\ ObjectsStay(q, p, c) /\ DueStays(q, p, c)
                                      /\ Listens(q, p, c)' <=> Listens(q, p, c)
    BY <2>1, <2>2, OwnViews, ViewDues
  <2>5. ASSUME NEW q \in Proc, NEW p \in Proc, NEW c \in Cid, Listens(q, p, c)'
        PROVE  Flow(q, p, c)'
    <3>1. UpStays(q, p, c)
      <4>1. ASSUME NEW d \in Links(q, p, c), Stored(q, p, c, d) PROVE Stored(q, p, c, d)'
        <5>1. Here(q, c, d)' = Here(q, c, d)
          BY <2>4, SameObjects
        <5>2. Rank(Links(q, p, c), d)' = Rank(Links(q, p, c), d)
          BY <2>4 DEF ObjectsStay, Rank
        <5> QED
          BY <2>1, <4>1, <5>1, <5>2 DEF Stored
      <4> QED
        BY <2>1, <4>1, SameKeeps DEF UpStays
    <3>2. DownStays(q, p, c)
      BY <2>1, <2>4, SameKeeps DEF DownStays, Arrived, ObjectsStay
    <3> QED
      BY <2>4, <2>5, <3>1, <3>2, FlowStays DEF LinkInv
  <2>6. ASSUME NEW q \in Proc, NEW p \in Proc PROVE NoStray(q, p)'
    BY <2>1, <2>4, StrayStays DEF LinkInv
  <2>7. ASSUME NEW q \in Proc, NEW p \in Proc PROVE NotAhead(q, p)'
    <3>1. \A c \in Cid : \A g : SendView(p, q, c, g)
      BY <2>2, OwnViews
    <3>2. \A c \in Cid : InUse(q, c)' <=> InUse(q, c)
      BY <2>2, OwnViews
    <3>3. \A c \in Cid : \A g : /\ Past(q, c, g, "DR")' <=> Past(q, c, g, "DR")
                                /\ Past(q, c, g, "DN")' <=> Past(q, c, g, "DN")
      BY <2>1, <3>2 DEF Past
    <3>4. \A c \in Cid : \A g \in 1..Len(prog.dirs[c]) :
            /\ Took(p, q, c, g)' => Took(p, q, c, g)
            /\ inst[q][c].gen >= g => inst'[q][c].gen >= g
            /\ \A d \in Edges(p, q, c, g) : Sent(p, c, g, d)' => Sent(p, c, g, d)
            /\ Over(p, c, g) => Over(p, c, g)'
      BY <2>1, <3>1 DEF SendView
    <3> QED
      BY <2>1, <3>3, <3>4, AheadStays DEF LinkInv
  <2> QED
    BY <1>1, <2>3, <2>5, <2>6, <2>7 DEF LinkInv
<1>3. CASE \E p \in Proc : Step(p) \/ Deliver(p)
  <2>1. PICK p \in Proc : Step(p) \/ Deliver(p)
    BY <1>3
  <2>2. ASSUME Deliver(p) PROVE LinksOK'
    BY <2>2, LinkDeliver
  <2>3. ASSUME Step(p) PROVE LinksOK'
    BY <2>3, LinkNew, LinkDR, LinkSRAddr, LinkSRPut, LinkSRReturn, LinkDN, LinkOld, LinkLoop
       DEF Step
  <2>4. LinksOK'
    BY <2>1, <2>2, <2>3
  <2> QED
    BY <1>1, <2>4 DEF LinkInv, LinksOK
<1> QED
  BY <1>2, <1>3 DEF Next, Terminated

LEMMA InitLink == Init /\ SkipsRestore(prog) => LinkInv
<1> SUFFICES ASSUME Init, SkipsRestore(prog) PROVE LinkInv
  OBVIOUS
<1>1. LockInv
  BY InitLock
<1>2. \A p \in Proc, c \in Cid : inst[p][c].gen = 0 /\ inst[p][c].done = {}
  BY DEF Init, InitCalls
<1>3. \A p \in Proc, c \in Cid : ~InUse(p, c) /\ (\A q : ~Listens(p, q, c))
  BY <1>2 DEF InUse, Listens
<1>4. \A p \in Proc : DirsOK(p) /\ AddrOK(p)
  BY <1>3 DEF DirsOK, AddrOK
<1>5. \A q, p \in Proc : In(puts[q][p]) = {}
  <2>1. \A q, p \in Proc : puts[q][p] = <<>>
    BY DEF Init
  <2> QED
    BY <2>1 DEF In
<1>6. \A p \in Proc : \A f \in flags[p] : f.name \notin UpFlag
  <2>1. \A p \in Proc : flags[p] = {Flag("REMMEMWRITABLE", s, q, 0) : s \in Slot, q \in Proc}
    BY DEF Init
  <2>2. "REMMEMWRITABLE" \notin UpFlag
    BY DEF UpFlag
  <2> QED
    BY <2>1, <2>2, FlagIs
<1>7. \A q, p \in Proc : NoStray(q, p)
  BY <1>5, <1>6 DEF NoStray
<1>8. ASSUME NEW q \in Proc, NEW p \in Proc PROVE NotAhead(q, p)
  <2> SUFFICES ASSUME NEW c \in Cid, NEW g \in 1..Len(prog.dirs[c])
               PROVE  /\ Took(p, q, c, g) => inst[q][c].gen >= g
                      /\ \A d \in Edges(p, q, c, g) : Sent(p, c, g, d) => Past(q, c, g, "DR")
                      /\ Past(q, c, g, "DN") => Over(p, c, g)
    BY DEF NotAhead
  <2>1. g \in Nat /\ g > 0
    OBVIOUS
  <2>2. ~(0 > g) /\ 0 # g
    BY <2>1
  <2>3. ~Over(p, c, g) /\ ~Past(q, c, g, "DN")
    BY <1>2, <2>2 DEF Over, Past
  <2>4. ~Took(p, q, c, g) /\ \A d : ~Sent(p, c, g, d)
    BY <1>2, <2>2, <2>3 DEF Took, Sent
  <2> QED
    BY <2>3, <2>4
<1> QED
  BY <1>1, <1>3, <1>4, <1>7, <1>8 DEF LinkInv
-----------------------------------------------------------------------------
LEMMA SpecLink ==
  (\A pr \in Programs : SkipsRestore(pr)) => (Spec => []LinkInv)
<1> SUFFICES ASSUME \A pr \in Programs : SkipsRestore(pr) PROVE Spec => []LinkInv
  OBVIOUS
<1>1. Init => LinkInv
  <2>1. Init => prog \in Programs
    BY DEF Init, InitCalls
  <2> QED
    BY <2>1, InitLink
<1>2. LinkInv /\ [Next]_vars => LinkInv'
  BY NextLink
<1> QED
  BY <1>1, <1>2, PTL DEF Spec

\* The addresses a sender takes are those of the instance and direction it
\* sends for: REMMEMREADY came behind the fence that follows the blocks.
THEOREM SHMEMAddressesCurrent ==
  (\A pr \in Programs : SkipsRestore(pr)) => (Spec => []AddressesCurrent)
<1> SUFFICES ASSUME \A pr \in Programs : SkipsRestore(pr) PROVE Spec => []AddressesCurrent
  OBVIOUS
<1>1. Spec => []LinkInv
  BY SpecLink
<1>2. LinkInv => AddressesCurrent
  <2> SUFFICES ASSUME LinkInv, NEW p \in Proc, NEW c \in Cid, May(p, "SR", c),
                      NEW d \in DOMAIN SendInfo(p, c)
               PROVE  \/ SendInfo(p, c)[d].remmeminfo = NoBlock
                      \/ SendInfo(p, c)[d].remmeminfo
                           = [area |-> c, gen |-> inst[p][c].gen, dir |-> d]
    BY DEF AddressesCurrent
  <2>1. InUse(p, c) /\ AddrOK(p)
    BY InSR DEF LinkInv, LockInv
  <2> QED
    BY <2>1 DEF AddrOK, Here
<1> QED
  BY <1>1, <1>2, PTL

\* No signal reaches a flag that is still raised: each is due from the moment it
\* is sent until it is seen, and is up or under way once in that time.
THEOREM SHMEMNoSignalLost ==
  (\A pr \in Programs : SkipsRestore(pr)) => (Spec => []NoSignalLost)
<1> SUFFICES ASSUME \A pr \in Programs : SkipsRestore(pr) PROVE Spec => []NoSignalLost
  OBVIOUS
<1>1. Spec => []LinkInv
  BY SpecLink
<1>2. LinkInv => NoSignalLost
  <2> SUFFICES ASSUME LinkInv, NEW p \in Proc, NEW q \in Proc, NEW put \in UnderWay(p, q),
                      put.kind = "flag", put.flag.name # "REMMEMWRITABLE"
               PROVE  put.flag \notin flags[q]
    BY DEF NoSignalLost
  <2>0. CallsInv /\ SHMEMTypeOK
    BY DEF LinkInv, LockInv, SInv
  <2>1. put \in In(puts[p][q])
    BY DEF UnderWay, In
  <2>2. put \in PutSet
    <3>1. puts[p][q] \in Seq(SUBSET PutSet)
      BY <2>0 DEF SHMEMTypeOK
    <3>2. PICK i \in 1..Len(puts[p][q]) : put \in puts[p][q][i]
      BY <2>1, InIs
    <3> QED
      BY <3>1, <3>2
  <2>3. ASSUME NEW e \in Cid, Listens(p, q, e), put \in UpPuts(p, q, e)
        PROVE  put.flag \notin flags[q]
    <3>1. Flow(p, q, e)
      BY <2>3 DEF LinkInv
    <3>2. \A d : BlockPut(p, q, e, d) # put
      BY PutIs DEF BlockPut
    <3>3. CASE put = PutFlag(ReadyFlag(p, e), 0)
      BY <2>1, <3>1, <3>3 DEF Flow, ReadyOK, Signal
    <3>4. ASSUME NEW d \in Links(p, q, e), put = PutFlag(DstFlag(p, q, e, d), d)
          PROVE  put.flag \notin flags[q]
      BY <2>1, <3>1, <3>4 DEF Flow, DstOK, Signal
    <3> QED
      BY <2>3, <3>2, <3>3, <3>4 DEF UpPuts
  <2>4. ASSUME NEW e \in Cid, Listens(q, p, e), put \in DownPuts(q, p, e)
        PROVE  put.flag \notin flags[q]
    <3>1. Flow(q, p, e)
      BY <2>4 DEF LinkInv
    <3>2. \A d : DataPut(q, p, e, d) # put
      BY PutIs DEF DataPut
    <3>3. put = PutFlag(DoneFlag(q, p, e), 0)
      BY Zenon, <2>4, <3>2 DEF DownPuts
    <3> QED
      BY <2>1, <3>1, <3>3 DEF Flow, DoneOK, Signal
  <2> QED
    BY Zenon, <2>1, <2>2, <2>3, <2>4, PutFrom
<1> QED
  BY <1>1, <1>2, PTL

-----------------------------------------------------------------------------
(* What NEW waits for.                                                     *)

\* NEW lowers the flag of a processor it receives from.
LEMMA NewWaits ==
  ASSUME SInv, NEW p \in Proc, New(p), NEW f \in flags[p], f \notin flags'[p]
  PROVE  \E c \in Cid, q \in Proc :
           /\ Return(p, "NEW", c) /\ f = Writable(q, handle'[p][c])
           /\ inst[p][c].gen + 1 \in 1..Len(prog.dirs[c])
           /\ Edges(q, p, c, inst[p][c].gen + 1) # {}
<1>1. PICK c \in Cid :
  LET ds == Dirs(p, c)
      s == freelist[p][Len(freelist[p])]
      recvs == [d \in RecvDirs(p, ds) |-> [proc |-> Source(p, ds, d), area |-> c]]
      writable == {Flag("REMMEMWRITABLE", s, recvs[d].proc, 0) :
                     d \in {e \in DOMAIN recvs : IsNext(e, DOMAIN recvs)}}
  IN /\ Return(p, "NEW", c)
     /\ flags' = [flags EXCEPT ![p] = @ \ writable]
     /\ handle' = [handle EXCEPT ![p][c] = s]
  BY Zenon DEF New
<1> DEFINE ds == Dirs(p, c)
           s == freelist[p][Len(freelist[p])]
           recvs == [d \in RecvDirs(p, ds) |-> [proc |-> Source(p, ds, d), area |-> c]]
<1>2. /\ inst[p][c].gen + 1 \in 1..Len(prog.dirs[c])
      /\ ds = prog.dirs[c][inst[p][c].gen + 1]
  <2>1. Return(p, "NEW", c) /\ "NEW" \in Op /\ CallsInv
    BY <1>1 DEF Op, SInv
  <2>2. Gen(p, c) = inst[p][c].gen + 1 /\ Gen(p, c) \in 1..Len(prog.dirs[c])
    BY <2>1, ReturnStep, Place
  <2> QED
    BY <2>2 DEF Dirs
<1>3. handle'[p][c] = s
  BY <1>1 DEF SInv, SHMEMTypeOK
<1>4. PICK d \in DOMAIN recvs : f = Flag("REMMEMWRITABLE", s, recvs[d].proc, 0)
  BY <1>1 DEF SInv, SHMEMTypeOK
<1>5. d \in RecvDirs(p, ds) /\ recvs[d].proc = Source(p, ds, d)
  OBVIOUS
<1> HIDE DEF ds, recvs, s
<1>6. Source(p, ds, d) \in Proc /\ ds[d][Source(p, ds, d)] = p /\ d \in DOMAIN ds
  BY Zenon, <1>5, SourceType DEF RecvDirs
<1>7. d \in Edges(Source(p, ds, d), p, c, inst[p][c].gen + 1)
  BY <1>2, <1>6 DEF Edges
<1> QED
  BY Zenon, <1>1, <1>2, <1>3, <1>4, <1>5, <1>6, <1>7 DEF Writable

LEMMA ComingIs ==
  ASSUME NEW f, NEW p, NEW q
  PROVE  Coming(f, p, q) <=>
           f \in flags[p] \/ \E x \in In(puts[q][p]) : x.kind = "flag" /\ x.flag = f
BY DEF Coming, UnderWay, In

\* Puts under way stay so until they are delivered, ...
LEMMA StepPuts ==
  ASSUME SInv, NEW r \in Proc, Step(r), NEW q \in Proc, NEW p \in Proc
  PROVE  \A x \in In(puts[q][p]) : x \in In(puts'[q][p])
<1>0. SHMEMTypeOK /\ puts[q][p] \in Seq(SUBSET PutSet)
  BY DEF SInv, SHMEMTypeOK
<1>1. CASE New(r)
  <2>1. PICK c \in Cid : \E g, s, lost, sent : NewAt(r, c, g, s, lost, sent)
    BY <1>1, NewView
  <2>2. PICK lost, sent : Effect(r, lost, sent)
    BY <2>1 DEF NewAt
  <2> QED
    BY <2>2 DEF Effect
<1>2. ASSUME NEW new, \/ puts'[q][p] = AddPuts(puts[q][p], new)
                      \/ puts'[q][p] = AddPuts(Fence(puts[q][p]), new)
      PROVE  \A x \in In(puts[q][p]) : x \in In(puts'[q][p])
  <2>1. /\ \A x \in In(puts[q][p]) : x \in In(AddPuts(puts[q][p], new))
        /\ \A x \in In(puts[q][p]) : x \in In(AddPuts(Fence(puts[q][p]), new))
    BY <1>0, AddEffect
  <2> QED
    BY <1>2, <2>1
<1>3. ASSUME DR(r) \/ SRPut(r) \/ SRReturn(r) \/ Old(r)
      PROVE  \/ puts'[q][p] = puts[q][p]
             \/ \E new : \/ puts'[q][p] = AddPuts(puts[q][p], new)
                         \/ puts'[q][p] = AddPuts(Fence(puts[q][p]), new)
  <2> SUFFICES ASSUME q = r PROVE \/ puts'[q][p] = puts[q][p]
                                  \/ \E new : \/ puts'[q][p] = AddPuts(puts[q][p], new)
                                              \/ puts'[q][p] = AddPuts(Fence(puts[q][p]), new)
    BY Zenon, <1>0, <1>3 DEF DR, SRPut, SRReturn, Old, SHMEMTypeOK
  <2>1. CASE DR(r)
    <3>1. PICK c \in Cid : puts' = [puts EXCEPT ![r] = [x \in Proc |-> AddPuts(@[x],
             {PutFlag(Flag("DSTREADY", handle[r][c], r, DstIndex(r, c, d)), d) :
                d \in With(RecvInfo(r, c), x)})]]
      BY Zenon, <2>1 DEF DR
    <3> QED
      BY <1>0, <3>1 DEF SHMEMTypeOK
  <2>4. CASE Old(r)
    <3>1. PICK c \in Cid : puts' = [puts EXCEPT ![r] = [x \in Proc |-> AddPuts(@[x],
             {PutFlag(Flag("REMMEMWRITABLE", handle[r][c], r, 0), d) :
                d \in With(SendInfo(r, c), x)})]]
      BY Zenon, <2>4 DEF Old
    <3> QED
      BY <1>0, <3>1 DEF SHMEMTypeOK
  <2>2. CASE SRPut(r)
    <3>1. \E to, new : puts' = [puts EXCEPT ![r][to] = AddPuts(puts[r][to], new)]
      BY Zenon, <2>2 DEF SRPut
    <3> QED
      BY <1>0, <3>1 DEF SHMEMTypeOK
  <2>3. CASE SRReturn(r)
    <3>1. PICK c \in Cid :
        LET n(x) == Cardinality(With(SendInfo(r, c), x))
            done(x) == IF Reached(counters[r][handle[r][c]][x].count, n(x),
                                  counters[r][handle[r][c]][x].sends)
                       THEN {PutFlag(Flag("PUTDONE", handle[r][c], r, 0), 0)} ELSE {}
        IN puts' = [puts EXCEPT ![r] = [x \in Proc |->
             IF SendInfo(r, c) = <<>> THEN @[x] ELSE AddPuts(DataFence(@[x]), done(x))]]
      BY Zenon, <2>3 DEF SRReturn
    <3> QED
      BY <1>0, <3>1 DEF SHMEMTypeOK, DataFence
  <2> QED
    BY Zenon, <1>3, <2>1, <2>2, <2>3, <2>4
<1>4. CASE SRAddr(r) \/ DN(r) \/ Loop(r)
  BY Zenon, <1>4 DEF SRAddr, DN, Loop
<1> QED
  BY <1>1, <1>2, <1>3, <1>4 DEF Step

\* ... and only NEW lowers REMMEMWRITABLE.
LEMMA StepWritable ==
  ASSUME SInv, NEW r \in Proc, Step(r), ~New(r), NEW p \in Proc, NEW q, NEW s,
         Writable(q, s) \in flags[p]
  PROVE  Writable(q, s) \in flags'[p]
<1>1. flags \in [Proc -> SUBSET FlagSet]
  BY DEF SInv, SHMEMTypeOK
<1>2. Writable(q, s).name = "REMMEMWRITABLE"
  BY FlagIs DEF Writable
<1>3. CASE DR(r)
  <2>1. PICK c \in Cid : flags' = [flags EXCEPT ![r] = flags[r] \ PutDones(r, c)]
    BY <1>3 DEF DR
  <2>2. Writable(q, s) \notin PutDones(r, c)
    BY <1>2, FlagIs DEF PutDones
  <2> QED
    BY Zenon, <1>1, <2>1, <2>2
<1>4. CASE SRAddr(r)
  <2>1. PICK c \in Cid : \E d \in DOMAIN SendInfo(r, c) :
          flags' = [flags EXCEPT ![r] = flags[r] \ Ready(r, c, d)]
    BY Zenon, <1>4 DEF SRAddr
  <2>2. \A d : Writable(q, s) \notin Ready(r, c, d)
    BY <1>2, FlagIs DEF Ready
  <2> QED
    BY <1>1, <2>1, <2>2
<1>5. CASE SRPut(r)
  <2>1. \E a, t, k : flags' = [flags EXCEPT ![r] = flags[r] \ {Flag("DSTREADY", a, t, k)}]
    <3>1. PICK c \in Cid : \E d \in DOMAIN SendInfo(r, c) :
            flags' = [flags EXCEPT ![r] = flags[r] \
              {Flag("DSTREADY", handle[r][c], SendInfo(r, c)[d].proc,
                    counters[r][handle[r][c]][SendInfo(r, c)[d].proc].count)}]
      BY Zenon, <1>5 DEF SRPut
    <3> QED
      BY <3>1
  <2>2. \A a, t, k : Writable(q, s) # Flag("DSTREADY", a, t, k)
    BY <1>2, FlagIs
  <2> QED
    BY <1>1, <2>1, <2>2
<1>6. CASE SRReturn(r) \/ DN(r) \/ Old(r) \/ Loop(r)
  BY Zenon, <1>6 DEF SRReturn, DN, Old, Loop
<1> QED
  BY <1>3, <1>4, <1>5, <1>6 DEF Step

\* OLD raises the flag at those it sent to.
LEMMA OldReleases ==
  ASSUME LinkInv, NEW q \in Proc, NEW c \in Cid, NEW p \in Proc,
         Edges(q, p, c, inst[q][c].gen) # {}, InUse(q, c), NEW s, handle[q][c] = s,
         puts' = [puts EXCEPT ![q] = [x \in Proc |-> AddPuts(@[x],
            {PutFlag(Flag("REMMEMWRITABLE", handle[q][c], q, 0), d) :
               d \in With(SendInfo(q, c), x)})]]
  PROVE  Coming(Writable(q, s), p, q)'
<1>0. SInv /\ SHMEMTypeOK /\ DirsOK(q) /\ puts[q][p] \in Seq(SUBSET PutSet)
  BY DEF LinkInv, LockInv, SInv, SHMEMTypeOK
<1> DEFINE new == {PutFlag(Flag("REMMEMWRITABLE", handle[q][c], q, 0), d) :
                     d \in With(SendInfo(q, c), p)}
<1>1. puts'[q][p] = AddPuts(puts[q][p], new)
  BY <1>0 DEF SHMEMTypeOK
<1>2. PICK d : d \in With(SendInfo(q, c), p)
  BY <1>0, InfoLinks
<1>3. PICK x : x = PutFlag(Flag("REMMEMWRITABLE", s, q, 0), d)
  OBVIOUS
<1>4. x \in new
  BY <1>2, <1>3
<1>5. x.kind = "flag" /\ x.flag = Flag("REMMEMWRITABLE", s, q, 0)
  BY <1>3, PutIs
<1> HIDE DEF new
<1>6. x \in In(puts'[q][p])
  BY <1>0, <1>1, <1>4, AddEffect
<1> QED
  BY <1>5, <1>6 DEF Coming, UnderWay, In, Writable

LEMMA SameProgram ==
  ASSUME prog' = prog
  PROVE  \A n, c : /\ SlotAt(n, c)' = SlotAt(n, c)
                   /\ GenAt(prog, c, n)' = GenAt(prog, c, n)
                   /\ prog'.calls[n] = prog.calls[n]
<1>1. BankAfter(prog)' = BankAfter(prog)
  BY DEF BankAfter
<1>2. \A n, c : GenAt(prog, c, n)' = GenAt(prog, c, n)
  BY DEF GenAt, Places
<1> QED
  BY <1>1, <1>2 DEF SlotAt

LEMMA DeliverWritable ==
  ASSUME SInv, NEW r \in Proc, Deliver(r), NEW q \in Proc, NEW p \in Proc, WritableOK(q, p)
  PROVE  WritableOK(q, p)'
<1>1. PICK t \in Proc : \E put : Lands(r, t, put) /\ Stores(r, t, put)
  BY DeliverView
<1>2. PICK put : Lands(r, t, put) /\ Stores(r, t, put)
  BY <1>1
<1>3. prog' = prog /\ pos'[p] = pos[p] /\ inst'[q] = inst[q]
  BY <1>2 DEF Lands, Own
<1>4. ASSUME NEW f, Coming(f, p, q) PROVE Coming(f, p, q)'
  <2>1. CASE f \in flags[p]
    BY <1>2, <2>1 DEF Stores, Coming
  <2>2. ASSUME NEW x \in In(puts[q][p]), x.kind = "flag", x.flag = f
        PROVE  f \in flags'[p] \/ x \in In(puts'[q][p])
    <3>1. CASE q # r \/ p # t
      BY <1>2, <2>2, <3>1 DEF Lands
    <3>2. CASE q = r /\ p = t
      BY <1>2, <2>2, <3>2 DEF Lands, Stores
    <3> QED
      BY <3>1, <3>2
  <2> QED
    BY <1>4, <2>1, <2>2, ComingIs DEF Coming, UnderWay, In
<1>5. \A n, c : /\ SlotAt(n, c)' = SlotAt(n, c) /\ GenAt(prog, c, n)' = GenAt(prog, c, n)
                /\ prog'.calls[n] = prog.calls[n]
  BY <1>3, SameProgram
<1>6. \A c, g : /\ Edges(q, p, c, g)' = Edges(q, p, c, g)
                /\ Holds(q, c, g)' <=> Holds(q, c, g)
  BY <1>3 DEF Edges, Holds, InUse
<1>7. \A s, n, c : Unreleased(q, p, s, n, c) => Unreleased(q, p, s, n, c)'
  BY <1>5, <1>6 DEF Unreleased
<1>8. \A s : Writable(q, s)' = Writable(q, s)
  BY DEF Writable
<1> QED
  BY <1>3, <1>4, <1>7, <1>8 DEF WritableOK

LEMMA StepReleases ==
  ASSUME LinkInv, NEW r \in Proc, Step(r), NEW q \in Proc, NEW p \in Proc, NEW s \in Slot,
         NEW n \in 1..pos[p], NEW c \in Cid, Unreleased(q, p, s, n, c)
  PROVE  Unreleased(q, p, s, n, c)' \/ Coming(Writable(q, s), p, q)'
<1>0. SInv /\ CallsInv /\ LockInv /\ Len(prog.calls) \in Nat /\ pos[p] \in 0..Len(prog.calls)
  BY CallsTyped DEF LinkInv, LockInv, SInv
<1>1. PICK g : g = GenAt(prog, c, n)
  OBVIOUS
<1>2. g \in Nat
  BY <1>0, <1>1, GenCount
<1>3. prog' = prog
  BY Zenon DEF Step, New, DR, SRAddr, SRPut, SRReturn, DN, Old, Loop, Return, Pass, SkipTile,
         SkipTo, callVars
<1>4. /\ Edges(q, p, c, g) # {} /\ Holds(q, c, g)
      /\ prog.calls[n] = <<"NEW", c>> /\ SlotAt(n, c) = s
  BY <1>1 DEF Unreleased
<1>5. ASSUME Holds(q, c, g)' PROVE Unreleased(q, p, s, n, c)'
  <2>1. SlotAt(n, c)' = SlotAt(n, c) /\ GenAt(prog, c, n)' = g /\ prog'.calls[n] = prog.calls[n]
    BY <1>1, <1>3, SameProgram
  <2>2. Edges(q, p, c, g)' = Edges(q, p, c, g)
    BY <1>3 DEF Edges
  <2> QED
    BY <1>4, <1>5, <2>1, <2>2 DEF Unreleased
<1>6. CASE ~Old(r)
  <2>1. \/ \E e \in Cid, o \in Op \ {"OLD"} : Return(r, o, e)
        \/ \E o \in LoopOp : Pass(r, o)
        \/ SkipTile(r)
        \/ UNCHANGED callVars
    BY Zenon, <1>6 DEF Step, New, DR, SRAddr, SRPut, SRReturn, DN, Loop, Op, callVars
  <2>2. Holds(q, c, g)'
    BY <1>0, <1>2, <1>4, <2>1, HoldsStays
  <2> QED
    BY <1>5, <2>2
<1>7. CASE Old(r)
  <2>1. PICK e \in Cid :
          /\ Return(r, "OLD", e)
          /\ puts' = [puts EXCEPT ![r] = [x \in Proc |-> AddPuts(@[x],
               {PutFlag(Flag("REMMEMWRITABLE", handle[r][e], r, 0), d) :
                  d \in With(SendInfo(r, e), x)})]]
    BY Zenon, <1>7 DEF Old
  <2>2. inst'[r][e].gen = inst[r][e].gen
    <3>1. PICK o \in Op : o = "OLD"
      BY DEF Op
    <3>2. inst'[r][e].gen = Gen(r, e) /\ Gen(r, e) = inst[r][e].gen
      <4>1. Return(r, o, e) /\ o # "NEW"
        BY <2>1, <3>1
      <4> QED
        BY <1>0, <4>1, ReturnGen
    <3> QED
      BY <3>2
  <2>3. q # r \/ c # e => inst'[q][c] = inst[q][c]
    BY <1>0, <2>1, ReturnDone DEF Op
  <2>4. CASE q # r \/ c # e
    <3>1. Holds(q, c, g)'
      BY <1>4, <2>3, <2>4 DEF Holds, InUse
    <3> QED
      BY <1>5, <3>1
  <2>5. CASE q = r /\ c = e /\ inst[q][c].gen < g
    <3>1. Holds(q, c, g)'
      BY <2>2, <2>5 DEF Holds
    <3> QED
      BY <1>5, <3>1
  <2>6. CASE q = r /\ c = e /\ inst[q][c].gen = g /\ InUse(q, c)
    <3>1. handle[q][c] = s
      <4>1. n \in 1..Len(prog.calls)
        BY <1>0
      <4> QED
        BY <1>0, <1>1, <1>4, <2>6, <4>1, SlotOf
    <3>2. Coming(Writable(q, s), p, q)'
      <4>1. Edges(q, p, c, inst[q][c].gen) # {}
        BY <1>4, <2>6
      <4>2. puts' = [puts EXCEPT ![q] = [x \in Proc |-> AddPuts(@[x],
               {PutFlag(Flag("REMMEMWRITABLE", handle[q][c], q, 0), d) :
                  d \in With(SendInfo(q, c), x)})]]
        BY Zenon, <2>1, <2>6
      <4> QED
        BY <2>6, <3>1, <4>1, <4>2, OldReleases
    <3> QED
      BY <3>2
  <2> QED
    BY <1>4, <2>4, <2>5, <2>6 DEF Holds, InUse
<1> QED
  BY <1>6, <1>7

\* Who lowers the flag has begun an instance under the descriptor.
LEMMA LowersIt ==
  ASSUME LinkInv, LinkInv', NEW p \in Proc, New(p), NEW q \in Proc, NEW s \in Slot,
         Writable(q, s) \in flags[p], Writable(q, s) \notin flags'[p]
  PROVE  \E n \in 1..pos'[p], c \in Cid : Unreleased(q, p, s, n, c)'
<1>0. SInv /\ CallsInv /\ CallsInv' /\ GensInv' /\ Lock(p)' /\ NotAhead(p, q)
  BY DEF LinkInv, LockInv, SInv, PlaceInv
<1>1. PICK c \in Cid, x \in Proc :
        /\ Return(p, "NEW", c) /\ Writable(q, s) = Writable(x, handle'[p][c])
        /\ inst[p][c].gen + 1 \in 1..Len(prog.dirs[c])
        /\ Edges(x, p, c, inst[p][c].gen + 1) # {}
  BY <1>0, NewWaits
<1>2. x = q /\ handle'[p][c] = s
  BY <1>1, FlagIs DEF Writable
<1>3. PICK o \in Op : o = "NEW"
  BY DEF Op
<1>4. PICK n : n = pos[p] + 1
  OBVIOUS
<1>5. PICK g : g = inst[p][c].gen + 1
  OBVIOUS
<1>6. /\ pos[p] \in Nat /\ prog' = prog /\ pos'[p] = n /\ prog.calls[n] = <<"NEW", c>>
      /\ \A r \in Proc : r # p => inst'[r] = inst[r]
  <2>1. Return(p, o, c)
    BY <1>1, <1>3
  <2>2. /\ pos[p] \in Nat /\ prog' = prog /\ pos' = [pos EXCEPT ![p] = pos[p] + 1]
        /\ prog.calls[pos[p] + 1] = <<o, c>>
        /\ \A r \in Proc : r # p => inst'[r] = inst[r]
    BY <1>0, <2>1, Place
  <2>3. pos'[p] = pos[p] + 1
    BY <1>0, <2>2 DEF CallsInv, CallsTypeOK
  <2> QED
    BY <1>3, <1>4, <2>2, <2>3
<1>7. inst'[p][c].gen = g /\ InUse(p, c)'
  BY <1>0, <1>1, <1>3, <1>5, ReturnGen, ReturnDone
<1>8. inst[p][c].gen \in Nat /\ inst[q][c].gen \in Nat
  BY <1>0 DEF CallsInv, CallsTypeOK
<1>9. GenAt(prog, c, n)' = g
  BY <1>0, <1>6, <1>7 DEF GensInv
<1>10. SlotAt(n, c)' = s
  BY Zenon, <1>0, <1>2, <1>6, <1>7 DEF Lock, SlotAt
<1>11. Edges(q, p, c, g) # {} /\ Edges(q, p, c, g)' # {} /\ g \in 1..Len(prog.dirs[c])
  BY Zenon, <1>1, <1>2, <1>5, <1>6 DEF Edges
<1>12. q # p
  BY <1>0, <1>11, NoLoop
<1>13. Holds(q, c, g)
  <2>1. ~Past(p, c, g, "DR")
    BY <1>5, <1>8 DEF Past
  <2>2. PICK d \in Edges(q, p, c, g) : TRUE
    BY <1>11
  <2>3. ~Sent(q, c, g, d)
    BY <1>0, <1>11, <2>1, <2>2 DEF NotAhead
  <2>4. ~Over(q, c, g)
    BY <2>3 DEF Sent
  <2> QED
    BY <1>5, <1>8, <2>4 DEF Over, Holds, InUse
<1>14. Holds(q, c, g)'
  BY <1>6, <1>12, <1>13 DEF Holds, InUse
<1>15. Unreleased(q, p, s, n, c)'
  BY <1>6, <1>9, <1>10, <1>11, <1>14 DEF Unreleased
<1>16. n \in 1..pos'[p]
  BY <1>4, <1>6
<1> QED
  BY <1>15, <1>16

LEMMA PosGrows ==
  ASSUME SInv, NEW r \in Proc, Step(r), NEW p \in Proc
  PROVE  pos[p] \in Nat /\ pos'[p] \in Nat /\ pos[p] <= pos'[p]
<1>0. pos \in [Proc -> Nat] /\ Len(prog.calls) \in Nat
  BY CallsTyped DEF SInv, CallsInv, CallsTypeOK
<1>1. ASSUME NEW e, NEW o, Return(r, o, e) PROVE pos' = [pos EXCEPT ![r] = @ + 1]
  BY <1>1 DEF Return
<1>2. CASE SRAddr(r) \/ SRPut(r)
  <2>1. pos' = pos
    BY Zenon, <1>2 DEF SRAddr, SRPut, callVars
  <2> QED
    BY <1>0, <2>1
<1>3. CASE New(r) \/ DR(r) \/ SRReturn(r) \/ DN(r) \/ Old(r)
  <2>1. pos' = [pos EXCEPT ![r] = @ + 1]
    BY Zenon, <1>1, <1>3 DEF New, DR, SRReturn, DN, Old
  <2> QED
    BY <1>0, <2>1
<1>4. CASE Loop(r)
  <2>1. PICK n \in Nat : n >= pos[r] /\ pos' = [pos EXCEPT ![r] = n]
    BY <1>0, <1>4 DEF Loop, Pass, SkipTile, SkipTo
  <2> QED
    BY <1>0, <2>1
<1> QED
  BY <1>2, <1>3, <1>4 DEF Step

LEMMA StepWritables ==
  ASSUME LinkInv, LinkInv', NEW r \in Proc, Step(r), NEW q \in Proc, NEW p \in Proc,
         WritableOK(q, p)
  PROVE  WritableOK(q, p)'
<1>0. SInv /\ flags \in [Proc -> SUBSET FlagSet]
  BY DEF LinkInv, LockInv, SInv, SHMEMTypeOK
<1>1. ASSUME NEW s \in Slot
      PROVE  \/ Coming(Writable(q, s), p, q)'
             \/ \E n \in 1..pos'[p], c \in Cid : Unreleased(q, p, s, n, c)'
  <2>1. CASE \E n \in 1..pos[p], c \in Cid : Unreleased(q, p, s, n, c)
    <3>1. PICK n \in 1..pos[p], c \in Cid : Unreleased(q, p, s, n, c)
      BY <2>1
    <3>2. n \in 1..pos'[p]
      BY <1>0, PosGrows
    <3> QED
      BY <3>1, <3>2, StepReleases
  <2>2. CASE Writable(q, s) \in flags[p]
    <3>1. CASE Writable(q, s) \in flags'[p]
      BY <3>1 DEF Coming, Writable
    <3>2. CASE Writable(q, s) \notin flags'[p]
      <4>1. New(r)
        BY <1>0, <2>2, <3>2, StepWritable
      <4>2. r = p
        <5>1. \E lost : flags' = [flags EXCEPT ![r] = @ \ lost]
          BY Zenon, <4>1 DEF New
        <5> QED
          BY <1>0, <2>2, <3>2, <5>1
      <4> QED
        BY <2>2, <3>2, <4>1, <4>2, LowersIt
    <3> QED
      BY <3>1, <3>2
  <2>3. ASSUME NEW x \in In(puts[q][p]), x.kind = "flag", x.flag = Writable(q, s)
        PROVE  Coming(Writable(q, s), p, q)'
    <3>1. x \in In(puts'[q][p])
      BY <1>0, <2>3, StepPuts
    <3> QED
      BY <2>3, <3>1 DEF Coming, UnderWay, In, Writable
  <2>4. \/ Writable(q, s) \in flags[p]
        \/ \E x \in In(puts[q][p]) : x.kind = "flag" /\ x.flag = Writable(q, s)
        \/ \E n \in 1..pos[p], c \in Cid : Unreleased(q, p, s, n, c)
    BY ComingIs DEF WritableOK
  <2> QED
    BY <2>1, <2>2, <2>3, <2>4
<1> QED
  BY <1>1 DEF WritableOK

WritableInv == LinkInv /\ \A q, p \in Proc : WritableOK(q, p)

LEMMA SpecWritable ==
  (\A pr \in Programs : SkipsRestore(pr)) => (Spec => []WritableInv)
<1> SUFFICES ASSUME \A pr \in Programs : SkipsRestore(pr) PROVE Spec => []WritableInv
  OBVIOUS
<1>1. Init => WritableInv
  <2> SUFFICES ASSUME Init PROVE WritableInv
    OBVIOUS
  <2>1. LinkInv
    BY InitLink DEF Init, InitCalls
  <2>2. ASSUME NEW q \in Proc, NEW p \in Proc, NEW s \in Slot PROVE Writable(q, s) \in flags[p]
    BY DEF Init, Writable
  <2> QED
    BY <2>1, <2>2 DEF WritableInv, WritableOK, Coming
<1>2. WritableInv /\ [Next]_vars => WritableInv'
  <2> SUFFICES ASSUME WritableInv, [Next]_vars PROVE WritableInv'
    OBVIOUS
  <2>1. LinkInv /\ LinkInv' /\ SInv
    BY NextLink DEF WritableInv, LinkInv, LockInv
  <2>2. ASSUME NEW q \in Proc, NEW p \in Proc PROVE WritableOK(q, p)'
    <3>1. WritableOK(q, p)
      BY DEF WritableInv
    <3>2. ASSUME NEW r \in Proc, Step(r) PROVE WritableOK(q, p)'
      BY <2>1, <3>1, <3>2, StepWritables
    <3>3. ASSUME NEW r \in Proc, Deliver(r) PROVE WritableOK(q, p)'
      BY <2>1, <3>1, <3>3, DeliverWritable
    <3>4. CASE UNCHANGED vars
      <4>1. /\ prog' = prog /\ pos' = pos /\ inst' = inst /\ flags' = flags /\ puts' = puts
        BY <3>4 DEF vars, callVars
      <4>2. \A f : Coming(f, p, q)' <=> Coming(f, p, q)
        BY <4>1 DEF Coming, UnderWay
      <4>3. \A s, n, c : Unreleased(q, p, s, n, c)' <=> Unreleased(q, p, s, n, c)
        BY <4>1, SameProgram DEF Unreleased, Edges, Holds, InUse
      <4> QED
        BY <3>1, <4>1, <4>2, <4>3 DEF WritableOK, Writable
    <3> QED
      BY <3>2, <3>3, <3>4 DEF Next, Terminated
  <2> QED
    BY <2>1, <2>2 DEF WritableInv
<1> QED
  BY <1>1, <1>2, PTL DEF Spec

\* What NEW waits for is an OLD that its first source has yet to make.
LEMMA NewAwaits ==
  ASSUME LinkInv, NEW p \in Proc, NEW q \in Proc, WritableOK(q, p), NEW c \in Cid,
         At(p, "NEW", c), NEW s, s = freelist[p][Len(freelist[p])],
         NEW d \in RecvDirs(p, Dirs(p, c)), IsNext(d, RecvDirs(p, Dirs(p, c))),
         Source(p, Dirs(p, c), d) = q, ~Coming(Writable(q, s), p, q)
  PROVE  Undone(AwaitsOLD(prog, p, pos[p] + 1), q)
<1>0. /\ LockInv /\ SInv /\ CallsInv /\ PlaceInv /\ DoneInv /\ Owned(p) /\ Lock(p)
      /\ pos[p] \in 0..Len(prog.calls) /\ Len(prog.calls) \in Nat
      /\ freelist[p] \in Seq(Slot)
  BY CallsTyped DEF LinkInv, LockInv, SInv, PlaceInv, LocalOK, SHMEMTypeOK
<1>1. PICK o \in Op : o = "NEW"
  BY DEF Op
<1>2. ~InUse(p, c)
  <2>1. May(p, "NEW", c)
    BY <1>0, <1>1, AtIsMay
  <2> QED
    BY <1>0, <2>1, NewClosed DEF InUse
<1>3. freelist[p] # <<>>
  BY <1>0, <1>2, NotEmpty
<1>4. s \in Slot /\ Free(p, s)
  BY <1>0, <1>3 DEF Free
<1>5. PICK n \in 1..pos[p], e \in Cid : Unreleased(q, p, s, n, e)
  BY <1>4 DEF WritableOK
<1>6. PICK N : N = pos[p] + 1
  OBVIOUS
<1>7. prog.calls[N] = <<"NEW", c>> /\ GenAt(prog, c, N) = Gen(p, c)
  BY <1>0, <1>6, NewGen
<1>8. n \in 1..(N - 1) /\ n \in Nat /\ n \in 1..Len(prog.calls)
  BY <1>0, <1>6
<1>9. /\ prog.calls[n] = <<"NEW", e>> /\ SlotAt(n, e) = s
      /\ Holds(q, e, GenAt(prog, e, n)) /\ Sends(prog, q, p, e, n)
  BY <1>5 DEF Unreleased, Edges, Sends
<1>10. \E m \in SameInstance(prog, "OLD", e, n) : m < N
  <2>1. ~(InUse(p, e) /\ inst[p][e].gen = GenAt(prog, e, n))
    <3> SUFFICES ASSUME InUse(p, e), inst[p][e].gen = GenAt(prog, e, n) PROVE FALSE
      OBVIOUS
    <3>1. handle[p][e] = s
      BY <1>0, <1>8, <1>9, SlotOf
    <3> QED
      BY <1>0, <1>4, <3>1 DEF Owned, Held
  <2> QED
    BY <1>0, <1>6, <1>9, <2>1, OldBefore DEF InUse
<1>11. BankAfter(prog)[N].handle[c] = s
  <2> DEFINE b == BankAfter(prog)[pos[p]]
  <2>1. BankAfter(prog)[N] = BankNext(b, <<"NEW", c>>) /\ DOMAIN b.handle = Cid
    BY <1>0, <1>6, <1>7, BankStep DEF At, Running
  <2>2. b.free[Len(b.free)] = s
    BY <1>0 DEF Lock
  <2> HIDE DEF b
  <2> QED
    BY <2>1, <2>2 DEF BankNext
<1>12. BankAfter(prog)[n].handle[e] = BankAfter(prog)[N].handle[c]
  BY <1>9, <1>11 DEF SlotAt
<1>13. Dirs(p, c) = prog.dirs[c][GenAt(prog, c, N)] /\ prog.calls[N][1] = "NEW"
       /\ prog.calls[N][2] = c
  BY <1>7 DEF Dirs
<1> DEFINE y == <<q, e, n>>
<1>14. y \in Proc \X Cid \X (1..(N - 1)) /\ y[1] = q /\ y[2] = e /\ y[3] = n
  BY <1>8
<1>15. <<y[1], SameInstance(prog, "OLD", y[2], y[3])>> \in AwaitsOLD(prog, p, N)
  <2> HIDE DEF y
  <2> QED
    BY Zenon, <1>9, <1>10, <1>12, <1>13, <1>14 DEF AwaitsOLD
<1>16. <<q, SameInstance(prog, "OLD", e, n)>> \in AwaitsOLD(prog, p, N)
  BY <1>15
<1>17. SameInstance(prog, "OLD", e, n) \subseteq Nat
       /\ \A m \in SameInstance(prog, "OLD", e, n) : pos[q] < m
  BY <1>0, <1>8, <1>9, YetToRelease
<1> QED
  BY <1>6, <1>16, <1>17 DEF Undone

\* A sender whose receiver is past the DR that it awaits: the receiver listens.
LEMMA ReceiverListens ==
  ASSUME LinkInv, NEW p \in Proc, NEW q \in Proc, NEW c \in Cid, May(p, "SR", c),
         Edges(p, q, c, inst[p][c].gen) # {}, ~Over(p, c, inst[p][c].gen),
         ~Undone(AwaitsDR(prog, p, pos[p] + 1), q)
  PROVE  /\ Listens(q, p, c) /\ Opened(q, c)
         /\ inst[q][c].gen = inst[p][c].gen /\ handle[q][c] = handle[p][c]
<1>0. CallsInv /\ PlaceInv /\ LockInv /\ NotAhead(q, p)
  BY DEF LinkInv, LockInv, SInv
<1>1. inst[p][c].done # {} /\ InUse(p, c) /\ At(p, "SR", c)
  BY DEF May, Required, InUse
<1>2. inst[p][c].gen \in 1..Len(prog.dirs[c])
  BY <1>0, <1>1, OpenGen
<1>3. ~Past(q, c, inst[p][c].gen, "DN")
  BY <1>0, <1>2 DEF NotAhead
<1>4. inst[q][c].gen = inst[p][c].gen /\ InUse(q, c)
  BY <1>0, <1>1, <1>3, YetToListen DEF Past, InUse
<1>5. "DN" \notin inst[q][c].done /\ "DR" \in inst[q][c].done
  BY <1>0, <1>1, <1>3, <1>4, YetToListen DEF Past, InUse
<1>6. handle[q][c] = handle[p][c]
  BY <1>0, <1>1, <1>4, LockSame
<1> QED
  BY <1>4, <1>5, <1>6 DEF Listens, Links, Opened
-----------------------------------------------------------------------------
LEMMA SenderWaits ==
  ASSUME LinkInv, NEW p \in Proc, NEW c \in Cid, NEW d \in DOMAIN SendInfo(p, c),
         Sending(p, c, d), NEW q, q = SendInfo(p, c)[d].proc,
         ~Undone(AwaitsDR(prog, p, pos[p] + 1), q),
         NEW n, n = counters[p][handle[p][c]][q].count
  PROVE  /\ \/ SendInfo(p, c)[d].remmeminfo # NoBlock
            \/ n # 0
            \/ Coming(Flag("REMMEMREADY", handle[p][c], q, 0), p, q)
         /\ Coming(Flag("DSTREADY", handle[p][c], q, n), p, q)
<1> DEFINE g == inst[p][c].gen
           D == Edges(p, q, c, g)
<1>1. SRAt(p, c, d, q)
  BY Zenon, SRPlace
<1>2. /\ q \in Proc /\ InUse(p, c) /\ May(p, "SR", c) /\ "SR" \notin inst[p][c].done
      /\ ~Over(p, c, g) /\ d \in D /\ D \in SUBSET (1..MaxDirs)
      /\ Out(p, c) = step[p] /\ d \notin step[p] /\ IsNext(d, DOMAIN SendInfo(p, c) \ step[p])
      /\ n = Rank(D, d) /\ (n = 0 => \A e \in D : e \notin step[p])
  BY <1>1 DEF SRAt
<1>3. /\ Listens(q, p, c) /\ Opened(q, c)
      /\ inst[q][c].gen = g /\ handle[q][c] = handle[p][c]
  BY <1>2, ReceiverListens
<1>4. Flow(q, p, c) /\ Links(q, p, c) = D
  BY <1>2, <1>3 DEF LinkInv, Links
<1>5. Coming(Flag("DSTREADY", handle[p][c], q, n), p, q)
  <2>1. DstDue(q, p, c, d)
    BY Zenon, <1>2, <1>3 DEF DstDue, Sent
  <2>2. Signal(DstDue(q, p, c, d), PutFlag(DstFlag(q, p, c, d), d), flags[p], puts[q][p])
    BY Zenon, <1>2, <1>4 DEF Flow, DstOK
  <2>3. DstFlag(q, p, c, d) = Flag("DSTREADY", handle[p][c], q, n)
    BY Zenon, <1>2, <1>3, <1>4 DEF DstFlag
  <2>4. Coming(DstFlag(q, p, c, d), p, q)
    <3>1. DstFlag(q, p, c, d) \in flags[p] \/ PutFlag(DstFlag(q, p, c, d), d) \in In(puts[q][p])
      BY <2>1, <2>2, PutIs DEF Signal
    <3> QED
      BY <3>1, PutIs DEF Coming, UnderWay, In
  <2> QED
    BY Zenon, <2>3, <2>4
<1>6. ASSUME SendInfo(p, c)[d].remmeminfo = NoBlock, n = 0
      PROVE  Coming(Flag("REMMEMREADY", handle[p][c], q, 0), p, q)
  <2>1. ASSUME NEW e \in D PROVE SendInfo(p, c)[e].remmeminfo = NoBlock
    <3>0. SInv /\ DirsOK(p) /\ AddrOK(p)
      BY Zenon DEF LinkInv, LockInv
    <3>1. e \in DOMAIN SendInfo(p, c)
      BY <1>2, <3>0, InfoLinks
    <3>2. e \notin step[p]
      BY <1>2, <1>6
    <3>3. IsNext(e, DOMAIN SendInfo(p, c) \ step[p]) => e = d
      <4>1. e \in Nat /\ d \in Nat
        BY <1>2
      <4> QED
        BY <1>2, <3>1, <3>2, <4>1 DEF IsNext
    <3> QED
      BY <1>2, <1>6, <3>0, <3>1, <3>2, <3>3 DEF AddrOK
  <2>2. ReadyDue(q, p, c)
    BY Zenon, <1>2, <1>3, <2>1 DEF ReadyDue, Took
  <2>3. Signal(ReadyDue(q, p, c), PutFlag(ReadyFlag(q, c), 0), flags[p], puts[q][p])
    BY Zenon, <1>4 DEF Flow, ReadyOK
  <2>4. ReadyFlag(q, c) = Flag("REMMEMREADY", handle[p][c], q, 0)
    BY Zenon, <1>3 DEF ReadyFlag
  <2>5. Coming(ReadyFlag(q, c), p, q)
    <3>1. ReadyFlag(q, c) \in flags[p] \/ PutFlag(ReadyFlag(q, c), 0) \in In(puts[q][p])
      BY <2>2, <2>3, PutIs DEF Signal
    <3> QED
      BY <3>1, PutIs DEF Coming, UnderWay, In
  <2> QED
    BY <2>4, <2>5
<1> QED
  BY Zenon, <1>5, <1>6

LEMMA ReceiverWaits ==
  ASSUME LinkInv, NEW p \in Proc, NEW c \in Cid, At(p, "DN", c),
         NEW d \in DOMAIN RecvInfo(p, c), NEW q, q = RecvInfo(p, c)[d].proc
  PROVE  \/ Undone(AwaitsSR(prog, p, pos[p] + 1), q)
         \/ Coming(Flag("PUTDONE", handle[p][c], q, 0), p, q)
<1>0. SInv /\ CallsInv /\ SHMEMTypeOK /\ PlaceInv /\ DirsOK(p)
  BY DEF LinkInv, LockInv, SInv
<1>1. May(p, "DN", c)
  BY <1>0, AtIsMay DEF PlaceInv, Op
<1>2. "DR" \in inst[p][c].done /\ "DN" \notin inst[p][c].done /\ InUse(p, c) /\ Opened(p, c)
  BY <1>1 DEF May, Required, InUse, Opened
<1>3. q \in Proc
  <2>1. RecvInfo(p, c)[d] \in Recv
    BY <1>0, InfoTyped, WithBound
  <2> QED
    BY <2>1 DEF Recv
<1>4. d \in Links(p, q, c)
  <2>1. d \in With(RecvInfo(p, c), q)
    BY DEF With
  <2> QED
    BY <1>0, <1>2, <1>3, <2>1, InfoLinks
<1>5. Listens(p, q, c) /\ Flow(p, q, c)
  BY <1>2, <1>3, <1>4 DEF Listens, LinkInv
<1>6. CASE Over(q, c, inst[p][c].gen)
  <2>1. /\ DoneDue(p, q, c)
        /\ Signal(DoneDue(p, q, c), PutFlag(DoneFlag(p, q, c), 0), flags[p], puts[q][p])
    BY <1>2, <1>5, <1>6 DEF DoneDue, Flow, DoneOK
  <2>2. DoneFlag(p, q, c) \in flags[p] \/ PutFlag(DoneFlag(p, q, c), 0) \in In(puts[q][p])
    BY <2>1, PutIs DEF Signal
  <2>3. Coming(DoneFlag(p, q, c), p, q)
    BY <2>2, PutIs DEF Coming, UnderWay, In
  <2> QED
    BY <2>3 DEF DoneFlag
<1>7. CASE ~Over(q, c, inst[p][c].gen)
  BY <1>0, <1>3, <1>4, <1>7, YetToSend DEF Over, Links
<1> QED
  BY <1>6, <1>7

\* Whoever p waits for has yet to make a call that p awaits.
LEMMA WaitsAwait ==
  ASSUME WritableInv, NEW p \in Proc, NEW q \in Proc, WaitsFor(p, q)
  PROVE  Undone(AwaitsSR(prog, p, pos[p] + 1) \cup AwaitsDR(prog, p, pos[p] + 1)
                  \cup AwaitsOLD(prog, p, pos[p] + 1), q)
<1>0. LinkInv /\ WritableOK(q, p)
  BY DEF WritableInv
<1>1. \/ Undone(AwaitsSR(prog, p, pos[p] + 1), q) \/ Undone(AwaitsDR(prog, p, pos[p] + 1), q)
      \/ Undone(AwaitsOLD(prog, p, pos[p] + 1), q)
  BY Zenon, <1>0, NewAwaits, SenderWaits, ReceiverWaits DEF WaitsFor, Writable
<1> QED
  BY <1>1 DEF Undone

\* There is no cycle of waits, if the programs make none themselves, as no
\* program without pipelined loops does: who waits in NEW, SR or DN waits for a
\* call yet to be made.
THEOREM SHMEMNoCycleOfWaits ==
  ASSUME \A pr \in Programs : SkipsRestore(pr) /\ (Runnable(pr) \/ Plain(pr))
  PROVE  Spec => []NoCycleOfWaits
<1>1. Spec => []WritableInv
  BY SpecWritable
<1>2. WritableInv => NoCycleOfWaits
  <2> SUFFICES ASSUME WritableInv, NEW S \in SUBSET {p \in Proc : Running(p)}, S # {}
               PROVE  \E p \in S : \A q \in Proc : WaitsFor(p, q) => Running(q) /\ q \notin S
    BY DEF NoCycleOfWaits
  <2> DEFINE W == [p \in Proc |-> [n \in 1..Len(prog.calls) |->
               AwaitsSR(prog, p, n) \cup AwaitsDR(prog, p, n) \cup AwaitsOLD(prog, p, n)]]
  <2>1. CallsInv
    BY DEF WritableInv, LinkInv, LockInv, SInv
  <2>2. prog \in Programs /\ \A p \in Proc : Running(p) => pos[p] + 1 \in 1..Len(prog.calls)
    BY <2>1, CallsTyped DEF CallsInv, Running
  <2>3. NoneStuck(prog, W)
    <3>1. CASE Runnable(prog)
      BY <3>1 DEF Runnable
    <3>2. CASE Plain(prog)
      <4>1. ASSUME NEW p \in Proc, NEW n \in 1..Len(prog.calls), NEW x \in W[p][n]
            PROVE  x[1] \in Proc /\ \E m \in x[2] : m \in Nat /\ m < n
        <5>1. CASE x \in AwaitsOLD(prog, p, n)
          <6>1. PICK y \in Proc \X Cid \X (1..(n - 1)) :
                  /\ x = <<y[1], SameInstance(prog, "OLD", y[2], y[3])>>
                  /\ \E m \in SameInstance(prog, "OLD", y[2], y[3]) : m < n
            BY Zenon, <5>1 DEF AwaitsOLD
          <6>2. SameInstance(prog, "OLD", y[2], y[3]) \subseteq Nat
            BY <2>1, CallsTyped DEF SameInstance, Places
          <6> QED
            BY <6>1, <6>2
        <5> QED
          BY <2>2, <3>2, <4>1, <5>1, PlainAwaits
      <4> HIDE DEF W
      <4> QED
        BY <2>2, <4>1, BehindRuns
    <3> QED
      BY <2>2, <3>1, <3>2
  <2>4. \A p \in S : W[p][pos[p] + 1] = AwaitsSR(prog, p, pos[p] + 1)
          \cup AwaitsDR(prog, p, pos[p] + 1) \cup AwaitsOLD(prog, p, pos[p] + 1)
    BY <2>2
  <2> HIDE DEF W
  <2>5. PICK p \in S : \A q \in Proc : Undone(W[p][pos[p] + 1], q) => Running(q) /\ q \notin S
    BY <2>1, <2>3, SomeoneFree
  <2> QED
    BY <2>4, <2>5, WaitsAwait
<1> QED
  BY <1>1, <1>2, PTL
-----------------------------------------------------------------------------
\* The directions whose data left, as the abstract specification sees them.
Leaving == [p \in Proc |-> IF AtOp(p, "SR") THEN step[p] ELSE {}]

LEMMA LeavingSame ==
  ASSUME NEW p \in Proc, \A r \in Proc : r # p => Own(r)' = Own(r), prog' = prog,
         ~AtOp(p, "SR") \/ step[p] = {}, ~AtOp(p, "SR")' \/ step'[p] = {}
  PROVE  Leaving' = Leaving
<1>1. ASSUME NEW r \in Proc, r # p PROVE (AtOp(r, "SR")' <=> AtOp(r, "SR")) /\ step'[r] = step[r]
  BY <1>1 DEF AtOp, At, Running, Own
<1> QED
  BY Zenon, <1>1 DEF Leaving

LEMMA AbstractReturn ==
  ASSUME NEW p, NEW o, NEW c
  PROVE  /\ Return(p, o, c) => Abstract!Return(p, o, c)
         /\ May(p, o, c) => Abstract!May(p, o, c)
BY DEF Return, May, At, Running, Gen, Required, Abstract!Return, Abstract!May, Abstract!At,
       Abstract!Running, Abstract!Gen, Abstract!Required

LEMMA AbstractSkip ==
  ASSUME NEW p, SkipTile(p)
  PROVE  Abstract!SkipTile(p)
<1>1. \A c, n : Abstract!GenAfter(p, c, n) = GenAfter(p, c, n) /\ Abstract!Begun(p, c, n) = Begun(p, c, n)
  <2>1. \A S : Abstract!Cardinality(S) = Cardinality(S)
    BY Zenon DEF Cardinality, Abstract!Cardinality
  <2>2. \A c, n : Abstract!Begun(p, c, n) = Begun(p, c, n)
    BY DEF Begun, Abstract!Begun
  <2> QED
    BY <2>1, <2>2 DEF GenAfter, Abstract!GenAfter
<1>2. \A r, ds : Abstract!SendDirs(r, ds) = SendDirs(r, ds) /\ Abstract!RecvDirs(r, ds) = RecvDirs(r, ds)
  BY DEF SendDirs, RecvDirs, Abstract!SendDirs, Abstract!RecvDirs
<1>3. \A o : Abstract!AtOp(p, o) <=> AtOp(p, o)
  BY DEF AtOp, At, Running, Abstract!AtOp, Abstract!At, Abstract!Running
<1>4. ASSUME NEW n, SkipTo(p, n) PROVE Abstract!SkipTo(p, n)
  <2>1. [c \in Cid |-> [done |-> inst[p][c].done, gen |-> Abstract!GenAfter(p, c, n)]]
          = [c \in Cid |-> [done |-> inst[p][c].done, gen |-> GenAfter(p, c, n)]]
    BY <1>1
  <2>2. inst' = [inst EXCEPT ![p] =
          [c \in Cid |-> [done |-> inst[p][c].done, gen |-> Abstract!GenAfter(p, c, n)]]]
    BY <1>4, <2>1, Zenon DEF SkipTo
  <2>3. /\ pos[p] > 0 /\ prog.calls[pos[p]][1] \in Abstract!LoopOp
        /\ Abstract!AtOp(p, "NEW")
        /\ prog.calls[n][1] = "POST"
        /\ \A i \in (pos[p] + 1)..(n - 1) : prog.calls[i][1] \notin Abstract!LoopOp
        /\ pos' = [pos EXCEPT ![p] = n]
        /\ UNCHANGED prog
    BY <1>3, <1>4, Zenon DEF SkipTo, LoopOp, Abstract!LoopOp
  <2>4. ASSUME NEW c \in Cid
        PROVE  /\ Abstract!Begun(p, c, n) # {} => inst[p][c].done = {}
               /\ \A g \in (inst[p][c].gen + 1)..Abstract!GenAfter(p, c, n) :
                    /\ g \in DOMAIN prog.dirs[c]
                    /\ Abstract!SendDirs(p, prog.dirs[c][g]) = {}
                    /\ Abstract!RecvDirs(p, prog.dirs[c][g]) = {}
    <3>1. /\ Begun(p, c, n) # {} => inst[p][c].done = {}
          /\ \A g \in (inst[p][c].gen + 1)..GenAfter(p, c, n) :
               /\ g \in DOMAIN prog.dirs[c]
               /\ SendDirs(p, prog.dirs[c][g]) = {}
               /\ RecvDirs(p, prog.dirs[c][g]) = {}
      BY <1>4 DEF SkipTo
    <3>2. Abstract!GenAfter(p, c, n) = GenAfter(p, c, n) /\ Abstract!Begun(p, c, n) = Begun(p, c, n)
      BY <1>1
    <3> QED
      BY <1>2, <3>1, <3>2
  <2> QED
    BY <2>2, <2>3, <2>4, Zenon DEF Abstract!SkipTo
<1> QED
  BY <1>4 DEF SkipTile, Abstract!SkipTile

LEMMA AbstractPass ==
  ASSUME NEW p, NEW o, Pass(p, o)
  PROVE  Abstract!Pass(p, o)
BY DEF Pass, AtOp, At, Running, Abstract!Pass, Abstract!AtOp, Abstract!At, Abstract!Running

LEMMA InitAbstract == Init => Abstract!Init
<1> SUFFICES ASSUME Init PROVE Abstract!Init
  OBVIOUS
<1>1. Abstract!InitCalls
  BY DEF Init, InitCalls, Abstract!InitCalls
<1>2. Leaving = [p \in Proc |-> {}]
  BY DEF Init, Leaving
<1> QED
  BY <1>1, <1>2 DEF Init, Abstract!Init, Leaving

LEMMA LocalAbstract ==
  ASSUME LinkInv, NEW p \in Proc, New(p) \/ DR(p) \/ Old(p) \/ Loop(p)
  PROVE  Abstract!Local(p)
<1>0. SInv /\ CallsInv /\ SHMEMTypeOK /\ LocalOK(p)
  BY DEF LinkInv, LockInv, SInv
<1>1. /\ step' = step /\ ghost' = ghost
      /\ \/ \E c \in Cid, o \in {"NEW", "DR", "OLD"} : Return(p, o, c)
         \/ \E o \in LoopOp : Pass(p, o)
         \/ SkipTile(p)
  BY Zenon DEF New, DR, Old, Loop
<1>2. Step(p)
  BY DEF Step
<1>3. \A r \in Proc : r # p => Own(r)' = Own(r)
  BY <1>0, <1>2, OthersStay
<1>4. prog' = prog
  BY Zenon, <1>1 DEF Return, Pass, SkipTile, SkipTo
<1>5. \E o, c : At(p, o, c) /\ o # "SR"
  BY <1>1 DEF Return, May, Pass, SkipTile, SkipTo, AtOp, LoopOp
<1>6. \A c \in Cid : ~May(p, "SR", c)
  BY <1>5, OneCall
<1>7. step[p] = {}
  BY <1>0, <1>6, NotSending
<1>8. Leaving' = Leaving
  BY <1>1, <1>3, <1>4, <1>7, LeavingSame
<1>9. \/ \E c \in Cid, o \in {"NEW", "DR", "OLD"} : Abstract!Return(p, o, c)
      \/ \E o \in LoopOp : Abstract!Pass(p, o)
      \/ Abstract!SkipTile(p)
  BY <1>1, AbstractReturn, AbstractPass, AbstractSkip
<1> QED
  BY <1>1, <1>8, <1>9 DEF Leaving, Abstract!Local, LoopOp, Abstract!LoopOp
-----------------------------------------------------------------------------
LEMMA SendingDirs ==
  ASSUME LinkInv, NEW p \in Proc, NEW c \in Cid, May(p, "SR", c)
  PROVE  /\ Abstract!SendDirs(p, Abstract!Dirs(p, c)) = DOMAIN SendInfo(p, c)
         /\ AtOp(p, "SR") /\ Leaving[p] = step[p]
         /\ step \in [Proc -> SUBSET (1..MaxDirs)]
<1>0. SInv /\ DirsOK(p) /\ step \in [Proc -> SUBSET (1..MaxDirs)]
  BY DEF LinkInv, LockInv, SInv, SHMEMTypeOK
<1>1. InUse(p, c)
  BY <1>0, InSR
<1>2. DOMAIN SendInfo(p, c) = SendDirs(p, prog.dirs[c][inst[p][c].gen])
  BY <1>0, <1>1 DEF DirsOK
<1>3. ~Abstract!At(p, "NEW", c)
  BY DEF May, At, Abstract!At
<1>4. Abstract!Dirs(p, c) = prog.dirs[c][inst[p][c].gen]
  BY <1>3 DEF Abstract!Dirs, Abstract!Gen
<1>5. Abstract!SendDirs(p, Abstract!Dirs(p, c)) = DOMAIN SendInfo(p, c)
  BY Zenon, <1>2, <1>4 DEF SendDirs, Abstract!SendDirs
<1>6. AtOp(p, "SR")
  BY DEF May, AtOp
<1> QED
  BY <1>0, <1>5, <1>6 DEF Leaving

LEMMA SendAbstract ==
  ASSUME LinkInv, NEW p \in Proc, SRPut(p)
  PROVE  Abstract!Send(p)
<1>1. PICK c \in Cid : \E d \in DOMAIN SendInfo(p, c) :
        /\ Sending(p, c, d) /\ step' = [step EXCEPT ![p] = @ \cup {d}]
        /\ UNCHANGED <<callVars, ghost>>
  BY Zenon DEF SRPut
<1>2. PICK d \in DOMAIN SendInfo(p, c) :
        /\ Sending(p, c, d) /\ step' = [step EXCEPT ![p] = @ \cup {d}]
        /\ UNCHANGED <<callVars, ghost>>
  BY <1>1
<1>3. May(p, "SR", c) /\ d \notin step[p]
  BY <1>2 DEF Sending, IsNext
<1>4. /\ Abstract!SendDirs(p, Abstract!Dirs(p, c)) = DOMAIN SendInfo(p, c)
      /\ AtOp(p, "SR") /\ Leaving[p] = step[p]
      /\ step \in [Proc -> SUBSET (1..MaxDirs)]
  BY <1>3, SendingDirs
<1>5. prog' = prog /\ pos' = pos /\ inst' = inst /\ ghost' = ghost
  BY <1>2 DEF callVars
<1>6. \A r : AtOp(r, "SR")' <=> AtOp(r, "SR")
  BY <1>5 DEF AtOp, At, Running
<1>7. Leaving' = [Leaving EXCEPT ![p] = @ \cup {d}] /\ d \notin Leaving[p]
  BY <1>2, <1>3, <1>4, <1>6 DEF Leaving
<1>8. Abstract!May(p, "SR", c)
  BY <1>3, AbstractReturn
<1> QED
  BY Zenon, <1>4, <1>5, <1>7, <1>8 DEF Abstract!Send, Leaving

LEMMA AddrAbstract ==
  ASSUME NEW p \in Proc, SRAddr(p)
  PROVE  UNCHANGED <<prog, pos, inst, Leaving, ghost>>
<1>1. prog' = prog /\ pos' = pos /\ inst' = inst /\ ghost' = ghost /\ step' = step
  BY Zenon DEF SRAddr, callVars
<1>2. \A r : AtOp(r, "SR")' <=> AtOp(r, "SR")
  BY <1>1 DEF AtOp, At, Running
<1> QED
  BY <1>1, <1>2 DEF Leaving

LEMMA SentAbstract ==
  ASSUME LinkInv, NEW p \in Proc, SRReturn(p)
  PROVE  Abstract!SentAll(p)
<1>1. PICK c \in Cid : /\ Return(p, "SR", c) /\ step[p] = DOMAIN SendInfo(p, c)
                       /\ step' = [step EXCEPT ![p] = {}] /\ ghost' = ghost
  BY DEF SRReturn
<1>2. May(p, "SR", c)
  BY <1>1 DEF Return
<1>3. /\ Abstract!SendDirs(p, Abstract!Dirs(p, c)) = DOMAIN SendInfo(p, c)
      /\ AtOp(p, "SR") /\ Leaving[p] = step[p]
      /\ step \in [Proc -> SUBSET (1..MaxDirs)]
  BY <1>2, SendingDirs
<1>4. Step(p) /\ SInv
  BY DEF Step, LinkInv, LockInv
<1>5. \A r \in Proc : r # p => Own(r)' = Own(r)
  BY <1>4, OthersStay
<1>6. prog' = prog
  BY <1>1 DEF Return
<1>7. \A r \in Proc : r # p => (AtOp(r, "SR")' <=> AtOp(r, "SR"))
  BY <1>5, <1>6 DEF AtOp, At, Running, Own
<1>8. Leaving' = [Leaving EXCEPT ![p] = {}]
  BY <1>1, <1>3, <1>7 DEF Leaving
<1>9. Abstract!Return(p, "SR", c)
  BY <1>1, AbstractReturn
<1> QED
  BY <1>1, <1>3, <1>8, <1>9 DEF Abstract!SentAll, Leaving

\* What a receiver expects in direction d of an open communication.
LEMMA ExpectedIs ==
  ASSUME LinkInv, NEW p \in Proc, NEW c \in Cid, InUse(p, c)
  PROVE  /\ Abstract!RecvDirs(p, Abstract!Current(p, c)) = DOMAIN RecvInfo(p, c)
         /\ \A d \in DOMAIN RecvInfo(p, c) :
              /\ RecvInfo(p, c)[d].proc \in Proc
              /\ Abstract!Source(p, Abstract!Current(p, c), d) = RecvInfo(p, c)[d].proc
              /\ Abstract!Expected(p, c, d)
                   = Data(RecvInfo(p, c)[d].proc, c, inst[p][c].gen, d)
<1> DEFINE ds == prog.dirs[c][inst[p][c].gen]
<1>0. SHMEMTypeOK /\ DirsOK(p)
  BY DEF LinkInv, LockInv, SInv
<1>1. /\ DOMAIN RecvInfo(p, c) = RecvDirs(p, ds)
      /\ \A d \in RecvDirs(p, ds) : RecvInfo(p, c)[d].proc = Source(p, ds, d)
  BY <1>0 DEF DirsOK
<1>2. /\ Abstract!Current(p, c) = ds /\ Abstract!RecvDirs(p, ds) = RecvDirs(p, ds)
      /\ \A d : Abstract!Expected(p, c, d) = Data(Source(p, ds, d), c, inst[p][c].gen, d)
      /\ \A d : Abstract!Source(p, ds, d) = Source(p, ds, d)
  BY DEF Abstract!Current, Abstract!RecvDirs, RecvDirs, Abstract!Expected, Abstract!Data, Data,
         Abstract!Source, Source
<1>3. \A d \in RecvDirs(p, ds) : Source(p, ds, d) \in Proc
  BY SourceType
<1> HIDE DEF ds
<1> QED
  BY <1>1, <1>2, <1>3

LEMMA NeededAbstract ==
  ASSUME LinkInv, NEW p \in Proc, DN(p)
  PROVE  Abstract!Needed(p)
<1>0. SInv /\ CallsInv /\ SHMEMTypeOK /\ LocalOK(p) /\ DirsOK(p)
  BY DEF LinkInv, LockInv, SInv
<1>1. PICK c \in Cid :
        /\ Return(p, "DN", c)
        /\ \A d \in DOMAIN RecvInfo(p, c) :
             Flag("PUTDONE", handle[p][c], RecvInfo(p, c)[d].proc, 0) \in flags[p]
        /\ UNCHANGED <<step, ghost>>
  BY DEF DN
<1>2. May(p, "DN", c) /\ prog' = prog
  BY <1>1 DEF Return
<1>3. InUse(p, c) /\ Opened(p, c) /\ "DN" \notin inst[p][c].done
  BY <1>2 DEF May, Required, InUse, Opened
<1>4. ASSUME NEW d \in DOMAIN RecvInfo(p, c)
      PROVE  ghost[p][c][d] = Data(RecvInfo(p, c)[d].proc, c, inst[p][c].gen, d)
  <2>1. PICK q : q = RecvInfo(p, c)[d].proc
    OBVIOUS
  <2>2. q \in Proc
    BY <1>3, <2>1, ExpectedIs
  <2>3. d \in Links(p, q, c)
    <3>1. d \in With(RecvInfo(p, c), q)
      BY <2>1 DEF With
    <3> QED
      BY <1>0, <1>3, <2>2, <3>1, InfoLinks
  <2>4. Listens(p, q, c) /\ Flow(p, q, c)
    BY <1>3, <2>2, <2>3 DEF Listens, LinkInv
  <2>5. DoneFlag(p, q, c) \in flags[p]
    BY <1>1, <2>1 DEF DoneFlag
  <2>6. Silent(p, q, c) /\ Over(q, c, inst[p][c].gen)
    BY <1>0, <1>3, <2>2, <2>4, <2>5, LinkSilent
  <2>7. DataDue(p, q, c, d)
    BY <1>3, <2>6 DEF DataDue, Sent
  <2>8. DataPut(p, q, c, d) \notin In(puts[q][p])
    <3>1. DataPut(p, q, c, d) \in DownPuts(p, q, c)
      BY <2>3 DEF DownPuts
    <3> QED
      BY <2>6, <3>1 DEF Silent
  <2>9. Arrived(p, q, c, d)
    BY <2>3, <2>4, <2>7, <2>8 DEF Flow, DataOK
  <2> QED
    BY <2>1, <2>9 DEF Arrived
<1>5. \A d \in Abstract!RecvDirs(p, Abstract!Current(p, c)) :
        ghost[p][c][d] = Abstract!Expected(p, c, d)
  BY <1>3, <1>4, ExpectedIs
<1>6. Step(p)
  BY DEF Step
<1>7. \A r \in Proc : r # p => Own(r)' = Own(r)
  BY <1>0, <1>6, OthersStay
<1>8. step[p] = {}
  <2>1. \A e \in Cid : ~May(p, "SR", e)
    BY <1>2, OneCall DEF May
  <2> QED
    BY <1>0, <2>1, NotSending
<1>9. Leaving' = Leaving
  BY <1>1, <1>2, <1>7, <1>8, LeavingSame
<1>10. Abstract!Return(p, "DN", c)
  BY <1>1, AbstractReturn
<1> QED
  BY <1>1, <1>5, <1>9, <1>10 DEF Abstract!Needed, Leaving

LEMMA ArriveAbstract ==
  ASSUME LinkInv, NEW r \in Proc, Deliver(r)
  PROVE  \/ \E t \in Proc : Abstract!Arrive(t)
         \/ UNCHANGED <<prog, pos, inst, Leaving, ghost>>
<1>0. SInv /\ CallsInv /\ SHMEMTypeOK
  BY DEF LinkInv, LockInv, SInv
<1>1. PICK t \in Proc : \E put : Lands(r, t, put) /\ Stores(r, t, put) /\ ghost' = Filled(t, put)
  BY <1>0, DeliverView
<1>2. PICK put : Lands(r, t, put) /\ ghost' = Filled(t, put)
  BY <1>1
<1>3. prog' = prog /\ pos' = pos /\ inst' = inst /\ step' = step
  BY <1>0, StepDeliver DEF callVars
<1>4. Leaving' = Leaving
  <2>1. \A x : AtOp(x, "SR")' <=> AtOp(x, "SR")
    BY <1>3 DEF AtOp, At, Running
  <2> QED
    BY <1>3, <2>1 DEF Leaving
<1>5. CASE put.kind # "data"
  BY <1>2, <1>3, <1>4, <1>5 DEF Filled
<1>6. CASE put.kind = "data"
  <2>1. PICK e \in Cid : Listens(t, r, e) /\ put \in DownPuts(t, r, e)
    <3>1. put \in PutSet /\ put \in In(puts[r][t])
      BY <1>2 DEF Lands
    <3>2. \A x \in Cid : Listens(r, t, x) => put \notin UpPuts(r, t, x)
      <4>1. put \notin UpPut
        BY <1>6 DEF UpPut
      <4> QED
        BY <1>0, <4>1, LinkParts DEF Listens
    <3> QED
      BY <1>6, <3>1, <3>2, PutFrom
  <2>2. PICK d \in Links(t, r, e) : put = DataPut(t, r, e, d)
    BY <1>6, <2>1, PutIs DEF DownPuts
  <2>3. InUse(t, e) /\ "DN" \notin inst[t][e].done /\ Flow(t, r, e)
    BY <2>1 DEF Listens, LinkInv
  <2>4. Opened(t, e) /\ Sent(r, e, inst[t][e].gen, d)
    <3>1. put \in In(puts[r][t])
      BY <1>2 DEF Lands
    <3> QED
      BY <2>2, <2>3, <3>1 DEF Flow, DataOK, DataDue
  <2>5. /\ put.block.area = e /\ put.block.dir = d
        /\ put.val = Data(r, e, inst[t][e].gen, d)
    BY <2>2, PutIs, HereIs DEF DataPut
  <2>6. d \in DOMAIN RecvInfo(t, e) /\ RecvInfo(t, e)[d].proc = r
    <3>1. d \in With(RecvInfo(t, e), r)
      BY <1>0, <2>2, <2>3, InfoLinks DEF LinkInv
    <3> QED
      BY <3>1 DEF With
  <2>7. /\ d \in Abstract!RecvDirs(t, Abstract!Current(t, e))
        /\ Abstract!Source(t, Abstract!Current(t, e), d) = r
        /\ Abstract!Expected(t, e, d) = Data(r, e, inst[t][e].gen, d)
    BY <2>3, <2>6, ExpectedIs
  <2>8. Abstract!HasSent(r, e, inst[t][e].gen, d)
    <3>1. CASE Over(r, e, inst[t][e].gen)
      BY <3>1 DEF Over, Abstract!HasSent
    <3>2. CASE inst[r][e].gen = inst[t][e].gen /\ d \in Out(r, e)
      <4>1. May(r, "SR", e) /\ d \in step[r]
        BY <3>2 DEF Out
      <4>2. AtOp(r, "SR")
        BY <4>1 DEF May, AtOp
      <4>3. Abstract!May(r, "SR", e) /\ d \in Leaving[r]
        BY <4>1, <4>2, AbstractReturn DEF Leaving
      <4> QED
        BY <3>2, <4>3 DEF Abstract!HasSent, Leaving
    <3> QED
      BY <2>4, <3>1, <3>2 DEF Sent
  <2>9. Abstract!Open(t, e)
    BY <2>3, <2>4 DEF Opened, Abstract!Open
  <2>10. PICK v : v = Data(r, e, inst[t][e].gen, d)
    OBVIOUS
  <2>11. ghost' = [ghost EXCEPT ![t][e][d] = v]
    BY <1>2, <1>6, <2>5, <2>10 DEF Filled
  <2>12. CASE ghost[t][e][d] = v
    <3>1. ghost \in [Proc -> [Cid -> [1..MaxDirs -> DataSet \cup {NoData}]]]
      BY <1>0 DEF SHMEMTypeOK
    <3>2. ghost' = ghost
      BY <2>11, <2>12, <3>1
    <3> QED
      BY <1>3, <1>4, <3>2
  <2>13. CASE ghost[t][e][d] # v
    BY <1>3, <1>4, <2>7, <2>8, <2>9, <2>10, <2>11, <2>13 DEF Abstract!Arrive, Leaving
  <2> QED
    BY <2>12, <2>13
<1> QED
  BY <1>5, <1>6

\* IRONMAN over SHMEM implements the interface: a ghost area receives what the
\* neighbour sent for the same instance, between DR and DN, and DN returns only
\* when all of it is there.
THEOREM SHMEMRefines == (\A pr \in Programs : SkipsRestore(pr)) => (Spec => Refines)
<1> SUFFICES ASSUME \A pr \in Programs : SkipsRestore(pr) PROVE Spec => Refines
  OBVIOUS
<1>1. ASSUME LinkInv, [Next]_vars
      PROVE  [Abstract!Next]_<<prog, pos, inst, Leaving, ghost>>
  <2>1. CASE \E p \in Proc : Step(p) \/ Deliver(p)
    <3>1. PICK p \in Proc : Step(p) \/ Deliver(p)
      BY <2>1
    <3>2. \/ \E t \in Proc : Abstract!Step(t)
          \/ UNCHANGED <<prog, pos, inst, Leaving, ghost>>
      BY <1>1, <3>1, LocalAbstract, SendAbstract, AddrAbstract, SentAbstract, NeededAbstract,
         ArriveAbstract DEF Step, Abstract!Step
    <3> QED
      BY <3>2 DEF Abstract!Next
  <2>2. CASE UNCHANGED vars
    <3>1. \A p : AtOp(p, "SR")' <=> AtOp(p, "SR")
      BY <2>2 DEF vars, callVars, AtOp, At, Running
    <3> QED
      BY <2>2, <3>1 DEF vars, callVars, Leaving
  <2> QED
    BY <1>1, <2>1, <2>2 DEF Next, Terminated
<1>2. LinkInv /\ [Next]_vars => [Abstract!Next]_Abstract!vars
  BY <1>1 DEF Abstract!vars, Leaving
<1>3. Spec => []LinkInv
  BY SpecLink
<1> QED
  BY <1>2, <1>3, InitAbstract, PTL DEF Spec, Refines, Abstract!Spec
=============================================================================
