------------------------- MODULE IronmanSHMEMLink -------------------------
(***************************************************************************)
(* What holds of a sender and a receiver over SHMEM at every moment: which *)
(* signals, addresses and data are due, and where each of them is.  The    *)
(* inductive invariant of IronmanSHMEM_proofs is made of these.            *)
(***************************************************************************)
EXTENDS IronmanSHMEM

\* The communications open at p.
InUse(p, c) == inst[p][c].done # {}
\* The directions that p has sent in the SR it is in.
Out(p, c) == IF May(p, "SR", c) THEN step[p] ELSE {}

-----------------------------------------------------------------------------
(* A link: what q awaits from p, and what is under way between them.       *)

Rank(D, d) == Cardinality({e \in D : e < d})

\* Where sender p is in instance g of c: it has returned from SR, has stored the
\* data of direction d, has taken the first addresses of q.
Over(p, c, g) ==
  \/ inst[p][c].gen > g
  \/ inst[p][c].gen = g /\ (inst[p][c].done = {} \/ "SR" \in inst[p][c].done)
Sent(p, c, g, d) == Over(p, c, g) \/ (inst[p][c].gen = g /\ d \in Out(p, c))
Took(p, q, c, g) ==
  \/ Over(p, c, g)
  \/ /\ inst[p][c].gen = g /\ InUse(p, c)
     /\ \E d \in Edges(p, q, c, g) : SendInfo(p, c)[d].remmeminfo # NoBlock

\* Receiver q, from NEW to DN of an instance in which p sends to it.
Links(q, p, c) == Edges(p, q, c, inst[q][c].gen)
Listens(q, p, c) == InUse(q, c) /\ "DN" \notin inst[q][c].done /\ Links(q, p, c) # {}
Opened(q, c) == "DR" \in inst[q][c].done

\* When each signal is due: raised or under way, and the other side has yet to
\* see it.
ReadyDue(q, p, c) == ~Took(p, q, c, inst[q][c].gen)
DstDue(q, p, c, d) == Opened(q, c) /\ ~Sent(p, c, inst[q][c].gen, d)
DoneDue(q, p, c) == Opened(q, c) /\ Over(p, c, inst[q][c].gen)
DataDue(q, p, c, d) == Opened(q, c) /\ Sent(p, c, inst[q][c].gen, d)

Here(q, c, d) == [area |-> c, gen |-> inst[q][c].gen, dir |-> d]
ReadyFlag(q, c) == Flag("REMMEMREADY", handle[q][c], q, 0)
DstFlag(q, p, c, d) == Flag("DSTREADY", handle[q][c], q, Rank(Links(q, p, c), d))
DoneFlag(q, p, c) == Flag("PUTDONE", handle[q][c], p, 0)
BlockPut(q, p, c, d) == PutBlock(handle[q][c], Rank(Links(q, p, c), d), Here(q, c, d))
DataPut(q, p, c, d) == PutData(Here(q, c, d), Data(p, c, inst[q][c].gen, d))
Stored(q, p, c, d) ==
  remmem[p][handle[q][c]][q][Rank(Links(q, p, c), d)] = Here(q, c, d)
Arrived(q, p, c, d) == ghost[q][c][d] = Data(p, c, inst[q][c].gen, d)

\* Where puts are among the batches under way.
In(b) == UNION {b[i] : i \in 1..Len(b)}
Once(b, x) == \A i, j \in 1..Len(b) : x \in b[i] /\ x \in b[j] => i = j
Earlier(b, x, y) == \A i, j \in 1..Len(b) : x \in b[i] /\ y \in b[j] => i < j

\* A signal that is due is up or under way, and never both.
Signal(due, x, mem, b) ==
  /\ due => x.flag \in mem \/ x \in In(b)
  /\ x \in In(b) => due /\ x.flag \notin mem /\ Once(b, x)

ReadyOK(q, p, c) ==
  /\ Signal(ReadyDue(q, p, c), PutFlag(ReadyFlag(q, c), 0), flags[p], puts[q][p])
  /\ ReadyFlag(q, c) \in flags[p] => ReadyDue(q, p, c)
DstOK(q, p, c, d) ==
  /\ Signal(DstDue(q, p, c, d), PutFlag(DstFlag(q, p, c, d), d), flags[p], puts[q][p])
  /\ DstFlag(q, p, c, d) \in flags[p] => DstDue(q, p, c, d)
DoneOK(q, p, c) ==
  /\ Opened(q, c) =>
       Signal(DoneDue(q, p, c), PutFlag(DoneFlag(q, p, c), 0), flags[q], puts[p][q])
  /\ PutFlag(DoneFlag(q, p, c), 0) \in In(puts[p][q]) => Opened(q, c)
  /\ Opened(q, c) /\ DoneFlag(q, p, c) \in flags[q] => DoneDue(q, p, c)
BlockOK(q, p, c, d) ==
  /\ BlockPut(q, p, c, d) \in In(puts[q][p]) \/ Stored(q, p, c, d)
  /\ BlockPut(q, p, c, d) \in In(puts[q][p]) =>
       /\ ReadyDue(q, p, c) /\ ReadyFlag(q, c) \notin flags[p]
       /\ Earlier(puts[q][p], BlockPut(q, p, c, d), PutFlag(ReadyFlag(q, c), 0))
DataOK(q, p, c, d) ==
  /\ DataDue(q, p, c, d) => DataPut(q, p, c, d) \in In(puts[p][q]) \/ Arrived(q, p, c, d)
  /\ DataPut(q, p, c, d) \in In(puts[p][q]) =>
       /\ DataDue(q, p, c, d) /\ DoneFlag(q, p, c) \notin flags[q]
       /\ Earlier(puts[p][q], DataPut(q, p, c, d), PutFlag(DoneFlag(q, p, c), 0))
Flow(q, p, c) ==
  /\ ReadyOK(q, p, c) /\ DoneOK(q, p, c)
  /\ \A d \in Links(q, p, c) : DstOK(q, p, c, d) /\ BlockOK(q, p, c, d) /\ DataOK(q, p, c, d)

\* What goes from a receiver to its sender, and back.
UpFlag == {"REMMEMREADY", "DSTREADY"}
UpPut == {x \in PutSet : x.kind = "block" \/ (x.kind = "flag" /\ x.flag.name \in UpFlag)}
DownPut == {x \in PutSet : x.kind = "data" \/ (x.kind = "flag" /\ x.flag.name = "PUTDONE")}
UpFlags(q, p, c) == {ReadyFlag(q, c)} \cup {DstFlag(q, p, c, d) : d \in Links(q, p, c)}
UpPuts(q, p, c) ==
  {PutFlag(ReadyFlag(q, c), 0)}
    \cup {PutFlag(DstFlag(q, p, c, d), d) : d \in Links(q, p, c)}
    \cup {BlockPut(q, p, c, d) : d \in Links(q, p, c)}
DownPuts(q, p, c) ==
  {PutFlag(DoneFlag(q, p, c), 0)} \cup {DataPut(q, p, c, d) : d \in Links(q, p, c)}

\* All that is up or under way belongs to an instance that listens.
NoStray(q, p) ==
  /\ \A f \in flags[p] : f.proc = q /\ f.name \in UpFlag =>
       \E c \in Cid : Listens(q, p, c) /\ f \in UpFlags(q, p, c)
  /\ \A x \in In(puts[q][p]) \cap UpPut :
       \E c \in Cid : Listens(q, p, c) /\ x \in UpPuts(q, p, c)
  /\ \A x \in In(puts[p][q]) \cap DownPut :
       \E c \in Cid : Listens(q, p, c) /\ x \in DownPuts(q, p, c)

\* Neither side is too far ahead of the other.
Past(q, c, g, o) ==
  \/ inst[q][c].gen > g
  \/ inst[q][c].gen = g /\ (~InUse(q, c) \/ o \in inst[q][c].done)
NotAhead(q, p) ==
  \A c \in Cid : \A g \in 1..Len(prog.dirs[c]) : Edges(p, q, c, g) # {} =>
    /\ Took(p, q, c, g) => inst[q][c].gen >= g
    /\ \A d \in Edges(p, q, c, g) : Sent(p, c, g, d) => Past(q, c, g, "DR")
    /\ Past(q, c, g, "DN") => Over(p, c, g)

\* The descriptor of an open communication is that of its instance, and the
\* addresses p took are those of this instance.  They are taken in the order of
\* the directions, each just before its data is stored.
DirsOK(p) ==
  \A c \in Cid : InUse(p, c) =>
    LET ds == prog.dirs[c][inst[p][c].gen] IN
    /\ DOMAIN SendInfo(p, c) = SendDirs(p, ds)
    /\ DOMAIN RecvInfo(p, c) = RecvDirs(p, ds)
    /\ \A d \in SendDirs(p, ds) : SendInfo(p, c)[d].proc = ds[d][p] /\ SendInfo(p, c)[d].area = c
    /\ \A d \in RecvDirs(p, ds) : RecvInfo(p, c)[d].proc = Source(p, ds, d)
AddrOK(p) ==
  \A c \in Cid : InUse(p, c) => \A d \in DOMAIN SendInfo(p, c) :
    LET b == SendInfo(p, c)[d].remmeminfo IN
    /\ b \in {NoBlock, Here(p, c, d)}
    /\ b # NoBlock =>
         "SR" \in inst[p][c].done \/
           (/\ May(p, "SR", c)
            /\ d \in step[p] \/ IsNext(d, DOMAIN SendInfo(p, c) \ step[p]))
    /\ d \in Out(p, c) =>
         b # NoBlock /\ \A e \in DOMAIN SendInfo(p, c) : e < d => e \in Out(p, c)

\* What holds of all processors and links.
LinksOK ==
  /\ \A p \in Proc : DirsOK(p) /\ AddrOK(p)
  /\ \A q, p \in Proc : NotAhead(q, p) /\ NoStray(q, p)
  /\ \A q, p \in Proc, c \in Cid : Listens(q, p, c) => Flow(q, p, c)

\* The descriptor that place n of the program gives to communication c.
SlotAt(n, c) == BankAfter(prog)[n].handle[c]
\* Place n begins an instance in which q sends to p under descriptor s, and
\* whose OLD q has yet to make.
Unreleased(q, p, s, n, c) ==
  /\ prog.calls[n] = <<"NEW", c>> /\ SlotAt(n, c) = s
  /\ Edges(q, p, c, GenAt(prog, c, n)) # {}
  /\ Holds(q, c, GenAt(prog, c, n))
Writable(q, s) == Flag("REMMEMWRITABLE", s, q, 0)
\* REMMEMWRITABLE is up or on its way, unless the sender holds on to the
\* addresses of an instance that the receiver began.
WritableOK(q, p) ==
  \A s \in Slot :
    \/ Coming(Writable(q, s), p, q)
    \/ \E n \in 1..pos[p], c \in Cid : Unreleased(q, p, s, n, c)
=============================================================================
