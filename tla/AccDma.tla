------------------------------- MODULE AccDma -------------------------------
(***************************************************************************)
(* The accelerator as the harts of main.c reach it: the mutex lock, the    *)
(* single DMA engine they all program through acc.h (SimpleDMA of dma.h),  *)
(* and one tangent searcher (PE) per hart behind it.                       *)
(*                                                                         *)
(* For every pair of hulls a hart packs the points into its array data,    *)
(* has the DMA send data to its PE (128 bytes), then has the DMA fetch the *)
(* two tangent indices into data[0..1] (2 bytes), and reads them.  Each    *)
(* access to the DMA is bracketed by sem_wait(&lock) and sem_post(&lock),  *)
(* but writing the operation register only notifies an event: the DMA      *)
(* thread copies later, from the registers as they are then, and the hart  *)
(* never asks whether it has.                                              *)
(*                                                                         *)
(* Addresses are those of module Platform, and the bus decodes each one.   *)
(* A memory area is a record: head stands for bytes 0..1, tail for the     *)
(* rest.  The content is a token that says whose points or indices it is.  *)
(***************************************************************************)
EXTENDS Platform, Sequences

CONSTANTS
  PAIRS,          \* bound: pairs of hulls a hart merges
  PromptTransfer  \* the timing assumption on Release, below

ASSUME AccDmaAssumption ==
  /\ PAIRS \in Nat \ {0}
  /\ PromptTransfer \in BOOLEAN

VARIABLES
  pc,      \* pc[h]: where hart h is
  xfer,    \* xfer[h]: "send" or "fetch", the transfer h is at
  pair,    \* pair[h]: pairs h has merged
  data,    \* data[h]: the array data of main
  lock,    \* the mutex
  src, dst, len, op,  \* the registers of the DMA
  event,   \* run_event is notified and has not fired yet
  dma,     \* the DMA thread: "idle", "read", "write", or "aborted"
  n,       \* bytes of the transfer the DMA thread has left
  off,     \* bytes it has copied
  buffer,  \* the buffer of the DMA
  inq,     \* inq[h]: requests in PE h
  outq     \* outq[h]: results in PE h, not fetched yet

harts == <<pc, xfer, pair, data, lock>>
regs  == <<src, dst, len, op>>
engine == <<event, dma, n, off, buffer>>
pes   == <<inq, outq>>
vars  == <<harts, regs, engine, pes>>

Unset == <<"none">>
Points(h, i)  == <<"points", h, i>>
Indices(request) == <<"indices", request>>
Area(head, tail) == [head |-> head, tail |-> tail]

OP_NOP == 0
OP_MEMCPY == 1
Whole == 128
Short == 2

\* Mutant: the hart offset is missing from the read address.
MSource(h) == IF xfer[h] = "send" THEN Data(h) ELSE PeOut(0)

Source(h) == IF xfer[h] = "send" THEN Data(h) ELSE PeOut(h)
\* Mutant: the hart offset is missing from the start address.
MTarget(h) == IF xfer[h] = "send" THEN PeIn(0) ELSE Data(h)

Target(h) == IF xfer[h] = "send" THEN PeIn(h) ELSE Data(h)
\* Mutant: the length of the result is used for the points too.
MLength(h) == Short

Length(h) == IF xfer[h] = "send" THEN Whole ELSE Short

Init ==
  /\ pc = [h \in Hart |-> IF h = 0 THEN "init" ELSE "pack"]
  /\ xfer = [h \in Hart |-> "send"]
  /\ pair = [h \in Hart |-> 0]
  /\ data = [h \in Hart |-> Area(Unset, Unset)]
  /\ lock = 0
  /\ src = 0 /\ dst = 0 /\ len = 0 /\ op = OP_NOP
  /\ event = FALSE /\ dma = "idle" /\ n = 0 /\ off = 0
  /\ buffer = Area(Unset, Unset)
  /\ inq = [h \in Hart |-> <<>>]
  /\ outq = [h \in Hart |-> <<>>]

-----------------------------------------------------------------------------
(* The harts.                                                              *)

At(h, l)   == pc[h] = l
Goto(h, l) == pc' = [pc EXCEPT ![h] = l]

\* Mutant: sem_init(&lock, 2).
MInitLock ==
  /\ At(0, "init")
  /\ lock' = 2
  /\ Goto(0, "pack")
  /\ UNCHANGED <<xfer, pair, data, regs, engine, pes>>

\* sem_init(&lock, 1); the other harts do not wait for it.
InitLock ==
  /\ At(0, "init")
  /\ lock' = 1
  /\ Goto(0, "pack")
  /\ UNCHANGED <<xfer, pair, data, regs, engine, pes>>

Pack(h) ==
  /\ At(h, "pack")
  /\ data' = [data EXCEPT ![h] = Area(Points(h, pair[h]), Points(h, pair[h]))]
  /\ xfer' = [xfer EXCEPT ![h] = "send"]
  /\ Goto(h, "acquire")
  /\ UNCHANGED <<pair, lock, regs, engine, pes>>

\* Mutant: sem_wait(&lock) is missing.
MAcquire(h) ==
  /\ At(h, "acquire")
  /\ Goto(h, "src")
  /\ UNCHANGED <<xfer, pair, data, lock, regs, engine, pes>>

Acquire(h) ==
  /\ At(h, "acquire")
  /\ lock > 0
  /\ lock' = lock - 1
  /\ Goto(h, "src")
  /\ UNCHANGED <<xfer, pair, data, regs, engine, pes>>

\* A store to the DMA: SimpleDMA::transport.  Without such a register it fails
\* an assertion.  notify() on a notified event changes nothing.
Store(address, value) ==
  \E register \in DOMAIN addr_to_reg :
    /\ Selects(address, DMA)
    /\ Offset(address, DMA) = addr_to_reg[register]
    /\ src' = IF register = "src" THEN value ELSE src
    /\ dst' = IF register = "dst" THEN value ELSE dst
    /\ len' = IF register = "len" THEN value ELSE len
    /\ op'  = IF register = "op"  THEN value ELSE op
    /\ event' = (event \/ register = "op")

\* The hart stores value and goes on to l.
Program(h, l, address, value) ==
  /\ Store(address, value)
  /\ Goto(h, l)
  /\ UNCHANGED <<xfer, pair, data, lock, dma, n, off, buffer, pes>>

SetSrc(h) == At(h, "src") /\ Program(h, "dst", DMA_SRC_ADDR, Source(h))
SetDst(h) == At(h, "dst") /\ Program(h, "len", DMA_DST_ADDR, Target(h))
SetLen(h) == At(h, "len") /\ Program(h, "op", DMA_LEN_ADDR, Length(h))
SetOp(h)  == At(h, "op") /\ Program(h, "release", DMA_OP_ADDR, OP_MEMCPY)

DmaDone == ~event /\ dma = "idle"

\* Mutant: sem_post(&lock) is missing.
MRelease(h) ==
  /\ At(h, "release")
  /\ PromptTransfer => DmaDone
  /\ IF xfer[h] = "send"
       THEN xfer' = [xfer EXCEPT ![h] = "fetch"] /\ Goto(h, "acquire")
       ELSE UNCHANGED xfer /\ Goto(h, "merge")
  /\ UNCHANGED <<pair, data, lock, regs, engine, pes>>

\* sem_post(&lock).  With PromptTransfer the DMA has finished by the time the
\* lock is free again.  Nothing in the code waits for that: it is a property
\* of the simulated timing only (the DMA starts 10 ns after the store, the PE
\* takes no time, and the quantum is one the hart does not run ahead in).
Release(h) ==
  /\ At(h, "release")
  /\ PromptTransfer => DmaDone
  /\ lock' = lock + 1
  /\ IF xfer[h] = "send"
       THEN xfer' = [xfer EXCEPT ![h] = "fetch"] /\ Goto(h, "acquire")
       ELSE UNCHANGED xfer /\ Goto(h, "merge")
  /\ UNCHANGED <<pair, data, regs, engine, pes>>

\* Read data[0..1] and merge the hulls (module HullMerge), next pair.
Merge(h) ==
  /\ At(h, "merge")
  /\ pair' = [pair EXCEPT ![h] = @ + 1]
  /\ Goto(h, IF pair[h] + 1 < PAIRS THEN "pack" ELSE "done")
  /\ UNCHANGED <<xfer, data, lock, regs, engine, pes>>

-----------------------------------------------------------------------------
(* The DMA thread.  The interrupt it triggers after an operation is enabled *)
(* by no hart.                                                             *)

\* The switch of SimpleDMA::run; an operation that is not implemented fails an
\* assertion.
Execute ==
  /\ dma' = IF op = OP_NOP THEN "idle" ELSE IF op = OP_MEMCPY THEN "read" ELSE "aborted"
  /\ n' = len
  /\ off' = 0

\* The event fires.  While the thread is busy nobody waits for it: it is lost.
EventFires ==
  /\ event
  /\ event' = FALSE
  /\ IF dma = "idle" THEN Execute ELSE UNCHANGED <<dma, n, off>>
  /\ UNCHANGED <<harts, regs, buffer, pes>>

\* What the copy of a block of n bytes makes of area old.
Overlay(old, new) == IF n >= Whole THEN new ELSE Area(new.head, old.tail)

DmaReadData(h) ==
  /\ dma = "read"
  /\ Selects(src + off, MEM)
  /\ src + off = Data(h)
  /\ buffer' = Overlay(buffer, data[h])
  /\ dma' = "write"
  /\ UNCHANGED <<harts, regs, event, n, off, pes>>

\* A read of the PE's result blocks the DMA thread until there is one.  The PE
\* fills in four bytes whatever the length.  Any other address ends the program.
DmaReadResult(h) ==
  /\ dma = "read"
  /\ Selects(src + off, PE(h))
  /\ IF Offset(src + off, PE(h)) = CTSEARCHER_RESULT_ADDR
       THEN /\ outq[h] # <<>>
            /\ buffer' = Area(Head(outq[h]), Unset)
            /\ outq' = [outq EXCEPT ![h] = Tail(@)]
            /\ dma' = "write"
       ELSE dma' = "aborted" /\ UNCHANGED <<buffer, outq>>
  /\ UNCHANGED <<harts, regs, event, n, off, inq>>

\* The buffer holds 128 bytes; what is longer goes block by block.
NextBlock ==
  IF n > Whole
    THEN dma' = "read" /\ n' = n - Whole /\ off' = off + Whole
    ELSE dma' = "idle" /\ UNCHANGED <<n, off>>

DmaWriteData(h) ==
  /\ dma = "write"
  /\ Selects(dst + off, MEM)
  /\ dst + off = Data(h)
  /\ data' = [data EXCEPT ![h] = Overlay(@, buffer)]
  /\ NextBlock
  /\ UNCHANGED <<pc, xfer, pair, lock, regs, event, buffer, pes>>

\* The PE takes its 128 bytes from the buffer whatever the length.  A write to
\* any other address is reported and ignored.
DmaWritePe(h) ==
  /\ dma = "write"
  /\ Selects(dst + off, PE(h))
  /\ inq' = IF Offset(dst + off, PE(h)) = CTSEARCHER_R_ADDR
              THEN [inq EXCEPT ![h] = Append(@, buffer)] ELSE inq
  /\ NextBlock
  /\ UNCHANGED <<harts, regs, event, buffer, outq>>

-----------------------------------------------------------------------------
(* The PEs (module SearcherNet has their inside).                           *)

Search(h) ==
  /\ inq[h] # <<>>
  /\ outq' = [outq EXCEPT ![h] = Append(@, Indices(Head(inq[h])))]
  /\ inq' = [inq EXCEPT ![h] = Tail(@)]
  /\ UNCHANGED <<harts, regs, engine>>

-----------------------------------------------------------------------------

HartStep(h) ==
  \/ Pack(h) \/ Acquire(h) \/ SetSrc(h) \/ SetDst(h) \/ SetLen(h) \/ SetOp(h)
  \/ Release(h) \/ Merge(h)

DmaCopy(h) == DmaReadData(h) \/ DmaReadResult(h) \/ DmaWriteData(h) \/ DmaWritePe(h)

Engine == EventFires \/ \E h \in Hart : DmaCopy(h)

Next ==
  \/ InitLock
  \/ Engine
  \/ \E h \in Hart : HartStep(h) \/ Search(h)

Spec == Init /\ [][Next]_vars

\* Harts, DMA and PEs are threads of one simulation: each that can go on does.
\* The mutex is taken finitely often, so weak fairness does for Acquire too.
Fairness ==
  /\ WF_vars(InitLock) /\ WF_vars(Engine)
  /\ \A h \in Hart : WF_vars(HartStep(h)) /\ WF_vars(Search(h))

FairSpec == Spec /\ Fairness

-----------------------------------------------------------------------------
(* Properties                                                              *)

Programming == {"src", "dst", "len", "op", "release"}
PC == Programming \cup {"init", "pack", "acquire", "merge", "done"}
Sources == {0} \cup {Data(h) : h \in Hart} \cup {PeOut(h) : h \in Hart}
Targets == {0} \cup {Data(h) : h \in Hart} \cup {PeIn(h) : h \in Hart}

\* The values of the control state and the registers; in particular the
\* mutex never holds more than one token, and no access ends the program.
TypeOK ==
  /\ pc \in [Hart -> PC]
  /\ xfer \in [Hart -> {"send", "fetch"}]
  /\ pair \in [Hart -> 0 .. PAIRS]
  /\ lock \in 0 .. 1
  /\ src \in Sources /\ dst \in Targets
  /\ len \in {0, Short, Whole} /\ n \in {0, Short, Whole} /\ off = 0
  /\ op \in {OP_NOP, OP_MEMCPY}
  /\ event \in BOOLEAN
  /\ dma \in {"idle", "read", "write"}

\* Between sem_wait(&lock) and sem_post(&lock) there is at most one hart, also
\* while hart 0 has not initialised the lock yet.
LockExclusive ==
  /\ \A g, h \in Hart : pc[g] \in Programming /\ pc[h] \in Programming => g = h
  /\ lock = 0 <=> pc[0] = "init" \/ \E h \in Hart : pc[h] \in Programming

\* report.md:16 "a lock for atomic access to the DMA", for the registers:
\* when a hart starts an operation all three are the ones it has written.
RegistersMine ==
  \A h \in Hart : At(h, "op") => src = Source(h) /\ dst = Target(h) /\ len = Length(h)

\* The same for the transfer: from the start of an operation until its copy
\* is complete the lock stays with the hart that started it, and the
\* registers stay as it wrote them.
TransferMine ==
  ~DmaDone => \E h \in Hart :
    At(h, "release") /\ src = Source(h) /\ dst = Target(h) /\ len = Length(h)

\* A hart merges with the tangent of the pair it has just packed: not of an
\* earlier pair, not of another hart's, and not with bytes of its own points.
FreshIndices ==
  \A h \in Hart : At(h, "merge") =>
    LET mine == Points(h, pair[h])
    IN  data[h].head = Indices(Area(mine, mine))

\* The DMA thread never waits for a result that nobody has asked for, and a
\* PE never has two requests at once.
OneOutstanding ==
  \A h \in Hart :
    /\ Len(inq[h]) + Len(outq[h]) <= 1
    /\ dma = "read" /\ src = PeOut(h) => Len(inq[h]) + Len(outq[h]) = 1

\* Every hart merges all its pairs: no transfer waits for ever.
AllMerged == <>(\A h \in Hart : At(h, "done"))

\* Where hart h is in the abstract program.
Step(h) ==
  IF pc[h] \in {"init", "pack"} THEN "pack"
  ELSE IF pc[h] \in {"merge", "done"} THEN pc[h]
  ELSE IF At(h, "release") /\ DmaDone
    THEN (IF xfer[h] = "send" THEN "fetch" ELSE "merge")
  ELSE xfer[h]

\* A result the DMA is carrying still counts as the PE's.
Undelivered(h) ==
  IF dma = "write" /\ src = PeOut(h) THEN <<buffer.head>> \o outq[h] ELSE outq[h]

Abstract == INSTANCE AccService WITH
  step <- [h \in Hart |-> Step(h)],
  head <- [h \in Hart |-> data[h].head],
  outq <- [h \in Hart |-> Undelivered(h)]

\* Lock, registers, event and copy together behave like the direct exchange.
ImplementsService == Abstract!ASSpec
=============================================================================
