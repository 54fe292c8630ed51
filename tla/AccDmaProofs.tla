---------------------------- MODULE AccDmaProofs ----------------------------
(***************************************************************************)
(* Theorems about AccDma for any number of harts and pairs.  Everything    *)
(* but TransferIsMine holds for any timing.                                *)
(*                                                                         *)
(* The argument: the mutex keeps two harts from being between sem_wait and *)
(* sem_post at once (LockExclusive), so what a hart has stored into the    *)
(* registers is still there at its next store (RegsInv); and if a hart     *)
(* keeps the lock until its transfer is over, the transfer runs on the     *)
(* registers it wrote (CopyInv).  Before that, about the address map of    *)
(* Platform: no port hides another one, and every address the software     *)
(* uses leads where it is meant to.                                        *)
(***************************************************************************)
EXTENDS AccDma, SequenceTheorems, TLAPS

\* The stacks, one behind the other, end within the memory.
LEMMA StackPlace ==
  /\ stack0_data \in Int /\ stack0_data > 0
  /\ stack0_data + CORES * 32768 <= 33554432
BY PlatformAssumption, SMT DEF mem_size, stack_size

\* The first and the last address of the windows of mc_main.cpp.
LEMMA FixedWindows ==
  /\ PortMapping(0) = [lo |-> 0, hi |-> 33554431]
  /\ PortMapping(1) = [lo |-> 33554432, hi |-> 33619967]
  /\ PortMapping(2) = [lo |-> 1073741824, hi |-> 1090519040]
  /\ PortMapping(3) = [lo |-> 1879048192, hi |-> 1879052288]
  /\ PortMapping(4) = [lo |-> 33619968, hi |-> 33620991]
BY SMT DEF PortMapping, Fixed, Region, PE, mem_start_addr, mem_size, clint_start_addr,
       plic_start_addr, dma_start_addr, sys_start_addr

LEMMA PeWindow ==
  ASSUME NEW port \in Int, port >= 5
  PROVE  PortMapping(port) =
           [lo |-> 1929379840 + (port - 5) * 16777216,
            hi |-> 1929379840 + (port - 4) * 16777216 - 1]
BY SMT DEF PortMapping, Region, PE, ctSearcher0_start_addr, ctSearcher_size

\* The windows of two ports have no address in common, so the order in which
\* the bus tries the ports does not matter (mc_main.cpp, bus.ports).
THEOREM WindowsDisjoint ==
  ASSUME NEW p \in Port, NEW q \in Port, p # q, NEW address \in Int
  PROVE  ~(Maps(p, address) /\ Maps(q, address))
<1>1. p \in Int /\ q \in Int /\ p >= 0 /\ q >= 0
  BY PlatformAssumption, SMT DEF Port, PE
<1>2. ASSUME NEW port \in Int, port >= 5, Maps(port, address)
      PROVE  /\ 1929379840 + (port - 5) * 16777216 <= address
             /\ address < 1929379840 + (port - 4) * 16777216
  <2>1. PortMapping(port) = [lo |-> 1929379840 + (port - 5) * 16777216,
                             hi |-> 1929379840 + (port - 4) * 16777216 - 1]
    BY <1>2, PeWindow
  <2> QED  BY <1>2, <2>1, SMT DEF Maps
<1>3. CASE p >= 5 /\ q >= 5
  BY <1>1, <1>2, <1>3, SMT
<1>4. ASSUME NEW port \in Int, port >= 0, port < 5
      PROVE  port \in {0, 1, 2, 3, 4}
  BY <1>4, SMT
<1>5. ASSUME NEW port \in {0, 1, 2, 3, 4}, Maps(port, address)
      PROVE  address < 1929379840
  BY <1>5, FixedWindows, SMT DEF Maps
<1>6. CASE p < 5 /\ q >= 5
  BY <1>1, <1>2, <1>4, <1>5, <1>6, SMT
<1>7. CASE p >= 5 /\ q < 5
  BY <1>1, <1>2, <1>4, <1>5, <1>7, SMT
<1>8. CASE p < 5 /\ q < 5
  <2>1. p \in {0, 1, 2, 3, 4} /\ q \in {0, 1, 2, 3, 4}
    BY <1>1, <1>4, <1>8
  <2> QED  BY <2>1, FixedWindows, SMT DEF Maps
<1> QED  BY <1>1, <1>3, <1>6, <1>7, <1>8, SMT

LEMMA OnlyOne ==
  ASSUME NEW port \in Port, NEW address \in Int, Maps(port, address)
  PROVE  Selects(address, port)
BY WindowsDisjoint DEF Selects, Port

\* CTSEARCHER_START_ADDR + hart_id*0x01000000 and CTSEARCHER_READ_ADDR + ...
\* are the input and the result register of the searcher of that hart, and of
\* no other; its array data is in memory.
THEOREM AddressesLeadHome ==
  ASSUME NEW h \in Hart
  PROVE  /\ Selects(PeIn(h), PE(h)) /\ Offset(PeIn(h), PE(h)) = CTSEARCHER_R_ADDR
         /\ Selects(PeOut(h), PE(h)) /\ Offset(PeOut(h), PE(h)) = CTSEARCHER_RESULT_ADDR
         /\ Selects(Data(h), MEM)
<1>1. h \in Int /\ h >= 0 /\ h < 140 /\ PE(h) \in Port /\ MEM \in Port /\ PE(h) = 5 + h
  BY PlatformAssumption, SMT DEF Hart, PE, Port, MEM
<1>2. PortMapping(PE(h)) = [lo |-> 1929379840 + h * 16777216,
                            hi |-> 1929379840 + (h + 1) * 16777216 - 1]
  BY <1>1, PeWindow, SMT
<1>3. /\ Maps(PE(h), PeIn(h)) /\ Offset(PeIn(h), PE(h)) = CTSEARCHER_R_ADDR
      /\ Maps(PE(h), PeOut(h)) /\ Offset(PeOut(h), PE(h)) = CTSEARCHER_RESULT_ADDR
      /\ PeIn(h) \in Int /\ PeOut(h) \in Int
  BY <1>1, <1>2, SMT DEF Maps, Offset, PeIn, PeOut, CTSEARCHER_START_ADDR, CTSEARCHER_READ_ADDR,
         CTSEARCHER_R_ADDR, CTSEARCHER_RESULT_ADDR
<1>4. Maps(MEM, Data(h)) /\ Data(h) \in Int
  BY <1>1, FixedWindows, StackPlace, PlatformAssumption, SMT DEF Hart, Maps, MEM, Data, stack_size
<1> QED  BY <1>1, <1>3, <1>4, OnlyOne

\* Addresses of different harts, and of different kinds, are different.
THEOREM AddressesDistinct ==
  ASSUME NEW g \in Hart, NEW h \in Hart
  PROVE  /\ PeIn(g) # PeOut(h) /\ PeIn(g) # Data(h) /\ PeOut(g) # Data(h)
         /\ PeIn(g) = PeIn(h) => g = h
         /\ PeOut(g) = PeOut(h) => g = h
         /\ Data(g) = Data(h) => g = h
<1>1. g \in Int /\ g >= 0 /\ g < 140 /\ h \in Int /\ h >= 0 /\ h < 140
  BY PlatformAssumption, SMT DEF Hart
<1> QED  BY <1>1, StackPlace, PlatformAssumption, SMT DEF Hart, PeIn, PeOut, Data, stack_size, CTSEARCHER_START_ADDR, CTSEARCHER_READ_ADDR

\* acc.h, the port of the DMA and the offsets in dma.h agree on the registers.
THEOREM RegistersAgree ==
  /\ Offset(DMA_SRC_ADDR, DMA) = addr_to_reg.src
  /\ Offset(DMA_DST_ADDR, DMA) = addr_to_reg.dst
  /\ Offset(DMA_LEN_ADDR, DMA) = addr_to_reg.len
  /\ Offset(DMA_OP_ADDR, DMA) = addr_to_reg.op
BY FixedWindows, SMT DEF Offset, DMA, addr_to_reg, DMA_SRC_ADDR, DMA_DST_ADDR, DMA_LEN_ADDR,
     DMA_OP_ADDR

-----------------------------------------------------------------------------

\* Only hart 0 initialises the mutex, and until it has nobody programs.
InitInv ==
  /\ \A h \in Hart : pc[h] = "init" => h = 0
  /\ pc[0] = "init" => \A h \in Hart : pc[h] \notin Programming

\* How far hart h has got with the registers.
Written(h) ==
  /\ pc[h] \in {"dst", "len", "op", "release"} => src = Source(h)
  /\ pc[h] \in {"len", "op", "release"} => dst = Target(h)
  /\ pc[h] \in {"op", "release"} => len = Length(h)

RegsInv == \A h \in Hart : Written(h)

\* A hart that has not merged its last pair has one left.
PairInv == \A h \in Hart : pc[h] # "done" => pair[h] < PAIRS

DmaInv == TypeOK /\ LockExclusive /\ InitInv /\ RegsInv /\ PairInv

CopyInv == ~DmaDone => \E h \in Hart : pc[h] = "release"

-----------------------------------------------------------------------------

\* The addresses and lengths harts store are those of the type invariant.
LEMMA Parameters ==
  ASSUME NEW h \in Hart
  PROVE  Source(h) \in Sources /\ Target(h) \in Targets /\ Length(h) \in {Short, Whole}
BY DEF Source, Target, Length, Sources, Targets

\* acc.h, the port of the DMA and addr_to_reg agree on its four registers.
LEMMA OneRegister ==
  ASSUME NEW register \in DOMAIN addr_to_reg
  PROVE  /\ Offset(DMA_SRC_ADDR, DMA) = addr_to_reg[register] <=> register = "src"
         /\ Offset(DMA_DST_ADDR, DMA) = addr_to_reg[register] <=> register = "dst"
         /\ Offset(DMA_LEN_ADDR, DMA) = addr_to_reg[register] <=> register = "len"
         /\ Offset(DMA_OP_ADDR, DMA) = addr_to_reg[register] <=> register = "op"
<1>1. register \in {"src", "dst", "len", "op"}
  BY DEF addr_to_reg
<1>2. addr_to_reg["src"] = 0 /\ addr_to_reg["dst"] = 4 /\ addr_to_reg["len"] = 8 /\ addr_to_reg["op"] = 12
  BY DEF addr_to_reg
<1> QED  BY <1>1, <1>2, RegistersAgree

\* What each of the four stores of hart h does.
LEMMA SetSteps ==
  ASSUME NEW h \in Hart, event \in BOOLEAN
  PROVE  /\ SetSrc(h) => /\ pc[h] = "src" /\ Goto(h, "dst") /\ src' = Source(h)
                         /\ UNCHANGED <<xfer, pair, data, lock, dst, len, op, engine, inq, outq>>
         /\ SetDst(h) => /\ pc[h] = "dst" /\ Goto(h, "len") /\ dst' = Target(h)
                         /\ UNCHANGED <<xfer, pair, data, lock, src, len, op, engine, inq, outq>>
         /\ SetLen(h) => /\ pc[h] = "len" /\ Goto(h, "op") /\ len' = Length(h)
                         /\ UNCHANGED <<xfer, pair, data, lock, src, dst, op, engine, inq, outq>>
         /\ SetOp(h) => /\ pc[h] = "op" /\ Goto(h, "release") /\ op' = OP_MEMCPY /\ event' = TRUE
                        /\ UNCHANGED <<xfer, pair, data, lock, src, dst, len, dma, n, off,
                                       buffer, inq, outq>>
<1>1. ASSUME SetSrc(h)
      PROVE  /\ pc[h] = "src" /\ Goto(h, "dst") /\ UNCHANGED <<xfer, pair, data, lock, inq, outq>>
             /\ UNCHANGED <<dst, len, op, dma, n, off, buffer>>
             /\ src' = Source(h) /\ event' = (event \/ FALSE)
  <2>1. \E register \in DOMAIN addr_to_reg :
          /\ Offset(DMA_SRC_ADDR, DMA) = addr_to_reg[register]
          /\ src' = IF register = "src" THEN Source(h) ELSE src
          /\ dst' = IF register = "dst" THEN Source(h) ELSE dst
          /\ len' = IF register = "len" THEN Source(h) ELSE len
          /\ op'  = IF register = "op"  THEN Source(h) ELSE op
          /\ event' = (event \/ register = "op")
    BY <1>1 DEF SetSrc, Program, Store
  <2>2. pc[h] = "src" /\ Goto(h, "dst") /\ UNCHANGED <<xfer, pair, data, lock, dma, n, off, buffer, inq, outq>>
    BY <1>1 DEF SetSrc, Program, At, pes
  <2>3. src' = Source(h) /\ event' = (event \/ FALSE) /\ UNCHANGED <<dst, len, op>>
    BY <2>1, OneRegister
  <2> QED  BY <2>2, <2>3
<1>2. ASSUME SetDst(h)
      PROVE  /\ pc[h] = "dst" /\ Goto(h, "len") /\ UNCHANGED <<xfer, pair, data, lock, inq, outq>>
             /\ UNCHANGED <<src, len, op, dma, n, off, buffer>>
             /\ dst' = Target(h) /\ event' = (event \/ FALSE)
  <2>1. \E register \in DOMAIN addr_to_reg :
          /\ Offset(DMA_DST_ADDR, DMA) = addr_to_reg[register]
          /\ src' = IF register = "src" THEN Target(h) ELSE src
          /\ dst' = IF register = "dst" THEN Target(h) ELSE dst
          /\ len' = IF register = "len" THEN Target(h) ELSE len
          /\ op'  = IF register = "op"  THEN Target(h) ELSE op
          /\ event' = (event \/ register = "op")
    BY <1>2 DEF SetDst, Program, Store
  <2>2. pc[h] = "dst" /\ Goto(h, "len") /\ UNCHANGED <<xfer, pair, data, lock, dma, n, off, buffer, inq, outq>>
    BY <1>2 DEF SetDst, Program, At, pes
  <2>3. dst' = Target(h) /\ event' = (event \/ FALSE) /\ UNCHANGED <<src, len, op>>
    BY <2>1, OneRegister
  <2> QED  BY <2>2, <2>3
<1>3. ASSUME SetLen(h)
      PROVE  /\ pc[h] = "len" /\ Goto(h, "op") /\ UNCHANGED <<xfer, pair, data, lock, inq, outq>>
             /\ UNCHANGED <<src, dst, op, dma, n, off, buffer>>
             /\ len' = Length(h) /\ event' = (event \/ FALSE)
  <2>1. \E register \in DOMAIN addr_to_reg :
          /\ Offset(DMA_LEN_ADDR, DMA) = addr_to_reg[register]
          /\ src' = IF register = "src" THEN Length(h) ELSE src
          /\ dst' = IF register = "dst" THEN Length(h) ELSE dst
          /\ len' = IF register = "len" THEN Length(h) ELSE len
          /\ op'  = IF register = "op"  THEN Length(h) ELSE op
          /\ event' = (event \/ register = "op")
    BY <1>3 DEF SetLen, Program, Store
  <2>2. pc[h] = "len" /\ Goto(h, "op") /\ UNCHANGED <<xfer, pair, data, lock, dma, n, off, buffer, inq, outq>>
    BY <1>3 DEF SetLen, Program, At, pes
  <2>3. len' = Length(h) /\ event' = (event \/ FALSE) /\ UNCHANGED <<src, dst, op>>
    BY <2>1, OneRegister
  <2> QED  BY <2>2, <2>3
<1>4. ASSUME SetOp(h)
      PROVE  /\ pc[h] = "op" /\ Goto(h, "release") /\ UNCHANGED <<xfer, pair, data, lock, inq, outq>>
             /\ UNCHANGED <<src, dst, len, dma, n, off, buffer>>
             /\ op' = OP_MEMCPY /\ event' = (event \/ TRUE)
  <2>1. \E register \in DOMAIN addr_to_reg :
          /\ Offset(DMA_OP_ADDR, DMA) = addr_to_reg[register]
          /\ src' = IF register = "src" THEN OP_MEMCPY ELSE src
          /\ dst' = IF register = "dst" THEN OP_MEMCPY ELSE dst
          /\ len' = IF register = "len" THEN OP_MEMCPY ELSE len
          /\ op'  = IF register = "op"  THEN OP_MEMCPY ELSE op
          /\ event' = (event \/ register = "op")
    BY <1>4 DEF SetOp, Program, Store
  <2>2. pc[h] = "op" /\ Goto(h, "release") /\ UNCHANGED <<xfer, pair, data, lock, dma, n, off, buffer, inq, outq>>
    BY <1>4 DEF SetOp, Program, At, pes
  <2>3. op' = OP_MEMCPY /\ event' = (event \/ TRUE) /\ UNCHANGED <<src, dst, len>>
    BY <2>1, OneRegister
  <2> QED  BY <2>2, <2>3
<1> QED  BY <1>1, <1>2, <1>3, <1>4 DEF engine

\* What a hart has written depends on its own position, on which transfer it
\* is at, and on the registers only.
LEMMA WrittenKept ==
  ASSUME NEW h \in Hart, Written(h), UNCHANGED regs,
         pc'[h] = pc[h], xfer'[h] = xfer[h]
  PROVE  Written(h)'
BY DEF Written, regs, Source, Target, Length

\* Of the addresses the harts store, only its own two lead to a PE, each to
\* the register it is meant for.
LEMMA PeAddress ==
  ASSUME NEW h \in Hart, NEW STATE a, a \in Sources \cup Targets, Selects(a, PE(h))
  PROVE  /\ a \in Sources => a = PeOut(h) /\ Offset(a, PE(h)) = CTSEARCHER_RESULT_ADDR
         /\ a \in Targets => a = PeIn(h) /\ Offset(a, PE(h)) = CTSEARCHER_R_ADDR
<1>1. h \in Int /\ h >= 0 /\ PE(h) \in Port /\ MEM \in Port /\ PE(h) = 5 + h
  BY PlatformAssumption, SMT DEF Hart, PE, Port, MEM
<1>2. Maps(PE(h), a)
  BY DEF Selects
<1>3. ASSUME Maps(MEM, a), a \in Int PROVE FALSE
  BY <1>1, <1>2, <1>3, WindowsDisjoint DEF MEM
<1>4. a # 0
  <2>1. Maps(MEM, 0)
    BY FixedWindows, SMT DEF Maps, MEM
  <2> QED  BY <2>1, <1>3
<1>5. ASSUME NEW g \in Hart, a = Data(g) PROVE FALSE
  <2>1. Maps(MEM, a)
    BY <1>5, AddressesLeadHome DEF Selects
  <2>2. a \in Int
    BY <1>5, PlatformAssumption, StackPlace, SMT DEF Data, stack_size, Hart
  <2> QED  BY <2>1, <2>2, <1>3
<1>6. ASSUME NEW g \in Hart, a \in {PeIn(g), PeOut(g)} PROVE g = h
  <2>1. Maps(PE(g), a)
    BY <1>6, AddressesLeadHome DEF Selects
  <2>2. a \in Int /\ PE(g) \in Port /\ g \in Int /\ PE(g) = 5 + g
    BY <1>6, PlatformAssumption, SMT
       DEF PeIn, PeOut, CTSEARCHER_START_ADDR, CTSEARCHER_READ_ADDR, Hart, PE, Port
  <2>3. PE(g) = PE(h)
    BY <1>1, <1>2, <2>1, <2>2, WindowsDisjoint
  <2> QED  BY <1>1, <2>2, <2>3
<1>7. a \in Sources => a = PeOut(h)
  BY <1>4, <1>5, <1>6 DEF Sources
<1>8. a \in Targets => a = PeIn(h)
  BY <1>4, <1>5, <1>6 DEF Targets
<1> QED  BY <1>7, <1>8, AddressesLeadHome

LEMMA InitDmaInv == Init => DmaInv /\ CopyInv
<1> SUFFICES ASSUME Init PROVE DmaInv /\ CopyInv
  OBVIOUS
<1> USE AccDmaAssumption, PlatformAssumption DEF Init, Hart
<1>1. TypeOK
  BY SMT DEF TypeOK, PC, Programming, Sources, Targets, Short, Whole, OP_NOP, OP_MEMCPY
<1>2. LockExclusive /\ InitInv /\ RegsInv /\ PairInv
  BY DEF LockExclusive, InitInv, RegsInv, Written, PairInv, Programming
<1>3. CopyInv
  BY DEF CopyInv, DmaDone
<1> QED  BY <1>1, <1>2, <1>3 DEF DmaInv

-----------------------------------------------------------------------------
(* Steps that touch neither pc, xfer, pair, lock nor the registers.        *)

LEMMA EngineStep ==
  ASSUME DmaInv, UNCHANGED <<pc, xfer, pair, lock, regs>>,
         event' \in BOOLEAN, dma' \in {"idle", "read", "write"},
         n' \in {0, Short, Whole}, off' = 0
  PROVE  DmaInv'
<1> USE DEF DmaInv
<1>1. TypeOK'
  BY DEF TypeOK, regs
<1>2. LockExclusive' /\ InitInv' /\ PairInv'
  BY DEF LockExclusive, InitInv, PairInv
<1>3. RegsInv'
  BY WrittenKept DEF RegsInv
<1> QED  BY <1>1, <1>2, <1>3

(* Steps of one hart.  A step leaves the other harts where they are.       *)

\* The transfer hart h is at changes only outside the programming section,
\* so the registers keep their meaning for it when they do not change.
LEMMA OutsideStep ==
  ASSUME DmaInv, NEW h \in Hart, NEW l \in PC \ (Programming \cup {"init"}),
         NEW x \in {"send", "fetch"},
         Goto(h, l), xfer' = [xfer EXCEPT ![h] = x],
         pc[h] \notin Programming,
         IF pc[h] = "init" THEN lock' = 1 ELSE UNCHANGED lock,
         UNCHANGED <<regs, engine>>,
         pair' \in [Hart -> 0 .. PAIRS], PairInv'
  PROVE  DmaInv'
<1> USE DEF DmaInv
<1>1. pc' = [pc EXCEPT ![h] = l] /\ h \in Hart /\ pc \in [Hart -> PC]
  BY DEF Goto, TypeOK
<1>2. TypeOK'
  BY <1>1 DEF TypeOK, regs, engine
<1>3. \A g \in Hart : pc'[g] \in Programming <=> pc[g] \in Programming
  BY <1>1
<1>4. 0 \in Hart
  BY AccDmaAssumption, PlatformAssumption DEF Hart
<1>5. LockExclusive'
  <2>1. CASE pc[h] = "init"
    <3>1. h = 0 /\ \A g \in Hart : pc[g] \notin Programming
      BY <2>1 DEF InitInv
    <3>2. pc'[0] # "init" /\ lock' = 1
      BY <1>1, <3>1, <2>1
    <3> QED  BY <1>3, <3>1, <3>2 DEF LockExclusive
  <2>2. CASE pc[h] # "init"
    BY <2>2, <1>1, <1>3, <1>4 DEF LockExclusive
  <2> QED  BY <2>1, <2>2
<1>6. InitInv'
  BY <1>1, <1>3, <1>4 DEF InitInv
<1>7. RegsInv'
  <2> SUFFICES ASSUME NEW g \in Hart PROVE Written(g)'
    BY DEF RegsInv
  <2>1. CASE g = h
    BY <2>1, <1>1 DEF Written, Programming
  <2>2. CASE g # h
    <3>1. pc'[g] = pc[g] /\ xfer'[g] = xfer[g]
      BY <2>2, <1>1 DEF TypeOK
    <3> QED  BY <3>1, WrittenKept DEF RegsInv
  <2> QED  BY <2>1, <2>2
<1> QED  BY <1>2, <1>5, <1>6, <1>7

\* A step inside the programming section: the hart has the section to itself,
\* so nobody else has anything to say about the registers.
LEMMA InsideStep ==
  ASSUME DmaInv, NEW h \in Hart, NEW l \in Programming,
         Goto(h, l), pc[h] \in Programming,
         UNCHANGED <<xfer, pair, lock>>,
         TypeOK', Written(h)'
  PROVE  DmaInv'
<1> USE DEF DmaInv
<1>1. pc' = [pc EXCEPT ![h] = l] /\ pc \in [Hart -> PC]
  BY DEF Goto, TypeOK
<1>2. \A g \in Hart : pc'[g] \in Programming <=> pc[g] \in Programming
  BY <1>1
<1>3. \A g \in Hart \ {h} : pc[g] \notin Programming
  BY DEF LockExclusive
<1>4. 0 \in Hart /\ pc[0] # "init"
  BY AccDmaAssumption, PlatformAssumption DEF Hart, InitInv
<1>5. pc'[0] # "init"
  BY <1>1, <1>4 DEF Programming
<1>6. LockExclusive' /\ InitInv' /\ PairInv'
  <2>1. LockExclusive'
    BY <1>2, <1>4, <1>5 DEF LockExclusive
  <2>2. InitInv' /\ PairInv'
    BY <1>1, <1>5 DEF InitInv, PairInv, Programming
  <2> QED  BY <2>1, <2>2
<1>7. RegsInv'
  <2> SUFFICES ASSUME NEW g \in Hart \ {h} PROVE Written(g)'
    BY DEF RegsInv
  <2>1. pc'[g] \notin Programming
    BY <1>2, <1>3
  <2> QED  BY <2>1 DEF Written, Programming
<1> QED  BY <1>6, <1>7

-----------------------------------------------------------------------------

\* The inductive step, one case per action.
LEMMA NextDmaInv == DmaInv /\ [Next]_vars => DmaInv'
<1> SUFFICES ASSUME DmaInv, [Next]_vars PROVE DmaInv'
  OBVIOUS
<1> USE DEF DmaInv
<1>0. /\ event \in BOOLEAN
      /\ pc \in [Hart -> PC] /\ xfer \in [Hart -> {"send", "fetch"}]
      /\ pair \in [Hart -> 0 .. PAIRS] /\ 0 \in Hart /\ PAIRS \in Nat
  BY AccDmaAssumption, PlatformAssumption DEF TypeOK, Hart
<1>1. CASE InitLock
  <2>1. Goto(0, "pack") /\ pc[0] = "init" /\ lock' = 1 /\ UNCHANGED <<xfer, pair, regs, engine>>
    BY <1>1 DEF InitLock, At
  <2>2. xfer' = [xfer EXCEPT ![0] = xfer[0]] /\ xfer[0] \in {"send", "fetch"}
    BY <1>0, <2>1
  <2>3. PairInv'
    BY <1>0, <2>1 DEF PairInv, Goto
  <2>4. "pack" \in PC \ (Programming \cup {"init"}) /\ pc[0] \notin Programming
    BY <2>1 DEF PC, Programming
  <2> QED  BY <1>0, <2>1, <2>2, <2>3, <2>4, OutsideStep
<1>2. ASSUME NEW h \in Hart, Pack(h) PROVE DmaInv'
  <2>1. /\ Goto(h, "acquire") /\ pc[h] = "pack"
        /\ xfer' = [xfer EXCEPT ![h] = "send"]
        /\ UNCHANGED <<pair, lock, regs, engine>>
    BY <1>2 DEF Pack, At
  <2>2. PairInv'
    BY <1>0, <2>1 DEF PairInv, Goto
  <2>3. "acquire" \in PC \ (Programming \cup {"init"}) /\ pc[h] \notin Programming
    BY <2>1 DEF PC, Programming
  <2> QED  BY <1>0, <2>1, <2>2, <2>3, OutsideStep
<1>3. ASSUME NEW h \in Hart, Acquire(h) PROVE DmaInv'
  <2>1. /\ pc' = [pc EXCEPT ![h] = "src"] /\ pc[h] = "acquire" /\ lock > 0 /\ lock' = lock - 1
        /\ UNCHANGED <<xfer, pair, regs, engine>>
    BY <1>3 DEF Acquire, At, Goto
  <2>2. lock = 1 /\ lock' = 0
    BY <2>1 DEF TypeOK
  <2>3. pc[0] # "init" /\ \A g \in Hart : pc[g] \notin Programming
    BY <2>2 DEF LockExclusive
  <2>4. TypeOK'
    BY <2>1, <2>2 DEF TypeOK, PC, Programming, regs, engine
  <2>5. pc'[h] = "src" /\ \A g \in Hart \ {h} : pc'[g] = pc[g]
    BY <1>0, <2>1
  <2>6. LockExclusive'
    BY <2>2, <2>3, <2>5 DEF LockExclusive, Programming
  <2>7. InitInv' /\ PairInv'
    BY <1>0, <2>1, <2>3, <2>5 DEF InitInv, PairInv
  <2>8. RegsInv'
    BY <2>3, <2>5 DEF RegsInv, Written, Programming
  <2> QED  BY <2>4, <2>6, <2>7, <2>8
<1>4. ASSUME NEW h \in Hart, SetSrc(h) PROVE DmaInv'
  <2>1. /\ Goto(h, "dst") /\ pc[h] = "src" /\ src' = Source(h)
        /\ UNCHANGED <<xfer, pair, lock, dst, len, op, engine>>
    BY <1>0, <1>4, SetSteps
  <2>2. TypeOK'
    BY <2>1, Parameters DEF TypeOK, Goto, PC, Programming, engine
  <2>3. pc'[h] = "dst"
    BY <1>0, <2>1 DEF Goto
  <2>4. Written(h)'
    BY <2>1, <2>3 DEF Written, Source
  <2> QED  BY <2>1, <2>2, <2>4, InsideStep DEF Programming
<1>5. ASSUME NEW h \in Hart, SetDst(h) PROVE DmaInv'
  <2>1. /\ Goto(h, "len") /\ pc[h] = "dst" /\ dst' = Target(h)
        /\ UNCHANGED <<xfer, pair, lock, src, len, op, engine>>
    BY <1>0, <1>5, SetSteps
  <2>2. TypeOK'
    BY <2>1, Parameters DEF TypeOK, Goto, PC, Programming, engine
  <2>3. pc'[h] = "len" /\ src = Source(h)
    BY <1>0, <2>1 DEF Goto, RegsInv, Written
  <2>4. Written(h)'
    BY <2>1, <2>3 DEF Written, Source, Target
  <2> QED  BY <2>1, <2>2, <2>4, InsideStep DEF Programming
<1>6. ASSUME NEW h \in Hart, SetLen(h) PROVE DmaInv'
  <2>1. /\ Goto(h, "op") /\ pc[h] = "len" /\ len' = Length(h)
        /\ UNCHANGED <<xfer, pair, lock, src, dst, op, engine>>
    BY <1>0, <1>6, SetSteps
  <2>2. TypeOK'
    BY <2>1, Parameters DEF TypeOK, Goto, PC, Programming, engine
  <2>3. pc'[h] = "op" /\ src = Source(h) /\ dst = Target(h)
    BY <1>0, <2>1 DEF Goto, RegsInv, Written
  <2>4. Written(h)'
    BY <2>1, <2>3 DEF Written, Source, Target, Length
  <2> QED  BY <2>1, <2>2, <2>4, InsideStep DEF Programming
<1>7. ASSUME NEW h \in Hart, SetOp(h) PROVE DmaInv'
  <2>1. /\ Goto(h, "release") /\ pc[h] = "op" /\ event' = TRUE /\ op' = OP_MEMCPY
        /\ UNCHANGED <<xfer, pair, lock, src, dst, len, dma, n, off>>
    BY <1>0, <1>7, SetSteps
  <2>2. TypeOK'
    BY <2>1 DEF TypeOK, Goto, PC, Programming
  <2>3. pc'[h] = "release" /\ src = Source(h) /\ dst = Target(h) /\ len = Length(h)
    BY <1>0, <2>1 DEF Goto, RegsInv, Written
  <2>4. Written(h)'
    BY <2>1, <2>3 DEF Written, Source, Target, Length
  <2> QED  BY <2>1, <2>2, <2>4, InsideStep DEF Programming
<1>8. ASSUME NEW h \in Hart, Release(h) PROVE DmaInv'
  <2> DEFINE x == IF xfer[h] = "send" THEN "fetch" ELSE xfer[h]
             l == IF xfer[h] = "send" THEN "acquire" ELSE "merge"
  <2>1. /\ pc' = [pc EXCEPT ![h] = l] /\ pc[h] = "release" /\ lock' = lock + 1
        /\ xfer' = [xfer EXCEPT ![h] = x]
        /\ UNCHANGED <<pair, regs, engine>>
    BY <1>8, <1>0 DEF Release, At, Goto
  <2>2. lock = 0 /\ pc[0] # "init"
    BY <2>1 DEF LockExclusive, InitInv, Programming
  <2>3. \A g \in Hart \ {h} : pc[g] \notin Programming
    BY <2>1 DEF LockExclusive, Programming
  <2>4. pc'[h] = l /\ \A g \in Hart \ {h} : pc'[g] = pc[g] /\ xfer'[g] = xfer[g]
    BY <1>0, <2>1
  <2>5. l \in {"acquire", "merge"} /\ x \in {"send", "fetch"}
    BY <1>0
  <2> HIDE DEF l, x
  <2>6. TypeOK'
    BY <2>1, <2>2, <2>5 DEF TypeOK, PC, regs, engine
  <2>7. \A g \in Hart : pc'[g] \notin Programming
    BY <2>3, <2>4, <2>5 DEF Programming
  <2>8. pc'[0] # "init"
    BY <1>0, <2>2, <2>4, <2>5
  <2>9. LockExclusive'
    BY <2>1, <2>2, <2>7, <2>8 DEF LockExclusive
  <2>10. InitInv' /\ PairInv'
    BY <2>1, <2>4, <2>5, <2>8 DEF InitInv, PairInv
  <2>11. RegsInv'
    BY <2>7 DEF RegsInv, Written, Programming
  <2> QED  BY <2>6, <2>9, <2>10, <2>11
<1>9. ASSUME NEW h \in Hart, Merge(h) PROVE DmaInv'
  <2> DEFINE l == IF pair[h] + 1 < PAIRS THEN "pack" ELSE "done"
  <2>1. /\ Goto(h, l) /\ pc[h] = "merge" /\ pair' = [pair EXCEPT ![h] = @ + 1]
        /\ UNCHANGED <<xfer, lock, regs, engine>>
    BY <1>9 DEF Merge, At
  <2>2. pair[h] \in 0 .. PAIRS - 1
    BY <1>0, <2>1 DEF PairInv
  <2>3. pair' \in [Hart -> 0 .. PAIRS]
    BY <1>0, <2>1, <2>2
  <2>4. PairInv'
    BY <1>0, <2>1, <2>2 DEF PairInv, Goto
  <2>5. xfer' = [xfer EXCEPT ![h] = xfer[h]] /\ xfer[h] \in {"send", "fetch"}
    BY <1>0, <2>1
  <2>6. l \in PC \ (Programming \cup {"init"}) /\ pc[h] \notin Programming
    BY <2>1 DEF PC, Programming
  <2> HIDE DEF l
  <2> QED  BY <2>1, <2>3, <2>4, <2>5, <2>6, OutsideStep
<1>10. CASE EventFires
  <2>1. /\ UNCHANGED <<pc, xfer, pair, lock, regs>> /\ event' = FALSE
        /\ UNCHANGED <<dma, n, off>> \/ Execute
    BY <1>10 DEF EventFires, harts
  <2>2. dma' \in {"idle", "read", "write"} /\ n' \in {0, Short, Whole} /\ off' = 0
    BY <2>1 DEF Execute, TypeOK
  <2> QED  BY <2>1, <2>2, EngineStep
<1>11. ASSUME NEW h \in Hart, DmaCopy(h) PROVE DmaInv'
  <2>1. UNCHANGED <<pc, xfer, pair, lock, regs, event>>
    BY <1>11 DEF DmaCopy, DmaReadData, DmaReadResult, DmaWriteData, DmaWritePe, harts
  <2>2. NextBlock => dma' = "idle" /\ n' = n /\ off' = off
    BY DEF NextBlock, TypeOK, Short, Whole
  <2>3. ASSUME DmaReadResult(h) PROVE dma' = "write" /\ UNCHANGED <<n, off>>
    <3>1. src + off = src
      <4>1. src \in Int
        BY PlatformAssumption, StackPlace, SMT DEF TypeOK, Sources, Data, stack_size, PeOut, CTSEARCHER_READ_ADDR, Hart
      <4> QED  BY <4>1, SMT DEF TypeOK
    <3>2. Offset(src + off, PE(h)) = CTSEARCHER_RESULT_ADDR
      BY <2>3, <3>1, PeAddress DEF DmaReadResult, TypeOK
    <3> QED  BY <2>3, <3>2 DEF DmaReadResult
  <2>4. dma' \in {"idle", "read", "write"} /\ UNCHANGED <<n, off>>
    BY <1>11, <2>2, <2>3 DEF DmaCopy, DmaReadData, DmaWriteData, DmaWritePe
  <2> QED  BY <2>1, <2>4, EngineStep DEF TypeOK
<1>12. ASSUME NEW h \in Hart, Search(h) PROVE DmaInv'
  BY <1>12, EngineStep DEF Search, harts, engine, TypeOK
<1>13. CASE UNCHANGED vars
  BY <1>13, EngineStep DEF vars, harts, engine, TypeOK
<1> QED
  BY <1>1, <1>2, <1>3, <1>4, <1>5, <1>6, <1>7, <1>8, <1>9, <1>10, <1>11, <1>12, <1>13
     DEF Next, Engine, HartStep

\* While the hart that started a transfer keeps the lock until it is over,
\* a running transfer has such a hart.
LEMMA NextCopyInv ==
  ASSUME PromptTransfer, DmaInv, CopyInv, [Next]_vars
  PROVE  CopyInv'
<1>0. pc \in [Hart -> PC] /\ event \in BOOLEAN
  BY DEF DmaInv, TypeOK
<1>1. ASSUME NEW h \in Hart, SetOp(h) PROVE CopyInv'
  BY <1>0, <1>1, SetSteps DEF Goto, CopyInv, PC, Programming
<1>2. ASSUME NEW h \in Hart, Release(h) PROVE CopyInv'
  BY <1>2 DEF Release, CopyInv, DmaDone, engine
<1>3. ASSUME NEW h \in Hart,
             Pack(h) \/ Acquire(h) \/ SetSrc(h) \/ SetDst(h) \/ SetLen(h) \/ Merge(h)
      PROVE  CopyInv'
  <2>1. pc[h] # "release" /\ UNCHANGED engine /\ \E l : pc' = [pc EXCEPT ![h] = l]
    BY <1>0, <1>3, SetSteps DEF Pack, Acquire, Merge, At, Goto
  <2>2. \A g \in Hart : pc[g] = "release" => pc'[g] = "release"
    BY <1>0, <2>1
  <2> QED  BY <2>1, <2>2 DEF CopyInv, DmaDone, engine
<1>4. CASE InitLock
  <2>1. pc[0] = "init" /\ UNCHANGED engine /\ pc' = [pc EXCEPT ![0] = "pack"]
    BY <1>4 DEF InitLock, At, Goto
  <2>2. \A g \in Hart : pc[g] = "release" => pc'[g] = "release"
    BY <1>0, <2>1
  <2> QED  BY <2>1, <2>2 DEF CopyInv, DmaDone, engine
<1>5. CASE Engine
  BY <1>5 DEF Engine, EventFires, DmaCopy, DmaReadData, DmaReadResult, DmaWriteData,
              DmaWritePe, harts, CopyInv, DmaDone
<1>6. ASSUME NEW h \in Hart, Search(h) PROVE CopyInv'
  BY <1>6 DEF Search, harts, engine, CopyInv, DmaDone
<1>7. CASE UNCHANGED vars
  BY <1>7 DEF vars, harts, engine, CopyInv, DmaDone
<1> QED
  BY <1>1, <1>2, <1>3, <1>4, <1>5, <1>6, <1>7 DEF Next, HartStep

-----------------------------------------------------------------------------

\* The invariant holds for any number of harts and pairs and any timing.
THEOREM Invariant == Spec => []DmaInv
<1>1. Init => DmaInv
  BY InitDmaInv
<1> QED  BY <1>1, NextDmaInv, PTL DEF Spec

\* Type correctness of the accelerator access of main.c and of dma.h.
THEOREM TypeCorrect == Spec => []TypeOK
<1>1. DmaInv => TypeOK
  BY DEF DmaInv
<1> QED  BY <1>1, Invariant, PTL

\* The mutex of main.c admits one hart at a time to the DMA registers, also
\* before hart 0 has initialised it.
THEOREM LockIsExclusive == Spec => []LockExclusive
<1>1. DmaInv => LockExclusive
  BY DEF DmaInv
<1> QED  BY <1>1, Invariant, PTL

\* Whatever the timing of harts and DMA, a hart starts an operation on the
\* source, target and length it has written itself (acc.h).
THEOREM RegistersAreMine == Spec => []RegistersMine
<1>1. DmaInv => RegistersMine
  BY DEF DmaInv, RegsInv, Written, RegistersMine, At
<1> QED  BY <1>1, Invariant, PTL

\* If transfers are over before the lock is released, each runs on the
\* registers of the hart that started it and still holds the lock.
THEOREM TransferIsMine == PromptTransfer /\ Spec => []TransferMine
<1> SUFFICES ASSUME PromptTransfer PROVE Spec => []TransferMine
  OBVIOUS
<1>1. Init => DmaInv /\ CopyInv
  BY InitDmaInv
<1>2. DmaInv /\ CopyInv /\ [Next]_vars => (DmaInv /\ CopyInv)'
  BY NextDmaInv, NextCopyInv
<1>3. DmaInv /\ CopyInv => TransferMine
  BY DEF DmaInv, CopyInv, RegsInv, Written, TransferMine, At
<1> QED  BY <1>1, <1>2, <1>3, PTL DEF Spec

-----------------------------------------------------------------------------
(* The refinement of AccService: with prompt transfers a hart merges with  *)
(* its own indices of this very pair.  A running transfer is that of the   *)
(* hart that holds the lock, on the registers it wrote, and what it        *)
(* carries is determined by how far that hart has come (ServiceInv).       *)

Mine(h) == Area(Points(h, pair[h]), Points(h, pair[h]))

\* The DMA has read the result of PE h and not written it yet.
Carries(h) == dma = "write" /\ src = PeOut(h)

\* The areas and the queues of all harts.
ShapeInv ==
  /\ data = [h \in Hart |-> data[h]]
  /\ inq = [h \in Hart |-> inq[h]]
  /\ outq = [h \in Hart |-> outq[h]]

\* No operation is started while one runs, and it runs on the length stored.
EngineInv ==
  /\ event => dma = "idle" /\ op = OP_MEMCPY
  /\ dma # "idle" => n = len
  /\ \A h \in Hart : dma = "write" /\ src = Data(h) => buffer = data[h]

\* What the data and the PE of hart h hold at each step of AccService.
ServiceInv(h) ==
  /\ Step(h) # "fetch" => inq[h] = <<>> /\ outq[h] = <<>> /\ ~Carries(h)
  /\ Step(h) = "send" => data[h] = Mine(h)
  /\ Step(h) = "fetch" =>
       \/ inq[h] = <<Mine(h)>> /\ outq[h] = <<>> /\ ~Carries(h)
       \/ inq[h] = <<>> /\ outq[h] = <<Indices(Mine(h))>> /\ ~Carries(h)
       \/ inq[h] = <<>> /\ outq[h] = <<>> /\ Carries(h) /\ buffer.head = Indices(Mine(h))
  /\ Step(h) = "merge" => data[h].head = Indices(Mine(h))

AccInv == DmaInv /\ CopyInv /\ ShapeInv /\ EngineInv /\ \A h \in Hart : ServiceInv(h)
-----------------------------------------------------------------------------

LEMMA StepKept ==
  ASSUME NEW g \in Hart, pc'[g] = pc[g], xfer'[g] = xfer[g],
         pc[g] = "release" => (DmaDone' <=> DmaDone)
  PROVE  Step(g)' = Step(g)
BY DEF Step, At

LEMMA Unaffected ==
  ASSUME NEW g \in Hart, ServiceInv(g), Step(g)' = Step(g), pair'[g] = pair[g],
         data'[g] = data[g], inq'[g] = inq[g], outq'[g] = outq[g],
         Carries(g)' <=> Carries(g), Carries(g) => buffer' = buffer
  PROVE  ServiceInv(g)' /\ Undelivered(g)' = Undelivered(g)
<1>1. Mine(g)' = Mine(g)
  BY DEF Mine, Points
<1>2. Indices(Mine(g))' = Indices(Mine(g))
  BY <1>1 DEF Indices
<1>3. ServiceInv(g)'
  BY <1>1, <1>2 DEF ServiceInv
<1> QED  BY <1>3 DEF Undelivered, Carries

\* A transfer that is not over is that of a hart at the end of its section.
LEMMA Running ==
  ASSUME AccInv, ~DmaDone
  PROVE  \E g \in Hart :
           /\ pc[g] = "release" /\ xfer[g] \in {"send", "fetch"} /\ Step(g) = xfer[g]
           /\ src = Source(g) /\ dst = Target(g) /\ len = Length(g)
           /\ \A k \in Hart \ {g} : pc[k] \notin Programming
<1>1. PICK g \in Hart : pc[g] = "release"
  BY DEF AccInv, CopyInv
<1>2. src = Source(g) /\ dst = Target(g) /\ len = Length(g)
  BY <1>1 DEF AccInv, DmaInv, RegsInv, Written
<1>3. \A k \in Hart \ {g} : pc[k] \notin Programming
  BY <1>1 DEF AccInv, DmaInv, LockExclusive, Programming
<1>4. xfer[g] \in {"send", "fetch"}
  BY DEF AccInv, DmaInv, TypeOK
<1>5. Step(g) = xfer[g]
  BY <1>1 DEF Step, At
<1> QED  BY <1>1, <1>2, <1>3, <1>4, <1>5

\* While a hart programs, the DMA is at rest.
LEMMA Quiet ==
  ASSUME AccInv, NEW h \in Hart, pc[h] \in Programming \ {"release"}
  PROVE  DmaDone
BY DEF AccInv, CopyInv, DmaInv, LockExclusive, Programming

\* What a step of hart h leaves as it is.
LEMMA HartLemma ==
  ASSUME AccInv, NEW h \in Hart,
         \A g \in Hart \ {h} : /\ pc'[g] = pc[g] /\ xfer'[g] = xfer[g]
                               /\ pair'[g] = pair[g] /\ data'[g] = data[g],
         data' = [g \in Hart |-> data'[g]],
         UNCHANGED <<dma, n, buffer, inq, outq>>,
         \/ UNCHANGED <<src, len, op, event>>
         \/ /\ pc[h] \in Programming \ {"release"} /\ (event' => op' = OP_MEMCPY),
         data'[h] = data[h] \/ pc[h] \notin Programming
  PROVE  /\ ShapeInv' /\ EngineInv'
         /\ \A g \in Hart \ {h} :
              ServiceInv(g)' /\ Step(g)' = Step(g) /\ Undelivered(g)' = Undelivered(g)
         /\ Carries(h)' <=> Carries(h)
<1>1. ShapeInv'
  BY DEF AccInv, ShapeInv
<1>2. \/ UNCHANGED <<src, len, op, event>>
      \/ /\ dma = "idle" /\ ~event /\ (event' => op' = OP_MEMCPY)
         /\ \A g \in Hart \ {h} : pc[g] \notin Programming
  <2>1. CASE UNCHANGED <<src, len, op, event>>
    BY <2>1
  <2>2. CASE pc[h] \in Programming \ {"release"} /\ (event' => op' = OP_MEMCPY)
    <3>1. DmaDone
      BY <2>2, Quiet
    <3>2. \A g \in Hart \ {h} : pc[g] \notin Programming
      BY <2>2 DEF AccInv, DmaInv, LockExclusive
    <3> QED  BY <2>2, <3>1, <3>2 DEF DmaDone
  <2> QED  BY <2>1, <2>2
<1>3. EngineInv'
  <2>1. (event => dma = "idle" /\ op = OP_MEMCPY)' /\ (dma # "idle" => n = len)'
    BY <1>2 DEF AccInv, EngineInv
  <2>2. ASSUME NEW g \in Hart, dma' = "write", src' = Data(g) PROVE buffer' = data'[g]
    <3>1. dma = "write" /\ src = Data(g) /\ buffer = data[g]
      BY <1>2, <2>2 DEF AccInv, EngineInv
    <3>2. CASE g # h
      BY <3>1, <3>2
    <3>3. CASE g = h /\ pc[h] \notin Programming
      <4>1. PICK k \in Hart : pc[k] = "release" /\ src = Source(k)
        BY <3>1, Running DEF DmaDone
      <4>2. k # h
        BY <3>3, <4>1 DEF Programming
      <4>3. Source(k) \in {Data(k), PeOut(k)}
        BY DEF Source
      <4> QED  BY <3>1, <3>3, <4>1, <4>2, <4>3, AddressesDistinct
    <3>4. CASE data'[h] = data[h]
      BY <3>1, <3>2, <3>4
    <3> QED  BY <3>2, <3>3, <3>4
  <2> QED  BY <2>1, <2>2 DEF EngineInv
<1>4. \A g \in Hart : Carries(g)' <=> Carries(g)
  BY <1>2 DEF Carries
<1>5. ASSUME NEW g \in Hart \ {h}
      PROVE  ServiceInv(g)' /\ Step(g)' = Step(g) /\ Undelivered(g)' = Undelivered(g)
  <2>1. pc[g] = "release" => (DmaDone' <=> DmaDone)
    BY <1>2 DEF DmaDone, Programming
  <2>2. Step(g)' = Step(g)
    BY <2>1, StepKept
  <2>3. ServiceInv(g)
    BY DEF AccInv
  <2> QED  BY <1>4, <2>2, <2>3, Unaffected
<1> QED  BY <1>1, <1>3, <1>4, <1>5
-----------------------------------------------------------------------------
(* Every step of AccDma is one of AccService, or none.                     *)

ServiceStep ==
  /\ ShapeInv' /\ EngineInv' /\ \A g \in Hart : ServiceInv(g)'
  /\ [Abstract!ASNext]_(Abstract!asVars)

LEMMA Stutter ==
  ASSUME UNCHANGED <<pair, inq>>,
         \A g \in Hart : /\ Step(g)' = Step(g) /\ Undelivered(g)' = Undelivered(g)
                         /\ data'[g].head = data[g].head
  PROVE  UNCHANGED Abstract!asVars
<1>1. [g \in Hart |-> Step(g)]' = [g \in Hart |-> Step(g)]
  OBVIOUS
<1>2. [g \in Hart |-> Undelivered(g)]' = [g \in Hart |-> Undelivered(g)]
  OBVIOUS
<1>3. [g \in Hart |-> data[g].head]' = [g \in Hart |-> data[g].head]
  OBVIOUS
<1> QED  BY <1>1, <1>2, <1>3 DEF Abstract!asVars

\* A step of hart h that AccService does not see.
LEMMA SilentHart ==
  ASSUME AccInv, NEW h \in Hart,
         \A g \in Hart \ {h} : pc'[g] = pc[g] /\ xfer'[g] = xfer[g],
         UNCHANGED <<pair, data, dma, n, buffer, inq, outq>>,
         \/ UNCHANGED <<src, len, op, event>>
         \/ /\ pc[h] \in Programming \ {"release"} /\ (event' => op' = OP_MEMCPY),
         Step(h)' = Step(h)
  PROVE  ServiceStep
<1>1. data' = [g \in Hart |-> data'[g]]
  BY DEF AccInv, ShapeInv
<1>2. /\ ShapeInv' /\ EngineInv'
      /\ \A g \in Hart \ {h} :
           ServiceInv(g)' /\ Step(g)' = Step(g) /\ Undelivered(g)' = Undelivered(g)
      /\ Carries(h)' <=> Carries(h)
  BY <1>1, HartLemma
<1>3. ServiceInv(h)' /\ Undelivered(h)' = Undelivered(h)
  <2>1. ServiceInv(h)
    BY DEF AccInv
  <2> QED  BY <1>2, <2>1, Unaffected
<1>4. UNCHANGED Abstract!asVars
  BY <1>2, <1>3, Stutter
<1> QED  BY <1>2, <1>3, <1>4 DEF ServiceStep

LEMMA ServiceInitLock == AccInv /\ InitLock => ServiceStep
<1> SUFFICES ASSUME AccInv, InitLock PROVE ServiceStep
  OBVIOUS
<1>1. 0 \in Hart /\ pc \in [Hart -> PC]
  BY PlatformAssumption DEF Hart, AccInv, DmaInv, TypeOK
<1>2. /\ pc[0] = "init" /\ pc' = [pc EXCEPT ![0] = "pack"]
      /\ UNCHANGED <<xfer, pair, data, src, len, op, event, dma, n, buffer, inq, outq>>
  BY DEF InitLock, At, Goto, regs, engine, pes
<1>3. Step(0)' = Step(0)
  BY <1>1, <1>2 DEF Step
<1> QED  BY <1>1, <1>2, <1>3, SilentHart

LEMMA ServiceAcquire == \A h \in Hart : AccInv /\ Acquire(h) => ServiceStep
<1> SUFFICES ASSUME NEW h \in Hart, AccInv, Acquire(h) PROVE ServiceStep
  OBVIOUS
<1>1. pc \in [Hart -> PC]
  BY DEF AccInv, DmaInv, TypeOK
<1>2. /\ pc[h] = "acquire" /\ pc' = [pc EXCEPT ![h] = "src"]
      /\ UNCHANGED <<xfer, pair, data, src, len, op, event, dma, n, buffer, inq, outq>>
  BY DEF Acquire, At, Goto, regs, engine, pes
<1>3. Step(h)' = Step(h)
  BY <1>1, <1>2 DEF Step, At
<1> QED  BY <1>1, <1>2, <1>3, SilentHart

LEMMA ServiceProgram ==
  \A h \in Hart : AccInv /\ (SetSrc(h) \/ SetDst(h) \/ SetLen(h) \/ SetOp(h)) => ServiceStep
<1> SUFFICES ASSUME NEW h \in Hart, AccInv, SetSrc(h) \/ SetDst(h) \/ SetLen(h) \/ SetOp(h)
             PROVE  ServiceStep
  OBVIOUS
<1>1. pc \in [Hart -> PC] /\ event \in BOOLEAN
  BY DEF AccInv, DmaInv, TypeOK
<1>2. \E l \in Programming :
        /\ pc[h] \in Programming \ {"release"} /\ pc' = [pc EXCEPT ![h] = l]
        /\ l = "release" => event' = TRUE
        /\ UNCHANGED <<xfer, pair, data, dma, n, buffer, inq, outq>>
        /\ UNCHANGED <<op, event>> \/ op' = OP_MEMCPY
  BY <1>1, SetSteps DEF Goto, engine, Programming
<1>3. DmaDone
  BY <1>2, Quiet
<1>4. event' => op' = OP_MEMCPY
  BY <1>2, <1>3 DEF DmaDone
<1>5. Step(h)' = Step(h)
  BY <1>1, <1>2 DEF Step, At, DmaDone, Programming
<1> QED  BY <1>1, <1>2, <1>4, <1>5, SilentHart

LEMMA ServiceRelease ==
  ASSUME PromptTransfer
  PROVE  \A h \in Hart : AccInv /\ Release(h) => ServiceStep
<1> SUFFICES ASSUME NEW h \in Hart, AccInv, Release(h) PROVE ServiceStep
  OBVIOUS
<1>1. pc \in [Hart -> PC] /\ xfer \in [Hart -> {"send", "fetch"}]
  BY DEF AccInv, DmaInv, TypeOK
<1>2. /\ pc[h] = "release" /\ DmaDone
      /\ UNCHANGED <<pair, data, src, len, op, event, dma, n, buffer, inq, outq>>
      /\ \/ /\ xfer[h] = "send" /\ xfer' = [xfer EXCEPT ![h] = "fetch"]
            /\ pc' = [pc EXCEPT ![h] = "acquire"]
         \/ /\ xfer[h] # "send" /\ UNCHANGED xfer /\ pc' = [pc EXCEPT ![h] = "merge"]
  BY DEF Release, At, Goto, regs, engine, pes
<1>3. Step(h)' = Step(h)
  BY <1>1, <1>2 DEF Step, At
<1> QED  BY <1>1, <1>2, <1>3, SilentHart

\* A step of hart h that AccService sees: Pack or Merge.
LEMMA ServicePack == \A h \in Hart : AccInv /\ Pack(h) => ServiceStep
<1> SUFFICES ASSUME NEW h \in Hart, AccInv, Pack(h) PROVE ServiceStep
  OBVIOUS
<1>1. pc \in [Hart -> PC] /\ xfer \in [Hart -> {"send", "fetch"}]
      /\ data = [g \in Hart |-> data[g]]
  BY DEF AccInv, DmaInv, TypeOK, ShapeInv
<1>2. /\ pc[h] = "pack" /\ pc' = [pc EXCEPT ![h] = "acquire"]
      /\ xfer' = [xfer EXCEPT ![h] = "send"]
      /\ data' = [data EXCEPT ![h] = Mine(h)]
      /\ UNCHANGED <<pair, src, len, op, event, dma, n, buffer, inq, outq>>
  BY DEF Pack, At, Goto, regs, engine, pes, Mine
<1>3. Step(h) = "pack" /\ Step(h)' = "send"
  BY <1>1, <1>2 DEF Step, At
<1>4. data' = [g \in Hart |-> data'[g]] /\ data'[h] = Mine(h)
  BY <1>1, <1>2
<1>5. pc[h] \notin Programming
  BY <1>2 DEF Programming
<1>6. \A g \in Hart \ {h} : /\ pc'[g] = pc[g] /\ xfer'[g] = xfer[g]
                            /\ pair'[g] = pair[g] /\ data'[g] = data[g]
  BY <1>1, <1>2
<1>7. /\ ShapeInv' /\ EngineInv'
      /\ \A g \in Hart \ {h} :
           ServiceInv(g)' /\ Step(g)' = Step(g) /\ Undelivered(g)' = Undelivered(g)
      /\ Carries(h)' <=> Carries(h)
  BY <1>2, <1>4, <1>5, <1>6, HartLemma
<1>8. Mine(h)' = Mine(h)
  BY <1>2 DEF Mine, Points
<1>9. inq[h] = <<>> /\ outq[h] = <<>> /\ ~Carries(h)
  BY <1>3 DEF AccInv, ServiceInv
<1>10. ServiceInv(h)'
  BY <1>2, <1>3, <1>4, <1>7, <1>8, <1>9 DEF ServiceInv
<1>11. Undelivered(h)' = Undelivered(h)
  BY <1>2, <1>7 DEF Undelivered, Carries
<1>12. Abstract!Pack(h)
  <2>1. [g \in Hart |-> Step(g)]' = [[g \in Hart |-> Step(g)] EXCEPT ![h] = "send"]
    BY <1>3, <1>7
  <2>2. [g \in Hart |-> data[g].head]'
          = [[g \in Hart |-> data[g].head] EXCEPT ![h] = Points(h, pair[h])]
    <3>1. data'[h].head = Points(h, pair[h])
      BY <1>4 DEF Mine, Area
    <3> QED  BY <1>6, <3>1
  <2>3. [g \in Hart |-> Undelivered(g)]' = [g \in Hart |-> Undelivered(g)]
    BY <1>7, <1>11
  <2> QED  BY <1>2, <1>3, <2>1, <2>2, <2>3
           DEF Abstract!Pack, Abstract!To, Abstract!Points, Points
<1> QED  BY <1>7, <1>10, <1>12 DEF ServiceStep, Abstract!ASNext, Abstract!Advance

LEMMA ServiceMerge == \A h \in Hart : AccInv /\ Merge(h) => ServiceStep
<1> SUFFICES ASSUME NEW h \in Hart, AccInv, Merge(h) PROVE ServiceStep
  OBVIOUS
<1> DEFINE l == IF pair[h] + 1 < PAIRS THEN "pack" ELSE "done"
<1>1. pc \in [Hart -> PC] /\ pair \in [Hart -> 0 .. PAIRS] /\ data = [g \in Hart |-> data[g]]
  BY DEF AccInv, DmaInv, TypeOK, ShapeInv
<1>2. /\ pc[h] = "merge" /\ pc' = [pc EXCEPT ![h] = l]
      /\ pair' = [pair EXCEPT ![h] = @ + 1]
      /\ UNCHANGED <<xfer, data, src, len, op, event, dma, n, buffer, inq, outq>>
  BY DEF Merge, At, Goto, regs, engine, pes
<1>3. Step(h) = "merge" /\ Step(h)' = l
  BY <1>1, <1>2 DEF Step
<1>4. \A g \in Hart \ {h} : /\ pc'[g] = pc[g] /\ xfer'[g] = xfer[g]
                            /\ pair'[g] = pair[g] /\ data'[g] = data[g]
  BY <1>1, <1>2
<1>5. data' = [g \in Hart |-> data'[g]]
  BY <1>1, <1>2
<1>6. /\ ShapeInv' /\ EngineInv'
      /\ \A g \in Hart \ {h} :
           ServiceInv(g)' /\ Step(g)' = Step(g) /\ Undelivered(g)' = Undelivered(g)
      /\ Carries(h)' <=> Carries(h)
  BY <1>2, <1>4, <1>5, HartLemma
<1>7. inq[h] = <<>> /\ outq[h] = <<>> /\ ~Carries(h)
  BY <1>3 DEF AccInv, ServiceInv
<1>8. ServiceInv(h)'
  BY <1>2, <1>3, <1>6, <1>7 DEF ServiceInv
<1>9. Undelivered(h)' = Undelivered(h)
  BY <1>2, <1>6 DEF Undelivered, Carries
<1>10. Abstract!Merge(h)
  <2>1. [g \in Hart |-> Step(g)]' = [[g \in Hart |-> Step(g)] EXCEPT ![h] = l]
    BY <1>3, <1>6
  <2>2. [g \in Hart |-> data[g].head]' = [g \in Hart |-> data[g].head]
    BY <1>2
  <2>3. [g \in Hart |-> Undelivered(g)]' = [g \in Hart |-> Undelivered(g)]
    BY <1>6, <1>9
  <2> QED  BY <1>2, <1>3, <2>1, <2>2, <2>3 DEF Abstract!Merge, Abstract!To
<1> QED  BY <1>6, <1>8, <1>10 DEF ServiceStep, Abstract!ASNext, Abstract!Advance
-----------------------------------------------------------------------------
(* The steps of the DMA and of the searchers.                              *)

\* What a step of the DMA thread leaves as it is, for the hart g it is not
\* working for.
LEMMA EngineOther ==
  ASSUME AccInv, NEW g \in Hart, UNCHANGED <<pc, xfer, pair>>,
         pc[g] \notin Programming, data'[g] = data[g], inq'[g] = inq[g], outq'[g] = outq[g],
         ~Carries(g), ~Carries(g)'
  PROVE  ServiceInv(g)' /\ Step(g)' = Step(g) /\ Undelivered(g)' = Undelivered(g)
<1>1. Step(g)' = Step(g)
  BY StepKept DEF Programming
<1>2. ServiceInv(g)
  BY DEF AccInv
<1> QED  BY <1>1, <1>2, Unaffected

LEMMA ServiceEvent == AccInv /\ EventFires => ServiceStep
<1> SUFFICES ASSUME AccInv, EventFires PROVE ServiceStep
  OBVIOUS
<1>1. /\ event /\ event' = FALSE /\ dma = "idle" /\ dma' = "read" /\ n' = len
      /\ UNCHANGED <<pc, xfer, pair, data, src, len, buffer, inq, outq>>
  <2>1. dma = "idle" /\ op = OP_MEMCPY
    BY DEF EventFires, AccInv, EngineInv
  <2> QED  BY <2>1 DEF EventFires, Execute, harts, regs, pes, OP_MEMCPY, OP_NOP
<1>2. ShapeInv' /\ EngineInv'
  BY <1>1 DEF AccInv, ShapeInv, EngineInv
<1>3. ASSUME NEW g \in Hart
      PROVE  ServiceInv(g)' /\ Step(g)' = Step(g) /\ Undelivered(g)' = Undelivered(g)
  <2>1. Step(g)' = Step(g)
    BY <1>1, StepKept DEF DmaDone
  <2>2. ServiceInv(g) /\ ~Carries(g) /\ ~Carries(g)'
    BY <1>1 DEF AccInv, Carries
  <2> QED  BY <1>1, <2>1, <2>2, Unaffected
<1>4. UNCHANGED Abstract!asVars
  BY <1>1, <1>3, Stutter
<1> QED  BY <1>2, <1>3, <1>4 DEF ServiceStep

LEMMA ServiceReadData == \A h \in Hart : AccInv /\ DmaReadData(h) => ServiceStep
<1> SUFFICES ASSUME NEW h \in Hart, AccInv, DmaReadData(h) PROVE ServiceStep
  OBVIOUS
<1>1. PICK g \in Hart :
        /\ pc[g] = "release" /\ xfer[g] \in {"send", "fetch"} /\ Step(g) = xfer[g]
        /\ src = Source(g) /\ dst = Target(g) /\ len = Length(g)
        /\ \A k \in Hart \ {g} : pc[k] \notin Programming
  BY Running DEF DmaReadData, DmaDone
<1>2. src = Data(h) /\ off = 0
  <2>1. src + off = Data(h) /\ off = 0 /\ src \in Sources
    BY DEF DmaReadData, AccInv, DmaInv, TypeOK
  <2>2. src \in Int
    BY <2>1, PlatformAssumption, StackPlace, SMT DEF Sources, Data, stack_size, PeOut, CTSEARCHER_READ_ADDR, Hart
  <2> QED  BY <2>1, <2>2, SMT
<1>3. g = h /\ xfer[h] = "send"
  BY <1>1, <1>2, AddressesDistinct DEF Source
<1>4. /\ dma = "read" /\ dma' = "write" /\ n = Whole /\ event' = event
      /\ UNCHANGED <<pc, xfer, pair, data, src, len, op, n, inq, outq>>
      /\ buffer' = Overlay(buffer, data[h])
  BY <1>1, <1>3 DEF DmaReadData, harts, regs, pes, AccInv, EngineInv, Length
<1>5. buffer' = data[h]
  BY <1>4, SMT DEF Overlay, Whole
<1>6. ShapeInv' /\ EngineInv'
  <2>1. ShapeInv'
    BY <1>4 DEF AccInv, ShapeInv
  <2>2. \A k \in Hart : src' = Data(k) => k = h
    BY <1>2, <1>4, AddressesDistinct
  <2> QED  BY <1>4, <1>5, <2>1, <2>2 DEF AccInv, EngineInv
<1>7. ASSUME NEW k \in Hart
      PROVE  ServiceInv(k)' /\ Step(k)' = Step(k) /\ Undelivered(k)' = Undelivered(k)
  <2>1. Step(k)' = Step(k)
    BY <1>4, StepKept DEF DmaDone
  <2>2. ~Carries(k) /\ ~Carries(k)'
    BY <1>2, <1>4, AddressesDistinct DEF Carries
  <2>3. ServiceInv(k)
    BY DEF AccInv
  <2> QED  BY <1>4, <2>1, <2>2, <2>3, Unaffected
<1>8. UNCHANGED Abstract!asVars
  BY <1>4, <1>7, Stutter
<1> QED  BY <1>6, <1>7, <1>8 DEF ServiceStep

LEMMA ServiceReadResult == \A h \in Hart : AccInv /\ DmaReadResult(h) => ServiceStep
<1> SUFFICES ASSUME NEW h \in Hart, AccInv, DmaReadResult(h) PROVE ServiceStep
  OBVIOUS
<1>1. PICK g \in Hart :
        /\ pc[g] = "release" /\ xfer[g] \in {"send", "fetch"} /\ Step(g) = xfer[g]
        /\ src = Source(g) /\ dst = Target(g) /\ len = Length(g)
        /\ \A k \in Hart \ {g} : pc[k] \notin Programming
  BY Running DEF DmaReadResult, DmaDone
<1>2. src + off = src /\ src \in Sources
  <2>1. off = 0 /\ src \in Sources
    BY DEF AccInv, DmaInv, TypeOK
  <2>2. src \in Int
    BY <2>1, PlatformAssumption, StackPlace, SMT DEF Sources, Data, stack_size, PeOut, CTSEARCHER_READ_ADDR, Hart
  <2> QED  BY <2>1, <2>2, SMT
<1>3. src = PeOut(h) /\ Offset(src, PE(h)) = CTSEARCHER_RESULT_ADDR
  BY <1>2, PeAddress DEF DmaReadResult
<1>4. g = h /\ xfer[h] = "fetch"
  BY <1>1, <1>3, AddressesDistinct DEF Source
<1>5. /\ dma = "read" /\ dma' = "write" /\ outq[h] # <<>>
      /\ buffer'.head = Head(outq[h]) /\ outq' = [outq EXCEPT ![h] = Tail(@)]
      /\ UNCHANGED <<pc, xfer, pair, data, src, len, op, n, event, inq>>
  BY <1>2, <1>3 DEF DmaReadResult, harts, regs, Area
<1>6. outq = [k \in Hart |-> outq[k]]
  BY DEF AccInv, ShapeInv
<1>7. ~Carries(h) /\ inq[h] = <<>> /\ outq[h] = <<Indices(Mine(h))>>
  BY <1>1, <1>4, <1>5 DEF AccInv, ServiceInv, Carries
<1>8. buffer'.head = Indices(Mine(h)) /\ outq'[h] = <<>> /\ Carries(h)'
  <2>1. Carries(h)'
    BY <1>3, <1>5 DEF Carries
  <2>2. Head(outq[h]) = Indices(Mine(h)) /\ Tail(outq[h]) = <<>>
    BY <1>7
  <2> QED  BY <1>5, <1>6, <2>1, <2>2
<1>9. ShapeInv' /\ EngineInv'
  <2>1. ShapeInv'
    BY <1>5, <1>6 DEF AccInv, ShapeInv
  <2>2. \A k \in Hart : src' # Data(k)
    BY <1>3, <1>5, AddressesDistinct
  <2> QED  BY <1>5, <2>1, <2>2 DEF AccInv, EngineInv
<1>10. Step(h)' = Step(h) /\ Mine(h)' = Mine(h)
  BY <1>5, StepKept DEF DmaDone, Mine, Points
<1>11. ServiceInv(h)'
  <2>1. Indices(Mine(h))' = Indices(Mine(h))
    BY <1>10 DEF Indices
  <2> QED  BY <1>1, <1>4, <1>5, <1>7, <1>8, <1>10, <2>1 DEF ServiceInv
<1>12. Undelivered(h)' = Undelivered(h)
  <2>1. Undelivered(h) = outq[h]
    BY <1>7 DEF Undelivered, Carries
  <2>2. Undelivered(h)' = <<buffer'.head>> \o outq'[h]
    BY <1>8 DEF Undelivered, Carries
  <2>3. <<Indices(Mine(h))>> \o <<>> = <<Indices(Mine(h))>>
    OBVIOUS
  <2> QED  BY <1>7, <1>8, <2>1, <2>2, <2>3
<1>13. ASSUME NEW k \in Hart \ {h}
       PROVE  ServiceInv(k)' /\ Step(k)' = Step(k) /\ Undelivered(k)' = Undelivered(k)
  <2>1. ~Carries(k) /\ ~Carries(k)'
    BY <1>3, <1>5, AddressesDistinct DEF Carries
  <2>2. outq'[k] = outq[k] /\ pc[k] \notin Programming
    BY <1>1, <1>4, <1>5, <1>6
  <2> QED  BY <1>5, <2>1, <2>2, EngineOther
<1>14. UNCHANGED Abstract!asVars
  BY <1>5, <1>10, <1>12, <1>13, Stutter
<1> QED  BY <1>9, <1>11, <1>13, <1>14 DEF ServiceStep
LEMMA ServiceWriteData == \A h \in Hart : AccInv /\ DmaWriteData(h) => ServiceStep
<1> SUFFICES ASSUME NEW h \in Hart, AccInv, DmaWriteData(h) PROVE ServiceStep
  OBVIOUS
<1>1. PICK g \in Hart :
        /\ pc[g] = "release" /\ xfer[g] \in {"send", "fetch"} /\ Step(g) = xfer[g]
        /\ src = Source(g) /\ dst = Target(g) /\ len = Length(g)
        /\ \A k \in Hart \ {g} : pc[k] \notin Programming
  BY Running DEF DmaWriteData, DmaDone
<1>2. dst = Data(h) /\ off = 0
  <2>1. dst + off = Data(h) /\ off = 0 /\ dst \in Targets
    BY DEF DmaWriteData, AccInv, DmaInv, TypeOK
  <2>2. dst \in Int
    BY <2>1, PlatformAssumption, StackPlace, SMT DEF Targets, Data, stack_size, PeIn, CTSEARCHER_START_ADDR, Hart
  <2> QED  BY <2>1, <2>2, SMT
<1>3. g = h /\ xfer[h] = "fetch" /\ src = PeOut(h)
  BY <1>1, <1>2, AddressesDistinct DEF Target, Source
<1>4. dma = "write" /\ n = Short /\ ~event
  BY <1>1, <1>3 DEF DmaWriteData, AccInv, EngineInv, Length
<1>5. /\ dma' = "idle" /\ event' = event
      /\ UNCHANGED <<pc, xfer, pair, src, len, op, n, buffer, inq, outq>>
      /\ data' = [data EXCEPT ![h] = Area(buffer.head, @.tail)]
  BY <1>4, SMT DEF DmaWriteData, NextBlock, Overlay, regs, pes, Short, Whole
<1>6. data = [k \in Hart |-> data[k]]
  BY DEF AccInv, ShapeInv
<1>7. Carries(h) /\ inq[h] = <<>> /\ outq[h] = <<>> /\ buffer.head = Indices(Mine(h))
  <2>1. Carries(h)
    BY <1>3, <1>4 DEF Carries
  <2> QED  BY <1>1, <1>3, <2>1 DEF AccInv, ServiceInv
<1>8. /\ data'[h].head = Indices(Mine(h)) /\ \A k \in Hart \ {h} : data'[k] = data[k]
      /\ data' = [k \in Hart |-> data'[k]]
  <2>1. data'[h] = Area(buffer.head, data[h].tail)
    BY <1>5, <1>6
  <2>2. data'[h].head = buffer.head
    BY <2>1 DEF Area
  <2> QED  BY <1>5, <1>6, <1>7, <2>2
<1>9. ShapeInv' /\ EngineInv'
  BY <1>4, <1>5, <1>8 DEF AccInv, ShapeInv, EngineInv
<1>10. Step(h) = "fetch" /\ Step(h)' = "merge" /\ Mine(h)' = Mine(h)
  BY <1>1, <1>3, <1>4, <1>5 DEF Step, At, DmaDone, Mine, Points
<1>11. ServiceInv(h)'
  <2>1. Indices(Mine(h))' = Indices(Mine(h)) /\ ~Carries(h)'
    BY <1>5, <1>10 DEF Indices, Carries
  <2> QED  BY <1>5, <1>7, <1>8, <1>10, <2>1 DEF ServiceInv
<1>12. Undelivered(h) = <<Indices(Mine(h))>> /\ Undelivered(h)' = <<>>
  <2>1. Undelivered(h) = <<buffer.head>> \o outq[h]
    BY <1>7 DEF Undelivered, Carries
  <2>2. <<Indices(Mine(h))>> \o <<>> = <<Indices(Mine(h))>>
    OBVIOUS
  <2>3. Undelivered(h)' = outq'[h]
    BY <1>5 DEF Undelivered
  <2> QED  BY <1>5, <1>7, <2>1, <2>2, <2>3
<1>13. ASSUME NEW k \in Hart \ {h}
       PROVE  ServiceInv(k)' /\ Step(k)' = Step(k) /\ Undelivered(k)' = Undelivered(k)
  <2>1. ~Carries(k) /\ ~Carries(k)'
    BY <1>3, <1>5, AddressesDistinct DEF Carries
  <2>2. pc[k] \notin Programming
    BY <1>1, <1>3
  <2> QED  BY <1>5, <1>8, <2>1, <2>2, EngineOther
<1>14. Abstract!Fetch(h)
  <2>1. [k \in Hart |-> Step(k)]' = [[k \in Hart |-> Step(k)] EXCEPT ![h] = "merge"]
    BY <1>10, <1>13
  <2>2. Head(Undelivered(h)) = Indices(Mine(h)) /\ Tail(Undelivered(h)) = <<>>
        /\ Undelivered(h) # <<>>
    BY <1>12
  <2>3. [k \in Hart |-> data[k].head]'
          = [[k \in Hart |-> data[k].head] EXCEPT ![h] = Indices(Mine(h))]
    BY <1>8
  <2>4. [k \in Hart |-> Undelivered(k)]' = [[k \in Hart |-> Undelivered(k)] EXCEPT ![h] = <<>>]
    BY <1>12, <1>13
  <2> QED  BY <1>5, <1>10, <2>1, <2>2, <2>3, <2>4 DEF Abstract!Fetch, Abstract!To
<1> QED  BY <1>9, <1>11, <1>13, <1>14 DEF ServiceStep, Abstract!ASNext, Abstract!Advance

LEMMA ServiceWritePe == \A h \in Hart : AccInv /\ DmaWritePe(h) => ServiceStep
<1> SUFFICES ASSUME NEW h \in Hart, AccInv, DmaWritePe(h) PROVE ServiceStep
  OBVIOUS
<1>1. PICK g \in Hart :
        /\ pc[g] = "release" /\ xfer[g] \in {"send", "fetch"} /\ Step(g) = xfer[g]
        /\ src = Source(g) /\ dst = Target(g) /\ len = Length(g)
        /\ \A k \in Hart \ {g} : pc[k] \notin Programming
  BY Running DEF DmaWritePe, DmaDone
<1>2. dst + off = dst /\ dst \in Targets
  <2>1. off = 0 /\ dst \in Targets
    BY DEF AccInv, DmaInv, TypeOK
  <2>2. dst \in Int
    BY <2>1, PlatformAssumption, StackPlace, SMT DEF Targets, Data, stack_size, PeIn, CTSEARCHER_START_ADDR, Hart
  <2> QED  BY <2>1, <2>2, SMT
<1>3. dst = PeIn(h) /\ Offset(dst, PE(h)) = CTSEARCHER_R_ADDR
  BY <1>2, PeAddress DEF DmaWritePe
<1>4. g = h /\ xfer[h] = "send" /\ src = Data(h)
  BY <1>1, <1>3, AddressesDistinct DEF Target, Source
<1>5. dma = "write" /\ n = Whole /\ ~event
  BY <1>1, <1>4 DEF DmaWritePe, AccInv, EngineInv, Length
<1>6. /\ dma' = "idle" /\ event' = event
      /\ UNCHANGED <<pc, xfer, pair, data, src, len, op, n, buffer, outq>>
      /\ inq' = [inq EXCEPT ![h] = Append(@, buffer)]
  <2>1. NextBlock => dma' = "idle" /\ n' = n
    BY <1>5, SMT DEF NextBlock, Whole
  <2> QED  BY <1>2, <1>3, <2>1 DEF DmaWritePe, harts, regs
<1>7. inq = [k \in Hart |-> inq[k]]
  BY DEF AccInv, ShapeInv
<1>8. inq[h] = <<>> /\ outq[h] = <<>> /\ buffer = Mine(h)
  BY <1>1, <1>4, <1>5 DEF AccInv, ServiceInv, EngineInv
<1>9. inq'[h] = <<Mine(h)>> /\ inq' = [inq EXCEPT ![h] = Append(@, Mine(h))]
  BY <1>6, <1>7, <1>8
<1>10. ShapeInv' /\ EngineInv'
  BY <1>5, <1>6, <1>7 DEF AccInv, ShapeInv, EngineInv
<1>11. Step(h) = "send" /\ Step(h)' = "fetch" /\ Mine(h)' = Mine(h) /\ ~Carries(h)'
  BY <1>1, <1>4, <1>5, <1>6 DEF Step, At, DmaDone, Mine, Points, Carries
<1>12. ServiceInv(h)'
  <2>1. data'[h] = Mine(h)
    BY <1>6, <1>11 DEF AccInv, ServiceInv
  <2> QED  BY <1>6, <1>8, <1>9, <1>11, <2>1 DEF ServiceInv
<1>13. Undelivered(h)' = Undelivered(h)
  BY <1>4, <1>6, AddressesDistinct DEF Undelivered
<1>14. ASSUME NEW k \in Hart \ {h}
       PROVE  ServiceInv(k)' /\ Step(k)' = Step(k) /\ Undelivered(k)' = Undelivered(k)
  <2>1. ~Carries(k) /\ ~Carries(k)'
    BY <1>4, <1>6, AddressesDistinct DEF Carries
  <2>2. pc[k] \notin Programming /\ inq'[k] = inq[k]
    BY <1>1, <1>4, <1>6, <1>7
  <2> QED  BY <1>6, <2>1, <2>2, EngineOther
<1>15. Abstract!Send(h)
  <2>1. [k \in Hart |-> Step(k)]' = [[k \in Hart |-> Step(k)] EXCEPT ![h] = "fetch"]
    BY <1>11, <1>14
  <2>2. [k \in Hart |-> data[k].head]' = [k \in Hart |-> data[k].head]
    BY <1>6
  <2>3. [k \in Hart |-> Undelivered(k)]' = [k \in Hart |-> Undelivered(k)]
    BY <1>13, <1>14
  <2>4. Abstract!Request(h) = Mine(h)
    BY DEF Abstract!Request, Abstract!Points, Mine, Area, Points
  <2> QED  BY <1>6, <1>9, <1>11, <2>1, <2>2, <2>3, <2>4 DEF Abstract!Send, Abstract!To
<1> QED  BY <1>10, <1>12, <1>14, <1>15 DEF ServiceStep, Abstract!ASNext, Abstract!Advance

LEMMA ServiceSearch == \A h \in Hart : AccInv /\ Search(h) => ServiceStep
<1> SUFFICES ASSUME NEW h \in Hart, AccInv, Search(h) PROVE ServiceStep
  OBVIOUS
<1>1. /\ inq[h] # <<>> /\ inq' = [inq EXCEPT ![h] = Tail(@)]
      /\ outq' = [outq EXCEPT ![h] = Append(@, Indices(Head(inq[h])))]
      /\ UNCHANGED <<pc, xfer, pair, data, src, len, op, event, dma, n, buffer>>
  BY DEF Search, harts, regs, engine
<1>2. inq = [k \in Hart |-> inq[k]] /\ outq = [k \in Hart |-> outq[k]]
  BY DEF AccInv, ShapeInv
<1>3. Step(h) = "fetch" /\ inq[h] = <<Mine(h)>> /\ outq[h] = <<>> /\ ~Carries(h)
  BY <1>1 DEF AccInv, ServiceInv
<1>4. inq'[h] = <<>> /\ outq'[h] = <<Indices(Mine(h))>>
  BY <1>1, <1>2, <1>3
<1>5. ShapeInv' /\ EngineInv'
  BY <1>1, <1>2 DEF AccInv, ShapeInv, EngineInv
<1>6. \A k \in Hart : Step(k)' = Step(k) /\ (Carries(k)' <=> Carries(k))
  BY <1>1, StepKept DEF DmaDone, Carries
<1>7. ServiceInv(h)'
  <2>1. Mine(h)' = Mine(h) /\ Indices(Mine(h))' = Indices(Mine(h))
    BY <1>1 DEF Mine, Points, Indices
  <2> QED  BY <1>3, <1>4, <1>6, <2>1 DEF ServiceInv, AccInv
<1>8. Undelivered(h) = <<>> /\ Undelivered(h)' = <<Indices(Mine(h))>>
  BY <1>3, <1>4, <1>6 DEF Undelivered, Carries
<1>9. ASSUME NEW k \in Hart \ {h}
      PROVE  ServiceInv(k)' /\ Undelivered(k)' = Undelivered(k)
  <2>1. inq'[k] = inq[k] /\ outq'[k] = outq[k] /\ ServiceInv(k)
    BY <1>1, <1>2 DEF AccInv
  <2> QED  BY <1>1, <1>6, <2>1, Unaffected
<1>10. Abstract!Search(h)
  <2>1. [k \in Hart |-> Step(k)]' = [k \in Hart |-> Step(k)]
    BY <1>6
  <2>2. [k \in Hart |-> data[k].head]' = [k \in Hart |-> data[k].head]
    BY <1>1
  <2>3. Append(Undelivered(h), Indices(Mine(h))) = <<Indices(Mine(h))>> /\ Head(inq[h]) = Mine(h)
    BY <1>3, <1>8
  <2>4. [k \in Hart |-> Undelivered(k)]'
          = [[k \in Hart |-> Undelivered(k)] EXCEPT ![h] = Append(@, Indices(Mine(h)))]
    BY <1>8, <1>9, <2>3
  <2> QED  BY <1>1, <2>1, <2>2, <2>3, <2>4
           DEF Abstract!Search, Abstract!Indices, Indices
<1> QED  BY <1>5, <1>7, <1>9, <1>10 DEF ServiceStep, Abstract!ASNext

-----------------------------------------------------------------------------

LEMMA InitAccInv == Init => AccInv /\ Abstract!ASInit
<1> SUFFICES ASSUME Init PROVE AccInv /\ Abstract!ASInit
  OBVIOUS
<1>1. \A h \in Hart : Step(h) = "pack" /\ inq[h] = <<>> /\ outq[h] = <<>> /\ ~Carries(h)
  BY DEF Init, Step, Carries
<1>2. \A h \in Hart : ServiceInv(h)
  BY <1>1 DEF ServiceInv
<1>3. ShapeInv /\ EngineInv
  BY DEF Init, ShapeInv, EngineInv
<1>4. AccInv
  BY <1>2, <1>3, InitDmaInv DEF AccInv
<1>5. [h \in Hart |-> data[h].head] = [h \in Hart |-> <<"none">>]
  BY DEF Init, Area, Unset
<1>6. \A h \in Hart : Undelivered(h) = <<>>
  BY <1>1 DEF Undelivered, Carries
<1>7. Abstract!ASInit
  BY <1>1, <1>5, <1>6 DEF Init, Abstract!ASInit
<1> QED  BY <1>4, <1>7

LEMMA NextAccInv ==
  ASSUME PromptTransfer
  PROVE  AccInv /\ [Next]_vars => AccInv' /\ [Abstract!ASNext]_(Abstract!asVars)
<1> SUFFICES ASSUME AccInv, [Next]_vars
             PROVE  AccInv' /\ [Abstract!ASNext]_(Abstract!asVars)
  OBVIOUS
<1>1. CASE Next
  <2>1. ServiceStep
    BY <1>1, ServiceInitLock, ServicePack, ServiceAcquire, ServiceProgram, ServiceRelease,
       ServiceMerge, ServiceEvent, ServiceReadData, ServiceReadResult, ServiceWriteData,
       ServiceWritePe, ServiceSearch DEF Next, Engine, HartStep, DmaCopy
  <2> QED  BY <2>1, NextDmaInv, NextCopyInv DEF ServiceStep, AccInv
<1>2. CASE UNCHANGED vars
  <2>1. UNCHANGED <<pc, xfer, pair, data, src, len, op, event, dma, n, buffer, inq, outq>>
    BY <1>2 DEF vars, harts, regs, engine, pes
  <2>2. 0 \in Hart /\ Step(0)' = Step(0)
    BY <2>1, PlatformAssumption, StepKept DEF Hart, DmaDone
  <2>3. ServiceStep
    BY <2>1, <2>2, SilentHart
  <2> QED  BY <2>3, NextDmaInv, NextCopyInv DEF ServiceStep, AccInv
<1> QED  BY <1>1, <1>2

LEMMA AccInvariant == PromptTransfer /\ Spec => []AccInv
<1> SUFFICES ASSUME PromptTransfer PROVE Spec => []AccInv
  OBVIOUS
<1>1. Init => AccInv
  BY InitAccInv
<1>2. AccInv /\ [Next]_vars => AccInv'
  BY NextAccInv
<1> QED  BY <1>1, <1>2, PTL DEF Spec

\* If transfers are over before the lock is released, a hart merges with the
\* indices its own searcher has found for this very pair (main.c, after
\* read_data_from_ACC).
THEOREM IndicesAreFresh == PromptTransfer /\ Spec => []FreshIndices
<1>1. AccInv => FreshIndices
  BY DEF AccInv, ServiceInv, Step, Mine, FreshIndices, At
<1> QED  BY <1>1, AccInvariant, PTL

\* Then a searcher has one request or one result at most, and the DMA thread
\* never blocks on a result register nobody will fill (dma.h, run).
THEOREM OneIsOutstanding == PromptTransfer /\ Spec => []OneOutstanding
<1>1. ASSUME AccInv, NEW h \in Hart
      PROVE  /\ Len(inq[h]) + Len(outq[h]) <= 1
             /\ dma = "read" /\ src = PeOut(h) => Len(inq[h]) + Len(outq[h]) = 1
  <2>1. \/ inq[h] = <<>> /\ outq[h] = <<>> /\ (Step(h) = "fetch" => Carries(h))
        \/ inq[h] = <<Mine(h)>> /\ outq[h] = <<>>
        \/ inq[h] = <<>> /\ outq[h] = <<Indices(Mine(h))>>
    BY <1>1 DEF AccInv, ServiceInv
  <2>2. dma = "read" /\ src = PeOut(h) => Step(h) = "fetch"
    <3> SUFFICES ASSUME dma = "read", src = PeOut(h) PROVE Step(h) = "fetch"
      OBVIOUS
    <3>1. PICK g \in Hart : src = Source(g) /\ Step(g) = xfer[g] /\ xfer[g] \in {"send", "fetch"}
      BY <1>1, Running DEF DmaDone
    <3> QED  BY <3>1, AddressesDistinct DEF Source
  <2>3. CASE inq[h] = <<>> /\ outq[h] = <<>> /\ (Step(h) = "fetch" => Carries(h))
    BY <2>2, <2>3 DEF Carries
  <2>4. CASE inq[h] = <<Mine(h)>> /\ outq[h] = <<>>
    BY <2>4
  <2>5. CASE inq[h] = <<>> /\ outq[h] = <<Indices(Mine(h))>>
    BY <2>5
  <2> QED  BY <2>1, <2>3, <2>4, <2>5
<1>2. AccInv => OneOutstanding
  BY <1>1 DEF OneOutstanding
<1> QED  BY <1>2, AccInvariant, PTL

\* Then lock, registers, event, DMA and searchers together do nothing a direct
\* exchange between hart and searcher would not do: AccDma implements the
\* safety part of AccService.
THEOREM ServiceIsSafe == PromptTransfer /\ Spec => Abstract!ASSafety
<1> SUFFICES ASSUME PromptTransfer PROVE Spec => Abstract!ASSafety
  OBVIOUS
<1>1. Init => Abstract!ASInit
  BY InitAccInv
<1>2. AccInv /\ [Next]_vars => [Abstract!ASNext]_(Abstract!asVars)
  BY NextAccInv
<1> QED  BY <1>1, <1>2, AccInvariant, PTL DEF Spec, Abstract!ASSafety
=============================================================================
