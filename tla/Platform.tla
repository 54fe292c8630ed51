------------------------------ MODULE Platform ------------------------------
(***************************************************************************)
(* The address map, which is kept in three places: the ports of the bus in *)
(* mc_main.cpp, the addresses the software computes in acc.h and main.c,   *)
(* and the register offsets in dma.h and Utility.h.  All addresses are     *)
(* those of the source; the one it leaves to the tools is a parameter.     *)
(***************************************************************************)
EXTENDS Integers

CONSTANTS
  CORES,        \* the cores, and as many tangent searchers (5)
  stack0_data   \* the address of the array data of hart 0: a place in its
                \* stack that linker and compiler choose

Hart == 0 .. CORES - 1

-----------------------------------------------------------------------------
(* The bus.                                                                *)

mem_start_addr         == 0
mem_size               == 33554432       \* 32 MB
clint_start_addr       == 33554432       \* 0x02000000
sys_start_addr         == 33619968       \* 0x02010000
plic_start_addr        == 1073741824     \* 0x40000000
dma_start_addr         == 1879048192     \* 0x70000000
ctSearcher0_start_addr == 1929379840     \* 0x73000000
\* Mutant: twice as large, so that each window covers the next one.
MctSearcher_size       == 33554432
ctSearcher_size        == 16777216       \* 0x01000000

stack_size             == 32768

\* The last window ends within 32 bits; the stacks lie in memory, behind the
\* code.
ASSUME PlatformAssumption ==
  /\ CORES \in 1 .. 140
  /\ stack0_data \in 1 .. mem_size - CORES * stack_size

Region(lo, size) == [lo |-> lo, hi |-> lo + size - 1]

\* The ports in their order; those of the searchers follow.
Fixed ==
  <<Region(mem_start_addr, mem_size), Region(clint_start_addr, 65536),
    Region(plic_start_addr, 16777217), Region(dma_start_addr, 4097),
    Region(sys_start_addr, 1024)>>

MEM   == 0
DMA   == 3
PE(h) == 5 + h
Port  == 0 .. PE(CORES - 1)

PortMapping(port) ==
  IF port < PE(0) THEN Fixed[port + 1]
  ELSE Region(ctSearcher0_start_addr + (port - PE(0)) * 16777216, ctSearcher_size)

Maps(port, address) == PortMapping(port).lo <= address /\ address <= PortMapping(port).hi

\* The bus takes the first port that maps the address, and passes on the
\* offset into its window.
Selects(address, port) ==
  Maps(port, address) /\ \A other \in Port : other < port => ~Maps(other, address)

Offset(address, port) == address - PortMapping(port).lo

-----------------------------------------------------------------------------
(* The software.                                                           *)

DMA_SRC_ADDR == 1879048192               \* 0x70000000
DMA_DST_ADDR == 1879048196
DMA_LEN_ADDR == 1879048200
DMA_OP_ADDR  == 1879048204

CTSEARCHER_START_ADDR == 1929379840      \* 0x73000000
CTSEARCHER_READ_ADDR  == 1929379844

PeIn(h)  == CTSEARCHER_START_ADDR + h * 16777216
PeOut(h) == CTSEARCHER_READ_ADDR + h * 16777216

\* The array data of main: at the same place in the stack of each hart, and
\* bootstrap.S lays the stacks out one behind the other.
Data(h) == stack0_data + h * stack_size

-----------------------------------------------------------------------------
(* The registers.                                                          *)

addr_to_reg == [src |-> 0, dst |-> 4, len |-> 8, op |-> 12]

CTSEARCHER_R_ADDR      == 0
CTSEARCHER_RESULT_ADDR == 4
=============================================================================
