------------------------------ MODULE MemoryMap ------------------------------
(***************************************************************************)
(* The address decoding of the TLM bus (MemoryMap.h, SimpleBus.h).  The    *)
(* base address 0x90000000 is a const int, hence negative, and becomes an  *)
(* Addr (64 bits) by sign extension wherever it is used; the widths are    *)
(* parameters, scaled down for TLC.                                        *)
(***************************************************************************)
EXTENDS Integers, Sequences, FiniteSetsExt

CONSTANTS
  INT_BITS,    \* width of int (32)
  ADDR_BITS,   \* width of Addr (64)
  BASE,        \* the literal CTSEARCHER_MM_BASE
  TARGETS      \* ports of the bus to targets (1)

CTSEARCHER_MM_SIZE     == 12
CTSEARCHER_R_ADDR      == 0
CTSEARCHER_RESULT_ADDR == 4
CTSEARCHER_CHECK_ADDR  == 8

\* The window does not reach over the largest int, nor from the negative ints
\* to the others: with 0x90000000 it is among the negative ones.
ASSUME MemoryMapAssumption ==
  /\ INT_BITS \in Nat \ {0} /\ ADDR_BITS \in Nat /\ ADDR_BITS > INT_BITS
  /\ TARGETS \in Nat \ {0}
  /\ BASE \in Nat
  /\ \/ BASE + CTSEARCHER_MM_SIZE <= 2^(INT_BITS - 1)
     \/ BASE >= 2^(INT_BITS - 1) /\ BASE + CTSEARCHER_MM_SIZE <= 2^INT_BITS

\* Arithmetic the provers do not know.
ASSUME AddressAssumption ==
  /\ 2^(INT_BITS - 1) \in Nat \ {0} /\ 2^INT_BITS = 2 * 2^(INT_BITS - 1)
  /\ 2^ADDR_BITS \in Nat /\ 2^ADDR_BITS > 2^INT_BITS

\* An int initialised with literal n, and the Addr an int is converted to.
ToInt(n)  == IF n >= 2^(INT_BITS - 1) THEN n - 2^INT_BITS ELSE n
ToAddr(i) == i % 2^ADDR_BITS

CTSEARCHER_MM_BASE == ToInt(BASE)

NoDecodes == [port \in 0 .. TARGETS - 1 |-> <<>>]

\* decodes[port] is the list of windows of that port, the newest first.
SetDecode(decodes, port, lo, hi) ==
  IF port >= TARGETS \/ lo > hi THEN decodes
  ELSE [decodes EXCEPT ![port] = <<[lo |-> lo, hi |-> hi]>> \o @]

InRegion(window, address) == window.lo <= address /\ address <= window.hi

Matching(decodes, port, address) ==
  {i \in DOMAIN decodes[port] : InRegion(decodes[port][i], address)}

\* The first window of the list that holds the address.
GetMapping(decodes, port, address) == decodes[port][Min(Matching(decodes, port, address))]

\* The ports with a window for the address; the bus takes the first.
PortsOf(decodes, address) ==
  {port \in DOMAIN decodes : Matching(decodes, port, address) # {}}

\* What the target sees of the address (m_is_address_masked).
Masked(decodes, address) ==
  address - GetMapping(decodes, Min(PortsOf(decodes, address)), address).lo
=============================================================================
