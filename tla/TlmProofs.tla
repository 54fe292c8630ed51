------------------------------ MODULE TlmProofs ------------------------------
(***************************************************************************)
(* Theorems about TlmSystem for any capacity of the channels and any       *)
(* number of requests: what module SearcherNetProofs shows, with find_UCT  *)
(* behind the registers as the client (Client), and the bus between them   *)
(* decoding the addresses of the three registers as they are meant         *)
(* (DecodesWell), for any widths and base of MemoryMapAssumption.          *)
(***************************************************************************)
EXTENDS TlmSystem, SearcherNetProofs

Decoded ==
  \A register \in {CTSEARCHER_R_ADDR, CTSEARCHER_RESULT_ADDR, CTSEARCHER_CHECK_ADDR} :
    LET address == ToAddr(CTSEARCHER_MM_BASE + register)
    IN  PortsOf(Decodes, address) # {} /\ Masked(Decodes, address) = register

Asking == {"check", "poll", "polled", "result", "result_r", "result_q"}

\* What find_UCT has written and read so far.
Client(w, r) ==
  /\ w \in [Channel -> Nat] /\ r \in [Channel -> Nat] /\ k \in Nat
  /\ pc \in Asking \cup {"write", "write_r", "write_q", "stopped"}
  /\ w["i_r"] = IF pc \in Asking \cup {"write_q"} THEN k + 1 ELSE k
  /\ w["i_q"] = IF pc \in Asking THEN k + 1 ELSE k
  /\ r["o_r_idx"] = IF pc = "result_q" THEN k + 1 ELSE k
  /\ r["o_q_idx"] = k
  /\ k < REQUESTS \/ pc = "stopped"

Results ==
  /\ result \in [r : SUBSET Nat, q : SUBSET Nat] /\ output_num \in Nat
  /\ pc = "result_q" => result.r = {k + 1}
  /\ k > 0 => result.q = {k} /\ (pc # "result_q" => result.r = {k})

\* A promise of CHECK is kept, for nobody else takes the results.
Promise ==
  /\ pc \in {"result", "result_r"} => output_num > 0
  /\ output_num > 0 /\ pc \in {"polled", "result", "result_r"} =>
       chan["o_r_idx"] # <<>> /\ chan["o_q_idx"] # <<>>
  /\ pc = "result_q" => chan["o_q_idx"] # <<>>

TlmInv == (\E rd, w, r : NetInv(rd, w, r) /\ Client(w, r)) /\ Results /\ Promise

-----------------------------------------------------------------------------

\* A conversion to M values keeps what fits, and adds M to a small negative number.
LEMMA Residue ==
  ASSUME NEW M \in Nat, M > 0, NEW x \in Int, x < M, 0 - M <= x
  PROVE  x % M = IF x >= 0 THEN x ELSE x + M
<1>1. ASSUME x >= 0 PROVE x % M = x
  BY <1>1, SMT
<1>2. ASSUME x < 0 PROVE x % M = x + M
  BY <1>2, SMT
<1> QED  BY <1>1, <1>2

\* All addresses of the window are extended by the same amount.
LEMMA Extended ==
  \E base \in Nat : \A i \in 0 .. CTSEARCHER_MM_SIZE - 1 : ToAddr(CTSEARCHER_MM_BASE + i) = base + i
<1> DEFINE half == 2^(INT_BITS - 1)
           M == 2^ADDR_BITS
<1>1. /\ half \in Nat /\ half > 0 /\ 2^INT_BITS = 2 * half /\ M \in Nat /\ M > 2 * half /\ M > 0
      /\ BASE \in Nat
      /\ BASE + 12 <= half \/ (BASE >= half /\ BASE + 12 <= 2 * half)
  BY AddressAssumption, MemoryMapAssumption, SMT DEF CTSEARCHER_MM_SIZE
<1>2. CTSEARCHER_MM_BASE = IF BASE >= half THEN BASE - 2 * half ELSE BASE
  BY <1>1 DEF CTSEARCHER_MM_BASE, ToInt
<1>3. \A x : ToAddr(x) = x % M
  BY DEF ToAddr
<1>4. CTSEARCHER_MM_SIZE - 1 = 11
  BY SMT DEF CTSEARCHER_MM_SIZE
<1> HIDE DEF half, M
<1>5. CASE BASE >= half
  <2>1. ASSUME NEW i \in 0 .. 11
        PROVE  ToAddr(CTSEARCHER_MM_BASE + i) = (BASE - 2 * half + M) + i
    <3>1. PICK x \in Int : x = BASE - 2 * half + i
      BY <1>1, SMT
    <3>2. x < 0 /\ 0 - M <= x /\ x < M
      BY <1>1, <1>5, <3>1, SMT
    <3>3. x % M = x + M
      BY <1>1, <3>2, Residue, SMT
    <3>4. x + M = (BASE - 2 * half + M) + i
      BY <1>1, <3>1, SMT
    <3> QED  BY <1>2, <1>3, <1>5, <3>1, <3>3, <3>4
  <2>2. BASE - 2 * half + M \in Nat
    BY <1>1, <1>5, SMT
  <2> QED  BY <1>4, <2>1, <2>2
<1>6. CASE ~ (BASE >= half)
  <2>1. ASSUME NEW i \in 0 .. 11
        PROVE  ToAddr(CTSEARCHER_MM_BASE + i) = BASE + i
    <3>1. BASE + i \in Int /\ BASE + i < M /\ 0 - M <= BASE + i /\ BASE + i >= 0
      BY <1>1, <1>6, SMT
    <3>2. (BASE + i) % M = BASE + i
      BY <1>1, <3>1, Residue
    <3> QED  BY <1>2, <1>3, <1>6, <3>2
  <2> QED  BY <1>1, <1>4, <2>1
<1> QED  BY <1>5, <1>6

LEMMA OneWindow ==
  ASSUME NEW lo \in Nat, NEW hi \in Nat, lo <= hi, NEW address \in lo .. hi
  PROVE  LET decodes == SetDecode(NoDecodes, 0, lo, hi)
         IN  PortsOf(decodes, address) # {} /\ Masked(decodes, address) = address - lo
<1> DEFINE decodes == SetDecode(NoDecodes, 0, lo, hi)
           w == [lo |-> lo, hi |-> hi]
<1>1. TARGETS \in Nat /\ TARGETS > 0
  BY MemoryMapAssumption, SMT
<1>2. 0 \in 0 .. TARGETS - 1 /\ ~ (0 >= TARGETS) /\ ~ (lo > hi)
  BY <1>1, SMT
<1>3. decodes = [NoDecodes EXCEPT ![0] = <<w>> \o @]
  BY <1>2 DEF SetDecode
<1>4. <<w>> \o <<>> = <<w>>
  OBVIOUS
<1>5. /\ DOMAIN decodes = 0 .. TARGETS - 1 /\ decodes[0] = <<w>>
      /\ \A port \in 0 .. TARGETS - 1 : port # 0 => decodes[port] = <<>>
  BY <1>2, <1>3, <1>4 DEF NoDecodes
<1> HIDE DEF decodes
<1>6. Matching(decodes, 0, address) = {1}
  BY <1>5 DEF Matching, InRegion
<1>7. \A port \in 0 .. TARGETS - 1 : port # 0 => Matching(decodes, port, address) = {}
  BY <1>5 DEF Matching
<1>8. PortsOf(decodes, address) = {0}
  BY <1>2, <1>5, <1>6, <1>7 DEF PortsOf
<1>9. Min({0}) = 0 /\ Min({1}) = 1
  BY DEF Min
<1>10. GetMapping(decodes, 0, address) = w
  <2>1. GetMapping(decodes, 0, address) = decodes[0][1]
    BY <1>6, <1>9 DEF GetMapping
  <2>2. decodes[0][1] = w
    BY <1>5
  <2> QED  BY <2>1, <2>2
<1>11. Masked(decodes, address) = address - lo
  BY <1>8, <1>9, <1>10 DEF Masked
<1> QED  BY <1>8, <1>11 DEF decodes

LEMMA DecodesWell == Decoded
<1>1. PICK base \in Nat : \A i \in 0 .. CTSEARCHER_MM_SIZE - 1 : ToAddr(CTSEARCHER_MM_BASE + i) = base + i
  BY Extended
<1>2. \A i \in 0 .. 11 : ToAddr(CTSEARCHER_MM_BASE + i) = base + i
  BY <1>1 DEF CTSEARCHER_MM_SIZE
<1>3. ToAddr(CTSEARCHER_MM_BASE) = base /\ ToAddr(CTSEARCHER_MM_BASE + CTSEARCHER_MM_SIZE - 1) = base + 11
  <2>1. CTSEARCHER_MM_BASE \in Int
    <3>1. 2^(INT_BITS - 1) \in Nat /\ 2^INT_BITS \in Int /\ BASE \in Nat
      BY AddressAssumption, MemoryMapAssumption, SMT
    <3> QED  BY <3>1, SMT DEF CTSEARCHER_MM_BASE, ToInt
  <2>2. CTSEARCHER_MM_BASE + 0 = CTSEARCHER_MM_BASE /\ base + 0 = base
        /\ CTSEARCHER_MM_BASE + CTSEARCHER_MM_SIZE - 1 = CTSEARCHER_MM_BASE + 11
    BY <2>1, SMT DEF CTSEARCHER_MM_SIZE
  <2>3. 0 \in 0 .. 11 /\ 11 \in 0 .. 11
    BY SMT
  <2> QED  BY <1>2, <2>2, <2>3
<1>4. ASSUME NEW i \in {0, 4, 8}
      PROVE  LET address == ToAddr(CTSEARCHER_MM_BASE + i)
             IN  PortsOf(Decodes, address) # {} /\ Masked(Decodes, address) = i
  <2>1. /\ i \in 0 .. 11 /\ base + 11 \in Nat /\ base <= base + 11
        /\ base + i \in base .. base + 11 /\ (base + i) - base = i
    BY SMT
  <2>2. ToAddr(CTSEARCHER_MM_BASE + i) = base + i
    BY <1>2, <2>1
  <2>3. Decodes = SetDecode(NoDecodes, 0, base, base + 11)
    BY <1>3 DEF Decodes
  <2> QED  BY <2>1, <2>2, <2>3, OneWindow
<1> QED  BY <1>4 DEF Decoded, CTSEARCHER_R_ADDR, CTSEARCHER_RESULT_ADDR, CTSEARCHER_CHECK_ADDR

LEMMA ClientChannels ==
  /\ \A c \in {"i_r", "i_q"} : c \in Channel /\ Writer[c][1] \notin Threads
  /\ \A c \in {"o_r_idx", "o_q_idx"} : c \in Channel /\ Reader[c][1] \notin Threads
BY SearcherNetAssumption DEF Writer, Reader, Channel

LEMMA InitTlmInv == Init => TlmInv
<1> SUFFICES ASSUME Init PROVE TlmInv
  OBVIOUS
<1> DEFINE z == [c \in Channel |-> 0]
           rd == [t \in Threads |-> 0]
<1>1. NetInv(rd, z, z)
  BY InitNetInv DEF Init
<1>2. Client(z, z)
  <2>1. z \in [Channel -> Nat] /\ \A c \in Channel : z[c] = 0
    OBVIOUS
  <2> HIDE DEF z
  <2> QED  BY <2>1, ClientChannels, TlmAssumption DEF Init, Client, Asking
<1>3. Results /\ Promise
  BY DEF Init, Results, Promise
<1> QED  BY <1>1, <1>2, <1>3 DEF TlmInv

LEMMA TransportStep == TlmInv /\ Transport => TlmInv'
<1> SUFFICES ASSUME TlmInv, Transport PROVE TlmInv'
  OBVIOUS
<1>1. /\ pc = "write" => pc' = "write_r"
      /\ pc = "check" => pc' = "poll"
      /\ pc = "result" => pc' = "result_r"
      /\ pc \in {"write", "check", "result"} /\ UNCHANGED <<netVars, k, output_num, result>>
  <2>1. CASE pc = "write"
    <3>1. Address = ToAddr(CTSEARCHER_MM_BASE + CTSEARCHER_R_ADDR)
      BY <2>1 DEF Address
    <3>2. PortsOf(Decodes, Address) # {} /\ Masked(Decodes, Address) = CTSEARCHER_R_ADDR
      BY <3>1, DecodesWell DEF Decoded
    <3> QED  BY <2>1, <3>2 DEF Transport, Dispatch
  <2>2. CASE pc = "check"
    <3>1. Address = ToAddr(CTSEARCHER_MM_BASE + CTSEARCHER_CHECK_ADDR)
      BY <2>2 DEF Address
    <3>2. PortsOf(Decodes, Address) # {} /\ Masked(Decodes, Address) = CTSEARCHER_CHECK_ADDR
      BY <3>1, DecodesWell DEF Decoded
    <3> QED  BY <2>2, <3>2 DEF Transport, Dispatch
  <2>3. CASE pc = "result"
    <3>1. Address = ToAddr(CTSEARCHER_MM_BASE + CTSEARCHER_RESULT_ADDR)
      BY <2>3 DEF Address
    <3>2. PortsOf(Decodes, Address) # {} /\ Masked(Decodes, Address) = CTSEARCHER_RESULT_ADDR
      BY <3>1, DecodesWell DEF Decoded
    <3>3. CTSEARCHER_RESULT_ADDR # CTSEARCHER_CHECK_ADDR
      BY DEF CTSEARCHER_RESULT_ADDR, CTSEARCHER_CHECK_ADDR
    <3> QED  BY <2>3, <3>2, <3>3 DEF Transport, Dispatch
  <2> QED  BY <2>1, <2>2, <2>3 DEF Transport
<1>2. PICK rd, w, r : NetInv(rd, w, r) /\ Client(w, r)
  BY DEF TlmInv
<1>3. NetInv(rd, w, r)'
  BY <1>1, <1>2 DEF NetInv, Written, Taken, Done, netVars
<1>4. Client(w, r)'
  BY <1>1, <1>2 DEF Client, Asking
<1>5. Results' /\ Promise'
  BY <1>1 DEF TlmInv, Results, Promise, netVars
<1> QED  BY <1>3, <1>4, <1>5 DEF TlmInv
LEMMA WriteStep == TlmInv /\ (WriteR \/ WriteQ) => TlmInv'
<1> SUFFICES ASSUME TlmInv, WriteR \/ WriteQ PROVE TlmInv'
  OBVIOUS
<1>1. PICK rd, w, r : NetInv(rd, w, r) /\ Client(w, r)
  BY DEF TlmInv
<1>2. w \in [Channel -> Nat] /\ k \in Nat
  BY <1>1 DEF Client
<1>3. PICK c \in {"i_r", "i_q"} :
        /\ Len(chan[c]) < CAPACITY /\ chan' = [chan EXCEPT ![c] = Append(@, {k + 1})]
        /\ UNCHANGED <<at, got, k, result>> /\ w[c] = k
        /\ c = "i_r" => pc = "write_r" /\ pc' = "write_q" /\ output_num' = output_num
        /\ c = "i_q" => pc = "write_q" /\ pc' = "check" /\ output_num' = 0
  BY <1>1 DEF WriteR, WriteQ, Send, Client, Asking
<1> DEFINE w2 == [w EXCEPT ![c] = @ + 1]
<1>4. NetInv(rd, w2, r)'
  BY <1>1, <1>2, <1>3, ClientChannels, ClientPut
<1>5. w2 \in [Channel -> Nat] /\ \A d \in Channel : w2[d] = IF d = c THEN k + 1 ELSE w[d]
  BY <1>2, <1>3, ClientChannels
<1> HIDE DEF w2
<1>6. Client(w2, r)'
  BY <1>1, <1>2, <1>3, <1>5, ClientChannels DEF Client, Asking
<1>7. Results' /\ Promise'
  BY <1>3 DEF TlmInv, Results, Promise
<1> QED  BY <1>4, <1>6, <1>7 DEF TlmInv

LEMMA Availability ==
  ASSUME NEW rd, NEW w, NEW r, NetInv(rd, w, r)
  PROVE  /\ Available \in Nat
         /\ Available > 0 <=> chan["o_r_idx"] # <<>> /\ chan["o_q_idx"] # <<>>
<1>1. ASSUME NEW c \in Channel
      PROVE  chan[c] \in Seq(SUBSET Nat) /\ Len(chan[c]) \in Nat /\ (Len(chan[c]) > 0 <=> chan[c] # <<>>)
  <2>1. chan[c] \in Seq(SUBSET Nat)
    BY DEF NetInv, Holds
  <2> QED  BY <2>1, EmptySeq
<1> QED  BY <1>1, ClientChannels DEF Available

LEMMA CheckStep == TlmInv /\ (Check \/ Poll) => TlmInv'
<1> SUFFICES ASSUME TlmInv, Check \/ Poll PROVE TlmInv'
  OBVIOUS
<1>1. PICK rd, w, r : NetInv(rd, w, r) /\ Client(w, r)
  BY DEF TlmInv
<1>2. UNCHANGED <<netVars, k, result>>
      /\ \/ pc = "poll" /\ pc' = "polled" /\ output_num' = Available
         \/ pc = "polled" /\ output_num' = output_num
            /\ pc' = IF output_num <= 0 THEN "check" ELSE "result"
  BY DEF Check, Poll
<1>3. NetInv(rd, w, r)'
  BY <1>1, <1>2 DEF NetInv, Written, Taken, Done, netVars
<1>4. Client(w, r)'
  BY <1>1, <1>2 DEF Client, Asking
<1>5. Results'
  BY <1>1, <1>2, Availability DEF TlmInv, Results
<1>6. Promise'
  BY <1>1, <1>2, Availability DEF TlmInv, Results, Promise, netVars
<1> QED  BY <1>3, <1>4, <1>5, <1>6 DEF TlmInv

LEMMA ReadStep == TlmInv /\ (ReadR \/ ReadQ) => TlmInv'
<1> SUFFICES ASSUME TlmInv, ReadR \/ ReadQ PROVE TlmInv'
  OBVIOUS
<1>1. PICK rd, w, r : NetInv(rd, w, r) /\ Client(w, r)
  BY DEF TlmInv
<1>2. r \in [Channel -> Nat] /\ k \in Nat /\ r["o_q_idx"] = k
      /\ (pc = "result_r" => r["o_r_idx"] = k) /\ (pc = "result_q" => r["o_r_idx"] = k + 1)
      /\ result \in [r : SUBSET Nat, q : SUBSET Nat]
  BY <1>1 DEF TlmInv, Client, Results
<1>3. CASE ReadR
  <2> DEFINE r2 == [r EXCEPT !["o_r_idx"] = @ + 1]
  <2>1. chan["o_r_idx"] # <<>> /\ chan' = [chan EXCEPT !["o_r_idx"] = Tail(@)]
        /\ UNCHANGED <<at, got, k, output_num>> /\ pc = "result_r" /\ pc' = "result_q"
        /\ result' = [result EXCEPT !.r = Head(chan["o_r_idx"])]
    BY <1>3 DEF ReadR, Receive
  <2>2. Head(chan["o_r_idx"]) = {r["o_r_idx"] + 1} /\ NetInv(rd, w, r2)'
    BY <1>1, <1>2, <2>1, ClientChannels, ClientGet
  <2>3. Client(w, r2)'
    <3>1. r2 \in [Channel -> Nat] /\ r2["o_r_idx"] = k + 1 /\ r2["o_q_idx"] = k
      BY <1>2, <2>1, ClientChannels
    <3> HIDE DEF r2
    <3> QED  BY <1>1, <2>1, <3>1 DEF Client, Asking
  <2>4. Results'
    BY <1>2, <2>1, <2>2 DEF TlmInv, Results
  <2>5. Promise'
    <3>1. chan'["o_q_idx"] = chan["o_q_idx"]
      BY <1>1, <2>1 DEF NetInv, Channel
    <3> QED  BY <2>1, <3>1 DEF TlmInv, Promise
  <2> QED  BY <2>2, <2>3, <2>4, <2>5 DEF TlmInv
<1>4. CASE ReadQ
  <2> DEFINE r2 == [r EXCEPT !["o_q_idx"] = @ + 1]
  <2>1. chan["o_q_idx"] # <<>> /\ chan' = [chan EXCEPT !["o_q_idx"] = Tail(@)]
        /\ UNCHANGED <<at, got, output_num>> /\ pc = "result_q" /\ k' = k + 1
        /\ pc' = (IF k + 1 = REQUESTS THEN "stopped" ELSE "write")
        /\ result' = [result EXCEPT !.q = Head(chan["o_q_idx"])]
    BY <1>4 DEF ReadQ, Receive
  <2>2. Head(chan["o_q_idx"]) = {r["o_q_idx"] + 1} /\ NetInv(rd, w, r2)'
    BY <1>1, <1>2, <2>1, ClientChannels, ClientGet
  <2>3. Client(w, r2)'
    <3>1. r2 \in [Channel -> Nat] /\ r2["o_r_idx"] = k + 1 /\ r2["o_q_idx"] = k + 1
      BY <1>2, <2>1, ClientChannels
    <3>2. k < REQUESTS
      BY <1>1, <2>1 DEF Client
    <3> HIDE DEF r2
    <3> QED  BY <1>1, <2>1, <3>1, <3>2, TlmAssumption DEF Client, Asking
  <2>4. Results'
    BY <1>2, <2>1, <2>2 DEF TlmInv, Results
  <2>5. Promise'
    BY <2>1 DEF Promise
  <2> QED  BY <2>2, <2>3, <2>4, <2>5 DEF TlmInv
<1> QED  BY <1>3, <1>4

\* No searcher takes a result out of the outputs.
LEMMA OutputsStay ==
  ASSUME NEW rd, NEW w, NEW r, NetInv(rd, w, r), NEW t \in Threads, Run(t),
         NEW c \in {"o_r_idx", "o_q_idx"}, chan[c] # <<>>
  PROVE  chan'[c] # <<>>
<1>1. /\ at[t] \in 1 .. Len(Program[t]) /\ chan = [d \in Channel |-> chan[d]]
      /\ c \in Channel /\ Reader[c][1] \notin Threads
  BY ClientChannels DEF NetInv
<1>2. chan[c] \in Seq(SUBSET Nat)
  BY <1>1 DEF NetInv, Holds
<1>3. CASE Read(t)
  <2>1. PICK d \in Channel : Program[t][at[t]] = Get(d) /\ chan' = [chan EXCEPT ![d] = Tail(@)]
    BY <1>3 DEF Read, Receive
  <2>2. Reader[d] = <<t, at[t]>>
    BY <1>1, <2>1, Tables
  <2>3. d # c
    BY <1>1, <2>2
  <2> QED  BY <1>1, <2>1, <2>3
<1>4. CASE Write(t)
  <2>1. PICK d \in Channel : chan' = [chan EXCEPT ![d] = Append(@, got[t])]
    BY <1>4 DEF Write, Send
  <2>2. got[t] \in SUBSET Nat
    BY DEF NetInv
  <2>3. CASE d = c
    <3>1. Append(chan[c], got[t]) # <<>>
      BY <1>2, <2>2, AppendProperties
    <3> QED  BY <1>1, <2>1, <2>3, <3>1
  <2>4. CASE d # c
    BY <1>1, <2>1, <2>4
  <2> QED  BY <2>3, <2>4
<1> QED  BY <1>3, <1>4 DEF Run

LEMMA NextTlmInv == TlmInv /\ [Next]_vars => TlmInv'
<1> SUFFICES ASSUME TlmInv, [Next]_vars PROVE TlmInv'
  OBVIOUS
<1>1. PICK rd, w, r : NetInv(rd, w, r) /\ Client(w, r)
  BY DEF TlmInv
<1>2. CASE find_UCT
  BY <1>2, TransportStep, WriteStep, CheckStep, ReadStep DEF find_UCT
<1>3. ASSUME NEW t \in Threads, Search(t) PROVE TlmInv'
  <2>1. Run(t) /\ UNCHANGED <<pc, k, output_num, result>>
    BY <1>3 DEF Search, tb
  <2>2. \E rd2 : NetInv(rd2, w, r)'
    BY <1>1, <2>1, RunNetInv
  <2>3. Client(w, r)' /\ Results'
    BY <1>1, <2>1 DEF Client, TlmInv, Results
  <2>4. Promise'
    BY <1>1, <2>1, OutputsStay DEF TlmInv, Promise
  <2> QED  BY <2>2, <2>3, <2>4 DEF TlmInv
<1>4. CASE UNCHANGED vars
  <2>1. NetInv(rd, w, r)'
    BY <1>1, <1>4 DEF NetInv, Written, Taken, Done, vars, netVars
  <2>2. Client(w, r)' /\ Results' /\ Promise'
    BY <1>1, <1>4 DEF Client, TlmInv, Results, Promise, vars, tb, netVars
  <2> QED  BY <2>1, <2>2 DEF TlmInv
<1> QED  BY <1>2, <1>3, <1>4 DEF Next

THEOREM Invariant == Spec => []TlmInv
BY InitTlmInv, NextTlmInv, PTL DEF Spec

\* A positive CHECK promises a result that can be read without blocking
\* (CTSearcher::blocking_transport, Testbench::find_UCT).
THEOREM PromisesAreKept == Spec => []ResultReady
<1>1. TlmInv => ResultReady
  <2> SUFFICES ASSUME TlmInv PROVE ResultReady
    OBVIOUS
  <2>1. Available > 0 <=> chan["o_r_idx"] # <<>> /\ chan["o_q_idx"] # <<>>
    BY Availability DEF TlmInv
  <2> QED  BY <2>1 DEF TlmInv, Promise, ResultReady
<1> QED  BY <1>1, Invariant, PTL

\* find_UCT reads the result of the hulls it has written in the same round.
THEOREM ResultsAreOwn == Spec => []OwnResult
<1>1. TlmInv => OwnResult
  BY DEF TlmInv, Results, OwnResult
<1> QED  BY <1>1, Invariant, PTL

\* No access of find_UCT makes initiatorBTransport or blocking_transport assert:
\* the window sc_main sets up, CTSEARCHER_MM_BASE converted and all, holds the
\* three registers, and each of them is where find_UCT looks for it.
THEOREM AccessesAreDecoded == Spec => []NeverAborts
<1>1. TlmInv => NeverAborts
  BY DEF TlmInv, Client, Asking, NeverAborts
<1> QED  BY <1>1, Invariant, PTL

-----------------------------------------------------------------------------
(* The searcher behind its registers as a service: module PeService, but   *)
(* for its liveness.                                                       *)

\* CTSearcher has written as many answers as it has done rounds, and has read
\* no more requests than have been accepted.
LEMMA Counts ==
  ASSUME NEW rd, NEW w, NEW r, NetInv(rd, w, r), Client(w, r)
  PROVE  /\ Answered = rd["CT"] /\ rd["CT"] \in Nat /\ Accepted \in Nat
         /\ rd["CT"] + (IF at["CT"] > 2 THEN 1 ELSE 0) <= Accepted
<1>1. "CT" \in Threads
  BY TlmAssumption
<1>2. rd["CT"] \in Nat /\ at["CT"] \in 1 .. 10
  <2>1. ASSUME NEW t \in Threads, t = "CT" PROVE rd[t] \in Nat /\ at[t] \in 1 .. 10
    <3>1. rd[t] \in Nat /\ at[t] \in 1 .. Len(Program[t])
      BY DEF NetInv
    <3>2. Len(Program[t]) = 10
      BY <2>1, Programs
    <3> QED  BY <3>1, <3>2
  <2> QED  BY <1>1, <2>1
<1>3. ASSUME NEW c \in Channel
      PROVE  /\ chan[c] \in Seq(SUBSET Nat) /\ Len(chan[c]) \in Nat /\ Written(rd, w, c) \in Nat
             /\ Taken(rd, r, c) \in Nat /\ Written(rd, w, c) = Taken(rd, r, c) + Len(chan[c])
  BY DEF NetInv, Holds
<1>4. /\ Written(rd, w, "o_q_idx") = Done(rd, "CT", 10) /\ Taken(rd, r, "i_q") = Done(rd, "CT", 2)
  BY <1>1 DEF Written, Taken, Writer, Reader
<1>5. Taken(rd, r, "o_q_idx") = k /\ Written(rd, w, "i_q") = w["i_q"]
  BY ClientChannels DEF Written, Taken, Client
<1>6. w["i_q"] = Accepted /\ k \in Nat /\ Accepted \in Nat
  BY DEF Client, Asking, Accepted
<1>7. Done(rd, "CT", 10) = k + Len(chan["o_q_idx"])
  BY <1>3, <1>4, <1>5, ClientChannels
<1>8. Done(rd, "CT", 2) <= Accepted
  <2>1. Written(rd, w, "i_q") = Taken(rd, r, "i_q") + Len(chan["i_q"]) /\ Len(chan["i_q"]) \in Nat
    BY <1>3, ClientChannels
  <2>2. Done(rd, "CT", 2) \in Nat
    BY <1>2 DEF Done
  <2> QED  BY <1>4, <1>5, <1>6, <2>1, <2>2
<1> QED  BY <1>2, <1>6, <1>7, <1>8 DEF Done, Answered

LEMMA SearchStep ==
  ASSUME NEW rd, NEW w, NEW r, NetInv(rd, w, r), Client(w, r), NEW t \in Threads, Run(t)
  PROVE  \/ UNCHANGED chan["o_q_idx"]
         \/ Answered < Accepted /\ chan'["o_q_idx"] = Append(chan["o_q_idx"], {Answered + 1})
<1>1. /\ at[t] \in 1 .. Len(Program[t]) /\ rd[t] \in Nat
      /\ got[t] = IF at[t] = 1 THEN {} ELSE {rd[t] + 1}
      /\ chan = [d \in Channel |-> chan[d]]
      /\ "o_q_idx" \in Channel /\ Reader["o_q_idx"][1] \notin Threads
  BY ClientChannels DEF NetInv
<1>2. CASE Read(t)
  <2>1. PICK c \in Channel : Program[t][at[t]] = Get(c) /\ chan' = [chan EXCEPT ![c] = Tail(@)]
    BY <1>2 DEF Read, Receive
  <2>2. Reader[c] = <<t, at[t]>>
    BY <1>1, <2>1, Tables
  <2>3. c # "o_q_idx"
    BY <1>1, <2>2
  <2> QED  BY <1>1, <2>1, <2>3
<1>3. CASE Write(t)
  <2>1. PICK c \in Channel : /\ Program[t][at[t]] = Put(c)
                             /\ chan' = [chan EXCEPT ![c] = Append(@, got[t])]
    BY <1>3 DEF Write, Send
  <2>2. Writer[c] = <<t, at[t]>>
    BY <1>1, <2>1, Tables
  <2>3. CASE c = "o_q_idx"
    <3>1. t = "CT" /\ at["CT"] = 10
      BY <2>2, <2>3 DEF Writer
    <3>2. Answered = rd["CT"] /\ Answered < Accepted
      BY <3>1, Counts
    <3>3. got[t] = {Answered + 1}
      BY <1>1, <3>1, <3>2
    <3> QED  BY <1>1, <2>1, <2>3, <3>2, <3>3
  <2>4. CASE c # "o_q_idx"
    BY <1>1, <2>1, <2>4
  <2> QED  BY <2>3, <2>4
<1> QED  BY <1>2, <1>3 DEF Run

Serves == Pe!Accept \/ Pe!Answer \/ Pe!Take

LEMMA ServiceStep == TlmInv /\ TlmInv' /\ [Next]_vars => [Serves]_(Pe!peVars)
<1> SUFFICES ASSUME TlmInv, TlmInv', [Next]_vars PROVE Serves \/ UNCHANGED Pe!peVars
  OBVIOUS
<1> DEFINE inq == Line(Answered, Accepted)
<1> USE DEF Serves
<1>1. PICK rd, w, r : NetInv(rd, w, r) /\ Client(w, r)
  BY DEF TlmInv
<1>2. Answered \in Nat /\ Accepted \in Nat /\ Answered <= Accepted
  BY <1>1, Counts
<1>3. /\ k \in Nat /\ REQUESTS \in Nat /\ (k < REQUESTS \/ pc = "stopped")
      /\ chan["o_q_idx"] \in Seq(SUBSET Nat) /\ chan = [c \in Channel |-> chan[c]]
      /\ Answered = k + Len(chan["o_q_idx"])
  BY <1>1, ClientChannels, TlmAssumption DEF Client, NetInv, Holds, Answered
<1>4. ASSUME Accepted' = Accepted, UNCHANGED <<k, chan["o_q_idx"]>> PROVE UNCHANGED Pe!peVars
  BY <1>4 DEF Pe!peVars, Answered
<1>5. CASE Check \/ Poll \/ ReadR \/ WriteR \/ UNCHANGED vars
  <2>1. UNCHANGED <<k, chan["o_q_idx"]>> /\ Accepted' = Accepted
    BY <1>3, <1>5, ClientChannels
       DEF Check, Poll, ReadR, WriteR, vars, netVars, tb, Send, Receive, Accepted
  <2> QED  BY <1>4, <2>1
<1>6. CASE Transport
  <2>1. UNCHANGED <<k, chan["o_q_idx"]>> /\ pc \in {"write", "check", "result"}
    BY <1>6 DEF Transport, netVars
  <2>2. PICK register : pc' = IF PortsOf(Decodes, Address) = {} THEN "aborted" ELSE Dispatch(register)
    BY <1>6 DEF Transport
  <2>3. pc' # "aborted"
    BY DEF TlmInv, Client, Asking
  <2>4. Accepted' = Accepted
    <3>1. CASE pc = "write"
      <4>1. pc' = "write_r"
        <5>1. Address = ToAddr(CTSEARCHER_MM_BASE + CTSEARCHER_R_ADDR)
          BY <3>1 DEF Address
        <5>2. PortsOf(Decodes, Address) # {} /\ Masked(Decodes, Address) = CTSEARCHER_R_ADDR
          BY <5>1, DecodesWell DEF Decoded
        <5> QED  BY <1>6, <3>1, <5>2 DEF Transport, Dispatch
      <4> QED  BY <2>1, <3>1, <4>1 DEF Accepted
    <3>2. CASE pc # "write"
      <4>1. pc' \in {"poll", "result_r"}
        BY <2>2, <2>3, <3>2 DEF Dispatch
      <4> QED  BY <2>1, <3>2, <4>1 DEF Accepted
    <3> QED  BY <3>1, <3>2
  <2> QED  BY <1>4, <2>1, <2>4
<1>7. CASE WriteQ
  <2>1. UNCHANGED <<k, chan["o_q_idx"]>> /\ pc = "write_q" /\ pc' = "check"
    BY <1>3, <1>7, ClientChannels DEF WriteQ, Send
  <2>2. Answered' = Answered /\ Accepted = k /\ Accepted' = Accepted + 1 /\ Accepted + 1 <= REQUESTS
    BY <1>3, <2>1 DEF Answered, Accepted
  <2>3. Line(Answered, Accepted)' = Append(inq, {Accepted + 1})
    BY <1>2, <2>2, Lines
  <2>4. {Accepted + 1} \in {{i} : i \in 1 .. REQUESTS}
    BY <1>2, <2>2
  <2> QED  BY <2>1, <2>3, <2>4 DEF Pe!Accept, Line
<1>8. CASE ReadQ
  <2>1. chan["o_q_idx"] # <<>> /\ chan'["o_q_idx"] = Tail(chan["o_q_idx"])
        /\ k' = k + 1 /\ pc = "result_q" /\ pc' \in {"stopped", "write"}
    BY <1>3, <1>8, ClientChannels DEF ReadQ, Receive
  <2>2. Len(Tail(chan["o_q_idx"])) = Len(chan["o_q_idx"]) - 1 /\ Len(chan["o_q_idx"]) \in Nat
    BY <1>3, <2>1, HeadTailProperties
  <2>3. Accepted' = Accepted /\ Answered' = Answered
    BY <1>3, <2>1, <2>2 DEF Accepted, Answered
  <2> QED  BY <2>1, <2>3 DEF Pe!Take
<1>9. ASSUME NEW t \in Threads, Search(t) PROVE Serves \/ UNCHANGED Pe!peVars
  <2>1. UNCHANGED <<pc, k>> /\ Run(t)
    BY <1>9 DEF Search, tb
  <2>2. Accepted' = Accepted
    BY <2>1 DEF Accepted
  <2>3. CASE UNCHANGED chan["o_q_idx"]
    BY <1>4, <2>1, <2>2, <2>3
  <2>4. CASE Answered < Accepted /\ chan'["o_q_idx"] = Append(chan["o_q_idx"], {Answered + 1})
    <3>1. Answered' = Answered + 1
      <4>1. Len(chan'["o_q_idx"]) = Len(chan["o_q_idx"]) + 1 /\ Len(chan["o_q_idx"]) \in Nat
        BY <1>2, <1>3, <2>4, AppendProperties
      <4> QED  BY <1>3, <2>1, <4>1 DEF Answered
    <3>2. inq # <<>> /\ Head(inq) = {Answered + 1} /\ Line(Answered, Accepted)' = Tail(inq)
      BY <1>2, <2>2, <2>4, <3>1, Lines
    <3> QED  BY <2>4, <3>2 DEF Pe!Answer, Line
  <2> QED  BY <1>1, <2>1, <2>3, <2>4, SearchStep
<1> QED  BY <1>5, <1>6, <1>7, <1>8, <1>9 DEF Next, find_UCT

\* Behind its registers the searcher answers the requests one by one and in
\* order, each answer from one request only.
THEOREM SearcherIsService == Spec => Pe!PESafety
<1>1. Init => Pe!PEInit
  <2> SUFFICES ASSUME Init PROVE Accepted - Answered = 0 /\ chan["o_q_idx"] = <<>>
    BY DEF Pe!PEInit
  <2>1. k = 0 /\ pc = "write" /\ chan["o_q_idx"] = <<>>
    BY ClientChannels DEF Init, NetInit
  <2>2. Len(chan["o_q_idx"]) = 0
    BY <2>1, EmptySeq
  <2>3. Accepted - Answered = 0
    BY <2>1, <2>2 DEF Accepted, Answered
  <2> QED  BY <2>1, <2>3
<1>2. TlmInv /\ TlmInv' /\ [Next]_vars => [Serves]_(Pe!peVars)
  BY ServiceStep
<1>3. Spec => []TlmInv
  BY Invariant
<1> QED  BY <1>1, <1>2, <1>3, PTL DEF Spec, Serves, Pe!PESafety
=============================================================================
