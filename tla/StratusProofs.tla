--------------------------- MODULE StratusProofs ---------------------------
(***************************************************************************)
(* Theorems about StratusSystem for any capacity of the channels and any   *)
(* number of requests: what module SearcherNetProofs shows, with the       *)
(* testbench as the client (Client).                                       *)
(***************************************************************************)
EXTENDS StratusSystem, SearcherNetProofs

\* The channels of the thread CTSearcher, which the TLM version has.
Unused == {"i_r", "i_q", "o_r_idx", "o_q_idx"}

\* What the testbench has written and read so far.
Client(w, r) ==
  /\ w \in [Channel -> Nat] /\ r \in [Channel -> Nat]
  /\ fed \in Nat /\ fed <= 4 * REQUESTS /\ fetched \in Nat /\ fetched <= 2 * REQUESTS
  /\ w["r_l"] = (fed + 3) \div 4 /\ w["q_l"] = (fed + 2) \div 4
  /\ w["r_r"] = (fed + 1) \div 4 /\ w["q_r"] = fed \div 4
  /\ \A c \in Unused : w[c] = 0
  /\ r["r_idx"] = (fetched + 1) \div 2 /\ r["q_idx"] = fetched \div 2

Results(r) ==
  /\ result = [c \in {"r_idx", "q_idx"} |-> result[c]]
  /\ r["r_idx"] > 0 => result["r_idx"] = {r["r_idx"]}
  /\ r["q_idx"] > 0 => result["q_idx"] = {r["q_idx"]}
  /\ stopped => fetched = 2 * REQUESTS

StratusInv == \E rd, w, r : NetInv(rd, w, r) /\ Client(w, r) /\ Results(r)

-----------------------------------------------------------------------------

LEMMA Lengths == Len(Feeds) = 4 /\ Len(Fetches) = 2
BY DEF Feeds, Fetches

LEMMA Ports ==
  ASSUME NEW n \in Nat
  PROVE  /\ n % 4 = 0 => Port(n, Feeds) = "r_l" /\ Round(n, Feeds) = (n + 3) \div 4 + 1
         /\ n % 4 = 1 => Port(n, Feeds) = "q_l" /\ Round(n, Feeds) = (n + 2) \div 4 + 1
         /\ n % 4 = 2 => Port(n, Feeds) = "r_r" /\ Round(n, Feeds) = (n + 1) \div 4 + 1
         /\ n % 4 = 3 => Port(n, Feeds) = "q_r" /\ Round(n, Feeds) = n \div 4 + 1
         /\ n % 2 = 0 => Port(n, Fetches) = "r_idx"
         /\ n % 2 = 1 => Port(n, Fetches) = "q_idx"
<1>1. Len(Feeds) = 4 /\ Len(Fetches) = 2
  BY Lengths
<1>2. n % 4 \in {0, 1, 2, 3} /\ n % 2 \in {0, 1}
  BY SMT
<1>3. n % 4 = 0 => Port(n, Feeds) = "r_l" /\ Round(n, Feeds) = (n + 3) \div 4 + 1
  BY <1>1, <1>2 DEF Port, Round, Feeds
<1>4. n % 4 = 1 => Port(n, Feeds) = "q_l" /\ Round(n, Feeds) = (n + 2) \div 4 + 1
  BY <1>1, <1>2 DEF Port, Round, Feeds
<1>5. n % 4 = 2 => Port(n, Feeds) = "r_r" /\ Round(n, Feeds) = (n + 1) \div 4 + 1
  BY <1>1, <1>2 DEF Port, Round, Feeds
<1>6. n % 4 = 3 => Port(n, Feeds) = "q_r" /\ Round(n, Feeds) = n \div 4 + 1
  BY <1>1, <1>2 DEF Port, Round, Feeds
<1>7. (n % 2 = 0 => Port(n, Fetches) = "r_idx") /\ (n % 2 = 1 => Port(n, Fetches) = "q_idx")
  BY <1>1, <1>2 DEF Port, Fetches
<1> QED  BY <1>3, <1>4, <1>5, <1>6, <1>7

\* The quotients when a testbench thread goes on.
LEMMA Quotients ==
  ASSUME NEW n \in Nat
  PROVE  /\ n % 4 \in {0, 1, 2, 3} /\ n % 2 \in {0, 1}
         /\ \A i \in {0, 1, 2, 3} :
              (n + 1 + i) \div 4 = IF n % 4 = 3 - i THEN (n + i) \div 4 + 1 ELSE (n + i) \div 4
         /\ \A i \in {0, 1} :
              (n + 1 + i) \div 2 = IF n % 2 = 1 - i THEN (n + i) \div 2 + 1 ELSE (n + i) \div 2
<1>1. n % 4 \in {0, 1, 2, 3} /\ n % 2 \in {0, 1}
  BY SMT
<1>2. ASSUME NEW i \in {0, 1, 2, 3}
      PROVE (n + 1 + i) \div 4 = IF n % 4 = 3 - i THEN (n + i) \div 4 + 1 ELSE (n + i) \div 4
  BY SMT
<1>3. ASSUME NEW i \in {0, 1}
      PROVE (n + 1 + i) \div 2 = IF n % 2 = 1 - i THEN (n + i) \div 2 + 1 ELSE (n + i) \div 2
  BY SMT
<1> QED  BY <1>1, <1>2, <1>3
LEMMA InitStratusInv == Init => StratusInv
<1> SUFFICES ASSUME Init PROVE StratusInv
  OBVIOUS
<1> DEFINE z == [c \in Channel |-> 0]
           rd == [t \in Threads |-> 0]
<1>1. NetInv(rd, z, z)
  BY InitNetInv DEF Init
<1>2. Client(z, z)
  <2>1. z \in [Channel -> Nat] /\ \A c \in Channel : z[c] = 0
    OBVIOUS
  <2>2. {"r_l", "q_l", "r_r", "q_r", "r_idx", "q_idx"} \subseteq Channel
    BY DEF Channel
  <2> HIDE DEF z
  <2> QED  BY <2>1, <2>2, StratusAssumption DEF Init, Client, Unused, Channel
<1>3. Results(z)
  BY DEF Init, Results, Channel
<1> QED  BY <1>1, <1>2, <1>3 DEF StratusInv

LEMMA FeedStep == StratusInv /\ Feed => StratusInv'
<1> SUFFICES ASSUME StratusInv, Feed PROVE StratusInv'
  OBVIOUS
<1>1. PICK rd, w, r : NetInv(rd, w, r) /\ Client(w, r) /\ Results(r)
  BY DEF StratusInv
<1>2. /\ w \in [Channel -> Nat] /\ r \in [Channel -> Nat] /\ fed \in Nat /\ fed' = fed + 1
      /\ w["r_l"] = (fed + 3) \div 4 /\ w["q_l"] = (fed + 2) \div 4
      /\ w["r_r"] = (fed + 1) \div 4 /\ w["q_r"] = fed \div 4
  BY <1>1 DEF Client, Feed
<1>3. PICK c \in {"r_l", "q_l", "r_r", "q_r"} :
        /\ c = Port(fed, Feeds) /\ Round(fed, Feeds) = w[c] + 1
        /\ (c = "r_l" <=> fed % 4 = 0) /\ (c = "q_l" <=> fed % 4 = 1)
        /\ (c = "r_r" <=> fed % 4 = 2) /\ (c = "q_r" <=> fed % 4 = 3)
  BY <1>2, Ports, Quotients
<1>4. c \in Channel /\ Writer[c][1] \notin Threads
  BY StratusAssumption DEF Channel, Writer
<1> DEFINE w2 == [w EXCEPT ![c] = @ + 1]
<1>5. NetInv(rd, w2, r)'
  BY <1>1, <1>2, <1>3, <1>4, ClientPut DEF Feed, Send
<1>6. Client(w2, r)'
  <2>1. /\ (fed + 1 + 3) \div 4 = IF fed % 4 = 0 THEN (fed + 3) \div 4 + 1 ELSE (fed + 3) \div 4
        /\ (fed + 1 + 2) \div 4 = IF fed % 4 = 1 THEN (fed + 2) \div 4 + 1 ELSE (fed + 2) \div 4
        /\ (fed + 1 + 1) \div 4 = IF fed % 4 = 2 THEN (fed + 1) \div 4 + 1 ELSE (fed + 1) \div 4
        /\ (fed + 1) \div 4 = IF fed % 4 = 3 THEN fed \div 4 + 1 ELSE fed \div 4
    BY <1>2, SMT
  <2>2. w2 \in [Channel -> Nat] /\ {"r_l", "q_l", "r_r", "q_r"} \subseteq Channel
        /\ \A d \in Channel : w2[d] = IF d = c THEN w[d] + 1 ELSE w[d]
    BY <1>2, <1>4 DEF Channel
  <2>3. fed + 1 <= 4 * REQUESTS
    BY <1>2, Lengths, StratusAssumption DEF Feed
  <2> HIDE DEF w2
  <2>4. /\ w2["r_l"] = (fed' + 3) \div 4 /\ w2["q_l"] = (fed' + 2) \div 4
        /\ w2["r_r"] = (fed' + 1) \div 4 /\ w2["q_r"] = fed' \div 4
    BY <1>2, <1>3, <2>1, <2>2
  <2>5. /\ r["r_idx"] = (fetched + 1) \div 2 /\ r["q_idx"] = fetched \div 2
        /\ fetched \in Nat /\ fetched <= 2 * REQUESTS /\ fetched' = fetched
    BY <1>1 DEF Client, Feed
  <2>6. \A d \in Unused : w2[d] = 0
    BY <1>1, <2>2 DEF Client, Unused, Channel
  <2> QED  BY <1>2, <2>2, <2>3, <2>4, <2>5, <2>6 DEF Client
<1>7. Results(r)'
  BY <1>1 DEF Results, Feed
<1> QED  BY <1>5, <1>6, <1>7 DEF StratusInv

LEMMA FetchStep == StratusInv /\ Fetch => StratusInv'
<1> SUFFICES ASSUME StratusInv, Fetch PROVE StratusInv'
  OBVIOUS
<1>1. PICK rd, w, r : NetInv(rd, w, r) /\ Client(w, r) /\ Results(r)
  BY DEF StratusInv
<1>2. /\ w \in [Channel -> Nat] /\ r \in [Channel -> Nat]
      /\ fetched \in Nat /\ fetched' = fetched + 1
      /\ r["r_idx"] = (fetched + 1) \div 2 /\ r["q_idx"] = fetched \div 2
  BY <1>1 DEF Client, Fetch
<1>3. PICK c \in {"r_idx", "q_idx"} :
        /\ c = Port(fetched, Fetches)
        /\ (c = "r_idx" <=> fetched % 2 = 0) /\ (c = "q_idx" <=> fetched % 2 = 1)
  BY <1>2, Ports, Quotients
<1>4. c \in Channel /\ Reader[c][1] \notin Threads
  BY StratusAssumption DEF Channel, Reader
<1>5. chan[c] # <<>> /\ chan' = [chan EXCEPT ![c] = Tail(@)] /\ UNCHANGED <<at, got>>
      /\ result' = [result EXCEPT ![c] = Head(chan[c])]
  BY <1>3 DEF Fetch, Receive
<1> DEFINE r2 == [r EXCEPT ![c] = @ + 1]
<1>6. Head(chan[c]) = {r[c] + 1} /\ NetInv(rd, w, r2)'
  BY <1>1, <1>2, <1>4, <1>5, ClientGet
<1>7. r2 \in [Channel -> Nat] /\ {"r_idx", "q_idx"} \subseteq Channel
      /\ \A d \in Channel : r2[d] = IF d = c THEN r[d] + 1 ELSE r[d]
  BY <1>2, <1>4 DEF Channel
<1> HIDE DEF r2
<1>8. Client(w, r2)'
  <2>1. /\ (fetched + 1 + 1) \div 2
             = IF fetched % 2 = 0 THEN (fetched + 1) \div 2 + 1 ELSE (fetched + 1) \div 2
        /\ (fetched + 1) \div 2 = IF fetched % 2 = 1 THEN fetched \div 2 + 1 ELSE fetched \div 2
    BY <1>2, SMT
  <2>2. fetched + 1 <= 2 * REQUESTS
    BY <1>2, Lengths, StratusAssumption DEF Fetch
  <2>3. r2["r_idx"] = (fetched' + 1) \div 2 /\ r2["q_idx"] = fetched' \div 2
    BY <1>2, <1>3, <1>7, <2>1
  <2>4. /\ w["r_l"] = (fed + 3) \div 4 /\ w["q_l"] = (fed + 2) \div 4
        /\ w["r_r"] = (fed + 1) \div 4 /\ w["q_r"] = fed \div 4
        /\ fed \in Nat /\ fed <= 4 * REQUESTS /\ fed' = fed
        /\ \A c2 \in Unused : w[c2] = 0
    BY <1>1 DEF Client, Fetch
  <2> QED  BY <1>2, <1>7, <2>2, <2>3, <2>4 DEF Client
<1>9. Results(r2)'
  BY <1>1, <1>3, <1>5, <1>6, <1>7 DEF Results, Fetch
<1> QED  BY <1>6, <1>8, <1>9 DEF StratusInv

LEMMA NextStratusInv == StratusInv /\ [Next]_vars => StratusInv'
<1> SUFFICES ASSUME StratusInv, [Next]_vars PROVE StratusInv'
  OBVIOUS
<1>1. PICK rd, w, r : NetInv(rd, w, r) /\ Client(w, r) /\ Results(r)
  BY DEF StratusInv
<1>2. ASSUME UNCHANGED netVars PROVE NetInv(rd, w, r)'
  BY <1>1, <1>2 DEF NetInv, Written, Taken, Done, netVars
<1>3. CASE ReleaseReset
  BY <1>1, <1>2, <1>3 DEF ReleaseReset, StratusInv, Client, Results
<1>4. CASE Feed
  BY <1>4, FeedStep
<1>5. CASE Fetch
  BY <1>5, FetchStep
<1>6. CASE Stop
  <2>1. fetched = 2 * REQUESTS
    BY <1>1, <1>6, Lengths, StratusAssumption DEF Stop, Client
  <2> QED  BY <1>1, <1>2, <1>6, <2>1 DEF Stop, StratusInv, Client, Results
<1>7. ASSUME NEW t \in Threads, Search(t) PROVE StratusInv'
  <2>1. \E rd2 : NetInv(rd2, w, r)'
    BY <1>1, <1>7, RunNetInv DEF Search
  <2>2. Client(w, r)' /\ Results(r)'
    BY <1>1, <1>7 DEF Search, tb, Client, Results
  <2> QED  BY <2>1, <2>2 DEF StratusInv
<1>8. CASE UNCHANGED vars
  BY <1>1, <1>2, <1>8 DEF vars, tb, StratusInv, Client, Results
<1> QED  BY <1>3, <1>4, <1>5, <1>6, <1>7, <1>8 DEF Next
THEOREM Invariant == Spec => []StratusInv
BY InitStratusInv, NextStratusInv, PTL DEF Spec

\* The channels and the threads keep to what the code lets them hold, whatever
\* the capacity of the channels.
THEOREM NetTypeCorrect == Spec => []NetTypeOK
<1>1. StratusInv => NetTypeOK
  BY NetInvSafe DEF StratusInv
<1> QED  BY <1>1, Invariant, PTL

\* The two searchers and CTSearcherB never mix the data of two requests.
THEOREM ThreadsInStep == Spec => []InStep
<1>1. StratusInv => InStep
  BY NetInvSafe DEF StratusInv
<1> QED  BY <1>1, Invariant, PTL

\* Testbench::fetch_result takes the indices of request n in round n.
THEOREM ResultsAreOwn == Spec => []OwnResult
<1>1. StratusInv => OwnResult
  <2> SUFFICES ASSUME StratusInv, fetched > 0, fetched % 2 = 0
               PROVE  \A c \in DOMAIN result : result[c] = {fetched \div 2}
    BY Lengths DEF OwnResult
  <2>1. PICK rd, w, r : NetInv(rd, w, r) /\ Client(w, r) /\ Results(r)
    BY DEF StratusInv
  <2>2. fetched \in Nat /\ r["r_idx"] = (fetched + 1) \div 2 /\ r["q_idx"] = fetched \div 2
    BY <2>1 DEF Client
  <2>3. (fetched + 1) \div 2 = fetched \div 2 /\ fetched \div 2 > 0
    BY <2>2, SMT
  <2>4. result["r_idx"] = {fetched \div 2} /\ result["q_idx"] = {fetched \div 2}
    BY <2>1, <2>2, <2>3 DEF Results
  <2>5. DOMAIN result = {"r_idx", "q_idx"}
    BY <2>1 DEF Results
  <2> QED  BY <2>4, <2>5
<1> QED  BY <1>1, Invariant, PTL

\* When fetch_result calls sc_stop nothing is on its way any more: the last
\* answer can only be there when every request has been read by every thread.
THEOREM NothingIsLost == Spec => []Drained
<1>1. StratusInv => Drained
  <2> SUFFICES ASSUME StratusInv, stopped
               PROVE  fed = 4 * REQUESTS /\ \A c \in Channel : chan[c] = <<>>
    BY Lengths, StratusAssumption DEF Drained
  <2>1. PICK rd, w, r : NetInv(rd, w, r) /\ Client(w, r) /\ Results(r)
    BY DEF StratusInv
  <2>2. /\ fetched = 2 * REQUESTS /\ fed \in Nat /\ fed <= 4 * REQUESTS
        /\ REQUESTS \in Nat /\ \A c \in Unused : w[c] = 0
    BY <2>1, StratusAssumption DEF Results, Client
  <2>3. r["r_idx"] = REQUESTS /\ r["q_idx"] = REQUESTS
    BY <2>1, <2>2, SMT DEF Client
  <2>4. /\ \A t \in {"L", "R", "B"} : rd[t] \in Nat /\ at[t] \in Nat
        /\ at["L"] <= 4 /\ at["R"] <= 4 /\ at["B"] <= 6
    <3>1. ASSUME NEW t \in {"L", "R", "B"}
          PROVE  rd[t] \in Nat /\ at[t] \in Nat /\ at[t] <= IF t = "B" THEN 6 ELSE 4
      <4>1. rd[t] \in Nat /\ at[t] \in 1 .. Len(Program[t])
        BY <2>1, StratusAssumption DEF NetInv
      <4>2. Len(Program[t]) = IF t = "B" THEN 6 ELSE 4
        BY Programs, StratusAssumption
      <4> QED  BY <4>1, <4>2
    <3> QED  BY <3>1
  <2>5. ASSUME NEW c \in Channel
        PROVE  /\ chan[c] \in Seq(SUBSET Nat) /\ Written(rd, w, c) \in Nat
               /\ Taken(rd, r, c) \in Nat /\ Written(rd, w, c) = Taken(rd, r, c) + Len(chan[c])
    BY <2>1 DEF NetInv, Holds
  <2>6. /\ Written(rd, w, "r_l") = (fed + 3) \div 4 /\ Written(rd, w, "q_l") = (fed + 2) \div 4
        /\ Written(rd, w, "r_r") = (fed + 1) \div 4 /\ Written(rd, w, "q_r") = fed \div 4
        /\ Written(rd, w, "r_block") = Done(rd, "L", 3) /\ Written(rd, w, "r_start_idx") = Done(rd, "L", 4)
        /\ Written(rd, w, "q_block") = Done(rd, "R", 3) /\ Written(rd, w, "q_start_idx") = Done(rd, "R", 4)
        /\ Written(rd, w, "r_idx") = Done(rd, "B", 5) /\ Written(rd, w, "q_idx") = Done(rd, "B", 6)
        /\ \A c \in Unused : Written(rd, w, c) = 0
    BY <2>1, <2>2, StratusAssumption DEF Written, Writer, Client, Unused
  <2>7. /\ Taken(rd, r, "r_l") = Done(rd, "L", 1) /\ Taken(rd, r, "q_l") = Done(rd, "L", 2)
        /\ Taken(rd, r, "r_r") = Done(rd, "R", 1) /\ Taken(rd, r, "q_r") = Done(rd, "R", 2)
        /\ Taken(rd, r, "r_block") = Done(rd, "B", 1) /\ Taken(rd, r, "q_block") = Done(rd, "B", 2)
        /\ Taken(rd, r, "r_start_idx") = Done(rd, "B", 3) /\ Taken(rd, r, "q_start_idx") = Done(rd, "B", 4)
        /\ Taken(rd, r, "r_idx") = REQUESTS /\ Taken(rd, r, "q_idx") = REQUESTS
    BY <2>3, StratusAssumption DEF Taken, Reader
  <2>8. \A c \in Channel : Taken(rd, r, c) <= Written(rd, w, c)
    <3> SUFFICES ASSUME NEW c \in Channel PROVE Taken(rd, r, c) <= Written(rd, w, c)
      OBVIOUS
    <3>1. Len(chan[c]) \in Nat
      BY <2>5
    <3> QED  BY <2>5, <3>1
  <2>9. /\ Done(rd, "B", 6) >= REQUESTS
        /\ Done(rd, "L", 3) >= Done(rd, "B", 1) /\ Done(rd, "R", 3) >= Done(rd, "B", 2)
        /\ Done(rd, "L", 4) >= Done(rd, "B", 3) /\ Done(rd, "R", 4) >= Done(rd, "B", 4)
        /\ (fed + 3) \div 4 >= Done(rd, "L", 1) /\ (fed + 2) \div 4 >= Done(rd, "L", 2)
        /\ (fed + 1) \div 4 >= Done(rd, "R", 1) /\ fed \div 4 >= Done(rd, "R", 2)
    BY <2>6, <2>7, <2>8 DEF Channel
  <2>10. rd["B"] >= REQUESTS
    BY <2>2, <2>4, <2>9 DEF Done
  <2>11. Done(rd, "R", 2) >= REQUESTS
    BY <2>2, <2>4, <2>9, <2>10 DEF Done
  <2>12. fed = 4 * REQUESTS
    <3>1. fed \div 4 >= REQUESTS
      BY <2>2, <2>4, <2>9, <2>11 DEF Done
    <3> QED  BY <2>2, <3>1
  <2>13. /\ (fed + 3) \div 4 = REQUESTS /\ (fed + 2) \div 4 = REQUESTS
         /\ (fed + 1) \div 4 = REQUESTS /\ fed \div 4 = REQUESTS
    BY <2>2, <2>12, SMT
  <2>14. /\ rd["L"] = REQUESTS /\ at["L"] = 1 /\ rd["R"] = REQUESTS /\ at["R"] = 1
         /\ rd["B"] = REQUESTS /\ at["B"] = 1
    <3>1. rd["L"] >= REQUESTS /\ rd["R"] >= REQUESTS
      BY <2>2, <2>4, <2>9, <2>10 DEF Done
    <3>2. Done(rd, "L", 1) <= REQUESTS /\ Done(rd, "R", 1) <= REQUESTS
      BY <2>9, <2>13
    <3>3. rd["L"] = REQUESTS /\ at["L"] <= 1 /\ rd["R"] = REQUESTS /\ at["R"] <= 1
      BY <2>2, <2>4, <3>1, <3>2 DEF Done
    <3>4. Done(rd, "B", 1) <= REQUESTS
      BY <2>2, <2>4, <2>9, <3>3 DEF Done
    <3>5. rd["B"] = REQUESTS /\ at["B"] <= 1
      BY <2>2, <2>4, <2>10, <3>4 DEF Done
    <3>6. \A t \in Threads : at[t] \in 1 .. Len(Program[t])
      BY <2>1 DEF NetInv
    <3>7. at["L"] >= 1 /\ at["R"] >= 1 /\ at["B"] >= 1
      BY <3>6, Programs, StratusAssumption
    <3> QED  BY <2>4, <3>3, <3>5, <3>7
  <2>15. ASSUME NEW c \in Channel PROVE chan[c] = <<>>
    <3>1. Done(rd, "L", 3) = REQUESTS /\ Done(rd, "L", 4) = REQUESTS
          /\ Done(rd, "R", 3) = REQUESTS /\ Done(rd, "R", 4) = REQUESTS
          /\ Done(rd, "B", 5) = REQUESTS /\ Done(rd, "B", 6) = REQUESTS
          /\ Done(rd, "L", 1) = REQUESTS /\ Done(rd, "L", 2) = REQUESTS
          /\ Done(rd, "R", 1) = REQUESTS /\ Done(rd, "R", 2) = REQUESTS
          /\ Done(rd, "B", 1) = REQUESTS /\ Done(rd, "B", 2) = REQUESTS
          /\ Done(rd, "B", 3) = REQUESTS /\ Done(rd, "B", 4) = REQUESTS
      BY <2>2, <2>14 DEF Done
    <3>2. Len(chan[c]) \in Nat
      BY <2>5
    <3>3. Written(rd, w, c) = Taken(rd, r, c) \/ Written(rd, w, c) = 0
      BY <2>6, <2>7, <2>13, <3>1 DEF Channel, Unused
    <3>4. Len(chan[c]) = 0
      BY <2>5, <3>2, <3>3
    <3> QED  BY <2>5, <3>4, EmptySeq
  <2> QED  BY <2>12, <2>15
<1> QED  BY <1>1, Invariant, PTL
-----------------------------------------------------------------------------
(* The pipeline as a service: module PeService, but for its liveness.      *)

\* CTSearcherB has written as many answers as it has done rounds, and has no
\* more start indices than pairs have been fed.
LEMMA Counts ==
  ASSUME NEW rd, NEW w, NEW r, NetInv(rd, w, r), Client(w, r)
  PROVE  /\ Answered = rd["B"] /\ rd["B"] \in Nat /\ Fed \in Nat
         /\ rd["B"] + (IF at["B"] > 4 THEN 1 ELSE 0) <= Fed /\ at["B"] \in 1 .. 6
<1>1. "B" \in Threads /\ "R" \in Threads /\ "CT" \notin Threads
  BY StratusAssumption
<1>2. /\ rd["B"] \in Nat /\ rd["R"] \in Nat /\ at["B"] \in 1 .. 6 /\ at["R"] \in 1 .. 4
  <2>1. ASSUME NEW t \in Threads, t = "B" \/ t = "R"
        PROVE  rd[t] \in Nat /\ at[t] \in 1 .. IF t = "B" THEN 6 ELSE 4
    <3>1. rd[t] \in Nat /\ at[t] \in 1 .. Len(Program[t])
      BY DEF NetInv
    <3>2. Len(Program[t]) = IF t = "B" THEN 6 ELSE 4
      BY <2>1, Programs
    <3> QED  BY <3>1, <3>2
  <2> QED  BY <1>1, <2>1
<1>3. ASSUME NEW c \in Channel
      PROVE  /\ chan[c] \in Seq(SUBSET Nat) /\ Len(chan[c]) \in Nat /\ Written(rd, w, c) \in Nat
             /\ Taken(rd, r, c) \in Nat /\ Written(rd, w, c) = Taken(rd, r, c) + Len(chan[c])
  BY DEF NetInv, Holds
<1>4. Written(rd, w, "q_idx") = rd["B"] /\ Taken(rd, r, "q_idx") = fetched \div 2
  BY <1>1, <1>2 DEF Written, Taken, Writer, Reader, Done, Client
<1>5. Answered = rd["B"]
  <2>1. Written(rd, w, "q_idx") = Taken(rd, r, "q_idx") + Len(chan["q_idx"])
    BY <1>3 DEF Channel
  <2> QED  BY <1>4, <2>1, Lengths DEF Answered
<1>6. /\ Taken(rd, r, "q_start_idx") = Done(rd, "B", 4)
      /\ Written(rd, w, "q_start_idx") = Done(rd, "R", 4)
      /\ Taken(rd, r, "q_r") = Done(rd, "R", 2) /\ Written(rd, w, "q_r") = fed \div 4
  BY <1>1 DEF Written, Taken, Writer, Reader, Client
<1>7. \A c \in Channel : Taken(rd, r, c) <= Written(rd, w, c)
  <2> SUFFICES ASSUME NEW c \in Channel PROVE Taken(rd, r, c) <= Written(rd, w, c)
    OBVIOUS
  <2> QED  BY <1>3
<1>8. Done(rd, "B", 4) <= Done(rd, "R", 4) /\ Done(rd, "R", 2) <= fed \div 4
  BY <1>6, <1>7 DEF Channel
<1>9. fed \div 4 \in Nat /\ Fed = fed \div 4
  BY Lengths DEF Fed, Client
<1>10. Done(rd, "B", 4) <= Fed
  <2>1. Done(rd, "R", 4) <= Done(rd, "R", 2)
    BY <1>2 DEF Done
  <2>2. Done(rd, "B", 4) \in Nat /\ Done(rd, "R", 4) \in Nat /\ Done(rd, "R", 2) \in Nat
    BY <1>2 DEF Done
  <2> QED  BY <1>8, <1>9, <2>1, <2>2
<1> QED  BY <1>2, <1>5, <1>9, <1>10 DEF Done
\* The searchers read what the testbench does not, and write what it reads.
LEMMA SearchStep ==
  ASSUME NEW rd, NEW w, NEW r, NetInv(rd, w, r), Client(w, r),
         NEW t \in Threads, Run(t), UNCHANGED tb
  PROVE  \/ UNCHANGED chan["q_idx"]
         \/ Answered < Fed /\ chan'["q_idx"] = Append(chan["q_idx"], {Answered + 1})
<1>1. /\ at[t] \in 1 .. Len(Program[t]) /\ rd[t] \in Nat
      /\ got[t] = IF at[t] = 1 THEN {} ELSE {rd[t] + 1}
      /\ chan = [d \in Channel |-> chan[d]] /\ "q_idx" \in Channel
  BY DEF NetInv, Channel
<1>2. CASE Read(t)
  <2>1. PICK c \in Channel : Program[t][at[t]] = Get(c) /\ chan' = [chan EXCEPT ![c] = Tail(@)]
    BY <1>2 DEF Read, Receive
  <2>2. Reader[c] = <<t, at[t]>>
    BY <1>1, <2>1, Tables
  <2>3. c # "q_idx"
    BY <2>2, StratusAssumption DEF Reader
  <2> QED  BY <1>1, <2>1, <2>3
<1>3. CASE Write(t)
  <2>1. PICK c \in Channel : /\ Program[t][at[t]] = Put(c)
                             /\ chan' = [chan EXCEPT ![c] = Append(@, got[t])]
    BY <1>3 DEF Write, Send
  <2>2. Writer[c] = <<t, at[t]>>
    BY <1>1, <2>1, Tables
  <2>3. CASE c = "q_idx"
    <3>1. t = "B" /\ at["B"] = 6
      BY <2>2, <2>3 DEF Writer
    <3>2. Answered = rd["B"] /\ Answered < Fed
      BY <3>1, Counts
    <3>3. got[t] = {Answered + 1}
      BY <1>1, <3>1, <3>2
    <3> QED  BY <1>1, <2>1, <2>3, <3>2, <3>3
  <2>4. CASE c # "q_idx"
    BY <1>1, <2>1, <2>4
  <2> QED  BY <2>3, <2>4
<1> QED  BY <1>2, <1>3 DEF Run

Serves == Pe!Accept \/ Pe!Answer \/ Pe!Take

LEMMA ServiceStep == StratusInv /\ [Next]_vars => [Serves]_(Pe!peVars)
<1> SUFFICES ASSUME StratusInv, [Next]_vars PROVE Serves \/ UNCHANGED Pe!peVars
  OBVIOUS
<1> DEFINE inq == Line(Answered, Fed)
<1> USE DEF Serves
<1>1. PICK rd, w, r : NetInv(rd, w, r) /\ Client(w, r) /\ Results(r)
  BY DEF StratusInv
<1>2. Answered \in Nat /\ Fed \in Nat /\ Answered <= Fed
  BY <1>1, Counts
<1>3. /\ fed \in Nat /\ fed <= 4 * REQUESTS /\ fetched \in Nat /\ REQUESTS \in Nat
      /\ chan["q_idx"] \in Seq(SUBSET Nat) /\ chan = [c \in Channel |-> chan[c]]
      /\ "q_idx" \in Channel /\ Fed = fed \div 4
      /\ Answered = fetched \div 2 + Len(chan["q_idx"])
  BY <1>1, Lengths, StratusAssumption DEF Client, NetInv, Holds, Channel, Fed, Answered
<1>4. ASSUME UNCHANGED <<fed, fetched, chan["q_idx"]>> PROVE UNCHANGED Pe!peVars
  BY <1>4 DEF Pe!peVars, Fed, Answered
<1>5. CASE ReleaseReset \/ Stop \/ UNCHANGED vars
  BY <1>4, <1>5 DEF ReleaseReset, Stop, vars, netVars, tb
<1>6. CASE Feed
  <2>1. PICK c : c = Port(fed, Feeds)
    OBVIOUS
  <2>2. c # "q_idx"
    BY <1>3, <2>1, Ports, Quotients
  <2>3. chan'["q_idx"] = chan["q_idx"] /\ fetched' = fetched /\ fed' = fed + 1 /\ fed < 4 * REQUESTS
    BY <1>3, <1>6, <2>1, <2>2, Lengths DEF Feed, Send
  <2>4. Answered' = Answered /\ Fed' = (fed + 1) \div 4
    BY <2>3, Lengths DEF Answered, Fed
  <2>5. CASE fed % 4 = 3
    <3>1. Fed' = Fed + 1 /\ Fed + 1 <= REQUESTS
      BY <1>3, <2>3, <2>4, <2>5, SMT
    <3>2. Line(Answered, Fed)' = Append(inq, {Fed + 1})
      BY <1>2, <2>4, <3>1, Lines
    <3>3. {Fed + 1} \in {{k} : k \in 1 .. REQUESTS}
      BY <1>2, <3>1
    <3> QED  BY <2>3, <3>2, <3>3 DEF Pe!Accept, Line
  <2>6. CASE fed % 4 # 3
    <3>1. Fed' = Fed
      BY <1>3, <2>4, <2>6, SMT
    <3> QED  BY <2>3, <2>4, <3>1 DEF Pe!peVars
  <2> QED  BY <2>5, <2>6
<1>7. CASE Fetch
  <2>1. PICK c : c = Port(fetched, Fetches)
    OBVIOUS
  <2>2. c \in {"r_idx", "q_idx"} /\ (c = "q_idx" <=> fetched % 2 = 1)
    BY <1>3, <2>1, Ports, Quotients
  <2>3. chan[c] # <<>> /\ chan' = [chan EXCEPT ![c] = Tail(@)]
        /\ fetched' = fetched + 1 /\ fed' = fed
    BY <1>7, <2>1 DEF Fetch, Receive
  <2>4. Fed' = Fed /\ Answered' = (fetched + 1) \div 2 + Len(chan'["q_idx"])
    BY <2>3, Lengths DEF Answered, Fed
  <2>5. CASE fetched % 2 = 1
    <3>1. chan["q_idx"] # <<>> /\ chan'["q_idx"] = Tail(chan["q_idx"])
      BY <1>3, <2>2, <2>3, <2>5
    <3>2. Len(Tail(chan["q_idx"])) = Len(chan["q_idx"]) - 1 /\ Len(chan["q_idx"]) \in Nat
      BY <1>3, <3>1, HeadTailProperties
    <3>3. (fetched + 1) \div 2 = fetched \div 2 + 1
      BY <1>3, <2>5, SMT
    <3>4. Answered' = Answered
      BY <1>3, <2>4, <3>1, <3>2, <3>3
    <3> QED  BY <2>4, <3>1, <3>4 DEF Pe!Take
  <2>6. CASE fetched % 2 # 1
    <3>1. chan'["q_idx"] = chan["q_idx"]
      BY <1>3, <2>2, <2>3, <2>6
    <3>2. (fetched + 1) \div 2 = fetched \div 2
      BY <1>3, <2>6, SMT
    <3>3. Answered' = Answered
      BY <1>3, <2>4, <3>1, <3>2
    <3> QED  BY <2>4, <3>1, <3>3 DEF Pe!peVars
  <2> QED  BY <2>5, <2>6
<1>8. ASSUME NEW t \in Threads, Search(t) PROVE Serves \/ UNCHANGED Pe!peVars
  <2>1. fed' = fed /\ fetched' = fetched /\ Run(t) /\ UNCHANGED tb
    BY <1>8 DEF Search, tb
  <2>2. CASE UNCHANGED chan["q_idx"]
    BY <1>4, <2>1, <2>2
  <2>3. CASE Answered < Fed /\ chan'["q_idx"] = Append(chan["q_idx"], {Answered + 1})
    <3>1. Fed' = Fed /\ Answered' = Answered + 1
      <4>1. Len(chan'["q_idx"]) = Len(chan["q_idx"]) + 1 /\ Len(chan["q_idx"]) \in Nat
        BY <1>2, <1>3, <2>3, AppendProperties
      <4> QED  BY <1>3, <2>1, <4>1, Lengths DEF Answered, Fed
    <3>2. inq # <<>> /\ Head(inq) = {Answered + 1} /\ Line(Answered, Fed)' = Tail(inq)
      BY <1>2, <2>3, <3>1, Lines
    <3> QED  BY <2>3, <3>2 DEF Pe!Answer, Line
  <2> QED  BY <1>1, <2>1, <2>2, <2>3, SearchStep
<1> QED  BY <1>5, <1>6, <1>7, <1>8 DEF Next

\* The pipeline of System.h answers the requests one by one and in order, each
\* answer from one request only, with channels of any capacity.
THEOREM PipelineIsService == Spec => Pe!PESafety
<1>1. Init => Pe!PEInit
  <2> SUFFICES ASSUME Init PROVE Fed - Answered = 0 /\ chan["q_idx"] = <<>>
    BY DEF Pe!PEInit
  <2>1. fed = 0 /\ fetched = 0 /\ chan["q_idx"] = <<>>
    BY DEF Init, NetInit, Channel
  <2>2. Len(chan["q_idx"]) = 0
    BY <2>1, EmptySeq
  <2>3. Fed - Answered = 0
    <3>1. Fed = 0 \div 4 /\ Answered = 0 \div 2 + 0
      BY <2>1, <2>2, Lengths DEF Fed, Answered
    <3>2. 0 \div 4 = 0 /\ 0 \div 2 = 0
      BY SMT
    <3> QED  BY <3>1, <3>2
  <2> QED  BY <2>1, <2>3
<1> QED  BY <1>1, ServiceStep, Invariant, PTL DEF Spec, Serves, Pe!PESafety
=============================================================================
