--------------------------- MODULE OneCoreProofs ---------------------------
(***************************************************************************)
(* Of one core (sim_main.cpp with numP = 1), for any address space, line   *)
(* and word size, values and program: no load loses its address, and, if   *)
(* it stores whole words, no store is lost, and the cache, the bus loop    *)
(* and the backing memory are one atomic memory.                           *)
(*                                                                         *)
(* The single-core simulators run the same loop but for the host's answers *)
(* (Tohost); TohostProofs proves the first two claims with them, from the  *)
(* invariant without Clean: an answer is in the cache and not in memory.   *)
(***************************************************************************)
EXTENDS MsiBus, MsiBusProofs, TLAPS

\* A store writes the whole word: of other stores the claim is false (the run
\* msi_sub_word_store).
WholeWords ==
  \A c \in Cores : \A r \in Programs[c] : r.op = "store" => r.bytes = Bytes

OneCore == NumP = 1

rq    == req[0]
lines == in_port[0]
shown == out_port[0]

\* The word that the core's request addresses, in its cache.
Addressed == lines[rq.index].data[rq.word]

\* A core that has been evaluated at a falling edge, or is stalled a second
\* time, has been served.
Settled == clk[0] = 0 \/ stall_last[0]

\* A miss is served in the half cycle after the request enters the stage, so
\* that the extra toggle is a falling edge and the next rising edge stalls.
Served ==
  /\ step = "serve" => bus_traffic_last = NoCore /\ shown = lines
  /\ bus_traffic_last # NoCore =>
       step = "eval" /\ clk[0] = 1 /\ ~stall_last[0] /\ IsMem(rq)
  /\ Settled /\ IsMem(rq) => hit(rq, shown) /\ hit(rq, lines)
  /\ step = "eval" /\ IsMem(rq) => hit(rq, lines)

\* A stalled store is in the cache before the edge at which it leaves.
Written ==
  rq.op = "store" /\ stall_last[0] /\ ~(step = "serve" /\ clk[0] = 1)
    => Addressed = Merge(rq, Addressed)

\* What a shared line holds is in memory.
Clean ==
  \A i \in Indexes :
    lines[i].valid = Shared => lines[i].data = memory[<<lines[i].tag, i>>]

\* The load that may leave at the next edge reads what the cache holds.
LoadsFresh == rq.op = "load" /\ clk[0] = 0 => shown = lines

\* Where line a lives, of one core.
Home(a) ==
  IF lines[a[2]].tag = a[1] /\ lines[a[2]].valid = Modified
  THEN lines[a[2]].data ELSE memory[a]

Kept ==
  WholeWords => \A a \in LineAddr, w \in Words, b \in Bytes :
    Storing(0, a, w, b) \/ Home(a)[w][b] = arch[a][w][b]

FullStore == WholeWords /\ rq.op = "store" => rq.bytes = Bytes

\* All but Clean, which the host's answers break.
CoreInv == TypeOK /\ Served /\ Written /\ LoadsFresh /\ Kept /\ FullStore

OneInv == CoreInv /\ Clean

-----------------------------------------------------------------------------
LEMMA TheCore ==
  ASSUME OneCore
  PROVE  Cores = {0} /\ NoCore \notin Cores /\ NoCore # 0
BY SizeAssumption DEF OneCore, Cores, NoCore

\* The loop has one position and the request its type.
LEMMA TheLoop ==
  ASSUME OneCore, TypeOK
  PROVE  /\ loop_m = 0 /\ loop_i = 0
         /\ rq \in Request /\ (IsMem(rq) <=> rq \in MemRequest)
         /\ lines \in [Indexes -> Line] /\ shown \in [Indexes -> Line]
         /\ clk[0] \in {0, 1} /\ stall_last[0] \in BOOLEAN
<1>1. loop_m = 0
  BY SizeAssumption DEF OneCore, TypeOK
<1>2. loop_i = 0
  BY LoopInCores, TheCore
<1> QED BY <1>1, <1>2, TheCore
        DEF TypeOK, rq, lines, shown, IsMem, Request, MemRequest, Idle

\* Merging twice is merging once.
LEMMA MergeTwice ==
  ASSUME NEW r, NEW w
  PROVE  Merge(r, Merge(r, w)) = Merge(r, w)
BY DEF Merge

LEMMA MergeLanes ==
  ASSUME NEW r, NEW w, NEW b \in Bytes
  PROVE  Merge(r, w)[b] = IF b \in r.bytes THEN r.val ELSE w[b]
BY DEF Merge

\* The line of a request is an address.
LEMMA RequestAddress ==
  ASSUME NEW r \in MemRequest
  PROVE  /\ <<r.tag, r.index>> \in LineAddr
         /\ r.index \in Indexes /\ r.tag \in Tags /\ r.word \in Words
BY DEF MemRequest, LineAddr

\* At a rising edge a request that stalls stays as it is, and shows its hit
\* at the next one.
LEMMA HoldKeeps ==
  ASSUME OneCore, CoreInv, clk[0] = 0, stall(0), Hold(0)
  PROVE  req' = req /\ ~stall_last[0]
<1>1. IsMem(rq) /\ ~(stall_last[0] /\ hit(rq, shown))
  BY DEF stall, rq, shown
<1>2. hit(rq, shown)
  BY <1>1 DEF CoreInv, Served, Settled
<1>3. ~stall_last[0]
  BY <1>1, <1>2
<1> QED BY <1>3 DEF Hold

-----------------------------------------------------------------------------
(***************************************************************************)
(* Evaluations.                                                            *)
(***************************************************************************)

\* What an evaluation leaves of the request: the store that leaves is in the
\* cache already, and a request that stays is the same.
LEMMA EvalRequest ==
  ASSUME OneCore, CoreInv, step = "eval", Eval(0)
  PROVE  /\ lines' = lines /\ shown' = lines /\ memory' = memory
         /\ clk'[0] = 1 - clk[0]
         /\ \/ clk[0] = 0 /\ ~stall(0) /\ Retire(0)
            \/ /\ rq' = rq /\ arch' = arch
               /\ stall_last'[0] = IF clk[0] = 0 THEN TRUE ELSE stall_last[0]
               /\ clk[0] = 0 => IsMem(rq)
<1>1. /\ lines' = lines /\ shown' = lines /\ memory' = memory
      /\ clk'[0] = 1 - clk[0]
  BY TheCore DEF CoreInv, TypeOK, Eval, lines, shown
<1>2. CASE clk[0] = 0 /\ stall(0) /\ Hold(0)
  <2>1. req' = req
    BY <1>2, HoldKeeps
  <2>2. stall_last'[0] = TRUE /\ arch' = arch
    BY <1>2, TheCore DEF Hold, CoreInv, TypeOK
  <2>3. IsMem(rq)
    BY <1>2 DEF stall, rq
  <2> QED BY <1>1, <1>2, <2>1, <2>2, <2>3 DEF rq
<1>3. CASE clk[0] = 1 /\ UNCHANGED <<req, stall_last, reg, arch>>
  BY <1>1, <1>3 DEF rq
<1> QED BY <1>1, <1>2, <1>3 DEF Eval

\* A request that retires: a store's word is merged into arch, which thereby
\* agrees with the line's home in every byte.
LEMMA RetireKept ==
  ASSUME OneCore, CoreInv, step = "eval", clk[0] = 0, ~stall(0), Retire(0),
         lines' = lines, memory' = memory
  PROVE  Kept' /\ FullStore'
<1>1. FullStore'
  <2>1. PICK r \in Programs[0] \cup {Idle} : req' = [req EXCEPT ![0] = r]
    BY DEF Retire
  <2>2. rq' = r
    BY <2>1, TheCore DEF CoreInv, TypeOK, rq
  <2>3. WholeWords /\ r.op = "store" => r.bytes = Bytes
    BY <2>1, TheCore DEF WholeWords, Idle
  <2> QED BY <2>2, <2>3 DEF FullStore
<1>2. ASSUME NEW a \in LineAddr PROVE Home(a)' = Home(a)
  BY DEF Home
<1>3. CASE rq.op = "store"
  <2> DEFINE at == <<rq.tag, rq.index>>
  <2>1. rq \in MemRequest /\ IsMem(rq)
    BY <1>3, TheLoop DEF IsMem, CoreInv
  <2>2. stall_last[0] /\ hit(rq, shown)
    BY <2>1 DEF stall, rq, shown
  <2>3. hit(rq, lines)
    BY <2>1, <2>2 DEF CoreInv, Served, Settled
  <2>4. Home(at) = lines[rq.index].data
    BY <1>3, <2>3 DEF hit, readHit, writeHit, Home
  <2>5. Addressed = Merge(rq, Addressed)
    BY <1>3, <2>2 DEF CoreInv, Written
  <2>6. at \in LineAddr /\ rq.word \in Words
    BY <2>1, RequestAddress
  <2>7. arch' = [arch EXCEPT ![at] = [arch[at] EXCEPT
                   ![rq.word] = Merge(rq, arch[at][rq.word])]]
    <3>1. arch' = [arch EXCEPT ![<<req[0].tag, req[0].index>>][req[0].word] =
                                  Merge(req[0], @)]
      BY <1>3 DEF Retire, rq
    <3> QED BY <3>1 DEF rq
  <2>8. arch \in [LineAddr -> Data] /\ arch[at] \in [Words -> Word]
    BY <2>6 DEF CoreInv, TypeOK, Data
  <2>9. ASSUME WholeWords, NEW a \in LineAddr, NEW w \in Words, NEW b \in Bytes
        PROVE  Home(a)[w][b] = arch'[a][w][b]
    <3>1. CASE a = at /\ w = rq.word
      <4>1. arch'[a][w] = Merge(rq, arch[at][rq.word])
        BY <2>6, <2>7, <2>8, <3>1
      <4>2. Home(a)[w] = Merge(rq, Addressed)
        BY <2>4, <2>5, <3>1 DEF Addressed
      <4>3. CASE b \in rq.bytes
        BY <4>1, <4>2, <4>3, MergeLanes
      <4>4. CASE b \notin rq.bytes
        <5>1. ~Storing(0, a, w, b)
          BY <4>4 DEF Storing, rq
        <5>2. Home(a)[w][b] = arch[a][w][b]
          BY <2>9, <5>1 DEF CoreInv, Kept
        <5> QED BY <3>1, <4>1, <4>4, <5>2, MergeLanes
      <4> QED BY <4>3, <4>4
    <3>2. CASE ~(a = at /\ w = rq.word)
      <4>1. arch'[a][w] = arch[a][w]
        BY <2>6, <2>7, <2>8, <3>2
      <4>2. ~Storing(0, a, w, b)
        BY <3>2 DEF Storing, rq
      <4> QED BY <2>9, <4>1, <4>2 DEF CoreInv, Kept
    <3> QED BY <3>1, <3>2
  <2> QED BY <1>1, <1>2, <2>9 DEF Kept
<1>4. CASE rq.op # "store"
  <2>1. arch' = arch
    BY <1>4 DEF Retire, rq
  <2>2. ASSUME WholeWords, NEW a \in LineAddr, NEW w \in Words, NEW b \in Bytes
        PROVE  Home(a)[w][b] = arch[a][w][b]
    BY <1>4, <2>2 DEF CoreInv, Kept, Storing, rq
  <2> QED BY <1>1, <1>2, <2>1, <2>2 DEF Kept
<1> QED BY <1>3, <1>4

\* What an evaluation keeps of the data.
LEMMA EvalData ==
  ASSUME OneCore, CoreInv, step = "eval", Eval(0)
  PROVE  (Clean => Clean') /\ LoadsFresh' /\ Kept' /\ FullStore'
<1>1. /\ lines' = lines /\ shown' = lines /\ memory' = memory
  BY EvalRequest
<1>2. Clean => Clean'
  BY <1>1 DEF Clean
<1>3. LoadsFresh'
  BY <1>1 DEF LoadsFresh
<1>4. CASE clk[0] = 0 /\ ~stall(0) /\ Retire(0)
  BY <1>1, <1>2, <1>3, <1>4, RetireKept
<1>5. CASE rq' = rq /\ arch' = arch
  <2>1. ASSUME NEW a \in LineAddr PROVE Home(a)' = Home(a)
    BY <1>1 DEF Home
  <2>2. ASSUME NEW a \in LineAddr, NEW w \in Words, NEW b \in Bytes
        PROVE  Storing(0, a, w, b)' = Storing(0, a, w, b)
    BY <1>5 DEF Storing, rq
  <2> QED BY <1>2, <1>3, <1>5, <2>1, <2>2 DEF CoreInv, Kept, FullStore
<1> QED BY <1>4, <1>5, EvalRequest

\* The loop's turn.
LEMMA TurnOne ==
  ASSUME OneCore, CoreInv, Turn
  PROVE  CoreInv' /\ (Clean => Clean')
<1>1. TypeOK'
  BY TypeStep DEF Next, CoreInv
<1>2. loop_i = 0 /\ loop_m = 0 /\ clk[0] \in {0, 1}
  BY TheLoop DEF CoreInv
<1>3. prosFin_en = {}
  <2>1. prosFin_en \subseteq {0}
    BY TheCore DEF CoreInv, TypeOK
  <2> QED BY <2>1, TheCore DEF Turn, AllFinished
<1>4. /\ Eval(0) /\ step = "eval" /\ step' = "serve"
      /\ bus_traffic_last = NoCore /\ bus_traffic_last' = NoCore
  BY <1>2, <1>3 DEF Turn
<1>5. (Clean => Clean') /\ LoadsFresh' /\ Kept' /\ FullStore'
  BY <1>4, EvalData
<1>6. /\ lines' = lines /\ shown' = lines /\ clk'[0] = 1 - clk[0]
  BY <1>4, EvalRequest
<1>7. CASE clk[0] = 0 /\ ~stall(0) /\ Retire(0)
  <2>1. clk'[0] = 1
    BY <1>6, <1>7
  <2>2. ~stall_last'[0]
    BY <1>7, TheCore DEF Retire, CoreInv, TypeOK
  <2>3. Served'
    BY <1>4, <1>6, <2>1, <2>2 DEF Served, Settled
  <2>4. Written'
    BY <2>2 DEF Written
  <2> QED BY <1>1, <1>5, <2>3, <2>4 DEF CoreInv
<1>8. CASE /\ rq' = rq
           /\ stall_last'[0] = IF clk[0] = 0 THEN TRUE ELSE stall_last[0]
  <2>1. Served'
    <3>1. IsMem(rq) => hit(rq, lines)
      BY <1>4 DEF CoreInv, Served
    <3>2. IsMem(rq)' = IsMem(rq) /\ hit(rq, lines)' = hit(rq, lines)
          /\ hit(rq, shown)' = hit(rq, lines)
      BY <1>6, <1>8 DEF IsMem, hit, readHit, writeHit
    <3> QED BY <1>4, <1>6, <3>1, <3>2 DEF Served
  <2>2. Written'
    <3>1. CASE clk[0] = 0
      BY <1>4, <1>6, <3>1 DEF Written
    <3>2. CASE clk[0] = 1
      <4>1. stall_last'[0] = stall_last[0]
        BY <1>8, <3>2
      <4>2. Addressed' = Addressed /\ Merge(rq, Addressed)' = Merge(rq, Addressed)
        BY <1>6, <1>8 DEF Addressed, Merge
      <4> QED BY <1>4, <1>8, <4>1, <4>2 DEF CoreInv, Written
    <3> QED BY <1>2, <3>1, <3>2
  <2> QED BY <1>1, <1>5, <2>1, <2>2 DEF CoreInv
<1> QED BY <1>4, <1>7, <1>8, EvalRequest

\* The extra toggle of the granted core: a falling edge.
LEMMA OwnerTurnOne ==
  ASSUME OneCore, CoreInv, OwnerTurn
  PROVE  CoreInv' /\ (Clean => Clean')
<1>1. TypeOK'
  BY TypeStep DEF Next, CoreInv
<1>2. bus_traffic_last = 0 /\ NoCore # 0
  BY TheCore DEF OwnerTurn, CoreInv, TypeOK
<1>3. /\ Eval(0) /\ step = "eval" /\ step' = "eval"
      /\ bus_traffic_last' = NoCore
  BY <1>2 DEF OwnerTurn
<1>4. clk[0] = 1 /\ ~stall_last[0] /\ IsMem(rq) /\ hit(rq, lines)
  BY <1>2, <1>3 DEF CoreInv, Served
<1>5. (Clean => Clean') /\ LoadsFresh' /\ Kept' /\ FullStore'
  BY <1>3, EvalData
<1>6. /\ lines' = lines /\ shown' = lines
      /\ rq' = rq /\ ~stall_last'[0]
  BY <1>3, <1>4, EvalRequest
<1>7. Served'
  <2>1. hit(rq, lines)' /\ hit(rq, shown)'
    BY <1>4, <1>6 DEF hit, readHit, writeHit
  <2> QED BY <1>3, <2>1 DEF Served
<1>8. Written'
  BY <1>6 DEF Written
<1> QED BY <1>1, <1>5, <1>7, <1>8 DEF CoreInv

-----------------------------------------------------------------------------
(***************************************************************************)
(* What the bus serves.                                                    *)
(***************************************************************************)

\* With one core a miss writes back only the line it displaces.
LEMMA Displaced ==
  ASSUME OneCore, CoreInv, step = "serve", NEW r \in MemRequest, NEW a \in LineAddr
  PROVE  WrittenBack(0, r)[a] =
           IF /\ lines[r.index].tag # r.tag /\ lines[r.index].valid = Modified
              /\ a = <<lines[r.index].tag, r.index>>
           THEN lines[r.index].data ELSE memory[a]
<1>1. Dirty(0, r) = {}
  BY TheCore DEF Dirty
<1>2. out_port[0] = lines
  BY DEF CoreInv, Served, shown
<1> QED BY <1>1, <1>2 DEF WrittenBack, Evicts, Snooped

\* A fill leaves every line's home as it was, but for the line it fills.
LEMMA FillKeeps ==
  ASSUME OneCore, CoreInv, step = "serve", NEW r \in MemRequest, NEW fill \in Line,
         ~(lines[r.index].tag = r.tag /\ lines[r.index].valid = Modified),
         fill.tag = r.tag,
         lines' = [lines EXCEPT ![r.index] = fill],
         memory' = WrittenBack(0, r)
  PROVE  /\ \A a \in LineAddr :
              Home(a)' = IF a = <<r.tag, r.index>> /\ fill.valid = Modified
                         THEN fill.data ELSE Home(a)
         /\ memory'[<<r.tag, r.index>>] = Home(<<r.tag, r.index>>)
         /\ \A i \in Indexes \ {r.index} :
              memory'[<<lines[i].tag, i>>] = memory[<<lines[i].tag, i>>]
<1> DEFINE k == r.index
           at == <<r.tag, k>>
<1>1. k \in Indexes /\ at \in LineAddr
  BY RequestAddress
<1>2. lines \in [Indexes -> Line]
  BY TheLoop DEF CoreInv
<1>3. lines'[k] = fill /\ \A i \in Indexes \ {k} : lines'[i] = lines[i]
  BY <1>1, <1>2
<1>4. ASSUME NEW a \in LineAddr
      PROVE  memory'[a] = IF /\ lines[k].tag # r.tag /\ lines[k].valid = Modified
                             /\ a = <<lines[k].tag, k>>
                          THEN lines[k].data ELSE memory[a]
  BY Displaced
<1>5. Home(at) = memory[at] /\ memory'[at] = memory[at]
  BY <1>1, <1>4 DEF Home
<1>6. ASSUME NEW a \in LineAddr
      PROVE  Home(a)' = IF a = at /\ fill.valid = Modified THEN fill.data ELSE Home(a)
  <2>1. a[2] \in Indexes /\ a = <<a[1], a[2]>>
    BY DEF LineAddr
  <2>2. Home(a)' = IF lines'[a[2]].tag = a[1] /\ lines'[a[2]].valid = Modified
                   THEN lines'[a[2]].data ELSE memory'[a]
    BY DEF Home
  <2>3. CASE a = at
    <3>1. a[1] = r.tag /\ a[2] = k
      BY <2>3
    <3> QED BY <1>3, <1>5, <2>2, <2>3, <3>1
  <2>4. CASE a # at /\ a[2] = k
    <3>1. a[1] # r.tag
      BY <2>1, <2>4
    <3>2. Home(a)' = memory'[a]
      BY <1>3, <2>2, <2>4, <3>1
    <3>3. CASE lines[k].tag = a[1]
      <4>1. a = <<lines[k].tag, k>>
        BY <2>1, <2>4, <3>3
      <4> QED BY <1>4, <2>4, <3>1, <3>2, <3>3, <4>1 DEF Home
    <3>4. CASE lines[k].tag # a[1]
      <4>1. a # <<lines[k].tag, k>>
        BY <3>4
      <4> QED BY <1>4, <2>4, <3>2, <3>4, <4>1 DEF Home
    <3> QED BY <3>3, <3>4
  <2>5. CASE a[2] # k
    <3>1. a # at /\ a # <<lines[k].tag, k>>
      BY <2>5
    <3>2. lines'[a[2]] = lines[a[2]] /\ memory'[a] = memory[a]
      BY <1>3, <1>4, <2>1, <2>5, <3>1
    <3> QED BY <2>2, <3>1, <3>2 DEF Home
  <2> QED BY <2>3, <2>4, <2>5
<1>7. ASSUME NEW i \in Indexes \ {k}
      PROVE  memory'[<<lines[i].tag, i>>] = memory[<<lines[i].tag, i>>]
  <2>1. <<lines[i].tag, i>> \in LineAddr
    BY <1>2 DEF Line, LineAddr
  <2> QED BY <1>4, <2>1
<1> QED BY <1>5, <1>6, <1>7

\* A miss is served with the clock high and the request new.
LEMMA GrantOne ==
  ASSUME OneCore, CoreInv, Granted(0), IsMem(rq), ~hit(rq, out_port[0])
  PROVE  /\ step = "serve" /\ step' = "eval" /\ rq \in MemRequest
         /\ shown = lines /\ ~hit(rq, lines)
         /\ ~Settled /\ ~Settled'
         /\ clk'[0] = 1 /\ ~stall_last'[0]
         /\ rq' = rq /\ arch' = arch
<1>1. /\ step = "serve" /\ step' = "eval"
      /\ req' = req /\ arch' = arch /\ clk' = clk /\ stall_last' = stall_last
  BY DEF Granted, Serving, Advance, coreVars
<1>2. shown = lines /\ ~hit(rq, lines)
  BY <1>1 DEF CoreInv, Served, shown
<1>3. ~Settled
  BY <1>2 DEF CoreInv, Served
<1>4. rq \in MemRequest /\ clk[0] \in {0, 1}
  BY TheLoop DEF CoreInv
<1> QED BY <1>1, <1>2, <1>3, <1>4 DEF Settled, rq

\* The invariant after a fill, from what is in the line and where it lives.
LEMMA FillOne ==
  ASSUME OneCore, CoreInv, TypeOK', Granted(0), IsMem(rq), ~hit(rq, out_port[0]),
         hit(rq, lines)', Kept'
  PROVE  CoreInv'
<1>1. /\ step' = "eval" /\ ~Settled' /\ clk'[0] = 1 /\ ~stall_last'[0]
      /\ rq' = rq
  BY GrantOne
<1>2. Served'
  BY <1>1 DEF Served, IsMem
<1>3. Written' /\ LoadsFresh'
  BY <1>1 DEF Written, LoadsFresh
<1>4. FullStore'
  BY <1>1 DEF CoreInv, FullStore
<1> QED BY <1>2, <1>3, <1>4 DEF CoreInv

\* BusRd brings memory's line, which no one stores to.
LEMMA ReadMissOne ==
  ASSUME OneCore, CoreInv, ReadMiss(0)
  PROVE  CoreInv' /\ (Clean => Clean')
<1> DEFINE at == <<rq.tag, rq.index>>
           fill == [tag |-> rq.tag, valid |-> Shared,
                    data |-> WrittenBack(0, rq)[at]]
<1>1. TypeOK'
  BY TypeStep, TheCore DEF Next, Serve, CoreInv
<1>2. Granted(0) /\ rq.op = "load" /\ ~hit(rq, out_port[0]) /\ IsMem(rq)
  BY DEF ReadMiss, hit, readHit, writeHit, IsMem, rq
<1>3. /\ step = "serve" /\ rq \in MemRequest /\ ~hit(rq, lines)
      /\ rq' = rq /\ arch' = arch
  BY <1>2, GrantOne
<1>4. memory' = WrittenBack(0, rq) /\ lines' = [lines EXCEPT ![rq.index] = fill]
  BY TheCore DEF ReadMiss, lines, rq
<1>5. at \in LineAddr /\ rq.index \in Indexes /\ rq.tag \in Tags
  BY <1>3, RequestAddress
<1>6. fill \in Line
  <2>1. WrittenBack(0, rq)[at] \in Data
    BY <1>3, <1>5, WrittenBackType, TheCore DEF CoreInv
  <2> QED BY <1>5, <2>1 DEF Line
<1>7. fill.tag = rq.tag /\ fill.valid = Shared /\ fill.data = memory'[at]
  BY <1>4
<1> HIDE DEF fill
<1>8. ~(lines[rq.index].tag = rq.tag /\ lines[rq.index].valid = Modified)
  BY <1>2, <1>3 DEF hit, readHit
<1>9. /\ \A a \in LineAddr : Home(a)' = Home(a)
      /\ \A i \in Indexes \ {rq.index} :
           memory'[<<lines[i].tag, i>>] = memory[<<lines[i].tag, i>>]
  BY <1>3, <1>4, <1>6, <1>7, <1>8, FillKeeps DEF Shared, Modified
<1>10. lines'[rq.index] = fill
       /\ \A i \in Indexes \ {rq.index} : lines'[i] = lines[i]
  BY <1>4, <1>5, TheLoop DEF CoreInv
<1>11. hit(rq, lines)'
  BY <1>2, <1>3, <1>7, <1>10 DEF hit, readHit
<1>12. Clean => Clean'
  <2> SUFFICES ASSUME Clean, NEW i \in Indexes, lines'[i].valid = Shared
               PROVE  lines'[i].data = memory'[<<lines'[i].tag, i>>]
    BY DEF Clean
  <2>1. CASE i = rq.index
    BY <1>7, <1>10, <2>1
  <2>2. CASE i # rq.index
    BY <1>9, <1>10, <2>2 DEF Clean
  <2> QED BY <2>1, <2>2
<1>13. Kept'
  <2>1. ASSUME NEW a \in LineAddr, NEW w \in Words, NEW b \in Bytes
        PROVE  Storing(0, a, w, b)' = Storing(0, a, w, b)
    BY <1>3 DEF Storing, rq
  <2> QED BY <1>3, <1>9, <2>1 DEF CoreInv, Kept
<1> QED BY <1>1, <1>2, <1>11, <1>12, <1>13, FillOne

\* BusRdX brings memory's line but for the addressed word, all of whose bytes
\* the store is about to replace.
LEMMA WriteMissOne ==
  ASSUME OneCore, CoreInv, WriteMiss(0)
  PROVE  CoreInv' /\ (Clean => Clean')
<1> DEFINE at == <<rq.tag, rq.index>>
           data == [WrittenBack(0, rq)[at] EXCEPT
                      ![rq.word] = storeData(rq, out_port[0])]
           fill == [tag |-> rq.tag, valid |-> Modified, data |-> data]
<1>1. TypeOK'
  BY TypeStep, TheCore DEF Next, Serve, CoreInv
<1>2. Granted(0) /\ rq.op = "store" /\ ~hit(rq, out_port[0]) /\ IsMem(rq)
  BY DEF WriteMiss, hit, readHit, writeHit, IsMem, rq
<1>3. /\ step = "serve" /\ rq \in MemRequest /\ ~hit(rq, lines)
      /\ rq' = rq /\ arch' = arch
  BY <1>2, GrantOne
<1>4. memory' = WrittenBack(0, rq) /\ lines' = [lines EXCEPT ![rq.index] = fill]
  BY TheCore DEF WriteMiss, lines, rq
<1>5. at \in LineAddr /\ rq.index \in Indexes /\ rq.tag \in Tags /\ rq.word \in Words
  BY <1>3, RequestAddress
<1>6. memory'[at] \in [Words -> Word]
  BY <1>3, <1>4, <1>5, WrittenBackType, TheCore DEF CoreInv, Data
<1>7. data \in Data /\ \A w \in Words \ {rq.word} : data[w] = memory'[at][w]
  <2>1. storeData(rq, out_port[0]) \in Word
    BY <1>3, StoreDataType, TheCore DEF CoreInv
  <2> QED BY <1>4, <1>5, <1>6, <2>1 DEF Data
<1> HIDE DEF data
<1>8. fill \in Line
  BY <1>5, <1>7 DEF Line
<1>9. fill.tag = rq.tag /\ fill.valid = Modified /\ fill.data = data
  OBVIOUS
<1> HIDE DEF fill
<1>10. ~(lines[rq.index].tag = rq.tag /\ lines[rq.index].valid = Modified)
  BY <1>2, <1>3 DEF hit, writeHit
<1>11. /\ \A a \in LineAddr : Home(a)' = IF a = at THEN data ELSE Home(a)
       /\ memory'[at] = Home(at)
       /\ \A i \in Indexes \ {rq.index} :
            memory'[<<lines[i].tag, i>>] = memory[<<lines[i].tag, i>>]
  BY <1>3, <1>4, <1>8, <1>9, <1>10, FillKeeps
<1>12. lines'[rq.index] = fill
       /\ \A i \in Indexes \ {rq.index} : lines'[i] = lines[i]
  BY <1>4, <1>5, TheLoop DEF CoreInv
<1>13. hit(rq, lines)'
  BY <1>2, <1>3, <1>9, <1>12 DEF hit, writeHit
<1>14. Clean => Clean'
  <2> SUFFICES ASSUME Clean, NEW i \in Indexes, lines'[i].valid = Shared
               PROVE  lines'[i].data = memory'[<<lines'[i].tag, i>>]
    BY DEF Clean
  <2>1. i # rq.index
    BY <1>9, <1>12 DEF Shared, Modified
  <2> QED BY <1>11, <1>12, <2>1 DEF Clean
<1>15. Kept'
  <2> SUFFICES ASSUME WholeWords, NEW a \in LineAddr, NEW w \in Words, NEW b \in Bytes,
                      ~Storing(0, a, w, b)'
               PROVE  Home(a)'[w][b] = arch'[a][w][b]
    BY DEF Kept
  <2>1. ~Storing(0, a, w, b)
    BY <1>3 DEF Storing, rq
  <2>2. Home(a)[w][b] = arch[a][w][b]
    BY <2>1 DEF CoreInv, Kept
  <2>3. CASE a = at
    <3>1. w # rq.word
      BY <1>2, <2>1, <2>3 DEF CoreInv, FullStore, Storing, rq
    <3> QED BY <1>3, <1>7, <1>11, <2>2, <2>3, <3>1
  <2>4. CASE a # at
    BY <1>3, <1>11, <2>2, <2>4
  <2> QED BY <2>3, <2>4
<1> QED BY <1>1, <1>2, <1>13, <1>14, <1>15, FillOne

\* The request's line when its word has been stored.
StoredLine ==
  [lines[rq.index] EXCEPT !.data =
     [lines[rq.index].data EXCEPT ![rq.word] = Merge(rq, Addressed)]]

LEMMA StoredLineType ==
  ASSUME TypeOK, lines \in [Indexes -> Line], rq \in MemRequest
  PROVE  /\ lines[rq.index].data \in [Words -> Word]
         /\ StoredLine.tag = lines[rq.index].tag /\ StoredLine.valid = lines[rq.index].valid
         /\ StoredLine.data = [lines[rq.index].data EXCEPT ![rq.word] = Merge(rq, Addressed)]
<1>1. rq.index \in Indexes
  BY RequestAddress
<1>2. lines[rq.index] \in Line
  BY <1>1
<1> QED BY <1>2 DEF Line, Data, StoredLine

\* What a store that hits changes is what it stores to: every other byte stays what
\* it was where it lives.
LEMMA StoreKeeps ==
  ASSUME OneCore, WholeWords, CoreInv, writeHit(rq, lines), rq' = rq, arch' = arch,
         NEW a \in LineAddr, NEW w \in Words, NEW b \in Bytes, ~Storing(0, a, w, b),
         memory'[a] = memory[a],
         lines'[a[2]] = IF a[2] = rq.index THEN StoredLine ELSE lines[a[2]]
  PROVE  Home(a)'[w][b] = arch'[a][w][b]
<1> DEFINE k == rq.index
           word == Merge(rq, Addressed)
<1>1. rq.op = "store" /\ lines[k].tag = rq.tag /\ lines[k].valid = Modified
  BY DEF writeHit
<1>2. rq \in MemRequest /\ lines \in [Indexes -> Line]
  BY <1>1, TheLoop DEF IsMem, CoreInv
<1>3. k \in Indexes /\ rq.word \in Words
  BY <1>2, RequestAddress
<1>4. /\ StoredLine.tag = rq.tag /\ StoredLine.valid = Modified
      /\ StoredLine.data = [lines[k].data EXCEPT ![rq.word] = word]
      /\ lines[k].data \in [Words -> Word]
  BY <1>1, <1>2, StoredLineType DEF CoreInv
<1>5. Home(a)[w][b] = arch[a][w][b]
  BY DEF CoreInv, Kept
<1>6. a[2] \in Indexes /\ a = <<a[1], a[2]>>
  BY DEF LineAddr
<1>7. CASE a = <<rq.tag, k>>
  <2>1. Home(a) = lines[k].data /\ Home(a)' = StoredLine.data
    BY <1>1, <1>4, <1>7 DEF Home
  <2>2. CASE w = rq.word
    <3>1. b \notin rq.bytes
      BY <1>1, <1>7, <2>2 DEF Storing, rq
    <3>2. word[b] = Addressed[b]
      BY <3>1, MergeLanes
    <3>3. Home(a)'[w] = word /\ Home(a)[w] = Addressed
      BY <1>3, <1>4, <2>1, <2>2 DEF Addressed
    <3> QED BY <1>5, <3>2, <3>3
  <2>3. CASE w # rq.word
    BY <1>4, <1>5, <2>1, <2>3
  <2> QED BY <2>2, <2>3
<1>8. CASE a # <<rq.tag, k>>
  <2>1. Home(a)' = Home(a)
    <3>1. CASE a[2] = k
      BY <1>1, <1>4, <1>6, <1>8, <3>1 DEF Home
    <3>2. CASE a[2] # k
      BY <3>2 DEF Home
    <3> QED BY <3>1, <3>2
  <2> QED BY <1>5, <2>1
<1> QED BY <1>7, <1>8

\* A write hit puts the enabled bytes into the modified line.
LEMMA WriteHitOne ==
  ASSUME OneCore, CoreInv, WriteHit(0)
  PROVE  CoreInv' /\ (Clean => Clean')
<1> DEFINE k == rq.index
           word == Merge(rq, Addressed)
<1>1. TypeOK'
  BY TypeStep, TheCore DEF Next, Serve, CoreInv
<1>2. /\ step = "serve" /\ step' = "eval" /\ writeHit(rq, out_port[0])
      /\ bus_traffic_last' = bus_traffic_last /\ clk' = clk /\ rq' = rq
      /\ stall_last' = stall_last /\ arch' = arch /\ memory' = memory
      /\ out_port' = out_port
  BY DEF WriteHit, Serving, Advance, coreVars, rq
<1>3. out_port[0] = lines /\ bus_traffic_last = NoCore
  BY <1>2 DEF CoreInv, Served, shown
<1>4. rq.op = "store" /\ IsMem(rq) /\ rq \in MemRequest
      /\ lines[k].tag = rq.tag /\ lines[k].valid = Modified
  BY <1>2, <1>3, TheLoop DEF writeHit, IsMem, CoreInv
<1>5. k \in Indexes /\ rq.word \in Words
  BY <1>4, RequestAddress
<1>6. lines \in [Indexes -> Line]
  BY TheLoop DEF CoreInv
<1>7. storeData(rq, out_port[0]) = word
  BY <1>2, <1>3 DEF storeData, loadData, Addressed
<1>8. lines' = [lines EXCEPT ![k] = StoredLine]
  <2>1. in_port' = [in_port EXCEPT ![0][k].data[rq.word] = word]
    BY <1>7 DEF WriteHit, rq
  <2> HIDE DEF word
  <2>2. StoredLine = [lines[k] EXCEPT !.data = [lines[k].data EXCEPT ![rq.word] = word]]
    BY DEF StoredLine, word
  <2> QED BY <2>1, <2>2, TheCore DEF CoreInv, TypeOK, lines
<1>9. /\ StoredLine.tag = rq.tag /\ StoredLine.valid = Modified
      /\ StoredLine.data = [lines[k].data EXCEPT ![rq.word] = word]
      /\ lines[k].data \in [Words -> Word]
  BY <1>4, <1>6, StoredLineType DEF CoreInv
<1> HIDE DEF word
<1>10. lines'[k] = StoredLine /\ \A i \in Indexes \ {k} : lines'[i] = lines[i]
  BY <1>5, <1>6, <1>8
<1>11. writeHit(rq, lines) /\ writeHit(rq, lines)'
  BY <1>2, <1>4, <1>9, <1>10 DEF writeHit
<1>12. Served'
  <2>1. hit(rq, lines)' /\ hit(rq, shown)'
    BY <1>2, <1>11 DEF hit, shown, writeHit
  <2> QED BY <1>2, <1>3, <2>1 DEF Served
<1>13. Written'
  <2>1. Addressed' = word
    BY <1>2, <1>5, <1>9, <1>10 DEF Addressed
  <2>2. Merge(rq, word) = word
    BY MergeTwice DEF word
  <2>3. Merge(rq, Addressed)' = Merge(rq, word)
    BY <1>2, <2>1 DEF Merge
  <2> QED BY <2>1, <2>2, <2>3 DEF Written
<1>14. Clean => Clean'
  <2> SUFFICES ASSUME Clean, NEW i \in Indexes, lines'[i].valid = Shared
               PROVE  lines'[i].data = memory'[<<lines'[i].tag, i>>]
    BY DEF Clean
  <2>1. i # k
    BY <1>9, <1>10 DEF Shared, Modified
  <2> QED BY <1>2, <1>10, <2>1 DEF Clean
<1>15. LoadsFresh' /\ FullStore'
  BY <1>2, <1>4 DEF LoadsFresh, CoreInv, FullStore
<1>16. Kept'
  <2> SUFFICES ASSUME WholeWords, NEW a \in LineAddr, NEW w \in Words, NEW b \in Bytes,
                      ~Storing(0, a, w, b)'
               PROVE  Home(a)'[w][b] = arch'[a][w][b]
    BY DEF Kept
  <2>1. ~Storing(0, a, w, b)
    BY <1>2 DEF Storing, rq
  <2>2. lines'[a[2]] = IF a[2] = rq.index THEN StoredLine ELSE lines[a[2]]
    <3>1. a[2] \in Indexes
      BY DEF LineAddr
    <3> QED BY <1>10, <3>1
  <2> QED BY <1>2, <1>11, <2>1, <2>2, StoreKeeps
<1> QED BY <1>1, <1>12, <1>13, <1>14, <1>15, <1>16 DEF CoreInv

\* Nothing to serve: a load that hits, or no request.
LEMMA NothingOne ==
  ASSUME OneCore, CoreInv, step = "serve", Advance,
         UNCHANGED <<bus_traffic_last, coreVars, cacheVars>>,
         IsMem(rq) => readHit(rq, shown), TypeOK'
  PROVE  CoreInv' /\ (Clean => Clean')
<1>1. /\ step' = "eval" /\ bus_traffic_last' = bus_traffic_last /\ clk' = clk
      /\ rq' = rq /\ stall_last' = stall_last /\ arch' = arch
      /\ memory' = memory /\ lines' = lines /\ shown' = shown
  BY DEF Advance, coreVars, cacheVars, rq, lines, shown
<1>2. shown = lines /\ bus_traffic_last = NoCore
  BY DEF CoreInv, Served
<1>3. Served'
  <2>1. IsMem(rq)' => hit(rq, lines)' /\ hit(rq, shown)'
    BY <1>1, <1>2 DEF IsMem, hit, readHit, writeHit
  <2> QED BY <1>1, <1>2, <2>1 DEF Served
<1>4. Written'
  BY <1>1 DEF Written, IsMem, readHit
<1>5. (Clean => Clean') /\ LoadsFresh' /\ FullStore'
  BY <1>1, <1>2 DEF CoreInv, Clean, LoadsFresh, FullStore
<1>6. Kept'
  <2>1. ASSUME NEW a \in LineAddr PROVE Home(a)' = Home(a)
    BY <1>1 DEF Home
  <2>2. ASSUME NEW a \in LineAddr, NEW w \in Words, NEW b \in Bytes
        PROVE  Storing(0, a, w, b)' = Storing(0, a, w, b)
    BY <1>1 DEF Storing, rq
  <2> QED BY <1>1, <2>1, <2>2 DEF CoreInv, Kept
<1> QED BY <1>3, <1>4, <1>5, <1>6 DEF CoreInv

\* The caches start empty.
LEMMA OneInit ==
  ASSUME OneCore, Init
  PROVE  OneInv
<1>1. TypeOK
  BY TypeInit
<1>2. rq = Idle /\ ~stall_last[0] /\ step = "eval" /\ bus_traffic_last = NoCore
  BY TheCore DEF Init, rq
<1>3. \A i \in Indexes : lines[i].valid = Invalid
  BY TheCore DEF Init, lines
<1>4. Served /\ Written /\ LoadsFresh /\ FullStore
  BY <1>2 DEF Served, Written, LoadsFresh, FullStore, IsMem, Idle
<1>5. Clean
  BY <1>3 DEF Clean, Shared, Invalid
<1>6. Kept
  <2> SUFFICES ASSUME NEW a \in LineAddr PROVE Home(a) = arch[a]
    BY DEF Kept
  <2>1. a[2] \in Indexes /\ memory[a] = arch[a]
    BY DEF Init, LineAddr
  <2> QED BY <1>3, <2>1 DEF Home, Invalid, Modified
<1> QED BY <1>1, <1>4, <1>5, <1>6 DEF OneInv, CoreInv

\* Nothing happens to an invariant when nothing happens.
LEMMA OneStutter ==
  ASSUME OneCore, CoreInv, UNCHANGED vars
  PROVE  CoreInv' /\ (Clean => Clean')
<1>1. TypeOK'
  BY TypeStep DEF CoreInv
<1> QED BY <1>1
        DEF vars, busVars, coreVars, cacheVars, CoreInv, Served, Settled, Written,
            Clean, LoadsFresh, Kept, FullStore, Home, Storing, Addressed, IsMem,
            hit, readHit, writeHit, Merge, rq, lines, shown

\* The invariant of one core, one step per action.
THEOREM OneInductive ==
  ASSUME OneCore
  PROVE  Spec => []OneInv
<1>1. Init => OneInv
  BY OneInit
<1>2. OneInv /\ [Next]_vars => OneInv'
  <2> SUFFICES ASSUME OneInv, [Next]_vars PROVE OneInv'
    OBVIOUS
  <2>0. TypeOK'
    BY TypeStep DEF OneInv, CoreInv
  <2>1. CASE OwnerTurn
    BY <2>1, OwnerTurnOne DEF OneInv
  <2>2. CASE Turn
    BY <2>2, TurnOne DEF OneInv
  <2>3. CASE ReadMiss(0)
    BY <2>3, ReadMissOne DEF OneInv
  <2>4. CASE WriteMiss(0)
    BY <2>4, WriteMissOne DEF OneInv
  <2>5. CASE WriteHit(0)
    BY <2>5, WriteHitOne DEF OneInv
  <2>6. CASE Finish(0)
    <3>1. ~IsMem(rq)
      BY <2>6 DEF Finish, IsMem, Idle, rq
    <3> QED BY <2>0, <2>6, <3>1, NothingOne DEF OneInv, Finish, Serving
  <2>7. CASE Pass(0)
    <3>1. step = "serve" /\ bus_traffic_last = NoCore
      BY <2>7 DEF Pass, OneInv, CoreInv, Served
    <3>2. IsMem(rq) => readHit(rq, shown)
      BY <2>7, <3>1 DEF Pass, IsMem, Idle, rq, shown
    <3> QED BY <2>0, <2>7, <3>1, <3>2, NothingOne DEF OneInv, Pass
  <2>8. CASE UNCHANGED vars
    BY <2>8, OneStutter DEF OneInv
  <2> QED BY <2>1, <2>2, <2>3, <2>4, <2>5, <2>6, <2>7, <2>8, TheCore
          DEF Next, Serve, Stopped
<1> QED BY <1>1, <1>2, PTL DEF Spec

-----------------------------------------------------------------------------
(***************************************************************************)
(* What follows.                                                           *)
(***************************************************************************)

\* What every byte's home holds is what NoLostStore asks of it.
LEMMA CoreLosesNoStore ==
  ASSUME OneCore, WholeWords, CoreInv
  PROVE  NoLostStore
<1> SUFFICES ASSUME NEW a \in LineAddr, NEW w \in Words, NEW b \in Bytes,
                    ~(\E c \in Cores : Storing(c, a, w, b)), NEW data \in Residing(a)
             PROVE  data[w][b] = arch[a][w][b]
  BY DEF NoLostStore
<1>1. Home(a)[w][b] = arch[a][w][b]
  BY TheCore DEF CoreInv, Kept
<1>2. data = Home(a)
  BY TheCore DEF Residing, Holds, Home, lines
<1> QED BY <1>1, <1>2

\* One core, whole words: wherever a line lives, cache or memory, it holds the
\* last store to each of its bytes (sim_main.cpp:438-735).
THEOREM OneCoreLosesNoStore ==
  ASSUME OneCore, WholeWords
  PROVE  Spec => []NoLostStore
<1>1. OneInv => NoLostStore
  BY CoreLosesNoStore DEF OneInv
<1> QED BY <1>1, OneInductive, PTL

\* A step of one core changes the request, the registers and arch only by
\* retiring an instruction.
LEMMA OnlyRetires ==
  ASSUME OneCore, OneInv, [Next]_vars
  PROVE  \/ clk[0] = 0 /\ ~stall(0) /\ Retire(0)
         \/ UNCHANGED <<arch, req, reg>>
<1>1. ASSUME step = "eval", Eval(0)
      PROVE  \/ clk[0] = 0 /\ ~stall(0) /\ Retire(0)
             \/ UNCHANGED <<arch, req, reg>>
  <2>1. CASE clk[0] = 0 /\ stall(0) /\ Hold(0)
    BY <2>1, HoldKeeps DEF OneInv, Hold
  <2> QED BY <1>1, <2>1 DEF Eval
<1>2. CASE OwnerTurn
  <2>1. bus_traffic_last = 0
    BY <1>2, TheCore DEF OwnerTurn, OneInv, CoreInv, TypeOK
  <2> QED BY <1>1, <1>2, <2>1 DEF OwnerTurn
<1>3. CASE Turn
  <2>1. loop_i = 0
    BY TheLoop DEF OneInv, CoreInv
  <2> QED BY <1>1, <1>3, <2>1 DEF Turn, coreVars
<1>4. ASSUME NEW c \in Cores, Serve(c) PROVE UNCHANGED <<arch, req, reg>>
  BY <1>4 DEF Serve, ReadMiss, WriteMiss, WriteHit, Finish, Pass, Granted, coreVars
<1>5. CASE UNCHANGED vars
  BY <1>5 DEF vars, coreVars
<1> QED BY <1>2, <1>3, <1>4, <1>5 DEF Next, Stopped

\* With one core a miss is served before the load's second stalled edge, so
\* that reg_write_back_en (controller.sv:223) is right after all, for every program.
THEOREM OneCoreKeepsAddresses ==
  ASSUME OneCore
  PROVE  Spec => AddressStands
<1>1. OneInv /\ [Next]_vars => [\A c \in Cores : stall(c) => req'[c] = req[c]]_vars
  BY OnlyRetires, TheCore
<1> QED BY <1>1, OneInductive, PTL DEF Spec, AddressStands

\* A load that leaves has read its word as the stores before it left it.
LEMMA LoadReads ==
  ASSUME OneCore, WholeWords, OneInv, clk[0] = 0, ~stall(0), rq.op = "load"
  PROVE  loadData(rq, shown) = arch[<<rq.tag, rq.index>>][rq.word]
<1> DEFINE at == <<rq.tag, rq.index>>
<1>1. rq \in MemRequest /\ IsMem(rq)
  BY TheLoop DEF IsMem, OneInv, CoreInv
<1>2. hit(rq, shown)
  BY <1>1 DEF stall, rq, shown
<1>3. shown = lines
  BY DEF OneInv, CoreInv, LoadsFresh
<1>4. at \in LineAddr /\ rq.index \in Indexes /\ rq.word \in Words
  BY <1>1, RequestAddress
<1>5. lines[rq.index].tag = rq.tag /\ lines[rq.index].valid \in {Shared, Modified}
  BY <1>2, <1>3 DEF hit, readHit, writeHit
<1>6. Home(at) = lines[rq.index].data
  BY <1>4, <1>5 DEF Home, OneInv, CoreInv, Clean
<1>7. lines[rq.index].data[rq.word] \in Word /\ arch[at][rq.word] \in Word
  BY <1>4, TheLoop DEF OneInv, CoreInv, TypeOK, Line, Data
<1>8. ASSUME NEW b \in Bytes
      PROVE  Home(at)[rq.word][b] = arch[at][rq.word][b]
  BY <1>4 DEF OneInv, CoreInv, Kept, Storing, rq
<1>9. lines[rq.index].data[rq.word] = arch[at][rq.word]
  BY <1>6, <1>7, <1>8 DEF Word
<1> QED BY <1>3, <1>9 DEF loadData

\* One core that stores whole words, its cache, the bus loop and the backing
\* memory are one atomic memory: each instruction that retires is one step of it.
THEOREM OneCoreIsAtomic ==
  ASSUME OneCore, WholeWords
  PROVE  Spec => RefinesAtomicMemory
<1>0. DOMAIN Programs = Cores
  BY ProgramAssumption
<1>1. Init => AtomicMem!Init
  BY <1>0 DEF Init, AtomicMem!Init, LineAddr
<1>2. OneInv /\ [Next]_vars => [AtomicMem!Next]_<<arch, req, reg>>
  <2> SUFFICES ASSUME OneInv, clk[0] = 0, ~stall(0), Retire(0)
               PROVE  AtomicMem!Execute(0)
    BY <1>0, OnlyRetires, TheCore DEF AtomicMem!Next
  <2>1. \E r \in Programs[0] \cup {Idle} : req' = [req EXCEPT ![0] = r]
    BY DEF Retire
  <2>2. CASE rq.op = "load"
    <3>1. reg' = [reg EXCEPT ![0] = arch[<<rq.tag, rq.index>>][rq.word]]
      BY <2>2, LoadReads DEF Retire, rq, shown
    <3>2. arch' = arch
      BY <2>2 DEF Retire, rq
    <3>3. AtomicMem!Load(0)
      BY <2>2, <3>1, <3>2 DEF AtomicMem!Load, AtomicMem!LineOf, rq
    <3> QED BY <2>1, <3>3 DEF AtomicMem!Execute
  <2>3. CASE rq.op = "store"
    <3>1. arch' = [arch EXCEPT ![<<rq.tag, rq.index>>][rq.word] =
             [b \in Bytes |-> IF b \in rq.bytes THEN rq.val ELSE @[b]]]
      BY <2>3 DEF Retire, Merge, rq
    <3>2. reg' = reg
      BY <2>3 DEF Retire, rq
    <3>3. AtomicMem!Store(0)
      BY <2>3, <3>1, <3>2 DEF AtomicMem!Store, AtomicMem!LineOf, rq
    <3> QED BY <2>1, <3>3 DEF AtomicMem!Execute
  <2>4. CASE rq.op \notin {"load", "store"}
    <3>1. req[0] = Idle
      BY <2>4, TheLoop DEF OneInv, CoreInv, Request, MemRequest, rq
    <3>2. arch' = arch /\ reg' = reg
      BY <2>4 DEF Retire, rq
    <3> QED BY <2>1, <3>1, <3>2 DEF AtomicMem!Execute, AtomicMem!NoAccess
  <2> QED BY <2>2, <2>3, <2>4
<1> QED BY <1>1, <1>2, OneInductive, PTL DEF Spec, RefinesAtomicMemory, AtomicMem!Spec
=============================================================================
