--------------------------- MODULE TwoCoreProofs ---------------------------
(***************************************************************************)
(* Of two cores whose programs share no line, for any address space, line  *)
(* and word size and values: no load that waits loses its address, and, if *)
(* they store whole words, no store is lost, and the caches, the bus loop  *)
(* and the backing memory are one atomic memory.                           *)
(*                                                                         *)
(* The cores share nothing but the bus, and that is enough to lose a store *)
(* with three: a core that is refused the bus twice is served only when it *)
(* is stalled already, and its store leaves before it is written.  So the  *)
(* proof is about the schedule.  Of two cores one is refused at most once, *)
(* at a rising edge, and is served at the falling edge that follows.       *)
(***************************************************************************)
EXTENDS MsiBus, MsiBusProofs, TLAPS

\* Core c's program has an access to line a.
Uses(c, a) == \E r \in Programs[c] : a = <<r.tag, r.index>>

TwoCores ==
  /\ NumP = 2 /\ CORE_NUM_MAX % 2 = 0
  /\ \A c, d \in Cores, a \in LineAddr : c # d => ~(Uses(c, a) /\ Uses(d, a))

WholeWords ==
  \A c \in Cores : \A r \in Programs[c] : r.op = "store" => r.bytes = Bytes

Missing(c) == miss(req[c], in_port[c])

\* A core that stalls for a second time has its line, and shows it.
Ready(c) ==
  stall_last[c] /\ IsMem(req[c])
    => hit(req[c], in_port[c]) /\ hit(req[c], out_port[c])

\* A core that misses was refused at a rising edge.  The other does not miss,
\* and does not own the bus at the falling edge, at which this one is served.
Prompt(c) ==
  Missing(c) =>
    /\ clk[c] = 0 => /\ step = "serve" /\ loop_i = c
                     /\ run_core = NoCore /\ bus_traffic_last = NoCore
    /\ \A d \in Cores \ {c} : ~Missing(d) /\ ~(bus_traffic_last = d /\ clk[d] = 0)
    /\ run_core = NoCore => loop_m <= Position(c)

\* The core that has been granted its line has not stalled for it before, and
\* cannot leave at either of its two extra toggles.
Granting(c) ==
  /\ bus_traffic_last = c => IsMem(req[c]) /\ ~stall_last[c]
  /\ run_core = c => /\ IsMem(req[c]) /\ ~Missing(c)
                     /\ step = "eval" /\ clk[c] = 0 => ~stall_last[c]

\* The core to be served has just been evaluated.
Current(c) ==
  /\ step = "serve" /\ loop_i = c /\ IsMem(req[c]) => out_port[c] = in_port[c]
  /\ c \in prosFin_en => req[c] = Idle

\* A core asks for its own lines and holds no other.
Mine(c) ==
  /\ req[c] \in Programs[c] \cup {Idle}
  /\ \A i \in Indexes :
       /\ in_port[c][i].valid # Invalid => Uses(c, <<in_port[c][i].tag, i>>)
       /\ out_port[c][i].valid # Invalid => Uses(c, <<out_port[c][i].tag, i>>)

Timing(c) == Ready(c) /\ Prompt(c) /\ Granting(c) /\ Current(c) /\ Mine(c)

PairInv == IInv /\ ClockInv /\ \A c \in Cores : Timing(c)

-----------------------------------------------------------------------------
LEMMA TheCores ==
  ASSUME TwoCores
  PROVE  /\ Cores = {0, 1} /\ NoCore \notin Cores
         /\ \A c \in Cores : c # NoCore /\ c \in Int
BY SizeAssumption DEF TwoCores, Cores, NoCore

\* The types the proofs below need.
LEMMA CoreTypes ==
  ASSUME TypeOK, NEW c \in Cores
  PROVE  /\ req[c] \in Request /\ (IsMem(req[c]) <=> req[c] \in MemRequest)
         /\ (req[c] = Idle <=> ~IsMem(req[c]))
         /\ in_port[c] \in [Indexes -> Line] /\ out_port[c] \in [Indexes -> Line]
         /\ clk[c] \in {0, 1} /\ stall_last[c] \in BOOLEAN
BY DEF TypeOK, IsMem, Request, MemRequest, Idle

\* The line of a request is an address.
LEMMA RequestAddress ==
  ASSUME NEW r \in MemRequest
  PROVE  /\ <<r.tag, r.index>> \in LineAddr
         /\ r.index \in Indexes /\ r.tag \in Tags /\ r.word \in Words
BY DEF MemRequest, LineAddr

-----------------------------------------------------------------------------
(***************************************************************************)
(* What each half of the loop body does to a core.                         *)
(***************************************************************************)

\* Core c is left alone.
Untouched(c) ==
  /\ in_port'[c] = in_port[c] /\ out_port'[c] = out_port[c]
  /\ req'[c] = req[c] /\ clk'[c] = clk[c] /\ stall_last'[c] = stall_last[c]

Leaves(c) == clk[c] = 0 /\ ~stall(c) /\ Retire(c) /\ ~stall_last'[c]

\* No evaluation finds a core missing at a rising edge, so that a load keeps its
\* address, chained or not.
Stays(c) ==
  /\ req' = req /\ arch' = arch /\ reg' = reg
  /\ clk[c] = 0 => IsMem(req[c]) /\ ~Missing(c) /\ ~stall_last[c] /\ stall_last'[c]
  /\ clk[c] = 1 => stall_last'[c] = stall_last[c]

LEMMA EvalCore ==
  ASSUME TwoCores, PairInv, NEW c \in Cores, Eval(c), step = "eval"
  PROVE  /\ in_port' = in_port /\ memory' = memory
         /\ out_port'[c] = in_port[c] /\ clk'[c] = 1 - clk[c]
         /\ \A d \in Cores \ {c} : Untouched(d)
         /\ Leaves(c) \/ Stays(c)
<1>0. TypeOK
  BY DEF PairInv, IInv
<1>1. /\ in_port' = in_port /\ memory' = memory
      /\ out_port'[c] = in_port[c] /\ clk'[c] = 1 - clk[c]
  BY <1>0 DEF Eval, TypeOK
<1>2. ASSUME NEW d \in Cores \ {c} PROVE Untouched(d)
  <2>1. out_port'[d] = out_port[d] /\ req'[d] = req[d]
    BY <1>0, EvalPorts
  <2>2. clk'[d] = clk[d]
    BY <1>0 DEF Eval, TypeOK
  <2>3. stall_last'[d] = stall_last[d]
    BY <1>0 DEF Eval, Retire, Hold, TypeOK
  <2> QED BY <1>1, <2>1, <2>2, <2>3 DEF Untouched
<1>3. CASE clk[c] = 0 /\ ~stall(c) /\ Retire(c)
  <2>1. ~stall_last'[c]
    BY <1>0, <1>3 DEF Retire, TypeOK
  <2> QED BY <1>1, <1>2, <1>3, <2>1 DEF Leaves
<1>4. CASE clk[c] = 0 /\ stall(c) /\ Hold(c)
  <2>1. IsMem(req[c]) /\ ~(stall_last[c] /\ hit(req[c], out_port[c]))
    BY <1>4 DEF stall
  <2>2. ~stall_last[c]
    BY <2>1 DEF PairInv, Timing, Ready
  <2>3. ~Missing(c)
    BY <1>4 DEF PairInv, Timing, Prompt
  <2>4. req' = req /\ arch' = arch /\ reg' = reg
    BY <1>4, <2>2 DEF Hold
  <2>5. stall_last'[c]
    BY <1>0, <1>4 DEF Hold, TypeOK
  <2>6. clk[c] # 1
    BY <1>4
  <2> QED BY <1>1, <1>2, <2>1, <2>2, <2>3, <2>4, <2>5, <2>6 DEF Stays
<1>5. CASE clk[c] = 1 /\ UNCHANGED <<req, stall_last, reg, arch>>
  <2>1. Stays(c)
    BY <1>5 DEF Stays
  <2> QED BY <1>1, <1>2, <2>1
<1> QED BY <1>3, <1>4, <1>5 DEF Eval

\* At its extra toggles a core stays.
LEMMA ExtraStays ==
  ASSUME TwoCores, PairInv, NEW c \in Cores, Eval(c), step = "eval",
         bus_traffic_last = c \/ run_core = c
  PROVE  Stays(c)
<1>1. clk[c] = 0 => IsMem(req[c]) /\ ~stall_last[c]
  BY DEF PairInv, Timing, Granting
<1>2. clk[c] = 0 => stall(c)
  BY <1>1 DEF stall
<1> QED BY <1>2, EvalCore DEF Leaves

\* What core c asks for the other does not hold, nor show.
LEMMA NotShared ==
  ASSUME TwoCores, PairInv, NEW c \in Cores, NEW d \in Cores \ {c}, IsMem(req[c])
  PROVE  /\ ~(in_port[d][req[c].index].tag = req[c].tag
                /\ in_port[d][req[c].index].valid # Invalid)
         /\ ~(out_port[d][req[c].index].tag = req[c].tag
                /\ out_port[d][req[c].index].valid # Invalid)
<1> DEFINE r == req[c]
<1>1. r \in MemRequest /\ r # Idle
  BY CoreTypes DEF PairInv, IInv
<1>2. r \in Programs[c]
  BY <1>1 DEF PairInv, Timing, Mine
<1>3. Uses(c, <<r.tag, r.index>>) /\ <<r.tag, r.index>> \in LineAddr /\ r.index \in Indexes
  BY <1>1, <1>2, RequestAddress DEF Uses
<1>4. ~Uses(d, <<r.tag, r.index>>)
  BY <1>3 DEF TwoCores
<1>5. Mine(d)
  BY DEF PairInv, Timing
<1> QED BY <1>3, <1>4, <1>5 DEF Mine

Refills(c) ==
  LET r == req[c]
      at == <<r.tag, r.index>>
      old == in_port[c][r.index]
      new == in_port'[c][r.index]
  IN  /\ Missing(c) /\ ~stall_last[c]
      /\ bus_traffic_last = NoCore /\ bus_traffic_last' = c
      /\ \A a \in LineAddr :
           memory'[a] = IF /\ old.tag # r.tag /\ old.valid = Modified
                           /\ a = <<old.tag, r.index>>
                        THEN old.data ELSE memory[a]
      /\ \A i \in Indexes \ {r.index} : in_port'[c][i] = in_port[c][i]
      /\ new.tag = r.tag
      /\ r.op = "load" => new.valid = Shared /\ new.data = memory'[at]
      /\ r.op = "store" => /\ new.valid = Modified
                           /\ \A w \in Words \ {r.word} : new.data[w] = memory'[at][w]

Stores(c) ==
  LET r == req[c]
      old == in_port[c][r.index]
      new == in_port'[c][r.index]
  IN  /\ writeHit(r, in_port[c])
      /\ bus_traffic_last' = bus_traffic_last /\ memory' = memory
      /\ \A i \in Indexes \ {r.index} : in_port'[c][i] = in_port[c][i]
      /\ new.tag = old.tag /\ new.valid = old.valid
      /\ new.data = [old.data EXCEPT ![r.word] = Merge(r, old.data[r.word])]

Rests(c) ==
  /\ in_port'[c] = in_port[c] /\ memory' = memory
  /\ bus_traffic_last' = bus_traffic_last
  /\ Missing(c) => bus_traffic_last # NoCore
  /\ req[c].op = "store" => Missing(c)

\* The half of the loop body that serves core c.
Served(c) ==
  /\ step = "serve" /\ step' = "eval" /\ c = loop_i /\ Advance
  /\ req' = req /\ out_port' = out_port /\ clk' = clk /\ stall_last' = stall_last
  /\ arch' = arch /\ reg' = reg

LEMMA GrantIsNew ==
  ASSUME TwoCores, PairInv, NEW c \in Cores, Granted(c), IsMem(req[c]),
         ~hit(req[c], out_port[c])
  PROVE  /\ Served(c) /\ out_port[c] = in_port[c]
         /\ Missing(c) /\ ~stall_last[c]
         /\ bus_traffic_last = NoCore /\ bus_traffic_last' = c
         /\ prosFin_en' = prosFin_en
<1>1. Served(c) /\ bus_traffic_last = NoCore /\ bus_traffic_last' = c
      /\ prosFin_en' = prosFin_en
  BY DEF Granted, Serving, Served, coreVars, Advance
<1>2. out_port[c] = in_port[c]
  BY <1>1 DEF Served, PairInv, Timing, Current
<1>3. Missing(c)
  BY <1>2 DEF Missing, miss
<1>4. ~stall_last[c]
  BY CoreTypes DEF PairInv, IInv, Timing, Ready
<1> QED BY <1>1, <1>2, <1>3, <1>4

\* A miss writes back the line that it displaces.
LEMMA Displaced ==
  ASSUME TwoCores, PairInv, NEW c \in Cores, IsMem(req[c]), out_port[c] = in_port[c],
         NEW a \in LineAddr
  PROVE  WrittenBack(c, req[c])[a] =
           IF /\ in_port[c][req[c].index].tag # req[c].tag
              /\ in_port[c][req[c].index].valid = Modified
              /\ a = <<in_port[c][req[c].index].tag, req[c].index>>
           THEN in_port[c][req[c].index].data ELSE memory[a]
<1>1. Dirty(c, req[c]) = {}
  BY NotShared DEF Dirty, Snooped, Invalid, Modified
<1> QED BY <1>1 DEF WrittenBack, Evicts, Snooped

LEMMA ReadMissRefills ==
  ASSUME TwoCores, PairInv, NEW c \in Cores, ReadMiss(c)
  PROVE  Served(c) /\ Refills(c) /\ \A d \in Cores \ {c} : Untouched(d)
<1> DEFINE r == req[c]
           at == <<r.tag, r.index>>
           fill == [tag |-> r.tag, valid |-> Shared, data |-> WrittenBack(c, r)[at]]
<1>1. Granted(c) /\ IsMem(r) /\ ~hit(r, out_port[c]) /\ r.op = "load"
  BY DEF ReadMiss, IsMem, hit, readHit, writeHit
<1>2. /\ Served(c) /\ out_port[c] = in_port[c] /\ Missing(c) /\ ~stall_last[c]
      /\ bus_traffic_last = NoCore /\ bus_traffic_last' = c
  BY <1>1, GrantIsNew
<1>3. Dirty(c, r) = {}
  BY <1>1, NotShared DEF Dirty, Snooped, Invalid, Modified
<1>4. /\ memory' = WrittenBack(c, r)
      /\ in_port' = [d \in Cores |->
           IF d = c THEN [in_port[d] EXCEPT ![r.index] = fill]
           ELSE IF d \in Dirty(c, r)
           THEN [in_port[d] EXCEPT ![r.index].valid = Shared]
           ELSE in_port[d]]
  BY DEF ReadMiss
<1>5. \A d \in Cores \ {c} : Untouched(d)
  BY <1>2, <1>3, <1>4 DEF Served, Untouched
<1>6. in_port[c] \in [Indexes -> Line] /\ r \in MemRequest
  BY <1>1, CoreTypes DEF PairInv, IInv
<1>7. r.index \in Indexes
  BY <1>6, RequestAddress
<1>8. in_port'[c] = [in_port[c] EXCEPT ![r.index] = fill]
  BY <1>4
<1>9. fill.tag = r.tag /\ fill.valid = Shared /\ fill.data = memory'[at]
  BY <1>4
<1> HIDE DEF fill
<1>10. /\ in_port'[c][r.index] = fill
       /\ \A i \in Indexes \ {r.index} : in_port'[c][i] = in_port[c][i]
  BY <1>6, <1>7, <1>8
<1>11. \A a \in LineAddr :
         memory'[a] = IF /\ in_port[c][r.index].tag # r.tag
                         /\ in_port[c][r.index].valid = Modified
                         /\ a = <<in_port[c][r.index].tag, r.index>>
                      THEN in_port[c][r.index].data ELSE memory[a]
  BY <1>1, <1>2, <1>4, Displaced
<1>12. Refills(c)
  BY <1>1, <1>2, <1>9, <1>10, <1>11 DEF Refills
<1> QED BY <1>2, <1>5, <1>12

LEMMA WriteMissRefills ==
  ASSUME TwoCores, PairInv, NEW c \in Cores, WriteMiss(c)
  PROVE  Served(c) /\ Refills(c) /\ \A d \in Cores \ {c} : Untouched(d)
<1> DEFINE r == req[c]
           at == <<r.tag, r.index>>
           data == [WrittenBack(c, r)[at] EXCEPT ![r.word] = storeData(r, out_port[c])]
           fill == [tag |-> r.tag, valid |-> Modified, data |-> data]
<1>1. Granted(c) /\ IsMem(r) /\ ~hit(r, out_port[c]) /\ r.op = "store"
  BY DEF WriteMiss, IsMem, hit, readHit, writeHit
<1>2. /\ Served(c) /\ out_port[c] = in_port[c] /\ Missing(c) /\ ~stall_last[c]
      /\ bus_traffic_last = NoCore /\ bus_traffic_last' = c
  BY <1>1, GrantIsNew
<1>3. /\ memory' = WrittenBack(c, r)
      /\ in_port' = [d \in Cores |->
           IF d = c THEN [in_port[d] EXCEPT ![r.index] = fill]
           ELSE IF Snooped(d, r)
           THEN [in_port[d] EXCEPT ![r.index].valid = Invalid]
           ELSE in_port[d]]
  BY DEF WriteMiss
<1>4. in_port[c] \in [Indexes -> Line] /\ r \in MemRequest
  BY <1>1, CoreTypes DEF PairInv, IInv
<1>5. r.index \in Indexes /\ at \in LineAddr /\ r.word \in Words
  BY <1>4, RequestAddress
\* The other's line of that tag is invalid already.
<1>6. ASSUME NEW d \in Cores \ {c} PROVE Untouched(d)
  <2>1. in_port[d] \in [Indexes -> Line] /\ in_port[d][r.index] \in Line
    BY <1>5, CoreTypes DEF PairInv, IInv
  <2>2. CASE Snooped(d, r)
    <3>1. in_port[d][r.index].tag = r.tag
      BY <1>2, <1>5, <2>2, TheCores DEF PairInv, IInv, PortsAgree, Snooped
    <3>2. in_port[d][r.index].valid = Invalid
      BY <1>1, <3>1, NotShared
    <3>3. [in_port[d][r.index] EXCEPT !.valid = Invalid] = in_port[d][r.index]
      BY <2>1, <3>2 DEF Line
    <3>4. in_port'[d] = [in_port[d] EXCEPT ![r.index].valid = Invalid]
      BY <1>3, <2>2
    <3>5. in_port'[d] = in_port[d]
      BY <1>5, <2>1, <3>3, <3>4
    <3> QED BY <1>2, <3>5 DEF Served, Untouched
  <2>3. CASE ~Snooped(d, r)
    <3>1. in_port'[d] = in_port[d]
      BY <1>3, <2>3
    <3> QED BY <1>2, <3>1 DEF Served, Untouched
  <2> QED BY <2>2, <2>3
<1>7. memory'[at] \in [Words -> Word]
  BY <1>3, <1>4, <1>5, WrittenBackType DEF PairInv, IInv, Data
<1>8. \A w \in Words \ {r.word} : data[w] = memory'[at][w]
  BY <1>3, <1>5, <1>7
<1>9. in_port'[c] = [in_port[c] EXCEPT ![r.index] = fill]
  BY <1>3
<1>10. fill.tag = r.tag /\ fill.valid = Modified /\ fill.data = data
  OBVIOUS
<1> HIDE DEF data, fill
<1>11. /\ in_port'[c][r.index] = fill
       /\ \A i \in Indexes \ {r.index} : in_port'[c][i] = in_port[c][i]
  BY <1>4, <1>5, <1>9
<1>12. \A a \in LineAddr :
         memory'[a] = IF /\ in_port[c][r.index].tag # r.tag
                         /\ in_port[c][r.index].valid = Modified
                         /\ a = <<in_port[c][r.index].tag, r.index>>
                      THEN in_port[c][r.index].data ELSE memory[a]
  BY <1>1, <1>2, <1>3, Displaced
<1>13. Refills(c)
  BY <1>1, <1>2, <1>8, <1>10, <1>11, <1>12 DEF Refills
<1> QED BY <1>2, <1>6, <1>13

LEMMA WriteHitStores ==
  ASSUME TwoCores, PairInv, NEW c \in Cores, WriteHit(c)
  PROVE  Served(c) /\ Stores(c) /\ \A d \in Cores \ {c} : Untouched(d)
<1> DEFINE r == req[c]
           old == in_port[c][r.index]
           word == Merge(r, old.data[r.word])
           line == [old EXCEPT !.data = [old.data EXCEPT ![r.word] = word]]
<1>1. /\ Served(c) /\ writeHit(r, out_port[c])
      /\ bus_traffic_last' = bus_traffic_last /\ memory' = memory
  BY DEF WriteHit, Serving, Served, coreVars, Advance
<1>2. r \in MemRequest /\ IsMem(r) /\ in_port \in [Cores -> [Indexes -> Line]]
  BY <1>1, CoreTypes DEF writeHit, IsMem, PairInv, IInv, TypeOK
<1>3. out_port[c] = in_port[c]
  BY <1>1, <1>2 DEF Served, PairInv, Timing, Current
<1>4. r.index \in Indexes /\ r.word \in Words
  BY <1>2, RequestAddress
<1>5. storeData(r, out_port[c]) = word
  BY <1>1, <1>3 DEF storeData, loadData
<1>6. in_port' = [in_port EXCEPT ![c][r.index].data[r.word] = word]
  BY <1>5 DEF WriteHit
<1>7. old \in Line
  BY <1>2, <1>4
<1>8. /\ line.tag = old.tag /\ line.valid = old.valid
      /\ line.data = [old.data EXCEPT ![r.word] = word]
  BY <1>7 DEF Line
<1> HIDE DEF word
<1>9. in_port' = [in_port EXCEPT ![c] = [in_port[c] EXCEPT ![r.index] = line]]
  BY <1>6
<1> HIDE DEF line
<1>10. /\ in_port'[c][r.index] = line
       /\ \A i \in Indexes \ {r.index} : in_port'[c][i] = in_port[c][i]
       /\ \A d \in Cores \ {c} : in_port'[d] = in_port[d]
  BY <1>2, <1>4, <1>9
<1>11. \A d \in Cores \ {c} : Untouched(d)
  BY <1>1, <1>10 DEF Served, Untouched
<1>12. Stores(c)
  BY <1>1, <1>3, <1>8, <1>10 DEF Stores, word
<1> QED BY <1>1, <1>11, <1>12

\* The bus serves one core and touches nothing of the other.
LEMMA ServeCore ==
  ASSUME TwoCores, PairInv, NEW c \in Cores, Serve(c)
  PROVE  /\ Served(c) /\ \A d \in Cores \ {c} : Untouched(d)
         /\ prosFin_en' = prosFin_en \/ (req[c] = Idle /\ prosFin_en' = prosFin_en \cup {c})
         /\ Refills(c) \/ Stores(c) \/ Rests(c)
<1>1. CASE ReadMiss(c)
  BY <1>1, ReadMissRefills DEF ReadMiss, Granted
<1>2. CASE WriteMiss(c)
  BY <1>2, WriteMissRefills DEF WriteMiss, Granted
<1>3. CASE WriteHit(c)
  BY <1>3, WriteHitStores DEF WriteHit
<1>4. CASE Finish(c)
  <2>1. Served(c) /\ in_port' = in_port /\ memory' = memory
        /\ bus_traffic_last' = bus_traffic_last /\ req[c] = Idle
    BY <1>4 DEF Finish, Serving, Served, coreVars, cacheVars, Advance
  <2>2. Rests(c)
    BY <2>1 DEF Rests, Missing, miss, IsMem, Idle
  <2> QED BY <1>4, <2>1, <2>2 DEF Finish, Untouched, Served
<1>5. CASE Pass(c)
  <2>1. Served(c) /\ in_port' = in_port /\ memory' = memory
        /\ bus_traffic_last' = bus_traffic_last /\ prosFin_en' = prosFin_en
    BY <1>5 DEF Pass, Served, coreVars, cacheVars, Advance
  <2>2. IsMem(req[c]) => out_port[c] = in_port[c]
    BY <2>1 DEF Served, PairInv, Timing, Current
  <2>3. CASE req[c] = Idle
    <3>1. Rests(c)
      BY <2>1, <2>3 DEF Rests, Missing, miss, IsMem, Idle
    <3> QED BY <2>1, <3>1 DEF Untouched, Served
  <2>4. CASE readHit(req[c], out_port[c])
    <3>1. IsMem(req[c]) /\ req[c].op = "load"
      BY <2>4 DEF readHit, IsMem
    <3>2. ~Missing(c)
      BY <2>2, <2>4, <3>1 DEF Missing, miss, hit
    <3>3. Rests(c)
      BY <2>1, <3>1, <3>2 DEF Rests
    <3> QED BY <2>1, <3>3 DEF Untouched, Served
  <2>5. CASE miss(req[c], out_port[c]) /\ bus_traffic_last # NoCore
    <3>1. Missing(c)
      BY <2>2, <2>5 DEF Missing, miss
    <3>2. Rests(c)
      BY <2>1, <2>5, <3>1 DEF Rests
    <3> QED BY <2>1, <3>2 DEF Untouched, Served
  <2> QED BY <1>5, <2>3, <2>4, <2>5 DEF Pass
<1> QED BY <1>1, <1>2, <1>3, <1>4, <1>5 DEF Serve

-----------------------------------------------------------------------------
(***************************************************************************)
(* The schedule of two cores.                                              *)
(***************************************************************************)
LEMMA Positions ==
  ASSUME TwoCores, TypeOK, NEW c \in Cores
  PROVE  /\ Position(c) \in 0 .. 1 /\ loop_m \in 0 .. 1
         /\ run_core = NoCore => (loop_i = c <=> Position(c) = loop_m)
         /\ run_core # NoCore => loop_i = run_core
         /\ \A d \in Cores \ {c} : Position(d) # Position(c)
BY TheCores DEF TwoCores, Position, loop_i, TypeOK

\* At a core's turn the other is half a cycle ahead if the loop has passed it.
LEMMA OtherClock ==
  ASSUME TwoCores, PairInv, step = "eval", run_core = NoCore,
         NEW c \in Cores \ prosFin_en, NEW d \in Cores \ prosFin_en, loop_i = c, d # c
  PROVE  /\ loop_m < Position(d) => clk[d] = clk[c]
         /\ Position(d) < loop_m => clk[d] = 1 - clk[c]
<1>1. /\ Position(c) = loop_m /\ loop_m \in 0 .. 1 /\ Position(d) \in 0 .. 1
  BY Positions DEF PairInv, IInv
<1>2. ~Toggled(c) /\ (Toggled(d) <=> Position(d) < loop_m)
  BY <1>1 DEF Toggled
<1>3. clk[c] = main_time % 2
  BY <1>2 DEF PairInv, ClockInv
<1>4. clk[d] = IF Toggled(d) THEN 1 - (main_time % 2) ELSE main_time % 2
  BY DEF PairInv, ClockInv
<1> QED BY <1>1, <1>2, <1>3, <1>4

\* At a core's turn the bus is the other's only if that has had its turn.
LEMMA OtherOwner ==
  ASSUME TwoCores, PairInv, Turn, NEW c \in Cores, loop_i = c,
         bus_traffic_last # NoCore
  PROVE  /\ bus_traffic_last \in Cores \ {c} /\ run_core = NoCore
         /\ Position(bus_traffic_last) < loop_m
<1>1. bus_traffic_last # c /\ bus_traffic_last \in Cores
  BY OwnerWaits DEF PairInv, IInv, TypeOK
<1>2. loop_m # 0
  BY DEF Turn
<1> QED BY <1>1, <1>2 DEF PairInv, IInv, OwnerIsPast

\* A core that misses is running.
LEMMA MissingRuns ==
  ASSUME TwoCores, PairInv, NEW c \in Cores, IsMem(req[c])
  PROVE  c \notin prosFin_en
BY DEF PairInv, Timing, Current, IsMem, Idle

\* Serving a core leaves it missing only if the bus is taken.
LEMMA ServeMissing ==
  ASSUME TwoCores, PairInv, NEW c \in Cores, Serve(c)
  PROVE  /\ \A d \in Cores \ {c} : Missing(d)' = Missing(d)
         /\ Missing(c)' => Missing(c) /\ Rests(c) /\ bus_traffic_last # NoCore
<1>1. \A d \in Cores \ {c} : Missing(d)' = Missing(d)
  BY ServeCore DEF Untouched, Missing, miss, IsMem, hit, readHit, writeHit
<1>2. req'[c] = req[c]
  BY ServeCore DEF Served
<1>3. CASE Refills(c)
  <2>1. IsMem(req[c]) /\ req[c] \in MemRequest
    BY <1>3, CoreTypes DEF Refills, Missing, miss, PairInv, IInv
  <2>2. req[c].op \in {"load", "store"}
    BY <2>1 DEF MemRequest
  <2>3. ~Missing(c)'
    BY <1>2, <1>3, <2>2 DEF Refills, Missing, miss, hit, readHit, writeHit
  <2> QED BY <1>1, <2>3
<1>4. CASE Stores(c)
  <2>1. ~Missing(c)'
    BY <1>2, <1>4 DEF Stores, Missing, miss, hit, writeHit
  <2> QED BY <1>1, <2>1
<1>5. CASE Rests(c)
  <2>1. Missing(c)' = Missing(c)
    BY <1>2, <1>5 DEF Rests, Missing, miss, IsMem, hit, readHit, writeHit
  <2> QED BY <1>1, <1>5, <2>1 DEF Rests
<1> QED BY <1>3, <1>4, <1>5, ServeCore

LEMMA ServeReady ==
  ASSUME TwoCores, PairInv, NEW c \in Cores, Serve(c), NEW x \in Cores
  PROVE  Ready(x)'
<1>1. Ready(x)
  BY DEF PairInv, Timing
<1>2. CASE x # c
  BY <1>1, <1>2, ServeCore DEF Untouched, Ready, IsMem, hit, readHit, writeHit
<1>3. CASE x = c
  <2> SUFFICES ASSUME stall_last'[c], IsMem(req'[c])
               PROVE  hit(req'[c], in_port'[c]) /\ hit(req'[c], out_port'[c])
    BY <1>3 DEF Ready
  <2>1. req'[c] = req[c] /\ out_port'[c] = out_port[c] /\ stall_last'[c] = stall_last[c]
    BY ServeCore DEF Served
  <2>2. hit(req[c], in_port[c]) /\ hit(req[c], out_port[c]) /\ IsMem(req[c])
    BY <1>1, <1>3, <2>1 DEF Ready
  <2>3. ~Missing(c)
    BY <2>2 DEF Missing, miss
  <2>4. ~Missing(c)'
    BY <2>3, ServeMissing
  <2>5. hit(req'[c], in_port'[c])
    BY <2>4 DEF Missing, miss
  <2> QED BY <2>1, <2>2, <2>5
<1> QED BY <1>2, <1>3

LEMMA ServePrompt ==
  ASSUME TwoCores, PairInv, NEW c \in Cores, Serve(c), NEW x \in Cores, TypeOK'
  PROVE  Prompt(x)'
<1> SUFFICES ASSUME Missing(x)' PROVE Prompt(x)'
  BY DEF Prompt
<1>1. Missing(x) /\ Prompt(x)
  BY ServeMissing DEF PairInv, Timing
<1>2. /\ step = "serve" /\ loop_i = c /\ Advance /\ clk' = clk
  BY ServeCore DEF Served
<1>3. clk[x] # 0
  BY <1>1, <1>2, ServeMissing DEF Prompt
<1>4. ASSUME NEW d \in Cores \ {x}
      PROVE  ~Missing(d)' /\ ~(bus_traffic_last' = d /\ clk'[d] = 0)
  <2>1. ~Missing(d) /\ ~(bus_traffic_last = d /\ clk[d] = 0)
    BY <1>1 DEF Prompt
  <2>2. ~Missing(d)'
    BY <2>1, ServeMissing
  <2>3. bus_traffic_last' # bus_traffic_last => Refills(c) /\ bus_traffic_last' = c
    BY ServeCore DEF Refills, Stores, Rests
  <2>4. Refills(c) => c = x
    BY <1>1 DEF Refills, Prompt
  <2>5. Refills(c) => c # x
    BY ServeMissing DEF Refills
  <2> QED BY <1>2, <2>1, <2>2, <2>3, <2>4, <2>5
<1>5. ASSUME run_core' = NoCore PROVE loop_m' <= Position(x)'
  <2>1. loop_m \in 0 .. 1 /\ Position(x) \in 0 .. 1
    BY Positions DEF PairInv, IInv
  <2>2. Position(x)' \in 0 .. 1
    BY TheCores DEF TwoCores, Position
  <2>3. CASE loop_m < NumP - 1
    <3>1. loop_m = 0 /\ loop_m' = 1 /\ main_time' = main_time /\ run_core = NoCore
      BY <1>2, <1>5, <2>1, <2>3 DEF Advance, TwoCores
    <3>2. Position(x)' = Position(x)
      BY <3>1 DEF Position, Reversed
    <3>3. CASE Position(x) = 0
      <4>1. x = c
        BY <1>2, <3>1, <3>3, Positions DEF PairInv, IInv
      <4>2. bus_traffic_last # NoCore
        BY <4>1, ServeMissing
      <4>3. bus_traffic_last \in Cores /\ Position(bus_traffic_last) < 0
        BY <1>2, <3>1, <4>2 DEF PairInv, IInv, OwnerIsPast, TypeOK
      <4> QED BY <4>3, Positions DEF PairInv, IInv
    <3> QED BY <2>1, <3>1, <3>2, <3>3
  <2>4. CASE ~(loop_m < NumP - 1)
    BY <1>2, <2>2, <2>4 DEF Advance
  <2> QED BY <2>3, <2>4
<1> QED BY <1>2, <1>3, <1>4, <1>5 DEF Prompt

LEMMA ServeTiming ==
  ASSUME TwoCores, PairInv, NEW c \in Cores, Serve(c), NEW x \in Cores, TypeOK'
  PROVE  Timing(x)'
<1>1. Ready(x)' /\ Prompt(x)'
  BY ServeReady, ServePrompt
<1>2. /\ step = "serve" /\ step' = "eval" /\ loop_i = c /\ Advance
      /\ req' = req /\ out_port' = out_port /\ stall_last' = stall_last
  BY ServeCore DEF Served
<1>3. Granting(x)'
  <2>1. bus_traffic_last' = x => IsMem(req[x]) /\ ~stall_last[x]
    <3>1. CASE bus_traffic_last' = bus_traffic_last
      BY <3>1 DEF PairInv, Timing, Granting
    <3>2. CASE Refills(c)
      BY <3>2 DEF Refills, Missing, miss
    <3> QED BY <3>1, <3>2, ServeCore DEF Stores, Rests
  <2>2. run_core' # x
    <3>1. CASE run_core = NoCore
      BY <1>2, <3>1, TheCores DEF Advance
    <3>2. CASE run_core # NoCore
      <4>1. ~(loop_m < NumP - 1)
        BY <3>2, SizeAssumption DEF PairInv, IInv, OwnerIsPast
      <4> QED BY <1>2, <4>1, TheCores DEF Advance
    <3> QED BY <3>1, <3>2
  <2> QED BY <1>2, <2>1, <2>2 DEF Granting, IsMem
<1>4. Current(x)'
  BY <1>2, ServeCore DEF Current, PairInv, Timing
<1>5. Mine(x)'
  <2>1. Mine(x)
    BY DEF PairInv, Timing
  <2>2. CASE x # c
    BY <2>1, <2>2, ServeCore DEF Mine, Untouched
  <2>3. CASE x = c
    <3> SUFFICES ASSUME NEW i \in Indexes, in_port'[c][i].valid # Invalid
                 PROVE  Uses(c, <<in_port'[c][i].tag, i>>)
      BY <1>2, <2>1, <2>3 DEF Mine, Uses
    <3>1. CASE in_port'[c][i].tag = in_port[c][i].tag /\ in_port'[c][i].valid = in_port[c][i].valid
      BY <2>1, <2>3, <3>1 DEF Mine
    <3>2. CASE Refills(c) /\ i = req[c].index
      <4>1. IsMem(req[c]) /\ req[c] \in Programs[c] /\ in_port'[c][i].tag = req[c].tag
        BY <2>1, <2>3, <3>2 DEF Refills, Missing, miss, Mine, IsMem, Idle
      <4> QED BY <3>2, <4>1 DEF Uses
    <3> QED BY <3>1, <3>2, ServeCore DEF Refills, Stores, Rests
  <2> QED BY <2>2, <2>3
<1> QED BY <1>1, <1>3, <1>4, <1>5 DEF Timing

\* What does not change with an evaluation that leaves the request.
LEMMA StaysMissing ==
  ASSUME TwoCores, PairInv, NEW c \in Cores, Eval(c), step = "eval", Stays(c),
         NEW x \in Cores
  PROVE  /\ Missing(x)' = Missing(x) /\ req' = req /\ in_port' = in_port
         /\ Ready(x)' /\ Mine(x)'
         /\ Missing(x) => clk[x] = 1
<1>1. /\ req' = req /\ in_port' = in_port /\ out_port'[c] = in_port[c]
      /\ \A d \in Cores \ {c} : Untouched(d)
  BY EvalCore DEF Stays
<1>2. Missing(x)' = Missing(x)
  BY <1>1 DEF Missing, miss, IsMem, hit, readHit, writeHit
<1>3. clk[x] \in {0, 1} /\ clk[c] \in {0, 1}
  BY CoreTypes DEF PairInv, IInv
<1>4. Ready(x) /\ Mine(x) /\ Prompt(x)
  BY DEF PairInv, Timing
<1>5. Missing(x) => clk[x] = 1
  BY <1>3, <1>4 DEF Prompt
<1>6. Ready(x)'
  <2>1. CASE x # c
    BY <1>1, <1>4, <2>1 DEF Untouched, Ready
  <2>2. CASE x = c
    <3> SUFFICES ASSUME stall_last'[c], IsMem(req[c]) PROVE hit(req[c], in_port[c])
      BY <1>1, <2>2 DEF Ready
    <3>1. CASE clk[c] = 0
      BY <3>1 DEF Stays, Missing, miss
    <3>2. CASE clk[c] = 1
      BY <1>4, <2>2, <3>2 DEF Stays, Ready
    <3> QED BY <1>3, <3>1, <3>2
  <2> QED BY <2>1, <2>2
<1>7. Mine(x)'
  BY <1>1, <1>4 DEF Untouched, Mine, Uses
<1> QED BY <1>1, <1>2, <1>5, <1>6, <1>7

\* The extra toggle.
LEMMA OwnerTurnTiming ==
  ASSUME TwoCores, PairInv, OwnerTurn, NEW x \in Cores
  PROVE  Timing(x)'
<1> DEFINE c == bus_traffic_last
<1>1. /\ c \in Cores /\ Eval(c) /\ step = "eval" /\ step' = "eval"
      /\ run_core' = c /\ bus_traffic_last' = NoCore /\ prosFin_en' = prosFin_en
  BY DEF OwnerTurn, PairInv, IInv, TypeOK
<1>2. Stays(c)
  BY <1>1, ExtraStays
<1>3. /\ \A d \in Cores : Missing(d)' = Missing(d) /\ (Missing(d) => clk[d] = 1)
      /\ req' = req /\ Ready(x)' /\ Mine(x)'
  BY <1>1, <1>2, StaysMissing
<1>4. ~Missing(c)
  BY <1>1 DEF PairInv, IInv, GrantStands, Missing, miss
<1>5. /\ clk'[c] = 1 - clk[c] /\ clk[c] \in {0, 1}
      /\ \A d \in Cores \ {c} : Untouched(d)
  BY <1>1, EvalCore, CoreTypes DEF PairInv, IInv
<1>6. Prompt(x)'
  <2> SUFFICES ASSUME Missing(x)' PROVE Prompt(x)'
    BY DEF Prompt
  <2>1. Missing(x) /\ clk[x] = 1 /\ x # c
    BY <1>3, <1>4
  <2>2. clk'[x] = 1
    BY <1>5, <2>1 DEF Untouched
  <2>3. \A d \in Cores \ {x} : ~Missing(d)
    BY <2>1 DEF PairInv, Timing, Prompt
  <2>4. c # NoCore /\ \A d \in Cores : d # NoCore
    BY <1>1, TheCores
  <2> QED BY <1>1, <1>3, <2>2, <2>3, <2>4 DEF Prompt
<1>7. Granting(x)'
  <2>1. IsMem(req[c]) /\ ~stall_last[c]
    BY <1>1 DEF PairInv, Timing, Granting
  <2>2. clk'[c] = 0 => ~stall_last'[c]
    BY <1>2, <1>5, <2>1 DEF Stays
  <2>3. x # NoCore
    BY TheCores
  <2> QED BY <1>1, <1>3, <1>4, <2>1, <2>2, <2>3 DEF Granting
<1>8. Current(x)'
  BY <1>1, <1>3 DEF Current, PairInv, Timing
<1> QED BY <1>3, <1>6, <1>7, <1>8 DEF Timing

\* At a falling edge a refused core finds the bus free.
LEMMA BusFree ==
  ASSUME TwoCores, PairInv, Turn, NEW c \in Cores, loop_i = c, Missing(c), clk[c] = 1
  PROVE  run_core = NoCore /\ bus_traffic_last = NoCore
<1>1. IsMem(req[c]) /\ step = "eval"
  BY DEF Missing, miss, Turn
<1>2. run_core = NoCore
  <2> SUFFICES ASSUME run_core # NoCore PROVE FALSE
    OBVIOUS
  <2>1. run_core = c
    BY Positions DEF PairInv, IInv
  <2> QED BY <2>1 DEF PairInv, Timing, Granting
<1>3. bus_traffic_last = NoCore
  <2> SUFFICES ASSUME bus_traffic_last # NoCore PROVE FALSE
    OBVIOUS
  <2> DEFINE d == bus_traffic_last
  <2>1. d \in Cores \ {c} /\ Position(d) < loop_m
    BY OtherOwner
  <2>2. IsMem(req[d])
    BY <2>1 DEF PairInv, Timing, Granting
  <2>3. c \notin prosFin_en /\ d \notin prosFin_en
    BY <1>1, <2>1, <2>2, MissingRuns
  <2>4. clk[d] = 1 - clk[c]
    BY <1>1, <1>2, <2>1, <2>3, OtherClock
  <2>5. clk[d] = 0
    BY <2>4
  <2> QED BY <2>1, <2>5 DEF PairInv, Timing, Prompt
<1> QED BY <1>2, <1>3

\* The loop's turn, of a core that keeps its request.
LEMMA TurnStays ==
  ASSUME TwoCores, PairInv, Turn, NEW c \in Cores, loop_i = c, Eval(c), Stays(c),
         NEW x \in Cores
  PROVE  Timing(x)'
<1>1. /\ step = "eval" /\ step' = "serve" /\ loop_m' = loop_m /\ main_time' = main_time
      /\ UNCHANGED <<bus_traffic_last, run_core, prosFin_en>>
  BY DEF Turn
<1>2. loop_i' = loop_i /\ \A d \in Cores : Position(d)' = Position(d)
  BY <1>1 DEF loop_i, Position, Reversed
<1>3. /\ \A d \in Cores : Missing(d)' = Missing(d) /\ (Missing(d) => clk[d] = 1)
      /\ req' = req /\ in_port' = in_port /\ Ready(x)' /\ Mine(x)'
  BY <1>1, StaysMissing
<1>4. /\ clk'[c] = 1 - clk[c] /\ out_port'[c] = in_port[c]
      /\ \A d \in Cores \ {c} : Untouched(d)
  BY <1>1, EvalCore
<1>5. bus_traffic_last # c
  BY OwnerWaits DEF PairInv, IInv
<1>6. Prompt(x)'
  <2> SUFFICES ASSUME Missing(x)' PROVE Prompt(x)'
    BY DEF Prompt
  <2>1. Missing(x) /\ clk[x] = 1 /\ Prompt(x)
    BY <1>3 DEF PairInv, Timing
  <2>2. \A d \in Cores \ {x} : ~Missing(d)'
    BY <1>3, <2>1 DEF Prompt
  <2>3. run_core' = NoCore => loop_m' <= Position(x)'
    BY <1>1, <1>2, <2>1 DEF Prompt
  <2>4. CASE x = c
    <3>1. run_core = NoCore /\ bus_traffic_last = NoCore
      BY <2>1, <2>4, BusFree
    <3>2. \A d \in Cores : bus_traffic_last' # d
      BY <1>1, <3>1, TheCores
    <3> QED BY <1>1, <1>2, <2>2, <2>3, <2>4, <3>1, <3>2 DEF Prompt
  <2>5. CASE x # c
    <3>1. clk'[x] = 1
      BY <1>4, <2>1, <2>5 DEF Untouched
    <3>2. \A d \in Cores \ {x} : d = c
      BY <2>5, TheCores
    <3> QED BY <1>1, <1>5, <2>2, <2>3, <3>1, <3>2 DEF Prompt
  <2> QED BY <2>4, <2>5
<1>7. Granting(x)'
  <2>1. Granting(x)
    BY DEF PairInv, Timing
  <2>2. bus_traffic_last = x => stall_last'[x] = stall_last[x]
    BY <1>4, <1>5 DEF Untouched
  <2> QED BY <1>1, <1>3, <2>1, <2>2 DEF Granting
<1>8. Current(x)'
  BY <1>1, <1>2, <1>3, <1>4 DEF Current, PairInv, Timing
<1> QED BY <1>3, <1>6, <1>7, <1>8 DEF Timing

\* The loop's turn, of a core whose request leaves: the other misses nothing, and
\* does not own the bus in its low half cycle.
LEMMA TurnLeaves ==
  ASSUME TwoCores, PairInv, Turn, NEW c \in Cores, c \notin prosFin_en, loop_i = c,
         Eval(c), Leaves(c), ~Stays(c), NEW x \in Cores
  PROVE  Timing(x)'
<1>1. /\ step = "eval" /\ step' = "serve" /\ loop_m' = loop_m /\ main_time' = main_time
      /\ UNCHANGED <<bus_traffic_last, run_core, prosFin_en>>
  BY DEF Turn
<1>2. loop_i' = loop_i /\ \A d \in Cores : Position(d)' = Position(d)
  BY <1>1 DEF loop_i, Position, Reversed
<1>3. run_core = NoCore /\ bus_traffic_last # c /\ Position(c) = loop_m
  <2>1. run_core # c /\ bus_traffic_last # c
    BY <1>1, ExtraStays
  <2> QED BY <2>1, Positions DEF PairInv, IInv
<1>4. /\ in_port' = in_port /\ out_port'[c] = in_port[c]
      /\ \A d \in Cores \ {c} : Untouched(d)
      /\ clk[c] = 0 /\ clk'[c] = 1 /\ ~stall_last'[c] /\ Retire(c)
  BY <1>1, EvalCore DEF Leaves
<1>5. ASSUME NEW d \in Cores \ {c} PROVE Missing(d)' = Missing(d) /\ ~Missing(d)
  <2>1. Missing(d)' = Missing(d)
    BY <1>4 DEF Untouched, Missing, miss, IsMem, hit, readHit, writeHit
  <2>2. ~Missing(d)
    <3> SUFFICES ASSUME Missing(d) PROVE FALSE
      OBVIOUS
    <3>1. clk[d] # 0 /\ loop_m <= Position(d)
      BY <1>1, <1>3 DEF PairInv, Timing, Prompt
    <3>2. d \notin prosFin_en
      BY MissingRuns DEF Missing, miss
    <3>3. loop_m < Position(d)
      <4>1. Position(d) # Position(c) /\ loop_m \in 0 .. 1 /\ Position(d) \in 0 .. 1
        BY Positions DEF PairInv, IInv
      <4> QED BY <1>3, <3>1, <4>1
    <3> QED BY <1>1, <1>3, <1>4, <3>1, <3>2, <3>3, OtherClock
  <2> QED BY <2>1, <2>2
<1>6. ASSUME NEW d \in Cores \ {c}, bus_traffic_last = d PROVE clk'[d] # 0
  <2>1. Position(d) < loop_m
    BY <1>6, OtherOwner, TheCores
  <2>2. d \notin prosFin_en
    BY <1>6, MissingRuns DEF PairInv, Timing, Granting
  <2>3. clk[d] = 1 - clk[c]
    BY <1>1, <1>3, <2>1, <2>2, OtherClock
  <2> QED BY <1>4, <2>3 DEF Untouched
<1>7. PICK r \in Programs[c] \cup {Idle} : req' = [req EXCEPT ![c] = r]
  BY <1>4 DEF Retire
<1>8. req'[c] = r
  BY <1>7 DEF PairInv, IInv, TypeOK
<1>9. CASE x = c
  <2>1. Ready(c)' /\ Granting(c)'
    BY <1>1, <1>3, <1>4, TheCores DEF Ready, Granting
  <2>2. Prompt(c)'
    BY <1>1, <1>2, <1>3, <1>4, <1>5, <1>6, Positions DEF Prompt, PairInv, IInv
  <2>3. Current(c)'
    BY <1>1, <1>2, <1>4 DEF Current
  <2>4. Mine(c)'
    <3>1. Mine(c)
      BY DEF PairInv, Timing
    <3> QED BY <1>4, <1>8, <3>1 DEF Mine, Uses
  <2> QED BY <1>9, <2>1, <2>2, <2>3, <2>4 DEF Timing
<1>10. CASE x # c
  <2>1. Untouched(x) /\ Timing(x)
    BY <1>4, <1>10 DEF PairInv
  <2>2. Ready(x)' /\ Mine(x)'
    BY <2>1 DEF Untouched, Timing, Ready, Mine, Uses
  <2>3. Prompt(x)'
    BY <1>5, <1>10 DEF Prompt
  <2>4. Granting(x)'
    BY <1>1, <1>3, <2>1, TheCores DEF Untouched, Timing, Granting
  <2>5. Current(x)'
    BY <1>1, <1>2, <1>10, <2>1 DEF Untouched, Timing, Current
  <2> QED BY <2>2, <2>3, <2>4, <2>5 DEF Timing
<1> QED BY <1>9, <1>10

\* The loop's turn.
LEMMA TurnTiming ==
  ASSUME TwoCores, PairInv, Turn, NEW x \in Cores
  PROVE  Timing(x)'
<1> DEFINE c == loop_i
<1>1. c \in Cores
  BY LoopInCores DEF PairInv, IInv
<1>2. CASE c \notin prosFin_en /\ Eval(c)
  BY <1>1, <1>2, EvalCore, TurnStays, TurnLeaves DEF Turn
<1>3. CASE c \in prosFin_en /\ UNCHANGED <<coreVars, cacheVars>>
  <2>1. /\ step = "eval" /\ step' = "serve" /\ loop_m' = loop_m /\ main_time' = main_time
        /\ UNCHANGED <<bus_traffic_last, run_core, prosFin_en>>
        /\ UNCHANGED <<req, in_port, out_port, clk, stall_last>>
    BY <1>3 DEF Turn, coreVars, cacheVars
  <2>2. loop_i' = loop_i /\ \A d \in Cores : Position(d)' = Position(d)
    BY <2>1 DEF loop_i, Position, Reversed
  <2>3. \A d \in Cores : Missing(d)' = Missing(d)
    BY <2>1 DEF Missing, miss, IsMem, hit, readHit, writeHit
  <2>4. Timing(x)
    BY DEF PairInv
  <2>5. Ready(x)' /\ Mine(x)'
    BY <2>1, <2>4 DEF Timing, Ready, Mine
  <2>6. Prompt(x)' /\ Granting(x)'
    BY <2>1, <2>2, <2>3, <2>4 DEF Timing, Prompt, Granting
  <2>7. Current(x)'
    <3>1. req[c] = Idle
      BY <1>1, <1>3 DEF PairInv, Timing, Current
    <3> QED BY <2>1, <2>2, <2>4, <3>1 DEF Timing, Current, IsMem, Idle
  <2> QED BY <2>5, <2>6, <2>7 DEF Timing
<1> QED BY <1>2, <1>3 DEF Turn

-----------------------------------------------------------------------------
(***************************************************************************)
(* The data.                                                               *)
(***************************************************************************)

\* The word that core c's request addresses, in its cache.
Addressed(c) == in_port[c][req[c].index].data[req[c].word]

\* A stalled store is in the cache from the half cycle in which it is served: the
\* one of its second extra toggle, if it was filled at a falling edge.
Written(c) ==
  req[c].op = "store" /\ stall_last[c] /\ run_core # c /\ ~(step = "serve" /\ loop_i = c)
    => Addressed(c) = Merge(req[c], Addressed(c))

\* A stalled load reads what the cache holds.
LoadsFresh(c) == req[c].op = "load" /\ stall_last[c] => out_port[c] = in_port[c]

\* What a shared line holds is in memory.
Clean(c) ==
  \A i \in Indexes :
    in_port[c][i].valid = Shared => in_port[c][i].data = memory[<<in_port[c][i].tag, i>>]

\* Where line a lives, if only core c uses it.
Home(c, a) ==
  IF in_port[c][a[2]].tag = a[1] /\ in_port[c][a[2]].valid = Modified
  THEN in_port[c][a[2]].data ELSE memory[a]

Private(c, a) == \A d \in Cores \ {c} : ~Uses(d, a)

Kept(c) ==
  \A a \in LineAddr, w \in Words, b \in Bytes :
    Private(c, a) => Storing(c, a, w, b) \/ Home(c, a)[w][b] = arch[a][w][b]

Holding(c) == Written(c) /\ LoadsFresh(c) /\ Clean(c) /\ Kept(c)

LEMMA MergeTwice ==
  ASSUME NEW r, NEW w
  PROVE  Merge(r, Merge(r, w)) = Merge(r, w)
BY DEF Merge

LEMMA MergeLanes ==
  ASSUME NEW r, NEW w, NEW b \in Bytes
  PROVE  Merge(r, w)[b] = IF b \in r.bytes THEN r.val ELSE w[b]
BY DEF Merge

\* What a core asks for is its own.
LEMMA OwnRequest ==
  ASSUME TwoCores, PairInv, NEW c \in Cores, IsMem(req[c])
  PROVE  /\ req[c] \in MemRequest /\ <<req[c].tag, req[c].index>> \in LineAddr
         /\ req[c].index \in Indexes /\ req[c].word \in Words /\ req[c].tag \in Tags
         /\ Private(c, <<req[c].tag, req[c].index>>)
         /\ \A d \in Cores \ {c} : \A a \in LineAddr :
              Private(d, a) => a # <<req[c].tag, req[c].index>>
         /\ WholeWords /\ req[c].op = "store" => req[c].bytes = Bytes
<1> DEFINE r == req[c]
<1>1. r \in MemRequest /\ r # Idle
  BY CoreTypes DEF PairInv, IInv
<1>2. r \in Programs[c]
  BY <1>1 DEF PairInv, Timing, Mine
<1>3. Uses(c, <<r.tag, r.index>>)
  BY <1>2 DEF Uses
<1>4. <<r.tag, r.index>> \in LineAddr /\ r.index \in Indexes /\ r.word \in Words /\ r.tag \in Tags
  BY <1>1, RequestAddress
<1>5. Private(c, <<r.tag, r.index>>)
  BY <1>3, <1>4 DEF TwoCores, Private
<1>6. \A d \in Cores \ {c} : \A a \in LineAddr : Private(d, a) => a # <<r.tag, r.index>>
  BY <1>3 DEF Private
<1>7. WholeWords /\ r.op = "store" => r.bytes = Bytes
  BY <1>2 DEF WholeWords
<1> QED BY <1>1, <1>4, <1>5, <1>6, <1>7

\* The lines that a core holds are private to it.
LEMMA OwnLines ==
  ASSUME TwoCores, PairInv, NEW c \in Cores, NEW i \in Indexes,
         in_port[c][i].valid # Invalid
  PROVE  /\ <<in_port[c][i].tag, i>> \in LineAddr
         /\ Uses(c, <<in_port[c][i].tag, i>>)
         /\ \A d \in Cores \ {c} : ~Uses(d, <<in_port[c][i].tag, i>>)
<1>1. in_port[c][i] \in Line
  BY CoreTypes DEF PairInv, IInv
<1>2. <<in_port[c][i].tag, i>> \in LineAddr
  BY <1>1 DEF Line, LineAddr
<1>3. Uses(c, <<in_port[c][i].tag, i>>)
  BY DEF PairInv, Timing, Mine
<1> QED BY <1>2, <1>3 DEF TwoCores

\* Serving a core changes no line of the other in memory.
LEMMA ServeMemory ==
  ASSUME TwoCores, PairInv, NEW c \in Cores, Serve(c), NEW a \in LineAddr, ~Uses(c, a)
  PROVE  memory'[a] = memory[a]
<1>1. CASE Refills(c)
  <2> DEFINE i == req[c].index
  <2>1. i \in Indexes
    BY <1>1, OwnRequest DEF Refills, Missing, miss
  <2>2. ~(in_port[c][i].valid = Modified /\ a = <<in_port[c][i].tag, i>>)
    BY <2>1, OwnLines DEF Invalid, Modified
  <2> QED BY <1>1, <2>2 DEF Refills
<1> QED BY <1>1, ServeCore DEF Stores, Rests

\* A core that is not touched holds what it held, if what is private to it stays in
\* memory and in arch.
LEMMA Elsewhere ==
  ASSUME TwoCores, PairInv, NEW c \in Cores, Holding(c), Untouched(c),
         \A a \in LineAddr : Private(c, a) => memory'[a] = memory[a] /\ arch'[a] = arch[a]
  PROVE  LoadsFresh(c)' /\ Clean(c)' /\ Kept(c)'
<1>1. LoadsFresh(c)'
  BY DEF Untouched, Holding, LoadsFresh
<1>2. Clean(c)'
  <2> SUFFICES ASSUME NEW i \in Indexes, in_port[c][i].valid = Shared
               PROVE  in_port[c][i].data = memory'[<<in_port[c][i].tag, i>>]
    BY DEF Clean, Untouched
  <2>1. <<in_port[c][i].tag, i>> \in LineAddr /\ Private(c, <<in_port[c][i].tag, i>>)
    BY OwnLines DEF Private, Shared, Invalid
  <2> QED BY <2>1 DEF Holding, Clean
<1>3. Kept(c)'
  <2> SUFFICES ASSUME NEW a \in LineAddr, NEW w \in Words, NEW b \in Bytes,
                      Private(c, a), ~Storing(c, a, w, b)'
               PROVE  Home(c, a)'[w][b] = arch'[a][w][b]
    BY DEF Kept, Private, Uses
  <2>1. ~Storing(c, a, w, b)
    BY DEF Storing, Untouched
  <2>2. Home(c, a)' = Home(c, a)
    BY DEF Home, Untouched
  <2> QED BY <2>1, <2>2 DEF Holding, Kept
<1> QED BY <1>1, <1>2, <1>3

-----------------------------------------------------------------------------
(***************************************************************************)
(* What serving a core does to the lines it holds.                         *)
(***************************************************************************)

\* A fill leaves every line's home as it was, but for the line it fills.
LEMMA FillKeeps ==
  ASSUME TwoCores, PairInv, NEW c \in Cores, Refills(c), TypeOK'
  PROVE  LET r == req[c]
             at == <<r.tag, r.index>>
             new == in_port'[c][r.index]
         IN  /\ \A a \in LineAddr :
                  Home(c, a)' = IF a = at /\ new.valid = Modified THEN new.data
                                ELSE Home(c, a)
             /\ memory'[at] = Home(c, at)
             /\ \A i \in Indexes \ {r.index} :
                  memory'[<<in_port[c][i].tag, i>>] = memory[<<in_port[c][i].tag, i>>]
<1> DEFINE r == req[c]
           k == r.index
           at == <<r.tag, k>>
           old == in_port[c][k]
           new == in_port'[c][k]
<1>1. IsMem(r) /\ ~hit(r, in_port[c])
  BY DEF Refills, Missing, miss
<1>2. r \in MemRequest /\ k \in Indexes /\ at \in LineAddr
  BY <1>1, OwnRequest
<1>3. ~(old.tag = r.tag /\ old.valid = Modified)
  BY <1>1, <1>2 DEF hit, readHit, writeHit, MemRequest
<1>4. \A a \in LineAddr :
        memory'[a] = IF old.tag # r.tag /\ old.valid = Modified /\ a = <<old.tag, k>>
                     THEN old.data ELSE memory[a]
  BY DEF Refills
<1>5. new.tag = r.tag /\ \A i \in Indexes \ {k} : in_port'[c][i] = in_port[c][i]
  BY DEF Refills
<1> HIDE DEF old, new
<1>6. ASSUME NEW a \in LineAddr
      PROVE  /\ Home(c, a) = IF a[2] = k
                             THEN IF old.tag = a[1] /\ old.valid = Modified
                                  THEN old.data ELSE memory[a]
                             ELSE IF in_port[c][a[2]].tag = a[1] /\ in_port[c][a[2]].valid = Modified
                                  THEN in_port[c][a[2]].data ELSE memory[a]
             /\ Home(c, a)' = IF a[2] = k
                              THEN IF new.tag = a[1] /\ new.valid = Modified
                                   THEN new.data ELSE memory'[a]
                              ELSE IF in_port[c][a[2]].tag = a[1] /\ in_port[c][a[2]].valid = Modified
                                   THEN in_port[c][a[2]].data ELSE memory'[a]
  <2>1. a[2] \in Indexes
    BY DEF LineAddr
  <2>2. a[2] # k => in_port'[c][a[2]] = in_port[c][a[2]]
    BY <1>5, <2>1
  <2>3. Home(c, a) = IF in_port[c][a[2]].tag = a[1] /\ in_port[c][a[2]].valid = Modified
                     THEN in_port[c][a[2]].data ELSE memory[a]
    BY DEF Home
  <2>4. Home(c, a)' = IF in_port'[c][a[2]].tag = a[1] /\ in_port'[c][a[2]].valid = Modified
                      THEN in_port'[c][a[2]].data ELSE memory'[a]
    BY DEF Home
  <2> QED BY <2>2, <2>3, <2>4 DEF old, new
<1>7. Home(c, at) = memory[at] /\ memory'[at] = memory[at]
  <2>1. at[1] = r.tag /\ at[2] = k
    OBVIOUS
  <2>2. at = <<old.tag, k>> => old.tag = r.tag
    OBVIOUS
  <2> QED BY <1>2, <1>3, <1>4, <1>6, <2>1, <2>2
<1>8. ASSUME NEW a \in LineAddr
      PROVE  Home(c, a)' = IF a = at /\ new.valid = Modified THEN new.data ELSE Home(c, a)
  <2>1. a = <<a[1], a[2]>>
    BY DEF LineAddr
  <2>2. CASE a = at
    <3>1. a[1] = r.tag /\ a[2] = k
      BY <2>2
    <3> QED BY <1>5, <1>6, <1>7, <2>2, <3>1
  <2>3. CASE a # at /\ a[2] = k
    <3>1. a[1] # r.tag
      BY <2>1, <2>3
    <3>2. a = <<old.tag, k>> <=> a[1] = old.tag
      BY <2>1, <2>3
    <3> QED BY <1>4, <1>5, <1>6, <2>3, <3>1, <3>2
  <2>4. CASE a[2] # k
    <3>1. a # at /\ a # <<old.tag, k>>
      BY <2>4
    <3> QED BY <1>4, <1>6, <2>4, <3>1
  <2> QED BY <2>2, <2>3, <2>4
<1>9. ASSUME NEW i \in Indexes \ {k}
      PROVE  memory'[<<in_port[c][i].tag, i>>] = memory[<<in_port[c][i].tag, i>>]
  <2>1. in_port[c][i] \in Line
    BY CoreTypes DEF PairInv, IInv
  <2>2. <<in_port[c][i].tag, i>> \in LineAddr /\ <<in_port[c][i].tag, i>> # <<old.tag, k>>
    BY <2>1 DEF Line, LineAddr
  <2> QED BY <1>4, <2>2
<1> QED BY <1>7, <1>8, <1>9 DEF new

\* What a store that hits changes is what it stores to: every other byte stays what
\* it was where it lives.
LEMMA StoreKeeps ==
  ASSUME TwoCores, PairInv, NEW c \in Cores, Stores(c), Holding(c),
         NEW a \in LineAddr, NEW w \in Words, NEW b \in Bytes,
         Private(c, a), ~Storing(c, a, w, b)
  PROVE  Home(c, a)'[w][b] = arch[a][w][b]
<1> DEFINE r == req[c]
           k == r.index
           old == in_port[c][k]
           new == in_port'[c][k]
           word == Merge(r, old.data[r.word])
<1>1. /\ r.op = "store" /\ old.tag = r.tag /\ old.valid = Modified
      /\ memory' = memory
      /\ \A i \in Indexes \ {k} : in_port'[c][i] = in_port[c][i]
      /\ new.tag = r.tag /\ new.valid = Modified
      /\ new.data = [old.data EXCEPT ![r.word] = word]
  BY DEF Stores, writeHit
<1>2. IsMem(r)
  BY <1>1 DEF IsMem
<1>3. k \in Indexes /\ r.word \in Words
  BY <1>2, OwnRequest
<1>4. old.data \in [Words -> Word]
  <2>1. old \in Line
    BY <1>3, CoreTypes DEF PairInv, IInv
  <2> QED BY <2>1 DEF Line, Data
<1>5. Home(c, a)[w][b] = arch[a][w][b]
  BY DEF Holding, Kept
<1>6. a[2] \in Indexes /\ a = <<a[1], a[2]>>
  BY DEF LineAddr
<1> HIDE DEF old, new, word
<1>7. CASE a = <<r.tag, k>>
  <2>1. Home(c, a) = old.data /\ Home(c, a)' = new.data
    BY <1>1, <1>7 DEF Home, old, new
  <2>2. CASE w = r.word
    <3>1. b \notin r.bytes
      BY <1>1, <1>7, <2>2 DEF Storing
    <3>2. word[b] = old.data[r.word][b]
      BY <3>1, MergeLanes DEF word
    <3>3. new.data[w] = word
      BY <1>1, <1>3, <1>4, <2>2
    <3> QED BY <1>5, <2>1, <2>2, <3>2, <3>3
  <2>3. CASE w # r.word
    <3>1. new.data[w] = old.data[w]
      BY <1>1, <1>4, <2>3
    <3> QED BY <1>5, <2>1, <3>1
  <2> QED BY <2>2, <2>3
<1>8. CASE a # <<r.tag, k>>
  <2>1. Home(c, a)' = Home(c, a)
    <3>1. CASE a[2] = k
      <4>1. a[1] # r.tag
        BY <1>6, <1>8, <3>1
      <4> QED BY <1>1, <3>1, <4>1 DEF Home, old, new
    <3>2. CASE a[2] # k
      <4>1. in_port'[c][a[2]] = in_port[c][a[2]]
        BY <1>1, <1>6, <3>2
      <4> QED BY <1>1, <4>1 DEF Home
    <3> QED BY <3>1, <3>2
  <2> QED BY <1>5, <2>1
<1> QED BY <1>7, <1>8

\* The core that is filled keeps what it holds.
LEMMA RefillHolding ==
  ASSUME TwoCores, WholeWords, PairInv, NEW c \in Cores, Served(c), Refills(c), Holding(c), TypeOK'
  PROVE  Holding(c)'
<1> DEFINE r == req[c]
           k == r.index
           at == <<r.tag, k>>
           new == in_port'[c][k]
<1>1. IsMem(r) /\ ~stall_last[c]
  BY DEF Refills, Missing, miss
<1>2. /\ r \in MemRequest /\ k \in Indexes /\ at \in LineAddr
      /\ r.op = "store" => r.bytes = Bytes
  BY <1>1, OwnRequest
<1>3. /\ req'[c] = r /\ stall_last'[c] = stall_last[c] /\ arch' = arch
  BY DEF Served
<1>4. /\ \A a \in LineAddr :
           Home(c, a)' = IF a = at /\ new.valid = Modified THEN new.data ELSE Home(c, a)
      /\ memory'[at] = Home(c, at)
      /\ \A i \in Indexes \ {k} :
           memory'[<<in_port[c][i].tag, i>>] = memory[<<in_port[c][i].tag, i>>]
  BY FillKeeps
<1>5. /\ \A i \in Indexes \ {k} : in_port'[c][i] = in_port[c][i]
      /\ new.tag = r.tag
      /\ r.op = "load" => new.valid = Shared /\ new.data = memory'[at]
      /\ r.op = "store" => /\ new.valid = Modified
                           /\ \A w \in Words \ {r.word} : new.data[w] = memory'[at][w]
  BY DEF Refills
<1>6. r.op \in {"load", "store"}
  BY <1>2 DEF MemRequest
<1> HIDE DEF new
<1>7. Written(c)' /\ LoadsFresh(c)'
  BY <1>1, <1>3 DEF Written, LoadsFresh
<1>8. Clean(c)'
  <2> SUFFICES ASSUME NEW i \in Indexes, in_port'[c][i].valid = Shared
               PROVE  in_port'[c][i].data = memory'[<<in_port'[c][i].tag, i>>]
    BY DEF Clean
  <2>1. CASE i = k
    BY <1>5, <1>6, <2>1 DEF new, Shared, Modified
  <2>2. CASE i # k
    BY <1>4, <1>5, <2>2 DEF Holding, Clean
  <2> QED BY <2>1, <2>2
<1>9. Kept(c)'
  <2> SUFFICES ASSUME NEW a \in LineAddr, NEW w \in Words, NEW b \in Bytes,
                      Private(c, a), ~Storing(c, a, w, b)'
               PROVE  Home(c, a)'[w][b] = arch[a][w][b]
    BY <1>3 DEF Kept, Private, Uses
  <2>1. ~Storing(c, a, w, b)
    BY <1>3 DEF Storing
  <2>2. Home(c, a)[w][b] = arch[a][w][b]
    BY <2>1 DEF Holding, Kept
  <2>3. CASE a = at /\ r.op = "store"
    <3>1. w # r.word
      BY <1>2, <2>1, <2>3 DEF Storing
    <3> QED BY <1>4, <1>5, <2>2, <2>3, <3>1
  <2>4. CASE ~(a = at /\ r.op = "store")
    BY <1>4, <1>5, <1>6, <2>2, <2>4 DEF Shared, Modified
  <2> QED BY <2>3, <2>4
<1> QED BY <1>7, <1>8, <1>9 DEF Holding

\* The core whose store hits keeps what it holds.
LEMMA StoreHolding ==
  ASSUME TwoCores, PairInv, NEW c \in Cores, Served(c), Stores(c), Holding(c)
  PROVE  Holding(c)'
<1> DEFINE r == req[c]
           k == r.index
           old == in_port[c][k]
           new == in_port'[c][k]
           word == Merge(r, old.data[r.word])
<1>1. /\ r.op = "store" /\ old.valid = Modified /\ memory' = memory
      /\ \A i \in Indexes \ {k} : in_port'[c][i] = in_port[c][i]
      /\ new.valid = Modified
      /\ new.data = [old.data EXCEPT ![r.word] = word]
  BY DEF Stores, writeHit
<1>2. k \in Indexes /\ r.word \in Words
  BY <1>1, OwnRequest DEF IsMem
<1>3. /\ req'[c] = r /\ arch' = arch
  BY DEF Served
<1>4. old.data \in [Words -> Word]
  <2>1. old \in Line
    BY <1>2, CoreTypes DEF PairInv, IInv
  <2> QED BY <2>1 DEF Line, Data
<1> HIDE DEF word
<1>5. Written(c)'
  <2>1. Addressed(c)' = word
    BY <1>1, <1>2, <1>3, <1>4 DEF Addressed
  <2>2. Merge(r, word) = word
    BY MergeTwice DEF word
  <2>3. Merge(req[c], Addressed(c))' = Merge(r, word)
    BY <1>3, <2>1 DEF Merge
  <2> QED BY <2>1, <2>2, <2>3 DEF Written
<1>6. LoadsFresh(c)'
  BY <1>1, <1>3 DEF LoadsFresh
<1>7. Clean(c)'
  <2> SUFFICES ASSUME NEW i \in Indexes, in_port'[c][i].valid = Shared
               PROVE  in_port'[c][i].data = memory'[<<in_port'[c][i].tag, i>>]
    BY DEF Clean
  <2>1. i # k
    BY <1>1 DEF Shared, Modified
  <2> QED BY <1>1, <2>1 DEF Holding, Clean
<1>8. Kept(c)'
  <2> SUFFICES ASSUME NEW a \in LineAddr, NEW w \in Words, NEW b \in Bytes,
                      Private(c, a), ~Storing(c, a, w, b)'
               PROVE  Home(c, a)'[w][b] = arch[a][w][b]
    BY <1>3 DEF Kept, Private, Uses
  <2>1. ~Storing(c, a, w, b)
    BY <1>3 DEF Storing
  <2> QED BY <2>1, StoreKeeps
<1> QED BY <1>5, <1>6, <1>7, <1>8 DEF Holding

\* The bus's half of the loop body.
LEMMA ServeHolding ==
  ASSUME TwoCores, WholeWords, PairInv, NEW c \in Cores, Serve(c), NEW x \in Cores, Holding(x), TypeOK'
  PROVE  Holding(x)'
<1>1. Served(c)
  BY ServeCore
<1>2. CASE x # c
  <2>1. Untouched(x)
    BY <1>2, ServeCore
  <2>2. \A a \in LineAddr : Private(x, a) => memory'[a] = memory[a] /\ arch'[a] = arch[a]
    BY <1>1, <1>2, ServeMemory DEF Served, Private
  <2>3. LoadsFresh(x)' /\ Clean(x)' /\ Kept(x)'
    BY <2>1, <2>2, Elsewhere
  <2>4. Written(x)'
    <3>1. run_core # x
      BY <1>1, <1>2, Positions, TheCores DEF Served, PairInv, IInv
    <3>2. Written(x)
      BY DEF Holding
    <3>3. Addressed(x)' = Addressed(x) /\ Merge(req[x], Addressed(x))' = Merge(req[x], Addressed(x))
      BY <2>1 DEF Untouched, Addressed, Merge
    <3> QED BY <1>1, <1>2, <2>1, <3>1, <3>2, <3>3 DEF Served, Untouched, Written
  <2> QED BY <2>3, <2>4 DEF Holding
<1>3. CASE x = c
  <2>1. CASE Refills(c)
    BY <1>1, <1>3, <2>1, RefillHolding
  <2>2. CASE Stores(c)
    BY <1>1, <1>3, <2>2, StoreHolding
  <2>3. CASE Rests(c)
    <3>1. Untouched(c) /\ memory' = memory /\ arch' = arch
      BY <1>1, <2>3 DEF Served, Rests, Untouched
    <3>2. LoadsFresh(c)' /\ Clean(c)' /\ Kept(c)'
      BY <1>3, <3>1, Elsewhere
    <3>3. ~(req[c].op = "store" /\ stall_last[c])
      BY <2>3 DEF Rests, Missing, miss, PairInv, Timing, Ready
    <3>4. Written(c)'
      BY <3>1, <3>3 DEF Untouched, Written
    <3> QED BY <1>3, <3>2, <3>4 DEF Holding
  <2> QED BY <2>1, <2>2, <2>3, ServeCore
<1> QED BY <1>2, <1>3

-----------------------------------------------------------------------------
(***************************************************************************)
(* Evaluations.                                                            *)
(***************************************************************************)

\* Only in its turn in an iteration over both does a core's request leave, so that
\* the store has been written.
LEMMA LeavesInTurn ==
  ASSUME TwoCores, PairInv, NEW c \in Cores, Eval(c), step = "eval", ~Stays(c)
  PROVE  /\ clk[c] = 0 /\ ~stall(c) /\ Retire(c) /\ ~stall_last'[c]
         /\ bus_traffic_last # c /\ run_core # c
         /\ IsMem(req[c]) => /\ stall_last[c] /\ hit(req[c], in_port[c])
                             /\ hit(req[c], out_port[c])
<1>1. Leaves(c) /\ bus_traffic_last # c /\ run_core # c
  BY EvalCore, ExtraStays
<1>2. ASSUME IsMem(req[c])
      PROVE  stall_last[c] /\ hit(req[c], in_port[c]) /\ hit(req[c], out_port[c])
  <2>1. stall_last[c]
    BY <1>1, <1>2 DEF Leaves, stall
  <2> QED BY <1>2, <2>1 DEF PairInv, Timing, Ready
<1> QED BY <1>1, <1>2 DEF Leaves

\* A store that leaves is merged into arch, which thereby agrees with the line's home
\* in every byte.
LEMMA RetireKept ==
  ASSUME TwoCores, PairInv, NEW c \in Cores, Eval(c), step = "eval", ~Stays(c), Holding(c)
  PROVE  /\ Kept(c)'
         /\ \A a \in LineAddr : \A d \in Cores \ {c} : Private(d, a) => arch'[a] = arch[a]
<1> DEFINE r == req[c]
           at == <<r.tag, r.index>>
<1>1. /\ in_port' = in_port /\ memory' = memory
      /\ Retire(c) /\ run_core # c
      /\ IsMem(r) => stall_last[c] /\ hit(r, in_port[c])
  BY EvalCore, LeavesInTurn
<1>2. \A a \in LineAddr : Home(c, a)' = Home(c, a)
  BY <1>1 DEF Home
<1>3. CASE r.op = "store"
  <2>1. IsMem(r)
    BY <1>3 DEF IsMem
  <2>2. /\ at \in LineAddr /\ r.word \in Words /\ r.index \in Indexes
        /\ \A d \in Cores \ {c} : \A a \in LineAddr : Private(d, a) => a # at
    BY <2>1, OwnRequest
  <2>3. Home(c, at) = in_port[c][r.index].data
    BY <1>1, <1>3, <2>1 DEF hit, readHit, writeHit, Home
  <2>4. Addressed(c) = Merge(r, Addressed(c))
    BY <1>1, <1>3, <2>1 DEF Holding, Written
  <2>5. arch' = [arch EXCEPT ![at] = [arch[at] EXCEPT
                   ![r.word] = Merge(r, arch[at][r.word])]]
    BY <1>1, <1>3 DEF Retire
  <2>6. arch \in [LineAddr -> Data] /\ arch[at] \in [Words -> Word]
    BY <2>2 DEF PairInv, IInv, TypeOK, Data
  <2>7. \A a \in LineAddr \ {at} : arch'[a] = arch[a]
    BY <2>2, <2>5, <2>6
  <2>8. /\ arch'[at][r.word] = Merge(r, arch[at][r.word])
        /\ \A w \in Words \ {r.word} : arch'[at][w] = arch[at][w]
    <3> DEFINE word == Merge(r, arch[at][r.word])
    <3>1. arch'[at] = [arch[at] EXCEPT ![r.word] = word]
      BY <2>2, <2>5, <2>6
    <3> HIDE DEF word
    <3>2. arch'[at][r.word] = word /\ \A w \in Words \ {r.word} : arch'[at][w] = arch[at][w]
      BY <2>2, <2>6, <3>1
    <3> QED BY <3>2 DEF word
  <2>9. ASSUME NEW a \in LineAddr, NEW w \in Words, NEW b \in Bytes, Private(c, a)
        PROVE  Home(c, a)[w][b] = arch'[a][w][b]
    <3>1. Storing(c, a, w, b) \/ Home(c, a)[w][b] = arch[a][w][b]
      BY <2>9 DEF Holding, Kept
    <3>2. CASE a = at /\ w = r.word
      <4>1. Home(c, a)[w] = Merge(r, Addressed(c))
        BY <2>3, <2>4, <3>2 DEF Addressed
      <4>2. arch'[a][w] = Merge(r, arch[a][w])
        BY <2>8, <3>2
      <4>3. CASE b \in r.bytes
        BY <4>1, <4>2, <4>3, MergeLanes
      <4>4. CASE b \notin r.bytes
        <5>1. Home(c, a)[w][b] = arch[a][w][b]
          BY <3>1, <4>4 DEF Storing
        <5> QED BY <4>2, <4>4, <5>1, MergeLanes
      <4> QED BY <4>3, <4>4
    <3>3. CASE ~(a = at /\ w = r.word)
      <4>1. ~Storing(c, a, w, b)
        BY <3>3 DEF Storing
      <4>2. arch'[a][w] = arch[a][w]
        BY <2>7, <2>8, <3>3
      <4> QED BY <3>1, <4>1, <4>2
    <3> QED BY <3>2, <3>3
  <2>10. Kept(c)'
    BY <1>2, <2>9 DEF Kept, Private, Uses
  <2> QED BY <2>2, <2>7, <2>10
<1>4. CASE r.op # "store"
  <2>1. arch' = arch
    BY <1>1, <1>4 DEF Retire
  <2>2. ASSUME NEW a \in LineAddr, NEW w \in Words, NEW b \in Bytes, Private(c, a)
        PROVE  Home(c, a)[w][b] = arch[a][w][b]
    BY <1>4, <2>2 DEF Holding, Kept, Storing
  <2>3. Kept(c)'
    BY <1>2, <2>1, <2>2 DEF Kept, Private, Uses
  <2> QED BY <2>1, <2>3
<1> QED BY <1>3, <1>4

\* An evaluation keeps what the cores hold; a store that it stalls is written in the
\* other half of the loop body, or in the second extra toggle's.
LEMMA EvalHolding ==
  ASSUME TwoCores, PairInv, NEW c \in Cores, Eval(c), step = "eval",
         \/ step' = "serve" /\ loop_i' = c /\ run_core' = run_core
         \/ run_core' = c /\ step' = "eval" /\ run_core = NoCore,
         NEW x \in Cores, Holding(x)
  PROVE  Holding(x)'
<1>1. /\ in_port' = in_port /\ memory' = memory /\ out_port'[c] = in_port[c]
      /\ \A d \in Cores \ {c} : Untouched(d)
  BY EvalCore
<1>2. CASE x # c
  <2>1. Untouched(x)
    BY <1>1, <1>2
  <2>2. \A a \in LineAddr : Private(x, a) => arch'[a] = arch[a]
    <3>1. CASE Stays(c)
      BY <3>1 DEF Stays
    <3>2. CASE ~Stays(c)
      <4>1. CASE Leaves(c) /\ req[c].op = "store"
        <5> DEFINE r == req[c]
                   at == <<r.tag, r.index>>
        <5>1. IsMem(r)
          BY <4>1 DEF IsMem
        <5>2. at \in LineAddr /\ \A a \in LineAddr : Private(x, a) => a # at
          BY <1>2, <5>1, OwnRequest
        <5>3. arch' = [arch EXCEPT ![at][r.word] = Merge(r, @)]
          BY <4>1 DEF Leaves, Retire
        <5> QED BY <5>2, <5>3 DEF PairInv, IInv, TypeOK
      <4>2. CASE Leaves(c) /\ req[c].op # "store"
        BY <4>2 DEF Leaves, Retire
      <4> QED BY <3>2, <4>1, <4>2, EvalCore
    <3> QED BY <3>1, <3>2
  <2>3. LoadsFresh(x)' /\ Clean(x)' /\ Kept(x)'
    BY <1>1, <2>1, <2>2, Elsewhere
  <2>4. Written(x)'
    <3>1. Addressed(x)' = Addressed(x) /\ Merge(req[x], Addressed(x))' = Merge(req[x], Addressed(x))
      BY <2>1 DEF Untouched, Addressed, Merge
    <3>2. run_core' # x => run_core # x
      BY TheCores
    <3> QED BY <2>1, <3>1, <3>2 DEF Holding, Untouched, Written
  <2> QED BY <2>3, <2>4 DEF Holding
<1>3. CASE x = c
  <2>1. Written(c)'
    BY DEF Written
  <2>2. LoadsFresh(c)'
    BY <1>1 DEF LoadsFresh
  <2>3. Clean(c)'
    BY <1>1, <1>3 DEF Holding, Clean
  <2>4. Kept(c)'
    <3>1. CASE Stays(c)
      <4>1. req' = req /\ arch' = arch
        BY <3>1 DEF Stays
      <4> QED BY <1>1, <1>3, <4>1 DEF Holding, Kept, Home, Storing, Private, Uses
    <3>2. CASE ~Stays(c)
      BY <1>3, <3>2, RetireKept
    <3> QED BY <3>1, <3>2
  <2> QED BY <1>3, <2>1, <2>2, <2>3, <2>4 DEF Holding
<1> QED BY <1>2, <1>3

-----------------------------------------------------------------------------
(***************************************************************************)
(* The inductive invariant.                                                *)
(***************************************************************************)
PairHolds == PairInv /\ \A c \in Cores : Holding(c)

\* At the start nothing is held and nothing is asked for.
LEMMA PairInit ==
  ASSUME TwoCores, Init, NEW c \in Cores
  PROVE  Timing(c) /\ Holding(c)
<1>1. /\ req[c] = Idle /\ ~IsMem(req[c]) /\ ~Missing(c)
      /\ req[c].op # "store" /\ req[c].op # "load"
  BY DEF Init, Idle, IsMem, Missing, miss
<1>2. /\ bus_traffic_last # c /\ run_core # c /\ step = "eval" /\ c \notin prosFin_en
  BY TheCores DEF Init
<1>3. /\ \A i \in Indexes : in_port[c][i].valid = Invalid /\ out_port[c][i].valid = Invalid
      /\ \A a \in LineAddr : memory[a] = arch[a]
  BY DEF Init
<1>4. Ready(c) /\ Prompt(c) /\ Granting(c) /\ Current(c)
  BY <1>1, <1>2 DEF Ready, Prompt, Granting, Current
<1>5. Mine(c)
  BY <1>1, <1>3 DEF Mine
<1>6. Written(c) /\ LoadsFresh(c)
  BY <1>1 DEF Written, LoadsFresh
<1>7. Clean(c)
  BY <1>3 DEF Clean, Invalid, Shared
<1>8. Kept(c)
  <2> SUFFICES ASSUME NEW a \in LineAddr PROVE Home(c, a) = arch[a]
    BY DEF Kept
  <2>1. a[2] \in Indexes
    BY DEF LineAddr
  <2> QED BY <1>3, <2>1 DEF Home, Invalid, Modified
<1> QED BY <1>4, <1>5, <1>6, <1>7, <1>8 DEF Timing, Holding

\* Every step of the loop keeps what each core waits for.
LEMMA TimingStep ==
  ASSUME TwoCores, PairInv, [Next]_vars, TypeOK', NEW x \in Cores
  PROVE  Timing(x)'
<1>1. CASE UNCHANGED vars
  <2>1. UNCHANGED <<main_time, loop_m, step, bus_traffic_last, run_core, prosFin_en,
                    clk, req, stall_last, in_port, out_port>>
    BY <1>1 DEF vars, busVars, coreVars, cacheVars
  <2>2. Position(x)' = Position(x) /\ loop_i' = loop_i
    BY <2>1 DEF Position, loop_i, Reversed
  <2>3. \A d \in Cores : Missing(d)' = Missing(d)
    BY <2>1 DEF Missing, miss, IsMem, hit, readHit, writeHit
  <2>4. Timing(x)
    BY DEF PairInv
  <2>5. Ready(x)' /\ Mine(x)' /\ Current(x)'
    BY <2>1, <2>2, <2>4 DEF Timing, Ready, Mine, Current
  <2>6. Prompt(x)' /\ Granting(x)'
    BY <2>1, <2>2, <2>3, <2>4 DEF Timing, Prompt, Granting
  <2> QED BY <2>5, <2>6 DEF Timing
<1> QED BY <1>1, OwnerTurnTiming, TurnTiming, ServeTiming DEF Next, Stopped

\* Every step of the loop keeps what each core holds.
LEMMA HoldingStep ==
  ASSUME TwoCores, WholeWords, PairInv, [Next]_vars, TypeOK', NEW x \in Cores, Holding(x)
  PROVE  Holding(x)'
<1>1. CASE OwnerTurn
  <2> DEFINE c == bus_traffic_last
  <2>1. c \in Cores
    BY <1>1 DEF OwnerTurn, PairInv, IInv, TypeOK
  <2>2. run_core = NoCore
    <3> SUFFICES ASSUME run_core # NoCore PROVE FALSE
      OBVIOUS
    <3>1. step = "eval" /\ bus_traffic_last # NoCore
      BY <1>1 DEF OwnerTurn
    <3> QED BY <3>1 DEF PairInv, ClockInv
  <2>3. step = "eval" /\ step' = "eval" /\ Eval(c) /\ run_core' = c
    BY <1>1 DEF OwnerTurn
  <2> QED BY <2>1, <2>2, <2>3, EvalHolding
<1>2. CASE Turn
  <2> DEFINE c == loop_i
  <2>1. c \in Cores
    BY LoopInCores DEF PairInv, IInv
  <2>2. step = "eval" /\ step' = "serve" /\ run_core' = run_core /\ loop_i' = c
    BY <1>2 DEF Turn, loop_i, Reversed
  <2>3. CASE Eval(c)
    <3> HIDE DEF c
    <3> QED BY <2>1, <2>2, <2>3, EvalHolding
  <2>4. CASE UNCHANGED <<coreVars, cacheVars>>
    <3>1. /\ req' = req /\ stall_last' = stall_last /\ arch' = arch
          /\ in_port' = in_port /\ out_port' = out_port /\ memory' = memory
      BY <2>4 DEF coreVars, cacheVars
    <3>2. Written(x)'
      <4>1. Written(x)
        BY DEF Holding
      <4> QED BY <2>2, <3>1, <4>1 DEF Written, Addressed, Merge
    <3>3. LoadsFresh(x)' /\ Clean(x)' /\ Kept(x)'
      BY <3>1 DEF Holding, LoadsFresh, Clean, Kept, Private, Uses, Storing, Home
    <3> QED BY <3>2, <3>3 DEF Holding
  <2> QED BY <1>2, <2>3, <2>4 DEF Turn
<1>3. ASSUME NEW c \in Cores, Serve(c) PROVE Holding(x)'
  BY <1>3, ServeHolding
<1>4. CASE UNCHANGED vars
  <2>1. UNCHANGED <<main_time, loop_m, step, run_core,
                    req, stall_last, arch, in_port, out_port, memory>>
    BY <1>4 DEF vars, busVars, coreVars, cacheVars
  <2>2. loop_i' = loop_i
    BY <2>1 DEF loop_i, Reversed
  <2>3. Written(x)'
    <3>1. Written(x)
      BY DEF Holding
    <3> QED BY <2>1, <2>2, <3>1 DEF Written, Addressed, Merge
  <2>4. LoadsFresh(x)' /\ Clean(x)' /\ Kept(x)'
    BY <2>1 DEF Holding, LoadsFresh, Clean, Kept, Private, Uses, Storing, Home
  <2> QED BY <2>3, <2>4 DEF Holding
<1> QED BY <1>1, <1>2, <1>3, <1>4 DEF Next, Stopped

\* Of two cores with lines of their own one never waits for the other long enough to
\* be stalled twice, whatever bytes they store.
THEOREM TimingInductive ==
  ASSUME TwoCores
  PROVE  Spec => []PairInv
<1> DEFINE Each == \A c \in Cores : Timing(c)
<1>1. Init => Each
  BY PairInit
<1>2. IInv /\ ClockInv /\ IInv' /\ Each /\ [Next]_vars => Each'
  <2> SUFFICES ASSUME IInv, ClockInv, TypeOK', Each, [Next]_vars PROVE Each'
    BY DEF IInv
  <2>1. PairInv
    BY DEF PairInv
  <2> QED BY <2>1, TimingStep
<1>3. IInv /\ ClockInv /\ Each <=> PairInv
  BY DEF PairInv
<1>4. Spec => []ClockInv
  BY ClocksInductive DEF TwoCores
<1> HIDE DEF Each
<1> QED BY <1>1, <1>2, <1>3, <1>4, Inductive, PTL DEF Spec

\* If they store whole words, each holds what its stores have stored.
THEOREM PairInductive ==
  ASSUME TwoCores, WholeWords
  PROVE  Spec => []PairHolds
<1> DEFINE Each == \A c \in Cores : Holding(c)
<1>1. Init => Each
  BY PairInit
<1>2. PairInv /\ PairInv' /\ Each /\ [Next]_vars => Each'
  <2> SUFFICES ASSUME PairInv, TypeOK', Each, [Next]_vars PROVE Each'
    BY DEF PairInv, IInv
  <2> QED BY HoldingStep
<1>3. PairInv /\ Each => PairHolds
  BY DEF PairHolds
<1> HIDE DEF Each
<1> QED BY <1>1, <1>2, <1>3, TimingInductive, PTL DEF Spec

-----------------------------------------------------------------------------
(***************************************************************************)
(* What the pair promises.                                                 *)
(***************************************************************************)

\* Every line is private to one of the cores, which alone may hold it.
LEMMA HolderOf ==
  ASSUME TwoCores, PairHolds, NEW a \in LineAddr
  PROVE  \E c \in Cores : Private(c, a) /\ Residing(a) = {Home(c, a)}
<1>0. PairInv
  BY DEF PairHolds
<1>1. PICK c \in Cores : Private(c, a)
  <2>1. CASE \E c \in Cores : Uses(c, a)
    BY <2>1 DEF TwoCores, Private
  <2>2. CASE ~\E c \in Cores : Uses(c, a)
    BY <2>2, TheCores DEF Private
  <2> QED BY <2>1, <2>2
<1>2. a[2] \in Indexes /\ a = <<a[1], a[2]>>
  BY DEF LineAddr
<1>3. ASSUME NEW d \in Cores \ {c} PROVE ~Holds(in_port, d, a, {Modified})
  <2> SUFFICES ASSUME Holds(in_port, d, a, {Modified}) PROVE FALSE
    OBVIOUS
  <2>1. in_port[d][a[2]].tag = a[1] /\ in_port[d][a[2]].valid # Invalid
    BY DEF Holds, Invalid, Modified
  <2>2. Uses(d, <<in_port[d][a[2]].tag, a[2]>>)
    BY <1>0, <1>2, <2>1, OwnLines
  <2>3. Uses(d, a)
    BY <1>2, <2>1, <2>2
  <2> QED BY <1>1, <2>3 DEF Private
<1>4. Residing(a) = {Home(c, a)}
  <2>1. CASE Holds(in_port, c, a, {Modified})
    <3>1. {d \in Cores : Holds(in_port, d, a, {Modified})} = {c}
      BY <1>3, <2>1
    <3>2. Home(c, a) = in_port[c][a[2]].data
      BY <2>1 DEF Holds, Home
    <3> QED BY <3>1, <3>2 DEF Residing
  <2>2. CASE ~Holds(in_port, c, a, {Modified})
    <3>1. {d \in Cores : Holds(in_port, d, a, {Modified})} = {}
      BY <1>3, <2>2
    <3>2. Home(c, a) = memory[a]
      BY <2>2 DEF Holds, Home
    <3> QED BY <3>1, <3>2 DEF Residing
  <2> QED BY <2>1, <2>2
<1> QED BY <1>1, <1>4

LEMMA PairLosesNoStore ==
  ASSUME TwoCores, PairHolds
  PROVE  NoLostStore
<1> SUFFICES ASSUME NEW a \in LineAddr, NEW w \in Words, NEW b \in Bytes,
                    ~(\E c \in Cores : Storing(c, a, w, b)), NEW data \in Residing(a)
             PROVE  data[w][b] = arch[a][w][b]
  BY DEF NoLostStore
<1>1. PICK c \in Cores : Private(c, a) /\ Residing(a) = {Home(c, a)}
  BY HolderOf
<1>2. Home(c, a)[w][b] = arch[a][w][b]
  BY <1>1 DEF PairHolds, Holding, Kept
<1> QED BY <1>1, <1>2

\* Two cores, whole words, no shared line: wherever a line lives, in the cache that
\* holds it modified or in memory, it holds the last store to each of its bytes,
\* whatever the two refuse each other the bus for (sim_main.cpp:438-735).
THEOREM TwoCoresLoseNoStore ==
  ASSUME TwoCores, WholeWords
  PROVE  Spec => []NoLostStore
<1>1. PairHolds => NoLostStore
  BY PairLosesNoStore
<1> QED BY <1>1, PairInductive, PTL

\* A step of the loop changes the requests, the registers and arch only when one of
\* the cores retires an instruction.
LEMMA OnlyRetirements ==
  ASSUME TwoCores, PairInv, [Next]_vars
  PROVE  \/ \E c \in Cores : clk[c] = 0 /\ ~stall(c) /\ Retire(c)
         \/ UNCHANGED <<arch, req, reg>>
<1>1. ASSUME NEW c \in Cores, step = "eval", Eval(c)
      PROVE  \/ clk[c] = 0 /\ ~stall(c) /\ Retire(c)
             \/ UNCHANGED <<arch, req, reg>>
  BY <1>1, EvalCore DEF Leaves, Stays
<1>2. CASE OwnerTurn
  <2>1. bus_traffic_last \in Cores
    BY <1>2 DEF OwnerTurn, PairInv, IInv, TypeOK
  <2> QED BY <1>1, <1>2, <2>1 DEF OwnerTurn
<1>3. CASE Turn
  <2>1. loop_i \in Cores
    BY LoopInCores DEF PairInv, IInv
  <2> QED BY <1>1, <1>3, <2>1 DEF Turn, coreVars
<1>4. ASSUME NEW c \in Cores, Serve(c) PROVE UNCHANGED <<arch, req, reg>>
  BY <1>4 DEF Serve, ReadMiss, WriteMiss, WriteHit, Finish, Pass, Granted, coreVars
<1>5. CASE UNCHANGED vars
  BY <1>5 DEF vars, coreVars
<1> QED BY <1>2, <1>3, <1>4, <1>5 DEF Next, Stopped

\* Of two cores that share no line none is still refused at a load's second stalled
\* edge, so that reg_write_back_en (controller.sv:223) overwrites no base register
\* that the load still needs: here loads may be chained, and stores of any bytes.
THEOREM TwoCoresKeepAddresses ==
  ASSUME TwoCores
  PROVE  Spec => AddressStands
<1>1. PairInv /\ [Next]_vars => [\A c \in Cores : stall(c) => req'[c] = req[c]]_vars
  <2> SUFFICES ASSUME PairInv, [Next]_vars, NEW c \in Cores, stall(c)
               PROVE  req'[c] = req[c]
    OBVIOUS
  <2>1. req \in [Cores -> Request]
    BY DEF PairInv, IInv, TypeOK
  <2>2. ASSUME NEW d \in Cores, ~stall(d), Retire(d) PROVE req'[c] = req[c]
    <3>1. d # c
      BY <2>2
    <3>2. PICK r : req' = [req EXCEPT ![d] = r]
      BY <2>2 DEF Retire
    <3> QED BY <2>1, <3>1, <3>2
  <2> QED BY <2>1, <2>2, OnlyRetirements
<1> QED BY <1>1, TimingInductive, PTL DEF Spec, AddressStands

LEMMA SameWord ==
  ASSUME NEW u \in Word, NEW v \in Word, \A b \in Bytes : u[b] = v[b]
  PROVE  u = v
BY DEF Word

\* A load that leaves has read its word as the stores before it left it.
LEMMA PairLoadReads ==
  ASSUME TwoCores, PairHolds, NEW c \in Cores, ~stall(c), req[c].op = "load"
  PROVE  loadData(req[c], out_port[c]) = arch[<<req[c].tag, req[c].index>>][req[c].word]
<1> DEFINE r == req[c]
           at == <<r.tag, r.index>>
<1>0. PairInv /\ Holding(c) /\ IsMem(r)
  BY DEF PairHolds, IsMem
<1>1. /\ r \in MemRequest /\ at \in LineAddr /\ r.index \in Indexes /\ r.word \in Words
      /\ Private(c, at)
  BY <1>0, OwnRequest
<1>2. hit(r, out_port[c]) /\ stall_last[c]
  BY <1>0 DEF stall
<1>3. out_port[c] = in_port[c]
  BY <1>0, <1>2 DEF Holding, LoadsFresh
<1>4. in_port[c][r.index].tag = r.tag /\ in_port[c][r.index].valid \in {Shared, Modified}
  BY <1>2, <1>3 DEF hit, readHit, writeHit
<1>5. Home(c, at) = in_port[c][r.index].data
  BY <1>0, <1>1, <1>4 DEF Home, Holding, Clean
<1>6. in_port[c][r.index].data[r.word] \in Word /\ arch[at][r.word] \in Word
  <2>1. in_port[c][r.index] \in Line /\ arch[at] \in Data
    BY <1>0, <1>1, CoreTypes DEF PairInv, IInv, TypeOK
  <2> QED BY <1>1, <2>1 DEF Line, Data
<1>7. ASSUME NEW b \in Bytes PROVE Home(c, at)[r.word][b] = arch[at][r.word][b]
  BY <1>0, <1>1 DEF Holding, Kept, Storing
<1>8. in_port[c][r.index].data[r.word] = arch[at][r.word]
  <2>1. \A b \in Bytes : in_port[c][r.index].data[r.word][b] = arch[at][r.word][b]
    BY <1>5, <1>7
  <2> QED BY <1>6, <2>1, SameWord
<1> QED BY <1>3, <1>8 DEF loadData

\* Two cores that store whole words to lines of their own, their caches, the bus loop
\* and the backing memory are one atomic memory: each instruction that retires is one
\* step of it.
THEOREM TwoCoresAreAtomic ==
  ASSUME TwoCores, WholeWords
  PROVE  Spec => RefinesAtomicMemory
<1>0. DOMAIN Programs = Cores
  BY ProgramAssumption
<1>1. Init => AtomicMem!Init
  BY <1>0 DEF Init, AtomicMem!Init, LineAddr
<1>2. PairHolds /\ [Next]_vars => [AtomicMem!Next]_<<arch, req, reg>>
  <2> SUFFICES ASSUME PairHolds, NEW c \in Cores, ~stall(c), Retire(c)
               PROVE  AtomicMem!Execute(c)
    BY <1>0, OnlyRetirements DEF AtomicMem!Next, PairHolds
  <2> DEFINE r == req[c]
  <2>1. \E n \in Programs[c] \cup {Idle} : req' = [req EXCEPT ![c] = n]
    BY DEF Retire
  <2>2. CASE r.op = "load"
    <3>1. reg' = [reg EXCEPT ![c] = arch[<<r.tag, r.index>>][r.word]]
      BY <2>2, PairLoadReads DEF Retire
    <3>2. arch' = arch
      BY <2>2 DEF Retire
    <3>3. AtomicMem!Load(c)
      BY <2>2, <3>1, <3>2 DEF AtomicMem!Load, AtomicMem!LineOf
    <3> QED BY <2>1, <3>3 DEF AtomicMem!Execute
  <2>3. CASE r.op = "store"
    <3>1. arch' = [arch EXCEPT ![<<r.tag, r.index>>][r.word] =
             [b \in Bytes |-> IF b \in r.bytes THEN r.val ELSE @[b]]]
      BY <2>3 DEF Retire, Merge
    <3>2. reg' = reg
      BY <2>3 DEF Retire
    <3>3. AtomicMem!Store(c)
      BY <2>3, <3>1, <3>2 DEF AtomicMem!Store, AtomicMem!LineOf
    <3> QED BY <2>1, <3>3 DEF AtomicMem!Execute
  <2>4. CASE r.op \notin {"load", "store"}
    <3>1. r \in Request
      BY CoreTypes DEF PairHolds, PairInv, IInv
    <3>2. r = Idle
      BY <2>4, <3>1 DEF Request, MemRequest
    <3>3. arch' = arch /\ reg' = reg
      BY <2>4 DEF Retire
    <3> QED BY <2>1, <3>2, <3>3 DEF AtomicMem!Execute, AtomicMem!NoAccess
  <2> QED BY <2>2, <2>3, <2>4
<1> QED BY <1>1, <1>2, PairInductive, PTL DEF Spec, RefinesAtomicMemory, AtomicMem!Spec
=============================================================================
