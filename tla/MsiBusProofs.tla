---------------------------- MODULE MsiBusProofs ----------------------------
(***************************************************************************)
(* What TLC finds of MsiBus on two or three cores, proved for any number   *)
(* of cores, any programs and any address space: type correctness, then    *)
(* coherence (SWMR) and the invariants it rests on.                        *)
(***************************************************************************)
EXTENDS MsiBus, WellFoundedInduction, TLAPS

\* main_time stays a residue.
LEMMA Modulo ==
  ASSUME NEW n \in Nat
  PROVE  n % CORE_NUM_MAX \in 0 .. CORE_NUM_MAX - 1
  BY SizeAssumption

\* Whatever its direction, the loop is at one of the cores.
LEMMA LoopInCores ==
  ASSUME TypeOK
  PROVE  loop_i \in Cores
<1>1. CASE run_core # NoCore
  BY <1>1 DEF TypeOK, loop_i
<1>2. CASE run_core = NoCore
  BY <1>2, SizeAssumption DEF TypeOK, loop_i, Cores
<1> QED BY <1>1, <1>2

\* A nonempty set of cores has a greatest one, although no bound on the
\* number of cores is assumed.
LEMMA GreatestCore ==
  ASSUME NEW D \in SUBSET Cores, D # {}
  PROVE  \E d \in D : \A e \in D : e <= d
<1> DEFINE T == {n \in Nat : NumP - 1 - n \in D}
<1>1. T \subseteq Nat
  OBVIOUS
<1>2. T # {}
  <2>1. PICK d \in D : TRUE
    OBVIOUS
  <2>2. d \in 0 .. NumP - 1 /\ NumP \in Nat
    BY SizeAssumption DEF Cores
  <2>3. NumP - 1 - d \in Nat /\ NumP - 1 - (NumP - 1 - d) = d
    BY <2>2
  <2> QED BY <2>1, <2>3
<1>3. PICK n \in T : \A m \in T : ~(<<m, n>> \in OpToRel(<, Nat))
  <2> HIDE DEF T
  <2> QED BY <1>1, <1>2, NatLessThanWellFounded, WFMin
<1>4. \A m \in T : ~(m < n)
  BY <1>3 DEF OpToRel
<1>5. \A e \in D : e <= NumP - 1 - n
  <2> SUFFICES ASSUME NEW e \in D PROVE e <= NumP - 1 - n
    OBVIOUS
  <2>1. e \in 0 .. NumP - 1 /\ NumP \in Nat
    BY SizeAssumption DEF Cores
  <2>2. NumP - 1 - e \in Nat /\ NumP - 1 - (NumP - 1 - e) = e
    BY <2>1
  <2>3. NumP - 1 - e \in T
    BY <2>2
  <2>4. n \in Nat /\ ~(NumP - 1 - e < n)
    BY <1>4, <2>3
  <2> QED BY <2>1, <2>4
<1> QED BY <1>5

\* A core's evaluation keeps the types of everything it changes.
LEMMA EvalType ==
  ASSUME TypeOK, NEW c \in Cores, Eval(c)
  PROVE  /\ clk' \in [Cores -> {0, 1}]
         /\ req' \in [Cores -> Request]
         /\ stall_last' \in [Cores -> BOOLEAN]
         /\ in_port' \in [Cores -> [Indexes -> Line]]
         /\ out_port' \in [Cores -> [Indexes -> Line]]
         /\ memory' \in [LineAddr -> Data]
         /\ reg' \in [Cores -> Word]
         /\ arch' \in [LineAddr -> Data]
<1>1. clk' \in [Cores -> {0, 1}]
  BY DEF TypeOK, Eval
<1>2. /\ in_port' \in [Cores -> [Indexes -> Line]]
      /\ out_port' \in [Cores -> [Indexes -> Line]]
      /\ memory' \in [LineAddr -> Data]
  BY DEF TypeOK, Eval
<1>3. CASE clk[c] = 0 /\ ~stall(c) /\ Retire(c)
  <2>1. stall_last' \in [Cores -> BOOLEAN]
    BY <1>3 DEF TypeOK, Retire
  <2>2. req' \in [Cores -> Request]
    <3>1. PICK r \in Programs[c] \cup {Idle} : req' = [req EXCEPT ![c] = r]
      BY <1>3 DEF Retire
    <3>2. r \in Request
      BY <3>1, ProgramAssumption DEF Request
    <3> QED BY <3>1, <3>2 DEF TypeOK
  <2>3. reg' \in [Cores -> Word]
    <3>1. CASE req[c].op = "load"
      <4>1. req[c] \in MemRequest
        BY <3>1 DEF TypeOK, Request, Idle
      <4>2. loadData(req[c], out_port[c]) \in Word
        BY <4>1 DEF TypeOK, loadData, MemRequest, Line, Data
      <4> QED BY <1>3, <3>1, <4>2 DEF TypeOK, Retire
    <3>2. CASE req[c].op # "load"
      BY <1>3, <3>2 DEF TypeOK, Retire
    <3> QED BY <3>1, <3>2
  <2>4. arch' \in [LineAddr -> Data]
    <3>1. CASE req[c].op = "store"
      <4> DEFINE r == req[c]
                 a == <<r.tag, r.index>>
      <4>1. r \in MemRequest
        BY <3>1 DEF TypeOK, Request, Idle
      <4>2. a \in LineAddr /\ r.word \in Words /\ arch[a] \in Data
        BY <4>1 DEF TypeOK, MemRequest, LineAddr
      <4>3. Merge(r, arch[a][r.word]) \in Word
        BY <4>1, <4>2 DEF Merge, MemRequest, Data, Word
      <4>4. [arch[a] EXCEPT ![r.word] = Merge(r, arch[a][r.word])] \in Data
        BY <4>2, <4>3 DEF Data
      <4>5. arch' = [arch EXCEPT ![a] =
                        [arch[a] EXCEPT ![r.word] = Merge(r, arch[a][r.word])]]
        BY <1>3, <3>1, <4>2 DEF Retire, TypeOK
      <4> QED BY <4>2, <4>4, <4>5 DEF TypeOK
    <3>2. CASE req[c].op # "store"
      BY <1>3, <3>2 DEF TypeOK, Retire
    <3> QED BY <3>1, <3>2
  <2> QED BY <1>1, <1>2, <2>1, <2>2, <2>3, <2>4
<1>4. CASE clk[c] = 0 /\ stall(c) /\ Hold(c)
  <2>1. stall_last' \in [Cores -> BOOLEAN] /\ reg' = reg /\ arch' = arch
    BY <1>4 DEF TypeOK, Hold
  <2>2. req' \in [Cores -> Request]
    <3>1. CASE req[c].op = "load" /\ req[c].chained /\ stall_last[c]
      <4>1. req[c] \in MemRequest
        BY <3>1 DEF TypeOK, Request, Idle
      <4>2. PICK t \in Tags, i \in Indexes, w \in Words :
              req' = [req EXCEPT ![c].tag = t, ![c].index = i, ![c].word = w]
        BY <1>4, <3>1 DEF Hold
      <4>3. [req[c] EXCEPT !.tag = t, !.index = i, !.word = w] \in MemRequest
        BY <4>1 DEF MemRequest
      <4> QED BY <4>2, <4>3 DEF TypeOK, Request
    <3>2. CASE ~(req[c].op = "load" /\ req[c].chained /\ stall_last[c])
      BY <1>4, <3>2 DEF TypeOK, Hold
    <3> QED BY <3>1, <3>2
  <2> QED BY <1>1, <1>2, <2>1, <2>2 DEF TypeOK
<1>5. CASE clk[c] = 1 /\ UNCHANGED <<req, stall_last, reg, arch>>
  BY <1>1, <1>2, <1>5 DEF TypeOK
<1> QED BY <1>3, <1>4, <1>5 DEF Eval

\* The end of the loop body keeps the types of what it changes.
LEMMA AdvanceType ==
  ASSUME TypeOK, Advance
  PROVE  /\ step' = "eval"
         /\ loop_m' \in 0 .. NumP - 1
         /\ main_time' \in 0 .. CORE_NUM_MAX - 1
         /\ run_core' \in Cores \cup {NoCore}
<1>1. CASE loop_m < NumP - 1
  BY <1>1, SizeAssumption DEF TypeOK, Advance
<1>2. CASE ~(loop_m < NumP - 1)
  <2>1. main_time + 1 \in Nat
    BY SizeAssumption DEF TypeOK
  <2>2. main_time' \in 0 .. CORE_NUM_MAX - 1
    BY <1>2, <2>1, Modulo DEF Advance
  <2> QED BY <1>2, <2>2, SizeAssumption DEF Advance
<1> QED BY <1>1, <1>2

\* What a miss writes back is a memory.
LEMMA WrittenBackType ==
  ASSUME TypeOK, NEW c \in Cores, NEW r \in MemRequest
  PROVE  WrittenBack(c, r) \in [LineAddr -> Data]
<1> SUFFICES ASSUME NEW a \in LineAddr
             PROVE  WrittenBack(c, r)[a] \in Data
  BY DEF WrittenBack
<1>1. \A d \in Cores : out_port[d][r.index].data \in Data
  BY DEF TypeOK, MemRequest, Line
<1>2. CASE a = <<r.tag, r.index>> /\ Dirty(c, r) # {}
  <2> DEFINE last == CHOOSE d \in Dirty(c, r) : \A e \in Dirty(c, r) : e <= d
  <2>1. Dirty(c, r) \in SUBSET Cores
    BY DEF Dirty
  <2>2. last \in Cores
    BY <1>2, <2>1, GreatestCore
  <2>3. WrittenBack(c, r)[a] = out_port[last][r.index].data
    BY <1>2 DEF WrittenBack
  <2> QED BY <1>1, <2>2, <2>3
<1>3. CASE ~(a = <<r.tag, r.index>> /\ Dirty(c, r) # {})
  BY <1>1, <1>3 DEF WrittenBack, TypeOK
<1> QED BY <1>2, <1>3

\* store_data_o is a word.
LEMMA StoreDataType ==
  ASSUME TypeOK, NEW c \in Cores, NEW r \in MemRequest
  PROVE  storeData(r, out_port[c]) \in Word
<1>1. loadData(r, out_port[c]) \in Word
  BY DEF TypeOK, loadData, MemRequest, Line, Data
<1>2. Merge(r, loadData(r, out_port[c])) \in Word
  BY <1>1 DEF Merge, MemRequest, Word
<1> QED BY <1>1, <1>2 DEF storeData

\* A granted miss comes from a load or a store of the core just clocked.
LEMMA GrantedType ==
  ASSUME TypeOK, NEW c \in Cores, Granted(c)
  PROVE  /\ bus_traffic_last' \in Cores \cup {NoCore}
         /\ prosFin_en' = prosFin_en
         /\ clk' = clk /\ req' = req /\ stall_last' = stall_last
         /\ out_port' = out_port /\ reg' = reg /\ arch' = arch
         /\ Advance
  BY DEF Granted, coreVars

\* A read miss keeps the types: the granted line and the downgraded ones.
LEMMA ReadMissType ==
  ASSUME TypeOK, NEW c \in Cores, ReadMiss(c)
  PROVE  TypeOK'
<1> DEFINE r == req[c]
           mem == WrittenBack(c, r)
           fill == [tag |-> r.tag, valid |-> Shared,
                    data |-> mem[<<r.tag, r.index>>]]
<1>1. Granted(c) /\ r \in MemRequest
  BY DEF ReadMiss, TypeOK, Request, Idle
<1>2. mem \in [LineAddr -> Data]
  BY <1>1, WrittenBackType
<1>3. fill \in Line
  BY <1>1, <1>2 DEF Line, MemRequest, LineAddr
<1>4. in_port' \in [Cores -> [Indexes -> Line]]
  <2>1. [in_port[c] EXCEPT ![r.index] = fill] \in [Indexes -> Line]
    BY <1>3 DEF TypeOK
  <2>2. ASSUME NEW d \in Cores
        PROVE  [in_port[d] EXCEPT ![r.index].valid = Shared] \in [Indexes -> Line]
    <3>1. in_port[d] \in [Indexes -> Line] /\ r.index \in Indexes
      BY <1>1 DEF TypeOK, MemRequest
    <3>2. [in_port[d][r.index] EXCEPT !.valid = Shared] \in Line
      BY <3>1 DEF Line
    <3> QED BY <3>1, <3>2
  <2>3. in_port' = [d \in Cores |->
          IF d = c THEN [in_port[d] EXCEPT ![r.index] = fill]
          ELSE IF d \in Dirty(c, r)
          THEN [in_port[d] EXCEPT ![r.index].valid = Shared]
          ELSE in_port[d]]
    BY DEF ReadMiss
  <2> HIDE DEF r, fill
  <2> QED BY <2>1, <2>2, <2>3 DEF TypeOK
<1>5. memory' \in [LineAddr -> Data]
  BY <1>2 DEF ReadMiss
<1> HIDE DEF mem, fill
<1> QED BY <1>1, <1>4, <1>5, GrantedType, AdvanceType DEF TypeOK

\* A write miss keeps the types: the granted line and the invalidated ones.
LEMMA WriteMissType ==
  ASSUME TypeOK, NEW c \in Cores, WriteMiss(c)
  PROVE  TypeOK'
<1> DEFINE r == req[c]
           mem == WrittenBack(c, r)
           line == [mem[<<r.tag, r.index>>] EXCEPT
                      ![r.word] = storeData(r, out_port[c])]
           fill == [tag |-> r.tag, valid |-> Modified, data |-> line]
<1>1. Granted(c) /\ r \in MemRequest
  BY DEF WriteMiss, TypeOK, Request, Idle
<1>2. mem \in [LineAddr -> Data]
  BY <1>1, WrittenBackType
<1>3. storeData(r, out_port[c]) \in Word
  BY <1>1, StoreDataType
<1>4. fill \in Line
  <2>1. <<r.tag, r.index>> \in LineAddr
    BY <1>1 DEF MemRequest, LineAddr
  <2>2. line \in Data
    BY <1>2, <1>3, <2>1 DEF Data
  <2> HIDE DEF line
  <2> QED BY <1>1, <2>2 DEF Line, MemRequest
<1>5. in_port' \in [Cores -> [Indexes -> Line]]
  <2>1. [in_port[c] EXCEPT ![r.index] = fill] \in [Indexes -> Line]
    BY <1>4 DEF TypeOK
  <2>2. ASSUME NEW d \in Cores
        PROVE  [in_port[d] EXCEPT ![r.index].valid = Invalid] \in [Indexes -> Line]
    <3>1. in_port[d] \in [Indexes -> Line] /\ r.index \in Indexes
      BY <1>1 DEF TypeOK, MemRequest
    <3>2. [in_port[d][r.index] EXCEPT !.valid = Invalid] \in Line
      BY <3>1 DEF Line
    <3> QED BY <3>1, <3>2
  <2>3. in_port' = [d \in Cores |->
          IF d = c THEN [in_port[d] EXCEPT ![r.index] = fill]
          ELSE IF Snooped(d, r)
          THEN [in_port[d] EXCEPT ![r.index].valid = Invalid]
          ELSE in_port[d]]
    BY DEF WriteMiss
  <2> HIDE DEF r, fill
  <2> QED BY <2>1, <2>2, <2>3 DEF TypeOK
<1>6. memory' \in [LineAddr -> Data]
  BY <1>2 DEF WriteMiss
<1> HIDE DEF mem, fill
<1> QED BY <1>1, <1>5, <1>6, GrantedType, AdvanceType DEF TypeOK

\* A write hit keeps the types: it replaces one word of one line.
LEMMA WriteHitType ==
  ASSUME TypeOK, NEW c \in Cores, WriteHit(c)
  PROVE  TypeOK'
<1> DEFINE r == req[c]
           i == r.index
<1>1. r \in MemRequest /\ Advance
  BY DEF WriteHit, writeHit, TypeOK, Request, Idle
<1>2. i \in Indexes /\ r.word \in Words
  BY <1>1 DEF MemRequest
<1>3. storeData(r, out_port[c]) \in Word
  BY <1>1, StoreDataType
<1>4. in_port[c][i] \in Line /\ in_port[c][i].data \in Data
  BY <1>2 DEF TypeOK, Line
<1>5. [in_port[c][i].data EXCEPT ![r.word] = storeData(r, out_port[c])] \in Data
  BY <1>2, <1>3, <1>4 DEF Data
<1>6. [in_port[c][i] EXCEPT !.data[r.word] = storeData(r, out_port[c])] \in Line
  BY <1>4, <1>5 DEF Line
<1>7. in_port' = [in_port EXCEPT ![c] = [in_port[c] EXCEPT ![i] =
        [in_port[c][i] EXCEPT !.data[r.word] = storeData(r, out_port[c])]]]
  BY DEF WriteHit
<1>8. in_port' \in [Cores -> [Indexes -> Line]]
  BY <1>2, <1>6, <1>7 DEF TypeOK
<1> QED BY <1>1, <1>8, AdvanceType DEF TypeOK, WriteHit, coreVars

\* The simulator starts well typed.
LEMMA TypeInit == Init => TypeOK
<1> SUFFICES ASSUME Init PROVE TypeOK
  OBVIOUS
<1>1. [b \in Bytes |-> InitVal] \in Word
  BY DataAssumption DEF Word
<1>2. main_time \in 0 .. CORE_NUM_MAX - 1
  BY Modulo DEF Init
<1>3. 0 \in 0 .. NumP - 1
  BY SizeAssumption
<1> QED BY <1>1, <1>2, <1>3, DataAssumption
        DEF Init, TypeOK, Data, Line, Request

\* Every step keeps the types.
LEMMA TypeStep == TypeOK /\ [Next]_vars => TypeOK'
<1> SUFFICES ASSUME TypeOK, [Next]_vars PROVE TypeOK'
  OBVIOUS
<1>1. CASE OwnerTurn
  <2>1. bus_traffic_last \in Cores
    BY <1>1 DEF OwnerTurn, TypeOK
  <2>2. Eval(bus_traffic_last)
    BY <1>1 DEF OwnerTurn
  <2>3. main_time' \in 0 .. CORE_NUM_MAX - 1
    <3>1. main_time + 1 \in Nat
      BY SizeAssumption DEF TypeOK
    <3> QED BY <1>1, <3>1, Modulo DEF OwnerTurn
  <2>4. loop_m' \in 0 .. NumP - 1
    BY <1>1, SizeAssumption DEF OwnerTurn
  <2> QED BY <1>1, <2>1, <2>2, <2>3, <2>4, EvalType DEF OwnerTurn, TypeOK
<1>2. CASE Turn
  <2>1. CASE Eval(loop_i)
    BY <1>2, <2>1, LoopInCores, EvalType DEF Turn, TypeOK
  <2>2. CASE UNCHANGED <<coreVars, cacheVars>>
    BY <1>2, <2>2 DEF Turn, TypeOK, coreVars, cacheVars
  <2> QED BY <1>2, <2>1, <2>2 DEF Turn
<1>3. ASSUME NEW c \in Cores, ReadMiss(c) PROVE TypeOK'
  BY <1>3, ReadMissType
<1>4. ASSUME NEW c \in Cores, WriteMiss(c) PROVE TypeOK'
  BY <1>4, WriteMissType
<1>5. ASSUME NEW c \in Cores, WriteHit(c) PROVE TypeOK'
  BY <1>5, WriteHitType
<1>6. ASSUME NEW c \in Cores, Finish(c) PROVE TypeOK'
  BY <1>6, AdvanceType DEF Finish, TypeOK, coreVars, cacheVars
<1>7. ASSUME NEW c \in Cores, Pass(c) PROVE TypeOK'
  BY <1>7, AdvanceType DEF Pass, TypeOK, coreVars, cacheVars
<1>8. CASE UNCHANGED vars
  BY <1>8 DEF vars, busVars, coreVars, cacheVars, TypeOK
<1> QED BY <1>1, <1>2, <1>3, <1>4, <1>5, <1>6, <1>7, <1>8
        DEF Next, Serve, Stopped

\* Every reachable state is well typed, for any number of cores and any
\* address space: the loop over the cores never leaves them in either
\* direction, and what the bus writes into the caches are lines.
THEOREM TypeCorrect == Spec => []TypeOK
BY TypeInit, TypeStep, PTL DEF Spec

-----------------------------------------------------------------------------
(***************************************************************************)
(* Coherence.  The bus reads tags and states from the _o ports, which lag  *)
(* behind the caches, and it knows nothing of the schedule.  The inductive *)
(* invariant says how the ports lag (PortsAgree) and where the owner of    *)
(* the bus stands in the loop (OwnerIsPast); SWMR and GrantStands follow   *)
(* step by step from the two.                                              *)
(***************************************************************************)
IInv == TypeOK /\ SWMR /\ PortsAgree /\ GrantStands /\ OwnerIsPast

\* An evaluation brings the _o ports of its core up to date and touches no
\* cache.
LEMMA EvalPorts ==
  ASSUME TypeOK, NEW c \in Cores, Eval(c)
  PROVE  /\ in_port' = in_port
         /\ out_port'[c] = in_port[c]
         /\ \A d \in Cores \ {c} : out_port'[d] = out_port[d]
         /\ \A d \in Cores \ {c} : req'[d] = req[d]
<1>1. /\ in_port' = in_port
      /\ out_port'[c] = in_port[c]
      /\ \A d \in Cores \ {c} : out_port'[d] = out_port[d]
  BY DEF Eval, TypeOK
<1>2. ASSUME NEW d \in Cores \ {c} PROVE req'[d] = req[d]
  BY <1>2 DEF Eval, Retire, Hold, TypeOK
<1> QED BY <1>1, <1>2

\* The core whose turn it is does not own the bus.
LEMMA OwnerWaits ==
  ASSUME TypeOK, OwnerIsPast, Turn
  PROVE  loop_i # bus_traffic_last
<1>1. CASE bus_traffic_last = NoCore
  BY <1>1, LoopInCores, SizeAssumption DEF Cores, NoCore
<1>2. CASE bus_traffic_last # NoCore
  <2>1. loop_m # 0 /\ run_core = NoCore /\ Position(bus_traffic_last) < loop_m
    BY <1>2 DEF Turn, OwnerIsPast
  <2>2. bus_traffic_last \in 0 .. NumP - 1 /\ loop_m \in 0 .. NumP - 1
    BY <1>2 DEF TypeOK, Cores
  <2> QED BY <2>1, <2>2, SizeAssumption DEF loop_i, Position
<1> QED BY <1>1, <1>2

\* SWMR without its address pairs, as the proofs below use and establish it.
Exclusive ==
  \A t \in Tags, i \in Indexes, d, e \in Cores :
    ~ /\ d # e
      /\ in_port[d][i].tag = t /\ in_port[d][i].valid = Modified
      /\ in_port[e][i].tag = t /\ in_port[e][i].valid \in {Shared, Modified}

\* The two forms say the same, in a state and in the next one.
LEMMA SWMRByIndex == SWMR <=> Exclusive
<1>1. ASSUME SWMR, NEW t \in Tags, NEW i \in Indexes, NEW d \in Cores, NEW e \in Cores,
             d # e, in_port[d][i].tag = t, in_port[d][i].valid = Modified,
             in_port[e][i].tag = t, in_port[e][i].valid \in {Shared, Modified}
      PROVE  FALSE
  <2> DEFINE a == <<t, i>>
  <2>1. a \in LineAddr /\ a[1] = t /\ a[2] = i
    BY DEF LineAddr
  <2>2. Holds(in_port, d, a, {Modified}) /\ Holds(in_port, e, a, {Shared, Modified})
    BY <1>1, <2>1 DEF Holds
  <2> HIDE DEF a
  <2> QED BY <1>1, <2>1, <2>2 DEF SWMR
<1>2. ASSUME NEW a \in LineAddr
      PROVE  a[1] \in Tags /\ a[2] \in Indexes
  BY DEF LineAddr
<1> QED BY <1>1, <1>2 DEF SWMR, Holds, Exclusive

\* The same of the next state.
LEMMA SWMRByIndexPrimed == SWMR' <=> Exclusive'
BY SWMRByIndex, PTL

\* A miss is served while no core owns the bus.
LEMMA ReadMissSafe ==
  ASSUME IInv, NEW c \in Cores, ReadMiss(c)
  PROVE  SWMR' /\ PortsAgree' /\ GrantStands'
<1> DEFINE r == req[c]
<1> USE DEF IInv
<1>1. /\ bus_traffic_last = NoCore /\ bus_traffic_last' = c
      /\ req' = req /\ out_port' = out_port
  BY DEF ReadMiss, Granted, coreVars
<1>2. r \in MemRequest /\ r.index \in Indexes /\ r.op = "load"
  BY DEF ReadMiss, TypeOK, Request, Idle, MemRequest
<1>3. NoCore \notin Cores
  BY SizeAssumption DEF Cores, NoCore
<1>4. /\ in_port'[c][r.index].tag = r.tag
      /\ in_port'[c][r.index].valid = Shared
  BY <1>2 DEF ReadMiss, TypeOK
<1>5. ASSUME NEW i \in Indexes, i # r.index
      PROVE  \A d \in Cores : in_port'[d][i] = in_port[d][i]
  BY <1>2, <1>5 DEF ReadMiss, TypeOK
<1>6. ASSUME NEW d \in Cores \ {c}
      PROVE  /\ in_port'[d][r.index].tag = in_port[d][r.index].tag
             /\ in_port'[d][r.index].valid =
                  IF d \in Dirty(c, r) THEN Shared ELSE in_port[d][r.index].valid
  <2>1. in_port[d] \in [Indexes -> Line]
    BY DEF TypeOK
  <2>2. in_port'[d] = IF d \in Dirty(c, r)
                      THEN [in_port[d] EXCEPT ![r.index].valid = Shared]
                      ELSE in_port[d]
    BY DEF ReadMiss
  <2>3. in_port[d][r.index] \in Line
    BY <1>2, <2>1
  <2> QED BY <1>2, <2>1, <2>2, <2>3 DEF Line
\* Every other core that holds the requested line modified shows it so.
<1>7. ASSUME NEW d \in Cores \ {c},
             in_port[d][r.index].tag = r.tag,
             in_port[d][r.index].valid = Modified
      PROVE  d \in Dirty(c, r)
  BY <1>1, <1>2, <1>3, <1>7 DEF PortsAgree, Dirty, Snooped
<1>8. PortsAgree'
  <2> SUFFICES ASSUME NEW d \in Cores \ {c}, NEW i \in Indexes
               PROVE  /\ in_port'[d][i].tag = out_port[d][i].tag
                      /\ in_port'[d][i].valid = Modified
                           => out_port[d][i].valid = Modified
    BY <1>1 DEF PortsAgree
  <2>1. /\ in_port[d][i].tag = out_port[d][i].tag
        /\ in_port[d][i].valid = Modified => out_port[d][i].valid = Modified
    BY <1>1, <1>3 DEF PortsAgree
  <2> QED BY <1>5, <1>6, <2>1 DEF Shared, Modified
<1>9. SWMR'
  <2> SUFFICES ASSUME NEW t \in Tags, NEW i \in Indexes,
                      NEW d \in Cores, NEW e \in Cores, d # e,
                      in_port'[d][i].tag = t, in_port'[d][i].valid = Modified,
                      in_port'[e][i].tag = t,
                      in_port'[e][i].valid \in {Shared, Modified}
               PROVE  FALSE
    BY SWMRByIndexPrimed DEF Exclusive
  <2>1. CASE i # r.index
    BY <1>5, <2>1, SWMRByIndex DEF Exclusive
  <2>2. CASE i = r.index
    <3>1. d # c
      BY <1>4, <2>2 DEF Shared, Modified
    <3>2. d \notin Dirty(c, r) /\ in_port[d][i].tag = t /\ in_port[d][i].valid = Modified
      BY <1>6, <2>2, <3>1 DEF Shared, Modified
    <3>3. e # c
      BY <1>4, <1>7, <2>2, <3>1, <3>2
    <3>4. e \notin Dirty(c, r)
      BY <1>1, <1>3, <1>6, <1>7, <2>2, <3>1, <3>2, <3>3 DEF PortsAgree, Dirty, Snooped
    <3>5. in_port[e][i].tag = t /\ in_port[e][i].valid \in {Shared, Modified}
      BY <1>6, <2>2, <3>3, <3>4
    <3> QED BY <3>2, <3>5, SWMRByIndex DEF Exclusive
  <2> QED BY <2>1, <2>2
<1>10. GrantStands'
  BY <1>1, <1>2, <1>4 DEF GrantStands, hit, readHit
<1> QED BY <1>8, <1>9, <1>10

\* A write miss takes the line from every other core, modified or shared.
LEMMA WriteMissSafe ==
  ASSUME IInv, NEW c \in Cores, WriteMiss(c)
  PROVE  SWMR' /\ PortsAgree' /\ GrantStands'
<1> DEFINE r == req[c]
<1> USE DEF IInv
<1>1. /\ bus_traffic_last = NoCore /\ bus_traffic_last' = c
      /\ req' = req /\ out_port' = out_port
  BY DEF WriteMiss, Granted, coreVars
<1>2. r \in MemRequest /\ r.index \in Indexes /\ r.op = "store"
  BY DEF WriteMiss, TypeOK, Request, Idle, MemRequest
<1>3. NoCore \notin Cores
  BY SizeAssumption DEF Cores, NoCore
<1>4. /\ in_port'[c][r.index].tag = r.tag
      /\ in_port'[c][r.index].valid = Modified
  BY <1>2 DEF WriteMiss, TypeOK
<1>5. ASSUME NEW i \in Indexes, i # r.index
      PROVE  \A d \in Cores : in_port'[d][i] = in_port[d][i]
  BY <1>2, <1>5 DEF WriteMiss, TypeOK
<1>6. ASSUME NEW d \in Cores \ {c}
      PROVE  /\ in_port'[d][r.index].tag = in_port[d][r.index].tag
             /\ in_port'[d][r.index].valid =
                  IF in_port[d][r.index].tag = r.tag THEN Invalid
                  ELSE in_port[d][r.index].valid
  <2>1. in_port[d] \in [Indexes -> Line]
    BY DEF TypeOK
  <2>2. Snooped(d, r) <=> in_port[d][r.index].tag = r.tag
    BY <1>1, <1>2, <1>3 DEF PortsAgree, Snooped
  <2>3. in_port'[d] = IF in_port[d][r.index].tag = r.tag
                      THEN [in_port[d] EXCEPT ![r.index].valid = Invalid]
                      ELSE in_port[d]
    BY <2>2 DEF WriteMiss
  <2>4. in_port[d][r.index] \in Line
    BY <1>2, <2>1
  <2> QED BY <1>2, <2>1, <2>3, <2>4 DEF Line
<1>7. PortsAgree'
  <2> SUFFICES ASSUME NEW d \in Cores \ {c}, NEW i \in Indexes
               PROVE  /\ in_port'[d][i].tag = out_port[d][i].tag
                      /\ in_port'[d][i].valid = Modified
                           => out_port[d][i].valid = Modified
    BY <1>1 DEF PortsAgree
  <2>1. /\ in_port[d][i].tag = out_port[d][i].tag
        /\ in_port[d][i].valid = Modified => out_port[d][i].valid = Modified
    BY <1>1, <1>3 DEF PortsAgree
  <2> QED BY <1>5, <1>6, <2>1 DEF Invalid, Modified
<1>8. SWMR'
  <2> SUFFICES ASSUME NEW t \in Tags, NEW i \in Indexes,
                      NEW d \in Cores, NEW e \in Cores, d # e,
                      in_port'[d][i].tag = t, in_port'[d][i].valid = Modified,
                      in_port'[e][i].tag = t,
                      in_port'[e][i].valid \in {Shared, Modified}
               PROVE  FALSE
    BY SWMRByIndexPrimed DEF Exclusive
  <2>1. CASE i # r.index
    BY <1>5, <2>1, SWMRByIndex DEF Exclusive
  <2>2. CASE i = r.index
    <3>1. ASSUME NEW f \in {d, e}, f # c
          PROVE  in_port[f][i].tag = t /\ t # r.tag
                   /\ in_port'[f][i].valid = in_port[f][i].valid
      BY <1>6, <2>2, <3>1 DEF Invalid, Shared, Modified
    <3>2. t # r.tag
      BY <3>1
    <3>3. d # c /\ e # c
      BY <1>4, <2>2, <3>2
    <3> QED BY <3>1, <3>3, SWMRByIndex DEF Exclusive
  <2> QED BY <2>1, <2>2
<1>9. GrantStands'
  BY <1>1, <1>2, <1>4 DEF GrantStands, hit, writeHit
<1> QED BY <1>7, <1>8, <1>9

\* A write hit changes a word of data, neither a tag nor a state.
LEMMA WriteHitSafe ==
  ASSUME IInv, NEW c \in Cores, WriteHit(c)
  PROVE  SWMR' /\ PortsAgree' /\ GrantStands'
<1> USE DEF IInv
<1>1. /\ bus_traffic_last' = bus_traffic_last
      /\ req' = req /\ out_port' = out_port
  BY DEF WriteHit, coreVars
<1>2. req[c] \in MemRequest /\ req[c].index \in Indexes
  BY DEF WriteHit, writeHit, TypeOK, Request, Idle, MemRequest
<1>3. ASSUME NEW d \in Cores, NEW i \in Indexes
      PROVE  /\ in_port'[d][i].tag = in_port[d][i].tag
             /\ in_port'[d][i].valid = in_port[d][i].valid
  <2>1. in_port \in [Cores -> [Indexes -> Line]]
    BY DEF TypeOK
  <2>2. in_port[d][i] \in Line
    BY <2>1
  <2>3. CASE d = c /\ i = req[c].index
    <3> DEFINE v == [in_port[c][i].data EXCEPT
                       ![req[c].word] = storeData(req[c], out_port[c])]
    <3>1. in_port'[d][i] = [in_port[d][i] EXCEPT !.data = v]
      BY <1>2, <2>1, <2>3 DEF WriteHit
    <3> HIDE DEF v
    <3> QED BY <2>2, <3>1 DEF Line
  <2>4. CASE ~(d = c /\ i = req[c].index)
    <3>1. in_port'[d][i] = in_port[d][i]
      BY <1>2, <2>1, <2>4 DEF WriteHit
    <3> QED BY <3>1
  <2> QED BY <2>3, <2>4
<1>4. SWMR'
  BY <1>3, SWMRByIndex, SWMRByIndexPrimed DEF Exclusive
<1>5. PortsAgree'
  BY <1>1, <1>3 DEF PortsAgree
<1>6. GrantStands'
  <2> SUFFICES ASSUME NEW d \in Cores, bus_traffic_last = d
               PROVE  hit(req[d], in_port'[d])
    BY <1>1 DEF GrantStands
  <2>1. hit(req[d], in_port[d])
    BY DEF GrantStands
  <2>2. req[d].index \in Indexes
    BY <2>1 DEF hit, readHit, writeHit, TypeOK, Request, Idle, MemRequest
  <2> QED BY <1>3, <2>1, <2>2 DEF hit, readHit, writeHit
<1> QED BY <1>4, <1>5, <1>6

\* The end of the loop body keeps a grant's owner in the past.
LEMMA AdvancePast ==
  ASSUME TypeOK, OwnerIsPast, Advance, step = "serve",
         bus_traffic_last' = bus_traffic_last
  PROVE  OwnerIsPast'
<1>1. CASE loop_m < NumP - 1
  <2>1. main_time' = main_time /\ run_core' = run_core /\ loop_m' = loop_m + 1
    BY <1>1 DEF Advance
  <2>2. run_core = NoCore
    BY <1>1, SizeAssumption DEF OwnerIsPast, TypeOK
  <2>3. CASE bus_traffic_last = NoCore
    BY <2>1, <2>2, <2>3 DEF OwnerIsPast
  <2>4. CASE bus_traffic_last # NoCore
    <3>1. Position(bus_traffic_last) < loop_m
      BY <2>4 DEF OwnerIsPast
    <3>2. bus_traffic_last \in 0 .. NumP - 1 /\ loop_m \in 0 .. NumP - 1
      BY <2>4 DEF TypeOK, Cores
    <3>3. Position(bus_traffic_last)' = Position(bus_traffic_last)
      BY <2>1 DEF Position, Reversed
    <3> QED BY <2>1, <2>2, <3>1, <3>2, <3>3, SizeAssumption DEF OwnerIsPast, Position
  <2> QED BY <2>3, <2>4
<1>2. CASE ~(loop_m < NumP - 1)
  BY <1>2 DEF Advance, OwnerIsPast
<1> QED BY <1>1, <1>2

\* A core that is granted a line has just had its turn.
LEMMA GrantedPast ==
  ASSUME TypeOK, OwnerIsPast, NEW c \in Cores, Granted(c)
  PROVE  OwnerIsPast'
<1>1. c = loop_i /\ bus_traffic_last' = c /\ Advance
  BY DEF Granted, Serving
<1>2. CASE loop_m < NumP - 1
  <2>1. main_time' = main_time /\ run_core' = run_core /\ loop_m' = loop_m + 1
    BY <1>1, <1>2 DEF Advance
  <2>2. run_core = NoCore
    BY <1>2, SizeAssumption DEF OwnerIsPast, TypeOK
  <2>3. Position(c) = loop_m
    BY <1>1, <2>2, SizeAssumption DEF Position, loop_i, TypeOK
  <2>4. Position(c)' = Position(c)
    BY <2>1 DEF Position, Reversed
  <2>5. Position(bus_traffic_last)' = Position(c)'
    BY <1>1 DEF Position, Reversed
  <2> QED BY <1>1, <2>1, <2>2, <2>3, <2>4, <2>5 DEF OwnerIsPast, TypeOK
<1>3. CASE ~(loop_m < NumP - 1)
  BY <1>1, <1>3 DEF Advance, OwnerIsPast
<1> QED BY <1>2, <1>3

\* The extra toggle shows the owner's ports and releases the bus.
LEMMA OwnerTurnSafe ==
  ASSUME IInv, OwnerTurn
  PROVE  SWMR' /\ PortsAgree' /\ GrantStands' /\ OwnerIsPast'
<1> DEFINE c == bus_traffic_last
<1> USE DEF IInv
<1>1. c \in Cores /\ Eval(c) /\ bus_traffic_last' = NoCore /\ loop_m' = NumP - 1
  BY DEF OwnerTurn, TypeOK
<1>2. NoCore \notin Cores
  BY SizeAssumption DEF Cores, NoCore
<1>3. /\ in_port' = in_port
      /\ out_port'[c] = in_port[c]
      /\ \A d \in Cores \ {c} : out_port'[d] = out_port[d]
  BY <1>1, EvalPorts
<1>4. SWMR'
  BY <1>3, SWMRByIndex, SWMRByIndexPrimed DEF Exclusive
<1>5. PortsAgree'
  BY <1>3 DEF PortsAgree
<1>6. GrantStands'
  BY <1>1, <1>2 DEF GrantStands
<1>7. OwnerIsPast'
  BY <1>1 DEF OwnerIsPast
<1> QED BY <1>4, <1>5, <1>6, <1>7

\* A turn evaluates a core that does not own the bus.
LEMMA TurnSafe ==
  ASSUME IInv, Turn
  PROVE  SWMR' /\ PortsAgree' /\ GrantStands' /\ OwnerIsPast'
<1> USE DEF IInv
<1>1. /\ UNCHANGED <<main_time, loop_m, bus_traffic_last, run_core>>
      /\ step = "eval" /\ step' = "serve"
      /\ loop_m = 0 => bus_traffic_last = NoCore
  BY DEF Turn
<1>2. OwnerIsPast'
  <2>1. CASE bus_traffic_last = NoCore
    BY <1>1, <2>1 DEF OwnerIsPast
  <2>2. CASE bus_traffic_last # NoCore
    <3>1. run_core = NoCore /\ Position(bus_traffic_last) < loop_m
      BY <1>1, <2>2 DEF OwnerIsPast
    <3>2. Position(bus_traffic_last)' = Position(bus_traffic_last)
      BY <1>1 DEF Position, Reversed
    <3> QED BY <1>1, <3>1, <3>2 DEF OwnerIsPast
  <2> QED BY <2>1, <2>2
<1>3. CASE Eval(loop_i)
  <2>1. loop_i \in Cores /\ loop_i # bus_traffic_last
    BY LoopInCores, OwnerWaits
  <2>2. /\ in_port' = in_port
        /\ out_port'[loop_i] = in_port[loop_i]
        /\ \A d \in Cores \ {loop_i} : out_port'[d] = out_port[d]
        /\ \A d \in Cores \ {loop_i} : req'[d] = req[d]
    BY <1>3, <2>1, EvalPorts
  <2>3. SWMR'
    BY <2>2, SWMRByIndex, SWMRByIndexPrimed DEF Exclusive
  <2>4. PortsAgree'
    BY <1>1, <2>2 DEF PortsAgree
  <2>5. GrantStands'
    BY <1>1, <2>1, <2>2 DEF GrantStands
  <2> QED BY <1>2, <2>3, <2>4, <2>5
<1>4. CASE UNCHANGED <<coreVars, cacheVars>>
  <2>1. in_port' = in_port /\ out_port' = out_port /\ req' = req
    BY <1>4 DEF coreVars, cacheVars
  <2>2. SWMR'
    BY <2>1, SWMRByIndex, SWMRByIndexPrimed DEF Exclusive
  <2> QED BY <1>1, <1>2, <2>1, <2>2 DEF PortsAgree, GrantStands
<1> QED BY <1>3, <1>4 DEF Turn

\* Steps that leave every core and every cache alone.
LEMMA IdleSafe ==
  ASSUME IInv, UNCHANGED <<bus_traffic_last, coreVars, cacheVars>>
  PROVE  SWMR' /\ PortsAgree' /\ GrantStands'
<1>1. in_port' = in_port /\ out_port' = out_port /\ req' = req
  BY DEF coreVars, cacheVars
<1>2. SWMR'
  BY <1>1, SWMRByIndex, SWMRByIndexPrimed DEF Exclusive, IInv
<1> QED BY <1>1, <1>2 DEF IInv, PortsAgree, GrantStands

\* The inductive invariant holds of every reachable state: initially, and one
\* step per action.
THEOREM Inductive == Spec => []IInv
<1>1. Init => IInv
  <2> SUFFICES ASSUME Init PROVE IInv
    OBVIOUS
  <2>1. TypeOK
    BY TypeInit
  <2>2. SWMR
    BY SWMRByIndex DEF Init, Exclusive, Invalid, Modified
  <2>3. PortsAgree
    BY DEF Init, PortsAgree, Invalid, Modified
  <2>4. GrantStands /\ OwnerIsPast
    BY SizeAssumption DEF Init, GrantStands, OwnerIsPast, Cores, NoCore
  <2> QED BY <2>1, <2>2, <2>3, <2>4 DEF IInv
<1>2. IInv /\ [Next]_vars => IInv'
  <2> SUFFICES ASSUME IInv, [Next]_vars PROVE IInv'
    OBVIOUS
  <2> USE DEF IInv
  <2>0. TypeOK'
    BY TypeStep
  <2>1. CASE OwnerTurn
    BY <2>0, <2>1, OwnerTurnSafe
  <2>2. CASE Turn
    BY <2>0, <2>2, TurnSafe
  <2>3. ASSUME NEW c \in Cores, ReadMiss(c) PROVE IInv'
    BY <2>0, <2>3, ReadMissSafe, GrantedPast DEF ReadMiss
  <2>4. ASSUME NEW c \in Cores, WriteMiss(c) PROVE IInv'
    BY <2>0, <2>4, WriteMissSafe, GrantedPast DEF WriteMiss
  <2>5. ASSUME NEW c \in Cores, WriteHit(c) PROVE IInv'
    BY <2>0, <2>5, WriteHitSafe, AdvancePast DEF WriteHit, Serving
  <2>6. ASSUME NEW c \in Cores, Finish(c) PROVE IInv'
    BY <2>0, <2>6, IdleSafe, AdvancePast DEF Finish, Serving
  <2>7. ASSUME NEW c \in Cores, Pass(c) PROVE IInv'
    BY <2>0, <2>7, IdleSafe, AdvancePast DEF Pass
  <2>8. CASE UNCHANGED vars
    <3>1. UNCHANGED <<bus_traffic_last, coreVars, cacheVars>>
      BY <2>8 DEF vars, busVars
    <3>2. OwnerIsPast'
      BY <2>8 DEF vars, busVars, OwnerIsPast, Position, Reversed
    <3> QED BY <2>0, <3>1, <3>2, IdleSafe
  <2> QED BY <2>1, <2>2, <2>3, <2>4, <2>5, <2>6, <2>7, <2>8
          DEF Next, Serve, Stopped
<1> QED BY <1>1, <1>2, PTL DEF Spec

\* Single writer, multiple readers, in the caches themselves, for any number
\* of cores, any programs and any address space.
THEOREM Coherent == Spec => []SWMR
BY Inductive, PTL DEF IInv

\* What the bus grants is there when its owner comes to use it.
THEOREM GrantsStand == Spec => []GrantStands
BY Inductive, PTL DEF IInv

\* The _o ports the bus snoops lag behind the caches only towards more rights.
THEOREM SnoopIsConservative == Spec => []PortsAgree
BY Inductive, PTL DEF IInv

\* A grant's owner is never evaluated between the grant and its extra toggle.
THEOREM OwnerStaysPast == Spec => []OwnerIsPast
BY Inductive, PTL DEF IInv

-----------------------------------------------------------------------------
(***************************************************************************)
(* The cores' clocks.  In the middle of an iteration they differ: a core   *)
(* is half a cycle ahead once the loop has passed it.  In an iteration     *)
(* over the owner alone main_time is already advanced by the extra toggle, *)
(* so that there the others are ahead until the owner has its second one.  *)
(***************************************************************************)
Toggled(c) ==
  IF run_core = NoCore
  THEN Position(c) < loop_m \/ (Position(c) = loop_m /\ step = "serve")
  ELSE c # run_core \/ step = "serve"

ClockInv ==
  /\ \A c \in Cores \ prosFin_en :
       clk[c] = IF Toggled(c) THEN 1 - (main_time % 2) ELSE main_time % 2
  /\ run_core # NoCore /\ step = "eval" => bus_traffic_last = NoCore

\* With an even number of residues main_time's parity survives its wrap.
LEMMA ParityFlips ==
  ASSUME CORE_NUM_MAX % 2 = 0, NEW m \in 0 .. CORE_NUM_MAX - 1
  PROVE  ((m + 1) % CORE_NUM_MAX) % 2 = 1 - (m % 2)
<1>1. CASE m + 1 < CORE_NUM_MAX
  <2>1. (m + 1) % CORE_NUM_MAX = m + 1
    BY <1>1, SizeAssumption
  <2> QED BY <2>1
<1>2. CASE m + 1 = CORE_NUM_MAX
  <2>1. (m + 1) % CORE_NUM_MAX = 0
    BY <1>2, SizeAssumption
  <2> QED BY <1>2, <2>1
<1> QED BY <1>1, <1>2, SizeAssumption

\* The loop visits every core at one position, below the number of cores.
LEMMA PositionInLoop ==
  ASSUME NEW c \in Cores
  PROVE  Position(c) \in 0 .. NumP - 1
BY SizeAssumption DEF Position, Cores

\* A step that serves a core moves the loop on and toggles no clock.
LEMMA AdvanceClocks ==
  ASSUME CORE_NUM_MAX % 2 = 0, TypeOK, OwnerIsPast, ClockInv,
         step = "serve", Advance, clk' = clk, prosFin_en \subseteq prosFin_en'
  PROVE  ClockInv'
<1>1. CASE loop_m < NumP - 1
  <2>1. run_core = NoCore /\ run_core' = NoCore /\ main_time' = main_time
        /\ loop_m' = loop_m + 1 /\ step' = "eval"
    BY <1>1, SizeAssumption DEF Advance, OwnerIsPast, TypeOK
  <2>2. ASSUME NEW c \in Cores PROVE Toggled(c)' = Toggled(c)
    <3>1. Position(c)' = Position(c)
      BY <2>1 DEF Position, Reversed
    <3>2. Position(c) \in Int /\ loop_m \in Int
      BY PositionInLoop DEF TypeOK
    <3> QED BY <2>1, <3>1, <3>2 DEF Toggled
  <2> QED BY <2>1, <2>2 DEF ClockInv
<1>2. CASE ~(loop_m < NumP - 1)
  <2>1. run_core' = NoCore /\ loop_m' = 0 /\ step' = "eval"
        /\ main_time' = (main_time + 1) % CORE_NUM_MAX /\ loop_m = NumP - 1
    BY <1>2, SizeAssumption DEF Advance, TypeOK
  <2>2. main_time' % 2 = 1 - (main_time % 2)
    BY <2>1, ParityFlips DEF TypeOK
  <2>3. ASSUME NEW c \in Cores PROVE Toggled(c) /\ ~Toggled(c)'
    <3>1. Position(c) \in 0 .. NumP - 1
      BY PositionInLoop
    <3>2. Position(c)' \in 0 .. NumP - 1
      BY SizeAssumption DEF Position, Cores
    <3>3. Position(c) < loop_m \/ Position(c) = loop_m
      BY <2>1, <3>1, SizeAssumption
    <3>4. ~(Position(c)' < loop_m') /\ step' # "serve"
      BY <2>1, <3>2
    <3> QED BY <2>1, <3>3, <3>4 DEF Toggled
  <2> QED BY <2>1, <2>2, <2>3 DEF ClockInv
<1> QED BY <1>1, <1>2

\* The loop's turn toggles the core at its position, if that still runs.
LEMMA TurnClocks ==
  ASSUME TypeOK, ClockInv, Turn
  PROVE  ClockInv'
<1>1. UNCHANGED <<main_time, loop_m, bus_traffic_last, run_core, prosFin_en>>
      /\ step = "eval" /\ step' = "serve"
  BY DEF Turn
<1>2. loop_i \in Cores
  BY LoopInCores
<1>3. ASSUME NEW c \in Cores
      PROVE  /\ c # loop_i => Toggled(c)' = Toggled(c)
             /\ c = loop_i => Toggled(c)' /\ ~Toggled(c)
  <2>1. CASE run_core = NoCore
    <3>1. Position(c)' = Position(c)
      BY <1>1 DEF Position, Reversed
    <3>2. (Position(c) = loop_m) = (c = loop_i)
      BY <2>1, SizeAssumption DEF Position, loop_i, TypeOK, Cores
    <3>3. loop_m \in Int
      BY DEF TypeOK
    <3> QED BY <1>1, <2>1, <3>1, <3>2, <3>3 DEF Toggled
  <2>2. CASE run_core # NoCore
    <3>1. loop_i = run_core
      BY <2>2 DEF loop_i
    <3> QED BY <1>1, <2>2, <3>1 DEF Toggled
  <2> QED BY <2>1, <2>2
<1>4. CASE loop_i \notin prosFin_en /\ Eval(loop_i)
  <2>1. /\ clk'[loop_i] = 1 - clk[loop_i]
        /\ \A c \in Cores \ {loop_i} : clk'[c] = clk[c]
    BY <1>2, <1>4 DEF Eval, TypeOK
  <2>2. clk[loop_i] = main_time % 2
    BY <1>2, <1>3, <1>4 DEF ClockInv
  <2>3. main_time' % 2 = main_time % 2
    BY <1>1
  <2>4. ASSUME NEW c \in Cores \ prosFin_en'
        PROVE  clk'[c] = IF Toggled(c)' THEN 1 - (main_time' % 2)
                                        ELSE main_time' % 2
    <3>1. CASE c = loop_i
      <4>1. Toggled(c)'
        BY <1>3, <3>1
      <4>2. clk'[c] = 1 - (main_time' % 2)
        BY <2>1, <2>2, <2>3, <3>1
      <4> QED BY <4>1, <4>2
    <3>2. CASE c # loop_i
      BY <1>1, <1>3, <2>1, <2>3, <3>2 DEF ClockInv
    <3> QED BY <3>1, <3>2
  <2> QED BY <1>1, <2>4 DEF ClockInv
<1>5. CASE loop_i \in prosFin_en /\ UNCHANGED <<coreVars, cacheVars>>
  <2>1. clk' = clk
    BY <1>5 DEF coreVars
  <2>2. ASSUME NEW c \in Cores \ prosFin_en'
        PROVE  clk'[c] = IF Toggled(c)' THEN 1 - (main_time' % 2)
                                        ELSE main_time' % 2
    <3>1. c # loop_i /\ c \in Cores \ prosFin_en
      BY <1>1, <1>5
    <3> QED BY <1>1, <1>3, <2>1, <3>1 DEF ClockInv
  <2> QED BY <1>1, <2>2 DEF ClockInv
<1> QED BY <1>4, <1>5 DEF Turn

\* The extra toggle advances the owner and main_time: the owner agrees again,
\* and the others are the ones ahead.
LEMMA OwnerTurnClocks ==
  ASSUME CORE_NUM_MAX % 2 = 0, TypeOK, ClockInv, OwnerTurn
  PROVE  ClockInv'
<1> DEFINE o == bus_traffic_last
<1>1. /\ o \in Cores /\ o # NoCore /\ Eval(o) /\ run_core' = o
      /\ bus_traffic_last' = NoCore /\ prosFin_en' = prosFin_en
      /\ step = "eval" /\ step' = "eval" /\ loop_m = 0
      /\ main_time' = (main_time + 1) % CORE_NUM_MAX
  BY DEF OwnerTurn, TypeOK
<1>2. run_core = NoCore
  BY <1>1 DEF ClockInv
<1>3. main_time' % 2 = 1 - (main_time % 2)
  BY <1>1, ParityFlips DEF TypeOK
<1>4. /\ clk'[o] = 1 - clk[o]
      /\ \A c \in Cores \ {o} : clk'[c] = clk[c]
  BY <1>1 DEF Eval, TypeOK
<1>5. ASSUME NEW c \in Cores PROVE ~Toggled(c) /\ Toggled(c)' = (c # o)
  <2>1. ~(Position(c) < 0)
    BY PositionInLoop
  <2>2. ~Toggled(c)
    BY <1>1, <1>2, <2>1 DEF Toggled
  <2>3. Toggled(c)' = (c # o)
    <3>1. run_core' # NoCore /\ step' # "serve"
      BY <1>1
    <3> QED BY <1>1, <3>1 DEF Toggled
  <2> QED BY <2>2, <2>3
<1>6. main_time % 2 \in {0, 1}
  BY DEF TypeOK
<1>7. ASSUME NEW c \in Cores \ prosFin_en'
      PROVE  clk'[c] = IF Toggled(c)' THEN 1 - (main_time' % 2)
                                      ELSE main_time' % 2
  <2>1. clk[c] = main_time % 2
    BY <1>1, <1>5 DEF ClockInv
  <2>2. CASE c = o
    <3>1. clk'[c] = main_time' % 2
      BY <1>3, <1>4, <2>1, <2>2
    <3>2. ~Toggled(c)'
      BY <1>5, <2>2
    <3> QED BY <3>1, <3>2
  <2>3. CASE c # o
    <3>1. clk'[c] = 1 - (main_time' % 2)
      <4>1. clk'[c] = main_time % 2
        BY <1>4, <2>1, <2>3
      <4>2. 1 - (1 - (main_time % 2)) = main_time % 2
        BY <1>6
      <4> QED BY <1>3, <4>1, <4>2
    <3>2. Toggled(c)'
      BY <1>5, <2>3
    <3> QED BY <3>1, <3>2
  <2> QED BY <2>2, <2>3
<1> QED BY <1>1, <1>7 DEF ClockInv

\* The clocks' invariant, for any number of cores and an even CORE_NUM_MAX.
LEMMA ClocksInductive ==
  ASSUME CORE_NUM_MAX % 2 = 0
  PROVE  Spec => []ClockInv
<1>1. Init => ClockInv
  <2> SUFFICES ASSUME Init PROVE ClockInv
    OBVIOUS
  <2>1. main_time % 2 = 0
    <3>1. CORE_NUM_MAX = 2 \/ CORE_NUM_MAX = 4 \/ CORE_NUM_MAX > 4
      BY SizeAssumption
    <3>2. CORE_NUM_MAX > 4 => 4 % CORE_NUM_MAX = 4
      BY SizeAssumption
    <3>3. main_time = 4 % CORE_NUM_MAX
      BY DEF Init
    <3>4. CASE CORE_NUM_MAX > 4
      BY <3>2, <3>3, <3>4
    <3>5. CASE CORE_NUM_MAX = 4
      <4>1. main_time = 0
        BY <3>3, <3>5
      <4> QED BY <4>1
    <3>6. CASE CORE_NUM_MAX = 2
      <4>1. main_time = 0
        BY <3>3, <3>6
      <4> QED BY <4>1
    <3> QED BY <3>1, <3>4, <3>5, <3>6
  <2>2. ASSUME NEW c \in Cores PROVE ~Toggled(c)
    <3>1. ~(Position(c) < 0)
      BY PositionInLoop
    <3> QED BY <3>1 DEF Init, Toggled
  <2>3. \A c \in Cores : clk[c] = 0
    BY DEF Init
  <2> QED BY <2>1, <2>2, <2>3 DEF ClockInv, Init
<1>2. IInv /\ ClockInv /\ [Next]_vars => ClockInv'
  <2> SUFFICES ASSUME IInv, ClockInv, [Next]_vars PROVE ClockInv'
    OBVIOUS
  <2>0. TypeOK /\ OwnerIsPast
    BY DEF IInv
  <2>1. CASE OwnerTurn
    BY <2>0, <2>1, OwnerTurnClocks
  <2>2. CASE Turn
    BY <2>0, <2>2, TurnClocks
  <2>3. ASSUME NEW c \in Cores, Serve(c) PROVE ClockInv'
    <3>1. /\ step = "serve" /\ Advance /\ clk' = clk
          /\ prosFin_en \subseteq prosFin_en'
      BY <2>3 DEF Serve, ReadMiss, WriteMiss, WriteHit, Finish, Pass,
                  Granted, Serving, coreVars
    <3> QED BY <2>0, <3>1, AdvanceClocks
  <2>4. CASE UNCHANGED vars
    BY <2>4 DEF vars, busVars, coreVars, ClockInv, Toggled, Position, Reversed
  <2> QED BY <2>1, <2>2, <2>3, <2>4 DEF Next, Stopped
<1> QED BY <1>1, <1>2, Inductive, PTL DEF Spec

\* Whatever grants and extra toggles there were, every running core's clock is
\* main_time's parity between two iterations.  CORE_NUM_MAX is 4 or 8 in the
\* code; were it odd, the wrap of the residue would lose the parity.
THEOREM ClocksStayInPhase ==
  ASSUME CORE_NUM_MAX % 2 = 0
  PROVE  Spec => []ClocksAgree
<1>1. IInv /\ ClockInv => ClocksAgree
  <2> SUFFICES ASSUME IInv, ClockInv, loop_m = 0, step = "eval",
                      run_core = NoCore, NEW c \in Cores \ prosFin_en
               PROVE  clk[c] = main_time % 2
    BY DEF ClocksAgree
  <2>1. ~(Position(c) < 0)
    BY PositionInLoop
  <2>2. ~Toggled(c)
    BY <2>1 DEF Toggled
  <2> QED BY <2>2 DEF ClockInv
<1> QED BY <1>1, Inductive, ClocksInductive, PTL
=============================================================================
