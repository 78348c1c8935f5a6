------------------------------- MODULE MsiBus -------------------------------
(***************************************************************************)
(* The MSI multicore simulator of                                          *)
(* sim_core_c_msicache_nospike/sim_multicore_matmul: NumP Verilated cores, *)
(* each with a private write-back data cache (rtl/memory/data_cache.sv),   *)
(* and the C++ loop of sim_main.cpp that clocks the cores one after the    *)
(* other and acts as the snooping bus and as the backing memory.           *)
(*                                                                         *)
(* The arrays of a data cache exist twice.  in_port[c] is what sim_main    *)
(* last wrote to cacheLine_i, cacheLineTag_i and cacheLineValid_i of core  *)
(* c: testbench.sv assigns the arrays from those ports continuously, so    *)
(* in_port[c] is the cache.  out_port[c] is what the last eval() of core c *)
(* copied to the _o ports: the bus snoops out_port, and between two evals  *)
(* of core c the combinational hit and stall signals of its pipeline are   *)
(* those of out_port.  The two agree only right after core c is clocked.   *)
(*                                                                         *)
(* Half a clock cycle of one core is two steps here: an eval (Turn, or     *)
(* OwnerTurn for the extra toggle of the bus owner), then the loop body    *)
(* that serves what the core asks for (ReadMiss, WriteMiss, WriteHit,      *)
(* Pass).  Nothing runs between them in the code: the simulator has one    *)
(* thread, and the schedule below is the one it computes.                  *)
(***************************************************************************)
EXTENDS Integers, FiniteSets

CONSTANTS
  NumP,           \* number of cores, numP
  CORE_NUM_MAX,   \* the most cores the loop supports, and "no core" as an id
  Tags, Indexes,  \* a line's address is <<tag, index>>
  Words, Bytes,   \* words of a line, byte lanes of a word
  Vals,           \* values of a byte
  InitVal,        \* what a byte holds at the start
  Programs,       \* Programs[c]: the memory instructions core c may execute
  Finishers       \* the cores whose program ends, with li t1,100

Cores == 0 .. NumP - 1
NoCore == CORE_NUM_MAX

Invalid  == 0
Shared   == 1
Modified == 3

Word == [Bytes -> Vals]
Data == [Words -> Word]
Line == [tag : Tags, valid : {Invalid, Shared, Modified}, data : Data]
LineAddr == Tags \X Indexes

\* What the instruction in the execute stage asks of the data cache.  A
\* chained load is one like lw a0, 0(a0), that overwrites its base register.
MemRequest ==
  [op : {"load", "store"}, tag : Tags, index : Indexes, word : Words,
   bytes : SUBSET Bytes, val : Vals, chained : BOOLEAN]
Idle == [op |-> "none"]
Request == MemRequest \cup {Idle}

ASSUME SizeAssumption ==
  /\ CORE_NUM_MAX \in Nat \ {0}
  /\ NumP \in 1 .. CORE_NUM_MAX
ASSUME DataAssumption == InitVal \in Vals /\ 0 \in Tags
ASSUME ProgramAssumption ==
  /\ Programs \in [Cores -> SUBSET MemRequest]
  /\ Finishers \subseteq Cores

VARIABLES
  main_time,         \* modulo CORE_NUM_MAX: the loop only tests that residue
  loop_m,            \* position in the loop over the cores
  step,              \* "eval" or "serve": the next half of the loop body
  bus_traffic_last,  \* the core that got a line in this iteration, or NoCore
  run_core,          \* the only core that runs in this iteration, or NoCore
  prosFin_en,        \* the cores whose program has ended
  clk,               \* each core's clock
  req,               \* each core's instruction in the execute stage
  stall_last,        \* each core's stall_f2c_stage2 register
  in_port, out_port, \* the two views of each core's data cache
  memory,            \* the backing memory of sim_main
  reg,               \* what each core's last retired load returned
  arch               \* history: memory as the retired stores define it

busVars == <<main_time, loop_m, step, bus_traffic_last, run_core, prosFin_en>>
coreVars == <<clk, req, stall_last, reg, arch>>
cacheVars == <<in_port, out_port, memory>>
vars == <<busVars, coreVars, cacheVars>>

-----------------------------------------------------------------------------
(***************************************************************************)
(* The data cache's combinational outputs for request r on the lines ls.   *)
(***************************************************************************)
IsMem(r) == r.op # "none"

\* Mutant of readHit: the tag comparison is dropped.
readHitAnyTag(r, ls) ==
  r.op = "load" /\ ls[r.index].valid \in {Shared, Modified}

\* Mutant of readHit: a shared line does not hit.
readHitModified(r, ls) ==
  /\ r.op = "load"
  /\ ls[r.index].tag = r.tag /\ ls[r.index].valid = Modified

readHit(r, ls) ==
  /\ r.op = "load"
  /\ ls[r.index].tag = r.tag
  /\ ls[r.index].valid \in {Shared, Modified}

writeHit(r, ls) ==
  /\ r.op = "store"
  /\ ls[r.index].tag = r.tag
  /\ ls[r.index].valid = Modified

hit(r, ls) == readHit(r, ls) \/ writeHit(r, ls)
miss(r, ls) == IsMem(r) /\ ~hit(r, ls)

\* The word at r's address, whatever line occupies its index.
loadData(r, ls) == ls[r.index].data[r.word]

\* A word with the byte lanes that r's byte enables select replaced.
Merge(r, w) == [b \in Bytes |-> IF b \in r.bytes THEN r.val ELSE w[b]]

\* store_data_o: write_en is byte_enable gated by the write hit, and a lane
\* that is not enabled carries the byte the cache array already holds.
storeData(r, ls) ==
  IF writeHit(r, ls) THEN Merge(r, loadData(r, ls)) ELSE loadData(r, ls)

\* A load or store leaves the execute stage at a rising edge that follows a
\* stalled one, and only if it hits.
stall(c) ==
  /\ IsMem(req[c])
  /\ ~(stall_last[c] /\ hit(req[c], out_port[c]))

-----------------------------------------------------------------------------
\* The caches start invalid and the instruction stages empty; rst is released
\* when main_time passes 3, after two clock cycles.
Init ==
  LET blankWord == [b \in Bytes |-> InitVal]
      blank == [w \in Words |-> blankWord]
      empty == [i \in Indexes |-> [tag |-> 0, valid |-> Invalid, data |-> blank]]
  IN  /\ main_time = 4 % CORE_NUM_MAX
      /\ loop_m = 0
      /\ step = "eval"
      /\ bus_traffic_last = NoCore
      /\ run_core = NoCore
      /\ prosFin_en = {}
      /\ clk = [c \in Cores |-> 0]
      /\ req = [c \in Cores |-> Idle]
      /\ stall_last = [c \in Cores |-> FALSE]
      /\ in_port = [c \in Cores |-> empty]
      /\ out_port = [c \in Cores |-> empty]
      /\ memory = [a \in LineAddr |-> blank]
      /\ reg = [c \in Cores |-> blankWord]
      /\ arch = [a \in LineAddr |-> blank]

-----------------------------------------------------------------------------
(***************************************************************************)
(* One eval() of core c with clk inverted.                                 *)
(***************************************************************************)

\* The instruction in the execute stage leaves it, and the program's next
\* one enters.  A store that leaves counts as performed, a load has written
\* the word at its address to its register.
Retire(c) ==
  /\ stall_last' = [stall_last EXCEPT ![c] = FALSE]
  /\ \E r \in Programs[c] \cup {Idle} : req' = [req EXCEPT ![c] = r]
  /\ arch' = IF req[c].op = "store"
             THEN [arch EXCEPT ![<<req[c].tag, req[c].index>>][req[c].word] =
                                   Merge(req[c], @)]
             ELSE arch
  /\ reg' = IF req[c].op = "load"
            THEN [reg EXCEPT ![c] = loadData(req[c], out_port[c])]
            ELSE reg

\* A load held a second time writes its register already, with the word that
\* the missed index holds.  Only a chained load can tell: that word becomes
\* its base address, an arbitrary one.
Hold(c) ==
  /\ stall_last' = [stall_last EXCEPT ![c] = TRUE]
  /\ IF req[c].op = "load" /\ req[c].chained /\ stall_last[c]
     THEN \E t \in Tags, i \in Indexes, w \in Words :
            req' = [req EXCEPT ![c].tag = t, ![c].index = i, ![c].word = w]
     ELSE req' = req
  /\ UNCHANGED <<reg, arch>>

\* The flip-flops of the pipeline sample, at a rising edge, the stall signal
\* that the previous eval settled; then the _o ports show the _i ports.
Eval(c) ==
  /\ clk' = [clk EXCEPT ![c] = 1 - @]
  /\ \/ clk[c] = 0 /\ ~stall(c) /\ Retire(c)
     \/ clk[c] = 0 /\ stall(c) /\ Hold(c)
     \/ clk[c] = 1 /\ UNCHANGED <<req, stall_last, reg, arch>>
  /\ out_port' = [out_port EXCEPT ![c] = in_port[c]]
  /\ UNCHANGED <<in_port, memory>>

-----------------------------------------------------------------------------
(***************************************************************************)
(* The schedule.                                                           *)
(***************************************************************************)
AllFinished == prosFin_en = Cores

\* Mutant of Reversed: the loop always begins with core 0.
ReversedNever == FALSE

\* Two residues of main_time in CORE_NUM_MAX run the cores backwards.
Reversed == main_time \in {0, 1}

\* The core at the loop's current position.
loop_i ==
  IF run_core # NoCore THEN run_core
  ELSE IF Reversed THEN NumP - loop_m - 1 ELSE loop_m

\* Mutant of OwnerTurn: the extra toggle does not advance main_time.
OwnerTurnKeepsTime ==
  /\ step = "eval" /\ loop_m = 0
  /\ bus_traffic_last # NoCore
  /\ Eval(bus_traffic_last)
  /\ run_core' = bus_traffic_last
  /\ bus_traffic_last' = NoCore
  /\ loop_m' = NumP - 1
  /\ UNCHANGED <<main_time, step, prosFin_en>>

\* Mutant of OwnerTurn: the bus is not released.
OwnerTurnKeepsOwner ==
  /\ step = "eval" /\ loop_m = 0
  /\ bus_traffic_last # NoCore
  /\ Eval(bus_traffic_last)
  /\ run_core' = bus_traffic_last
  /\ main_time' = (main_time + 1) % CORE_NUM_MAX
  /\ loop_m' = NumP - 1
  /\ UNCHANGED <<bus_traffic_last, step, prosFin_en>>

\* Mutant of OwnerTurn: the owner is not evaluated.
OwnerTurnSkipsEval ==
  /\ step = "eval" /\ loop_m = 0
  /\ bus_traffic_last # NoCore
  /\ run_core' = bus_traffic_last
  /\ bus_traffic_last' = NoCore
  /\ main_time' = (main_time + 1) % CORE_NUM_MAX
  /\ loop_m' = NumP - 1
  /\ UNCHANGED <<step, prosFin_en, coreVars, cacheVars>>

\* The head of an iteration that follows a bus transfer: its owner gets an
\* extra toggle whose requests nobody serves, and alone runs in the iteration.
OwnerTurn ==
  /\ step = "eval" /\ loop_m = 0
  /\ bus_traffic_last # NoCore
  /\ Eval(bus_traffic_last)
  /\ run_core' = bus_traffic_last
  /\ bus_traffic_last' = NoCore
  /\ main_time' = (main_time + 1) % CORE_NUM_MAX
  /\ loop_m' = NumP - 1
  /\ UNCHANGED <<step, prosFin_en>>

\* The loop body's first half: a core whose program has ended is not clocked.
Turn ==
  /\ step = "eval" /\ ~AllFinished
  /\ loop_m = 0 => bus_traffic_last = NoCore
  /\ \/ loop_i \notin prosFin_en /\ Eval(loop_i)
     \/ loop_i \in prosFin_en /\ UNCHANGED <<coreVars, cacheVars>>
  /\ step' = "serve"
  /\ UNCHANGED <<main_time, loop_m, bus_traffic_last, run_core, prosFin_en>>

\* Mutant of Advance: the loop's bound is off by one.
AdvanceTooFar ==
  /\ step' = "eval"
  /\ IF loop_m <= NumP - 1
     THEN /\ loop_m' = loop_m + 1
          /\ UNCHANGED <<main_time, run_core>>
     ELSE /\ loop_m' = 0
          /\ main_time' = (main_time + 1) % CORE_NUM_MAX
          /\ run_core' = NoCore

\* The end of the loop body, and of the iteration after the last position.
Advance ==
  /\ step' = "eval"
  /\ IF loop_m < NumP - 1
     THEN /\ loop_m' = loop_m + 1
          /\ UNCHANGED <<main_time, run_core>>
     ELSE /\ loop_m' = 0
          /\ main_time' = (main_time + 1) % CORE_NUM_MAX
          /\ run_core' = NoCore

-----------------------------------------------------------------------------
(***************************************************************************)
(* The loop body's second half: the bus serves the core just clocked.      *)
(***************************************************************************)

\* The _o ports of d show the line that r asks for.
Snooped(d, r) == out_port[d][r.index].tag = r.tag

\* Mutant of Dirty: the loop over the cores stops at c.
DirtyBelow(c, r) ==
  {d \in 0 .. c - 1 : Snooped(d, r) /\ out_port[d][r.index].valid = Modified}

\* The cores other than c whose _o ports show the line modified.
Dirty(c, r) ==
  {d \in Cores \ {c} : Snooped(d, r) /\ out_port[d][r.index].valid = Modified}

\* Mutant of Evicts: a modified victim is dropped.
EvictsNothing(c, r) == FALSE

\* What c displaces: a modified line of another tag is written back.
Evicts(c, r) == ~Snooped(c, r) /\ out_port[c][r.index].valid = Modified

\* The loop over the cores writes back every dirty copy, in core order, to
\* the same memory line, and c's own victim to the victim's line.
WrittenBack(c, r) ==
  [a \in LineAddr |->
     IF a = <<r.tag, r.index>> /\ Dirty(c, r) # {}
     THEN LET last == CHOOSE d \in Dirty(c, r) : \A e \in Dirty(c, r) : e <= d
          IN  out_port[last][r.index].data
     ELSE IF Evicts(c, r) /\ a = <<out_port[c][r.index].tag, r.index>>
     THEN out_port[c][r.index].data
     ELSE memory[a]]

Serving(c) == step = "serve" /\ c = loop_i /\ c \notin prosFin_en

\* Mutant of Granted: every miss is served, the first of an iteration owns the bus.
GrantedAlways(c) ==
  /\ Serving(c)
  /\ bus_traffic_last' = IF bus_traffic_last = NoCore THEN c ELSE bus_traffic_last
  /\ Advance
  /\ UNCHANGED <<prosFin_en, coreVars, out_port>>

\* The bus serves one miss per iteration.
Granted(c) ==
  /\ Serving(c)
  /\ bus_traffic_last = NoCore
  /\ bus_traffic_last' = c
  /\ Advance
  /\ UNCHANGED <<prosFin_en, coreVars, out_port>>

\* BusRd: dirty copies elsewhere become Shared, c gets the line Shared.
ReadMiss(c) ==
  LET r == req[c]
      mem == WrittenBack(c, r)
      fill == [tag |-> r.tag, valid |-> Shared, data |-> mem[<<r.tag, r.index>>]]
  IN  /\ Granted(c)
      /\ r.op = "load" /\ ~readHit(r, out_port[c])
      /\ memory' = mem
      /\ in_port' = [d \in Cores |->
           IF d = c THEN [in_port[d] EXCEPT ![r.index] = fill]
           ELSE IF d \in Dirty(c, r)
           THEN [in_port[d] EXCEPT ![r.index].valid = Shared]
           ELSE in_port[d]]

\* BusRdX: copies elsewhere are invalidated, c gets the line Modified.  The
\* addressed word is not memory's: it is store_data_o.
WriteMiss(c) ==
  LET r == req[c]
      mem == WrittenBack(c, r)
      fill == [tag |-> r.tag, valid |-> Modified,
               data |-> [mem[<<r.tag, r.index>>] EXCEPT
                           ![r.word] = storeData(r, out_port[c])]]
  IN  /\ Granted(c)
      /\ r.op = "store" /\ ~writeHit(r, out_port[c])
      /\ memory' = mem
      /\ in_port' = [d \in Cores |->
           IF d = c THEN [in_port[d] EXCEPT ![r.index] = fill]
           ELSE IF Snooped(d, r)
           THEN [in_port[d] EXCEPT ![r.index].valid = Invalid]
           ELSE in_port[d]]

\* A store that hits writes its word into the _i ports; no bus is needed.
WriteHit(c) ==
  LET r == req[c]
  IN  /\ Serving(c)
      /\ writeHit(r, out_port[c])
      /\ in_port' = [in_port EXCEPT
           ![c][r.index].data[r.word] = storeData(r, out_port[c])]
      /\ Advance
      /\ UNCHANGED <<bus_traffic_last, prosFin_en, coreVars, out_port, memory>>

\* The program has executed li t1,100: the core is not clocked again.  A program
\* that ends is taken to have no access under way: no-ops follow its li t1,100
\* (load_1core.S:187).  The code would go on and serve one, as in the other
\* actions, and toggle a core it grants a line to.
Finish(c) ==
  /\ Serving(c)
  /\ c \in Finishers /\ req[c] = Idle
  /\ prosFin_en' = prosFin_en \cup {c}
  /\ Advance
  /\ UNCHANGED <<bus_traffic_last, coreVars, cacheVars>>

\* Nothing to serve: no request, a load hit, a miss while the bus is taken,
\* or a core that has finished.
Pass(c) ==
  /\ step = "serve" /\ c = loop_i
  /\ \/ req[c] = Idle
     \/ readHit(req[c], out_port[c])
     \/ miss(req[c], out_port[c]) /\ bus_traffic_last # NoCore
  /\ Advance
  /\ UNCHANGED <<bus_traffic_last, prosFin_en, coreVars, cacheVars>>

\* When every program has ended, the simulation has.
Stopped == AllFinished /\ UNCHANGED vars

Serve(c) == ReadMiss(c) \/ WriteMiss(c) \/ WriteHit(c) \/ Finish(c) \/ Pass(c)

Next == OwnerTurn \/ Turn \/ (\E c \in Cores : Serve(c)) \/ Stopped

Spec == Init /\ [][Next]_vars

-----------------------------------------------------------------------------
(***************************************************************************)
(* Properties.                                                             *)
(***************************************************************************)

\* Every variable stays in its domain; in particular the loop never leaves
\* the cores it has, whichever direction it runs in.
TypeOK ==
  /\ main_time \in 0 .. CORE_NUM_MAX - 1
  /\ loop_m \in 0 .. NumP - 1
  /\ step \in {"eval", "serve"}
  /\ bus_traffic_last \in Cores \cup {NoCore}
  /\ run_core \in Cores \cup {NoCore}
  /\ prosFin_en \subseteq Cores
  /\ clk \in [Cores -> {0, 1}]
  /\ req \in [Cores -> Request]
  /\ stall_last \in [Cores -> BOOLEAN]
  /\ in_port \in [Cores -> [Indexes -> Line]]
  /\ out_port \in [Cores -> [Indexes -> Line]]
  /\ memory \in [LineAddr -> Data]
  /\ reg \in [Cores -> Word]
  /\ arch \in [LineAddr -> Data]

Holds(p, c, a, s) == p[c][a[2]].tag = a[1] /\ p[c][a[2]].valid \in s

\* Single writer, multiple readers, on the arrays the caches really hold: a
\* line modified in one cache is valid in no other, although the bus decides
\* on the lagging _o ports whom to downgrade and whom to invalidate.
SWMR ==
  \A a \in LineAddr, c, d \in Cores :
    c # d /\ Holds(in_port, c, a, {Modified})
      => ~Holds(in_port, d, a, {Shared, Modified})

\* Why snooping the _o ports is enough for SWMR: a core that has not just been
\* granted a line shows the tags it holds, and shows as modified every line
\* it holds modified (it may show more rights than it still has).
PortsAgree ==
  \A c \in Cores \ {bus_traffic_last}, i \in Indexes :
    /\ in_port[c][i].tag = out_port[c][i].tag
    /\ in_port[c][i].valid = Modified => out_port[c][i].valid = Modified

\* What the bus grants is still there at the owner's extra toggle: whatever
\* the other cores do in the rest of the iteration, the access that missed
\* now hits.
GrantStands ==
  \A c \in Cores : bus_traffic_last = c => hit(req[c], in_port[c])

\* The loop position at which core c runs in an iteration over all cores.
Position(c) == IF Reversed THEN NumP - 1 - c ELSE c

\* Why a grant stands: the owner's turn in the iteration is over, so that its
\* next evaluation is the extra toggle, and never one that the other cores'
\* turns precede; and an iteration over the owner alone is at its only turn.
OwnerIsPast ==
  /\ run_core # NoCore => loop_m = NumP - 1
  /\ bus_traffic_last # NoCore =>
       \/ loop_m = 0 /\ step = "eval"
       \/ run_core = NoCore /\ Position(bus_traffic_last) < loop_m

\* The extra toggles never put the cores out of phase: between iterations the
\* clock of every core that still runs is main_time's parity.
ClocksAgree ==
  loop_m = 0 /\ step = "eval" /\ run_core = NoCore
    => \A c \in Cores \ prosFin_en : clk[c] = main_time % 2

\* Core c is executing a store to byte b of word w of line a.
Storing(c, a, w, b) ==
  /\ req[c].op = "store"
  /\ a = <<req[c].tag, req[c].index>> /\ w = req[c].word /\ b \in req[c].bytes

\* Where line a lives: in the caches that hold it modified, else in memory.
Residing(a) ==
  LET owners == {c \in Cores : Holds(in_port, c, a, {Modified})}
  IN  IF owners = {} THEN {memory[a]} ELSE {in_port[c][a[2]].data : c \in owners}

\* No store that left a core's pipeline is lost: wherever a line lives, a byte
\* that nobody is storing to holds the last value stored.
NoLostStore ==
  \A a \in LineAddr, w \in Words, b \in Bytes :
    (\E c \in Cores : Storing(c, a, w, b))
      \/ \A data \in Residing(a) : data[w][b] = arch[a][w][b]

\* An access that waits keeps its address: a load does not overwrite its own
\* base register before it leaves the execute stage.
AddressStands == [][\A c \in Cores : stall(c) => req'[c] = req[c]]_vars

\* The caches, the bus and the backing memory are one atomic memory: every
\* load returns what the last store to its word stored.
AtomicMem == INSTANCE AtomicMemory WITH mem <- arch
RefinesAtomicMemory == AtomicMem!Spec

\* The simulator's loop goes on until every program has ended.
FairSpec == Spec /\ WF_vars(Next)

Waiting(c) == IsMem(req[c]) /\ stall_last[c]

\* The first and the last core of the loop never wait for the bus forever:
\* sim_main.cpp:331-344 runs the loop backwards now and then, so that each of
\* the two comes first in turn.
OuterAccessEnds == \A c \in {0, NumP - 1} : Waiting(c) ~> ~Waiting(c)

\* Nor does any core of which at most one other still runs.  A core that has
\* finished keeps its place in the loop but asks for nothing.
PairAccessEnds ==
  \A c \in Cores :
    Waiting(c) /\ Cardinality(Cores \ prosFin_en) <= 2 ~> ~Waiting(c)

\* No core waits for the bus forever, whatever its place in the loop: the
\* simulator is said to support up to 8 cores (README.md:110).
EveryAccessEnds == \A c \in Cores : Waiting(c) ~> ~Waiting(c)
=============================================================================
