# A TLA+ model of ORV32s

ORV32s is a two-stage RV32IMC core in SystemVerilog (`rtl/`), simulated with
Verilator by C++ programs (`sim_*/`). The largest of these,
`sim_core_c_msicache_nospike/sim_multicore_matmul/sim_main.cpp`, clocks up to
eight cores and is, at the same time, their snooping bus, their MSI coherence
controller and their memory. These modules model that simulator with the data
caches it drives, the single-core simulators with the system calls they answer,
and the core: its instruction fetch unit, its execute stage (ALU, branches,
load/store unit, multiplier and divider), and its traps and control registers.
TLC checks them on small instances; TLAPS proves for all instances coherence,
the atomic memory of one core and of two, the host's answers, in-order fetch, atomic traps, and
what the execute stage computes: sums, shifts, products, quotients.

## 1. Inventory

| Component | Source | State it keeps | Operations | Hard part | Modules |
|---|---|---|---|---|---|
| Multicore loop and MSI bus | `sim_multicore_matmul/sim_main.cpp` | `main_time`, loop position, `bus_traffic_last`, `run_core`, `prosFin_en`, `memory`, the caches' `_i` ports | toggle and `eval()` a core; extra toggle of the bus owner; BusRd, BusRdX, write hit; finish | two views of each cache, one grant per iteration, an extra toggle nobody serves, an order that reverses | `MsiBus`, `AtomicMemory` |
| Data cache | `rtl/memory/data_cache.sv`, `testbench.sv` | the line, tag and valid arrays | hit, miss, load data, store data | arrays driven from outside; signals settled one eval earlier | `MsiBus` |
| Load/store in the pipeline | `controller.sv`, `load_store_unit.sv`, `orv32s_top.sv`, `regfile.sv` | the execute stage's instruction, `stall_last` | stall, retire, register write; byte lanes | a load that waits writes its register more than once; three tables that have to agree | `MsiBus`, `LoadStore` |
| Single-core simulators | `sim_coremark`, `sim_dhrystone`, `sim_embench` | as the multicore loop | the same loop with `numP = 1`; the host's answer to a system call | the answer is written into the cache behind the bus's back, while the store that asks is in the pipeline | `Tohost` |
| Instruction fetch | `im_access.sv`, `inst_buffer.sv`, `inst_rom.sv`, `if_stage.sv` | `pc`, buffer, pointers, credits, line address | refill, issue, stall, redirect | instructions across lines; redirect during a stall; credits | `InstFetch`, `ProgramOrder` |
| CSRs and traps | `cs_registers.sv`, `libcsr.sv`, `controller.sv`, `decode.sv`, `orv32s_top.sv` | mstatus, mtvec, mscratch, mepc, mcause, mtval, counters; the latched verdict on an instruction, the latched operation | CSR write, set, clear; trap entry; mret | registers written at every edge, stalled or not; a verdict that outlives its instruction; several writers in one edge | `CsrWords`, `Csr`, `Privileged` |
| Multiplier, divider | `multiplier_fast.sv`, `divider_nonrestoring.sv`, `ex_stage.sv`, `controller.sv` | products, round counters, the bits of `product_next` no round assigns | one round per cycle, stall, retire | shortcuts and corrections for each sign, registers left by the instruction before | `MulDiv`, `PowersOfTwo`, `Execute` |
| ALU, branch compare | `alu.sv`, `branch_compare.sv`, `controller.sv` | none | one cycle each | signs of differences that overflow, one shifter for three shifts | `Alu`, `Execute` |
| Decode tables | `decode.sv`, `libdecode.sv` | none but the verdict above | combinational | formats | not modelled |
| MESI controller over TileLink | `sim_core_c_mesicache_nospike/sim_multicore_matmul/` | line states with transients, channel ports | acquire, probe, grant, write-back | the classic protocol races | not modelled |
| Coherence simulator class | `sim_embench/coherence_ctrl.cc`, `cache.cc` | | | called by nothing | not modelled |
| Spike lockstep, unit-test driver | `sim_core_asm_nocache_withspike`, `unit_test_sim` | | compare logs, print pass/fail | | not modelled |

How they interact. The loop writes `clk` of one core and calls `eval()`; the
core's load or store shows as hit or miss on its ports; the loop serves it by
writing the cache arrays' `_i` ports and its own `memory`; the core sees the
new arrays at its next `eval()`. Fetch and execute meet in the registers of
`orv32s_top.sv`: the execute stage's instruction stalls or redirects the fetch.
The multiplier and the divider borrow the ALU's adder for their rounds and stall
the execute stage until their result is written. A trap, a taken branch or a
return redirects the fetch and leaves the execute stage empty until the first
line arrives; the level in mstatus decides what the decoder calls illegal. A
system call of a benchmark is a store to `tohost` and a loop that polls
`fromhost`; the simulator answers when it serves the store.

What makes each correct. The caches: one writer or many readers of each line,
no store lost, every load the last store's value, every access ends. The fetch:
the program's instructions, in order, whole, each once, each with its own
address, and always another one. The multiplier and divider: the RISC-V result of
each instruction, whatever came before it, after a bounded stall. The traps: an
instruction traps or has its own effect, once, and the level rises only by a trap
and falls only where the program says so; the core keeps to this with exceptions,
which section 2 names (`Privileged`). A system call: the poll ends.

Left out as a whole: `mine_spike`, `embench-iot`, `riscv-coremark`, the
`benchmarks`, `debug` and `env` directories (vendored or data).

## 2. Modules

**`MsiBus`** is `sim_main.cpp` with the caches. One iteration of its loop body
for one core is two steps:

| Code | Action |
|---|---|
| `sim_main.cpp:289-324`, the owner of the bus toggled once more, `run_core`, `start_cyc` | `OwnerTurn` |
| `:348-356`, toggle and `eval()` of core `loop_i` | `Turn` |
| `:438-575` BusRd | `ReadMiss` |
| `:576-720` BusRdX | `WriteMiss` |
| `:722-735` a store that hits | `WriteHit` |
| `:390-412` `li t1,100` executed | `Finish` |
| the loop body when the guard at `:428` is false | `Pass` |

`Eval` is what an `eval()` does in the RTL: at a rising edge the instruction in
the execute stage leaves (`Retire`) or stays (`Hold`), and the `_o` ports become
the `_i` ports. The schedule is computed by `loop_i`, `Reversed` and `Advance`,
as the code computes it: there is one thread, and the only choices are those of
the programs (which instruction comes next, when a program ends). `Finish` assumes
that a program has no access under way when it ends: its `li t1,100` is followed by
`li t1,0` and no-ops (`load_1core.S:187-191`, `load_8core.S:436`). The code goes on
to `:428`, then and in every later iteration, and would serve a pending access and
toggle a core it grants a line to; without one it does nothing there.

Two facts about the simulated RTL shape the model. (a) `testbench.sv:96-105`
drives the cache arrays from the `_i` ports by continuous assignments; so the
arrays are what `sim_main` last wrote (`in_port`), the cache's own clocked writes
(`data_cache.sv:75-90`) do not last, and what the bus snoops are the `_o` ports
of the last eval (`out_port`). (b) In an `eval()` the flip-flops sample the
signals the previous `eval()` settled; so a stall at an edge is a function of
`out_port` before that edge. Read the other way, a flip-flop would sample the
ports `sim_main` has just written, and every store whose miss is served at a
falling edge would be lost: no benchmark would run. The variable initialisers of
`controller.sv:394-400` (`logic load_stall = ...`) are taken as the continuous
assignments they are written as: read as initialisers, no load would ever end.

Data are abstract: a line is a tag, a valid state and a function from words to
bytes over small sets. `arch` is a history variable: memory as the stores that
left the pipeline define it. `main_time` is kept modulo `CORE_NUM_MAX`, the only
thing the loop asks of it. A chained load (`lw a0, 0(a0)`) that overwrites its
base goes on with an arbitrary address.

Not in `MsiBus`: the traffic counters and traces, the end at `max_time`, sign
extension, misaligned accesses, the 8 MB limit of `memory`.

**`Tohost`** is a single-core simulator (`sim_coremark`, and the same lines of
`sim_embench` and `sim_dhrystone`): `MsiBus` with one core and no `Finish`, and
`HostHit` in place of `WriteHit` when the store that hits is to `tohost`
(`sim_coremark/sim_main.cpp:723-778`). The answer sets the tag, the state and a
word of `fromhost`'s cache line, and nothing else: no write-back, no memory.
`answer_clk` is the clock level at which the simulator answers, 1 but for
`sim_dhrystone`. `FromhostAssumption` is what a benchmark must keep to: no other
line of `fromhost`'s index (addresses that differ from 0x1040 by a multiple of
32 KB). The code writes over a modified line there; whether a program has one
depends on its linker. Printing is left out.

**`AtomicMemory`** is what the cores are promised: one memory, loads and stores
in one step. `RefinesAtomicMemory` maps `mem` to `arch`.

**`InstFetch`** is one core's fetch unit; every action is a rising edge.
`BufferStep` and `BufferFlush` are the two branches of `inst_buffer.sv:122-148`
with the line memory's counter; `Issue`, `Starve`, `Hold`, `Redirect` and
`RedirectStalled` are the combinations of an instruction ready, `stall` and
`flush`. A parcel (16 bits) is represented by its address, so that the model
knows which parcel each buffer entry holds. The execute stage is the
environment: an instruction may take several cycles, may redirect, or both (an
illegal instruction with a load's opcode stalls and traps:
`controller.sv:402-424`, `:499-501`). The index `rff_rd_ptr+1` of
`inst_buffer.sv:101` is taken modulo 16, which the benchmarks built for rv32imc
rely on. A reset during execution is not modelled.

**`ProgramOrder`** is what the fetch unit promises: after an instruction comes
the next one or the one it redirects to.

**`MulDiv`** is the M extension in the execute stage, at width `W` for the
code's 32; every action is a rising edge. `Stall` is an edge with `muldiv_stall`,
`Retire` one without, after which the execute stage holds any instruction.
`MulRegisters` and `DivRegisters` are the two `always_ff` blocks, and each signal
is an operator with its name. `mul_held` is what `product_refresh`
(`multiplier_fast.sv:134-149`) keeps: it assigns part of `product_next` in each
round, so the rest is a latch. In rounds 1 to 3 the latch holds what `product`
holds; in round 0 its upper word is that of the multiplication before. The divider
is `divider_nonrestoring.sv`, which all Makefiles build; `divider.sv` and
`multiplier.sv` are built by none. `Riscv` is the reference: what the ISA says of
each instruction, by `*`, `\div` and `%` on signed numbers. **`PowersOfTwo`**
has the table `Pow2` of the powers that bound a register's values: a function,
so that the proofs can reason about it.

**`Execute`** is the whole execute stage: `MulDiv` with, between its
instructions, those of one cycle (`MulDiv`'s `Others`). Their state is only the
operands; which of the ALU's operations or of the tables of the load/store unit
is selected is quantified in the properties, since the hardware computes each
for the same operands. **`Alu`**, whose one constant is `Width` (`Execute`
assumes that it is `W`), is the adder with its extra low bit, the
comparison, the one right shifter behind three shifts (`alu.sv`), the branch
comparator and the decision made of it. **`LoadStore`** is where the bytes of a
store go in a word, which are enabled, and what a load makes of a word. At a
misaligned offset the unit assigns nothing ("TODO misaligned"), so that its
outputs are latches: `Offsets` leaves those out.

**`CsrWords`, `Csr`** are the control registers and the traps; every action is a
rising edge:

| Code | Action |
|---|---|
| the stage registers take an instruction after zeros (`orv32s_top.sv:461-470`) | `Issue` |
| a load, a store, a multiplication or a division goes on | `Stall` |
| the instruction leaves and flushes the fetch (trap, return, jump, taken branch) | `Redirect` |
| the instruction leaves without a flush | `Retire` |

`RegistersStep` is the clocked block of `cs_registers.sv`, which runs at every
edge of all four but `Issue` (zeros write nothing). A word is the set of its
ones. Two signals are latches: `illegal_inst`, which the decoder assigns for
32-bit instructions only, and `csr_op`; `Enter` gives them once the next
instruction is in the stage. The privileged level is the bit mpp, as the code has
it: the decoder is told mpp, which `mret` clears. `Strays` names the instructions
that are no CSR instructions but have the address of a CSR in their bits 31:20:
they write that register, by the operation their bits 13:12 select or the last one
selected, since `csr_we_int` tests no opcode (`cs_registers.sv:279-280`).

`Disciplined` says which programs the model is of, because the code does
something else with others, which the hazards list: an illegal load or division
traps once per stalled cycle; an illegal branch goes where a latch sends it; an
illegal return traps and returns at once. And whatever may write mtvec or mepc,
strays included, writes an address of the program, since the model's addresses
are the program's. Strays, and illegal accesses to mstatus, are in the model.
`HandlerAssumption`: a handler begins with a 32-bit instruction, or the verdict that
trapped would still stand and trap again. The benchmarks' own handler does not keep
to it: `crt.S:140` begins with `addi sp, sp, -272`, a compressed instruction when it
is built for rv32imc. A system call, which leaves no verdict, does not need the
assumption.

**`Privileged`** is what a program is promised: each instruction traps, or has
its effect, in one step, and counts once. `RefinesPrivileged` maps each variable to
itself. Three things the promise leaves open, so that what holds of the core can be
said exactly; it does not call them right:

- An illegal access to a register may write it, but for what the trap writes. A
  user's write of mstatus traps, and still sets or clears mprv: the write at
  `cs_registers.sv:190-196` has no gate, and the trap (`:237-246`) overrides only
  mie, mpie and mpp. Nothing in the core looks at mprv but a read of mstatus.
- A stray may write the register it names, by any operation, and as often as it
  stalls; nothing else.
- After `mret` the level is what mpp named or the user level. The core always
  chooses the latter; that it should be the former is `RemainsInMachineMode`, which
  fails (6 below).

**`MCMsiBus`, `MCTohost`, `MCInstFetch`, `MCMulDiv`, `MCCsr`** give programs and
operands to TLC. **`MsiBusProofs`, `OneCoreProofs`, `TwoCoreProofs`, `TohostProofs`,
`InstFetchProofs`, `CsrProofs`, `MulDivProofs`, `ExecuteProofs`** hold the proofs.

## 3. Runs

| Run | Instance | Checks | Result |
|---|---|---|---|
| `msi_three_cores` | 3 cores, 2 lines of one set, one that all load and store, one that the outer two store; every program may end; fair | types, `SWMR`, `PortsAgree`, `GrantStands`, `OwnerIsPast`, `ClocksAgree`, `OuterAccessEnds`, `PairAccessEnds` | holds, 0.4 million states |
| `single_core` | 1 core, 2 lines of 2 words at `tohost`'s index and `fromhost`'s line, 2 values, chained loads, both answer levels | `NoLostStore`, `AddressStands`, `PollSeesAnswer` | holds, 0.9 million states |
| `msi_private_lines` | 2 cores, one set, 2 lines each of their own, every load chained | `NoLostStore`, `RefinesAtomicMemory`, `AddressStands` | holds, 1.7 million states |
| `msi_sub_word_store` | 1 core, 2-byte words, stores of one byte | `NoLostStore` | violated |
| `msi_shared_line` | 2 cores, only one stores | `NoLostStore` | violated |
| `msi_chained_load` | 2 cores, chained loads | `AddressStands` | violated |
| `msi_starvation` | 3 cores that load and store both lines, fair | `EveryAccessEnds` | violated |
| `inst_fetch` | 10 lines of code around a zero line, both instruction sizes in every alignment, redirects to each place of a line | order, whole instructions, addresses, credits, progress, refinement | holds |
| `mul_div` | 4-bit words, 10 of the 16 as operands of every instruction, every sequence; 1-bit bytes | `TypeOK`, `PartialProduct`, `MulResult`, `DivResult`, `PartialRemainder`, `SumRight`, `ShiftRight`, `BranchRight`, `StoreLoadRight` | holds, 0.7 million states |
| `csr` | a program of five addresses, each with every kind of instruction that may stand there, and every order of them | `TypeOK`, `OwnVerdict`, `OnlyTrapsRaise`, `RefinesPrivileged` | holds, 0.3 million states |
| `csr_return` | the same program without strays | `RemainsInMachineMode` | violated |
| `mul_div_remainder` | 4-bit words, 3 operands | `RemainderSign` | violated |

Bounds. Three cores are the least for which one core can be between two others
in the loop, and a grant can be followed by turns on both sides; when one has ended,
what is left are two cores, in any two places. Two lines of
one set give hits, sharing, conflict and write-back; a third adds only another
conflict. `CORE_NUM_MAX` is 4 instead of 8: it fixes how often the loop runs
backwards (two iterations of it), and both directions and both clock phases
occur with 4. The data runs need two values to tell a lost store; the coherence
runs need none. In `inst_fetch`, 28 parcels before the zero line make the
16-entry buffer wrap, and each redirect lands at another place of a line.
In `mul_div` four bits are the fewest that give the multiplier's halves two bits,
so that partial products overlap and carry; the operands are both values the
shortcuts test for, small and large ones of each sign. The code's widths enter
only as `W` and `Width`. A byte of one bit has a sign and a value; the
four words memory holds tell each lane from its neighbours. In `csr` the five
addresses are the reset address, the code that installs a handler, the user's
code, the handler and its return; `mepc` may be set to another address, so that
the handler returns elsewhere; the counters are modulo 4 (`CounterSize`), and
`minstret` is compared with the promise's at every step. The strays are a load,
which also stalls, a compressed instruction and an illegal one. In `single_core` a
second line shares `tohost`'s index, so that it is evicted between two calls.
Nothing else bounds the runs: there are no counters in the state but these.

Fairness. `MsiBus!FairSpec` asks that the loop goes on (`WF` of the whole next
state): one thread in a `while (1)`. It assumes nothing of a particular core,
which is the point of `OuterAccessEnds` and `PairAccessEnds`. `InstFetch!FairSpec` asks that the
clock goes on; `FetchGoesOn` begins with an empty execute stage, which cannot
stall. `MulDiv` needs none: each stalled cycle is a round, and `TypeOK` bounds the
rounds. `Csr` and `Tohost` state no liveness: which instruction comes next, the
polls of `fromhost` included, is the program's choice.

Deadlock is checked in all runs; the simulation stops only when every program
has ended (`Stopped`), and a program may go on for ever.

### What the violated runs show

1. *A byte store that misses pollutes its word.* On a write miss,
   `sim_main.cpp:683-700` writes `store_data_o` over the addressed word of the
   filled line. `store_data_o` has been computed before the fill: the bytes the
   store does not enable come from the array at that index, whatever line it
   held (`testbench.sv:110-115`). The same code, on a hit, is commented
   "prevent old data pollution" (`:722`).
2. *A reader destroys the writer's store.* The reader's miss is served after
   the writer's hit and before the writer's next eval: the write-back at `:465-473` copies the `_o` ports, on which the
   store is not visible yet. Coherence of *states* (`SWMR`) holds; coherence of
   data does not.
3. *A load overwrites its own base register.* `reg_write_back_en` is `stall_last`
   for loads (`controller.sv:223`), true in every stalled cycle but the first,
   and not only "in the last cycle" (`:217`). With one core a miss is served in
   the first cycle and nothing shows. A load that has no line in a later stalled
   cycle goes on with another address: of two cores, because the other stores to
   the line before the load leaves; of three, also because the bus may be refused
   until then.
4. *The middle core starves.* With three cores, `EveryAccessEnds` fails: running
   the loop backwards lets the first and the last core go first in turn, and
   never the one between them. This is the only starvation: `OuterAccessEnds` and
   `PairAccessEnds` hold of the outer two, and of all that are left once one of the
   three has ended.
5. *REM returns a positive remainder for a negative dividend.* The last partial
   remainder may be negative and then lacks one divisor. `DIV`, `DIVU`, `REMU` and
   `REM` of a positive dividend correct it; `rem_result_neg`
   (`divider_nonrestoring.sv:151`, `:181`) negates it as it is: -7 rem 3 is 2. The
   unit tests' negative dividends (-20 by 6 and -6) need no correction.

6. *A handler does not remain at the machine level.* `crt.S:180-182` sets mpp
   before its `mret`, "Remain in M-mode after eret". `mret` clears mpp
   (`cs_registers.sv:253`), and mpp is the level the decoder is told (`:74`):
   `priv_lvl_next`, which takes the level mpp named (`:249`), is not clocked
   (`:310` is commented out). The program goes on at the user level, whatever the
   handler asked for, and its next access to mstatus traps.

Another failure needs no run of its own: three cores that share nothing, only
the bus. A write miss served at a rising edge at which the core is already
stalled gets the extra toggle at a falling edge, and the next rising edge lets
the store retire with nobody having written it after the fill; `NoLostStore` is
violated with a cache set for each core.

What holds says where these end. One core that stores words only is an atomic
memory, and so are two as long as they share no line; both are proved, for chained
loads too.

`DivResult` leaves out, besides 5, the operands that the signed shortcuts mistake:
they test 31 bits (`divider_nonrestoring.sv:68-69`), so that the most negative
number counts as zero. As a divisor it makes `DIV` return -1; as a dividend it
makes `DIV` return itself (right only for 1, -1 and, by the other shortcut, 0);
and `DIVU` of 0 by it, whose result is selected by the signed test
(`:168`, `:171`), returns all ones. `Covered` names these; among the run's
operands TLC finds no others for which a quotient or remainder is wrong.

## 4. Proofs

**`MsiBusProofs`**, from the assumptions on the constants alone (any number of
cores up to `CORE_NUM_MAX`, any address space, values and programs):
`TypeCorrect`, `Coherent` (`SWMR`), `SnoopIsConservative` (`PortsAgree`),
`GrantsStand`, `OwnerStaysPast`. They are conjuncts of one inductive invariant,
`IInv`. `SWMR` alone is not inductive: BusRd and BusRdX decide on `out_port`,
while `SWMR` speaks of `in_port`, so the step needs `PortsAgree`: what a core
holds Modified it also shows Modified, under the tag it shows. That holds of
every core but the one just granted a line, and the exception needs
`OwnerIsPast`: in the rest of the iteration the owner has no turn, so its next
evaluation is the extra toggle, before which it is not served again. `GrantStands`
uses the bus's single grant per iteration. Each action has its lemma, one step
per conjunct.

**`InstFetchProofs`**, for any code, any mixture of instruction sizes, any
stalls and redirects: `FetchTypeCorrect` (the credits stay within the buffer,
the assertion at `inst_buffer.sv:76`), `BufferStaysInOrder`,
`ExecutesWholeInstructions` and `FetchImplementsProgramOrder`, the refinement. The
invariant says what the credits mean: between the pointers lie exactly
`16 - rff_free_cnt` entries, and they are the program's parcels from `pc` on up
to the next line. The one hard step is a refill (`StepInOrder`): the entries
written are disjoint from the entries held because a line is asked for only with
four free entries, and because the write pointer is always at a multiple of four.
The first refill after a redirect is a case of its own, with `RedirectedTo`.

`StaysRedirected` is `RedirectedTo` itself.

**`MsiBusProofs`, the clocks**: `ClocksStayInPhase` (`ClocksAgree`) for any
number of cores and any even `CORE_NUM_MAX`. `ClocksAgree` speaks of the moment
between two iterations; `ClockInv` says of each core, in the middle of one,
whether its turn has been. An iteration after a grant toggles its owner twice
and the others not at all, and counts as two: all stay in phase. An odd
`CORE_NUM_MAX` would break the parity where `main_time` wraps (in the model;
the code's does not wrap in practice, and all its values are even).

**`OneCoreProofs`**, for one core and any address space, line size and program:
`OneCoreKeepsAddresses`; and, if its stores write whole words (`WholeWords`, without
which 1 above is a counterexample), `OneCoreLosesNoStore` and `OneCoreIsAtomic`, the
refinement of `AtomicMemory`. The invariant `OneInv` says
where a request stands in its clock cycle. `Served`: a miss is served in the half
cycle in which the request enters, so that the extra toggle is a falling edge and
the next rising edge stalls: two facts the code relies on and says nowhere, and
that fail with several cores. `Written`: the store is in the cache before the
edge at which it leaves. `Clean`: a Shared line is memory's. `Kept`: where a
line lives, its bytes are the last stored, but those being stored.

**`TwoCoreProofs`**, for two cores that share no line (`TwoCores`; `CORE_NUM_MAX` is
even, as in the code), and otherwise any address space and any programs, chained
loads included: `TwoCoresKeepAddresses`; and, if stores write whole words,
`TwoCoresLoseNoStore` and `TwoCoresAreAtomic`. Each hypothesis has its
counterexample above: 1 needs a store of one byte, 2 and 3 a shared line, the lost
store of three cores a third one. So the cores meet at nothing but the bus, and the
first invariant, `PairInv`, is about its schedule. `Prompt`: a core that misses between two of its turns
was refused at a rising edge; the other then neither misses nor owns the bus at the
falling edge that comes next, at which this one is served, before it is ever
stalled twice (`Ready`). It rests on `OwnerIsPast` and `ClockInv`: if the other owned
the bus at that falling edge, its turn in the iteration would be over and its clock
low, and that `Prompt` excludes; a third core might be the owner. `Granting`:
neither of the two toggles after a grant lets the access leave.
Given the schedule, the data are those of one core: `Holding` says per core
what `OneInv` says of the only one, of the lines it uses, and `ServeMemory` that no
core writes back another's line. A store filled at a falling edge is written only
after the second of the owner's toggles, which `Written` allows for.

**`TohostProofs`**: `PollLoopSeesAnswer` (`PollSeesAnswer`), for every program
that keeps to `FromhostAssumption` and either clock level. `AnswerGiven` says at
which half cycles a stalled store to `tohost` has been answered, which needs
`Served` again: if its miss were served later, the store could leave unanswered
and the poll would never end. `AnswerStands` says that the answer stays, since the core cannot
miss on a line that shows it. `HostLosesNoStore` and `HostKeepsAddresses` are the
two claims of one core with the answers (the second for any program at all). They
rest on `OneInv` without `Clean`: an answer is a line in the cache that memory
does not know of, so `Clean` fails; what is lost with it is the refinement, and
only for loads of `fromhost`. `FlagKept` says why no store is: of the
answer's line memory holds the cleared flag, which is also all that programs
store there.

**`CsrProofs`**, for every program that is `Disciplined`: `CsrTypeCorrect`,
`VerdictIsOwn`, `LevelRaisedByTraps` and `CsrImplementsPrivileged`, the
refinement. `Disciplined` and `HandlerAssumption` are all they assume: strays and
illegal accesses are covered, as far as `Privileged` and `OnlyTrapsRaise` speak of them. `OwnVerdict` is not inductive: an illegal verdict outlives its
instruction in empty cycles and compressed instructions. `VerdictKept` says that
the next instruction is then a handler's first, which is a 32-bit one and gets its own
verdict. `OwnOp` does the same for the other latch: a CSR instruction's operation
is its own, while a stray's may be the last one's, which is why `Privileged` lets a
stray do any. `WrittenEdge` says what an edge writes before a trap overrides it, and
`PromisedOperation` that it is what one of the operations the instruction may do
writes (setting or clearing no bit is reading: `NoBits`). Then every edge at which an
instruction leaves is its own step of `Privileged` (`LeaveStep`), and a stalled edge
is none, or a stray's (`StallStep`).

**`MulDivProofs`**, for every even `W` of at least 4 (`StallsEnd` for every
`W`), all operands and every sequence of instructions. `StallsEnd`: a
multiplication stalls for at most 3 cycles and a division for at most `W + 1`,
each beginning in round 0 (`controller.sv:400`). `RoundsAddUp`
(`PartialProduct`) and `RoundsDivide` (`PartialRemainder`) are what the rounds
keep true: the products of halves added so far, in the bits that a round of this
multiplication has assigned; and the dividend's bits that are done, as digits
times the divisor plus a remainder in range. `MulInv` and `DivInv` add the
registers' widths and the bounds of the rounds; that what the multiplication
before left above those bits does no harm is part of each round's lemma. From the last round follow `ProductsRight` (`MulResult`) and
`QuotientsRight` (`DivResult`), the latter with each shortcut and each correction
of sign and remainder as a case, and all operands but those `Covered` names.
The widths need `2^(m + n) = 2^m * 2^n`. The prover cannot make an induction; the
lemma `Induction` does it once, for sets of numbers, from the library's theorem
that `<` is well founded, and `Pow2Defined` shows that the recursion of `Pow2` has
a solution.

**`ExecuteProofs`**: `SumCorrect`, `BranchCorrect` and `ShiftsRight`, for every
`Width`; `StoreLoadCorrect`, for every size of byte. A shift to the left is half of a
double word shifted to the right by the rest of the width; the case of a shift by
zero, which the code treats apart, is one of its own.

Only model-checked. Liveness: `OuterAccessEnds`, `PairAccessEnds` and `FetchGoesOn`,
since the prover has no fairness.

## 5. Not modelled

- *The MESI controller over TileLink.* It does not compile (syntax errors in
  `cache_controller.cpp`), nobody calls its `run`, and `memory_controller::run`
  is empty: the other half of the protocol would be the model's invention.
- *Decode tables, immediates, register numbers, bitwise operations*: formats and
  one-line expressions, with nothing to relate them to but a copy of themselves.
- *Misaligned accesses* and the programs `Disciplined` excludes, for the reasons
  above; each is a hazard in `PROJECT.json`.
- *The register file*, but for what a load writes.
- *The trace-driven coherence class*, which nothing calls; *the lockstep with
  Spike and the unit-test driver*, which keep no state of their own.
- *The traffic counters, traces and printing* of the simulators.
- *`mine_spike`, `embench-iot`, `riscv-coremark`*, most of the repository's lines:
  a vendored simulator and benchmarks, which only run on or beside the system.
