----------------------------- MODULE InstFetch -----------------------------
(***************************************************************************)
(* The fetch unit of the two-stage core: the program counter               *)
(* (rtl/core/im_access.sv), the instruction buffer that turns 64-bit lines *)
(* into 16-bit and 32-bit instructions (rtl/core/inst_buffer.sv), the      *)
(* instruction memory's address counter (rtl/memory/inst_rom.sv) and the   *)
(* register between the two stages (rtl/core/orv32s_top.sv).               *)
(*                                                                         *)
(* Addresses count parcels of two bytes: address bits [2:1] are a % 4, and *)
(* a line is a \div 4.  A parcel's content is abstracted to its address,   *)
(* so that the model tells which parcel of memory each buffer entry holds. *)
(*                                                                         *)
(* Every action is one rising edge of the clock.  The execute stage is the *)
(* environment: the instruction it holds may stall the pipeline for any    *)
(* number of cycles, and may redirect the fetch ("flush") all that time.   *)
(***************************************************************************)
EXTENDS Integers

CONSTANTS
  Rvc,        \* the parcels that begin a 16-bit instruction
  CodeLines,  \* the lines of the instruction memory that are not zero
  Effects,    \* what an instruction may do in the execute stage
  Start       \* rst_addr_i

DEPTH == 16
ENTRIESPERLINE == 4
Slots == 0 .. DEPTH - 1

\* slow: it takes several cycles (a load, a store, a division).  jumps: it
\* redirects the fetch to target (a taken branch, a jump, a trap, mret).  Both:
\* an illegal instruction with the opcode of a slow one.
Effect == [slow : BOOLEAN, jumps : BOOLEAN, target : Nat]

\* The execute stage: an instruction, the parcels that make it up and its
\* effect, or nothing.
Bubble == [valid |-> FALSE, lo |-> 0, hi |-> 0,
           effect |-> [slow |-> FALSE, jumps |-> FALSE, target |-> 0]]
Stage == [valid : {TRUE}, lo : Nat, hi : Nat, effect : Effect] \cup {Bubble}

ASSUME ProgramAssumption ==
  /\ Rvc \subseteq Nat /\ CodeLines \subseteq Nat
  /\ Effects \subseteq Effect
ASSUME StartAssumption == Start \in Nat /\ Start % 4 = 0

VARIABLES
  pc,                   \* address of the instruction at the buffer's head
  pc_prev_stage2,       \* what a trap saves in mepc
  pc_f2e_stage2,        \* what a pc-relative instruction adds to
  instmem_addr,         \* the address the next line is read from
  dff_inst_buf,         \* the buffer's entries, one parcel each
  rff_rd_ptr, rff_wr_ptr,
  rff_free_cnt,         \* credits: entries the memory may still fill
  free_cnt_flush_flag,  \* no line has arrived since the last redirect
  inst_f2e_stage2       \* the instruction in the execute stage

bufVars == <<dff_inst_buf, rff_rd_ptr, rff_wr_ptr, rff_free_cnt,
             free_cnt_flush_flag, instmem_addr>>
pcVars == <<pc, pc_prev_stage2, pc_f2e_stage2, inst_f2e_stage2>>
vars == <<bufVars, pcVars>>

\* Reset holds the fetch as a redirect to the reset address would; the
\* simulators' reset addresses begin a line.
Init ==
  /\ pc = Start
  /\ pc_prev_stage2 = Start
  /\ pc_f2e_stage2 = Start
  /\ instmem_addr = Start
  /\ dff_inst_buf = [s \in Slots |-> 0]
  /\ rff_rd_ptr = 0
  /\ rff_wr_ptr = 0
  /\ rff_free_cnt = DEPTH
  /\ free_cnt_flush_flag = TRUE
  /\ inst_f2e_stage2 = Bubble

-----------------------------------------------------------------------------
(***************************************************************************)
(* The combinational signals.                                              *)
(***************************************************************************)
flush == inst_f2e_stage2.effect.jumps
inst_addr_flush == inst_f2e_stage2.effect.target

is_top_rvc == dff_inst_buf[rff_rd_ptr] \in Rvc
incr_rd_ptr == IF is_top_rvc THEN 1 ELSE 2

\* Mutant of inst_valid: one parcel is enough for any instruction.
inst_validShort == rff_free_cnt <= DEPTH - 1

\* The buffer holds a whole instruction.
inst_valid ==
  \/ rff_free_cnt <= DEPTH - 2
  \/ rff_free_cnt = DEPTH - 1 /\ is_top_rvc

\* Mutant of ld_line: a line is asked for when three entries are free.
ld_lineEarly == rff_free_cnt >= ENTRIESPERLINE - 1 /\ ~flush

\* Mutant of ld_line: a line is asked for only when the buffer is half empty.
ld_lineLate == rff_free_cnt = DEPTH /\ ~flush

\* The buffer has room for a line.
ld_line == rff_free_cnt >= ENTRIESPERLINE /\ ~flush

\* The first parcel of a's line.
LineStart(a) == a - (a % 4)

line_ready == instmem_addr \div 4 \in CodeLines
line_valid == ld_line /\ line_ready

\* Mutant of next_free_cnt: the part of a line before a redirect's target is
\* not given back.
next_free_cntNoWaste(taken) ==
  rff_free_cnt + taken - (IF ld_line /\ line_ready THEN ENTRIESPERLINE ELSE 0)

\* The credits after taken entries are read: the first line after a redirect
\* gives back its entries that precede the target.
next_free_cnt(taken) ==
  rff_free_cnt + taken + (IF free_cnt_flush_flag THEN pc % 4 ELSE 0)
    - (IF ld_line /\ line_ready THEN ENTRIESPERLINE ELSE 0)

-----------------------------------------------------------------------------
(***************************************************************************)
(* The buffer's clocked registers.                                         *)
(***************************************************************************)

\* An edge without flush at which the execute stage takes that many entries.
BufferStep(taken) ==
  /\ rff_rd_ptr' = (rff_rd_ptr + taken) % DEPTH
  /\ rff_free_cnt' = IF line_valid \/ taken > 0
                     THEN next_free_cnt(taken) ELSE rff_free_cnt
  /\ IF line_valid
     THEN /\ rff_wr_ptr' = (rff_wr_ptr + ENTRIESPERLINE) % DEPTH
          /\ dff_inst_buf' = [s \in Slots |->
               IF s \in rff_wr_ptr .. rff_wr_ptr + ENTRIESPERLINE - 1
               THEN LineStart(instmem_addr) + (s - rff_wr_ptr)
               ELSE dff_inst_buf[s]]
          /\ free_cnt_flush_flag' = FALSE
          /\ instmem_addr' = instmem_addr + 4
     ELSE UNCHANGED <<rff_wr_ptr, dff_inst_buf, free_cnt_flush_flag, instmem_addr>>

\* Mutant of BufferFlush: the read pointer does not skip to the target.
BufferFlushAligned ==
  /\ rff_rd_ptr' = 0
  /\ rff_wr_ptr' = 0
  /\ rff_free_cnt' = DEPTH
  /\ free_cnt_flush_flag' = TRUE
  /\ instmem_addr' = inst_addr_flush
  /\ UNCHANGED dff_inst_buf

\* An edge with flush: the buffer is empty, the read pointer at the target's
\* place in its line.
BufferFlush ==
  /\ rff_rd_ptr' = inst_addr_flush % 4
  /\ rff_wr_ptr' = 0
  /\ rff_free_cnt' = DEPTH
  /\ free_cnt_flush_flag' = TRUE
  /\ instmem_addr' = inst_addr_flush
  /\ UNCHANGED dff_inst_buf

-----------------------------------------------------------------------------
(***************************************************************************)
(* One rising edge.                                                        *)
(***************************************************************************)

\* No stall, no flush, and an instruction to issue.
Issue ==
  /\ ~flush /\ inst_valid
  /\ BufferStep(incr_rd_ptr)
  /\ pc' = pc + incr_rd_ptr
  /\ pc_prev_stage2' = pc
  /\ pc_f2e_stage2' = pc
  /\ \E e \in Effects : inst_f2e_stage2' =
       [valid |-> TRUE, lo |-> dff_inst_buf[rff_rd_ptr],
        hi |-> dff_inst_buf[(rff_rd_ptr + 1) % DEPTH], effect |-> e]

\* No stall, no flush, and no whole instruction in the buffer.
Starve ==
  /\ ~flush /\ ~inst_valid
  /\ BufferStep(0)
  /\ pc_f2e_stage2' = pc
  /\ inst_f2e_stage2' = Bubble
  /\ UNCHANGED <<pc, pc_prev_stage2>>

\* A stall without flush: the buffer still fills.
Hold ==
  /\ inst_f2e_stage2.effect.slow /\ ~flush
  /\ BufferStep(0)
  /\ UNCHANGED pcVars

\* The execute stage redirects the fetch, and its instruction leaves it.
Redirect ==
  /\ flush
  /\ BufferFlush
  /\ pc' = inst_addr_flush
  /\ pc_prev_stage2' = pc
  /\ pc_f2e_stage2' = pc
  /\ inst_f2e_stage2' = Bubble

\* A stalled instruction redirects the fetch: the buffer follows, pc does not.
RedirectStalled ==
  /\ flush /\ inst_f2e_stage2.effect.slow
  /\ BufferFlush
  /\ UNCHANGED pcVars

Next == Issue \/ Starve \/ Hold \/ Redirect \/ RedirectStalled

Spec == Init /\ [][Next]_vars

-----------------------------------------------------------------------------
(***************************************************************************)
(* Properties.                                                             *)
(***************************************************************************)

\* Every variable stays in its domain; in particular the credits stay within
\* the buffer's size, what the assertion chk_free_cnt of the buffer says, and a
\* line is never written across the buffer's end.
TypeOK ==
  /\ pc \in Nat /\ pc_prev_stage2 \in Nat /\ pc_f2e_stage2 \in Nat
  /\ instmem_addr \in Nat
  /\ dff_inst_buf \in [Slots -> Nat]
  /\ rff_rd_ptr \in Slots
  /\ rff_wr_ptr \in {s \in Slots : s % ENTRIESPERLINE = 0}
  /\ rff_free_cnt \in 0 .. DEPTH
  /\ free_cnt_flush_flag \in BOOLEAN
  /\ inst_f2e_stage2 \in Stage

\* How many parcels the buffer holds, by its credits.
Held == DEPTH - rff_free_cnt

\* The write pointer never overtakes the read pointer ("how to prevent the wr
\* goes faster and catch the rd form behind?", the buffer's code asks): what
\* lies between the pointers is what the credits count, and it is the program's
\* parcels from pc on, in order, up to the line the memory reads next.
BufferInOrder ==
  ~free_cnt_flush_flag =>
    /\ rff_wr_ptr = (rff_rd_ptr + Held) % DEPTH
    /\ LineStart(instmem_addr) = pc + Held
    /\ \A k \in 0 .. Held - 1 : dff_inst_buf[(rff_rd_ptr + k) % DEPTH] = pc + k

\* After a redirect the buffer is empty and aligned with the target, and pc
\* follows as soon as the redirecting instruction no longer stalls.
RedirectedTo ==
  free_cnt_flush_flag =>
    /\ rff_free_cnt = DEPTH /\ rff_wr_ptr = 0
    /\ rff_rd_ptr = instmem_addr % 4
    /\ IF flush THEN instmem_addr = inst_addr_flush ELSE instmem_addr = pc

\* The instruction at address a in the memory, of length 1 or 2.
Length(a) == IF a \in Rvc THEN 1 ELSE 2

\* What executes is an instruction of the program in one piece, although its
\* halves may come from two lines, and both copies of its address are right:
\* the one a trap saves in mepc and the one a branch adds its offset to.
ExecutesWhole ==
  LET inst == inst_f2e_stage2
  IN  inst.valid =>
        /\ inst.lo \notin Rvc => inst.hi = inst.lo + 1
        /\ pc_prev_stage2 = inst.lo
        /\ pc_f2e_stage2 = inst.lo

\* Unless a redirect is under way, pc is where the program goes on.
PcFollows ==
  LET inst == inst_f2e_stage2
  IN  inst.valid /\ ~flush => pc = inst.lo + Length(inst.lo)

\* Where the program goes on: after the instruction in the execute stage, if
\* there is one.
NextInst ==
  LET inst == inst_f2e_stage2
  IN  IF ~inst.valid THEN pc
      ELSE IF flush THEN inst_addr_flush
      ELSE inst.lo + Length(inst.lo)

\* Whatever is prefetched, discarded, stalled and redirected, the execute
\* stage gets the program's instructions in the program's order, each once.
Order == INSTANCE ProgramOrder WITH at <- NextInst
RefinesProgramOrder == Order!Spec

\* The clock goes on.
FairSpec == Spec /\ WF_vars(Next)

\* The whole instruction at pc is in lines that are not zero.
Fetchable == {pc \div 4, (pc + Length(pc) - 1) \div 4} \subseteq CodeLines

\* The execute stage is never left without the instruction at pc forever.
FetchGoesOn == ~inst_f2e_stage2.valid /\ Fetchable ~> inst_f2e_stage2.valid
=============================================================================
