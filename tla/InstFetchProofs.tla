-------------------------- MODULE InstFetchProofs --------------------------
(***************************************************************************)
(* What TLC finds of InstFetch on one program, proved for every program:   *)
(* any code, any mixture of 16-bit and 32-bit instructions, any redirects  *)
(* and stalls.  The inductive invariant says what the buffer holds.        *)
(***************************************************************************)
EXTENDS InstFetch, TLAPS

IInv == TypeOK /\ BufferInOrder /\ RedirectedTo /\ ExecutesWhole /\ PcFollows

\* A slot reached by adding at most a buffer's length wraps at most once.
LEMMA Slot ==
  ASSUME NEW a \in 0 .. 2 * DEPTH - 1
  PROVE  a % DEPTH = (IF a < DEPTH THEN a ELSE a - DEPTH) /\ a % DEPTH \in Slots
  BY DEF DEPTH, Slots

\* Where a line starts.
LEMMA LineStarts ==
  ASSUME NEW a \in Nat
  PROVE  /\ a % 4 \in 0 .. 3
         /\ LineStart(a) \in Nat
         /\ (a + 4) % 4 = a % 4
         /\ LineStart(a + 4) = LineStart(a) + 4
<1>1. a % 4 \in 0 .. 3 /\ a % 4 <= a
  OBVIOUS
<1>2. (a + 4) % 4 = a % 4
  OBVIOUS
<1>3. PICK r \in 0 .. 3 : r = a % 4 /\ r <= a
  BY <1>1
<1>4. LineStart(a) = a - r /\ LineStart(a + 4) = (a + 4) - r
  BY <1>2, <1>3 DEF LineStart
<1> QED BY <1>2, <1>3, <1>4

\* Where the program's parcels from pc on are, in the words of BufferInOrder.
LEMMA Head ==
  ASSUME IInv, inst_valid
  PROVE  /\ ~free_cnt_flush_flag
         /\ incr_rd_ptr \in {1, 2} /\ incr_rd_ptr <= Held
         /\ dff_inst_buf[rff_rd_ptr] = pc
         /\ incr_rd_ptr = Length(pc)
         /\ incr_rd_ptr = 2 => dff_inst_buf[(rff_rd_ptr + 1) % DEPTH] = pc + 1
<1>1. ~free_cnt_flush_flag
  BY DEF IInv, RedirectedTo, inst_valid, DEPTH
<1>2. Held \in 1 .. DEPTH
  BY DEF IInv, TypeOK, inst_valid, Held, DEPTH
<1>3. dff_inst_buf[(rff_rd_ptr + 0) % DEPTH] = pc + 0
  BY <1>1, <1>2 DEF IInv, BufferInOrder
<1>4. (rff_rd_ptr + 0) % DEPTH = rff_rd_ptr /\ pc + 0 = pc
  BY DEF IInv, TypeOK, Slots, DEPTH
<1>5. incr_rd_ptr \in {1, 2} /\ incr_rd_ptr = Length(pc)
  BY <1>3, <1>4 DEF incr_rd_ptr, is_top_rvc, Length
<1>6. incr_rd_ptr <= Held
  BY <1>5 DEF IInv, TypeOK, inst_valid, incr_rd_ptr, Held, DEPTH
<1>7. ASSUME incr_rd_ptr = 2
      PROVE  dff_inst_buf[(rff_rd_ptr + 1) % DEPTH] = pc + 1
  <2>1. 1 \in 0 .. Held - 1
    BY <1>2, <1>6, <1>7 DEF DEPTH
  <2> QED BY <1>1, <2>1 DEF IInv, BufferInOrder
<1> QED BY <1>1, <1>3, <1>4, <1>5, <1>6, <1>7

\* The credits after an edge without flush, and their type.
LEMMA Credits ==
  ASSUME IInv, ~flush, NEW taken \in 0 .. 2, taken > 0 => taken <= Held,
         BufferStep(taken)
  PROVE  /\ rff_free_cnt' \in 0 .. DEPTH
         /\ ~free_cnt_flush_flag =>
              Held' = Held - taken + (IF line_valid THEN 4 ELSE 0)
         /\ free_cnt_flush_flag =>
              /\ taken = 0
              /\ Held' = IF line_valid THEN 4 - (pc % 4) ELSE 0
<1>1. rff_free_cnt \in 0 .. DEPTH /\ pc \in Nat /\ pc % 4 \in 0 .. 3
  BY LineStarts DEF IInv, TypeOK
<1>2. line_valid => rff_free_cnt >= 4
  BY DEF line_valid, ld_line, ENTRIESPERLINE
<1>3. line_valid <=> ld_line /\ line_ready
  BY DEF line_valid
<1>4. CASE ~free_cnt_flush_flag
  <2>1. rff_free_cnt' = rff_free_cnt + taken - (IF line_valid THEN 4 ELSE 0)
    BY <1>1, <1>3, <1>4 DEF BufferStep, next_free_cnt, ENTRIESPERLINE
  <2> QED BY <1>1, <1>2, <1>4, <2>1 DEF Held, DEPTH
<1>5. CASE free_cnt_flush_flag
  <2>1. rff_free_cnt = 16 /\ Held = 0
    BY <1>5 DEF IInv, RedirectedTo, Held, DEPTH
  <2>2. taken = 0
    BY <2>1
  <2>3. PICK skip \in 0 .. 3 : skip = pc % 4
    BY <1>1
  <2>4. next_free_cnt(0) = 16 + skip - (IF line_valid THEN 4 ELSE 0)
    BY <1>3, <1>5, <2>1, <2>3 DEF next_free_cnt, ENTRIESPERLINE
  <2>5. rff_free_cnt' = IF line_valid THEN 12 + skip ELSE 16
    BY <2>1, <2>2, <2>4 DEF BufferStep
  <2>6. Held' = IF line_valid THEN 4 - skip ELSE 0
    BY <2>5 DEF Held, DEPTH
  <2>7. rff_free_cnt' \in 0 .. DEPTH
    BY <2>5 DEF DEPTH
  <2>8. Held' = IF line_valid THEN 4 - (pc % 4) ELSE 0
    BY <2>3, <2>6
  <2> QED BY <1>5, <2>2, <2>7, <2>8
<1> QED BY <1>4, <1>5

\* An edge without flush keeps the types of the buffer's registers.
LEMMA StepType ==
  ASSUME IInv, ~flush, NEW taken \in 0 .. 2, taken > 0 => taken <= Held,
         BufferStep(taken)
  PROVE  /\ instmem_addr' \in Nat
         /\ dff_inst_buf' \in [Slots -> Nat]
         /\ rff_rd_ptr' \in Slots
         /\ rff_wr_ptr' \in {s \in Slots : s % ENTRIESPERLINE = 0}
         /\ rff_free_cnt' \in 0 .. DEPTH
         /\ free_cnt_flush_flag' \in BOOLEAN
<1>1. rff_free_cnt' \in 0 .. DEPTH
  BY Credits
<1>2. rff_rd_ptr' \in Slots
  <2>1. rff_rd_ptr + taken \in 0 .. 2 * DEPTH - 1
    BY DEF IInv, TypeOK, Slots, DEPTH
  <2> QED BY <2>1, Slot DEF BufferStep
<1>3. CASE line_valid
  <2>1. rff_wr_ptr' = (rff_wr_ptr + 4) % 16
    BY <1>3 DEF BufferStep, DEPTH, ENTRIESPERLINE
  <2>2. rff_wr_ptr' \in {s \in Slots : s % ENTRIESPERLINE = 0}
    BY <2>1 DEF IInv, TypeOK, Slots, DEPTH, ENTRIESPERLINE
  <2>3. ASSUME NEW s \in rff_wr_ptr .. rff_wr_ptr + ENTRIESPERLINE - 1
        PROVE  LineStart(instmem_addr) + (s - rff_wr_ptr) \in Nat
    <3>1. LineStart(instmem_addr) \in Nat
      BY LineStarts DEF IInv, TypeOK
    <3>2. s - rff_wr_ptr \in Nat
      BY DEF IInv, TypeOK, Slots, DEPTH, ENTRIESPERLINE
    <3> QED BY <3>1, <3>2
  <2>4. dff_inst_buf' \in [Slots -> Nat]
    BY <1>3, <2>3 DEF BufferStep, IInv, TypeOK
  <2>5. instmem_addr' \in Nat
    BY <1>3 DEF BufferStep, IInv, TypeOK
  <2>6. free_cnt_flush_flag' \in BOOLEAN
    BY <1>3 DEF BufferStep
  <2> QED BY <1>1, <1>2, <2>2, <2>4, <2>5, <2>6
<1>4. CASE ~line_valid
  BY <1>1, <1>2, <1>4 DEF BufferStep, IInv, TypeOK
<1> QED BY <1>3, <1>4

\* An edge without flush keeps the buffer in the program's order.
LEMMA StepInOrder ==
  ASSUME IInv, ~flush, NEW taken \in 0 .. 2, taken > 0 => taken <= Held,
         BufferStep(taken), pc' = pc + taken
  PROVE  BufferInOrder'
<1> SUFFICES ASSUME ~free_cnt_flush_flag' PROVE BufferInOrder'
  BY DEF BufferInOrder
<1>1. /\ pc \in Nat /\ instmem_addr \in Nat
      /\ rff_rd_ptr \in Slots /\ rff_wr_ptr \in Slots
      /\ rff_free_cnt \in 0 .. DEPTH /\ Held \in 0 .. DEPTH
  BY DEF IInv, TypeOK, Held, DEPTH
<1>2. rff_rd_ptr' = (rff_rd_ptr + taken) % DEPTH
  BY DEF BufferStep
<1>3. CASE ~free_cnt_flush_flag /\ ~line_valid
  <2>1. Held' = Held - taken
    BY <1>1, <1>3, Credits
  <2>2. /\ rff_wr_ptr' = rff_wr_ptr /\ dff_inst_buf' = dff_inst_buf
        /\ instmem_addr' = instmem_addr
    BY <1>3 DEF BufferStep
  <2>3. /\ rff_wr_ptr = (rff_rd_ptr + Held) % DEPTH
        /\ LineStart(instmem_addr) = pc + Held
        /\ \A k \in 0 .. Held - 1 : dff_inst_buf[(rff_rd_ptr + k) % DEPTH] = pc + k
    BY <1>3 DEF IInv, BufferInOrder
  <2>4. taken <= Held
    BY <1>1
  <2>5. rff_wr_ptr' = (rff_rd_ptr' + Held') % DEPTH
    BY <1>1, <1>2, <2>1, <2>2, <2>3, <2>4 DEF Slots, DEPTH
  <2>6. LineStart(instmem_addr)' = pc' + Held'
    BY <1>1, <2>1, <2>2, <2>3 DEF LineStart
  <2>7. ASSUME NEW k \in 0 .. Held' - 1
        PROVE  dff_inst_buf'[(rff_rd_ptr' + k) % DEPTH] = pc' + k
    <3>1. k + taken \in 0 .. Held - 1
      BY <1>1, <2>1
    <3>2. (rff_rd_ptr' + k) % DEPTH = (rff_rd_ptr + (k + taken)) % DEPTH
      BY <1>1, <1>2, <2>1, <2>4 DEF Slots, DEPTH
    <3>3. pc' + k = pc + (k + taken)
      BY <1>1, <2>1
    <3> QED BY <2>2, <2>3, <3>1, <3>2, <3>3
  <2> QED BY <2>5, <2>6, <2>7 DEF BufferInOrder
<1>4. CASE ~free_cnt_flush_flag /\ line_valid
  <2>1. Held' = Held - taken + 4 /\ taken <= Held /\ Held <= 12
    BY <1>1, <1>4, Credits DEF line_valid, ld_line, ENTRIESPERLINE, Held, DEPTH
  <2>2. /\ rff_wr_ptr = (rff_rd_ptr + Held) % DEPTH
        /\ LineStart(instmem_addr) = pc + Held
        /\ \A k \in 0 .. Held - 1 : dff_inst_buf[(rff_rd_ptr + k) % DEPTH] = pc + k
    BY <1>4 DEF IInv, BufferInOrder
  <2>3. rff_wr_ptr' = (rff_wr_ptr + 4) % DEPTH
    BY <1>4 DEF BufferStep, ENTRIESPERLINE
  <2>4. rff_wr_ptr' = (rff_rd_ptr' + Held') % DEPTH
    BY <1>1, <1>2, <2>1, <2>2, <2>3 DEF Slots, DEPTH
  <2>5. LineStart(instmem_addr)' = LineStart(instmem_addr) + 4
    BY <1>1, <1>4, LineStarts DEF BufferStep
  <2>6. LineStart(instmem_addr)' = pc' + Held'
    BY <1>1, <2>1, <2>2, <2>5
  <2>7. rff_wr_ptr \in {0, 4, 8, 12}
    BY DEF IInv, TypeOK, Slots, DEPTH, ENTRIESPERLINE
  <2>8. ASSUME NEW k \in 0 .. Held' - 1
        PROVE  dff_inst_buf'[(rff_rd_ptr' + k) % DEPTH] = pc' + k
    <3> DEFINE s == (rff_rd_ptr' + k) % DEPTH
    <3>1. s = (rff_rd_ptr + (k + taken)) % DEPTH /\ s \in Slots
      BY <1>1, <1>2, <2>1 DEF Slots, DEPTH
    <3>2. pc' + k = pc + (k + taken)
      BY <1>1, <2>1
    <3>3. dff_inst_buf'[s] = IF s \in rff_wr_ptr .. rff_wr_ptr + 3
                             THEN LineStart(instmem_addr) + (s - rff_wr_ptr)
                             ELSE dff_inst_buf[s]
      BY <1>4, <3>1 DEF BufferStep, ENTRIESPERLINE
    <3>4. CASE k + taken < Held
      <4>1. s \notin rff_wr_ptr .. rff_wr_ptr + 3
        BY <1>1, <2>1, <2>2, <2>7, <3>1, <3>4 DEF Slots, DEPTH
      <4>2. k + taken \in 0 .. Held - 1
        BY <1>1, <2>1, <3>4
      <4> QED BY <2>2, <3>1, <3>2, <3>3, <4>1, <4>2
    <3>5. CASE k + taken >= Held
      <4>1. s = rff_wr_ptr + (k + taken - Held) /\ k + taken - Held \in 0 .. 3
        BY <1>1, <2>1, <2>2, <2>7, <3>1, <3>5 DEF Slots, DEPTH
      <4>2. dff_inst_buf'[s] = LineStart(instmem_addr) + (k + taken - Held)
        BY <2>7, <3>3, <4>1
      <4> QED BY <1>1, <2>1, <2>2, <3>2, <4>1, <4>2
    <3> QED BY <1>1, <2>1, <3>4, <3>5
  <2> QED BY <2>4, <2>6, <2>8 DEF BufferInOrder
<1>5. CASE free_cnt_flush_flag
  <2>1. line_valid
    BY <1>5 DEF BufferStep
  <2>2. /\ rff_wr_ptr = 0 /\ rff_rd_ptr = instmem_addr % 4 /\ instmem_addr = pc
    BY <1>5 DEF IInv, RedirectedTo
  <2>3. PICK r \in 0 .. 3 : r = pc % 4
    BY <1>1, LineStarts
  <2>4. Held' = 4 - r /\ taken = 0
    BY <1>5, <2>1, <2>3, Credits
  <2>5. rff_rd_ptr = r /\ rff_rd_ptr' = r
    BY <1>2, <2>2, <2>3, <2>4 DEF DEPTH
  <2>6. rff_wr_ptr' = 4
    BY <2>1, <2>2 DEF BufferStep, DEPTH, ENTRIESPERLINE
  <2>7. LineStart(instmem_addr) = pc - r
    BY <2>2, <2>3 DEF LineStart
  <2>8. LineStart(instmem_addr)' = pc - r + 4
    BY <1>1, <2>1, <2>7, LineStarts DEF BufferStep
  <2>9. ASSUME NEW k \in 0 .. Held' - 1
        PROVE  dff_inst_buf'[(rff_rd_ptr' + k) % DEPTH] = pc' + k
    <3>1. (rff_rd_ptr' + k) % DEPTH = r + k /\ r + k \in 0 .. 3 /\ pc' + k = pc + k
      BY <1>1, <2>4, <2>5 DEF DEPTH
    <3>2. dff_inst_buf'[r + k] = LineStart(instmem_addr) + (r + k - 0)
      BY <2>1, <2>2, <3>1 DEF BufferStep, Slots, DEPTH, ENTRIESPERLINE
    <3> QED BY <1>1, <2>7, <3>1, <3>2
  <2>10. rff_wr_ptr' = (rff_rd_ptr' + Held') % DEPTH
    BY <2>4, <2>5, <2>6 DEF DEPTH
  <2>11. LineStart(instmem_addr)' = pc' + Held'
    BY <1>1, <2>4, <2>8
  <2> QED BY <2>9, <2>10, <2>11 DEF BufferInOrder
<1> QED BY <1>3, <1>4, <1>5

\* An edge without flush, at which no instruction leaves the buffer, keeps a
\* redirected fetch where it is.
LEMMA StepRedirected ==
  ASSUME IInv, ~flush, BufferStep(0), pc' = pc, ~flush'
  PROVE  RedirectedTo'
<1> SUFFICES ASSUME free_cnt_flush_flag' PROVE RedirectedTo'
  BY DEF RedirectedTo
<1>1. ~line_valid
  BY DEF BufferStep
<1>2. /\ free_cnt_flush_flag /\ rff_wr_ptr' = rff_wr_ptr
      /\ instmem_addr' = instmem_addr /\ rff_free_cnt' = rff_free_cnt
  BY <1>1, ~(0 > 0) DEF BufferStep
<1>3. /\ rff_free_cnt = DEPTH /\ rff_wr_ptr = 0
      /\ rff_rd_ptr = instmem_addr % 4 /\ instmem_addr = pc
  BY <1>2 DEF IInv, RedirectedTo
<1>4. rff_rd_ptr' = rff_rd_ptr
  BY DEF BufferStep, IInv, TypeOK, Slots, DEPTH
<1> QED BY <1>2, <1>3, <1>4 DEF RedirectedTo

\* The edges at which the execute stage redirects the fetch.
LEMMA FlushStep ==
  ASSUME IInv, flush, BufferFlush
  PROVE  /\ instmem_addr' \in Nat
         /\ dff_inst_buf' \in [Slots -> Nat]
         /\ rff_rd_ptr' \in Slots
         /\ rff_wr_ptr' \in {s \in Slots : s % ENTRIESPERLINE = 0}
         /\ rff_free_cnt' \in 0 .. DEPTH
         /\ free_cnt_flush_flag' \in BOOLEAN
         /\ BufferInOrder'
         /\ inst_addr_flush \in Nat /\ inst_f2e_stage2.valid
<1>1. inst_f2e_stage2.effect \in Effect /\ inst_f2e_stage2.valid
  <2>1. inst_f2e_stage2 \in Stage /\ inst_f2e_stage2 # Bubble
    BY DEF IInv, TypeOK, flush, Bubble
  <2> QED BY <2>1 DEF Stage
<1>2. inst_addr_flush \in Nat
  BY <1>1 DEF inst_addr_flush, Effect
<1>3. inst_addr_flush % 4 \in 0 .. 3
  BY <1>2, LineStarts
<1>4. rff_rd_ptr' \in Slots
  BY <1>3 DEF BufferFlush, Slots, DEPTH
<1>5. rff_wr_ptr' \in {s \in Slots : s % ENTRIESPERLINE = 0}
  BY DEF BufferFlush, Slots, DEPTH, ENTRIESPERLINE
<1>6. rff_free_cnt' \in 0 .. DEPTH
  BY DEF BufferFlush, DEPTH
<1>7. BufferInOrder'
  BY DEF BufferFlush, BufferInOrder
<1> QED BY <1>1, <1>2, <1>4, <1>5, <1>6, <1>7 DEF BufferFlush, IInv, TypeOK

LEMMA InitInv == Init => IInv
<1> SUFFICES ASSUME Init PROVE IInv
  OBVIOUS
<1>1. TypeOK
  BY StartAssumption DEF Init, TypeOK, Slots, DEPTH, ENTRIESPERLINE, Stage
<1>2. BufferInOrder /\ ExecutesWhole /\ PcFollows
  BY DEF Init, BufferInOrder, ExecutesWhole, PcFollows, Bubble
<1>3. RedirectedTo
  BY StartAssumption DEF Init, RedirectedTo, Bubble, flush, DEPTH
<1> QED BY <1>1, <1>2, <1>3 DEF IInv

\* An instruction issues.
LEMMA IssueInv ==
  ASSUME IInv, Issue
  PROVE  IInv'
<1> DEFINE taken == incr_rd_ptr
<1>1. /\ ~flush /\ inst_valid /\ BufferStep(taken)
      /\ pc' = pc + taken /\ pc_prev_stage2' = pc /\ pc_f2e_stage2' = pc
  BY DEF Issue
<1>2. PICK e \in Effects : inst_f2e_stage2' =
        [valid |-> TRUE, lo |-> dff_inst_buf[rff_rd_ptr],
         hi |-> dff_inst_buf[(rff_rd_ptr + 1) % DEPTH], effect |-> e]
  BY DEF Issue
<1>3. taken \in 0 .. 2 /\ taken <= Held
  BY <1>1, Head
<1>4. TypeOK'
  <2>1. (rff_rd_ptr + 1) % DEPTH \in Slots /\ rff_rd_ptr \in Slots
    BY DEF IInv, TypeOK, Slots, DEPTH
  <2>2. inst_f2e_stage2' \in Stage
    BY <1>2, <2>1, ProgramAssumption DEF Stage, IInv, TypeOK
  <2>3. pc \in Nat /\ pc + taken \in Nat
    BY <1>3 DEF IInv, TypeOK
  <2> HIDE DEF taken
  <2> QED BY <1>1, <1>3, <2>2, <2>3, StepType DEF TypeOK
<1>5. BufferInOrder'
  <2> HIDE DEF taken
  <2> QED BY <1>1, <1>3, StepInOrder
<1>6. RedirectedTo'
  <2>1. ~free_cnt_flush_flag'
    BY <1>1, Head DEF BufferStep
  <2> QED BY <2>1 DEF RedirectedTo
<1>7. ExecutesWhole'
  BY <1>1, <1>2, Head DEF ExecutesWhole, Length
<1>8. PcFollows'
  <2>1. inst_f2e_stage2'.lo = pc /\ pc' = pc + Length(pc)
    BY <1>1, <1>2, Head
  <2> QED BY <2>1 DEF PcFollows, Length
<1> QED BY <1>4, <1>5, <1>6, <1>7, <1>8 DEF IInv

\* Nothing issues: the execute stage is empty afterwards.
LEMMA StarveInv ==
  ASSUME IInv, Starve
  PROVE  IInv'
<1>1. /\ ~flush /\ BufferStep(0) /\ pc' = pc /\ pc_prev_stage2' = pc_prev_stage2
      /\ pc_f2e_stage2' = pc /\ inst_f2e_stage2' = Bubble
  BY DEF Starve
<1>2. pc + 0 = pc
  BY DEF IInv, TypeOK
<1>3. ~flush' /\ ~inst_f2e_stage2'.valid
  BY <1>1 DEF flush, Bubble
<1>4. TypeOK'
  <2>1. inst_f2e_stage2' \in Stage
    BY <1>1 DEF Stage
  <2> QED BY <1>1, <2>1, StepType DEF IInv, TypeOK
<1>5. BufferInOrder'
  BY <1>1, <1>2, StepInOrder
<1>6. RedirectedTo'
  BY <1>1, <1>3, StepRedirected
<1>7. ExecutesWhole' /\ PcFollows'
  BY <1>3 DEF ExecutesWhole, PcFollows
<1> QED BY <1>4, <1>5, <1>6, <1>7 DEF IInv

\* The pipeline stalls while the buffer fills.
LEMMA HoldInv ==
  ASSUME IInv, Hold
  PROVE  IInv'
<1>1. ~flush /\ BufferStep(0) /\ UNCHANGED pcVars
  BY DEF Hold
<1>2. pc + 0 = pc
  BY DEF IInv, TypeOK
<1>3. ~flush'
  BY <1>1 DEF flush, pcVars
<1>4. TypeOK'
  BY <1>1, StepType DEF IInv, TypeOK, pcVars
<1>5. BufferInOrder'
  BY <1>1, <1>2, StepInOrder DEF pcVars
<1>6. RedirectedTo'
  BY <1>1, <1>3, StepRedirected DEF pcVars
<1>7. ExecutesWhole' /\ PcFollows'
  BY <1>1 DEF IInv, ExecutesWhole, PcFollows, pcVars, flush, Length
<1> QED BY <1>4, <1>5, <1>6, <1>7 DEF IInv

\* A redirect by an instruction that leaves the execute stage.
LEMMA RedirectInv ==
  ASSUME IInv, Redirect
  PROVE  IInv'
<1>1. /\ flush /\ BufferFlush /\ pc' = inst_addr_flush /\ pc_prev_stage2' = pc
      /\ pc_f2e_stage2' = pc /\ inst_f2e_stage2' = Bubble
  BY DEF Redirect
<1>2. ~flush' /\ ~inst_f2e_stage2'.valid
  BY <1>1 DEF flush, Bubble
<1>3. TypeOK' /\ BufferInOrder'
  BY <1>1, FlushStep DEF IInv, TypeOK, Stage
<1>4. RedirectedTo'
  BY <1>1, <1>2 DEF RedirectedTo, BufferFlush
<1>5. ExecutesWhole' /\ PcFollows'
  BY <1>2 DEF ExecutesWhole, PcFollows
<1> QED BY <1>3, <1>4, <1>5 DEF IInv

\* A redirect by an instruction that stalls.
LEMMA RedirectStalledInv ==
  ASSUME IInv, RedirectStalled
  PROVE  IInv'
<1>1. flush /\ BufferFlush /\ UNCHANGED pcVars
  BY DEF RedirectStalled
<1>2. flush' /\ inst_addr_flush' = inst_addr_flush
  BY <1>1 DEF flush, inst_addr_flush, pcVars
<1>3. TypeOK' /\ BufferInOrder'
  BY <1>1, FlushStep DEF IInv, TypeOK, pcVars
<1>4. RedirectedTo'
  BY <1>1, <1>2 DEF RedirectedTo, BufferFlush
<1>5. ExecutesWhole' /\ PcFollows'
  BY <1>1 DEF IInv, ExecutesWhole, PcFollows, pcVars, flush, Length
<1> QED BY <1>3, <1>4, <1>5 DEF IInv

\* The invariant is inductive: what the buffer holds is the program from pc on.
THEOREM FetchInductive == Spec => []IInv
<1>1. IInv /\ [Next]_vars => IInv'
  <2> SUFFICES ASSUME IInv, [Next]_vars PROVE IInv'
    OBVIOUS
  <2>1. CASE Issue
    BY <2>1, IssueInv
  <2>2. CASE Starve
    BY <2>2, StarveInv
  <2>3. CASE Hold
    BY <2>3, HoldInv
  <2>4. CASE Redirect
    BY <2>4, RedirectInv
  <2>5. CASE RedirectStalled
    BY <2>5, RedirectStalledInv
  <2>6. CASE UNCHANGED vars
    BY <2>6 DEF IInv, TypeOK, BufferInOrder, RedirectedTo, ExecutesWhole, PcFollows,
                Held, LineStart, Length, flush, inst_addr_flush, vars, bufVars, pcVars
  <2> QED BY <2>1, <2>2, <2>3, <2>4, <2>5, <2>6 DEF Next
<1> QED BY InitInv, <1>1, PTL DEF Spec

\* Every variable stays in its domain: the credits never exceed the buffer.
THEOREM FetchTypeCorrect == Spec => []TypeOK
  BY FetchInductive, PTL DEF IInv

\* The buffer never overflows, and holds the program's parcels in order.
THEOREM BufferStaysInOrder == Spec => []BufferInOrder
  BY FetchInductive, PTL DEF IInv

\* From a redirect until the line it asks for, the buffer, the memory and the
\* program counter agree on the target.
THEOREM StaysRedirected == Spec => []RedirectedTo
  BY FetchInductive, PTL DEF IInv

\* No instruction executes that is not in the program, and each one knows its
\* own address.
THEOREM ExecutesWholeInstructions == Spec => []ExecutesWhole
  BY FetchInductive, PTL DEF IInv

\* The fetch unit implements the program's order.
THEOREM FetchImplementsProgramOrder == Spec => RefinesProgramOrder
<1>1. Init => Order!Init
  BY DEF Init, Order!Init, NextInst, Bubble
<1>2. IInv /\ [Next]_vars => [Order!Next]_NextInst
  <2> SUFFICES ASSUME IInv, [Next]_vars PROVE Order!Next \/ NextInst' = NextInst
    OBVIOUS
  <2>1. CASE Issue
    <3>1. PICK e \in Effects : inst_f2e_stage2' =
            [valid |-> TRUE, lo |-> dff_inst_buf[rff_rd_ptr],
             hi |-> dff_inst_buf[(rff_rd_ptr + 1) % DEPTH], effect |-> e]
      BY <2>1 DEF Issue
    <3>2. dff_inst_buf[rff_rd_ptr] = pc
      BY <2>1, Head DEF Issue
    <3>3. NextInst = pc
      BY <2>1 DEF Issue, NextInst, IInv, PcFollows
    <3>4. NextInst' = IF e.jumps THEN e.target ELSE pc + Length(pc)
      BY <3>1, <3>2 DEF NextInst, flush, inst_addr_flush, Length
    <3>5. NextInst' = Order!After(NextInst, e)
      BY <3>3, <3>4 DEF Order!After, Order!Length, Length
    <3> QED BY <3>5 DEF Order!Next
  <2>2. CASE Starve
    BY <2>2 DEF Starve, NextInst, IInv, PcFollows, Bubble
  <2>3. CASE Hold
    BY <2>3 DEF Hold, NextInst, pcVars, flush, inst_addr_flush, Length
  <2>4. CASE Redirect
    <3>1. NextInst = inst_addr_flush
      BY <2>4, FlushStep DEF Redirect, NextInst
    <3>2. NextInst' = pc'
      BY <2>4 DEF Redirect, NextInst, Bubble
    <3> QED BY <2>4, <3>1, <3>2 DEF Redirect
  <2>5. CASE RedirectStalled
    BY <2>5 DEF RedirectStalled, NextInst, pcVars, flush, inst_addr_flush, Length
  <2>6. CASE UNCHANGED vars
    BY <2>6 DEF NextInst, vars, pcVars, flush, inst_addr_flush, Length
  <2> QED BY <2>1, <2>2, <2>3, <2>4, <2>5, <2>6 DEF Next
<1> QED BY <1>1, <1>2, FetchInductive, PTL DEF Spec, RefinesProgramOrder, Order!Spec
=============================================================================
