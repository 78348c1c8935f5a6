---------------------------- MODULE TohostProofs ----------------------------
(***************************************************************************)
(* A system call's poll loop sees the host's answer, for every program     *)
(* that keeps fromhost's cache set to fromhost, and at either clock level. *)
(* Nor do the answers lose a store of whole words, or a load's address.    *)
(*                                                                         *)
(* The answer is a line that the bus knows nothing of; what keeps it is    *)
(* that the core never misses on it.  That a store to tohost is answered   *)
(* before it leaves needs the schedule: the extra toggle after a miss is a *)
(* falling edge (Served, as for OneCoreProofs), so that the store is       *)
(* served again, as a hit, at both levels of the clock before it retires.  *)
(***************************************************************************)
EXTENDS Tohost, OneCoreProofs, TLAPS

FromLine == lines[Fromhost[2]]

Shows(line) ==
  /\ line.tag = Fromhost[1] /\ line.valid \in {Shared, Modified}
  /\ line.data[Fromhost[3]] = [b \in Bytes |-> Answered]

InProgram == rq \in Programs[0] \cup {Idle}

Clearing == rq.op = "store" /\ rq.index = Fromhost[2]

\* The levels at which a stalled store to tohost has been answered.
Due ==
  \/ answer_clk = 1 /\ ~(step = "serve" /\ clk[0] = 1)
  \/ step = "eval" /\ clk[0] = 0

AnswerGiven ==
  Accesses(rq, "store", Tohost) /\ stall_last[0] /\ Due => Shows(FromLine)

AnswerStands == answered /\ ~Clearing => Shows(FromLine)

HostInv ==
  /\ TypeOK /\ answer_clk \in {0, 1}
  /\ Served /\ LoadsFresh /\ InProgram
  /\ AnswerGiven /\ AnswerStands

-----------------------------------------------------------------------------
LEMMA HostCore == Cores = {0} /\ NoCore \notin Cores /\ NoCore # 0
BY SizeAssumption, HostAssumption DEF Cores, NoCore

LEMMA HostLoop ==
  ASSUME TypeOK
  PROVE  /\ loop_m = 0 /\ loop_i = 0
         /\ rq \in Request /\ (IsMem(rq) => rq \in MemRequest)
         /\ lines \in [Indexes -> Line]
         /\ clk[0] \in {0, 1} /\ stall_last[0] \in BOOLEAN
<1>1. loop_m = 0
  BY SizeAssumption, HostAssumption DEF TypeOK
<1>2. loop_i = 0
  BY LoopInCores, HostCore
<1> QED BY <1>1, <1>2, HostCore
        DEF TypeOK, rq, lines, IsMem, Request, MemRequest, Idle

LEMMA HostAddresses ==
  /\ Tohost[2] \in Indexes /\ Fromhost[2] \in Indexes /\ Fromhost[1] \in Tags
  /\ Fromhost[3] \in Words /\ Tohost[2] # Fromhost[2]
BY HostAssumption DEF Addresses

\* A load at fromhost's index is one of fromhost's line.
LEMMA FromhostOnly ==
  ASSUME InProgram, IsMem(rq), rq.index = Fromhost[2]
  PROVE  rq.tag = Fromhost[1]
BY FromhostAssumption, HostCore DEF InProgram, IsMem, Idle

\* An answered line shows the answer.
LEMMA AnswerShows ==
  ASSUME NEW line \in Line
  PROVE  Answer(line) \in Line /\ Shows(Answer(line))
<1>1. line.data \in [Words -> Word] /\ [b \in Bytes |-> Answered] \in Word
  BY HostAssumption DEF Line, Data, Word
<1> QED BY <1>1, HostAddresses DEF Answer, Line, Data, Shows

-----------------------------------------------------------------------------
(***************************************************************************)
(* Evaluations.                                                            *)
(***************************************************************************)

\* What an evaluation leaves of the request: it retires, or stays.
LEMMA HostEval ==
  ASSUME HostInv, step = "eval", Eval(0)
  PROVE  /\ lines' = lines /\ shown' = lines /\ clk'[0] = 1 - clk[0]
         /\ \/ clk[0] = 0 /\ ~stall(0) /\ Retire(0)
            \/ /\ rq' = rq /\ ~Leaves
               /\ stall_last'[0] = IF clk[0] = 0 THEN TRUE ELSE stall_last[0]
<1>1. lines' = lines /\ shown' = lines /\ clk'[0] = 1 - clk[0]
  BY HostCore DEF HostInv, TypeOK, Eval, lines, shown
<1>2. CASE clk[0] = 0 /\ stall(0) /\ Hold(0)
  <2>1. IsMem(rq) /\ ~(stall_last[0] /\ hit(rq, shown))
    BY <1>2 DEF stall, rq, shown
  <2>2. hit(rq, shown)
    BY <1>2, <2>1 DEF HostInv, Served, Settled
  <2>3. req' = req
    BY <1>2, <2>1, <2>2 DEF Hold
  <2>4. stall_last'[0] = TRUE
    BY <1>2, HostCore DEF Hold, HostInv, TypeOK
  <2> QED BY <1>1, <1>2, <2>3, <2>4 DEF rq, Leaves
<1>3. CASE clk[0] = 1 /\ UNCHANGED <<req, stall_last, reg, arch>>
  BY <1>1, <1>3 DEF rq, Leaves
<1> QED BY <1>1, <1>2, <1>3 DEF Eval

\* A request that enters is one of the program's, and has not stalled.
LEMMA HostRetire ==
  ASSUME HostInv, Retire(0)
  PROVE  InProgram' /\ ~stall_last'[0]
<1>1. PICK r \in Programs[0] \cup {Idle} : req' = [req EXCEPT ![0] = r]
  BY DEF Retire
<1>2. rq' = r
  BY <1>1, HostCore DEF HostInv, TypeOK, rq
<1> QED BY <1>2, HostCore DEF Retire, HostInv, TypeOK, InProgram

\* A store to tohost leaves only when it has been answered.
LEMMA HostEvalAnswer ==
  ASSUME HostInv, step = "eval", Eval(0), Note
  PROVE  /\ AnswerStands' /\ InProgram' /\ LoadsFresh'
         /\ answer_clk' = answer_clk
<1>1. lines' = lines /\ shown' = lines /\ FromLine' = FromLine
  BY HostEval DEF FromLine
<1>2. LoadsFresh' /\ answer_clk' = answer_clk
  BY <1>1 DEF LoadsFresh, Note
<1>3. Shows(FromLine)' = Shows(FromLine)
  BY <1>1 DEF Shows
<1>4. CASE clk[0] = 0 /\ ~stall(0) /\ Retire(0)
  <2>1. Leaves
    BY <1>4 DEF Leaves
  <2>2. CASE Accesses(rq, "store", Tohost)
    <3>1. IsMem(rq)
      BY <2>2 DEF Accesses, IsMem
    <3>2. stall_last[0]
      BY <1>4, <3>1 DEF stall, rq
    <3>3. Shows(FromLine)
      BY <1>4, <2>2, <3>2 DEF HostInv, AnswerGiven, Due
    <3> QED BY <1>2, <1>3, <1>4, <3>3, HostRetire DEF AnswerStands
  <2>3. CASE ~Accesses(rq, "store", Tohost)
    <3>1. answered' => answered /\ ~Clearing
      BY <2>1, <2>3 DEF Note, Clearing, rq
    <3> QED BY <1>2, <1>3, <1>4, <3>1, HostRetire
            DEF AnswerStands, HostInv
  <2> QED BY <2>2, <2>3
<1>5. CASE rq' = rq /\ ~Leaves
  <2>1. answered' = answered
    BY <1>5 DEF Note
  <2>2. Clearing' = Clearing /\ InProgram'
    BY <1>5 DEF Clearing, InProgram, HostInv
  <2> QED BY <1>2, <1>3, <2>1, <2>2 DEF AnswerStands, HostInv
<1> QED BY <1>4, <1>5, HostEval

LEMMA HostTurn ==
  ASSUME HostInv, Turn, Note
  PROVE  HostInv'
<1>1. TypeOK'
  BY TypeStep DEF Next, HostInv
<1>2. loop_i = 0 /\ loop_m = 0 /\ clk[0] \in {0, 1}
  BY HostLoop DEF HostInv
<1>3. prosFin_en = {}
  BY HostCore DEF Turn, AllFinished, HostInv, TypeOK
<1>4. /\ Eval(0) /\ step = "eval" /\ step' = "serve"
      /\ bus_traffic_last = NoCore /\ bus_traffic_last' = NoCore
  BY <1>2, <1>3 DEF Turn
<1>5. AnswerStands' /\ InProgram' /\ LoadsFresh' /\ answer_clk' = answer_clk
  BY <1>4, HostEvalAnswer
<1>6. /\ lines' = lines /\ shown' = lines /\ clk'[0] = 1 - clk[0]
  BY <1>4, HostEval
<1>7. CASE clk[0] = 0 /\ ~stall(0) /\ Retire(0)
  <2>1. clk'[0] = 1 /\ ~stall_last'[0]
    BY <1>6, <1>7, HostRetire
  <2>2. Served'
    BY <1>4, <1>6, <2>1 DEF Served, Settled
  <2>3. AnswerGiven'
    BY <2>1 DEF AnswerGiven
  <2> QED BY <1>1, <1>5, <2>2, <2>3 DEF HostInv
<1>8. CASE /\ rq' = rq
           /\ stall_last'[0] = IF clk[0] = 0 THEN TRUE ELSE stall_last[0]
  <2>1. Served'
    <3>1. IsMem(rq) => hit(rq, lines)
      BY <1>4 DEF HostInv, Served
    <3>2. IsMem(rq)' = IsMem(rq) /\ hit(rq, lines)' = hit(rq, lines)
          /\ hit(rq, shown)' = hit(rq, lines)
      BY <1>6, <1>8 DEF IsMem, hit, readHit, writeHit
    <3> QED BY <1>4, <1>6, <3>1, <3>2 DEF Served
  <2>2. AnswerGiven'
    <3> SUFFICES ASSUME Accesses(rq, "store", Tohost)', stall_last'[0], Due'
                 PROVE  Shows(FromLine)'
      BY DEF AnswerGiven
    <3>1. answer_clk = 1 /\ clk[0] = 1 /\ stall_last[0]
      <4>1. answer_clk = 1 /\ clk'[0] # 1
        BY <1>4, <1>5 DEF Due
      <4>2. clk[0] = 1 /\ clk[0] # 0
        BY <1>2, <1>6, <4>1
      <4>3. stall_last'[0] = stall_last[0]
        BY <1>8, <4>2
      <4> QED BY <4>1, <4>2, <4>3
    <3>2. Accesses(rq, "store", Tohost)
      BY <1>8 DEF Accesses
    <3>3. Shows(FromLine)
      BY <1>4, <3>1, <3>2 DEF HostInv, AnswerGiven, Due
    <3> QED BY <1>6, <3>3 DEF Shows, FromLine
  <2> QED BY <1>1, <1>5, <2>1, <2>2 DEF HostInv
<1> QED BY <1>4, <1>7, <1>8, HostEval

LEMMA HostOwnerTurn ==
  ASSUME HostInv, OwnerTurn, Note
  PROVE  HostInv'
<1>1. TypeOK'
  BY TypeStep DEF Next, HostInv
<1>2. bus_traffic_last = 0 /\ NoCore # 0
  BY HostCore DEF OwnerTurn, HostInv, TypeOK
<1>3. /\ Eval(0) /\ step = "eval" /\ step' = "eval"
      /\ bus_traffic_last' = NoCore
  BY <1>2 DEF OwnerTurn
<1>4. clk[0] = 1 /\ ~stall_last[0] /\ IsMem(rq) /\ hit(rq, lines)
  BY <1>2, <1>3 DEF HostInv, Served
<1>5. AnswerStands' /\ InProgram' /\ LoadsFresh' /\ answer_clk' = answer_clk
  BY <1>3, HostEvalAnswer
<1>6. lines' = lines /\ shown' = lines /\ rq' = rq /\ ~stall_last'[0]
  BY <1>3, <1>4, HostEval
<1>7. Served'
  <2>1. hit(rq, lines)' /\ hit(rq, shown)'
    BY <1>4, <1>6 DEF hit, readHit, writeHit
  <2> QED BY <1>3, <2>1 DEF Served
<1>8. AnswerGiven'
  BY <1>6 DEF AnswerGiven
<1> QED BY <1>1, <1>5, <1>7, <1>8 DEF HostInv

-----------------------------------------------------------------------------
(***************************************************************************)
(* What the bus and the host serve.                                        *)
(***************************************************************************)

\* What a service has to leave: the request's hit and the answer.
LEMMA HostServed ==
  ASSUME HostInv, TypeOK', step = "serve", step' = "eval",
         rq' = rq, clk' = clk, stall_last' = stall_last,
         UNCHANGED <<answer_clk, answered>>,
         bus_traffic_last' = NoCore \/ ~Settled,
         IsMem(rq) => hit(rq, lines)' /\ (Settled => hit(rq, shown)'),
         IsMem(rq) \/ bus_traffic_last' = NoCore,
         rq.op = "load" /\ clk[0] = 0 => shown' = lines',
         answered /\ ~Clearing => Shows(FromLine)',
         Accesses(rq, "store", Tohost) /\ stall_last[0]
           /\ (answer_clk = 1 \/ clk[0] = 0) => Shows(FromLine)'
  PROVE  HostInv'
<1>1. clk[0] \in {0, 1}
  BY HostLoop DEF HostInv
<1>2. IsMem(rq)' = IsMem(rq) /\ Settled' = Settled
  BY DEF IsMem, Settled
<1>3. Served'
  BY <1>1, <1>2 DEF Served, Settled
<1>4. LoadsFresh' /\ InProgram' /\ answer_clk' \in {0, 1}
  BY DEF LoadsFresh, InProgram, HostInv
<1>5. AnswerGiven'
  BY DEF AnswerGiven, Accesses, Due
<1>6. AnswerStands'
  BY DEF AnswerStands, Clearing
<1> QED BY <1>3, <1>4, <1>5, <1>6 DEF HostInv

\* A miss is served with the clock high and the request new.
LEMMA HostGranted ==
  ASSUME HostInv, Granted(0), IsMem(rq), ~hit(rq, out_port[0])
  PROVE  /\ step = "serve" /\ step' = "eval" /\ rq \in MemRequest
         /\ ~hit(rq, lines) /\ ~Settled /\ clk[0] = 1 /\ ~stall_last[0]
         /\ rq' = rq /\ clk' = clk /\ stall_last' = stall_last
         /\ shown = lines
<1>1. /\ step = "serve" /\ step' = "eval"
      /\ req' = req /\ clk' = clk /\ stall_last' = stall_last
  BY DEF Granted, Serving, Advance, coreVars
<1>2. shown = lines /\ ~hit(rq, lines)
  BY <1>1 DEF HostInv, Served, shown
<1>3. ~Settled
  BY <1>2 DEF HostInv, Served
<1>4. rq \in MemRequest /\ clk[0] \in {0, 1}
  BY HostLoop DEF HostInv
<1> QED BY <1>1, <1>2, <1>3, <1>4 DEF Settled, rq

\* The core never misses on a line that shows the answer.
LEMMA HostReadMiss ==
  ASSUME HostInv, ReadMiss(0), UNCHANGED <<answer_clk, answered>>
  PROVE  HostInv'
<1> DEFINE fill == [tag |-> rq.tag, valid |-> Shared,
                    data |-> WrittenBack(0, rq)[<<rq.tag, rq.index>>]]
<1>1. TypeOK'
  BY TypeStep, HostCore DEF Next, Serve, HostInv
<1>2. Granted(0) /\ rq.op = "load" /\ ~hit(rq, out_port[0]) /\ IsMem(rq)
  BY DEF ReadMiss, hit, readHit, writeHit, IsMem, rq
<1>3. /\ step = "serve" /\ step' = "eval" /\ rq \in MemRequest
      /\ ~hit(rq, lines) /\ ~Settled /\ clk[0] = 1 /\ ~stall_last[0]
      /\ rq' = rq /\ clk' = clk /\ stall_last' = stall_last
  BY <1>2, HostGranted
<1>4. lines' = [lines EXCEPT ![rq.index] = fill]
  BY HostCore DEF ReadMiss, lines, rq
<1>5. rq.index \in Indexes /\ lines \in [Indexes -> Line]
  BY <1>3, RequestAddress, HostLoop DEF HostInv
<1>6. hit(rq, lines)'
  BY <1>2, <1>3, <1>4, <1>5 DEF hit, readHit
<1>7. answered => Shows(FromLine)'
  <2> SUFFICES ASSUME answered PROVE Shows(FromLine)'
    OBVIOUS
  <2>1. Shows(FromLine)
    BY <1>2 DEF HostInv, AnswerStands, Clearing
  <2>2. rq.index # Fromhost[2]
    BY <1>2, <1>3, <2>1, FromhostOnly
       DEF HostInv, Shows, FromLine, hit, readHit
  <2>3. FromLine' = FromLine
    BY <1>4, <1>5, <2>2, HostAddresses DEF FromLine
  <2> QED BY <2>1, <2>3 DEF Shows
<1> QED BY <1>1, <1>2, <1>3, <1>6, <1>7, HostServed

LEMMA HostWriteMiss ==
  ASSUME HostInv, WriteMiss(0), UNCHANGED <<answer_clk, answered>>
  PROVE  HostInv'
<1> DEFINE fill == [tag |-> rq.tag, valid |-> Modified,
                    data |-> [WrittenBack(0, rq)[<<rq.tag, rq.index>>] EXCEPT
                                ![rq.word] = storeData(rq, out_port[0])]]
<1>1. TypeOK'
  BY TypeStep, HostCore DEF Next, Serve, HostInv
<1>2. Granted(0) /\ rq.op = "store" /\ ~hit(rq, out_port[0]) /\ IsMem(rq)
  BY DEF WriteMiss, hit, readHit, writeHit, IsMem, rq
<1>3. /\ step = "serve" /\ step' = "eval" /\ rq \in MemRequest
      /\ ~Settled /\ clk[0] = 1 /\ ~stall_last[0]
      /\ rq' = rq /\ clk' = clk /\ stall_last' = stall_last
  BY <1>2, HostGranted
<1>4. lines' = [lines EXCEPT ![rq.index] = fill]
  BY HostCore DEF WriteMiss, lines, rq
<1>5. rq.index \in Indexes /\ lines \in [Indexes -> Line]
  BY <1>3, RequestAddress, HostLoop DEF HostInv
<1>6. hit(rq, lines)'
  BY <1>2, <1>3, <1>4, <1>5 DEF hit, writeHit
<1>7. answered /\ ~Clearing => Shows(FromLine)'
  <2> SUFFICES ASSUME answered, ~Clearing PROVE Shows(FromLine)'
    OBVIOUS
  <2>1. Shows(FromLine)
    BY DEF HostInv, AnswerStands
  <2>2. FromLine' = FromLine
    BY <1>2, <1>4, <1>5, HostAddresses DEF FromLine, Clearing
  <2> QED BY <2>1, <2>2 DEF Shows
<1> QED BY <1>1, <1>2, <1>3, <1>6, <1>7, HostServed

\* The word a store that hits writes leaves every line but its own.
LEMMA StoredLines ==
  ASSUME TypeOK, writeHit(rq, lines), NEW w \in Word
  PROVE  LET line == [lines[rq.index] EXCEPT
                        !.data = [lines[rq.index].data EXCEPT ![rq.word] = w]]
         IN  /\ rq \in MemRequest /\ rq.index \in Indexes /\ rq.word \in Words
             /\ in_port[0] = lines /\ in_port[0] \in [Indexes -> Line]
             /\ line \in Line
             /\ writeHit(rq, [lines EXCEPT ![rq.index] = line])
<1>1. rq \in MemRequest
  BY HostLoop DEF writeHit, IsMem
<1>2. rq.index \in Indexes /\ rq.word \in Words
  BY <1>1, RequestAddress
<1>3. lines \in [Indexes -> Line]
  BY HostLoop
<1>4. lines[rq.index] \in Line /\ lines[rq.index].data \in [Words -> Word]
  BY <1>2, <1>3 DEF Line, Data
<1> QED BY <1>1, <1>2, <1>3, <1>4 DEF Line, Data, writeHit, lines

LEMMA HostWriteHit ==
  ASSUME HostInv, WriteHit(0), ~Asked(0), UNCHANGED <<answer_clk, answered>>
  PROVE  HostInv'
<1> DEFINE w == storeData(rq, out_port[0])
           line == [lines[rq.index] EXCEPT
                      !.data = [lines[rq.index].data EXCEPT ![rq.word] = w]]
<1>1. TypeOK'
  BY TypeStep, HostCore DEF Next, Serve, HostInv
<1>2. /\ step = "serve" /\ step' = "eval" /\ writeHit(rq, out_port[0])
      /\ bus_traffic_last' = bus_traffic_last /\ clk' = clk /\ rq' = rq
      /\ stall_last' = stall_last /\ out_port' = out_port
  BY DEF WriteHit, Serving, Advance, coreVars, rq
<1>3. out_port[0] = lines /\ bus_traffic_last = NoCore
  BY <1>2 DEF HostInv, Served, shown
<1>4. writeHit(rq, lines) /\ rq.op = "store" /\ IsMem(rq) /\ rq \in MemRequest
  BY <1>2, <1>3, HostLoop DEF writeHit, IsMem, HostInv
<1>5. w \in Word
  BY <1>4, StoreDataType, HostCore DEF HostInv
<1>6. /\ rq.index \in Indexes /\ lines \in [Indexes -> Line] /\ line \in Line
      /\ writeHit(rq, [lines EXCEPT ![rq.index] = line])
  BY <1>4, <1>5, StoredLines DEF HostInv
<1>7. lines' = [lines EXCEPT ![rq.index] = line]
  <2>1. in_port' = [in_port EXCEPT ![0][rq.index].data[rq.word] = w]
    BY DEF WriteHit, rq
  <2> HIDE DEF w
  <2> QED BY <2>1, HostCore DEF HostInv, TypeOK, lines
<1> HIDE DEF line
<1>8. hit(rq, lines)' /\ hit(rq, shown)'
  BY <1>2, <1>3, <1>4, <1>6, <1>7 DEF hit, writeHit, shown
<1>9. rq.index # Fromhost[2] => Shows(FromLine)' = Shows(FromLine)
  BY <1>6, <1>7, HostAddresses DEF FromLine, Shows
<1>10. answered /\ ~Clearing => Shows(FromLine)'
  BY <1>4, <1>9 DEF Clearing, HostInv, AnswerStands
<1>11. Accesses(rq, "store", Tohost) /\ stall_last[0]
         /\ (answer_clk = 1 \/ clk[0] = 0) => Shows(FromLine)'
  <2> SUFFICES ASSUME Accesses(rq, "store", Tohost), stall_last[0],
                      answer_clk = 1 \/ clk[0] = 0
               PROVE  Shows(FromLine)'
    OBVIOUS
  <2>1. clk[0] # answer_clk
    BY DEF Asked, rq
  <2>2. answer_clk = 1 /\ clk[0] = 0
    BY <2>1, HostLoop DEF HostInv
  <2>3. Shows(FromLine)
    BY <2>2 DEF HostInv, AnswerGiven, Due
  <2>4. rq.index # Fromhost[2]
    BY HostAddresses DEF Accesses
  <2> QED BY <1>9, <2>3, <2>4
<1> QED BY <1>1, <1>2, <1>3, <1>4, <1>8, <1>10, <1>11, HostServed

\* The host's answer shows, and leaves the line of the store it answers.
LEMMA HostAnswers ==
  ASSUME HostInv, HostHit(0), UNCHANGED <<answer_clk, answered>>
  PROVE  HostInv'
<1> DEFINE w == storeData(rq, out_port[0])
           line == [lines[rq.index] EXCEPT
                      !.data = [lines[rq.index].data EXCEPT ![rq.word] = w]]
           stored == [lines EXCEPT ![rq.index] = line]
           f == Fromhost[2]
<1>1. /\ step = "serve" /\ step' = "eval" /\ writeHit(rq, out_port[0])
      /\ bus_traffic_last' = bus_traffic_last /\ clk' = clk /\ req' = req
      /\ stall_last' = stall_last /\ out_port' = out_port
      /\ UNCHANGED <<prosFin_en, reg, arch, memory>>
      /\ Accesses(rq, "store", Tohost)
  BY DEF HostHit, Serving, Advance, coreVars, Asked, rq
<1>2. out_port[0] = lines /\ bus_traffic_last = NoCore
  BY <1>1 DEF HostInv, Served, shown
<1>3. writeHit(rq, lines) /\ rq.op = "store" /\ IsMem(rq) /\ rq \in MemRequest
  BY <1>1, <1>2, HostLoop DEF writeHit, IsMem, HostInv
<1>4. w \in Word
  BY <1>3, StoreDataType, HostCore DEF HostInv
<1>5. /\ rq.index \in Indexes /\ lines \in [Indexes -> Line] /\ line \in Line
      /\ writeHit(rq, [lines EXCEPT ![rq.index] = line])
  BY <1>3, <1>4, StoredLines DEF HostInv
<1>6. f \in Indexes /\ rq.index # f
  BY <1>1, HostAddresses DEF Accesses
<1>7. in_port' = [in_port EXCEPT ![0] = [stored EXCEPT ![f] = Answer(lines[f])]]
  <2>1. in_port' = [in_port EXCEPT ![0][rq.index].data[rq.word] = w,
                                   ![0][f] = Answer(@)]
    BY DEF HostHit, rq
  <2> HIDE DEF w
  <2> QED BY <1>5, <1>6, <2>1, HostCore DEF HostInv, TypeOK, lines
<1> HIDE DEF line
<1>8. lines' = [stored EXCEPT ![f] = Answer(lines[f])]
  BY <1>7, HostCore DEF HostInv, TypeOK, lines
<1>9. Answer(lines[f]) \in Line /\ Shows(Answer(lines[f]))
  BY <1>5, <1>6, AnswerShows
<1>10. TypeOK'
  <2>1. stored \in [Indexes -> Line]
    BY <1>5
  <2>2. in_port' \in [Cores -> [Indexes -> Line]]
    BY <1>6, <1>7, <1>9, <2>1, HostCore DEF HostInv, TypeOK
  <2> QED BY <1>1, <2>2, AdvanceType DEF HostInv, TypeOK, HostHit
<1>11. Shows(FromLine)'
  BY <1>5, <1>6, <1>8, <1>9 DEF FromLine, Shows
<1>12. hit(rq, lines)' /\ hit(rq, shown)'
  BY <1>1, <1>2, <1>3, <1>5, <1>6, <1>8 DEF hit, writeHit, shown, rq
<1> QED BY <1>1, <1>2, <1>3, <1>10, <1>11, <1>12, HostServed DEF rq

LEMMA HostPass ==
  ASSUME HostInv, Pass(0), UNCHANGED <<answer_clk, answered>>
  PROVE  HostInv'
<1>1. TypeOK'
  BY TypeStep, HostCore DEF Next, Serve, HostInv
<1>2. step = "serve" /\ bus_traffic_last = NoCore /\ shown = lines
  BY DEF Pass, HostInv, Served
<1>3. /\ step' = "eval" /\ bus_traffic_last' = NoCore /\ clk' = clk
      /\ rq' = rq /\ stall_last' = stall_last
      /\ lines' = lines /\ shown' = lines
  BY <1>2 DEF Pass, Advance, coreVars, cacheVars, rq, lines, shown
<1>4. IsMem(rq) => readHit(rq, lines)
  BY <1>2 DEF Pass, IsMem, Idle, rq, shown
<1>5. IsMem(rq) => rq.op = "load" /\ hit(rq, lines)' /\ hit(rq, shown)'
  BY <1>3, <1>4 DEF hit, readHit
<1>6. ~Accesses(rq, "store", Tohost)
  BY <1>5 DEF Accesses, IsMem
<1>7. answered /\ ~Clearing => Shows(FromLine)'
  BY <1>3 DEF HostInv, AnswerStands, FromLine, Shows
<1> QED BY <1>1, <1>2, <1>3, <1>5, <1>6, <1>7, HostServed

\* The invariant, one step per action.
LEMMA HostInductive == HostSpec => []HostInv
<1>1. HostInit => HostInv
  <2> SUFFICES ASSUME HostInit PROVE HostInv
    OBVIOUS
  <2>1. TypeOK
    BY TypeInit DEF HostInit
  <2>2. /\ rq = Idle /\ ~stall_last[0] /\ step = "eval"
        /\ bus_traffic_last = NoCore
    BY HostCore DEF HostInit, Init, rq
  <2>3. Served /\ LoadsFresh /\ InProgram
    BY <2>2 DEF Served, LoadsFresh, IsMem, Idle, InProgram
  <2> QED BY <2>1, <2>2, <2>3
          DEF HostInit, HostInv, AnswerGiven, AnswerStands
<1>2. HostInv /\ [HostNext]_hostVars => HostInv'
  <2> SUFFICES ASSUME HostInv, [HostNext]_hostVars PROVE HostInv'
    OBVIOUS
  <2>1. CASE OwnerTurn /\ Note
    BY <2>1, HostOwnerTurn
  <2>2. CASE Turn /\ Note
    BY <2>2, HostTurn
  <2>3. CASE HostServe(0)
    BY <2>3, HostReadMiss, HostWriteMiss, HostWriteHit, HostAnswers, HostPass
       DEF HostServe
  <2>4. CASE UNCHANGED hostVars
    <3>1. TypeOK'
      BY <2>4, TypeStep DEF hostVars, HostInv
    <3> QED BY <2>4, <3>1
            DEF hostVars, vars, busVars, coreVars, cacheVars, HostInv, Served,
                Settled, LoadsFresh, InProgram, AnswerGiven, AnswerStands,
                Accesses, Due, Clearing, Shows, FromLine, IsMem, hit, readHit,
                writeHit, rq, lines, shown
  <2> QED BY <2>1, <2>2, <2>3, <2>4, HostCore DEF HostNext
<1> QED BY <1>1, <1>2, PTL DEF HostSpec

\* A step clocks the core or serves it.
LEMMA EvalOrServe ==
  ASSUME HostInv, HostNext
  PROVE  (step = "eval" /\ Eval(0)) \/ (\E c \in Cores : HostServe(c))
<1>1. loop_i = 0 /\ prosFin_en \subseteq {0}
  BY HostLoop, HostCore DEF HostInv, TypeOK
<1>2. CASE OwnerTurn
  BY <1>2, HostCore DEF OwnerTurn, HostInv, TypeOK
<1>3. CASE Turn
  BY <1>1, <1>3, HostCore DEF Turn, AllFinished
<1> QED BY <1>2, <1>3 DEF HostNext

\* Every poll of fromhost after a store to tohost has left the pipeline, and
\* until the program clears it, returns the host's answer
\* (sim_coremark/sim_main.cpp:740-751).
THEOREM PollLoopSeesAnswer == HostSpec => PollSeesAnswer
<1>1. HostInv /\ [HostNext]_hostVars =>
        [Leaves /\ answered /\ Accesses(req[0], "load", Fromhost)
           => reg'[0] = [b \in Bytes |-> Answered]]_hostVars
  <2> SUFFICES ASSUME HostInv, HostNext, Leaves, answered,
                      Accesses(rq, "load", Fromhost)
               PROVE  reg'[0] = [b \in Bytes |-> Answered]
    BY DEF rq
  <2>1. step = "eval" /\ Eval(0)
    <3>1. ASSUME NEW c \in Cores PROVE ~HostServe(c)
      BY DEF HostServe, ReadMiss, WriteMiss, WriteHit, HostHit, Pass, Granted,
             Serving, Leaves
    <3> QED BY <3>1, EvalOrServe
  <2>2. Retire(0) /\ clk[0] = 0
    BY <2>1 DEF Eval, Leaves
  <2>3. rq.op = "load" /\ rq.index = Fromhost[2] /\ rq.word = Fromhost[3]
    BY DEF Accesses
  <2>4. shown = lines /\ Shows(FromLine)
    BY <2>2, <2>3 DEF HostInv, LoadsFresh, AnswerStands, Clearing
  <2>5. reg'[0] = loadData(rq, shown)
    BY <2>2, <2>3, HostCore DEF Retire, HostInv, TypeOK, rq, shown
  <2> QED BY <2>3, <2>4, <2>5 DEF loadData, Shows, FromLine
<1> QED BY <1>1, HostInductive, PTL DEF HostSpec, PollSeesAnswer

-----------------------------------------------------------------------------
(***************************************************************************)
(* The other data.  An answer shares a line with a word memory does not    *)
(* hold, so that Clean fails; but what the program itself stores there is  *)
(* the cleared flag, which memory has held from the start.                 *)
(***************************************************************************)
FromAddr == <<Fromhost[1], Fromhost[2]>>
Cleared == [w \in Words |-> [b \in Bytes |-> InitVal]]

FlagKept ==
  /\ FromLine.valid = Modified => FromLine.tag = Fromhost[1]
  /\ memory[FromAddr] = Cleared /\ arch[FromAddr] = Cleared

HostData == CoreInv /\ FlagKept

LEMMA HostOne == OneCore
BY HostAssumption DEF OneCore

LEMMA FromAddrIs == FromAddr \in LineAddr /\ FromAddr[1] = Fromhost[1] /\ FromAddr[2] = Fromhost[2]
BY HostAddresses DEF FromAddr, LineAddr

\* A step that changes neither the lines nor memory keeps the flag: a store to
\* fromhost's line that leaves has stored the cleared flag.
LEMMA FlagEval ==
  ASSUME HostInv, HostData, step = "eval", Eval(0)
  PROVE  FlagKept'
<1>1. lines' = lines /\ memory' = memory
  BY HostEval DEF Eval
<1>2. FromLine' = FromLine
  BY <1>1 DEF FromLine
<1>3. arch'[FromAddr] = Cleared
  <2>1. CASE arch' = arch
    BY <2>1 DEF HostData, FlagKept
  <2>2. CASE Retire(0) /\ rq.op = "store"
    <3> DEFINE at == <<rq.tag, rq.index>>
               stored == [arch[at] EXCEPT ![rq.word] = Merge(rq, arch[at][rq.word])]
    <3>1. arch' = [arch EXCEPT ![at] = stored]
      <4>1. arch' = [arch EXCEPT ![<<req[0].tag, req[0].index>>][req[0].word] =
                                    Merge(req[0], @)]
        BY <2>2 DEF Retire, rq
      <4> QED BY <4>1 DEF rq
    <3>2. arch \in [LineAddr -> Data]
      BY DEF HostInv, TypeOK
    <3>3. CASE at # FromAddr
      BY <3>1, <3>2, <3>3, FromAddrIs DEF HostData, FlagKept
    <3>4. CASE at = FromAddr
      <4>1. rq.val = InitVal
        <5>1. rq.index = Fromhost[2]
          BY <3>4 DEF FromAddr
        <5>2. rq \in Programs[0]
          BY <2>2 DEF HostInv, InProgram, Idle
        <5> QED BY <2>2, <5>1, <5>2, FromhostAssumption, HostCore
      <4>2. rq.word \in Words
        BY <2>2, HostLoop DEF HostInv, IsMem, MemRequest
      <4>3. arch[at] = Cleared
        BY <3>4 DEF HostData, FlagKept
      <4>4. Merge(rq, Cleared[rq.word]) = [b \in Bytes |-> InitVal]
        <5>1. Cleared[rq.word] = [b \in Bytes |-> InitVal]
          BY <4>2 DEF Cleared
        <5> QED BY <4>1, <5>1 DEF Merge
      <4>5. stored = Cleared
        BY <4>2, <4>3, <4>4 DEF Cleared
      <4> HIDE DEF stored
      <4> QED BY <3>1, <3>2, <3>4, <4>5, FromAddrIs
    <3> QED BY <3>3, <3>4
  <2> QED BY <2>1, <2>2 DEF Eval, Retire, Hold, rq
<1> QED BY <1>1, <1>2, <1>3 DEF HostData, FlagKept

\* A fill at fromhost's index is fromhost's line, which displaces no other.
LEMMA FlagFill ==
  ASSUME WholeWords, HostInv, HostData, step = "serve", IsMem(rq),
         memory' = WrittenBack(0, rq), arch' = arch,
         NEW fill, fill.tag = rq.tag, lines' = [lines EXCEPT ![rq.index] = fill]
  PROVE  FlagKept'
<1>1. rq \in MemRequest /\ lines \in [Indexes -> Line]
  BY HostLoop DEF HostInv
<1>2. rq.index \in Indexes
  BY <1>1, RequestAddress
<1>3. memory'[FromAddr] =
        IF /\ lines[rq.index].tag # rq.tag /\ lines[rq.index].valid = Modified
           /\ FromAddr = <<lines[rq.index].tag, rq.index>>
        THEN lines[rq.index].data ELSE memory[FromAddr]
  BY <1>1, Displaced, HostOne, FromAddrIs DEF HostData
<1>4. CASE rq.index = Fromhost[2]
  <2>1. rq.tag = Fromhost[1]
    BY <1>4, FromhostOnly DEF HostInv
  <2>2. memory'[FromAddr] = memory[FromAddr]
    BY <1>3, <2>1 DEF FromAddr
  <2>3. FromLine'.tag = Fromhost[1]
    BY <1>1, <1>2, <1>4, <2>1 DEF FromLine
  <2> QED BY <2>2, <2>3 DEF HostData, FlagKept
<1>5. CASE rq.index # Fromhost[2]
  <2>1. memory'[FromAddr] = memory[FromAddr]
    BY <1>3, <1>5 DEF FromAddr
  <2>2. FromLine' = FromLine
    BY <1>1, <1>2, <1>5, HostAddresses DEF FromLine
  <2> QED BY <2>1, <2>2 DEF HostData, FlagKept
<1> QED BY <1>4, <1>5

\* A store that hits leaves the tags and the states.
LEMMA FlagHit ==
  ASSUME HostInv, HostData, WriteHit(0)
  PROVE  FlagKept'
<1>1. in_port' = [in_port EXCEPT ![0][rq.index].data[rq.word] = storeData(rq, out_port[0])]
      /\ memory' = memory /\ arch' = arch
  BY DEF WriteHit, coreVars, rq
<1>2. lines[Fromhost[2]] \in Line
  BY HostLoop, HostAddresses DEF HostInv
<1>3. in_port \in [Cores -> [Indexes -> Line]]
  BY DEF HostInv, TypeOK
<1>4. FromLine'.tag = FromLine.tag /\ FromLine'.valid = FromLine.valid
  BY <1>1, <1>2, <1>3, HostCore, HostAddresses DEF FromLine, lines, Line
<1> QED BY <1>1, <1>4 DEF HostData, FlagKept

\* An answer puts fromhost's line where no byte of the program's is only cached.
LEMMA HostAnswerData ==
  ASSUME WholeWords, HostInv, HostInv', HostData, HostHit(0)
  PROVE  HostData'
<1> DEFINE f == Fromhost[2]
           k == rq.index
<1>1. /\ step = "serve" /\ step' = "eval" /\ writeHit(rq, out_port[0])
      /\ clk' = clk /\ rq' = rq /\ stall_last' = stall_last
      /\ arch' = arch /\ memory' = memory
      /\ Accesses(rq, "store", Tohost)
      /\ in_port' = [in_port EXCEPT ![0][k].data[rq.word] = storeData(rq, out_port[0]),
                                    ![0][f] = Answer(@)]
  BY DEF HostHit, Serving, Advance, coreVars, Asked, rq
<1>2. out_port[0] = lines
  BY <1>1 DEF HostInv, Served, shown
<1>3. writeHit(rq, lines) /\ rq.op = "store" /\ rq \in MemRequest
  BY <1>1, <1>2, HostLoop DEF writeHit, IsMem, HostInv
<1>4. k \in Indexes /\ rq.word \in Words /\ f \in Indexes /\ k # f
  BY <1>1, <1>3, RequestAddress, HostAddresses DEF Accesses
<1>5. lines \in [Indexes -> Line]
  BY HostLoop DEF HostInv
<1>6. storeData(rq, out_port[0]) = Merge(rq, Addressed)
  BY <1>2, <1>3 DEF storeData, loadData, Addressed
<1>7. /\ lines'[k] = StoredLine /\ lines'[f] = Answer(lines[f])
      /\ \A i \in Indexes \ {k, f} : lines'[i] = lines[i]
  <2> DEFINE w == Merge(rq, Addressed)
  <2>1. StoredLine = [lines[k] EXCEPT !.data = [lines[k].data EXCEPT ![rq.word] = w]]
    BY DEF StoredLine
  <2>2. in_port' = [in_port EXCEPT ![0][k].data[rq.word] = w, ![0][f] = Answer(@)]
    BY <1>1, <1>6
  <2> HIDE DEF w
  <2> QED BY <1>4, <1>5, <2>1, <2>2, HostCore DEF HostInv, TypeOK, lines
<1>8. /\ StoredLine.data = [lines[k].data EXCEPT ![rq.word] = Merge(rq, Addressed)]
      /\ lines[k].data \in [Words -> Word]
  BY <1>3, <1>5, StoredLineType DEF HostInv
<1>9. Answer(lines[f]).tag = Fromhost[1] /\ Answer(lines[f]).valid = Shared
  BY <1>4, <1>5 DEF Answer, Line
<1>10. FlagKept'
  BY <1>1, <1>7, <1>9 DEF HostData, FlagKept, FromLine
<1>11. Written'
  <2>1. Addressed' = Merge(rq, Addressed)
    BY <1>1, <1>4, <1>7, <1>8 DEF Addressed
  <2>2. Merge(rq, Addressed)' = Merge(rq, Merge(rq, Addressed))
    BY <1>1, <2>1 DEF Merge
  <2> QED BY <2>1, <2>2, MergeTwice DEF Written
<1>12. FullStore'
  BY <1>1 DEF HostData, CoreInv, FullStore
<1>13. Kept'
  <2> SUFFICES ASSUME NEW a \in LineAddr, NEW w \in Words, NEW b \in Bytes,
                      ~Storing(0, a, w, b)'
               PROVE  Home(a)'[w][b] = arch'[a][w][b]
    BY DEF Kept
  <2>1. ~Storing(0, a, w, b)
    BY <1>1 DEF Storing, rq
  <2>2. a[2] \in Indexes /\ a = <<a[1], a[2]>>
    BY DEF LineAddr
  <2>3. CASE a[2] # f
    <3>1. lines'[a[2]] = IF a[2] = rq.index THEN StoredLine ELSE lines[a[2]]
      BY <1>7, <2>2, <2>3
    <3> QED BY <1>1, <1>3, <2>1, <3>1, StoreKeeps, HostOne DEF HostData
  <2>4. CASE a[2] = f
    <3>1. Home(a)' = memory[a]
      BY <1>1, <1>7, <1>9, <2>4 DEF Home, Shared, Modified
    <3>2. CASE a[1] = Fromhost[1]
      <4>1. a = FromAddr
        BY <2>2, <2>4, <3>2 DEF FromAddr
      <4> QED BY <1>1, <3>1, <4>1 DEF HostData, FlagKept
    <3>3. CASE a[1] # Fromhost[1]
      <4>1. Home(a) = memory[a]
        BY <2>4, <3>3 DEF Home, HostData, FlagKept, FromLine
      <4> QED BY <1>1, <2>1, <3>1, <4>1 DEF HostData, CoreInv, Kept
    <3> QED BY <3>2, <3>3
  <2> QED BY <2>3, <2>4
<1> QED BY <1>10, <1>11, <1>12, <1>13 DEF HostInv, HostData, CoreInv

LEMMA HostDataInductive ==
  ASSUME WholeWords
  PROVE  HostSpec => []HostData
<1>1. HostInit => HostData
  <2> SUFFICES ASSUME HostInit PROVE HostData
    OBVIOUS
  <2>1. Init
    BY DEF HostInit
  <2>2. CoreInv
    BY <2>1, OneInit, HostOne DEF OneInv
  <2>3. FromLine.valid = Invalid
    BY <2>1, HostCore, HostAddresses DEF Init, FromLine, lines
  <2>4. memory[FromAddr] = Cleared /\ arch[FromAddr] = Cleared
    BY <2>1, FromAddrIs DEF Init, Cleared
  <2> QED BY <2>2, <2>3, <2>4 DEF HostData, FlagKept, Invalid, Modified
<1>2. HostInv /\ HostInv' /\ HostData /\ [HostNext]_hostVars => HostData'
  <2> SUFFICES ASSUME HostInv, HostInv', HostData, [HostNext]_hostVars PROVE HostData'
    OBVIOUS
  <2>1. CASE OwnerTurn /\ Note
    <3>1. step = "eval" /\ Eval(0)
      BY <2>1, HostCore DEF OwnerTurn, HostInv, TypeOK
    <3> QED BY <2>1, <3>1, FlagEval, OwnerTurnOne, HostOne DEF HostData
  <2>2. CASE Turn /\ Note
    <3>1. step = "eval" /\ Eval(0)
      <4>1. loop_i = 0 /\ prosFin_en \subseteq {0}
        BY HostLoop, HostCore DEF HostInv, TypeOK
      <4> QED BY <2>2, <4>1, HostCore DEF Turn, AllFinished
    <3> QED BY <2>2, <3>1, FlagEval, TurnOne, HostOne DEF HostData
  <2>3. CASE ReadMiss(0)
    <3>1. step = "serve" /\ IsMem(rq) /\ arch' = arch /\ memory' = WrittenBack(0, rq)
      BY <2>3 DEF ReadMiss, Granted, Serving, coreVars, IsMem, rq
    <3>2. lines' = [lines EXCEPT ![rq.index] =
             [tag |-> rq.tag, valid |-> Shared,
              data |-> WrittenBack(0, rq)[<<rq.tag, rq.index>>]]]
      BY <2>3, HostCore DEF ReadMiss, lines, rq
    <3> QED BY <2>3, <3>1, <3>2, FlagFill, ReadMissOne, HostOne DEF HostData
  <2>4. CASE WriteMiss(0)
    <3>1. step = "serve" /\ IsMem(rq) /\ arch' = arch /\ memory' = WrittenBack(0, rq)
      BY <2>4 DEF WriteMiss, Granted, Serving, coreVars, IsMem, rq
    <3>2. lines' = [lines EXCEPT ![rq.index] =
             [tag |-> rq.tag, valid |-> Modified,
              data |-> [WrittenBack(0, rq)[<<rq.tag, rq.index>>] EXCEPT
                          ![rq.word] = storeData(rq, out_port[0])]]]
      BY <2>4, HostCore DEF WriteMiss, lines, rq
    <3> QED BY <2>4, <3>1, <3>2, FlagFill, WriteMissOne, HostOne DEF HostData
  <2>5. CASE WriteHit(0)
    BY <2>5, FlagHit, WriteHitOne, HostOne DEF HostData
  <2>6. CASE HostHit(0)
    BY <2>6, HostAnswerData
  <2>7. CASE Pass(0)
    <3>1. step = "serve" /\ bus_traffic_last = NoCore
      BY <2>7 DEF Pass, HostInv, Served
    <3>2. IsMem(rq) => readHit(rq, shown)
      BY <2>7, <3>1 DEF Pass, IsMem, Idle, rq, shown
    <3>3. CoreInv'
      BY <2>7, <3>1, <3>2, NothingOne, HostOne DEF HostInv, HostData, Pass
    <3> QED BY <2>7, <3>3 DEF Pass, cacheVars, coreVars, HostData, FlagKept, FromLine, lines
  <2>8. CASE UNCHANGED hostVars
    <3>1. UNCHANGED vars
      BY <2>8 DEF hostVars
    <3>2. CoreInv'
      BY <3>1, OneStutter, HostOne DEF HostData
    <3> QED BY <3>1, <3>2 DEF vars, cacheVars, coreVars, HostData, FlagKept, FromLine, lines
  <2> QED BY <2>1, <2>2, <2>3, <2>4, <2>5, <2>6, <2>7, <2>8, HostCore
          DEF HostNext, HostServe
<1> QED BY <1>1, <1>2, HostInductive, PTL DEF HostSpec

\* The answers lose no store of the program: what it stores is in its cache or in
\* memory, although an answer overwrites a line without a write back
\* (sim_coremark/sim_main.cpp:745-751).
THEOREM HostLosesNoStore ==
  ASSUME WholeWords
  PROVE  HostSpec => []NoLostStore
<1>1. HostData => NoLostStore
  BY CoreLosesNoStore, HostOne DEF HostData
<1> QED BY <1>1, HostDataInductive, PTL

\* With the answers, too, a load that waits keeps its address
\* (controller.sv:216-229), for every program.
THEOREM HostKeepsAddresses == HostSpec => AddressStands
<1>1. HostInv /\ [HostNext]_hostVars => [\A c \in Cores : stall(c) => req'[c] = req[c]]_vars
  <2> SUFFICES ASSUME HostInv, HostNext, stall(0) PROVE req'[0] = req[0]
    BY HostCore DEF hostVars
  <2>1. CASE step = "eval" /\ Eval(0)
    BY <2>1, HostEval DEF rq
  <2>2. CASE \E c \in Cores : HostServe(c)
    BY <2>2 DEF HostServe, ReadMiss, WriteMiss, WriteHit, HostHit, Pass, Granted, coreVars
  <2> QED BY <2>1, <2>2, EvalOrServe
<1> QED BY <1>1, HostInductive, PTL DEF HostSpec, AddressStands
=============================================================================
