---------------------------- MODULE AtomicMemory ----------------------------
(***************************************************************************)
(* What the cores of the multicore simulator are promised by their caches, *)
(* the bus and the backing memory together: one memory, whose word a load  *)
(* returns and a store updates in a single step.                           *)
(***************************************************************************)
EXTENDS Integers

CONSTANTS
  Tags, Indexes,  \* a line's address is <<tag, index>>
  Words, Bytes,   \* words of a line, byte lanes of a word
  InitVal,        \* what a byte holds at the start
  Programs,       \* Programs[c]: the memory instructions core c may execute
  Idle            \* an instruction that does not access memory

VARIABLES
  mem,  \* mem[<<tag, index>>][word][byte]
  req,  \* each core's instruction
  reg   \* what each core's last load returned

Init ==
  LET blank == [b \in Bytes |-> InitVal]
  IN  /\ mem = [a \in Tags \X Indexes |-> [w \in Words |-> blank]]
      /\ req = [c \in DOMAIN Programs |-> Idle]
      /\ reg = [c \in DOMAIN Programs |-> blank]

\* The line and the word that core c's instruction addresses.
LineOf(c) == <<req[c].tag, req[c].index>>

Load(c) ==
  /\ req[c].op = "load"
  /\ reg' = [reg EXCEPT ![c] = mem[LineOf(c)][req[c].word]]
  /\ UNCHANGED mem

Store(c) ==
  /\ req[c].op = "store"
  /\ mem' = [mem EXCEPT ![LineOf(c)][req[c].word] =
               [b \in Bytes |-> IF b \in req[c].bytes THEN req[c].val ELSE @[b]]]
  /\ UNCHANGED reg

NoAccess(c) == req[c] = Idle /\ UNCHANGED <<mem, reg>>

\* Core c executes its instruction and moves to the program's next one.
Execute(c) ==
  /\ Load(c) \/ Store(c) \/ NoAccess(c)
  /\ \E r \in Programs[c] \cup {Idle} : req' = [req EXCEPT ![c] = r]

Next == \E c \in DOMAIN Programs : Execute(c)

Spec == Init /\ [][Next]_<<mem, req, reg>>
=============================================================================
