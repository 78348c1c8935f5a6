------------------------------- MODULE MCCsr -------------------------------
(***************************************************************************)
(* A program for model checking Csr: a user program, compressed and not,   *)
(* that calls, loads, divides and does what is illegal; code that installs *)
(* the handler; and a handler that returns where it likes.                 *)
(***************************************************************************)
EXTENDS Csr, TLC

Reset == {}
Install == {2}
User == {3}
Handler == {2, 3}
Return == {4}

TheVectors == {Reset, Handler}

Plain == [rvc |-> FALSE, op |-> "other", call |-> "none", funct |-> 0,
          csr_addr |-> "none", rs1_zero |-> FALSE, wdata |-> {}, illegal |-> FALSE]

Access(f, r, w) ==
  [Plain EXCEPT !.op = "system", !.funct = f, !.csr_addr = r, !.wdata = w]
Read(r) == [Access(2, r, {}) EXCEPT !.rs1_zero = TRUE]
Calls == {[Plain EXCEPT !.op = "system", !.call = c] : c \in {"ecall", "mret"}}

\* Bits 31:20 of an instruction that is none of the CSR instructions.
StrayInto(i, r) == [i EXCEPT !.csr_addr = r]

\* funct3 of an addi, a load or a compressed instruction may be that of a csrrw,
\* csrrs or csrrc.  The code at Reset enables the floating point, and the
\* handler asks for the machine level, as crt.S:51 and 181 do.
TheCode ==
  Reset :> {Plain, Access(1, "mtvec", Handler \cup {0}), Access(2, "mstatus", {13}),
            [Plain EXCEPT !.illegal = TRUE]} @@
  Install :> {Access(1, "mtvec", {}), Access(2, "mstatus", {3, 12}),
              [Plain EXCEPT !.rvc = TRUE, !.op = "jump"]} @@
  User :> Calls \cup
          {[Plain EXCEPT !.rvc = TRUE, !.funct = 3],
           [Plain EXCEPT !.op = "branch", !.funct = 1],
           [Plain EXCEPT !.rvc = TRUE, !.op = "memory", !.funct = 2],
           [Plain EXCEPT !.op = "muldiv"],
           [Plain EXCEPT !.op = "system", !.illegal = TRUE],
           [Plain EXCEPT !.op = "system", !.call = "ecall", !.illegal = TRUE],
           StrayInto([Plain EXCEPT !.op = "memory", !.funct = 2, !.wdata = {11}],
                     "mstatus"),
           StrayInto([Plain EXCEPT !.rvc = TRUE, !.wdata = {31}], "mcause"),
           StrayInto([Plain EXCEPT !.illegal = TRUE, !.funct = 3, !.wdata = {3}],
                     "mstatus"),
           Access(1, "mstatus", {3, 7, 11, 17}), Access(1, "mcause", {1, 5, 31})} @@
  Handler :> {Access(1, "mepc", Return \cup {0}), Access(1, "mepc", User),
              Access(2, "mstatus", MPP_BITS), Access(3, "mstatus", {7}),
              Read("mcause"), Read("mepc")} @@
  Return :> {[Plain EXCEPT !.op = "system", !.call = "mret"],
             Access(3, "mcause", {1})}

\* The same program, none of whose instructions strays into a register.
NoStrays == [p \in DOMAIN TheCode |-> {i \in TheCode[p] : ~Strays(i)}]

TheAfter == [p \in {Reset, Install, User, Handler, Return} |->
  CASE p = Reset -> {Install}
    [] p = Install -> {User}
    [] p = User -> {User, Return}
    [] p = Handler -> {Handler, Return}
    [] p = Return -> {User}]
=============================================================================
