----------------------------- MODULE MCMachine ------------------------------
(***************************************************************************)
(* Instances of Machine for TLC: the kernel under a user who sets up any   *)
(* system call, and code in machine mode that hashes and calls the host.   *)
(***************************************************************************)
EXTENDS Machine

UserWord == ZERO_PAGE_END_WORD

Lis(rd, values) == {Li(rd, v) : v \in values}

\* A system call with arguments good and bad, and then an exit.
MCUserCode ==
  [w \in UserWord .. UserWord + 6 |->
     CASE w = UserWord     -> Lis(REG_A0, {0, 1})
       [] w = UserWord + 1 -> Lis(REG_A1, {4 * UserWord, 4 * UserWord + 1, 4 * KERNEL_START_WORD - 4, U32 - 4})
       [] w = UserWord + 2 -> Lis(REG_A2, {4, 16, 20})
       [] w = UserWord + 3 -> Lis(REG_A7, {SYS_READ, SYS_WRITE, MAX_ECALL})
       [] w = UserWord + 4 -> {Ecall}
       [] w = UserWord + 5 -> {Li(REG_A7, SYS_EXIT), Jump(0), Mret}
       [] OTHER            -> {Ecall}]

MCUserEntry == 4 * UserWord

\* Machine code that makes any machine ecall, or one of the things the circuit
\* does not follow, and user code that traps or works.
MCRawCode ==
  [w \in (UserWord .. UserWord + 1) \cup (KERNEL_START_WORD .. KERNEL_START_WORD + 2) |->
     CASE w = KERNEL_START_WORD     -> Lis(REG_A7, 0 .. 4) \cup {Mret, Lw(REG_T0, UserWord)}
       [] w = KERNEL_START_WORD + 1 -> {Ecall, Ebreak, Wfi, Sw(REG_T0, 0), Jump(UserWord)}
       [] w = KERNEL_START_WORD + 2 -> {Li(REG_A7, HOST_ECALL_TERMINATE), Mret}
       [] w = UserWord     -> {Lw(REG_T0, UserWord + 2), Sw(REG_T0, KERNEL_START_WORD), Ecall,
                               Ebreak, I("lw", REG_T0, REG_ZERO, REG_ZERO, 6),
                               I("sw", REG_ZERO, REG_ZERO, REG_T0, 6),
                               I("jalr", REG_T0, REG_ZERO, REG_ZERO, 2),
                               I("any", REG_ZERO, REG_A0, REG_A0, 0)}
       [] OTHER -> {Illegal, Jump(KERNEL_START_WORD)}]

Bits == {0, 1, 2, PFLAG_IS_ELEM + 2, PFLAG_CHECK_OUT + 1, 2 * PFLAG_IS_ELEM + 1}

\* What the host ecalls and the hash ecall take from a0 to a3.
MCRawRegs ==
  {[r \in 0 .. REGS - 1 |-> CASE r = REG_A0 -> args[1] [] r = REG_A1 -> args[2]
                              [] r = REG_A2 -> args[3] [] r = REG_A3 -> bits [] OTHER -> 0] :
     args \in {<<0, 4 * UserWord, 16>>, <<4 * UserWord + 8, 4 * UserWord, 4>>,
               <<0, 4 * UserWord + 1, 12>>},
     bits \in Bits}

\* Raw code is of interest for the rows it makes, until there are none.
RawInStep == guest = "raw" => gap = ""

MCMaxSegments == [g \in {"kernel", "raw"} |-> IF g = "kernel" THEN 2 ELSE 1]
\* Blocks of none to four words, some with bytes left over.
MCAnswers == {0, 1, 4, 6, 8, 11, 12, 16}

MCValues == {0}
MCPageSets == {{0}}
=============================================================================
