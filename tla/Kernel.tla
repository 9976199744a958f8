------------------------------- MODULE Kernel -------------------------------
(***************************************************************************)
(* The kernel (kernel/kernel.cpp, kernel/entry.s) compiled by hand for the *)
(* model's instructions: start sets up the user's stack and the dispatch   *)
(* table and jumps to the user; a wrapper for each system call reads the   *)
(* user's registers, checks the arguments, calls the host, stores the      *)
(* result in the user's a0 and returns.                                    *)
(***************************************************************************)
EXTENDS Platform

I(op, rd, rs1, rs2, imm) == [op |-> op, rd |-> rd, rs1 |-> rs1, rs2 |-> rs2, imm |-> imm]

Li(rd, imm)           == I("li", rd, REG_ZERO, REG_ZERO, imm)
Lw(rd, word)          == I("lw", rd, REG_ZERO, REG_ZERO, 4 * word)
Sw(rs2, word)         == I("sw", REG_ZERO, REG_ZERO, rs2, 4 * word)
Jump(word)            == I("jalr", REG_ZERO, REG_ZERO, REG_ZERO, 4 * word)
Branch(op, rs1, rs2, n) == I(op, REG_ZERO, rs1, rs2, 4 * n)
Ecall                 == I("ecall", REG_ZERO, REG_ZERO, REG_ZERO, 0)
Illegal               == I("illegal", REG_ZERO, REG_ZERO, REG_ZERO, 0)
Ebreak                == I("ebreak", REG_ZERO, REG_ZERO, REG_ZERO, 0)
Wfi                   == I("wfi", REG_ZERO, REG_ZERO, REG_ZERO, 0)
Mret                  == I("mret", REG_ZERO, REG_ZERO, REG_ZERO, 0)

GetUreg(rd, r)  == Lw(rd, USER_REGS_WORD + r)
SetUreg(r, rs2) == Sw(rs2, USER_REGS_WORD + r)

EBADF  == 9
EFAULT == 14
EINVAL == 22
Error(e) == U32 - e

USER_START_ADDR == 4 * ZERO_PAGE_END_WORD
USER_END_ADDR   == 4 * KERNEL_START_WORD

\* The numbers of read, write and exit in SYS_CALL_LIST, 63, 64 and 93, anew.
SYS_READ  == 1
SYS_WRITE == 2
SYS_EXIT  == 3

StartWord == KERNEL_START_WORD
ReadWord  == StartWord + 9
WriteWord == ReadWord + 22
ExitWord  == WriteWord + 22

SetEntry(id, word) == <<Li(REG_T0, 4 * word), Sw(REG_T0, ECALL_DISPATCH_WORD + id)>>

Start ==
  <<Li(REG_T0, USER_END_ADDR - 4), SetUreg(REG_SP, REG_T0)>>
    \o SetEntry(SYS_READ, ReadWord) \o SetEntry(SYS_WRITE, WriteWord)
    \o SetEntry(SYS_EXIT, ExitWord) \o <<Mret>>

UserArgs == <<GetUreg(REG_A0, REG_A0), GetUreg(REG_A1, REG_A1), GetUreg(REG_A2, REG_A2)>>

CheckFd(fd) == <<Li(REG_T0, fd), Branch("bne", REG_A0, REG_T0, 12)>>

CheckWrap == <<I("add", REG_T0, REG_A1, REG_A2, 0), Branch("bltu", REG_T0, REG_A1, 12)>>

\* Mutant: only the start of the buffer is checked.
CheckRangeStart == <<Li(REG_A3, USER_START_ADDR), Branch("bltu", REG_A1, REG_A3, 12),
                     Li(REG_A3, USER_END_ADDR), Li(REG_A3, 0)>>

CheckRange == <<Li(REG_A3, USER_START_ADDR), Branch("bltu", REG_A1, REG_A3, 12),
                Li(REG_A3, USER_END_ADDR), Branch("bgeu", REG_T0, REG_A3, 10)>>

HostCall(fd, number) ==
  <<Li(REG_A0, fd), Li(REG_A7, number), Ecall, SetUreg(REG_A0, REG_A0), Mret>>

\* Mutant: an error returns to where the errors are.
ErrorsLoop(at) ==
  <<Li(REG_A0, Error(EBADF)),  Jump(at + 16),
    Li(REG_A0, Error(EINVAL)), Jump(at + 16),
    Li(REG_A0, Error(EFAULT)), Jump(at + 16)>>

\* The error becomes the result, 14 words after the wrapper's start.
Errors(at) ==
  <<Li(REG_A0, Error(EBADF)),  Jump(at + 14),
    Li(REG_A0, Error(EINVAL)), Jump(at + 14),
    Li(REG_A0, Error(EFAULT)), Jump(at + 14)>>

\* sys_read and sys_write with their wrappers, placed at a word: the same
\* checks, in the order of the source, with another descriptor and host call.
SysReadWrite(at, fd, number) ==
  UserArgs \o CheckFd(fd) \o CheckWrap \o CheckRange \o HostCall(fd, number) \o Errors(at)

SysExit == <<GetUreg(REG_A0, REG_A0), Li(REG_A7, HOST_ECALL_TERMINATE), Ecall,
             Li(REG_A0, 0), SetUreg(REG_A0, REG_A0), Mret>>

Program == Start \o SysReadWrite(ReadWord, 0, HOST_ECALL_READ)
                 \o SysReadWrite(WriteWord, 1, HOST_ECALL_WRITE) \o SysExit

Text == [w \in StartWord .. StartWord + Len(Program) - 1 |-> Program[w - StartWord + 1]]

\* loadWithKernel: the kernel is entered in machine mode, and finds in MEPC the
\* word before the user's entry point.
KernelImage(userEntry) ==
  [w \in MACHINE_REGS_WORD .. MEMORY_SIZE_WORDS - 1 |->
     CASE w = MEPC_WORD         -> userEntry - 4
       [] w = SUSPEND_PC_WORD   -> 4 * StartWord
       [] w = SUSPEND_MODE_WORD -> 1
       [] OTHER                 -> 0]

\* loadRaw: any code is entered in machine mode.
RawImage(code, mregs, trapEntry) ==
  [w \in MACHINE_REGS_WORD .. MEMORY_SIZE_WORDS - 1 |->
     CASE w = SUSPEND_PC_WORD   -> code
       [] w = SUSPEND_MODE_WORD -> 1
       [] w \in MACHINE_REGS_WORD .. MACHINE_REGS_WORD + REGS - 1 -> mregs[w - MACHINE_REGS_WORD]
       [] w >= TRAP_DISPATCH_WORD -> trapEntry
       [] OTHER                 -> 0]
=============================================================================
