------------------------------ MODULE Platform ------------------------------
(***************************************************************************)
(* The memory map and the states of the rv32im-v2 machine, as its emulator *)
(* (platform/constants.h) and its circuit (dsl/consts.zir) both know them. *)
(* The regions keep their order; their sizes are constants.                *)
(***************************************************************************)
EXTENDS Integers, Sequences

CONSTANTS
  ZERO_PAGE_END_WORD, KERNEL_START_WORD, KERNEL_END_WORD,
  REGS,              \* 32 registers in a bank
  MAX_ECALL,         \* 512 entries in the ecall dispatch table
  DIGEST_WORDS,      \* 8
  BLOCKS,            \* blocks hashed for a page: 32
  HALF_ROUNDS,       \* external rounds before and after the internal ones: 4
  PAGES,             \* MEMORY_SIZE_PAGES, 2^22
  COUNT_RANGE        \* 2^16, the range of a Poseidon2 ecall's block count

ASSUME PlatformAssumption ==
  /\ {ZERO_PAGE_END_WORD, KERNEL_START_WORD, KERNEL_END_WORD} \subseteq Nat
  /\ 0 < ZERO_PAGE_END_WORD
  /\ ZERO_PAGE_END_WORD < KERNEL_START_WORD
  /\ KERNEL_START_WORD < KERNEL_END_WORD
  /\ {REGS, MAX_ECALL, DIGEST_WORDS, BLOCKS, HALF_ROUNDS, PAGES, COUNT_RANGE}
       \subseteq Nat \ {0}

MACHINE_REGS_WORD    == KERNEL_END_WORD
USER_REGS_WORD       == MACHINE_REGS_WORD + REGS
MEPC_WORD            == MACHINE_REGS_WORD + 4 * REGS
SUSPEND_PC_WORD      == MEPC_WORD + 1
SUSPEND_MODE_WORD    == MEPC_WORD + 2
OUTPUT_WORD          == MEPC_WORD + 3
INPUT_WORD           == OUTPUT_WORD + DIGEST_WORDS
ECALL_DISPATCH_WORD  == INPUT_WORD + DIGEST_WORDS
TRAP_DISPATCH_WORD   == ECALL_DISPATCH_WORD + MAX_ECALL
MEMORY_SIZE_WORDS    == TRAP_DISPATCH_WORD + 9     \* the trap causes
U32                  == 4 * MEMORY_SIZE_WORDS

\* What x0 of each bank is written to, so that every instruction writes.
SAFE_WRITE_WORD == MACHINE_REGS_WORD + 2 * REGS

\* The registers the model tells apart, numbered anew.
REG_ZERO == 0
REG_SP   == 1
REG_A0   == 2
REG_A1   == 3
REG_A2   == 4
REG_A3   == 5
REG_A7   == 6
REG_T0   == 7

HOST_ECALL_TERMINATE == 0
HOST_ECALL_READ      == 1
HOST_ECALL_WRITE     == 2
HOST_ECALL_POSEIDON2 == 3

PFLAG_IS_ELEM   == 2 * COUNT_RANGE
PFLAG_CHECK_OUT == COUNT_RANGE

\* The register r of the bank of a mode.
Register(mode, r) == (IF mode = 1 THEN MACHINE_REGS_WORD ELSE USER_REGS_WORD) + r

\* The digests of the page tree lie above the memory, the root's highest.
NODES_END_WORD       == MEMORY_SIZE_WORDS + 2 * PAGES * DIGEST_WORDS

NodeIdxToAddr(idx)   == NODES_END_WORD - idx * DIGEST_WORDS
NodeAddrToIdx(addr)  == (NODES_END_WORD - addr) \div DIGEST_WORDS
RootWord             == NodeIdxToAddr(1)
PAGE_WORDS           == BLOCKS * DIGEST_WORDS

\* A memory argument of a row, or a transaction of the trace.
R(word, val) == [op |-> "read", word |-> word, val |-> val]
W(word, val) == [op |-> "write", word |-> word, val |-> val]

\* The n words from addr on.
From(addr, n) == [k \in 1 .. n |-> addr + k - 1]
Shape(io)     == [k \in DOMAIN io |-> <<io[k].op, io[k].word>>]
Reads(words)  == [k \in DOMAIN words |-> <<"read", words[k]>>]
Writes(words) == [k \in DOMAIN words |-> <<"write", words[k]>>]

\* TxKind, of the input of a hash.
TxRead    == "read"
TxPageIn  == "page in"
TxPageOut == "page out"
=============================================================================
