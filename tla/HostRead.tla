------------------------------ MODULE HostRead ------------------------------
(***************************************************************************)
(* One host read as the guest makes it (emu/r0vm.h, doHostRead): the ecall *)
(* asks the host for bytes and copies them into the guest's memory, bytes  *)
(* up to a word boundary, then blocks of up to four words, then bytes.     *)
(* pc moves past the ecall only at a row that reports nothing left: an     *)
(* ecall that leaves bytes over is executed again, with the number of      *)
(* bytes it got, which is in A0 now, as its descriptor.                    *)
(*                                                                         *)
(* The k-th byte the host delivers is the number k; 0 is what the guest    *)
(* had in a byte before.                                                   *)
(***************************************************************************)
EXTENDS Integers, Sequences, FiniteSetsExt

CONSTANTS
  MEMORY_SIZE_BYTES,   \* 2^32; addresses wrap at it
  MAX_READ,            \* 1024
  Ptrs, Lens,          \* the buffers and lengths a guest asks with
  Answers              \* how many bytes the host may have for descriptor 0

VARIABLES
  mem,           \* the guest's bytes
  a0, a1, a2,    \* descriptor and result, buffer, length
  sent,          \* the bytes the host has delivered
  phase,         \* "ecall", "lead", "block", "trail", "done" (the guest goes
                 \* on after the ecall), "threw"
  ptr, i, rlen,  \* as in doHostRead
  rows           \* the rows of the trace: state of the row, and the next

vars == <<mem, a0, a1, a2, sent, phase, ptr, i, rlen, rows>>

Addresses == 0 .. MEMORY_SIZE_BYTES - 1

\* Pointers and lengths are words of 32 bits, and MAX_READ is far below 2^32.
ASSUME HostReadAssumption ==
  /\ MEMORY_SIZE_BYTES \in Nat /\ MAX_READ \in 0 .. MEMORY_SIZE_BYTES - 1
  /\ Ptrs \subseteq Addresses /\ Lens \subseteq Addresses
  /\ Answers \subseteq Nat

Init ==
  /\ mem = [a \in Addresses |-> 0]
  /\ a0 = 0 /\ a1 \in Ptrs /\ a2 \in Lens
  /\ sent = 0
  /\ phase = "ecall"
  /\ ptr = 0 /\ i = 0 /\ rlen = 0
  /\ rows = <<>>

-----------------------------------------------------------------------------
(* doHostRead                                                              *)

NextState(p, n) ==
  CASE n = 0                           -> "decode"
    [] n > 0 /\ (p % 4 # 0 \/ n < 4)   -> "bytes"
    [] OTHER                           -> "words"

\* ecallCycle
Row(cur, next) == <<[state |-> cur, next |-> next]>>

Asked == rows \o Row("machine ecall", "setup")

Invalid == (a1 + a2) % MEMORY_SIZE_BYTES < a1 \/ a2 > MAX_READ

Refuse ==
  /\ phase = "ecall" /\ Invalid
  /\ phase' = "threw"
  /\ rows' = Asked
  /\ UNCHANGED <<mem, a0, a1, a2, sent, ptr, i, rlen>>

\* The host answers with at most what is asked for; descriptors but 0 have
\* nothing.  An answer of no bytes ends the ecall.
Setup ==
  /\ phase = "ecall" /\ ~ Invalid
  /\ \E n \in {k \in Answers \cup {0} : k <= a2 /\ (a0 # 0 => k = 0)} :
       /\ a0' = n /\ rlen' = n
       /\ sent' = sent + n
       /\ rows' = Asked \o Row("setup", NextState(a1, n))
       /\ phase' = IF n = 0 THEN "done" ELSE "lead"
  /\ ptr' = a1 /\ i' = 0
  /\ UNCHANGED <<mem, a1, a2>>

\* The bytes up to the next word boundary, each by writeByte.
ToBoundary == LET gap == (4 - (ptr % 4)) % 4 IN IF rlen < gap THEN rlen ELSE gap

CopyBytes ==
  LET n == ToBoundary
  IN  /\ mem' = [a \in Addresses |-> IF a \in ptr .. ptr + n - 1
                                     THEN i + (a - ptr) + 1 ELSE mem[a]]
      /\ ptr' = ptr + n /\ i' = i + n /\ rlen' = rlen - n

LeadBytes ==
  /\ phase = "lead"
  /\ CopyBytes
  /\ phase' = "block"
  /\ UNCHANGED <<a0, a1, a2, sent, rows>>

\* Mutant: a block has one slot too few.
SlotsShort(words) == 0 .. words - 2

\* The slots of a block that hold a word.
Slots(words) == 0 .. words - 1

Words == IF rlen \div 4 < 4 THEN rlen \div 4 ELSE 4

\* A block of four slots: slot k writes a whole word if it has one.  ptr, i
\* and rlen move by the number of words in every slot.
Block ==
  /\ phase = "block" /\ rlen >= 4
  /\ LET at(k)  == ptr + k * Words
         in(a)  == {k \in Slots(Words) : at(k) \div 4 = a \div 4}
     IN  mem' = [a \in Addresses |->
                   IF in(a) = {} THEN mem[a]
                   ELSE i + Max(in(a)) * Words + (a % 4) + 1]
  /\ ptr' = ptr + 4 * Words /\ i' = i + 4 * Words /\ rlen' = rlen - 4 * Words
  /\ rows' = rows \o Row(rows[Len(rows)].next, NextState(ptr', rlen'))
  /\ phase' = IF rlen' = 0 THEN "done" ELSE "block"
  /\ UNCHANGED <<a0, a1, a2, sent>>

ToTrail ==
  /\ phase = "block" /\ rlen < 4
  /\ phase' = "trail"
  /\ UNCHANGED <<mem, a0, a1, a2, sent, ptr, i, rlen, rows>>

\* Mutant: bytes left over are tried again.
TrailBytesRetry ==
  /\ phase = "trail"
  /\ CopyBytes
  /\ phase' = "lead"
  /\ UNCHANGED <<a0, a1, a2, sent, rows>>

\* doHostRead returns with pc still at the ecall, and step fetches it again.
TrailBytes ==
  /\ phase = "trail"
  /\ CopyBytes
  /\ phase' = "ecall"
  /\ UNCHANGED <<a0, a1, a2, sent, rows>>

Next == Refuse \/ Setup \/ LeadBytes \/ Block \/ ToTrail \/ TrailBytes

Spec == Init /\ [][Next]_vars /\ WF_vars(Next)

-----------------------------------------------------------------------------
(* Properties                                                              *)

\* A buffer of whole words, in blocks of four and at most one word besides.
InBlocks == a1 % 4 = 0 /\ sent % 16 \in {0, 4}

Arrived == \A k \in 1 .. sent : mem[a1 + k - 1] = k

\* What the host sent is in the guest's buffer, in order, when a read of whole
\* blocks is done, and the guest gets its length: no slot overwrites another.
\* And whatever the host answers and however the copy is cut, no byte outside
\* the buffer is written, although words are rounded down to their addresses
\* and nothing checks a store of the host's.
ReadFillsBuffer ==
  /\ phase = "done" /\ InBlocks => Arrived /\ a0 = sent
  /\ \A a \in Addresses : mem[a] # 0 => a \in a1 .. a1 + sent - 1

\* Every host read comes to an end, also one that is executed again.
Returns == <>(phase \in {"done", "threw"})

-----------------------------------------------------------------------------
(* What the source says and the code does not do                           *)

\* inst_ecall.zir: "If lengtj != 0 and even, more words".  A read of whole
\* words delivers all of them.
WordsArrive == phase = "done" /\ a1 % 4 = 0 /\ sent % 4 = 0 => Arrived
=============================================================================
