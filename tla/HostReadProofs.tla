--------------------------- MODULE HostReadProofs ---------------------------
(***************************************************************************)
(* Proofs about HostRead, for every memory size, limit, buffer, length and *)
(* answer of the host.                                                     *)
(***************************************************************************)
EXTENDS HostRead, TLAPS

Copying == phase \in {"lead", "block", "trail"}

\* A call is one of three kinds: not answered, being copied, or over.
Types ==
  /\ a1 \in Addresses /\ a2 \in Addresses
  /\ a0 \in Nat /\ sent \in Nat /\ ptr \in Nat /\ i \in Nat /\ rlen \in Nat
  /\ phase \in {"ecall", "lead", "block", "trail", "done", "threw"}
  /\ phase = "ecall" => a0 = sent

\* The copy is where the counters say, inside a buffer that does not wrap,
\* and takes words from a word boundary only.
Progress ==
  /\ Copying => /\ a1 + sent <= MEMORY_SIZE_BYTES
                /\ ptr = a1 + i /\ i + rlen = sent
                /\ a0 = sent /\ sent > 0
  /\ phase = "block" /\ rlen >= 4 => ptr % 4 = 0

\* No byte outside the buffer has been written.
InBuffer == \A a \in Addresses : mem[a] # 0 => a \in a1 .. a1 + sent - 1

\* A read of whole blocks: nothing is left for the byte loops and every byte
\* before i is there.
Blocks ==
  InBlocks =>
    /\ phase # "trail"
    /\ phase = "ecall" => sent = 0
    /\ phase = "lead"  => i = 0
    /\ phase = "block" => rlen > 0 /\ rlen % 16 \in {0, 4}
    /\ Copying => \A k \in 1 .. i : mem[a1 + k - 1] = k
    /\ phase = "done" => Arrived /\ a0 = sent

Inv == Types /\ Progress /\ InBuffer /\ Blocks

-----------------------------------------------------------------------------

LEMMA InitInv == Init => Inv
BY HostReadAssumption, SMT
   DEF Init, Inv, Types, Progress, InBuffer, Blocks, Copying, InBlocks, Addresses

\* A pointer and a length that pass the check of the ecall name a buffer that
\* ends inside the memory.
LEMMA ValidDoesNotWrap ==
  ASSUME Types, ~ Invalid
  PROVE  a1 + a2 < MEMORY_SIZE_BYTES
<1>1. /\ MEMORY_SIZE_BYTES \in Nat /\ a1 \in Nat /\ a2 \in Nat
      /\ a1 < MEMORY_SIZE_BYTES /\ a2 < MEMORY_SIZE_BYTES
  BY HostReadAssumption DEF Types, Addresses
<1>2. (a1 + a2) % MEMORY_SIZE_BYTES >= a1
  BY <1>1, SMT DEF Invalid
<1>3. CASE a1 + a2 >= MEMORY_SIZE_BYTES
  <2>1. (a1 + a2) % MEMORY_SIZE_BYTES = a1 + a2 - MEMORY_SIZE_BYTES
    BY <1>1, <1>3, SMT
  <2> QED
    BY <1>1, <1>2, <2>1, SMT
<1> QED
  BY <1>1, <1>3, SMT

\* The byte loops: at most what is left is copied, up to a word boundary.
LEMMA CopyBytesInv ==
  ASSUME Inv, Copying, CopyBytes, UNCHANGED <<a0, a1, a2, sent>>
  PROVE  /\ ptr' = a1 + i' /\ i' + rlen' = sent
         /\ ptr' \in Nat /\ i' \in Nat /\ rlen' \in Nat
         /\ rlen' = 0 \/ ptr' % 4 = 0
         /\ InBuffer'
<1> DEFINE n == ToBoundary
<1>1. /\ ptr \in Nat /\ i \in Nat /\ rlen \in Nat /\ a1 \in Nat /\ sent \in Nat
      /\ ptr = a1 + i /\ i + rlen = sent
  BY DEF Inv, Types, Progress, Addresses
<1>2. n \in Nat /\ n <= rlen /\ (n = rlen \/ (ptr + n) % 4 = 0)
  BY <1>1, SMT DEF ToBoundary
<1> HIDE DEF n
<1>3. /\ mem' = [a \in Addresses |-> IF a \in ptr .. ptr + n - 1
                                     THEN i + (a - ptr) + 1 ELSE mem[a]]
      /\ ptr' = ptr + n /\ i' = i + n /\ rlen' = rlen - n
  BY DEF CopyBytes, n
<1>4. InBuffer'
  <2> SUFFICES ASSUME NEW a \in Addresses, mem'[a] # 0
               PROVE  a \in a1 .. a1 + sent - 1
    BY DEF InBuffer
  <2>1. CASE a \in ptr .. ptr + n - 1
    BY <1>1, <1>2, <2>1, SMT
  <2>2. CASE a \notin ptr .. ptr + n - 1
    BY <1>3, <2>2 DEF Inv, InBuffer
  <2> QED
    BY <2>1, <2>2
<1> QED
  BY <1>1, <1>2, <1>3, <1>4, SMT

-----------------------------------------------------------------------------
(* The actions                                                             *)

LEMMA SetupInv ==
  ASSUME Inv, Setup
  PROVE  Inv'
<1>1. PICK n \in {k \in Answers \cup {0} : k <= a2 /\ (a0 # 0 => k = 0)} :
        /\ a0' = n /\ rlen' = n
        /\ sent' = sent + n
        /\ phase' = IF n = 0 THEN "done" ELSE "lead"
  BY DEF Setup
<1>2. /\ phase = "ecall" /\ ptr' = a1 /\ i' = 0
      /\ mem' = mem /\ a1' = a1 /\ a2' = a2
  BY DEF Setup
<1>3. a1 + a2 < MEMORY_SIZE_BYTES
  BY ValidDoesNotWrap DEF Setup, Inv
<1>4. /\ n \in Nat /\ n <= a2 /\ (a0 # 0 => n = 0)
      /\ a0 = sent /\ sent \in Nat /\ a1 \in Nat /\ a2 \in Nat /\ MEMORY_SIZE_BYTES \in Nat
  BY <1>2, HostReadAssumption DEF Inv, Types, Addresses
<1>5. Types'
  BY <1>1, <1>2, <1>4 DEF Inv, Types, Addresses
<1>6. Progress'
  BY <1>1, <1>2, <1>3, <1>4, SMT DEF Progress, Copying
<1>7. InBuffer'
  BY <1>1, <1>2, <1>4, SMT DEF Inv, InBuffer, Addresses
<1>8. Blocks'
  <2> SUFFICES ASSUME InBlocks' PROVE Blocks'
    BY DEF Blocks
  <2>1. CASE n = 0
    <3>1. InBlocks
      BY <1>1, <1>2, <1>4, <2>1 DEF InBlocks
    <3>2. sent = 0
      BY <1>2, <3>1 DEF Inv, Blocks
    <3> QED
      BY <1>1, <1>2, <2>1, <3>2, SMT DEF Blocks, Copying, Arrived
  <2>2. CASE n # 0
    BY <1>1, <1>2, <1>4, <2>2, SMT DEF Blocks, Copying
  <2> QED
    BY <2>1, <2>2
<1> QED
  BY <1>5, <1>6, <1>7, <1>8 DEF Inv

LEMMA LeadBytesInv ==
  ASSUME Inv, LeadBytes
  PROVE  Inv'
<1>1. /\ phase = "lead" /\ phase' = "block" /\ CopyBytes
      /\ UNCHANGED <<a0, a1, a2, sent>>
  BY DEF LeadBytes
<1>2. /\ ptr' = a1 + i' /\ i' + rlen' = sent
      /\ ptr' \in Nat /\ i' \in Nat /\ rlen' \in Nat
      /\ rlen' = 0 \/ ptr' % 4 = 0
      /\ InBuffer'
  BY <1>1, CopyBytesInv DEF Copying
<1>3. Types'
  BY <1>1, <1>2 DEF Inv, Types, Addresses
<1>4. Progress'
  BY <1>1, <1>2, SMT DEF Inv, Progress, Copying
<1>5. Blocks'
  <2> SUFFICES ASSUME InBlocks' PROVE Blocks'
    BY DEF Blocks
  <2>1. InBlocks /\ i = 0 /\ ptr = a1 /\ a1 % 4 = 0 /\ sent % 16 \in {0, 4}
        /\ sent > 0 /\ rlen = sent /\ sent \in Nat /\ a1 \in Nat
    BY <1>1, SMT DEF Inv, Types, Progress, Blocks, InBlocks, Copying, Addresses
  <2>2. ToBoundary = 0
    BY <2>1, SMT DEF ToBoundary
  <2>3. i' = 0 /\ rlen' = sent
    BY <2>1, <2>2, SMT DEF CopyBytes, LeadBytes
  <2> QED
    BY <1>1, <2>1, <2>3, SMT DEF Blocks, Copying
<1> QED
  BY <1>2, <1>3, <1>4, <1>5 DEF Inv

LEMMA TrailBytesInv ==
  ASSUME Inv, TrailBytes
  PROVE  Inv'
<1>1. /\ phase = "trail" /\ phase' = "ecall" /\ CopyBytes
      /\ UNCHANGED <<a0, a1, a2, sent>>
  BY DEF TrailBytes
<1>2. /\ ptr' \in Nat /\ i' \in Nat /\ rlen' \in Nat
      /\ InBuffer'
  BY <1>1, CopyBytesInv DEF Copying
<1>3. Types'
  BY <1>1, <1>2 DEF Inv, Types, Addresses, Progress, Copying
<1>4. Progress'
  BY <1>1 DEF Progress, Copying
<1>5. Blocks'
  BY <1>1 DEF Inv, Blocks, InBlocks
<1> QED
  BY <1>2, <1>3, <1>4, <1>5 DEF Inv

\* What a block of four slots does to memory: it writes the bytes from ptr on,
\* four for each of its words, and leaves the others alone.
LEMMA SlotsWriteBlock ==
  ASSUME NEW p \in Nat, p % 4 = 0, NEW w \in 1 .. 4, NEW k \in 0 .. w - 1,
         NEW a \in Nat, (p + k * w) \div 4 = a \div 4
  PROVE  a \in p .. p + 4 * w - 1
<1>1. CASE w = 1
  BY <1>1, SMT
<1>2. CASE w = 2
  BY <1>2, SMT
<1>3. CASE w = 3
  BY <1>3, SMT
<1>4. CASE w = 4
  BY <1>4, SMT
<1> QED
  BY <1>1, <1>2, <1>3, <1>4

\* The slots of a block of w words from p on that write the word of a.
SlotsAt(p, w, a) == {k \in 0 .. w - 1 : (p + k * w) \div 4 = a \div 4}

LEMMA MaxOfSingleton == \A m \in Int : Max({m}) = m
BY DEF Max

\* In a block of one or of four words slot k takes the word k.
LEMMA SlotsInOrder ==
  ASSUME NEW p \in Nat, p % 4 = 0, NEW w \in {1, 4}, NEW a \in Nat
  PROVE  LET in == SlotsAt(p, w, a)
         IN  IF a \in p .. p + 4 * w - 1
             THEN in # {} /\ Max(in) \in Nat /\ Max(in) * w + (a % 4) = a - p
             ELSE in = {}
<1> DEFINE in == SlotsAt(p, w, a)
<1>1. CASE a \notin p .. p + 4 * w - 1
  BY <1>1, SlotsWriteBlock DEF SlotsAt
<1>2. CASE a \in p .. p + 4 * w - 1
  <2>1. PICK k \in 0 .. w - 1 : in = {k} /\ k * w + (a % 4) = a - p
    <3>1. CASE w = 1
      <4>1. in = {0} /\ a % 4 = a - p
        BY <1>2, <3>1, SMT DEF SlotsAt
      <4> QED
        BY <3>1, <4>1
    <3>2. CASE w = 4
      <4> DEFINE m == (a - p) \div 4
      <4>1. m \in 0 .. 3 /\ m * 4 + (a % 4) = a - p
        BY <1>2, <3>2, SMT
      <4>2. \A k \in 0 .. 3 : (p + k * 4) \div 4 = a \div 4 <=> k = m
        BY <1>2, <3>2, SMT
      <4>3. in = {m}
        BY <3>2, <4>1, <4>2 DEF SlotsAt
      <4> QED
        BY <3>2, <4>1, <4>3
    <3> QED
      BY <3>1, <3>2
  <2>2. Max(in) = k
    BY <2>1, MaxOfSingleton
  <2> QED
    BY <1>2, <2>1, <2>2
<1> QED
  BY <1>1, <1>2

LEMMA BlockInv ==
  ASSUME Inv, Block
  PROVE  Inv'
<1> DEFINE w     == Words
           in(a) == SlotsAt(ptr, w, a)
<1>1. /\ phase = "block" /\ rlen >= 4
      /\ mem' = [a \in Addresses |->
                   IF in(a) = {} THEN mem[a]
                   ELSE i + Max(in(a)) * w + (a % 4) + 1]
      /\ ptr' = ptr + 4 * w /\ i' = i + 4 * w /\ rlen' = rlen - 4 * w
      /\ phase' = (IF rlen' = 0 THEN "done" ELSE "block")
      /\ UNCHANGED <<a0, a1, a2, sent>>
  BY DEF Block, Slots, SlotsAt
<1>2. /\ ptr \in Nat /\ i \in Nat /\ rlen \in Nat /\ a1 \in Nat /\ sent \in Nat
      /\ ptr = a1 + i /\ i + rlen = sent /\ ptr % 4 = 0
      /\ a0 = sent /\ sent > 0 /\ a1 + sent <= MEMORY_SIZE_BYTES
  BY <1>1 DEF Inv, Types, Progress, Addresses, Copying
<1>3. w \in 1 .. 4 /\ 4 * w <= rlen /\ (rlen % 16 \in {0, 4} => w = 4 \/ (w = 1 /\ rlen = 4))
  BY <1>1, <1>2, SMT DEF Words
<1> HIDE DEF w
<1>4. Types'
  BY <1>1, <1>2, <1>3, SMT DEF Inv, Types
<1>5. Progress'
  BY <1>1, <1>2, <1>3, SMT DEF Inv, Progress, Copying
<1>6. InBuffer'
  <2> SUFFICES ASSUME NEW a \in Addresses, mem'[a] # 0
               PROVE  a \in a1 .. a1 + sent - 1
    BY <1>1 DEF InBuffer
  <2>1. CASE in(a) = {}
    BY <1>1, <2>1 DEF Inv, InBuffer
  <2>2. CASE in(a) # {}
    <3>1. PICK k \in 0 .. w - 1 : (ptr + k * w) \div 4 = a \div 4
      BY <2>2 DEF SlotsAt
    <3>2. a \in Nat
      BY DEF Addresses
    <3>3. a \in ptr .. ptr + 4 * w - 1
      BY <1>2, <1>3, <3>1, <3>2, SlotsWriteBlock
    <3> QED
      BY <1>2, <1>3, <3>3, SMT
  <2> QED
    BY <2>1, <2>2
<1>7. Blocks'
  <2> SUFFICES ASSUME InBlocks'
               PROVE  Blocks'
    BY DEF Blocks
  <2>1. /\ InBlocks /\ rlen % 16 \in {0, 4}
        /\ \A k \in 1 .. i : mem[a1 + k - 1] = k
    BY <1>1 DEF InBlocks, Inv, Blocks, Copying
  <2>2. w = 4 \/ (w = 1 /\ rlen = 4)
    BY <1>3, <2>1
  <2>3. \A k \in 1 .. i' : mem'[a1 + k - 1] = k
    <3> SUFFICES ASSUME NEW k \in 1 .. i'
                 PROVE  mem'[a1 + k - 1] = k
      OBVIOUS
    <3>0. PICK a : a = a1 + k - 1
      OBVIOUS
    <3>1. k \in Nat /\ k >= 1 /\ k <= i + 4 * w
      BY <1>1, <1>2, <1>3, SMT
    <3>2. a \in Addresses /\ a \in Nat
      BY <1>2, <1>3, <3>0, <3>1, HostReadAssumption, SMT DEF Addresses
    <3>3. w \in {1, 4}
      BY <2>2
    <3>4. CASE k <= i
      <4>1. a \notin ptr .. ptr + 4 * w - 1
        BY <1>2, <1>3, <3>0, <3>1, <3>4, SMT
      <4>2. in(a) = {}
        BY <1>2, <3>2, <3>3, <4>1, SlotsInOrder
      <4>3. mem'[a] = mem[a]
        BY <1>1, <3>2, <4>2
      <4> QED
        BY <2>1, <3>0, <3>1, <3>4, <4>3
    <3>5. CASE k > i
      <4>1. a \in ptr .. ptr + 4 * w - 1 /\ a - ptr = k - 1 - i
        BY <1>2, <1>3, <3>0, <3>1, <3>5, SMT
      <4>2. in(a) # {} /\ Max(in(a)) \in Nat /\ Max(in(a)) * w + (a % 4) = a - ptr
        BY <1>2, <3>2, <3>3, <4>1, SlotsInOrder
      <4>3. mem'[a] = i + Max(in(a)) * w + (a % 4) + 1
        BY <1>1, <3>2, <4>2
      <4>4. mem'[a] = i + (a - ptr) + 1
        BY <1>2, <1>3, <4>1, <4>2, <4>3, SMT
      <4> QED
        BY <1>2, <3>0, <3>1, <4>1, <4>4, SMT
    <3> QED
      BY <1>2, <3>1, <3>4, <3>5, SMT
  <2>4. CASE rlen' = 0
    <3>1. phase' = "done" /\ i' = sent
      BY <1>1, <1>2, <1>3, <2>4, SMT
    <3> QED
      BY <1>1, <1>2, <2>3, <3>1 DEF Blocks, Copying, Arrived
  <2>5. CASE rlen' # 0
    <3>1. phase' = "block" /\ rlen' > 0 /\ rlen' % 16 \in {0, 4}
      BY <1>1, <1>2, <1>3, <2>1, <2>2, <2>5, SMT
    <3> QED
      BY <1>1, <2>3, <3>1 DEF Blocks
  <2> QED
    BY <2>4, <2>5
<1> QED
  BY <1>4, <1>5, <1>6, <1>7 DEF Inv

LEMMA NextInv == Inv /\ [Next]_vars => Inv'
<1> SUFFICES ASSUME Inv, [Next]_vars
             PROVE  Inv'
  OBVIOUS
<1>1. CASE Refuse
  BY <1>1 DEF Refuse, Inv, Types, Progress, InBuffer, Blocks, Copying, InBlocks
<1>2. CASE Setup
  BY <1>2, SetupInv
<1>3. CASE LeadBytes
  BY <1>3, LeadBytesInv
<1>4. CASE Block
  BY <1>4, BlockInv
<1>5. CASE ToTrail
  <2>1. /\ phase = "block" /\ rlen < 4 /\ phase' = "trail"
        /\ UNCHANGED <<mem, a0, a1, a2, sent, ptr, i, rlen>>
    BY <1>5 DEF ToTrail
  <2>2. ~ InBlocks
    BY <2>1, SMT DEF Inv, Types, Blocks, InBlocks
  <2> QED
    BY <2>1, <2>2 DEF Inv, Types, Progress, InBuffer, Blocks, Copying, InBlocks
<1>6. CASE TrailBytes
  BY <1>6, TrailBytesInv
<1>7. CASE UNCHANGED vars
  BY <1>7 DEF vars, Inv, Types, Progress, InBuffer, Blocks, Copying, InBlocks, Arrived
<1> QED
  BY <1>1, <1>2, <1>3, <1>4, <1>5, <1>6, <1>7 DEF Next

\* A host read of whole blocks arrives in order and in full, and no read, cut
\* up or executed again, writes outside the guest's buffer (doHostRead).
THEOREM HostReadCorrect == Spec => []ReadFillsBuffer
<1>1. Inv => ReadFillsBuffer
  BY DEF Inv, Blocks, InBuffer, ReadFillsBuffer
<1> QED
  BY <1>1, InitInv, NextInv, PTL DEF Spec
=============================================================================
