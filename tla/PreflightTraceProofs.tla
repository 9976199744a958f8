------------------------ MODULE PreflightTraceProofs ------------------------
(***************************************************************************)
(* For every depth, page size, digest and instruction stream, the trace of *)
(* PreflightTrace satisfies the circuit's memory argument, its             *)
(* transactions lie in their rows, and the root it ends with is that of    *)
(* the memory it leaves.                                                   *)
(***************************************************************************)
EXTENDS PreflightTrace, PagingProofs, SequenceTheorems

-----------------------------------------------------------------------------
(* What one transaction does to a context                                  *)

Kinds == {READ, PAGE_IN, PAGE_OUT, WRITE}

Listed(s) == \E S : s \in Seq(S)

TxnShape(c, t) ==
  /\ t.word \in DOMAIN c.prevCycle
  /\ t.cycle \in 0 .. 2 * Len(c.cycles) + 1
  /\ t.prevCycle \in 0 .. 2 * Len(c.cycles) + 1 \cup {FIRST}
  /\ t.kind \in Kinds

Shape(c) ==
  /\ Listed(c.txns) /\ c.cycles \in Seq(Nat) /\ c.memCycle \in 0 .. Len(c.txns)
  /\ DOMAIN c.prevCycle \subseteq DOMAIN c.mem
  /\ DOMAIN c.origValue = DOMAIN c.prevCycle
  /\ \A w \in DOMAIN c.prevCycle : c.prevCycle[w] \in 0 .. 2 * Len(c.cycles) + 1
  /\ \A i \in 1 .. Len(c.txns) : TxnShape(c, c.txns[i])

\* d is c after the transaction t.
Records(c, d, t) ==
  /\ Listed(d.txns)
  /\ Len(d.txns) = Len(c.txns) + 1
  /\ \A i \in 1 .. Len(c.txns) : d.txns[i] = c.txns[i]
  /\ d.txns[Len(c.txns) + 1] = t
  /\ d.cycles = c.cycles /\ d.memCycle = c.memCycle
  /\ DOMAIN d.prevCycle = DOMAIN c.prevCycle \cup {t.word}
  /\ d.prevCycle[t.word] = t.cycle
  /\ \A w \in DOMAIN c.prevCycle : w # t.word => d.prevCycle[w] = c.prevCycle[w]
  /\ DOMAIN d.mem = DOMAIN c.mem
  /\ t.word \in DOMAIN c.mem
  /\ d.mem[t.word] = t.val
  /\ \A w \in DOMAIN c.mem : w # t.word => d.mem[w] = c.mem[w]
  /\ DOMAIN d.origValue = DOMAIN c.origValue \cup {t.word}
  /\ \A w \in DOMAIN c.origValue : d.origValue[w] = c.origValue[w]
  /\ t.word \notin DOMAIN c.origValue => d.origValue[t.word] = t.prevVal
  /\ t.prevCycle = LastCycle(c, t.word)
  /\ t.prevVal = c.mem[t.word]
  /\ t.cycle \in {2 * Len(c.cycles), 2 * Len(c.cycles) + 1}
  /\ t.kind \in Kinds
  /\ t.kind = PAGE_IN <=> t.word \notin DOMAIN c.prevCycle
  /\ t.kind # WRITE => t.val = t.prevVal

LEMMA AppendListed ==
  ASSUME NEW s, Listed(s), NEW e
  PROVE  /\ Listed(Append(s, e))
         /\ Len(s) \in Nat
         /\ DOMAIN s = 1 .. Len(s)
         /\ Len(Append(s, e)) = Len(s) + 1
         /\ \A i \in 1 .. Len(s) : Append(s, e)[i] = s[i]
         /\ Append(s, e)[Len(s) + 1] = e
<1>1. PICK S : s \in Seq(S)
  BY DEF Listed
<1>2. s \in Seq(S \cup {e}) /\ e \in S \cup {e}
  BY <1>1
<1>3. /\ Append(s, e) \in Seq(S \cup {e})
      /\ Len(Append(s, e)) = Len(s) + 1
      /\ \A i \in 1 .. Len(s) : Append(s, e)[i] = s[i]
      /\ Append(s, e)[Len(s) + 1] = e
  BY <1>2, AppendProperties
<1>4. Len(s) \in Nat /\ DOMAIN s = 1 .. Len(s)
  BY <1>1
<1> QED
  BY <1>3, <1>4 DEF Listed

LEMMA RecordedIs ==
  ASSUME NEW c, NEW txn, NEW mem, NEW origValue, NEW dirty
  PROVE  LET d == Recorded(c, txn, mem, origValue, dirty)
         IN  /\ d.txns = Append(c.txns, txn)
             /\ d.prevCycle = Update(c.prevCycle, txn.word, txn.cycle)
             /\ d.mem = mem /\ d.origValue = origValue /\ d.dirty = dirty
             /\ d.cycles = c.cycles /\ d.memCycle = c.memCycle
BY DEF Recorded

LEMMA LoadIs ==
  ASSUME NEW c, NEW kind, NEW word
  PROVE  Load(c, kind, word)
           = Recorded(c, Txn(kind, word, 2 * Len(c.cycles), c.mem[word], LastCycle(c, word),
                             c.mem[word]),
                      c.mem, IF word \in DOMAIN c.origValue THEN c.origValue
                             ELSE Update(c.origValue, word, c.mem[word]),
                      c.dirty)
BY Zenon DEF Load

\* A load, of a word the image holds.
LEMMA LoadRecords ==
  ASSUME NEW c, Shape(c), NEW word \in DOMAIN c.mem, NEW kind \in {READ, PAGE_IN, PAGE_OUT},
         kind = PAGE_IN <=> word \notin DOMAIN c.prevCycle
  PROVE  LET d == Load(c, kind, word)
             t == Txn(kind, word, 2 * Len(c.cycles), c.mem[word], LastCycle(c, word), c.mem[word])
         IN  Records(c, d, t) /\ d.dirty = c.dirty /\ d.mem = c.mem
<1> DEFINE d == Load(c, kind, word)
           t == Txn(kind, word, 2 * Len(c.cycles), c.mem[word], LastCycle(c, word), c.mem[word])
           orig == IF word \in DOMAIN c.origValue THEN c.origValue
                   ELSE Update(c.origValue, word, c.mem[word])
<1>1. /\ t.kind = kind /\ t.word = word /\ t.cycle = 2 * Len(c.cycles)
      /\ t.val = c.mem[word] /\ t.prevVal = c.mem[word] /\ t.prevCycle = LastCycle(c, word)
  BY DEF Txn
<1>0. d = Recorded(c, t, c.mem, orig, c.dirty)
  BY LoadIs
<1> HIDE DEF t, d, orig
<1>2. /\ d.txns = Append(c.txns, t) /\ d.cycles = c.cycles /\ d.memCycle = c.memCycle
      /\ d.prevCycle = Update(c.prevCycle, word, 2 * Len(c.cycles))
      /\ d.mem = c.mem /\ d.dirty = c.dirty /\ d.origValue = orig
  BY <1>0, <1>1, RecordedIs
<1>3. /\ Listed(d.txns) /\ Len(d.txns) = Len(c.txns) + 1
      /\ \A i \in 1 .. Len(c.txns) : d.txns[i] = c.txns[i]
      /\ d.txns[Len(c.txns) + 1] = t
  BY <1>2, AppendListed DEF Shape
<1>4. /\ DOMAIN d.prevCycle = DOMAIN c.prevCycle \cup {word}
      /\ d.prevCycle[word] = 2 * Len(c.cycles)
      /\ \A w \in DOMAIN c.prevCycle : w # word => d.prevCycle[w] = c.prevCycle[w]
  BY <1>2 DEF Update
<1>5. /\ DOMAIN d.origValue = DOMAIN c.origValue \cup {word}
      /\ \A w \in DOMAIN c.origValue : d.origValue[w] = c.origValue[w]
      /\ word \notin DOMAIN c.origValue => d.origValue[word] = c.mem[word]
  BY <1>2 DEF Update, orig
<1>6. Records(c, d, t)
  BY <1>1, <1>2, <1>3, <1>4, <1>5 DEF Records, Kinds, READ, PAGE_IN, PAGE_OUT, WRITE
<1> QED
  BY <1>2, <1>6 DEF d, t

\* A store, to a word that was loaded.
LEMMA StoreRecords ==
  ASSUME NEW c, Shape(c), NEW word \in DOMAIN c.prevCycle, NEW val
  PROVE  LET d == Store(c, word, val)
             t == Txn(WRITE, word, 2 * Len(c.cycles) + 1, val, LastCycle(c, word), c.mem[word])
         IN  /\ Records(c, d, t)
             /\ d.dirty = IF word < WORD_LIMIT THEN c.dirty \cup {PageOf(word)} ELSE c.dirty
<1> DEFINE d == Store(c, word, val)
           t == Txn(WRITE, word, 2 * Len(c.cycles) + 1, val, LastCycle(c, word), c.mem[word])
<1>1. /\ t.kind = WRITE /\ t.word = word /\ t.cycle = 2 * Len(c.cycles) + 1
      /\ t.val = val /\ t.prevVal = c.mem[word] /\ t.prevCycle = LastCycle(c, word)
  BY DEF Txn
<1>0. d = Recorded(c, t, Update(c.mem, word, val), c.origValue,
                   IF word < WORD_LIMIT THEN c.dirty \cup {PageOf(word)} ELSE c.dirty)
  BY Zenon DEF Store
<1> HIDE DEF t, d
<1>2. /\ d.txns = Append(c.txns, t) /\ d.cycles = c.cycles /\ d.memCycle = c.memCycle
      /\ d.prevCycle = Update(c.prevCycle, word, 2 * Len(c.cycles) + 1)
      /\ d.mem = Update(c.mem, word, val) /\ d.origValue = c.origValue
      /\ d.dirty = IF word < WORD_LIMIT THEN c.dirty \cup {PageOf(word)} ELSE c.dirty
  BY <1>0, <1>1, RecordedIs
<1>3. /\ Listed(d.txns) /\ Len(d.txns) = Len(c.txns) + 1
      /\ \A i \in 1 .. Len(c.txns) : d.txns[i] = c.txns[i]
      /\ d.txns[Len(c.txns) + 1] = t
  BY <1>2, AppendListed DEF Shape
<1>4. /\ DOMAIN d.prevCycle = DOMAIN c.prevCycle \cup {word}
      /\ d.prevCycle[word] = 2 * Len(c.cycles) + 1
      /\ \A w \in DOMAIN c.prevCycle : w # word => d.prevCycle[w] = c.prevCycle[w]
  BY <1>2 DEF Update
<1>5. word \in DOMAIN c.mem /\ word \in DOMAIN c.origValue
  BY DEF Shape
<1>6. /\ DOMAIN d.mem = DOMAIN c.mem /\ d.mem[word] = val
      /\ \A w \in DOMAIN c.mem : w # word => d.mem[w] = c.mem[w]
  BY <1>2, <1>5 DEF Update
<1>7. Records(c, d, t)
  BY <1>1, <1>2, <1>3, <1>4, <1>5, <1>6 DEF Records, Kinds, READ, PAGE_IN, PAGE_OUT, WRITE
<1> QED
  BY <1>2, <1>7 DEF d, t

-----------------------------------------------------------------------------
(* What holds of a context at all times                                    *)

RowsHold(c) == \A i \in 1 .. Len(c.txns) : InItsRow(c, i)

Kinded(c) ==
  \A i \in 1 .. Len(c.txns) :
    /\ c.txns[i].kind = PAGE_IN <=> c.txns[i].prevCycle = FIRST
    /\ c.txns[i].kind # WRITE => c.txns[i].val = c.txns[i].prevVal

\* While no host read has written bytes: no transaction is older than the one
\* it follows.
Forward(c) == \A i \in 1 .. Len(c.txns) : c.txns[i].prevCycle <= c.txns[i].cycle

FirstOf(c, i) == \A k \in 1 .. i - 1 : c.txns[k].word # c.txns[i].word
LastOf(c, i)  == \A k \in i + 1 .. Len(c.txns) : c.txns[k].word # c.txns[i].word

\* j is the transaction before i of the same word, and i says so.
Follows(c, j, i) ==
  /\ c.txns[j].word = c.txns[i].word
  /\ \A k \in j + 1 .. i - 1 : c.txns[k].word # c.txns[i].word
  /\ c.txns[i].prevCycle = c.txns[j].cycle
  /\ c.txns[i].prevVal = c.txns[j].val

LastIs(c, i, w) ==
  /\ c.txns[i].word = w /\ LastOf(c, i)
  /\ c.prevCycle[w] = c.txns[i].cycle /\ c.mem[w] = c.txns[i].val

LinkedBack(c, i) ==
  IF c.txns[i].prevCycle = FIRST
  THEN FirstOf(c, i) /\ c.origValue[c.txns[i].word] = c.txns[i].prevVal
  ELSE \E j \in 1 .. i - 1 : Follows(c, j, i)

\* While no trap has dropped any: the transactions of each word form a chain.
Linked(c) ==
  /\ \A w \in DOMAIN c.prevCycle : \E i \in 1 .. Len(c.txns) : LastIs(c, i, w)
  /\ \A i \in 1 .. Len(c.txns) : LinkedBack(c, i)

Good(c, tr, by) ==
  /\ Shape(c) /\ RowsHold(c) /\ Kinded(c)
  /\ ~ tr => Linked(c)
  /\ ~ by => Forward(c)

LEMMA RecordsShape ==
  ASSUME NEW c, NEW d, NEW t, Shape(c), Records(c, d, t)
  PROVE  Shape(d)
<1> DEFINE n == Len(c.txns)
           L == Len(c.cycles)
<1>1. n \in Nat /\ L \in Nat
  BY AppendListed DEF Shape
<1>2. t.prevCycle \in 0 .. 2 * L + 1 \cup {FIRST}
  BY DEF Records, LastCycle, Shape
<1>3. t.cycle \in 0 .. 2 * L + 1 /\ t.kind \in Kinds
  BY <1>1 DEF Records
<1>4. \A i \in 1 .. n : TxnShape(d, d.txns[i])
  BY DEF Records, Shape, TxnShape
<1>5. TxnShape(d, d.txns[n + 1])
  BY <1>2, <1>3 DEF Records, TxnShape
<1>6. \A w \in DOMAIN d.prevCycle : d.prevCycle[w] \in 0 .. 2 * L + 1
  BY <1>3 DEF Records, Shape
<1>7. \A i \in 1 .. n + 1 : i \in 1 .. n \/ i = n + 1
  BY <1>1
<1>8. \A i \in 1 .. n + 1 : TxnShape(d, d.txns[i])
  BY <1>4, <1>5, <1>7
<1>9. d.memCycle \in 0 .. n + 1
  BY <1>1 DEF Records, Shape
<1> QED
  BY <1>6, <1>8, <1>9 DEF Records, Shape

LEMMA RecordsLinked ==
  ASSUME NEW c, NEW d, NEW t, Shape(c), Records(c, d, t), Linked(c)
  PROVE  Linked(d)
<1> DEFINE n == Len(c.txns)
<1>1. n \in Nat /\ Len(d.txns) = n + 1 /\ d.txns[n + 1] = t
      /\ \A i \in 1 .. n : d.txns[i] = c.txns[i] /\ i \in 1 .. n + 1
  BY AppendListed DEF Shape, Records
<1>2. ASSUME NEW w \in DOMAIN d.prevCycle
      PROVE  \E i \in 1 .. n + 1 : LastIs(d, i, w)
  <2>1. CASE w = t.word
    <3>1. LastOf(d, n + 1)
      BY <1>1 DEF LastOf
    <3>2. LastIs(d, n + 1, w)
      BY <1>1, <2>1, <3>1 DEF LastIs, Records
    <3> QED
      BY <1>1, <3>2
  <2>2. CASE w # t.word
    <3>1. w \in DOMAIN c.prevCycle /\ w \in DOMAIN c.mem
      BY <2>2 DEF Records, Shape
    <3>2. PICK i \in 1 .. n : LastIs(c, i, w)
      BY <3>1 DEF Linked
    <3>3. LastOf(d, i)
      <4> SUFFICES ASSUME NEW k \in i + 1 .. n + 1 PROVE d.txns[k].word # d.txns[i].word
        BY <1>1 DEF LastOf
      <4>1. CASE k = n + 1
        BY <1>1, <2>2, <3>2, <4>1 DEF LastIs
      <4>2. CASE k # n + 1
        <5>1. k \in 1 .. n /\ k \in i + 1 .. n
          BY <1>1, <4>2
        <5>2. c.txns[k].word # c.txns[i].word
          BY <3>2, <5>1 DEF LastIs, LastOf
        <5> QED
          BY <1>1, <5>1, <5>2
      <4> QED
        BY <4>1, <4>2
    <3>4. d.prevCycle[w] = c.prevCycle[w] /\ d.mem[w] = c.mem[w]
      BY <2>2, <3>1 DEF Records
    <3>5. LastIs(d, i, w)
      BY <1>1, <3>2, <3>3, <3>4 DEF LastIs
    <3> QED
      BY <1>1, <3>5
  <2> QED
    BY <2>1, <2>2
<1>3. ASSUME NEW i \in 1 .. n PROVE LinkedBack(d, i)
  <2>0. LinkedBack(c, i) /\ \A k \in 1 .. i : k \in 1 .. n /\ d.txns[k] = c.txns[k]
    BY <1>1 DEF Linked
  <2>1. CASE c.txns[i].prevCycle = FIRST
    <3>1. FirstOf(d, i)
      <4>1. FirstOf(c, i)
        BY <2>0, <2>1 DEF LinkedBack
      <4>2. \A k \in 1 .. i - 1 : k \in 1 .. i
        BY <1>1
      <4> QED
        BY <1>1, <2>0, <4>1, <4>2 DEF FirstOf
    <3>2. c.txns[i].word \in DOMAIN c.origValue
      BY DEF Shape, TxnShape
    <3>3. d.origValue[c.txns[i].word] = c.origValue[c.txns[i].word]
      BY <3>2 DEF Records
    <3> QED
      BY <1>1, <2>0, <2>1, <3>1, <3>3 DEF LinkedBack
  <2>2. CASE c.txns[i].prevCycle # FIRST
    <3>1. PICK j \in 1 .. i - 1 : Follows(c, j, i)
      BY <2>0, <2>2 DEF LinkedBack
    <3>2. Follows(d, j, i)
      <4>1. j \in 1 .. i /\ \A k \in j + 1 .. i - 1 : k \in 1 .. i
        BY <1>1
      <4> QED
        BY <1>1, <2>0, <3>1, <4>1 DEF Follows
    <3> QED
      BY <1>1, <2>2, <3>2 DEF LinkedBack
  <2> QED
    BY <2>1, <2>2
<1>4. LinkedBack(d, n + 1)
  <2>1. CASE t.word \in DOMAIN c.prevCycle
    <3>1. PICK j \in 1 .. n : LastIs(c, j, t.word)
      BY <2>1 DEF Linked
    <3>2. t.prevCycle = c.txns[j].cycle /\ t.prevVal = c.txns[j].val
      BY <2>1, <3>1 DEF Records, LastCycle, LastIs
    <3>3. Follows(d, j, n + 1)
      <4>1. \A k \in j + 1 .. n : k \in 1 .. n /\ c.txns[k].word # t.word
        BY <1>1, <3>1 DEF LastIs, LastOf
      <4>2. \A k \in j + 1 .. (n + 1) - 1 : k \in j + 1 .. n
        BY <1>1
      <4> QED
        BY <1>1, <3>1, <3>2, <4>1, <4>2 DEF Follows, LastIs
    <3>4. t.prevCycle # FIRST
      <4>1. c.txns[j].cycle \in Nat
        BY <3>1, AppendListed DEF Shape, TxnShape
      <4> QED
        BY <3>2, <4>1 DEF FIRST
    <3> QED
      BY <1>1, <3>3, <3>4 DEF LinkedBack
  <2>2. CASE t.word \notin DOMAIN c.prevCycle
    <3>1. \A k \in 1 .. n : c.txns[k].word # t.word
      BY <2>2 DEF Shape, TxnShape
    <3>2. FirstOf(d, n + 1)
      BY <1>1, <3>1 DEF FirstOf
    <3>3. t.prevCycle = FIRST /\ d.origValue[t.word] = t.prevVal
      BY <2>2 DEF Records, LastCycle, Shape
    <3> QED
      BY <1>1, <3>2, <3>3 DEF LinkedBack
  <2> QED
    BY <2>1, <2>2
<1>5. \A i \in 1 .. n + 1 : i \in 1 .. n \/ i = n + 1
  BY <1>1
<1> QED
  BY <1>1, <1>2, <1>3, <1>4, <1>5 DEF Linked

LEMMA RecordsGood ==
  ASSUME NEW c, NEW d, NEW t, NEW tr, NEW by, Good(c, tr, by), Records(c, d, t),
         ~ by => t.prevCycle <= t.cycle
  PROVE  Good(d, tr, by)
<1> DEFINE n == Len(c.txns)
           L == Len(c.cycles)
<1>1. /\ n \in Nat /\ L \in Nat /\ Len(d.txns) = n + 1 /\ d.txns[n + 1] = t
      /\ \A i \in 1 .. n : d.txns[i] = c.txns[i]
      /\ d.cycles = c.cycles /\ d.memCycle = c.memCycle
  BY AppendListed DEF Good, Shape, Records
<1>2. \A i \in 1 .. n + 1 : i \in 1 .. n \/ i = n + 1
  BY <1>1
<1>3. Shape(d) /\ (~ tr => Linked(d))
  BY RecordsShape, RecordsLinked DEF Good
<1>4. InItsRow(d, n + 1)
  <2>0. \A x \in Nat : (2 * x) \div 2 = x /\ (2 * x + 1) \div 2 = x
    BY SMT
  <2>1. t.cycle \div 2 = L
    BY <1>1, <2>0 DEF Records
  <2>2. c.memCycle \in 0 .. n
    BY DEF Good, Shape
  <2> QED
    BY <1>1, <2>1, <2>2 DEF InItsRow
<1>5. \A i \in 1 .. n : InItsRow(d, i)
  BY <1>1 DEF Good, RowsHold, InItsRow
<1>6. RowsHold(d)
  BY <1>1, <1>2, <1>4, <1>5 DEF RowsHold
<1>7. t.kind = PAGE_IN <=> t.prevCycle = FIRST
  <2>1. t.word \in DOMAIN c.prevCycle => c.prevCycle[t.word] \in Nat
    BY <1>1 DEF Good, Shape
  <2> QED
    BY <2>1 DEF Records, LastCycle, FIRST
<1>8. Kinded(d)
  BY <1>1, <1>2, <1>7 DEF Good, Kinded, Records
<1>9. ~ by => Forward(d)
  BY <1>1, <1>2 DEF Good, Forward
<1> QED
  BY <1>3, <1>6, <1>8, <1>9 DEF Good

LEMMA CompleteIs ==
  ASSUME NEW c
  PROVE  /\ Complete(c).cycles = Append(c.cycles, c.memCycle)
         /\ Complete(c).memCycle = Len(c.txns) /\ Complete(c).txns = c.txns
         /\ Complete(c).prevCycle = c.prevCycle /\ Complete(c).origValue = c.origValue
         /\ Complete(c).mem = c.mem /\ Complete(c).dirty = c.dirty
BY DEF Complete

LEMMA CompleteGood ==
  ASSUME NEW c, NEW tr, NEW by, Good(c, tr, by)
  PROVE  Good(Complete(c), tr, by)
<1> DEFINE e == Complete(c)
           n == Len(c.txns)
           L == Len(c.cycles)
<1>1. /\ e.cycles = Append(c.cycles, c.memCycle)
      /\ e.memCycle = n /\ e.txns = c.txns
      /\ e.prevCycle = c.prevCycle /\ e.origValue = c.origValue
      /\ e.mem = c.mem /\ e.dirty = c.dirty
  BY CompleteIs
<1>2. Shape(c)
  BY DEF Good
<1>3. n \in Nat /\ c.cycles \in Seq(Nat) /\ c.memCycle \in Nat /\ c.memCycle \in 0 .. n /\ L \in Nat
  BY <1>2, AppendListed DEF Shape
<1> HIDE DEF e
<1>4. /\ e.cycles \in Seq(Nat) /\ Len(e.cycles) = L + 1
      /\ \A r \in 1 .. L : e.cycles[r] = c.cycles[r]
      /\ e.cycles[L + 1] = c.memCycle
  BY <1>1, <1>3, AppendProperties
<1>5. \A i \in 1 .. n : TxnShape(e, e.txns[i])
  BY <1>1, <1>2, <1>3, <1>4 DEF Shape, TxnShape
<1>6. Shape(e)
  BY <1>1, <1>2, <1>3, <1>4, <1>5 DEF Shape
<1>7. RowsHold(e)
  <2> SUFFICES ASSUME NEW i \in 1 .. n PROVE InItsRow(e, i)
    BY <1>1 DEF RowsHold
  <2> DEFINE r == c.txns[i].cycle \div 2 + 1
  <2>1. r \in 1 .. L + 1
    <3>1. c.txns[i].cycle \in 0 .. 2 * L + 1
      BY <1>2 DEF Shape, TxnShape
    <3>2. \A x \in 0 .. 2 * L + 1 : x \div 2 + 1 \in 1 .. L + 1
      BY <1>3, SMT
    <3> QED
      BY <3>1, <3>2
  <2>2. InItsRow(c, i)
    BY DEF Good, RowsHold
  <2>3. /\ r <= L => c.cycles[r] < i /\ i <= IF r < L THEN c.cycles[r + 1] ELSE c.memCycle
        /\ r > L => i > c.memCycle
    BY <1>3, <2>1, <2>2 DEF InItsRow
  <2> HIDE DEF r
  <2>4. /\ r <= L + 1
        /\ e.cycles[r] < i
        /\ i <= IF r < L + 1 THEN e.cycles[r + 1] ELSE n
    <3>1. CASE r < L
      <4>1. r \in 1 .. L /\ r + 1 \in 1 .. L /\ r < L + 1 /\ r <= L
        BY <1>3, <2>1, <3>1
      <4>2. e.cycles[r] = c.cycles[r] /\ e.cycles[r + 1] = c.cycles[r + 1]
        BY <1>4, <4>1
      <4>3. c.cycles[r] < i /\ i <= c.cycles[r + 1]
        BY <2>3, <3>1, <4>1
      <4> QED
        BY <4>1, <4>2, <4>3
    <3>2. CASE r = L
      <4>1. r <= L /\ ~ (r < L) /\ r < L + 1 /\ r \in 1 .. L
        BY <1>3, <2>1, <3>2
      <4>2. c.cycles[r] < i /\ i <= c.memCycle
        BY <2>3, <4>1
      <4>3. e.cycles[r] = c.cycles[r] /\ e.cycles[r + 1] = c.memCycle
        BY <1>4, <3>2, <4>1
      <4> QED
        BY <4>1, <4>2, <4>3
    <3>3. CASE r = L + 1
      BY <1>3, <1>4, <2>1, <2>3, <3>3
    <3> QED
      BY <1>3, <2>1, <3>1, <3>2, <3>3
  <2> QED
    BY <1>1, <1>4, <2>4 DEF InItsRow, r
<1>8. Kinded(e) /\ (~ by => Forward(e))
  BY <1>1 DEF Good, Kinded, Forward
<1>9. ~ tr => Linked(e)
  BY <1>1 DEF Good, Linked, LinkedBack, LastIs, FirstOf, LastOf, Follows
<1> QED
  BY <1>6, <1>7, <1>8, <1>9 DEF Good, e

LEMMA RewindIs ==
  ASSUME NEW c, Shape(c)
  PROVE  LET d == TrapRewind(c)
         IN  /\ Listed(d.txns) /\ Len(d.txns) = c.memCycle /\ c.memCycle \in 0 .. Len(c.txns)
             /\ \A i \in 1 .. c.memCycle : d.txns[i] = c.txns[i]
             /\ d.cycles = c.cycles /\ d.memCycle = c.memCycle
             /\ d.prevCycle = c.prevCycle /\ d.origValue = c.origValue
             /\ d.mem = c.mem /\ d.dirty = c.dirty
<1> DEFINE d == TrapRewind(c)
<1>1. /\ d.txns = SubSeq(c.txns, 1, c.memCycle)
      /\ d.cycles = c.cycles /\ d.memCycle = c.memCycle
      /\ d.prevCycle = c.prevCycle /\ d.origValue = c.origValue
      /\ d.mem = c.mem /\ d.dirty = c.dirty
  BY DEF TrapRewind
<1>2. PICK S : c.txns \in Seq(S)
  BY DEF Shape, Listed
<1>3. Len(c.txns) \in Nat /\ c.memCycle \in 0 .. Len(c.txns) /\ \A i \in 1 .. c.memCycle : c.txns[i] \in S
  BY <1>2 DEF Shape
<1>4. /\ SubSeq(c.txns, 1, c.memCycle) \in Seq(S)
      /\ Len(SubSeq(c.txns, 1, c.memCycle)) = c.memCycle
      /\ \A i \in 1 .. c.memCycle : SubSeq(c.txns, 1, c.memCycle)[i] = c.txns[i]
  BY <1>3, SubSeqProperties
<1> QED
  BY <1>1, <1>3, <1>4 DEF Listed

LEMMA RewindGood ==
  ASSUME NEW c, NEW tr, NEW by, Good(c, tr, by)
  PROVE  Good(TrapRewind(c), TRUE, by)
<1> DEFINE d == TrapRewind(c)
           n == Len(c.txns)
           m == c.memCycle
<1>1. Shape(c) /\ n \in Nat
  BY AppendListed DEF Good, Shape
<1>2. /\ Listed(d.txns) /\ Len(d.txns) = m /\ m \in 0 .. n
      /\ \A i \in 1 .. m : d.txns[i] = c.txns[i]
      /\ d.cycles = c.cycles /\ d.memCycle = m
      /\ d.prevCycle = c.prevCycle /\ d.origValue = c.origValue
      /\ d.mem = c.mem /\ d.dirty = c.dirty
  BY <1>1, RewindIs
<1> HIDE DEF d
<1>3. \A i \in 1 .. m : i \in 1 .. n
  BY <1>1, <1>2
<1>4. Shape(d)
  <2>1. \A i \in 1 .. m : TxnShape(d, d.txns[i])
    BY <1>1, <1>2, <1>3 DEF Shape, TxnShape
  <2>2. m \in 0 .. m
    BY <1>1, <1>2
  <2> QED
    BY <1>1, <1>2, <2>1, <2>2 DEF Shape
<1>5. RowsHold(d)
  BY <1>2, <1>3 DEF Good, RowsHold, InItsRow
<1>6. Kinded(d) /\ (~ by => Forward(d))
  BY <1>2, <1>3 DEF Good, Kinded, Forward
<1> QED
  BY <1>4, <1>5, <1>6 DEF Good, d

-----------------------------------------------------------------------------
(* Which words were stored, and which were looked at last                  *)

\* The words outside T have held one value from the start.
Quiet(c, T) ==
  /\ \A i \in 1 .. Len(c.txns) :
       c.txns[i].word \notin T => /\ c.txns[i].val = c.origValue[c.txns[i].word]
                                  /\ c.txns[i].prevVal = c.origValue[c.txns[i].word]
  /\ \A w \in DOMAIN c.prevCycle : w \notin T => c.mem[w] = c.origValue[w]

\* The last transaction of a word of W is a page-out, alone in its cycle.
AloneLast(c, W) ==
  \A i \in 1 .. Len(c.txns) :
    /\ c.txns[i].word \in W
    /\ c.txns[i].cycle = c.prevCycle[c.txns[i].word]
    => c.txns[i].kind = PAGE_OUT /\ LastOf(c, i)

\* Nothing has happened since the last row but to words of X.
Behind(c, X) == \A w \in DOMAIN c.prevCycle \ X : c.prevCycle[w] <= 2 * Len(c.cycles)

Closed(c) ==
  /\ \A i \in 1 .. Len(c.txns) : c.txns[i].cycle < 2 * Len(c.cycles)
  /\ \A w \in DOMAIN c.prevCycle : c.prevCycle[w] < 2 * Len(c.cycles)

LEMMA CompleteCloses ==
  ASSUME NEW c, Shape(c)
  PROVE  /\ Closed(Complete(c)) /\ Behind(Complete(c), {})
         /\ \A T : Quiet(c, T) => Quiet(Complete(c), T)
         /\ \A W : AloneLast(c, W) => AloneLast(Complete(c), W)
<1> DEFINE e == Complete(c)
           L == Len(c.cycles)
<1>1. /\ e.cycles = Append(c.cycles, c.memCycle)
      /\ e.txns = c.txns /\ e.prevCycle = c.prevCycle /\ e.origValue = c.origValue
      /\ e.mem = c.mem
  BY CompleteIs
<1>2. c.cycles \in Seq(Nat) /\ c.memCycle \in Nat /\ L \in Nat
  BY AppendListed DEF Shape
<1>3. Len(e.cycles) = L + 1
  BY <1>1, <1>2, AppendProperties
<1> HIDE DEF e
<1>4. \A i \in 1 .. Len(c.txns) : c.txns[i].cycle \in 0 .. 2 * L + 1
  BY DEF Shape, TxnShape
<1>5. \A w \in DOMAIN c.prevCycle : c.prevCycle[w] \in 0 .. 2 * L + 1
  BY DEF Shape
<1>6. \A x \in 0 .. 2 * L + 1 : x < 2 * (L + 1) /\ x <= 2 * (L + 1)
  BY <1>2
<1>7. Closed(e) /\ Behind(e, {})
  BY <1>1, <1>3, <1>4, <1>5, <1>6 DEF Closed, Behind
<1>8. \A T : Quiet(c, T) => Quiet(e, T)
  BY <1>1 DEF Quiet
<1>9. \A W : AloneLast(c, W) => AloneLast(e, W)
  BY <1>1 DEF AloneLast, LastOf
<1> QED
  BY <1>7, <1>8, <1>9 DEF e

\* A transaction that stores another value than it found counts as a store.
LEMMA RecordsQuiet ==
  ASSUME NEW c, NEW d, NEW t, NEW T, NEW T2, Shape(c), Records(c, d, t), Quiet(c, T),
         T \subseteq T2, t.val = t.prevVal \/ t.word \in T2
  PROVE  Quiet(d, T2)
<1> DEFINE n == Len(c.txns)
<1>1. n \in Nat /\ Len(d.txns) = n + 1 /\ d.txns[n + 1] = t
      /\ \A i \in 1 .. n : d.txns[i] = c.txns[i] /\ c.txns[i].word \in DOMAIN c.origValue
  BY AppendListed DEF Shape, Records, TxnShape
<1>2. t.word \notin T2 => t.val = d.origValue[t.word] /\ t.prevVal = d.origValue[t.word]
  <2> SUFFICES ASSUME t.word \notin T2 PROVE t.prevVal = d.origValue[t.word]
    OBVIOUS
  <2>1. CASE t.word \in DOMAIN c.prevCycle
    BY <2>1 DEF Quiet, Records, Shape
  <2>2. CASE t.word \notin DOMAIN c.prevCycle
    BY <2>2 DEF Records, Shape
  <2> QED
    BY <2>1, <2>2
<1>3. \A i \in 1 .. n : d.origValue[c.txns[i].word] = c.origValue[c.txns[i].word]
  BY <1>1 DEF Records
<1>4. \A i \in 1 .. n : c.txns[i].word \notin T2 =>
        c.txns[i].val = d.origValue[c.txns[i].word] /\ c.txns[i].prevVal = d.origValue[c.txns[i].word]
  BY <1>3 DEF Quiet
<1>5. ASSUME NEW w \in DOMAIN d.prevCycle, w \notin T2 PROVE d.mem[w] = d.origValue[w]
  <2>1. CASE w = t.word
    BY <1>2, <1>5, <2>1 DEF Records
  <2>2. CASE w # t.word
    BY <1>5, <2>2 DEF Records, Quiet, Shape
  <2> QED
    BY <2>1, <2>2
<1>6. \A i \in 1 .. n + 1 : i \in 1 .. n \/ i = n + 1
  BY <1>1
<1> QED
  BY <1>1, <1>2, <1>4, <1>5, <1>6 DEF Quiet

\* A transaction of a word outside W leaves the last ones of W alone.
LEMMA RecordsAlone ==
  ASSUME NEW c, NEW d, NEW t, NEW W, Shape(c), Records(c, d, t), AloneLast(c, W), t.word \notin W
  PROVE  AloneLast(d, W)
<1> DEFINE n == Len(c.txns)
<1>1. n \in Nat /\ Len(d.txns) = n + 1 /\ d.txns[n + 1] = t
      /\ \A i \in 1 .. n : d.txns[i] = c.txns[i] /\ c.txns[i].word \in DOMAIN c.prevCycle
  BY AppendListed DEF Shape, Records, TxnShape
<1> SUFFICES ASSUME NEW i \in 1 .. n + 1, d.txns[i].word \in W,
                    d.txns[i].cycle = d.prevCycle[d.txns[i].word]
             PROVE  d.txns[i].kind = PAGE_OUT /\ LastOf(d, i)
  BY <1>1 DEF AloneLast
<1>2. i \in 1 .. n
  BY <1>1
<1>3. c.txns[i].cycle = c.prevCycle[c.txns[i].word]
  BY <1>1, <1>2 DEF Records
<1>4. c.txns[i].kind = PAGE_OUT /\ LastOf(c, i)
  BY <1>1, <1>2, <1>3 DEF AloneLast
<1>5. \A k \in i + 1 .. n + 1 : k = n + 1 \/ (k \in i + 1 .. n /\ k \in 1 .. n)
  BY <1>1, <1>2
<1> QED
  BY <1>1, <1>2, <1>4, <1>5 DEF LastOf

\* A page-out in a fresh row is alone in its cycle.
LEMMA RecordsPageOut ==
  ASSUME NEW c, NEW d, NEW t, NEW W, Shape(c), Records(c, d, t), AloneLast(c, W), Closed(c),
         t.kind = PAGE_OUT
  PROVE  AloneLast(d, W \cup {t.word})
<1> DEFINE n == Len(c.txns)
<1>1. n \in Nat /\ Len(d.txns) = n + 1 /\ d.txns[n + 1] = t
      /\ \A i \in 1 .. n : d.txns[i] = c.txns[i] /\ c.txns[i].word \in DOMAIN c.prevCycle
  BY AppendListed DEF Shape, Records, TxnShape
<1> SUFFICES ASSUME NEW i \in 1 .. n + 1, d.txns[i].word \in W \cup {t.word},
                    d.txns[i].cycle = d.prevCycle[d.txns[i].word]
             PROVE  d.txns[i].kind = PAGE_OUT /\ LastOf(d, i)
  BY <1>1 DEF AloneLast
<1>2. CASE i = n + 1
  BY <1>1, <1>2 DEF LastOf
<1>3. CASE i # n + 1
  <2>1. i \in 1 .. n
    BY <1>1, <1>3
  <2>2. c.txns[i].word # t.word
    <3>1. c.txns[i].cycle < 2 * Len(c.cycles) /\ Len(c.cycles) \in Nat
          /\ c.txns[i].cycle \in Nat
      BY <2>1 DEF Closed, Shape, TxnShape
    <3>2. c.txns[i].cycle # t.cycle
      BY <3>1 DEF Records
    <3> QED
      BY <1>1, <2>1, <3>2 DEF Records
  <2>3. c.txns[i].cycle = c.prevCycle[c.txns[i].word]
    BY <1>1, <2>1, <2>2 DEF Records
  <2>4. c.txns[i].kind = PAGE_OUT /\ LastOf(c, i)
    BY <1>1, <2>1, <2>2, <2>3 DEF AloneLast
  <2>5. \A k \in i + 1 .. n + 1 : k = n + 1 \/ (k \in i + 1 .. n /\ k \in 1 .. n)
    BY <1>1, <2>1
  <2> QED
    BY <1>1, <2>1, <2>2, <2>4, <2>5 DEF LastOf
<1> QED
  BY <1>2, <1>3

LEMMA RecordsBehind ==
  ASSUME NEW c, NEW d, NEW t, NEW X, Shape(c), Records(c, d, t), Behind(c, X)
  PROVE  /\ Behind(d, X \cup {t.word})
         /\ t.cycle = 2 * Len(c.cycles) => Behind(d, X)
<1>1. Len(c.cycles) \in Nat /\ d.cycles = c.cycles
  BY DEF Shape, Records
<1> QED
  BY <1>1 DEF Behind, Records

-----------------------------------------------------------------------------
(* Words and digests                                                       *)

LEMMA LimitIsNat == WORD_LIMIT \in Nat /\ MEMORY_SIZE_PAGES \in Nat \ {0}
BY Geometry, SMT DEF WORD_LIMIT

\* The words of the pages and those of the digests are apart.
LEMMA DigestWords ==
  /\ \A n \in Nodes : /\ DigestWord(n) \in Nat /\ DigestWord(n) > WORD_LIMIT
                      /\ DigestWord(0) - DigestWord(n) = n
                      /\ \A ps : DigestWord(n) \notin WordsIn(ps)
  /\ \A m, n \in Nodes : DigestWord(m) = DigestWord(n) => m = n
BY LimitIsNat DEF DigestWord, Nodes, WordsIn

\* A word of a page, by its offset.
LEMMA PageWords ==
  /\ \A p \in Pages, o \in Offsets : /\ PageWord(p, o) \in 0 .. WORD_LIMIT - 1
                                     /\ PageOf(PageWord(p, o)) = p
                                     /\ OffsetOf(PageWord(p, o)) = o
  /\ \A w \in 0 .. WORD_LIMIT - 1 : /\ PageOf(w) \in Pages /\ OffsetOf(w) \in Offsets
                                   /\ w = PageWord(PageOf(w), OffsetOf(w))
<1>1. ASSUME NEW p \in Pages, NEW o \in Offsets
      PROVE  /\ PageWord(p, o) \in 0 .. WORD_LIMIT - 1
             /\ PageOf(PageWord(p, o)) = p /\ OffsetOf(PageWord(p, o)) = o
  <2> DEFINE P == PAGE_SIZE_WORDS
             M == MEMORY_SIZE_PAGES
             x == p * P
             y == M * P
  <2>1. P \in Nat \ {0} /\ M \in Nat \ {0} /\ p \in 0 .. M - 1 /\ o \in 0 .. P - 1
    BY Geometry DEF Pages, Offsets
  <2>2. x \in Nat /\ y \in Nat /\ x + P <= y
    <3>1. \A a, b, k \in Nat : a < b => a * k + k <= b * k
      <4> SUFFICES ASSUME NEW a \in Nat, NEW b \in Nat, NEW k \in Nat, a < b
                   PROVE  a * k + k <= b * k
        OBVIOUS
      <4> DEFINE e == b - a - 1
      <4>1. e \in Nat /\ b = a + 1 + e
        OBVIOUS
      <4> HIDE DEF e
      <4>2. b * k = a * k + k + e * k /\ e * k \in Nat /\ a * k \in Nat
        BY <4>1, SMT
      <4> QED
        BY <4>2
    <3> QED
      BY <2>1, <3>1
  <2>3. /\ PageWord(p, o) = x + o /\ WORD_LIMIT = y
    BY DEF PageWord, WORD_LIMIT
  <2> HIDE DEF x, y
  <2>4. PageWord(p, o) \in 0 .. WORD_LIMIT - 1
    BY <2>1, <2>2, <2>3
  <2>5. p \in Nat
    BY <2>1
  <2> QED
    BY <2>4, <2>5, WordOfPage DEF PageWord
<1>2. ASSUME NEW w \in 0 .. WORD_LIMIT - 1
      PROVE  /\ PageOf(w) \in Pages /\ OffsetOf(w) \in Offsets
             /\ w = PageWord(PageOf(w), OffsetOf(w))
  <2>1. w \in Nat /\ w < WORD_LIMIT
    BY LimitIsNat
  <2>2. PageOf(w) \in Pages /\ OffsetOf(w) \in Offsets
    BY <2>1, WordInPage
  <2>3. PageWord(PageOf(w), OffsetOf(w)) \in Nat
    BY <1>1, <2>2, LimitIsNat
  <2> QED
    BY <1>1, <2>1, <2>2, <2>3, PageAndOffsetIdentify
<1> QED
  BY <1>1, <1>2

\* The nodes above pages, and the digests that are kept for them.
LEMMA AbovePages ==
  ASSUME NEW ps, ps \subseteq Pages
  PROVE  /\ PagingNodes(ps) \subseteq Inner
         /\ \A n \in PagingNodes(ps) : n # 1 => n \div 2 \in PagingNodes(ps)
         /\ \A p \in ps : Leaf(p) # 1 => Leaf(p) \div 2 \in PagingNodes(ps)
<1>1. \A n \in Nodes : n # 1 => n \div 2 \in Path(n) /\ n \div 2 \in Inner
  BY NodesAre, PathStep, OnOwnPath
<1>2. ASSUME NEW n \in PagingNodes(ps), n # 1 PROVE n \div 2 \in PagingNodes(ps)
  <2>1. n \in Nodes
    BY NodesAre DEF PagingNodes
  <2>2. PICK p \in ps : n \in Path(Leaf(p))
    BY DEF PagingNodes
  <2>3. Path(n) \subseteq Path(Leaf(p))
    BY <2>2, LeafIsNode, PathIsChain
  <2> QED
    BY <1>1, <1>2, <2>1, <2>2, <2>3 DEF PagingNodes
<1>3. \A p \in ps : Leaf(p) # 1 => Leaf(p) \div 2 \in PagingNodes(ps)
  BY <1>1, LeafIsNode DEF PagingNodes
<1> QED
  BY <1>2, <1>3 DEF PagingNodes

LEMMA KnownAre ==
  ASSUME NEW ps, ps \subseteq Pages
  PROVE  /\ KnownDigests(ps) \subseteq Nodes
         /\ \A n \in Nodes : n \in KnownDigests(ps) <=> n = 1 \/ n \div 2 \in PagingNodes(ps)
         /\ \A n \in PagingNodes(ps) : {n, 2 * n, 2 * n + 1} \subseteq KnownDigests(ps)
         /\ \A p \in ps : Leaf(p) \in KnownDigests(ps)
<1>1. PagingNodes(ps) \subseteq Inner
  BY AbovePages
<1>2. KnownDigests(ps) \subseteq Nodes
  BY <1>1, NodesAre DEF KnownDigests
<1>3. ASSUME NEW n \in Nodes
      PROVE  n \in KnownDigests(ps) <=> n = 1 \/ n \div 2 \in PagingNodes(ps)
  <2>1. \A m \in Inner : (2 * m) \div 2 = m /\ (2 * m + 1) \div 2 = m
    <3>1. \A x \in Nat : (2 * x) \div 2 = x /\ (2 * x + 1) \div 2 = x
      BY SMT
    <3> QED
      BY <3>1, NodesAre
  <2>2. n # 1 => n \in {2 * (n \div 2), 2 * (n \div 2) + 1}
    BY NodesAre
  <2> QED
    BY <1>1, <2>1, <2>2 DEF KnownDigests
<1>4. \A n \in PagingNodes(ps) : {n, 2 * n, 2 * n + 1} \subseteq KnownDigests(ps)
  <2>1. \A n \in PagingNodes(ps) : n \in KnownDigests(ps)
    BY <1>1, <1>3, AbovePages, NodesAre
  <2> QED
    BY <2>1 DEF KnownDigests
<1>5. \A p \in ps : Leaf(p) \in KnownDigests(ps)
  BY <1>3, AbovePages, LeafIsNode
<1> QED
  BY <1>2, <1>3, <1>4, <1>5

\* The digest of a node over a memory, from its children's.
LEMMA DigestsAre ==
  ASSUME NEW mem
  PROVE  /\ \A n \in Inner : DigestsOf(mem)[n] =
              HashPair(DigestsOf(mem)[2 * n], DigestsOf(mem)[2 * n + 1])
         /\ \A p \in Pages : DigestsOf(mem)[Leaf(p)] = HashPage(DataIn(mem, p))
<1> DEFINE M == MEMORY_SIZE_PAGES
           top == 2 * M - 1
           Eq(f, n) == f[n] = IF n \in Inner THEN HashPair(f[2 * n], f[2 * n + 1])
                              ELSE HashPage(DataIn(mem, n - M))
           S == {m \in 1 .. top : \E f : /\ f = [n \in m .. top |-> f[n]]
                                        /\ \A n \in m .. top : Eq(f, n)}
<1>0. M \in Nat \ {0} /\ top \in Nat /\ Inner = 1 .. M - 1 /\ Nodes = 1 .. top
  BY Geometry DEF Inner, Nodes
<1>1. \A m \in 1 .. top : m + 1 .. top \subseteq S => m \in S
  <2> SUFFICES ASSUME NEW m \in 1 .. top, m + 1 .. top \subseteq S
               PROVE  m \in S
    OBVIOUS
  <2>1. CASE m = top
    <3> DEFINE g == [n \in m .. top |-> HashPage(DataIn(mem, n - M))]
    <3>1. g = [n \in m .. top |-> g[n]]
      OBVIOUS
    <3>2. \A n \in m .. top : Eq(g, n)
      BY <1>0, <2>1
    <3> HIDE DEF g, Eq
    <3> QED
      BY <3>1, <3>2
  <2>2. CASE m # top
    <3>1. m + 1 \in S
      <4> HIDE DEF S
      <4> QED
        BY <1>0, <2>2
    <3>2. PICK f : /\ f = [n \in m + 1 .. top |-> f[n]]
                   /\ \A n \in m + 1 .. top : Eq(f, n)
      BY <3>1
    <3> DEFINE g == [n \in m .. top |->
                       IF n = m THEN IF m \in Inner THEN HashPair(f[2 * m], f[2 * m + 1])
                                     ELSE HashPage(DataIn(mem, m - M))
                       ELSE f[n]]
    <3>3. g = [n \in m .. top |-> g[n]]
      OBVIOUS
    <3>4. \A n \in m .. top : Eq(g, n)
      <4> SUFFICES ASSUME NEW n \in m .. top PROVE Eq(g, n)
        OBVIOUS
      <4>0. n \in Inner => /\ 2 * n \in m + 1 .. top
                           /\ 2 * n + 1 \in m + 1 .. top
        BY <1>0
      <4>1. n \in Inner => g[2 * n] = f[2 * n] /\ g[2 * n + 1] = f[2 * n + 1]
        BY <1>0, <4>0
      <4>2. CASE n = m
        <5>1. g[n] = IF m \in Inner THEN HashPair(f[2 * m], f[2 * m + 1])
                     ELSE HashPage(DataIn(mem, m - M))
          BY <4>2
        <5> HIDE DEF g
        <5> QED
          BY <4>1, <4>2, <5>1
      <4>3. CASE n # m
        <5>1. n \in m + 1 .. top
          BY <1>0, <4>3
        <5>2. Eq(f, n) /\ g[n] = f[n]
          BY <3>2, <4>3, <5>1
        <5> HIDE DEF g
        <5> QED
          BY <4>1, <5>2
      <4> QED
        BY <4>2, <4>3
    <3> HIDE DEF g, Eq
    <3> QED
      BY <3>3, <3>4
  <2> QED
    BY <2>1, <2>2
<1>2. 1 \in S
  <2> HIDE DEF S
  <2>1. 1 .. top \subseteq S
    BY <1>0, <1>1, InductionDown
  <2> QED
    BY <1>0, <2>1
<1>3. PICK g : g = [n \in 1 .. top |-> g[n]] /\ \A n \in 1 .. top : Eq(g, n)
  BY <1>2
<1>4. g = [n \in Nodes |-> IF n \in Inner THEN HashPair(g[2 * n], g[2 * n + 1])
                           ELSE HashPage(DataIn(mem, n - MEMORY_SIZE_PAGES))]
  BY <1>0, <1>3
<1> DEFINE T == DigestsOf(mem)
<1>5. T = [n \in Nodes |-> IF n \in Inner THEN HashPair(T[2 * n], T[2 * n + 1])
                           ELSE HashPage(DataIn(mem, n - MEMORY_SIZE_PAGES))]
  BY <1>4 DEF DigestsOf
<1>6. \A p \in Pages : /\ Leaf(p) \in Nodes /\ Leaf(p) \notin Inner
                       /\ Leaf(p) - MEMORY_SIZE_PAGES = p
  BY <1>0, LeafIsNode DEF Leaf, Pages
<1> HIDE DEF T
<1>7. \A p \in Pages : T[Leaf(p)] = HashPage(DataIn(mem, p))
  BY <1>5, <1>6
<1>8. \A n \in Inner : T[n] = HashPair(T[2 * n], T[2 * n + 1])
  BY <1>5, NodesAre
<1> QED
  BY <1>7, <1>8 DEF T

\* A digest depends on the pages below its node only.
LEMMA DigestsAgree ==
  ASSUME NEW one, NEW two, NEW n \in Nodes,
         \A p \in Pages : n \in Path(Leaf(p)) => DataIn(one, p) = DataIn(two, p)
  PROVE  DigestsOf(one)[n] = DigestsOf(two)[n]
<1> DEFINE Z(m)  == \A p \in Pages : m \in Path(Leaf(p)) => DataIn(one, p) = DataIn(two, p)
           T     == DigestsOf(one)
           U     == DigestsOf(two)
           S     == {m \in Nodes : Z(m) => T[m] = U[m]}
           top   == 2 * MEMORY_SIZE_PAGES - 1
<1>0. top \in Nat /\ Nodes = 1 .. top
  BY Geometry DEF Nodes
<1>1. ASSUME NEW m \in Nodes, m + 1 .. top \subseteq S, Z(m)
      PROVE  T[m] = U[m]
  <2>1. CASE m \in Inner
    <3>1. 2 * m \in S /\ 2 * m + 1 \in S
      <4>1. 2 * m \in Nodes /\ 2 * m + 1 \in Nodes /\ m \in Nat \ {0}
        BY <2>1, NodesAre
      <4>2. 2 * m \in m + 1 .. top /\ 2 * m + 1 \in m + 1 .. top
        BY <1>0, <4>1
      <4> HIDE DEF S
      <4> QED
        BY <1>1, <4>2
    <3>2. Z(2 * m) /\ Z(2 * m + 1)
      BY <1>1, <2>1, BelowChild
    <3>3. T[m] = HashPair(T[2 * m], T[2 * m + 1]) /\ U[m] = HashPair(U[2 * m], U[2 * m + 1])
      BY <2>1, DigestsAre
    <3> HIDE DEF Z, T, U
    <3>4. T[2 * m] = U[2 * m] /\ T[2 * m + 1] = U[2 * m + 1]
      BY <3>1, <3>2
    <3> QED
      BY <3>3, <3>4
  <2>2. CASE m \notin Inner
    <3>1. PICK p \in Pages : m = Leaf(p)
      BY <2>2, NodesAre
    <3>2. DataIn(one, p) = DataIn(two, p)
      BY <1>1, <3>1, LeafOnOwnPath
    <3> QED
      BY <3>1, <3>2, DigestsAre
  <2> QED
    BY <2>1, <2>2
<1>2. \A m \in 1 .. top : m + 1 .. top \subseteq S => m \in S
  BY <1>0, <1>1
<1>3. 1 .. top \subseteq S
  <2> HIDE DEF S
  <2> QED
    BY <1>0, <1>2, InductionDown
<1>4. n \in S
  <2> HIDE DEF S
  <2> QED
    BY <1>0, <1>3
<1> QED
  BY <1>4

-----------------------------------------------------------------------------
(* The context of a segment                                                *)

HeldWords(ps) == WordsIn(ps) \cup {DigestWord(n) : n \in KnownDigests(ps)}

Base(c, ps, tr, by) ==
  /\ Good(c, tr, by) /\ DOMAIN c.mem = HeldWords(ps) /\ c.dirty \subseteq ps

\* The digests outside stale are those of the memory.
DigestsTrue(c, ps, stale) ==
  \A n \in KnownDigests(ps) \ stale : c.mem[DigestWord(n)] = DigestsOf(c.mem)[n]

\* The nodes a page counts in.
Above(ps) == {n \in Nodes : \E p \in ps : n \in Path(Leaf(p))}

LEMMA GoodCloses ==
  ASSUME NEW c, NEW ps, NEW tr, NEW by, Base(c, ps, tr, by)
  PROVE  /\ Base(Complete(c), ps, tr, by) /\ Closed(Complete(c)) /\ Behind(Complete(c), {})
         /\ Complete(c).mem = c.mem /\ Complete(c).dirty = c.dirty
         /\ Complete(c).prevCycle = c.prevCycle /\ Complete(c).txns = c.txns
         /\ \A T : Quiet(c, T) => Quiet(Complete(c), T)
         /\ \A W : AloneLast(c, W) => AloneLast(Complete(c), W)
BY CompleteGood, CompleteIs, CompleteCloses DEF Base, Good

\* d is c after words have been paged in.
PagedIn(c, d, ps, tr, by, words) ==
  /\ Base(d, ps, tr, by) /\ Closed(d) /\ d.mem = c.mem /\ d.dirty = c.dirty
  /\ DOMAIN d.prevCycle = DOMAIN c.prevCycle \cup words
  /\ \A T : Quiet(c, T) => Quiet(d, T)

\* d is c after words it has were read.
Reads(c, d, ps, tr, by) ==
  /\ Base(d, ps, tr, by) /\ d.mem = c.mem /\ d.dirty = c.dirty
  /\ DOMAIN d.prevCycle = DOMAIN c.prevCycle
  /\ \A T : Quiet(c, T) => Quiet(d, T)
  /\ \A X : Behind(c, X) => Behind(d, X)

\* d is c after val was stored to a word it has.
Stores(c, d, ps, tr, by, word, val) ==
  /\ Base(d, ps, tr, by)
  /\ d.dirty = IF word < WORD_LIMIT THEN c.dirty \cup {PageOf(word)} ELSE c.dirty
  /\ DOMAIN d.prevCycle = DOMAIN c.prevCycle
  /\ word \in DOMAIN c.mem /\ DOMAIN d.mem = DOMAIN c.mem /\ d.mem[word] = val
  /\ \A w \in DOMAIN c.mem : w # word => d.mem[w] = c.mem[w]
  /\ \A T : Quiet(c, T) => Quiet(d, T \cup {word})
  /\ \A W : AloneLast(c, W) /\ word \notin W => AloneLast(d, W)
  /\ \A X : Behind(c, X) => Behind(d, X \cup {word})

\* The last transaction is of word, and found val there.
Ends(d, word, val) ==
  /\ Len(d.txns) \in Nat \ {0} /\ DOMAIN d.txns = 1 .. Len(d.txns)
  /\ d.txns[Len(d.txns)].word = word /\ d.txns[Len(d.txns)].prevVal = val

\* A block that is paged in or out.
LEMMA BlockIs ==
  ASSUME NEW c, NEW ps, NEW tr, NEW by, Base(c, ps, tr, by), Closed(c),
         NEW word \in HeldWords(ps), NEW kind \in {PAGE_IN, PAGE_OUT},
         kind = PAGE_IN <=> word \notin DOMAIN c.prevCycle
  PROVE  LET d == Complete(Load(c, kind, word))
         IN  /\ PagedIn(c, d, ps, tr, by, {word})
             /\ kind = PAGE_OUT => \A W : AloneLast(c, W) => AloneLast(d, W \cup {word})
             /\ Ends(d, word, c.mem[word])
<1> DEFINE e == Load(c, kind, word)
           d == Complete(e)
           t == Txn(kind, word, 2 * Len(c.cycles), c.mem[word], LastCycle(c, word), c.mem[word])
<1>1. kind \in {READ, PAGE_IN, PAGE_OUT} /\ (kind = PAGE_IN <=> word \notin DOMAIN c.prevCycle)
  OBVIOUS
<1>2. Shape(c) /\ word \in DOMAIN c.mem
  BY DEF Base, Good
<1>3. /\ t.kind = kind /\ t.word = word /\ t.cycle = 2 * Len(c.cycles)
      /\ t.val = c.mem[word] /\ t.prevVal = c.mem[word] /\ t.prevCycle = LastCycle(c, word)
  BY DEF Txn
<1> HIDE DEF t
<1>4. Records(c, e, t) /\ e.dirty = c.dirty /\ e.mem = c.mem
  BY <1>1, <1>2, LoadRecords DEF t
<1>5. t.prevCycle <= t.cycle
  <2>1. Len(c.cycles) \in Nat
    BY <1>2 DEF Shape
  <2>2. word \in DOMAIN c.prevCycle => c.prevCycle[word] \in Nat /\ c.prevCycle[word] < 2 * Len(c.cycles)
    BY <1>2, <2>1 DEF Closed, Shape
  <2> QED
    BY <1>3, <2>1, <2>2 DEF LastCycle, FIRST
<1> HIDE DEF e
<1>6. Good(e, tr, by)
  BY <1>4, <1>5, RecordsGood DEF Base
<1>7. Base(e, ps, tr, by) /\ DOMAIN e.prevCycle = DOMAIN c.prevCycle \cup {word}
  BY <1>3, <1>4, <1>6 DEF Base, Records
<1>8. \A T : Quiet(c, T) => Quiet(e, T)
  BY <1>2, <1>3, <1>4, RecordsQuiet
<1>9. kind = PAGE_OUT => \A W : AloneLast(c, W) => AloneLast(e, W \cup {word})
  BY <1>2, <1>3, <1>4, RecordsPageOut
<1>10. /\ Len(e.txns) \in Nat \ {0} /\ DOMAIN e.txns = 1 .. Len(e.txns)
       /\ e.txns[Len(e.txns)] = t
  <2>1. Shape(e) /\ Len(c.txns) \in Nat
    BY <1>2, <1>6, AppendListed DEF Good, Shape
  <2> QED
    BY <1>4, <2>1, AppendListed DEF Shape, Records
<1>11. Complete(Load(c, kind, word)) = d
  BY DEF e
<1>12. /\ Base(d, ps, tr, by) /\ Closed(d) /\ d.mem = e.mem /\ d.dirty = e.dirty
       /\ d.prevCycle = e.prevCycle /\ d.txns = e.txns
       /\ \A T : Quiet(e, T) => Quiet(d, T)
       /\ \A W : AloneLast(e, W) => AloneLast(d, W)
  BY <1>7, GoodCloses
<1> HIDE DEF d
<1>13. Ends(d, word, c.mem[word])
  BY <1>3, <1>10, <1>12 DEF Ends
<1>14. kind = PAGE_OUT => \A W : AloneLast(c, W) => AloneLast(d, W \cup {word})
  BY <1>9, <1>12
<1>15. PagedIn(c, d, ps, tr, by, {word})
  BY <1>4, <1>7, <1>8, <1>12 DEF PagedIn
<1> QED
  BY <1>11, <1>13, <1>14, <1>15

\* A read of a word that was loaded.
LEMMA ReadIs ==
  ASSUME NEW c, NEW ps, NEW tr, NEW by, Base(c, ps, tr, by), NEW word \in DOMAIN c.prevCycle,
         ~ by => c.prevCycle[word] <= 2 * Len(c.cycles)
  PROVE  Reads(c, Load(c, READ, word), ps, tr, by)
<1> DEFINE d == Load(c, READ, word)
           t == Txn(READ, word, 2 * Len(c.cycles), c.mem[word], LastCycle(c, word), c.mem[word])
<1>1. Shape(c) /\ word \in DOMAIN c.mem /\ Len(c.cycles) \in Nat /\ c.prevCycle[word] \in Nat
  BY AppendListed DEF Base, Good, Shape
<1>2. /\ t.kind = READ /\ t.word = word /\ t.cycle = 2 * Len(c.cycles)
      /\ t.val = c.mem[word] /\ t.prevVal = c.mem[word] /\ t.prevCycle = LastCycle(c, word)
  BY DEF Txn
<1> HIDE DEF t
<1>3. Records(c, d, t) /\ d.dirty = c.dirty /\ d.mem = c.mem
  BY <1>1, LoadRecords DEF t, READ, PAGE_IN
<1> HIDE DEF d
<1>4. ~ by => t.prevCycle <= t.cycle
  BY <1>1, <1>2 DEF LastCycle
<1>5. Good(d, tr, by)
  BY <1>3, <1>4, RecordsGood DEF Base
<1>6. Base(d, ps, tr, by) /\ DOMAIN d.prevCycle = DOMAIN c.prevCycle
  BY <1>2, <1>3, <1>5 DEF Base, Records
<1>7. \A T : Quiet(c, T) => Quiet(d, T)
  BY <1>1, <1>2, <1>3, RecordsQuiet
<1>8. \A X : Behind(c, X) => Behind(d, X)
  BY <1>1, <1>2, <1>3, RecordsBehind
<1>9. Reads(c, d, ps, tr, by)
  BY <1>3, <1>6, <1>7, <1>8 DEF Reads
<1> QED
  BY <1>9 DEF d

\* A store to a word that was loaded.
LEMMA StoreIs ==
  ASSUME NEW c, NEW ps, NEW tr, NEW by, Base(c, ps, tr, by), NEW word \in DOMAIN c.prevCycle,
         word < WORD_LIMIT => PageOf(word) \in ps, NEW val
  PROVE  Stores(c, Store(c, word, val), ps, tr, by, word, val)
<1> DEFINE d == Store(c, word, val)
           t == Txn(WRITE, word, 2 * Len(c.cycles) + 1, val, LastCycle(c, word), c.mem[word])
<1>1. Shape(c) /\ word \in DOMAIN c.mem /\ Len(c.cycles) \in Nat
      /\ c.prevCycle[word] \in 0 .. 2 * Len(c.cycles) + 1
  BY AppendListed DEF Base, Good, Shape
<1>2. /\ t.kind = WRITE /\ t.word = word /\ t.cycle = 2 * Len(c.cycles) + 1
      /\ t.val = val /\ t.prevVal = c.mem[word] /\ t.prevCycle = LastCycle(c, word)
  BY DEF Txn
<1> HIDE DEF t
<1>3. Records(c, d, t)
      /\ d.dirty = IF word < WORD_LIMIT THEN c.dirty \cup {PageOf(word)} ELSE c.dirty
  BY <1>1, StoreRecords DEF t
<1> HIDE DEF d
<1>4. t.prevCycle <= t.cycle
  BY <1>1, <1>2 DEF LastCycle
<1>5. Good(d, tr, by)
  BY <1>3, <1>4, RecordsGood DEF Base
<1>6. Base(d, ps, tr, by) /\ DOMAIN d.prevCycle = DOMAIN c.prevCycle
  BY <1>2, <1>3, <1>5 DEF Base, Records
<1>7. ASSUME NEW T, Quiet(c, T) PROVE Quiet(d, T \cup {word})
  <2>1. T \subseteq T \cup {word} /\ word \in T \cup {word}
    OBVIOUS
  <2> QED
    BY <1>1, <1>2, <1>3, <1>7, <2>1, RecordsQuiet
<1>8. \A W : AloneLast(c, W) /\ word \notin W => AloneLast(d, W)
  BY <1>1, <1>2, <1>3, RecordsAlone
<1>9. \A X : Behind(c, X) => Behind(d, X \cup {word})
  BY <1>1, <1>2, <1>3, RecordsBehind
<1>10. /\ word \in DOMAIN c.mem /\ DOMAIN d.mem = DOMAIN c.mem /\ d.mem[word] = val
       /\ \A w \in DOMAIN c.mem : w # word => d.mem[w] = c.mem[w]
  BY <1>1, <1>2, <1>3 DEF Records
<1>11. Stores(c, d, ps, tr, by, word, val)
  BY <1>3, <1>6, <1>7, <1>8, <1>9, <1>10 DEF Stores
<1> QED
  BY <1>11 DEF d

\* d is c after words have been paged out and the digest of n became out.
PagedOut(c, d, ps, tr, by, words, n, out) ==
  /\ Base(d, ps, tr, by) /\ Closed(d) /\ d.dirty = c.dirty
  /\ DOMAIN d.prevCycle = DOMAIN c.prevCycle
  /\ DOMAIN d.mem = DOMAIN c.mem /\ d.mem[DigestWord(n)] = out
  /\ \A w \in DOMAIN c.mem : w # DigestWord(n) => d.mem[w] = c.mem[w]
  /\ \A T : Quiet(c, T) => Quiet(d, T \cup {DigestWord(n)})
  /\ \A W : AloneLast(c, W) /\ DigestWord(n) \notin W => AloneLast(d, W \cup words)

\* The digest a block was checked against.
LEMMA OutReadIs ==
  ASSUME NEW c, NEW ps, NEW tr, NEW by, Base(c, ps, tr, by), Closed(c),
         NEW n \in Nodes, DigestWord(n) \in DOMAIN c.prevCycle, NEW out
  PROVE  PagedIn(c, DoOut(c, TRUE, n, out), ps, tr, by, {})
<1> DEFINE w == DigestWord(n)
           e == Load(c, READ, w)
           d == Complete(e)
<1>1. c.prevCycle[w] <= 2 * Len(c.cycles)
  <2>1. Len(c.cycles) \in Nat /\ c.prevCycle[w] \in Nat /\ c.prevCycle[w] < 2 * Len(c.cycles)
    BY DEF Base, Good, Shape, Closed
  <2> QED
    BY <2>1
<1>2. Reads(c, e, ps, tr, by)
  BY <1>1, ReadIs
<1>3. DoOut(c, TRUE, n, out) = d
  BY DEF DoOut
<1> HIDE DEF e
<1>4. /\ Base(d, ps, tr, by) /\ Closed(d) /\ d.mem = e.mem /\ d.dirty = e.dirty
      /\ d.prevCycle = e.prevCycle
      /\ \A T : Quiet(e, T) => Quiet(d, T)
  BY <1>2, GoodCloses DEF Reads
<1> HIDE DEF d
<1>5. PagedIn(c, d, ps, tr, by, {})
  BY <1>2, <1>4 DEF PagedIn, Reads
<1> QED
  BY <1>3, <1>5

\* The digest a block leaves.
LEMMA OutStoreIs ==
  ASSUME NEW c, NEW ps, NEW tr, NEW by, Base(c, ps, tr, by),
         NEW n \in Nodes, DigestWord(n) \in DOMAIN c.prevCycle, NEW out
  PROVE  PagedOut(c, DoOut(c, FALSE, n, out), ps, tr, by, {}, n, out)
<1> DEFINE w == DigestWord(n)
           e == Store(c, w, out)
           d == Complete(e)
<1>1. ~ (w < WORD_LIMIT)
  BY DigestWords, LimitIsNat
<1>2. Stores(c, e, ps, tr, by, w, out)
  BY <1>1, StoreIs
<1>3. DoOut(c, FALSE, n, out) = d
  BY DEF DoOut
<1> HIDE DEF e
<1>4. /\ Base(d, ps, tr, by) /\ Closed(d) /\ d.mem = e.mem /\ d.dirty = e.dirty
      /\ d.prevCycle = e.prevCycle
      /\ \A T : Quiet(e, T) => Quiet(d, T)
      /\ \A W : AloneLast(e, W) => AloneLast(d, W)
  BY <1>2, GoodCloses DEF Stores
<1> HIDE DEF d
<1>5. \A T : Quiet(c, T) => Quiet(d, T \cup {w})
  BY <1>2, <1>4 DEF Stores
<1>6. \A W : AloneLast(c, W) /\ w \notin W => AloneLast(d, W \cup {})
  BY <1>2, <1>4 DEF Stores
<1>7. PagedOut(c, d, ps, tr, by, {}, n, out)
  BY <1>1, <1>2, <1>4, <1>5, <1>6 DEF PagedOut, Stores
<1> QED
  BY <1>3, <1>7

LEMMA PageInIs ==
  ASSUME NEW c, NEW ps, NEW tr, NEW by, Base(c, ps, tr, by), Closed(c),
         NEW word \in HeldWords(ps), word \notin DOMAIN c.prevCycle
  PROVE  PagedIn(c, LoadIn(c, TRUE, word), ps, tr, by, {word})
<1> DEFINE d == LoadIn(c, TRUE, word)
<1>1. d = Complete(Load(c, PAGE_IN, word))
  BY DEF LoadIn
<1> HIDE DEF d
<1>2. PagedIn(c, d, ps, tr, by, {word})
  BY <1>1, BlockIs
<1> QED
  BY <1>2 DEF d

LEMMA PageOutIs ==
  ASSUME NEW c, NEW ps, NEW tr, NEW by, Base(c, ps, tr, by), Closed(c),
         DOMAIN c.prevCycle = HeldWords(ps), NEW word \in HeldWords(ps)
  PROVE  LET d == LoadIn(c, FALSE, word)
         IN  /\ PagedIn(c, d, ps, tr, by, {})
             /\ \A W : AloneLast(c, W) => AloneLast(d, W \cup {word})
             /\ Ends(d, word, c.mem[word])
<1> DEFINE d == LoadIn(c, FALSE, word)
<1>1. d = Complete(Load(c, PAGE_OUT, word))
  BY DEF LoadIn
<1>2. PAGE_OUT # PAGE_IN
  BY DEF PAGE_IN, PAGE_OUT
<1> HIDE DEF d
<1>3. PagedIn(c, d, ps, tr, by, {word})
  BY <1>1, <1>2, BlockIs
<1>4. \A W : AloneLast(c, W) => AloneLast(d, W \cup {word})
  BY <1>1, <1>2, BlockIs
<1>5. Ends(d, word, c.mem[word])
  BY <1>1, <1>2, BlockIs
<1>6. PagedIn(c, d, ps, tr, by, {})
  BY <1>3 DEF PagedIn
<1> QED
  BY <1>4, <1>5, <1>6 DEF d

\* A node that is paged in, or out.
LEMMA NodeInIs ==
  ASSUME NEW c, NEW ps, NEW tr, NEW by, Base(c, ps, tr, by), Closed(c), ps \subseteq Pages,
         NEW n \in PagingNodes(ps), DigestWord(n) \in DOMAIN c.prevCycle,
         DigestWord(2 * n) \notin DOMAIN c.prevCycle, DigestWord(2 * n + 1) \notin DOMAIN c.prevCycle
  PROVE  PagedIn(c, P2DoNode(c, n, TRUE), ps, tr, by, {DigestWord(2 * n), DigestWord(2 * n + 1)})
<1> DEFINE r   == DigestWord(2 * n + 1)
           l   == DigestWord(2 * n)
           one == LoadIn(c, TRUE, r)
           two == LoadIn(one, TRUE, l)
           out == HashPair(c.mem[l], c.mem[r])
           d   == DoOut(two, TRUE, n, out)
<1>0. /\ n \in Nodes /\ 2 * n \in Nodes /\ 2 * n + 1 \in Nodes /\ r # l
      /\ r \in HeldWords(ps) /\ l \in HeldWords(ps)
  BY KnownAre, DigestWords, NodesAre, AbovePages DEF HeldWords
<1>1. PagedIn(c, one, ps, tr, by, {r})
  BY <1>0, PageInIs
<1>2. P2DoNode(c, n, TRUE) = d
  BY Zenon DEF P2DoNode
<1> HIDE DEF r, l, one, out
<1>3. PagedIn(one, two, ps, tr, by, {l})
  <2>1. l \notin DOMAIN one.prevCycle
    BY <1>0, <1>1 DEF PagedIn, l
  <2> QED
    BY <1>0, <1>1, <2>1, PageInIs DEF PagedIn
<1> HIDE DEF two
<1>4. PagedIn(two, d, ps, tr, by, {})
  <2>1. DigestWord(n) \in DOMAIN two.prevCycle
    BY <1>1, <1>3 DEF PagedIn
  <2> QED
    BY <1>0, <1>3, <2>1, OutReadIs DEF PagedIn
<1> HIDE DEF d
<1>5. PagedIn(c, d, ps, tr, by, {l, r})
  BY <1>1, <1>3, <1>4 DEF PagedIn
<1> QED
  BY <1>2, <1>5 DEF l, r

LEMMA NodeOutIs ==
  ASSUME NEW c, NEW ps, NEW tr, NEW by, Base(c, ps, tr, by), Closed(c), ps \subseteq Pages,
         NEW n \in PagingNodes(ps), DOMAIN c.prevCycle = HeldWords(ps)
  PROVE  PagedOut(c, P2DoNode(c, n, FALSE), ps, tr, by, {DigestWord(2 * n), DigestWord(2 * n + 1)},
                  n, HashPair(c.mem[DigestWord(2 * n)], c.mem[DigestWord(2 * n + 1)]))
<1> DEFINE r   == DigestWord(2 * n + 1)
           l   == DigestWord(2 * n)
           one == LoadIn(c, FALSE, r)
           two == LoadIn(one, FALSE, l)
           out == HashPair(c.mem[l], c.mem[r])
           d   == DoOut(two, FALSE, n, out)
<1>0. /\ n \in Nodes /\ 2 * n \in Nodes /\ 2 * n + 1 \in Nodes
      /\ DigestWord(n) # l /\ DigestWord(n) # r
      /\ r \in HeldWords(ps) /\ l \in HeldWords(ps) /\ DigestWord(n) \in HeldWords(ps)
  <2>1. n \in Nat \ {0} /\ n \in Nodes /\ 2 * n \in Nodes /\ 2 * n + 1 \in Nodes
    BY NodesAre, AbovePages
  <2>2. n # 2 * n /\ n # 2 * n + 1
    BY <2>1
  <2>3. {n, 2 * n, 2 * n + 1} \subseteq KnownDigests(ps)
    BY KnownAre
  <2> QED
    BY <2>1, <2>2, <2>3, DigestWords DEF HeldWords
<1>1. PagedIn(c, one, ps, tr, by, {}) /\ \A W : AloneLast(c, W) => AloneLast(one, W \cup {r})
  BY <1>0, PageOutIs
<1>2. P2DoNode(c, n, FALSE) = d
  BY Zenon DEF P2DoNode
<1> HIDE DEF r, l, one, out
<1>3. PagedIn(one, two, ps, tr, by, {}) /\ \A W : AloneLast(one, W) => AloneLast(two, W \cup {l})
  <2>1. DOMAIN one.prevCycle = HeldWords(ps) /\ Base(one, ps, tr, by) /\ Closed(one)
    BY <1>1 DEF PagedIn
  <2>2. PagedIn(one, LoadIn(one, FALSE, l), ps, tr, by, {})
    BY <1>0, <2>1, PageOutIs
  <2>3. \A W : AloneLast(one, W) => AloneLast(LoadIn(one, FALSE, l), W \cup {l})
    BY <1>0, <2>1, PageOutIs
  <2> QED
    BY <2>2, <2>3
<1> HIDE DEF two
<1>4. PagedOut(two, d, ps, tr, by, {}, n, out)
  <2>1. DigestWord(n) \in DOMAIN two.prevCycle
    BY <1>0, <1>1, <1>3 DEF PagedIn
  <2> QED
    BY <1>0, <1>3, <2>1, OutStoreIs DEF PagedIn
<1> HIDE DEF d
<1>5. ASSUME NEW W, AloneLast(c, W), DigestWord(n) \notin W
      PROVE  AloneLast(d, W \cup {l, r})
  <2>1. AloneLast(two, (W \cup {r}) \cup {l})
    BY <1>1, <1>3, <1>5
  <2>2. DigestWord(n) \notin (W \cup {r}) \cup {l}
    BY <1>0, <1>5
  <2>3. AloneLast(d, ((W \cup {r}) \cup {l}) \cup {})
    BY <1>4, <2>1, <2>2 DEF PagedOut
  <2>4. ((W \cup {r}) \cup {l}) \cup {} = W \cup {l, r}
    OBVIOUS
  <2> QED
    BY <2>3, <2>4
<1>6. PagedOut(c, d, ps, tr, by, {l, r}, n, out)
  BY <1>1, <1>3, <1>4, <1>5 DEF PagedIn, PagedOut
<1> QED
  BY <1>2, <1>6 DEF l, r, out

-----------------------------------------------------------------------------
(* While the guest runs                                                    *)

Main(c, ps, tr, by, X) ==
  /\ Base(c, ps, tr, by) /\ DOMAIN c.prevCycle = HeldWords(ps)
  /\ Quiet(c, WordsIn(c.dirty)) /\ DigestsTrue(c, ps, Above(c.dirty))
  /\ ~ by => Behind(c, X)

LEMMA DataSame ==
  ASSUME NEW one, NEW two, NEW p \in Pages, DOMAIN one = DOMAIN two,
         \A w \in WordsIn({p}) : w \in DOMAIN one => one[w] = two[w]
  PROVE  DataIn(one, p) = DataIn(two, p)
<1>1. \A o \in Offsets : PageWord(p, o) \in WordsIn({p})
  BY PageWords DEF WordsIn
<1> QED
  BY <1>1 DEF DataIn

LEMMA QuietGrows ==
  ASSUME NEW c, NEW T, NEW T2, Quiet(c, T), \A w \in T : w \in T2
  PROVE  Quiet(c, T2)
BY DEF Quiet

LEMMA MainLoad ==
  ASSUME NEW c, NEW ps, NEW tr, NEW by, NEW X, Main(c, ps, tr, by, X),
         NEW word \in HeldWords(ps), ~ by => word \notin X
  PROVE  Main(Load(c, READ, word), ps, tr, by, X)
<1> DEFINE d == Load(c, READ, word)
<1>1. ~ by => c.prevCycle[word] <= 2 * Len(c.cycles)
  BY DEF Main, Behind
<1>2. Reads(c, d, ps, tr, by)
  <2>1. Base(c, ps, tr, by) /\ word \in DOMAIN c.prevCycle
    BY DEF Main
  <2> QED
    BY <1>1, <2>1, ReadIs
<1> HIDE DEF d
<1>3. Main(d, ps, tr, by, X)
  BY <1>2 DEF Main, Reads, DigestsTrue
<1> QED
  BY <1>3 DEF d

LEMMA MainStore ==
  ASSUME NEW c, NEW ps, NEW tr, NEW by, NEW X, Main(c, ps, tr, by, X), ps \subseteq Pages,
         NEW word \in WordsIn(ps), NEW val
  PROVE  Main(Store(c, word, val), ps, tr, by, X \cup {word})
<1> DEFINE d == Store(c, word, val)
<1>1. word < WORD_LIMIT /\ PageOf(word) \in ps /\ word \in HeldWords(ps) /\ word \in 0 .. WORD_LIMIT - 1
  BY LimitIsNat DEF WordsIn, HeldWords
<1>2. Stores(c, d, ps, tr, by, word, val)
  <2>1. Base(c, ps, tr, by) /\ word \in DOMAIN c.prevCycle
    BY <1>1 DEF Main
  <2> QED
    BY <1>1, <2>1, StoreIs
<1> HIDE DEF d
<1>3. /\ Base(d, ps, tr, by) /\ DOMAIN d.prevCycle = HeldWords(ps)
      /\ d.dirty = c.dirty \cup {PageOf(word)}
      /\ DOMAIN d.mem = DOMAIN c.mem /\ \A w \in DOMAIN c.mem : w # word => d.mem[w] = c.mem[w]
      /\ ~ by => Behind(d, X \cup {word})
  BY <1>1, <1>2 DEF Main, Stores
<1>4. Quiet(d, WordsIn(d.dirty))
  <2>1. Quiet(d, WordsIn(c.dirty) \cup {word})
    BY <1>2 DEF Main, Stores
  <2>2. \A w \in WordsIn(c.dirty) \cup {word} : w \in WordsIn(d.dirty)
    BY <1>1, <1>3 DEF WordsIn
  <2> QED
    BY <2>1, <2>2, QuietGrows
<1>5. DigestsTrue(d, ps, Above(d.dirty))
  <2> SUFFICES ASSUME NEW n \in KnownDigests(ps) \ Above(d.dirty)
               PROVE  d.mem[DigestWord(n)] = DigestsOf(d.mem)[n]
    BY DEF DigestsTrue
  <2>1. n \in Nodes
    BY KnownAre
  <2>2. n \notin Above(c.dirty)
    BY <1>3 DEF Above
  <2>3. c.mem[DigestWord(n)] = DigestsOf(c.mem)[n]
    BY <2>2 DEF Main, DigestsTrue
  <2>4. d.mem[DigestWord(n)] = c.mem[DigestWord(n)]
    <3>1. DigestWord(n) \in DOMAIN c.mem
      BY DEF Main, Base, HeldWords
    <3>2. DigestWord(n) # word
      BY <2>1, DigestWords
    <3> QED
      BY <1>3, <3>1, <3>2
  <2>5. ASSUME NEW p \in Pages, n \in Path(Leaf(p)) PROVE DataIn(d.mem, p) = DataIn(c.mem, p)
    <3>1. p # PageOf(word)
      BY <1>3, <2>1, <2>5 DEF Above
    <3>2. \A w \in WordsIn({p}) : w # word
      BY <3>1 DEF WordsIn
    <3> QED
      BY <1>3, <3>2, DataSame
  <2>6. DigestsOf(d.mem)[n] = DigestsOf(c.mem)[n]
    BY <2>1, <2>5, DigestsAgree
  <2> QED
    BY <2>3, <2>4, <2>6
<1>6. Main(d, ps, tr, by, X \cup {word})
  BY <1>3, <1>4, <1>5 DEF Main
<1> QED
  BY <1>6 DEF d

LEMMA MainComplete ==
  ASSUME NEW c, NEW ps, NEW tr, NEW by, NEW X, Main(c, ps, tr, by, X)
  PROVE  /\ \A Y : Main(Complete(c), ps, tr, by, Y)
         /\ Closed(Complete(c))
<1> DEFINE d == Complete(c)
<1>1. /\ Base(d, ps, tr, by) /\ Closed(d) /\ Behind(d, {})
      /\ d.mem = c.mem /\ d.dirty = c.dirty /\ d.prevCycle = c.prevCycle
      /\ \A T : Quiet(c, T) => Quiet(d, T)
  BY GoodCloses DEF Main
<1> HIDE DEF d
<1>2. \A Y : Behind(d, Y)
  BY <1>1 DEF Behind
<1>3. \A Y : Main(d, ps, tr, by, Y)
  BY <1>1, <1>2 DEF Main, DigestsTrue
<1> QED
  BY <1>1, <1>3 DEF d

LEMMA MainRewind ==
  ASSUME NEW c, NEW ps, NEW tr, NEW by, NEW X, Main(c, ps, tr, by, X)
  PROVE  Main(TrapRewind(c), ps, TRUE, by, X)
<1> DEFINE d == TrapRewind(c)
<1>1. Shape(c)
  BY DEF Main, Base, Good
<1>2. /\ Listed(d.txns) /\ Len(d.txns) = c.memCycle /\ c.memCycle \in 0 .. Len(c.txns)
      /\ \A i \in 1 .. c.memCycle : d.txns[i] = c.txns[i]
      /\ d.cycles = c.cycles /\ d.memCycle = c.memCycle
      /\ d.prevCycle = c.prevCycle /\ d.origValue = c.origValue
      /\ d.mem = c.mem /\ d.dirty = c.dirty
  BY <1>1, RewindIs
<1>3. Good(d, TRUE, by)
  BY RewindGood DEF Main, Base
<1>4. \A i \in 1 .. c.memCycle : i \in 1 .. Len(c.txns)
  BY <1>1, <1>2, AppendListed DEF Shape
<1> HIDE DEF d
<1>5. Quiet(d, WordsIn(d.dirty))
  BY <1>2, <1>4 DEF Main, Quiet
<1>6. Main(d, ps, TRUE, by, X)
  BY <1>2, <1>3, <1>5 DEF Main, Base, DigestsTrue, Behind
<1> QED
  BY <1>6 DEF d

LEMMA MainWeakens ==
  ASSUME NEW c, NEW ps, NEW tr, NEW by, NEW X, Main(c, ps, tr, by, X),
         NEW by2, by => by2, NEW X2, by2 \/ X \subseteq X2
  PROVE  Main(c, ps, tr, by2, X2)
BY DEF Main, Base, Good, Behind

LEMMA MainAnyway ==
  ASSUME NEW c, NEW ps, Main(c, ps, FALSE, FALSE, {}), NEW tr, NEW by, NEW X
  PROVE  Main(c, ps, tr, by, X)
BY DEF Main, Base, Good, Behind

\* The words of a guest's pages.
GuestPageWords(ps) == WordsIn(ps \cap GuestPages)

LEMMA SystemWords ==
  ASSUME NEW ps, PageOf(REG_WORD) \in ps
  PROVE  /\ STATE_WORD \in WordsIn(ps) /\ REG_WORD \in WordsIn(ps)
         /\ WordsIn(ps) \subseteq HeldWords(ps)
         /\ \A word \in GuestPageWords(ps) : word \in WordsIn(ps) /\ word # STATE_WORD
         /\ REG_WORD # STATE_WORD
BY SystemPageAssumption DEF WordsIn, HeldWords, GuestPageWords

LEMMA ResumedIs ==
  ASSUME NEW c, NEW ps, NEW tr, NEW by, Main(c, ps, tr, by, {}), ps \subseteq Pages,
         PageOf(REG_WORD) \in ps
  PROVE  Main(Resumed(c), ps, tr, by, {})
<1> DEFINE S   == STATE_WORD
           one == Load(c, READ, S)
           two == Load(one, READ, S)
           thr == Complete(two)
           fou == Store(thr, S, 0)
<1>0. S \in WordsIn(ps) /\ S \in HeldWords(ps)
  BY SystemWords
<1>1. Resumed(c) = Complete(fou)
  BY DEF Resumed
<1> HIDE DEF S, one, two, thr, fou
<1>2. Main(one, ps, tr, by, {})
  BY <1>0, MainLoad DEF one
<1>3. Main(two, ps, tr, by, {})
  BY <1>0, <1>2, MainLoad DEF two
<1>4. Main(thr, ps, tr, by, {})
  BY <1>3, MainComplete DEF thr
<1>5. Main(fou, ps, tr, by, {} \cup {S})
  BY <1>0, <1>4, MainStore DEF fou
<1> QED
  BY <1>1, <1>5, MainComplete

LEMMA SuspendedIs ==
  ASSUME NEW c, NEW ps, NEW tr, NEW by, NEW X, Main(c, ps, tr, by, X), ps \subseteq Pages,
         PageOf(REG_WORD) \in ps
  PROVE  Main(Suspended(c), ps, tr, by, {}) /\ Closed(Suspended(c))
<1> DEFINE S   == STATE_WORD
           one == Store(c, S, 0)
           two == Store(one, S, 1)
           thr == Complete(two)
           fou == Load(thr, READ, S)
<1>0. S \in WordsIn(ps) /\ S \in HeldWords(ps)
  BY SystemWords
<1>1. Suspended(c) = Complete(fou)
  BY DEF Suspended
<1> HIDE DEF S, one, two, thr, fou
<1>2. Main(one, ps, tr, by, X \cup {S})
  BY <1>0, MainStore DEF one
<1>3. Main(two, ps, tr, by, (X \cup {S}) \cup {S})
  BY <1>0, <1>2, MainStore DEF two
<1>4. Main(thr, ps, tr, by, {})
  BY <1>3, MainComplete DEF thr
<1>5. Main(fou, ps, tr, by, {})
  BY <1>0, <1>4, MainLoad DEF fou
<1> QED
  BY <1>1, <1>5, MainComplete

LEMMA LoadedIs ==
  ASSUME NEW c, NEW ps, NEW tr, NEW by, NEW X, Main(c, ps, tr, by, X), ps \subseteq Pages,
         PageOf(REG_WORD) \in ps, X \subseteq {STATE_WORD},
         NEW code \in GuestPageWords(ps), NEW word \in GuestPageWords(ps)
  PROVE  Main(Load(Load(Load(c, READ, code), READ, REG_WORD), READ, word), ps, tr, by, X)
<1> DEFINE one == Load(c, READ, code)
           two == Load(one, READ, REG_WORD)
<1>0. /\ code \in HeldWords(ps) /\ word \in HeldWords(ps) /\ REG_WORD \in HeldWords(ps)
      /\ code \notin X /\ word \notin X /\ REG_WORD \notin X
  BY SystemWords
<1> HIDE DEF one, two
<1>1. Main(one, ps, tr, by, X)
  BY <1>0, MainLoad DEF one
<1>2. Main(two, ps, tr, by, X)
  BY <1>0, <1>1, MainLoad DEF two
<1>3. Main(Load(two, READ, word), ps, tr, by, X)
  BY <1>0, <1>2, MainLoad
<1> QED
  BY <1>3 DEF one, two

LEMMA InstructionIs ==
  ASSUME NEW c, NEW ps, NEW tr, NEW by, NEW X, Main(c, ps, tr, by, X), ps \subseteq Pages,
         PageOf(REG_WORD) \in ps, X \subseteq {STATE_WORD},
         NEW code \in GuestPageWords(ps), NEW word \in GuestPageWords(ps)
  PROVE  LET loaded == Load(Load(Load(c, READ, code), READ, REG_WORD), READ, word)
         IN  /\ Main(Complete(loaded), ps, tr, by, X)
             /\ \A w \in {word, REG_WORD}, v \in Val :
                  Main(Complete(Store(loaded, w, v)), ps, tr, by, X)
<1> DEFINE loaded == Load(Load(Load(c, READ, code), READ, REG_WORD), READ, word)
<1>1. Main(loaded, ps, tr, by, X)
  BY LoadedIs
<1> HIDE DEF loaded
<1>2. Main(Complete(loaded), ps, tr, by, X)
  BY <1>1, MainComplete
<1>3. ASSUME NEW w \in {word, REG_WORD}, NEW v \in Val
      PROVE  Main(Complete(Store(loaded, w, v)), ps, tr, by, X)
  <2>1. w \in WordsIn(ps)
    BY SystemWords
  <2>2. Main(Store(loaded, w, v), ps, tr, by, X \cup {w})
    BY <1>1, <2>1, MainStore
  <2> QED
    BY <2>2, MainComplete
<1> QED
  BY <1>2, <1>3 DEF loaded

LEMMA TrapIs ==
  ASSUME NEW c, NEW ps, NEW tr, NEW by, Main(c, ps, tr, by, {}), ps \subseteq Pages,
         PageOf(REG_WORD) \in ps,
         NEW code \in GuestPageWords(ps), NEW word \in GuestPageWords(ps)
  PROVE  LET loaded == Load(Load(Load(c, READ, code), READ, REG_WORD), READ, word)
         IN  Main(Store(Load(TrapRewind(loaded), READ, STATE_WORD), STATE_WORD, 0),
                  ps, TRUE, by, {STATE_WORD})
<1> DEFINE loaded == Load(Load(Load(c, READ, code), READ, REG_WORD), READ, word)
           back   == TrapRewind(loaded)
           table  == Load(back, READ, STATE_WORD)
<1>1. STATE_WORD \in WordsIn(ps) /\ STATE_WORD \in HeldWords(ps)
  BY SystemWords
<1>2. Main(loaded, ps, tr, by, {})
  BY LoadedIs
<1> HIDE DEF loaded
<1>3. Main(back, ps, TRUE, by, {})
  BY <1>2, MainRewind
<1> HIDE DEF back
<1>4. Main(table, ps, TRUE, by, {})
  BY <1>1, <1>3, MainLoad
<1> HIDE DEF table
<1>5. Main(Store(table, STATE_WORD, 0), ps, TRUE, by, {} \cup {STATE_WORD})
  BY <1>1, <1>4, MainStore
<1> QED
  BY <1>5 DEF table, back, loaded

\* A byte that is written by a host read.
ByteTo(c, word, val) == Store(Load(c, READ, word), word, val)

LEMMA ByteIs ==
  ASSUME NEW c, NEW ps, NEW tr, NEW by, NEW X, Main(c, ps, tr, by, X), ps \subseteq Pages,
         NEW word \in WordsIn(ps), by \/ word \notin X, NEW val
  PROVE  Main(ByteTo(c, word, val), ps, tr, by, X \cup {word})
<1> DEFINE one == Load(c, READ, word)
<1>1. word \in HeldWords(ps)
  BY DEF HeldWords
<1>2. Main(one, ps, tr, by, X)
  BY <1>1, MainLoad
<1> HIDE DEF one
<1>3. Main(Store(one, word, val), ps, tr, by, X \cup {word})
  BY <1>2, MainStore
<1> QED
  BY <1>3 DEF ByteTo, one

\* What a host read does before it writes.
AskedBy(c, code, val) ==
  Complete(Store(Load(Complete(Load(Load(c, READ, code), READ, REG_WORD)), READ, REG_WORD),
                 REG_WORD, val))

LEMMA AskedIs ==
  ASSUME NEW c, NEW ps, NEW tr, NEW by, NEW X, Main(c, ps, tr, by, X), ps \subseteq Pages,
         PageOf(REG_WORD) \in ps, X \subseteq {STATE_WORD},
         NEW code \in GuestPageWords(ps), NEW val
  PROVE  Main(AskedBy(c, code, val), ps, tr, by, {})
<1> DEFINE one == Load(c, READ, code)
           two == Load(one, READ, REG_WORD)
           thr == Complete(two)
           fou == Load(thr, READ, REG_WORD)
           fiv == Store(fou, REG_WORD, val)
<1>0. /\ code \in HeldWords(ps) /\ REG_WORD \in WordsIn(ps) /\ REG_WORD \in HeldWords(ps)
      /\ code \notin X /\ REG_WORD \notin X
  BY SystemWords
<1>1. AskedBy(c, code, val) = Complete(fiv)
  BY DEF AskedBy
<1> HIDE DEF one, two, thr, fou, fiv
<1>2. Main(one, ps, tr, by, X)
  BY <1>0, MainLoad DEF one
<1>3. Main(two, ps, tr, by, X)
  BY <1>0, <1>2, MainLoad DEF two
<1>4. Main(thr, ps, tr, by, {})
  BY <1>3, MainComplete DEF thr
<1>5. Main(fou, ps, tr, by, {})
  BY <1>0, <1>4, MainLoad DEF fou
<1>6. Main(fiv, ps, tr, by, {} \cup {REG_WORD})
  BY <1>0, <1>5, MainStore DEF fiv
<1> QED
  BY <1>1, <1>6, MainComplete

\* After a host read.  Two bytes, or one and no block, leave bytewise set.
HostReads(c, code, word, bytes, block, val) ==
  LET asked   == AskedBy(c, code, val)
      written == CASE bytes = 0 -> asked
                   [] bytes = 1 -> ByteTo(asked, word, val)
                   [] bytes = 2 -> ByteTo(ByteTo(asked, word, val), word, val)
  IN  IF block THEN Complete(Store(Store(written, word, val), STATE_WORD, 0)) ELSE written

LEMMA HostReadIs ==
  ASSUME NEW c, NEW ps, NEW tr, NEW by, NEW X, Main(c, ps, tr, by, X), ps \subseteq Pages,
         PageOf(REG_WORD) \in ps, X \subseteq {STATE_WORD},
         NEW code \in GuestPageWords(ps), NEW word \in GuestPageWords(ps), NEW val,
         NEW bytes \in 0 .. 2, NEW block \in BOOLEAN,
         NEW by2, by2 <=> (by \/ bytes > 1 \/ (bytes = 1 /\ ~ block))
  PROVE  Main(HostReads(c, code, word, bytes, block, val), ps, tr, by2, X)
<1> DEFINE asked   == AskedBy(c, code, val)
           one     == ByteTo(asked, word, val)
           two     == ByteTo(one, word, val)
           written == CASE bytes = 0 -> asked [] bytes = 1 -> one [] bytes = 2 -> two
           full    == Store(written, word, val)
           done    == Store(full, STATE_WORD, 0)
<1>1. word \in WordsIn(ps) /\ STATE_WORD \in WordsIn(ps)
  BY SystemWords
<1>2. Main(asked, ps, tr, by, {})
  BY AskedIs
<1> HIDE DEF asked
<1>3. Main(one, ps, tr, by, {} \cup {word})
  BY <1>1, <1>2, ByteIs
<1> HIDE DEF one
<1>4. bytes = 2 => Main(two, ps, tr, by2, {word} \cup {word})
  <2>1. SUFFICES ASSUME bytes = 2 PROVE Main(two, ps, tr, by2, {word} \cup {word})
    OBVIOUS
  <2>2. by2
    BY <2>1
  <2>3. Main(one, ps, tr, by2, {word})
    BY <1>3, <2>2, MainWeakens
  <2> QED
    BY <1>1, <2>2, <2>3, ByteIs
<1> HIDE DEF two
<1>5. (bytes = 0 \/ bytes = 1 \/ bytes = 2) /\ (by => by2)
  OBVIOUS
<1>6. Main(written, ps, tr, by2, {word})
  <2>1. CASE bytes = 0
    <3>1. written = asked
      BY <2>1
    <3>2. Main(asked, ps, tr, by2, {word})
      BY <1>2, <1>5, MainWeakens
    <3> QED
      BY <3>1, <3>2
  <2>2. CASE bytes = 1
    <3>1. written = one
      BY <2>2
    <3>2. Main(one, ps, tr, by2, {word})
      BY <1>3, <1>5, MainWeakens
    <3> QED
      BY <3>1, <3>2
  <2>3. CASE bytes = 2
    <3>1. written = two
      BY <2>3
    <3>2. Main(two, ps, tr, by2, {word})
      BY <1>4, <2>3
    <3> QED
      BY <3>1, <3>2
  <2> QED
    BY <1>5, <2>1, <2>2, <2>3
<1>7. ~ block => Main(written, ps, tr, by2, X)
  <2>1. SUFFICES ASSUME ~ block PROVE Main(written, ps, tr, by2, X)
    OBVIOUS
  <2>2. CASE bytes = 0
    <3>1. written = asked
      BY <2>2
    <3>2. Main(asked, ps, tr, by2, X)
      BY <1>2, <1>5, MainWeakens
    <3> QED
      BY <3>1, <3>2
  <2>3. CASE bytes # 0
    <3>1. by2
      BY <2>1, <2>3
    <3> HIDE DEF written
    <3> QED
      BY <1>6, <3>1, MainWeakens
  <2> QED
    BY <2>2, <2>3
<1> HIDE DEF written
<1>8. Main(full, ps, tr, by2, {word} \cup {word})
  BY <1>1, <1>6, MainStore
<1> HIDE DEF full
<1>9. Main(done, ps, tr, by2, ({word} \cup {word}) \cup {STATE_WORD})
  BY <1>1, <1>8, MainStore
<1> HIDE DEF done
<1>10. Main(Complete(done), ps, tr, by2, X)
  BY <1>9, MainComplete
<1>11. Main(IF block THEN Complete(done) ELSE written, ps, tr, by2, X)
  BY <1>7, <1>10
<1> QED
  BY <1>11 DEF done, full, written, two, one, asked, HostReads

-----------------------------------------------------------------------------
(* While pages are read                                                    *)

Fresh(c, ps) ==
  /\ Base(c, ps, FALSE, FALSE) /\ Closed(c) /\ c.dirty = {}
  /\ Quiet(c, {}) /\ DigestsTrue(c, ps, {})

RootAt(c, ps) == Fresh(c, ps) /\ DOMAIN c.prevCycle = {}

ReadDigests(ps, nl)    == {n \in KnownDigests(ps) : n = 1 \/ n \div 2 \notin nl}
ReadWords(ps, pl, off) ==
  {w \in WordsIn(ps) : PageOf(w) \in pl => Least(PageOf(w), pl) /\ OffsetOf(w) < off}

\* Each word is paged in once: what has been is what the loops are past.
InAt(c, ps, nl, pl, off) ==
  /\ Fresh(c, ps)
  /\ nl \subseteq PagingNodes(ps) /\ pl \subseteq ps /\ off \in 0 .. PAGE_SIZE_WORDS
  /\ pl = {} => off = 0
  /\ DOMAIN c.prevCycle = {DigestWord(n) : n \in ReadDigests(ps, nl)} \cup ReadWords(ps, pl, off)

LEMMA FreshStays ==
  ASSUME NEW c, NEW d, NEW ps, NEW words, Fresh(c, ps), PagedIn(c, d, ps, FALSE, FALSE, words)
  PROVE  Fresh(d, ps)
BY DEF Fresh, PagedIn, DigestsTrue

LEMMA RootIsRead ==
  ASSUME NEW c, NEW ps, RootAt(c, ps), ps \subseteq Pages
  PROVE  InAt(LoadIn(c, TRUE, DigestWord(1)), ps, PagingNodes(ps), ps, 0)
<1> DEFINE d == LoadIn(c, TRUE, DigestWord(1))
<1>1. 1 \in KnownDigests(ps) /\ DigestWord(1) \in HeldWords(ps)
  BY DEF KnownDigests, HeldWords
<1>2. PagedIn(c, d, ps, FALSE, FALSE, {DigestWord(1)})
  BY <1>1, PageInIs DEF RootAt, Fresh
<1> HIDE DEF d
<1>3. Fresh(d, ps)
  BY <1>2, FreshStays DEF RootAt
<1>4. ReadDigests(ps, PagingNodes(ps)) = {1}
  BY <1>1, KnownAre DEF ReadDigests
<1>5. ReadWords(ps, ps, 0) = {}
  BY PageWords DEF ReadWords, WordsIn, Offsets
<1>6. DOMAIN d.prevCycle = {DigestWord(1)}
  BY <1>2 DEF PagedIn, RootAt
<1>7. 0 \in 0 .. PAGE_SIZE_WORDS
  BY Geometry
<1>8. InAt(d, ps, PagingNodes(ps), ps, 0)
  BY <1>3, <1>4, <1>5, <1>6, <1>7 DEF InAt
<1> QED
  BY <1>8 DEF d

LEMMA NodeIsRead ==
  ASSUME NEW c, NEW ps, NEW nl, NEW pl, NEW off, InAt(c, ps, nl, pl, off), ps \subseteq Pages,
         NEW n, Least(n, nl)
  PROVE  InAt(P2DoNode(c, n, TRUE), ps, nl \ {n}, pl, off)
<1> DEFINE d == P2DoNode(c, n, TRUE)
           l == 2 * n
           r == 2 * n + 1
           seen(k) == {DigestWord(m) : m \in ReadDigests(ps, k)}
<1>1. n \in PagingNodes(ps) /\ n \in Inner /\ n \in nl /\ n \in Nat \ {0}
  BY AbovePages, NodesAre DEF InAt, Least
<1>2. l \in KnownDigests(ps) /\ r \in KnownDigests(ps) /\ n \in KnownDigests(ps)
  BY <1>1, KnownAre
<1>3. KnownDigests(ps) \subseteq Nodes /\ l \div 2 = n /\ r \div 2 = n /\ l # 1 /\ r # 1
  <2>1. \A x \in Nat : (2 * x) \div 2 = x /\ (2 * x + 1) \div 2 = x
    BY SMT
  <2> QED
    BY <1>1, <2>1, KnownAre
<1>4. \A m \in KnownDigests(ps) : m # 1 /\ m \div 2 = n => m = l \/ m = r
  BY <1>1, <1>3, NodesAre
<1>5. \A m \in KnownDigests(ps) : DigestWord(m) \in seen(nl) => m \in ReadDigests(ps, nl)
  BY <1>3, DigestWords DEF ReadDigests
<1>6. \A m \in KnownDigests(ps) : DigestWord(m) \notin ReadWords(ps, pl, off)
  BY <1>3, DigestWords DEF ReadWords
<1>7. n \in ReadDigests(ps, nl)
  <2>1. n # 1 => n \div 2 \in Nat /\ n \div 2 < n
    BY <1>1, NodesAre, SMT
  <2> QED
    BY <1>1, <1>2, <2>1 DEF ReadDigests, Least
<1>8. l \notin ReadDigests(ps, nl) /\ r \notin ReadDigests(ps, nl)
  BY <1>1, <1>3 DEF ReadDigests
<1>9. ReadDigests(ps, nl \ {n}) = ReadDigests(ps, nl) \cup {l, r}
  BY <1>1, <1>2, <1>3, <1>4 DEF ReadDigests
<1> HIDE DEF l, r
<1>10. seen(nl \ {n}) = seen(nl) \cup {DigestWord(l), DigestWord(r)}
  BY <1>9
<1>11. /\ DigestWord(n) \in DOMAIN c.prevCycle
       /\ DigestWord(l) \notin DOMAIN c.prevCycle
       /\ DigestWord(r) \notin DOMAIN c.prevCycle
  BY <1>2, <1>5, <1>6, <1>7, <1>8 DEF InAt
<1>12. PagedIn(c, d, ps, FALSE, FALSE, {DigestWord(l), DigestWord(r)})
  BY <1>1, <1>11, NodeInIs DEF InAt, Fresh, l, r
<1> HIDE DEF d
<1>13. Fresh(d, ps)
  BY <1>12, FreshStays DEF InAt
<1>14. DOMAIN d.prevCycle = seen(nl \ {n}) \cup ReadWords(ps, pl, off)
  BY <1>10, <1>12 DEF PagedIn, InAt
<1>15. InAt(d, ps, nl \ {n}, pl, off)
  BY <1>13, <1>14 DEF InAt
<1> QED
  BY <1>15 DEF d

LEMMA BlockIsRead ==
  ASSUME NEW c, NEW ps, NEW pl, NEW off, InAt(c, ps, {}, pl, off), ps \subseteq Pages,
         NEW p, Least(p, pl), off < PAGE_SIZE_WORDS
  PROVE  InAt(LoadIn(c, TRUE, PageWord(p, off)), ps, {}, pl, off + 1)
<1> DEFINE w == PageWord(p, off)
           d == LoadIn(c, TRUE, w)
           seen == {DigestWord(m) : m \in ReadDigests(ps, {})}
<1>1. p \in ps /\ p \in pl /\ p \in Pages /\ off \in Offsets /\ PAGE_SIZE_WORDS \in Nat
      /\ off \in Nat /\ off + 1 \in 0 .. PAGE_SIZE_WORDS
  BY Geometry DEF InAt, Least, Offsets
<1>2. /\ w \in WordsIn(ps) /\ w \in HeldWords(ps) /\ PageOf(w) = p /\ OffsetOf(w) = off
  BY <1>1, PageWords DEF WordsIn, HeldWords
<1>3. \A v \in WordsIn(ps) : PageOf(v) = p /\ OffsetOf(v) = off => v = w
  BY PageWords DEF WordsIn
<1>4. \A v \in WordsIn(ps) : OffsetOf(v) \in Nat
  BY PageWords DEF WordsIn, Offsets
<1>5. \A q : Least(q, pl) => q = p
  <2>1. pl \subseteq Nat
    BY DEF InAt, Pages
  <2> QED
    BY <2>1 DEF Least
<1>6. w \notin DOMAIN c.prevCycle
  <2>1. w \notin ReadWords(ps, pl, off)
    BY <1>1, <1>2 DEF ReadWords
  <2>2. w \notin seen
    BY <1>2, KnownAre, DigestWords DEF ReadDigests
  <2> QED
    BY <2>1, <2>2 DEF InAt
<1>7. ReadWords(ps, pl, off + 1) = ReadWords(ps, pl, off) \cup {w}
  <2>1. \A x \in Nat : x < off + 1 <=> x < off \/ x = off
    BY <1>1
  <2> HIDE DEF w
  <2> QED
    BY <1>1, <1>2, <1>3, <1>4, <1>5, <2>1 DEF ReadWords
<1> HIDE DEF w
<1>8. PagedIn(c, d, ps, FALSE, FALSE, {w})
  BY <1>2, <1>6, PageInIs DEF InAt, Fresh
<1> HIDE DEF d
<1>9. Fresh(d, ps)
  BY <1>8, FreshStays DEF InAt
<1>10. DOMAIN d.prevCycle = seen \cup ReadWords(ps, pl, off + 1)
  BY <1>7, <1>8 DEF PagedIn, InAt
<1>11. pl # {}
  BY <1>1
<1>12. InAt(d, ps, {}, pl, off + 1)
  BY <1>1, <1>9, <1>10, <1>11 DEF InAt
<1> QED
  BY <1>12 DEF d, w

LEMMA PageIsRead ==
  ASSUME NEW c, NEW ps, NEW pl, InAt(c, ps, {}, pl, PAGE_SIZE_WORDS), ps \subseteq Pages,
         NEW p, Least(p, pl), NEW out
  PROVE  InAt(DoOut(c, TRUE, Leaf(p), out), ps, {}, pl \ {p}, 0)
<1> DEFINE d == DoOut(c, TRUE, Leaf(p), out)
           seen == {DigestWord(m) : m \in ReadDigests(ps, {})}
<1>1. p \in ps /\ p \in pl /\ p \in Pages /\ 0 \in 0 .. PAGE_SIZE_WORDS
  BY Geometry DEF InAt, Least
<1>2. Leaf(p) \in Nodes /\ DigestWord(Leaf(p)) \in DOMAIN c.prevCycle
  <2>1. Leaf(p) \in ReadDigests(ps, {})
    BY <1>1, KnownAre DEF ReadDigests
  <2> QED
    BY <1>1, <2>1, LeafIsNode DEF InAt
<1>3. \A v \in WordsIn(ps) : OffsetOf(v) \in Nat /\ OffsetOf(v) < PAGE_SIZE_WORDS
  BY PageWords, Geometry DEF WordsIn, Offsets
<1>4. ReadWords(ps, pl \ {p}, 0) = ReadWords(ps, pl, PAGE_SIZE_WORDS)
  <2>1. \A q : Least(q, pl) => q = p
    <3>1. pl \subseteq Nat
      BY DEF InAt, Pages
    <3> QED
      BY <3>1 DEF Least
  <2>2. \A v \in WordsIn(ps) : ~ (OffsetOf(v) < 0)
    BY <1>3
  <2> QED
    BY <1>3, <2>1, <2>2 DEF ReadWords
<1>5. PagedIn(c, d, ps, FALSE, FALSE, {})
  BY <1>2, OutReadIs DEF InAt, Fresh
<1> HIDE DEF d
<1>6. Fresh(d, ps)
  BY <1>5, FreshStays DEF InAt
<1>7. DOMAIN d.prevCycle = seen \cup ReadWords(ps, pl \ {p}, 0)
  BY <1>4, <1>5 DEF PagedIn, InAt
<1>8. InAt(d, ps, {}, pl \ {p}, 0)
  BY <1>1, <1>6, <1>7 DEF InAt
<1> QED
  BY <1>8 DEF d

LEMMA AllIsRead ==
  ASSUME NEW c, NEW ps, InAt(c, ps, {}, {}, 0)
  PROVE  Main(c, ps, FALSE, FALSE, {})
<1>1. ReadDigests(ps, {}) = KnownDigests(ps) /\ ReadWords(ps, {}, 0) = WordsIn(ps)
  BY DEF ReadDigests, ReadWords
<1>2. DOMAIN c.prevCycle = HeldWords(ps)
  BY <1>1 DEF InAt, HeldWords
<1>3. Quiet(c, WordsIn(c.dirty)) /\ DigestsTrue(c, ps, Above(c.dirty))
  BY DEF InAt, Fresh, Quiet, DigestsTrue
<1>4. Behind(c, {})
  <2>1. Len(c.cycles) \in Nat /\ \A w \in DOMAIN c.prevCycle : c.prevCycle[w] \in Nat
    BY DEF InAt, Fresh, Base, Good, Shape
  <2> QED
    BY <2>1 DEF InAt, Fresh, Closed, Behind
<1> QED
  BY <1>2, <1>3, <1>4 DEF Main, InAt, Fresh

-----------------------------------------------------------------------------
(* While pages are written                                                 *)

\* The digests the loops have stored, and the words they have paged out.
Refreshed(D, nl, pl) == {Leaf(p) : p \in D \ pl} \cup (PagingNodes(D) \ nl)
OutNodes(D, nl)      == {n \in Nodes : n # 1 /\ n \div 2 \in PagingNodes(D) \ nl}
OutPages(D, pl, off) ==
  {w \in WordsIn(D) : PageOf(w) \in pl => Greatest(PageOf(w), pl) /\ OffsetOf(w) < off}

Stored(D, nl, pl) == WordsIn(D) \cup {DigestWord(n) : n \in Refreshed(D, nl, pl)}
OutWords(D, nl, pl, off) == OutPages(D, pl, off) \cup {DigestWord(n) : n \in OutNodes(D, nl)}

\* How far the loops over the dirty pages D and the nodes above have come.
OutLoops(D, nl, pl, off) ==
  /\ nl \subseteq PagingNodes(D) /\ pl \subseteq D /\ off \in 0 .. PAGE_SIZE_WORDS
  /\ pl = {} => off = 0
  /\ pl # {} => nl = PagingNodes(D)
  /\ \A m \in PagingNodes(D) \ nl, n \in nl : n < m

\* A digest is stored before it is paged out, which is the last of it.
OutAt(c, ps, nl, pl, off, tr, by) ==
  /\ Base(c, ps, tr, by) /\ DOMAIN c.prevCycle = HeldWords(ps) /\ Closed(c)
  /\ OutLoops(c.dirty, nl, pl, off)
  /\ Quiet(c, Stored(c.dirty, nl, pl))
  /\ DigestsTrue(c, ps, Above(c.dirty) \ Refreshed(c.dirty, nl, pl))
  /\ AloneLast(c, OutWords(c.dirty, nl, pl, off))

LEMMA AboveIs ==
  ASSUME NEW D, D \subseteq Pages
  PROVE  /\ Above(D) = {Leaf(p) : p \in D} \cup PagingNodes(D)
         /\ \A ps : D \subseteq ps /\ ps \subseteq Pages => PagingNodes(D) \subseteq PagingNodes(ps)
<1>1. \A p \in D : Leaf(p) \in Nodes /\ Leaf(p) \in Path(Leaf(p))
  BY LeafIsNode, LeafOnOwnPath
<1>2. \A n \in Nodes, p \in D : n \in Path(Leaf(p)) /\ n \notin Inner => n = Leaf(p)
  BY NodesAre, OneLeafPerPath
<1>3. PagingNodes(D) \subseteq Nodes
  BY NodesAre DEF PagingNodes
<1>4. Above(D) = {Leaf(p) : p \in D} \cup PagingNodes(D)
  BY <1>1, <1>2, <1>3 DEF Above, PagingNodes
<1>5. \A ps : D \subseteq ps /\ ps \subseteq Pages => PagingNodes(D) \subseteq PagingNodes(ps)
  BY DEF PagingNodes
<1> QED
  BY <1>4, <1>5

LEMMA AloneShrinks ==
  ASSUME NEW c, NEW W, NEW W2, AloneLast(c, W), \A w \in W2 : w \in W
  PROVE  AloneLast(c, W2)
BY DEF AloneLast

\* A digest that is stored is no data: the digests of the memory stay.
LEMMA DigestIsStored ==
  ASSUME NEW c, NEW d, NEW ps, NEW tr, NEW by, NEW words, NEW n \in KnownDigests(ps), NEW out,
         PagedOut(c, d, ps, tr, by, words, n, out), Base(c, ps, tr, by), ps \subseteq Pages,
         NEW stale, NEW stale2, DigestsTrue(c, ps, stale), out = DigestsOf(c.mem)[n],
         \A m \in Nodes : m \in stale => m \in stale2 \/ m = n
  PROVE  DigestsTrue(d, ps, stale2)
<1>1. KnownDigests(ps) \subseteq Nodes /\ n \in Nodes
  <2>1. KnownDigests(ps) \subseteq Nodes
    BY KnownAre
  <2> QED
    BY <2>1
<1>2. \A p \in Pages : DataIn(d.mem, p) = DataIn(c.mem, p)
  <2>1. \A p \in Pages : \A w \in WordsIn({p}) : w # DigestWord(n)
    BY <1>1, DigestWords
  <2>2. /\ DOMAIN d.mem = DOMAIN c.mem
        /\ \A w \in DOMAIN c.mem : w # DigestWord(n) => d.mem[w] = c.mem[w]
    BY DEF PagedOut
  <2> QED
    BY <2>1, <2>2, DataSame
<1>3. \A m \in Nodes : DigestsOf(d.mem)[m] = DigestsOf(c.mem)[m]
  BY <1>2, DigestsAgree
<1> SUFFICES ASSUME NEW m \in KnownDigests(ps) \ stale2
             PROVE  d.mem[DigestWord(m)] = DigestsOf(d.mem)[m]
  BY DEF DigestsTrue
<1>4. CASE m = n
  BY <1>1, <1>3, <1>4 DEF PagedOut
<1>5. CASE m # n
  <2>1. m \notin stale /\ m \in Nodes
    BY <1>1, <1>5
  <2>2. c.mem[DigestWord(m)] = DigestsOf(c.mem)[m]
    BY <2>1 DEF DigestsTrue
  <2>3. DigestWord(m) # DigestWord(n) /\ DigestWord(m) \in DOMAIN c.mem
    BY <1>1, <1>5, DigestWords DEF Base, HeldWords
  <2>4. d.mem[DigestWord(m)] = c.mem[DigestWord(m)]
    BY <2>3 DEF PagedOut
  <2> QED
    BY <1>3, <2>1, <2>2, <2>4
<1> QED
  BY <1>4, <1>5

LEMMA SuspendedOut ==
  ASSUME NEW c, NEW ps, NEW tr, NEW by, NEW X, Main(c, ps, tr, by, X), Closed(c), ps \subseteq Pages
  PROVE  OutAt(c, ps, PagingNodes(c.dirty), c.dirty, 0, tr, by)
<1> DEFINE D == c.dirty
<1>1. Refreshed(D, PagingNodes(D), D) = {} /\ OutNodes(D, PagingNodes(D)) = {}
  BY DEF Refreshed, OutNodes
<1>2. OutPages(D, D, 0) = {}
  BY PageWords DEF OutPages, WordsIn, Offsets
<1>3. OutLoops(D, PagingNodes(D), D, 0)
  BY Geometry DEF OutLoops
<1>4. Quiet(c, Stored(D, PagingNodes(D), D))
  BY <1>1, QuietGrows DEF Main, Stored
<1>5. DigestsTrue(c, ps, Above(D) \ Refreshed(D, PagingNodes(D), D))
  BY <1>1 DEF Main
<1>6. AloneLast(c, OutWords(D, PagingNodes(D), D, 0))
  BY <1>1, <1>2 DEF AloneLast, OutWords
<1> QED
  BY <1>3, <1>4, <1>5, <1>6 DEF Main, OutAt

LEMMA BlockIsWritten ==
  ASSUME NEW c, NEW ps, NEW nl, NEW pl, NEW off, NEW tr, NEW by,
         OutAt(c, ps, nl, pl, off, tr, by), ps \subseteq Pages,
         NEW p, Greatest(p, pl), off < PAGE_SIZE_WORDS
  PROVE  OutAt(LoadIn(c, FALSE, PageWord(p, off)), ps, nl, pl, off + 1, tr, by)
<1> DEFINE w == PageWord(p, off)
           d == LoadIn(c, FALSE, w)
           D == c.dirty
<1>1. /\ p \in pl /\ p \in D /\ p \in ps /\ D \subseteq Pages /\ off \in Offsets
      /\ PAGE_SIZE_WORDS \in Nat /\ off + 1 \in 0 .. PAGE_SIZE_WORDS
  BY Geometry DEF OutAt, OutLoops, Base, Greatest, Offsets
<1>2. w \in HeldWords(ps) /\ PageOf(w) = p /\ OffsetOf(w) = off
  BY <1>1, PageWords DEF WordsIn, HeldWords
<1>3. \A v \in WordsIn(D) : /\ PageOf(v) = p /\ OffsetOf(v) = off => v = w
                            /\ OffsetOf(v) \in Nat
  BY PageWords DEF WordsIn, Offsets
<1>4. \A q : Greatest(q, pl) => q = p
  <2>1. pl \subseteq Nat
    BY <1>1 DEF OutAt, OutLoops, Pages
  <2> QED
    BY <2>1 DEF Greatest
<1> HIDE DEF w
<1>5. PagedIn(c, d, ps, tr, by, {})
  BY <1>2, PageOutIs DEF OutAt
<1>6. AloneLast(d, OutWords(D, nl, pl, off) \cup {w})
  <2>1. \A W : AloneLast(c, W) => AloneLast(d, W \cup {w})
    BY <1>2, PageOutIs DEF OutAt
  <2> QED
    BY <2>1 DEF OutAt
<1> HIDE DEF d
<1>7. AloneLast(d, OutWords(D, nl, pl, off + 1))
  <2>1. \A x \in Nat : x < off + 1 <=> x < off \/ x = off
    BY <1>1 DEF Offsets
  <2>2. \A v \in OutPages(D, pl, off + 1) : v \in OutPages(D, pl, off) \/ v = w
    BY <1>3, <1>4, <2>1 DEF OutPages
  <2>3. \A v \in OutWords(D, nl, pl, off + 1) : v \in OutWords(D, nl, pl, off) \cup {w}
    BY <2>2 DEF OutWords
  <2> QED
    BY <1>6, <2>3, AloneShrinks
<1>8. OutLoops(D, nl, pl, off + 1)
  BY <1>1 DEF OutAt, OutLoops
<1>9. d.dirty = D /\ d.mem = c.mem
  BY <1>5 DEF PagedIn
<1>10. OutAt(d, ps, nl, pl, off + 1, tr, by)
  <2>1. Base(d, ps, tr, by) /\ DOMAIN d.prevCycle = HeldWords(ps) /\ Closed(d)
    BY <1>5 DEF PagedIn, OutAt
  <2>2. Quiet(d, Stored(D, nl, pl))
    BY <1>5 DEF PagedIn, OutAt
  <2>3. DigestsTrue(d, ps, Above(D) \ Refreshed(D, nl, pl))
    BY <1>9 DEF OutAt, DigestsTrue
  <2> QED
    BY <1>7, <1>8, <1>9, <2>1, <2>2, <2>3 DEF OutAt
<1> QED
  BY <1>10 DEF d, w

LEMMA PageIsWritten ==
  ASSUME NEW c, NEW ps, NEW nl, NEW pl, NEW tr, NEW by,
         OutAt(c, ps, nl, pl, PAGE_SIZE_WORDS, tr, by), ps \subseteq Pages,
         NEW p, Greatest(p, pl)
  PROVE  OutAt(DoOut(c, FALSE, Leaf(p), HashPage(DataIn(c.mem, p))), ps, nl, pl \ {p}, 0, tr, by)
<1> DEFINE out == HashPage(DataIn(c.mem, p))
           n   == Leaf(p)
           d   == DoOut(c, FALSE, n, out)
           D   == c.dirty
           S   == PAGE_SIZE_WORDS
<1>1. p \in pl /\ p \in D /\ p \in ps /\ p \in Pages /\ D \subseteq Pages
  BY DEF OutAt, OutLoops, Base, Greatest
<1>2. n \in Nodes /\ n \in KnownDigests(ps) /\ DigestWord(n) \in HeldWords(ps)
  BY <1>1, LeafIsNode, KnownAre DEF HeldWords
<1>3. nl = PagingNodes(D) /\ OutNodes(D, nl) = {}
  BY <1>1 DEF OutAt, OutLoops, OutNodes
<1>4. out = DigestsOf(c.mem)[n]
  BY <1>1, DigestsAre
<1> HIDE DEF out
<1>5. PagedOut(c, d, ps, tr, by, {}, n, out)
  BY <1>2, OutStoreIs DEF OutAt
<1> HIDE DEF d
<1>6. d.dirty = D /\ Base(d, ps, tr, by) /\ Closed(d) /\ DOMAIN d.prevCycle = HeldWords(ps)
  BY <1>5 DEF PagedOut, OutAt
<1>7. Refreshed(D, nl, pl \ {p}) = Refreshed(D, nl, pl) \cup {n}
  BY <1>1 DEF Refreshed
<1>8. Quiet(d, Stored(D, nl, pl \ {p}))
  <2>1. Quiet(d, Stored(D, nl, pl) \cup {DigestWord(n)})
    BY <1>5 DEF PagedOut, OutAt
  <2> HIDE DEF n
  <2>2. \A w \in Stored(D, nl, pl) \cup {DigestWord(n)} : w \in Stored(D, nl, pl \ {p})
    BY <1>7 DEF Stored
  <2> QED
    BY <2>1, <2>2, QuietGrows
<1>9. DigestsTrue(d, ps, Above(D) \ Refreshed(D, nl, pl \ {p}))
  <2> DEFINE old == Above(D) \ Refreshed(D, nl, pl)
             new == Above(D) \ Refreshed(D, nl, pl \ {p})
  <2> HIDE DEF n
  <2>1. \A m \in Nodes : m \in old => m \in new \/ m = n
    BY <1>7
  <2>2. DigestsTrue(c, ps, old) /\ Base(c, ps, tr, by)
    BY DEF OutAt
  <2> HIDE DEF D, old, new
  <2>3. DigestsTrue(d, ps, new)
    BY <1>2, <1>4, <1>5, <2>1, <2>2, DigestIsStored
  <2> QED
    BY <2>3 DEF new
<1>10. AloneLast(d, OutWords(D, nl, pl \ {p}, 0))
  <2>1. \A w \in WordsIn(D) : OffsetOf(w) \in Nat /\ OffsetOf(w) < S
    BY PageWords, Geometry DEF WordsIn, Offsets
  <2>2. \A w \in OutPages(D, pl \ {p}, 0) : w \in OutPages(D, pl, S)
    BY <1>1, <2>1 DEF OutPages
  <2>3. \A w \in OutWords(D, nl, pl \ {p}, 0) : w \in OutWords(D, nl, pl, S)
    BY <2>2 DEF OutWords
  <2>4. DigestWord(n) \notin OutWords(D, nl, pl, S)
    BY <1>2, <1>3, DigestWords DEF OutWords, OutPages
  <2>5. AloneLast(d, OutWords(D, nl, pl, S) \cup {})
    BY <1>5, <2>4 DEF PagedOut, OutAt
  <2>6. \A w \in OutWords(D, nl, pl \ {p}, 0) : w \in OutWords(D, nl, pl, S) \cup {}
    BY <2>3
  <2> QED
    BY <2>5, <2>6, AloneShrinks
<1>11. OutLoops(D, nl, pl \ {p}, 0)
  BY <1>3, Geometry DEF OutAt, OutLoops
<1>12. OutAt(d, ps, nl, pl \ {p}, 0, tr, by)
  BY <1>6, <1>8, <1>9, <1>10, <1>11 DEF OutAt
<1> QED
  BY <1>12 DEF d, out

LEMMA NodeIsWritten ==
  ASSUME NEW c, NEW ps, NEW nl, NEW off, NEW tr, NEW by,
         OutAt(c, ps, nl, {}, off, tr, by), ps \subseteq Pages,
         NEW n, Greatest(n, nl)
  PROVE  OutAt(P2DoNode(c, n, FALSE), ps, nl \ {n}, {}, off, tr, by)
<1> DEFINE l   == 2 * n
           r   == 2 * n + 1
           out == HashPair(c.mem[DigestWord(l)], c.mem[DigestWord(r)])
           d   == P2DoNode(c, n, FALSE)
           D   == c.dirty
<1>1. /\ D \subseteq ps /\ D \subseteq Pages /\ n \in nl /\ n \in PagingNodes(D)
      /\ off = 0 /\ nl \subseteq PagingNodes(D)
  BY DEF OutAt, OutLoops, Base, Greatest
<1>2. PagingNodes(D) \subseteq PagingNodes(ps) /\ PagingNodes(D) \subseteq Inner
  BY <1>1, AboveIs DEF PagingNodes
<1>3. /\ n \in Inner /\ n \in Nodes /\ l \in Nodes /\ r \in Nodes /\ n \in Nat \ {0}
      /\ n < l /\ n < r
  <2>1. n \in Inner /\ n \in Nodes /\ l \in Nodes /\ r \in Nodes /\ n \in Nat \ {0}
    BY <1>1, <1>2, NodesAre
  <2> QED
    BY <2>1
<1>4. {n, l, r} \subseteq KnownDigests(ps)
  BY <1>1, <1>2, KnownAre
<1>5. \A m \in nl : m \in Nat /\ m <= n
  BY <1>1, <1>2, NodesAre DEF Greatest
<1>6. \A m \in Above(D) : m \in {l, r} => m \in Refreshed(D, nl, {})
  BY <1>1, <1>3, <1>5, AboveIs DEF Refreshed
<1>7. out = DigestsOf(c.mem)[n]
  <2>1. /\ c.mem[DigestWord(l)] = DigestsOf(c.mem)[l]
        /\ c.mem[DigestWord(r)] = DigestsOf(c.mem)[r]
    <3>1. DigestsTrue(c, ps, Above(D) \ Refreshed(D, nl, {}))
      BY DEF OutAt
    <3> QED
      BY <1>4, <1>6, <3>1 DEF DigestsTrue
  <2> QED
    BY <1>3, <2>1, DigestsAre
<1> HIDE DEF out
<1>8. PagedOut(c, d, ps, tr, by, {DigestWord(l), DigestWord(r)}, n, out)
  BY <1>1, <1>2, NodeOutIs DEF OutAt, out
<1> HIDE DEF d
<1>9. d.dirty = D /\ Base(d, ps, tr, by) /\ Closed(d) /\ DOMAIN d.prevCycle = HeldWords(ps)
  BY <1>8 DEF PagedOut, OutAt
<1>10. Refreshed(D, nl \ {n}, {}) = Refreshed(D, nl, {}) \cup {n}
  BY <1>1 DEF Refreshed
<1>11. Quiet(d, Stored(D, nl \ {n}, {}))
  <2>1. Quiet(d, Stored(D, nl, {}) \cup {DigestWord(n)})
    BY <1>8 DEF PagedOut, OutAt
  <2>2. \A w \in Stored(D, nl, {}) \cup {DigestWord(n)} : w \in Stored(D, nl \ {n}, {})
    BY <1>10 DEF Stored
  <2> QED
    BY <2>1, <2>2, QuietGrows
<1>12. DigestsTrue(d, ps, Above(D) \ Refreshed(D, nl \ {n}, {}))
  <2> DEFINE stale  == Above(D) \ Refreshed(D, nl, {})
             stale2 == Above(D) \ Refreshed(D, nl \ {n}, {})
             words  == {DigestWord(l), DigestWord(r)}
  <2>1. \A m \in Nodes : m \in stale => m \in stale2 \/ m = n
    BY <1>10
  <2>2. DigestsTrue(c, ps, stale) /\ Base(c, ps, tr, by)
    BY DEF OutAt
  <2>3. n \in KnownDigests(ps)
    BY <1>4
  <2>4. PagedOut(c, d, ps, tr, by, words, n, out)
    BY <1>8
  <2> HIDE DEF stale, stale2, words
  <2>5. DigestsTrue(d, ps, stale2)
    BY <1>7, <2>1, <2>2, <2>3, <2>4, DigestIsStored
  <2> QED
    BY <2>5 DEF stale2
<1>13. AloneLast(d, OutWords(D, nl \ {n}, {}, off))
  <2>1. \A m \in OutNodes(D, nl \ {n}) : m \in OutNodes(D, nl) \/ m \in {l, r}
    BY NodesAre DEF OutNodes
  <2>2. n \notin OutNodes(D, nl)
    <3>1. ASSUME n # 1 PROVE n \div 2 \notin PagingNodes(D) \ nl
      <4>1. n \div 2 \in Nat /\ n \div 2 < n
        BY <1>3, <3>1, NodesAre, SMT
      <4>2. \A m \in PagingNodes(D) \ nl : n < m
        BY <1>1 DEF OutAt, OutLoops
      <4> QED
        BY <1>3, <4>1, <4>2
    <3> QED
      BY <3>1 DEF OutNodes
  <2>3. DigestWord(n) \notin OutWords(D, nl, {}, off)
    BY <1>3, <2>2, DigestWords DEF OutWords, OutPages, OutNodes
  <2>4. AloneLast(d, OutWords(D, nl, {}, off) \cup {DigestWord(l), DigestWord(r)})
    BY <1>8, <2>3 DEF PagedOut, OutAt
  <2> HIDE DEF l, r
  <2>5. \A w \in OutWords(D, nl \ {n}, {}, off) :
          w \in OutWords(D, nl, {}, off) \cup {DigestWord(l), DigestWord(r)}
    BY <2>1 DEF OutWords
  <2> QED
    BY <2>4, <2>5, AloneShrinks
<1>14. OutLoops(D, nl \ {n}, {}, off)
  <2>1. \A m \in PagingNodes(D) \ (nl \ {n}), k \in nl \ {n} : k < m
    <3> SUFFICES ASSUME NEW m \in PagingNodes(D) \ (nl \ {n}), NEW k \in nl \ {n} PROVE k < m
      OBVIOUS
    <3>1. CASE m = n
      BY <1>3, <1>5, <3>1
    <3>2. CASE m # n
      BY <3>2 DEF OutAt, OutLoops
    <3> QED
      BY <3>1, <3>2
  <2> QED
    BY <2>1 DEF OutAt, OutLoops
<1>15. OutAt(d, ps, nl \ {n}, {}, off, tr, by)
  BY <1>9, <1>11, <1>12, <1>13, <1>14 DEF OutAt
<1> QED
  BY <1>15 DEF d

-----------------------------------------------------------------------------
(* The last pass                                                           *)

\* The words that were stored, and paged out last.
Changed(D) == WordsIn(D) \cup {DigestWord(n) : n \in Above(D)}

FixupAt(c, ps, tr, by) ==
  /\ Base(c, ps, tr, by) /\ DOMAIN c.prevCycle = HeldWords(ps)
  /\ Quiet(c, Changed(c.dirty)) /\ AloneLast(c, Changed(c.dirty))
  /\ Ends(c, DigestWord(1), DigestsOf(c.mem)[1])

LEMMA RootIsWritten ==
  ASSUME NEW c, NEW ps, NEW off, NEW tr, NEW by,
         OutAt(c, ps, {}, {}, off, tr, by), ps \subseteq Pages
  PROVE  FixupAt(LoadIn(c, FALSE, DigestWord(1)), ps, tr, by)
<1> DEFINE w == DigestWord(1)
           d == LoadIn(c, FALSE, w)
           D == c.dirty
<1>1. D \subseteq Pages /\ 1 \in KnownDigests(ps) /\ w \in HeldWords(ps) /\ 1 \in Nodes
  BY NodesAre DEF OutAt, Base, KnownDigests, HeldWords
<1>2. Above(D) = Refreshed(D, {}, {})
  BY <1>1, AboveIs DEF Refreshed
<1>3. c.mem[w] = DigestsOf(c.mem)[1]
  BY <1>1, <1>2 DEF OutAt, DigestsTrue
<1> HIDE DEF w
<1>4. PagedIn(c, d, ps, tr, by, {})
  BY <1>1, PageOutIs DEF OutAt
<1>5. AloneLast(d, OutWords(D, {}, {}, off) \cup {w})
  <2>1. \A W : AloneLast(c, W) => AloneLast(d, W \cup {w})
    BY <1>1, PageOutIs DEF OutAt
  <2> QED
    BY <2>1 DEF OutAt
<1>6. Ends(d, w, c.mem[w])
  BY <1>1, PageOutIs DEF OutAt
<1> HIDE DEF d
<1>7. Quiet(d, Changed(D))
  <2>1. Changed(D) = Stored(D, {}, {})
    BY <1>2 DEF Changed, Stored
  <2> QED
    BY <1>4, <2>1 DEF PagedIn, OutAt
<1>8. AloneLast(d, Changed(D))
  <2>1. \A n \in Above(D) : n = 1 \/ n \in OutNodes(D, {})
    <3>1. \A n \in Above(D) : n \in Nodes /\ n \in KnownDigests(D)
      BY <1>1, AboveIs, KnownAre DEF Above
    <3> QED
      BY <1>1, <3>1, KnownAre DEF OutNodes
  <2>2. \A v \in Changed(D) : v \in OutWords(D, {}, {}, off) \cup {w}
    BY <2>1 DEF Changed, OutWords, OutPages, w
  <2> QED
    BY <1>5, <2>2, AloneShrinks
<1>9. d.mem = c.mem /\ d.dirty = D
  BY <1>4 DEF PagedIn
<1>10. FixupAt(d, ps, tr, by)
  <2>1. Base(d, ps, tr, by) /\ DOMAIN d.prevCycle = HeldWords(ps)
    BY <1>4 DEF PagedIn, OutAt
  <2>2. Ends(d, DigestWord(1), DigestsOf(d.mem)[1])
    BY <1>3, <1>6, <1>9 DEF w
  <2> QED
    BY <1>7, <1>8, <1>9, <2>1, <2>2 DEF FixupAt
<1> QED
  BY <1>10 DEF d, w

LEMMA WrappedIs ==
  ASSUME NEW c, Shape(c)
  PROVE  LET d == WrappedUp(c)
             n == Len(c.txns)
         IN  /\ n \in Nat /\ Len(d.txns) = n /\ DOMAIN d.txns = 1 .. n /\ DOMAIN c.txns = 1 .. n
             /\ \A i \in 1 .. n :
                  /\ d.txns[i].kind = c.txns[i].kind /\ d.txns[i].word = c.txns[i].word
                  /\ d.txns[i].cycle = c.txns[i].cycle /\ d.txns[i].prevVal = c.txns[i].prevVal
                  /\ d.txns[i].prevCycle = IF c.txns[i].prevCycle = FIRST
                                           THEN c.prevCycle[c.txns[i].word]
                                           ELSE c.txns[i].prevCycle
                  /\ d.txns[i].val = IF c.txns[i].cycle # c.prevCycle[c.txns[i].word]
                                     THEN c.txns[i].val
                                     ELSE c.origValue[c.txns[i].word]
             /\ d.cycles = c.cycles /\ d.memCycle = c.memCycle /\ d.mem = c.mem
<1> DEFINE d == WrappedUp(c)
           n == Len(c.txns)
<1>1. n \in Nat /\ DOMAIN c.txns = 1 .. n
  BY AppendListed DEF Shape
<1>2. /\ d.txns = [i \in DOMAIN c.txns |-> Wrapped(c, c.txns[i])]
      /\ d.cycles = c.cycles /\ d.memCycle = c.memCycle /\ d.mem = c.mem
  BY DEF WrappedUp
<1> HIDE DEF d
<1>3. Len(d.txns) = n /\ DOMAIN d.txns = 1 .. n
  <2>1. DOMAIN d.txns = 1 .. n
    BY <1>1, <1>2
  <2>2. d.txns \in Seq({d.txns[i] : i \in 1 .. n})
    <3>1. d.txns = [i \in 1 .. n |-> d.txns[i]]
      BY <1>1, <1>2
    <3>2. d.txns \in [1 .. n -> {d.txns[i] : i \in 1 .. n}]
      BY <3>1
    <3> QED
      BY <1>1, <3>2, SeqDef
  <2> QED
    BY <1>1, <2>1, <2>2
<1>4. ASSUME NEW i \in 1 .. n
      PROVE  /\ d.txns[i].kind = c.txns[i].kind /\ d.txns[i].word = c.txns[i].word
             /\ d.txns[i].cycle = c.txns[i].cycle /\ d.txns[i].prevVal = c.txns[i].prevVal
             /\ d.txns[i].prevCycle = IF c.txns[i].prevCycle = FIRST
                                      THEN c.prevCycle[c.txns[i].word]
                                      ELSE c.txns[i].prevCycle
             /\ d.txns[i].val = IF c.txns[i].cycle # c.prevCycle[c.txns[i].word]
                                THEN c.txns[i].val
                                ELSE c.origValue[c.txns[i].word]
  <2> DEFINE t == c.txns[i]
  <2>1. t.word \in DOMAIN c.origValue
    BY DEF Shape, TxnShape
  <2>2. d.txns[i] = Wrapped(c, t)
    BY <1>1, <1>2
  <2> HIDE DEF t
  <2>3. d.txns[i] = Txn(t.kind, t.word, t.cycle,
                        IF t.cycle # c.prevCycle[t.word] THEN t.val ELSE c.origValue[t.word],
                        IF t.prevCycle = FIRST THEN c.prevCycle[t.word] ELSE t.prevCycle,
                        t.prevVal)
    BY <2>1, <2>2 DEF Wrapped
  <2> QED
    BY <2>3 DEF Txn, t
<1> QED
  BY <1>1, <1>2, <1>3, <1>4 DEF d

\* A word that was changed is last seen in a page-out, and any other holds the
\* value it had from the start.
LEMMA LastValues ==
  ASSUME NEW c, NEW ps, NEW tr, NEW by, FixupAt(c, ps, tr, by), NEW i \in 1 .. Len(c.txns),
         c.txns[i].cycle = c.prevCycle[c.txns[i].word]
  PROVE  \/ c.txns[i].kind = PAGE_OUT /\ LastOf(c, i)
         \/ /\ c.txns[i].val = c.origValue[c.txns[i].word]
            /\ c.txns[i].prevVal = c.origValue[c.txns[i].word]
<1>1. CASE c.txns[i].word \in Changed(c.dirty)
  BY <1>1 DEF FixupAt, AloneLast
<1>2. CASE c.txns[i].word \notin Changed(c.dirty)
  BY <1>2 DEF FixupAt, Quiet
<1> QED
  BY <1>1, <1>2

\* The pass leaves the value of a read or of a page-in what it found.
LEMMA WrappedReads ==
  ASSUME NEW c, NEW ps, NEW tr, NEW by, FixupAt(c, ps, tr, by)
  PROVE  LET d == WrappedUp(c)
         IN  \A i \in DOMAIN d.txns :
               d.txns[i].kind \in {READ, PAGE_IN} => d.txns[i].val = d.txns[i].prevVal
<1> DEFINE d == WrappedUp(c)
           n == Len(c.txns)
<1>1. Shape(c) /\ Kinded(c)
  BY DEF FixupAt, Base, Good
<1>2. /\ DOMAIN d.txns = 1 .. n
      /\ \A i \in 1 .. n :
           /\ d.txns[i].kind = c.txns[i].kind /\ d.txns[i].prevVal = c.txns[i].prevVal
           /\ d.txns[i].val = IF c.txns[i].cycle # c.prevCycle[c.txns[i].word]
                              THEN c.txns[i].val
                              ELSE c.origValue[c.txns[i].word]
  BY <1>1, WrappedIs
<1> HIDE DEF d
<1> SUFFICES ASSUME NEW i \in 1 .. n, c.txns[i].kind \in {READ, PAGE_IN}
             PROVE  d.txns[i].val = c.txns[i].prevVal
  BY <1>2 DEF d
<1>3. CASE c.txns[i].cycle # c.prevCycle[c.txns[i].word]
  <2>1. c.txns[i].kind # WRITE
    BY DEF READ, PAGE_IN, WRITE
  <2> QED
    BY <1>1, <1>2, <1>3, <2>1 DEF Kinded
<1>4. CASE c.txns[i].cycle = c.prevCycle[c.txns[i].word]
  <2>1. c.txns[i].kind # PAGE_OUT
    BY DEF READ, PAGE_IN, PAGE_OUT
  <2> QED
    BY <1>2, <1>4, <2>1, LastValues
<1> QED
  BY <1>3, <1>4

\* The transaction the memory argument sets against i: the one before it of
\* the same word, or of the first of a word, the last.
Before(c, j, i) ==
  IF c.txns[i].prevCycle = FIRST
  THEN c.txns[j].word = c.txns[i].word /\ LastOf(c, j)
  ELSE j \in 1 .. i - 1 /\ Follows(c, j, i)

LEMMA BeforeExists ==
  ASSUME NEW c, Shape(c), Linked(c), NEW i \in 1 .. Len(c.txns)
  PROVE  \E j \in 1 .. Len(c.txns) : Before(c, j, i)
<1> DEFINE n == Len(c.txns)
<1>1. n \in Nat /\ c.txns[i].word \in DOMAIN c.prevCycle
  BY AppendListed DEF Shape, TxnShape
<1>2. CASE c.txns[i].prevCycle = FIRST
  <2>1. PICK j \in 1 .. n : LastIs(c, j, c.txns[i].word)
    BY <1>1 DEF Linked
  <2> QED
    BY <1>2, <2>1 DEF Before, LastIs
<1>3. CASE c.txns[i].prevCycle # FIRST
  <2>1. PICK j \in 1 .. i - 1 : Follows(c, j, i)
    BY <1>3 DEF Linked, LinkedBack
  <2>2. j \in 1 .. n
    BY <1>1
  <2> QED
    BY <1>3, <2>1, <2>2 DEF Before
<1> QED
  BY <1>2, <1>3

LEMMA BeforeIsOne ==
  ASSUME NEW c, Shape(c), Linked(c), NEW i \in 1 .. Len(c.txns),
         NEW j \in 1 .. Len(c.txns), NEW k \in 1 .. Len(c.txns)
  PROVE  /\ Before(c, j, i) /\ Before(c, k, i) => j = k
         /\ Before(c, i, j) /\ Before(c, i, k) => j = k
<1> DEFINE n == Len(c.txns)
<1>1. n \in Nat
  BY AppendListed DEF Shape
<1>2. \A x, y \in 1 .. n : x < y /\ c.txns[x].word = c.txns[y].word
        => ~ LastOf(c, x) /\ ~ FirstOf(c, y)
  BY <1>1 DEF LastOf, FirstOf
<1>3. \A x \in 1 .. n : c.txns[x].prevCycle = FIRST => FirstOf(c, x)
  BY DEF Linked, LinkedBack
<1>4. \A x, y, z \in 1 .. n :
        x < y /\ y < z /\ c.txns[y].word = c.txns[z].word => ~ Follows(c, x, z)
  BY <1>1 DEF Follows
<1>5. ASSUME Before(c, j, i), Before(c, k, i) PROVE j = k
  <2>1. /\ c.txns[j].word = c.txns[i].word /\ c.txns[k].word = c.txns[i].word
        /\ \/ LastOf(c, j) /\ LastOf(c, k)
           \/ j < i /\ k < i /\ Follows(c, j, i) /\ Follows(c, k, i)
    BY <1>5 DEF Before, Follows
  <2>2. j < k \/ k < j \/ j = k
    BY <1>1
  <2> QED
    BY <1>2, <1>4, <2>1, <2>2
<1>6. ASSUME Before(c, i, j), Before(c, i, k) PROVE j = k
  <2>1. /\ c.txns[j].word = c.txns[i].word /\ c.txns[k].word = c.txns[i].word
        /\ \/ FirstOf(c, j) /\ LastOf(c, i)
           \/ i < j /\ Follows(c, i, j)
        /\ \/ FirstOf(c, k) /\ LastOf(c, i)
           \/ i < k /\ Follows(c, i, k)
    BY <1>3, <1>6 DEF Before, Follows
  <2>2. j < k \/ k < j \/ j = k
    BY <1>1
  <2> QED
    BY <1>2, <1>4, <2>1, <2>2
<1> QED
  BY <1>5, <1>6

LEMMA BeforeSome ==
  ASSUME NEW c, Shape(c), Linked(c), NEW j \in 1 .. Len(c.txns)
  PROVE  \E i \in 1 .. Len(c.txns) : Before(c, j, i)
<1> DEFINE n == Len(c.txns)
           same(k) == c.txns[k].word = c.txns[j].word
<1>1. n \in Nat /\ 1 .. n \subseteq Nat
  BY AppendListed DEF Shape
<1>2. CASE LastOf(c, j)
  <2> DEFINE S == {k \in 1 .. n : same(k)}
  <2>1. PICK i \in S : \A m \in S : i <= m
    <3>1. S \subseteq Nat /\ S # {}
      BY <1>1
    <3> HIDE DEF S
    <3> QED
      BY <3>1, LeastElement
  <2>2. \A m \in 1 .. i - 1 : c.txns[m].word # c.txns[i].word
    BY <1>1, <2>1
  <2>3. c.txns[i].prevCycle = FIRST
    <3>1. LinkedBack(c, i)
      BY DEF Linked
    <3> QED
      BY <2>2, <3>1 DEF LinkedBack, Follows
  <2>4. Before(c, j, i)
    BY <1>2, <2>3 DEF Before
  <2> QED
    BY <2>4
<1>3. CASE ~ LastOf(c, j)
  <2> DEFINE S == {k \in j + 1 .. n : same(k)}
  <2>1. PICK i \in S : \A m \in S : i <= m
    <3>1. S \subseteq Nat
      BY <1>1
    <3>2. S # {}
      BY <1>3 DEF LastOf
    <3> HIDE DEF S
    <3> QED
      BY <3>1, <3>2, LeastElement
  <2>2. i \in 1 .. n /\ j \in 1 .. i - 1 /\ same(i)
    BY <1>1, <2>1
  <2>3. \A m \in j + 1 .. i - 1 : c.txns[m].word # c.txns[i].word
    BY <1>1, <2>1
  <2>4. LinkedBack(c, i)
    BY <2>2 DEF Linked
  <2>5. c.txns[i].prevCycle # FIRST
    BY <2>2, <2>4 DEF LinkedBack, FirstOf
  <2>6. PICK k \in 1 .. i - 1 : Follows(c, k, i)
    BY <2>4, <2>5 DEF LinkedBack
  <2>7. k = j
    <3>1. ~ (k < j)
      BY <1>1, <2>2, <2>6 DEF Follows
    <3>2. ~ (j < k)
      BY <1>1, <2>2, <2>3, <2>6 DEF Follows
    <3> QED
      BY <1>1, <2>2, <3>1, <3>2
  <2> QED
    BY <2>2, <2>5, <2>6, <2>7 DEF Before
<1> QED
  BY <1>2, <1>3

\* What a row takes from the memory table is what the row before it put there.
LEMMA BeforeMatches ==
  ASSUME NEW c, NEW ps, NEW tr, NEW by, FixupAt(c, ps, tr, by), Linked(c),
         NEW i \in 1 .. Len(c.txns), NEW j \in 1 .. Len(c.txns), Before(c, j, i)
  PROVE  LET t == WrappedUp(c).txns
         IN  /\ t[i].word = t[j].word /\ t[i].prevCycle = t[j].cycle
             /\ t[i].prevVal = t[j].val
<1> DEFINE t == WrappedUp(c).txns
           n == Len(c.txns)
           w == c.txns[i].word
<1>1. Shape(c) /\ n \in Nat
  BY AppendListed DEF FixupAt, Base, Good, Shape
<1>2. /\ t[i].word = w /\ t[j].word = c.txns[j].word /\ t[j].cycle = c.txns[j].cycle
      /\ t[i].prevVal = c.txns[i].prevVal
      /\ t[i].prevCycle = IF c.txns[i].prevCycle = FIRST THEN c.prevCycle[w]
                          ELSE c.txns[i].prevCycle
      /\ t[j].val = IF c.txns[j].cycle # c.prevCycle[c.txns[j].word] THEN c.txns[j].val
                    ELSE c.origValue[c.txns[j].word]
  BY <1>1, WrappedIs
<1> HIDE DEF t
<1>3. LinkedBack(c, i)
  BY DEF Linked
<1>4. CASE c.txns[i].prevCycle = FIRST
  <2>1. c.txns[j].word = w /\ LastOf(c, j)
    BY <1>4 DEF Before
  <2>2. PICK k \in 1 .. n : LastIs(c, k, w)
    BY <1>1 DEF Shape, TxnShape, Linked
  <2>3. k = j
    <3>1. ~ (k < j) /\ ~ (j < k)
      BY <1>1, <2>1, <2>2 DEF LastIs, LastOf
    <3> QED
      BY <1>1, <3>1
  <2>4. c.prevCycle[w] = c.txns[j].cycle
    BY <2>2, <2>3 DEF LastIs
  <2>5. c.origValue[w] = c.txns[i].prevVal
    BY <1>3, <1>4 DEF LinkedBack
  <2> QED
    BY <1>2, <1>4, <2>1, <2>4, <2>5 DEF t
<1>5. CASE c.txns[i].prevCycle # FIRST
  <2>1. j \in 1 .. i - 1 /\ Follows(c, j, i)
    BY <1>5 DEF Before
  <2>2. c.txns[j].word = w /\ c.txns[i].prevCycle = c.txns[j].cycle
        /\ c.txns[i].prevVal = c.txns[j].val
    BY <2>1 DEF Follows
  <2>3. ~ LastOf(c, j)
    BY <1>1, <2>1, <2>2 DEF LastOf
  <2>4. t[j].val = c.txns[j].val
    BY <1>2, <2>3, LastValues
  <2> QED
    BY <1>2, <1>5, <2>2, <2>4 DEF t
<1> QED
  BY <1>4, <1>5

\* Two ways of listing the same: a bijection keeps how often each is listed.
Rearranges(old, new, sigma, n) ==
  /\ sigma \in [1 .. n -> 1 .. n]
  /\ \A i, j \in 1 .. n : sigma[i] = sigma[j] => i = j
  /\ \A j \in 1 .. n : \E i \in 1 .. n : sigma[i] = j
  /\ \A i \in 1 .. n : old[i] = new[sigma[i]]

Listing(s, n, x, S) == \A i : i \in S <=> i \in 1 .. n /\ s[i] = x

LEMMA SameCount ==
  ASSUME NEW n \in Nat, NEW new, NEW old, NEW sigma, Rearranges(old, new, sigma, n),
         NEW x, NEW S, Listing(old, n, x, S), NEW T, Listing(new, n, x, T)
  PROVE  Cardinality(T) = Cardinality(S)
<1> DEFINE f == [i \in S |-> sigma[i]]
<1>1. f \in [S -> T] /\ \A a, b \in S : f[a] = f[b] => a = b
  BY DEF Rearranges, Listing
<1>2. \A b \in T : \E a \in S : f[a] = b
  <2> SUFFICES ASSUME NEW b \in T PROVE \E a \in S : f[a] = b
    OBVIOUS
  <2>1. PICK a \in 1 .. n : sigma[a] = b
    BY DEF Rearranges, Listing
  <2> QED
    BY <2>1 DEF Rearranges, Listing
<1>3. IsFiniteSet(S)
  <2>1. IsFiniteSet(1 .. n)
    BY FS_Interval
  <2>2. S \in SUBSET (1 .. n)
    BY DEF Listing
  <2> QED
    BY <2>1, <2>2, FS_Subset
<1> HIDE DEF f
<1>4. f \in Bijection(S, T)
  BY <1>1, <1>2 DEF Bijection, Injection, Surjection, IsInjective
<1> QED
  BY <1>3, <1>4, FS_Bijection DEF ExistsBijection

\* Without a trap the memory argument of the trace cancels.
LEMMA WrappedCancels ==
  ASSUME NEW c, NEW ps, NEW tr, NEW by, FixupAt(c, ps, tr, by), ~ tr, NEW x
  PROVE  LET t == WrappedUp(c).txns
             new(i) == <<t[i].word, t[i].cycle, t[i].val>>
             old(i) == <<t[i].word, t[i].prevCycle, t[i].prevVal>>
         IN  Cardinality({i \in DOMAIN t : new(i) = x}) = Cardinality({i \in DOMAIN t : old(i) = x})
<1> DEFINE t == WrappedUp(c).txns
           n == Len(c.txns)
           new == [i \in 1 .. n |-> <<t[i].word, t[i].cycle, t[i].val>>]
           old == [i \in 1 .. n |-> <<t[i].word, t[i].prevCycle, t[i].prevVal>>]
           sigma == [i \in 1 .. n |-> CHOOSE j \in 1 .. n : Before(c, j, i)]
<1>1. Shape(c) /\ Linked(c)
  BY DEF FixupAt, Base, Good
<1>2. DOMAIN t = 1 .. n /\ n \in Nat
  BY <1>1, WrappedIs
<1> HIDE DEF t
<1>3. \A i \in 1 .. n : sigma[i] \in 1 .. n /\ Before(c, sigma[i], i)
  BY <1>1, BeforeExists
<1>4. sigma \in [1 .. n -> 1 .. n]
  BY <1>3
<1> HIDE DEF sigma
<1>5. \A i, j \in 1 .. n : sigma[i] = sigma[j] => i = j
  <2> SUFFICES ASSUME NEW i \in 1 .. n, NEW j \in 1 .. n, sigma[i] = sigma[j] PROVE i = j
    OBVIOUS
  <2>1. Before(c, sigma[i], i) /\ Before(c, sigma[i], j) /\ sigma[i] \in 1 .. n
    BY <1>3
  <2> QED
    BY <1>1, <2>1, BeforeIsOne
<1>6. \A j \in 1 .. n : \E i \in 1 .. n : sigma[i] = j
  <2> SUFFICES ASSUME NEW j \in 1 .. n PROVE \E i \in 1 .. n : sigma[i] = j
    OBVIOUS
  <2>1. PICK i \in 1 .. n : Before(c, j, i)
    BY <1>1, BeforeSome
  <2>2. Before(c, sigma[i], i) /\ sigma[i] \in 1 .. n
    BY <1>3
  <2>3. sigma[i] = j
    BY <1>1, <2>1, <2>2, BeforeIsOne
  <2> QED
    BY <2>3
<1>7. \A i \in 1 .. n : old[i] = new[sigma[i]]
  <2> SUFFICES ASSUME NEW i \in 1 .. n PROVE old[i] = new[sigma[i]]
    OBVIOUS
  <2>1. Before(c, sigma[i], i) /\ sigma[i] \in 1 .. n
    BY <1>3
  <2>2. /\ t[i].word = t[sigma[i]].word /\ t[i].prevCycle = t[sigma[i]].cycle
        /\ t[i].prevVal = t[sigma[i]].val
    BY <1>1, <2>1, BeforeMatches DEF t
  <2> QED
    BY <2>1, <2>2
<1>8. /\ \A i \in 1 .. n : new[i] = <<t[i].word, t[i].cycle, t[i].val>>
      /\ \A i \in 1 .. n : old[i] = <<t[i].word, t[i].prevCycle, t[i].prevVal>>
  OBVIOUS
<1> HIDE DEF new, old
<1> DEFINE S == {i \in DOMAIN t : <<t[i].word, t[i].prevCycle, t[i].prevVal>> = x}
           T == {i \in DOMAIN t : <<t[i].word, t[i].cycle, t[i].val>> = x}
<1>9. Listing(old, n, x, S) /\ Listing(new, n, x, T)
  BY <1>2, <1>8 DEF Listing
<1> HIDE DEF S, T
<1>10. Rearranges(old, new, sigma, n)
  BY <1>4, <1>5, <1>6, <1>7 DEF Rearranges
<1> HIDE DEF n
<1>11. Cardinality(T) = Cardinality(S)
  BY <1>2, <1>9, <1>10, SameCount
<1> QED
  BY <1>11 DEF S, T, t

\* The transactions that are looked up are those the pass counts, by the same
\* differences.
LEMMA WrappedDiffs ==
  ASSUME NEW c, NEW ps, NEW tr, NEW by, FixupAt(c, ps, tr, by)
  PROVE  LET d == WrappedUp(c)
         IN  \A i : /\ i \in DOMAIN d.txns /\ d.txns[i].kind # PAGE_IN <=> i \in Followers(c)
                    /\ i \in Followers(c) => Diff(d.txns[i]) = Diff(c.txns[i])
<1> DEFINE d == WrappedUp(c)
           n == Len(c.txns)
<1>1. Shape(c) /\ Kinded(c)
  BY DEF FixupAt, Base, Good
<1>2. /\ DOMAIN d.txns = 1 .. n /\ DOMAIN c.txns = 1 .. n
      /\ \A i \in 1 .. n :
           /\ d.txns[i].kind = c.txns[i].kind /\ d.txns[i].cycle = c.txns[i].cycle
           /\ d.txns[i].prevCycle = IF c.txns[i].prevCycle = FIRST
                                    THEN c.prevCycle[c.txns[i].word]
                                    ELSE c.txns[i].prevCycle
  BY <1>1, WrappedIs
<1> HIDE DEF d
<1>3. \A i : i \in DOMAIN d.txns /\ d.txns[i].kind # PAGE_IN <=> i \in Followers(c)
  BY <1>1, <1>2 DEF Kinded, Followers
<1>4. \A i \in Followers(c) : Diff(d.txns[i]) = Diff(c.txns[i])
  BY <1>2 DEF Followers, Diff
<1> QED
  BY <1>3, <1>4 DEF d

LEMMA WrappedRows ==
  ASSUME NEW c, NEW ps, NEW tr, NEW by, FixupAt(c, ps, tr, by)
  PROVE  \A i \in DOMAIN WrappedUp(c).txns : InItsRow(WrappedUp(c), i)
<1> DEFINE d == WrappedUp(c)
           n == Len(c.txns)
<1>1. Shape(c) /\ RowsHold(c)
  BY DEF FixupAt, Base, Good
<1>2. /\ DOMAIN d.txns = 1 .. n /\ d.cycles = c.cycles /\ d.memCycle = c.memCycle
      /\ \A i \in 1 .. n : d.txns[i].cycle = c.txns[i].cycle
  BY <1>1, WrappedIs
<1> HIDE DEF d
<1>3. \A i \in 1 .. n : InItsRow(d, i)
  BY <1>1, <1>2 DEF RowsHold, InItsRow
<1> QED
  BY <1>2, <1>3 DEF d

LEMMA WrappedEnds ==
  ASSUME NEW c, NEW ps, NEW tr, NEW by, FixupAt(c, ps, tr, by)
  PROVE  Ends(WrappedUp(c), DigestWord(1), DigestsOf(WrappedUp(c).mem)[1])
<1> DEFINE d == WrappedUp(c)
           n == Len(c.txns)
<1>1. Shape(c) /\ Ends(c, DigestWord(1), DigestsOf(c.mem)[1])
  BY DEF FixupAt, Base, Good
<1>2. /\ Len(d.txns) = n /\ DOMAIN d.txns = 1 .. n /\ d.mem = c.mem /\ n \in Nat
      /\ \A i \in 1 .. n : d.txns[i].word = c.txns[i].word /\ d.txns[i].prevVal = c.txns[i].prevVal
  BY <1>1, WrappedIs
<1>3. n \in 1 .. n
  BY <1>1, <1>2 DEF Ends
<1> HIDE DEF d
<1>4. Ends(d, DigestWord(1), DigestsOf(d.mem)[1])
  BY <1>1, <1>2, <1>3 DEF Ends
<1> QED
  BY <1>4 DEF d

-----------------------------------------------------------------------------
(* The invariant                                                           *)

\* A trap leaves its store to MEPC in an open row.
OpenWords(tr) == IF tr THEN {STATE_WORD} ELSE {}

Types ==
  /\ pages \subseteq Pages /\ PageOf(REG_WORD) \in pages
  /\ trapped \in BOOLEAN /\ bytewise \in BOOLEAN
  /\ phase \in {"root", "in", "main", "again", "out", "fixup", "done", "corrupt"}

RootInv == RootAt(context, pages) /\ offset = 0 /\ ~ trapped /\ ~ bytewise
InInv   == InAt(context, pages, nodesLeft, pagesLeft, offset) /\ ~ trapped /\ ~ bytewise
MainInv == Main(context, pages, trapped, bytewise, OpenWords(trapped)) /\ offset = 0
OutInv  == OutAt(context, pages, nodesLeft, pagesLeft, offset, trapped, bytewise)
FixupInv == FixupAt(context, pages, trapped, bytewise)
EndInv   == MemoryHolds /\ CyclesCancel /\ RootOutIsTrue

IInv ==
  /\ Types
  /\ phase = "root" => RootInv
  /\ phase = "in" => InInv
  /\ phase \in {"main", "again"} => MainInv
  /\ phase = "out" => OutInv
  /\ phase = "fixup" => FixupInv
  /\ phase \in {"done", "corrupt"} => EndInv

LEMMA InitialContext ==
  ASSUME NEW ps, ps \subseteq Pages, NEW image, DOMAIN image = WordsIn(ps),
         NEW mem, DOMAIN mem = HeldWords(ps),
         \A w \in WordsIn(ps) : mem[w] = image[w],
         \A n \in KnownDigests(ps) : mem[DigestWord(n)] = DigestsOf(image)[n],
         NEW c, c = [mem |-> mem, txns |-> <<>>, cycles |-> <<>>, memCycle |-> 0,
                     prevCycle |-> <<>>, origValue |-> <<>>, dirty |-> {}]
  PROVE  RootAt(c, ps)
<1>1. /\ c.mem = mem /\ c.txns = <<>> /\ c.cycles = <<>> /\ c.memCycle = 0
      /\ c.prevCycle = <<>> /\ c.origValue = <<>> /\ c.dirty = {}
  OBVIOUS
<1>2. /\ Len(c.txns) = 0 /\ c.txns \in Seq({}) /\ c.cycles \in Seq(Nat) /\ Len(c.cycles) = 0
      /\ DOMAIN c.prevCycle = {} /\ DOMAIN c.origValue = {}
  BY <1>1
<1>3. \A i \in 1 .. Len(c.txns) : FALSE
  BY <1>2
<1>4. Shape(c)
  BY <1>1, <1>2, <1>3 DEF Shape, Listed
<1>5. Base(c, ps, FALSE, FALSE)
  BY <1>1, <1>2, <1>3, <1>4 DEF Base, Good, RowsHold, Kinded, Linked, Forward
<1>6. Closed(c) /\ Quiet(c, {})
  BY <1>2, <1>3 DEF Closed, Quiet
<1>7. ASSUME NEW p \in Pages PROVE DataIn(mem, p) = DataIn(image, p)
  <2>1. \A o \in Offsets : PageWord(p, o) \in DOMAIN mem <=> PageWord(p, o) \in DOMAIN image
    <3>1. \A o \in Offsets : PageWord(p, o) \in 0 .. WORD_LIMIT - 1
      BY PageWords
    <3>2. \A n \in KnownDigests(ps) : DigestWord(n) \notin 0 .. WORD_LIMIT - 1
      <4>1. \A n \in Nodes : DigestWord(n) \in Nat /\ DigestWord(n) > WORD_LIMIT
        BY DigestWords
      <4>2. KnownDigests(ps) \subseteq Nodes
        BY KnownAre
      <4> QED
        BY <4>1, <4>2, LimitIsNat
    <3> QED
      BY <3>1, <3>2 DEF HeldWords
  <2> QED
    BY <2>1 DEF DataIn
<1>8. DigestsTrue(c, ps, {})
  <2>1. KnownDigests(ps) \subseteq Nodes
    BY KnownAre
  <2>2. \A n \in Nodes : DigestsOf(mem)[n] = DigestsOf(image)[n]
    BY <1>7, DigestsAgree
  <2> QED
    BY <1>1, <2>1, <2>2 DEF DigestsTrue
<1> QED
  BY <1>1, <1>2, <1>5, <1>6, <1>8 DEF RootAt, Fresh

LEMMA InitIInv == Init => IInv
<1> SUFFICES ASSUME Init PROVE IInv
  OBVIOUS
<1>1. /\ phase = "root" /\ offset = 0 /\ trapped = FALSE /\ bytewise = FALSE
  BY DEF Init
<1>2. pages \subseteq Pages /\ PageOf(REG_WORD) \in pages
  <2>1. PageOf(REG_WORD) \in Pages
    BY SystemPageAssumption, PageWords
  <2>2. PICK ps \in SUBSET GuestPages : pages = ps \cup {PageOf(REG_WORD)}
    BY DEF Init
  <2> QED
    BY <2>1, <2>2, SystemPageAssumption
<1>3. PICK image \in [WordsIn(pages) -> InitialVal] :
        context = [mem |-> InitialWords(image), txns |-> <<>>, cycles |-> <<>>,
                   memCycle |-> 0, prevCycle |-> <<>>, origValue |-> <<>>, dirty |-> {}]
  BY DEF Init
<1> DEFINE mem == InitialWords(image)
<1>4. DOMAIN image = WordsIn(pages)
  OBVIOUS
<1>5. KnownDigests(pages) \subseteq Nodes
  BY <1>2, KnownAre
<1>6. /\ DOMAIN mem = HeldWords(pages)
      /\ \A w \in WordsIn(pages) : mem[w] = image[w]
      /\ \A n \in KnownDigests(pages) : mem[DigestWord(n)] = DigestsOf(image)[n]
  <2>1. \A w \in WordsIn(pages) : w < WORD_LIMIT
    BY LimitIsNat DEF WordsIn
  <2>2. \A n \in KnownDigests(pages) :
          ~ (DigestWord(n) < WORD_LIMIT) /\ DigestWord(0) - DigestWord(n) = n
    BY <1>5, DigestWords, LimitIsNat
  <2> QED
    BY <1>4, <2>1, <2>2 DEF InitialWords, HeldWords
<1> HIDE DEF mem
<1>7. RootAt(context, pages)
  BY <1>2, <1>3, <1>4, <1>6, InitialContext DEF mem
<1> QED
  BY <1>1, <1>2, <1>7 DEF IInv, Types, RootInv

-----------------------------------------------------------------------------
(* The steps                                                               *)

LEMMA ReadRootStep == IInv /\ ReadRoot => IInv'
<1> SUFFICES ASSUME IInv, ReadRoot PROVE IInv'
  OBVIOUS
<1>1. /\ phase = "root" /\ phase' = "in" /\ pages' = pages /\ offset' = offset
      /\ trapped' = trapped /\ bytewise' = bytewise
      /\ nodesLeft' = PagingNodes(pages) /\ pagesLeft' = pages
      /\ context' = LoadIn(context, TRUE, DigestWord(1))
  BY DEF ReadRoot
<1>2. Types /\ RootInv
  BY <1>1 DEF IInv
<1>3. InAt(LoadIn(context, TRUE, DigestWord(1)), pages, PagingNodes(pages), pages, 0)
  BY <1>2, RootIsRead DEF RootInv, Types
<1>4. InInv'
  BY <1>1, <1>2, <1>3 DEF RootInv, InInv
<1> QED
  BY <1>1, <1>2, <1>4 DEF IInv, Types

LEMMA ReadNodeStep == \A n \in Nodes : IInv /\ ReadNode(n) => IInv'
<1> SUFFICES ASSUME IInv, NEW n \in Nodes, ReadNode(n) PROVE IInv'
  OBVIOUS
<1>1. /\ phase = "in" /\ phase' = "in" /\ pages' = pages /\ offset' = offset
      /\ trapped' = trapped /\ bytewise' = bytewise /\ Least(n, nodesLeft)
      /\ nodesLeft' = nodesLeft \ {n} /\ pagesLeft' = pagesLeft
      /\ context' = P2DoNode(context, n, TRUE)
  BY DEF ReadNode, DoNode
<1>2. Types /\ InInv
  BY <1>1 DEF IInv
<1>3. InAt(P2DoNode(context, n, TRUE), pages, nodesLeft \ {n}, pagesLeft, offset)
  BY <1>1, <1>2, NodeIsRead DEF InInv, Types
<1>4. InInv'
  BY <1>1, <1>2, <1>3 DEF InInv
<1> QED
  BY <1>1, <1>2, <1>4 DEF IInv, Types

LEMMA ReadPageStep == \A page \in Pages : IInv /\ ReadPage(page) => IInv'
<1> SUFFICES ASSUME IInv, NEW page \in Pages, ReadPage(page) PROVE IInv'
  OBVIOUS
<1>1. /\ phase = "in" /\ phase' = "in" /\ pages' = pages /\ nodesLeft' = nodesLeft
      /\ trapped' = trapped /\ bytewise' = bytewise /\ nodesLeft = {} /\ Least(page, pagesLeft)
  BY DEF ReadPage, DoPage
<1>2. Types /\ InInv
  BY <1>1 DEF IInv
<1>3. InAt(context', pages, {}, pagesLeft', offset')
  <2>1. CASE offset < PAGE_SIZE_WORDS
    <3>1. offset # PAGE_SIZE_WORDS
      BY <2>1, Geometry
    <3>2. /\ context' = LoadIn(context, TRUE, PageWord(page, offset))
          /\ offset' = offset + 1 /\ pagesLeft' = pagesLeft
      BY <3>1, Zenon DEF ReadPage, DoPage
    <3>3. InAt(LoadIn(context, TRUE, PageWord(page, offset)), pages, {}, pagesLeft, offset + 1)
      BY <1>1, <1>2, <2>1, BlockIsRead DEF InInv, Types
    <3> QED
      BY <3>2, <3>3
  <2>2. CASE offset = PAGE_SIZE_WORDS
    <3> DEFINE out == HashPage(DataIn(context.mem, page))
    <3>1. /\ context' = DoOut(context, TRUE, Leaf(page), out)
          /\ offset' = 0 /\ pagesLeft' = pagesLeft \ {page}
      <4>1. ~ (offset < PAGE_SIZE_WORDS)
        BY <2>2, Geometry
      <4> QED
        BY <4>1, Zenon DEF ReadPage, DoPage
    <3> HIDE DEF out
    <3>2. InAt(DoOut(context, TRUE, Leaf(page), out), pages, {}, pagesLeft \ {page}, 0)
      BY <1>1, <1>2, <2>2, PageIsRead DEF InInv, Types
    <3> QED
      BY <3>1, <3>2
  <2> QED
    BY <2>1, <2>2 DEF ReadPage, DoPage
<1>4. InInv'
  BY <1>1, <1>2, <1>3 DEF InInv
<1> QED
  BY <1>1, <1>2, <1>4 DEF IInv, Types

LEMMA ResumeStep == IInv /\ Resume => IInv'
<1> SUFFICES ASSUME IInv, Resume PROVE IInv'
  OBVIOUS
<1>1. /\ phase = "in" /\ phase' = "main" /\ pages' = pages /\ offset' = offset
      /\ trapped' = trapped /\ bytewise' = bytewise /\ nodesLeft = {} /\ pagesLeft = {}
      /\ context' = Resumed(context)
  BY DEF Resume
<1>2. Types /\ InInv
  BY <1>1 DEF IInv
<1>3. offset = 0 /\ InAt(context, pages, {}, {}, 0)
  BY <1>1, <1>2 DEF InInv, InAt
<1>4. Main(context, pages, FALSE, FALSE, {})
  BY <1>3, AllIsRead
<1>5. Main(Resumed(context), pages, FALSE, FALSE, {})
  BY <1>2, <1>4, ResumedIs DEF Types
<1>6. Main(Resumed(context), pages, trapped, bytewise, OpenWords(trapped))
  BY <1>5, MainAnyway
<1>7. MainInv'
  BY <1>1, <1>3, <1>6 DEF MainInv
<1> QED
  BY <1>1, <1>2, <1>7 DEF IInv, Types

\* The words and the programs of a guest, as the lemmas name them.
LEMMA GuestsAre ==
  ASSUME NEW code \in CodeWords
  PROVE  code \in GuestPageWords(pages) /\ GuestWords = GuestPageWords(pages)
BY DEF CodeWords, GuestWords, GuestPageWords

LEMMA InstructionStep ==
  \A code \in CodeWords, word \in GuestWords : IInv /\ Instruction(code, word) => IInv'
<1> SUFFICES ASSUME IInv, NEW code \in CodeWords, NEW word \in GuestWords,
                    Instruction(code, word)
             PROVE  IInv'
  OBVIOUS
<1> DEFINE loaded == Load(Load(Load(context, READ, code), READ, REG_WORD), READ, word)
           X == OpenWords(trapped)
<1>1. /\ phase = "main" /\ phase' = "main" /\ pages' = pages /\ offset' = offset
      /\ trapped' = trapped /\ bytewise' = bytewise
      /\ \/ context' = Complete(loaded)
         \/ \E w \in {word, REG_WORD}, v \in Val : context' = Complete(Store(loaded, w, v))
  BY DEF Instruction, Step
<1>2. Types /\ MainInv
  BY <1>1 DEF IInv
<1>3. code \in GuestPageWords(pages) /\ word \in GuestPageWords(pages)
  BY GuestsAre
<1>4. X \subseteq {STATE_WORD} /\ Main(context, pages, trapped, bytewise, X)
  BY <1>2 DEF MainInv, OpenWords
<1> HIDE DEF X
<1>5. /\ Main(Complete(loaded), pages, trapped, bytewise, X)
      /\ \A w \in {word, REG_WORD}, v \in Val :
           Main(Complete(Store(loaded, w, v)), pages, trapped, bytewise, X)
  BY <1>2, <1>3, <1>4, InstructionIs DEF Types
<1> HIDE DEF loaded
<1>6. Main(context', pages, trapped, bytewise, X)
  BY <1>1, <1>5
<1>7. MainInv'
  BY <1>1, <1>2, <1>6 DEF MainInv, X
<1> QED
  BY <1>1, <1>2, <1>7 DEF IInv, Types

LEMMA TrapStep ==
  \A code \in CodeWords, word \in GuestWords : IInv /\ Trap(code, word) => IInv'
<1> SUFFICES ASSUME IInv, NEW code \in CodeWords, NEW word \in GuestWords, Trap(code, word)
             PROVE  IInv'
  OBVIOUS
<1> DEFINE loaded == Load(Load(Load(context, READ, code), READ, REG_WORD), READ, word)
           d == Store(Load(TrapRewind(loaded), READ, STATE_WORD), STATE_WORD, 0)
<1>1. /\ phase = "main" /\ phase' = "main" /\ pages' = pages /\ offset' = offset
      /\ ~ trapped /\ trapped' = TRUE /\ bytewise' = bytewise /\ context' = d
  BY DEF Trap, Step
<1>2. Types /\ MainInv
  BY <1>1 DEF IInv
<1>3. code \in GuestPageWords(pages) /\ word \in GuestPageWords(pages)
  BY GuestsAre
<1>4. Main(context, pages, trapped, bytewise, {})
  BY <1>1, <1>2 DEF MainInv, OpenWords
<1>5. Main(d, pages, TRUE, bytewise, {STATE_WORD})
  BY <1>2, <1>3, <1>4, TrapIs DEF Types
<1> HIDE DEF d
<1>6. MainInv'
  BY <1>1, <1>2, <1>5 DEF MainInv, OpenWords
<1> QED
  BY <1>1, <1>2, <1>6 DEF IInv, Types

LEMMA HostReadStep ==
  \A code \in CodeWords, word \in GuestWords, bytes \in 0 .. 2, block \in BOOLEAN, val \in Val :
    IInv /\ HostRead(code, word, bytes, block, val) => IInv'
<1> SUFFICES ASSUME IInv, NEW code \in CodeWords, NEW word \in GuestWords, NEW bytes \in 0 .. 2,
                    NEW block \in BOOLEAN, NEW val \in Val,
                    HostRead(code, word, bytes, block, val)
             PROVE  IInv'
  OBVIOUS
<1> DEFINE d == HostReads(context, code, word, bytes, block, val)
           X == OpenWords(trapped)
<1>1. /\ phase \in {"main", "again"} /\ phase' \in {"main", "again"}
      /\ pages' = pages /\ offset' = offset /\ trapped' = trapped
      /\ bytewise' = (bytewise \/ bytes > 1 \/ (bytes = 1 /\ ~ block))
  BY DEF HostRead, Step
<1>2. context' = d
  BY DEF HostRead, HostReads, AskedBy, ByteTo
<1> HIDE DEF d
<1>3. Types /\ MainInv
  BY <1>1 DEF IInv
<1>4. code \in GuestPageWords(pages) /\ word \in GuestPageWords(pages)
  BY GuestsAre
<1>5. X \subseteq {STATE_WORD} /\ Main(context, pages, trapped, bytewise, X)
  BY <1>3 DEF MainInv, OpenWords
<1> HIDE DEF X
<1>6. bytewise' <=> (bytewise \/ bytes > 1 \/ (bytes = 1 /\ ~ block))
  BY <1>1
<1>7. Main(d, pages, trapped, bytewise', X)
  BY <1>3, <1>4, <1>5, <1>6, HostReadIs DEF Types, d
<1>8. MainInv'
  BY <1>1, <1>2, <1>3, <1>7 DEF MainInv, X
<1>9. bytewise' \in BOOLEAN
  BY <1>1
<1> QED
  BY <1>1, <1>3, <1>8, <1>9 DEF IInv, Types

LEMMA SuspendStep == IInv /\ Suspend => IInv'
<1> SUFFICES ASSUME IInv, Suspend PROVE IInv'
  OBVIOUS
<1> DEFINE c == Suspended(context)
<1>1. /\ phase \in {"main", "again"} /\ phase' = "out" /\ pages' = pages /\ offset' = offset
      /\ trapped' = trapped /\ bytewise' = bytewise /\ context' = c
      /\ nodesLeft' = PagingNodes(c.dirty) /\ pagesLeft' = c.dirty
  BY DEF Suspend
<1>2. Types /\ MainInv
  BY <1>1 DEF IInv
<1>3. Main(c, pages, trapped, bytewise, {}) /\ Closed(c)
  BY <1>2, SuspendedIs DEF Types, MainInv
<1> HIDE DEF c
<1>4. OutAt(c, pages, PagingNodes(c.dirty), c.dirty, 0, trapped, bytewise)
  BY <1>2, <1>3, SuspendedOut DEF Types
<1>5. OutInv'
  BY <1>1, <1>2, <1>4 DEF OutInv, MainInv
<1> QED
  BY <1>1, <1>2, <1>5 DEF IInv, Types

LEMMA WritePageStep == \A page \in Pages : IInv /\ WritePage(page) => IInv'
<1> SUFFICES ASSUME IInv, NEW page \in Pages, WritePage(page) PROVE IInv'
  OBVIOUS
<1>1. /\ phase = "out" /\ phase' = "out" /\ pages' = pages /\ nodesLeft' = nodesLeft
      /\ trapped' = trapped /\ bytewise' = bytewise /\ Greatest(page, pagesLeft)
  BY DEF WritePage, DoPage
<1>2. Types /\ OutInv
  BY <1>1 DEF IInv
<1>3. OutAt(context', pages, nodesLeft, pagesLeft', offset', trapped, bytewise)
  <2>1. CASE offset < PAGE_SIZE_WORDS
    <3>1. offset # PAGE_SIZE_WORDS
      BY <2>1, Geometry
    <3>2. /\ context' = LoadIn(context, FALSE, PageWord(page, offset))
          /\ offset' = offset + 1 /\ pagesLeft' = pagesLeft
      BY <3>1, Zenon DEF WritePage, DoPage
    <3>3. OutAt(LoadIn(context, FALSE, PageWord(page, offset)), pages, nodesLeft, pagesLeft,
                offset + 1, trapped, bytewise)
      BY <1>1, <1>2, <2>1, BlockIsWritten DEF OutInv, Types
    <3> QED
      BY <3>2, <3>3
  <2>2. CASE offset = PAGE_SIZE_WORDS
    <3> DEFINE d == DoOut(context, FALSE, Leaf(page), HashPage(DataIn(context.mem, page)))
    <3>1. context' = d /\ offset' = 0 /\ pagesLeft' = pagesLeft \ {page}
      <4>1. ~ (offset < PAGE_SIZE_WORDS)
        BY <2>2, Geometry
      <4> QED
        BY <4>1, Zenon DEF WritePage, DoPage
    <3>2. OutAt(context, pages, nodesLeft, pagesLeft, PAGE_SIZE_WORDS, trapped, bytewise)
      BY <1>2, <2>2 DEF OutInv
    <3>3. OutAt(d, pages, nodesLeft, pagesLeft \ {page}, 0, trapped, bytewise)
      BY <1>1, <1>2, <3>2, PageIsWritten DEF Types
    <3> QED
      BY <3>1, <3>3
  <2> QED
    BY <2>1, <2>2 DEF WritePage, DoPage
<1>4. OutInv'
  BY <1>1, <1>3 DEF OutInv
<1> QED
  BY <1>1, <1>2, <1>4 DEF IInv, Types

LEMMA WriteNodeStep == \A n \in Nodes : IInv /\ WriteNode(n) => IInv'
<1> SUFFICES ASSUME IInv, NEW n \in Nodes, WriteNode(n) PROVE IInv'
  OBVIOUS
<1>1. /\ phase = "out" /\ phase' = "out" /\ pages' = pages /\ offset' = offset
      /\ trapped' = trapped /\ bytewise' = bytewise /\ Greatest(n, nodesLeft)
      /\ nodesLeft' = nodesLeft \ {n} /\ pagesLeft' = pagesLeft /\ pagesLeft = {}
      /\ context' = P2DoNode(context, n, FALSE)
  BY DEF WriteNode, DoNode
<1>2. Types /\ OutInv
  BY <1>1 DEF IInv
<1>3. OutAt(context, pages, nodesLeft, {}, offset, trapped, bytewise)
  BY <1>1, <1>2 DEF OutInv
<1>4. OutAt(P2DoNode(context, n, FALSE), pages, nodesLeft \ {n}, {}, offset, trapped, bytewise)
  BY <1>1, <1>2, <1>3, NodeIsWritten DEF Types
<1>5. OutInv'
  BY <1>1, <1>4 DEF OutInv
<1> QED
  BY <1>1, <1>2, <1>5 DEF IInv, Types

LEMMA WriteRootStep == IInv /\ WriteRoot => IInv'
<1> SUFFICES ASSUME IInv, WriteRoot PROVE IInv'
  OBVIOUS
<1>1. /\ phase = "out" /\ phase' = "fixup" /\ pages' = pages
      /\ trapped' = trapped /\ bytewise' = bytewise /\ nodesLeft = {} /\ pagesLeft = {}
      /\ context' = LoadIn(context, FALSE, DigestWord(1))
  BY DEF WriteRoot
<1>2. Types /\ OutInv
  BY <1>1 DEF IInv
<1>3. OutAt(context, pages, {}, {}, offset, trapped, bytewise)
  BY <1>1, <1>2 DEF OutInv
<1>4. FixupAt(LoadIn(context, FALSE, DigestWord(1)), pages, trapped, bytewise)
  BY <1>2, <1>3, RootIsWritten DEF Types
<1>5. FixupInv'
  BY <1>1, <1>4 DEF FixupInv
<1> QED
  BY <1>1, <1>2, <1>5 DEF IInv, Types

\* The pass either finds a transaction older than the one it follows, or ends
\* with a trace that satisfies the argument.
LEMMA PassedReads ==
  ASSUME FixupInv, Types, context' = WrappedUp(context), trapped' = trapped
  PROVE  MemoryHolds'
<1> DEFINE t == WrappedUp(context).txns
<1>1. \A i \in DOMAIN t : t[i].kind \in {READ, PAGE_IN} => t[i].val = t[i].prevVal
  BY WrappedReads DEF FixupInv
<1>2. ASSUME ~ trapped
      PROVE  \A x : Cardinality({i \in DOMAIN t : <<t[i].word, t[i].cycle, t[i].val>> = x})
                      = Cardinality({i \in DOMAIN t : <<t[i].word, t[i].prevCycle, t[i].prevVal>> = x})
  BY <1>2, WrappedCancels DEF FixupInv
<1>3. context'.txns = t
  OBVIOUS
<1> HIDE DEF t
<1>4. ~ trapped => Cancels'
  BY <1>2, <1>3 DEF Cancels
<1> QED
  BY <1>1, <1>3, <1>4 DEF MemoryHolds

LEMMA PassedDiffs ==
  ASSUME FixupInv, context' = WrappedUp(context), phase' = "done",
         diffCount' = [d \in {Diff(context.txns[i]) : i \in Followers(context)} |->
                         Cardinality({i \in Followers(context) : Diff(context.txns[i]) = d})]
  PROVE  CyclesCancel'
<1> DEFINE t == WrappedUp(context).txns
           F == Followers(context)
           G == {i \in DOMAIN t : t[i].kind # PAGE_IN}
<1>1. \A i : i \in G <=> i \in F
  BY WrappedDiffs DEF FixupInv
<1>2. \A i \in F : Diff(t[i]) = Diff(context.txns[i])
  BY WrappedDiffs DEF FixupInv
<1>3. RowsHoldTheirs'
  BY WrappedRows DEF FixupInv, RowsHoldTheirs
<1>4. context'.txns = t
  OBVIOUS
<1>5. F = G
  BY <1>1
<1>6. LookedUp' = F
  BY <1>4, <1>5 DEF LookedUp
<1> HIDE DEF F, G, t
<1>7. DOMAIN diffCount' = {Diff(context.txns[i]) : i \in F}
  BY DEF F
<1>8. {Diff(context.txns[i]) : i \in F} = {Diff(t[i]) : i \in F}
  BY <1>2
<1>9. \A d : {i \in F : Diff(context.txns[i]) = d} = {i \in F : Diff(t[i]) = d}
  BY <1>2
<1>10. \A d \in DOMAIN diffCount' :
         Cardinality({i \in F : Diff(context.txns[i]) = d}) = diffCount'[d]
  BY DEF F
<1>11. \A d \in DOMAIN diffCount' : Cardinality({i \in F : Diff(t[i]) = d}) = diffCount'[d]
  BY <1>9, <1>10
<1>12. DiffsCounted'
  BY <1>4, <1>6, <1>7, <1>8, <1>11 DEF DiffsCounted
<1> QED
  BY <1>3, <1>12 DEF CyclesCancel

LEMMA FixUpStep == IInv /\ FixUp => IInv'
<1> SUFFICES ASSUME IInv, FixUp PROVE IInv'
  OBVIOUS
<1> DEFINE diffs == {Diff(context.txns[i]) : i \in Followers(context)}
<1>1. /\ phase = "fixup" /\ pages' = pages /\ trapped' = trapped /\ bytewise' = bytewise
      /\ \/ /\ \E d \in diffs : d < 0
            /\ phase' = "corrupt" /\ context' = context
         \/ /\ phase' = "done" /\ context' = WrappedUp(context)
            /\ diffCount' = [d \in diffs |->
                 Cardinality({i \in Followers(context) : Diff(context.txns[i]) = d})]
  BY DEF FixUp
<1>2. Types /\ FixupInv
  BY <1>1 DEF IInv
<1>3. CASE phase' = "done"
  <2>1. /\ context' = WrappedUp(context)
        /\ diffCount' = [d \in diffs |->
             Cardinality({i \in Followers(context) : Diff(context.txns[i]) = d})]
    BY <1>1, <1>3
  <2>2. MemoryHolds'
    BY <1>1, <1>2, <2>1, PassedReads
  <2>3. CyclesCancel'
    BY <1>2, <1>3, <2>1, PassedDiffs
  <2>4. RootOutIsTrue'
    <3>1. Ends(context', DigestWord(1), DigestsOf(context'.mem)[1])
      BY <1>2, <2>1, WrappedEnds DEF FixupInv
    <3> QED
      BY <3>1 DEF RootOutIsTrue, Ends
  <2> QED
    BY <1>1, <1>2, <1>3, <2>2, <2>3, <2>4 DEF IInv, Types, EndInv
<1>4. CASE phase' = "corrupt"
  <2>1. context' = context /\ \E d \in diffs : d < 0
    BY <1>1, <1>4
  <2>2. Shape(context) /\ RowsHold(context) /\ (~ bytewise => Forward(context))
    BY <1>2 DEF FixupInv, FixupAt, Base, Good
  <2>3. DOMAIN context.txns = 1 .. Len(context.txns)
    BY <2>2, AppendListed DEF Shape
  <2>4. bytewise
    <3>1. PICK i \in Followers(context) : Diff(context.txns[i]) < 0
      BY <2>1
    <3>2. /\ i \in 1 .. Len(context.txns) /\ context.txns[i].cycle \in Int
          /\ context.txns[i].prevCycle \in Int
      <4>1. i \in 1 .. Len(context.txns)
        BY <2>3 DEF Followers
      <4>2. TxnShape(context, context.txns[i]) /\ Len(context.cycles) \in Nat
        BY <2>2, <4>1 DEF Shape
      <4> QED
        BY <4>1, <4>2 DEF TxnShape, FIRST
    <3>3. ~ (context.txns[i].prevCycle <= context.txns[i].cycle)
      BY <3>1, <3>2 DEF Diff
    <3> QED
      BY <2>2, <3>2, <3>3 DEF Forward
  <2>5. RowsHoldTheirs'
    BY <2>1, <2>2, <2>3 DEF RowsHoldTheirs, RowsHold
  <2>6. EndInv'
    BY <1>1, <1>4, <2>4, <2>5 DEF EndInv, MemoryHolds, CyclesCancel, RootOutIsTrue
  <2> QED
    BY <1>1, <1>2, <1>4, <2>6 DEF IInv, Types
<1> QED
  BY <1>1, <1>3, <1>4

LEMMA NextIInv == IInv /\ [Next]_vars => IInv'
<1> SUFFICES ASSUME IInv, [Next]_vars PROVE IInv'
  OBVIOUS
<1>1. CASE ReadRoot
  BY <1>1, ReadRootStep
<1>2. CASE \E n \in Nodes : ReadNode(n) \/ WriteNode(n)
  BY <1>2, ReadNodeStep, WriteNodeStep
<1>3. CASE \E page \in Pages : ReadPage(page) \/ WritePage(page)
  BY <1>3, ReadPageStep, WritePageStep
<1>4. CASE Resume
  BY <1>4, ResumeStep
<1>5. CASE \E code \in CodeWords, word \in GuestWords : Instruction(code, word) \/ Trap(code, word)
  BY <1>5, InstructionStep, TrapStep
<1>6. CASE \E code \in CodeWords, word \in GuestWords, bytes \in 0 .. 2, block \in BOOLEAN, val \in Val :
             HostRead(code, word, bytes, block, val)
  BY <1>6, HostReadStep
<1>7. CASE Suspend
  BY <1>7, SuspendStep
<1>8. CASE WriteRoot
  BY <1>8, WriteRootStep
<1>9. CASE FixUp
  BY <1>9, FixUpStep
<1>10. CASE UNCHANGED vars
  BY <1>10 DEF vars, IInv, Types, RootInv, InInv, MainInv, OutInv, FixupInv, EndInv,
               MemoryHolds, Cancels, CyclesCancel, DiffsCounted, LookedUp, RowsHoldTheirs,
               RootOutIsTrue
<1> QED
  BY <1>1, <1>2, <1>3, <1>4, <1>5, <1>6, <1>7, <1>8, <1>9, <1>10 DEF Next

\* In every phase a transaction lies in its row.
LEMMA IInvHolds == IInv => MemoryHolds /\ CyclesCancel /\ RootOutIsTrue
<1> SUFFICES ASSUME IInv PROVE MemoryHolds /\ CyclesCancel /\ RootOutIsTrue
  OBVIOUS
<1>1. CASE phase \in {"done", "corrupt"}
  BY <1>1 DEF IInv, EndInv
<1>2. CASE phase \notin {"done", "corrupt"}
  <2>1. Types /\ phase \in {"root", "in", "main", "again", "out", "fixup"}
    BY <1>2 DEF IInv, Types
  <2>2. \E tr, by : Base(context, pages, tr, by)
    BY <2>1 DEF IInv, RootInv, RootAt, InInv, InAt, Fresh, MainInv, Main, OutInv, OutAt,
                FixupInv, FixupAt
  <2>3. Shape(context) /\ RowsHold(context)
    BY <2>2 DEF Base, Good
  <2>4. RowsHoldTheirs
    BY <2>3, AppendListed DEF Shape, RowsHold, RowsHoldTheirs
  <2>5. RootOutIsTrue
    BY <1>2 DEF IInv, FixupInv, FixupAt, Ends, RootOutIsTrue
  <2> QED
    BY <1>2, <2>4, <2>5 DEF MemoryHolds, CyclesCancel
<1> QED
  BY <1>1, <1>2

\* The invariant of every reachable state.
THEOREM TraceInvariant == Spec => []IInv
<1>1. Init => IInv
  BY InitIInv
<1>2. IInv /\ [Next]_vars => IInv'
  BY NextIInv
<1> QED
  BY <1>1, <1>2, PTL DEF Spec

\* Without a trap the memory argument cancels, for any pages, any image and
\* any guest: what preflight records and ties up last to first is what the
\* circuit's memory table adds and takes; and a read gives what was there.
THEOREM MemoryArgumentHolds == Spec => []MemoryHolds
<1>1. IInv => MemoryHolds
  BY IInvHolds
<1> QED
  BY <1>1, TraceInvariant, PTL

\* The cycle differences the circuit looks up are those the pass counts, and
\* it counts outside the rows only where a host read wrote bytes; a
\* transaction always lies in the row its cycle names.
THEOREM LookupsCancel == Spec => []CyclesCancel
<1>1. IInv => CyclesCancel
  BY IInvHolds
<1> QED
  BY <1>1, TraceInvariant, PTL

\* The root that is paged out is that of the memory the segment leaves,
\* although only the nodes above dirty pages were hashed again.
THEOREM RootIsTrue == Spec => []RootOutIsTrue
<1>1. IInv => RootOutIsTrue
  BY IInvHolds
<1> QED
  BY <1>1, TraceInvariant, PTL

=============================================================================
