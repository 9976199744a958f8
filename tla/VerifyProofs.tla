---------------------------- MODULE VerifyProofs ----------------------------
(***************************************************************************)
(* Proofs about the generator of Verify and the order in which verify()    *)
(* reads and draws, for every number of queries and rounds, every size of  *)
(* the generator's pool and every set of challenges.                       *)
(***************************************************************************)
EXTENDS Verify, TLAPS, SequenceTheorems

-----------------------------------------------------------------------------
(* Sequences and division                                                  *)

\* A sequence of anything.
IsSequence(s) == \E S : s \in Seq(S)

\* A sequence with another after it.
LEMMA Longer ==
  ASSUME NEW s, IsSequence(s), NEW n \in Nat, NEW f, f = [i \in 1 .. n |-> f[i]]
  PROVE  /\ IsSequence(s \o f)
         /\ Len(s) \in Nat /\ Len(s \o f) = Len(s) + n
         /\ ToSet(s) \subseteq ToSet(s \o f)
         /\ \A i \in 1 .. n : f[i] \in ToSet(s \o f)
<1>1. PICK S : s \in Seq(S)
  BY DEF IsSequence
<1> DEFINE T == S \cup {f[i] : i \in 1 .. n}
           t == s \o f
<1>2. s \in Seq(T) /\ f \in Seq(T) /\ Len(f) = n /\ Len(s) \in Nat
  <2>1. f \in [1 .. n -> T]
    OBVIOUS
  <2>2. f \in Seq(T) /\ Len(f) = n
    BY <2>1
  <2>3. s \in Seq(T)
    BY <1>1
  <2> QED
    BY <2>2, <2>3
<1> HIDE DEF T
<1>3. /\ t \in Seq(T) /\ Len(t) = Len(s) + n
      /\ \A i \in 1 .. Len(s) : t[i] = s[i]
      /\ \A i \in 1 .. n : t[Len(s) + i] = f[i]
  BY <1>2
<1>4. DOMAIN t = 1 .. Len(s) + n /\ DOMAIN s = 1 .. Len(s)
  BY <1>2, <1>3
<1> HIDE DEF t
<1>5. ASSUME NEW i \in 1 .. Len(s)
      PROVE  s[i] \in ToSet(t)
  BY <1>2, <1>3, <1>4 DEF ToSet
<1>6. ToSet(s) \subseteq ToSet(t)
  BY <1>4, <1>5 DEF ToSet
<1>7. ASSUME NEW i \in 1 .. n
      PROVE  f[i] \in ToSet(t)
  <2>1. Len(s) + i \in DOMAIN t /\ t[Len(s) + i] = f[i]
    BY <1>2, <1>3, <1>4
  <2> QED
    BY <2>1 DEF ToSet
<1>8. IsSequence(t)
  BY <1>3 DEF IsSequence
<1> QED
  BY <1>2, <1>3, <1>6, <1>7, <1>8 DEF t

\* What division by POOL leaves.
LEMMA Divided ==
  ASSUME NEW a \in Nat
  PROVE  a \div POOL \in Nat /\ a % POOL \in 0 .. POOL - 1 /\ a = POOL * (a \div POOL) + (a % POOL)
<1> DEFINE q == a \div POOL
           r == a % POOL
<1>1. POOL \in Nat \ {0}
  BY VerifyAssumption
<1>2. q \in Nat /\ r \in 0 .. POOL - 1 /\ a = POOL * q + r
  BY <1>1, SMT
<1> HIDE DEF q, r
<1> QED
  BY <1>2 DEF q, r

\* A later value is of a later state, or later in the same.
LEMMA DividedInOrder ==
  ASSUME NEW a \in Nat, NEW b \in Nat, a < b
  PROVE  \/ a \div POOL < b \div POOL
         \/ a \div POOL = b \div POOL /\ a % POOL < b % POOL
<1> DEFINE q == a \div POOL
           r == a % POOL
           s == b \div POOL
           t == b % POOL
<1> HIDE DEF q, r, s, t
<1>1. POOL \in Nat \ {0}
  BY VerifyAssumption
<1>2. /\ q \in Nat /\ r \in 0 .. POOL - 1 /\ a = POOL * q + r
      /\ s \in Nat /\ t \in 0 .. POOL - 1 /\ b = POOL * s + t
  <2>1. q \in Nat /\ r \in 0 .. POOL - 1 /\ a = POOL * q + r
    BY Divided DEF q, r, s, t
  <2>2. s \in Nat /\ t \in 0 .. POOL - 1 /\ b = POOL * s + t
    BY Divided DEF q, r, s, t
  <2> QED
    BY <2>1, <2>2
<1>3. ASSUME s < q
      PROVE  FALSE
  <2>1. PICK d \in Nat : q = s + 1 + d
    <3>1. q - s - 1 \in Nat /\ q = s + 1 + (q - s - 1)
      BY <1>2, <1>3
    <3> QED
      BY <3>1
  <2>2. POOL * q = POOL * s + POOL + POOL * d
    BY <1>1, <1>2, <2>1, SMT
  <2>3. POOL * d \in Nat /\ POOL * s \in Nat /\ POOL * q \in Nat
    BY <1>1, <1>2, SMT
  <2> DEFINE x == POOL * q
             y == POOL * s
             z == POOL * d
  <2> HIDE DEF x, y, z
  <2>4. x = y + POOL + z /\ z \in Nat /\ y \in Nat /\ x \in Nat
    BY <2>2, <2>3 DEF x, y, z
  <2>5. a = x + r /\ b = y + t
    BY <1>2 DEF x, y
  <2> QED
    BY <2>4, <2>5, <1>1, <1>2
<1>4. ASSUME s = q
      PROVE  r < t
  <2> DEFINE x == POOL * q
  <2>1. x \in Nat /\ a = x + r /\ b = x + t
    BY <1>1, <1>2, <1>4, SMT
  <2> HIDE DEF x
  <2> QED
    BY <2>1, <1>2
<1>5. q < s \/ (q = s /\ r < t)
  BY <1>2, <1>3, <1>4
<1> QED
  BY <1>5 DEF q, r, s, t

-----------------------------------------------------------------------------
(* The generator                                                           *)

\* A value is drawn before another: from a state that less went into, or from an
\* earlier place of the same.
Before(id, len, used) ==
  /\ Len(id[1]) \in Nat /\ id[2] \in Nat
  /\ Len(id[1]) < len \/ (Len(id[1]) = len /\ id[2] < used)

\* What is drawn before one value is drawn before a later one.
LEMMA BeforeLater ==
  ASSUME NEW id, NEW len \in Nat, NEW used \in Nat, NEW later \in Nat, NEW more \in Nat,
         Before(id, len, used), len <= later, len = later => used <= more
  PROVE  Before(id, later, more)
BY DEF Before

\* What holds between the handlers: what was read is in the state, what was
\* drawn before is, for every value of every challenge, an earlier value of a
\* state that what was read by then is in, and no two values are the same.
DrawnIsPast(d) ==
  \A i \in DOMAIN draws[d].ids : Before(draws[d].ids[i], Len(cells), pool_used)

Transcript ==
  /\ IsSequence(cells) /\ pool_used \in 0 .. POOL
  /\ IsSequence(draws)
  /\ names \subseteq ToSet(cells)
  /\ \A d \in DOMAIN draws : DrawnIsPast(d)
  /\ ChallengesBind

\* commit leaves a state that the digests are in as well, and that more went into.
LEMMA CommitAdds ==
  ASSUME Transcript, NEW digests, NEW n \in Nat,
         digests = [i \in 1 .. n |-> digests[i]], Len(digests) = n,
         Commit(digests)
  PROVE  /\ IsSequence(cells') /\ pool_used' = 0
         /\ Len(cells) \in Nat /\ Len(cells') \in Nat
         /\ Len(cells) <= Len(cells') /\ (pool_used # 0 => Len(cells) < Len(cells'))
         /\ ToSet(cells) \subseteq ToSet(cells')
         /\ \A i \in 1 .. n : digests[i] \in ToSet(cells')
<1> DEFINE start == IF pool_used # 0 THEN Mixed(cells) ELSE cells
           f == [i \in 1 .. 2 * n |-> IF i % 2 = 1 THEN digests[(i + 1) \div 2] ELSE "mix"]
<1>1. cells' = start \o f /\ pool_used' = 0
  BY DEF Commit
<1>2. /\ IsSequence(start) /\ Len(start) \in Nat /\ Len(cells) \in Nat
      /\ Len(cells) <= Len(start) /\ (pool_used # 0 => Len(cells) < Len(start))
      /\ ToSet(cells) \subseteq ToSet(start)
  <2>1. PICK S : cells \in Seq(S)
    BY DEF Transcript, IsSequence
  <2>2. CASE pool_used = 0
    BY <2>1, <2>2 DEF IsSequence
  <2>3. CASE pool_used # 0
    <3> DEFINE c == Append(cells, "mix")
    <3>1. cells \in Seq(S \cup {"mix"}) /\ "mix" \in S \cup {"mix"}
      BY <2>1
    <3>2. /\ c \in Seq(S \cup {"mix"}) /\ Len(c) = Len(cells) + 1 /\ Len(cells) \in Nat
          /\ \A i \in 1 .. Len(cells) : c[i] = cells[i]
      BY <3>1
    <3>3. DOMAIN cells = 1 .. Len(cells) /\ DOMAIN c = 1 .. Len(c)
      BY <2>1, <3>2
    <3> HIDE DEF c
    <3>4. ToSet(cells) \subseteq ToSet(c)
      <4>1. ASSUME NEW i \in DOMAIN cells
            PROVE  cells[i] \in ToSet(c)
        <5>1. i \in DOMAIN c /\ c[i] = cells[i]
          BY <3>2, <3>3
        <5> QED
          BY <5>1 DEF ToSet
      <4> QED
        BY <4>1 DEF ToSet
    <3>5. start = c
      BY <2>3 DEF Mixed, c
    <3>6. IsSequence(c)
      BY <3>2 DEF IsSequence
    <3> QED
      BY <3>2, <3>4, <3>5, <3>6
  <2> QED
    BY <2>2, <2>3
<1>3. 2 * n \in Nat /\ f = [i \in 1 .. 2 * n |-> f[i]]
  OBVIOUS
<1>4. \A i \in 1 .. n : f[2 * i - 1] = digests[i] /\ 2 * i - 1 \in 1 .. 2 * n
  <2> SUFFICES ASSUME NEW i \in 1 .. n
               PROVE  f[2 * i - 1] = digests[i] /\ 2 * i - 1 \in 1 .. 2 * n
    OBVIOUS
  <2>1. 2 * i - 1 \in 1 .. 2 * n /\ (2 * i - 1) % 2 = 1 /\ ((2 * i - 1) + 1) \div 2 = i
    OBVIOUS
  <2> QED
    BY <2>1
<1> HIDE DEF start, f
<1>5. /\ IsSequence(start \o f) /\ Len(start \o f) = Len(start) + 2 * n
      /\ ToSet(start) \subseteq ToSet(start \o f)
      /\ \A i \in 1 .. 2 * n : f[i] \in ToSet(start \o f)
  BY <1>2, <1>3, Longer
<1>6. \A i \in 1 .. n : digests[i] \in ToSet(cells')
  BY <1>1, <1>4, <1>5
<1> QED
  BY <1>1, <1>2, <1>5, <1>6

\* So a handler that commits what it reads keeps what holds.
LEMMA ReadBinds ==
  ASSUME Transcript, NEW digests, NEW n \in Nat, NEW msgs,
         digests = [i \in 1 .. n |-> digests[i]], Len(digests) = n,
         Commit(digests), msgs \subseteq {digests[i] : i \in 1 .. n},
         names' = names \cup msgs, UNCHANGED draws
  PROVE  Transcript'
<1>1. /\ IsSequence(cells') /\ pool_used' = 0
      /\ Len(cells) \in Nat /\ Len(cells') \in Nat
      /\ Len(cells) <= Len(cells') /\ (pool_used # 0 => Len(cells) < Len(cells'))
      /\ ToSet(cells) \subseteq ToSet(cells')
      /\ \A i \in 1 .. n : digests[i] \in ToSet(cells')
  BY CommitAdds
<1>2. POOL \in Nat /\ pool_used' \in 0 .. POOL
  BY <1>1, VerifyAssumption
<1>3. (names \subseteq ToSet(cells))'
  BY <1>1 DEF Transcript
<1>4. ASSUME NEW d \in DOMAIN draws, NEW i \in DOMAIN draws[d].ids
      PROVE  Before(draws[d].ids[i], Len(cells'), 0)
  <2>1. Before(draws[d].ids[i], Len(cells), pool_used) /\ pool_used \in Nat
    BY VerifyAssumption DEF Transcript, DrawnIsPast
  <2> QED
    BY <2>1, <1>1 DEF Before
<1>5. (\A d \in DOMAIN draws : DrawnIsPast(d))'
  BY <1>1, <1>4 DEF DrawnIsPast
<1>6. (IsSequence(draws) /\ ChallengesBind)'
  BY DEF Transcript, IsSequence, ChallengesBind
<1> QED
  BY <1>1, <1>2, <1>3, <1>5, <1>6 DEF Transcript

\* The values of a challenge, each later than those drawn before.
LEMMA ValuesFollow ==
  ASSUME Transcript, NEW n \in Nat \ {0}
  PROVE  /\ IsSequence(GenerateFp(n)[1]) /\ GenerateFp(n)[2] \in 0 .. POOL - 1
         /\ Len(cells) \in Nat
         /\ Len(GenerateFp(n)[1]) = Len(cells) + (pool_used + n - 1) \div POOL
         /\ GenerateFp(n)[2] = (pool_used + n - 1) % POOL
         /\ ToSet(cells) \subseteq ToSet(GenerateFp(n)[1])
<1> DEFINE at == pool_used + n - 1
           f == [i \in 1 .. at \div POOL |-> "mix"]
<1>1. at \in Nat
  BY VerifyAssumption DEF Transcript
<1>2. at \div POOL \in Nat /\ at % POOL \in 0 .. POOL - 1
  BY <1>1, Divided
<1>3. GenerateFp(n)[1] = cells \o f /\ GenerateFp(n)[2] = at % POOL
  BY DEF GenerateFp
<1>4. f = [i \in 1 .. at \div POOL |-> f[i]]
  OBVIOUS
<1>5. IsSequence(cells)
  BY DEF Transcript
<1> HIDE DEF at, f
<1>6. /\ IsSequence(cells \o f)
      /\ Len(cells) \in Nat /\ Len(cells \o f) = Len(cells) + at \div POOL
      /\ ToSet(cells) \subseteq ToSet(cells \o f)
  BY <1>2, <1>4, <1>5, Longer
<1> QED
  BY <1>2, <1>3, <1>6 DEF at

\* One is before what comes after the last of them, and after all before them.
LEMMA ValuesInOrder ==
  ASSUME Transcript, NEW n \in Nat \ {0}, NEW i \in 1 .. n
  PROVE  /\ Before(GenerateFp(i), Len(GenerateFp(n)[1]), GenerateFp(n)[2] + 1)
         /\ ~ Before(GenerateFp(i), Len(cells), pool_used)
         /\ \A j \in 1 .. n : GenerateFp(i) = GenerateFp(j) => i = j
<1> DEFINE at(k) == pool_used + k - 1
           q(k) == at(k) \div POOL
           r(k) == at(k) % POOL
           L == Len(cells)
<1>1. pool_used \in 0 .. POOL /\ POOL \in Nat \ {0} /\ i \in Nat \ {0}
  BY VerifyAssumption DEF Transcript
<1>2. \A k \in Nat \ {0} : at(k) \in Nat
  BY <1>1
<1>3. \A k \in Nat \ {0} : q(k) \in Nat /\ r(k) \in Nat
  <2> SUFFICES ASSUME NEW k \in Nat \ {0}
               PROVE  q(k) \in Nat /\ r(k) \in Nat
    OBVIOUS
  <2>1. q(k) \in Nat /\ r(k) \in 0 .. POOL - 1
    BY <1>2, Divided
  <2> QED
    BY <2>1, <1>1
<1>4. \A k \in Nat \ {0} : Len(GenerateFp(k)[1]) = L + q(k) /\ GenerateFp(k)[2] = r(k)
  BY ValuesFollow
<1>5. \A j \in Nat \ {0}, k \in Nat \ {0} : j < k => q(j) < q(k) \/ (q(j) = q(k) /\ r(j) < r(k))
  <2> SUFFICES ASSUME NEW j \in Nat \ {0}, NEW k \in Nat \ {0}, j < k
               PROVE  q(j) < q(k) \/ (q(j) = q(k) /\ r(j) < r(k))
    OBVIOUS
  <2>1. at(j) \in Nat /\ at(k) \in Nat /\ at(j) < at(k)
    BY <1>1, <1>2
  <2> HIDE DEF at
  <2> QED
    BY <2>1, DividedInOrder
<1>6. q(i) = 0 => r(i) >= pool_used
  <2>1. at(i) = POOL * q(i) + r(i)
    BY <1>1, <1>2, Divided
  <2>2. at(i) >= pool_used
    BY <1>1
  <2>3. r(i) \in Nat
    BY <1>1, <1>3
  <2> HIDE DEF at, q, r
  <2>4. ASSUME q(i) = 0
        PROVE  at(i) = r(i)
    <3>1. POOL * q(i) = 0
      BY <2>4, <1>1
    <3> QED
      BY <2>1, <2>3, <3>1
  <2> QED
    BY <2>2, <2>4
<1>7. L \in Nat
  BY <1>1, ValuesFollow
<1> HIDE DEF at, q, r, L
<1>8. Before(GenerateFp(i), Len(GenerateFp(n)[1]), GenerateFp(n)[2] + 1)
  <2>1. i < n \/ i = n
    BY <1>1
  <2>2. q(i) < q(n) \/ (q(i) = q(n) /\ r(i) < r(n) + 1)
    BY <2>1, <1>1, <1>3, <1>5
  <2>3. /\ Len(GenerateFp(i)[1]) = L + q(i) /\ GenerateFp(i)[2] = r(i)
        /\ Len(GenerateFp(n)[1]) = L + q(n) /\ GenerateFp(n)[2] = r(n)
    BY <1>1, <1>4
  <2>4. q(i) \in Nat /\ r(i) \in Nat /\ q(n) \in Nat /\ r(n) \in Nat
    BY <1>1, <1>3
  <2> QED
    BY <2>2, <2>3, <2>4, <1>7 DEF Before
<1>9. ~ Before(GenerateFp(i), Len(cells), pool_used)
  <2>1. /\ Len(GenerateFp(i)[1]) = L + q(i) /\ GenerateFp(i)[2] = r(i)
        /\ q(i) \in Nat /\ r(i) \in Nat
    BY <1>1, <1>3, <1>4
  <2> QED
    BY <2>1, <1>1, <1>6, <1>7 DEF Before, L
<1>10. ASSUME NEW j \in 1 .. n, GenerateFp(i) = GenerateFp(j)
       PROVE  i = j
  <2>1. j \in Nat \ {0}
    OBVIOUS
  <2>2. /\ L + q(i) = L + q(j) /\ r(i) = r(j)
        /\ q(i) \in Nat /\ q(j) \in Nat /\ r(i) \in Nat /\ r(j) \in Nat
    BY <1>1, <1>3, <1>4, <1>10, <2>1
  <2>3. q(i) = q(j)
    BY <2>2, <1>7
  <2>4. ~ (i < j) /\ ~ (j < i)
    BY <1>1, <1>5, <2>1, <2>2, <2>3
  <2> QED
    BY <1>1, <2>1, <2>4
<1> QED
  BY <1>8, <1>9, <1>10

\* So a handler that draws a challenge keeps what holds too.
LEMMA DrawBinds ==
  ASSUME Transcript, NEW n \in Nat \ {0}, Draw(n), UNCHANGED names
  PROVE  Transcript'
<1> DEFINE ids == [i \in 1 .. n |-> GenerateFp(i)]
           drawn == [ids |-> ids, read |-> names]
           last == GenerateFp(n)
           D == Len(draws)
<1>1. cells' = last[1] /\ pool_used' = last[2] + 1 /\ draws' = Append(draws, drawn)
  BY DEF Draw
<1>2. /\ IsSequence(last[1]) /\ last[2] \in 0 .. POOL - 1
      /\ Len(cells) \in Nat /\ Len(last[1]) \in Nat /\ Len(cells) <= Len(last[1])
      /\ ToSet(cells) \subseteq ToSet(last[1])
  <2>1. pool_used + n - 1 \in Nat
    BY VerifyAssumption DEF Transcript
  <2>2. (pool_used + n - 1) \div POOL \in Nat
    BY <2>1, Divided
  <2> QED
    BY <2>2, ValuesFollow
<1>3. POOL \in Nat \ {0} /\ pool_used \in 0 .. POOL /\ pool_used' \in 0 .. POOL
  BY <1>1, <1>2, VerifyAssumption DEF Transcript
<1>4. /\ IsSequence(draws') /\ D \in Nat
      /\ DOMAIN draws = 1 .. D /\ DOMAIN draws' = 1 .. D + 1
      /\ \A d \in 1 .. D : draws'[d] = draws[d]
      /\ draws'[D + 1] = drawn
  <2> HIDE DEF drawn
  <2>1. PICK S : draws \in Seq(S)
    BY DEF Transcript, IsSequence
  <2>2. draws \in Seq(S \cup {drawn}) /\ drawn \in S \cup {drawn}
    BY <2>1
  <2>3. /\ draws' \in Seq(S \cup {drawn}) /\ Len(draws') = D + 1 /\ D \in Nat
        /\ \A d \in 1 .. D : draws'[d] = draws[d]
        /\ draws'[D + 1] = drawn
    BY <2>2, <1>1
  <2>4. DOMAIN draws = 1 .. D /\ DOMAIN draws' = 1 .. D + 1
    BY <2>1, <2>3
  <2>5. IsSequence(draws')
    BY <2>3 DEF IsSequence
  <2> QED
    BY <2>3, <2>4, <2>5
<1>5. DOMAIN ids = 1 .. n /\ \A i \in 1 .. n : ids[i] = GenerateFp(i)
  OBVIOUS
<1>6. drawn.ids = ids /\ drawn.read = names
  OBVIOUS
<1> HIDE DEF ids, drawn, last, D
\* The values of this challenge, and those of earlier ones
<1>7. \A i \in 1 .. n :
        /\ Before(ids[i], Len(last[1]), last[2] + 1)
        /\ ~ Before(ids[i], Len(cells), pool_used)
        /\ \A j \in 1 .. n : ids[i] = ids[j] => i = j
  BY <1>5, ValuesInOrder DEF last
<1>8. \A d \in 1 .. D : \A i \in DOMAIN draws[d].ids :
        /\ Before(draws[d].ids[i], Len(cells), pool_used)
        /\ Before(draws[d].ids[i], Len(last[1]), last[2] + 1)
  <2> SUFFICES ASSUME NEW d \in 1 .. D, NEW i \in DOMAIN draws[d].ids
               PROVE  /\ Before(draws[d].ids[i], Len(cells), pool_used)
                      /\ Before(draws[d].ids[i], Len(last[1]), last[2] + 1)
    OBVIOUS
  <2>1. Before(draws[d].ids[i], Len(cells), pool_used)
    BY <1>4 DEF Transcript, DrawnIsPast
  <2>2. Len(cells) = Len(last[1]) => pool_used <= last[2] + 1
    <3>1. /\ Len(last[1]) = Len(cells) + (pool_used + n - 1) \div POOL
          /\ last[2] = (pool_used + n - 1) % POOL
      BY ValuesFollow DEF last
    <3>2. pool_used + n - 1 \in Nat /\ pool_used <= pool_used + n - 1
      BY <1>3
    <3>3. /\ (pool_used + n - 1) \div POOL \in Nat
          /\ pool_used + n - 1 = POOL * ((pool_used + n - 1) \div POOL) + ((pool_used + n - 1) % POOL)
      BY <3>2, Divided
    <3>4. ASSUME (pool_used + n - 1) \div POOL = 0
          PROVE  pool_used + n - 1 = last[2]
      BY <3>1, <3>2, <3>3, <3>4, <1>2, <1>3
    <3> QED
      BY <3>1, <3>2, <3>3, <3>4, <1>2, <1>3
  <2>3. pool_used \in Nat /\ last[2] + 1 \in Nat
    BY <1>2, <1>3
  <2>4. Before(draws[d].ids[i], Len(last[1]), last[2] + 1)
    BY <2>1, <2>2, <2>3, <1>2, BeforeLater
  <2> QED
    BY <2>1, <2>4
<1>9. (\A d \in DOMAIN draws : DrawnIsPast(d))'
  <2> SUFFICES ASSUME NEW d \in 1 .. D + 1
               PROVE  \A i \in DOMAIN draws'[d].ids : Before(draws'[d].ids[i], Len(last[1]), last[2] + 1)
    BY <1>1, <1>4 DEF DrawnIsPast
  <2>1. CASE d \in 1 .. D
    BY <2>1, <1>4, <1>8
  <2>2. CASE d = D + 1
    BY <2>2, <1>4, <1>5, <1>6, <1>7
  <2> QED
    BY <2>1, <2>2, <1>4
<1>10. (names \subseteq ToSet(cells))'
  BY <1>1, <1>2 DEF Transcript
<1>11. ASSUME NEW d \in 1 .. D + 1, NEW i \in DOMAIN draws'[d].ids
       PROVE  draws'[d].read \subseteq ToSet(draws'[d].ids[i][1])
  <2>1. CASE d \in 1 .. D
    BY <2>1, <1>4, <1>11 DEF Transcript, ChallengesBind
  <2>2. CASE d = D + 1
    <3>1. i \in Nat \ {0} /\ draws'[d].ids[i] = GenerateFp(i) /\ draws'[d].read = names
      BY <2>2, <1>4, <1>5, <1>6, <1>11
    <3>2. ToSet(cells) \subseteq ToSet(GenerateFp(i)[1])
      BY <3>1, ValuesFollow
    <3> QED
      BY <3>1, <3>2 DEF Transcript
  <2> QED
    BY <2>1, <2>2, <1>4
<1>12. ASSUME NEW d \in 1 .. D + 1, NEW i \in DOMAIN draws'[d].ids,
              NEW e \in 1 .. D + 1, NEW j \in DOMAIN draws'[e].ids,
              draws'[d].ids[i] = draws'[e].ids[j]
       PROVE  d = e /\ i = j
  <2>1. CASE d \in 1 .. D /\ e \in 1 .. D
    BY <2>1, <1>4, <1>12 DEF Transcript, ChallengesBind
  <2>2. CASE d \in 1 .. D /\ e = D + 1
    <3>1. Before(draws[d].ids[i], Len(cells), pool_used)
      BY <2>2, <1>4, <1>8, <1>12
    <3>2. draws[d].ids[i] = ids[j] /\ j \in 1 .. n
      BY <2>2, <1>4, <1>5, <1>6, <1>12
    <3> QED
      BY <3>1, <3>2, <1>7
  <2>3. CASE d = D + 1 /\ e \in 1 .. D
    <3>1. Before(draws[e].ids[j], Len(cells), pool_used)
      BY <2>3, <1>4, <1>8, <1>12
    <3>2. draws[e].ids[j] = ids[i] /\ i \in 1 .. n
      BY <2>3, <1>4, <1>5, <1>6, <1>12
    <3> QED
      BY <3>1, <3>2, <1>7
  <2>4. CASE d = D + 1 /\ e = D + 1
    <3>1. ids[i] = ids[j] /\ i \in 1 .. n /\ j \in 1 .. n
      BY <2>4, <1>4, <1>5, <1>6, <1>12
    <3> QED
      BY <3>1, <2>4, <1>7
  <2> QED
    BY <2>1, <2>2, <2>3, <2>4, <1>4
<1>13. ChallengesBind'
  BY <1>4, <1>11, <1>12 DEF ChallengesBind
<1> QED
  BY <1>1, <1>2, <1>3, <1>4, <1>9, <1>10, <1>13 DEF Transcript

-----------------------------------------------------------------------------
(* The messages                                                            *)

\* A message is committed to before anything is drawn after it.
LEMMA ReadKeeps ==
  ASSUME Transcript, NEW read, NEW msg, NEW next, Read(read, {msg}, <<msg>>, next)
  PROVE  Transcript'
<1>1. Commit(<<msg>>) /\ names' = names \cup {msg} /\ UNCHANGED draws
  BY DEF Read
<1>2. <<msg>> = [i \in 1 .. 1 |-> <<msg>>[i]] /\ Len(<<msg>>) = 1
  OBVIOUS
<1>3. {msg} \subseteq {<<msg>>[i] : i \in 1 .. 1}
  OBVIOUS
<1> QED
  BY <1>1, <1>2, <1>3, ReadBinds

LEMMA DrawingKeeps ==
  ASSUME Transcript, NEW now, NEW next, NEW n \in Nat \ {0}, Drawing(now, next, n)
  PROVE  Transcript'
<1>1. Draw(n) /\ UNCHANGED names
  BY DEF Drawing
<1> QED
  BY <1>1, DrawBinds

\* Every handler keeps what holds.
LEMMA TranscriptStep ==
  ASSUME Transcript, Next
  PROVE  Transcript'
<1>1. CASE ReadStatement
  <2> DEFINE c == <<"proof system", "circuit", "statement">>
  <2>1. Commit(c) /\ names' = names \cup {"statement"} /\ UNCHANGED draws
    BY <1>1 DEF ReadStatement, Read
  <2>2. c = [i \in 1 .. 3 |-> c[i]] /\ Len(c) = 3 /\ c[3] = "statement"
    OBVIOUS
  <2> HIDE DEF c
  <2>3. {"statement"} \subseteq {c[i] : i \in 1 .. 3}
    BY <2>2
  <2> QED
    BY <2>1, <2>2, <2>3, ReadBinds
<1>2. CASE ReadCodeData
  <2> DEFINE c == <<"code", "data">>
  <2>1. Commit(c) /\ names' = names \cup {"code", "data"} /\ UNCHANGED draws
    BY <1>2 DEF ReadCodeData, Read
  <2>2. c = [i \in 1 .. 2 |-> c[i]] /\ Len(c) = 2 /\ c[1] = "code" /\ c[2] = "data"
    OBVIOUS
  <2> HIDE DEF c
  <2>3. {"code", "data"} \subseteq {c[i] : i \in 1 .. 2}
    BY <2>2
  <2> QED
    BY <2>1, <2>2, <2>3, ReadBinds
<1>3. CASE DrawAccumMix
  <2>1. \E now, next : Drawing(now, next, 1)
    BY <1>3 DEF DrawAccumMix
  <2>2. 1 \in Nat \ {0}
    OBVIOUS
  <2> QED
    BY <2>1, <2>2, DrawingKeeps
<1>4. CASE ReadAccum
  BY <1>4, ReadKeeps DEF ReadAccum
<1>5. CASE DrawPolyMix
  <2>1. \E now, next : Drawing(now, next, 4)
    BY <1>5 DEF DrawPolyMix
  <2>2. 4 \in Nat \ {0}
    OBVIOUS
  <2> QED
    BY <2>1, <2>2, DrawingKeeps
<1>6. CASE ReadCheck
  <2>1. \E read : Read(read, {"check"}, <<"check">>, "Z")
    BY <1>6 DEF ReadCheck
  <2> QED
    BY <2>1, ReadKeeps
<1>7. CASE DrawZ
  BY <1>7, DrawingKeeps DEF DrawZ
<1>8. CASE ReadTaps
  <2>1. \E read : Read(read, {"taps"}, <<"taps">>, "mix")
    BY <1>8 DEF ReadTaps
  <2> QED
    BY <2>1, ReadKeeps
<1>9. CASE DrawMix
  BY <1>9, DrawingKeeps DEF DrawMix
<1>10. CASE ReadFriRound
  <2>1. \E read, msg : Read(read, {msg}, <<msg>>, "fri mix")
    BY <1>10 DEF ReadFriRound
  <2> QED
    BY <2>1, ReadKeeps
<1>11. CASE DrawFriMix
  <2>1. \E now, next : Drawing(now, next, 4)
    BY <1>11 DEF DrawFriMix
  <2>2. 4 \in Nat \ {0}
    OBVIOUS
  <2> QED
    BY <2>1, <2>2, DrawingKeeps
<1>12. CASE ReadFinalCoeffs
  <2>1. \E read : Read(read, {"final"}, <<"final">>, "queries")
    BY <1>12 DEF ReadFinalCoeffs
  <2> QED
    BY <2>1, ReadKeeps
<1>13. CASE Query
  BY <1>13, DrawBinds DEF Query
<1>14. CASE CodeAllowed
  <2>1. UNCHANGED <<cells, pool_used, names, draws>>
    BY <1>14 DEF CodeAllowed
  <2> QED
    BY <2>1 DEF Transcript, DrawnIsPast, ChallengesBind
<1> QED
  BY <1>1, <1>2, <1>3, <1>4, <1>5, <1>6, <1>7, <1>8, <1>9, <1>10, <1>11, <1>12, <1>13, <1>14
  DEF Next

\* Every challenge is drawn from a state that everything read before went into,
\* and no two values are the same of the same state (Poseidon2Rng, and the order
\* of the commits in verify.cpp and fri.cpp).
THEOREM ChallengesAreBound == Spec => []ChallengesBind
<1>1. Init => Transcript
  <2> SUFFICES ASSUME Init
               PROVE  Transcript
    OBVIOUS
  <2>1. /\ cells = <<>> /\ pool_used = 0 /\ names = {} /\ draws = <<>>
    BY DEF Init
  <2>2. IsSequence(cells) /\ IsSequence(draws) /\ DOMAIN draws = {}
    BY <2>1 DEF IsSequence
  <2>3. pool_used \in 0 .. POOL
    BY <2>1, VerifyAssumption
  <2> QED
    BY <2>1, <2>2, <2>3 DEF Transcript, ChallengesBind
<1>2. Transcript /\ [Next]_vars => Transcript'
  <2>1. ASSUME Transcript, UNCHANGED vars
        PROVE  Transcript'
    BY <2>1 DEF Transcript, DrawnIsPast, ChallengesBind, vars
  <2> QED
    BY <2>1, TranscriptStep
<1>3. Transcript => ChallengesBind
  BY DEF Transcript
<1> QED
  BY <1>1, <1>2, <1>3, PTL DEF Spec
=============================================================================
