--------------------------- MODULE ReceiptsProofs ---------------------------
(***************************************************************************)
(* Proofs about Receipts, for every set of segments, every control tree,   *)
(* all unions a prover makes and every set of true claims.                 *)
(***************************************************************************)
EXTENDS Receipts, TLAPS, FiniteSetTheorems, SequenceTheorems

-----------------------------------------------------------------------------
(* Runs                                                                    *)

\* The runs of any length, a segment in them as often as it likes.
LongRuns == {q \in Seq(Segments) : q # <<>> /\ IsRun(q)}

\* What a run is to those around it: where it starts, and its last segment.
SameEnds(q, s) == s[1] = q[1] /\ s[Len(s)] = q[Len(q)]

\* Of numbers there is a least.
LEMMA LeastNumber ==
  ASSUME NEW S, S \subseteq Nat, S # {}
  PROVE  \E m \in S : \A n \in S : m <= n
<1> DEFINE T == {0 .. m : m \in S}
           R == StrictSubsetOrdering(Nat)
<1>1. IsWellFoundedOn(R, FiniteSubsetsOf(Nat))
  BY FS_StrictSubsetOrderingWellFounded
<1>2. T \subseteq FiniteSubsetsOf(Nat)
  <2>1. \A m \in Nat : 0 .. m \subseteq Nat /\ IsFiniteSet(0 .. m)
    BY FS_Interval
  <2> QED
    BY <2>1 DEF FiniteSubsetsOf
<1>3. T # {}
  OBVIOUS
<1> HIDE DEF T, R
<1>4. PICK x \in T : \A y \in T : ~ (<<y, x>> \in R)
  BY <1>1, <1>2, <1>3, WFMin
<1>5. PICK m \in S : x = 0 .. m
  BY DEF T
<1>6. ASSUME NEW n \in S, ~ (m <= n)
      PROVE  FALSE
  <2>1. 0 .. n \in T
    BY DEF T
  <2>2. n < m /\ n \in Nat /\ m \in Nat
    BY <1>6
  <2>3. 0 .. n \subseteq 0 .. m /\ m \in 0 .. m /\ ~ (m \in 0 .. n)
    BY <2>2
  <2>4. <<0 .. n, 0 .. m>> \in R
    BY <2>3, <2>2 DEF R, StrictSubsetOrdering
  <2> QED
    BY <1>4, <1>5, <2>1, <2>4
<1> QED
  BY <1>6

\* A segment met twice can be met once: what lies between is left out.
LEMMA Shortened ==
  ASSUME NEW q \in LongRuns, NEW i \in 1 .. Len(q), NEW j \in 1 .. Len(q),
         i < j, q[i] = q[j]
  PROVE  \E s \in LongRuns : SameEnds(q, s) /\ Len(s) < Len(q)
<1> DEFINE n == Len(q)
           m == n - (j - i)
           s == [k \in 1 .. m |-> IF k <= i THEN q[k] ELSE q[k + (j - i)]]
<1>1. q \in Seq(Segments) /\ n \in Nat /\ IsRun(q)
  BY DEF LongRuns
<1>2. m \in Nat /\ i <= m /\ 1 <= m /\ m < n
  BY <1>1
<1>3. \A k \in 1 .. n : q[k] \in Segments
  BY <1>1
<1>4. s \in Seq(Segments) /\ Len(s) = m
  <2>1. \A k \in 1 .. m : s[k] \in Segments
    BY <1>1, <1>2, <1>3
  <2> QED
    BY <1>2, <2>1
<1>5. /\ \A k \in 1 .. m : k <= i => s[k] = q[k]
      /\ \A k \in 1 .. m : i < k => s[k] = q[k + (j - i)]
  BY <1>1, <1>2
<1> HIDE DEF s
<1>6. IsRun(s)
  <2> SUFFICES ASSUME NEW k \in 1 .. m - 1
               PROVE  /\ s[k].post = s[k + 1].pre /\ s[k].input = s[k + 1].input
                      /\ s[k].sysExit = 2 /\ s[k].userExit = 0 /\ s[k].output = NoDigest
    BY <1>4 DEF IsRun
  <2>1. \A l \in 1 .. n - 1 :
          /\ q[l].post = q[l + 1].pre /\ q[l].input = q[l + 1].input
          /\ q[l].sysExit = 2 /\ q[l].userExit = 0 /\ q[l].output = NoDigest
    BY <1>1 DEF IsRun
  <2>2. \E l \in 1 .. n - 1 : s[k] = q[l] /\ s[k + 1] = q[l + 1]
    <3>0. k \in 1 .. m /\ k + 1 \in 1 .. m
      BY <1>2
    <3>1. CASE k < i
      <4>1. s[k] = q[k] /\ s[k + 1] = q[k + 1] /\ k \in 1 .. n - 1
        BY <3>0, <3>1, <1>1, <1>2, <1>5
      <4> QED
        BY <4>1
    <3>2. CASE k = i
      <4>1. (k + 1) + (j - i) = j + 1 /\ j \in 1 .. n - 1
        BY <3>2, <1>1, <1>2
      <4>2. s[k] = q[j] /\ s[k + 1] = q[j + 1]
        BY <4>1, <3>0, <3>2, <1>1, <1>2, <1>5
      <4> QED
        BY <4>1, <4>2
    <3>3. CASE i < k
      <4>1. s[k] = q[k + (j - i)] /\ s[k + 1] = q[(k + 1) + (j - i)]
        BY <3>0, <3>3, <1>1, <1>2, <1>5
      <4>2. k + (j - i) \in 1 .. n - 1 /\ (k + 1) + (j - i) = (k + (j - i)) + 1
        BY <3>3, <1>1, <1>2
      <4> QED
        BY <4>1, <4>2
    <3> QED
      BY <3>1, <3>2, <3>3, <1>1
  <2> QED
    BY <2>1, <2>2
<1>7. s[1] = q[1]
  BY <1>1, <1>2, <1>5
<1>8. s[m] = q[n]
  <2>1. CASE i = m
    BY <2>1, <1>1, <1>2, <1>5
  <2>2. CASE i < m
    <3>1. m + (j - i) = n /\ m \in 1 .. m
      BY <1>1, <1>2
    <3> QED
      BY <2>2, <3>1, <1>2, <1>5
  <2> QED
    BY <2>1, <2>2, <1>2, <1>1
<1>9. s # <<>>
  BY <1>2, <1>4
<1>10. s \in LongRuns /\ SameEnds(q, s) /\ Len(s) < Len(q)
  BY <1>2, <1>4, <1>6, <1>7, <1>8, <1>9 DEF LongRuns, SameEnds
<1> QED
  BY <1>10

\* So the runs that are looked at are enough.
LEMMA RunsAreEnough ==
  ASSUME NEW q \in LongRuns
  PROVE  \E s \in Runs : Spanned(s) = Spanned(q)
<1> DEFINE S == {Len(s) : s \in {t \in LongRuns : SameEnds(q, t)}}
<1>1. S \subseteq Nat /\ S # {}
  <2>1. q \in LongRuns /\ SameEnds(q, q)
    BY DEF SameEnds
  <2>2. \A t \in LongRuns : Len(t) \in Nat
    BY DEF LongRuns
  <2> QED
    BY <2>1, <2>2
<1>2. PICK n \in S : \A k \in S : n <= k
  <2> HIDE DEF S
  <2> QED
    BY <1>1, LeastNumber
<1>3. PICK s \in LongRuns : SameEnds(q, s) /\ Len(s) = n
  OBVIOUS
<1>4. s \in Seq(Segments) /\ n \in Nat /\ 1 <= n /\ IsRun(s)
  BY <1>3 DEF LongRuns
<1>5. s \in [1 .. n -> Segments]
  BY <1>3, <1>4
<1>6. IsFiniteSet(Segments) /\ Cardinality(Segments) \in Nat
  BY SegmentsAssumption, FS_CardinalityType
<1>7. IsFiniteSet(1 .. n) /\ Cardinality(1 .. n) = n
  BY <1>4, FS_Interval
<1>8. n <= Cardinality(Segments)
  <2> SUFFICES ASSUME Cardinality(Segments) < n
               PROVE  FALSE
    BY <1>4, <1>6
  <2>1. PICK x \in 1 .. n, y \in 1 .. n : x # y /\ s[x] = s[y]
    BY <1>5, <1>6, <1>7, FS_PigeonHole
  <2>2. PICK i \in 1 .. Len(s), j \in 1 .. Len(s) : i < j /\ s[i] = s[j]
    BY <2>1, <1>3, <1>4
  <2>3. PICK t \in LongRuns : SameEnds(s, t) /\ Len(t) < Len(s)
    BY <2>2, Shortened
  <2>4. SameEnds(q, t)
    BY <2>3, <1>3 DEF SameEnds
  <2>5. Len(t) \in S
    BY <2>4
  <2>6. Len(t) \in Nat
    BY DEF LongRuns
  <2> QED
    BY <2>3, <2>5, <2>6, <1>2, <1>3, <1>4
<1>9. s \in Runs
  <2>1. n \in 1 .. Cardinality(Segments)
    BY <1>4, <1>6, <1>8
  <2> QED
    BY <2>1, <1>4, <1>5 DEF Runs
<1>10. Spanned(s) = Spanned(q)
  BY <1>3 DEF Spanned, SameEnds
<1> QED
  BY <1>9, <1>10

\* What a run does is true, however long it is.
LEMMA RunIsTrue ==
  ASSUME NEW q \in LongRuns
  PROVE  Spanned(q) \in TrueClaims
BY RunsAreEnough, TruthAssumption

\* A run after another that it continues.
LEMMA RunsJoin ==
  ASSUME NEW q \in LongRuns, NEW s \in LongRuns,
         q[Len(q)].post = s[1].pre, q[Len(q)].input = s[1].input,
         q[Len(q)].sysExit = 2, q[Len(q)].userExit = 0, q[Len(q)].output = NoDigest
  PROVE  /\ q \o s \in LongRuns
         /\ (q \o s)[1] = q[1]
         /\ (q \o s)[Len(q \o s)] = s[Len(s)]
<1> DEFINE a == Len(q)
           b == Len(s)
           t == q \o s
<1>1. /\ q \in Seq(Segments) /\ a \in Nat /\ 1 <= a /\ IsRun(q)
      /\ s \in Seq(Segments) /\ b \in Nat /\ 1 <= b /\ IsRun(s)
  BY DEF LongRuns
<1>2. t \in Seq(Segments) /\ Len(t) = a + b
  BY <1>1
<1>3. /\ \A k \in 1 .. a : t[k] = q[k]
      /\ \A k \in a + 1 .. a + b : t[k] = s[k - a]
  BY <1>1
<1>4. IsRun(t)
  <2> HIDE DEF t
  <2> SUFFICES ASSUME NEW k \in 1 .. a + b - 1
               PROVE  /\ t[k].post = t[k + 1].pre /\ t[k].input = t[k + 1].input
                      /\ t[k].sysExit = 2 /\ t[k].userExit = 0 /\ t[k].output = NoDigest
    BY <1>2 DEF IsRun
  <2>1. CASE k < a
    <3>1. t[k] = q[k] /\ t[k + 1] = q[k + 1] /\ k \in 1 .. a - 1
      BY <2>1, <1>1, <1>3
    <3> QED
      BY <3>1, <1>1 DEF IsRun
  <2>2. CASE k = a
    <3>1. t[k] = q[a] /\ t[k + 1] = s[1]
      <4>1. k + 1 \in a + 1 .. a + b /\ (k + 1) - a = 1 /\ k \in 1 .. a
        BY <2>2, <1>1
      <4> QED
        BY <4>1, <2>2, <1>3
    <3> QED
      BY <3>1
  <2>3. CASE a < k
    <3>1. /\ k \in a + 1 .. a + b /\ k + 1 \in a + 1 .. a + b
          /\ k - a \in 1 .. b - 1 /\ (k + 1) - a = (k - a) + 1
      BY <2>3, <1>1
    <3>2. t[k] = s[k - a] /\ t[k + 1] = s[(k - a) + 1]
      BY <3>1, <1>3
    <3> QED
      BY <3>1, <3>2, <1>1 DEF IsRun
  <2> QED
    BY <2>1, <2>2, <2>3, <1>1
<1>5. t[1] = q[1]
  BY <1>1, <1>3
<1>6. t[a + b] = s[b]
  <2>1. a + b \in a + 1 .. a + b /\ (a + b) - a = b
    BY <1>1
  <2> QED
    BY <2>1, <1>3
<1>7. t # <<>>
  BY <1>1, <1>2
<1> HIDE DEF t
<1>8. t \in LongRuns /\ t[1] = q[1] /\ t[Len(t)] = s[Len(s)]
  BY <1>2, <1>4, <1>5, <1>6, <1>7 DEF LongRuns
<1> QED
  BY <1>8 DEF t

-----------------------------------------------------------------------------
(* Claims                                                                  *)

\* A claim with a run behind it: it stays true whatever run is put before its
\* own, and as long as nothing was put out it is what its run does.
Behind(c, q) ==
  /\ q[1].pre = c.pre /\ q[1].input = c.input
  /\ c.output = NoDigest => c = Spanned(q)
  /\ \A p \in Seq(Segments) :
       p \o q \in LongRuns => [c EXCEPT !.pre = (p \o q)[1].pre] \in TrueClaims

Founded(c) == IsClaim(c) /\ \E q \in LongRuns : Behind(c, q)

\* The claim itself is true: nothing is put before it.
LEMMA FoundedIsTrue ==
  ASSUME NEW c, Founded(c)
  PROVE  c \in TrueClaims
<1>1. PICK q \in LongRuns : Behind(c, q)
  BY DEF Founded
<1>2. <<>> \o q = q /\ <<>> \in Seq(Segments)
  BY DEF LongRuns
<1>3. [c EXCEPT !.pre = q[1].pre] \in TrueClaims
  BY <1>1, <1>2 DEF Behind
<1>4. [c EXCEPT !.pre = q[1].pre] = c
  BY <1>1 DEF Behind, Founded, IsClaim
<1> QED
  BY <1>3, <1>4

\* lift: a segment's own claim.
LEMMA LiftIsFounded ==
  ASSUME NEW c \in Segments
  PROVE  Founded(c)
<1> DEFINE q == <<c>>
<1>1. IsClaim(c)
  BY SegmentsAssumption
<1>2. q \in LongRuns
  BY DEF LongRuns, IsRun
<1>3. c = Spanned(q)
  BY <1>1 DEF Spanned, IsClaim
<1>4. ASSUME NEW p \in Seq(Segments), p \o q \in LongRuns
      PROVE  [c EXCEPT !.pre = (p \o q)[1].pre] \in TrueClaims
  <2>1. Spanned(p \o q) \in TrueClaims
    BY <1>4, RunIsTrue
  <2>2. (p \o q)[Len(p \o q)] = c
    OBVIOUS
  <2> QED
    BY <2>1, <2>2 DEF Spanned
<1>5. q[1].pre = c.pre /\ q[1].input = c.input
  OBVIOUS
<1>6. Behind(c, q)
  BY <1>3, <1>4, <1>5 DEF Behind
<1> QED
  BY <1>1, <1>2, <1>6 DEF Founded

\* join: the runs behind the two claims, one after the other.
LEMMA JoinIsFounded ==
  ASSUME NEW c1, NEW c2, Founded(c1), Founded(c2), Joinable(c1, c2)
  PROVE  Founded(join(c1, c2))
<1> DEFINE c == join(c1, c2)
<1>1. PICK q1 \in LongRuns : Behind(c1, q1)
  BY DEF Founded
<1>2. PICK q2 \in LongRuns : Behind(c2, q2)
  BY DEF Founded
<1>3. /\ c1.post = c2.pre /\ c1.sysExit = 2 /\ c1.userExit = 0
      /\ c1.output = NoDigest /\ c1.input = c2.input
  BY DEF Joinable
<1>4. /\ q1 \in Seq(Segments) /\ 1 <= Len(q1) /\ Len(q1) \in Nat
      /\ q2 \in Seq(Segments) /\ 1 <= Len(q2) /\ Len(q2) \in Nat
  BY DEF LongRuns
<1> DEFINE l == q1[Len(q1)]
<1>5. IsClaim(l)
  <2>1. l \in Segments
    BY <1>4
  <2> QED
    BY <2>1, SegmentsAssumption
<1>6. c1 = [l EXCEPT !.pre = q1[1].pre]
  BY <1>1, <1>3 DEF Behind, Spanned
<1>7. /\ l.post = q2[1].pre /\ l.input = q2[1].input
      /\ l.sysExit = 2 /\ l.userExit = 0 /\ l.output = NoDigest
  <2>1. /\ c1.post = l.post /\ c1.input = l.input /\ c1.sysExit = l.sysExit
        /\ c1.userExit = l.userExit /\ c1.output = l.output
    BY <1>5, <1>6 DEF IsClaim
  <2> QED
    BY <2>1, <1>2, <1>3 DEF Behind
<1> DEFINE q == q1 \o q2
<1>8. q \in LongRuns /\ q[1] = q1[1] /\ q[Len(q)] = q2[Len(q2)]
  BY <1>7, RunsJoin
<1>9. IsClaim(c2) /\ IsClaim(c)
  BY DEF Founded, IsClaim, join
<1>10. c.pre = c1.pre /\ c.input = c2.input /\ c.output = c2.output
  BY <1>9 DEF IsClaim, join
<1>11. q[1].pre = c.pre /\ q[1].input = c.input
  BY <1>1, <1>3, <1>8, <1>10 DEF Behind
<1>12. ASSUME c.output = NoDigest
       PROVE  c = Spanned(q)
  <2>1. c2 = [q2[Len(q2)] EXCEPT !.pre = q2[1].pre]
    BY <1>2, <1>10, <1>12 DEF Behind, Spanned
  <2>2. IsClaim(q2[Len(q2)])
    <3>1. q2[Len(q2)] \in Segments
      BY <1>4
    <3> QED
      BY <3>1, SegmentsAssumption
  <2>3. c = [q2[Len(q2)] EXCEPT !.pre = c1.pre]
    BY <2>1, <2>2 DEF join, IsClaim
  <2>4. c1.pre = q1[1].pre
    BY <1>1 DEF Behind
  <2> QED
    BY <2>3, <2>4, <1>8 DEF Spanned
<1>13. ASSUME NEW p \in Seq(Segments), p \o q \in LongRuns
       PROVE  [c EXCEPT !.pre = (p \o q)[1].pre] \in TrueClaims
  <2>1. p \o q = (p \o q1) \o q2 /\ p \o q1 \in Seq(Segments)
    BY <1>4, ConcatAssociative
  <2>2. [c2 EXCEPT !.pre = (p \o q)[1].pre] \in TrueClaims
    BY <2>1, <1>2, <1>13 DEF Behind
  <2>3. \A x : [c EXCEPT !.pre = x] = [c2 EXCEPT !.pre = x]
    BY <1>9 DEF join, IsClaim
  <2> QED
    BY <2>2, <2>3
<1> HIDE DEF c, q
<1>14. Behind(c, q)
  BY <1>11, <1>12, <1>13 DEF Behind
<1> QED
  BY <1>8, <1>9, <1>14 DEF Founded, c

\* resolve: the same run, also with any run before it.
LEMMA ResolveIsFounded ==
  ASSUME NEW c, Founded(c), NEW a \in TrueAssumptions(TrueDigests), Resolvable(c, a)
  PROVE  Founded(resolve(c))
<1> DEFINE d == resolve(c)
<1>1. PICK q \in LongRuns : Behind(c, q)
  BY DEF Founded
<1>2. IsClaim(c) /\ IsClaim(d)
  BY DEF Founded, IsClaim, resolve
<1>3. d.pre = c.pre /\ d.input = c.input
  BY <1>2 DEF IsClaim, resolve
<1>4. ASSUME NEW e \in TrueClaims, e.output = c.output
      PROVE  resolve(e) \in Discharged(TrueClaims, TrueDigests)
  <2>1. Resolvable(e, a)
    BY <1>4 DEF Resolvable, Listed, Rest
  <2> QED
    BY <2>1 DEF Discharged
<1>5. \A x : /\ [c EXCEPT !.pre = x].output = c.output
             /\ [d EXCEPT !.pre = x] = resolve([c EXCEPT !.pre = x])
  <2> SUFFICES ASSUME NEW x
               PROVE  /\ [c EXCEPT !.pre = x].output = c.output
                      /\ [d EXCEPT !.pre = x] = resolve([c EXCEPT !.pre = x])
    OBVIOUS
  <2>1. [c EXCEPT !.pre = x].output = c.output
    BY <1>2 DEF IsClaim
  <2>2. OutputDigest(Journal([c EXCEPT !.pre = x]), Rest([c EXCEPT !.pre = x]))
          = OutputDigest(Journal(c), Rest(c))
    BY <2>1 DEF Journal, Rest, Listed
  <2> QED
    BY <2>1, <2>2, <1>2 DEF resolve, IsClaim
<1>6. d \in Discharged(TrueClaims, TrueDigests)
  BY <1>4, FoundedIsTrue
<1>7. d.output # NoDigest
  BY <1>6, TruthAssumption
<1>8. ASSUME NEW p \in Seq(Segments), p \o q \in LongRuns
      PROVE  [d EXCEPT !.pre = (p \o q)[1].pre] \in TrueClaims
  <2> DEFINE e == [c EXCEPT !.pre = (p \o q)[1].pre]
  <2>1. e \in TrueClaims
    BY <1>1, <1>8 DEF Behind
  <2>2. e.output = c.output
    BY <1>5
  <2>3. resolve(e) \in TrueClaims
    BY <2>1, <2>2, <1>4, TruthAssumption
  <2> QED
    BY <2>3, <1>5
<1> HIDE DEF d
<1>9. Behind(d, q)
  BY <1>1, <1>3, <1>7, <1>8 DEF Behind
<1> QED
  BY <1>2, <1>9 DEF Founded, d

-----------------------------------------------------------------------------
(* Receipts                                                                *)

\* What holds of every receipt, accepted or not.
Means(r) ==
  /\ r.root \in Roots
  /\ r.out.digest \in TrueDigests
  /\ r.out.kind = "claim" => Founded(r.out.obj)

AllFounded == \A r \in receipts : Means(r)

\* The claims a program reads are founded, and the assumptions are true.
LEMMA InputsAreFounded ==
  ASSUME AllFounded, NEW root \in Roots
  PROVE  /\ \A c \in Claims(root) : Founded(c)
         /\ \A a \in Assumptions(root) : a \in TrueAssumptions(TrueDigests)
<1>1. ASSUME NEW c \in Claims(root)
      PROVE  Founded(c)
  BY <1>1 DEF Claims, AllFounded, Means
<1>2. ASSUME NEW a \in Assumptions(root)
      PROVE  a \in TrueAssumptions(TrueDigests)
  <2>1. PICK r \in receipts : \E from \in {r.root, NoDigest} :
          a = [claim |-> r.out.digest, controlRoot |-> from]
    BY <1>2 DEF Assumptions
  <2>2. r.out.digest \in TrueDigests /\ r.root \in Roots
    BY DEF AllFounded, Means
  <2> QED
    BY <2>1, <2>2 DEF TrueAssumptions
<1> QED
  BY <1>1, <1>2

\* A program that makes a founded claim keeps them all.
LEMMA MadeClaim ==
  ASSUME AllFounded, NEW code, NEW root \in Roots, NEW c, Founded(c),
         Made(code, root, Claim(c))
  PROVE  AllFounded'
<1> DEFINE r == [code |-> code, root |-> root, out |-> Claim(c)]
<1>1. receipts' = receipts \cup {r}
  BY DEF Made
<1>2. ClaimDigest(c) \in TrueDigests
  BY FoundedIsTrue, DigestsAssumption
<1>3. Means(r)
  BY <1>2 DEF Means, Claim
<1> HIDE DEF r
<1> QED
  BY <1>1, <1>3 DEF AllFounded

\* And so does one whose digest is true by itself.
LEMMA MadeOther ==
  ASSUME AllFounded, NEW code, NEW root \in Roots, NEW kind, NEW obj, NEW d \in TrueDigests,
         kind # "claim", Made(code, root, [kind |-> kind, obj |-> obj, digest |-> d])
  PROVE  AllFounded'
<1> DEFINE r == [code |-> code, root |-> root, out |-> [kind |-> kind, obj |-> obj, digest |-> d]]
<1>1. receipts' = receipts \cup {r}
  BY DEF Made
<1>2. Means(r)
  BY DEF Means
<1> HIDE DEF r
<1> QED
  BY <1>1, <1>2 DEF AllFounded

\* union: any two receipts, each of which is true.
LEMMA UnionIsTrue ==
  ASSUME AllFounded, NEW root \in Roots, NEW w \in Wanted,
         {w.left, w.right} \subseteq Assumptions(root)
  PROVE  UnionDigest([left |-> AssumptionDigest(w.left), right |-> AssumptionDigest(w.right)])
           \in TrueDigests
<1>1. {w.left, w.right} \subseteq TrueAssumptions(TrueDigests)
  BY InputsAreFounded
<1>2. UnionDigest([left |-> AssumptionDigest(w.left), right |-> AssumptionDigest(w.right)])
        \in United(TrueDigests)
  BY <1>1 DEF United
<1> QED
  BY <1>2, DigestsAssumption

\* Every program keeps them.
LEMMA AllFoundedStep ==
  ASSUME AllFounded, NEW root \in Roots,
         Lift(root) \/ Join(root) \/ Resolve(root) \/ Identity(root) \/ Union(root)
           \/ KeccakLift(root)
  PROVE  AllFounded'
<1>1. CASE Lift(root)
  BY <1>1, LiftIsFounded, MadeClaim DEF Lift
<1>2. CASE Join(root)
  <2>1. PICK c1 \in Claims(root), c2 \in Claims(root) :
          Joinable(c1, c2) /\ Made("join", root, Claim(join(c1, c2)))
    BY <1>2 DEF Join
  <2>2. Founded(join(c1, c2))
    BY <2>1, InputsAreFounded, JoinIsFounded
  <2> QED
    BY <2>1, <2>2, MadeClaim
<1>3. CASE Resolve(root)
  <2>1. PICK c \in Claims(root), a \in Assumptions(root) :
          Resolvable(c, a) /\ Made("resolve", root, Claim(resolve(c)))
    BY <1>3 DEF Resolve
  <2>2. Founded(c) /\ a \in TrueAssumptions(TrueDigests)
    BY InputsAreFounded
  <2>3. Founded(resolve(c))
    BY <2>1, <2>2, ResolveIsFounded
  <2> QED
    BY <2>1, <2>3, MadeClaim
<1>4. CASE Identity(root)
  BY <1>4, InputsAreFounded, MadeClaim DEF Identity
<1>5. CASE Union(root)
  <2>1. PICK w \in Wanted : Unite(root, w)
    BY <1>5 DEF Union
  <2> DEFINE u == [left |-> AssumptionDigest(w.left), right |-> AssumptionDigest(w.right)]
  <2>2. /\ {w.left, w.right} \subseteq Assumptions(root)
        /\ Made("union", root, [kind |-> "union", obj |-> u, digest |-> UnionDigest(u)])
    BY <2>1 DEF Unite
  <2>3. UnionDigest(u) \in TrueDigests
    BY <2>2, UnionIsTrue
  <2>4. "union" # "claim"
    OBVIOUS
  <2> HIDE DEF u
  <2> QED
    BY <2>2, <2>3, <2>4, MadeOther
<1>6. CASE KeccakLift(root)
  <2>1. PICK d \in KeccakClaims :
          Made("keccak_lift", root, [kind |-> "keccak", obj |-> d, digest |-> d])
    BY <1>6 DEF KeccakLift
  <2>2. d \in TrueDigests
    BY DigestsAssumption
  <2>3. "keccak" # "claim"
    OBVIOUS
  <2> QED
    BY <2>1, <2>2, <2>3, MadeOther
<1> QED
  BY <1>1, <1>2, <1>3, <1>4, <1>5, <1>6

\* Every receipt the final verifier accepts is true: it spans segments that
\* follow each other under one input, ends as the last of them did, and has lost
\* only true assumptions; or it is a hash, or a union of any two that are true,
\* in whatever order the programs were run (predicates.cpp:123-207,
\* gen_predicates.cpp:26-81).
THEOREM ReceiptsAreTrue == Spec => []ReceiptsHold
<1>1. Init => AllFounded
  BY DEF Init, AllFounded
<1>2. AllFounded /\ [Next]_vars => AllFounded'
  <2>1. ASSUME AllFounded, Next PROVE AllFounded'
    BY <2>1, AllFoundedStep DEF Next
  <2>2. ASSUME AllFounded, UNCHANGED vars PROVE AllFounded'
    BY <2>2 DEF AllFounded, vars
  <2> QED
    BY <2>1, <2>2
<1>3. AllFounded => ReceiptsHold
  BY DEF AllFounded, Means, ReceiptsHold, Accepted
<1> QED
  BY <1>1, <1>2, <1>3, PTL DEF Spec
=============================================================================
