--------------------------- MODULE Outcomes_proof ---------------------------
(***************************************************************************)
(* Facts about numbers and sequences of checks, for the proofs about what  *)
(* the configuration is checked for.  Induction is by a smallest element.  *)
(***************************************************************************)
EXTENDS Outcomes, SequenceTheorems, WellFoundedInduction, TLAPS

\* A set of numbers has a smallest element, and a bounded one a largest.
LEMMA Smallest ==
  ASSUME NEW S \in SUBSET Nat, S # {}
  PROVE  \E k \in S : \A l \in S : k <= l
<1> DEFINE less == {pair \in Nat \X Nat : pair[1] < pair[2]}
<1>1. IsWellFoundedOn(less, Nat)
  BY NatLessThanWellFounded, Zenon DEF OpToRel
<1> HIDE DEF less
<1>2. PICK k \in S : \A l \in S : <<l, k>> \notin less
  BY <1>1, WFMin
<1>3. ASSUME NEW l \in S, l < k
      PROVE  <<l, k>> \in less
  BY <1>3 DEF less
<1>4. \A l \in S : k \in Nat /\ l \in Nat /\ ~(l < k)
  BY <1>2, <1>3
<1>5. \A l \in S : k <= l
  BY <1>4
<1> QED
  BY <1>5

LEMMA Largest ==
  ASSUME NEW n \in Nat, NEW S \in SUBSET (1 .. n), S # {}
  PROVE  \E k \in S : \A l \in S : l <= k
<1> DEFINE gaps == {n - k : k \in S}
<1>1. gaps \in SUBSET Nat /\ gaps # {}
  <2>1. \A k \in S : n - k \in Nat
    OBVIOUS
  <2>2. PICK k \in S : TRUE
    OBVIOUS
  <2>3. n - k \in gaps
    OBVIOUS
  <2> QED
    BY <2>1, <2>3
<1>2. PICK g \in gaps : \A h \in gaps : g <= h
  BY <1>1, Smallest
<1>3. PICK k \in S : g = n - k
  BY <1>2
<1>4. \A l \in S : n - k <= n - l
  BY <1>2, <1>3
<1>5. \A l \in S : l <= k
  BY <1>4
<1> QED
  BY <1>5

\* Short sequences, and the length of one.
LEMMA ShortSeqs ==
  ASSUME NEW x, NEW y
  PROVE  /\ <<x>> # <<>> /\ Len(<<x>>) = 1 /\ <<x>>[1] = x
         /\ <<x, y>> # <<>> /\ Len(<<x, y>>) = 2 /\ DOMAIN <<x, y>> = {1, 2}
         /\ <<x, y>>[1] = x /\ <<x, y>>[2] = y
         /\ \A S : x \in S => <<x>> \in Seq(S)
         /\ \A S : x \in S /\ y \in S => <<x, y>> \in Seq(S)
OBVIOUS

LEMMA ShortConcat ==
  ASSUME NEW x, NEW y
  PROVE  <<x>> \o <<y>> = <<x, y>>
<1> DEFINE s == <<x>>
           t == <<y>>
           u == <<x, y>>
<1>1. /\ s \in Seq({x, y}) /\ Len(s) = 1 /\ s[1] = x
      /\ t \in Seq({x, y}) /\ Len(t) = 1 /\ t[1] = y
      /\ u \in Seq({x, y}) /\ Len(u) = 2 /\ u[1] = x /\ u[2] = y
  BY ShortSeqs
<1> HIDE DEF s, t, u
<1>2. /\ s \o t \in Seq({x, y}) /\ Len(s \o t) = Len(s) + Len(t)
      /\ \A i \in 1 .. Len(s) + Len(t) : (s \o t)[i] =
           IF i <= Len(s) THEN s[i] ELSE t[i - Len(s)]
  BY <1>1, ConcatProperties
<1>3. s \o t = u
  <2> DEFINE v == s \o t
  <2>1. v \in Seq({x, y}) /\ Len(v) = 2 /\ v[1] = x /\ v[2] = y
    BY <1>1, <1>2
  <2> HIDE DEF v
  <2>2. \A i \in 1 .. Len(v) : v[i] = u[i]
    BY <1>1, <2>1
  <2>3. v = u
    BY <1>1, <2>1, <2>2, SeqEqual
  <2> QED
    BY <2>3 DEF v
<1> QED
  BY <1>3 DEF s, t, u

LEMMA LenIsDomain ==
  ASSUME NEW n \in Nat, NEW S, NEW f \in [1 .. n -> S]
  PROVE  f \in Seq(S) /\ Len(f) = n
OBVIOUS

LEMMA OneAndTwo ==
  /\ (CHOOSE k \in {1, 2} : \A l \in {1, 2} : k <= l) = 1
  /\ (CHOOSE k \in {1, 2} : \A l \in {1, 2} : l <= k) = 2
OBVIOUS

\* They succeed together; a failure is that of one of them.
LEMMA AllChecked ==
  ASSUME NEW outcomes, DOMAIN outcomes \subseteq Nat
  PROVE  Checked(outcomes) = "ok" <=> \A k \in DOMAIN outcomes : outcomes[k] = "ok"
<1> DEFINE failed == {k \in DOMAIN outcomes : outcomes[k] # "ok"}
           first  == CHOOSE k \in failed : \A l \in failed : k <= l
<1>1. CASE failed = {}
  BY <1>1 DEF Checked
<1>2. CASE failed # {}
  <2>1. \E k \in failed : \A l \in failed : k <= l
    BY <1>2, Smallest
  <2>2. first \in failed
    BY <2>1
  <2> QED
    BY <1>2, <2>2 DEF Checked
<1> QED
  BY <1>1, <1>2

\* And it has the outcome of one of them, if not all are well.
LEMMA OneOfChecked ==
  ASSUME NEW outcomes, DOMAIN outcomes \subseteq Nat
  PROVE  Checked(outcomes) = "ok" \/ \E k \in DOMAIN outcomes : Checked(outcomes) = outcomes[k]
<1> DEFINE failed == {k \in DOMAIN outcomes : outcomes[k] # "ok"}
           first  == CHOOSE k \in failed : \A l \in failed : k <= l
<1>1. CASE failed = {}
  BY <1>1 DEF Checked
<1>2. CASE failed # {}
  <2>1. first \in failed
    BY <1>2, Smallest
  <2> QED
    BY <1>2, <2>1 DEF Checked
<1> QED
  BY <1>1, <1>2

=============================================================================
