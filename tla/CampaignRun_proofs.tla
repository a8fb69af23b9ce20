-------------------------- MODULE CampaignRun_proofs --------------------------
(***************************************************************************)
(* Proofs about CampaignRun, for any environment, plan and incidents: what *)
(* the manifest of a campaign says of its phases, of what they change, of  *)
(* who stands in for whom in incidents, of who sent a frame and of the     *)
(* conversation that it belongs to; and how tgt score reads it, against a  *)
(* monitor's export and a monitor's alerts.                                *)
(*                                                                         *)
(* The model's operators on sequences are recursive functions. What they   *)
(* compute is proved by induction over the numbers up to a length, in the  *)
(* form SetInduction gives it: the operator XOf(g, ...) is the body of the *)
(* function, and XExists says that there is such a function.               *)
(***************************************************************************)
EXTENDS CampaignRun, FiniteSetTheorems, WellFoundedInduction, TLAPS

-----------------------------------------------------------------------------
(* Sequences.                                                              *)

IsSeq(s) == \E S : s \in Seq(S)

\* What Append does, whatever the elements are.
LEMMA Appended ==
  ASSUME NEW s, IsSeq(s), NEW e
  PROVE  /\ IsSeq(Append(s, e)) /\ Len(s) \in Nat /\ DOMAIN s = 1 .. Len(s)
         /\ Len(Append(s, e)) = Len(s) + 1 /\ DOMAIN Append(s, e) = 1 .. Len(s) + 1
         /\ \A k \in 1 .. Len(s) : Append(s, e)[k] = s[k]
         /\ Append(s, e)[Len(s) + 1] = e
<1>1. PICK S : s \in Seq(S)
  BY DEF IsSeq
<1> DEFINE T == S \cup {e}
<1>2. s \in Seq(T) /\ e \in T
  BY <1>1
<1> HIDE DEF T
<1>3. Append(s, e) \in Seq(T)
  BY <1>2
<1> QED
  BY <1>2, <1>3 DEF IsSeq

LEMMA FunctionIsSeq ==
  ASSUME NEW n \in Nat, NEW f, f = [k \in 1 .. n |-> f[k]]
  PROVE  IsSeq(f) /\ Len(f) = n
<1> DEFINE S == {f[k] : k \in 1 .. n}
<1>1. f \in [1 .. n -> S]
  OBVIOUS
<1>2. f \in Seq(S) /\ Len(f) = n
  BY <1>1
<1> QED
  BY <1>2 DEF IsSeq

\* A set of numbers that holds 0 and each successor holds them all: the least
\* number outside it has no predecessor. Induction over data, below, is over sets.
LEMMA SetInduction ==
  ASSUME NEW S, 0 \in S, \A n \in Nat : n \in S => n + 1 \in S
  PROVE  \A n \in Nat : n \in S
<1> SUFFICES ASSUME NEW m \in Nat, m \notin S PROVE FALSE
  OBVIOUS
<1> DEFINE T == {n \in Nat : n \notin S}
           R == {ss \in Nat \X Nat : ss[1] < ss[2]}
<1>1. IsWellFoundedOn(R, Nat)
  BY NatLessThanWellFounded, Zenon DEF OpToRel
<1>2. T \subseteq Nat /\ T # {}
  OBVIOUS
<1>3. PICK x \in T : \A y \in T : ~(<<y, x>> \in R)
  <2> HIDE DEF T, R
  <2> QED
    BY <1>1, <1>2, WFMin
<1>4. x \in Nat /\ x # 0 /\ x - 1 \in Nat
  OBVIOUS
<1>5. <<x - 1, x>> \in R
  BY <1>4
<1>6. x - 1 \notin T
  BY <1>3, <1>5
<1> QED
  BY <1>4, <1>6

\* A set of numbers has a least one.
LEMMA LeastIsThere ==
  ASSUME NEW T \in SUBSET Nat, T # {}
  PROVE  Min(T) \in T /\ \A y \in T : Min(T) <= y
<1> DEFINE R == {ss \in Nat \X Nat : ss[1] < ss[2]}
<1>1. IsWellFoundedOn(R, Nat)
  BY NatLessThanWellFounded, Zenon DEF OpToRel
<1>2. PICK x \in T : \A y \in T : ~(<<y, x>> \in R)
  <2> HIDE DEF R
  <2> QED
    BY <1>1, WFMin
<1>3. ASSUME NEW y \in T PROVE x <= y
  <2>1. y < x => <<y, x>> \in R
    OBVIOUS
  <2> HIDE DEF R
  <2> QED
    BY <1>2, <2>1
<1> QED
  BY <1>3 DEF Min

LEMMA Empty == IsSeq(<<>>) /\ ToSet(<<>>) = {}
<1>1. <<>> \in Seq({})
  OBVIOUS
<1>2. DOMAIN <<>> = {}
  OBVIOUS
<1> QED
  BY <1>1, <1>2 DEF IsSeq, ToSet

LEMMA Ranges ==
  ASSUME NEW s, IsSeq(s)
  PROVE  /\ Len(s) \in Nat /\ DOMAIN s = 1 .. Len(s) /\ ToSet(s) = {s[k] : k \in 1 .. Len(s)}
         /\ s \in Seq(ToSet(s))
<1>1. PICK S : s \in Seq(S)
  BY DEF IsSeq
<1>2. Len(s) \in Nat /\ DOMAIN s = 1 .. Len(s)
  BY <1>1
<1>3. ToSet(s) = {s[k] : k \in 1 .. Len(s)}
  BY <1>2 DEF ToSet
<1>4. s \in [1 .. Len(s) -> ToSet(s)]
  BY <1>1, <1>3
<1> QED
  BY <1>2, <1>3, <1>4

LEMMA RangeOfAppend ==
  ASSUME NEW s, IsSeq(s), NEW e
  PROVE  IsSeq(Append(s, e)) /\ ToSet(Append(s, e)) = ToSet(s) \cup {e}
<1>1. /\ IsSeq(Append(s, e)) /\ Len(s) \in Nat
      /\ DOMAIN s = 1 .. Len(s) /\ DOMAIN Append(s, e) = 1 .. Len(s) + 1
      /\ \A k \in 1 .. Len(s) : Append(s, e)[k] = s[k]
      /\ Append(s, e)[Len(s) + 1] = e
  BY Appended
<1> DEFINE t == Append(s, e)
<1> HIDE DEF t
<1>2. ToSet(t) = {t[k] : k \in 1 .. Len(s) + 1}
  BY <1>1 DEF ToSet, t
<1>3. ToSet(s) = {s[k] : k \in 1 .. Len(s)}
  BY <1>1 DEF ToSet
<1>4. 1 .. Len(s) + 1 = (1 .. Len(s)) \cup {Len(s) + 1}
  BY <1>1
<1>5. ToSet(t) = ToSet(s) \cup {e}
  BY <1>1, <1>2, <1>3, <1>4 DEF t
<1> QED
  BY <1>1, <1>5 DEF t

LEMMA RangeOfBoth ==
  ASSUME NEW s, NEW t, IsSeq(s), IsSeq(t)
  PROVE  IsSeq(s \o t) /\ ToSet(s \o t) = ToSet(s) \cup ToSet(t)
<1>1. PICK S : s \in Seq(S)
  BY DEF IsSeq
<1>2. PICK T : t \in Seq(T)
  BY DEF IsSeq
<1> DEFINE U == S \cup T
           st == s \o t
<1>3. s \in Seq(U) /\ t \in Seq(U)
  BY <1>1, <1>2
<1> HIDE DEF U
<1>4. /\ st \in Seq(U) /\ Len(st) = Len(s) + Len(t) /\ Len(s) \in Nat /\ Len(t) \in Nat
      /\ \A k \in 1 .. Len(st) : st[k] = IF k <= Len(s) THEN s[k] ELSE t[k - Len(s)]
  BY <1>3
<1> HIDE DEF st
<1>5. DOMAIN st = 1 .. Len(s) + Len(t) /\ DOMAIN s = 1 .. Len(s) /\ DOMAIN t = 1 .. Len(t)
  BY <1>3, <1>4
<1>6. ToSet(st) \subseteq ToSet(s) \cup ToSet(t)
  <2> SUFFICES ASSUME NEW k \in 1 .. Len(s) + Len(t) PROVE st[k] \in ToSet(s) \cup ToSet(t)
    BY <1>5 DEF ToSet
  <2>1. CASE k <= Len(s)
    BY <2>1, <1>4, <1>5 DEF ToSet
  <2>2. CASE ~(k <= Len(s))
    <3>1. k - Len(s) \in 1 .. Len(t)
      BY <2>2, <1>4
    <3> QED
      BY <2>2, <3>1, <1>4, <1>5 DEF ToSet
  <2> QED
    BY <2>1, <2>2
<1>7. ToSet(s) \subseteq ToSet(st)
  <2> SUFFICES ASSUME NEW k \in 1 .. Len(s) PROVE s[k] \in ToSet(st)
    BY <1>5 DEF ToSet
  <2>1. k \in 1 .. Len(s) + Len(t) /\ st[k] = s[k]
    BY <1>4
  <2> QED
    BY <2>1, <1>5 DEF ToSet
<1>8. ToSet(t) \subseteq ToSet(st)
  <2> SUFFICES ASSUME NEW k \in 1 .. Len(t) PROVE t[k] \in ToSet(st)
    BY <1>5 DEF ToSet
  <2>1. PICK j \in 1 .. Len(s) + Len(t) : j = Len(s) + k
    BY <1>4
  <2>2. st[j] = t[k]
    BY <2>1, <1>4
  <2> QED
    BY <2>2, <1>5 DEF ToSet
<1> QED
  BY <1>4, <1>6, <1>7, <1>8 DEF st, IsSeq

-----------------------------------------------------------------------------
(* Without and Together.                                                   *)

WithoutOf(g, seq, dropped, n) ==
  [k \in 0 .. n |-> IF k = 0 THEN <<>>
                    ELSE IF seq[k] \in dropped THEN g[k - 1] ELSE Append(g[k - 1], seq[k])]

\* The recursion over the sequence defines something.
LEMMA WithoutExists ==
  ASSUME NEW seq, NEW dropped, NEW n \in Nat
  PROVE  \E g : g = WithoutOf(g, seq, dropped, n)
<1> DEFINE S == {m \in Nat : \E g : g = WithoutOf(g, seq, dropped, m)}
<1>1. 0 \in S
  <2> DEFINE g == [k \in 0 .. 0 |-> <<>>]
  <2>1. g = WithoutOf(g, seq, dropped, 0)
    BY DEF WithoutOf
  <2> QED
    BY <2>1
<1>2. ASSUME NEW m \in Nat, m \in S PROVE m + 1 \in S
  <2>1. PICK g : g = WithoutOf(g, seq, dropped, m)
    BY <1>2
  <2> DEFINE step(x, k) == IF seq[k] \in dropped THEN x ELSE Append(x, seq[k])
             h == [k \in 0 .. m + 1 |-> IF k = m + 1 THEN step(g[m], m + 1) ELSE g[k]]
  <2>2. ASSUME NEW k \in 0 .. m + 1
        PROVE  h[k] = IF k = 0 THEN <<>> ELSE step(h[k - 1], k)
    <3> HIDE DEF step
    <3>1. CASE k = m + 1
      BY <3>1
    <3>2. CASE k # m + 1
      <4>1. k \in 0 .. m /\ (k # 0 => k - 1 \in 0 .. m)
        BY <3>2
      <4>2. g[k] = IF k = 0 THEN <<>> ELSE step(g[k - 1], k)
        BY <2>1, <4>1 DEF WithoutOf, step
      <4>3. h[k] = g[k] /\ (k # 0 => h[k - 1] = g[k - 1])
        BY <4>1
      <4> QED
        BY <4>2, <4>3
    <3> QED
      BY <3>1, <3>2
  <2>3. h = WithoutOf(h, seq, dropped, m + 1)
    BY <2>2 DEF WithoutOf
  <2> HIDE DEF h
  <2> QED
    BY <2>3
<1> HIDE DEF S
<1>3. n \in S
  BY <1>1, <1>2, SetInduction
<1> QED
  BY <1>3 DEF S

LEMMA WithoutHas ==
  ASSUME NEW seq, IsSeq(seq), NEW dropped
  PROVE  IsSeq(Without(seq, dropped)) /\ ToSet(Without(seq, dropped)) = ToSet(seq) \ dropped
<1>0. Len(seq) \in Nat /\ ToSet(seq) = {seq[k] : k \in 1 .. Len(seq)}
  BY Ranges
<1> DEFINE A == CHOOSE g : g = WithoutOf(g, seq, dropped, Len(seq))
<1>1. A = WithoutOf(A, seq, dropped, Len(seq))
  <2>1. \E g : g = WithoutOf(g, seq, dropped, Len(seq))
    BY <1>0, WithoutExists
  <2> QED
    BY <2>1, Zenon
<1>2. Without(seq, dropped) = A[Len(seq)]
  BY DEF Without, WithoutOf
<1> HIDE DEF A
<1>a. A[0] = <<>>
  BY <1>0, <1>1 DEF WithoutOf
<1>3. ASSUME NEW k \in 1 .. Len(seq)
      PROVE  A[k] = IF seq[k] \in dropped THEN A[k - 1] ELSE Append(A[k - 1], seq[k])
  <2>1. k \in 0 .. Len(seq) /\ k # 0
    BY <1>0
  <2>2. WithoutOf(A, seq, dropped, Len(seq))[k]
          = IF seq[k] \in dropped THEN A[k - 1] ELSE Append(A[k - 1], seq[k])
    BY <2>1 DEF WithoutOf
  <2> QED
    BY <1>1, <2>2
<1> DEFINE to(k) == {seq[j] : j \in 1 .. k}
           Good(k) == IsSeq(A[k]) /\ ToSet(A[k]) = to(k) \ dropped
           S == {m \in Nat : m <= Len(seq) => Good(m)}
<1>4. 0 \in S
  <2>1. IsSeq(<<>>) /\ ToSet(<<>>) = {}
    BY Empty
  <2> QED
    BY <2>1, <1>a
<1>5. ASSUME NEW m \in Nat, m \in S PROVE m + 1 \in S
  <2> SUFFICES ASSUME m + 1 <= Len(seq) PROVE Good(m + 1)
    OBVIOUS
  <2>1. Good(m)
    BY <1>0, <1>5
  <2>2. to(m + 1) = to(m) \cup {seq[m + 1]}
    OBVIOUS
  <2>3. PICK k \in 1 .. Len(seq) : k = m + 1
    BY <1>0
  <2>4. A[k] = IF seq[k] \in dropped THEN A[m] ELSE Append(A[m], seq[k])
    BY <1>3, <2>3
  <2>5. IsSeq(Append(A[m], seq[k])) /\ ToSet(Append(A[m], seq[k])) = ToSet(A[m]) \cup {seq[k]}
    BY <2>1, RangeOfAppend
  <2> HIDE DEF to
  <2>6. IsSeq(A[k]) /\ ToSet(A[k]) = to(k) \ dropped
    BY <2>1, <2>2, <2>3, <2>4, <2>5
  <2> QED
    BY <2>6, <2>3
<1> HIDE DEF S
<1>6. Len(seq) \in S
  BY <1>0, <1>4, <1>5, SetInduction
<1> QED
  BY <1>0, <1>2, <1>6 DEF S

LEMMA NewInHas ==
  ASSUME NEW seq, NEW more, IsSeq(seq), IsSeq(more)
  PROVE  IsSeq(NewIn(seq, more)) /\ ToSet(NewIn(seq, more)) = ToSet(seq) \cup ToSet(more)
<1> DEFINE fresh == Without(more, ToSet(seq))
<1>1. IsSeq(fresh) /\ ToSet(fresh) = ToSet(more) \ ToSet(seq)
  BY WithoutHas
<1> HIDE DEF fresh
<1>2. IsSeq(seq \o fresh) /\ ToSet(seq \o fresh) = ToSet(seq) \cup ToSet(fresh)
  BY <1>1, RangeOfBoth
<1>3. NewIn(seq, more) = seq \o fresh
  BY DEF NewIn, fresh
<1> QED
  BY <1>1, <1>2, <1>3

TogetherOf(g, seqs, n) ==
  [k \in 0 .. n |-> IF k = 0 THEN <<>> ELSE NewIn(g[k - 1], seqs[k])]

LEMMA TogetherExists ==
  ASSUME NEW seqs, NEW n \in Nat
  PROVE  \E g : g = TogetherOf(g, seqs, n)
<1> DEFINE S == {m \in Nat : \E g : g = TogetherOf(g, seqs, m)}
<1>1. 0 \in S
  <2> DEFINE g == [k \in 0 .. 0 |-> <<>>]
  <2>1. g = TogetherOf(g, seqs, 0)
    BY DEF TogetherOf
  <2> QED
    BY <2>1
<1>2. ASSUME NEW m \in Nat, m \in S PROVE m + 1 \in S
  <2>1. PICK g : g = TogetherOf(g, seqs, m)
    BY <1>2
  <2> DEFINE h == [k \in 0 .. m + 1 |-> IF k = m + 1 THEN NewIn(g[m], seqs[m + 1]) ELSE g[k]]
  <2>2. ASSUME NEW k \in 0 .. m + 1
        PROVE  h[k] = IF k = 0 THEN <<>> ELSE NewIn(h[k - 1], seqs[k])
    <3>1. CASE k = m + 1
      BY <3>1
    <3>2. CASE k # m + 1
      <4>1. k \in 0 .. m /\ (k # 0 => k - 1 \in 0 .. m)
        BY <3>2
      <4>2. g[k] = IF k = 0 THEN <<>> ELSE NewIn(g[k - 1], seqs[k])
        BY <2>1, <4>1 DEF TogetherOf
      <4>3. h[k] = g[k] /\ (k # 0 => h[k - 1] = g[k - 1])
        BY <4>1
      <4> QED
        BY <4>2, <4>3
    <3> QED
      BY <3>1, <3>2
  <2>3. h = TogetherOf(h, seqs, m + 1)
    BY <2>2 DEF TogetherOf
  <2> HIDE DEF h
  <2> QED
    BY <2>3
<1> HIDE DEF S
<1>3. n \in S
  BY <1>1, <1>2, SetInduction
<1> QED
  BY <1>3 DEF S

LEMMA TogetherHas ==
  ASSUME NEW seqs, Len(seqs) \in Nat, \A k \in 1 .. Len(seqs) : IsSeq(seqs[k])
  PROVE  /\ IsSeq(Together(seqs))
         /\ ToSet(Together(seqs)) = UNION {ToSet(seqs[k]) : k \in 1 .. Len(seqs)}
<1> DEFINE A == CHOOSE g : g = TogetherOf(g, seqs, Len(seqs))
<1>1. A = TogetherOf(A, seqs, Len(seqs))
  <2>1. \E g : g = TogetherOf(g, seqs, Len(seqs))
    BY TogetherExists
  <2> QED
    BY <2>1, Zenon
<1>2. Together(seqs) = A[Len(seqs)]
  BY DEF Together, TogetherOf
<1> HIDE DEF A
<1>a. A[0] = <<>>
  BY <1>1 DEF TogetherOf
<1>3. ASSUME NEW k \in 1 .. Len(seqs) PROVE A[k] = NewIn(A[k - 1], seqs[k])
  <2>1. k \in 0 .. Len(seqs) /\ k # 0
    OBVIOUS
  <2>2. TogetherOf(A, seqs, Len(seqs))[k] = NewIn(A[k - 1], seqs[k])
    BY <2>1 DEF TogetherOf
  <2> QED
    BY <1>1, <2>2
<1> DEFINE to(k) == UNION {ToSet(seqs[j]) : j \in 1 .. k}
           Good(k) == IsSeq(A[k]) /\ ToSet(A[k]) = to(k)
           S == {m \in Nat : m <= Len(seqs) => Good(m)}
<1>4. 0 \in S
  <2>1. IsSeq(<<>>) /\ ToSet(<<>>) = {}
    BY Empty
  <2> QED
    BY <2>1, <1>a
<1>5. ASSUME NEW m \in Nat, m \in S PROVE m + 1 \in S
  <2> SUFFICES ASSUME m + 1 <= Len(seqs) PROVE Good(m + 1)
    OBVIOUS
  <2>1. Good(m)
    BY <1>5
  <2>2. to(m + 1) = to(m) \cup ToSet(seqs[m + 1])
    <3>1. 1 .. m + 1 = (1 .. m) \cup {m + 1}
      OBVIOUS
    <3> QED
      BY <3>1
  <2>3. PICK k \in 1 .. Len(seqs) : k = m + 1
    OBVIOUS
  <2>4. A[k] = NewIn(A[m], seqs[k])
    BY <1>3, <2>3
  <2>5. IsSeq(NewIn(A[m], seqs[k])) /\ ToSet(NewIn(A[m], seqs[k])) = ToSet(A[m]) \cup ToSet(seqs[k])
    BY <2>1, NewInHas
  <2> HIDE DEF to
  <2>6. IsSeq(A[k]) /\ ToSet(A[k]) = to(k)
    BY <2>1, <2>2, <2>3, <2>4, <2>5
  <2> QED
    BY <2>6, <2>3
<1> HIDE DEF S
<1>6. Len(seqs) \in S
  BY <1>4, <1>5, SetInduction
<1> QED
  BY <1>2, <1>6 DEF S

-----------------------------------------------------------------------------
(* The changes of a phase.                                                 *)

AppliedOf(g, d, n) ==
  [k \in 0 .. n |-> IF k = 0 THEN d ELSE Taken(g[k - 1], spec[k])]

LEMMA AppliedExists ==
  ASSUME NEW d, NEW n \in Nat
  PROVE  \E g : g = AppliedOf(g, d, n)
<1> DEFINE S == {m \in Nat : \E g : g = AppliedOf(g, d, m)}
<1>1. 0 \in S
  <2> DEFINE g == [k \in 0 .. 0 |-> d]
  <2>1. g = AppliedOf(g, d, 0)
    BY DEF AppliedOf
  <2> QED
    BY <2>1
<1>2. ASSUME NEW m \in Nat, m \in S PROVE m + 1 \in S
  <2>1. PICK g : g = AppliedOf(g, d, m)
    BY <1>2
  <2> DEFINE h == [k \in 0 .. m + 1 |-> IF k = m + 1 THEN Taken(g[m], spec[m + 1]) ELSE g[k]]
  <2>2. ASSUME NEW k \in 0 .. m + 1
        PROVE  h[k] = IF k = 0 THEN d ELSE Taken(h[k - 1], spec[k])
    <3>1. CASE k = m + 1
      BY <3>1
    <3>2. CASE k # m + 1
      <4>1. k \in 0 .. m /\ (k # 0 => k - 1 \in 0 .. m)
        BY <3>2
      <4>2. g[k] = IF k = 0 THEN d ELSE Taken(g[k - 1], spec[k])
        BY <2>1, <4>1 DEF AppliedOf
      <4>3. h[k] = g[k] /\ (k # 0 => h[k - 1] = g[k - 1])
        BY <4>1
      <4> QED
        BY <4>2, <4>3
    <3> QED
      BY <3>1, <3>2
  <2>3. h = AppliedOf(h, d, m + 1)
    BY <2>2 DEF AppliedOf
  <2> HIDE DEF h
  <2> QED
    BY <2>3
<1> HIDE DEF S
<1>3. n \in S
  BY <1>1, <1>2, SetInduction
<1> QED
  BY <1>3 DEF S

\* It is the loop over the lists of changes of _apply.
LEMMA AppliedStep ==
  ASSUME NEW d, Len(spec) \in Nat
  PROVE  /\ Applied(d)[0] = d
         /\ \A k \in 1 .. Len(spec) : Applied(d)[k] = Taken(Applied(d)[k - 1], spec[k])
<1> DEFINE A == Applied(d)
<1>1. A = AppliedOf(A, d, Len(spec))
  <2>1. \E g : g = AppliedOf(g, d, Len(spec))
    BY AppliedExists
  <2>2. A = CHOOSE g : g = AppliedOf(g, d, Len(spec))
    BY DEF Applied, AppliedOf
  <2> HIDE DEF A
  <2> QED
    BY <2>1, <2>2, Zenon
<1> HIDE DEF A
<1>2. A[0] = d
  BY <1>1 DEF AppliedOf
<1>3. ASSUME NEW k \in 1 .. Len(spec) PROVE A[k] = Taken(A[k - 1], spec[k])
  <2>1. k \in 0 .. Len(spec) /\ k # 0
    OBVIOUS
  <2>2. AppliedOf(A, d, Len(spec))[k] = Taken(A[k - 1], spec[k])
    BY <2>1 DEF AppliedOf
  <2> QED
    BY <1>1, <2>2
<1> QED
  BY <1>2, <1>3 DEF A

-----------------------------------------------------------------------------
(* Phases and their packets.                                               *)

RowFields == {"id", "start", "end", "packets", "p0", "diff", "offline"}

\* The frames of the log that were sent in phase k.
SentIn(k) == {j \in 1 .. Len(log) : log[j].phase = k}

\* A frame lies within its phase.
FrameInPhase(e) ==
  /\ e.phase \in 1 .. i /\ e.ts \in Nat /\ e.ts <= now
  /\ phase_log[e.phase].start <= e.ts
  /\ phase_log[e.phase].end # None => e.ts <= phase_log[e.phase].end

\* The row of phase k: before the next one's, and its frames counted.
RowRight(k) ==
  LET p == phase_log[k]
  IN /\ DOMAIN p = RowFields
     /\ p.id = k /\ p.start \in Nat /\ p.start <= now /\ p.p0 \in Nat
     /\ p.end \in Nat \cup {None}
     /\ k < i => p.end # None /\ p.end <= phase_log[k + 1].start
     /\ k = i => /\ pc = "between" => p.end # None
                 /\ pc = "phase" => p.end = None
                 /\ p.end # None => p.end <= now
     /\ (IF p.end = None THEN packets - p.p0 ELSE p.packets) = Cardinality(SentIn(k))

\* An event of a phase has its times.
EventRight(e) ==
  /\ e.phase \in 1 .. i
  /\ e = [what |-> e.what, phase |-> e.phase, t_start |-> phase_log[e.phase].start,
          t_end |-> phase_log[e.phase].end]

\* The clock, and what it is before the first phase. A synthetic one is at the
\* end of a phase when that has ended.
ClockRight ==
  /\ pc \in {"planning", "between", "phase", "done"} /\ synthetic \in BOOLEAN
  /\ i \in Nat /\ now \in Nat
  /\ stage = "plan" => pc = "planning"
  /\ pc = "planning" => i = 0 /\ log = <<>>
  /\ pc = "phase" => i # 0
  /\ synthetic /\ pc \in {"planning", "between"} => now = i * Length
  /\ synthetic /\ pc = "phase" => now <= i * Length

LogRight ==
  /\ IsSeq(log) /\ packets = Len(log)
  /\ last_ts = IF log = <<>> THEN None ELSE log[Len(log)].ts
  /\ \A j \in 1 .. Len(log) : log[j].ts <= log[Len(log)].ts
  /\ \A j \in 1 .. Len(log) : FrameInPhase(log[j])

PhasesInv ==
  /\ ClockRight /\ LogRight
  /\ IsSeq(phase_log) /\ Len(phase_log) = i
  /\ \A k \in 1 .. i : RowRight(k)
  /\ \A e \in change_events : EventRight(e)

LEMMA SentInFinite ==
  ASSUME IsSeq(log), NEW k
  PROVE  IsFiniteSet(SentIn(k)) /\ Cardinality(SentIn(k)) \in Nat
<1>1. Len(log) \in Nat
  BY DEF IsSeq
<1>2. IsFiniteSet(1 .. Len(log))
  BY <1>1, FS_Interval
<1> QED
  BY <1>2, FS_Subset, FS_CardinalityType DEF SentIn

LEMMA PhasesRight == PhasesInv => PhasesAddUp
<1> SUFFICES ASSUME PhasesInv PROVE PhasesAddUp
  OBVIOUS
<1> USE DEF PhasesInv
<1>1. DOMAIN log = 1 .. Len(log) /\ DOMAIN phase_log = 1 .. i /\ i \in Nat /\ Len(log) \in Nat
  BY DEF ClockRight, LogRight, IsSeq
<1>2. \A k \in 1 .. i : phase_log[k].id = k
  BY DEF RowRight
<1>3. \A k \in 1 .. i : FramesOf(k) = SentIn(k)
  BY <1>1, <1>2 DEF FramesOf, SentIn
<1>4. packets = Len(log)
  BY DEF LogRight
<1>5. ASSUME NEW j \in DOMAIN log
      PROVE  \E k \in DOMAIN phase_log : \A m \in DOMAIN phase_log : j \in FramesOf(m) <=> m = k
  <2>1. log[j].phase \in 1 .. i
    BY <1>1 DEF LogRight, FrameInPhase
  <2>2. PICK k \in 1 .. i : k = log[j].phase
    BY <2>1
  <2>3. \A m \in 1 .. i : j \in SentIn(m) <=> m = k
    BY <1>1, <2>2 DEF SentIn
  <2>4. \A m \in DOMAIN phase_log : j \in FramesOf(m) <=> m = k
    BY <1>1, <1>3, <2>3
  <2>5. k \in DOMAIN phase_log
    BY <1>1
  <2> HIDE DEF PhasesInv
  <2> WITNESS k \in DOMAIN phase_log
  <2> QED
    BY <2>4
<1>6. ASSUME NEW k \in DOMAIN phase_log
      PROVE  LET p == phase_log[k]
             IN /\ PhaseRows[k].packets = Cardinality(FramesOf(k))
                /\ k < Len(phase_log) => p.end # None /\ p.end <= phase_log[k + 1].start
                /\ \A j \in FramesOf(k) : p.start <= log[j].ts /\ (p.end # None => log[j].ts <= p.end)
                /\ \A e \in change_events : e.phase = p.id => e.t_start = p.start /\ e.t_end = p.end
  <2> DEFINE p == phase_log[k]
  <2>1. RowRight(k) /\ FramesOf(k) = SentIn(k) /\ p.id = k
    BY <1>1, <1>2, <1>3
  <2>2. PhaseRows[k].packets = IF p.end = None THEN packets - p.p0 ELSE p.packets
    <3>1. PhaseRows[k] = PhaseRow(p)
      BY DEF PhaseRows
    <3>2. DOMAIN p = RowFields
      BY <2>1 DEF RowRight
    <3> QED
      BY <3>1, <3>2 DEF PhaseRow, RowFields
  <2>3. PhaseRows[k].packets = Cardinality(FramesOf(k))
    BY <2>1, <2>2 DEF RowRight
  <2>4. k < Len(phase_log) => p.end # None /\ p.end <= phase_log[k + 1].start
    BY <2>1 DEF RowRight
  <2>5. \A j \in FramesOf(k) : p.start <= log[j].ts /\ (p.end # None => log[j].ts <= p.end)
    BY <2>1 DEF SentIn, LogRight, FrameInPhase
  <2>6. \A e \in change_events : e.phase = p.id => e.t_start = p.start /\ e.t_end = p.end
    BY <2>1 DEF EventRight
  <2> QED
    BY <2>3, <2>4, <2>5, <2>6
<1> QED
  BY <1>4, <1>5, <1>6 DEF PhasesAddUp

LEMMA PhasesStart == Init => PhasesInv
<1> SUFFICES ASSUME Init PROVE PhasesInv
  OBVIOUS
<1>1. /\ stage = "plan" /\ pc = "planning" /\ i = 0 /\ now = 0 /\ log = <<>> /\ synthetic \in BOOLEAN
      /\ packets = 0 /\ last_ts = None /\ phase_log = <<>> /\ change_events = {}
  BY DEF Init, PlanInit, RecorderInit
<1>2. ClockRight
  BY <1>1, TimesAssumption DEF ClockRight
<1>3. IsSeq(<<>>)
  <2>1. <<>> \in Seq({})
    OBVIOUS
  <2> QED
    BY <2>1 DEF IsSeq
<1>4. LogRight
  BY <1>1, <1>3 DEF LogRight
<1> QED
  BY <1>1, <1>2, <1>3, <1>4 DEF PhasesInv

\* Before the run, planning may go on and end.
LEMMA PlanPhases == PhasesInv /\ (Plan \/ Start) => PhasesInv'
<1> SUFFICES ASSUME PhasesInv, Plan \/ Start PROVE PhasesInv'
  OBVIOUS
<1>1. stage = "plan" /\ pc = "planning" /\ i = 0 /\ log = <<>>
  BY DEF Plan, Start, Planning, BuildPhase, Ask, Launch, PhasesInv, ClockRight
<1>2. UNCHANGED <<synthetic, i, now, log, packets, last_ts, phase_log, change_events>>
  BY DEF Plan, Start, campaign, manifest, tallies, run
<1>3. \/ pc' = pc
      \/ pc' = "between" /\ stage' = "launched"
  BY DEF Plan, Start, Launch, run
<1>4. ClockRight'
  BY <1>1, <1>2, <1>3 DEF PhasesInv, ClockRight
<1>5. LogRight'
  BY <1>1, <1>2 DEF PhasesInv, LogRight
<1>6. IsSeq(phase_log)' /\ Len(phase_log)' = i'
  BY <1>2 DEF PhasesInv, IsSeq
<1>7. \A k \in 1 .. i' : RowRight(k)'
  BY <1>1, <1>2
<1>8. \A e \in change_events' : EventRight(e)'
  BY <1>2 DEF PhasesInv, EventRight
<1> QED
  BY <1>4, <1>5, <1>6, <1>7, <1>8 DEF PhasesInv

LEMMA BeginPhases == PhasesInv /\ BeginPhase => PhasesInv'
<1> SUFFICES ASSUME PhasesInv, BeginPhase PROVE PhasesInv'
  OBVIOUS
<1> DEFINE ph == phases[i + 1]
           row == [id |-> i + 1, start |-> now', end |-> None, packets |-> 0, p0 |-> packets,
                   diff |-> ph.diff, offline |-> ph.offline]
           new == {[what |-> e, phase |-> i + 1, t_start |-> now', t_end |-> None] : e \in ph.events}
<1>1. /\ pc = "between" /\ pc' = "phase" /\ i' = i + 1 /\ i \in Nat /\ now \in Nat
      /\ now' = IF now < i * Length THEN i * Length ELSE now
      /\ UNCHANGED <<synthetic, log, packets, last_ts>>
      /\ stage' = stage /\ stage # "plan"
  BY DEF BeginPhase, PhasesInv, ClockRight, plan, begin_phase, tallies
<1>2. i * Length \in Nat /\ (synthetic => now = i * Length)
  BY <1>1, TimesAssumption DEF PhasesInv, ClockRight
<1>3. now' \in Nat /\ now <= now' /\ (IF synthetic THEN i * Length ELSE now') = now'
  BY <1>1, <1>2
<1>4. phase_log' = Append(phase_log, row) /\ change_events' = change_events \cup new
  <2>1. begin_phase(i + 1, ph, IF synthetic THEN i * Length ELSE now')
    BY DEF BeginPhase
  <2>2. begin_phase(i + 1, ph, now')
    BY <2>1, <1>3
  <2> QED
    BY <2>2 DEF begin_phase
<1> HIDE DEF row
<1>5. /\ IsSeq(phase_log') /\ Len(phase_log') = i + 1
      /\ \A k \in 1 .. i : phase_log'[k] = phase_log[k]
      /\ phase_log'[i + 1] = row
  BY <1>4, Appended DEF PhasesInv
<1>6. ClockRight'
  <2>1. i + 1 \in Nat /\ i + 1 # 0 /\ i' * Length = i * Length + Length
    BY <1>1, TimesAssumption
  <2> QED
    BY <2>1, <1>1, <1>2, <1>3, TimesAssumption DEF PhasesInv, ClockRight
<1>7. LogRight'
  <2>1. \A j \in 1 .. Len(log) : FrameInPhase(log[j])'
    BY <1>1, <1>3, <1>5 DEF PhasesInv, LogRight, FrameInPhase
  <2> QED
    BY <1>1, <2>1 DEF PhasesInv, LogRight, IsSeq
<1>8. ASSUME NEW k \in 1 .. i' PROVE RowRight(k)'
  <2>1. CASE k \in 1 .. i
    <3>1. RowRight(k) /\ phase_log'[k] = phase_log[k] /\ SentIn(k)' = SentIn(k)
      BY <2>1, <1>1, <1>5 DEF PhasesInv, SentIn
    <3>2. k < i => phase_log'[k + 1] = phase_log[k + 1]
      BY <1>1, <1>5, <2>1
    <3>3. k = i => phase_log'[k + 1].start = now'
      BY <1>5 DEF row
    <3>4. k = i \/ k < i
      BY <1>1, <2>1
    <3> QED
      BY <3>1, <3>2, <3>3, <3>4, <1>1, <1>3, TimesAssumption DEF RowRight
  <2>2. CASE k = i + 1
    <3>1. phase_log'[k] = row
      BY <2>2, <1>5
    <3>2. SentIn(k)' = {}
      BY <1>1, <2>2 DEF SentIn, PhasesInv, LogRight, FrameInPhase
    <3>3. Cardinality(SentIn(k)') = 0 /\ packets \in Nat
      BY <3>2, FS_EmptySet DEF PhasesInv, LogRight, IsSeq
    <3> QED
      BY <3>1, <3>3, <2>2, <1>1, <1>3 DEF RowRight, row, RowFields
  <2> QED
    BY <2>1, <2>2, <1>1
<1>9. ASSUME NEW e \in change_events' PROVE EventRight(e)'
  <2>1. CASE e \in change_events
    BY <2>1, <1>1, <1>5 DEF PhasesInv, EventRight
  <2>2. CASE e \in new
    BY <2>2, <1>1, <1>5 DEF EventRight, row
  <2> QED
    BY <2>1, <2>2, <1>4
<1> QED
  BY <1>1, <1>5, <1>6, <1>7, <1>8, <1>9 DEF PhasesInv

LEMMA SendPhases == PhasesInv /\ SendFrame => PhasesInv'
<1> SUFFICES ASSUME PhasesInv, SendFrame PROVE PhasesInv'
  OBVIOUS
<1>1. PICK gap \in Gaps, built \in 1 .. i : \E f \in env_streams(phases[built]) :
        /\ synthetic => now + gap < i * Length
        /\ observe(now + gap, f)
        /\ now' = now + gap
        /\ log' = Append(log, [frame |-> f, ts |-> now + gap, phase |-> i, built |-> built,
                               asset |-> Source(f), flow |-> FlowOf(f)])
  BY DEF SendFrame
<1>2. PICK f :
        /\ synthetic => now + gap < i * Length
        /\ observe(now + gap, f)
        /\ now' = now + gap
        /\ log' = Append(log, [frame |-> f, ts |-> now + gap, phase |-> i, built |-> built,
                               asset |-> Source(f), flow |-> FlowOf(f)])
  BY <1>1
<1> DEFINE sent == [frame |-> f, ts |-> now + gap, phase |-> i, built |-> built,
                    asset |-> Source(f), flow |-> FlowOf(f)]
<1>3. sent.ts = now' /\ sent.phase = i /\ log' = Append(log, sent)
  BY <1>2
<1> HIDE DEF sent
<1>4. /\ pc = "phase" /\ UNCHANGED <<pc, i, synthetic, stage, phase_log, change_events>>
      /\ i \in Nat /\ i # 0 /\ now \in Nat
  BY <1>2 DEF SendFrame, PhasesInv, ClockRight, plan, observe
<1>5. now' \in Nat /\ now <= now' /\ (synthetic => now' <= i * Length)
  BY <1>2, <1>4, TimesAssumption
<1>6. packets' = packets + 1 /\ last_ts' = now'
  BY <1>2 DEF observe
<1>7. /\ IsSeq(log') /\ Len(log) \in Nat /\ Len(log') = Len(log) + 1
      /\ \A j \in 1 .. Len(log) : log'[j] = log[j]
      /\ log'[Len(log) + 1] = sent
  BY <1>3, Appended DEF PhasesInv, LogRight
<1>8. ClockRight'
  BY <1>4, <1>5 DEF PhasesInv, ClockRight
<1>9. LogRight'
  <2>1. packets' = Len(log') /\ log' # <<>>
    BY <1>6, <1>7 DEF PhasesInv, LogRight
  <2>2. last_ts' = log'[Len(log')].ts
    BY <1>3, <1>6, <1>7
  <2>3. ASSUME NEW j \in 1 .. Len(log') PROVE FrameInPhase(log[j])' /\ log'[j].ts <= now'
    <3>1. CASE j \in 1 .. Len(log)
      <4>1. FrameInPhase(log[j]) /\ log'[j] = log[j]
        BY <3>1, <1>7 DEF PhasesInv, LogRight
      <4> QED
        BY <4>1, <1>4, <1>5 DEF FrameInPhase
    <3>2. CASE j = Len(log) + 1
      <4>1. i \in 1 .. i /\ RowRight(i)
        BY <1>4 DEF PhasesInv
      <4>2. phase_log[i].start <= now /\ phase_log[i].start \in Nat /\ phase_log[i].end = None
        BY <4>1, <1>4 DEF RowRight
      <4> QED
        BY <3>2, <4>1, <4>2, <1>3, <1>4, <1>5, <1>7 DEF FrameInPhase
    <3> QED
      BY <3>1, <3>2, <1>7
  <2>4. log'[Len(log')].ts = now'
    BY <1>3, <1>7
  <2> QED
    BY <2>1, <2>2, <2>3, <2>4, <1>7 DEF LogRight
<1>10. ASSUME NEW k \in 1 .. i' PROVE RowRight(k)'
  <2>1. RowRight(k) /\ k \in 1 .. i
    BY <1>4 DEF PhasesInv
  <2>2. packets \in Nat
    BY <1>7 DEF PhasesInv, LogRight
  <2>3. CASE k = i
    <3>1. SentIn(k)' = SentIn(k) \cup {Len(log) + 1}
      BY <2>3, <1>3, <1>7 DEF SentIn
    <3>2. Len(log) + 1 \notin SentIn(k)
      BY <1>7 DEF SentIn
    <3>3. Cardinality(SentIn(k)') = Cardinality(SentIn(k)) + 1
      BY <3>1, <3>2, SentInFinite, FS_AddElement DEF PhasesInv, LogRight
    <3> QED
      BY <2>1, <2>2, <2>3, <3>3, <1>4, <1>5, <1>6 DEF RowRight
  <2>4. CASE k # i
    <3>1. SentIn(k)' = SentIn(k)
      BY <2>4, <1>3, <1>7 DEF SentIn
    <3>2. k < i
      BY <2>1, <2>4, <1>4
    <3> QED
      BY <2>1, <2>4, <3>1, <3>2, <1>4, <1>5 DEF RowRight
  <2> QED
    BY <2>3, <2>4
<1>11. \A e \in change_events' : EventRight(e)'
  BY <1>4 DEF PhasesInv, EventRight
<1> QED
  BY <1>4, <1>8, <1>9, <1>10, <1>11 DEF PhasesInv, IsSeq

\* What end_phase does to a run whose phase is open, if the time that it ends at
\* is not before any of its frames.
LEMMA EndsPhase ==
  ASSUME PhasesInv, pc = "phase", NEW ts, end_phase(ts),
         NEW end, end = IF ts = None THEN last_ts ELSE ts,
         pc' \in {"between", "done"}, UNCHANGED <<synthetic, i, log, stage>>,
         now' \in Nat, now <= now',
         end \in Nat \cup {None}, end # None => end <= now',
         \A j \in SentIn(i) : end # None /\ log[j].ts <= end,
         pc' = "between" => end # None,
         synthetic /\ pc' = "between" => now' = i * Length
  PROVE  PhasesInv'
<1> DEFINE row == [phase_log[i] EXCEPT !.end = end, !.packets = packets - phase_log[i].p0]
<1>1. i \in Nat /\ i # 0 /\ i \in 1 .. i /\ stage # "plan" /\ now \in Nat /\ Len(phase_log) = i
  BY DEF PhasesInv, ClockRight
<1>2. /\ RowRight(i) /\ phase_log[i].end = None /\ DOMAIN phase_log[i] = RowFields
      /\ phase_log[i].id = i
  BY <1>1 DEF PhasesInv, RowRight
<1>3. UNCHANGED <<packets, last_ts>>
  BY DEF end_phase, tallies
<1>4. phase_log' = [phase_log EXCEPT ![i] = row]
  BY <1>1 DEF end_phase
<1>5. /\ DOMAIN row = RowFields /\ row.id = i /\ row.start = phase_log[i].start /\ row.end = end
      /\ row.packets = packets - row.p0 /\ row.p0 = phase_log[i].p0
  BY <1>2 DEF RowFields
<1> HIDE DEF row
<1>6. /\ IsSeq(phase_log') /\ Len(phase_log') = i /\ phase_log'[i] = row
      /\ \A k \in 1 .. i : k # i => phase_log'[k] = phase_log[k]
  <2>1. PICK S : phase_log \in Seq(S)
    BY DEF PhasesInv, IsSeq
  <2> DEFINE T == S \cup {row}
  <2>2. phase_log \in Seq(T) /\ row \in T
    BY <2>1
  <2> HIDE DEF T
  <2>3. phase_log' \in Seq(T)
    BY <2>2, <1>1, <1>4
  <2> QED
    BY <2>2, <2>3, <1>1, <1>4 DEF IsSeq
<1>7. change_events' = {IF e.phase = i /\ e.t_end = None THEN [e EXCEPT !.t_end = end] ELSE e :
                          e \in change_events}
  BY <1>1, <1>2 DEF end_phase
<1>8. ClockRight'
  BY <1>1 DEF PhasesInv, ClockRight
<1>9. LogRight'
  <2>1. ASSUME NEW j \in 1 .. Len(log) PROVE FrameInPhase(log[j])'
    <3>1. FrameInPhase(log[j])
      BY DEF PhasesInv, LogRight
    <3>2. CASE log[j].phase = i
      <4>1. end # None /\ log[j].ts <= end
        BY <3>2 DEF SentIn
      <4> QED
        BY <3>1, <3>2, <4>1, <1>1, <1>5, <1>6 DEF FrameInPhase
    <3>3. CASE log[j].phase # i
      BY <3>1, <3>3, <1>1, <1>6 DEF FrameInPhase
    <3> QED
      BY <3>2, <3>3
  <2> QED
    BY <2>1, <1>3 DEF PhasesInv, LogRight, IsSeq
<1>10. ASSUME NEW k \in 1 .. i' PROVE RowRight(k)'
  <2>1. RowRight(k) /\ SentIn(k)' = SentIn(k) /\ k \in 1 .. i
    BY DEF PhasesInv, SentIn
  <2>2. CASE k = i
    <3>1. phase_log'[k] = row
      BY <2>2, <1>6
    <3> QED
      BY <2>1, <2>2, <3>1, <1>1, <1>2, <1>3, <1>5 DEF RowRight
  <2>3. CASE k # i
    <3>1. k < i /\ phase_log'[k] = phase_log[k] /\ phase_log'[k + 1].start = phase_log[k + 1].start
      BY <2>1, <2>3, <1>1, <1>5, <1>6
    <3> QED
      BY <2>1, <2>3, <3>1, <1>1, <1>3 DEF RowRight
  <2> QED
    BY <2>2, <2>3
<1>11. ASSUME NEW e \in change_events' PROVE EventRight(e)'
  <2>1. PICK d \in change_events :
          e = IF d.phase = i /\ d.t_end = None THEN [d EXCEPT !.t_end = end] ELSE d
    BY <1>7
  <2>2. /\ d.phase \in 1 .. i
        /\ d = [what |-> d.what, phase |-> d.phase, t_start |-> phase_log[d.phase].start,
                t_end |-> phase_log[d.phase].end]
    BY DEF PhasesInv, EventRight
  <2>3. CASE d.phase = i
    BY <2>1, <2>2, <2>3, <1>1, <1>2, <1>5, <1>6 DEF EventRight
  <2>4. CASE d.phase # i
    BY <2>1, <2>2, <2>4, <1>1, <1>6 DEF EventRight
  <2> QED
    BY <2>3, <2>4
<1> QED
  BY <1>6, <1>8, <1>9, <1>10, <1>11 DEF PhasesInv

LEMMA EndPhases == PhasesInv /\ EndPhase => PhasesInv'
<1> SUFFICES ASSUME PhasesInv, EndPhase PROVE PhasesInv'
  OBVIOUS
<1> DEFINE end == IF synthetic THEN i * Length ELSE now
<1>1. /\ pc = "phase" /\ end_phase(end) /\ now' = end /\ pc' \in {"between", "done"}
      /\ UNCHANGED <<synthetic, i, log, stage>>
  BY DEF EndPhase, plan
<1>2. end \in Nat /\ now <= end /\ now \in Nat
  BY <1>1, TimesAssumption DEF PhasesInv, ClockRight
<1>3. end # None
  BY <1>2, TimesAssumption
<1>4. \A j \in SentIn(i) : log[j].ts <= end
  BY <1>2 DEF SentIn, PhasesInv, LogRight, FrameInPhase
<1>5. synthetic => end = i * Length
  OBVIOUS
<1> HIDE DEF end
<1>6. end = IF end = None THEN last_ts ELSE end
  BY <1>3
<1>7. end <= end
  BY <1>2
<1> QED
  BY <1>1, <1>2, <1>3, <1>4, <1>5, <1>6, <1>7, EndsPhase

LEMMA StopPhases == PhasesInv /\ StopRun => PhasesInv'
<1> SUFFICES ASSUME PhasesInv, StopRun PROVE PhasesInv'
  OBVIOUS
<1>1. pc' = "done" /\ UNCHANGED <<synthetic, i, now, log, stage>>
  BY DEF StopRun, plan
<1>2. now \in Nat /\ Len(log) \in Nat
  BY DEF PhasesInv, ClockRight, LogRight, IsSeq
<1>3. now <= now'
  BY <1>1, <1>2
<1>4. CASE pc = "phase"
  <2>1. end_phase(None)
    BY <1>4 DEF StopRun
  <2>2. last_ts \in Nat \cup {None} /\ (last_ts # None => last_ts <= now')
    <3>1. CASE log = <<>>
      BY <3>1 DEF PhasesInv, LogRight
    <3>2. CASE log # <<>>
      <4>1. Len(log) \in 1 .. Len(log)
        BY <3>2, <1>2 DEF PhasesInv, LogRight, IsSeq
      <4> QED
        BY <3>2, <4>1, <1>1 DEF PhasesInv, LogRight, FrameInPhase
    <3> QED
      BY <3>1, <3>2
  <2>3. \A j \in SentIn(i) : last_ts # None /\ log[j].ts <= last_ts
    <3> SUFFICES ASSUME NEW j \in 1 .. Len(log)
                 PROVE  last_ts # None /\ log[j].ts <= last_ts
      BY DEF SentIn
    <3>1. log # <<>> /\ Len(log) \in 1 .. Len(log)
      BY <1>2
    <3>2. last_ts = log[Len(log)].ts /\ last_ts \in Nat /\ log[j].ts <= log[Len(log)].ts
      BY <3>1 DEF PhasesInv, LogRight, FrameInPhase
    <3> QED
      BY <3>2, TimesAssumption
  <2> QED
    BY <1>1, <1>2, <1>3, <1>4, <2>1, <2>2, <2>3, EndsPhase
<1>5. CASE pc # "phase"
  <2>1. pc = "between" /\ UNCHANGED <<phase_log, change_events, packets, last_ts>>
    BY <1>5 DEF StopRun, manifest, tallies
  <2>2. stage # "plan"
    BY <2>1 DEF PhasesInv, ClockRight
  <2>3. ClockRight'
    BY <1>1, <2>1, <2>2 DEF PhasesInv, ClockRight
  <2>4. LogRight'
    BY <1>1, <2>1 DEF PhasesInv, LogRight, IsSeq, FrameInPhase
  <2>5. \A k \in 1 .. i' : RowRight(k)'
    BY <1>1, <2>1 DEF PhasesInv, RowRight, SentIn
  <2>6. \A e \in change_events' : EventRight(e)'
    BY <1>1, <2>1 DEF PhasesInv, EventRight
  <2> QED
    BY <1>1, <2>1, <2>3, <2>4, <2>5, <2>6 DEF PhasesInv, IsSeq
<1> QED
  BY <1>4, <1>5

LEMMA NextPhases == PhasesInv /\ [Next]_vars => PhasesInv'
<1> SUFFICES ASSUME PhasesInv, [Next]_vars PROVE PhasesInv'
  OBVIOUS
<1>1. CASE Plan \/ Start
  BY <1>1, PlanPhases
<1>2. CASE BeginPhase
  BY <1>2, BeginPhases
<1>3. CASE SendFrame
  BY <1>3, SendPhases
<1>4. CASE EndPhase
  BY <1>4, EndPhases
<1>5. CASE StopRun
  BY <1>5, StopPhases
<1>6. CASE UNCHANGED vars
  <2>1. UNCHANGED <<stage, pc, synthetic, i, now, log, packets, last_ts, phase_log, change_events>>
    BY <1>6 DEF vars, plan, manifest, run, tallies
  <2>2. ClockRight'
    BY <2>1 DEF PhasesInv, ClockRight
  <2>3. LogRight'
    BY <2>1 DEF PhasesInv, LogRight, IsSeq, FrameInPhase
  <2>4. \A k \in 1 .. i' : RowRight(k)'
    BY <2>1, ZenonT(30) DEF PhasesInv, RowRight, SentIn
  <2>5. \A e \in change_events' : EventRight(e)'
    BY <2>1 DEF PhasesInv, EventRight
  <2> QED
    BY <2>1, <2>2, <2>3, <2>4, <2>5 DEF PhasesInv, IsSeq
<1> QED
  BY <1>1, <1>2, <1>3, <1>4, <1>5, <1>6 DEF Next

\* The phases of the manifest are a partition of the run, for plans of any
\* length: every frame is counted by the phase that it was sent in and by no
\* other, phases do not overlap, their frames lie within them and their events
\* have their times (begin_phase, end_phase and observe of manifest.py).
THEOREM PhasesCorrect == Spec => []PhasesAddUp
<1>1. Spec => []PhasesInv
  BY PhasesStart, NextPhases, PTL DEF Spec
<1> QED
  BY <1>1, PhasesRight, PTL

-----------------------------------------------------------------------------
(* What plans have in common.                                              *)

HostNames == {h.name : h \in ToSet(Base.hosts) \cup AddedHosts}

LEMMA NamesAreNames ==
  ASSUME NEW n \in HostNames
  PROVE  n \notin {None} \cup {GatewayMac(Zone[a]) : a \in DOMAIN Zone} /\ n \notin Ips
BY NamesAssumption DEF HostNames

\* Hosts of a document.
HostRight(h) ==
  /\ {"name", "model", "mac"} \subseteq DOMAIN h
  /\ h.name \in HostNames /\ h.model \in Said("model") /\ h.mac \in Said("mac") \cup {None}

HostsRight(hosts) == IsSeq(hosts) /\ \A h \in ToSet(hosts) : HostRight(h)

LEMMA SaidHosts ==
  ASSUME NEW h \in ToSet(Base.hosts) \cup AddedHosts
  PROVE  HostRight(h)
<1>1. {"name", "model", "mac"} \subseteq DOMAIN h
  BY DocumentsAssumption
<1>2. h.name \in HostNames
  BY DEF HostNames
<1>3. h["model"] \in Said("model") /\ h["mac"] \in Said("mac")
  BY <1>1 DEF Said
<1> QED
  BY <1>1, <1>2, <1>3 DEF HostRight

LEMMA SetFieldsKeep ==
  ASSUME NEW h, HostRight(h), NEW c \in Changes, c.kind = "set"
  PROVE  HostRight(SetFields(h, c.new)) /\ SetFields(h, c.new).name = h.name
<1> DEFINE g == SetFields(h, c.new)
<1>1. DOMAIN g = DOMAIN h /\ {"name", "model", "mac"} \subseteq DOMAIN h
  BY DEF SetFields, HostRight
<1>2. "name" \notin DOMAIN c.new
  BY DocumentsAssumption
<1>3. g["name"] = h["name"]
  BY <1>1, <1>2 DEF SetFields
<1>4. \A f \in {"model", "mac"} : f \in DOMAIN c.new => c.new[f] \in Said(f)
  BY DEF Said
<1>5. g["model"] \in Said("model")
  BY <1>1, <1>4 DEF SetFields, HostRight
<1>6. g["mac"] \in Said("mac") \cup {None}
  BY <1>1, <1>4 DEF SetFields, HostRight
<1> HIDE DEF g
<1>7. g.name = h.name /\ HostRight(g)
  BY <1>1, <1>3, <1>5, <1>6 DEF HostRight
<1> QED
  BY <1>7 DEF g

\* A document while changes are applied to it.
DocRight(d) ==
  /\ DOMAIN d = {"hosts", "flows", "offline", "sprinkle", "dhcp", "server", "legal"}
  /\ HostsRight(d.hosts) /\ IsSeq(d.flows)
  /\ d.offline \subseteq Names(d.hosts)
  /\ IsSeq(d.sprinkle) /\ ToSet(d.sprinkle) \subseteq DOMAIN INCIDENTS

LEMMA NamesAre ==
  ASSUME NEW hosts PROVE Names(hosts) = {h.name : h \in ToSet(hosts)}
BY DEF Names, ToSet

LEMMA TakenKeeps ==
  ASSUME NEW d, DocRight(d), NEW c \in Changes
  PROVE  DocRight(Taken(d, c))
<1> DEFINE F == {"hosts", "flows", "offline", "sprinkle", "dhcp", "server", "legal"}
<1>1. c.kind \in {"add_host", "remove_host", "set", "add_flow", "remove_flow", "offline",
                  "online", "sprinkle"}
  BY DocumentsAssumption
<1>2. CASE ~(d.legal /\ Legal(d, c))
  <2>1. Taken(d, c) = [d EXCEPT !.legal = FALSE]
    BY <1>2 DEF Taken
  <2> QED
    BY <2>1 DEF DocRight
<1>3. CASE d.legal /\ Legal(d, c)
  <2>1. Taken(d, c) = Change(d, c)
    BY <1>3 DEF Taken
  <2>2. CASE c.kind = "add_host"
    <3> DEFINE hs == Append(d.hosts, c.host)
               fl == IF c.dhcp THEN Append(d.flows, <<c.host.name, d.server, "dhcp">>) ELSE d.flows
               dh == IF c.dhcp THEN d.dhcp \cup {c.host.name} ELSE d.dhcp
    <3>1. Change(d, c) = [d EXCEPT !.hosts = hs, !.flows = fl, !.dhcp = dh]
      BY <2>2 DEF Change
    <3>2. IsSeq(hs) /\ ToSet(hs) = ToSet(d.hosts) \cup {c.host}
      BY RangeOfAppend DEF DocRight, HostsRight
    <3>3. IsSeq(fl)
      BY RangeOfAppend DEF DocRight
    <3>4. c.host \in AddedHosts
      BY <2>2 DEF AddedHosts
    <3>5. HostRight(c.host)
      BY <3>4, SaidHosts
    <3> HIDE DEF hs, fl, dh
    <3>6. HostsRight(hs) /\ Names(d.hosts) \subseteq Names(hs)
      BY <3>2, <3>5, NamesAre DEF HostsRight, DocRight
    <3> QED
      BY <2>1, <3>1, <3>3, <3>6 DEF DocRight
  <2>3. CASE c.kind = "remove_host"
    <3> DEFINE gone == {h \in ToSet(d.hosts) : h.name = c.name}
               hs == Without(d.hosts, gone)
               fl == Without(d.flows, {f \in ToSet(d.flows) : c.name \in {f[1], f[2]}})
    <3>1. Change(d, c) = [d EXCEPT !.hosts = hs, !.flows = fl, !.offline = d.offline \ {c.name}]
      BY <2>3 DEF Change
    <3>2. IsSeq(hs) /\ ToSet(hs) = ToSet(d.hosts) \ gone
      BY WithoutHas DEF DocRight, HostsRight
    <3>3. IsSeq(fl)
      BY WithoutHas DEF DocRight
    <3> HIDE DEF hs, fl
    <3>4. HostsRight(hs) /\ Names(hs) = Names(d.hosts) \ {c.name}
      BY <3>2, NamesAre DEF HostsRight, DocRight
    <3>5. d.offline \ {c.name} \subseteq Names(hs)
      BY <3>4 DEF DocRight
    <3> QED
      BY <2>1, <3>1, <3>3, <3>4, <3>5 DEF DocRight
  <2>4. CASE c.kind = "set"
    <3> DEFINE hs == [k \in DOMAIN d.hosts |-> IF d.hosts[k].name = c.name
                                               THEN SetFields(d.hosts[k], c.new) ELSE d.hosts[k]]
    <3>1. Change(d, c) = [d EXCEPT !.hosts = hs]
      BY <2>4 DEF Change
    <3>2. Len(d.hosts) \in Nat /\ DOMAIN d.hosts = 1 .. Len(d.hosts)
      BY Ranges DEF DocRight, HostsRight
    <3>3. IsSeq(hs)
      BY <3>2, FunctionIsSeq
    <3>4. ASSUME NEW k \in DOMAIN d.hosts
          PROVE  HostRight(hs[k]) /\ hs[k].name = d.hosts[k].name
      <4>1. HostRight(d.hosts[k])
        BY DEF DocRight, HostsRight, ToSet
      <4> QED
        BY <4>1, <2>4, SetFieldsKeep
    <3>5. DOMAIN hs = DOMAIN d.hosts
      OBVIOUS
    <3> HIDE DEF hs
    <3>6. Names(hs) = Names(d.hosts) /\ HostsRight(hs)
      BY <3>3, <3>4, <3>5 DEF Names, HostsRight, DocRight, ToSet
    <3> QED
      BY <2>1, <3>1, <3>6 DEF DocRight
  <2>5. CASE c.kind = "add_flow"
    <3> DEFINE fl == Append(d.flows, c.flow)
    <3>1. Change(d, c) = [d EXCEPT !.flows = fl]
      BY <2>5 DEF Change
    <3>2. IsSeq(fl)
      BY RangeOfAppend DEF DocRight
    <3> HIDE DEF fl
    <3> QED
      BY <2>1, <3>1, <3>2 DEF DocRight
  <2>6. CASE c.kind = "remove_flow"
    <3> DEFINE fl == Without(d.flows, {f \in ToSet(d.flows) : Removes(c, f)})
    <3>1. Change(d, c) = [d EXCEPT !.flows = fl]
      BY <2>6 DEF Change
    <3>2. IsSeq(fl)
      BY WithoutHas DEF DocRight
    <3> HIDE DEF fl
    <3> QED
      BY <2>1, <3>1, <3>2 DEF DocRight
  <2>7. CASE c.kind = "offline"
    <3>1. Change(d, c) = [d EXCEPT !.offline = d.offline \cup {c.name}]
      BY <2>7 DEF Change
    <3>2. c.name \in Names(d.hosts)
      BY <1>3, <2>7 DEF Legal
    <3> QED
      BY <2>1, <3>1, <3>2 DEF DocRight
  <2>8. CASE c.kind = "online"
    <3>1. Change(d, c) = [d EXCEPT !.offline = d.offline \ {c.name}]
      BY <2>8 DEF Change
    <3> QED
      BY <2>1, <3>1 DEF DocRight
  <2>9. CASE c.kind = "sprinkle"
    <3> DEFINE sp == Append(d.sprinkle, c.key)
    <3>1. Change(d, c) = [d EXCEPT !.sprinkle = sp]
      BY <2>9 DEF Change
    <3>2. IsSeq(sp) /\ ToSet(sp) = ToSet(d.sprinkle) \cup {c.key}
      BY RangeOfAppend DEF DocRight
    <3>3. c.key \in DOMAIN INCIDENTS
      BY <2>9, IncidentsAssumption
    <3> HIDE DEF sp
    <3> QED
      BY <2>1, <3>1, <3>2, <3>3 DEF DocRight
  <2> QED
    BY <1>1, <2>2, <2>3, <2>4, <2>5, <2>6, <2>7, <2>8, <2>9
<1> QED
  BY <1>2, <1>3

LEMMA ApplyKeeps ==
  ASSUME NEW prevFlows, IsSeq(spec), ToSet(spec) \subseteq Changes,
         HostsRight(doc.hosts), IsSeq(doc.flows), offline \subseteq Names(doc.hosts)
  PROVE  DocRight(_apply(prevFlows))
<1> DEFINE d == [hosts |-> doc.hosts, flows |-> doc.flows, offline |-> offline, sprinkle |-> <<>>,
                 dhcp |-> {}, server |-> _dhcp_server(prevFlows), legal |-> TRUE]
           A == Applied(d)
           S == {m \in Nat : m <= Len(spec) => DocRight(A[m])}
<1>1. Len(spec) \in Nat /\ \A k \in 1 .. Len(spec) : spec[k] \in Changes
  BY Ranges
<1>2. A[0] = d /\ \A k \in 1 .. Len(spec) : A[k] = Taken(A[k - 1], spec[k])
  BY <1>1, AppliedStep
<1>3. _apply(prevFlows) = A[Len(spec)]
  BY DEF _apply
<1>4. DocRight(d)
  BY Empty DEF DocRight
<1> HIDE DEF A, d
<1>5. 0 \in S
  BY <1>2, <1>4
<1>6. ASSUME NEW m \in Nat, m \in S PROVE m + 1 \in S
  <2> SUFFICES ASSUME m + 1 <= Len(spec) PROVE DocRight(A[m + 1])
    OBVIOUS
  <2>1. PICK k \in 1 .. Len(spec) : k = m + 1 /\ k - 1 = m
    BY <1>1
  <2>2. DocRight(A[m]) /\ A[k] = Taken(A[m], spec[k])
    BY <1>1, <1>2, <1>6, <2>1
  <2>3. DocRight(A[k])
    BY <1>1, <2>2, TakenKeeps
  <2> QED
    BY <2>1, <2>3
<1> HIDE DEF S
<1>7. Len(spec) \in S
  BY <1>1, <1>5, <1>6, SetInduction
<1> QED
  BY <1>1, <1>3, <1>7 DEF S

HostFields == {"name", "ip", "model", "mac", "firmware"}

\* An environment of a phase.
EnvRight(env) ==
  /\ IsSeq(env.hosts) /\ IsSeq(env.flows)
  /\ \A h \in ToSet(env.hosts) : /\ DOMAIN h = HostFields /\ h.name \in HostNames
                                 /\ h.ip \in DOMAIN Zone /\ h.mac \notin Ips
  /\ \A j, k \in 1 .. Len(env.hosts) : env.hosts[j].name = env.hosts[k].name => j = k
  /\ \A f \in ToSet(env.flows) : {f[1], f[2]} \subseteq Names(env.hosts)

PhaseRight(ph) ==
  /\ EnvRight(ph.env)
  /\ ph.offline \subseteq Names(ph.env.hosts)
  /\ IsSeq(ph.sprinkle) /\ ToSet(ph.sprinkle) \subseteq DOMAIN INCIDENTS

PlanInv ==
  /\ IsSeq(spec) /\ ToSet(spec) \subseteq Changes
  /\ HostsRight(doc.hosts) /\ IsSeq(doc.flows) /\ offline \subseteq Names(doc.hosts)
  /\ IsSeq(phases)
  /\ phases # <<>> => offline = phases[Len(phases)].offline
  /\ \A p \in 1 .. Len(phases) :
       /\ PhaseRight(phases[p])
       /\ p # 1 => phases[p].diff = _diff(phases[p - 1].env, phases[p].env,
                                          phases[p - 1].offline, phases[p].offline)

\* The environment of a document that from_dict() takes.
LEMMA EnvironmentRight ==
  ASSUME NEW d, HostsRight(d.hosts), IsSeq(d.flows), Valid(d)
  PROVE  EnvRight(Environment(d)) /\ Names(Environment(d).hosts) = Names(d.hosts)
<1> DEFINE hs == [k \in DOMAIN d.hosts |-> Host(d.hosts[k])]
<1>1. Environment(d).hosts = hs /\ Environment(d).flows = d.flows
  BY DEF Environment
<1>2. Len(d.hosts) \in Nat /\ DOMAIN d.hosts = 1 .. Len(d.hosts)
  BY Ranges DEF HostsRight
<1>3. IsSeq(hs) /\ Len(hs) = Len(d.hosts)
  BY <1>2, FunctionIsSeq
<1>4. DOMAIN hs = DOMAIN d.hosts
  OBVIOUS
<1>5. ASSUME NEW k \in DOMAIN d.hosts
      PROVE  /\ DOMAIN hs[k] = HostFields
             /\ hs[k].name = d.hosts[k].name /\ hs[k].ip = d.hosts[k].ip
             /\ hs[k].mac = IF d.hosts[k].mac = None THEN AutoMac(d.hosts[k].model, d.hosts[k].ip)
                            ELSE d.hosts[k].mac
  BY DEF Host, HostFields
<1> HIDE DEF hs
<1>6. Names(hs) = Names(d.hosts)
  BY <1>4, <1>5 DEF Names
<1>7. ASSUME NEW h \in ToSet(hs)
      PROVE  /\ DOMAIN h = HostFields /\ h.name \in HostNames
             /\ h.ip \in DOMAIN Zone /\ h.mac \notin Ips
  <2>1. PICK k \in DOMAIN d.hosts : h = hs[k]
    BY <1>4 DEF ToSet
  <2>2. d.hosts[k].ip \in DOMAIN Zone /\ HostRight(d.hosts[k])
    BY DEF Valid, HostsRight, ToSet
  <2>3. h.mac \notin Ips
    <3>1. CASE d.hosts[k].mac = None
      BY <3>1, <2>1, <2>2, <1>5, AddressesAssumption DEF HostRight
    <3>2. CASE d.hosts[k].mac # None
      BY <3>2, <2>1, <2>2, <1>5, AddressesAssumption DEF HostRight
    <3> QED
      BY <3>1, <3>2
  <2>4. d.hosts[k].name \in HostNames
    BY <2>2 DEF HostRight
  <2> QED
    BY <2>1, <2>2, <2>3, <2>4, <1>5
<1>8. \A j, k \in 1 .. Len(hs) : hs[j].name = hs[k].name => j = k
  BY <1>2, <1>3, <1>5 DEF Valid
<1>9. \A f \in ToSet(d.flows) : {f[1], f[2]} \subseteq Names(hs)
  BY <1>6 DEF Valid, ToSet
<1> QED
  BY <1>1, <1>3, <1>6, <1>7, <1>8, <1>9 DEF EnvRight

LEMMA PlanStart == Init => PlanInv
<1> SUFFICES ASSUME Init PROVE PlanInv
  OBVIOUS
<1>1. doc = Base /\ offline = {} /\ spec = <<>> /\ phases = <<>>
  BY DEF Init, PlanInit
<1>2. IsSeq(<<>>) /\ ToSet(<<>>) = {} /\ Len(<<>>) = 0
  BY Empty
<1>3. HostsRight(Base.hosts) /\ IsSeq(Base.flows)
  BY SaidHosts, DocumentsAssumption DEF HostsRight, IsSeq
<1> QED
  BY <1>1, <1>2, <1>3 DEF PlanInv

LEMMA NextPlan == PlanInv /\ [Next]_vars => PlanInv'
<1> SUFFICES ASSUME PlanInv, [Next]_vars PROVE PlanInv'
  OBVIOUS
<1>1. \/ Planning
      \/ UNCHANGED <<doc, offline, spec, phases>>
  BY DEF Next, Plan, Start, Launch, BeginPhase, SendFrame, EndPhase, StopRun, vars, plan
<1>2. CASE UNCHANGED <<doc, offline, spec, phases>>
  BY <1>2 DEF PlanInv
<1>3. CASE \E c \in Changes : Ask(c)
  <2>1. PICK c \in Changes : spec' = Append(spec, c) /\ UNCHANGED <<doc, offline, phases>>
    BY <1>3 DEF Ask
  <2>2. IsSeq(spec') /\ ToSet(spec') \subseteq Changes
    BY <2>1, RangeOfAppend DEF PlanInv
  <2> QED
    BY <2>1, <2>2 DEF PlanInv
<1>4. CASE BuildPhase
  <2> DEFINE d == _apply(Previous.flows)
             env == Environment(d)
             diff == IF phases = <<>> THEN FirstDiff(d.offline)
                                      ELSE _diff(Previous, env, offline, d.offline)
             ph == [env |-> env, offline |-> d.offline, diff |-> diff, asked |-> Len(spec),
                    sprinkle |-> d.sprinkle,
                    events |-> IF phases = <<>>
                               THEN {Event("asset-offline", {n}, Of(env.hosts, n).ip, None) :
                                       n \in d.offline}
                               ELSE _events(Previous, env, diff),
                    inject |-> _arrivals(diff, d.offline)]
  <2>1. CASE UNCHANGED <<doc, offline, spec, phases>>
    BY <2>1 DEF PlanInv
  <2>2. CASE /\ d.legal /\ Valid(d)
             /\ phases' = Append(phases, ph)
             /\ doc' = [hosts |-> d.hosts, flows |-> d.flows]
             /\ offline' = d.offline /\ spec' = <<>>
    <3>1. DocRight(d)
      BY ApplyKeeps DEF PlanInv
    <3>2. EnvRight(env) /\ Names(env.hosts) = Names(d.hosts)
      <4> HIDE DEF d
      <4> QED
        BY <2>2, <3>1, EnvironmentRight DEF DocRight
    <3>3. /\ ph.env = env /\ ph.offline = d.offline /\ ph.sprinkle = d.sprinkle
          /\ phases # <<>> => ph.diff = _diff(Previous, env, offline, d.offline)
      OBVIOUS
    <3> HIDE DEF d, env, diff
    <3>4. PhaseRight(ph)
      <4> HIDE DEF ph
      <4> QED
        BY <3>1, <3>2, <3>3 DEF PhaseRight, DocRight
    <3> HIDE DEF ph
    <3>5. /\ IsSeq(phases') /\ Len(phases) \in Nat /\ Len(phases') = Len(phases) + 1
          /\ \A p \in 1 .. Len(phases) : phases'[p] = phases[p]
          /\ phases'[Len(phases) + 1] = ph
      BY <2>2, Appended DEF PlanInv
    <3>6. ASSUME NEW p \in 1 .. Len(phases')
          PROVE  /\ PhaseRight(phases[p])'
                 /\ p # 1 => phases'[p].diff = _diff(phases'[p - 1].env, phases'[p].env,
                                                     phases'[p - 1].offline, phases'[p].offline)
      <4>1. PhaseRight(phases[p])' <=> PhaseRight(phases'[p])
        BY DEF PhaseRight, EnvRight, HostNames, Names
      <4>2. CASE p \in 1 .. Len(phases)
        <5>1. p # 1 => p - 1 \in 1 .. Len(phases)
          BY <4>2, <3>5
        <5> QED
          BY <4>1, <4>2, <5>1, <3>5 DEF PlanInv
      <4>3. CASE p = Len(phases) + 1
        <5>1. PhaseRight(phases'[p])
          BY <4>3, <3>4, <3>5
        <5>2. ASSUME p # 1
              PROVE  phases'[p].diff = _diff(phases'[p - 1].env, phases'[p].env,
                                             phases'[p - 1].offline, phases'[p].offline)
          <6>1. phases # <<>> /\ p - 1 = Len(phases) /\ p - 1 \in 1 .. Len(phases)
            BY <4>3, <5>2, <3>5 DEF PlanInv, IsSeq
          <6>2. phases'[p - 1] = phases[Len(phases)] /\ phases'[p] = ph
            BY <6>1, <4>3, <3>5
          <6>3. Previous = phases[Len(phases)].env /\ offline = phases[Len(phases)].offline
            BY <6>1 DEF Previous, PlanInv
          <6> QED
            BY <6>1, <6>2, <6>3, <3>3
        <5> QED
          BY <4>1, <5>1, <5>2
      <4> QED
        BY <4>2, <4>3, <3>5
    <3>7. offline' = phases'[Len(phases')].offline
      BY <2>2, <3>3, <3>5
    <3>8. HostsRight(doc'.hosts) /\ IsSeq(doc'.flows) /\ offline' \subseteq Names(doc'.hosts)
      BY <2>2, <3>1 DEF DocRight
    <3>9. IsSeq(spec') /\ ToSet(spec') \subseteq Changes
      BY <2>2, Empty
    <3> QED
      BY <3>5, <3>6, <3>7, <3>8, <3>9 DEF PlanInv, HostsRight, HostNames, Names
  <2> QED
    BY <1>4, <2>1, <2>2 DEF BuildPhase
<1> QED
  BY <1>1, <1>2, <1>3, <1>4 DEF Planning

-----------------------------------------------------------------------------
(* Diffs.                                                                  *)

\* The host of a name is one of the hosts.
LEMMA OfName ==
  ASSUME NEW hosts, NEW n \in Names(hosts)
  PROVE  Of(hosts, n) \in ToSet(hosts) /\ Of(hosts, n).name = n
<1>1. \E k \in DOMAIN hosts : hosts[k].name = n
  BY DEF Names
<1> QED
  BY <1>1 DEF Of, ToSet

\* Hosts, fields, flows and who is offline, of a phase and the one before it.
Replays(old, new, d) ==
  LET kept == Names(old.env.hosts) \ d.removed
      field(n, f) == LET c == {x \in d.changed : x.name = n /\ x.field = f}
                     IN IF c = {} THEN Of(old.env.hosts, n)[f] ELSE (CHOOSE x \in c : TRUE).new
  IN /\ Names(new.env.hosts) = kept \cup d.added
     /\ \A n \in kept : \A f \in DOMAIN Of(new.env.hosts, n) \ {"name"} :
          field(n, f) = Of(new.env.hosts, n)[f]
     /\ new.offline = ((old.offline \ d.removed) \ d.online) \cup d.offline
     /\ ToSet(new.env.flows) = (ToSet(old.env.flows) \ ToSet(d.flows_removed))
                                 \cup ToSet(d.flows_added)

LEMMA DiffReplays ==
  ASSUME NEW old, NEW new, PhaseRight(old), PhaseRight(new),
         NEW d, d = _diff(old.env, new.env, old.offline, new.offline)
  PROVE  Replays(old, new, d)
<1> DEFINE pn == Names(old.env.hosts)
           nn == Names(new.env.hosts)
           was(n, f) == Of(old.env.hosts, n)[f]
           is(n, f) == Of(new.env.hosts, n)[f]
           kept == pn \ d.removed
           changes == {[name |-> n, field |-> f, old |-> was(n, f), new |-> is(n, f)] :
                         n \in pn \cap nn, f \in Fields}
<1>1. /\ d.added = nn \ pn /\ d.removed = pn \ nn
      /\ d.offline = (new.offline \ old.offline) \cap nn
      /\ d.online = (old.offline \ new.offline) \cap nn
      /\ d.changed = {c \in changes : c.old # c.new}
      /\ d.flows_added = FlowsNotIn(new.env.flows, old.env.flows)
      /\ d.flows_removed = FlowsNotIn(old.env.flows, new.env.flows)
  BY DEF _diff
<1>2. nn = kept \cup d.added /\ kept = pn \cap nn
  BY <1>1
<1>3. new.offline = ((old.offline \ d.removed) \ d.online) \cup d.offline
  BY <1>1 DEF PhaseRight
<1>4. ToSet(new.env.flows) = (ToSet(old.env.flows) \ ToSet(d.flows_removed)) \cup ToSet(d.flows_added)
  <2>1. ToSet(d.flows_added) = ToSet(new.env.flows) \ ToSet(old.env.flows)
    BY <1>1, WithoutHas DEF FlowsNotIn, PhaseRight, EnvRight
  <2>2. ToSet(d.flows_removed) = ToSet(old.env.flows) \ ToSet(new.env.flows)
    BY <1>1, WithoutHas DEF FlowsNotIn, PhaseRight, EnvRight
  <2> QED
    BY <2>1, <2>2
<1>5. ASSUME NEW n \in kept, NEW f \in DOMAIN Of(new.env.hosts, n) \ {"name"}
      PROVE  LET c == {x \in d.changed : x.name = n /\ x.field = f}
             IN (IF c = {} THEN was(n, f) ELSE (CHOOSE x \in c : TRUE).new) = is(n, f)
  <2> DEFINE c == {x \in d.changed : x.name = n /\ x.field = f}
             y == [name |-> n, field |-> f, old |-> was(n, f), new |-> is(n, f)]
  <2>1. n \in pn \cap nn
    BY <1>2
  <2>2. f \in Fields
    <3>1. Of(new.env.hosts, n) \in ToSet(new.env.hosts)
      BY <2>1, OfName
    <3>2. DOMAIN Of(new.env.hosts, n) = HostFields
      BY <3>1 DEF PhaseRight, EnvRight
    <3> QED
      BY <3>2 DEF HostFields, Fields
  <2>3. y \in changes
    BY <2>1, <2>2
  <2>4. \A x \in changes : x.name = n /\ x.field = f => x = y
    OBVIOUS
  <2>5. y.name = n /\ y.field = f /\ y.old = was(n, f) /\ y.new = is(n, f)
    OBVIOUS
  <2> HIDE DEF changes, y, was, is
  <2>6. CASE was(n, f) = is(n, f)
    <3>1. c = {}
      BY <2>4, <2>5, <2>6, <1>1
    <3> QED
      BY <3>1, <2>6
  <2>7. CASE was(n, f) # is(n, f)
    <3>1. y \in c /\ \A x \in c : x = y
      BY <2>3, <2>4, <2>5, <2>7, <1>1
    <3>2. c # {} /\ (CHOOSE x \in c : TRUE) = y
      BY <3>1
    <3> QED
      BY <3>2, <2>5
  <2> QED
    BY <2>6, <2>7
<1> QED
  BY <1>2, <1>3, <1>4, <1>5 DEF Replays

LEMMA PlansReplay == PlanInv => DiffsReplay
<1> SUFFICES ASSUME PlanInv PROVE DiffsReplay
  OBVIOUS
<1>1. \A p \in 2 .. Len(phases) :
        /\ PhaseRight(phases[p - 1]) /\ PhaseRight(phases[p])
        /\ phases[p].diff = _diff(phases[p - 1].env, phases[p].env,
                                  phases[p - 1].offline, phases[p].offline)
  <2> SUFFICES ASSUME NEW p \in 2 .. Len(phases)
               PROVE  /\ PhaseRight(phases[p - 1]) /\ PhaseRight(phases[p])
                      /\ phases[p].diff = _diff(phases[p - 1].env, phases[p].env,
                                                phases[p - 1].offline, phases[p].offline)
    OBVIOUS
  <2>1. p \in 1 .. Len(phases) /\ p - 1 \in 1 .. Len(phases) /\ p # 1
    BY Ranges DEF PlanInv
  <2> QED
    BY <2>1 DEF PlanInv
<1>2. \A p \in 2 .. Len(phases) : Replays(phases[p - 1], phases[p], phases[p].diff)
  BY <1>1, DiffReplays
<1> QED
  BY <1>2 DEF DiffsReplay, Replays

LEMMA PlansRight == Spec => []PlanInv
BY PlanStart, NextPlan, PTL DEF Spec

\* What the manifest says of a phase's changes is all of them, for plans of any
\* length: it turns the hosts, fields, flows and silent hosts of the phase before
\* into those of the phase (_apply against _diff, campaign.py).
THEOREM DiffsCorrect == Spec => []DiffsReplay
BY PlansRight, PlansReplay, PTL

-----------------------------------------------------------------------------
(* Incidents.                                                              *)

LEMMA OneMore ==
  ASSUME NEW m, NEW a, NEW b
  PROVE  LET new == SetDefault(m, [n \in {a} |-> b])
         IN /\ DOMAIN new = DOMAIN m \cup {a}
            /\ \A x \in DOMAIN m : new[x] = m[x]
            /\ a \notin DOMAIN m => new[a] = b
BY DEF SetDefault

\* The two ends of a flow are neighbours.
LEMMA EndsAreNeighbours ==
  ASSUME NEW inc, NEW f \in ToSet(inc.flows), f[1] # f[2]
  PROVE  f[2] \in Neighbours(inc, f[1]) /\ f[1] \in Neighbours(inc, f[2])
<1>1. ASSUME NEW n \in {f[1], f[2]} PROVE {f[1], f[2]} \subseteq Neighbours(inc, n) \cup {n}
  <2> DEFINE at == {g \in ToSet(inc.flows) : n \in {g[1], g[2]}}
             pairs == {{g[1], g[2]} : g \in at}
  <2>1. f \in at
    OBVIOUS
  <2>2. {f[1], f[2]} \in pairs
    BY <2>1
  <2>3. Neighbours(inc, n) = (UNION pairs) \ {n}
    BY DEF Neighbours
  <2> DEFINE ends == {f[1], f[2]}
  <2> HIDE DEF pairs, ends
  <2>4. \A x \in ends : x \in UNION pairs
    BY <2>2 DEF ends
  <2>5. f[1] \in UNION pairs /\ f[2] \in UNION pairs
    BY <2>4 DEF ends
  <2> QED
    BY <2>3, <2>5
<1> QED
  BY <1>1

PlacementsOf(g, inc, env, order, n) ==
  [k \in 0 .. n |-> IF k = 0 THEN <<>> ELSE Place(inc, env, g[k - 1], order[k])]

LEMMA PlacementsExist ==
  ASSUME NEW inc, NEW env, NEW order, NEW n \in Nat
  PROVE  \E g : g = PlacementsOf(g, inc, env, order, n)
<1> DEFINE S == {m \in Nat : \E g : g = PlacementsOf(g, inc, env, order, m)}
<1>1. 0 \in S
  <2> DEFINE g == [k \in 0 .. 0 |-> <<>>]
  <2>1. g = PlacementsOf(g, inc, env, order, 0)
    BY DEF PlacementsOf
  <2> QED
    BY <2>1
<1>2. ASSUME NEW m \in Nat, m \in S PROVE m + 1 \in S
  <2>1. PICK g : g = PlacementsOf(g, inc, env, order, m)
    BY <1>2
  <2> DEFINE h == [k \in 0 .. m + 1 |->
                     IF k = m + 1 THEN Place(inc, env, g[m], order[m + 1]) ELSE g[k]]
  <2>2. ASSUME NEW k \in 0 .. m + 1
        PROVE  h[k] = IF k = 0 THEN <<>> ELSE Place(inc, env, h[k - 1], order[k])
    <3>1. CASE k = m + 1
      BY <3>1
    <3>2. CASE k # m + 1
      <4>1. k \in 0 .. m /\ (k # 0 => k - 1 \in 0 .. m)
        BY <3>2
      <4>2. g[k] = IF k = 0 THEN <<>> ELSE Place(inc, env, g[k - 1], order[k])
        BY <2>1, <4>1 DEF PlacementsOf
      <4>3. h[k] = g[k] /\ (k # 0 => h[k - 1] = g[k - 1])
        BY <4>1
      <4> QED
        BY <4>2, <4>3
    <3> QED
      BY <3>1, <3>2
  <2>3. h = PlacementsOf(h, inc, env, order, m + 1)
    BY <2>2 DEF PlacementsOf
  <2> HIDE DEF h
  <2> QED
    BY <2>3
<1> HIDE DEF S
<1>3. n \in S
  BY <1>1, <1>2, SetInduction
<1> QED
  BY <1>3 DEF S

\* It is the loop over the internal hosts of map_onto.
LEMMA PlacementsStep ==
  ASSUME NEW inc, NEW env, NEW order, Len(order) \in Nat
  PROVE  /\ Placements(inc, env, order)[0] = <<>>
         /\ \A k \in 1 .. Len(order) :
              Placements(inc, env, order)[k]
                = Place(inc, env, Placements(inc, env, order)[k - 1], order[k])
<1> DEFINE A == Placements(inc, env, order)
<1>1. A = PlacementsOf(A, inc, env, order, Len(order))
  <2>1. \E g : g = PlacementsOf(g, inc, env, order, Len(order))
    BY PlacementsExist
  <2>2. A = CHOOSE g : g = PlacementsOf(g, inc, env, order, Len(order))
    BY DEF Placements, PlacementsOf
  <2> HIDE DEF A
  <2> QED
    BY <2>1, <2>2, Zenon
<1> HIDE DEF A
<1>2. A[0] = <<>>
  BY <1>1 DEF PlacementsOf
<1>3. ASSUME NEW k \in 1 .. Len(order) PROVE A[k] = Place(inc, env, A[k - 1], order[k])
  <2>1. k \in 0 .. Len(order) /\ k # 0
    OBVIOUS
  <2>2. PlacementsOf(A, inc, env, order, Len(order))[k] = Place(inc, env, A[k - 1], order[k])
    BY <2>1 DEF PlacementsOf
  <2> QED
    BY <1>1, <2>2
<1> QED
  BY <1>2, <1>3 DEF A

\* An incident of the catalog.
IncidentRight(inc) ==
  /\ IsSeq(inc.hosts) /\ IsSeq(inc.flows)
  /\ \A j, k \in DOMAIN inc.hosts : inc.hosts[j].name = inc.hosts[k].name => j = k
  /\ \A h \in ToSet(inc.hosts) : "external" \in DOMAIN h
  /\ \A f \in ToSet(inc.flows) : f[1] # f[2] /\ {f[1], f[2]} \subseteq Names(inc.hosts)

LEMMA IncidentsRight ==
  ASSUME NEW key \in DOMAIN INCIDENTS PROVE IncidentRight(INCIDENTS[key])
BY IncidentsAssumption DEF IncidentRight, IsSeq

\* Hosts of a name are the same host.
LEMMA NameIsHost ==
  ASSUME NEW hosts, \A j, k \in DOMAIN hosts : hosts[j].name = hosts[k].name => j = k,
         NEW h \in ToSet(hosts)
  PROVE  Of(hosts, h.name) = h /\ h.name \in Names(hosts)
<1>1. PICK k \in DOMAIN hosts : h = hosts[k]
  BY DEF ToSet
<1>2. (CHOOSE j \in DOMAIN hosts : hosts[j].name = h.name) = k
  BY <1>1
<1> QED
  BY <1>1, <1>2 DEF Of, Names

Internal(inc) == ToSet(inc.hosts) \ External(inc)

LEMMA TopDownHas ==
  ASSUME NEW inc, IncidentRight(inc)
  PROVE  /\ IsSeq(TopDown(Without(inc.hosts, External(inc))))
         /\ ToSet(TopDown(Without(inc.hosts, External(inc)))) \subseteq Internal(inc)
<1> DEFINE hosts == Without(inc.hosts, External(inc))
           at(l) == Without(hosts, {h \in ToSet(hosts) : _purdue_level(About(h).role) # l})
<1>1. IsSeq(hosts) /\ ToSet(hosts) = Internal(inc)
  BY WithoutHas DEF IncidentRight, Internal
<1>2. TopDown(hosts) = at(5) \o at(4) \o at(3) \o at(2) \o at(1)
  BY DEF TopDown
<1> HIDE DEF hosts
<1>3. \A l : IsSeq(at(l)) /\ ToSet(at(l)) \subseteq Internal(inc)
  BY <1>1, WithoutHas
<1> HIDE DEF at
<1>4. IsSeq(at(5) \o at(4)) /\ ToSet(at(5) \o at(4)) \subseteq Internal(inc)
  BY <1>3, RangeOfBoth
<1>5. /\ IsSeq(at(5) \o at(4) \o at(3))
      /\ ToSet(at(5) \o at(4) \o at(3)) \subseteq Internal(inc)
  BY <1>3, <1>4, RangeOfBoth
<1>6. /\ IsSeq(at(5) \o at(4) \o at(3) \o at(2))
      /\ ToSet(at(5) \o at(4) \o at(3) \o at(2)) \subseteq Internal(inc)
  BY <1>3, <1>5, RangeOfBoth
<1>7. /\ IsSeq(at(5) \o at(4) \o at(3) \o at(2) \o at(1))
      /\ ToSet(at(5) \o at(4) \o at(3) \o at(2) \o at(1)) \subseteq Internal(inc)
  BY <1>3, <1>6, RangeOfBoth
<1> QED
  BY <1>2, <1>7 DEF hosts

\* Who stands in for whom, so far.
MapRight(inc, env, m) ==
  /\ DOMAIN m \subseteq {h.name : h \in Internal(inc)}
  /\ \A n \in DOMAIN m : m[n] \in Names(env.hosts)
  /\ \A f \in ToSet(inc.flows) :
       /\ {f[1], f[2]} \subseteq DOMAIN m => m[f[1]] # m[f[2]]
       /\ f[2] \in DOMAIN m /\ Service[f[3]] # None
            => _can_serve(env, Of(env.hosts, m[f[2]]), Service[f[3]])

\* Of the hosts that may stand in, one costs least.
LEMMA CheapestIsThere ==
  ASSUME NEW inc, NEW env, NEW m, NEW ih, NEW can, can # {}
  PROVE  \E h \in can : \A g \in can : Cost(inc, env, m, ih, h) <= Cost(inc, env, m, ih, g)
<1> DEFINE cost(h) == Cost(inc, env, m, ih, h)
           T == {cost(h) : h \in can}
<1>1. ASSUME NEW h PROVE cost(h) \in Nat
  <2>1. _role_tier(About(ih).role, About(h).role) \in 0 .. 2
    BY DEF _role_tier
  <2> DEFINE t == _role_tier(About(ih).role, About(h).role)
  <2> HIDE DEF t
  <2>2. t \in 0 .. 2
    BY <2>1 DEF t
  <2>3. cost(h) =
          LET need == served(inc, ih.name)
              near == {Zone[Of(env.hosts, m[n]).ip] : n \in Neighbours(inc, ih.name) \cap DOMAIN m}
              worse(b, w) == IF b THEN w ELSE 0
          IN  (2 - t) * 32
              + worse(need = {} \/ ~(need \subseteq _env_services(env, h)), 16)
              + worse(About(ih).family = None \/ h.model # ih.model, 8)
              + worse(Zone[h.ip] \notin near, 4)
              + worse(\E n \in DOMAIN m : m[n] = h.name, 2)
              + worse(About(h).os # About(ih).os, 1)
    BY DEF Cost, t
  <2> QED
    BY <2>2, <2>3
<1> HIDE DEF cost
<1>2. T \in SUBSET Nat /\ T # {}
  BY <1>1
<1>3. Min(T) \in T /\ \A y \in T : Min(T) <= y
  <2> HIDE DEF T
  <2> QED
    BY <1>2, LeastIsThere
<1>4. PICK h \in can : cost(h) = Min(T)
  BY <1>3
<1> QED
  BY <1>3, <1>4 DEF cost

LEMMA PlaceKeeps ==
  ASSUME NEW inc, NEW env, NEW m, IncidentRight(inc), EnvRight(env), MapRight(inc, env, m),
         NEW ih \in Internal(inc)
  PROVE  MapRight(inc, env, Place(inc, env, m, ih))
<1> DEFINE can == StandIns(inc, env, m, ih)
           g == CHOOSE h \in can : \A x \in can : Cost(inc, env, m, ih, h) <= Cost(inc, env, m, ih, x)
           one == [n \in {ih.name} |-> g.name]
           new == SetDefault(m, one)
<1>1. CASE can = {}
  BY <1>1 DEF Place
<1>2. CASE can # {}
  <2>1. Place(inc, env, m, ih) = new
    BY <1>2 DEF Place
  <2>2. g \in can
    <3>1. \E h \in can : \A x \in can : Cost(inc, env, m, ih, h) <= Cost(inc, env, m, ih, x)
      BY <1>2, CheapestIsThere
    <3> HIDE DEF can
    <3> QED
      BY <3>1
  <2> HIDE DEF g
  <2>3. /\ g \in ToSet(env.hosts)
        /\ g.name \notin {m[n] : n \in Neighbours(inc, ih.name) \cap DOMAIN m}
        /\ \A s \in served(inc, ih.name) : _can_serve(env, g, s)
    BY <2>2 DEF StandIns
  <2>4. Of(env.hosts, g.name) = g /\ g.name \in Names(env.hosts)
    BY <2>3, NameIsHost, Ranges DEF EnvRight
  <2> HIDE DEF can
  <2>5. /\ DOMAIN new = DOMAIN m \cup {ih.name}
        /\ \A n \in DOMAIN m : new[n] = m[n]
        /\ ih.name \notin DOMAIN m => new[ih.name] = g.name
    BY OneMore
  <2> HIDE DEF new
  <2>6. CASE ih.name \in DOMAIN m
    BY <2>1, <2>5, <2>6 DEF MapRight
  <2>7. CASE ih.name \notin DOMAIN m
    <3>1. DOMAIN new \subseteq {h.name : h \in Internal(inc)} /\ \A n \in DOMAIN new : new[n] \in Names(env.hosts)
      BY <2>4, <2>5, <2>7 DEF MapRight
    <3>2. ASSUME NEW f \in ToSet(inc.flows), {f[1], f[2]} \subseteq DOMAIN new
          PROVE  new[f[1]] # new[f[2]]
      <4>1. f[1] # f[2]
        BY DEF IncidentRight
      <4>2. CASE f[1] = ih.name
        <5>1. f[2] \in Neighbours(inc, ih.name) \cap DOMAIN m
          BY <3>2, <4>1, <4>2, <2>5, EndsAreNeighbours
        <5> QED
          BY <5>1, <4>2, <2>3, <2>5, <2>7
      <4>3. CASE f[2] = ih.name
        <5>1. f[1] \in Neighbours(inc, ih.name) \cap DOMAIN m
          BY <3>2, <4>1, <4>3, <2>5, EndsAreNeighbours
        <5> QED
          BY <5>1, <4>3, <2>3, <2>5, <2>7
      <4>4. CASE f[1] # ih.name /\ f[2] # ih.name
        BY <3>2, <4>4, <2>5 DEF MapRight
      <4> QED
        BY <4>2, <4>3, <4>4
    <3>3. ASSUME NEW f \in ToSet(inc.flows), f[2] \in DOMAIN new, Service[f[3]] # None
          PROVE  _can_serve(env, Of(env.hosts, new[f[2]]), Service[f[3]])
      <4>1. CASE f[2] = ih.name
        <5>1. Service[f[3]] \in served(inc, ih.name)
          BY <3>3, <4>1 DEF served
        <5> QED
          BY <5>1, <4>1, <2>3, <2>4, <2>5, <2>7
      <4>2. CASE f[2] # ih.name
        BY <3>3, <4>2, <2>5 DEF MapRight
      <4> QED
        BY <4>1, <4>2
    <3> QED
      BY <2>1, <3>1, <3>2, <3>3 DEF MapRight
  <2> QED
    BY <2>6, <2>7
<1> QED
  BY <1>1, <1>2

LEMMA MapOnto ==
  ASSUME NEW inc, NEW env, IncidentRight(inc), EnvRight(env)
  PROVE  MapRight(inc, env, map_onto(inc, env))
<1> DEFINE order == TopDown(Without(inc.hosts, External(inc)))
           A == Placements(inc, env, order)
           S == {k \in Nat : k <= Len(order) => MapRight(inc, env, A[k])}
<1>1. map_onto(inc, env) = A[Len(order)]
  BY DEF map_onto
<1>2. IsSeq(order) /\ ToSet(order) \subseteq Internal(inc)
  BY TopDownHas
<1> HIDE DEF order
<1>3. Len(order) \in Nat /\ \A k \in 1 .. Len(order) : order[k] \in Internal(inc)
  BY <1>2, Ranges
<1>4. A[0] = <<>> /\ \A k \in 1 .. Len(order) : A[k] = Place(inc, env, A[k - 1], order[k])
  BY <1>3, PlacementsStep
<1> HIDE DEF A
<1>5. 0 \in S
  <2>1. MapRight(inc, env, <<>>)
    BY DEF MapRight
  <2> QED
    BY <2>1, <1>4
<1>6. ASSUME NEW m \in Nat, m \in S PROVE m + 1 \in S
  <2> SUFFICES ASSUME m + 1 <= Len(order) PROVE MapRight(inc, env, A[m + 1])
    OBVIOUS
  <2>1. PICK k \in 1 .. Len(order) : k = m + 1 /\ k - 1 = m
    BY <1>3
  <2>2. MapRight(inc, env, A[m]) /\ A[k] = Place(inc, env, A[m], order[k])
    BY <1>3, <1>4, <1>6, <2>1
  <2>3. MapRight(inc, env, A[k])
    BY <1>3, <2>2, PlaceKeeps
  <2> QED
    BY <2>1, <2>3
<1> HIDE DEF S
<1>7. Len(order) \in S
  BY <1>3, <1>5, <1>6, SetInduction
<1> QED
  BY <1>1, <1>3, <1>7 DEF S

\* Who plays the ends of an attack, in the environment env.
PlacedIn(inc, env) ==
  LET m == map_onto(inc, env)
  IN /\ \A f \in ToSet(inc.flows) :
          /\ Acting(inc, env, m, f)[1] # Acting(inc, env, m, f)[2]
          /\ f[2] \in DOMAIN m /\ Service[f[3]] # None
               => _can_serve(env, Of(env.hosts, m[f[2]]), Service[f[3]])
     /\ \A n \in DOMAIN m : ~_is_external(Of(inc.hosts, n))

LEMMA IncidentPlaced ==
  ASSUME NEW inc, NEW env, IncidentRight(inc), EnvRight(env)
  PROVE  PlacedIn(inc, env)
<1> DEFINE m == map_onto(inc, env)
<1>1. MapRight(inc, env, m)
  BY MapOnto
<1> HIDE DEF m
<1>2. ASSUME NEW n \in DOMAIN m PROVE ~_is_external(Of(inc.hosts, n))
  <2>1. PICK h \in Internal(inc) : n = h.name
    BY <1>1 DEF MapRight
  <2>2. Of(inc.hosts, n) = h
    BY <2>1, NameIsHost DEF IncidentRight, Internal
  <2> QED
    BY <2>2 DEF Internal, External
<1>3. ASSUME NEW n \in DOMAIN m
      PROVE  Resolve(inc, env, m, n).name = m[n] /\ DOMAIN Resolve(inc, env, m, n) = HostFields
  <2>1. m[n] \in Names(env.hosts)
    BY <1>1 DEF MapRight
  <2>2. Of(env.hosts, m[n]) \in ToSet(env.hosts) /\ Of(env.hosts, m[n]).name = m[n]
    BY <2>1, OfName
  <2> QED
    BY <2>2 DEF Resolve, EnvRight
<1>4. ASSUME NEW n \in Names(inc.hosts), n \notin DOMAIN m
      PROVE  Resolve(inc, env, m, n).name = n /\ DOMAIN Resolve(inc, env, m, n) # HostFields
  <2>1. Of(inc.hosts, n) \in ToSet(inc.hosts) /\ Of(inc.hosts, n).name = n
    BY OfName
  <2>2. "external" \in DOMAIN Of(inc.hosts, n)
    BY <2>1 DEF IncidentRight
  <2> QED
    BY <1>4, <2>1, <2>2 DEF Resolve, HostFields
<1>5. ASSUME NEW f \in ToSet(inc.flows)
      PROVE  Resolve(inc, env, m, f[1]) # Resolve(inc, env, m, f[2])
  <2>1. f[1] # f[2] /\ f[1] \in Names(inc.hosts) /\ f[2] \in Names(inc.hosts)
    BY DEF IncidentRight
  <2>2. {f[1], f[2]} \subseteq DOMAIN m => m[f[1]] # m[f[2]]
    BY <1>1 DEF MapRight
  <2> QED
    BY <1>3, <1>4, <2>1, <2>2
<1>6. \A f \in ToSet(inc.flows) : Acting(inc, env, m, f)[1] # Acting(inc, env, m, f)[2]
  BY <1>5 DEF Acting
<1>7. \A f \in ToSet(inc.flows) :
        f[2] \in DOMAIN m /\ Service[f[3]] # None
          => _can_serve(env, Of(env.hosts, m[f[2]]), Service[f[3]])
  BY <1>1 DEF MapRight
<1> QED
  BY <1>2, <1>6, <1>7 DEF PlacedIn, m

LEMMA PlansPlace == PlanInv => Placed
<1> SUFFICES ASSUME PlanInv PROVE Placed
  OBVIOUS
<1>1. ASSUME NEW p \in DOMAIN phases, NEW key \in ToSet(phases[p].sprinkle)
      PROVE  PlacedIn(INCIDENTS[key], phases[p].env)
  <2>1. PhaseRight(phases[p])
    BY Ranges DEF PlanInv
  <2>2. EnvRight(phases[p].env) /\ key \in DOMAIN INCIDENTS
    BY <2>1 DEF PhaseRight
  <2> QED
    BY <2>2, IncidentsRight, IncidentPlaced
<1> QED
  BY <1>1 DEF Placed, PlacedIn

\* Whatever a plan makes of the environment and whatever an incident needs: no
\* attack runs from a host to itself, who stands in for a server serves what is
\* attacked, and external hosts are nobody's role (map_onto, incidents.py).
THEOREM PlacementsCorrect == Spec => []Placed
BY PlansRight, PlansPlace, PTL

-----------------------------------------------------------------------------
(* Indexes.                                                                *)

\* What setdefault() of keys and values makes of an index.
Defaulted(known, entries, new) ==
  /\ DOMAIN new = DOMAIN known \cup UNION {e.keys : e \in ToSet(entries)}
  /\ \A x \in DOMAIN known : new[x] = known[x]
  /\ \A x \in DOMAIN new \ DOMAIN known :
       \E e \in ToSet(entries) : x \in e.keys /\ new[x] = e.value

LEMMA SetDefaultsHas ==
  ASSUME NEW known, NEW entries, IsSeq(entries)
  PROVE  Defaulted(known, entries, SetDefaults(known, entries))
<1>0. DOMAIN entries = 1 .. Len(entries) /\ Len(entries) \in Nat
  BY Ranges
<1> DEFINE having(x) == {k \in DOMAIN entries : x \in entries[k].keys}
           all == UNION {e.keys : e \in ToSet(entries)}
           more == [x \in all |-> entries[Min(having(x))].value]
           new == SetDefaults(known, entries)
<1>1. new = SetDefault(known, more)
  BY DEF SetDefaults
<1>2. ASSUME NEW x \in all
      PROVE  \E e \in ToSet(entries) : x \in e.keys /\ more[x] = e.value
  <2>1. PICK k \in DOMAIN entries : x \in entries[k].keys
    BY DEF ToSet
  <2>2. having(x) \in SUBSET Nat /\ having(x) # {}
    <3>1. DOMAIN entries \subseteq Nat
      BY <1>0
    <3> QED
      BY <2>1, <3>1
  <2>3. Min(having(x)) \in having(x)
    <3> HIDE DEF having
    <3> QED
      BY <2>2, LeastIsThere
  <2>4. entries[Min(having(x))] \in ToSet(entries) /\ x \in entries[Min(having(x))].keys
    BY <2>3 DEF ToSet
  <2>5. more[x] = entries[Min(having(x))].value
    OBVIOUS
  <2> QED
    BY <2>4, <2>5
<1>3. DOMAIN more = all
  OBVIOUS
<1> HIDE DEF more, all, new
<1>4. /\ DOMAIN new = DOMAIN known \cup DOMAIN more
      /\ \A x \in DOMAIN known : new[x] = known[x]
      /\ \A x \in DOMAIN more \ DOMAIN known : new[x] = more[x]
  BY <1>1 DEF SetDefault
<1>5. /\ DOMAIN new = DOMAIN known \cup all
      /\ \A x \in DOMAIN new \ DOMAIN known : x \in all /\ new[x] = more[x]
  BY <1>3, <1>4
<1>6. \A x \in DOMAIN new \ DOMAIN known :
        \E e \in ToSet(entries) : x \in e.keys /\ new[x] = e.value
  BY <1>2, <1>5
<1> QED
  BY <1>4, <1>5, <1>6 DEF Defaulted, new, all

LEMMA MappedIsSeq ==
  ASSUME NEW s, IsSeq(s), NEW f, f = [k \in DOMAIN s |-> f[k]]
  PROVE  IsSeq(f) /\ Len(f) = Len(s) /\ ToSet(f) = {f[k] : k \in DOMAIN s}
<1>1. DOMAIN s = 1 .. Len(s) /\ Len(s) \in Nat
  BY Ranges
<1>2. DOMAIN f = DOMAIN s
  OBVIOUS
<1> QED
  BY <1>1, <1>2, FunctionIsSeq DEF ToSet

\* Whoever an address is credited to is a host of H that has it.
Owned(known, H) ==
  \A a \in DOMAIN known : \E h \in H : a \in {h.ip, h.mac} /\ known[a] = h.name

Has(known, H) == \A h \in H : {h.ip, h.mac} \subseteq DOMAIN known

LEMMA AddressesKeep ==
  ASSUME NEW known, NEW hosts, IsSeq(hosts), NEW H, Owned(known, H), ToSet(hosts) \subseteq H
  PROVE  /\ Owned(AddressesOf(known, hosts), H)
         /\ DOMAIN known \subseteq DOMAIN AddressesOf(known, hosts)
         /\ Has(AddressesOf(known, hosts), ToSet(hosts))
<1> DEFINE es == [k \in DOMAIN hosts |-> [keys |-> {hosts[k].ip, hosts[k].mac},
                                          value |-> hosts[k].name]]
           new == AddressesOf(known, hosts)
<1>1. new = SetDefaults(known, es)
  BY DEF AddressesOf
<1>2. IsSeq(es) /\ ToSet(es) = {es[k] : k \in DOMAIN hosts}
  <2>1. es = [k \in DOMAIN hosts |-> es[k]]
    OBVIOUS
  <2> HIDE DEF es
  <2> QED
    BY <2>1, MappedIsSeq
<1>3. \A e \in ToSet(es) : \E h \in ToSet(hosts) : e.keys = {h.ip, h.mac} /\ e.value = h.name
  BY <1>2 DEF ToSet
<1>4. \A h \in ToSet(hosts) : \E e \in ToSet(es) : e.keys = {h.ip, h.mac}
  BY <1>2 DEF ToSet
<1> HIDE DEF es, new
<1>5. Defaulted(known, es, new)
  BY <1>1, <1>2, SetDefaultsHas
<1>6. Owned(new, H)
  <2> SUFFICES ASSUME NEW a \in DOMAIN new
               PROVE  \E h \in H : a \in {h.ip, h.mac} /\ new[a] = h.name
    BY DEF Owned
  <2>1. CASE a \in DOMAIN known
    BY <2>1, <1>5 DEF Owned, Defaulted
  <2>2. CASE a \notin DOMAIN known
    <3>1. PICK e \in ToSet(es) : a \in e.keys /\ new[a] = e.value
      BY <2>2, <1>5 DEF Defaulted
    <3> QED
      BY <3>1, <1>3
  <2> QED
    BY <2>1, <2>2
<1>7. Has(new, ToSet(hosts))
  <2> SUFFICES ASSUME NEW h \in ToSet(hosts) PROVE {h.ip, h.mac} \subseteq DOMAIN new
    BY DEF Has
  <2>1. PICK e \in ToSet(es) : e.keys = {h.ip, h.mac}
    BY <1>4
  <2> QED
    BY <2>1, <1>5 DEF Defaulted
<1>8. DOMAIN known \subseteq DOMAIN new
  BY <1>5 DEF Defaulted
<1> QED
  BY <1>6, <1>7, <1>8 DEF new

\* A side of a row that is named by an address has this one.
RowNamed(row) ==
  /\ row[1] \in Ips => row[3] = row[1]
  /\ row[2] \in Ips => row[4] = row[2]

\* A talk: a flow, and the hosts that its client and its server are. A row of
\* the indexes credits it to parties of P that have the addresses; a lease is
\* the environment's own, and credited to its hosts.
RowTold(t, row, P) ==
  /\ RowNamed(row)
  /\ \E p \in P : t.c.ip \in {p.ip, p.mac} /\ row[1] = p.name
  /\ \E p \in P : t.s.ip \in {p.ip, p.mac} /\ row[2] = p.name
  /\ t.g[3] = "dhcp" => row[1] = t.g[1] /\ row[2] = t.g[2]

PairsOf(t) == {<<t.g[3], t.c.ip, t.s.ip>>, <<t.g[3], t.c.mac, t.s.mac>>}
EndsOf(t) == {<<t.g[3], t.c.mac>>, <<t.g[3], t.s.mac>>}

\* Whatever is in the indexes is there for a talk of T.
FlowsTold(known, T, P) ==
  \A y \in DOMAIN known : \E t \in T : y \in PairsOf(t) /\ RowTold(t, known[y], P)
SendersTold(known, T, P) ==
  \A y \in DOMAIN known : \E t \in T : y \in EndsOf(t) /\ RowTold(t, known[y], P)

EntryOf(e, t) == e.pairs = PairsOf(t) /\ e.senders = EndsOf(t)

Covers(x, t) == PairsOf(t) \subseteq DOMAIN x.flows /\ EndsOf(t) \subseteq DOMAIN x.senders

LEMMA AddKeeps ==
  ASSUME NEW x, DOMAIN x = {"known", "flows", "senders", "arrived"},
         NEW entries, IsSeq(entries), NEW T, NEW P,
         FlowsTold(x.flows, T, P), SendersTold(x.senders, T, P),
         \A e \in ToSet(entries) : \E t \in T : EntryOf(e, t) /\ RowTold(t, e.row, P)
  PROVE  LET z == _add(x, entries)
         IN /\ DOMAIN z = DOMAIN x /\ z.known = x.known
            /\ FlowsTold(z.flows, T, P) /\ SendersTold(z.senders, T, P)
            /\ \A t : Covers(x, t) \/ (\E e \in ToSet(entries) : EntryOf(e, t)) => Covers(z, t)
<1> DEFINE fs == [k \in DOMAIN entries |-> [keys |-> entries[k].pairs, value |-> entries[k].row]]
           ss == [k \in DOMAIN entries |-> [keys |-> entries[k].senders, value |-> entries[k].row]]
           fn == FlowsOf(x.flows, entries)
           sn == SendersOf(x.senders, entries)
           z == _add(x, entries)
<1>1. fn = SetDefaults(x.flows, fs) /\ sn = SetDefaults(x.senders, ss)
  BY DEF FlowsOf, SendersOf
<1>2. IsSeq(fs) /\ ToSet(fs) = {fs[k] : k \in DOMAIN entries}
  <2>1. fs = [k \in DOMAIN entries |-> fs[k]]
    OBVIOUS
  <2> HIDE DEF fs
  <2> QED
    BY <2>1, MappedIsSeq
<1>3. IsSeq(ss) /\ ToSet(ss) = {ss[k] : k \in DOMAIN entries}
  <2>1. ss = [k \in DOMAIN entries |-> ss[k]]
    OBVIOUS
  <2> HIDE DEF ss
  <2> QED
    BY <2>1, MappedIsSeq
<1>4. /\ \A d \in ToSet(fs) : \E e \in ToSet(entries) : d.keys = e.pairs /\ d.value = e.row
      /\ \A d \in ToSet(ss) : \E e \in ToSet(entries) : d.keys = e.senders /\ d.value = e.row
  BY <1>2, <1>3 DEF ToSet
<1>5. \A e \in ToSet(entries) : /\ \E d \in ToSet(fs) : d.keys = e.pairs
                                /\ \E d \in ToSet(ss) : d.keys = e.senders
  BY <1>2, <1>3 DEF ToSet
<1>6. DOMAIN z = DOMAIN x /\ z.known = x.known /\ z.flows = fn /\ z.senders = sn
  BY DEF _add
<1> HIDE DEF fs, ss, fn, sn, z
<1>7. Defaulted(x.flows, fs, fn) /\ Defaulted(x.senders, ss, sn)
  BY <1>1, <1>2, <1>3, SetDefaultsHas
<1>8. FlowsTold(fn, T, P)
  <2> SUFFICES ASSUME NEW y \in DOMAIN fn
               PROVE  \E t \in T : y \in PairsOf(t) /\ RowTold(t, fn[y], P)
    BY DEF FlowsTold
  <2>1. CASE y \in DOMAIN x.flows
    BY <2>1, <1>7 DEF FlowsTold, Defaulted
  <2>2. CASE y \notin DOMAIN x.flows
    <3>1. PICK d \in ToSet(fs) : y \in d.keys /\ fn[y] = d.value
      BY <2>2, <1>7 DEF Defaulted
    <3>2. PICK e \in ToSet(entries) : y \in e.pairs /\ fn[y] = e.row
      BY <3>1, <1>4
    <3> QED
      BY <3>2 DEF EntryOf
  <2> QED
    BY <2>1, <2>2
<1>9. SendersTold(sn, T, P)
  <2> SUFFICES ASSUME NEW y \in DOMAIN sn
               PROVE  \E t \in T : y \in EndsOf(t) /\ RowTold(t, sn[y], P)
    BY DEF SendersTold
  <2>1. CASE y \in DOMAIN x.senders
    BY <2>1, <1>7 DEF SendersTold, Defaulted
  <2>2. CASE y \notin DOMAIN x.senders
    <3>1. PICK d \in ToSet(ss) : y \in d.keys /\ sn[y] = d.value
      BY <2>2, <1>7 DEF Defaulted
    <3>2. PICK e \in ToSet(entries) : y \in e.senders /\ sn[y] = e.row
      BY <3>1, <1>4
    <3> QED
      BY <3>2 DEF EntryOf
  <2> QED
    BY <2>1, <2>2
<1>10. ASSUME NEW e \in ToSet(entries)
       PROVE  e.pairs \subseteq DOMAIN fn /\ e.senders \subseteq DOMAIN sn
  <2>1. PICK d \in ToSet(fs), c \in ToSet(ss) : d.keys = e.pairs /\ c.keys = e.senders
    BY <1>5
  <2> QED
    BY <2>1, <1>7 DEF Defaulted
<1>11. DOMAIN x.flows \subseteq DOMAIN fn /\ DOMAIN x.senders \subseteq DOMAIN sn
  BY <1>7 DEF Defaulted
<1>12. ASSUME NEW t, Covers(x, t) \/ \E e \in ToSet(entries) : EntryOf(e, t)
       PROVE  Covers(z, t)
  BY <1>6, <1>10, <1>11, <1>12 DEF Covers, EntryOf
<1> QED
  BY <1>6, <1>8, <1>9, <1>12 DEF z

-----------------------------------------------------------------------------
(* Who talks to whom in a phase.                                           *)

\* The hosts of a phase, and those that its incidents bring.
HostsOf(ph) ==
  ToSet(ph.env.hosts)
  \cup UNION {ToSet(unmapped_hosts(INCIDENTS[k], ph.env)) : k \in ToSet(ph.sprinkle)}

\* What incidents bring: internal hosts that none stands in for.
LEMMA UnmappedAre ==
  ASSUME NEW inc, NEW env, IncidentRight(inc)
  PROVE  /\ IsSeq(unmapped_hosts(inc, env))
         /\ ToSet(unmapped_hosts(inc, env))
              = {h \in Internal(inc) : h.name \notin DOMAIN map_onto(inc, env)}
<1> DEFINE m == map_onto(inc, env)
           out == External(inc) \cup {h \in ToSet(inc.hosts) : h.name \in DOMAIN m}
<1>1. unmapped_hosts(inc, env) = Without(inc.hosts, out)
  BY DEF unmapped_hosts
<1> HIDE DEF m
<1>2. IsSeq(Without(inc.hosts, out)) /\ ToSet(Without(inc.hosts, out)) = ToSet(inc.hosts) \ out
  <2> HIDE DEF out
  <2> QED
    BY WithoutHas DEF IncidentRight
<1> QED
  BY <1>1, <1>2 DEF Internal, m

\* Whoever plays a host of an incident: a host of the environment, one that the
\* incident brings, or an external one, which goes by its address.
LEMMA Actors ==
  ASSUME NEW inc, NEW env, IncidentRight(inc), EnvRight(env), NEW n \in Names(inc.hosts)
  PROVE  LET m == map_onto(inc, env)
             h == Resolve(inc, env, m, n)
         IN \/ /\ h \in ToSet(env.hosts) \cup ToSet(unmapped_hosts(inc, env))
               /\ Called(inc, env, m, n) = h.name
            \/ h \in External(inc) /\ Called(inc, env, m, n) = h.ip
<1> DEFINE m == map_onto(inc, env)
           h == Resolve(inc, env, m, n)
           x == Of(inc.hosts, n)
           new == unmapped_hosts(inc, env)
           called == Called(inc, env, m, n)
<1> SUFFICES \/ h \in ToSet(env.hosts) \cup ToSet(new) /\ called = h.name
             \/ h \in External(inc) /\ called = h.ip
  OBVIOUS
<1>1. MapRight(inc, env, m)
  BY MapOnto
<1>2. x \in ToSet(inc.hosts) /\ x.name = n
  BY OfName
<1>3. ToSet(new) = {y \in Internal(inc) : y.name \notin DOMAIN m}
  BY UnmappedAre
<1>4. called = IF _is_external(x) THEN h.ip ELSE h.name
  BY DEF Called
<1>5. CASE n \in DOMAIN m
  <2>1. h = Of(env.hosts, m[n]) /\ m[n] \in Names(env.hosts)
    BY <1>1, <1>5 DEF MapRight, Resolve
  <2>2. h \in ToSet(env.hosts)
    BY <2>1, OfName
  <2>3. PICK y \in Internal(inc) : y.name = n
    BY <1>1, <1>5 DEF MapRight
  <2>4. y = x
    BY <2>3, NameIsHost DEF Internal, IncidentRight
  <2>5. ~_is_external(x)
    BY <2>3, <2>4 DEF Internal, External
  <2> HIDE DEF h, x, called, new
  <2> QED
    BY <1>4, <2>2, <2>5
<1>6. CASE n \notin DOMAIN m
  <2>1. h = x
    BY <1>6 DEF Resolve
  <2> HIDE DEF h, m, x, called, new
  <2>2. CASE _is_external(x)
    BY <1>2, <1>4, <2>1, <2>2 DEF External
  <2>3. CASE ~_is_external(x)
    <3>1. x \in Internal(inc) /\ x.name \notin DOMAIN m
      BY <1>2, <1>6, <2>3 DEF Internal, External
    <3> QED
      BY <3>1, <1>3, <1>4, <2>1, <2>3
  <2> QED
    BY <2>2, <2>3
<1> QED
  BY <1>5, <1>6

\* Those of a phase, by what the manifest calls them.
PartiesOf(ph) ==
  HostsOf(ph) \cup UNION {Outsiders(INCIDENTS[k]) : k \in ToSet(ph.sprinkle)}

\* Conversations, and the flows of incidents.
Converses(env) ==
  {[g |-> f, c |-> Of(env.hosts, f[1]), s |-> Of(env.hosts, f[2])] : f \in ToSet(env.flows)}
Rides(env, key) ==
  {[g |-> a.conv, c |-> a.ends[1], s |-> a.ends[2]] : a \in Attacks(env, key)}
TalksOf(ph) == Converses(ph.env) \cup UNION {Rides(ph.env, k) : k \in ToSet(ph.sprinkle)}

\* A party of P has the addresses of h, and is called n.
Side(h, n, P) == \E p \in P : p.ip = h.ip /\ p.mac = h.mac /\ p.name = n

\* IPs are IPs, MACs are not, and leases are between hosts of segments.
TalkRight(t, P) ==
  /\ Side(t.c, t.g[1], P) /\ Side(t.s, t.g[2], P)
  /\ {t.c.ip, t.s.ip} \subseteq Ips /\ t.c.mac \notin Ips /\ t.s.mac \notin Ips
  /\ t.g[3] = "dhcp" => {t.c.ip, t.s.ip} \subseteq DOMAIN Zone

LEMMA ConversesRight ==
  ASSUME NEW env, EnvRight(env), NEW P, ToSet(env.hosts) \subseteq P, NEW t \in Converses(env)
  PROVE  /\ TalkRight(t, P) /\ t.g \in ToSet(env.flows)
         /\ t.c.name = t.g[1] /\ t.s.name = t.g[2] /\ {t.c, t.s} \subseteq ToSet(env.hosts)
<1>1. PICK f \in ToSet(env.flows) :
        t = [g |-> f, c |-> Of(env.hosts, f[1]), s |-> Of(env.hosts, f[2])]
  BY DEF Converses
<1>2. f[1] \in Names(env.hosts) /\ f[2] \in Names(env.hosts)
  BY DEF EnvRight
<1>3. /\ t.g = f /\ t.c = Of(env.hosts, f[1]) /\ t.s = Of(env.hosts, f[2])
      /\ t.c \in ToSet(env.hosts) /\ t.c.name = f[1]
      /\ t.s \in ToSet(env.hosts) /\ t.s.name = f[2]
  BY <1>1, <1>2, OfName
<1>4. \A h \in {t.c, t.s} : h.ip \in DOMAIN Zone /\ h.mac \notin Ips /\ h.ip \in Ips
  BY <1>3 DEF EnvRight, Ips
<1> QED
  BY <1>3, <1>4 DEF TalkRight, Side

\* An incident's parties, where they act.
Acts(h, n, inc, env) ==
  \/ h \in ToSet(env.hosts) \cup ToSet(unmapped_hosts(inc, env)) /\ n = h.name
  \/ h \in External(inc) /\ n = h.ip

LEMMA RidesAre ==
  ASSUME NEW key \in DOMAIN INCIDENTS, NEW env, EnvRight(env)
  PROVE  LET inc == INCIDENTS[key]
             m == map_onto(inc, env)
         IN \A w \in ToSet(inc.flows) :
              LET t == [g |-> <<Called(inc, env, m, w[1]), Called(inc, env, m, w[2]), w[3]>>,
                        c |-> Resolve(inc, env, m, w[1]), s |-> Resolve(inc, env, m, w[2])]
              IN /\ t \in Rides(env, key)
                 /\ Acts(t.c, t.g[1], inc, env) /\ Acts(t.s, t.g[2], inc, env)
                 /\ t.g[3] # "dhcp"
<1> DEFINE inc == INCIDENTS[key]
           m == map_onto(inc, env)
<1> SUFFICES ASSUME NEW w \in ToSet(inc.flows)
             PROVE  LET t == [g |-> <<Called(inc, env, m, w[1]), Called(inc, env, m, w[2]), w[3]>>,
                              c |-> Resolve(inc, env, m, w[1]), s |-> Resolve(inc, env, m, w[2])]
                    IN /\ t \in Rides(env, key)
                       /\ Acts(t.c, t.g[1], inc, env) /\ Acts(t.s, t.g[2], inc, env)
                       /\ t.g[3] # "dhcp"
  OBVIOUS
<1>1. IncidentRight(inc)
  BY IncidentsRight
<1>2. w[1] \in Names(inc.hosts) /\ w[2] \in Names(inc.hosts)
  BY <1>1 DEF IncidentRight
<1>3. \A n \in {w[1], w[2]} : Acts(Resolve(inc, env, m, n), Called(inc, env, m, n), inc, env)
  BY <1>1, <1>2, Actors DEF Acts
<1>4. w[3] # "dhcp"
  BY AddressesAssumption
<1> DEFINE a == [conv |-> <<Called(inc, env, m, w[1]), Called(inc, env, m, w[2]), w[3]>>,
                 ends |-> <<Resolve(inc, env, m, w[1]), Resolve(inc, env, m, w[2])>>]
<1>5. a \in Attacks(env, key)
  BY DEF Attacks, Acting
<1>6. [g |-> a.conv, c |-> a.ends[1], s |-> a.ends[2]] \in Rides(env, key)
  BY <1>5 DEF Rides
<1> QED
  BY <1>3, <1>4, <1>6

\* Each is one of the incident's flows.
LEMMA RidesOnly ==
  ASSUME NEW key, NEW env, NEW t \in Rides(env, key)
  PROVE  LET inc == INCIDENTS[key]
             m == map_onto(inc, env)
         IN \E w \in ToSet(inc.flows) :
              t = [g |-> <<Called(inc, env, m, w[1]), Called(inc, env, m, w[2]), w[3]>>,
                   c |-> Resolve(inc, env, m, w[1]), s |-> Resolve(inc, env, m, w[2])]
<1> DEFINE inc == INCIDENTS[key]
           m == map_onto(inc, env)
<1>1. PICK a \in Attacks(env, key) : t = [g |-> a.conv, c |-> a.ends[1], s |-> a.ends[2]]
  BY DEF Rides
<1>2. PICK w \in ToSet(inc.flows) :
        /\ a.conv = <<Called(inc, env, m, w[1]), Called(inc, env, m, w[2]), w[3]>>
        /\ a.ends = <<Resolve(inc, env, m, w[1]), Resolve(inc, env, m, w[2])>>
  BY DEF Attacks, Acting
<1>3. t = [g |-> <<Called(inc, env, m, w[1]), Called(inc, env, m, w[2]), w[3]>>,
           c |-> Resolve(inc, env, m, w[1]), s |-> Resolve(inc, env, m, w[2])]
  BY <1>1, <1>2
<1> QED
  BY <1>3

LEMMA ActsRight ==
  ASSUME NEW key \in DOMAIN INCIDENTS, NEW env, EnvRight(env), NEW P,
         ToSet(env.hosts) \cup ToSet(unmapped_hosts(INCIDENTS[key], env))
           \cup Outsiders(INCIDENTS[key]) \subseteq P,
         NEW h, NEW n, Acts(h, n, INCIDENTS[key], env)
  PROVE  Side(h, n, P) /\ h.ip \in Ips /\ h.mac \notin Ips
<1> DEFINE inc == INCIDENTS[key]
<1>1. IncidentRight(inc)
  BY IncidentsRight
<1>2. ToSet(unmapped_hosts(inc, env)) \subseteq ToSet(inc.hosts)
  BY <1>1, UnmappedAre DEF Internal
<1>3. \A x \in ToSet(inc.hosts) : x.ip \in Ips /\ x.mac \notin Ips
  BY AddressesAssumption DEF Ips
<1>4. \A x \in ToSet(env.hosts) : x.ip \in Ips /\ x.mac \notin Ips
  BY DEF EnvRight, Ips
<1>5. CASE h \in ToSet(env.hosts) \cup ToSet(unmapped_hosts(inc, env)) /\ n = h.name
  BY <1>2, <1>3, <1>4, <1>5 DEF Side
<1>6. CASE h \in External(inc) /\ n = h.ip
  <2>1. [name |-> h.ip, ip |-> h.ip, mac |-> h.mac] \in P
    BY <1>6 DEF Outsiders
  <2> QED
    BY <2>1, <1>3, <1>6 DEF Side, External
<1> QED
  BY <1>5, <1>6 DEF Acts

LEMMA TalksRight ==
  ASSUME NEW ph, PhaseRight(ph), NEW t \in TalksOf(ph)
  PROVE  TalkRight(t, PartiesOf(ph))
<1>1. CASE t \in Converses(ph.env)
  BY <1>1, ConversesRight DEF PhaseRight, PartiesOf, HostsOf
<1>2. CASE \E k \in ToSet(ph.sprinkle) : t \in Rides(ph.env, k)
  <2>1. PICK key \in ToSet(ph.sprinkle) : t \in Rides(ph.env, key)
    BY <1>2
  <2> DEFINE inc == INCIDENTS[key]
  <2>2. key \in DOMAIN INCIDENTS /\ EnvRight(ph.env)
    BY DEF PhaseRight
  <2>3. /\ Acts(t.c, t.g[1], inc, ph.env) /\ Acts(t.s, t.g[2], inc, ph.env)
        /\ t.g[3] # "dhcp"
    BY <2>1, <2>2, RidesAre, RidesOnly
  <2>4. ToSet(ph.env.hosts) \cup ToSet(unmapped_hosts(inc, ph.env)) \cup Outsiders(inc)
          \subseteq PartiesOf(ph)
    BY DEF PartiesOf, HostsOf
  <2> HIDE DEF inc
  <2>5. \A h, n : Acts(h, n, inc, ph.env) =>
                   Side(h, n, PartiesOf(ph)) /\ h.ip \in Ips /\ h.mac \notin Ips
    BY <2>2, <2>4, ActsRight DEF inc
  <2> QED
    BY <2>3, <2>5 DEF TalkRight
<1> QED
  BY <1>1, <1>2 DEF TalksOf

-----------------------------------------------------------------------------
(* What the indexes hold.                                                  *)

LEMMA ConversationsEntered ==
  ASSUME NEW env, EnvRight(env), NEW P, ToSet(env.hosts) \subseteq P
  PROVE  LET es == Conversations(env)
         IN /\ IsSeq(es)
            /\ \A e \in ToSet(es) : \E t \in Converses(env) : EntryOf(e, t) /\ RowTold(t, e.row, P)
            /\ \A t \in Converses(env) : \E e \in ToSet(es) : EntryOf(e, t)
<1> DEFINE es == Conversations(env)
           entry(f) == Entry(f[3], Of(env.hosts, f[1]), Of(env.hosts, f[2]), f[1], f[2])
           talk(f) == [g |-> f, c |-> Of(env.hosts, f[1]), s |-> Of(env.hosts, f[2])]
<1>1. es = [k \in DOMAIN env.flows |-> entry(env.flows[k])]
  BY DEF Conversations
<1>2. IsSeq(es) /\ ToSet(es) = {entry(f) : f \in ToSet(env.flows)}
  <2>1. IsSeq(es) /\ ToSet(es) = {es[k] : k \in DOMAIN env.flows}
    <3> HIDE DEF entry
    <3>1. es = [k \in DOMAIN env.flows |-> es[k]]
      BY <1>1
    <3> HIDE DEF es
    <3> QED
      BY <3>1, MappedIsSeq DEF EnvRight
  <2>2. {es[k] : k \in DOMAIN env.flows} = {entry(env.flows[k]) : k \in DOMAIN env.flows}
    <3> HIDE DEF entry
    <3> QED
      BY <1>1
  <2> HIDE DEF entry, es
  <2> QED
    BY <2>1, <2>2 DEF ToSet
<1>3. ASSUME NEW f \in ToSet(env.flows)
      PROVE  /\ talk(f) \in Converses(env) /\ EntryOf(entry(f), talk(f))
             /\ RowTold(talk(f), entry(f).row, P)
  <2> DEFINE c == Of(env.hosts, f[1])
             s == Of(env.hosts, f[2])
  <2>1. talk(f) \in Converses(env)
    BY DEF Converses
  <2>2. /\ c \in ToSet(env.hosts) /\ c.name = f[1] /\ s \in ToSet(env.hosts) /\ s.name = f[2]
        /\ f[1] \notin Ips /\ f[2] \notin Ips
    <3>1. f[1] \in Names(env.hosts) /\ f[2] \in Names(env.hosts)
      BY DEF EnvRight
    <3>2. c \in ToSet(env.hosts) /\ c.name = f[1] /\ s \in ToSet(env.hosts) /\ s.name = f[2]
      BY <3>1, OfName
    <3>3. f[1] \in HostNames /\ f[2] \in HostNames
      BY <3>2 DEF EnvRight
    <3> QED
      BY <3>2, <3>3, NamesAreNames
  <2> DEFINE e == entry(f)
             t == talk(f)
  <2>3. /\ e = [pairs |-> {<<f[3], c.ip, s.ip>>, <<f[3], c.mac, s.mac>>},
                senders |-> {<<f[3], c.mac>>, <<f[3], s.mac>>},
                row |-> <<f[1], f[2], c.ip, s.ip>>]
        /\ t.g = f /\ t.c = c /\ t.s = s
    BY DEF Entry
  <2> HIDE DEF c, s, e, t
  <2>4. EntryOf(e, t)
    BY <2>3 DEF EntryOf, PairsOf, EndsOf
  <2>5. e.row[1] = f[1] /\ e.row[2] = f[2]
    BY <2>3
  <2>6. RowTold(t, e.row, P)
    BY <2>2, <2>3, <2>5 DEF RowTold, RowNamed
  <2> QED
    BY <2>1, <2>4, <2>6 DEF e, t
<1>4. Converses(env) = {talk(f) : f \in ToSet(env.flows)}
  BY DEF Converses
<1> HIDE DEF entry, talk, es
<1> QED
  BY <1>2, <1>3, <1>4 DEF es

\* Indexes that tell the truth: of hosts of H, of talks of T.
IndexRight(x, H, T, P) ==
  /\ DOMAIN x = {"known", "flows", "senders", "arrived"}
  /\ Owned(x.known, H) /\ FlowsTold(x.flows, T, P) /\ SendersTold(x.senders, T, P)

LEMMA IndexOfKeeps ==
  ASSUME NEW env, EnvRight(env), NEW H, NEW T, NEW P, H \subseteq P,
         ToSet(env.hosts) \subseteq H, Converses(env) \subseteq T,
         NEW x, IndexRight(x, H, T, P)
  PROVE  LET z == IndexOf(x, env)
         IN /\ IndexRight(z, H, T, P)
            /\ DOMAIN x.known \subseteq DOMAIN z.known /\ Has(z.known, ToSet(env.hosts))
            /\ \A t : Covers(x, t) \/ t \in Converses(env) => Covers(z, t)
<1> DEFINE y == [x EXCEPT !.known = AddressesOf(x.known, env.hosts)]
           es == Conversations(env)
           z == IndexOf(x, env)
<1>1. z = _add(y, es)
  BY DEF IndexOf
<1>2. /\ DOMAIN y = DOMAIN x /\ y.known = AddressesOf(x.known, env.hosts)
      /\ y.flows = x.flows /\ y.senders = x.senders
  BY DEF IndexRight
<1>3. /\ IsSeq(es)
      /\ \A e \in ToSet(es) : \E t \in Converses(env) : EntryOf(e, t) /\ RowTold(t, e.row, P)
      /\ \A t \in Converses(env) : \E e \in ToSet(es) : EntryOf(e, t)
  BY ConversationsEntered
<1> HIDE DEF y, es, z
<1>4. /\ Owned(y.known, H) /\ DOMAIN x.known \subseteq DOMAIN y.known
      /\ Has(y.known, ToSet(env.hosts))
  BY <1>2, AddressesKeep DEF IndexRight, EnvRight
<1>5. \A e \in ToSet(es) : \E t \in T : EntryOf(e, t) /\ RowTold(t, e.row, P)
  BY <1>3
<1>6. /\ DOMAIN z = DOMAIN y /\ z.known = y.known
      /\ FlowsTold(z.flows, T, P) /\ SendersTold(z.senders, T, P)
      /\ \A t : Covers(y, t) \/ (\E e \in ToSet(es) : EntryOf(e, t)) => Covers(z, t)
  BY <1>1, <1>2, <1>3, <1>5, AddKeeps DEF IndexRight
<1>7. IndexRight(z, H, T, P)
  BY <1>2, <1>4, <1>6 DEF IndexRight
<1>8. \A t : Covers(x, t) => Covers(y, t)
  BY <1>2 DEF Covers
<1>9. \A t : Covers(x, t) \/ t \in Converses(env) => Covers(z, t)
  BY <1>3, <1>6, <1>8
<1> QED
  BY <1>4, <1>6, <1>7, <1>9 DEF z

LEMMA RidesEntered ==
  ASSUME NEW key \in DOMAIN INCIDENTS, NEW env, EnvRight(env), NEW H, NEW P, H \subseteq P,
         \A h \in H : h.name \notin Ips,
         NEW known, Owned(known, H),
         Has(known, ToSet(env.hosts) \cup ToSet(unmapped_hosts(INCIDENTS[key], env))),
         Outsiders(INCIDENTS[key]) \subseteq P
  PROVE  LET es == IncidentFlows(INCIDENTS[key], env, known)
         IN /\ IsSeq(es)
            /\ \A e \in ToSet(es) : \E t \in Rides(env, key) : EntryOf(e, t) /\ RowTold(t, e.row, P)
            /\ \A t \in Rides(env, key) : \E e \in ToSet(es) : EntryOf(e, t)
<1> DEFINE inc == INCIDENTS[key]
           m == map_onto(inc, env)
           c(f) == Resolve(inc, env, m, f[1])
           s(f) == Resolve(inc, env, m, f[2])
           called(h) == Get(known, h.ip, h.ip)
           entry(f) == Entry(f[3], c(f), s(f), called(c(f)), called(s(f)))
           talk(f) == [g |-> <<Called(inc, env, m, f[1]), Called(inc, env, m, f[2]), f[3]>>,
                       c |-> c(f), s |-> s(f)]
           es == IncidentFlows(inc, env, known)
<1>1. es = [k \in DOMAIN inc.flows |-> entry(inc.flows[k])]
  BY DEF IncidentFlows
<1>0. IncidentRight(inc)
  BY IncidentsRight
<1>2. IsSeq(es) /\ ToSet(es) = {entry(f) : f \in ToSet(inc.flows)}
  <2>0. IsSeq(inc.flows)
    BY <1>0 DEF IncidentRight
  <2> HIDE DEF inc
  <2>1. IsSeq(es) /\ ToSet(es) = {es[k] : k \in DOMAIN inc.flows}
    <3> HIDE DEF entry
    <3>1. es = [k \in DOMAIN inc.flows |-> es[k]]
      BY <1>1
    <3> HIDE DEF es
    <3> QED
      BY <3>1, <2>0, MappedIsSeq
  <2>2. {es[k] : k \in DOMAIN inc.flows} = {entry(inc.flows[k]) : k \in DOMAIN inc.flows}
    <3> HIDE DEF entry
    <3> QED
      BY <1>1
  <2> HIDE DEF entry, es
  <2> QED
    BY <2>1, <2>2 DEF ToSet
\* Whoever acts is credited to a party that has its address.
<1>3. ASSUME NEW h, NEW n, Acts(h, n, inc, env)
      PROVE  /\ \E p \in P : h.ip \in {p.ip, p.mac} /\ called(h) = p.name
             /\ called(h) \in Ips => called(h) = h.ip
  <2>1. CASE h.ip \in DOMAIN known
    <3>1. called(h) = known[h.ip]
      BY <2>1 DEF Get
    <3> QED
      BY <2>1, <3>1 DEF Owned
  <2>2. CASE h.ip \notin DOMAIN known
    <3>1. h \in External(inc)
      BY <1>3, <2>2 DEF Acts, Has
    <3>2. [name |-> h.ip, ip |-> h.ip, mac |-> h.mac] \in P
      BY <3>1 DEF Outsiders
    <3>3. called(h) = h.ip
      BY <2>2 DEF Get
    <3> QED
      BY <3>2, <3>3
  <2> QED
    BY <2>1, <2>2
<1>4. ASSUME NEW f \in ToSet(inc.flows)
      PROVE  /\ talk(f) \in Rides(env, key) /\ EntryOf(entry(f), talk(f))
             /\ RowTold(talk(f), entry(f).row, P)
  <2> DEFINE t == talk(f)
             e == entry(f)
  <2>1. /\ t \in Rides(env, key) /\ t.g[3] # "dhcp"
        /\ Acts(t.c, t.g[1], inc, env) /\ Acts(t.s, t.g[2], inc, env)
    BY RidesAre
  <2>2. /\ t.c = c(f) /\ t.s = s(f) /\ t.g[3] = f[3]
    OBVIOUS
  <2>3. e = [pairs |-> {<<f[3], c(f).ip, s(f).ip>>, <<f[3], c(f).mac, s(f).mac>>},
             senders |-> {<<f[3], c(f).mac>>, <<f[3], s(f).mac>>},
             row |-> <<called(c(f)), called(s(f)), c(f).ip, s(f).ip>>]
    BY DEF Entry
  <2> HIDE DEF c, s, t, e, called, inc
  <2>4. EntryOf(e, t)
    BY <2>2, <2>3 DEF EntryOf, PairsOf, EndsOf
  <2>5. /\ e.row[1] = called(t.c) /\ e.row[2] = called(t.s)
        /\ e.row[3] = t.c.ip /\ e.row[4] = t.s.ip
    BY <2>2, <2>3
  <2>6. RowTold(t, e.row, P)
    BY <1>3, <2>1, <2>5 DEF RowTold, RowNamed
  <2> QED
    BY <2>1, <2>4, <2>6 DEF t, e
<1>5. \A t \in Rides(env, key) : \E f \in ToSet(inc.flows) : t = talk(f)
  BY RidesOnly
<1> HIDE DEF entry, talk, es
<1>6. \A e \in ToSet(es) : \E t \in Rides(env, key) : EntryOf(e, t) /\ RowTold(t, e.row, P)
  <2> SUFFICES ASSUME NEW e \in ToSet(es)
               PROVE  \E t \in Rides(env, key) : EntryOf(e, t) /\ RowTold(t, e.row, P)
    OBVIOUS
  <2>1. PICK f \in ToSet(inc.flows) : e = entry(f)
    BY <1>2
  <2> QED
    BY <2>1, <1>4
<1>7. \A t \in Rides(env, key) : \E e \in ToSet(es) : EntryOf(e, t)
  <2> SUFFICES ASSUME NEW t \in Rides(env, key) PROVE \E e \in ToSet(es) : EntryOf(e, t)
    OBVIOUS
  <2>1. PICK f \in ToSet(inc.flows) : t = talk(f)
    BY <1>5
  <2>2. entry(f) \in ToSet(es)
    BY <1>2
  <2> QED
    BY <2>1, <2>2, <1>4
<1> QED
  BY <1>2, <1>6, <1>7 DEF es

LEMMA IncidentKeeps ==
  ASSUME NEW key \in DOMAIN INCIDENTS, NEW env, EnvRight(env),
         NEW H, NEW T, NEW P, H \subseteq P, \A h \in H : h.name \notin Ips,
         ToSet(unmapped_hosts(INCIDENTS[key], env)) \subseteq H,
         Outsiders(INCIDENTS[key]) \subseteq P, Rides(env, key) \subseteq T,
         NEW x, IndexRight(x, H, T, P), Has(x.known, ToSet(env.hosts))
  PROVE  LET new == ToSet(unmapped_hosts(INCIDENTS[key], env))
             z == _index_incident(x, env, INCIDENTS[key])
         IN /\ IndexRight(z, H, T, P)
            /\ DOMAIN x.known \subseteq DOMAIN z.known /\ Has(z.known, new)
            /\ \A t : Covers(x, t) \/ t \in Rides(env, key) => Covers(z, t)
<1> DEFINE inc == INCIDENTS[key]
           new == unmapped_hosts(inc, env)
           y == Arrived(x, new)
           es == IncidentFlows(inc, env, y.known)
           z == _index_incident(x, env, inc)
<1>1. z = _add(y, es)
  BY DEF _index_incident
<1>2. /\ DOMAIN y = DOMAIN x /\ y.known = AddressesOf(x.known, new)
      /\ y.flows = x.flows /\ y.senders = x.senders
  BY DEF IndexRight, Arrived
<1>3. IsSeq(new)
  BY IncidentsRight, UnmappedAre
<1> HIDE DEF y, z
<1>4. /\ Owned(y.known, H) /\ DOMAIN x.known \subseteq DOMAIN y.known
      /\ Has(y.known, ToSet(new))
  <2> HIDE DEF new
  <2>1. ToSet(new) \subseteq H
    BY DEF new
  <2> QED
    BY <1>2, <1>3, <2>1, AddressesKeep DEF IndexRight
<1>5. Has(y.known, ToSet(env.hosts) \cup ToSet(new))
  BY <1>4 DEF Has
<1>6. /\ IsSeq(es)
      /\ \A e \in ToSet(es) : \E t \in Rides(env, key) : EntryOf(e, t) /\ RowTold(t, e.row, P)
      /\ \A t \in Rides(env, key) : \E e \in ToSet(es) : EntryOf(e, t)
  BY <1>4, <1>5, RidesEntered
<1> HIDE DEF es, new
<1>7. \A e \in ToSet(es) : \E t \in T : EntryOf(e, t) /\ RowTold(t, e.row, P)
  BY <1>6
<1>8. /\ DOMAIN z = DOMAIN y /\ z.known = y.known
      /\ FlowsTold(z.flows, T, P) /\ SendersTold(z.senders, T, P)
      /\ \A t : Covers(y, t) \/ (\E e \in ToSet(es) : EntryOf(e, t)) => Covers(z, t)
  BY <1>1, <1>2, <1>6, <1>7, AddKeeps DEF IndexRight
<1>9. IndexRight(z, H, T, P)
  BY <1>2, <1>4, <1>8 DEF IndexRight
<1>10. \A t : Covers(x, t) => Covers(y, t)
  BY <1>2 DEF Covers
<1>11. \A t : Covers(x, t) \/ t \in Rides(env, key) => Covers(z, t)
  BY <1>6, <1>8, <1>10
<1> QED
  BY <1>4, <1>8, <1>9, <1>11 DEF z, new

\* The calls of a phase, one after the other.
Indexes == [known |-> addr_aid, flows |-> flowidx, senders |-> l2src, arrived |-> new_assets]

IndexedOf(g, env, sprinkle, n) ==
  [k \in 0 .. n |-> IF k = 0 THEN IndexOf(Indexes, env)
                    ELSE _index_incident(g[k - 1], env, INCIDENTS[sprinkle[k]])]

LEMMA IndexedExists ==
  ASSUME NEW env, NEW sprinkle, NEW n \in Nat
  PROVE  \E g : g = IndexedOf(g, env, sprinkle, n)
<1> DEFINE first == IndexOf(Indexes, env)
           step(x, k) == _index_incident(x, env, INCIDENTS[sprinkle[k]])
           S == {m \in Nat : \E g : g = IndexedOf(g, env, sprinkle, m)}
<1>0. \A g, m : IndexedOf(g, env, sprinkle, m)
                  = [k \in 0 .. m |-> IF k = 0 THEN first ELSE step(g[k - 1], k)]
  BY DEF IndexedOf
<1> HIDE DEF first, step
<1>1. 0 \in S
  <2> DEFINE g == [k \in 0 .. 0 |-> first]
  <2>1. g = IndexedOf(g, env, sprinkle, 0)
    BY <1>0
  <2> QED
    BY <2>1
<1>2. ASSUME NEW m \in Nat, m \in S PROVE m + 1 \in S
  <2>1. PICK g : g = IndexedOf(g, env, sprinkle, m)
    BY <1>2
  <2> DEFINE h == [k \in 0 .. m + 1 |-> IF k = m + 1 THEN step(g[m], m + 1) ELSE g[k]]
  <2>2. ASSUME NEW k \in 0 .. m + 1
        PROVE  h[k] = IF k = 0 THEN first ELSE step(h[k - 1], k)
    <3>1. CASE k = m + 1
      BY <3>1
    <3>2. CASE k # m + 1
      <4>1. k \in 0 .. m /\ (k # 0 => k - 1 \in 0 .. m)
        BY <3>2
      <4>2. g[k] = IF k = 0 THEN first ELSE step(g[k - 1], k)
        BY <2>1, <4>1, <1>0
      <4>3. h[k] = g[k] /\ (k # 0 => h[k - 1] = g[k - 1])
        BY <4>1
      <4> QED
        BY <4>2, <4>3
    <3> QED
      BY <3>1, <3>2
  <2>3. h = [k \in 0 .. m + 1 |-> IF k = 0 THEN first ELSE step(h[k - 1], k)]
    BY <2>2
  <2> HIDE DEF h
  <2>4. h = IndexedOf(h, env, sprinkle, m + 1)
    BY <2>3, <1>0
  <2> QED
    BY <2>4
<1> HIDE DEF S
<1>3. n \in S
  BY <1>1, <1>2, SetInduction
<1> QED
  BY <1>3 DEF S

LEMMA IndexedStep ==
  ASSUME NEW env, NEW sprinkle, Len(sprinkle) \in Nat
  PROVE  LET A == Indexed(env, sprinkle)
         IN /\ A[0] = IndexOf(Indexes, env)
            /\ \A k \in 1 .. Len(sprinkle) :
                 A[k] = _index_incident(A[k - 1], env, INCIDENTS[sprinkle[k]])
<1> DEFINE A == Indexed(env, sprinkle)
<1>1. A = IndexedOf(A, env, sprinkle, Len(sprinkle))
  <2>1. \E g : g = IndexedOf(g, env, sprinkle, Len(sprinkle))
    BY IndexedExists
  <2>2. A = CHOOSE g : g = IndexedOf(g, env, sprinkle, Len(sprinkle))
    BY DEF Indexed, IndexedOf, Indexes
  <2> HIDE DEF A
  <2> QED
    BY <2>1, <2>2, Zenon
<1> HIDE DEF A
<1>2. A[0] = IndexOf(Indexes, env)
  BY <1>1 DEF IndexedOf
<1>3. ASSUME NEW k \in 1 .. Len(sprinkle)
      PROVE  A[k] = _index_incident(A[k - 1], env, INCIDENTS[sprinkle[k]])
  <2>1. k \in 0 .. Len(sprinkle) /\ k # 0
    OBVIOUS
  <2>2. IndexedOf(A, env, sprinkle, Len(sprinkle))[k]
          = _index_incident(A[k - 1], env, INCIDENTS[sprinkle[k]])
    BY <2>1 DEF IndexedOf
  <2> QED
    BY <1>1, <2>2
<1> QED
  BY <1>2, <1>3 DEF A

\* A phase that is indexed: all of its addresses and of its talks are in, and what
\* the indexes hold is still true.
LEMMA IndexKeeps ==
  ASSUME NEW ph, PhaseRight(ph), NEW H, NEW T, NEW P, H \subseteq P,
         \A h \in H : h.name \notin Ips, HostsOf(ph) \subseteq H, PartiesOf(ph) \subseteq P, TalksOf(ph) \subseteq T,
         IndexRight(Indexes, H, T, P)
  PROVE  LET z == Indexed(ph.env, ph.sprinkle)[Len(ph.sprinkle)]
         IN /\ IndexRight(z, H, T, P)
            /\ DOMAIN addr_aid \subseteq DOMAIN z.known /\ Has(z.known, HostsOf(ph))
            /\ \A t : Covers(Indexes, t) \/ t \in TalksOf(ph) => Covers(z, t)
<1> DEFINE A == Indexed(ph.env, ph.sprinkle)
           n == Len(ph.sprinkle)
           inc(k) == INCIDENTS[ph.sprinkle[k]]
           more(k) == ToSet(unmapped_hosts(inc(k), ph.env))
           rides(k) == Rides(ph.env, ph.sprinkle[k])
           to(k) == ToSet(ph.env.hosts) \cup UNION {more(j) : j \in 1 .. k}
           talks(k) == Converses(ph.env) \cup UNION {rides(j) : j \in 1 .. k}
           Good(k) == /\ IndexRight(A[k], H, T, P)
                      /\ DOMAIN addr_aid \subseteq DOMAIN A[k].known /\ Has(A[k].known, to(k))
                      /\ \A t : Covers(Indexes, t) \/ t \in talks(k) => Covers(A[k], t)
           S == {k \in Nat : k <= n => Good(k)}
<1>a. n \in Nat /\ ToSet(ph.sprinkle) = {ph.sprinkle[k] : k \in 1 .. n}
  BY Ranges DEF PhaseRight
<1>b. \A k \in 1 .. n : ph.sprinkle[k] \in DOMAIN INCIDENTS /\ ph.sprinkle[k] \in ToSet(ph.sprinkle)
  BY <1>a DEF PhaseRight
<1>2. /\ A[0] = IndexOf(Indexes, ph.env)
      /\ \A k \in 1 .. n : A[k] = _index_incident(A[k - 1], ph.env, inc(k))
  BY <1>a, IndexedStep
<1>4. HostsOf(ph) = to(n) /\ TalksOf(ph) = talks(n)
  <2>1. {ToSet(unmapped_hosts(INCIDENTS[key], ph.env)) : key \in ToSet(ph.sprinkle)}
          = {more(k) : k \in 1 .. n}
    BY <1>a
  <2>2. {Rides(ph.env, key) : key \in ToSet(ph.sprinkle)} = {rides(k) : k \in 1 .. n}
    BY <1>a
  <2> QED
    BY <2>1, <2>2 DEF HostsOf, TalksOf
<1>5. ASSUME NEW k \in 1 .. n
      PROVE  more(k) \subseteq H /\ Outsiders(inc(k)) \subseteq P /\ rides(k) \subseteq T
  <2>1. more(k) \subseteq HostsOf(ph)
    BY <1>b DEF HostsOf
  <2>2. Outsiders(inc(k)) \subseteq PartiesOf(ph)
    BY <1>b DEF PartiesOf
  <2>3. rides(k) \subseteq TalksOf(ph)
    BY <1>b DEF TalksOf
  <2> QED
    BY <2>1, <2>2, <2>3
<1>6. ToSet(ph.env.hosts) \subseteq H /\ Converses(ph.env) \subseteq T
  BY DEF HostsOf, TalksOf
<1>7. EnvRight(ph.env) /\ DOMAIN addr_aid = DOMAIN Indexes.known
  BY DEF PhaseRight, Indexes
<1>c. \A k \in 1 .. n : inc(k) = INCIDENTS[ph.sprinkle[k]]
  OBVIOUS
<1>d. \A k \in 1 .. n : /\ more(k) = ToSet(unmapped_hosts(INCIDENTS[ph.sprinkle[k]], ph.env))
                        /\ rides(k) = Rides(ph.env, ph.sprinkle[k])
  OBVIOUS
<1> HIDE DEF A, n, more, rides, inc
<1>8. 0 \in S
  <2>1. to(0) = ToSet(ph.env.hosts) /\ talks(0) = Converses(ph.env)
    OBVIOUS
  <2>2. /\ IndexRight(A[0], H, T, P)
        /\ DOMAIN addr_aid \subseteq DOMAIN A[0].known /\ Has(A[0].known, ToSet(ph.env.hosts))
        /\ \A t : Covers(Indexes, t) \/ t \in Converses(ph.env) => Covers(A[0], t)
    <3>1. IndexOf(Indexes, ph.env) = A[0]
      BY <1>2
    <3>2. LET z == IndexOf(Indexes, ph.env)
          IN /\ IndexRight(z, H, T, P)
             /\ DOMAIN Indexes.known \subseteq DOMAIN z.known /\ Has(z.known, ToSet(ph.env.hosts))
             /\ \A t : Covers(Indexes, t) \/ t \in Converses(ph.env) => Covers(z, t)
      BY <1>6, <1>7, IndexOfKeeps
    <3> QED
      BY <1>7, <3>1, <3>2
  <2> HIDE DEF to, talks
  <2> QED
    BY <2>1, <2>2
<1>9. ASSUME NEW m \in Nat, m \in S PROVE m + 1 \in S
  <2> SUFFICES ASSUME m + 1 <= n PROVE Good(m + 1)
    OBVIOUS
  <2>1. PICK k \in 1 .. n : k = m + 1 /\ k - 1 = m
    BY <1>a
  <2>2. Good(m) /\ A[k] = _index_incident(A[m], ph.env, INCIDENTS[ph.sprinkle[k]])
    BY <1>a, <1>2, <1>9, <1>c, <2>1
  <2>3. Has(A[m].known, ToSet(ph.env.hosts)) /\ IndexRight(A[m], H, T, P)
    BY <2>2 DEF Has
  <2> HIDE DEF Good, to, talks
  <2>4. /\ IndexRight(A[k], H, T, P)
        /\ DOMAIN A[m].known \subseteq DOMAIN A[k].known /\ Has(A[k].known, more(k))
        /\ \A t : Covers(A[m], t) \/ t \in rides(k) => Covers(A[k], t)
    <3> DEFINE x == A[m]
               key == ph.sprinkle[k]
               new == ToSet(unmapped_hosts(INCIDENTS[key], ph.env))
               z == _index_incident(x, ph.env, INCIDENTS[key])
    <3>1. /\ key \in DOMAIN INCIDENTS /\ new \subseteq H /\ Outsiders(INCIDENTS[key]) \subseteq P
          /\ Rides(ph.env, key) \subseteq T
      BY <1>5, <1>b, <1>c, <1>d
    <3>2. more(k) = new /\ rides(k) = Rides(ph.env, key) /\ A[k] = z
      BY <1>d, <2>2
    <3>x. IndexRight(x, H, T, P) /\ Has(x.known, ToSet(ph.env.hosts))
      BY <2>3
    <3>3. /\ IndexRight(z, H, T, P)
          /\ DOMAIN x.known \subseteq DOMAIN z.known /\ Has(z.known, new)
          /\ \A t : Covers(x, t) \/ t \in Rides(ph.env, key) => Covers(z, t)
      <4> HIDE DEF key, x
      <4> QED
        BY <1>7, <3>1, <3>x, IncidentKeeps
    <3> QED
      BY <3>2, <3>3
  <2>5. to(k) = to(m) \cup more(k) /\ talks(k) = talks(m) \cup rides(k)
    <3>1. 1 .. k = (1 .. m) \cup {k}
      BY <2>1
    <3> QED
      BY <3>1 DEF to, talks
  <2>6. /\ DOMAIN addr_aid \subseteq DOMAIN A[m].known /\ Has(A[m].known, to(m))
        /\ \A t : Covers(Indexes, t) \/ t \in talks(m) => Covers(A[m], t)
    BY <2>2 DEF Good
  <2>7. Has(A[k].known, to(k))
    BY <2>4, <2>5, <2>6 DEF Has
  <2>8. \A t : Covers(Indexes, t) \/ t \in talks(k) => Covers(A[k], t)
    BY <2>4, <2>5, <2>6
  <2> QED
    BY <2>1, <2>4, <2>6, <2>7, <2>8 DEF Good
<1> HIDE DEF S
<1>10. n \in S
  BY <1>a, <1>8, <1>9, SetInduction
<1>11. Good(n)
  BY <1>a, <1>10 DEF S
<1> QED
  BY <1>4, <1>11 DEF A, n

-----------------------------------------------------------------------------
(* Frames and their senders.                                               *)

\* What the addresses in a frame say of its sender, when all of H are known.
Told(f, H) ==
  \/ f.from = None /\ f.s = f.smac
  \/ \E h \in H : f.s \in {h.ip, h.mac}
  \/ f.s = AnyAddress /\ \E h \in H : f.smac \in {h.ip, h.mac}
  \/ f.s = f.from /\ f.s \notin {None, AnyAddress}

\* A baseline frame is that of a gateway or of a host that is online.
Online(f, ph) ==
  f.source = "baseline" =>
    \/ f.from = None /\ f.smac \in {GatewayMac(Zone[a]) : a \in DOMAIN Zone}
    \/ f.from # None /\ f.from \in Names(ph.env.hosts) \ ph.offline

FrameOf(f, ph) == Told(f, HostsOf(ph)) /\ Online(f, ph)

LEMMA HostInPhase ==
  ASSUME NEW ph, PhaseRight(ph), NEW n \in Names(ph.env.hosts)
  PROVE  /\ Of(ph.env.hosts, n) \in HostsOf(ph) /\ Of(ph.env.hosts, n).name = n
         /\ Of(ph.env.hosts, n).ip \in DOMAIN Zone /\ n # None
<1>1. Of(ph.env.hosts, n) \in ToSet(ph.env.hosts) /\ Of(ph.env.hosts, n).name = n
  BY OfName
<1>2. Of(ph.env.hosts, n).ip \in DOMAIN Zone /\ n \in HostNames
  BY <1>1 DEF PhaseRight, EnvRight
<1> QED
  BY <1>1, <1>2, NamesAreNames DEF HostsOf

LEMMA ConversationsTold ==
  ASSUME NEW ph, PhaseRight(ph), NEW g \in ToSet(ph.env.flows),
         NEW f \in ConversationFrames(ph.env, ph.offline, g)
  PROVE  FrameOf(f, ph)
<1> DEFINE c == Of(ph.env.hosts, g[1])
           s == Of(ph.env.hosts, g[2])
<1>1. g[1] \in Names(ph.env.hosts) /\ g[2] \in Names(ph.env.hosts)
  BY DEF PhaseRight, EnvRight
<1>2. /\ c \in HostsOf(ph) /\ s \in HostsOf(ph)
      /\ g[1] # None /\ g[2] # None
  BY <1>1, HostInPhase
<1>3. g[1] \notin ph.offline
  BY DEF ConversationFrames
<1>4. \/ f = Unicast(ph.env, g, "baseline", c, s, FALSE)
      \/ f = Discover(g, c)
      \/ g[2] \notin ph.offline /\ f = Unicast(ph.env, g, "baseline", c, s, TRUE)
  BY <1>3 DEF ConversationFrames, Answers
<1> HIDE DEF c, s
<1>5. CASE f = Unicast(ph.env, g, "baseline", c, s, FALSE)
  <2>1. f.from = g[1] /\ f.s = c.ip
    BY <1>5 DEF Unicast
  <2> QED
    BY <2>1, <1>1, <1>2, <1>3 DEF FrameOf, Told, Online
<1>6. CASE f = Discover(g, c)
  <2>1. f.from = c.name /\ f.s = AnyAddress /\ f.smac = c.mac /\ c.name = g[1]
    BY <1>1, <1>6, HostInPhase DEF Discover, c
  <2> QED
    BY <2>1, <1>1, <1>2, <1>3 DEF FrameOf, Told, Online
<1>7. CASE g[2] \notin ph.offline /\ f = Unicast(ph.env, g, "baseline", c, s, TRUE)
  <2>1. f.from = g[2] /\ f.s = s.ip
    BY <1>7 DEF Unicast
  <2> QED
    BY <2>1, <1>1, <1>2, <1>7 DEF FrameOf, Told, Online
<1> QED
  BY <1>4, <1>5, <1>6, <1>7

LEMMA ArpTold ==
  ASSUME NEW ph, PhaseRight(ph), NEW h \in Names(ph.env.hosts),
         NEW f \in ArpFrames(ph.env, ph.offline, h)
  PROVE  FrameOf(f, ph)
<1> DEFINE segment == Segment(Of(ph.env.hosts, h))
<1>1. h \notin ph.offline
  BY DEF ArpFrames
<1>2. \/ \E n \in Names(ph.env.hosts) \ ph.offline : \E d :
           f = Arp(n, Mac(ph.env, n), d)
      \/ f = Arp(None, GatewayMac(segment), Mac(ph.env, h))
  BY <1>1 DEF ArpFrames
<1>3. ASSUME NEW n \in Names(ph.env.hosts) \ ph.offline, NEW d, f = Arp(n, Mac(ph.env, n), d)
      PROVE  FrameOf(f, ph)
  <2>1. f.from = n /\ f.s = Of(ph.env.hosts, n).mac
    BY <1>3 DEF Arp, Mac
  <2>2. Of(ph.env.hosts, n) \in HostsOf(ph) /\ n # None
    BY HostInPhase
  <2> QED
    BY <2>1, <2>2 DEF FrameOf, Told, Online
<1>4. CASE f = Arp(None, GatewayMac(segment), Mac(ph.env, h))
  <2>1. f.from = None /\ f.s = GatewayMac(segment) /\ f.smac = GatewayMac(segment)
    BY <1>4 DEF Arp
  <2>2. Of(ph.env.hosts, h).ip \in DOMAIN Zone
    BY HostInPhase
  <2>3. segment = Zone[Of(ph.env.hosts, h).ip]
    BY <2>2 DEF Segment
  <2> QED
    BY <2>1, <2>2, <2>3 DEF FrameOf, Told, Online
<1> QED
  BY <1>2, <1>3, <1>4

\* Whoever plays a host of an incident is known, or goes by its own address.
LEMMA ActorsTold ==
  ASSUME NEW ph, PhaseRight(ph), NEW key \in ToSet(ph.sprinkle),
         NEW n \in Names(INCIDENTS[key].hosts)
  PROVE  LET inc == INCIDENTS[key]
             m == map_onto(inc, ph.env)
             h == Resolve(inc, ph.env, m, n)
             called == Called(inc, ph.env, m, n)
         IN h \in HostsOf(ph) \/ (called = h.ip /\ h.ip \notin {None, AnyAddress})
<1> DEFINE inc == INCIDENTS[key]
           m == map_onto(inc, ph.env)
           h == Resolve(inc, ph.env, m, n)
           called == Called(inc, ph.env, m, n)
<1>1. key \in DOMAIN INCIDENTS /\ IncidentRight(inc) /\ EnvRight(ph.env)
  BY IncidentsRight DEF PhaseRight
<1>2. \/ h \in ToSet(ph.env.hosts) \cup ToSet(unmapped_hosts(inc, ph.env))
      \/ h \in External(inc) /\ called = h.ip
  BY <1>1, Actors
<1>3. ToSet(ph.env.hosts) \cup ToSet(unmapped_hosts(inc, ph.env)) \subseteq HostsOf(ph)
  BY DEF HostsOf
<1>4. \A x \in External(inc) : x.ip \notin {None, AnyAddress}
  BY <1>1, AddressesAssumption DEF External
<1> HIDE DEF h, called
<1> QED
  BY <1>2, <1>3, <1>4 DEF h, called

LEMMA SprinklesTold ==
  ASSUME NEW ph, PhaseRight(ph), NEW key \in ToSet(ph.sprinkle),
         NEW f \in SprinkleFrames(ph.env, key)
  PROVE  FrameOf(f, ph)
<1> DEFINE inc == INCIDENTS[key]
           m == map_onto(inc, ph.env)
<1>1. PICK g \in Attacks(ph.env, key), reply \in BOOLEAN :
        f = Unicast(ph.env, g.conv, key, g.ends[1], g.ends[2], reply)
  BY DEF SprinkleFrames
<1>2. PICK w \in ToSet(inc.flows) :
        /\ g.conv = <<Called(inc, ph.env, m, w[1]), Called(inc, ph.env, m, w[2]), w[3]>>
        /\ g.ends = <<Resolve(inc, ph.env, m, w[1]), Resolve(inc, ph.env, m, w[2])>>
  BY DEF Attacks, Acting
<1>3. key \in DOMAIN INCIDENTS /\ IncidentRight(inc)
  BY IncidentsRight DEF PhaseRight
<1>4. w[1] \in Names(inc.hosts) /\ w[2] \in Names(inc.hosts)
  BY <1>3 DEF IncidentRight
<1>5. key # "baseline"
  BY <1>3, NamesAssumption
<1>6. f.source = key
  BY <1>1 DEF Unicast
<1>7. PICK n \in {w[1], w[2]} :
        f.from = Called(inc, ph.env, m, n) /\ f.s = Resolve(inc, ph.env, m, n).ip
  <2>1. CASE reply
    <3>1. f.from = g.conv[2] /\ f.s = g.ends[2].ip
      BY <1>1, <2>1 DEF Unicast
    <3> QED
      BY <3>1, <1>2
  <2>2. CASE ~reply
    <3>1. f.from = g.conv[1] /\ f.s = g.ends[1].ip
      BY <1>1, <2>2 DEF Unicast
    <3> QED
      BY <3>1, <1>2
  <2> QED
    BY <2>1, <2>2
<1>8. \/ Resolve(inc, ph.env, m, n) \in HostsOf(ph)
      \/ f.from = f.s /\ f.s \notin {None, AnyAddress}
  BY <1>4, <1>7, ActorsTold
<1>9. Told(f, HostsOf(ph))
  BY <1>7, <1>8 DEF Told
<1> QED
  BY <1>5, <1>6, <1>9 DEF FrameOf, Online

LEMMA FramesTold ==
  ASSUME NEW ph, PhaseRight(ph), NEW f \in env_streams(ph)
  PROVE  FrameOf(f, ph)
<1>1. \/ \E g \in ToSet(ph.env.flows) : f \in ConversationFrames(ph.env, ph.offline, g)
      \/ \E h \in Names(ph.env.hosts) : f \in ArpFrames(ph.env, ph.offline, h)
      \/ \E k \in ToSet(ph.sprinkle) : f \in SprinkleFrames(ph.env, k)
  BY DEF env_streams
<1> QED
  BY <1>1, ConversationsTold, ArpTold, SprinklesTold

\* _resolve, of a frame with a clear sender.
LEMMA SourceIsSender ==
  ASSUME NEW H, NEW ever, Owned(addr_aid, ever), Has(addr_aid, H), H \subseteq ever,
         \A h \in ever : h.name # None,
         NEW f, Told(f, H), Clear(ever, f)
  PROVE  Source(f) = IF f.from = None THEN f.smac ELSE f.from
<1>1. Source(f) = IF f.s \in DOMAIN addr_aid THEN addr_aid[f.s]
                  ELSE IF f.smac \in DOMAIN addr_aid THEN addr_aid[f.smac]
                  ELSE IF f.s = AnyAddress THEN f.smac ELSE f.s
  BY DEF Source, Get
<1>2. \A a \in {f.s, f.smac} : a \in DOMAIN addr_aid => addr_aid[a] = f.from /\ f.from # None
  BY DEF Owned, Clear, Rival
<1>3. CASE f.s \in DOMAIN addr_aid \/ f.smac \in DOMAIN addr_aid
  BY <1>1, <1>2, <1>3
<1>4. CASE f.s \notin DOMAIN addr_aid /\ f.smac \notin DOMAIN addr_aid
  <2>1. \/ f.from = None /\ f.s = f.smac
        \/ f.s = f.from /\ f.s \notin {None, AnyAddress}
    BY <1>4 DEF Told, Has
  <2> QED
    BY <1>1, <1>4, <2>1
<1> QED
  BY <1>3, <1>4

-----------------------------------------------------------------------------
(* Frames and their conversations.                                         *)

\* A frame of a talk: from one of its ends to the other, or the broadcast of a
\* lease's client.
Between(f, t) ==
  \/ f.s = t.c.ip /\ f.d = t.s.ip /\ f.from = t.g[1]
  \/ f.s = t.s.ip /\ f.d = t.c.ip /\ f.from = t.g[2]

Broadcast(f, t) ==
  /\ t.g[3] = "dhcp" /\ f.s = AnyAddress /\ f.d = Anyone /\ f.from = t.g[1]
  /\ f.smac = t.c.mac /\ f.dmac = Anyone

Speaks(f, t) == f.conv = t.g /\ f.key = t.g[3] /\ (Between(f, t) \/ Broadcast(f, t))

LEMMA UnicastSpeaks ==
  ASSUME NEW env, NEW source, NEW t, NEW reply \in BOOLEAN
  PROVE  Speaks(Unicast(env, t.g, source, t.c, t.s, reply), t)
<1> DEFINE f == Unicast(env, t.g, source, t.c, t.s, reply)
<1>1. f.conv = t.g /\ f.key = t.g[3]
  BY DEF Unicast
<1>2. CASE reply
  <2>1. f.s = t.s.ip /\ f.d = t.c.ip /\ f.from = t.g[2]
    BY <1>2 DEF Unicast
  <2> QED
    BY <1>1, <2>1 DEF Speaks, Between
<1>3. CASE ~reply
  <2>1. f.s = t.c.ip /\ f.d = t.s.ip /\ f.from = t.g[1]
    BY <1>3 DEF Unicast
  <2> QED
    BY <1>1, <2>1 DEF Speaks, Between
<1> QED
  BY <1>2, <1>3

\* All but ARP's are frames of talks.
LEMMA FramesSpeak ==
  ASSUME NEW ph, PhaseRight(ph), NEW f \in env_streams(ph), f.conv # <<>>
  PROVE  \E t \in TalksOf(ph) : Speaks(f, t)
<1>1. CASE \E g \in ToSet(ph.env.flows) : f \in ConversationFrames(ph.env, ph.offline, g)
  <2>1. PICK g \in ToSet(ph.env.flows) : f \in ConversationFrames(ph.env, ph.offline, g)
    BY <1>1
  <2> DEFINE c == Of(ph.env.hosts, g[1])
             s == Of(ph.env.hosts, g[2])
             t == [g |-> g, c |-> c, s |-> s]
  <2>2. t \in TalksOf(ph)
    BY DEF TalksOf, Converses
  <2>3. t.g = g /\ t.c = c /\ t.s = s
    OBVIOUS
  <2>4. \/ \E reply \in BOOLEAN : f = Unicast(ph.env, g, "baseline", c, s, reply)
        \/ g[3] = "dhcp" /\ f = Discover(g, c)
    BY <2>1 DEF ConversationFrames
  <2>5. t \in Converses(ph.env)
    BY DEF Converses
  <2>6. c.name = g[1]
    <3>1. g[1] \in Names(ph.env.hosts)
      BY DEF PhaseRight, EnvRight
    <3> QED
      BY <3>1, OfName
  <2> HIDE DEF c, s, t
  <2>7. CASE \E reply \in BOOLEAN : f = Unicast(ph.env, g, "baseline", c, s, reply)
    BY <2>2, <2>3, <2>7, UnicastSpeaks
  <2>8. CASE g[3] = "dhcp" /\ f = Discover(g, c)
    BY <2>2, <2>3, <2>6, <2>8 DEF Discover, Speaks, Broadcast
  <2> QED
    BY <2>4, <2>7, <2>8
<1>2. CASE \E k \in ToSet(ph.sprinkle) : f \in SprinkleFrames(ph.env, k)
  <2>1. PICK key \in ToSet(ph.sprinkle) : f \in SprinkleFrames(ph.env, key)
    BY <1>2
  <2>2. PICK a \in Attacks(ph.env, key), reply \in BOOLEAN :
          f = Unicast(ph.env, a.conv, key, a.ends[1], a.ends[2], reply)
    BY <2>1 DEF SprinkleFrames
  <2> DEFINE t == [g |-> a.conv, c |-> a.ends[1], s |-> a.ends[2]]
  <2>3. t \in TalksOf(ph)
    BY DEF TalksOf, Rides
  <2>4. t.g = a.conv /\ t.c = a.ends[1] /\ t.s = a.ends[2]
    OBVIOUS
  <2> HIDE DEF t
  <2> QED
    BY <2>2, <2>3, <2>4, UnicastSpeaks
<1>3. CASE \E h \in Names(ph.env.hosts) : f \in ArpFrames(ph.env, ph.offline, h)
  <2>1. PICK h \in Names(ph.env.hosts) : f \in ArpFrames(ph.env, ph.offline, h)
    BY <1>3
  <2>2. \E from, smac, dmac : f = Arp(from, smac, dmac)
    BY <2>1 DEF ArpFrames
  <2>3. f.conv = <<>>
    BY <2>2 DEF Arp
  <2> QED
    BY <2>3
<1> QED
  BY <1>1, <1>2, <1>3 DEF env_streams

\* _resolve's four keys, in their order, and its fallback.
KeysOf(f) ==
  {<<f.key, f.s, f.d>>, <<f.key, f.d, f.s>>, <<f.key, f.smac, f.dmac>>, <<f.key, f.dmac, f.smac>>}

Found(f) ==
  \/ \E y \in KeysOf(f) :
       /\ y \in DOMAIN flowidx /\ FlowOf(f) = flowidx[y]
       /\ {<<f.key, f.s, f.d>>, <<f.key, f.d, f.s>>} \cap DOMAIN flowidx # {}
            => y \in {<<f.key, f.s, f.d>>, <<f.key, f.d, f.s>>}
  \/ /\ KeysOf(f) \cap DOMAIN flowidx = {}
     /\ <<f.key, f.smac>> \in DOMAIN l2src => FlowOf(f) = l2src[<<f.key, f.smac>>]

LEMMA FlowIsFound == ASSUME NEW f PROVE Found(f)
<1> DEFINE keys == <<<<f.key, f.s, f.d>>, <<f.key, f.d, f.s>>,
                     <<f.key, f.smac, f.dmac>>, <<f.key, f.dmac, f.smac>>>>
           found == {n \in DOMAIN keys : keys[n] \in DOMAIN flowidx}
           first == Get(firsts, <<f.key, f.source, {f.s, f.d}>>, f.s)
           other == IF first = f.s THEN f.d ELSE f.s
           else == <<Get(addr_aid, first, first), Get(addr_aid, other, other), first, other>>
<1>1. FlowOf(f) = IF found # {} THEN flowidx[keys[Min(found)]]
                  ELSE Get(l2src, <<f.key, f.smac>>, else)
  BY DEF FlowOf
<1>2. /\ DOMAIN keys = 1 .. 4
      /\ keys[1] = <<f.key, f.s, f.d>> /\ keys[2] = <<f.key, f.d, f.s>>
      /\ keys[3] = <<f.key, f.smac, f.dmac>> /\ keys[4] = <<f.key, f.dmac, f.smac>>
  OBVIOUS
<1> HIDE DEF keys, else
<1>3. found \in SUBSET Nat /\ KeysOf(f) = {keys[n] : n \in 1 .. 4}
  <2>1. 1 .. 4 = {1, 2, 3, 4}
    OBVIOUS
  <2> QED
    BY <1>2, <2>1 DEF KeysOf
<1>4. CASE found # {}
  <2>1. Min(found) \in found /\ \A n \in found : Min(found) <= n
    <3> HIDE DEF found
    <3> QED
      BY <1>3, <1>4, LeastIsThere
  <2>2. PICK n \in 1 .. 4 : n = Min(found) /\ keys[n] \in DOMAIN flowidx
    BY <1>2, <2>1
  <2>3. FlowOf(f) = flowidx[keys[n]] /\ keys[n] \in KeysOf(f)
    BY <1>1, <1>3, <1>4, <2>2
  <2>4. ASSUME {keys[1], keys[2]} \cap DOMAIN flowidx # {} PROVE n \in {1, 2}
    <3>1. 1 \in found \/ 2 \in found
      BY <1>2, <2>4
    <3>2. n <= 1 \/ n <= 2
      BY <2>1, <2>2, <3>1
    <3> QED
      BY <3>2
  <2> QED
    BY <1>2, <2>2, <2>3, <2>4 DEF Found
<1>5. CASE found = {}
  <2>1. KeysOf(f) \cap DOMAIN flowidx = {}
    BY <1>2, <1>3, <1>5
  <2>2. <<f.key, f.smac>> \in DOMAIN l2src => FlowOf(f) = l2src[<<f.key, f.smac>>]
    BY <1>1, <1>5 DEF Get
  <2> QED
    BY <2>1, <2>2 DEF Found
<1> QED
  BY <1>4, <1>5

\* Another conversation than the frame's own, as FlowsTrue has it.
RivalFlow(f, g) ==
  /\ g # f.conv /\ g[3] = f.key
  /\ \/ {g[1], g[2]} = {f.conv[1], f.conv[2]}
     \/ f.s = AnyAddress /\ f.from \in {g[1], g[2]}

\* A frame between two hosts goes by their addresses.
LEMMA BetweenFlow ==
  ASSUME NEW T, NEW P, \A t \in T : TalkRight(t, P),
         FlowsTold(flowidx, T, P),
         NEW t \in T, Covers(Indexes, t),
         NEW f, Speaks(f, t), Between(f, t),
         Clear(P, f), ~Contested(P, f.d),
         NEW row, row = FlowOf(f), <<row[1], row[2]>> # <<f.conv[1], f.conv[2]>>
  PROVE  \E u \in T : RivalFlow(f, u.g)
<1> DEFINE pair == {<<f.key, f.s, f.d>>, <<f.key, f.d, f.s>>}
<1>1. <<t.g[3], t.c.ip, t.s.ip>> \in DOMAIN flowidx
  BY DEF Covers, PairsOf, Indexes
<1>2. pair \cap DOMAIN flowidx # {}
  BY <1>1 DEF Speaks, Between
<1>3. PICK y \in pair : y \in DOMAIN flowidx /\ row = flowidx[y]
  <2>1. pair \subseteq KeysOf(f) /\ Found(f)
    BY FlowIsFound DEF KeysOf
  <2> QED
    BY <1>2, <2>1 DEF Found
<1>4. PICK u \in T : y \in PairsOf(u) /\ RowTold(u, row, P)
  BY <1>3 DEF FlowsTold
<1>5. {f.s, f.d} \subseteq Ips /\ {f.s, f.d} = {t.c.ip, t.s.ip}
  BY DEF Between, TalkRight
<1>6. u.c.mac \notin Ips /\ u.s.mac \notin Ips
  BY DEF TalkRight
<1>7. u.g[3] = f.key /\ \/ u.c.ip = f.s /\ u.s.ip = f.d
                        \/ u.c.ip = f.d /\ u.s.ip = f.s
  BY <1>3, <1>4, <1>5, <1>6 DEF PairsOf
\* Whoever has one of the two addresses is one of the two.
<1>8. PICK other : {f.from, other} = {f.conv[1], f.conv[2]}
                   /\ (\A p \in P : f.s \in {p.ip, p.mac} => p.name = f.from)
                   /\ (\A p \in P : f.d \in {p.ip, p.mac} => p.name = other)
  <2>1. \A p \in P : f.s \in {p.ip, p.mac} => p.name = f.from
    BY DEF Clear, Rival
  <2>2. \A p, q \in P : f.d \in {p.ip, p.mac} /\ f.d \in {q.ip, q.mac} => p.name = q.name
    BY DEF Contested, Rival
  <2>3. CASE f.d = t.s.ip /\ f.from = t.g[1]
    <3>1. PICK p \in P : p.ip = f.d /\ p.name = t.g[2]
      BY <2>3 DEF TalkRight, Side
    <3>2. \A q \in P : f.d \in {q.ip, q.mac} => q.name = t.g[2]
      BY <2>2, <3>1
    <3> QED
      BY <2>1, <2>3, <3>2 DEF Speaks
  <2>4. CASE f.d = t.c.ip /\ f.from = t.g[2]
    <3>1. PICK p \in P : p.ip = f.d /\ p.name = t.g[1]
      BY <2>4 DEF TalkRight, Side
    <3>2. \A q \in P : f.d \in {q.ip, q.mac} => q.name = t.g[1]
      BY <2>2, <3>1
    <3> QED
      BY <2>1, <2>4, <3>2 DEF Speaks
  <2> QED
    BY <2>3, <2>4 DEF Between
<1>9. PICK p, q \in P : /\ u.c.ip \in {p.ip, p.mac} /\ row[1] = p.name
                        /\ u.s.ip \in {q.ip, q.mac} /\ row[2] = q.name
  BY <1>4 DEF RowTold
<1>10. PICK v, w \in P : v.ip = u.c.ip /\ v.name = u.g[1] /\ w.ip = u.s.ip /\ w.name = u.g[2]
  BY DEF TalkRight, Side
<1>11. /\ row[1] = u.g[1] /\ row[2] = u.g[2]
       /\ {u.g[1], u.g[2]} = {f.from, other}
  <2>1. CASE u.c.ip = f.s /\ u.s.ip = f.d
    BY <1>8, <1>9, <1>10, <2>1
  <2>2. CASE u.c.ip = f.d /\ u.s.ip = f.s
    BY <1>8, <1>9, <1>10, <2>2
  <2> QED
    BY <1>7, <2>1, <2>2
<1>12. u.g # f.conv
  BY <1>11
<1> QED
  BY <1>7, <1>8, <1>11, <1>12 DEF RivalFlow

\* A broadcast goes by its sender's MAC, and to leases only.
LEMMA BroadcastFlow ==
  ASSUME NEW T, NEW P, \A t \in T : TalkRight(t, P),
         FlowsTold(flowidx, T, P), SendersTold(l2src, T, P),
         NEW t \in T, Covers(Indexes, t),
         NEW f, Speaks(f, t), Broadcast(f, t), Clear(P, f),
         NEW row, row = FlowOf(f), <<row[1], row[2]>> # <<f.conv[1], f.conv[2]>>
  PROVE  \E u \in T : RivalFlow(f, u.g)
<1>1. <<f.key, f.smac>> \in DOMAIN l2src
  BY DEF Covers, EndsOf, Indexes, Speaks, Broadcast
<1>2. /\ f.key = "dhcp" /\ f.s = AnyAddress /\ f.smac \notin Ips /\ AnyAddress \in Ips
      /\ AnyAddress \notin DOMAIN Zone
  BY AddressesAssumption DEF Speaks, Broadcast, TalkRight, Ips
<1>3. \E u \in T : /\ u.g[3] = "dhcp" /\ f.smac \in {u.c.mac, u.s.mac}
                   /\ RowTold(u, row, P)
  <2>1. CASE KeysOf(f) \cap DOMAIN flowidx = {}
    <3>1. row = l2src[<<f.key, f.smac>>]
      BY <2>1, <1>1, FlowIsFound DEF Found
    <3>2. PICK u \in T : <<f.key, f.smac>> \in EndsOf(u) /\ RowTold(u, row, P)
      BY <1>1, <3>1 DEF SendersTold
    <3> QED
      BY <1>2, <3>2 DEF EndsOf
  <2>2. CASE KeysOf(f) \cap DOMAIN flowidx # {}
    <3>1. PICK y \in KeysOf(f) : y \in DOMAIN flowidx /\ row = flowidx[y]
      BY <2>2, FlowIsFound DEF Found
    <3>2. PICK u \in T : y \in PairsOf(u) /\ RowTold(u, row, P)
      BY <3>1 DEF FlowsTold
    <3>3. /\ u.g[3] = "dhcp" /\ {u.c.ip, u.s.ip} \subseteq DOMAIN Zone
          /\ u.c.mac \notin Ips /\ u.s.mac \notin Ips
      <4>1. u.g[3] = "dhcp"
        BY <1>2, <3>1, <3>2 DEF KeysOf, PairsOf
      <4> QED
        BY <4>1 DEF TalkRight
    <3>4. f.smac \in {u.c.mac, u.s.mac}
      <4>1. y = <<f.key, u.c.ip, u.s.ip>> \/ y = <<f.key, u.c.mac, u.s.mac>>
        BY <1>2, <3>2, <3>3 DEF PairsOf
      <4>2. AnyAddress \notin {u.c.ip, u.s.ip, u.c.mac, u.s.mac}
        BY <1>2, <3>3
      <4>3. f.smac \notin {u.c.ip, u.s.ip}
        BY <1>2, <3>3 DEF Ips
      <4>4. \/ y = <<f.key, AnyAddress, f.d>> \/ y = <<f.key, f.d, AnyAddress>>
            \/ y = <<f.key, f.smac, f.dmac>> \/ y = <<f.key, f.dmac, f.smac>>
        BY <1>2, <3>1 DEF KeysOf
      <4> QED
        BY <4>1, <4>2, <4>3, <4>4
    <3> QED
      BY <3>2, <3>3, <3>4
  <2> QED
    BY <2>1, <2>2
<1>4. PICK u \in T : /\ u.g[3] = "dhcp" /\ f.smac \in {u.c.mac, u.s.mac}
                     /\ row[1] = u.g[1] /\ row[2] = u.g[2]
  BY <1>3 DEF RowTold
<1>5. f.from \in {u.g[1], u.g[2]}
  <2>1. \A p \in P : f.smac \in {p.ip, p.mac} => p.name = f.from
    BY DEF Clear, Rival
  <2>2. PICK p, q \in P : p.mac = u.c.mac /\ p.name = u.g[1] /\ q.mac = u.s.mac /\ q.name = u.g[2]
    BY DEF TalkRight, Side
  <2> QED
    BY <1>4, <2>1, <2>2
<1>6. u.g # f.conv
  BY <1>4
<1> QED
  BY <1>2, <1>4, <1>5, <1>6 DEF RivalFlow

-----------------------------------------------------------------------------
(* What the manifest tells of frames and hosts.                            *)

\* Talks of the phases, and of what they start from.
BasePhase == [env |-> Environment(Base), offline |-> {}, sprinkle |-> <<>>]
TalksEver == TalksOf(BasePhase) \cup UNION {TalksOf(phases[p]) : p \in DOMAIN phases}

\* An observed frame, and the row of flows it has been counted in.
FlowRight(e) ==
  LET f == e.frame
  IN /\ f.conv # <<>> /\ <<e.flow[1], e.flow[2]>> # <<f.conv[1], f.conv[2]>>
     /\ Clear(PartiesEver, f) /\ ~Contested(PartiesEver, f.d)
     => \E g \in FlowsEver : RivalFlow(f, g)

\* ... and the asset that it has been credited to.
EntryRight(e) ==
  /\ e.built \in 1 .. i /\ e.frame \in env_streams(phases[e.built])
  /\ Clear(HostsEver, e.frame)
       => e.asset = IF e.frame.from = None THEN e.frame.smac ELSE e.frame.from
  /\ FlowRight(e)

\* A phase's addresses and conversations are all in the indexes.
Entered(ph) ==
  /\ Has(addr_aid, HostsOf(ph))
  /\ \A t \in TalksOf(ph) : Covers(Indexes, t)

\* A row of the inventory.
RowTrue(r) ==
  /\ r.name \in HostNames
  /\ r.online_phases = {p \in DOMAIN phases : /\ r.name \in Names(phases[p].env.hosts)
                                              /\ r.name \notin phases[p].offline}

TellsInv ==
  /\ i <= Len(phases)
  /\ IndexRight(Indexes, HostsEver, TalksEver, PartiesEver)
  /\ \A p \in 1 .. i : Entered(phases[p])
  /\ \A k \in 1 .. Len(log) : EntryRight(log[k])
  /\ stage = "plan" => inventory.hosts = <<>>
  /\ \A r \in ToSet(inventory.hosts) : RowTrue(r)

LEMMA EverHas ==
  /\ ToSet(Environment(Base).hosts) \subseteq HostsEver
  /\ \A p \in DOMAIN phases : HostsOf(phases[p]) \subseteq HostsEver
<1> DEFINE each == {HostsOf(phases[p]) : p \in DOMAIN phases}
<1>1. HostsEver = ToSet(Environment(Base).hosts) \cup UNION each
  BY DEF HostsEver, HostsOf
<1>2. \A p \in DOMAIN phases : HostsOf(phases[p]) \subseteq UNION each
  OBVIOUS
<1> HIDE DEF each
<1> QED
  BY <1>1, <1>2

LEMMA PartiesHave ==
  /\ HostsEver \subseteq PartiesEver
  /\ \A p \in DOMAIN phases : PartiesOf(phases[p]) \subseteq PartiesEver
<1> DEFINE out(ph) == UNION {Outsiders(INCIDENTS[k]) : k \in ToSet(ph.sprinkle)}
           each == {out(phases[p]) : p \in DOMAIN phases}
<1>1. PartiesEver = HostsEver \cup UNION each
  BY DEF PartiesEver
<1>2. \A ph : PartiesOf(ph) = HostsOf(ph) \cup out(ph)
  BY DEF PartiesOf
<1>3. \A p \in DOMAIN phases : out(phases[p]) \subseteq UNION each
  <2> HIDE DEF out
  <2> QED
    OBVIOUS
<1> HIDE DEF each, out
<1> QED
  BY <1>1, <1>2, <1>3, EverHas

LEMMA EverIs ==
  ASSUME NEW h \in HostsEver
  PROVE  \/ h \in ToSet(Environment(Base).hosts)
         \/ \E p \in DOMAIN phases : h \in HostsOf(phases[p])
<1> DEFINE each == {HostsOf(phases[p]) : p \in DOMAIN phases}
<1>1. HostsEver = ToSet(Environment(Base).hosts) \cup UNION each
  BY DEF HostsEver, HostsOf
<1> QED
  BY <1>1

LEMMA BaseRight ==
  /\ PhaseRight(BasePhase) /\ PartiesOf(BasePhase) = ToSet(Environment(Base).hosts)
  /\ TalksOf(BasePhase) = Converses(Environment(Base))
<1>1. HostsRight(Base.hosts) /\ IsSeq(Base.flows)
  BY SaidHosts, DocumentsAssumption DEF HostsRight, IsSeq
<1>2. EnvRight(Environment(Base))
  BY <1>1, BaseAssumption, EnvironmentRight
<1>3. /\ BasePhase.env = Environment(Base) /\ BasePhase.offline = {}
      /\ BasePhase.sprinkle = <<>>
  BY DEF BasePhase
<1>4. IsSeq(<<>>) /\ ToSet(<<>>) = {}
  BY Empty
<1>5. PhaseRight(BasePhase)
  BY <1>2, <1>3, <1>4 DEF PhaseRight
<1>6. PartiesOf(BasePhase) = ToSet(Environment(Base).hosts)
  BY <1>3, <1>4 DEF PartiesOf, HostsOf
<1>7. TalksOf(BasePhase) = Converses(Environment(Base))
  BY <1>3, <1>4 DEF TalksOf
<1> QED
  BY <1>5, <1>6, <1>7

\* Talks are of flows that there have been, and of parties.
LEMMA TalksEverRight ==
  ASSUME PlanInv, NEW t \in TalksEver
  PROVE  TalkRight(t, PartiesEver) /\ t.g \in FlowsEver
<1>1. CASE t \in TalksOf(BasePhase)
  <2>1. ToSet(Environment(Base).hosts) \subseteq PartiesEver
    BY EverHas, PartiesHave
  <2>2. t \in Converses(Environment(Base)) /\ EnvRight(Environment(Base))
    BY <1>1, BaseRight DEF PhaseRight, BasePhase
  <2>3. TalkRight(t, PartiesEver) /\ t.g \in ToSet(Environment(Base).flows)
    BY <2>1, <2>2, ConversesRight
  <2> QED
    BY <2>3 DEF FlowsEver, Environment
<1>2. CASE \E p \in DOMAIN phases : t \in TalksOf(phases[p])
  <2>1. PICK p \in DOMAIN phases : t \in TalksOf(phases[p])
    BY <1>2
  <2> DEFINE ph == phases[p]
             own(q) == ToSet(q.env.flows)
                       \cup UNION {{g.conv : g \in Attacks(q.env, k)} : k \in ToSet(q.sprinkle)}
             each == {own(phases[q]) : q \in DOMAIN phases}
  <2>2. PhaseRight(ph)
    BY Ranges DEF PlanInv
  <2>3. PartiesOf(ph) \subseteq PartiesEver
    BY PartiesHave
  <2>4. FlowsEver = ToSet(Base.flows) \cup UNION each
    BY DEF FlowsEver
  <2>5. own(ph) \subseteq UNION each
    <3> HIDE DEF own
    <3> QED
      OBVIOUS
  <2> HIDE DEF ph, each
  <2>6. TalkRight(t, PartiesEver)
    <3>1. TalkRight(t, PartiesOf(ph))
      BY <2>1, <2>2, TalksRight DEF ph
    <3> QED
      BY <3>1, <2>3 DEF TalkRight, Side
  <2>7. t.g \in own(ph)
    <3>1. CASE t \in Converses(ph.env)
      <4>1. t.g \in ToSet(ph.env.flows)
        BY <3>1 DEF Converses
      <4> QED
        BY <4>1
    <3>2. CASE \E k \in ToSet(ph.sprinkle) : t \in Rides(ph.env, k)
      <4>1. PICK k \in ToSet(ph.sprinkle) : t \in Rides(ph.env, k)
        BY <3>2
      <4>2. PICK a \in Attacks(ph.env, k) : t.g = a.conv
        BY <4>1 DEF Rides
      <4> QED
        BY <4>2
    <3> QED
      BY <2>1, <3>1, <3>2 DEF TalksOf, ph
  <2> QED
    BY <2>4, <2>5, <2>6, <2>7
<1> QED
  BY <1>1, <1>2 DEF TalksEver

LEMMA NamesEver ==
  ASSUME PlanInv, NEW h \in HostsEver
  PROVE  h.name # None /\ h.name \notin Ips
<1>1. CASE h \in ToSet(Environment(Base).hosts)
  <2>1. PICK k \in DOMAIN Base.hosts : h = Host(Base.hosts[k])
    BY <1>1 DEF Environment, ToSet
  <2>2. h.name = Base.hosts[k].name /\ Base.hosts[k] \in ToSet(Base.hosts)
    BY <2>1 DEF Host, ToSet
  <2> QED
    BY <2>2, NamesAreNames DEF HostNames
<1>2. CASE \E p \in DOMAIN phases : h \in HostsOf(phases[p])
  <2>1. PICK p \in DOMAIN phases : h \in HostsOf(phases[p])
    BY <1>2
  <2>2. PhaseRight(phases[p])
    BY Ranges DEF PlanInv
  <2>3. CASE h \in ToSet(phases[p].env.hosts)
    BY <2>2, <2>3, NamesAreNames DEF PhaseRight, EnvRight
  <2>4. CASE \E k \in ToSet(phases[p].sprinkle) :
               h \in ToSet(unmapped_hosts(INCIDENTS[k], phases[p].env))
    <3>1. PICK k \in ToSet(phases[p].sprinkle) :
            h \in ToSet(unmapped_hosts(INCIDENTS[k], phases[p].env))
      BY <2>4
    <3>2. k \in DOMAIN INCIDENTS
      BY <2>2 DEF PhaseRight
    <3>3. h \in ToSet(INCIDENTS[k].hosts)
      BY <3>1, <3>2, IncidentsRight, UnmappedAre DEF Internal
    <3> QED
      BY <3>2, <3>3, NamesAssumption
  <2> QED
    BY <2>1, <2>3, <2>4 DEF HostsOf
<1> QED
  BY <1>1, <1>2, EverIs

LEMMA EverGrows ==
  ASSUME DOMAIN phases \subseteq DOMAIN phases', \A p \in DOMAIN phases : phases'[p] = phases[p]
  PROVE  /\ HostsEver \subseteq HostsEver' /\ TalksEver \subseteq TalksEver'
         /\ PartiesEver \subseteq PartiesEver'
<1> DEFINE out(ph) == UNION {Outsiders(INCIDENTS[k]) : k \in ToSet(ph.sprinkle)}
           hosts == {HostsOf(phases[p]) : p \in DOMAIN phases}
           hosts2 == {HostsOf(phases'[p]) : p \in DOMAIN phases'}
           talks == {TalksOf(phases[p]) : p \in DOMAIN phases}
           talks2 == {TalksOf(phases'[p]) : p \in DOMAIN phases'}
           outs == {out(phases[p]) : p \in DOMAIN phases}
           outs2 == {out(phases'[p]) : p \in DOMAIN phases'}
<1>1. /\ HostsEver = ToSet(Environment(Base).hosts) \cup UNION hosts
      /\ HostsEver' = ToSet(Environment(Base).hosts) \cup UNION hosts2
  BY DEF HostsEver, HostsOf
<1>2. /\ TalksEver = TalksOf(BasePhase) \cup UNION talks
      /\ TalksEver' = TalksOf(BasePhase) \cup UNION talks2
  BY DEF TalksEver
<1>3. /\ PartiesEver = HostsEver \cup UNION outs
      /\ PartiesEver' = HostsEver' \cup UNION outs2
  BY DEF PartiesEver
<1> HIDE DEF out
<1>4. hosts \subseteq hosts2 /\ talks \subseteq talks2 /\ outs \subseteq outs2
  OBVIOUS
<1> HIDE DEF hosts, hosts2, talks, talks2, outs, outs2
<1>5. HostsEver \subseteq HostsEver' /\ TalksEver \subseteq TalksEver'
  BY <1>1, <1>2, <1>4
<1> QED
  BY <1>3, <1>4, <1>5

LEMMA IndexGrows ==
  ASSUME NEW x, NEW H, NEW T, NEW P, NEW H2, NEW T2, NEW P2,
         IndexRight(x, H, T, P), H \subseteq H2, T \subseteq T2, P \subseteq P2
  PROVE  IndexRight(x, H2, T2, P2)
<1>1. \A t, row : RowTold(t, row, P) => RowTold(t, row, P2)
  BY DEF RowTold
<1>2. Owned(x.known, H2)
  BY DEF IndexRight, Owned
<1>3. FlowsTold(x.flows, T2, P2) /\ SendersTold(x.senders, T2, P2)
  BY <1>1 DEF IndexRight, FlowsTold, SendersTold
<1> QED
  BY <1>2, <1>3 DEF IndexRight

\* Indexes are right by what is in them.
LEMMA IndexSame ==
  ASSUME NEW x, NEW y, NEW H, NEW T, NEW P, IndexRight(x, H, T, P), DOMAIN y = DOMAIN x,
         y.known = x.known, y.flows = x.flows, y.senders = x.senders
  PROVE  IndexRight(y, H, T, P) /\ \A t : Covers(x, t) => Covers(y, t)
BY DEF IndexRight, Covers

LEMMA TellsStart == Init => TellsInv
<1> SUFFICES ASSUME Init PROVE TellsInv
  OBVIOUS
<1> DEFINE env == Environment(Base)
           none == [known |-> <<>>, flows |-> <<>>, senders |-> <<>>, arrived |-> <<>>]
           z == IndexOf(none, env)
<1>1. /\ phases = <<>> /\ i = 0 /\ log = <<>> /\ inventory.hosts = <<>>
      /\ addr_aid = AddressesOf(<<>>, env.hosts)
      /\ flowidx = FlowsOf(<<>>, Conversations(env))
      /\ l2src = SendersOf(<<>>, Conversations(env))
  BY DEF Init, PlanInit, RecorderInit
<1>2. EnvRight(env)
  BY BaseRight DEF PhaseRight, BasePhase
<1>3. /\ ToSet(env.hosts) \subseteq HostsEver /\ HostsEver \subseteq PartiesEver
      /\ Converses(env) \subseteq TalksEver
  BY EverHas, PartiesHave, BaseRight DEF TalksEver
<1>4. /\ DOMAIN none = {"known", "flows", "senders", "arrived"}
      /\ none.known = <<>> /\ none.flows = <<>> /\ none.senders = <<>>
  OBVIOUS
<1>5. /\ DOMAIN z = DOMAIN none /\ z.known = AddressesOf(<<>>, env.hosts)
      /\ z.flows = FlowsOf(<<>>, Conversations(env))
      /\ z.senders = SendersOf(<<>>, Conversations(env))
  BY DEF IndexOf, _add
<1> HIDE DEF none, env
<1>6. IndexRight(none, HostsEver, TalksEver, PartiesEver)
  BY <1>4 DEF IndexRight, Owned, FlowsTold, SendersTold
<1>7. IndexRight(z, HostsEver, TalksEver, PartiesEver)
  BY <1>2, <1>3, <1>6, IndexOfKeeps
<1> HIDE DEF z
<1>8. /\ DOMAIN Indexes = DOMAIN z
      /\ Indexes.known = z.known /\ Indexes.flows = z.flows /\ Indexes.senders = z.senders
  BY <1>1, <1>4, <1>5 DEF Indexes
<1>9. IndexRight(Indexes, HostsEver, TalksEver, PartiesEver)
  BY <1>7, <1>8, IndexSame
<1> QED
  BY <1>1, <1>9, Empty DEF TellsInv

\* A frame of an indexed phase is counted in a row of its own conversation, or of
\* a rival.
LEMMA FrameFlow ==
  ASSUME PlanInv, IndexRight(Indexes, HostsEver, TalksEver, PartiesEver),
         NEW p \in DOMAIN phases, Entered(phases[p]), NEW e, e.frame \in env_streams(phases[p]),
         e.flow = FlowOf(e.frame)
  PROVE  FlowRight(e)
<1> DEFINE f == e.frame
           row == e.flow
<1> SUFFICES ASSUME f.conv # <<>>, <<row[1], row[2]>> # <<f.conv[1], f.conv[2]>>,
                    Clear(PartiesEver, f), ~Contested(PartiesEver, f.d)
             PROVE  \E g \in FlowsEver : RivalFlow(f, g)
  BY DEF FlowRight
<1>1. PhaseRight(phases[p])
  BY Ranges DEF PlanInv
<1>2. f \in env_streams(phases[p]) /\ row = FlowOf(f)
  OBVIOUS
<1> HIDE DEF f, row
<1>3. PICK t \in TalksOf(phases[p]) : Speaks(f, t)
  BY <1>1, <1>2, FramesSpeak
<1>4. Covers(Indexes, t) /\ t \in TalksEver
  BY DEF Entered, TalksEver
<1>5. FlowsTold(flowidx, TalksEver, PartiesEver) /\ SendersTold(l2src, TalksEver, PartiesEver)
  BY DEF IndexRight, Indexes
<1>6. \A u \in TalksEver : TalkRight(u, PartiesEver) /\ u.g \in FlowsEver
  BY TalksEverRight
<1>7. PICK u \in TalksEver : RivalFlow(f, u.g)
  <2>1. CASE Between(f, t)
    BY <1>2, <1>3, <1>4, <1>5, <1>6, <2>1, BetweenFlow
  <2>2. CASE Broadcast(f, t)
    BY <1>2, <1>3, <1>4, <1>5, <1>6, <2>2, BroadcastFlow
  <2> QED
    BY <1>3, <2>1, <2>2 DEF Speaks
<1> QED
  BY <1>6, <1>7

LEMMA PlanTells == PhasesInv /\ PlanInv /\ TellsInv /\ Plan => TellsInv'
<1> SUFFICES ASSUME PhasesInv, PlanInv, TellsInv, Plan PROVE TellsInv'
  OBVIOUS
<1>1. /\ stage = "plan" /\ i = 0 /\ log = <<>> /\ inventory.hosts = <<>>
      /\ UNCHANGED <<i, log, inventory>> /\ Indexes' = Indexes
  BY DEF Indexes, Plan, Planning, BuildPhase, Ask, PhasesInv, ClockRight, TellsInv, manifest, index, run
<1>2. PlanInv'
  BY NextPlan DEF Next
<1>3. \/ phases' = phases
      \/ \E ph : phases' = Append(phases, ph)
  BY DEF Plan, Planning, BuildPhase, Ask
<1>4. /\ HostsEver \subseteq HostsEver' /\ TalksEver \subseteq TalksEver'
      /\ PartiesEver \subseteq PartiesEver'
  <2>1. CASE phases' = phases
    BY <2>1, EverGrows
  <2>2. CASE \E ph : phases' = Append(phases, ph)
    <3>1. PICK ph : phases' = Append(phases, ph)
      BY <2>2
    <3>2. /\ DOMAIN phases = 1 .. Len(phases) /\ DOMAIN phases' = 1 .. Len(phases) + 1
          /\ Len(phases) \in Nat
          /\ \A p \in 1 .. Len(phases) : phases'[p] = phases[p]
      BY <3>1, Appended DEF PlanInv
    <3> QED
      BY <3>2, EverGrows
  <2> QED
    BY <1>3, <2>1, <2>2
<1>5. IndexRight(Indexes', HostsEver', TalksEver', PartiesEver')
  BY <1>1, <1>4, IndexGrows DEF TellsInv
<1>6. i' <= Len(phases')
  BY <1>1, <1>2, Ranges DEF PlanInv
<1> QED
  BY <1>1, <1>5, <1>6, Empty DEF TellsInv

\* The host as it is last is one of a phase's.
LEMMA LatestIsHost ==
  ASSUME IsSeq(phases), NEW n, \E p \in DOMAIN phases : n \in Names(phases[p].env.hosts)
  PROVE  \E p \in DOMAIN phases : n \in Names(phases[p].env.hosts)
                                  /\ Latest(n) = Of(phases[p].env.hosts, n)
<1> DEFINE last(p) == /\ n \in Names(phases[p].env.hosts)
                      /\ \A q \in p + 1 .. Len(phases) : n \notin Names(phases[q].env.hosts)
           in == {p \in DOMAIN phases : n \in Names(phases[p].env.hosts)}
           T == {Len(phases) - p : p \in in}
<1>1. Len(phases) \in Nat /\ DOMAIN phases = 1 .. Len(phases)
  BY Ranges
<1>2. T \in SUBSET Nat /\ T # {}
  BY <1>1
<1>3. Min(T) \in T /\ \A y \in T : Min(T) <= y
  <2> HIDE DEF T
  <2> QED
    BY <1>2, LeastIsThere
<1>4. PICK p \in in : Len(phases) - p = Min(T)
  BY <1>3
<1>5. ASSUME NEW q \in p + 1 .. Len(phases) PROVE n \notin Names(phases[q].env.hosts)
  <2>1. q \in DOMAIN phases /\ Len(phases) - q < Len(phases) - p
    BY <1>1
  <2>2. ~(Len(phases) - p <= Len(phases) - q)
    BY <1>1, <2>1
  <2>3. Len(phases) - q \notin T
    <3> HIDE DEF T
    <3> QED
      BY <1>3, <1>4, <2>2
  <2>4. q \notin in
    BY <2>3
  <2> QED
    BY <2>1, <2>4
<1>6. p \in DOMAIN phases /\ last(p)
  BY <1>5
<1> DEFINE c == CHOOSE q \in DOMAIN phases : last(q)
<1>7. c \in DOMAIN phases /\ last(c)
  <2> HIDE DEF last
  <2> QED
    BY <1>6
<1>8. Latest(n) = Of(phases[c].env.hosts, n)
  BY DEF Latest
<1> HIDE DEF c
<1> QED
  BY <1>7, <1>8

LEMMA UnionRight ==
  ASSUME PlanInv, phases # <<>>
  PROVE  /\ IsSeq(union_env.hosts)
         /\ \A h \in ToSet(union_env.hosts) : h.name \in HostNames /\ h.ip \in DOMAIN Zone
<1> DEFINE each == [p \in DOMAIN phases |->
                      [k \in DOMAIN phases[p].env.hosts |-> phases[p].env.hosts[k].name]]
           names == Together(each)
           union == [hosts |-> [k \in DOMAIN names |-> Latest(names[k])],
                     flows |-> Together([p \in DOMAIN phases |-> phases[p].env.flows])]
<1>1. /\ Len(phases) \in Nat /\ DOMAIN phases = 1 .. Len(phases)
      /\ \A p \in DOMAIN phases : PhaseRight(phases[p])
  BY Ranges DEF PlanInv
<1>2. union_env = IF Valid(union) THEN union ELSE phases[Len(phases)].env
  BY DEF union_env
<1>3. CASE union_env = phases[Len(phases)].env
  <2>1. EnvRight(phases[Len(phases)].env)
    BY <1>1 DEF PlanInv, IsSeq, PhaseRight
  <2> QED
    BY <1>3, <2>1 DEF EnvRight
<1>4. CASE union_env = union
  <2>1. IsSeq(each) /\ Len(each) = Len(phases)
    BY <1>1, FunctionIsSeq
  <2>2. ASSUME NEW p \in DOMAIN phases
        PROVE  IsSeq(each[p]) /\ ToSet(each[p]) = Names(phases[p].env.hosts)
    <3> DEFINE hosts == phases[p].env.hosts
               those == [k \in DOMAIN hosts |-> hosts[k].name]
    <3>1. DOMAIN hosts = 1 .. Len(hosts) /\ Len(hosts) \in Nat
      BY <1>1, Ranges DEF PhaseRight, EnvRight
    <3>2. each[p] = those
      OBVIOUS
    <3>3. IsSeq(those)
      BY <3>1, FunctionIsSeq
    <3>4. ToSet(those) = Names(hosts)
      BY DEF ToSet, Names
    <3> QED
      BY <3>2, <3>3, <3>4
  <2> HIDE DEF each
  <2>3. IsSeq(names) /\ ToSet(names) = UNION {ToSet(each[p]) : p \in 1 .. Len(phases)}
    <3>1. \A p \in 1 .. Len(each) : IsSeq(each[p])
      BY <1>1, <2>1, <2>2
    <3>2. Len(each) \in Nat
      BY <1>1, <2>1
    <3>3. IsSeq(names) /\ ToSet(names) = UNION {ToSet(each[p]) : p \in 1 .. Len(each)}
      BY <3>1, <3>2, TogetherHas
    <3> QED
      BY <3>3, <2>1
  <2> HIDE DEF names
  <2>4. Len(names) \in Nat /\ DOMAIN names = 1 .. Len(names)
    BY <2>3, Ranges
  <2> DEFINE hs == [k \in 1 .. Len(names) |-> Latest(names[k])]
  <2>5. union_env.hosts = hs
    BY <1>4, <2>4
  <2>6. IsSeq(hs)
    BY <2>4, FunctionIsSeq
  <2>7. ASSUME NEW h \in ToSet(hs) PROVE h.name \in HostNames /\ h.ip \in DOMAIN Zone
    <3>1. PICK k \in 1 .. Len(names) : h = Latest(names[k])
      BY DEF ToSet
    <3>2. names[k] \in ToSet(names)
      BY <2>4 DEF ToSet
    <3>3. PICK p \in DOMAIN phases : names[k] \in ToSet(each[p])
      BY <1>1, <2>3, <3>2
    <3>4. names[k] \in Names(phases[p].env.hosts)
      BY <2>2, <3>3
    <3>5. PICK q \in DOMAIN phases : /\ names[k] \in Names(phases[q].env.hosts)
                                     /\ h = Of(phases[q].env.hosts, names[k])
      BY <3>1, <3>4, LatestIsHost DEF PlanInv
    <3>6. h \in ToSet(phases[q].env.hosts)
      BY <3>5, OfName
    <3> QED
      BY <3>6, <1>1 DEF PhaseRight, EnvRight
  <2> HIDE DEF hs
  <2> QED
    BY <2>5, <2>6, <2>7
<1> QED
  BY <1>2, <1>3, <1>4

\* What depends on the phases only.
LEMMA EverSame ==
  ASSUME phases' = phases
  PROVE  /\ HostsEver' = HostsEver /\ PartiesEver' = PartiesEver
         /\ TalksEver' = TalksEver /\ FlowsEver' = FlowsEver
         /\ \A r : RowTrue(r) => RowTrue(r)'
<1>1. HostsEver' = HostsEver
  BY DEF HostsEver
<1>2. PartiesEver' = PartiesEver
  BY <1>1 DEF PartiesEver
<1>3. TalksEver' = TalksEver
  BY DEF TalksEver
<1>4. FlowsEver' = FlowsEver
  BY DEF FlowsEver
<1>5. \A r : RowTrue(r) => RowTrue(r)'
  BY DEF RowTrue
<1> QED
  BY <1>1, <1>2, <1>3, <1>4, <1>5

\* An entry stays right while phases go on.
LEMMA EntrySame ==
  ASSUME phases' = phases, i \in Nat, i' \in Nat, i <= i', NEW e, EntryRight(e),
         NEW k, log'[k] = e
  PROVE  EntryRight(log[k])'
<1>1. /\ HostsEver' = HostsEver /\ PartiesEver' = PartiesEver /\ FlowsEver' = FlowsEver
  BY EverSame
<1>2. e.built \in 1 .. i' /\ e.frame \in env_streams(phases[e.built])
  BY DEF EntryRight
<1>3. FlowRight(log[k])'
  BY <1>1 DEF EntryRight, FlowRight, Clear, Contested, Rival, RivalFlow
<1> QED
  BY <1>1, <1>2, <1>3 DEF EntryRight, Clear, Rival, env_streams

\* Whoever has had an address in a phase is one of the hosts ever.
LEMMA HistoryIsEver ==
  ASSUME PlanInv, NEW n, NEW a \in IpsOf(n)
  PROVE  \E h \in HostsEver : a \in {h.ip, h.mac} /\ n = h.name
<1>1. PICK p \in {q \in ToSet(phases) : n \in Names(q.env.hosts)} : a = Of(p.env.hosts, n).ip
  BY DEF IpsOf
<1>2. PICK q \in DOMAIN phases : p = phases[q]
  BY <1>1 DEF ToSet
<1>3. PhaseRight(p)
  BY <1>2, Ranges DEF PlanInv
<1>4. Of(p.env.hosts, n) \in HostsOf(p) /\ Of(p.env.hosts, n).name = n
  BY <1>1, <1>3, HostInPhase
<1>5. Of(p.env.hosts, n) \in HostsEver
  BY <1>2, <1>4, EverHas
<1> QED
  BY <1>1, <1>4, <1>5

LEMMA StartTells == PhasesInv /\ PlanInv /\ TellsInv /\ Start => TellsInv'
<1> SUFFICES ASSUME PhasesInv, PlanInv, TellsInv, Start PROVE TellsInv'
  OBVIOUS
<1>1. /\ stage = "plan" /\ stage' = "launched" /\ phases # <<>> /\ i = 0 /\ log = <<>>
      /\ i' = i /\ log' = log /\ phases' = phases /\ campaign(union_env)
  BY DEF Start, Launch, PhasesInv, ClockRight
<1>2. IsSeq(union_env.hosts) /\ \A h \in ToSet(union_env.hosts) : h.name \in HostNames
  BY <1>1, UnionRight
<1> DEFINE rows == [k \in DOMAIN union_env.hosts |-> Row(union_env.hosts[k])]
           es == [k \in DOMAIN rows |-> [keys |-> rows[k].ip_history, value |-> rows[k].name]]
<1>3. inventory'.hosts = rows
  BY <1>1 DEF campaign
<1>4. /\ addr_aid' = SetDefaults(addr_aid, es)
      /\ flowidx' = flowidx /\ l2src' = l2src /\ new_assets' = new_assets
  BY <1>1, <1>3 DEF campaign
<1>5. \A k \in DOMAIN rows : /\ rows[k] = Row(union_env.hosts[k])
                             /\ union_env.hosts[k] \in ToSet(union_env.hosts)
  BY DEF ToSet
<1>6. ASSUME NEW k \in DOMAIN rows
      PROVE  RowTrue(rows[k]) /\ rows[k].ip_history = IpsOf(rows[k].name)
  <2> DEFINE h == union_env.hosts[k]
  <2>1. rows[k] = Row(h) /\ h.name \in HostNames
    BY <1>2, <1>5
  <2> HIDE DEF rows, h
  <2> QED
    BY <2>1 DEF Row, RowTrue
<1>7. IsSeq(rows)
  <2>1. rows = [k \in DOMAIN union_env.hosts |-> rows[k]]
    OBVIOUS
  <2> HIDE DEF rows
  <2> QED
    BY <1>2, <2>1, MappedIsSeq
<1> HIDE DEF rows
<1>8. IsSeq(es) /\ ToSet(es) = {es[k] : k \in DOMAIN rows}
  <2>1. es = [k \in DOMAIN rows |-> es[k]]
    OBVIOUS
  <2> HIDE DEF es
  <2> QED
    BY <1>7, <2>1, MappedIsSeq
<1>9. \A e \in ToSet(es) : \E k \in DOMAIN rows : e.keys = IpsOf(rows[k].name)
                                                  /\ e.value = rows[k].name
  BY <1>6, <1>8
<1> HIDE DEF es
<1>10. Owned(addr_aid', HostsEver)
  <2>1. Defaulted(addr_aid, es, addr_aid')
    BY <1>4, <1>8, SetDefaultsHas
  <2>2. Owned(addr_aid, HostsEver)
    BY DEF TellsInv, IndexRight, Indexes
  <2> SUFFICES ASSUME NEW a \in DOMAIN addr_aid'
               PROVE  \E h \in HostsEver : a \in {h.ip, h.mac} /\ addr_aid'[a] = h.name
    BY DEF Owned
  <2>3. CASE a \in DOMAIN addr_aid
    BY <2>1, <2>2, <2>3 DEF Owned, Defaulted
  <2>4. CASE a \notin DOMAIN addr_aid
    <3>1. PICK e \in ToSet(es) : a \in e.keys /\ addr_aid'[a] = e.value
      BY <2>1, <2>4 DEF Defaulted
    <3>2. PICK k \in DOMAIN rows : a \in IpsOf(rows[k].name) /\ addr_aid'[a] = rows[k].name
      BY <1>9, <3>1
    <3> QED
      BY <3>2, HistoryIsEver
  <2> QED
    BY <2>3, <2>4
<1>11. IndexRight(Indexes', HostsEver', TalksEver', PartiesEver')
  <2>1. /\ HostsEver' = HostsEver /\ TalksEver' = TalksEver /\ PartiesEver' = PartiesEver
    BY <1>1, EverSame
  <2>2. IndexRight(Indexes', HostsEver, TalksEver, PartiesEver)
    BY <1>4, <1>10 DEF TellsInv, IndexRight, Indexes
  <2> QED
    BY <2>1, <2>2
<1>12. \A r \in ToSet(rows) : RowTrue(r)'
  BY <1>1, <1>6, EverSame DEF ToSet
<1>13. i' <= Len(phases')
  BY <1>1 DEF TellsInv
<1> QED
  BY <1>1, <1>3, <1>11, <1>12, <1>13, Empty DEF TellsInv

LEMMA BeginTells == PhasesInv /\ PlanInv /\ TellsInv /\ BeginPhase => TellsInv'
<1> SUFFICES ASSUME PhasesInv, PlanInv, TellsInv, BeginPhase PROVE TellsInv'
  OBVIOUS
<1> DEFINE ph == phases[i + 1]
<1>1. /\ i < Len(phases) /\ i' = i + 1 /\ i \in Nat /\ Len(phases) \in Nat
      /\ phases' = phases /\ stage' = stage /\ log' = log /\ inventory' = inventory
      /\ IndexesAre(Indexed(ph.env, ph.sprinkle)[Len(ph.sprinkle)])
  BY Ranges DEF BeginPhase, begin_phase, _index, plan, PhasesInv, ClockRight, PlanInv
<1>2. i + 1 \in DOMAIN phases /\ PhaseRight(ph)
  <2>1. i + 1 \in 1 .. Len(phases) /\ DOMAIN phases = 1 .. Len(phases)
    BY <1>1, Ranges DEF PlanInv
  <2> QED
    BY <2>1 DEF PlanInv
<1>3. /\ HostsOf(ph) \subseteq HostsEver /\ HostsEver \subseteq PartiesEver
      /\ PartiesOf(ph) \subseteq PartiesEver /\ TalksOf(ph) \subseteq TalksEver
  <2>1. TalksOf(ph) \subseteq TalksEver
    BY <1>2 DEF TalksEver
  <2> QED
    BY <1>2, <2>1, EverHas, PartiesHave
<1> HIDE DEF ph
<1> DEFINE z == Indexed(ph.env, ph.sprinkle)[Len(ph.sprinkle)]
<1>4. /\ IndexRight(z, HostsEver, TalksEver, PartiesEver)
      /\ DOMAIN addr_aid \subseteq DOMAIN z.known /\ Has(z.known, HostsOf(ph))
      /\ \A t : Covers(Indexes, t) \/ t \in TalksOf(ph) => Covers(z, t)
  BY <1>2, <1>3, NamesEver, IndexKeeps DEF TellsInv
<1>5. /\ DOMAIN Indexes' = {"known", "flows", "senders", "arrived"}
      /\ Indexes'.known = z.known /\ Indexes'.flows = z.flows /\ Indexes'.senders = z.senders
      /\ addr_aid' = z.known
  BY <1>1 DEF IndexesAre, Indexes
<1> HIDE DEF z
<1>6. /\ IndexRight(Indexes', HostsEver, TalksEver, PartiesEver)
      /\ \A t : Covers(z, t) => Covers(Indexes', t)
  <2> DEFINE y == Indexes'
  <2>1. /\ DOMAIN y = DOMAIN z /\ y.known = z.known /\ y.flows = z.flows
        /\ y.senders = z.senders
    BY <1>4, <1>5 DEF IndexRight
  <2> HIDE DEF y
  <2>2. /\ IndexRight(y, HostsEver, TalksEver, PartiesEver)
        /\ \A t : Covers(z, t) => Covers(y, t)
    BY <1>4, <2>1, IndexSame
  <2> QED
    BY <2>2 DEF y
<1>7. IndexRight(Indexes', HostsEver', TalksEver', PartiesEver')
  BY <1>1, <1>6, EverSame
<1>8. ASSUME NEW p \in 1 .. i' PROVE Entered(phases[p])'
  <2>1. CASE p = i + 1
    <3>1. phases'[p] = ph
      BY <2>1, <1>1 DEF ph
    <3>2. Has(addr_aid', HostsOf(ph)) /\ \A t \in TalksOf(ph) : Covers(Indexes', t)
      BY <1>4, <1>5, <1>6
    <3> QED
      BY <3>1, <3>2 DEF Entered
  <2>2. CASE p # i + 1
    <3>1. p \in 1 .. i
      BY <2>2, <1>1
    <3> DEFINE q == phases[p]
    <3>2. Has(addr_aid, HostsOf(q)) /\ \A t \in TalksOf(q) : Covers(Indexes, t)
      BY <3>1 DEF TellsInv, Entered
    <3> HIDE DEF q
    <3>3. Has(addr_aid', HostsOf(q)) /\ \A t \in TalksOf(q) : Covers(Indexes', t)
      BY <3>2, <1>4, <1>5, <1>6 DEF Has
    <3>4. phases'[p] = q
      BY <1>1 DEF q
    <3> QED
      BY <3>3, <3>4 DEF Entered
  <2> QED
    BY <2>1, <2>2
<1>9. \A k \in 1 .. Len(log') : EntryRight(log[k])'
  <2> SUFFICES ASSUME NEW k \in 1 .. Len(log) PROVE EntryRight(log[k])'
    BY <1>1
  <2>1. EntryRight(log[k]) /\ i' \in Nat /\ i <= i'
    BY <1>1 DEF TellsInv
  <2>2. log'[k] = log[k]
    BY <1>1
  <2> QED
    BY <1>1, <2>1, <2>2, EntrySame
<1>10. \A r \in ToSet(inventory'.hosts) : RowTrue(r)'
  BY <1>1, EverSame DEF TellsInv
<1>11. i' <= Len(phases') /\ (stage' = "plan" => inventory'.hosts = <<>>)
  BY <1>1 DEF TellsInv
<1> QED
  BY <1>7, <1>8, <1>9, <1>10, <1>11 DEF TellsInv

LEMMA SendTells == PhasesInv /\ PlanInv /\ TellsInv /\ SendFrame => TellsInv'
<1> SUFFICES ASSUME PhasesInv, PlanInv, TellsInv, SendFrame PROVE TellsInv'
  OBVIOUS
<1>1. PICK gap \in Gaps, built \in 1 .. i : \E f \in env_streams(phases[built]) :
        /\ observe(now + gap, f)
        /\ log' = Append(log, [frame |-> f, ts |-> now + gap, phase |-> i, built |-> built,
                               asset |-> Source(f), flow |-> FlowOf(f)])
  BY DEF SendFrame
<1>2. PICK f \in env_streams(phases[built]) :
        /\ observe(now + gap, f)
        /\ log' = Append(log, [frame |-> f, ts |-> now + gap, phase |-> i, built |-> built,
                               asset |-> Source(f), flow |-> FlowOf(f)])
  BY <1>1
<1> DEFINE e == [frame |-> f, ts |-> now + gap, phase |-> i, built |-> built,
                 asset |-> Source(f), flow |-> FlowOf(f)]
<1>3. /\ i' = i /\ stage' = stage /\ phases' = phases
      /\ inventory' = inventory /\ addr_aid' = addr_aid /\ Indexes' = Indexes
  BY <1>2 DEF SendFrame, plan, observe, index, Indexes
<1>4. i \in Nat /\ i <= Len(phases) /\ Len(phases) \in Nat /\ DOMAIN phases = 1 .. Len(phases)
  BY Ranges DEF PhasesInv, ClockRight, PlanInv, TellsInv
<1>5. built \in DOMAIN phases /\ PhaseRight(phases[built])
  <2>1. built \in 1 .. Len(phases)
    BY <1>4
  <2> QED
    BY <2>1, <1>4 DEF PlanInv
<1>6. Told(f, HostsOf(phases[built]))
  BY <1>2, <1>5, FramesTold DEF FrameOf
<1>7. ASSUME Clear(HostsEver, f) PROVE Source(f) = IF f.from = None THEN f.smac ELSE f.from
  <2>1. Owned(addr_aid, HostsEver) /\ Has(addr_aid, HostsOf(phases[built]))
    BY <1>1 DEF TellsInv, IndexRight, Indexes, Entered
  <2>2. HostsOf(phases[built]) \subseteq HostsEver
    BY <1>5, EverHas
  <2>3. \A h \in HostsEver : h.name # None
    BY NamesEver
  <2> QED
    BY <2>1, <2>2, <2>3, <1>6, <1>7, SourceIsSender
<1>8. /\ e.frame = f /\ e.built = built /\ e.asset = Source(f)
      /\ log' = Append(log, e)
  BY <1>2
<1>a. e.flow = FlowOf(f)
  OBVIOUS
<1> HIDE DEF e
<1>b. FlowRight(e)
  BY <1>1, <1>2, <1>5, <1>8, <1>a, FrameFlow DEF TellsInv
<1>9. EntryRight(e)
  BY <1>1, <1>2, <1>7, <1>8, <1>b DEF EntryRight
<1>10. /\ Len(log) \in Nat /\ Len(log') = Len(log) + 1 /\ log'[Len(log) + 1] = e
       /\ \A k \in 1 .. Len(log) : log'[k] = log[k]
  BY <1>8, Appended DEF PhasesInv, LogRight
<1>11. ASSUME NEW k \in 1 .. Len(log') PROVE EntryRight(log[k])'
  <2>1. CASE k \in 1 .. Len(log)
    <3>1. EntryRight(log[k]) /\ log'[k] = log[k]
      BY <2>1, <1>10 DEF TellsInv
    <3> QED
      BY <3>1, <1>3, <1>4, EntrySame
  <2>2. CASE k = Len(log) + 1
    BY <2>2, <1>3, <1>4, <1>9, <1>10, EntrySame
  <2> QED
    BY <2>1, <2>2, <1>10
<1>12. IndexRight(Indexes', HostsEver', TalksEver', PartiesEver')
  BY <1>3, EverSame DEF TellsInv
<1>13. \A r \in ToSet(inventory'.hosts) : RowTrue(r)'
  BY <1>3, EverSame DEF TellsInv
<1>14. \A p \in 1 .. i' : Entered(phases[p])'
  BY <1>3 DEF Entered, TellsInv
<1>15. i' <= Len(phases') /\ (stage' = "plan" => inventory'.hosts = <<>>)
  BY <1>3 DEF TellsInv
<1> QED
  BY <1>11, <1>12, <1>13, <1>14, <1>15 DEF TellsInv

\* Steps that change neither addresses nor the log.
LEMMA RestTells ==
  ASSUME TellsInv, PhasesInv, UNCHANGED <<i, log, stage, phases, inventory, index>>
  PROVE  TellsInv'
<1>1. ASSUME NEW k \in 1 .. Len(log') PROVE EntryRight(log[k])'
  <2>1. EntryRight(log[k]) /\ log'[k] = log[k] /\ i \in Nat /\ i' = i
    BY DEF TellsInv, PhasesInv, ClockRight
  <2> QED
    BY <2>1, EntrySame
<1>0. Indexes' = Indexes /\ addr_aid' = addr_aid
  BY DEF Indexes, index
<1>2. IndexRight(Indexes', HostsEver', TalksEver', PartiesEver')
  BY <1>0, EverSame DEF TellsInv
<1>3. \A r \in ToSet(inventory'.hosts) : RowTrue(r)'
  BY EverSame DEF TellsInv
<1>4. \A p \in 1 .. i' : Entered(phases[p])'
  BY <1>0 DEF Entered, TellsInv
<1>5. i' <= Len(phases') /\ (stage' = "plan" => inventory'.hosts = <<>>)
  BY DEF TellsInv
<1> QED
  BY <1>1, <1>2, <1>3, <1>4, <1>5 DEF TellsInv

LEMMA NextTells == PhasesInv /\ PlanInv /\ TellsInv /\ [Next]_vars => TellsInv'
<1> SUFFICES ASSUME PhasesInv, PlanInv, TellsInv, [Next]_vars PROVE TellsInv'
  OBVIOUS
<1>1. CASE Plan
  BY <1>1, PlanTells
<1>2. CASE Start
  BY <1>2, StartTells
<1>3. CASE BeginPhase
  BY <1>3, BeginTells
<1>4. CASE SendFrame
  BY <1>4, SendTells
<1>5. CASE EndPhase \/ StopRun \/ UNCHANGED vars
  <2>1. UNCHANGED <<i, log, stage, phases, inventory, index>>
    BY <1>5 DEF EndPhase, StopRun, end_phase, plan, manifest, index, run, vars
  <2> QED
    BY <2>1, RestTells
<1> QED
  BY <1>1, <1>2, <1>3, <1>4, <1>5 DEF Next

LEMMA Tells == Spec => [](PhasesInv /\ PlanInv /\ TellsInv)
<1>1. Init => PhasesInv /\ PlanInv /\ TellsInv
  BY PhasesStart, PlanStart, TellsStart
<1>2. PhasesInv /\ PlanInv /\ TellsInv /\ [Next]_vars => (PhasesInv /\ PlanInv /\ TellsInv)'
  BY NextPhases, NextPlan, NextTells
<1> QED
  BY <1>1, <1>2, PTL DEF Spec

\* Frames are credited to who sent them, in every campaign: whatever the phases
\* change, in whatever order frames go out (_resolve of manifest.py).
THEOREM FramesAreAttributed == Spec => []Attributed
<1>1. PhasesInv /\ TellsInv => Attributed
  <2> SUFFICES ASSUME PhasesInv, TellsInv, NEW k \in DOMAIN log, Clear(HostsEver, log[k].frame)
               PROVE  log[k].asset = IF log[k].frame.from = None THEN log[k].frame.smac
                                                                  ELSE log[k].frame.from
    BY DEF Attributed
  <2>1. k \in 1 .. Len(log)
    BY Ranges DEF PhasesInv, LogRight
  <2> QED
    BY <2>1 DEF TellsInv, EntryRight
<1> QED
  BY <1>1, Tells, PTL

\* Nothing of the baseline is credited to an asset in a phase in which the
\* manifest says that it is away (env_streams against campaign's rows).
THEOREM OnlySendersOnline == Spec => []OnlineOnly
<1>1. PhasesInv /\ PlanInv /\ TellsInv => OnlineOnly
  <2> SUFFICES ASSUME PhasesInv, PlanInv, TellsInv, NEW k \in DOMAIN log,
                      NEW r \in ToSet(inventory.hosts),
                      log[k].frame.source = "baseline", r.name = log[k].asset,
                      Clear(HostsEver, log[k].frame)
               PROVE  log[k].built \in r.online_phases
    BY DEF OnlineOnly
  <2> DEFINE f == log[k].frame
             ph == phases[log[k].built]
  <2>1. k \in 1 .. Len(log)
    BY Ranges DEF PhasesInv, LogRight
  <2>2. /\ log[k].built \in 1 .. i /\ f \in env_streams(ph)
        /\ r.name = IF f.from = None THEN f.smac ELSE f.from
        /\ RowTrue(r)
    BY <2>1 DEF TellsInv, EntryRight
  <2>3. log[k].built \in DOMAIN phases /\ PhaseRight(ph)
    <3>1. /\ i \in Nat /\ i <= Len(phases) /\ Len(phases) \in Nat
          /\ DOMAIN phases = 1 .. Len(phases)
      BY Ranges DEF PhasesInv, ClockRight, PlanInv, TellsInv
    <3>2. log[k].built \in 1 .. Len(phases)
      BY <2>2, <3>1
    <3> QED
      BY <3>1, <3>2 DEF PlanInv
  <2> HIDE DEF f, ph
  <2>4. \/ f.from = None /\ f.smac \in {GatewayMac(Zone[a]) : a \in DOMAIN Zone}
        \/ f.from # None /\ f.from \in Names(ph.env.hosts) \ ph.offline
    BY <2>2, <2>3, FramesTold DEF FrameOf, Online, f
  <2>5. r.name \notin {GatewayMac(Zone[a]) : a \in DOMAIN Zone}
    BY <2>2, NamesAreNames DEF RowTrue
  <2>6. r.name \in Names(ph.env.hosts) \ ph.offline
    BY <2>2, <2>4, <2>5
  <2> QED
    BY <2>2, <2>3, <2>6 DEF RowTrue, ph
<1> QED
  BY <1>1, Tells, PTL

\* A frame is counted in its own conversation's row, or else there is, or has
\* been, another conversation of the two hosts: however addresses move, the four
\* keys of _resolve and its fallback find no row of somebody else's.
THEOREM FlowsAreTrue == Spec => []FlowsTrue
<1>1. PhasesInv /\ TellsInv => FlowsTrue
  <2> SUFFICES ASSUME PhasesInv, TellsInv, NEW k \in DOMAIN log,
                      log[k].frame.conv # <<>>,
                      <<log[k].flow[1], log[k].flow[2]>>
                        # <<log[k].frame.conv[1], log[k].frame.conv[2]>>,
                      Clear(PartiesEver, log[k].frame), ~Contested(PartiesEver, log[k].frame.d)
               PROVE  \E g \in FlowsEver : RivalFlow(log[k].frame, g)
    BY DEF FlowsTrue, RivalFlow
  <2>1. k \in 1 .. Len(log)
    BY Ranges DEF PhasesInv, LogRight
  <2> QED
    BY <2>1 DEF TellsInv, EntryRight, FlowRight
<1> QED
  BY <1>1, Tells, PTL

-----------------------------------------------------------------------------
(* The manifest and a monitor's export.                                    *)

\* Nobody is found, or a.
Nobody(a) == {{}, {a}}

LEMMA OnlyNobody ==
  ASSUME NEW a, NEW S
  PROVE  /\ S \in Nobody(a) => Only(S) = S
         /\ a \in S => Only(S) \in Nobody(a)
BY DEF Only, Nobody

\* The first of a sequence of findings.
LEMMA FirstOfNobody ==
  ASSUME NEW a, NEW found, DOMAIN found \subseteq Nat,
         \A k \in DOMAIN found : found[k] \in Nobody(a)
  PROVE  /\ FirstOf(found) \in Nobody(a)
         /\ (\E k \in DOMAIN found : found[k] = {a}) => FirstOf(found) = {a}
<1> DEFINE hits == {k \in DOMAIN found : found[k] # {}}
<1>1. FirstOf(found) = IF hits = {} THEN {} ELSE found[Min(hits)]
  BY DEF FirstOf
<1>2. CASE hits = {}
  BY <1>1, <1>2 DEF Nobody
<1>3. CASE hits # {}
  <2>1. hits \in SUBSET Nat
    OBVIOUS
  <2>2. Min(hits) \in hits
    <3> HIDE DEF hits
    <3> QED
      BY <1>3, <2>1, LeastIsThere
  <2>3. found[Min(hits)] = {a}
    BY <2>2 DEF Nobody
  <2> QED
    BY <1>1, <1>3, <2>3 DEF Nobody
<1> QED
  BY <1>2, <1>3

\* Whatever finds the asset of a row, if nothing finds another one.
LEMMA MatchIs ==
  ASSUME NEW t, NEW r, NEW a,
         {ByMac(t, r), ByVlan(t, r), ByIp(t, r), ByName(t, r)} \subseteq Nobody(a),
         \/ a \in ByMac(t, r) \cup ByVlan(t, r) \cup ByIp(t, r)
         \/ /\ (ToSet(r.ips) \cup ToSet(r.macs)) \cap (t.external \cup t.infra) = {}
            /\ a \in ByName(t, r)
  PROVE  LET m == Match(t, r)
         IN m.asset = a.id /\ m.bucket = "matched" /\ m.method \in Nat
<1> DEFINE apart == (ToSet(r.ips) \cup ToSet(r.macs)) \cap (t.external \cup t.infra) # {}
           last == IF apart THEN {} ELSE ByName(t, r)
           found == <<ByMac(t, r), ByVlan(t, r), ByIp(t, r), last>>
           how == {k \in DOMAIN found : found[k] # {}}
<1>1. Match(t, r) = IF how # {} THEN [asset |-> Id(found[Min(how)]), method |-> Min(how),
                                      bucket |-> "matched"]
                    ELSE [asset |-> None, method |-> 0,
                          bucket |-> IF apart THEN "apart" ELSE "false-positive"]
  BY DEF Match
<1>2. last \in Nobody(a)
  BY DEF Nobody
<1>3. /\ a \in ByMac(t, r) \cup ByVlan(t, r) \cup ByIp(t, r) \cup last
  OBVIOUS
<1> HIDE DEF apart, last
<1>4. /\ DOMAIN found = 1 .. 4 /\ 1 .. 4 = {1, 2, 3, 4} /\ found[1] = ByMac(t, r)
      /\ found[2] = ByVlan(t, r) /\ found[3] = ByIp(t, r) /\ found[4] = last
  OBVIOUS
<1> HIDE DEF found
<1>5. (\A k \in 1 .. 4 : found[k] \in Nobody(a)) /\ \E k \in 1 .. 4 : a \in found[k]
  BY <1>2, <1>3, <1>4
<1>6. how \in SUBSET Nat /\ how # {}
  BY <1>4, <1>5
<1>7. Min(how) \in how
  <2> HIDE DEF how
  <2> QED
    BY <1>6, LeastIsThere
<1>8. found[Min(how)] = {a}
  BY <1>4, <1>5, <1>7 DEF Nobody
<1>9. Match(t, r) = [asset |-> Id({a}), method |-> Min(how), bucket |-> "matched"]
  BY <1>1, <1>6, <1>8
<1>10. Id({a}) = a.id
  BY DEF Id
<1>11. Min(how) \in Nat
  BY <1>6, <1>7
<1> HIDE DEF how
<1> QED
  BY <1>9, <1>10, <1>11

\* What finds the assets of a row, the candidates of each of its addresses.
LEMMA RowNobody ==
  ASSUME NEW t, NEW r, NEW a, IsSeq(r.ips), IsSeq(r.macs),
         \A m \in ToSet(r.macs) \ t.infra : pick({b \in t.assets : b.mac = m}, r) \in Nobody(a),
         \A x \in ToSet(r.ips) : /\ Only({b \in t.assets : b.ip = x /\ b.vlan = r.vlan}) \in Nobody(a)
                                 /\ Only({b \in t.assets : b.ip = x}) \in Nobody(a)
  PROVE  /\ {ByMac(t, r), ByVlan(t, r), ByIp(t, r)} \subseteq Nobody(a)
         /\ \A m \in ToSet(r.macs) \ t.infra :
              pick({b \in t.assets : b.mac = m}, r) = {a} => ByMac(t, r) = {a}
         /\ \A x \in ToSet(r.ips) : Only({b \in t.assets : b.ip = x}) = {a} => ByIp(t, r) = {a}
<1> DEFINE own(m) == {b \in t.assets : b.mac = m}
           vs(x) == Only({b \in t.assets : b.ip = x /\ b.vlan = r.vlan})
           is(x) == Only({b \in t.assets : b.ip = x})
           ms(m) == IF m \in t.infra THEN {} ELSE pick(own(m), r)
           macs == [k \in DOMAIN r.macs |-> ms(r.macs[k])]
           vlans == [k \in DOMAIN r.ips |-> vs(r.ips[k])]
           ips == [k \in DOMAIN r.ips |-> is(r.ips[k])]
<1>1. ByMac(t, r) = FirstOf(macs) /\ ByVlan(t, r) = FirstOf(vlans) /\ ByIp(t, r) = FirstOf(ips)
  BY DEF ByMac, ByVlan, ByIp
<1>2. /\ \A m \in ToSet(r.macs) : ms(m) \in Nobody(a)
      /\ \A m \in ToSet(r.macs) \ t.infra : ms(m) = pick(own(m), r)
  BY DEF Nobody
<1>3. \A x \in ToSet(r.ips) : vs(x) \in Nobody(a) /\ is(x) \in Nobody(a)
  OBVIOUS
<1>4. DOMAIN r.macs \subseteq Nat /\ DOMAIN r.ips \subseteq Nat
  <2>1. Len(r.macs) \in Nat /\ Len(r.ips) \in Nat
    BY Ranges
  <2>2. DOMAIN r.macs = 1 .. Len(r.macs) /\ DOMAIN r.ips = 1 .. Len(r.ips)
    BY Ranges
  <2> QED
    BY <2>1, <2>2
<1> HIDE DEF vs, is, ms, own
<1>5. /\ \A k \in DOMAIN macs : macs[k] = ms(r.macs[k]) /\ r.macs[k] \in ToSet(r.macs)
      /\ \A k \in DOMAIN vlans : vlans[k] = vs(r.ips[k]) /\ r.ips[k] \in ToSet(r.ips)
      /\ \A k \in DOMAIN ips : ips[k] = is(r.ips[k]) /\ r.ips[k] \in ToSet(r.ips)
      /\ DOMAIN macs = DOMAIN r.macs /\ DOMAIN vlans = DOMAIN r.ips /\ DOMAIN ips = DOMAIN r.ips
  BY DEF ToSet
<1> HIDE DEF macs, vlans, ips
<1>6. /\ FirstOf(macs) \in Nobody(a)
      /\ (\E k \in DOMAIN macs : macs[k] = {a}) => FirstOf(macs) = {a}
  BY <1>2, <1>4, <1>5, FirstOfNobody
<1>7. FirstOf(vlans) \in Nobody(a)
  BY <1>3, <1>4, <1>5, FirstOfNobody
<1>8. /\ FirstOf(ips) \in Nobody(a)
      /\ (\E k \in DOMAIN ips : ips[k] = {a}) => FirstOf(ips) = {a}
  BY <1>3, <1>4, <1>5, FirstOfNobody
<1>9. ASSUME NEW m \in ToSet(r.macs) \ t.infra, pick(own(m), r) = {a} PROVE ByMac(t, r) = {a}
  <2>1. PICK k \in DOMAIN r.macs : m = r.macs[k]
    BY DEF ToSet
  <2> QED
    BY <2>1, <1>1, <1>2, <1>5, <1>6, <1>9
<1>10. ASSUME NEW x \in ToSet(r.ips), is(x) = {a} PROVE ByIp(t, r) = {a}
  <2>1. PICK k \in DOMAIN r.ips : x = r.ips[k]
    BY DEF ToSet
  <2> QED
    BY <2>1, <1>1, <1>5, <1>8, <1>10
<1> QED
  BY <1>1, <1>6, <1>7, <1>8, <1>9, <1>10 DEF own, is

\* The values of a function.
LEMMA FiniteRange ==
  ASSUME NEW S, IsFiniteSet(S), NEW f, f = [x \in S |-> f[x]]
  PROVE  IsFiniteSet({f[x] : x \in S})
<1> DEFINE T == {f[x] : x \in S}
<1>1. f \in [S -> T]
  OBVIOUS
<1>2. \A y \in T : \E x \in S : f[x] = y
  OBVIOUS
<1> HIDE DEF T
<1>3. f \in Surjection(S, T)
  BY <1>1, <1>2 DEF Surjection
<1>4. IsFiniteSet(T)
  BY <1>3, FS_Surjection
<1> QED
  BY <1>4 DEF T

\* A finite set as a sequence: each of its elements, once.
LEMMA ListsAll ==
  ASSUME NEW S, IsFiniteSet(S)
  PROVE  LET s == SetToSeq(S)
         IN /\ DOMAIN s \subseteq Nat
            /\ \A j \in DOMAIN s : s[j] \in S
            /\ \A j, k \in DOMAIN s : s[j] = s[k] => j = k
            /\ \A x \in S : \E j \in DOMAIN s : s[j] = x
<1> DEFINE N == 1 .. Cardinality(S)
           s == SetToSeq(S)
<1>1. Cardinality(S) \in Nat /\ ExistsBijection(N, S)
  BY FS_CardinalityType
<1>2. N \subseteq Nat /\ IsFiniteSet(N) /\ Cardinality(N) = Cardinality(S)
  BY <1>1, FS_Interval
<1> HIDE DEF N
<1>3. PICK f : f \in Bijection(N, S)
  BY <1>1 DEF ExistsBijection
<1>4. f \in [N -> S] /\ IsInjective(f)
  BY <1>3 DEF Bijection, Injection, IsInjective
<1>5. s = CHOOSE g \in [N -> S] : IsInjective(g)
  BY DEF SetToSeq, N
<1>6. s \in [N -> S] /\ IsInjective(s)
  <2> HIDE DEF s
  <2> QED
    BY <1>4, <1>5
<1> HIDE DEF s
<1>7. s \in Injection(N, S)
  BY <1>6 DEF Injection, IsInjective
<1>8. s \in Surjection(N, S)
  BY <1>2, <1>7, FS_Injection
<1>9. \A x \in S : \E j \in N : s[j] = x
  BY <1>8 DEF Surjection
<1> QED
  BY <1>2, <1>6, <1>9 DEF IsInjective, s

\* A sequence of one.
LEMMA OneIs ==
  ASSUME NEW x
  PROVE  IsSeq(<<x>>) /\ ToSet(<<x>>) = {x} /\ <<x>>[1] = x
<1>1. <<x>> \in Seq({x}) /\ DOMAIN <<x>> = {1} /\ <<x>>[1] = x
  OBVIOUS
<1>2. {<<x>>[k] : k \in DOMAIN <<x>>} = {x}
  BY <1>1
<1> QED
  BY <1>1, <1>2 DEF IsSeq, ToSet

\* An asset's row in the export, in which nobody else has its name.
ExportRow(a) == [ips |-> <<a.ip>>, macs |-> <<a.mac>>, vlan |-> a.vlan, name |-> a.name]

LEMMA ExportMatches ==
  ASSUME NEW t, t.external = {}, NEW a \in t.assets,
         \A b \in t.assets : b.id = b.name, Alone(t, a),
         a.ip \notin t.infra, a.mac \notin t.infra
  PROVE  LET m == Match(t, ExportRow(a))
         IN m.asset = a.id /\ m.bucket = "matched" /\ m.method \in Nat
<1> DEFINE r == ExportRow(a)
<1>1. r.ips = <<a.ip>> /\ r.macs = <<a.mac>> /\ r.name = a.name /\ r.vlan = a.vlan
  BY DEF ExportRow
<1> HIDE DEF r
<1>2. /\ IsSeq(r.ips) /\ IsSeq(r.macs) /\ ToSet(r.ips) = {a.ip} /\ ToSet(r.macs) = {a.mac}
  BY <1>1, OneIs
<1>3. pick({b \in t.assets : b.mac = a.mac}, r) \in Nobody(a)
  <2> DEFINE S == {b \in t.assets : b.mac = a.mac}
             S2 == {b \in S : b.ip \in ToSet(r.ips)}
  <2>1. a \in S /\ a \in S2
    BY <1>2
  <2> HIDE DEF S, S2
  <2>2. Only(S) \in Nobody(a) /\ Only(S2) \in Nobody(a)
    BY <2>1, OnlyNobody
  <2>3. Only(S) # {} => S = {a}
    BY <2>1 DEF Only
  <2>4. pick(S, r) = IF Only(S) # {} THEN S ELSE Only(S2)
    BY DEF pick, S2
  <2>5. pick(S, r) \in Nobody(a)
    BY <2>2, <2>3, <2>4 DEF Nobody
  <2> QED
    BY <2>5 DEF S
<1>4. /\ Only({b \in t.assets : b.ip = a.ip /\ b.vlan = r.vlan}) \in Nobody(a)
      /\ Only({b \in t.assets : b.ip = a.ip}) \in Nobody(a)
  BY <1>1, OnlyNobody
<1>5. {ByMac(t, r), ByVlan(t, r), ByIp(t, r)} \subseteq Nobody(a)
  <2>1. /\ \A m \in ToSet(r.macs) \ t.infra : pick({b \in t.assets : b.mac = m}, r) \in Nobody(a)
        /\ \A x \in ToSet(r.ips) :
             /\ Only({b \in t.assets : b.ip = x /\ b.vlan = r.vlan}) \in Nobody(a)
             /\ Only({b \in t.assets : b.ip = x}) \in Nobody(a)
    BY <1>2, <1>3, <1>4
  <2>2. IsSeq(r.ips) /\ IsSeq(r.macs)
    BY <1>2
  <2> QED
    BY <2>1, <2>2, RowNobody, Z3
<1>6. ByName(t, r) = {a}
  <2>1. {b \in t.assets : b.name = r.name} = {a}
    BY <1>1 DEF Alone
  <2> QED
    BY <2>1 DEF ByName, Only
<1>7. (ToSet(r.ips) \cup ToSet(r.macs)) \cap (t.external \cup t.infra) = {}
  BY <1>2
<1>8. LET m == Match(t, r) IN m.asset = a.id /\ m.bucket = "matched" /\ m.method \in Nat
  BY <1>5, <1>6, <1>7, MatchIs DEF Nobody
<1> QED
  BY <1>8 DEF r

LEMMA ExportIsPerfect ==
  ASSUME NEW t, t.external = {}, IsFiniteSet(t.assets),
         \A a \in t.assets : /\ a.id = a.name /\ a.name # None /\ Alone(t, a)
                             /\ a.ip \notin t.infra /\ a.mac \notin t.infra
  PROVE  Perfect(score(t, perfect_export(t)))
<1> DEFINE P == population(t)
           row == [a \in P |-> ExportRow(a)]
           R == {row[a] : a \in P}
           rows == SetToSeq(R)
           M == [k \in DOMAIN rows |-> Match(t, rows[k])]
           ma == match_assets(t, rows)
<1>1. P \subseteq t.assets
  BY DEF population
<1>2. perfect_export(t) = rows
  <2>1. R = {ExportRow(a) : a \in P}
    OBVIOUS
  <2> QED
    BY <2>1 DEF perfect_export, ExportRow
<1> HIDE DEF P
<1>3. IsFiniteSet(R)
  <2>1. IsFiniteSet(P)
    BY <1>1, FS_Subset
  <2>2. row = [a \in P |-> row[a]]
    OBVIOUS
  <2> HIDE DEF row
  <2> QED
    BY <2>1, <2>2, FiniteRange
<1>4. \A a \in P : row[a] = ExportRow(a)
  OBVIOUS
<1> HIDE DEF row
<1>5. /\ DOMAIN rows \subseteq Nat
      /\ \A j \in DOMAIN rows : rows[j] \in R
      /\ \A j, k \in DOMAIN rows : rows[j] = rows[k] => j = k
      /\ \A x \in R : \E j \in DOMAIN rows : rows[j] = x
  <2> HIDE DEF R
  <2> QED
    BY <1>3, ListsAll
<1> HIDE DEF rows
<1>6. ASSUME NEW a \in P
      PROVE  LET m == Match(t, ExportRow(a))
             IN m.asset = a.id /\ m.bucket = "matched" /\ m.method \in Nat
  BY <1>1, ExportMatches
<1>7. ASSUME NEW k \in DOMAIN rows
      PROVE  \E a \in P : /\ rows[k] = row[a] /\ M[k].asset = a.id /\ M[k].bucket = "matched"
                          /\ M[k].method \in Nat
  <2>1. PICK a \in P : rows[k] = row[a]
    BY <1>5
  <2>2. M[k] = Match(t, ExportRow(a))
    BY <2>1, <1>4
  <2> QED
    BY <2>1, <2>2, <1>6
<1>a. DOMAIN M = DOMAIN rows
  OBVIOUS
<1>8. \A j, k \in DOMAIN rows : M[j].asset = M[k].asset => j = k
  <2> SUFFICES ASSUME NEW j \in DOMAIN rows, NEW k \in DOMAIN rows, M[j].asset = M[k].asset
               PROVE  j = k
    OBVIOUS
  <2>1. PICK a \in P : rows[j] = row[a] /\ M[j].asset = a.id
    BY <1>7
  <2>2. PICK b \in P : rows[k] = row[b] /\ M[k].asset = b.id
    BY <1>7
  <2> HIDE DEF M
  <2>3. a = b
    BY <2>1, <2>2, <1>1 DEF Alone
  <2> QED
    BY <2>1, <2>2, <2>3, <1>5
<1>9. ma = M
  <2> DEFINE better(j, k) == M[j].method < M[k].method \/ (M[j].method = M[k].method /\ j < k)
  <2>1. ma = [k \in DOMAIN rows |->
                IF M[k].asset # None /\ \E j \in DOMAIN rows : M[j].asset = M[k].asset /\ better(j, k)
                  THEN [M[k] EXCEPT !.bucket = "duplicate"] ELSE M[k]]
    BY DEF match_assets
  <2> HIDE DEF M, ma
  <2>2. ASSUME NEW k \in DOMAIN rows, NEW j \in DOMAIN rows, M[j].asset = M[k].asset
        PROVE  ~better(j, k)
    <3>1. j = k /\ k \in Nat /\ M[k].method \in Nat
      BY <2>2, <1>5, <1>7, <1>8
    <3> QED
      BY <3>1
  <2> HIDE DEF better
  <2>3. ma = [k \in DOMAIN rows |-> M[k]]
    BY <2>1, <2>2
  <2>4. M = [k \in DOMAIN rows |-> M[k]]
    BY DEF M
  <2> QED
    BY <2>3, <2>4
<1> DEFINE found == {M[k].asset : k \in DOMAIN M} \ {None}
           in(bucket) == Cardinality({k \in DOMAIN M : M[k].bucket = bucket})
<1>10. score(t, rows) =
         [population |-> Cardinality(P), found |-> Cardinality({a \in P : a.id \in found}),
          matched |-> Cardinality(found), duplicates |-> in("duplicate"),
          false_positives |-> in("false-positive")]
  BY <1>9 DEF score, P
<1> HIDE DEF M, ma
<1>11. in("duplicate") = 0 /\ in("false-positive") = 0
  <2>1. /\ {k \in DOMAIN M : M[k].bucket = "duplicate"} = {}
        /\ {k \in DOMAIN M : M[k].bucket = "false-positive"} = {}
    BY <1>7, <1>a
  <2> QED
    BY <2>1, FS_EmptySet
<1>12. {a \in P : a.id \in found} = P
  <2> SUFFICES ASSUME NEW a \in P PROVE a.id \in found
    OBVIOUS
  <2>1. PICK k \in DOMAIN rows : rows[k] = row[a]
    BY <1>5
  <2>2. PICK b \in P : rows[k] = row[b] /\ M[k].asset = b.id
    BY <1>7
  <2>3. a.name = b.name
    <3>1. ExportRow(a) = ExportRow(b)
      BY <2>1, <2>2, <1>4
    <3>2. ExportRow(a).name = a.name /\ ExportRow(b).name = b.name
      BY DEF ExportRow
    <3> QED
      BY <3>1, <3>2
  <2>4. M[k].asset = a.id /\ a.id # None
    BY <2>2, <2>3, <1>1
  <2> QED
    BY <2>4, <1>a
<1> DEFINE result == score(t, rows)
           those == {a \in P : a.id \in found}
<1>13. /\ result.found = Cardinality(those) /\ result.population = Cardinality(P)
       /\ result.duplicates = in("duplicate") /\ result.false_positives = in("false-positive")
  BY <1>10
<1>14. those = P
  BY <1>12
<1> HIDE DEF found, in, result, those
<1>15. Perfect(result)
  BY <1>11, <1>13, <1>14 DEF Perfect
<1> QED
  BY <1>2, <1>15 DEF result

-----------------------------------------------------------------------------
(* What a frame shows of its sender.                                       *)

Gateways == {GatewayMac(Zone[a]) : a \in DOMAIN Zone}

\* Unless a gateway has sent it on, a frame has its sender's MAC, and the address
\* of a segment that it may have is the sender's own.
Sender(f, P) ==
  f.smac \notin Gateways =>
    /\ f.from # None => \E p \in P : p.mac = f.smac /\ p.name = f.from
    /\ f.s \in DOMAIN Zone => \E p \in P : p.mac = f.smac /\ p.ip = f.s /\ p.name = f.from

LEMMA UnicastSender ==
  ASSUME NEW env, NEW source, NEW P, NEW t, TalkRight(t, P), NEW reply \in BOOLEAN
  PROVE  Sender(Unicast(env, t.g, source, t.c, t.s, reply), P)
<1> DEFINE a == IF reply THEN t.s ELSE t.c
           b == IF reply THEN t.c ELSE t.s
           f == Unicast(env, t.g, source, t.c, t.s, reply)
           forward == a.mac = t.c.mac
           x == SegmentIn(env, IF forward THEN t.c ELSE t.s)
           y == SegmentIn(env, IF forward THEN t.s ELSE t.c)
           n == IF reply THEN t.g[2] ELSE t.g[1]
<1>1. /\ f.s = a.ip /\ f.from = n
      /\ f.smac = IF x = None /\ y # None THEN GatewayMac(y) ELSE a.mac
  BY DEF Unicast
<1>2. y # None => \E z \in DOMAIN Zone : y = Zone[z]
  BY DEF SegmentIn, Segment
<1>3. Side(a, n, P)
  BY DEF TalkRight
<1> HIDE DEF a, f, x, y, n
<1>4. f.smac \notin Gateways => f.smac = a.mac
  BY <1>1, <1>2 DEF Gateways
<1>5. Sender(f, P)
  BY <1>1, <1>3, <1>4 DEF Sender, Side
<1> QED
  BY <1>5 DEF f

LEMMA FramesSender ==
  ASSUME NEW ph, PhaseRight(ph), NEW f \in env_streams(ph)
  PROVE  Sender(f, PartiesOf(ph))
<1> DEFINE P == PartiesOf(ph)
<1>0. \A n \in Names(ph.env.hosts) : /\ Of(ph.env.hosts, n) \in P /\ Of(ph.env.hosts, n).name = n
                                     /\ Of(ph.env.hosts, n).mac \notin Ips
  <2> TAKE n \in Names(ph.env.hosts)
  <2>1. Of(ph.env.hosts, n) \in ToSet(ph.env.hosts) /\ Of(ph.env.hosts, n).name = n
    BY OfName
  <2> QED
    BY <2>1, HostInPhase DEF PartiesOf, PhaseRight, EnvRight
<1>1. CASE \E g \in ToSet(ph.env.flows) : f \in ConversationFrames(ph.env, ph.offline, g)
  <2>1. PICK g \in ToSet(ph.env.flows) : f \in ConversationFrames(ph.env, ph.offline, g)
    BY <1>1
  <2> DEFINE c == Of(ph.env.hosts, g[1])
             s == Of(ph.env.hosts, g[2])
             t == [g |-> g, c |-> c, s |-> s]
  <2>2. t \in TalksOf(ph)
    BY DEF TalksOf, Converses
  <2>3. t.g = g /\ t.c = c /\ t.s = s
    OBVIOUS
  <2>4. \/ \E reply \in BOOLEAN : f = Unicast(ph.env, g, "baseline", c, s, reply)
        \/ f = Discover(g, c)
    BY <2>1 DEF ConversationFrames
  <2>5. c \in P
    BY <1>0 DEF PhaseRight, EnvRight
  <2> HIDE DEF c, s, t
  <2>6. TalkRight(t, P)
    BY <2>2, TalksRight
  <2>7. CASE \E reply \in BOOLEAN : f = Unicast(ph.env, g, "baseline", c, s, reply)
    BY <2>3, <2>6, <2>7, UnicastSender
  <2>8. CASE f = Discover(g, c)
    <3>1. f.from = c.name /\ f.smac = c.mac /\ f.s = AnyAddress
      BY <2>8 DEF Discover
    <3> QED
      BY <2>5, <3>1, AddressesAssumption DEF Sender
  <2> QED
    BY <2>4, <2>7, <2>8
<1>2. CASE \E k \in ToSet(ph.sprinkle) : f \in SprinkleFrames(ph.env, k)
  <2>1. PICK key \in ToSet(ph.sprinkle) : f \in SprinkleFrames(ph.env, key)
    BY <1>2
  <2>2. PICK a \in Attacks(ph.env, key), reply \in BOOLEAN :
          f = Unicast(ph.env, a.conv, key, a.ends[1], a.ends[2], reply)
    BY <2>1 DEF SprinkleFrames
  <2> DEFINE t == [g |-> a.conv, c |-> a.ends[1], s |-> a.ends[2]]
  <2>3. t \in TalksOf(ph)
    BY DEF TalksOf, Rides
  <2>4. t.g = a.conv /\ t.c = a.ends[1] /\ t.s = a.ends[2]
    OBVIOUS
  <2> HIDE DEF t
  <2>5. TalkRight(t, P)
    BY <2>3, TalksRight
  <2> QED
    BY <2>2, <2>4, <2>5, UnicastSender
<1>3. CASE \E h \in Names(ph.env.hosts) : f \in ArpFrames(ph.env, ph.offline, h)
  <2>1. PICK h \in Names(ph.env.hosts) : f \in ArpFrames(ph.env, ph.offline, h)
    BY <1>3
  <2>2. \/ \E n \in Names(ph.env.hosts) : \E d : f = Arp(n, Mac(ph.env, n), d)
        \/ \E d : f = Arp(None, GatewayMac(Segment(Of(ph.env.hosts, h))), d)
    <3>1. h \notin ph.offline
      BY <2>1 DEF ArpFrames
    <3> QED
      BY <2>1, <3>1 DEF ArpFrames
  <2>3. CASE \E n \in Names(ph.env.hosts) : \E d : f = Arp(n, Mac(ph.env, n), d)
    <3>1. PICK n \in Names(ph.env.hosts) : \E d : f = Arp(n, Mac(ph.env, n), d)
      BY <2>3
    <3>2. f.from = n /\ f.s = Of(ph.env.hosts, n).mac /\ f.smac = Of(ph.env.hosts, n).mac
      BY <3>1 DEF Arp, Mac
    <3>3. f.s \notin DOMAIN Zone
      BY <3>2, <1>0 DEF Ips
    <3> QED
      BY <1>0, <3>2, <3>3 DEF Sender
  <2>4. CASE \E d : f = Arp(None, GatewayMac(Segment(Of(ph.env.hosts, h))), d)
    <3>1. Of(ph.env.hosts, h).ip \in DOMAIN Zone
      BY HostInPhase
    <3>2. f.smac = GatewayMac(Zone[Of(ph.env.hosts, h).ip])
      BY <2>4, <3>1 DEF Arp, Segment
    <3> QED
      BY <3>1, <3>2 DEF Sender, Gateways
  <2> QED
    BY <2>2, <2>3, <2>4
<1> QED
  BY <1>1, <1>2, <1>3 DEF env_streams

\* A frame of an attack is from one of its ends, which has an IP.
LEMMA AttackSender ==
  ASSUME NEW ph, PhaseRight(ph), NEW f \in env_streams(ph), f.source # "baseline"
  PROVE  f.s \in Ips /\ \E t \in TalksOf(ph) : Speaks(f, t) /\ Between(f, t)
<1>1. PICK key \in ToSet(ph.sprinkle) : f \in SprinkleFrames(ph.env, key)
  <2>1. ASSUME NEW g, f \in ConversationFrames(ph.env, ph.offline, g) PROVE FALSE
    BY <2>1 DEF ConversationFrames, Unicast, Discover
  <2>2. ASSUME NEW h, f \in ArpFrames(ph.env, ph.offline, h) PROVE FALSE
    BY <2>2 DEF ArpFrames, Arp
  <2> QED
    BY <2>1, <2>2 DEF env_streams
<1>2. PICK a \in Attacks(ph.env, key), reply \in BOOLEAN :
        f = Unicast(ph.env, a.conv, key, a.ends[1], a.ends[2], reply)
  BY <1>1 DEF SprinkleFrames
<1> DEFINE t == [g |-> a.conv, c |-> a.ends[1], s |-> a.ends[2]]
<1>3. t \in Rides(ph.env, key) /\ t \in TalksOf(ph)
  BY DEF TalksOf, Rides
<1>4. t.g = a.conv /\ t.c = a.ends[1] /\ t.s = a.ends[2]
  OBVIOUS
<1> HIDE DEF t
<1>5. Speaks(f, t)
  BY <1>2, <1>4, UnicastSpeaks
<1>6. t.g[3] # "dhcp"
  <2>1. key \in DOMAIN INCIDENTS /\ EnvRight(ph.env)
    BY DEF PhaseRight
  <2> QED
    BY <1>3, <2>1, RidesAre, RidesOnly
<1>7. Between(f, t)
  BY <1>5, <1>6 DEF Speaks, Broadcast
<1>8. f.s \in {t.c.ip, t.s.ip}
  BY <1>7 DEF Between
<1>9. {t.c.ip, t.s.ip} \subseteq Ips
  BY <1>3, TalksRight DEF TalkRight
<1> QED
  BY <1>3, <1>5, <1>7, <1>8, <1>9

-----------------------------------------------------------------------------
(* The inventory.                                                          *)

\* Rows have names, and addresses that hosts can have.
InventoryRight ==
  /\ IsSeq(inventory.hosts) /\ IsSeq(inventory.new_assets)
  /\ \A r \in ToSet(inventory.hosts) \cup ToSet(inventory.new_assets) :
       r.name # None /\ r.ip \in Ips

LEMMA NoneIsNoIp == None \notin Ips
BY AddressesAssumption DEF Ips

\* What incidents bring, whichever phase they are sprinkled in.
LEMMA NewAssetsRight ==
  ASSUME PlanInv, NEW env
  PROVE  LET rows == NewAssetRows(env, Together([p \in DOMAIN phases |-> phases[p].sprinkle]))
         IN IsSeq(rows) /\ \A r \in ToSet(rows) : r.name # None /\ r.ip \in Ips
<1> DEFINE each == [p \in DOMAIN phases |-> phases[p].sprinkle]
           all == Together(each)
           news == [k \in DOMAIN all |-> unmapped_hosts(INCIDENTS[all[k]], env)]
           rows == Together(news)
<1>1. /\ Len(phases) \in Nat /\ DOMAIN phases = 1 .. Len(phases)
      /\ \A p \in DOMAIN phases : PhaseRight(phases[p])
  BY Ranges DEF PlanInv
<1>2. IsSeq(each) /\ Len(each) = Len(phases)
  BY <1>1, FunctionIsSeq
<1>3. \A p \in 1 .. Len(phases) : IsSeq(each[p]) /\ ToSet(each[p]) \subseteq DOMAIN INCIDENTS
  BY <1>1 DEF PhaseRight
<1> HIDE DEF each
<1>4. IsSeq(all) /\ ToSet(all) \subseteq DOMAIN INCIDENTS
  <2>1. /\ IsSeq(all) /\ ToSet(all) = UNION {ToSet(each[p]) : p \in 1 .. Len(each)}
    BY <1>1, <1>2, <1>3, TogetherHas
  <2> HIDE DEF all
  <2> QED
    BY <2>1, <1>2, <1>3
<1> HIDE DEF all
<1>5. Len(all) \in Nat /\ DOMAIN all = 1 .. Len(all) /\ \A k \in DOMAIN all : all[k] \in DOMAIN INCIDENTS
  BY <1>4, Ranges DEF ToSet
<1>6. ASSUME NEW k \in DOMAIN all
      PROVE  IsSeq(news[k]) /\ \A h \in ToSet(news[k]) : h.name # None /\ h.ip \in Ips
  <2> DEFINE inc == INCIDENTS[all[k]]
  <2>1. news[k] = unmapped_hosts(inc, env)
    OBVIOUS
  <2>2. IncidentRight(inc)
    BY <1>5, IncidentsRight
  <2>3. /\ IsSeq(unmapped_hosts(inc, env))
        /\ ToSet(unmapped_hosts(inc, env)) \subseteq ToSet(inc.hosts)
    <3> HIDE DEF inc
    <3> QED
      BY <2>2, UnmappedAre DEF Internal
  <2>4. \A h \in ToSet(inc.hosts) : h.name # None /\ h.ip \in Ips
    BY <1>5, NamesAssumption DEF Ips
  <2> HIDE DEF news
  <2> QED
    BY <2>1, <2>3, <2>4
<1>7. IsSeq(news) /\ Len(news) = Len(all)
  BY <1>5, FunctionIsSeq
<1> HIDE DEF news
<1>8. IsSeq(rows) /\ ToSet(rows) = UNION {ToSet(news[k]) : k \in 1 .. Len(news)}
  <2>1. Len(news) \in Nat /\ \A k \in 1 .. Len(news) : IsSeq(news[k])
    BY <1>5, <1>6, <1>7
  <2> QED
    BY <2>1, TogetherHas
<1> HIDE DEF rows
<1>9. \A r \in ToSet(rows) : r.name # None /\ r.ip \in Ips
  BY <1>5, <1>6, <1>7, <1>8
<1>10. rows = NewAssetRows(env, Together([p \in DOMAIN phases |-> phases[p].sprinkle]))
  BY DEF NewAssetRows, rows, news, all, each
<1> QED
  BY <1>8, <1>9, <1>10

LEMMA StartInventory == PlanInv /\ Start => InventoryRight'
<1> SUFFICES ASSUME PlanInv, Start PROVE InventoryRight'
  OBVIOUS
<1> DEFINE rows == [k \in DOMAIN union_env.hosts |-> Row(union_env.hosts[k])]
           new == NewAssetRows(union_env, Together([p \in DOMAIN phases |-> phases[p].sprinkle]))
<1>1. phases # <<>> /\ inventory' = [hosts |-> rows, new_assets |-> new]
  BY DEF Start, Launch, campaign
<1>2. /\ IsSeq(union_env.hosts)
      /\ \A h \in ToSet(union_env.hosts) : h.name \in HostNames /\ h.ip \in DOMAIN Zone
  BY <1>1, UnionRight
<1>3. IsSeq(new) /\ \A r \in ToSet(new) : r.name # None /\ r.ip \in Ips
  BY NewAssetsRight
<1> HIDE DEF new
<1>4. \A k \in DOMAIN union_env.hosts :
        /\ rows[k].name = union_env.hosts[k].name /\ rows[k].ip = union_env.hosts[k].ip
        /\ union_env.hosts[k] \in ToSet(union_env.hosts)
  BY DEF Row, ToSet
<1>5. IsSeq(rows) /\ ToSet(rows) = {rows[k] : k \in DOMAIN union_env.hosts}
  <2>1. rows = [k \in DOMAIN union_env.hosts |-> rows[k]]
    OBVIOUS
  <2> HIDE DEF rows
  <2> QED
    BY <1>2, <2>1, MappedIsSeq
<1> HIDE DEF rows
<1>6. \A r \in ToSet(rows) : r.name # None /\ r.ip \in Ips
  BY <1>2, <1>4, <1>5, NamesAreNames DEF Ips
<1> QED
  BY <1>1, <1>3, <1>5, <1>6 DEF InventoryRight

\* The manifest, as tgt score reads it.
LEMMA TruthIs ==
  ASSUME InventoryRight
  PROVE  /\ truth.external = {} /\ truth.infra = Gateways /\ IsFiniteSet(truth.assets)
         /\ \A a \in truth.assets : /\ a.id = a.name /\ a.name # None /\ a.ip \in Ips
                                    /\ a.ip # None /\ a.ip \notin truth.infra
<1> DEFINE rows == ToSet(inventory.hosts) \cup ToSet(inventory.new_assets)
           asset == [r \in rows |->
                       [id |-> r.name, name |-> r.name, ip |-> r.ip, mac |-> r.mac,
                        vlan |-> Segment(r), emitted |-> r.name \in DOMAIN seen]]
<1>1. /\ truth.external = {} /\ truth.infra = Gateways
      /\ truth.assets = {asset[r] : r \in rows}
  BY DEF truth, Gateways
<1>2. IsFiniteSet(rows)
  <2>1. ASSUME NEW s, IsSeq(s) PROVE IsFiniteSet(ToSet(s))
    <3>1. Len(s) \in Nat /\ DOMAIN s = 1 .. Len(s) /\ s = [k \in 1 .. Len(s) |-> s[k]]
      BY <2>1, Ranges
    <3>2. IsFiniteSet(1 .. Len(s))
      BY <3>1, FS_Interval
    <3>3. IsFiniteSet({s[k] : k \in 1 .. Len(s)})
      BY <3>1, <3>2, FiniteRange
    <3> QED
      BY <3>1, <3>3 DEF ToSet
  <2> QED
    BY <2>1, FS_Union DEF InventoryRight
<1>3. asset = [r \in rows |-> asset[r]]
  OBVIOUS
<1>4. \A r \in rows : asset[r].id = r.name /\ asset[r].name = r.name /\ asset[r].ip = r.ip
  OBVIOUS
<1>5. \A r \in rows : r.name # None /\ r.ip \in Ips
  BY DEF InventoryRight
<1> HIDE DEF asset, rows
<1>6. IsFiniteSet(truth.assets)
  BY <1>1, <1>2, <1>3, FiniteRange
<1>7. Ips \cap Gateways = {}
  BY AddressesAssumption DEF Gateways
<1> QED
  BY <1>1, <1>4, <1>5, <1>6, <1>7, NoneIsNoIp

-----------------------------------------------------------------------------
(* Senders, as a monitor sees them.                                        *)

\* The phase that a frame of the log was built in.
LEMMA BuiltIn ==
  ASSUME PhasesInv, PlanInv, TellsInv, NEW k \in DOMAIN log
  PROVE  /\ log[k].built \in DOMAIN phases /\ PhaseRight(phases[log[k].built])
         /\ log[k].frame \in env_streams(phases[log[k].built])
         /\ EntryRight(log[k]) /\ k \in 1 .. Len(log)
<1>1. k \in 1 .. Len(log)
  BY Ranges DEF PhasesInv, LogRight
<1>2. EntryRight(log[k])
  BY <1>1 DEF TellsInv
<1>3. /\ i \in Nat /\ i <= Len(phases) /\ Len(phases) \in Nat /\ DOMAIN phases = 1 .. Len(phases)
  BY Ranges DEF PhasesInv, ClockRight, PlanInv, TellsInv
<1>4. log[k].built \in 1 .. Len(phases)
  BY <1>2, <1>3 DEF EntryRight
<1> QED
  BY <1>1, <1>2, <1>3, <1>4 DEF PlanInv, EntryRight

LEMMA LogSender ==
  ASSUME PhasesInv, PlanInv, TellsInv, NEW k \in DOMAIN log
  PROVE  Sender(log[k].frame, PartiesEver)
<1> DEFINE ph == phases[log[k].built]
           f == log[k].frame
<1>1. PhaseRight(ph) /\ f \in env_streams(ph) /\ PartiesOf(ph) \subseteq PartiesEver
  BY BuiltIn, PartiesHave
<1> HIDE DEF ph, f
<1>2. Sender(f, PartiesOf(ph))
  BY <1>1, FramesSender
<1>3. Sender(f, PartiesEver)
  BY <1>1, <1>2 DEF Sender
<1> QED
  BY <1>3 DEF f

\* Its addresses are those of frames with the MAC.
LEMMA SeenIs ==
  ASSUME IsSeq(log), NEW m
  PROVE  LET row == SeenOf(m)
         IN /\ IsSeq(row.ips) /\ row.macs = <<m>> /\ row.name = None
            /\ \A x \in ToSet(row.ips) :
                 \E j \in DOMAIN log : /\ log[j].frame.smac = m /\ log[j].frame.s = x
                                       /\ x \in DOMAIN Zone
<1> DEFINE out == {e \in ToSet(log) : ~(e.frame.smac = m /\ e.frame.s \in DOMAIN Zone)}
           own == Without(log, out)
           ips == [j \in DOMAIN own |-> own[j].frame.s]
           row == SeenOf(m)
<1>1. row.ips = ips /\ row.macs = <<m>> /\ row.name = None
  BY DEF SeenOf
<1>2. IsSeq(own) /\ ToSet(own) = ToSet(log) \ out
  <2> HIDE DEF out
  <2> QED
    BY WithoutHas
<1> HIDE DEF own, row
<1>3. IsSeq(ips) /\ ToSet(ips) = {ips[j] : j \in DOMAIN own}
  <2>1. ips = [j \in DOMAIN own |-> ips[j]]
    OBVIOUS
  <2> HIDE DEF ips
  <2> QED
    BY <1>2, <2>1, MappedIsSeq
<1>4. ASSUME NEW x \in ToSet(ips)
      PROVE  \E j \in DOMAIN log : /\ log[j].frame.smac = m /\ log[j].frame.s = x
                                   /\ x \in DOMAIN Zone
  <2>1. PICK j \in DOMAIN own : x = own[j].frame.s
    BY <1>3
  <2>2. own[j] \in ToSet(log) \ out
    BY <1>2 DEF ToSet
  <2>3. PICK k \in DOMAIN log : own[j] = log[k]
    BY <2>2 DEF ToSet
  <2> QED
    BY <2>1, <2>2, <2>3
<1> HIDE DEF ips
<1> QED
  BY <1>1, <1>3, <1>4 DEF row

LEMMA SenderMatches ==
  ASSUME PhasesInv, PlanInv, TellsInv, InventoryRight,
         NEW k \in DOMAIN log, NEW a \in truth.assets, a.name = log[k].frame.from,
         NEW row, row = SeenOf(log[k].frame.smac),
         a.mac = row.macs[1] \/ a.ip \in ToSet(row.ips),
         \A x \in ToSet(row.macs) \cup ToSet(row.ips) : ~Contested(PartiesEver \cup truth.assets, x),
         Alone(truth, a), row.macs[1] \notin truth.infra
  PROVE  Match(truth, row).asset = a.id
<1> DEFINE m == log[k].frame.smac
           t == truth
           hosts == PartiesEver \cup t.assets
<1>1. /\ IsSeq(row.ips) /\ row.macs = <<m>> /\ row.name = None
      /\ \A x \in ToSet(row.ips) :
           \E j \in DOMAIN log : /\ log[j].frame.smac = m /\ log[j].frame.s = x
                                 /\ x \in DOMAIN Zone
  BY SeenIs DEF PhasesInv, LogRight
<1>2. IsSeq(row.macs) /\ ToSet(row.macs) = {m} /\ row.macs[1] = m
  BY <1>1, OneIs
<1>3. /\ t.external = {} /\ t.infra = Gateways
      /\ \A b \in t.assets : b.id = b.name /\ b.name # None
  BY TruthIs
<1>4. m \notin Gateways
  BY <1>2, <1>3
<1>5. PICK p \in PartiesEver : p.mac = m /\ p.name = a.name
  BY <1>3, <1>4, LogSender DEF Sender
<1>6. \A h \in hosts : m \in {h.ip, h.mac} => h.name = a.name
  <2>1. ~Contested(hosts, m)
    BY <1>2
  <2> QED
    BY <1>5, <2>1 DEF Contested, Rival
<1>7. ASSUME NEW x \in ToSet(row.ips), NEW h \in hosts, x \in {h.ip, h.mac} PROVE h.name = a.name
  <2>1. PICK j \in DOMAIN log : log[j].frame.smac = m /\ log[j].frame.s = x /\ x \in DOMAIN Zone
    BY <1>1
  <2>2. PICK q \in PartiesEver : q.mac = m /\ q.ip = x
    BY <2>1, <1>4, LogSender DEF Sender
  <2>3. q.name = a.name
    BY <2>2, <1>6
  <2>4. ~Contested(hosts, x)
    OBVIOUS
  <2> QED
    BY <1>7, <2>2, <2>3, <2>4 DEF Contested, Rival
<1>8. \A b \in t.assets : b.mac = m \/ b.ip \in ToSet(row.ips) => b = a
  BY <1>3, <1>6, <1>7 DEF Alone
<1> HIDE DEF m, t, hosts
<1>9. ASSUME NEW S \in SUBSET {a} PROVE Only(S) = S
  BY DEF Only
<1>10. a.mac = m \/ a.ip \in ToSet(row.ips)
  BY <1>2
<1> DEFINE macs == {b \in t.assets : b.mac = m}
           vlans(x) == {b \in t.assets : b.ip = x /\ b.vlan = row.vlan}
           ips(x) == {b \in t.assets : b.ip = x}
<1>a. a \in t.assets
  BY DEF t
<1>11. /\ macs \subseteq {a} /\ (a.mac = m => macs = {a})
       /\ \A x \in ToSet(row.ips) : vlans(x) \subseteq {a} /\ ips(x) \subseteq {a}
       /\ \A x \in ToSet(row.ips) : a.ip = x => ips(x) = {a}
  BY <1>8, <1>a
<1> HIDE DEF macs, vlans, ips
<1>12. pick(macs, row) = macs
  <2>1. CASE macs = {}
    <3>1. Only({}) = {} /\ {b \in macs : b.ip \in ToSet(row.ips)} = {}
      BY <2>1, <1>9
    <3> QED
      BY <2>1, <3>1 DEF pick
  <2>2. CASE macs # {}
    <3>1. macs = {a} /\ Only(macs) = macs
      BY <2>2, <1>9, <1>11
    <3> QED
      BY <2>2, <3>1 DEF pick
  <2> QED
    BY <2>1, <2>2
<1>13. \A S \in SUBSET {a} : S \in Nobody(a)
  BY DEF Nobody
<1>14. \A x \in ToSet(row.ips) : /\ Only(vlans(x)) \in Nobody(a) /\ Only(ips(x)) = ips(x)
                                 /\ ips(x) \in Nobody(a)
  BY <1>9, <1>11, <1>13
<1>15. /\ {ByMac(t, row), ByVlan(t, row), ByIp(t, row)} \subseteq Nobody(a)
       /\ m \notin t.infra /\ macs = {a} => ByMac(t, row) = {a}
       /\ \A x \in ToSet(row.ips) : ips(x) = {a} => ByIp(t, row) = {a}
  <2>1. \A z \in ToSet(row.macs) \ t.infra :
          z = m /\ pick({b \in t.assets : b.mac = z}, row) = macs
    BY <1>2, <1>12 DEF macs
  <2>2. macs \in Nobody(a)
    BY <1>11, <1>13
  <2>3. \A z \in ToSet(row.macs) \ t.infra :
          pick({b \in t.assets : b.mac = z}, row) \in Nobody(a)
    BY <2>1, <2>2
  <2>4. \A x \in ToSet(row.ips) :
          /\ Only({b \in t.assets : b.ip = x /\ b.vlan = row.vlan}) \in Nobody(a)
          /\ Only({b \in t.assets : b.ip = x}) \in Nobody(a)
    BY <1>14 DEF vlans, ips
  <2>5. /\ {ByMac(t, row), ByVlan(t, row), ByIp(t, row)} \subseteq Nobody(a)
        /\ \A z \in ToSet(row.macs) \ t.infra :
             pick({b \in t.assets : b.mac = z}, row) = {a} => ByMac(t, row) = {a}
        /\ \A x \in ToSet(row.ips) :
             Only({b \in t.assets : b.ip = x}) = {a} => ByIp(t, row) = {a}
    BY <1>1, <1>2, <2>3, <2>4, RowNobody
  <2> QED
    BY <1>2, <1>14, <2>1, <2>5 DEF ips
<1>16. ByName(t, row) \in Nobody(a)
  <2>1. {b \in t.assets : b.name = row.name} = {}
    BY <1>1, <1>3
  <2> QED
    BY <2>1, <1>9, <1>13 DEF ByName
<1>17. a \in ByMac(t, row) \cup ByVlan(t, row) \cup ByIp(t, row)
  BY <1>3, <1>4, <1>10, <1>11, <1>15
<1>18. Match(t, row).asset = a.id
  BY <1>15, <1>16, <1>17, MatchIs
<1> QED
  BY <1>18 DEF t

LEMMA InvRecognised == PhasesInv /\ PlanInv /\ TellsInv /\ InventoryRight => Recognised
<1> SUFFICES ASSUME PhasesInv, PlanInv, TellsInv, InventoryRight PROVE Recognised
  OBVIOUS
<1>1. ASSUME \A a \in truth.assets : Alone(truth, a) /\ a.mac \notin truth.infra
      PROVE  Perfect(score(truth, perfect_export(truth)))
  <2> DEFINE t == truth
  <2>1. /\ t.external = {} /\ IsFiniteSet(t.assets)
        /\ \A a \in t.assets : /\ a.id = a.name /\ a.name # None /\ Alone(t, a)
                               /\ a.ip \notin t.infra /\ a.mac \notin t.infra
    BY <1>1, TruthIs
  <2> HIDE DEF t
  <2>2. Perfect(score(t, perfect_export(t)))
    BY <2>1, ExportIsPerfect
  <2> QED
    BY <2>2 DEF t
<1>2. ASSUME NEW k \in DOMAIN log, NEW a \in {b \in truth.assets : b.name = log[k].frame.from}
      PROVE  LET row == SeenOf(log[k].frame.smac)
             IN /\ a.mac = row.macs[1] \/ a.ip \in ToSet(row.ips)
                /\ \A x \in ToSet(row.macs) \cup ToSet(row.ips) :
                     ~Contested(PartiesEver \cup truth.assets, x)
                /\ Alone(truth, a) /\ row.macs[1] \notin truth.infra
                => Match(truth, row).asset = a.id
  BY SenderMatches
<1> QED
  BY <1>1, <1>2 DEF Recognised

-----------------------------------------------------------------------------
(* Events of phases.                                                       *)

\* An event has the addresses of those of its hosts that are there.
AtHome(e, env) ==
  \A n \in e.hosts \cap Names(env.hosts) : Of(env.hosts, n).ip \in {e.src, e.dst}

LEMMA EventIs ==
  ASSUME NEW category, NEW hosts, NEW src, NEW dst
  PROVE  LET e == Event(category, hosts, src, dst)
         IN e.hosts = hosts /\ e.src = src /\ e.dst = dst /\ e.category = category
BY DEF Event

LEMMA HostEventsAtHome ==
  ASSUME NEW prev, NEW env, NEW po, NEW off, NEW d, d = _diff(prev, env, po, off),
         NEW e \in HostEvents(prev, env, d)
  PROVE  AtHome(e, env)
<1> DEFINE ip(n) == Of(env.hosts, n).ip
           nn == Names(env.hosts)
<1>1. d.removed \cap nn = {}
  BY DEF _diff
<1>2. \A c \in d.changed : c.field = "ip" => c.new = ip(c.name)
  <2> TAKE c \in d.changed
  <2>1. PICK n \in Names(prev.hosts) \cap nn, f \in Fields :
          c = [name |-> n, field |-> f, old |-> Of(prev.hosts, n)[f], new |-> Of(env.hosts, n)[f]]
    BY DEF _diff
  <2> QED
    BY <2>1
<1>3. \/ \E n \in d.removed : e.hosts = {n}
      \/ \E n : e.hosts = {n} /\ e.src = ip(n)
      \/ \E c \in d.changed : c.field = "ip" /\ e.hosts = {c.name} /\ e.src = c.new
  <2> DEFINE of(f) == {c \in d.changed : c.field = f}
             named(f) == {c.name : c \in of(f)}
             moved == {Event("ip-change", {c.name}, c.new, c.old) : c \in of("ip")}
             gone == {Event("asset-offline", {n}, Of(prev.hosts, n).ip, None) : n \in d.removed}
             at(category, S) == {Event(category, {n}, ip(n), None) : n \in S}
  <2>1. e \in at("new-asset", d.added) \cup gone \cup at("asset-offline", d.offline) \cup moved
             \cup at("firmware-change", named("firmware") \ named("model"))
             \cup at("asset-change", named("model"))
    BY DEF HostEvents
  <2> HIDE DEF ip, named
  <2>2. ASSUME NEW category, NEW S, e \in at(category, S)
        PROVE  \E n : e.hosts = {n} /\ e.src = ip(n)
    BY <2>2 DEF Event
  <2>3. e \in gone => \E n \in d.removed : e.hosts = {n}
    BY DEF Event
  <2>4. e \in moved => \E c \in d.changed : c.field = "ip" /\ e.hosts = {c.name} /\ e.src = c.new
    BY DEF Event
  <2> HIDE DEF at, gone, moved
  <2> QED
    BY <2>1, <2>2, <2>3, <2>4
<1> HIDE DEF ip, nn
<1>4. ASSUME NEW n \in e.hosts \cap nn PROVE ip(n) = e.src
  BY <1>1, <1>2, <1>3
<1> QED
  BY <1>4 DEF AtHome, ip, nn

LEMMA FlowEventsAtHome ==
  ASSUME NEW prev, NEW env, NEW d, NEW e \in FlowEvents(prev, env, d)
  PROVE  AtHome(e, env)
<1> DEFINE told(category, f) ==
             Event(category, {f[1], f[2]}, Of(env.hosts, f[1]).ip, Of(env.hosts, f[2]).ip)
<1>1. \E category, f : e = told(category, f)
  BY DEF FlowEvents
<1>2. PICK f : /\ e.hosts = {f[1], f[2]} /\ e.src = Of(env.hosts, f[1]).ip
               /\ e.dst = Of(env.hosts, f[2]).ip
  BY <1>1, EventIs
<1> QED
  BY <1>2 DEF AtHome

\* Events are those of their phases. In the end only a run without frames has a
\* phase that has none.
EventsInv ==
  /\ \A p \in DOMAIN phases : \A e \in phases[p].events : AtHome(e, phases[p].env)
  /\ \A e \in change_events : e.what \in phases[e.phase].events
  /\ pc = "done" => \A k \in 1 .. i : phase_log[k].end = None => log = <<>>

LEMMA EventsStart == Init => EventsInv
<1> SUFFICES ASSUME Init PROVE EventsInv
  OBVIOUS
<1>1. phases = <<>> /\ change_events = {} /\ pc = "planning"
  BY DEF Init, PlanInit, RecorderInit
<1> QED
  BY <1>1 DEF EventsInv

LEMMA PlanEvents == PhasesInv /\ PlanInv /\ EventsInv /\ Plan => EventsInv'
<1> SUFFICES ASSUME PhasesInv, PlanInv, EventsInv, Plan PROVE EventsInv'
  OBVIOUS
<1>1. /\ stage = "plan" /\ pc = "planning" /\ i = 0 /\ UNCHANGED <<pc, i, change_events>>
  BY DEF Plan, Planning, BuildPhase, Ask, PhasesInv, ClockRight, manifest, run
<1>2. change_events = {}
  BY <1>1 DEF PhasesInv, EventRight
<1>3. ASSUME NEW p \in DOMAIN phases', NEW e \in phases'[p].events PROVE AtHome(e, phases'[p].env)
  <2>1. CASE phases' = phases
    BY <1>3, <2>1 DEF EventsInv
  <2>2. CASE phases' # phases
    <3> DEFINE d == _apply(Previous.flows)
               env == Environment(d)
               diff == IF phases = <<>> THEN FirstDiff(d.offline)
                                        ELSE _diff(Previous, env, offline, d.offline)
               events == IF phases = <<>>
                         THEN {Event("asset-offline", {n}, Of(env.hosts, n).ip, None) :
                                 n \in d.offline}
                         ELSE _events(Previous, env, diff)
               ph == [env |-> env, offline |-> d.offline, diff |-> diff, asked |-> Len(spec),
                      sprinkle |-> d.sprinkle, events |-> events,
                      inject |-> _arrivals(diff, d.offline)]
    <3>1. phases' = Append(phases, ph)
      BY <2>2 DEF Plan, Planning, Ask, BuildPhase
    <3>2. ph.env = env /\ ph.events = events
      OBVIOUS
    <3> HIDE DEF ph
    <3>3. /\ Len(phases) \in Nat /\ DOMAIN phases = 1 .. Len(phases)
          /\ DOMAIN phases' = 1 .. Len(phases) + 1
          /\ \A q \in 1 .. Len(phases) : phases'[q] = phases[q]
          /\ phases'[Len(phases) + 1] = ph
      BY <3>1, Appended DEF PlanInv
    <3>4. CASE p \in 1 .. Len(phases)
      BY <1>3, <3>3, <3>4 DEF EventsInv
    <3>5. CASE p = Len(phases) + 1
      <4>1. phases'[p].env = env /\ e \in events
        BY <1>3, <3>2, <3>3, <3>5
      <4>2. AtHome(e, env)
        <5>1. CASE phases = <<>>
          <6> HIDE DEF env, d
          <6>1. PICK n : e = Event("asset-offline", {n}, Of(env.hosts, n).ip, None)
            BY <4>1, <5>1
          <6> QED
            BY <6>1, EventIs DEF AtHome
        <5>2. CASE phases # <<>>
          <6>1. diff = _diff(Previous, env, offline, d.offline) /\ e \in _events(Previous, env, diff)
            BY <4>1, <5>2
          <6> HIDE DEF env, d, diff
          <6> QED
            BY <6>1, HostEventsAtHome, FlowEventsAtHome DEF _events
        <5> QED
          BY <5>1, <5>2
      <4> QED
        BY <4>1, <4>2
    <3> QED
      BY <3>3, <3>4, <3>5
  <2> QED
    BY <2>1, <2>2
<1>4. \A p \in DOMAIN phases' : \A e \in phases'[p].events : AtHome(e, phases'[p].env)
  BY <1>3
<1> QED
  BY <1>1, <1>2, <1>4 DEF EventsInv

LEMMA BeginEvents == PhasesInv /\ EventsInv /\ BeginPhase => EventsInv'
<1> SUFFICES ASSUME PhasesInv, EventsInv, BeginPhase PROVE EventsInv'
  OBVIOUS
<1>1. pc' = "phase" /\ phases' = phases
  BY DEF BeginPhase, plan
<1>2. ASSUME NEW e \in change_events', e \notin change_events
      PROVE  e.what \in phases[e.phase].events
  BY <1>2 DEF BeginPhase, begin_phase
<1>3. \A e \in change_events' : e.what \in phases[e.phase].events
  BY <1>2 DEF EventsInv
<1> QED
  BY <1>1, <1>3 DEF EventsInv

\* A phase that ends.
LEMMA EndsEvents ==
  ASSUME PhasesInv, EventsInv, pc = "phase", NEW ts, end_phase(ts),
         NEW end, end = IF ts = None THEN last_ts ELSE ts,
         end # None \/ log' = <<>>, UNCHANGED <<i, phases>>
  PROVE  EventsInv'
<1>1. i \in Nat /\ i # 0 /\ i \in 1 .. i /\ Len(phase_log) = i
  BY DEF PhasesInv, ClockRight
<1>2. ASSUME NEW e \in change_events' PROVE e.what \in phases[e.phase].events
  <2>1. PICK d \in change_events : \E t : e = d \/ e = [d EXCEPT !.t_end = t]
    BY DEF end_phase
  <2>2. d = [what |-> d.what, phase |-> d.phase, t_start |-> phase_log[d.phase].start,
             t_end |-> phase_log[d.phase].end]
    BY DEF PhasesInv, EventRight
  <2>3. e.what = d.what /\ e.phase = d.phase
    BY <2>1, <2>2
  <2> QED
    BY <2>3 DEF EventsInv
<1>3. ASSUME NEW k \in 1 .. i, phase_log'[k].end = None PROVE log' = <<>>
  <2>1. RowRight(k) /\ DOMAIN phase_log = 1 .. i /\ DOMAIN phase_log[k] = RowFields
    BY <1>1, Ranges DEF PhasesInv, RowRight
  <2>2. CASE k = i
    <3>1. phase_log'[i] = [phase_log[i] EXCEPT !.end = end, !.packets = packets - phase_log[i].p0]
      BY <1>1, <2>1 DEF end_phase
    <3>2. phase_log'[i].end = end
      BY <2>1, <2>2, <3>1 DEF RowFields
    <3> QED
      BY <1>3, <2>2, <3>2
  <2>3. CASE k # i
    <3>1. phase_log'[k] = phase_log[k] /\ k < i
      BY <1>1, <2>1, <2>3 DEF end_phase
    <3> QED
      BY <1>3, <2>1, <3>1 DEF RowRight
  <2> QED
    BY <2>2, <2>3
<1> QED
  BY <1>2, <1>3 DEF EventsInv

LEMMA NextEvents == PhasesInv /\ PlanInv /\ EventsInv /\ [Next]_vars => EventsInv'
<1> SUFFICES ASSUME PhasesInv, PlanInv, EventsInv, [Next]_vars PROVE EventsInv'
  OBVIOUS
<1>1. CASE Plan
  BY <1>1, PlanEvents
<1>2. CASE Start \/ SendFrame
  <2>1. UNCHANGED <<phases, change_events>> /\ pc' # "done"
    BY <1>2 DEF Start, Launch, campaign, SendFrame, observe, plan
  <2> QED
    BY <2>1 DEF EventsInv
<1>3. CASE BeginPhase
  BY <1>3, BeginEvents
<1>4. CASE EndPhase
  <2> DEFINE end == IF synthetic THEN i * Length ELSE now
  <2>1. pc = "phase" /\ end_phase(end) /\ UNCHANGED <<i, phases>>
    BY <1>4 DEF EndPhase, plan
  <2>2. end \in Nat
    BY TimesAssumption DEF PhasesInv, ClockRight
  <2>3. end # None
    BY <2>2, TimesAssumption
  <2> HIDE DEF end
  <2> QED
    BY <2>1, <2>3, EndsEvents
<1>5. CASE StopRun
  <2>1. UNCHANGED <<i, phases, log>> /\ pc \in {"between", "phase"}
    BY <1>5 DEF StopRun, plan
  <2>2. CASE pc = "phase"
    <3>1. end_phase(None)
      BY <1>5, <2>2 DEF StopRun
    <3>2. last_ts # None \/ log = <<>>
      <4>1. ASSUME log # <<>> PROVE last_ts \in Nat
        <5>1. Len(log) \in 1 .. Len(log)
          BY <4>1 DEF PhasesInv, LogRight, IsSeq
        <5> QED
          BY <4>1, <5>1 DEF PhasesInv, LogRight, FrameInPhase
      <4> QED
        BY <4>1, TimesAssumption
    <3> QED
      BY <2>1, <2>2, <3>1, <3>2, EndsEvents
  <2>3. CASE pc = "between"
    <3>1. UNCHANGED <<phase_log, change_events>>
      BY <1>5, <2>3 DEF StopRun, manifest
    <3>2. \A k \in 1 .. i : phase_log[k].end # None
      <4> TAKE k \in 1 .. i
      <4>1. RowRight(k) /\ i \in Nat
        BY DEF PhasesInv, ClockRight
      <4>2. k < i \/ k = i
        BY <4>1
      <4> QED
        BY <2>3, <4>1, <4>2 DEF RowRight
    <3> QED
      BY <2>1, <3>1, <3>2 DEF EventsInv
  <2> QED
    BY <2>1, <2>2, <2>3
<1>6. CASE UNCHANGED vars
  <2>1. UNCHANGED <<phases, change_events, pc, i, phase_log, log>>
    BY <1>6 DEF vars, plan, manifest, run
  <2> QED
    BY <2>1 DEF EventsInv
<1> QED
  BY <1>1, <1>2, <1>3, <1>4, <1>5, <1>6 DEF Next

-----------------------------------------------------------------------------
(* Tallies.                                                                *)

\* The row of a frame, by whatever it is found, has the address of a side that
\* it names by address.
LEMMA FlowNamed ==
  ASSUME NEW H, NEW T, NEW P, IndexRight(Indexes, H, T, P), \A h \in H : h.name \notin Ips, NEW f
  PROVE  RowNamed(FlowOf(f))
<1> DEFINE keys == <<<<f.key, f.s, f.d>>, <<f.key, f.d, f.s>>,
                     <<f.key, f.smac, f.dmac>>, <<f.key, f.dmac, f.smac>>>>
           found == {n \in DOMAIN keys : keys[n] \in DOMAIN flowidx}
           first == Get(firsts, <<f.key, f.source, {f.s, f.d}>>, f.s)
           other == IF first = f.s THEN f.d ELSE f.s
           else == <<Get(addr_aid, first, first), Get(addr_aid, other, other), first, other>>
<1>0. FlowOf(f) = IF found # {} THEN flowidx[keys[Min(found)]]
                  ELSE Get(l2src, <<f.key, f.smac>>, else)
  BY DEF FlowOf
<1>1. Owned(addr_aid, H) /\ FlowsTold(flowidx, T, P) /\ SendersTold(l2src, T, P)
  BY DEF IndexRight, Indexes
<1>2. \A a : Get(addr_aid, a, a) \in Ips => Get(addr_aid, a, a) = a
  BY <1>1 DEF Get, Owned
<1>3. /\ else[1] = Get(addr_aid, first, first) /\ else[3] = first
      /\ else[2] = Get(addr_aid, other, other) /\ else[4] = other
  OBVIOUS
<1> HIDE DEF first, other, else
<1>4. RowNamed(else)
  BY <1>2, <1>3 DEF RowNamed
<1>5. DOMAIN keys = 1 .. 4
  OBVIOUS
<1> HIDE DEF keys
<1>6. CASE found # {}
  <2>1. found \in SUBSET Nat
    BY <1>5
  <2>2. Min(found) \in found
    <3> HIDE DEF found
    <3> QED
      BY <1>6, <2>1, LeastIsThere
  <2> QED
    BY <1>0, <1>1, <1>6, <2>2 DEF FlowsTold, RowTold
<1>7. CASE found = {}
  <2>1. FlowOf(f) = Get(l2src, <<f.key, f.smac>>, else)
    BY <1>0, <1>7
  <2> QED
    BY <2>1, <1>1, <1>4 DEF Get, SendersTold, RowTold
<1> QED
  BY <1>6, <1>7

\* A frame between two parties is counted with its sender, if nobody else has had
\* its address.
LEMMA SenderCounted ==
  ASSUME NEW T, NEW P, \A t \in T : TalkRight(t, P), FlowsTold(flowidx, T, P),
         NEW t \in T, Covers(Indexes, t), NEW f, Speaks(f, t), Between(f, t), Clear(P, f)
  PROVE  f.from \in {FlowOf(f)[1], FlowOf(f)[2]}
<1> DEFINE row == FlowOf(f)
           pair == {<<f.key, f.s, f.d>>, <<f.key, f.d, f.s>>}
<1>1. <<t.g[3], t.c.ip, t.s.ip>> \in DOMAIN flowidx
  BY DEF Covers, PairsOf, Indexes
<1>2. pair \cap DOMAIN flowidx # {}
  BY <1>1 DEF Speaks, Between
<1>3. PICK y \in pair : y \in DOMAIN flowidx /\ row = flowidx[y]
  <2>1. pair \subseteq KeysOf(f) /\ Found(f)
    BY FlowIsFound DEF KeysOf
  <2> QED
    BY <1>2, <2>1 DEF Found
<1> HIDE DEF row
<1>4. PICK u \in T : y \in PairsOf(u) /\ RowTold(u, row, P)
  BY <1>3 DEF FlowsTold
<1>5. {f.s, f.d} \subseteq Ips
  BY DEF Between, TalkRight
<1>6. u.c.mac \notin Ips /\ u.s.mac \notin Ips
  BY DEF TalkRight
<1>7. f.s \in {u.c.ip, u.s.ip}
  BY <1>3, <1>4, <1>5, <1>6 DEF PairsOf
<1>8. PICK p, q \in P : /\ u.c.ip \in {p.ip, p.mac} /\ row[1] = p.name
                        /\ u.s.ip \in {q.ip, q.mac} /\ row[2] = q.name
  BY <1>4 DEF RowTold
<1>9. \A h \in P : f.s \in {h.ip, h.mac} => h.name = f.from
  BY DEF Clear, Rival
<1> QED
  BY <1>7, <1>8, <1>9 DEF row

\* Tallies have the times of frames.
Within(ts, times) == times.first <= ts /\ ts <= times.last
Stamps == {log[j].ts : j \in DOMAIN log}
Counter(e) == <<e.flow[1], e.flow[2], e.frame.key, e.frame.source>>

Tallied(e) ==
  /\ e.asset \in DOMAIN seen /\ Within(e.ts, seen[e.asset])
  /\ Counter(e) \in DOMAIN flows /\ Within(e.ts, flows[Counter(e)])
  /\ e.frame.source # "baseline" /\ Clear(PartiesEver, e.frame)
       => e.frame.s \in Ips /\ e.frame.from \in {e.flow[1], e.flow[2]}

TallyInv ==
  /\ \A k \in DOMAIN log : Tallied(log[k])
  /\ \A n \in DOMAIN seen : {seen[n].first, seen[n].last} \subseteq Stamps
  /\ \A y \in DOMAIN flows : /\ {flows[y].first, flows[y].last} \subseteq Stamps
                             /\ flows[y].row[1] = y[1] /\ flows[y].row[2] = y[2]
                             /\ RowNamed(flows[y].row)

LEMMA TallyStart == Init => TallyInv
<1> SUFFICES ASSUME Init PROVE TallyInv
  OBVIOUS
<1>1. log = <<>> /\ seen = <<>> /\ flows = <<>>
  BY DEF Init, RecorderInit
<1> QED
  BY <1>1 DEF TallyInv

LEMMA SendTallies ==
  PhasesInv /\ PlanInv /\ TellsInv /\ TallyInv /\ SendFrame => TallyInv'
<1> SUFFICES ASSUME PhasesInv, PlanInv, TellsInv, TallyInv, SendFrame PROVE TallyInv'
  OBVIOUS
<1>1. PICK gap \in Gaps, built \in 1 .. i : \E f \in env_streams(phases[built]) :
        /\ observe(now + gap, f)
        /\ log' = Append(log, [frame |-> f, ts |-> now + gap, phase |-> i, built |-> built,
                               asset |-> Source(f), flow |-> FlowOf(f)])
  BY DEF SendFrame
<1>2. PICK f \in env_streams(phases[built]) :
        /\ observe(now + gap, f)
        /\ log' = Append(log, [frame |-> f, ts |-> now + gap, phase |-> i, built |-> built,
                               asset |-> Source(f), flow |-> FlowOf(f)])
  BY <1>1
<1> DEFINE e == [frame |-> f, ts |-> now + gap, phase |-> i, built |-> built,
                 asset |-> Source(f), flow |-> FlowOf(f)]
           ts == now + gap
           y == <<FlowOf(f)[1], FlowOf(f)[2], f.key, f.source>>
           flow == Get(flows, y, [first |-> ts, packets |-> 0, row |-> FlowOf(f)])
           was == Get(seen, Source(f), [first |-> ts])
<1>3. /\ e.frame = f /\ e.ts = ts /\ e.asset = Source(f) /\ e.flow = FlowOf(f)
      /\ Counter(e) = y /\ log' = Append(log, e)
  BY <1>2 DEF Counter
<1>4. /\ seen' = Put(seen, Source(f), [first |-> was.first, last |-> ts])
      /\ flows' = Put(flows, y, [first |-> flow.first, last |-> ts,
                                 packets |-> flow.packets + 1, row |-> flow.row])
  BY <1>2 DEF observe
<1>5. phases' = phases /\ PartiesEver' = PartiesEver
  BY EverSame DEF SendFrame, plan
<1>6. ts \in Nat /\ now \in Nat /\ now <= ts
  BY TimesAssumption DEF PhasesInv, ClockRight
<1>7. \A t \in Stamps : t \in Nat /\ t <= ts
  <2>1. \A j \in DOMAIN log : log[j].ts \in Nat /\ log[j].ts <= now
    BY Ranges DEF PhasesInv, LogRight, FrameInPhase
  <2> QED
    BY <1>6, <2>1 DEF Stamps
<1>8. RowNamed(FlowOf(f))
  <2>1. \A h \in HostsEver : h.name \notin Ips
    BY NamesEver
  <2> QED
    BY <2>1, FlowNamed DEF TellsInv
<1>9. ASSUME f.source # "baseline", Clear(PartiesEver, f)
      PROVE  f.s \in Ips /\ f.from \in {FlowOf(f)[1], FlowOf(f)[2]}
  <2>1. built \in DOMAIN phases /\ PhaseRight(phases[built]) /\ Entered(phases[built])
    <3>1. i \in Nat /\ i <= Len(phases) /\ Len(phases) \in Nat /\ DOMAIN phases = 1 .. Len(phases)
      BY Ranges DEF PhasesInv, ClockRight, PlanInv, TellsInv
    <3>2. built \in 1 .. Len(phases)
      BY <3>1
    <3> QED
      BY <3>1, <3>2 DEF PlanInv, TellsInv
  <2>2. f.s \in Ips /\ \E t \in TalksOf(phases[built]) : Speaks(f, t) /\ Between(f, t)
    BY <1>9, <2>1, AttackSender
  <2>3. PICK t \in TalksOf(phases[built]) : Speaks(f, t) /\ Between(f, t)
    BY <2>2
  <2>4. t \in TalksEver /\ Covers(Indexes, t)
    BY <2>1 DEF TalksEver, Entered
  <2>5. FlowsTold(flowidx, TalksEver, PartiesEver)
    BY DEF TellsInv, IndexRight, Indexes
  <2>6. \A u \in TalksEver : TalkRight(u, PartiesEver)
    BY TalksEverRight
  <2> QED
    BY <1>9, <2>2, <2>3, <2>4, <2>5, <2>6, SenderCounted
<1>10. /\ DOMAIN log' = DOMAIN log \cup {Len(log) + 1} /\ log'[Len(log) + 1] = e
       /\ \A k \in DOMAIN log : log'[k] = log[k]
  <2>1. IsSeq(log)
    BY DEF PhasesInv, LogRight
  <2> HIDE DEF e
  <2>2. /\ Len(log) \in Nat /\ DOMAIN log = 1 .. Len(log) /\ DOMAIN log' = 1 .. Len(log) + 1
        /\ log'[Len(log) + 1] = e /\ \A k \in 1 .. Len(log) : log'[k] = log[k]
    BY <1>3, <2>1, Appended
  <2> QED
    BY <2>2
<1>11. ts \in Stamps' /\ Stamps \subseteq Stamps'
  <2>1. Stamps' = {log'[j].ts : j \in DOMAIN log'}
    BY DEF Stamps
  <2> HIDE DEF e, ts
  <2> QED
    BY <1>3, <1>10, <2>1 DEF Stamps
<1>12. was.first \in Stamps \cup {ts} /\ flow.first \in Stamps \cup {ts}
  <2>1. Source(f) \in DOMAIN seen => was.first \in Stamps
    BY DEF Get, TallyInv
  <2>2. y \in DOMAIN flows => flow.first \in Stamps
    BY DEF Get, TallyInv
  <2>3. Source(f) \notin DOMAIN seen => was.first = ts
    BY DEF Get
  <2>4. y \notin DOMAIN flows => flow.first = ts
    BY DEF Get
  <2> QED
    BY <2>1, <2>2, <2>3, <2>4
<1>13. /\ flow.row[1] = y[1] /\ flow.row[2] = y[2] /\ RowNamed(flow.row)
  <2>1. CASE y \in DOMAIN flows
    <3>1. flow = flows[y]
      BY <2>1 DEF Get
    <3> HIDE DEF flow, y
    <3> QED
      BY <2>1, <3>1 DEF TallyInv
  <2>2. CASE y \notin DOMAIN flows
    <3>1. flow.row = FlowOf(f)
      BY <2>2 DEF Get
    <3>2. y[1] = FlowOf(f)[1] /\ y[2] = FlowOf(f)[2]
      OBVIOUS
    <3> HIDE DEF flow, y
    <3> QED
      BY <3>1, <3>2, <1>8
  <2> QED
    BY <2>1, <2>2
<1> DEFINE s2 == [first |-> was.first, last |-> ts]
           f2 == [first |-> flow.first, last |-> ts, packets |-> flow.packets + 1, row |-> flow.row]
<1>14. s2.first = was.first /\ s2.last = ts /\ f2.first = flow.first /\ f2.last = ts /\ f2.row = flow.row
  OBVIOUS
<1>15. seen' = Put(seen, Source(f), s2) /\ flows' = Put(flows, y, f2)
  BY <1>4
<1> HIDE DEF e, ts, y, flow, was, s2, f2
<1>17. /\ DOMAIN seen' = DOMAIN seen \cup {Source(f)} /\ seen'[Source(f)] = s2
       /\ \A z \in DOMAIN seen : z # Source(f) => seen'[z] = seen[z]
       /\ DOMAIN flows' = DOMAIN flows \cup {y} /\ flows'[y] = f2
       /\ \A z \in DOMAIN flows : z # y => flows'[z] = flows[z]
  <2>1. /\ DOMAIN seen' = DOMAIN seen \cup {Source(f)} /\ seen'[Source(f)] = s2
        /\ \A z \in DOMAIN seen : z # Source(f) => seen'[z] = seen[z]
    BY <1>15 DEF Put
  <2>2. /\ DOMAIN flows' = DOMAIN flows \cup {y} /\ flows'[y] = f2
        /\ \A z \in DOMAIN flows : z # y => flows'[z] = flows[z]
    BY <1>15 DEF Put
  <2> QED
    BY <2>1, <2>2
<1>18. \A n \in DOMAIN seen' : {seen'[n].first, seen'[n].last} \subseteq Stamps'
  BY <1>11, <1>12, <1>14, <1>17 DEF TallyInv
<1>19. \A z \in DOMAIN flows' : /\ {flows'[z].first, flows'[z].last} \subseteq Stamps'
                                /\ flows'[z].row[1] = z[1] /\ flows'[z].row[2] = z[2]
                                /\ RowNamed(flows'[z].row)
  BY <1>11, <1>12, <1>13, <1>14, <1>17 DEF TallyInv
<1>20. ASSUME NEW k \in DOMAIN log' PROVE Tallied(log[k])'
  <2>1. CASE k \in DOMAIN log
    <3> DEFINE d == log[k]
    <3>1. Tallied(d) /\ log'[k] = d /\ d.ts \in Stamps
      BY <2>1, <1>10 DEF TallyInv, Stamps
    <3> HIDE DEF d
    <3>2. d.ts \in Nat /\ d.ts <= ts
      BY <3>1, <1>7
    <3>3. d.asset \in DOMAIN seen' /\ Within(d.ts, seen'[d.asset])
      <4>1. CASE d.asset = Source(f)
        <5>1. was = seen[d.asset]
          BY <3>1, <4>1 DEF Tallied, Get, was
        <5> QED
          BY <3>1, <3>2, <4>1, <5>1, <1>14, <1>17 DEF Tallied, Within
      <4>2. CASE d.asset # Source(f)
        BY <3>1, <4>2, <1>17 DEF Tallied
      <4> QED
        BY <4>1, <4>2
    <3>4. Counter(d) \in DOMAIN flows' /\ Within(d.ts, flows'[Counter(d)])
      <4>1. CASE Counter(d) = y
        <5>1. flow = flows[y]
          BY <3>1, <4>1 DEF Tallied, Get, flow
        <5> QED
          BY <3>1, <3>2, <4>1, <5>1, <1>14, <1>17 DEF Tallied, Within
      <4>2. CASE Counter(d) # y
        BY <3>1, <4>2, <1>17 DEF Tallied
      <4> QED
        BY <4>1, <4>2
    <3>5. d.frame.source # "baseline" /\ Clear(PartiesEver', d.frame)
            => d.frame.s \in Ips /\ d.frame.from \in {d.flow[1], d.flow[2]}
      BY <3>1, <1>5 DEF Tallied
    <3> QED
      BY <3>1, <3>3, <3>4, <3>5 DEF Tallied, Counter, Within, Clear, Rival
  <2>2. CASE k = Len(log) + 1
    <3>1. log'[k] = e
      BY <2>2, <1>10
    <3>2. Within(ts, s2) /\ Within(ts, f2)
      BY <1>6, <1>7, <1>12, <1>14 DEF Within
    <3>3. e.asset \in DOMAIN seen' /\ Within(e.ts, seen'[e.asset])
      BY <3>2, <1>3, <1>17
    <3>4. Counter(e) \in DOMAIN flows' /\ Within(e.ts, flows'[Counter(e)])
      BY <3>2, <1>3, <1>17
    <3>5. e.frame.source # "baseline" /\ Clear(PartiesEver', e.frame)
            => e.frame.s \in Ips /\ e.frame.from \in {e.flow[1], e.flow[2]}
      BY <1>3, <1>5, <1>9
    <3> QED
      BY <3>1, <3>3, <3>4, <3>5 DEF Tallied, Counter, Within, Clear, Rival
  <2> QED
    BY <2>1, <2>2, <1>10
<1> QED
  BY <1>18, <1>19, <1>20 DEF TallyInv

\* Only frames are tallied.
LEMMA NextTallies ==
  PhasesInv /\ PlanInv /\ TellsInv /\ TallyInv /\ [Next]_vars => TallyInv'
<1> SUFFICES ASSUME PhasesInv, PlanInv, TellsInv, TallyInv, [Next]_vars PROVE TallyInv'
  OBVIOUS
<1>1. CASE SendFrame
  BY <1>1, SendTallies
<1>2. CASE Plan \/ Start \/ BeginPhase \/ EndPhase \/ StopRun \/ UNCHANGED vars
  <2>1. UNCHANGED <<log, seen, flows>>
    BY <1>2 DEF Plan, Start, campaign, BeginPhase, begin_phase, EndPhase, StopRun, end_phase, vars,
                manifest, tallies, run
  <2>2. phases' = phases \/ log = <<>>
    BY <1>2 DEF Plan, Planning, Ask, BuildPhase, Start, Launch, BeginPhase, EndPhase, StopRun,
                vars, plan, PhasesInv, ClockRight
  <2>3. Stamps' = Stamps
    BY <2>1 DEF Stamps
  <2>4. \A k \in DOMAIN log' : Tallied(log[k])'
    <3>1. CASE phases' = phases
      <4>1. PartiesEver' = PartiesEver
        BY <3>1, EverSame
      <4> QED
        BY <2>1, <4>1 DEF TallyInv, Tallied, Counter, Within, Clear, Rival
    <3>2. CASE log = <<>>
      BY <2>1, <3>2
    <3> QED
      BY <2>2, <3>1, <3>2
  <2> QED
    BY <2>1, <2>3, <2>4 DEF TallyInv
<1> QED
  BY <1>1, <1>2 DEF Next

-----------------------------------------------------------------------------
(* Alerts and events.                                                      *)

\* The event's times and addresses have in them those of a frame.
Raised(ts, f, e) ==
  /\ e.t_start \in Nat /\ e.t_start <= ts /\ ts <= Ends(e) /\ Ends(e) \in Nat /\ ts \in Nat
  /\ f.s # None /\ f.s \in {a.ip : a \in {b \in truth.assets : b.id \in e.what.hosts}}
                            \cup {e.what.src, e.what.dst}

Alert(ts, f, e) == [category |-> e.what.category, time |-> ts, ips |-> {f.s}]

\* An alert about the sender, at the time of the frame, detects the event.
LEMMA AlertDetects ==
  ASSUME NEW ts, NEW f, NEW e, Raised(ts, f, e)
  PROVE  Detects(truth, Alert(ts, f, e), e, 0, 0)
<1>1. /\ Alert(ts, f, e).category = e.what.category /\ Alert(ts, f, e).time = ts
      /\ Alert(ts, f, e).ips = {f.s}
  BY DEF Alert
<1>2. f.s \in EventIps(truth, e)
  BY DEF Raised, EventIps
<1>3. ts + 0 = ts /\ Ends(e) + 0 = Ends(e)
  BY DEF Raised
<1> QED
  BY <1>1, <1>2, <1>3 DEF Raised, Detects

\* All of it.
RunInv ==
  PhasesInv /\ PlanInv /\ TellsInv /\ InventoryRight /\ EventsInv /\ TallyInv

\* The times of an entry, and of a row that it is tallied in.
LEMMA TimesAre ==
  ASSUME PhasesInv, TallyInv, NEW k \in DOMAIN log
  PROVE  /\ log[k].phase \in 1 .. i /\ log[k].ts \in Nat /\ FrameInPhase(log[k])
         /\ \A s \in Stamps : s \in Nat
<1>1. \A j \in DOMAIN log : j \in 1 .. Len(log)
  BY Ranges DEF PhasesInv, LogRight
<1>2. \A j \in DOMAIN log : FrameInPhase(log[j])
  BY <1>1 DEF PhasesInv, LogRight
<1> QED
  BY <1>2 DEF FrameInPhase, Stamps

\* The event of an attack, at a frame of it.
LEMMA AttackShown ==
  ASSUME RunInv, NEW k \in DOMAIN log,
         NEW f, f = log[k].frame, f.source # "baseline", Listed(f) \/ f.from = f.s,
         Clear(PartiesEver, f),
         NEW e, e = AttackRow(<<log[k].flow[1], log[k].flow[2], f.key, f.source>>)
  PROVE  Raised(log[k].ts, f, e)
<1> DEFINE y == Counter(log[k])
           row == flows[y].row
<1>1. e = EventRow(Event(y[3], {row[1], row[2]}, row[3], row[4]), flows[y])
  BY DEF AttackRow, Counter
<1>2. y[1] = log[k].flow[1] /\ y[2] = log[k].flow[2]
  BY DEF Counter
<1>3. /\ Tallied(log[k]) /\ y \in DOMAIN flows /\ Within(log[k].ts, flows[y])
      /\ f.s \in Ips /\ f.from \in {y[1], y[2]}
  BY <1>2 DEF RunInv, TallyInv, Tallied
<1> HIDE DEF y
<1>4. /\ {flows[y].first, flows[y].last} \subseteq Nat /\ log[k].ts \in Nat
      /\ row[1] = y[1] /\ row[2] = y[2] /\ RowNamed(row)
  BY <1>3, TimesAre DEF RunInv, TallyInv
<1> HIDE DEF row
<1>5. /\ e.t_start = flows[y].first /\ e.t_end = flows[y].last
      /\ e.what.hosts = {row[1], row[2]} /\ e.what.src = row[3] /\ e.what.dst = row[4]
  BY <1>1 DEF EventRow, Event
<1>6. Ends(e) = flows[y].last
  BY <1>4, <1>5, TimesAssumption DEF Ends
<1>7. f.from \in e.what.hosts
  BY <1>3, <1>4, <1>5
<1>8. f.s \in {a.ip : a \in {b \in truth.assets : b.id \in e.what.hosts}}
              \cup {e.what.src, e.what.dst}
  <2>1. CASE Listed(f)
    BY <1>7, <2>1 DEF Listed
  <2>2. CASE f.from = f.s
    <3>1. f.s = row[1] \/ f.s = row[2]
      BY <1>3, <1>4, <2>2
    <3>2. f.s \in {row[3], row[4]}
      BY <1>3, <1>4, <3>1 DEF RowNamed
    <3> QED
      BY <1>5, <3>2
  <2> QED
    BY <2>1, <2>2
<1> QED
  BY <1>3, <1>4, <1>5, <1>6, <1>8, NoneIsNoIp DEF Raised, Within

\* That of a new asset, at one of its frames.
LEMMA AssetShown ==
  ASSUME RunInv, NEW k \in DOMAIN log, NEW f, f = log[k].frame, Listed(f),
         Clear(PartiesEver, f), NEW e, e = NewAssetRow(log[k].asset)
  PROVE  Raised(log[k].ts, f, e)
<1> DEFINE n == log[k].asset
<1>1. PICK a \in truth.assets : a.id = f.from /\ a.ip = f.s
  BY DEF Listed
<1>2. f.from # None /\ f.s # None
  BY <1>1, TruthIs DEF RunInv
<1>3. Clear(HostsEver, f)
  BY PartiesHave DEF Clear, Rival
<1>4. n = f.from
  BY <1>2, <1>3, BuiltIn DEF RunInv, EntryRight
<1>5. /\ n \in DOMAIN seen /\ Within(log[k].ts, seen[n])
      /\ {seen[n].first, seen[n].last} \subseteq Nat /\ log[k].ts \in Nat
  BY TimesAre DEF RunInv, TallyInv, Tallied
<1>6. e = EventRow(Event("new-asset", {n}, new_assets[n], None), seen[n])
  BY DEF NewAssetRow
<1> HIDE DEF n
<1>7. /\ e.t_start = seen[n].first /\ e.t_end = seen[n].last /\ e.what.hosts = {n}
  BY <1>6 DEF EventRow, Event
<1>8. Ends(e) = seen[n].last
  BY <1>5, <1>7, TimesAssumption DEF Ends
<1> QED
  BY <1>1, <1>2, <1>4, <1>5, <1>7, <1>8 DEF Raised, Within

\* That of a change, at a frame of a host of it.
LEMMA ChangeShown ==
  ASSUME RunInv, pc = "done", NEW k \in DOMAIN log, NEW f, f = log[k].frame,
         NEW e \in EventRows, e.phase = log[k].phase,
         f.from \in e.what.hosts \cap Names(phases[e.phase].env.hosts),
         f.s = Of(phases[e.phase].env.hosts, f.from).ip
  PROVE  Raised(log[k].ts, f, e)
<1> DEFINE env == phases[e.phase].env
           p == phase_log[e.phase]
<1>1. /\ e.phase \in 1 .. i /\ i \in Nat /\ log[k].ts \in Nat /\ p.start <= log[k].ts
      /\ p.end # None => log[k].ts <= p.end
  BY TimesAre DEF RunInv, PhasesInv, ClockRight, FrameInPhase
<1>2. e \in change_events
  <2>1. e.phase # None
    BY <1>1, TimesAssumption
  <2>2. \A what, times : EventRow(what, times).phase = None
    BY DEF EventRow
  <2>3. (\A y : AttackRow(y).phase = None) /\ \A n : NewAssetRow(n).phase = None
    BY <2>2 DEF AttackRow, NewAssetRow
  <2> QED
    BY <2>1, <2>3 DEF EventRows
<1>3. e.t_start = p.start /\ e.t_end = p.end
  <2>1. EventRight(e)
    BY <1>2 DEF RunInv, PhasesInv
  <2> QED
    BY <2>1 DEF EventRight
<1>4. p.end # None
  BY <1>1 DEF RunInv, EventsInv
<1>5. p.start \in Nat /\ p.end \in Nat
  BY <1>1, <1>4 DEF RunInv, PhasesInv, RowRight
<1>6. Ends(e) = p.end
  BY <1>3, <1>4 DEF Ends
<1>7. e.phase \in DOMAIN phases /\ EnvRight(env)
  <2>1. /\ i <= Len(phases) /\ Len(phases) \in Nat /\ DOMAIN phases = 1 .. Len(phases)
    BY Ranges DEF RunInv, TellsInv, PlanInv
  <2>2. e.phase \in 1 .. Len(phases)
    BY <1>1, <2>1
  <2> QED
    BY <2>1, <2>2 DEF RunInv, PlanInv, PhaseRight
<1>8. AtHome(e.what, env)
  BY <1>2, <1>7 DEF RunInv, EventsInv
<1> HIDE DEF env, p
<1>9. f.from \in e.what.hosts \cap Names(env.hosts) /\ f.s = Of(env.hosts, f.from).ip
  BY DEF env
<1>10. f.s \in {e.what.src, e.what.dst}
  BY <1>8, <1>9 DEF AtHome
<1>11. f.s # None
  <2>1. Of(env.hosts, f.from) \in ToSet(env.hosts)
    BY <1>9, OfName
  <2> QED
    BY <1>7, <1>9, <2>1, AddressesAssumption DEF EnvRight
<1> QED
  BY <1>1, <1>3, <1>4, <1>5, <1>6, <1>10, <1>11 DEF Raised

LEMMA InvDetected == RunInv => Detected
<1> SUFFICES ASSUME RunInv, pc = "done" PROVE Detected
  BY DEF Detected
<1> DEFINE shown == {q \in (DOMAIN log) \X EventRows : Shows(PartiesEver, log[q[1]], q[2])}
           alert(q) == Alert(log[q[1]].ts, log[q[1]].frame, q[2])
           alerts == {alert(q) : q \in shown}
           d == detections(truth, EventRows, alerts, 0, 0)
<1>1. ASSUME NEW q \in shown PROVE Detects(truth, alert(q), q[2], 0, 0) /\ q[2] \in EventRows
  <2>1. /\ q[1] \in DOMAIN log /\ q[2] \in EventRows /\ Shows(PartiesEver, log[q[1]], q[2])
    OBVIOUS
  <2>2. Raised(log[q[1]].ts, log[q[1]].frame, q[2])
    BY <2>1, AttackShown, AssetShown, ChangeShown DEF Shows
  <2> QED
    BY <2>1, <2>2, AlertDetects
<1> HIDE DEF shown, alert
<1>2. /\ d.missed = {ev \in EventRows : \A al \in alerts : ~Detects(truth, al, ev, 0, 0)}
      /\ d.false_alerts = {al \in alerts : \A ev \in EventRows : ~Detects(truth, al, ev, 0, 0)}
  BY DEF detections
<1>3. \A q \in shown : alert(q) \in alerts
  OBVIOUS
<1>4. \A al \in alerts : \E q \in shown : al = alert(q)
  OBVIOUS
<1> HIDE DEF d, alerts
<1>5. d.false_alerts = {}
  BY <1>1, <1>2, <1>4
<1>6. d.missed \cap {q[2] : q \in shown} = {}
  BY <1>1, <1>2, <1>3
<1>7. alerts = {[category |-> q[2].what.category, time |-> log[q[1]].ts,
                 ips |-> {log[q[1]].frame.s}] : q \in shown}
  BY DEF alerts, alert, Alert
<1> QED
  BY <1>5, <1>6, <1>7 DEF Detected, shown, d

LEMMA InventoryStart == Init => InventoryRight
<1> SUFFICES ASSUME Init PROVE InventoryRight
  OBVIOUS
<1>1. inventory.hosts = <<>> /\ inventory.new_assets = <<>>
  BY DEF Init, RecorderInit
<1> QED
  BY <1>1, Empty DEF InventoryRight

\* The inventory is written once.
LEMMA NextInventory == PlanInv /\ InventoryRight /\ [Next]_vars => InventoryRight'
<1> SUFFICES ASSUME PlanInv, InventoryRight, [Next]_vars PROVE InventoryRight'
  OBVIOUS
<1>1. CASE Start
  BY <1>1, StartInventory
<1>2. CASE ~Start
  <2>1. inventory' = inventory
    BY <1>2 DEF Next, Plan, BeginPhase, begin_phase, SendFrame, observe, EndPhase, StopRun,
                end_phase, vars, manifest
  <2> QED
    BY <2>1 DEF InventoryRight
<1> QED
  BY <1>1, <1>2

LEMMA RunsRight == Spec => []RunInv
<1>1. Init => RunInv
  BY PhasesStart, PlanStart, TellsStart, InventoryStart, EventsStart, TallyStart DEF RunInv
<1>2. RunInv /\ [Next]_vars => RunInv'
  BY NextPhases, NextPlan, NextTells, NextInventory, NextEvents, NextTallies DEF RunInv
<1> QED
  BY <1>1, <1>2, PTL DEF Spec

\* The right alert about the sender at a frame of an event, be it an attack, a new
\* asset or what the phase has changed, is no false alert, and the event is not
\* missed, with no tolerance: the times and addresses that observe, begin_phase
\* and to_dict give an event hold those of its frames (detections of score.py).
THEOREM EventsAreDetected == Spec => []Detected
BY RunsRight, InvDetected, PTL

\* A monitor's row of a sender is matched to the sender, and the perfect export
\* scores 100 %: no method of match_assets finds another asset, whatever the hosts
\* and their addresses, if nobody else goes by the sender's (score.py).
THEOREM SendersAreRecognised == Spec => []Recognised
<1>1. RunInv => Recognised
  BY InvRecognised DEF RunInv
<1> QED
  BY <1>1, RunsRight, PTL
=============================================================================
