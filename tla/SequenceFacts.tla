---------------------------- MODULE SequenceFacts ----------------------------
(* Induction along the natural numbers, for sets instead of predicates, and what
   follows from it for the recursive functions of SequencesExt.  It comes from
   the well-foundedness of inclusion between finite sets: a set of numbers is
   turned into the set of the intervals that end with them. *)
EXTENDS SequencesExt, SequenceTheorems, FiniteSetTheorems, WellFoundedInduction, TLAPS

\* A set of natural numbers has a least one.
LEMMA LeastNatural ==
    ASSUME NEW T \in SUBSET Nat, T # {}
    PROVE  \E n \in T : \A m \in T : n <= m
<1> DEFINE downs == {0..n : n \in T}
<1>1. \A n \in T : IsFiniteSet(0..n)
    BY FS_Interval
<1>2. downs \subseteq FiniteSubsetsOf(Nat) /\ downs # {}
    <2>1. \A n \in T : 0..n \in FiniteSubsetsOf(Nat)
        <3>1. \A n \in T : 0..n \in SUBSET Nat
            OBVIOUS
        <3> QED BY <1>1, <3>1 DEF FiniteSubsetsOf
    <2>2. \E n \in T : 0..n \in downs
        OBVIOUS
    <2> QED BY <2>1, <2>2
<1>3. PICK d \in downs : \A e \in downs : <<e, d>> \notin StrictSubsetOrdering(Nat)
    <2>. HIDE DEF downs
    <2> QED BY <1>2, FS_StrictSubsetOrderingWellFounded, WFMin
<1>4. PICK n \in T : d = 0..n
    BY <1>3
<1>5. ASSUME NEW m \in T PROVE n <= m
    <2>1. ~(0..m \subseteq 0..n /\ 0..m # 0..n)
        <3>1. 0..m \in downs /\ 0..n \in downs
            OBVIOUS
        <3>2. 0..m \in SUBSET Nat /\ 0..n \in SUBSET Nat
            OBVIOUS
        <3>3. <<0..m, 0..n>> \notin StrictSubsetOrdering(Nat)
            BY <1>3, <1>4, <3>1
        <3> HIDE DEF downs
        <3> QED BY <3>2, <3>3 DEF StrictSubsetOrdering
    <2>2. CASE m < n
        <3>1. 0..m \subseteq 0..n /\ n \in 0..n /\ n \notin 0..m
            BY <2>2
        <3> QED BY <2>1, <3>1
    <2> QED BY <2>2
<1> QED BY <1>5

\* A set that has 1, and the next of each number it has, has them all.
LEMMA InductionBySet ==
    ASSUME NEW T, 1 \in T, \A n \in T \cap Nat : n + 1 \in T
    PROVE  Nat \ {0} \subseteq T
<1> DEFINE missing == (Nat \ {0}) \ T
<1>1. SUFFICES ASSUME missing # {} PROVE FALSE
    OBVIOUS
<1>2. PICK n \in missing : \A m \in missing : n <= m
    BY <1>1, LeastNatural
<1>3. n - 1 \in Nat /\ n - 1 # 0
    BY <1>2
<1>4. n - 1 \in T
    BY <1>2, <1>3
<1> QED BY <1>2, <1>3, <1>4

\* A function that is defined by recursion along an interval.
Follows(g, n, first, step) ==
    \A i \in 1..n : g[i] = IF i = 1 THEN first ELSE step[<<i, g[i - 1]>>]

LEMMA RecursionAlong ==
    ASSUME NEW n \in Nat \ {0}, NEW V, NEW first \in V, NEW step \in [(1..n) \X V -> V]
    PROVE  \E g \in [1..n -> V] : Follows(g, n, first, step)
<1> DEFINE Good(g, k) == \A i \in 1..k : g[i] = IF i = 1 THEN first ELSE step[<<i, g[i - 1]>>]
           Possible(k) == k <= n => \E g \in [1..n -> V] : Good(g, k)
           upto == {k \in Nat : Possible(k)}
<1>1. Possible(1)
    <2> DEFINE g == [i \in 1..n |-> first]
    <2>1. g \in [1..n -> V] /\ g[1] = first
        OBVIOUS
    <2> HIDE DEF g
    <2>2. Good(g, 1)
        BY <2>1
    <2> QED BY <2>1, <2>2
<1>2. ASSUME NEW k \in Nat, Possible(k) PROVE Possible(k + 1)
    <2>1. SUFFICES ASSUME k + 1 <= n
                   PROVE  \E h \in [1..n -> V] : Good(h, k + 1)
        OBVIOUS
    <2>2. PICK g \in [1..n -> V] : Good(g, k)
        <3> HIDE DEF Good
        <3> QED BY <1>2, <2>1
    <2>3. CASE k = 0
        <3> HIDE DEF Good
        <3> QED BY <2>3, <1>1, <2>1
    <2>4. CASE k # 0
        <3> DEFINE next == step[<<k + 1, g[k]>>]
                   h == [g EXCEPT ![k + 1] = next]
        <3>1. k \in 1..n /\ k + 1 \in 1..n
            BY <2>1, <2>4
        <3>2. next \in V
            BY <3>1
        <3>3. h \in [1..n -> V] /\ h[k + 1] = next /\ \A i \in 1..k : h[i] = g[i]
            <4> HIDE DEF next
            <4> QED BY <3>1, <3>2
        <3> HIDE DEF h
        <3>4. Good(h, k + 1)
            <4>1. SUFFICES ASSUME NEW i \in 1..(k + 1)
                           PROVE  h[i] = IF i = 1 THEN first ELSE step[<<i, h[i - 1]>>]
                OBVIOUS
            <4>2. CASE i = k + 1
                <5>1. h[i] = next /\ i - 1 = k /\ i # 1 /\ h[k] = g[k]
                    <6> HIDE DEF next
                    <6> QED BY <3>1, <3>3, <4>2, <2>4
                <5>2. next = step[<<i, h[i - 1]>>]
                    BY <5>1, <4>2
                <5> HIDE DEF next
                <5> QED BY <5>1, <5>2
            <4>3. CASE i \in 1..k
                <5>1. h[i] = g[i] /\ (i # 1 => h[i - 1] = g[i - 1])
                    BY <3>3, <4>3
                <5>2. g[i] = IF i = 1 THEN first ELSE step[<<i, g[i - 1]>>]
                    BY <2>2, <4>3
                <5> QED BY <5>1, <5>2
            <4>4. i = k + 1 \/ i \in 1..k
                OBVIOUS
            <4> QED BY <4>2, <4>3, <4>4
        <3> HIDE DEF Good
        <3> QED BY <3>3, <3>4
    <2> QED BY <2>3, <2>4
<1>3. Possible(n)
    <2> HIDE DEF Possible
    <2>1. 1 \in upto /\ \A k \in upto \cap Nat : k + 1 \in upto
        BY <1>1, <1>2
    <2>2. n \in upto
        <3> HIDE DEF upto
        <3> QED BY <2>1, InductionBySet
    <2> QED BY <2>2
<1>4. PICK g \in [1..n -> V] : Good(g, n)
    <2> HIDE DEF Good
    <2> QED BY <1>3
<1>5. Follows(g, n, first, step)
    BY <1>4 DEF Follows
<1> QED BY <1>5

\* The sequences of a sequence one after the other, as a function of how many.
Flattened(f, seqs, S) ==
    /\ f \in [1..Len(seqs) -> Seq(S)] /\ f[1] = seqs[1]
    /\ \A k \in 1..(Len(seqs) - 1) : f[k + 1] = f[k] \o seqs[k + 1]
    /\ FlattenSeq(seqs) = f[Len(seqs)]

LEMMA FlattenSteps ==
    ASSUME NEW S, NEW seqs \in Seq(Seq(S)), Len(seqs) > 0
    PROVE  \E f : Flattened(f, seqs, S)
<1> DEFINE n == Len(seqs)
           Turn(f, i) == IF i = 1 THEN seqs[i] ELSE f[i - 1] \o seqs[i]
           V == Seq(S)
           step == [p \in (1..n) \X V |-> p[2] \o seqs[p[1]]]
<1>1. n \in Nat \ {0} /\ \A i \in 1..n : seqs[i] \in V
    OBVIOUS
<1>2. step \in [(1..n) \X V -> V]
    BY <1>1, ConcatProperties
<1>3. PICK g \in [1..n -> V] : Follows(g, n, seqs[1], step)
    <2>1. seqs[1] \in V
        BY <1>1
    <2> HIDE DEF step, n, V
    <2> QED BY <1>1, <1>2, <2>1, RecursionAlong
<1>4. ASSUME NEW i \in 1..n, i # 1 PROVE step[<<i, g[i - 1]>>] = g[i - 1] \o seqs[i]
    <2>1. i - 1 \in 1..n
        BY <1>1, <1>4
    <2>2. <<i, g[i - 1]>> \in (1..n) \X V
        <3> HIDE DEF n, V
        <3> QED BY <2>1
    <2> HIDE DEF n, V
    <2> QED BY <2>2
<1>5. g = [i \in 1..n |-> Turn(g, i)]
    <2>1. \A i \in 1..n : g[i] = Turn(g, i)
        BY <1>3, <1>4 DEF Follows
    <2> QED BY <2>1
<1> DEFINE f == CHOOSE h : h = [i \in 1..n |-> Turn(h, i)]
<1>6. f = [i \in 1..n |-> Turn(f, i)]
    <2> HIDE DEF n, V
    <2> QED BY <1>5
<1>7. FlattenSeq(seqs) = f[n]
    BY <1>1 DEF FlattenSeq
<1> HIDE DEF f
<1> DEFINE Typed(k) == k <= n => f[k] \in V
           typed == {k \in Nat : Typed(k)}
<1>8. Typed(1)
    BY <1>1, <1>6
<1>9. ASSUME NEW k \in Nat, Typed(k) PROVE Typed(k + 1)
    <2>1. CASE k = 0
        BY <2>1, <1>8
    <2>2. CASE k # 0 /\ k + 1 <= n
        <3>1. f[k + 1] = f[k] \o seqs[k + 1]
            <4>1. k + 1 \in 1..n /\ k + 1 # 1 /\ (k + 1) - 1 = k
                BY <1>1, <2>2
            <4> HIDE DEF n
            <4> QED BY <1>6, <4>1
        <3>2. f[k] \in V /\ seqs[k + 1] \in V
            BY <1>1, <1>9, <2>2
        <3>3. f[k] \o seqs[k + 1] \in V
            BY <3>2, ConcatProperties
        <3> QED BY <3>1, <3>3
    <2> QED BY <2>1, <2>2
<1>10. \A k \in 1..n : Typed(k)
    <2> HIDE DEF Typed
    <2>1. 1 \in typed /\ \A k \in typed \cap Nat : k + 1 \in typed
        BY <1>8, <1>9
    <2>2. 1..n \subseteq typed
        <3>1. 1..n \subseteq Nat \ {0}
            OBVIOUS
        <3> HIDE DEF typed, n
        <3> QED BY <2>1, <3>1, InductionBySet
    <2> HIDE DEF n
    <2> QED BY <2>2
<1>11. f \in [1..n -> V] /\ f[1] = seqs[1]
    <2>1. \A k \in 1..n : f[k] \in V
        BY <1>10
    <2>2. 1 \in 1..n
        BY <1>1
    <2> HIDE DEF n, V
    <2> QED BY <1>6, <2>1, <2>2
<1>12. ASSUME NEW k \in 1..(n - 1) PROVE f[k + 1] = f[k] \o seqs[k + 1]
    <2>1. k + 1 \in 1..n /\ k + 1 # 1 /\ (k + 1) - 1 = k
        BY <1>1
    <2> HIDE DEF n
    <2> QED BY <1>6, <2>1
<1> QED BY <1>7, <1>11, <1>12 DEF Flattened

\* The elements of a flattened sequence are elements of its sequences.
LEMMA FlattenSeqType ==
    ASSUME NEW S, NEW seqs \in Seq(Seq(S)), Len(seqs) > 0
    PROVE  FlattenSeq(seqs) \in Seq(S)
<1>1. PICK f : Flattened(f, seqs, S)
    BY FlattenSteps
<1>2. Len(seqs) \in 1..Len(seqs)
    OBVIOUS
<1> QED BY <1>1, <1>2 DEF Flattened

\* A set that has 0, and the next of each number it has, has them all.
LEMMA InductionFromZero ==
    ASSUME NEW T, 0 \in T, \A n \in T \cap Nat : n + 1 \in T
    PROVE  Nat \subseteq T
<1>1. 1 \in T
    <2>1. 0 + 1 \in T
        OBVIOUS
    <2> QED BY <2>1
<1>2. Nat \ {0} \subseteq T
    BY <1>1, InductionBySet
<1> QED BY <1>2

\* The greatest number of a set of numbers up to n, and what is left without it.
LEMMA MaxFacts ==
    ASSUME NEW n \in Nat, NEW s \in SUBSET (1..n), s # {}
    PROVE  /\ Max(s) \in s /\ Max(s) \in 1..n
           /\ s \ {Max(s)} \in SUBSET (1..(Max(s) - 1))
<1> DEFINE gaps == {n - x : x \in s}
<1>1. gaps \in SUBSET Nat /\ gaps # {}
    <2>1. \A x \in s : n - x \in Nat
        OBVIOUS
    <2>2. PICK x \in s : TRUE
        OBVIOUS
    <2> QED BY <2>1, <2>2
<1>2. PICK g \in gaps : \A h \in gaps : g <= h
    <2> HIDE DEF gaps
    <2> QED BY <1>1, LeastNatural
<1>3. PICK m \in s : g = n - m
    BY <1>2
<1>4. \A y \in s : m >= y
    <2>1. \A y \in s : g <= n - y
        BY <1>2
    <2> QED BY <1>3, <2>1
<1>5. Max(s) \in s /\ \A y \in s : Max(s) >= y
    BY <1>4 DEF Max
<1>6. \A a \in 1..n : \A y \in s : a >= y => y = a \/ y \in 1..(a - 1)
    OBVIOUS
<1>7. Max(s) \in 1..n
    BY <1>5
<1> QED BY <1>5, <1>6, <1>7

LEMMA MaxOfInterval ==
    ASSUME NEW k \in Nat \ {0}
    PROVE  Max(1..k) = k /\ (1..k) \ {k} = 1..(k - 1)
<1>1. Max(1..k) \in 1..k /\ k \notin (1..k) \ {Max(1..k)}
    <2>1. 1..k \in SUBSET (1..k) /\ 1..k # {}
        OBVIOUS
    <2>2. Max(1..k) \in 1..k /\ (1..k) \ {Max(1..k)} \in SUBSET (1..(Max(1..k) - 1))
        BY <2>1, MaxFacts
    <2> DEFINE m == Max(1..k)
    <2>3. \A x \in 1..k : x # m => x <= m - 1
        BY <2>2
    <2> HIDE DEF m
    <2>4. m \in 1..k
        BY <2>2 DEF m
    <2> QED BY <2>3, <2>4 DEF m
<1> QED BY <1>1

\* A function on sets of numbers that is defined by recursion along the numbers,
\* the greatest one first: this is how the folds of the library are defined.
FollowsSets(h, n, base, step) ==
    /\ h[{}] = base
    /\ \A s \in SUBSET (1..n) : s # {} => h[s] = step[<<Max(s), h[s \ {Max(s)}]>>]

LEMMA RecursionOnSets ==
    ASSUME NEW n \in Nat, NEW V, NEW base \in V, NEW step \in [(1..n) \X V -> V]
    PROVE  \E h \in [SUBSET (1..n) -> V] : FollowsSets(h, n, base, step)
<1> DEFINE W == [SUBSET (1..n) -> V]
           Next(h) == [s \in SUBSET (1..n) |->
                          IF s = {} THEN base ELSE step[<<Max(s), h[s \ {Max(s)}]>>]]
           first == [s \in SUBSET (1..n) |-> base]
           steps == [p \in (1..(n + 1)) \X W |-> Next(p[2])]
<1>1. \A s \in SUBSET (1..n) : s # {} =>
          /\ Max(s) \in 1..n /\ s \ {Max(s)} \in SUBSET (1..n)
          /\ s \ {Max(s)} \in SUBSET (1..(Max(s) - 1))
    BY MaxFacts
<1>2. first \in W /\ \A h \in W : Next(h) \in W
    <2>1. ASSUME NEW h \in W PROVE Next(h) \in W
        <3>1. ASSUME NEW s \in SUBSET (1..n), s # {}
              PROVE  step[<<Max(s), h[s \ {Max(s)}]>>] \in V
            BY <1>1, <3>1
        <3> QED BY <3>1
    <2> QED BY <2>1
<1>3. steps \in [(1..(n + 1)) \X W -> W]
    <2> HIDE DEF W, Next
    <2> QED BY <1>2
<1>4. PICK g \in [1..(n + 1) -> W] : Follows(g, n + 1, first, steps)
    <2>1. n + 1 \in Nat \ {0}
        OBVIOUS
    <2> HIDE DEF W, steps, first
    <2> QED BY <1>2, <1>3, <2>1, RecursionAlong
<1>5. /\ g[1] = first
      /\ \A i \in 1..n : g[i] \in W /\ g[i + 1] \in W /\ g[i + 1] = Next(g[i])
    <2>1. g[1] = first
        <3>1. 1 \in 1..(n + 1)
            OBVIOUS
        <3> HIDE DEF first, steps
        <3> QED BY <1>4, <3>1 DEF Follows
    <2>2. ASSUME NEW i \in 1..n PROVE g[i + 1] = Next(g[i])
        <3>1. i + 1 \in 1..(n + 1) /\ i + 1 # 1 /\ (i + 1) - 1 = i /\ i \in 1..(n + 1)
            OBVIOUS
        <3>2. g[i + 1] = steps[<<i + 1, g[i]>>]
            BY <1>4, <3>1 DEF Follows
        <3>3. g[i] \in W
            <4> HIDE DEF W
            <4> QED BY <1>4, <3>1
        <3>4. <<i + 1, g[i]>> \in (1..(n + 1)) \X W
            <4> HIDE DEF W
            <4> QED BY <3>1, <3>3
        <3> HIDE DEF W, Next
        <3> QED BY <3>2, <3>4
    <2>3. \A i \in 1..n : i \in 1..(n + 1) /\ i + 1 \in 1..(n + 1)
        OBVIOUS
    <2> HIDE DEF W, Next, first
    <2> QED BY <1>4, <2>1, <2>2, <2>3
<1> DEFINE Fixed(h, k) == \A s \in SUBSET (1..n) : s \in SUBSET (1..(k - 1)) => h[s] = Next(h)[s]
           Settled(k) == k <= n => Fixed(g[k + 1], k + 1)
           settled == {k \in Nat : Settled(k)}
<1>6. Settled(0)
    <2>1. \A s \in SUBSET (1..0) : s = {}
        OBVIOUS
    <2>2. g[1][{}] = base /\ Next(g[1])[{}] = base
        BY <1>5
    <2>3. 0 + 1 = 1 /\ 1 - 1 = 0
        OBVIOUS
    <2> HIDE DEF Next
    <2>4. Fixed(g[1], 1)
        BY <2>1, <2>2, <2>3
    <2> HIDE DEF Fixed
    <2> QED BY <2>3, <2>4
<1>7. ASSUME NEW k \in Nat, Settled(k) PROVE Settled(k + 1)
    <2>1. SUFFICES ASSUME k + 1 <= n, NEW s \in SUBSET (1..n), s \in SUBSET (1..(k + 1))
                   PROVE  g[k + 2][s] = Next(g[k + 2])[s]
        <3>1. (k + 1) + 1 = k + 2 /\ (k + 2) - 1 = k + 1
            OBVIOUS
        <3> HIDE DEF Next
        <3> QED BY <3>1
    <2>2. k + 1 \in 1..n /\ k + 2 = (k + 1) + 1
        BY <2>1
    <2>3. \A t \in SUBSET (1..n) : t \in SUBSET (1..k) => g[k + 2][t] = g[k + 1][t]
        <3>1. \A t \in SUBSET (1..n) : t \in SUBSET (1..k) => g[k + 1][t] = Next(g[k + 1])[t]
            <4>1. k <= n /\ (k + 1) - 1 = k
                BY <2>1
            <4> HIDE DEF Next
            <4> QED BY <1>7, <4>1
        <3>2. g[k + 2] = Next(g[k + 1])
            BY <1>5, <2>2
        <3> HIDE DEF Next
        <3> QED BY <3>1, <3>2
    <2>4. g[k + 2][s] = IF s = {} THEN base ELSE step[<<Max(s), g[k + 1][s \ {Max(s)}]>>]
        <3>1. g[k + 2] = Next(g[k + 1])
            <4> HIDE DEF Next
            <4> QED BY <1>5, <2>2
        <3> QED BY <3>1
    <2>5. s # {} => g[k + 2][s \ {Max(s)}] = g[k + 1][s \ {Max(s)}]
        <3>1. s # {} => Max(s) \in 1..(k + 1) /\ s \ {Max(s)} \in SUBSET (1..n)
                        /\ s \ {Max(s)} \in SUBSET (1..(Max(s) - 1))
            BY <1>1, <2>1, MaxFacts
        <3>2. \A m \in 1..(k + 1) : 1..(m - 1) \subseteq 1..k
            OBVIOUS
        <3> QED BY <2>3, <3>1, <3>2
    <2> QED BY <2>4, <2>5
<1>8. Settled(n)
    <2> HIDE DEF Settled
    <2>1. 0 \in settled /\ \A k \in settled \cap Nat : k + 1 \in settled
        BY <1>6, <1>7
    <2>2. n \in settled
        <3> HIDE DEF settled
        <3> QED BY <2>1, InductionFromZero
    <2> QED BY <2>2
<1>9. \A s \in SUBSET (1..n) : g[n + 1][s] = Next(g[n + 1])[s]
    <2>1. (n + 1) - 1 = n /\ n <= n
        OBVIOUS
    <2> HIDE DEF Next
    <2> QED BY <1>8, <2>1
<1>10. FollowsSets(g[n + 1], n, base, step)
    BY <1>9 DEF FollowsSets
<1>11. g[n + 1] \in W
    <2>1. n + 1 \in 1..(n + 1)
        OBVIOUS
    <2> HIDE DEF W
    <2> QED BY <1>4, <2>1
<1> QED BY <1>10, <1>11

\* What such a function has on the intervals from 1 on is a plain recursion.  A
\* fold is known to be of its type only there.
FollowsIntervals(h, n, V, base, step) ==
    /\ h[1..0] = base
    /\ \A k \in 1..n : h[1..(k - 1)] \in V => h[1..k] = step[<<k, h[1..(k - 1)]>>]

Along(g, n, base, step) ==
    g[0] = base /\ \A k \in 1..n : g[k] = step[<<k, g[k - 1]>>]

\* The fold is the last value of a function over 0..n.
FoldsAlong(h, n, V, base, step) ==
    \E g \in [0..n -> V] : Along(g, n, base, step) /\ h[1..n] = g[n]

LEMMA FoldAlong ==
    ASSUME NEW n \in Nat, NEW V, NEW base \in V, NEW step \in [(1..n) \X V -> V],
           NEW h, FollowsIntervals(h, n, V, base, step)
    PROVE  FoldsAlong(h, n, V, base, step)
<1> DEFINE g == [k \in 0..n |-> h[1..k]]
           Typed(k) == k <= n => h[1..k] \in V
           typed == {k \in Nat : Typed(k)}
<1>1. Typed(0)
    BY DEF FollowsIntervals
<1>2. ASSUME NEW k \in Nat, Typed(k) PROVE Typed(k + 1)
    <2>1. SUFFICES ASSUME k + 1 <= n PROVE h[1..(k + 1)] \in V
        OBVIOUS
    <2>2. k + 1 \in 1..n /\ (k + 1) - 1 = k /\ h[1..k] \in V
        BY <1>2, <2>1
    <2>3. h[1..(k + 1)] = step[<<k + 1, h[1..k]>>]
        BY <2>2 DEF FollowsIntervals
    <2> QED BY <2>2, <2>3
<1>3. \A k \in Nat : Typed(k)
    <2>1. 0 \in typed /\ \A k \in typed \cap Nat : k + 1 \in typed
        <3> HIDE DEF Typed
        <3> QED BY <1>1, <1>2
    <2>2. Nat \subseteq typed
        <3> HIDE DEF typed
        <3> QED BY <2>1, InductionFromZero
    <2> HIDE DEF Typed
    <2> QED BY <2>2
<1>4. g \in [0..n -> V]
    <2>1. \A k \in 0..n : h[1..k] \in V
        BY <1>3
    <2> QED BY <2>1
<1>5. Along(g, n, base, step)
    <2>1. g[0] = base
        BY DEF FollowsIntervals
    <2>2. ASSUME NEW k \in 1..n PROVE g[k] = step[<<k, g[k - 1]>>]
        <3>1. k \in 0..n /\ k - 1 \in 0..n
            OBVIOUS
        <3>2. g[k] = h[1..k] /\ g[k - 1] = h[1..(k - 1)] /\ h[1..(k - 1)] \in V
            BY <1>3, <3>1
        <3> HIDE DEF g
        <3> QED BY <3>2 DEF FollowsIntervals
    <2> HIDE DEF g
    <2> QED BY <2>1, <2>2 DEF Along
<1>6. n \in 0..n
    OBVIOUS
<1>7. h[1..n] = g[n]
    BY <1>6
<1> HIDE DEF g
<1> QED BY <1>4, <1>5, <1>7 DEF FoldsAlong

\* A longer sequence, as a set.
LEMMA AppendFacts ==
    ASSUME NEW S, NEW s \in Seq(S), NEW e \in S
    PROVE  /\ Append(s, e) \in Seq(S)
           /\ ToSet(Append(s, e)) = ToSet(s) \cup {e}
           /\ IsInjective(s) /\ e \notin ToSet(s) => IsInjective(Append(s, e))
<1>1. /\ Append(s, e) \in Seq(S) /\ Len(Append(s, e)) = Len(s) + 1
      /\ \A k \in 1..Len(s) : Append(s, e)[k] = s[k]
      /\ Append(s, e)[Len(s) + 1] = e
    OBVIOUS
<1>2. DOMAIN s = 1..Len(s) /\ DOMAIN Append(s, e) = 1..(Len(s) + 1)
    BY <1>1
<1>3. 1..(Len(s) + 1) = (1..Len(s)) \cup {Len(s) + 1} /\ Len(s) + 1 \notin 1..Len(s)
    OBVIOUS
<1> DEFINE a == Append(s, e)
           N == Len(s)
<1>4. /\ DOMAIN s = 1..N /\ DOMAIN a = (1..N) \cup {N + 1}
      /\ \A k \in 1..N : a[k] = s[k]
      /\ a[N + 1] = e
    BY <1>1, <1>2, <1>3
<1> HIDE DEF a, N
<1>5. ToSet(a) = ToSet(s) \cup {e}
    BY <1>4 DEF ToSet
<1>6. IsInjective(s) /\ e \notin ToSet(s) => IsInjective(a)
    BY <1>4 DEF IsInjective, ToSet
<1> QED BY <1>1, <1>5, <1>6 DEF a

\* Two sequences one after the other, as a set.
LEMMA ConcatFacts ==
    ASSUME NEW S, NEW s \in Seq(S), NEW t \in Seq(S)
    PROVE  /\ s \o t \in Seq(S)
           /\ ToSet(s \o t) = ToSet(s) \cup ToSet(t)
           /\ IsInjective(s) /\ IsInjective(t) /\ ToSet(s) \cap ToSet(t) = {} => IsInjective(s \o t)
<1> DEFINE m == Len(s)
           n == Len(t)
           st == s \o t
<1>1. /\ st \in Seq(S) /\ m \in Nat /\ n \in Nat
      /\ DOMAIN s = 1..m /\ DOMAIN t = 1..n /\ DOMAIN st = 1..(m + n)
      /\ \A i \in 1..(m + n) : st[i] = IF i <= m THEN s[i] ELSE t[i - m]
    BY ConcatProperties, LenProperties
<1> HIDE DEF m, n, st
<1>2. /\ \A i \in 1..m : i \in 1..(m + n) /\ st[i] = s[i]
      /\ \A j \in 1..n : m + j \in 1..(m + n) /\ st[m + j] = t[j]
    <2>1. \A i \in 1..m : i \in 1..(m + n) /\ i <= m
        BY <1>1
    <2>2. \A j \in 1..n : m + j \in 1..(m + n) /\ ~(m + j <= m) /\ (m + j) - m = j
        BY <1>1
    <2> QED BY <1>1, <2>1, <2>2
<1>3. \A i \in 1..(m + n) : i \in 1..m \/ (i - m \in 1..n /\ i = m + (i - m))
    BY <1>1
<1>4. \A i \in 1..(m + n) : (i \in 1..m /\ st[i] = s[i]) \/ (i - m \in 1..n /\ st[i] = t[i - m])
    BY <1>2, <1>3
<1>5. ToSet(st) = ToSet(s) \cup ToSet(t)
    <2>1. \A x : x \in ToSet(st) <=> \E i \in 1..(m + n) : x = st[i]
        BY <1>1 DEF ToSet
    <2>2. \A x : x \in ToSet(s) <=> \E i \in 1..m : x = s[i]
        BY <1>1 DEF ToSet
    <2>3. \A x : x \in ToSet(t) <=> \E j \in 1..n : x = t[j]
        BY <1>1 DEF ToSet
    <2>4. \A x : x \in ToSet(st) => x \in ToSet(s) \/ x \in ToSet(t)
        BY <1>4, <2>1, <2>2, <2>3
    <2>5. \A x : x \in ToSet(s) \/ x \in ToSet(t) => x \in ToSet(st)
        BY <1>2, <2>1, <2>2, <2>3
    <2> QED BY <2>4, <2>5
<1>6. ASSUME IsInjective(s), IsInjective(t), ToSet(s) \cap ToSet(t) = {},
             NEW i \in 1..(m + n), NEW j \in 1..(m + n), st[i] = st[j]
      PROVE  i = j
    <2>1. CASE i \in 1..m /\ j \in 1..m
        BY <1>1, <1>2, <1>6, <2>1 DEF IsInjective
    <2>2. CASE i - m \in 1..n /\ j - m \in 1..n /\ i \notin 1..m /\ j \notin 1..m
        <3>1. t[i - m] = t[j - m]
            BY <1>4, <1>6, <2>2
        <3>2. i - m = j - m
            BY <1>1, <1>6, <2>2, <3>1 DEF IsInjective
        <3> QED BY <1>1, <3>2
    <2>3. CASE (i \in 1..m /\ j - m \in 1..n /\ j \notin 1..m) \/ (j \in 1..m /\ i - m \in 1..n /\ i \notin 1..m)
        <3>1. \A x \in 1..m, y \in 1..n : s[x] # t[y]
            BY <1>1, <1>6 DEF ToSet
        <3>2. \A x \in 1..(m + n) : x \notin 1..m => x - m \in 1..n /\ st[x] = t[x - m]
            BY <1>4
        <3> QED BY <1>2, <1>6, <2>3, <3>1, <3>2
    <2> QED BY <1>4, <2>1, <2>2, <2>3
<1>7. IsInjective(s) /\ IsInjective(t) /\ ToSet(s) \cap ToSet(t) = {} => IsInjective(st)
    BY <1>1, <1>6 DEF IsInjective
<1> QED BY <1>1, <1>5, <1>7 DEF st

\* A flattened sequence has the elements of its sequences, and each once if each of
\* them has its own, once.
LEMMA FlattenFacts ==
    ASSUME NEW S, NEW seqs \in Seq(Seq(S)), NEW n, n = Len(seqs), n > 0,
           \A i \in 1..n : IsInjective(seqs[i]),
           \A i, j \in 1..n : i # j => ToSet(seqs[i]) \cap ToSet(seqs[j]) = {}
    PROVE  /\ IsInjective(FlattenSeq(seqs))
           /\ ToSet(FlattenSeq(seqs)) = UNION {ToSet(seqs[i]) : i \in 1..n}
<1>1. PICK f : Flattened(f, seqs, S)
    BY FlattenSteps
<1>2. /\ n \in Nat \ {0} /\ \A i \in 1..n : seqs[i] \in Seq(S) /\ f[i] \in Seq(S)
      /\ f[1] = seqs[1] /\ FlattenSeq(seqs) = f[n]
      /\ \A k \in 1..(n - 1) : f[k + 1] = f[k] \o seqs[k + 1]
    <2>1. n \in Nat \ {0}
        OBVIOUS
    <2>2. \A i \in 1..n : seqs[i] \in Seq(S)
        BY ElementOfSeq
    <2> QED BY <1>1, <2>1, <2>2 DEF Flattened
<1> DEFINE Good(k) ==
               k <= n => /\ IsInjective(f[k])
                         /\ ToSet(f[k]) = UNION {ToSet(seqs[i]) : i \in 1..k}
           good == {k \in Nat : Good(k)}
<1>3. Good(1)
    <2>1. UNION {ToSet(seqs[i]) : i \in 1..1} = ToSet(seqs[1])
        <3>1. 1..1 = {1}
            OBVIOUS
        <3> QED BY <3>1
    <2> QED BY <1>2, <2>1
<1>4. ASSUME NEW k \in Nat, Good(k) PROVE Good(k + 1)
    <2>1. CASE k = 0
        BY <1>3, <2>1
    <2>2. CASE k # 0 /\ k + 1 <= n
        <3>1. k \in 1..(n - 1) /\ k + 1 \in 1..n /\ k \in 1..n /\ 1..(k + 1) = (1..k) \cup {k + 1}
              /\ k + 1 \notin 1..k /\ 1..k \subseteq 1..n
            BY <1>2, <2>2
        <3>2. f[k + 1] = f[k] \o seqs[k + 1] /\ f[k] \in Seq(S) /\ seqs[k + 1] \in Seq(S)
            BY <1>2, <3>1
        <3>3. IsInjective(f[k]) /\ ToSet(f[k]) = UNION {ToSet(seqs[i]) : i \in 1..k}
            BY <1>4, <3>1
        <3>4. ToSet(f[k]) \cap ToSet(seqs[k + 1]) = {}
            <4>1. \A i \in 1..k : i \in 1..n /\ i # k + 1
                BY <3>1
            <4>2. \A i \in 1..k : ToSet(seqs[i]) \cap ToSet(seqs[k + 1]) = {}
                BY <3>1, <4>1
            <4> QED BY <3>3, <4>2
        <3>5. IsInjective(f[k + 1]) /\ ToSet(f[k + 1]) = ToSet(f[k]) \cup ToSet(seqs[k + 1])
            BY <3>1, <3>2, <3>3, <3>4, ConcatFacts
        <3> QED BY <3>1, <3>3, <3>5
    <2> QED BY <2>1, <2>2
<1>5. Good(n)
    <2> HIDE DEF Good
    <2>1. 1 \in good /\ \A k \in good \cap Nat : k + 1 \in good
        BY <1>3, <1>4
    <2>2. n \in good
        <3> HIDE DEF good
        <3> QED BY <1>2, <2>1, InductionBySet
    <2> QED BY <2>2
<1> QED BY <1>2, <1>5

\* A sequence without its head, as a set.
LEMMA TailFacts ==
    ASSUME NEW S, NEW s \in Seq(S), s # <<>>
    PROVE  /\ Head(s) \in S /\ Tail(s) \in Seq(S)
           /\ ToSet(s) = {Head(s)} \cup ToSet(Tail(s))
           /\ \A k \in 1..Len(Tail(s)) : k + 1 \in 1..Len(s) /\ Tail(s)[k] = s[k + 1]
           /\ 1 \in 1..Len(s) /\ Head(s) = s[1]
<1> DEFINE n == Len(s)
           t == Tail(s)
<1>1. /\ n \in Nat \ {0} /\ DOMAIN s = 1..n /\ DOMAIN t = 1..(n - 1) /\ Len(t) = n - 1
      /\ Head(s) \in S /\ t \in Seq(S) /\ Head(s) = s[1]
      /\ \A k \in 1..(n - 1) : t[k] = s[k + 1]
    BY HeadTailProperties, LenProperties
<1> HIDE DEF n, t
<1>2. /\ \A k \in 1..(n - 1) : k + 1 \in 1..n /\ t[k] = s[k + 1]
      /\ \A k \in 1..n : k = 1 \/ (k - 1 \in 1..(n - 1) /\ s[k] = t[k - 1])
      /\ 1 \in 1..n
    <2>1. \A k \in 1..(n - 1) : k + 1 \in 1..n
        BY <1>1
    <2>2. \A k \in 1..n : k = 1 \/ (k - 1 \in 1..(n - 1) /\ (k - 1) + 1 = k)
        BY <1>1
    <2>3. 1 \in 1..n
        BY <1>1
    <2> QED BY <1>1, <2>1, <2>2, <2>3
<1>3. \A x : x \in ToSet(s) <=> \E k \in 1..n : x = s[k]
    BY <1>1 DEF ToSet
<1>4. \A x : x \in ToSet(t) <=> \E k \in 1..(n - 1) : x = t[k]
    BY <1>1 DEF ToSet
<1>5. \A x : x \in ToSet(s) <=> x = s[1] \/ x \in ToSet(t)
    BY <1>2, <1>3, <1>4
<1>6. ToSet(s) = {s[1]} \cup ToSet(t)
    BY <1>5
<1> QED BY <1>1, <1>2, <1>6 DEF n, t

LEMMA FrontFacts ==
    ASSUME NEW S, NEW s \in Seq(S), s # <<>>
    PROVE  /\ Front(s) \in Seq(S) /\ Last(s) \in S /\ Last(s) = s[Len(s)]
           /\ Len(Front(s)) = Len(s) - 1 /\ Len(s) \in Nat \ {0} /\ Len(s) \in 1..Len(s)
           /\ \A k \in 1..(Len(s) - 1) : k \in 1..Len(s) /\ Front(s)[k] = s[k]
<1>1. Len(s) \in Nat \ {0} /\ Len(s) \in 1..Len(s) /\ 1..(Len(s) - 1) \subseteq 1..Len(s)
      /\ \A k \in 1..Len(s) : s[k] \in S
    BY ElementOfSeq
<1>2. Front(s) = SubSeq(s, 1, Len(s) - 1)
    BY DEF Front
<1>3. /\ SubSeq(s, 1, Len(s) - 1) \in Seq(S)
      /\ Len(SubSeq(s, 1, Len(s) - 1)) = Len(s) - 1
      /\ \A k \in 1..(Len(s) - 1) : SubSeq(s, 1, Len(s) - 1)[k] = s[k]
    <2> DEFINE m == Len(s) - 1
               f == SubSeq(s, 1, m)
    <2>1. m \in Nat /\ m \in Int /\ 1 \in Int /\ \A k \in 1..m : s[k] \in S
        BY <1>1
    <2> HIDE DEF m
    <2>2. /\ f \in Seq(S) /\ Len(f) = IF 1 <= m THEN m - 1 + 1 ELSE 0
          /\ \A k \in 1..(m - 1 + 1) : f[k] = s[1 + k - 1]
        BY <2>1, SubSeqProperties
    <2>3. (IF 1 <= m THEN m - 1 + 1 ELSE 0) = m /\ m - 1 + 1 = m
        BY <2>1
    <2>4. \A k \in 1..m : 1 + k - 1 = k
        BY <2>1
    <2> HIDE DEF f
    <2> QED BY <2>2, <2>3, <2>4 DEF f, m
<1> QED BY <1>1, <1>2, <1>3 DEF Last
==============================================================================
