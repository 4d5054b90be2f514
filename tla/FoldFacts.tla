----------------------------- MODULE FoldFacts -----------------------------
(***************************************************************************)
(* What FoldLeft of SequencesExt computes, for every operation, and with   *)
(* it induction over the elements of a sequence: the accumulators that the *)
(* folding goes through, one for each element.                             *)
(*                                                                         *)
(* No prover can be given an operator as an argument of a lemma, so the    *)
(* operation is a parameter of the module; a module that reasons about a   *)
(* fold takes an instance of this one for it.  So that each instance is    *)
(* small, the module takes little of the library: ToSet and FlattenSeq are *)
(* here as SequencesExt has them, and a proof that uses what is said of    *)
(* them shows that they are the same.                                      *)
(***************************************************************************)
EXTENDS Naturals, Sequences, TLAPS

LOCAL INSTANCE WellFoundedInduction

CONSTANT Op(_, _, _)    \* context, accumulator, element

\* Induction over the naturals, for a set instead of a predicate.
LEMMA NatSetInduction ==
  ASSUME NEW S, 0 \in S, \A n \in Nat : n \in S => n + 1 \in S
  PROVE  Nat \subseteq S
<1> DEFINE T == Nat \ S
<1> SUFFICES ASSUME T # {} PROVE FALSE
  OBVIOUS
<1>1. IsWellFoundedOn(OpToRel(<, Nat), Nat)
  BY NatLessThanWellFounded
<1>2. T \subseteq Nat
  OBVIOUS
<1>3. PICK x \in T : \A y \in T : ~ (<<y, x>> \in OpToRel(<, Nat))
  <2> HIDE DEF T
  <2> QED
    BY <1>1, <1>2, WFMin
<1>4. \A y \in T : ~(y < x)
  BY <1>3 DEF OpToRel
<1>5. x # 0 /\ x - 1 \in T
  BY <1>4
<1>6. QED
  BY <1>4, <1>5

\* The last position, as FoldLeft chooses it.
Latest(s) == CHOOSE x \in s : \A y \in s : x >= y

\* The function that FoldLeft defines by recursion, over the sets of positions.
Folding(h, ctx, base, seq, D) ==
    h = [s \in SUBSET D |-> IF s = {} THEN base
                            ELSE Op(ctx, h[s \ {Latest(s)}], seq[Latest(s)])]

Iter(ctx, base, seq) == CHOOSE h : Folding(h, ctx, base, seq, DOMAIN seq)

LEMMA LastOfSome ==
  ASSUME NEW n \in Nat, NEW s \in SUBSET (1..(n + 1)), n + 1 \in s
  PROVE  Latest(s) = n + 1
<1>1. \A y \in s : n + 1 >= y
  OBVIOUS
<1>2. \A x \in s : (\A y \in s : x >= y) => x = n + 1
  OBVIOUS
<1>3. QED
  BY <1>1, <1>2 DEF Latest

LEMMA MaxIsIn ==
  ASSUME NEW n \in Nat, NEW s \in SUBSET (1..n), s # {}
  PROVE  Latest(s) \in s
<1> DEFINE S == {k \in Nat : \A t \in SUBSET (1..k) : t # {} => \E x \in t : \A y \in t : x >= y}
<1>1. 0 \in S
  <2>1. 1..0 = {}
    OBVIOUS
  <2>2. QED
    BY <2>1
<1>2. ASSUME NEW k \in Nat, k \in S PROVE k + 1 \in S
  <2> SUFFICES ASSUME NEW t \in SUBSET (1..(k + 1)), t # {}
               PROVE  \E x \in t : \A y \in t : x >= y
    OBVIOUS
  <2>1. CASE k + 1 \in t
    BY <2>1
  <2>2. CASE k + 1 \notin t
    <3>1. t \in SUBSET (1..k)
      BY <2>2
    <3>2. QED
      BY <1>2, <3>1
  <2>3. QED
    BY <2>1, <2>2
<1>3. Nat \subseteq S
  <2> HIDE DEF S
  <2> QED
    BY <1>1, <1>2, NatSetInduction
<1>4. \E x \in s : \A y \in s : x >= y
  BY <1>3
<1>5. QED
  BY <1>4 DEF Latest

\* There is such a function.
LEMMA FoldingExists ==
  ASSUME NEW ctx, NEW base, NEW seq, NEW n \in Nat
  PROVE  \E h : Folding(h, ctx, base, seq, 1..n)
<1> DEFINE S == {k \in Nat : \E h : Folding(h, ctx, base, seq, 1..k)}
<1>1. 0 \in S
  <2>1. \A s \in SUBSET (1..0) : s = {}
    OBVIOUS
  <2>2. Folding([s \in SUBSET (1..0) |-> base], ctx, base, seq, 1..0)
    BY <2>1 DEF Folding
  <2>3. QED
    BY <2>2
<1>2. ASSUME NEW k \in Nat, k \in S PROVE k + 1 \in S
  <2>1. PICK h : Folding(h, ctx, base, seq, 1..k)
    BY <1>2
  <2> DEFINE g == [s \in SUBSET (1..(k + 1)) |->
                     IF k + 1 \in s THEN Op(ctx, h[s \ {k + 1}], seq[k + 1]) ELSE h[s]]
  <2>2. ASSUME NEW s \in SUBSET (1..(k + 1))
        PROVE  g[s] = IF s = {} THEN base ELSE Op(ctx, g[s \ {Latest(s)}], seq[Latest(s)])
    <3>1. CASE k + 1 \in s
      <4>1. Latest(s) = k + 1
        BY <3>1, LastOfSome
      <4>2. s \ {k + 1} \in SUBSET (1..(k + 1)) /\ k + 1 \notin s \ {k + 1}
        OBVIOUS
      <4>3. g[s \ {k + 1}] = h[s \ {k + 1}]
        BY <4>2
      <4>4. QED
        BY <3>1, <4>1, <4>3
    <3>2. CASE k + 1 \notin s /\ s # {}
      <4>1. s \in SUBSET (1..k)
        BY <3>2
      <4>2. Latest(s) \in s
        BY <3>2, <4>1, MaxIsIn
      <4>3. s \ {Latest(s)} \in SUBSET (1..(k + 1)) /\ k + 1 \notin s \ {Latest(s)}
        BY <3>2
      <4>4. g[s] = h[s] /\ g[s \ {Latest(s)}] = h[s \ {Latest(s)}]
        BY <3>2, <4>3
      <4>5. h[s] = Op(ctx, h[s \ {Latest(s)}], seq[Latest(s)])
        BY <2>1, <3>2, <4>1 DEF Folding
      <4>6. QED
        BY <3>2, <4>4, <4>5
    <3>3. CASE s = {}
      <4>1. h[s] = base
        BY <2>1, <3>3 DEF Folding
      <4>2. QED
        BY <3>3, <4>1
    <3>4. QED
      BY <3>1, <3>2, <3>3
  <2>3. Folding(g, ctx, base, seq, 1..(k + 1))
    BY <2>2 DEF Folding
  <2>4. QED
    BY <2>3
<1>3. Nat \subseteq S
  <2> HIDE DEF S
  <2> QED
    BY <1>1, <1>2, NatSetInduction
<1>4. QED
  BY <1>3

\* A fold begins with the base, takes one element after the other, and what it has
\* after the last of n is its result.
FoldsTo(ctx, base, seq, n) ==
    \E acc : /\ acc[0] = base
             /\ \A k \in 1..n : acc[k] = Op(ctx, acc[k - 1], seq[k])
             /\ acc[n] = Iter(ctx, base, seq)[DOMAIN seq]

\* What the recursive function in FoldLeft returns is what the steps lead to.
THEOREM FoldLeftSteps ==
  ASSUME NEW ctx, NEW base, NEW seq, NEW n \in Nat, DOMAIN seq = 1..n
  PROVE  FoldsTo(ctx, base, seq, n)
<1> DEFINE h == Iter(ctx, base, seq)
<1>1. Folding(h, ctx, base, seq, 1..n)
  BY FoldingExists DEF Iter
<1> HIDE DEF h
<1> DEFINE acc == [k \in 0..n |-> h[1..k]]
<1>2. acc[0] = base
  <2>1. 1..0 = {} /\ {} \in SUBSET (1..n)
    OBVIOUS
  <2>2. h[{}] = base
    BY <1>1 DEF Folding
  <2>3. QED
    BY <2>1, <2>2
<1>3. ASSUME NEW k \in 1..n PROVE acc[k] = Op(ctx, acc[k - 1], seq[k])
  <2>1. 1..k \in SUBSET (1..n) /\ 1..k # {} /\ (1..k) \ {k} = 1..(k - 1)
    OBVIOUS
  <2>2. Latest(1..k) = k
    <3>1. k - 1 \in Nat /\ (k - 1) + 1 = k /\ 1..k \in SUBSET (1..((k - 1) + 1)) /\ k \in 1..k
      OBVIOUS
    <3>2. QED
      BY <3>1, LastOfSome
  <2>3. h[1..k] = Op(ctx, h[1..(k - 1)], seq[k])
    BY <1>1, <2>1, <2>2 DEF Folding
  <2>4. QED
    BY <2>3
<1>4. acc[n] = h[DOMAIN seq]
  OBVIOUS
<1>5. QED
  BY <1>2, <1>3, <1>4 DEF h, FoldsTo
-----------------------------------------------------------------------------
(* FlattenSeq                                                              *)

\* The elements of a sequence, and sequences put one behind the other.
ToSet(s) == {s[i] : i \in DOMAIN s}

FlattenSeq(seqs) ==
    IF Len(seqs) = 0 THEN seqs
    ELSE LET flatten[i \in 1..Len(seqs)] ==
                 IF i = 1 THEN seqs[i] ELSE flatten[i - 1] \o seqs[i]
         IN  flatten[Len(seqs)]

\* The function that FlattenSeq defines by recursion, over the positions.
Flattening(h, seqs, D) ==
    h = [i \in D |-> IF i = 1 THEN seqs[i] ELSE h[i - 1] \o seqs[i]]

LEMMA FlatteningExists ==
  ASSUME NEW seqs, NEW n \in Nat
  PROVE  \E h : Flattening(h, seqs, 1..n)
<1> DEFINE S == {k \in Nat : \E h : Flattening(h, seqs, 1..k)}
<1>1. 0 \in S
  <2>1. Flattening([i \in 1..0 |-> <<>>], seqs, 1..0)
    BY DEF Flattening
  <2>2. QED
    BY <2>1
<1>2. ASSUME NEW k \in Nat, k \in S PROVE k + 1 \in S
  <2>1. PICK h : Flattening(h, seqs, 1..k)
    BY <1>2
  <2> DEFINE g == [i \in 1..(k + 1) |-> IF i = 1 THEN seqs[i]
                                        ELSE IF i = k + 1 THEN h[k] \o seqs[i] ELSE h[i]]
  <2>2. ASSUME NEW i \in 1..(k + 1)
        PROVE  g[i] = IF i = 1 THEN seqs[i] ELSE g[i - 1] \o seqs[i]
    <3>1. CASE i \in 1..k
      <4>1. h[i] = IF i = 1 THEN seqs[i] ELSE h[i - 1] \o seqs[i]
        BY <2>1, <3>1 DEF Flattening
      <4>2. i # 1 => i - 1 \in 1..k /\ i - 1 # k + 1
        BY <3>1
      <4>3. \A j \in 1..k : g[j] = h[j]
        <5>1. 1 \in 1..k => h[1] = seqs[1]
          BY <2>1 DEF Flattening
        <5>2. QED
          BY <5>1
      <4>4. QED
        BY <3>1, <4>1, <4>2, <4>3
    <3>2. CASE i = k + 1 /\ i # 1
      <4>1. k \in 1..k /\ i - 1 = k /\ k # k + 1
        BY <3>2
      <4>2. g[k] = h[k]
        <5>1. h[1] = seqs[1]
          BY <2>1, <4>1 DEF Flattening
        <5>2. QED
          BY <4>1, <5>1
      <4>3. QED
        BY <3>2, <4>1, <4>2
    <3>3. QED
      BY <3>1, <3>2
  <2>3. Flattening(g, seqs, 1..(k + 1))
    <3> HIDE DEF g
    <3>1. g = [i \in 1..(k + 1) |-> g[i]]
      BY DEF g
    <3>2. QED
      BY <2>2, <3>1 DEF Flattening
  <2>4. QED
    BY <2>3
<1>3. Nat \subseteq S
  <2> HIDE DEF S
  <2> QED
    BY <1>1, <1>2, NatSetInduction
<1>4. QED
  BY <1>3

\* One sequence after the other is appended to what there is.
Appends(acc, seqs, n) ==
    /\ acc[0] = <<>>
    /\ \A k \in 1..n : acc[k] = acc[k - 1] \o seqs[k]
    /\ acc[n] = FlattenSeq(seqs)

LEMMA FlattenSteps ==
  ASSUME NEW S, NEW seqs \in Seq(Seq(S))
  PROVE  \E acc \in [0..Len(seqs) -> Seq(S)] : Appends(acc, seqs, Len(seqs))
<1> DEFINE n == Len(seqs)
           h == CHOOSE f : Flattening(f, seqs, 1..n)
<1>1. n \in Nat /\ DOMAIN seqs = 1..n
  OBVIOUS
<1>2. Flattening(h, seqs, 1..n)
  BY <1>1, FlatteningExists
<1>3. n # 0 => FlattenSeq(seqs) = h[n]
  BY DEF FlattenSeq, Flattening
<1>4. n = 0 => FlattenSeq(seqs) = <<>>
  BY DEF FlattenSeq
<1> HIDE DEF h
<1>each. ASSUME NEW i \in 1..n PROVE h[i] = IF i = 1 THEN seqs[i] ELSE h[i - 1] \o seqs[i]
  <2> HIDE DEF n
  <2> QED
    BY <1>2 DEF Flattening
<1> DEFINE acc == [k \in 0..n |-> IF k = 0 THEN <<>> ELSE h[k]]
<1>5. ASSUME NEW k \in 1..n PROVE h[k] \in Seq(S)
  <2> DEFINE T == {m \in Nat : m \in 1..n => h[m] \in Seq(S)}
  <2>1. 0 \in T
    OBVIOUS
  <2>2. ASSUME NEW m \in Nat, m \in T PROVE m + 1 \in T
    <3> SUFFICES ASSUME m + 1 \in 1..n PROVE h[m + 1] \in Seq(S)
      OBVIOUS
    <3>1. h[m + 1] = IF m + 1 = 1 THEN seqs[m + 1] ELSE h[m] \o seqs[m + 1]
      BY <1>each, m + 1 \in 1..n, (m + 1) - 1 = m
    <3>2. seqs[m + 1] \in Seq(S)
      BY <1>1
    <3>3. m + 1 # 1 => h[m] \in Seq(S)
      BY <2>2
    <3>4. QED
      BY <3>1, <3>2, <3>3
  <2>3. Nat \subseteq T
    <3> HIDE DEF T
    <3> QED
      BY <2>1, <2>2, NatSetInduction
  <2>4. QED
    BY <2>3, <1>1
<1>6. acc \in [0..n -> Seq(S)]
  BY <1>5
<1>7. ASSUME NEW k \in 1..n PROVE acc[k] = acc[k - 1] \o seqs[k]
  <2>1. h[k] = IF k = 1 THEN seqs[k] ELSE h[k - 1] \o seqs[k]
    BY <1>each
  <2>2. seqs[k] \in Seq(S)
    BY <1>1
  <2>3. <<>> \o seqs[k] = seqs[k]
    BY <2>2
  <2>4. k \in Nat /\ k # 0 /\ k - 1 \in 0..n /\ (k - 1 = 0 <=> k = 1) /\ k \in 0..n
    BY <1>1
  <2>5. acc[k] = h[k] /\ acc[k - 1] = IF k = 1 THEN <<>> ELSE h[k - 1]
    BY <2>4
  <2> HIDE DEF acc
  <2>6. CASE k = 1
    BY <2>1, <2>3, <2>5, <2>6
  <2>7. CASE k # 1
    BY <2>1, <2>5, <2>7
  <2>8. QED
    BY <2>6, <2>7
<1>8. acc[0] = <<>> /\ acc[n] = FlattenSeq(seqs)
  <2>1. 0 \in 0..n /\ n \in 0..n
    BY <1>1
  <2>2. QED
    BY <1>3, <1>4, <2>1
<1>9. Appends(acc, seqs, n)
  <2> HIDE DEF acc, n
  <2> QED
    BY <1>7, <1>8 DEF Appends
<1>10. QED
  <2> HIDE DEF acc
  <2> QED
    BY <1>6, <1>9

\* One sequence more is appended at the end.
LEMMA FlattenOneMore ==
  ASSUME NEW S, NEW seqs \in Seq(Seq(S)), NEW more \in Seq(Seq(S)), NEW n \in Nat,
         Len(seqs) = n, Len(more) = n + 1, \A k \in 1..n : more[k] = seqs[k]
  PROVE  /\ FlattenSeq(seqs) \in Seq(S)
         /\ FlattenSeq(more) = FlattenSeq(seqs) \o more[n + 1]
<1>1. PICK a \in [0..n -> Seq(S)] : Appends(a, seqs, n)
  BY FlattenSteps
<1>2. PICK b \in [0..(n + 1) -> Seq(S)] : Appends(b, more, n + 1)
  <2>1. PICK m : m = Len(more) /\ m = n + 1
    OBVIOUS
  <2>2. \E b \in [0..m -> Seq(S)] : Appends(b, more, m)
    BY <2>1, FlattenSteps
  <2>3. QED
    BY <2>1, <2>2
<1> DEFINE T == {k \in Nat : k <= n => a[k] = b[k]}
<1>3. 0 \in T
  BY <1>1, <1>2 DEF Appends
<1>4. ASSUME NEW k \in Nat, k \in T PROVE k + 1 \in T
  <2> SUFFICES ASSUME k + 1 <= n PROVE a[k + 1] = b[k + 1]
    OBVIOUS
  <2>1. k + 1 \in 1..n /\ k + 1 \in 1..(n + 1) /\ (k + 1) - 1 = k /\ a[k] = b[k]
    BY <1>4
  <2>2. a[k + 1] = a[k] \o seqs[k + 1]
    BY <1>1, <2>1 DEF Appends
  <2>3. b[k + 1] = b[k] \o more[k + 1]
    BY <1>2, <2>1 DEF Appends
  <2>4. QED
    BY <2>1, <2>2, <2>3
<1>5. Nat \subseteq T
  <2> HIDE DEF T
  <2> QED
    BY <1>3, <1>4, NatSetInduction
<1>6. a[n] = b[n]
  BY <1>5
<1>7. b[n + 1] = b[n] \o more[n + 1]
  <2>1. n + 1 \in 1..(n + 1) /\ (n + 1) - 1 = n
    OBVIOUS
  <2>2. QED
    BY <1>2, <2>1 DEF Appends
<1>8. FlattenSeq(seqs) = a[n] /\ FlattenSeq(more) = b[n + 1]
  BY <1>1, <1>2 DEF Appends
<1>9. a[n] \in Seq(S)
  BY <1>1
<1>10. QED
  BY <1>6, <1>7, <1>8, <1>9

\* A sequence, of whatever elements.
Sequence(s) == s \in Seq({s[k] : k \in DOMAIN s})

LEMMA SequenceOfSome ==
  ASSUME NEW S, NEW s \in Seq(S)
  PROVE  Sequence(s)
<1>1. PICK n \in Nat : n = Len(s) /\ DOMAIN s = 1..n
  OBVIOUS
<1>2. s \in [1..n -> {s[k] : k \in DOMAIN s}]
  BY <1>1
<1>3. QED
  BY <1>2 DEF Sequence

LEMMA ElementsOfBoth ==
  ASSUME NEW S, NEW s \in Seq(S), NEW t \in Seq(S)
  PROVE  ToSet(s \o t) = ToSet(s) \cup ToSet(t)
<1>1. PICK m \in Nat, n \in Nat : /\ m = Len(s) /\ n = Len(t) /\ DOMAIN s = 1..m
                                /\ DOMAIN t = 1..n /\ DOMAIN (s \o t) = 1..(m + n)
  OBVIOUS
<1>2. /\ \A i \in 1..m : (s \o t)[i] = s[i]
      /\ \A i \in 1..n : (s \o t)[m + i] = t[i]
  BY <1>1
<1>3. ASSUME NEW x \in ToSet(s \o t) PROVE x \in ToSet(s) \cup ToSet(t)
  <2>1. PICK i \in 1..(m + n) : x = (s \o t)[i]
    BY <1>1 DEF ToSet
  <2>2. CASE i <= m
    BY <1>1, <1>2, <2>1, <2>2 DEF ToSet
  <2>3. CASE i > m
    <3>1. i - m \in 1..n /\ m + (i - m) = i
      BY <2>1, <2>3
    <3>2. x = t[i - m]
      BY <1>2, <2>1, <3>1
    <3>3. QED
      BY <1>1, <3>1, <3>2 DEF ToSet
  <2>4. QED
    BY <2>2, <2>3
<1>4. ToSet(s) \subseteq ToSet(s \o t)
  <2>1. \A i \in 1..m : i \in 1..(m + n)
    OBVIOUS
  <2>2. QED
    BY <1>1, <1>2, <2>1 DEF ToSet
<1>5. ASSUME NEW x \in ToSet(t) PROVE x \in ToSet(s \o t)
  <2>1. PICK i \in 1..n : x = t[i]
    BY <1>1 DEF ToSet
  <2>2. m + i \in DOMAIN (s \o t) /\ (s \o t)[m + i] = x
    BY <1>1, <1>2, <2>1
  <2>3. QED
    BY <2>2 DEF ToSet
<1>6. QED
  BY <1>3, <1>4, <1>5

\* The elements of sequences put one behind the other are those of each.
LEMMA FlattenElements ==
  ASSUME NEW seqs, Sequence(seqs), \A k \in DOMAIN seqs : Sequence(seqs[k])
  PROVE  /\ Sequence(FlattenSeq(seqs))
         /\ ToSet(FlattenSeq(seqs)) = UNION {ToSet(seqs[k]) : k \in DOMAIN seqs}
<1>1. PICK n \in Nat : n = Len(seqs) /\ DOMAIN seqs = 1..n
  BY DEF Sequence
<1>2. PICK S : S = UNION {ToSet(seqs[k]) : k \in DOMAIN seqs}
  OBVIOUS
<1>3. ASSUME NEW k \in DOMAIN seqs PROVE seqs[k] \in Seq(S)
  <2>1. seqs[k] \in Seq({seqs[k][i] : i \in DOMAIN seqs[k]})
    BY DEF Sequence
  <2>2. {seqs[k][i] : i \in DOMAIN seqs[k]} \subseteq S
    BY <1>2 DEF ToSet
  <2>3. QED
    BY <2>1, <2>2
<1>4. seqs \in Seq(Seq(S))
  <2>1. seqs \in Seq({seqs[k] : k \in DOMAIN seqs})
    BY DEF Sequence
  <2>2. {seqs[k] : k \in DOMAIN seqs} \subseteq Seq(S)
    BY <1>3
  <2>3. QED
    BY <2>1, <2>2
<1>5. PICK acc \in [0..n -> Seq(S)] : Appends(acc, seqs, n)
  BY <1>1, <1>4, FlattenSteps
<1> DEFINE T == {k \in Nat : k <= n => ToSet(acc[k]) = UNION {ToSet(seqs[m]) : m \in 1..k}}
<1>6. 0 \in T
  <2>1. acc[0] = <<>>
    BY <1>5 DEF Appends
  <2>2. ToSet(<<>>) = {} /\ 1..0 = {}
    BY DEF ToSet
  <2>3. QED
    BY <2>1, <2>2
<1>7. ASSUME NEW k \in Nat, k \in T PROVE k + 1 \in T
  <2> SUFFICES ASSUME k + 1 <= n
               PROVE  ToSet(acc[k + 1]) = UNION {ToSet(seqs[m]) : m \in 1..(k + 1)}
    OBVIOUS
  <2>1. k + 1 \in 1..n /\ (k + 1) - 1 = k /\ k \in 0..n
    BY <1>1
  <2>2. acc[k + 1] = acc[k] \o seqs[k + 1]
    BY <1>5, <2>1 DEF Appends
  <2>3. acc[k] \in Seq(S) /\ seqs[k + 1] \in Seq(S)
    BY <1>1, <1>3, <2>1
  <2>4. ToSet(acc[k + 1]) = ToSet(acc[k]) \cup ToSet(seqs[k + 1])
    BY <2>2, <2>3, ElementsOfBoth
  <2>5. ToSet(acc[k]) = UNION {ToSet(seqs[m]) : m \in 1..k}
    BY <1>7, <2>1
  <2>6. 1..(k + 1) = 1..k \cup {k + 1}
    OBVIOUS
  <2>7. UNION {ToSet(seqs[m]) : m \in 1..(k + 1)}
          = (UNION {ToSet(seqs[m]) : m \in 1..k}) \cup ToSet(seqs[k + 1])
    BY <2>6
  <2>8. QED
    BY <2>4, <2>5, <2>7
<1>8. Nat \subseteq T
  <2> HIDE DEF T
  <2> QED
    BY <1>6, <1>7, NatSetInduction
<1>9. acc[n] = FlattenSeq(seqs) /\ acc[n] \in Seq(S)
  BY <1>1, <1>5 DEF Appends
<1>10. ToSet(acc[n]) = UNION {ToSet(seqs[m]) : m \in 1..n}
  <2>1. n \in T
    BY <1>8
  <2>2. QED
    BY <2>1
<1>11. Sequence(acc[n])
  BY <1>9, SequenceOfSome
<1>12. QED
  BY <1>1, <1>9, <1>10, <1>11
=============================================================================
