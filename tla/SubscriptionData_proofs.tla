------------------------ MODULE SubscriptionData_proofs ------------------------
(***************************************************************************)
(* Proofs about the arithmetic and the loops a merged subscription is made *)
(* by, for words of any size, bodies and headers of any length and any     *)
(* number of servers.  The loops are folds, that is functions defined by   *)
(* recursion over a finite set, and what they compute is proved by         *)
(* induction on numbers, in the form of Induction below: a set of numbers  *)
(* that holds 0 and the successor of each of its members holds them all.   *)
(***************************************************************************)
EXTENDS SubscriptionData, FiniteSetTheorems, SequenceTheorems, TLAPS

----------------------------------------------------------------------------
(* Induction, and the largest of finitely many numbers. *)

LEMMA Least ==
  ASSUME NEW A \in SUBSET Nat, A # {}
  PROVE  \E n \in A : \A m \in A : n <= m
<1>1. IsWellFoundedOn({ss \in Nat \X Nat : ss[1] < ss[2]}, Nat)
  BY NatLessThanWellFounded DEF OpToRel
<1>2. PICK n \in A :
        \A m \in A : ~(<<m, n>> \in {ss \in Nat \X Nat : ss[1] < ss[2]})
  BY <1>1, WFMin
<1>3. \A m \in A : ~(m < n)
  BY <1>2
<1> QED
  BY <1>3

LEMMA Induction ==
  ASSUME NEW A \in SUBSET Nat, 0 \in A, \A n \in A : n + 1 \in A
  PROVE  A = Nat
<1> SUFFICES ASSUME Nat \ A # {} PROVE FALSE
  OBVIOUS
<1>1. PICK n \in Nat \ A : \A m \in Nat \ A : n <= m
  BY Least
<1>2. n - 1 \in A
  BY <1>1
<1> QED
  BY <1>1, <1>2

LEMMA Largest ==
  ASSUME NEW n \in Nat, NEW t \in SUBSET (1..n), t # {}
  PROVE  Max(t) \in t /\ \A x \in t : x <= Max(t)
<1> DEFINE A == {k \in Nat : n - k \in t}
<1>1. A # {}
  <2>1. PICK x \in t : TRUE
    OBVIOUS
  <2>2. n - x \in A
    BY <2>1
  <2> QED
    BY <2>2
<1>2. PICK k \in A : \A m \in A : k <= m
  BY <1>1, Least
<1>3. n - k \in t
  BY <1>2
<1>4. ASSUME NEW x \in t PROVE n - k >= x
  <2>1. n - x \in A
    OBVIOUS
  <2> QED
    BY <1>2, <2>1
<1>5. \A x \in t : Max(t) >= x
  BY <1>3, <1>4 DEF Max
<1>6. Max(t) \in t
  BY <1>3, <1>4 DEF Max
<1> QED
  BY <1>5, <1>6

LEMMA LargestIs ==
  ASSUME NEW n \in Nat, NEW t \in SUBSET (1..n), NEW m \in t,
         \A x \in t : x <= m
  PROVE  Max(t) = m
<1>1. Max(t) \in t /\ m <= Max(t)
  BY Largest
<1>2. Max(t) \in 1..n /\ m \in 1..n
  BY <1>1
<1>3. Max(t) <= m
  BY <1>1
<1> QED
  BY <1>1, <1>2, <1>3

LEMMA GreatestIs ==
  ASSUME NEW t \in SUBSET Int, NEW m \in t, \A x \in t : x <= m
  PROVE  Max(t) = m
<1>1. \A x \in t : m >= x
  OBVIOUS
<1>2. Max(t) \in t /\ \A x \in t : Max(t) >= x
  BY <1>1 DEF Max
<1>3. Max(t) \in Int /\ m \in Int
  BY <1>2
<1>4. Max(t) <= m /\ Max(t) >= m
  BY <1>2
<1> QED
  BY <1>3, <1>4

----------------------------------------------------------------------------
(* Words. *)

LEMMA SmallMultiple ==
  ASSUME NEW m \in Nat, m > 0, NEW d \in Int, -m < m * d, m * d < m
  PROVE  d = 0
<1>1. ASSUME d >= 1 PROVE FALSE
  <2>1. m * d = m + m * (d - 1)
    OBVIOUS
  <2>2. m * (d - 1) >= 0
    BY <1>1
  <2> QED
    BY <2>1, <2>2
<1>2. ASSUME d <= -1 PROVE FALSE
  <2>1. m * d = -m - m * (-d - 1)
    OBVIOUS
  <2>2. m * (-d - 1) >= 0
    BY <1>2
  <2> QED
    BY <2>1, <2>2
<1> QED
  BY <1>1, <1>2

LEMMA Division ==
  ASSUME NEW m \in Nat, m > 0, NEW a \in Int
  PROVE  /\ (a % m) \in 0..(m - 1)
         /\ \E q \in Int : a = m * q + (a % m)
<1>1. (a % m) \in 0..(m - 1)
  OBVIOUS
<1>2. (a \div m) \in Int /\ a = m * (a \div m) + (a % m)
  OBVIOUS
<1> QED
  BY <1>1, <1>2

LEMMA Remainder ==
  ASSUME NEW m \in Nat, m > 0, NEW q \in Int, NEW r \in 0..(m - 1)
  PROVE  ((m * q + r) % m) = r
<1> DEFINE a == m * q + r
<1>1. a \in Int
  OBVIOUS
<1>2. (a % m) \in 0..(m - 1)
  BY <1>1, Division
<1>3. PICK p \in Int : a = m * p + (a % m)
  BY <1>1, Division
<1>4. m * (q - p) = (a % m) - r
  <2>1. m * (q - p) = m * q - m * p
    OBVIOUS
  <2> QED
    BY <1>2, <1>3, <2>1
<1>5. q - p = 0
  <2> HIDE DEF a
  <2>1. -m < m * (q - p) /\ m * (q - p) < m
    BY <1>2, <1>4
  <2> QED
    BY <2>1, SmallMultiple
<1>6. m * (q - p) = 0
  BY <1>5
<1> QED
  BY <1>2, <1>4, <1>6

\* A wrapped number is a word that differs from it by whole turns.
LEMMA WrapIs ==
  ASSUME NEW a \in Int
  PROVE  Wrap(a) \in Word /\ \E q \in Int : a = 2 * Half * q + Wrap(a)
<1> USE WordAssumption
<1> DEFINE m == 2 * Half
<1>1. m \in Nat /\ m > 0 /\ a + Half \in Int
  OBVIOUS
<1>2. PICK q \in Int : a + Half = m * q + ((a + Half) % m)
  BY <1>1, Division
<1>3. ((a + Half) % m) \in 0..(m - 1)
  BY <1>1, Division
<1>4. Wrap(a) = ((a + Half) % m) - Half
  BY DEF Wrap
<1>5. Wrap(a) \in Word
  BY <1>3, <1>4 DEF Word
<1>6. m * q \in Int
  BY <1>1
<1>7. a = m * q + Wrap(a)
  <2> HIDE DEF m
  <2> QED
    BY <1>2, <1>3, <1>4, <1>6
<1> QED
  BY <1>5, <1>7

\* And the only such word.
LEMMA WrapUnique ==
  ASSUME NEW q \in Int, NEW w \in Word
  PROVE  Wrap(2 * Half * q + w) = w
<1> USE WordAssumption
<1> DEFINE m == 2 * Half
<1>1. m \in Nat /\ m > 0
  OBVIOUS
<1>2. w + Half \in 0..(m - 1)
  BY DEF Word
<1>3. ((m * q + (w + Half)) % m) = w + Half
  BY <1>1, <1>2, Remainder
<1>4. m * q + w + Half = m * q + (w + Half)
  BY <1>1 DEF Word
<1>5. Wrap(m * q + w) = ((m * q + w + Half) % m) - Half
  BY DEF Wrap
<1>6. (w + Half) - Half = w
  BY DEF Word
<1> QED
  BY <1>3, <1>4, <1>5, <1>6

\* A number that fits a word is not changed.
LEMMA WrapWord ==
  ASSUME NEW w \in Word
  PROVE  Wrap(w) = w
<1>1. w = 2 * Half * 0 + w
  BY WordAssumption DEF Word
<1> QED
  BY <1>1, WrapUnique

\* Overflow on the way does not matter to the sum.
LEMMA WrapSum ==
  ASSUME NEW a \in Int, NEW b \in Int
  PROVE  Wrap(Wrap(a) + b) = Wrap(a + b)
<1> USE WordAssumption
<1> DEFINE m == 2 * Half
<1>1. PICK p \in Int : a = m * p + Wrap(a)
  BY WrapIs
<1>2. Wrap(a) \in Int
  BY WrapIs DEF Word
<1>3. Wrap(a) + b \in Int
  BY <1>2
<1>4. PICK q \in Int : Wrap(a) + b = m * q + Wrap(Wrap(a) + b)
  BY <1>3, WrapIs
<1> DEFINE w == Wrap(Wrap(a) + b)
<1>5. w \in Word
  BY <1>3, WrapIs
<1>6. a + b = m * (p + q) + w
  <2>1. w \in Int /\ m \in Int
    BY <1>5 DEF Word
  <2> HIDE DEF w, m
  <2>2. m * (p + q) = m * p + m * q
    BY <2>1
  <2>3. m * p \in Int /\ m * q \in Int
    BY <2>1
  <2>4. Wrap(a) + b = m * q + w
    BY <1>4 DEF w
  <2> QED
    BY <1>1, <1>2, <2>1, <2>2, <2>3, <2>4
<1>7. Wrap(m * (p + q) + w) = w
  <2>1. p + q \in Int
    OBVIOUS
  <2> HIDE DEF w
  <2> QED
    BY <1>5, <2>1, WrapUnique
<1> QED
  BY <1>6, <1>7

LEMMA ParsedWord ==
  ASSUME NEW v \in Int \cup {Junk}
  PROVE  ParseInt(v) \in Word
BY WordAssumption, RowAssumption DEF ParseInt, Clamp, Word

----------------------------------------------------------------------------
(* A fold is defined: there is a function that meets its equation.         *)

Picks(pick, S) == \A t \in SUBSET S : t # {} => pick[t] \in t

IsFold(f, S, T, base, pick, op) ==
  /\ f \in [SUBSET S -> T]
  /\ \A t \in SUBSET S :
       f[t] = IF t = {} THEN base ELSE op[<<f[t \ {pick[t]}], pick[t]>>]

LEMMA FoldDefined ==
  ASSUME NEW S, IsFiniteSet(S), NEW T, NEW base \in T,
         NEW pick, Picks(pick, S), NEW op \in [T \X S -> T]
  PROVE  \E f : IsFold(f, S, T, base, pick, op)
<1> USE DEF Picks
<1> DEFINE D(n) == {t \in SUBSET S : Cardinality(t) <= n}
           Meets(f, n) ==
             \A t \in D(n) :
               f[t] = IF t = {} THEN base
                      ELSE op[<<f[t \ {pick[t]}], pick[t]>>]
           A == {n \in Nat : \E f \in [D(n) -> T] : Meets(f, n)}
<1>1. ASSUME NEW t \in SUBSET S
      PROVE  /\ IsFiniteSet(t) /\ Cardinality(t) \in Nat
             /\ Cardinality(t) = 0 <=> t = {}
             /\ t # {} => /\ t \ {pick[t]} \in SUBSET S
                          /\ Cardinality(t \ {pick[t]}) = Cardinality(t) - 1
                          /\ pick[t] \in S
  <2>1. IsFiniteSet(t)
    BY FS_Subset
  <2>2. Cardinality(t) \in Nat
    BY <2>1, FS_CardinalityType
  <2>3. Cardinality(t) = 0 <=> t = {}
    BY <2>1, FS_EmptySet
  <2>4. t # {} => Cardinality(t \ {pick[t]}) = Cardinality(t) - 1
    BY <2>1, FS_RemoveElement
  <2> QED
    BY <2>1, <2>2, <2>3, <2>4
<1>2. 0 \in A
  <2> DEFINE f == [t \in D(0) |-> base]
  <2>1. f \in [D(0) -> T]
    OBVIOUS
  <2>2. ASSUME NEW t \in D(0) PROVE t = {} /\ f[t] = base
    <3>1. Cardinality(t) <= 0 /\ Cardinality(t) \in Nat
      BY <1>1
    <3>2. Cardinality(t) = 0
      BY <3>1
    <3> QED
      BY <1>1, <3>2
  <2>3. Meets(f, 0)
    BY <2>2
  <2> QED
    BY <2>1, <2>3
<1>3. ASSUME NEW n \in A PROVE n + 1 \in A
  <2>1. PICK f \in [D(n) -> T] : Meets(f, n)
    OBVIOUS
  <2> DEFINE g == [t \in D(n + 1) |->
                     IF t = {} THEN base
                     ELSE op[<<f[t \ {pick[t]}], pick[t]>>]]
  <2>2. ASSUME NEW t \in D(n + 1), t # {}
        PROVE  t \ {pick[t]} \in D(n) /\ pick[t] \in S
    <3>1. Cardinality(t) <= n + 1 /\ Cardinality(t) \in Nat
      BY <1>1
    <3>2. /\ t \ {pick[t]} \in SUBSET S /\ pick[t] \in S
          /\ Cardinality(t \ {pick[t]}) = Cardinality(t) - 1
      BY <1>1, <2>2
    <3> QED
      BY <3>1, <3>2
  <2>3. g \in [D(n + 1) -> T]
    <3>1. ASSUME NEW t \in D(n + 1), t # {}
          PROVE  op[<<f[t \ {pick[t]}], pick[t]>>] \in T
      BY <2>2, <3>1
    <3> QED
      BY <3>1
  <2>4. ASSUME NEW t \in D(n) PROVE t \in D(n + 1) /\ g[t] = f[t]
    <3>1. t \in D(n + 1)
      <4>1. Cardinality(t) <= n /\ Cardinality(t) \in Nat /\ n \in Nat
        BY <1>1
      <4>2. Cardinality(t) <= n + 1
        BY <4>1
      <4> QED
        BY <4>2
    <3>2. f[t] = IF t = {} THEN base
                 ELSE op[<<f[t \ {pick[t]}], pick[t]>>]
      BY <2>1
    <3> QED
      BY <3>1, <3>2
  <2>5. ASSUME NEW t \in D(n + 1)
        PROVE  g[t] = IF t = {} THEN base
                      ELSE op[<<g[t \ {pick[t]}], pick[t]>>]
    <3>1. CASE t = {}
      BY <3>1
    <3>2. CASE t # {}
      <4>1. g[t \ {pick[t]}] = f[t \ {pick[t]}]
        BY <2>2, <2>4, <3>2
      <4>2. g[t] = op[<<f[t \ {pick[t]}], pick[t]>>]
        BY <3>2
      <4> QED
        BY <3>2, <4>1, <4>2
    <3> QED
      BY <3>1, <3>2
  <2> HIDE DEF g
  <2>6. Meets(g, n + 1)
    BY <2>5
  <2>7. n + 1 \in Nat
    OBVIOUS
  <2>8. \E h \in [D(n + 1) -> T] : Meets(h, n + 1)
    BY <2>3, <2>6
  <2> QED
    BY <2>7, <2>8
<1>4. Cardinality(S) \in A
  <2> HIDE DEF A
  <2>1. A \in SUBSET Nat
    BY DEF A
  <2> QED
    BY <1>2, <1>3, <2>1, Induction, FS_CardinalityType
<1>5. D(Cardinality(S)) = SUBSET S
  BY FS_Subset
<1>6. PICK f \in [D(Cardinality(S)) -> T] : Meets(f, Cardinality(S))
  BY <1>4
<1> QED
  BY <1>5, <1>6 DEF IsFold

\* Sequences are folded from the left: the largest index comes last.
LEMMA LastIndex ==
  ASSUME NEW n \in Nat
  PROVE  /\ IsFiniteSet(1..n)
         /\ \A t \in SUBSET (1..n) : t # {} => Max(t) \in t
         /\ \A k \in 0..(n - 1) :
              /\ 1..(k + 1) \in SUBSET (1..n) /\ 1..(k + 1) # {}
              /\ Max(1..(k + 1)) = k + 1
              /\ 1..(k + 1) \ {k + 1} = 1..k
<1>1. IsFiniteSet(1..n)
  BY FS_Interval
<1>2. \A t \in SUBSET (1..n) : t # {} => Max(t) \in t
  BY Largest
<1>3. ASSUME NEW k \in 0..(n - 1)
      PROVE  /\ 1..(k + 1) \in SUBSET (1..n) /\ 1..(k + 1) # {}
             /\ Max(1..(k + 1)) = k + 1
             /\ 1..(k + 1) \ {k + 1} = 1..k
  <2>1. 1..(k + 1) \in SUBSET (1..n) /\ k + 1 \in 1..(k + 1)
    OBVIOUS
  <2>2. k + 1 \in Nat /\ 1..(k + 1) \in SUBSET (1..(k + 1))
    OBVIOUS
  <2>3. \A x \in 1..(k + 1) : x <= k + 1
    OBVIOUS
  <2>4. Max(1..(k + 1)) = k + 1
    BY <2>1, <2>2, <2>3, LargestIs
  <2>5. 1..(k + 1) \ {k + 1} = 1..k
    OBVIOUS
  <2> QED
    BY <2>1, <2>4, <2>5
<1> QED
  BY <1>1, <1>2, <1>3

----------------------------------------------------------------------------
(* parseSubscriptionUserinfo: the last of repeated values stands.          *)

LEMMA NotePartType ==
  ASSUME NEW info \in Userinfo, NEW p \in HeaderPart
  PROVE  /\ NotePart(info, p) \in Userinfo
         /\ \A f \in Fields :
              NotePart(info, p)[f] =
                IF p.key = f THEN ParseInt(p.value) ELSE info[f]
<1>1. ParseInt(p.value) \in Word
  BY ParsedWord DEF HeaderPart
<1> QED
  BY <1>1 DEF NotePart, Userinfo

LEMMA ZeroType == Zero \in Userinfo
BY WordAssumption DEF Zero, Userinfo, Word

\* What the loop has found in some of the parts.
Parsing(parts) ==
  CHOOSE f : f = [t \in SUBSET DOMAIN parts |->
                    IF t = {} THEN Zero
                    ELSE NotePart(f[t \ {Max(t)}], parts[Max(t)])]

LEMMA ParsingTurns ==
  ASSUME NEW parts \in Seq(HeaderPart)
  PROVE  LET f == Parsing(parts) IN
         /\ f[{}] = Zero
         /\ \A k \in 0..(Len(parts) - 1) :
              f[1..(k + 1)] = NotePart(f[1..k], parts[k + 1])
         /\ ParseUserinfo(parts) = f[DOMAIN parts]
<1> DEFINE S == DOMAIN parts
           pick == [t \in SUBSET S |-> IF t = {} THEN 0 ELSE Max(t)]
           op == [ui \in Userinfo \X S |-> NotePart(ui[1], parts[ui[2]])]
           Eq(f) == f = [t \in SUBSET S |->
                           IF t = {} THEN Zero
                           ELSE NotePart(f[t \ {Max(t)}], parts[Max(t)])]
           f == Parsing(parts)
<1>1. /\ Len(parts) \in Nat /\ S = 1..Len(parts)
      /\ \A i \in S : parts[i] \in HeaderPart
  OBVIOUS
<1>2. op \in [Userinfo \X S -> Userinfo]
  BY <1>1, NotePartType
<1>3. \A t \in SUBSET S : t # {} => pick[t] \in t /\ pick[t] = Max(t)
  BY <1>1, LastIndex
<1>4. PICK g \in [SUBSET S -> Userinfo] :
        \A t \in SUBSET S :
          g[t] = IF t = {} THEN Zero ELSE op[<<g[t \ {pick[t]}], pick[t]>>]
  <2>1. IsFiniteSet(S)
    BY <1>1, LastIndex
  <2>2. Picks(pick, S)
    BY <1>3 DEF Picks
  <2>3. PICK g : IsFold(g, S, Userinfo, Zero, pick, op)
    <3> HIDE DEF pick, op, S
    <3> QED
      BY <1>2, <2>1, <2>2, ZeroType, FoldDefined
  <2> QED
    BY <2>3 DEF IsFold
<1>5. ASSUME NEW t \in SUBSET S, t # {}
      PROVE  g[t] = NotePart(g[t \ {Max(t)}], parts[Max(t)])
  <2>1. t \ {Max(t)} \in SUBSET S /\ Max(t) \in S
    BY <1>3, <1>5
  <2>2. <<g[t \ {Max(t)}], Max(t)>> \in Userinfo \X S
    BY <2>1
  <2>3. g[t] = op[<<g[t \ {Max(t)}], Max(t)>>]
    BY <1>3, <1>4, <1>5
  <2> QED
    BY <2>2, <2>3
<1>6. Eq(g)
  BY <1>4, <1>5
<1>7. Eq(f)
  <2>1. f = CHOOSE h : Eq(h)
    BY DEF Parsing
  <2> HIDE DEF Eq, f
  <2> QED
    BY <1>6, <2>1
<1>8. f[{}] = Zero
  <2> HIDE DEF f
  <2> QED
    BY <1>7
<1>9. ASSUME NEW t \in SUBSET S, t # {}
      PROVE  f[t] = NotePart(f[t \ {Max(t)}], parts[Max(t)])
  <2> HIDE DEF f
  <2> QED
    BY <1>7, <1>9
<1>10. ASSUME NEW k \in 0..(Len(parts) - 1)
       PROVE  f[1..(k + 1)] = NotePart(f[1..k], parts[k + 1])
  <2> HIDE DEF f
  <2>1. /\ 1..(k + 1) \in SUBSET S /\ 1..(k + 1) # {}
        /\ Max(1..(k + 1)) = k + 1 /\ 1..(k + 1) \ {k + 1} = 1..k
    BY <1>1, LastIndex
  <2> QED
    BY <1>9, <2>1
<1>11. ParseUserinfo(parts) = f[DOMAIN parts]
  BY DEF ParseUserinfo, FoldLeft, MapThenFoldSet, Parsing
<1> QED
  BY <1>8, <1>10, <1>11

LastValue(parts, n, f) ==
  LET at == {i \in 1..n : parts[i].key = f}
  IN IF at = {} THEN 0 ELSE ParseInt(parts[Max(at)].value)

LEMMA LastValueTurn ==
  ASSUME NEW parts \in Seq(HeaderPart), NEW k \in 0..(Len(parts) - 1),
         NEW f \in Fields
  PROVE  LastValue(parts, k + 1, f) =
           IF parts[k + 1].key = f THEN ParseInt(parts[k + 1].value)
           ELSE LastValue(parts, k, f)
<1> DEFINE at(n) == {i \in 1..n : parts[i].key = f}
<1>0. k \in Nat /\ k + 1 \in Nat
  OBVIOUS
<1>1. CASE parts[k + 1].key = f
  <2>1. at(k + 1) \in SUBSET (1..(k + 1)) /\ k + 1 \in at(k + 1)
    BY <1>1
  <2>2. \A i \in at(k + 1) : i <= k + 1
    OBVIOUS
  <2>3. Max(at(k + 1)) = k + 1
    <3> HIDE DEF at
    <3> QED
      BY <1>0, <2>1, <2>2, LargestIs
  <2> QED
    BY <1>1, <2>1, <2>3 DEF LastValue
<1>2. CASE parts[k + 1].key # f
  <2>1. at(k + 1) = at(k)
    BY <1>2
  <2> QED
    BY <1>2, <2>1 DEF LastValue
<1> QED
  BY <1>1, <1>2

\* What parseSubscriptionUserinfo returns, without its loop.
LEMMA ParsedValues ==
  ASSUME NEW parts \in Seq(HeaderPart)
  PROVE  /\ ParseUserinfo(parts) \in Userinfo
         /\ \A f \in Fields :
              ParseUserinfo(parts)[f] = LastValue(parts, Len(parts), f)
<1> DEFINE g == Parsing(parts)
           Good(k) == /\ g[1..k] \in Userinfo
                      /\ \A f \in Fields : g[1..k][f] = LastValue(parts, k, f)
           A == {k \in Nat : k <= Len(parts) => Good(k)}
<1>1. /\ g[{}] = Zero
      /\ \A k \in 0..(Len(parts) - 1) :
           g[1..(k + 1)] = NotePart(g[1..k], parts[k + 1])
      /\ ParseUserinfo(parts) = g[DOMAIN parts]
  BY ParsingTurns
<1>2. 0 \in A
  <2>1. 1..0 = {}
    OBVIOUS
  <2>2. g[1..0] = Zero
    BY <1>1, <2>1
  <2>3. \A f \in Fields : LastValue(parts, 0, f) = 0 /\ Zero[f] = 0
    BY <2>1 DEF LastValue, Zero
  <2> HIDE DEF g
  <2> QED
    BY <2>2, <2>3, ZeroType
<1>3. ASSUME NEW k \in A PROVE k + 1 \in A
  <2> SUFFICES ASSUME k + 1 <= Len(parts) PROVE Good(k + 1)
    OBVIOUS
  <2>1. k \in 0..(Len(parts) - 1) /\ k + 1 \in 1..Len(parts)
    OBVIOUS
  <2> HIDE DEF g
  <2>2. Good(k)
    BY <2>1
  <2>3. g[1..(k + 1)] = NotePart(g[1..k], parts[k + 1])
    BY <1>1, <2>1
  <2>4. parts[k + 1] \in HeaderPart
    BY <2>1
  <2>5. \A f \in Fields :
          LastValue(parts, k + 1, f) =
            IF parts[k + 1].key = f THEN ParseInt(parts[k + 1].value)
            ELSE LastValue(parts, k, f)
    BY <2>1, LastValueTurn
  <2> DEFINE info == g[1..k]
             more == NotePart(info, parts[k + 1])
  <2>6. info \in Userinfo /\ \A f \in Fields : info[f] = LastValue(parts, k, f)
    BY <2>2
  <2>7. /\ more \in Userinfo
        /\ \A f \in Fields : more[f] = IF parts[k + 1].key = f
                                      THEN ParseInt(parts[k + 1].value)
                                      ELSE info[f]
    <3> HIDE DEF info
    <3> QED
      BY <2>4, <2>6, NotePartType
  <2>8. \A f \in Fields : more[f] = LastValue(parts, k + 1, f)
    <3> HIDE DEF info, more
    <3> QED
      BY <2>5, <2>6, <2>7
  <2> HIDE DEF info, more
  <2> QED
    BY <2>3, <2>7, <2>8 DEF more, info
<1>4. Good(Len(parts))
  <2>1. A \in SUBSET Nat /\ Len(parts) \in Nat
    OBVIOUS
  <2>2. Len(parts) \in A
    <3> HIDE DEF A
    <3> QED
      BY <1>2, <1>3, <2>1, Induction
  <2> HIDE DEF g
  <2> QED
    BY <2>2
<1>5. DOMAIN parts = 1..Len(parts)
  OBVIOUS
<1> HIDE DEF g
<1> QED
  BY <1>1, <1>4, <1>5

----------------------------------------------------------------------------
(* splitSubscriptionLines: blank rows are dropped one by one. *)

LEMMA KeepRowType ==
  ASSUME NEW lines \in Seq(Row), NEW r \in Row
  PROVE  KeepRow(lines, r) \in Seq(Row)
BY DEF KeepRow

\* The lines the loop has kept of some of the rows.
Keeping(rows) ==
  CHOOSE f : f = [t \in SUBSET DOMAIN rows |->
                    IF t = {} THEN <<>>
                    ELSE KeepRow(f[t \ {Max(t)}], rows[Max(t)])]

LEMMA KeepingTurns ==
  ASSUME NEW rows \in Seq(Row)
  PROVE  LET f == Keeping(rows) IN
         /\ f[{}] = <<>>
         /\ \A k \in 0..(Len(rows) - 1) :
              f[1..(k + 1)] = KeepRow(f[1..k], rows[k + 1])
         /\ SplitLines(rows) = f[1..Len(rows)]
<1> DEFINE S == DOMAIN rows
           pick == [t \in SUBSET S |-> IF t = {} THEN 0 ELSE Max(t)]
           op == [li \in Seq(Row) \X S |-> KeepRow(li[1], rows[li[2]])]
           Eq(f) == f = [t \in SUBSET S |->
                           IF t = {} THEN <<>>
                           ELSE KeepRow(f[t \ {Max(t)}], rows[Max(t)])]
           f == Keeping(rows)
<1>1. /\ Len(rows) \in Nat /\ S = 1..Len(rows)
      /\ \A i \in S : rows[i] \in Row
  OBVIOUS
<1>2. op \in [Seq(Row) \X S -> Seq(Row)]
  BY <1>1, KeepRowType
<1>3. \A t \in SUBSET S : t # {} => pick[t] \in t /\ pick[t] = Max(t)
  BY <1>1, LastIndex
<1>4. PICK g \in [SUBSET S -> Seq(Row)] :
        \A t \in SUBSET S :
          g[t] = IF t = {} THEN <<>> ELSE op[<<g[t \ {pick[t]}], pick[t]>>]
  <2>1. IsFiniteSet(S) /\ <<>> \in Seq(Row)
    BY <1>1, LastIndex
  <2>2. Picks(pick, S)
    BY <1>3 DEF Picks
  <2>3. PICK g : IsFold(g, S, Seq(Row), <<>>, pick, op)
    <3> HIDE DEF pick, op, S
    <3> QED
      BY <1>2, <2>1, <2>2, FoldDefined
  <2> QED
    BY <2>3 DEF IsFold
<1>5. ASSUME NEW t \in SUBSET S, t # {}
      PROVE  g[t] = KeepRow(g[t \ {Max(t)}], rows[Max(t)])
  <2>1. t \ {Max(t)} \in SUBSET S /\ Max(t) \in S
    BY <1>3, <1>5
  <2>2. <<g[t \ {Max(t)}], Max(t)>> \in Seq(Row) \X S
    BY <2>1
  <2>3. g[t] = op[<<g[t \ {Max(t)}], Max(t)>>]
    BY <1>3, <1>4, <1>5
  <2> QED
    BY <2>2, <2>3
<1>6. Eq(g)
  BY <1>4, <1>5
<1>7. Eq(f)
  <2>1. f = CHOOSE h : Eq(h)
    BY DEF Keeping
  <2> HIDE DEF Eq, f
  <2> QED
    BY <1>6, <2>1
<1>8. f[{}] = <<>>
  <2> HIDE DEF f
  <2> QED
    BY <1>7
<1>9. ASSUME NEW t \in SUBSET S, t # {}
      PROVE  f[t] = KeepRow(f[t \ {Max(t)}], rows[Max(t)])
  <2> HIDE DEF f
  <2> QED
    BY <1>7, <1>9
<1>10. ASSUME NEW k \in 0..(Len(rows) - 1)
       PROVE  f[1..(k + 1)] = KeepRow(f[1..k], rows[k + 1])
  <2> HIDE DEF f
  <2>1. /\ 1..(k + 1) \in SUBSET S /\ 1..(k + 1) # {}
        /\ Max(1..(k + 1)) = k + 1 /\ 1..(k + 1) \ {k + 1} = 1..k
    BY <1>1, LastIndex
  <2> QED
    BY <1>9, <2>1
<1>11. SplitLines(rows) = f[DOMAIN rows]
  BY DEF SplitLines, FoldLeft, MapThenFoldSet, Keeping
<1> QED
  BY <1>1, <1>8, <1>10, <1>11

LEMMA KeepingType ==
  ASSUME NEW rows \in Seq(Row), NEW n \in 0..Len(rows)
  PROVE  Keeping(rows)[1..n] \in Seq(Row)
<1> DEFINE f == Keeping(rows)
           A == {k \in Nat : k <= Len(rows) => f[1..k] \in Seq(Row)}
<1>1. /\ f[{}] = <<>>
      /\ \A k \in 0..(Len(rows) - 1) :
           f[1..(k + 1)] = KeepRow(f[1..k], rows[k + 1])
  BY KeepingTurns
<1> HIDE DEF f
<1>2. 0 \in A
  <2>1. 1..0 = {} /\ <<>> \in Seq(Row) /\ 0 \in Nat
    OBVIOUS
  <2>2. f[1..0] = <<>>
    BY <1>1, <2>1
  <2>3. f[1..0] \in Seq(Row)
    BY <2>1, <2>2
  <2> QED
    BY <2>1, <2>3
<1>3. ASSUME NEW k \in A PROVE k + 1 \in A
  <2> SUFFICES ASSUME k + 1 <= Len(rows) PROVE f[1..(k + 1)] \in Seq(Row)
    OBVIOUS
  <2>1. k \in 0..(Len(rows) - 1) /\ rows[k + 1] \in Row
    OBVIOUS
  <2>2. f[1..k] \in Seq(Row)
    BY <2>1
  <2> QED
    BY <1>1, <2>1, <2>2, KeepRowType
<1>4. A \in SUBSET Nat /\ n \in Nat /\ n <= Len(rows)
  OBVIOUS
<1>5. n \in A
  <2> HIDE DEF A
  <2> QED
    BY <1>2, <1>3, <1>4, Induction
<1> QED
  BY <1>4, <1>5 DEF f

LEMMA SplitType ==
  ASSUME NEW rows \in Seq(Row)
  PROVE  SplitLines(rows) \in Seq(Row)
<1>1. Len(rows) \in 0..Len(rows)
  OBVIOUS
<1> QED
  BY <1>1, KeepingTurns, KeepingType

\* Rows are kept or dropped one by one, wherever the body ends.
LEMMA SplitConcat ==
  ASSUME NEW a \in Seq(Row), NEW b \in Seq(Row)
  PROVE  SplitLines(a \o b) = SplitLines(a) \o SplitLines(b)
<1> DEFINE c == a \o b
           f == Keeping(c)
           fa == Keeping(a)
           fb == Keeping(b)
           A == {k \in Nat : k <= Len(a) => f[1..k] = fa[1..k]}
           Agree(k) == f[1..(Len(a) + k)] = fa[1..Len(a)] \o fb[1..k]
<1>1. /\ c \in Seq(Row) /\ Len(a) \in Nat /\ Len(b) \in Nat
      /\ Len(c) = Len(a) + Len(b)
      /\ \A i \in 1..Len(a) : c[i] = a[i]
      /\ \A i \in 1..Len(b) : c[Len(a) + i] = b[i]
  OBVIOUS
<1>2. /\ f[{}] = <<>> /\ SplitLines(c) = f[1..Len(c)]
      /\ \A k \in 0..(Len(c) - 1) :
           f[1..(k + 1)] = KeepRow(f[1..k], c[k + 1])
  <2> HIDE DEF c
  <2> QED
    BY <1>1, KeepingTurns
<1>3. /\ fa[{}] = <<>> /\ SplitLines(a) = fa[1..Len(a)]
      /\ \A k \in 0..(Len(a) - 1) :
           fa[1..(k + 1)] = KeepRow(fa[1..k], a[k + 1])
  BY KeepingTurns
<1>4. /\ fb[{}] = <<>> /\ SplitLines(b) = fb[1..Len(b)]
      /\ \A k \in 0..(Len(b) - 1) :
           fb[1..(k + 1)] = KeepRow(fb[1..k], b[k + 1])
  BY KeepingTurns
<1>5. fa[1..Len(a)] \in Seq(Row)
  <2>1. Len(a) \in 0..Len(a)
    OBVIOUS
  <2> QED
    BY <2>1, KeepingType
<1>6. \A k \in 0..Len(b) : fb[1..k] \in Seq(Row)
  BY KeepingType
<1>7. 1..0 = {}
  OBVIOUS
<1> HIDE DEF c, f, fa, fb
<1>8. A = Nat
  <2>1. 0 \in A
    BY <1>2, <1>3, <1>7
  <2>2. ASSUME NEW k \in A PROVE k + 1 \in A
    <3> SUFFICES ASSUME k + 1 <= Len(a) PROVE f[1..(k + 1)] = fa[1..(k + 1)]
      OBVIOUS
    <3>1. /\ k \in 0..(Len(a) - 1) /\ k \in 0..(Len(c) - 1)
          /\ k + 1 \in 1..Len(a)
      BY <1>1
    <3>2. f[1..k] = fa[1..k] /\ c[k + 1] = a[k + 1]
      BY <1>1, <3>1
    <3> QED
      BY <1>2, <1>3, <3>1, <3>2
  <2>3. A \in SUBSET Nat
    OBVIOUS
  <2> HIDE DEF A
  <2> QED
    BY <2>1, <2>2, <2>3, Induction
<1>9. f[1..Len(a)] = fa[1..Len(a)]
  BY <1>1, <1>8
<1>10. ASSUME NEW s \in Seq(Row), NEW t \in Seq(Row), NEW r \in Row
       PROVE  KeepRow(s \o t, r) = s \o KeepRow(t, r)
  <2>1. Append(s \o t, r) = s \o Append(t, r)
    <3>1. /\ <<r>> \in Seq(Row) /\ s \o t \in Seq(Row)
          /\ Append(s \o t, r) = (s \o t) \o <<r>>
          /\ Append(t, r) = t \o <<r>>
      BY AppendIsConcat
    <3> QED
      BY <3>1, ConcatAssociative
  <2> QED
    BY <2>1 DEF KeepRow
<1>11. Agree(0)
  <2>1. Len(a) + 0 = Len(a) /\ fb[1..0] = <<>>
    BY <1>1, <1>4, <1>7
  <2>2. fa[1..Len(a)] \o <<>> = fa[1..Len(a)]
    BY <1>5, ConcatEmptySeq
  <2> QED
    BY <1>9, <2>1, <2>2
<1>12. ASSUME NEW k \in Nat, k + 1 <= Len(b), Agree(k) PROVE Agree(k + 1)
  <2>1. /\ k \in 0..(Len(b) - 1) /\ Len(a) + k \in 0..(Len(c) - 1)
        /\ k + 1 \in 1..Len(b) /\ Len(a) + (k + 1) = (Len(a) + k) + 1
        /\ k \in 0..Len(b)
    BY <1>1, <1>12
  <2>2. c[(Len(a) + k) + 1] = b[k + 1]
    BY <1>1, <2>1
  <2>3. f[1..((Len(a) + k) + 1)]
          = KeepRow(fa[1..Len(a)] \o fb[1..k], b[k + 1])
    BY <1>2, <1>12, <2>1, <2>2
  <2>4. fb[1..k] \in Seq(Row) /\ b[k + 1] \in Row
    BY <1>6, <2>1
  <2>5. KeepRow(fa[1..Len(a)] \o fb[1..k], b[k + 1])
          = fa[1..Len(a)] \o KeepRow(fb[1..k], b[k + 1])
    BY <1>5, <1>10, <2>4
  <2>6. fb[1..(k + 1)] = KeepRow(fb[1..k], b[k + 1])
    BY <1>4, <2>1
  <2> QED
    BY <2>1, <2>3, <2>5, <2>6
<1>13. Agree(Len(b))
  <2> DEFINE B == {k \in Nat : k <= Len(b) => Agree(k)}
  <2> HIDE DEF Agree
  <2>1. 0 \in B
    BY <1>11
  <2>2. ASSUME NEW k \in B PROVE k + 1 \in B
    <3>1. k \in Nat /\ k + 1 \in Nat
      OBVIOUS
    <3>2. k + 1 <= Len(b) => k <= Len(b)
      BY <1>1, <3>1
    <3> QED
      BY <1>12, <3>1, <3>2
  <2>3. B \in SUBSET Nat
    OBVIOUS
  <2>4. Len(b) \in B
    <3> HIDE DEF B
    <3> QED
      BY <1>1, <2>1, <2>2, <2>3, Induction
  <2> QED
    BY <1>1, <2>4
<1> QED
  BY <1>1, <1>2, <1>3, <1>4, <1>13 DEF c

LEMMA SplitEmpty == SplitLines(<<>>) = <<>>
<1>1. <<>> \in Seq(Row) /\ Len(<<>>) = 0 /\ 1..0 = {}
  OBVIOUS
<1>2. Keeping(<<>>)[{}] = <<>> /\ SplitLines(<<>>) = Keeping(<<>>)[1..Len(<<>>)]
  BY <1>1, KeepingTurns
<1> QED
  BY <1>1, <1>2

----------------------------------------------------------------------------
(* FlattenSeq: the bodies one after the other. *)

Flat(seqs) ==
  CHOOSE f : f = [i \in 1..Len(seqs) |->
                    IF i = 1 THEN seqs[i] ELSE f[i - 1] \o seqs[i]]

\* The first n sequences as one.
FlatUpTo(seqs, n) == IF n = 0 THEN <<>> ELSE Flat(seqs)[n]

IsFlat(f, seqs, n) ==
  /\ DOMAIN f = 1..n
  /\ \A i \in 1..n : f[i] = IF i = 1 THEN seqs[i] ELSE f[i - 1] \o seqs[i]

LEMMA FlatDefined ==
  ASSUME NEW seqs, NEW n \in Nat
  PROVE  \E f : IsFlat(f, seqs, n)
<1> DEFINE A == {k \in Nat : \E f : IsFlat(f, seqs, k)}
<1>1. 0 \in A
  <2>1. 1..0 = {}
    OBVIOUS
  <2>2. IsFlat([i \in 1..0 |-> <<>>], seqs, 0)
    BY <2>1 DEF IsFlat
  <2> QED
    BY <2>2
<1>2. ASSUME NEW k \in A PROVE k + 1 \in A
  <2>1. PICK f : IsFlat(f, seqs, k)
    OBVIOUS
  <2> DEFINE g == [i \in 1..(k + 1) |->
                     IF i = 1 THEN seqs[i] ELSE f[i - 1] \o seqs[i]]
  <2>2. ASSUME NEW i \in 1..k PROVE i \in 1..(k + 1) /\ g[i] = f[i]
    <3>1. i \in 1..(k + 1) /\ k \in Nat
      OBVIOUS
    <3>2. f[i] = IF i = 1 THEN seqs[i] ELSE f[i - 1] \o seqs[i]
      BY <2>1 DEF IsFlat
    <3> QED
      BY <3>1, <3>2
  <2>3. ASSUME NEW i \in 1..(k + 1)
        PROVE  g[i] = IF i = 1 THEN seqs[i] ELSE g[i - 1] \o seqs[i]
    <3>1. i # 1 => i - 1 \in 1..k
      OBVIOUS
    <3>2. i # 1 => g[i - 1] = f[i - 1]
      BY <2>2, <3>1
    <3> QED
      BY <3>2
  <2>4. IsFlat(g, seqs, k + 1)
    <3>1. DOMAIN g = 1..(k + 1)
      OBVIOUS
    <3> HIDE DEF g
    <3> QED
      BY <2>3, <3>1 DEF IsFlat
  <2>5. k + 1 \in Nat
    OBVIOUS
  <2> QED
    BY <2>4, <2>5
<1>3. A \in SUBSET Nat
  OBVIOUS
<1>4. n \in A
  <2> HIDE DEF A
  <2> QED
    BY <1>1, <1>2, <1>3, Induction
<1> QED
  BY <1>4

LEMMA FlatTurns ==
  ASSUME NEW R, NEW seqs \in Seq(Seq(R))
  PROVE  /\ FlatUpTo(seqs, 0) = <<>>
         /\ \A k \in 0..(Len(seqs) - 1) :
              FlatUpTo(seqs, k + 1) = FlatUpTo(seqs, k) \o seqs[k + 1]
         /\ FlattenSeq(seqs) = FlatUpTo(seqs, Len(seqs))
<1> DEFINE n == Len(seqs)
           f == Flat(seqs)
           Eq(h) == h = [i \in 1..Len(seqs) |->
                           IF i = 1 THEN seqs[i] ELSE h[i - 1] \o seqs[i]]
<1>1. n \in Nat /\ \A i \in 1..n : seqs[i] \in Seq(R)
  OBVIOUS
<1>2. PICK g : IsFlat(g, seqs, n)
  BY <1>1, FlatDefined
<1> DEFINE h == [i \in 1..n |-> g[i]]
<1>3. Eq(h)
  <2>1. ASSUME NEW i \in 1..n
        PROVE  h[i] = IF i = 1 THEN seqs[i] ELSE h[i - 1] \o seqs[i]
    <3>1. i # 1 => i - 1 \in 1..n
      OBVIOUS
    <3>2. g[i] = IF i = 1 THEN seqs[i] ELSE g[i - 1] \o seqs[i]
      BY <1>2 DEF IsFlat
    <3> QED
      BY <3>1, <3>2
  <2>2. h = [i \in 1..n |-> h[i]]
    OBVIOUS
  <2> HIDE DEF h
  <2> QED
    BY <2>1, <2>2
<1>4. Eq(f)
  <2>1. f = CHOOSE x : Eq(x)
    BY DEF Flat
  <2> HIDE DEF Eq, f
  <2> QED
    BY <1>3, <2>1
<1>5. \A i \in 1..n : f[i] = IF i = 1 THEN seqs[i] ELSE f[i - 1] \o seqs[i]
  <2> HIDE DEF f
  <2> QED
    BY <1>4
<1>6. ASSUME NEW k \in 0..(n - 1)
      PROVE  FlatUpTo(seqs, k + 1) = FlatUpTo(seqs, k) \o seqs[k + 1]
  <2>1. /\ k + 1 \in 1..n /\ k + 1 # 0 /\ (k + 1) - 1 = k
        /\ k + 1 = 1 <=> k = 0
    BY <1>1
  <2>2. CASE k = 0
    <3>1. f[k + 1] = seqs[k + 1]
      BY <1>5, <2>1, <2>2
    <3>2. seqs[k + 1] = <<>> \o seqs[k + 1]
      BY <1>1, <2>1, ConcatEmptySeq
    <3>3. FlatUpTo(seqs, k + 1) = f[k + 1] /\ FlatUpTo(seqs, k) = <<>>
      BY <2>1, <2>2 DEF FlatUpTo
    <3> QED
      BY <3>1, <3>2, <3>3
  <2>3. CASE k # 0
    <3>1. f[k + 1] = f[k] \o seqs[k + 1]
      BY <1>5, <2>1, <2>3
    <3>2. FlatUpTo(seqs, k + 1) = f[k + 1] /\ FlatUpTo(seqs, k) = f[k]
      BY <2>1, <2>3 DEF FlatUpTo
    <3> QED
      BY <3>1, <3>2
  <2> QED
    BY <2>2, <2>3
<1>7. FlatUpTo(seqs, 0) = <<>>
  BY DEF FlatUpTo
<1>8. FlattenSeq(seqs) = FlatUpTo(seqs, n)
  <2>1. CASE n = 0
    <3>1. seqs = <<>>
      BY <2>1, EmptySeq
    <3> QED
      BY <2>1, <3>1 DEF FlattenSeq, FlatUpTo
  <2>2. CASE n # 0
    BY <2>2 DEF FlattenSeq, FlatUpTo, Flat
  <2> QED
    BY <2>1, <2>2
<1> QED
  BY <1>6, <1>7, <1>8

LEMMA FlatType ==
  ASSUME NEW R, NEW seqs \in Seq(Seq(R)), NEW n \in 0..Len(seqs)
  PROVE  FlatUpTo(seqs, n) \in Seq(R)
<1> DEFINE A == {k \in Nat : k <= Len(seqs) => FlatUpTo(seqs, k) \in Seq(R)}
<1>1. 0 \in A
  <2>1. <<>> \in Seq(R) /\ 0 \in Nat
    OBVIOUS
  <2>2. FlatUpTo(seqs, 0) = <<>>
    BY DEF FlatUpTo
  <2> QED
    BY <2>1, <2>2
<1>2. ASSUME NEW k \in A PROVE k + 1 \in A
  <2> SUFFICES ASSUME k + 1 <= Len(seqs)
               PROVE  FlatUpTo(seqs, k + 1) \in Seq(R)
    OBVIOUS
  <2>1. k \in 0..(Len(seqs) - 1) /\ seqs[k + 1] \in Seq(R)
    OBVIOUS
  <2>2. FlatUpTo(seqs, k) \in Seq(R)
    BY <2>1
  <2>3. FlatUpTo(seqs, k + 1) = FlatUpTo(seqs, k) \o seqs[k + 1]
    BY <2>1, FlatTurns
  <2>4. FlatUpTo(seqs, k) \o seqs[k + 1] \in Seq(R)
    BY <2>1, <2>2, ConcatProperties
  <2> QED
    BY <2>3, <2>4
<1>3. A \in SUBSET Nat /\ n \in Nat /\ n <= Len(seqs)
  OBVIOUS
<1>4. n \in A
  <2> HIDE DEF A
  <2> QED
    BY <1>1, <1>2, <1>3, Induction
<1> QED
  BY <1>3, <1>4

----------------------------------------------------------------------------
(* MapThenSumSet: the sum over a set, in whatever order it is taken.       *)

Chosen(t) == CHOOSE x \in t : TRUE

IsSum(g, S, v) ==
  g = [t \in SUBSET S |->
         IF t = {} THEN 0 ELSE v[Chosen(t)] + g[t \ {Chosen(t)}]]

SumOver(g, S, v) == g \in [SUBSET S -> Int] /\ IsSum(g, S, v)

LEMMA ChosenIn == ASSUME NEW t, t # {} PROVE Chosen(t) \in t
BY DEF Chosen

LEMMA SumDefined ==
  ASSUME NEW S, IsFiniteSet(S), NEW v \in [S -> Int]
  PROVE  \E g : IsSum(g, S, v)
<1> DEFINE pick == [t \in SUBSET S |-> Chosen(t)]
           op == [nx \in Int \X S |-> v[nx[2]] + nx[1]]
<1>1. Picks(pick, S)
  BY ChosenIn DEF Picks
<1>2. op \in [Int \X S -> Int]
  OBVIOUS
<1>3. PICK g : IsFold(g, S, Int, 0, pick, op)
  <2> HIDE DEF pick, op
  <2> QED
    BY <1>1, <1>2, FoldDefined
<1>4. g \in [SUBSET S -> Int]
  BY <1>3 DEF IsFold
<1>5. ASSUME NEW t \in SUBSET S, t # {}
      PROVE  g[t] = v[Chosen(t)] + g[t \ {Chosen(t)}]
  <2>1. Chosen(t) \in t /\ pick[t] = Chosen(t)
    BY <1>5, ChosenIn
  <2>2. g[t] = op[<<g[t \ {pick[t]}], pick[t]>>]
    BY <1>3, <1>5 DEF IsFold
  <2> HIDE DEF pick
  <2>3. <<g[t \ {Chosen(t)}], Chosen(t)>> \in Int \X S
    BY <1>4, <2>1
  <2> QED
    BY <2>1, <2>2, <2>3
<1>6. g[{}] = 0
  BY <1>3 DEF IsFold
<1> QED
  BY <1>4, <1>5, <1>6 DEF IsSum

LEMMA SumTyped ==
  ASSUME NEW S, IsFiniteSet(S), NEW v \in [S -> Int], NEW g, IsSum(g, S, v)
  PROVE  SumOver(g, S, v)
<1> DEFINE Good(n) ==
             \A t \in SUBSET S : Cardinality(t) <= n => g[t] \in Int
           A == {n \in Nat : Good(n)}
<1>1. ASSUME NEW t \in SUBSET S
      PROVE  /\ IsFiniteSet(t) /\ Cardinality(t) \in Nat
             /\ Cardinality(t) <= Cardinality(S)
             /\ g[t] = IF t = {} THEN 0
                       ELSE v[Chosen(t)] + g[t \ {Chosen(t)}]
  BY FS_Subset, FS_CardinalityType DEF IsSum
<1>2. ASSUME NEW t \in SUBSET S, t = {} \/ g[t \ {Chosen(t)}] \in Int
      PROVE  g[t] \in Int
  <2>1. t # {} => v[Chosen(t)] \in Int
    BY ChosenIn
  <2> QED
    BY <1>1, <1>2, <2>1
<1>3. Good(0)
  <2> SUFFICES ASSUME NEW t \in SUBSET S, Cardinality(t) <= 0
               PROVE  g[t] \in Int
    OBVIOUS
  <2>1. Cardinality(t) = 0
    <3>1. Cardinality(t) \in Nat
      BY <1>1
    <3> QED
      BY <3>1
  <2>2. t = {}
    BY <1>1, <2>1, FS_EmptySet
  <2> QED
    BY <1>2, <2>2
<1>4. ASSUME NEW n \in Nat, Good(n) PROVE Good(n + 1)
  <2> SUFFICES ASSUME NEW t \in SUBSET S, Cardinality(t) <= n + 1, t # {}
               PROVE  g[t] \in Int
    BY <1>2
  <2> DEFINE r == t \ {Chosen(t)}
  <2>1. Chosen(t) \in t
    BY ChosenIn
  <2>2. r \in SUBSET S /\ Cardinality(r) = Cardinality(t) - 1
    BY <1>1, <2>1, FS_RemoveElement
  <2>3. Cardinality(r) <= n
    <3>1. Cardinality(r) \in Nat /\ Cardinality(t) \in Nat
      BY <1>1, <2>2
    <3> HIDE DEF r
    <3> QED
      BY <2>2, <3>1
  <2>4. g[r] \in Int
    BY <1>4, <2>2, <2>3
  <2> QED
    BY <1>2, <2>4
<1>5. A = Nat
  <2>1. A \in SUBSET Nat /\ 0 \in A
    BY <1>3
  <2>2. ASSUME NEW n \in A PROVE n + 1 \in A
    <3>1. n \in Nat /\ n + 1 \in Nat /\ Good(n)
      OBVIOUS
    <3> HIDE DEF Good
    <3> QED
      BY <1>4, <3>1
  <2> HIDE DEF A
  <2> QED
    BY <2>1, <2>2, Induction
<1>6. Good(Cardinality(S))
  <2>1. Cardinality(S) \in Nat
    BY FS_CardinalityType
  <2> HIDE DEF Good
  <2> QED
    BY <1>5, <2>1
<1>7. \A t \in SUBSET S : g[t] \in Int
  BY <1>1, <1>6
<1>8. DOMAIN g = SUBSET S /\ g = [t \in DOMAIN g |-> g[t]]
  BY DEF IsSum
<1> QED
  BY <1>7, <1>8 DEF SumOver

LEMMA SumGrows ==
  ASSUME NEW S, IsFiniteSet(S), NEW v \in [S -> Int], NEW g,
         SumOver(g, S, v), NEW t \in SUBSET S, NEW y \in S \ t
  PROVE  g[t \cup {y}] = g[t] + v[y]
<1> DEFINE Good(n) ==
             \A u \in SUBSET S : Cardinality(u) <= n =>
               \A z \in S \ u : g[u \cup {z}] = g[u] + v[z]
           A == {n \in Nat : Good(n)}
<1>1. ASSUME NEW u \in SUBSET S
      PROVE  IsFiniteSet(u) /\ Cardinality(u) \in Nat /\ g[u] \in Int
  BY FS_Subset, FS_CardinalityType DEF SumOver
<1>2. ASSUME NEW u \in SUBSET S, u # {}
      PROVE  \E x \in u : g[u] = v[x] + g[u \ {x}]
  <2>1. Chosen(u) \in u
    BY <1>2, ChosenIn
  <2>2. g[u] = v[Chosen(u)] + g[u \ {Chosen(u)}]
    BY <1>2 DEF SumOver, IsSum
  <2> QED
    BY <2>1, <2>2
<1>3. g[{}] = 0
  BY DEF SumOver, IsSum
<1>4. Good(0)
  <2> SUFFICES ASSUME NEW u \in SUBSET S, Cardinality(u) <= 0, NEW z \in S \ u
               PROVE  g[u \cup {z}] = g[u] + v[z]
    OBVIOUS
  <2>1. u = {}
    <3>1. Cardinality(u) = 0
      BY <1>1
    <3> QED
      BY <1>1, <3>1, FS_EmptySet
  <2>2. PICK x \in {z} : g[{z}] = v[x] + g[{z} \ {x}]
    BY <1>2
  <2>3. x = z /\ {z} \ {x} = {} /\ u \cup {z} = {z} /\ v[z] \in Int
    BY <2>1
  <2> QED
    BY <1>3, <2>1, <2>2, <2>3
<1>5. ASSUME NEW n \in Nat, Good(n) PROVE Good(n + 1)
  <2> SUFFICES ASSUME NEW u \in SUBSET S, Cardinality(u) <= n + 1,
                      NEW z \in S \ u
               PROVE  g[u \cup {z}] = g[u] + v[z]
    OBVIOUS
  <2>1. PICK x \in u \cup {z} :
          g[u \cup {z}] = v[x] + g[(u \cup {z}) \ {x}]
    <3>1. u \cup {z} \in SUBSET S /\ u \cup {z} # {}
      OBVIOUS
    <3> QED
      BY <1>2, <3>1
  <2>2. CASE x = z
    <3>1. (u \cup {z}) \ {x} = u
      BY <2>2
    <3>2. v[z] \in Int /\ g[u] \in Int
      BY <1>1
    <3>3. g[u \cup {z}] = v[z] + g[u]
      BY <2>1, <2>2, <3>1
    <3> QED
      BY <3>2, <3>3
  <2>3. CASE x # z
    <3> DEFINE r == u \ {x}
    <3>1. /\ x \in u /\ r \in SUBSET S /\ x \in S \ r /\ z \in S \ r
          /\ (u \cup {z}) \ {x} = r \cup {z} /\ u = r \cup {x}
      BY <2>3
    <3>2. Cardinality(r) <= n
      <4>1. Cardinality(r) = Cardinality(u) - 1
        BY <1>1, <3>1, FS_RemoveElement
      <4>2. Cardinality(r) \in Nat /\ Cardinality(u) \in Nat
        BY <1>1, <3>1
      <4> HIDE DEF r
      <4> QED
        BY <4>1, <4>2
    <3> HIDE DEF r
    <3>3. g[r \cup {z}] = g[r] + v[z] /\ g[u] = g[r] + v[x]
      BY <1>5, <3>1, <3>2
    <3>4. v[x] \in Int /\ v[z] \in Int /\ g[r] \in Int
      BY <1>1, <3>1
    <3>5. g[u \cup {z}] = v[x] + (g[r] + v[z])
      BY <2>1, <3>1, <3>3
    <3> QED
      BY <3>3, <3>4, <3>5
  <2> QED
    BY <2>2, <2>3
<1>6. A = Nat
  <2>1. A \in SUBSET Nat /\ 0 \in A
    BY <1>4
  <2>2. ASSUME NEW n \in A PROVE n + 1 \in A
    <3>1. n \in Nat /\ n + 1 \in Nat /\ Good(n)
      OBVIOUS
    <3> HIDE DEF Good
    <3> QED
      BY <1>5, <3>1
  <2> HIDE DEF A
  <2> QED
    BY <2>1, <2>2, Induction
<1>7. Good(Cardinality(t))
  <2> HIDE DEF Good
  <2> QED
    BY <1>1, <1>6
<1> QED
  BY <1>1, <1>7
=============================================================================
