--------------------------- MODULE CompilerProofs ---------------------------
(***************************************************************************)
(* What the compilers make of any input: a table that is exported can be   *)
(* read back, every row of a table is accounted for in a series and in a   *)
(* summary, a field has all its samples, meshes agree on their sides, and  *)
(* a cloud is the rows of its file, or a sphere inside the bounds that it  *)
(* states.  The provers know no induction over a predicate, so an          *)
(* induction is one over a set of numbers, and a fold is first shown to    *)
(* have its values step by step.                                           *)
(***************************************************************************)
EXTENDS TimeSeries, FieldsAndMeshes, FiniteSetTheorems, SequenceTheorems, WellFoundedInduction, TLAPS

\* A set of numbers that holds zero and every successor holds them all.
LEMMA NumbersInduct ==
    ASSUME NEW S, 0 \in S, \A n \in Nat : n \in S => n + 1 \in S
    PROVE  Nat \subseteq S
<1> DEFINE T == Nat \ S
           R == {ss \in Nat \X Nat : ss[1] < ss[2]}
<1>1. IsWellFoundedOn(R, Nat)  BY NatLessThanWellFounded DEF OpToRel
<1> SUFFICES ASSUME T # {} PROVE FALSE  OBVIOUS
<1>2. T \subseteq Nat  OBVIOUS
<1>3. \A x, y \in Nat : x < y => <<x, y>> \in R  OBVIOUS
<1>4. \A x \in T : x # 0 /\ x - 1 \in T  OBVIOUS
<1> HIDE DEF R, T
<1>5. PICK x \in T : \A y \in T : ~(<<y, x>> \in R)  BY <1>1, <1>2, WFMin
<1>6. x - 1 \in T /\ <<x - 1, x>> \in R  BY <1>2, <1>3, <1>4
<1> QED  BY <1>5, <1>6

\* The same up to a bound.
LEMMA UpTo ==
    ASSUME NEW N \in Nat, NEW S, 0 \in S, \A k \in 1..N : k - 1 \in S => k \in S
    PROVE  0..N \subseteq S
<1> DEFINE T == {n \in Nat : n <= N => n \in S}
<1>1. 0 \in T  OBVIOUS
<1>2. \A n \in Nat : n \in T => n + 1 \in T
  <2> TAKE n \in Nat
  <2> HAVE n \in T
  <2>1. n + 1 <= N => n + 1 \in 1..N /\ (n + 1) - 1 = n /\ n \in S  OBVIOUS
  <2>2. n + 1 <= N => n + 1 \in S  BY <2>1
  <2> QED  BY <2>2
<1> HIDE DEF T
<1>3. Nat \subseteq T  BY <1>1, <1>2, NumbersInduct
<1> QED  BY <1>3 DEF T

-----------------------------------------------------------------------------
(* Folds *)

\* The greatest number of a set of some of the first numbers.
LEMMA MaxUpTo ==
    ASSUME NEW n \in Nat, NEW s \in SUBSET (1..n), s # {}
    PROVE  Max(s) \in s /\ \A x \in s : x <= Max(s)
<1> DEFINE T == {k \in Nat : \A u \in SUBSET (1..k) :
                                u # {} => \E x \in u : \A y \in u : x >= y}
<1>1. 0 \in T
  <2>1. 1..0 = {}  OBVIOUS
  <2> QED  BY <2>1
<1>2. \A k \in Nat : k \in T => k + 1 \in T
  <2> TAKE k \in Nat
  <2> HAVE k \in T
  <2> SUFFICES ASSUME NEW u \in SUBSET (1..(k + 1)), u # {}
               PROVE  \E x \in u : \A y \in u : x >= y
    OBVIOUS
  <2>1. CASE k + 1 \in u
    <3>1. \A y \in u : k + 1 >= y  OBVIOUS
    <3> QED  BY <2>1, <3>1
  <2>2. CASE k + 1 \notin u
    <3>1. u \in SUBSET (1..k)  BY <2>2
    <3> QED  BY <3>1
  <2> QED  BY <2>1, <2>2
<1> HIDE DEF T
<1>3. n \in T  BY <1>1, <1>2, NumbersInduct
<1>4. \E x \in s : \A y \in s : x >= y  BY <1>3 DEF T
<1> QED  BY <1>4 DEF Max

\* g is what a step makes along the numbers of each set of numbers up to n, and
\* r what it makes along the first of them.
IsFold(g, n, base, step) ==
    g = [s \in SUBSET (1..n) |-> IF s = {} THEN base ELSE step[<<g[s \ {Max(s)}], Max(s)>>]]
IsRun(r, n, base, step) ==
    r[0] = base /\ \A k \in 1..n : r[k] = step[<<r[k - 1], k>>]

\* A step that depends on a number can be repeated along the numbers of a set.
LEMMA FoldIsDefined ==
    ASSUME NEW n \in Nat, NEW V, NEW base \in V, NEW step \in [V \X (1..n) -> V]
    PROVE  \E g \in [SUBSET (1..n) -> V] : IsFold(g, n, base, step)
<1> DEFINE Defines(g, k) == IsFold(g, k, base, step)
           T == {k \in 0..n : \E g \in [SUBSET (1..k) -> V] : Defines(g, k)}
<1> USE DEF IsFold
<1>1. 0 \in T
  <2>1. PICK g : g = [s \in SUBSET (1..0) |-> base]  OBVIOUS
  <2>2. \A s \in SUBSET (1..0) : s = {}  OBVIOUS
  <2> QED  BY <2>1, <2>2
<1>2. \A k \in 1..n : k - 1 \in T => k \in T
  <2> TAKE k \in 1..n
  <2> HAVE k - 1 \in T
  <2>1. PICK g \in [SUBSET (1..(k - 1)) -> V] : Defines(g, k - 1)  OBVIOUS
  <2>2. PICK h : h = [s \in SUBSET (1..k) |->
                        IF k \in s THEN step[<<g[s \ {k}], k>>] ELSE g[s]]
    OBVIOUS
  <2>3. \A s \in SUBSET (1..k) : /\ k \in s => s \ {k} \in SUBSET (1..(k - 1)) /\ Max(s) = k
                                 /\ k \notin s => s \in SUBSET (1..(k - 1))
    <3> TAKE s \in SUBSET (1..k)
    <3>1. ASSUME k \in s PROVE Max(s) = k
      <4>1. k \in Nat /\ s # {}  BY <3>1
      <4>2. Max(s) \in s /\ k <= Max(s)  BY <3>1, <4>1, MaxUpTo
      <4>3. PICK m : m = Max(s)  OBVIOUS
      <4>4. m \in 1..k /\ k <= m  BY <4>2, <4>3
      <4> QED  BY <4>3, <4>4
    <3> QED  BY <3>1
  <2>4. h \in [SUBSET (1..k) -> V]
    <3> SUFFICES ASSUME NEW s \in SUBSET (1..k)
                 PROVE  (IF k \in s THEN step[<<g[s \ {k}], k>>] ELSE g[s]) \in V
      BY <2>2
    <3> QED  BY <2>1, <2>3
  <2>5. ASSUME NEW s \in SUBSET (1..k)
        PROVE  h[s] = IF s = {} THEN base ELSE step[<<h[s \ {Max(s)}], Max(s)>>]
    <3>1. CASE k \in s
      <4>1. s \ {k} \in SUBSET (1..k) /\ k \notin s \ {k}  OBVIOUS
      <4>2. h[s \ {k}] = g[s \ {k}]  BY <2>2, <4>1
      <4> QED  BY <2>2, <2>3, <3>1, <4>2
    <3>2. CASE k \notin s
      <4>1. s \in SUBSET (1..(k - 1)) /\ h[s] = g[s]  BY <2>2, <2>3, <3>2
      <4>2. g[s] = IF s = {} THEN base ELSE step[<<g[s \ {Max(s)}], Max(s)>>]  BY <2>1, <4>1
      <4>3. s \ {Max(s)} \in SUBSET (1..k) /\ k \notin s \ {Max(s)}  BY <3>2
      <4>4. h[s \ {Max(s)}] = g[s \ {Max(s)}]  BY <2>2, <4>3
      <4> QED  BY <4>1, <4>2, <4>4
    <3> QED  BY <3>1, <3>2
  <2>6. Defines(h, k)
    <3> SUFFICES h = [s \in SUBSET (1..k) |->
                        IF s = {} THEN base ELSE step[<<h[s \ {Max(s)}], Max(s)>>]]
      OBVIOUS
    <3>1. h = [s \in SUBSET (1..k) |-> h[s]]  BY <2>2
    <3> QED  BY <2>5, <3>1
  <2>7. \E f \in [SUBSET (1..k) -> V] : Defines(f, k)
    <3> HIDE DEF Defines
    <3> QED  BY <2>4, <2>6
  <2>8. k \in 0..n  OBVIOUS
  <2> HIDE DEF Defines
  <2> QED  BY <2>7, <2>8
<1> HIDE DEF T
<1>3. 0..n \subseteq T  BY <1>1, <1>2, UpTo
<1>4. n \in T  BY <1>3
<1> QED  BY <1>4 DEF T

\* So it can along all of the first numbers.
LEMMA RunIsDefined ==
    ASSUME NEW n \in Nat, NEW V, NEW base \in V, NEW step \in [V \X (1..n) -> V]
    PROVE  \E r \in [0..n -> V] : IsRun(r, n, base, step)
<1>0. PICK g \in [SUBSET (1..n) -> V] : IsFold(g, n, base, step)
  BY FoldIsDefined
<1>1. g = [s \in SUBSET (1..n) |-> IF s = {} THEN base ELSE step[<<g[s \ {Max(s)}], Max(s)>>]]
  BY <1>0 DEF IsFold
<1>2. PICK r : r = [k \in 0..n |-> g[1..k]]  OBVIOUS
<1>3. r \in [0..n -> V]
  <2> SUFFICES ASSUME NEW k \in 0..n PROVE 1..k \in SUBSET (1..n)  BY <1>2
  <2> QED  OBVIOUS
<1>4. r[0] = base
  <2>1. 1..0 = {} /\ {} \in SUBSET (1..n)  OBVIOUS
  <2> QED  BY <1>1, <1>2, <2>1
<1>5. \A k \in 1..n : r[k] = step[<<r[k - 1], k>>]
  <2> TAKE k \in 1..n
  <2>1. 1..k \in SUBSET (1..n) /\ 1..k # {} /\ k \in 1..k /\ (1..k) \ {k} = 1..(k - 1)
    OBVIOUS
  <2>2. PICK s : s = 1..k  OBVIOUS
  <2>3. PICK m : m = Max(s)  OBVIOUS
  <2>4. m \in s /\ \A x \in s : x <= m  BY <2>1, <2>2, <2>3, MaxUpTo
  <2>5. m = k  BY <2>1, <2>2, <2>4
  <2>6. g[s] = step[<<g[s \ {m}], m>>]  BY <1>1, <2>1, <2>2, <2>3
  <2>7. k - 1 \in 0..n /\ s \ {m} = 1..(k - 1)  BY <2>1, <2>2, <2>5
  <2>8. r[k] = g[s] /\ r[k - 1] = g[s \ {m}]
    <3>1. k \in 0..n /\ r[k] = g[1..k] /\ r[k - 1] = g[1..(k - 1)]  BY <1>2, <2>7
    <3> QED  BY <2>2, <2>7, <3>1, Zenon
  <2> QED  BY <2>5, <2>6, <2>8
<1> QED  BY <1>3, <1>4, <1>5 DEF IsRun

\* FlattenSeq() puts one sequence after the other.
LEMMA Flattened ==
    ASSUME NEW C, NEW ss \in Seq(Seq(C))
    PROVE  \E r \in [0..Len(ss) -> Seq(C)] :
              /\ r[0] = <<>> /\ FlattenSeq(ss) = r[Len(ss)]
              /\ \A k \in 1..Len(ss) : r[k] = r[k - 1] \o ss[k]
<1>1. PICK n \in Nat : n = Len(ss)  OBVIOUS
<1>2. PICK step : step = [p \in Seq(C) \X (1..n) |-> p[1] \o ss[p[2]]]  OBVIOUS
<1>3. step \in [Seq(C) \X (1..n) -> Seq(C)]
  BY <1>1, <1>2
<1>4. PICK r \in [0..n -> Seq(C)] : IsRun(r, n, <<>>, step)
  <2>1. <<>> \in Seq(C)  OBVIOUS
  <2> QED  BY <1>3, <2>1, RunIsDefined
<1>r. r[0] = <<>> /\ \A k \in 1..n : r[k] = step[<<r[k - 1], k>>]  BY <1>4 DEF IsRun
<1>5. \A k \in 1..n : k - 1 \in 0..n /\ r[k] = r[k - 1] \o ss[k]
  <2> TAKE k \in 1..n
  <2>1. k - 1 \in 0..n /\ r[k - 1] \in Seq(C)  OBVIOUS
  <2>2. <<r[k - 1], k>> \in Seq(C) \X (1..n)  BY <2>1
  <2>3. step[<<r[k - 1], k>>] = r[k - 1] \o ss[k]  BY <1>2, <2>2
  <2> QED  BY <1>r, <2>1, <2>3
<1>6. CASE n = 0
  <2>1. ss = <<>>  BY <1>1, <1>6, EmptySeq
  <2> QED  BY <1>1, <1>r, <1>5, <1>6, <2>1 DEF FlattenSeq
<1>7. CASE n > 0
  <2>1. PICK h : h = [k \in 1..n |-> r[k]]  OBVIOUS
  <2>2. \A k \in 1..n : h[k] = IF k = 1 THEN ss[k] ELSE h[k - 1] \o ss[k]
    <3> TAKE k \in 1..n
    <3>1. CASE k = 1
      <4>1. r[1] = <<>> \o ss[1] /\ ss[1] \in Seq(C)
        <5>1. 1 \in 1..n /\ 1 - 1 = 0  BY <1>7
        <5>2. ss[1] \in Seq(C)  BY <1>1, <5>1
        <5>3. r[1] = r[1 - 1] \o ss[1]  BY <1>5, <5>1
        <5> QED  BY <1>r, <5>1, <5>2, <5>3
      <4> QED  BY <1>7, <2>1, <3>1, <4>1
    <3>2. CASE k # 1
      <4>1. k - 1 \in 1..n  BY <3>2
      <4> QED  BY <1>5, <2>1, <3>2, <4>1
    <3> QED  BY <3>1, <3>2
  <2>3. h = [k \in 1..n |-> IF k = 1 THEN ss[k] ELSE h[k - 1] \o ss[k]]
    <3>1. h = [k \in 1..n |-> h[k]]  BY <2>1
    <3> QED  BY <2>2, <3>1
  <2>4. PICK f : /\ f = [k \in 1..n |-> IF k = 1 THEN ss[k] ELSE f[k - 1] \o ss[k]]
                 /\ FlattenSeq(ss) = f[n]
    <3>1. PICK f : f = CHOOSE fl : fl = [k \in 1..n |-> IF k = 1 THEN ss[k] ELSE fl[k - 1] \o ss[k]]
      OBVIOUS
    <3>2. f = [k \in 1..n |-> IF k = 1 THEN ss[k] ELSE f[k - 1] \o ss[k]]  BY <2>3, <3>1
    <3>3. FlattenSeq(ss) = f[n]  BY <1>1, <1>7, <3>1 DEF FlattenSeq
    <3> QED  BY <3>2, <3>3
  <2>5. \A k \in 1..n : f[k] = IF k = 1 THEN ss[k] ELSE f[k - 1] \o ss[k]  BY <2>4
  <2> DEFINE T == {k \in 0..n : k # 0 => f[k] = r[k]}
  <2>6. 0 \in T  OBVIOUS
  <2>7. \A k \in 1..n : k - 1 \in T => k \in T
    <3> TAKE k \in 1..n
    <3> HAVE k - 1 \in T
    <3>1. CASE k = 1
      <4>1. r[1] = h[1] /\ h[1] = ss[1] /\ f[1] = ss[1]  BY <1>7, <2>1, <2>2, <2>5
      <4> QED  BY <3>1, <4>1
    <3>2. CASE k # 1
      <4>1. k - 1 # 0 /\ f[k - 1] = r[k - 1]  BY <3>2
      <4>2. f[k] = f[k - 1] \o ss[k] /\ r[k] = r[k - 1] \o ss[k]  BY <1>5, <2>5, <3>2
      <4>3. f[k] = r[k]  BY <4>1, <4>2, Zenon
      <4> QED  BY <4>3
    <3> QED  BY <3>1, <3>2
  <2> HIDE DEF T
  <2>8. 0..n \subseteq T  BY <2>6, <2>7, UpTo
  <2>9. n \in T  BY <2>8
  <2>10. f[n] = r[n]  BY <1>7, <2>9 DEF T
  <2>11. FlattenSeq(ss) = r[n]  BY <2>4, <2>10
  <2> QED  BY <1>1, <1>r, <1>5, <2>11, Zenon
<1>8. n = 0 \/ n > 0  BY <1>1
<1> QED  BY <1>6, <1>7, <1>8, Zenon

-----------------------------------------------------------------------------
(* The scanner of the CSV compiler *)

\* The states of the scanner when the characters are those of C.
Scans(C) == [rows : Seq(Seq(Seq(C))), row : Seq(Seq(C)), cell : Seq(C),
             mode : {"plain", "quoted", "closing", "cr"}]

\* Reading the text u takes the scanner from s to e, character by character.
IsScan(r, u) == \A k \in 1..Len(u) : r[k] = ScanChar(r[k - 1], u[k])
ScansTo(s, u, e) == \E r : IsScan(r, u) /\ r[0] = s /\ r[Len(u)] = e

LEMMA ScanTyped ==
    ASSUME NEW C, NEW s \in Scans(C), NEW c \in C
    PROVE  ScanChar(s, c) \in Scans(C)
<1>1. Append(s.cell, c) \in Seq(C) /\ Append(s.row, s.cell) \in Seq(Seq(C))
      /\ Append(s.rows, Append(s.row, s.cell)) \in Seq(Seq(Seq(C)))
      /\ <<>> \in Seq(C) /\ <<>> \in Seq(Seq(C))
  BY DEF Scans
<1>2. \A m \in {"plain", "quoted", "closing", "cr"}, z \in Scans(C) : In(z, m) \in Scans(C)
  BY DEF In, Scans
<1>3. Take(s, c) \in Scans(C) /\ EndCell(s) \in Scans(C) /\ EndRow(s) \in Scans(C)
  BY <1>1 DEF Take, EndCell, EndRow, Scans
<1>4. PlainChar(s, c) \in Scans(C)  BY <1>2, <1>3 DEF PlainChar
<1> QED  BY <1>2, <1>3, <1>4 DEF ScanChar

LEMMA FoldScans ==
    ASSUME NEW C, NEW t \in Seq(C)
    PROVE  \E h : /\ FoldLeft(ScanChar, Blank, t) = h[1..Len(t)]
                  /\ h[{}] = Blank
                  /\ \A k \in 1..Len(t) : h[1..k] = ScanChar(h[1..(k - 1)], t[k])
<1>1. PICK n \in Nat : n = Len(t) /\ DOMAIN t = 1..n  OBVIOUS
<1>2. PICK step : step = [p \in Scans(C) \X (1..n) |-> ScanChar(p[1], t[p[2]])]  OBVIOUS
<1>3. step \in [Scans(C) \X (1..n) -> Scans(C)]
  <2> SUFFICES ASSUME NEW p \in Scans(C) \X (1..n) PROVE ScanChar(p[1], t[p[2]]) \in Scans(C)
    BY <1>2
  <2>1. p[1] \in Scans(C) /\ t[p[2]] \in C  BY <1>1
  <2> QED  BY <2>1, ScanTyped
<1>4. Blank \in Scans(C)  BY DEF Blank, Scans
<1>5. PICK g \in [SUBSET (1..n) -> Scans(C)] : IsFold(g, n, Blank, step)
  BY <1>3, <1>4, FoldIsDefined
<1>6. \A s \in SUBSET (1..n) :
         g[s] = IF s = {} THEN Blank ELSE ScanChar(g[s \ {Max(s)}], t[Max(s)])
  <2> TAKE s \in SUBSET (1..n)
  <2>1. g[s] = IF s = {} THEN Blank ELSE step[<<g[s \ {Max(s)}], Max(s)>>]  BY <1>5 DEF IsFold
  <2>2. ASSUME s # {} PROVE step[<<g[s \ {Max(s)}], Max(s)>>] = ScanChar(g[s \ {Max(s)}], t[Max(s)])
    <3>1. PICK m : m = Max(s)  OBVIOUS
    <3>2. m \in 1..n /\ s \ {m} \in SUBSET (1..n)  BY <2>2, <3>1, MaxUpTo
    <3>3. <<g[s \ {m}], m>> \in Scans(C) \X (1..n)  BY <1>5, <3>2
    <3> QED  BY <1>2, <3>1, <3>3
  <2> QED  BY <2>1, <2>2
<1>7. g = [s \in SUBSET (DOMAIN t) |-> IF s = {} THEN Blank ELSE ScanChar(g[s \ {Max(s)}], t[Max(s)])]
  <2>1. g = [s \in SUBSET (DOMAIN t) |-> g[s]]  BY <1>1, <1>5
  <2> QED  BY <1>1, <1>6, <2>1
<1>8. PICK h : /\ h = [s \in SUBSET (DOMAIN t) |->
                         IF s = {} THEN Blank ELSE ScanChar(h[s \ {Max(s)}], t[Max(s)])]
               /\ FoldLeft(ScanChar, Blank, t) = h[DOMAIN t]
  BY <1>7 DEF FoldLeft, MapThenFoldSet
<1>9. \A s \in SUBSET (1..n) :
         h[s] = IF s = {} THEN Blank ELSE ScanChar(h[s \ {Max(s)}], t[Max(s)])
  BY <1>1, <1>8
<1>10. h[{}] = Blank  BY <1>9
<1>11. \A k \in 1..n : h[1..k] = ScanChar(h[1..(k - 1)], t[k])
  <2> TAKE k \in 1..n
  <2>1. PICK s : s = 1..k  OBVIOUS
  <2>2. s \in SUBSET (1..n) /\ s # {} /\ k \in s /\ s \ {k} = 1..(k - 1)
    <3>1. 1..k \in SUBSET (1..n) /\ k \in 1..k /\ (1..k) \ {k} = 1..(k - 1)  OBVIOUS
    <3> QED  BY <2>1, <3>1
  <2>3. PICK m : m = Max(s)  OBVIOUS
  <2>4. m \in s /\ \A x \in s : x <= m  BY <2>2, <2>3, MaxUpTo
  <2>5. m = k  BY <2>1, <2>2, <2>4
  <2>6. h[s] = ScanChar(h[s \ {m}], t[m])  BY <1>9, <2>2, <2>3
  <2> QED  BY <2>1, <2>2, <2>5, <2>6
<1> QED  BY <1>1, <1>8, <1>10, <1>11

\* What reading takes an empty scanner to is what the fold over the text makes.
LEMMA ReadsScan ==
    ASSUME NEW C, NEW u \in Seq(C), NEW e, ScansTo(Blank, u, e)
    PROVE  FoldLeft(ScanChar, Blank, u) = e
<1>1. PICK n \in Nat : n = Len(u)  OBVIOUS
<1>2. PICK r : IsScan(r, u) /\ r[0] = Blank /\ r[n] = e
  BY <1>1 DEF ScansTo
<1>3. PICK h : /\ FoldLeft(ScanChar, Blank, u) = h[1..n] /\ h[{}] = Blank
               /\ \A k \in 1..n : h[1..k] = ScanChar(h[1..(k - 1)], u[k])
  BY <1>1, FoldScans
<1> DEFINE T == {k \in 0..n : h[1..k] = r[k]}
<1>4. 0 \in T
  <2>1. 1..0 = {}  OBVIOUS
  <2> QED  BY <1>2, <1>3, <2>1
<1>5. \A k \in 1..n : k - 1 \in T => k \in T
  <2> TAKE k \in 1..n
  <2> HAVE k - 1 \in T
  <2>1. h[1..k] = ScanChar(h[1..(k - 1)], u[k]) /\ r[k] = ScanChar(r[k - 1], u[k])
    BY <1>1, <1>2, <1>3 DEF IsScan
  <2>2. h[1..(k - 1)] = r[k - 1]  OBVIOUS
  <2>3. h[1..k] = r[k]  BY <2>1, <2>2
  <2> QED  BY <2>3
<1> HIDE DEF T
<1>6. 0..n \subseteq T  BY <1>4, <1>5, UpTo
<1>7. n \in T  BY <1>6
<1> QED  BY <1>2, <1>3, <1>7 DEF T

LEMMA ReadsOne ==
    ASSUME NEW s, NEW c
    PROVE  ScansTo(s, <<>>, s) /\ ScansTo(s, <<c>>, ScanChar(s, c))
<1>1. ScansTo(s, <<>>, s)
  <2>1. PICK r : r = [k \in 0..0 |-> s]  OBVIOUS
  <2>2. IsScan(r, <<>>) /\ r[0] = s /\ r[Len(<<>>)] = s
    BY <2>1 DEF IsScan
  <2> QED  BY <2>2 DEF ScansTo
<1>2. ScansTo(s, <<c>>, ScanChar(s, c))
  <2>1. PICK e : e = ScanChar(s, c)  OBVIOUS
  <2>2. PICK r : r = [k \in 0..1 |-> IF k = 0 THEN s ELSE e]  OBVIOUS
  <2>3. r[0] = s /\ r[1] = e  BY <2>1, <2>2
  <2>4. IsScan(r, <<c>>)  BY <2>1, <2>3 DEF IsScan
  <2>5. Len(<<c>>) = 1  OBVIOUS
  <2> QED  BY <2>1, <2>3, <2>4, <2>5 DEF ScansTo
<1> QED  BY <1>1, <1>2

\* Reading one text and then another is reading both.
LEMMA ReadsOn ==
    ASSUME NEW C, NEW u \in Seq(C), NEW v \in Seq(C), NEW s, NEW m, NEW e,
           ScansTo(s, u, m), ScansTo(m, v, e)
    PROVE  ScansTo(s, u \o v, e)
<1>1. PICK i, j \in Nat : i = Len(u) /\ j = Len(v) /\ Len(u \o v) = i + j
  OBVIOUS
<1>2. PICK p : IsScan(p, u) /\ p[0] = s /\ p[i] = m  BY <1>1 DEF ScansTo
<1>3. PICK q : IsScan(q, v) /\ q[0] = m /\ q[j] = e  BY <1>1 DEF ScansTo
<1>4. PICK r : r = [k \in 0..(i + j) |-> IF k <= i THEN p[k] ELSE q[k - i]]  OBVIOUS
<1>5. r[0] = s  BY <1>1, <1>2, <1>3, <1>4
<1>6. r[i + j] = e
  <2>1. CASE j = 0  BY <1>1, <1>2, <1>3, <1>4, <2>1
  <2>2. CASE j # 0  BY <1>1, <1>3, <1>4, <2>2
  <2> QED  BY <2>1, <2>2
<1>7. ASSUME NEW k \in 1..(i + j) PROVE r[k] = ScanChar(r[k - 1], (u \o v)[k])
  <2>1. CASE k <= i
    <3>1. (u \o v)[k] = u[k] /\ r[k] = p[k] /\ r[k - 1] = p[k - 1]
      BY <1>1, <1>4, <2>1, ConcatProperties
    <3>2. k \in 1..Len(u)  BY <1>1, <2>1
    <3> QED  BY <1>2, <3>1, <3>2 DEF IsScan
  <2>2. CASE k > i
    <3>1. (u \o v)[k] = v[k - i]  BY <1>1, <2>2, ConcatProperties
    <3>2. r[k] = q[k - i]  BY <1>4, <2>2
    <3>3. r[k - 1] = q[(k - i) - 1]
      <4>1. CASE k = i + 1  BY <1>1, <1>2, <1>3, <1>4, <4>1
      <4>2. CASE k # i + 1
        <5>1. k - 1 > i /\ k - 1 \in 0..(i + j) /\ (k - 1) - i = (k - i) - 1  BY <1>1, <2>2, <4>2
        <5> QED  BY <1>4, <5>1
      <4> QED  BY <4>1, <4>2
    <3>4. k - i \in 1..Len(v)  BY <1>1, <2>2
    <3>5. q[k - i] = ScanChar(q[(k - i) - 1], v[k - i])  BY <1>3, <3>4 DEF IsScan
    <3> QED  BY <3>1, <3>2, <3>3, <3>5
  <2> QED  BY <1>1, <2>1, <2>2
<1>8. IsScan(r, u \o v)  BY <1>1, <1>7 DEF IsScan
<1> QED  BY <1>1, <1>5, <1>6, <1>8 DEF ScansTo

-----------------------------------------------------------------------------
(* The CSV exporter, read back *)

At(rows, row, cell, mode) == [rows |-> rows, row |-> row, cell |-> cell, mode |-> mode]

Special == {Comma, Quote, LF, CR}

\* The first k of a sequence.
First(s, k) == [i \in 1..k |-> s[i]]

LEMMA TwoOfOne == ASSUME NEW x, NEW y PROVE <<x>> \o <<y>> = <<x, y>>
<1>1. PICK p, q, w : p = <<x>> /\ q = <<y>> /\ w = <<x, y>>  OBVIOUS
<1>2. p \in Seq({x, y}) /\ q \in Seq({x, y}) /\ w \in Seq({x, y})  BY <1>1
<1>3. Len(p) = 1 /\ Len(q) = 1 /\ Len(w) = 2 /\ p[1] = x /\ q[1] = y /\ w[1] = x /\ w[2] = y
  BY <1>1
<1>4. /\ p \o q \in Seq({x, y}) /\ Len(p \o q) = 2
      /\ (p \o q)[1] = p[1] /\ (p \o q)[2] = q[1]
  BY <1>2, <1>3, ConcatProperties
<1>5. \A i \in 1..2 : (p \o q)[i] = w[i]  BY <1>3, <1>4
<1>6. p \o q = w  BY <1>2, <1>3, <1>4, <1>5, SeqEqual
<1> QED  BY <1>1, <1>6

LEMMA FirstGrows ==
    ASSUME NEW C, NEW s \in Seq(C)
    PROVE  /\ First(s, 0) = <<>> /\ First(s, Len(s)) = s
           /\ \A k \in 0..Len(s) : First(s, k) \in Seq(C) /\ Len(First(s, k)) = k
           /\ \A k \in 1..Len(s) : Append(First(s, k - 1), s[k]) = First(s, k)
<1>1. PICK n \in Nat : n = Len(s) /\ s \in [1..n -> C]  OBVIOUS
<1>2. \A k \in 0..n : First(s, k) \in Seq(C) /\ Len(First(s, k)) = k
  BY <1>1 DEF First
<1>3. First(s, 0) = <<>>
  <2>1. First(s, 0) \in Seq(C) /\ Len(First(s, 0)) = 0  BY <1>2
  <2> QED  BY <2>1, EmptySeq
<1>4. First(s, n) = s  BY <1>1 DEF First
<1>5. ASSUME NEW k \in 1..n PROVE Append(First(s, k - 1), s[k]) = First(s, k)
  <2>0. k - 1 \in 0..n /\ s[k] \in C  BY <1>1
  <2>1. First(s, k - 1) \in Seq(C) /\ Len(First(s, k - 1)) = k - 1 /\ s[k] \in C
    BY <1>2, <2>0
  <2>2. Append(First(s, k - 1), s[k]) \in Seq(C) /\ Len(Append(First(s, k - 1), s[k])) = k
    BY <2>1
  <2>3. First(s, k) \in Seq(C) /\ Len(First(s, k)) = k  BY <1>2
  <2>4. \A i \in 1..k : Append(First(s, k - 1), s[k])[i] = First(s, k)[i]
    BY <2>1 DEF First
  <2> QED  BY <2>2, <2>3, <2>4, SeqEqual
<1> QED  BY <1>1, <1>2, <1>3, <1>4, <1>5

\* A field without special characters is read as it stands.
LEMMA PlainFieldRead ==
    ASSUME NEW C, NEW rows, NEW row, NEW f \in Seq(C),
           \A i \in 1..Len(f) : f[i] \notin Special
    PROVE  ScansTo(At(rows, row, <<>>, "plain"), f, At(rows, row, f, "plain"))
<1>1. PICK n \in Nat : n = Len(f)  OBVIOUS
<1>2. PICK r : r = [k \in 0..n |-> At(rows, row, First(f, k), "plain")]  OBVIOUS
<1>3. \A k \in 0..n : First(f, k) \in Seq(C)  BY <1>1, FirstGrows
<1>5. First(f, 0) = <<>> /\ First(f, n) = f  BY <1>1, FirstGrows
<1>6. r[0] = At(rows, row, <<>>, "plain") /\ r[n] = At(rows, row, f, "plain")
  BY <1>2, <1>5
<1>7. ASSUME NEW k \in 1..n PROVE r[k] = ScanChar(r[k - 1], f[k])
  <2>1. k - 1 \in 0..n /\ k \in 0..n  OBVIOUS
  <2>2. Append(First(f, k - 1), f[k]) = First(f, k)  BY <1>1, FirstGrows
  <2>3. r[k - 1] = At(rows, row, First(f, k - 1), "plain")
        /\ r[k] = At(rows, row, First(f, k), "plain")
    BY <1>2, <2>1
  <2>4. f[k] \notin Special  BY <1>1
  <2>5. \A p, c : c \notin Special =>
            ScanChar(At(rows, row, p, "plain"), c) = At(rows, row, Append(p, c), "plain")
    BY ZenonT(60) DEF At, ScanChar, PlainChar, In, Take, Special
  <2>6. ScanChar(r[k - 1], f[k]) = At(rows, row, Append(First(f, k - 1), f[k]), "plain")
    BY <2>3, <2>4, <2>5, Zenon
  <2> QED  BY <2>2, <2>3, <2>6, Zenon
<1>8. IsScan(r, f)  BY <1>1, <1>7 DEF IsScan
<1> QED  BY <1>1, <1>6, <1>8 DEF ScansTo

Doubled(f) == [i \in DOMAIN f |-> IF f[i] = Quote THEN <<Quote, Quote>> ELSE <<f[i]>>]

\* Inside quotes a doubled quote stands for one.
LEMMA DoubledRead ==
    ASSUME NEW C, Special \subseteq C, NEW rows, NEW row, NEW f \in Seq(C)
    PROVE  /\ FlattenSeq(Doubled(f)) \in Seq(C)
           /\ ScansTo(At(rows, row, <<>>, "quoted"), FlattenSeq(Doubled(f)), At(rows, row, f, "quoted"))
<1>1. PICK n \in Nat : n = Len(f) /\ f \in [1..n -> C]  OBVIOUS
<1>q. Quote \in C  BY DEF Special
<1>2. \A i \in 1..n : Doubled(f)[i] \in Seq(C)
  BY <1>1, <1>q DEF Doubled
<1>3. Doubled(f) \in Seq(Seq(C)) /\ Len(Doubled(f)) = n
  BY <1>1, <1>2 DEF Doubled
<1>4. PICK r \in [0..n -> Seq(C)] :
         /\ r[0] = <<>> /\ FlattenSeq(Doubled(f)) = r[n]
         /\ \A k \in 1..n : r[k] = r[k - 1] \o Doubled(f)[k]
  <2>1. \E r \in [0..Len(Doubled(f)) -> Seq(C)] :
           /\ r[0] = <<>> /\ FlattenSeq(Doubled(f)) = r[Len(Doubled(f))]
           /\ \A k \in 1..Len(Doubled(f)) : r[k] = r[k - 1] \o Doubled(f)[k]
    BY <1>3, Flattened
  <2> QED  BY <1>3, <2>1
<1>5. ASSUME NEW k \in 1..n
      PROVE  ScansTo(At(rows, row, First(f, k - 1), "quoted"), Doubled(f)[k],
                   At(rows, row, First(f, k), "quoted"))
  <2>1. PICK p, c : p = First(f, k - 1) /\ c = f[k]  OBVIOUS
  <2>0. k - 1 \in 0..n /\ f[k] \in C  BY <1>1
  <2>2. p \in Seq(C) /\ c \in C /\ First(f, k) = Append(p, c)
    BY <1>1, <2>0, <2>1, FirstGrows
  <2>3. Append(p, c) \in Seq(C)  BY <2>2
  <2>5. CASE c = Quote
    <3>1. ScanChar(At(rows, row, p, "quoted"), Quote) = At(rows, row, p, "closing")
      BY DEF At, ScanChar, In
    <3>2. ScanChar(At(rows, row, p, "closing"), Quote) = At(rows, row, Append(p, Quote), "quoted")
      BY DEF At, ScanChar, In, Take
    <3>3. ScansTo(At(rows, row, p, "quoted"), <<Quote>>, At(rows, row, p, "closing"))
      BY <3>1, ReadsOne
    <3>4. ScansTo(At(rows, row, p, "closing"), <<Quote>>, At(rows, row, Append(p, Quote), "quoted"))
      BY <3>2, ReadsOne
    <3>5. <<Quote>> \in Seq(C)  BY <1>q
    <3>6. ScansTo(At(rows, row, p, "quoted"), <<Quote>> \o <<Quote>>,
                At(rows, row, Append(p, Quote), "quoted"))
      BY <3>3, <3>4, <3>5, ReadsOn
    <3>7. <<Quote>> \o <<Quote>> = <<Quote, Quote>>  BY TwoOfOne
    <3>8. Doubled(f)[k] = <<Quote, Quote>>  BY <1>1, <2>1, <2>5 DEF Doubled
    <3> QED  BY <2>1, <2>2, <2>5, <3>6, <3>7, <3>8, Zenon
  <2>6. CASE c # Quote
    <3>1. ScanChar(At(rows, row, p, "quoted"), c) = At(rows, row, Append(p, c), "quoted")
      BY <2>6 DEF At, ScanChar, Take
    <3>2. Doubled(f)[k] = <<c>>  BY <1>1, <2>1, <2>6 DEF Doubled
    <3>3. ScansTo(At(rows, row, p, "quoted"), <<c>>, At(rows, row, Append(p, c), "quoted"))
      BY <3>1, ReadsOne
    <3> QED  BY <2>1, <2>2, <3>2, <3>3, Zenon
  <2> QED  BY <2>5, <2>6
<1> DEFINE s0 == At(rows, row, <<>>, "quoted")
           T == {k \in 0..n : ScansTo(s0, r[k], At(rows, row, First(f, k), "quoted"))}
<1>6. 0 \in T
  <2>1. First(f, 0) = <<>>  BY FirstGrows
  <2>3. ScansTo(s0, <<>>, s0)  BY ReadsOne
  <2>4. ScansTo(s0, r[0], At(rows, row, First(f, 0), "quoted"))  BY <1>4, <2>1, <2>3, Zenon
  <2> QED  BY <2>4
<1>7. \A k \in 1..n : k - 1 \in T => k \in T
  <2> TAKE k \in 1..n
  <2> HAVE k - 1 \in T
  <2>1. k - 1 \in 0..n /\ r[k - 1] \in Seq(C) /\ Doubled(f)[k] \in Seq(C)  BY <1>2
  <2>2. ScansTo(s0, r[k - 1], At(rows, row, First(f, k - 1), "quoted"))  OBVIOUS
  <2> HIDE DEF s0
  <2>3. ScansTo(s0, r[k - 1] \o Doubled(f)[k], At(rows, row, First(f, k), "quoted"))
    BY <1>5, <2>1, <2>2, ReadsOn
  <2>4. r[k] = r[k - 1] \o Doubled(f)[k]  BY <1>4
  <2>5. ScansTo(s0, r[k], At(rows, row, First(f, k), "quoted"))  BY <2>3, <2>4, Zenon
  <2> QED  BY <2>5
<1> HIDE DEF T
<1>8. 0..n \subseteq T  BY <1>6, <1>7, UpTo
<1>9. n \in T  BY <1>8
<1>10. ScansTo(s0, r[n], At(rows, row, First(f, n), "quoted"))  BY <1>9 DEF T
<1>11. First(f, n) = f  BY <1>1, FirstGrows
<1>12. r[n] \in Seq(C)  OBVIOUS
<1> QED  BY <1>4, <1>10, <1>11, <1>12

\* What the exporter writes for a field is read as that field.
LEMMA FieldRead ==
    ASSUME NEW C, Special \subseteq C, NEW rows, NEW row, NEW f \in Seq(C)
    PROVE  /\ EscapeField(f, Comma) \in Seq(C)
           /\ \E m \in {"plain", "closing"} :
                 ScansTo(At(rows, row, <<>>, "plain"), EscapeField(f, Comma), At(rows, row, f, m))
<1>1. CASE \E i \in DOMAIN f : f[i] \in {Comma, Quote, LF, CR}
  <2>q. Quote \in C /\ <<Quote>> \in Seq(C) /\ <<>> \in Seq(C)  BY DEF Special
  <2>1. PICK u \in Seq(C) : /\ u = FlattenSeq(Doubled(f))
                           /\ ScansTo(At(rows, row, <<>>, "quoted"), u, At(rows, row, f, "quoted"))
    BY DoubledRead
  <2>2. EscapeField(f, Comma) = <<Quote>> \o u \o <<Quote>>
    BY <1>1, <2>1 DEF EscapeField, Doubled
  <2>3. ScanChar(At(rows, row, <<>>, "plain"), Quote) = At(rows, row, <<>>, "quoted")
        /\ ScanChar(At(rows, row, f, "quoted"), Quote) = At(rows, row, f, "closing")
    BY DEF At, ScanChar, PlainChar, In, Quote, Comma, CR, LF
  <2>5. ScansTo(At(rows, row, <<>>, "plain"), <<Quote>>, At(rows, row, <<>>, "quoted"))
        /\ ScansTo(At(rows, row, f, "quoted"), <<Quote>>, At(rows, row, f, "closing"))
    BY <2>3, ReadsOne
  <2>6. ScansTo(At(rows, row, <<>>, "plain"), <<Quote>> \o u, At(rows, row, f, "quoted"))
    BY <2>q, <2>1, <2>5, ReadsOn
  <2>7. <<Quote>> \o u \in Seq(C) /\ (<<Quote>> \o u) \o <<Quote>> \in Seq(C)
    BY <2>q
  <2>8. ScansTo(At(rows, row, <<>>, "plain"), (<<Quote>> \o u) \o <<Quote>>, At(rows, row, f, "closing"))
    BY <2>q, <2>5, <2>6, <2>7, ReadsOn
  <2> QED  BY <2>2, <2>7, <2>8
<1>2. CASE ~ \E i \in DOMAIN f : f[i] \in {Comma, Quote, LF, CR}
  <2>1. EscapeField(f, Comma) = f  BY <1>2 DEF EscapeField
  <2>2. \A i \in 1..Len(f) : f[i] \notin Special  BY <1>2 DEF Special
  <2>3. ScansTo(At(rows, row, <<>>, "plain"), f, At(rows, row, f, "plain"))
    BY <2>2, PlainFieldRead
  <2> QED  BY <2>1, <2>3
<1> QED  BY <1>1, <1>2

\* What ends a cell, a row, and the terminator of a row.
LEMMA EndsRead ==
    ASSUME NEW rows, NEW row, NEW cell, NEW m \in {"plain", "closing"}
    PROVE  /\ ScanChar(At(rows, row, cell, m), Comma) = At(rows, Append(row, cell), <<>>, "plain")
           /\ ScanChar(At(rows, row, cell, m), CR) = At(Append(rows, Append(row, cell)), <<>>, <<>>, "cr")
           /\ ScanChar(At(rows, row, cell, "cr"), LF) = At(rows, row, cell, "plain")
BY DEF At, ScanChar, PlainChar, In, EndRow, EndCell, Quote, Comma, CR, LF

Piece(cells, i) == (IF i = 1 THEN <<>> ELSE <<Comma>>) \o EscapeField(cells[i], Comma)

LEMMA PieceRead ==
    ASSUME NEW C, Special \subseteq C, NEW rows, NEW cells \in Seq(Seq(C)), NEW k \in 1..Len(cells)
    PROVE  /\ Piece(cells, k) \in Seq(C)
           /\ k = 1 => \E m \in {"plain", "closing"} :
                 ScansTo(At(rows, <<>>, <<>>, "plain"), Piece(cells, k), At(rows, <<>>, cells[k], m))
           /\ k > 1 => \A m \in {"plain", "closing"} : \E e \in {"plain", "closing"} :
                 ScansTo(At(rows, First(cells, k - 2), cells[k - 1], m), Piece(cells, k),
                       At(rows, First(cells, k - 1), cells[k], e))
<1>1. cells[k] \in Seq(C) /\ Comma \in C /\ <<Comma>> \in Seq(C)  BY DEF Special
<1>2. PICK u : u = EscapeField(cells[k], Comma)  OBVIOUS
<1>3. u \in Seq(C)  BY <1>1, <1>2, FieldRead
<1>4. CASE k = 1
  <2>1. Piece(cells, k) = u  BY <1>2, <1>3, <1>4 DEF Piece
  <2>2. \E m \in {"plain", "closing"} :
           ScansTo(At(rows, <<>>, <<>>, "plain"), u, At(rows, <<>>, cells[k], m))
    BY <1>1, <1>2, FieldRead
  <2> QED  BY <1>3, <1>4, <2>1, <2>2
<1>5. CASE k > 1
  <2>1. Piece(cells, k) = <<Comma>> \o u /\ <<Comma>> \o u \in Seq(C)
    BY <1>1, <1>2, <1>3, <1>5 DEF Piece
  <2>2. ASSUME NEW m \in {"plain", "closing"}
        PROVE  \E e \in {"plain", "closing"} :
                 ScansTo(At(rows, First(cells, k - 2), cells[k - 1], m), <<Comma>> \o u,
                       At(rows, First(cells, k - 1), cells[k], e))
    <3>1. PICK j \in 1..Len(cells) : j = k - 1 /\ j - 1 = k - 2  BY <1>5
    <3>2. Append(First(cells, k - 2), cells[k - 1]) = First(cells, k - 1)
      <4>1. Append(First(cells, j - 1), cells[j]) = First(cells, j)  BY FirstGrows
      <4> QED  BY <3>1, <4>1, Zenon
    <3>3. ScanChar(At(rows, First(cells, k - 2), cells[k - 1], m), Comma)
            = At(rows, First(cells, k - 1), <<>>, "plain")
      <4>1. ScanChar(At(rows, First(cells, k - 2), cells[k - 1], m), Comma)
              = At(rows, Append(First(cells, k - 2), cells[k - 1]), <<>>, "plain")
        BY EndsRead
      <4> QED  BY <3>2, <4>1
    <3>4. ScansTo(At(rows, First(cells, k - 2), cells[k - 1], m), <<Comma>>,
                At(rows, First(cells, k - 1), <<>>, "plain"))
      BY <3>3, ReadsOne
    <3>5. PICK e \in {"plain", "closing"} :
             ScansTo(At(rows, First(cells, k - 1), <<>>, "plain"), u,
                   At(rows, First(cells, k - 1), cells[k], e))
      BY <1>1, <1>2, FieldRead
    <3>6. ScansTo(At(rows, First(cells, k - 2), cells[k - 1], m), <<Comma>> \o u,
                At(rows, First(cells, k - 1), cells[k], e))
      BY <1>1, <1>3, <3>4, <3>5, ReadsOn
    <3> QED  BY <3>6
  <2> QED  BY <1>5, <2>1, <2>2
<1> QED  BY <1>4, <1>5

\* A line of at least one cell is read as a row of those cells.
LEMMA LineRead ==
    ASSUME NEW C, Special \subseteq C, NEW rows, NEW cells \in Seq(Seq(C)), cells # <<>>
    PROVE  /\ Line(cells, Comma) \in Seq(C)
           /\ ScansTo(At(rows, <<>>, <<>>, "plain"), Line(cells, Comma),
                    At(Append(rows, cells), <<>>, <<>>, "plain"))
<1>1. PICK n \in Nat : n = Len(cells) /\ DOMAIN cells = 1..n /\ n > 0
  BY EmptySeq
<1>2. PICK ps : ps = [i \in DOMAIN cells |-> Piece(cells, i)]  OBVIOUS
<1>3. Line(cells, Comma) = FlattenSeq(ps) \o <<CR, LF>>
  BY <1>2 DEF Line, Piece
<1>4. \A k \in 1..n : Piece(cells, k) \in Seq(C) /\ ps[k] = Piece(cells, k)
  BY <1>1, <1>2, PieceRead
<1>5. ps \in Seq(Seq(C)) /\ Len(ps) = n
  <2>1. ps = [i \in 1..n |-> Piece(cells, i)]  BY <1>1, <1>2
  <2> QED  BY <1>4, <2>1
<1>6. PICK r \in [0..n -> Seq(C)] : /\ r[0] = <<>> /\ FlattenSeq(ps) = r[n]
                                    /\ \A k \in 1..n : r[k] = r[k - 1] \o ps[k]
  BY <1>5, Flattened
<1> DEFINE s0 == At(rows, <<>>, <<>>, "plain")
           Upto(k) == \E m \in {"plain", "closing"} :
                         ScansTo(s0, r[k], At(rows, First(cells, k - 1), cells[k], m))
           T == {k \in 0..n : k > 0 => Upto(k)}
<1>7. 0 \in T  OBVIOUS
<1>8. \A k \in 1..n : k - 1 \in T => k \in T
  <2> TAKE k \in 1..n
  <2> HAVE k - 1 \in T
  <2>1. r[k] = r[k - 1] \o Piece(cells, k) /\ Piece(cells, k) \in Seq(C)  BY <1>4, <1>6
  <2>2. CASE k = 1
    <3>0. r[k - 1] = <<>>  BY <1>6, <2>2
    <3>1. r[k] = Piece(cells, k)  BY <2>1, <3>0
    <3>2. First(cells, 0) = <<>>  BY FirstGrows
    <3>3. PICK m \in {"plain", "closing"} :
             ScansTo(s0, Piece(cells, k), At(rows, <<>>, cells[k], m))
      BY <1>1, <2>2, PieceRead
    <3>4. k - 1 = 0  BY <2>2
    <3>5. ScansTo(s0, r[k], At(rows, First(cells, k - 1), cells[k], m))
      BY <3>1, <3>2, <3>3, <3>4, Zenon
    <3> QED  BY <3>5
  <2>3. CASE k > 1
    <3>1. k - 1 \in 1..n /\ (k - 1) - 1 = k - 2 /\ r[k - 1] \in Seq(C)  BY <2>3
    <3>2. Upto(k - 1)  BY <2>3
    <3>3. PICK m \in {"plain", "closing"} :
             ScansTo(s0, r[k - 1], At(rows, First(cells, k - 2), cells[k - 1], m))
      BY <3>1, <3>2
    <3>4. PICK e \in {"plain", "closing"} :
             ScansTo(At(rows, First(cells, k - 2), cells[k - 1], m), Piece(cells, k),
                   At(rows, First(cells, k - 1), cells[k], e))
      BY <1>1, <2>3, PieceRead
    <3> HIDE DEF s0
    <3>5. ScansTo(s0, r[k - 1] \o Piece(cells, k), At(rows, First(cells, k - 1), cells[k], e))
      BY <2>1, <3>1, <3>3, <3>4, ReadsOn
    <3>6. ScansTo(s0, r[k], At(rows, First(cells, k - 1), cells[k], e))  BY <2>1, <3>5, Zenon
    <3> QED  BY <3>6
  <2> QED  BY <2>2, <2>3
<1> HIDE DEF T
<1>9. 0..n \subseteq T  BY <1>7, <1>8, UpTo
<1>10. n \in T  BY <1>9
<1>11. PICK m \in {"plain", "closing"} :
          ScansTo(s0, r[n], At(rows, First(cells, n - 1), cells[n], m))
  BY <1>1, <1>10 DEF T
<1>12. n \in 1..n /\ Append(First(cells, n - 1), cells[n]) = cells
  <2>1. n \in 1..n  BY <1>1
  <2>2. Append(First(cells, n - 1), cells[n]) = First(cells, n)  BY <1>1, <2>1, FirstGrows
  <2>3. First(cells, n) = cells  BY <1>1, FirstGrows
  <2> QED  BY <2>1, <2>2, <2>3, Zenon
<1>13. CR \in C /\ LF \in C /\ <<CR>> \in Seq(C) /\ <<LF>> \in Seq(C)  BY DEF Special
<1>14. ScansTo(At(rows, First(cells, n - 1), cells[n], m), <<CR>>,
             At(Append(rows, cells), <<>>, <<>>, "cr"))
  <2>1. ScanChar(At(rows, First(cells, n - 1), cells[n], m), CR)
          = At(Append(rows, Append(First(cells, n - 1), cells[n])), <<>>, <<>>, "cr")
    BY EndsRead
  <2>2. ScanChar(At(rows, First(cells, n - 1), cells[n], m), CR)
          = At(Append(rows, cells), <<>>, <<>>, "cr")
    BY <1>12, <2>1
  <2> QED  BY <2>2, ReadsOne
<1>15. ScansTo(At(Append(rows, cells), <<>>, <<>>, "cr"), <<LF>>,
             At(Append(rows, cells), <<>>, <<>>, "plain"))
  <2>1. ScanChar(At(Append(rows, cells), <<>>, <<>>, "cr"), LF)
          = At(Append(rows, cells), <<>>, <<>>, "plain")
    BY EndsRead
  <2> QED  BY <2>1, ReadsOne
<1>16. ScansTo(At(rows, First(cells, n - 1), cells[n], m), <<CR>> \o <<LF>>,
             At(Append(rows, cells), <<>>, <<>>, "plain"))
  BY <1>13, <1>14, <1>15, ReadsOn
<1>17. <<CR>> \o <<LF>> = <<CR, LF>>  BY TwoOfOne
<1>18. r[n] \in Seq(C) /\ <<CR, LF>> \in Seq(C)  BY <1>13
<1>19. ScansTo(s0, r[n] \o <<CR, LF>>, At(Append(rows, cells), <<>>, <<>>, "plain"))
  <2> HIDE DEF s0
  <2> QED  BY <1>11, <1>16, <1>17, <1>18, ReadsOn
<1>20. r[n] \o <<CR, LF>> \in Seq(C) /\ Line(cells, Comma) = r[n] \o <<CR, LF>>
  BY <1>3, <1>6, <1>18
<1> QED  BY <1>19, <1>20

Joins(a, b, e) == Append(a \o b, e) = a \o Append(b, e)

LEMMA AppendJoins ==
    ASSUME NEW D, NEW a \in Seq(D), NEW b \in Seq(D), NEW e \in D
    PROVE  Joins(a, b, e)
BY DEF Joins

LEMMA IsSeqOf ==
    ASSUME NEW D, NEW n \in Nat, NEW f \in [1..n -> D]
    PROVE  f \in Seq(D) /\ Len(f) = n
OBVIOUS

LEMMA FirstJoins ==
    ASSUME NEW D, NEW rows \in Seq(D), NEW ls \in Seq(D), NEW k \in 1..Len(ls)
    PROVE  Append(rows \o First(ls, k - 1), ls[k]) = rows \o First(ls, k)
<1>1. k - 1 \in 0..Len(ls) /\ ls[k] \in D  OBVIOUS
<1>2. First(ls, k - 1) \in Seq(D) /\ First(ls, k) = Append(First(ls, k - 1), ls[k])
  BY <1>1, FirstGrows
<1>3. PICK b \in Seq(D) : b = First(ls, k - 1)  BY <1>2, Zenon
<1>4. PICK e \in D : e = ls[k]  BY <1>1, Zenon
<1>5. Joins(rows, b, e)  BY AppendJoins
<1> QED  BY <1>2, <1>3, <1>4, <1>5, Zenon DEF Joins

\* So are the lines of rows of at least one cell each.
LEMMA LinesRead ==
    ASSUME NEW C, Special \subseteq C, NEW rows \in Seq(Seq(Seq(C))), NEW ls \in Seq(Seq(Seq(C))),
           \A i \in 1..Len(ls) : ls[i] # <<>>
    PROVE  LET text == FlattenSeq([i \in DOMAIN ls |-> Line(ls[i], Comma)]) IN
           /\ text \in Seq(C)
           /\ ScansTo(At(rows, <<>>, <<>>, "plain"), text, At(rows \o ls, <<>>, <<>>, "plain"))
<1>1. PICK n \in Nat : n = Len(ls) /\ DOMAIN ls = 1..n  OBVIOUS
<1>2. PICK ps : ps = [i \in DOMAIN ls |-> Line(ls[i], Comma)]  OBVIOUS
<1>3. \A k \in 1..n : ls[k] \in Seq(Seq(C)) /\ ls[k] # <<>> /\ ps[k] = Line(ls[k], Comma)
                      /\ Line(ls[k], Comma) \in Seq(C)
  <2> TAKE k \in 1..n
  <2>1. ls[k] \in Seq(Seq(C)) /\ ls[k] # <<>> /\ ps[k] = Line(ls[k], Comma)  BY <1>1, <1>2
  <2>2. Line(ls[k], Comma) \in Seq(C)  BY <2>1, LineRead
  <2> QED  BY <2>1, <2>2
<1>4. ps \in Seq(Seq(C)) /\ Len(ps) = n
  <2>1. ps = [i \in 1..n |-> Line(ls[i], Comma)]  BY <1>1, <1>2
  <2>2. \A i \in 1..n : Line(ls[i], Comma) \in Seq(C)  BY <1>3
  <2>3. ps \in [1..n -> Seq(C)]  BY <2>1, <2>2
  <2> QED  BY <1>1, <2>3, IsSeqOf, Zenon
<1>5. PICK r \in [0..n -> Seq(C)] : /\ r[0] = <<>> /\ FlattenSeq(ps) = r[n]
                                    /\ \A k \in 1..n : r[k] = r[k - 1] \o ps[k]
  BY <1>4, Flattened
<1> DEFINE s0 == At(rows, <<>>, <<>>, "plain")
           Upto(k) == ScansTo(s0, r[k], At(rows \o First(ls, k), <<>>, <<>>, "plain"))
           T == {k \in 0..n : Upto(k)}
<1>6. 0 \in T
  <2>1. First(ls, 0) = <<>> /\ rows \o <<>> = rows  BY FirstGrows
  <2>2. ScansTo(s0, <<>>, s0)  BY ReadsOne
  <2>3. rows \o First(ls, 0) = rows  BY <2>1
  <2>4. Upto(0)  BY <1>5, <2>2, <2>3, Zenon
  <2> QED  BY <2>4
<1>7. \A k \in 1..n : k - 1 \in T => k \in T
  <2> TAKE k \in 1..n
  <2> HAVE k - 1 \in T
  <2>1. r[k] = r[k - 1] \o Line(ls[k], Comma) /\ r[k - 1] \in Seq(C)  BY <1>3, <1>5
  <2>2. ScansTo(s0, r[k - 1], At(rows \o First(ls, k - 1), <<>>, <<>>, "plain"))  OBVIOUS
  <2>3. PICK w : w = rows \o First(ls, k - 1)  OBVIOUS
  <2>4. ScansTo(At(w, <<>>, <<>>, "plain"), Line(ls[k], Comma), At(Append(w, ls[k]), <<>>, <<>>, "plain"))
    BY <1>3, LineRead
  <2>5. Append(w, ls[k]) = rows \o First(ls, k)  BY <1>1, <2>3, FirstJoins
  <2>6. Line(ls[k], Comma) \in Seq(C)  BY <1>3
  <2>7. ScansTo(s0, r[k - 1] \o Line(ls[k], Comma), At(Append(w, ls[k]), <<>>, <<>>, "plain"))
    <3> HIDE DEF s0
    <3> QED  BY <2>1, <2>2, <2>3, <2>4, <2>6, ReadsOn
  <2>8. Upto(k)  BY <2>1, <2>5, <2>7, Zenon
  <2> QED  BY <2>8
<1> HIDE DEF T
<1>8. 0..n \subseteq T  BY <1>6, <1>7, UpTo
<1>9. n \in T  BY <1>8
<1>10. Upto(n)  BY <1>9 DEF T
<1>11. First(ls, n) = ls  BY <1>1, FirstGrows
<1>12. r[n] \in Seq(C) /\ FlattenSeq([i \in DOMAIN ls |-> Line(ls[i], Comma)]) = r[n]
  BY <1>2, <1>5
<1> QED  BY <1>10, <1>11, <1>12

-----------------------------------------------------------------------------
(* A table that is exported can be read back *)

\* A table of sequences is one of texts over some characters.
LEMMA TableTexts ==
    ASSUME NEW t, IsTable(t)
    PROVE  \E C : Special \subseteq C /\ t.columns \in Seq(Seq(C)) /\ t.rows \in Seq(Seq(Seq(C)))
<1>1. PICK texts : texts = Range(t.columns) \cup UNION {Range(r) : r \in Range(t.rows)}  OBVIOUS
<1>2. PICK C : C = Special \cup UNION {Range(x) : x \in texts}  OBVIOUS
<1>3. \A x \in texts : x \in Seq(C)
  <2> TAKE x \in texts
  <2>1. x \in Seq(Range(x))  BY <1>1 DEF IsTable, IsTexts, IsSequence
  <2>2. Range(x) \subseteq C  BY <1>2
  <2> QED  BY <2>1, <2>2
<1>4. t.columns \in Seq(Seq(C))
  <2>1. t.columns \in Seq(Range(t.columns))  BY DEF IsTable, IsTexts, IsSequence
  <2>2. Range(t.columns) \subseteq Seq(C)  BY <1>1, <1>3
  <2> QED  BY <2>1, <2>2
<1>5. t.rows \in Seq(Seq(Seq(C)))
  <2>1. t.rows \in Seq(Range(t.rows))  BY DEF IsTable, IsTexts, IsSequence
  <2>2. ASSUME NEW r \in Range(t.rows) PROVE r \in Seq(Seq(C))
    <3>1. r \in Seq(Range(r))  BY <2>2 DEF IsTable, IsTexts, IsSequence
    <3>2. Range(r) \subseteq Seq(C)  BY <1>1, <1>3
    <3> QED  BY <3>1, <3>2
  <2>3. Range(t.rows) \subseteq Seq(Seq(C))  BY <2>2
  <2> QED  BY <2>1, <2>3
<1> QED  BY <1>2, <1>4, <1>5

\* The scanner finds in the text of a valid table the rows that were written.
LEMMA RowsRead ==
    ASSUME NEW C, Special \subseteq C, NEW t, TableValid(t), NEW header \in BOOLEAN,
           t.columns \in Seq(Seq(C)), t.rows \in Seq(Seq(Seq(C)))
    PROVE  AllRows(BuildCsv(t, Comma, header)) =
              (IF header THEN <<t.columns>> ELSE <<>>) \o t.rows
<1>1. t.columns # <<>> /\ \A i \in 1..Len(t.rows) : t.rows[i] # <<>>
  <2>1. t.columns # <<>> /\ Len(t.columns) # 0  BY EmptySeq DEF TableValid
  <2>2. ASSUME NEW i \in 1..Len(t.rows) PROVE t.rows[i] # <<>>
    <3>1. Len(t.rows[i]) = Len(t.columns)  BY DEF TableValid
    <3> QED  BY <2>1, <3>1
  <2> QED  BY <2>1, <2>2
<1>2. PICK top, all : /\ top = IF header THEN <<t.columns>> ELSE <<>>
                      /\ all = FlattenSeq([r \in DOMAIN t.rows |-> Line(t.rows[r], Comma)])
  OBVIOUS
<1>3. top \in Seq(Seq(Seq(C)))  BY <1>2
<1>4. PICK head : head = IF header THEN Line(t.columns, Comma) ELSE <<>>  OBVIOUS
<1>5. head \in Seq(C) /\ ScansTo(Blank, head, At(top, <<>>, <<>>, "plain"))
  <2>1. Blank = At(<<>>, <<>>, <<>>, "plain")  BY DEF Blank, At
  <2>2. CASE header
    <3>1. Append(<<>>, t.columns) = top  BY <1>2, <2>2
    <3>2. Line(t.columns, Comma) \in Seq(C)
          /\ ScansTo(At(<<>>, <<>>, <<>>, "plain"), Line(t.columns, Comma),
                   At(Append(<<>>, t.columns), <<>>, <<>>, "plain"))
      BY <1>1, LineRead
    <3> QED  BY <1>4, <2>1, <2>2, <3>1, <3>2
  <2>3. CASE ~header
    <3>1. head = <<>> /\ top = <<>>  BY <1>2, <1>4, <2>3
    <3>2. ScansTo(Blank, <<>>, Blank)  BY ReadsOne
    <3> QED  BY <2>1, <3>1, <3>2
  <2> QED  BY <2>2, <2>3
<1>6. all \in Seq(C) /\ ScansTo(At(top, <<>>, <<>>, "plain"), all, At(top \o t.rows, <<>>, <<>>, "plain"))
  BY <1>1, <1>2, <1>3, LinesRead
<1>7. BuildCsv(t, Comma, header) = head \o all /\ head \o all \in Seq(C)
  BY <1>1, <1>2, <1>4, <1>5, <1>6 DEF BuildCsv
<1>8. ScansTo(Blank, head \o all, At(top \o t.rows, <<>>, <<>>, "plain"))
  BY <1>5, <1>6, ReadsOn
<1>9. FoldLeft(ScanChar, Blank, head \o all) = At(top \o t.rows, <<>>, <<>>, "plain")
  BY <1>7, <1>8, ReadsScan
<1>10. Flushed(At(top \o t.rows, <<>>, <<>>, "plain")).rows = top \o t.rows
  BY DEF Flushed, At
<1> QED  BY <1>2, <1>7, <1>9, <1>10 DEF AllRows

\* The CSV compiler gives back the cells and the header of a table that the
\* exporter wrote, when it treats the header as it was written
\* (csv_export_compilers.cpp:17, csv_compilers.cpp:77).
THEOREM CsvRoundTrip ==
    ASSUME NEW t, IsTable(t), TableValid(t), NEW header \in BOOLEAN, NEW mode,
           mode = IF header THEN "ForceHeader" ELSE "ForceData"
    PROVE  LET csv == ParseCsv(BuildCsv(t, Comma, header), mode) IN
           /\ csv.rows = t.rows
           /\ csv.headers = IF header THEN t.columns ELSE <<>>
<1>1. PICK C : Special \subseteq C /\ t.columns \in Seq(Seq(C)) /\ t.rows \in Seq(Seq(Seq(C)))
  BY TableTexts
<1>2. PICK all : all = AllRows(BuildCsv(t, Comma, header))  OBVIOUS
<1>3. all = (IF header THEN <<t.columns>> ELSE <<>>) \o t.rows  BY <1>1, <1>2, RowsRead
<1>4. CASE header
  <2>1. PICK top : top = <<t.columns>>  OBVIOUS
  <2>2. top \in Seq(Seq(Seq(C))) /\ Len(top) = 1 /\ top[1] = t.columns  BY <1>1, <2>1
  <2>3. all = top \o t.rows  BY <1>3, <1>4, <2>1
  <2>4. all \in Seq(Seq(Seq(C))) /\ Len(all) = 1 + Len(t.rows) /\ all[1] = t.columns
        /\ \A i \in 1..Len(t.rows) : all[i + 1] = t.rows[i]
    <3>0. PICK n \in Nat : n = Len(t.rows)  BY <1>1
    <3>1. /\ all \in Seq(Seq(Seq(C))) /\ Len(all) = Len(top) + n
          /\ \A i \in 1..(Len(top) + n) :
                all[i] = IF i <= Len(top) THEN top[i] ELSE t.rows[i - Len(top)]
      BY <1>1, <2>2, <2>3, <3>0, ConcatProperties
    <3>2. Len(all) = 1 + n /\ \A i \in 1..(1 + n) : all[i] = IF i <= 1 THEN top[i] ELSE t.rows[i - 1]
      BY <2>2, <3>1
    <3>3. all[1] = t.columns  BY <2>2, <3>0, <3>2
    <3>4. \A i \in 1..Len(t.rows) : all[i + 1] = t.rows[i]
      <4> TAKE i \in 1..Len(t.rows)
      <4>1. i + 1 \in 1..(1 + n) /\ ~(i + 1 <= 1) /\ (i + 1) - 1 = i  BY <3>0
      <4> QED  BY <3>2, <4>1
    <3> QED  BY <3>0, <3>1, <3>2, <3>3, <3>4
  <2>5. all # <<>> /\ Len(t.rows) \in Nat  BY <1>1, <2>4, SMTT(60)
  <2>6. Tail(all) = t.rows
    <3>1. /\ Tail(all) \in Seq(Seq(Seq(C))) /\ Len(Tail(all)) = Len(all) - 1
          /\ \A i \in 1..Len(Tail(all)) : Tail(all)[i] = all[i + 1]
      BY <2>4, <2>5, HeadTailProperties
    <3>2. Len(Tail(all)) = Len(t.rows)  BY <2>4, <2>5, <3>1
    <3>3. \A i \in 1..Len(t.rows) : Tail(all)[i] = t.rows[i]  BY <2>4, <3>1, <3>2
    <3> QED  BY <1>1, <3>1, <3>2, <3>3, SeqEqual
  <2>7. TreatFirstAsHeader(all, mode)  BY <1>4, <2>5 DEF TreatFirstAsHeader
  <2> QED  BY <1>2, <1>4, <2>4, <2>6, <2>7 DEF ParseCsv
<1>5. CASE ~header
  <2>1. all = t.rows  BY <1>1, <1>3, <1>5
  <2>2. ~TreatFirstAsHeader(all, mode)  BY <1>5 DEF TreatFirstAsHeader
  <2> QED  BY <1>2, <1>5, <2>1, <2>2 DEF ParseCsv
<1> QED  BY <1>4, <1>5

-----------------------------------------------------------------------------
(* The buckets of a series and of a summary *)

\* Finite numbers are compared and added as integers are.
LEMMA FiniteDoubles ==
    ASSUME NEW a \in Int, NEW b \in Int
    PROVE  /\ Less(a, b) <=> a < b
           /\ AtMost(a, b) <=> a <= b
           /\ Plus(a, b) = a + b /\ Minus(a, b) = a - b
           /\ a # NaN /\ a # PosInf /\ a # NegInf
<1>1. a # NaN /\ a # PosInf /\ a # NegInf  BY NumberAssumption
<1>2. b # NaN /\ b # PosInf /\ b # NegInf  BY NumberAssumption
<1>3. Less(a, b) <=> a < b  BY <1>1, <1>2 DEF Less
<1>4. AtMost(a, b) <=> a <= b  BY <1>1, <1>3 DEF AtMost
<1>5. Plus(a, b) = a + b  BY DEF Plus
<1>6. Minus(a, b) = a - b
  <2>1. -b \in Int  OBVIOUS
  <2>2. Plus(a, -b) = a + (-b)  BY <2>1 DEF Plus
  <2>3. Minus(a, b) = Plus(a, -b)  BY DEF Minus
  <2> QED  BY <2>2, <2>3
<1> QED  BY <1>1, <1>3, <1>4, <1>5, <1>6

\* A quotient rounds down.
LEMMA Quotient ==
    ASSUME NEW x \in Int, NEW w \in Nat, w > 0
    PROVE  x \div w \in Int /\ w * (x \div w) <= x /\ x < w * (x \div w) + w
  BY SMTT(30)

\* Products grow with their factors.
LEMMA ProductGrows ==
    ASSUME NEW w \in Nat, w > 0, NEW i \in Int, NEW j \in Int
    PROVE  /\ w * i \in Int /\ w * (i + 1) = w * i + w /\ w * i = i * w
           /\ i <= j => w * i <= w * j
           /\ w * i < w * j => i < j
           /\ i < j => w * i + w <= w * j
  BY SMTT(30)

\* A product with a difference or a sum is the difference or sum of products.
LEMMA ProductsAdd ==
    ASSUME NEW w \in Int, NEW i \in Int, NEW j \in Int
    PROVE  /\ w * i \in Int /\ w * (i + j) = w * i + w * j /\ w * (i - j) = w * i - w * j
           /\ w * (0 - i) = 0 - w * i /\ (w + i) * j = w * j + i * j /\ (0 - w) * i = 0 - w * i
  BY SMTT(30)

\* Rounding the number of buckets up covers the range, and no bucket is spare.
LEMMA Buckets ==
    ASSUME NEW range \in Nat, range > 0, NEW width \in Nat, width > 0
    PROVE  /\ CeilDiv(range, width) \in Nat /\ CeilDiv(range, width) > 0
           /\ width * (CeilDiv(range, width) - 1) < range
           /\ range <= width * CeilDiv(range, width)
<1>1. PICK c \in Int : /\ c = CeilDiv(range, width) /\ width * c <= range + width - 1
                       /\ range + width - 1 < width * c + width
  BY Quotient DEF CeilDiv
<1>2. c > 0
  <2>1. width * 0 < width * c  BY <1>1
  <2> QED  BY <1>1, <2>1, ProductGrows
<1>3. width * ((c - 1) + 1) = width * (c - 1) + width  BY <1>1, ProductGrows
<1> QED  BY <1>1, <1>2, <1>3

\* However a double that does not fit is cast, the result is a word, and one
\* that fits is kept.
LEMMA CastIs ==
    ASSUME NEW how, NEW v
    PROVE  Cast(how, v) \in 0..Word - 1 /\ (v \in 0..Word - 1 => Cast(how, v) = v)
<1>1. PICK word \in Nat : word = Word /\ word > 0  BY WordAssumption
<1>2. CASE v \in 0..Word - 1  BY <1>2 DEF Cast
<1>3. CASE v \notin 0..Word - 1
  <2>1. v \in Int => v % word \in 0..word - 1  BY <1>1
  <2>2. word - 1 \in 0..word - 1 /\ 0 \in 0..word - 1  BY <1>1
  <2> QED  BY <1>1, <1>3, <2>1, <2>2 DEF Cast
<1> QED  BY <1>2, <1>3

LEMMA CountIs ==
    ASSUME NEW how, NEW range, NEW width
    PROVE  /\ HowMany(how, range, width) \in Nat /\ HowMany(how, range, width) > 0
           /\ Ceil(range, width) \in 1..Word - 1 => HowMany(how, range, width) = Ceil(range, width)
<1>1. PICK word \in Nat : word = Word /\ word > 0  BY WordAssumption
<1>2. PICK c \in 0..word - 1 : /\ c = Cast(how, Ceil(range, width))
                               /\ Ceil(range, width) \in 0..Word - 1 => c = Ceil(range, width)
  BY <1>1, CastIs
<1>3. HowMany(how, range, width) = IF c = 0 THEN 1 ELSE c  BY <1>2 DEF HowMany
<1>4. Ceil(range, width) \in 1..word - 1 => Ceil(range, width) \in 0..word - 1 /\ Ceil(range, width) # 0
  OBVIOUS
<1> QED  BY <1>1, <1>2, <1>3, <1>4

\* No row is without a bucket, whatever its axis value and the range are.
LEMMA BucketInRange ==
    ASSUME NEW how, NEW axis, NEW start, NEW end, NEW width, NEW count \in Nat, count > 0
    PROVE  BucketOf(how, axis, start, end, width, count) \in 0..count - 1
<1>1. PICK word \in Nat : word = Word /\ word > 0  BY WordAssumption
<1>2. PICK b \in 0..word - 1 : b = Cast(how, Floor(Minus(axis, start), width))  BY <1>1, CastIs
<1>3. BucketOf(how, axis, start, end, width, count)
        = IF (axis = end /\ axis # NaN) \/ b >= count THEN count - 1 ELSE b
  BY <1>2 DEF BucketOf
<1>4. count - 1 \in 0..count - 1 /\ (~(b >= count) => b \in 0..count - 1)  OBVIOUS
<1> QED  BY <1>3, <1>4

\* The bucket that the resampling compiler puts a row into is the one whose
\* interval of the axis holds it, when the range is finite and its buckets can
\* be counted: no value of the range is in two of them or in none, the
\* intervals are never empty, and the last takes the end.
THEOREM RowsHaveOneBucket ==
    ASSUME NEW start \in Int, NEW end \in Int, start < end, NEW width \in Nat, width > 0,
           CeilDiv(end - start, width) < Word, NEW how, NEW axis \in start..end
    PROVE  LET count == HowMany(how, Minus(end, start), width)
               first(i) == start + (i - 1) * width
               last(i) == IF i = count THEN end ELSE start + i * width
           IN /\ \A i \in 1..count : first(i) < last(i)
              /\ BucketOf(how, axis, start, end, width, count) + 1 \in 1..count
              /\ \A i \in 1..count :
                    BucketOf(how, axis, start, end, width, count) + 1 = i
                        <=> \/ first(i) <= axis /\ axis < last(i)
                            \/ i = count /\ axis = end
<1> DEFINE count == HowMany(how, Minus(end, start), width)
           b == BucketOf(how, axis, start, end, width, count)
           first(i) == start + (i - 1) * width
           last(i) == IF i = count THEN end ELSE start + i * width
<1>1. PICK c \in Nat : /\ c = count /\ c > 0 /\ c < Word
                       /\ width * (c - 1) < end - start /\ end - start <= width * c
  <2>1. PICK range \in Nat : range = end - start /\ range > 0  OBVIOUS
  <2>2. PICK c \in Nat : /\ c = CeilDiv(range, width) /\ c > 0 /\ c < Word
                         /\ width * (c - 1) < range /\ range <= width * c
    BY <2>1, Buckets
  <2>3. Minus(end, start) = range  BY <2>1, FiniteDoubles
  <2>4. Ceil(range, width) = c  BY <2>2 DEF Ceil
  <2>5. c \in 1..Word - 1  BY <2>2, WordAssumption
  <2>6. count = c  BY <2>3, <2>4, <2>5, CountIs
  <2> QED  BY <2>1, <2>2, <2>6
<1>2. PICK q \in Int : /\ q = (axis - start) \div width /\ width * q <= axis - start
                       /\ axis - start < width * (q + 1)
  <2>1. PICK q \in Int : /\ q = (axis - start) \div width /\ width * q <= axis - start
                         /\ axis - start < width * q + width
    BY Quotient
  <2> QED  BY <2>1, ProductGrows
<1>3. 0 <= q
  <2>1. width * 0 < width * (q + 1)  BY <1>2
  <2>2. 0 < q + 1  BY <1>2, <2>1, ProductGrows
  <2> QED  BY <1>2, <2>2
<1>4. axis < end => q < c
  <2>1. axis < end => width * q < width * c  BY <1>1, <1>2
  <2> QED  BY <1>1, <1>2, <2>1, ProductGrows
<1>5. PICK p \in Int : p = b /\ p = IF axis = end THEN c - 1 ELSE q
  <2>1. PICK far \in Int : far = axis - start  OBVIOUS
  <2>2. Minus(axis, start) = far /\ axis # NaN
    <3>1. axis \in Int  OBVIOUS
    <3> QED  BY <2>1, <3>1, FiniteDoubles
  <2>3. Floor(far, width) = q  BY <1>2, <2>1 DEF Floor
  <2>4. axis # end => Cast(how, q) = q /\ ~(q >= c)
    <3>1. axis # end => q < c  BY <1>4
    <3>2. axis # end => q \in 0..Word - 1  BY <1>1, <1>2, <1>3, <3>1, WordAssumption
    <3> QED  BY <1>1, <1>2, <3>1, <3>2, CastIs
  <2>5. b = IF (axis = end /\ axis # NaN) \/ Cast(how, q) >= c THEN c - 1 ELSE Cast(how, q)
    BY <1>1, <2>2, <2>3 DEF BucketOf
  <2>6. b = IF axis = end THEN c - 1 ELSE q  BY <2>2, <2>4, <2>5
  <2> QED  BY <1>1, <1>2, <2>6
<1>6. p \in 0..c - 1  BY <1>1, <1>3, <1>4, <1>5
<1>7. \A i \in 1..c : /\ first(i) \in Int /\ last(i) \in Int
                      /\ first(i) = start + width * (i - 1)
                      /\ i < c => last(i) = start + width * i
                      /\ i = c => last(i) = end
  <2> TAKE i \in 1..c
  <2>1. i - 1 \in Int /\ i \in Int /\ width * (i - 1) = (i - 1) * width /\ width * i = i * width
        /\ width * i \in Int /\ width * (i - 1) \in Int
    BY ProductGrows
  <2> QED  BY <1>1, <2>1
<1>8. \A i \in 1..c : first(i) < last(i)
  <2> TAKE i \in 1..c
  <2>1. width * ((i - 1) + 1) = width * (i - 1) + width /\ width * (i - 1) \in Int  BY ProductGrows
  <2>2. CASE i = c  BY <1>1, <1>7, <2>2
  <2>3. CASE i < c  BY <1>7, <2>1, <2>3
  <2> QED  BY <2>2, <2>3
<1>9. \A i \in 1..c : p + 1 = i <=> \/ first(i) <= axis /\ axis < last(i)
                                    \/ i = c /\ axis = end
  <2> TAKE i \in 1..c
  <2> HIDE DEF first, last
  <2>1. CASE axis = end
    <3>1. i < c => width * i <= width * (c - 1)  BY <1>1, ProductGrows
    <3>2. i < c => last(i) < end  BY <1>1, <1>7, <3>1
    <3> QED  BY <1>1, <1>5, <1>7, <2>1, <3>2
  <2>2. CASE axis < end
    <3>1. p = q /\ q < c  BY <1>4, <1>5, <2>2
    <3>2. CASE i = q + 1
      <4>1. width * q = width * (i - 1) /\ width * (q + 1) = width * i  BY <3>2
      <4> QED  BY <1>1, <1>2, <1>7, <2>2, <3>1, <3>2, <4>1
    <3>3. CASE i < q + 1
      <4>1. width * i <= width * q /\ width * i \in Int  BY <1>2, <3>3, ProductGrows
      <4> QED  BY <1>2, <1>7, <3>1, <3>3, <4>1
    <3>4. CASE i > q + 1
      <4>1. width * (q + 1) <= width * (i - 1) /\ width * (i - 1) \in Int  BY <1>2, <3>4, ProductGrows
      <4> QED  BY <1>2, <1>7, <2>2, <3>1, <3>4, <4>1
    <3> QED  BY <1>2, <3>2, <3>3, <3>4
  <2> QED  BY <2>1, <2>2
<1> HIDE DEF first, last, count, b
<1> QED  BY <1>1, <1>5, <1>6, <1>8, <1>9 DEF first, last, count, b

\* The bucket of a row is the one whose interval covers it.
HasOneBucket(how, axis, start, end, width, count) ==
    /\ BucketOf(how, axis, start, end, width, count) + 1 \in 1..count
    /\ \A i \in 1..count :
          BucketOf(how, axis, start, end, width, count) + 1 = i
             <=> \/ start + (i - 1) * width <= axis
                    /\ axis < IF i = count THEN end ELSE start + i * width
                 \/ i = count /\ axis = end

LEMMA RowBucket ==
    ASSUME NEW start \in Int, NEW end \in Int, start < end, NEW width \in Nat, width > 0,
           CeilDiv(end - start, width) < Word, NEW how, NEW axis \in start..end
    PROVE  HasOneBucket(how, axis, start, end, width, HowMany(how, Minus(end, start), width))
  BY RowsHaveOneBucket DEF HasOneBucket

\* The buckets of a summary: how many they are, and the frames that each of them
\* reports, as long as no frame label passes the width of the counter.
FramesAre(d, s, e, w, c) ==
    /\ c \in Nat /\ c > 0 /\ e - s <= w * c
    /\ e > s => w * (c - 1) < e - s
    /\ e = s => c = 1
    /\ \A i \in 1..c : /\ FirstFrame(d, i - 1) = s + w * (i - 1)
                       /\ w * (i - 1) \in Nat /\ s + w * (i - 1) <= e
    /\ \A i \in 1..c : LastFrame(d, i - 1) = IF s + w * i - 1 < e THEN s + w * i - 1 ELSE e

LEMMA FrameForms ==
    ASSUME NEW d, d.frame_start \in Nat, d.frame_end \in Nat, d.fpb \in Nat, d.fpb > 0,
           d.frame_start <= d.frame_end, d.frame_end + d.fpb < Word
    PROVE  FramesAre(d, d.frame_start, d.frame_end, d.fpb, BucketCount(d))
<1>a. PICK s, e, w \in Nat : s = d.frame_start /\ e = d.frame_end /\ w = d.fpb
  OBVIOUS
<1>b. w > 0  BY <1>a
<1>c. Word \in Nat  BY WordAssumption
<1>1. PICK c \in Nat : /\ c = BucketCount(d) /\ c > 0 /\ e - s <= w * c
                       /\ e > s => w * (c - 1) < e - s
                       /\ e = s => c = 1
  <2>1. CASE e = s
    <3>1. BucketCount(d) = 1  BY <1>a, <2>1 DEF BucketCount
    <3>2. w * 1 = w  OBVIOUS
    <3> QED  BY <1>a, <2>1, <3>1, <3>2
  <2>2. CASE e > s
    <3>1. PICK range \in Nat : range = e - s /\ range > 0  BY <2>2
    <3>2. BucketCount(d) = CeilDiv(range, w)  BY <1>a, <1>b, <3>1 DEF BucketCount
    <3> QED  BY <1>b, <2>2, <3>1, <3>2, Buckets
  <2>3. e = s \/ e > s  BY <1>a
  <2> QED  BY <2>1, <2>2, <2>3
<1>6. \A i \in 1..c : /\ FirstFrame(d, i - 1) = s + w * (i - 1)
                      /\ w * (i - 1) \in Nat /\ s + w * (i - 1) <= e
  <2> TAKE i \in 1..c
  <2>1. w * (i - 1) \in Int /\ w * (i - 1) = (i - 1) * w /\ w * 0 = 0  BY <1>b, ProductGrows
  <2>2. 0 <= w * (i - 1) /\ w * (i - 1) <= w * (c - 1)  BY <1>b, <1>1, <2>1, ProductGrows
  <2>3. s + w * (i - 1) <= e
    <3>1. CASE e = s  BY <1>1, <2>1, <3>1
    <3>2. CASE e > s  BY <1>a, <1>1, <2>1, <2>2, <3>2
    <3> QED  BY <1>a, <3>1, <3>2
  <2>4. PICK x \in Nat : x = s + w * (i - 1) /\ x < Word  BY <1>a, <1>c, <2>1, <2>2, <2>3
  <2>5. x % Word = x  BY <1>c, <2>4
  <2> QED  BY <1>a, <1>b, <2>1, <2>2, <2>3, <2>4, <2>5 DEF FirstFrame, WordAdd
<1>7. \A i \in 1..c : LastFrame(d, i - 1) = IF s + w * i - 1 < e THEN s + w * i - 1 ELSE e
  <2> TAKE i \in 1..c
  <2>1. w * i = w * (i - 1) + w /\ w * (i - 1) \in Nat /\ s + w * (i - 1) <= e
    <3>1. PICK j \in Int : j = i - 1 /\ j + 1 = i  OBVIOUS
    <3>2. w * (j + 1) = w * j + w  BY <1>b, ProductGrows
    <3>3. w * i = w * (i - 1) + w  BY <3>1, <3>2
    <3> QED  BY <1>6, <3>3
  <2>2. PICK x \in Nat : x = s + w * (i - 1) + (w - 1) /\ x < Word  BY <1>a, <1>b, <1>c, <2>1
  <2>3. x % Word = x /\ x = s + w * i - 1  BY <1>c, <2>1, <2>2
  <2>4. LastFrame(d, i - 1) = IF x < e THEN x ELSE e
    BY <1>a, <1>b, <1>6, <2>2, <2>3 DEF LastFrame, WordAdd
  <2> QED  BY <2>3, <2>4
<1> QED  BY <1>a, <1>1, <1>6, <1>7 DEF FramesAre

\* The same of the summary compiler and the first and last frames it reports
\* for a bucket, as long as no frame label passes the width of the counter.
\* The end of the range goes into the last bucket also when the frames that
\* this bucket reports stop one short of it, as they do whenever the width
\* divides the distance from the first frame to the last.
THEOREM FramesHaveOneBucket ==
    ASSUME NEW d, d.frame_start \in Nat, d.frame_end \in Nat, d.fpb \in Nat,
           d.frame_start <= d.frame_end, d.frame_end + d.fpb < Word,
           NEW frame \in d.frame_start..d.frame_end
    PROVE  /\ FrameBucket(d, frame) + 1 \in 1..BucketCount(d)
           /\ \A i \in 1..BucketCount(d) :
                 FrameBucket(d, frame) + 1 = i
                    <=> \/ frame \in FirstFrame(d, i - 1)..LastFrame(d, i - 1)
                        \/ i = BucketCount(d) /\ frame = d.frame_end
<1>1. PICK s, e, w \in Nat : s = d.frame_start /\ e = d.frame_end /\ w = d.fpb
  OBVIOUS
<1>w. Word \in Nat  BY WordAssumption
<1>2. CASE w = 0
  <2>1. BucketCount(d) = 1 /\ FrameBucket(d, frame) = 0  BY <1>1, <1>2 DEF BucketCount, FrameBucket
  <2>2. FirstFrame(d, 0) = s /\ LastFrame(d, 0) = e  BY <1>1, <1>2 DEF FirstFrame, LastFrame
  <2> QED  BY <1>1, <2>1, <2>2
<1>3. CASE w > 0
  <2>c. FramesAre(d, s, e, w, BucketCount(d))  BY <1>1, <1>3, FrameForms
  <2>0. PICK c \in Nat : c = BucketCount(d) /\ FramesAre(d, s, e, w, c)  BY <2>c DEF FramesAre
  <2>1. /\ c \in Nat /\ c = BucketCount(d) /\ c > 0 /\ e - s <= w * c
        /\ e > s => w * (c - 1) < e - s
        /\ e = s => c = 1
    BY <2>0 DEF FramesAre
  <2>2. PICK q \in Int : /\ q = (frame - s) \div w /\ w * q <= frame - s /\ frame - s < w * (q + 1)
    <3>1. PICK q \in Int : q = (frame - s) \div w /\ w * q <= frame - s /\ frame - s < w * q + w
      <4>1. PICK x \in Nat : x = frame - s  BY <1>1
      <4> QED  BY <1>3, <4>1, Quotient
    <3> QED  BY <1>3, <3>1, ProductGrows
  <2>3. 0 <= q
    <3>1. w * 0 < w * (q + 1)  BY <1>1, <2>2
    <3> QED  BY <1>3, <2>2, <3>1, ProductGrows
  <2>4. frame < e => q < c
    <3>1. frame < e => w * q < w * c  BY <1>1, <2>1, <2>2
    <3> QED  BY <1>3, <2>1, <2>2, <3>1, ProductGrows
  <2>5. FrameBucket(d, frame) = IF q < c THEN q ELSE c - 1
    BY <1>1, <1>3, <2>1, <2>2 DEF FrameBucket
  <2>6. \A i \in 1..c : /\ FirstFrame(d, i - 1) = s + w * (i - 1)
                        /\ w * (i - 1) \in Nat /\ s + w * (i - 1) <= e
    BY <2>0 DEF FramesAre
  <2>7. \A i \in 1..c : LastFrame(d, i - 1) = IF s + w * i - 1 < e THEN s + w * i - 1 ELSE e
    BY <2>0 DEF FramesAre
  <2>8. PICK p \in 0..c - 1 : p = FrameBucket(d, frame) /\ p = IF q < c THEN q ELSE c - 1
    BY <2>1, <2>2, <2>3, <2>5
  <2>9. \A i \in 1..c : p + 1 = i <=> \/ frame \in FirstFrame(d, i - 1)..LastFrame(d, i - 1)
                                      \/ i = c /\ frame = e
    <3> TAKE i \in 1..c
    <3>1. PICK first, last \in Int : /\ first = FirstFrame(d, i - 1) /\ last = LastFrame(d, i - 1)
                                     /\ first = s + w * (i - 1)
                                     /\ last = IF s + w * i - 1 < e THEN s + w * i - 1 ELSE e
      <4>1. w * i \in Int  BY <1>3, ProductGrows
      <4> QED  BY <2>6, <2>7, <4>1
    <3>2. CASE q < c /\ i = q + 1
      <4>1. w * q = w * (i - 1) /\ w * (q + 1) = w * i  BY <3>2
      <4> QED  BY <1>1, <2>2, <2>8, <3>1, <3>2, <4>1
    <3>3. CASE q < c /\ i < q + 1
      <4>1. w * i <= w * q  BY <1>3, <2>2, <3>3, ProductGrows
      <4> QED  BY <1>1, <2>2, <2>8, <3>1, <3>3, <4>1
    <3>4. CASE q < c /\ i > q + 1
      <4>1. w * (q + 1) <= w * (i - 1)  BY <1>3, <2>2, <3>4, ProductGrows
      <4>2. w * (i - 1) <= w * (c - 1)  BY <1>3, <2>1, <3>4, ProductGrows
      <4>3. frame # e
        <5>1. CASE e = s  BY <2>1, <2>3, <3>4, <5>1
        <5>2. CASE e > s  BY <1>1, <2>1, <2>2, <4>1, <4>2, <5>2
        <5> QED  BY <1>1, <5>1, <5>2
      <4> QED  BY <1>1, <2>2, <2>8, <3>1, <3>4, <4>1, <4>3
    <3>5. CASE q >= c
      <4>1. frame = e  BY <1>1, <2>4, <3>5
      <4>2. w * c <= w * q  BY <1>3, <2>1, <2>2, <3>5, ProductGrows
      <4>3. i < c => w * i + w <= w * c  BY <1>3, <2>1, ProductGrows
      <4> QED  BY <1>1, <1>3, <2>1, <2>2, <2>8, <3>1, <3>5, <4>1, <4>2, <4>3
    <3> QED  BY <2>2, <3>2, <3>3, <3>4, <3>5
  <2> QED  BY <1>1, <2>1, <2>8, <2>9
<1> QED  BY <1>1, <1>2, <1>3

\* The frames that the buckets report follow on one another, from the first of
\* the range to the last, or to the one before it.
LEMMA FrameLabels ==
    ASSUME NEW d, d.frame_start \in Nat, d.frame_end \in Nat, d.fpb \in Nat,
           d.frame_start <= d.frame_end, d.frame_end + d.fpb < Word
    PROVE  /\ FirstFrame(d, 0) = d.frame_start
           /\ \A i \in 1..BucketCount(d) - 1 : LastFrame(d, i - 1) + 1 = FirstFrame(d, i)
           /\ LastFrame(d, BucketCount(d) - 1) \in {d.frame_end - 1, d.frame_end}
<1>1. PICK s, e, w \in Nat : s = d.frame_start /\ e = d.frame_end /\ w = d.fpb
  OBVIOUS
<1>2. CASE w = 0
  <2>1. BucketCount(d) = 1  BY <1>1, <1>2 DEF BucketCount
  <2>2. FirstFrame(d, 0) = s /\ LastFrame(d, 0) = e  BY <1>1, <1>2 DEF FirstFrame, LastFrame
  <2> QED  BY <1>1, <2>1, <2>2
<1>3. CASE w > 0
  <2>1. PICK c : c = BucketCount(d) /\ FramesAre(d, s, e, w, c)  BY <1>1, <1>3, FrameForms
  <2>2. /\ c \in Nat /\ c > 0 /\ e - s <= w * c
        /\ e > s => w * (c - 1) < e - s
        /\ e = s => c = 1
        /\ \A i \in 1..c : FirstFrame(d, i - 1) = s + w * (i - 1)
        /\ \A i \in 1..c : LastFrame(d, i - 1) = IF s + w * i - 1 < e THEN s + w * i - 1 ELSE e
    BY <2>1 DEF FramesAre
  <2>3. FirstFrame(d, 0) = s
    <3>1. 1 \in 1..c /\ 1 - 1 = 0  BY <2>2
    <3>2. w * 0 = 0  OBVIOUS
    <3>3. FirstFrame(d, 1 - 1) = s + w * (1 - 1)  BY <2>2, <3>1, Zenon
    <3> QED  BY <3>1, <3>2, <3>3
  <2>4. ASSUME NEW i \in 1..c - 1 PROVE LastFrame(d, i - 1) + 1 = FirstFrame(d, i)
    <3>1. i \in 1..c /\ i + 1 \in 1..c /\ (i + 1) - 1 = i /\ e > s  BY <1>1, <2>2
    <3>2. w * i <= w * (c - 1) /\ w * i \in Int  BY <1>3, <2>2, ProductGrows
    <3>3. s + w * i - 1 < e  BY <2>2, <3>1, <3>2
    <3>4. LastFrame(d, i - 1) = s + w * i - 1  BY <2>2, <3>1, <3>3
    <3>5. FirstFrame(d, i) = s + w * i  BY <2>2, <3>1
    <3> QED  BY <3>2, <3>4, <3>5
  <2>5. LastFrame(d, c - 1) \in {e - 1, e}
    <3>1. c \in 1..c /\ w * c \in Int  BY <1>3, <2>2, ProductGrows
    <3> QED  BY <2>2, <3>1
  <2> QED  BY <1>1, <2>1, <2>3, <2>4, <2>5
<1> QED  BY <1>1, <1>2, <1>3

-----------------------------------------------------------------------------
(* The debug sphere *)

\* The debug sphere has as many splats as asked for, evenly from pole to pole,
\* and the bounds it states hold each of them with all of its extent.
THEOREM SphereIsDescribed ==
    ASSUME NEW d, d.count \in Nat, d.radius \in Nat, d.splat_scale \in Nat, SphereAccepted(d)
    PROVE  SphereDescribes(d, SphereCloud(d))
<1>1. PICK n, r, s \in Nat : n = d.count /\ r = d.radius /\ s = d.splat_scale
                             /\ n > 0 /\ r > 0 /\ s > 0
  BY DEF SphereAccepted
<1>2. PICK u \in Nat : u = HeightUnits(d) /\ u > 0 /\ (n > 1 => u = n - 1) /\ (n = 1 => u = 1)
  BY <1>1 DEF HeightUnits
<1>3. PICK cloud : cloud = SphereCloud(d)  OBVIOUS
<1>4. /\ cloud.splats = [i \in 1..n |-> [height |-> r * (u - 2 * (i - 1)), scale |-> s,
                                         opacity |-> DefaultOpacity]]
      /\ cloud.ranges.max[2] = r + s /\ cloud.ranges.min[2] = -(r + s)
  BY <1>1, <1>2, <1>3 DEF SphereCloud
<1>5. Len(cloud.splats) = n  BY <1>1, <1>4
<1>6. \A i \in 1..n : cloud.splats[i].height = r * (u - 2 * (i - 1))  BY <1>4
<1>7. cloud.splats[1].height = r * u
  <2>1. u - 2 * (1 - 1) = u  BY <1>2
  <2> QED  BY <1>1, <1>6, <2>1
<1>8. n > 1 => cloud.splats[n].height = -r * u
  <2>1. n > 1 => u - 2 * (n - 1) = 0 - u  BY <1>1, <1>2
  <2>2. r * (0 - u) = 0 - r * u /\ r * u \in Int  BY ProductsAdd
  <2> QED  BY <1>1, <1>6, <2>1, <2>2
<1>9. \A i \in 1..n :
        /\ cloud.splats[i].height + s * u <= (r + s) * u
        /\ cloud.splats[i].height - s * u >= (-(r + s)) * u
  <2> TAKE i \in 1..n
  <2>1. PICK h \in Int : h = u - 2 * (i - 1) /\ h <= u /\ 0 - u <= h  BY <1>1, <1>2
  <2>2. r * h <= r * u /\ r * (0 - u) <= r * h  BY <1>1, <1>2, <2>1, ProductGrows
  <2>3. r * h \in Int /\ r * u \in Int /\ s * u \in Int /\ r * (0 - u) = 0 - r * u
        /\ (r + s) * u = r * u + s * u
    BY <2>1, ProductsAdd
  <2>4. (-(r + s)) * u = 0 - (r + s) * u
    <3>1. PICK x \in Int : x = r + s  OBVIOUS
    <3> QED  BY <3>1, ProductsAdd
  <2>5. cloud.splats[i].height = r * h  BY <1>6, <2>1
  <2> QED  BY <2>2, <2>3, <2>4, <2>5
<1>10. \A i \in 1..n : i < n - 1 =>
         cloud.splats[i].height - cloud.splats[i + 1].height
            = cloud.splats[i + 1].height - cloud.splats[i + 2].height
  <2> TAKE i \in 1..n
  <2> HAVE i < n - 1
  <2>1. PICK h \in Int : h = u - 2 * (i - 1) /\ h - 2 = u - 2 * ((i + 1) - 1)
                         /\ h - 4 = u - 2 * ((i + 2) - 1)
    BY <1>2
  <2>2. r * (h - 2) = r * h - r * 2 /\ r * (h - 4) = r * h - r * 4 /\ r * h \in Int
    BY <2>1, ProductsAdd
  <2>3. i + 1 \in 1..n /\ i + 2 \in 1..n  BY <1>1
  <2>4. /\ cloud.splats[i].height = r * h /\ cloud.splats[i + 1].height = r * (h - 2)
        /\ cloud.splats[i + 2].height = r * (h - 4)
    BY <1>6, <2>1, <2>3
  <2>5. r * 4 = r * 2 + r * 2  BY <1>1
  <2>6. r * 2 \in Int  BY <1>1
  <2> QED  BY <2>2, <2>4, <2>5, <2>6
<1>11. d.count = n /\ d.radius = r /\ d.splat_scale = s /\ HeightUnits(d) = u
  BY <1>1, <1>2
<1> QED
  BY <1>3, <1>4, <1>5, <1>7, <1>8, <1>9, <1>10, <1>11 DEF SphereDescribes

-----------------------------------------------------------------------------
(* Least and greatest, numbers and texts *)

LEMMA LeastGreatest ==
    ASSUME NEW lo \in Int, NEW hi \in Int, NEW S \in SUBSET (lo..hi), S # {}
    PROVE  /\ Least(S) \in S /\ \A y \in S : Least(S) <= y
           /\ Greatest(S) \in S /\ \A y \in S : y <= Greatest(S)
<1>1. PICK n \in Nat : n = hi - lo + 1
  <2>1. hi - lo + 1 \in Nat
    <3>1. PICK x : x \in S  OBVIOUS
    <3> QED  BY <3>1
  <2> QED  BY <2>1
<1>2. PICK up, down : up = {x - lo + 1 : x \in S} /\ down = {hi - x + 1 : x \in S}  OBVIOUS
<1>3. up \in SUBSET (1..n) /\ up # {} /\ down \in SUBSET (1..n) /\ down # {}
  <2>1. \A x \in S : x \in Int /\ x - lo + 1 \in 1..n /\ hi - x + 1 \in 1..n  BY <1>1
  <2>2. up \subseteq 1..n /\ down \subseteq 1..n  BY <1>2, <2>1
  <2>3. up # {} /\ down # {}  BY <1>2
  <2> QED  BY <2>2, <2>3
<1>4. \E x \in S : \A y \in S : y <= x
  <2>1. PICK m : m \in up /\ \A x \in up : x <= m  BY <1>1, <1>3, MaxUpTo
  <2>2. PICK x \in S : m = x - lo + 1  BY <1>2, <2>1
  <2>3. \A y \in S : y - lo + 1 \in up  BY <1>2
  <2>4. \A y \in S : y <= x  BY <2>1, <2>2, <2>3
  <2> QED  BY <2>4
<1>5. \E x \in S : \A y \in S : x <= y
  <2>1. PICK m : m \in down /\ \A x \in down : x <= m  BY <1>1, <1>3, MaxUpTo
  <2>2. PICK x \in S : m = hi - x + 1  BY <1>2, <2>1
  <2>3. \A y \in S : hi - y + 1 \in down  BY <1>2
  <2>4. \A y \in S : x <= y  BY <2>1, <2>2, <2>3
  <2> QED  BY <2>4
<1> QED  BY <1>4, <1>5 DEF Least, Greatest

\* The doubles, and those of them that a text may hold.
Doubles == Int \cup {NaN, PosInf, NegInf}
TextDoubles == (-(MaxNumber * PerOne)..MaxNumber * PerOne) \cup {NaN, PosInf, NegInf}

\* A cell that holds a number holds one of the numbers there are.
LEMMA NumberRead ==
    ASSUME NEW cell, IsNumber(cell)
    PROVE  NumberIn(cell) \in TextDoubles /\ NumberIn(cell) \in Doubles
<1>1. PICK c : c = cell[1] /\ c \in Numerals \cup DOMAIN DoubleOf  BY DEF IsNumber
<1>2. PICK top, one \in Nat : top = MaxNumber /\ one = PerOne /\ one > 0  BY NumberAssumption
<1>3. PICK limit \in Nat : limit = top * one /\ limit = one * top /\ top <= limit /\ one * (-top) = -limit
  <2>1. top * one \in Nat /\ top * one = one * top /\ top <= top * one /\ one * (-top) = -(top * one)
    BY <1>2, SMTT(30)
  <2> QED  BY <2>1
<1>4. CASE c \in Numerals
  <2>1. \E n \in -MaxNumber..MaxNumber : ToString(n) = c  BY <1>4 DEF Numerals
  <2>2. PICK n \in (-top)..top : n = WholeOf[c]  BY <1>2, <1>4, <2>1 DEF WholeOf
  <2>3. one * n \in Int /\ one * (-top) <= one * n /\ one * n <= one * top
    BY <1>2, <2>2, ProductGrows
  <2>4. NumberIn(cell) = one * n  BY <1>1, <1>2, <1>4, <2>2 DEF NumberIn
  <2>5. one * n \in (-limit)..limit  BY <1>3, <2>3
  <2> QED  BY <1>2, <1>3, <2>4, <2>5 DEF TextDoubles, Doubles
<1>5. CASE c \notin Numerals
  <2>1. PICK w \in Numbers : Spelled(w) = c  BY <1>1, <1>5 DEF DoubleOf
  <2>2. PICK v \in Numbers : v = DoubleOf[c]  BY <1>1, <1>5, <2>1, Zenon DEF DoubleOf
  <2>3. NumberIn(cell) = v  BY <1>1, <1>5, <2>2 DEF NumberIn
  <2>4. v \in (-top)..top \cup {NaN, PosInf, NegInf}  BY <1>2, <2>2 DEF Numbers
  <2>5. v \in (-limit)..limit \cup {NaN, PosInf, NegInf}  BY <1>3, <2>4
  <2> QED  BY <1>2, <1>3, <2>3, <2>5 DEF TextDoubles, Doubles
<1> QED  BY <1>4, <1>5

LEMMA SequenceIs ==
    ASSUME NEW S, NEW s \in Seq(S)
    PROVE  IsSequence(s) /\ Range(s) \subseteq S /\ DOMAIN s = 1..Len(s) /\ Len(s) \in Nat
<1>1. DOMAIN s = 1..Len(s) /\ Len(s) \in Nat  OBVIOUS
<1>2. \A i \in 1..Len(s) : s[i] \in S /\ s[i] \in Range(s)  BY <1>1 DEF Range
<1>3. s \in Seq(Range(s))
  <2>1. s = [i \in 1..Len(s) |-> s[i]]  BY <1>1
  <2>2. s \in [1..Len(s) -> Range(s)]  BY <1>2, <2>1
  <2> QED  BY <1>1, <2>2
<1> QED  BY <1>1, <1>2, <1>3 DEF IsSequence, Range

LEMMA ListIs ==
    ASSUME NEW n \in Nat, NEW s, s = [i \in 1..n |-> s[i]]
    PROVE  IsSequence(s) /\ Len(s) = n /\ s \in Seq(Range(s)) /\ Range(s) = {s[i] : i \in 1..n}
<1>1. DOMAIN s = 1..n  BY Zenon
<1>2. Range(s) = {s[i] : i \in 1..n}  BY <1>1 DEF Range
<1>3. s \in [1..n -> Range(s)]  BY <1>2
<1>4. s \in Seq(Range(s))  BY <1>3
<1> QED  BY <1>1, <1>2, <1>4 DEF IsSequence

\* A row of texts: some first, and those of each metric after them.
LEMMA TextsJoin ==
    ASSUME NEW head, IsTexts(head), NEW n \in Nat, NEW pieces, pieces = [m \in 1..n |-> pieces[m]],
           \A m \in 1..n : IsTexts(pieces[m])
    PROVE  IsTexts(head \o FlattenSeq(pieces))
<1>1. PICK X : X = Range(head) \cup UNION {Range(pieces[m]) : m \in 1..n}  OBVIOUS
<1>2. \A x \in X : IsSequence(x)  BY <1>1 DEF IsTexts
<1>3. head \in Seq(X)
  <2>1. head \in Seq(Range(head)) /\ Range(head) \subseteq X  BY <1>1 DEF IsTexts, IsSequence
  <2> QED  BY <2>1
<1>4. \A m \in 1..n : pieces[m] \in Seq(X)
  <2> TAKE m \in 1..n
  <2>1. pieces[m] \in Seq(Range(pieces[m])) /\ Range(pieces[m]) \subseteq X  BY <1>1 DEF IsTexts, IsSequence
  <2> QED  BY <2>1
<1>5. pieces \in Seq(Seq(X)) /\ Len(pieces) = n
  <2>1. pieces \in [1..n -> Seq(X)]  BY <1>4
  <2>2. pieces \in Seq(Seq(X))  BY <2>1
  <2> QED  BY <2>2, ListIs
<1>6. PICK r \in [0..n -> Seq(X)] : FlattenSeq(pieces) = r[n]
  BY <1>5, Flattened
<1>7. FlattenSeq(pieces) \in Seq(X)  BY <1>6
<1>8. PICK row \in Seq(X) : row = head \o FlattenSeq(pieces)
  <2>1. PICK flat \in Seq(X) : flat = FlattenSeq(pieces)  BY <1>7
  <2>2. head \o flat \in Seq(X)  BY <1>3, <2>1
  <2> QED  BY <2>1, <2>2
<1>9. IsSequence(row) /\ Range(row) \subseteq X  BY <1>8, SequenceIs
<1> QED  BY <1>2, <1>8, <1>9 DEF IsTexts

LEMMA ShownIs ==
    \A n : IsSequence(Shown(n)) /\ IsSequence(Named(n)) /\ IsSequence(ShownReal(n)) /\ IsSequence(ShownShort(n))
<1>1. \A x : IsSequence(<<x>>)
  <2> TAKE x
  <2>1. <<x>> \in Seq({x})  OBVIOUS
  <2> QED  BY <2>1, SequenceIs
<1>2. \A n : IsSequence(Shown(n)) /\ IsSequence(Named(n)) /\ IsSequence(ShownReal(n))
  BY <1>1 DEF Shown, Named, ShownReal
<1> QED  BY <1>2, Zenon DEF ShownShort

\* The columns of a view: one of each kind for each metric.
LEMMA ColumnsJoin ==
    ASSUME NEW head, IsTexts(head), NEW metrics, IsTexts(metrics),
           NEW suffixes, IsSequence(suffixes)
    PROVE  IsTexts(head \o MetricColumns(metrics, suffixes))
<1>1. PICK n, k \in Nat : /\ n = Len(metrics) /\ DOMAIN metrics = 1..n
                          /\ k = Len(suffixes) /\ DOMAIN suffixes = 1..k
  BY SequenceIs DEF IsTexts, IsSequence
<1>2. PICK pieces : pieces = [m \in 1..n |-> [i \in 1..k |-> Append(metrics[m], suffixes[i])]]
  OBVIOUS
<1>3. ASSUME NEW m \in 1..n PROVE IsTexts(pieces[m])
  <2>1. PICK p : p = [i \in 1..k |-> Append(metrics[m], suffixes[i])] /\ p = pieces[m]  BY <1>2
  <2>2. IsSequence(p) /\ Range(p) = {p[i] : i \in 1..k}
    <3>1. p = [i \in 1..k |-> p[i]]  BY <2>1
    <3> QED  BY <1>1, <3>1, ListIs
  <2>3. ASSUME NEW i \in 1..k PROVE IsSequence(p[i])
    <3>1. metrics[m] \in Range(metrics)  BY <1>1 DEF Range
    <3>2. PICK s, S : s = metrics[m] /\ S = Range(s) \cup {suffixes[i]} /\ s \in Seq(S)
      <4>1. metrics[m] \in Seq(Range(metrics[m]))  BY <3>1 DEF IsTexts, IsSequence
      <4>2. metrics[m] \in Seq(Range(metrics[m]) \cup {suffixes[i]})  BY <4>1
      <4> QED  BY <4>2
    <3>3. Append(s, suffixes[i]) \in Seq(S)  BY <3>2
    <3>4. p[i] = Append(s, suffixes[i])  BY <2>1, <3>2
    <3> QED  BY <3>3, <3>4, SequenceIs
  <2>4. \A x \in Range(p) : IsSequence(x)  BY <2>2, <2>3
  <2> QED  BY <2>1, <2>2, <2>4 DEF IsTexts
<1>4. pieces = [m \in 1..n |-> pieces[m]]  BY <1>2
<1>5. MetricColumns(metrics, suffixes) = FlattenSeq(pieces)  BY <1>1, <1>2 DEF MetricColumns
<1> QED  BY <1>1, <1>3, <1>4, <1>5, TextsJoin

LEMMA FourTexts ==
    ASSUME NEW a, NEW b, NEW c, NEW d, IsSequence(a), IsSequence(b), IsSequence(c), IsSequence(d)
    PROVE  IsTexts(<<a, b, c, d>>)
<1>1. PICK S : S = {a, b, c, d}  OBVIOUS
<1>2. <<a, b, c, d>> \in Seq(S)  BY <1>1
<1>3. IsSequence(<<a, b, c, d>>) /\ Range(<<a, b, c, d>>) \subseteq S  BY <1>2, SequenceIs
<1> QED  BY <1>1, <1>3 DEF IsTexts

LEMMA SevenAre ==
    ASSUME NEW a, NEW b, NEW c, NEW d, NEW e, NEW f, NEW g
    PROVE  IsSequence(<<a, b, c, d, e, f, g>>)
           /\ Range(<<a, b, c, d, e, f, g>>) \subseteq {a, b, c, d, e, f, g}
<1>1. PICK S : S = {a, b, c, d, e, f, g}  OBVIOUS
<1>2. PICK s \in Seq(S) : s = <<a, b, c, d, e, f, g>>
  <2>1. <<a, b, c, d, e, f, g>> \in Seq(S)  BY <1>1
  <2> QED  BY <2>1, Zenon
<1>3. IsSequence(s) /\ Range(s) \subseteq S  BY <1>2, SequenceIs
<1> QED  BY <1>1, <1>2, <1>3

LEMMA SevenTexts ==
    ASSUME NEW a, IsSequence(a), NEW b, IsSequence(b), NEW c, IsSequence(c),
           NEW d, IsSequence(d), NEW e, IsSequence(e), NEW f, IsSequence(f),
           NEW g, IsSequence(g)
    PROVE  IsTexts(<<a, b, c, d, e, f, g>>)
<1>1. PICK s, S : s = <<a, b, c, d, e, f, g>> /\ S = {a, b, c, d, e, f, g}  OBVIOUS
<1>2. IsSequence(s) /\ Range(s) \subseteq S  BY <1>1, SevenAre
<1> QED  BY <1>1, <1>2 DEF IsTexts

LEMMA FourteenAre ==
    ASSUME NEW a, NEW b, NEW c, NEW d, NEW e, NEW f, NEW g, NEW h, NEW i, NEW j, NEW k, NEW l,
           NEW m, NEW n
    PROVE  IsSequence(<<a, b, c, d, e, f, g, h, i, j, k, l, m, n>>)
           /\ Range(<<a, b, c, d, e, f, g, h, i, j, k, l, m, n>>) \subseteq {a, b, c, d, e, f, g, h, i, j, k, l, m, n}
<1>1. PICK S : S = {a, b, c, d, e, f, g, h, i, j, k, l, m, n}  OBVIOUS
<1>2. PICK s \in Seq(S) : s = <<a, b, c, d, e, f, g, h, i, j, k, l, m, n>>
  <2>1. <<a, b, c, d, e, f, g, h, i, j, k, l, m, n>> \in Seq(S)  BY <1>1
  <2> QED  BY <2>1, Zenon
<1>3. IsSequence(s) /\ Range(s) \subseteq S  BY <1>2, SequenceIs
<1> QED  BY <1>1, <1>2, <1>3

LEMMA FourteenTexts ==
    ASSUME NEW a, IsSequence(a), NEW b, IsSequence(b), NEW c, IsSequence(c),
           NEW d, IsSequence(d), NEW e, IsSequence(e), NEW f, IsSequence(f),
           NEW g, IsSequence(g), NEW h, IsSequence(h), NEW i, IsSequence(i),
           NEW j, IsSequence(j), NEW k, IsSequence(k), NEW l, IsSequence(l),
           NEW m, IsSequence(m), NEW n, IsSequence(n)
    PROVE  IsTexts(<<a, b, c, d, e, f, g, h, i, j, k, l, m, n>>)
<1>1. PICK s, S : s = <<a, b, c, d, e, f, g, h, i, j, k, l, m, n>> /\ S = {a, b, c, d, e, f, g, h, i, j, k, l, m, n}  OBVIOUS
<1>2. IsSequence(s) /\ Range(s) \subseteq S  BY <1>1, FourteenAre
<1> QED  BY <1>1, <1>2 DEF IsTexts

\* Columns and rows of texts make a table.
LEMMA TextsMakeTable ==
    ASSUME NEW t, IsTexts(t.columns), NEW k \in Nat, t.rows = [i \in 1..k |-> t.rows[i]],
           \A i \in 1..k : IsTexts(t.rows[i])
    PROVE  IsTable(t)
<1>1. IsSequence(t.rows) /\ Range(t.rows) = {t.rows[i] : i \in 1..k}  BY ListIs
<1>2. \A r \in Range(t.rows) : IsTexts(r)  BY <1>1
<1> QED  BY <1>1, <1>2 DEF IsTable, IsTexts

-----------------------------------------------------------------------------
(* What resample_table() computes, part by part *)

SeriesSeen(t, d) == {r \in DOMAIN t.rows : RowFate(t, d, r) = "observed"}
SeriesAxis(t, d) == [r \in SeriesSeen(t, d) |-> NumberIn(Cell(t, r, d.axis))]
SeriesSkipped(t, d) == {r \in DOMAIN t.rows : RowFate(t, d, r) = "skipped"}
SeriesStart(t, d) == IF d.use_range THEN d.start ELSE Lowest(SeriesSeen(t, d), SeriesAxis(t, d))
SeriesWanted(t, d) == IF d.use_range THEN d.end ELSE Highest(SeriesSeen(t, d), SeriesAxis(t, d))
SeriesEnd(t, d) ==
    IF AtMost(SeriesWanted(t, d), SeriesStart(t, d)) THEN Plus(SeriesStart(t, d), d.width)
    ELSE SeriesWanted(t, d)
SeriesCount(t, d, how) == HowMany(how, Minus(SeriesEnd(t, d), SeriesStart(t, d)), d.width)
SeriesPlace(t, d, how, r) ==
    BucketOf(how, SeriesAxis(t, d)[r], SeriesStart(t, d), SeriesEnd(t, d), d.width, SeriesCount(t, d, how))
SeriesMembers(t, d, how, b) ==
    {r \in SeriesSeen(t, d) : /\ ~Less(SeriesAxis(t, d)[r], SeriesStart(t, d))
                              /\ ~Less(SeriesEnd(t, d), SeriesAxis(t, d)[r])
                              /\ SeriesPlace(t, d, how, r) = b}
SeriesStats(t, d, how, b, m) ==
    SampleStats(SeriesMembers(t, d, how, b), [r \in SeriesMembers(t, d, how, b) |-> NumberIn(Cell(t, r, m))],
                SeriesAxis(t, d))
SeriesBucket(t, d, how, b) ==
    [start |-> Plus(SeriesStart(t, d), b * d.width),
     end |-> IF b + 1 = SeriesCount(t, d, how) THEN SeriesEnd(t, d)
             ELSE Plus(SeriesStart(t, d), (b + 1) * d.width),
     source_row_count |-> Cardinality(SeriesMembers(t, d, how, b)),
     metrics |-> [m \in DOMAIN d.metrics |-> SeriesStats(t, d, how, b, d.metrics[m])]]

LEMMA ResampleIs ==
    ASSUME NEW t, NEW d, NEW how
    PROVE  /\ SeriesSeen(t, d) = {} =>
                Resample(t, d, how) = [NoSeries EXCEPT !.skipped = Cardinality(SeriesSkipped(t, d))]
           /\ SeriesSeen(t, d) # {} =>
                Resample(t, d, how) =
                  [source_start |-> SeriesStart(t, d), source_end |-> SeriesEnd(t, d),
                   parsed |-> Cardinality(SeriesSeen(t, d)),
                   skipped |-> Cardinality(SeriesSkipped(t, d)),
                   buckets |-> [i \in 1..SeriesCount(t, d, how) |-> SeriesBucket(t, d, how, i - 1)]]
  BY Zenon DEF Resample, SeriesSeen, SeriesSkipped, SeriesAxis, SeriesStart, SeriesWanted, SeriesEnd,
     SeriesCount, SeriesPlace, SeriesMembers, SeriesStats, SeriesBucket

\* An observed row has a number on the axis, not outside the range that is used,
\* and a number for each metric.
LEMMA ObservedRow ==
    ASSUME NEW t, NEW d, NEW r, RowFate(t, d, r) = "observed"
    PROVE  /\ IsNumber(Cell(t, r, d.axis))
           /\ d.use_range => /\ ~Less(NumberIn(Cell(t, r, d.axis)), d.start)
                             /\ ~Less(d.end, NumberIn(Cell(t, r, d.axis)))
           /\ \A m \in DOMAIN d.metrics : IsNumber(Cell(t, r, d.metrics[m]))
  BY DEF RowFate

\* What is less than a double: nothing than -inf, and a NaN is not compared.
LEMMA Comparisons ==
    ASSUME NEW a \in Doubles
    PROVE  /\ ~Less(a, NegInf) /\ ~Less(PosInf, a) /\ ~Less(NaN, a) /\ ~Less(a, NaN)
           /\ a \in Int => ~Less(a, a) /\ Less(a, PosInf) /\ Less(NegInf, a)
           /\ a \notin Int => ~Less(a, a)
           /\ AtMost(a, a) <=> a # NaN
  BY NumberAssumption DEF Doubles, Less, AtMost

\* Of the axis values that are numbers there is a least and a greatest.
LEMMA ExtremesKnown ==
    ASSUME NEW known \in SUBSET (TextDoubles \ {NaN}), known # {}
    PROVE  /\ \E v \in known : \A u \in known : ~Less(u, v)
           /\ \E v \in known : \A u \in known : ~Less(v, u)
<1>1. PICK limit \in Nat : limit = MaxNumber * PerOne
  <2>1. PICK top, one \in Nat : top = MaxNumber /\ one = PerOne  BY NumberAssumption
  <2>2. top * one \in Nat  BY <2>1, SMTT(30)
  <2> QED  BY <2>1, <2>2
<1>2. PICK finite : finite = known \cap Int  OBVIOUS
<1>3. finite \subseteq (-limit)..limit  BY <1>1, <1>2, NumberAssumption DEF TextDoubles
<1>4. \A u \in known : u \in finite \/ u = PosInf \/ u = NegInf
  BY <1>2 DEF TextDoubles
<1>5. \A u \in known : u \in Doubles  BY <1>2, <1>4 DEF Doubles
<1>6. CASE finite # {}
  <2>1. PICK bottom, top \in Int : bottom = -limit /\ top = limit  OBVIOUS
  <2>2. finite \in SUBSET (bottom..top)  BY <1>3, <2>1
  <2>3. PICK lo, hi : lo = Least(finite) /\ hi = Greatest(finite)  OBVIOUS
  <2>4. /\ Least(finite) \in finite /\ \A y \in finite : Least(finite) <= y
        /\ Greatest(finite) \in finite /\ \A y \in finite : y <= Greatest(finite)
    BY <1>6, <2>1, <2>2, LeastGreatest, Zenon
  <2>5. lo \in finite /\ hi \in finite /\ \A y \in finite : lo <= y /\ y <= hi  BY <2>3, <2>4
  <2>6. lo \in Int /\ hi \in Int /\ lo \in known /\ hi \in known  BY <1>2, <2>5
  <2>7. \A y \in finite : ~Less(y, lo) /\ ~Less(hi, y)
    <3> TAKE y \in finite
    <3>1. y \in Int /\ lo <= y /\ y <= hi  BY <1>2, <2>5
    <3> QED  BY <2>6, <3>1, FiniteDoubles
  <2>8. lo \in Doubles /\ hi \in Doubles  BY <1>5, <2>6
  <2>9. \E v \in known : \A u \in known : ~Less(u, v)
    <3>1. CASE NegInf \in known  BY <1>5, <3>1, Comparisons
    <3>2. CASE NegInf \notin known
      <4>1. \A u \in known : ~Less(u, lo)  BY <1>4, <2>7, <2>8, <3>2, Comparisons
      <4> QED  BY <2>6, <4>1
    <3> QED  BY <3>1, <3>2
  <2>10. \E v \in known : \A u \in known : ~Less(v, u)
    <3>1. CASE PosInf \in known  BY <1>5, <3>1, Comparisons
    <3>2. CASE PosInf \notin known
      <4>1. \A u \in known : ~Less(hi, u)  BY <1>4, <2>7, <2>8, <3>2, Comparisons
      <4> QED  BY <2>6, <4>1
    <3> QED  BY <3>1, <3>2
  <2> QED  BY <2>9, <2>10
<1>7. CASE finite = {}
  <2>1. \A u \in known : u = PosInf \/ u = NegInf  BY <1>4, <1>7
  <2>2. PosInf \in Doubles /\ NegInf \in Doubles  BY DEF Doubles
  <2>3. ~Less(PosInf, PosInf) /\ ~Less(NegInf, NegInf) /\ ~Less(PosInf, NegInf)  BY <2>2, Comparisons
  <2>4. \E v \in known : \A u \in known : ~Less(u, v)
    <3>1. CASE NegInf \in known  BY <2>1, <2>3, <3>1
    <3>2. CASE NegInf \notin known  BY <2>1, <2>3, <3>2
    <3> QED  BY <3>1, <3>2
  <2>5. \E v \in known : \A u \in known : ~Less(v, u)
    <3>1. CASE PosInf \in known  BY <2>1, <2>3, <3>1
    <3>2. CASE PosInf \notin known  BY <2>1, <2>3, <3>2
    <3> QED  BY <3>1, <3>2
  <2> QED  BY <2>4, <2>5
<1> QED  BY <1>6, <1>7

LEMMA RangeFound ==
    ASSUME NEW n \in Nat, NEW S \in SUBSET (1..n), S # {}, NEW x, \A r \in S : x[r] \in TextDoubles
    PROVE  /\ Lowest(S, x) \in Doubles /\ \A r \in S : ~Less(x[r], Lowest(S, x))
           /\ Highest(S, x) \in Doubles /\ \A r \in S : ~Less(Highest(S, x), x[r])
<1> DEFINE known == {x[r] : r \in S} \ {NaN}
           first == x[Least(S)]
<1>6. /\ Lowest(S, x) = IF first = NaN THEN NaN ELSE CHOOSE v \in known : \A u \in known : ~Less(u, v)
      /\ Highest(S, x) = IF first = NaN THEN NaN ELSE CHOOSE v \in known : \A u \in known : ~Less(v, u)
  BY Zenon DEF Lowest, Highest, Extreme
<1>1. known = {x[r] : r \in S} \ {NaN}  OBVIOUS
<1>2. first = x[Least(S)]  OBVIOUS
<1> HIDE DEF known, first
<1>3. \A u : u \in TextDoubles => u \in Doubles
  <2>1. PICK limit \in Nat : limit = MaxNumber * PerOne
    <3>1. PICK top, one \in Nat : top = MaxNumber /\ one = PerOne  BY NumberAssumption
    <3>2. top * one \in Nat  BY <3>1, SMTT(30)
    <3> QED  BY <3>1, <3>2
  <2> QED  BY <2>1 DEF TextDoubles, Doubles
<1>4. \A r \in S : x[r] \in Doubles /\ (x[r] = NaN \/ x[r] \in known)  BY <1>1, <1>3
<1>5. NaN \in Doubles  BY DEF Doubles
<1>7. CASE first = NaN  BY <1>4, <1>5, <1>6, <1>7, Comparisons
<1>8. CASE first # NaN
  <2>1. Least(S) \in S
    <3>1. 1 \in Int /\ n \in Int  OBVIOUS
    <3> QED  BY <3>1, LeastGreatest
  <2>2. known \in SUBSET (TextDoubles \ {NaN}) /\ known # {}  BY <1>1, <1>2, <1>4, <1>8, <2>1
  <2>3. /\ Lowest(S, x) \in known /\ \A u \in known : ~Less(u, Lowest(S, x))
    BY <1>6, <1>8, <2>2, ExtremesKnown
  <2>4. /\ Highest(S, x) \in known /\ \A u \in known : ~Less(Highest(S, x), u)
    BY <1>6, <1>8, <2>2, ExtremesKnown
  <2>5. PICK lo, hi \in Doubles : lo = Lowest(S, x) /\ hi = Highest(S, x)
    BY <1>3, <2>2, <2>3, <2>4
  <2>6. \A r \in S : ~Less(x[r], lo) /\ ~Less(hi, x[r])
    BY <1>4, <2>3, <2>4, <2>5, Comparisons
  <2> QED  BY <2>5, <2>6
<1> QED  BY <1>7, <1>8

\* The range that is divided leaves no observed row out, and is not empty when
\* its ends are finite.
LEMMA SeriesRange ==
    ASSUME NEW t, NEW d, IsTable(t), DescAccepted(d), {d.width, d.start, d.end} \subseteq Int,
           SeriesSeen(t, d) # {}
    PROVE  /\ SeriesStart(t, d) \in Doubles /\ SeriesEnd(t, d) \in Doubles
           /\ d.width \in Nat /\ d.width > 0
           /\ SeriesStart(t, d) \in Int /\ SeriesEnd(t, d) \in Int => SeriesStart(t, d) < SeriesEnd(t, d)
           /\ \A r \in SeriesSeen(t, d) : /\ SeriesAxis(t, d)[r] \in Doubles
                                          /\ ~Less(SeriesAxis(t, d)[r], SeriesStart(t, d))
                                          /\ ~Less(SeriesEnd(t, d), SeriesAxis(t, d)[r])
<1>1. PICK seen, x : seen = SeriesSeen(t, d) /\ x = SeriesAxis(t, d)  OBVIOUS
<1>2. x = [r \in seen |-> NumberIn(Cell(t, r, d.axis))]  BY <1>1 DEF SeriesAxis
<1>3. \A r \in seen : /\ x[r] \in TextDoubles /\ x[r] \in Doubles
                      /\ d.use_range => ~Less(x[r], d.start) /\ ~Less(d.end, x[r])
  <2> TAKE r \in seen
  <2>1. RowFate(t, d, r) = "observed"  BY <1>1 DEF SeriesSeen
  <2> QED  BY <1>2, <2>1, ObservedRow, NumberRead
<1>4. PICK width, low, high \in Int : width = d.width /\ low = d.start /\ high = d.end  OBVIOUS
<1>5. width > 0 /\ (d.use_range => high > low)  BY <1>4 DEF DescAccepted
<1>6. PICK start, wanted \in Doubles :
         /\ start = SeriesStart(t, d) /\ wanted = SeriesWanted(t, d)
         /\ \A r \in seen : ~Less(x[r], start) /\ ~Less(wanted, x[r])
  <2>1. CASE d.use_range
    <3>1. SeriesStart(t, d) = low /\ SeriesWanted(t, d) = high
      BY <1>4, <2>1 DEF SeriesStart, SeriesWanted
    <3>2. \A r \in seen : ~Less(x[r], low) /\ ~Less(high, x[r])  BY <1>3, <1>4, <2>1
    <3>3. low \in Doubles /\ high \in Doubles  BY DEF Doubles
    <3> QED  BY <3>1, <3>2, <3>3
  <2>2. CASE ~d.use_range
    <3>1. PICK n \in Nat : DOMAIN t.rows = 1..n  BY SequenceIs DEF IsTable, IsSequence
    <3>2. seen \in SUBSET (1..n) /\ seen # {}  BY <1>1, <3>1 DEF SeriesSeen
    <3>3. /\ Lowest(seen, x) \in Doubles /\ \A r \in seen : ~Less(x[r], Lowest(seen, x))
          /\ Highest(seen, x) \in Doubles /\ \A r \in seen : ~Less(Highest(seen, x), x[r])
      BY <1>3, <3>2, RangeFound
    <3>4. SeriesStart(t, d) = Lowest(seen, x) /\ SeriesWanted(t, d) = Highest(seen, x)
      BY <1>1, <2>2 DEF SeriesStart, SeriesWanted
    <3> QED  BY <3>3, <3>4
  <2> QED  BY <2>1, <2>2
<1>7. SeriesEnd(t, d) = IF AtMost(wanted, start) THEN Plus(start, width) ELSE wanted
  BY <1>4, <1>6 DEF SeriesEnd
<1>8. CASE ~AtMost(wanted, start)
  <2>1. start \in Int /\ wanted \in Int => start < wanted  BY <1>8, FiniteDoubles
  <2> QED  BY <1>1, <1>3, <1>4, <1>5, <1>6, <1>7, <1>8, <2>1
<1>9. CASE AtMost(wanted, start)
  <2>1. PICK end : end = Plus(start, width) /\ end = SeriesEnd(t, d)  BY <1>7, <1>9
  <2>2. start = NaN \/ start = PosInf \/ start = NegInf \/ start \in Int  BY <1>6 DEF Doubles
  <2>3. CASE start \in Int
    <3>1. end \in Int /\ end = start + width
      <4>1. PICK sum \in Int : sum = start + width  BY <2>3
      <4>2. Plus(start, width) = sum  BY <2>3, <4>1, FiniteDoubles
      <4>3. end = sum  BY <2>1, <4>2, Zenon
      <4> QED  BY <4>1, <4>3
    <3>2. start < end  BY <1>5, <2>3, <3>1
    <3>3. ASSUME NEW r \in seen PROVE ~Less(end, x[r])
      <4>1. wanted = NegInf \/ (wanted \in Int /\ wanted <= start)
        <5>1. wanted \in Int => wanted <= start  BY <1>9, <2>3, FiniteDoubles
        <5>2. wanted # NaN /\ wanted # PosInf  BY <1>9, <2>3, NumberAssumption DEF AtMost, Less
        <5> QED  BY <1>6, <5>1, <5>2 DEF Doubles
      <4>2. SUFFICES ASSUME Less(end, x[r]) PROVE FALSE  OBVIOUS
      <4>3. x[r] = PosInf \/ (x[r] \in Int /\ end < x[r])
        BY <3>1, <4>2, NumberAssumption DEF Less
      <4>4. Less(wanted, x[r])  BY <2>3, <3>2, <3>1, <4>1, <4>3, NumberAssumption DEF Less
      <4> QED  BY <1>6, <4>4
    <3>4. end \in Doubles  BY <3>1 DEF Doubles
    <3> QED  BY <1>1, <1>3, <1>4, <1>5, <1>6, <2>1, <3>2, <3>3, <3>4
  <2>4. CASE start \notin Int
    <3>1. start # NaN  BY <1>9, NumberAssumption DEF AtMost, Less
    <3>2. end = start  BY <1>4, <2>1, <2>2, <2>4, <3>1, NumberAssumption DEF Plus
    <3>3. start = NegInf => wanted = NegInf
      BY <1>6, <1>9, NumberAssumption DEF AtMost, Less, Doubles
    <3>4. \A r \in seen : ~Less(end, x[r])
      BY <1>3, <1>6, <2>2, <2>4, <3>1, <3>2, <3>3, Comparisons
    <3> QED  BY <1>1, <1>3, <1>4, <1>5, <1>6, <2>1, <2>4, <3>2, <3>4
  <2> QED  BY <2>3, <2>4
<1> QED  BY <1>8, <1>9

\* So each observed row is in the bucket of its place, and there is one.
LEMMA SeriesPlaced ==
    ASSUME NEW t, NEW d, IsTable(t), DescAccepted(d), {d.width, d.start, d.end} \subseteq Int,
           SeriesSeen(t, d) # {}, NEW how
    PROVE  /\ SeriesCount(t, d, how) \in Nat /\ SeriesCount(t, d, how) > 0
           /\ \A r \in SeriesSeen(t, d) : SeriesPlace(t, d, how, r) \in 0..SeriesCount(t, d, how) - 1
           /\ \A b : SeriesMembers(t, d, how, b) = {r \in SeriesSeen(t, d) : SeriesPlace(t, d, how, r) = b}
<1>1. PICK count \in Nat : count = SeriesCount(t, d, how) /\ count > 0  BY CountIs DEF SeriesCount
<1>2. \A r \in SeriesSeen(t, d) : SeriesPlace(t, d, how, r) \in 0..count - 1
  BY <1>1, BucketInRange DEF SeriesPlace
<1>3. \A r \in SeriesSeen(t, d) : /\ ~Less(SeriesAxis(t, d)[r], SeriesStart(t, d))
                                  /\ ~Less(SeriesEnd(t, d), SeriesAxis(t, d)[r])
  BY SeriesRange
<1>4. \A b : SeriesMembers(t, d, how, b) = {r \in SeriesSeen(t, d) : SeriesPlace(t, d, how, r) = b}
  BY <1>3 DEF SeriesMembers
<1> QED  BY <1>1, <1>2, <1>4

\* A summary has a bucket.
LEMMA FramesCounted ==
    ASSUME NEW d, FrameDescAccepted(d), {d.frame_start, d.frame_end, d.fpb} \subseteq 0..Word - 1
    PROVE  BucketCount(d) \in Nat /\ BucketCount(d) > 0
<1>1. PICK s, e, w \in Nat : s = d.frame_start /\ e = d.frame_end /\ w = d.fpb /\ s <= e
  <2>1. Word \in Nat  BY WordAssumption
  <2>2. {d.frame_start, d.frame_end, d.fpb} \subseteq Nat  BY <2>1
  <2> QED  BY <2>2 DEF FrameDescAccepted
<1>2. CASE w = 0 \/ e = s  BY <1>1, <1>2 DEF BucketCount
<1>3. CASE w > 0 /\ e > s
  <2>1. PICK range \in Nat : range = e - s /\ range > 0  BY <1>1, <1>3
  <2>2. BucketCount(d) = CeilDiv(range, w)  BY <1>1, <1>3, <2>1 DEF BucketCount
  <2> QED  BY <1>1, <1>3, <2>1, <2>2, Buckets
<1> QED  BY <1>1, <1>2, <1>3

-----------------------------------------------------------------------------
(* The views are tables *)

LEMMA SeriesTableIsTable ==
    ASSUME NEW t, NEW d, IsTexts(d.metrics), NEW how, NEW e, IsTexts(e.metrics)
    PROVE  IsTable(SeriesTable(Resample(t, d, how), e))
<1>1. PICK s, view : s = Resample(t, d, how) /\ view = SeriesTable(s, e)  OBVIOUS
<1>2. PICK n \in Nat : DOMAIN d.metrics = 1..n
  BY SequenceIs DEF IsTexts, IsSequence
<1>3. PICK k \in Nat : /\ DOMAIN s.buckets = 1..k
                       /\ \A i \in 1..k : DOMAIN s.buckets[i].metrics = 1..n
  <2>1. CASE SeriesSeen(t, d) = {}
    <3>1. s.buckets = <<>>  BY <1>1, <2>1, ResampleIs DEF NoSeries
    <3> QED  BY <3>1
  <2>2. CASE SeriesSeen(t, d) # {}
    <3>1. s.buckets = [i \in 1..SeriesCount(t, d, how) |-> SeriesBucket(t, d, how, i - 1)]
      <4>1. PICK all : all = [i \in 1..SeriesCount(t, d, how) |-> SeriesBucket(t, d, how, i - 1)]  OBVIOUS
      <4>2. s = [source_start |-> SeriesStart(t, d), source_end |-> SeriesEnd(t, d),
                 parsed |-> Cardinality(SeriesSeen(t, d)), skipped |-> Cardinality(SeriesSkipped(t, d)),
                 buckets |-> all]
        BY <1>1, <2>2, <4>1, ResampleIs
      <4> QED  BY <4>1, <4>2
    <3>2. SeriesCount(t, d, how) \in Nat  BY CountIs DEF SeriesCount
    <3>3. \A b : DOMAIN SeriesBucket(t, d, how, b).metrics = 1..n  BY <1>2 DEF SeriesBucket
    <3> QED  BY <3>1, <3>2, <3>3
  <2> QED  BY <2>1, <2>2
<1>4. IsTexts(view.columns)
  <2>1. PICK head : head = <<Named("bucket_index"), Named("bucket_start"), Named("bucket_end"),
                             Named("source_row_count")>>
    OBVIOUS
  <2>2. IsTexts(head)  BY <2>1, FourTexts, ShownIs
  <2>3. PICK suffixes : suffixes = <<"_sample_count", "_min", "_max", "_mean", "_first", "_last",
                        "_min_axis", "_max_axis", "_first_axis", "_last_axis",
                        "_min_source_row", "_max_source_row",
                        "_first_source_row", "_last_source_row">>
    OBVIOUS
  <2>4. IsSequence(suffixes)  BY <2>3, FourteenAre
  <2>5. view.columns = head \o MetricColumns(e.metrics, suffixes)  BY <1>1, <2>1, <2>3, Zenon DEF SeriesTable
  <2> QED  BY <2>2, <2>4, <2>5, ColumnsJoin
<1>5. PICK piece : piece = [i \in 1..k |-> [m \in 1..n |->
                      LET a == s.buckets[i].metrics[m] IN
                      <<Shown(a.sample_count), ShownReal(a.min), ShownReal(a.max), ShownReal(MeanOf(a)),
                        ShownReal(a.first), ShownReal(a.last),
                        ShownReal(a.min_axis), ShownReal(a.max_axis),
                        ShownReal(a.first_axis), ShownReal(a.last_axis),
                        Shown(a.min_source_row), Shown(a.max_source_row),
                        Shown(a.first_source_row), Shown(a.last_source_row)>>]]
  OBVIOUS
<1>6. \A i \in 1..k : \A m \in 1..n : IsTexts(piece[i][m])
  BY <1>5, FourteenTexts, ShownIs, ZenonT(60)
<1>7. PICK head : head = [i \in 1..k |-> LET b == s.buckets[i] IN
                 <<Shown(i - 1), ShownReal(b.start), ShownReal(b.end), Shown(b.source_row_count)>>]
  OBVIOUS
<1>8. \A i \in 1..k : IsTexts(head[i])  BY <1>7, FourTexts, ShownIs
<1>9. view.rows = [i \in 1..k |-> head[i] \o FlattenSeq(piece[i])]
  BY <1>1, <1>3, <1>5, <1>7 DEF SeriesTable
<1>10. ASSUME NEW i \in 1..k PROVE IsTexts(view.rows[i])
  <2>1. piece[i] = [m \in 1..n |-> piece[i][m]]  BY <1>5
  <2>2. IsTexts(head[i] \o FlattenSeq(piece[i]))  BY <1>6, <1>8, <2>1, TextsJoin
  <2>3. view.rows[i] = head[i] \o FlattenSeq(piece[i])  BY <1>9, Zenon
  <2> QED  BY <2>2, <2>3, Zenon
<1> QED  BY <1>1, <1>3, <1>4, <1>9, <1>10, TextsMakeTable

\* The same of a summary.
LEMMA SummaryTableIsTable ==
    ASSUME NEW t, NEW d, CanSummarize(t, d), IsTexts(d.metrics),
           {d.frame_start, d.frame_end, d.fpb} \subseteq 0..Word - 1,
           NEW e, IsTexts(e.metrics)
    PROVE  IsTable(SummaryTable(Summarize(t, d), e))
<1>1. PICK s, view : s = Summarize(t, d) /\ view = SummaryTable(s, e)  OBVIOUS
<1>2. PICK n \in Nat : DOMAIN d.metrics = 1..n
  BY SequenceIs DEF IsTexts, IsSequence
<1>3. PICK k \in Nat : DOMAIN s.buckets = 1..k
  <2>1. BucketCount(d) \in Nat  BY FramesCounted DEF CanSummarize
  <2>2. DOMAIN s.buckets = 1..BucketCount(d)  BY <1>1 DEF Summarize
  <2> QED  BY <2>1, <2>2
<1>x. \A i \in 1..k : DOMAIN s.buckets[i].metrics = 1..n
  BY <1>1, <1>2, <1>3 DEF Summarize
<1>4. IsTexts(view.columns)
  <2>1. PICK head : head = <<Named("bucket_index"), Named("frame_start"), Named("frame_end"),
                             Named("row_count")>>
    OBVIOUS
  <2>2. IsTexts(head)  BY <2>1, FourTexts, ShownIs
  <2>3. PICK suffixes : suffixes = <<"_sample_count", "_min", "_max", "_mean", "_first", "_last", "_delta">>
    OBVIOUS
  <2>4. IsSequence(suffixes)  BY <2>3, SevenAre
  <2>5. view.columns = head \o MetricColumns(e.metrics, suffixes)  BY <1>1, <2>1, <2>3, Zenon DEF SummaryTable
  <2> QED  BY <2>2, <2>4, <2>5, ColumnsJoin
<1>5. PICK piece : piece = [i \in 1..k |-> [m \in 1..n |->
                      LET a == s.buckets[i].metrics[m] IN
                      <<Shown(a.sample_count), ShownShort(a.min), ShownShort(a.max),
                        ShownShort(MeanOf(a)), ShownShort(a.first), ShownShort(a.last),
                        ShownShort(Minus(a.last, a.first))>>]]
  OBVIOUS
<1>6. \A i \in 1..k : \A m \in 1..n : IsTexts(piece[i][m])
  BY <1>5, SevenTexts, ShownIs
<1>7. PICK head : head = [i \in 1..k |-> LET b == s.buckets[i] IN
                 <<Shown(i - 1), Shown(b.frame_start), Shown(b.frame_end), Shown(b.row_count)>>]
  OBVIOUS
<1>8. \A i \in 1..k : IsTexts(head[i])  BY <1>7, FourTexts, ShownIs, SMTT(60)
<1>9. view.rows = [i \in 1..k |-> head[i] \o FlattenSeq(piece[i])]
  BY <1>1, <1>3, <1>x, <1>5, <1>7 DEF SummaryTable
<1>10. ASSUME NEW i \in 1..k PROVE IsTexts(view.rows[i])
  <2>1. piece[i] = [m \in 1..n |-> piece[i][m]]  BY <1>5
  <2>2. IsTexts(head[i] \o FlattenSeq(piece[i]))  BY <1>6, <1>8, <2>1, TextsJoin
  <2> QED  BY <1>9, <2>2, SMTT(60)
<1> QED  BY <1>1, <1>3, <1>4, <1>9, <1>10, TextsMakeTable

-----------------------------------------------------------------------------
(* Statistics *)

LEMMA MaxIsLast ==
    ASSUME NEW k \in Nat, NEW s \in SUBSET (1..k), k \in s
    PROVE  Max(s) = k
<1>1. PICK m : m = Max(s)  OBVIOUS
<1>2. m \in s /\ k <= m  BY <1>1, MaxUpTo
<1>3. m \in 1..k  BY <1>2
<1> QED  BY <1>1, <1>2, <1>3

\* g is the sum of the values v over each subset of S.
AddsUp(g, S, v) ==
    /\ g \in [SUBSET S -> Int] /\ g[{}] = 0
    /\ \A s \in SUBSET S : \A r \in s : g[s] = g[s \ {r}] + v[r]

\* What a sum over a set is: the sum without any one of its elements, and that
\* element.
LEMMA TotalAddsUp ==
    ASSUME NEW n \in Nat, NEW S \in SUBSET (1..n), NEW v, \A r \in S : v[r] \in Int
    PROVE  \E g : AddsUp(g, S, v) /\ Total(S, v) = g[S]
<1>1. PICK w : w = [r \in 1..n |-> IF r \in S THEN v[r] ELSE 0]  OBVIOUS
<1>2. \A r \in 1..n : w[r] \in Int  BY <1>1
<1>3. PICK step : step = [p \in Int \X (1..n) |-> p[1] + w[p[2]]]  OBVIOUS
<1>4. step \in [Int \X (1..n) -> Int]
  <2> SUFFICES ASSUME NEW p \in Int \X (1..n) PROVE p[1] + w[p[2]] \in Int  BY <1>3
  <2>1. p[1] \in Int /\ w[p[2]] \in Int  BY <1>2
  <2> QED  BY <2>1
<1>5. PICK f \in [SUBSET (1..n) -> Int] : IsFold(f, n, 0, step)
  <2>1. 0 \in Int  OBVIOUS
  <2> QED  BY <1>4, <2>1, FoldIsDefined
<1>6. \A s \in SUBSET (1..n) : f[s] = IF s = {} THEN 0 ELSE f[s \ {Max(s)}] + w[Max(s)]
  <2> TAKE s \in SUBSET (1..n)
  <2>1. f[s] = IF s = {} THEN 0 ELSE step[<<f[s \ {Max(s)}], Max(s)>>]  BY <1>5 DEF IsFold
  <2>2. ASSUME s # {} PROVE step[<<f[s \ {Max(s)}], Max(s)>>] = f[s \ {Max(s)}] + w[Max(s)]
    <3>1. PICK m : m = Max(s)  OBVIOUS
    <3>2. m \in 1..n /\ s \ {m} \in SUBSET (1..n)  BY <2>2, <3>1, MaxUpTo
    <3>3. <<f[s \ {m}], m>> \in Int \X (1..n)  BY <1>5, <3>2
    <3> QED  BY <1>3, <3>1, <3>3
  <2> QED  BY <2>1, <2>2
<1>7. f[{}] = 0
  <2>1. {} \in SUBSET (1..n)  OBVIOUS
  <2> QED  BY <1>6, <2>1
<1> DEFINE T == {k \in 0..n : \A s \in SUBSET (1..k) : \A r \in s : f[s] = f[s \ {r}] + w[r]}
<1>8. 0 \in T
  <2>1. \A s \in SUBSET (1..0) : s = {}  OBVIOUS
  <2> QED  BY <2>1
<1>9. \A k \in 1..n : k - 1 \in T => k \in T
  <2> TAKE k \in 1..n
  <2> HAVE k - 1 \in T
  <2> SUFFICES ASSUME NEW s \in SUBSET (1..k), NEW r \in s PROVE f[s] = f[s \ {r}] + w[r]
    OBVIOUS
  <2>1. CASE k \notin s
    <3>1. s \in SUBSET (1..(k - 1))  BY <2>1
    <3> QED  BY <3>1
  <2>2. CASE k \in s
    <3>1. \A u \in SUBSET (1..k) : k \in u => f[u] = f[u \ {k}] + w[k]
      <4> TAKE u \in SUBSET (1..k)
      <4> HAVE k \in u
      <4>1. Max(u) = k  BY MaxIsLast
      <4>2. u \in SUBSET (1..n) /\ u # {}  OBVIOUS
      <4> QED  BY <1>6, <4>1, <4>2
    <3>2. CASE r = k  BY <2>2, <3>1, <3>2
    <3>3. CASE r # k
      <4>0. PICK u, q, z : u = s \ {k} /\ q = s \ {r} /\ z = u \ {r}  OBVIOUS
      <4>1. u = s \ {k} /\ q = s \ {r} /\ z = u \ {r} /\ z = q \ {k}  BY <4>0
      <4>2. u \in SUBSET (1..(k - 1)) /\ r \in u  BY <3>3, <4>1
      <4>3. f[u] = f[z] + w[r]  BY <4>1, <4>2
      <4>4. q \in SUBSET (1..k) /\ k \in q  BY <2>2, <3>3, <4>1
      <4>5. f[q] = f[z] + w[k] /\ f[s] = f[u] + w[k]  BY <2>2, <3>1, <4>1, <4>4
      <4>6. z \in SUBSET (1..n) /\ k \in 1..n /\ r \in 1..n  BY <4>1
      <4>7. f[z] \in Int /\ w[k] \in Int /\ w[r] \in Int  BY <1>2, <1>5, <4>6
      <4> QED  BY <4>1, <4>3, <4>5, <4>7
    <3> QED  BY <3>2, <3>3
  <2> QED  BY <2>1, <2>2
<1> HIDE DEF T
<1>10. 0..n \subseteq T  BY <1>8, <1>9, UpTo
<1>11. n \in T  BY <1>10
<1>12. \A s \in SUBSET (1..n) : \A r \in s : f[s] = f[s \ {r}] + w[r]  BY <1>11 DEF T
<1>13. PICK g : g = [s \in SUBSET S |-> f[s]]  OBVIOUS
<1>14. g \in [SUBSET S -> Int]  BY <1>5, <1>13
<1>15. \A s \in SUBSET S : \A r \in s : g[s] = g[s \ {r}] + v[r]
  <2> TAKE s \in SUBSET S
  <2> TAKE r \in s
  <2>1. f[s] = f[s \ {r}] + w[r] /\ w[r] = v[r]  BY <1>1, <1>12
  <2>2. g[s] = f[s] /\ g[s \ {r}] = f[s \ {r}]  BY <1>13
  <2> QED  BY <2>1, <2>2
<1>16. g[{}] = 0  BY <1>7, <1>13
<1>17. g = [s \in SUBSET S |-> IF s = {} THEN 0
                              ELSE v[CHOOSE r \in s : TRUE] + g[s \ {CHOOSE r \in s : TRUE}]]
  <2>1. ASSUME NEW s \in SUBSET S
        PROVE  g[s] = IF s = {} THEN 0 ELSE v[CHOOSE r \in s : TRUE] + g[s \ {CHOOSE r \in s : TRUE}]
    <3>1. CASE s = {}  BY <1>16, <3>1
    <3>2. CASE s # {}
      <4>1. PICK c : c = CHOOSE r \in s : TRUE  OBVIOUS
      <4>2. c \in s  BY <3>2, <4>1
      <4>3. g[s] = g[s \ {c}] + v[c]  BY <1>15, <4>2
      <4>4. g[s \ {c}] \in Int /\ v[c] \in Int  BY <1>14, <4>2
      <4>5. g[s] = v[c] + g[s \ {c}]  BY <4>3, <4>4
      <4> QED  BY <3>2, <4>1, <4>5
    <3> QED  BY <3>1, <3>2
  <2>2. g = [s \in SUBSET S |-> g[s]]  BY <1>14
  <2> QED  BY <2>1, <2>2
<1>18. PICK h : /\ h = [s \in SUBSET S |-> IF s = {} THEN 0
                              ELSE v[CHOOSE r \in s : TRUE] + h[s \ {CHOOSE r \in s : TRUE}]]
                /\ Total(S, v) = h[S]
  BY <1>17, ZenonT(60) DEF Total, MapThenSumSet, MapThenFoldSet
<1>19. \A s \in SUBSET S : h[s] = IF s = {} THEN 0
                              ELSE v[CHOOSE r \in s : TRUE] + h[s \ {CHOOSE r \in s : TRUE}]
  BY <1>18
<1>20. \A s \in SUBSET S : IsFiniteSet(s) /\ Cardinality(s) \in Nat
  <2>1. IsFiniteSet(1..n)  BY FS_Interval
  <2> TAKE s \in SUBSET S
  <2>2. s \subseteq 1..n  OBVIOUS
  <2>3. IsFiniteSet(s)  BY <2>1, <2>2, FS_Subset
  <2> QED  BY <2>3, FS_CardinalityType
<1> DEFINE U == {k \in Nat : \A s \in SUBSET S : Cardinality(s) = k => h[s] = g[s]}
<1>21. 0 \in U
  <2>1. \A s \in SUBSET S : Cardinality(s) = 0 => s = {}  BY <1>20, FS_EmptySet
  <2> QED  BY <1>16, <1>19, <2>1
<1>22. \A k \in Nat : k \in U => k + 1 \in U
  <2> TAKE k \in Nat
  <2> HAVE k \in U
  <2>0. \A s \in SUBSET S : Cardinality(s) = k => h[s] = g[s]  OBVIOUS
  <2>n. k + 1 \in Nat  OBVIOUS
  <2> SUFFICES ASSUME NEW s \in SUBSET S, Cardinality(s) = k + 1 PROVE h[s] = g[s]
    BY <2>n, Zenon
  <2>1. s # {}  BY <1>20, FS_EmptySet
  <2>2. PICK c : c = CHOOSE r \in s : TRUE  OBVIOUS
  <2>3. c \in s  BY <2>1, <2>2
  <2>4. PICK u : u = s \ {c}  OBVIOUS
  <2>5. Cardinality(u) = k /\ u \in SUBSET S
    <3>1. Cardinality(s \ {c}) = Cardinality(s) - 1  BY <1>20, <2>3, FS_RemoveElement
    <3>2. Cardinality(s) - 1 = k  OBVIOUS
    <3> QED  BY <2>4, <3>1, <3>2
  <2>6. h[u] = g[u]  BY <2>0, <2>5
  <2>7. h[s] = v[c] + h[u]  BY <1>19, <2>1, <2>2, <2>4
  <2>8. g[s] = g[u] + v[c] /\ g[u] \in Int /\ v[c] \in Int  BY <1>14, <1>15, <2>3, <2>4, <2>5
  <2> QED  BY <2>6, <2>7, <2>8
<1> HIDE DEF U
<1>23. Nat \subseteq U  BY <1>21, <1>22, NumbersInduct
<1>24. Cardinality(S) \in U  BY <1>20, <1>23
<1>25. h[S] = g[S]  BY <1>24 DEF U
<1>26. AddsUp(g, S, v)  BY <1>14, <1>15, <1>16 DEF AddsUp
<1> QED  BY <1>18, <1>25, <1>26

\* The accumulators that hold doubles, and those that hold finite numbers.
Tallies ==
    [sample_count : Int, sum : Doubles, min : Doubles, max : Doubles, first : Doubles, last : Doubles,
     min_axis : Doubles, max_axis : Doubles, first_axis : Doubles, last_axis : Doubles,
     min_source_row : Int, max_source_row : Int, first_source_row : Int, last_source_row : Int]
Accumulators ==
    [sample_count : Int, sum : Int, min : Int, max : Int, first : Int, last : Int,
     min_axis : Int, max_axis : Int, first_axis : Int, last_axis : Int,
     min_source_row : Int, max_source_row : Int, first_source_row : Int, last_source_row : Int]

LEMMA PlusTyped ==
    ASSUME NEW a \in Doubles, NEW b \in Doubles
    PROVE  Plus(a, b) \in Doubles
<1>1. CASE a \in Int /\ b \in Int  BY <1>1 DEF Plus, Doubles
<1>2. CASE ~(a \in Int /\ b \in Int)  BY <1>2 DEF Plus, Doubles
<1> QED  BY <1>1, <1>2

\* A sample more: of any doubles, and of finite ones.
FiniteSample(acc, value, axis, row) ==
    LET none == acc.sample_count = 0
        lower == none \/ value < acc.min
        higher == none \/ value > acc.max
        earlier == none \/ axis < acc.first_axis
        later == none \/ axis >= acc.last_axis
    IN [sample_count |-> acc.sample_count + 1,
        sum |-> acc.sum + value,
        min |-> IF lower THEN value ELSE acc.min,
        max |-> IF higher THEN value ELSE acc.max,
        first |-> IF earlier THEN value ELSE acc.first,
        last |-> IF later THEN value ELSE acc.last,
        min_axis |-> IF lower THEN axis ELSE acc.min_axis,
        max_axis |-> IF higher THEN axis ELSE acc.max_axis,
        first_axis |-> IF earlier THEN axis ELSE acc.first_axis,
        last_axis |-> IF later THEN axis ELSE acc.last_axis,
        min_source_row |-> IF lower THEN row ELSE acc.min_source_row,
        max_source_row |-> IF higher THEN row ELSE acc.max_source_row,
        first_source_row |-> IF earlier THEN row ELSE acc.first_source_row,
        last_source_row |-> IF later THEN row ELSE acc.last_source_row]

LEMMA SampleTallied ==
    ASSUME NEW a \in Tallies, NEW value \in Doubles, NEW axis \in Doubles, NEW row \in Int
    PROVE  /\ AddSample(a, value, axis, row) \in Tallies
           /\ AddSample(a, value, axis, row).sample_count = a.sample_count + 1
<1>1. PICK sum \in Doubles : sum = Plus(a.sum, value)  BY PlusTyped DEF Tallies
<1>2. PICK lower, higher, earlier, later \in BOOLEAN :
         /\ lower = (a.sample_count = 0 \/ Less(value, a.min))
         /\ higher = (a.sample_count = 0 \/ Less(a.max, value))
         /\ earlier = (a.sample_count = 0 \/ Less(axis, a.first_axis))
         /\ later = (a.sample_count = 0 \/ AtMost(a.last_axis, axis))
  OBVIOUS
<1>3. PICK b : b =
        [sample_count |-> a.sample_count + 1, sum |-> sum,
         min |-> IF lower THEN value ELSE a.min, max |-> IF higher THEN value ELSE a.max,
         first |-> IF earlier THEN value ELSE a.first, last |-> IF later THEN value ELSE a.last,
         min_axis |-> IF lower THEN axis ELSE a.min_axis, max_axis |-> IF higher THEN axis ELSE a.max_axis,
         first_axis |-> IF earlier THEN axis ELSE a.first_axis,
         last_axis |-> IF later THEN axis ELSE a.last_axis,
         min_source_row |-> IF lower THEN row ELSE a.min_source_row,
         max_source_row |-> IF higher THEN row ELSE a.max_source_row,
         first_source_row |-> IF earlier THEN row ELSE a.first_source_row,
         last_source_row |-> IF later THEN row ELSE a.last_source_row]
  OBVIOUS
<1>4. b \in Tallies /\ b.sample_count = a.sample_count + 1  BY <1>3 DEF Tallies
<1>5. AddSample(a, value, axis, row) = b  BY <1>1, <1>2, <1>3, Zenon DEF AddSample
<1> QED  BY <1>4, <1>5

LEMMA SampleFinite ==
    ASSUME NEW a \in Accumulators, NEW value \in Int, NEW axis \in Int, NEW row \in Int
    PROVE  AddSample(a, value, axis, row) = FiniteSample(a, value, axis, row)
<1>1. PICK sum, min, max, early, late \in Int :
         sum = a.sum /\ min = a.min /\ max = a.max /\ early = a.first_axis /\ late = a.last_axis
  BY DEF Accumulators
<1>2. /\ Less(value, min) <=> value < min
      /\ Less(max, value) <=> value > max
      /\ Less(axis, early) <=> axis < early
      /\ AtMost(late, axis) <=> axis >= late
      /\ Plus(sum, value) = sum + value
  BY FiniteDoubles
<1> QED  BY <1>1, <1>2 DEF AddSample, FiniteSample

LEMMA SampleTyped ==
    ASSUME NEW a \in Accumulators, NEW value \in Int, NEW axis \in Int, NEW row \in Int
    PROVE  AddSample(a, value, axis, row) \in Accumulators
<1>1. FiniteSample(a, value, axis, row) \in Accumulators  BY DEF FiniteSample, Accumulators
<1> QED  BY <1>1, SampleFinite

\* a holds the statistics of the samples of s: value v, axis x and source row of
\* each, told by the samples that have them.  Of several first samples it is the
\* one of the first row, of several last ones that of the last row.
Holds4(a, s, v, x, source, lo, hi, early, late) ==
    /\ a.min = v[lo] /\ a.min_axis = x[lo] /\ a.min_source_row = source[lo]
    /\ a.max = v[hi] /\ a.max_axis = x[hi] /\ a.max_source_row = source[hi]
    /\ a.first = v[early] /\ a.first_axis = x[early] /\ a.first_source_row = source[early]
    /\ a.last = v[late] /\ a.last_axis = x[late] /\ a.last_source_row = source[late]
    /\ \A r \in s : /\ v[lo] <= v[r] /\ v[r] <= v[hi]
                    /\ x[early] <= x[r] /\ (r < early => x[early] < x[r])
                    /\ x[r] <= x[late] /\ (late < r => x[r] < x[late])
Gathers(a, s, v, x, source) ==
    s # {} => \E lo, hi, early, late \in s : Holds4(a, s, v, x, source, lo, hi, early, late)

LEMMA SampleGathers ==
    ASSUME NEW n \in Nat, NEW k \in 1..n, NEW s \in SUBSET (1..(k - 1)),
           NEW v, NEW x, NEW source,
           \A r \in s \cup {k} : v[r] \in Int /\ x[r] \in Int /\ source[r] \in Int,
           NEW a \in Accumulators, a.sample_count = 0 <=> s = {}, Gathers(a, s, v, x, source)
    PROVE  Gathers(AddSample(a, v[k], x[k], source[k]), s \cup {k}, v, x, source)
<1>1. PICK b : b = AddSample(a, v[k], x[k], source[k]) /\ b = FiniteSample(a, v[k], x[k], source[k])
  <2>1. PICK value, axis, row \in Int : value = v[k] /\ axis = x[k] /\ row = source[k]  OBVIOUS
  <2> QED  BY <2>1, SampleFinite
<1>2. \A r \in s : r \in Int /\ r < k  OBVIOUS
<1>3. CASE s = {}
  <2>1. Holds4(b, {k}, v, x, source, k, k, k, k)
    BY <1>1, <1>3 DEF FiniteSample, Holds4
  <2> QED  BY <1>1, <1>3, <2>1 DEF Gathers
<1>4. CASE s # {}
  <2>1. PICK lo, hi, early, late \in s : Holds4(a, s, v, x, source, lo, hi, early, late)
    BY <1>4 DEF Gathers
  <2>2. PICK low : low = IF v[k] < a.min THEN k ELSE lo  OBVIOUS
  <2>3. PICK high : high = IF v[k] > a.max THEN k ELSE hi  OBVIOUS
  <2>4. PICK start : start = IF x[k] < a.first_axis THEN k ELSE early  OBVIOUS
  <2>5. PICK end : end = IF x[k] >= a.last_axis THEN k ELSE late  OBVIOUS
  <2>6. low \in s \cup {k} /\ high \in s \cup {k} /\ start \in s \cup {k} /\ end \in s \cup {k}
    BY <2>2, <2>3, <2>4, <2>5
  <2>7. a.min = v[lo] /\ a.max = v[hi] /\ a.first_axis = x[early] /\ a.last_axis = x[late]
        /\ a.sample_count # 0
    BY <1>4, <2>1 DEF Holds4
  <2>8. /\ b.min = v[low] /\ b.min_axis = x[low] /\ b.min_source_row = source[low]
    BY <1>1, <2>1, <2>2, <2>7 DEF FiniteSample, Holds4
  <2>9. /\ b.max = v[high] /\ b.max_axis = x[high] /\ b.max_source_row = source[high]
    BY <1>1, <2>1, <2>3, <2>7 DEF FiniteSample, Holds4
  <2>10. /\ b.first = v[start] /\ b.first_axis = x[start] /\ b.first_source_row = source[start]
    BY <1>1, <2>1, <2>4, <2>7 DEF FiniteSample, Holds4
  <2>11. /\ b.last = v[end] /\ b.last_axis = x[end] /\ b.last_source_row = source[end]
    BY <1>1, <2>1, <2>5, <2>7 DEF FiniteSample, Holds4
  <2>12. ASSUME NEW r \in s \cup {k}
         PROVE  /\ v[low] <= v[r] /\ v[r] <= v[high]
                /\ x[start] <= x[r] /\ (r < start => x[start] < x[r])
                /\ x[r] <= x[end] /\ (end < r => x[r] < x[end])
    <3>1. ASSUME NEW q \in s
          PROVE /\ v[lo] <= v[q] /\ v[q] <= v[hi]
                /\ x[early] <= x[q] /\ (q < early => x[early] < x[q])
                /\ x[q] <= x[late] /\ (late < q => x[q] < x[late])
      BY <2>1 DEF Holds4
    <3>2. /\ v[k] \in Int /\ v[lo] \in Int /\ v[hi] \in Int /\ x[k] \in Int /\ x[early] \in Int
          /\ x[late] \in Int /\ v[r] \in Int /\ x[r] \in Int
      OBVIOUS
    <3>3. k \in Int /\ early < k /\ late < k /\ ~(k < k) /\ r <= k /\ r \in Int  BY <1>2
    <3>4. v[low] <= v[r] /\ v[r] <= v[high]
      BY <2>2, <2>3, <2>7, <3>1, <3>2
    <3>5. x[start] <= x[r] /\ (r < start => x[start] < x[r])
      BY <1>2, <2>4, <2>7, <3>1, <3>2, <3>3
    <3>6. x[r] <= x[end] /\ (end < r => x[r] < x[end])
      BY <1>2, <2>5, <2>7, <3>1, <3>2, <3>3
    <3> QED  BY <3>4, <3>5, <3>6
  <2>13. Holds4(b, s \cup {k}, v, x, source, low, high, start, end)
    BY <2>8, <2>9, <2>10, <2>11, <2>12 DEF Holds4
  <2> QED  BY <1>1, <2>6, <2>13 DEF Gathers
<1> QED  BY <1>3, <1>4

\* What is gathered describes the samples, without an order of visits.
LEMMA GatheredDescribes ==
    ASSUME NEW n \in Nat, NEW s \in SUBSET (1..n), NEW v, NEW x, NEW source,
           \A r \in s : v[r] \in Int /\ x[r] \in Int,
           NEW a, a.sample_count = Cardinality(s), a.sum = Total(s, v), Gathers(a, s, v, x, source)
    PROVE  /\ StatsDescribe(a, s, v, x)
           /\ (\A r \in s : source[r] = r - 1) => SourcesDescribe(a, s, v, x)
<1>1. CASE s = {}  BY <1>1 DEF StatsDescribe, SourcesDescribe
<1>2. CASE s # {}
  <2>1. PICK lo, hi, first, last \in s : Holds4(a, s, v, x, source, lo, hi, first, last)
    BY <1>2 DEF Gathers
  <2>2. PICK early, late : /\ early = {r \in s : \A q \in s : x[r] <= x[q]}
                           /\ late = {r \in s : \A q \in s : x[q] <= x[r]}
    OBVIOUS
  <2>3. Least(early) = first
    <3>1. first \in early  BY <2>1, <2>2 DEF Holds4
    <3>2. ASSUME NEW r \in early PROVE first <= r
      <4>1. r \in s /\ x[r] <= x[first]  BY <2>2
      <4>2. r < first => x[first] < x[r]  BY <2>1, <4>1 DEF Holds4
      <4> QED  BY <4>1, <4>2
    <3>3. PICK m : m = Least(early)  OBVIOUS
    <3>4. m \in early /\ \A r \in early : m <= r  BY <3>1, <3>2, <3>3 DEF Least
    <3>5. m \in s /\ m <= first /\ first <= m  BY <2>2, <3>1, <3>2, <3>4
    <3> QED  BY <3>3, <3>5
  <2>4. Greatest(late) = last
    <3>1. last \in late  BY <2>1, <2>2 DEF Holds4
    <3>2. ASSUME NEW r \in late PROVE r <= last
      <4>1. r \in s /\ x[last] <= x[r]  BY <2>2
      <4>2. last < r => x[r] < x[last]  BY <2>1, <4>1 DEF Holds4
      <4> QED  BY <4>1, <4>2
    <3>3. PICK m : m = Greatest(late)  OBVIOUS
    <3>4. m \in late /\ \A r \in late : r <= m  BY <3>1, <3>2, <3>3 DEF Greatest
    <3>5. m \in s /\ m <= last /\ last <= m  BY <2>2, <3>1, <3>2, <3>4
    <3> QED  BY <3>3, <3>5
  <2>5. /\ \A r \in s : v[r] \in a.min..a.max
        /\ {a.min, a.max} \subseteq {v[r] : r \in s}
    <3>1. a.min = v[lo] /\ a.max = v[hi] /\ \A r \in s : v[lo] <= v[r] /\ v[r] <= v[hi]
      BY <2>1 DEF Holds4
    <3> QED  BY <3>1
  <2>6. /\ a.first = v[Least(early)] /\ a.first_axis = x[Least(early)]
        /\ a.last = v[Greatest(late)] /\ a.last_axis = x[Greatest(late)]
    BY <2>1, <2>3, <2>4 DEF Holds4
  <2>7. StatsDescribe(a, s, v, x)  BY <2>2, <2>5, <2>6 DEF StatsDescribe
  <2>8. ASSUME \A r \in s : source[r] = r - 1 PROVE SourcesDescribe(a, s, v, x)
    <3>1. /\ a.min_source_row + 1 = lo /\ a.max_source_row + 1 = hi
          /\ a.first_source_row + 1 = first /\ a.last_source_row + 1 = last
      BY <2>1, <2>8 DEF Holds4
    <3>2. /\ a.min = v[lo] /\ a.min_axis = x[lo] /\ a.max = v[hi] /\ a.max_axis = x[hi]
          /\ a.first_axis = x[first] /\ a.last_axis = x[last]
      BY <2>1 DEF Holds4
    <3> QED  BY <3>1, <3>2 DEF SourcesDescribe
  <2> QED  BY <2>7, <2>8
<1> QED  BY <1>1, <1>2

\* The samples of the first rows, one row more.
LEMMA OneMore ==
    ASSUME NEW n \in Nat, NEW S \in SUBSET (1..n)
    PROVE  /\ S \cap (1..0) = {} /\ S \cap (1..n) = S
           /\ \A k \in 0..n : /\ S \cap (1..k) \in SUBSET (1..k) /\ IsFiniteSet(S \cap (1..k))
                              /\ Cardinality(S \cap (1..k)) \in Nat
           /\ \A k \in 1..n :
                /\ k \notin S \cap (1..(k - 1))
                /\ k \in S => /\ S \cap (1..k) = (S \cap (1..(k - 1))) \cup {k}
                              /\ (S \cap (1..k)) \ {k} = S \cap (1..(k - 1))
                              /\ Cardinality(S \cap (1..k)) = Cardinality(S \cap (1..(k - 1))) + 1
                /\ k \notin S => S \cap (1..k) = S \cap (1..(k - 1))
<1>1. S \cap (1..0) = {} /\ S \cap (1..n) = S
  <2>1. 1..0 = {} /\ S \subseteq 1..n  OBVIOUS
  <2> QED  BY <2>1
<1>2. ASSUME NEW k \in 0..n
      PROVE  /\ S \cap (1..k) \in SUBSET (1..k) /\ IsFiniteSet(S \cap (1..k))
             /\ Cardinality(S \cap (1..k)) \in Nat
  <2>1. IsFiniteSet(1..k)  BY FS_Interval
  <2>2. S \cap (1..k) \subseteq 1..k  OBVIOUS
  <2>3. IsFiniteSet(S \cap (1..k))  BY <2>1, <2>2, FS_Subset
  <2> QED  BY <2>2, <2>3, FS_CardinalityType
<1>3. ASSUME NEW k \in 1..n
      PROVE  /\ k \notin S \cap (1..(k - 1))
             /\ k \in S => /\ S \cap (1..k) = (S \cap (1..(k - 1))) \cup {k}
                           /\ (S \cap (1..k)) \ {k} = S \cap (1..(k - 1))
                           /\ Cardinality(S \cap (1..k)) = Cardinality(S \cap (1..(k - 1))) + 1
             /\ k \notin S => S \cap (1..k) = S \cap (1..(k - 1))
  <2>1. PICK s, u : s = S \cap (1..k) /\ u = S \cap (1..(k - 1))  OBVIOUS
  <2>2. k \notin u  BY <2>1
  <2>3. k \in S => s = u \cup {k} /\ s \ {k} = u  BY <2>1
  <2>4. k \notin S => s = u  BY <2>1
  <2>5. k - 1 \in 0..n  OBVIOUS
  <2>6. IsFiniteSet(u)  BY <1>2, <2>1, <2>5
  <2>7. Cardinality(u \cup {k}) = Cardinality(u) + 1  BY <2>2, <2>6, FS_AddElement
  <2> QED  BY <2>1, <2>2, <2>3, <2>4, <2>7
<1> QED  BY <1>1, <1>2, <1>3

\* Samples added in the order of their rows are gathered.
LEMMA RunGathers ==
    ASSUME NEW n \in Nat, NEW S \in SUBSET (1..n), NEW v, NEW x, NEW source,
           \A r \in S : v[r] \in Int /\ x[r] \in Int /\ source[r] \in Int,
           NEW run, run[0] = NoStats,
           \A k \in 1..n : run[k] = IF k \in S THEN AddSample(run[k - 1], v[k], x[k], source[k])
                                    ELSE run[k - 1]
    PROVE  /\ run[n].sample_count = Cardinality(S) /\ run[n].sum = Total(S, v)
           /\ Gathers(run[n], S, v, x, source)
<1>0. PICK g : AddsUp(g, S, v) /\ Total(S, v) = g[S]
  <2>1. \A r \in S : v[r] \in Int  OBVIOUS
  <2> QED  BY <2>1, TotalAddsUp
<1>1. /\ Total(S, v) = g[S] /\ g[{}] = 0
      /\ \A s \in SUBSET S : \A r \in s : g[s] = g[s \ {r}] + v[r]
  BY <1>0 DEF AddsUp
<1>2. PICK first : first = [k \in 0..n |-> S \cap (1..k)]  OBVIOUS
<1> DEFINE Done(k) == /\ run[k] \in Accumulators /\ run[k].sample_count = Cardinality(first[k])
                      /\ run[k].sum = g[first[k]] /\ Gathers(run[k], first[k], v, x, source)
           T == {k \in 0..n : Done(k)}
<1>3. first[0] = {} /\ first[n] = S
  <2>1. 0 \in 0..n /\ n \in 0..n  OBVIOUS
  <2>2. first[0] = S \cap (1..0) /\ first[n] = S \cap (1..n)  BY <1>2, <2>1
  <2> QED  BY <2>2, OneMore, ZenonT(60)
<1>4. 0 \in T
  <2>1. NoStats \in Accumulators /\ NoStats.sample_count = 0 /\ NoStats.sum = 0
    BY DEF NoStats, Accumulators
  <2>2. Cardinality({}) = 0  BY FS_EmptySet
  <2>3. Gathers(run[0], {}, v, x, source)  BY DEF Gathers
  <2>4. Done(0)  BY <1>1, <1>3, <2>1, <2>2, <2>3, Zenon
  <2>5. 0 \in 0..n  OBVIOUS
  <2> HIDE DEF Done
  <2> QED  BY <2>4, <2>5
<1>5. \A k \in 1..n : k - 1 \in T => k \in T
  <2> TAKE k \in 1..n
  <2> HAVE k - 1 \in T
  <2>1. k - 1 \in 0..n /\ k \in 0..n  OBVIOUS
  <2>2. PICK s, a : s = first[k - 1] /\ a = run[k - 1]  OBVIOUS
  <2>3. Done(k - 1)  OBVIOUS
  <2> HIDE DEF Done
  <2>4. a \in Accumulators /\ a.sample_count = Cardinality(s) /\ a.sum = g[s] /\ Gathers(a, s, v, x, source)
    BY <2>2, <2>3 DEF Done
  <2>5. s = S \cap (1..(k - 1)) /\ first[k] = S \cap (1..k)  BY <1>2, <2>1, <2>2
  <2>6. CASE k \notin S
    <3>1. first[k] = s /\ run[k] = a  BY <2>2, <2>5, <2>6, OneMore, ZenonT(60)
    <3>2. Done(k)  BY <2>4, <3>1 DEF Done
    <3> QED  BY <2>1, <3>2
  <2>7. CASE k \in S
    <3>1. /\ first[k] = s \cup {k} /\ first[k] \ {k} = s
          /\ Cardinality(first[k]) = Cardinality(s) + 1
      BY <2>5, <2>7, OneMore, ZenonT(60)
    <3>2. run[k] = AddSample(a, v[k], x[k], source[k])  BY <2>2, <2>7
    <3>3. run[k] \in Accumulators
      <4>1. PICK value, axis, row \in Int : value = v[k] /\ axis = x[k] /\ row = source[k]  BY <2>7
      <4> QED  BY <2>4, <3>2, <4>1, SampleTyped
    <3>4. run[k].sample_count = Cardinality(first[k]) /\ run[k].sum = a.sum + v[k]
      <4>1. PICK value, axis, row \in Int : value = v[k] /\ axis = x[k] /\ row = source[k]  BY <2>7
      <4>2. run[k] = FiniteSample(a, value, axis, row)  BY <2>4, <3>2, <4>1, SampleFinite
      <4> QED  BY <2>4, <3>1, <4>1, <4>2 DEF FiniteSample
    <3>5. g[first[k]] = g[s] + v[k]
      <4>1. first[k] \in SUBSET S /\ k \in first[k]  BY <2>5, <2>7, <3>1
      <4> QED  BY <1>1, <3>1, <4>1
    <3>6. Gathers(run[k], first[k], v, x, source)
      <4>1. s \in SUBSET (1..(k - 1)) /\ \A r \in s \cup {k} : v[r] \in Int /\ x[r] \in Int /\ source[r] \in Int
        BY <2>5, <2>7
      <4>2. a.sample_count = 0 <=> s = {}
        <5>0. PICK j \in 0..n : j = k - 1  BY <2>1
        <5>1. IsFiniteSet(S \cap (1..j))  BY OneMore
        <5>2. IsFiniteSet(s)  BY <2>5, <5>0, <5>1
        <5> QED  BY <2>4, <5>2, FS_EmptySet
      <4>3. Gathers(AddSample(a, v[k], x[k], source[k]), s \cup {k}, v, x, source)
        BY <2>4, <4>1, <4>2, SampleGathers
      <4> QED  BY <3>1, <3>2, <4>3
    <3>7. Done(k)  BY <2>4, <3>3, <3>4, <3>5, <3>6 DEF Done
    <3> QED  BY <2>1, <3>7
  <2> QED  BY <2>6, <2>7
<1> HIDE DEF T
<1>6. 0..n \subseteq T  BY <1>4, <1>5, UpTo
<1>7. n \in T  BY <1>6
<1>8. Done(n)  BY <1>7 DEF T
<1> QED  BY <1>1, <1>3, <1>8

\* run is the accumulator as the samples of S are added in the order of their rows.
SampleRun(run, n, S, v, x, source) ==
    /\ run[0] = NoStats
    /\ \A k \in 1..n : run[k] = IF k \in S THEN AddSample(run[k - 1], v[k], x[k], source[k])
                                ELSE run[k - 1]

LEMMA SamplesRun ==
    ASSUME NEW n \in Nat, NEW S \in SUBSET (1..n), NEW v, NEW x,
           \A r \in S : v[r] \in Doubles /\ x[r] \in Doubles
    PROVE  \E run : SampleRun(run, n, S, v, x, [r \in S |-> r - 1]) /\ run[n] = SampleStats(S, v, x)
<1>1. PICK step : step = [p \in Tallies \X (1..n) |->
                            IF p[2] \in S THEN AddSample(p[1], v[p[2]], x[p[2]], p[2] - 1) ELSE p[1]]
  OBVIOUS
<1>2. step \in [Tallies \X (1..n) -> Tallies]
  <2> SUFFICES ASSUME NEW p \in Tallies \X (1..n)
               PROVE  (IF p[2] \in S THEN AddSample(p[1], v[p[2]], x[p[2]], p[2] - 1) ELSE p[1])
                         \in Tallies
    BY <1>1
  <2>1. PICK a \in Tallies, r \in 1..n : a = p[1] /\ r = p[2]  OBVIOUS
  <2>2. r \in S => AddSample(a, v[r], x[r], r - 1) \in Tallies
    <3>1. r - 1 \in Int  OBVIOUS
    <3>2. ASSUME r \in S PROVE AddSample(a, v[r], x[r], r - 1) \in Tallies
      <4>1. PICK value, axis \in Doubles : value = v[r] /\ axis = x[r]  BY <3>2
      <4> QED  BY <3>1, <4>1, SampleTallied
    <3> QED  BY <3>2
  <2> QED  BY <2>1, <2>2
<1>3. NoStats \in Tallies  BY DEF NoStats, Tallies, Doubles
<1>4. PICK f \in [SUBSET (1..n) -> Tallies] : IsFold(f, n, NoStats, step)
  BY <1>2, <1>3, FoldIsDefined
<1>5. PICK g : g = [s \in SUBSET S |-> f[s]]  OBVIOUS
<1>6. g = [s \in SUBSET S |-> IF s = {} THEN NoStats
                              ELSE AddSample(g[s \ {Max(s)}], v[Max(s)], x[Max(s)], Max(s) - 1)]
  <2>1. ASSUME NEW s \in SUBSET S, s # {}
        PROVE  g[s] = AddSample(g[s \ {Max(s)}], v[Max(s)], x[Max(s)], Max(s) - 1)
    <3>1. PICK m : m = Max(s)  OBVIOUS
    <3>2. m \in s /\ m \in 1..n /\ m \in S /\ s \in SUBSET (1..n)
      <4>1. s \in SUBSET (1..n)  OBVIOUS
      <4> QED  BY <2>1, <3>1, <4>1, MaxUpTo
    <3>3. f[s] = step[<<f[s \ {m}], m>>]  BY <1>4, <2>1, <3>1, <3>2 DEF IsFold
    <3>q. PICK q \in Tallies : q = f[s \ {m}]
      <4>1. f[s \ {m}] \in Tallies  BY <1>4, <3>2
      <4> QED  BY <4>1
    <3>p. PICK p : p = <<q, m>>  OBVIOUS
    <3>4. p = <<f[s \ {m}], m>> /\ p \in Tallies \X (1..n) /\ p[1] = f[s \ {m}] /\ p[2] = m
      <4>1. p \in Tallies \X (1..n) /\ p[1] = q /\ p[2] = m  BY <3>2, <3>p
      <4> QED  BY <3>q, <3>p, <4>1
    <3>5. step[p] = AddSample(f[s \ {m}], v[m], x[m], m - 1)  BY <1>1, <3>2, <3>4
    <3>6. g[s] = f[s] /\ g[s \ {m}] = f[s \ {m}]  BY <1>5
    <3> QED  BY <3>1, <3>3, <3>4, <3>5, <3>6
  <2>2. g[{}] = NoStats  BY <1>4, <1>5 DEF IsFold
  <2>3. g = [s \in SUBSET S |-> g[s]]  BY <1>5
  <2> QED  BY <2>1, <2>2, <2>3
<1>7. PICK h : /\ h = [s \in SUBSET S |->
                         IF s = {} THEN NoStats
                         ELSE AddSample(h[s \ {Max(s)}], v[Max(s)], x[Max(s)], Max(s) - 1)]
               /\ SampleStats(S, v, x) = h[S]
  BY <1>6 DEF SampleStats, MapThenFoldSet
<1>8. \A s \in SUBSET S :
         h[s] = IF s = {} THEN NoStats
                ELSE AddSample(h[s \ {Max(s)}], v[Max(s)], x[Max(s)], Max(s) - 1)
  BY <1>7
<1>9. PICK run : run = [k \in 0..n |-> h[S \cap (1..k)]]  OBVIOUS
<1>10. PICK source : source = [r \in S |-> r - 1]  OBVIOUS
<1>11. run[0] = NoStats
  <2>1. S \cap (1..0) = {} /\ {} \in SUBSET S  OBVIOUS
  <2>2. h[{}] = NoStats  BY <1>8, <2>1
  <2>3. run[0] = h[S \cap (1..0)]  BY <1>9
  <2> QED  BY <2>1, <2>2, <2>3
<1>12. ASSUME NEW k \in 1..n
       PROVE  run[k] = IF k \in S THEN AddSample(run[k - 1], v[k], x[k], source[k]) ELSE run[k - 1]
  <2>1. PICK s, u : s = S \cap (1..k) /\ u = S \cap (1..(k - 1))  OBVIOUS
  <2>2. run[k] = h[s] /\ run[k - 1] = h[u]
    <3>1. k \in 0..n /\ k - 1 \in 0..n  OBVIOUS
    <3> QED  BY <1>9, <2>1, <3>1
  <2>3. CASE k \notin S
    <3>1. s = u  BY <2>1, <2>3
    <3> QED  BY <2>2, <2>3, <3>1
  <2>4. CASE k \in S
    <3>1. s \ {k} = u
      <4>1. (S \cap (1..k)) \ {k} = S \cap (1..(k - 1))  BY <2>4, OneMore
      <4> QED  BY <2>1, <4>1
    <3>2. Max(s) = k
      <4>1. s \in SUBSET (1..k) /\ k \in s /\ k \in Nat  BY <2>1, <2>4
      <4> QED  BY <4>1, MaxIsLast
    <3>3. s \in SUBSET S /\ s # {}  BY <2>1, <2>4
    <3>4. h[s] = AddSample(h[u], v[k], x[k], k - 1)  BY <1>8, <3>1, <3>2, <3>3
    <3> QED  BY <1>10, <2>2, <2>4, <3>4
  <2> QED  BY <2>3, <2>4
<1>13. run[n] = SampleStats(S, v, x)
  <2>1. S \cap (1..n) = S  BY OneMore
  <2>2. n \in 0..n  OBVIOUS
  <2>3. run[n] = h[S \cap (1..n)]  BY <1>9, <2>2
  <2> QED  BY <1>7, <2>1, <2>3, Zenon
<1>14. SampleRun(run, n, S, v, x, source)  BY <1>11, <1>12 DEF SampleRun
<1> QED  BY <1>10, <1>13, <1>14

\* Whatever the doubles are, every sample is counted.
LEMMA SamplesCounted ==
    ASSUME NEW n \in Nat, NEW S \in SUBSET (1..n), NEW v, NEW x, NEW source,
           \A r \in S : v[r] \in Doubles /\ x[r] \in Doubles /\ source[r] \in Int,
           NEW run, SampleRun(run, n, S, v, x, source)
    PROVE  \A k \in 0..n : run[k] \in Tallies /\ run[k].sample_count = Cardinality(S \cap (1..k))
<1>1. /\ run[0] = NoStats
      /\ \A k \in 1..n : run[k] = IF k \in S THEN AddSample(run[k - 1], v[k], x[k], source[k])
                                  ELSE run[k - 1]
  BY DEF SampleRun
<1> DEFINE T == {k \in 0..n : run[k] \in Tallies /\ run[k].sample_count = Cardinality(S \cap (1..k))}
<1>2. 0 \in T
  <2>1. NoStats \in Tallies /\ NoStats.sample_count = 0  BY DEF NoStats, Tallies, Doubles
  <2>2. S \cap (1..0) = {} /\ Cardinality({}) = 0  BY FS_EmptySet
  <2>3. 0 \in 0..n  OBVIOUS
  <2>4. run[0] \in Tallies /\ run[0].sample_count = Cardinality(S \cap (1..0))
    BY <1>1, <2>1, <2>2, Zenon
  <2> QED  BY <2>3, <2>4
<1>3. \A k \in 1..n : k - 1 \in T => k \in T
  <2> TAKE k \in 1..n
  <2> HAVE k - 1 \in T
  <2>1. k - 1 \in 0..n /\ k \in 0..n  OBVIOUS
  <2>2. PICK a \in Tallies : a = run[k - 1] /\ a.sample_count = Cardinality(S \cap (1..(k - 1)))
    OBVIOUS
  <2>3. run[k] \in Tallies /\ run[k].sample_count = Cardinality(S \cap (1..k))
    <3>1. CASE k \notin S
      <4>1. S \cap (1..k) = S \cap (1..(k - 1))  BY <3>1, OneMore
      <4>2. run[k] = a  BY <1>1, <2>2, <3>1
      <4> QED  BY <2>2, <4>1, <4>2
    <3>2. CASE k \in S
      <4>1. Cardinality(S \cap (1..k)) = Cardinality(S \cap (1..(k - 1))) + 1  BY <3>2, OneMore
      <4>2. run[k] = AddSample(a, v[k], x[k], source[k])  BY <1>1, <2>2, <3>2
      <4>3. PICK value, axis \in Doubles, row \in Int : value = v[k] /\ axis = x[k] /\ row = source[k]
        BY <3>2
      <4>4. /\ AddSample(a, value, axis, row) \in Tallies
            /\ AddSample(a, value, axis, row).sample_count = a.sample_count + 1
        BY <4>3, SampleTallied
      <4> QED  BY <2>2, <4>1, <4>2, <4>3, <4>4
    <3> QED  BY <3>1, <3>2
  <2> QED  BY <2>1, <2>3
<1> HIDE DEF T
<1>4. 0..n \subseteq T  BY <1>2, <1>3, UpTo
<1> QED  BY <1>4 DEF T

\* The statistics of the resampling compiler are those of the samples, also
\* when they are compared with an axis y that has more rows.
LEMMA SamplesDescribed ==
    ASSUME NEW n \in Nat, NEW S \in SUBSET (1..n), NEW v, NEW x, NEW y,
           \A r \in S : v[r] \in Int /\ x[r] \in Int /\ y[r] = x[r]
    PROVE  StatsDescribe(SampleStats(S, v, x), S, v, y) /\ SourcesDescribe(SampleStats(S, v, x), S, v, y)
<1>1. PICK source : source = [r \in S |-> r - 1]  OBVIOUS
<1>2. \A r \in S : v[r] \in Int /\ x[r] \in Int /\ source[r] \in Int /\ source[r] = r - 1
  BY <1>1
<1>3. PICK run : SampleRun(run, n, S, v, x, source) /\ run[n] = SampleStats(S, v, x)
  <2>1. \A r \in S : v[r] \in Doubles /\ x[r] \in Doubles  BY <1>2 DEF Doubles
  <2> QED  BY <1>1, <2>1, SamplesRun
<1>4. /\ run[n].sample_count = Cardinality(S) /\ run[n].sum = Total(S, v)
      /\ Gathers(run[n], S, v, x, source)
  BY <1>2, <1>3, RunGathers DEF SampleRun
<1>5. Gathers(run[n], S, v, y, source)
  <2>1. CASE S = {}  BY <2>1 DEF Gathers
  <2>2. CASE S # {}
    <3>1. PICK lo, hi, early, late \in S : Holds4(run[n], S, v, x, source, lo, hi, early, late)
      BY <1>4, <2>2 DEF Gathers
    <3>2. \A r \in S : y[r] = x[r]  OBVIOUS
    <3>3. Holds4(run[n], S, v, y, source, lo, hi, early, late)  BY <3>1, <3>2 DEF Holds4
    <3> QED  BY <3>3 DEF Gathers
  <2> QED  BY <2>1, <2>2
<1>6. \A r \in S : v[r] \in Int /\ y[r] \in Int  OBVIOUS
<1> QED  BY <1>2, <1>3, <1>4, <1>5, <1>6, GatheredDescribes

\* They count the samples whatever the samples are.
LEMMA SampleCount ==
    ASSUME NEW n \in Nat, NEW S \in SUBSET (1..n), NEW v, NEW x,
           \A r \in S : v[r] \in Doubles /\ x[r] \in Doubles
    PROVE  SampleStats(S, v, x).sample_count = Cardinality(S)
<1>1. PICK source : source = [r \in S |-> r - 1]  OBVIOUS
<1>2. PICK run : SampleRun(run, n, S, v, x, source) /\ run[n] = SampleStats(S, v, x)
  BY <1>1, SamplesRun
<1>3. \A r \in S : v[r] \in Doubles /\ x[r] \in Doubles /\ source[r] \in Int  BY <1>1
<1>4. \A k \in 0..n : run[k] \in Tallies /\ run[k].sample_count = Cardinality(S \cap (1..k))
  BY <1>2, <1>3, SamplesCounted
<1>5. S \cap (1..n) = S /\ n \in 0..n
  <2>1. n \in 0..n  OBVIOUS
  <2> QED  BY <2>1, OneMore
<1> QED  BY <1>2, <1>4, <1>5, Zenon

-----------------------------------------------------------------------------
(* A series accounts for the rows of its table *)

LEMMA RowsSplit ==
    ASSUME NEW n \in Nat, NEW A, NEW B, NEW C, A \cup B \cup C = 1..n,
           A \cap B = {}, A \cap C = {}, B \cap C = {}
    PROVE  /\ Cardinality(A) + Cardinality(B) + Cardinality(C) = n
           /\ Cardinality(A) \in Nat /\ Cardinality(B) \in Nat /\ Cardinality(C) \in Nat
<1>1. IsFiniteSet(1..n) /\ Cardinality(1..n) = n
  <2>1. 1 \in Int /\ n \in Int  OBVIOUS
  <2>2. IsFiniteSet(1..n) /\ Cardinality(1..n) = IF 1 > n THEN 0 ELSE n - 1 + 1  BY <2>1, FS_Interval
  <2> QED  BY <2>2
<1>2. A \subseteq 1..n /\ B \subseteq 1..n /\ C \subseteq 1..n  OBVIOUS
<1>3. IsFiniteSet(A) /\ IsFiniteSet(B) /\ IsFiniteSet(C)  BY <1>1, <1>2, FS_Subset
<1>4. Cardinality(A) \in Nat /\ Cardinality(B) \in Nat /\ Cardinality(C) \in Nat
  BY <1>3, FS_CardinalityType
<1>5. PICK D : D = A \cup B  OBVIOUS
<1>6. IsFiniteSet(D) /\ Cardinality(D) = Cardinality(A) + Cardinality(B)
  <2>1. IsFiniteSet(A \cup B) /\ Cardinality(A \cup B) = Cardinality(A) + Cardinality(B) - Cardinality(A \cap B)
    BY <1>3, FS_Union
  <2>2. Cardinality(A \cap B) = 0  BY FS_EmptySet
  <2> QED  BY <1>4, <1>5, <2>1, <2>2
<1>7. Cardinality(D \cup C) = Cardinality(D) + Cardinality(C)
  <2>1. Cardinality(D \cup C) = Cardinality(D) + Cardinality(C) - Cardinality(D \cap C)
    BY <1>3, <1>6, FS_Union
  <2>2. D \cap C = {}  BY <1>5
  <2>3. Cardinality(D \cap C) = 0  BY <2>2, FS_EmptySet
  <2> QED  BY <1>4, <1>6, <2>1, <2>3
<1>8. D \cup C = 1..n  BY <1>5
<1> QED  BY <1>1, <1>4, <1>6, <1>7, <1>8

\* Rows that are divided into parts are as many as the parts have together.
PartOf(S, part, i) == {r \in S : part[r] = i}
Divided(S, part, c, size) ==
    /\ \A r \in S : part[r] \in 1..c
    /\ \A i \in 1..c : size[i] = Cardinality(PartOf(S, part, i))

LEMMA PartsAddUp ==
    ASSUME NEW n \in Nat, NEW S \in SUBSET (1..n), NEW c \in Nat, NEW part, NEW size,
           Divided(S, part, c, size)
    PROVE  Total(1..c, size) = Cardinality(S)
<1>0. /\ \A r \in S : part[r] \in 1..c
      /\ \A i \in 1..c : size[i] = Cardinality(PartOf(S, part, i))
  BY DEF Divided
<1>1. IsFiniteSet(S)
  <2>1. IsFiniteSet(1..n) /\ S \subseteq 1..n  BY FS_Interval
  <2> QED  BY <2>1, FS_Subset
<1>2. \A A : A \subseteq S => IsFiniteSet(A) /\ Cardinality(A) \in Nat
  BY <1>1, FS_Subset, FS_CardinalityType
<1>3. \A i \in 1..c : size[i] \in Int
  <2> TAKE i \in 1..c
  <2>1. PartOf(S, part, i) \subseteq S  BY DEF PartOf
  <2>2. Cardinality(PartOf(S, part, i)) \in Nat  BY <1>2, <2>1
  <2> QED  BY <1>0, <2>2
<1>4. PICK g : AddsUp(g, 1..c, size) /\ Total(1..c, size) = g[1..c]
  <2>1. 1..c \in SUBSET (1..c)  OBVIOUS
  <2> QED  BY <1>3, <2>1, TotalAddsUp
<1>5. g[{}] = 0 /\ \A s \in SUBSET (1..c) : \A i \in s : g[s] = g[s \ {i}] + size[i]
  BY <1>4 DEF AddsUp
<1>6. PICK upTo : upTo = [k \in 0..c |-> {r \in S : part[r] \in 1..k}]  OBVIOUS
<1> DEFINE T == {k \in 0..c : g[1..k] = Cardinality(upTo[k])}
<1>7. 0 \in T
  <2>1. 0 \in 0..c /\ 1..0 = {}  OBVIOUS
  <2>2. upTo[0] = {}  BY <1>6, <2>1
  <2>3. Cardinality({}) = 0  BY FS_EmptySet
  <2>4. g[1..0] = Cardinality(upTo[0])  BY <1>5, <2>1, <2>2, <2>3, Zenon
  <2> QED  BY <2>1, <2>4
<1>8. \A k \in 1..c : k - 1 \in T => k \in T
  <2> TAKE k \in 1..c
  <2> HAVE k - 1 \in T
  <2>1. k - 1 \in 0..c /\ k \in 0..c  OBVIOUS
  <2>2. PICK old, own, new : /\ old = upTo[k - 1] /\ own = PartOf(S, part, k) /\ new = upTo[k]
    OBVIOUS
  <2>3. old = {r \in S : part[r] \in 1..(k - 1)} /\ new = {r \in S : part[r] \in 1..k}
    BY <1>6, <2>1, <2>2
  <2>4. old \subseteq S /\ own \subseteq S  BY <2>2, <2>3 DEF PartOf
  <2>5. \A j : j \in 1..k <=> j \in 1..(k - 1) \/ j = k  OBVIOUS
  <2>6. new = old \cup own /\ old \cap own = {}  BY <2>2, <2>3, <2>5 DEF PartOf
  <2>7. Cardinality(new) = Cardinality(old) + Cardinality(own)
    <3>1. IsFiniteSet(old) /\ IsFiniteSet(own) /\ Cardinality(old) \in Nat /\ Cardinality(own) \in Nat
      BY <1>2, <2>4
    <3>2. Cardinality(old \cup own) = Cardinality(old) + Cardinality(own) - Cardinality(old \cap own)
      BY <3>1, FS_Union
    <3>3. Cardinality(old \cap own) = 0  BY <2>6, FS_EmptySet
    <3> QED  BY <2>6, <3>1, <3>2, <3>3
  <2>8. g[1..k] = g[1..(k - 1)] + size[k]
    <3>1. 1..k \in SUBSET (1..c) /\ k \in 1..k /\ (1..k) \ {k} = 1..(k - 1)  OBVIOUS
    <3>2. g[1..k] = g[(1..k) \ {k}] + size[k]  BY <1>5, <3>1
    <3> QED  BY <3>1, <3>2
  <2>9. size[k] = Cardinality(own)  BY <1>0, <2>2
  <2>10. g[1..(k - 1)] = Cardinality(old)  BY <2>2
  <2>11. g[1..k] = Cardinality(upTo[k])  BY <2>2, <2>7, <2>8, <2>9, <2>10
  <2> QED  BY <2>1, <2>11
<1> HIDE DEF T
<1>9. 0..c \subseteq T  BY <1>7, <1>8, UpTo
<1>10. c \in 0..c /\ c \in T  BY <1>9
<1>11. upTo[c] = S
  <2>1. upTo[c] = {r \in S : part[r] \in 1..c}  BY <1>6, <1>10
  <2> QED  BY <1>0, <2>1
<1>12. g[1..c] = Cardinality(upTo[c])  BY <1>10 DEF T
<1> QED  BY <1>4, <1>11, <1>12

\* What becomes of the rows: they are observed, counted out, or outside.
SeriesDated(t, d) == {r \in DOMAIN t.rows : IsNumber(Cell(t, r, d.axis))}
SeriesOutside(t, d) ==
    {r \in SeriesDated(t, d) : d.use_range /\ \/ Less(NumberIn(Cell(t, r, d.axis)), d.start)
                                              \/ Less(d.end, NumberIn(Cell(t, r, d.axis)))}
SeriesObserved(t, d) ==
    {r \in SeriesDated(t, d) \ SeriesOutside(t, d) :
       \A m \in DOMAIN d.metrics : IsNumber(Cell(t, r, d.metrics[m]))}

LEMMA SeriesFates ==
    ASSUME NEW t, NEW d, TableValid(t)
    PROVE  /\ SeriesSeen(t, d) = SeriesObserved(t, d)
           /\ SeriesSkipped(t, d) =
                 DOMAIN t.rows \ (SeriesOutside(t, d) \cup SeriesObserved(t, d))
<1>1. ASSUME NEW r \in DOMAIN t.rows
      PROVE  /\ RowFate(t, d, r) = "observed" <=> r \in SeriesObserved(t, d)
             /\ RowFate(t, d, r) = "skipped" <=> r \notin SeriesOutside(t, d) \cup SeriesObserved(t, d)
  <2>1. Len(t.rows[r]) = Len(t.columns)  BY DEF TableValid
  <2>2. CASE ~IsNumber(Cell(t, r, d.axis))
    <3>1. RowFate(t, d, r) = "skipped"  BY <2>1, <2>2 DEF RowFate
    <3>2. r \notin SeriesDated(t, d)  BY <2>2 DEF SeriesDated
    <3> QED  BY <3>1, <3>2 DEF SeriesOutside, SeriesObserved
  <2>3. CASE IsNumber(Cell(t, r, d.axis))
    <3>1. PICK out \in BOOLEAN :
             out = (d.use_range /\ \/ Less(NumberIn(Cell(t, r, d.axis)), d.start)
                                   \/ Less(d.end, NumberIn(Cell(t, r, d.axis))))
      OBVIOUS
    <3>2. r \in SeriesDated(t, d)  BY <2>3 DEF SeriesDated
    <3>3. r \in SeriesOutside(t, d) <=> out  BY <3>1, <3>2 DEF SeriesOutside
    <3>4. PICK usable \in BOOLEAN : usable = \A m \in DOMAIN d.metrics : IsNumber(Cell(t, r, d.metrics[m]))
      OBVIOUS
    <3>5. r \in SeriesObserved(t, d) <=> ~out /\ usable  BY <3>2, <3>3, <3>4 DEF SeriesObserved
    <3>6. RowFate(t, d, r) = IF out THEN "outside" ELSE IF usable THEN "observed" ELSE "skipped"
      BY <2>1, <2>3, <3>1, <3>4 DEF RowFate
    <3> QED  BY <3>3, <3>5, <3>6
  <2> QED  BY <2>2, <2>3
<1>2. SeriesObserved(t, d) \subseteq DOMAIN t.rows /\ SeriesOutside(t, d) \subseteq DOMAIN t.rows
  BY DEF SeriesObserved, SeriesOutside, SeriesDated
<1>3. SeriesSeen(t, d) = SeriesObserved(t, d)  BY <1>1, <1>2 DEF SeriesSeen
<1>4. SeriesSkipped(t, d) = DOMAIN t.rows \ (SeriesOutside(t, d) \cup SeriesObserved(t, d))
  BY <1>1 DEF SeriesSkipped
<1> QED  BY <1>3, <1>4

\* The rows that the interval of a bucket covers, and those that none can cover.
SeriesCovers(t, d, how, i) ==
    {r \in SeriesSeen(t, d) :
       /\ SeriesAxis(t, d)[r] # NaN
       /\ \/ AtMost(SeriesBucket(t, d, how, i - 1).start, SeriesAxis(t, d)[r])
             /\ Less(SeriesAxis(t, d)[r], SeriesBucket(t, d, how, i - 1).end)
          \/ i = SeriesCount(t, d, how) /\ SeriesAxis(t, d)[r] = SeriesEnd(t, d)}
SeriesStray(t, d) == {r \in SeriesSeen(t, d) : SeriesAxis(t, d)[r] = NaN}

\* The bounds of the buckets of a finite range.
LEMMA SeriesBounds ==
    ASSUME NEW t, NEW d, IsTable(t), DescAccepted(d), {d.width, d.start, d.end} \subseteq Int,
           SeriesSeen(t, d) # {}, NEW how, SeriesStart(t, d) \in Int, SeriesEnd(t, d) \in Int
    PROVE  /\ \A i \in 1..SeriesCount(t, d, how) :
                /\ SeriesBucket(t, d, how, i - 1).start \in Int
                /\ SeriesBucket(t, d, how, i - 1).start = SeriesStart(t, d) + (i - 1) * d.width
                /\ SeriesBucket(t, d, how, i - 1).end \in Int
                /\ SeriesBucket(t, d, how, i - 1).end
                     = IF i = SeriesCount(t, d, how) THEN SeriesEnd(t, d) ELSE SeriesStart(t, d) + i * d.width
           /\ SeriesBucket(t, d, how, 0).start = SeriesStart(t, d)
           /\ SeriesBucket(t, d, how, SeriesCount(t, d, how) - 1).end = SeriesEnd(t, d)
           /\ \A i \in 1..SeriesCount(t, d, how) - 1 :
                 SeriesBucket(t, d, how, i - 1).end = SeriesBucket(t, d, how, i).start
<1>1. PICK start, end \in Int, width, count \in Nat :
         /\ start = SeriesStart(t, d) /\ end = SeriesEnd(t, d) /\ width = d.width /\ width > 0
         /\ count = SeriesCount(t, d, how) /\ count > 0
  BY SeriesRange, SeriesPlaced
<1>2. \A b : /\ SeriesBucket(t, d, how, b).start = Plus(start, b * width)
             /\ SeriesBucket(t, d, how, b).end = IF b + 1 = count THEN end ELSE Plus(start, (b + 1) * width)
  BY <1>1 DEF SeriesBucket
<1>3. ASSUME NEW b \in Int PROVE Plus(start, b * width) \in Int /\ Plus(start, b * width) = start + b * width
  <2>1. PICK far \in Int : far = b * width  BY <1>1, ProductGrows
  <2>2. Plus(start, far) = start + far  BY FiniteDoubles
  <2>3. PICK sum \in Int : sum = start + far  OBVIOUS
  <2>4. Plus(start, b * width) = sum  BY <2>1, <2>2, <2>3
  <2> QED  BY <2>1, <2>3, <2>4
<1>4. ASSUME NEW i \in 1..count
      PROVE  /\ SeriesBucket(t, d, how, i - 1).start \in Int
             /\ SeriesBucket(t, d, how, i - 1).start = start + (i - 1) * width
             /\ SeriesBucket(t, d, how, i - 1).end \in Int
             /\ SeriesBucket(t, d, how, i - 1).end = IF i = count THEN end ELSE start + i * width
  <2>1. i \in Int /\ i - 1 \in Int /\ (i - 1) + 1 = i  OBVIOUS
  <2>2. SeriesBucket(t, d, how, i - 1).start = Plus(start, (i - 1) * width)  BY <1>2
  <2>3. SeriesBucket(t, d, how, i - 1).end = IF i = count THEN end ELSE Plus(start, i * width)
    BY <1>2, <2>1
  <2>4. Plus(start, (i - 1) * width) \in Int /\ Plus(start, (i - 1) * width) = start + (i - 1) * width
    BY <1>3, <2>1
  <2>5. Plus(start, i * width) \in Int /\ Plus(start, i * width) = start + i * width
    BY <1>3, <2>1
  <2> QED  BY <1>1, <2>2, <2>3, <2>4, <2>5
<1>5. SeriesBucket(t, d, how, 0).start = start /\ SeriesBucket(t, d, how, count - 1).end = end
  <2>1. 0 * width = 0 /\ (count - 1) + 1 = count /\ 0 \in Int  BY <1>1
  <2>2. Plus(start, 0 * width) = start + 0 * width  BY <1>3, <2>1
  <2>3. start + 0 * width = start  BY <2>1
  <2> QED  BY <1>2, <2>1, <2>2, <2>3
<1>6. \A i \in 1..count - 1 : SeriesBucket(t, d, how, i - 1).end = SeriesBucket(t, d, how, i).start
  <2> TAKE i \in 1..count - 1
  <2>1. (i - 1) + 1 = i /\ i # count  BY <1>1
  <2> QED  BY <1>2, <2>1
<1> QED  BY <1>1, <1>4, <1>5, <1>6

\* In a finite range whose buckets can be counted, the rows of a bucket are
\* those that its interval covers, and the first or the last bucket has the
\* rows besides that no interval can cover.
LEMMA SeriesCovered ==
    ASSUME NEW t, NEW d, IsTable(t), DescAccepted(d), {d.width, d.start, d.end} \subseteq Int,
           SeriesSeen(t, d) # {}, NEW how, SeriesStart(t, d) \in Int, SeriesEnd(t, d) \in Int,
           CeilDiv(SeriesEnd(t, d) - SeriesStart(t, d), d.width) < Word
    PROVE  /\ \A r \in SeriesSeen(t, d) \ SeriesStray(t, d) :
                 \E i \in 1..SeriesCount(t, d, how) : r \in SeriesCovers(t, d, how, i)
           /\ \E stray \in {1, SeriesCount(t, d, how)} : \A i \in 1..SeriesCount(t, d, how) :
                 SeriesMembers(t, d, how, i - 1)
                   = SeriesCovers(t, d, how, i) \cup (IF i = stray THEN SeriesStray(t, d) ELSE {})
<1>1. PICK start, end \in Int, width, count \in Nat :
         /\ start = SeriesStart(t, d) /\ end = SeriesEnd(t, d) /\ width = d.width /\ width > 0
         /\ count = SeriesCount(t, d, how) /\ count > 0 /\ start < end
  BY SeriesRange, SeriesPlaced
<1>2. PICK seen, x : seen = SeriesSeen(t, d) /\ x = SeriesAxis(t, d)  OBVIOUS
<1>3. count = HowMany(how, Minus(end, start), width)  BY <1>1 DEF SeriesCount
<1>4. count < Word
  <2>1. PICK range \in Nat : range = end - start /\ range > 0  BY <1>1
  <2>2. PICK c \in Nat : c = CeilDiv(range, width) /\ c > 0 /\ c < Word  BY <1>1, <2>1, Buckets
  <2>3. Minus(end, start) = range  BY <2>1, FiniteDoubles
  <2>4. Ceil(range, width) = c /\ c \in 1..Word - 1  BY <2>2, WordAssumption DEF Ceil
  <2> QED  BY <1>3, <2>2, <2>3, <2>4, CountIs
<1>5. ASSUME NEW r \in seen, x[r] # NaN PROVE x[r] \in start..end
  <2>1. x[r] \in Doubles /\ ~Less(x[r], start) /\ ~Less(end, x[r])  BY <1>1, <1>2, SeriesRange
  <2>2. x[r] # NegInf /\ x[r] # PosInf  BY <2>1, NumberAssumption DEF Less
  <2>3. PICK axis \in Int : axis = x[r]  BY <1>5, <2>1, <2>2 DEF Doubles
  <2>4. ~(axis < start) /\ ~(end < axis)
    <3>1. (Less(axis, start) <=> axis < start) /\ (Less(end, axis) <=> end < axis)  BY FiniteDoubles
    <3> QED  BY <2>1, <2>3, <3>1
  <2> QED  BY <2>3, <2>4
<1>6. ASSUME NEW r \in seen PROVE SeriesPlace(t, d, how, r) = BucketOf(how, x[r], start, end, width, count)
  BY <1>1, <1>2 DEF SeriesPlace
<1>7. ASSUME NEW r \in seen, x[r] # NaN
      PROVE  /\ SeriesPlace(t, d, how, r) \in Int /\ SeriesPlace(t, d, how, r) + 1 \in 1..count
             /\ \A i \in 1..count : r \in SeriesCovers(t, d, how, i) <=> SeriesPlace(t, d, how, r) + 1 = i
  <2>1. PICK axis \in start..end : axis = x[r]  BY <1>5, <1>7
  <2>2. PICK b \in Int : b = BucketOf(how, axis, start, end, width, count) /\ b = SeriesPlace(t, d, how, r)
    <3>1. BucketOf(how, axis, start, end, width, count) \in 0..count - 1  BY <1>1, BucketInRange
    <3> QED  BY <1>6, <2>1, <3>1
  <2>3. HasOneBucket(how, axis, start, end, width, count)  BY <1>1, <1>3, <2>1, RowBucket
  <2>4. /\ b + 1 \in 1..count
        /\ \A i \in 1..count :
              b + 1 = i <=> \/ start + (i - 1) * width <= axis
                               /\ axis < IF i = count THEN end ELSE start + i * width
                            \/ i = count /\ axis = end
    BY <2>2, <2>3, Zenon DEF HasOneBucket
  <2>5. ASSUME NEW i \in 1..count PROVE r \in SeriesCovers(t, d, how, i) <=> b + 1 = i
    <3>1. PICK from, to \in Int : /\ from = SeriesBucket(t, d, how, i - 1).start
                                  /\ from = start + (i - 1) * width
                                  /\ to = SeriesBucket(t, d, how, i - 1).end
                                  /\ to = IF i = count THEN end ELSE start + i * width
      BY <1>1, SeriesBounds
    <3>2. r \in SeriesCovers(t, d, how, i) <=>
             (AtMost(from, axis) /\ Less(axis, to)) \/ (i = count /\ axis = end)
      BY <1>1, <1>2, <1>7, <2>1, <3>1 DEF SeriesCovers
    <3>3. PICK at \in Int : at = axis  BY <1>1, <2>1
    <3>4. (AtMost(from, at) <=> from <= at) /\ (Less(at, to) <=> at < to)
      BY FiniteDoubles
    <3> QED  BY <2>4, <3>1, <3>2, <3>3, <3>4
  <2> QED  BY <2>2, <2>4, <2>5
<1>8. \A r \in seen : x[r] = NaN => \A i : r \notin SeriesCovers(t, d, how, i)
  BY <1>2 DEF SeriesCovers
<1>9. PICK stray \in {1, count} : \A r \in seen : x[r] = NaN => SeriesPlace(t, d, how, r) = stray - 1
  <2>1. Floor(Minus(NaN, start), width) = NaN  BY NumberAssumption DEF Minus, Plus, Floor
  <2>2. Cast(how, NaN) = IF how = "allOnes" THEN Word - 1 ELSE 0  BY NumberAssumption DEF Cast
  <2>3. BucketOf(how, NaN, start, end, width, count)
          = IF Cast(how, NaN) >= count THEN count - 1 ELSE Cast(how, NaN)
    BY <2>1 DEF BucketOf
  <2>4. CASE how = "allOnes"
    <3>1. BucketOf(how, NaN, start, end, width, count) = count - 1
      BY <1>1, <1>4, <2>2, <2>3, <2>4, WordAssumption
    <3> QED  BY <1>6, <3>1
  <2>5. CASE how # "allOnes"
    <3>1. BucketOf(how, NaN, start, end, width, count) = 1 - 1
      BY <1>1, <2>2, <2>3, <2>5
    <3> QED  BY <1>6, <3>1
  <2> QED  BY <2>4, <2>5
<1>10. ASSUME NEW i \in 1..count
       PROVE  SeriesMembers(t, d, how, i - 1)
                = SeriesCovers(t, d, how, i) \cup (IF i = stray THEN SeriesStray(t, d) ELSE {})
  <2>1. SeriesMembers(t, d, how, i - 1) = {r \in seen : SeriesPlace(t, d, how, r) = i - 1}
    BY <1>2, SeriesPlaced
  <2>2. SeriesStray(t, d) = {r \in seen : x[r] = NaN}  BY <1>2 DEF SeriesStray
  <2>3. SeriesCovers(t, d, how, i) \subseteq seen  BY <1>2 DEF SeriesCovers
  <2>4. ASSUME NEW r \in seen
        PROVE  SeriesPlace(t, d, how, r) = i - 1 <=>
                  r \in SeriesCovers(t, d, how, i) \/ (i = stray /\ x[r] = NaN)
    <3>1. CASE x[r] = NaN
      <4>1. SeriesPlace(t, d, how, r) = stray - 1 /\ r \notin SeriesCovers(t, d, how, i)
        BY <1>8, <1>9, <3>1
      <4>2. stray \in Int  BY <1>9
      <4> QED  BY <3>1, <4>1, <4>2
    <3>2. CASE x[r] # NaN
      <4>1. PICK b \in Int : b = SeriesPlace(t, d, how, r)  BY <1>7, <3>2
      <4>2. r \in SeriesCovers(t, d, how, i) <=> b + 1 = i  BY <1>7, <3>2, <4>1
      <4> QED  BY <3>2, <4>1, <4>2
    <3> QED  BY <3>1, <3>2
  <2>5. CASE i = stray  BY <2>1, <2>2, <2>3, <2>4, <2>5
  <2>6. CASE i # stray  BY <2>1, <2>3, <2>4, <2>6
  <2> QED  BY <2>5, <2>6
<1>11. \A r \in seen \ SeriesStray(t, d) : \E i \in 1..count : r \in SeriesCovers(t, d, how, i)
  <2> TAKE r \in seen \ SeriesStray(t, d)
  <2>1. x[r] # NaN  BY <1>2 DEF SeriesStray
  <2>2. PICK i \in 1..count : i = SeriesPlace(t, d, how, r) + 1  BY <1>7, <2>1
  <2> QED  BY <1>7, <2>1, <2>2
<1> QED  BY <1>1, <1>2, <1>9, <1>10, <1>11

\* Of any table the resampling compiler accepts, whatever its cells spell and
\* however a double that does not fit is cast: the rows observed, skipped and
\* outside the range are the rows of the table, each observed row is in one
\* bucket and gives each metric of it one sample; and in a finite range whose
\* buckets can be counted the buckets follow each other, each has the rows whose
\* axis value it covers, one at an end of the range has those with no such value
\* too, and the statistics of finite numbers are those of its rows.
THEOREM SeriesAccounted ==
    ASSUME NEW t, NEW d, IsTable(t), CanResample(t, d), IsTexts(d.metrics),
           {d.width, d.start, d.end} \subseteq Int, NEW how
    PROVE  SeriesAccounts(t, d, Resample(t, d, how))
<1> DEFINE s == Resample(t, d, how)
           usable(r, names) == \A i \in DOMAIN names : IsNumber(Cell(t, r, names[i]))
           dated == {r \in DOMAIN t.rows : usable(r, <<d.axis>>)}
           x == [r \in dated |-> NumberIn(Cell(t, r, d.axis))]
           outside == {r \in dated : d.use_range /\ (Less(x[r], d.start) \/ Less(d.end, x[r]))}
           observed == {r \in dated \ outside : usable(r, d.metrics)}
           placed == {r \in observed : x[r] # NaN}
           final == Len(s.buckets)
           covers(i) == {r \in placed : \/ AtMost(s.buckets[i].start, x[r]) /\ Less(x[r], s.buckets[i].end)
                                        \/ i = final /\ x[r] = s.source_end}
           members(i, stray) == covers(i) \cup (IF i = stray THEN observed \ placed ELSE {})
           finite == s.source_start \in Int /\ s.source_end \in Int
           countable == CeilDiv(s.source_end - s.source_start, d.width) < Word
           tallied == \A i \in 1..final : \A m \in DOMAIN d.metrics :
                         s.buckets[i].metrics[m].sample_count = s.buckets[i].source_row_count
           adjacent == /\ s.buckets[1].start = s.source_start /\ s.buckets[final].end = s.source_end
                       /\ \A i \in 1..final - 1 : s.buckets[i].end = s.buckets[i + 1].start
           filled(i, stray) ==
              /\ s.buckets[i].source_row_count = Cardinality(members(i, stray))
              /\ \A m \in DOMAIN d.metrics :
                  LET S == members(i, stray)
                      v == [r \in S |-> NumberIn(Cell(t, r, d.metrics[m]))]
                      a == s.buckets[i].metrics[m]
                  IN (\A r \in S : v[r] \in Int /\ x[r] \in Int)
                     => StatsDescribe(a, S, v, x) /\ SourcesDescribe(a, S, v, x)
<1>1. dated = SeriesDated(t, d) /\ \A r \in dated : x[r] = NumberIn(Cell(t, r, d.axis))
  <2>1. \A r : usable(r, <<d.axis>>) <=> IsNumber(Cell(t, r, d.axis))  OBVIOUS
  <2> HIDE DEF usable
  <2> QED  BY <2>1 DEF SeriesDated
<1>2. outside = SeriesOutside(t, d)
  <2> HIDE DEF dated, x
  <2> QED  BY <1>1 DEF SeriesOutside
<1>3. observed = SeriesObserved(t, d)
  <2> HIDE DEF dated, outside
  <2> QED  BY <1>1, <1>2 DEF SeriesObserved
<1> HIDE DEF dated, outside, observed
<1>4. PICK n \in Nat : DOMAIN t.rows = 1..n /\ Len(t.rows) = n
  BY SequenceIs DEF IsTable, IsSequence
<1>5. DescAccepted(d) /\ TableValid(t)  BY DEF CanResample
<1>6. /\ SeriesSeen(t, d) = observed
      /\ SeriesSkipped(t, d) = 1..n \ (outside \cup observed)
  BY <1>2, <1>3, <1>4, <1>5, SeriesFates
<1>7. dated \subseteq 1..n /\ outside \subseteq dated /\ observed \subseteq dated \ outside
  BY <1>4 DEF dated, outside, observed
<1>8. Cardinality(observed) + Cardinality(SeriesSkipped(t, d)) + Cardinality(outside) = n
  <2>1. PICK A, B, C : A = observed /\ B = SeriesSkipped(t, d) /\ C = outside  OBVIOUS
  <2>2. A \cup B \cup C = 1..n /\ A \cap B = {} /\ A \cap C = {} /\ B \cap C = {}
    BY <1>6, <1>7, <2>1
  <2> QED  BY <2>1, <2>2, RowsSplit
<1>9. x \in [dated -> Doubles] /\ \A r \in observed : x[r] = SeriesAxis(t, d)[r]
  <2>1. \A r \in dated : IsNumber(Cell(t, r, d.axis))  BY <1>1 DEF SeriesDated
  <2>2. \A r \in dated : x[r] \in Doubles  BY <1>1, <2>1, NumberRead
  <2>3. \A r \in observed : x[r] = SeriesAxis(t, d)[r]
    BY <1>1, <1>6, <1>7 DEF SeriesAxis
  <2> QED  BY <2>2, <2>3
<1> HIDE DEF x
<1>10. /\ s.parsed = Cardinality(observed) /\ s.skipped = Cardinality(SeriesSkipped(t, d))
       /\ Total(1..final, [i \in 1..final |-> s.buckets[i].source_row_count]) = s.parsed
       /\ tallied
       /\ observed # {} /\ finite => adjacent
       /\ observed # {} /\ finite /\ countable =>
            /\ \A r \in placed : \E i \in 1..final : r \in covers(i)
            /\ \E stray \in {1, final} : \A i \in 1..final : filled(i, stray)
  <2>1. CASE observed = {}
    <3>1. Cardinality(observed) = 0  BY <2>1, FS_EmptySet
    <3>2. s = [NoSeries EXCEPT !.skipped = Cardinality(SeriesSkipped(t, d))]
      BY <1>6, <2>1, ResampleIs
    <3>3. /\ s.parsed = Cardinality(observed) /\ s.skipped = Cardinality(SeriesSkipped(t, d))
          /\ s.buckets = <<>>
      BY <3>1, <3>2 DEF NoSeries
    <3>4. final = 0 /\ 1..final = {}  BY <3>3
    <3>5. Total(1..final, [i \in 1..final |-> s.buckets[i].source_row_count]) = 0
      <4>1. PICK size : size = [i \in 1..final |-> s.buckets[i].source_row_count]  OBVIOUS
      <4>2. \A i \in 1..0 : size[i] \in Int  OBVIOUS
      <4>3. PICK g : AddsUp(g, 1..0, size) /\ Total(1..0, size) = g[1..0]
        <5>1. 1..0 \in SUBSET (1..0)  OBVIOUS
        <5> QED  BY <4>2, <5>1, TotalAddsUp
      <4>4. Total(1..0, size) = 0
        <5>1. g[{}] = 0  BY <4>3 DEF AddsUp
        <5> QED  BY <4>3, <5>1
      <4> QED  BY <3>4, <4>1, <4>4
    <3>6. tallied  BY <3>4
    <3> HIDE DEF adjacent, tallied, filled
    <3> QED  BY <2>1, <3>1, <3>3, <3>5, <3>6
  <2>2. CASE observed # {}
    <3>1. PICK count \in Nat : count = SeriesCount(t, d, how) /\ count > 0
      BY <1>5, <1>6, <2>2, SeriesPlaced
    <3>2. PICK all : all = [i \in 1..count |-> SeriesBucket(t, d, how, i - 1)]  OBVIOUS
    <3>3. /\ s.source_start = SeriesStart(t, d) /\ s.source_end = SeriesEnd(t, d) /\ s.buckets = all
          /\ s.parsed = Cardinality(observed) /\ s.skipped = Cardinality(SeriesSkipped(t, d))
      <4>1. s = [source_start |-> SeriesStart(t, d), source_end |-> SeriesEnd(t, d),
                 parsed |-> Cardinality(observed), skipped |-> Cardinality(SeriesSkipped(t, d)),
                 buckets |-> all]
        <5>1. SeriesSeen(t, d) # {}  BY <1>6, <2>2
        <5>2. s = [source_start |-> SeriesStart(t, d), source_end |-> SeriesEnd(t, d),
                   parsed |-> Cardinality(SeriesSeen(t, d)),
                   skipped |-> Cardinality(SeriesSkipped(t, d)),
                   buckets |-> [i \in 1..SeriesCount(t, d, how) |-> SeriesBucket(t, d, how, i - 1)]]
          BY <5>1, ResampleIs
        <5>3. SeriesSeen(t, d) = observed  BY <1>6
        <5>4. [i \in 1..SeriesCount(t, d, how) |-> SeriesBucket(t, d, how, i - 1)] = all
          BY <3>1, <3>2
        <5> QED  BY <5>2, <5>3, <5>4, Zenon
      <4> QED  BY <4>1
    <3>4. final = count /\ \A i \in 1..count : s.buckets[i] = SeriesBucket(t, d, how, i - 1)
      BY <3>2, <3>3
    <3> HIDE DEF s, final
    <3>5. \A b : SeriesMembers(t, d, how, b) \in SUBSET (1..n)
                 /\ SeriesMembers(t, d, how, b) \subseteq observed
      BY <1>6, <1>7 DEF SeriesMembers
    <3>6. \A i \in 1..count : /\ s.buckets[i].source_row_count = Cardinality(SeriesMembers(t, d, how, i - 1))
                              /\ \A m \in DOMAIN d.metrics : s.buckets[i].metrics[m]
                                    = SeriesStats(t, d, how, i - 1, d.metrics[m])
      <4> TAKE i \in 1..count
      <4>1. PICK b : b = i - 1  OBVIOUS
      <4>2. s.buckets[i] = SeriesBucket(t, d, how, b)  BY <3>4, <4>1
      <4>3. /\ SeriesBucket(t, d, how, b).source_row_count = Cardinality(SeriesMembers(t, d, how, b))
            /\ \A m \in DOMAIN d.metrics : SeriesBucket(t, d, how, b).metrics[m]
                                             = SeriesStats(t, d, how, b, d.metrics[m])
        BY DEF SeriesBucket
      <4> QED  BY <4>1, <4>2, <4>3, Zenon
    <3>7. Total(1..final, [i \in 1..final |-> s.buckets[i].source_row_count]) = s.parsed
      <4>1. PICK size : size = [i \in 1..count |-> s.buckets[i].source_row_count]  OBVIOUS
      <4>2. PICK part : part = [r \in observed |-> SeriesPlace(t, d, how, r) + 1]  OBVIOUS
      <4>3. \A r \in observed : SeriesPlace(t, d, how, r) \in 0..count - 1
        BY <1>5, <1>6, <2>2, <3>1, SeriesPlaced
      <4>4. \A r \in observed : part[r] \in 1..count  BY <4>2, <4>3
      <4>5. ASSUME NEW i \in 1..count PROVE size[i] = Cardinality(PartOf(observed, part, i))
        <5>1. SeriesMembers(t, d, how, i - 1) = {r \in observed : SeriesPlace(t, d, how, r) = i - 1}
          <6>1. SeriesSeen(t, d) = observed /\ SeriesSeen(t, d) # {}  BY <1>6, <2>2
          <6>2. \A b : SeriesMembers(t, d, how, b) = {r \in SeriesSeen(t, d) : SeriesPlace(t, d, how, r) = b}
            <7>1. \A r \in SeriesSeen(t, d) : /\ ~Less(SeriesAxis(t, d)[r], SeriesStart(t, d))
                                              /\ ~Less(SeriesEnd(t, d), SeriesAxis(t, d)[r])
              BY <1>5, <6>1, SeriesRange
            <7> QED  BY <7>1 DEF SeriesMembers
          <6>3. SeriesMembers(t, d, how, i - 1) = {r \in SeriesSeen(t, d) : SeriesPlace(t, d, how, r) = i - 1}
            BY <6>2
          <6> QED  BY <6>1, <6>3, Zenon
        <5>2. \A r \in observed : part[r] = i <=> SeriesPlace(t, d, how, r) = i - 1
          BY <4>2, <4>3
        <5>3. PartOf(observed, part, i) = SeriesMembers(t, d, how, i - 1)  BY <5>1, <5>2 DEF PartOf
        <5>4. size[i] = Cardinality(SeriesMembers(t, d, how, i - 1))  BY <3>6, <4>1
        <5> QED  BY <5>3, <5>4
      <4>6. observed \in SUBSET (1..n)  BY <1>7
      <4>7. PICK S : S = observed  OBVIOUS
      <4>8. Total(1..count, size) = Cardinality(S)
        <5>1. S \in SUBSET (1..n)  BY <4>6, <4>7
        <5>2. Divided(S, part, count, size)  BY <4>4, <4>5, <4>7 DEF Divided
        <5> QED  BY <5>1, <5>2, PartsAddUp
      <4> QED  BY <3>3, <3>4, <4>1, <4>7, <4>8
    <3>8. ASSUME NEW i \in 1..count, NEW m \in DOMAIN d.metrics, NEW M, NEW v,
                 M = SeriesMembers(t, d, how, i - 1),
                 v = [r \in M |-> NumberIn(Cell(t, r, d.metrics[m]))]
          PROVE  /\ s.buckets[i].metrics[m] = SampleStats(M, v, SeriesAxis(t, d))
                 /\ \A r \in M : v[r] \in Doubles /\ SeriesAxis(t, d)[r] \in Doubles
                                 /\ x[r] = SeriesAxis(t, d)[r]
      <4>1. s.buckets[i].metrics[m] = SampleStats(M, v, SeriesAxis(t, d))
        BY <3>6, <3>8 DEF SeriesStats
      <4>2. ASSUME NEW r \in M
            PROVE  v[r] \in Doubles /\ SeriesAxis(t, d)[r] \in Doubles /\ x[r] = SeriesAxis(t, d)[r]
        <5>1. r \in observed /\ r \in SeriesSeen(t, d) /\ r \in dated  BY <1>6, <1>7, <3>5, <3>8
        <5>2. RowFate(t, d, r) = "observed"  BY <5>1 DEF SeriesSeen
        <5>3. IsNumber(Cell(t, r, d.metrics[m]))  BY <5>2, ObservedRow
        <5>4. v[r] \in Doubles  BY <3>8, <5>3, NumberRead
        <5> QED  BY <1>9, <5>1, <5>4
      <4> QED  BY <4>1, <4>2
    <3>9. tallied
      <4>1. ASSUME NEW i \in 1..count, NEW m \in DOMAIN d.metrics
            PROVE  s.buckets[i].metrics[m].sample_count = s.buckets[i].source_row_count
        <5>1. PICK M : M = SeriesMembers(t, d, how, i - 1)  OBVIOUS
        <5>2. PICK v : v = [r \in M |-> NumberIn(Cell(t, r, d.metrics[m]))]  OBVIOUS
        <5>3. M \in SUBSET (1..n)  BY <3>5, <5>1
        <5>4. SampleStats(M, v, SeriesAxis(t, d)).sample_count = Cardinality(M)
          <6>1. PICK y : y = SeriesAxis(t, d)  OBVIOUS
          <6>2. \A r \in M : v[r] \in Doubles /\ y[r] \in Doubles  BY <3>8, <5>1, <5>2, <6>1
          <6>3. SampleStats(M, v, y).sample_count = Cardinality(M)  BY <5>3, <6>2, SampleCount
          <6> QED  BY <6>1, <6>3
        <5> QED  BY <3>6, <3>8, <5>1, <5>2, <5>4
      <4> QED  BY <3>4, <4>1
    <3>10. ASSUME finite PROVE adjacent
      <4>1. SeriesStart(t, d) \in Int /\ SeriesEnd(t, d) \in Int  BY <3>3, <3>10
      <4>2. /\ SeriesBucket(t, d, how, 0).start = SeriesStart(t, d)
            /\ SeriesBucket(t, d, how, count - 1).end = SeriesEnd(t, d)
            /\ \A i \in 1..count - 1 :
                  SeriesBucket(t, d, how, i - 1).end = SeriesBucket(t, d, how, i).start
        BY <1>5, <1>6, <2>2, <3>1, <4>1, SeriesBounds
      <4>3. s.buckets[1].start = s.source_start /\ s.buckets[final].end = s.source_end
        <5>1. 1 \in 1..count /\ count \in 1..count /\ 1 - 1 = 0  BY <3>1
        <5> QED  BY <3>3, <3>4, <4>2, <5>1
      <4>4. \A i \in 1..final - 1 : s.buckets[i].end = s.buckets[i + 1].start
        <5> TAKE i \in 1..final - 1
        <5>1. i \in 1..count /\ i + 1 \in 1..count /\ (i + 1) - 1 = i /\ i \in 1..count - 1
          BY <3>1, <3>4
        <5> QED  BY <3>4, <4>2, <5>1
      <4> QED  BY <4>3, <4>4
    <3>11. \A i \in 1..count : covers(i) = SeriesCovers(t, d, how, i)
      <4> TAKE i \in 1..count
      <4>1. covers(i) = {r \in observed : x[r] # NaN
                           /\ (\/ AtMost(s.buckets[i].start, x[r]) /\ Less(x[r], s.buckets[i].end)
                               \/ i = final /\ x[r] = s.source_end)}
        OBVIOUS
      <4>2. SeriesBucket(t, d, how, i - 1) = s.buckets[i]  BY <3>4
      <4> QED  BY <1>6, <1>9, <3>1, <3>3, <3>4, <4>1, <4>2 DEF SeriesCovers
    <3>12. observed \ placed = SeriesStray(t, d)  BY <1>6, <1>9 DEF SeriesStray
    <3>13. placed = SeriesSeen(t, d) \ SeriesStray(t, d)  BY <1>6, <1>9 DEF SeriesStray
    <3> HIDE DEF covers, placed, adjacent, tallied
    <3>14. ASSUME finite, countable
           PROVE  /\ \A r \in placed : \E i \in 1..final : r \in covers(i)
                  /\ \E stray \in {1, final} : \A i \in 1..final : filled(i, stray)
      <4>1. /\ SeriesStart(t, d) \in Int /\ SeriesEnd(t, d) \in Int
            /\ CeilDiv(SeriesEnd(t, d) - SeriesStart(t, d), d.width) < Word
        BY <3>3, <3>14
      <4>2. \A r \in placed : \E i \in 1..final : r \in covers(i)
        <5> TAKE r \in placed
        <5>1. PICK i \in 1..count : r \in SeriesCovers(t, d, how, i)
          BY <1>5, <1>6, <2>2, <3>1, <3>13, <4>1, SeriesCovered
        <5> QED  BY <3>4, <3>11, <5>1
      <4>3. PICK stray \in {1, count} : \A i \in 1..count :
               SeriesMembers(t, d, how, i - 1)
                 = SeriesCovers(t, d, how, i) \cup (IF i = stray THEN SeriesStray(t, d) ELSE {})
        BY <1>5, <1>6, <2>2, <3>1, <4>1, SeriesCovered
      <4>4. \A i \in 1..count : SeriesMembers(t, d, how, i - 1) = members(i, stray)
        BY <3>11, <3>12, <4>3
      <4> HIDE DEF members
      <4>5. ASSUME NEW i \in 1..count PROVE filled(i, stray)
        <5>1. PICK M : M = members(i, stray)  OBVIOUS
        <5>2. M = SeriesMembers(t, d, how, i - 1)  BY <4>4, <5>1
        <5>3. s.buckets[i].source_row_count = Cardinality(M)  BY <3>6, <5>2
        <5>4. ASSUME NEW m \in DOMAIN d.metrics, NEW v,
                     v = [r \in M |-> NumberIn(Cell(t, r, d.metrics[m]))],
                     \A r \in M : v[r] \in Int /\ x[r] \in Int
              PROVE  /\ StatsDescribe(s.buckets[i].metrics[m], M, v, x)
                     /\ SourcesDescribe(s.buckets[i].metrics[m], M, v, x)
          <6>1. /\ s.buckets[i].metrics[m] = SampleStats(M, v, SeriesAxis(t, d))
                /\ \A r \in M : x[r] = SeriesAxis(t, d)[r]
            BY <3>8, <5>2, <5>4
          <6>2. M \in SUBSET (1..n)  BY <3>5, <5>2
          <6>3. \A r \in M : v[r] \in Int /\ SeriesAxis(t, d)[r] \in Int /\ x[r] = SeriesAxis(t, d)[r]
            BY <5>4, <6>1
          <6>4. /\ StatsDescribe(SampleStats(M, v, SeriesAxis(t, d)), M, v, x)
                /\ SourcesDescribe(SampleStats(M, v, SeriesAxis(t, d)), M, v, x)
            BY <6>2, <6>3, SamplesDescribed
          <6> QED  BY <6>1, <6>4
        <5> QED  BY <5>1, <5>3, <5>4, Zenon
      <4> HIDE DEF filled
      <4>6. \A i \in 1..final : filled(i, stray)  BY <3>4, <4>5
      <4> QED  BY <3>4, <4>2, <4>3, <4>6
    <3> HIDE DEF filled, finite, countable
    <3> QED  BY <3>3, <3>7, <3>9, <3>10, <3>14
  <2> HIDE DEF s, final, placed, covers, filled, finite, countable, adjacent, tallied
  <2> QED  BY <2>1, <2>2
<1>11. s.parsed + s.skipped + Cardinality(outside) = Len(t.rows)
  BY <1>4, <1>8, <1>10
<1> QED  BY <1>10, <1>11, Zenon DEF SeriesAccounts, dated, outside, observed, x

\* One value more, placed where it comes among the values.
LEMMA ValueTallied ==
    ASSUME NEW a \in Tallies, NEW value \in Doubles
    PROVE  AddValue(a, value) \in Tallies /\ AddValue(a, value).sample_count = a.sample_count + 1
<1>1. PICK place \in Int : place = a.sample_count + 1  BY DEF Tallies
<1>2. place \in Doubles /\ 0 \in Int  BY <1>1 DEF Doubles
<1> QED  BY <1>1, <1>2, SampleTallied DEF AddValue

ValueRun(run, n, S, v) ==
    /\ run[0] = NoStats
    /\ \A k \in 1..n : run[k] = IF k \in S THEN AddValue(run[k - 1], v[k]) ELSE run[k - 1]

LEMMA ValuesRun ==
    ASSUME NEW n \in Nat, NEW S \in SUBSET (1..n), NEW v, \A r \in S : v[r] \in Doubles
    PROVE  \E run : run[n] = ValueStats(S, v) /\ ValueRun(run, n, S, v)
<1>1. PICK step : step = [p \in Tallies \X (1..n) |->
                            IF p[2] \in S THEN AddValue(p[1], v[p[2]]) ELSE p[1]]
  OBVIOUS
<1>2. step \in [Tallies \X (1..n) -> Tallies]
  <2> SUFFICES ASSUME NEW p \in Tallies \X (1..n)
               PROVE  (IF p[2] \in S THEN AddValue(p[1], v[p[2]]) ELSE p[1])
                         \in Tallies
    BY <1>1
  <2>1. PICK a \in Tallies, r \in 1..n : a = p[1] /\ r = p[2]  OBVIOUS
  <2>2. r \in S => AddValue(a, v[r]) \in Tallies
    <3> QED  BY ValueTallied
  <2> QED  BY <2>1, <2>2
<1>3. NoStats \in Tallies  BY DEF NoStats, Tallies, Doubles
<1>4. PICK f \in [SUBSET (1..n) -> Tallies] : IsFold(f, n, NoStats, step)
  BY <1>2, <1>3, FoldIsDefined
<1>5. PICK g : g = [s \in SUBSET S |-> f[s]]  OBVIOUS
<1>6. g = [s \in SUBSET S |-> IF s = {} THEN NoStats
                              ELSE AddValue(g[s \ {Max(s)}], v[Max(s)])]
  <2>1. ASSUME NEW s \in SUBSET S, s # {}
        PROVE  g[s] = AddValue(g[s \ {Max(s)}], v[Max(s)])
    <3>1. PICK m : m = Max(s)  OBVIOUS
    <3>2. m \in s /\ m \in 1..n /\ m \in S /\ s \in SUBSET (1..n)
      <4>1. s \in SUBSET (1..n)  OBVIOUS
      <4> QED  BY <2>1, <3>1, <4>1, MaxUpTo
    <3>3. f[s] = step[<<f[s \ {m}], m>>]  BY <1>4, <2>1, <3>1, <3>2 DEF IsFold
    <3>q. PICK q \in Tallies : q = f[s \ {m}]
      <4>1. f[s \ {m}] \in Tallies  BY <1>4, <3>2
      <4> QED  BY <4>1
    <3>p. PICK p : p = <<q, m>>  OBVIOUS
    <3>4. p = <<f[s \ {m}], m>> /\ p \in Tallies \X (1..n) /\ p[1] = f[s \ {m}] /\ p[2] = m
      <4>1. p \in Tallies \X (1..n) /\ p[1] = q /\ p[2] = m  BY <3>2, <3>p
      <4> QED  BY <3>q, <3>p, <4>1
    <3>5. step[p] = AddValue(f[s \ {m}], v[m])  BY <1>1, <3>2, <3>4
    <3>6. g[s] = f[s] /\ g[s \ {m}] = f[s \ {m}]  BY <1>5
    <3> QED  BY <3>1, <3>3, <3>4, <3>5, <3>6
  <2>2. g[{}] = NoStats  BY <1>4, <1>5 DEF IsFold
  <2>3. g = [s \in SUBSET S |-> g[s]]  BY <1>5
  <2> QED  BY <2>1, <2>2, <2>3
<1>7. PICK h : /\ h = [s \in SUBSET S |->
                         IF s = {} THEN NoStats
                         ELSE AddValue(h[s \ {Max(s)}], v[Max(s)])]
               /\ ValueStats(S, v) = h[S]
  BY <1>6 DEF ValueStats, MapThenFoldSet
<1>8. \A s \in SUBSET S :
         h[s] = IF s = {} THEN NoStats
                ELSE AddValue(h[s \ {Max(s)}], v[Max(s)])
  BY <1>7
<1>9. PICK run : run = [k \in 0..n |-> h[S \cap (1..k)]]  OBVIOUS
<1>11. run[0] = NoStats
  <2>1. S \cap (1..0) = {} /\ {} \in SUBSET S  OBVIOUS
  <2>2. h[{}] = NoStats  BY <1>8, <2>1
  <2>3. run[0] = h[S \cap (1..0)]  BY <1>9
  <2> QED  BY <2>1, <2>2, <2>3
<1>12. ASSUME NEW k \in 1..n
       PROVE  run[k] = IF k \in S THEN AddValue(run[k - 1], v[k]) ELSE run[k - 1]
  <2>1. PICK s, u : s = S \cap (1..k) /\ u = S \cap (1..(k - 1))  OBVIOUS
  <2>2. run[k] = h[s] /\ run[k - 1] = h[u]
    <3>1. k \in 0..n /\ k - 1 \in 0..n  OBVIOUS
    <3> QED  BY <1>9, <2>1, <3>1
  <2>3. CASE k \notin S
    <3>1. s = u  BY <2>1, <2>3
    <3> QED  BY <2>2, <2>3, <3>1
  <2>4. CASE k \in S
    <3>1. s \ {k} = u
      <4>1. (S \cap (1..k)) \ {k} = S \cap (1..(k - 1))  BY <2>4, OneMore
      <4> QED  BY <2>1, <4>1
    <3>2. Max(s) = k
      <4>1. s \in SUBSET (1..k) /\ k \in s /\ k \in Nat  BY <2>1, <2>4
      <4> QED  BY <4>1, MaxIsLast
    <3>3. s \in SUBSET S /\ s # {}  BY <2>1, <2>4
    <3>4. h[s] = AddValue(h[u], v[k])  BY <1>8, <3>1, <3>2, <3>3
    <3> QED  BY <2>2, <2>4, <3>4
  <2> QED  BY <2>3, <2>4
<1>13. run[n] = ValueStats(S, v)
  <2>1. S \cap (1..n) = S  BY OneMore
  <2>2. n \in 0..n  OBVIOUS
  <2>3. run[n] = h[S \cap (1..n)]  BY <1>9, <2>2
  <2> QED  BY <1>7, <2>1, <2>3, Zenon
<1> QED  BY <1>11, <1>12, <1>13, Zenon DEF ValueRun

\* Adding them is adding samples that are placed by their order.
NoSources(S) == [r \in S |-> 0]
PlacesIn(S) == [r \in S |-> Cardinality({q \in S : q <= r})]

LEMMA ValuesPlaced ==
    ASSUME NEW n \in Nat, NEW S \in SUBSET (1..n), NEW v, \A r \in S : v[r] \in Doubles
    PROVE  \E run : /\ run[n] = ValueStats(S, v)
                    /\ SampleRun(run, n, S, v, PlacesIn(S), NoSources(S))
                    /\ \A k \in 0..n : run[k].sample_count = Cardinality(S \cap (1..k))
<1>0. PICK run : run[n] = ValueStats(S, v) /\ ValueRun(run, n, S, v)  BY ValuesRun
<1>1. /\ run[0] = NoStats /\ run[n] = ValueStats(S, v)
      /\ \A k \in 1..n : run[k] = IF k \in S THEN AddValue(run[k - 1], v[k]) ELSE run[k - 1]
  BY <1>0, Zenon DEF ValueRun
<1>2. PICK source, place : /\ source = NoSources(S) /\ source = [r \in S |-> 0] /\ place = PlacesIn(S)
                           /\ place = [r \in S |-> Cardinality({q \in S : q <= r})]
  BY DEF PlacesIn, NoSources
<1> DEFINE T == {k \in 0..n : /\ run[k] \in Tallies
                              /\ run[k].sample_count = Cardinality(S \cap (1..k))}
<1>3. 0 \in T
  <2>1. NoStats \in Tallies /\ NoStats.sample_count = 0  BY DEF NoStats, Tallies, Doubles
  <2>2. S \cap (1..0) = {} /\ Cardinality({}) = 0  BY FS_EmptySet
  <2>3. 0 \in 0..n  OBVIOUS
  <2>4. run[0] \in Tallies /\ run[0].sample_count = Cardinality(S \cap (1..0))
    BY <1>1, <2>1, <2>2, Zenon
  <2> QED  BY <2>3, <2>4
<1>4. \A k \in 1..n : k - 1 \in T => k \in T
  <2> TAKE k \in 1..n
  <2> HAVE k - 1 \in T
  <2>1. k - 1 \in 0..n /\ k \in 0..n  OBVIOUS
  <2>2. PICK a \in Tallies : a = run[k - 1] /\ a.sample_count = Cardinality(S \cap (1..(k - 1)))
    OBVIOUS
  <2>3. run[k] \in Tallies /\ run[k].sample_count = Cardinality(S \cap (1..k))
    <3>1. CASE k \notin S
      <4>1. S \cap (1..k) = S \cap (1..(k - 1))  BY <3>1, OneMore
      <4>2. run[k] = a  BY <1>1, <2>2, <3>1
      <4> QED  BY <2>2, <4>1, <4>2
    <3>2. CASE k \in S
      <4>1. Cardinality(S \cap (1..k)) = Cardinality(S \cap (1..(k - 1))) + 1  BY <3>2, OneMore
      <4>2. run[k] = AddValue(a, v[k])  BY <1>1, <2>2, <3>2
      <4>3. AddValue(a, v[k]) \in Tallies /\ AddValue(a, v[k]).sample_count = a.sample_count + 1
        <5>1. PICK value \in Doubles : value = v[k]  BY <3>2
        <5> QED  BY <5>1, ValueTallied
      <4> QED  BY <2>2, <4>1, <4>2, <4>3
    <3> QED  BY <3>1, <3>2
  <2> QED  BY <2>1, <2>3
<1> HIDE DEF T
<1>5. 0..n \subseteq T  BY <1>3, <1>4, UpTo
<1>6. \A k \in 0..n : run[k].sample_count = Cardinality(S \cap (1..k))  BY <1>5 DEF T
<1>7. ASSUME NEW k \in 1..n
      PROVE  run[k] = IF k \in S THEN AddSample(run[k - 1], v[k], place[k], source[k]) ELSE run[k - 1]
  <2>1. CASE k \notin S  BY <1>1, <2>1
  <2>2. CASE k \in S
    <3>1. k - 1 \in 0..n  OBVIOUS
    <3>2. {q \in S : q <= k} = S \cap (1..k)
      <4>1. \A q \in S : q <= k <=> q \in 1..k  OBVIOUS
      <4> QED  BY <4>1
    <3>3. place[k] = Cardinality(S \cap (1..k))  BY <1>2, <2>2, <3>2
    <3>4. Cardinality(S \cap (1..k)) = Cardinality(S \cap (1..(k - 1))) + 1  BY <2>2, OneMore, ZenonT(60)
    <3>5. run[k - 1].sample_count + 1 = place[k]  BY <1>6, <3>1, <3>3, <3>4
    <3>6. source[k] = 0  BY <1>2, <2>2
    <3>7. run[k] = AddValue(run[k - 1], v[k])  BY <1>1, <2>2
    <3> QED  BY <2>2, <3>5, <3>6, <3>7 DEF AddValue
  <2> QED  BY <2>1, <2>2
<1>8. SampleRun(run, n, S, v, place, source)  BY <1>1, <1>7 DEF SampleRun
<1> QED  BY <1>1, <1>2, <1>6, <1>8

\* The statistics of the summary compiler count the values whatever they are,
\* and are those of finite values, each placed where it comes among them.
LEMMA ValuesDescribed ==
    ASSUME NEW n \in Nat, NEW S \in SUBSET (1..n), NEW v, \A r \in S : v[r] \in Doubles
    PROVE  /\ ValueStats(S, v).sample_count = Cardinality(S)
           /\ (\A r \in S : v[r] \in Int)
              => StatsDescribe(ValueStats(S, v), S, v, [r \in S |-> Cardinality({q \in S : q <= r})])
<1>1. PICK source, place : /\ source = NoSources(S) /\ source = [r \in S |-> 0] /\ place = PlacesIn(S)
                           /\ place = [r \in S |-> Cardinality({q \in S : q <= r})]
  BY DEF PlacesIn, NoSources
<1>2. PICK run : /\ run[n] = ValueStats(S, v) /\ SampleRun(run, n, S, v, place, source)
                 /\ \A k \in 0..n : run[k].sample_count = Cardinality(S \cap (1..k))
  <2>1. \E run : /\ run[n] = ValueStats(S, v) /\ SampleRun(run, n, S, v, PlacesIn(S), NoSources(S))
                 /\ \A k \in 0..n : run[k].sample_count = Cardinality(S \cap (1..k))
    BY ValuesPlaced
  <2> QED  BY <1>1, <2>1, Zenon
<1>3. ValueStats(S, v).sample_count = Cardinality(S)
  <2>1. S \cap (1..n) = S /\ n \in 0..n
    <3>1. n \in 0..n  OBVIOUS
    <3> QED  BY <3>1, OneMore
  <2> QED  BY <1>2, <2>1, Zenon
<1>4. ASSUME \A r \in S : v[r] \in Int PROVE StatsDescribe(ValueStats(S, v), S, v, place)
  <2>1. \A r \in S : v[r] \in Int /\ place[r] \in Int /\ source[r] \in Int
    <3> TAKE r \in S
    <3>0. r \in 1..n  OBVIOUS
    <3>1. r \in 0..n  BY <3>0
    <3>2. {q \in S : q <= r} = S \cap (1..r)
      <4>1. \A q \in S : q <= r <=> q \in 1..r  BY <3>0
      <4> QED  BY <4>1
    <3>3. Cardinality(S \cap (1..r)) \in Nat  BY <3>1, OneMore
    <3> QED  BY <1>1, <1>4, <3>2, <3>3
  <2>2. /\ run[n].sample_count = Cardinality(S) /\ run[n].sum = Total(S, v)
        /\ Gathers(run[n], S, v, place, source)
    BY <1>2, <2>1, RunGathers DEF SampleRun
  <2>3. StatsDescribe(run[n], S, v, place)  BY <2>1, <2>2, GatheredDescribes
  <2> QED  BY <1>2, <2>3
<1> QED  BY <1>1, <1>3, <1>4

-----------------------------------------------------------------------------
(* A summary accounts for the rows of its table *)

\* What summarize() computes, part by part.
FramesUsed(t, d) == {r \in DOMAIN t.rows : InFrames(t, d, r)}
FrameMembers(t, d, b) == {r \in FramesUsed(t, d) : FrameBucket(d, FrameIn(Cell(t, r, d.frame))) = b}
FrameSamples(t, d, b, m) == {r \in FrameMembers(t, d, b) : IsNumber(Cell(t, r, m))}
FrameStats(t, d, b, m) ==
    ValueStats(FrameSamples(t, d, b, m), [r \in FrameSamples(t, d, b, m) |-> NumberIn(Cell(t, r, m))])
SummaryBucket(t, d, b) ==
    [frame_start |-> FirstFrame(d, b), frame_end |-> LastFrame(d, b),
     row_count |-> Cardinality(FrameMembers(t, d, b)),
     metrics |-> [m \in DOMAIN d.metrics |-> FrameStats(t, d, b, d.metrics[m])]]

LEMMA SummarizeIs ==
    ASSUME NEW t, NEW d
    PROVE  Summarize(t, d) = [buckets |-> [i \in 1..BucketCount(d) |-> SummaryBucket(t, d, i - 1)]]
  BY Zenon DEF Summarize, FramesUsed, FrameMembers, FrameSamples, FrameStats, SummaryBucket

\* The rows that the frames of a bucket cover are those put into it.
FrameCovers(t, d, i) ==
    {r \in FramesUsed(t, d) :
       \/ FrameIn(Cell(t, r, d.frame)) \in FirstFrame(d, i - 1)..LastFrame(d, i - 1)
       \/ i = BucketCount(d) /\ FrameIn(Cell(t, r, d.frame)) = d.frame_end}

LEMMA FramesCovered ==
    ASSUME NEW t, NEW d, FrameDescAccepted(d), {d.frame_start, d.frame_end, d.fpb} \subseteq 0..Word - 1,
           d.frame_end + d.fpb < Word
    PROVE  /\ \A i \in 1..BucketCount(d) : FrameCovers(t, d, i) = FrameMembers(t, d, i - 1)
           /\ \A r \in FramesUsed(t, d) : \E i \in 1..BucketCount(d) : r \in FrameCovers(t, d, i)
<1>1. /\ d.frame_start \in Nat /\ d.frame_end \in Nat /\ d.fpb \in Nat /\ d.frame_start <= d.frame_end
  <2>1. Word \in Nat  BY WordAssumption
  <2>2. {d.frame_start, d.frame_end, d.fpb} \subseteq Nat  BY <2>1
  <2> QED  BY <2>2 DEF FrameDescAccepted
<1>2. PICK count \in Nat : count = BucketCount(d)  BY FramesCounted
<1>3. ASSUME NEW r \in FramesUsed(t, d)
      PROVE  /\ FrameBucket(d, FrameIn(Cell(t, r, d.frame))) \in Int
             /\ FrameBucket(d, FrameIn(Cell(t, r, d.frame))) + 1 \in 1..count
             /\ \A i \in 1..count :
                   r \in FrameCovers(t, d, i)
                      <=> FrameBucket(d, FrameIn(Cell(t, r, d.frame))) + 1 = i
  <2>1. PICK frame \in d.frame_start..d.frame_end : frame = FrameIn(Cell(t, r, d.frame))
    BY DEF FramesUsed, InFrames
  <2>2. PICK b : b = FrameBucket(d, frame)  OBVIOUS
  <2>3. /\ b + 1 \in 1..count
        /\ \A i \in 1..count : b + 1 = i <=> \/ frame \in FirstFrame(d, i - 1)..LastFrame(d, i - 1)
                                             \/ i = count /\ frame = d.frame_end
    BY <1>1, <1>2, <2>1, <2>2, FramesHaveOneBucket
  <2>4. b \in Int
    <3>1. CASE d.fpb = 0  BY <2>2, <3>1 DEF FrameBucket
    <3>2. CASE d.fpb > 0
      <4>1. PICK x, w \in Int : x = frame - d.frame_start /\ w = d.fpb /\ w > 0  BY <1>1, <2>1, <3>2
      <4>2. x \div w \in Int  BY <4>1, Quotient
      <4> QED  BY <1>1, <1>2, <2>2, <3>2, <4>1, <4>2 DEF FrameBucket
    <3> QED  BY <1>1, <3>1, <3>2
  <2>5. \A i \in 1..count : r \in FrameCovers(t, d, i)
            <=> \/ frame \in FirstFrame(d, i - 1)..LastFrame(d, i - 1)
                \/ i = count /\ frame = d.frame_end
    BY <1>2, <2>1 DEF FrameCovers
  <2> QED  BY <2>1, <2>2, <2>3, <2>4, <2>5
<1>4. ASSUME NEW i \in 1..count PROVE FrameCovers(t, d, i) = FrameMembers(t, d, i - 1)
  <2>1. /\ FrameCovers(t, d, i) \subseteq FramesUsed(t, d)
        /\ FrameMembers(t, d, i - 1) \subseteq FramesUsed(t, d)
    BY DEF FrameCovers, FrameMembers
  <2>2. ASSUME NEW r \in FramesUsed(t, d)
        PROVE  r \in FrameMembers(t, d, i - 1) <=> r \in FrameCovers(t, d, i)
    <3>1. PICK b \in Int : b = FrameBucket(d, FrameIn(Cell(t, r, d.frame)))  BY <1>3
    <3>2. r \in FrameCovers(t, d, i) <=> b + 1 = i  BY <1>3, <3>1
    <3>3. r \in FrameMembers(t, d, i - 1) <=> b = i - 1  BY <3>1 DEF FrameMembers
    <3> QED  BY <3>2, <3>3
  <2> QED  BY <2>1, <2>2
<1>5. \A r \in FramesUsed(t, d) : \E i \in 1..count : r \in FrameCovers(t, d, i)  BY <1>3
<1> QED  BY <1>2, <1>4, <1>5

\* The same of the summary compiler: of any table, each bucket counts exactly the
\* rows whose frame it covers, each metric has a sample for each of these whose
\* cell is a number, NaN and infinity included, and the statistics of finite
\* samples are theirs; and every frame in the range is covered, as long as no
\* frame label passes the width of the counter.
THEOREM SummaryAccounted ==
    ASSUME NEW t, NEW d, IsTable(t), CanSummarize(t, d), IsTexts(d.metrics),
           {d.frame_start, d.frame_end, d.fpb} \subseteq 0..Word - 1, d.frame_end + d.fpb < Word
    PROVE  SummaryAccounts(t, d, Summarize(t, d))
<1> DEFINE s == Summarize(t, d)
           framed == {r \in DOMAIN t.rows : IsFrame(Cell(t, r, d.frame))}
           x == [r \in framed |-> FrameIn(Cell(t, r, d.frame))]
           inRange == {r \in framed : x[r] \in d.frame_start..d.frame_end}
           final == Len(s.buckets)
           covers(i) == {r \in inRange : \/ x[r] \in s.buckets[i].frame_start..s.buckets[i].frame_end
                                         \/ i = final /\ x[r] = d.frame_end}
<1>1. FrameDescAccepted(d) /\ TableValid(t)  BY DEF CanSummarize
<1>2. PICK n \in Nat : DOMAIN t.rows = 1..n
  BY SequenceIs DEF IsTable, IsSequence
<1>3. /\ d.frame_start \in Nat /\ d.frame_end \in Nat /\ d.fpb \in Nat /\ d.frame_start <= d.frame_end
  <2>1. Word \in Nat  BY WordAssumption
  <2>2. {d.frame_start, d.frame_end, d.fpb} \subseteq Nat  BY <2>1
  <2> QED  BY <1>1, <2>2 DEF FrameDescAccepted
<1>4. PICK count \in Nat : count = BucketCount(d) /\ count > 0  BY <1>1, FramesCounted
<1>5. \A r \in framed : x[r] = FrameIn(Cell(t, r, d.frame))  OBVIOUS
<1>6. inRange = FramesUsed(t, d)
  <2>1. \A r \in DOMAIN t.rows : Len(t.rows[r]) = Len(t.columns)  BY <1>1 DEF TableValid
  <2>2. \A r \in DOMAIN t.rows :
           InFrames(t, d, r) <=> /\ IsFrame(Cell(t, r, d.frame))
                                 /\ FrameIn(Cell(t, r, d.frame)) \in d.frame_start..d.frame_end
    BY <2>1 DEF InFrames
  <2> HIDE DEF x
  <2> QED  BY <1>5, <2>2 DEF FramesUsed
<1>7. \A r \in inRange : x[r] = FrameIn(Cell(t, r, d.frame))  BY <1>5
<1> HIDE DEF framed, x, inRange
<1>8. PICK all : all = [i \in 1..count |-> SummaryBucket(t, d, i - 1)]  OBVIOUS
<1>9. s.buckets = all  BY <1>4, <1>8, SummarizeIs
<1>10. final = count /\ \A i \in 1..count : s.buckets[i] = SummaryBucket(t, d, i - 1)
  BY <1>8, <1>9
<1> HIDE DEF s, final
<1>11. \A i \in 1..count : /\ s.buckets[i].frame_start = FirstFrame(d, i - 1)
                           /\ s.buckets[i].frame_end = LastFrame(d, i - 1)
                           /\ s.buckets[i].row_count = Cardinality(FrameMembers(t, d, i - 1))
                           /\ \A m \in DOMAIN d.metrics :
                                 s.buckets[i].metrics[m] = FrameStats(t, d, i - 1, d.metrics[m])
  <2> TAKE i \in 1..count
  <2>1. PICK b : b = SummaryBucket(t, d, i - 1)  OBVIOUS
  <2>2. PICK stats : stats = [m \in DOMAIN d.metrics |-> FrameStats(t, d, i - 1, d.metrics[m])]  OBVIOUS
  <2>3. b = [frame_start |-> FirstFrame(d, i - 1), frame_end |-> LastFrame(d, i - 1),
             row_count |-> Cardinality(FrameMembers(t, d, i - 1)), metrics |-> stats]
    BY <2>1, <2>2, Zenon DEF SummaryBucket
  <2>4. b.metrics = stats  BY <2>3
  <2>5. \A m \in DOMAIN d.metrics : b.metrics[m] = FrameStats(t, d, i - 1, d.metrics[m])
    BY <2>2, <2>4
  <2>6. s.buckets[i] = b  BY <1>10, <2>1
  <2> QED  BY <2>3, <2>5, <2>6
<1>12. ASSUME NEW i \in 1..count
       PROVE  covers(i) = FrameCovers(t, d, i) /\ covers(i) = FrameMembers(t, d, i - 1)
  <2>1. FrameCovers(t, d, i) = FrameMembers(t, d, i - 1)  BY <1>1, <1>4, FramesCovered
  <2>2. covers(i) = FrameCovers(t, d, i)  BY <1>4, <1>6, <1>7, <1>10, <1>11 DEF FrameCovers
  <2> QED  BY <2>1, <2>2
<1> HIDE DEF covers
<1>13. s.buckets[1].frame_start = d.frame_start
  <2>1. 1 \in 1..count /\ 1 - 1 = 0  BY <1>4
  <2>2. FirstFrame(d, 0) = d.frame_start  BY <1>3, FrameLabels
  <2> QED  BY <1>11, <2>1, <2>2
<1>14. \A i \in 1..final - 1 : s.buckets[i].frame_end + 1 = s.buckets[i + 1].frame_start
  <2> TAKE i \in 1..final - 1
  <2>1. i \in 1..count /\ i + 1 \in 1..count /\ (i + 1) - 1 = i /\ i \in 1..count - 1  BY <1>4, <1>10
  <2>2. LastFrame(d, i - 1) + 1 = FirstFrame(d, i)  BY <1>3, <1>4, <2>1, FrameLabels
  <2> QED  BY <1>11, <2>1, <2>2
<1>15. s.buckets[final].frame_end \in {d.frame_end - 1, d.frame_end}
  <2>1. count \in 1..count  BY <1>4
  <2>2. LastFrame(d, count - 1) \in {d.frame_end - 1, d.frame_end}  BY <1>3, <1>4, FrameLabels
  <2> QED  BY <1>10, <1>11, <2>1, <2>2
<1>16. \A r \in inRange : \E i \in 1..final : r \in covers(i)
  <2> TAKE r \in inRange
  <2>1. PICK i \in 1..count : r \in FrameCovers(t, d, i)  BY <1>1, <1>4, <1>6, FramesCovered
  <2> QED  BY <1>10, <1>12, <2>1
<1>17. ASSUME NEW i \in 1..final
       PROVE  /\ s.buckets[i].row_count = Cardinality(covers(i))
              /\ \A m \in DOMAIN d.metrics :
                  LET S == {r \in covers(i) : IsNumber(Cell(t, r, d.metrics[m]))}
                      v == [r \in S |-> NumberIn(Cell(t, r, d.metrics[m]))]
                      place == [r \in S |-> Cardinality({q \in S : q <= r})]
                      a == s.buckets[i].metrics[m]
                  IN /\ a.sample_count = Cardinality(S)
                     /\ (\A r \in S : v[r] \in Int) => StatsDescribe(a, S, v, place)
  <2>1. i \in 1..count  BY <1>10
  <2>2. PICK M : M = covers(i) /\ M = FrameMembers(t, d, i - 1)  BY <1>12, <2>1
  <2>3. s.buckets[i].row_count = Cardinality(M)  BY <1>11, <2>1, <2>2
  <2>4. ASSUME NEW m \in DOMAIN d.metrics, NEW S, NEW v,
               S = {r \in M : IsNumber(Cell(t, r, d.metrics[m]))},
               v = [r \in S |-> NumberIn(Cell(t, r, d.metrics[m]))]
        PROVE  /\ s.buckets[i].metrics[m].sample_count = Cardinality(S)
               /\ (\A r \in S : v[r] \in Int)
                  => StatsDescribe(s.buckets[i].metrics[m], S, v,
                                   [r \in S |-> Cardinality({q \in S : q <= r})])
    <3>1. s.buckets[i].metrics[m] = FrameStats(t, d, i - 1, d.metrics[m])  BY <1>11, <2>1
    <3>2. S = FrameSamples(t, d, i - 1, d.metrics[m])  BY <2>2, <2>4 DEF FrameSamples
    <3>3. s.buckets[i].metrics[m] = ValueStats(S, v)  BY <2>4, <3>1, <3>2 DEF FrameStats
    <3>4. S \in SUBSET (1..n)  BY <1>2, <2>2, <2>4 DEF FrameMembers, FramesUsed
    <3>5. \A r \in S : v[r] \in Doubles  BY <2>4, NumberRead
    <3>6. /\ ValueStats(S, v).sample_count = Cardinality(S)
          /\ (\A r \in S : v[r] \in Int)
             => StatsDescribe(ValueStats(S, v), S, v, [r \in S |-> Cardinality({q \in S : q <= r})])
      BY <3>4, <3>5, ValuesDescribed
    <3> QED  BY <3>3, <3>6, Zenon
  <2> QED  BY <2>2, <2>3, <2>4, Zenon
<1> QED  BY <1>13, <1>14, <1>15, <1>16, <1>17, Zenon DEF SummaryAccounts, framed, x, inRange, covers, final, s

\* A list of numbers that is not empty has a least and a greatest member.
LEMMA Extremes ==
    ASSUME NEW n \in Nat, n > 0, NEW v \in [1..n -> Int]
    PROVE  /\ LeastOf(v) \in Range(v) /\ LeastOf(v) \in Int
           /\ GreatestOf(v) \in Range(v) /\ GreatestOf(v) \in Int
           /\ \A i \in 1..n : LeastOf(v) <= v[i] /\ v[i] <= GreatestOf(v)
<1> DEFINE T == {k \in 0..n : \E m \in Nat : \A i \in 1..k : v[i] \in (0 - m)..m}
<1>1. 0 \in T  OBVIOUS
<1>2. \A k \in 1..n : k - 1 \in T => k \in T
  <2> SUFFICES ASSUME NEW k \in 1..n, k - 1 \in T PROVE k \in T  OBVIOUS
  <2>1. PICK m \in Nat : \A i \in 1..(k - 1) : v[i] \in (0 - m)..m  OBVIOUS
  <2>2. PICK x \in Int : x = v[k]  OBVIOUS
  <2>3. PICK u \in Nat : u >= m /\ 0 - u <= x /\ x <= u
    <3>1. CASE x >= 0
      <4>1. PICK u \in Nat : u = m + x  BY <3>1
      <4>2. u >= m /\ 0 - u <= x /\ x <= u  BY <3>1, <4>1
      <4> QED  BY <4>2
    <3>2. CASE x < 0
      <4>1. PICK u \in Nat : u = m - x  BY <3>2
      <4>2. u >= m /\ 0 - u <= x /\ x <= u  BY <3>2, <4>1
      <4> QED  BY <4>2
    <3> QED  BY <3>1, <3>2
  <2>4. \A i \in 1..k : v[i] \in (0 - u)..u
    <3> SUFFICES ASSUME NEW i \in 1..k PROVE v[i] \in (0 - u)..u  OBVIOUS
    <3>1. i = k \/ i \in 1..(k - 1)  OBVIOUS
    <3> QED  BY <2>1, <2>2, <2>3, <3>1
  <2> QED  BY <2>4
<1> HIDE DEF T
<1>3. 0..n \subseteq T  BY <1>1, <1>2, UpTo
<1>4. n \in T  BY <1>3
<1>5. PICK m \in Nat : \A i \in 1..n : v[i] \in (0 - m)..m  BY <1>4 DEF T
<1>6. PICK S : S = Range(v)  OBVIOUS
<1>7. S \subseteq (0 - m)..m /\ S # {} /\ \A i \in 1..n : v[i] \in S
  <2>1. DOMAIN v = 1..n /\ 1 \in 1..n  OBVIOUS
  <2> QED  BY <1>5, <1>6, <2>1 DEF Range
<1>8. 0 - m \in Int /\ m \in Int /\ S \in SUBSET ((0 - m)..m)  BY <1>7
<1>9. /\ Least(S) \in S /\ \A y \in S : Least(S) <= y
      /\ Greatest(S) \in S /\ \A y \in S : y <= Greatest(S)
  BY <1>7, <1>8, LeastGreatest
<1>10. LeastOf(v) = Least(S)  BY <1>6 DEF LeastOf, Least, Min
<1>11. GreatestOf(v) = Greatest(S)
  <2>1. \A x, y \in S : x \in Int /\ y \in Int  BY <1>7
  <2>2. PICK a \in S : a = Greatest(S) /\ \A y \in S : y <= a  BY <1>9
  <2>3. Max(S) \in S /\ \A y \in S : y <= Max(S)
    <3>1. a \in S /\ \A y \in S : a >= y  BY <2>1, <2>2
    <3>2. Max(S) \in S /\ \A y \in S : Max(S) >= y  BY <3>1 DEF Max
    <3> QED  BY <2>1, <3>2
  <2>4. PICK b \in S : b = Max(S) /\ \A y \in S : y <= b  BY <2>3
  <2>5. a = b  BY <2>1, <2>2, <2>4
  <2> QED  BY <1>6, <2>2, <2>4, <2>5 DEF GreatestOf
<1>12. \A x \in S : x \in Int  BY <1>7
<1> QED  BY <1>6, <1>7, <1>9, <1>10, <1>11, <1>12

LEMMA SmallRemainder == ASSUME NEW a \in Nat, NEW w \in Nat, a < w PROVE a % w = a
  OBVIOUS

\* The new entry of the table of fields: every sample, within a range that is
\* attained.
LEMMA FieldSettled ==
    ASSUME NEW d, NEW n \in Nat, n = Dimensions(d), NEW v \in [1..n -> Int],
           FieldOf(d, v) # Rejected
    PROVE  FieldDescribes(d, FieldOf(d, v)) /\ FieldOf(d, v).values = v
<1>1. v # <<>> /\ NotFinite \notin Range(v)  BY DEF FieldOf
<1>2. n > 0
  <2>1. n = 0 => v = <<>>
    <3>1. n = 0 => v \in Seq(Int) /\ Len(v) = 0  OBVIOUS
    <3> QED  BY <3>1, EmptySeq
  <2> QED  BY <1>1, <2>1
<1>3. PICK f : f = FieldOf(d, v)  OBVIOUS
<1>4. f.values = v /\ f.min_value = LeastOf(v) /\ f.max_value = GreatestOf(v)
  BY <1>1, <1>3 DEF FieldOf
<1>5. Len(v) = n /\ DOMAIN v = 1..n  OBVIOUS
<1>6. \A i \in 1..n : v[i] # NotFinite  BY <1>1, <1>5 DEF Range
<1>7. /\ LeastOf(v) \in Range(v) /\ LeastOf(v) \in Int
      /\ GreatestOf(v) \in Range(v) /\ GreatestOf(v) \in Int
      /\ \A i \in 1..n : LeastOf(v) <= v[i] /\ v[i] <= GreatestOf(v)
  BY <1>2, Extremes
<1>8. \A i \in 1..n : v[i] \in LeastOf(v)..GreatestOf(v)
  <2>1. \A i \in 1..n : v[i] \in Int  OBVIOUS
  <2> QED  BY <1>7, <2>1
<1> QED  BY <1>3, <1>4, <1>5, <1>6, <1>7, <1>8 DEF FieldDescribes

\* A raw field whose size fits into a word has exactly the floats of its file.
THEOREM FieldIsDescribed ==
    ASSUME NEW d, {d.width, d.height, d.depth} \subseteq Nat, SizesFit(d),
           NEW content, content.floats \in Seq(Int), content.spare \in 0..3,
           RawField(d, content) # Rejected
    PROVE  /\ FieldDescribes(d, RawField(d, content))
           /\ RawField(d, content).values = content.floats
<1>1. PICK n \in Nat : n = Dimensions(d) /\ 4 * n < WordSize
  <2>1. PICK w, h, e \in Nat : w = d.width /\ h = d.height /\ e = d.depth  OBVIOUS
  <2>2. w * h \in Nat  BY SMTT(30)
  <2>3. PICK a \in Nat : a = w * h  BY <2>2
  <2>4. a * e \in Nat  BY SMTT(30)
  <2>5. Dimensions(d) = a * e  BY <2>1, <2>3 DEF Dimensions
  <2> QED  BY <2>4, <2>5 DEF SizesFit
<1>2. Count(d) = n /\ ExpectedBytes(d) = 4 * n
  <2>1. PICK m \in Nat : m = 4 * n /\ n <= m /\ m < WordSize  BY <1>1
  <2>2. WordSize \in Nat /\ n < WordSize  BY <2>1, WordSizeAssumption
  <2>3. n % WordSize = n  BY <2>2, SmallRemainder
  <2>4. m % WordSize = m  BY <2>1, <2>2, SmallRemainder
  <2>5. Count(d) = n  BY <1>1, <2>3, Zenon DEF Count
  <2>6. ExpectedBytes(d) = m  BY <2>1, <2>4, <2>5, Zenon DEF ExpectedBytes
  <2> QED  BY <2>1, <2>5, <2>6, Zenon
<1>3. PICK v : v = content.floats  OBVIOUS
<1>4. v \in Seq(Int) /\ Len(v) \in Nat /\ v \in [1..Len(v) -> Int]  BY <1>3
<1>5. 4 * Len(v) + content.spare = 4 * n  BY <1>2, <1>3 DEF RawField
<1>6. Len(v) = n
  <2>1. PICK s \in 0..3 : s = content.spare  BY Zenon
  <2>2. PICK l \in Nat : l = Len(v)  BY <1>4
  <2>3. 4 * l + s = 4 * n  BY <1>5, <2>1, <2>2
  <2>4. l = n  BY <2>3
  <2> QED  BY <2>2, <2>4
<1>7. [i \in 1..Count(d) |-> IF i <= Len(content.floats) THEN content.floats[i] ELSE 0] = v
  <2>1. v = [i \in 1..n |-> v[i]]  BY <1>4, <1>6
  <2>2. \A i \in 1..n : (IF i <= Len(v) THEN v[i] ELSE 0) = v[i]  BY <1>6
  <2> QED  BY <1>2, <1>3, <2>1, <2>2
<1>8. RawField(d, content) = FieldOf(d, v)  BY <1>7 DEF RawField
<1>9. v \in [1..n -> Int]  BY <1>4, <1>6
<1> QED  BY <1>1, <1>3, <1>8, <1>9, FieldSettled

-----------------------------------------------------------------------------
(* Procedural fields *)

\* A cell of a grid is found from its number, and only from that.
LEMMA GridCell ==
    ASSUME NEW w \in Nat, NEW h \in Nat, NEW x \in 0..w - 1, NEW y \in 0..h - 1
    PROVE  /\ y * w \in Nat /\ x + y * w \in 0..w * h - 1
           /\ (x + y * w) % w = x /\ (x + y * w) \div w = y
<1>1. w > 0 /\ h > 0  OBVIOUS
<1>2. w * y \in Int /\ w * y = y * w /\ w * 0 <= w * y /\ w * y + w <= w * h
  BY <1>1, ProductGrows
<1>3. PICK a \in Nat : a = x + y * w /\ a = x + w * y
  <2>1. w * 0 = 0  OBVIOUS
  <2>2. w * y \in Nat  BY <1>2, <2>1
  <2> QED  BY <1>2, <2>2
<1>4. PICK q \in Int : q = a \div w /\ w * q <= a /\ a < w * q + w  BY <1>1, Quotient
<1>5. q = y
  <2>1. ~(q < y)
    <3>1. q < y => w * q + w <= w * y  BY <1>1, ProductGrows
    <3> QED  BY <1>2, <1>3, <1>4, <3>1
  <2>2. ~(y < q)
    <3>1. y < q => w * y + w <= w * q  BY <1>1, ProductGrows
    <3>2. w * q \in Int  BY <1>1, ProductGrows
    <3> QED  BY <1>2, <1>3, <1>4, <3>1, <3>2
  <2> QED  BY <2>1, <2>2
<1>6. a % w = x
  <2>1. a = w * (a \div w) + (a % w) /\ a % w \in Int  BY <1>1, SMTT(30)
  <2> QED  BY <1>2, <1>3, <1>4, <1>5, <2>1
<1>7. w * 0 = 0  OBVIOUS
<1>8. w * h \in Int  BY <1>1, ProductGrows
<1> QED  BY <1>2, <1>3, <1>4, <1>5, <1>6, <1>7, <1>8

\* The number of a cell is of a cell.
LEMMA CellOf ==
    ASSUME NEW w \in Nat, NEW h \in Nat, NEW i \in 1..w * h
    PROVE  w > 0 /\ (i - 1) % w \in 0..w - 1 /\ (i - 1) \div w \in 0..h - 1
<1>1. w > 0
  <2>1. w = 0 => w * h = 0  OBVIOUS
  <2> QED  BY <2>1
<1>2. PICK a \in Nat : a = i - 1 /\ a < w * h
  <2>1. w * h \in Int  BY <1>1, ProductGrows
  <2> QED  BY <2>1
<1>3. PICK q \in Int : q = a \div w /\ w * q <= a /\ a < w * q + w  BY <1>1, Quotient
<1>4. w * h \in Int /\ w * q \in Int /\ w * 0 = 0  BY <1>1, ProductGrows
<1>5. q < h  BY <1>1, <1>2, <1>3, <1>4, ProductGrows
<1>6. q >= 0
  <2>1. q <= 0 - 1 => w * q <= w * (0 - 1)  BY <1>1, ProductGrows
  <2>2. w * (0 - 1) = 0 - w  BY SMTT(30)
  <2> QED  BY <1>2, <1>3, <1>4, <2>1, <2>2
<1>7. a % w \in 0..w - 1  BY <1>1
<1> QED  BY <1>1, <1>2, <1>3, <1>5, <1>6, <1>7

LEMMA QuotientGrows ==
    ASSUME NEW a \in Int, NEW b \in Int, a <= b, NEW w \in Nat, w > 0
    PROVE  /\ a \div w \in Int /\ b \div w \in Int /\ a \div w <= b \div w
           /\ a + w <= b => a \div w < b \div w
           /\ a + w = b => b \div w = a \div w + 1
<1>1. PICK p \in Int : p = a \div w /\ w * p <= a /\ a < w * p + w  BY Quotient
<1>2. PICK q \in Int : q = b \div w /\ w * q <= b /\ b < w * q + w  BY Quotient
<1>3. w * p \in Int /\ w * q \in Int  BY ProductGrows
<1>4. q < p => w * q + w <= w * p  BY ProductGrows
<1>5. q <= p => w * q <= w * p  BY ProductGrows
<1>6. p + 1 < q => w * (p + 1) + w <= w * q /\ w * (p + 1) = w * p + w  BY ProductGrows
<1> QED  BY <1>1, <1>2, <1>3, <1>4, <1>5, <1>6

\* Every number has a root.
LEMMA Rooted ==
    ASSUME NEW n \in Nat
    PROVE  Root(n) \in 0..n /\ Root(n) * Root(n) <= n /\ n < (Root(n) + 1) * (Root(n) + 1)
<1> DEFINE T == {k \in Nat : \E r \in 0..k : r * r <= k /\ k < (r + 1) * (r + 1)}
<1>1. 0 \in T
  <2>1. 0 * 0 <= 0 /\ 0 < (0 + 1) * (0 + 1)  OBVIOUS
  <2>2. 0 \in 0..0  OBVIOUS
  <2> QED  BY <2>1, <2>2
<1>2. \A k \in Nat : k \in T => k + 1 \in T
  <2> SUFFICES ASSUME NEW k \in Nat, k \in T PROVE k + 1 \in T  OBVIOUS
  <2>1. PICK r \in 0..k : r * r <= k /\ k < (r + 1) * (r + 1)  OBVIOUS
  <2>2. PICK u \in Int : u = (r + 1) * (r + 1)  BY SMTT(30)
  <2>3. CASE k + 1 < u
    <3>1. r * r \in Int  BY SMTT(30)
    <3>2. r \in 0..(k + 1) /\ r * r <= k + 1  BY <2>1, <3>1
    <3> QED  BY <2>2, <2>3, <3>2
  <2>4. CASE k + 1 >= u
    <3>1. u < ((r + 1) + 1) * ((r + 1) + 1)
      <4>1. PICK s \in Nat : s = r + 1  OBVIOUS
      <4>2. s * s < (s + 1) * (s + 1)  BY SMTT(30)
      <4> QED  BY <2>2, <4>1, <4>2
    <3>2. k + 1 = u  BY <2>1, <2>2, <2>4
    <3>3. r + 1 \in 0..(k + 1)  OBVIOUS
    <3>4. (r + 1) * (r + 1) <= k + 1 /\ k + 1 < ((r + 1) + 1) * ((r + 1) + 1)
      BY <2>2, <3>1, <3>2
    <3>5. PICK s \in 0..(k + 1) : s = r + 1  BY <3>3
    <3>6. s * s <= k + 1 /\ k + 1 < (s + 1) * (s + 1)  BY <3>4, <3>5
    <3> QED  BY <3>6
  <2> QED  BY <2>2, <2>3, <2>4
<1> HIDE DEF T
<1>3. n \in T  BY <1>1, <1>2, NumbersInduct
<1>4. \E r \in 0..n : r * r <= n /\ n < (r + 1) * (r + 1)  BY <1>3 DEF T
<1> QED  BY <1>4 DEF Root

LEMMA SquareIs ==
    ASSUME NEW x \in Int
    PROVE  x * x \in Nat /\ (0 - x) * (0 - x) = x * x
  BY SMTT(30)

\* A radial gradient is as large as can be in its corners, and the same on both
\* sides of its middle.
LEMMA RadialIs ==
    ASSUME NEW d, d.width \in Nat, d.height \in Nat,
           NEW x \in 0..d.width - 1, NEW y \in 0..d.height - 1
    PROVE  /\ Radial(d, x, y) \in Nat
           /\ Radial(d, d.width - 1 - x, y) = Radial(d, x, y)
           /\ Radial(d, x, d.height - 1 - y) = Radial(d, x, y)
           /\ Radial(d, 0, 0) >= Unit \/ \A i \in 0..d.width - 1, j \in 0..d.height - 1 : Radial(d, i, j) = 0
<1>1. PICK cx, cy \in Nat : cx = d.width - 1 /\ cy = d.height - 1  OBVIOUS
<1> DEFINE far == cx * cx + cy * cy
           Near(i, j) == (2 * i - cx) * (2 * i - cx) + (2 * j - cy) * (2 * j - cy)
           Dark(i, j) == IF far = 0 THEN 0 ELSE Root((Unit * Unit * Near(i, j)) \div far)
<1>2. \A i, j : Radial(d, i, j) = Dark(i, j)  BY <1>1 DEF Radial
<1>3. far \in Nat
  <2>1. cx * cx \in Nat /\ cy * cy \in Nat  BY SquareIs
  <2> QED  BY <2>1
<1>4. \A i, j \in Int : Near(i, j) \in Nat
  <2> TAKE i, j \in Int
  <2>0. 2 * i - cx \in Int /\ 2 * j - cy \in Int  OBVIOUS
  <2>1. PICK p, q \in Int : p = 2 * i - cx /\ q = 2 * j - cy  BY <2>0
  <2>2. p * p \in Nat /\ q * q \in Nat  BY SquareIs
  <2> QED  BY <2>1, <2>2
<1>5. \A i, j \in Int : Near(cx - i, j) = Near(i, j) /\ Near(i, cy - j) = Near(i, j)
  <2> TAKE i, j \in Int
  <2>0. 2 * i - cx \in Int /\ 2 * j - cy \in Int  OBVIOUS
  <2>1. PICK p, q \in Int : p = 2 * i - cx /\ q = 2 * j - cy  BY <2>0
  <2>2. 2 * (cx - i) - cx = 0 - p /\ 2 * (cy - j) - cy = 0 - q  BY <2>1
  <2>3. (0 - p) * (0 - p) = p * p /\ (0 - q) * (0 - q) = q * q  BY SquareIs
  <2> QED  BY <2>1, <2>2, <2>3
<1>6. Near(0, 0) = far
  <2>1. 2 * 0 - cx = 0 - cx /\ 2 * 0 - cy = 0 - cy  OBVIOUS
  <2>2. (0 - cx) * (0 - cx) = cx * cx /\ (0 - cy) * (0 - cy) = cy * cy  BY SquareIs
  <2> QED  BY <2>1, <2>2
<1> HIDE DEF far, Near
<1>7. ASSUME NEW i \in Int, NEW j \in Int PROVE Dark(i, j) \in Nat
  <2>1. CASE far # 0
    <3>0. PICK z \in Nat : z = Near(i, j)  BY <1>4, Zenon
    <3>1. PICK a \in Nat : a = Unit * Unit * Near(i, j)  BY <3>0 DEF Unit
    <3>2. a \div far \in Nat
      <4>1. far > 0  BY <1>3, <2>1
      <4>2. 0 \div far = 0  BY <1>3, <4>1, SMTT(30)
      <4>3. a \div far \in Int /\ 0 \div far <= a \div far  BY <1>3, <4>1, QuotientGrows
      <4> QED  BY <4>2, <4>3
    <3>3. Root(a \div far) \in 0..(a \div far)  BY <3>2, Rooted
    <3> QED  BY <2>1, <3>1, <3>2, <3>3
  <2> QED  BY <2>1
<1>8. far # 0 => Dark(0, 0) >= Unit
  <2> HAVE far # 0
  <2>1. far > 0  BY <1>3
  <2>2. PICK a \in Nat : a = Unit * Unit * Near(0, 0) /\ a = 144 * far  BY <1>3, <1>6 DEF Unit
  <2>3. a \div far = 144
    <3>1. PICK q \in Int : q = a \div far /\ far * q <= a /\ a < far * q + far  BY <1>3, <2>1, Quotient
    <3>2. q < 144 => far * q + far <= far * 144  BY <1>3, <2>1, ProductGrows
    <3>3. 144 < q => far * 144 + far <= far * q  BY <1>3, <2>1, ProductGrows
    <3>4. far * q \in Int /\ far * 144 = 144 * far  BY <1>3, <2>1, ProductGrows
    <3> QED  BY <1>3, <2>2, <3>1, <3>2, <3>3, <3>4
  <2>4. PICK r \in 0..144 : r = Root(144) /\ 144 < (r + 1) * (r + 1)
    <3>1. 144 \in Nat  OBVIOUS
    <3> QED  BY <3>1, Rooted, Zenon
  <2>5. r >= 12
    <3>1. SUFFICES ASSUME r + 1 <= 12 PROVE FALSE  OBVIOUS
    <3>2. PICK s \in Nat : s = r + 1 /\ s > 0 /\ s <= 12  BY <3>1
    <3>3. s * s <= s * 12  BY <3>2, ProductGrows
    <3>4. s * s \in Int  BY SMTT(30)
    <3>5. 144 < s * s  BY <2>4, <3>2
    <3> QED  BY <3>2, <3>3, <3>4, <3>5
  <2> QED  BY <2>2, <2>3, <2>4, <2>5 DEF Unit
<1>9. far = 0 => \A i, j \in Int : Dark(i, j) = 0  OBVIOUS
<1>10. Dark(cx - x, y) = Dark(x, y) /\ Dark(x, cy - y) = Dark(x, y)
  <2>1. x \in Int /\ y \in Int  OBVIOUS
  <2> QED  BY <1>5, <2>1
<1> HIDE DEF Dark
<1>11. x \in Int /\ y \in Int /\ \A i \in 0..d.width - 1, j \in 0..d.height - 1 : i \in Int /\ j \in Int
  OBVIOUS
<1>12. Radial(d, d.width - 1 - x, y) = Radial(d, x, y) /\ Radial(d, x, d.height - 1 - y) = Radial(d, x, y)
  BY <1>1, <1>2, <1>10
<1> QED  BY <1>2, <1>7, <1>8, <1>9, <1>11, <1>12

LEMMA ExactQuotient ==
    ASSUME NEW w \in Nat, w > 0, NEW k \in Int
    PROVE  (w * k) \div w = k
<1>1. PICK a \in Int : a = w * k  BY ProductGrows
<1>2. PICK q \in Int : q = a \div w /\ w * q <= a /\ a < w * q + w  BY Quotient
<1>3. q < k => w * q + w <= w * k  BY ProductGrows
<1>4. k < q => w * k + w <= w * q  BY ProductGrows
<1>5. w * q \in Int  BY ProductGrows
<1> QED  BY <1>1, <1>2, <1>3, <1>4, <1>5

\* A gradient rises from nothing to a unit.
LEMMA AlongIs ==
    ASSUME NEW n \in Nat, NEW x \in 0..n - 1
    PROVE  /\ Along(x, n) \in Int /\ Along(0, n) = 0
           /\ x > 0 => /\ Along(x, n) >= Along(x - 1, n)
                       /\ n <= Unit + 1 => Along(x, n) > Along(x - 1, n)
                       /\ x = n - 1 => Along(x, n) = Unit
<1>1. CASE n <= 1
  <2>1. x = 0 /\ Along(x, n) = 0 /\ Along(0, n) = 0  BY <1>1 DEF Along
  <2> QED  BY <2>1
<1>2. CASE n > 1
  <2>1. PICK w \in Nat : w = n - 1 /\ w > 0  BY <1>2
  <2>2. \A i : Along(i, n) = (12 * i) \div w  BY <1>2, <2>1 DEF Along, Unit
  <2>3. Along(0, n) = 0
    <3>1. (w * 0) \div w = 0  BY <2>1, ExactQuotient
    <3>2. w * 0 = 0 /\ 12 * 0 = 0  OBVIOUS
    <3> QED  BY <2>2, <3>1, <3>2
  <2>4. PICK a, b \in Int : a = 12 * (x - 1) /\ b = 12 * x /\ a + 12 = b
    <3>1. 12 * (x - 1) \in Int /\ 12 * x \in Int /\ 12 * (x - 1) + 12 = 12 * x  OBVIOUS
    <3> QED  BY <3>1
  <2>5. /\ a \div w \in Int /\ b \div w \in Int /\ a \div w <= b \div w
        /\ a + w <= b => a \div w < b \div w
    <3>1. a <= b  BY <2>4
    <3> QED  BY <2>1, <3>1, QuotientGrows
  <2>6. n <= Unit + 1 => a + w <= b  BY <2>1, <2>4 DEF Unit
  <2>7. x = n - 1 => b \div w = Unit
    <3> HAVE x = n - 1
    <3>1. b = w * 12  BY <2>1, <2>4
    <3>2. (w * 12) \div w = 12  BY <2>1, ExactQuotient
    <3> QED  BY <3>1, <3>2 DEF Unit
  <2>8. Along(x, n) = b \div w /\ Along(x - 1, n) = a \div w  BY <2>2, <2>4
  <2> QED  BY <2>3, <2>5, <2>6, <2>7, <2>8
<1> QED  BY <1>1, <1>2

\* The generators of make_procedural_field(), and the numbers they take.
Generators == {"GradientX", "GradientY", "RadialGradient", "Checkerboard", "SineWaves"}
PatternTyped(d) ==
    /\ {d.width, d.height, d.depth} \subseteq Nat /\ {d.frequency, d.amplitude} \subseteq Int
    /\ d.generator \in Generators

LEMMA WaveIs ==
    ASSUME NEW d, d.width \in Nat, {d.frequency, d.amplitude} \subseteq Int,
           d.generator = "SineWaves", NEW x \in 0..d.width - 1, NEW y
    PROVE  Sample(d, x, y) \in Int /\ (d.amplitude >= 0 => Sample(d, x, y) \in 0..Unit * d.amplitude)
<1>1. PICK a \in Int : a = d.amplitude  OBVIOUS
<1>2. PICK q : q = Quarter((4 * d.frequency * Along(x, d.width)) \div Unit)  OBVIOUS
<1>3. q \in {-1, 0, 1}
  <2>1. PICK f, s \in Int : f = d.frequency /\ s = Along(x, d.width)  BY AlongIs
  <2>2. f * s \in Int /\ 4 * f * s \in Int  BY SMTT(30)
  <2>3. PICK p \in Int : p = 4 * f * s  BY <2>2
  <2>4. PICK z \in Int : z = p \div 12  BY Quotient
  <2> QED  BY <1>2, <2>1, <2>3, <2>4 DEF Quarter, Unit
<1>4. Sample(d, x, y) = ((12 + 12 * q) * a) \div 2  BY <1>1, <1>2 DEF Sample, Unit
<1>5. CASE q = -1
  <2>1. (12 + 12 * q) * a = 2 * 0  BY <1>5
  <2>2. Sample(d, x, y) = 0  BY <1>4, <2>1, ExactQuotient
  <2> QED  BY <1>1, <2>2 DEF Unit
<1>6. CASE q = 0
  <2>1. (12 + 12 * q) * a = 2 * (6 * a) /\ 6 * a \in Int  BY <1>6
  <2>2. Sample(d, x, y) = 6 * a  BY <1>4, <2>1, ExactQuotient
  <2> QED  BY <1>1, <2>2 DEF Unit
<1>7. CASE q = 1
  <2>1. (12 + 12 * q) * a = 2 * (12 * a) /\ 12 * a \in Int  BY <1>7
  <2>2. Sample(d, x, y) = 12 * a  BY <1>4, <2>1, ExactQuotient
  <2> QED  BY <1>1, <2>2 DEF Unit
<1> QED  BY <1>3, <1>5, <1>6, <1>7

\* One more cell along a board is of the other colour.
LEMMA BoardIs ==
    ASSUME NEW d, {d.frequency, d.amplitude} \subseteq Int, d.generator = "Checkerboard",
           NEW x \in Nat, NEW y \in Nat
    PROVE  /\ CheckerCell(d) \in Nat /\ Sample(d, x, y) \in Int
           /\ d.amplitude # 0 => /\ Sample(d, x + CheckerCell(d), y) # Sample(d, x, y)
                                 /\ Sample(d, x, y + CheckerCell(d)) # Sample(d, x, y)
<1>1. PICK side \in Nat : side = CheckerCell(d) /\ side > 0  BY DEF CheckerCell
<1>2. PICK a \in Int : a = d.amplitude  OBVIOUS
<1> DEFINE Lit(i, j) == IF (i \div side + j \div side) % 2 # 0 THEN 12 * a ELSE 0
<1>3. \A i, j : Sample(d, i, j) = Lit(i, j)  BY <1>1, <1>2 DEF Sample, Unit
<1>4. PICK p, q \in Int : p = x \div side /\ q = y \div side
  BY <1>1, Quotient
<1>5. (x + side) \div side = p + 1 /\ (y + side) \div side = q + 1
  <2>1. ASSUME NEW k \in Nat PROVE (k + side) \div side = k \div side + 1
    <3>1. PICK i \in Int : i = k + side  OBVIOUS
    <3>2. k \in Int /\ k <= i /\ k + side = i  BY <1>1, <3>1
    <3>3. i \div side = k \div side + 1  BY <1>1, <3>2, QuotientGrows
    <3> QED  BY <3>1, <3>3, Zenon
  <2> QED  BY <1>4, <2>1
<1>6. /\ Lit(x, y) = (IF (p + q) % 2 # 0 THEN 12 * a ELSE 0)
      /\ Lit(x + side, y) = (IF (p + 1 + q) % 2 # 0 THEN 12 * a ELSE 0)
      /\ Lit(x, y + side) = (IF (p + (q + 1)) % 2 # 0 THEN 12 * a ELSE 0)
  BY <1>4, <1>5
<1>7. PICK z \in Int : z = p + q /\ z + 1 = p + 1 + q /\ z + 1 = p + (q + 1)  OBVIOUS
<1>8. (z + 1) % 2 # 0 <=> z % 2 = 0  OBVIOUS
<1> HIDE DEF Lit
<1>9. /\ Lit(x, y) \in Int
      /\ a # 0 => Lit(x + side, y) # Lit(x, y) /\ Lit(x, y + side) # Lit(x, y)
  <2>1. 12 * a \in Int /\ (a # 0 => 12 * a # 0)  OBVIOUS
  <2> QED  BY <1>6, <1>7, <1>8, <2>1
<1> QED  BY <1>1, <1>2, <1>3, <1>9

LEMMA SampleIsNumber ==
    ASSUME NEW d, PatternTyped(d), NEW x \in 0..d.width - 1, NEW y \in 0..d.height - 1
    PROVE  Sample(d, x, y) \in Int
<1> USE DEF PatternTyped
<1>1. CASE d.generator = "GradientX"
  <2>1. Along(x, d.width) \in Int  BY AlongIs
  <2> QED  BY <1>1, <2>1 DEF Sample
<1>2. CASE d.generator = "GradientY"
  <2>1. Along(y, d.height) \in Int  BY AlongIs
  <2> QED  BY <1>2, <2>1 DEF Sample
<1>3. CASE d.generator = "RadialGradient"
  <2>1. PICK r \in Nat : r = Radial(d, x, y)  BY RadialIs
  <2>2. PICK l \in Nat : l = LowerOf(Radial(d, x, y), Unit)  BY <2>1 DEF LowerOf, Unit
  <2>3. PICK a \in Int : a = d.amplitude  OBVIOUS
  <2>4. l * a \in Int  BY SMTT(30)
  <2> QED  BY <1>3, <2>2, <2>3, <2>4 DEF Sample
<1>4. CASE d.generator = "Checkerboard"
  <2>1. x \in Nat /\ y \in Nat  OBVIOUS
  <2> QED  BY <1>4, <2>1, BoardIs
<1>5. CASE d.generator = "SineWaves"
  BY <1>5, WaveIs
<1> QED  BY <1>1, <1>2, <1>3, <1>4, <1>5 DEF Generators

\* The samples of a procedural field, one for each cell.
LEMMA PatternSamples ==
    ASSUME NEW d, PatternTyped(d), SizesFit(d), MadeField(d) # Rejected
    PROVE  /\ FieldDescribes(d, MadeField(d))
           /\ \A x \in 0..d.width - 1, y \in 0..d.height - 1 :
                 MadeField(d).values[1 + x + y * d.width] = Sample(d, x, y)
<1>1. PICK w, h \in Nat : w = d.width /\ h = d.height  BY DEF PatternTyped
<1>2. d.depth = 1  BY DEF MadeField
<1>3. PICK n \in Nat : n = w * h /\ n = Dimensions(d) /\ n < WordSize
  <2>1. PICK a \in Nat : a = w * h
    <3>1. w * h \in Nat  BY SMTT(30)
    <3> QED  BY <3>1
  <2>2. Dimensions(d) = a * 1  BY <1>1, <1>2, <2>1 DEF Dimensions
  <2>3. a * 1 = a  OBVIOUS
  <2>4. 4 * a < WordSize  BY <2>2, <2>3 DEF SizesFit
  <2>5. a < WordSize  BY <2>4, WordSizeAssumption
  <2> QED  BY <2>1, <2>2, <2>3, <2>5
<1>4. n % WordSize = n  BY <1>3, WordSizeAssumption, SmallRemainder
<1>5. PICK v : v = [i \in 1..n |-> Sample(d, (i - 1) % w, (i - 1) \div w)]  OBVIOUS
<1>6. MadeField(d) = FieldOf(d, v)  BY <1>1, <1>3, <1>4, <1>5 DEF MadeField
<1>7. v \in [1..n -> Int]
  <2> SUFFICES ASSUME NEW i \in 1..n PROVE Sample(d, (i - 1) % w, (i - 1) \div w) \in Int
    BY <1>5
  <2>1. (i - 1) % w \in 0..w - 1 /\ (i - 1) \div w \in 0..h - 1  BY <1>3, CellOf
  <2>2. PICK x, y : x = (i - 1) % w /\ y = (i - 1) \div w  OBVIOUS
  <2>3. x \in 0..d.width - 1 /\ y \in 0..d.height - 1  BY <1>1, <2>1, <2>2
  <2>4. Sample(d, x, y) \in Int  BY <2>3, SampleIsNumber
  <2> QED  BY <2>2, <2>4
<1>8. FieldDescribes(d, FieldOf(d, v)) /\ FieldOf(d, v).values = v
  BY <1>3, <1>6, <1>7, FieldSettled
<1>9. ASSUME NEW x \in 0..w - 1, NEW y \in 0..h - 1
      PROVE  v[1 + x + y * w] = Sample(d, x, y)
  <2>1. /\ y * w \in Nat /\ x + y * w \in 0..w * h - 1
        /\ (x + y * w) % w = x /\ (x + y * w) \div w = y
    BY GridCell
  <2>2. PICK a \in Nat : a = x + y * w /\ 1 + x + y * w = a + 1  BY <2>1
  <2>3. a + 1 \in 1..n /\ (a + 1) - 1 = a  BY <1>3, <2>1, <2>2
  <2>4. v[a + 1] = Sample(d, a % w, a \div w)  BY <1>5, <2>3
  <2> QED  BY <2>1, <2>2, <2>4
<1> QED  BY <1>1, <1>6, <1>8, <1>9

\* A procedural field whose size fits into a word has all its samples, finite
\* and in the range it states, and they make the pattern of its generator.
THEOREM PatternIsDescribed ==
    ASSUME NEW d, PatternTyped(d), SizesFit(d), MadeField(d) # Rejected
    PROVE  FieldDescribes(d, MadeField(d)) /\ PatternDescribes(d, MadeField(d))
<1>1. PICK f : f = MadeField(d)  OBVIOUS
<1>2. FieldDescribes(d, f)  BY <1>1, PatternSamples
<1> DEFINE xs == 0..d.width - 1
           ys == 0..d.height - 1
           shade(x, y) == f.values[1 + x + y * d.width]
           Agrees(x, y) ==
             CASE d.generator = "GradientX" ->
                    /\ x = 0 => shade(x, y) = 0
                    /\ x > 0 => shade(x, y) >= shade(x - 1, y)
                    /\ x > 0 /\ d.width <= Unit + 1 => shade(x, y) > shade(x - 1, y)
                    /\ x > 0 /\ x = d.width - 1 => shade(x, y) = Unit
               [] d.generator = "GradientY" ->
                    /\ y = 0 => shade(x, y) = 0
                    /\ y > 0 => shade(x, y) >= shade(x, y - 1)
                    /\ y > 0 /\ d.height <= Unit + 1 => shade(x, y) > shade(x, y - 1)
                    /\ y > 0 /\ y = d.height - 1 => shade(x, y) = Unit
               [] d.generator = "RadialGradient" ->
                    /\ shade(x, y) = shade(d.width - 1 - x, y)
                    /\ shade(x, y) = shade(x, d.height - 1 - y)
                    /\ d.amplitude >= 0 => shade(x, y) <= shade(0, 0)
               [] d.generator = "Checkerboard" ->
                    /\ x + CheckerCell(d) \in xs
                         => shade(x + CheckerCell(d), y) # shade(x, y) \/ d.amplitude = 0
                    /\ y + CheckerCell(d) \in ys
                         => shade(x, y + CheckerCell(d)) # shade(x, y) \/ d.amplitude = 0
               [] d.generator = "SineWaves" ->
                    d.amplitude >= 0 => shade(x, y) \in 0..Unit * d.amplitude
<1>3. \A x \in xs, y \in ys : shade(x, y) = Sample(d, x, y)  BY <1>1, PatternSamples
<1>4. PICK w, h \in Nat : w = d.width /\ h = d.height  BY DEF PatternTyped
<1> SUFFICES PatternDescribes(d, f)  BY <1>1, <1>2
<1> SUFFICES \A x \in xs, y \in ys : Agrees(x, y)
  BY ZenonT(60) DEF PatternDescribes
<1> HIDE DEF shade
<1> SUFFICES ASSUME NEW x \in xs, NEW y \in ys PROVE Agrees(x, y)
  OBVIOUS
<1>5. CASE d.generator = "GradientX"
  <2>1. shade(x, y) = Along(x, d.width)  BY <1>3, <1>5 DEF Sample
  <2>2. x > 0 => x - 1 \in xs /\ shade(x - 1, y) = Along(x - 1, d.width)
    <3>1. x > 0 => x - 1 \in xs  BY <1>4
    <3> QED  BY <1>3, <1>5, <3>1 DEF Sample
  <2>3. /\ Along(x, w) \in Int /\ Along(0, w) = 0
        /\ x > 0 => /\ Along(x, w) >= Along(x - 1, w)
                    /\ w <= Unit + 1 => Along(x, w) > Along(x - 1, w)
                    /\ x = w - 1 => Along(x, w) = Unit
    <3>1. x \in 0..w - 1  BY <1>4
    <3> QED  BY <3>1, AlongIs
  <2> QED  BY <1>4, <1>5, <2>1, <2>2, <2>3
<1>6. CASE d.generator = "GradientY"
  <2>1. shade(x, y) = Along(y, d.height)  BY <1>3, <1>6 DEF Sample
  <2>2. y > 0 => y - 1 \in ys /\ shade(x, y - 1) = Along(y - 1, d.height)
    <3>1. y > 0 => y - 1 \in ys  BY <1>4
    <3> QED  BY <1>3, <1>6, <3>1 DEF Sample
  <2>3. /\ Along(y, h) \in Int /\ Along(0, h) = 0
        /\ y > 0 => /\ Along(y, h) >= Along(y - 1, h)
                    /\ h <= Unit + 1 => Along(y, h) > Along(y - 1, h)
                    /\ y = h - 1 => Along(y, h) = Unit
    <3>1. y \in 0..h - 1  BY <1>4
    <3> QED  BY <3>1, AlongIs
  <2> QED  BY <1>4, <1>6, <2>1, <2>2, <2>3
<1>7. CASE d.generator = "RadialGradient"
  <2>1. PICK a \in Int : a = d.amplitude  BY DEF PatternTyped
  <2>2. \A i \in xs, j \in ys : shade(i, j) = LowerOf(Radial(d, i, j), Unit) * a
    BY <1>3, <1>7, <2>1 DEF Sample
  <2>3. d.width - 1 - x \in xs /\ d.height - 1 - y \in ys /\ 0 \in xs /\ 0 \in ys  BY <1>4
  <2>4. /\ Radial(d, x, y) \in Nat
        /\ Radial(d, d.width - 1 - x, y) = Radial(d, x, y)
        /\ Radial(d, x, d.height - 1 - y) = Radial(d, x, y)
        /\ Radial(d, 0, 0) >= Unit \/ \A i \in 0..d.width - 1, j \in 0..d.height - 1 : Radial(d, i, j) = 0
    BY <1>4, RadialIs
  <2>5. Radial(d, 0, 0) \in Nat  BY <1>4, <2>3, RadialIs
  <2>6. PICK p, q \in Nat : p = LowerOf(Radial(d, x, y), Unit) /\ q = LowerOf(Radial(d, 0, 0), Unit)
    BY <2>4, <2>5 DEF LowerOf, Unit
  <2>7. p <= q  BY <2>3, <2>4, <2>5, <2>6 DEF LowerOf, Unit
  <2>8. a >= 0 => p * a <= q * a
    <3>1. CASE a > 0
      <4>1. a * p <= a * q /\ a * p = p * a /\ a * q = q * a  BY <2>7, <3>1, ProductGrows
      <4> QED  BY <4>1
    <3>2. CASE a = 0
      <4>1. p * 0 = 0 /\ q * 0 = 0  OBVIOUS
      <4> QED  BY <3>2, <4>1
    <3> QED  BY <3>1, <3>2
  <2>9. shade(x, y) = p * a /\ shade(0, 0) = q * a  BY <2>2, <2>3, <2>6
  <2>10. shade(d.width - 1 - x, y) = shade(x, y) /\ shade(x, d.height - 1 - y) = shade(x, y)
    BY <2>2, <2>3, <2>4
  <2> QED  BY <1>7, <2>1, <2>8, <2>9, <2>10
<1>8. CASE d.generator = "Checkerboard"
  <2>1. x \in Nat /\ y \in Nat /\ {d.frequency, d.amplitude} \subseteq Int  BY DEF PatternTyped
  <2>2. d.amplitude # 0 => /\ Sample(d, x + CheckerCell(d), y) # Sample(d, x, y)
                           /\ Sample(d, x, y + CheckerCell(d)) # Sample(d, x, y)
    BY <1>8, <2>1, BoardIs
  <2>3. shade(x, y) = Sample(d, x, y)  BY <1>3
  <2>4. x + CheckerCell(d) \in xs => shade(x + CheckerCell(d), y) = Sample(d, x + CheckerCell(d), y)
    BY <1>3
  <2>5. y + CheckerCell(d) \in ys => shade(x, y + CheckerCell(d)) = Sample(d, x, y + CheckerCell(d))
    BY <1>3
  <2> HIDE DEF xs, ys
  <2> QED  BY <1>8, <2>2, <2>3, <2>4, <2>5
<1>9. CASE d.generator = "SineWaves"
  <2>1. d.width \in Nat /\ {d.frequency, d.amplitude} \subseteq Int  BY DEF PatternTyped
  <2>2. d.amplitude >= 0 => Sample(d, x, y) \in 0..Unit * d.amplitude  BY <1>9, <2>1, WaveIs
  <2> QED  BY <1>3, <1>9, <2>2
<1>10. d.generator \in Generators  BY DEF PatternTyped
<1> QED  BY <1>5, <1>6, <1>7, <1>8, <1>9, <1>10 DEF Generators

\* The sides of a cube's triangles, one after the other.
LEMMA CubeEdges ==
    /\ Edges(CubeMesh, 1) = {<<0, 2>>, <<2, 1>>, <<1, 0>>}
    /\ Edges(CubeMesh, 4) = {<<0, 3>>, <<3, 2>>, <<2, 0>>}
    /\ Edges(CubeMesh, 7) = {<<4, 5>>, <<5, 6>>, <<6, 4>>}
    /\ Edges(CubeMesh, 10) = {<<4, 6>>, <<6, 7>>, <<7, 4>>}
    /\ Edges(CubeMesh, 13) = {<<0, 4>>, <<4, 7>>, <<7, 0>>}
    /\ Edges(CubeMesh, 16) = {<<0, 7>>, <<7, 3>>, <<3, 0>>}
    /\ Edges(CubeMesh, 19) = {<<1, 2>>, <<2, 6>>, <<6, 1>>}
    /\ Edges(CubeMesh, 22) = {<<1, 6>>, <<6, 5>>, <<5, 1>>}
    /\ Edges(CubeMesh, 25) = {<<3, 7>>, <<7, 6>>, <<6, 3>>}
    /\ Edges(CubeMesh, 28) = {<<3, 6>>, <<6, 2>>, <<2, 3>>}
    /\ Edges(CubeMesh, 31) = {<<0, 1>>, <<1, 5>>, <<5, 0>>}
    /\ Edges(CubeMesh, 34) = {<<0, 5>>, <<5, 4>>, <<4, 0>>}
<1>1. PICK s : s = CubeMesh.indices  OBVIOUS
<1>2. /\ s[1] = 0 /\ s[2] = 2 /\ s[3] = 1 /\ s[4] = 0 /\ s[5] = 3 /\ s[6] = 2
      /\ s[7] = 4 /\ s[8] = 5 /\ s[9] = 6 /\ s[10] = 4 /\ s[11] = 6 /\ s[12] = 7
      /\ s[13] = 0 /\ s[14] = 4 /\ s[15] = 7 /\ s[16] = 0 /\ s[17] = 7 /\ s[18] = 3
      /\ s[19] = 1 /\ s[20] = 2 /\ s[21] = 6 /\ s[22] = 1 /\ s[23] = 6 /\ s[24] = 5
      /\ s[25] = 3 /\ s[26] = 7 /\ s[27] = 6 /\ s[28] = 3 /\ s[29] = 6 /\ s[30] = 2
      /\ s[31] = 0 /\ s[32] = 1 /\ s[33] = 5 /\ s[34] = 0 /\ s[35] = 5 /\ s[36] = 4
  BY <1>1 DEF CubeMesh
<1>3. \A k : Edges(CubeMesh, k) = {<<s[k], s[k + 1]>>, <<s[k + 1], s[k + 2]>>, <<s[k + 2], s[k]>>}
  BY <1>1 DEF Edges
<1> QED  BY <1>2, <1>3

LEMMA CubeIs ==
    /\ MeshValid(CubeMesh)
    /\ \A k \in DOMAIN CubeMesh.indices : CubeMesh.indices[k] + 1 \in DOMAIN CubeMesh.vertices
    /\ Triangles(CubeMesh) = {1, 4, 7, 10, 13, 16, 19, 22, 25, 28, 31, 34}
<1>1. PICK s, v : s = CubeMesh.indices /\ v = CubeMesh.vertices  OBVIOUS
<1>2. Len(s) = 36 /\ DOMAIN s = 1..36  BY <1>1 DEF CubeMesh
<1>3. Len(v) = 8 /\ DOMAIN v = 1..8  BY <1>1 DEF CubeMesh
<1>4. \A k \in 1..36 : s[k] \in 0..7  BY <1>1 DEF CubeMesh
<1>5. MeshValid(CubeMesh)
  <2>1. Len(<<>>) = 0 /\ Len(s) # 0 /\ Len(v) # 0  BY <1>2, <1>3
  <2>2. s # <<>> /\ v # <<>>  BY <2>1, Zenon
  <2>3. 36 % 3 = 0  OBVIOUS
  <2>4. Len(s) % 3 = 0  BY <1>2, <2>3, Zenon
  <2> QED  BY <1>1, <2>2, <2>4, Zenon DEF MeshValid
<1>6. \A k \in 1..36 : k % 3 = 1 <=> k \in {1, 4, 7, 10, 13, 16, 19, 22, 25, 28, 31, 34}
  OBVIOUS
<1>7. Triangles(CubeMesh) = {k \in 1..36 : k % 3 = 1}  BY <1>1, <1>2 DEF Triangles
<1>8. {1, 4, 7, 10, 13, 16, 19, 22, 25, 28, 31, 34} \subseteq 1..36  OBVIOUS
<1>9. Triangles(CubeMesh) = {1, 4, 7, 10, 13, 16, 19, 22, 25, 28, 31, 34}  BY <1>6, <1>7, <1>8
<1>10. \A k \in 1..36 : s[k] + 1 \in 1..8  BY <1>4
<1> QED  BY <1>1, <1>2, <1>3, <1>5, <1>9, <1>10

\* The triangle that passes along a side of the cube.
SideOf(e) ==
    CASE e \in {<<0, 2>>, <<2, 1>>, <<1, 0>>} -> 1
      [] e \in {<<0, 3>>, <<3, 2>>, <<2, 0>>} -> 4
      [] e \in {<<4, 5>>, <<5, 6>>, <<6, 4>>} -> 7
      [] e \in {<<4, 6>>, <<6, 7>>, <<7, 4>>} -> 10
      [] e \in {<<0, 4>>, <<4, 7>>, <<7, 0>>} -> 13
      [] e \in {<<0, 7>>, <<7, 3>>, <<3, 0>>} -> 16
      [] e \in {<<1, 2>>, <<2, 6>>, <<6, 1>>} -> 19
      [] e \in {<<1, 6>>, <<6, 5>>, <<5, 1>>} -> 22
      [] e \in {<<3, 7>>, <<7, 6>>, <<6, 3>>} -> 25
      [] e \in {<<3, 6>>, <<6, 2>>, <<2, 3>>} -> 28
      [] e \in {<<0, 1>>, <<1, 5>>, <<5, 0>>} -> 31
      [] e \in {<<0, 5>>, <<5, 4>>, <<4, 0>>} -> 34

LEMMA CubeIsClosed == MeshDescribes(CubeMesh) /\ Closed(CubeMesh)
<1>1. \A k \in Triangles(CubeMesh) : \A e \in Edges(CubeMesh, k) : SideOf(e) = k
  BY CubeIs, CubeEdges DEF SideOf
<1>2. \A k, l \in Triangles(CubeMesh) : k # l => Edges(CubeMesh, k) \cap Edges(CubeMesh, l) = {}
  BY <1>1
<1>3. Closed(CubeMesh)
  <2>1. \A k \in Triangles(CubeMesh) : \A e \in Edges(CubeMesh, k) :
           \E l \in Triangles(CubeMesh) : <<e[2], e[1]>> \in Edges(CubeMesh, l)
    BY CubeIs, CubeEdges
  <2> QED  BY <2>1 DEF Closed
<1> QED  BY <1>2, <1>3, CubeIs DEF MeshDescribes

\* Procedural meshes are of whole triangles that face the same way, and the cube
\* has no hole.
THEOREM MeshIsDescribed ==
    ASSUME NEW kind \in {"Triangle", "Quad", "Cube"}
    PROVE  MeshDescribes(ProceduralMesh(kind)) /\ (kind = "Cube" => Closed(ProceduralMesh(kind)))
<1>1. MeshDescribes(TriangleMesh)
  <2>1. PICK s, v : s = TriangleMesh.indices /\ v = TriangleMesh.vertices  OBVIOUS
  <2>2. Len(s) = 3 /\ DOMAIN s = 1..3 /\ Len(v) = 3 /\ DOMAIN v = 1..3  BY <2>1 DEF TriangleMesh
  <2>3. \A k \in 1..3 : s[k] + 1 \in 1..3  BY <2>1 DEF TriangleMesh
  <2>4. \A k \in 1..3 : k % 3 = 1 => k = 1  OBVIOUS
  <2>5. MeshValid(TriangleMesh)  BY <2>1, <2>2 DEF MeshValid
  <2>6. \A k, l \in Triangles(TriangleMesh) : k = l  BY <2>1, <2>2, <2>4 DEF Triangles
  <2> QED  BY <2>1, <2>2, <2>3, <2>5, <2>6 DEF MeshDescribes
<1>2. MeshDescribes(QuadMesh)
  <2>1. PICK s, v : s = QuadMesh.indices /\ v = QuadMesh.vertices  OBVIOUS
  <2>2. Len(s) = 6 /\ DOMAIN s = 1..6 /\ Len(v) = 4 /\ DOMAIN v = 1..4  BY <2>1 DEF QuadMesh
  <2>3. \A k \in 1..6 : s[k] + 1 \in 1..4  BY <2>1 DEF QuadMesh
  <2>4. \A k \in 1..6 : k % 3 = 1 => k \in {1, 4}  OBVIOUS
  <2>5. MeshValid(QuadMesh)  BY <2>1, <2>2 DEF MeshValid
  <2>6. Edges(QuadMesh, 1) \cap Edges(QuadMesh, 4) = {}
    <3>1. s[1] = 0 /\ s[2] = 1 /\ s[3] = 2 /\ s[4] = 0 /\ s[5] = 2 /\ s[6] = 3  BY <2>1 DEF QuadMesh
    <3>2. /\ Edges(QuadMesh, 1) = {<<0, 1>>, <<1, 2>>, <<2, 0>>}
          /\ Edges(QuadMesh, 4) = {<<0, 2>>, <<2, 3>>, <<3, 0>>}
      BY <2>1, <3>1 DEF Edges
    <3> QED  BY <3>2
  <2>7. \A k \in Triangles(QuadMesh) : k \in {1, 4}  BY <2>1, <2>2, <2>4 DEF Triangles
  <2>8. \A k, l \in Triangles(QuadMesh) : k # l => Edges(QuadMesh, k) \cap Edges(QuadMesh, l) = {}
    BY <2>6, <2>7
  <2> QED  BY <2>1, <2>2, <2>3, <2>5, <2>8 DEF MeshDescribes
<1> QED  BY <1>1, <1>2, CubeIsClosed DEF ProceduralMesh

LEMMA NotEmpty ==
    ASSUME NEW s, IsSequence(s), s # <<>>
    PROVE  Len(s) \in Nat /\ Len(s) > 0 /\ 1 \in DOMAIN s /\ s[1] \in Range(s)
<1>1. PICK C : s \in Seq(C)  BY DEF IsSequence
<1>2. Len(s) \in Nat /\ DOMAIN s = 1..Len(s) /\ Len(s) # 0  BY <1>1, EmptySeq
<1>3. 1 \in DOMAIN s  BY <1>2
<1> QED  BY <1>2, <1>3 DEF Range

\* What is imported of a GLB file is its first primitive, and a mesh.
THEOREM MeshIsImported ==
    ASSUME NEW meshes, IsSequence(meshes), \A primitives \in Range(meshes) : IsSequence(primitives),
           ImportMesh(meshes) # Rejected
    PROVE  /\ ImportMesh(meshes).vertices = FlattenSeq(meshes)[1].positions
           /\ MeshValid(ImportMesh(meshes))
<1>1. PICK C : C = UNION {Range(p) : p \in Range(meshes)}  OBVIOUS
<1>2. \A p \in Range(meshes) : p \in Seq(C)
  <2> TAKE p \in Range(meshes)
  <2>1. p \in Seq(Range(p)) /\ Range(p) \subseteq C  BY <1>1 DEF IsSequence
  <2> QED  BY <2>1
<1>3. meshes \in Seq(Seq(C))
  <2>1. meshes \in Seq(Range(meshes)) /\ Range(meshes) \subseteq Seq(C)  BY <1>2 DEF IsSequence
  <2> QED  BY <2>1
<1>4. PICK primitives \in Seq(C) : primitives = FlattenSeq(meshes)
  <2>1. \E r \in [0..Len(meshes) -> Seq(C)] : FlattenSeq(meshes) = r[Len(meshes)]  BY <1>3, Flattened
  <2> QED  BY <1>3, <2>1
<1>5. primitives # <<>> /\ \A i \in DOMAIN primitives : MeshValid(PrimitiveMesh(primitives[i]))
  BY <1>4 DEF ImportMesh
<1>6. 1 \in DOMAIN primitives  BY <1>4, <1>5, SequenceIs, NotEmpty
<1>7. ImportMesh(meshes) = PrimitiveMesh(primitives[1])  BY <1>4 DEF ImportMesh
<1> QED  BY <1>4, <1>5, <1>6, <1>7 DEF PrimitiveMesh

-----------------------------------------------------------------------------
(* The header of a CSV file *)

\* States of the scanner that has found no row without a cell.
FullScans(C) == {s \in Scans(C) : \A i \in DOMAIN s.rows : s.rows[i] # <<>>}

LEMMA ScanStaysFull ==
    ASSUME NEW C, NEW s \in FullScans(C)
    PROVE  EndRow(s) \in FullScans(C) /\ \A c \in C : ScanChar(s, c) \in FullScans(C)
<1>1. s \in Scans(C) /\ s.rows \in Seq(Seq(Seq(C))) /\ \A i \in DOMAIN s.rows : s.rows[i] # <<>>
  BY DEF FullScans, Scans
<1>2. PICK last \in Seq(Seq(C)) : last = Append(s.row, s.cell) /\ last # <<>>
  <2>1. s.row \in Seq(Seq(C)) /\ s.cell \in Seq(C)  BY <1>1 DEF Scans
  <2>2. Append(s.row, s.cell) \in Seq(Seq(C)) /\ Len(Append(s.row, s.cell)) = Len(s.row) + 1
    BY <2>1
  <2>3. Len(s.row) \in Nat  BY <2>1
  <2>4. Append(s.row, s.cell) # <<>>
    <3>1. Len(<<>>) = 0 /\ Len(Append(s.row, s.cell)) # 0  BY <2>2, <2>3
    <3> QED  BY <3>1, Zenon
  <2> QED  BY <2>2, <2>4
<1>3. \A i \in DOMAIN Append(s.rows, last) : Append(s.rows, last)[i] # <<>>
  <2>1. PICK n \in Nat : n = Len(s.rows) /\ DOMAIN s.rows = 1..n  BY <1>1
  <2>2. /\ DOMAIN Append(s.rows, last) = 1..(n + 1)
        /\ \A i \in 1..n : Append(s.rows, last)[i] = s.rows[i]
        /\ Append(s.rows, last)[n + 1] = last
    BY <1>1, <2>1
  <2>3. \A i \in 1..(n + 1) : i \in 1..n \/ i = n + 1  OBVIOUS
  <2> QED  BY <1>1, <1>2, <2>1, <2>2, <2>3
<1>4. /\ EndRow(s).rows = Append(s.rows, last)
      /\ EndCell(s).rows = s.rows /\ \A x : Take(s, x).rows = s.rows
  BY <1>1, <1>2 DEF EndRow, EndCell, Take, Scans
<1>5. \A m, z : z \in Scans(C) => In(z, m).rows = z.rows
  BY DEF In, Scans
<1>6. EndCell(s) \in Scans(C) /\ EndRow(s) \in Scans(C) /\ \A c \in C : Take(s, c) \in Scans(C)
  <2>1. Append(s.row, s.cell) \in Seq(Seq(C))
        /\ Append(s.rows, Append(s.row, s.cell)) \in Seq(Seq(Seq(C)))
        /\ <<>> \in Seq(C) /\ <<>> \in Seq(Seq(C)) /\ \A c \in C : Append(s.cell, c) \in Seq(C)
    BY <1>1 DEF Scans
  <2> QED  BY <1>1, <2>1 DEF Take, EndCell, EndRow, Scans
<1>7. EndRow(s) \in FullScans(C)  BY <1>3, <1>4, <1>6 DEF FullScans
<1>8. ASSUME NEW c \in C PROVE ScanChar(s, c) \in FullScans(C)
  <2>1. PlainChar(s, c).rows \in {s.rows, Append(s.rows, last)}
    BY <1>1, <1>4, <1>5, <1>6 DEF PlainChar
  <2>2. ScanChar(s, c).rows \in {s.rows, Append(s.rows, last)}
    BY <1>1, <1>4, <1>5, <1>6, <2>1 DEF ScanChar
  <2>3. ScanChar(s, c) \in Scans(C)  BY <1>1, ScanTyped
  <2> QED  BY <1>1, <1>3, <2>2, <2>3 DEF FullScans
<1> QED  BY <1>7, <1>8

LEMMA RowsHaveCells ==
    ASSUME NEW text, IsSequence(text)
    PROVE  IsSequence(AllRows(text)) /\ \A i \in DOMAIN AllRows(text) : AllRows(text)[i] # <<>>
<1>1. PICK C : text \in Seq(C)  BY DEF IsSequence
<1>2. PICK n \in Nat : n = Len(text) /\ \A k \in 1..n : text[k] \in C  BY <1>1
<1>3. PICK h : /\ FoldLeft(ScanChar, Blank, text) = h[1..n] /\ h[{}] = Blank
               /\ \A k \in 1..n : h[1..k] = ScanChar(h[1..(k - 1)], text[k])
  BY <1>1, <1>2, FoldScans
<1> DEFINE T == {k \in 0..n : h[1..k] \in FullScans(C)}
<1>4. 0 \in T
  <2>1. Blank \in Scans(C) /\ Blank.rows = <<>>  BY DEF Blank, Scans
  <2>2. DOMAIN <<>> = {}  OBVIOUS
  <2>3. Blank \in FullScans(C)  BY <2>1, <2>2 DEF FullScans
  <2>4. 1..0 = {} /\ 0 \in 0..n  OBVIOUS
  <2>5. h[1..0] \in FullScans(C)  BY <1>3, <2>3, <2>4
  <2> QED  BY <2>4, <2>5
<1>5. \A k \in 1..n : k - 1 \in T => k \in T
  <2> SUFFICES ASSUME NEW k \in 1..n, k - 1 \in T PROVE k \in T  OBVIOUS
  <2>1. h[1..(k - 1)] \in FullScans(C)  OBVIOUS
  <2>2. ScanChar(h[1..(k - 1)], text[k]) \in FullScans(C)  BY <1>2, <2>1, ScanStaysFull
  <2> QED  BY <1>3, <2>2
<1> HIDE DEF T
<1>6. 0..n \subseteq T  BY <1>4, <1>5, UpTo
<1>7. n \in T  BY <1>6
<1>8. PICK s \in FullScans(C) : s = FoldLeft(ScanChar, Blank, text)  BY <1>3, <1>7 DEF T
<1>9. Flushed(s) \in FullScans(C)
  <2>1. EndRow(s) \in FullScans(C)  BY ScanStaysFull
  <2> QED  BY <2>1 DEF Flushed
<1>10. AllRows(text) = Flushed(s).rows  BY <1>8 DEF AllRows
<1>11. Flushed(s).rows \in Seq(Seq(Seq(C))) /\ \A i \in DOMAIN Flushed(s).rows : Flushed(s).rows[i] # <<>>
  BY <1>9 DEF FullScans, Scans
<1> QED  BY <1>10, <1>11, SequenceIs

\* A header is taken of a file that has a row, and it is not empty.
LEMMA HeaderIsRow ==
    ASSUME NEW text, IsSequence(text), NEW mode, ParseCsv(text, mode).has_header
    PROVE  ParseCsv(text, mode).headers # <<>> /\ mode # "ForceData"
<1>1. PICK all : all = AllRows(text)  OBVIOUS
<1>2. TreatFirstAsHeader(all, mode)  BY <1>1 DEF ParseCsv
<1>3. all # <<>> /\ mode \in {"ForceHeader", "Auto"}  BY <1>2 DEF TreatFirstAsHeader
<1>4. IsSequence(all) /\ \A i \in DOMAIN all : all[i] # <<>>  BY <1>1, RowsHaveCells
<1>5. all[1] # <<>>  BY <1>3, <1>4, NotEmpty
<1>6. ParseCsv(text, mode).headers = all[1]  BY <1>1, <1>2 DEF ParseCsv
<1> QED  BY <1>3, <1>5, <1>6

-----------------------------------------------------------------------------
(* Clouds that are imported *)

\* A table of scalars as the reader makes it: rows of numbers, as long as the
\* header.
IsPly(t) ==
    /\ IsSequence(t.properties) /\ \A p \in Range(t.properties) : p.suffix \in Int
    /\ IsSequence(t.rows) /\ \A row \in Range(t.rows) : row \in [DOMAIN t.properties -> Int]

LEMMA FirstFound ==
    ASSUME NEW n \in Nat, NEW S \in SUBSET (1..n), S # {}
    PROVE  FirstOf(S) \in S /\ \A j \in S : FirstOf(S) <= j
<1>1. Least(S) \in S /\ \A j \in S : Least(S) <= j
  <2>1. 1 \in Int /\ n \in Int  OBVIOUS
  <2> QED  BY <2>1, LeastGreatest
<1>2. FirstOf(S) = Least(S)  BY DEF FirstOf, Least
<1> QED  BY <1>1, <1>2

LEMMA PlyIs ==
    ASSUME NEW t, IsPly(t)
    PROVE  \E n, m \in Nat :
              /\ n = Len(t.properties) /\ Columns(t) = 1..n
              /\ \A i \in 1..n : t.properties[i].suffix \in Int
              /\ m = Len(t.rows) /\ DOMAIN t.rows = 1..m
              /\ \A row \in 1..m : t.rows[row] \in [1..n -> Int]
<1>1. PICK C : t.properties \in Seq(C)  BY DEF IsPly, IsSequence
<1>2. PICK D : t.rows \in Seq(D)  BY DEF IsPly, IsSequence
<1>3. PICK n \in Nat : n = Len(t.properties) /\ DOMAIN t.properties = 1..n  BY <1>1
<1>4. PICK m \in Nat : m = Len(t.rows) /\ DOMAIN t.rows = 1..m  BY <1>2
<1>5. \A i \in 1..n : t.properties[i].suffix \in Int  BY <1>3 DEF IsPly, Range
<1>6. \A row \in 1..m : t.rows[row] \in [1..n -> Int]  BY <1>3, <1>4 DEF IsPly, Range
<1> QED  BY <1>3, <1>4, <1>5, <1>6 DEF Columns

\* A property is found in a column, or nowhere.
LEMMA PropertyFound ==
    ASSUME NEW t, NEW n \in Nat, Columns(t) = 1..n, NEW name
    PROVE  FindProperty(t, name) \in 0..n
<1>1. PICK found : found = {i \in Columns(t) : t.properties[i].name = name}  OBVIOUS
<1>2. found \in SUBSET (1..n)  BY <1>1
<1>3. found # {} => FirstOf(found) \in 1..n  BY <1>2, FirstFound
<1>4. FindProperty(t, name) = IF found = {} THEN 0 ELSE FirstOf(found)  BY <1>1 DEF FindProperty
<1> QED  BY <1>3, <1>4

\* Harmonics that are numbered from 0 are found in the order of their numbers.
LEMMA HarmonicsInOrder ==
    ASSUME NEW t, NEW n \in Nat, Columns(t) = 1..n,
           \A i \in 1..n : t.properties[i].suffix \in Int
    PROVE  LET numbers == {t.properties[i].suffix : i \in Rests(t)}
               N == Cardinality(Rests(t))
           IN /\ N \in Nat /\ DOMAIN RestOrder(t) = 1..N /\ Len(RestOrder(t)) = N
              /\ numbers = 0..N - 1 =>
                    \A k \in numbers : /\ k + 1 \in 1..N
                                       /\ RestOrder(t)[k + 1] = CHOOSE i \in Rests(t) : t.properties[i].suffix = k
                                       /\ RestOrder(t)[k + 1] \in 1..n
<1>1. PICK S : S = Rests(t)  OBVIOUS
<1>2. S \in SUBSET (1..n)  BY <1>1 DEF Rests
<1>3. IsFiniteSet(S)
  <2>1. IsFiniteSet(1..n)  BY FS_Interval
  <2> QED  BY <1>2, <2>1, FS_Subset
<1>4. PICK N \in Nat : N = Cardinality(S)  BY <1>3, FS_CardinalityType
<1>5. PICK f : f = [i \in S |-> t.properties[i].suffix]  OBVIOUS
<1>6. \A i \in S : i \in Nat /\ f[i] \in Int /\ f[i] = t.properties[i].suffix  BY <1>2, <1>5
<1> DEFINE before(i, j) == f[i] < f[j] \/ (f[i] = f[j] /\ i < j)
           Before(i) == {j \in S : before(j, i)}
<1>7. RestOrder(t) = [k \in 1..N |-> CHOOSE i \in S : Cardinality(Before(i)) = k - 1]
  <2>1. PICK R : R = {p \in S \X S : \/ t.properties[p[1]].suffix < t.properties[p[2]].suffix
                                     \/ (t.properties[p[1]].suffix = t.properties[p[2]].suffix /\ p[1] < p[2])}
    OBVIOUS
  <2>2. RestOrder(t) = InOrder(S, R)  BY <1>1, <2>1 DEF RestOrder
  <2>3. \A i \in S : {j \in S : <<j, i>> \in R} = Before(i)
    <3> SUFFICES ASSUME NEW i \in S, NEW j \in S PROVE <<j, i>> \in R <=> before(j, i)
      OBVIOUS
    <3>1. <<j, i>> \in S \X S /\ <<j, i>>[1] = j /\ <<j, i>>[2] = i  OBVIOUS
    <3>2. f[i] = t.properties[i].suffix /\ f[j] = t.properties[j].suffix  BY <1>6
    <3> QED  BY <2>1, <3>1, <3>2
  <2> HIDE DEF Before
  <2>4. \A k : (CHOOSE i \in S : Cardinality({j \in S : <<j, i>> \in R}) = k - 1)
                  = (CHOOSE i \in S : Cardinality(Before(i)) = k - 1)
    BY <2>3
  <2> QED  BY <1>4, <2>2, <2>4 DEF InOrder
<1>8. DOMAIN RestOrder(t) = 1..N /\ Len(RestOrder(t)) = N
  <2> HIDE DEF Before
  <2> QED  BY <1>7
<1>9. ASSUME {t.properties[i].suffix : i \in S} = 0..N - 1, NEW k \in 0..N - 1
      PROVE  /\ k + 1 \in 1..N
             /\ RestOrder(t)[k + 1] = CHOOSE i \in S : t.properties[i].suffix = k
             /\ RestOrder(t)[k + 1] \in 1..n
  <2>1. f \in Surjection(S, 0..N - 1)
    <3>1. \A i \in S : f[i] \in 0..N - 1  BY <1>6, <1>9
    <3>2. \A x \in 0..N - 1 : \E i \in S : f[i] = x  BY <1>6, <1>9
    <3>3. f \in [S -> 0..N - 1]  BY <1>5, <3>1
    <3> QED  BY <3>2, <3>3 DEF Surjection
  <2>2. Cardinality(0..N - 1) = N
    <3>1. 0 \in Int /\ N - 1 \in Int  OBVIOUS
    <3> QED  BY <3>1, FS_Interval
  <2>3. f \in Injection(S, 0..N - 1)  BY <1>3, <1>4, <2>1, <2>2, FS_SurjSameCardinalityImpliesInj
  <2>4. \A i, j \in S : f[i] = f[j] => i = j  BY <2>1, <2>3 DEF Injection, Surjection, IsInjective
  <2>5. \A i \in S : f[i] \in 0..N - 1  BY <2>1 DEF Surjection
  <2>6. ASSUME NEW i \in S PROVE Cardinality(Before(i)) = f[i]
    <3>1. PICK x \in 0..N - 1 : x = f[i]  BY <2>5
    <3>2. Before(i) = {j \in S : f[j] < x}
      <4>1. \A j \in S : before(j, i) <=> f[j] < x
        <5> TAKE j \in S
        <5>1. f[j] = f[i] => ~(j < i)  BY <1>6, <2>4
        <5> QED  BY <3>1, <5>1
      <4> HIDE DEF before
      <4> QED  BY <4>1
    <3>3. PICK B : B = Before(i)  OBVIOUS
    <3>4. PICK g : g = [j \in B |-> f[j]]  OBVIOUS
    <3> HIDE DEF Before
    <3>5. B \subseteq S /\ IsFiniteSet(B)
      <4>1. B \subseteq S  BY <3>2, <3>3
      <4> QED  BY <1>3, <4>1, FS_Subset
    <3>6. \A y \in 0..x - 1 : y \in 0..N - 1  BY <3>1
    <3>7. g \in [B -> 0..x - 1]
      <4>1. \A j \in B : f[j] \in 0..x - 1
        <5> TAKE j \in B
        <5>1. j \in S /\ f[j] < x  BY <3>2, <3>3
        <5>2. f[j] \in 0..N - 1  BY <2>5, <5>1
        <5> QED  BY <3>1, <5>1, <5>2
      <4> QED  BY <3>4, <4>1
    <3>8. \A y \in 0..x - 1 : \E j \in B : g[j] = y
      <4> TAKE y \in 0..x - 1
      <4>1. PICK j \in S : f[j] = y  BY <2>1, <3>6 DEF Surjection
      <4>2. j \in B  BY <3>1, <3>2, <3>3, <4>1
      <4> QED  BY <3>4, <4>1, <4>2
    <3>9. \A a, b \in B : g[a] = g[b] => a = b  BY <2>4, <3>4, <3>5
    <3>10. g \in Bijection(B, 0..x - 1)  BY <3>7, <3>8, <3>9 DEF Bijection, Surjection, Injection, IsInjective
    <3>11. Cardinality(0..x - 1) = Cardinality(B)
      BY <3>5, <3>10, FS_Bijection DEF ExistsBijection
    <3>12. Cardinality(0..x - 1) = x
      <4>1. PICK z \in Int : z = x - 1  OBVIOUS
      <4>2. Cardinality(0..z) = IF 0 > z THEN 0 ELSE z - 0 + 1  BY FS_Interval
      <4> QED  BY <4>1, <4>2
    <3> QED  BY <3>1, <3>3, <3>11, <3>12
  <2>7. PICK i \in S : f[i] = k  BY <2>1 DEF Surjection
  <2> HIDE DEF Before
  <2>8. \A j \in S : Cardinality(Before(j)) = k <=> j = i  BY <2>4, <2>6, <2>7
  <2>9. (CHOOSE j \in S : Cardinality(Before(j)) = k) = i  BY <2>8
  <2>10. (CHOOSE j \in S : t.properties[j].suffix = k) = i
    <3>1. \A j \in S : t.properties[j].suffix = k <=> j = i  BY <1>6, <2>4, <2>7
    <3> QED  BY <3>1
  <2>11. k + 1 \in 1..N /\ (k + 1) - 1 = k  OBVIOUS
  <2>12. RestOrder(t)[k + 1] = i  BY <1>7, <2>9, <2>11
  <2> QED  BY <1>2, <2>10, <2>11, <2>12
<1> QED  BY <1>1, <1>4, <1>8, <1>9

\* What the ranges of a cloud and the splats are made of.
Boxes == [min : [1..3 -> Int], max : [1..3 -> Int], opacity_min : Int, opacity_max : Int,
          scale_min : Int, scale_max : Int]
Placed(p) == p.position \in [1..3 -> Int] /\ p.opacity \in Int /\ p.scale \in [1..3 -> Int]

LEMMA BoundsTyped ==
    ASSUME NEW a \in Int, NEW b \in Int
    PROVE  /\ LowerOf(a, b) \in Int /\ LowerOf(a, b) <= a /\ LowerOf(a, b) <= b /\ LowerOf(a, b) \in {a, b}
           /\ HigherOf(a, b) \in Int /\ a <= HigherOf(a, b) /\ b <= HigherOf(a, b) /\ HigherOf(a, b) \in {a, b}
  BY DEF LowerOf, HigherOf

LEMMA ScaleBounds ==
    ASSUME NEW p, Placed(p)
    PROVE  /\ LeastOf(p.scale) \in Int /\ GreatestOf(p.scale) \in Int
           /\ \A k \in 1..3 : LeastOf(p.scale) <= p.scale[k] /\ p.scale[k] <= GreatestOf(p.scale)
<1>1. PICK v \in [1..3 -> Int] : v = p.scale  BY DEF Placed
<1>2. /\ LeastOf(v) \in Int /\ GreatestOf(v) \in Int
      /\ \A k \in 1..3 : LeastOf(v) <= v[k] /\ v[k] <= GreatestOf(v)
  <2>1. 3 \in Nat /\ 3 > 0  OBVIOUS
  <2> QED  BY <2>1, Extremes
<1> QED  BY <1>1, <1>2

LEMMA FirstBox ==
    ASSUME NEW p, Placed(p)
    PROVE  Ranges(p) \in Boxes
<1>1. LeastOf(p.scale) \in Int /\ GreatestOf(p.scale) \in Int  BY ScaleBounds
<1> QED  BY <1>1 DEF Ranges, Boxes, Placed

\* A box has a splat in it, or its bounds are of splats of P.
Covers(r, p) ==
    /\ Within(p.position, r) /\ r.opacity_min <= p.opacity /\ p.opacity <= r.opacity_max
    /\ \A k \in 1..3 : r.scale_min <= p.scale[k] /\ p.scale[k] <= r.scale_max
Attained(r, P) ==
    /\ \A k \in 1..3 : r.min[k] \in {p.position[k] : p \in P} /\ r.max[k] \in {p.position[k] : p \in P}
    /\ r.opacity_min \in {p.opacity : p \in P} /\ r.opacity_max \in {p.opacity : p \in P}

\* One splat more: it and what was covered before is covered.
LEMMA ExpandCovers ==
    ASSUME NEW r \in Boxes, NEW p, Placed(p)
    PROVE  /\ Expand(r, p) \in Boxes /\ Covers(Expand(r, p), p)
           /\ \A q : Placed(q) /\ Covers(r, q) => Covers(Expand(r, p), q)
           /\ \A P : p \in P /\ Attained(r, P) => Attained(Expand(r, p), P)
<1>1. PICK lo, hi \in Int : /\ lo = LeastOf(p.scale) /\ hi = GreatestOf(p.scale)
                            /\ \A k \in 1..3 : lo <= p.scale[k] /\ p.scale[k] <= hi
  BY ScaleBounds
<1>2. PICK e : e = Expand(r, p)  OBVIOUS
<1>3. /\ e.min = [k \in 1..3 |-> LowerOf(r.min[k], p.position[k])]
      /\ e.max = [k \in 1..3 |-> HigherOf(r.max[k], p.position[k])]
      /\ e.opacity_min = LowerOf(r.opacity_min, p.opacity)
      /\ e.opacity_max = HigherOf(r.opacity_max, p.opacity)
      /\ e.scale_min = LowerOf(r.scale_min, lo)
      /\ e.scale_max = HigherOf(r.scale_max, hi)
  BY <1>1, <1>2 DEF Expand
<1>4. \A k \in 1..3 : r.min[k] \in Int /\ r.max[k] \in Int /\ p.position[k] \in Int /\ p.scale[k] \in Int
  BY DEF Boxes, Placed
<1>5. r.opacity_min \in Int /\ r.opacity_max \in Int /\ r.scale_min \in Int /\ r.scale_max \in Int
      /\ p.opacity \in Int
  BY DEF Boxes, Placed
<1>6. \A k \in 1..3 : /\ e.min[k] \in Int /\ e.min[k] <= r.min[k] /\ e.min[k] <= p.position[k]
                      /\ e.min[k] \in {r.min[k], p.position[k]}
                      /\ e.max[k] \in Int /\ r.max[k] <= e.max[k] /\ p.position[k] <= e.max[k]
                      /\ e.max[k] \in {r.max[k], p.position[k]}
  <2> TAKE k \in 1..3
  <2>1. PICK a \in Int : a = r.min[k]  BY <1>4
  <2>2. PICK b \in Int : b = r.max[k]  BY <1>4
  <2>3. PICK c \in Int : c = p.position[k]  BY <1>4
  <2>4. e.min[k] = LowerOf(a, c) /\ e.max[k] = HigherOf(b, c)  BY <1>3, <2>1, <2>2, <2>3
  <2>5. /\ LowerOf(a, c) \in Int /\ LowerOf(a, c) <= a /\ LowerOf(a, c) <= c
        /\ LowerOf(a, c) \in {a, c}
    BY BoundsTyped
  <2>6. /\ HigherOf(b, c) \in Int /\ b <= HigherOf(b, c) /\ c <= HigherOf(b, c)
        /\ HigherOf(b, c) \in {b, c}
    BY BoundsTyped
  <2> QED  BY <2>1, <2>2, <2>3, <2>4, <2>5, <2>6
<1>7. /\ e.opacity_min \in Int /\ e.opacity_min <= r.opacity_min /\ e.opacity_min <= p.opacity
      /\ e.opacity_max \in Int /\ r.opacity_max <= e.opacity_max /\ p.opacity <= e.opacity_max
      /\ e.opacity_min \in {r.opacity_min, p.opacity} /\ e.opacity_max \in {r.opacity_max, p.opacity}
      /\ e.scale_min \in Int /\ e.scale_min <= r.scale_min /\ e.scale_min <= lo
      /\ e.scale_max \in Int /\ r.scale_max <= e.scale_max /\ hi <= e.scale_max
  <2>1. PICK a \in Int : a = p.opacity  BY <1>5
  <2>2. PICK b \in Int : b = r.opacity_min  BY <1>5
  <2>3. PICK c \in Int : c = r.opacity_max  BY <1>5
  <2>4. /\ LowerOf(b, a) \in Int /\ LowerOf(b, a) <= b /\ LowerOf(b, a) <= a
        /\ LowerOf(b, a) \in {b, a}
    BY BoundsTyped
  <2>5. /\ HigherOf(c, a) \in Int /\ c <= HigherOf(c, a) /\ a <= HigherOf(c, a)
        /\ HigherOf(c, a) \in {c, a}
    BY BoundsTyped
  <2>6. PICK d \in Int : d = r.scale_min  BY <1>5
  <2>7. PICK f \in Int : f = r.scale_max  BY <1>5
  <2>8. LowerOf(d, lo) \in Int /\ LowerOf(d, lo) <= d /\ LowerOf(d, lo) <= lo  BY BoundsTyped
  <2>9. HigherOf(f, hi) \in Int /\ f <= HigherOf(f, hi) /\ hi <= HigherOf(f, hi)  BY BoundsTyped
  <2> QED  BY <1>3, <2>1, <2>2, <2>3, <2>4, <2>5, <2>6, <2>7, <2>8, <2>9
<1>8. e \in Boxes
  <2>1. e.min \in [1..3 -> Int] /\ e.max \in [1..3 -> Int]  BY <1>3, <1>6
  <2>2. e = [min |-> e.min, max |-> e.max, opacity_min |-> e.opacity_min,
             opacity_max |-> e.opacity_max, scale_min |-> e.scale_min, scale_max |-> e.scale_max]
    BY <1>2 DEF Expand
  <2> QED  BY <1>7, <2>1, <2>2 DEF Boxes
<1>9. Covers(e, p)
  <2>1. Within(p.position, e)  BY <1>6 DEF Within
  <2>2. \A k \in 1..3 : e.scale_min <= p.scale[k] /\ p.scale[k] <= e.scale_max
    BY <1>1, <1>4, <1>7
  <2> QED  BY <1>7, <2>1, <2>2 DEF Covers
<1>10. ASSUME NEW q, Placed(q), Covers(r, q) PROVE Covers(e, q)
  <2>1. \A k \in 1..3 : q.position[k] \in Int /\ q.scale[k] \in Int  BY <1>10 DEF Placed
  <2>2. \A k \in 1..3 : r.min[k] <= q.position[k] /\ q.position[k] <= r.max[k]
    BY <1>10 DEF Covers, Within
  <2>3. \A k \in 1..3 : e.min[k] <= q.position[k] /\ q.position[k] <= e.max[k]
    BY <1>4, <1>6, <2>1, <2>2
  <2>4. \A k \in 1..3 : e.scale_min <= q.scale[k] /\ q.scale[k] <= e.scale_max
    <3>1. \A k \in 1..3 : r.scale_min <= q.scale[k] /\ q.scale[k] <= r.scale_max  BY <1>10 DEF Covers
    <3> QED  BY <1>5, <1>7, <2>1, <3>1
  <2>5. e.opacity_min <= q.opacity /\ q.opacity <= e.opacity_max
    <3>1. r.opacity_min <= q.opacity /\ q.opacity <= r.opacity_max /\ q.opacity \in Int
      BY <1>10 DEF Covers, Placed
    <3> QED  BY <1>5, <1>7, <3>1
  <2> QED  BY <2>3, <2>4, <2>5 DEF Covers, Within
<1>11. ASSUME NEW P, p \in P, Attained(r, P) PROVE Attained(e, P)
  <2>1. \A k \in 1..3 : p.position[k] \in {z.position[k] : z \in P}  BY <1>11
  <2>2. p.opacity \in {z.opacity : z \in P}  BY <1>11
  <2>3. \A k \in 1..3 : e.min[k] \in {z.position[k] : z \in P} /\ e.max[k] \in {z.position[k] : z \in P}
    <3> TAKE k \in 1..3
    <3>1. PICK A : A = {z.position[k] : z \in P}  OBVIOUS
    <3>2. r.min[k] \in A /\ r.max[k] \in A /\ p.position[k] \in A  BY <1>11, <2>1, <3>1 DEF Attained
    <3>3. e.min[k] \in A /\ e.max[k] \in A  BY <1>6, <3>2
    <3> QED  BY <3>1, <3>3
  <2>4. e.opacity_min \in {z.opacity : z \in P} /\ e.opacity_max \in {z.opacity : z \in P}
    <3>1. PICK A : A = {z.opacity : z \in P}  OBVIOUS
    <3>2. r.opacity_min \in A /\ r.opacity_max \in A /\ p.opacity \in A  BY <1>11, <2>2, <3>1 DEF Attained
    <3>3. e.opacity_min \in A /\ e.opacity_max \in A  BY <1>7, <3>2
    <3> QED  BY <3>1, <3>3
  <2> QED  BY <2>3, <2>4 DEF Attained
<1> QED  BY <1>2, <1>8, <1>9, <1>10, <1>11

\* The ranges grow splat by splat.
LEMMA FoldExpands ==
    ASSUME NEW n \in Nat, n > 0, NEW v, v = [k \in 1..n |-> v[k]], \A k \in 1..n : Placed(v[k])
    PROVE  \E h : /\ FoldLeft(Expand, Ranges(v[1]), v) = h[1..n]
                  /\ h[{}] = Ranges(v[1])
                  /\ \A k \in 1..n : h[1..k] = Expand(h[1..(k - 1)], v[k])
<1>0. PICK base \in Boxes : base = Ranges(v[1])
  <2>1. 1 \in 1..n  OBVIOUS
  <2> QED  BY <2>1, FirstBox
<1>1. DOMAIN v = 1..n  BY Zenon
<1>2. PICK step : step = [p \in Boxes \X (1..n) |-> Expand(p[1], v[p[2]])]  OBVIOUS
<1>3. step \in [Boxes \X (1..n) -> Boxes]
  <2> SUFFICES ASSUME NEW p \in Boxes \X (1..n) PROVE Expand(p[1], v[p[2]]) \in Boxes
    BY <1>2
  <2>1. p[1] \in Boxes /\ Placed(v[p[2]])  OBVIOUS
  <2> QED  BY <2>1, ExpandCovers
<1>5. PICK g \in [SUBSET (1..n) -> Boxes] : IsFold(g, n, base, step)
  BY <1>3, FoldIsDefined
<1>6. \A s \in SUBSET (1..n) :
         g[s] = IF s = {} THEN base ELSE Expand(g[s \ {Max(s)}], v[Max(s)])
  <2> TAKE s \in SUBSET (1..n)
  <2>1. g[s] = IF s = {} THEN base ELSE step[<<g[s \ {Max(s)}], Max(s)>>]  BY <1>5 DEF IsFold
  <2>2. ASSUME s # {} PROVE step[<<g[s \ {Max(s)}], Max(s)>>] = Expand(g[s \ {Max(s)}], v[Max(s)])
    <3>1. PICK m : m = Max(s)  OBVIOUS
    <3>2. m \in 1..n /\ s \ {m} \in SUBSET (1..n)  BY <2>2, <3>1, MaxUpTo
    <3>3. <<g[s \ {m}], m>> \in Boxes \X (1..n)  BY <1>5, <3>2
    <3> QED  BY <1>2, <3>1, <3>3
  <2> QED  BY <2>1, <2>2
<1>7. g = [s \in SUBSET (DOMAIN v) |-> IF s = {} THEN base ELSE Expand(g[s \ {Max(s)}], v[Max(s)])]
  <2>1. g = [s \in SUBSET (DOMAIN v) |-> g[s]]  BY <1>1, <1>5
  <2> QED  BY <1>1, <1>6, <2>1
<1>8. PICK h : /\ h = [s \in SUBSET (DOMAIN v) |->
                         IF s = {} THEN base ELSE Expand(h[s \ {Max(s)}], v[Max(s)])]
               /\ FoldLeft(Expand, base, v) = h[DOMAIN v]
  BY <1>7 DEF FoldLeft, MapThenFoldSet
<1>9. \A s \in SUBSET (1..n) :
         h[s] = IF s = {} THEN base ELSE Expand(h[s \ {Max(s)}], v[Max(s)])
  BY <1>1, <1>8
<1>10. h[{}] = base  BY <1>9
<1>11. \A k \in 1..n : h[1..k] = Expand(h[1..(k - 1)], v[k])
  <2> TAKE k \in 1..n
  <2>1. PICK s : s = 1..k  OBVIOUS
  <2>2. s \in SUBSET (1..n) /\ s # {} /\ k \in s /\ s \ {k} = 1..(k - 1)
    <3>1. 1..k \in SUBSET (1..n) /\ k \in 1..k /\ (1..k) \ {k} = 1..(k - 1)  OBVIOUS
    <3> QED  BY <2>1, <3>1
  <2>3. PICK m : m = Max(s)  OBVIOUS
  <2>4. m \in s /\ \A x \in s : x <= m  BY <2>2, <2>3, MaxUpTo
  <2>5. m = k  BY <2>1, <2>2, <2>4
  <2>6. h[s] = Expand(h[s \ {m}], v[m])  BY <1>9, <2>2, <2>3
  <2> QED  BY <2>1, <2>2, <2>5, <2>6
<1>12. h[{}] = Ranges(v[1]) /\ FoldLeft(Expand, Ranges(v[1]), v) = h[1..n]
  BY <1>0, <1>1, <1>8, <1>10, Zenon
<1> QED  BY <1>11, <1>12, ZenonT(40)

\* What the ranges of a cloud come to.
LEMMA RangesCover ==
    ASSUME NEW n \in Nat, n > 0, NEW v, v = [k \in 1..n |-> v[k]], \A k \in 1..n : Placed(v[k])
    PROVE  LET r == FoldLeft(Expand, Ranges(v[1]), v) IN
           /\ r \in Boxes /\ Attained(r, Range(v))
           /\ \A k \in 1..n : Covers(r, v[k])
<1>1. PICK h : /\ FoldLeft(Expand, Ranges(v[1]), v) = h[1..n]
               /\ h[{}] = Ranges(v[1])
               /\ \A k \in 1..n : h[1..k] = Expand(h[1..(k - 1)], v[k])
  BY FoldExpands, ZenonT(60)
<1>2. PICK P : P = Range(v)  OBVIOUS
<1>3. \A k \in 1..n : v[k] \in P
  <2>1. DOMAIN v = 1..n  BY Zenon
  <2> QED  BY <1>2, <2>1 DEF Range
<1> DEFINE Good(k) == /\ h[1..k] \in Boxes /\ Attained(h[1..k], P)
                      /\ \A i \in 1..k : Covers(h[1..k], v[i])
<1>4. Good(0)
  <2>1. PICK p : p = v[1] /\ p \in P /\ Placed(p)  BY <1>3
  <2>2. PICK b : b = Ranges(p)  OBVIOUS
  <2>3. h[1..0] = b
    <3>1. 1..0 = {}  OBVIOUS
    <3> QED  BY <1>1, <2>1, <2>2, <3>1
  <2>4. b \in Boxes  BY <2>1, <2>2, FirstBox
  <2>5. Attained(b, P)
    <3>1. b.min = p.position /\ b.max = p.position /\ b.opacity_min = p.opacity /\ b.opacity_max = p.opacity
      BY <2>2 DEF Ranges
    <3>2. \A k \in 1..3 : p.position[k] \in {z.position[k] : z \in P}  BY <2>1
    <3>3. p.opacity \in {z.opacity : z \in P}  BY <2>1
    <3> QED  BY <3>1, <3>2, <3>3 DEF Attained
  <2>6. \A i \in 1..0 : Covers(b, v[i])  OBVIOUS
  <2> QED  BY <2>3, <2>4, <2>5, <2>6
<1>5. \A k \in 1..n : Good(k - 1) => Good(k)
  <2> SUFFICES ASSUME NEW k \in 1..n, Good(k - 1) PROVE Good(k)
    BY Zenon
  <2>1. PICK r \in Boxes : r = h[1..(k - 1)]  OBVIOUS
  <2>2. PICK p : p = v[k] /\ p \in P /\ Placed(p)  BY <1>3
  <2>3. PICK e : e = Expand(r, p)  OBVIOUS
  <2>4. h[1..k] = e  BY <1>1, <2>1, <2>2, <2>3
  <2>5. /\ e \in Boxes /\ Covers(e, p)
        /\ \A q : Placed(q) /\ Covers(r, q) => Covers(e, q)
        /\ \A Q : p \in Q /\ Attained(r, Q) => Attained(e, Q)
    <3>1. /\ Expand(r, p) \in Boxes /\ Covers(Expand(r, p), p)
          /\ \A q : Placed(q) /\ Covers(r, q) => Covers(Expand(r, p), q)
          /\ \A Q : p \in Q /\ Attained(r, Q) => Attained(Expand(r, p), Q)
      BY <2>2, ExpandCovers
    <3> QED  BY <2>3, <3>1, Zenon
  <2>6. Attained(e, P)  BY <2>1, <2>2, <2>5
  <2>7. \A i \in 1..k : Covers(e, v[i])
    <3> TAKE i \in 1..k
    <3>1. CASE i = k  BY <2>2, <2>5, <3>1
    <3>2. CASE i # k
      <4>1. i \in 1..(k - 1) /\ i \in 1..n  BY <3>2
      <4>2. Covers(r, v[i]) /\ Placed(v[i])  BY <2>1, <4>1
      <4> QED  BY <2>5, <4>2
    <3> QED  BY <3>1, <3>2
  <2> QED  BY <2>4, <2>5, <2>6, <2>7
<1> DEFINE S == {k \in 0..n : Good(k)}
<1>6. 0..n \subseteq S
  <2> HIDE DEF Good
  <2>1. 0 \in S  BY <1>4
  <2>2. \A k \in 1..n : k - 1 \in S => k \in S  BY <1>5
  <2> HIDE DEF S
  <2> QED  BY <2>1, <2>2, UpTo
<1>7. Good(n)
  <2> HIDE DEF Good
  <2>1. n \in 0..n  OBVIOUS
  <2> QED  BY <1>6, <2>1
<1> QED  BY <1>1, <1>2, <1>7

\* The columns that are read of a header that is accepted.
LEMMA ColumnsDetected ==
    ASSUME NEW t, NEW n \in Nat, Columns(t) = 1..n
    PROVE  /\ Detect(t).opacity \in 0..n
           /\ \A k \in 1..3 : /\ Detect(t).scale[k] \in 0..n
                              /\ Detect(t).dc[k] \in 0..n /\ Detect(t).rgb[k] \in 0..n
           /\ Detect(t).ok => \A k \in 1..3 : Detect(t).position[k] \in 1..n
           /\ Detect(t).rest = RestOrder(t)
<1>1. \A name : FindProperty(t, name) \in 0..n  BY PropertyFound
<1>2. PICK s : s = Detect(t)  OBVIOUS
<1>3. s.opacity \in 0..n /\ s.rest = RestOrder(t)  BY <1>1, <1>2 DEF Detect
<1>4. \A k \in 1..3 : s.scale[k] \in 0..n
  <2>1. s.scale = <<FindProperty(t, "scale_0"), FindProperty(t, "scale_1"), FindProperty(t, "scale_2")>>
    BY <1>2 DEF Detect
  <2>2. s.scale[1] \in 0..n /\ s.scale[2] \in 0..n /\ s.scale[3] \in 0..n  BY <1>1, <2>1
  <2> QED  BY <2>2
<1>5. \A k \in 1..3 : s.dc[k] \in 0..n
  <2>1. s.dc = <<FindProperty(t, "f_dc_0"), FindProperty(t, "f_dc_1"), FindProperty(t, "f_dc_2")>>
    BY <1>2 DEF Detect
  <2>2. s.dc[1] \in 0..n /\ s.dc[2] \in 0..n /\ s.dc[3] \in 0..n  BY <1>1, <2>1
  <2> QED  BY <2>2
<1>6. \A k \in 1..3 : s.rgb[k] \in 0..n
  <2>1. \/ s.rgb = <<0, 0, 0>>
        \/ s.rgb = <<FindProperty(t, "red"), FindProperty(t, "green"), FindProperty(t, "blue")>>
    BY <1>2 DEF Detect
  <2>2. s.rgb[1] \in 0..n /\ s.rgb[2] \in 0..n /\ s.rgb[3] \in 0..n  BY <1>1, <2>1
  <2> QED  BY <2>2
<1>7. ASSUME s.ok PROVE \A k \in 1..3 : s.position[k] \in 1..n
  <2>1. s.position = <<FindProperty(t, "x"), FindProperty(t, "y"), FindProperty(t, "z")>>
    BY <1>2 DEF Detect
  <2>2. \A axis \in {"x", "y", "z"} : FindProperty(t, axis) # 0  BY <1>2, <1>7 DEF Detect
  <2>3. s.position[1] \in 1..n /\ s.position[2] \in 1..n /\ s.position[3] \in 1..n
    BY <1>1, <2>1, <2>2
  <2> QED  BY <2>3
<1> QED  BY <1>2, <1>3, <1>4, <1>5, <1>6, <1>7

\* A field that is searched for by its name and has a default.
LEMMA FieldGiven ==
    ASSUME NEW t, NEW n \in Nat, Columns(t) = 1..n, NEW row, NEW name, NEW default
    PROVE  Given(t, row, name, OrElse(t, row, FindProperty(t, name), default), default)
<1>1. PICK named : named = {i \in Columns(t) : t.properties[i].name = name}  OBVIOUS
<1>2. FindProperty(t, name) = IF named = {} THEN 0 ELSE FirstOf(named)  BY <1>1 DEF FindProperty
<1>3. named \in SUBSET (1..n)  BY <1>1
<1>4. CASE named = {}
  BY <1>1, <1>2, <1>4 DEF Given, OrElse
<1>5. CASE named # {}
  <2>1. FirstOf(named) \in named  BY <1>3, <1>5, FirstFound
  <2>2. FirstOf(named) # 0  BY <1>3, <2>1
  <2>3. OrElse(t, row, FindProperty(t, name), default) = t.rows[row][FirstOf(named)]
    BY <1>2, <1>5, <2>2 DEF OrElse
  <2> QED  BY <1>1, <1>5, <2>1, <2>3 DEF Given
<1> QED  BY <1>4, <1>5

\* Every field but the colour is the row's own or has its default.
LEMMA RowGiven ==
    ASSUME NEW t, NEW n \in Nat, Columns(t) = 1..n, Detect(t).ok, NEW row, NEW garbage
    PROVE  FieldsGiven(t, row, SplatOf(t, Detect(t), row, garbage))
<1>1. PICK s : s = Detect(t)  OBVIOUS
<1>2. PICK p : p = SplatOf(t, s, row, garbage)  OBVIOUS
<1>3. Given(t, row, "opacity", p.opacity, DefaultOpacity)
  <2>1. p.opacity = OrElse(t, row, FindProperty(t, "opacity"), DefaultOpacity)
    BY <1>1, <1>2 DEF SplatOf, Detect
  <2> QED  BY <2>1, FieldGiven
<1>4. \A k \in 1..3 : Given(t, row, <<"x", "y", "z">>[k], p.position[k], 0)
  <2>1. s.position = <<FindProperty(t, "x"), FindProperty(t, "y"), FindProperty(t, "z")>>
    BY <1>1 DEF Detect
  <2>2. \A axis \in {"x", "y", "z"} : FindProperty(t, axis) # 0  BY <1>1 DEF Detect
  <2>3. \A k \in 1..3 : p.position[k] = t.rows[row][s.position[k]]  BY <1>2 DEF SplatOf
  <2>4. ASSUME NEW axis \in {"x", "y", "z"}
        PROVE  Given(t, row, axis, t.rows[row][FindProperty(t, axis)], 0)
    <3>1. OrElse(t, row, FindProperty(t, axis), 0) = t.rows[row][FindProperty(t, axis)]
      BY <2>2 DEF OrElse
    <3>2. Given(t, row, axis, OrElse(t, row, FindProperty(t, axis), 0), 0)  BY FieldGiven
    <3> QED  BY <3>1, <3>2
  <2>5. /\ Given(t, row, "x", p.position[1], 0) /\ Given(t, row, "y", p.position[2], 0)
        /\ Given(t, row, "z", p.position[3], 0)
    BY <2>1, <2>3, <2>4
  <2> QED  BY <2>5
<1>5. \A k \in 1..3 : Given(t, row, <<"scale_0", "scale_1", "scale_2">>[k], p.scale[k], DefaultScale)
  <2>1. s.scale = <<FindProperty(t, "scale_0"), FindProperty(t, "scale_1"), FindProperty(t, "scale_2")>>
    BY <1>1 DEF Detect
  <2>2. \A k \in 1..3 : p.scale[k] = OrElse(t, row, s.scale[k], DefaultScale)  BY <1>2 DEF SplatOf
  <2>3. \A name : Given(t, row, name, OrElse(t, row, FindProperty(t, name), DefaultScale), DefaultScale)
    BY FieldGiven
  <2>4. /\ Given(t, row, "scale_0", p.scale[1], DefaultScale)
        /\ Given(t, row, "scale_1", p.scale[2], DefaultScale)
        /\ Given(t, row, "scale_2", p.scale[3], DefaultScale)
    BY <2>1, <2>2, <2>3
  <2> QED  BY <2>4
<1>6. \A k \in 1..4 :
        Given(t, row, <<"rot_0", "rot_1", "rot_2", "rot_3">>[k], p.rotation[k], <<1, 0, 0, 0>>[k])
  <2>1. s.rotation = <<FindProperty(t, "rot_0"), FindProperty(t, "rot_1"),
                       FindProperty(t, "rot_2"), FindProperty(t, "rot_3")>>
    BY <1>1 DEF Detect
  <2>2. \A k \in 1..4 : p.rotation[k] = OrElse(t, row, s.rotation[k], IF k = 1 THEN 1 ELSE 0)
    BY <1>2 DEF SplatOf
  <2>3. \A name, default : Given(t, row, name, OrElse(t, row, FindProperty(t, name), default), default)
    BY FieldGiven
  <2>4. /\ Given(t, row, "rot_0", p.rotation[1], 1) /\ Given(t, row, "rot_1", p.rotation[2], 0)
        /\ Given(t, row, "rot_2", p.rotation[3], 0) /\ Given(t, row, "rot_3", p.rotation[4], 0)
    BY <2>1, <2>2, <2>3
  <2> QED  BY <2>4
<1> QED  BY <1>1, <1>2, <1>3, <1>4, <1>5, <1>6 DEF FieldsGiven

\* What a row becomes.
LEMMA SplatIs ==
    ASSUME NEW t, NEW n \in Nat, NEW m \in Nat, Columns(t) = 1..n,
           \A i \in 1..n : t.properties[i].suffix \in Int,
           \A row \in 1..m : t.rows[row] \in [1..n -> Int],
           Detect(t).ok, NEW row \in 1..m, NEW garbage
    PROVE  LET p == SplatOf(t, Detect(t), row, garbage) IN
           /\ Placed(p)
           /\ DOMAIN p.rest = DOMAIN RestOrder(t) /\ Len(p.rest) = Len(RestOrder(t))
           /\ \A k \in DOMAIN RestOrder(t) : p.rest[k] = t.rows[row][RestOrder(t)[k]]
           /\ ColourWhole(Detect(t)) /\ p.colour.space # "white" =>
                  \A k \in 1..3 : p.colour.value[k] \in Range(t.rows[row])
<1>1. PICK s : s = Detect(t)  OBVIOUS
<1>2. /\ s.opacity \in 0..n
      /\ \A k \in 1..3 : s.scale[k] \in 0..n /\ s.dc[k] \in 0..n /\ s.rgb[k] \in 0..n
      /\ \A k \in 1..3 : s.position[k] \in 1..n
      /\ s.rest = RestOrder(t)
  BY <1>1, ColumnsDetected
<1>3. PICK w \in [1..n -> Int] : w = t.rows[row]  OBVIOUS
<1>4. PICK p : p = SplatOf(t, s, row, garbage)  OBVIOUS
<1>5. Placed(p)
  <2>1. p.position = [k \in 1..3 |-> w[s.position[k]]]  BY <1>3, <1>4 DEF SplatOf
  <2>2. p.position \in [1..3 -> Int]  BY <1>2, <1>3, <2>1
  <2>3. p.opacity = IF s.opacity = 0 THEN DefaultOpacity ELSE w[s.opacity]
    BY <1>3, <1>4 DEF SplatOf, OrElse
  <2>4. p.opacity \in Int  BY <1>2, <1>3, <2>3 DEF DefaultOpacity
  <2>5. p.scale = [k \in 1..3 |-> IF s.scale[k] = 0 THEN DefaultScale ELSE w[s.scale[k]]]
    BY <1>3, <1>4 DEF SplatOf, OrElse
  <2>6. p.scale \in [1..3 -> Int]
    <3>1. DefaultScale \in Int  BY DEF DefaultScale
    <3>2. ASSUME NEW k \in 1..3
          PROVE  (IF s.scale[k] = 0 THEN DefaultScale ELSE w[s.scale[k]]) \in Int
      <4>1. s.scale[k] \in 0..n  BY <1>2
      <4>2. s.scale[k] # 0 => w[s.scale[k]] \in Int  BY <1>3, <4>1
      <4> QED  BY <3>1, <4>2
    <3> QED  BY <2>5, <3>2
  <2> QED  BY <2>2, <2>4, <2>6 DEF Placed
<1>6. p.rest = [k \in DOMAIN s.rest |-> w[s.rest[k]]]  BY <1>3, <1>4 DEF SplatOf
<1>7. DOMAIN p.rest = DOMAIN RestOrder(t) /\ Len(p.rest) = Len(RestOrder(t))
  <2>1. PICK N \in Nat : DOMAIN RestOrder(t) = 1..N /\ Len(RestOrder(t)) = N  BY HarmonicsInOrder
  <2>2. p.rest = [k \in 1..N |-> w[s.rest[k]]]  BY <1>2, <1>6, <2>1
  <2>3. Len([k \in 1..N |-> w[s.rest[k]]]) = N  OBVIOUS
  <2> QED  BY <2>1, <2>2, <2>3
<1>8. \A k \in DOMAIN RestOrder(t) : p.rest[k] = t.rows[row][RestOrder(t)[k]]
  BY <1>2, <1>3, <1>6
<1>9. ASSUME ColourWhole(s), p.colour.space # "white"
      PROVE  \A k \in 1..3 : p.colour.value[k] \in Range(t.rows[row])
  <2>1. \A i \in 1..n : ValueAt(t, row, i, garbage) = w[i] /\ w[i] \in Range(t.rows[row])
    <3> TAKE i \in 1..n
    <3>1. i # 0  OBVIOUS
    <3>2. w[i] \in Range(w)  BY DEF Range
    <3> QED  BY <1>3, <3>1, <3>2 DEF ValueAt
  <2>2. p.colour = Colour(t, s, row, garbage)  BY <1>4 DEF SplatOf
  <2>3. PICK c : /\ c \in {s.dc, s.rgb}
                 /\ p.colour.value = [k \in 1..3 |-> ValueAt(t, row, c[k], garbage)]
                 /\ 0 \notin {c[1], c[2], c[3]}
    <3>1. CASE s.dc[1] # 0
      <4>1. p.colour.value = [k \in 1..3 |-> ValueAt(t, row, s.dc[k], garbage)]
        BY <2>2, <3>1 DEF Colour
      <4>2. 0 \notin {s.dc[1], s.dc[2], s.dc[3]}  BY <1>9, <3>1 DEF ColourWhole
      <4> QED  BY <4>1, <4>2
    <3>2. CASE s.dc[1] = 0 /\ s.rgb[1] # 0
      <4>1. p.colour.value = [k \in 1..3 |-> ValueAt(t, row, s.rgb[k], garbage)]
        BY <2>2, <3>2 DEF Colour
      <4>2. 0 \notin {s.rgb[1], s.rgb[2], s.rgb[3]}  BY <1>9, <3>2 DEF ColourWhole
      <4> QED  BY <4>1, <4>2
    <3>3. CASE s.dc[1] = 0 /\ s.rgb[1] = 0
      <4>1. p.colour.space = "white"  BY <2>2, <3>3 DEF Colour
      <4> QED  BY <1>9, <4>1
    <3> QED  BY <3>1, <3>2, <3>3
  <2>4. \A k \in 1..3 : c[k] \in 1..n
    <3>1. \A k \in 1..3 : c[k] \in 0..n  BY <1>2, <2>3
    <3>2. c[1] \in 1..n /\ c[2] \in 1..n /\ c[3] \in 1..n  BY <2>3, <3>1
    <3> QED  BY <3>2
  <2> QED  BY <2>1, <2>3, <2>4
<1> QED  BY <1>1, <1>4, <1>5, <1>7, <1>8, <1>9

\* A cloud that is imported describes the first vertex table of its document:
\* a splat per row, harmonics in the order of their numbers, a colour of that
\* row when the header finishes one, the row's other fields or their defaults,
\* and ranges that are those of the splats.
\* src/src/engine/assets/gaussian_splat/ply_importer.cpp
THEOREM CloudIsDescribed ==
    ASSUME NEW document, IsSequence(document), \A t \in Range(document) : IsPly(t), NEW garbage,
           ImportCloud(document, garbage) # Rejected
    PROVE  \E i \in DOMAIN document :
              /\ document[i].element = "vertex"
              /\ \A j \in 1..i - 1 : document[j].element # "vertex"
              /\ CloudDescribes(document[i], ImportCloud(document, garbage))
<1>1. PICK d \in Nat : DOMAIN document = 1..d
  <2>1. PICK C : document \in Seq(C)  BY DEF IsSequence
  <2> QED  BY <2>1
<1>2. PICK vertices : vertices = {i \in DOMAIN document : document[i].element = "vertex"}  OBVIOUS
<1>3. PICK i : i = FirstOf(vertices)  OBVIOUS
<1>4. PICK t : t = document[i]  OBVIOUS
<1>5. PICK s : s = Detect(t)  OBVIOUS
<1>6. PICK v : v = [row \in DOMAIN t.rows |-> SplatOf(t, s, row, garbage)]  OBVIOUS
<1>7. PICK cloud : cloud = ImportCloud(document, garbage)  OBVIOUS
<1>8. /\ vertices # {} /\ s.ok /\ t.rows # <<>>
      /\ cloud = [splats |-> v, f_rest_count |-> Len(s.rest), ranges |-> FoldLeft(Expand, Ranges(v[1]), v)]
  <2>1. ImportCloud(document, garbage) =
           IF \/ vertices = {} \/ ~s.ok \/ t.rows = <<>>
              \/ \E row \in DOMAIN v : ~IsFinite(v[row])
           THEN Rejected
           ELSE [splats |-> v, f_rest_count |-> Len(s.rest), ranges |-> FoldLeft(Expand, Ranges(v[1]), v)]
    BY <1>2, <1>3, <1>4, <1>5, <1>6, Zenon DEF ImportCloud
  <2> QED  BY <1>7, <2>1
<1>9. i \in vertices /\ \A j \in vertices : i <= j
  <2>1. vertices \in SUBSET (1..d)  BY <1>1, <1>2
  <2> QED  BY <1>3, <1>8, <2>1, FirstFound
<1>10. /\ i \in DOMAIN document /\ document[i].element = "vertex"
       /\ \A j \in 1..i - 1 : document[j].element # "vertex"
  <2>1. i \in 1..d /\ document[i].element = "vertex"  BY <1>1, <1>2, <1>9
  <2>2. \A j \in 1..i - 1 : document[j].element # "vertex"
    <3> SUFFICES ASSUME NEW j \in 1..i - 1, document[j].element = "vertex" PROVE FALSE
      OBVIOUS
    <3>1. j \in 1..d /\ j < i  BY <2>1
    <3>2. j \in vertices  BY <1>1, <1>2, <3>1
    <3> QED  BY <1>9, <2>1, <3>1, <3>2
  <2> QED  BY <1>1, <2>1, <2>2
<1>11. IsPly(t)  BY <1>4, <1>10 DEF Range
<1>12. PICK n, m \in Nat : /\ n = Len(t.properties) /\ Columns(t) = 1..n
                           /\ \A k \in 1..n : t.properties[k].suffix \in Int
                           /\ m = Len(t.rows) /\ DOMAIN t.rows = 1..m
                           /\ \A row \in 1..m : t.rows[row] \in [1..n -> Int]
  BY <1>11, PlyIs
<1>13. m > 0
  <2>1. PICK D : t.rows \in Seq(D)  BY <1>11 DEF IsPly, IsSequence
  <2> QED  BY <1>8, <1>12, <2>1
<1>14. PICK o : o = RestOrder(t)  OBVIOUS
<1>15. s.rest = o  BY <1>5, <1>12, <1>14, ColumnsDetected
<1>16. \A row \in 1..m : /\ Placed(v[row])
                         /\ DOMAIN v[row].rest = DOMAIN o /\ Len(v[row].rest) = Len(o)
                         /\ \A k \in DOMAIN o : v[row].rest[k] = t.rows[row][o[k]]
                         /\ ColourWhole(s) /\ v[row].colour.space # "white" =>
                                \A k \in 1..3 : v[row].colour.value[k] \in Range(t.rows[row])
  <2> TAKE row \in 1..m
  <2>1. v[row] = SplatOf(t, Detect(t), row, garbage)  BY <1>5, <1>6, <1>12
  <2>2. Detect(t).ok  BY <1>5, <1>8
  <2>3. LET p == SplatOf(t, Detect(t), row, garbage) IN
        /\ Placed(p)
        /\ DOMAIN p.rest = DOMAIN RestOrder(t) /\ Len(p.rest) = Len(RestOrder(t))
        /\ \A k \in DOMAIN RestOrder(t) : p.rest[k] = t.rows[row][RestOrder(t)[k]]
        /\ ColourWhole(Detect(t)) /\ p.colour.space # "white" =>
               \A k \in 1..3 : p.colour.value[k] \in Range(t.rows[row])
    BY <1>12, <2>2, SplatIs
  <2> QED  BY <1>5, <1>14, <2>1, <2>3, Zenon
<1>17. v = [k \in 1..m |-> v[k]]  BY <1>6, <1>12
<1>18. Len(v) = m  BY <1>12, <1>17
<1>19. PICK r : r = FoldLeft(Expand, Ranges(v[1]), v)  OBVIOUS
<1>20. r \in Boxes /\ Attained(r, Range(v)) /\ \A k \in 1..m : Covers(r, v[k])
  BY <1>13, <1>16, <1>17, <1>19, RangesCover
<1>21. PICK P : P = Range(v)  OBVIOUS
<1>22. P = {v[k] : k \in 1..m}  BY <1>6, <1>12, <1>21 DEF Range
<1>23. cloud.splats = v /\ cloud.f_rest_count = Len(o) /\ cloud.ranges = r  BY <1>8, <1>15, <1>19
<1>24. /\ Len(v) = Len(t.rows)
       /\ ColourWhole(s) =>
              \A row \in DOMAIN t.rows :
                  v[row].colour.space # "white" =>
                      \A k \in 1..3 : v[row].colour.value[k] \in Range(t.rows[row])
  BY <1>12, <1>16, <1>18
<1>25. {t.properties[k].suffix : k \in Rests(t)} = 0..Cardinality(Rests(t)) - 1 =>
          \A row \in DOMAIN t.rows, k \in {t.properties[c].suffix : c \in Rests(t)} :
              v[row].rest[k + 1] = t.rows[row][CHOOSE c \in Rests(t) : t.properties[c].suffix = k]
  <2> SUFFICES ASSUME {t.properties[k].suffix : k \in Rests(t)} = 0..Cardinality(Rests(t)) - 1,
                      NEW row \in DOMAIN t.rows, NEW k \in {t.properties[c].suffix : c \in Rests(t)}
               PROVE  v[row].rest[k + 1] = t.rows[row][CHOOSE c \in Rests(t) : t.properties[c].suffix = k]
    OBVIOUS
  <2>1. /\ k + 1 \in DOMAIN o
        /\ o[k + 1] = CHOOSE c \in Rests(t) : t.properties[c].suffix = k
    <3>1. LET numbers == {t.properties[c].suffix : c \in Rests(t)}
              N == Cardinality(Rests(t))
          IN /\ N \in Nat /\ DOMAIN RestOrder(t) = 1..N /\ Len(RestOrder(t)) = N
             /\ numbers = 0..N - 1 =>
                   \A j \in numbers : /\ j + 1 \in 1..N
                                      /\ RestOrder(t)[j + 1] = CHOOSE c \in Rests(t) : t.properties[c].suffix = j
                                      /\ RestOrder(t)[j + 1] \in 1..n
      BY <1>12, HarmonicsInOrder
    <3> QED  BY <1>14, <3>1, Zenon
  <2>2. v[row].rest[k + 1] = t.rows[row][o[k + 1]]  BY <1>12, <1>16, <2>1
  <2> QED  BY <2>1, <2>2, Zenon
<1>26. \A p \in P : /\ Len(p.rest) = Len(o) /\ Within(p.position, r)
                    /\ p.opacity \in r.opacity_min..r.opacity_max
                    /\ \A k \in 1..3 : p.scale[k] \in r.scale_min..r.scale_max
  <2> SUFFICES ASSUME NEW k \in 1..m
               PROVE  /\ Len(v[k].rest) = Len(o) /\ Within(v[k].position, r)
                      /\ v[k].opacity \in r.opacity_min..r.opacity_max
                      /\ \A a \in 1..3 : v[k].scale[a] \in r.scale_min..r.scale_max
    BY <1>22
  <2>1. Covers(r, v[k]) /\ Placed(v[k]) /\ Len(v[k].rest) = Len(o)  BY <1>16, <1>20
  <2>2. /\ r.opacity_min \in Int /\ r.opacity_max \in Int /\ r.scale_min \in Int /\ r.scale_max \in Int
        /\ v[k].opacity \in Int /\ \A a \in 1..3 : v[k].scale[a] \in Int
    BY <1>20, <2>1 DEF Boxes, Placed
  <2>3. /\ r.opacity_min <= v[k].opacity /\ v[k].opacity <= r.opacity_max
        /\ \A a \in 1..3 : r.scale_min <= v[k].scale[a] /\ v[k].scale[a] <= r.scale_max
    BY <2>1 DEF Covers
  <2>4. v[k].opacity \in r.opacity_min..r.opacity_max  BY <2>2, <2>3
  <2>5. \A a \in 1..3 : v[k].scale[a] \in r.scale_min..r.scale_max  BY <2>2, <2>3
  <2> QED  BY <2>1, <2>4, <2>5 DEF Covers
<1>27. /\ \A k \in 1..3 : {r.min[k], r.max[k]} \subseteq {p.position[k] : p \in P}
       /\ {r.opacity_min, r.opacity_max} \subseteq {p.opacity : p \in P}
  BY <1>20, <1>21 DEF Attained
<1>28. \A row \in DOMAIN t.rows : FieldsGiven(t, row, cloud.splats[row])
  <2> SUFFICES ASSUME NEW row \in DOMAIN t.rows PROVE FieldsGiven(t, row, cloud.splats[row])
    OBVIOUS
  <2>1. cloud.splats[row] = SplatOf(t, Detect(t), row, garbage)  BY <1>5, <1>6, <1>23
  <2>2. Detect(t).ok  BY <1>5, <1>8
  <2> QED  BY <1>12, <2>1, <2>2, RowGiven
<1>29. CloudDescribes(t, cloud)
  <2>1. /\ Len(cloud.splats) = Len(t.rows)
        /\ \A row \in DOMAIN t.rows : FieldsGiven(t, row, cloud.splats[row])
    BY <1>23, <1>24, <1>28
  <2>2. ColourWhole(Detect(t)) =>
            \A row \in DOMAIN t.rows :
                cloud.splats[row].colour.space # "white" =>
                    \A k \in 1..3 : cloud.splats[row].colour.value[k] \in Range(t.rows[row])
    BY <1>5, <1>23, <1>24, Zenon
  <2>3. {t.properties[c].suffix : c \in Rests(t)} = 0..Cardinality(Rests(t)) - 1 =>
            \A row \in DOMAIN t.rows, k \in {t.properties[c].suffix : c \in Rests(t)} :
                cloud.splats[row].rest[k + 1] = t.rows[row][CHOOSE c \in Rests(t) : t.properties[c].suffix = k]
    BY <1>23, <1>25, Zenon
  <2>4. \A p \in Range(cloud.splats) :
            /\ Len(p.rest) = cloud.f_rest_count /\ Within(p.position, cloud.ranges)
            /\ p.opacity \in cloud.ranges.opacity_min..cloud.ranges.opacity_max
            /\ \A k \in 1..3 : p.scale[k] \in cloud.ranges.scale_min..cloud.ranges.scale_max
    BY <1>21, <1>23, <1>26, Zenon
  <2>5. /\ \A k \in 1..3 :
              {cloud.ranges.min[k], cloud.ranges.max[k]} \subseteq {p.position[k] : p \in Range(cloud.splats)}
        /\ {cloud.ranges.opacity_min, cloud.ranges.opacity_max} \subseteq {p.opacity : p \in Range(cloud.splats)}
    BY <1>21, <1>23, <1>27, Zenon
  <2> QED  BY <2>1, <2>2, <2>3, <2>4, <2>5, Zenon DEF CloudDescribes
<1> QED  BY <1>4, <1>7, <1>10, <1>29
=============================================================================
