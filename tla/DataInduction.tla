--------------------------- MODULE DataInduction ----------------------------
(***************************************************************************)
(* Induction and recursion on natural numbers in a form without operator   *)
(* parameters: what is to be shown is a set of numbers, and the step of a  *)
(* recursive function is a function.  With it facts about what a loop of   *)
(* the program computes follow for inputs of every length.                 *)
(***************************************************************************)
EXTENDS Naturals, WellFoundedInduction, TLAPS

\* A set of numbers that is not empty has a least element.
LEMMA LeastNumber ==
  ASSUME NEW T \in SUBSET Nat, T # {}
  PROVE  \E x \in T : \A y \in T : x <= y
<1>. DEFINE Less == {p \in Nat \X Nat : p[1] < p[2]}
<1>1. OpToRel(<,Nat) = Less
  BY Zenon DEF OpToRel
<1>2. IsWellFoundedOn(Less, Nat)
  BY <1>1, NatLessThanWellFounded, Zenon
<1>. HIDE DEF Less
<1>3. PICK x \in T : \A y \in T : <<y, x>> \notin Less
  BY <1>2, WFMin, Zenon
<1>4. ASSUME NEW y \in T PROVE x <= y
  <2>1. x \in Nat /\ y \in Nat /\ <<y, x>> \notin Less
    BY <1>3
  <2>. QED
    BY <2>1 DEF Less
<1>. QED
  BY <1>4

\* A set of numbers with a bound has a greatest element.
LEMMA GreatestNumber ==
  ASSUME NEW n \in Nat, NEW T \in SUBSET (0 .. n), T # {}
  PROVE  \E x \in T : \A y \in T : y <= x
<1>. DEFINE Gaps == {g \in Nat : n - g \in T}
<1>0. \A k \in T : k \in Nat /\ k <= n
  OBVIOUS
<1>1. Gaps \in SUBSET Nat /\ Gaps # {}
  <2>1. PICK k \in T : TRUE
    OBVIOUS
  <2>2. n - k \in Gaps
    BY <1>0, <2>1
  <2>. QED
    BY <2>2
<1>2. PICK g \in Gaps : \A h \in Gaps : g <= h
  <2>. HIDE DEF Gaps
  <2>. QED BY <1>1, LeastNumber, Zenon
<1>. DEFINE x == n - g
<1>3. x \in T /\ g = n - x
  BY <1>0
<1>4. ASSUME NEW y \in T PROVE y <= x
  <2>1. n - y \in Gaps
    BY <1>0
  <2>2. x \in Nat /\ y \in Nat /\ g <= n - y
    BY <1>0, <1>2, <2>1
  <2>. QED
    BY <1>3, <2>2
<1>. QED
  BY <1>4

\* A set that has 0, and with a number its successor, has every number.
LEMMA SetInduction ==
  ASSUME NEW P, 0 \in P, \A n \in Nat : n \in P => n + 1 \in P
  PROVE  \A n \in Nat : n \in P
<1>. SUFFICES ASSUME NEW n \in Nat, n \notin P PROVE FALSE
  OBVIOUS
<1>1. PICK x \in Nat \ P : \A y \in Nat \ P : x <= y
  BY LeastNumber, Zenon
<1>2. x # 0 /\ x - 1 \in Nat
  BY <1>1
<1>3. x - 1 \in P
  BY <1>1, <1>2
<1>. QED
  BY <1>1, <1>2, <1>3

\* What is true of the first value, and of every next one after it, is true of all.
LEMMA LoopInvariant ==
  ASSUME NEW m \in Nat, NEW f, NEW A, f[0] \in A,
         \A n \in 1 .. m : f[n - 1] \in A => f[n] \in A
  PROVE  \A n \in 0 .. m : f[n] \in A
<1>. DEFINE P == {n \in Nat : n <= m => f[n] \in A}
<1>1. 0 \in P
  OBVIOUS
<1>2. ASSUME NEW n \in Nat, n \in P PROVE n + 1 \in P
  <2>. SUFFICES ASSUME n + 1 <= m PROVE f[n + 1] \in A
    OBVIOUS
  <2>1. n + 1 \in 1 .. m /\ n + 1 - 1 = n /\ f[n] \in A
    BY <1>2
  <2>. QED
    BY <2>1
<1>3. \A n \in Nat : n \in P
  <2>. HIDE DEF P
  <2>. QED BY <1>1, <1>2, SetInduction, Zenon
<1>. QED
  BY <1>3

\* f is a at 0, and at n what the n-th step makes of its value at n - 1.
Iterates(f, n, A, a, Step) ==
    /\ f \in [0 .. n -> A]
    /\ f[0] = a
    /\ \A k \in 1 .. n : f[k] = Step[k][f[k - 1]]

\* Whatever the steps, there is such a function: a loop has a result.
LEMMA RecursiveFunction ==
  ASSUME NEW m \in Nat, NEW A, NEW a \in A, NEW Step \in [1 .. m -> [A -> A]]
  PROVE  \E f : Iterates(f, m, A, a, Step)
<1>. DEFINE UpTo(k, g) == Iterates(g, k, A, a, Step)
            P == {k \in Nat : k <= m => \E g : UpTo(k, g)}
<1>1. 0 \in P
  <2>. DEFINE g == [n \in 0 .. 0 |-> a]
  <2>1. g \in [0 .. 0 -> A] /\ g[0] = a /\ 1 .. 0 = {}
    OBVIOUS
  <2>. HIDE DEF g
  <2>2. UpTo(0, g)
    BY <2>1 DEF Iterates
  <2>. QED
    BY <2>2
<1>2. \A k \in Nat : k \in P => k + 1 \in P
  <2>. TAKE k \in Nat
  <2>. HAVE k \in P
  <2>. HIDE DEF UpTo
  <2>. SUFFICES ASSUME k + 1 <= m PROVE \E h : UpTo(k + 1, h)
    OBVIOUS
  <2>. USE DEF UpTo, Iterates
  <2>. k <= m
    OBVIOUS
  <2>0. PICK g : UpTo(k, g)
    OBVIOUS
  <2>. DEFINE last == Step[k + 1][g[k]]
              h == [n \in 0 .. k + 1 |-> IF n <= k THEN g[n] ELSE last]
  <2>1. k + 1 \in 1 .. m /\ g[k] \in A
    BY <2>0
  <2>2. last \in A
    BY <2>1
  <2>. HIDE DEF last
  <2>3. h \in [0 .. k + 1 -> A]
    BY <2>0, <2>2
  <2>4. \A n \in 0 .. k : h[n] = g[n]
    OBVIOUS
  <2>5. h[k + 1] = last
    OBVIOUS
  <2>. HIDE DEF h
  <2>6. ASSUME NEW n \in 1 .. k + 1 PROVE h[n] = Step[n][h[n - 1]]
    <3>1. CASE n = k + 1
      BY <2>4, <2>5, <3>1 DEF last
    <3>2. CASE n \in 1 .. k
      <4>1. n - 1 \in 0 .. k /\ n \in 0 .. k
        BY <3>2
      <4>2. h[n] = g[n] /\ h[n - 1] = g[n - 1] /\ g[n] = Step[n][g[n - 1]]
        BY <2>0, <2>4, <3>2, <4>1
      <4>. QED
        BY <4>2
    <3>. QED
      BY <3>1, <3>2
  <2>7. h[0] = a
    BY <2>0, <2>4
  <2>8. UpTo(k + 1, h)
    BY <2>3, <2>6, <2>7
  <2>. QED
    BY <2>8
<1>3. m \in P
  <2>. HIDE DEF P
  <2>. QED BY <1>1, <1>2, SetInduction, Zenon
<1>4. \E g : UpTo(m, g)
  BY <1>3
<1>. QED
  BY <1>4

\* A recursion R defines a function on R.D: at d it is R.base[d] where R stops,
\* and elsewhere what R.step[d] makes of its value at R.next[d].
SolvesAt(R, f, d) ==
    f[d] = IF d \in R.Stop THEN R.base[d] ELSE R.step[d][f[R.next[d]]]

\* f is what R says at every point of size below n.
SolvesBelow(R, f, n) == \A d \in R.D : R.size[d] < n => SolvesAt(R, f, d)

\* Where the recursion goes on, it goes to a smaller point.
Decreases(R) ==
    /\ R.size \in [R.D -> Nat]
    /\ \A d \in R.D \ R.Stop :
           R.next[d] \in R.D /\ R.size[R.next[d]] < R.size[d]

\* What is true where the recursion stops, and true of a point when it is true of
\* the next one, is true everywhere.
LEMMA InductionBySize ==
  ASSUME NEW R, Decreases(R), NEW P,
         \A d \in R.D : d \in R.Stop \/ R.next[d] \in P => d \in P
  PROVE  \A d \in R.D : d \in P
<1>. DEFINE Sizes == {R.size[d] : d \in R.D \ P}
<1>. SUFFICES ASSUME R.D \ P # {} PROVE FALSE
  OBVIOUS
<1>1. Sizes \in SUBSET Nat /\ Sizes # {}
  BY DEF Decreases
<1>2. PICK k \in Sizes : \A l \in Sizes : k <= l
  <2>. HIDE DEF Sizes
  <2>. QED BY <1>1, LeastNumber, Zenon
<1>3. PICK d \in R.D \ P : R.size[d] = k
  BY <1>2
<1>4. d \in R.D \ R.Stop /\ R.next[d] \notin P
  BY <1>3
<1>5. R.next[d] \in R.D /\ R.size[R.next[d]] < R.size[d]
  BY <1>4 DEF Decreases
<1>6. R.size[R.next[d]] \in Nat /\ R.size[d] \in Nat
  BY <1>4, <1>5 DEF Decreases
<1>7. k <= R.size[R.next[d]]
  BY <1>2, <1>4, <1>5
<1>. QED
  BY <1>3, <1>5, <1>6, <1>7

\* A recursion whose argument becomes smaller has one solution at most.
LEMMA RecursionIsUnique ==
  ASSUME NEW R, Decreases(R), NEW n \in Nat,
         NEW f, SolvesBelow(R, f, n), NEW g, SolvesBelow(R, g, n)
  PROVE  \A d \in R.D : R.size[d] < n => f[d] = g[d]
<1>. USE DEF Decreases, SolvesBelow
<1>. DEFINE Bad == {d \in R.D : R.size[d] < n /\ f[d] # g[d]}
            Sizes == {R.size[d] : d \in Bad}
<1>. SUFFICES ASSUME Bad # {} PROVE FALSE
  OBVIOUS
<1>1. Sizes \in SUBSET Nat /\ Sizes # {}
  OBVIOUS
<1>2. PICK k \in Sizes : \A l \in Sizes : k <= l
  <2>. HIDE DEF Sizes
  <2>. QED BY <1>1, LeastNumber, Zenon
<1>3. PICK d \in Bad : R.size[d] = k
  BY <1>2
<1>4. d \in R.D /\ R.size[d] < n /\ f[d] # g[d]
  BY <1>3
<1>5. /\ f[d] = IF d \in R.Stop THEN R.base[d] ELSE R.step[d][f[R.next[d]]]
      /\ g[d] = IF d \in R.Stop THEN R.base[d] ELSE R.step[d][g[R.next[d]]]
  BY <1>4 DEF SolvesAt
<1>6. d \notin R.Stop
  BY <1>4, <1>5
<1>7. R.next[d] \in R.D /\ R.size[R.next[d]] \in Nat /\ R.size[d] \in Nat /\ R.size[R.next[d]] < R.size[d]
  BY <1>4, <1>6
<1>8. R.next[d] \notin Bad
  <2>. SUFFICES ASSUME R.next[d] \in Bad PROVE FALSE
    OBVIOUS
  <2>1. k <= R.size[R.next[d]]
    BY <1>2
  <2>. QED
    BY <1>3, <1>7, <2>1
<1>9. f[R.next[d]] = g[R.next[d]]
  BY <1>4, <1>7, <1>8
<1>. QED
  BY <1>4, <1>5, <1>6, <1>9

\* And it has a solution: a function defined by such a recursion is what its
\* equation says.
LEMMA RecursionBySize ==
  ASSUME NEW R, Decreases(R), NEW A,
         \A d \in R.D \cap R.Stop : R.base[d] \in A,
         \A d \in R.D \ R.Stop : R.step[d] \in [A -> A]
  PROVE  \E f \in [R.D -> A] : \A d \in R.D : SolvesAt(R, f, d)
<1>. USE DEF Decreases, SolvesBelow
<1>. SUFFICES ASSUME NEW e \in R.D
     PROVE \E f \in [R.D -> A] : \A d \in R.D : SolvesAt(R, f, d)
  <2>1. CASE R.D = {}
    <3>. DEFINE f == [d \in R.D |-> R.base[d]]
    <3>1. f \in [R.D -> A]
      BY <2>1
    <3>. QED
      BY <2>1, <3>1
  <2>. QED
    BY <2>1
<1>. DEFINE Good(n, f) ==
              /\ f \in [R.D -> A]
              /\ SolvesBelow(R, f, n)
            P == {n \in Nat : \E f : Good(n, f)}
<1>0. PICK a \in A : TRUE
  <2>. DEFINE Sizes == {R.size[d] : d \in R.D}
  <2>1. Sizes \in SUBSET Nat /\ Sizes # {}
    OBVIOUS
  <2>2. PICK k \in Sizes : \A l \in Sizes : k <= l
    <3>. HIDE DEF Sizes
    <3>. QED BY <2>1, LeastNumber, Zenon
  <2>3. PICK d \in R.D : R.size[d] = k
    BY <2>2
  <2>4. d \in R.Stop
    <3>. SUFFICES ASSUME d \notin R.Stop PROVE FALSE
      OBVIOUS
    <3>1. R.next[d] \in R.D /\ R.size[R.next[d]] < R.size[d]
      BY <2>3
    <3>2. k <= R.size[R.next[d]]
      BY <2>2, <3>1
    <3>3. R.size[R.next[d]] \in Nat /\ R.size[d] \in Nat
      BY <3>1
    <3>. QED
      BY <2>3, <3>1, <3>2, <3>3
  <2>. QED
    BY <2>3, <2>4
<1>1. 0 \in P
  <2>. DEFINE f == [d \in R.D |-> a]
  <2>1. f \in [R.D -> A]
    OBVIOUS
  <2>2. \A d \in R.D : ~(R.size[d] < 0)
    OBVIOUS
  <2>3. Good(0, f)
    BY <2>1, <2>2
  <2>. QED
    BY <2>3
<1>2. ASSUME NEW n \in Nat, n \in P PROVE n + 1 \in P
  <2>1. PICK f : Good(n, f)
    BY <1>2
  <2>. DEFINE Value(d) == IF d \in R.Stop THEN R.base[d] ELSE R.step[d][f[R.next[d]]]
              g == [d \in R.D |-> IF R.size[d] < n THEN f[d] ELSE Value(d)]
  <2>2. \A d \in R.D : Value(d) \in A
    BY <2>1
  <2>3. g \in [R.D -> A]
    BY <2>1, <2>2
  <2>4. ASSUME NEW d \in R.D, R.size[d] < n + 1 PROVE SolvesAt(R, g, d)
    <3>1. g[d] = Value(d)
      BY <2>1 DEF SolvesAt
    <3>2. d \notin R.Stop => g[R.next[d]] = f[R.next[d]]
      <4>. SUFFICES ASSUME d \notin R.Stop PROVE g[R.next[d]] = f[R.next[d]]
        OBVIOUS
      <4>1. R.next[d] \in R.D /\ R.size[R.next[d]] < R.size[d]
        OBVIOUS
      <4>2. R.size[R.next[d]] \in Nat /\ R.size[d] \in Nat
        BY <4>1
      <4>3. R.size[R.next[d]] < n
        BY <2>4, <4>1, <4>2
      <4>. QED
        BY <4>1, <4>3
    <3>. QED
      BY <3>1, <3>2 DEF SolvesAt
  <2>5. Good(n + 1, g)
    BY <2>3, <2>4
  <2>. HIDE DEF g, Good
  <2>. QED
    BY <2>5
<1>3. \A n \in Nat : n \in P
  <2>. HIDE DEF P
  <2>. QED BY <1>1, <1>2, SetInduction, Zenon
<1>. DEFINE Upto(n) == CHOOSE f : Good(n, f)
            F == [d \in R.D |-> Upto(R.size[d] + 1)[d]]
<1>4. ASSUME NEW n \in Nat PROVE Good(n, Upto(n))
  BY <1>3, Zenon
<1>. HIDE DEF Upto
<1>5. F \in [R.D -> A]
  <2>1. \A d \in R.D : Upto(R.size[d] + 1) \in [R.D -> A]
    BY <1>4
  <2>. QED
    BY <2>1
<1>6. ASSUME NEW d \in R.D PROVE SolvesAt(R, F, d)
  <2>. DEFINE g == Upto(R.size[d] + 1)
  <2>0. R.size[d] \in Nat /\ R.size[d] + 1 \in Nat
    OBVIOUS
  <2>1. F[d] = g[d]
    OBVIOUS
  <2>2. SolvesAt(R, g, d)
    BY <1>4, <2>0
  <2>3. d \notin R.Stop => F[R.next[d]] = g[R.next[d]]
    <3>. SUFFICES ASSUME d \notin R.Stop PROVE F[R.next[d]] = g[R.next[d]]
      OBVIOUS
    <3>. DEFINE x == R.next[d]
                h == Upto(R.size[x] + 1)
    <3>1. x \in R.D /\ R.size[x] < R.size[d]
      OBVIOUS
    <3>2. R.size[x] \in Nat /\ R.size[x] + 1 \in Nat
      BY <3>1
    <3>3. F[x] = h[x]
      BY <3>1
    <3>4. /\ \A y \in R.D : R.size[y] < R.size[x] + 1 => SolvesAt(R, h, y)
          /\ \A y \in R.D : R.size[y] < R.size[d] + 1 => SolvesAt(R, g, y)
      BY <1>4, <2>0, <3>2
    <3>5. \A y \in R.D : R.size[y] < R.size[x] + 1 => SolvesAt(R, g, y)
      <4>. TAKE y \in R.D
      <4>. HAVE R.size[y] < R.size[x] + 1
      <4>1. R.size[y] \in Nat
        OBVIOUS
      <4>2. R.size[y] < R.size[d] + 1
        BY <2>0, <3>1, <3>2, <4>1
      <4>. QED
        BY <3>4, <4>2
    <3>6. \A y \in R.D : R.size[y] < R.size[x] + 1 => h[y] = g[y]
      <4>. DEFINE m == R.size[x] + 1
      <4>2. /\ m \in Nat
            /\ SolvesBelow(R, h, m)
            /\ SolvesBelow(R, g, m)
            /\ Decreases(R)
        BY <3>2, <3>4, <3>5
      <4>. HIDE DEF g, h, x, m, SolvesBelow, Decreases
      <4>3. \A y \in R.D : R.size[y] < m => h[y] = g[y]
        BY <4>2, RecursionIsUnique, SMT
      <4>. QED BY <4>3 DEF m
    <3>. QED
      BY <3>1, <3>2, <3>3, <3>6
  <2>. HIDE DEF F, g
  <2>. QED
    BY <2>1, <2>2, <2>3 DEF SolvesAt
<1>. QED
  BY <1>5, <1>6

=============================================================================
