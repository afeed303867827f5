----------------------------- MODULE StockProofs -----------------------------
(***************************************************************************)
(* The units of stock before and after a checkout: theorems about the      *)
(* reservations (Inventory) and the life of an order (Orders), for any     *)
(* targets, calls and requests.  Sums over finite sets, which the proofs   *)
(* about checkouts need too, come first.                                   *)
(***************************************************************************)
EXTENDS Inventory, Orders, FiniteSetTheorems, WellFoundedInduction, TLAPS

-----------------------------------------------------------------------------
(* Induction on a finite set, and sums over one.  A set of subsets that has  *)
(* the empty set, and every subset that it has less any one element, has the *)
(* whole set: a smallest subset it does not have would be one it has.        *)

LEMMA SubsetInduction ==
  ASSUME NEW S, IsFiniteSet(S), NEW Good, {} \in Good,
         \A T \in SUBSET S : T # {} /\ (\A x \in T : T \ {x} \in Good) => T \in Good
  PROVE  S \in Good
<1> DEFINE Bad == {T \in SUBSET S : T \notin Good}
<1> SUFFICES ASSUME Bad # {} PROVE FALSE
  OBVIOUS
<1>1. IsWellFoundedOn(StrictSubsetOrdering(S), SUBSET S)
  BY FS_StrictSubsetOrderingWellFounded, FS_FiniteSubsetsOfFinite
<1>2. PICK T \in Bad : \A U \in Bad : ~(<<U, T>> \in StrictSubsetOrdering(S))
  <2>1. Bad \subseteq SUBSET S
    OBVIOUS
  <2> HIDE DEF Bad
  <2> QED BY <1>1, <2>1, WFMin
<1>3. \A x \in T : T \ {x} \in Good
  <2> TAKE x \in T
  <2>1. T \ {x} \in SUBSET S /\ T \in SUBSET S /\ T \ {x} # T /\ T \ {x} \subseteq T
    OBVIOUS
  <2>2. <<T \ {x}, T>> \in StrictSubsetOrdering(S)
    BY <2>1 DEF StrictSubsetOrdering
  <2>3. T \ {x} \notin Bad
    BY <1>2, <2>2
  <2> QED BY <2>1, <2>3
<1> QED BY <1>2, <1>3

First(s) == CHOOSE x \in s : TRUE

\* h gives the sum of g over every subset of S, as the sums of Functions compute it.
Sums(h, g, S) ==
  h = [s \in SUBSET S |-> IF s = {} THEN 0 ELSE g[First(s)] + h[s \ {First(s)}]]

LEMMA SumsAgree ==
  ASSUME NEW g, NEW S, IsFiniteSet(S), NEW T, NEW h, NEW k,
         Sums(h, g, S), Sums(k, g, T), NEW W, W \subseteq S, W \subseteq T
  PROVE  h[W] = k[W]
<1> DEFINE Good == {U \in SUBSET W : h[U] = k[U]}
<1>1. IsFiniteSet(W)
  BY FS_Subset
<1>2. {} \in Good
  BY DEF Sums
<1>3. ASSUME NEW U \in SUBSET W, U # {}, \A x \in U : U \ {x} \in Good PROVE U \in Good
  <2>1. First(U) \in U
    BY <1>3 DEF First
  <2>2. h[U \ {First(U)}] = k[U \ {First(U)}]
    BY <1>3, <2>1
  <2> QED BY <1>3, <2>2 DEF Sums
<1>4. W \in Good
  <2> HIDE DEF Good
  <2> QED BY <1>1, <1>2, <1>3, SubsetInduction
<1> QED BY <1>4

\* The recursion of the sums has a solution: the one for T is put together from those
\* for its smaller subsets.
LEMMA SumsExist ==
  ASSUME NEW g, NEW S, IsFiniteSet(S)
  PROVE  \E h : Sums(h, g, S)
<1> DEFINE Good == {T \in SUBSET S : \E h : Sums(h, g, T)}
           Part(U) == CHOOSE h : Sums(h, g, U)
<1>1. {} \in Good
  <2>1. Sums([s \in SUBSET {} |-> 0], g, {})
    BY DEF Sums
  <2> QED BY <2>1
<1>2. ASSUME NEW T \in SUBSET S, T # {}, \A x \in T : T \ {x} \in Good PROVE T \in Good
  <2> DEFINE R == T \ {First(T)}
             h == [s \in SUBSET T |-> IF s = T THEN g[First(T)] + Part(R)[R]
                                      ELSE Part(T \ {CHOOSE x \in T : x \notin s})[s]]
  <2>1. \A x \in T : Sums(Part(T \ {x}), g, T \ {x}) /\ IsFiniteSet(T \ {x})
    <3> TAKE x \in T
    <3>1. \E k : Sums(k, g, T \ {x})
      BY <1>2
    <3>2. IsFiniteSet(T \ {x})
      <4>1. T \ {x} \in SUBSET S
        OBVIOUS
      <4> QED BY <4>1, FS_Subset
    <3> QED BY <3>1, <3>2
  <2>2. First(T) \in T
    BY <1>2 DEF First
  <2> HIDE DEF Part
  \* Whichever smaller set a sum is taken from, it is the same.
  <2>3. ASSUME NEW s \in SUBSET T, NEW x \in T, x \notin s
        PROVE  h[s] = Part(T \ {x})[s]
    <3> DEFINE y == CHOOSE z \in T : z \notin s
    <3>1. y \in T /\ y \notin s
      BY <2>3
    <3>2. h[s] = Part(T \ {y})[s]
      BY <2>3
    <3>3. s \subseteq T \ {x} /\ s \subseteq T \ {y}
      BY <2>3, <3>1
    <3> HIDE DEF y, h
    <3>4. Part(T \ {x})[s] = Part(T \ {y})[s]
      <4> DEFINE X == T \ {x}
                 Y == T \ {y}
      <4>1. Sums(Part(X), g, X) /\ Sums(Part(Y), g, Y) /\ IsFiniteSet(X)
        BY <2>1, <3>1
      <4> HIDE DEF X, Y
      <4>2. Part(X)[s] = Part(Y)[s]
        BY <3>3, <4>1, SumsAgree DEF X, Y
      <4> QED BY <4>2 DEF X, Y
    <3> QED BY <3>2, <3>4
  <2>4. ASSUME NEW s \in SUBSET T
        PROVE  h[s] = IF s = {} THEN 0 ELSE g[First(s)] + h[s \ {First(s)}]
    <3>1. CASE s = T
      <4>1. h[T] = g[First(T)] + Part(R)[R]
        OBVIOUS
      <4>2. h[R] = Part(R)[R]
        BY <2>2, <2>3
      <4> HIDE DEF h
      <4> QED BY <1>2, <3>1, <4>1, <4>2
    <3>2. CASE s # T
      <4>1. PICK x \in T : x \notin s
        BY <3>2
      <4>2. h[s] = Part(T \ {x})[s] /\ h[s \ {First(s)}] = Part(T \ {x})[s \ {First(s)}]
        <5>1. s \ {First(s)} \in SUBSET T /\ x \notin s \ {First(s)}
          BY <4>1
        <5> HIDE DEF h
        <5> QED BY <2>3, <4>1, <5>1
      <4>3. Sums(Part(T \ {x}), g, T \ {x}) /\ s \in SUBSET (T \ {x})
        BY <2>1, <4>1
      <4> HIDE DEF h
      <4> QED BY <4>2, <4>3 DEF Sums
    <3> QED BY <3>1, <3>2
  <2>5. Sums(h, g, T)
    <3>1. h = [s \in SUBSET T |-> h[s]]
      OBVIOUS
    <3> HIDE DEF h
    <3> QED BY <2>4, <3>1 DEF Sums
  <2> QED BY <2>5
<1>3. S \in Good
  <2> HIDE DEF Good
  <2> QED BY <1>1, <1>2, SubsetInduction
<1> QED BY <1>3

LEMMA SumIs ==
  ASSUME NEW g, NEW S, IsFiniteSet(S)
  PROVE  \E h : Sums(h, g, S) /\ SumFunctionOnSet(g, S) = h[S]
<1> DEFINE h == CHOOSE k : Sums(k, g, S)
<1>1. Sums(h, g, S)
  BY SumsExist
<1>2. SumFunctionOnSet(g, S) = h[S]
  BY DEF SumFunctionOnSet, FoldFunctionOnSet, MapThenFoldSet, Sums, First
<1> QED BY <1>1, <1>2

LEMMA SumEmpty == ASSUME NEW g PROVE SumFunctionOnSet(g, {}) = 0
<1>1. IsFiniteSet({})
  BY FS_EmptySet
<1>2. PICK h : Sums(h, g, {}) /\ SumFunctionOnSet(g, {}) = h[{}]
  BY <1>1, SumIs
<1> QED BY <1>2 DEF Sums

LEMMA SumFirst ==
  ASSUME NEW g, NEW S, IsFiniteSet(S), S # {}
  PROVE  SumFunctionOnSet(g, S) = g[First(S)] + SumFunctionOnSet(g, S \ {First(S)})
<1> DEFINE R == S \ {First(S)}
<1>1. PICK h : Sums(h, g, S) /\ SumFunctionOnSet(g, S) = h[S]
  BY SumIs
<1>2. IsFiniteSet(R)
  BY FS_Subset
<1>3. PICK k : Sums(k, g, R) /\ SumFunctionOnSet(g, R) = k[R]
  BY <1>2, SumIs
<1>4. h[R] = k[R]
  <2>1. R \subseteq S /\ R \subseteq R
    OBVIOUS
  <2> HIDE DEF R
  <2> QED BY <1>1, <1>3, <2>1, SumsAgree
<1>5. h[S] = g[First(S)] + h[R]
  BY <1>1 DEF Sums
<1> QED BY <1>1, <1>3, <1>4, <1>5

LEMMA SumInt ==
  ASSUME NEW g, NEW S, IsFiniteSet(S), \A x \in S : g[x] \in Int
  PROVE  SumFunctionOnSet(g, S) \in Int
<1> DEFINE Good == {T \in SUBSET S : SumFunctionOnSet(g, T) \in Int}
<1>1. {} \in Good
  BY SumEmpty
<1>2. ASSUME NEW T \in SUBSET S, T # {}, \A x \in T : T \ {x} \in Good PROVE T \in Good
  <2>1. First(T) \in T
    BY <1>2 DEF First
  <2>2. g[First(T)] \in Int /\ SumFunctionOnSet(g, T \ {First(T)}) \in Int
    BY <1>2, <2>1
  <2>3. IsFiniteSet(T)
    BY FS_Subset
  <2> QED BY <1>2, <2>2, <2>3, SumFirst
<1>3. S \in Good
  <2> HIDE DEF Good
  <2> QED BY <1>1, <1>2, SubsetInduction
<1> QED BY <1>3

\* A sum does not depend on the order: any element may be taken out first.
LEMMA SumRemove ==
  ASSUME NEW g, NEW S, IsFiniteSet(S), \A x \in S : g[x] \in Int, NEW e \in S
  PROVE  SumFunctionOnSet(g, S) = g[e] + SumFunctionOnSet(g, S \ {e})
<1> DEFINE Takes(T) ==
             \A x \in T : SumFunctionOnSet(g, T) = g[x] + SumFunctionOnSet(g, T \ {x})
           Good == {T \in SUBSET S : Takes(T)}
<1>1. {} \in Good
  OBVIOUS
<1>2. ASSUME NEW T \in SUBSET S, T # {}, \A x \in T : T \ {x} \in Good, NEW x \in T
      PROVE  SumFunctionOnSet(g, T) = g[x] + SumFunctionOnSet(g, T \ {x})
  <2> DEFINE f  == First(T)
             T1 == T \ {f}
             T2 == T \ {x}
             T3 == T \ {f, x}
  <2>1. IsFiniteSet(T) /\ IsFiniteSet(T3)
    <3>1. T3 \in SUBSET S
      OBVIOUS
    <3> QED BY <3>1, FS_Subset
  <2>2. f \in T
    BY <1>2 DEF First
  <2>3. SumFunctionOnSet(g, T) = g[f] + SumFunctionOnSet(g, T1)
    BY <1>2, <2>1, SumFirst
  <2>4. CASE x = f
    BY <2>3, <2>4
  <2>5. CASE x # f
    <3>1. SumFunctionOnSet(g, T1) = g[x] + SumFunctionOnSet(g, T3)
      <4>1. Takes(T1)
        BY <1>2, <2>2
      <4>2. x \in T1 /\ T1 \ {x} = T3
        BY <2>5
      <4> QED BY <4>1, <4>2
    <3>2. SumFunctionOnSet(g, T2) = g[f] + SumFunctionOnSet(g, T3)
      <4>1. Takes(T2)
        BY <1>2
      <4>2. f \in T2 /\ T2 \ {f} = T3
        BY <2>2, <2>5
      <4> QED BY <4>1, <4>2
    <3>3. g[f] \in Int /\ g[x] \in Int /\ SumFunctionOnSet(g, T3) \in Int
      <4>1. T3 \subseteq S /\ f \in S /\ x \in S
        BY <2>2
      <4>2. SumFunctionOnSet(g, T3) \in Int
        BY <2>1, <4>1, SumInt
      <4> QED BY <4>1, <4>2
    <3> QED BY <2>3, <3>1, <3>2, <3>3
  <2> QED BY <2>4, <2>5
<1>3. S \in Good
  <2>1. \A T \in SUBSET S : T # {} /\ (\A x \in T : T \ {x} \in Good) => T \in Good
    BY <1>2
  <2> HIDE DEF Good
  <2> QED BY <1>1, <2>1, SubsetInduction
<1> QED BY <1>3

LEMMA SumAdd ==
  ASSUME NEW g, NEW S, IsFiniteSet(S), NEW e, e \notin S, \A x \in S \cup {e} : g[x] \in Int
  PROVE  SumFunctionOnSet(g, S \cup {e}) = g[e] + SumFunctionOnSet(g, S)
<1>1. IsFiniteSet(S \cup {e})
  BY FS_AddElement
<1>2. (S \cup {e}) \ {e} = S
  OBVIOUS
<1> QED BY <1>1, <1>2, SumRemove

LEMMA SumAgree ==
  ASSUME NEW g, NEW h, NEW S, IsFiniteSet(S), \A x \in S : g[x] = h[x]
  PROVE  SumFunctionOnSet(g, S) = SumFunctionOnSet(h, S)
<1> DEFINE Good == {T \in SUBSET S : SumFunctionOnSet(g, T) = SumFunctionOnSet(h, T)}
<1>1. {} \in Good
  BY SumEmpty
<1>2. ASSUME NEW T \in SUBSET S, T # {}, \A x \in T : T \ {x} \in Good PROVE T \in Good
  <2>1. First(T) \in T
    BY <1>2 DEF First
  <2>2. /\ SumFunctionOnSet(g, T \ {First(T)}) = SumFunctionOnSet(h, T \ {First(T)})
        /\ g[First(T)] = h[First(T)]
    BY <1>2, <2>1
  <2>3. IsFiniteSet(T)
    BY FS_Subset
  <2> QED BY <1>2, <2>2, <2>3, SumFirst
<1>3. S \in Good
  <2> HIDE DEF Good
  <2> QED BY <1>1, <1>2, SubsetInduction
<1> QED BY <1>3


\* Zeros add up to zero.
LEMMA SumZero ==
  ASSUME NEW g, NEW S, IsFiniteSet(S), \A x \in S : g[x] = 0
  PROVE  SumFunctionOnSet(g, S) = 0
<1> DEFINE Good == {T \in SUBSET S : SumFunctionOnSet(g, T) = 0}
<1>1. {} \in Good
  BY SumEmpty
<1>2. ASSUME NEW T \in SUBSET S, T # {}, \A x \in T : T \ {x} \in Good PROVE T \in Good
  <2>1. First(T) \in T
    BY <1>2 DEF First
  <2>2. g[First(T)] = 0 /\ SumFunctionOnSet(g, T \ {First(T)}) = 0
    BY <1>2, <2>1
  <2>3. IsFiniteSet(T)
    BY FS_Subset
  <2> QED BY <1>2, <2>2, <2>3, SumFirst
<1>3. S \in Good
  <2> HIDE DEF Good
  <2> QED BY <1>1, <1>2, SubsetInduction
<1> QED BY <1>3

\* All zeros but one add up to that one.
LEMMA SumOne ==
  ASSUME NEW g, NEW S, IsFiniteSet(S), NEW e \in S, g[e] \in Int,
         \A x \in S : x # e => g[x] = 0
  PROVE  SumFunctionOnSet(g, S) = g[e]
<1>1. \A x \in S : g[x] \in Int
  OBVIOUS
<1>2. IsFiniteSet(S \ {e}) /\ \A x \in S \ {e} : g[x] = 0
  BY FS_Subset
<1>3. SumFunctionOnSet(g, S \ {e}) = 0
  BY <1>2, SumZero
<1>4. SumFunctionOnSet(g, S) = g[e] + SumFunctionOnSet(g, S \ {e})
  BY <1>1, SumRemove
<1> QED BY <1>3, <1>4

\* Naturals add up to a natural.
LEMMA SumNat ==
  ASSUME NEW g, NEW S, IsFiniteSet(S), \A x \in S : g[x] \in Nat
  PROVE  SumFunctionOnSet(g, S) \in Nat
<1> DEFINE Good == {T \in SUBSET S : SumFunctionOnSet(g, T) \in Nat}
<1>1. {} \in Good
  BY SumEmpty
<1>2. ASSUME NEW T \in SUBSET S, T # {}, \A x \in T : T \ {x} \in Good PROVE T \in Good
  <2>1. First(T) \in T
    BY <1>2 DEF First
  <2>2. g[First(T)] \in Nat /\ SumFunctionOnSet(g, T \ {First(T)}) \in Nat
    BY <1>2, <2>1
  <2>3. IsFiniteSet(T)
    BY FS_Subset
  <2> QED BY <1>2, <2>2, <2>3, SumFirst
<1>3. S \in Good
  <2> HIDE DEF Good
  <2> QED BY <1>1, <1>2, SubsetInduction
<1> QED BY <1>3

\* The sum over two sets without a common element is the sum of their sums.
LEMMA SumUnion ==
  ASSUME NEW g, NEW S, IsFiniteSet(S), NEW N, IsFiniteSet(N), S \cap N = {},
         \A x \in S \cup N : g[x] \in Int
  PROVE  SumFunctionOnSet(g, S \cup N) = SumFunctionOnSet(g, S) + SumFunctionOnSet(g, N)
<1> DEFINE Good == {T \in SUBSET N : SumFunctionOnSet(g, S \cup T) =
                                       SumFunctionOnSet(g, S) + SumFunctionOnSet(g, T)}
<1>1. SumFunctionOnSet(g, S) \in Int
  BY SumInt
<1>2. {} \in Good
  <2>1. S \cup {} = S
    OBVIOUS
  <2> QED BY <1>1, <2>1, SumEmpty
<1>3. ASSUME NEW T \in SUBSET N, T # {}, \A x \in T : T \ {x} \in Good PROVE T \in Good
  <2>1. PICK e \in T : TRUE
    BY <1>3
  <2> DEFINE R == T \ {e}
  <2>2. SumFunctionOnSet(g, S \cup R) = SumFunctionOnSet(g, S) + SumFunctionOnSet(g, R)
    BY <1>3, <2>1
  <2>3. IsFiniteSet(T) /\ IsFiniteSet(R)
    <3>1. R \in SUBSET N
      OBVIOUS
    <3> QED BY <3>1, FS_Subset
  <2>4. SumFunctionOnSet(g, T) = g[e] + SumFunctionOnSet(g, R)
    BY <2>1, <2>3, SumRemove
  <2>5. IsFiniteSet(S \cup T)
    BY <2>3, FS_Union
  <2>6. e \in S \cup T /\ (S \cup T) \ {e} = S \cup R
    BY <2>1
  <2>7. \A x \in S \cup T : g[x] \in Int
    OBVIOUS
  <2>8. SumFunctionOnSet(g, S \cup T) = g[e] + SumFunctionOnSet(g, S \cup R)
    <3> HIDE DEF R
    <3>1. SumFunctionOnSet(g, S \cup T) = g[e] + SumFunctionOnSet(g, (S \cup T) \ {e})
      BY <2>5, <2>6, <2>7, SumRemove
    <3> QED BY <2>6, <3>1
  <2>9. g[e] \in Int /\ SumFunctionOnSet(g, R) \in Int
    BY <2>1, <2>3, SumInt
  <2> QED BY <1>1, <2>2, <2>4, <2>8, <2>9
<1>4. N \in Good
  <2> HIDE DEF Good
  <2> QED BY <1>2, <1>3, SubsetInduction
<1> QED BY <1>4

\* Sums are added element by element.
LEMMA SumPlus ==
  ASSUME NEW f, NEW g, NEW h, NEW S, IsFiniteSet(S),
         \A x \in S : f[x] \in Int /\ g[x] \in Int /\ h[x] = f[x] + g[x]
  PROVE  SumFunctionOnSet(h, S) = SumFunctionOnSet(f, S) + SumFunctionOnSet(g, S)
<1> DEFINE Good == {T \in SUBSET S : SumFunctionOnSet(h, T) =
                                       SumFunctionOnSet(f, T) + SumFunctionOnSet(g, T)}
<1>1. {} \in Good
  BY SumEmpty
<1>2. ASSUME NEW T \in SUBSET S, T # {}, \A x \in T : T \ {x} \in Good PROVE T \in Good
  <2> DEFINE e == First(T)
             R == T \ {First(T)}
  <2>1. e \in T
    BY <1>2 DEF First
  <2>2. SumFunctionOnSet(h, R) = SumFunctionOnSet(f, R) + SumFunctionOnSet(g, R)
    BY <1>2, <2>1
  <2>3. IsFiniteSet(T) /\ IsFiniteSet(R)
    <3>1. R \in SUBSET S
      OBVIOUS
    <3> QED BY <3>1, FS_Subset
  <2>4. /\ SumFunctionOnSet(h, T) = h[e] + SumFunctionOnSet(h, R)
        /\ SumFunctionOnSet(f, T) = f[e] + SumFunctionOnSet(f, R)
        /\ SumFunctionOnSet(g, T) = g[e] + SumFunctionOnSet(g, R)
    BY <1>2, <2>3, SumFirst
  <2>5. /\ f[e] \in Int /\ g[e] \in Int /\ h[e] = f[e] + g[e]
    BY <2>1
  <2>6. SumFunctionOnSet(f, R) \in Int /\ SumFunctionOnSet(g, R) \in Int
    <3>1. \A x \in R : f[x] \in Int /\ g[x] \in Int
      OBVIOUS
    <3> HIDE DEF R
    <3> QED BY <2>3, <3>1, SumInt
  <2> HIDE DEF e, R
  <2> QED BY <2>2, <2>4, <2>5, <2>6
<1>3. S \in Good
  <2> HIDE DEF Good
  <2> QED BY <1>1, <1>2, SubsetInduction
<1> QED BY <1>3

\* f as a table: g its transpose, rows and cols the sums of its rows and columns.
Table(f, g, rows, cols, X, Y) ==
  /\ \A x \in X, y \in Y : f[x][y] \in Int /\ g[y][x] = f[x][y]
  /\ \A x \in X : rows[x] = SumFunctionOnSet(f[x], Y)
  /\ \A y \in Y : cols[y] = SumFunctionOnSet(g[y], X)

\* The sum over rows of their sums is the sum over columns of theirs.
LEMMA SumSwap ==
  ASSUME NEW X, IsFiniteSet(X), NEW Y, IsFiniteSet(Y), NEW f, NEW g, NEW rows, NEW cols,
         Table(f, g, rows, cols, X, Y)
  PROVE  SumFunctionOnSet(rows, X) = SumFunctionOnSet(cols, Y)
<1> USE DEF Table
<1> DEFINE part(T) == [x \in X |-> SumFunctionOnSet(f[x], T)]
           Good == {T \in SUBSET Y : SumFunctionOnSet(part(T), X) = SumFunctionOnSet(cols, T)}
<1>1. {} \in Good
  <2>1. \A x \in X : part({})[x] = 0
    BY SumEmpty
  <2> HIDE DEF part
  <2>2. SumFunctionOnSet(part({}), X) = 0
    BY <2>1, SumZero
  <2> QED BY <2>2, SumEmpty
<1>2. ASSUME NEW T \in SUBSET Y, T # {}, \A y \in T : T \ {y} \in Good PROVE T \in Good
  <2> DEFINE e == First(T)
             R == T \ {e}
             col == g[e]
  <2>1. e \in T
    BY <1>2 DEF First
  <2>2. SumFunctionOnSet(part(R), X) = SumFunctionOnSet(cols, R)
    BY <1>2, <2>1
  <2>3. IsFiniteSet(T) /\ IsFiniteSet(R)
    <3>1. R \in SUBSET Y
      OBVIOUS
    <3> QED BY <3>1, FS_Subset
  <2>4. \A x \in X : /\ col[x] = f[x][e] /\ col[x] \in Int
                     /\ SumFunctionOnSet(f[x], T) = col[x] + SumFunctionOnSet(f[x], R)
                     /\ SumFunctionOnSet(f[x], R) \in Int
    <3> TAKE x \in X
    <3>1. col[x] = f[x][e] /\ col[x] \in Int
      BY <2>1
    <3>2. \A y \in R : f[x][y] \in Int
      OBVIOUS
    <3>3. SumFunctionOnSet(f[x], T) = f[x][e] + SumFunctionOnSet(f[x], R)
      BY <1>2, <2>3, SumFirst
    <3> HIDE DEF col, R
    <3>4. SumFunctionOnSet(f[x], R) \in Int
      BY <2>3, <3>2, SumInt
    <3> QED BY <3>1, <3>3, <3>4
  <2> HIDE DEF e, R, col
  <2>5. \A x \in X : /\ col[x] \in Int /\ part(R)[x] \in Int
                     /\ part(T)[x] = col[x] + part(R)[x]
    BY <2>4
  <2> HIDE DEF part
  <2>6. SumFunctionOnSet(part(T), X) = SumFunctionOnSet(col, X) + SumFunctionOnSet(part(R), X)
    BY <2>5, SumPlus
  <2>7. cols[e] = SumFunctionOnSet(col, X)
    BY <2>1 DEF col
  <2>8. SumFunctionOnSet(cols, T) = cols[e] + SumFunctionOnSet(cols, R)
    BY <1>2, <2>3, SumFirst DEF e, R
  <2>9. SumFunctionOnSet(part(T), X) = SumFunctionOnSet(cols, T)
    BY <2>2, <2>6, <2>7, <2>8
  <2> QED BY <2>9
<1>3. Y \in Good
  <2> HIDE DEF Good
  <2> QED BY <1>1, <1>2, SubsetInduction
<1>4. SumFunctionOnSet(part(Y), X) = SumFunctionOnSet(cols, Y)
  BY <1>3
<1>5. SumFunctionOnSet(part(Y), X) = SumFunctionOnSet(rows, X)
  <2>1. \A x \in X : part(Y)[x] = rows[x]
    OBVIOUS
  <2> HIDE DEF part
  <2> QED BY <2>1, SumAgree
<1> QED BY <1>4, <1>5

\* Roundings add up to at most half a unit for each.
LEMMA RoundingsAdd ==
  ASSUME NEW S, IsFiniteSet(S), NEW h, NEW k, NEW d \in Nat, NEW a \in Nat,
         \A x \in S : /\ h[x] \in Nat /\ k[x] \in Nat
                      /\ 2 * d * h[x] - 2 * (a * k[x]) \in -d .. d
  PROVE  2 * d * SumFunctionOnSet(h, S) - 2 * (a * SumFunctionOnSet(k, S))
           \in -(d * Cardinality(S)) .. d * Cardinality(S)
<1> DEFINE Off(T) == 2 * d * SumFunctionOnSet(h, T) - 2 * (a * SumFunctionOnSet(k, T))
           Good == {T \in SUBSET S : Off(T) \in -(d * Cardinality(T)) .. d * Cardinality(T)}
<1>1. {} \in Good
  <2>1. SumFunctionOnSet(h, {}) = 0 /\ SumFunctionOnSet(k, {}) = 0 /\ Cardinality({}) = 0
    BY SumEmpty, FS_EmptySet
  <2>2. Off({}) = 0 /\ d * Cardinality({}) = 0
    BY <2>1
  <2> HIDE DEF Off
  <2> QED BY <2>2
<1>2. ASSUME NEW T \in SUBSET S, T # {}, \A x \in T : T \ {x} \in Good PROVE T \in Good
  <2> DEFINE e == First(T)
             R == T \ {First(T)}
             n == Cardinality(R)
             X == SumFunctionOnSet(h, R)
             Y == SumFunctionOnSet(k, R)
  <2>1. e \in T
    BY <1>2 DEF First
  <2>2. Off(R) \in -(d * n) .. d * n
    BY <1>2, <2>1
  <2>3. IsFiniteSet(T) /\ IsFiniteSet(R)
    <3>1. R \in SUBSET S
      OBVIOUS
    <3> QED BY <3>1, FS_Subset
  <2>4. n \in Nat /\ Cardinality(T) = n + 1
    <3>1. R = T \ {e}
      OBVIOUS
    <3>2. n = Cardinality(T) - 1
      BY <2>1, <2>3, <3>1, FS_RemoveElement
    <3>3. n \in Nat /\ Cardinality(T) \in Nat
      BY <2>3, FS_CardinalityType
    <3> HIDE DEF n
    <3> QED BY <3>2, <3>3
  <2>5. SumFunctionOnSet(h, T) = h[e] + X /\ SumFunctionOnSet(k, T) = k[e] + Y
    BY <1>2, <2>3, SumFirst
  <2>6. X \in Nat /\ Y \in Nat
    <3>1. \A x \in R : h[x] \in Nat /\ k[x] \in Nat
      OBVIOUS
    <3> HIDE DEF R
    <3> QED BY <2>3, <3>1, SumNat
  <2>7. h[e] \in Nat /\ k[e] \in Nat /\ 2 * d * h[e] - 2 * (a * k[e]) \in -d .. d
    BY <2>1
  <2>8. Off(R) = 2 * d * X - 2 * (a * Y)
    OBVIOUS
  <2>9. Off(T) = 2 * d * (h[e] + X) - 2 * (a * (k[e] + Y))
    BY <2>5
  <2> HIDE DEF Off, e, R, n, X, Y
  <2>10. Off(T) = (2 * d * h[e] - 2 * (a * k[e])) + Off(R)
    BY <2>6, <2>7, <2>8, <2>9
  <2>11. d * n \in Nat /\ d * (n + 1) = d * n + d
    BY <2>4
  <2>12. Off(T) \in -(d * n + d) .. d * n + d
    BY <2>2, <2>7, <2>10, <2>11
  <2>13. Off(T) \in -(d * Cardinality(T)) .. d * Cardinality(T)
    BY <2>4, <2>11, <2>12
  <2> QED BY <2>13
<1>3. S \in Good
  <2> HIDE DEF Good
  <2> QED BY <1>1, <1>2, SubsetInduction
<1> QED BY <1>3

-----------------------------------------------------------------------------
(* Orders *)

LEMMA OrderTypeInit == OrderInit => OrderTypeOK
<1> SUFFICES ASSUME OrderInit PROVE OrderTypeOK
  OBVIOUS
<1> USE DEF OrderInit
<1>1. status \in Statuses /\ payment_status \in {"pending", "paid", "failed"}
  BY DEF Statuses
<1>2. stock_restored \in BOOLEAN /\ charged \in BOOLEAN
  OBVIOUS
<1>3. overdue \in BOOLEAN /\ reaped \in BOOLEAN
  OBVIOUS
<1>4. payment \in {"pending", "confirmed"} /\ reaper \in {"idle", "listed", "open"}
  OBVIOUS
<1>5. held \in Nat /\ returned \in Nat /\ confirming \subseteq Confirmations
  OBVIOUS
<1>6. at \in [Cancels -> {"start", "read", "restored", "done"}]
  OBVIOUS
<1>7. wanted \in [Updates -> Statuses \cup {"none"}]
  OBVIOUS
<1> QED BY <1>1, <1>2, <1>3, <1>4, <1>5, <1>6, <1>7 DEF OrderTypeOK

LEMMA MoveKeeps ==
  ASSUME NEW new \in Statuses, status \in Statuses, Move(new)
  PROVE  status' \in Statuses
BY DEF Move

LEMMA OrderTypeStep == OrderTypeOK /\ [OrderNext]_orderVars => OrderTypeOK'
<1> SUFFICES ASSUME OrderTypeOK, [OrderNext]_orderVars PROVE OrderTypeOK'
  OBVIOUS
<1> USE DEF OrderTypeOK, gathered
<1>1. CASE Charge \/ Refunded \/ Complete
  <2>1. CASE Charge
    BY <2>1 DEF Charge
  <2>2. CASE Refunded \/ Complete
    BY <2>2 DEF Refunded, Complete, Statuses, Gone
  <2> QED BY <1>1, <2>1, <2>2
<1>2. ASSUME NEW k \in Confirmations, ConfirmReads(k) PROVE OrderTypeOK'
  BY <1>2 DEF ConfirmReads
<1>3. ASSUME NEW k \in Confirmations, ConfirmWrites(k) PROVE OrderTypeOK'
  <2>1. status' \in Statuses
    BY <1>3, MoveKeeps DEF ConfirmWrites, Statuses
  <2> QED BY <1>3, <2>1 DEF ConfirmWrites
<1>4. ASSUME NEW c \in Cancels, CancelReads(c) PROVE OrderTypeOK'
  BY <1>4 DEF CancelReads
<1>5. ASSUME NEW c \in Cancels, CancelRestores(c) PROVE OrderTypeOK'
  <2>1. returned' \in Nat
    BY <1>5 DEF CancelRestores, PutBack
  <2>2. stock_restored' \in BOOLEAN
    BY <1>5 DEF CancelRestores
  <2> QED BY <1>5, <2>1, <2>2 DEF CancelRestores
<1>6. ASSUME NEW c \in Cancels, CancelMoves(c) PROVE OrderTypeOK'
  <2>1. status' \in Statuses
    BY <1>6, MoveKeeps DEF CancelMoves, Statuses
  <2> QED BY <1>6, <2>1 DEF CancelMoves
<1>7. ASSUME NEW u \in Updates, UpdateReads(u) PROVE OrderTypeOK'
  <2>1. NextStatus \subseteq Statuses
    BY DEF NextStatus, Statuses, Gone
  <2> QED BY <1>7, <2>1 DEF UpdateReads
<1>8. ASSUME NEW u \in Updates, UpdateMoves(u) PROVE OrderTypeOK'
  <2>1. wanted[u] \in Statuses
    BY <1>8 DEF UpdateMoves
  <2>2. status' \in Statuses
    BY <1>8, <2>1, MoveKeeps DEF UpdateMoves
  <2> QED BY <1>8, <2>2 DEF UpdateMoves
<1>9. CASE ExpireUnpaid \/ EscalateMoves
  <2>1. status' \in Statuses
    BY <1>9, MoveKeeps DEF ExpireUnpaid, EscalateMoves, Statuses
  <2> QED BY <1>9, <2>1 DEF ExpireUnpaid, EscalateMoves
<1>10. CASE Escalate \/ ReapLists \/ ReapReads
  BY <1>10 DEF Escalate, ReapLists, ReapReads
<1>11. CASE ReapWrites
  BY <1>11 DEF ReapWrites, PutBack, Statuses
<1>12. CASE UNCHANGED orderVars
  BY <1>12 DEF orderVars
<1> QED
  BY <1>1, <1>2, <1>3, <1>4, <1>5, <1>6, <1>7, <1>8, <1>9, <1>10, <1>11, <1>12 DEF OrderNext

\* The status follows the graph but for two: an administrator's refund of an order that
\* was sent, and the saga's cancellation.
LEMMA StatusMoves ==
  ASSUME [OrderNext]_orderVars
  PROVE  \/ status' = status \/ <<status, status'>> \in Graph
         \/ status \in Gone /\ status' = "refunded"
         \/ ReapWrites
<1>1. CASE \/ Charge \/ Refunded \/ Complete \/ Escalate \/ ReapLists \/ ReapReads \/ ReapWrites
           \/ UNCHANGED orderVars
  BY <1>1 DEF Charge, Refunded, Complete, Escalate, ReapLists, ReapReads, orderVars, Graph
<1>2. CASE ExpireUnpaid \/ EscalateMoves
  BY <1>2 DEF ExpireUnpaid, EscalateMoves, Move, Legal
<1>3. ASSUME NEW k \in Confirmations, ConfirmReads(k) \/ ConfirmWrites(k)
      PROVE  status' = status \/ <<status, status'>> \in Graph
  BY <1>3 DEF ConfirmReads, ConfirmWrites, Move, Legal
<1>4. ASSUME NEW c \in Cancels, CancelReads(c) \/ CancelRestores(c) \/ CancelMoves(c)
      PROVE  status' = status \/ <<status, status'>> \in Graph
  BY <1>4 DEF CancelReads, CancelRestores, CancelMoves, Move, Legal
<1>5. ASSUME NEW u \in Updates, UpdateReads(u) \/ UpdateMoves(u)
      PROVE  status' = status \/ <<status, status'>> \in Graph
  BY <1>5 DEF UpdateReads, UpdateMoves, Move, Legal
<1> QED BY <1>1, <1>2, <1>3, <1>4, <1>5 DEF OrderNext

\* What has left the way to "shipped" does not come back to it.
LEMMA EndedStays ==
  ASSUME [OrderNext]_orderVars, status \in Ended PROVE status' \in Ended
<1>1. <<status, status'>> \in Graph => status' \in Ended
  BY DEF Graph, Ended, Gone
<1>2. ReapWrites => status' \in Ended
  BY DEF ReapWrites, Ended
<1> QED BY <1>1, <1>2, StatusMoves DEF Ended

\* However the seller, the buyer and the beat tasks decide, an order that is over does
\* not move again.
THEOREM OverStays == OrderSpec => OverIsOver
<1> DEFINE Over == status \in {"cancelled", "refunded"} => status' \in {"cancelled", "refunded"}
<1>1. [OrderNext]_orderVars => [Over]_status
  <2>1. <<status, status'>> \in Graph => Over
    BY DEF Graph
  <2>2. ReapWrites => Over
    BY DEF ReapWrites
  <2> QED BY <2>1, <2>2, StatusMoves DEF Gone
<1> QED BY <1>1, PTL DEF OrderSpec, OverIsOver
-----------------------------------------------------------------------------
\* RestockInv, part by part.  Stock comes back in two places: restore_order(), which
\* raises the flag, and the saga's transaction, which does not know it.
ReaperOnce == reaped => payment_status # "pending" /\ reaper = "idle"
OffTheWay  == returned > 0 => status \in Ended \/ \E c \in Cancels : at[c] = "restored"

LEMMA RestockParts == RestockInv <=> ReturnedOnce /\ ReaperOnce /\ OffTheWay
BY DEF RestockInv, ReaperOnce, OffTheWay

LEMMA RestockInit == OrderInit => RestockInv
<1> SUFFICES ASSUME OrderInit PROVE RestockInv
  OBVIOUS
<1>1. returned = 0 /\ ~stock_restored /\ ~reaped
  BY DEF OrderInit
<1>2. ReturnedOnce
  BY <1>1 DEF ReturnedOnce
<1>3. ReaperOnce /\ OffTheWay
  BY <1>1 DEF ReaperOnce, OffTheWay
<1> QED BY <1>2, <1>3, RestockParts

Reads(c) == at[c] = "read" /\ Restorable /\ ~AlreadyRestored

\* What a step may do to the flags, the count and the saga.
RestockMove ==
  \/ UNCHANGED <<returned, stock_restored, reaped>>
  \/ /\ \E c \in Cancels : Reads(c) /\ at' = [at EXCEPT ![c] = "restored"]
     /\ returned' = returned + 1 /\ stock_restored' = TRUE
     /\ UNCHANGED <<status, reaped>>
  \/ ReapWrites

LEMMA RestockMoves == [OrderNext]_orderVars => RestockMove
<1> SUFFICES ASSUME [OrderNext]_orderVars PROVE RestockMove
  OBVIOUS
<1>1. ASSUME NEW c \in Cancels, CancelRestores(c) PROVE RestockMove
  <2>1. CASE Restorable /\ ~AlreadyRestored
    <3>1. Reads(c) /\ at' = [at EXCEPT ![c] = "restored"]
      BY <1>1, <2>1 DEF CancelRestores, Reads
    <3>2. returned' = returned + 1 /\ stock_restored' = TRUE /\ UNCHANGED <<status, reaped>>
      BY <1>1, <2>1 DEF CancelRestores, PutBack
    <3> QED BY <3>1, <3>2 DEF RestockMove
  <2>2. CASE ~(Restorable /\ ~AlreadyRestored)
    BY <1>1, <2>2 DEF CancelRestores, RestockMove
  <2> QED BY <2>1, <2>2
<1>2. ASSUME NEW c \in Cancels, CancelReads(c) \/ CancelMoves(c) PROVE RestockMove
  BY <1>2 DEF CancelReads, CancelMoves, RestockMove
<1>3. ASSUME NEW k \in Confirmations, ConfirmReads(k) \/ ConfirmWrites(k) PROVE RestockMove
  BY <1>3 DEF ConfirmReads, ConfirmWrites, RestockMove
<1>4. ASSUME NEW u \in Updates, UpdateReads(u) \/ UpdateMoves(u) PROVE RestockMove
  BY <1>4 DEF UpdateReads, UpdateMoves, RestockMove
<1>5. CASE \/ Charge \/ Refunded \/ Complete \/ ExpireUnpaid \/ Escalate \/ EscalateMoves
           \/ ReapLists \/ ReapReads \/ UNCHANGED orderVars
  BY <1>5 DEF Charge, Refunded, Complete, ExpireUnpaid, Escalate, EscalateMoves, ReapLists,
              ReapReads, orderVars, gathered, RestockMove
<1>6. CASE ReapWrites
  BY <1>6 DEF RestockMove
<1> QED BY <1>1, <1>2, <1>3, <1>4, <1>5, <1>6 DEF OrderNext

LEMMA ReturnedOnceStep ==
  OrderTypeOK /\ RestockInv /\ [OrderNext]_orderVars => ReturnedOnce'
<1> SUFFICES ASSUME OrderTypeOK, RestockInv, [OrderNext]_orderVars PROVE ReturnedOnce'
  OBVIOUS
<1>1. ReturnedOnce /\ ReaperOnce
  BY RestockParts
<1>2. CASE UNCHANGED <<returned, stock_restored, reaped>>
  BY <1>1, <1>2 DEF ReturnedOnce
<1>3. CASE /\ ~stock_restored /\ returned' = returned + 1 /\ stock_restored' = TRUE
           /\ UNCHANGED reaped
  <2>1. CASE reaped
    BY <1>1, <1>3, <2>1 DEF ReturnedOnce
  <2>2. CASE ~reaped
    BY <1>1, <1>3, <2>2 DEF ReturnedOnce
  <2> QED BY <2>1, <2>2
<1>4. CASE ReapWrites
  <2>1. ~reaped /\ reaped' /\ returned' = returned + 1 /\ UNCHANGED stock_restored
    BY <1>1, <1>4 DEF ReapWrites, PutBack, ReaperOnce
  <2>2. CASE stock_restored
    BY <1>1, <2>1, <2>2 DEF ReturnedOnce
  <2>3. CASE ~stock_restored
    BY <1>1, <2>1, <2>3 DEF ReturnedOnce
  <2> QED BY <2>2, <2>3
<1> QED BY <1>2, <1>3, <1>4, RestockMoves DEF RestockMove, Reads, AlreadyRestored

LEMMA ReaperOnceStep ==
  OrderTypeOK /\ RestockInv /\ [OrderNext]_orderVars => ReaperOnce'
<1> SUFFICES ASSUME OrderTypeOK, RestockInv, [OrderNext]_orderVars PROVE ReaperOnce'
  OBVIOUS
<1>1. ReaperOnce
  BY RestockParts
<1> USE DEF ReaperOnce, gathered
<1>2. CASE Charge \/ Refunded \/ Complete \/ ExpireUnpaid \/ Escalate \/ EscalateMoves
  BY <1>1, <1>2 DEF Charge, Refunded, Complete, ExpireUnpaid, Escalate, EscalateMoves
<1>3. ASSUME NEW k \in Confirmations, ConfirmReads(k) \/ ConfirmWrites(k) PROVE ReaperOnce'
  BY <1>1, <1>3 DEF ConfirmReads, ConfirmWrites
<1>4. ASSUME NEW c \in Cancels, CancelReads(c) \/ CancelRestores(c) \/ CancelMoves(c)
      PROVE  ReaperOnce'
  BY <1>1, <1>4 DEF CancelReads, CancelRestores, CancelMoves
<1>5. ASSUME NEW u \in Updates, UpdateReads(u) \/ UpdateMoves(u) PROVE ReaperOnce'
  BY <1>1, <1>5 DEF UpdateReads, UpdateMoves
<1>6. CASE ReapLists
  BY <1>1, <1>6 DEF ReapLists, Unpaid
<1>7. CASE ReapReads
  BY <1>1, <1>7 DEF ReapReads
<1>8. CASE ReapWrites
  BY <1>8 DEF ReapWrites
<1>9. CASE UNCHANGED orderVars
  BY <1>1, <1>9 DEF orderVars
<1> QED BY <1>2, <1>3, <1>4, <1>5, <1>6, <1>7, <1>8, <1>9 DEF OrderNext

\* A cancellation that ends its transactions takes the order off the way to "shipped".
LEMMA RestoredEnds ==
  ASSUME OrderTypeOK, [OrderNext]_orderVars, NEW c \in Cancels, at[c] = "restored"
  PROVE  at'[c] = "restored" \/ status' \in Ended
<1> USE DEF OrderTypeOK, gathered
<1>1. CASE CancelMoves(c)
  BY <1>1 DEF CancelMoves, Move, Legal, Graph, Statuses, Ended, Gone
<1>2. ASSUME NEW d \in Cancels, CancelReads(d) \/ CancelRestores(d) \/ CancelMoves(d), ~CancelMoves(c)
      PROVE  at'[c] = "restored"
  BY <1>2 DEF CancelReads, CancelRestores, CancelMoves
<1>3. ASSUME NEW k \in Confirmations, ConfirmReads(k) \/ ConfirmWrites(k)
      PROVE  at'[c] = "restored"
  BY <1>3 DEF ConfirmReads, ConfirmWrites
<1>4. ASSUME NEW u \in Updates, UpdateReads(u) \/ UpdateMoves(u)
      PROVE  at'[c] = "restored"
  BY <1>4 DEF UpdateReads, UpdateMoves
<1>5. CASE \/ Charge \/ Refunded \/ Complete \/ ExpireUnpaid \/ Escalate \/ EscalateMoves
           \/ ReapLists \/ ReapReads \/ ReapWrites \/ UNCHANGED orderVars
  BY <1>5 DEF Charge, Refunded, Complete, ExpireUnpaid, Escalate, EscalateMoves, ReapLists,
              ReapReads, ReapWrites, orderVars
<1> QED BY <1>1, <1>2, <1>3, <1>4, <1>5 DEF OrderNext

LEMMA OffTheWayStep ==
  OrderTypeOK /\ RestockInv /\ [OrderNext]_orderVars => OffTheWay'
<1> SUFFICES ASSUME OrderTypeOK, RestockInv, [OrderNext]_orderVars, returned' > 0
             PROVE  status' \in Ended \/ \E c \in Cancels : at'[c] = "restored"
  BY DEF OffTheWay
<1>1. OffTheWay
  BY RestockParts
<1>2. CASE returned' = returned
  BY <1>1, <1>2, EndedStays, RestoredEnds DEF OffTheWay
<1>3. ASSUME NEW c \in Cancels, at' = [at EXCEPT ![c] = "restored"]
      PROVE  \E d \in Cancels : at'[d] = "restored"
  BY <1>3 DEF OrderTypeOK
<1>4. CASE ReapWrites
  BY <1>4 DEF ReapWrites, Ended
<1> QED BY <1>2, <1>3, <1>4, RestockMoves DEF RestockMove

LEMMA RestockStep == OrderTypeOK /\ RestockInv /\ [OrderNext]_orderVars => RestockInv'
<1>1. RestockInv' <=> ReturnedOnce' /\ ReaperOnce' /\ OffTheWay'
  BY DEF RestockInv, ReaperOnce, OffTheWay
<1> QED BY <1>1, ReturnedOnceStep, ReaperOnceStep, OffTheWayStep

LEMMA HeldStep == OrderTypeOK /\ HeldInv /\ [OrderNext]_orderVars => HeldInv'
<1> SUFFICES ASSUME OrderTypeOK, HeldInv, [OrderNext]_orderVars PROVE HeldInv'
  OBVIOUS
<1> USE DEF HeldInv, HeldByReaders
<1>1. /\ IsFiniteSet(Confirmations) /\ confirming \subseteq Confirmations /\ held \in Nat
      /\ IsFiniteSet(confirming)
  BY OrderAssumption, FS_Subset DEF OrderTypeOK
<1>2. Cardinality(confirming) \in Nat /\ Cardinality(Confirmations) \in Nat
  BY <1>1, FS_CardinalityType
<1>3. ASSUME NEW k \in Confirmations, ConfirmReads(k) PROVE HeldInv'
  <2>1. held' = 0 /\ payment' = payment /\ confirming' \subseteq Confirmations
    BY <1>1, <1>3 DEF ConfirmReads, NotConfirmed
  <2>2. Cardinality(confirming') <= Cardinality(Confirmations)
    BY <1>1, <2>1, FS_Subset
  <2>3. Cardinality(confirming') \in Nat
    BY <1>1, <2>1, FS_Subset, FS_CardinalityType
  <2> QED BY <2>1, <2>2, <2>3
<1>4. ASSUME NEW k \in Confirmations, ConfirmWrites(k) PROVE HeldInv'
  <2>1. /\ k \in confirming /\ confirming' = confirming \ {k}
        /\ held' = held + 1 /\ payment' = "confirmed"
    BY <1>4 DEF ConfirmWrites
  <2>2. Cardinality(confirming') = Cardinality(confirming) - 1
    BY <1>1, <2>1, FS_RemoveElement
  <2> QED BY <1>1, <1>2, <2>1, <2>2
<1>5. CASE UNCHANGED <<held, confirming, payment>>
  BY <1>5
<1>6. ASSUME ~(\E k \in Confirmations : ConfirmReads(k) \/ ConfirmWrites(k))
      PROVE  UNCHANGED <<held, confirming, payment>>
  BY <1>6 DEF OrderNext, orderVars, gathered, Charge, Refunded, Complete, CancelReads,
              CancelRestores, CancelMoves, UpdateReads, UpdateMoves, ExpireUnpaid, Escalate,
              EscalateMoves, ReapLists, ReapReads, ReapWrites
<1> QED BY <1>3, <1>4, <1>5, <1>6

\* Overlapping confirmations put the earnings on hold once for each run that read the
\* payment before it was confirmed, for any number of runs on either database.
THEOREM HeldOncePerRun == OrderSpec => []HeldByReaders
<1>1. OrderInit => HeldInv
  BY OrderAssumption, FS_EmptySet, FS_CardinalityType DEF OrderInit, HeldInv, HeldByReaders
<1>2. HeldInv => HeldByReaders
  BY DEF HeldInv
<1> QED BY <1>1, <1>2, HeldStep, OrderTypeInit, OrderTypeStep, PTL DEF OrderSpec

\* The variables of an order keep their types.
THEOREM OrderTypeCorrect == OrderSpec => []OrderTypeOK
BY OrderTypeInit, OrderTypeStep, PTL DEF OrderSpec

\* However many cancellations race, restore_order() puts the stock back once, and the
\* reaper at most once more.
THEOREM StockReturnedOnce == OrderSpec => []ReturnedOnce
<1>1. RestockInv => ReturnedOnce
  BY DEF RestockInv
<1> QED
  BY <1>1, OrderTypeInit, OrderTypeStep, RestockInit, RestockStep, PTL DEF OrderSpec

\* A parcel leaves with its stock counted as sold, and once it has left only the reaper
\* puts the stock back.
THEOREM ShipsOrRestocks == OrderSpec => ShippedOrRestocked
<1>1. OrderTypeOK /\ RestockInv /\ [OrderNext]_orderVars => [StepShipsOrRestocks]_orderVars
  <2> SUFFICES ASSUME OrderTypeOK, RestockInv, [OrderNext]_orderVars
               PROVE  StepShipsOrRestocks
    OBVIOUS
  <2>1. returned \in Nat /\ OffTheWay
    BY RestockParts DEF OrderTypeOK
  <2>2. ASSUME status # "shipped", status' = "shipped"
        PROVE  returned = 0 \/ \E c \in Cancels : at[c] = "restored"
    <3>1. <<status, status'>> \in Graph
      BY <2>2, StatusMoves DEF ReapWrites
    <3>2. status = "processing"
      BY <2>2, <3>1 DEF Graph
    <3>3. status \notin Ended
      BY <3>2 DEF Ended, Gone
    <3> QED BY <2>1, <3>3 DEF OffTheWay
  <2>3. ASSUME returned' # returned
        PROVE  status \notin Gone \/ reaper = "open"
    BY <2>3, RestockMoves DEF RestockMove, Reads, Restorable, ReapWrites
  <2> QED BY <2>2, <2>3 DEF StepShipsOrRestocks
<1> QED
  BY <1>1, OrderTypeInit, OrderTypeStep, RestockInit, RestockStep, PTL
     DEF OrderSpec, ShippedOrRestocked

-----------------------------------------------------------------------------
(* Inventory *)

USE InventoryAssumption, StockAssumption

\* What the two sub-actions on the stock do, each to a target's two columns.
\* TakeStock: a unit of stock is only taken where there is one.
LEMMA TakeStockKeeps ==
  ASSUME NEW a \in Calls, Available(a), TakeStock(a),
         quantity \in [Targets -> Nat], active \in [Targets -> BOOLEAN], OfferMatchesStock
  PROVE  /\ quantity' \in [Targets -> Nat]
         /\ active' \in [Targets -> BOOLEAN]
         /\ OfferMatchesStock'
<1> DEFINE t == CallOf[a].target
           left == quantity[t] - CallOf[a].quantity
<1>1. t \in Targets /\ CallOf[a].quantity \in Nat /\ quantity[t] \in Nat
  BY DEF InventoryAssumption
<1>2. left \in Nat
  BY <1>1 DEF Available
<1>3. quantity' = [quantity EXCEPT ![t] = left] /\ active' = [active EXCEPT ![t] = left > 0]
  BY DEF TakeStock
<1> HIDE DEF t, left
<1>4. quantity' \in [Targets -> Nat] /\ active' \in [Targets -> BOOLEAN]
  BY <1>1, <1>2, <1>3
<1>5. ASSUME NEW x \in Targets
      PROVE  /\ active'[x] => quantity'[x] > 0
             /\ x \in Combos /\ quantity'[x] > 0 => active'[x]
  <2>1. CASE x = t
    BY <1>1, <1>2, <1>3, <2>1
  <2>2. CASE x # t
    BY <1>3, <2>2 DEF OfferMatchesStock
  <2> QED BY <2>1, <2>2
<1> QED BY <1>4, <1>5 DEF OfferMatchesStock

\* GiveBack.
LEMMA GiveBackKeeps ==
  ASSUME NEW a \in Calls, GiveBack(a),
         quantity \in [Targets -> Nat], active \in [Targets -> BOOLEAN], OfferMatchesStock
  PROVE  /\ quantity' \in [Targets -> Nat]
         /\ active' \in [Targets -> BOOLEAN]
         /\ OfferMatchesStock'
<1> DEFINE t == CallOf[a].target
           more == quantity[t] + CallOf[a].quantity
<1>1. t \in Targets /\ CallOf[a].quantity \in Nat \ {0} /\ quantity[t] \in Nat
  BY DEF InventoryAssumption
<1>2. more \in Nat /\ more > 0
  BY <1>1
<1>3. quantity' = [quantity EXCEPT ![t] = more] /\ active' = [active EXCEPT ![t] = TRUE]
  BY <1>1 DEF GiveBack
<1> HIDE DEF t, more
<1>4. quantity' \in [Targets -> Nat] /\ active' \in [Targets -> BOOLEAN]
  BY <1>1, <1>2, <1>3
<1>5. ASSUME NEW x \in Targets
      PROVE  /\ active'[x] => quantity'[x] > 0
             /\ x \in Combos /\ quantity'[x] > 0 => active'[x]
  <2>1. CASE x = t
    BY <1>1, <1>2, <1>3, <2>1
  <2>2. CASE x # t
    BY <1>3, <2>2 DEF OfferMatchesStock
  <2> QED BY <2>1, <2>2
<1> QED BY <1>4, <1>5 DEF OfferMatchesStock

-----------------------------------------------------------------------------
\* The stock part of the invariant: TypeOK and OfferMatchesStock together.
StockInv == TypeOK /\ OfferMatchesStock

LEMMA StockInit == Init => StockInv
<1> SUFFICES ASSUME Init PROVE StockInv
  OBVIOUS
<1>1. OfferMatchesStock
  BY DEF Init, OfferMatchesStock, InventoryAssumption
<1>2. TypeOK
  BY DEF Init, TypeOK, Phases, Answers, InventoryAssumption
<1> QED BY <1>1, <1>2 DEF StockInv

\* Release, as the sweep and the callers use it.
LEMMA ReleaseKeeps ==
  ASSUME NEW a \in Calls, Release(a), StockInv
  PROVE  /\ quantity' \in [Targets -> Nat]
         /\ active' \in [Targets -> BOOLEAN]
         /\ OfferMatchesStock'
         /\ hold' \in [Calls -> {"none", "held", "released", "committed"}]
<1>1. CASE hold[a] = "held"
  <2>1. GiveBack(a) /\ hold' = [hold EXCEPT ![a] = "released"]
    BY <1>1 DEF Release
  <2> QED BY <2>1, GiveBackKeeps DEF StockInv, TypeOK
<1>2. CASE hold[a] # "held"
  <2>1. UNCHANGED <<quantity, active, hold>>
    BY <1>2 DEF Release, targets
  <2> QED BY <2>1 DEF StockInv, TypeOK, OfferMatchesStock
<1> QED BY <1>1, <1>2

LEMMA StockStep == StockInv /\ [Next]_vars => StockInv'
<1> SUFFICES ASSUME StockInv, [Next]_vars PROVE StockInv'
  OBVIOUS
<1>1. TypeOK /\ OfferMatchesStock
  BY DEF StockInv
<1> USE DEF Phases, Answers
\* Most steps leave the stock alone.
<1>2. ASSUME UNCHANGED <<quantity, active>> PROVE OfferMatchesStock'
  BY <1>1, <1>2 DEF OfferMatchesStock
<1>3. ASSUME NEW a \in Calls, View(a) PROVE StockInv'
  <2>1. UNCHANGED <<quantity, active>>
    BY <1>3 DEF View, targets
  <2>2. TypeOK'
    BY <1>1, <1>3 DEF View, TypeOK, Goto, Reply, targets, holds, bounds
  <2> QED BY <2>1, <2>2, <1>2 DEF StockInv
<1>4. ASSUME NEW a \in Calls, LookupHits(a) PROVE StockInv'
  <2>1. UNCHANGED <<quantity, active>>
    BY <1>4 DEF LookupHits, targets
  <2>2. TypeOK'
    BY <1>1, <1>4 DEF LookupHits, TypeOK, Reply, targets, holds, bounds
  <2> QED BY <2>1, <2>2, <1>2 DEF StockInv
<1>5. ASSUME NEW a \in Calls, LookupMisses(a) \/ Count(a) PROVE StockInv'
  <2>1. UNCHANGED <<quantity, active>>
    BY <1>5 DEF LookupMisses, Count, targets
  <2>2. TypeOK'
    BY <1>1, <1>5 DEF LookupMisses, Count, TypeOK, Goto, Reply, targets, holds, bounds
  <2> QED BY <2>1, <2>2, <1>2 DEF StockInv
<1>6. ASSUME NEW a \in Calls, TakeRefused(a) \/ TakeCollides(a) PROVE StockInv'
  <2>1. UNCHANGED <<quantity, active>>
    BY <1>6 DEF TakeRefused, TakeCollides, targets
  <2>2. TypeOK'
    BY <1>1, <1>6 DEF TakeRefused, TakeCollides, TypeOK, Reply, targets, holds, bounds
  <2> QED BY <2>1, <2>2, <1>2 DEF StockInv
<1>7. ASSUME NEW a \in Calls, Take(a) PROVE StockInv'
  <2>1. /\ quantity' \in [Targets -> Nat]
        /\ active' \in [Targets -> BOOLEAN]
        /\ OfferMatchesStock'
    BY <1>1, <1>7, TakeStockKeeps DEF Take, TypeOK
  <2>2. TypeOK'
    BY <1>1, <1>7, <2>1 DEF Take, TypeOK, Reply, bounds
  <2> QED BY <2>1, <2>2 DEF StockInv
<1>8. ASSUME NEW a \in Calls, CallFails(a) PROVE StockInv'
  <2>1. UNCHANGED <<quantity, active>>
    BY <1>8 DEF CallFails, targets
  <2>2. TypeOK'
    BY <1>1, <1>8 DEF CallFails, TypeOK, Reply, targets, holds
  <2> QED BY <2>1, <2>2, <1>2 DEF StockInv
<1>9. ASSUME NEW a \in Calls, ReleaseNow(a) PROVE StockInv'
  <2>1. Release(a)
    BY <1>9 DEF ReleaseNow
  <2>2. TypeOK'
    BY <1>1, <1>9, <2>1, ReleaseKeeps DEF StockInv, ReleaseNow, TypeOK, calls, bounds
  <2> QED BY <2>1, <2>2, ReleaseKeeps DEF StockInv
<1>10. ASSUME NEW a \in Calls, Commit(a) \/ Expire(a) PROVE StockInv'
  <2>1. UNCHANGED <<quantity, active>>
    BY <1>10 DEF Commit, Expire, targets
  <2>2. TypeOK'
    BY <1>1, <1>10 DEF Commit, Expire, TypeOK, targets, calls, bounds
  <2> QED BY <2>1, <2>2, <1>2 DEF StockInv
<1>11. ASSUME NEW s \in Sweepers, SweepRead(s) \/ SweepDies(s) PROVE StockInv'
  <2>1. UNCHANGED <<quantity, active>>
    BY <1>11 DEF SweepRead, SweepDies, targets
  <2>2. TypeOK'
    <3>1. CASE SweepRead(s)
      <4>1. PICK S \in SUBSET {a \in Held : expired[a]} : queue' = [queue EXCEPT ![s] = S]
        BY <3>1 DEF SweepRead
      <4>2. S \in SUBSET Calls
        BY DEF Held
      <4> QED BY <1>1, <3>1, <4>1, <4>2 DEF SweepRead, TypeOK, targets, holds, calls, bounds
    <3>2. CASE SweepDies(s)
      BY <1>1, <3>2 DEF SweepDies, TypeOK, targets, holds, calls
    <3> QED BY <1>11, <3>1, <3>2
  <2> QED BY <2>1, <2>2, <1>2 DEF StockInv
<1>12. ASSUME NEW s \in Sweepers, NEW a \in Calls, SweepNext(s, a) PROVE StockInv'
  <2>1. Release(a)
    BY <1>12 DEF SweepNext
  <2>2. TypeOK'
    BY <1>1, <1>12, <2>1, ReleaseKeeps DEF StockInv, SweepNext, TypeOK, calls, bounds
  <2> QED BY <2>1, <2>2, ReleaseKeeps DEF StockInv
<1>13. ASSUME NEW s \in Sweepers, NEW a \in Calls, SweepSkips(s, a) PROVE StockInv'
  <2>1. UNCHANGED <<quantity, active>>
    BY <1>13 DEF SweepSkips, targets
  <2>2. TypeOK'
    BY <1>1, <1>13 DEF SweepSkips, TypeOK, targets, holds, calls
  <2> QED BY <2>1, <2>2, <1>2 DEF StockInv
<1>14. ASSUME NEW t \in Targets, TakeDown(t) PROVE StockInv'
  <2>1. TypeOK'
    BY <1>1, <1>14 DEF TakeDown, TypeOK, holds, calls
  <2>2. OfferMatchesStock'
    BY <1>1, <1>14 DEF TakeDown, TypeOK, OfferMatchesStock
  <2> QED BY <2>1, <2>2 DEF StockInv
<1>15. ASSUME NEW t \in Targets, Relist(t) PROVE StockInv'
  <2>1. TypeOK'
    BY <1>1, <1>15 DEF Relist, TypeOK, holds, calls
  <2>2. OfferMatchesStock'
    BY <1>1, <1>15 DEF Relist, TypeOK, OfferMatchesStock
  <2> QED BY <2>1, <2>2 DEF StockInv
<1>16. CASE UNCHANGED vars
  <2>1. UNCHANGED <<quantity, active>>
    BY <1>16 DEF vars, targets
  <2>2. TypeOK'
    BY <1>1, <1>16 DEF vars, TypeOK, targets, holds, calls, bounds
  <2> QED BY <2>1, <2>2, <1>2 DEF StockInv
<1> QED
  BY <1>3, <1>4, <1>5, <1>6, <1>7, <1>8, <1>9, <1>10, <1>11, <1>12, <1>13, <1>14, <1>15, <1>16
     DEF Next, Sweeper

\* Type correctness; in particular no target is ever oversold.
THEOREM TypeCorrect == Spec => []TypeOK
<1>1. StockInv => TypeOK
  BY DEF StockInv
<1> QED BY <1>1, StockInit, StockStep, PTL DEF Spec

\* reserve(), release_reservation(), the sweep, moderators and sellers together
\* keep what is on offer in line with what is in stock.
THEOREM OfferFollowsStock == Spec => []OfferMatchesStock
<1>1. StockInv => OfferMatchesStock
  BY DEF StockInv
<1> QED BY <1>1, StockInit, StockStep, PTL DEF Spec

-----------------------------------------------------------------------------
\* A step makes the reservation of a call active and takes its stock, ends one that is
\* active, or leaves reservations and stock as they are.
Returns(a) ==
  hold[a] = "held" /\ GiveBack(a) /\ hold' = [hold EXCEPT ![a] = "released"]

EndsHold(a) ==
  /\ hold[a] = "held"
  /\ \E over \in {"released", "committed"} : hold' = [hold EXCEPT ![a] = over]

LEMMA HoldChanges ==
  ASSUME [Next]_vars
  PROVE  UNCHANGED <<quantity, hold>> \/ \E a \in Calls : Take(a) \/ Returns(a) \/ Commit(a)
<1> DEFINE Goal == UNCHANGED <<quantity, hold>>
                     \/ \E a \in Calls : Take(a) \/ Returns(a) \/ Commit(a)
<1>1. ASSUME NEW a \in Calls, Release(a) PROVE Goal
  BY <1>1 DEF Release, Returns, targets
<1>2. ASSUME NEW a \in Calls,
             \/ View(a) \/ LookupHits(a) \/ LookupMisses(a) \/ Count(a)
             \/ TakeRefused(a) \/ TakeCollides(a) \/ CallFails(a) \/ Expire(a)
      PROVE  Goal
  BY <1>2 DEF View, LookupHits, LookupMisses, Count, TakeRefused, TakeCollides,
              CallFails, Expire, holds, targets
<1>3. ASSUME NEW s \in Sweepers, SweepRead(s) \/ SweepDies(s) PROVE Goal
  BY <1>3 DEF SweepRead, SweepDies, holds, targets
<1>4. ASSUME NEW s \in Sweepers, NEW a \in Calls, SweepSkips(s, a) PROVE Goal
  BY <1>4 DEF SweepSkips, holds, targets
<1>5. ASSUME NEW t \in Targets, TakeDown(t) \/ Relist(t) PROVE Goal
  BY <1>5 DEF TakeDown, Relist, holds
<1>6. ASSUME UNCHANGED vars PROVE Goal
  BY <1>6 DEF vars, holds, targets
<1>7. ASSUME NEW a \in Calls, Take(a) \/ Commit(a) PROVE Goal
  BY <1>7
<1> HIDE DEF Goal
<1>8. ASSUME NEW a \in Calls, ReleaseNow(a) PROVE Goal
  BY <1>1, <1>8 DEF ReleaseNow
<1>9. ASSUME NEW s \in Sweepers, NEW a \in Calls, SweepNext(s, a) PROVE Goal
  BY <1>1, <1>9 DEF SweepNext
<1>10. Goal
  BY <1>2, <1>3, <1>4, <1>5, <1>6, <1>7, <1>8, <1>9 DEF Next, Sweeper
<1> QED BY <1>10 DEF Goal

LEMMA HoldEnds ==
  ASSUME NEW a \in Calls, Returns(a) \/ Commit(a) PROVE EndsHold(a)
BY DEF Returns, Commit, EndsHold

\* However the calls with one key interleave, the key holds stock at most once.
THEOREM KeyHoldsOnce == Spec => []OneHoldPerKey
<1>1. Init => OneHoldPerKey
  BY DEF Init, OneHoldPerKey, Held
<1>2. StockInv /\ OneHoldPerKey /\ [Next]_vars => OneHoldPerKey'
  <2> SUFFICES ASSUME StockInv, OneHoldPerKey, [Next]_vars PROVE OneHoldPerKey'
    OBVIOUS
  <2>1. hold \in [Calls -> {"none", "held", "released", "committed"}]
    BY DEF StockInv, TypeOK
  <2>2. CASE UNCHANGED hold
    BY <2>2 DEF OneHoldPerKey, Held
  <2>3. ASSUME NEW n \in Calls, Take(n) PROVE OneHoldPerKey'
    <3>1. Held' = Held \cup {n}
      BY <2>1, <2>3 DEF Take, Held
    <3>2. UnderKey(n) = {}
      BY <2>3 DEF Take, KeyTaken
    <3>3. ASSUME NEW b \in Held, CallOf[n].key # NoKey,
                 CallOf[b].key = CallOf[n].key, CallOf[b].user = CallOf[n].user
          PROVE  FALSE
      BY <3>2, <3>3 DEF UnderKey
    <3> QED BY <3>1, <3>3 DEF OneHoldPerKey
  <2>4. ASSUME NEW a \in Calls, EndsHold(a) PROVE OneHoldPerKey'
    <3>1. Held' \subseteq Held
      BY <2>1, <2>4 DEF EndsHold, Held
    <3> QED BY <3>1 DEF OneHoldPerKey
  <2> QED BY <2>2, <2>3, <2>4, HoldChanges, HoldEnds
<1> QED BY <1>1, <1>2, StockInit, StockStep, PTL DEF Spec

\* A call that has not answered has no reservation yet.
FreshCall == \A a \in Calls : pc[a] # "done" => hold[a] = "none"

\* An answer is final.
LEMMA DoneStays ==
  ASSUME StockInv, [Next]_vars
  PROVE  \A a \in Calls : pc[a] = "done" => pc'[a] = "done"
<1> SUFFICES ASSUME NEW b \in Calls, pc[b] = "done" PROVE pc'[b] = "done"
  OBVIOUS
<1>0. pc \in [Calls -> Phases]
  BY DEF StockInv, TypeOK
<1>1. ASSUME NEW a \in Calls,
             View(a) \/ LookupHits(a) \/ LookupMisses(a) \/ Count(a)
      PROVE  pc'[b] = "done"
  BY <1>0, <1>1 DEF View, LookupHits, LookupMisses, Count, Goto, Reply
<1>2. ASSUME NEW a \in Calls,
             TakeRefused(a) \/ TakeCollides(a) \/ Take(a) \/ CallFails(a)
      PROVE  pc'[b] = "done"
  BY <1>0, <1>2 DEF TakeRefused, TakeCollides, Take, CallFails, Reply
<1>3. ASSUME NEW a \in Calls, ReleaseNow(a) \/ Commit(a) \/ Expire(a)
      PROVE  pc'[b] = "done"
  BY <1>3 DEF ReleaseNow, Commit, Expire, calls
<1>4. ASSUME NEW s \in Sweepers, SweepRead(s) \/ SweepDies(s)
      PROVE  pc'[b] = "done"
  BY <1>4 DEF SweepRead, SweepDies, calls
<1>5. ASSUME NEW s \in Sweepers, NEW a \in Calls, SweepNext(s, a) \/ SweepSkips(s, a)
      PROVE  pc'[b] = "done"
  BY <1>5 DEF SweepNext, SweepSkips, calls
<1>6. ASSUME NEW t \in Targets, TakeDown(t) \/ Relist(t)
      PROVE  pc'[b] = "done"
  BY <1>6 DEF TakeDown, Relist, calls
<1>7. CASE UNCHANGED vars
  BY <1>7 DEF vars, calls
<1> QED BY <1>1, <1>2, <1>3, <1>4, <1>5, <1>6, <1>7 DEF Next, Sweeper

LEMMA FreshInit == Init => FreshCall
BY DEF Init, FreshCall

EndKept == \A a \in Calls : hold[a] \in {"released", "committed"} => hold'[a] = hold[a]

LEMMA FreshStep == StockInv /\ FreshCall /\ [Next]_vars => FreshCall' /\ EndKept
<1> SUFFICES ASSUME StockInv, FreshCall, [Next]_vars PROVE FreshCall' /\ EndKept
  OBVIOUS
<1> USE DEF FreshCall, EndKept
<1>1. /\ hold \in [Calls -> {"none", "held", "released", "committed"}]
      /\ pc \in [Calls -> Phases]
  BY DEF StockInv, TypeOK
<1>2. \A a \in Calls : pc[a] = "done" => pc'[a] = "done"
  BY DoneStays
<1>3. CASE UNCHANGED hold
  BY <1>2, <1>3
<1>4. ASSUME NEW n \in Calls, Take(n) PROVE FreshCall' /\ EndKept
  <2>1. /\ hold' = [hold EXCEPT ![n] = "held"] /\ pc[n] = "take"
        /\ pc' = [pc EXCEPT ![n] = "done"]
    BY <1>4 DEF Take, Reply
  <2>2. hold[n] = "none"
    BY <2>1
  <2> QED BY <1>1, <1>2, <2>1, <2>2
<1>5. ASSUME NEW n \in Calls, EndsHold(n) PROVE FreshCall' /\ EndKept
  <2>1. pc[n] = "done"
    BY <1>5 DEF EndsHold
  <2> QED BY <1>1, <1>2, <1>5, <2>1 DEF EndsHold
<1> QED BY <1>3, <1>4, <1>5, HoldChanges, HoldEnds

\* A stale id in a sweep's list, a second release or a late commit changes
\* nothing of a reservation that is over.
THEOREM EndStays == Spec => EndIsFinal
<1>1. EndKept => [EndKept]_vars
  OBVIOUS
<1> QED BY <1>1, FreshInit, FreshStep, StockInit, StockStep, PTL DEF Spec, EndIsFinal, EndKept

-----------------------------------------------------------------------------
\* Each unit of a target is in stock, held or sold.  The sum is over the reservations
\* that hold or have sold units, of which there are always finitely many.
ConservedInv == StockConserved /\ \A t \in Targets : IsFiniteSet(Out(t))

LEMMA OneCallMoves ==
  ASSUME StockInv, ConservedInv, NEW a \in Calls, NEW t \in Targets, NEW new,
         hold' = [hold EXCEPT ![a] = new]
  PROVE  /\ IsFiniteSet(Out(t)')
         /\ CallOf[a].target # t => Out(t)' = Out(t)
         /\ a \in Out(t) /\ a \notin Out(t)' =>
              SumFunctionOnSet(Units, Out(t)') =
                SumFunctionOnSet(Units, Out(t)) - CallOf[a].quantity
         /\ a \notin Out(t) /\ a \in Out(t)' =>
              SumFunctionOnSet(Units, Out(t)') =
                SumFunctionOnSet(Units, Out(t)) + CallOf[a].quantity
<1> DEFINE Old == Out(t)
           New == Out(t)'
           n   == CallOf[a].quantity
<1>1. /\ hold \in [Calls -> {"none", "held", "released", "committed"}]
      /\ IsFiniteSet(Old)
  BY DEF StockInv, TypeOK, ConservedInv
<1>2. /\ Old \subseteq Calls /\ New \subseteq Calls
      /\ New \ {a} = Old \ {a}
      /\ CallOf[a].target # t => a \notin New /\ a \notin Old
  BY <1>1 DEF Out
<1>3. \A x \in Calls : Units[x] \in Int
  BY DEF Units, InventoryAssumption
<1>4. Units[a] = n /\ n \in Int
  BY DEF Units, InventoryAssumption
<1> HIDE DEF Old, New, n
<1>5. IsFiniteSet(Old \ {a}) /\ IsFiniteSet(New)
  <2>1. IsFiniteSet(Old \ {a})
    BY <1>1, FS_Subset
  <2>2. IsFiniteSet((Old \ {a}) \cup {a})
    BY <2>1, FS_AddElement
  <2>3. New \subseteq (Old \ {a}) \cup {a}
    BY <1>2
  <2> QED BY <2>1, <2>2, <2>3, FS_Subset
<1>6. SumFunctionOnSet(Units, Old) \in Int /\ SumFunctionOnSet(Units, Old \ {a}) \in Int
  BY <1>1, <1>2, <1>3, <1>5, SumInt
<1>7. a \in Old => SumFunctionOnSet(Units, Old) = n + SumFunctionOnSet(Units, Old \ {a})
  BY <1>1, <1>2, <1>3, <1>4, SumRemove
<1>8. a \in New => SumFunctionOnSet(Units, New) = n + SumFunctionOnSet(Units, New \ {a})
  BY <1>2, <1>3, <1>4, <1>5, SumRemove
<1>9. /\ a \notin Old => Old \ {a} = Old
      /\ a \notin New => New \ {a} = New
  OBVIOUS
<1>10. /\ a \in Old /\ a \notin New =>
            SumFunctionOnSet(Units, New) = SumFunctionOnSet(Units, Old) - n
       /\ a \notin Old /\ a \in New =>
            SumFunctionOnSet(Units, New) = SumFunctionOnSet(Units, Old) + n
  <2>1. CASE a \in Old /\ a \notin New
    <3>1. New = Old \ {a}
      BY <1>2, <1>9, <2>1
    <3> QED BY <1>4, <1>6, <1>7, <2>1, <3>1
  <2>2. CASE a \notin Old /\ a \in New
    <3>1. Old = New \ {a}
      BY <1>2, <1>9, <2>2
    <3> QED BY <1>4, <1>6, <1>8, <2>2, <3>1
  <2> QED BY <2>1, <2>2
<1>11. CallOf[a].target # t => New = Old
  BY <1>2, <1>9
<1> QED BY <1>5, <1>10, <1>11 DEF Old, New, n

LEMMA ConservedInit == Init => ConservedInv
<1> SUFFICES ASSUME Init, NEW t \in Targets
             PROVE  IsFiniteSet(Out(t)) /\ quantity[t] + SumFunctionOnSet(Units, Out(t)) = Stock[t]
  BY DEF ConservedInv, StockConserved
<1>1. Out(t) = {}
  BY DEF Init, Out
<1>2. quantity[t] = Stock[t] /\ Stock[t] \in Nat
  BY DEF Init, StockAssumption
<1> QED BY <1>1, <1>2, SumEmpty, FS_EmptySet

LEMMA ConservedStep == StockInv /\ FreshCall /\ ConservedInv /\ [Next]_vars => ConservedInv'
<1> SUFFICES ASSUME StockInv, FreshCall, ConservedInv, [Next]_vars, NEW t \in Targets
             PROVE  /\ IsFiniteSet(Out(t)')
                    /\ quantity'[t] + SumFunctionOnSet(Units, Out(t)') = Stock[t]
  BY DEF ConservedInv, StockConserved, Units
<1>1. /\ hold \in [Calls -> {"none", "held", "released", "committed"}]
      /\ quantity \in [Targets -> Nat] /\ Stock[t] \in Nat
  BY DEF StockInv, TypeOK, StockAssumption
<1>2. IsFiniteSet(Out(t)) /\ quantity[t] + SumFunctionOnSet(Units, Out(t)) = Stock[t]
  BY DEF ConservedInv, StockConserved
<1>3. SumFunctionOnSet(Units, Out(t)) \in Int
  <2>1. \A x \in Out(t) : Units[x] \in Int
    BY DEF Units, Out, InventoryAssumption
  <2> QED BY <1>2, <2>1, SumInt
<1>4. CASE UNCHANGED <<quantity, hold>>
  <2>1. Out(t)' = Out(t)
    BY <1>4 DEF Out
  <2> QED BY <1>2, <1>4, <2>1
<1>5. ASSUME NEW a \in Calls, Take(a)
      PROVE  /\ IsFiniteSet(Out(t)')
             /\ quantity'[t] + SumFunctionOnSet(Units, Out(t)') = Stock[t]
  <2>1. /\ hold[a] = "none" /\ hold' = [hold EXCEPT ![a] = "held"]
        /\ quantity' = [quantity EXCEPT ![CallOf[a].target] =
                          quantity[CallOf[a].target] - CallOf[a].quantity]
    BY <1>5 DEF Take, TakeStock, FreshCall
  <2>2. CallOf[a].target = t => a \notin Out(t) /\ a \in Out(t)'
    BY <1>1, <2>1 DEF Out
  <2>3. CallOf[a].quantity \in Nat
    BY DEF InventoryAssumption
  <2>4. CASE CallOf[a].target = t
    <3>1. quantity'[t] = quantity[t] - CallOf[a].quantity
      BY <1>1, <2>1, <2>4
    <3>2. /\ IsFiniteSet(Out(t)')
          /\ SumFunctionOnSet(Units, Out(t)') =
               SumFunctionOnSet(Units, Out(t)) + CallOf[a].quantity
      BY <1>3, <2>1, <2>2, <2>3, <2>4, OneCallMoves
    <3> QED BY <1>1, <1>2, <1>3, <2>3, <3>1, <3>2
  <2>5. CASE CallOf[a].target # t
    <3>1. quantity'[t] = quantity[t] /\ Out(t)' = Out(t)
      BY <1>1, <2>1, <2>5, OneCallMoves
    <3> QED BY <1>2, <3>1
  <2> QED BY <2>4, <2>5
<1>6. ASSUME NEW a \in Calls, Returns(a)
      PROVE  /\ IsFiniteSet(Out(t)')
             /\ quantity'[t] + SumFunctionOnSet(Units, Out(t)') = Stock[t]
  <2>1. /\ hold[a] = "held" /\ hold' = [hold EXCEPT ![a] = "released"]
        /\ quantity' = [quantity EXCEPT ![CallOf[a].target] = @ + CallOf[a].quantity]
    BY <1>6 DEF Returns, GiveBack
  <2>2. CallOf[a].target = t => a \in Out(t) /\ a \notin Out(t)'
    BY <1>1, <2>1 DEF Out
  <2>3. CallOf[a].quantity \in Nat
    BY DEF InventoryAssumption
  <2>4. CASE CallOf[a].target = t
    <3>1. quantity'[t] = quantity[t] + CallOf[a].quantity
      BY <1>1, <2>1, <2>4
    <3>2. /\ IsFiniteSet(Out(t)')
          /\ SumFunctionOnSet(Units, Out(t)') =
               SumFunctionOnSet(Units, Out(t)) - CallOf[a].quantity
      BY <1>3, <2>1, <2>2, <2>3, <2>4, OneCallMoves
    <3> QED BY <1>1, <1>2, <1>3, <2>3, <3>1, <3>2
  <2>5. CASE CallOf[a].target # t
    <3>1. quantity'[t] = quantity[t] /\ Out(t)' = Out(t)
      BY <1>1, <2>1, <2>5, OneCallMoves
    <3> QED BY <1>2, <3>1
  <2> QED BY <2>4, <2>5
<1>7. ASSUME NEW a \in Calls, Commit(a)
      PROVE  /\ IsFiniteSet(Out(t)')
             /\ quantity'[t] + SumFunctionOnSet(Units, Out(t)') = Stock[t]
  <2>1. Out(t)' = Out(t) /\ quantity' = quantity
    BY <1>1, <1>7 DEF Commit, Out, targets
  <2> QED BY <1>2, <2>1
<1> QED BY <1>4, <1>5, <1>6, <1>7, HoldChanges

\* No unit is lost or made up: what is in stock, held and sold is what there was.
THEOREM StockNeverLeaks == Spec => []StockConserved
<1>1. ConservedInv => StockConserved
  BY DEF ConservedInv
<1> QED BY <1>1, FreshInit, FreshStep, ConservedInit, ConservedStep, StockInit, StockStep, PTL DEF Spec

-----------------------------------------------------------------------------
(* Reservations refine StockLedger *)

\* The operators of the library mean the same inside the instance.
LEMMA ReservingSums ==
  ASSUME NEW g, NEW S PROVE Reserving!SumFunctionOnSet(g, S) = SumFunctionOnSet(g, S)
BY DEF SumFunctionOnSet, FoldFunctionOnSet, MapThenFoldSet, Reserving!SumFunctionOnSet,
       Reserving!FoldFunctionOnSet, Reserving!MapThenFoldSet

LEMMA ReservingFinite ==
  ASSUME NEW S PROVE Reserving!IsFiniteSet(S) <=> IsFiniteSet(S)
BY DEF IsFiniteSet, Reserving!IsFiniteSet

LEMMA ReservingInit == Init => Reserving!Init
BY DEF Init, Reserving!Init, Reserving!Empty, Contents

\* reserve() packs one parcel, a release returns one, and a sale changes nothing.
LEMMA ReservingStep ==
  StockInv /\ FreshCall /\ [Next]_vars =>
    [Reserving!Next]_<<quantity, [a \in Calls |-> Contents(a)],
                       {a \in Calls : hold[a] # "none"}, {a \in Calls : hold[a] = "released"}>>
<1> SUFFICES ASSUME StockInv, FreshCall, [Next]_vars
             PROVE  [Reserving!Next]_<<quantity, [a \in Calls |-> Contents(a)],
                      {a \in Calls : hold[a] # "none"}, {a \in Calls : hold[a] = "released"}>>
  OBVIOUS
<1> DEFINE inside == [a \in Calls |-> Contents(a)]
           packed == {a \in Calls : hold[a] # "none"}
           back   == {a \in Calls : hold[a] = "released"}
<1>1. /\ hold \in [Calls -> {"none", "held", "released", "committed"}]
      /\ quantity \in [Targets -> Nat] /\ quantity' \in [Targets -> Nat]
      /\ hold' \in [Calls -> {"none", "held", "released", "committed"}]
  BY StockStep DEF StockInv, TypeOK
<1>2. ASSUME UNCHANGED <<quantity, hold>> PROVE UNCHANGED <<quantity, inside, packed, back>>
  BY <1>2 DEF Contents
<1>3. ASSUME NEW a \in Calls, Take(a) PROVE Reserving!Next
  <2> DEFINE t == CallOf[a].target
             n == CallOf[a].quantity
             S == {a}
  <2>1. hold[a] = "none" /\ hold' = [hold EXCEPT ![a] = "held"]
    BY <1>3 DEF Take, FreshCall
  <2>2. quantity' = [quantity EXCEPT ![t] = quantity[t] - n] /\ t \in Targets /\ n \in Nat \ {0}
    BY <1>3 DEF Take, TakeStock
  <2>3. inside'[a] = [u \in Targets |-> IF u = t THEN n ELSE 0]
    BY <1>1, <2>1 DEF Contents
  <2>4. inside' \in [Calls -> [Targets -> Nat]]
    BY <1>1 DEF Contents
  <2>5. inside'[a] # Reserving!Empty
    <3>1. inside'[a][t] # Reserving!Empty[t]
      BY <2>2, <2>3 DEF Reserving!Empty
    <3> QED BY <3>1
  <2>6. \A b \in Calls \ S : inside'[b] = inside[b]
    BY <1>1, <2>1 DEF Contents
  <2>7. packed' = packed \cup S /\ back' = back
    BY <1>1, <2>1
  <2>8. S \in SUBSET (Calls \ packed) /\ IsFiniteSet(S)
    BY <2>1, FS_Singleton
  <2> HIDE DEF inside, packed, back, t, n
  <2>9. quantity' = [u \in Targets |->
                       quantity[u] - SumFunctionOnSet([b \in Calls |-> inside'[b][u]], S)]
    <3>1. ASSUME NEW u \in Targets
          PROVE  quantity'[u] = quantity[u] - SumFunctionOnSet([b \in Calls |-> inside'[b][u]], S)
      <4> DEFINE g == [b \in Calls |-> inside'[b][u]]
      <4>1. g[a] = (IF u = t THEN n ELSE 0) /\ g[a] \in Int /\ \A b \in S : b # a => g[b] = 0
        BY <2>2, <2>3
      <4> HIDE DEF g
      <4>2. SumFunctionOnSet(g, S) = g[a]
        BY <2>8, <4>1, SumOne
      <4>3. quantity'[u] = quantity[u] - g[a]
        BY <1>1, <2>2, <4>1
      <4> QED BY <4>2, <4>3 DEF g
    <3> QED BY <1>1, <3>1
  <2>10. \A u \in Targets : quantity'[u] >= 0
    BY <1>1
  <2>11. Reserving!Pack(S)
    BY <2>4, <2>5, <2>6, <2>7, <2>9, <2>10, ReservingSums
       DEF Reserving!Pack, inside, packed, back
  <2> QED BY <2>8, <2>11, ReservingFinite DEF Reserving!Next, packed
<1>4. ASSUME NEW a \in Calls, Returns(a) PROVE Reserving!Next
  <2>1. /\ hold[a] = "held" /\ hold' = [hold EXCEPT ![a] = "released"]
        /\ quantity' = [quantity EXCEPT ![CallOf[a].target] = @ + CallOf[a].quantity]
    BY <1>4 DEF Returns, GiveBack
  <2>2. a \in packed \ back /\ packed' = packed /\ back' = back \cup {a}
    BY <1>1, <2>1
  <2>3. inside' = inside
    BY <1>1, <2>1 DEF Contents
  <2>4. quantity' = [u \in Targets |-> quantity[u] + inside[a][u]]
    <3>1. ASSUME NEW u \in Targets PROVE quantity'[u] = quantity[u] + inside[a][u]
      <4>1. inside[a][u] = IF u = CallOf[a].target THEN CallOf[a].quantity ELSE 0
        BY <2>1 DEF Contents
      <4> QED BY <1>1, <2>1, <4>1
    <3> QED BY <1>1, <3>1
  <2>5. Reserving!Return(a)
    BY <2>2, <2>3, <2>4 DEF Reserving!Return
  <2> QED BY <2>2, <2>5 DEF Reserving!Next
<1>5. ASSUME NEW a \in Calls, Commit(a) PROVE UNCHANGED <<quantity, inside, packed, back>>
  <2>1. /\ hold[a] = "held" /\ hold' = [hold EXCEPT ![a] = "committed"] /\ quantity' = quantity
    BY <1>5 DEF Commit, targets
  <2>2. packed' = packed /\ back' = back
    BY <1>1, <2>1
  <2>3. inside' = inside
    BY <1>1, <2>1 DEF Contents
  <2> QED BY <2>1, <2>2, <2>3
<1>6. Reserving!Next \/ UNCHANGED <<quantity, inside, packed, back>>
  <2> HIDE DEF inside, packed, back
  <2> QED BY <1>2, <1>3, <1>4, <1>5, HoldChanges
<1> QED BY <1>6

\* Reservations implement the ledger of parcels: each takes its units at once, only if
\* they are there, and gives them back at most once and all, whatever sweeps, releases
\* and retries race.
THEOREM ReservingRefines == Spec => ReservesAsPromised
<1>1. ReservesAsPromised <=>
        /\ Reserving!Init
        /\ [][Reserving!Next]_<<quantity, [a \in Calls |-> Contents(a)],
             {a \in Calls : hold[a] # "none"}, {a \in Calls : hold[a] = "released"}>>
  BY DEF ReservesAsPromised, Reserving!Spec
<1> QED
  BY <1>1, ReservingInit, ReservingStep, FreshInit, FreshStep, StockInit, StockStep, PTL DEF Spec

=============================================================================
