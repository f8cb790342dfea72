--------------------------- MODULE ExpensesProofs ---------------------------
(***************************************************************************)
(* Proofs about Expenses, for every set of participants, every form and    *)
(* patch, and any number of requests that overlap.  The sums over shares   *)
(* and splits are reasoned about by induction over finite sets, which      *)
(* LeastSubset states without an operator as a parameter, and the loop of  *)
(* getSettlements by the least number of rounds that goes wrong.           *)
(***************************************************************************)
EXTENDS Expenses, FiniteSetTheorems, TLAPS

-----------------------------------------------------------------------------
\* Sums over finite sets.

\* Where a property of subsets fails there is a least one for which it fails.
LEMMA LeastSubset ==
  ASSUME NEW S, IsFiniteSet(S), NEW F, NEW R \in SUBSET S, R \notin F
  PROVE  \E T \in SUBSET S : T \notin F /\ \A U \in SUBSET T : U # T => U \in F
<1> DEFINE B == {T \in SUBSET S : T \notin F}
<1>1. B \subseteq FiniteSubsetsOf(S) /\ B # {}
  BY FS_FiniteSubsetsOfFinite
<1>2. IsWellFoundedOn(StrictSubsetOrdering(S), FiniteSubsetsOf(S))
  BY FS_StrictSubsetOrderingWellFounded
<1> HIDE DEF B
<1>3. PICK T \in B : \A U \in B : ~ (<<U, T>> \in StrictSubsetOrdering(S))
  BY <1>1, <1>2, WFMin
<1>4. T \in SUBSET S /\ T \notin F
  BY DEF B
<1>5. ASSUME NEW U \in SUBSET T, U # T PROVE U \in F
  <2>1. <<U, T>> \in StrictSubsetOrdering(S)
    BY <1>4, <1>5 DEF StrictSubsetOrdering
  <2> QED
    BY <1>3, <1>4, <2>1 DEF B
<1> QED
  BY <1>4, <1>5

\* it[T] is the sum of the values w of the members of T, for every T \subseteq S,
\* taken in the order of MapThenSumSet.
Pick(T) == CHOOSE x \in T : TRUE
Adds(it, w, S) ==
  it = [T \in SUBSET S |-> IF T = {} THEN 0 ELSE w[Pick(T)] + it[T \ {Pick(T)}]]
Sum(w, S) == (CHOOSE it : Adds(it, w, S))[S]

\* The sum of T depends on nothing but the values of its members.
LEMMA SumsAgree ==
  ASSUME NEW S, NEW R, NEW f, NEW g, NEW v, NEW w, Adds(f, v, S), Adds(g, w, R),
         NEW T, T \subseteq S, T \subseteq R, IsFiniteSet(T), \A x \in T : v[x] = w[x]
  PROVE  f[T] = g[T]
<1> SUFFICES ASSUME f[T] # g[T] PROVE FALSE
  OBVIOUS
<1> DEFINE F == {U \in SUBSET T : f[U] = g[U]}
<1>1. PICK U \in SUBSET T : U \notin F /\ \A V \in SUBSET U : V # U => V \in F
  <2>1. T \notin F
    OBVIOUS
  <2> HIDE DEF F
  <2> QED
    BY <2>1, LeastSubset
<1>2. U # {}
  BY <1>1 DEF Adds
<1>3. Pick(U) \in U
  BY <1>2 DEF Pick
<1>4. f[U \ {Pick(U)}] = g[U \ {Pick(U)}]
  BY <1>1, <1>3
<1>5. /\ f[U] = v[Pick(U)] + f[U \ {Pick(U)}]
      /\ g[U] = w[Pick(U)] + g[U \ {Pick(U)}]
  BY <1>2 DEF Adds
<1> QED
  BY <1>1, <1>3, <1>4, <1>5

\* The recursion of MapThenSumSet is well defined on finite sets.
LEMMA SumExists ==
  ASSUME NEW S, IsFiniteSet(S), NEW w
  PROVE  \E it : Adds(it, w, S)
<1> SUFFICES ASSUME ~ \E it : Adds(it, w, S) PROVE FALSE
  OBVIOUS
<1> DEFINE F == {T \in SUBSET S : \E it : Adds(it, w, T)}
<1>1. PICK T \in SUBSET S : T \notin F /\ \A U \in SUBSET T : U # T => U \in F
  <2>1. S \notin F
    OBVIOUS
  <2> HIDE DEF F
  <2> QED
    BY <2>1, LeastSubset
<1> DEFINE G(U)  == CHOOSE it : Adds(it, w, U)
           Val(U) == IF U = {} THEN 0 ELSE w[Pick(U)] + G(U \ {Pick(U)})[U \ {Pick(U)}]
           h == [U \in SUBSET T |-> Val(U)]
<1>2. \A U \in SUBSET T : U # T => Adds(G(U), w, U)
  BY <1>1
<1>3. ASSUME NEW U \in SUBSET T, U # T PROVE G(U)[U] = Val(U)
  <2>1. Adds(G(U), w, U)
    BY <1>2, <1>3
  <2>2. G(U)[U] = IF U = {} THEN 0 ELSE w[Pick(U)] + G(U)[U \ {Pick(U)}]
    BY <2>1 DEF Adds
  <2>3. CASE U # {}
    <3>1. Pick(U) \in U
      BY <2>3 DEF Pick
    <3> DEFINE V == U \ {Pick(U)}
    <3>2. V \in SUBSET T /\ V # T /\ V \subseteq U
      BY <3>1
    <3>3. Adds(G(V), w, V) /\ IsFiniteSet(V)
      BY <1>2, <3>2, FS_Subset
    <3> HIDE DEF V, G
    <3>4. G(U)[V] = G(V)[V]
      BY <2>1, <3>2, <3>3, SumsAgree
    <3> QED
      BY <2>2, <2>3, <3>4 DEF V
  <2> QED
    BY <2>2, <2>3
<1>4. ASSUME NEW U \in SUBSET T, U # {}
      PROVE  h[U] = w[Pick(U)] + h[U \ {Pick(U)}]
  <2>1. Pick(U) \in U
    BY <1>4 DEF Pick
  <2> DEFINE V == U \ {Pick(U)}
  <2>2. V \in SUBSET T /\ V # T
    BY <2>1
  <2>3. G(V)[V] = h[V]
    <3> HIDE DEF V, G
    <3> QED
      BY <1>3, <2>2
  <2>4. h[U] = w[Pick(U)] + G(V)[V]
    BY <1>4
  <2> HIDE DEF V, G, h
  <2> QED
    BY <2>3, <2>4 DEF V
<1>5. h[{}] = 0
  OBVIOUS
<1>6. h = [U \in SUBSET T |-> IF U = {} THEN 0 ELSE w[Pick(U)] + h[U \ {Pick(U)}]]
  <2> DEFINE k == [U \in SUBSET T |-> IF U = {} THEN 0 ELSE w[Pick(U)] + h[U \ {Pick(U)}]]
  <2>1. h = [U \in SUBSET T |-> h[U]] /\ DOMAIN h = SUBSET T
    OBVIOUS
  <2> HIDE DEF h
  <2>2. \A U \in SUBSET T : h[U] = k[U]
    BY <1>4, <1>5
  <2> QED
    BY <2>1, <2>2
<1> HIDE DEF h
<1>7. Adds(h, w, T)
  BY <1>6 DEF Adds
<1> QED
  BY <1>1, <1>7

\* The sum of the empty set, and of a set from which one member is taken.
LEMMA SumStep ==
  ASSUME NEW S, IsFiniteSet(S), NEW w
  PROVE  /\ S = {} => Sum(w, S) = 0
         /\ S # {} => /\ Pick(S) \in S
                      /\ Sum(w, S) = w[Pick(S)] + Sum(w, S \ {Pick(S)})
<1> DEFINE it == CHOOSE it : Adds(it, w, S)
<1>1. Adds(it, w, S)
  BY SumExists
<1>2. Sum(w, S) = it[S]
  BY DEF Sum
<1> HIDE DEF it
<1>3. CASE S = {}
  BY <1>1, <1>2, <1>3 DEF Adds
<1>4. CASE S # {}
  <2>1. Pick(S) \in S
    BY <1>4 DEF Pick
  <2>2. it[S] = w[Pick(S)] + it[S \ {Pick(S)}]
    BY <1>1, <1>4 DEF Adds
  <2> DEFINE T == S \ {Pick(S)}
             kt == CHOOSE kt : Adds(kt, w, T)
  <2>3. IsFiniteSet(T)
    BY FS_Subset
  <2> HIDE DEF T
  <2>4. Adds(kt, w, T)
    BY <2>3, SumExists
  <2>5. Sum(w, T) = kt[T]
    BY DEF Sum
  <2> HIDE DEF kt
  <2>6. kt[T] = it[T]
    <3>1. T \subseteq S
      BY DEF T
    <3> QED
      BY <1>1, <2>3, <2>4, <3>1, SumsAgree
  <2> QED
    BY <1>2, <1>4, <2>1, <2>2, <2>5, <2>6 DEF T
<1> QED
  BY <1>3, <1>4

LEMMA SumSame ==
  ASSUME NEW S, IsFiniteSet(S), NEW v, NEW w, \A x \in S : v[x] = w[x]
  PROVE  Sum(v, S) = Sum(w, S)
<1> DEFINE f == CHOOSE it : Adds(it, v, S)
           g == CHOOSE it : Adds(it, w, S)
<1>1. Adds(f, v, S) /\ Adds(g, w, S)
  BY SumExists
<1>2. Sum(v, S) = f[S] /\ Sum(w, S) = g[S]
  BY DEF Sum
<1> HIDE DEF f, g
<1> QED
  BY <1>1, <1>2, SumsAgree

\* A sum of integers is an integer.
LEMMA SumType ==
  ASSUME NEW S, IsFiniteSet(S), NEW w, \A x \in S : w[x] \in Int
  PROVE  Sum(w, S) \in Int
<1> SUFFICES ASSUME Sum(w, S) \notin Int PROVE FALSE
  OBVIOUS
<1> DEFINE F == {T \in SUBSET S : Sum(w, T) \in Int}
<1>1. PICK T \in SUBSET S : T \notin F /\ \A U \in SUBSET T : U # T => U \in F
  <2>1. S \notin F
    OBVIOUS
  <2> HIDE DEF F
  <2> QED
    BY <2>1, LeastSubset
<1>2. IsFiniteSet(T)
  BY FS_Subset
<1>0. Sum(w, T) \notin Int
  BY <1>1
<1>3. T # {} /\ Pick(T) \in T /\ Sum(w, T) = w[Pick(T)] + Sum(w, T \ {Pick(T)})
  <2>1. T = {} => Sum(w, T) = 0
    BY <1>2, SumStep
  <2>2. T # {}
    BY <1>0, <2>1
  <2> QED
    BY <1>2, <2>2, SumStep
<1>4. Sum(w, T \ {Pick(T)}) \in Int
  BY <1>1, <1>3
<1> QED
  BY <1>1, <1>3, <1>4

\* The members may be taken in any order.
LEMMA SumRemove ==
  ASSUME NEW S, IsFiniteSet(S), NEW w, \A x \in S : w[x] \in Int, NEW x \in S
  PROVE  Sum(w, S) = w[x] + Sum(w, S \ {x})
<1> DEFINE Ok(T) == \A y \in T : Sum(w, T) = w[y] + Sum(w, T \ {y})
           F == {T \in SUBSET S : Ok(T)}
<1> SUFFICES ASSUME S \notin F PROVE FALSE
  OBVIOUS
<1>1. PICK T \in SUBSET S : T \notin F /\ \A U \in SUBSET T : U # T => U \in F
  <2> HIDE DEF F
  <2> QED
    BY LeastSubset
<1>2. PICK y \in T : Sum(w, T) # w[y] + Sum(w, T \ {y})
  BY <1>1
<1> DEFINE p == Pick(T)
           R == T \ {p, y}
<1>3. /\ IsFiniteSet(T) /\ IsFiniteSet(R)
      /\ \A z \in T : IsFiniteSet(T \ {z})
  BY FS_Subset
<1>4. p \in T /\ Sum(w, T) = w[p] + Sum(w, T \ {p})
  BY <1>2, <1>3, SumStep
<1> HIDE DEF p
<1>5. y # p /\ y \in T \ {p} /\ p \in T \ {y}
  BY <1>2, <1>4
<1>6. Sum(w, T \ {p}) = w[y] + Sum(w, R) /\ Sum(w, T \ {y}) = w[p] + Sum(w, R)
  <2>1. T \ {p} \in F /\ T \ {y} \in F
    BY <1>1, <1>4, <1>2
  <2>2. (T \ {p}) \ {y} = R /\ (T \ {y}) \ {p} = R
    OBVIOUS
  <2> QED
    BY <1>5, <2>1, <2>2
<1>7. Sum(w, R) \in Int /\ w[p] \in Int /\ w[y] \in Int
  BY <1>3, <1>4, SumType
<1> HIDE DEF R
<1>8. w[p] + (w[y] + Sum(w, R)) = w[y] + (w[p] + Sum(w, R))
  BY <1>7
<1> QED
  BY <1>2, <1>4, <1>6, <1>8

LEMMA SumAdd ==
  ASSUME NEW S, IsFiniteSet(S), NEW w, NEW x, x \notin S,
         \A y \in S \cup {x} : w[y] \in Int
  PROVE  Sum(w, S \cup {x}) = w[x] + Sum(w, S)
<1>1. IsFiniteSet(S \cup {x})
  BY FS_AddElement
<1>2. (S \cup {x}) \ {x} = S
  OBVIOUS
<1> DEFINE T == S \cup {x}
<1>3. x \in T /\ \A y \in T : w[y] \in Int
  OBVIOUS
<1> HIDE DEF T
<1>4. Sum(w, T) = w[x] + Sum(w, T \ {x})
  BY <1>1, <1>3, SumRemove DEF T
<1> QED
  BY <1>2, <1>4 DEF T

\* Renaming the members changes nothing.
LEMMA SumRenamed ==
  ASSUME NEW S, IsFiniteSet(S), NEW w, \A x \in S : w[x] \in Int, NEW v, NEW f,
         \A x \in S : v[f[x]] = w[x],
         \A x, y \in S : f[x] = f[y] => x = y
  PROVE  Sum(v, {f[x] : x \in S}) = Sum(w, S)
<1> DEFINE Image(T) == {f[x] : x \in T}
           F == {T \in SUBSET S : IsFiniteSet(Image(T)) /\ Sum(v, Image(T)) = Sum(w, T)}
<1> SUFFICES ASSUME S \notin F PROVE FALSE
  OBVIOUS
<1>1. PICK T \in SUBSET S : T \notin F /\ \A U \in SUBSET T : U # T => U \in F
  <2> HIDE DEF F
  <2> QED
    BY LeastSubset
<1>2. IsFiniteSet(T) /\ \A z \in T : IsFiniteSet(T \ {z})
  BY FS_Subset
<1>3. T # {}
  <2> SUFFICES ASSUME T = {} PROVE FALSE
    OBVIOUS
  <2>1. Image(T) = {}
    OBVIOUS
  <2>2. IsFiniteSet(Image(T)) /\ Sum(v, Image(T)) = 0 /\ Sum(w, T) = 0
    BY <1>2, <2>1, FS_EmptySet, SumStep
  <2> QED
    BY <1>1, <2>2
<1>4. PICK z \in T : TRUE
  BY <1>3
<1> DEFINE R == T \ {z}
<1>5. R \in F
  BY <1>1, <1>4
<1>6. Image(T) = Image(R) \cup {f[z]} /\ f[z] \notin Image(R)
  BY <1>4
<1>7. Sum(w, T) = w[z] + Sum(w, R)
  BY <1>2, <1>4, SumRemove
<1>8. \A y \in Image(R) \cup {f[z]} : v[y] \in Int
  BY <1>4
<1> HIDE DEF Image
<1>9. Sum(v, Image(R) \cup {f[z]}) = v[f[z]] + Sum(v, Image(R))
  BY <1>5, <1>6, <1>8, SumAdd
<1> HIDE DEF R
<1>10. IsFiniteSet(Image(T))
  <2>1. IsFiniteSet(Image(R))
    BY <1>5
  <2> QED
    BY <1>6, <2>1, FS_AddElement
<1> QED
  BY <1>1, <1>4, <1>5, <1>6, <1>7, <1>9, <1>10 DEF R

\* The sum of a constant.
LEMMA SumOfConstant ==
  ASSUME NEW S, IsFiniteSet(S), NEW w, NEW c \in Int, \A x \in S : w[x] = c
  PROVE  Sum(w, S) = c * Cardinality(S)
<1> DEFINE F == {T \in SUBSET S : Sum(w, T) = c * Cardinality(T)}
<1> SUFFICES ASSUME S \notin F PROVE FALSE
  OBVIOUS
<1>1. PICK T \in SUBSET S : T \notin F /\ \A U \in SUBSET T : U # T => U \in F
  <2> HIDE DEF F
  <2> QED
    BY LeastSubset
<1>2. IsFiniteSet(T)
  BY FS_Subset
<1>3. T # {}
  <2> SUFFICES ASSUME T = {} PROVE FALSE
    OBVIOUS
  <2>1. Sum(w, T) = 0 /\ Cardinality(T) = 0
    BY <1>2, FS_EmptySet, SumStep
  <2>2. c * 0 = 0
    OBVIOUS
  <2> QED
    BY <1>1, <2>1, <2>2
<1>4. Pick(T) \in T /\ Sum(w, T) = w[Pick(T)] + Sum(w, T \ {Pick(T)})
  BY <1>2, <1>3, SumStep
<1> DEFINE R == T \ {Pick(T)}
<1>5. Sum(w, R) = c * Cardinality(R)
  BY <1>1, <1>4
<1>6. Cardinality(R) = Cardinality(T) - 1 /\ Cardinality(T) \in Nat
  BY <1>2, <1>4, FS_RemoveElement, FS_CardinalityType
<1> HIDE DEF R
<1>7. Sum(w, T) = c + c * (Cardinality(T) - 1)
  BY <1>4, <1>5, <1>6 DEF R
<1> DEFINE n == Cardinality(T)
<1>8. c + c * (n - 1) = c * n
  BY <1>6
<1> QED
  BY <1>1, <1>7, <1>8

\* The sums of the model are such sums.
LEMMA WorthIsSum ==
  ASSUME NEW S, IsFiniteSet(S), NEW w, \A s \in S : w[s] = s.amount
  PROVE  Worth(S) = Sum(w, S)
<1>1. PICK g : Adds(g, w, S)
  BY SumExists
<1>2. g = [T \in SUBSET S |-> IF T = {} THEN 0 ELSE Pick(T).amount + g[T \ {Pick(T)}]]
  <2>1. \A T \in SUBSET S : T # {} => Pick(T) \in S
    BY DEF Pick
  <2>2. g = [T \in SUBSET S |-> IF T = {} THEN 0 ELSE w[Pick(T)] + g[T \ {Pick(T)}]]
    BY <1>1 DEF Adds
  <2> QED
    BY <2>1, <2>2
<1>3. PICK h : /\ h = [T \in SUBSET S |-> IF T = {} THEN 0 ELSE Pick(T).amount + h[T \ {Pick(T)}]]
               /\ Worth(S) = h[S]
  BY <1>2 DEF Worth, SumOver, MapThenSumSet, MapThenFoldSet, Pick
<1>4. Adds(h, w, S)
  <2>1. \A T \in SUBSET S : T # {} => Pick(T) \in S
    BY DEF Pick
  <2>2. h = [T \in SUBSET S |-> IF T = {} THEN 0 ELSE w[Pick(T)] + h[T \ {Pick(T)}]]
    BY <1>3, <2>1
  <2> QED
    BY <2>2 DEF Adds
<1> DEFINE it == CHOOSE it : Adds(it, w, S)
<1>5. Adds(it, w, S) /\ Sum(w, S) = it[S]
  BY <1>1 DEF Sum
<1> HIDE DEF it
<1> QED
  BY <1>3, <1>4, <1>5, SumsAgree

LEMMA TotalIsSum ==
  ASSUME NEW f, IsFiniteSet(DOMAIN f)
  PROVE  Total(f) = Sum(f, DOMAIN f)
<1> DEFINE S == DOMAIN f
<1>1. PICK g : Adds(g, f, S)
  BY SumExists
<1>2. g = [T \in SUBSET S |-> IF T = {} THEN 0 ELSE f[Pick(T)] + g[T \ {Pick(T)}]]
  BY <1>1 DEF Adds
<1>3. PICK h : /\ h = [T \in SUBSET S |-> IF T = {} THEN 0 ELSE f[Pick(T)] + h[T \ {Pick(T)}]]
               /\ Total(f) = h[S]
  BY <1>2 DEF Total, SumOver, MapThenSumSet, MapThenFoldSet, Pick
<1>4. Adds(h, f, S)
  BY <1>3 DEF Adds
<1> DEFINE it == CHOOSE it : Adds(it, f, S)
<1>5. Adds(it, f, S) /\ Sum(f, S) = it[S]
  BY <1>1 DEF Sum
<1> HIDE DEF it
<1> QED
  BY <1>3, <1>4, <1>5, SumsAgree

-----------------------------------------------------------------------------
\* The shares of an amount.

\* The lists that an update works with: of the request, or of the splits it read.
Parts == Seq([user : Users, amount : Int])

LEMMA NamedUsers ==
  ASSUME NEW s \in Parts
  PROVE  /\ Named(s) \subseteq Users /\ IsFiniteSet(Named(s))
         /\ \A i \in DOMAIN s : s[i].user \in Named(s) /\ s[i].amount \in Int
         /\ s # <<>> => 1 \in DOMAIN s
<1> DEFINE Part == [user : Users, amount : Int]
<1>0. s \in Seq(Part)
  BY DEF Parts
<1>1. \A i \in DOMAIN s : s[i] \in Part
  <2> HIDE DEF Part
  <2> QED
    BY <1>0
<1>2. Named(s) \subseteq Users
  BY <1>1 DEF Named
<1>3. IsFiniteSet(Named(s))
  <2>1. Named(s) \in SUBSET Users /\ IsFiniteSet(Users)
    BY <1>2, UsersAssumption
  <2> QED
    BY <2>1, FS_Subset
<1>4. s # <<>> => 1 \in DOMAIN s
  BY DEF Parts
<1> QED
  BY <1>1, <1>2, <1>3, <1>4 DEF Named

\* Every user on the list is named first somewhere.
LEMMA FirstNamed ==
  ASSUME NEW s \in Parts, NEW u \in Named(s)
  PROVE  First(s, u) \in DOMAIN s /\ s[First(s, u)].user = u
<1> DEFINE F == {T \in SUBSET DOMAIN s : \A i \in DOMAIN s : s[i].user = u => T # 1..i}
<1>1. PICK k \in DOMAIN s : s[k].user = u
  BY DEF Named
<1>2. DOMAIN s = 1..Len(s) /\ Len(s) \in Nat
  BY DEF Parts
<1>3. IsFiniteSet(DOMAIN s)
  BY <1>2, FS_Interval
<1>4. 1..k \in SUBSET DOMAIN s /\ 1..k \notin F
  BY <1>1, <1>2
<1>5. PICK T \in SUBSET DOMAIN s : T \notin F /\ \A U \in SUBSET T : U # T => U \in F
  <2> DEFINE R == 1..k
  <2>1. R \in SUBSET DOMAIN s /\ R \notin F
    BY <1>4
  <2> HIDE DEF F, R
  <2> QED
    BY <1>3, <2>1, LeastSubset
<1>6. PICK i \in DOMAIN s : s[i].user = u /\ T = 1..i
  BY <1>5
<1>7. ASSUME NEW j \in 1..(i - 1), s[j].user = u PROVE FALSE
  <2>1. j \in DOMAIN s /\ 1..j \in SUBSET T /\ 1..j # T
    BY <1>2, <1>6, <1>7
  <2>2. 1..j \in F
    BY <1>5, <2>1
  <2> QED
    BY <1>7, <2>1, <2>2
<1> QED
  BY <1>6, <1>7 DEF First

LEMMA RoundType ==
  ASSUME NEW n \in Int, NEW d \in Nat \ {0}
  PROVE  Round(n, d) \in Int
BY DEF Round

\* calculateSplits gives every user named a share, one each.
LEMMA SharesType ==
  ASSUME NEW amount \in Int, NEW s \in Parts, NEW method \in Methods
  PROVE  Shares(amount, s, method) \in [Named(s) -> Int]
<1>1. CASE method = "equal"
  <2> DEFINE n == Cardinality(Named(s))
  <2>1. n \in Nat
    BY NamedUsers, FS_CardinalityType
  <2>2. ASSUME NEW u \in Named(s) PROVE Round(amount, n) \in Int
    <3>1. n # 0
      BY <2>2, NamedUsers, FS_EmptySet
    <3> QED
      BY <2>1, <3>1, RoundType
  <2> DEFINE each == Round(amount, n)
  <2>3. \A u \in Named(s) : each \in Int /\ amount - each * (n - 1) \in Int
    BY <2>1, <2>2
  <2>4. Equal(amount, s) = [u \in Named(s) |-> IF u = s[1].user THEN amount - each * (n - 1) ELSE each]
    BY DEF Equal
  <2> HIDE DEF each, n
  <2> QED
    BY <1>1, <2>3, <2>4 DEF Shares
<1>2. CASE method = "exact"
  <2>1. \A u \in Named(s) : s[First(s, u)].amount \in Int
    BY FirstNamed, NamedUsers
  <2> QED
    BY <1>2, <2>1 DEF Shares, Exact
<1> QED
  BY <1>1, <1>2 DEF Methods

\* An amount that is split equally is split to the cent: the rest that rounding leaves
\* goes to the first user named, however many there are and however often.
THEOREM EqualSharesAddUp ==
  ASSUME NEW amount \in Int, NEW s \in Parts, s # <<>>
  PROVE  Total(Equal(amount, s)) = amount
<1> DEFINE S == Named(s)
           n == Cardinality(S)
           u == s[1].user
           each == Round(amount, n)
           f == Equal(amount, s)
<1>1. u \in S /\ IsFiniteSet(S)
  BY NamedUsers
<1>2. n \in Nat \ {0} /\ Cardinality(S \ {u}) = n - 1 /\ IsFiniteSet(S \ {u})
  <2> HIDE DEF S, u
  <2>1. n \in Nat /\ n # 0
    BY <1>1, FS_CardinalityType, FS_EmptySet
  <2>2. Cardinality(S \ {u}) = n - 1 /\ IsFiniteSet(S \ {u})
    BY <1>1, FS_RemoveElement
  <2> QED
    BY <2>1, <2>2
<1>3. each \in Int
  BY <1>2, RoundType
<1>4. f = [v \in S |-> IF v = u THEN amount - each * (n - 1) ELSE each]
  BY DEF Equal
<1> HIDE DEF S, n, u, each, f
<1>5. /\ DOMAIN f = S /\ f[u] = amount - each * (n - 1) /\ f[u] \in Int
      /\ \A v \in S \ {u} : f[v] = each
      /\ \A v \in S : f[v] \in Int
  BY <1>1, <1>2, <1>3, <1>4
<1>6. Total(f) = f[u] + Sum(f, S \ {u})
  BY <1>1, <1>5, TotalIsSum, SumRemove
<1> DEFINE R == S \ {u}
<1>7. Sum(f, R) = each * (n - 1)
  <2>1. IsFiniteSet(R) /\ Cardinality(R) = n - 1 /\ \A v \in R : f[v] = each
    BY <1>2, <1>5
  <2> HIDE DEF R
  <2> QED
    BY <1>3, <2>1, SumOfConstant
<1> DEFINE k == each * (n - 1)
<1>8. k \in Int
  BY <1>2, <1>3
<1>9. Total(f) = (amount - k) + k
  BY <1>5, <1>6, <1>7
<1> HIDE DEF k
<1>10. Total(f) = amount
  BY <1>8, <1>9
<1> QED
  BY <1>10 DEF f

\* A list that calculateSplits accepts becomes shares that add up to a cent.
LEMMA SharesFit ==
  ASSUME NEW amount \in Int, NEW s \in Parts, s # <<>>, NEW method \in Methods,
         Fits(amount, s, method)
  PROVE  Abs(Total(Shares(amount, s, method)) - amount) <= 1
<1>1. CASE method = "equal"
  <2>1. Total(Shares(amount, s, method)) = amount
    BY <1>1, EqualSharesAddUp DEF Shares
  <2>2. amount - amount = 0
    OBVIOUS
  <2> QED
    BY <2>1, <2>2 DEF Abs
<1>2. CASE method = "exact"
  BY <1>2 DEF Shares, Fits
<1> QED
  BY <1>1, <1>2 DEF Methods

\* The splits inserted for an expense are worth its shares, one for each user.
LEMMA InsertedWorth ==
  ASSUME NEW e \in Int, NEW U \in SUBSET Users, NEW shares \in [U -> Int]
  PROVE  /\ IsFiniteSet(Inserted(e, shares))
         /\ Worth(Inserted(e, shares)) = Total(shares)
         /\ \A s \in Inserted(e, shares) : s.exp = e /\ s.user \in U /\ ~s.settled /\ s.amount \in Int
         /\ \A s, t \in Inserted(e, shares) : s.user = t.user => s = t
         /\ U # {} => Inserted(e, shares) # {}
<1> DEFINE row == [u \in U |-> [exp |-> e, user |-> u, amount |-> shares[u], settled |-> FALSE,
                               batch |-> batches + 1]]
           S == {row[u] : u \in U}
           w == [s \in S |-> s.amount]
<1>1. Inserted(e, shares) = S
  BY DEF Inserted
<1>2. /\ \A u \in U : row[u].user = u /\ row[u].exp = e /\ ~row[u].settled /\ row[u].amount = shares[u]
      /\ \A u \in U : shares[u] \in Int
      /\ \A u, v \in U : row[u] = row[v] => u = v
      /\ \A u \in U : w[row[u]] = shares[u]
  OBVIOUS
<1>3. IsFiniteSet(U)
  BY UsersAssumption, FS_Subset
<1> HIDE DEF row
<1>4. IsFiniteSet(S)
  <2>1. [u \in U |-> row[u]] \in Surjection(U, S)
    BY DEF Surjection
  <2> QED
    BY <1>3, <2>1, FS_Surjection
<1>5. Worth(S) = Sum(w, S)
  <2>1. \A s \in S : w[s] = s.amount
    OBVIOUS
  <2> HIDE DEF S, w
  <2> QED
    BY <1>4, <2>1, WorthIsSum
<1>6. Sum(w, S) = Sum(shares, U)
  <2> HIDE DEF w
  <2> QED
    BY <1>2, <1>3, SumRenamed
<1>7. Total(shares) = Sum(shares, U)
  BY <1>3, TotalIsSum
<1> QED
  BY <1>1, <1>2, <1>4, <1>5, <1>6, <1>7

-----------------------------------------------------------------------------
\* What the handlers read and write.

\* The fields of a request are fields of the row, of their types.
LEMMA PatchedType ==
  ASSUME NEW x \in Expense, NEW fields \in AllFields
  PROVE  /\ Patched(x, fields) \in Expense /\ Patched(x, fields).id = x.id
         /\ "amount" \notin DOMAIN fields => Patched(x, fields).amount = x.amount
<1>1. PICK patch \in Patches : fields = patch.fields
  BY DEF AllFields
<1>2. /\ DOMAIN fields \subseteq {"payer", "amount", "method"}
      /\ "payer" \in DOMAIN fields => fields["payer"] \in Users
      /\ "amount" \in DOMAIN fields => fields["amount"] \in Nat
      /\ "method" \in DOMAIN fields => fields["method"] \in Methods
  BY <1>1, InputsAssumption
<1>3. /\ x = [id |-> x.id, payer |-> x.payer, amount |-> x.amount, method |-> x.method]
      /\ x.id \in Nat /\ x.payer \in Users /\ x.amount \in Nat /\ x.method \in Methods
  BY DEF Expense
<1>4. Patched(x, fields) =
        [id |-> x.id,
         payer |-> IF "payer" \in DOMAIN fields THEN fields["payer"] ELSE x.payer,
         amount |-> IF "amount" \in DOMAIN fields THEN fields["amount"] ELSE x.amount,
         method |-> IF "method" \in DOMAIN fields THEN fields["method"] ELSE x.method]
  BY <1>2, <1>3 DEF Patched
<1> QED
  BY <1>2, <1>3, <1>4 DEF Expense

\* Lists of requests, and of splits that were read, are lists of parts.
LEMMA ListsAreParts == Lists \subseteq Parts
<1> SUFFICES ASSUME NEW s \in Lists PROVE s \in Parts
  OBVIOUS
<1> DEFINE P == [user : Users, amount : Nat]
           Q == [user : Users, amount : Int]
<1>1. s \in Seq(P) /\ P \subseteq Q
  BY DEF Lists
<1> HIDE DEF P, Q
<1>2. s \in Seq(Q)
  BY <1>1
<1> QED
  BY <1>2 DEF Q, Parts

LEMMA LoadedParts ==
  ASSUME TypeOK, NEW e, NEW list \in Loaded(e)
  PROVE  list \in Parts /\ (SplitsOf(e) # {} => list # <<>>)
<1> DEFINE S == SplitsOf(e)
           n == Cardinality(S)
           Part == [user : Users, amount : Int]
<1>1. S \subseteq Split /\ IsFiniteSet(S)
  BY FS_Subset DEF TypeOK, SplitsOf
<1>2. PICK q \in [1..n -> S] :
        list = [i \in DOMAIN q |-> [user |-> q[i].user, amount |-> q[i].amount]]
  BY DEF Loaded, SetToSeqs
<1>3. n \in Nat /\ (S # {} => n # 0)
  BY <1>1, FS_CardinalityType, FS_EmptySet
<1> HIDE DEF S, n
<1>4. \A i \in 1..n : [user |-> q[i].user, amount |-> q[i].amount] \in Part
  BY <1>1 DEF Split
<1>5. list \in [1..n -> Part]
  BY <1>2, <1>4
<1> HIDE DEF Part
<1>6. list \in Seq(Part)
  BY <1>3, <1>5
<1>7. n # 0 => list # <<>>
  <2> SUFFICES ASSUME n # 0, list = <<>> PROVE FALSE
    OBVIOUS
  <2>1. DOMAIN list = 1..n /\ 1 \in 1..n
    BY <1>3, <1>5
  <2> QED
    BY <2>1
<1> QED
  BY <1>3, <1>6, <1>7 DEF S, Part, Parts

LEMMA RowExists ==
  ASSUME NEW e, Exists(e)
  PROVE  Row(e) \in expenses /\ Row(e).id = e
BY DEF Exists, Row

\* What a new update knows of its expense.
LEMMA StartedUpdate ==
  ASSUME TypeOK, NEW r \in Requests, NEW e \in Ids, NEW patch \in Patches, StartUpdate(r, e, patch)
  PROVE  /\ Works(r, e, req'[r]) /\ req'[r].pc = "delete" /\ req'[r].exp = e
         /\ req'[r].fields = patch.fields /\ req'[r].fits \in BOOLEAN
         /\ \E U \in SUBSET Users : req'[r].shares \in [U -> Int]
         /\ \E U \in SUBSET Users :
              req'[r] \in [pc : {"delete", "insert", "fields"}, exp : Ids, fields : AllFields,
                          shares : [U -> Int], fits : BOOLEAN]
         /\ SplitsOf(e) # {} /\ req'[r].fits =>
              /\ DOMAIN req'[r].shares # {}
              /\ Even(Patched(Row(e), patch.fields), Total(req'[r].shares))
<1> DEFINE row == Patched(Row(e), patch.fields)
<1>1. PICK list \in (IF patch.list # <<>> THEN {patch.list} ELSE Loaded(e)) :
        Works(r, e, [pc |-> "delete", exp |-> e, fields |-> patch.fields,
                     shares |-> Shares(row.amount, list, row.method),
                     fits |-> Fits(row.amount, list, row.method)])
  BY DEF StartUpdate
<1>2. list \in Parts /\ (SplitsOf(e) # {} => list # <<>>)
  BY InputsAssumption, ListsAreParts, LoadedParts
<1>3. row \in Expense
  <2>1. Row(e) \in Expense
    BY <1>1, RowExists DEF Works, TypeOK
  <2> QED
    BY <2>1, PatchedType DEF AllFields
<1> HIDE DEF row
<1>4. row.amount \in Int /\ row.method \in Methods
  BY <1>3 DEF Expense
<1> DEFINE shares == Shares(row.amount, list, row.method)
           fits == Fits(row.amount, list, row.method)
           q == [pc |-> "delete", exp |-> e, fields |-> patch.fields, shares |-> shares, fits |-> fits]
<1>5. shares \in [Named(list) -> Int] /\ Named(list) \in SUBSET Users
  BY <1>2, <1>4, SharesType, NamedUsers
<1>6. fits \in BOOLEAN
  BY DEF Fits
<1>7. SplitsOf(e) # {} /\ fits => DOMAIN shares # {} /\ Even(row, Total(shares))
  <2> SUFFICES ASSUME SplitsOf(e) # {}, fits PROVE DOMAIN shares # {} /\ Even(row, Total(shares))
    OBVIOUS
  <2>1. Named(list) # {}
    BY <1>2, NamedUsers
  <2>2. Abs(Total(shares) - row.amount) <= 1
    BY <1>2, <1>4, SharesFit
  <2> QED
    BY <1>5, <2>1, <2>2 DEF Even
<1> HIDE DEF shares, fits
<1>8. Works(r, e, q)
  BY <1>1 DEF shares, fits
<1>9. req'[r] = q
  BY <1>8 DEF Works, TypeOK
<1>10. patch.fields \in AllFields
  BY DEF AllFields
<1> QED
  BY <1>5, <1>6, <1>7, <1>8, <1>9, <1>10 DEF row

-----------------------------------------------------------------------------
\* Types.

\* The kinds of requests.
LEMMA RequestKinds ==
  ASSUME NEW q, IsRequest(q)
  PROVE  /\ q.pc \in {"idle", "delete", "insert", "fields", "settle"}
         /\ q.pc = "idle" => q = Idle /\ q.exp = 0
         /\ q.pc # "idle" => q # Idle /\ q.exp \in Ids
         /\ q.pc \in {"delete", "insert"} =>
              \E U \in SUBSET Users :
                q \in [pc : {"delete", "insert", "fields"}, exp : Ids, fields : AllFields,
                       shares : [U -> Int], fits : BOOLEAN]
         /\ q.pc = "fields" => q.fields \in AllFields
         /\ q.pc = "settle" => q \in [pc : {"settle"}, exp : Ids, split : Split]
BY DEF IsRequest, Idle

\* A request that goes on keeps its shape while there are as many expenses.
LEMMA RequestsType ==
  ASSUME TypeOK, made' = made, NEW r \in Requests, NEW q, IsRequest(q),
         req' = [req EXCEPT ![r] = q]
  PROVE  DOMAIN req' = Requests /\ \A p \in Requests : IsRequest(req[p])'
<1>1. Ids' = Ids
  BY DEF Ids
<1>2. \A p \in Requests : req'[p] = IF p = r THEN q ELSE req[p]
  BY DEF TypeOK
<1>3. \A p \in Requests : IsRequest(req'[p])
  BY <1>2 DEF TypeOK
<1> QED
  BY <1>1, <1>3 DEF TypeOK, IsRequest

LEMMA IdleType == IsRequest(Idle)
BY DEF IsRequest

LEMMA InsertedType ==
  ASSUME TypeOK, NEW e \in Nat, NEW U \in SUBSET Users, NEW shares \in [U -> Int]
  PROVE  Inserted(e, shares) \subseteq Split
<1>1. batches + 1 \in Nat
  BY BoundsAssumption DEF TypeOK
<1>2. \A u \in U : [exp |-> e, user |-> u, amount |-> shares[u], settled |-> FALSE,
                    batch |-> batches + 1] \in Split
  BY <1>1 DEF Split
<1>3. DOMAIN shares = U
  OBVIOUS
<1> QED
  BY <1>2, <1>3 DEF Inserted

\* Reading an expense changes no table.
LEMMA WorksType ==
  ASSUME TypeOK, NEW r \in Requests, NEW e \in Ids, NEW q, IsRequest(q), Works(r, e, q)
  PROVE  TypeOK'
<1>1. UNCHANGED <<tables, doubled>> /\ req' = [req EXCEPT ![r] = q] /\ torn' \subseteq torn \cup {e}
  BY DEF Works
<1>2. DOMAIN req' = Requests /\ \A p \in Requests : IsRequest(req[p])'
  BY <1>1, RequestsType DEF tables
<1> QED
  BY <1>1, <1>2 DEF TypeOK, tables, Ids

LEMMA TypeStep ==
  ASSUME TypeOK, [Next]_vars
  PROVE  TypeOK'
<1>0. made \in Nat /\ batches \in Nat /\ MaxExpenses \in Nat /\ MaxBatches \in Nat
  BY BoundsAssumption DEF TypeOK
<1>1. ASSUME NEW f \in Forms, Create(f) PROVE TypeOK'
  <2> DEFINE shares == Shares(f.amount, f.list, f.method)
             new == [id |-> made + 1, payer |-> f.payer, amount |-> f.amount, method |-> f.method]
  <2>1. f \in [payer : Users, amount : Nat, method : Methods, list : Lists \ {<<>>}]
    BY InputsAssumption
  <2>2. shares \in [Named(f.list) -> Int] /\ Named(f.list) \in SUBSET Users
    BY <2>1, ListsAreParts, SharesType, NamedUsers
  <2> HIDE DEF shares
  <2>3. /\ Inserted(made + 1, shares) \subseteq Split /\ IsFiniteSet(Inserted(made + 1, shares))
        /\ \A s \in Inserted(made + 1, shares) : s.exp = made + 1
    <3>1. made + 1 \in Nat /\ made + 1 \in Int
      BY <1>0
    <3>2. Inserted(made + 1, shares) \subseteq Split
      BY <2>2, <3>1, InsertedType
    <3> QED
      BY <2>2, <3>1, <3>2, InsertedWorth
  <2>4. /\ made' = made + 1 /\ batches' = batches + 1 /\ expenses' = expenses \cup {new}
        /\ splits' = splits \cup Inserted(made + 1, shares)
        /\ UNCHANGED <<req, torn, doubled>> /\ made < MaxExpenses /\ batches < MaxBatches
    BY <1>1 DEF Create, shares
  <2>5. new \in Expense
    BY <1>0, <2>1 DEF Expense
  <2>6. Ids \subseteq Ids' /\ made + 1 \in Ids'
    BY <1>0, <2>4 DEF Ids
  <2>7. IsFiniteSet(splits')
    BY <2>3, <2>4, FS_Union DEF TypeOK
  <2>8. \A r \in Requests : IsRequest(req[r])'
    <3> SUFFICES ASSUME NEW r \in Requests PROVE IsRequest(req[r])'
      OBVIOUS
    <3>1. IsRequest(req[r])
      BY DEF TypeOK
    <3>2. req'[r] = req[r]
      BY <2>4
    <3> QED
      BY <2>6, <3>1, <3>2 DEF IsRequest
  <2> HIDE DEF new
  <2>9. made' \in 0..MaxExpenses /\ batches' \in 0..MaxBatches
    BY <1>0, <2>4
  <2>10. expenses' \subseteq Expense /\ \A x \in expenses' : x.id \in Ids'
    <3>1. new.id = made + 1
      BY DEF new
    <3> QED
      BY <2>4, <2>5, <2>6, <3>1 DEF TypeOK
  <2>11. splits' \subseteq Split /\ \A s \in splits' : s.exp \in Ids'
    BY <2>3, <2>4, <2>6 DEF TypeOK
  <2>12. DOMAIN req' = Requests /\ torn' \cup doubled' \subseteq Ids'
    BY <2>4, <2>6 DEF TypeOK
  <2> QED
    BY <2>7, <2>8, <2>9, <2>10, <2>11, <2>12 DEF TypeOK
<1>2. ASSUME NEW e \in Ids, RemoveExpense(e) PROVE TypeOK'
  <2>1. /\ expenses' \subseteq expenses /\ splits' \in SUBSET splits
        /\ UNCHANGED <<made, batches, req, torn, doubled>>
    BY <1>2 DEF RemoveExpense
  <2>2. IsFiniteSet(splits')
    BY <2>1, FS_Subset DEF TypeOK
  <2> QED
    BY <2>1, <2>2 DEF TypeOK, IsRequest, Ids
<1>3. ASSUME NEW r \in Requests, NEW e \in Ids, NEW patch \in Patches,
             StartUpdate(r, e, patch) \/ StartFields(r, e, patch)
      PROVE  TypeOK'
  <2>1. CASE StartUpdate(r, e, patch)
    <3>1. Works(r, e, req'[r]) /\ IsRequest(req'[r])
      BY <2>1, StartedUpdate DEF IsRequest
    <3> QED
      BY <3>1, WorksType
  <2>2. CASE StartFields(r, e, patch)
    <3> DEFINE q == [pc |-> "fields", exp |-> e, fields |-> patch.fields]
    <3>1. Works(r, e, q)
      BY <2>2 DEF StartFields
    <3>2. IsRequest(q)
      BY DEF IsRequest, AllFields
    <3> HIDE DEF q
    <3> QED
      BY <3>1, <3>2, WorksType
  <2> QED
    BY <1>3, <2>1, <2>2
<1>4. ASSUME NEW r \in Requests, DeleteSplits(r) PROVE TypeOK'
  <2>1. IsRequest(req[r]) /\ req[r].pc = "delete"
    BY <1>4 DEF DeleteSplits, TypeOK
  <2>2. PICK U \in SUBSET Users :
          req[r] \in [pc : {"delete", "insert", "fields"}, exp : Ids, fields : AllFields,
                      shares : [U -> Int], fits : BOOLEAN]
    BY <2>1, RequestKinds
  <2>3. IsRequest([req[r] EXCEPT !.pc = "insert"])
    BY <2>2 DEF IsRequest
  <2>4. PICK q : IsRequest(q) /\ req' = [req EXCEPT ![r] = q]
    BY <1>4, <2>3, IdleType DEF DeleteSplits
  <2>5. /\ splits' \in SUBSET splits /\ UNCHANGED <<expenses, made, batches, doubled>>
        /\ torn' \subseteq torn \cup {req[r].exp} /\ req[r].exp \in Ids
    BY <1>4, <2>2 DEF DeleteSplits
  <2>6. IsFiniteSet(splits')
    BY <2>5, FS_Subset DEF TypeOK
  <2>7. DOMAIN req' = Requests /\ \A p \in Requests : IsRequest(req[p])'
    BY <2>4, <2>5, RequestsType
  <2> QED
    BY <2>5, <2>6, <2>7 DEF TypeOK, Ids
<1>5. ASSUME NEW r \in Requests, InsertSplits(r) PROVE TypeOK'
  <2>1. IsRequest(req[r]) /\ req[r].pc = "insert"
    BY <1>5 DEF InsertSplits, TypeOK
  <2>2. PICK U \in SUBSET Users :
          req[r] \in [pc : {"delete", "insert", "fields"}, exp : Ids, fields : AllFields,
                      shares : [U -> Int], fits : BOOLEAN]
    BY <2>1, RequestKinds
  <2>i. IsRequest([req[r] EXCEPT !.pc = "fields"])
    BY <2>2 DEF IsRequest
  <2>3. req[r].exp \in Ids /\ req[r].exp \in Nat /\ req[r].exp \in Int
    BY <2>2 DEF Ids
  <2> DEFINE new == Inserted(req[r].exp, req[r].shares)
  <2>4. new \subseteq Split /\ IsFiniteSet(new) /\ \A s \in new : s.exp \in Ids
    <3>1. req[r].shares \in [U -> Int]
      BY <2>2
    <3>2. new \subseteq Split
      BY <2>3, <3>1, InsertedType
    <3>3. IsFiniteSet(new) /\ \A s \in new : s.exp = req[r].exp
      BY <2>3, <3>1, InsertedWorth
    <3> HIDE DEF new
    <3> QED
      BY <2>3, <3>2, <3>3
  <2>5. PICK q : IsRequest(q) /\ req' = [req EXCEPT ![r] = q]
    BY <1>5, <2>i, IdleType DEF InsertSplits
  <2> HIDE DEF new
  <2>6. /\ splits' = splits \/ splits' = splits \cup new
        /\ batches' = batches \/ (batches < MaxBatches /\ batches' = batches + 1)
        /\ UNCHANGED <<expenses, made, torn>>
        /\ doubled' \subseteq doubled \cup {req[r].exp}
    BY <1>5 DEF InsertSplits, new
  <2>7. IsFiniteSet(splits') /\ splits' \subseteq Split /\ \A s \in splits' : s.exp \in Ids
    BY <2>4, <2>6, FS_Union DEF TypeOK
  <2>8. DOMAIN req' = Requests /\ \A p \in Requests : IsRequest(req[p])'
    BY <2>5, <2>6, RequestsType
  <2>9. batches' \in 0..MaxBatches
    BY <1>0, <2>6 DEF TypeOK
  <2> QED
    BY <2>3, <2>6, <2>7, <2>8, <2>9 DEF TypeOK, Ids
<1>6. ASSUME NEW r \in Requests, WriteFields(r) PROVE TypeOK'
  <2>1. req[r].fields \in AllFields
    BY <1>6, RequestKinds DEF WriteFields, TypeOK
  <2>2. /\ expenses' = {IF x.id = req[r].exp THEN Patched(x, req[r].fields) ELSE x : x \in expenses}
        /\ req' = [req EXCEPT ![r] = Idle]
        /\ UNCHANGED <<splits, made, batches, torn, doubled>>
    BY <1>6 DEF WriteFields
  <2>3. \A x \in expenses : Patched(x, req[r].fields) \in Expense /\ Patched(x, req[r].fields).id = x.id
    BY <2>1, PatchedType DEF TypeOK
  <2>4. expenses' \subseteq Expense /\ \A x \in expenses' : x.id \in Ids
    BY <2>2, <2>3 DEF TypeOK
  <2>5. DOMAIN req' = Requests /\ \A p \in Requests : IsRequest(req[p])'
    BY <2>2, IdleType, RequestsType
  <2> QED
    BY <2>2, <2>4, <2>5 DEF TypeOK, Ids
<1>7. ASSUME NEW r \in Requests, NEW s \in splits, StartSettle(r, s) PROVE TypeOK'
  <2> DEFINE q == [pc |-> "settle", exp |-> s.exp, split |-> s]
  <2>1. s.exp \in Ids /\ s \in Split
    BY DEF TypeOK
  <2>2. IsRequest(q)
    BY <2>1 DEF IsRequest
  <2>3. Works(r, s.exp, q)
    BY <1>7 DEF StartSettle
  <2> HIDE DEF q
  <2> QED
    BY <2>1, <2>2, <2>3, WorksType
<1>8. ASSUME NEW r \in Requests, SaveSettled(r) PROVE TypeOK'
  <2>1. req[r] \in [pc : {"settle"}, exp : Ids, split : Split] /\ req' = [req EXCEPT ![r] = Idle]
    BY <1>8, RequestKinds DEF SaveSettled, TypeOK
  <2> DEFINE s == [req[r].split EXCEPT !.settled = TRUE]
  <2>2. s \in Split /\ s.exp = req[r].split.exp
    BY <2>1 DEF Split
  <2>3. /\ splits' = splits \/ (Exists(s.exp) /\ splits' = (splits \ {req[r].split}) \cup {s})
        /\ UNCHANGED <<expenses, made, batches, torn, doubled>>
    BY <1>8 DEF SaveSettled
  <2> HIDE DEF s
  <2>4. Exists(s.exp) => s.exp \in Ids
    BY RowExists DEF TypeOK
  <2>5. IsFiniteSet((splits \ {req[r].split}) \cup {s})
    BY FS_RemoveElement, FS_AddElement DEF TypeOK
  <2>6. DOMAIN req' = Requests /\ \A p \in Requests : IsRequest(req[p])'
    BY <2>1, <2>3, IdleType, RequestsType
  <2>7. IsFiniteSet(splits') /\ splits' \subseteq Split /\ \A t \in splits' : t.exp \in Ids
    BY <2>2, <2>3, <2>4, <2>5 DEF TypeOK
  <2> QED
    BY <2>3, <2>6, <2>7 DEF TypeOK, Ids
<1>9. ASSUME NEW r \in Requests, RequestFails(r) PROVE TypeOK'
  <2>1. /\ req' = [req EXCEPT ![r] = Idle] /\ UNCHANGED <<expenses, splits, made, batches, doubled>>
        /\ torn' \subseteq torn \cup {req[r].exp} /\ req[r] # Idle
    BY <1>9 DEF RequestFails, tables
  <2>2. req[r].exp \in Ids
    <3>1. IsRequest(req[r])
      BY DEF TypeOK
    <3> QED
      BY <2>1, <3>1, RequestKinds
  <2>3. DOMAIN req' = Requests /\ \A p \in Requests : IsRequest(req[p])'
    BY <2>1, IdleType, RequestsType
  <2> QED
    BY <2>1, <2>2, <2>3 DEF TypeOK, Ids
<1>10. CASE UNCHANGED vars
  BY <1>10 DEF vars, tables, TypeOK, IsRequest, Ids
<1> QED
  BY <1>1, <1>2, <1>3, <1>4, <1>5, <1>6, <1>7, <1>8, <1>9, <1>10 DEF Next

-----------------------------------------------------------------------------
\* Requests about one expense.

LEMMA Kinds ==
  ASSUME TypeOK
  PROVE  \A r \in Requests : /\ req[r].pc = "idle" <=> req[r] = Idle
                             /\ req[r] # Idle => req[r].exp \in Ids
                             /\ req[r] = Idle => req[r].exp = 0
<1> SUFFICES ASSUME NEW r \in Requests
             PROVE  /\ req[r].pc = "idle" <=> req[r] = Idle
                    /\ req[r] # Idle => req[r].exp \in Ids
                    /\ req[r] = Idle => req[r].exp = 0
  OBVIOUS
<1>1. IsRequest(req[r])
  BY DEF TypeOK
<1>2. Idle.pc = "idle" /\ Idle.exp = 0
  BY DEF Idle
<1> QED
  BY <1>1, <1>2, RequestKinds

\* Who is not alone with an expense when it reads it leaves it torn.
LEMMA WorksAlone ==
  ASSUME TypeOK, NEW r \in Requests, NEW e \in Ids, NEW q, Works(r, e, q)
  PROVE  /\ req[r] = Idle /\ req'[r] = q /\ \A p \in Requests \ {r} : req'[p] = req[p]
         /\ UNCHANGED <<tables, doubled>> /\ torn \subseteq torn'
         /\ e \notin torn' => \A p \in Requests : req[p].exp # e
<1>1. /\ req[r] = Idle /\ req' = [req EXCEPT ![r] = q] /\ UNCHANGED <<tables, doubled>>
      /\ torn' = IF Others(r, e) = {} THEN torn ELSE torn \cup {e}
  BY DEF Works
<1>2. Others(r, e) = {} => \A p \in Requests \ {r} : req[p] # Idle => req[p].exp # e
  BY Kinds DEF Others
<1>3. e # 0 /\ \A p \in Requests : req[p] = Idle => req[p].exp = 0
  BY Kinds DEF Ids
<1> QED
  BY <1>1, <1>2, <1>3 DEF TypeOK

\* The other steps of a request: it goes on about the same expense, or ends.
LEMMA GoesOn ==
  ASSUME TypeOK, NEW r \in Requests,
         DeleteSplits(r) \/ InsertSplits(r) \/ WriteFields(r) \/ SaveSettled(r) \/ RequestFails(r)
  PROVE  /\ req[r] # Idle /\ \A p \in Requests \ {r} : req'[p] = req[p]
         /\ \/ req'[r] = Idle
            \/ req'[r].exp = req[r].exp /\ req'[r].pc \in {"insert", "fields"}
         /\ torn \subseteq torn' /\ made' = made
<1>1. IsRequest(req[r])
  BY DEF TypeOK
<1>2. CASE DeleteSplits(r)
  <2>1. req[r].pc = "delete"
    BY <1>2 DEF DeleteSplits
  <2>2. DOMAIN req[r] = {"pc", "exp", "fields", "shares", "fits"}
    BY <1>1, <2>1, RequestKinds
  <2> QED
    BY <1>2, <2>1, <2>2 DEF DeleteSplits, TypeOK, Idle
<1>3. CASE InsertSplits(r)
  <2>1. req[r].pc = "insert"
    BY <1>3 DEF InsertSplits
  <2>2. DOMAIN req[r] = {"pc", "exp", "fields", "shares", "fits"}
    BY <1>1, <2>1, RequestKinds
  <2> QED
    BY <1>3, <2>1, <2>2 DEF InsertSplits, TypeOK, Idle
<1>4. CASE WriteFields(r) \/ SaveSettled(r)
  BY <1>4 DEF WriteFields, SaveSettled, TypeOK, Idle
<1>5. CASE RequestFails(r)
  BY <1>5 DEF RequestFails, tables, TypeOK
<1> QED
  BY <1>2, <1>3, <1>4, <1>5

\* The rows of the expenses after WriteFields.
LEMMA WrittenRows ==
  ASSUME TypeOK, NEW r \in Requests, WriteFields(r)
  PROVE  \A y \in expenses' : \E x \in expenses :
           /\ y.id = x.id
           /\ y = IF x.id = req[r].exp THEN Patched(x, req[r].fields) ELSE x
<1>1. req[r].fields \in AllFields
  BY RequestKinds DEF WriteFields, TypeOK
<1>2. \A x \in expenses : Patched(x, req[r].fields).id = x.id
  BY <1>1, PatchedType DEF TypeOK
<1> QED
  BY <1>2 DEF WriteFields

LEMMA IdsStep ==
  ASSUME TypeOK, IdsInv, [Next]_vars
  PROVE  IdsInv'
<1>1. ASSUME NEW f \in Forms, Create(f) PROVE IdsInv'
  <2>1. /\ expenses' = expenses \cup {[id |-> made + 1, payer |-> f.payer, amount |-> f.amount,
                                      method |-> f.method]}
        /\ UNCHANGED <<req, torn>> /\ made \in Nat
    BY <1>1 DEF Create, TypeOK
  <2>2. \A x \in expenses : x.id # made + 1
    BY <2>1 DEF TypeOK, Ids
  <2>3. \A x, y \in expenses' : x.id = y.id => x = y
    BY <2>1, <2>2 DEF IdsInv
  <2> QED
    BY <2>1, <2>3 DEF IdsInv
<1>2. ASSUME NEW e \in Ids, RemoveExpense(e) PROVE IdsInv'
  BY <1>2 DEF RemoveExpense, IdsInv
<1>3. ASSUME NEW r \in Requests, NEW e \in Ids, NEW q, Works(r, e, q), q.exp = e,
             q.pc = "settle" => q.split.exp = e
      PROVE  IdsInv'
  <2>1. /\ req'[r] = q /\ \A p \in Requests \ {r} : req'[p] = req[p]
        /\ UNCHANGED expenses /\ torn \subseteq torn'
        /\ e \notin torn' => \A p \in Requests : req[p].exp # e
    BY <1>3, WorksAlone DEF tables
  <2> QED
    BY <1>3, <2>1 DEF IdsInv
<1>4. ASSUME NEW r \in Requests, NEW e \in Ids, NEW patch \in Patches,
             StartUpdate(r, e, patch) \/ StartFields(r, e, patch)
      PROVE  IdsInv'
  <2>1. CASE StartUpdate(r, e, patch)
    BY <1>3, <2>1, StartedUpdate
  <2>2. CASE StartFields(r, e, patch)
    BY <1>3, <2>2 DEF StartFields
  <2> QED
    BY <1>4, <2>1, <2>2
<1>5. ASSUME NEW r \in Requests, NEW s \in splits, StartSettle(r, s) PROVE IdsInv'
  <2>1. s.exp \in Ids
    BY DEF TypeOK
  <2> QED
    BY <1>3, <1>5, <2>1 DEF StartSettle
<1>6. ASSUME NEW r \in Requests,
             DeleteSplits(r) \/ InsertSplits(r) \/ WriteFields(r) \/ SaveSettled(r) \/ RequestFails(r)
      PROVE  IdsInv'
  <2>1. \A x, y \in expenses' : x.id = y.id => x = y
    <3>1. CASE WriteFields(r)
      BY <3>1, WrittenRows DEF IdsInv
    <3>2. CASE expenses' = expenses
      BY <3>2 DEF IdsInv
    <3> QED
      BY <1>6, <3>1, <3>2 DEF DeleteSplits, InsertSplits, SaveSettled, RequestFails, tables
  <2>2. /\ req[r] # Idle /\ \A p \in Requests \ {r} : req'[p] = req[p]
        /\ \/ req'[r] = Idle
           \/ req'[r].exp = req[r].exp /\ req'[r].pc \in {"insert", "fields"}
        /\ torn \subseteq torn'
    BY <1>6, GoesOn
  <2>3. Idle.pc = "idle"
    BY DEF Idle
  <2> QED
    BY <2>1, <2>2, <2>3 DEF IdsInv
<1>7. CASE UNCHANGED vars
  BY <1>7 DEF vars, tables, IdsInv
<1> QED
  BY <1>1, <1>2, <1>4, <1>5, <1>6, <1>7 DEF Next

-----------------------------------------------------------------------------
\* Nobody owes a share twice.

\* While no unsettled split is added and no request comes to insert.
LEMMA OwedFrame ==
  ASSUME OwedInv, \A s \in splits' : ~s.settled => s \in splits,
         \A r \in Requests : req'[r].pc = "insert" =>
           \/ req[r].pc = "insert" /\ req'[r].exp = req[r].exp
           \/ SplitsOf(req[r].exp)' = {} /\ req'[r].exp = req[r].exp,
         doubled \subseteq doubled'
  PROVE  OwedInv'
BY DEF OwedInv, OwedOnce, SplitsOf

LEMMA OwedStep ==
  ASSUME TypeOK, OwedInv, [Next]_vars
  PROVE  OwedInv'
<1>1. ASSUME NEW f \in Forms, Create(f) PROVE OwedInv'
  <2> DEFINE shares == Shares(f.amount, f.list, f.method)
             new == Inserted(made + 1, shares)
  <2>1. f \in [payer : Users, amount : Nat, method : Methods, list : Lists \ {<<>>}]
    BY InputsAssumption
  <2>2. shares \in [Named(f.list) -> Int] /\ Named(f.list) \in SUBSET Users
    BY <2>1, ListsAreParts, SharesType, NamedUsers
  <2>3. splits' = splits \cup new /\ UNCHANGED <<req, doubled>> /\ made + 1 \in Int
    BY <1>1 DEF Create, TypeOK
  <2> HIDE DEF shares
  <2>4. /\ \A s \in new : s.exp = made + 1
        /\ \A s, t \in new : s.user = t.user => s = t
    BY <2>2, <2>3, InsertedWorth
  <2> HIDE DEF new
  <2>5. \A s \in splits : s.exp # made + 1
    BY DEF TypeOK, Ids
  <2>6. \A r \in Requests : req[r].pc = "insert" => req[r].exp # made + 1
    <3>1. Idle.pc # "insert" /\ made + 1 \notin Ids
      BY DEF Idle, Ids, TypeOK
    <3> QED
      BY <3>1, Kinds
  <2>7. OwedOnce'
    BY <2>3, <2>4, <2>5 DEF OwedInv, OwedOnce
  <2> QED
    BY <2>3, <2>4, <2>6, <2>7 DEF OwedInv, SplitsOf
<1>2. ASSUME NEW e \in Ids, RemoveExpense(e) PROVE OwedInv'
  BY <1>2, OwedFrame DEF RemoveExpense
<1>3. ASSUME NEW r \in Requests, NEW e \in Ids, NEW q, Works(r, e, q), q.pc # "insert"
      PROVE  OwedInv'
  <2>1. /\ req'[r] = q /\ \A p \in Requests \ {r} : req'[p] = req[p]
        /\ UNCHANGED <<splits, doubled>>
    BY <1>3, WorksAlone DEF tables
  <2> QED
    BY <1>3, <2>1, OwedFrame
<1>4. ASSUME NEW r \in Requests, NEW e \in Ids, NEW patch \in Patches,
             StartUpdate(r, e, patch) \/ StartFields(r, e, patch)
      PROVE  OwedInv'
  <2>1. CASE StartUpdate(r, e, patch)
    BY <1>3, <2>1, StartedUpdate
  <2>2. CASE StartFields(r, e, patch)
    BY <1>3, <2>2 DEF StartFields
  <2> QED
    BY <1>4, <2>1, <2>2
<1>5. ASSUME NEW r \in Requests, NEW s \in splits, StartSettle(r, s) PROVE OwedInv'
  <2>1. s.exp \in Ids
    BY DEF TypeOK
  <2> QED
    BY <1>3, <1>5, <2>1 DEF StartSettle
<1>6. ASSUME NEW r \in Requests, DeleteSplits(r) PROVE OwedInv'
  <2>1. /\ splits' = {s \in splits : s.exp # req[r].exp} /\ doubled' = doubled
    BY <1>6 DEF DeleteSplits
  <2>2. SplitsOf(req[r].exp)' = {s \in splits' : s.exp = req'[r].exp}
    BY DEF SplitsOf
  <2>3. {s \in splits' : s.exp = req[r].exp} = {}
    BY <2>1
  <2>4. /\ \A p \in Requests \ {r} : req'[p] = req[p]
        /\ req'[r] = Idle \/ req'[r].exp = req[r].exp
    BY <1>6, GoesOn
  <2>5. Idle.pc # "insert"
    BY DEF Idle
  <2> QED
    BY <2>1, <2>3, <2>4, <2>5 DEF OwedInv, OwedOnce, SplitsOf
<1>7. ASSUME NEW r \in Requests, InsertSplits(r) PROVE OwedInv'
  <2>1. /\ \A p \in Requests \ {r} : req'[p] = req[p]
        /\ req'[r].pc # "insert"
    <3>1. /\ \A p \in Requests \ {r} : req'[p] = req[p]
          /\ req'[r] = Idle \/ req' = [req EXCEPT ![r].pc = "fields"]
      BY <1>7, GoesOn DEF InsertSplits, TypeOK
    <3>2. req[r].pc = "insert" /\ IsRequest(req[r])
      BY <1>7 DEF InsertSplits, TypeOK
    <3>3. DOMAIN req[r] = {"pc", "exp", "fields", "shares", "fits"}
      BY <3>2, RequestKinds
    <3> QED
      BY <3>1, <3>3 DEF Idle, TypeOK
  <2>2. CASE UNCHANGED <<splits, doubled>>
    BY <2>1, <2>2, OwedFrame
  <2>3. ASSUME splits' = splits \cup Inserted(req[r].exp, req[r].shares),
               doubled' = IF \E q \in Others(r, req[r].exp) : req[q].pc = "insert"
                          THEN doubled \cup {req[r].exp} ELSE doubled
        PROVE  OwedInv'
    <3> DEFINE e == req[r].exp
               new == Inserted(e, req[r].shares)
    <3>1. req[r].pc = "insert" /\ IsRequest(req[r])
      BY <1>7 DEF InsertSplits, TypeOK
    <3>2. PICK U \in SUBSET Users :
            req[r] \in [pc : {"delete", "insert", "fields"}, exp : Ids, fields : AllFields,
                        shares : [U -> Int], fits : BOOLEAN]
      BY <3>1, RequestKinds
    <3>3. e \in Int /\ req[r].shares \in [U -> Int]
      BY <3>2 DEF Ids
    <3>4. /\ \A s \in new : s.exp = e
          /\ \A s, t \in new : s.user = t.user => s = t
      BY <3>3, InsertedWorth
    <3>5. splits' = splits \cup new /\ doubled \subseteq doubled'
      BY <2>3
    <3>6. e \notin doubled => \A s \in SplitsOf(e) : s.settled
      BY <3>1 DEF OwedInv
    <3>7. \A p \in Requests \ {r} : req[p].pc = "insert" /\ req[p].exp = e => e \in doubled'
      BY <2>3 DEF Others
    <3> HIDE DEF new, e
    <3>8. OwedOnce'
      BY <3>4, <3>5, <3>6 DEF OwedInv, OwedOnce, SplitsOf
    <3>9. ASSUME NEW p \in Requests, req'[p].pc = "insert", req'[p].exp \notin doubled'
          PROVE  \A s \in {t \in splits' : t.exp = req'[p].exp} : s.settled
      <4>1. p # r /\ req'[p] = req[p]
        BY <2>1, <3>9
      <4>2. req[p].exp # e /\ req[p].exp \notin doubled
        BY <3>5, <3>7, <3>9, <4>1
      <4> QED
        BY <3>4, <3>5, <3>9, <4>1, <4>2 DEF OwedInv, SplitsOf
    <3> QED
      BY <3>8, <3>9 DEF OwedInv, SplitsOf
  <2> QED
    BY <1>7, <2>2, <2>3 DEF InsertSplits
<1>8. ASSUME NEW r \in Requests, WriteFields(r) \/ SaveSettled(r) \/ RequestFails(r) PROVE OwedInv'
  <2>1. /\ \A p \in Requests : req'[p] = IF p = r THEN Idle ELSE req[p]
        /\ doubled' = doubled
    BY <1>8 DEF WriteFields, SaveSettled, RequestFails, TypeOK
  <2>2. \A s \in splits' : ~s.settled => s \in splits
    <3>1. CASE WriteFields(r)
      BY <3>1 DEF WriteFields
    <3>2. CASE SaveSettled(r)
      <4>1. req[r] \in [pc : {"settle"}, exp : Ids, split : Split]
        BY <3>2, RequestKinds DEF SaveSettled, TypeOK
      <4>2. [req[r].split EXCEPT !.settled = TRUE].settled
        BY <4>1 DEF Split
      <4> QED
        BY <3>2, <4>2 DEF SaveSettled
    <3>3. CASE RequestFails(r)
      BY <3>3 DEF RequestFails, tables
    <3> QED
      BY <1>8, <3>1, <3>2, <3>3
  <2>3. Idle.pc # "insert"
    BY DEF Idle
  <2> QED
    BY <2>1, <2>2, <2>3, OwedFrame
<1>9. CASE UNCHANGED vars
  BY <1>9 DEF vars, tables, OwedInv, OwedOnce, SplitsOf
<1> QED
  BY <1>1, <1>2, <1>4, <1>5, <1>6, <1>7, <1>8, <1>9 DEF Next

-----------------------------------------------------------------------------
\* The shares add up.

\* What nobody touches stays as it is.
LEMMA SharedFrame ==
  ASSUME NEW x, Shared(x), SplitsOf(x.id)' = SplitsOf(x.id),
         \A r \in Requests : req[r].exp = x.id \/ req'[r].exp = x.id => req'[r] = req[r]
  PROVE  Shared(x)'
BY DEF Shared, Working

\* An expense that nobody works on any more.
LEMMA Resting ==
  ASSUME NEW x, NEW S, {s \in splits' : s.exp = x.id} = S, Whole(S), Even(x, Worth(S)),
         \A r \in Requests : req'[r].exp # x.id
  PROVE  Shared(x)'
<1>1. SplitsOf(x.id)' = S
  BY DEF SplitsOf
<1> QED
  BY <1>1 DEF Shared, Working

LEMMA SharedCreate ==
  ASSUME TypeOK, ShareInv, NEW f \in Forms, Create(f)
  PROVE  ShareInv'
<1> DEFINE shares == Shares(f.amount, f.list, f.method)
           new == [id |-> made + 1, payer |-> f.payer, amount |-> f.amount, method |-> f.method]
           rows == Inserted(made + 1, shares)
<1>1. /\ f \in [payer : Users, amount : Nat, method : Methods, list : Lists \ {<<>>}]
      /\ made \in Nat
  BY InputsAssumption DEF TypeOK
<1>2. f.list \in Parts /\ f.list # <<>> /\ f.amount \in Int /\ f.method \in Methods
  BY <1>1, ListsAreParts
<1>3. /\ Fits(f.amount, f.list, f.method) /\ expenses' = expenses \cup {new}
      /\ splits' = splits \cup rows /\ UNCHANGED <<req, torn>>
  BY DEF Create
<1>4. /\ shares \in [Named(f.list) -> Int] /\ Named(f.list) \in SUBSET Users /\ Named(f.list) # {}
      /\ Abs(Total(shares) - f.amount) <= 1
  BY <1>2, <1>3, SharesType, NamedUsers, SharesFit
<1> HIDE DEF shares
<1>5. /\ \A s \in rows : s.exp = made + 1
      /\ \A s, t \in rows : s.user = t.user => s = t
      /\ rows # {} /\ Worth(rows) = Total(shares)
  <2>1. made + 1 \in Int
    BY <1>1
  <2> QED
    BY <1>4, <2>1, InsertedWorth
<1> HIDE DEF rows
<1>6. \A s \in splits : s.exp # made + 1
  BY <1>1 DEF TypeOK, Ids
<1>7. {s \in splits' : s.exp = made + 1} = rows
  BY <1>3, <1>5, <1>6
<1>8. new.id = made + 1 /\ new.amount = f.amount
  OBVIOUS
<1> HIDE DEF new
<1>9. ASSUME NEW x \in expenses, x.id \notin torn PROVE Shared(x)'
  <2>1. x.id # made + 1
    BY <1>1 DEF TypeOK, Ids
  <2>2. {s \in splits' : s.exp = x.id} = {s \in splits : s.exp = x.id}
    BY <1>3, <1>5, <2>1
  <2>3. Shared(x)
    BY <1>9 DEF ShareInv
  <2> QED
    BY <1>3, <2>2, <2>3, SharedFrame DEF SplitsOf
<1>10. ASSUME NEW x, x = new PROVE Shared(x)'
  <2>1. \A r \in Requests : req'[r].exp # x.id
    <3>1. made + 1 \notin Ids /\ made + 1 # 0
      BY <1>1 DEF Ids
    <3> QED
      BY <1>3, <1>8, <1>10, <3>1, Kinds
  <2>2. Whole(rows) /\ Even(x, Worth(rows))
    BY <1>4, <1>5, <1>8, <1>10 DEF Whole, Even
  <2>3. PICK R : R = rows
    OBVIOUS
  <2>4. {s \in splits' : s.exp = x.id} = R /\ Whole(R) /\ Even(x, Worth(R))
    BY <1>7, <1>8, <1>10, <2>2, <2>3
  <2> QED
    BY <2>1, <2>4, Resting
<1> QED
  BY <1>3, <1>9, <1>10 DEF ShareInv

LEMMA SharedRemove ==
  ASSUME TypeOK, ShareInv, NEW e \in Ids, RemoveExpense(e)
  PROVE  ShareInv'
<1>1. /\ expenses' = {x \in expenses : x.id # e} /\ splits' = {s \in splits : s.exp # e}
      /\ UNCHANGED <<req, torn>>
  BY DEF RemoveExpense
<1>2. ASSUME NEW x \in expenses, x.id # e, x.id \notin torn PROVE Shared(x)'
  <2>1. {s \in splits' : s.exp = x.id} = {s \in splits : s.exp = x.id}
    BY <1>1, <1>2
  <2> QED
    BY <1>1, <1>2, <2>1, SharedFrame DEF ShareInv, SplitsOf
<1> QED
  BY <1>1, <1>2 DEF ShareInv

\* A request that has just read an expense leaves all others alone.
LEMMA SharedWorks ==
  ASSUME TypeOK, ShareInv, NEW r \in Requests, NEW e \in Ids, NEW q, Works(r, e, q), q.exp = e,
         \A x \in expenses : x.id = e /\ e \notin torn' => Shared(x)'
  PROVE  ShareInv'
<1>1. /\ req[r] = Idle /\ req'[r] = q /\ \A p \in Requests \ {r} : req'[p] = req[p]
      /\ UNCHANGED <<expenses, splits>> /\ torn \subseteq torn'
  BY WorksAlone DEF tables
<1>2. Idle.exp = 0 /\ \A x \in expenses : x.id # 0
  BY DEF Idle, TypeOK, Ids
<1>3. ASSUME NEW x \in expenses, x.id # e, x.id \notin torn PROVE Shared(x)'
  <2>1. Shared(x) /\ SplitsOf(x.id)' = SplitsOf(x.id)
    BY <1>1, <1>3 DEF ShareInv, SplitsOf
  <2>2. \A p \in Requests : req[p].exp = x.id \/ req'[p].exp = x.id => req'[p] = req[p]
    BY <1>1, <1>2, <1>3
  <2> QED
    BY <2>1, <2>2, SharedFrame
<1> QED
  BY <1>1, <1>3 DEF ShareInv

\* The request that reads an expense alone finds its splits whole.
LEMMA Alone ==
  ASSUME TypeOK, ShareInv, NEW r \in Requests, NEW e \in Ids, NEW q, Works(r, e, q),
         NEW x \in expenses, x.id = e, e \notin torn'
  PROVE  /\ Whole(SplitsOf(e)) /\ Even(x, Worth(SplitsOf(e))) /\ SplitsOf(e)' = SplitsOf(e)
         /\ req'[r] = q /\ \A p \in Requests \ {r} : req'[p].exp # e
<1>1. /\ req'[r] = q /\ \A p \in Requests \ {r} : req'[p] = req[p]
      /\ UNCHANGED <<expenses, splits>> /\ torn \subseteq torn'
      /\ \A p \in Requests : req[p].exp # e
  BY WorksAlone DEF tables
<1>2. Shared(x)
  BY <1>1 DEF ShareInv
<1> QED
  BY <1>1, <1>2 DEF Shared, Working, SplitsOf

LEMMA SharedStartUpdate ==
  ASSUME TypeOK, IdsInv, ShareInv, NEW r \in Requests, NEW e \in Ids, NEW patch \in Patches,
         StartUpdate(r, e, patch)
  PROVE  ShareInv'
<1>1. /\ Works(r, e, req'[r]) /\ req'[r].pc = "delete" /\ req'[r].exp = e
      /\ req'[r].fields = patch.fields
      /\ SplitsOf(e) # {} /\ req'[r].fits =>
           /\ DOMAIN req'[r].shares # {}
           /\ Even(Patched(Row(e), patch.fields), Total(req'[r].shares))
  BY StartedUpdate
<1>2. ASSUME NEW x \in expenses, x.id = e, e \notin torn' PROVE Shared(x)'
  <2>1. /\ Whole(SplitsOf(e)) /\ Even(x, Worth(SplitsOf(e))) /\ SplitsOf(e)' = SplitsOf(e)
        /\ \A p \in Requests \ {r} : req'[p].exp # e
    BY <1>1, <1>2, Alone
  <2>2. Row(e) = x
    BY <1>2, RowExists DEF IdsInv, Exists
  <2>3. SplitsOf(e) # {}
    BY <2>1 DEF Whole
  <2> QED
    BY <1>1, <1>2, <2>1, <2>2, <2>3 DEF Shared, Working
<1> QED
  BY <1>1, <1>2, SharedWorks

LEMMA SharedStartFields ==
  ASSUME TypeOK, ShareInv, NEW r \in Requests, NEW e \in Ids, NEW patch \in Patches,
         StartFields(r, e, patch)
  PROVE  ShareInv'
<1> DEFINE q == [pc |-> "fields", exp |-> e, fields |-> patch.fields]
<1>1. Works(r, e, q) /\ "amount" \notin DOMAIN patch.fields
  BY DEF StartFields
<1>2. q.pc = "fields" /\ q.exp = e /\ q.fields = patch.fields /\ patch.fields \in AllFields
  BY DEF AllFields
<1> HIDE DEF q
<1>3. ASSUME NEW x \in expenses, x.id = e, e \notin torn' PROVE Shared(x)'
  <2>1. /\ Whole(SplitsOf(e)) /\ Even(x, Worth(SplitsOf(e))) /\ SplitsOf(e)' = SplitsOf(e)
        /\ req'[r] = q /\ \A p \in Requests \ {r} : req'[p].exp # e
    BY <1>1, <1>3, Alone
  <2>2. Patched(x, q.fields).amount = x.amount
    BY <1>1, <1>2, PatchedType DEF TypeOK
  <2>3. Even(Patched(x, q.fields), Worth(SplitsOf(e)))
    BY <2>1, <2>2 DEF Even
  <2> QED
    BY <1>2, <1>3, <2>1, <2>3 DEF Shared, Working
<1> QED
  BY <1>1, <1>2, <1>3, SharedWorks

LEMMA SharedStartSettle ==
  ASSUME TypeOK, ShareInv, NEW r \in Requests, NEW s \in splits, StartSettle(r, s)
  PROVE  ShareInv'
<1> DEFINE e == s.exp
           q == [pc |-> "settle", exp |-> e, split |-> s]
<1>1. Works(r, e, q) /\ e \in Ids
  BY DEF StartSettle, TypeOK
<1>2. q.pc = "settle" /\ q.exp = e /\ q.split = s /\ s \in SplitsOf(e)
  BY DEF SplitsOf
<1> HIDE DEF q, e
<1>3. ASSUME NEW x \in expenses, x.id = e, e \notin torn' PROVE Shared(x)'
  <2>1. /\ Whole(SplitsOf(e)) /\ Even(x, Worth(SplitsOf(e))) /\ SplitsOf(e)' = SplitsOf(e)
        /\ req'[r] = q /\ \A p \in Requests \ {r} : req'[p].exp # e
    BY <1>1, <1>3, Alone
  <2> QED
    BY <1>2, <1>3, <2>1 DEF Shared, Working
<1> QED
  BY <1>1, <1>2, <1>3, SharedWorks

\* A request that goes on touches nothing but its expense.
LEMMA SharedElsewhere ==
  ASSUME TypeOK, ShareInv, NEW r \in Requests,
         DeleteSplits(r) \/ InsertSplits(r) \/ WriteFields(r) \/ SaveSettled(r) \/ RequestFails(r),
         \A s \in (splits \ splits') \cup (splits' \ splits) : s.exp = req[r].exp,
         NEW x \in expenses, x.id # req[r].exp, x.id \notin torn'
  PROVE  Shared(x)'
<1>1. /\ \A p \in Requests \ {r} : req'[p] = req[p]
      /\ req'[r] = Idle \/ req'[r].exp = req[r].exp
      /\ torn \subseteq torn'
  BY GoesOn
<1>2. Shared(x) /\ SplitsOf(x.id)' = SplitsOf(x.id)
  BY <1>1 DEF ShareInv, SplitsOf
<1>3. Idle.exp = 0 /\ x.id # 0
  BY DEF Idle, TypeOK, Ids
<1> QED
  BY <1>1, <1>2, <1>3, SharedFrame

\* Nobody else works on the expense of a request, unless it is torn.
LEMMA OthersElsewhere ==
  ASSUME TypeOK, IdsInv, NEW r \in Requests, req[r] # Idle, req[r].exp \notin torn,
         NEW p \in Requests, p # r
  PROVE  req[p].exp # req[r].exp
<1>1. req[r].exp \in Ids /\ (req[p] = Idle => req[p].exp = 0) /\ 0 \notin Ids
  BY Kinds DEF Ids
<1> QED
  BY <1>1 DEF IdsInv

LEMMA SharedDelete ==
  ASSUME TypeOK, IdsInv, ShareInv, NEW r \in Requests, DeleteSplits(r)
  PROVE  ShareInv'
<1>1. PICK e : e = req[r].exp
  OBVIOUS
<1>2. /\ req[r].pc = "delete" /\ expenses' = expenses /\ splits' = {s \in splits : s.exp # e}
      /\ IF req[r].fits
         THEN req' = [req EXCEPT ![r].pc = "insert"] /\ UNCHANGED torn
         ELSE req' = [req EXCEPT ![r] = Idle] /\ torn' = torn \cup {e}
  BY <1>1 DEF DeleteSplits
<1>3. IsRequest(req[r]) /\ req[r] # Idle
  BY <1>2, Kinds DEF TypeOK, Idle
<1>4. PICK U \in SUBSET Users :
        req[r] \in [pc : {"delete", "insert", "fields"}, exp : Ids, fields : AllFields,
                    shares : [U -> Int], fits : BOOLEAN]
  BY <1>2, <1>3, RequestKinds
<1>5. ASSUME NEW x \in expenses, x.id = e, e \notin torn' PROVE Shared(x)'
  <2>1. req[r].fits /\ e \notin torn
    BY <1>2, <1>5
  <2>2. /\ req'[r].pc = "insert" /\ req'[r].exp = e /\ req'[r].fits = req[r].fits
        /\ req'[r].shares = req[r].shares /\ req'[r].fields = req[r].fields
        /\ \A p \in Requests \ {r} : req'[p] = req[p]
    <3>1. req' = [req EXCEPT ![r].pc = "insert"]
      BY <1>2, <2>1
    <3> QED
      BY <1>1, <1>4, <3>1 DEF TypeOK
  <2>3. \A p \in Requests \ {r} : req'[p].exp # e
    BY <1>1, <1>3, <2>1, <2>2, OthersElsewhere
  <2>4. SplitsOf(x.id)' = {}
    BY <1>2, <1>5 DEF SplitsOf
  <2>5. DOMAIN req[r].shares # {} /\ Even(Patched(x, req[r].fields), Total(req[r].shares))
    BY <1>1, <1>2, <1>5, <2>1 DEF ShareInv, Shared
  <2>6. Working(x.id, {"insert", "fields"})'
    BY <1>5, <2>2 DEF Working
  <2>7. DOMAIN req'[r].shares # {} /\ Even(Patched(x, req'[r].fields), Total(req'[r].shares))
    BY <2>2, <2>5
  <2> QED
    BY <1>5, <2>1, <2>2, <2>3, <2>4, <2>6, <2>7 DEF Shared
<1>6. \A s \in (splits \ splits') \cup (splits' \ splits) : s.exp = req[r].exp
  BY <1>1, <1>2
<1> QED
  BY <1>1, <1>2, <1>5, <1>6, SharedElsewhere DEF ShareInv

LEMMA SharedInsert ==
  ASSUME TypeOK, IdsInv, ShareInv, NEW r \in Requests, InsertSplits(r)
  PROVE  ShareInv'
<1>1. PICK e, shares : e = req[r].exp /\ shares = req[r].shares
  OBVIOUS
<1>2. req[r].pc = "insert" /\ UNCHANGED <<expenses, made, torn>>
  BY DEF InsertSplits
<1>3. PICK R : R = Inserted(e, shares)
  OBVIOUS
<1>4. IsRequest(req[r]) /\ req[r] # Idle /\ e \in Ids /\ made \in Nat
  BY <1>1, <1>2, Kinds DEF TypeOK, Idle
<1>5. PICK U \in SUBSET Users :
        req[r] \in [pc : {"delete", "insert", "fields"}, exp : Ids, fields : AllFields,
                    shares : [U -> Int], fits : BOOLEAN]
  BY <1>2, <1>4, RequestKinds
<1>6. /\ Worth(R) = Total(shares) /\ \A s \in R : s.exp = e
      /\ U # {} => Whole(R) /\ DOMAIN shares = U
  <2>1. e \in Int /\ shares \in [U -> Int]
    BY <1>1, <1>4, <1>5 DEF Ids
  <2> QED
    BY <1>3, <2>1, InsertedWorth DEF Whole
<1>7. \/ ~Exists(e) /\ req' = [req EXCEPT ![r] = Idle] /\ UNCHANGED splits
      \/ Exists(e) /\ splits' = splits \cup R /\ req' = [req EXCEPT ![r].pc = "fields"]
  BY <1>1, <1>3 DEF InsertSplits
<1>8. ASSUME NEW x \in expenses, x.id = e, e \notin torn PROVE Shared(x)'
  <2>1. /\ splits' = splits \cup R /\ req' = [req EXCEPT ![r].pc = "fields"]
    BY <1>7, <1>8 DEF Exists
  <2>2. /\ req'[r].pc = "fields" /\ req'[r].exp = e /\ req'[r].fields = req[r].fields
        /\ \A p \in Requests \ {r} : req'[p] = req[p]
    BY <1>1, <1>5, <2>1 DEF TypeOK
  <2>3. \A p \in Requests \ {r} : req'[p].exp # e
    BY <1>1, <1>4, <1>8, <2>2, OthersElsewhere
  <2>4. /\ SplitsOf(x.id) = {} /\ DOMAIN shares # {}
        /\ Even(Patched(x, req[r].fields), Total(shares))
    BY <1>1, <1>2, <1>8 DEF ShareInv, Shared
  <2>5. SplitsOf(x.id)' = R
    BY <1>6, <1>8, <2>1, <2>4 DEF SplitsOf
  <2>6. U # {}
    BY <1>1, <1>5, <2>4
  <2>7. Whole(R) /\ Even(Patched(x, req'[r].fields), Worth(R))
    BY <1>6, <2>2, <2>4, <2>6
  <2>8. Working(x.id, {"insert", "fields"})'
    BY <1>8, <2>2 DEF Working
  <2> QED
    BY <1>8, <2>2, <2>3, <2>5, <2>7, <2>8 DEF Shared
<1>9. \A s \in (splits \ splits') \cup (splits' \ splits) : s.exp = req[r].exp
  BY <1>1, <1>6, <1>7
<1> QED
  BY <1>1, <1>2, <1>8, <1>9, SharedElsewhere DEF ShareInv

LEMMA SharedWrite ==
  ASSUME TypeOK, IdsInv, ShareInv, NEW r \in Requests, WriteFields(r)
  PROVE  ShareInv'
<1>1. PICK e : e = req[r].exp
  OBVIOUS
<1>2. /\ req[r].pc = "fields" /\ req' = [req EXCEPT ![r] = Idle] /\ UNCHANGED <<splits, torn>>
  BY DEF WriteFields
<1>3. req[r] # Idle /\ e \in Ids
  BY <1>1, <1>2, Kinds DEF TypeOK, Idle
<1>4. ASSUME NEW y \in expenses', y.id \notin torn' PROVE Shared(y)'
  <2>1. PICK x \in expenses : /\ y.id = x.id
                              /\ y = IF x.id = e THEN Patched(x, req[r].fields) ELSE x
    BY <1>1, <1>4, WrittenRows
  <2>2. CASE x.id # e
    <3>1. \A s \in (splits \ splits') \cup (splits' \ splits) : s.exp = req[r].exp
      BY <1>2
    <3> QED
      BY <1>1, <1>4, <2>1, <2>2, <3>1, SharedElsewhere
  <2>3. CASE x.id = e
    <3>1. PICK S : S = SplitsOf(e)
      OBVIOUS
    <3>2. Whole(S) /\ Even(y, Worth(S))
      BY <1>1, <1>2, <1>4, <2>1, <2>3, <3>1 DEF ShareInv, Shared
    <3>3. \A p \in Requests : req'[p].exp # e
      <4>1. \A p \in Requests \ {r} : req[p].exp # e
        BY <1>1, <1>2, <1>3, <1>4, <2>1, <2>3, OthersElsewhere
      <4>2. Idle.exp # e
        BY <1>3 DEF Idle, Ids
      <4> QED
        BY <1>2, <4>1, <4>2 DEF TypeOK
    <3>4. {s \in splits' : s.exp = y.id} = S
      BY <1>2, <2>1, <2>3, <3>1 DEF SplitsOf
    <3> QED
      BY <2>1, <2>3, <3>2, <3>3, <3>4, Resting
  <2> QED
    BY <2>2, <2>3
<1> QED
  BY <1>4 DEF ShareInv

\* A split that is settled keeps the splits whole and their worth.
LEMMA SettledWorth ==
  ASSUME NEW S, IsFiniteSet(S), S \subseteq Split, NEW s \in S, Whole(S)
  PROVE  LET t == [s EXCEPT !.settled = TRUE]
             R == (S \ {s}) \cup {t}
         IN  Whole(R) /\ Worth(R) = Worth(S) /\ t.exp = s.exp
<1> DEFINE t == [s EXCEPT !.settled = TRUE]
           R == (S \ {s}) \cup {t}
           w == [x \in S \cup {t} |-> x.amount]
<1>1. t.user = s.user /\ t.amount = s.amount /\ t.exp = s.exp
  BY DEF Split
<1>2. \A x \in S \ {s} : x.user # t.user
  BY <1>1 DEF Whole
<1>3. t \notin S \ {s}
  BY <1>2
<1>4. /\ \A x \in S \cup {t} : w[x] \in Int /\ w[x] = x.amount
      /\ w[t] = w[s]
  BY <1>1 DEF Split
<1> HIDE DEF t, w
<1>5. IsFiniteSet(S \ {s}) /\ IsFiniteSet(R)
  <2>1. IsFiniteSet(S \ {s})
    BY FS_RemoveElement
  <2> QED
    BY <2>1, FS_AddElement
<1>6. Sum(w, S) = w[s] + Sum(w, S \ {s})
  BY <1>4, SumRemove
<1>7. Sum(w, R) = w[t] + Sum(w, S \ {s})
  <2>1. \A x \in (S \ {s}) \cup {t} : w[x] \in Int
    BY <1>4
  <2> QED
    BY <1>3, <1>5, <2>1, SumAdd
<1>8. Worth(S) = Sum(w, S)
  BY <1>4, WorthIsSum
<1>9. Worth(R) = Sum(w, R)
  <2>1. \A x \in R : w[x] = x.amount
    BY <1>4
  <2> HIDE DEF R
  <2> QED
    BY <1>5, <2>1, WorthIsSum
<1>10. Whole(R)
  BY <1>1, <1>2 DEF Whole
<1> QED
  BY <1>1, <1>4, <1>6, <1>7, <1>8, <1>9, <1>10 DEF t

LEMMA SharedSettle ==
  ASSUME TypeOK, IdsInv, ShareInv, NEW r \in Requests, SaveSettled(r)
  PROVE  ShareInv'
<1>1. PICK e, s : e = req[r].exp /\ s = req[r].split
  OBVIOUS
<1>2. /\ req[r].pc = "settle" /\ req' = [req EXCEPT ![r] = Idle] /\ UNCHANGED <<expenses, torn>>
  BY DEF SaveSettled
<1>3. req[r] # Idle /\ e \in Ids /\ s \in Split /\ s.exp = e
  <2>1. IsRequest(req[r])
    BY DEF TypeOK
  <2> QED
    BY <1>1, <1>2, <2>1, RequestKinds DEF IdsInv
<1> DEFINE t == [s EXCEPT !.settled = TRUE]
<1>4. t.exp = e
  BY <1>3 DEF Split
<1>5. \/ splits' = (splits \ {s}) \cup {t}
      \/ s \notin splits /\ UNCHANGED splits
  BY <1>1 DEF SaveSettled
<1>6. ASSUME NEW x \in expenses, x.id = e, e \notin torn PROVE Shared(x)'
  <2>1. PICK S : S = SplitsOf(e)
    OBVIOUS
  <2>2. \A p \in Requests \ {r} : req[p].exp # e
    BY <1>1, <1>3, <1>6, OthersElsewhere
  <2>3. Shared(x)
    BY <1>6 DEF ShareInv
  <2>4. ~Working(x.id, {"insert", "fields"})
    BY <1>2, <1>6, <2>2 DEF Working
  <2>5. s \in S /\ Whole(S) /\ Even(x, Worth(S))
    BY <1>1, <1>2, <1>6, <2>1, <2>3, <2>4 DEF Shared
  <2>6. IsFiniteSet(S) /\ S \subseteq Split /\ S \subseteq splits
    BY <2>1, FS_Subset DEF SplitsOf, TypeOK
  <2>7. PICK R : R = (S \ {s}) \cup {t}
    OBVIOUS
  <2>8. Whole(R) /\ Worth(R) = Worth(S)
    BY <2>5, <2>6, <2>7, SettledWorth
  <2>9. {y \in splits' : y.exp = x.id} = R
    <3>1. splits' = (splits \ {s}) \cup {t}
      BY <1>5, <2>5, <2>6
    <3> HIDE DEF t
    <3> QED
      BY <1>3, <1>4, <1>6, <2>1, <2>7, <3>1 DEF SplitsOf
  <2>10. \A p \in Requests : req'[p].exp # e
    <3>1. Idle.exp # e
      BY <1>3 DEF Idle, Ids
    <3> QED
      BY <1>2, <2>2, <3>1 DEF TypeOK
  <2> QED
    BY <1>6, <2>5, <2>8, <2>9, <2>10, Resting
<1>7. \A y \in (splits \ splits') \cup (splits' \ splits) : y.exp = req[r].exp
  BY <1>1, <1>3, <1>4, <1>5
<1> QED
  BY <1>1, <1>2, <1>6, <1>7, SharedElsewhere DEF ShareInv

\* What a request has written when it fails is whole, or its expense is torn.
LEMMA SharedFails ==
  ASSUME TypeOK, IdsInv, ShareInv, NEW r \in Requests, RequestFails(r)
  PROVE  ShareInv'
<1>1. PICK e : e = req[r].exp
  OBVIOUS
<1>2. /\ req[r] # Idle /\ req' = [req EXCEPT ![r] = Idle] /\ UNCHANGED <<expenses, splits>>
      /\ torn' = IF Halfway(req[r]) THEN torn \cup {e} ELSE torn
  BY <1>1 DEF RequestFails, tables
<1>3. e \in Ids
  BY <1>1, <1>2, Kinds
<1>4. ASSUME NEW x \in expenses, x.id = e, e \notin torn' PROVE Shared(x)'
  <2>1. e \notin torn /\ ~Halfway(req[r])
    BY <1>2, <1>4
  <2>2. \A p \in Requests \ {r} : req[p].exp # e
    BY <1>1, <1>2, <2>1, OthersElsewhere
  <2>3. PICK S : S = SplitsOf(e)
    OBVIOUS
  <2>4. Shared(x)
    BY <1>4, <2>1 DEF ShareInv
  <2>5. Whole(S) /\ Even(x, Worth(S))
    <3>1. CASE req[r].pc = "fields"
      <4>1. "amount" \notin DOMAIN req[r].fields
        BY <2>1, <3>1 DEF Halfway
      <4>2. Patched(x, req[r].fields).amount = x.amount
        <5>1. req[r].fields \in AllFields /\ x \in Expense
          BY <3>1, RequestKinds DEF TypeOK
        <5> QED
          BY <4>1, <5>1, PatchedType
      <4>3. Whole(S) /\ Even(Patched(x, req[r].fields), Worth(S))
        BY <1>1, <1>4, <2>3, <2>4, <3>1 DEF Shared
      <4> QED
        BY <4>2, <4>3 DEF Even
    <3>2. CASE req[r].pc # "fields"
      <4>1. ~Working(x.id, {"insert", "fields"})
        BY <1>4, <2>1, <2>2, <3>2 DEF Working, Halfway
      <4> QED
        BY <1>4, <2>3, <2>4, <4>1 DEF Shared
    <3> QED
      BY <3>1, <3>2
  <2>6. \A p \in Requests : req'[p].exp # e
    <3>1. Idle.exp # e
      BY <1>3 DEF Idle, Ids
    <3> QED
      BY <1>2, <2>2, <3>1 DEF TypeOK
  <2>7. {s \in splits' : s.exp = x.id} = S
    BY <1>2, <1>4, <2>3 DEF SplitsOf
  <2> QED
    BY <1>4, <2>5, <2>6, <2>7, Resting
<1>5. \A y \in (splits \ splits') \cup (splits' \ splits) : y.exp = req[r].exp
  BY <1>2
<1> QED
  BY <1>1, <1>2, <1>4, <1>5, SharedElsewhere DEF ShareInv

LEMMA ShareStep ==
  ASSUME TypeOK, IdsInv, ShareInv, [Next]_vars
  PROVE  ShareInv'
<1>1. ASSUME NEW r \in Requests, NEW e \in Ids, NEW patch \in Patches,
             StartUpdate(r, e, patch) \/ StartFields(r, e, patch)
      PROVE  ShareInv'
  BY <1>1, SharedStartUpdate, SharedStartFields
<1>2. ASSUME NEW r \in Requests,
             DeleteSplits(r) \/ InsertSplits(r) \/ WriteFields(r) \/ SaveSettled(r) \/ RequestFails(r)
      PROVE  ShareInv'
  BY <1>2, SharedDelete, SharedInsert, SharedWrite, SharedSettle, SharedFails
<1>3. CASE UNCHANGED vars
  BY <1>3 DEF vars, tables, ShareInv, Shared, Working, SplitsOf
<1> QED
  BY <1>1, <1>2, <1>3, SharedCreate, SharedRemove, SharedStartSettle DEF Next

-----------------------------------------------------------------------------
\* The inductive invariant of the shared expenses, which holds in every state.
THEOREM Inductive == Spec => []IInv
<1>1. Init => IInv
  <2> SUFFICES ASSUME Init PROVE IInv
    OBVIOUS
  <2>1. TypeOK
    BY FS_EmptySet, IdleType, BoundsAssumption DEF Init, TypeOK
  <2>2. IdsInv /\ OwedInv /\ ShareInv
    BY DEF Init, IdsInv, OwedInv, OwedOnce, ShareInv, Idle
  <2> QED
    BY <2>1, <2>2 DEF IInv
<1>2. IInv /\ [Next]_vars => IInv'
  BY TypeStep, IdsStep, OwedStep, ShareStep DEF IInv
<1> QED
  BY <1>1, <1>2, PTL DEF Spec

\* Updates delete the splits of an expense and insert new ones, and settling up inserts
\* a split that was deleted meanwhile; still nobody owes a share of an expense twice.
THEOREM OwedOnceHolds == Spec => []OwedOnce
<1>1. IInv => OwedOnce
  BY DEF IInv, OwedInv
<1> QED
  BY <1>1, Inductive, PTL

\* The splits add up to the amount of their expense, to a cent, whatever was rounded,
\* left out of an update or settled, and whatever failed or was cut off by a restart,
\* unless requests about it overlapped, or one ended between its first write and its
\* last with the splits gone or of another amount.
THEOREM SharesHold == Spec => []SharesAddUp
<1>1. IInv => SharesAddUp
  BY DEF IInv, ShareInv, Shared, SharesAddUp, Even
<1> QED
  BY <1>1, Inductive, PTL

\* The sum over two sets that share no member.
LEMMA SumUnion ==
  ASSUME NEW S, IsFiniteSet(S), NEW T, IsFiniteSet(T), S \cap T = {},
         NEW w, \A x \in S \cup T : w[x] \in Int
  PROVE  Sum(w, S \cup T) = Sum(w, S) + Sum(w, T)
<1> DEFINE F == {V \in SUBSET T : Sum(w, S \cup V) = Sum(w, S) + Sum(w, V)}
<1> SUFFICES ASSUME T \notin F PROVE FALSE
  OBVIOUS
<1>1. PICK V \in SUBSET T : V \notin F /\ \A U \in SUBSET V : U # V => U \in F
  <2> HIDE DEF F
  <2> QED
    BY LeastSubset
<1>2. IsFiniteSet(V) /\ \A z \in V : IsFiniteSet(V \ {z})
  BY FS_Subset
<1>3. Sum(w, S) \in Int
  BY SumType
<1>4. V # {}
  <2> SUFFICES ASSUME V = {} PROVE FALSE
    OBVIOUS
  <2>1. Sum(w, V) = 0 /\ S \cup V = S
    BY <1>2, SumStep
  <2> QED
    BY <1>1, <1>3, <2>1
<1>5. PICK z \in V : TRUE
  BY <1>4
<1> DEFINE R == V \ {z}
<1>6. Sum(w, S \cup R) = Sum(w, S) + Sum(w, R)
  BY <1>1, <1>5
<1>7. /\ z \notin S \cup R /\ S \cup V = (S \cup R) \cup {z} /\ IsFiniteSet(S \cup R)
      /\ \A y \in (S \cup R) \cup {z} : w[y] \in Int
  BY <1>2, FS_Union
<1>8. Sum(w, V) = w[z] + Sum(w, R)
  BY <1>2, SumRemove
<1>9. Sum(w, R) \in Int
  BY <1>2, SumType
<1> HIDE DEF R
<1>10. Sum(w, S \cup V) = w[z] + Sum(w, S \cup R)
  BY <1>7, SumAdd
<1> QED
  BY <1>1, <1>3, <1>6, <1>7, <1>8, <1>9, <1>10

\* f divides D into parts, and v are the sums of the parts.
Divides(D, w, I, f, v) ==
  /\ IsFiniteSet(D) /\ \A d \in D : w[d] \in Int
  /\ IsFiniteSet(I) /\ \A d \in D : f[d] \in I
  /\ \A i \in I : v[i] = Sum(w, {d \in D : f[d] = i})

\* The sums over the parts of a set add up.
LEMMA SumPartition ==
  ASSUME NEW D, NEW w, NEW I, NEW f, NEW v, Divides(D, w, I, f, v)
  PROVE  Sum(v, I) = Sum(w, D)
<1>0. /\ IsFiniteSet(D) /\ \A d \in D : w[d] \in Int
      /\ IsFiniteSet(I) /\ \A d \in D : f[d] \in I
      /\ \A i \in I : v[i] = Sum(w, {d \in D : f[d] = i})
  BY DEF Divides
<1> USE <1>0
<1> DEFINE Part(J) == {d \in D : f[d] \in J}
           F == {J \in SUBSET I : Sum(v, J) = Sum(w, Part(J))}
<1>1. Part(I) = D
  OBVIOUS
<1> SUFFICES ASSUME I \notin F PROVE FALSE
  BY <1>1
<1>2. PICK J \in SUBSET I : J \notin F /\ \A U \in SUBSET J : U # J => U \in F
  <2> HIDE DEF F
  <2> QED
    BY LeastSubset
<1>3. IsFiniteSet(J) /\ \A K : IsFiniteSet(Part(K))
  BY FS_Subset
<1>4. J # {}
  <2> SUFFICES ASSUME J = {} PROVE FALSE
    OBVIOUS
  <2>1. Part(J) = {}
    OBVIOUS
  <2>2. Sum(v, J) = 0 /\ Sum(w, Part(J)) = 0
    BY <1>3, <2>1, SumStep
  <2> QED
    BY <1>2, <2>2
<1>5. PICK z \in J : TRUE
  BY <1>4
<1> DEFINE R == J \ {z}
           A == {d \in D : f[d] = z}
<1>6. Sum(v, R) = Sum(w, Part(R))
  BY <1>2, <1>5
<1>7. \A i \in I : v[i] \in Int
  <2> SUFFICES ASSUME NEW i \in I PROVE v[i] \in Int
    OBVIOUS
  <2> DEFINE B == {d \in D : f[d] = i}
  <2>1. IsFiniteSet(B) /\ \A d \in B : w[d] \in Int
    BY FS_Subset
  <2> HIDE DEF B
  <2>2. Sum(w, B) \in Int
    BY <2>1, SumType
  <2> QED
    BY <2>2 DEF B
<1>8. Sum(v, J) = v[z] + Sum(v, R)
  BY <1>3, <1>5, <1>7, SumRemove
<1>9. v[z] = Sum(w, A)
  BY <1>5
<1>10. Part(J) = Part(R) \cup A /\ Part(R) \cap A = {} /\ IsFiniteSet(A) /\ IsFiniteSet(Part(R))
       /\ \A d \in Part(R) \cup A : w[d] \in Int
  BY <1>3, <1>5, FS_Subset
<1> HIDE DEF Part, A
<1>11. Sum(w, Part(R) \cup A) = Sum(w, Part(R)) + Sum(w, A)
  BY <1>10, SumUnion
<1>12. Sum(w, A) \in Int /\ Sum(w, Part(R)) \in Int
  BY <1>10, SumType
<1> HIDE DEF R
<1>13. Sum(v, J) = Sum(w, Part(J))
  BY <1>6, <1>8, <1>9, <1>10, <1>11, <1>12
<1> QED
  BY <1>2, <1>13

\* The sum of differences is the difference of the sums.
LEMMA SumMinus ==
  ASSUME NEW S, IsFiniteSet(S), NEW v, NEW w, NEW x,
         \A s \in S : v[s] \in Int /\ w[s] \in Int /\ x[s] = v[s] - w[s]
  PROVE  Sum(x, S) = Sum(v, S) - Sum(w, S)
<1> DEFINE F == {T \in SUBSET S : Sum(x, T) = Sum(v, T) - Sum(w, T)}
<1> SUFFICES ASSUME S \notin F PROVE FALSE
  OBVIOUS
<1>1. PICK T \in SUBSET S : T \notin F /\ \A U \in SUBSET T : U # T => U \in F
  <2> HIDE DEF F
  <2> QED
    BY LeastSubset
<1>2. IsFiniteSet(T)
  BY FS_Subset
<1>3. T # {}
  <2> SUFFICES ASSUME T = {} PROVE FALSE
    OBVIOUS
  <2>1. Sum(x, T) = 0 /\ Sum(v, T) = 0 /\ Sum(w, T) = 0
    BY <1>2, SumStep
  <2> QED
    BY <1>1, <2>1
<1> DEFINE p == Pick(T)
           R == T \ {p}
<1>4. /\ p \in T /\ Sum(x, T) = x[p] + Sum(x, R) /\ Sum(v, T) = v[p] + Sum(v, R)
      /\ Sum(w, T) = w[p] + Sum(w, R)
  BY <1>2, <1>3, SumStep
<1>5. R \in F
  BY <1>1, <1>4
<1>6. IsFiniteSet(R) /\ (\A s \in R : v[s] \in Int) /\ \A s \in R : w[s] \in Int
  BY FS_Subset
<1> HIDE DEF p
<1>7. Sum(v, R) \in Int /\ Sum(w, R) \in Int
  <2> HIDE DEF R
  <2> QED
    BY <1>6, SumType
<1> HIDE DEF R
<1> QED
  BY <1>1, <1>4, <1>5, <1>7

\* A sum grows with its members.
LEMMA SumMonotone ==
  ASSUME NEW S, IsFiniteSet(S), NEW v, NEW w,
         \A s \in S : v[s] \in Int /\ w[s] \in Int /\ v[s] <= w[s]
  PROVE  Sum(v, S) <= Sum(w, S)
<1> DEFINE F == {T \in SUBSET S : Sum(v, T) <= Sum(w, T)}
<1> SUFFICES ASSUME S \notin F PROVE FALSE
  OBVIOUS
<1>1. PICK T \in SUBSET S : T \notin F /\ \A U \in SUBSET T : U # T => U \in F
  <2> HIDE DEF F
  <2> QED
    BY LeastSubset
<1>2. IsFiniteSet(T)
  BY FS_Subset
<1>3. T # {}
  <2> SUFFICES ASSUME T = {} PROVE FALSE
    OBVIOUS
  <2>1. Sum(v, T) = 0 /\ Sum(w, T) = 0
    BY <1>2, SumStep
  <2> QED
    BY <1>1, <2>1
<1> DEFINE p == Pick(T)
           R == T \ {p}
<1>4. p \in T /\ Sum(v, T) = v[p] + Sum(v, R) /\ Sum(w, T) = w[p] + Sum(w, R)
  BY <1>2, <1>3, SumStep
<1>5. R \in F
  BY <1>1, <1>4
<1>6. IsFiniteSet(R) /\ (\A s \in R : v[s] \in Int) /\ \A s \in R : w[s] \in Int
  BY FS_Subset
<1> HIDE DEF p
<1>7. Sum(v, R) \in Int /\ Sum(w, R) \in Int
  <2> HIDE DEF R
  <2> QED
    BY <1>6, SumType
<1> HIDE DEF R
<1> QED
  BY <1>1, <1>4, <1>5, <1>7

\* A sum of members between bounds.
LEMMA SumWithin ==
  ASSUME NEW S, IsFiniteSet(S), NEW w, \A s \in S : w[s] \in Int
  PROVE  /\ (\A s \in S : w[s] >= 0) => Sum(w, S) >= 0 /\ \A s \in S : w[s] <= Sum(w, S)
         /\ (\A s \in S : w[s] <= 1) => Sum(w, S) <= Cardinality(S)
         /\ (\A s \in S : w[s] >= -1) => Sum(w, S) >= -Cardinality(S)
<1> DEFINE k(c) == [s \in S |-> c]
<1>1. ASSUME NEW c \in Int PROVE Sum(k(c), S) = c * Cardinality(S)
  <2>1. \A s \in S : k(c)[s] = c
    OBVIOUS
  <2> HIDE DEF k
  <2> QED
    BY <2>1, SumOfConstant
<1>2. Cardinality(S) \in Nat
  BY FS_CardinalityType
<1>3. Sum(k(0), S) = 0 /\ Sum(k(1), S) = Cardinality(S) /\ Sum(k(-1), S) = -Cardinality(S)
  <2> DEFINE n == Cardinality(S)
  <2>1. 0 * n = 0 /\ 1 * n = n /\ (-1) * n = -n
    BY <1>2
  <2> HIDE DEF k, n
  <2>2. Sum(k(0), S) = 0 * n /\ Sum(k(1), S) = 1 * n /\ Sum(k(-1), S) = (-1) * n
    BY <1>1 DEF n
  <2> QED
    BY <2>1, <2>2 DEF n
<1>4. ASSUME NEW c \in Int, \A s \in S : w[s] <= c PROVE Sum(w, S) <= Sum(k(c), S)
  <2>1. \A s \in S : w[s] \in Int /\ k(c)[s] \in Int /\ w[s] <= k(c)[s]
    BY <1>4
  <2> HIDE DEF k
  <2> QED
    BY <2>1, SumMonotone
<1>5. ASSUME NEW c \in Int, \A s \in S : w[s] >= c PROVE Sum(k(c), S) <= Sum(w, S)
  <2>1. \A s \in S : w[s] \in Int /\ k(c)[s] \in Int /\ k(c)[s] <= w[s]
    BY <1>5
  <2> HIDE DEF k
  <2> QED
    BY <2>1, SumMonotone
<1> HIDE DEF k
<1>6. Sum(w, S) \in Int
  BY SumType
<1>7. (\A s \in S : w[s] >= 0) => Sum(w, S) >= 0
  BY <1>3, <1>5, <1>6
<1>8. (\A s \in S : w[s] <= 1) => Sum(w, S) <= Cardinality(S)
  BY <1>3, <1>4
<1>9. (\A s \in S : w[s] >= -1) => Sum(w, S) >= -Cardinality(S)
  BY <1>2, <1>3, <1>5, <1>6
<1>10. ASSUME \A s \in S : w[s] >= 0, NEW x \in S PROVE w[x] <= Sum(w, S)
  <2> DEFINE v == [s \in S |-> IF s = x THEN w[x] ELSE 0]
  <2>1. \A s \in S : v[s] \in Int /\ w[s] \in Int /\ v[s] <= w[s]
    BY <1>10
  <2>2. v[x] = w[x] /\ (\A s \in S \ {x} : v[s] = 0) /\ \A s \in S : v[s] \in Int
    OBVIOUS
  <2> HIDE DEF v
  <2>3. Sum(v, S) <= Sum(w, S)
    BY <2>1, SumMonotone
  <2>4. Sum(v, S) = v[x] + Sum(v, S \ {x})
    BY <2>2, SumRemove
  <2>5. IsFiniteSet(S \ {x}) /\ Cardinality(S \ {x}) \in Nat
    BY FS_RemoveElement, FS_CardinalityType
  <2>6. Sum(v, S \ {x}) = 0 * Cardinality(S \ {x})
    BY <2>2, <2>5, SumOfConstant
  <2>7. 0 * Cardinality(S \ {x}) = 0
    BY <2>5
  <2> QED
    BY <1>6, <2>2, <2>3, <2>4, <2>6, <2>7
<1> QED
  BY <1>7, <1>8, <1>9, <1>10

\* A sum after one of its members has changed.
LEMMA SumChange ==
  ASSUME NEW S, IsFiniteSet(S), NEW v, NEW w, \A s \in S : v[s] \in Int /\ w[s] \in Int,
         NEW x \in S, \A s \in S \ {x} : v[s] = w[s]
  PROVE  Sum(v, S) = Sum(w, S) + (v[x] - w[x])
<1>1. IsFiniteSet(S \ {x})
  BY FS_RemoveElement
<1>2. Sum(v, S) = v[x] + Sum(v, S \ {x}) /\ Sum(w, S) = w[x] + Sum(w, S \ {x})
  BY SumRemove
<1>3. Sum(v, S \ {x}) = Sum(w, S \ {x})
  BY <1>1, SumSame
<1>4. Sum(w, S \ {x}) \in Int
  BY <1>1, SumType
<1> QED
  BY <1>2, <1>3, <1>4

-----------------------------------------------------------------------------
\* The order in which getSettlements goes through creditors and debtors.

Before(b, u, v) == Abs(b[u]) > Abs(b[v]) \/ (Abs(b[u]) = Abs(b[v]) /\ u < v)
InOrder(q, R) == \A i, j \in DOMAIN q : i < j => <<q[i], q[j]>> \in R
Ordered(P, R) ==
  /\ \A u, v \in P : u # v => <<u, v>> \in R \/ <<v, u>> \in R
  /\ \A u, v, w \in P : <<u, v>> \in R /\ <<v, w>> \in R => <<u, w>> \in R

\* Among finitely many participants one comes last.
LEMMA LastExists ==
  ASSUME NEW P, IsFiniteSet(P), P # {}, NEW R, Ordered(P, R)
  PROVE  \E m \in P : \A u \in P \ {m} : <<u, m>> \in R
<1> DEFINE Latest(V) == \E m \in V : \A u \in V \ {m} : <<u, m>> \in R
           F == {V \in SUBSET P : V = {} \/ Latest(V)}
<1> SUFFICES ASSUME P \notin F PROVE FALSE
  OBVIOUS
<1>1. PICK V \in SUBSET P : V \notin F /\ \A U \in SUBSET V : U # V => U \in F
  <2> HIDE DEF F
  <2> QED
    BY LeastSubset
<1>2. PICK z \in V : TRUE
  BY <1>1
<1>3. V \ {z} \in F
  <2>1. V \ {z} \in SUBSET V /\ V \ {z} # V
    BY <1>2
  <2> HIDE DEF F
  <2> QED
    BY <1>1, <2>1
<1>4. CASE V \ {z} = {}
  <2>1. \A u \in V \ {z} : <<u, z>> \in R
    BY <1>4
  <2> QED
    BY <1>1, <1>2, <2>1
<1>5. CASE V \ {z} # {}
  <2>1. PICK m \in V \ {z} : \A u \in (V \ {z}) \ {m} : <<u, m>> \in R
    BY <1>3, <1>5
  <2>2. CASE <<m, z>> \in R
    <3>1. \A u \in V \ {z} : <<u, z>> \in R
      BY <2>1, <2>2 DEF Ordered, Before
    <3> QED
      BY <1>1, <1>2, <3>1
  <2>3. CASE <<m, z>> \notin R
    <3>1. <<z, m>> \in R
      BY <2>1, <2>3 DEF Ordered
    <3>2. \A u \in V \ {m} : <<u, m>> \in R
      BY <2>1, <3>1
    <3> QED
      BY <1>1, <2>1, <3>2
  <2> QED
    BY <2>2, <2>3
<1> QED
  BY <1>4, <1>5

\* Finitely many of them can be listed in order.
LEMMA OrderExists ==
  ASSUME NEW P, IsFiniteSet(P), NEW R, Ordered(P, R)
  PROVE  \E q \in SetToSeqs(P) : InOrder(q, R)
<1> DEFINE F == {T \in SUBSET P : \E q \in SetToSeqs(T) : InOrder(q, R)}
<1> SUFFICES ASSUME P \notin F PROVE FALSE
  OBVIOUS
<1>1. PICK T \in SUBSET P : T \notin F /\ \A U \in SUBSET T : U # T => U \in F
  <2> HIDE DEF F
  <2> QED
    BY LeastSubset
<1>2. IsFiniteSet(T)
  BY FS_Subset
<1> DEFINE n == Cardinality(T)
<1>3. n \in Nat /\ (T = {} => n = 0)
  BY <1>2, FS_CardinalityType, FS_EmptySet
<1>4. T # {}
  <2> SUFFICES ASSUME T = {} PROVE FALSE
    OBVIOUS
  <2> DEFINE q == [i \in 1..n |-> i]
  <2>1. 1..n = {}
    BY <1>3
  <2>2. q \in [1..n -> T] /\ DOMAIN q = {}
    BY <2>1
  <2> HIDE DEF q
  <2>3. q \in SetToSeqs(T)
    BY <2>1, <2>2 DEF SetToSeqs
  <2>4. InOrder(q, R)
    BY <2>2 DEF InOrder
  <2> QED
    BY <1>1, <2>3, <2>4
<1>5. PICK m \in T : \A u \in T \ {m} : <<u, m>> \in R
  <2>1. Ordered(T, R)
    BY DEF Ordered
  <2> QED
    BY <1>2, <1>4, <2>1, LastExists
<1>6. PICK q \in SetToSeqs(T \ {m}) : InOrder(q, R)
  BY <1>1, <1>5
<1>7. Cardinality(T \ {m}) = n - 1
  BY <1>2, <1>5, FS_RemoveElement
<1>8. q \in [1..(n - 1) -> T \ {m}] /\ \A i, j \in 1..(n - 1) : i # j => q[i] # q[j]
  BY <1>6, <1>7 DEF SetToSeqs
<1> HIDE DEF n
<1> DEFINE p == [i \in 1..n |-> IF i = n THEN m ELSE q[i]]
<1>9. \A i \in 1..n : i # n => i \in 1..(n - 1)
  BY <1>3
<1>10. p \in [1..n -> T] /\ \A i, j \in 1..n : i # j => p[i] # p[j]
  BY <1>5, <1>8, <1>9
<1>11. InOrder(p, R)
  <2> SUFFICES ASSUME NEW i \in 1..n, NEW j \in 1..n, i < j PROVE <<p[i], p[j]>> \in R
    BY DEF InOrder
  <2>1. i # n /\ i \in 1..(n - 1) /\ p[i] = q[i]
    BY <1>3, <1>9
  <2>2. CASE j = n
    BY <1>5, <1>8, <2>1, <2>2
  <2>3. CASE j # n
    BY <1>6, <1>8, <1>9, <2>1, <2>3 DEF InOrder
  <2> QED
    BY <2>2, <2>3
<1>12. p \in SetToSeqs(T)
  BY <1>10 DEF SetToSeqs, n
<1> QED
  BY <1>1, <1>11, <1>12

\* Everybody who is to be ranked comes exactly once.
LEMMA RankedAll ==
  ASSUME NEW P \in SUBSET Users, NEW b, \A u \in P : b[u] \in Int
  PROVE  LET q == Ranked(b, P)
         IN  /\ q \in [1..Cardinality(P) -> P] /\ Len(q) = Cardinality(P) /\ Len(q) \in Nat
             /\ \A i, j \in 1..Len(q) : i # j => q[i] # q[j]
             /\ \A u \in P : \E i \in 1..Len(q) : q[i] = u
<1> DEFINE n == Cardinality(P)
<1>0. IsFiniteSet(P)
  BY UsersAssumption, FS_Subset
<1>1. PICK q : q = Ranked(b, P)
  OBVIOUS
<1>2. q \in SetToSeqs(P)
  <2> DEFINE R == {d \in P \X P : Before(b, d[1], d[2])}
  <2>1. \A u, v \in P : <<u, v>> \in R <=> Before(b, u, v)
    OBVIOUS
  <2> HIDE DEF R
  <2>2. \A u \in P : Abs(b[u]) \in Int /\ u \in Int
    BY UsersAssumption DEF Abs
  <2>3. Ordered(P, R)
    BY <2>1, <2>2 DEF Ordered, Before
  <2>4. PICK r \in SetToSeqs(P) : InOrder(r, R)
    BY <1>0, <2>3, OrderExists
  <2>5. \A i \in DOMAIN r : r[i] \in P
    BY DEF SetToSeqs
  <2>6. \A i, j \in DOMAIN r : i < j => Before(b, r[i], r[j])
    BY <2>1, <2>4, <2>5 DEF InOrder
  <2> QED
    BY <1>1, <2>6 DEF Ranked, Before
<1>3. n \in Nat /\ Cardinality(1..n) = n /\ IsFiniteSet(1..n)
  BY <1>0, FS_CardinalityType, FS_Interval
<1>4. q \in [1..n -> P] /\ \A i, j \in 1..n : i # j => q[i] # q[j]
  BY <1>2 DEF SetToSeqs
<1> HIDE DEF n
<1>5. Len(q) = n
  BY <1>3, <1>4
<1>6. q \in Injection(1..n, P)
  BY <1>4 DEF Injection, IsInjective
<1>7. q \in Surjection(1..n, P)
  BY <1>0, <1>3, <1>6, FS_Injection DEF n
<1>8. \A u \in P : \E i \in 1..n : q[i] = u
  BY <1>7 DEF Surjection
<1> QED
  BY <1>1, <1>3, <1>4, <1>5, <1>8 DEF n

-----------------------------------------------------------------------------
\* What transfers move.

\* Where a property of the numbers up to N fails there is a least one for which it fails.
LEMMA LeastNumber ==
  ASSUME NEW N \in Nat, NEW F, NEW m \in 0..N, m \notin F
  PROVE  \E n \in 0..N : n \notin F /\ \A k \in 0..(n - 1) : k \in F
<1> DEFINE S == 1..N
           G == {T \in SUBSET S : \A n \in 0..N : T = 1..n => n \in F}
<1>1. IsFiniteSet(S) /\ \A n \in 0..N : 1..n \in SUBSET S
  BY FS_Interval
<1>2. 1..m \in SUBSET S /\ 1..m \notin G
  BY <1>1
<1>3. PICK T \in SUBSET S : T \notin G /\ \A U \in SUBSET T : U # T => U \in G
  <2> HIDE DEF G, S
  <2> QED
    BY <1>1, <1>2, LeastSubset
<1>4. PICK n \in 0..N : T = 1..n /\ n \notin F
  BY <1>3
<1>5. ASSUME NEW k \in 0..(n - 1) PROVE k \in F
  <2>1. k \in 0..N /\ 1..k \in SUBSET T /\ n \in T /\ n \notin 1..k
    BY <1>4
  <2>2. 1..k \in G
    BY <1>3, <2>1
  <2> QED
    BY <2>1, <2>2
<1> QED
  BY <1>4, <1>5

Transfer == [from : Users, to : Users, amount : Int]

\* The total over one more index is larger by its value.
LEMMA TotalMore ==
  ASSUME NEW f, NEW g, IsFiniteSet(DOMAIN f), \A i \in DOMAIN f : f[i] \in Int /\ g[i] = f[i]
  PROVE  /\ Total(f) \in Int
         /\ DOMAIN f = {} => Total(f) = 0
         /\ DOMAIN g = DOMAIN f => Total(g) = Total(f)
         /\ \A k : /\ k \notin DOMAIN f /\ g[k] \in Int
                   /\ DOMAIN g = DOMAIN f \cup {k}
                   => Total(g) = Total(f) + g[k]
<1> DEFINE S == DOMAIN f
<1>1. Total(f) = Sum(f, S) /\ Sum(f, S) = Sum(g, S)
  BY TotalIsSum, SumSame
<1>2. Sum(f, S) \in Int /\ (S = {} => Sum(f, S) = 0)
  BY SumType, SumStep
<1>3. DOMAIN g = S => Total(g) = Sum(g, S)
  BY TotalIsSum
<1>4. ASSUME NEW k, k \notin S, g[k] \in Int, DOMAIN g = S \cup {k}
      PROVE  Total(g) = Total(f) + g[k]
  <2>1. IsFiniteSet(DOMAIN g)
    BY <1>4, FS_AddElement
  <2>2. Total(g) = Sum(g, S \cup {k})
    BY <1>4, <2>1, TotalIsSum
  <2>3. Sum(g, S \cup {k}) = g[k] + Sum(g, S)
    <3>1. \A y \in S \cup {k} : g[y] \in Int
      BY <1>4
    <3> HIDE DEF S
    <3> QED
      BY <1>4, <3>1, SumAdd DEF S
  <2> QED
    BY <1>1, <1>2, <1>4, <2>2, <2>3
<1> QED
  BY <1>1, <1>2, <1>3, <1>4

\* A further transfer moves its amount, for its sender and for its receiver.
LEMMA MovedStep ==
  ASSUME NEW t \in Seq(Transfer), NEW m \in Transfer, NEW u
  PROVE  /\ Moved(t, u) \in Int
         /\ t = <<>> => Moved(t, u) = 0
         /\ Moved(Append(t, m), u) = Moved(t, u) + (IF m.from = u THEN m.amount ELSE 0)
                                                 - (IF m.to = u THEN m.amount ELSE 0)
<1> DEFINE r == Append(t, m)
           n == Len(t)
           from(q) == [i \in {i \in DOMAIN q : q[i].from = u} |-> q[i].amount]
           to(q) == [i \in {i \in DOMAIN q : q[i].to = u} |-> q[i].amount]
<1>1. /\ n \in Nat /\ DOMAIN t = 1..n /\ DOMAIN r = 1..(n + 1)
      /\ \A i \in 1..n : r[i] = t[i] /\ t[i].amount \in Int
      /\ r[n + 1] = m /\ m.amount \in Int
  <2>1. /\ n \in Nat /\ DOMAIN t = 1..n /\ DOMAIN r = 1..(n + 1)
        /\ \A i \in 1..n : r[i] = t[i] /\ t[i] \in Transfer
        /\ r[n + 1] = m
    OBVIOUS
  <2>2. \A x \in Transfer : x.amount \in Int
    BY DEF Transfer
  <2> QED
    BY <2>1, <2>2
<1>2. IsFiniteSet(1..n) /\ 1..(n + 1) = (1..n) \cup {n + 1} /\ n + 1 \notin 1..n
  <2>1. IsFiniteSet(1..n)
    BY <1>1, FS_Interval
  <2> QED
    BY <1>1, <2>1
<1> HIDE DEF n, r
<1>3. /\ IsFiniteSet(DOMAIN from(t)) /\ n + 1 \notin DOMAIN from(t)
      /\ \A i \in DOMAIN from(t) : from(t)[i] \in Int /\ from(r)[i] = from(t)[i]
      /\ t = <<>> => DOMAIN from(t) = {}
      /\ IF m.from = u THEN DOMAIN from(r) = DOMAIN from(t) \cup {n + 1} /\ from(r)[n + 1] = m.amount
                       ELSE DOMAIN from(r) = DOMAIN from(t)
  BY <1>1, <1>2, FS_Subset
<1>4. /\ IsFiniteSet(DOMAIN to(t)) /\ n + 1 \notin DOMAIN to(t)
      /\ \A i \in DOMAIN to(t) : to(t)[i] \in Int /\ to(r)[i] = to(t)[i]
      /\ t = <<>> => DOMAIN to(t) = {}
      /\ IF m.to = u THEN DOMAIN to(r) = DOMAIN to(t) \cup {n + 1} /\ to(r)[n + 1] = m.amount
                     ELSE DOMAIN to(r) = DOMAIN to(t)
  BY <1>1, <1>2, FS_Subset
<1>5. Moved(t, u) = Total(from(t)) - Total(to(t)) /\ Moved(r, u) = Total(from(r)) - Total(to(r))
  BY DEF Moved
<1> HIDE DEF from, to
<1>6. /\ Total(from(t)) \in Int /\ (t = <<>> => Total(from(t)) = 0)
      /\ Total(from(r)) = Total(from(t)) + (IF m.from = u THEN m.amount ELSE 0)
  <2>1. CASE m.from = u
    <3> DEFINE k == n + 1
    <3>1. k \notin DOMAIN from(t) /\ from(r)[k] = m.amount /\ DOMAIN from(r) = DOMAIN from(t) \cup {k}
      BY <1>3, <2>1
    <3> HIDE DEF k
    <3> QED
      BY <1>1, <1>3, <2>1, <3>1, TotalMore
  <2>2. CASE m.from # u
    <3>1. Total(from(t)) \in Int /\ Total(from(r)) = Total(from(t)) /\ (t = <<>> => Total(from(t)) = 0)
      BY <1>3, <2>2, TotalMore
    <3> QED
      BY <2>2, <3>1
  <2> QED
    BY <2>1, <2>2
<1>7. /\ Total(to(t)) \in Int /\ (t = <<>> => Total(to(t)) = 0)
      /\ Total(to(r)) = Total(to(t)) + (IF m.to = u THEN m.amount ELSE 0)
  <2>1. CASE m.to = u
    <3> DEFINE k == n + 1
    <3>1. k \notin DOMAIN to(t) /\ to(r)[k] = m.amount /\ DOMAIN to(r) = DOMAIN to(t) \cup {k}
      BY <1>4, <2>1
    <3> HIDE DEF k
    <3> QED
      BY <1>1, <1>4, <2>1, <3>1, TotalMore
  <2>2. CASE m.to # u
    <3>1. Total(to(t)) \in Int /\ Total(to(r)) = Total(to(t)) /\ (t = <<>> => Total(to(t)) = 0)
      BY <1>4, <2>2, TotalMore
    <3> QED
      BY <2>2, <3>1
  <2> QED
    BY <2>1, <2>2
<1>8. Moved(t, u) \in Int /\ (t = <<>> => Moved(t, u) = 0)
  BY <1>5, <1>6, <1>7
<1>9. (IF m.from = u THEN m.amount ELSE 0) \in Int /\ (IF m.to = u THEN m.amount ELSE 0) \in Int
  BY <1>1
<1>10. Moved(r, u) = Moved(t, u) + (IF m.from = u THEN m.amount ELSE 0)
                                 - (IF m.to = u THEN m.amount ELSE 0)
  BY <1>5, <1>6, <1>7, <1>9
<1> QED
  BY <1>8, <1>10 DEF r

-----------------------------------------------------------------------------
\* The loop of getSettlements, seen from one side: the participants in q before the k-th
\* have nothing left, those behind have everything, and what a participant has left or
\* was paid differs from the balance by the cents that were dropped: one while the
\* participant's turn lasts, two at the end.
Side(q, k, left, b, paid) ==
  \A i \in 1..Len(q) :
    LET u == q[i]
        dropped == Abs(b[u]) - left[u] - paid[u]
    IN  /\ i < k => left[u] = 0 /\ dropped \in 0..2
        /\ i > k => left[u] = Abs(b[u]) /\ dropped = 0
        /\ i = k => /\ left[u] \in 1..Abs(b[u]) /\ dropped \in 0..1
                    /\ left[u] = Abs(b[u]) => dropped = 0

\* It is the turn of the k-th.
Turn(q, k, left, b, paid) ==
  /\ Len(q) \in Nat /\ k \in 1..Len(q) /\ Side(q, k, left, b, paid)
  /\ \A i \in 1..Len(q) : /\ left[q[i]] \in Int /\ paid[q[i]] \in Int
                          /\ Abs(b[q[i]]) \in Int /\ Abs(b[q[i]]) > 1
  /\ \A i, j \in 1..Len(q) : i # j => q[i] # q[j]

\* A transfer of the amount a, or a cent that is dropped, is the turn's.
Served(q, k, left, b, paid, left2, paid2, a) ==
  /\ a \in 1..left[q[k]] /\ (a = 1 => left[q[k]] = 1 \/ left[q[k]] = Abs(b[q[k]]))
  /\ left2[q[k]] = left[q[k]] - a
  /\ paid2[q[k]] = paid[q[k]] + (IF a > 1 THEN a ELSE 0)
  /\ \A i \in (1..Len(q)) \ {k} : left2[q[i]] = left[q[i]] /\ paid2[q[i]] = paid[q[i]]

\* Whatever the turn takes or drops, the side stays as Side describes it.
LEMMA SideStep ==
  ASSUME NEW q, NEW k, NEW left, NEW b, NEW paid, NEW left2, NEW paid2, NEW a,
         Turn(q, k, left, b, paid), Served(q, k, left, b, paid, left2, paid2, a)
  PROVE  Side(q, IF left2[q[k]] < 1 THEN k + 1 ELSE k, left2, b, paid2)
<1>0. /\ Len(q) \in Nat /\ k \in 1..Len(q) /\ a \in 1..left[q[k]]
      /\ \A i \in 1..Len(q) : /\ left[q[i]] \in Int /\ paid[q[i]] \in Int
                              /\ Abs(b[q[i]]) \in Int /\ Abs(b[q[i]]) > 1
      /\ \A i, j \in 1..Len(q) : i # j => q[i] # q[j]
      /\ a = 1 => left[q[k]] = 1 \/ left[q[k]] = Abs(b[q[k]])
      /\ left2[q[k]] = left[q[k]] - a
      /\ paid2[q[k]] = paid[q[k]] + (IF a > 1 THEN a ELSE 0)
      /\ \A i \in (1..Len(q)) \ {k} : left2[q[i]] = left[q[i]] /\ paid2[q[i]] = paid[q[i]]
  BY DEF Turn, Served
<1> DEFINE n == IF left2[q[k]] < 1 THEN k + 1 ELSE k
           dropped(i) == Abs(b[q[i]]) - left[q[i]] - paid[q[i]]
           dropped2(i) == Abs(b[q[i]]) - left2[q[i]] - paid2[q[i]]
<1>1. \A i \in 1..Len(q) :
        /\ i < k => left[q[i]] = 0 /\ dropped(i) \in 0..2
        /\ i > k => left[q[i]] = Abs(b[q[i]]) /\ dropped(i) = 0
        /\ i = k => /\ left[q[i]] \in 1..Abs(b[q[i]]) /\ dropped(i) \in 0..1
                    /\ left[q[i]] = Abs(b[q[i]]) => dropped(i) = 0
  BY DEF Turn, Side
<1>2. \A i \in (1..Len(q)) \ {k} : dropped2(i) = dropped(i)
  BY <1>0
<1>3. /\ left[q[k]] \in Int /\ paid[q[k]] \in Int /\ Abs(b[q[k]]) \in Int /\ a \in Int
      /\ dropped2(k) = dropped(k) + (IF a > 1 THEN 0 ELSE 1)
  <2>1. /\ left[q[k]] \in Int /\ paid[q[k]] \in Int /\ Abs(b[q[k]]) \in Int
        /\ a \in Int /\ a >= 1
    BY <1>0
  <2>2. /\ left2[q[k]] = left[q[k]] - a
        /\ paid2[q[k]] = paid[q[k]] + (IF a > 1 THEN a ELSE 0)
    BY <1>0
  <2>3. CASE a > 1
    BY <2>1, <2>2, <2>3
  <2>4. CASE a = 1
    BY <2>1, <2>2, <2>4
  <2> QED
    BY <2>1, <2>3, <2>4
<1>4. CASE left2[q[k]] < 1
  <2>1. n = k + 1 /\ left2[q[k]] = 0 /\ dropped2(k) \in 0..2
    <3>0. left[q[k]] >= a /\ left2[q[k]] = left[q[k]] - a
      BY <1>0
    <3>1. dropped(k) \in 0..1
      <4> HIDE DEF dropped
      <4> QED
        BY <1>0, <1>1
    <3> HIDE DEF dropped, dropped2
    <3> QED
      BY <1>3, <1>4, <3>0, <3>1
  <2> HIDE DEF n
  <2>2. ASSUME NEW i \in 1..Len(q)
        PROVE  /\ i < n => left2[q[i]] = 0 /\ dropped2(i) \in 0..2
               /\ i > n => left2[q[i]] = Abs(b[q[i]]) /\ dropped2(i) = 0
               /\ i = n => /\ left2[q[i]] \in 1..Abs(b[q[i]]) /\ dropped2(i) \in 0..1
                           /\ left2[q[i]] = Abs(b[q[i]]) => dropped2(i) = 0
    <3> HIDE DEF dropped, dropped2
    <3>1. CASE i = k
      BY <1>0, <2>1, <3>1
    <3>2. CASE i # k
      <4>1. left2[q[i]] = left[q[i]] /\ dropped2(i) = dropped(i) /\ Abs(b[q[i]]) > 1
        BY <1>0, <1>2, <3>2
      <4>2. i < n <=> i < k
        BY <1>0, <2>1, <3>2
      <4>3. Abs(b[q[i]]) \in Int
        BY <1>0
      <4> QED
        BY <1>0, <1>1, <2>1, <3>2, <4>1, <4>2, <4>3
    <3> QED
      BY <3>1, <3>2
  <2> QED
    BY <1>0, <2>2 DEF Side, n
<1>5. CASE ~(left2[q[k]] < 1)
  <2>1. n = k /\ left2[q[k]] \in 1..Abs(b[q[k]]) /\ left2[q[k]] # Abs(b[q[k]])
    BY <1>0, <1>1, <1>3, <1>5
  <2>2. dropped2(k) \in 0..1
    <3>1. dropped(k) \in 0..1 /\ (left[q[k]] = Abs(b[q[k]]) => dropped(k) = 0)
      BY <1>0, <1>1
    <3>2. a = 1 => left[q[k]] = Abs(b[q[k]])
      BY <1>0, <1>3, <1>5
    <3>3. a > 1 \/ a = 1
      BY <1>0, <1>3
    <3> HIDE DEF dropped, dropped2
    <3> QED
      BY <1>0, <1>3, <3>1, <3>2, <3>3
  <2> HIDE DEF n
  <2>3. ASSUME NEW i \in 1..Len(q)
        PROVE  /\ i < n => left2[q[i]] = 0 /\ dropped2(i) \in 0..2
               /\ i > n => left2[q[i]] = Abs(b[q[i]]) /\ dropped2(i) = 0
               /\ i = n => /\ left2[q[i]] \in 1..Abs(b[q[i]]) /\ dropped2(i) \in 0..1
                           /\ left2[q[i]] = Abs(b[q[i]]) => dropped2(i) = 0
    <3> HIDE DEF dropped, dropped2
    <3>1. CASE i = k
      BY <1>0, <2>1, <2>2, <3>1
    <3>2. CASE i # k
      <4>1. left2[q[i]] = left[q[i]] /\ dropped2(i) = dropped(i)
        BY <1>0, <1>2, <3>2
      <4> QED
        BY <1>0, <1>1, <2>1, <3>2, <4>1
    <3> QED
      BY <3>1, <3>2
  <2> QED
    BY <1>0, <2>3 DEF Side, n
<1> QED
  BY <1>4, <1>5

-----------------------------------------------------------------------------
\* One round of the loop.

\* q lists the members of P, each once.
Enumerates(q, P) ==
  /\ Len(q) \in Nat /\ q \in [1..Len(q) -> P]
  /\ \A i, j \in 1..Len(q) : i # j => q[i] # q[j]
  /\ \A u \in P : \E i \in 1..Len(q) : q[i] = u

\* C are the creditors of the balances b, D the debtors.
Lenders(b) == {u \in Users : b[u] > 1}
Borrowers(b) == {u \in Users : b[u] < -1}
Market(b, C, D) == b \in [Users -> Int] /\ Enumerates(C, Lenders(b)) /\ Enumerates(D, Borrowers(b))

\* by how much the amounts w of the creditors exceed those of the debtors
Gap(w, b) == Sum(w, Lenders(b)) - Sum(w, Borrowers(b))
Received(t) == [u \in Users |-> -Moved(t, u)]
Given(t) == [u \in Users |-> Moved(t, u)]

\* The invariant of the loop.
LoopInv(b, C, D, s) ==
  /\ s.ci \in 1..(Len(C) + 1) /\ s.di \in 1..(Len(D) + 1)
  /\ s.left \in [Users -> Int] /\ s.paid \in Seq(Transfer)
  /\ Side(C, s.ci, s.left, b, Received(s.paid))
  /\ Side(D, s.di, s.left, b, Given(s.paid))
  /\ s.ci <= Len(C) /\ s.di <= Len(D) =>
       \/ s.left[C[s.ci]] = Abs(b[C[s.ci]])
       \/ s.left[D[s.di]] = Abs(b[D[s.di]])
  /\ \A u \in Users : Abs(b[u]) <= 1 => Moved(s.paid, u) = 0
  /\ Gap(s.left, b) = Gap([u \in Users |-> Abs(b[u])], b)
  /\ C = <<>> \/ D = <<>> => s.paid = <<>>

\* Creditors and debtors are listed once each, and nobody is both.
LEMMA MarketFacts ==
  ASSUME NEW b, NEW C, NEW D, Market(b, C, D)
  PROVE  /\ b \in [Users -> Int] /\ Len(C) \in Nat /\ Len(D) \in Nat
         /\ \A i \in 1..Len(C) : C[i] \in Users /\ b[C[i]] > 1
         /\ \A i \in 1..Len(D) : D[i] \in Users /\ b[D[i]] < -1
         /\ \A i, j \in 1..Len(C) : i # j => C[i] # C[j]
         /\ \A i, j \in 1..Len(D) : i # j => D[i] # D[j]
         /\ \A i \in 1..Len(C), j \in 1..Len(D) : C[i] # D[j]
<1>1. /\ b \in [Users -> Int] /\ Len(C) \in Nat /\ Len(D) \in Nat
      /\ \A i, j \in 1..Len(C) : i # j => C[i] # C[j]
      /\ \A i, j \in 1..Len(D) : i # j => D[i] # D[j]
  BY DEF Market, Enumerates
<1>2. \A i \in 1..Len(C) : C[i] \in Lenders(b)
  BY DEF Market, Enumerates
<1>3. \A i \in 1..Len(D) : D[i] \in Borrowers(b)
  BY DEF Market, Enumerates
<1>4. \A i \in 1..Len(C) : C[i] \in Users /\ b[C[i]] > 1
  BY <1>2 DEF Lenders
<1>5. \A i \in 1..Len(D) : D[i] \in Users /\ b[D[i]] < -1
  BY <1>3 DEF Borrowers
<1>6. \A i \in 1..Len(C), j \in 1..Len(D) : C[i] # D[j]
  BY <1>1, <1>4, <1>5
<1> QED
  BY <1>1, <1>4, <1>5, <1>6

\* A round keeps the invariant of the loop and ends a turn, unless one side is through.
LEMMA PayStep ==
  ASSUME NEW b, NEW C, NEW D, Market(b, C, D), NEW s, LoopInv(b, C, D, s)
  PROVE  LET r == Pay(C, D, s)
         IN  /\ LoopInv(b, C, D, r)
             /\ IF s.ci > Len(C) \/ s.di > Len(D) THEN r = s ELSE r.ci + r.di > s.ci + s.di
<1> DEFINE ended == s.ci > Len(C) \/ s.di > Len(D)
<1>1. CASE ended
  BY <1>1 DEF Pay
<1>2. CASE ~ended
  <2>1. /\ s.ci \in 1..Len(C) /\ s.di \in 1..Len(D) /\ Len(C) \in Nat /\ Len(D) \in Nat
        /\ s.left \in [Users -> Int] /\ s.paid \in Seq(Transfer) /\ b \in [Users -> Int]
    BY <1>2 DEF LoopInv, Market, Enumerates
  <2>2. PICK to \in Users, from \in Users : to = C[s.ci] /\ from = D[s.di] /\ b[to] > 1 /\ b[from] < -1
    BY <2>1, MarketFacts
  <2> DEFINE c == s.left[to]
             d == s.left[from]
             B == [u \in Users |-> Abs(b[u])]
  <2>3. /\ \A u \in Users : B[u] = Abs(b[u]) /\ Abs(b[u]) \in Nat
        /\ c \in 1..B[to] /\ d \in 1..B[from] /\ (c = B[to] \/ d = B[from])
        /\ B[to] > 1 /\ B[from] > 1 /\ to # from
    <3>1. \A u \in Users : Abs(b[u]) \in Nat
      BY <2>1 DEF Abs
    <3>2. c \in 1..Abs(b[to]) /\ d \in 1..Abs(b[from]) /\ (c = Abs(b[to]) \/ d = Abs(b[from]))
      <4>1. c \in 1..Abs(b[to])
        <5>1. Side(C, s.ci, s.left, b, Received(s.paid))
          BY DEF LoopInv
        <5> QED
          BY <2>1, <2>2, <5>1 DEF Side
      <4>2. d \in 1..Abs(b[from])
        <5>1. Side(D, s.di, s.left, b, Given(s.paid))
          BY DEF LoopInv
        <5> QED
          BY <2>1, <2>2, <5>1 DEF Side
      <4>3. c = Abs(b[to]) \/ d = Abs(b[from])
        <5>1. s.left[C[s.ci]] = Abs(b[C[s.ci]]) \/ s.left[D[s.di]] = Abs(b[D[s.di]])
          BY <2>1 DEF LoopInv
        <5> QED
          BY <2>2, <5>1
      <4> QED
        BY <4>1, <4>2, <4>3
    <3>3. Abs(b[to]) > 1 /\ Abs(b[from]) > 1 /\ to # from
      BY <2>1, <2>2 DEF Abs
    <3> QED
      BY <3>1, <3>2, <3>3
  <2> HIDE DEF c, d, B
  <2>4. PICK a : a = Min({c, d})
    OBVIOUS
  <2>5. a \in Int /\ a \in 1..c /\ a \in 1..d /\ (a = c \/ a = d)
    <3>1. PICK x \in {c, d} : \A y \in {c, d} : x <= y
      BY <2>3
    <3>2. a \in {c, d} /\ a <= c /\ a <= d
      BY <2>4, <3>1 DEF Min
    <3> QED
      BY <2>3, <3>2
  <2>6. a = 1 => (c = 1 \/ c = B[to]) /\ (d = 1 \/ d = B[from])
    BY <2>3, <2>5
  <2> DEFINE left == [s.left EXCEPT ![to] = c - a, ![from] = d - a]
             m == [from |-> from, to |-> to, amount |-> a]
             paid == IF a > 1 THEN Append(s.paid, m) ELSE s.paid
             ci == IF left[to] < 1 THEN s.ci + 1 ELSE s.ci
             di == IF left[from] < 1 THEN s.di + 1 ELSE s.di
             r == [ci |-> ci, di |-> di, left |-> left, paid |-> paid]
  <2>7. Pay(C, D, s) = r
    <3>1. /\ Min({s.left[C[s.ci]], s.left[D[s.di]]}) = a
          /\ [s.left EXCEPT ![C[s.ci]] = @ - a, ![D[s.di]] = @ - a] = left
          /\ left[C[s.ci]] = left[to] /\ left[D[s.di]] = left[from]
      BY <2>1, <2>2, <2>3, <2>4 DEF c, d
    <3> HIDE DEF left
    <3>2. /\ s.ci + (IF left[to] < 1 THEN 1 ELSE 0) = ci
          /\ s.di + (IF left[from] < 1 THEN 1 ELSE 0) = di
      BY <2>1
    <3> HIDE DEF ci, di
    <3> QED
      BY <1>2, <2>2, <3>1, <3>2 DEF Pay, Advance
  <2>8. /\ left \in [Users -> Int] /\ left[to] = c - a /\ left[from] = d - a
        /\ \A u \in Users \ {to, from} : left[u] = s.left[u]
    BY <2>1, <2>3, <2>5
  <2>9. /\ paid \in Seq(Transfer)
        /\ \A u \in Users : /\ Moved(s.paid, u) \in Int
                            /\ Moved(paid, u) = Moved(s.paid, u) + (IF a > 1 /\ u = from THEN a ELSE 0)
                                                                 - (IF a > 1 /\ u = to THEN a ELSE 0)
    <3>1. m \in Transfer /\ m.from = from /\ m.to = to /\ m.amount = a
      BY <2>5 DEF Transfer
    <3> HIDE DEF m
    <3>2. \A u \in Users : /\ Moved(s.paid, u) \in Int
                           /\ Moved(Append(s.paid, m), u) = Moved(s.paid, u)
                                + (IF m.from = u THEN m.amount ELSE 0) - (IF m.to = u THEN m.amount ELSE 0)
      BY <2>1, <3>1, MovedStep
    <3>3. CASE a > 1
      BY <2>1, <3>1, <3>2, <3>3
    <3>4. CASE ~(a > 1)
      BY <2>1, <3>2, <3>4
    <3> QED
      BY <3>3, <3>4
  <2>10. /\ r.ci = ci /\ r.di = di /\ r.left = left /\ r.paid = paid
    OBVIOUS
  <2>11. /\ \A u \in Users : /\ Received(s.paid)[u] = -Moved(s.paid, u) /\ Given(s.paid)[u] = Moved(s.paid, u)
                             /\ Received(paid)[u] = -Moved(paid, u) /\ Given(paid)[u] = Moved(paid, u)
    BY DEF Received, Given
  <2> HIDE DEF left, paid, ci, di, r
  <2>12. /\ \A i \in 1..Len(C) : C[i] \in Users /\ b[C[i]] > 1
         /\ \A i \in 1..Len(D) : D[i] \in Users /\ b[D[i]] < -1
         /\ \A i, j \in 1..Len(C) : i # j => C[i] # C[j]
         /\ \A i, j \in 1..Len(D) : i # j => D[i] # D[j]
         /\ \A i \in 1..Len(C), j \in 1..Len(D) : C[i] # D[j]
    BY MarketFacts
  <2>13. Side(C, ci, left, b, Received(paid))
    <3> DEFINE k == s.ci
               got == Received(s.paid)
               got2 == Received(paid)
    <3>1. /\ Len(C) \in Nat /\ k \in 1..Len(C) /\ Side(C, k, s.left, b, got)
          /\ \A i, j \in 1..Len(C) : i # j => C[i] # C[j]
      BY <2>1, <2>12 DEF LoopInv
    <3>2. \A i \in 1..Len(C) : /\ s.left[C[i]] \in Int /\ got[C[i]] \in Int
                              /\ Abs(b[C[i]]) \in Int /\ Abs(b[C[i]]) > 1
      <4>1. \A i \in 1..Len(C) : b[C[i]] \in Int /\ b[C[i]] > 1 /\ C[i] \in Users
        BY <2>1, <2>12
      <4>2. \A i \in 1..Len(C) : Abs(b[C[i]]) \in Int /\ Abs(b[C[i]]) > 1
        BY <4>1 DEF Abs
      <4>3. \A u \in Users : s.left[u] \in Int
        BY <2>1
      <4>4. \A u \in Users : Moved(s.paid, u) \in Int
        BY <2>9
      <4>5. \A u \in Users : got[u] = -Moved(s.paid, u)
        BY <2>11
      <4>6. \A u \in Users : s.left[u] \in Int /\ got[u] \in Int
        BY <4>3, <4>4, <4>5
      <4> HIDE DEF got
      <4> QED
        BY <4>1, <4>2, <4>6
    <3>3. /\ a \in 1..s.left[C[k]] /\ left[C[k]] = s.left[C[k]] - a
          /\ a = 1 => s.left[C[k]] = 1 \/ s.left[C[k]] = Abs(b[C[k]])
      BY <2>2, <2>3, <2>5, <2>6, <2>8 DEF c
    <3>4. got2[C[k]] = got[C[k]] + (IF a > 1 THEN a ELSE 0)
      <4>1. Moved(paid, to) = Moved(s.paid, to) - (IF a > 1 THEN a ELSE 0) /\ Moved(s.paid, to) \in Int
        BY <2>3, <2>5, <2>9
      <4> QED
        BY <2>2, <2>5, <2>11, <4>1
    <3>5. \A i \in (1..Len(C)) \ {k} : left[C[i]] = s.left[C[i]] /\ got2[C[i]] = got[C[i]]
      <4> SUFFICES ASSUME NEW i \in (1..Len(C)) \ {k}
                   PROVE  left[C[i]] = s.left[C[i]] /\ got2[C[i]] = got[C[i]]
        OBVIOUS
      <4>1. C[i] \in Users /\ C[i] # to /\ C[i] # from
        BY <2>1, <2>2, <2>12
      <4>2. Moved(paid, C[i]) = Moved(s.paid, C[i])
        BY <2>9, <4>1
      <4> QED
        BY <2>8, <2>11, <4>1, <4>2
    <3>6. ci = IF left[C[k]] < 1 THEN k + 1 ELSE k
      BY <2>2 DEF ci
    <3> HIDE DEF k, got, got2
    <3>7. Side(C, IF left[C[k]] < 1 THEN k + 1 ELSE k, left, b, got2)
      <4>1. Turn(C, k, s.left, b, got)
        BY <3>1, <3>2 DEF Turn
      <4>2. Served(C, k, s.left, b, got, left, got2, a)
        BY <3>3, <3>4, <3>5 DEF Served
      <4> QED
        BY <4>1, <4>2, SideStep
    <3> QED
      BY <3>6, <3>7 DEF got2
  <2>14. Side(D, di, left, b, Given(paid))
    <3> DEFINE k == s.di
               got == Given(s.paid)
               got2 == Given(paid)
    <3>1. /\ Len(D) \in Nat /\ k \in 1..Len(D) /\ Side(D, k, s.left, b, got)
          /\ \A i, j \in 1..Len(D) : i # j => D[i] # D[j]
      BY <2>1, <2>12 DEF LoopInv
    <3>2. \A i \in 1..Len(D) : /\ s.left[D[i]] \in Int /\ got[D[i]] \in Int
                              /\ Abs(b[D[i]]) \in Int /\ Abs(b[D[i]]) > 1
      <4>1. \A i \in 1..Len(D) : b[D[i]] \in Int /\ b[D[i]] < -1 /\ D[i] \in Users
        BY <2>1, <2>12
      <4>2. \A i \in 1..Len(D) : Abs(b[D[i]]) \in Int /\ Abs(b[D[i]]) > 1
        BY <4>1 DEF Abs
      <4>3. \A u \in Users : s.left[u] \in Int
        BY <2>1
      <4>4. \A u \in Users : Moved(s.paid, u) \in Int
        BY <2>9
      <4>5. \A u \in Users : got[u] = Moved(s.paid, u)
        BY <2>11
      <4>6. \A u \in Users : s.left[u] \in Int /\ got[u] \in Int
        BY <4>3, <4>4, <4>5
      <4> HIDE DEF got
      <4> QED
        BY <4>1, <4>2, <4>6
    <3>3. /\ a \in 1..s.left[D[k]] /\ left[D[k]] = s.left[D[k]] - a
          /\ a = 1 => s.left[D[k]] = 1 \/ s.left[D[k]] = Abs(b[D[k]])
      BY <2>2, <2>3, <2>5, <2>6, <2>8 DEF d
    <3>4. got2[D[k]] = got[D[k]] + (IF a > 1 THEN a ELSE 0)
      <4>1. Moved(paid, from) = Moved(s.paid, from) + (IF a > 1 THEN a ELSE 0) /\ Moved(s.paid, from) \in Int
        BY <2>3, <2>5, <2>9
      <4> QED
        BY <2>2, <2>5, <2>11, <4>1
    <3>5. \A i \in (1..Len(D)) \ {k} : left[D[i]] = s.left[D[i]] /\ got2[D[i]] = got[D[i]]
      <4> SUFFICES ASSUME NEW i \in (1..Len(D)) \ {k}
                   PROVE  left[D[i]] = s.left[D[i]] /\ got2[D[i]] = got[D[i]]
        OBVIOUS
      <4>1. D[i] \in Users /\ D[i] # to /\ D[i] # from
        BY <2>1, <2>2, <2>12
      <4>2. Moved(paid, D[i]) = Moved(s.paid, D[i])
        BY <2>9, <4>1
      <4> QED
        BY <2>8, <2>11, <4>1, <4>2
    <3>6. di = IF left[D[k]] < 1 THEN k + 1 ELSE k
      BY <2>2 DEF di
    <3> HIDE DEF k, got, got2
    <3>7. Side(D, IF left[D[k]] < 1 THEN k + 1 ELSE k, left, b, got2)
      <4>1. Turn(D, k, s.left, b, got)
        BY <3>1, <3>2 DEF Turn
      <4>2. Served(D, k, s.left, b, got, left, got2, a)
        BY <3>3, <3>4, <3>5 DEF Served
      <4> QED
        BY <4>1, <4>2, SideStep
    <3> QED
      BY <3>6, <3>7 DEF got2
  <2>15. ci <= Len(C) /\ di <= Len(D) => left[C[ci]] = Abs(b[C[ci]]) \/ left[D[di]] = Abs(b[D[di]])
    <3>1. ASSUME a = c, s.ci + 1 <= Len(C) PROVE ci = s.ci + 1 /\ left[C[ci]] = Abs(b[C[ci]])
      <4>1. ci = s.ci + 1
        BY <2>3, <2>5, <2>8, <3>1 DEF ci
      <4>2. ci \in 1..Len(C) /\ ci > s.ci
        BY <2>1, <3>1, <4>1
      <4>3. s.left[C[ci]] = Abs(b[C[ci]])
        BY <4>2 DEF LoopInv, Side
      <4>4. C[ci] \in Users /\ C[ci] # to /\ C[ci] # from
        BY <2>1, <2>2, <2>12, <4>1, <4>2
      <4> QED
        BY <2>8, <4>1, <4>3, <4>4
    <3>2. ASSUME a = d, s.di + 1 <= Len(D) PROVE di = s.di + 1 /\ left[D[di]] = Abs(b[D[di]])
      <4>1. di = s.di + 1
        BY <2>3, <2>5, <2>8, <3>2 DEF di
      <4>2. di \in 1..Len(D) /\ di > s.di
        BY <2>1, <3>2, <4>1
      <4>3. s.left[D[di]] = Abs(b[D[di]])
        BY <4>2 DEF LoopInv, Side
      <4>4. D[di] \in Users /\ D[di] # to /\ D[di] # from
        BY <2>1, <2>2, <2>12, <4>1, <4>2
      <4> QED
        BY <2>8, <4>1, <4>3, <4>4
    <3>3. (a = c => ci = s.ci + 1) /\ (a = d => di = s.di + 1)
      BY <2>3, <2>5, <2>8 DEF ci, di
    <3> QED
      BY <2>5, <3>1, <3>2, <3>3
  <2>16. \A u \in Users : Abs(b[u]) <= 1 => Moved(paid, u) = 0
    <3> SUFFICES ASSUME NEW u \in Users, Abs(b[u]) <= 1 PROVE Moved(paid, u) = 0
      OBVIOUS
    <3>1. u # to /\ u # from
      BY <2>3
    <3>2. Moved(s.paid, u) = 0
      BY DEF LoopInv
    <3> QED
      BY <2>9, <3>1, <3>2
  <2>17. Gap(left, b) = Gap(B, b)
    <3>1. /\ to \in Lenders(b) /\ from \notin Lenders(b) /\ IsFiniteSet(Lenders(b))
          /\ from \in Borrowers(b) /\ to \notin Borrowers(b) /\ IsFiniteSet(Borrowers(b))
          /\ Lenders(b) \subseteq Users /\ Borrowers(b) \subseteq Users
      BY <2>1, <2>2, UsersAssumption, FS_Subset DEF Lenders, Borrowers
    <3>2. Sum(left, Lenders(b)) = Sum(s.left, Lenders(b)) + (left[to] - s.left[to])
      <4>1. /\ \A u \in Lenders(b) : left[u] \in Int /\ s.left[u] \in Int
            /\ \A u \in Lenders(b) \ {to} : left[u] = s.left[u]
        BY <2>1, <2>8, <3>1
      <4> QED
        BY <3>1, <4>1, SumChange
    <3>3. Sum(left, Borrowers(b)) = Sum(s.left, Borrowers(b)) + (left[from] - s.left[from])
      <4>1. /\ \A u \in Borrowers(b) : left[u] \in Int /\ s.left[u] \in Int
            /\ \A u \in Borrowers(b) \ {from} : left[u] = s.left[u]
        BY <2>1, <2>8, <3>1
      <4> QED
        BY <3>1, <4>1, SumChange
    <3>4. Sum(s.left, Lenders(b)) \in Int /\ Sum(s.left, Borrowers(b)) \in Int
      <4>1. \A u \in Users : s.left[u] \in Int
        BY <2>1
      <4> QED
        BY <3>1, <4>1, SumType
    <3>5. left[to] - s.left[to] = -a /\ left[from] - s.left[from] = -a
      BY <2>1, <2>5, <2>8 DEF c, d
    <3>6. Gap(left, b) = Gap(s.left, b)
      BY <2>5, <3>2, <3>3, <3>4, <3>5 DEF Gap
    <3> QED
      BY <3>6 DEF LoopInv, B
  <2>18. ci \in 1..(Len(C) + 1) /\ di \in 1..(Len(D) + 1) /\ ci + di > s.ci + s.di
    <3>1. (a = c => left[to] < 1) /\ (a = d => left[from] < 1)
      BY <2>3, <2>5, <2>8
    <3>2. \/ ci = s.ci + 1 /\ di \in {s.di, s.di + 1}
          \/ di = s.di + 1 /\ ci \in {s.ci, s.ci + 1}
      BY <2>5, <3>1 DEF ci, di
    <3>3. s.ci \in 1..Len(C) /\ s.di \in 1..Len(D) /\ Len(C) \in Nat /\ Len(D) \in Nat
      BY <2>1
    <3> QED
      BY <3>2, <3>3
  <2>19. C # <<>> /\ D # <<>>
    BY <2>1
  <2> QED
    BY <2>7, <2>8, <2>9, <2>10, <2>13, <2>14, <2>15, <2>16, <2>17, <2>18, <2>19, <1>2 DEF LoopInv, B
<1> QED
  BY <1>1, <1>2

-----------------------------------------------------------------------------
\* The rounds of the loop.

Start(b) == [ci |-> 1, di |-> 1, left |-> [u \in Users |-> Abs(b[u])], paid |-> <<>>]
\* h[n] is the loop after n rounds.
Rounds(h, N, b, C, D) == h = [n \in 0..N |-> IF n = 0 THEN Start(b) ELSE Pay(C, D, h[n - 1])]

\* The recursion of Settlements is well defined.
LEMMA RoundsExist ==
  ASSUME NEW N \in Nat, NEW b, NEW C, NEW D
  PROVE  \E h : Rounds(h, N, b, C, D)
<1> DEFINE F == {n \in 0..N : \E h : Rounds(h, n, b, C, D)}
<1> SUFFICES ASSUME N \notin F PROVE FALSE
  OBVIOUS
<1>1. PICK n \in 0..N : n \notin F /\ \A k \in 0..(n - 1) : k \in F
  <2> HIDE DEF F
  <2> QED
    BY LeastNumber
<1>2. CASE n = 0
  <2> DEFINE h == [i \in 0..0 |-> Start(b)]
  <2>1. \A i \in 0..0 : i = 0
    OBVIOUS
  <2>2. h = [i \in 0..0 |-> IF i = 0 THEN Start(b) ELSE Pay(C, D, h[i - 1])]
    <3>1. \A i \in 0..0 : h[i] = IF i = 0 THEN Start(b) ELSE Pay(C, D, h[i - 1])
      BY <2>1
    <3>2. h = [i \in 0..0 |-> h[i]]
      OBVIOUS
    <3> HIDE DEF h
    <3> QED
      BY <3>1, <3>2
  <2>3. Rounds(h, 0, b, C, D)
    BY <2>2 DEF Rounds
  <2> QED
    BY <1>1, <1>2, <2>3
<1>3. CASE n # 0
  <2>1. n - 1 \in 0..(n - 1)
    BY <1>3
  <2>2. PICK g : Rounds(g, n - 1, b, C, D)
    BY <1>1, <2>1
  <2> DEFINE h == [i \in 0..n |-> IF i = n THEN Pay(C, D, g[n - 1]) ELSE g[i]]
  <2>3. g = [i \in 0..(n - 1) |-> IF i = 0 THEN Start(b) ELSE Pay(C, D, g[i - 1])]
    BY <2>2 DEF Rounds
  <2>4. \A i \in 0..(n - 1) : h[i] = g[i] /\ g[i] = IF i = 0 THEN Start(b) ELSE Pay(C, D, g[i - 1])
    <3>1. \A i \in 0..(n - 1) : i # n /\ i \in 0..n
      OBVIOUS
    <3> QED
      BY <2>3, <3>1
  <2>5. h[n] = Pay(C, D, g[n - 1]) /\ h = [i \in 0..n |-> h[i]]
    OBVIOUS
  <2> HIDE DEF h
  <2>6. \A i \in 0..n : h[i] = IF i = 0 THEN Start(b) ELSE Pay(C, D, h[i - 1])
    <3> SUFFICES ASSUME NEW i \in 0..n
                 PROVE  h[i] = IF i = 0 THEN Start(b) ELSE Pay(C, D, h[i - 1])
      OBVIOUS
    <3>1. CASE i = n
      BY <1>3, <2>1, <2>4, <2>5, <3>1
    <3>2. CASE i = 0
      BY <1>3, <2>4, <3>2
    <3>3. CASE i # n /\ i # 0
      <4>1. i \in 0..(n - 1) /\ i - 1 \in 0..(n - 1)
        BY <3>3
      <4> QED
        BY <2>4, <3>3, <4>1
    <3> QED
      BY <3>1, <3>2, <3>3
  <2>7. Rounds(h, n, b, C, D)
    BY <2>5, <2>6 DEF Rounds
  <2> QED
    BY <1>1, <2>7
<1> QED
  BY <1>2, <1>3

\* The loop starts with its invariant.
LEMMA StartInv ==
  ASSUME NEW b, NEW C, NEW D, Market(b, C, D)
  PROVE  LoopInv(b, C, D, Start(b))
<1> DEFINE s == Start(b)
           B == [u \in Users |-> Abs(b[u])]
<1>1. s.ci = 1 /\ s.di = 1 /\ s.left = B /\ s.paid = <<>>
  BY DEF Start
<1>2. \A u \in Users : Abs(b[u]) \in Nat /\ B[u] = Abs(b[u])
  BY DEF Abs, Market
<1>3. \A u \in Users : Moved(<<>>, u) = 0
  <2> SUFFICES ASSUME NEW u \in Users PROVE Moved(<<>>, u) = 0
    OBVIOUS
  <2> DEFINE m == [from |-> u, to |-> u, amount |-> 0]
  <2>1. m \in Transfer /\ <<>> \in Seq(Transfer)
    BY DEF Transfer
  <2> QED
    BY <2>1, MovedStep
<1>4. /\ Len(C) \in Nat /\ Len(D) \in Nat
      /\ \A i \in 1..Len(C) : C[i] \in Users /\ Abs(b[C[i]]) > 1
      /\ \A i \in 1..Len(D) : D[i] \in Users /\ Abs(b[D[i]]) > 1
  BY MarketFacts DEF Abs
<1>5. \A u \in Users : Received(<<>>)[u] = 0 /\ Given(<<>>)[u] = 0
  BY <1>3 DEF Received, Given
<1> HIDE DEF B
<1>6. Side(C, 1, B, b, Received(<<>>))
  <2> SUFFICES ASSUME NEW i \in 1..Len(C)
               PROVE  /\ B[C[i]] = Abs(b[C[i]]) /\ B[C[i]] \in 1..Abs(b[C[i]])
                      /\ Abs(b[C[i]]) - B[C[i]] - Received(<<>>)[C[i]] = 0 /\ ~(i < 1)
    BY DEF Side
  <2>1. /\ C[i] \in Users /\ B[C[i]] = Abs(b[C[i]]) /\ Abs(b[C[i]]) \in Nat
        /\ Abs(b[C[i]]) > 1 /\ Received(<<>>)[C[i]] = 0
    BY <1>2, <1>4, <1>5
  <2> QED
    BY <2>1
<1>7. Side(D, 1, B, b, Given(<<>>))
  <2> SUFFICES ASSUME NEW i \in 1..Len(D)
               PROVE  /\ B[D[i]] = Abs(b[D[i]]) /\ B[D[i]] \in 1..Abs(b[D[i]])
                      /\ Abs(b[D[i]]) - B[D[i]] - Given(<<>>)[D[i]] = 0 /\ ~(i < 1)
    BY DEF Side
  <2>1. /\ D[i] \in Users /\ B[D[i]] = Abs(b[D[i]]) /\ Abs(b[D[i]]) \in Nat
        /\ Abs(b[D[i]]) > 1 /\ Given(<<>>)[D[i]] = 0
    BY <1>2, <1>4, <1>5
  <2> QED
    BY <2>1
<1>8. 1 \in 1..(Len(C) + 1) /\ 1 \in 1..(Len(D) + 1) /\ <<>> \in Seq(Transfer) /\ B \in [Users -> Int]
  BY <1>2, <1>4 DEF B
<1>9. 1 <= Len(C) => B[C[1]] = Abs(b[C[1]])
  BY <1>2, <1>4
<1> HIDE DEF s
<1>10. Gap(s.left, b) = Gap([u \in Users |-> Abs(b[u])], b)
  BY <1>1 DEF B
<1> QED
  BY <1>1, <1>3, <1>6, <1>7, <1>8, <1>9, <1>10 DEF LoopInv, s

\* After so many rounds as there are creditors and debtors one side is through.
LEMMA RoundsEnd ==
  ASSUME NEW b, NEW C, NEW D, Market(b, C, D), NEW h, Rounds(h, Len(C) + Len(D), b, C, D)
  PROVE  LET s == h[Len(C) + Len(D)]
         IN  LoopInv(b, C, D, s) /\ (s.ci > Len(C) \/ s.di > Len(D))
<1> DEFINE N == Len(C) + Len(D)
           F == {n \in 0..N : /\ LoopInv(b, C, D, h[n])
                              /\ \/ h[n].ci > Len(C) \/ h[n].di > Len(D)
                                 \/ h[n].ci + h[n].di >= n + 2}
<1>1. N \in Nat /\ Len(C) \in Nat /\ Len(D) \in Nat
  BY MarketFacts
<1>2. h[0] = Start(b) /\ \A n \in 1..N : h[n] = Pay(C, D, h[n - 1])
  <2>1. h = [n \in 0..N |-> IF n = 0 THEN Start(b) ELSE Pay(C, D, h[n - 1])]
    BY DEF Rounds
  <2>2. 0 \in 0..N /\ \A n \in 1..N : n \in 0..N /\ n # 0
    BY <1>1
  <2> HIDE DEF N
  <2> QED
    BY <2>1, <2>2
<1> HIDE DEF N
<1>3. N \in F
  <2> SUFFICES ASSUME N \notin F PROVE FALSE
    OBVIOUS
  <2>1. PICK n \in 0..N : n \notin F /\ \A k \in 0..(n - 1) : k \in F
    <3>1. N \in 0..N
      BY <1>1
    <3> HIDE DEF F
    <3> QED
      BY <1>1, <3>1, LeastNumber
  <2>2. CASE n = 0
    <3>1. h[0].ci + h[0].di >= 0 + 2
      BY <1>2 DEF Start
    <3>2. LoopInv(b, C, D, h[0])
      BY <1>2, StartInv
    <3> QED
      BY <2>1, <2>2, <3>1, <3>2
  <2>3. CASE n # 0
    <3> DEFINE s == h[n - 1]
    <3>1. n - 1 \in 0..(n - 1) /\ n \in 1..N
      BY <2>3
    <3>2. /\ LoopInv(b, C, D, s) /\ h[n] = Pay(C, D, s)
          /\ s.ci > Len(C) \/ s.di > Len(D) \/ s.ci + s.di >= (n - 1) + 2
      BY <1>2, <2>1, <3>1
    <3>3. /\ s.ci \in Int /\ s.di \in Int
      BY <1>1, <3>2 DEF LoopInv
    <3>4. /\ LoopInv(b, C, D, h[n])
          /\ IF s.ci > Len(C) \/ s.di > Len(D) THEN h[n] = s ELSE h[n].ci + h[n].di > s.ci + s.di
      <4> HIDE DEF s
      <4> QED
        BY <3>2, PayStep
    <3>5. h[n].ci \in 1..(Len(C) + 1) /\ h[n].di \in 1..(Len(D) + 1)
      BY <3>4 DEF LoopInv
    <3> HIDE DEF s
    <3>6. h[n].ci > Len(C) \/ h[n].di > Len(D) \/ h[n].ci + h[n].di >= n + 2
      <4>1. CASE s.ci > Len(C) \/ s.di > Len(D)
        BY <3>4, <4>1
      <4>2. CASE ~(s.ci > Len(C) \/ s.di > Len(D))
        BY <3>2, <3>3, <3>4, <3>5, <4>2
      <4> QED
        BY <4>1, <4>2
    <3> QED
      BY <2>1, <3>4, <3>6
  <2> QED
    BY <2>2, <2>3
<1>4. LoopInv(b, C, D, h[N]) /\ (h[N].ci > Len(C) \/ h[N].di > Len(D) \/ h[N].ci + h[N].di >= N + 2)
  BY <1>3
<1>5. h[N].ci \in Int /\ h[N].di \in Int
  BY <1>1, <1>4 DEF LoopInv
<1> QED
  BY <1>1, <1>4, <1>5 DEF N

\* The transfers that Settlements returns are those of a loop that has come to its end.
LEMMA SettlementsEnd ==
  ASSUME NEW b \in [Users -> Int]
  PROVE  \E C, D, s : /\ Market(b, C, D) /\ LoopInv(b, C, D, s)
                      /\ s.ci > Len(C) \/ s.di > Len(D)
                      /\ Settlements(b) = s.paid
<1> DEFINE P == {u \in DOMAIN b : b[u] > 1}
           Q == {u \in DOMAIN b : b[u] < -1}
<1>1. PICK C, D : C = Ranked(b, P) /\ D = Ranked(b, Q)
  OBVIOUS
<1>2. P = Lenders(b) /\ Q = Borrowers(b)
  BY DEF Lenders, Borrowers
<1>3. PICK S, T : /\ S = Lenders(b) /\ T = Borrowers(b) /\ C = Ranked(b, S) /\ D = Ranked(b, T)
                  /\ S \in SUBSET Users /\ T \in SUBSET Users
  BY <1>1, <1>2
<1>4. Market(b, C, D)
  <2>1. (\A u \in S : b[u] \in Int) /\ \A u \in T : b[u] \in Int
    BY <1>3
  <2>2. Enumerates(C, S)
    <3>1. /\ C \in [1..Cardinality(S) -> S] /\ Len(C) = Cardinality(S) /\ Len(C) \in Nat
          /\ \A i, j \in 1..Len(C) : i # j => C[i] # C[j]
          /\ \A u \in S : \E i \in 1..Len(C) : C[i] = u
      BY <1>3, <2>1, RankedAll
    <3>2. C \in [1..Len(C) -> S]
      BY <3>1
    <3> QED
      BY <3>1, <3>2 DEF Enumerates
  <2>3. Enumerates(D, T)
    <3>1. /\ D \in [1..Cardinality(T) -> T] /\ Len(D) = Cardinality(T) /\ Len(D) \in Nat
          /\ \A i, j \in 1..Len(D) : i # j => D[i] # D[j]
          /\ \A u \in T : \E i \in 1..Len(D) : D[i] = u
      BY <1>3, <2>1, RankedAll
    <3>2. D \in [1..Len(D) -> T]
      BY <3>1
    <3> QED
      BY <3>1, <3>2 DEF Enumerates
  <2> QED
    BY <1>3, <2>2, <2>3 DEF Market
<1> DEFINE N == Len(C) + Len(D)
<1>5. N \in Nat /\ N \in 0..N
  BY <1>4, MarketFacts
<1>6. PICK g : Rounds(g, N, b, C, D)
  BY <1>5, RoundsExist
<1>7. PICK h : Rounds(h, N, b, C, D) /\ Settlements(b) = h[N].paid
  <2>1. g = [n \in 0..N |->
               IF n = 0 THEN [ci |-> 1, di |-> 1, left |-> [u \in DOMAIN b |-> Abs(b[u])], paid |-> <<>>]
               ELSE Pay(C, D, g[n - 1])]
    <3>1. DOMAIN b = Users
      OBVIOUS
    <3> HIDE DEF N
    <3> QED
      BY <1>6, <3>1 DEF Rounds, Start
  <2>2. PICK h :
          /\ h = [n \in 0..N |->
                   IF n = 0 THEN [ci |-> 1, di |-> 1, left |-> [u \in DOMAIN b |-> Abs(b[u])], paid |-> <<>>]
                   ELSE Pay(C, D, h[n - 1])]
          /\ Settlements(b) = h[N].paid
    BY <1>1, <2>1 DEF Settlements
  <2>3. Rounds(h, N, b, C, D)
    <3>1. DOMAIN b = Users
      OBVIOUS
    <3> HIDE DEF N
    <3> QED
      BY <2>2, <3>1 DEF Rounds, Start
  <2> QED
    BY <2>2, <2>3
<1> QED
  BY <1>4, <1>7, RoundsEnd

-----------------------------------------------------------------------------
\* What the suggested transfers leave of the balances.

\* Those who owe or get a cent at most, and take no part.
Small(b) == Users \ (Lenders(b) \cup Borrowers(b))

\* A creditor and a debtor are two participants who are not small.
LEMMA SmallFew ==
  ASSUME NEW b \in [Users -> Int]
  PROVE  /\ Cardinality(Users) \in Nat /\ Cardinality(Small(b)) \in Nat
         /\ Cardinality(Small(b)) <= Cardinality(Users)
         /\ \A u \in Lenders(b), v \in Borrowers(b) : Cardinality(Small(b)) + 2 <= Cardinality(Users)
<1>1. IsFiniteSet(Users) /\ IsFiniteSet(Small(b)) /\ Small(b) \in SUBSET Users
  BY UsersAssumption, FS_Subset DEF Small
<1>2. /\ Cardinality(Users) \in Nat /\ Cardinality(Small(b)) \in Nat
      /\ Cardinality(Small(b)) <= Cardinality(Users)
  BY <1>1, FS_CardinalityType, FS_Subset
<1>3. ASSUME NEW u \in Lenders(b), NEW v \in Borrowers(b)
      PROVE  Cardinality(Small(b)) + 2 <= Cardinality(Users)
  <2>1. PICK V : V = Users \ {u}
    OBVIOUS
  <2>2. PICK W : W = V \ {v}
    OBVIOUS
  <2>3. u \in Users /\ v \in V /\ Small(b) \subseteq W
    BY <2>1, <2>2 DEF Lenders, Borrowers, Small
  <2>4. IsFiniteSet(V) /\ Cardinality(V) = Cardinality(Users) - 1
    BY <1>1, <2>1, <2>3, FS_RemoveElement
  <2>5. IsFiniteSet(W) /\ Cardinality(W) = Cardinality(V) - 1
    BY <2>2, <2>3, <2>4, FS_RemoveElement
  <2>6. Cardinality(Small(b)) <= Cardinality(W)
    BY <2>3, <2>5, FS_Subset
  <2> QED
    BY <1>2, <2>4, <2>5, <2>6
<1> QED
  BY <1>2, <1>3

\* The gap between what the creditors get and what the debtors owe is the balance of all
\* without the small ones.
LEMMA GapIs ==
  ASSUME NEW b \in [Users -> Int]
  PROVE  /\ Sum(b, Users) \in Int /\ Sum(b, Small(b)) \in Int
         /\ Gap([u \in Users |-> Abs(b[u])], b) = Sum(b, Users) - Sum(b, Small(b))
         /\ Sum(b, Small(b)) \in -Cardinality(Small(b))..Cardinality(Small(b))
<1>1. PICK L, R, M, B, N : /\ L = Lenders(b) /\ R = Borrowers(b) /\ M = Small(b)
                           /\ B = [u \in Users |-> Abs(b[u])] /\ N = [u \in Users |-> -b[u]]
  OBVIOUS
<1>2. /\ IsFiniteSet(Users) /\ IsFiniteSet(L) /\ IsFiniteSet(R) /\ IsFiniteSet(M)
      /\ L \in SUBSET Users /\ R \in SUBSET Users /\ M \in SUBSET Users
      /\ L \cap R = {} /\ (L \cup R) \cap M = {} /\ (L \cup R) \cup M = Users
  <2>1. L \in SUBSET Users /\ R \in SUBSET Users /\ M \in SUBSET Users /\ L \cap R = {}
    BY <1>1 DEF Lenders, Borrowers, Small
  <2>2. IsFiniteSet(Users) /\ IsFiniteSet(L) /\ IsFiniteSet(R) /\ IsFiniteSet(M)
    BY <2>1, UsersAssumption, FS_Subset
  <2> QED
    BY <1>1, <2>1, <2>2 DEF Small
<1>3. \A u \in Users : b[u] \in Int /\ N[u] \in Int /\ N[u] = -b[u] /\ B[u] = Abs(b[u])
  BY <1>1
<1>4. (\A u \in L : B[u] = b[u]) /\ (\A u \in R : B[u] = N[u])
  BY <1>1, <1>2, <1>3 DEF Abs, Lenders, Borrowers
<1>5. \A u \in M : b[u] \in -1..1
  BY <1>1, <1>2, <1>3 DEF Lenders, Borrowers, Small
<1>6. IsFiniteSet(L \cup R) /\ \A u \in L \cup R : b[u] \in Int
  BY <1>2, <1>3, FS_Union
<1>7. Sum(b, Users) = Sum(b, L \cup R) + Sum(b, M)
  <2>1. Sum(b, (L \cup R) \cup M) = Sum(b, L \cup R) + Sum(b, M)
    <3>1. \A u \in (L \cup R) \cup M : b[u] \in Int
      BY <1>2, <1>3
    <3> QED
      BY <1>2, <1>6, <3>1, SumUnion
  <2> QED
    BY <1>2, <2>1
<1>8. Sum(b, L \cup R) = Sum(b, L) + Sum(b, R)
  BY <1>2, <1>6, SumUnion
<1>9. Sum(B, L) = Sum(b, L) /\ Sum(B, R) = Sum(N, R)
  BY <1>2, <1>4, SumSame
<1>10. Sum(b, L) \in Int /\ Sum(b, R) \in Int /\ Sum(b, M) \in Int /\ Sum(b, Users) \in Int
  <2>1. (\A u \in L : b[u] \in Int) /\ (\A u \in R : b[u] \in Int) /\ (\A u \in M : b[u] \in Int)
    BY <1>2, <1>3
  <2> QED
    BY <1>2, <1>3, <2>1, SumType
<1>11. Sum(N, R) = -Sum(b, R)
  <2>1. PICK z : z = [u \in Users |-> 0]
    OBVIOUS
  <2>2. \A u \in R : z[u] \in Int /\ b[u] \in Int /\ N[u] = z[u] - b[u] /\ z[u] = 0
    BY <1>2, <1>3, <2>1
  <2>3. Sum(N, R) = Sum(z, R) - Sum(b, R)
    BY <1>2, <2>2, SumMinus
  <2>4. Sum(z, R) = 0 * Cardinality(R) /\ Cardinality(R) \in Nat
    BY <1>2, <2>2, SumOfConstant, FS_CardinalityType
  <2> QED
    BY <1>10, <2>3, <2>4
<1>12. Sum(b, M) \in -Cardinality(M)..Cardinality(M)
  <2>1. \A u \in M : b[u] \in Int /\ b[u] <= 1 /\ b[u] >= -1
    BY <1>5
  <2>2. Sum(b, M) <= Cardinality(M) /\ Sum(b, M) >= -Cardinality(M) /\ Cardinality(M) \in Nat
    BY <1>2, <2>1, SumWithin, FS_CardinalityType
  <2> QED
    BY <1>10, <2>2
<1>13. Gap(B, b) = Sum(B, L) - Sum(B, R)
  BY <1>1 DEF Gap
<1> QED
  BY <1>1, <1>7, <1>8, <1>9, <1>10, <1>11, <1>12, <1>13

\* Once one side has nothing left, the small ones bound what is left on the other.
LEMMA GapBound ==
  ASSUME NEW b \in [Users -> Int], NEW w, \A u \in Users : w[u] \in Int,
         \A u \in Lenders(b) \cup Borrowers(b) : w[u] >= 0,
         Gap(w, b) = Gap([u \in Users |-> Abs(b[u])], b)
  PROVE  /\ (\A u \in Lenders(b) : w[u] = 0) =>
              \A u \in Borrowers(b) : w[u] <= Cardinality(Small(b)) - Sum(b, Users)
         /\ (\A u \in Borrowers(b) : w[u] = 0) =>
              \A u \in Lenders(b) : w[u] <= Cardinality(Small(b)) + Sum(b, Users)
<1>0. Lenders(b) \in SUBSET Users /\ Borrowers(b) \in SUBSET Users
  BY DEF Lenders, Borrowers
<1>1. PICK L, R : L = Lenders(b) /\ R = Borrowers(b) /\ L \in SUBSET Users /\ R \in SUBSET Users
  BY <1>0
<1>2. IsFiniteSet(L) /\ IsFiniteSet(R)
  BY <1>1, UsersAssumption, FS_Subset
<1>3. (\A u \in L : w[u] \in Int /\ w[u] >= 0) /\ (\A u \in R : w[u] \in Int /\ w[u] >= 0)
  BY <1>1
<1>4. (\A u \in L : w[u] <= Sum(w, L)) /\ (\A u \in R : w[u] <= Sum(w, R))
  BY <1>2, <1>3, SumWithin
<1>5. Sum(w, L) \in Int /\ Sum(w, R) \in Int
  BY <1>2, <1>3, SumType
<1>6. /\ (\A u \in L : w[u] = 0) => Sum(w, L) = 0
      /\ (\A u \in R : w[u] = 0) => Sum(w, R) = 0
  <2>1. Cardinality(L) \in Nat /\ Cardinality(R) \in Nat
    BY <1>2, FS_CardinalityType
  <2>2. ASSUME \A u \in L : w[u] = 0 PROVE Sum(w, L) = 0 * Cardinality(L)
    BY <1>2, <2>2, SumOfConstant
  <2>3. ASSUME \A u \in R : w[u] = 0 PROVE Sum(w, R) = 0 * Cardinality(R)
    BY <1>2, <2>3, SumOfConstant
  <2> QED
    BY <2>1, <2>2, <2>3
<1>7. Sum(w, L) - Sum(w, R) = Gap(w, b)
  BY <1>1 DEF Gap
<1>8. /\ Sum(b, Users) \in Int /\ Sum(b, Small(b)) \in Int
      /\ Gap(w, b) = Sum(b, Users) - Sum(b, Small(b))
      /\ Cardinality(Small(b)) \in Nat
      /\ Sum(b, Small(b)) <= Cardinality(Small(b)) /\ Sum(b, Small(b)) >= -Cardinality(Small(b))
  BY GapIs, SmallFew
<1> HIDE DEF Small
<1>9. ASSUME \A u \in L : w[u] = 0, NEW u \in R PROVE w[u] <= Cardinality(Small(b)) - Sum(b, Users)
  <2>1. Sum(w, L) = 0 /\ w[u] <= Sum(w, R) /\ w[u] \in Int
    BY <1>3, <1>4, <1>6, <1>9
  <2>2. Sum(w, R) = Sum(b, Small(b)) - Sum(b, Users)
    BY <1>5, <1>7, <1>8, <2>1
  <2> QED
    BY <1>5, <1>8, <2>1, <2>2
<1>10. ASSUME \A u \in R : w[u] = 0, NEW u \in L PROVE w[u] <= Cardinality(Small(b)) + Sum(b, Users)
  <2>1. Sum(w, R) = 0 /\ w[u] <= Sum(w, L) /\ w[u] \in Int
    BY <1>3, <1>4, <1>6, <1>10
  <2>2. Sum(w, L) = Sum(b, Users) - Sum(b, Small(b))
    BY <1>5, <1>7, <1>8, <2>1
  <2> QED
    BY <1>5, <1>8, <2>1, <2>2
<1> QED
  BY <1>1, <1>9, <1>10

\* The transfers leave nobody more than a cent per participant, and what was not credited.
LEMMA TransfersEven ==
  ASSUME NEW b \in [Users -> Int], Sum(b, Users) <= 0, NEW u \in Users
  PROVE  /\ Moved(Settlements(b), u) \in Int
         /\ b[u] + Moved(Settlements(b), u) <= Cardinality(Users)
         /\ b[u] + Moved(Settlements(b), u) >= Sum(b, Users) - Cardinality(Users)
<1>1. PICK C, D, s : /\ Market(b, C, D) /\ LoopInv(b, C, D, s)
                     /\ s.ci > Len(C) \/ s.di > Len(D)
                     /\ Settlements(b) = s.paid
  BY SettlementsEnd
<1>2. PICK t, n, m, c : /\ t = s.paid /\ n = Cardinality(Users) /\ m = Cardinality(Small(b))
                        /\ c = Sum(b, Users)
  OBVIOUS
<1>3. /\ n \in Nat /\ m \in Nat /\ m <= n /\ c \in Int /\ c <= 0 /\ n >= 1
      /\ \A v \in Lenders(b), x \in Borrowers(b) : m + 2 <= n
  <2>1. n # 0
    BY <1>2, UsersAssumption, FS_EmptySet
  <2>2. /\ n \in Nat /\ m \in Nat /\ m <= n
        /\ \A v \in Lenders(b), x \in Borrowers(b) : m + 2 <= n
    BY <1>2, SmallFew
  <2>3. c \in Int
    BY <1>2, GapIs
  <2> QED
    BY <1>2, <2>1, <2>2, <2>3
<1>4. /\ Len(C) \in Nat /\ Len(D) \in Nat /\ s.ci \in 1..(Len(C) + 1) /\ s.di \in 1..(Len(D) + 1)
      /\ s.left \in [Users -> Int] /\ s.paid \in Seq(Transfer)
  BY <1>1 DEF LoopInv, Market, Enumerates
<1>5. \A v \in Users : Moved(t, v) \in Int
  <2> SUFFICES ASSUME NEW v \in Users PROVE Moved(t, v) \in Int
    OBVIOUS
  <2> DEFINE x == [from |-> v, to |-> v, amount |-> 0]
  <2>1. x \in Transfer
    BY DEF Transfer
  <2> HIDE DEF x
  <2> QED
    BY <1>2, <1>4, <2>1, MovedStep
<1>6. \A v \in Users : Received(t)[v] = -Moved(t, v) /\ Given(t)[v] = Moved(t, v)
  BY DEF Received, Given
<1>7. \A v \in Lenders(b) : v \in Users /\ b[v] > 1 /\ Abs(b[v]) = b[v] /\ b[v] \in Int
  BY DEF Lenders, Abs
<1>8. \A v \in Borrowers(b) : v \in Users /\ b[v] < -1 /\ Abs(b[v]) = -b[v] /\ b[v] \in Int
  BY DEF Borrowers, Abs
<1>9. ASSUME NEW v \in Lenders(b)
      PROVE  /\ s.left[v] >= 0 /\ (b[v] + Moved(t, v)) - s.left[v] \in 0..2
             /\ s.ci > Len(C) => s.left[v] = 0
  <2>1. PICK i \in 1..Len(C) : C[i] = v
    BY <1>1 DEF Market, Enumerates
  <2>2. Side(C, s.ci, s.left, b, Received(t))
    BY <1>1, <1>2 DEF LoopInv
  <2>3. /\ Abs(b[v]) = b[v] /\ Received(t)[v] = -Moved(t, v) /\ Moved(t, v) \in Int
        /\ b[v] \in Int /\ b[v] > 1 /\ s.left[v] \in Int
    BY <1>4, <1>5, <1>6, <1>7
  <2>4. PICK x, l, y : x = b[v] /\ l = s.left[v] /\ y = Moved(t, v)
    OBVIOUS
  <2>5. /\ i < s.ci => l = 0 /\ x - l - (-y) \in 0..2
        /\ i > s.ci => l = x /\ x - l - (-y) = 0
        /\ i = s.ci => l \in 1..x /\ x - l - (-y) \in 0..1
    BY <2>1, <2>2, <2>3, <2>4 DEF Side
  <2>6. x \in Int /\ x > 1 /\ l \in Int /\ y \in Int /\ i \in Int /\ s.ci \in Int
    BY <1>4, <2>3, <2>4
  <2>7. l >= 0 /\ (x + y) - l \in 0..2 /\ (s.ci > Len(C) => l = 0)
    BY <1>4, <2>5, <2>6
  <2> QED
    BY <2>4, <2>7
<1>10. ASSUME NEW v \in Borrowers(b)
       PROVE  /\ s.left[v] >= 0 /\ -(b[v] + Moved(t, v)) - s.left[v] \in 0..2
              /\ s.di > Len(D) => s.left[v] = 0
  <2>1. PICK i \in 1..Len(D) : D[i] = v
    BY <1>1 DEF Market, Enumerates
  <2>2. Side(D, s.di, s.left, b, Given(t))
    BY <1>1, <1>2 DEF LoopInv
  <2>3. /\ Abs(b[v]) = -b[v] /\ Given(t)[v] = Moved(t, v) /\ Moved(t, v) \in Int
        /\ b[v] \in Int /\ b[v] < -1 /\ s.left[v] \in Int
    BY <1>4, <1>5, <1>6, <1>8
  <2>4. PICK x, l, y : x = b[v] /\ l = s.left[v] /\ y = Moved(t, v)
    OBVIOUS
  <2>5. /\ i < s.di => l = 0 /\ -x - l - y \in 0..2
        /\ i > s.di => l = -x /\ -x - l - y = 0
        /\ i = s.di => l \in 1..(-x) /\ -x - l - y \in 0..1
    BY <2>1, <2>2, <2>3, <2>4 DEF Side
  <2>6. x \in Int /\ x < -1 /\ l \in Int /\ y \in Int /\ i \in Int /\ s.di \in Int
    BY <1>4, <2>3, <2>4
  <2>7. l >= 0 /\ -(x + y) - l \in 0..2 /\ (s.di > Len(D) => l = 0)
    BY <1>4, <2>5, <2>6
  <2> QED
    BY <2>4, <2>7
<1>11. /\ (\A v \in Lenders(b) : s.left[v] = 0) => \A v \in Borrowers(b) : s.left[v] <= m - c
       /\ (\A v \in Borrowers(b) : s.left[v] = 0) => \A v \in Lenders(b) : s.left[v] <= m + c
  <2>1. \A v \in Users : s.left[v] \in Int
    BY <1>4
  <2>2. \A v \in Lenders(b) \cup Borrowers(b) : s.left[v] >= 0
    BY <1>9, <1>10
  <2>3. Gap(s.left, b) = Gap([v \in Users |-> Abs(b[v])], b)
    BY <1>1 DEF LoopInv
  <2> QED
    BY <1>2, <2>1, <2>2, <2>3, GapBound
<1>12. CASE \E v \in Lenders(b), x \in Borrowers(b) : TRUE
  <2>1. m + 2 <= n
    BY <1>3, <1>12
  <2>2. \/ \A v \in Lenders(b) : s.left[v] = 0
        \/ \A v \in Borrowers(b) : s.left[v] = 0
    BY <1>1, <1>9, <1>10
  <2>3. ASSUME u \in Lenders(b) PROVE s.left[u] + 2 <= n
    BY <1>3, <1>9, <1>4, <1>7, <1>11, <2>1, <2>2, <2>3
  <2>4. ASSUME u \in Borrowers(b) PROVE s.left[u] + 2 <= n - c
    BY <1>3, <1>10, <1>4, <1>8, <1>11, <2>1, <2>2, <2>4
  <2>0. PICK x, l, y : x = b[u] /\ l = s.left[u] /\ y = Moved(t, u)
    OBVIOUS
  <2>9. x \in Int /\ l \in Int /\ y \in Int
    BY <1>4, <1>5, <2>0
  <2>5. CASE u \in Lenders(b)
    <3>1. l >= 0 /\ (x + y) - l \in 0..2 /\ l + 2 <= n
      BY <1>9, <2>0, <2>3, <2>5
    <3>2. x + y <= n /\ x + y >= c - n
      BY <1>3, <2>9, <3>1
    <3> QED
      BY <1>1, <1>2, <2>0, <2>9, <3>2
  <2>6. CASE u \in Borrowers(b)
    <3>1. l >= 0 /\ -(x + y) - l \in 0..2 /\ l + 2 <= n - c
      BY <1>10, <2>0, <2>4, <2>6
    <3>2. x + y <= n /\ x + y >= c - n
      BY <1>3, <2>9, <3>1
    <3> QED
      BY <1>1, <1>2, <2>0, <2>9, <3>2
  <2>7. CASE u \notin Lenders(b) /\ u \notin Borrowers(b)
    <3>1. Abs(b[u]) <= 1 /\ b[u] \in -1..1
      BY <2>7 DEF Lenders, Borrowers, Abs
    <3>2. Moved(t, u) = 0
      BY <1>1, <1>2, <3>1 DEF LoopInv
    <3> QED
      BY <1>1, <1>2, <1>3, <3>1, <3>2
  <2> QED
    BY <2>5, <2>6, <2>7
<1>13. CASE ~ \E v \in Lenders(b), x \in Borrowers(b) : TRUE
  <2>1. C = <<>> \/ D = <<>>
    <3>1. Len(C) = 0 \/ Len(D) = 0
      <4>1. \A i \in 1..Len(C) : C[i] \in Lenders(b)
        BY <1>1 DEF Market, Enumerates
      <4>2. \A i \in 1..Len(D) : D[i] \in Borrowers(b)
        BY <1>1 DEF Market, Enumerates
      <4>3. Len(C) >= 1 /\ Len(D) >= 1 => 1 \in 1..Len(C) /\ 1 \in 1..Len(D)
        BY <1>4
      <4> QED
        BY <1>4, <1>13, <4>1, <4>2, <4>3
    <3>2. (Len(C) = 0 => C = <<>>) /\ (Len(D) = 0 => D = <<>>)
      BY <1>1 DEF Market, Enumerates
    <3> QED
      BY <3>1, <3>2
  <2>2. t = <<>>
    BY <1>1, <1>2, <2>1 DEF LoopInv
  <2>3. Moved(t, u) = 0
    <3> DEFINE x == [from |-> u, to |-> u, amount |-> 0]
    <3>1. x \in Transfer
      BY DEF Transfer
    <3> HIDE DEF x
    <3> QED
      BY <1>2, <1>4, <2>2, <3>1, MovedStep
  <2>4. PICK B : B = [v \in Users |-> Abs(b[v])]
    OBVIOUS
  <2>5. \A v \in Users : B[v] = Abs(b[v]) /\ Abs(b[v]) \in Int /\ Abs(b[v]) >= 0
    BY <2>4 DEF Abs
  <2>6. /\ (\A v \in Lenders(b) : B[v] = 0) => \A v \in Borrowers(b) : B[v] <= m - c
        /\ (\A v \in Borrowers(b) : B[v] = 0) => \A v \in Lenders(b) : B[v] <= m + c
    <3>1. \A v \in Lenders(b) \cup Borrowers(b) : B[v] >= 0
      BY <2>5, <1>7, <1>8
    <3>2. \A v \in Users : B[v] \in Int
      BY <2>5
    <3> QED
      BY <1>2, <2>4, <3>1, <3>2, GapBound
  <2>7. CASE u \in Lenders(b)
    <3>1. B[u] <= m + c
      BY <1>13, <2>6, <2>7
    <3> QED
      BY <1>1, <1>2, <1>3, <1>7, <2>3, <2>5, <2>7, <3>1
  <2>8. CASE u \in Borrowers(b)
    <3>1. B[u] <= m - c
      BY <1>13, <2>6, <2>8
    <3> QED
      BY <1>1, <1>2, <1>3, <1>8, <2>3, <2>5, <2>8, <3>1
  <2>9. CASE u \notin Lenders(b) /\ u \notin Borrowers(b)
    <3>1. b[u] \in -1..1
      BY <2>9 DEF Lenders, Borrowers
    <3> QED
      BY <1>1, <1>2, <1>3, <2>3, <3>1
  <2> QED
    BY <2>7, <2>8, <2>9
<1> QED
  BY <1>12, <1>13

-----------------------------------------------------------------------------
\* The balances: what is owed, but for the cents that are not credited.

Lent == [x \in expenses |-> Worth(Open(x, splits))]
Amounts == [s \in splits |-> s.amount]
Owner == [s \in splits |-> Row(s.exp)]
Cents == {x \in expenses : Lent[x] <= 1}

\* There are finitely many expenses, as numbers up to made name them.
LEMMA ExpensesFinite ==
  ASSUME TypeOK, IdsInv
  PROVE  IsFiniteSet(expenses)
<1>1. /\ made \in Nat /\ \A x \in expenses : x.id \in 1..made
      /\ \A x, y \in expenses : x.id = y.id => x = y
  BY BoundsAssumption DEF TypeOK, IdsInv, Ids
<1>2. PICK f, E, N : f = [x \in expenses |-> x.id] /\ E = expenses /\ N = 1..made
  OBVIOUS
<1>3. f \in [E -> N] /\ \A x, y \in E : f[x] = f[y] => x = y
  BY <1>1, <1>2
<1>4. f \in Injection(E, N)
  BY <1>3 DEF Injection, IsInjective
<1>5. IsFiniteSet(N)
  BY <1>1, <1>2, FS_Interval
<1> QED
  BY <1>2, <1>4, <1>5, FS_Injection

\* Every debt belongs to one expense, which lends what its open shares add up to.
LEMMA DebtFacts ==
  ASSUME TypeOK, IdsInv
  PROVE  /\ IsFiniteSet(expenses) /\ IsFiniteSet(Debts) /\ Debts \subseteq splits
         /\ \A s \in Debts : /\ Owner[s] \in expenses /\ Owner[s] = Row(s.exp) /\ s.user \in Users
                             /\ Amounts[s] = s.amount /\ Amounts[s] \in Int
         /\ \A x \in expenses : Open(x, splits) = {s \in Debts : Owner[s] = x} /\ x.payer \in Users
         /\ \A x \in expenses : Lent[x] = Sum(Amounts, Open(x, splits)) /\ Lent[x] \in Int
         /\ (\A s \in splits : s.amount >= 0) => \A x \in expenses : Lent[x] >= 0
<1>1. IsFiniteSet(expenses) /\ IsFiniteSet(splits) /\ Debts \subseteq splits /\ IsFiniteSet(Debts)
  <2>1. Debts \subseteq splits /\ IsFiniteSet(splits)
    BY DEF TypeOK, Debts
  <2> QED
    BY <2>1, ExpensesFinite, FS_Subset
<1>2. /\ \A s \in splits : s.user \in Users /\ s.amount \in Int
      /\ \A x \in expenses : x.payer \in Users
  BY DEF TypeOK, Split, Expense
<1>3. \A x \in expenses : Row(x.id) = x
  BY DEF IdsInv, Row
<1>4. \A s \in splits : Amounts[s] = s.amount /\ Amounts[s] \in Int /\ Owner[s] = Row(s.exp)
  BY <1>2 DEF Amounts, Owner
<1>5. \A x \in expenses : \A s \in Open(x, splits) : s \in Debts /\ s.exp = x.id /\ Owner[s] = x
  <2> SUFFICES ASSUME NEW x \in expenses, NEW s \in Open(x, splits)
               PROVE  s \in Debts /\ s.exp = x.id /\ Owner[s] = x
    OBVIOUS
  <2>1. s \in splits /\ s.exp = x.id
    BY DEF Open
  <2>2. s \in Debts
    BY <2>1 DEF Debts
  <2> QED
    BY <1>3, <1>4, <2>1, <2>2
<1>6. \A s \in Debts : \E x \in expenses : s \in Open(x, splits)
  BY DEF Debts
<1>7. \A s \in Debts : /\ Owner[s] \in expenses /\ Owner[s] = Row(s.exp) /\ s.user \in Users
                       /\ Amounts[s] = s.amount /\ Amounts[s] \in Int
  <2> SUFFICES ASSUME NEW s \in Debts
               PROVE  /\ Owner[s] \in expenses /\ Owner[s] = Row(s.exp) /\ s.user \in Users
                      /\ Amounts[s] = s.amount /\ Amounts[s] \in Int
    OBVIOUS
  <2>1. s \in splits
    BY <1>1
  <2> QED
    BY <1>2, <1>4, <1>5, <1>6, <2>1
<1>8. \A x \in expenses : Open(x, splits) = {s \in Debts : Owner[s] = x}
  <2> SUFFICES ASSUME NEW x \in expenses PROVE Open(x, splits) = {s \in Debts : Owner[s] = x}
    OBVIOUS
  <2>1. ASSUME NEW s \in Debts, Owner[s] = x PROVE s \in Open(x, splits)
    BY <1>5, <1>6, <2>1
  <2> QED
    BY <1>5, <2>1
<1>9. \A x \in expenses :
        /\ Lent[x] = Sum(Amounts, Open(x, splits)) /\ Lent[x] \in Int
        /\ (\A s \in splits : s.amount >= 0) => Lent[x] >= 0
  <2> SUFFICES ASSUME NEW x \in expenses
               PROVE  /\ Lent[x] = Sum(Amounts, Open(x, splits)) /\ Lent[x] \in Int
                      /\ (\A s \in splits : s.amount >= 0) => Lent[x] >= 0
    OBVIOUS
  <2>1. PICK T, w : T = Open(x, splits) /\ w = Amounts
    OBVIOUS
  <2>2. T \subseteq splits /\ IsFiniteSet(T)
    BY <1>1, <2>1, FS_Subset DEF Open
  <2>3. \A s \in T : w[s] = s.amount /\ w[s] \in Int
    BY <1>4, <2>1, <2>2
  <2>4. Worth(T) = Sum(w, T)
    BY <2>2, <2>3, WorthIsSum
  <2>5. Sum(w, T) \in Int
    BY <2>2, <2>3, SumType
  <2>6. (\A s \in T : w[s] >= 0) => Sum(w, T) >= 0
    BY <2>2, <2>3, SumWithin
  <2>7. Lent[x] = Worth(T)
    BY <2>1 DEF Lent
  <2>8. (\A s \in splits : s.amount >= 0) => \A s \in T : w[s] >= 0
    BY <2>2, <2>3
  <2> QED
    BY <2>1, <2>4, <2>5, <2>6, <2>7, <2>8
<1> QED
  BY <1>1, <1>2, <1>7, <1>8, <1>9

\* The credits are the sums of what is lent, the debts those of the open shares.
LEMMA BalancesAre ==
  ASSUME TypeOK, IdsInv
  PROVE  LET b == Balances(Users, expenses, splits)
         IN  /\ b \in [Users -> Int]
             /\ \A u \in Users :
                  b[u] = Sum(Lent, {x \in expenses : x.payer = u /\ Lent[x] > 1})
                         - Sum(Amounts, {s \in Debts : s.user = u})
<1>1. PICK b, lent, am, E : /\ b = Balances(Users, expenses, splits) /\ lent = Lent /\ am = Amounts
                            /\ E = expenses
  OBVIOUS
<1> DEFINE open == [x \in expenses |-> Open(x, splits)]
           A(u) == {x \in expenses : x.payer = u /\ lent[x] > 1}
           O(u) == {s \in Debts : s.user = u}
           C(u) == [x \in A(u) |-> lent[x]]
<1>2. UNION Range(open) = Debts
  <2>1. \A S : S \in Range(open) <=> \E x \in expenses : S = Open(x, splits)
    BY DEF Range
  <2> HIDE DEF open
  <2>2. \A s \in UNION Range(open) : s \in Debts
    <3> SUFFICES ASSUME NEW s \in UNION Range(open) PROVE s \in Debts
      OBVIOUS
    <3>1. PICK x \in expenses : s \in Open(x, splits)
      BY <2>1
    <3> QED
      BY <3>1 DEF Debts, Open
  <2>3. \A s \in Debts : s \in UNION Range(open)
    BY <2>1 DEF Debts
  <2> QED
    BY <2>2, <2>3
<1>3. lent = [x \in expenses |-> Worth(open[x])]
  BY <1>1 DEF Lent
<1>4. b = [u \in Users |-> Total(C(u)) - Worth(O(u))]
  BY <1>1, <1>2, <1>3 DEF Balances
<1>5. ASSUME NEW u \in Users
      PROVE  /\ Total(C(u)) = Sum(lent, A(u)) /\ Worth(O(u)) = Sum(am, O(u))
             /\ Sum(lent, A(u)) \in Int /\ Sum(am, O(u)) \in Int
  <2>1. PICK S, T, c : S = A(u) /\ T = O(u) /\ c = C(u)
    OBVIOUS
  <2>2. IsFiniteSet(S) /\ (\A x \in S : x \in expenses) /\ IsFiniteSet(T) /\ \A s \in T : s \in Debts
    BY <2>1, DebtFacts, FS_Subset
  <2>3. (\A x \in S : lent[x] \in Int /\ c[x] = lent[x]) /\ DOMAIN c = S
    BY <1>1, <2>1, <2>2, DebtFacts
  <2>4. \A s \in T : am[s] = s.amount /\ am[s] \in Int
    BY <1>1, <2>2, DebtFacts
  <2>5. Total(c) = Sum(c, S)
    BY <2>2, <2>3, TotalIsSum
  <2>6. Sum(c, S) = Sum(lent, S)
    BY <2>2, <2>3, SumSame
  <2>7. Worth(T) = Sum(am, T)
    BY <2>2, <2>4, WorthIsSum
  <2>8. Sum(lent, S) \in Int /\ Sum(am, T) \in Int
    BY <2>2, <2>3, <2>4, SumType
  <2> QED
    BY <2>1, <2>5, <2>6, <2>7, <2>8
<1>6. b \in [Users -> Int] /\ \A u \in Users : b[u] = Sum(lent, A(u)) - Sum(am, O(u))
  <2> HIDE DEF A, O, C
  <2> QED
    BY <1>4, <1>5
<1> QED
  BY <1>1, <1>6

\* What a participant is owed is what the participant lent less the own open shares.
LEMMA NetIs ==
  ASSUME TypeOK, IdsInv, NEW u \in Users
  PROVE  Net(u) = Sum(Lent, {x \in expenses : x.payer = u}) - Sum(Amounts, {s \in Debts : s.user = u})
<1>1. PICK lent, am, row : lent = Lent /\ am = Amounts /\ row = Owner
  OBVIOUS
<1>2. PICK P, T, E : /\ P = {s \in Debts : Row(s.exp).payer = u} /\ T = {s \in Debts : s.user = u}
                     /\ E = {x \in expenses : x.payer = u}
  OBVIOUS
<1>3. /\ IsFiniteSet(P) /\ IsFiniteSet(T) /\ IsFiniteSet(E)
      /\ \A s \in P \cup T : am[s] = s.amount /\ am[s] \in Int
  <2>1. P \subseteq Debts /\ T \subseteq Debts /\ E \subseteq expenses
    BY <1>2
  <2> QED
    BY <1>1, <2>1, DebtFacts, FS_Subset
<1>4. Worth(P) = Sum(am, P) /\ Worth(T) = Sum(am, T)
  BY <1>3, WorthIsSum
<1>5. \A s \in P : row[s] \in E
  BY <1>1, <1>2, DebtFacts
<1>6. \A x \in E : lent[x] = Sum(am, {s \in P : row[s] = x})
  <2> SUFFICES ASSUME NEW x \in E PROVE lent[x] = Sum(am, {s \in P : row[s] = x})
    OBVIOUS
  <2>1. x \in expenses /\ x.payer = u
    BY <1>2
  <2>2. Open(x, splits) = {s \in Debts : row[s] = x} /\ \A s \in Debts : row[s] = Row(s.exp)
    BY <1>1, <2>1, DebtFacts
  <2>3. {s \in Debts : row[s] = x} = {s \in P : row[s] = x}
    BY <1>2, <2>1, <2>2
  <2>4. lent[x] = Sum(am, Open(x, splits))
    BY <1>1, <2>1, DebtFacts
  <2> QED
    BY <2>2, <2>3, <2>4
<1>7. Sum(lent, E) = Sum(am, P)
  <2>1. Divides(P, am, E, row, lent)
    BY <1>3, <1>5, <1>6 DEF Divides
  <2> QED
    BY <2>1, SumPartition
<1>8. Net(u) = Worth(P) - Worth(T)
  BY <1>2 DEF Net
<1> QED
  BY <1>1, <1>2, <1>4, <1>7, <1>8

\* All that is lent is owed: the balances add up to what is not credited, a cent per expense.
LEMMA BalancesAddUp ==
  ASSUME TypeOK, IdsInv
  PROVE  /\ Sum(Balances(Users, expenses, splits), Users) = -Sum(Lent, Cents)
         /\ Sum(Lent, Cents) \in Int
<1>1. PICK b, lent, am, row, D, E, Z, F :
        /\ b = Balances(Users, expenses, splits) /\ lent = Lent /\ am = Amounts /\ row = Owner
        /\ D = Debts /\ E = expenses /\ Z = Cents /\ F = {x \in expenses : Lent[x] > 1}
  OBVIOUS
<1>2. PICK cr, ow, payer, user :
        /\ cr = [u \in Users |-> Sum(lent, {x \in E : x.payer = u /\ lent[x] > 1})]
        /\ ow = [u \in Users |-> Sum(am, {s \in D : s.user = u})]
        /\ payer = [x \in E |-> x.payer] /\ user = [s \in D |-> s.user]
  OBVIOUS
<1>3. /\ IsFiniteSet(E) /\ IsFiniteSet(D) /\ IsFiniteSet(Users)
      /\ \A x \in E : lent[x] \in Int /\ payer[x] \in Users /\ payer[x] = x.payer
      /\ \A s \in D : am[s] \in Int /\ user[s] \in Users /\ user[s] = s.user /\ row[s] \in E
      /\ \A x \in E : lent[x] = Sum(am, {s \in D : row[s] = x})
  <2>1. /\ IsFiniteSet(E) /\ IsFiniteSet(D) /\ IsFiniteSet(Users)
        /\ \A x \in E : lent[x] \in Int /\ payer[x] \in Users /\ payer[x] = x.payer
    BY <1>1, <1>2, DebtFacts, UsersAssumption
  <2>2. \A s \in D : am[s] \in Int /\ user[s] \in Users /\ user[s] = s.user /\ row[s] \in E
    BY <1>1, <1>2, DebtFacts
  <2>3. \A x \in E : lent[x] = Sum(am, {s \in D : row[s] = x})
    BY <1>1, DebtFacts
  <2> QED
    BY <2>1, <2>2, <2>3
<1>4. /\ F = {x \in E : lent[x] > 1} /\ F \cup Z = E /\ F \cap Z = {}
      /\ IsFiniteSet(F) /\ IsFiniteSet(Z)
  <2>1. F = {x \in E : lent[x] > 1} /\ Z = {x \in E : lent[x] <= 1}
    BY <1>1 DEF Cents
  <2>2. F \cup Z = E /\ F \cap Z = {}
    BY <1>3, <2>1
  <2> QED
    BY <1>3, <2>1, <2>2, FS_Subset
<1>5. Sum(lent, E) = Sum(am, D)
  <2>1. Divides(D, am, E, row, lent)
    BY <1>3 DEF Divides
  <2> QED
    BY <2>1, SumPartition
<1>6. Sum(ow, Users) = Sum(am, D)
  <2>1. \A u \in Users : ow[u] = Sum(am, {s \in D : user[s] = u})
    <3> SUFFICES ASSUME NEW u \in Users PROVE ow[u] = Sum(am, {s \in D : user[s] = u})
      OBVIOUS
    <3>1. {s \in D : s.user = u} = {s \in D : user[s] = u}
      BY <1>3
    <3> QED
      BY <1>2, <3>1
  <2>2. Divides(D, am, Users, user, ow)
    BY <1>3, <2>1 DEF Divides
  <2> QED
    BY <2>2, SumPartition
<1>7. Sum(cr, Users) = Sum(lent, F)
  <2>1. \A u \in Users : cr[u] = Sum(lent, {x \in F : payer[x] = u})
    <3> SUFFICES ASSUME NEW u \in Users PROVE cr[u] = Sum(lent, {x \in F : payer[x] = u})
      OBVIOUS
    <3>1. {x \in E : x.payer = u /\ lent[x] > 1} = {x \in F : payer[x] = u}
      BY <1>3, <1>4
    <3> QED
      BY <1>2, <3>1
  <2>2. \A x \in F : lent[x] \in Int /\ payer[x] \in Users
    BY <1>3, <1>4
  <2>3. Divides(F, lent, Users, payer, cr)
    BY <1>3, <1>4, <2>1, <2>2 DEF Divides
  <2> QED
    BY <2>3, SumPartition
<1>8. Sum(lent, E) = Sum(lent, F) + Sum(lent, Z)
  <2>1. \A x \in F \cup Z : lent[x] \in Int
    BY <1>3, <1>4
  <2>2. Sum(lent, F \cup Z) = Sum(lent, F) + Sum(lent, Z)
    BY <1>4, <2>1, SumUnion
  <2> QED
    BY <1>4, <2>2
<1>9. Sum(lent, F) \in Int /\ Sum(lent, Z) \in Int
  <2>1. (\A x \in F : lent[x] \in Int) /\ \A x \in Z : lent[x] \in Int
    BY <1>3, <1>4
  <2> QED
    BY <1>4, <2>1, SumType
<1>10. \A u \in Users : cr[u] \in Int /\ ow[u] \in Int /\ b[u] = cr[u] - ow[u]
  <2> SUFFICES ASSUME NEW u \in Users PROVE cr[u] \in Int /\ ow[u] \in Int /\ b[u] = cr[u] - ow[u]
    OBVIOUS
  <2>1. PICK S, T : S = {x \in E : x.payer = u /\ lent[x] > 1} /\ T = {s \in D : s.user = u}
    OBVIOUS
  <2>2. IsFiniteSet(S) /\ IsFiniteSet(T) /\ (\A x \in S : lent[x] \in Int) /\ \A s \in T : am[s] \in Int
    BY <1>3, <2>1, FS_Subset
  <2>3. Sum(lent, S) \in Int /\ Sum(am, T) \in Int
    BY <2>2, SumType
  <2>4. b[u] = Sum(lent, S) - Sum(am, T)
    BY <1>1, <2>1, BalancesAre
  <2> QED
    BY <1>2, <2>1, <2>3, <2>4
<1>11. Sum(b, Users) = Sum(cr, Users) - Sum(ow, Users)
  BY <1>3, <1>10, SumMinus
<1>12. Sum(b, Users) = -Sum(lent, Z) /\ Sum(lent, Z) \in Int
  <2>1. Sum(b, Users) = Sum(lent, F) - (Sum(lent, F) + Sum(lent, Z))
    BY <1>5, <1>6, <1>7, <1>8, <1>11
  <2>2. \A x, y \in Int : x - (x + y) = -y
    OBVIOUS
  <2> QED
    BY <1>9, <2>1, <2>2
<1> QED
  BY <1>1, <1>12

\* After the transfers a participant is even, to a cent per expense and participant.
LEMMA SettlesAll ==
  ASSUME TypeOK, IdsInv, \A s \in splits : s.amount >= 0, NEW u \in Users
  PROVE  Abs(Net(u) + Moved(Suggested, u)) <= Cardinality(expenses) + Cardinality(Users)
<1>1. PICK b, lent, E, Z, V, W, A :
        /\ b = Balances(Users, expenses, splits) /\ lent = Lent /\ E = expenses /\ Z = Cents
        /\ V = {x \in expenses : x.payer = u} /\ W = V \cap Z
        /\ A = {x \in expenses : x.payer = u /\ Lent[x] > 1}
  OBVIOUS
<1>2. /\ IsFiniteSet(E) /\ Z \in SUBSET E /\ V \in SUBSET E /\ W \in SUBSET Z
      /\ \A x \in E : lent[x] \in Int /\ lent[x] >= 0
      /\ \A x \in Z : lent[x] <= 1
      /\ V = A \cup W /\ A \cap W = {}
  <2>1. IsFiniteSet(E) /\ \A x \in E : lent[x] \in Int /\ lent[x] >= 0
    BY <1>1, DebtFacts
  <2>2. Z = {x \in E : lent[x] <= 1} /\ A = {x \in V : lent[x] > 1} /\ V \in SUBSET E
    BY <1>1 DEF Cents
  <2> QED
    BY <1>1, <2>1, <2>2
<1>3. /\ IsFiniteSet(Z) /\ IsFiniteSet(A) /\ IsFiniteSet(W) /\ IsFiniteSet(Z \ W)
      /\ Cardinality(Z) \in Nat /\ Cardinality(E) \in Nat /\ Cardinality(Z) <= Cardinality(E)
  <2>1. A \in SUBSET E /\ W \in SUBSET E /\ Z \ W \in SUBSET E
    BY <1>2
  <2> QED
    BY <1>2, <2>1, FS_Subset, FS_CardinalityType
<1>4. Sum(lent, Z) <= Cardinality(Z) /\ Sum(lent, Z) \in Int
  <2>1. \A x \in Z : lent[x] \in Int /\ lent[x] <= 1
    BY <1>2
  <2> QED
    BY <1>3, <2>1, SumWithin, SumType
<1>5. Sum(lent, W) >= 0 /\ Sum(lent, W) \in Int /\ Sum(lent, Z \ W) >= 0 /\ Sum(lent, Z \ W) \in Int
  <2>1. (\A x \in W : lent[x] \in Int /\ lent[x] >= 0) /\ \A x \in Z \ W : lent[x] \in Int /\ lent[x] >= 0
    BY <1>2
  <2> QED
    BY <1>3, <2>1, SumWithin, SumType
<1>6. Sum(lent, Z) = Sum(lent, W) + Sum(lent, Z \ W)
  <2>1. W \cup (Z \ W) = Z /\ W \cap (Z \ W) = {} /\ \A x \in W \cup (Z \ W) : lent[x] \in Int
    BY <1>2
  <2>2. Sum(lent, W \cup (Z \ W)) = Sum(lent, W) + Sum(lent, Z \ W)
    BY <1>3, <2>1, SumUnion
  <2> QED
    BY <2>1, <2>2
<1>7. Sum(lent, V) = Sum(lent, A) + Sum(lent, W)
  <2>1. \A x \in A \cup W : lent[x] \in Int
    BY <1>2
  <2>2. Sum(lent, A \cup W) = Sum(lent, A) + Sum(lent, W)
    BY <1>2, <1>3, <2>1, SumUnion
  <2> QED
    BY <1>2, <2>2
<1>8. Sum(lent, A) \in Int
  <2>1. \A x \in A : lent[x] \in Int
    BY <1>2
  <2> QED
    BY <1>3, <2>1, SumType
<1>9. PICK owed : owed = Sum(Amounts, {s \in Debts : s.user = u})
  OBVIOUS
<1>10. owed \in Int
  <2>1. PICK T, am : T = {s \in Debts : s.user = u} /\ am = Amounts
    OBVIOUS
  <2>2. IsFiniteSet(T) /\ \A s \in T : am[s] \in Int
    BY <2>1, DebtFacts, FS_Subset
  <2>3. Sum(am, T) \in Int
    BY <2>2, SumType
  <2> QED
    BY <1>9, <2>1, <2>3
<1>11. b \in [Users -> Int] /\ b[u] = Sum(lent, A) - owed
  BY <1>1, <1>9, BalancesAre
<1>12. Net(u) = Sum(lent, V) - owed
  BY <1>1, <1>9, NetIs
<1>13. Sum(b, Users) = -Sum(lent, Z)
  BY <1>1, BalancesAddUp
<1>14. PICK y, z, w, n : /\ y = Moved(Suggested, u) /\ n = Cardinality(Users)
                        /\ z = Sum(lent, Z) /\ w = Sum(lent, W)
  OBVIOUS
<1>15. z \in Int /\ w \in Int /\ w >= 0 /\ w <= z /\ z <= Cardinality(E)
  BY <1>3, <1>4, <1>5, <1>6, <1>14
<1>16. y \in Int /\ b[u] + y <= n /\ b[u] + y >= -z - n /\ b[u] \in Int /\ n \in Nat
  <2>1. Sum(b, Users) = -z /\ -z <= 0
    BY <1>13, <1>14, <1>15
  <2>2. /\ Moved(Settlements(b), u) \in Int /\ b[u] + Moved(Settlements(b), u) <= Cardinality(Users)
        /\ b[u] + Moved(Settlements(b), u) >= Sum(b, Users) - Cardinality(Users)
    BY <1>11, <2>1, TransfersEven
  <2>3. y = Moved(Settlements(b), u)
    BY <1>1, <1>14 DEF Suggested
  <2>4. n \in Nat
    BY <1>14, UsersAssumption, FS_CardinalityType
  <2> QED
    BY <1>11, <1>14, <2>1, <2>2, <2>3, <2>4
<1>17. Net(u) = b[u] + w
  BY <1>7, <1>8, <1>10, <1>11, <1>12, <1>14, <1>15
<1>18. Net(u) + y \in -(Cardinality(E) + n)..(Cardinality(E) + n)
  BY <1>3, <1>15, <1>16, <1>17
<1> QED
  BY <1>1, <1>3, <1>14, <1>16, <1>18 DEF Abs

-----------------------------------------------------------------------------
\* Whoever makes the transfers that getSettlements suggests is even with everybody, but
\* for the cents that getBalances does not credit and those that the loop drops, whatever
\* the requests that are done, refused or failed have left in the tables.
THEOREM TransfersHold == Spec => []TransfersSettle
<1>1. IInv => TransfersSettle
  <2> SUFFICES ASSUME IInv, \A s \in splits : s.amount >= 0
               PROVE  \E t \in {Suggested} : \A u \in Users :
                        Abs(Net(u) + Moved(t, u)) <= Cardinality(expenses) + Cardinality(Users)
    BY DEF TransfersSettle
  <2>1. TypeOK /\ IdsInv
    BY DEF IInv
  <2>2. \A u \in Users : Abs(Net(u) + Moved(Suggested, u)) <= Cardinality(expenses) + Cardinality(Users)
    BY <2>1, SettlesAll
  <2> QED
    BY <2>2
<1> QED
  BY <1>1, Inductive, PTL
=============================================================================
