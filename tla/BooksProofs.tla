----------------------------- MODULE BooksProofs -----------------------------
(***************************************************************************)
(* What the modules that move money prove with: postings have types, sums  *)
(* over the accounts behave like sums, and the movements that the services *)
(* ask for are balanced.                                                   *)
(***************************************************************************)
EXTENDS Books, FiniteSetTheorems, WellFoundedInduction, TLAPS

-----------------------------------------------------------------------------
(* Postings.                                                               *)

(* The effect of well-typed postings on a balance is an integer, and it is *)
(* zero on an account the postings do not touch.                           *)
LEMMA DeltaType ==
  ASSUME NEW e \in Entry, NEW a \in Accounts
  PROVE  /\ Delta(e, a) \in Int
         /\ a \notin Touched(e) => e.debit[a] = 0 /\ e.credit[a] = 0
         /\ a \notin Touched(e) => Delta(e, a) = 0
  <1>1. e.debit[a] \in Nat /\ e.credit[a] \in Nat
    BY DEF Entry
  <1>2. Delta(e, a) \in Int
    BY <1>1 DEF Delta, SignedDelta
  <1>3. a \notin Touched(e) => e.debit[a] = 0 /\ e.credit[a] = 0
    BY <1>1 DEF Touched
  <1> QED BY <1>1, <1>2, <1>3 DEF Delta, SignedDelta

(* A mirrored entry is an entry.                                           *)
LEMMA MirroredType ==
  ASSUME NEW e \in Entry
  PROVE  Mirrored(e) \in Entry
  BY DEF Mirrored, Entry, TransactionTypes

(* Applying an entry to balances gives balances.                           *)
LEMMA AppliedType ==
  ASSUME NEW e \in Entry, NEW bal \in [Accounts -> Int]
  PROVE  Applied(bal, e) \in [Accounts -> Int]
  BY DeltaType DEF Applied

(* A transfer of any amount is an entry.                                   *)
LEMMA TransfersAreEntries ==
  ASSUME NEW type \in TransactionTypes, NEW from, NEW to, NEW n \in Nat
  PROVE  Transfer(type, from, to, n) \in Entry
  BY DEF Transfer, Entry, Line

-----------------------------------------------------------------------------
(* Sums over finite sets.  SumFunction takes the elements in an order that *)
(* CHOOSE fixes; that the order does not matter is shown by looking at a   *)
(* smallest set for which it would.                                        *)

(* The element a sum takes next, and the sums of f over the subsets of S.  *)
FirstOf(s) == CHOOSE x \in s : TRUE

SumsUp(g, f, S) ==
  g = [s \in SUBSET S |-> IF s = {} THEN 0 ELSE f[FirstOf(s)] + g[s \ {FirstOf(s)}]]

(* The library's sum is a function it chooses, if there is one.            *)
LEMMA SumIsChosen ==
  ASSUME NEW f
  PROVE  SumFunction(f) = (CHOOSE g : SumsUp(g, f, DOMAIN f))[DOMAIN f]
  BY DEF SumFunction, SumFunctionOnSet, FoldFunctionOnSet, MapThenFoldSet, FirstOf, SumsUp

(* Of the finite sets that a counterexample could be, one has none below.  *)
LEMMA Minimal ==
  ASSUME NEW S, IsFiniteSet(S), NEW C \in SUBSET (SUBSET S), C # {}
  PROVE  \E T \in C : \A U \in SUBSET T : U # T => U \notin C
  <1>1. IsWellFoundedOn(StrictSubsetOrdering(S), FiniteSubsetsOf(S))
    BY FS_StrictSubsetOrderingWellFounded
  <1>2. FiniteSubsetsOf(S) = SUBSET S
    BY FS_FiniteSubsetsOfFinite
  <1>3. \E T \in C : \A U \in C : ~(<<U, T>> \in StrictSubsetOrdering(S))
    BY <1>1, <1>2, WFMin
  <1> QED BY <1>3 DEF StrictSubsetOrdering

(* The element that is taken from a set is in it.                          *)
LEMMA FirstIsIn == \A s : s # {} => FirstOf(s) \in s
  BY DEF FirstOf

(* What such a function is at a set.                                       *)
LEMMA SumsUpAt ==
  ASSUME NEW g, NEW f, NEW S, SumsUp(g, f, S), NEW T \in SUBSET S
  PROVE  g[T] = IF T = {} THEN 0 ELSE f[FirstOf(T)] + g[T \ {FirstOf(T)}]
  <1> DEFINE e(s) == IF s = {} THEN 0 ELSE f[FirstOf(s)] + g[s \ {FirstOf(s)}]
  <1>1. g = [s \in SUBSET S |-> e(s)]
    BY DEF SumsUp
  <1> HIDE DEF e
  <1>2. g[T] = e(T)
    BY <1>1
  <1> QED BY <1>2 DEF e

(* Sums of functions that agree on a set agree on the set.                 *)
LEMMA SumsAgree ==
  ASSUME NEW f, NEW g, NEW S, SumsUp(g, f, S),
         NEW h, NEW k, NEW R, SumsUp(k, h, R),
         NEW T, IsFiniteSet(T), T \subseteq S, T \subseteq R, \A x \in T : f[x] = h[x]
  PROVE  g[T] = k[T]
  <1>1. \A V \in SUBSET S : g[V] = IF V = {} THEN 0 ELSE f[FirstOf(V)] + g[V \ {FirstOf(V)}]
    BY SumsUpAt
  <1>2. \A V \in SUBSET R : k[V] = IF V = {} THEN 0 ELSE h[FirstOf(V)] + k[V \ {FirstOf(V)}]
    BY SumsUpAt
  <1> DEFINE C == {U \in SUBSET T : g[U] # k[U]}
  <1>3. SUFFICES ASSUME C # {} PROVE FALSE
    OBVIOUS
  <1>4. PICK U \in C : \A V \in SUBSET U : V # U => V \notin C
    <2>1. C \in SUBSET (SUBSET T)
      OBVIOUS
    <2> HIDE DEF C
    <2> QED BY <1>3, <2>1, Minimal
  <1>5. U \in SUBSET T /\ U \in SUBSET S /\ U \in SUBSET R /\ g[U] # k[U]
    BY <1>4
  <1>6. \A V \in SUBSET U : V # U => g[V] = k[V]
    BY <1>4
  <1> HIDE DEF C
  <1>7. g[U] = IF U = {} THEN 0 ELSE f[FirstOf(U)] + g[U \ {FirstOf(U)}]
    BY <1>5, <1>1
  <1>8. k[U] = IF U = {} THEN 0 ELSE h[FirstOf(U)] + k[U \ {FirstOf(U)}]
    BY <1>5, <1>2
  <1>9. U # {} /\ FirstOf(U) \in U
    BY <1>5, <1>7, <1>8, FirstIsIn
  <1>10. g[U \ {FirstOf(U)}] = k[U \ {FirstOf(U)}]
    BY <1>9, <1>6
  <1>11. f[FirstOf(U)] = h[FirstOf(U)]
    BY <1>5, <1>9
  <1> QED BY <1>5, <1>7, <1>8, <1>9, <1>10, <1>11

(* There is one on every finite set: a least set without one would have    *)
(* one from the set with an element less.                                  *)
LEMMA SumsExist ==
  ASSUME NEW f, NEW S, IsFiniteSet(S)
  PROVE  \E g : SumsUp(g, f, S)
  <1> DEFINE C == {T \in SUBSET S : ~ \E g : SumsUp(g, f, T)}
  <1>1. SUFFICES ASSUME C # {} PROVE FALSE
    OBVIOUS
  <1>2. PICK T \in C : \A U \in SUBSET T : U # T => U \notin C
    <2>1. C \in SUBSET (SUBSET S)
      OBVIOUS
    <2> HIDE DEF C
    <2> QED BY <1>1, <2>1, Minimal
  <1> DEFINE G(U) == CHOOSE g : SumsUp(g, f, U)
  <1>3. ASSUME NEW U \in SUBSET T, U # T PROVE SumsUp(G(U), f, U)
    <2>1. \E g : SumsUp(g, f, U)
      BY <1>2, <1>3
    <2> QED BY <2>1
  <1> DEFINE e(U) == IF U = {} THEN 0
                     ELSE f[FirstOf(U)] + G(U \ {FirstOf(U)})[U \ {FirstOf(U)}]
  <1> DEFINE g0 == [U \in SUBSET T |-> e(U)]
  <1>4. ASSUME NEW U \in SUBSET T, U # T PROVE G(U)[U] = e(U)
    <2>1. SumsUp(G(U), f, U)
      BY <1>3, <1>4
    <2> HIDE DEF G
    <2>2. G(U)[U] = IF U = {} THEN 0 ELSE f[FirstOf(U)] + G(U)[U \ {FirstOf(U)}]
      BY <2>1, SumsUpAt
    <2>3. CASE U # {}
      <3> DEFINE V == U \ {FirstOf(U)}
      <3>1. FirstOf(U) \in U
        BY <2>3, FirstIsIn
      <3>2. V \in SUBSET T /\ V # T /\ V \subseteq U
        BY <1>4
      <3>3. SumsUp(G(V), f, V)
        BY <1>3, <3>2
      <3>4. IsFiniteSet(V)
        BY <1>2, <3>2, FS_Subset
      <3> HIDE DEF V
      <3>5. G(U)[V] = G(V)[V]
        BY <2>1, <3>2, <3>3, <3>4, SumsAgree
      <3> QED BY <2>2, <2>3, <3>5 DEF V
    <2>4. CASE U = {}
      BY <2>2, <2>4
    <2> QED BY <2>3, <2>4
  <1> HIDE DEF G
  <1>5. \A U \in SUBSET T : e(U) = IF U = {} THEN 0 ELSE f[FirstOf(U)] + g0[U \ {FirstOf(U)}]
    <2>1. SUFFICES ASSUME NEW U \in SUBSET T, U # {}
                   PROVE  G(U \ {FirstOf(U)})[U \ {FirstOf(U)}] = g0[U \ {FirstOf(U)}]
      OBVIOUS
    <2> DEFINE V == U \ {FirstOf(U)}
    <2>2. V \in SUBSET T /\ V # T
      BY <2>1, FirstIsIn
    <2>3. G(V)[V] = e(V)
      BY <1>4, <2>2
    <2>4. g0[V] = e(V)
      BY <2>2
    <2> QED BY <2>3, <2>4
  <1> HIDE DEF e
  <1>6. g0 = [U \in SUBSET T |-> IF U = {} THEN 0 ELSE f[FirstOf(U)] + g0[U \ {FirstOf(U)}]]
    BY <1>5
  <1> HIDE DEF g0
  <1>7. SumsUp(g0, f, T)
    BY <1>6 DEF SumsUp
  <1> QED BY <1>2, <1>7

(* So the library's sum is one.                                            *)
LEMMA SumIs ==
  ASSUME NEW f, IsFiniteSet(DOMAIN f)
  PROVE  \E g : SumsUp(g, f, DOMAIN f) /\ SumFunction(f) = g[DOMAIN f]
  <1>1. \E g : SumsUp(g, f, DOMAIN f)
    BY SumsExist
  <1> DEFINE g == CHOOSE g : SumsUp(g, f, DOMAIN f)
  <1>2. SumsUp(g, f, DOMAIN f)
    BY <1>1
  <1>3. SumFunction(f) = g[DOMAIN f]
    BY SumIsChosen
  <1> HIDE DEF g
  <1> QED BY <1>2, <1>3

(* Sums of integers are integers.                                          *)
LEMMA SumsAreInts ==
  ASSUME NEW S, IsFiniteSet(S), NEW f, \A x \in S : f[x] \in Int, NEW g, SumsUp(g, f, S)
  PROVE  \A T \in SUBSET S : g[T] \in Int
  <1> DEFINE C == {T \in SUBSET S : g[T] \notin Int}
  <1>1. SUFFICES ASSUME C # {} PROVE FALSE
    OBVIOUS
  <1>2. PICK T \in C : \A U \in SUBSET T : U # T => U \notin C
    <2>1. C \in SUBSET (SUBSET S)
      OBVIOUS
    <2> HIDE DEF C
    <2> QED BY <1>1, <2>1, Minimal
  <1>3. T \in SUBSET S /\ g[T] \notin Int
    BY <1>2
  <1>4. g[T] = IF T = {} THEN 0 ELSE f[FirstOf(T)] + g[T \ {FirstOf(T)}]
    BY <1>3, SumsUpAt
  <1>5. T # {} /\ FirstOf(T) \in T
    BY <1>3, <1>4, FirstIsIn
  <1>6. g[T \ {FirstOf(T)}] \in Int
    BY <1>2, <1>3, <1>5
  <1> QED BY <1>3, <1>4, <1>5, <1>6

(* Whichever element is taken first, the sum is the same.                  *)
LEMMA SumsTakeAny ==
  ASSUME NEW S, IsFiniteSet(S), NEW f, \A x \in S : f[x] \in Int, NEW g, SumsUp(g, f, S),
         NEW y \in S
  PROVE  g[S] = f[y] + g[S \ {y}]
  <1> DEFINE C == {T \in SUBSET S : \E x \in T : g[T] # f[x] + g[T \ {x}]}
  <1>1. SUFFICES ASSUME C # {} PROVE FALSE
    OBVIOUS
  <1>2. PICK T \in C : \A U \in SUBSET T : U # T => U \notin C
    <2>1. C \in SUBSET (SUBSET S)
      OBVIOUS
    <2> HIDE DEF C
    <2> QED BY <1>1, <2>1, Minimal
  <1>3. PICK x \in T : g[T] # f[x] + g[T \ {x}]
    BY <1>2
  <1> DEFINE t == FirstOf(T)
  <1>4. T \in SUBSET S /\ t \in T
    BY <1>2, <1>3, FirstIsIn
  <1>5. g[T] = f[t] + g[T \ {t}]
    BY <1>3, <1>4, SumsUpAt
  <1> HIDE DEF t
  <1>6. t # x /\ t \in T \ {x} /\ x \in T \ {t}
    BY <1>3, <1>4, <1>5
  <1>7. g[T \ {t}] = f[x] + g[(T \ {t}) \ {x}]
    <2>1. T \ {t} \notin C /\ T \ {t} \in SUBSET S
      BY <1>2, <1>4
    <2> QED BY <1>6, <2>1
  <1>8. g[T \ {x}] = f[t] + g[(T \ {x}) \ {t}]
    <2>1. T \ {x} \notin C /\ T \ {x} \in SUBSET S
      BY <1>2, <1>3, <1>4
    <2> QED BY <1>6, <2>1
  <1>9. (T \ {t}) \ {x} = (T \ {x}) \ {t} /\ (T \ {t}) \ {x} \in SUBSET S
    BY <1>4
  <1>10. g[(T \ {t}) \ {x}] \in Int /\ f[x] \in Int /\ f[t] \in Int
    BY <1>4, <1>9, SumsAreInts
  <1> DEFINE rest == g[(T \ {t}) \ {x}]
  <1>11. rest \in Int /\ f[x] \in Int /\ f[t] \in Int
    BY <1>10
  <1>12. g[T] = f[t] + (f[x] + rest)
    BY <1>5, <1>7
  <1>13. f[x] + g[T \ {x}] = f[x] + (f[t] + rest)
    BY <1>8, <1>9
  <1> HIDE DEF rest
  <1>14. f[t] + (f[x] + rest) = f[x] + (f[t] + rest)
    BY <1>11
  <1> QED BY <1>3, <1>12, <1>13, <1>14

(* Changing one summand changes the sum by as much.                        *)
LEMMA SumChangesByOne ==
  ASSUME NEW S, IsFiniteSet(S), NEW f \in [S -> Int], NEW h \in [S -> Int],
         NEW y \in S, \A x \in S \ {y} : h[x] = f[x]
  PROVE  /\ SumFunction(f) \in Int /\ SumFunction(h) \in Int
         /\ SumFunction(h) = SumFunction(f) - f[y] + h[y]
  <1>1. DOMAIN f = S /\ DOMAIN h = S
    OBVIOUS
  <1>2. PICK g : SumsUp(g, f, S) /\ SumFunction(f) = g[S]
    BY <1>1, SumIs
  <1>3. PICK k : SumsUp(k, h, S) /\ SumFunction(h) = k[S]
    BY <1>1, SumIs
  <1>4. \A x \in S : f[x] \in Int /\ h[x] \in Int
    OBVIOUS
  <1>5. g[S] = f[y] + g[S \ {y}]
    BY <1>2, <1>4, SumsTakeAny
  <1>10. k[S] = h[y] + k[S \ {y}]
    BY <1>3, <1>4, SumsTakeAny
  <1>6. S \ {y} \in SUBSET S
    OBVIOUS
  <1>7. IsFiniteSet(S \ {y})
    BY <1>6, FS_Subset
  <1>8. g[S \ {y}] = k[S \ {y}]
    BY <1>2, <1>3, <1>6, <1>7, SumsAgree
  <1>9. g[S \ {y}] \in Int
    BY <1>2, <1>4, <1>6, SumsAreInts
  <1> QED BY <1>2, <1>3, <1>4, <1>5, <1>8, <1>9, <1>10

(* Nothing adds up to nothing.                                             *)
LEMMA SumOfZeroes ==
  ASSUME NEW S, IsFiniteSet(S), NEW f, f = [x \in S |-> 0]
  PROVE  SumFunction(f) = 0
  <1>1. DOMAIN f = S /\ \A x \in S : f[x] = 0
    OBVIOUS
  <1>2. PICK g : SumsUp(g, f, S) /\ SumFunction(f) = g[S]
    BY <1>1, SumIs
  <1> DEFINE C == {T \in SUBSET S : g[T] # 0}
  <1>3. SUFFICES ASSUME C # {} PROVE FALSE
    BY <1>2
  <1>4. PICK T \in C : \A U \in SUBSET T : U # T => U \notin C
    <2>1. C \in SUBSET (SUBSET S)
      OBVIOUS
    <2> HIDE DEF C
    <2> QED BY <1>3, <2>1, Minimal
  <1>5. g[T] = IF T = {} THEN 0 ELSE f[FirstOf(T)] + g[T \ {FirstOf(T)}]
    BY <1>2, <1>4, SumsUpAt
  <1>6. T # {} /\ FirstOf(T) \in T /\ FirstOf(T) \in S
    BY <1>4, <1>5, FirstIsIn
  <1>7. g[T \ {FirstOf(T)}] = 0
    BY <1>4, <1>6
  <1> QED BY <1>1, <1>4, <1>5, <1>6, <1>7

-----------------------------------------------------------------------------
(* The movements the services ask for.                                     *)

(* Adding two functions adds their sums.                                   *)
LEMMA SumsAdd ==
  ASSUME NEW S, IsFiniteSet(S), NEW f \in [S -> Int], NEW h \in [S -> Int],
         NEW e, e = [x \in S |-> f[x] + h[x]]
  PROVE  SumFunction(e) = SumFunction(f) + SumFunction(h)
  <1>1. DOMAIN f = S /\ DOMAIN h = S /\ DOMAIN e = S
    OBVIOUS
  <1>2. PICK g : SumsUp(g, f, S) /\ SumFunction(f) = g[S]
    BY <1>1, SumIs
  <1>3. PICK k : SumsUp(k, h, S) /\ SumFunction(h) = k[S]
    BY <1>1, SumIs
  <1>4. PICK m : SumsUp(m, e, S) /\ SumFunction(e) = m[S]
    BY <1>1, SumIs
  <1>5. /\ \A T \in SUBSET S : g[T] = IF T = {} THEN 0 ELSE f[FirstOf(T)] + g[T \ {FirstOf(T)}]
        /\ \A T \in SUBSET S : g[T] \in Int
    BY <1>2, SumsUpAt, SumsAreInts
  <1>6. /\ \A T \in SUBSET S : k[T] = IF T = {} THEN 0 ELSE h[FirstOf(T)] + k[T \ {FirstOf(T)}]
        /\ \A T \in SUBSET S : k[T] \in Int
    BY <1>3, SumsUpAt, SumsAreInts
  <1>7. \A T \in SUBSET S : m[T] = IF T = {} THEN 0 ELSE e[FirstOf(T)] + m[T \ {FirstOf(T)}]
    BY <1>4, SumsUpAt
  <1> DEFINE C == {T \in SUBSET S : m[T] # g[T] + k[T]}
  <1>8. SUFFICES ASSUME C # {} PROVE FALSE
    BY <1>2, <1>3, <1>4
  <1>9. PICK T \in C : \A U \in SUBSET T : U # T => U \notin C
    <2>1. C \in SUBSET (SUBSET S)
      OBVIOUS
    <2> HIDE DEF C
    <2> QED BY <1>8, <2>1, Minimal
  <1>10. T \in SUBSET S /\ m[T] # g[T] + k[T]
    BY <1>9
  <1>11. T # {}
    <2>1. SUFFICES ASSUME T = {} PROVE FALSE
      OBVIOUS
    <2>2. g[T] = 0 /\ k[T] = 0 /\ m[T] = 0
      BY <1>5, <1>6, <1>7, <1>10, <2>1, Zenon
    <2> QED BY <1>10, <2>2
  <1> DEFINE t == FirstOf(T)  rest == T \ {FirstOf(T)}
  <1>12. t \in T /\ t \in S /\ rest \in SUBSET T /\ rest \in SUBSET S /\ rest # T
    BY <1>10, <1>11, FirstIsIn
  <1>13. m[rest] = g[rest] + k[rest]
    BY <1>9, <1>12
  <1>14. g[T] = f[t] + g[rest] /\ k[T] = h[t] + k[rest] /\ m[T] = e[t] + m[rest]
    BY <1>5, <1>6, <1>7, <1>10, <1>11
  <1> HIDE DEF t, rest, C
  <1>15. e[t] = f[t] + h[t] /\ f[t] \in Int /\ h[t] \in Int
    BY <1>12
  <1>16. g[rest] \in Int /\ k[rest] \in Int
    BY <1>5, <1>6, <1>12
  <1> QED BY <1>10, <1>13, <1>14, <1>15, <1>16

(* One posting adds up to its amount.                                      *)
LEMMA LineSum ==
  ASSUME NEW a \in Accounts, NEW n \in Nat
  PROVE  Line(a, n) \in [Accounts -> Nat] /\ SumFunction(Line(a, n)) = n
  <1>1. IsFiniteSet(Accounts)
    BY FinitenessAssumption
  <1>2. Line(a, n) \in [Accounts -> Nat]
    BY DEF Line
  <1> DEFINE zero == [x \in Accounts |-> 0]
  <1>3. zero \in [Accounts -> Int] /\ zero[a] = 0 /\ \A x \in Accounts \ {a} : Line(a, n)[x] = zero[x]
    BY DEF Line
  <1>4. Line(a, n) \in [Accounts -> Int] /\ Line(a, n)[a] = n
    BY <1>2 DEF Line
  <1>5. SumFunction(zero) = 0
    BY <1>1, SumOfZeroes
  <1> HIDE DEF zero
  <1>6. SumFunction(Line(a, n)) = SumFunction(zero) - zero[a] + Line(a, n)[a]
    BY <1>1, <1>3, <1>4, SumChangesByOne
  <1> QED BY <1>2, <1>3, <1>4, <1>5, <1>6

(* A transfer of some money is balanced.                                   *)
LEMMA TransferIsBalanced ==
  ASSUME NEW type, NEW from \in Accounts, NEW to \in Accounts, NEW n \in Nat, n > 0
  PROVE  Balanced(Transfer(type, from, to, n))
  BY LineSum DEF Balanced, Transfer

(* The six movements the services ask the ledger for are balanced wherever *)
(* their accounts exist: none of them can meet the UNBALANCED error that   *)
(* post() raises, the split of a dispute included.                         *)
THEOREM MovementsAreBalanced ==
  ASSUME NEW c, NEW r, NEW n \in Nat, n > 0, NEW share \in 0 .. n,
         {External, Available(c), Protected(c), Available(r)} \subseteq Accounts
  PROVE  /\ Balanced(TopUp(c, n)) /\ Balanced(Withdrawal(c, n))
         /\ Balanced(MilestoneFunding(c, n)) /\ Balanced(PaymentRelease(c, r, n))
         /\ Balanced(Refund(c, n)) /\ Balanced(SplitSettlement(c, r, n, share))
  <1>1. /\ Balanced(TopUp(c, n)) /\ Balanced(Withdrawal(c, n))
        /\ Balanced(MilestoneFunding(c, n)) /\ Balanced(PaymentRelease(c, r, n))
        /\ Balanced(Refund(c, n))
    BY TransferIsBalanced DEF TopUp, Withdrawal, MilestoneFunding, PaymentRelease, Refund
  <1>2. IsFiniteSet(Accounts) /\ share \in Nat /\ n - share \in Nat
    BY FinitenessAssumption
  <1> DEFINE f == Line(Available(r), share)  h == Line(Available(c), n - share)
             e == [x \in Accounts |-> f[x] + h[x]]
  <1>3. /\ f \in [Accounts -> Nat] /\ SumFunction(f) = share
        /\ h \in [Accounts -> Nat] /\ SumFunction(h) = n - share
        /\ SumFunction(Line(Protected(c), n)) = n
    BY <1>2, LineSum
  <1>4. SumFunction(e) = share + (n - share)
    <2>1. f \in [Accounts -> Int] /\ h \in [Accounts -> Int]
      BY <1>3
    <2> HIDE DEF f, h
    <2>2. e = [x \in Accounts |-> f[x] + h[x]]
      OBVIOUS
    <2> HIDE DEF e
    <2>3. SumFunction(e) = SumFunction(f) + SumFunction(h)
      BY <1>2, <2>1, <2>2, SumsAdd
    <2> QED BY <1>3, <2>3
  <1>5. SplitSettlement(c, r, n, share).debit = Line(Protected(c), n) /\ SplitSettlement(c, r, n, share).credit = e
    BY DEF SplitSettlement
  <1>6. SumFunction(e) = n
    BY <1>2, <1>4
  <1> HIDE DEF e
  <1>7. Balanced(SplitSettlement(c, r, n, share))
    BY <1>3, <1>5, <1>6 DEF Balanced
  <1> QED BY <1>1, <1>7
=============================================================================
