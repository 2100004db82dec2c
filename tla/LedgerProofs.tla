---------------------------- MODULE LedgerProofs ----------------------------
(***************************************************************************)
(* Facts about Total and Transfer, for every finite set of accounts.       *)
(***************************************************************************)
EXTENDS Ledger, FiniteSetTheorems, FunctionTheorems, TLAPS

(* The units of one account are as many as the account holds. *)
LEMMA UnitsOfOne ==
  ASSUME NEW x, NEW n \in Nat
  PROVE  /\ IsFiniteSet({x} \X (1 .. n))
         /\ Cardinality({x} \X (1 .. n)) = n
<1>1. IsFiniteSet(1 .. n) /\ Cardinality(1 .. n) = n
  BY FS_Interval
<1>2. IsFiniteSet({x}) /\ Cardinality({x}) = 1
  BY FS_Singleton
<1>. QED  BY <1>1, <1>2, FS_Product

(* There are finitely many units. *)
LEMMA UnitsFinite ==
  ASSUME NEW S, IsFiniteSet(S), NEW f, \A x \in S : f[x] \in Nat
  PROVE  IsFiniteSet(Units(f, S))
<1>. DEFINE T == {{x} \X (1 .. f[x]) : x \in S}
            g == [x \in S |-> {x} \X (1 .. f[x])]
<1>1. g \in Surjection(S, T)
  BY Fun_IsSurj
<1>2. IsFiniteSet(T)
  BY <1>1, FS_Surjection
<1>3. \A U \in T : IsFiniteSet(U)
  <2>1. \A x \in S : IsFiniteSet({x} \X (1 .. f[x]))
    BY UnitsOfOne
  <2>. QED  BY <2>1
<1>. QED  BY <1>2, <1>3, FS_UNION DEF Units

(* A sum is a natural number. *)
THEOREM TotalType ==
  ASSUME NEW S, IsFiniteSet(S), NEW f, \A x \in S : f[x] \in Nat
  PROVE  Total(f, S) \in Nat
BY UnitsFinite, FS_CardinalityType DEF Total

(* The sum over nothing is zero. *)
THEOREM TotalEmpty ==
  ASSUME NEW f
  PROVE  Total(f, {}) = 0
<1>1. Units(f, {}) = {}
  BY DEF Units
<1>. QED  BY <1>1, FS_EmptySet DEF Total

(* The sum over two sets that share no account is the sum of the sums. *)
THEOREM TotalUnion ==
  ASSUME NEW S, NEW T, IsFiniteSet(S), IsFiniteSet(T), S \cap T = {},
         NEW f, \A x \in S \cup T : f[x] \in Nat
  PROVE  Total(f, S \cup T) = Total(f, S) + Total(f, T)
<1>1. Units(f, S \cup T) = Units(f, S) \cup Units(f, T)
  BY DEF Units
<1>2. Units(f, S) \cap Units(f, T) = {}
  BY DEF Units
<1>3. IsFiniteSet(Units(f, S)) /\ IsFiniteSet(Units(f, T))
  BY UnitsFinite
<1>4. Cardinality(Units(f, S) \cap Units(f, T)) = 0
  BY <1>2, FS_EmptySet
<1>5. Cardinality(Units(f, S)) \in Nat /\ Cardinality(Units(f, T)) \in Nat
  BY <1>3, FS_CardinalityType
<1>6. Cardinality(Units(f, S) \cup Units(f, T))
        = Cardinality(Units(f, S)) + Cardinality(Units(f, T))
            - Cardinality(Units(f, S) \cap Units(f, T))
  BY <1>3, FS_Union
<1>7. Cardinality(Units(f, S) \cup Units(f, T))
        = Cardinality(Units(f, S)) + Cardinality(Units(f, T))
  BY <1>4, <1>5, <1>6
<1>. QED  BY <1>1, <1>7 DEF Total

(* The sum over one account is what it holds. *)
THEOREM TotalOne ==
  ASSUME NEW x, NEW f, f[x] \in Nat
  PROVE  Total(f, {x}) = f[x]
<1>1. Units(f, {x}) = {x} \X (1 .. f[x])
  BY DEF Units
<1>. QED  BY <1>1, UnitsOfOne DEF Total

(* A sum looks at nothing but the accounts it is over. *)
THEOREM TotalSame ==
  ASSUME NEW S, NEW f, NEW g, \A x \in S : f[x] = g[x]
  PROVE  Total(f, S) = Total(g, S)
<1>1. Units(f, S) = Units(g, S)
  BY DEF Units
<1>. QED  BY <1>1 DEF Total

(* Taking accounts out of a sum takes away what they hold. *)
THEOREM TotalWithout ==
  ASSUME NEW S, IsFiniteSet(S), NEW T \in SUBSET S,
         NEW f, \A x \in S : f[x] \in Nat
  PROVE  /\ Total(f, S) = Total(f, S \ T) + Total(f, T)
         /\ Total(f, S \ T) \in Nat
         /\ Total(f, T) \in Nat
<1>1. IsFiniteSet(T) /\ IsFiniteSet(S \ T)
  BY FS_Subset
<1>2. (S \ T) \cup T = S /\ (S \ T) \cap T = {}
  OBVIOUS
<1>3. Total(f, (S \ T) \cup T) = Total(f, S \ T) + Total(f, T)
  BY <1>1, <1>2, TotalUnion
<1>. QED  BY <1>1, <1>2, <1>3, TotalType

(* One account more. *)
THEOREM TotalAdd ==
  ASSUME NEW S, IsFiniteSet(S), NEW x, x \notin S,
         NEW f, \A y \in S \cup {x} : f[y] \in Nat
  PROVE  Total(f, S \cup {x}) = Total(f, S) + f[x]
<1>1. IsFiniteSet({x})
  BY FS_Singleton
<1>2. Total(f, S \cup {x}) = Total(f, S) + Total(f, {x})
  BY <1>1, TotalUnion
<1>. QED  BY <1>2, TotalOne

(* A sum of natural numbers that is zero has only zeros in it. *)
THEOREM TotalZero ==
  ASSUME NEW S, IsFiniteSet(S), NEW f, \A x \in S : f[x] \in Nat,
         Total(f, S) = 0
  PROVE  \A x \in S : f[x] = 0
<1>. SUFFICES ASSUME NEW x \in S
              PROVE  f[x] = 0
  OBVIOUS
<1>1. Total(f, S) = Total(f, S \ {x}) + Total(f, {x}) /\ Total(f, S \ {x}) \in Nat
  BY TotalWithout
<1>2. Total(f, {x}) = f[x] /\ f[x] \in Nat
  BY TotalOne
<1>. QED  BY <1>1, <1>2

(* A sum of nothing but zeros is zero. *)
THEOREM TotalOfNothing ==
  ASSUME NEW S, NEW f, \A x \in S : f[x] = 0
  PROVE  Total(f, S) = 0
<1>1. \A x \in S : {x} \X (1 .. f[x]) = {}
  OBVIOUS
<1>2. Units(f, S) = {}
  BY <1>1 DEF Units
<1>. QED  BY <1>2, FS_EmptySet DEF Total

(* A transfer that the source can pay leaves a ledger of natural numbers. *)
THEOREM TransferType ==
  ASSUME NEW A, NEW ledger \in [A -> Nat], NEW from \in A, NEW to \in A,
         NEW n \in Nat, n <= ledger[from]
  PROVE  Transfer(ledger, from, to, n) \in [A -> Nat]
BY DEF Transfer

(* What a transfer leaves in each account. *)
THEOREM TransferMoves ==
  ASSUME NEW A, NEW ledger \in [A -> Nat], NEW from \in A, NEW to \in A,
         NEW n \in Nat, from # to
  PROVE  /\ Transfer(ledger, from, to, n)[from] = ledger[from] - n
         /\ Transfer(ledger, from, to, n)[to] = ledger[to] + n
         /\ \A a \in A \ {from, to} : Transfer(ledger, from, to, n)[a] = ledger[a]
BY DEF Transfer

(* A transfer makes and loses nothing. *)
LEMMA TransferConserves ==
  ASSUME NEW A, IsFiniteSet(A), NEW ledger \in [A -> Nat],
         NEW from \in A, NEW to \in A, NEW n \in Nat, n <= ledger[from]
  PROVE  Total(Transfer(ledger, from, to, n), A) = Total(ledger, A)
<1>. DEFINE after == Transfer(ledger, from, to, n)
<1>1. after \in [A -> Nat]
  BY TransferType
<1>2. CASE from = to
  <2>1. \A a \in A : after[a] = ledger[a]
    BY <1>2 DEF Transfer
  <2>. QED  BY <2>1, TotalSame
<1>3. CASE from # to
  <2>. DEFINE rest == A \ {from, to}
  <2>1. IsFiniteSet(rest) /\ IsFiniteSet(rest \cup {from})
    BY FS_Subset
  <2>2. A = (rest \cup {from}) \cup {to}
    OBVIOUS
  <2>3. \A f \in [A -> Nat] : Total(f, A) = Total(f, rest) + f[from] + f[to]
    <3>. SUFFICES ASSUME NEW f \in [A -> Nat]
                  PROVE  Total(f, A) = Total(f, rest) + f[from] + f[to]
      OBVIOUS
    <3>1. Total(f, (rest \cup {from}) \cup {to}) = Total(f, rest \cup {from}) + f[to]
      BY <1>3, <2>1, TotalAdd
    <3>2. Total(f, rest \cup {from}) = Total(f, rest) + f[from]
      BY <2>1, TotalAdd
    <3>. QED  BY <3>1, <3>2, <2>2
  <2>4. Total(after, rest) = Total(ledger, rest)
    <3>1. \A a \in rest : after[a] = ledger[a]
      BY <1>3, TransferMoves
    <3>. QED  BY <3>1, TotalSame
  <2>5. after[from] = ledger[from] - n /\ after[to] = ledger[to] + n
    BY <1>3, TransferMoves
  <2>6. Total(ledger, rest) \in Nat
    BY <2>1, TotalType
  <2>7. ledger[from] \in Nat /\ ledger[to] \in Nat
    OBVIOUS
  <2>8. Total(after, A) = Total(after, rest) + after[from] + after[to]
    BY <1>1, <2>3
  <2>9. Total(ledger, A) = Total(ledger, rest) + ledger[from] + ledger[to]
    BY <2>3
  <2>10. Total(after, A) = Total(ledger, A)
    <3>. HIDE DEF after, rest
    <3>. QED  BY <2>4, <2>5, <2>6, <2>7, <2>8, <2>9
  <2>. QED  BY <2>10
<1>. QED  BY <1>2, <1>3

-----------------------------------------------------------------------------
(* Sums of sums, of products and of bounds.                                *)

LEMMA UnitsMember ==
  ASSUME NEW S, NEW f, NEW u
  PROVE  u \in Units(f, S) <=> \E x \in S : \E i \in 1 .. f[x] : u = <<x, i>>
BY DEF Units

(* Larger amounts, larger sum. *)
THEOREM TotalMonotone ==
  ASSUME NEW S, IsFiniteSet(S), NEW f, NEW g,
         \A x \in S : f[x] \in Nat /\ g[x] \in Nat /\ f[x] <= g[x]
  PROVE  Total(f, S) <= Total(g, S)
<1>1. Units(f, S) \subseteq Units(g, S)
  <2>. SUFFICES ASSUME NEW x \in S, NEW i \in 1 .. f[x]
                PROVE  i \in 1 .. g[x]
    BY UnitsMember
  <2>. QED  OBVIOUS
<1>. QED  BY <1>1, UnitsFinite, FS_Subset DEF Total

(* Accounts that h sorts, and what those of each sort hold together. *)
OfSort(S, h, w) == {x \in S : h[x] = w}
SumsBySort(f, S, h, W) == [w \in W |-> Total(f, OfSort(S, h, w))]

(* The sum of what each sort holds is the sum. *)
LEMMA TotalOfTotals ==
  ASSUME NEW S, IsFiniteSet(S), NEW f, \A x \in S : f[x] \in Nat,
         NEW W, NEW h, \A x \in S : h[x] \in W
  PROVE  Total(SumsBySort(f, S, h, W), W) = Total(f, S)
<1>. DEFINE n == SumsBySort(f, S, h, W)
            Sort(w) == OfSort(S, h, w)
<1>0. \A w \in W : /\ Sort(w) \in SUBSET S
                   /\ \A x \in S : x \in Sort(w) <=> h[x] = w
                   /\ n[w] = Total(f, Sort(w))
  BY DEF OfSort, SumsBySort
<1>. HIDE DEF n, Sort
<1>. DEFINE b == [w \in W |-> CHOOSE g : g \in Bijection(1 .. n[w], Units(f, Sort(w)))]
            G == [u \in Units(n, W) |-> b[u[1]][u[2]]]
<1>1. ASSUME NEW w \in W
      PROVE  /\ \A i \in 1 .. n[w] : b[w][i] \in Units(f, Sort(w))
             /\ \A i, j \in 1 .. n[w] : b[w][i] = b[w][j] => i = j
             /\ \A t \in Units(f, Sort(w)) : \E i \in 1 .. n[w] : b[w][i] = t
  <2>1. IsFiniteSet(Sort(w)) /\ \A x \in Sort(w) : f[x] \in Nat
    BY <1>0, FS_Subset
  <2>2. IsFiniteSet(Units(f, Sort(w)))
    BY <2>1, UnitsFinite
  <2>3. ExistsBijection(1 .. n[w], Units(f, Sort(w)))
    BY <1>0, <2>2, FS_CardinalityType DEF Total
  <2>4. \E g : g \in Bijection(1 .. n[w], Units(f, Sort(w)))
    BY <2>3 DEF ExistsBijection
  <2>5. b[w] \in Bijection(1 .. n[w], Units(f, Sort(w)))
    BY <2>4
  <2>. DEFINE g == b[w]
              T == Units(f, Sort(w))
              m == n[w]
  <2>6. g \in Bijection(1 .. m, T)
    BY <2>5
  <2>. HIDE DEF g, T, m
  <2>7. /\ \A i \in 1 .. m : g[i] \in T
        /\ \A i, j \in 1 .. m : g[i] = g[j] => i = j
        /\ \A t \in T : \E i \in 1 .. m : g[i] = t
    BY <2>6 DEF Bijection, Injection, Surjection, IsInjective
  <2>. QED  BY <2>7 DEF g, T, m
<1>. HIDE DEF b
<1>2. ASSUME NEW u \in Units(n, W)
      PROVE  /\ u[1] \in W /\ u[2] \in 1 .. n[u[1]] /\ u = <<u[1], u[2]>>
             /\ G[u] \in Units(f, S)
             /\ h[G[u][1]] = u[1]
  <2>1. u[1] \in W /\ u[2] \in 1 .. n[u[1]] /\ u = <<u[1], u[2]>>
    BY UnitsMember
  <2>2. b[u[1]][u[2]] \in Units(f, Sort(u[1]))
    BY <1>1, <2>1
  <2>3. PICK x \in Sort(u[1]) : \E i \in 1 .. f[x] : b[u[1]][u[2]] = <<x, i>>
    BY <2>2, UnitsMember
  <2>4. G[u] = b[u[1]][u[2]]
    OBVIOUS
  <2>. HIDE DEF G
  <2>5. G[u] \in Units(f, S)
    BY <1>0, <2>1, <2>3, <2>4, UnitsMember
  <2>. QED  BY <1>0, <2>1, <2>3, <2>4, <2>5
<1>3. \A u, v \in Units(n, W) : G[u] = G[v] => u = v
  <2>. SUFFICES ASSUME NEW u \in Units(n, W), NEW v \in Units(n, W), G[u] = G[v]
                PROVE  u = v
    OBVIOUS
  <2>1. u[1] = v[1]
    BY <1>2
  <2>2. u[2] \in 1 .. n[u[1]] /\ v[2] \in 1 .. n[u[1]] /\ b[u[1]][u[2]] = b[u[1]][v[2]] /\ u[1] \in W
    BY <1>2, <2>1
  <2>3. u[2] = v[2]
    BY <1>1, <2>2
  <2>. QED  BY <1>2, <2>1, <2>3
<1>4. \A t \in Units(f, S) : \E u \in Units(n, W) : G[u] = t
  <2>. SUFFICES ASSUME NEW t \in Units(f, S)
                PROVE  \E u \in Units(n, W) : G[u] = t
    OBVIOUS
  <2>1. PICK x \in S : \E i \in 1 .. f[x] : t = <<x, i>>
    BY UnitsMember
  <2>2. h[x] \in W /\ t \in Units(f, Sort(h[x]))
    BY <1>0, <2>1, UnitsMember
  <2>3. PICK j \in 1 .. n[h[x]] : b[h[x]][j] = t
    BY <1>1, <2>2
  <2>4. <<h[x], j>> \in Units(n, W)
    BY <2>2, UnitsMember
  <2>. QED  BY <2>3, <2>4
<1>5. G \in Bijection(Units(n, W), Units(f, S))
  <2>1. G \in [Units(n, W) -> Units(f, S)]
    BY <1>2
  <2>. HIDE DEF G
  <2>. QED  BY <1>3, <1>4, <2>1, Fun_IsBij
<1>6. Cardinality(Units(n, W)) = Cardinality(Units(f, S))
  <2>1. ExistsBijection(Units(f, S), Units(n, W))
    BY <1>5, Fun_ExistsBijSymmetric DEF ExistsBijection
  <2>2. IsFiniteSet(Units(f, S))
    BY UnitsFinite
  <2>. QED  BY <2>1, <2>2, FS_Bijection
<1>. QED  BY <1>6 DEF Total, n

(* As much in every account. *)
THEOREM TotalConstant ==
  ASSUME NEW S, IsFiniteSet(S), NEW c \in Nat, NEW f, \A x \in S : f[x] = c
  PROVE  Total(f, S) = Cardinality(S) * c
<1>1. Units(f, S) = S \X (1 .. c)
  BY UnitsMember
<1>2. IsFiniteSet(1 .. c) /\ Cardinality(1 .. c) = c
  BY FS_Interval
<1>. QED  BY <1>1, <1>2, FS_Product DEF Total

(* The sum of multiples is the multiple of the sum. *)
LEMMA TotalScaled ==
  ASSUME NEW S, IsFiniteSet(S), NEW c \in Nat, NEW f, \A x \in S : f[x] \in Nat,
         NEW g, \A x \in S : g[x] = f[x] * c
  PROVE  Total(g, S) = Total(f, S) * c
<1>. DEFINE U == Units(f, S)
            each == [u \in U |-> c]
            first == [u \in U |-> u[1]]
            n == SumsBySort(each, U, first, S)
<1>1. IsFiniteSet(U) /\ \A u \in U : each[u] \in Nat /\ first[u] \in S
  BY UnitsFinite, UnitsMember
<1>2. Total(n, S) = Total(each, U)
  <2>. HIDE DEF U, each, first
  <2>. QED  BY <1>1, TotalOfTotals
<1>3. Total(each, U) = Total(f, S) * c
  BY <1>1, TotalConstant DEF Total
<1>4. \A x \in S : n[x] = g[x]
  <2>. SUFFICES ASSUME NEW x \in S
                PROVE  Total(each, OfSort(U, first, x)) = f[x] * c
    BY DEF SumsBySort
  <2>1. OfSort(U, first, x) = {x} \X (1 .. f[x])
    BY UnitsMember DEF OfSort
  <2>2. /\ IsFiniteSet({x} \X (1 .. f[x]))
        /\ Cardinality({x} \X (1 .. f[x])) = f[x]
    BY UnitsOfOne
  <2>3. \A u \in {x} \X (1 .. f[x]) : each[u] = c
    BY <2>1 DEF OfSort
  <2>4. Total(each, {x} \X (1 .. f[x])) = f[x] * c
    <3>. HIDE DEF each
    <3>. QED  BY <2>2, <2>3, TotalConstant
  <2>. QED  BY <2>1, <2>4
<1>5. Total(n, S) = Total(g, S)
  BY <1>4, TotalSame
<1>. QED  BY <1>2, <1>3, <1>5

(* The sum of two ledgers. *)
THEOREM TotalPlus ==
  ASSUME NEW S, IsFiniteSet(S), NEW f, NEW g, NEW sum,
         \A x \in S : f[x] \in Nat /\ g[x] \in Nat /\ sum[x] = f[x] + g[x]
  PROVE  Total(sum, S) = Total(f, S) + Total(g, S)
<1>. DEFINE D == Units(sum, S) \ Units(f, S)
            F == [u \in Units(g, S) |-> <<u[1], f[u[1]] + u[2]>>]
<1>1. Units(f, S) \subseteq Units(sum, S)
  BY UnitsMember
<1>2. F \in Bijection(Units(g, S), D)
  <2>1. ASSUME NEW x \in S, NEW i \in 1 .. g[x]
        PROVE  F[<<x, i>>] \in D
    <3>1. <<x, i>> \in Units(g, S)
      BY UnitsMember
    <3>2. F[<<x, i>>] = <<x, f[x] + i>>
      BY <3>1
    <3>3. f[x] + i \in 1 .. sum[x] /\ f[x] + i \notin 1 .. f[x]
      OBVIOUS
    <3>. QED  BY <3>2, <3>3, UnitsMember
  <2>2. F \in [Units(g, S) -> D]
    BY <2>1, UnitsMember
  <2>3. \A u, v \in Units(g, S) : F[u] = F[v] => u = v
    <3>. SUFFICES ASSUME NEW u \in Units(g, S), NEW v \in Units(g, S), F[u] = F[v]
                  PROVE  u = v
      OBVIOUS
    <3>1. PICK x \in S : \E i \in 1 .. g[x] : u = <<x, i>>
      BY UnitsMember
    <3>2. PICK y \in S : \E j \in 1 .. g[y] : v = <<y, j>>
      BY UnitsMember
    <3>3. F[u] = <<x, f[x] + u[2]>> /\ F[v] = <<y, f[y] + v[2]>>
      BY <3>1, <3>2
    <3>. QED  BY <3>1, <3>2, <3>3
  <2>4. ASSUME NEW t \in D
        PROVE  \E u \in Units(g, S) : F[u] = t
    <3>0. PICK x \in S : \E i \in 1 .. sum[x] : t = <<x, i>>
      BY UnitsMember
    <3>1. PICK k \in 1 .. sum[x] : t = <<x, k>>
      BY <3>0
    <3>2. k \notin 1 .. f[x]
      BY <3>1, UnitsMember
    <3>3. k - f[x] \in 1 .. g[x] /\ f[x] + (k - f[x]) = k
      BY <3>2
    <3>4. <<x, k - f[x]>> \in Units(g, S)
      BY <3>3, UnitsMember
    <3>5. F[<<x, k - f[x]>>] = t
      BY <3>1, <3>3, <3>4
    <3>. QED  BY <3>4, <3>5
  <2>. HIDE DEF F, D
  <2>. QED  BY <2>2, <2>3, <2>4, Fun_IsBij
<1>3. IsFiniteSet(Units(f, S)) /\ IsFiniteSet(Units(g, S))
  BY UnitsFinite
<1>4. IsFiniteSet(D) /\ Cardinality(D) = Cardinality(Units(g, S))
  BY <1>2, <1>3, FS_Bijection DEF ExistsBijection
<1>5. Units(sum, S) = Units(f, S) \cup D /\ Units(f, S) \cap D = {}
  BY <1>1
<1>. HIDE DEF D
<1>6. Cardinality(Units(f, S) \cup D) = Cardinality(Units(f, S)) + Cardinality(D)
  <2>1. Cardinality(Units(f, S) \cap D) = 0
    BY <1>5, FS_EmptySet
  <2>2. Cardinality(Units(f, S)) \in Nat /\ Cardinality(D) \in Nat
    BY <1>3, <1>4, FS_CardinalityType
  <2>3. Cardinality(Units(f, S) \cup D)
          = Cardinality(Units(f, S)) + Cardinality(D) - Cardinality(Units(f, S) \cap D)
    BY <1>3, <1>4, FS_Union
  <2>. QED  BY <2>1, <2>2, <2>3
<1>. QED  BY <1>4, <1>5, <1>6 DEF Total

(* Accounts that hold nothing may be left out of a sum. *)
THEOREM TotalOfPart ==
  ASSUME NEW S, IsFiniteSet(S), NEW T \in SUBSET S, NEW f, NEW g,
         \A x \in S : f[x] \in Nat,
         \A x \in S \ T : f[x] = 0,
         \A x \in T : f[x] = g[x]
  PROVE  Total(f, S) = Total(g, T)
<1>1. /\ Total(f, S) = Total(f, S \ T) + Total(f, T)
      /\ Total(f, T) \in Nat
  BY TotalWithout
<1>2. Total(f, S \ T) = 0
  BY TotalOfNothing
<1>3. Total(f, T) = Total(g, T)
  BY TotalSame
<1>. QED  BY <1>1, <1>2, <1>3

(* One account holds no more than all of them. *)
THEOREM AccountWithinTotal ==
  ASSUME NEW S, IsFiniteSet(S), NEW f, \A x \in S : f[x] \in Nat, NEW a \in S
  PROVE  f[a] <= Total(f, S)
<1>1. /\ Total(f, S) = Total(f, S \ {a}) + Total(f, {a})
      /\ Total(f, S \ {a}) \in Nat
  BY TotalWithout
<1>2. Total(f, {a}) = f[a]
  BY TotalOne
<1>. QED  BY <1>1, <1>2
=============================================================================
