-------------------------------- MODULE Sums --------------------------------
(***************************************************************************)
(* What the other proofs need to know of the extremes of sets of numbers   *)
(* and of sums over finite sets. Each is an induction, done without an     *)
(* induction theorem that is given a predicate: the numbers for which the  *)
(* claim fails are a set, and a least one of them leads to a contradiction.*)
(***************************************************************************)
EXTENDS Integers, FiniteSetsExt, FiniteSetTheorems, WellFoundedInduction, TLAPS

\* The order of the natural numbers, as a relation that later proofs take as given.
LEMMA NatOrder ==
    \E R : IsWellFoundedOn(R, Nat) /\ \A m, n \in Nat : n < m => <<n, m>> \in R
<1>1. \A m, n \in Nat : n < m => <<n, m>> \in OpToRel(<, Nat)
    BY DEF OpToRel
<1>. QED BY <1>1, NatLessThanWellFounded, Zenon

\* Numbers have a least one.
LEMMA LeastNatural ==
    ASSUME NEW T \in SUBSET Nat, T # {}
    PROVE  \E m \in T : \A n \in T : m <= n
<1>1. PICK R : IsWellFoundedOn(R, Nat) /\ \A m, n \in Nat : n < m => <<n, m>> \in R
    BY NatOrder
<1>2. PICK m \in T : \A n \in T : ~ (<<n, m>> \in R)
    BY <1>1, WFMin
<1>3. \A n \in T : ~(n < m)
    BY <1>1, <1>2, Zenon
<1>4. \A n \in T : n \in Nat /\ m \in Nat
    OBVIOUS
<1>5. \A n \in T : m <= n
    BY <1>3, <1>4
<1>. QED BY <1>5

\* Bounded numbers have a greatest one.
LEMMA GreatestNatural ==
    ASSUME NEW T \in SUBSET Nat, T # {}, NEW b \in Nat, \A n \in T : n <= b
    PROVE  \E m \in T : \A n \in T : n <= m
<1>. DEFINE U == {u \in Nat : \A n \in T : n <= u}
<1>1. PICK m \in U : \A u \in U : m <= u
    <2>1. U \in SUBSET Nat /\ b \in U
        OBVIOUS
    <2>. HIDE DEF U
    <2>. QED BY <2>1, LeastNatural
<1>2. ASSUME m \notin T PROVE FALSE
    <2>1. \A n \in T : n <= m - 1
        BY <1>1, <1>2
    <2>2. m - 1 \in Nat
        <3>1. PICK t \in T : t \in Nat
            OBVIOUS
        <3>2. m \in Nat /\ t <= m - 1
            BY <1>1, <2>1
        <3>. QED BY <3>1, <3>2
    <2>3. m - 1 \in U
        BY <2>1, <2>2
    <2>. QED BY <1>1, <2>2, <2>3
<1>. QED BY <1>1, <1>2

\* Min and Max of the community modules are a member and a bound.
LEMMA MinIsLeast ==
    ASSUME NEW T \in SUBSET Nat, T # {}
    PROVE  Min(T) \in T /\ \A n \in T : Min(T) <= n
BY LeastNatural DEF Min

\* Max is the greatest of a bounded set of numbers that has one.
LEMMA MaxIsGreatest ==
    ASSUME NEW T \in SUBSET Nat, T # {}, NEW b \in Nat, \A n \in T : n <= b
    PROVE  Max(T) \in T /\ \A n \in T : Max(T) >= n
<1>1. \E m \in T : \A n \in T : n <= m
    BY GreatestNatural
<1>2. \E m \in T : \A n \in T : m >= n
    BY <1>1
<1>. QED BY <1>2 DEF Max

-----------------------------------------------------------------------------
(* it is the function by which MapThenSumSet adds up g over the parts of S. *)
PickOne(s) == CHOOSE x \in s : TRUE
SumsUp(it, g, S) ==
    it = [s \in SUBSET S |-> IF s = {} THEN 0 ELSE g[PickOne(s)] + it[s \ {PickOne(s)}]]

\* A part that is not empty is larger than what is left without the one picked.
LEMMA PickedIsGone ==
    ASSUME NEW S, IsFiniteSet(S), NEW s \in SUBSET S, s # {}
    PROVE  /\ PickOne(s) \in s /\ s \ {PickOne(s)} \in SUBSET S
           /\ Cardinality(s) \in Nat /\ Cardinality(s \ {PickOne(s)}) = Cardinality(s) - 1
           /\ Cardinality(s \ {PickOne(s)}) \in Nat
<1>1. PickOne(s) \in s
    BY DEF PickOne
<1>2. IsFiniteSet(s) /\ IsFiniteSet(s \ {PickOne(s)})
    BY FS_Subset
<1>3. Cardinality(s) \in Nat /\ Cardinality(s \ {PickOne(s)}) \in Nat
    BY <1>2, FS_CardinalityType
<1>. QED BY <1>1, <1>2, <1>3, FS_RemoveElement

\* There is such a function: it is made for the parts with at most n members, n by n.
LEMMA SumsExist ==
    ASSUME NEW S, IsFiniteSet(S), NEW g \in [S -> Nat]
    PROVE  \E it \in [SUBSET S -> Nat] : SumsUp(it, g, S)
<1>. DEFINE Upto(n) == {s \in SUBSET S : Cardinality(s) <= n}
            Made(it, n) ==
                \A s \in Upto(n) : it[s] = IF s = {} THEN 0 ELSE g[PickOne(s)] + it[s \ {PickOne(s)}]
            Open == {n \in Nat : ~\E it \in [SUBSET S -> Nat] : Made(it, n)}
<1>1. \A s \in SUBSET S : Cardinality(s) \in Nat /\ Cardinality(s) <= Cardinality(S) /\ (Cardinality(s) = 0 => s = {})
    <2>1. \A s \in SUBSET S : IsFiniteSet(s) /\ Cardinality(s) <= Cardinality(S)
        BY FS_Subset
    <2>. QED BY <2>1, FS_CardinalityType, FS_EmptySet
<1>2. Open = {}
    <2>1. SUFFICES ASSUME Open # {} PROVE FALSE
        OBVIOUS
    <2>2. PICK n \in Open : \A m \in Open : n <= m
        <3>1. Open \in SUBSET Nat
            OBVIOUS
        <3>. HIDE DEF Open
        <3>. QED BY <2>1, <3>1, LeastNatural
    <2>3. n # 0
        <3>. DEFINE it == [s \in SUBSET S |-> 0]
        <3>1. \A s \in Upto(0) : s = {}
            BY <1>1
        <3>2. it \in [SUBSET S -> Nat] /\ Made(it, 0)
            BY <3>1
        <3>. HIDE DEF it, Made
        <3>3. 0 \notin Open
            BY <3>2
        <3>. HIDE DEF Open
        <3>. QED BY <3>3
    <2>4. n \in Nat /\ n - 1 \in Nat /\ n - 1 \notin Open
        <3>1. n \in Nat
            BY <2>2
        <3>. HIDE DEF Open
        <3>2. n - 1 \in Nat /\ ~(n <= n - 1)
            BY <2>3, <3>1
        <3>. QED BY <2>2, <3>1, <3>2
    <2>5. PICK h \in [SUBSET S -> Nat] : Made(h, n - 1)
        BY <2>4
    <2>. DEFINE it == [s \in SUBSET S |-> IF Cardinality(s) <= n - 1 THEN h[s]
                                          ELSE g[PickOne(s)] + h[s \ {PickOne(s)}]]
    <2>6. \A s \in SUBSET S : ~(Cardinality(s) <= n - 1) => s # {}
        <3>1. Cardinality({}) = 0 /\ 0 <= n - 1
            BY <2>4, FS_EmptySet
        <3>. QED BY <3>1
    <2>7. \A s \in SUBSET S : s # {} => PickOne(s) \in S /\ s \ {PickOne(s)} \in SUBSET S
        BY PickedIsGone
    <2>8. it \in [SUBSET S -> Nat]
        <3>1. ASSUME NEW s \in SUBSET S, ~(Cardinality(s) <= n - 1)
              PROVE  g[PickOne(s)] + h[s \ {PickOne(s)}] \in Nat
            <4>1. g[PickOne(s)] \in Nat /\ h[s \ {PickOne(s)}] \in Nat
                BY <2>6, <2>7, <3>1
            <4>. QED BY <4>1
        <3>. QED BY <3>1
    <2>9. ASSUME NEW s \in Upto(n)
          PROVE  it[s] = IF s = {} THEN 0 ELSE g[PickOne(s)] + it[s \ {PickOne(s)}]
        <3>1. CASE s = {}
            <4>1. s \in Upto(n - 1)
                BY <2>4, <3>1, FS_EmptySet
            <4>2. it[s] = h[s] /\ h[s] = 0
                BY <2>5, <3>1, <4>1
            <4>. QED BY <3>1, <4>2
        <3>2. CASE s # {}
            <4>. DEFINE rest == s \ {PickOne(s)}
            <4>1. Cardinality(rest) = Cardinality(s) - 1 /\ rest \in SUBSET S /\ Cardinality(s) \in Nat
                BY <3>2, PickedIsGone
            <4>2. Cardinality(rest) <= n - 1
                BY <2>4, <4>1
            <4>3. it[rest] = h[rest]
                BY <4>1, <4>2
            <4>4. Cardinality(s) <= n - 1 => h[s] = g[PickOne(s)] + h[rest]
                BY <2>5, <3>2
            <4>. HIDE DEF rest
            <4>5. it[s] = g[PickOne(s)] + h[rest]
                BY <4>4 DEF rest
            <4>. QED BY <3>2, <4>3, <4>5 DEF rest
        <3>. QED BY <3>1, <3>2
    <2>10. Made(it, n)
        BY <2>9
    <2>. QED BY <2>2, <2>8, <2>10
<1>3. Cardinality(S) \in Nat
    BY FS_CardinalityType
<1>4. PICK it \in [SUBSET S -> Nat] : Made(it, Cardinality(S))
    BY <1>2, <1>3
<1>5. \A s \in SUBSET S : it[s] = IF s = {} THEN 0 ELSE g[PickOne(s)] + it[s \ {PickOne(s)}]
    BY <1>1, <1>4
<1>6. SumsUp(it, g, S)
    BY <1>5 DEF SumsUp
<1>. QED BY <1>6

\* A sum of natural numbers is one.
LEMMA SumsAreNatural ==
    ASSUME NEW S, IsFiniteSet(S), NEW g \in [S -> Nat], NEW it, SumsUp(it, g, S)
    PROVE  \A s \in SUBSET S : it[s] \in Nat
<1>. DEFINE Bad == {s \in SUBSET S : it[s] \notin Nat}
            Sizes == {Cardinality(s) : s \in Bad}
<1>1. SUFFICES ASSUME Bad # {} PROVE FALSE
    OBVIOUS
<1>2. \A s \in SUBSET S : Cardinality(s) \in Nat
    <2>1. \A s \in SUBSET S : IsFiniteSet(s)
        BY FS_Subset
    <2>. QED BY <2>1, FS_CardinalityType
<1>3. Sizes \in SUBSET Nat /\ Sizes # {}
    BY <1>1, <1>2
<1>4. PICK n \in Sizes : \A m \in Sizes : n <= m
    <2>. HIDE DEF Sizes
    <2>. QED BY <1>3, LeastNatural
<1>5. PICK s \in Bad : Cardinality(s) = n
    BY <1>4
<1>6. \A t \in Bad : Cardinality(s) <= Cardinality(t)
    BY <1>4, <1>5
<1>7. s # {}
    BY <1>5 DEF SumsUp
<1>8. /\ PickOne(s) \in S /\ s \ {PickOne(s)} \in SUBSET S
      /\ Cardinality(s) \in Nat /\ Cardinality(s \ {PickOne(s)}) = Cardinality(s) - 1
    BY <1>5, <1>7, PickedIsGone
<1>9. s \ {PickOne(s)} \notin Bad
    BY <1>6, <1>8
<1>10. it[s \ {PickOne(s)}] \in Nat /\ g[PickOne(s)] \in Nat
    BY <1>8, <1>9
<1>11. it[s] = g[PickOne(s)] + it[s \ {PickOne(s)}]
    BY <1>5, <1>7 DEF SumsUp
<1>12. it[s] \in Nat
    BY <1>10, <1>11
<1>. QED BY <1>5, <1>12

\* Two such functions agree on a part on whose members what they add up agrees.
LEMMA SumsAgree ==
    ASSUME NEW S, NEW T, IsFiniteSet(S), NEW g \in [S -> Nat], NEW h \in [T -> Nat],
           NEW it, SumsUp(it, g, S), NEW jt, SumsUp(jt, h, T),
           NEW U \in SUBSET S, U \in SUBSET T, \A x \in U : g[x] = h[x]
    PROVE  it[U] = jt[U]
<1>. DEFINE Bad == {s \in SUBSET U : it[s] # jt[s]}
            Sizes == {Cardinality(s) : s \in Bad}
<1>1. SUFFICES ASSUME Bad # {} PROVE FALSE
    OBVIOUS
<1>2. IsFiniteSet(U) /\ \A s \in SUBSET U : Cardinality(s) \in Nat
    <2>1. IsFiniteSet(U) /\ \A s \in SUBSET U : IsFiniteSet(s)
        BY FS_Subset
    <2>. QED BY <2>1, FS_CardinalityType
<1>3. Sizes \in SUBSET Nat /\ Sizes # {}
    BY <1>1, <1>2
<1>4. PICK n \in Sizes : \A m \in Sizes : n <= m
    <2>. HIDE DEF Sizes
    <2>. QED BY <1>3, LeastNatural
<1>5. PICK s \in Bad : Cardinality(s) = n
    BY <1>4
<1>6. \A t \in Bad : Cardinality(s) <= Cardinality(t)
    BY <1>4, <1>5
<1>7. s \in SUBSET S /\ s \in SUBSET T /\ s \in SUBSET U
    BY <1>5
<1>8. s # {}
    <2>1. s = {} => it[s] = 0 /\ jt[s] = 0
        BY <1>7 DEF SumsUp
    <2>. QED BY <1>5, <2>1
<1>9. /\ PickOne(s) \in s /\ s \ {PickOne(s)} \in SUBSET U
      /\ Cardinality(s) \in Nat /\ Cardinality(s \ {PickOne(s)}) = Cardinality(s) - 1
    BY <1>2, <1>7, <1>8, PickedIsGone
<1>10. it[s \ {PickOne(s)}] = jt[s \ {PickOne(s)}]
    BY <1>6, <1>9
<1>11. it[s] = g[PickOne(s)] + it[s \ {PickOne(s)}] /\ jt[s] = h[PickOne(s)] + jt[s \ {PickOne(s)}]
    BY <1>7, <1>8 DEF SumsUp
<1>12. g[PickOne(s)] = h[PickOne(s)]
    BY <1>7, <1>9
<1>. QED BY <1>5, <1>10, <1>11, <1>12

-----------------------------------------------------------------------------
(* The sum of g over a part s of its domain.                               *)
SumOf(g, s) == (CHOOSE it : SumsUp(it, g, DOMAIN g))[s]

\* It is the value of any function that adds up g.
LEMMA SumOfIsTheSum ==
    ASSUME NEW S, IsFiniteSet(S), NEW g \in [S -> Nat]
    PROVE  /\ \A s \in SUBSET S : SumOf(g, s) \in Nat
           /\ \E it : SumsUp(it, g, S) /\ \A s \in SUBSET S : SumOf(g, s) = it[s]
<1>. DEFINE it == CHOOSE it : SumsUp(it, g, S)
<1>1. DOMAIN g = S
    OBVIOUS
<1>2. SumsUp(it, g, S)
    BY SumsExist
<1>3. \A s : SumOf(g, s) = it[s]
    BY <1>1 DEF SumOf
<1>. HIDE DEF it
<1>4. \A s \in SUBSET S : it[s] \in Nat
    BY <1>2, SumsAreNatural
<1>. QED BY <1>2, <1>3, <1>4

\* Nothing adds up to nothing.
LEMMA SumOfNone ==
    ASSUME NEW S, IsFiniteSet(S), NEW g \in [S -> Nat]
    PROVE  SumOf(g, {}) = 0
<1>1. PICK it : SumsUp(it, g, S) /\ \A s \in SUBSET S : SumOf(g, s) = it[s]
    BY SumOfIsTheSum
<1>2. it[{}] = 0
    BY <1>1 DEF SumsUp
<1>. QED BY <1>1, <1>2

\* A sum depends on what is added up only.
LEMMA SumOfAgrees ==
    ASSUME NEW S, IsFiniteSet(S), NEW g \in [S -> Nat],
           NEW T, IsFiniteSet(T), NEW h \in [T -> Nat],
           NEW s \in SUBSET S, s \in SUBSET T, \A x \in s : g[x] = h[x]
    PROVE  SumOf(g, s) = SumOf(h, s)
<1>1. PICK it : SumsUp(it, g, S) /\ \A t \in SUBSET S : SumOf(g, t) = it[t]
    BY SumOfIsTheSum
<1>2. PICK jt : SumsUp(jt, h, T) /\ \A t \in SUBSET T : SumOf(h, t) = jt[t]
    BY SumOfIsTheSum
<1>3. it[s] = jt[s]
    BY <1>1, <1>2, SumsAgree
<1>. QED BY <1>1, <1>2, <1>3

\* Any member may be added last.
LEMMA SumOfSplits ==
    ASSUME NEW S, IsFiniteSet(S), NEW g \in [S -> Nat], NEW u \in SUBSET S, NEW y \in u
    PROVE  SumOf(g, u) = g[y] + SumOf(g, u \ {y})
<1>. DEFINE Splits(s) == \A x \in s : SumOf(g, s) = g[x] + SumOf(g, s \ {x})
            Bad == {s \in SUBSET S : ~Splits(s)}
            Sizes == {Cardinality(s) : s \in Bad}
<1>1. SUFFICES ASSUME Bad # {} PROVE FALSE
    OBVIOUS
<1>2. \A s \in SUBSET S : Cardinality(s) \in Nat /\ IsFiniteSet(s) /\ SumOf(g, s) \in Nat
    <2>1. \A s \in SUBSET S : IsFiniteSet(s)
        BY FS_Subset
    <2>. QED BY <2>1, FS_CardinalityType, SumOfIsTheSum
<1>3. Sizes \in SUBSET Nat /\ Sizes # {}
    BY <1>1, <1>2
<1>4. PICK n \in Sizes : \A m \in Sizes : n <= m
    <2>. HIDE DEF Sizes
    <2>. QED BY <1>3, LeastNatural
<1>5. PICK s \in Bad : Cardinality(s) = n
    BY <1>4
<1>6. \A t \in Bad : Cardinality(s) <= Cardinality(t)
    BY <1>4, <1>5
<1>7. PICK x \in s : SumOf(g, s) # g[x] + SumOf(g, s \ {x})
    BY <1>5
<1>. DEFINE p == PickOne(s)
<1>8. s \in SUBSET S /\ s # {} /\ p \in s /\ s \ {p} \in SUBSET S /\ s \ {x} \in SUBSET S
    BY <1>5, <1>7, PickedIsGone
<1>9. SumOf(g, s) = g[p] + SumOf(g, s \ {p})
    <2>1. PICK it : SumsUp(it, g, S) /\ \A t \in SUBSET S : SumOf(g, t) = it[t]
        BY SumOfIsTheSum
    <2>2. it[s] = g[p] + it[s \ {p}]
        BY <1>8, <2>1 DEF SumsUp
    <2>. HIDE DEF p
    <2>. QED BY <1>8, <2>1, <2>2
<1>. HIDE DEF p
<1>10. p # x
    BY <1>7, <1>9
<1>11. \A z \in s : Splits(s \ {z})
    <2>1. SUFFICES ASSUME NEW z \in s PROVE s \ {z} \notin Bad /\ s \ {z} \in SUBSET S
        OBVIOUS
    <2>2. Cardinality(s \ {z}) = Cardinality(s) - 1 /\ Cardinality(s) \in Nat
        BY <1>2, <1>8, FS_RemoveElement
    <2>3. s \ {z} \in SUBSET S
        BY <1>8
    <2>. HIDE DEF Bad
    <2>. QED BY <1>6, <2>2, <2>3
<1>12. p \in s \ {x} /\ x \in s \ {p}
    BY <1>8, <1>10, <1>7
<1>13. /\ SumOf(g, s \ {p}) = g[x] + SumOf(g, (s \ {p}) \ {x})
       /\ SumOf(g, s \ {x}) = g[p] + SumOf(g, (s \ {x}) \ {p})
    BY <1>8, <1>11, <1>12, <1>7
<1>14. (s \ {p}) \ {x} = (s \ {x}) \ {p} /\ (s \ {p}) \ {x} \in SUBSET S
    BY <1>8
<1>15. SumOf(g, (s \ {p}) \ {x}) \in Nat /\ g[x] \in Nat /\ g[p] \in Nat
    BY <1>2, <1>7, <1>8, <1>14
<1>16. SumOf(g, (s \ {p}) \ {x}) = SumOf(g, (s \ {x}) \ {p})
    BY <1>14
<1>. HIDE DEF Bad, Sizes, Splits
<1>. QED BY <1>7, <1>9, <1>13, <1>15, <1>16

\* The sum over a larger part is larger, by what the sum over the rest is.
LEMMA SumOfParts ==
    ASSUME NEW S, IsFiniteSet(S), NEW g \in [S -> Nat], NEW s \in SUBSET S, NEW v \in SUBSET s
    PROVE  SumOf(g, s) = SumOf(g, v) + SumOf(g, s \ v)
<1>. DEFINE Bad == {t \in SUBSET v : SumOf(g, s) # SumOf(g, t) + SumOf(g, s \ t)}
            Sizes == {Cardinality(t) : t \in Bad}
<1>1. SUFFICES ASSUME Bad # {} PROVE FALSE
    OBVIOUS
<1>2. \A t \in SUBSET S : Cardinality(t) \in Nat /\ IsFiniteSet(t) /\ SumOf(g, t) \in Nat
    <2>1. \A t \in SUBSET S : IsFiniteSet(t)
        BY FS_Subset
    <2>. QED BY <2>1, FS_CardinalityType, SumOfIsTheSum
<1>3. Sizes \in SUBSET Nat /\ Sizes # {}
    BY <1>1, <1>2
<1>4. PICK n \in Sizes : \A m \in Sizes : n <= m
    <2>. HIDE DEF Sizes
    <2>. QED BY <1>3, LeastNatural
<1>5. PICK t \in Bad : Cardinality(t) = n
    BY <1>4
<1>6. \A z \in Bad : Cardinality(t) <= Cardinality(z)
    BY <1>4, <1>5
<1>7. t \in SUBSET v /\ t \in SUBSET S /\ SumOf(g, s) # SumOf(g, t) + SumOf(g, s \ t)
    BY <1>5
<1>8. t # {}
    <2>1. SumOf(g, {}) = 0 /\ s \ {} = s /\ SumOf(g, s) \in Nat
        BY <1>2, SumOfNone
    <2>. QED BY <1>7, <2>1
<1>9. PICK x \in t : TRUE
    BY <1>8
<1>. DEFINE r == t \ {x}
<1>10. r \in SUBSET v /\ r \in SUBSET S /\ Cardinality(r) = Cardinality(t) - 1 /\ Cardinality(t) \in Nat
    BY <1>2, <1>7, <1>9, FS_RemoveElement
<1>11. SumOf(g, s) = SumOf(g, r) + SumOf(g, s \ r)
    <2>. HIDE DEF r
    <2>1. ~(Cardinality(t) <= Cardinality(r))
        BY <1>10
    <2>2. r \notin Bad
        <3>. HIDE DEF Bad
        <3>. QED BY <1>6, <2>1
    <2>. QED BY <1>10, <2>2
<1>12. SumOf(g, t) = g[x] + SumOf(g, r)
    BY <1>7, <1>9, SumOfSplits
<1>13. x \in s \ r /\ s \ r \in SUBSET S /\ (s \ r) \ {x} = s \ t
    BY <1>7, <1>9
<1>14. SumOf(g, s \ r) = g[x] + SumOf(g, s \ t)
    <2>1. SumOf(g, s \ r) = g[x] + SumOf(g, (s \ r) \ {x})
        <3>. HIDE DEF r
        <3>. QED BY <1>13, SumOfSplits
    <2>. QED BY <1>13, <2>1
<1>15. s \ t \in SUBSET S
    OBVIOUS
<1>. HIDE DEF r
<1>16. SumOf(g, r) \in Nat /\ SumOf(g, s \ t) \in Nat /\ g[x] \in Nat
    BY <1>2, <1>7, <1>9, <1>10, <1>15
<1>. QED BY <1>7, <1>11, <1>12, <1>14, <1>16

\* What is nothing for each adds up to nothing.
LEMMA SumOfNothing ==
    ASSUME NEW S, IsFiniteSet(S), NEW g \in [S -> Nat], NEW s \in SUBSET S, \A x \in s : g[x] = 0
    PROVE  SumOf(g, s) = 0
<1>. DEFINE Bad == {t \in SUBSET s : SumOf(g, t) # 0}
            Sizes == {Cardinality(t) : t \in Bad}
<1>1. SUFFICES ASSUME Bad # {} PROVE FALSE
    OBVIOUS
<1>2. \A t \in SUBSET S : Cardinality(t) \in Nat /\ IsFiniteSet(t)
    <2>1. \A t \in SUBSET S : IsFiniteSet(t)
        BY FS_Subset
    <2>. QED BY <2>1, FS_CardinalityType
<1>3. Sizes \in SUBSET Nat /\ Sizes # {}
    BY <1>1, <1>2
<1>4. PICK n \in Sizes : \A m \in Sizes : n <= m
    <2>. HIDE DEF Sizes
    <2>. QED BY <1>3, LeastNatural
<1>5. PICK t \in Bad : Cardinality(t) = n
    BY <1>4
<1>6. \A z \in Bad : Cardinality(t) <= Cardinality(z)
    BY <1>4, <1>5
<1>7. t \in SUBSET s /\ t \in SUBSET S /\ SumOf(g, t) # 0
    BY <1>5
<1>8. PICK x \in t : TRUE
    BY <1>7, SumOfNone
<1>9. Cardinality(t \ {x}) = Cardinality(t) - 1 /\ Cardinality(t) \in Nat /\ t \ {x} \in SUBSET s
    BY <1>2, <1>7, FS_RemoveElement
<1>10. SumOf(g, t \ {x}) = 0
    <2>1. ~(Cardinality(t) <= Cardinality(t \ {x}))
        BY <1>9
    <2>2. t \ {x} \notin Bad
        <3>. HIDE DEF Bad
        <3>. QED BY <1>6, <2>1
    <2>. QED BY <1>9, <2>2
<1>11. SumOf(g, t) = g[x] + SumOf(g, t \ {x})
    BY <1>7, SumOfSplits
<1>12. g[x] = 0
    BY <1>7
<1>. QED BY <1>7, <1>10, <1>11, <1>12

\* What is true of nothing, and of a part when it is of all that lack one of its members,
\* is true of every part.
LEMMA PartByPart ==
    ASSUME NEW S, IsFiniteSet(S), NEW Good \in SUBSET SUBSET S, {} \in Good,
           \A t \in SUBSET S : t # {} /\ (\A x \in t : t \ {x} \in Good) => t \in Good
    PROVE  \A t \in SUBSET S : t \in Good
<1>. DEFINE Bad == {t \in SUBSET S : t \notin Good}
            Sizes == {Cardinality(t) : t \in Bad}
<1>1. SUFFICES ASSUME Bad # {} PROVE FALSE
    OBVIOUS
<1>2. \A t \in SUBSET S : Cardinality(t) \in Nat /\ IsFiniteSet(t)
    <2>1. \A t \in SUBSET S : IsFiniteSet(t)
        BY FS_Subset
    <2>. QED BY <2>1, FS_CardinalityType
<1>3. Sizes \in SUBSET Nat /\ Sizes # {}
    BY <1>1, <1>2
<1>4. PICK n \in Sizes : \A m \in Sizes : n <= m
    <2>. HIDE DEF Sizes
    <2>. QED BY <1>3, LeastNatural
<1>5. PICK t \in Bad : Cardinality(t) = n
    BY <1>4
<1>6. \A z \in Bad : Cardinality(t) <= Cardinality(z)
    BY <1>4, <1>5
<1>7. PICK x \in t : t \ {x} \notin Good
    BY <1>5
<1>8. Cardinality(t \ {x}) = Cardinality(t) - 1 /\ Cardinality(t) \in Nat /\ t \ {x} \in SUBSET S
    BY <1>2, <1>5, <1>7, FS_RemoveElement
<1>9. t \ {x} \in Bad /\ ~(Cardinality(t) <= Cardinality(t \ {x}))
    BY <1>7, <1>8
<1>. HIDE DEF Bad
<1>. QED BY <1>6, <1>9

\* F is taken apart, one member after the other, as the sum of the numbers g is.
TakesApart(F, g, S) ==
    /\ IsFiniteSet(S) /\ g \in [S -> Nat] /\ F \in [SUBSET S -> Nat] /\ F[{}] = 0
    /\ \A t \in SUBSET S : \A x \in t : F[t] = g[x] + F[t \ {x}]

\* What is taken apart as a sum is, one member after the other, is the sum.
LEMMA TakenApart ==
    ASSUME NEW S, NEW g, NEW F, TakesApart(F, g, S)
    PROVE  \A t \in SUBSET S : SumOf(g, t) = F[t]
<1>. USE DEF TakesApart
<1>. DEFINE Good == {t \in SUBSET S : SumOf(g, t) = F[t]}
<1>1. {} \in Good
    BY SumOfNone
<1>2. ASSUME NEW t \in SUBSET S, t # {}, \A x \in t : t \ {x} \in Good PROVE t \in Good
    <2>1. PICK x \in t : TRUE
        BY <1>2
    <2>2. SumOf(g, t) = g[x] + SumOf(g, t \ {x})
        BY SumOfSplits
    <2>3. SumOf(g, t \ {x}) = F[t \ {x}]
        BY <1>2, <2>1
    <2>. QED BY <2>2, <2>3
<1>3. Good \in SUBSET SUBSET S
    OBVIOUS
<1>. HIDE DEF Good
<1>4. \A t \in SUBSET S : t \in Good
    BY <1>1, <1>2, <1>3, PartByPart
<1>. QED BY <1>4 DEF Good

\* Ones add up to their number.
LEMMA SumOfOnes ==
    ASSUME NEW S, IsFiniteSet(S), NEW g \in [S -> Nat], \A x \in S : g[x] = 1
    PROVE  SumOf(g, S) = Cardinality(S)
<1>. DEFINE Good == {t \in SUBSET S : SumOf(g, t) = Cardinality(t)}
<1>1. {} \in Good
    BY SumOfNone, FS_EmptySet
<1>2. ASSUME NEW t \in SUBSET S, t # {}, \A x \in t : t \ {x} \in Good PROVE t \in Good
    <2>1. PICK x \in t : TRUE
        BY <1>2
    <2>2. SumOf(g, t) = g[x] + SumOf(g, t \ {x}) /\ g[x] = 1
        BY SumOfSplits
    <2>3. SumOf(g, t \ {x}) = Cardinality(t \ {x})
        BY <1>2, <2>1
    <2>4. IsFiniteSet(t)
        BY FS_Subset
    <2>5. Cardinality(t \ {x}) = Cardinality(t) - 1 /\ Cardinality(t) \in Nat
        BY <2>1, <2>4, FS_RemoveElement, FS_CardinalityType
    <2>. QED BY <2>2, <2>3, <2>5
<1>3. Good \in SUBSET SUBSET S
    OBVIOUS
<1>. HIDE DEF Good
<1>4. \A t \in SUBSET S : t \in Good
    BY <1>1, <1>2, <1>3, PartByPart
<1>5. S \in Good
    BY <1>4
<1>. QED BY <1>5 DEF Good

\* What holds of each, but for a constant, holds of the sum, but for that many constants.
LEMMA SumOfBounded ==
    ASSUME NEW S, IsFiniteSet(S), NEW f \in [S -> Nat], NEW g \in [S -> Nat],
           NEW a \in Nat, NEW b \in Nat, NEW c \in Nat,
           \A x \in S : a * f[x] <= b * g[x] + c
    PROVE  \A s \in SUBSET S : a * SumOf(f, s) <= b * SumOf(g, s) + c * Cardinality(s)
<1>. DEFINE Good == {t \in SUBSET S : a * SumOf(f, t) <= b * SumOf(g, t) + c * Cardinality(t)}
<1>1. {} \in Good
    BY SumOfNone, FS_EmptySet
<1>2. ASSUME NEW t \in SUBSET S, t # {}, \A x \in t : t \ {x} \in Good PROVE t \in Good
    <2>1. PICK x \in t : TRUE
        BY <1>2
    <2>2. SumOf(f, t) = f[x] + SumOf(f, t \ {x}) /\ SumOf(g, t) = g[x] + SumOf(g, t \ {x})
        BY SumOfSplits
    <2>3. PICK F, G, n, p, q : /\ F = SumOf(f, t \ {x}) /\ G = SumOf(g, t \ {x})
                               /\ n = Cardinality(t \ {x}) /\ p = f[x] /\ q = g[x]
        OBVIOUS
    <2>4. F \in Nat /\ G \in Nat /\ p \in Nat /\ q \in Nat
        <3>1. t \ {x} \in SUBSET S
            OBVIOUS
        <3>. QED BY <2>3, <3>1, SumOfIsTheSum
    <2>5. n \in Nat /\ Cardinality(t) = n + 1
        <3>1. IsFiniteSet(t)
            BY FS_Subset
        <3>2. IsFiniteSet(t \ {x}) /\ Cardinality(t \ {x}) = Cardinality(t) - 1
            BY <2>1, <3>1, FS_RemoveElement
        <3>. QED BY <2>3, <3>1, <3>2, FS_CardinalityType
    <2>6. a * F <= b * G + c * n /\ a * p <= b * q + c
        BY <1>2, <2>1, <2>3
    <2>7. a * (p + F) = a * p + a * F /\ b * (q + G) = b * q + b * G /\ c * (n + 1) = c * n + c
        BY <2>4, <2>5
    <2>8. a * p \in Nat /\ a * F \in Nat /\ b * q \in Nat /\ b * G \in Nat /\ c * n \in Nat
        BY <2>4, <2>5
    <2>9. a * (p + F) <= b * (q + G) + c * (n + 1)
        BY <2>6, <2>7, <2>8
    <2>. QED BY <2>2, <2>3, <2>5, <2>9
<1>3. Good \in SUBSET SUBSET S
    OBVIOUS
<1>. HIDE DEF Good
<1>4. \A t \in SUBSET S : t \in Good
    BY <1>1, <1>2, <1>3, PartByPart
<1>. QED BY <1>4 DEF Good

\* The members of T that k maps to some of V, and how many there are for each of V.
Mapped(T, k, V) == {x \in T : k[x] \in V}

\* They are counted value by value.
LEMMA SumOfMapped ==
    ASSUME NEW S, IsFiniteSet(S), NEW T, IsFiniteSet(T), NEW k
    PROVE  LET g == [u \in S |-> Cardinality(Mapped(T, k, {u}))] IN
           g \in [S -> Nat] /\ SumOf(g, S) = Cardinality(Mapped(T, k, S))
<1>. DEFINE g == [u \in S |-> Cardinality(Mapped(T, k, {u}))]
            F == [V \in SUBSET S |-> Cardinality(Mapped(T, k, V))]
<1>1. \A V : IsFiniteSet(Mapped(T, k, V)) /\ Cardinality(Mapped(T, k, V)) \in Nat
    <2>1. \A V : IsFiniteSet(Mapped(T, k, V))
        BY FS_Subset DEF Mapped
    <2>. QED BY <2>1, FS_CardinalityType
<1>2. g \in [S -> Nat] /\ F \in [SUBSET S -> Nat]
    BY <1>1
<1>3. F[{}] = 0
    <2>1. Mapped(T, k, {}) = {}
        BY DEF Mapped
    <2>. QED BY <2>1, FS_EmptySet
<1>4. ASSUME NEW V \in SUBSET S, NEW u \in V PROVE F[V] = g[u] + F[V \ {u}]
    <2>1. PICK one, rest : one = Mapped(T, k, {u}) /\ rest = Mapped(T, k, V \ {u})
        OBVIOUS
    <2>2. Mapped(T, k, V) = one \union rest /\ one \intersect rest = {}
        BY <2>1 DEF Mapped
    <2>3. IsFiniteSet(one) /\ IsFiniteSet(rest) /\ Cardinality(one) \in Nat /\ Cardinality(rest) \in Nat
        BY <1>1, <2>1
    <2>4. Cardinality(one \union rest) = Cardinality(one) + Cardinality(rest)
        <3>1. Cardinality(one \union rest) =
                Cardinality(one) + Cardinality(rest) - Cardinality(one \intersect rest)
            BY <2>3, FS_Union
        <3>2. Cardinality(one \intersect rest) = 0
            BY <2>2, FS_EmptySet
        <3>. QED BY <2>3, <3>1, <3>2
    <2>5. F[V] = Cardinality(Mapped(T, k, V)) /\ F[V \ {u}] = Cardinality(rest) /\ g[u] = Cardinality(one)
        BY <2>1
    <2>. QED BY <2>2, <2>4, <2>5
<1>5. F[S] = Cardinality(Mapped(T, k, S))
    OBVIOUS
<1>. HIDE DEF g, F
<1>6. \A V \in SUBSET S : SumOf(g, V) = F[V]
    <2>1. TakesApart(F, g, S)
        BY <1>1, <1>2, <1>3, <1>4 DEF TakesApart
    <2>. QED BY <2>1, TakenApart
<1>7. SumOf(g, S) = F[S]
    BY <1>6
<1>. QED BY <1>2, <1>5, <1>7 DEF g

-----------------------------------------------------------------------------
(* Quotients of natural numbers.                                           *)

\* A quotient, by its remainder.
LEMMA Quotient ==
    ASSUME NEW a \in Nat, NEW n \in Nat \ {0}
    PROVE  a \div n \in Nat /\ (a \div n) * n <= a /\ a < (a \div n) * n + n
<1>1. n \in Int /\ n > 0 /\ a \in Int
    OBVIOUS
<1>2. a \div n \in Int /\ a % n \in 0..n-1 /\ a = n * (a \div n) + (a % n)
    BY <1>1
<1>. DEFINE q == a \div n
            m == a % n
<1>. HIDE DEF q, m
<1>3. q \in Int /\ m \in 0..n-1 /\ a = n * q + m
    BY <1>2 DEF q, m
<1>4. q >= 0
    <2>1. SUFFICES ASSUME q < 0 PROVE FALSE
        BY <1>3
    <2>2. PICK d \in Nat : q = -1 - d
        <3>1. -1 - q \in Nat /\ q = -1 - (-1 - q)
            BY <1>3, <2>1
        <3>. QED BY <3>1
    <2>3. n * q = -n - n * d
        BY <2>2
    <2>4. n * d \in Nat
        BY <2>2
    <2>. QED BY <1>1, <1>3, <2>3, <2>4
<1>5. n * q = q * n /\ n * q \in Int
    BY <1>1, <1>3
<1>6. q \in Nat /\ q * n <= a /\ a < q * n + n
    BY <1>1, <1>3, <1>4, <1>5
<1>. QED BY <1>6 DEF q

\* A factor that is larger by one makes the product larger by the other factor.
LEMMA LargerFactor ==
    ASSUME NEW q \in Nat, NEW p \in Nat, NEW n \in Nat, q > p
    PROVE  q * n >= p * n + n
<1>1. PICK d \in Nat : q = p + 1 + d
    <2>1. q - p - 1 \in Nat /\ q = p + 1 + (q - p - 1)
        OBVIOUS
    <2>. QED BY <2>1
<1>2. q * n = p * n + n + d * n
    BY <1>1
<1>3. d * n >= 0
    OBVIOUS
<1>4. p * n \in Nat /\ d*n \in Nat /\ q * n \in Nat
    OBVIOUS
<1>. QED BY <1>2, <1>3, <1>4

\* A common factor may be left out.
LEMMA SameFactor ==
    ASSUME NEW x \in Nat, NEW y \in Nat, NEW n \in Nat \ {0}, n * x <= n * y
    PROVE  x <= y
<1>1. x > y => x * n >= y * n + n
    BY LargerFactor
<1>2. n * x = x * n /\ n * y = y * n /\ x * n \in Nat /\ y * n \in Nat
    OBVIOUS
<1>. QED BY <1>1, <1>2

\* A larger dividend has a larger quotient, by one at most if it is larger by one.
LEMMA QuotientGrows ==
    ASSUME NEW a \in Nat, NEW b \in Nat, NEW n \in Nat \ {0}
    PROVE  /\ a <= b => a \div n <= b \div n
           /\ b <= a + 1 => b \div n <= (a \div n) + 1
           /\ a = 0 => a \div n = 0
<1>. DEFINE p == a \div n
            q == b \div n
<1>1. p \in Nat /\ p * n <= a /\ a < p * n + n /\ q \in Nat /\ q * n <= b /\ b < q * n + n
    BY Quotient
<1>. HIDE DEF p, q
<1>2. p > q => p * n >= q * n + n
    BY <1>1, LargerFactor
<1>3. q > p + 1 => q * n >= (p + 1) * n + n
    BY <1>1, LargerFactor
<1>4. (p + 1) * n = p * n + n /\ p * n \in Nat /\ q * n \in Nat
    BY <1>1
<1>5. p > 0 => p * n >= 0 * n + n
    BY <1>1, LargerFactor
<1>6. 0 * n = 0
    OBVIOUS
<1>7. a <= b => p <= q
    BY <1>1, <1>2, <1>4
<1>8. b <= a + 1 => q <= p + 1
    BY <1>1, <1>3, <1>4
<1>9. a = 0 => p = 0
    BY <1>1, <1>4, <1>5, <1>6
<1>. QED BY <1>7, <1>8, <1>9 DEF p, q

\* A larger divisor has a smaller quotient.
LEMMA QuotientShrinks ==
    ASSUME NEW a \in Nat, NEW m \in Nat \ {0}, NEW n \in Nat \ {0}, m <= n
    PROVE  a \div n <= a \div m
<1>. DEFINE p == a \div m
            q == a \div n
<1>1. p \in Nat /\ p * m <= a /\ a < p * m + m /\ q \in Nat /\ q * n <= a /\ a < q * n + n
    BY Quotient
<1>. HIDE DEF p, q
<1>2. q > p => q * m >= p * m + m
    BY <1>1, LargerFactor
<1>3. q * n >= q * m
    <2>1. PICK d \in Nat : n = m + d
        <3>1. n - m \in Nat /\ n = m + (n - m)
            OBVIOUS
        <3>. QED BY <3>1
    <2>2. q * n = q * m + q * d
        BY <2>1, <1>1
    <2>3. q * d \in Nat /\ q * m \in Nat
        BY <1>1
    <2>. QED BY <2>2, <2>3
<1>4. p * m \in Nat /\ q * n \in Nat /\ q * m \in Nat
    BY <1>1
<1>5. q <= p
    BY <1>1, <1>2, <1>3, <1>4
<1>. QED BY <1>5 DEF p, q
=============================================================================
