------------------------- MODULE UserAccountProofs -------------------------
(***************************************************************************)
(* What transaction_possible and commit_transaction do to one account, for *)
(* every number of slots, every set of items and every amount; and before  *)
(* that, what the proofs about money and items need of sums.               *)
(***************************************************************************)
EXTENDS UserAccount, FiniteSetTheorems, WellFoundedInduction, TLAPS

-----------------------------------------------------------------------------
(***************************************************************************)
(* Sums over finite sets, as MapThenSumSet defines them: that the order in *)
(* which the elements are taken does not matter, and what follows from it. *)
(* Total(m, S) is the sum of m[x] over the elements x of S.                *)
(***************************************************************************)
Pick(S) == CHOOSE x \in S : TRUE

\* g sums m over every subset of S, one element after the other.
Summing(m, g, S) ==
    \A s \in SUBSET S : g[s] = IF s = {} THEN 0 ELSE m[Pick(s)] + g[s \ {Pick(s)}]

SumsOf(m, g, S) == g = [s \in SUBSET S |-> IF s = {} THEN 0 ELSE m[Pick(s)] + g[s \ {Pick(s)}]]

Total(m, S) == (CHOOSE g : SumsOf(m, g, S))[S]

-----------------------------------------------------------------------------
LEMMA PickIsMember ==
    ASSUME NEW S, S # {}
    PROVE  Pick(S) \in S
BY DEF Pick

\* Of the subsets of a finite set that have a property there is one none of whose own subsets has it.
LEMMA SmallestSubset ==
    ASSUME NEW S, IsFiniteSet(S), NEW Bad \in SUBSET (SUBSET S), Bad # {}
    PROVE  \E s \in Bad : \A t \in SUBSET s : t # s => t \notin Bad
<1>1. IsWellFoundedOn(StrictSubsetOrdering(S), FiniteSubsetsOf(S))
    BY FS_StrictSubsetOrderingWellFounded
<1>2. FiniteSubsetsOf(S) = SUBSET S
    BY FS_FiniteSubsetsOfFinite
<1>3. PICK s \in Bad : \A t \in Bad : ~(<<t, s>> \in StrictSubsetOrdering(S))
    BY <1>1, <1>2, WFMin, ZenonT(40)
<1>4. ASSUME NEW t \in SUBSET s, t # s
      PROVE  t \notin Bad
  <2>1. t \in SUBSET S /\ s \in SUBSET S
    OBVIOUS
  <2>2. <<t, s>> \in StrictSubsetOrdering(S)
    BY <1>4, <2>1 DEF StrictSubsetOrdering
  <2>3. QED
    BY <1>3, <2>2
<1>5. QED
    BY <1>4

\* The sums over the subsets exist: they are found for larger and larger subsets.
LEMMA SumsExist ==
    ASSUME NEW S, IsFiniteSet(S), NEW m
    PROVE  \E g : SumsOf(m, g, S)
<1> DEFINE Small(n) == {s \in SUBSET S : Cardinality(s) <= n}
           Next(g, s) == IF s = {} THEN 0 ELSE m[Pick(s)] + g[s \ {Pick(s)}]
           Found(n) == \E g : g = [s \in Small(n) |-> Next(g, s)]
           Bad == {n \in Nat : ~Found(n)}
           Less == {ss \in Nat \X Nat : ss[1] < ss[2]}
<1>1. ASSUME NEW s \in SUBSET S
      PROVE  Cardinality(s) \in Nat /\ IsFiniteSet(s) /\ (Cardinality(s) = 0 <=> s = {})
             /\ (s # {} => Cardinality(s \ {Pick(s)}) = Cardinality(s) - 1)
  <2>1. IsFiniteSet(s)
    BY FS_Subset
  <2>2. Cardinality(s) \in Nat
    BY <2>1, FS_CardinalityType
  <2>3. QED
    BY <2>1, <2>2, FS_EmptySet, FS_RemoveElement, PickIsMember
<1>2. ASSUME NEW n \in Nat, n = 0 \/ Found(n - 1)
      PROVE  Found(n)
  <2>1. CASE n = 0
    <3> DEFINE g == [s \in Small(n) |-> 0]
    <3>1. ASSUME NEW s \in Small(n) PROVE s = {}
      <4>1. s \in SUBSET S /\ Cardinality(s) <= n
        OBVIOUS
      <4>2. Cardinality(s) \in Nat /\ (Cardinality(s) = 0 <=> s = {})
        BY <1>1, <4>1
      <4> HIDE DEF Small
      <4>3. QED
        BY <2>1, <4>1, <4>2
    <3>2. g = [s \in Small(n) |-> Next(g, s)]
        BY <3>1
    <3>3. QED
        BY <3>2
  <2>2. CASE n # 0 /\ Found(n - 1)
    <3>1. PICK h : h = [s \in Small(n - 1) |-> Next(h, s)]
        BY <2>2
    <3> DEFINE g == [s \in Small(n) |-> Next(h, s)]
    <3>2. \A s \in Small(n - 1) : s \in Small(n) /\ g[s] = h[s]
      <4> SUFFICES ASSUME NEW s \in Small(n - 1)
                   PROVE  s \in Small(n) /\ g[s] = h[s]
        OBVIOUS
      <4>1. s \in Small(n)
        <5>1. s \in SUBSET S /\ Cardinality(s) <= n - 1
            OBVIOUS
        <5>2. Cardinality(s) \in Nat
            BY <1>1, <5>1
        <5>3. Cardinality(s) <= n
            BY <5>1, <5>2
        <5>4. QED
            BY <5>1, <5>3
      <4>2. h[s] = Next(h, s)
        BY <3>1
      <4>3. QED
        BY <4>1, <4>2
    <3>3. \A s \in Small(n) : s # {} => s \ {Pick(s)} \in Small(n - 1)
        BY <1>1
    <3>4. \A s \in Small(n) : Next(g, s) = Next(h, s)
      <4> HIDE DEF g, Small
      <4> QED
        BY <3>2, <3>3
    <3>5. g = [s \in Small(n) |-> Next(g, s)]
      <4> HIDE DEF Next, Small
      <4> QED
        BY <3>4
    <3>6. QED
        BY <3>5
  <2>3. QED
    BY <1>2, <2>1, <2>2
<1> HIDE DEF Found
<1>3. Bad = {}
  <2> SUFFICES ASSUME Bad # {} PROVE FALSE
    OBVIOUS
  <2>1. IsWellFoundedOn(Less, Nat)
    BY NatLessThanWellFounded DEF OpToRel
  <2>2. Bad \subseteq Nat
    OBVIOUS
  <2> HIDE DEF Bad
  <2>3. PICK n \in Bad : \A k \in Bad : ~(<<k, n>> \in Less)
    BY <2>1, <2>2, WFMin, ZenonT(40)
  <2>4. n \in Nat /\ ~Found(n)
    BY DEF Bad
  <2>5. n # 0
    BY <1>2, <2>4
  <2>6. n - 1 \in Nat /\ <<n - 1, n>> \in Less
    BY <2>4, <2>5
  <2>7. Found(n - 1)
    BY <2>3, <2>6 DEF Bad
  <2>8. QED
    BY <1>2, <2>4, <2>7
<1>4. Found(Cardinality(S))
    BY <1>1, <1>3
<1>5. Small(Cardinality(S)) = SUBSET S
    BY FS_Subset
<1>6. QED
    BY <1>4, <1>5 DEF Found, SumsOf

\* A sum is the element taken first and the sum of the others, whatever set it is part of.
LEMMA TotalsOfSubsets ==
    ASSUME NEW S, IsFiniteSet(S), NEW m
    PROVE  \E g : /\ Summing(m, g, S)
                  /\ \A s \in SUBSET S : g[s] = Total(m, s)
<1> DEFINE G(s) == CHOOSE g : SumsOf(m, g, s)
<1>1. ASSUME NEW s \in SUBSET S
      PROVE  Summing(m, G(s), s) /\ Total(m, s) = G(s)[s]
  <2>1. IsFiniteSet(s)
    BY FS_Subset
  <2>2. SumsOf(m, G(s), s)
    BY <2>1, SumsExist
  <2> HIDE DEF G
  <2>3. Summing(m, G(s), s)
    BY <2>2 DEF SumsOf, Summing
  <2>4. QED
    BY <2>3 DEF Total, G
<1> HIDE DEF G
<1> DEFINE Bad == {s \in SUBSET S : G(S)[s] # Total(m, s)}
<1>2. ASSUME Bad # {}
      PROVE  FALSE
  <2>1. PICK s \in Bad : \A t \in SUBSET s : t # s => t \notin Bad
    <3>1. Bad \in SUBSET (SUBSET S)
        OBVIOUS
    <3> HIDE DEF Bad
    <3>2. QED
        BY <1>2, <3>1, SmallestSubset
  <2>2. s \in SUBSET S /\ G(S)[s] # G(s)[s]
    BY <1>1
  <2> DEFINE BadHere == {t \in SUBSET s : G(S)[t] # G(s)[t]}
  <2>3. PICK t \in BadHere : \A r \in SUBSET t : r # t => r \notin BadHere
    <3>1. BadHere \in SUBSET (SUBSET s) /\ BadHere # {} /\ IsFiniteSet(s)
        BY <2>2, FS_Subset
    <3> HIDE DEF BadHere
    <3>2. QED
        BY <3>1, SmallestSubset
  <2>4. t \in SUBSET s /\ t \in SUBSET S /\ G(S)[t] # G(s)[t]
    BY <2>2
  <2>5. /\ G(S)[t] = IF t = {} THEN 0 ELSE m[Pick(t)] + G(S)[t \ {Pick(t)}]
        /\ G(s)[t] = IF t = {} THEN 0 ELSE m[Pick(t)] + G(s)[t \ {Pick(t)}]
    BY <1>1, <2>2, <2>4 DEF Summing
  <2>6. t # {}
    BY <2>4, <2>5
  <2>7. t \ {Pick(t)} \in SUBSET t /\ t \ {Pick(t)} # t /\ t \ {Pick(t)} \in SUBSET s
    BY <2>4, <2>6, PickIsMember
  <2>8. G(S)[t \ {Pick(t)}] = G(s)[t \ {Pick(t)}]
    BY <2>3, <2>7
  <2>9. QED
    BY <2>4, <2>5, <2>6, <2>8
<1>3. \A s \in SUBSET S : G(S)[s] = Total(m, s)
    BY <1>2
<1>4. QED
    BY <1>1, <1>3

LEMMA TotalUnfolds ==
    ASSUME NEW S, IsFiniteSet(S), NEW m
    PROVE  Total(m, S) = IF S = {} THEN 0 ELSE m[Pick(S)] + Total(m, S \ {Pick(S)})
<1>1. PICK g : Summing(m, g, S) /\ \A s \in SUBSET S : g[s] = Total(m, s)
    BY TotalsOfSubsets
<1>2. S \in SUBSET S /\ S \ {Pick(S)} \in SUBSET S
    OBVIOUS
<1>3. QED
    BY <1>1, <1>2 DEF Summing

\* A sum of integers is an integer, ...
LEMMA TotalIsInteger ==
    ASSUME NEW S, IsFiniteSet(S), NEW m, \A x \in S : m[x] \in Int
    PROVE  Total(m, S) \in Int
<1> DEFINE Bad == {s \in SUBSET S : Total(m, s) \notin Int}
<1>1. ASSUME Bad # {}
      PROVE  FALSE
  <2>1. PICK s \in Bad : \A t \in SUBSET s : t # s => t \notin Bad
    <3>1. Bad \in SUBSET (SUBSET S)
        OBVIOUS
    <3> HIDE DEF Bad
    <3>2. QED
        BY <1>1, <3>1, SmallestSubset
  <2>2. s \in SUBSET S /\ Total(m, s) \notin Int /\ IsFiniteSet(s)
    BY FS_Subset
  <2>3. Total(m, s) = IF s = {} THEN 0 ELSE m[Pick(s)] + Total(m, s \ {Pick(s)})
    BY <2>2, TotalUnfolds
  <2>4. CASE s # {}
    <3>1. Pick(s) \in s /\ m[Pick(s)] \in Int
        BY <2>2, <2>4, PickIsMember
    <3>2. s \ {Pick(s)} \in SUBSET s /\ s \ {Pick(s)} # s
        BY <3>1
    <3>3. Total(m, s \ {Pick(s)}) \in Int
        BY <2>1, <2>2, <3>2
    <3>4. QED
        BY <2>2, <2>3, <2>4, <3>1, <3>3
  <2>5. QED
    BY <2>2, <2>3, <2>4
<1>2. QED
    BY <1>1

\* ... and any element may be taken first.
THEOREM TotalWithout ==
    ASSUME NEW S, IsFiniteSet(S), NEW m, \A x \in S : m[x] \in Int, NEW x \in S
    PROVE  Total(m, S) = m[x] + Total(m, S \ {x})
<1> DEFINE Bad == {s \in SUBSET S : \E y \in s : Total(m, s) # m[y] + Total(m, s \ {y})}
<1>1. ASSUME Bad # {}
      PROVE  FALSE
  <2>1. PICK s \in Bad : \A t \in SUBSET s : t # s => t \notin Bad
    <3>1. Bad \in SUBSET (SUBSET S)
        OBVIOUS
    <3> HIDE DEF Bad
    <3>2. QED
        BY <1>1, <3>1, SmallestSubset
  <2>2. PICK y \in s : Total(m, s) # m[y] + Total(m, s \ {y})
    OBVIOUS
  <2> DEFINE c == Pick(s)
             both == (s \ {c}) \ {y}
  <2>3. s \in SUBSET S /\ IsFiniteSet(s) /\ s # {} /\ c \in s
    BY FS_Subset, PickIsMember
  <2>4. Total(m, s) = m[c] + Total(m, s \ {c})
    BY <2>3, TotalUnfolds
  <2>5. c # y
    BY <2>2, <2>4
  <2> HIDE DEF c
  <2>6. /\ s \ {c} \in SUBSET s /\ s \ {c} # s /\ y \in s \ {c} /\ s \ {c} \in SUBSET S
        /\ s \ {y} \in SUBSET s /\ s \ {y} # s /\ c \in s \ {y} /\ s \ {y} \in SUBSET S
        /\ (s \ {y}) \ {c} = both
    BY <2>3, <2>5
  <2>7. s \ {c} \notin Bad /\ s \ {y} \notin Bad
    BY <2>1, <2>6
  <2>8. Total(m, s \ {c}) = m[y] + Total(m, both)
    BY <2>6, <2>7
  <2>9. Total(m, s \ {y}) = m[c] + Total(m, both)
    BY <2>6, <2>7
  <2>10. m[c] \in Int /\ m[y] \in Int /\ Total(m, both) \in Int
    <3>1. both \in SUBSET S
        BY <2>3
    <3>2. IsFiniteSet(both)
        BY <3>1, FS_Subset
    <3>3. Total(m, both) \in Int
        BY <3>1, <3>2, TotalIsInteger
    <3>4. QED
        BY <2>2, <2>3, <3>3
  <2> HIDE DEF both
  <2>11. QED
    BY <2>2, <2>4, <2>8, <2>9, <2>10
<1>2. QED
    BY <1>1

\* The sum over no elements is 0, ...
LEMMA TotalOfNone == \A m : Total(m, {}) = 0
BY FS_EmptySet, TotalUnfolds

\* ... one more element adds its value, ...
LEMMA TotalWith ==
    ASSUME NEW S, IsFiniteSet(S), NEW x, x \notin S, NEW m, \A y \in S \cup {x} : m[y] \in Int
    PROVE  Total(m, S \cup {x}) = m[x] + Total(m, S)
<1>1. IsFiniteSet(S \cup {x}) /\ x \in S \cup {x} /\ (S \cup {x}) \ {x} = S
    BY FS_AddElement
<1>2. QED
    BY <1>1, TotalWithout

\* ... elements with the same values have the same sum, ...
LEMMA TotalOfSame ==
    ASSUME NEW S, IsFiniteSet(S), NEW m, NEW k, \A x \in S : m[x] = k[x]
    PROVE  Total(m, S) = Total(k, S)
<1> DEFINE Bad == {s \in SUBSET S : Total(m, s) # Total(k, s)}
<1>1. ASSUME Bad # {}
      PROVE  FALSE
  <2>1. PICK s \in Bad : \A t \in SUBSET s : t # s => t \notin Bad
    <3>1. Bad \in SUBSET (SUBSET S)
        OBVIOUS
    <3> HIDE DEF Bad
    <3>2. QED
        BY <1>1, <3>1, SmallestSubset
  <2>2. s \in SUBSET S /\ Total(m, s) # Total(k, s) /\ IsFiniteSet(s)
    BY FS_Subset
  <2>3. /\ Total(m, s) = IF s = {} THEN 0 ELSE m[Pick(s)] + Total(m, s \ {Pick(s)})
        /\ Total(k, s) = IF s = {} THEN 0 ELSE k[Pick(s)] + Total(k, s \ {Pick(s)})
    BY <2>2, TotalUnfolds
  <2>4. s # {}
    BY <2>2, <2>3
  <2>5. Pick(s) \in s
    BY <2>4, PickIsMember
  <2>6. s \ {Pick(s)} \in SUBSET s /\ s \ {Pick(s)} # s
    BY <2>5
  <2>7. Total(m, s \ {Pick(s)}) = Total(k, s \ {Pick(s)})
    BY <2>1, <2>2, <2>6
  <2>8. QED
    BY <2>2, <2>3, <2>4, <2>5, <2>7
<1>2. QED
    BY <1>1

\* ... and when the value of one element changes, the sum changes by as much.
THEOREM TotalWhenOneChanges ==
    ASSUME NEW S, IsFiniteSet(S), NEW m, NEW k, NEW x \in S,
           \A y \in S : m[y] \in Int /\ k[y] \in Int,
           \A y \in S \ {x} : k[y] = m[y]
    PROVE  Total(k, S) = Total(m, S) + (k[x] - m[x])
<1>1. IsFiniteSet(S \ {x})
    BY FS_RemoveElement
<1>2. Total(m, S) = m[x] + Total(m, S \ {x}) /\ Total(k, S) = k[x] + Total(k, S \ {x})
    BY TotalWithout
<1>3. Total(k, S \ {x}) = Total(m, S \ {x})
    BY <1>1, TotalOfSame
<1>4. Total(m, S \ {x}) \in Int
    BY <1>1, TotalIsInteger
<1>5. QED
    BY <1>2, <1>3, <1>4

\* No element of a sum of natural numbers is larger than the sum.
LEMMA TotalIsNatural ==
    ASSUME NEW S, IsFiniteSet(S), NEW m, \A x \in S : m[x] \in Nat
    PROVE  Total(m, S) \in Nat
<1> DEFINE Bad == {s \in SUBSET S : Total(m, s) \notin Nat}
<1>1. ASSUME Bad # {}
      PROVE  FALSE
  <2>1. PICK s \in Bad : \A t \in SUBSET s : t # s => t \notin Bad
    <3>1. Bad \in SUBSET (SUBSET S)
        OBVIOUS
    <3> HIDE DEF Bad
    <3>2. QED
        BY <1>1, <3>1, SmallestSubset
  <2>2. s \in SUBSET S /\ Total(m, s) \notin Nat /\ IsFiniteSet(s)
    BY FS_Subset
  <2>3. Total(m, s) = IF s = {} THEN 0 ELSE m[Pick(s)] + Total(m, s \ {Pick(s)})
    BY <2>2, TotalUnfolds
  <2>4. s # {}
    BY <2>2, <2>3
  <2>5. Pick(s) \in s /\ m[Pick(s)] \in Nat
    BY <2>2, <2>4, PickIsMember
  <2>6. s \ {Pick(s)} \in SUBSET s /\ s \ {Pick(s)} # s
    BY <2>5
  <2>7. Total(m, s \ {Pick(s)}) \in Nat
    BY <2>1, <2>2, <2>6
  <2>8. QED
    BY <2>2, <2>3, <2>4, <2>5, <2>7
<1>2. QED
    BY <1>1

LEMMA PartOfTotal ==
    ASSUME NEW S, IsFiniteSet(S), NEW m, \A x \in S : m[x] \in Nat, NEW x \in S
    PROVE  m[x] <= Total(m, S)
<1>1. IsFiniteSet(S \ {x})
    BY FS_RemoveElement
<1>2. Total(m, S) = m[x] + Total(m, S \ {x})
    BY TotalWithout
<1>3. Total(m, S \ {x}) \in Nat
    BY <1>1, TotalIsNatural
<1>4. QED
    BY <1>2, <1>3

\* Elements that correspond one to one have the same sum.
THEOREM TotalOfImage ==
    ASSUME NEW S, IsFiniteSet(S), NEW T, IsFiniteSet(T), NEW f \in [S -> T],
           \A x, y \in S : f[x] = f[y] => x = y,
           \A z \in T : \E x \in S : f[x] = z,
           NEW m, NEW k, \A x \in S : m[x] \in Int /\ k[f[x]] = m[x]
    PROVE  Total(k, T) = Total(m, S)
<1> DEFINE Image(s) == {z \in T : \E x \in s : f[x] = z}
           Bad == {s \in SUBSET S : Total(k, Image(s)) # Total(m, s)}
<1>1. ASSUME Bad # {}
      PROVE  FALSE
  <2>1. PICK s \in Bad : \A t \in SUBSET s : t # s => t \notin Bad
    <3>1. Bad \in SUBSET (SUBSET S)
        OBVIOUS
    <3> HIDE DEF Bad
    <3>2. QED
        BY <1>1, <3>1, SmallestSubset
  <2>2. s \in SUBSET S /\ Total(k, Image(s)) # Total(m, s) /\ IsFiniteSet(s)
    BY FS_Subset
  <2>3. s # {}
    <3>1. Image({}) = {}
        OBVIOUS
    <3>2. QED
        BY <2>2, <3>1, TotalOfNone
  <2>4. PICK x \in s : TRUE
    BY <2>3
  <2>5. s \ {x} \in SUBSET s /\ s \ {x} # s /\ s \ {x} \in SUBSET S
    BY <2>2
  <2>6. Total(k, Image(s \ {x})) = Total(m, s \ {x})
    BY <2>1, <2>5
  <2>7. Total(m, s) = m[x] + Total(m, s \ {x})
    BY <2>2, TotalWithout
  <2>8. Image(s) = Image(s \ {x}) \cup {f[x]} /\ f[x] \notin Image(s \ {x})
    BY <2>2
  <2>9. IsFiniteSet(Image(s \ {x})) /\ \A z \in Image(s \ {x}) \cup {f[x]} : k[z] \in Int
    <3>1. Image(s \ {x}) \in SUBSET T
        OBVIOUS
    <3>2. \A z \in Image(s \ {x}) \cup {f[x]} : k[z] \in Int
        BY <2>2
    <3>3. QED
        BY <3>1, <3>2, FS_Subset
  <2>10. Total(k, Image(s)) = k[f[x]] + Total(k, Image(s \ {x}))
    <3> DEFINE rest == Image(s \ {x})
               y == f[x]
    <3>1. IsFiniteSet(rest) /\ y \notin rest /\ \A z \in rest \cup {y} : k[z] \in Int
        BY <2>8, <2>9
    <3> HIDE DEF rest, y
    <3>2. Total(k, rest \cup {y}) = k[y] + Total(k, rest)
        BY <3>1, TotalWith
    <3>3. QED
        BY <2>8, <3>2 DEF rest, y
  <2>11. QED
    BY <2>2, <2>6, <2>7, <2>10
<1>2. Image(S) = T
    OBVIOUS
<1>3. Total(k, Image(S)) = Total(m, S)
    BY <1>1
<1>4. QED
    BY <1>2, <1>3
\* The sum of sums is the sum of the two sums.
LEMMA TotalOfSums ==
    ASSUME NEW S, IsFiniteSet(S), NEW m, NEW k, NEW h,
           \A x \in S : m[x] \in Int /\ k[x] \in Int /\ h[x] = m[x] + k[x]
    PROVE  Total(h, S) = Total(m, S) + Total(k, S)
<1> DEFINE Bad == {s \in SUBSET S : Total(h, s) # Total(m, s) + Total(k, s)}
<1>1. ASSUME Bad # {}
      PROVE  FALSE
  <2>1. PICK s \in Bad : \A t \in SUBSET s : t # s => t \notin Bad
    <3>1. Bad \in SUBSET (SUBSET S)
        OBVIOUS
    <3> HIDE DEF Bad
    <3>2. QED
        BY <1>1, <3>1, SmallestSubset
  <2>2. s \in SUBSET S /\ IsFiniteSet(s) /\ Total(h, s) # Total(m, s) + Total(k, s)
    BY <2>1, FS_Subset
  <2>3. /\ Total(h, s) = IF s = {} THEN 0 ELSE h[Pick(s)] + Total(h, s \ {Pick(s)})
        /\ Total(m, s) = IF s = {} THEN 0 ELSE m[Pick(s)] + Total(m, s \ {Pick(s)})
        /\ Total(k, s) = IF s = {} THEN 0 ELSE k[Pick(s)] + Total(k, s \ {Pick(s)})
    BY <2>2, TotalUnfolds
  <2>4. s # {}
    BY <2>2, <2>3
  <2>5. PICK x : x = Pick(s)
    OBVIOUS
  <2>6. x \in s
    BY <2>4, <2>5, PickIsMember
  <2>7. s \ {x} \in SUBSET s /\ s \ {x} # s /\ IsFiniteSet(s \ {x})
    BY <2>2, <2>6, FS_RemoveElement
  <2>8. Total(h, s \ {x}) = Total(m, s \ {x}) + Total(k, s \ {x})
    BY <2>1, <2>2, <2>7
  <2>9. Total(m, s \ {x}) \in Int /\ Total(k, s \ {x}) \in Int
    <3>1. \A y \in s \ {x} : m[y] \in Int /\ k[y] \in Int
        BY <2>2
    <3>2. QED
        BY <2>7, <3>1, TotalIsInteger
  <2>10. m[x] \in Int /\ k[x] \in Int /\ h[x] = m[x] + k[x]
    BY <2>2, <2>6
  <2>11. /\ Total(h, s) = h[x] + Total(h, s \ {x})
         /\ Total(m, s) = m[x] + Total(m, s \ {x})
         /\ Total(k, s) = k[x] + Total(k, s \ {x})
    BY <2>3, <2>4, <2>5
  <2>12. QED
    BY <2>2, <2>8, <2>9, <2>10, <2>11
<1>2. QED
    BY <1>1

\* Pairs are counted by adding up how many there are for each first component.
THEOREM CardinalityIsTotal ==
    ASSUME NEW S, IsFiniteSet(S), NEW T, IsFiniteSet(T), NEW F \in [S -> SUBSET T],
           NEW m, \A x \in S : m[x] = Cardinality(F[x])
    PROVE  Cardinality({p \in S \X T : p[2] \in F[p[1]]}) = Total(m, S)
<1> DEFINE Pairs(s) == {p \in s \X T : p[2] \in F[p[1]]}
           Bad == {s \in SUBSET S : Cardinality(Pairs(s)) # Total(m, s)}
<1>1. ASSUME Bad # {}
      PROVE  FALSE
  <2>1. PICK s \in Bad : \A t \in SUBSET s : t # s => t \notin Bad
    <3>1. Bad \in SUBSET (SUBSET S)
        OBVIOUS
    <3> HIDE DEF Bad
    <3>2. QED
        BY <1>1, <3>1, SmallestSubset
  <2>2. s \in SUBSET S /\ IsFiniteSet(s) /\ Cardinality(Pairs(s)) # Total(m, s)
    BY <2>1, FS_Subset
  <2>3. Total(m, s) = IF s = {} THEN 0 ELSE m[Pick(s)] + Total(m, s \ {Pick(s)})
    BY <2>2, TotalUnfolds
  <2>4. s # {}
    <3>1. Cardinality({}) = 0
        BY FS_EmptySet
    <3>2. s = {} => Pairs(s) = {}
        OBVIOUS
    <3> HIDE DEF Pairs
    <3>3. QED
        BY <2>2, <2>3, <3>1, <3>2
  <2>5. PICK x : x = Pick(s)
    OBVIOUS
  <2>6. x \in s /\ x \in S
    BY <2>2, <2>4, <2>5, PickIsMember
  <2>7. s \ {x} \in SUBSET s /\ s \ {x} # s /\ IsFiniteSet(s \ {x}) /\ s \ {x} \in SUBSET S
    BY <2>2, <2>6, FS_RemoveElement
  <2>8. Cardinality(Pairs(s \ {x})) = Total(m, s \ {x})
    BY <2>1, <2>7
  <2>9. IsFiniteSet(Pairs(s \ {x}))
    <3>1. IsFiniteSet((s \ {x}) \X T)
        BY <2>7, FS_Product
    <3>2. Pairs(s \ {x}) \in SUBSET ((s \ {x}) \X T)
        OBVIOUS
    <3>3. QED
        BY <3>1, <3>2, FS_Subset
  <2>10. F[x] \in SUBSET T /\ IsFiniteSet(F[x])
    BY <2>6, FS_Subset
  <2>11. IsFiniteSet({x} \X F[x]) /\ Cardinality({x} \X F[x]) = Cardinality(F[x])
    <3>1. IsFiniteSet({x}) /\ Cardinality({x}) = 1
        BY FS_Singleton
    <3>2. Cardinality(F[x]) \in Nat
        BY <2>10, FS_CardinalityType
    <3>3. PICK A, B : A = {x} /\ B = F[x]
        OBVIOUS
    <3>4. IsFiniteSet(A \X B) /\ Cardinality(A \X B) = Cardinality(A) * Cardinality(B)
        BY <2>10, <3>1, <3>3, FS_Product
    <3>5. Cardinality(A) = 1 /\ Cardinality(B) \in Nat
        BY <3>1, <3>2, <3>3
    <3>6. Cardinality(A \X B) = Cardinality(B)
        BY <3>4, <3>5
    <3>7. QED
        BY <3>3, <3>4, <3>6
  <2>12. Pairs(s) = Pairs(s \ {x}) \cup ({x} \X F[x])
    <3>1. ASSUME NEW p \in Pairs(s)
          PROVE  p \in Pairs(s \ {x}) \cup ({x} \X F[x])
        <4>1. PICK y \in s, z \in T : p = <<y, z>>
            OBVIOUS
        <4>2. z \in F[y]
            BY <4>1
        <4>3. CASE y = x
            BY <4>1, <4>2, <4>3
        <4>4. CASE y # x
            BY <4>1, <4>2, <4>4
        <4>5. QED
            BY <4>3, <4>4
    <3>2. ASSUME NEW z \in F[x]
          PROVE  <<x, z>> \in Pairs(s)
        BY <2>6, <2>10
    <3>3. Pairs(s \ {x}) \subseteq Pairs(s)
        OBVIOUS
    <3>4. QED
        BY <3>1, <3>2, <3>3
  <2>13. Pairs(s \ {x}) \cap ({x} \X F[x]) = {}
    OBVIOUS
  <2> HIDE DEF Pairs
  <2>14. Cardinality(Pairs(s)) = Cardinality(Pairs(s \ {x})) + Cardinality({x} \X F[x]) - 0
    <3>1. PICK A, B : A = Pairs(s \ {x}) /\ B = {x} \X F[x]
        OBVIOUS
    <3>2. IsFiniteSet(A) /\ IsFiniteSet(B) /\ A \cap B = {} /\ Pairs(s) = A \cup B
        BY <2>9, <2>11, <2>12, <2>13, <3>1
    <3>3. Cardinality(A \cup B) = Cardinality(A) + Cardinality(B) - Cardinality(A \cap B)
        BY <3>2, FS_Union
    <3>4. QED
        BY <3>1, <3>2, <3>3, FS_EmptySet
  <2>15. Cardinality(Pairs(s \ {x})) \in Nat /\ Cardinality(F[x]) \in Nat
    BY <2>9, <2>10, FS_CardinalityType
  <2>16. m[x] = Cardinality(F[x]) /\ Total(m, s) = m[x] + Total(m, s \ {x})
    BY <2>3, <2>4, <2>5, <2>6
  <2>17. QED
    BY <2>2, <2>8, <2>11, <2>14, <2>15, <2>16
<1>2. Cardinality(Pairs(S)) = Total(m, S)
    BY <1>1
<1>3. QED
    BY <1>2

\* The sum over two sets that have nothing in common is the sum of their sums.
LEMMA TotalOfUnion ==
    ASSUME NEW S, IsFiniteSet(S), NEW T, IsFiniteSet(T), S \cap T = {}, NEW m, \A x \in S \cup T : m[x] \in Int
    PROVE  Total(m, S \cup T) = Total(m, S) + Total(m, T)
<1> DEFINE Bad == {t \in SUBSET T : Total(m, S \cup t) # Total(m, S) + Total(m, t)}
<1>0. Total(m, S) \in Int
    BY TotalIsInteger
<1>1. ASSUME Bad # {}
      PROVE  FALSE
  <2>1. PICK t \in Bad : \A r \in SUBSET t : r # t => r \notin Bad
    <3>1. Bad \in SUBSET (SUBSET T)
        OBVIOUS
    <3> HIDE DEF Bad
    <3>2. QED
        BY <1>1, <3>1, SmallestSubset
  <2>2. t \in SUBSET T /\ IsFiniteSet(t) /\ Total(m, S \cup t) # Total(m, S) + Total(m, t)
    BY <2>1, FS_Subset
  <2>3. t # {}
    <3>1. S \cup {} = S /\ Total(m, {}) = 0
        BY TotalOfNone
    <3>2. t = {} => Total(m, S \cup t) = Total(m, S) /\ Total(m, t) = 0
        BY <3>1
    <3>3. QED
        BY <1>0, <2>2, <3>2
  <2>4. PICK x \in t : TRUE
    BY <2>3
  <2>5. PICK r : r = t \ {x}
    OBVIOUS
  <2>6. r \in SUBSET t /\ r # t /\ IsFiniteSet(r) /\ x \notin r /\ r \cup {x} = t
    BY <2>2, <2>4, <2>5, FS_RemoveElement
  <2>7. Total(m, S \cup r) = Total(m, S) + Total(m, r)
    BY <2>1, <2>2, <2>6
  <2>8. IsFiniteSet(S \cup r) /\ x \notin S \cup r /\ (S \cup r) \cup {x} = S \cup t
    BY <2>2, <2>4, <2>6, FS_Union
  <2>9. \A y \in (S \cup r) \cup {x} : m[y] \in Int
    BY <2>2, <2>8
  <2>10. Total(m, (S \cup r) \cup {x}) = m[x] + Total(m, S \cup r)
    BY <2>8, <2>9, TotalWith
  <2>11. Total(m, r \cup {x}) = m[x] + Total(m, r)
    <3>1. \A y \in r \cup {x} : m[y] \in Int
        BY <2>2, <2>6
    <3>2. QED
        BY <2>6, <3>1, TotalWith
  <2>12. m[x] \in Int /\ Total(m, r) \in Int
    <3>1. \A y \in r : m[y] \in Int
        BY <2>2, <2>6
    <3>2. QED
        BY <2>6, <2>9, <3>1, TotalIsInteger
  <2>13. Total(m, S \cup t) = m[x] + Total(m, S \cup r) /\ Total(m, t) = m[x] + Total(m, r)
    BY <2>6, <2>8, <2>10, <2>11
  <2>14. QED
    BY <1>0, <2>2, <2>7, <2>12, <2>13
<1>2. T \in SUBSET T
    OBVIOUS
<1>3. QED
    BY <1>1, <1>2

\* Values of pairs are added up by adding up, for each first component, those that begin with it.
THEOREM TotalOfPairs ==
    ASSUME NEW S, IsFiniteSet(S), NEW T, IsFiniteSet(T), NEW F \in [S -> SUBSET T], NEW m, NEW k, NEW h,
           \A x \in S : h[x] = Total(k[x], F[x]),
           \A x \in S : \A y \in F[x] : k[x][y] \in Int /\ m[<<x, y>>] = k[x][y]
    PROVE  Total(m, {p \in S \X T : p[2] \in F[p[1]]}) = Total(h, S)
<1> DEFINE Pairs(s) == {p \in s \X T : p[2] \in F[p[1]]}
           Bad == {s \in SUBSET S : Total(m, Pairs(s)) # Total(h, s)}
<1>1. ASSUME Bad # {}
      PROVE  FALSE
  <2>1. PICK s \in Bad : \A t \in SUBSET s : t # s => t \notin Bad
    <3>1. Bad \in SUBSET (SUBSET S)
        OBVIOUS
    <3> HIDE DEF Bad
    <3>2. QED
        BY <1>1, <3>1, SmallestSubset
  <2>2. s \in SUBSET S /\ IsFiniteSet(s) /\ Total(m, Pairs(s)) # Total(h, s)
    BY <2>1, FS_Subset
  <2>3. Total(h, s) = IF s = {} THEN 0 ELSE h[Pick(s)] + Total(h, s \ {Pick(s)})
    BY <2>2, TotalUnfolds
  <2>4. s # {}
    <3>2. s = {} => Pairs(s) = {}
        OBVIOUS
    <3> HIDE DEF Pairs
    <3>3. QED
        BY <2>2, <2>3, <3>2, TotalOfNone
  <2>5. PICK x : x = Pick(s)
    OBVIOUS
  <2>6. x \in s /\ x \in S
    BY <2>2, <2>4, <2>5, PickIsMember
  <2>7. s \ {x} \in SUBSET s /\ s \ {x} # s /\ IsFiniteSet(s \ {x}) /\ s \ {x} \in SUBSET S
    BY <2>2, <2>6, FS_RemoveElement
  <2>8. Total(m, Pairs(s \ {x})) = Total(h, s \ {x})
    BY <2>1, <2>7
  <2>9. IsFiniteSet(Pairs(s \ {x}))
    <3>1. IsFiniteSet((s \ {x}) \X T)
        BY <2>7, FS_Product
    <3>2. Pairs(s \ {x}) \in SUBSET ((s \ {x}) \X T)
        OBVIOUS
    <3>3. QED
        BY <3>1, <3>2, FS_Subset
  <2>10. F[x] \in SUBSET T /\ IsFiniteSet(F[x])
    BY <2>6, FS_Subset
  <2>11. IsFiniteSet({x} \X F[x]) /\ Total(m, {x} \X F[x]) = Total(k[x], F[x])
    <3>1. IsFiniteSet({x})
        BY FS_Singleton
    <3>2. PICK A, B, f, l : A = {x} \X F[x] /\ B = F[x] /\ f = [y \in F[x] |-> <<x, y>>] /\ l = k[x]
        OBVIOUS
    <3>3. IsFiniteSet(A) /\ IsFiniteSet(B)
        BY <2>10, <3>1, <3>2, FS_Product
    <3>4. f \in [B -> A]
        BY <3>2
    <3>5. \A y, z \in B : f[y] = f[z] => y = z
        BY <3>2
    <3>6. \A p \in A : \E y \in B : f[y] = p
        BY <3>2
    <3>7. \A y \in B : l[y] \in Int /\ m[f[y]] = l[y]
        BY <2>6, <3>2
    <3>8. Total(m, A) = Total(l, B)
        BY <3>3, <3>4, <3>5, <3>6, <3>7, TotalOfImage
    <3>9. QED
        BY <3>2, <3>3, <3>8
  <2>12. Pairs(s) = Pairs(s \ {x}) \cup ({x} \X F[x])
    <3>1. ASSUME NEW p \in Pairs(s)
          PROVE  p \in Pairs(s \ {x}) \cup ({x} \X F[x])
        <4>1. PICK y \in s, z \in T : p = <<y, z>>
            OBVIOUS
        <4>2. z \in F[y]
            BY <4>1
        <4>3. CASE y = x
            BY <4>1, <4>2, <4>3
        <4>4. CASE y # x
            BY <4>1, <4>2, <4>4
        <4>5. QED
            BY <4>3, <4>4
    <3>2. ASSUME NEW z \in F[x]
          PROVE  <<x, z>> \in Pairs(s)
        BY <2>6, <2>10
    <3>3. Pairs(s \ {x}) \subseteq Pairs(s)
        OBVIOUS
    <3>4. QED
        BY <3>1, <3>2, <3>3
  <2>13. Pairs(s \ {x}) \cap ({x} \X F[x]) = {}
    OBVIOUS
  <2>14. \A p \in Pairs(s) : m[p] \in Int
    <3>1. ASSUME NEW p \in Pairs(s)
          PROVE  m[p] \in Int
        <4>1. PICK y \in s, z \in T : p = <<y, z>>
            OBVIOUS
        <4>2. z \in F[y] /\ y \in S
            BY <2>2, <4>1
        <4>3. QED
            BY <4>1, <4>2
    <3>2. QED
        BY <3>1
  <2> HIDE DEF Pairs
  <2>15. Total(m, Pairs(s)) = Total(m, Pairs(s \ {x})) + Total(m, {x} \X F[x])
    <3>1. PICK A, B : A = Pairs(s \ {x}) /\ B = {x} \X F[x]
        OBVIOUS
    <3>2. IsFiniteSet(A) /\ IsFiniteSet(B) /\ A \cap B = {} /\ Pairs(s) = A \cup B
        BY <2>9, <2>11, <2>12, <2>13, <3>1
    <3>3. \A p \in A \cup B : m[p] \in Int
        BY <2>14, <3>2
    <3>4. Total(m, A \cup B) = Total(m, A) + Total(m, B)
        BY <3>2, <3>3, TotalOfUnion
    <3>5. QED
        BY <3>1, <3>2, <3>4
  <2>16. Total(m, Pairs(s \ {x})) \in Int /\ Total(k[x], F[x]) \in Int
    <3>1. \A p \in Pairs(s \ {x}) : m[p] \in Int
        BY <2>12, <2>14
    <3>2. Total(m, Pairs(s \ {x})) \in Int
        BY <2>9, <3>1, TotalIsInteger
    <3>3. Total(k[x], F[x]) \in Int
      <4>1. PICK l, B : l = k[x] /\ B = F[x]
        OBVIOUS
      <4>2. \A y \in B : l[y] \in Int
        BY <2>6, <4>1
      <4>3. QED
        BY <2>10, <4>1, <4>2, TotalIsInteger
    <3>4. QED
        BY <3>2, <3>3
  <2>17. h[x] = Total(k[x], F[x]) /\ Total(h, s) = h[x] + Total(h, s \ {x})
    BY <2>3, <2>4, <2>5, <2>6
  <2>18. QED
    BY <2>2, <2>8, <2>11, <2>15, <2>16, <2>17
<1>2. Total(m, Pairs(S)) = Total(h, S)
    BY <1>1
<1>3. QED
    BY <1>2
-----------------------------------------------------------------------------
\* The lookups return a slot that is one of those looked for.
LEMMA MinIsMember ==
    ASSUME NEW S \in SUBSET Nat, S # {}
    PROVE  Min(S) \in S /\ \A y \in S : Min(S) <= y
<1> DEFINE Less == {ss \in Nat \X Nat : ss[1] < ss[2]}
<1>1. IsWellFoundedOn(Less, Nat)
    BY NatLessThanWellFounded DEF OpToRel
<1>2. PICK x \in S : \A y \in S : ~(<<y, x>> \in Less)
    BY <1>1, WFMin, ZenonT(40)
<1>3. ASSUME NEW y \in S
      PROVE  x <= y
  <2>1. x \in Nat /\ y \in Nat
    OBVIOUS
  <2>2. ~(<<y, x>> \in Less)
    BY <1>2
  <2>3. ~(y < x)
    BY <2>1, <2>2
  <2>4. QED
    BY <2>1, <2>3
<1>4. QED
    BY <1>3 DEF Min

LEMMA LookupsAreSlots ==
    ASSUME NEW a
    PROVE  /\ EmptySlots(a) # {} => Min(EmptySlots(a)) \in EmptySlots(a)
           /\ \A it : SlotsHolding(a, it) # {} => SlotOf(a, it) \in SlotsHolding(a, it)
           /\ EmptySlots(a) \subseteq Slots
           /\ \A it : SlotsHolding(a, it) \subseteq Slots
<1>1. Slots \subseteq Nat
    BY NumSlotsAssumption DEF Slots
<1>2. /\ EmptySlots(a) \subseteq Slots
      /\ \A it : SlotsHolding(a, it) \subseteq Slots
    BY DEF EmptySlots, SlotsHolding
<1>3. QED
    BY <1>1, <1>2, MinIsMember DEF SlotOf

LEMMA TargetIsSlot ==
    ASSUME NEW a, NEW op, op.slot \in 0..NumSlots, HasTarget(op, a)
    PROVE  TargetSlot(op, a) \in Slots
<1>1. CASE op.slot > 0
    BY <1>1, NumSlotsAssumption DEF TargetSlot, Slots
<1>2. CASE ~(op.slot > 0)
    BY <1>2, LookupsAreSlots DEF TargetSlot, HasTarget
<1>3. QED
    BY <1>1, <1>2

-----------------------------------------------------------------------------
\* An account stays an account, and the two books of a slot keep agreeing, when a slot gets
\* a holder together with its flag, ...
LEMMA HolderWithFlag ==
    ASSUME NEW a \in Account, NEW n \in Slots,
           NEW slot \in Inventory_Slot, NEW holder \in Servers \cup {NoServer},
           slot.reserved <=> holder # NoServer,
           NEW b, b = [a EXCEPT !.inventory[n] = slot, !.inventory_reservations[n] = holder]
    PROVE  b \in Account /\ (WellFormed(a) => WellFormed(b))
<1>1. b \in Account
    BY DEF Account
<1>2. /\ b.inventory = [a.inventory EXCEPT ![n] = slot]
      /\ b.inventory_reservations = [a.inventory_reservations EXCEPT ![n] = holder]
      /\ b.money_reservations = a.money_reservations
      /\ b.total_money_reserved = a.total_money_reserved
    BY DEF Account
<1>3. SlotReservationsAgree(a) => SlotReservationsAgree(b)
  <2> SUFFICES ASSUME SlotReservationsAgree(a), NEW k \in Slots
               PROVE  b.inventory[k].reserved <=> b.inventory_reservations[k] # NoServer
    BY DEF SlotReservationsAgree
  <2>1. CASE k = n
    BY <1>2, <2>1 DEF Account
  <2>2. CASE k # n
    <3>1. b.inventory[k] = a.inventory[k] /\ b.inventory_reservations[k] = a.inventory_reservations[k]
        BY <1>2, <2>2 DEF Account
    <3>2. QED
        BY <3>1, Zenon DEF SlotReservationsAgree
  <2>3. QED
    BY <2>1, <2>2
<1>4. MoneyReservationsAgree(a) => MoneyReservationsAgree(b)
    BY <1>2 DEF MoneyReservationsAgree
<1>5. QED
    BY <1>1, <1>3, <1>4 DEF WellFormed

LEMMA FlagWithHolder ==
    ASSUME NEW a \in Account, NEW n \in Slots,
           NEW flag \in BOOLEAN, NEW holder \in Servers \cup {NoServer},
           flag <=> holder # NoServer,
           NEW b, b = [a EXCEPT !.inventory[n].reserved = flag, !.inventory_reservations[n] = holder]
    PROVE  b \in Account /\ (WellFormed(a) => WellFormed(b))
<1> DEFINE slot == [a.inventory[n] EXCEPT !.reserved = flag]
<1>1. slot \in Inventory_Slot /\ slot.reserved = flag
    BY DEF Account, Inventory_Slot
<1>2. b = [a EXCEPT !.inventory[n] = slot, !.inventory_reservations[n] = holder]
    OBVIOUS
<1>3. slot.reserved <=> holder # NoServer
    BY <1>1
<1> HIDE DEF slot
<1>4. QED
    BY <1>1, <1>2, <1>3, HolderWithFlag

\* ... when a slot gets an item and keeps its flag and its holder, ...
LEMMA ItemIntoSlot ==
    ASSUME NEW a \in Account, NEW n \in Slots, NEW item \in Item,
           NEW b, b = [a EXCEPT !.inventory[n].item = item]
    PROVE  b \in Account /\ (WellFormed(a) => WellFormed(b))
<1>1. b \in Account
    BY SMTT(30) DEF Account, Inventory_Slot
<1>2. /\ b.inventory_reservations = a.inventory_reservations
      /\ b.money_reservations = a.money_reservations
      /\ b.total_money_reserved = a.total_money_reserved
    BY DEF Account
<1>3. \A k \in Slots : b.inventory[k].reserved = a.inventory[k].reserved
    BY DEF Account, Inventory_Slot
<1>4. SlotReservationsAgree(a) => SlotReservationsAgree(b)
    BY <1>2, <1>3, Zenon DEF SlotReservationsAgree
<1>5. MoneyReservationsAgree(a) => MoneyReservationsAgree(b)
    BY <1>2 DEF MoneyReservationsAgree
<1>6. QED
    BY <1>1, <1>4, <1>5 DEF WellFormed

\* ... and when an amount is added to, or taken from, what a server has reserved.
LEMMA ReservationWithTotal ==
    ASSUME NEW a \in Account, NEW s \in Servers, NEW b \in Account,
           b.inventory = a.inventory, b.inventory_reservations = a.inventory_reservations,
           \A r \in Servers \ {s} : b.money_reservations[r] = a.money_reservations[r],
           b.money_reservations[s] - a.money_reservations[s] = b.total_money_reserved - a.total_money_reserved
    PROVE  WellFormed(a) => WellFormed(b)
<1>1. SlotReservationsAgree(a) => SlotReservationsAgree(b)
    BY Zenon DEF SlotReservationsAgree
<1>2. MoneyReservationsAgree(a) => MoneyReservationsAgree(b)
    BY ServerAssumption DEF MoneyReservationsAgree, Account, Servers
<1>3. QED
    BY <1>1, <1>2 DEF WellFormed

LEMMA UnreserveKeepsBooks ==
    ASSUME NEW a \in Account, NEW s \in Servers, NEW x \in Int, Unreservable(a, s, x)
    PROVE  /\ unreserve_money(a, s, x) \in Account
           /\ WellFormed(a) => WellFormed(unreserve_money(a, s, x))
<1> DEFINE b == unreserve_money(a, s, x)
<1>1. a.money_reservations[s] - x \in Nat /\ a.total_money_reserved - x \in Int
    BY DEF Unreservable, Account
<1>2. b \in Account
    BY <1>1 DEF unreserve_money, Account
<1>3. /\ b.inventory = a.inventory
      /\ b.inventory_reservations = a.inventory_reservations
      /\ b.money_reservations = [a.money_reservations EXCEPT ![s] = @ - x]
      /\ b.total_money_reserved = a.total_money_reserved - x
    BY DEF unreserve_money, Account
<1>4. /\ \A r \in Servers \ {s} : b.money_reservations[r] = a.money_reservations[r]
      /\ b.money_reservations[s] = a.money_reservations[s] - x
    BY <1>3 DEF Account
<1>5. b.money_reservations[s] - a.money_reservations[s] = b.total_money_reserved - a.total_money_reserved
    BY <1>3, <1>4 DEF Account
<1> HIDE DEF b
<1>6. QED
    BY <1>2, <1>3, <1>4, <1>5, ReservationWithTotal DEF b

LEMMA ReserveKeepsBooks ==
    ASSUME NEW a \in Account, NEW s \in Servers, NEW x \in Nat
    PROVE  /\ reserve_money(a, s, x) \in Account
           /\ WellFormed(a) => WellFormed(reserve_money(a, s, x))
<1> DEFINE b == reserve_money(a, s, x)
<1>1. a.money_reservations[s] + x \in Nat /\ a.total_money_reserved + x \in Int
    BY DEF Account
<1>2. b \in Account
    BY <1>1 DEF reserve_money, Account
<1>3. /\ b.inventory = a.inventory
      /\ b.inventory_reservations = a.inventory_reservations
      /\ b.money_reservations = [a.money_reservations EXCEPT ![s] = @ + x]
      /\ b.total_money_reserved = a.total_money_reserved + x
    BY DEF reserve_money, Account
<1>4. /\ \A r \in Servers \ {s} : b.money_reservations[r] = a.money_reservations[r]
      /\ b.money_reservations[s] = a.money_reservations[s] + x
    BY <1>3 DEF Account
<1>5. b.money_reservations[s] - a.money_reservations[s] = b.total_money_reserved - a.total_money_reserved
    BY <1>3, <1>4 DEF Account
<1> HIDE DEF b
<1>6. QED
    BY <1>2, <1>3, <1>4, <1>5, ReservationWithTotal DEF b

\* The balance is in none of the books.
LEMMA MoneyKeepsBooks ==
    ASSUME NEW a \in Account, NEW x \in Int, NEW b, b = [a EXCEPT !.money = @ + x]
    PROVE  b \in Account /\ (WellFormed(a) => WellFormed(b))
<1>1. b \in Account
    BY DEF Account
<1>2. /\ b.inventory = a.inventory
      /\ b.inventory_reservations = a.inventory_reservations
      /\ b.money_reservations = a.money_reservations
      /\ b.total_money_reserved = a.total_money_reserved
    BY DEF Account
<1>3. WellFormed(a) => WellFormed(b)
    BY <1>2, Zenon DEF WellFormed, SlotReservationsAgree, MoneyReservationsAgree
<1>4. QED
    BY <1>1, <1>3

-----------------------------------------------------------------------------
\* One operation of commit_transaction, when its Asserts hold, leaves an account whose books
\* agree if they did before (user_server.cpp:289-521).
LEMMA EffectKeepsBooks ==
    ASSUME NEW a \in Account, NEW s \in Servers, NEW op \in Operations, CommitAsserts(op, a, s)
    PROVE  /\ CommitEffect(op, a, s) \in Account
           /\ WellFormed(a) => WellFormed(CommitEffect(op, a, s))
<1> DEFINE b == CommitEffect(op, a, s)
<1>1. CASE op.type = "ITEM_TO_INVENTORY"
  <2>1. op.item \in Item /\ TargetSlot(op, a) \in Slots
    BY <1>1, TargetIsSlot DEF Operations, CommitAsserts
  <2>2. b = [a EXCEPT !.inventory[TargetSlot(op, a)].item = op.item]
    BY <1>1 DEF CommitEffect
  <2>3. QED
    BY <2>1, <2>2, ItemIntoSlot
<1>2. CASE op.type = "ITEM_TO_SERVER"
  <2>1. SlotOf(a, op.item) \in Slots
    BY <1>2, LookupsAreSlots DEF CommitAsserts
  <2> DEFINE slot == [item |-> NoItem, reserved |-> FALSE]
  <2>2. b = [a EXCEPT !.inventory[SlotOf(a, op.item)] = slot,
                      !.inventory_reservations[SlotOf(a, op.item)] = NoServer]
    BY <1>2 DEF CommitEffect
  <2>3. slot \in Inventory_Slot /\ slot.reserved = FALSE
    BY DEF Inventory_Slot
  <2> HIDE DEF slot
  <2>4. QED
    BY <2>1, <2>2, <2>3, HolderWithFlag
<1>3. CASE op.type = "ITEM_RESERVE"
  <2> DEFINE n == SlotOf(a, op.item)
  <2>1. n \in Slots
    BY <1>3, LookupsAreSlots DEF CommitAsserts
  <2>2. b = [a EXCEPT !.inventory[n].reserved = TRUE, !.inventory_reservations[n] = s]
    BY <1>3 DEF CommitEffect
  <2>3. s # NoServer
    BY ServerAssumption DEF Servers
  <2>4. QED
    BY <2>1, <2>2, <2>3, FlagWithHolder
<1>4. CASE op.type = "ITEM_UNRESERVE"
  <2> DEFINE n == SlotOf(a, op.item)
  <2>1. n \in Slots
    BY <1>4, LookupsAreSlots DEF CommitAsserts
  <2>2. b = [a EXCEPT !.inventory[n].reserved = FALSE, !.inventory_reservations[n] = NoServer]
    BY <1>4 DEF CommitEffect
  <2>3. QED
    BY <2>1, <2>2, FlagWithHolder
<1>5. CASE op.type = "SLOT_RESERVE"
  <2> DEFINE n == Min(EmptySlots(a))
  <2>1. n \in Slots
    BY <1>5, LookupsAreSlots DEF CommitAsserts
  <2>2. b = [a EXCEPT !.inventory[n].reserved = TRUE, !.inventory_reservations[n] = s]
    BY <1>5 DEF CommitEffect
  <2>3. s # NoServer
    BY ServerAssumption DEF Servers
  <2>4. QED
    BY <2>1, <2>2, <2>3, FlagWithHolder
<1>6. CASE op.type = "SLOT_UNRESERVE"
  <2> DEFINE n == op.slot
  <2>1. n \in Slots
    BY <1>6 DEF Operations
  <2>2. b = [a EXCEPT !.inventory[n].reserved = FALSE, !.inventory_reservations[n] = NoServer]
    BY <1>6 DEF CommitEffect
  <2>3. QED
    BY <2>1, <2>2, FlagWithHolder
<1>7. CASE op.type = "MONEY_RESERVE"
  <2>1. op.amount \in Nat
    BY <1>7 DEF Operations, Amounts
  <2>2. b = reserve_money(a, s, op.amount)
    BY <1>7 DEF CommitEffect
  <2>3. QED
    BY <2>1, <2>2, ReserveKeepsBooks
<1>8. CASE op.type = "MONEY_UNRESERVE"
  <2>1. op.amount \in Int /\ Unreservable(a, s, op.amount)
    BY <1>8 DEF Operations, Amounts, CommitAsserts
  <2>2. b = unreserve_money(a, s, op.amount)
    BY <1>8 DEF CommitEffect
  <2>3. QED
    BY <2>1, <2>2, UnreserveKeepsBooks
<1>9. CASE op.type = "MONEY_TRANSFER"
  <2> DEFINE left == IF op.do_unreserve THEN unreserve_money(a, s, -op.amount) ELSE a
  <2>1. op.amount \in Int
    BY <1>9 DEF Operations
  <2>2. left \in Account /\ (WellFormed(a) => WellFormed(left))
    <3>1. CASE op.do_unreserve
      <4>1. Unreservable(a, s, -op.amount)
        BY <1>9, <3>1 DEF CommitAsserts
      <4>2. QED
        BY <2>1, <3>1, <4>1, UnreserveKeepsBooks
    <3>2. CASE ~op.do_unreserve
      BY <3>2
    <3>3. QED
      BY <3>1, <3>2
  <2>3. b = [left EXCEPT !.money = @ + op.amount]
    BY <1>9 DEF CommitEffect
  <2>4. QED
    BY <2>1, <2>2, <2>3, MoneyKeepsBooks
<1>10. QED
    BY <1>1, <1>2, <1>3, <1>4, <1>5, <1>6, <1>7, <1>8, <1>9 DEF Operations

\* A turn of commit_transaction's loop.
LEMMA TurnKeepsBooks ==
    ASSUME NEW r, r.account \in Account, NEW t \in Transactions, NEW i \in Nat \ {0}, NEW s \in Servers
    PROVE  /\ CommitTurn(r, t, i, s).account \in Account
           /\ WellFormed(r.account) => WellFormed(CommitTurn(r, t, i, s).account)
<1>1. CASE i > Len(t) \/ ~r.ok \/ ~CommitAsserts(t[i], r.account, s)
    BY <1>1 DEF CommitTurn
<1>2. CASE ~(i > Len(t)) /\ r.ok /\ CommitAsserts(t[i], r.account, s)
  <2>1. t \in Seq(Operations)
    BY DEF Transactions
  <2>2. t[i] \in Operations
    BY <1>2, <2>1
  <2>3. CommitTurn(r, t, i, s).account = CommitEffect(t[i], r.account, s)
    BY <1>2 DEF CommitTurn
  <2>4. QED
    BY <1>2, <2>2, <2>3, EffectKeepsBooks
<1>3. QED
    BY <1>1, <1>2

\* Whatever transaction is committed, and however far it gets, the books of the account agree
\* afterwards if they did before: commit_transaction (user_server.cpp:286-522).
THEOREM CommitKeepsBooks ==
    ASSUME NEW t \in Transactions, NEW a \in Account, NEW s \in Servers
    PROVE  /\ commit_transaction(t, a, s).account \in Account
           /\ WellFormed(a) => WellFormed(commit_transaction(t, a, s).account)
<1> DEFINE start == [ok |-> TRUE, account |-> a]
           one   == CommitTurn(start, t, 1, s)
           two   == CommitTurn(one,   t, 2, s)
           three == CommitTurn(two,   t, 3, s)
           four  == CommitTurn(three, t, 4, s)
<1>1. start.account = a
    OBVIOUS
<1>2. commit_transaction(t, a, s) = four
    BY DEF commit_transaction, MAX_US_TRANSACTION_OPERATIONS
<1> HIDE DEF start
<1>3. one.account \in Account /\ (WellFormed(a) => WellFormed(one.account))
    BY <1>1, TurnKeepsBooks
<1> HIDE DEF one
<1>4. two.account \in Account /\ (WellFormed(a) => WellFormed(two.account))
    BY <1>3, TurnKeepsBooks
<1> HIDE DEF two
<1>5. three.account \in Account /\ (WellFormed(a) => WellFormed(three.account))
    BY <1>4, TurnKeepsBooks
<1> HIDE DEF three
<1>6. four.account \in Account /\ (WellFormed(a) => WellFormed(four.account))
    BY <1>5, TurnKeepsBooks
<1> HIDE DEF four
<1>7. QED
    BY <1>2, <1>6

-----------------------------------------------------------------------------
\* An operation that transaction_possible lets pass meets every Assert of commit_transaction,
\* if nothing happens to the account in between and it can pay for its reservations
\* (user_server.cpp:524-733 against 286-522).
THEOREM PossibleIsCommittable ==
    ASSUME NEW a \in Account, NEW s \in Servers, NEW op \in Operations,
           Solvent(a), OperationPossible(op, a, s)
    PROVE  CommitAsserts(op, a, s)
<1>1. /\ \A n \in Slots : a.inventory[n].reserved <=> a.inventory_reservations[n] # NoServer
      /\ a.total_money_reserved = a.money_reservations[RoomServer] + a.money_reservations[MarketServer]
      /\ a.total_money_reserved <= a.money
    BY DEF Solvent, WellFormed, SlotReservationsAgree, MoneyReservationsAgree, ReservationsCovered
<1>2. /\ a.money \in Int /\ a.total_money_reserved \in Int
      /\ a.money_reservations[RoomServer] \in Nat /\ a.money_reservations[MarketServer] \in Nat
      /\ a.money_reservations[s] \in Nat /\ a.money_reservations[s] <= a.total_money_reserved
    BY <1>1 DEF Account, Servers
<1>3. CASE op.type \in {"ITEM_TO_INVENTORY", "ITEM_TO_SERVER"}
    BY <1>3 DEF OperationPossible, CommitAsserts
<1>4. CASE op.type = "ITEM_RESERVE"
  <2>1. SlotOf(a, op.item) \in Slots /\ ~a.inventory[SlotOf(a, op.item)].reserved
    BY <1>4, LookupsAreSlots DEF OperationPossible
  <2>2. QED
    BY <1>1, <1>4, <2>1 DEF OperationPossible, CommitAsserts
<1>5. CASE op.type = "ITEM_UNRESERVE"
    BY <1>5, ServerAssumption DEF OperationPossible, CommitAsserts, Servers
<1>6. CASE op.type = "SLOT_RESERVE"
  <2>1. Min(EmptySlots(a)) \in EmptySlots(a)
    BY <1>6, LookupsAreSlots DEF OperationPossible
  <2>2. Min(EmptySlots(a)) \in Slots /\ ~a.inventory[Min(EmptySlots(a))].reserved
    BY <2>1 DEF EmptySlots
  <2>3. QED
    BY <1>1, <1>6, <2>2 DEF OperationPossible, CommitAsserts
<1>7. CASE op.type = "SLOT_UNRESERVE"
    BY <1>7 DEF OperationPossible, CommitAsserts
<1>8. CASE op.type = "MONEY_RESERVE"
  <2>1. op.amount \in Int /\ op.amount > 0
    BY <1>8 DEF Operations, Amounts
  <2>2. QED
    BY <1>2, <1>8, <2>1 DEF OperationPossible, CommitAsserts
<1>9. CASE op.type = "MONEY_UNRESERVE"
  <2>1. op.amount \in Int
    BY <1>9 DEF Operations, Amounts
  <2>2. QED
    BY <1>2, <1>9, <2>1 DEF OperationPossible, CommitAsserts, Unreservable
<1>10. CASE op.type = "MONEY_TRANSFER"
  <2>1. op.amount \in Int /\ op.do_unreserve \in BOOLEAN
    BY <1>10 DEF Operations
  <2>2. CASE op.do_unreserve
    <3>1. op.amount < 0 /\ a.money_reservations[s] >= -op.amount
      BY <1>10, <2>2 DEF OperationPossible
    <3>2. /\ unreserve_money(a, s, -op.amount).money = a.money
          /\ unreserve_money(a, s, -op.amount).total_money_reserved = a.total_money_reserved - (-op.amount)
      BY DEF unreserve_money, Account
    <3>3. QED
      BY <1>1, <1>2, <1>10, <2>1, <2>2, <3>1, <3>2 DEF CommitAsserts, Unreservable
  <2>3. CASE ~op.do_unreserve
    BY <1>2, <1>10, <2>1, <2>3 DEF OperationPossible, CommitAsserts
  <2>4. QED
    BY <2>1, <2>2, <2>3
<1>11. QED
    BY <1>3, <1>4, <1>5, <1>6, <1>7, <1>8, <1>9, <1>10 DEF Operations

-----------------------------------------------------------------------------
\* An operation whose Asserts hold leaves enough money for what is reserved.
LEMMA EffectKeepsCover ==
    ASSUME NEW a \in Account, NEW s \in Servers, NEW op \in Operations, CommitAsserts(op, a, s),
           ReservationsCovered(a)
    PROVE  ReservationsCovered(CommitEffect(op, a, s))
<1> DEFINE b == CommitEffect(op, a, s)
<1>1. a.money \in Int /\ a.total_money_reserved \in Int /\ a.total_money_reserved <= a.money
    BY DEF Account, ReservationsCovered
<1>2. CASE op.type \in {"ITEM_TO_INVENTORY", "ITEM_TO_SERVER", "ITEM_RESERVE", "ITEM_UNRESERVE",
                        "SLOT_RESERVE", "SLOT_UNRESERVE"}
  <2>1. b.money = a.money /\ b.total_money_reserved = a.total_money_reserved
    <3>1. CASE op.type = "ITEM_TO_INVENTORY"
        BY <3>1 DEF CommitEffect, Account
    <3>2. CASE op.type = "ITEM_TO_SERVER"
        BY <3>2 DEF CommitEffect, Account
    <3>3. CASE op.type = "ITEM_RESERVE"
        BY <3>3 DEF CommitEffect, Account
    <3>4. CASE op.type = "ITEM_UNRESERVE"
        BY <3>4 DEF CommitEffect, Account
    <3>5. CASE op.type = "SLOT_RESERVE"
        BY <3>5 DEF CommitEffect, Account
    <3>6. CASE op.type = "SLOT_UNRESERVE"
        BY <3>6 DEF CommitEffect, Account
    <3>7. QED
        BY <1>2, <3>1, <3>2, <3>3, <3>4, <3>5, <3>6
  <2>2. QED
    BY <1>1, <2>1 DEF ReservationsCovered
<1>3. CASE op.type = "MONEY_RESERVE"
  <2>1. op.amount \in Nat /\ Affordable(a, op.amount)
    BY <1>3 DEF Operations, Amounts, CommitAsserts
  <2>2. b = reserve_money(a, s, op.amount)
    BY <1>3 DEF CommitEffect
  <2>3. b.money = a.money /\ b.total_money_reserved = a.total_money_reserved + op.amount
    BY <2>2 DEF reserve_money, Account
  <2>4. QED
    BY <1>1, <2>1, <2>3 DEF ReservationsCovered, Affordable
<1>4. CASE op.type = "MONEY_UNRESERVE"
  <2>1. op.amount \in Nat
    BY <1>4 DEF Operations, Amounts
  <2>2. b = unreserve_money(a, s, op.amount)
    BY <1>4 DEF CommitEffect
  <2>3. b.money = a.money /\ b.total_money_reserved = a.total_money_reserved - op.amount
    BY <2>2 DEF unreserve_money, Account
  <2>4. QED
    BY <1>1, <2>1, <2>3 DEF ReservationsCovered
<1>5. CASE op.type = "MONEY_TRANSFER"
  <2> DEFINE left == IF op.do_unreserve THEN unreserve_money(a, s, -op.amount) ELSE a
  <2>1. op.amount \in Int
    BY <1>5 DEF Operations
  <2>2. left \in Account
    <3>1. CASE op.do_unreserve
        <4>1. Unreservable(a, s, -op.amount)
            BY <1>5, <3>1 DEF CommitAsserts
        <4>2. QED
            BY <2>1, <3>1, <4>1, UnreserveKeepsBooks
    <3>2. CASE ~op.do_unreserve
        BY <3>2
    <3>3. QED
        BY <3>1, <3>2
  <2>3. left.money + op.amount - left.total_money_reserved >= 0
    BY <1>5, Zenon DEF CommitAsserts
  <2>4. b = [left EXCEPT !.money = @ + op.amount]
    BY <1>5 DEF CommitEffect
  <2> HIDE DEF left
  <2>5. b.money = left.money + op.amount /\ b.total_money_reserved = left.total_money_reserved
    BY <2>2, <2>4 DEF Account
  <2>6. left.money \in Int /\ left.total_money_reserved \in Int
    BY <2>2 DEF Account
  <2>7. QED
    BY <2>1, <2>3, <2>5, <2>6 DEF ReservationsCovered
<1>6. QED
    BY <1>2, <1>3, <1>4, <1>5 DEF Operations

LEMMA TurnKeepsSolvent ==
    ASSUME NEW r, r.account \in Account, NEW t \in Transactions, NEW i \in Nat \ {0}, NEW s \in Servers,
           Solvent(r.account)
    PROVE  Solvent(CommitTurn(r, t, i, s).account)
<1>1. CASE i > Len(t) \/ ~r.ok \/ ~CommitAsserts(t[i], r.account, s)
    BY <1>1 DEF CommitTurn
<1>2. CASE ~(i > Len(t)) /\ r.ok /\ CommitAsserts(t[i], r.account, s)
  <2>1. t[i] \in Operations
    BY <1>2 DEF Transactions
  <2>2. CommitTurn(r, t, i, s).account = CommitEffect(t[i], r.account, s)
    BY <1>2 DEF CommitTurn
  <2>3. QED
    BY <1>2, <2>1, <2>2, EffectKeepsBooks, EffectKeepsCover DEF Solvent
<1>3. QED
    BY <1>1, <1>2

\* An account that can pay for its reservations can still do so after any transaction of any
\* server, however far its commit gets (user_server.cpp:286-522).
THEOREM CommitKeepsSolvent ==
    ASSUME NEW t \in Transactions, NEW a \in Account, NEW s \in Servers, Solvent(a)
    PROVE  Solvent(commit_transaction(t, a, s).account)
<1> DEFINE start == [ok |-> TRUE, account |-> a]
           one   == CommitTurn(start, t, 1, s)
           two   == CommitTurn(one,   t, 2, s)
           three == CommitTurn(two,   t, 3, s)
           four  == CommitTurn(three, t, 4, s)
<1>1. start.account \in Account /\ Solvent(start.account)
    OBVIOUS
<1>2. commit_transaction(t, a, s) = four
    BY DEF commit_transaction, MAX_US_TRANSACTION_OPERATIONS
<1> HIDE DEF start
<1>3. one.account \in Account /\ Solvent(one.account)
    BY <1>1, TurnKeepsBooks, TurnKeepsSolvent
<1> HIDE DEF one
<1>4. two.account \in Account /\ Solvent(two.account)
    BY <1>3, TurnKeepsBooks, TurnKeepsSolvent
<1> HIDE DEF two
<1>5. three.account \in Account /\ Solvent(three.account)
    BY <1>4, TurnKeepsBooks, TurnKeepsSolvent
<1> HIDE DEF three
<1>6. Solvent(four.account)
    BY <1>5, TurnKeepsSolvent
<1> HIDE DEF four
<1>7. QED
    BY <1>2, <1>6
-----------------------------------------------------------------------------
\* What server s holds of account a is in b as it was: its slots, with their items, and its money.
Respects(a, b, s) ==
    /\ b.money_reservations[s] = a.money_reservations[s]
    /\ \A n \in Slots :
        a.inventory_reservations[n] = s =>
            /\ b.inventory_reservations[n] = s
            /\ b.inventory[n] = a.inventory[n]

\* An operation of one server leaves the slots and the money of the other alone.  An
\* ITEM_UNRESERVE would not, if it were sent: its commit does not ask who holds the slot.
LEMMA EffectRespects ==
    ASSUME NEW a \in Account, NEW r \in Servers, NEW s \in Servers, r # s,
           NEW op \in Operations, op.type # "ITEM_UNRESERVE", CommitAsserts(op, a, r), WellFormed(a)
    PROVE  Respects(a, CommitEffect(op, a, r), s)
<1> DEFINE b == CommitEffect(op, a, r)
<1>1. \A n \in Slots : a.inventory_reservations[n] = s => a.inventory[n].reserved
    BY ServerAssumption DEF WellFormed, SlotReservationsAgree, Servers
<1>2. CASE op.type = "ITEM_TO_INVENTORY"
  <2>1. TargetSlot(op, a) \in Slots /\ OpenTo(a, TargetSlot(op, a), r)
    BY <1>2, TargetIsSlot DEF CommitAsserts, Operations
  <2>2. a.inventory_reservations[TargetSlot(op, a)] # s
    BY <1>1, <2>1 DEF OpenTo
  <2>3. b = [a EXCEPT !.inventory[TargetSlot(op, a)].item = op.item]
    BY <1>2 DEF CommitEffect
  <2>4. QED
    BY <2>1, <2>2, <2>3 DEF Respects, Account
<1>3. CASE op.type = "ITEM_TO_SERVER"
  <2> DEFINE n == SlotOf(a, op.item)
  <2>1. n \in Slots /\ OpenTo(a, n, r)
    BY <1>3, LookupsAreSlots DEF CommitAsserts
  <2>2. a.inventory_reservations[n] # s
    BY <1>1, <2>1 DEF OpenTo
  <2>3. b = [a EXCEPT !.inventory[n] = [item |-> NoItem, reserved |-> FALSE],
                      !.inventory_reservations[n] = NoServer]
    BY <1>3 DEF CommitEffect
  <2> HIDE DEF n
  <2>4. QED
    BY <2>1, <2>2, <2>3 DEF Respects, Account
<1>4. CASE op.type = "ITEM_RESERVE"
  <2> DEFINE n == SlotOf(a, op.item)
  <2>1. n \in Slots /\ ~a.inventory[n].reserved
    BY <1>4, LookupsAreSlots DEF CommitAsserts
  <2>2. a.inventory_reservations[n] # s
    BY <1>1, <2>1
  <2>3. b = [a EXCEPT !.inventory[n].reserved = TRUE, !.inventory_reservations[n] = r]
    BY <1>4 DEF CommitEffect
  <2> HIDE DEF n
  <2>4. QED
    BY <2>1, <2>2, <2>3 DEF Respects, Account
<1>5. CASE op.type = "SLOT_RESERVE"
  <2> DEFINE n == Min(EmptySlots(a))
  <2>1. n \in Slots /\ ~a.inventory[n].reserved
    <3>1. n \in EmptySlots(a)
        BY <1>5, LookupsAreSlots DEF CommitAsserts
    <3> HIDE DEF n
    <3>2. QED
        BY <3>1 DEF EmptySlots
  <2>2. a.inventory_reservations[n] # s
    BY <1>1, <2>1
  <2>3. b = [a EXCEPT !.inventory[n].reserved = TRUE, !.inventory_reservations[n] = r]
    BY <1>5 DEF CommitEffect
  <2> HIDE DEF n
  <2>4. QED
    BY <2>1, <2>2, <2>3 DEF Respects, Account
<1>6. CASE op.type = "SLOT_UNRESERVE"
  <2>1. op.slot \in Slots /\ a.inventory_reservations[op.slot] = r
    BY <1>6 DEF CommitAsserts, Operations
  <2>2. b = [a EXCEPT !.inventory[op.slot].reserved = FALSE, !.inventory_reservations[op.slot] = NoServer]
    BY <1>6 DEF CommitEffect
  <2>3. QED
    BY <2>1, <2>2 DEF Respects, Account
<1>7. CASE op.type = "MONEY_RESERVE"
    BY <1>7 DEF CommitEffect, reserve_money, Respects, Account
<1>8. CASE op.type = "MONEY_UNRESERVE"
    BY <1>8 DEF CommitEffect, unreserve_money, Respects, Account
<1>9. CASE op.type = "MONEY_TRANSFER"
  <2>1. CASE op.do_unreserve
    BY <1>9, <2>1 DEF CommitEffect, unreserve_money, Respects, Account
  <2>2. CASE ~op.do_unreserve
    BY <1>9, <2>2 DEF CommitEffect, Respects, Account
  <2>3. QED
    BY <2>1, <2>2
<1>10. QED
    BY <1>2, <1>3, <1>4, <1>5, <1>6, <1>7, <1>8, <1>9 DEF Operations

LEMMA TurnRespects ==
    ASSUME NEW a, NEW res, res.account \in Account, WellFormed(res.account),
           NEW t \in Transactions, NEW i \in Nat \ {0}, NEW r \in Servers, NEW s \in Servers, r # s,
           \A k \in DOMAIN t : t[k].type # "ITEM_UNRESERVE", Respects(a, res.account, s)
    PROVE  Respects(a, CommitTurn(res, t, i, r).account, s)
<1>1. CASE i > Len(t) \/ ~res.ok \/ ~CommitAsserts(t[i], res.account, r)
    BY <1>1 DEF CommitTurn
<1>2. CASE ~(i > Len(t)) /\ res.ok /\ CommitAsserts(t[i], res.account, r)
  <2>1. i \in DOMAIN t /\ t[i] \in Operations
    BY <1>2 DEF Transactions
  <2>2. CommitTurn(res, t, i, r).account = CommitEffect(t[i], res.account, r)
    BY <1>2 DEF CommitTurn
  <2>3. Respects(res.account, CommitEffect(t[i], res.account, r), s)
    BY <1>2, <2>1, EffectRespects
  <2>4. QED
    BY <2>2, <2>3 DEF Respects
<1>3. QED
    BY <1>1, <1>2

\* What one server holds no transaction of the other takes, however far its commit gets.
LEMMA CommitRespects ==
    ASSUME NEW t \in Transactions, NEW a \in Account, WellFormed(a), NEW r \in Servers, NEW s \in Servers, r # s,
           \A k \in DOMAIN t : t[k].type # "ITEM_UNRESERVE"
    PROVE  Respects(a, commit_transaction(t, a, r).account, s)
<1> DEFINE start == [ok |-> TRUE, account |-> a]
           one   == CommitTurn(start, t, 1, r)
           two   == CommitTurn(one,   t, 2, r)
           three == CommitTurn(two,   t, 3, r)
           four  == CommitTurn(three, t, 4, r)
           Good(res) == res.account \in Account /\ WellFormed(res.account) /\ Respects(a, res.account, s)
<1>1. Good(start)
    BY DEF Respects
<1>2. commit_transaction(t, a, r) = four
    BY DEF commit_transaction, MAX_US_TRANSACTION_OPERATIONS
<1>3. ASSUME NEW res, Good(res), NEW i \in Nat \ {0}
      PROVE  Good(CommitTurn(res, t, i, r))
    BY <1>3, TurnKeepsBooks, TurnRespects
<1> HIDE DEF Good, start
<1>4. Good(one)
    BY <1>1, <1>3
<1> HIDE DEF one
<1>5. Good(two)
    BY <1>3, <1>4
<1> HIDE DEF two
<1>6. Good(three)
    BY <1>3, <1>5
<1> HIDE DEF three
<1>7. Good(four)
    BY <1>3, <1>6
<1> HIDE DEF four
<1>8. QED
    BY <1>2, <1>7 DEF Good
-----------------------------------------------------------------------------
(***************************************************************************)
(* What the operations of a transaction add up to: the coins it brings the *)
(* user, and how many of an item.                                          *)
(***************************************************************************)
Received == [op \in Operations |-> IF op.type = "MONEY_TRANSFER" THEN op.amount ELSE 0]

Gained(it) ==
    [op \in Operations |-> IF op.type = "ITEM_TO_INVENTORY" /\ op.item = it THEN 1
                           ELSE IF op.type = "ITEM_TO_SERVER" /\ op.item = it THEN -1
                           ELSE 0]

At(w, t, i) == IF i \in DOMAIN t THEN w[t[i]] ELSE 0
InAll(w, t) == At(w, t, 1) + At(w, t, 2) + At(w, t, 3) + At(w, t, 4)

NumHeld(a, it) == Cardinality(SlotsHolding(a, it))

LEMMA WeightsAreNumbers ==
    ASSUME NEW it
    PROVE  Received \in [Operations -> Int] /\ Gained(it) \in [Operations -> Int]
<1>1. Received \in [Operations -> Int]
  <2>1. \A op \in Operations : op.type = "MONEY_TRANSFER" => op.amount \in Int
    BY DEF Operations
  <2>2. QED
    BY <2>1 DEF Received
<1>2. Gained(it) \in [Operations -> Int]
    BY DEF Gained
<1>3. QED
    BY <1>1, <1>2

LEMMA InAllIsNumber ==
    ASSUME NEW w \in [Operations -> Int], NEW t \in Transactions
    PROVE  InAll(w, t) \in Int /\ \A i : At(w, t, i) \in Int
<1>1. ASSUME NEW i
      PROVE  At(w, t, i) \in Int
  <2>1. i \in DOMAIN t => t[i] \in Operations
    BY DEF Transactions
  <2>2. QED
    BY <2>1 DEF At
<1>2. QED
    BY <1>1 DEF InAll

LEMMA NumHeldIsNumber ==
    ASSUME NEW a, NEW it
    PROVE  NumHeld(a, it) \in Nat /\ IsFiniteSet(SlotsHolding(a, it))
<1>1. IsFiniteSet(Slots)
    BY NumSlotsAssumption, FS_Interval DEF Slots
<1>2. SlotsHolding(a, it) \subseteq Slots
    BY LookupsAreSlots
<1>3. QED
    BY <1>1, <1>2, FS_Subset, FS_CardinalityType DEF NumHeld

\* An operation moves what it says it moves, ...
LEMMA EffectMovesMoney ==
    ASSUME NEW a \in Account, NEW s \in Servers, NEW op \in Operations, CommitAsserts(op, a, s)
    PROVE  CommitEffect(op, a, s).money = a.money + Received[op]
<1> DEFINE b == CommitEffect(op, a, s)
<1>1. a.money \in Int /\ Received[op] = IF op.type = "MONEY_TRANSFER" THEN op.amount ELSE 0
    BY DEF Account, Received
<1>2. CASE op.type = "MONEY_TRANSFER"
  <2> DEFINE left == IF op.do_unreserve THEN unreserve_money(a, s, -op.amount) ELSE a
  <2>1. op.amount \in Int
    BY <1>2 DEF Operations
  <2>2. left \in Account /\ left.money = a.money
    <3>1. CASE op.do_unreserve
        <4>1. Unreservable(a, s, -op.amount)
            BY <1>2, <3>1 DEF CommitAsserts
        <4>2. unreserve_money(a, s, -op.amount).money = a.money
            BY DEF unreserve_money, Account
        <4>3. QED
            BY <2>1, <3>1, <4>1, <4>2, UnreserveKeepsBooks
    <3>2. CASE ~op.do_unreserve
        BY <3>2
    <3>3. QED
        BY <3>1, <3>2
  <2>3. b = [left EXCEPT !.money = @ + op.amount]
    BY <1>2 DEF CommitEffect
  <2> HIDE DEF left
  <2>4. b.money = left.money + op.amount
    BY <2>2, <2>3 DEF Account
  <2>5. QED
    BY <1>1, <1>2, <2>2, <2>4
<1>3. CASE op.type # "MONEY_TRANSFER"
  <2>1. b.money = a.money
    <3>1. CASE op.type = "ITEM_TO_INVENTORY"
        BY <3>1 DEF CommitEffect, Account
    <3>2. CASE op.type = "ITEM_TO_SERVER"
        BY <3>2 DEF CommitEffect, Account
    <3>3. CASE op.type = "ITEM_RESERVE"
        BY <3>3 DEF CommitEffect, Account
    <3>4. CASE op.type = "ITEM_UNRESERVE"
        BY <3>4 DEF CommitEffect, Account
    <3>5. CASE op.type = "SLOT_RESERVE"
        BY <3>5 DEF CommitEffect, Account
    <3>6. CASE op.type = "SLOT_UNRESERVE"
        BY <3>6 DEF CommitEffect, Account
    <3>7. CASE op.type = "MONEY_RESERVE"
        BY <3>7 DEF CommitEffect, reserve_money, Account
    <3>8. CASE op.type = "MONEY_UNRESERVE"
        BY <3>8 DEF CommitEffect, unreserve_money, Account
    <3>9. QED
        BY <1>3, <3>1, <3>2, <3>3, <3>4, <3>5, <3>6, <3>7, <3>8 DEF Operations
  <2>2. QED
    BY <1>1, <1>3, <2>1
<1>4. QED
    BY <1>2, <1>3

LEMMA EffectMovesItems ==
    ASSUME NEW a \in Account, NEW s \in Servers, NEW op \in Operations, CommitAsserts(op, a, s), NEW it, it # NoItem
    PROVE  NumHeld(CommitEffect(op, a, s), it) = NumHeld(a, it) + Gained(it)[op]
<1> DEFINE b == CommitEffect(op, a, s)
           A == SlotsHolding(a, it)
           B == SlotsHolding(b, it)
<1>1. IsFiniteSet(A) /\ NumHeld(a, it) \in Nat /\ NumHeld(a, it) = Cardinality(A) /\ NumHeld(b, it) = Cardinality(B)
    BY NumHeldIsNumber DEF NumHeld
<1>2. Gained(it)[op] = IF op.type = "ITEM_TO_INVENTORY" /\ op.item = it THEN 1
                       ELSE IF op.type = "ITEM_TO_SERVER" /\ op.item = it THEN -1
                       ELSE 0
    BY DEF Gained
<1>3. it # NoItem
    OBVIOUS
<1>4. CASE op.type = "ITEM_TO_INVENTORY"
  <2> DEFINE n == TargetSlot(op, a)
  <2>1. n \in Slots /\ a.inventory[n].item = NoItem
    BY <1>4, TargetIsSlot DEF CommitAsserts, Operations
  <2>2. b = [a EXCEPT !.inventory[n].item = op.item]
    BY <1>4 DEF CommitEffect
  <2> HIDE DEF n
  <2>3. b.inventory[n].item = op.item /\ \A m \in Slots \ {n} : b.inventory[m].item = a.inventory[m].item
    BY <2>1, <2>2 DEF Account, Inventory_Slot
  <2>4. n \notin A
    BY <1>3, <2>1 DEF SlotsHolding
  <2>5. CASE op.item = it
    <3>1. B = A \cup {n}
        BY <2>1, <2>3, <2>5 DEF SlotsHolding
    <3>2. Cardinality(B) = Cardinality(A) + 1
        <4> HIDE DEF A, B
        <4>1. QED
            BY <1>1, <2>4, <3>1, FS_AddElement
    <3>3. QED
        BY <1>1, <1>2, <1>4, <2>5, <3>2
  <2>6. CASE op.item # it
    <3>1. B = A
        BY <1>3, <2>1, <2>3, <2>6 DEF SlotsHolding
    <3>2. QED
        BY <1>1, <1>2, <1>4, <2>6, <3>1
  <2>7. QED
    BY <2>5, <2>6
<1>5. CASE op.type = "ITEM_TO_SERVER"
  <2> DEFINE n == SlotOf(a, op.item)
  <2>1. n \in Slots /\ a.inventory[n].item = op.item
    <3>1. n \in SlotsHolding(a, op.item)
        BY <1>5, LookupsAreSlots DEF CommitAsserts
    <3> HIDE DEF n
    <3>2. QED
        BY <3>1 DEF SlotsHolding
  <2>2. b = [a EXCEPT !.inventory[n] = [item |-> NoItem, reserved |-> FALSE],
                      !.inventory_reservations[n] = NoServer]
    BY <1>5 DEF CommitEffect
  <2> HIDE DEF n
  <2>3. b.inventory[n].item = NoItem /\ \A m \in Slots \ {n} : b.inventory[m].item = a.inventory[m].item
    BY <2>1, <2>2 DEF Account
  <2>4. CASE op.item = it
    <3>1. B = A \ {n} /\ n \in A
        BY <1>3, <2>1, <2>3, <2>4 DEF SlotsHolding
    <3>2. Cardinality(B) = Cardinality(A) - 1
        <4> HIDE DEF A, B
        <4>1. QED
            BY <1>1, <3>1, FS_RemoveElement
    <3>3. QED
        BY <1>1, <1>2, <1>5, <2>4, <3>2
  <2>5. CASE op.item # it
    <3>1. B = A
        BY <1>3, <2>1, <2>3, <2>5 DEF SlotsHolding
    <3>2. QED
        BY <1>1, <1>2, <1>5, <2>5, <3>1
  <2>6. QED
    BY <2>4, <2>5
<1>6. CASE op.type \notin {"ITEM_TO_INVENTORY", "ITEM_TO_SERVER"}
  <2>1. \A m \in Slots : b.inventory[m].item = a.inventory[m].item
    <3>1. CASE op.type = "ITEM_RESERVE"
        <4> DEFINE n == SlotOf(a, op.item)
        <4>1. b = [a EXCEPT !.inventory[n].reserved = TRUE, !.inventory_reservations[n] = s]
            BY <3>1 DEF CommitEffect
        <4> HIDE DEF n, b
        <4>2. QED
            BY <4>1 DEF Account, Inventory_Slot
    <3>2. CASE op.type = "ITEM_UNRESERVE"
        <4> DEFINE n == SlotOf(a, op.item)
        <4>1. b = [a EXCEPT !.inventory[n].reserved = FALSE, !.inventory_reservations[n] = NoServer]
            BY <3>2 DEF CommitEffect
        <4> HIDE DEF n, b
        <4>2. QED
            BY <4>1 DEF Account, Inventory_Slot
    <3>3. CASE op.type = "SLOT_RESERVE"
        <4> DEFINE n == Min(EmptySlots(a))
        <4>1. b = [a EXCEPT !.inventory[n].reserved = TRUE, !.inventory_reservations[n] = s]
            BY <3>3 DEF CommitEffect
        <4> HIDE DEF n, b
        <4>2. QED
            BY <4>1 DEF Account, Inventory_Slot
    <3>4. CASE op.type = "SLOT_UNRESERVE"
        <4> DEFINE n == op.slot
        <4>1. b = [a EXCEPT !.inventory[n].reserved = FALSE, !.inventory_reservations[n] = NoServer]
            BY <3>4 DEF CommitEffect
        <4> HIDE DEF n, b
        <4>2. QED
            BY <4>1 DEF Account, Inventory_Slot
    <3>5. CASE op.type = "MONEY_RESERVE"
        BY <3>5 DEF CommitEffect, reserve_money, Account
    <3>6. CASE op.type = "MONEY_UNRESERVE"
        BY <3>6 DEF CommitEffect, unreserve_money, Account
    <3>7. CASE op.type = "MONEY_TRANSFER"
        BY <3>7 DEF CommitEffect, unreserve_money, Account
    <3>8. QED
        BY <1>6, <3>1, <3>2, <3>3, <3>4, <3>5, <3>6, <3>7 DEF Operations
  <2>2. B = A
    BY <2>1 DEF SlotsHolding
  <2>3. QED
    BY <1>1, <1>2, <1>6, <2>2
<1>7. QED
    BY <1>4, <1>5, <1>6

LEMMA TurnMoves ==
    ASSUME NEW r, r.account \in Account, NEW t \in Transactions, NEW i \in Nat \ {0}, NEW s \in Servers,
           CommitTurn(r, t, i, s).ok, NEW it, it # NoItem
    PROVE  /\ r.ok
           /\ CommitTurn(r, t, i, s).account \in Account
           /\ CommitTurn(r, t, i, s).account.money = r.account.money + At(Received, t, i)
           /\ NumHeld(CommitTurn(r, t, i, s).account, it) = NumHeld(r.account, it) + At(Gained(it), t, i)
<1>1. r.account.money \in Int /\ NumHeld(r.account, it) \in Nat
    BY NumHeldIsNumber DEF Account
<1>2. r.ok
    BY DEF CommitTurn
<1>3. CASE i > Len(t)
  <2>1. i \notin DOMAIN t
    BY <1>3 DEF Transactions
  <2>2. CommitTurn(r, t, i, s) = r
    BY <1>3 DEF CommitTurn
  <2>3. QED
    BY <1>1, <1>2, <2>1, <2>2 DEF At
<1>4. CASE ~(i > Len(t))
  <2>1. i \in DOMAIN t /\ t[i] \in Operations
    BY <1>4 DEF Transactions
  <2>2. CommitAsserts(t[i], r.account, s)
    BY <1>2, <1>4 DEF CommitTurn
  <2>3. CommitTurn(r, t, i, s).account = CommitEffect(t[i], r.account, s)
    BY <1>2, <1>4, <2>2 DEF CommitTurn
  <2>4. QED
    BY <1>2, <2>1, <2>2, <2>3, EffectKeepsBooks, EffectMovesMoney, EffectMovesItems DEF At
<1>5. QED
    BY <1>3, <1>4

\* ... and a transaction that is committed moves what its operations add up to.
LEMMA CommitMoves ==
    ASSUME NEW t \in Transactions, NEW a \in Account, NEW s \in Servers, commit_transaction(t, a, s).ok,
           NEW it, it # NoItem
    PROVE  /\ commit_transaction(t, a, s).account.money = a.money + InAll(Received, t)
           /\ NumHeld(commit_transaction(t, a, s).account, it) = NumHeld(a, it) + InAll(Gained(it), t)
<1> DEFINE start == [ok |-> TRUE, account |-> a]
           one   == CommitTurn(start, t, 1, s)
           two   == CommitTurn(one,   t, 2, s)
           three == CommitTurn(two,   t, 3, s)
           four  == CommitTurn(three, t, 4, s)
<1>1. commit_transaction(t, a, s) = four
    BY DEF commit_transaction, MAX_US_TRANSACTION_OPERATIONS
<1>2. start.account = a
    OBVIOUS
<1> HIDE DEF start
<1>3. one.account \in Account
    BY <1>2, TurnKeepsBooks
<1> HIDE DEF one
<1>4. two.account \in Account
    BY <1>3, TurnKeepsBooks
<1> HIDE DEF two
<1>5. three.account \in Account
    BY <1>4, TurnKeepsBooks
<1> HIDE DEF three
<1>6. /\ three.ok
      /\ four.account.money = three.account.money + At(Received, t, 4)
      /\ NumHeld(four.account, it) = NumHeld(three.account, it) + At(Gained(it), t, 4)
    BY <1>1, <1>5, TurnMoves
<1>7. /\ two.ok
      /\ three.account.money = two.account.money + At(Received, t, 3)
      /\ NumHeld(three.account, it) = NumHeld(two.account, it) + At(Gained(it), t, 3)
    BY <1>4, <1>6, TurnMoves DEF three
<1>8. /\ one.ok
      /\ two.account.money = one.account.money + At(Received, t, 2)
      /\ NumHeld(two.account, it) = NumHeld(one.account, it) + At(Gained(it), t, 2)
    BY <1>3, <1>7, TurnMoves DEF two
<1>9. /\ one.account.money = a.money + At(Received, t, 1)
      /\ NumHeld(one.account, it) = NumHeld(a, it) + At(Gained(it), t, 1)
    BY <1>2, <1>8, TurnMoves DEF one
<1>10. /\ a.money \in Int /\ NumHeld(a, it) \in Nat
       /\ \A i : At(Received, t, i) \in Int /\ At(Gained(it), t, i) \in Int
    BY WeightsAreNumbers, InAllIsNumber, NumHeldIsNumber DEF Account
<1> HIDE DEF four
<1>11. QED
    BY <1>1, <1>6, <1>7, <1>8, <1>9, <1>10 DEF InAll

\* The transactions that occur have four operations at most.
LEMMA InAllOfOne ==
    ASSUME NEW w, NEW x, w[x] \in Int
    PROVE  InAll(w, <<x>>) = w[x]
BY DEF InAll, At

LEMMA InAllOfTwo ==
    ASSUME NEW w, NEW x, NEW y, w[x] \in Int, w[y] \in Int
    PROVE  InAll(w, <<x, y>>) = w[x] + w[y]
BY DEF InAll, At

LEMMA InAllOfThree ==
    ASSUME NEW w, NEW x, NEW y, NEW z, w[x] \in Int, w[y] \in Int, w[z] \in Int
    PROVE  InAll(w, <<x, y, z>>) = w[x] + w[y] + w[z]
BY DEF InAll, At

LEMMA InAllOfFour ==
    ASSUME NEW w, NEW x, NEW y, NEW z, NEW v, w[x] \in Int, w[y] \in Int, w[z] \in Int, w[v] \in Int
    PROVE  InAll(w, <<x, y, z, v>>) = w[x] + w[y] + w[z] + w[v]
BY DEF InAll, At
-----------------------------------------------------------------------------
(***************************************************************************)
(* The transactions that occur in the market, committed: every Assert      *)
(* holds, and this is the account they leave.                              *)
(***************************************************************************)
\* No Assert of transaction_possible fails on an account that covers its reservations.
LEMMA VotesAreSafe ==
    ASSUME NEW t \in Transactions, NEW a \in Account, NEW s \in Servers, Solvent(a)
    PROVE  ~VoteAssertFails(t, a, s)
<1>1. /\ \A n \in Slots : a.inventory[n].reserved <=> a.inventory_reservations[n] # NoServer
      /\ a.total_money_reserved <= a.money
    BY DEF Solvent, WellFormed, SlotReservationsAgree, ReservationsCovered
<1>2. ASSUME NEW i \in DOMAIN t
      PROVE  PossibleAsserts(t[i], a, s)
  <2>1. t[i] \in Operations
    BY DEF Transactions
  <2>2. CASE t[i].type = "ITEM_UNRESERVE"
    BY <1>1, <2>2, LookupsAreSlots DEF PossibleAsserts
  <2>3. CASE t[i].type = "SLOT_UNRESERVE"
    <3>1. t[i].slot \in Slots
      BY <2>1, <2>3 DEF Operations
    <3>2. QED
      BY <1>1, <2>3, <3>1 DEF PossibleAsserts
  <2>4. CASE t[i].type = "MONEY_RESERVE"
    <3>1. t[i].amount > 0
      BY <2>1, <2>4 DEF Operations, Amounts
    <3>2. QED
      BY <1>1, <2>4, <3>1 DEF PossibleAsserts
  <2>5. CASE t[i].type \notin {"ITEM_UNRESERVE", "SLOT_UNRESERVE", "MONEY_RESERVE"}
    BY <2>5 DEF PossibleAsserts
  <2>6. QED
    BY <2>2, <2>3, <2>4, <2>5
<1>3. QED
    BY <1>2 DEF VoteAssertFails

\* A turn of the loop whose Asserts hold, and one past the last operation.
LEMMA TurnDone ==
    ASSUME NEW r, NEW t, NEW i, NEW s, NEW x, NEW a,
           r.ok, r.account = a, ~(i > Len(t)), t[i] = x, CommitAsserts(x, a, s)
    PROVE  CommitTurn(r, t, i, s).ok /\ CommitTurn(r, t, i, s).account = CommitEffect(x, a, s)
BY DEF CommitTurn

LEMMA TurnPast ==
    ASSUME NEW r, NEW t, NEW i, i > Len(t), NEW s
    PROVE  CommitTurn(r, t, i, s) = r
BY DEF CommitTurn

LEMMA CommitOfOne ==
    ASSUME NEW x, NEW a, NEW s, CommitAsserts(x, a, s)
    PROVE  commit_transaction(<<x>>, a, s).ok /\ commit_transaction(<<x>>, a, s).account = CommitEffect(x, a, s)
<1>1. PICK t, r0, r1 :
            /\ t = <<x>> /\ r0 = [ok |-> TRUE, account |-> a]
            /\ r1 = CommitTurn(r0, t, 1, s)
    OBVIOUS
<1>2. t[1] = x /\ r0.ok /\ r0.account = a
    BY <1>1
<1>3. ~(1 > Len(t)) /\ 2 > Len(t) /\ 3 > Len(t) /\ 4 > Len(t)
  <2>1. Len(t) = 1
    BY <1>1
  <2>2. QED
    BY <2>1
<1>4. r1.ok /\ r1.account = CommitEffect(x, a, s)
    BY <1>1, <1>2, <1>3, TurnDone
<1>5. CommitTurn(r1, t, 2, s) = r1 /\ CommitTurn(r1, t, 3, s) = r1 /\ CommitTurn(r1, t, 4, s) = r1
    BY <1>3, TurnPast, Zenon
<1>6. commit_transaction(t, a, s) = r1
    BY <1>1, <1>5, Zenon DEF commit_transaction, MAX_US_TRANSACTION_OPERATIONS
<1>7. QED
    BY <1>1, <1>4, <1>6

LEMMA CommitOfTwo ==
    ASSUME NEW x, NEW y, NEW a, NEW s, CommitAsserts(x, a, s),
           NEW b, b = CommitEffect(x, a, s), CommitAsserts(y, b, s)
    PROVE  commit_transaction(<<x, y>>, a, s).ok /\ commit_transaction(<<x, y>>, a, s).account = CommitEffect(y, b, s)
<1>1. PICK t, r0, r1, r2 :
            /\ t = <<x, y>> /\ r0 = [ok |-> TRUE, account |-> a]
            /\ r1 = CommitTurn(r0, t, 1, s)
            /\ r2 = CommitTurn(r1, t, 2, s)
    OBVIOUS
<1>2. t[1] = x /\ t[2] = y /\ r0.ok /\ r0.account = a
    BY <1>1
<1>3. ~(1 > Len(t)) /\ ~(2 > Len(t)) /\ 3 > Len(t) /\ 4 > Len(t)
  <2>1. Len(t) = 2
    BY <1>1
  <2>2. QED
    BY <2>1
<1>4. r1.ok /\ r1.account = b
    BY <1>1, <1>2, <1>3, TurnDone
<1>5. r2.ok /\ r2.account = CommitEffect(y, b, s)
    BY <1>1, <1>2, <1>3, <1>4, TurnDone
<1>6. CommitTurn(r2, t, 3, s) = r2 /\ CommitTurn(r2, t, 4, s) = r2
    BY <1>3, TurnPast, Zenon
<1>7. commit_transaction(t, a, s) = r2
    BY <1>1, <1>6, Zenon DEF commit_transaction, MAX_US_TRANSACTION_OPERATIONS
<1>8. QED
    BY <1>1, <1>5, <1>7

LEMMA CommitOfThree ==
    ASSUME NEW x, NEW y, NEW z, NEW a, NEW s, CommitAsserts(x, a, s),
           NEW b, b = CommitEffect(x, a, s), CommitAsserts(y, b, s),
           NEW c, c = CommitEffect(y, b, s), CommitAsserts(z, c, s)
    PROVE  commit_transaction(<<x, y, z>>, a, s).ok /\ commit_transaction(<<x, y, z>>, a, s).account = CommitEffect(z, c, s)
<1>1. PICK t, r0, r1, r2, r3 :
            /\ t = <<x, y, z>> /\ r0 = [ok |-> TRUE, account |-> a]
            /\ r1 = CommitTurn(r0, t, 1, s)
            /\ r2 = CommitTurn(r1, t, 2, s)
            /\ r3 = CommitTurn(r2, t, 3, s)
    OBVIOUS
<1>2. t[1] = x /\ t[2] = y /\ t[3] = z /\ r0.ok /\ r0.account = a
    BY <1>1
<1>3. ~(1 > Len(t)) /\ ~(2 > Len(t)) /\ ~(3 > Len(t)) /\ 4 > Len(t)
  <2>1. Len(t) = 3
    BY <1>1
  <2>2. QED
    BY <2>1
<1>4. r1.ok /\ r1.account = b
    BY <1>1, <1>2, <1>3, TurnDone
<1>5. r2.ok /\ r2.account = c
    BY <1>1, <1>2, <1>3, <1>4, TurnDone
<1>6. r3.ok /\ r3.account = CommitEffect(z, c, s)
    BY <1>1, <1>2, <1>3, <1>5, TurnDone
<1>7. CommitTurn(r3, t, 4, s) = r3
    BY <1>3, TurnPast, Zenon
<1>8. commit_transaction(t, a, s) = r3
    BY <1>1, <1>7, Zenon DEF commit_transaction, MAX_US_TRANSACTION_OPERATIONS
<1>9. QED
    BY <1>1, <1>6, <1>8

LEMMA CommitOfFour ==
    ASSUME NEW x, NEW y, NEW z, NEW w, NEW a, NEW s, CommitAsserts(x, a, s),
           NEW b, b = CommitEffect(x, a, s), CommitAsserts(y, b, s),
           NEW c, c = CommitEffect(y, b, s), CommitAsserts(z, c, s),
           NEW d, d = CommitEffect(z, c, s), CommitAsserts(w, d, s)
    PROVE  commit_transaction(<<x, y, z, w>>, a, s).ok /\ commit_transaction(<<x, y, z, w>>, a, s).account = CommitEffect(w, d, s)
<1>1. PICK t, r0, r1, r2, r3, r4 :
            /\ t = <<x, y, z, w>> /\ r0 = [ok |-> TRUE, account |-> a]
            /\ r1 = CommitTurn(r0, t, 1, s)
            /\ r2 = CommitTurn(r1, t, 2, s)
            /\ r3 = CommitTurn(r2, t, 3, s)
            /\ r4 = CommitTurn(r3, t, 4, s)
    OBVIOUS
<1>2. t[1] = x /\ t[2] = y /\ t[3] = z /\ t[4] = w /\ r0.ok /\ r0.account = a
    BY <1>1
<1>3. ~(1 > Len(t)) /\ ~(2 > Len(t)) /\ ~(3 > Len(t)) /\ ~(4 > Len(t))
  <2>1. Len(t) = 4
    BY <1>1
  <2>2. QED
    BY <2>1
<1>4. r1.ok /\ r1.account = b
    BY <1>1, <1>2, <1>3, TurnDone
<1>5. r2.ok /\ r2.account = c
    BY <1>1, <1>2, <1>3, <1>4, TurnDone
<1>6. r3.ok /\ r3.account = d
    BY <1>1, <1>2, <1>3, <1>5, TurnDone
<1>7. r4.ok /\ r4.account = CommitEffect(w, d, s)
    BY <1>1, <1>2, <1>3, <1>6, TurnDone
<1>8. commit_transaction(t, a, s) = r4
    BY <1>1, Zenon DEF commit_transaction, MAX_US_TRANSACTION_OPERATIONS
<1>9. QED
    BY <1>1, <1>7, <1>8

-----------------------------------------------------------------------------
\* Of the slots of account a, slot n alone has another item or holder in b.
SlotBecomes(a, b, n, item, holder) ==
    \A k \in Slots :
        /\ b.inventory[k].item = IF k = n THEN item ELSE a.inventory[k].item
        /\ b.inventory_reservations[k] = IF k = n THEN holder ELSE a.inventory_reservations[k]

MoneyBecomes(a, b, s, money, reserved) ==
    /\ b.money = money
    /\ b.money_reservations[s] = reserved

\* What transaction_possible tests for the operation of a transaction at place i.
LEMMA EachPossible ==
    ASSUME NEW t, NEW a, NEW s, transaction_possible(t, a, s), NEW i \in DOMAIN t
    PROVE  OperationPossible(t[i], a, s)
BY DEF transaction_possible

LEMMA SolventFacts ==
    ASSUME NEW a \in Account, Solvent(a), NEW s \in Servers
    PROVE  /\ \A n \in Slots : a.inventory[n].reserved <=> a.inventory_reservations[n] # NoServer
           /\ a.money \in Int /\ a.total_money_reserved \in Int /\ a.money_reservations[s] \in Nat
           /\ a.total_money_reserved <= a.money /\ a.money_reservations[s] <= a.total_money_reserved
<1>1. /\ a.total_money_reserved = a.money_reservations[RoomServer] + a.money_reservations[MarketServer]
      /\ a.money_reservations[RoomServer] \in Nat /\ a.money_reservations[MarketServer] \in Nat
      /\ s = RoomServer \/ s = MarketServer
    BY DEF Solvent, WellFormed, MoneyReservationsAgree, Account, Servers
<1>2. a.money_reservations[s] \in Nat /\ a.money_reservations[s] <= a.total_money_reserved
    BY <1>1
<1>3. QED
    BY <1>1, <1>2 DEF Solvent, WellFormed, SlotReservationsAgree, ReservationsCovered, Account

\* The first empty slot is reserved.
LEMMA SlotReserveEffect ==
    ASSUME NEW a \in Account, Solvent(a), NEW s \in Servers, OperationPossible(SlotReserve, a, s),
           NEW n, n = Min(EmptySlots(a)), NEW b, b = CommitEffect(SlotReserve, a, s)
    PROVE  /\ CommitAsserts(SlotReserve, a, s)
           /\ b \in Account
           /\ n \in Slots /\ a.inventory_reservations[n] = NoServer /\ a.inventory[n].item = NoItem
           /\ SlotBecomes(a, b, n, NoItem, s)
           /\ b.money = a.money /\ b.money_reservations = a.money_reservations
           /\ b.total_money_reserved = a.total_money_reserved
<1>0. SlotReserve \in Operations /\ SlotReserve.type = "SLOT_RESERVE"
    BY DEF SlotReserve, Operations
<1>1. CommitAsserts(SlotReserve, a, s)
    BY <1>0, PossibleIsCommittable
<1>2. b \in Account
    BY <1>0, <1>1, EffectKeepsBooks
<1>3. EmptySlots(a) # {}
    BY <1>0 DEF OperationPossible
<1>4. n \in Slots /\ a.inventory[n].item = NoItem /\ ~a.inventory[n].reserved
    BY <1>3, LookupsAreSlots DEF EmptySlots
<1>5. a.inventory_reservations[n] = NoServer
    BY <1>4, SolventFacts
<1>6. b = [a EXCEPT !.inventory[n].reserved = TRUE, !.inventory_reservations[n] = s]
    BY <1>0 DEF CommitEffect
<1>7. SlotBecomes(a, b, n, NoItem, s)
    BY <1>4, <1>6 DEF SlotBecomes, Account, Inventory_Slot
<1>8. /\ b.money = a.money /\ b.money_reservations = a.money_reservations
      /\ b.total_money_reserved = a.total_money_reserved
    BY <1>6 DEF Account
<1>9. QED
    BY <1>1, <1>2, <1>4, <1>5, <1>7, <1>8

LEMMA MoneyReserveEffect ==
    ASSUME NEW a \in Account, NEW s \in Servers, NEW x \in Amounts, Affordable(a, x),
           NEW b, b = CommitEffect(MoneyReserve(x), a, s)
    PROVE  /\ CommitAsserts(MoneyReserve(x), a, s)
           /\ b.inventory = a.inventory /\ b.inventory_reservations = a.inventory_reservations
           /\ MoneyBecomes(a, b, s, a.money, a.money_reservations[s] + x)
<1>1. MoneyReserve(x).type = "MONEY_RESERVE" /\ MoneyReserve(x).amount = x /\ x > 0
    BY DEF MoneyReserve, Amounts
<1>2. b = reserve_money(a, s, x)
    BY <1>1 DEF CommitEffect
<1>3. QED
    BY <1>1, <1>2 DEF CommitAsserts, reserve_money, MoneyBecomes, Account

\* What a bid reserves: a slot, and the money if there is a price (market_server.cpp:374-422).
LEMMA BidCommits ==
    ASSUME NEW a \in Account, Solvent(a), NEW s \in Servers, NEW x \in Nat,
           NEW t, t = IF x > 0 THEN <<SlotReserve, MoneyReserve(x)>> ELSE <<SlotReserve>>,
           transaction_possible(t, a, s), NEW n, n = Min(EmptySlots(a)),
           NEW b, b = commit_transaction(t, a, s).account
    PROVE  /\ commit_transaction(t, a, s).ok
           /\ n \in Slots /\ a.inventory_reservations[n] = NoServer
           /\ SlotBecomes(a, b, n, NoItem, s) /\ a.inventory[n].item = NoItem
           /\ MoneyBecomes(a, b, s, a.money, a.money_reservations[s] + x)
           /\ a.money - a.total_money_reserved >= x
<1>1. t[1] = SlotReserve /\ 1 \in DOMAIN t
    OBVIOUS
<1>2. OperationPossible(SlotReserve, a, s)
    BY <1>1, EachPossible
<1>3. PICK c : c = CommitEffect(SlotReserve, a, s)
    OBVIOUS
<1>4. /\ CommitAsserts(SlotReserve, a, s)
      /\ c \in Account
      /\ n \in Slots /\ a.inventory_reservations[n] = NoServer /\ a.inventory[n].item = NoItem
      /\ SlotBecomes(a, c, n, NoItem, s)
      /\ c.money = a.money /\ c.money_reservations = a.money_reservations
      /\ c.total_money_reserved = a.total_money_reserved
    BY <1>2, <1>3, SlotReserveEffect
<1>5. CASE x > 0
  <2>1. t = <<SlotReserve, MoneyReserve(x)>> /\ x \in Amounts
    BY <1>5 DEF Amounts
  <2>2. t[2] = MoneyReserve(x) /\ 2 \in DOMAIN t
    BY <2>1
  <2>3. OperationPossible(MoneyReserve(x), a, s)
    BY <2>2, EachPossible
  <2>4. Affordable(a, x)
    BY <2>3 DEF OperationPossible, MoneyReserve
  <2>5. Affordable(c, x)
    BY <1>4, <2>4 DEF Affordable
  <2>6. PICK d : d = CommitEffect(MoneyReserve(x), c, s)
    OBVIOUS
  <2>7. /\ CommitAsserts(MoneyReserve(x), c, s)
        /\ d.inventory = c.inventory /\ d.inventory_reservations = c.inventory_reservations
        /\ MoneyBecomes(c, d, s, c.money, c.money_reservations[s] + x)
    BY <1>4, <2>1, <2>5, <2>6, MoneyReserveEffect
  <2>8. commit_transaction(t, a, s).ok /\ b = d
    BY <1>3, <1>4, <2>1, <2>6, <2>7, CommitOfTwo
  <2>9. SlotBecomes(a, b, n, NoItem, s) /\ MoneyBecomes(a, b, s, a.money, a.money_reservations[s] + x)
    BY <1>4, <2>7, <2>8 DEF SlotBecomes, MoneyBecomes
  <2>10. QED
    BY <1>4, <2>4, <2>8, <2>9 DEF Affordable
<1>6. CASE ~(x > 0)
  <2>1. t = <<SlotReserve>> /\ x = 0
    BY <1>6
  <2>2. commit_transaction(t, a, s).ok /\ b = c
    BY <1>3, <1>4, <2>1, CommitOfOne
  <2>3. a.money_reservations[s] \in Nat /\ a.money - a.total_money_reserved >= 0
    BY SolventFacts
  <2>4. QED
    BY <1>4, <2>1, <2>2, <2>3 DEF MoneyBecomes
<1>7. QED
    BY <1>5, <1>6

\* What an offer reserves: the item (market_server.cpp:425-459).
LEMMA OfferCommits ==
    ASSUME NEW a \in Account, Solvent(a), NEW s \in Servers, NEW item \in Item,
           NEW t, t = <<ItemReserve(item)>>, transaction_possible(t, a, s), NEW n, n = SlotOf(a, item),
           NEW b, b = commit_transaction(t, a, s).account
    PROVE  /\ commit_transaction(t, a, s).ok
           /\ n \in Slots /\ a.inventory_reservations[n] = NoServer
           /\ SlotBecomes(a, b, n, item, s) /\ n \in SlotsHolding(a, item)
           /\ MoneyBecomes(a, b, s, a.money, a.money_reservations[s])
<1>1. t[1] = ItemReserve(item) /\ 1 \in DOMAIN t
    OBVIOUS
<1>2. PICK op : op = ItemReserve(item)
    OBVIOUS
<1>3. op \in Operations /\ op.type = "ITEM_RESERVE" /\ op.item = item
    BY <1>2 DEF ItemReserve, Operations
<1>4. OperationPossible(op, a, s)
    BY <1>1, <1>2, EachPossible
<1>5. CommitAsserts(op, a, s)
    BY <1>3, <1>4, PossibleIsCommittable
<1>6. n \in Slots /\ a.inventory[n].item = item /\ ~a.inventory[n].reserved
    BY <1>3, <1>4, LookupsAreSlots DEF OperationPossible, SlotsHolding
<1>7. a.inventory_reservations[n] = NoServer
    BY <1>6, SolventFacts
<1>8. commit_transaction(t, a, s).ok /\ b = CommitEffect(op, a, s)
    BY <1>2, <1>5, CommitOfOne
<1>9. b = [a EXCEPT !.inventory[n].reserved = TRUE, !.inventory_reservations[n] = s]
    BY <1>3, <1>8 DEF CommitEffect
<1>10. SlotBecomes(a, b, n, item, s)
  <2>1. PICK c : c = b
    OBVIOUS
  <2>2. c = [a EXCEPT !.inventory[n].reserved = TRUE, !.inventory_reservations[n] = s]
    BY <1>9, <2>1
  <2>3. \A k \in Slots : c.inventory[k].item = a.inventory[k].item
    BY <1>6, <2>2 DEF Account, Inventory_Slot
  <2>4. \A k \in Slots : c.inventory_reservations[k] = IF k = n THEN s ELSE a.inventory_reservations[k]
    BY <1>6, <2>2 DEF Account
  <2>5. SlotBecomes(a, c, n, item, s)
    BY <1>6, <2>3, <2>4 DEF SlotBecomes
  <2>6. QED
    BY <2>1, <2>5
<1>11. MoneyBecomes(a, b, s, a.money, a.money_reservations[s])
    BY <1>9 DEF MoneyBecomes, Account
<1>12. QED
    BY <1>6, <1>7, <1>8, <1>10, <1>11 DEF SlotsHolding
\* The seller's leg of a trade: the item leaves, the price arrives (market_server.cpp:461-500).
LEMMA SellerCommits ==
    ASSUME NEW a \in Account, Solvent(a), NEW s \in Servers, NEW item \in Item, NEW x \in Nat,
           NEW t, t = <<ItemToServer(item), MoneyTransfer(x, FALSE)>>, transaction_possible(t, a, s),
           NEW n, n = SlotOf(a, item), NEW b, b = commit_transaction(t, a, s).account
    PROVE  /\ commit_transaction(t, a, s).ok
           /\ n \in SlotsHolding(a, item)
           /\ SlotBecomes(a, b, n, NoItem, NoServer)
           /\ MoneyBecomes(a, b, s, a.money + x, a.money_reservations[s])
<1>1. t[1] = ItemToServer(item) /\ 1 \in DOMAIN t
    OBVIOUS
<1>2. PICK op, pay : op = ItemToServer(item) /\ pay = MoneyTransfer(x, FALSE)
    OBVIOUS
<1>3. /\ op \in Operations /\ op.type = "ITEM_TO_SERVER" /\ op.item = item
      /\ pay.type = "MONEY_TRANSFER" /\ pay.amount = x /\ pay.do_unreserve = FALSE
    BY <1>2 DEF ItemToServer, MoneyTransfer, Operations
<1>4. OperationPossible(op, a, s)
    BY <1>1, <1>2, EachPossible
<1>5. CommitAsserts(op, a, s)
    BY <1>3, <1>4, PossibleIsCommittable
<1>6. n \in Slots /\ a.inventory[n].item = item
    BY <1>3, <1>4, LookupsAreSlots DEF OperationPossible, SlotsHolding
<1>7. PICK c : c = CommitEffect(op, a, s)
    OBVIOUS
<1>8. c = [a EXCEPT !.inventory[n] = [item |-> NoItem, reserved |-> FALSE], !.inventory_reservations[n] = NoServer]
    BY <1>3, <1>7 DEF CommitEffect
<1>9. SlotBecomes(a, c, n, NoItem, NoServer)
    BY <1>6, <1>8 DEF SlotBecomes, Account, Inventory_Slot
<1>10. /\ c.money = a.money /\ c.money_reservations = a.money_reservations
       /\ c.total_money_reserved = a.total_money_reserved
    BY <1>8 DEF Account
<1>11. c \in Account
    BY <1>3, <1>5, <1>7, EffectKeepsBooks
<1>12. CommitAsserts(pay, c, s)
  <2>1. c.money + x - c.total_money_reserved >= 0
    BY <1>10, SolventFacts
  <2>2. QED
    BY <1>3, <2>1 DEF CommitAsserts
<1>13. commit_transaction(t, a, s).ok /\ b = CommitEffect(pay, c, s)
    BY <1>2, <1>5, <1>7, <1>12, CommitOfTwo
<1>14. b = [c EXCEPT !.money = @ + x]
    BY <1>3, <1>13 DEF CommitEffect
<1>15. /\ b.inventory = c.inventory /\ b.inventory_reservations = c.inventory_reservations
       /\ b.money = a.money + x /\ b.money_reservations = a.money_reservations
    BY <1>10, <1>11, <1>14 DEF Account
<1>16. SlotBecomes(a, b, n, NoItem, NoServer) /\ MoneyBecomes(a, b, s, a.money + x, a.money_reservations[s])
    BY <1>9, <1>15 DEF SlotBecomes, MoneyBecomes
<1>17. QED
    BY <1>6, <1>13, <1>16 DEF SlotsHolding

\* The operations of the buyer's leg, one by one.
SameMoney(a, b) ==
    /\ b.money = a.money /\ b.money_reservations = a.money_reservations
    /\ b.total_money_reserved = a.total_money_reserved

SameSlots(a, b) == b.inventory = a.inventory /\ b.inventory_reservations = a.inventory_reservations

LEMMA SlotUnreserveEffect ==
    ASSUME NEW a \in Account, NEW s \in Servers, NEW n \in Slots, OperationPossible(SlotUnreserve(n), a, s),
           NEW b, b = CommitEffect(SlotUnreserve(n), a, s)
    PROVE  /\ CommitAsserts(SlotUnreserve(n), a, s)
           /\ b \in Account /\ SameMoney(a, b)
           /\ a.inventory_reservations[n] = s
           /\ ~b.inventory[n].reserved
           /\ SlotBecomes(a, b, n, a.inventory[n].item, NoServer)
<1>1. PICK op : op = SlotUnreserve(n)
    OBVIOUS
<1>2. op \in Operations /\ op.type = "SLOT_UNRESERVE" /\ op.slot = n
    BY <1>1 DEF SlotUnreserve, Operations
<1>3. CommitAsserts(op, a, s) /\ a.inventory_reservations[n] = s
    BY <1>1, <1>2 DEF OperationPossible, CommitAsserts
<1>4. b \in Account
    BY <1>1, <1>2, <1>3, EffectKeepsBooks
<1>5. b = [a EXCEPT !.inventory[n].reserved = FALSE, !.inventory_reservations[n] = NoServer]
    BY <1>1, <1>2 DEF CommitEffect
<1>6. SameMoney(a, b)
    BY <1>5 DEF SameMoney, Account
<1>7. ~b.inventory[n].reserved
    BY <1>5 DEF Account, Inventory_Slot
<1>8. SlotBecomes(a, b, n, a.inventory[n].item, NoServer)
    BY <1>5 DEF SlotBecomes, Account, Inventory_Slot
<1>9. QED
    BY <1>1, <1>3, <1>4, <1>6, <1>7, <1>8

LEMMA MoneyUnreserveEffect ==
    ASSUME NEW a \in Account, NEW s \in Servers, NEW x \in Amounts,
           a.money_reservations[s] >= x, a.total_money_reserved >= x,
           NEW b, b = CommitEffect(MoneyUnreserve(x), a, s)
    PROVE  /\ CommitAsserts(MoneyUnreserve(x), a, s)
           /\ b \in Account /\ SameSlots(a, b)
           /\ b.total_money_reserved = a.total_money_reserved - x
           /\ MoneyBecomes(a, b, s, a.money, a.money_reservations[s] - x)
<1>1. PICK op : op = MoneyUnreserve(x)
    OBVIOUS
<1>2. op \in Operations /\ op.type = "MONEY_UNRESERVE" /\ op.amount = x /\ x > 0 /\ x \in Nat
    BY <1>1 DEF MoneyUnreserve, Operations, Amounts
<1>3. a.money_reservations[s] \in Nat
    BY DEF Account
<1>4. CommitAsserts(op, a, s)
    BY <1>2, <1>3 DEF CommitAsserts, Unreservable
<1>5. b \in Account
    BY <1>1, <1>2, <1>4, EffectKeepsBooks
<1>6. b = unreserve_money(a, s, x)
    BY <1>1, <1>2 DEF CommitEffect
<1>7. /\ SameSlots(a, b)
      /\ b.total_money_reserved = a.total_money_reserved - x
      /\ MoneyBecomes(a, b, s, a.money, a.money_reservations[s] - x)
    BY <1>6 DEF unreserve_money, SameSlots, MoneyBecomes, Account
<1>8. QED
    BY <1>1, <1>4, <1>5, <1>7

LEMMA ItemToInventoryEffect ==
    ASSUME NEW a \in Account, NEW s \in Servers, NEW n \in Slots, NEW item \in Item,
           a.inventory[n].item = NoItem, ~a.inventory[n].reserved,
           NEW b, b = CommitEffect(ItemToInventory(item, n), a, s)
    PROVE  /\ CommitAsserts(ItemToInventory(item, n), a, s)
           /\ b \in Account /\ SameMoney(a, b)
           /\ SlotBecomes(a, b, n, item, a.inventory_reservations[n])
<1>1. PICK op : op = ItemToInventory(item, n)
    OBVIOUS
<1>2. /\ op \in Operations /\ op.type = "ITEM_TO_INVENTORY" /\ op.item = item /\ op.slot = n
      /\ HasTarget(op, a) /\ TargetSlot(op, a) = n
  <2>1. op \in Operations /\ op.type = "ITEM_TO_INVENTORY" /\ op.item = item /\ op.slot = n
    BY <1>1, NumSlotsAssumption DEF ItemToInventory, Operations, Slots
  <2>2. n > 0
    BY DEF Slots
  <2>3. QED
    BY <2>1, <2>2 DEF HasTarget, TargetSlot
<1>3. CommitAsserts(op, a, s)
    BY <1>2 DEF CommitAsserts, OpenTo
<1>4. b \in Account
    BY <1>1, <1>2, <1>3, EffectKeepsBooks
<1>5. b = [a EXCEPT !.inventory[n].item = item]
    BY <1>1, <1>2 DEF CommitEffect
<1>6. SameMoney(a, b)
    BY <1>5 DEF SameMoney, Account
<1>7. SlotBecomes(a, b, n, item, a.inventory_reservations[n])
    BY <1>5 DEF SlotBecomes, Account, Inventory_Slot
<1>8. QED
    BY <1>1, <1>3, <1>4, <1>6, <1>7

\* The price is paid from what was reserved.
LEMMA PaymentEffect ==
    ASSUME NEW a \in Account, NEW s \in Servers, NEW x \in Nat, a.money_reservations[s] >= x,
           a.total_money_reserved <= a.money,
           NEW b, b = CommitEffect(MoneyTransfer(-x, -x < 0), a, s)
    PROVE  /\ CommitAsserts(MoneyTransfer(-x, -x < 0), a, s)
           /\ SameSlots(a, b)
           /\ MoneyBecomes(a, b, s, a.money - x, a.money_reservations[s] - x)
<1>1. PICK op : op = MoneyTransfer(-x, -x < 0)
    OBVIOUS
<1>2. op.type = "MONEY_TRANSFER" /\ op.amount = -x /\ (op.do_unreserve <=> -x < 0)
    BY <1>1 DEF MoneyTransfer
<1>3. a.money_reservations[s] \in Nat /\ a.money \in Int /\ a.total_money_reserved \in Int
    BY DEF Account
<1>4. CASE x > 0
  <2>1. op.do_unreserve /\ op.amount < 0 /\ -op.amount = x
    BY <1>2, <1>4
  <2>2. PICK c : c = unreserve_money(a, s, x)
    OBVIOUS
  <2>3. /\ c.money = a.money /\ c.total_money_reserved = a.total_money_reserved - x
        /\ c.inventory = a.inventory /\ c.inventory_reservations = a.inventory_reservations
        /\ c.money_reservations[s] = a.money_reservations[s] - x
    BY <2>2 DEF unreserve_money, Account
  <2>4. CommitAsserts(op, a, s)
    <3>1. Unreservable(a, s, x)
      BY <1>3, <1>4 DEF Unreservable
    <3>2. c.money + (-x) - c.total_money_reserved >= 0
      BY <1>3, <2>3
    <3>3. QED
      BY <1>2, <2>1, <2>2, <3>1, <3>2 DEF CommitAsserts
  <2>5. b = [c EXCEPT !.money = @ + (-x)]
    BY <1>1, <1>2, <2>1, <2>2 DEF CommitEffect
  <2>6. /\ b.inventory = c.inventory /\ b.inventory_reservations = c.inventory_reservations
        /\ b.money_reservations = c.money_reservations /\ b.money = a.money - x
    BY <1>3, <2>2, <2>3, <2>5 DEF unreserve_money, Account
  <2>7. QED
    BY <1>1, <2>3, <2>4, <2>6 DEF SameSlots, MoneyBecomes
<1>5. CASE ~(x > 0)
  <2>1. ~op.do_unreserve /\ op.amount = 0 /\ x = 0
    BY <1>2, <1>5
  <2>2. CommitAsserts(op, a, s)
    BY <1>2, <1>3, <2>1 DEF CommitAsserts
  <2>3. b = [a EXCEPT !.money = @ + 0]
    BY <1>1, <1>2, <2>1 DEF CommitEffect
  <2>4. QED
    BY <1>1, <1>3, <2>1, <2>2, <2>3 DEF SameSlots, MoneyBecomes, Account
<1>6. QED
    BY <1>4, <1>5
\* The slot named, then the money, come out of the reservation; the item and the price change
\* hands (market_server.cpp:502-562).
LEMMA BuyerCommits ==
    ASSUME NEW a \in Account, Solvent(a), NEW s \in Servers, NEW item \in Item, NEW n \in Slots,
           NEW x \in Nat, NEW y \in Nat, x <= y, a.money_reservations[s] >= y,
           NEW t, t = IF y - x > 0
                      THEN <<SlotUnreserve(n), MoneyUnreserve(y - x), ItemToInventory(item, n), MoneyTransfer(-x, -x < 0)>>
                      ELSE <<SlotUnreserve(n), ItemToInventory(item, n), MoneyTransfer(-x, -x < 0)>>,
           transaction_possible(t, a, s), NEW b, b = commit_transaction(t, a, s).account
    PROVE  /\ commit_transaction(t, a, s).ok
           /\ a.inventory_reservations[n] = s /\ a.inventory[n].item = NoItem
           /\ SlotBecomes(a, b, n, item, NoServer)
           /\ MoneyBecomes(a, b, s, a.money - x, a.money_reservations[s] - y)
<1>0. PICK unreserve, insert, pay :
            /\ unreserve = SlotUnreserve(n) /\ insert = ItemToInventory(item, n)
            /\ pay = MoneyTransfer(-x, -x < 0)
    OBVIOUS
<1>1. a.money_reservations[s] \in Nat /\ a.total_money_reserved \in Int /\ a.money \in Int
      /\ a.total_money_reserved <= a.money /\ a.money_reservations[s] <= a.total_money_reserved
    BY SolventFacts
<1>2. t[1] = unreserve /\ 1 \in DOMAIN t
    BY <1>0
<1>3. OperationPossible(unreserve, a, s)
    BY <1>2, EachPossible
<1>4. \E i \in DOMAIN t : t[i] = insert
  <2>1. CASE y - x > 0
    <3>1. 3 \in DOMAIN t /\ t[3] = insert
      BY <1>0, <2>1
    <3>2. QED
      BY <3>1
  <2>2. CASE ~(y - x > 0)
    <3>1. 2 \in DOMAIN t /\ t[2] = insert
      BY <1>0, <2>2
    <3>2. QED
      BY <3>1
  <2>3. QED
    BY <2>1, <2>2
<1>5. OperationPossible(insert, a, s)
    BY <1>4, EachPossible
<1>6. a.inventory[n].item = NoItem
  <2>1. insert.type = "ITEM_TO_INVENTORY" /\ insert.slot = n /\ n > 0
    BY <1>0 DEF ItemToInventory, Slots
  <2>2. TargetSlot(insert, a) = n
    BY <2>1 DEF TargetSlot
  <2>3. QED
    BY <1>5, <2>1, <2>2 DEF OperationPossible
<1>7. PICK c : c = CommitEffect(unreserve, a, s)
    OBVIOUS
<1>8. /\ CommitAsserts(unreserve, a, s)
      /\ c \in Account /\ SameMoney(a, c)
      /\ a.inventory_reservations[n] = s
      /\ ~c.inventory[n].reserved
      /\ SlotBecomes(a, c, n, NoItem, NoServer)
    BY <1>0, <1>3, <1>6, <1>7, SlotUnreserveEffect
<1>9. /\ c.inventory[n].item = NoItem /\ c.inventory_reservations[n] = NoServer
      /\ c.money_reservations[s] = a.money_reservations[s]
      /\ c.money = a.money /\ c.total_money_reserved = a.total_money_reserved
    BY <1>8 DEF SlotBecomes, SameMoney
\* The last two operations, on an account d with the surplus z of the bid unreserved.
<1>10. ASSUME NEW d \in Account, SameSlots(c, d), NEW z \in Nat, y = x + z,
              MoneyBecomes(c, d, s, c.money, c.money_reservations[s] - z),
              d.total_money_reserved = c.total_money_reserved - z,
              NEW e, e = CommitEffect(insert, d, s), NEW g, g = CommitEffect(pay, e, s)
       PROVE  /\ CommitAsserts(insert, d, s) /\ CommitAsserts(pay, e, s)
              /\ SlotBecomes(a, g, n, item, NoServer)
              /\ MoneyBecomes(a, g, s, a.money - x, a.money_reservations[s] - y)
  <2>1. d.inventory[n].item = NoItem /\ ~d.inventory[n].reserved /\ d.inventory_reservations[n] = NoServer
    BY <1>8, <1>9, <1>10 DEF SameSlots
  <2>2. /\ CommitAsserts(insert, d, s)
        /\ e \in Account /\ SameMoney(d, e)
        /\ SlotBecomes(d, e, n, item, NoServer)
    BY <1>0, <1>10, <2>1, ItemToInventoryEffect
  <2>3. /\ e.money_reservations[s] = a.money_reservations[s] - z
        /\ e.money = a.money /\ e.total_money_reserved = a.total_money_reserved - z
    BY <1>9, <1>10, <2>2 DEF SameMoney, MoneyBecomes
  <2>4. e.money_reservations[s] >= x /\ e.total_money_reserved <= e.money
    BY <1>1, <1>10, <2>3
  <2>5. /\ CommitAsserts(pay, e, s)
        /\ SameSlots(e, g)
        /\ MoneyBecomes(e, g, s, e.money - x, e.money_reservations[s] - x)
    BY <1>0, <1>10, <2>2, <2>4, PaymentEffect
  <2>6. SlotBecomes(a, g, n, item, NoServer)
    BY <1>8, <1>10, <2>2, <2>5 DEF SlotBecomes, SameSlots
  <2>7. g.money = a.money - x
    BY <2>3, <2>5 DEF MoneyBecomes
  <2>8. g.money_reservations[s] = a.money_reservations[s] - y
    BY <1>1, <1>10, <2>3, <2>5 DEF MoneyBecomes
  <2>9. QED
    BY <2>2, <2>5, <2>6, <2>7, <2>8 DEF MoneyBecomes
<1>11. CASE y - x > 0
  <2>1. y - x \in Amounts /\ y = x + (y - x) /\ y - x \in Nat
    BY <1>11 DEF Amounts
  <2>2. PICK release, d : release = MoneyUnreserve(y - x) /\ d = CommitEffect(release, c, s)
    OBVIOUS
  <2>3. c.money_reservations[s] >= y - x /\ c.total_money_reserved >= y - x
    BY <1>1, <1>9
  <2>4. /\ CommitAsserts(release, c, s)
        /\ d \in Account /\ SameSlots(c, d)
        /\ d.total_money_reserved = c.total_money_reserved - (y - x)
        /\ MoneyBecomes(c, d, s, c.money, c.money_reservations[s] - (y - x))
    BY <1>8, <2>1, <2>2, <2>3, MoneyUnreserveEffect
  <2>5. PICK e, g : e = CommitEffect(insert, d, s) /\ g = CommitEffect(pay, e, s)
    OBVIOUS
  <2>6. /\ CommitAsserts(insert, d, s) /\ CommitAsserts(pay, e, s)
        /\ SlotBecomes(a, g, n, item, NoServer)
        /\ MoneyBecomes(a, g, s, a.money - x, a.money_reservations[s] - y)
    BY <1>10, <2>1, <2>4, <2>5
  <2>7. t = <<unreserve, release, insert, pay>>
    BY <1>0, <1>11, <2>2
  <2>8. commit_transaction(t, a, s).ok /\ b = g
    BY <1>7, <1>8, <2>2, <2>4, <2>5, <2>6, <2>7, CommitOfFour
  <2>9. QED
    BY <1>6, <1>8, <2>6, <2>8
<1>12. CASE ~(y - x > 0)
  <2>1. y = x + 0 /\ 0 \in Nat
    BY <1>12
  <2>2. /\ SameSlots(c, c) /\ MoneyBecomes(c, c, s, c.money, c.money_reservations[s] - 0)
        /\ c.total_money_reserved = c.total_money_reserved - 0
    BY <1>1, <1>9 DEF SameSlots, MoneyBecomes
  <2>3. PICK e, g : e = CommitEffect(insert, c, s) /\ g = CommitEffect(pay, e, s)
    OBVIOUS
  <2>4. /\ CommitAsserts(insert, c, s) /\ CommitAsserts(pay, e, s)
        /\ SlotBecomes(a, g, n, item, NoServer)
        /\ MoneyBecomes(a, g, s, a.money - x, a.money_reservations[s] - y)
    BY <1>8, <1>10, <2>1, <2>2, <2>3
  <2>5. t = <<unreserve, insert, pay>>
    BY <1>0, <1>12
  <2>6. commit_transaction(t, a, s).ok /\ b = g
    BY <1>7, <1>8, <2>3, <2>4, <2>5, CommitOfThree
  <2>7. QED
    BY <1>6, <1>8, <2>4, <2>6
<1>13. QED
    BY <1>11, <1>12
=============================================================================
