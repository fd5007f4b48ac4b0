-------------------------- MODULE Allocation_proofs --------------------------
(***************************************************************************)
(* Proofs about Allocation, for any hosts, disks, needs and orders: no     *)
(* policy takes more of a host or of a disk than was free.                 *)
(***************************************************************************)
EXTENDS Allocation, FiniteSetTheorems, SequenceTheorems, WellFoundedInduction, TLAPS

-----------------------------------------------------------------------------
(* The first element of a sequence in a set *)

LEMMA LeastNumber ==
  ASSUME NEW S \in SUBSET Nat, S # {}
  PROVE  \E m \in S : \A k \in S : m <= k
<1> DEFINE Up == {0..k : k \in S}
<1>1. Up \subseteq FiniteSubsetsOf(Nat) /\ Up # {}
  <2>1. \A k \in S : 0..k \in SUBSET Nat /\ IsFiniteSet(0..k)
    BY FS_Interval
  <2> QED
    BY <2>1 DEF FiniteSubsetsOf
<1>2. PICK x \in Up : \A y \in Up : <<y, x>> \notin StrictSubsetOrdering(Nat)
  BY <1>1, WFMin, FS_StrictSubsetOrderingWellFounded
<1>3. PICK m \in S : x = 0..m
  BY <1>2
<1>4. ASSUME NEW k \in S, k < m PROVE FALSE
  <2>1. 0..k \subseteq 0..m /\ m \in 0..m /\ m \notin 0..k
    BY <1>4
  <2>2. <<0..k, 0..m>> \in StrictSubsetOrdering(Nat)
    BY <2>1 DEF StrictSubsetOrdering
  <2> QED
    BY <2>2, <1>2, <1>3
<1> QED
  BY <1>4

LEMMA FirstIsIn ==
  ASSUME NEW T, NEW s \in Seq(T), NEW S, S \cap ToSet(s) # {}
  PROVE  First(s, S) \in S /\ First(s, S) \in ToSet(s)
<1> DEFINE In == {i \in DOMAIN s : s[i] \in S}
<1>1. In \in SUBSET Nat /\ In # {}
  BY DEF ToSet
<1>2. PICK i \in In : \A j \in In : i <= j
  BY <1>1, LeastNumber
<1>3. \A j \in 1..(i - 1) : s[j] \notin S
  BY <1>2, <1>1
<1>4. \E j \in DOMAIN s : s[j] \in S /\ \A k \in 1..(j - 1) : s[k] \notin S
  BY <1>2, <1>3
<1> QED
  BY <1>4 DEF First, ToSet

LEMMA TypesAre == Type = {"bigger", "regular", "smaller", "rm-nn"}
BY DEF Type, TypeOrder, ToSet

LEMMA FirstTypeIsIn ==
  ASSUME NEW S \in SUBSET Type, S # {}
  PROVE  FirstType(S) \in S
<1>1. TypeOrder \in Seq(Type)
  BY TypesAre DEF TypeOrder
<1>2. S \cap ToSet(TypeOrder) # {}
  BY DEF Type
<1> QED
  BY <1>1, <1>2, FirstIsIn DEF FirstType

-----------------------------------------------------------------------------
(* Sums over finite sets *)

\* The sum of f over S, and what it is computed with.
Total(f, S) == MapThenSumSet(LAMBDA x : f[x], S)

AnyOf(s) == CHOOSE x \in s : TRUE

Sums(g, f, S) ==
  g = [s \in SUBSET S |-> IF s = {} THEN 0 ELSE f[AnyOf(s)] + g[s \ {AnyOf(s)}]]

LEMMA AnyIsIn == ASSUME NEW s, s # {} PROVE AnyOf(s) \in s
BY DEF AnyOf

\* A family of subsets of a finite set has a least one.
LEMMA LeastSet ==
  ASSUME NEW S, IsFiniteSet(S), NEW Bad \in SUBSET SUBSET S, Bad # {}
  PROVE  \E m \in Bad : \A k \in SUBSET m : k # m => k \notin Bad
<1>1. Bad \subseteq FiniteSubsetsOf(S)
  <2>1. \A k \in Bad : k \in SUBSET S /\ IsFiniteSet(k)
    BY FS_Subset
  <2> QED
    BY <2>1 DEF FiniteSubsetsOf
<1>2. PICK m \in Bad : \A k \in Bad : <<k, m>> \notin StrictSubsetOrdering(S)
  BY <1>1, WFMin, FS_StrictSubsetOrderingWellFounded
<1>3. ASSUME NEW k \in SUBSET m, k # m, k \in Bad PROVE FALSE
  BY <1>2, <1>3 DEF StrictSubsetOrdering
<1> QED
  BY <1>3

LEMMA SumsStep ==
  ASSUME NEW S, NEW f, NEW g, Sums(g, f, S), NEW s \in SUBSET S
  PROVE  g[s] = IF s = {} THEN 0 ELSE f[AnyOf(s)] + g[s \ {AnyOf(s)}]
BY DEF Sums

LEMMA SumsUnique ==
  ASSUME NEW S, IsFiniteSet(S), NEW f, NEW g, Sums(g, f, S),
         NEW T \in SUBSET S, NEW h, Sums(h, f, T)
  PROVE  \A s \in SUBSET T : g[s] = h[s]
<1> DEFINE Bad == {s \in SUBSET T : g[s] # h[s]}
<1> SUFFICES ASSUME Bad # {} PROVE FALSE
  OBVIOUS
<1>0. Bad \in SUBSET SUBSET T /\ Bad # {}
  OBVIOUS
<1>1. IsFiniteSet(T)
  BY FS_Subset
<1>2. PICK s \in Bad : \A k \in SUBSET s : k # s => k \notin Bad
  <2> HIDE DEF Bad
  <2> QED
    BY <1>0, <1>1, LeastSet
<1>3. /\ g[s] = IF s = {} THEN 0 ELSE f[AnyOf(s)] + g[s \ {AnyOf(s)}]
      /\ h[s] = IF s = {} THEN 0 ELSE f[AnyOf(s)] + h[s \ {AnyOf(s)}]
  BY SumsStep
<1>4. s # {}
  BY <1>3
<1>5. g[s \ {AnyOf(s)}] = h[s \ {AnyOf(s)}]
  BY <1>2, <1>4, AnyIsIn
<1> QED
  BY <1>3, <1>4, <1>5

LEMMA SumsExist ==
  ASSUME NEW S, IsFiniteSet(S), NEW f
  PROVE  \E g : Sums(g, f, S)
<1> DEFINE Bad == {T \in SUBSET S : ~ \E g : Sums(g, f, T)}
<1> SUFFICES ASSUME Bad # {} PROVE FALSE
  OBVIOUS
<1>0. Bad \in SUBSET SUBSET S /\ Bad # {}
  OBVIOUS
<1>1. PICK T \in Bad : \A k \in SUBSET T : k # T => k \notin Bad
  <2> HIDE DEF Bad
  <2> QED
    BY <1>0, LeastSet
<1>2. T \in SUBSET S /\ ~ \E g : Sums(g, f, T)
  OBVIOUS
<1> DEFINE G(u)  == CHOOSE g : Sums(g, f, u)
           rest(s) == s \ {AnyOf(s)}
           all == [s \in SUBSET T |-> IF s = {} THEN 0 ELSE f[AnyOf(s)] + G(rest(s))[rest(s)]]
<1>3. ASSUME NEW u \in SUBSET T, u # T PROVE Sums(G(u), f, u)
  BY <1>1, <1>2, <1>3
<1> HIDE DEF Bad, G
<1>4. ASSUME NEW s \in SUBSET T, s # {} PROVE all[rest(s)] = G(rest(s))[rest(s)]
  <2>1. PICK u \in SUBSET T : u = rest(s) /\ u # T /\ IsFiniteSet(u)
    <3>1. AnyOf(s) \in s /\ rest(s) \in SUBSET T /\ rest(s) # T
      BY <1>4, AnyIsIn
    <3>2. IsFiniteSet(rest(s))
      BY <1>2, <3>1, FS_Subset
    <3> QED
      BY <3>1, <3>2
  <2>2. PICK g : g = G(u) /\ Sums(g, f, u)
    BY <1>3, <2>1
  <2>3. CASE u = {}
    <3>1. g[u] = 0 /\ all[u] = 0
      BY <2>2, <2>3, SumsStep
    <3> QED
      BY <2>1, <2>2, <3>1
  <2>4. CASE u # {}
    <3>1. PICK v \in SUBSET u : v = rest(u)
      OBVIOUS
    <3>2. g[u] = f[AnyOf(u)] + g[v]
      BY <2>2, <2>4, <3>1, SumsStep
    <3>3. PICK k : k = G(v) /\ Sums(k, f, v)
      BY <1>3, <2>1, <3>1
    <3>4. v \in SUBSET v
      OBVIOUS
    <3>5. g[v] = k[v]
      BY <2>1, <2>2, <3>3, <3>4, SumsUnique
    <3>6. all[u] = f[AnyOf(u)] + k[v]
      BY <2>1, <2>4, <3>1, <3>3
    <3> QED
      BY <2>1, <2>2, <3>2, <3>5, <3>6
  <2> QED
    BY <2>3, <2>4
<1>5. Sums(all, f, T)
  <2>1. \A s \in SUBSET T : all[s] = IF s = {} THEN 0 ELSE f[AnyOf(s)] + all[s \ {AnyOf(s)}]
    BY <1>4
  <2>2. all = [s \in SUBSET T |-> all[s]]
    OBVIOUS
  <2> HIDE DEF all
  <2> QED
    BY <2>1, <2>2 DEF Sums
<1> QED
  BY <1>2, <1>5

\* The sum is computed with any function that follows the recursion.
LEMMA TotalIs ==
  ASSUME NEW S, IsFiniteSet(S), NEW f, NEW g, Sums(g, f, S), NEW T \in SUBSET S
  PROVE  Total(f, T) = g[T]
<1> DEFINE h == CHOOSE k : Sums(k, f, T)
<1>1. IsFiniteSet(T)
  BY FS_Subset
<1>2. Sums(h, f, T)
  BY <1>1, SumsExist
<1>3. Total(f, T) = h[T]
  BY DEF Total, MapThenSumSet, MapThenFoldSet, AnyOf, Sums
<1> HIDE DEF h
<1> QED
  BY <1>2, <1>3, SumsUnique

LEMMA TotalStep ==
  ASSUME NEW S, IsFiniteSet(S), NEW f
  PROVE  Total(f, S) = IF S = {} THEN 0 ELSE f[AnyOf(S)] + Total(f, S \ {AnyOf(S)})
<1>1. PICK g : Sums(g, f, S)
  BY SumsExist
<1>2. Total(f, S) = g[S] /\ Total(f, S \ {AnyOf(S)}) = g[S \ {AnyOf(S)}]
  BY <1>1, TotalIs
<1>3. g[S] = IF S = {} THEN 0 ELSE f[AnyOf(S)] + g[S \ {AnyOf(S)}]
  BY <1>1, SumsStep
<1> QED
  BY <1>2, <1>3

LEMMA TotalInt ==
  ASSUME NEW S, IsFiniteSet(S), NEW f, \A x \in S : f[x] \in Int
  PROVE  Total(f, S) \in Int
<1> DEFINE Bad == {T \in SUBSET S : Total(f, T) \notin Int}
<1> SUFFICES ASSUME Bad # {} PROVE FALSE
  OBVIOUS
<1>0. Bad \in SUBSET SUBSET S /\ Bad # {}
  OBVIOUS
<1>1. PICK T \in Bad : \A k \in SUBSET T : k # T => k \notin Bad
  <2> HIDE DEF Bad
  <2> QED
    BY <1>0, LeastSet
<1>2. IsFiniteSet(T) /\ T \in SUBSET S
  BY FS_Subset
<1>3. Total(f, T) = IF T = {} THEN 0 ELSE f[AnyOf(T)] + Total(f, T \ {AnyOf(T)})
  BY <1>2, TotalStep
<1>4. CASE T = {}
  BY <1>3, <1>4
<1>5. CASE T # {}
  <2>1. AnyOf(T) \in T /\ Total(f, T \ {AnyOf(T)}) \in Int
    BY <1>1, <1>2, <1>5, AnyIsIn
  <2> QED
    BY <1>2, <1>3, <1>5, <2>1
<1> QED
  BY <1>4, <1>5

\* Any element may be taken out first.
LEMMA TotalAdd ==
  ASSUME NEW S, IsFiniteSet(S), NEW f, \A x \in S : f[x] \in Int, NEW a \in S
  PROVE  Total(f, S) = f[a] + Total(f, S \ {a})
<1> DEFINE Bad == {T \in SUBSET S : \E x \in T : Total(f, T) # f[x] + Total(f, T \ {x})}
<1> SUFFICES ASSUME Bad # {} PROVE FALSE
  OBVIOUS
<1>0. Bad \in SUBSET SUBSET S /\ Bad # {}
  OBVIOUS
<1>1. PICK T \in Bad : \A k \in SUBSET T : k # T => k \notin Bad
  <2> HIDE DEF Bad
  <2> QED
    BY <1>0, LeastSet
<1>2. IsFiniteSet(T) /\ T \in SUBSET S
  BY FS_Subset
<1>3. PICK x \in T : Total(f, T) # f[x] + Total(f, T \ {x})
  OBVIOUS
<1> DEFINE y == AnyOf(T)
<1>4. y \in T /\ Total(f, T) = f[y] + Total(f, T \ {y})
  BY <1>2, TotalStep, AnyIsIn
<1>5. x # y
  BY <1>3, <1>4
<1>6. \A k \in SUBSET T : k # T => \A z \in k : Total(f, k) = f[z] + Total(f, k \ {z})
  BY <1>1, <1>2
<1> HIDE DEF y, Bad
<1>7. PICK R : R = (T \ {y}) \ {x} /\ R = (T \ {x}) \ {y}
  OBVIOUS
<1>8. T \ {y} \in SUBSET T /\ T \ {y} # T /\ T \ {x} \in SUBSET T /\ T \ {x} # T
  BY <1>4
<1>9. Total(f, T \ {y}) = f[x] + Total(f, R)
  BY <1>5, <1>6, <1>7, <1>8
<1>10. Total(f, T \ {x}) = f[y] + Total(f, R)
  BY <1>4, <1>5, <1>6, <1>7, <1>8
<1>11. f[x] \in Int /\ f[y] \in Int /\ Total(f, R) \in Int
  <2>1. IsFiniteSet(R)
    BY <1>2, <1>7, FS_Subset
  <2> QED
    BY <2>1, <1>2, <1>4, <1>7, TotalInt
<1>12. Total(f, T) # f[x] + Total(f, T \ {x})
  BY <1>3
<1> QED
  BY <1>4, <1>9, <1>10, <1>11, <1>12

LEMMA TotalSame ==
  ASSUME NEW S, IsFiniteSet(S), NEW f, NEW g, \A x \in S : f[x] = g[x]
  PROVE  Total(f, S) = Total(g, S)
<1> DEFINE Bad == {T \in SUBSET S : Total(f, T) # Total(g, T)}
<1> SUFFICES ASSUME Bad # {} PROVE FALSE
  OBVIOUS
<1>0. Bad \in SUBSET SUBSET S /\ Bad # {}
  OBVIOUS
<1>1. PICK T \in Bad : \A k \in SUBSET T : k # T => k \notin Bad
  <2> HIDE DEF Bad
  <2> QED
    BY <1>0, LeastSet
<1>2. IsFiniteSet(T) /\ T \in SUBSET S
  BY FS_Subset
<1>3. /\ Total(f, T) = IF T = {} THEN 0 ELSE f[AnyOf(T)] + Total(f, T \ {AnyOf(T)})
      /\ Total(g, T) = IF T = {} THEN 0 ELSE g[AnyOf(T)] + Total(g, T \ {AnyOf(T)})
  BY <1>2, TotalStep
<1>4. T # {}
  BY <1>3
<1>5. AnyOf(T) \in T /\ Total(f, T \ {AnyOf(T)}) = Total(g, T \ {AnyOf(T)})
  BY <1>1, <1>2, <1>4, AnyIsIn
<1> QED
  BY <1>2, <1>3, <1>5

LEMMA TotalNat ==
  ASSUME NEW S, IsFiniteSet(S), NEW f, \A x \in S : f[x] \in Nat
  PROVE  Total(f, S) \in Nat
<1> DEFINE Bad == {T \in SUBSET S : Total(f, T) \notin Nat}
<1> SUFFICES ASSUME Bad # {} PROVE FALSE
  OBVIOUS
<1>0. Bad \in SUBSET SUBSET S /\ Bad # {}
  OBVIOUS
<1>1. PICK T \in Bad : \A k \in SUBSET T : k # T => k \notin Bad
  <2> HIDE DEF Bad
  <2> QED
    BY <1>0, LeastSet
<1>2. IsFiniteSet(T) /\ T \in SUBSET S
  BY FS_Subset
<1>3. Total(f, T) = IF T = {} THEN 0 ELSE f[AnyOf(T)] + Total(f, T \ {AnyOf(T)})
  BY <1>2, TotalStep
<1>4. CASE T = {}
  BY <1>3, <1>4
<1>5. CASE T # {}
  <2>1. AnyOf(T) \in T /\ Total(f, T \ {AnyOf(T)}) \in Nat
    BY <1>1, <1>2, <1>5, AnyIsIn
  <2> QED
    BY <1>2, <1>3, <1>5, <2>1
<1> QED
  BY <1>4, <1>5

LEMMA TotalZero ==
  ASSUME NEW S, IsFiniteSet(S), NEW f, \A x \in S : f[x] = 0
  PROVE  Total(f, S) = 0
<1> DEFINE Bad == {T \in SUBSET S : Total(f, T) # 0}
<1> SUFFICES ASSUME Bad # {} PROVE FALSE
  OBVIOUS
<1>0. Bad \in SUBSET SUBSET S /\ Bad # {}
  OBVIOUS
<1>1. PICK T \in Bad : \A k \in SUBSET T : k # T => k \notin Bad
  <2> HIDE DEF Bad
  <2> QED
    BY <1>0, LeastSet
<1>2. IsFiniteSet(T) /\ T \in SUBSET S
  BY FS_Subset
<1>3. Total(f, T) = IF T = {} THEN 0 ELSE f[AnyOf(T)] + Total(f, T \ {AnyOf(T)})
  BY <1>2, TotalStep
<1>4. T # {}
  BY <1>3
<1>5. AnyOf(T) \in T /\ Total(f, T \ {AnyOf(T)}) = 0
  BY <1>1, <1>2, <1>4, AnyIsIn
<1> QED
  BY <1>2, <1>3, <1>4, <1>5

\* One term one more, the sum one more.
LEMMA TotalOneMore ==
  ASSUME NEW S, IsFiniteSet(S), NEW f, \A x \in S : f[x] \in Int, NEW a \in S,
         NEW g, \A x \in S : g[x] = IF x = a THEN f[x] + 1 ELSE f[x]
  PROVE  Total(g, S) = Total(f, S) + 1
<1>1. IsFiniteSet(S \ {a})
  BY FS_Subset
<1>2. \A x \in S : g[x] \in Int
  OBVIOUS
<1>3. Total(f, S) = f[a] + Total(f, S \ {a})
  BY TotalAdd
<1>4. Total(g, S) = g[a] + Total(g, S \ {a})
  BY <1>2, TotalAdd
<1>5. Total(g, S \ {a}) = Total(f, S \ {a})
  BY <1>1, TotalSame
<1>6. Total(f, S \ {a}) \in Int
  BY <1>1, TotalInt
<1> QED
  BY <1>3, <1>4, <1>5, <1>6

-----------------------------------------------------------------------------
(* The invariant: what is free is what was free less what was placed *)

\* The resources that the policy checks and subtracts.
Booked == Subtracted

Books ==
  /\ \A h \in Host, r \in Booked :
       free[h][r] >= 0 /\ free[h][r] + Committed(h, r) = supply.host[h][r]
  /\ \A h \in Host, d \in Disk : diskFree[h][d] \in 0..maxOf["disk"]

IInv == TypeOK /\ Books

LEMMA BookedAre == Booked \subseteq Resource /\ \A h \in Host, t \in Type, r \in Booked :
                     Has(h, t) => free[h][r] >= need[t][r]
BY DEF Booked, Subtracted, Resource, Has

\* One more container of type t is one more need of it.
LEMMA OneMore ==
  ASSUME NEW p \in Nat, NEW n \in Nat
  PROVE  (p + 1) * n = p * n + n /\ p * n \in Nat
BY SMT

LEMMA SumOfFour ==
  ASSUME NEW a \in Nat, NEW b \in Nat, NEW c \in Nat, NEW d \in Nat, NEW n \in Nat
  PROVE  /\ a + b + c + d \in Nat
         /\ (a + n) + b + c + d = a + b + c + d + n
         /\ a + (b + n) + c + d = a + b + c + d + n
         /\ a + b + (c + n) + d = a + b + c + d + n
         /\ a + b + c + (d + n) = a + b + c + d + n
OBVIOUS

\* Placing a container that fits keeps the books.
LEMMA PlaceKeeps ==
  ASSUME IInv, NEW h \in Host, NEW t \in Type, NEW disk,
         left[t] > 0, Has(h, t), UsesDisk(t) => disk \in DisksFor(h, t),
         Place(h, t, disk), UNCHANGED <<input, phase>>, queue' \in Seq(Host)
  PROVE  IInv'
<1> USE NeedAssumption DEF IInv, input
<1>1. TypeOK'
  <2>1. \A r \in Resource : need[t][r] \in Nat /\ free[h][r] \in Int
    BY DEF TypeOK
  <2>2. [r \in Resource |-> IF r \in Subtracted THEN free[h][r] - need[t][r] ELSE free[h][r]]
          \in [Resource -> Int]
    BY <2>1
  <2>3. free' \in [Host -> [Resource -> Int]]
    BY <2>2 DEF TypeOK, Place
  <2>4. diskFree' \in [Host -> [Disk -> Int]]
    <3>1. CASE ~UsesDisk(t)
      BY <3>1 DEF TypeOK, Place
    <3>2. CASE UsesDisk(t)
      <4>1. disk \in Disk /\ need[t]["disk"] \in Nat
        BY <3>2 DEF DisksFor
      <4>2. diskFree[h][disk] - need[t]["disk"] \in Int
        BY <4>1 DEF TypeOK
      <4> QED
        BY <3>2, <4>1, <4>2 DEF TypeOK, Place
    <3> QED
      BY <3>1, <3>2
  <2>4a. onDisk' \in [Host -> [Disk -> Nat]]
    <3>1. CASE ~UsesDisk(t)
      BY <3>1 DEF TypeOK, Place
    <3>2. CASE UsesDisk(t)
      <4>1. disk \in Disk /\ onDisk[h][disk] + 1 \in Nat
        BY <3>2 DEF DisksFor, TypeOK
      <4> QED
        BY <3>2, <4>1 DEF TypeOK, Place
    <3> QED
      BY <3>1, <3>2
  <2>5. left' \in [Type -> Nat]
    <3>1. left[t] - 1 \in Nat
      BY DEF TypeOK
    <3> QED
      BY <3>1 DEF TypeOK, Place
  <2>6. placed' \in [Host -> [Type -> Nat]]
    <3>1. placed[h][t] + 1 \in Nat
      BY DEF TypeOK
    <3> QED
      BY <3>1 DEF TypeOK, Place
  <2> QED
    BY <2>3, <2>4, <2>4a, <2>5, <2>6 DEF TypeOK
<1>2. ASSUME NEW g \in Host, NEW r \in Booked
      PROVE  free'[g][r] >= 0 /\ free'[g][r] + Committed(g, r)' = supply.host[g][r]
  <2>1. r \in Resource /\ free[h][r] >= need[t][r]
    BY BookedAre
  <2>2. /\ free'[g][r] = IF g = h THEN free[g][r] - need[t][r] ELSE free[g][r]
        /\ \A u \in Type : placed'[g][u] = IF g = h /\ u = t THEN placed[g][u] + 1 ELSE placed[g][u]
    BY <2>1 DEF Place, TypeOK, Booked
  <2>3. \A u \in Type : /\ placed[g][u] \in Nat /\ need[u][r] \in Nat
                        /\ placed[g][u] * need[u][r] \in Nat
                        /\ (placed[g][u] + 1) * need[u][r] = placed[g][u] * need[u][r] + need[u][r]
    <3>1. \A u \in Type : placed[g][u] \in Nat /\ need[u][r] \in Nat
      BY <2>1 DEF TypeOK
    <3> QED
      BY <3>1, OneMore
  <2>4. /\ Committed(g, r) \in Nat
        /\ Committed(g, r)' = IF g = h THEN Committed(g, r) + need[t][r] ELSE Committed(g, r)
    <3> DEFINE Of(u)  == placed[g][u] * need[u][r]
               Of2(u) == placed'[g][u] * need[u][r]
               Sum    == Of("bigger") + Of("regular") + Of("smaller") + Of("rm-nn")
    <3>1. \A u \in Type : Of(u) \in Nat /\ need[u][r] \in Nat
      BY <2>3
    <3>2. \A u \in Type : Of2(u) = IF g = h /\ u = t THEN Of(u) + need[u][r] ELSE Of(u)
      BY <2>2, <2>3
    <3>3. /\ Committed(g, r) = Sum
          /\ Committed(g, r)' = Of2("bigger") + Of2("regular") + Of2("smaller") + Of2("rm-nn")
      BY DEF Committed
    <3> HIDE DEF Of, Of2, IInv
    <3>4. Of("bigger") \in Nat /\ Of("regular") \in Nat /\ Of("smaller") \in Nat /\ Of("rm-nn") \in Nat
      BY <3>1, TypesAre
    <3>5. need[t][r] \in Nat
      BY <3>1
    <3>a. PICK a \in Nat, b \in Nat, c \in Nat, d \in Nat, n \in Nat :
            /\ a = Of("bigger") /\ b = Of("regular") /\ c = Of("smaller") /\ d = Of("rm-nn")
            /\ n = need[t][r]
      BY <3>4, <3>5, Zenon
    <3>6. CASE g # h
      <4>1. /\ Of2("bigger") = Of("bigger") /\ Of2("regular") = Of("regular")
            /\ Of2("smaller") = Of("smaller") /\ Of2("rm-nn") = Of("rm-nn")
        BY <3>6, <3>2, TypesAre
      <4> QED
        BY <3>6, <4>1, <3>3, <3>4
    <3>7. CASE g = h
      <4>1. \A u \in Type : Of2(u) = IF u = t THEN Of(u) + need[t][r] ELSE Of(u)
        BY <3>7, <3>2
      <4>2. CASE t = "bigger"
        <5>1. /\ Of2("bigger") = Of("bigger") + need[t][r]
              /\ Of2("regular") = Of("regular") /\ Of2("smaller") = Of("smaller") /\ Of2("rm-nn") = Of("rm-nn")
          BY <4>1, <4>2, TypesAre
        <5>2. /\ Committed(g, r) = a + b + c + d
              /\ Committed(g, r)' = (a + n) + b + c + d
          BY <3>3, <3>a, <5>1, Zenon
        <5>3. /\ a + b + c + d \in Nat /\ (a + n) + b + c + d = a + b + c + d + n
              /\ a + (b + n) + c + d = a + b + c + d + n
              /\ a + b + (c + n) + d = a + b + c + d + n
              /\ a + b + c + (d + n) = a + b + c + d + n
          BY SumOfFour
        <5>4. Committed(g, r)' = a + b + c + d + n
          BY <5>2, <5>3, Zenon
        <5> QED
          BY <3>7, <3>a, <5>2, <5>3, <5>4, Zenon
      <4>3. CASE t = "regular"
        <5>1. /\ Of2("regular") = Of("regular") + need[t][r]
              /\ Of2("bigger") = Of("bigger") /\ Of2("smaller") = Of("smaller") /\ Of2("rm-nn") = Of("rm-nn")
          BY <4>1, <4>3, TypesAre
        <5>2. /\ Committed(g, r) = a + b + c + d
              /\ Committed(g, r)' = a + (b + n) + c + d
          BY <3>3, <3>a, <5>1, Zenon
        <5>3. /\ a + b + c + d \in Nat /\ (a + n) + b + c + d = a + b + c + d + n
              /\ a + (b + n) + c + d = a + b + c + d + n
              /\ a + b + (c + n) + d = a + b + c + d + n
              /\ a + b + c + (d + n) = a + b + c + d + n
          BY SumOfFour
        <5>4. Committed(g, r)' = a + b + c + d + n
          BY <5>2, <5>3, Zenon
        <5> QED
          BY <3>7, <3>a, <5>2, <5>3, <5>4, Zenon
      <4>4. CASE t = "smaller"
        <5>1. /\ Of2("smaller") = Of("smaller") + need[t][r]
              /\ Of2("bigger") = Of("bigger") /\ Of2("regular") = Of("regular") /\ Of2("rm-nn") = Of("rm-nn")
          BY <4>1, <4>4, TypesAre
        <5>2. /\ Committed(g, r) = a + b + c + d
              /\ Committed(g, r)' = a + b + (c + n) + d
          BY <3>3, <3>a, <5>1, Zenon
        <5>3. /\ a + b + c + d \in Nat /\ (a + n) + b + c + d = a + b + c + d + n
              /\ a + (b + n) + c + d = a + b + c + d + n
              /\ a + b + (c + n) + d = a + b + c + d + n
              /\ a + b + c + (d + n) = a + b + c + d + n
          BY SumOfFour
        <5>4. Committed(g, r)' = a + b + c + d + n
          BY <5>2, <5>3, Zenon
        <5> QED
          BY <3>7, <3>a, <5>2, <5>3, <5>4, Zenon
      <4>5. CASE t = "rm-nn"
        <5>1. /\ Of2("rm-nn") = Of("rm-nn") + need[t][r]
              /\ Of2("bigger") = Of("bigger") /\ Of2("regular") = Of("regular") /\ Of2("smaller") = Of("smaller")
          BY <4>1, <4>5, TypesAre
        <5>2. /\ Committed(g, r) = a + b + c + d
              /\ Committed(g, r)' = a + b + c + (d + n)
          BY <3>3, <3>a, <5>1, Zenon
        <5>3. /\ a + b + c + d \in Nat /\ (a + n) + b + c + d = a + b + c + d + n
              /\ a + (b + n) + c + d = a + b + c + d + n
              /\ a + b + (c + n) + d = a + b + c + d + n
              /\ a + b + c + (d + n) = a + b + c + d + n
          BY SumOfFour
        <5>4. Committed(g, r)' = a + b + c + d + n
          BY <5>2, <5>3, Zenon
        <5> QED
          BY <3>7, <3>a, <5>2, <5>3, <5>4, Zenon
      <4> QED
        BY <4>2, <4>3, <4>4, <4>5, TypesAre
    <3> QED
      BY <3>6, <3>7, <3>3, <3>4
  <2>5. free[g][r] \in Int
    BY <2>1 DEF TypeOK
  <2>6. free[g][r] >= 0 /\ free[g][r] + Committed(g, r) = supply.host[g][r] /\ need[t][r] \in Nat
    BY <2>3 DEF Books
  <2> QED
    BY <2>1, <2>2, <2>4, <2>5, <2>6
<1>3. ASSUME NEW g \in Host, NEW d \in Disk PROVE diskFree'[g][d] \in 0..maxOf["disk"]
  <2>1. CASE ~UsesDisk(t)
    BY <2>1 DEF Books, Place
  <2>2. CASE UsesDisk(t)
    <3>1. disk \in Disk /\ diskFree[h][disk] >= need[t]["disk"] /\ need[t]["disk"] \in Nat
      BY <2>2 DEF DisksFor
    <3>2. diskFree[h][disk] \in Int
      BY <3>1 DEF TypeOK
    <3>3. diskFree' = [diskFree EXCEPT ![h][disk] = @ - need[t]["disk"]]
      BY <2>2 DEF Place
    <3> QED
      BY <3>1, <3>2, <3>3 DEF Books, TypeOK
  <2> QED
    BY <2>1, <2>2
<1>4. Booked' = Booked /\ supply' = supply
  BY DEF Booked, Subtracted
<1> QED
  BY <1>1, <1>2, <1>3, <1>4 DEF Books

-----------------------------------------------------------------------------
(* Every step keeps the books *)

LEMMA FirstDiskFits ==
  ASSUME NEW h \in Host, NEW t \in Type, DisksFor(h, t) # {}
  PROVE  FirstDisk(h, t) \in DisksFor(h, t)
<1>1. DisksFor(h, t) \cap ToSet(DiskOrder) # {}
  BY DEF DisksFor, Disk
<1> QED
  BY <1>1, DiskAssumption, FirstIsIn DEF FirstDisk

LEMMA FreestDiskFits ==
  ASSUME IInv, NEW h \in Host, NEW t \in Type, DisksFor(h, t) # {}
  PROVE  FreestDisk(h, t) \in DisksFor(h, t)
<1> DEFINE room   == DisksFor(h, t)
           unused == { d \in room : diskFree[h][d] = maxOf["disk"] }
           most   == { d \in room : \A e \in room : diskFree[h][e] <= diskFree[h][d] }
           best   == IF unused # {} THEN unused ELSE most
           used   == { maxOf["disk"] - diskFree[h][d] : d \in room }
<1>1. maxOf["disk"] \in Nat /\ \A d \in room : d \in Disk /\ diskFree[h][d] \in 0..maxOf["disk"]
  BY NeedAssumption DEF IInv, Books, DisksFor
<1>2. used \in SUBSET Nat /\ used # {}
  BY <1>1
<1>3. PICK m \in used : \A k \in used : m <= k
  BY <1>2, LeastNumber
<1>4. PICK d \in room : m = maxOf["disk"] - diskFree[h][d]
  BY <1>3
<1>5. ASSUME NEW e \in room PROVE diskFree[h][e] <= diskFree[h][d]
  <2>1. maxOf["disk"] - diskFree[h][d] <= maxOf["disk"] - diskFree[h][e]
    BY <1>3, <1>4
  <2> HIDE DEF room
  <2> QED
    BY <1>1, <2>1
<1>6. best # {} /\ best \subseteq room
  BY <1>4, <1>5
<1>7. best \cap ToSet(DiskOrder) # {}
  BY <1>1, <1>6 DEF Disk
<1>8. First(DiskOrder, best) \in best
  BY <1>7, DiskAssumption, FirstIsIn
<1>9. FreestDisk(h, t) = First(DiskOrder, best)
  BY DEF FreestDisk
<1> QED
  BY <1>6, <1>8, <1>9

LEMMA TakesFits ==
  ASSUME NEW h \in Host, NEW t \in Takes(h)
  PROVE  /\ t \in Type /\ left[t] > 0 /\ Has(h, t)
         /\ UsesDisk(t) => DisksFor(h, t) # {}
BY DEF Takes, Waiting, Fits

LEMMA HeadIsHost ==
  ASSUME NEW s \in Seq(Host), s # <<>>
  PROVE  /\ Head(s) \in Host /\ Tail(s) \in Seq(Host)
         /\ Append(Tail(s), Head(s)) \in Seq(Host)
OBVIOUS

LEMMA KeptWithoutPlacing ==
  ASSUME IInv, UNCHANGED <<input, books>>, queue' \in Seq(Host),
         phase' \in {"placing", "done", "failed"}
  PROVE  IInv'
<1>1. TypeOK'
  BY DEF IInv, TypeOK, input, books
<1>2. Booked' = Booked /\ \A h \in Host, r \in Booked : Committed(h, r)' = Committed(h, r)
  BY DEF Booked, Subtracted, Committed, input, books
<1> QED
  BY <1>1, <1>2 DEF IInv, Books, input, books

\* A step places one container where it fits, or none.
LEMMA StepPlaces ==
  ASSUME IInv, [Next]_vars
  PROVE  /\ UNCHANGED input /\ queue' \in Seq(Host) /\ phase' \in {"placing", "done", "failed"}
         /\ \/ UNCHANGED books
            \/ /\ UNCHANGED phase
               /\ \E h \in Host, t \in Type : \E disk :
                    /\ left[t] > 0 /\ Has(h, t) /\ (UsesDisk(t) => disk \in DisksFor(h, t))
                    /\ Place(h, t, disk)
<1>0. queue \in Seq(Host) /\ hosts \in Seq(Host) /\ phase \in {"placing", "done", "failed"}
  BY DEF IInv, TypeOK
<1>1. CASE UNCHANGED vars
  BY <1>0, <1>1 DEF vars
<1>2. CASE FillHost
  <2> DEFINE h == Head(queue)
             t == FirstType(Takes(h))
  <2>1. h \in Host /\ Tail(queue) \in Seq(Host)
    BY <1>0, <1>2, HeadIsHost DEF FillHost
  <2>2. CASE Takes(h) = {}
    BY <1>0, <1>2, <2>1, <2>2 DEF FillHost
  <2>3. CASE Takes(h) # {}
    <3>1. t \in Takes(h)
      BY <2>3, FirstTypeIsIn DEF Takes, Waiting
    <3>2. UsesDisk(t) => FirstDisk(h, t) \in DisksFor(h, t)
      BY <3>1, <2>1, TakesFits, FirstDiskFits
    <3>3. Place(h, t, FirstDisk(h, t)) /\ UNCHANGED <<input, phase>> /\ queue' = queue
      BY <1>2, <2>3 DEF FillHost
    <3>4. t \in Type /\ left[t] > 0 /\ Has(h, t)
      BY <2>1, <3>1, TakesFits
    <3> HIDE DEF h, t
    <3> QED
      BY <1>0, <2>1, <3>2, <3>3, <3>4
  <2> QED
    BY <2>2, <2>3
<1>3. CASE ServeHost
  <2> DEFINE h == Head(queue)
             t == FirstType(Takes(h))
  <2>1. h \in Host /\ Tail(queue) \in Seq(Host) /\ Append(Tail(queue), h) \in Seq(Host)
    BY <1>0, <1>3, HeadIsHost DEF ServeHost
  <2>2. CASE Takes(h) = {}
    BY <1>0, <1>3, <2>1, <2>2 DEF ServeHost
  <2>3. CASE Takes(h) # {}
    <3>1. t \in Takes(h)
      BY <2>3, FirstTypeIsIn DEF Takes, Waiting
    <3>2. UsesDisk(t) => FreestDisk(h, t) \in DisksFor(h, t)
      BY <3>1, <2>1, TakesFits, FreestDiskFits
    <3>3. Place(h, t, FreestDisk(h, t)) /\ UNCHANGED <<input, phase>>
          /\ queue' = Append(Tail(queue), h)
      BY <1>3, <2>3 DEF ServeHost
    <3>4. t \in Type /\ left[t] > 0 /\ Has(h, t)
      BY <2>1, <3>1, TakesFits
    <3> HIDE DEF h, t
    <3> QED
      BY <1>0, <2>1, <3>2, <3>3, <3>4
  <2> QED
    BY <2>2, <2>3
<1>4. CASE PlaceBest
  <2> DEFINE t == FirstType(Waiting)
             h == FreestHost(t)
  <2>1. t \in Waiting /\ t \in Type /\ left[t] > 0
    BY <1>4, FirstTypeIsIn DEF PlaceBest, Waiting
  <2>2. /\ Freest(t) # {} /\ (UsesDisk(t) => DisksFor(h, t) # {})
        /\ Place(h, t, FreestDisk(h, t)) /\ UNCHANGED <<input, queue, phase>>
    BY <1>4 DEF PlaceBest, NoPlace
  <2>3. Freest(t) \subseteq Candidates(t) /\ Candidates(t) \subseteq ToSet(hosts)
    BY DEF Freest, Candidates
  <2>4. h \in Freest(t)
    BY <1>0, <2>2, <2>3, FirstIsIn DEF FreestHost
  <2>5. h \in Host /\ Has(h, t)
    BY <1>0, <2>3, <2>4 DEF Candidates, ToSet
  <2>6. UsesDisk(t) => FreestDisk(h, t) \in DisksFor(h, t)
    BY <2>1, <2>2, <2>5, FreestDiskFits
  <2> HIDE DEF h, t
  <2> QED
    BY <1>0, <2>1, <2>2, <2>5, <2>6
<1>5. CASE GiveUp \/ Finish
  BY <1>0, <1>5 DEF GiveUp, Finish
<1> QED
  BY <1>1, <1>2, <1>3, <1>4, <1>5 DEF Next

LEMMA BooksKept == IInv /\ [Next]_vars => IInv'
<1> SUFFICES ASSUME IInv, [Next]_vars PROVE IInv'
  OBVIOUS
<1>1. UNCHANGED input /\ queue' \in Seq(Host) /\ phase' \in {"placing", "done", "failed"}
  BY StepPlaces
<1>2. CASE UNCHANGED books
  BY <1>1, <1>2, KeptWithoutPlacing
<1>3. ASSUME UNCHANGED phase, NEW h \in Host, NEW t \in Type, NEW disk,
             left[t] > 0, Has(h, t), UsesDisk(t) => disk \in DisksFor(h, t), Place(h, t, disk)
      PROVE  IInv'
  BY <1>1, <1>3, PlaceKeeps
<1> QED
  BY <1>2, <1>3, StepPlaces

-----------------------------------------------------------------------------
LEMMA InitBooks == Init => IInv
<1> SUFFICES ASSUME Init PROVE IInv
  OBVIOUS
<1> USE DEF Init
<1>1. /\ supply \in Supply /\ supply.host \in [Host -> [Resource -> Nat]]
      /\ supply.disk \in [Host -> [Disk -> 0..maxOf["disk"]]]
  BY SupplyAssumption
<1>2. left \in [Type -> Nat] /\ placed \in [Host -> [Type -> Nat]]
  BY BoundAssumption DEF Requests
<1>3. maxOf["disk"] \in Nat
  BY NeedAssumption
<1>4. TypeOK
  BY <1>1, <1>2, <1>3, OrderAssumption DEF TypeOK
<1>5. ASSUME NEW h \in Host, NEW r \in Booked
      PROVE  free[h][r] >= 0 /\ free[h][r] + Committed(h, r) = supply.host[h][r]
  <2>1. r \in Resource /\ free[h][r] \in Nat /\ free[h][r] = supply.host[h][r]
    BY <1>1, BookedAre
  <2>2. \A t \in Type : need[t][r] \in Nat /\ placed[h][t] = 0
    BY <2>1, NeedAssumption
  <2>3. Committed(h, r) = 0
    BY <2>2, TypesAre DEF Committed
  <2> QED
    BY <2>1, <2>3
<1> QED
  BY <1>1, <1>4, <1>5 DEF IInv, Books

LEMMA Invariant == Spec => []IInv
BY InitBooks, BooksKept, PTL DEF Spec

\* The variables keep their types: no container is placed that was not asked for.
THEOREM TypeCorrect == Spec => []TypeOK
<1>1. IInv => TypeOK
  BY DEF IInv
<1> QED
  BY <1>1, Invariant, PTL

\* checkAvailableResources and checkAvailableDisk before every placement: whatever
\* the policy, the hosts and the request, a host or a disk is never overcommitted.
THEOREM NeverOvercommits == Spec => []NoOvercommit
<1>1. IInv => NoOvercommit
  <2> SUFFICES ASSUME IInv PROVE NoOvercommit
    OBVIOUS
  <2>1. ASSUME NEW h \in Host, NEW r \in Booked PROVE Committed(h, r) <= supply.host[h][r]
    <3>1. r \in Resource
      BY BookedAre
    <3>2. \A t \in Type : placed[h][t] * need[t][r] \in Nat
      BY <3>1, NeedAssumption, OneMore DEF IInv, TypeOK
    <3>3. Committed(h, r) \in Nat /\ free[h][r] \in Int
      <4>1. free[h][r] \in Int
        BY <3>1 DEF IInv, TypeOK
      <4>2. PICK v \in [Type -> Nat] : \A t \in Type : v[t] = placed[h][t] * need[t][r]
        <5>1. [t \in Type |-> placed[h][t] * need[t][r]] \in [Type -> Nat]
          BY <3>2
        <5> QED
          BY <5>1
      <4>3. Committed(h, r) = v["bigger"] + v["regular"] + v["smaller"] + v["rm-nn"]
        BY <4>2, TypesAre DEF Committed
      <4> QED
        BY <4>1, <4>2, <4>3, TypesAre
    <3> QED
      BY <3>3 DEF IInv, Books
  <2>2. "cpu" \in Booked
    BY DEF Booked, Subtracted
  <2>3. policy = "Best-effort" /\ "energy" \in checks => "energy" \in Booked
    BY DEF Booked, Subtracted
  <2>4. \A h \in Host, d \in Disk : diskFree[h][d] >= 0
    BY NeedAssumption DEF IInv, Books
  <2> QED
    BY <2>1, <2>2, <2>3, <2>4 DEF NoOvercommit
<1> QED
  BY <1>1, Invariant, PTL

-----------------------------------------------------------------------------
(* Fill-up leaves no host before it is full *)

\* The hosts that Fill-up has left are full, and those it has not reached are
\* empty: n is the number of hosts that it has left.
Visits(n) ==
  /\ Len(queue) = Len(hosts) - n
  /\ \A i \in 1..Len(queue) : queue[i] = hosts[n + i]
  /\ \A i \in 1..n : Takes(hosts[i]) = {}
  /\ \A i \in (n + 2)..Len(hosts) : Count(hosts[i]) = 0

Visiting ==
  policy = "Fill-up" => IsInjective(hosts) /\ \E n \in 0..Len(hosts) : Visits(n)

\* What a host can take only shrinks when a container is placed somewhere.
LEMMA TakesShrinks ==
  ASSUME IInv, NEW h \in Host, NEW t \in Type, NEW disk,
         UsesDisk(t) => disk \in DisksFor(h, t),
         Place(h, t, disk), UNCHANGED input, NEW g \in Host
  PROVE  Takes(g)' \subseteq Takes(g)
<1> USE NeedAssumption DEF IInv, input
<1>1. \A r \in Resource : free[g][r] \in Int /\ free[h][r] \in Int /\ need[t][r] \in Nat
  BY DEF TypeOK
<1>2. \A r \in Resource : free'[g][r] \in Int /\ free'[g][r] <= free[g][r]
  <2>1. free' = [free EXCEPT ![h] = [r \in Resource |-> IF r \in Subtracted
                                     THEN free[h][r] - need[t][r] ELSE free[h][r]]]
    BY DEF Place
  <2>2. CASE g = h
    <3>1. \A r \in Resource : free'[h][r] = IF r \in Subtracted
                                            THEN free[h][r] - need[t][r] ELSE free[h][r]
      BY <2>1 DEF TypeOK
    <3> QED
      BY <1>1, <2>2, <3>1
  <2>3. CASE g # h
    <3>1. free'[g] = free[g]
      BY <2>1, <2>3 DEF TypeOK
    <3> QED
      BY <1>1, <3>1
  <2> QED
    BY <2>2, <2>3
<1>3. \A d \in Disk : diskFree'[g][d] \in Int /\ diskFree[g][d] \in Int
                      /\ diskFree'[g][d] <= diskFree[g][d]
  <2>1. CASE ~UsesDisk(t)
    BY <2>1 DEF TypeOK, Place
  <2>2. CASE UsesDisk(t)
    <3>1. disk \in Disk /\ need[t]["disk"] \in Nat
      BY <2>2 DEF DisksFor
    <3>2. diskFree' = [diskFree EXCEPT ![h][disk] = @ - need[t]["disk"]]
      BY <2>2 DEF Place
    <3>3. diskFree \in [Host -> [Disk -> Int]]
      BY DEF TypeOK
    <3> HIDE DEF IInv
    <3> QED
      BY <3>1, <3>2, <3>3
  <2> QED
    BY <2>1, <2>2
<1>4. ASSUME NEW u \in Takes(g)' PROVE u \in Takes(g)
  <2>1. u \in Type /\ left'[u] > 0 /\ Has(g, u)' /\ (UsesDisk(u)' => DisksFor(g, u)' # {})
    BY DEF Takes, Waiting, Fits
  <2>2. left[u] > 0
    BY <2>1 DEF TypeOK, Place
  <2>3. \A r \in Resource \cup {"disk"} : need[u][r] \in Nat
    BY <2>1
  <2>4. Has(g, u)
    BY <1>1, <1>2, <2>1, <2>3 DEF Has, Resource
  <2>5. DisksFor(g, u)' \subseteq DisksFor(g, u)
    BY <1>3, <2>3 DEF DisksFor
  <2>6. UsesDisk(u)' <=> UsesDisk(u)
    BY DEF UsesDisk
  <2> QED
    BY <2>1, <2>2, <2>4, <2>5, <2>6 DEF Takes, Waiting, Fits
<1> QED
  BY <1>4

LEMMA CountElsewhere ==
  ASSUME IInv, NEW h \in Host, NEW t \in Type, NEW disk, Place(h, t, disk), NEW g \in Host, g # h
  PROVE  Count(g)' = Count(g)
BY DEF IInv, TypeOK, Place, Count

LEMMA VisitingKept == IInv /\ Visiting /\ [Next]_vars => Visiting'
<1> SUFFICES ASSUME IInv, Visiting, [Next]_vars, (policy = "Fill-up")' PROVE Visiting'
  BY DEF Visiting
<1>0. /\ queue \in Seq(Host) /\ hosts \in Seq(Host)
      /\ policy' = policy /\ hosts' = hosts /\ UNCHANGED input
  BY DEF IInv, TypeOK, Next, vars, input, FillHost, ServeHost, PlaceBest, GiveUp, Finish
<1>1. PICK n \in 0..Len(hosts) : Visits(n)
  BY <1>0 DEF Visiting
<1>2. IsInjective(hosts)
  BY <1>0 DEF Visiting
<1>3. CASE UNCHANGED <<input, books, queue>>
  <2>1. Visits(n)'
    BY <1>0, <1>1, <1>3
       DEF Visits, input, books, Takes, Waiting, Fits, Has, UsesDisk, DisksFor, Count
  <2> QED
    BY <2>1, <1>0, <1>2 DEF Visiting
<1>4. CASE FillHost
  <2> DEFINE h == Head(queue)
             t == FirstType(Takes(h))
  <2>1. /\ queue # <<>> /\ h \in Host /\ h = hosts[n + 1] /\ n + 1 \in 1..Len(hosts)
        /\ Len(Tail(queue)) = Len(queue) - 1
        /\ \A i \in 1..(Len(queue) - 1) : Tail(queue)[i] = queue[i + 1]
    BY <1>0, <1>1, <1>4, HeadIsHost DEF FillHost, Visits
  <2>2. CASE Takes(h) = {}
    <3>1. UNCHANGED books /\ queue' = Tail(queue)
      BY <1>4, <2>2 DEF FillHost
    <3>2. \A g \in Host : Takes(g)' = Takes(g) /\ Count(g)' = Count(g)
      BY <3>1, <1>0 DEF books, input, Takes, Waiting, Fits, Has, UsesDisk, DisksFor, Count
    <3>3. Len(queue') = Len(hosts) - (n + 1)
      BY <1>0, <1>1, <2>1, <3>1 DEF Visits
    <3>4. ASSUME NEW i \in 1..Len(queue') PROVE queue'[i] = hosts[(n + 1) + i]
      <4>1. i + 1 \in 1..Len(queue) /\ n + (i + 1) = (n + 1) + i /\ queue'[i] = queue[i + 1]
        BY <1>0, <2>1, <3>1
      <4>2. queue[i + 1] = hosts[n + (i + 1)]
        BY <1>1, <4>1 DEF Visits
      <4> QED
        BY <4>1, <4>2
    <3>5. ASSUME NEW i \in 1..(n + 1) PROVE Takes(hosts[i])' = {}
      <4>1. hosts[i] \in Host
        BY <1>0, <2>1
      <4>2. Takes(hosts[i]) = {}
        <5>1. CASE i = n + 1
          BY <5>1, <2>1, <2>2
        <5>2. CASE i \in 1..n
          BY <5>2, <1>1 DEF Visits
        <5> QED
          BY <5>1, <5>2
      <4> QED
        BY <4>1, <4>2, <3>2, <1>0
    <3>6. \A i \in ((n + 1) + 2)..Len(hosts) : Count(hosts[i])' = 0
      BY <1>0, <1>1, <3>2 DEF Visits
    <3>7. Visits(n + 1)'
      BY <1>0, <3>3, <3>4, <3>5, <3>6 DEF Visits
    <3>8. n + 1 \in 0..Len(hosts)
      BY <1>0, <2>1
    <3> QED
      BY <3>7, <3>8, <1>0, <1>2 DEF Visiting
  <2>3. CASE Takes(h) # {}
    <3>1. t \in Takes(h) /\ t \in Type
      BY <2>3, FirstTypeIsIn DEF Takes, Waiting
    <3>2. UsesDisk(t) => FirstDisk(h, t) \in DisksFor(h, t)
      BY <3>1, <2>1, TakesFits, FirstDiskFits
    <3>3. Place(h, t, FirstDisk(h, t)) /\ queue' = queue
      BY <1>4, <2>3 DEF FillHost
    <3> HIDE DEF t
    <3>4. ASSUME NEW i \in 1..n PROVE Takes(hosts[i])' = {}
      <4> HIDE DEF h
      <4>1. hosts[i] \in Host /\ Takes(hosts[i]) = {}
        <5>1. i \in 1..Len(hosts)
          BY <1>0, <1>1
        <5>2. hosts[i] \in Host
          BY <1>0, <5>1
        <5>3. Takes(hosts[i]) = {}
          BY <1>1 DEF Visits
        <5> QED
          BY <5>2, <5>3
      <4>2. Takes(hosts[i])' \subseteq Takes(hosts[i])
        <5>1. \A g \in Host : Takes(g)' \subseteq Takes(g)
          BY <1>0, <2>1, <3>1, <3>2, <3>3, TakesShrinks
        <5> QED
          BY <5>1, <4>1, <1>0
      <4> QED
        BY <4>1, <4>2
    <3>5. ASSUME NEW i \in (n + 2)..Len(hosts) PROVE Count(hosts[i])' = 0
      <4>1. hosts[i] \in Host /\ hosts[i] # h
        BY <1>0, <1>1, <1>2, <2>1 DEF IsInjective
      <4>2. Count(hosts[i])' = Count(hosts[i])
        BY <4>1, <2>1, <3>1, <3>3, <1>0, CountElsewhere
      <4> QED
        BY <4>2, <1>1 DEF Visits
    <3>6. Visits(n)'
      BY <1>0, <1>1, <3>3, <3>4, <3>5 DEF Visits
    <3> QED
      BY <3>6, <1>0, <1>2 DEF Visiting
  <2> QED
    BY <2>2, <2>3
<1>5. CASE ServeHost \/ PlaceBest
  BY <1>0, <1>5 DEF ServeHost, PlaceBest
<1>6. CASE GiveUp \/ Finish
  BY <1>3, <1>6 DEF GiveUp, Finish
<1> QED
  BY <1>3, <1>4, <1>5, <1>6 DEF Next, vars

LEMMA VisitingInit == Init => Visiting
<1> SUFFICES ASSUME Init, policy = "Fill-up" PROVE IsInjective(hosts) /\ Visits(0)
  BY InitBooks DEF Visiting, IInv, TypeOK
<1>1. hosts \in Seq(Host) /\ queue = hosts
  BY OrderAssumption DEF Init
<1>2. ASSUME NEW i \in 1..Len(hosts) PROVE Count(hosts[i]) = 0
  BY <1>1, TypesAre DEF Init, Count
<1> QED
  BY <1>1, <1>2 DEF Init, Visits

\* assign_fill_up: "completely fills each host with as many containers as possible
\* before moving to the next one", for any number of hosts.
THEOREM FillUpNeverSkips == Spec => []FillUpPacks
<1>1. IInv /\ Visiting => FillUpPacks
  <2> SUFFICES ASSUME IInv, Visiting, policy = "Fill-up",
                      NEW i \in DOMAIN hosts, NEW j \in DOMAIN hosts, i < j, Count(hosts[j]) > 0
               PROVE  Takes(hosts[i]) = {}
    BY DEF FillUpPacks
  <2>1. hosts \in Seq(Host)
    BY DEF IInv, TypeOK
  <2>2. PICK n \in 0..Len(hosts) : Visits(n)
    BY DEF Visiting
  <2>3. j \notin (n + 2)..Len(hosts)
    BY <2>2 DEF Visits
  <2>4. i \in 1..n
    BY <2>1, <2>2, <2>3
  <2> QED
    BY <2>2, <2>4 DEF Visits
<1>2. Spec => []Visiting
  BY VisitingInit, VisitingKept, Invariant, PTL DEF Spec
<1> QED
  BY <1>1, <1>2, Invariant, PTL

-----------------------------------------------------------------------------
(* Cyclic serves the hosts in rounds *)

\* A queue q over the hosts of o: no host that may take something is missing, the
\* hosts are ordered by what they have, and none is more than one container behind
\* any other.
Turns(q, o, count, taking) ==
  /\ IsInjective(o) /\ IsInjective(q)
  /\ \A i \in DOMAIN q : q[i] \in ToSet(o)
  /\ \A i, j \in DOMAIN q : i <= j => count[q[i]] <= count[q[j]]
  /\ \A i \in DOMAIN q, h \in ToSet(o) : count[h] <= count[q[i]] + 1
  /\ \A g \in ToSet(o) \cap taking : \E i \in DOMAIN q : q[i] = g

Counts == [h \in Host |-> Count(h)]
Taking == {h \in Host : Takes(h) # {}}

Rotating == policy = "Cyclic" => Turns(queue, hosts, Counts, Taking)

LEMMA HostsCounted ==
  ASSUME IInv
  PROVE  /\ ToSet(hosts) \subseteq Host
         /\ \A h \in Host : Count(h) \in Nat
<1>1. \A h \in Host, t \in Type : placed[h][t] \in Nat
  BY DEF IInv, TypeOK
<1>2. ToSet(hosts) \subseteq Host
  BY DEF IInv, TypeOK, ToSet
<1> QED
  BY <1>1, <1>2, TypesAre DEF Count

LEMMA CountHere ==
  ASSUME IInv, NEW h \in Host, NEW t \in Type, NEW disk, Place(h, t, disk)
  PROVE  Count(h)' = Count(h) + 1
<1>1. \A u \in Type : placed[h][u] \in Nat
  BY DEF IInv, TypeOK
<1>2. \A u \in Type : placed'[h][u] = IF u = t THEN placed[h][u] + 1 ELSE placed[h][u]
  BY DEF IInv, TypeOK, Place
<1> QED
  BY <1>1, <1>2, TypesAre DEF Count

\* The head of a sequence dropped, or moved to its end.
LEMMA Rotation ==
  ASSUME NEW T, NEW s \in Seq(T), s # <<>>
  PROVE  /\ Len(s) \in Nat /\ Len(s) > 0 /\ Head(s) = s[1] /\ DOMAIN s = 1..Len(s)
         /\ DOMAIN Tail(s) = 1..(Len(s) - 1)
         /\ \A i \in 1..(Len(s) - 1) : Tail(s)[i] = s[i + 1]
         /\ DOMAIN Append(Tail(s), Head(s)) = 1..Len(s)
         /\ \A i \in 1..(Len(s) - 1) : Append(Tail(s), Head(s))[i] = s[i + 1]
         /\ Append(Tail(s), Head(s))[Len(s)] = s[1]
<1>1. Len(s) \in Nat /\ Len(s) > 0 /\ Head(s) = s[1] /\ DOMAIN s = 1..Len(s)
  OBVIOUS
<1>2. /\ Tail(s) \in Seq(T) /\ Len(Tail(s)) = Len(s) - 1
      /\ \A i \in 1..(Len(s) - 1) : Tail(s)[i] = s[i + 1]
  OBVIOUS
<1>3. Head(s) \in T
  OBVIOUS
<1> QED
  BY <1>1, <1>2, <1>3

LEMMA TurnsTail ==
  ASSUME NEW q \in Seq(Host), q # <<>>, NEW o \in Seq(Host), NEW count \in [Host -> Nat],
         NEW taking, Turns(q, o, count, taking), Head(q) \notin taking
  PROVE  Turns(Tail(q), o, count, taking)
<1> DEFINE n == Len(q)
           r == Tail(q)
<1>1. /\ n \in Nat /\ n > 0 /\ Head(q) = q[1] /\ DOMAIN q = 1..n
      /\ DOMAIN r = 1..(n - 1) /\ \A i \in 1..(n - 1) : r[i] = q[i + 1]
  BY Rotation
<1> HIDE DEF n, r
<1>2. \A i \in 1..(n - 1) : i \in Nat /\ i + 1 \in 1..n
  BY <1>1
<1>3. IsInjective(o) /\ IsInjective(r)
  <2> SUFFICES ASSUME NEW i \in 1..(n - 1), NEW j \in 1..(n - 1), r[i] = r[j] PROVE i = j
    BY <1>1 DEF Turns, IsInjective
  <2>1. i + 1 \in DOMAIN q /\ j + 1 \in DOMAIN q /\ q[i + 1] = q[j + 1]
    BY <1>1, <1>2
  <2>2. i + 1 = j + 1
    BY <2>1 DEF Turns, IsInjective
  <2> QED
    BY <2>2
<1>4. \A i \in DOMAIN r : r[i] \in ToSet(o)
  BY <1>1, <1>2 DEF Turns
<1>5. ASSUME NEW i \in 1..(n - 1), NEW j \in 1..(n - 1), i <= j
      PROVE  count[r[i]] <= count[r[j]]
  <2>1. i + 1 \in DOMAIN q /\ j + 1 \in DOMAIN q /\ i + 1 <= j + 1
    BY <1>1, <1>2, <1>5
  <2>2. count[q[i + 1]] <= count[q[j + 1]]
    BY <2>1 DEF Turns
  <2> QED
    BY <2>2, <1>1
<1>6. \A i \in DOMAIN r, h \in ToSet(o) : count[h] <= count[r[i]] + 1
  BY <1>1, <1>2 DEF Turns
<1>7. ASSUME NEW g \in ToSet(o) \cap taking PROVE \E i \in DOMAIN r : r[i] = g
  <2>1. PICK i \in 1..n : q[i] = g
    BY <1>1 DEF Turns
  <2>2. i # 1
    BY <2>1, <1>1
  <2>3. i - 1 \in 1..(n - 1) /\ (i - 1) + 1 = i
    BY <2>2, <1>1
  <2> QED
    BY <2>1, <2>3, <1>1
<1> QED
  BY <1>1, <1>3, <1>4, <1>5, <1>6, <1>7 DEF Turns, r

LEMMA TurnsServed ==
  ASSUME NEW q \in Seq(Host), q # <<>>, NEW o \in Seq(Host), NEW count \in [Host -> Nat],
         NEW taking, Turns(q, o, count, taking)
  PROVE  Turns(Append(Tail(q), Head(q)), o, [count EXCEPT ![Head(q)] = @ + 1], taking)
<1> DEFINE n == Len(q)
           h == Head(q)
           r == Append(Tail(q), Head(q))
           more == [count EXCEPT ![h] = @ + 1]
<1>1. /\ n \in Nat /\ n > 0 /\ h = q[1] /\ DOMAIN q = 1..n
      /\ DOMAIN r = 1..n /\ r[n] = h /\ \A i \in 1..(n - 1) : r[i] = q[i + 1]
  BY Rotation
<1>2. h \in Host /\ ToSet(o) \subseteq Host
  BY DEF ToSet
<1>3. /\ more[h] = count[h] + 1 /\ count[h] \in Nat
      /\ \A g \in Host : (g # h => more[g] = count[g]) /\ count[g] \in Nat
  BY <1>2
<1> HIDE DEF n, h, r, more
<1>4. /\ IsInjective(o)
      /\ \A i, j \in 1..n : q[i] = q[j] => i = j
      /\ \A i \in 1..n : q[i] \in ToSet(o)
      /\ \A i, j \in 1..n : i <= j => count[q[i]] <= count[q[j]]
      /\ \A i \in 1..n, g \in ToSet(o) : count[g] <= count[q[i]] + 1
      /\ \A g \in ToSet(o) \cap taking : \E i \in 1..n : q[i] = g
  BY <1>1 DEF Turns, IsInjective
<1>5. 1 \in 1..n /\ h \in ToSet(o)
  BY <1>1, <1>4
\* What the hosts of the new queue have: the others as before, the head one more.
<1>6. ASSUME NEW i \in 1..(n - 1)
      PROVE  /\ r[i] = q[i + 1] /\ i + 1 \in 1..n /\ r[i] # h /\ r[i] \in ToSet(o)
             /\ more[r[i]] = count[q[i + 1]] /\ count[q[i + 1]] \in Nat
             /\ count[h] <= count[q[i + 1]]
  <2>1. i + 1 \in 1..n /\ 1 <= i + 1 /\ i + 1 # 1 /\ r[i] = q[i + 1]
    BY <1>1
  <2>2. r[i] # h /\ r[i] \in ToSet(o) /\ count[h] <= count[q[i + 1]]
    BY <2>1, <1>1, <1>4, <1>5
  <2> QED
    BY <2>1, <2>2, <1>2, <1>3
<1>7. \A i \in 1..n : i \in 1..(n - 1) \/ i = n
  BY <1>1
<1>8. ASSUME NEW i \in 1..n, NEW j \in 1..n, r[i] = r[j] PROVE i = j
  <2>1. CASE i = n \/ j = n
    BY <2>1, <1>1, <1>6, <1>7, <1>8
  <2>2. CASE i # n /\ j # n
    <3>1. i + 1 \in 1..n /\ j + 1 \in 1..n /\ q[i + 1] = q[j + 1]
      BY <2>2, <1>6, <1>7, <1>8
    <3>2. i + 1 = j + 1
      BY <3>1, <1>4
    <3> QED
      BY <3>2
  <2> QED
    BY <2>1, <2>2
<1>9. \A i \in 1..n : r[i] \in ToSet(o)
  BY <1>1, <1>5, <1>6, <1>7
<1>10. ASSUME NEW i \in 1..n, NEW j \in 1..n, i <= j PROVE more[r[i]] <= more[r[j]]
  <2>1. CASE i \in 1..(n - 1) /\ j \in 1..(n - 1)
    <3>1. i + 1 \in 1..n /\ j + 1 \in 1..n /\ i + 1 <= j + 1
      BY <2>1, <1>6, <1>10
    <3> QED
      BY <2>1, <3>1, <1>4, <1>6
  <2>2. CASE i \in 1..(n - 1) /\ j = n
    <3>1. count[q[i + 1]] <= count[h] + 1
      BY <2>2, <1>1, <1>4, <1>5, <1>6
    <3> QED
      BY <2>2, <3>1, <1>1, <1>3, <1>6
  <2>3. CASE i = n /\ j = n
    BY <2>3, <1>1, <1>3
  <2> QED
    BY <2>1, <2>2, <2>3, <1>1, <1>7, <1>10
<1>11. ASSUME NEW i \in 1..n, NEW g \in ToSet(o) PROVE more[g] <= more[r[i]] + 1
  <2>1. more[g] <= count[h] + 1 /\ more[g] \in Nat
    <3>1. g \in Host /\ count[g] <= count[h] + 1
      BY <1>1, <1>2, <1>4, <1>5
    <3> QED
      BY <3>1, <1>3
  <2>2. count[h] <= more[r[i]] /\ more[r[i]] \in Nat
    <3>1. CASE i = n
      BY <3>1, <1>1, <1>3
    <3>2. CASE i \in 1..(n - 1)
      BY <3>2, <1>6
    <3> QED
      BY <3>1, <3>2, <1>7
  <2> QED
    BY <2>1, <2>2, <1>3, SMTT(30)
<1>12. ASSUME NEW g \in ToSet(o) \cap taking PROVE \E i \in 1..n : r[i] = g
  <2>1. PICK i \in 1..n : q[i] = g
    BY <1>4
  <2>2. CASE i = 1
    BY <2>1, <2>2, <1>1
  <2>3. CASE i # 1
    <3>1. i - 1 \in 1..(n - 1) /\ i - 1 \in 1..n /\ (i - 1) + 1 = i
      BY <2>3, <1>1
    <3> QED
      BY <2>1, <3>1, <1>1
  <2> QED
    BY <2>2, <2>3
<1>13. IsInjective(r)
  BY <1>1, <1>8 DEF IsInjective
<1>14. Turns(r, o, more, taking)
  BY <1>1, <1>4, <1>9, <1>10, <1>11, <1>12, <1>13 DEF Turns
<1> QED
  BY <1>14 DEF r, more, h

\* A host that takes nothing more may leave the queue.
LEMMA FewerTaking ==
  ASSUME NEW q, NEW o, NEW count, NEW taking, Turns(q, o, count, taking),
         NEW fewer \in SUBSET taking
  PROVE  Turns(q, o, count, fewer)
BY DEF Turns

LEMMA CountsPlaced ==
  ASSUME IInv, NEW h \in Host, NEW t \in Type, NEW disk, Place(h, t, disk)
  PROVE  Counts' = [Counts EXCEPT ![h] = @ + 1]
<1>1. Count(h)' = Count(h) + 1 /\ \A g \in Host : g # h => Count(g)' = Count(g)
  BY CountHere, CountElsewhere
<1> QED
  BY <1>1 DEF Counts

LEMMA RotatingKept == IInv /\ Rotating /\ [Next]_vars => Rotating'
<1> SUFFICES ASSUME IInv, Turns(queue, hosts, Counts, Taking), [Next]_vars, policy = "Cyclic"
             PROVE  Turns(queue, hosts, Counts, Taking)'
  BY DEF Rotating, Next, vars, input, FillHost, ServeHost, PlaceBest, GiveUp, Finish
<1>0. queue \in Seq(Host) /\ hosts \in Seq(Host) /\ Counts \in [Host -> Nat]
  BY HostsCounted DEF IInv, TypeOK, Counts
<1>1. ASSUME UNCHANGED <<input, books>> PROVE UNCHANGED <<hosts, Counts, Taking>>
  <2>1. \A h \in Host : Count(h)' = Count(h) /\ Takes(h)' = Takes(h)
    BY <1>1 DEF input, books, Takes, Waiting, Fits, Has, UsesDisk, DisksFor, Count
  <2> QED
    BY <1>1, <2>1 DEF input, Counts, Taking
<1>2. CASE UNCHANGED <<input, books, queue>>
  BY <1>1, <1>2
<1>3. CASE ServeHost
  <2>1. queue # <<>> /\ UNCHANGED input /\ Head(queue) \in Host
    BY <1>0, <1>3, HeadIsHost DEF ServeHost
  <2>2. CASE Takes(Head(queue)) = {}
    <3>1. UNCHANGED books /\ queue' = Tail(queue)
      BY <1>3, <2>2 DEF ServeHost
    <3>2. Head(queue) \notin Taking
      BY <2>2 DEF Taking
    <3>3. Turns(Tail(queue), hosts, Counts, Taking)
      BY <1>0, <2>1, <3>2, TurnsTail
    <3> QED
      BY <2>1, <3>1, <3>3, <1>1
  <2>3. CASE Takes(Head(queue)) # {}
    <3>1. PICK h \in Host : h = Head(queue)
      BY <2>1
    <3>2. PICK t \in Type : t = FirstType(Takes(h)) /\ t \in Takes(h)
      BY <2>3, <3>1, FirstTypeIsIn DEF Takes, Waiting
    <3>3. PICK d : d = FreestDisk(h, t) /\ (UsesDisk(t) => d \in DisksFor(h, t))
      BY <3>2, TakesFits, FreestDiskFits
    <3>4. Place(h, t, d) /\ queue' = Append(Tail(queue), Head(queue))
      BY <1>3, <2>3, <3>1, <3>2, <3>3 DEF ServeHost
    <3>5. Counts' = [Counts EXCEPT ![Head(queue)] = @ + 1]
      BY <3>1, <3>4, CountsPlaced
    <3>6. \A g \in Host : Takes(g)' \subseteq Takes(g)
      BY <2>1, <3>3, <3>4, TakesShrinks
    <3>7. Taking' \subseteq Taking
      BY <3>6 DEF Taking
    <3>8. Turns(queue', hosts, Counts', Taking)
      BY <1>0, <2>1, <3>4, <3>5, TurnsServed
    <3>9. Turns(queue', hosts, Counts', Taking')
      BY <3>7, <3>8, FewerTaking
    <3> QED
      BY <2>1, <3>9 DEF input
  <2> QED
    BY <2>2, <2>3
<1>4. CASE FillHost \/ PlaceBest
  BY <1>4 DEF FillHost, PlaceBest
<1>5. CASE GiveUp \/ Finish
  BY <1>2, <1>5 DEF GiveUp, Finish
<1> QED
  BY <1>2, <1>3, <1>4, <1>5 DEF Next, vars

LEMMA RotatingInit ==
  ASSUME \A order \in Order : IsInjective(order)
  PROVE  Init => Rotating
<1> SUFFICES ASSUME Init PROVE Turns(queue, hosts, Counts, Taking)
  BY DEF Rotating
<1>1. hosts \in Seq(Host) /\ queue = hosts /\ IsInjective(hosts)
  BY OrderAssumption DEF Init
<1>2. \A h \in ToSet(hosts) : Counts[h] = 0
  <2>1. ToSet(hosts) \subseteq Host
    BY <1>1 DEF ToSet
  <2> QED
    BY <2>1, TypesAre DEF Init, Counts, Count
<1>3. \A i \in DOMAIN queue : queue[i] \in ToSet(hosts)
  BY <1>1 DEF ToSet
<1>4. \A g \in ToSet(hosts) : \E i \in DOMAIN queue : queue[i] = g
  BY <1>1 DEF ToSet
<1> QED
  BY <1>1, <1>2, <1>3, <1>4 DEF Turns

\* assign_cyclic: "balance the load among all available hosts".  A host that falls
\* two containers behind can take none of those left, for any number of hosts, if
\* no host is written twice in the list that the user gives.
THEOREM CyclicServesAll ==
  ASSUME \A order \in Order : IsInjective(order)
  PROVE  Spec => []CyclicBalances
<1>1. IInv /\ Rotating => CyclicBalances
  <2> SUFFICES ASSUME IInv, Turns(queue, hosts, Counts, Taking), policy = "Cyclic",
                      NEW g \in ToSet(hosts), NEW h \in ToSet(hosts), Count(g) + 1 < Count(h)
               PROVE  Takes(g) = {}
    BY DEF CyclicBalances, Rotating
  <2>1. /\ g \in Host /\ Count(g) \in Nat /\ Counts[g] = Count(g)
        /\ h \in Host /\ Count(h) \in Nat /\ Counts[h] = Count(h)
    BY HostsCounted DEF Counts
  <2>2. \A i \in DOMAIN queue : queue[i] # g
    BY <2>1 DEF Turns
  <2> QED
    BY <2>1, <2>2 DEF Turns, Taking
<1>2. Init => Rotating
  BY RotatingInit
<1>3. Spec => []Rotating
  BY <1>2, RotatingKept, Invariant, PTL DEF Spec
<1> QED
  BY <1>1, <1>3, Invariant, PTL

-----------------------------------------------------------------------------
(* No application is refused that could be placed *)

\* A host that the loop has dropped takes nothing more.
Dropped ==
  policy # "Best-effort" =>
    \A g \in ToSet(hosts) : (\A i \in DOMAIN queue : queue[i] # g) => Takes(g) = {}

Stuck == Dropped /\ RefusedOnlyWhenStuck

LEMMA FinitelyMany ==
  ASSUME NEW T, NEW s \in Seq(T)
  PROVE  IsFiniteSet(ToSet(s))
<1>1. /\ s \in Seq(ToSet(s))
      /\ \A x \in ToSet(s) : \E n \in 1..Len(s) : s[n] = x
  BY DEF ToSet
<1> QED
  BY <1>1 DEF IsFiniteSet

LEMMA DiskIsFinite == IsFiniteSet(Disk)
BY DiskAssumption, FinitelyMany DEF Disk

\* A set of scores has a least one, if there are finitely many.
LEMMA LeastScore ==
  ASSUME NEW S, IsFiniteSet(S), S # {}, NEW score \in [S -> Int]
  PROVE  \E m \in S : \A k \in S : score[m] <= score[k]
<1> DEFINE Least(T) == \E m \in T : \A k \in T : score[m] <= score[k]
           Bad == {T \in SUBSET S : T # {} /\ ~Least(T)}
<1> SUFFICES ASSUME Bad # {} PROVE FALSE
  OBVIOUS
<1>0. Bad \in SUBSET SUBSET S /\ Bad # {}
  OBVIOUS
<1>1. PICK T \in Bad : \A k \in SUBSET T : k # T => k \notin Bad
  <2> HIDE DEF Bad
  <2> QED
    BY <1>0, LeastSet
<1>2. PICK a \in T : TRUE
  OBVIOUS
<1>3. CASE T \ {a} = {}
  <2>1. \A k \in T : score[a] <= score[k]
    BY <1>3
  <2> QED
    BY <2>1
<1>4. CASE T \ {a} # {}
  <2>1. PICK m \in T \ {a} : \A k \in T \ {a} : score[m] <= score[k]
    BY <1>1, <1>4, ZenonT(30)
  <2>2. CASE score[m] <= score[a]
    BY <2>1, <2>2
  <2>3. CASE ~(score[m] <= score[a])
    <3>1. \A k \in T : score[a] <= score[k]
      BY <2>1, <2>3
    <3> QED
      BY <3>1
  <2> QED
    BY <2>2, <2>3
<1> QED
  BY <1>3, <1>4

LEMMA ScoreIsInt ==
  ASSUME IInv, NEW h \in Host, NEW t \in Type
  PROVE  Score(h, t) \in Int
<1>1. MapThenSumSet(LAMBDA d : diskFree[h][d], Disk) = Total(diskFree[h], Disk)
  BY DEF Total
<1>2. Total(diskFree[h], Disk) \in Int
  BY DiskIsFinite, TotalInt DEF IInv, TypeOK
<1>3. free[h]["energy"] \in Int
  BY DEF IInv, TypeOK, Resource
<1> QED
  BY <1>1, <1>2, <1>3 DEF Score

LEMMA FreestExists ==
  ASSUME IInv, NEW t \in Type, Candidates(t) # {}
  PROVE  Freest(t) # {}
<1>1. hosts \in Seq(Host) /\ Candidates(t) \subseteq ToSet(hosts) /\ ToSet(hosts) \subseteq Host
  BY HostsCounted DEF IInv, TypeOK, Candidates
<1>2. IsFiniteSet(Candidates(t))
  BY <1>1, FinitelyMany, FS_Subset
<1> DEFINE score == [h \in Candidates(t) |-> Score(h, t)]
<1>3. score \in [Candidates(t) -> Int]
  BY <1>1, ScoreIsInt
<1> HIDE DEF score
<1>4. PICK m \in Candidates(t) : \A k \in Candidates(t) : score[m] <= score[k]
  BY <1>2, <1>3, LeastScore
<1> QED
  BY <1>4 DEF Freest, score

\* GiveUp of Best-effort, unless it checks disks and energy.
LEMMA BestIsStuck ==
  ASSUME IInv, NEW t \in Type, NoPlace(t), checks # {"disks", "energy"}
  PROVE  \A h \in ToSet(hosts) : ~Fits(h, t)
<1>1. checks \subseteq {"disks", "energy"}
  BY CheckAssumption DEF IInv, TypeOK
<1>2. UsesDisk(t) => "energy" \notin checks
  BY <1>1 DEF UsesDisk
<1>3. Candidates(t) = {h \in ToSet(hosts) : Fits(h, t)}
  BY <1>2 DEF Candidates, Fits
<1>4. CASE Freest(t) = {}
  BY <1>3, <1>4, FreestExists
<1>5. CASE Freest(t) # {} /\ UsesDisk(t) /\ DisksFor(FreestHost(t), t) = {}
  <2>1. Freest(t) \subseteq Candidates(t) /\ Candidates(t) \subseteq ToSet(hosts)
    BY DEF Freest, Candidates
  <2>2. hosts \in Seq(Host) /\ Freest(t) \cap ToSet(hosts) # {}
    BY <1>5, <2>1 DEF IInv, TypeOK
  <2>3. FreestHost(t) \in Candidates(t)
    BY <2>1, <2>2, FirstIsIn DEF FreestHost
  <2> QED
    BY <1>2, <1>5, <2>3 DEF Candidates
<1> QED
  BY <1>4, <1>5 DEF NoPlace

LEMMA StuckKept == IInv /\ Stuck /\ [Next]_vars => Stuck'
<1> SUFFICES ASSUME IInv, Stuck, [Next]_vars PROVE Stuck'
  OBVIOUS
<1>0. queue \in Seq(Host) /\ hosts \in Seq(Host) /\ ToSet(hosts) \subseteq Host /\ UNCHANGED input
  BY HostsCounted, StepPlaces DEF IInv, TypeOK
<1>1. ASSUME UNCHANGED books
      PROVE  /\ Waiting' = Waiting
             /\ \A h : Takes(h)' = Takes(h) /\ \A t : Fits(h, t)' = Fits(h, t)
  BY <1>0, <1>1 DEF books, input, Takes, Waiting, Fits, Has, UsesDisk, DisksFor
<1>2. Dropped'
  <2> SUFFICES ASSUME policy # "Best-effort", NEW g \in ToSet(hosts),
                      \A i \in DOMAIN queue' : queue'[i] # g
               PROVE  Takes(g)' = {}
    BY <1>0 DEF Dropped, input
  <2>1. Takes(g)' \subseteq Takes(g)
    <3>1. CASE UNCHANGED books
      BY <3>1, <1>1
    <3>2. ASSUME NEW h \in Host, NEW t \in Type, NEW disk,
                 UsesDisk(t) => disk \in DisksFor(h, t), Place(h, t, disk)
          PROVE  Takes(g)' \subseteq Takes(g)
      BY <3>2, <1>0, TakesShrinks
    <3> QED
      BY <3>1, <3>2, StepPlaces
  <2>2. CASE \A i \in DOMAIN queue : queue[i] # g
    BY <2>1, <2>2 DEF Stuck, Dropped
  <2>3. ASSUME NEW i \in DOMAIN queue, queue[i] = g PROVE Takes(g)' = {}
    <3>1. CASE queue' = queue
      BY <2>3, <3>1
    <3>2. CASE queue # <<>> /\ queue' = Tail(queue) /\ Takes(Head(queue)) = {}
      <4>1. CASE i = 1
        <5>1. Takes(g) = {}
          BY <1>0, <2>3, <3>2, <4>1
        <5> QED
          BY <5>1, <2>1
      <4>2. CASE i # 1
        <5>1. i - 1 \in DOMAIN queue' /\ queue'[i - 1] = g
          BY <1>0, <2>3, <3>2, <4>2
        <5> QED
          BY <5>1
      <4> QED
        BY <4>1, <4>2
    <3>3. CASE queue # <<>> /\ queue' = Append(Tail(queue), Head(queue))
      <4>1. CASE i = 1
        <5>1. Len(queue) \in DOMAIN queue' /\ queue'[Len(queue)] = g
          BY <1>0, <2>3, <3>3, <4>1, Rotation
        <5> QED
          BY <5>1
      <4>2. CASE i # 1
        <5>1. i - 1 \in 1..(Len(queue) - 1) /\ (i - 1) + 1 = i /\ i - 1 \in 1..Len(queue)
          BY <1>0, <4>2
        <5>2. i - 1 \in DOMAIN queue' /\ queue'[i - 1] = g
          BY <1>0, <2>3, <3>3, <5>1, Rotation
        <5> QED
          BY <5>2
      <4> QED
        BY <4>1, <4>2
    <3>4. \/ queue' = queue
          \/ queue # <<>> /\ queue' = Tail(queue) /\ Takes(Head(queue)) = {}
          \/ queue # <<>> /\ queue' = Append(Tail(queue), Head(queue))
      BY DEF Next, vars, FillHost, ServeHost, PlaceBest, GiveUp, Finish
    <3> QED
      BY <3>1, <3>2, <3>3, <3>4
  <2> QED
    BY <2>2, <2>3
<1>3. RefusedOnlyWhenStuck'
  <2> SUFFICES ASSUME phase' = "failed", ~(policy = "Best-effort" /\ checks = {"disks", "energy"})
               PROVE  UNCHANGED books /\ \E t \in Waiting : \A h \in ToSet(hosts) : ~Fits(h, t)
    BY <1>0, <1>1 DEF RefusedOnlyWhenStuck, input
  <2>1. CASE GiveUp
    <3>1. UNCHANGED books /\ Waiting # {}
      BY <2>1 DEF GiveUp
    <3>2. CASE policy = "Best-effort"
      <4>1. NoPlace(FirstType(Waiting)) /\ FirstType(Waiting) \in Waiting /\ FirstType(Waiting) \in Type
        BY <2>1, <3>1, <3>2, FirstTypeIsIn DEF GiveUp, Waiting
      <4> QED
        BY <3>1, <3>2, <4>1, BestIsStuck
    <3>3. CASE policy # "Best-effort"
      <4>1. queue = <<>>
        BY <2>1, <3>3 DEF GiveUp
      <4>2. \A g \in ToSet(hosts) : Takes(g) = {}
        BY <3>3, <4>1 DEF Stuck, Dropped
      <4> QED
        BY <3>1, <4>2 DEF Takes
    <3> QED
      BY <3>2, <3>3
  <2>2. CASE ~GiveUp
    <3>1. phase = "failed" /\ UNCHANGED books
      BY <2>2 DEF Next, vars, FillHost, ServeHost, PlaceBest, Finish
    <3> QED
      BY <3>1 DEF Stuck, RefusedOnlyWhenStuck
  <2> QED
    BY <2>1, <2>2
<1> QED
  BY <1>2, <1>3 DEF Stuck

LEMMA StuckInit == Init => Stuck
<1> SUFFICES ASSUME Init PROVE Stuck
  OBVIOUS
<1>1. \A g \in ToSet(hosts) : \E i \in DOMAIN queue : queue[i] = g
  BY DEF Init, ToSet
<1> QED
  BY <1>1 DEF Stuck, Dropped, RefusedOnlyWhenStuck, Init

\* getContainerAssignationForApp: whatever the policy, an application is refused only
\* if some container of it fits on no host.
THEOREM RefusesOnlyWhenStuck == Spec => []RefusedOnlyWhenStuck
<1>1. Stuck => RefusedOnlyWhenStuck
  BY DEF Stuck
<1> QED
  BY <1>1, StuckInit, StuckKept, Invariant, PTL DEF Spec

-----------------------------------------------------------------------------
(* The disks handed out are those that were counted *)

Regular == need["regular"]["disk"]

\* What a container of type t takes less, or more, of a disk than a regular one.
Under(t) == IF need[t]["disk"] < Regular THEN Regular - need[t]["disk"] ELSE 0
Over(t)  == IF need[t]["disk"] > Regular THEN need[t]["disk"] - Regular ELSE 0

\* The new_containers of the disks of h, in order.
Row(h) == [i \in DOMAIN DiskOrder |-> onDisk[h][DiskOrder[i]]]

\* The containers of h that have a disk.
OnDisks(h) == placed[h]["bigger"] + placed[h]["smaller"] + placed[h]["regular"]

\* Every container placed was counted on one disk, and the disk has no less free
\* than if all of them were regular ones, but for what an irregular one takes less.
Counted ==
  /\ "disks" \in checks => \A h \in Host : Total(Row(h), DOMAIN DiskOrder) = OnDisks(h)
  /\ \A h \in Host, d \in Disk :
       onDisk[h][d] * Regular
         <= supply.disk[h][d] - diskFree[h][d]
              + placed[h]["bigger"] * Under("bigger") + placed[h]["smaller"] * Under("smaller")

LEMMA Needs ==
  /\ \A t \in Type : need[t]["disk"] \in Nat /\ Under(t) \in Nat /\ Over(t) \in Nat
  /\ Regular \in Nat
  /\ {"bigger", "smaller", "regular", "rm-nn"} \subseteq Type
<1>1. \A t \in Type : need[t]["disk"] \in Nat
  BY NeedAssumption
<1>2. {"bigger", "smaller", "regular", "rm-nn"} \subseteq Type
  BY TypesAre
<1>3. Regular \in Nat
  BY <1>1, <1>2 DEF Regular
<1> QED
  BY <1>1, <1>2, <1>3 DEF Under, Over

LEMMA DiskPlaces ==
  /\ IsFiniteSet(DOMAIN DiskOrder) /\ DOMAIN DiskOrder = 1..Len(DiskOrder) /\ Len(DiskOrder) \in Nat
  /\ \A i \in DOMAIN DiskOrder : DiskOrder[i] \in Disk
  /\ \A d \in Disk : \E i \in DOMAIN DiskOrder : DiskOrder[i] = d
  /\ \A i, j \in DOMAIN DiskOrder : DiskOrder[i] = DiskOrder[j] => i = j
<1>1. DOMAIN DiskOrder = 1..Len(DiskOrder) /\ Len(DiskOrder) \in Nat
  BY DiskAssumption
<1>2. IsFiniteSet(1..Len(DiskOrder))
  BY <1>1, FS_Interval
<1> QED
  BY <1>1, <1>2, DiskAssumption DEF Disk, ToSet, IsInjective

\* The row of h gets one more in one place when a container is counted on a disk.
LEMMA RowPlaced ==
  ASSUME IInv, NEW h \in Host, NEW t \in Type, NEW disk \in Disk,
         UsesDisk(t), Place(h, t, disk), NEW g \in Host
  PROVE  Total(Row(g)', DOMAIN DiskOrder) =
           Total(Row(g), DOMAIN DiskOrder) + IF g = h THEN 1 ELSE 0
<1>1. PICK a \in DOMAIN DiskOrder : DiskOrder[a] = disk
  BY DiskPlaces
<1>2. \A i \in DOMAIN DiskOrder : Row(g)[i] = onDisk[g][DiskOrder[i]] /\ Row(g)[i] \in Int
  BY DiskPlaces DEF Row, IInv, TypeOK
<1>3. \A i \in DOMAIN DiskOrder :
        Row(g)'[i] = IF g = h /\ i = a THEN Row(g)[i] + 1 ELSE Row(g)[i]
  <2>1. onDisk' = [onDisk EXCEPT ![h][disk] = @ + 1]
    BY DEF Place
  <2>2. \A i \in DOMAIN DiskOrder :
          onDisk'[g][DiskOrder[i]] = IF g = h /\ DiskOrder[i] = disk
                                     THEN onDisk[g][DiskOrder[i]] + 1 ELSE onDisk[g][DiskOrder[i]]
    <3>1. \A d \in Disk :
            onDisk'[g][d] = IF g = h /\ d = disk THEN onDisk[g][d] + 1 ELSE onDisk[g][d]
      BY <2>1 DEF IInv, TypeOK
    <3> QED
      BY <3>1, DiskPlaces
  <2>3. \A i \in DOMAIN DiskOrder : DiskOrder[i] = disk <=> i = a
    BY <1>1, DiskPlaces
  <2> QED
    BY <1>2, <2>2, <2>3 DEF Row
<1>4. CASE g = h
  <2>1. PICK S : S = DOMAIN DiskOrder /\ IsFiniteSet(S) /\ a \in S
    BY DiskPlaces
  <2>2. PICK f : f = Row(g) /\ \A i \in S : f[i] \in Int
    BY <1>2, <2>1
  <2>3. PICK k : k = Row(g)' /\ \A i \in S : k[i] = IF i = a THEN f[i] + 1 ELSE f[i]
    BY <1>3, <1>4, <2>1, <2>2
  <2>4. Total(k, S) = Total(f, S) + 1
    BY <2>1, <2>2, <2>3, TotalOneMore
  <2> QED
    BY <1>4, <2>1, <2>2, <2>3, <2>4
<1>5. CASE g # h
  <2>1. Total(Row(g)', DOMAIN DiskOrder) = Total(Row(g), DOMAIN DiskOrder)
    BY <1>3, <1>5, DiskPlaces, TotalSame
  <2>2. Total(Row(g), DOMAIN DiskOrder) \in Int
    BY <1>2, DiskPlaces, TotalInt
  <2> QED
    BY <1>5, <2>1, <2>2
<1> QED
  BY <1>4, <1>5

LEMMA CountedPlaced ==
  ASSUME IInv, Counted, NEW h \in Host, NEW t \in Type, NEW disk,
         UsesDisk(t) => disk \in DisksFor(h, t), Place(h, t, disk), UNCHANGED input
  PROVE  Counted'
<1>1. UsesDisk(t) => disk \in Disk
  BY DEF DisksFor
<1>2. \A g \in Host, u \in Type : /\ placed[g][u] \in Nat
                                  /\ placed'[g][u] = IF g = h /\ u = t THEN placed[g][u] + 1 ELSE placed[g][u]
  BY DEF IInv, TypeOK, Place
<1>3. ASSUME "disks" \in checks, NEW g \in Host
      PROVE  Total(Row(g)', DOMAIN DiskOrder) = OnDisks(g)'
  <2>1. Total(Row(g), DOMAIN DiskOrder) = OnDisks(g) /\ OnDisks(g) \in Nat
    BY <1>2, <1>3, Needs DEF Counted, OnDisks
  <2>2. CASE t = "rm-nn"
    <3>1. UNCHANGED onDisk
      BY <2>2 DEF Place, UsesDisk
    <3>2. Row(g)' = Row(g)
      BY <3>1 DEF Row
    <3>3. OnDisks(g)' = OnDisks(g)
      BY <2>2, <1>2, Needs DEF OnDisks
    <3> QED
      BY <2>1, <3>2, <3>3
  <2>3. CASE t # "rm-nn"
    <3>1. UsesDisk(t)
      BY <1>3, <2>3 DEF UsesDisk
    <3>2. Total(Row(g)', DOMAIN DiskOrder) = OnDisks(g) + IF g = h THEN 1 ELSE 0
      BY <1>1, <2>1, <3>1, RowPlaced
    <3>3. OnDisks(g)' = OnDisks(g) + IF g = h THEN 1 ELSE 0
      <4>1. t \in {"bigger", "smaller", "regular"}
        BY <2>3, TypesAre
      <4> QED
        BY <4>1, <1>2, Needs DEF OnDisks
    <3> QED
      BY <3>2, <3>3
  <2> QED
    BY <2>2, <2>3
<1>4. ASSUME NEW g \in Host, NEW d \in Disk
      PROVE  onDisk'[g][d] * Regular
               <= supply'.disk[g][d] - diskFree'[g][d]
                    + placed'[g]["bigger"] * Under("bigger") + placed'[g]["smaller"] * Under("smaller")
  <2> DEFINE b == placed[g]["bigger"] * Under("bigger")
             m == placed[g]["smaller"] * Under("smaller")
             b2 == placed'[g]["bigger"] * Under("bigger")
             m2 == placed'[g]["smaller"] * Under("smaller")
             more == IF g = h THEN (IF t \in {"bigger", "smaller"} THEN Under(t) ELSE 0) ELSE 0
  <2>1. b \in Nat /\ m \in Nat /\ b2 + m2 = b + m + more /\ more \in Nat /\ b2 \in Nat /\ m2 \in Nat
    <3>1. \A u \in Type : /\ placed[g][u] * Under(u) \in Nat
                          /\ (placed[g][u] + 1) * Under(u) = placed[g][u] * Under(u) + Under(u)
                          /\ Under(u) \in Nat
      BY <1>2, Needs, OneMore
    <3>2. \A u \in Type : placed'[g][u] * Under(u) =
                            placed[g][u] * Under(u) + IF g = h /\ u = t THEN Under(u) ELSE 0
      BY <1>2, <3>1
    <3>3. /\ b2 = b + IF g = h /\ t = "bigger" THEN Under("bigger") ELSE 0
          /\ m2 = m + IF g = h /\ t = "smaller" THEN Under("smaller") ELSE 0
          /\ b \in Nat /\ m \in Nat /\ Under("bigger") \in Nat /\ Under("smaller") \in Nat
      BY <3>1, <3>2, Needs
    <3> HIDE DEF b, m, b2, m2
    <3> QED
      BY <3>3
  <2>2. /\ onDisk[g][d] * Regular <= supply.disk[g][d] - diskFree[g][d] + b + m
        /\ supply' = supply
    BY DEF Counted, input
  <2>3. /\ onDisk[g][d] \in Nat /\ diskFree[g][d] \in Int /\ supply.disk[g][d] \in Int
        /\ onDisk[g][d] * Regular \in Nat
        /\ (onDisk[g][d] + 1) * Regular = onDisk[g][d] * Regular + Regular
    <3>1. onDisk[g][d] \in Nat /\ diskFree[g][d] \in Int
      BY DEF IInv, TypeOK
    <3>2. supply.disk[g][d] \in 0..maxOf["disk"]
      BY SupplyAssumption DEF IInv, TypeOK
    <3> QED
      BY <3>1, <3>2, Needs, OneMore, NeedAssumption
  <2> HIDE DEF b, m, b2, m2
  <2>4. CASE UsesDisk(t) /\ g = h /\ d = disk
    <3>1. onDisk'[g][d] = onDisk[g][d] + 1 /\ diskFree'[g][d] = diskFree[g][d] - need[t]["disk"]
      BY <2>4, <1>1 DEF IInv, TypeOK, Place
    <3>2. Regular - need[t]["disk"] <= more /\ need[t]["disk"] \in Nat
      <4>1. t \in {"bigger", "smaller", "regular"}
        BY <2>4, TypesAre DEF UsesDisk
      <4> QED
        BY <4>1, <2>4, Needs DEF Under, Regular
    <3> HIDE DEF more
    <3>3. b2 + m2 = b + m + more
      BY <2>1
    <3> QED
      BY <2>1, <2>2, <2>3, <3>1, <3>2, Needs DEF b2, m2
  <2>5. CASE ~(UsesDisk(t) /\ g = h /\ d = disk)
    <3>1. onDisk'[g][d] = onDisk[g][d] /\ diskFree'[g][d] = diskFree[g][d]
      <4>1. CASE ~UsesDisk(t)
        BY <4>1 DEF Place
      <4>2. CASE UsesDisk(t)
        BY <2>5, <4>2, <1>1 DEF IInv, TypeOK, Place
      <4> QED
        BY <4>1, <4>2
    <3> HIDE DEF more
    <3> QED
      BY <2>1, <2>2, <2>3, <3>1 DEF b2, m2
  <2> QED
    BY <2>4, <2>5
<1> QED
  BY <1>3, <1>4 DEF Counted, input

LEMMA CountedKept == IInv /\ Counted /\ [Next]_vars => Counted'
<1> SUFFICES ASSUME IInv, Counted, [Next]_vars PROVE Counted'
  OBVIOUS
<1>1. CASE UNCHANGED <<input, books>>
  BY <1>1 DEF Counted, Row, OnDisks, input, books
<1>2. ASSUME UNCHANGED input, NEW h \in Host, NEW t \in Type, NEW disk,
             UsesDisk(t) => disk \in DisksFor(h, t), Place(h, t, disk)
      PROVE  Counted'
  BY <1>2, CountedPlaced
<1> QED
  BY <1>1, <1>2, StepPlaces

LEMMA CountedInit == Init => Counted
<1> SUFFICES ASSUME Init PROVE Counted
  OBVIOUS
<1>1. ASSUME NEW h \in Host PROVE Total(Row(h), DOMAIN DiskOrder) = OnDisks(h)
  <2>1. OnDisks(h) = 0
    BY Needs DEF Init, OnDisks
  <2>2. \A i \in DOMAIN DiskOrder : Row(h)[i] = 0
    BY DiskPlaces DEF Init, Row
  <2>3. Total(Row(h), DOMAIN DiskOrder) = 0
    BY <2>2, DiskPlaces, TotalZero
  <2> QED
    BY <2>1, <2>3
<1>2. ASSUME NEW h \in Host, NEW d \in Disk
      PROVE  onDisk[h][d] * Regular
               <= supply.disk[h][d] - diskFree[h][d]
                    + placed[h]["bigger"] * Under("bigger") + placed[h]["smaller"] * Under("smaller")
  <2>1. onDisk[h][d] = 0 /\ placed[h]["bigger"] = 0 /\ placed[h]["smaller"] = 0
    BY Needs DEF Init
  <2>2. supply.disk[h][d] - diskFree[h][d] = 0
    <3>1. supply.disk[h][d] \in 0..maxOf["disk"]
      BY SupplyAssumption DEF Init
    <3> QED
      BY <3>1, NeedAssumption DEF Init
  <2> QED
    BY <2>1, <2>2, Needs
<1> QED
  BY <1>1, <1>2 DEF Counted

\* The new_containers of the first n disks of h.
Prefix(h, n) == MapThenSumSet(LAMBDA i : onDisk[h][DiskOrder[i]], 1..n)

LEMMA PrefixIs ==
  ASSUME NEW h \in Host, NEW n \in 0..Len(DiskOrder)
  PROVE  Prefix(h, n) = Total(Row(h), 1..n)
<1> DEFINE Follows(k) == k = [s \in SUBSET (1..n) |->
                                IF s = {} THEN 0 ELSE onDisk[h][DiskOrder[AnyOf(s)]] + k[s \ {AnyOf(s)}]]
           g == CHOOSE k : Follows(k)
<1>1. IsFiniteSet(1..n) /\ 1..n \subseteq DOMAIN DiskOrder
  BY DiskPlaces, FS_Interval
<1>2. \A s \in SUBSET (1..n) : s # {} => Row(h)[AnyOf(s)] = onDisk[h][DiskOrder[AnyOf(s)]]
  BY <1>1, AnyIsIn DEF Row
<1>3. \A k : Follows(k) <=> Sums(k, Row(h), 1..n)
  BY <1>2 DEF Sums
<1>4. \E k : Follows(k)
  BY <1>1, <1>3, SumsExist
<1>5. Prefix(h, n) = g[1..n]
  BY DEF Prefix, MapThenSumSet, MapThenFoldSet, AnyOf
<1>6. Follows(g)
  <2> HIDE DEF Follows
  <2> QED
    BY <1>4
<1> HIDE DEF Follows, g
<1>7. Sums(g, Row(h), 1..n)
  BY <1>3, <1>6
<1> QED
  BY <1>1, <1>5, <1>7, TotalIs

\* The places of a row: each disk has as many as its new_containers.
LEMMA PrefixStep ==
  ASSUME IInv, NEW h \in Host
  PROVE  /\ Prefix(h, 0) = 0
         /\ \A n \in 0..Len(DiskOrder) : Prefix(h, n) \in Nat
         /\ \A n \in DOMAIN DiskOrder : Prefix(h, n) = Prefix(h, n - 1) + onDisk[h][DiskOrder[n]]
<1>1. \A i \in DOMAIN DiskOrder : Row(h)[i] = onDisk[h][DiskOrder[i]] /\ Row(h)[i] \in Nat
  BY DiskPlaces DEF Row, IInv, TypeOK
<1>2. Prefix(h, 0) = 0
  <2>1. 1..0 = {} /\ 0 \in 0..Len(DiskOrder) /\ IsFiniteSet(1..0)
    BY DiskPlaces, FS_Interval
  <2>2. Total(Row(h), 1..0) = 0
    BY <2>1, TotalStep
  <2> QED
    BY <2>1, <2>2, PrefixIs
<1>3. ASSUME NEW n \in 0..Len(DiskOrder) PROVE Prefix(h, n) \in Nat
  <2>1. IsFiniteSet(1..n) /\ 1..n \subseteq DOMAIN DiskOrder
    BY DiskPlaces, FS_Interval
  <2>2. Total(Row(h), 1..n) \in Nat
    BY <1>1, <2>1, TotalNat
  <2> QED
    BY <2>2, PrefixIs
<1>4. ASSUME NEW n \in DOMAIN DiskOrder
      PROVE  Prefix(h, n) = Prefix(h, n - 1) + onDisk[h][DiskOrder[n]]
  <2>1. n \in 1..Len(DiskOrder) /\ n \in 0..Len(DiskOrder) /\ n - 1 \in 0..Len(DiskOrder)
    BY DiskPlaces
  <2>2. PICK S \in SUBSET DOMAIN DiskOrder : S = 1..n /\ n \in S /\ S \ {n} = 1..(n - 1)
    <3>1. 1..n \subseteq DOMAIN DiskOrder /\ n \in 1..n
      BY <2>1, DiskPlaces
    <3>2. (1..n) \ {n} = 1..(n - 1)
      BY <2>1
    <3> QED
      BY <3>1, <3>2
  <2>2a. IsFiniteSet(S)
    BY <2>2, DiskPlaces, FS_Subset
  <2>3. \A i \in S : Row(h)[i] \in Int
    BY <1>1
  <2>4. Total(Row(h), S) = Row(h)[n] + Total(Row(h), S \ {n})
    BY <2>2, <2>2a, <2>3, TotalAdd
  <2>5. Prefix(h, n) = Total(Row(h), S) /\ Prefix(h, n - 1) = Total(Row(h), S \ {n})
    BY <2>1, <2>2, PrefixIs
  <2>6. Prefix(h, n) \in Nat /\ Prefix(h, n - 1) \in Nat
    BY <1>3, <2>1
  <2> QED
    BY <1>1, <2>4, <2>5, <2>6
<1> QED
  BY <1>2, <1>3, <1>4

\* DiskOf is defined for every container that was counted.
LEMMA DiskOfIs ==
  ASSUME IInv, NEW h \in Host, NEW k \in 1..Prefix(h, Len(DiskOrder))
  PROVE  \E n \in DOMAIN DiskOrder :
           DiskOf(h, k) = DiskOrder[n] /\ Prefix(h, n - 1) < k /\ k <= Prefix(h, n)
<1> DEFINE In(n) == Prefix(h, n - 1) < k /\ k <= Prefix(h, n)
           Reach == {n \in 0..Len(DiskOrder) : k <= Prefix(h, n)}
<1>1. /\ Len(DiskOrder) \in Nat /\ DOMAIN DiskOrder = 1..Len(DiskOrder)
      /\ Prefix(h, 0) = 0 /\ \A n \in 0..Len(DiskOrder) : Prefix(h, n) \in Nat
  BY DiskPlaces, PrefixStep
<1>2. k \in Nat /\ k >= 1 /\ k <= Prefix(h, Len(DiskOrder)) /\ Len(DiskOrder) \in 0..Len(DiskOrder)
  BY <1>1
<1>3. Reach \in SUBSET Nat /\ Reach # {}
  BY <1>1, <1>2
<1>4. PICK n \in Reach : \A i \in Reach : n <= i
  <2> HIDE DEF Reach
  <2> QED
    BY <1>3, LeastNumber
<1>5. n # 0 /\ n \in DOMAIN DiskOrder
  BY <1>1, <1>2, <1>4
<1>6. n - 1 \in 0..Len(DiskOrder) /\ n - 1 \notin Reach
  BY <1>1, <1>4, <1>5
<1>7. In(n)
  BY <1>1, <1>2, <1>4, <1>6
<1>8. DiskOf(h, k) = DiskOrder[CHOOSE i \in DOMAIN DiskOrder : In(i)]
  BY DEF DiskOf, Prefix
<1> HIDE DEF In
<1>9. PICK i \in DOMAIN DiskOrder : i = (CHOOSE j \in DOMAIN DiskOrder : In(j)) /\ In(i)
  BY <1>5, <1>7
<1> QED
  BY <1>8, <1>9 DEF In

LEMMA OneLess ==
  ASSUME NEW S, IsFiniteSet(S), NEW x \in S, NEW A
  PROVE  /\ Cardinality(S) \in Nat /\ Cardinality(S \ {x}) \in Nat
         /\ Cardinality(S) = Cardinality(S \ {x}) + 1
         /\ Cardinality(S \cap A) \in Nat /\ Cardinality((S \ {x}) \cap A) \in Nat
         /\ Cardinality(S \cap A) = Cardinality((S \ {x}) \cap A) + IF x \in A THEN 1 ELSE 0
<1>1. IsFiniteSet(S \ {x}) /\ IsFiniteSet(S \cap A) /\ IsFiniteSet((S \ {x}) \cap A)
  BY FS_Subset
<1>2. /\ Cardinality(S) \in Nat /\ Cardinality(S \ {x}) \in Nat
      /\ Cardinality(S \cap A) \in Nat /\ Cardinality((S \ {x}) \cap A) \in Nat
  BY <1>1, FS_CardinalityType
<1>3. Cardinality(S) = Cardinality(S \ {x}) + 1
  <2>1. Cardinality(S \ {x}) = Cardinality(S) - 1
    BY FS_RemoveElement
  <2> QED
    BY <1>2, <2>1
<1>4. Cardinality(S \cap A) = Cardinality((S \ {x}) \cap A) + IF x \in A THEN 1 ELSE 0
  <2>1. CASE x \in A
    <3>1. (S \ {x}) \cap A = (S \cap A) \ {x} /\ x \in S \cap A
      BY <2>1
    <3>2. Cardinality((S \cap A) \ {x}) = Cardinality(S \cap A) - 1
      BY <1>1, <3>1, FS_RemoveElement
    <3>3. Cardinality((S \ {x}) \cap A) = Cardinality(S \cap A) - 1
      BY <3>1, <3>2
    <3> QED
      BY <1>2, <2>1, <3>3
  <2>2. CASE x \notin A
    <3>1. (S \ {x}) \cap A = S \cap A
      BY <2>2
    <3>2. Cardinality((S \ {x}) \cap A) = Cardinality(S \cap A)
      BY <3>1
    <3> QED
      BY <1>2, <2>2, <3>2
  <2> QED
    BY <2>1, <2>2
<1> QED
  BY <1>2, <1>3, <1>4

\* Terms of at most n, but for those in A and B, which may be more by a and by b.
LEMMA TotalAtMost ==
  ASSUME NEW S, IsFiniteSet(S), NEW n \in Nat, NEW A, NEW a \in Nat, NEW B, NEW b \in Nat, NEW f,
         \A x \in S : f[x] \in Int /\ f[x] <= n + (IF x \in A THEN a ELSE 0) + (IF x \in B THEN b ELSE 0)
  PROVE  Total(f, S) <= Cardinality(S) * n + Cardinality(S \cap A) * a + Cardinality(S \cap B) * b
<1> DEFINE Most(T) == Cardinality(T) * n + Cardinality(T \cap A) * a + Cardinality(T \cap B) * b
           Bad == {T \in SUBSET S : ~ (Total(f, T) <= Most(T))}
<1> SUFFICES ASSUME Bad # {} PROVE FALSE
  OBVIOUS
<1>0. Bad \in SUBSET SUBSET S /\ Bad # {}
  OBVIOUS
<1>1. PICK T \in Bad : \A k \in SUBSET T : k # T => k \notin Bad
  <2> HIDE DEF Bad
  <2> QED
    BY <1>0, LeastSet
<1>2. IsFiniteSet(T) /\ T \in SUBSET S
  BY FS_Subset
<1>3. Total(f, T) = IF T = {} THEN 0 ELSE f[AnyOf(T)] + Total(f, T \ {AnyOf(T)})
  BY <1>2, TotalStep
<1>4. CASE T = {}
  <2>1. Cardinality(T) = 0 /\ Cardinality(T \cap A) = 0 /\ Cardinality(T \cap B) = 0
    <3>1. T \cap A = {} /\ T \cap B = {}
      BY <1>4
    <3> QED
      BY <1>4, <3>1, FS_EmptySet
  <2>2. Most(T) = 0
    BY <2>1
  <2> QED
    BY <1>3, <1>4, <2>2
<1>5. CASE T # {}
  <2>1. PICK x \in T : x = AnyOf(T)
    BY <1>5, AnyIsIn
  <2>2. PICK R : R = T \ {x}
    OBVIOUS
  <2>3. Total(f, R) <= Most(R)
    <3>1. R \in SUBSET T /\ R # T /\ R \in SUBSET S
      BY <2>2
    <3> QED
      BY <1>1, <3>1
  <2>4. f[x] \in Int /\ f[x] <= n + (IF x \in A THEN a ELSE 0) + (IF x \in B THEN b ELSE 0)
    BY <1>2
  <2>5. Total(f, R) \in Int
    <3>1. IsFiniteSet(R) /\ \A y \in R : f[y] \in Int
      BY <1>2, <2>2, FS_Subset
    <3> QED
      BY <3>1, TotalInt
  <2>6. /\ Cardinality(R) \in Nat /\ Cardinality(T) = Cardinality(R) + 1
        /\ Cardinality(R \cap A) \in Nat
        /\ Cardinality(T \cap A) = Cardinality(R \cap A) + IF x \in A THEN 1 ELSE 0
        /\ Cardinality(R \cap B) \in Nat
        /\ Cardinality(T \cap B) = Cardinality(R \cap B) + IF x \in B THEN 1 ELSE 0
    <3>1. \A C : /\ Cardinality(R) \in Nat /\ Cardinality(T) = Cardinality(R) + 1
                 /\ Cardinality(R \cap C) \in Nat
                 /\ Cardinality(T \cap C) = Cardinality(R \cap C) + IF x \in C THEN 1 ELSE 0
      <4> HIDE DEF Bad
      <4>1. x \in T /\ IsFiniteSet(T)
        BY <1>2
      <4> QED
        BY <4>1, <2>2, OneLess
    <3> QED
      BY <3>1
  <2>7. Most(T) = Most(R) + n + (IF x \in A THEN a ELSE 0) + (IF x \in B THEN b ELSE 0)
        /\ Most(R) \in Nat
    <3>1. Cardinality(T) * n = Cardinality(R) * n + n /\ Cardinality(R) * n \in Nat
      BY <2>6, OneMore
    <3>2. /\ Cardinality(T \cap A) * a = Cardinality(R \cap A) * a + IF x \in A THEN a ELSE 0
          /\ Cardinality(R \cap A) * a \in Nat
      BY <2>6, OneMore
    <3>3. /\ Cardinality(T \cap B) * b = Cardinality(R \cap B) * b + IF x \in B THEN b ELSE 0
          /\ Cardinality(R \cap B) * b \in Nat
      BY <2>6, OneMore
    <3> QED
      BY <3>1, <3>2, <3>3
  <2>8. ~ (Total(f, T) <= Most(T))
    OBVIOUS
  <2>9. Total(f, T) = f[x] + Total(f, R)
    BY <1>3, <1>5, <2>1, <2>2
  <2> HIDE DEF Most
  <2> QED
    BY <2>3, <2>4, <2>5, <2>7, <2>8, <2>9
<1> QED
  BY <1>4, <1>5

LEMMA SameTimes ==
  ASSUME NEW x \in Nat, NEW y \in Nat, x <= y, NEW n \in Nat
  PROVE  x * n <= y * n
<1>1. (y - x) * n \in Nat
  <2>1. y - x \in Nat
    OBVIOUS
  <2> QED
    BY <2>1, OneMore
<1>2. (y - x) * n = y * n - x * n /\ x * n \in Nat /\ y * n \in Nat
  BY SMT
<1> QED
  BY <1>1, <1>2

LEMMA Repeated ==
  ASSUME NEW S, NEW x \in S, NEW n \in Nat
  PROVE  /\ [i \in 1..n |-> x] \in Seq(S) /\ Len([i \in 1..n |-> x]) = n
         /\ \A k \in 1..n : [i \in 1..n |-> x][k] = x
<1>1. [i \in 1..n |-> x] \in Seq(S)
  OBVIOUS
<1>2. Len([i \in 1..n |-> x]) = n
  OBVIOUS
<1> QED
  BY <1>1, <1>2

\* The containers of h that get a disk: those placed, the irregular ones first.
LEMMA DeployedIs ==
  ASSUME IInv, NEW h \in Host
  PROVE  LET b == placed[h]["bigger"]
             m == placed[h]["smaller"]
         IN  /\ b \in Nat /\ m \in Nat /\ OnDisks(h) \in Nat
             /\ DOMAIN Deployed(h) = 1..OnDisks(h)
             /\ \A k \in 1..OnDisks(h) :
                  Deployed(h)[k] = IF k \in 1..b THEN "bigger"
                                   ELSE IF k \in (b + 1)..(b + m) THEN "smaller" ELSE "regular"
<1> DEFINE b == placed[h]["bigger"]
           m == placed[h]["smaller"]
           r == placed[h]["regular"]
           sb == [i \in 1..b |-> "bigger"]
           sm == [i \in 1..m |-> "smaller"]
           sr == [i \in 1..r |-> "regular"]
<1>1. b \in Nat /\ m \in Nat /\ r \in Nat /\ OnDisks(h) = b + m + r
  BY Needs DEF IInv, TypeOK, OnDisks
<1>2. Deployed(h) = sb \o sm \o sr
  BY DEF Deployed
<1> HIDE DEF b, m, r
<1>3. sb \in Seq(Type) /\ Len(sb) = b /\ \A i \in 1..b : sb[i] = "bigger"
  <2>1. "bigger" \in Type
    BY Needs
  <2> QED
    BY <1>1, <2>1, Repeated
<1>4. sm \in Seq(Type) /\ Len(sm) = m /\ \A i \in 1..m : sm[i] = "smaller"
  <2>1. "smaller" \in Type
    BY Needs
  <2> QED
    BY <1>1, <2>1, Repeated
<1>5. sr \in Seq(Type) /\ Len(sr) = r /\ \A i \in 1..r : sr[i] = "regular"
  <2>1. "regular" \in Type
    BY Needs
  <2> QED
    BY <1>1, <2>1, Repeated
<1> HIDE DEF sb, sm, sr
<1>6. /\ sb \o sm \in Seq(Type) /\ Len(sb \o sm) = b + m
      /\ \A i \in 1..(b + m) : (sb \o sm)[i] = IF i <= b THEN sb[i] ELSE sm[i - b]
  BY <1>3, <1>4, ConcatProperties, ZenonT(30)
<1>7. PICK s \in Seq(Type) :
        /\ s = sb \o sm /\ Len(s) = b + m
        /\ \A i \in 1..(b + m) : s[i] = IF i <= b THEN sb[i] ELSE sm[i - b]
  BY <1>6
<1>8. /\ s \o sr \in Seq(Type) /\ Len(s \o sr) = b + m + r
      /\ \A i \in 1..(b + m + r) : (s \o sr)[i] = IF i <= b + m THEN s[i] ELSE sr[i - (b + m)]
  <2>1. /\ s \o sr \in Seq(Type) /\ Len(s \o sr) = Len(s) + Len(sr)
        /\ \A i \in 1..(Len(s) + Len(sr)) : (s \o sr)[i] = IF i <= Len(s) THEN s[i] ELSE sr[i - Len(s)]
    BY <1>5, ConcatProperties
  <2> QED
    BY <2>1, <1>1, <1>5, <1>7
<1>9. PICK w \in Seq(Type) :
        /\ w = Deployed(h) /\ Len(w) = b + m + r
        /\ \A i \in 1..(b + m + r) : w[i] = IF i <= b + m THEN s[i] ELSE sr[i - (b + m)]
  BY <1>2, <1>7, <1>8
<1>10. DOMAIN w = 1..(b + m + r)
  BY <1>9
<1>11. ASSUME NEW k \in 1..(b + m + r)
       PROVE  w[k] = IF k \in 1..b THEN "bigger"
                     ELSE IF k \in (b + 1)..(b + m) THEN "smaller" ELSE "regular"
  <2>1. CASE k <= b
    BY <2>1, <1>1, <1>3, <1>7, <1>9
  <2>2. CASE b < k /\ k <= b + m
    <3>1. k - b \in 1..m /\ k \in 1..(b + m) /\ ~(k <= b)
      BY <2>2, <1>1
    <3>2. w[k] = sm[k - b]
      BY <2>2, <3>1, <1>7, <1>9
    <3>3. k \notin 1..b /\ k \in (b + 1)..(b + m)
      BY <2>2, <1>1
    <3> QED
      BY <3>1, <3>2, <3>3, <1>4
  <2>3. CASE b + m < k
    <3>1. k - (b + m) \in 1..r
      BY <2>3, <1>1
    <3> QED
      BY <2>3, <3>1, <1>1, <1>5, <1>9
  <2> QED
    BY <2>1, <2>2, <2>3, <1>1
<1> QED
  BY <1>1, <1>9, <1>10, <1>11 DEF b, m

LEMMA HandOutIsRight ==
  ASSUME IInv, Counted, "disks" \in checks, NEW h \in Host, NEW d \in Disk
  PROVE  HandedOut(h, d) <= supply.disk[h][d] + Difference(h)
<1> DEFINE b == placed[h]["bigger"]
           m == placed[h]["smaller"]
           S == {k \in DOMAIN Deployed(h) : DiskOf(h, k) = d}
           f == [k \in 1..OnDisks(h) |-> need[Deployed(h)[k]]["disk"]]
<1>1. /\ b \in Nat /\ m \in Nat /\ OnDisks(h) \in Nat
      /\ DOMAIN Deployed(h) = 1..OnDisks(h)
      /\ \A k \in 1..OnDisks(h) :
           Deployed(h)[k] = IF k \in 1..b THEN "bigger"
                            ELSE IF k \in (b + 1)..(b + m) THEN "smaller" ELSE "regular"
  BY DeployedIs
<1>2. S \in SUBSET (1..OnDisks(h)) /\ IsFiniteSet(S) /\ IsFiniteSet(1..OnDisks(h))
  <2>1. S \in SUBSET (1..OnDisks(h))
    BY <1>1
  <2>2. IsFiniteSet(1..OnDisks(h))
    <3>1. PICK n \in Nat : n = OnDisks(h)
      BY <1>1
    <3>2. IsFiniteSet(1..n)
      BY FS_Interval
    <3> QED
      BY <3>1, <3>2
  <2> HIDE DEF S
  <2> QED
    BY <2>1, <2>2, FS_Subset
<1>3. \A k \in S : DiskOf(h, k) = d
  OBVIOUS
\* What is handed out is the sum of f over S.
<1>4. HandedOut(h, d) = Total(f, S)
  <2> DEFINE Follows(k) == k = [s \in SUBSET S |->
                                  IF s = {} THEN 0
                                  ELSE need[Deployed(h)[AnyOf(s)]]["disk"] + k[s \ {AnyOf(s)}]]
             g == CHOOSE k : Follows(k)
  <2>1. HandedOut(h, d) = g[S]
    BY DEF HandedOut, MapThenSumSet, MapThenFoldSet, AnyOf
  <2> HIDE DEF S
  <2>2. \A s \in SUBSET S : s # {} => f[AnyOf(s)] = need[Deployed(h)[AnyOf(s)]]["disk"]
    BY <1>2, AnyIsIn
  <2> HIDE DEF f
  <2>3. \A k : Follows(k) <=> Sums(k, f, S)
    BY <2>2 DEF Sums
  <2>4. \E k : Follows(k)
    BY <1>2, <2>3, SumsExist
  <2>5. Follows(g)
    <3> HIDE DEF Follows
    <3> QED
      BY <2>4
  <2> HIDE DEF Follows, g
  <2>6. Sums(g, f, S)
    BY <2>3, <2>5
  <2> QED
    BY <1>2, <2>1, <2>6, TotalIs
<1>5. PICK a \in DOMAIN DiskOrder : DiskOrder[a] = d
  BY DiskPlaces
\* S lies among the places of d, of which there are as many as its new_containers.
<1>6. Cardinality(S) \in Nat /\ Cardinality(S) <= onDisk[h][d] /\ onDisk[h][d] \in Nat
  <2> DEFINE from == Prefix(h, a - 1) + 1
             to   == Prefix(h, a)
  <2>1. /\ Prefix(h, a - 1) \in Nat /\ Prefix(h, a) \in Nat
        /\ Prefix(h, a) = Prefix(h, a - 1) + onDisk[h][d] /\ onDisk[h][d] \in Nat
    <3>1. a \in 0..Len(DiskOrder) /\ a - 1 \in 0..Len(DiskOrder)
      BY DiskPlaces
    <3> QED
      BY <1>5, <3>1, PrefixStep DEF IInv, TypeOK
  <2>2. Prefix(h, Len(DiskOrder)) = OnDisks(h)
    <3>1. Len(DiskOrder) \in 0..Len(DiskOrder)
      BY DiskPlaces
    <3> QED
      BY <3>1, PrefixIs, DiskPlaces DEF Counted
  <2>3. ASSUME NEW k \in S PROVE k \in from..to
    <3>1. k \in 1..Prefix(h, Len(DiskOrder)) /\ DiskOf(h, k) = d
      BY <1>2, <1>3, <2>2
    <3>2. PICK n \in DOMAIN DiskOrder :
            DiskOf(h, k) = DiskOrder[n] /\ Prefix(h, n - 1) < k /\ k <= Prefix(h, n)
      BY <3>1, DiskOfIs
    <3>3. n = a
      BY <1>5, <3>1, <3>2, DiskPlaces
    <3>4. k \in Nat
      BY <1>1, <1>2
    <3> QED
      BY <2>1, <3>2, <3>3, <3>4
  <2>3a. from \in Int /\ to \in Int /\ to - from + 1 = onDisk[h][d] /\ (from > to => onDisk[h][d] = 0)
    BY <2>1
  <2> HIDE DEF S, from, to
  <2>4. S \in SUBSET (from..to) /\ IsFiniteSet(from..to)
    BY <2>3, <2>3a, FS_Interval
  <2>5. Cardinality(S) <= Cardinality(from..to) /\ Cardinality(S) \in Nat
    BY <1>2, <2>4, FS_Subset, FS_CardinalityType
  <2>6. Cardinality(from..to) = onDisk[h][d]
    <3>1. Cardinality(from..to) = IF from > to THEN 0 ELSE to - from + 1
      BY <2>3a, FS_Interval
    <3> QED
      BY <2>3a, <3>1
  <2> QED
    BY <2>1, <2>5, <2>6
<1> HIDE DEF S, b, m
\* Among them are the irregular ones, of which there are b and m.
<1>7. /\ Cardinality(S \cap (1..b)) \in Nat /\ Cardinality(S \cap (1..b)) <= b
      /\ Cardinality(S \cap ((b + 1)..(b + m))) \in Nat
      /\ Cardinality(S \cap ((b + 1)..(b + m))) <= m
  <2>1. /\ IsFiniteSet(1..b) /\ Cardinality(1..b) = b
        /\ IsFiniteSet((b + 1)..(b + m)) /\ Cardinality((b + 1)..(b + m)) = m
    <3>1. Cardinality(1..b) = IF 1 > b THEN 0 ELSE b - 1 + 1
      BY <1>1, FS_Interval
    <3>2. Cardinality((b + 1)..(b + m)) = IF b + 1 > b + m THEN 0 ELSE (b + m) - (b + 1) + 1
      BY <1>1, FS_Interval
    <3>3. IsFiniteSet(1..b) /\ IsFiniteSet((b + 1)..(b + m))
      BY <1>1, FS_Interval, SMTT(30)
    <3> QED
      BY <1>1, <3>1, <3>2, <3>3
  <2>2. \A T : IsFiniteSet(T) => /\ Cardinality(S \cap T) \in Nat
                                 /\ Cardinality(S \cap T) <= Cardinality(T)
    <3> SUFFICES ASSUME NEW T, IsFiniteSet(T)
                 PROVE  Cardinality(S \cap T) \in Nat /\ Cardinality(S \cap T) <= Cardinality(T)
      OBVIOUS
    <3>1. S \cap T \in SUBSET T
      OBVIOUS
    <3> QED
      BY <3>1, FS_Subset, FS_CardinalityType
  <2> QED
    BY <2>1, <2>2
<1>8. Total(f, S) <= Cardinality(S) * Regular + Cardinality(S \cap (1..b)) * Over("bigger")
                       + Cardinality(S \cap ((b + 1)..(b + m))) * Over("smaller")
  <2>1. ASSUME NEW k \in S
        PROVE  f[k] \in Int /\ f[k] <= Regular + (IF k \in 1..b THEN Over("bigger") ELSE 0)
                                         + (IF k \in (b + 1)..(b + m) THEN Over("smaller") ELSE 0)
    <3>1. k \in 1..OnDisks(h) /\ f[k] = need[Deployed(h)[k]]["disk"]
      BY <1>2
    <3>2. f[k] = IF k \in 1..b THEN need["bigger"]["disk"]
                 ELSE IF k \in (b + 1)..(b + m) THEN need["smaller"]["disk"] ELSE Regular
      BY <1>1, <3>1 DEF Regular
    <3>3. /\ need["bigger"]["disk"] \in Nat /\ need["smaller"]["disk"] \in Nat /\ Regular \in Nat
          /\ need["bigger"]["disk"] <= Regular + Over("bigger") /\ Over("bigger") \in Nat
          /\ need["smaller"]["disk"] <= Regular + Over("smaller") /\ Over("smaller") \in Nat
      BY Needs DEF Over
    <3> QED
      BY <3>2, <3>3, SMTT(30)
  <2> HIDE DEF f
  <2>2. Over("bigger") \in Nat /\ Over("smaller") \in Nat /\ Regular \in Nat
    BY Needs
  <2> QED
    BY <1>2, <2>1, <2>2, TotalAtMost
<1>9. /\ Cardinality(S) * Regular <= onDisk[h][d] * Regular
      /\ Cardinality(S \cap (1..b)) * Over("bigger") <= b * Over("bigger")
      /\ Cardinality(S \cap ((b + 1)..(b + m))) * Over("smaller") <= m * Over("smaller")
  BY <1>1, <1>6, <1>7, Needs, SameTimes
<1>10. onDisk[h][d] * Regular
         <= supply.disk[h][d] - diskFree[h][d] + b * Under("bigger") + m * Under("smaller")
  BY DEF Counted, b, m
<1>11. Difference(h) = (b * Under("bigger") + b * Over("bigger")) + (m * Under("smaller") + m * Over("smaller"))
  <2> DEFINE Apart(t) == IF need[t]["disk"] >= Regular THEN need[t]["disk"] - Regular
                         ELSE Regular - need[t]["disk"]
  <2>1. Difference(h) = b * Apart("bigger") + m * Apart("smaller")
    BY DEF Difference, Regular, b, m
  <2>2. \A t \in {"bigger", "smaller"} :
          \/ Apart(t) = Under(t) /\ Over(t) = 0
          \/ Apart(t) = Over(t) /\ Under(t) = 0
    BY Needs DEF Under, Over
  <2> HIDE DEF Apart
  <2>3. \A n \in Nat, t \in {"bigger", "smaller"} : n * Apart(t) = n * Under(t) + n * Over(t)
    <3> SUFFICES ASSUME NEW n \in Nat, NEW t \in {"bigger", "smaller"}
                 PROVE  n * Apart(t) = n * Under(t) + n * Over(t)
      OBVIOUS
    <3>1. n * Under(t) \in Nat /\ n * Over(t) \in Nat /\ n * 0 = 0
      BY Needs, OneMore
    <3> QED
      BY <2>2, <3>1
  <2> QED
    BY <1>1, <2>1, <2>3
<1>12. /\ supply.disk[h][d] \in Int /\ diskFree[h][d] \in Int /\ diskFree[h][d] >= 0
  <2>1. maxOf["disk"] \in Nat /\ diskFree[h][d] \in 0..maxOf["disk"] /\ supply.disk[h][d] \in 0..maxOf["disk"]
    BY NeedAssumption, SupplyAssumption DEF IInv, TypeOK, Books
  <2> QED
    BY <2>1
<1>13. Total(f, S) \in Int
  <2>1. \A k \in S : f[k] \in Int
    BY <1>1, <1>2, Needs, SMTT(30)
  <2> HIDE DEF f
  <2> QED
    BY <1>2, <2>1, TotalInt
<1> DEFINE p1 == Cardinality(S) * Regular
           p2 == Cardinality(S \cap (1..b)) * Over("bigger")
           p3 == Cardinality(S \cap ((b + 1)..(b + m))) * Over("smaller")
           q1 == onDisk[h][d] * Regular
           ob == b * Over("bigger")
           om == m * Over("smaller")
           ub == b * Under("bigger")
           um == m * Under("smaller")
<1>14. /\ p1 \in Nat /\ p2 \in Nat /\ p3 \in Nat /\ q1 \in Nat
       /\ ob \in Nat /\ om \in Nat /\ ub \in Nat /\ um \in Nat
  BY <1>1, <1>6, <1>7, Needs, OneMore
<1>15. /\ Total(f, S) <= p1 + p2 + p3
       /\ p1 <= q1 /\ p2 <= ob /\ p3 <= om
       /\ q1 <= supply.disk[h][d] - diskFree[h][d] + ub + um
       /\ Difference(h) = (ub + ob) + (um + om)
  BY <1>8, <1>9, <1>10, <1>11
<1> HIDE DEF f, p1, p2, p3, q1, ob, om, ub, um
<1> QED
  BY <1>4, <1>12, <1>13, <1>14, <1>15

\* deploy_app_containers hands the disks out by count and in another order than they
\* were counted: no disk is given more than was free, but for what an irregular
\* container may take more than the one counted there, for any hosts, disks and needs.
THEOREM DisksHandedOut == Spec => []HandOutFits
<1>1. IInv /\ Counted => HandOutFits
  BY HandOutIsRight DEF HandOutFits
<1> QED
  BY <1>1, CountedInit, CountedKept, Invariant, PTL DEF Spec

\* How a request ends (getContainerAssignationForApp, deploy_app_containers): placed
\* on disks with room, or refused because some container fits on no host.
THEOREM RequestsEndRight == Spec => []EndsRight
<1>1. RefusedOnlyWhenStuck /\ HandOutFits => EndsRight
  BY DEF EndsRight
<1> QED
  BY <1>1, RefusesOnlyWhenStuck, DisksHandedOut, PTL
=============================================================================
