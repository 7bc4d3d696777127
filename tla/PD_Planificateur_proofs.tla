------------------------ MODULE PD_Planificateur_proofs ------------------------
(***************************************************************************)
(* What the operations of PD_Planificateur do to a list, whatever its      *)
(* length and its dates.                                                   *)
(***************************************************************************)
EXTENDS PD_Planificateur, FiniteSetTheorems, FunctionTheorems,
        SequenceTheorems, WellFoundedInduction, TLAPS

(* A set of places that is not empty has a first one.                      *)
LEMMA PlusPetit ==
    ASSUME NEW S \in SUBSET Nat, S # {}
    PROVE  \E m \in S : \A k \in S : m <= k
<1>1. \E m \in S : \A k \in S : <<k, m>> \notin OpToRel(<, Nat)
  BY NatLessThanWellFounded, WFMin
<1>2. \A k, m \in Nat : <<k, m>> \notin OpToRel(<, Nat) => m <= k
  BY DEF OpToRel
<1>3. QED
  BY <1>1, <1>2

-----------------------------------------------------------------------------
(* insertObject:atIndex: and removeObjectAtIndex:.                         *)

(* What comes from the place on moves up by one.                           *)
LEMMA InsererA ==
    ASSUME NEW S, NEW s \in Seq(S), NEW e \in S, NEW i \in 1 .. Len(s) + 1
    PROVE  /\ InsertAt(s, i, e) \in Seq(S)
           /\ Len(InsertAt(s, i, e)) = Len(s) + 1
           /\ \A k \in 1 .. Len(s) + 1 : InsertAt(s, i, e)[k] =
                IF k < i THEN s[k] ELSE IF k = i THEN e ELSE s[k - 1]
<1> DEFINE a == SubSeq(s, 1, i - 1)
           b == SubSeq(s, i, Len(s))
           m == a \o <<e>>
<1>1. /\ a \in Seq(S) /\ Len(a) = i - 1
      /\ \A k \in 1 .. i - 1 : a[k] = s[k]
  BY SubSeqProperties
<1>2. /\ b \in Seq(S) /\ Len(b) = Len(s) - i + 1
      /\ \A k \in 1 .. Len(s) - i + 1 : b[k] = s[i + k - 1]
  BY SubSeqProperties
<1>3. InsertAt(s, i, e) = m \o b
  BY DEF InsertAt
<1> HIDE DEF a, b
<1>4. /\ m \in Seq(S) /\ Len(m) = i
      /\ \A k \in 1 .. i : m[k] = IF k < i THEN s[k] ELSE e
  BY <1>1
<1> HIDE DEF m
<1>5. /\ m \o b \in Seq(S) /\ Len(m \o b) = Len(s) + 1
  BY <1>2, <1>4
<1>6. ASSUME NEW k \in 1 .. Len(s) + 1
      PROVE  (m \o b)[k] =
                IF k < i THEN s[k] ELSE IF k = i THEN e ELSE s[k - 1]
  <2>1. (m \o b)[k] = IF k <= i THEN m[k] ELSE b[k - i]
    BY <1>2, <1>4
  <2>2. CASE k <= i
    BY <2>1, <2>2, <1>4
  <2>3. CASE k > i
    <3>1. k - i \in 1 .. Len(s) - i + 1 /\ i + (k - i) - 1 = k - 1
      BY <2>3
    <3>2. b[k - i] = s[k - 1]
      BY <3>1, <1>2
    <3>3. QED
      BY <2>1, <2>3, <3>2
  <2>4. k <= i \/ k > i
    OBVIOUS
  <2>5. QED
    BY <2>2, <2>3, <2>4, Zenon
<1>7. QED
  BY <1>3, <1>5, <1>6

(* What comes after the place moves down by one.                           *)
LEMMA RetirerA ==
    ASSUME NEW S, NEW s \in Seq(S), NEW i \in 1 .. Len(s)
    PROVE  /\ RemoveAt(s, i) \in Seq(S)
           /\ Len(RemoveAt(s, i)) = Len(s) - 1
           /\ \A k \in 1 .. Len(s) - 1 : RemoveAt(s, i)[k] =
                IF k < i THEN s[k] ELSE s[k + 1]
<1> DEFINE a == SubSeq(s, 1, i - 1)
           b == SubSeq(s, i + 1, Len(s))
<1>1. /\ a \in Seq(S) /\ Len(a) = i - 1
      /\ \A k \in 1 .. i - 1 : a[k] = s[k]
  BY SubSeqProperties
<1>2. /\ b \in Seq(S) /\ Len(b) = Len(s) - i
      /\ \A k \in 1 .. Len(s) - i : b[k] = s[i + k]
  BY SubSeqProperties
<1>3. RemoveAt(s, i) = a \o b
  BY DEF RemoveAt
<1> HIDE DEF a, b
<1>4. a \o b \in Seq(S) /\ Len(a \o b) = Len(a) + Len(b)
  BY <1>1, <1>2, ConcatProperties
<1>5. Len(a \o b) = Len(s) - 1
  BY <1>1, <1>2, <1>4
<1>6. ASSUME NEW k \in 1 .. Len(s) - 1
      PROVE  (a \o b)[k] = IF k < i THEN s[k] ELSE s[k + 1]
  <2>1. (a \o b)[k] = IF k < i THEN a[k] ELSE b[k - i + 1]
    BY <1>1, <1>2
  <2>2. CASE k < i
    BY <2>1, <2>2, <1>1
  <2>3. CASE k >= i
    <3>1. k - i + 1 \in 1 .. Len(s) - i /\ i + (k - i + 1) = k + 1
      BY <2>3
    <3>2. b[k - i + 1] = s[k + 1]
      BY <3>1, <1>2
    <3>3. QED
      BY <2>1, <2>3, <3>2
  <2>4. k < i \/ k >= i
    OBVIOUS
  <2>5. QED
    BY <2>2, <2>3, <2>4, Zenon
<1>7. QED
  BY <1>3, <1>4, <1>5, <1>6

-----------------------------------------------------------------------------
(* The place of a new entry: after every entry that is not later, before   *)
(* the first that is.                                                      *)
LEMMA RangDansLaListe ==
    ASSUME NEW n \in Nat, NEW liste, DOMAIN liste = 1 .. n, Len(liste) = n,
           NEW e
    PROVE  /\ Rang(liste, e) \in 1 .. n + 1
           /\ \A i \in 1 .. n : i < Rang(liste, e) =>
                 ~(e.date < liste[i].date)
           /\ Rang(liste, e) <= n => e.date < liste[Rang(liste, e)].date
<1> DEFINE P == {i \in DOMAIN liste : e.date < liste[i].date}
<1>1. CASE P = {}
  BY <1>1 DEF Rang
<1>2. CASE P # {}
  <2> P \in SUBSET Nat
    OBVIOUS
  <2> HIDE DEF P
  <2>1. PICK m \in P : \A k \in P : m <= k
    BY <1>2, PlusPetit
  <2> USE DEF P
  <2>2. /\ Rang(liste, e) \in P
        /\ \A k \in P : Rang(liste, e) <= k
    BY <1>2, <2>1 DEF Rang
  <2>3. QED
    BY <2>2
<1>3. QED
  BY <1>1, <1>2

-----------------------------------------------------------------------------
(* deplanifierCle: counting the entries that stay, the k-th one of the new *)
(* list is the k-th one that stays of the old list.                        *)

(* How many places of G there are up to i.                                 *)
Rangs(G, i) == Cardinality({j \in G : j <= i})

(* Ranks grow with the places.                                             *)
LEMMA RangsCroissants ==
    ASSUME NEW G \in SUBSET Nat, IsFiniteSet(G), NEW i \in G, NEW k \in G,
           i < k
    PROVE  Rangs(G, i) < Rangs(G, k)
<1> DEFINE A == {j \in G : j <= i}
           B == {j \in G : j <= k}
<1>1. /\ IsFiniteSet(A) /\ IsFiniteSet(B)
      /\ Cardinality(A) \in Nat /\ Cardinality(B) \in Nat
  <2>1. A \in SUBSET G /\ B \in SUBSET G
    OBVIOUS
  <2>2. QED
    BY <2>1, FS_Subset, FS_CardinalityType
<1>2. A \subseteq B /\ A # B
  <2>1. k \in B /\ k \notin A
    OBVIOUS
  <2>2. \A j \in G : j <= i => j <= k
    OBVIOUS
  <2>3. A \subseteq B
    BY <2>2
  <2>4. QED
    BY <2>1, <2>3
<1>3. Cardinality(A) < Cardinality(B)
  <2> HIDE DEF A, B
  <2>1. QED
    BY <1>1, <1>2, FS_Subset
<1>4. QED
  BY <1>3 DEF Rangs

(* A rank is one of the places of the new list.                            *)
LEMMA RangsBornes ==
    ASSUME NEW G \in SUBSET Nat, IsFiniteSet(G), NEW i \in G
    PROVE  Rangs(G, i) \in 1 .. Cardinality(G)
<1> DEFINE A == {j \in G : j <= i}
<1>1. A \in SUBSET G /\ A # {}
  BY i \in A
<1> HIDE DEF A
<1>2. /\ IsFiniteSet(A) /\ Cardinality(A) \in Nat
      /\ Cardinality(A) <= Cardinality(G) /\ Cardinality(G) \in Nat
  BY <1>1, FS_Subset, FS_CardinalityType
<1>3. Cardinality(A) # 0
  BY <1>1, <1>2, FS_EmptySet
<1>4. QED
  BY <1>2, <1>3 DEF Rangs, A

(* Two entries do not share a rank.                                        *)
LEMMA RangsInjectifs ==
    ASSUME NEW G \in SUBSET Nat, IsFiniteSet(G), NEW a \in G, NEW b \in G,
           Rangs(G, a) = Rangs(G, b)
    PROVE  a = b
<1>1. Rangs(G, a) \in Nat
  BY RangsBornes, FS_CardinalityType
<1>2. ~(a < b) /\ ~(b < a)
  BY <1>1, RangsCroissants
<1>3. QED
  BY <1>2

(* No rank is without an entry.                                            *)
LEMMA RangsAtteints ==
    ASSUME NEW G \in SUBSET Nat, IsFiniteSet(G),
           NEW k \in 1 .. Cardinality(G)
    PROVE  \E i \in G : Rangs(G, i) = k
<1> DEFINE n == Cardinality(G)
           T == 1 .. n
           r == [i \in G |-> Rangs(G, i)]
<1>1. n \in Nat
  BY FS_CardinalityType
<1>2. \A i \in G : Rangs(G, i) \in T
  BY RangsBornes
<1>3. r \in [G -> T]
  BY <1>2
<1>4. \A a, b \in G : r[a] = r[b] => a = b
  BY RangsInjectifs
<1>5. IsFiniteSet(T) /\ Cardinality(T) = n
  BY <1>1, FS_Interval
<1> HIDE DEF r, T, n
<1>6. r \in Injection(G, T)
  BY <1>3, <1>4, Fun_IsInj
<1>7. r \in Surjection(G, T)
  BY <1>5, <1>6, FS_Injection DEF n
<1>8. \E i \in G : r[i] = k
  <2>1. k \in T
    BY DEF T, n
  <2>2. \A t \in T : \E i \in G : r[i] = t
    BY <1>7, Fun_SurjectionProperties
  <2>3. QED
    BY <2>1, <2>2
<1>9. QED
  BY <1>8 DEF r

(* The indexes that deplanifierCle keeps.                                  *)
Gardees(liste, id) == {i \in DOMAIN liste : liste[i].cle.id # id}

(* deplanifierCle (PD_Planificateur.m:168-182) removes every entry of the  *)
(* key and keeps the others, all of them, in their order.                  *)
THEOREM SansCleGardeLesAutres ==
    ASSUME NEW S, NEW liste \in Seq(S), NEW id
    PROVE  /\ SansCle(liste, id) \in Seq(S)
           /\ \E f \in [DOMAIN SansCle(liste, id) -> Gardees(liste, id)] :
                 /\ \A k \in DOMAIN SansCle(liste, id) :
                       SansCle(liste, id)[k] = liste[f[k]]
                 /\ \A k, m \in DOMAIN SansCle(liste, id) :
                       k < m => f[k] < f[m]
                 /\ \A i \in Gardees(liste, id) :
                       \E k \in DOMAIN SansCle(liste, id) : f[k] = i
<1> DEFINE G == Gardees(liste, id)
           n == Cardinality(G)
           f == [k \in 1 .. n |-> CHOOSE i \in G : Rangs(G, i) = k]
           l == SansCle(liste, id)
<1>1. G \in SUBSET (1 .. Len(liste)) /\ G \in SUBSET Nat
  BY DEF Gardees
<1>2. IsFiniteSet(G) /\ n \in Nat
  <2> HIDE DEF G
  <2>1. IsFiniteSet(1 .. Len(liste))
    BY LenProperties, FS_Interval
  <2>2. QED
    BY <1>1, <2>1, FS_Subset, FS_CardinalityType
<1>3. l = [k \in 1 .. n |-> liste[f[k]]]
  BY DEF SansCle, Gardees, Rangs
<1> HIDE DEF G, l
<1>4. \A k \in 1 .. n : f[k] \in G /\ Rangs(G, f[k]) = k
  BY <1>1, <1>2, RangsAtteints
<1>5. f \in [1 .. n -> G]
  BY <1>4
<1> HIDE DEF f
<1>6. \A k, m \in 1 .. n : k < m => f[k] < f[m]
  <2> SUFFICES ASSUME NEW k \in 1 .. n, NEW m \in 1 .. n, k < m,
                      ~(f[k] < f[m])
               PROVE  FALSE
    OBVIOUS
  <2>1. f[k] \in G /\ f[m] \in G /\ f[k] \in Nat /\ f[m] \in Nat
    BY <1>1, <1>4
  <2>2. f[k] = f[m] \/ f[m] < f[k]
    BY <2>1
  <2>3. Rangs(G, f[k]) = Rangs(G, f[m]) \/ Rangs(G, f[m]) < Rangs(G, f[k])
    BY <1>1, <1>2, <2>1, <2>2, RangsCroissants
  <2>4. QED
    BY <1>4, <2>3
<1>7. ASSUME NEW i \in G PROVE \E k \in 1 .. n : f[k] = i
  <2>1. Rangs(G, i) \in 1 .. n
    BY <1>1, <1>2, RangsBornes
  <2>2. f[Rangs(G, i)] \in G /\ Rangs(G, f[Rangs(G, i)]) = Rangs(G, i)
    BY <1>4, <2>1
  <2>3. f[Rangs(G, i)] = i
    <3>1. \A a, b \in G : Rangs(G, a) = Rangs(G, b) => a = b
      BY <1>1, <1>2, RangsInjectifs
    <3>2. QED
      BY <2>2, <3>1
  <2>4. QED
    BY <2>1, <2>3
<1>8. l \in Seq(S) /\ DOMAIN l = 1 .. n
  <2>1. \A k \in 1 .. n : liste[f[k]] \in S
    BY <1>1, <1>4, ElementOfSeq
  <2>2. QED
    BY <1>2, <1>3, <2>1, IsASeq
<1>9. \A k \in 1 .. n : l[k] = liste[f[k]]
  BY <1>3
<1>10. \E g \in [DOMAIN l -> G] :
          /\ \A k \in DOMAIN l : l[k] = liste[g[k]]
          /\ \A k, m \in DOMAIN l : k < m => g[k] < g[m]
          /\ \A i \in G : \E k \in DOMAIN l : g[k] = i
  <2>1. /\ f \in [DOMAIN l -> G]
        /\ \A k \in DOMAIN l : l[k] = liste[f[k]]
        /\ \A k, m \in DOMAIN l : k < m => f[k] < f[m]
        /\ \A i \in G : \E k \in DOMAIN l : f[k] = i
    BY <1>5, <1>6, <1>7, <1>8, <1>9
  <2>2. QED
    BY <2>1, Zenon
<1>11. QED
  BY <1>8, <1>10 DEF l, G

(* The two facts of it the other proofs need most.                         *)
COROLLARY SansCleContenu ==
    ASSUME NEW S, NEW liste \in Seq(S), NEW id
    PROVE  /\ SansCle(liste, id) \in Seq(S)
           /\ \A k \in DOMAIN SansCle(liste, id) :
                 \E i \in DOMAIN liste : /\ SansCle(liste, id)[k] = liste[i]
                                        /\ liste[i].cle.id # id
           /\ \A i \in DOMAIN liste : liste[i].cle.id # id =>
                 \E k \in DOMAIN SansCle(liste, id) :
                    SansCle(liste, id)[k] = liste[i]
BY SansCleGardeLesAutres DEF Gardees
-----------------------------------------------------------------------------
(* The order of the dates, a list at a time.                               *)
Dates(S) == \A e \in S : e.date \in Nat
Triee(liste) ==
    \A i, j \in DOMAIN liste : i < j => liste[i].date <= liste[j].date

(* planifier puts the entry at its place (PD_Planificateur.m:68-73).       *)
LEMMA InsererTriee ==
    ASSUME NEW S, Dates(S), NEW l \in Seq(S), Triee(l), NEW e \in S
    PROVE  /\ InsertAt(l, Rang(l, e), e) \in Seq(S)
           /\ Triee(InsertAt(l, Rang(l, e), e))
<1> DEFINE r == Rang(l, e)
           m == InsertAt(l, r, e)
           n == Len(l)
<1>1. n \in Nat /\ DOMAIN l = 1 .. n
  OBVIOUS
<1>2. /\ r \in 1 .. n + 1
      /\ \A i \in 1 .. n : i < r => ~(e.date < l[i].date)
      /\ r <= n => e.date < l[r].date
  BY <1>1, RangDansLaListe
<1> HIDE DEF r
<1>3. /\ m \in Seq(S) /\ Len(m) = n + 1
      /\ \A k \in 1 .. n + 1 : m[k] =
           IF k < r THEN l[k] ELSE IF k = r THEN e ELSE l[k - 1]
  BY <1>2, InsererA
<1> HIDE DEF m
<1>4. DOMAIN m = 1 .. n + 1
  BY <1>3
<1>5. /\ e.date \in Nat
      /\ \A i \in 1 .. n : l[i].date \in Nat
  BY DEF Dates
<1>6. \A i, j \in 1 .. n : i < j => l[i].date <= l[j].date
  BY DEF Triee
<1>7. \A i \in 1 .. n : r <= i => e.date < l[i].date
  <2> SUFFICES ASSUME NEW i \in 1 .. n, r <= i
               PROVE  e.date < l[i].date
    OBVIOUS
  <2>1. r \in 1 .. n /\ e.date < l[r].date
    BY <1>1, <1>2
  <2>2. l[r].date <= l[i].date
    BY <1>5, <1>6, <2>1
  <2>3. QED
    BY <1>5, <2>1, <2>2
<1>8. \A i \in 1 .. n : i < r => l[i].date <= e.date
  BY <1>2, <1>5
<1> HIDE DEF n
<1>9. ASSUME NEW i \in 1 .. n + 1, NEW j \in 1 .. n + 1, i < j
      PROVE  m[i].date <= m[j].date
  <2>1. CASE j < r
    BY <1>1, <1>2, <1>3, <1>6, <1>9, <2>1
  <2>2. CASE j = r
    BY <1>1, <1>2, <1>3, <1>8, <1>9, <2>2
  <2>3. CASE r < j /\ i < r
    <3>1. m[i] = l[i] /\ m[j] = l[j - 1] /\ i \in 1 .. n /\ j - 1 \in 1 .. n
      BY <1>1, <1>2, <1>3, <2>3
    <3>2. l[i].date <= e.date /\ e.date < l[j - 1].date
      BY <1>2, <1>7, <1>8, <2>3, <3>1
    <3>3. QED
      BY <1>5, <3>1, <3>2
  <2>4. CASE i = r
    <3>1. m[i] = e /\ m[j] = l[j - 1] /\ j - 1 \in 1 .. n /\ r <= j - 1
      BY <1>1, <1>2, <1>3, <1>9, <2>4
    <3>2. QED
      BY <1>5, <1>7, <3>1
  <2>5. CASE r < i
    <3>1. /\ m[i] = l[i - 1] /\ m[j] = l[j - 1]
          /\ i - 1 \in 1 .. n /\ j - 1 \in 1 .. n /\ i - 1 < j - 1
      BY <1>1, <1>2, <1>3, <1>9, <2>5
    <3>2. QED
      BY <1>6, <3>1
  <2>6. j < r \/ j = r \/ (r < j /\ i < r) \/ i = r \/ r < i
    BY <1>1, <1>2
  <2>7. QED
    BY <2>1, <2>2, <2>3, <2>4, <2>5, <2>6, Zenon
<1>10. QED
  BY <1>3, <1>4, <1>9 DEF Triee, m, r

(* ordonnancer: removes one entry (PD_Ordonnanceur.m:68-92).               *)
LEMMA RetirerTriee ==
    ASSUME NEW S, Dates(S), NEW l \in Seq(S), Triee(l),
           NEW i \in DOMAIN l
    PROVE  RemoveAt(l, i) \in Seq(S) /\ Triee(RemoveAt(l, i))
<1> DEFINE m == RemoveAt(l, i)
           n == Len(l)
<1>1. n \in Nat /\ i \in 1 .. n
  OBVIOUS
<1>2. /\ m \in Seq(S) /\ Len(m) = n - 1
      /\ \A k \in 1 .. n - 1 : m[k] = IF k < i THEN l[k] ELSE l[k + 1]
  BY RetirerA
<1>3. \A a, b \in 1 .. n : a < b => l[a].date <= l[b].date
  BY DEF Triee
<1> HIDE DEF m, n
<1>4. ASSUME NEW a \in 1 .. n - 1, NEW b \in 1 .. n - 1, a < b
      PROVE  m[a].date <= m[b].date
  <2>1. CASE b < i
    BY <1>1, <1>2, <1>3, <1>4, <2>1
  <2>2. CASE a < i /\ i <= b
    <3>1. m[a] = l[a] /\ m[b] = l[b + 1]
      BY <1>1, <1>2, <2>2
    <3>2. a \in 1 .. n /\ b + 1 \in 1 .. n /\ a < b + 1
      BY <1>1, <1>4
    <3>3. QED
      BY <1>3, <3>1, <3>2
  <2>3. CASE i <= a
    <3>1. m[a] = l[a + 1] /\ m[b] = l[b + 1]
      BY <1>1, <1>2, <1>4, <2>3
    <3>2. a + 1 \in 1 .. n /\ b + 1 \in 1 .. n /\ a + 1 < b + 1
      BY <1>1, <1>4
    <3>3. QED
      BY <1>3, <3>1, <3>2
  <2>4. b < i \/ (a < i /\ i <= b) \/ i <= a
    BY <1>1
  <2>5. QED
    BY <2>1, <2>2, <2>3, <2>4, Zenon
<1>5. DOMAIN m = 1 .. n - 1
  BY <1>2
<1>6. QED
  BY <1>2, <1>4, <1>5 DEF Triee, m

(* deplanifierCle removes the entries of a key (PD_Planificateur.m:160).   *)
LEMMA SansCleTriee ==
    ASSUME NEW S, Dates(S), NEW l \in Seq(S), Triee(l), NEW id
    PROVE  SansCle(l, id) \in Seq(S) /\ Triee(SansCle(l, id))
<1> DEFINE m == SansCle(l, id)
           G == Gardees(l, id)
<1>1. PICK f \in [DOMAIN m -> G] :
         /\ \A k \in DOMAIN m : m[k] = l[f[k]]
         /\ \A k, q \in DOMAIN m : k < q => f[k] < f[q]
  BY SansCleGardeLesAutres
<1>2. m \in Seq(S)
  BY SansCleGardeLesAutres
<1>3. G \subseteq DOMAIN l
  BY DEF Gardees
<1> HIDE DEF m, G
<1>4. ASSUME NEW i \in DOMAIN m, NEW j \in DOMAIN m, i < j
      PROVE  m[i].date <= m[j].date
  <2>1. f[i] \in DOMAIN l /\ f[j] \in DOMAIN l /\ f[i] < f[j]
    BY <1>1, <1>3, <1>4
  <2>2. l[f[i]].date <= l[f[j]].date
    BY <2>1 DEF Triee
  <2>3. QED
    BY <1>1, <2>2
<1>5. QED
  BY <1>2, <1>4 DEF Triee, m
=============================================================================
