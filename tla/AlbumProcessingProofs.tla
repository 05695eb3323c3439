----------------------- MODULE AlbumProcessingProofs -----------------------
(***************************************************************************)
(* Proofs about AlbumProcessing, whatever exports, edits, retries, crashes *)
(* and imports there are: every step of an album is in exactly one         *)
(* chapter, unless a run saves between the check of a tab's chapters and   *)
(* their commit; every step can be read back; after a run the rows and the *)
(* files match; a run without failures leaves no photo out, and one that   *)
(* no edit crosses keeps what the user made.                               *)
(*                                                                         *)
(* The chapters need IInv alone.  The rest is stacked on it: DInv, what    *)
(* the folder and the run hold of the export; RInv, that every album a     *)
(* step may read or write is readable; FInv, how files and rows match; and *)
(* on these PInv, what a run has seen of the export, and EInv, what it     *)
(* keeps of the album it has read.                                         *)
(***************************************************************************)
EXTENDS AlbumProcessing, FiniteSetTheorems, SequenceTheorems, NaturalsInduction,
        WellFoundedInduction, TLAPS

Below(S, x) == {y \in S : y < x}

\* Of two numbers the greater has more numbers of the set below it.
LEMMA RankOrders ==
    ASSUME NEW S, S \subseteq Int, IsFiniteSet(S), NEW x \in S, NEW z \in S, x < z
    PROVE  /\ Cardinality(Below(S, x)) \in Nat /\ Cardinality(Below(S, z)) \in Nat
           /\ Cardinality(Below(S, x)) < Cardinality(Below(S, z))
<1>1. /\ Below(S, x) \in SUBSET Below(S, z) /\ Below(S, z) \in SUBSET S
      /\ Below(S, x) \in SUBSET S
      /\ x \in Below(S, z) /\ x \notin Below(S, x)
  <2>1. \A y \in S : y \in Int
    OBVIOUS
  <2>2. \A y \in S : y < x => y < z
    BY <2>1
  <2>3. ~(x < x)
    BY <2>1
  <2> QED BY <2>2, <2>3 DEF Below
<1>2. IsFiniteSet(Below(S, x)) /\ IsFiniteSet(Below(S, z))
  BY <1>1, FS_Subset
<1>3. Cardinality(Below(S, x)) \in Nat /\ Cardinality(Below(S, z)) \in Nat
  BY <1>2, FS_CardinalityType
<1>4. /\ Cardinality(Below(S, x)) <= Cardinality(Below(S, z))
      /\ Cardinality(Below(S, x)) # Cardinality(Below(S, z))
  BY <1>1, <1>2, FS_Subset
<1> QED BY <1>3, <1>4

\* A number with k others below it, for each k: they are the places in the order.
LEMMA RankIsOnto ==
    ASSUME NEW S, S \subseteq Int, IsFiniteSet(S)
    PROVE  /\ Cardinality(S) \in Nat
           /\ \A x \in S : Cardinality(Below(S, x)) \in 0 .. Cardinality(S) - 1
           /\ \A x, z \in S : Cardinality(Below(S, x)) = Cardinality(Below(S, z)) => x = z
           /\ \A k \in 0 .. Cardinality(S) - 1 : \E x \in S : Cardinality(Below(S, x)) = k
<1> DEFINE n == Cardinality(S)
           rank == [x \in S |-> Cardinality(Below(S, x))]
<1>1. n \in Nat
  BY FS_CardinalityType
<1>2. ASSUME NEW x \in S PROVE Cardinality(Below(S, x)) \in 0 .. n - 1
  <2>1. Below(S, x) \in SUBSET S /\ x \notin Below(S, x)
    BY DEF Below
  <2>2. IsFiniteSet(Below(S, x)) /\ Cardinality(Below(S, x)) <= n
        /\ Cardinality(Below(S, x)) # n
    BY <2>1, FS_Subset
  <2>3. Cardinality(Below(S, x)) \in Nat
    BY <2>2, FS_CardinalityType
  <2> QED BY <1>1, <2>2, <2>3
<1>3. ASSUME NEW x \in S, NEW z \in S, Cardinality(Below(S, x)) = Cardinality(Below(S, z))
      PROVE  x = z
  <2>1. x \in Int /\ z \in Int
    OBVIOUS
  <2>2. ASSUME x < z PROVE FALSE
    <3>1. /\ Cardinality(Below(S, x)) \in Nat
          /\ Cardinality(Below(S, x)) < Cardinality(Below(S, z))
      BY ONLY <2>2, RankOrders, S \subseteq Int, IsFiniteSet(S), x \in S, z \in S
    <3> QED BY ONLY <1>3, <3>1
  <2>3. ASSUME z < x PROVE FALSE
    <3>1. /\ Cardinality(Below(S, x)) \in Nat
          /\ Cardinality(Below(S, z)) < Cardinality(Below(S, x))
      BY ONLY <2>3, RankOrders, S \subseteq Int, IsFiniteSet(S), x \in S, z \in S
    <3> QED BY ONLY <1>3, <3>1
  <2> QED BY <2>1, <2>2, <2>3
<1>4. rank \in Injection(S, 0 .. n - 1)
  BY <1>2, <1>3 DEF Injection, IsInjective
<1>5. IsFiniteSet(0 .. n - 1) /\ Cardinality(0 .. n - 1) = n
  BY <1>1, FS_Interval
<1>6. rank \in Surjection(S, 0 .. n - 1)
  BY <1>4, <1>5, FS_Injection
<1>7. \A k \in 0 .. n - 1 : \E x \in S : Cardinality(Below(S, x)) = k
  <2>1. \A k \in 0 .. n - 1 : \E x \in S : rank[x] = k
    BY <1>6, Zenon DEF Surjection
  <2> QED BY <2>1
<1> QED BY <1>1, <1>2, <1>3, <1>7

\* A finite set of numbers in its order: each of them, once, and the smaller one first.
LEMMA AscendingIs ==
    ASSUME NEW S, S \subseteq Int, IsFiniteSet(S)
    PROVE  /\ Ascending(S) \in Seq(Int)
           /\ ToSet(Ascending(S)) = S
           /\ \A i, j \in DOMAIN Ascending(S) : Ascending(S)[i] = Ascending(S)[j] => i = j
           /\ \A i, j \in DOMAIN Ascending(S) : i < j => Ascending(S)[i] < Ascending(S)[j]
<1> DEFINE n == Cardinality(S)
           at(i) == CHOOSE x \in S : Cardinality(Below(S, x)) = i - 1
<1>1. n \in Nat
  BY RankIsOnto
<1>2. Ascending(S) = [i \in 1 .. n |-> at(i)]
  BY DEF Ascending, Below
<1>3. ASSUME NEW i \in 1 .. n PROVE at(i) \in S /\ Cardinality(Below(S, at(i))) = i - 1
  <2>1. i - 1 \in 0 .. n - 1
    BY <1>1
  <2>2. \E x \in S : Cardinality(Below(S, x)) = i - 1
    BY <2>1, RankIsOnto
  <2> QED BY <2>2
<1> HIDE DEF at, n
<1>4. DOMAIN Ascending(S) = 1 .. n /\ \A i \in 1 .. n : Ascending(S)[i] = at(i)
  BY <1>2
<1>5. Ascending(S) \in [1 .. n -> Int]
  BY <1>2, <1>3
<1>6. Ascending(S) \in Seq(Int)
  BY <1>1, <1>5, IsASeq
<1>7. ASSUME NEW i \in 1 .. n, NEW j \in 1 .. n, at(i) = at(j) PROVE i = j
  <2>1. i - 1 = j - 1
    BY <1>3, <1>7
  <2> QED BY <1>1, <2>1
<1>8. ASSUME NEW x \in S PROVE \E i \in 1 .. n : at(i) = x
  <2> DEFINE k == Cardinality(Below(S, x))
  <2>1. k \in 0 .. n - 1
    BY RankIsOnto DEF n
  <2>2. k + 1 \in 1 .. n /\ (k + 1) - 1 = k
    BY <1>1, <2>1
  <2>3. at(k + 1) \in S /\ Cardinality(Below(S, at(k + 1))) = k
    BY <1>3, <2>2
  <2>4. at(k + 1) = x
    BY <2>3, RankIsOnto
  <2> QED BY <2>2, <2>4
<1>9. ToSet(Ascending(S)) = S
  BY <1>3, <1>4, <1>8 DEF ToSet
<1>10. ASSUME NEW i \in 1 .. n, NEW j \in 1 .. n, i < j PROVE at(i) < at(j)
  <2>1. at(i) \in S /\ at(j) \in S /\ at(i) \in Int /\ at(j) \in Int
    BY <1>3
  <2>2. at(i) # at(j)
    BY <1>1, <1>7, <1>10
  <2>3. ASSUME at(j) < at(i) PROVE FALSE
    <3>1. Cardinality(Below(S, at(j))) < Cardinality(Below(S, at(i)))
      BY <2>1, <2>3, RankOrders
    <3> QED BY <1>1, <1>3, <1>10, <3>1
  <2> QED BY <2>1, <2>2, <2>3
<1> QED BY <1>4, <1>6, <1>7, <1>9, <1>10

-----------------------------------------------------------------------------
(* Chapters *)

\* A sequence of chapters, each with a sequence of numbers of steps.
HasSteps(chapter) == "steps" \in DOMAIN chapter /\ chapter.steps \in Seq(Int)

IsChapters(chapters) ==
    /\ chapters \in Seq({chapters[i] : i \in DOMAIN chapters})
    /\ \A i \in DOMAIN chapters : HasSteps(chapters[i])

\* Whatever set the chapters are from.
LEMMA ChaptersFrom ==
    ASSUME NEW E, \A e \in E : HasSteps(e), NEW chapters \in Seq(E)
    PROVE  IsChapters(chapters)
<1>1. \A i \in DOMAIN chapters : chapters[i] \in E
  OBVIOUS
<1>2. DOMAIN chapters = 1 .. Len(chapters) /\ Len(chapters) \in Nat
      /\ chapters = [i \in 1 .. Len(chapters) |-> chapters[i]]
  OBVIOUS
<1>3. chapters \in Seq({chapters[i] : i \in DOMAIN chapters})
  BY ONLY <1>2
<1> QED BY ONLY <1>1, <1>3, \A e \in E : HasSteps(e) DEF IsChapters

LEMMA NoChapters == IsChapters(<<>>) /\ NoDuplicates(<<>>) /\ Assigned(<<>>) = {}
<1>1. <<>> \in Seq({}) /\ \A e \in {} : HasSteps(e)
  OBVIOUS
<1>2. IsChapters(<<>>)
  BY <1>1, ChaptersFrom
<1> QED BY <1>2 DEF NoDuplicates, Assigned

\* Only the steps of the chapters count.
LEMMA SameSteps ==
    ASSUME NEW a, IsChapters(a), NoDuplicates(a), NEW b,
           DOMAIN b = DOMAIN a, b = [i \in DOMAIN a |-> b[i]],
           \A i \in DOMAIN a : HasSteps(b[i]) /\ b[i].steps = a[i].steps
    PROVE  /\ IsChapters(b) /\ NoDuplicates(b) /\ Assigned(b) = Assigned(a)
           /\ a # <<>> => b # <<>>
<1>1. DOMAIN a = 1 .. Len(a) /\ Len(a) \in Nat
  BY DEF IsChapters
<1> DEFINE E == {b[i] : i \in DOMAIN a}
<1>2. b \in Seq(E) /\ \A e \in E : HasSteps(e)
  BY <1>1
<1>3. IsChapters(b)
  <2> HIDE DEF E
  <2> QED BY ONLY <1>2, ChaptersFrom
<1>4. NoDuplicates(b)
  BY DEF NoDuplicates
<1>5. Assigned(b) = Assigned(a)
  BY DEF Assigned
<1>6. a # <<>> => b # <<>>
  <2>1. ASSUME b = <<>> PROVE a = <<>>
    <3>1. DOMAIN a = {}
      BY <2>1
    <3>2. a \in Seq({a[i] : i \in DOMAIN a}) /\ Len(a) = 0
      BY <1>1, <3>1 DEF IsChapters
    <3> QED BY <3>2
  <2> QED BY <2>1
<1> QED BY <1>3, <1>4, <1>5, <1>6

\* Other covers change no chapter's steps.
LEMMA FixedCovers ==
    ASSUME NEW chapters, IsChapters(chapters), NoDuplicates(chapters), NEW eligible, NEW fallback
    PROVE  LET fixed == FixAlbumCovers(chapters, eligible, fallback)
           IN  /\ IsChapters(fixed) /\ NoDuplicates(fixed)
               /\ Assigned(fixed) = Assigned(chapters)
               /\ chapters # <<>> => fixed # <<>>
<1> DEFINE fixed == FixAlbumCovers(chapters, eligible, fallback)
<1>1. DOMAIN fixed = DOMAIN chapters /\ fixed = [i \in DOMAIN chapters |-> fixed[i]]
  BY DEF FixAlbumCovers
<1>2. ASSUME NEW i \in DOMAIN chapters
      PROVE  HasSteps(fixed[i]) /\ fixed[i].steps = chapters[i].steps
  <2>1. "steps" \in DOMAIN chapters[i] /\ chapters[i].steps \in Seq(Int)
    BY DEF IsChapters, HasSteps
  <2>2. "steps" \in DOMAIN fixed[i] /\ fixed[i].steps = chapters[i].steps
    BY DEF FixAlbumCovers
  <2> QED BY <2>1, <2>2 DEF HasSteps
<1> HIDE DEF fixed
<1>3. /\ IsChapters(fixed) /\ NoDuplicates(fixed) /\ Assigned(fixed) = Assigned(chapters)
      /\ chapters # <<>> => fixed # <<>>
  BY ONLY <1>1, <1>2, SameSteps, IsChapters(chapters), NoDuplicates(chapters)
<1> QED BY <1>3 DEF fixed

LEMMA AssignedIs ==
    ASSUME NEW chapters, NEW s
    PROVE  s \in Assigned(chapters) <=>
             \E i \in DOMAIN chapters : \E p \in DOMAIN chapters[i].steps : chapters[i].steps[p] = s
BY DEF Assigned, ToSet

LEMMA AppendedSteps ==
    ASSUME NEW a \in Seq(Int), NEW b \in Seq(Int)
    PROVE  /\ a \o b \in Seq(Int) /\ Len(a) \in Nat /\ Len(b) \in Nat
           /\ DOMAIN (a \o b) = 1 .. Len(a) + Len(b)
           /\ DOMAIN a = 1 .. Len(a) /\ DOMAIN b = 1 .. Len(b)
           /\ \A p \in 1 .. Len(a) : (a \o b)[p] = a[p]
           /\ \A p \in 1 .. Len(a) + Len(b) : p \notin 1 .. Len(a) =>
                 p - Len(a) \in 1 .. Len(b) /\ (a \o b)[p] = b[p - Len(a)]
           /\ \A p \in 1 .. Len(b) : Len(a) + p \in 1 .. Len(a) + Len(b) /\ (a \o b)[Len(a) + p] = b[p]
<1>1. /\ Len(a) \in Nat /\ Len(b) \in Nat /\ DOMAIN a = 1 .. Len(a) /\ DOMAIN b = 1 .. Len(b)
      /\ a \o b \in Seq(Int) /\ DOMAIN (a \o b) = 1 .. Len(a) + Len(b)
  OBVIOUS
<1>2. \A p \in 1 .. Len(a) + Len(b) :
         (a \o b)[p] = IF p <= Len(a) THEN a[p] ELSE b[p - Len(a)]
  OBVIOUS
<1>3. ASSUME NEW p \in 1 .. Len(a) PROVE (a \o b)[p] = a[p]
  <2>1. p \in 1 .. Len(a) + Len(b) /\ p <= Len(a)
    BY <1>1
  <2> QED BY ONLY <1>2, <2>1
<1>4. ASSUME NEW p \in 1 .. Len(a) + Len(b), p \notin 1 .. Len(a)
      PROVE  p - Len(a) \in 1 .. Len(b) /\ (a \o b)[p] = b[p - Len(a)]
  <2>1. ~(p <= Len(a)) /\ p - Len(a) \in 1 .. Len(b)
    BY ONLY <1>1, <1>4, p \in 1 .. Len(a) + Len(b)
  <2> QED BY ONLY <1>2, <2>1, p \in 1 .. Len(a) + Len(b)
<1>5. ASSUME NEW p \in 1 .. Len(b)
      PROVE  Len(a) + p \in 1 .. Len(a) + Len(b) /\ (a \o b)[Len(a) + p] = b[p]
  <2>1. /\ Len(a) + p \in 1 .. Len(a) + Len(b) /\ ~(Len(a) + p <= Len(a))
        /\ (Len(a) + p) - Len(a) = p
    BY ONLY <1>1, p \in 1 .. Len(b)
  <2> QED BY ONLY <1>2, <2>1
<1> QED BY ONLY <1>1, <1>3, <1>4, <1>5

LEMMA NotTwice ==
    ASSUME NEW chapters, NoDuplicates(chapters),
           NEW i \in DOMAIN chapters, NEW j \in DOMAIN chapters,
           NEW p \in DOMAIN chapters[i].steps, NEW q \in DOMAIN chapters[j].steps,
           chapters[i].steps[p] = chapters[j].steps[q]
    PROVE  i = j /\ p = q
BY Zenon DEF NoDuplicates

\* A last chapter that gets the steps of the album that no chapter has yet.
LEMMA NewStepsAssigned ==
    ASSUME NEW chapters, IsChapters(chapters), NoDuplicates(chapters), chapters # <<>>,
           NEW new, new \subseteq Int, IsFiniteSet(new)
    PROVE  LET all == AssignNewSteps(chapters, new)
           IN  /\ IsChapters(all) /\ NoDuplicates(all) /\ all # <<>>
               /\ Assigned(all) = Assigned(chapters) \cup new
<1> DEFINE n == Len(chapters)
           missing == Ascending(new \ Assigned(chapters))
           all == AssignNewSteps(chapters, new)
           longer == chapters[n].steps \o missing
<1>1. DOMAIN chapters = 1 .. n /\ n \in Nat \ {0}
  BY DEF IsChapters
<1>2. \A i \in 1 .. n : HasSteps(chapters[i])
  BY <1>1 DEF IsChapters
<1>3. new \ Assigned(chapters) \subseteq Int /\ IsFiniteSet(new \ Assigned(chapters))
  BY FS_Subset
<1>4. /\ missing \in Seq(Int) /\ ToSet(missing) = new \ Assigned(chapters)
      /\ \A i, j \in DOMAIN missing : missing[i] = missing[j] => i = j
  <2> HIDE DEF missing
  <2>1. missing = Ascending(new \ Assigned(chapters))
    BY DEF missing
  <2> QED BY ONLY <1>3, <2>1, AscendingIs
<1>5. /\ n \in 1 .. n
      /\ "steps" \in DOMAIN chapters[n] /\ chapters[n].steps \in Seq(Int)
  BY <1>1, <1>2 DEF HasSteps
<1>6. all = [chapters EXCEPT ![n].steps = @ \o missing]
  BY DEF AssignNewSteps
<1> HIDE DEF missing, all, n
<1>7. /\ DOMAIN all = 1 .. n /\ all = [i \in 1 .. n |-> all[i]]
      /\ \A i \in 1 .. n : i # n => all[i] = chapters[i]
      /\ DOMAIN all[n] = DOMAIN chapters[n] /\ all[n].steps = longer
  BY <1>1, <1>5, <1>6
<1> DEFINE m == Len(chapters[n].steps)
           k == Len(missing)
<1>8. longer \in Seq(Int)
  BY <1>4, <1>5
<1>9. m \in Nat /\ k \in Nat /\ DOMAIN longer = 1 .. m + k /\ DOMAIN missing = 1 .. k
      /\ DOMAIN chapters[n].steps = 1 .. m
      /\ (\A p \in 1 .. m : longer[p] = chapters[n].steps[p])
      /\ (\A p \in 1 .. m + k : p \notin 1 .. m => p - m \in 1 .. k /\ longer[p] = missing[p - m])
      /\ (\A p \in 1 .. k : m + p \in 1 .. m + k /\ longer[m + p] = missing[p])
  BY ONLY <1>4, <1>5, AppendedSteps
<1> HIDE DEF longer
<1> HIDE DEF m, k
<1>10. IsChapters(all) /\ all # <<>>
  <2>1. \A i \in 1 .. n : HasSteps(all[i])
    BY <1>2, <1>5, <1>7, <1>8 DEF HasSteps
  <2> DEFINE E == {all[i] : i \in 1 .. n}
  <2>2. all \in Seq(E) /\ \A e \in E : HasSteps(e)
    BY <1>1, <1>7, <2>1
  <2>3. all # <<>>
    BY <1>1, <1>7
  <2> HIDE DEF E
  <2> QED BY ONLY <2>2, <2>3, ChaptersFrom
<1>11. \A p \in 1 .. k : missing[p] \in new /\ missing[p] \notin Assigned(chapters)
  BY <1>4, <1>9 DEF ToSet
<1>12. \A i \in 1 .. n : \A p \in DOMAIN chapters[i].steps : chapters[i].steps[p] \in Assigned(chapters)
  BY <1>1, AssignedIs
<1>13. \A i \in 1 .. n : \A p \in DOMAIN all[i].steps :
          \/ p \in DOMAIN chapters[i].steps /\ all[i].steps[p] = chapters[i].steps[p]
          \/ i = n /\ p \notin 1 .. m /\ p \in 1 .. m + k /\ p - m \in 1 .. k
             /\ all[i].steps[p] = missing[p - m]
  BY ONLY <1>1, <1>7, <1>9
<1>14. NoDuplicates(all)
  <2> SUFFICES ASSUME NEW i \in 1 .. n, NEW j \in 1 .. n, NEW p \in DOMAIN all[i].steps,
                      NEW q \in DOMAIN all[j].steps, all[i].steps[p] = all[j].steps[q]
               PROVE  i = j /\ p = q
    BY <1>7 DEF NoDuplicates
  <2>1. CASE /\ p \in DOMAIN chapters[i].steps /\ all[i].steps[p] = chapters[i].steps[p]
             /\ q \in DOMAIN chapters[j].steps /\ all[j].steps[q] = chapters[j].steps[q]
    <3>1. chapters[i].steps[p] = chapters[j].steps[q]
      BY ONLY <2>1, all[i].steps[p] = all[j].steps[q]
    <3> QED BY ONLY <1>1, <2>1, <3>1, NoDuplicates(chapters), NotTwice, i \in 1 .. n, j \in 1 .. n
  <2>2. CASE /\ i = n /\ p - m \in 1 .. k /\ p \in 1 .. m + k /\ all[i].steps[p] = missing[p - m]
             /\ j = n /\ q - m \in 1 .. k /\ q \in 1 .. m + k /\ all[j].steps[q] = missing[q - m]
    <3>1. p - m = q - m
      BY ONLY <1>4, <1>9, <2>2, all[i].steps[p] = all[j].steps[q]
    <3> QED BY ONLY <1>9, <2>2, <3>1
  <2>3. CASE /\ p \in DOMAIN chapters[i].steps /\ all[i].steps[p] = chapters[i].steps[p]
             /\ q - m \in 1 .. k /\ all[j].steps[q] = missing[q - m]
    BY ONLY <1>11, <1>12, <2>3, all[i].steps[p] = all[j].steps[q], i \in 1 .. n
  <2>4. CASE /\ q \in DOMAIN chapters[j].steps /\ all[j].steps[q] = chapters[j].steps[q]
             /\ p - m \in 1 .. k /\ all[i].steps[p] = missing[p - m]
    BY ONLY <1>11, <1>12, <2>4, all[i].steps[p] = all[j].steps[q], j \in 1 .. n
  <2> QED BY ONLY <1>13, <2>1, <2>2, <2>3, <2>4, i \in 1 .. n, j \in 1 .. n,
                  p \in DOMAIN all[i].steps, q \in DOMAIN all[j].steps
<1>15. Assigned(all) = Assigned(chapters) \cup new
  <2>1. ASSUME NEW s \in Assigned(all) PROVE s \in Assigned(chapters) \cup new
    <3>1. PICK i \in 1 .. n : \E p \in DOMAIN all[i].steps : all[i].steps[p] = s
      <4>1. DOMAIN all = 1 .. n
        BY <1>7
      <4>2. \E i \in DOMAIN all : \E p \in DOMAIN all[i].steps : all[i].steps[p] = s
        BY ONLY <2>1, AssignedIs, Zenon
      <4> QED BY ONLY <4>1, <4>2
    <3>2. PICK p \in DOMAIN all[i].steps : all[i].steps[p] = s
      BY <3>1
    <3> QED BY ONLY <1>11, <1>12, <1>13, <3>2
  <2>2. ASSUME NEW s \in Assigned(chapters) PROVE s \in Assigned(all)
    <3>1. PICK i \in 1 .. n : \E p \in DOMAIN chapters[i].steps : chapters[i].steps[p] = s
      BY <1>1, AssignedIs
    <3>2. PICK p \in DOMAIN chapters[i].steps : chapters[i].steps[p] = s
      BY <3>1
    <3>3. p \in DOMAIN all[i].steps /\ all[i].steps[p] = s
      <4>1. CASE i # n
        BY ONLY <1>7, <3>2, <4>1
      <4>2. CASE i = n
        <5>1. p \in 1 .. m /\ chapters[n].steps[p] = s
          BY ONLY <1>9, <3>2, <4>2
        <5>2. p \in 1 .. m + k /\ longer[p] = s
          BY ONLY <1>9, <5>1
        <5> QED BY ONLY <1>7, <1>9, <4>2, <5>2
      <4> QED BY <4>1, <4>2
    <3> QED BY <1>7, <3>3, AssignedIs
  <2>3. ASSUME NEW s \in new, s \notin Assigned(chapters) PROVE s \in Assigned(all)
    <3>1. PICK p \in 1 .. k : missing[p] = s
      BY <1>4, <1>9, <2>3 DEF ToSet
    <3>2. m + p \in DOMAIN all[n].steps /\ all[n].steps[m + p] = s
      BY ONLY <1>7, <1>9, <3>1
    <3> QED BY <1>5, <1>7, <3>2, AssignedIs
  <2> QED BY <2>1, <2>2, <2>3
<1> QED BY <1>10, <1>14, <1>15 DEF all

\* The one chapter of a new album.
LEMMA OneChapter ==
    ASSUME NEW S, S \subseteq Int, IsFiniteSet(S), NEW chapter,
           "steps" \in DOMAIN chapter, chapter.steps = Ascending(S)
    PROVE  /\ IsChapters(<<chapter>>) /\ NoDuplicates(<<chapter>>)
           /\ Assigned(<<chapter>>) = S
<1>1. /\ chapter.steps \in Seq(Int) /\ ToSet(chapter.steps) = S
      /\ \A i, j \in DOMAIN chapter.steps : chapter.steps[i] = chapter.steps[j] => i = j
  BY AscendingIs
<1>2. DOMAIN <<chapter>> = {1} /\ <<chapter>>[1] = chapter /\ <<chapter>> \in Seq({chapter})
  OBVIOUS
<1>3. IsChapters(<<chapter>>)
  <2>1. \A e \in {chapter} : HasSteps(e)
    BY <1>1 DEF HasSteps
  <2> QED BY ONLY <1>2, <2>1, ChaptersFrom
<1>4. NoDuplicates(<<chapter>>)
  BY <1>1, <1>2 DEF NoDuplicates
<1>5. Assigned(<<chapter>>) = S
  BY <1>1, <1>2 DEF Assigned
<1> QED BY <1>3, <1>4, <1>5

\* Splitting and joining leaves chapters.
LEMMA EditedChapters ==
    ASSUME NEW chapters, IsChapters(chapters), NEW edited \in ChapterEdits(chapters)
    PROVE  IsChapters(edited)
<1> DEFINE with(i, s) == [chapters[i] EXCEPT !.steps = s]
           E == {chapters[i] : i \in DOMAIN chapters}
                  \cup {with(i, s) : i \in DOMAIN chapters, s \in Seq(Int)}
<1>1. /\ DOMAIN chapters = 1 .. Len(chapters) /\ Len(chapters) \in Nat
      /\ chapters \in Seq(E)
  BY DEF IsChapters
<1>2. \A i \in DOMAIN chapters : "steps" \in DOMAIN chapters[i] /\ chapters[i].steps \in Seq(Int)
  BY DEF IsChapters, HasSteps
<1>3. \A e \in E : HasSteps(e)
  BY <1>2 DEF HasSteps
<1>4. \A i \in DOMAIN chapters, s \in Seq(Int) : with(i, s) \in E
  OBVIOUS
<1>5. \A i \in DOMAIN chapters : \A j \in 0 .. Len(chapters[i].steps), k \in 1 .. Len(chapters[i].steps) :
          /\ SubSeq(chapters[i].steps, 1, j) \in Seq(Int)
          /\ SubSeq(chapters[i].steps, k, Len(chapters[i].steps)) \in Seq(Int)
  BY <1>2
<1> HIDE DEF E
<1>6. \A i \in DOMAIN chapters : SubSeq(chapters, 1, i - 1) \in Seq(E)
  BY ONLY <1>1
<1>7. \A i \in Nat : i > 0 => SubSeq(chapters, i, Len(chapters)) \in Seq(E)
  BY ONLY <1>1
<1>8. ASSUME NEW i \in DOMAIN chapters, NEW k \in 1 .. Len(chapters[i].steps) - 1,
             edited = SubSeq(chapters, 1, i - 1)
                        \o <<[chapters[i] EXCEPT !.steps = SubSeq(@, 1, k)],
                             [chapters[i] EXCEPT !.steps = SubSeq(@, k + 1, Len(@))]>>
                        \o SubSeq(chapters, i + 1, Len(chapters))
      PROVE  edited \in Seq(E)
  <2>1. /\ Len(chapters[i].steps) \in Nat
        /\ k \in 0 .. Len(chapters[i].steps) /\ k + 1 \in 1 .. Len(chapters[i].steps)
        /\ i + 1 \in Nat /\ i + 1 > 0
    BY <1>1, <1>2
  <2>2. /\ with(i, SubSeq(chapters[i].steps, 1, k)) \in E
        /\ with(i, SubSeq(chapters[i].steps, k + 1, Len(chapters[i].steps))) \in E
    BY <1>4, <1>5, <2>1
  <2>3. /\ [chapters[i] EXCEPT !.steps = SubSeq(@, 1, k)] \in E
        /\ [chapters[i] EXCEPT !.steps = SubSeq(@, k + 1, Len(@))] \in E
    BY <2>2
  <2>4. SubSeq(chapters, 1, i - 1) \in Seq(E) /\ SubSeq(chapters, i + 1, Len(chapters)) \in Seq(E)
    BY <1>6, <1>7, <2>1
  <2> DEFINE a == [chapters[i] EXCEPT !.steps = SubSeq(@, 1, k)]
             b == [chapters[i] EXCEPT !.steps = SubSeq(@, k + 1, Len(@))]
             l == SubSeq(chapters, 1, i - 1)
             r == SubSeq(chapters, i + 1, Len(chapters))
  <2>5. edited = l \o <<a, b>> \o r /\ a \in E /\ b \in E /\ l \in Seq(E) /\ r \in Seq(E)
    BY <1>8, <2>3, <2>4
  <2> HIDE DEF a, b, l, r
  <2> QED BY ONLY <2>5
<1>9. ASSUME NEW i \in 1 .. Len(chapters) - 1,
             edited = SubSeq(chapters, 1, i - 1)
                        \o <<[chapters[i] EXCEPT !.steps = @ \o chapters[i + 1].steps]>>
                        \o SubSeq(chapters, i + 2, Len(chapters))
      PROVE  edited \in Seq(E)
  <2>1. i \in DOMAIN chapters /\ i + 1 \in DOMAIN chapters /\ i + 2 \in Nat /\ i + 2 > 0
    BY <1>1
  <2>2. chapters[i].steps \o chapters[i + 1].steps \in Seq(Int)
    BY <1>2, <2>1
  <2>3. with(i, chapters[i].steps \o chapters[i + 1].steps) \in E
    BY <1>4, <2>1, <2>2
  <2> DEFINE a == [chapters[i] EXCEPT !.steps = @ \o chapters[i + 1].steps]
             l == SubSeq(chapters, 1, i - 1)
             r == SubSeq(chapters, i + 2, Len(chapters))
  <2>4. edited = l \o <<a>> \o r /\ a \in E /\ l \in Seq(E) /\ r \in Seq(E)
    BY <1>6, <1>7, <1>9, <2>1, <2>3
  <2> HIDE DEF a, l, r
  <2> QED BY ONLY <2>4
<1> DEFINE split(i, k) == SubSeq(chapters, 1, i - 1)
                            \o <<[chapters[i] EXCEPT !.steps = SubSeq(@, 1, k)],
                                 [chapters[i] EXCEPT !.steps = SubSeq(@, k + 1, Len(@))]>>
                            \o SubSeq(chapters, i + 1, Len(chapters))
           join(i) == SubSeq(chapters, 1, i - 1)
                        \o <<[chapters[i] EXCEPT !.steps = @ \o chapters[i + 1].steps]>>
                        \o SubSeq(chapters, i + 2, Len(chapters))
<1>10. edited \in {join(i) : i \in 1 .. Len(chapters) - 1}
          \cup UNION {{split(i, k) : k \in 1 .. Len(chapters[i].steps) - 1} : i \in DOMAIN chapters}
  BY Zenon DEF ChapterEdits
<1>11. \A i \in DOMAIN chapters : \A k \in 1 .. Len(chapters[i].steps) - 1 :
          edited = split(i, k) => edited \in Seq(E)
  BY ONLY <1>8, Zenon
<1>12. \A i \in 1 .. Len(chapters) - 1 : edited = join(i) => edited \in Seq(E)
  BY ONLY <1>9, Zenon
<1> HIDE DEF split, join
<1>13. edited \in Seq(E)
  <2>1. CASE edited \in {join(i) : i \in 1 .. Len(chapters) - 1}
    BY ONLY <1>12, <2>1
  <2>2. CASE edited \in UNION {{split(i, k) : k \in 1 .. Len(chapters[i].steps) - 1} : i \in DOMAIN chapters}
    <3>1. PICK i \in DOMAIN chapters : edited \in {split(i, k) : k \in 1 .. Len(chapters[i].steps) - 1}
      BY ONLY <2>2
    <3> QED BY ONLY <1>11, <3>1
  <2> QED BY ONLY <1>10, <2>1, <2>2
<1> QED BY ONLY <1>3, <1>13, ChaptersFrom

-----------------------------------------------------------------------------
(* The invariant *)

\* The rows of an album, or a tab's or a run's copy of them.
AlbumSound(a) ==
    /\ DOMAIN a = DOMAIN NoAlbum
    /\ IsChapters(a.chapters) /\ NoDuplicates(a.chapters)
    /\ a.exists => a.chapters # <<>>

Covered(a) == DOMAIN a.steps \subseteq Assigned(a.chapters)

RunSound(r) == DOMAIN r = DOMAIN NoRun /\ AlbumSound(r.old) /\ AlbumSound(r.result)

\* What a run has read and what it has built cover their steps, and so do the
\* rows and the chapters that wait to be stored, until a run saves while some do.
IInv ==
    /\ export \in 1 .. Len(Exports)
    /\ AlbumSound(db) /\ AlbumSound(view) /\ RunSound(run)
    /\ IsChapters(patch) /\ NoDuplicates(patch)
    /\ ~overtaken => /\ Covered(db) /\ Covered(run.old) /\ Covered(run.result)
                     /\ patch # <<>> => DOMAIN db.steps \subseteq Assigned(patch)

LEMMA NothingSound ==
    /\ AlbumSound(NoAlbum) /\ Covered(NoAlbum)
    /\ RunSound(NoRun) /\ NoRun.old = NoAlbum /\ NoRun.result = NoAlbum
    /\ \A pc : LET r == [NoRun EXCEPT !.pc = pc]
               IN  RunSound(r) /\ r.old = NoAlbum /\ r.result = NoAlbum
<1>1. /\ DOMAIN NoAlbum = DOMAIN NoAlbum /\ NoAlbum.chapters = <<>> /\ NoAlbum.steps = <<>>
      /\ ~NoAlbum.exists
  BY DEF NoAlbum
<1>2. AlbumSound(NoAlbum)
  BY <1>1, NoChapters DEF AlbumSound
<1>3. Covered(NoAlbum)
  BY <1>1 DEF Covered
<1>4. NoRun.old = NoAlbum /\ NoRun.result = NoAlbum
  BY DEF NoRun
<1>5. ASSUME NEW pc
      PROVE  LET r == [NoRun EXCEPT !.pc = pc]
             IN  DOMAIN r = DOMAIN NoRun /\ r.old = NoAlbum /\ r.result = NoAlbum
  BY DEF NoRun
<1> QED BY <1>2, <1>3, <1>4, <1>5 DEF RunSound

LEMMA InitHolds == Init => IInv
<1> SUFFICES ASSUME Init PROVE IInv
  OBVIOUS
<1>1. /\ export = 1 /\ db = NoAlbum /\ view = NoAlbum /\ patch = <<>> /\ run = NoRun
  BY Zenon DEF Init
<1>2. export \in 1 .. Len(Exports)
  BY ONLY <1>1, ExportsAssumption
<1> QED BY ONLY <1>1, <1>2, NothingSound, NoChapters DEF IInv

\* A step that keeps the rows, the tab and the checked chapters, and moves on
\* a run without touching what it has read and what it has built.
Moves ==
    /\ UNCHANGED <<export, db, view, patch, overtaken>>
    /\ DOMAIN run' = DOMAIN run /\ run'.old = run.old /\ run'.result = run.result

LEMMA MovesKeeps == IInv /\ Moves => IInv'
<1> SUFFICES ASSUME IInv, Moves PROVE IInv'
  OBVIOUS
<1>1. /\ export' = export /\ db' = db /\ view' = view /\ patch' = patch /\ overtaken' = overtaken
      /\ DOMAIN run' = DOMAIN run /\ run'.old = run.old /\ run'.result = run.result
  BY DEF Moves
<1>2. RunSound(run')
  <2>1. RunSound(run)
    BY DEF IInv
  <2> QED BY ONLY <1>1, <2>1 DEF RunSound
<1>3. ~overtaken' => /\ Covered(db') /\ Covered(run'.old) /\ Covered(run'.result)
                     /\ patch' # <<>> => DOMAIN db'.steps \subseteq Assigned(patch')
  <2>1. ~overtaken => /\ Covered(db) /\ Covered(run.old) /\ Covered(run.result)
                      /\ patch # <<>> => DOMAIN db.steps \subseteq Assigned(patch)
    BY DEF IInv
  <2> QED BY ONLY <1>1, <2>1
<1>4. /\ export' \in 1 .. Len(Exports) /\ AlbumSound(db') /\ AlbumSound(view')
      /\ IsChapters(patch') /\ NoDuplicates(patch')
  BY ONLY <1>1, IInv DEF IInv
<1> QED BY ONLY <1>2, <1>3, <1>4 DEF IInv

LEMMA RunMoves ==
    ASSUME IInv,
           \/ ScanSteps \/ FetchElevations \/ FetchWeather \/ LayoutsDone \/ FlattenFile
           \/ FlattenEnds \/ PhasesEnd \/ DrainQueue \/ PrepareMedia
           \/ (\E s \in TripSteps : FetchLayout(s)) \/ (\E task \in {"weather", "media"} : TaskFails(task))
           \/ OtherStep
    PROVE  Moves
<1>0. {"old", "result", "pc", "scan", "tasks", "layouts", "sentinel", "cover"} = DOMAIN run
  BY DEF IInv, RunSound, NoRun
<1>1. CASE ScanSteps
  BY <1>0, <1>1 DEF ScanSteps, Moves, editor
<1>2. CASE FetchElevations
  BY <1>0, <1>2 DEF FetchElevations, Moves, editor
<1>3. CASE FetchWeather
  BY <1>0, <1>3 DEF FetchWeather, Moves, editor
<1>4. CASE LayoutsDone
  BY <1>0, <1>4 DEF LayoutsDone, Moves, editor
<1>5. CASE FlattenFile
  BY <1>0, <1>5 DEF FlattenFile, Moves, editor
<1>6. CASE FlattenEnds
  BY <1>0, <1>6 DEF FlattenEnds, Moves, editor
<1>7. CASE PhasesEnd
  BY <1>0, <1>7 DEF PhasesEnd, Moves, editor
<1>8. CASE DrainQueue
  BY <1>0, <1>8 DEF DrainQueue, Moves, editor
<1>9. CASE PrepareMedia
  BY <1>0, <1>9 DEF PrepareMedia, Moves, editor
<1>10. ASSUME NEW s \in TripSteps, FetchLayout(s) PROVE Moves
  BY <1>0, <1>10 DEF FetchLayout, Moves, editor
<1>11. ASSUME NEW task \in {"weather", "media"}, TaskFails(task) PROVE Moves
  BY <1>0, <1>11 DEF TaskFails, Moves, editor
<1>12. CASE OtherStep
  BY <1>0, <1>12 DEF OtherStep, OtherFlattens, OtherEnds, OtherCleansUp, Moves, editor
<1> QED BY <1>1, <1>2, <1>3, <1>4, <1>5, <1>6, <1>7, <1>8, <1>9, <1>10, <1>11, <1>12

LEMMA AddingMoves ==
    ASSUME StartImport \/ ImportOne \/ ImportFails \/ ImportCompleted \/ CancelImport
    PROVE  Moves
<1>1. CASE StartImport
  BY <1>1 DEF StartImport, Moves
<1>2. CASE ImportOne
  BY <1>2 DEF ImportOne, Moves
<1>3. CASE ImportFails
  BY <1>3 DEF ImportFails, Moves
<1>4. CASE ImportCompleted
  BY <1>4 DEF ImportCompleted, Moves
<1>5. CASE CancelImport
  BY <1>5 DEF CancelImport, Moves
<1> QED BY <1>1, <1>2, <1>3, <1>4, <1>5

LEMMA RunStarts ==
    ASSUME IInv, LoadTrip \/ ImportAgain \/ FlattenFails \/ SaveFails \/ CleanupMetadata \/ Crash
    PROVE  IInv'
<1>1. CASE LoadTrip
  <2>1. /\ export' = export /\ db' = db /\ view' = view /\ patch' = patch /\ overtaken' = overtaken
    BY <1>1 DEF LoadTrip, editor
  <2>2. /\ DOMAIN run' = DOMAIN NoRun /\ run'.old \in {db, NoAlbum} /\ run'.result = NoAlbum
    BY <1>1 DEF LoadTrip, NoRun
  <2>3. AlbumSound(db) /\ AlbumSound(NoAlbum) /\ Covered(NoAlbum)
    BY NothingSound DEF IInv
  <2>4. RunSound(run')
    BY ONLY <2>2, <2>3 DEF RunSound
  <2>5. ~overtaken => /\ Covered(db) /\ Covered(run'.old) /\ Covered(run'.result)
                      /\ patch # <<>> => DOMAIN db.steps \subseteq Assigned(patch)
    BY <2>2, <2>3 DEF IInv
  <2> QED BY ONLY IInv, <2>1, <2>4, <2>5 DEF IInv
<1> DEFINE Ends == /\ run' = NoRun \/ \E pc : run' = [NoRun EXCEPT !.pc = pc]
                   /\ UNCHANGED <<db, view, overtaken>>
                   /\ patch' \in {patch, <<>>} /\ export' \in 1 .. Len(Exports)
<1>2. ImportAgain => Ends
  <2>1. export < Len(Exports) /\ export' = export + 1 => export' \in 1 .. Len(Exports)
    BY ExportsAssumption DEF IInv
  <2> QED BY <2>1 DEF ImportAgain, editor
<1>3. SaveFails \/ FlattenFails => Ends
  BY DEF SaveFails, FlattenFails, IInv, editor
<1>4. CleanupMetadata => Ends
  BY DEF CleanupMetadata, IInv, editor
<1>5. Crash => Ends
  BY DEF Crash, IInv
<1>6. ASSUME Ends PROVE IInv'
  <2>1. db' = db /\ view' = view /\ overtaken' = overtaken
        /\ patch' \in {patch, <<>>} /\ export' \in 1 .. Len(Exports)
    BY <1>6
  <2>2. RunSound(run') /\ run'.old = NoAlbum /\ run'.result = NoAlbum
    BY <1>6, NothingSound
  <2>3. Covered(NoAlbum) /\ IsChapters(<<>>) /\ NoDuplicates(<<>>)
    BY NothingSound, NoChapters
  <2>4. IsChapters(patch') /\ NoDuplicates(patch')
    BY <2>1, <2>3 DEF IInv
  <2>5. ~overtaken => /\ Covered(db) /\ Covered(run'.old) /\ Covered(run'.result)
                      /\ patch' # <<>> => DOMAIN db.steps \subseteq Assigned(patch')
    BY <2>1, <2>2, <2>3 DEF IInv
  <2> QED BY ONLY IInv, <2>1, <2>2, <2>4, <2>5 DEF IInv
<1> HIDE DEF Ends
<1> QED BY <1>1, <1>2, <1>3, <1>4, <1>5, <1>6

LEMMA SavedKeeps == ASSUME IInv, Saved PROVE IInv'
<1>1. /\ db' = run.result /\ run' = [NoRun EXCEPT !.pc = "cleanup"]
      /\ export' = export /\ view' = view /\ patch' = patch
  BY DEF Saved, editor
<1>2. ~overtaken' => ~overtaken /\ patch = <<>>
  BY Zenon DEF Saved
<1>3. RunSound(run') /\ run'.old = NoAlbum /\ run'.result = NoAlbum /\ Covered(NoAlbum)
  BY <1>1, NothingSound
<1>4. AlbumSound(run.result)
  BY DEF IInv, RunSound
<1>5. ~overtaken => Covered(run.result)
  BY DEF IInv
<1>6. ~overtaken' => /\ Covered(db') /\ Covered(run'.old) /\ Covered(run'.result)
                     /\ patch' # <<>> => DOMAIN db'.steps \subseteq Assigned(patch')
  BY ONLY <1>1, <1>2, <1>3, <1>5
<1> QED BY ONLY IInv, <1>1, <1>3, <1>4, <1>6 DEF IInv

LEMMA TripStepsAre == IInv => TripSteps \subseteq Int /\ IsFiniteSet(TripSteps)
BY ExportsAssumption DEF IInv, TripSteps

\* What a first run builds.
LEMMA BuiltSound ==
    ASSUME IInv
    PROVE  AlbumSound(BuildTripObjects) /\ Covered(BuildTripObjects)
<1> DEFINE result == BuildTripObjects
           chapter == [steps |-> Ascending(TripSteps), front |-> run.cover, back |-> run.cover]
<1>1. /\ DOMAIN result = DOMAIN NoAlbum /\ result.chapters = <<chapter>>
      /\ DOMAIN result.steps = NewSteps
  BY DEF BuildTripObjects, NoAlbum, BuiltSteps
<1>2. "steps" \in DOMAIN chapter /\ chapter.steps = Ascending(TripSteps)
  OBVIOUS
<1> HIDE DEF result, chapter
<1>3. IsChapters(<<chapter>>) /\ NoDuplicates(<<chapter>>) /\ Assigned(<<chapter>>) = TripSteps
  BY <1>2, OneChapter, TripStepsAre
<1>4. <<chapter>> # <<>> /\ NewSteps \subseteq TripSteps
  BY DEF NewSteps
<1>5. AlbumSound(result)
  BY ONLY <1>1, <1>3, <1>4 DEF AlbumSound
<1>6. Covered(result)
  BY ONLY <1>1, <1>3, <1>4 DEF Covered
<1> QED BY <1>5, <1>6 DEF result

\* What a run on an album that exists builds: the steps the export drops stay
\* in their chapters, the ones it adds go into the last one.
LEMMA ReconciledSound ==
    ASSUME IInv, run.old.exists, NEW result \in ReconcileTrip
    PROVE  AlbumSound(result) /\ (~overtaken => Covered(result))
<1>1. PICK eligible, fallback :
         result.chapters = FixAlbumCovers(AssignNewSteps(run.old.chapters, NewSteps), eligible, fallback)
         /\ DOMAIN result = DOMAIN NoAlbum /\ DOMAIN result.steps = TripSteps
  <2> DEFINE old == run.old
             onDisk == {f.name : f \in Top}
             steps == [s \in TripSteps |->
                         IF s \in NewSteps THEN BuiltSteps[s]
                         ELSE ReconcileStep(old.steps[s], run.scan[s], onDisk, old.media)]
             rows == MediaRows(Top, ProbedNames(steps, DOMAIN old.media \cap onDisk))
             eligible == EligibleCovers(rows)
             built(fallback) ==
                [exists |-> TRUE,
                 chapters |-> FixAlbumCovers(AssignNewSteps(old.chapters, NewSteps), eligible, fallback),
                 steps |-> steps, media |-> rows]
  <2>1. ReconcileTrip = {built(fallback) : fallback \in CoverFallbacks(eligible, run.cover, steps)}
    BY Zenon DEF ReconcileTrip
  <2>2. DOMAIN steps = TripSteps
    OBVIOUS
  <2>3. \A fallback : /\ DOMAIN built(fallback) = DOMAIN NoAlbum /\ built(fallback).steps = steps
                      /\ built(fallback).chapters =
                            FixAlbumCovers(AssignNewSteps(old.chapters, NewSteps), eligible, fallback)
    BY DEF NoAlbum
  <2> HIDE DEF built, steps, rows, eligible, onDisk
  <2>4. PICK fallback : result = built(fallback)
    BY <2>1
  <2> QED BY <2>2, <2>3, <2>4
<1>2. NewSteps \subseteq Int /\ IsFiniteSet(NewSteps)
  BY TripStepsAre, FS_Subset DEF NewSteps
<1>3. IsChapters(run.old.chapters) /\ NoDuplicates(run.old.chapters) /\ run.old.chapters # <<>>
  BY DEF IInv, RunSound, AlbumSound
<1> DEFINE all == AssignNewSteps(run.old.chapters, NewSteps)
<1>4. /\ IsChapters(all) /\ NoDuplicates(all) /\ all # <<>>
      /\ Assigned(all) = Assigned(run.old.chapters) \cup NewSteps
  BY ONLY <1>2, <1>3, NewStepsAssigned
<1> HIDE DEF all
<1>5. /\ IsChapters(result.chapters) /\ NoDuplicates(result.chapters) /\ result.chapters # <<>>
      /\ Assigned(result.chapters) = Assigned(run.old.chapters) \cup NewSteps
  <2>1. result.chapters = FixAlbumCovers(all, eligible, fallback)
    BY <1>1 DEF all
  <2> QED BY ONLY <1>4, <2>1, FixedCovers
<1>6. AlbumSound(result)
  BY ONLY <1>1, <1>5 DEF AlbumSound
<1>7. ASSUME ~overtaken PROVE Covered(result)
  <2>1. DOMAIN run.old.steps \subseteq Assigned(run.old.chapters)
    BY <1>7 DEF IInv, Covered
  <2>2. TripSteps \subseteq Assigned(run.old.chapters) \cup NewSteps
    BY <2>1 DEF NewSteps
  <2> QED BY ONLY <1>1, <1>5, <2>2 DEF Covered
<1> QED BY <1>6, <1>7

LEMMA BuildKeeps == ASSUME IInv, BuildObjects PROVE IInv'
<1>1. PICK result : /\ result \in (IF run.old.exists THEN ReconcileTrip ELSE {BuildTripObjects})
                    /\ run' = [NoRun EXCEPT !.pc = "save", !.old = run.old, !.result = result]
  BY Zenon DEF BuildObjects
<1>2. /\ export' = export /\ db' = db /\ view' = view /\ patch' = patch /\ overtaken' = overtaken
  BY DEF BuildObjects, editor
<1>3. AlbumSound(result) /\ (~overtaken => Covered(result))
  <2>1. CASE run.old.exists
    <3>1. result \in ReconcileTrip
      BY <1>1, <2>1
    <3> QED BY <2>1, <3>1, ReconciledSound
  <2>2. CASE ~run.old.exists
    <3>1. result = BuildTripObjects
      BY <1>1, <2>2
    <3> QED BY <3>1, BuiltSound
  <2> QED BY <2>1, <2>2
<1>4. DOMAIN run' = DOMAIN NoRun /\ run'.old = run.old /\ run'.result = result
  BY <1>1 DEF NoRun
<1>5. RunSound(run')
  BY ONLY <1>3, <1>4, IInv DEF IInv, RunSound
<1>6. ~overtaken => /\ Covered(db) /\ Covered(run'.old) /\ Covered(run'.result)
                    /\ patch # <<>> => DOMAIN db.steps \subseteq Assigned(patch)
  BY ONLY <1>3, <1>4, IInv DEF IInv
<1> QED BY ONLY IInv, <1>2, <1>5, <1>6 DEF IInv

LEMMA OpenKeeps == ASSUME IInv, OpenAlbum PROVE IInv'
<1>1. /\ export' = export /\ db' = db /\ view' = db /\ patch' = patch /\ overtaken' = overtaken
      /\ run' = run
  BY DEF OpenAlbum
<1> QED BY ONLY IInv, <1>1 DEF IInv

\* The rows change without their chapters or the set of steps.
LEMMA RowsChange ==
    ASSUME IInv, UNCHANGED <<export, run, patch, overtaken>>,
           DOMAIN db' = DOMAIN db, db'.exists = db.exists, db'.chapters = db.chapters,
           DOMAIN db'.steps = DOMAIN db.steps,
           DOMAIN view' = DOMAIN view, view'.exists = view.exists, view'.chapters = view.chapters
    PROVE  IInv'
<1>1. /\ export' = export /\ patch' = patch /\ overtaken' = overtaken /\ run' = run
  OBVIOUS
<1>2. AlbumSound(db) /\ AlbumSound(view)
  BY DEF IInv
<1>3. AlbumSound(db') /\ AlbumSound(view')
  BY <1>2 DEF AlbumSound
<1>4. Covered(db') <=> Covered(db)
  BY DEF Covered
<1>5. ~overtaken => /\ Covered(db') /\ Covered(run.old) /\ Covered(run.result)
                    /\ patch # <<>> => DOMAIN db'.steps \subseteq Assigned(patch)
  BY <1>4 DEF IInv
<1> QED BY ONLY IInv, <1>1, <1>3, <1>5 DEF IInv

LEMMA EditKeeps == ASSUME IInv, EditLayout \/ PersistImportedMedia PROVE IInv'
<1>1. /\ DOMAIN db = {"exists", "chapters", "steps", "media"}
      /\ DOMAIN view = {"exists", "chapters", "steps", "media"}
  BY DEF IInv, AlbumSound, NoAlbum
<1>2. CASE EditLayout
  <2>1. PICK s \in DOMAIN view.steps \cap DOMAIN db.steps : \E layout \in LayoutEdits(view.steps[s]) :
           /\ db' = [db EXCEPT !.steps[s] = ReplaceStepMediaLayout(@, layout)]
           /\ view' = [view EXCEPT !.steps[s] = db'.steps[s]]
    BY <1>2, Zenon DEF EditLayout
  <2>2. UNCHANGED <<export, run, patch, overtaken>>
    BY <1>2 DEF EditLayout
  <2>3. /\ DOMAIN db' = DOMAIN db /\ db'.exists = db.exists /\ db'.chapters = db.chapters
        /\ DOMAIN db'.steps = DOMAIN db.steps
        /\ DOMAIN view' = DOMAIN view /\ view'.exists = view.exists /\ view'.chapters = view.chapters
    BY ONLY <1>1, <2>1
  <2> QED BY ONLY IInv, <2>2, <2>3, RowsChange
<1>3. CASE PersistImportedMedia
  <2>1. UNCHANGED <<export, run, patch, overtaken, view>>
    BY <1>3 DEF PersistImportedMedia
  <2>2. /\ DOMAIN db' = DOMAIN db /\ db'.exists = db.exists /\ db'.chapters = db.chapters
        /\ DOMAIN db'.steps = DOMAIN db.steps
    <3>1. CASE add.step \in DOMAIN db.steps
      <4>1. db' = [db EXCEPT !.media = [n \in ToSet(add.written) \cup DOMAIN @ |->
                                            IF n \in ToSet(add.written) THEN "l" ELSE @[n]],
                             !.steps[add.step] = PrependUnused(@, add.written)]
        BY <1>3, <3>1, Zenon DEF PersistImportedMedia
      <4> QED BY ONLY <1>1, <4>1
    <3>2. CASE add.step \notin DOMAIN db.steps
      BY <1>3, <3>2 DEF PersistImportedMedia
    <3> QED BY <3>1, <3>2
  <2>3. view' = view
    BY <2>1
  <2> QED BY ONLY IInv, <2>1, <2>2, <2>3, RowsChange
<1> QED BY <1>2, <1>3

\* What validation lets through.
LEMMA ValidateKeeps == ASSUME IInv, ValidateChapters PROVE IInv'
<1>1. /\ export' = export /\ db' = db /\ view' = view /\ run' = run /\ overtaken' = overtaken
  BY DEF ValidateChapters
<1>2. patch' \in ChapterEdits(view.chapters) /\ ChaptersValid(patch', DOMAIN db.steps)
  BY DEF ValidateChapters
<1>3. IsChapters(view.chapters)
  BY DEF IInv, AlbumSound
<1>4. IsChapters(patch')
  BY ONLY <1>2, <1>3, EditedChapters
<1>5. NoDuplicates(patch') /\ Assigned(patch') = DOMAIN db.steps
  BY ONLY <1>2 DEF ChaptersValid, StepCoverage
<1> QED BY ONLY IInv, <1>1, <1>4, <1>5 DEF IInv

\* Stored, whatever the rows are by now.
LEMMA UpdateKeeps == ASSUME IInv, UpdateAlbum PROVE IInv'
<1>1. /\ DOMAIN db = {"exists", "chapters", "steps", "media"}
      /\ DOMAIN view = {"exists", "chapters", "steps", "media"}
  BY DEF IInv, AlbumSound, NoAlbum
<1>2. /\ patch # <<>> /\ patch' = <<>> /\ export' = export /\ run' = run /\ overtaken' = overtaken
      /\ db' = [db EXCEPT !.chapters = patch] /\ view' = [view EXCEPT !.chapters = patch]
  BY DEF UpdateAlbum
<1>3. /\ DOMAIN db' = DOMAIN db /\ db'.chapters = patch /\ db'.steps = db.steps
      /\ DOMAIN view' = DOMAIN view /\ view'.chapters = patch
  BY ONLY <1>1, <1>2
<1>4. IsChapters(patch) /\ NoDuplicates(patch)
      /\ AlbumSound(db) /\ AlbumSound(view)
  BY DEF IInv
<1>5. AlbumSound(db') /\ AlbumSound(view')
  BY ONLY <1>2, <1>3, <1>4 DEF AlbumSound
<1>6. ~overtaken => /\ Covered(db') /\ Covered(run.old) /\ Covered(run.result)
  <2>1. ASSUME ~overtaken PROVE Covered(db')
    <3>1. DOMAIN db.steps \subseteq Assigned(patch)
      BY <1>2, <2>1 DEF IInv
    <3> QED BY ONLY <1>3, <3>1 DEF Covered
  <2> QED BY <2>1 DEF IInv
<1> QED BY ONLY IInv, <1>2, <1>5, <1>6, NoChapters DEF IInv

LEMMA StepKeeps == IInv /\ [Next]_vars => IInv'
<1> SUFFICES ASSUME IInv, [Next]_vars PROVE IInv'
  OBVIOUS
<1>1. CASE RunStep
  <2>1. CASE LoadTrip \/ CleanupMetadata
    BY <2>1, RunStarts
  <2>2. CASE SaveNew \/ SaveReupload
    BY <2>2, SavedKeeps DEF SaveNew, SaveReupload
  <2>3. CASE BuildObjects
    BY <2>3, BuildKeeps
  <2>4. CASE \/ ScanSteps \/ FetchElevations \/ FetchWeather \/ LayoutsDone \/ FlattenFile
             \/ FlattenEnds \/ PhasesEnd \/ DrainQueue \/ PrepareMedia
             \/ \E s \in TripSteps : FetchLayout(s)
    BY <2>4, RunMoves, MovesKeeps
  <2> QED BY <1>1, <2>1, <2>2, <2>3, <2>4 DEF RunStep
<1>2. CASE EditorStep
  <2>1. CASE StartImport \/ ImportOne \/ ImportFails \/ ImportCompleted \/ CancelImport
    BY <2>1, AddingMoves, MovesKeeps
  <2> QED BY <1>2, <2>1, OpenKeeps, EditKeeps, ValidateKeeps, UpdateKeeps DEF EditorStep
<1>3. CASE ImportAgain \/ FlattenFails \/ SaveFails \/ Crash
  BY <1>3, RunStarts
<1>4. CASE OtherStep \/ \E task \in {"weather", "media"} : TaskFails(task)
  BY <1>4, RunMoves, MovesKeeps
<1>5. CASE UNCHANGED vars
  <2>1. Moves
    BY <1>5 DEF vars, editor, Moves
  <2> QED BY <2>1, MovesKeeps
<1> QED BY <1>1, <1>2, <1>3, <1>4, <1>5 DEF Next

LEMMA Invariant == Spec => []IInv
<1> QED BY InitHolds, StepKeeps, PTL DEF Spec

-----------------------------------------------------------------------------
(* The theorem about chapters *)

\* Every step of the album is in exactly one chapter, once: splits and joins from
\* stale tabs are compared with the steps, new steps of an upload go into the last
\* chapter, and only a run that saves between a request's check and its commit
\* can break it.
THEOREM ChaptersWhole == Spec => []ChaptersCoverSteps
<1>1. IInv => ChaptersCoverSteps
  BY DEF IInv, AlbumSound, Covered, ChaptersCoverSteps
<1> QED BY <1>1, Invariant, PTL

-----------------------------------------------------------------------------
(* Pages: what the packing of a new step returns *)

\* Pages of T, none of them empty.
PagesOn(T) == Seq(Seq(T) \ {<<>>})

LEMMA PartOf ==
    ASSUME NEW T, NEW s \in Seq(T), NEW m \in Nat, NEW n \in Nat, 1 <= m, n <= Len(s)
    PROVE  SubSeq(s, m, n) \in Seq(T) /\ (m <= n => SubSeq(s, m, n) # <<>>)
<1>1. \A i \in m .. n : i \in 1 .. Len(s) /\ s[i] \in T
  OBVIOUS
<1>2. SubSeq(s, m, n) \in Seq(T)
  BY <1>1
<1>3. ASSUME m <= n PROVE SubSeq(s, m, n) # <<>>
  <2>1. Len(SubSeq(s, m, n)) = n - m + 1
    BY <1>3
  <2> QED BY <2>1, <1>3
<1> QED BY <1>2, <1>3

LEMMA PagesOfAre ==
    ASSUME NEW T, NEW items \in Seq(T), NEW size \in {3, 4}
    PROVE  PagesOf(items, size) \in PagesOn(T)
<1> DEFINE n == Len(items)
           count == Ceil(n, size)
           page(k) == SubSeq(items, (k - 1) * size + 1, IF k * size < n THEN k * size ELSE n)
<1>1. n \in Nat /\ count \in Nat
  BY DEF Ceil
<1>2. ASSUME NEW k \in 1 .. count
      PROVE  LET m == (k - 1) * size + 1
                 e == IF k * size < n THEN k * size ELSE n
             IN  m \in Nat /\ e \in Nat /\ 1 <= m /\ e <= n /\ m <= e
  <2>1. CASE size = 3
    BY <1>1, <2>1 DEF Ceil
  <2>2. CASE size = 4
    BY <1>1, <2>2 DEF Ceil
  <2> QED BY <2>1, <2>2
<1>3. ASSUME NEW k \in 1 .. count PROVE page(k) \in Seq(T) \ {<<>>}
  BY <1>2, PartOf
<1>4. PagesOf(items, size) = [k \in 1 .. count |-> page(k)]
  BY DEF PagesOf
<1> HIDE DEF page, count
<1>5. PagesOf(items, size) \in [1 .. count -> Seq(T) \ {<<>>}]
  BY <1>3, <1>4
<1> QED BY <1>1, <1>5, IsASeq DEF PagesOn

LEMMA Joined ==
    ASSUME NEW T, NEW a \in Seq(T), NEW b \in Seq(T)
    PROVE  a \o b \in Seq(T)
OBVIOUS

\* The landscapes in fours are some of all.
LEMMA LandscapeCut ==
    ASSUME NEW n \in Nat, ~(n < 3), n # 5
    PROVE  n - 3 * ThreePageCount(n) \in 0 .. n
<1>1. n >= 9 \/ n = 3 \/ n = 4 \/ n = 6 \/ n = 7 \/ n = 8
  OBVIOUS
<1>2. CASE n >= 9
  <2>1. ThreePageCount(n) \in 0 .. 3
    BY DEF ThreePageCount
  <2> QED BY <1>2, <2>1
<1>3. CASE n \in {3, 4, 6, 7, 8}
  BY <1>3 DEF ThreePageCount
<1> QED BY <1>1, <1>2, <1>3

LEMMA LandscapePagesAre ==
    ASSUME NEW T, NEW items \in Seq(T)
    PROVE  LandscapePages(items) \in PagesOn(T)
<1> DEFINE n == Len(items)
           cut == n - 3 * ThreePageCount(n)
<1>1. n \in Nat
  OBVIOUS
<1>2. CASE n < 3
  <2>1. [i \in 1 .. n |-> <<items[i]>>] \in [1 .. n -> Seq(T) \ {<<>>}]
    OBVIOUS
  <2>2. LandscapePages(items) = [i \in 1 .. n |-> <<items[i]>>]
    BY <1>2 DEF LandscapePages
  <2> QED BY <1>1, <2>1, <2>2, IsASeq DEF PagesOn
<1>3. CASE n = 5
  <2>1. SubSeq(items, 1, 4) \in Seq(T) /\ SubSeq(items, 1, 4) # <<>>
    <3>1. 4 \in Nat /\ 1 <= 1 /\ 4 <= Len(items) /\ 1 <= 4
      BY <1>3
    <3> QED BY <3>1, PartOf
  <2>2. <<items[5]>> \in Seq(T) /\ <<items[5]>> # <<>>
    BY <1>3
  <2>3. LandscapePages(items) = <<SubSeq(items, 1, 4), <<items[5]>>>>
    BY <1>3 DEF LandscapePages
  <2> DEFINE a == SubSeq(items, 1, 4)
             b == <<items[5]>>
  <2>4. a \in Seq(T) \ {<<>>} /\ b \in Seq(T) \ {<<>>}
    BY ONLY <2>1, <2>2
  <2> HIDE DEF a, b
  <2>5. <<a, b>> \in Seq(Seq(T) \ {<<>>})
    BY ONLY <2>4
  <2>6. LandscapePages(items) = <<a, b>>
    BY <2>3, Zenon DEF a, b
  <2> QED BY ONLY <2>5, <2>6 DEF PagesOn
<1>4. CASE ~(n < 3) /\ n # 5
  <2> HIDE DEF n
  <2>1. cut \in 0 .. n
    BY <1>1, <1>4, LandscapeCut
  <2> USE DEF n
  <2> HIDE DEF cut
  <2>2. SubSeq(items, 1, cut) \in Seq(T) /\ SubSeq(items, cut + 1, n) \in Seq(T)
    BY <1>1, <2>1, PartOf
  <2>3. LandscapePages(items) =
           PagesOf(SubSeq(items, 1, cut), 4) \o PagesOf(SubSeq(items, cut + 1, n), 3)
    BY <1>4 DEF LandscapePages, cut
  <2>4. /\ PagesOf(SubSeq(items, 1, cut), 4) \in PagesOn(T)
        /\ PagesOf(SubSeq(items, cut + 1, n), 3) \in PagesOn(T)
    BY <2>2, PagesOfAre
  <2> QED BY ONLY <2>3, <2>4, Joined DEF PagesOn
<1> QED BY <1>2, <1>3, <1>4

LEMMA MixedCount ==
    ASSUME NEW p \in Nat, NEW l \in Nat
    PROVE  LET mixed == OptimalMixedCount(p, l)
           IN  mixed \in Nat /\ mixed <= p /\ 2 * mixed <= l
<1> DEFINE most == IF p < l \div 2 THEN p ELSE l \div 2
<1>1. most \in Nat /\ most <= p /\ 2 * most <= l
  OBVIOUS
<1>2. OptimalMixedCount(p, l) \in 0 .. most
  <2> DEFINE total(b) == b + PortraitPageCount(p - b) + LandscapePageCount(l - 2 * b)
             bad(b) == BadPageCount(p - b, l - 2 * b)
             saves(b) == total(b) < p + l \/ (total(b) = p + l /\ bad(b) < p + l)
             better(b, c) == \/ total(b) < total(c)
                             \/ total(b) = total(c) /\ bad(b) < bad(c)
                             \/ total(b) = total(c) /\ bad(b) = bad(c) /\ b < c
             best == {b \in 0 .. most : saves(b) /\ \A c \in 0 .. most : b = c \/ better(b, c)}
  <2>1. OptimalMixedCount(p, l) = IF best = {} THEN 0 ELSE CHOOSE b \in best : TRUE
    BY Zenon DEF OptimalMixedCount
  <2>2. \A b \in best : b \in 0 .. most
    OBVIOUS
  <2> HIDE DEF best
  <2> QED BY <1>1, <2>1, <2>2
<1> HIDE DEF most
<1> QED BY <1>1, <1>2

LEMMA BuildPagesAre ==
    ASSUME NEW T, NEW portraits \in Seq(T), NEW landscapes \in Seq(T)
    PROVE  BuildPages(portraits, landscapes) \in PagesOn(T)
<1> DEFINE p == Len(portraits)
           l == Len(landscapes)
           mixed == OptimalMixedCount(p, l)
           pages == [i \in 1 .. mixed |-> <<portraits[i], landscapes[2 * i - 1], landscapes[2 * i]>>]
           alone == SubSeq(portraits, mixed + 1, p)
           rest == SubSeq(landscapes, 2 * mixed + 1, l)
<1>1. p \in Nat /\ l \in Nat
  OBVIOUS
<1>2. mixed \in Nat /\ mixed <= p /\ 2 * mixed <= l
  BY <1>1, MixedCount
<1>3. BuildPages(portraits, landscapes) = (PagesOf(alone, 3) \o pages) \o LandscapePages(rest)
  BY Zenon DEF BuildPages
<1> HIDE DEF mixed
<1>4. alone \in Seq(T) /\ rest \in Seq(T)
  BY <1>1, <1>2, PartOf
<1>5. pages \in PagesOn(T)
  <2>1. \A i \in 1 .. mixed : i \in 1 .. p /\ 2 * i - 1 \in 1 .. l /\ 2 * i \in 1 .. l
    BY <1>1, <1>2
  <2>2. \A i \in 1 .. mixed : portraits[i] \in T /\ landscapes[2 * i - 1] \in T /\ landscapes[2 * i] \in T
    BY <2>1
  <2>3. \A a, b, c \in T : <<a, b, c>> \in Seq(T) \ {<<>>}
    OBVIOUS
  <2>4. pages \in [1 .. mixed -> Seq(T) \ {<<>>}]
    BY <2>2, <2>3
  <2> QED BY <1>2, <2>4, IsASeq DEF PagesOn
<1> HIDE DEF alone, rest, pages
<1>6. PagesOf(alone, 3) \in PagesOn(T) /\ LandscapePages(rest) \in PagesOn(T)
  BY <1>4, PagesOfAre, LandscapePagesAre
<1> QED BY ONLY <1>3, <1>5, <1>6, Joined DEF PagesOn

-----------------------------------------------------------------------------
(* Places on pages, and their order *)

LEMMA Image ==
    ASSUME NEW f, NEW D, IsFiniteSet(D)
    PROVE  IsFiniteSet({f[x] : x \in D})
<1> DEFINE T == {f[x] : x \in D}
           g == [x \in D |-> f[x]]
<1>1. g \in Surjection(D, T)
  BY DEF Surjection
<1> HIDE DEF g, T
<1>2. IsFiniteSet(T)
  BY <1>1, FS_Surjection
<1> QED BY <1>2 DEF T

LEMMA PlacesAre ==
    ASSUME NEW T, NEW pages \in Seq(Seq(T))
    PROVE  /\ IsFiniteSet(Places(pages)) /\ Places(pages) \subseteq Nat \X Nat
           /\ \A x \in Places(pages) :
                 /\ x = <<x[1], x[2]>> /\ At(pages, x) = pages[x[1]][x[2]] /\ At(pages, x) \in T
                 /\ x[1] \in DOMAIN pages /\ x[2] \in DOMAIN pages[x[1]]
           /\ \A i \in DOMAIN pages : \A j \in DOMAIN pages[i] : <<i, j>> \in Places(pages)
<1> DEFINE row(i) == {<<i, j>> : j \in DOMAIN pages[i]}
           rows == [i \in DOMAIN pages |-> row(i)]
<1>1. /\ DOMAIN pages = 1 .. Len(pages) /\ Len(pages) \in Nat
      /\ \A i \in DOMAIN pages : /\ pages[i] \in Seq(T)
                                 /\ DOMAIN pages[i] = 1 .. Len(pages[i]) /\ Len(pages[i]) \in Nat
  OBVIOUS
<1>2. ASSUME NEW i \in DOMAIN pages PROVE IsFiniteSet(row(i))
  <2> DEFINE pair == [j \in DOMAIN pages[i] |-> <<i, j>>]
  <2>1. IsFiniteSet(DOMAIN pages[i])
    BY <1>1, FS_Interval
  <2>2. row(i) = {pair[j] : j \in DOMAIN pages[i]}
    OBVIOUS
  <2> HIDE DEF pair, row
  <2> QED BY <2>1, <2>2, Image
<1>3. Places(pages) = UNION {rows[i] : i \in DOMAIN pages}
  BY DEF Places
<1>4. IsFiniteSet(Places(pages))
  <2>1. IsFiniteSet(DOMAIN pages)
    BY <1>1, FS_Interval
  <2>2. \A i \in DOMAIN pages : IsFiniteSet(rows[i])
    BY <1>2
  <2> HIDE DEF rows
  <2> DEFINE all == {rows[i] : i \in DOMAIN pages}
  <2>3. IsFiniteSet(all) /\ \A r \in all : IsFiniteSet(r)
    BY <2>1, <2>2, Image
  <2> HIDE DEF all
  <2>4. IsFiniteSet(UNION all)
    BY <2>3, FS_UNION
  <2> QED BY <1>3, <2>4 DEF all
<1>5. ASSUME NEW x \in Places(pages)
      PROVE  /\ x = <<x[1], x[2]>> /\ x \in Nat \X Nat
             /\ x[1] \in DOMAIN pages /\ x[2] \in DOMAIN pages[x[1]]
  <2>1. PICK i \in DOMAIN pages : \E j \in DOMAIN pages[i] : x = <<i, j>>
    BY DEF Places
  <2>2. PICK j \in DOMAIN pages[i] : x = <<i, j>>
    BY <2>1
  <2>3. i \in Nat /\ j \in Nat
    BY <1>1
  <2> QED BY <2>2, <2>3
<1>6. ASSUME NEW x \in Places(pages) PROVE At(pages, x) = pages[x[1]][x[2]] /\ At(pages, x) \in T
  BY <1>1, <1>5 DEF At
<1>7. \A i \in DOMAIN pages : \A j \in DOMAIN pages[i] : <<i, j>> \in Places(pages)
  BY DEF Places
<1> QED BY <1>4, <1>5, <1>6, <1>7

LEMMA SlotsOnAre ==
    ASSUME NEW T, NEW pages \in Seq(Seq(T))
    PROVE  IsFiniteSet(SlotsOn(pages)) /\ SlotsOn(pages) \subseteq T
<1> DEFINE at == [x \in Places(pages) |-> At(pages, x)]
<1>1. SlotsOn(pages) = {at[x] : x \in Places(pages)}
  BY DEF SlotsOn
<1>2. IsFiniteSet(Places(pages)) /\ \A x \in Places(pages) : At(pages, x) \in T
  BY PlacesAre
<1>3. SlotsOn(pages) \subseteq T
  BY <1>2 DEF SlotsOn
<1> HIDE DEF at
<1> QED BY <1>1, <1>2, <1>3, Image

LEMMA PrecedesIs ==
    ASSUME NEW x \in Nat \X Nat, NEW y \in Nat \X Nat, NEW z \in Nat \X Nat
    PROVE  /\ ~Precedes(x, x)
           /\ Precedes(x, y) /\ Precedes(y, z) => Precedes(x, z)
           /\ Precedes(x, y) \/ Precedes(y, x) \/ x = y
BY DEF Precedes

\* Of two places the later one has more places before it.
LEMMA RankGrows ==
    ASSUME NEW P, P \subseteq Nat \X Nat, IsFiniteSet(P), NEW x \in P, NEW y \in P
    PROVE  /\ Rank(P, x) \in Nat
           /\ Precedes(x, y) => Rank(P, x) < Rank(P, y)
<1> DEFINE before(z) == {w \in P : Precedes(w, z)}
<1>1. \A z : before(z) \in SUBSET P
  OBVIOUS
<1>2. \A z : IsFiniteSet(before(z)) /\ Cardinality(before(z)) \in Nat
  BY <1>1, FS_Subset, FS_CardinalityType
<1>3. \A z : Rank(P, z) = Cardinality(before(z))
  BY DEF Rank
<1>4. ASSUME Precedes(x, y) PROVE before(x) \in SUBSET before(y) /\ x \in before(y) /\ x \notin before(x)
  <2>1. \A w \in P : w \in Nat \X Nat
    OBVIOUS
  <2>2. \A w \in P : Precedes(w, x) => Precedes(w, y)
    BY <1>4, <2>1, PrecedesIs
  <2>3. ~Precedes(x, x)
    BY <2>1, PrecedesIs
  <2> QED BY <1>4, <2>2, <2>3
<1> HIDE DEF before
<1>5. ASSUME Precedes(x, y) PROVE Cardinality(before(x)) < Cardinality(before(y))
  <2>1. before(x) # before(y)
    BY <1>4, <1>5
  <2>2. /\ Cardinality(before(x)) <= Cardinality(before(y))
        /\ Cardinality(before(x)) # Cardinality(before(y))
    BY <1>2, <1>4, <1>5, <2>1, FS_Subset
  <2> QED BY <1>2, <2>2
<1> QED BY <1>2, <1>3, <1>5

LEMMA RankDiffers ==
    ASSUME NEW P, P \subseteq Nat \X Nat, IsFiniteSet(P), NEW x \in P, NEW y \in P, x # y
    PROVE  Rank(P, x) \in Nat /\ Rank(P, y) \in Nat /\ Rank(P, x) # Rank(P, y)
<1>1. x \in Nat \X Nat /\ y \in Nat \X Nat
  OBVIOUS
<1>2. Precedes(x, y) \/ Precedes(y, x)
  BY <1>1, PrecedesIs
<1>3. /\ Rank(P, x) \in Nat /\ Rank(P, y) \in Nat
      /\ Precedes(x, y) => Rank(P, x) < Rank(P, y)
      /\ Precedes(y, x) => Rank(P, y) < Rank(P, x)
  BY RankGrows
<1> QED BY ONLY <1>2, <1>3

LEMMA LeastOf ==
    ASSUME NEW T, T \subseteq Nat, T # {}
    PROVE  \E x \in T : \A y \in T : x <= y
<1>1. PICK x \in T : \A y \in T : <<y, x>> \notin OpToRel(<, Nat)
  BY NatLessThanWellFounded, WFMin
<1>2. ASSUME NEW y \in T PROVE x <= y
  <2>1. x \in Nat /\ y \in Nat
    OBVIOUS
  <2>2. ~(y < x)
    BY <1>1, <2>1 DEF OpToRel
  <2> QED BY <2>1, <2>2
<1> QED BY <1>2

\* Places have a first one.
LEMMA FirstPlaceIs ==
    ASSUME NEW P, P \subseteq Nat \X Nat, P # {}
    PROVE  FirstPlace(P) \in P
<1> DEFINE pages == {x[1] : x \in P}
<1>1. pages \subseteq Nat /\ pages # {}
  OBVIOUS
<1>2. PICK i \in pages : \A k \in pages : i <= k
  <2> HIDE DEF pages
  <2> QED BY <1>1, LeastOf
<1> DEFINE slots == {x[2] : x \in {y \in P : y[1] = i}}
<1>3. slots \subseteq Nat /\ slots # {}
  OBVIOUS
<1>4. PICK j \in slots : \A k \in slots : j <= k
  <2> HIDE DEF slots
  <2> QED BY <1>3, LeastOf
<1>5. PICK x \in P : x[1] = i /\ x[2] = j
  OBVIOUS
<1>6. ASSUME NEW y \in P PROVE x = y \/ Precedes(x, y)
  <2>1. x = <<x[1], x[2]>> /\ y = <<y[1], y[2]>>
        /\ x[1] \in Nat /\ x[2] \in Nat /\ y[1] \in Nat /\ y[2] \in Nat
    OBVIOUS
  <2>2. i <= y[1] /\ (y[1] = i => j <= y[2])
    BY <1>2, <1>4
  <2> QED BY <1>5, <2>1, <2>2 DEF Precedes
<1> HIDE DEF pages, slots
<1>7. \E z \in P : \A y \in P : z = y \/ Precedes(z, y)
  BY <1>6
<1> QED BY <1>7 DEF FirstPlace

-----------------------------------------------------------------------------
(* What is kept of a sequence and of pages *)

LEMMA WiderSeq ==
    ASSUME NEW A, NEW B, A \subseteq B
    PROVE  Seq(A) \subseteq Seq(B)
OBVIOUS

LEMMA PagesAreSeqs ==
    ASSUME NEW T, NEW pages \in PagesOn(T)
    PROVE  pages \in Seq(Seq(T)) /\ \A i \in DOMAIN pages : pages[i] # <<>>
<1>1. Seq(T) \ {<<>>} \subseteq Seq(T)
  OBVIOUS
<1> DEFINE E == Seq(T) \ {<<>>}
<1>2. pages \in Seq(E) /\ \A e \in E : e # <<>>
  BY DEF PagesOn
<1>3. pages \in Seq(Seq(T))
  BY ONLY <1>1, <1>2, WiderSeq
<1> HIDE DEF E
<1>4. \A i \in DOMAIN pages : pages[i] \in E
  BY ONLY <1>2
<1> QED BY ONLY <1>2, <1>3, <1>4

\* f says where in the whole the members of the part are, each somewhere else
\* and all in their order.
Embeds(f, part, whole) ==
    /\ \A k \in DOMAIN part : f[k] \in DOMAIN whole /\ part[k] = whole[f[k]]
    /\ \A k, l \in DOMAIN part : f[k] = f[l] => k = l
    /\ \A k, l \in DOMAIN part : k < l => f[k] < f[l]

LEMMA KeptIs ==
    ASSUME NEW T, NEW seq \in Seq(T), NEW S
    PROVE  /\ Kept(seq, S) \in Seq(T \cap S)
           /\ ToSet(Kept(seq, S)) = ToSet(seq) \cap S
           /\ \E from : Embeds(from, Kept(seq, S), seq)
<1> DEFINE places == {i \in DOMAIN seq : seq[i] \in S}
           n == Cardinality(places)
           from == Ascending(places)
<1>1. DOMAIN seq = 1 .. Len(seq) /\ Len(seq) \in Nat /\ \A i \in DOMAIN seq : seq[i] \in T
  OBVIOUS
<1>2. places \subseteq Int /\ IsFiniteSet(places) /\ n \in Nat
  <2>1. IsFiniteSet(DOMAIN seq)
    BY <1>1, FS_Interval
  <2>2. places \in SUBSET DOMAIN seq
    OBVIOUS
  <2> HIDE DEF places
  <2> QED BY <1>1, <2>1, <2>2, FS_Subset, FS_CardinalityType
<1>3. /\ from \in Seq(Int) /\ ToSet(from) = places
      /\ \A i, j \in DOMAIN from : from[i] = from[j] => i = j
      /\ \A i, j \in DOMAIN from : i < j => from[i] < from[j]
  <2> HIDE DEF places
  <2> QED BY <1>2, AscendingIs
<1>4. DOMAIN from = 1 .. n
  BY DEF Ascending
<1>5. Kept(seq, S) = [k \in 1 .. n |-> seq[from[k]]]
  BY DEF Kept
<1>6. \A i \in places : i \in DOMAIN seq /\ seq[i] \in S
  OBVIOUS
<1>7. \A i \in DOMAIN seq : seq[i] \in S => i \in places
  OBVIOUS
<1> HIDE DEF places, n, from
<1>8. \A k \in 1 .. n : from[k] \in places
  BY <1>3, <1>4 DEF ToSet
<1>9. \A i \in places : \E k \in 1 .. n : from[k] = i
  BY <1>3, <1>4 DEF ToSet
<1>10. /\ DOMAIN Kept(seq, S) = 1 .. n
       /\ \A k \in 1 .. n : from[k] \in DOMAIN seq /\ Kept(seq, S)[k] = seq[from[k]]
  BY <1>5, <1>6, <1>8
<1>11. Kept(seq, S) \in Seq(T \cap S)
  <2>1. Kept(seq, S) \in [1 .. n -> T \cap S]
    BY <1>1, <1>5, <1>6, <1>8
  <2> QED BY <1>2, <2>1, IsASeq
<1>12. ToSet(Kept(seq, S)) = ToSet(seq) \cap S
  <2>1. ASSUME NEW v \in ToSet(Kept(seq, S)) PROVE v \in ToSet(seq) \cap S
    <3>1. PICK k \in 1 .. n : v = Kept(seq, S)[k]
      BY <1>10 DEF ToSet
    <3> QED BY <1>6, <1>8, <1>10, <3>1 DEF ToSet
  <2>2. ASSUME NEW v \in ToSet(seq) \cap S PROVE v \in ToSet(Kept(seq, S))
    <3>1. PICK i \in DOMAIN seq : v = seq[i]
      BY DEF ToSet
    <3>2. i \in places
      BY <1>7, <3>1
    <3>3. PICK k \in 1 .. n : from[k] = i
      BY <1>9, <3>2
    <3> QED BY <1>10, <3>1, <3>3 DEF ToSet
  <2> QED BY <2>1, <2>2
<1>13. Embeds(from, Kept(seq, S), seq)
  BY <1>3, <1>4, <1>10 DEF Embeds
<1> QED BY <1>11, <1>12, <1>13

\* The same for the places on pages.
EmbedsPages(f, part, whole) ==
    /\ \A x \in Places(part) : f[x] \in Places(whole) /\ At(part, x) = At(whole, f[x])
    /\ \A x, y \in Places(part) : f[x] = f[y] => x = y
    /\ \A x, y \in Places(part) : Precedes(x, y) => Precedes(f[x], f[y])

LEMMA KeptPagesAre ==
    ASSUME NEW T, NEW pages \in Seq(Seq(T)), NEW S
    PROVE  /\ KeptPages(pages, S) \in PagesOn(T \cap S)
           /\ \E from : EmbedsPages(from, KeptPages(pages, S), pages)
<1> DEFINE left == [i \in DOMAIN pages |-> Kept(pages[i], S)]
           some == ToSet(left) \ {<<>>}
           kept == Kept(left, some)
           E == Seq(T \cap S)
<1>1. KeptPages(pages, S) = kept
  BY DEF KeptPages
<1>2. DOMAIN pages = 1 .. Len(pages) /\ Len(pages) \in Nat /\ \A i \in DOMAIN pages : pages[i] \in Seq(T)
  OBVIOUS
<1>3. \A i \in DOMAIN pages : Kept(pages[i], S) \in E
  BY <1>2, KeptIs
<1>4. left \in Seq(E)
  <2>1. left \in [1 .. Len(pages) -> E]
    BY <1>2, <1>3
  <2> QED BY <1>2, <2>1, IsASeq
<1>5. DOMAIN left = DOMAIN pages /\ \A i \in DOMAIN pages : left[i] = Kept(pages[i], S)
  OBVIOUS
<1> HIDE DEF left
<1>6. kept \in Seq(E \cap some)
  BY <1>4, KeptIs
<1>7. PICK page : Embeds(page, kept, left)
  BY <1>4, KeptIs
<1>8. kept \in PagesOn(T \cap S)
  <2>1. E \cap some \subseteq E \ {<<>>}
    OBVIOUS
  <2> HIDE DEF some, kept, E
  <2>2. kept \in Seq(E \ {<<>>})
    BY <1>6, <2>1, WiderSeq
  <2> QED BY <2>2 DEF PagesOn, E
<1> HIDE DEF some, kept
<1> DEFINE ok(f, i) == Embeds(f, left[i], pages[i])
           slot == [i \in DOMAIN pages |-> CHOOSE f : ok(f, i)]
           from == [x \in Places(kept) |-> <<page[x[1]], slot[page[x[1]]][x[2]]>>]
<1>9. ASSUME NEW i \in DOMAIN pages PROVE ok(slot[i], i)
  <2>1. \E f : ok(f, i)
    <3>1. left[i] = Kept(pages[i], S) /\ pages[i] \in Seq(T)
      BY <1>2, <1>5
    <3>2. \E f : Embeds(f, Kept(pages[i], S), pages[i])
      BY <3>1, KeptIs
    <3> QED BY ONLY <3>1, <3>2
  <2>2. slot[i] = CHOOSE f : ok(f, i)
    OBVIOUS
  <2> HIDE DEF ok, slot
  <2> QED BY <2>1, <2>2
<1> HIDE DEF slot
<1>10. ASSUME NEW x \in Places(kept)
       PROVE  /\ x = <<x[1], x[2]>> /\ x[1] \in DOMAIN kept /\ x[2] \in DOMAIN kept[x[1]]
              /\ At(kept, x) = kept[x[1]][x[2]]
  <2>1. kept \in Seq(Seq(T \cap S))
    BY <1>8, PagesAreSeqs
  <2> QED BY <2>1, PlacesAre
<1>11. ASSUME NEW x \in Places(kept)
       PROVE  /\ page[x[1]] \in DOMAIN pages
              /\ x[2] \in DOMAIN left[page[x[1]]]
              /\ slot[page[x[1]]][x[2]] \in DOMAIN pages[page[x[1]]]
              /\ At(kept, x) = pages[page[x[1]]][slot[page[x[1]]][x[2]]]
  <2>1. page[x[1]] \in DOMAIN left /\ kept[x[1]] = left[page[x[1]]]
    BY <1>7, <1>10 DEF Embeds
  <2>2. ok(slot[page[x[1]]], page[x[1]])
    BY <1>5, <1>9, <2>1
  <2> QED BY <1>5, <1>10, <2>1, <2>2 DEF Embeds
<1> HIDE DEF ok
<1>12. ASSUME NEW x \in Places(kept)
       PROVE  from[x] \in Places(pages) /\ At(kept, x) = At(pages, from[x])
  <2>1. from[x] = <<page[x[1]], slot[page[x[1]]][x[2]]>>
    OBVIOUS
  <2>2. from[x] \in Places(pages)
    BY <1>11, <2>1, PlacesAre
  <2>3. At(pages, from[x]) = pages[page[x[1]]][slot[page[x[1]]][x[2]]]
    BY <2>1 DEF At
  <2> QED BY <1>11, <2>2, <2>3
<1>13. ASSUME NEW x \in Places(kept), NEW y \in Places(kept), from[x] = from[y]
       PROVE  x = y
  <2>1. /\ page[x[1]] = page[y[1]]
        /\ slot[page[x[1]]][x[2]] = slot[page[y[1]]][y[2]]
    BY <1>13
  <2>2. x[1] = y[1]
    BY <1>7, <1>10, <2>1 DEF Embeds
  <2>3. x[2] = y[2]
    <3>1. ok(slot[page[x[1]]], page[x[1]])
      BY <1>9, <1>11
    <3>2. x[2] \in DOMAIN left[page[x[1]]] /\ y[2] \in DOMAIN left[page[x[1]]]
      BY <1>11, <2>1
    <3> QED BY ONLY <2>1, <3>1, <3>2 DEF ok, Embeds
  <2> QED BY <1>10, <2>2, <2>3
<1>14. ASSUME NEW x \in Places(kept), NEW y \in Places(kept), Precedes(x, y)
       PROVE  Precedes(from[x], from[y])
  <2>1. /\ from[x][1] = page[x[1]] /\ from[x][2] = slot[page[x[1]]][x[2]]
        /\ from[y][1] = page[y[1]] /\ from[y][2] = slot[page[y[1]]][y[2]]
    OBVIOUS
  <2>2. CASE x[1] < y[1]
    <3>1. page[x[1]] < page[y[1]]
      BY <1>7, <1>10, <2>2 DEF Embeds
    <3> QED BY <2>1, <3>1 DEF Precedes
  <2>3. CASE x[1] = y[1] /\ x[2] < y[2]
    <3>1. ok(slot[page[x[1]]], page[x[1]])
      BY <1>9, <1>11
    <3>2. x[2] \in DOMAIN left[page[x[1]]] /\ y[2] \in DOMAIN left[page[x[1]]]
      BY <1>11, <2>3
    <3>3. slot[page[x[1]]][x[2]] < slot[page[x[1]]][y[2]]
      BY ONLY <2>3, <3>1, <3>2 DEF ok, Embeds
    <3> QED BY <2>1, <2>3, <3>3 DEF Precedes
  <2> QED BY <1>14, <2>2, <2>3 DEF Precedes
<1> HIDE DEF from
<1>15. EmbedsPages(from, kept, pages)
  BY <1>12, <1>13, <1>14 DEF EmbedsPages
<1> QED BY <1>1, <1>8, <1>15

LEMMA KeptPagesHave ==
    ASSUME NEW T, NEW pages \in Seq(Seq(T)), NEW S
    PROVE  SlotsOn(pages) \cap S \subseteq SlotsOn(KeptPages(pages, S))
<1> DEFINE left == [i \in DOMAIN pages |-> Kept(pages[i], S)]
           some == ToSet(left) \ {<<>>}
           kept == Kept(left, some)
           E == Seq(T \cap S)
<1>1. KeptPages(pages, S) = kept
  BY DEF KeptPages
<1>2. DOMAIN pages = 1 .. Len(pages) /\ Len(pages) \in Nat /\ \A i \in DOMAIN pages : pages[i] \in Seq(T)
  OBVIOUS
<1>3. \A i \in DOMAIN pages : Kept(pages[i], S) \in E /\ ToSet(Kept(pages[i], S)) = ToSet(pages[i]) \cap S
  BY <1>2, KeptIs
<1>4. left \in Seq(E)
  <2>1. left \in [1 .. Len(pages) -> E]
    BY <1>2, <1>3
  <2> QED BY <1>2, <2>1, IsASeq
<1>5. DOMAIN left = DOMAIN pages /\ \A i \in DOMAIN pages : left[i] = Kept(pages[i], S)
  OBVIOUS
<1> HIDE DEF left, E
<1>6. ToSet(kept) = ToSet(left) \cap some
  <2> HIDE DEF some
  <2> QED BY <1>4, KeptIs
<1>7. ASSUME NEW v \in SlotsOn(pages), v \in S PROVE v \in SlotsOn(kept)
  <2>1. PICK i \in DOMAIN pages : \E j \in DOMAIN pages[i] : v = pages[i][j]
    BY DEF SlotsOn, Places, At
  <2>2. v \in ToSet(left[i])
    BY <1>3, <1>5, <1>7, <2>1 DEF ToSet
  <2>3. left[i] \in ToSet(kept)
    <3>1. ToSet(<<>>) = {}
      BY DEF ToSet
    <3>2. left[i] # <<>> /\ left[i] \in ToSet(left)
      BY <1>5, <2>2, <3>1 DEF ToSet
    <3> QED BY <1>6, <3>2
  <2> HIDE DEF kept
  <2>4. PICK k \in DOMAIN kept : left[i] = kept[k]
    BY <2>3 DEF ToSet
  <2>5. PICK j \in DOMAIN kept[k] : v = kept[k][j]
    BY <2>2, <2>4 DEF ToSet
  <2>6. <<k, j>> \in Places(kept) /\ At(kept, <<k, j>>) = v
    BY <2>5 DEF Places, At
  <2> QED BY <2>6 DEF SlotsOn
<1> QED BY <1>1, <1>7

-----------------------------------------------------------------------------
(* Readable steps: slots that differ in id and in priority; a new step is one *)

LEMMA MaxIs ==
    ASSUME NEW S, S \subseteq Int, IsFiniteSet(S), S # {}
    PROVE  Max(S) \in S /\ \A y \in S : y <= Max(S)
<1> DEFINE n == Cardinality(S)
<1>1. n \in Nat /\ n # 0
  BY FS_CardinalityType, FS_EmptySet
<1>2. n - 1 \in 0 .. n - 1
  BY <1>1
<1>3. PICK x \in S : Cardinality(Below(S, x)) = n - 1
  BY <1>2, RankIsOnto
<1>4. ASSUME NEW y \in S PROVE x >= y
  <2>1. x \in Int /\ y \in Int
    OBVIOUS
  <2>2. ASSUME x < y PROVE FALSE
    <3>1. Cardinality(Below(S, x)) < Cardinality(Below(S, y))
      BY <2>2, RankOrders
    <3>2. Cardinality(Below(S, y)) \in 0 .. n - 1
      BY RankIsOnto
    <3> QED BY ONLY <1>1, <1>3, <3>1, <3>2
  <2> QED BY <2>1, <2>2
<1>5. Max(S) \in S /\ \A y \in S : Max(S) >= y
  <2>1. \E z \in S : \A y \in S : z >= y
    BY <1>4
  <2> QED BY <2>1, Zenon DEF Max
<1>6. \A y \in S : y \in Int /\ Max(S) \in Int
  BY <1>5
<1> QED BY <1>5, <1>6

-----------------------------------------------------------------------------
(* Steps *)

AnySlot == [id : Nat, name : Int, priority : Nat]

AnyStep == [pages : PagesOn(AnySlot), unused : Seq(Int), cover : Int]

IdsDiffer(pages) ==
    \A x, y \in Places(pages) : x # y => At(pages, x).id # At(pages, y).id

PrioritiesDiffer(pages) ==
    \A x, y \in Places(pages) : x # y => At(pages, x).priority # At(pages, y).priority

\* A step that can be read back.
Readable(step) ==
    step \in AnyStep /\ IdsDiffer(step.pages) /\ PrioritiesDiffer(step.pages)

\* Pages with other contents at the same places.
Changed(pages, g) == [i \in DOMAIN pages |-> [j \in DOMAIN pages[i] |-> g[<<i, j>>]]]

LEMMA ChangedPages ==
    ASSUME NEW A, NEW B, NEW pages \in PagesOn(A), NEW g, \A x \in Places(pages) : g[x] \in B
    PROVE  /\ Changed(pages, g) \in PagesOn(B)
           /\ Places(Changed(pages, g)) = Places(pages)
           /\ \A x \in Places(pages) : At(Changed(pages, g), x) = g[x]
<1> DEFINE new == Changed(pages, g)
<1>1. pages \in Seq(Seq(A)) /\ \A i \in DOMAIN pages : pages[i] # <<>>
  BY PagesAreSeqs
<1>2. /\ DOMAIN pages = 1 .. Len(pages) /\ Len(pages) \in Nat
      /\ \A i \in DOMAIN pages : /\ pages[i] \in Seq(A) /\ DOMAIN pages[i] = 1 .. Len(pages[i])
                                 /\ Len(pages[i]) \in Nat /\ Len(pages[i]) # 0
  BY <1>1
<1>3. /\ DOMAIN new = DOMAIN pages
      /\ \A i \in DOMAIN pages : /\ DOMAIN new[i] = DOMAIN pages[i]
                                 /\ \A j \in DOMAIN pages[i] : new[i][j] = g[<<i, j>>]
  BY DEF Changed
<1>4. \A i \in DOMAIN pages : \A j \in DOMAIN pages[i] : <<i, j>> \in Places(pages)
  BY <1>1, PlacesAre
<1>5. ASSUME NEW i \in DOMAIN pages PROVE new[i] \in Seq(B) \ {<<>>}
  <2>1. new[i] = [j \in DOMAIN pages[i] |-> g[<<i, j>>]]
    BY DEF Changed
  <2>2. new[i] \in [1 .. Len(pages[i]) -> B]
    BY <1>2, <1>4, <2>1
  <2>3. new[i] \in Seq(B)
    BY <1>2, <2>2, IsASeq
  <2>4. 1 \in DOMAIN new[i]
    BY <1>2, <1>3
  <2>5. DOMAIN <<>> = {}
    OBVIOUS
  <2> QED BY <2>3, <2>4, <2>5
<1>6. new \in PagesOn(B)
  <2>1. new = [i \in 1 .. Len(pages) |-> new[i]]
    BY <1>2 DEF Changed
  <2> DEFINE E == Seq(B) \ {<<>>}
  <2>2. \A i \in 1 .. Len(pages) : new[i] \in E
    BY <1>2, <1>5
  <2> HIDE DEF new, E
  <2>3. new \in [1 .. Len(pages) -> E]
    BY <2>1, <2>2
  <2>4. new \in Seq(E)
    BY <1>2, <2>3, IsASeq
  <2> QED BY <2>4 DEF PagesOn, E
<1> HIDE DEF new
<1>7. Places(new) = Places(pages)
  BY <1>3 DEF Places
<1>8. ASSUME NEW x \in Places(pages) PROVE At(new, x) = g[x]
  <2>1. x = <<x[1], x[2]>> /\ x[1] \in DOMAIN pages /\ x[2] \in DOMAIN pages[x[1]]
    BY <1>1, PlacesAre
  <2> QED BY <1>3, <2>1 DEF At
<1> QED BY <1>6, <1>7, <1>8 DEF new

\* The rows of a new step: one slot per photo.
LEMMA NewStepIs ==
    ASSUME NEW N, N \subseteq Int, NEW layout, layout.pages \in PagesOn(N),
           layout.cover \in N \cup {None}, NEW next \in Nat
    PROVE  /\ Readable(NewStep(layout, next))
           /\ LayoutNames(NewStep(layout, next)) \subseteq N
           /\ (SlotsOn(layout.pages) \cup {layout.cover}) \ {None, Text} \subseteq
                 LayoutNames(NewStep(layout, next))
<1> DEFINE pages == layout.pages
           P == Places(pages)
           photo == [x \in P |-> [id |-> next + Rank(P, x), name |-> At(pages, x)]]
           photos == Changed(pages, photo)
           slot == [x \in P |-> Slot(photo[x].id, photo[x].name, Rank(P, x))]
           slots == Changed(photos, slot)
           step == NewStep(layout, next)
<1>1. /\ P \subseteq Nat \X Nat /\ IsFiniteSet(P)
      /\ \A x \in P : At(pages, x) \in N /\ x[1] \in DOMAIN pages /\ x[2] \in DOMAIN pages[x[1]]
      /\ \A i \in DOMAIN pages : \A j \in DOMAIN pages[i] : <<i, j>> \in P
  BY PagesAreSeqs, PlacesAre
<1>2. ASSUME NEW x \in P PROVE Rank(P, x) \in Nat
  BY <1>1, RankGrows
<1>3. /\ photos \in PagesOn([id : Nat, name : N]) /\ Places(photos) = P
      /\ \A x \in P : At(photos, x) = photo[x]
  <2> DEFINE B == [id : Nat, name : N]
  <2>1. \A x \in Places(pages) : photo[x] \in B
    BY <1>1, <1>2
  <2>2. pages \in PagesOn(N)
    OBVIOUS
  <2> HIDE DEF photo, B, pages
  <2>3. /\ Changed(pages, photo) \in PagesOn(B)
        /\ Places(Changed(pages, photo)) = Places(pages)
        /\ \A x \in Places(pages) : At(Changed(pages, photo), x) = photo[x]
    BY ONLY <2>1, <2>2, ChangedPages
  <2> QED BY <2>3 DEF B
<1>4. NewPages(layout, next) = photos
  <2>1. \A i \in DOMAIN pages : \A j \in DOMAIN pages[i] :
           photo[<<i, j>>] = [id |-> next + Rank(P, <<i, j>>), name |-> pages[i][j]]
    BY <1>1 DEF At
  <2> QED BY <2>1 DEF NewPages, Changed
<1>5. /\ slots \in PagesOn(AnySlot) /\ Places(slots) = P
      /\ \A x \in P : At(slots, x) = slot[x]
  <2>1. \A x \in P : slot[x] \in AnySlot
    <3>1. \A x \in P : At(pages, x) \in Int
      BY <1>1
    <3> QED BY <1>2, <3>1 DEF Slot, AnySlot
  <2> DEFINE A == [id : Nat, name : N]
  <2>2. photos \in PagesOn(A) /\ Places(photos) = P
    BY <1>3
  <2> HIDE DEF slot, photo, photos, P, A
  <2>3. \A x \in Places(photos) : slot[x] \in AnySlot
    BY ONLY <2>1, <2>2
  <2>4. /\ Changed(photos, slot) \in PagesOn(AnySlot)
        /\ Places(Changed(photos, slot)) = Places(photos)
        /\ \A x \in Places(photos) : At(Changed(photos, slot), x) = slot[x]
    BY ONLY <2>2, <2>3, ChangedPages
  <2> QED BY ONLY <2>2, <2>4
<1>6. StepMediaRows(photos) = slots
  <2>1. \A i \in DOMAIN photos : \A j \in DOMAIN photos[i] : <<i, j>> \in P
    <3>1. photos \in Seq(Seq([id : Nat, name : N]))
      BY <1>3, PagesAreSeqs
    <3> HIDE DEF photos
    <3> QED BY <1>3, <3>1, PlacesAre
  <2>2. \A i \in DOMAIN photos : \A j \in DOMAIN photos[i] :
           slot[<<i, j>>] = Slot(photos[i][j].id, photos[i][j].name, Rank(P, <<i, j>>))
    <3> HIDE DEF photos
    <3>1. \A i, j : At(photos, <<i, j>>) = photos[i][j]
      BY DEF At
    <3>2. \A x \in P : slot[x] = Slot(At(photos, x).id, At(photos, x).name, Rank(P, x))
      BY <1>3
    <3> HIDE DEF slot, photo, P
    <3> QED BY <2>1, <3>1, <3>2
  <2> HIDE DEF photos, slot
  <2> QED BY <1>3, <2>2 DEF StepMediaRows, Changed
<1>7. step = [pages |-> slots, unused |-> <<>>, cover |-> layout.cover]
  BY <1>4, <1>6 DEF NewStep
<1>8. \A x \in P : /\ slot[x].id = next + Rank(P, x) /\ slot[x].name = At(pages, x)
                   /\ slot[x].priority = Rank(P, x)
  BY DEF Slot
<1> HIDE DEF slots, slot, photos, photo, P
<1>9. step \in AnyStep
  <2>1. layout.cover \in Int
    <3>1. \A c \in N \cup {None} : c \in Int
      BY DEF None
    <3> QED BY ONLY <3>1, layout.cover \in N \cup {None}
  <2>2. <<>> \in Seq(Int) /\ slots \in PagesOn(AnySlot)
    BY <1>5
  <2> QED BY ONLY <1>7, <2>1, <2>2 DEF AnyStep
<1>10. ASSUME NEW x \in P, NEW y \in P, x # y
       PROVE  At(slots, x).id # At(slots, y).id /\ At(slots, x).priority # At(slots, y).priority
  <2>1. Rank(P, x) \in Nat /\ Rank(P, y) \in Nat /\ Rank(P, x) # Rank(P, y)
    BY <1>1, <1>10, RankDiffers
  <2> QED BY <1>5, <1>8, <2>1
<1>11. IdsDiffer(slots) /\ PrioritiesDiffer(slots)
  BY <1>5, <1>10 DEF IdsDiffer, PrioritiesDiffer
<1>12. Readable(step)
  <2>1. step.pages = slots
    BY <1>7
  <2> QED BY <1>9, <1>11, <2>1 DEF Readable
<1>13. LayoutNames(step) \subseteq N
  <2>1. \A s \in SlotsOn(slots) : s.name \in N
    BY <1>1, <1>5, <1>8 DEF SlotsOn
  <2>2. ToSet(<<>>) = {}
    BY DEF ToSet
  <2>3. step.pages = slots /\ step.unused = <<>> /\ step.cover \in N \cup {None}
    BY <1>7
  <2> QED BY <2>1, <2>2, <2>3 DEF LayoutNames
<1>14. (SlotsOn(pages) \cup {layout.cover}) \ {None, Text} \subseteq LayoutNames(step)
  <2>1. step.pages = slots /\ step.cover = layout.cover
    BY <1>7
  <2>2. ASSUME NEW n \in SlotsOn(pages), n # Text PROVE n \in LayoutNames(step)
    <3>1. PICK x \in P : n = At(pages, x)
      BY DEF SlotsOn, P
    <3>2. At(slots, x) \in SlotsOn(slots) /\ At(slots, x).name = n
      BY <1>5, <1>8, <3>1 DEF SlotsOn
    <3> QED BY <2>1, <2>2, <3>2 DEF LayoutNames
  <2> QED BY <2>1, <2>2 DEF LayoutNames
<1> QED BY <1>12, <1>13, <1>14

-----------------------------------------------------------------------------
(* The layout of a new step has the names of its files *)

LEMMA MembersAre ==
    ASSUME NEW T, NEW s \in Seq(T), NEW N, ToSet(s) \subseteq N
    PROVE  s \in Seq(N)
<1>1. DOMAIN s = 1 .. Len(s) /\ Len(s) \in Nat /\ s = [i \in 1 .. Len(s) |-> s[i]]
  OBVIOUS
<1>2. \A i \in DOMAIN s : s[i] \in N
  BY DEF ToSet
<1>3. s \in [1 .. Len(s) -> N]
  BY <1>1, <1>2
<1> QED BY <1>1, <1>3, IsASeq

LEMMA FolderNames ==
    ASSUME NEW files, IsFiniteSet(files), {f.name : f \in files} \subseteq Int,
           NEW S, S \subseteq files
    PROVE  /\ Ascending({f.name : f \in S}) \in Seq({f.name : f \in files})
           /\ ToSet(Ascending({f.name : f \in S})) = {f.name : f \in S}
<1> DEFINE name == [f \in S |-> f.name]
           names == {f.name : f \in S}
<1>1. IsFiniteSet(S)
  BY FS_Subset
<1>2. names = {name[f] : f \in S}
  OBVIOUS
<1>3. names \subseteq Int /\ names \subseteq {f.name : f \in files}
  OBVIOUS
<1> HIDE DEF name
<1>4. IsFiniteSet(names)
  BY <1>1, <1>2, Image
<1> HIDE DEF names
<1>5. Ascending(names) \in Seq(Int) /\ ToSet(Ascending(names)) = names
  BY <1>3, <1>4, AscendingIs
<1>6. Ascending(names) \in Seq({f.name : f \in files})
  BY <1>3, <1>5, MembersAre
<1> QED BY <1>5, <1>6 DEF names

\* What a step's files are laid out to.
LEMMA LayoutIs ==
    ASSUME NEW files, IsFiniteSet(files), {f.name : f \in files} \subseteq Int
    PROVE  /\ BuildStepLayout(files).media = files
           /\ BuildStepLayout(files).pages \in PagesOn({f.name : f \in files})
           /\ BuildStepLayout(files).cover \in {f.name : f \in files} \cup {None}
<1> DEFINE N == {f.name : f \in files}
           portraits == Ascending({f.name : f \in {g \in files : g.shape = "p"}})
           landscapes == Ascending({f.name : f \in {g \in files : g.shape # "p"}})
           layout == BuildStepLayout(files)
<1>1. portraits \in Seq(N) /\ landscapes \in Seq(N)
  <2>1. {g \in files : g.shape = "p"} \subseteq files /\ {g \in files : g.shape # "p"} \subseteq files
    OBVIOUS
  <2> QED BY <2>1, FolderNames
<1>2. CASE files = {}
  <2>1. layout = [cover |-> None, pages |-> <<>>, media |-> {}]
    BY <1>2 DEF BuildStepLayout
  <2> HIDE DEF layout
  <2>2. <<>> \in PagesOn(N)
    BY DEF PagesOn
  <2> QED BY <1>2, <2>1, <2>2 DEF layout
<1>3. CASE files # {}
  <2> DEFINE rest == IF portraits # <<>> THEN Tail(portraits) ELSE <<>>
             cover == IF portraits # <<>> THEN portraits[1] ELSE landscapes[1]
  <2>1. layout = [cover |-> cover, pages |-> BuildPages(rest, landscapes), media |-> files]
    BY <1>3, Zenon DEF BuildStepLayout
  <2>2. rest \in Seq(N)
    <3> HIDE DEF portraits, N
    <3> QED BY <1>1
  <2>3. BuildPages(rest, landscapes) \in PagesOn(N)
    <3> HIDE DEF rest, landscapes, N
    <3> QED BY <1>1, <2>2, BuildPagesAre
  <2>4. portraits # <<>> \/ landscapes # <<>>
    <3>1. PICK f \in files : TRUE
      BY <1>3
    <3>3. ToSet(<<>>) = {}
      BY DEF ToSet
    <3>4. CASE f.shape = "p"
      <4> DEFINE S == {g \in files : g.shape = "p"}
      <4>1. f.name \in {g.name : g \in S}
        BY <3>4
      <4>2. ToSet(portraits) = {g.name : g \in S}
        BY S \subseteq files, FolderNames
      <4> HIDE DEF portraits, S
      <4> QED BY <3>3, <4>1, <4>2
    <3>5. CASE f.shape # "p"
      <4> DEFINE S == {g \in files : g.shape # "p"}
      <4>1. f.name \in {g.name : g \in S}
        BY <3>5
      <4>2. ToSet(landscapes) = {g.name : g \in S}
        BY S \subseteq files, FolderNames
      <4> HIDE DEF landscapes, S
      <4> QED BY <3>3, <4>1, <4>2
    <3> QED BY <3>4, <3>5
  <2>5. cover \in N
    <3> HIDE DEF portraits, landscapes, N
    <3> QED BY <1>1, <2>4
  <2> HIDE DEF layout, cover, rest, landscapes
  <2>6. layout.media = files /\ layout.pages \in PagesOn(N) /\ layout.cover \in N \cup {None}
    BY <2>1, <2>3, <2>5
  <2> QED BY <2>6 DEF layout
<1> QED BY <1>2, <1>3

-----------------------------------------------------------------------------
(* A layout that replaces another: new priorities are above the old ones *)

LEMMA StepIs ==
    ASSUME NEW step \in AnyStep
    PROVE  /\ step.pages \in PagesOn(AnySlot) /\ step.unused \in Seq(Int) /\ step.cover \in Int
           /\ DOMAIN step = {"pages", "unused", "cover"}
           /\ IsFiniteSet(SlotsOn(step.pages)) /\ SlotsOn(step.pages) \subseteq AnySlot
           /\ IsFiniteSet(Places(step.pages)) /\ Places(step.pages) \subseteq Nat \X Nat
           /\ \A x \in Places(step.pages) :
                 At(step.pages, x) \in AnySlot /\ At(step.pages, x) \in SlotsOn(step.pages)
<1>1. /\ step.pages \in PagesOn(AnySlot) /\ step.unused \in Seq(Int) /\ step.cover \in Int
      /\ DOMAIN step = {"pages", "unused", "cover"}
  BY DEF AnyStep
<1>2. step.pages \in Seq(Seq(AnySlot))
  BY <1>1, PagesAreSeqs
<1>3. \A x \in Places(step.pages) : At(step.pages, x) \in SlotsOn(step.pages)
  BY DEF SlotsOn
<1> QED BY <1>1, <1>2, <1>3, SlotsOnAre, PlacesAre

\* The priorities that a step's layout gets when it is replaced.
NewSlots(step, pages) ==
    {x \in Places(pages) : ~\E o \in SlotsOn(step.pages) : o.id = At(pages, x).id}

FirstNew(step) == 1 + Max({o.priority : o \in SlotsOn(step.pages)} \cup {-1})

OldSlot(step, id) == CHOOSE o \in SlotsOn(step.pages) : o.id = id

Priorities(step, pages) ==
    [x \in Places(pages) |->
        IF x \in NewSlots(step, pages) THEN FirstNew(step) + Rank(NewSlots(step, pages), x)
        ELSE OldSlot(step, At(pages, x).id).priority]

LEMMA NewPriorities ==
    ASSUME NEW step, Readable(step), NEW layout \in AnyStep, IdsDiffer(layout.pages)
    PROVE  LET priority == Priorities(step, layout.pages)
           IN  /\ \A x \in Places(layout.pages) : priority[x] \in Nat
               /\ \A x, y \in Places(layout.pages) : x # y => priority[x] # priority[y]
<1> DEFINE priority == Priorities(step, layout.pages)
           new == NewSlots(step, layout.pages)
           first == FirstNew(step)
           old == SlotsOn(step.pages)
           P == Places(layout.pages)
           id(x) == At(layout.pages, x).id
           kept(x) == OldSlot(step, id(x))
<1>1. /\ IsFiniteSet(old) /\ old \subseteq AnySlot
      /\ IsFiniteSet(P) /\ P \subseteq Nat \X Nat
      /\ \A x \in P : At(layout.pages, x) \in AnySlot
  BY StepIs DEF Readable
<1>2. new \subseteq P /\ IsFiniteSet(new) /\ new \subseteq Nat \X Nat
  <2>1. new \in SUBSET P
    BY DEF NewSlots
  <2> QED BY <1>1, <2>1, FS_Subset
<1>3. first \in Nat /\ \A o \in old : o.priority \in Nat /\ o.priority < first
  <2> DEFINE S == {o.priority : o \in old}
             all == S \cup {-1}
             f == [o \in old |-> o.priority]
  <2>1. \A o \in old : o.priority \in Nat
    BY <1>1 DEF AnySlot
  <2>2. S = {f[o] : o \in old} /\ S \subseteq Nat
    BY <2>1
  <2>3. \A o \in old : o.priority \in S
    OBVIOUS
  <2> HIDE DEF f
  <2>4. IsFiniteSet(S)
    BY <1>1, <2>2, Image
  <2> HIDE DEF S
  <2>5. IsFiniteSet(all) /\ all \subseteq Int /\ all # {} /\ -1 \in all
    <3>1. IsFiniteSet({-1})
      BY FS_Singleton
    <3>2. IsFiniteSet(all)
      BY ONLY <2>4, <3>1, FS_Union
    <3> QED BY ONLY <2>2, <3>2
  <2>6. first = 1 + Max(all)
    BY DEF S, FirstNew
  <2>7. S \subseteq all
    OBVIOUS
  <2> HIDE DEF all
  <2>8. Max(all) \in Int /\ -1 <= Max(all) /\ \A y \in all : y <= Max(all)
    BY ONLY <2>5, MaxIs
  <2>9. first \in Nat
    BY ONLY <2>6, <2>8
  <2>10. \A o \in old : o.priority <= Max(all)
    BY ONLY <2>3, <2>7, <2>8
  <2> QED BY ONLY <2>1, <2>6, <2>8, <2>9, <2>10
<1>4. ASSUME NEW x \in P, x \notin new PROVE kept(x) \in old /\ kept(x).id = id(x)
  <2>1. \E o \in old : o.id = id(x)
    BY <1>4 DEF NewSlots
  <2> HIDE DEF id
  <2> QED BY <2>1 DEF OldSlot
<1>5. \A o, p \in old : o.id # p.id => o.priority # p.priority
  <2> SUFFICES ASSUME NEW o \in old, NEW p \in old, o.id # p.id PROVE o.priority # p.priority
    OBVIOUS
  <2>1. PICK u \in Places(step.pages) : o = At(step.pages, u)
    BY DEF SlotsOn
  <2>2. PICK v \in Places(step.pages) : p = At(step.pages, v)
    BY DEF SlotsOn
  <2>3. u # v
    BY <2>1, <2>2
  <2> QED BY ONLY <2>1, <2>2, <2>3, Readable(step) DEF Readable, PrioritiesDiffer
<1>6. \A x \in P : priority[x] = IF x \in new THEN first + Rank(new, x) ELSE kept(x).priority
  BY DEF Priorities
<1>7. \A x \in new : Rank(new, x) \in Nat
  BY <1>2, RankGrows
<1>8. \A x, y \in new : x # y => Rank(new, x) # Rank(new, y)
  BY <1>2, RankDiffers
<1>9. \A x, y \in P : x # y => id(x) # id(y)
  BY DEF IdsDiffer
<1> HIDE DEF old, P, id, kept, new, first, priority
<1>10. \A x \in P : x \notin new => kept(x).priority \in Nat /\ kept(x).priority < first
  BY ONLY <1>3, <1>4
<1>11. \A x \in P : x \notin new => priority[x] \in Nat /\ priority[x] < first
  BY ONLY <1>6, <1>10
<1>12. \A x \in P : x \in new => priority[x] \in Nat /\ priority[x] >= first
  <2> SUFFICES ASSUME NEW x \in P, x \in new PROVE priority[x] \in Nat /\ priority[x] >= first
    OBVIOUS
  <2>1. priority[x] = first + Rank(new, x) /\ Rank(new, x) \in Nat /\ first \in Nat
    BY ONLY <1>3, <1>6, <1>7, x \in P, x \in new
  <2> QED BY ONLY <2>1
<1>13. ASSUME NEW x \in P, NEW y \in P, x # y PROVE priority[x] # priority[y]
  <2>1. CASE x \in new /\ y \in new
    <3>1. Rank(new, x) # Rank(new, y) /\ Rank(new, x) \in Nat /\ Rank(new, y) \in Nat
      BY ONLY <1>7, <1>8, <1>13, <2>1
    <3>2. priority[x] = first + Rank(new, x) /\ priority[y] = first + Rank(new, y) /\ first \in Nat
      BY ONLY <1>3, <1>6, <2>1, x \in P, y \in P
    <3> QED BY ONLY <3>1, <3>2
  <2>2. CASE x \notin new /\ y \notin new
    <3>1. kept(x) \in old /\ kept(y) \in old /\ kept(x).id # kept(y).id
      BY ONLY <1>4, <1>9, <1>13, <2>2, x \in P, y \in P
    <3> QED BY ONLY <1>5, <1>6, <2>2, <3>1, x \in P, y \in P
  <2>3. CASE x \in new /\ y \notin new
    BY ONLY <1>3, <1>11, <1>12, <2>3, x \in P, y \in P
  <2>4. CASE x \notin new /\ y \in new
    BY ONLY <1>3, <1>11, <1>12, <2>4, x \in P, y \in P
  <2> QED BY ONLY <2>1, <2>2, <2>3, <2>4
<1>14. \A x \in P : priority[x] \in Nat
  BY ONLY <1>11, <1>12
<1> QED BY ONLY <1>13, <1>14 DEF P, priority

\* A replaced layout: slots that are new come after all that were there.
LEMMA ReplacedIs ==
    ASSUME NEW step, Readable(step), NEW layout \in AnyStep, IdsDiffer(layout.pages)
    PROVE  /\ Readable(ReplaceStepMediaLayout(step, layout))
           /\ LayoutNames(ReplaceStepMediaLayout(step, layout)) \subseteq LayoutNames(layout)
<1> DEFINE old == SlotsOn(step.pages)
           pages == layout.pages
           P == Places(pages)
           new == NewSlots(step, pages)
           first == FirstNew(step)
           priority == Priorities(step, pages)
           slot == [x \in P |-> [At(pages, x) EXCEPT !.priority = priority[x]]]
           result == ReplaceStepMediaLayout(step, layout)
<1>1. /\ \A x \in P : priority[x] \in Nat
      /\ \A x, y \in P : x # y => priority[x] # priority[y]
  BY NewPriorities
<1>2. /\ pages \in PagesOn(AnySlot)
      /\ \A x \in P : At(pages, x) \in AnySlot
      /\ \A x \in P : x[1] \in DOMAIN pages /\ x[2] \in DOMAIN pages[x[1]]
      /\ \A i \in DOMAIN pages : \A j \in DOMAIN pages[i] : <<i, j>> \in P
  BY StepIs, PagesAreSeqs, PlacesAre
<1>3. result = [layout EXCEPT !.pages = Changed(pages, slot)]
  <2> DEFINE value(i, j) == [pages[i][j] EXCEPT !.priority =
                               IF <<i, j>> \in new THEN first + Rank(new, <<i, j>>)
                               ELSE OldSlot(step, pages[i][j].id).priority]
  <2>1. result = [layout EXCEPT !.pages =
                    [i \in DOMAIN pages |-> [j \in DOMAIN pages[i] |-> value(i, j)]]]
    BY DEF ReplaceStepMediaLayout, NewSlots, FirstNew, OldSlot
  <2> HIDE DEF new, first
  <2>2. \A x \in P : slot[x] = [At(pages, x) EXCEPT !.priority =
                                  IF x \in new THEN first + Rank(new, x)
                                  ELSE OldSlot(step, At(pages, x).id).priority]
    BY DEF Priorities, new, first
  <2>3. \A i, j : At(pages, <<i, j>>) = pages[i][j]
    BY DEF At
  <2> HIDE DEF slot, priority, P
  <2>4. ASSUME NEW i \in DOMAIN pages, NEW j \in DOMAIN pages[i]
        PROVE  value(i, j) = slot[<<i, j>>]
    <3>1. <<i, j>> \in P /\ At(pages, <<i, j>>) = pages[i][j]
      BY <1>2, <2>3
    <3>2. slot[<<i, j>>] = [At(pages, <<i, j>>) EXCEPT !.priority =
                              IF <<i, j>> \in new THEN first + Rank(new, <<i, j>>)
                              ELSE OldSlot(step, At(pages, <<i, j>>).id).priority]
      BY ONLY <2>2, <3>1
    <3> QED BY ONLY <3>1, <3>2
  <2> HIDE DEF value, slot, result
  <2>5. [i \in DOMAIN pages |-> [j \in DOMAIN pages[i] |-> value(i, j)]] = Changed(pages, slot)
    BY <2>4 DEF Changed
  <2> QED BY <2>1, <2>5
<1> HIDE DEF priority, new, first, old
<1>4. \A x \in P : /\ slot[x] \in AnySlot
                   /\ slot[x].id = At(pages, x).id /\ slot[x].name = At(pages, x).name
                   /\ slot[x].priority = priority[x]
  <2> SUFFICES ASSUME NEW x \in P
               PROVE  /\ slot[x] \in AnySlot
                      /\ slot[x].id = At(pages, x).id /\ slot[x].name = At(pages, x).name
                      /\ slot[x].priority = priority[x]
    OBVIOUS
  <2>1. slot[x] = [At(pages, x) EXCEPT !.priority = priority[x]]
    OBVIOUS
  <2>2. At(pages, x) \in AnySlot /\ priority[x] \in Nat
    BY <1>1, <1>2
  <2> HIDE DEF slot
  <2> QED BY ONLY <2>1, <2>2 DEF AnySlot
<1> HIDE DEF slot, result
<1> DEFINE changed == Changed(pages, slot)
<1>5. /\ changed \in PagesOn(AnySlot) /\ Places(changed) = P
      /\ \A x \in P : At(changed, x) = slot[x]
  BY <1>2, <1>4, ChangedPages
<1> HIDE DEF changed
<1>6. /\ result \in AnyStep /\ result.pages = changed
      /\ result.unused = layout.unused /\ result.cover = layout.cover
  <2>1. result = [layout EXCEPT !.pages = changed]
    BY <1>3 DEF changed
  <2> QED BY ONLY <1>5, <2>1, layout \in AnyStep DEF AnyStep
<1>7. IdsDiffer(changed)
  BY <1>4, <1>5 DEF IdsDiffer
<1>8. PrioritiesDiffer(changed)
  BY <1>1, <1>4, <1>5 DEF PrioritiesDiffer
<1>9. LayoutNames(result) \subseteq LayoutNames(layout)
  <2>1. ASSUME NEW s \in SlotsOn(changed) PROVE \E t \in SlotsOn(pages) : t.name = s.name
    <3>1. PICK x \in P : s = At(changed, x)
      BY <1>5 DEF SlotsOn
    <3>2. At(pages, x) \in SlotsOn(pages)
      BY DEF SlotsOn
    <3> QED BY <1>4, <1>5, <3>1, <3>2
  <2> QED BY ONLY <1>6, <2>1 DEF LayoutNames
<1> QED BY <1>6, <1>7, <1>8, <1>9 DEF Readable, result

-----------------------------------------------------------------------------
(* A reconciled step *)

\* What stays of a step's pages still differs in ids and in priorities.
LEMMA KeptSlots ==
    ASSUME NEW pages \in PagesOn(AnySlot), NEW S
    PROVE  /\ KeptPages(pages, S) \in PagesOn(AnySlot)
           /\ SlotsOn(KeptPages(pages, S)) \subseteq SlotsOn(pages) \cap S
           /\ IdsDiffer(pages) => IdsDiffer(KeptPages(pages, S))
           /\ PrioritiesDiffer(pages) => PrioritiesDiffer(KeptPages(pages, S))
<1> DEFINE kept == KeptPages(pages, S)
<1>1. pages \in Seq(Seq(AnySlot))
  BY PagesAreSeqs
<1>2. kept \in PagesOn(AnySlot \cap S)
  BY <1>1, KeptPagesAre
<1>3. PICK from : EmbedsPages(from, kept, pages)
  BY <1>1, KeptPagesAre
<1> HIDE DEF kept
<1>4. kept \in PagesOn(AnySlot)
  <2> DEFINE A == Seq(AnySlot \cap S) \ {<<>>}
             B == Seq(AnySlot) \ {<<>>}
  <2>1. Seq(AnySlot \cap S) \subseteq Seq(AnySlot)
    BY WiderSeq
  <2>2. A \subseteq B
    BY <2>1
  <2>3. kept \in Seq(A)
    BY <1>2 DEF PagesOn
  <2> HIDE DEF A, B
  <2>4. kept \in Seq(B)
    BY <2>2, <2>3, WiderSeq
  <2> QED BY <2>4 DEF B, PagesOn
<1>5. SlotsOn(kept) \subseteq SlotsOn(pages) \cap S
  <2>1. kept \in Seq(Seq(AnySlot \cap S))
    BY <1>2, PagesAreSeqs
  <2>2. SlotsOn(kept) \subseteq AnySlot \cap S
    BY <2>1, SlotsOnAre
  <2>3. SlotsOn(kept) \subseteq SlotsOn(pages)
    BY <1>3 DEF SlotsOn, EmbedsPages
  <2> QED BY <2>2, <2>3
<1>6. IdsDiffer(pages) => IdsDiffer(kept)
  BY <1>3 DEF IdsDiffer, EmbedsPages
<1>7. PrioritiesDiffer(pages) => PrioritiesDiffer(kept)
  BY <1>3 DEF PrioritiesDiffer, EmbedsPages
<1> QED BY <1>4, <1>5, <1>6, <1>7 DEF kept

\* The names of the slots that are no text.
SlotNames(pages) == {slot.name : slot \in {s \in SlotsOn(pages) : s.name # Text}}

LEMMA PickCoverIs ==
    ASSUME NEW step \in AnyStep, NEW rows
    PROVE  /\ PickCover(step, rows) \in Int
           /\ PickCover(step, rows) \in SlotNames(step.pages) \cup ToSet(step.unused) \cup {None}
<1> DEFINE pages == step.pages
           shown == [i \in DOMAIN pages |-> [j \in DOMAIN pages[i] |-> pages[i][j].name]]
           names == Append(shown, step.unused)
           candidates == {x \in Places(names) : At(names, x) # Text}
           portraits == {x \in candidates : At(names, x) \in {n \in DOMAIN rows : rows[n] = "p"}}
           N == SlotNames(pages) \cup ToSet(step.unused)
<1>1. /\ pages \in Seq(Seq(AnySlot)) /\ step.unused \in Seq(Int)
      /\ \A x \in Places(pages) : At(pages, x) \in AnySlot /\ At(pages, x) \in SlotsOn(pages)
      /\ \A i \in DOMAIN pages : \A j \in DOMAIN pages[i] : <<i, j>> \in Places(pages)
  BY StepIs, PagesAreSeqs, PlacesAre
<1>2. /\ DOMAIN pages = 1 .. Len(pages) /\ Len(pages) \in Nat
      /\ \A i \in DOMAIN pages : pages[i] \in Seq(AnySlot) /\ DOMAIN pages[i] = 1 .. Len(pages[i])
                                 /\ Len(pages[i]) \in Nat
  BY <1>1
<1>3. \A i \in DOMAIN pages : \A j \in DOMAIN pages[i] :
         At(pages, <<i, j>>) = pages[i][j] /\ pages[i][j] \in AnySlot /\ pages[i][j] \in SlotsOn(pages)
  <2>1. \A i, j : At(pages, <<i, j>>) = pages[i][j]
    BY DEF At
  <2> HIDE DEF pages
  <2> QED BY ONLY <1>1, <2>1
<1> HIDE DEF pages
<1>4. /\ DOMAIN shown = 1 .. Len(pages)
      /\ \A i \in DOMAIN pages : /\ DOMAIN shown[i] = DOMAIN pages[i]
                                 /\ \A j \in DOMAIN pages[i] : shown[i][j] = pages[i][j].name
  BY <1>2
<1>5. shown \in Seq(Seq(Int))
  <2>1. ASSUME NEW i \in DOMAIN pages PROVE shown[i] \in Seq(Int)
    <3>1. shown[i] = [j \in 1 .. Len(pages[i]) |-> pages[i][j].name]
      BY <1>2
    <3>2. \A j \in 1 .. Len(pages[i]) : pages[i][j].name \in Int
      BY <1>2, <1>3 DEF AnySlot
    <3> HIDE DEF shown
    <3>3. shown[i] \in [1 .. Len(pages[i]) -> Int]
      BY <3>1, <3>2
    <3> QED BY <1>2, <3>3, IsASeq
  <2>2. shown = [i \in 1 .. Len(pages) |-> shown[i]]
    BY <1>2
  <2> HIDE DEF shown
  <2>3. shown \in [1 .. Len(pages) -> Seq(Int)]
    BY <1>2, <2>1, <2>2
  <2> QED BY <1>2, <2>3, IsASeq
<1> HIDE DEF shown
<1>6. /\ names \in Seq(Seq(Int)) /\ DOMAIN names = 1 .. Len(pages) + 1
      /\ \A i \in 1 .. Len(pages) : names[i] = shown[i]
      /\ names[Len(pages) + 1] = step.unused
  <2>1. Len(shown) = Len(pages)
    BY <1>2, <1>4, <1>5
  <2> DEFINE unused == step.unused
             E == Seq(Int)
  <2>2. shown \in Seq(E) /\ unused \in E
    BY <1>1, <1>5
  <2> HIDE DEF unused, E
  <2>3. /\ Append(shown, unused) \in Seq(E)
        /\ DOMAIN Append(shown, unused) = 1 .. Len(shown) + 1
        /\ \A i \in 1 .. Len(shown) : Append(shown, unused)[i] = shown[i]
        /\ Append(shown, unused)[Len(shown) + 1] = unused
    BY ONLY <2>2
  <2> QED BY <2>1, <2>3 DEF unused, E
<1> HIDE DEF names
<1>7. /\ Places(names) \subseteq Nat \X Nat
      /\ \A x \in Places(names) : /\ At(names, x) \in Int /\ At(names, x) = names[x[1]][x[2]]
                                  /\ x[1] \in DOMAIN names /\ x[2] \in DOMAIN names[x[1]]
  BY <1>6, PlacesAre
<1>8. ASSUME NEW x \in candidates PROVE At(names, x) \in Int /\ At(names, x) \in N
  <2>1. /\ At(names, x) = names[x[1]][x[2]] /\ At(names, x) # Text /\ At(names, x) \in Int
        /\ x[1] \in DOMAIN names /\ x[2] \in DOMAIN names[x[1]]
    BY <1>7
  <2>2. CASE x[1] \in 1 .. Len(pages)
    <3>1. names[x[1]] = shown[x[1]] /\ x[1] \in DOMAIN pages
      BY <1>2, <1>6, <2>2
    <3>2. x[2] \in DOMAIN pages[x[1]] /\ At(names, x) = pages[x[1]][x[2]].name
      BY <1>4, <2>1, <3>1
    <3>3. pages[x[1]][x[2]] \in SlotsOn(pages)
      BY <1>3, <3>1, <3>2
    <3>4. \A s \in SlotsOn(pages) : s.name # Text => s.name \in SlotNames(pages)
      BY DEF SlotNames
    <3>5. At(names, x) \in SlotNames(pages)
      BY ONLY <2>1, <3>2, <3>3, <3>4
    <3> QED BY ONLY <2>1, <3>5
  <2>3. CASE x[1] = Len(pages) + 1
    BY <1>6, <2>1, <2>3 DEF ToSet
  <2> QED BY <1>2, <1>6, <2>1, <2>2, <2>3
<1>9. candidates \subseteq Nat \X Nat /\ portraits \subseteq candidates /\ portraits \subseteq Nat \X Nat
  BY <1>7
<1> DEFINE best == IF portraits # {} THEN portraits ELSE candidates
           cover == PickCover(step, rows)
<1>10. cover = IF best # {} THEN At(names, FirstPlace(best)) ELSE None
  BY Zenon DEF PickCover, names, shown, pages
<1>11. best \subseteq candidates /\ best \subseteq Nat \X Nat
  BY <1>9
<1> HIDE DEF candidates, portraits, N, best, cover
<1>12. ASSUME best # {} PROVE cover \in Int /\ cover \in N
  <2>1. FirstPlace(best) \in candidates
    BY <1>11, <1>12, FirstPlaceIs
  <2>2. cover = At(names, FirstPlace(best))
    BY ONLY <1>10, <1>12
  <2> QED BY ONLY <1>8, <2>1, <2>2
<1>13. (cover \in Int /\ cover \in N) \/ cover = None
  BY ONLY <1>10, <1>12
<1> QED BY ONLY <1>13 DEF N, pages, cover, None

\* A step on the files that are there.
LEMMA ReconciledIs ==
    ASSUME NEW step, Readable(step), NEW scanned, scanned \subseteq Int, IsFiniteSet(scanned),
           NEW onDisk, NEW rows
    PROVE  LET new == ReconcileStep(step, scanned, onDisk, rows)
           IN  /\ Readable(new)
               /\ LayoutNames(new) = onDisk \cap (LayoutNames(step) \cup scanned)
<1> DEFINE slots == {s \in SlotsOn(step.pages) : s.name \in onDisk \cup {Text}}
           added == (scanned \ LayoutNames(step)) \cap onDisk
           pages == KeptPages(step.pages, slots)
           still == Kept(step.unused, onDisk)
           more == Ascending(added)
           unused == still \o more
           kept == [step EXCEPT !.pages = pages, !.unused = unused]
           cover == IF step.cover = None \/ step.cover \in onDisk THEN step.cover
                    ELSE PickCover(kept, rows)
           new == ReconcileStep(step, scanned, onDisk, rows)
<1>1. /\ step \in AnyStep /\ step.pages \in PagesOn(AnySlot) /\ step.unused \in Seq(Int)
      /\ step.cover \in Int /\ IdsDiffer(step.pages) /\ PrioritiesDiffer(step.pages)
  BY StepIs DEF Readable
<1>2. /\ pages \in PagesOn(AnySlot) /\ SlotsOn(pages) \subseteq SlotsOn(step.pages) \cap slots
      /\ IdsDiffer(pages) /\ PrioritiesDiffer(pages)
  <2> HIDE DEF slots
  <2> QED BY <1>1, KeptSlots
<1>3. SlotNames(pages) = onDisk \cap SlotNames(step.pages)
  <2>1. SlotsOn(step.pages) \cap slots \subseteq SlotsOn(pages)
    <3>1. step.pages \in Seq(Seq(AnySlot))
      BY <1>1, PagesAreSeqs
    <3> HIDE DEF slots
    <3> QED BY <3>1, KeptPagesHave
  <2>2. SlotsOn(pages) = slots
    BY <1>2, <2>1
  <2> QED BY <2>2 DEF SlotNames
<1> HIDE DEF pages, slots
<1>4. still \in Seq(Int) /\ ToSet(still) = onDisk \cap ToSet(step.unused)
  <2>1. still \in Seq(Int \cap onDisk) /\ ToSet(still) = ToSet(step.unused) \cap onDisk
    BY <1>1, KeptIs
  <2>2. Seq(Int \cap onDisk) \subseteq Seq(Int)
    BY WiderSeq
  <2> HIDE DEF still
  <2> QED BY <2>1, <2>2
<1>5. more \in Seq(Int) /\ ToSet(more) = added
  <2>1. added \subseteq Int /\ IsFiniteSet(added)
    <3>1. added \in SUBSET scanned
      OBVIOUS
    <3> HIDE DEF added
    <3> QED BY <3>1, FS_Subset
  <2> HIDE DEF added
  <2> QED BY <2>1, AscendingIs
<1> HIDE DEF still, more
<1>6. unused \in Seq(Int) /\ ToSet(unused) = ToSet(still) \cup ToSet(more)
  <2>1. /\ unused \in Seq(Int) /\ DOMAIN unused = 1 .. Len(still) + Len(more)
        /\ DOMAIN still = 1 .. Len(still) /\ DOMAIN more = 1 .. Len(more)
        /\ \A p \in 1 .. Len(still) : unused[p] = still[p]
        /\ \A p \in 1 .. Len(still) + Len(more) : p \notin 1 .. Len(still) =>
              p - Len(still) \in 1 .. Len(more) /\ unused[p] = more[p - Len(still)]
        /\ \A p \in 1 .. Len(more) : Len(still) + p \in 1 .. Len(still) + Len(more)
                                     /\ unused[Len(still) + p] = more[p]
        /\ Len(still) \in Nat /\ Len(more) \in Nat
    BY ONLY <1>4, <1>5, AppendedSteps
  <2>2. 1 .. Len(still) \subseteq 1 .. Len(still) + Len(more)
    BY <2>1
  <2> HIDE DEF unused
  <2>3. ASSUME NEW v \in ToSet(unused) PROVE v \in ToSet(still) \cup ToSet(more)
    <3>1. PICK p \in 1 .. Len(still) + Len(more) : v = unused[p]
      BY <2>1 DEF ToSet
    <3>2. CASE p \in 1 .. Len(still)
      BY <2>1, <3>1, <3>2 DEF ToSet
    <3>3. CASE p \notin 1 .. Len(still)
      BY <2>1, <3>1, <3>3 DEF ToSet
    <3> QED BY <3>2, <3>3
  <2>4. ASSUME NEW v \in ToSet(still) \cup ToSet(more) PROVE v \in ToSet(unused)
    <3>1. CASE v \in ToSet(still)
      BY <2>1, <2>2, <3>1 DEF ToSet
    <3>2. CASE v \in ToSet(more)
      BY <2>1, <3>2 DEF ToSet
    <3> QED BY <3>1, <3>2
  <2> QED BY ONLY <2>1, <2>3, <2>4
<1> HIDE DEF unused
<1>7. kept \in AnyStep /\ kept.pages = pages /\ kept.unused = unused /\ kept.cover = step.cover
  BY ONLY <1>1, <1>2, <1>6 DEF AnyStep, kept
<1> HIDE DEF kept
<1>8. new = [kept EXCEPT !.cover = cover]
  BY <1>7 DEF ReconcileStep, kept, unused, still, more, pages, slots
<1>9. /\ cover \in Int /\ cover \in {None} \cup (onDisk \cap {step.cover}) \cup SlotNames(pages) \cup ToSet(unused)
      /\ step.cover \in onDisk => cover = step.cover
  <2>1. CASE step.cover = None \/ step.cover \in onDisk
    BY <1>1, <2>1
  <2>2. CASE ~(step.cover = None \/ step.cover \in onDisk)
    <3>1. cover = PickCover(kept, rows)
      BY <2>2
    <3> QED BY <1>7, <2>2, <3>1, PickCoverIs
  <2> QED BY <2>1, <2>2
<1> HIDE DEF cover, new
<1>10. new \in AnyStep /\ new.pages = pages /\ new.unused = unused /\ new.cover = cover
  BY ONLY <1>7, <1>8, <1>9 DEF AnyStep
<1>11. Readable(new)
  BY <1>2, <1>10 DEF Readable
<1>12. /\ LayoutNames(new) = SlotNames(pages) \cup ToSet(unused) \cup ({cover} \ {None})
       /\ LayoutNames(step) = SlotNames(step.pages) \cup ToSet(step.unused) \cup ({step.cover} \ {None})
  BY <1>10 DEF LayoutNames, SlotNames
<1>13. ToSet(unused) = (onDisk \cap ToSet(step.unused)) \cup added
  BY <1>4, <1>5, <1>6
<1>14. LayoutNames(new) \subseteq onDisk \cap (LayoutNames(step) \cup scanned)
  BY <1>3, <1>9, <1>12, <1>13
<1>15. onDisk \cap (LayoutNames(step) \cup scanned) \subseteq LayoutNames(new)
  BY <1>3, <1>9, <1>12, <1>13
<1> QED BY <1>11, <1>14, <1>15 DEF new

-----------------------------------------------------------------------------
(* A page or a slot more *)

\* The new pages have the slot at the place, and everything else from the pages, by f.
AddsSlot(f, place, new, pages, slot) ==
    /\ \A x \in Places(new) : x = place => At(new, x) = slot
    /\ \A x \in Places(new) : x # place => f[x] \in Places(pages) /\ At(new, x) = At(pages, f[x])
    /\ \A x, y \in Places(new) : x # place /\ y # place /\ f[x] = f[y] => x = y

LEMMA OneMoreSlot ==
    ASSUME NEW f, NEW place, NEW new, NEW pages, NEW slot, AddsSlot(f, place, new, pages, slot),
           IdsDiffer(pages), \A o \in SlotsOn(pages) : o.id # slot.id
    PROVE  IdsDiffer(new) /\ SlotsOn(new) \subseteq SlotsOn(pages) \cup {slot}
<1>1. \A x \in Places(pages) : At(pages, x) \in SlotsOn(pages)
  BY DEF SlotsOn
<1>2. ASSUME NEW x \in Places(new), NEW y \in Places(new), x # y
      PROVE  At(new, x).id # At(new, y).id
  <2>1. CASE x = place
    <3>1. At(new, x) = slot /\ At(new, y) = At(pages, f[y]) /\ f[y] \in Places(pages)
      BY <1>2, <2>1 DEF AddsSlot
    <3>2. At(pages, f[y]).id # slot.id
      BY ONLY <1>1, <3>1, \A o \in SlotsOn(pages) : o.id # slot.id
    <3> QED BY ONLY <3>1, <3>2
  <2>2. CASE y = place
    <3>1. At(new, y) = slot /\ At(new, x) = At(pages, f[x]) /\ f[x] \in Places(pages)
      BY <1>2, <2>2 DEF AddsSlot
    <3>2. At(pages, f[x]).id # slot.id
      BY ONLY <1>1, <3>1, \A o \in SlotsOn(pages) : o.id # slot.id
    <3> QED BY ONLY <3>1, <3>2
  <2>3. CASE x # place /\ y # place
    <3>1. /\ At(new, x) = At(pages, f[x]) /\ f[x] \in Places(pages)
          /\ At(new, y) = At(pages, f[y]) /\ f[y] \in Places(pages)
          /\ f[x] # f[y]
      BY <1>2, <2>3 DEF AddsSlot
    <3> QED BY ONLY <3>1, IdsDiffer(pages) DEF IdsDiffer
  <2> QED BY <2>1, <2>2, <2>3
<1>3. ASSUME NEW o \in SlotsOn(new) PROVE o \in SlotsOn(pages) \cup {slot}
  <2>1. PICK x \in Places(new) : o = At(new, x)
    BY DEF SlotsOn
  <2>2. o = slot \/ (f[x] \in Places(pages) /\ o = At(pages, f[x]))
    BY <2>1 DEF AddsSlot
  <2> QED BY <1>1, <2>2
<1> QED BY <1>2, <1>3 DEF IdsDiffer

\* A photo on a page of its own, before all others.
LEMMA FirstPageAdded ==
    ASSUME NEW pages \in PagesOn(AnySlot), IdsDiffer(pages),
           NEW slot \in AnySlot, \A o \in SlotsOn(pages) : o.id # slot.id
    PROVE  LET new == <<<<slot>>>> \o pages
           IN  /\ new \in PagesOn(AnySlot) /\ IdsDiffer(new)
               /\ SlotsOn(new) \subseteq SlotsOn(pages) \cup {slot}
<1> DEFINE page == <<slot>>
           E == Seq(AnySlot) \ {<<>>}
           new == <<page>> \o pages
           f == [x \in Places(new) |-> <<x[1] - 1, x[2]>>]
<1>1. /\ page \in Seq(AnySlot) /\ page # <<>> /\ DOMAIN page = {1} /\ page[1] = slot
  OBVIOUS
<1>2. page \in E
  BY <1>1
<1>3. pages \in Seq(E)
  BY DEF PagesOn
<1> HIDE DEF page, E
<1>4. /\ new \in Seq(E) /\ DOMAIN new = 1 .. Len(pages) + 1 /\ Len(pages) \in Nat
      /\ DOMAIN pages = 1 .. Len(pages)
      /\ new[1] = page
      /\ \A i \in 2 .. Len(pages) + 1 : i - 1 \in 1 .. Len(pages) /\ new[i] = pages[i - 1]
  BY ONLY <1>2, <1>3
<1>5. new \in PagesOn(AnySlot)
  BY <1>4 DEF PagesOn, E
<1>6. pages \in Seq(Seq(AnySlot)) /\ new \in Seq(Seq(AnySlot))
  BY <1>5, PagesAreSeqs
<1> HIDE DEF new
<1>7. \A x \in Places(new) : /\ x = <<x[1], x[2]>> /\ At(new, x) = new[x[1]][x[2]]
                             /\ x[1] \in DOMAIN new /\ x[2] \in DOMAIN new[x[1]]
  BY <1>6, PlacesAre
<1>8. \A i \in DOMAIN pages : \A j \in DOMAIN pages[i] : <<i, j>> \in Places(pages)
  BY <1>6, PlacesAre
<1>9. ASSUME NEW x \in Places(new), x = <<1, 1>> PROVE At(new, x) = slot
  <2>1. x[1] = 1 /\ x[2] = 1
    BY <1>9
  <2> QED BY <1>1, <1>4, <1>7, <2>1
<1>10. ASSUME NEW x \in Places(new), x # <<1, 1>>
       PROVE  /\ x[1] \in 2 .. Len(pages) + 1 /\ f[x] = <<x[1] - 1, x[2]>>
              /\ f[x] \in Places(pages) /\ At(new, x) = At(pages, f[x])
  <2>1. x[1] # 1
    <3>1. ASSUME x[1] = 1 PROVE FALSE
      <4>1. x[2] = 1
        BY <1>1, <1>4, <1>7, <3>1
      <4> QED BY <1>7, <1>10, <3>1, <4>1
    <3> QED BY <3>1
  <2>2. x[1] \in 2 .. Len(pages) + 1
    BY <1>4, <1>7, <2>1
  <2>3. x[1] - 1 \in DOMAIN pages /\ new[x[1]] = pages[x[1] - 1]
    BY <1>4, <2>2
  <2>4. x[2] \in DOMAIN pages[x[1] - 1]
    BY <1>7, <2>3
  <2>5. f[x] = <<x[1] - 1, x[2]>>
    OBVIOUS
  <2>6. f[x] \in Places(pages)
    BY <1>8, <2>3, <2>4, <2>5
  <2>7. At(pages, f[x]) = pages[x[1] - 1][x[2]]
    BY <2>5 DEF At
  <2>8. At(new, x) = new[x[1]][x[2]]
    BY <1>7
  <2> QED BY ONLY <2>2, <2>3, <2>5, <2>6, <2>7, <2>8
<1> HIDE DEF f
<1>11. ASSUME NEW x \in Places(new), NEW y \in Places(new), x # <<1, 1>>, y # <<1, 1>>, f[x] = f[y]
       PROVE  x = y
  <2>1. x[1] - 1 = y[1] - 1 /\ x[2] = y[2]
    BY <1>10, <1>11
  <2>2. x[1] = y[1]
    BY <1>4, <1>10, <1>11, <2>1
  <2> QED BY <1>7, <2>1, <2>2
<1>12. AddsSlot(f, <<1, 1>>, new, pages, slot)
  BY <1>9, <1>10, <1>11 DEF AddsSlot
<1>13. IdsDiffer(new) /\ SlotsOn(new) \subseteq SlotsOn(pages) \cup {slot}
  BY <1>12, OneMoreSlot
<1> QED BY <1>5, <1>13 DEF new, page

\* A text at the end of the first page.
LEMMA TextAdded ==
    ASSUME NEW pages \in PagesOn(AnySlot), IdsDiffer(pages), 1 \in DOMAIN pages,
           NEW slot \in AnySlot, \A o \in SlotsOn(pages) : o.id # slot.id
    PROVE  LET new == [pages EXCEPT ![1] = Append(@, slot)]
           IN  /\ new \in PagesOn(AnySlot) /\ IdsDiffer(new)
               /\ SlotsOn(new) \subseteq SlotsOn(pages) \cup {slot}
<1> DEFINE E == Seq(AnySlot) \ {<<>>}
           first == pages[1]
           n == Len(first)
           page == Append(first, slot)
           new == [pages EXCEPT ![1] = page]
           f == [x \in Places(new) |-> x]
           place == <<1, n + 1>>
<1>1. /\ pages \in Seq(Seq(AnySlot))
      /\ pages \in Seq(E)
  BY PagesAreSeqs DEF PagesOn
<1>2. first \in Seq(AnySlot)
  BY <1>1
<1> HIDE DEF first
<1>3. /\ page \in Seq(AnySlot) /\ DOMAIN page = 1 .. n + 1 /\ n \in Nat /\ DOMAIN first = 1 .. n
      /\ page[n + 1] = slot /\ \A j \in 1 .. n : page[j] = first[j]
  BY <1>2
<1>4. page \in E
  <2>1. DOMAIN <<>> = {}
    OBVIOUS
  <2>2. 1 \in DOMAIN page
    BY <1>3
  <2> QED BY <1>3, <2>1, <2>2
<1> HIDE DEF page, E, n
<1>5. /\ new \in Seq(E) /\ DOMAIN new = DOMAIN pages /\ new[1] = page
      /\ \A i \in DOMAIN pages : i # 1 => new[i] = pages[i]
  <2>1. DOMAIN pages = 1 .. Len(pages) /\ Len(pages) \in Nat /\ \A i \in DOMAIN pages : pages[i] \in E
    BY <1>1
  <2>2. /\ DOMAIN new = DOMAIN pages /\ new[1] = page
        /\ \A i \in DOMAIN pages : i # 1 => new[i] = pages[i]
    OBVIOUS
  <2>3. new = [i \in 1 .. Len(pages) |-> new[i]]
    BY <2>1
  <2>4. \A i \in 1 .. Len(pages) : new[i] \in E
    BY <1>4, <2>1, <2>2
  <2> HIDE DEF new
  <2>5. new \in [1 .. Len(pages) -> E]
    BY ONLY <2>3, <2>4
  <2> QED BY <2>1, <2>2, <2>5, IsASeq
<1>6. new \in PagesOn(AnySlot)
  BY <1>5 DEF PagesOn, E
<1>7. new \in Seq(Seq(AnySlot))
  BY <1>6, PagesAreSeqs
<1> HIDE DEF new
<1>8. \A x \in Places(new) : /\ x = <<x[1], x[2]>> /\ At(new, x) = new[x[1]][x[2]]
                             /\ x[1] \in DOMAIN new /\ x[2] \in DOMAIN new[x[1]]
  BY <1>7, PlacesAre
<1>9. \A i \in DOMAIN pages : \A j \in DOMAIN pages[i] : <<i, j>> \in Places(pages)
  BY <1>1, PlacesAre
<1>10. ASSUME NEW x \in Places(new), x = place PROVE At(new, x) = slot
  <2>1. x[1] = 1 /\ x[2] = n + 1
    BY <1>10
  <2> QED BY <1>3, <1>5, <1>8, <2>1
<1>11. ASSUME NEW x \in Places(new), x # place
       PROVE  f[x] \in Places(pages) /\ At(new, x) = At(pages, f[x])
  <2>1. x[1] \in DOMAIN pages /\ x[2] \in DOMAIN pages[x[1]] /\ new[x[1]][x[2]] = pages[x[1]][x[2]]
    <3>1. CASE x[1] = 1
      <4>1. x[2] \in 1 .. n + 1
        BY <1>3, <1>5, <1>8, <3>1
      <4>2. x[2] # n + 1
        BY <1>8, <1>11, <3>1
      <4>3. x[2] \in 1 .. n
        BY <1>3, <4>1, <4>2
      <4> QED BY <1>3, <1>5, <3>1, <4>3 DEF first
    <3>2. CASE x[1] # 1
      BY <1>5, <1>8, <3>2
    <3> QED BY <3>1, <3>2
  <2>2. x \in Places(pages)
    BY <1>8, <1>9, <2>1
  <2>3. At(new, x) = At(pages, x)
    BY <1>8, <2>1 DEF At
  <2> QED BY <2>2, <2>3
<1>12. AddsSlot(f, place, new, pages, slot)
  <2>1. \A x \in Places(new) : f[x] = x
    OBVIOUS
  <2> HIDE DEF f, place
  <2> QED BY <1>10, <1>11, <2>1 DEF AddsSlot
<1> HIDE DEF f, place
<1>13. IdsDiffer(new) /\ SlotsOn(new) \subseteq SlotsOn(pages) \cup {slot}
  BY <1>12, OneMoreSlot
<1> QED BY <1>6, <1>13 DEF new, page, first

-----------------------------------------------------------------------------
(* Readable albums, new ids, and what a tab may send *)

\* An album whose steps can be read back.
AlbumReadable(a) ==
    /\ DOMAIN a.steps \subseteq Int /\ IsFiniteSet(DOMAIN a.steps)
    /\ \A s \in DOMAIN a.steps : Readable(a.steps[s])

LEMMA SlotIdsAre ==
    ASSUME NEW a, AlbumReadable(a)
    PROVE  /\ IsFiniteSet(SlotIds(a.steps)) /\ SlotIds(a.steps) \subseteq Nat
           /\ \A s \in DOMAIN a.steps : \A o \in SlotsOn(a.steps[s].pages) : o.id \in SlotIds(a.steps)
<1> DEFINE steps == a.steps
           ids(s) == {o.id : o \in SlotsOn(steps[s].pages)}
           all == [s \in DOMAIN steps |-> ids(s)]
<1>1. ASSUME NEW s \in DOMAIN steps PROVE IsFiniteSet(ids(s)) /\ ids(s) \subseteq Nat
  <2> DEFINE slots == SlotsOn(steps[s].pages)
             id == [o \in slots |-> o.id]
  <2>1. IsFiniteSet(slots) /\ slots \subseteq AnySlot
    BY StepIs DEF AlbumReadable, Readable
  <2>2. \A o \in slots : o.id \in Nat
    BY <2>1 DEF AnySlot
  <2>3. ids(s) = {id[o] : o \in slots}
    OBVIOUS
  <2>4. ids(s) \subseteq Nat
    BY <2>2
  <2> HIDE DEF id, slots, ids
  <2> QED BY <2>1, <2>3, <2>4, Image
<1>2. SlotIds(steps) = UNION {all[s] : s \in DOMAIN steps}
  BY DEF SlotIds
<1>3. \A s \in DOMAIN steps : IsFiniteSet(all[s]) /\ all[s] \subseteq Nat
  BY <1>1
<1>4. IsFiniteSet(DOMAIN steps)
  BY DEF AlbumReadable
<1> HIDE DEF all
<1> DEFINE sets == {all[s] : s \in DOMAIN steps}
<1>5. IsFiniteSet(sets) /\ \A S \in sets : IsFiniteSet(S) /\ S \subseteq Nat
  BY <1>3, <1>4, Image
<1> HIDE DEF sets
<1>6. IsFiniteSet(UNION sets) /\ UNION sets \subseteq Nat
  BY <1>5, FS_UNION
<1>7. \A s \in DOMAIN steps : \A o \in SlotsOn(steps[s].pages) : o.id \in SlotIds(steps)
  BY DEF SlotIds
<1> QED BY <1>2, <1>6, <1>7 DEF sets

\* An id that no album has in use.
LEMMA FreshIdIs ==
    ASSUME AlbumReadable(db), AlbumReadable(view), AlbumReadable(run.old)
    PROVE  /\ FreshId \in Nat
           /\ \A s \in DOMAIN view.steps : \A o \in SlotsOn(view.steps[s].pages) : o.id # FreshId
<1> DEFINE A == SlotIds(db.steps)
           B == SlotIds(view.steps)
           C == SlotIds(run.old.steps)
           all == ({0} \cup A) \cup (B \cup C)
<1>1. /\ IsFiniteSet(A) /\ A \subseteq Nat
      /\ IsFiniteSet(B) /\ B \subseteq Nat
      /\ IsFiniteSet(C) /\ C \subseteq Nat
      /\ \A s \in DOMAIN view.steps : \A o \in SlotsOn(view.steps[s].pages) : o.id \in B
  BY SlotIdsAre
<1>2. UNION {SlotIds(a.steps) : a \in {db, view, run.old}} = A \cup (B \cup C)
  OBVIOUS
<1>3. FreshId = 1 + Max(all)
  <2>1. all = {0} \cup UNION {SlotIds(a.steps) : a \in {db, view, run.old}}
    BY <1>2
  <2> HIDE DEF all
  <2> QED BY <2>1 DEF FreshId
<1> HIDE DEF A, B, C
<1>4. IsFiniteSet(all)
  <2>1. IsFiniteSet({0})
    BY FS_Singleton
  <2>2. IsFiniteSet({0} \cup A) /\ IsFiniteSet(B \cup C)
    BY ONLY <1>1, <2>1, FS_Union
  <2> QED BY ONLY <2>2, FS_Union
<1>5. all \subseteq Int /\ all # {} /\ 0 \in all /\ B \subseteq all
  BY <1>1
<1> HIDE DEF all
<1>6. Max(all) \in Int /\ 0 <= Max(all) /\ \A y \in all : y <= Max(all)
  BY ONLY <1>4, <1>5, MaxIs
<1>7. FreshId \in Nat /\ \A y \in all : y \in Int /\ y # FreshId
  BY ONLY <1>3, <1>5, <1>6
<1> QED BY ONLY <1>1, <1>5, <1>7

\* A photo put aside.
LEMMA PutAsideIs ==
    ASSUME NEW step, Readable(step), NEW slot \in SlotsOn(step.pages)
    PROVE  LET new == [step EXCEPT !.pages = KeptPages(@, SlotsOn(@) \ {slot}),
                                   !.unused = Append(@, slot.name)]
           IN  new \in AnyStep /\ IdsDiffer(new.pages)
<1> DEFINE pages == KeptPages(step.pages, SlotsOn(step.pages) \ {slot})
           unused == Append(step.unused, slot.name)
           new == [step EXCEPT !.pages = pages, !.unused = unused]
<1>1. step \in AnyStep /\ step.pages \in PagesOn(AnySlot) /\ step.unused \in Seq(Int) /\ slot \in AnySlot
  BY StepIs DEF Readable
<1>2. pages \in PagesOn(AnySlot) /\ IdsDiffer(pages)
  BY <1>1, KeptSlots DEF Readable
<1>3. unused \in Seq(Int)
  <2>1. slot.name \in Int
    BY <1>1 DEF AnySlot
  <2> QED BY ONLY <1>1, <2>1
<1> HIDE DEF pages, unused
<1>4. new \in AnyStep /\ new.pages = pages
  BY ONLY <1>1, <1>2, <1>3 DEF AnyStep
<1> QED BY <1>2, <1>4 DEF pages, unused

\* An unused photo placed on a page of its own.
LEMMA PlacedIs ==
    ASSUME NEW step, Readable(step), NEW id \in Nat, \A o \in SlotsOn(step.pages) : o.id # id,
           NEW name \in ToSet(step.unused)
    PROVE  LET new == [step EXCEPT !.unused = Kept(@, ToSet(@) \ {name}),
                                   !.pages = <<<<Slot(id, name, 0)>>>> \o @]
           IN  new \in AnyStep /\ IdsDiffer(new.pages)
<1> DEFINE slot == Slot(id, name, 0)
           pages == <<<<slot>>>> \o step.pages
           rest == ToSet(step.unused) \ {name}
           unused == Kept(step.unused, rest)
           new == [step EXCEPT !.unused = unused, !.pages = pages]
<1>1. /\ step \in AnyStep /\ step.pages \in PagesOn(AnySlot) /\ step.unused \in Seq(Int)
      /\ IdsDiffer(step.pages)
  BY StepIs DEF Readable
<1>2. name \in Int
  <2>1. PICK i \in DOMAIN step.unused : name = step.unused[i]
    BY DEF ToSet
  <2> QED BY <1>1, <2>1
<1>3. slot \in AnySlot /\ slot.id = id
  BY <1>2 DEF Slot, AnySlot
<1> HIDE DEF slot
<1>4. pages \in PagesOn(AnySlot) /\ IdsDiffer(pages)
  BY <1>1, <1>3, FirstPageAdded
<1> HIDE DEF rest
<1>5. unused \in Seq(Int)
  <2>1. unused \in Seq(Int \cap rest)
    BY <1>1, KeptIs
  <2>2. Seq(Int \cap rest) \subseteq Seq(Int)
    BY WiderSeq
  <2> QED BY ONLY <2>1, <2>2
<1> HIDE DEF pages, unused
<1>6. new \in AnyStep /\ new.pages = pages
  BY ONLY <1>1, <1>4, <1>5 DEF AnyStep
<1> QED BY <1>4, <1>6 DEF pages, unused, slot, rest

\* Whatever a tab makes of a step that it has read.
LEMMA EditIs ==
    ASSUME AlbumReadable(db), AlbumReadable(view), AlbumReadable(run.old),
           NEW s \in DOMAIN view.steps, NEW layout \in LayoutEdits(view.steps[s])
    PROVE  layout \in AnyStep /\ IdsDiffer(layout.pages)
<1> DEFINE step == view.steps[s]
           aside(slot) == [step EXCEPT !.pages = KeptPages(@, SlotsOn(@) \ {slot}),
                                       !.unused = Append(@, slot.name)]
           placed(name) == [step EXCEPT !.unused = Kept(@, ToSet(@) \ {name}),
                                        !.pages = <<<<Slot(FreshId, name, 0)>>>> \o @]
           covered(name) == [step EXCEPT !.cover = name]
           texted(i) == [step EXCEPT !.pages[1] = Append(@, Slot(FreshId, Text, 0))]
<1>1. FreshId \in Nat /\ Readable(step) /\ \A o \in SlotsOn(step.pages) : o.id # FreshId
  BY FreshIdIs DEF AlbumReadable
<1>2. \/ \E slot \in {t \in SlotsOn(step.pages) : t.name # Text} : layout = aside(slot)
      \/ \E name \in ToSet(step.unused) : layout = placed(name)
      \/ \E name \in LayoutNames(step) \ {step.cover} : layout = covered(name)
      \/ \E i \in {1} \cap DOMAIN step.pages : layout = texted(i)
  BY Zenon DEF LayoutEdits
<1>3. ASSUME NEW slot \in SlotsOn(step.pages), layout = aside(slot)
      PROVE  layout \in AnyStep /\ IdsDiffer(layout.pages)
  <2> HIDE DEF step
  <2> QED BY <1>1, <1>3, PutAsideIs
<1>4. ASSUME NEW name \in ToSet(step.unused), layout = placed(name)
      PROVE  layout \in AnyStep /\ IdsDiffer(layout.pages)
  <2> HIDE DEF step
  <2> QED BY <1>1, <1>4, PlacedIs
<1>5. ASSUME NEW name \in LayoutNames(step), layout = covered(name)
      PROVE  layout \in AnyStep /\ IdsDiffer(layout.pages)
  <2> HIDE DEF step
  <2>1. /\ step \in AnyStep /\ SlotsOn(step.pages) \subseteq AnySlot /\ step.unused \in Seq(Int)
        /\ step.cover \in Int /\ IdsDiffer(step.pages)
    BY <1>1, StepIs DEF Readable
  <2>2. name \in Int
    <3>1. CASE \E o \in SlotsOn(step.pages) : name = o.name
      BY <2>1, <3>1 DEF AnySlot
    <3>2. CASE name \in ToSet(step.unused)
      <4>1. PICK i \in DOMAIN step.unused : name = step.unused[i]
        BY <3>2 DEF ToSet
      <4> QED BY <2>1, <4>1
    <3>3. CASE name = step.cover
      BY <2>1, <3>3
    <3> QED BY <3>1, <3>2, <3>3 DEF LayoutNames
  <2>3. layout \in AnyStep /\ layout.pages = step.pages
    BY <1>5, <2>1, <2>2 DEF AnyStep
  <2> QED BY <2>1, <2>3
<1>6. ASSUME 1 \in DOMAIN step.pages, layout = texted(1)
      PROVE  layout \in AnyStep /\ IdsDiffer(layout.pages)
  <2> DEFINE slot == Slot(FreshId, Text, 0)
             pages == [step.pages EXCEPT ![1] = Append(@, slot)]
  <2> HIDE DEF step
  <2>1. step \in AnyStep /\ step.pages \in PagesOn(AnySlot) /\ IdsDiffer(step.pages)
    BY <1>1, StepIs DEF Readable
  <2>2. slot \in AnySlot /\ slot.id = FreshId
    BY <1>1 DEF Slot, AnySlot, Text
  <2>3. layout = [step EXCEPT !.pages = pages]
    BY <1>6
  <2> HIDE DEF slot
  <2>4. pages \in PagesOn(AnySlot) /\ IdsDiffer(pages)
    BY <1>1, <1>6, <2>1, <2>2, TextAdded
  <2> HIDE DEF pages
  <2>5. layout \in AnyStep /\ layout.pages = pages
    BY ONLY <2>1, <2>3, <2>4 DEF AnyStep
  <2> QED BY <2>4, <2>5
<1> HIDE DEF aside, placed, covered, step
<1>7. CASE \E i \in {1} \cap DOMAIN step.pages : layout = texted(i)
  BY <1>6, <1>7
<1> HIDE DEF texted
<1> QED BY <1>2, <1>3, <1>4, <1>5, <1>7

-----------------------------------------------------------------------------
(* The files *)

ExportNames(e) == {f.name : f \in ExportFiles(e)}

\* A file of the export, wherever it is by now.
OfExport(e, f) == \E g \in ExportFiles(e) : g.name = f.name /\ g.shape = f.shape

\* Every file is the export's or was added, and none of the export's is lost.
DiskSound(e, d) ==
    /\ IsFiniteSet(d)
    /\ \A f \in d : /\ DOMAIN f = {"dir", "name", "shape"}
                    /\ \/ OfExport(e, f)
                       \/ f.dir = TopDir /\ f.name \in AddedMedia /\ f.shape = "l"
    /\ \A n \in ExportNames(e) : \E f \in d : f.name = n

LayoutSound(e, layout) ==
    /\ layout.pages \in PagesOn({f.name : f \in layout.media})
    /\ layout.cover \in {f.name : f \in layout.media} \cup {None}
    /\ \A f \in layout.media : OfExport(e, f)

AddSound(a) == DOMAIN a = DOMAIN NoAdd /\ a.written \in Seq(AddedMedia)

\* The new steps have their layouts.
LaidOut ==
    \/ run.pc = "phases" /\ run.tasks.media \in {"flatten", "done"}
    \/ run.pc \in {"prepare", "flatten", "build"}

\* The folder is flat.
Flattened ==
    \/ run.pc = "phases" /\ run.tasks.media = "done" /\ ~run.old.exists
    \/ run.pc \in {"build", "save", "cleanup", "done"}

DInv ==
    /\ DiskSound(export, disk)
    /\ AddSound(add)
    /\ run.pc \in {"phases", "prepare", "flatten", "build"} =>
          \A s \in TripSteps : run.scan[s] \subseteq ExportNames(export)
    /\ run.pc = "scan" => run.layouts = <<>> /\ ~run.sentinel
    /\ run.pc = "phases" => DOMAIN run.tasks = {"elevations", "weather", "media"}
    /\ run.pc = "phases" /\ run.sentinel => run.tasks.media \notin {"run", "flatten"}
    /\ \A s \in DOMAIN run.layouts : LayoutSound(export, run.layouts[s])
    /\ LaidOut => DOMAIN run.layouts = NewSteps
    /\ Flattened => \A f \in disk : f.dir = TopDir
    /\ thread = "mine" => run.pc = "flatten" \/ (run.pc = "phases" /\ run.tasks.media = "flatten")

LEMMA ExportIs ==
    ASSUME NEW e \in 1 .. Len(Exports)
    PROVE  /\ IsFiniteSet(ExportFiles(e)) /\ IsFiniteSet(ExportNames(e))
           /\ ExportNames(e) \subseteq Nat \ (AddedMedia \cup {None})
           /\ \A f \in ExportFiles(e) : /\ DOMAIN f = {"dir", "name", "shape"} /\ f.dir \in Nat \ {0}
                                        /\ f.name \in ExportNames(e) /\ OfExport(e, f)
           /\ \A f, g \in ExportFiles(e) : f.name = g.name => f.shape = g.shape
<1> DEFINE steps == Exports[e].steps
           file(s, f) == [dir |-> s, name |-> f.name, shape |-> f.shape]
           files(s) == {file(s, f) : f \in steps[s]}
           all == [s \in DOMAIN steps |-> files(s)]
           names(s) == {f.name : f \in steps[s]}
<1>1. /\ DOMAIN steps \subseteq Nat \ {0} /\ IsFiniteSet(DOMAIN steps)
      /\ \A s \in DOMAIN steps : IsFiniteSet(steps[s])
      /\ \A s \in DOMAIN steps : names(s) \subseteq Nat \ (AddedMedia \cup {None})
      /\ \A s, t \in DOMAIN steps : \A f \in steps[s], g \in steps[t] : f.name = g.name => f.shape = g.shape
  BY ExportsAssumption
<1>2. \A f \in ExportFiles(e) : \E s \in DOMAIN steps : \E h \in steps[s] : f = file(s, h)
  BY DEF ExportFiles
<1>3. ASSUME NEW s \in DOMAIN steps PROVE IsFiniteSet(files(s))
  <2> DEFINE g == [f \in steps[s] |-> file(s, f)]
             D == steps[s]
  <2>1. files(s) = {g[f] : f \in D}
    OBVIOUS
  <2>2. IsFiniteSet(D)
    BY <1>1
  <2> HIDE DEF g, D, files
  <2> QED BY <2>1, <2>2, Image
<1>4. ExportFiles(e) = UNION {all[s] : s \in DOMAIN steps}
  BY DEF ExportFiles
<1>5. IsFiniteSet(ExportFiles(e))
  <2>1. \A s \in DOMAIN steps : IsFiniteSet(all[s])
    BY <1>3
  <2> DEFINE D == DOMAIN steps
             sets == {all[s] : s \in D}
  <2> HIDE DEF all, D
  <2>2. IsFiniteSet(D) /\ \A s \in D : IsFiniteSet(all[s])
    BY <1>1, <2>1 DEF D
  <2>3. IsFiniteSet(sets) /\ \A S \in sets : IsFiniteSet(S)
    BY <2>2, Image
  <2> HIDE DEF sets
  <2>4. IsFiniteSet(UNION sets)
    BY <2>3, FS_UNION
  <2> QED BY <1>4, <2>4 DEF sets, D
<1>6. IsFiniteSet(ExportNames(e))
  <2> DEFINE g == [f \in ExportFiles(e) |-> f.name]
  <2>1. ExportNames(e) = {g[f] : f \in ExportFiles(e)}
    BY DEF ExportNames
  <2> HIDE DEF g
  <2> QED BY <1>5, <2>1, Image
<1>7. ASSUME NEW f \in ExportFiles(e)
      PROVE  /\ DOMAIN f = {"dir", "name", "shape"} /\ f.dir \in Nat \ {0}
             /\ f.name \in Nat \ (AddedMedia \cup {None})
  <2>1. PICK s \in DOMAIN steps : \E h \in steps[s] : f = file(s, h)
    BY <1>2
  <2>2. PICK h \in steps[s] : f = file(s, h)
    BY <2>1
  <2>3. h.name \in names(s)
    OBVIOUS
  <2> QED BY <1>1, <2>2, <2>3
<1>8. ExportNames(e) \subseteq Nat \ (AddedMedia \cup {None})
  BY <1>7 DEF ExportNames
<1>9. \A f \in ExportFiles(e) : f.name \in ExportNames(e) /\ OfExport(e, f)
  BY DEF ExportNames, OfExport
<1>10. ASSUME NEW f \in ExportFiles(e), NEW g \in ExportFiles(e), f.name = g.name PROVE f.shape = g.shape
  <2>1. PICK s \in DOMAIN steps : \E h \in steps[s] : f = file(s, h)
    BY <1>2
  <2>2. PICK t \in DOMAIN steps : \E k \in steps[t] : g = file(t, k)
    BY <1>2
  <2>3. PICK h \in steps[s] : f = file(s, h)
    BY <2>1
  <2>4. PICK k \in steps[t] : g = file(t, k)
    BY <2>2
  <2>5. h.name = k.name
    BY <1>10, <2>3, <2>4
  <2>6. h.shape = k.shape
    BY <1>1, <2>5
  <2> QED BY <2>3, <2>4, <2>6
<1> QED BY <1>5, <1>6, <1>7, <1>8, <1>9, <1>10

LEMMA FreshExport ==
    ASSUME NEW e \in 1 .. Len(Exports)
    PROVE  DiskSound(e, ExportFiles(e))
BY ExportIs DEF DiskSound, ExportNames

\* Files of a name that was not in the export come and go.
LEMMA FileAdded ==
    ASSUME NEW e, NEW d, DiskSound(e, d), NEW name \in AddedMedia
    PROVE  DiskSound(e, d \cup {[dir |-> TopDir, name |-> name, shape |-> "l"]})
<1> DEFINE f == [dir |-> TopDir, name |-> name, shape |-> "l"]
<1>1. IsFiniteSet(d \cup {f})
  <2> HIDE DEF f
  <2> QED BY FS_AddElement DEF DiskSound
<1>2. DOMAIN f = {"dir", "name", "shape"} /\ f.dir = TopDir /\ f.name \in AddedMedia /\ f.shape = "l"
  OBVIOUS
<1> HIDE DEF f
<1>3. DiskSound(e, d \cup {f})
  BY <1>1, <1>2 DEF DiskSound
<1> QED BY <1>3 DEF f

LEMMA FilesRemoved ==
    ASSUME NEW e \in 1 .. Len(Exports), NEW d, DiskSound(e, d), NEW names, names \subseteq AddedMedia
    PROVE  DiskSound(e, {f \in d : f.name \notin names})
<1> DEFINE rest == {f \in d : f.name \notin names}
<1>1. IsFiniteSet(rest)
  <2>1. rest \in SUBSET d
    OBVIOUS
  <2> HIDE DEF rest
  <2> QED BY <2>1, FS_Subset DEF DiskSound
<1>2. \A n \in ExportNames(e) : \E f \in rest : f.name = n
  BY ExportIs DEF DiskSound
<1>3. \A f \in rest : f \in d
  OBVIOUS
<1> HIDE DEF rest
<1>4. DiskSound(e, rest)
  BY <1>1, <1>2, <1>3 DEF DiskSound
<1> QED BY <1>4 DEF rest

\* Of two files of one name the one that is moved stays.
LEMMA FileMoved ==
    ASSUME NEW e, NEW d, DiskSound(e, d), NEW f \in d, f.dir # TopDir
    PROVE  DiskSound(e, {g \in d \ {f} : g.dir # TopDir \/ g.name # f.name} \cup {[f EXCEPT !.dir = TopDir]})
<1> DEFINE rest == {g \in d \ {f} : g.dir # TopDir \/ g.name # f.name}
           moved == [f EXCEPT !.dir = TopDir]
           new == rest \cup {moved}
<1>1. /\ DOMAIN f = {"dir", "name", "shape"} /\ OfExport(e, f)
  BY DEF DiskSound
<1>2. DOMAIN moved = {"dir", "name", "shape"} /\ moved.name = f.name /\ moved.shape = f.shape /\ moved.dir = TopDir
  BY <1>1
<1>3. IsFiniteSet(new)
  <2>1. rest \in SUBSET d
    OBVIOUS
  <2> HIDE DEF rest, moved
  <2>2. IsFiniteSet(rest)
    BY <2>1, FS_Subset DEF DiskSound
  <2> QED BY <2>2, FS_AddElement
<1>4. OfExport(e, moved)
  BY <1>1, <1>2 DEF OfExport
<1>5. \A n \in ExportNames(e) : \E g \in new : g.name = n
  <2> SUFFICES ASSUME NEW n \in ExportNames(e) PROVE \E g \in new : g.name = n
    OBVIOUS
  <2>1. PICK g \in d : g.name = n
    BY DEF DiskSound
  <2>2. CASE g.name = f.name
    BY <1>2, <2>1, <2>2
  <2>3. CASE g.name # f.name
    BY <2>1, <2>3
  <2> QED BY <2>2, <2>3
<1>6. \A g \in rest : g \in d
  OBVIOUS
<1> HIDE DEF rest, moved
<1>7. \A g \in new : g \in d \/ g = moved
  BY <1>6
<1> HIDE DEF new
<1>8. DiskSound(e, new)
  BY <1>2, <1>3, <1>4, <1>5, <1>7 DEF DiskSound
<1> QED BY <1>8 DEF new, rest, moved

-----------------------------------------------------------------------------
(* DInv holds *)

LEMMA RunFields ==
    ASSUME IInv
    PROVE  DOMAIN run = {"old", "result", "pc", "scan", "tasks", "layouts", "sentinel", "cover"}
BY DEF IInv, RunSound, NoRun

\* Files come, go and move to the top, and the run does nothing.
LEMMA FilesChange ==
    ASSUME DInv, UNCHANGED <<export, run, thread>>, DiskSound(export, disk'), AddSound(add'),
           \A f \in disk' : f \in disk \/ f.dir = TopDir
    PROVE  DInv'
<1>1. export' = export /\ run' = run /\ thread' = thread
  OBVIOUS
<1>2. (LaidOut' <=> LaidOut) /\ (Flattened' <=> Flattened) /\ NewSteps' = NewSteps /\ TripSteps' = TripSteps
  BY <1>1 DEF LaidOut, Flattened, NewSteps, TripSteps
<1>3. Flattened => \A f \in disk' : f.dir = TopDir
  BY DEF DInv
<1> QED BY <1>1, <1>2, <1>3 DEF DInv

\* A run begins, ends or waits to be saved.
LEMMA RunRests ==
    ASSUME DiskSound(export', disk'), AddSound(add'), run'.layouts = <<>>, ~run'.sentinel,
           run'.pc \in {"idle", "scan", "save", "cleanup", "done", "failed"},
           run'.pc \in {"save", "cleanup", "done"} => \A f \in disk' : f.dir = TopDir,
           thread' # "mine"
    PROVE  DInv'
<1>1. ~LaidOut' /\ (Flattened' => run'.pc \in {"save", "cleanup", "done"})
  BY DEF LaidOut, Flattened
<1>2. \A s \in DOMAIN run'.layouts : LayoutSound(export', run'.layouts[s])
  OBVIOUS
<1> QED BY <1>1, <1>2 DEF DInv

LEMMA NoRunIs ==
    /\ NoRun.layouts = <<>> /\ ~NoRun.sentinel /\ NoRun.pc = "idle"
    /\ \A pc : /\ [NoRun EXCEPT !.pc = pc].layouts = <<>> /\ ~[NoRun EXCEPT !.pc = pc].sentinel
               /\ [NoRun EXCEPT !.pc = pc].pc = pc
BY DEF NoRun

LEMMA DInitHolds == Init => DInv
<1> SUFFICES ASSUME Init PROVE DInv
  OBVIOUS
<1>1. export = 1 /\ disk = ExportFiles(1) /\ add = NoAdd /\ run = NoRun /\ thread = "none"
  BY Zenon DEF Init
<1>2. 1 \in 1 .. Len(Exports)
  BY ExportsAssumption
<1>3. DiskSound(export, disk)
  BY <1>1, <1>2, FreshExport
<1>4. AddSound(NoAdd)
  BY DEF AddSound, NoAdd
<1>5. ~LaidOut /\ ~Flattened
  BY <1>1, NoRunIs DEF LaidOut, Flattened
<1>6. \A s \in DOMAIN NoRun.layouts : FALSE
  BY NoRunIs
<1> QED BY <1>1, <1>3, <1>4, <1>5, <1>6, NoRunIs DEF DInv

LEMMA DEnds ==
    ASSUME IInv, DInv,
           \/ LoadTrip \/ ImportAgain \/ FlattenFails \/ SaveFails \/ CleanupMetadata \/ Crash
           \/ Saved \/ BuildObjects
    PROVE  DInv'
<1>0. AddSound(NoAdd)
  BY DEF AddSound, NoAdd
<1>1. CASE LoadTrip
  <2>1. /\ run'.layouts = <<>> /\ ~run'.sentinel /\ run'.pc \in {"scan", "failed"}
    BY <1>1 DEF LoadTrip, NoRun
  <2>2. UNCHANGED <<export, disk, add, thread>> /\ run.pc \in {"idle", "failed"}
    BY <1>1 DEF LoadTrip, editor
  <2> QED BY <2>1, <2>2, RunRests DEF DInv
<1>2. CASE ImportAgain
  <2>1. thread' = "none" /\ add' = add /\ run' = NoRun
    BY <1>2 DEF ImportAgain
  <2>2. export' \in 1 .. Len(Exports) /\ disk' = ExportFiles(export')
    BY <1>2, ExportsAssumption DEF ImportAgain, IInv
  <2>3. DiskSound(export', disk')
    BY <2>2, FreshExport
  <2> QED BY <2>1, <2>3, NoRunIs, RunRests DEF DInv
<1>3. CASE SaveFails
  <2>1. run.pc = "save" /\ run' = [NoRun EXCEPT !.pc = "failed"] /\ UNCHANGED <<export, disk, add, thread>>
    BY <1>3 DEF SaveFails, editor
  <2> QED BY <2>1, NoRunIs, RunRests DEF DInv
<1>4. CASE CleanupMetadata
  <2>1. run.pc = "cleanup" /\ run' = [NoRun EXCEPT !.pc = "done"] /\ UNCHANGED <<export, disk, add, thread>>
    BY <1>4 DEF CleanupMetadata, editor
  <2> QED BY <2>1, NoRunIs, RunRests DEF DInv, Flattened
<1>5. CASE Crash
  <2>1. /\ run' = [NoRun EXCEPT !.pc = run'.pc] /\ run'.pc \in {"done", "failed", "idle"}
        /\ run'.pc = "done" => run.pc \in {"cleanup", "done"}
        /\ thread' = "none" /\ add' = NoAdd /\ UNCHANGED <<export, disk>>
    BY <1>5 DEF Crash, NoRun
  <2>2. run'.layouts = <<>> /\ ~run'.sentinel
    BY <2>1, NoRunIs
  <2> QED BY <1>0, <2>1, <2>2, RunRests DEF DInv, Flattened
<1>6. CASE Saved
  <2>1. run.pc = "save" /\ run' = [NoRun EXCEPT !.pc = "cleanup"] /\ UNCHANGED <<export, disk, add, thread>>
    BY <1>6 DEF Saved, editor
  <2> QED BY <2>1, NoRunIs, RunRests DEF DInv, Flattened
<1>7. CASE BuildObjects
  <2>1. run.pc = "build" /\ UNCHANGED <<export, disk, add, thread>>
    BY <1>7 DEF BuildObjects, editor
  <2>2. PICK result : run' = [NoRun EXCEPT !.pc = "save", !.old = run.old, !.result = result]
    BY <1>7, Zenon DEF BuildObjects
  <2>3. run'.pc = "save" /\ run'.layouts = <<>> /\ ~run'.sentinel
    BY <2>2 DEF NoRun
  <2> QED BY <2>1, <2>3, RunRests DEF DInv, Flattened
<1>8. CASE FlattenFails
  <2>1. run' = [NoRun EXCEPT !.pc = "failed"] /\ thread' = "none" /\ UNCHANGED <<export, disk, add>>
    BY <1>8 DEF FlattenFails, editor
  <2> QED BY <2>1, NoRunIs, RunRests DEF DInv
<1> QED BY <1>1, <1>2, <1>3, <1>4, <1>5, <1>6, <1>7, <1>8

\* Sets of names that are added or taken away.
LEMMA WrittenAre ==
    ASSUME AddSound(add)
    PROVE  ToSet(add.written) \subseteq AddedMedia
BY DEF AddSound, ToSet

LEMMA DEditor ==
    ASSUME IInv, DInv,
           \/ OpenAlbum \/ EditLayout \/ ValidateChapters \/ UpdateAlbum \/ StartImport
           \/ ImportOne \/ ImportFails \/ PersistImportedMedia \/ ImportCompleted \/ CancelImport
           \/ FlattenFile \/ OtherStep
    PROVE  DInv'
<1> DEFINE rest == {f \in disk : f.name \notin ToSet(add.written)}
<1>0. /\ AddSound(NoAdd) /\ AddSound(add) /\ DiskSound(export, disk) /\ DiskSound(export, rest)
      /\ \A f \in rest : f \in disk
  <2>1. AddSound(add) /\ DiskSound(export, disk) /\ export \in 1 .. Len(Exports)
    BY DEF DInv, IInv
  <2>2. DiskSound(export, rest)
    BY <2>1, WrittenAre, FilesRemoved
  <2> QED BY <2>1, <2>2 DEF AddSound, NoAdd
<1> HIDE DEF rest
<1>1. CASE OpenAlbum
  <2>1. UNCHANGED <<export, run, thread, disk, add>>
    BY <1>1 DEF OpenAlbum
  <2> QED BY <1>0, <2>1, FilesChange
<1>2. CASE EditLayout
  <2>1. UNCHANGED <<export, run, thread, disk, add>>
    BY <1>2 DEF EditLayout
  <2> QED BY <1>0, <2>1, FilesChange
<1>3. CASE ValidateChapters
  <2>1. UNCHANGED <<export, run, thread, disk, add>>
    BY <1>3 DEF ValidateChapters
  <2> QED BY <1>0, <2>1, FilesChange
<1>4. CASE UpdateAlbum
  <2>1. UNCHANGED <<export, run, thread, disk, add>>
    BY <1>4 DEF UpdateAlbum
  <2> QED BY <1>0, <2>1, FilesChange
<1>5. CASE StartImport
  <2>1. UNCHANGED <<export, run, thread, disk>>
    BY <1>5 DEF StartImport
  <2>2. DOMAIN add' = DOMAIN NoAdd /\ add'.written = <<>>
    BY <1>5 DEF StartImport, NoAdd
  <2> QED BY <1>0, <2>1, <2>2, FilesChange DEF AddSound
<1>6. CASE ImportOne
  <2> DEFINE name == CHOOSE n \in FreshNames : TRUE
             file == [dir |-> TopDir, name |-> name, shape |-> "l"]
  <2>1. /\ UNCHANGED <<export, run, thread>> /\ FreshNames # {}
        /\ disk' = disk \cup {file} /\ add' = [add EXCEPT !.more = @ - 1, !.written = Append(@, name)]
    BY <1>6 DEF ImportOne
  <2>2. name \in AddedMedia
    BY <2>1 DEF FreshNames
  <2> HIDE DEF name
  <2>3. DiskSound(export, disk')
    BY <1>0, <2>1, <2>2, FileAdded
  <2>4. AddSound(add')
    <3>1. DOMAIN add' = DOMAIN add /\ add'.written = Append(add.written, name)
      BY <1>0, <2>1 DEF AddSound, NoAdd
    <3> QED BY <1>0, <2>2, <3>1 DEF AddSound
  <2>5. \A f \in disk' : f \in disk \/ f.dir = TopDir
    BY <2>1
  <2> QED BY <2>1, <2>3, <2>4, <2>5, FilesChange
<1>7. CASE ImportFails
  <2>1. UNCHANGED <<export, run, thread>> /\ add' = NoAdd /\ disk' = rest
    BY <1>7 DEF ImportFails, CleanupImported, rest
  <2> QED BY <1>0, <2>1, FilesChange
<1>8. CASE PersistImportedMedia
  <2>1. /\ UNCHANGED <<export, run, thread>> /\ disk' \in {disk, rest}
        /\ add' = NoAdd \/ add' = [add EXCEPT !.pc = "committed"]
    BY <1>8 DEF PersistImportedMedia, CleanupImported, rest
  <2>2. AddSound(add')
    BY <1>0, <2>1 DEF AddSound, NoAdd
  <2> QED BY <1>0, <2>1, <2>2, FilesChange
<1>9. CASE ImportCompleted
  <2>1. UNCHANGED <<export, run, thread, disk>> /\ add' = NoAdd
    BY <1>9 DEF ImportCompleted
  <2> QED BY <1>0, <2>1, FilesChange
<1>10. CASE CancelImport
  <2>1. UNCHANGED <<export, run, thread>> /\ add' = NoAdd /\ disk' = rest
    BY <1>10 DEF CancelImport, CleanupImported, rest
  <2> QED BY <1>0, <2>1, FilesChange
<1>11. CASE FlattenFile \/ OtherFlattens
  <2>1. UNCHANGED <<export, run, thread, add>>
    BY <1>11 DEF FlattenFile, OtherFlattens, editor
  <2>2. PICK f \in disk \ Top :
           disk' = {g \in disk \ {f} : g.dir # TopDir \/ g.name # f.name} \cup {[f EXCEPT !.dir = TopDir]}
    BY <1>11 DEF FlattenFile, OtherFlattens, MoveFile
  <2>3. f \in disk /\ f.dir # TopDir
    BY DEF Top
  <2>4. DiskSound(export, disk')
    BY <1>0, <2>2, <2>3, FileMoved
  <2>5. \A g \in disk' : g \in disk \/ g.dir = TopDir
    <3>1. DOMAIN f = {"dir", "name", "shape"}
      BY <1>0, <2>3 DEF DiskSound
    <3> QED BY <2>2, <3>1
  <2> QED BY <1>0, <2>1, <2>4, <2>5, FilesChange
<1>12. CASE OtherEnds \/ OtherCleansUp
  <2>1. UNCHANGED <<export, run, thread, disk, add>>
    BY <1>12 DEF OtherEnds, OtherCleansUp, editor
  <2> QED BY <1>0, <2>1, FilesChange
<1> QED BY <1>1, <1>2, <1>3, <1>4, <1>5, <1>6, <1>7, <1>8, <1>9, <1>10, <1>11, <1>12 DEF OtherStep

LEMMA DPhases ==
    ASSUME IInv, DInv,
           \/ FetchElevations \/ FetchWeather \/ LayoutsDone \/ PhasesEnd \/ DrainQueue \/ PrepareMedia
           \/ (\E task \in {"weather", "media"} : TaskFails(task))
    PROVE  DInv'
<1>0. DOMAIN run = {"old", "result", "pc", "scan", "tasks", "layouts", "sentinel", "cover"}
  BY RunFields
<1> DEFINE Same == UNCHANGED <<export, disk, add>> /\ run'.old = run.old /\ run'.scan = run.scan
                   /\ run'.layouts = run.layouts
<1>1. ASSUME Same,
             run'.pc \in {"phases", "prepare", "flatten", "build", "failed"},
             run'.pc # "failed" => run.pc \in {"phases", "prepare", "flatten", "build"},
             run'.pc = "phases" => DOMAIN run'.tasks = {"elevations", "weather", "media"},
             run'.pc = "phases" /\ run'.sentinel => run'.tasks.media \notin {"run", "flatten"},
             LaidOut' => LaidOut \/ DOMAIN run.layouts = NewSteps,
             Flattened' => Flattened,
             thread' = "mine" => run'.pc = "flatten" \/ (run'.pc = "phases" /\ run'.tasks.media = "flatten")
      PROVE  DInv'
  <2>1. NewSteps' = NewSteps /\ TripSteps' = TripSteps
    BY <1>1 DEF NewSteps, TripSteps
  <2> QED BY <1>1, <2>1 DEF DInv
<1> HIDE DEF Same
<1>2. CASE FetchElevations
  <2>1. Same
    BY <1>0, <1>2 DEF FetchElevations, editor, Same
  <2>2. /\ run.pc = "phases" /\ run' = [run EXCEPT !.tasks.elevations = "done"] /\ thread' = thread
        /\ DOMAIN run.tasks = {"elevations", "weather", "media"}
    BY <1>2 DEF FetchElevations, editor, DInv
  <2>3. /\ run'.pc = run.pc /\ run'.sentinel = run.sentinel /\ run'.old = run.old
        /\ DOMAIN run'.tasks = DOMAIN run.tasks /\ run'.tasks.media = run.tasks.media
    BY <1>0, <2>2
  <2>4. (LaidOut' <=> LaidOut) /\ (Flattened' <=> Flattened)
    BY <2>3 DEF LaidOut, Flattened
  <2> QED BY <1>1, <2>1, <2>2, <2>3, <2>4 DEF DInv
<1>3. CASE FetchWeather
  <2>1. Same
    BY <1>0, <1>3 DEF FetchWeather, editor, Same
  <2>2. /\ run.pc = "phases" /\ run' = [run EXCEPT !.tasks.weather = "done"] /\ thread' = thread
        /\ DOMAIN run.tasks = {"elevations", "weather", "media"}
    BY <1>3 DEF FetchWeather, editor, DInv
  <2>3. /\ run'.pc = run.pc /\ run'.sentinel = run.sentinel /\ run'.old = run.old
        /\ DOMAIN run'.tasks = DOMAIN run.tasks /\ run'.tasks.media = run.tasks.media
    BY <1>0, <2>2
  <2>4. (LaidOut' <=> LaidOut) /\ (Flattened' <=> Flattened)
    BY <2>3 DEF LaidOut, Flattened
  <2> QED BY <1>1, <2>1, <2>2, <2>3, <2>4 DEF DInv
<1>4. CASE LayoutsDone
  <2>1. Same
    BY <1>0, <1>4 DEF LayoutsDone, editor, Same
  <2>2. /\ run.pc = "phases" /\ run.tasks.media = "run" /\ DOMAIN run.layouts = NewSteps
        /\ DOMAIN run.tasks = {"elevations", "weather", "media"}
        /\ ~run.sentinel /\ thread # "mine"
    BY <1>4 DEF LayoutsDone, DInv
  <2>3. CASE run.old.exists
    <3>1. run' = [run EXCEPT !.tasks.media = "done"] /\ thread' = thread
      BY <1>4, <2>3 DEF LayoutsDone
    <3>2. /\ run'.pc = "phases" /\ ~run'.sentinel /\ run'.old.exists
          /\ DOMAIN run'.tasks = DOMAIN run.tasks /\ run'.tasks.media = "done"
      BY <1>0, <2>2, <2>3, <3>1
    <3>3. ~Flattened'
      BY <3>2 DEF Flattened
    <3> QED BY <1>1, <2>1, <2>2, <3>1, <3>2, <3>3
  <2>4. CASE ~run.old.exists
    <3>1. run' = [run EXCEPT !.tasks.media = "flatten"]
      BY <1>4, <2>4 DEF LayoutsDone
    <3>2. /\ run'.pc = "phases" /\ ~run'.sentinel
          /\ DOMAIN run'.tasks = DOMAIN run.tasks /\ run'.tasks.media = "flatten"
      BY <1>0, <2>2, <3>1
    <3>3. ~Flattened'
      BY <3>2 DEF Flattened
    <3> QED BY <1>1, <2>1, <2>2, <3>2, <3>3
  <2> QED BY <2>3, <2>4
<1>5. CASE PhasesEnd
  <2>1. Same
    BY <1>0, <1>5 DEF PhasesEnd, editor, Same
  <2>2. /\ run.pc = "phases" /\ run' = [run EXCEPT !.sentinel = TRUE] /\ thread' = thread
        /\ DOMAIN run.tasks = {"elevations", "weather", "media"}
        /\ run.tasks.media \notin {"run", "flatten"}
    BY <1>5 DEF PhasesEnd, editor, DInv
  <2>3. run'.pc = run.pc /\ run'.tasks = run.tasks /\ run'.old = run.old
    BY <1>0, <2>2
  <2>4. (LaidOut' <=> LaidOut) /\ (Flattened' <=> Flattened)
    BY <2>3 DEF LaidOut, Flattened
  <2> QED BY <1>1, <2>1, <2>2, <2>3, <2>4 DEF DInv
<1>6. CASE DrainQueue
  <2>1. Same
    BY <1>0, <1>6 DEF DrainQueue, editor, Same
  <2>2. /\ run.pc = "phases" /\ run.sentinel /\ thread' = thread
        /\ DOMAIN run.tasks = {"elevations", "weather", "media"}
        /\ run.tasks.media \notin {"run", "flatten"} /\ thread # "mine"
    BY <1>6 DEF DrainQueue, editor, DInv
  <2>3. run'.pc = IF \E t \in DOMAIN run.tasks : run.tasks[t] # "done" THEN "failed"
                  ELSE IF run.old.exists THEN "prepare" ELSE "build"
    BY <1>0, <1>6 DEF DrainQueue
  <2>4. CASE run'.pc = "failed"
    <3>1. ~LaidOut' /\ ~Flattened'
      BY <2>4 DEF LaidOut, Flattened
    <3> QED BY <1>1, <2>1, <2>2, <2>4, <3>1
  <2>5. CASE run'.pc # "failed"
    <3>1. /\ run.tasks.media = "done" /\ run'.pc \in {"prepare", "build"}
          /\ run'.pc = "build" => ~run.old.exists
      BY <2>2, <2>3, <2>5
    <3>2. LaidOut /\ (Flattened' => Flattened)
      BY <2>2, <3>1 DEF LaidOut, Flattened
    <3> QED BY <1>1, <2>1, <2>2, <3>1, <3>2
  <2> QED BY <2>4, <2>5
<1>7. CASE PrepareMedia
  <2>1. Same
    BY <1>0, <1>7 DEF PrepareMedia, editor, Same
  <2>2. run.pc = "prepare" /\ run'.pc = "flatten"
    BY <1>0, <1>7 DEF PrepareMedia
  <2>3. LaidOut /\ ~Flattened'
    BY <2>2 DEF LaidOut, Flattened
  <2> QED BY <1>1, <2>1, <2>2, <2>3
<1>8. ASSUME NEW task \in {"weather", "media"}, TaskFails(task) PROVE DInv'
  <2>1. Same
    BY <1>0, <1>8 DEF TaskFails, editor, Same
  <2>2. /\ run.pc = "phases" /\ run.tasks[task] \in {"run", "flatten"}
        /\ DOMAIN run.tasks = {"elevations", "weather", "media"}
        /\ run.sentinel => run.tasks.media \notin {"run", "flatten"}
        /\ thread' # "mine"
    BY <1>8 DEF TaskFails, DInv
  <2>3. run' = [run EXCEPT !.tasks = [t \in DOMAIN @ |->
                  CASE t = task -> "failed" [] @[t] = "done" -> "done" [] OTHER -> "cancelled"]]
    BY <1>8 DEF TaskFails
  <2>4. /\ run'.pc = "phases" /\ run'.sentinel = run.sentinel /\ run'.old = run.old
        /\ run'.tasks = [t \in DOMAIN run.tasks |->
              CASE t = task -> "failed" [] run.tasks[t] = "done" -> "done" [] OTHER -> "cancelled"]
    BY <1>0, <2>2, <2>3
  <2>5. /\ DOMAIN run'.tasks = DOMAIN run.tasks
        /\ run'.tasks.media \in {"failed", "done", "cancelled"}
        /\ run'.tasks.media = "done" => run.tasks.media = "done"
    <3>1. run'.tasks.media = CASE "media" = task -> "failed"
                               [] run.tasks.media = "done" -> "done" [] OTHER -> "cancelled"
      BY <2>2, <2>4
    <3>2. DOMAIN run'.tasks = DOMAIN run.tasks
      BY <2>4
    <3> QED BY ONLY <3>1, <3>2
  <2>6. (LaidOut' => LaidOut) /\ (Flattened' => Flattened)
    BY <2>2, <2>4, <2>5 DEF LaidOut, Flattened
  <2> QED BY <1>1, <2>1, <2>2, <2>4, <2>5, <2>6
<1> QED BY <1>2, <1>3, <1>4, <1>5, <1>6, <1>7, <1>8

\* What lies in the folder of a step is the export's.
LEMMA FolderIs ==
    ASSUME IInv, DInv, NEW s \in TripSteps
    PROVE  /\ IsFiniteSet(FolderMedia(disk, s))
           /\ {f.name : f \in FolderMedia(disk, s)} \subseteq ExportNames(export)
           /\ \A f \in FolderMedia(disk, s) : OfExport(export, f)
<1>1. s # TopDir
  BY ExportsAssumption DEF IInv, TripSteps, TopDir
<1>2. FolderMedia(disk, s) \in SUBSET disk /\ \A f \in FolderMedia(disk, s) : f.dir = s
  BY DEF FolderMedia
<1>3. \A f \in FolderMedia(disk, s) : OfExport(export, f)
  BY <1>1, <1>2 DEF DInv, DiskSound
<1>4. \A f \in FolderMedia(disk, s) : f.name \in ExportNames(export)
  BY <1>3 DEF OfExport, ExportNames
<1>5. IsFiniteSet(FolderMedia(disk, s))
  BY <1>2, FS_Subset DEF DInv, DiskSound
<1> QED BY <1>3, <1>4, <1>5

LEMMA DScan == ASSUME IInv, DInv, ScanSteps PROVE DInv'
<1>0. DOMAIN run = {"old", "result", "pc", "scan", "tasks", "layouts", "sentinel", "cover"}
  BY RunFields
<1> DEFINE scan == [s \in TripSteps |-> {f.name : f \in FolderMedia(disk, s)}]
           tasks == [elevations |-> "run", weather |-> "run", media |-> "run"]
           pc == IF NewSteps = {} THEN "prepare" ELSE "phases"
<1>1. /\ run.pc = "scan" /\ run' = [run EXCEPT !.scan = scan, !.pc = pc, !.tasks = tasks]
      /\ UNCHANGED <<export, disk, add, thread>>
  BY DEF ScanSteps, editor
<1>2. \A s \in TripSteps : scan[s] \subseteq ExportNames(export)
  BY FolderIs
<1>3. DOMAIN tasks = {"elevations", "weather", "media"} /\ tasks.media = "run"
  OBVIOUS
<1>4. run.layouts = <<>> /\ ~run.sentinel /\ thread # "mine"
  BY <1>1 DEF DInv
<1> HIDE DEF scan, tasks
<1>5. /\ run'.scan = scan /\ run'.pc = pc /\ run'.tasks = tasks /\ run'.layouts = run.layouts
      /\ run'.sentinel = run.sentinel /\ run'.old = run.old
  BY <1>0, <1>1
<1>6. NewSteps' = NewSteps /\ TripSteps' = TripSteps
  BY <1>1, <1>5 DEF NewSteps, TripSteps
<1>7. ~Flattened' /\ (LaidOut' => DOMAIN run'.layouts = NewSteps')
  <2>1. run'.tasks.media = "run" /\ DOMAIN run'.layouts = {}
    BY <1>3, <1>4, <1>5
  <2> QED BY <1>5, <1>6, <2>1 DEF LaidOut, Flattened
<1>8. \A s \in DOMAIN run'.layouts : LayoutSound(export', run'.layouts[s])
  BY <1>4, <1>5
<1>9. run'.pc \in {"phases", "prepare"}
  BY <1>5
<1> QED BY <1>1, <1>2, <1>3, <1>4, <1>5, <1>6, <1>7, <1>8, <1>9 DEF DInv

LEMMA DFetch == ASSUME IInv, DInv, NEW s \in TripSteps, FetchLayout(s) PROVE DInv'
<1>0. DOMAIN run = {"old", "result", "pc", "scan", "tasks", "layouts", "sentinel", "cover"}
  BY RunFields
<1> DEFINE files == FolderMedia(disk, s)
           layout == BuildStepLayout(files)
           layouts == [t \in DOMAIN run.layouts \cup {s} |-> IF t = s THEN layout ELSE run.layouts[t]]
<1>1. /\ run.pc = "phases" /\ run.tasks.media = "run"
      /\ run' = [run EXCEPT !.layouts = layouts]
      /\ UNCHANGED <<export, disk, add, thread>>
  BY DEF FetchLayout, editor
<1>2. LayoutSound(export, layout)
  <2>1. /\ IsFiniteSet(files) /\ {f.name : f \in files} \subseteq Int
        /\ \A f \in files : OfExport(export, f)
    <3>1. ExportNames(export) \subseteq Int
      BY ExportIs DEF IInv
    <3> QED BY <3>1, FolderIs
  <2> HIDE DEF files
  <2>2. /\ layout.media = files
        /\ layout.pages \in PagesOn({f.name : f \in files})
        /\ layout.cover \in {f.name : f \in files} \cup {None}
    BY <2>1, LayoutIs
  <2> QED BY <2>1, <2>2 DEF LayoutSound
<1> HIDE DEF layout
<1>3. \A t \in DOMAIN layouts : LayoutSound(export, layouts[t])
  BY <1>2 DEF DInv
<1> HIDE DEF layouts
<1>4. /\ run'.layouts = layouts /\ run'.scan = run.scan /\ run'.pc = run.pc /\ run'.tasks = run.tasks
      /\ run'.sentinel = run.sentinel /\ run'.old = run.old
  BY <1>0, <1>1
<1>5. NewSteps' = NewSteps /\ TripSteps' = TripSteps
  BY <1>1, <1>4 DEF NewSteps, TripSteps
<1>6. ~LaidOut' /\ ~Flattened'
  BY <1>1, <1>4 DEF LaidOut, Flattened
<1> QED BY <1>1, <1>3, <1>4, <1>5, <1>6 DEF DInv

LEMMA DFlat == ASSUME IInv, DInv, FlattenEnds PROVE DInv'
<1>0. DOMAIN run = {"old", "result", "pc", "scan", "tasks", "layouts", "sentinel", "cover"}
  BY RunFields
<1>1. UNCHANGED <<export, disk, add>> /\ thread' = "none" /\ thread = "mine"
  BY DEF FlattenEnds, editor
<1>2. \A f \in disk : f.dir = TopDir
  BY DEF FlattenEnds, Top
<1>3. run.pc = "flatten" \/ (run.pc = "phases" /\ run.tasks.media = "flatten")
  BY <1>1 DEF DInv
<1>4. LaidOut
  BY <1>3 DEF LaidOut
<1>5. PICK cover : run' = IF run.pc = "phases" THEN [run EXCEPT !.tasks.media = "done", !.cover = cover]
                          ELSE [run EXCEPT !.pc = "build", !.cover = cover]
  BY Zenon DEF FlattenEnds
<1>6. CASE run.pc = "phases"
  <2>1. DOMAIN run.tasks = {"elevations", "weather", "media"}
    BY <1>6 DEF DInv
  <2>2. /\ run'.layouts = run.layouts /\ run'.scan = run.scan /\ run'.pc = "phases"
        /\ DOMAIN run'.tasks = DOMAIN run.tasks /\ run'.tasks.media = "done"
        /\ run'.sentinel = run.sentinel /\ run'.old = run.old
    BY <1>0, <1>5, <1>6, <2>1
  <2>3. NewSteps' = NewSteps /\ TripSteps' = TripSteps
    BY <1>1, <2>2 DEF NewSteps, TripSteps
  <2> QED BY <1>1, <1>2, <1>4, <1>6, <2>1, <2>2, <2>3 DEF DInv
<1>7. CASE run.pc = "flatten"
  <2>1. /\ run'.layouts = run.layouts /\ run'.scan = run.scan /\ run'.pc = "build" /\ run'.old = run.old
    BY <1>0, <1>5, <1>7
  <2>2. NewSteps' = NewSteps /\ TripSteps' = TripSteps
    BY <1>1, <2>1 DEF NewSteps, TripSteps
  <2> QED BY <1>1, <1>2, <1>4, <1>7, <2>1, <2>2 DEF DInv
<1> QED BY <1>3, <1>6, <1>7

LEMMA DStepKeeps == IInv /\ DInv /\ [Next]_vars => DInv'
<1> SUFFICES ASSUME IInv, DInv, [Next]_vars PROVE DInv'
  OBVIOUS
<1>1. CASE UNCHANGED vars
  <2>1. UNCHANGED <<export, disk, add, run, thread>>
    BY <1>1 DEF vars, editor
  <2>2. DiskSound(export, disk) /\ AddSound(add)
    BY DEF DInv
  <2> QED BY <2>1, <2>2, FilesChange
<1>2. CASE RunStep
  <2>1. CASE \E s \in TripSteps : FetchLayout(s)
    BY <2>1, DFetch
  <2> QED BY <1>2, <2>1, DEnds, DEditor, DPhases, DScan, DFlat DEF RunStep, SaveNew, SaveReupload
<1>3. CASE EditorStep
  BY <1>3, DEditor DEF EditorStep
<1> QED BY <1>1, <1>2, <1>3, DEnds, DEditor, DPhases DEF Next

-----------------------------------------------------------------------------
(* The rows *)

\* Every medium of a step has a row.
MediaThere(a) == \A s \in DOMAIN a.steps : LayoutNames(a.steps[s]) \subseteq DOMAIN a.media

RInv ==
    /\ AlbumReadable(db) /\ AlbumReadable(view) /\ AlbumReadable(run.old) /\ AlbumReadable(run.result)
    /\ MediaThere(db) /\ MediaThere(run.old) /\ MediaThere(run.result)

LEMMA NothingReadable == AlbumReadable(NoAlbum) /\ MediaThere(NoAlbum)
<1>1. DOMAIN NoAlbum.steps = {}
  BY DEF NoAlbum
<1>2. IsFiniteSet({})
  BY FS_EmptySet
<1> QED BY ONLY <1>1, <1>2 DEF AlbumReadable, MediaThere

LEMMA RInitHolds == Init => RInv
<1> SUFFICES ASSUME Init PROVE RInv
  OBVIOUS
<1>1. db = NoAlbum /\ view = NoAlbum /\ run.old = NoAlbum /\ run.result = NoAlbum
  BY Zenon, NothingSound DEF Init
<1> QED BY ONLY <1>1, NothingReadable DEF RInv

LEMMA RowsStay ==
    ASSUME RInv, db' = db, view' \in {view, db},
           run'.old \in {run.old, db, NoAlbum}, run'.result \in {run.result, NoAlbum}
    PROVE  RInv'
BY NothingReadable DEF RInv

\* What the build has for the steps: the new ones' layouts, the old ones' slots.
OnDisk == {f.name : f \in Top}

KeptSteps ==
    [s \in TripSteps |->
        IF s \in NewSteps THEN BuiltSteps[s]
        ELSE ReconcileStep(run.old.steps[s], run.scan[s], OnDisk, run.old.media)]

\* The covers of the chapters are photos of the album that are no panoramas.
CoversSound(a) ==
    \A i \in DOMAIN a.chapters :
        {a.chapters[i].front, a.chapters[i].back} \subseteq EligibleCovers(a.media) \cup {None}

LEMMA CoversFixed ==
    ASSUME NEW eligible, NEW name, NEW steps, NEW fallback \in CoverFallbacks(eligible, name, steps),
           NEW chapters
    PROVE  LET fixed == FixAlbumCovers(chapters, eligible, fallback)
           IN  \A i \in DOMAIN fixed : {fixed[i].front, fixed[i].back} \subseteq eligible \cup {None}
<1>1. fallback \in eligible \cup {None}
  BY DEF CoverFallbacks
<1>2. DOMAIN FixAlbumCovers(chapters, eligible, fallback) = DOMAIN chapters
  BY DEF FixAlbumCovers
<1>3. \A i \in DOMAIN chapters :
         /\ FixAlbumCovers(chapters, eligible, fallback)[i].front \in eligible \cup {fallback}
         /\ FixAlbumCovers(chapters, eligible, fallback)[i].back \in eligible \cup {fallback}
  BY DEF FixAlbumCovers
<1> QED BY <1>1, <1>2, <1>3

LEMMA ReconciledHas ==
    ASSUME NEW result \in ReconcileTrip
    PROVE  /\ result.exists /\ result.steps = KeptSteps
           /\ result.media = MediaRows(Top, ProbedNames(KeptSteps, DOMAIN run.old.media \cap OnDisk))
           /\ CoversSound(result)
           /\ \E eligible, fallback : result.chapters =
                 FixAlbumCovers(AssignNewSteps(run.old.chapters, NewSteps), eligible, fallback)
<1> DEFINE rows == MediaRows(Top, ProbedNames(KeptSteps, DOMAIN run.old.media \cap OnDisk))
           eligible == EligibleCovers(rows)
           built(fallback) ==
              [exists |-> TRUE,
               chapters |-> FixAlbumCovers(AssignNewSteps(run.old.chapters, NewSteps), eligible, fallback),
               steps |-> KeptSteps, media |-> rows]
<1>1. ReconcileTrip = {built(fallback) : fallback \in CoverFallbacks(eligible, run.cover, KeptSteps)}
  BY Zenon DEF ReconcileTrip, KeptSteps, OnDisk
<1>2. \A fallback : /\ built(fallback).exists /\ built(fallback).steps = KeptSteps
                     /\ built(fallback).media = rows
                     /\ built(fallback).chapters =
                           FixAlbumCovers(AssignNewSteps(run.old.chapters, NewSteps), eligible, fallback)
  OBVIOUS
<1> HIDE DEF built, rows, eligible
<1>3. PICK fallback \in CoverFallbacks(eligible, run.cover, KeptSteps) : result = built(fallback)
  BY <1>1
<1>4. CoversSound(result)
  <2>1. EligibleCovers(result.media) = eligible
    BY <1>2, <1>3 DEF eligible
  <2>2. result.chapters = FixAlbumCovers(AssignNewSteps(run.old.chapters, NewSteps), eligible, fallback)
    BY <1>2, <1>3
  <2> QED BY ONLY <2>1, <2>2, CoversFixed DEF CoversSound
<1>5. \E elig, cover : result.chapters =
         FixAlbumCovers(AssignNewSteps(run.old.chapters, NewSteps), elig, cover)
  BY <1>2, <1>3
<1> QED BY <1>2, <1>3, <1>4, <1>5 DEF rows

LEMMA NewStepsAre ==
    ASSUME IInv, DInv, RInv, run.pc = "build", NEW s \in NewSteps
    PROVE  /\ s \in TripSteps /\ s \in DOMAIN run.layouts
           /\ Readable(BuiltSteps[s])
           /\ LayoutNames(BuiltSteps[s]) \subseteq {f.name : f \in run.layouts[s].media}
           /\ \A f \in run.layouts[s].media : OfExport(export, f)
           /\ (SlotsOn(run.layouts[s].pages) \cup {run.layouts[s].cover}) \ {None, Text} \subseteq
                 LayoutNames(BuiltSteps[s])
<1> DEFINE layout == run.layouts[s]
           N == {f.name : f \in layout.media}
<1>1. s \in TripSteps /\ s \in DOMAIN run.layouts
  BY DEF NewSteps, DInv, LaidOut
<1>2. LayoutSound(export, layout)
  BY <1>1 DEF DInv
<1>3. N \subseteq Int
  <2>1. \A f \in layout.media : f.name \in ExportNames(export)
    BY <1>2 DEF LayoutSound, OfExport, ExportNames
  <2>2. ExportNames(export) \subseteq Int
    BY ExportIs DEF IInv
  <2> QED BY <2>1, <2>2
<1>4. FreshId \in Nat
  BY FreshIdIs DEF RInv
<1>5. layout.pages \in PagesOn(N) /\ layout.cover \in N \cup {None}
  BY <1>2 DEF LayoutSound
<1>6. BuiltSteps[s] = NewStep(layout, FreshId)
  BY DEF BuiltSteps
<1> HIDE DEF layout, N
<1>7. /\ Readable(BuiltSteps[s]) /\ LayoutNames(BuiltSteps[s]) \subseteq N
      /\ (SlotsOn(layout.pages) \cup {layout.cover}) \ {None, Text} \subseteq LayoutNames(BuiltSteps[s])
  <2>1. /\ Readable(NewStep(layout, FreshId)) /\ LayoutNames(NewStep(layout, FreshId)) \subseteq N
        /\ (SlotsOn(layout.pages) \cup {layout.cover}) \ {None, Text} \subseteq
              LayoutNames(NewStep(layout, FreshId))
    BY ONLY <1>3, <1>4, <1>5, NewStepIs
  <2> QED BY ONLY <1>6, <2>1
<1> QED BY <1>1, <1>2, <1>7 DEF LayoutSound, layout, N

LEMMA OldStepsAre ==
    ASSUME IInv, DInv, RInv, run.pc = "build", NEW s \in TripSteps \ NewSteps
    PROVE  /\ s \in DOMAIN run.old.steps
           /\ Readable(KeptSteps[s])
           /\ LayoutNames(KeptSteps[s]) \subseteq
                 OnDisk \cap (LayoutNames(run.old.steps[s]) \cup ExportNames(export))
           /\ OnDisk \cap (LayoutNames(run.old.steps[s]) \cup run.scan[s]) \subseteq LayoutNames(KeptSteps[s])
<1>1. s \in DOMAIN run.old.steps
  BY DEF NewSteps
<1>2. Readable(run.old.steps[s])
  BY <1>1 DEF RInv, AlbumReadable
<1>3. run.scan[s] \subseteq ExportNames(export)
  BY DEF DInv
<1>4. run.scan[s] \subseteq Int /\ IsFiniteSet(run.scan[s])
  <2>1. ExportNames(export) \subseteq Int /\ IsFiniteSet(ExportNames(export))
    BY ExportIs DEF IInv
  <2> QED BY <1>3, <2>1, FS_Subset
<1>5. KeptSteps[s] = ReconcileStep(run.old.steps[s], run.scan[s], OnDisk, run.old.media)
  BY DEF KeptSteps
<1>6. /\ Readable(KeptSteps[s])
      /\ LayoutNames(KeptSteps[s]) = OnDisk \cap (LayoutNames(run.old.steps[s]) \cup run.scan[s])
  BY ONLY <1>2, <1>4, <1>5, ReconciledIs
<1> QED BY <1>1, <1>3, <1>6

LEMMA RBuilds ==
    ASSUME IInv, DInv, RInv, run.pc = "build",
           NEW result \in (IF run.old.exists THEN ReconcileTrip ELSE {BuildTripObjects})
    PROVE  AlbumReadable(result) /\ MediaThere(result)
<1>1. TripSteps \subseteq Int /\ IsFiniteSet(TripSteps)
  BY TripStepsAre
<1>2. NewSteps \subseteq TripSteps /\ IsFiniteSet(NewSteps)
  <2>1. NewSteps \in SUBSET TripSteps
    BY DEF NewSteps
  <2> QED BY <1>1, <2>1, FS_Subset
<1>3. CASE run.old.exists
  <2>1. /\ result.steps = KeptSteps
        /\ result.media = MediaRows(Top, ProbedNames(KeptSteps, DOMAIN run.old.media \cap OnDisk))
    BY <1>3, ReconciledHas
  <2>2. DOMAIN KeptSteps = TripSteps
    BY DEF KeptSteps
  <2>3. ASSUME NEW s \in TripSteps PROVE Readable(KeptSteps[s])
    <3>1. CASE s \in NewSteps
      <4>1. KeptSteps[s] = BuiltSteps[s]
        BY <3>1 DEF KeptSteps
      <4> QED BY <3>1, <4>1, NewStepsAre
    <3>2. CASE s \notin NewSteps
      BY <3>2, OldStepsAre
    <3> QED BY <3>1, <3>2
  <2>4. AlbumReadable(result)
    BY ONLY <1>1, <2>1, <2>2, <2>3 DEF AlbumReadable
  <2>5. DOMAIN result.media = ProbedNames(KeptSteps, DOMAIN run.old.media \cap OnDisk)
    BY <2>1 DEF MediaRows
  <2>6. \A s \in TripSteps : LayoutNames(KeptSteps[s]) \subseteq DOMAIN result.media
    BY <2>2, <2>5 DEF ProbedNames
  <2> QED BY ONLY <2>1, <2>2, <2>4, <2>6 DEF MediaThere
<1>4. CASE ~run.old.exists
  <2> DEFINE files == UNION {run.layouts[s].media : s \in TripSteps}
  <2>1. result = BuildTripObjects
    BY <1>4
  <2>2. result.steps = BuiltSteps /\ result.media = MediaRows(files, {f.name : f \in files})
    BY <2>1 DEF BuildTripObjects
  <2>3. DOMAIN BuiltSteps = NewSteps
    BY DEF BuiltSteps
  <2>4. DOMAIN result.media = {f.name : f \in files}
    BY <2>2 DEF MediaRows
  <2>5. ASSUME NEW s \in NewSteps
        PROVE  Readable(BuiltSteps[s]) /\ LayoutNames(BuiltSteps[s]) \subseteq DOMAIN result.media
    <3>1. run.layouts[s].media \subseteq files
      BY <1>2
    <3> HIDE DEF files
    <3> QED BY <2>4, <3>1, NewStepsAre
  <2>6. NewSteps \subseteq Int
    BY <1>1, <1>2
  <2> HIDE DEF files
  <2>7. AlbumReadable(result)
    BY ONLY <1>2, <2>2, <2>3, <2>5, <2>6 DEF AlbumReadable
  <2> QED BY ONLY <2>2, <2>3, <2>5, <2>7 DEF MediaThere
<1> QED BY <1>3, <1>4

LEMMA RBuildKeeps == ASSUME IInv, DInv, RInv, BuildObjects PROVE RInv'
<1>1. PICK result : /\ result \in (IF run.old.exists THEN ReconcileTrip ELSE {BuildTripObjects})
                    /\ run' = [NoRun EXCEPT !.pc = "save", !.old = run.old, !.result = result]
  BY Zenon DEF BuildObjects
<1>2. db' = db /\ view' = view /\ run.pc = "build"
  BY DEF BuildObjects, editor
<1>3. AlbumReadable(result) /\ MediaThere(result)
  BY <1>1, <1>2, RBuilds
<1>4. run'.old = run.old /\ run'.result = result
  BY <1>1 DEF NoRun
<1> QED BY ONLY RInv, <1>2, <1>3, <1>4 DEF RInv

\* One step of an album is replaced, the media stay or become more.
LEMMA StepReplaced ==
    ASSUME NEW a, AlbumReadable(a), NEW b, NEW s \in DOMAIN a.steps, NEW step, Readable(step),
           b.steps = [a.steps EXCEPT ![s] = step]
    PROVE  /\ AlbumReadable(b)
           /\ MediaThere(a) /\ DOMAIN a.media \subseteq DOMAIN b.media
                 /\ LayoutNames(step) \subseteq DOMAIN b.media => MediaThere(b)
<1>1. /\ DOMAIN b.steps = DOMAIN a.steps /\ b.steps[s] = step
      /\ \A t \in DOMAIN a.steps : t # s => b.steps[t] = a.steps[t]
  OBVIOUS
<1>2. AlbumReadable(b)
  BY <1>1 DEF AlbumReadable
<1>3. ASSUME MediaThere(a), DOMAIN a.media \subseteq DOMAIN b.media, LayoutNames(step) \subseteq DOMAIN b.media
      PROVE  MediaThere(b)
  <2> SUFFICES ASSUME NEW t \in DOMAIN a.steps PROVE LayoutNames(b.steps[t]) \subseteq DOMAIN b.media
    BY <1>1 DEF MediaThere
  <2>1. CASE t = s
    BY <1>1, <1>3, <2>1
  <2>2. CASE t # s
    <3>1. LayoutNames(a.steps[t]) \subseteq DOMAIN a.media
      BY <1>3 DEF MediaThere
    <3> QED BY <1>1, <1>3, <2>2, <3>1
  <2> QED BY <2>1, <2>2
<1> QED BY <1>2, <1>3

LEMMA REditKeeps == ASSUME IInv, RInv, EditLayout PROVE RInv'
<1>1. PICK s \in DOMAIN view.steps \cap DOMAIN db.steps : \E layout \in LayoutEdits(view.steps[s]) :
         /\ MediaNamesKnown(layout)
         /\ db' = [db EXCEPT !.steps[s] = ReplaceStepMediaLayout(@, layout)]
         /\ view' = [view EXCEPT !.steps[s] = db'.steps[s]]
  BY Zenon DEF EditLayout
<1>2. PICK layout \in LayoutEdits(view.steps[s]) :
         /\ MediaNamesKnown(layout)
         /\ db' = [db EXCEPT !.steps[s] = ReplaceStepMediaLayout(@, layout)]
         /\ view' = [view EXCEPT !.steps[s] = db'.steps[s]]
  BY <1>1
<1>3. run' = run
  BY DEF EditLayout
<1>4. AlbumReadable(db) /\ AlbumReadable(view) /\ AlbumReadable(run.old) /\ MediaThere(db)
  BY DEF RInv
<1>5. layout \in AnyStep /\ IdsDiffer(layout.pages)
  BY <1>4, EditIs
<1> DEFINE step == ReplaceStepMediaLayout(db.steps[s], layout)
<1>6. Readable(step) /\ LayoutNames(step) \subseteq LayoutNames(layout)
  <2>1. Readable(db.steps[s])
    BY <1>4 DEF AlbumReadable
  <2> QED BY ONLY <1>5, <2>1, ReplacedIs
<1> HIDE DEF step
<1>7. /\ DOMAIN db = {"exists", "chapters", "steps", "media"}
      /\ DOMAIN view = {"exists", "chapters", "steps", "media"}
  BY DEF IInv, AlbumSound, NoAlbum
<1>8. /\ db'.steps = [db.steps EXCEPT ![s] = step] /\ db'.media = db.media
      /\ view'.steps = [view.steps EXCEPT ![s] = step]
  <2>1. db' = [db EXCEPT !.steps[s] = step]
    BY <1>2 DEF step
  <2>2. db'.steps = [db.steps EXCEPT ![s] = step] /\ db'.media = db.media
    BY <1>7, <2>1
  <2>3. db'.steps[s] = step
    BY <2>2
  <2>4. view' = [view EXCEPT !.steps[s] = step]
    BY <1>2, <2>3
  <2>5. view'.steps = [view.steps EXCEPT ![s] = step]
    BY <1>7, <2>4
  <2> QED BY <2>2, <2>5
<1>9. LayoutNames(step) \subseteq DOMAIN db.media
  BY <1>2, <1>6 DEF MediaNamesKnown
<1>10. AlbumReadable(db') /\ MediaThere(db')
  BY ONLY <1>4, <1>6, <1>8, <1>9, StepReplaced, s \in DOMAIN view.steps \cap DOMAIN db.steps
<1>11. AlbumReadable(view')
  BY ONLY <1>4, <1>6, <1>8, StepReplaced, s \in DOMAIN view.steps \cap DOMAIN db.steps
<1> QED BY ONLY RInv, <1>3, <1>10, <1>11 DEF RInv

\* Added media are unused at first.
LEMMA PrependedIs ==
    ASSUME NEW step, Readable(step), NEW names \in Seq(Int)
    PROVE  /\ Readable(PrependUnused(step, names))
           /\ LayoutNames(PrependUnused(step, names)) \subseteq LayoutNames(step) \cup ToSet(names)
<1> DEFINE old == step.unused
           unused == names \o old
           new == PrependUnused(step, names)
<1>1. step \in AnyStep /\ step.pages \in PagesOn(AnySlot) /\ step.cover \in Int /\ old \in Seq(Int)
  BY StepIs DEF Readable
<1>2. new = [step EXCEPT !.unused = unused]
  BY DEF PrependUnused
<1> HIDE DEF old
<1>3. unused \in Seq(Int) /\ ToSet(unused) \subseteq ToSet(names) \cup ToSet(old)
  <2>1. /\ unused \in Seq(Int) /\ DOMAIN unused = 1 .. Len(names) + Len(old)
        /\ DOMAIN names = 1 .. Len(names) /\ DOMAIN old = 1 .. Len(old)
        /\ \A p \in 1 .. Len(names) : unused[p] = names[p]
        /\ \A p \in 1 .. Len(names) + Len(old) : p \notin 1 .. Len(names) =>
              p - Len(names) \in 1 .. Len(old) /\ unused[p] = old[p - Len(names)]
    BY ONLY <1>1, AppendedSteps, names \in Seq(Int)
  <2> HIDE DEF unused
  <2>2. ASSUME NEW v \in ToSet(unused) PROVE v \in ToSet(names) \cup ToSet(old)
    <3>1. PICK p \in 1 .. Len(names) + Len(old) : v = unused[p]
      BY <2>1 DEF ToSet
    <3>2. CASE p \in 1 .. Len(names)
      BY <2>1, <3>1, <3>2 DEF ToSet
    <3>3. CASE p \notin 1 .. Len(names)
      BY <2>1, <3>1, <3>3 DEF ToSet
    <3> QED BY <3>2, <3>3
  <2> QED BY <2>1, <2>2
<1> HIDE DEF unused, new
<1>4. /\ new \in AnyStep /\ new.pages = step.pages /\ new.unused = unused /\ new.cover = step.cover
  BY ONLY <1>1, <1>2, <1>3 DEF AnyStep
<1>5. Readable(new)
  BY <1>4 DEF Readable
<1>6. LayoutNames(new) \subseteq LayoutNames(step) \cup ToSet(names)
  BY <1>3, <1>4 DEF LayoutNames, old
<1> QED BY <1>5, <1>6 DEF new

LEMMA RPersistKeeps == ASSUME IInv, DInv, RInv, PersistImportedMedia PROVE RInv'
<1>1. run' = run /\ view' = view
  BY DEF PersistImportedMedia
<1>2. CASE add.step \notin DOMAIN db.steps
  <2>1. db' = db
    BY <1>2 DEF PersistImportedMedia
  <2> QED BY <1>1, <2>1, RowsStay
<1>3. CASE add.step \in DOMAIN db.steps
  <2> DEFINE names == add.written
             s == add.step
             step == PrependUnused(db.steps[s], names)
             media == [n \in ToSet(names) \cup DOMAIN db.media |->
                          IF n \in ToSet(names) THEN "l" ELSE db.media[n]]
  <2>1. db' = [db EXCEPT !.media = media, !.steps[s] = step]
    BY <1>3 DEF PersistImportedMedia
  <2>2. DOMAIN db = {"exists", "chapters", "steps", "media"}
    BY DEF IInv, AlbumSound, NoAlbum
  <2>3. names \in Seq(Int)
    <3>1. AddedMedia \subseteq Int
      BY ExportsAssumption
    <3>2. names \in Seq(AddedMedia)
      BY DEF DInv, AddSound
    <3> HIDE DEF names
    <3> QED BY <3>1, <3>2, WiderSeq
  <2>4. Readable(db.steps[s]) /\ LayoutNames(db.steps[s]) \subseteq DOMAIN db.media
        /\ AlbumReadable(db) /\ MediaThere(db)
    BY <1>3 DEF RInv, AlbumReadable, MediaThere
  <2>5. DOMAIN media = ToSet(names) \cup DOMAIN db.media
    OBVIOUS
  <2> HIDE DEF media, names
  <2>6. Readable(step) /\ LayoutNames(step) \subseteq DOMAIN media
    BY ONLY <2>3, <2>4, <2>5, PrependedIs
  <2> HIDE DEF step, s
  <2>7. db'.steps = [db.steps EXCEPT ![s] = step] /\ db'.media = media
    BY ONLY <2>1, <2>2
  <2>8. s \in DOMAIN db.steps
    BY <1>3 DEF s
  <2>9. AlbumReadable(db') /\ MediaThere(db')
    BY ONLY <2>4, <2>5, <2>6, <2>7, <2>8, StepReplaced
  <2> QED BY ONLY RInv, <1>1, <2>9 DEF RInv
<1> QED BY <1>2, <1>3

LEMMA RStepKeeps == IInv /\ DInv /\ RInv /\ [Next]_vars => RInv'
<1> SUFFICES ASSUME IInv, DInv, RInv, [Next]_vars PROVE RInv'
  OBVIOUS
<1>1. CASE UNCHANGED vars
  BY <1>1, RowsStay DEF vars, editor
<1>2. CASE Moves
  BY <1>2, RowsStay DEF Moves
<1>3. CASE LoadTrip
  <2>1. run'.old \in {db, NoAlbum} /\ run'.result = NoAlbum
    BY <1>3 DEF LoadTrip, NoRun
  <2> QED BY <1>3, <2>1, RowsStay DEF LoadTrip, editor
<1>4. CASE ImportAgain \/ FlattenFails \/ SaveFails \/ CleanupMetadata \/ Crash
  <2>1. run' = NoRun \/ \E pc : run' = [NoRun EXCEPT !.pc = pc]
    BY <1>4 DEF ImportAgain, FlattenFails, SaveFails, CleanupMetadata, Crash
  <2>2. run'.old = NoAlbum /\ run'.result = NoAlbum
    BY <2>1, NothingSound
  <2>3. db' = db /\ view' = view
    BY <1>4 DEF ImportAgain, FlattenFails, SaveFails, CleanupMetadata, Crash, editor
  <2> QED BY <2>2, <2>3, RowsStay
<1>5. CASE Saved
  <2>1. run'.old = NoAlbum /\ run'.result = NoAlbum /\ db' = run.result /\ view' = view
    BY <1>5, NothingSound DEF Saved, editor
  <2> QED BY <2>1, NothingReadable DEF RInv
<1>6. CASE OpenAlbum
  BY <1>6, RowsStay DEF OpenAlbum
<1>7. CASE ValidateChapters
  BY <1>7, RowsStay DEF ValidateChapters
<1>8. CASE UpdateAlbum
  <2>1. db' = [db EXCEPT !.chapters = patch] /\ view' = [view EXCEPT !.chapters = patch] /\ run' = run
    BY <1>8 DEF UpdateAlbum
  <2>2. db'.steps = db.steps /\ db'.media = db.media /\ view'.steps = view.steps
    BY <2>1
  <2>3. AlbumReadable(db') /\ AlbumReadable(view') /\ MediaThere(db')
    BY <2>2 DEF RInv, AlbumReadable, MediaThere
  <2> QED BY ONLY RInv, <2>1, <2>3 DEF RInv
<1>9. CASE BuildObjects
  BY <1>9, RBuildKeeps
<1>10. CASE EditLayout
  BY <1>10, REditKeeps
<1>11. CASE PersistImportedMedia
  BY <1>11, RPersistKeeps
<1>12. CASE RunStep
  BY <1>2, <1>3, <1>4, <1>5, <1>9, <1>12, RunMoves DEF RunStep, SaveNew, SaveReupload
<1>13. CASE EditorStep
  BY <1>2, <1>6, <1>7, <1>8, <1>10, <1>11, <1>13, AddingMoves DEF EditorStep
<1>14. CASE OtherStep \/ \E task \in {"weather", "media"} : TaskFails(task)
  BY <1>2, <1>14, RunMoves
<1> QED BY <1>1, <1>4, <1>12, <1>13, <1>14 DEF Next

-----------------------------------------------------------------------------
(* Files and rows *)

\* Each row, but those in w, has its file at the top, with its shape.
Matches(media, d, w) ==
    \A name \in DOMAIN media \ w :
        \E f \in d : f.dir = TopDir /\ f.name = name /\ f.shape = media[name]

\* The run has read the rows and has not saved yet.
Active == run.pc \in {"scan", "phases", "prepare", "flatten", "build", "save"}

\* Names whose files are written and whose rows are not.
Adding == IF add.pc = "process" THEN ToSet(add.written) ELSE {}

\* What a running album is: known to the run, or new.
RunKnows ==
    Active => /\ run.old.exists \/ (run.old = NoAlbum /\ db = NoAlbum)
              /\ ~crossed => DOMAIN run.old.media = DOMAIN db.media

\* A task ends badly only in trouble.
TasksSound ==
    run.pc = "phases" => \/ troubled
                         \/ \A t \in DOMAIN run.tasks :
                               /\ run.tasks[t] \in {"run", "flatten", "done"}
                               /\ run.sentinel => run.tasks[t] = "done"

\* No added file without a row, unless somebody is adding it.
NoStray ==
    (~troubled /\ (~crossed \/ run.pc = "idle")) =>
        \A f \in disk : f.name \in AddedMedia => f.name \in DOMAIN db.media \cup Adding

FInv ==
    /\ db.exists \/ (db = NoAlbum /\ add = NoAdd /\ patch = <<>>)
    /\ add.pc \in {"none", "process", "committed"}
    /\ RunKnows
    /\ TasksSound
    /\ run.pc = "failed" => troubled
    /\ run.pc = "save" =>
          /\ run.result.exists /\ Matches(run.result.media, disk, withdrawn)
          /\ run.old.exists =>
                \A f \in disk : f.name \in DOMAIN run.old.media => f.name \in DOMAIN run.result.media
    /\ run.pc \in {"cleanup", "done"} => Matches(db.media, disk, withdrawn)
    /\ \A n \in Adding : /\ n \in AddedMedia /\ (n \in withdrawn \/ \E f \in disk : f.name = n)
                         /\ n \notin DOMAIN db.media /\ n \notin DOMAIN run.old.media
                         /\ n \notin DOMAIN run.result.media
    /\ NoStray

LEMMA NothingThere ==
    /\ ~NoAlbum.exists /\ DOMAIN NoAlbum.media = {} /\ NoAdd.pc = "none"
BY DEF NoAlbum, NoAdd

LEMMA FInitHolds == Init => FInv
<1> SUFFICES ASSUME Init PROVE FInv
  OBVIOUS
<1>1. /\ disk = ExportFiles(1) /\ db = NoAlbum /\ add = NoAdd /\ patch = <<>> /\ run = NoRun
  BY Zenon DEF Init
<1>2. 1 \in 1 .. Len(Exports)
  BY ExportsAssumption
<1>3. \A f \in disk : f.name \notin AddedMedia
  BY <1>1, <1>2, ExportIs
<1>4. run.pc = "idle" /\ add.pc = "none" /\ Adding = {}
  BY <1>1, NoRunIs, NothingThere DEF Adding
<1>5. RunKnows /\ TasksSound /\ NoStray
  BY <1>3, <1>4 DEF RunKnows, Active, TasksSound, NoStray
<1> QED BY <1>1, <1>4, <1>5 DEF FInv

\* The run goes on, on its way to the build, or files move.
LEMMA FRunGoesOn ==
    ASSUME FInv, UNCHANGED <<db, add, patch, crossed, withdrawn>>,
           run'.old = run.old, run'.result = run.result,
           run'.pc \notin {"save", "cleanup", "done"}, run'.pc = "idle" => run.pc = "idle",
           Active' => Active, run'.pc = "failed" => troubled', troubled => troubled', TasksSound',
           {f.name : f \in disk'} = {f.name : f \in disk}
    PROVE  FInv'
<1>1. Adding' = Adding
  BY DEF Adding
<1>2. RunKnows'
  BY DEF FInv, RunKnows
<1>3. \A n : (\E f \in disk' : f.name = n) <=> (\E f \in disk : f.name = n)
  <2>1. \A n : (\E f \in disk' : f.name = n) <=> n \in {f.name : f \in disk'}
    OBVIOUS
  <2>2. \A n : (\E f \in disk : f.name = n) <=> n \in {f.name : f \in disk}
    OBVIOUS
  <2> QED BY ONLY <2>1, <2>2, {f.name : f \in disk'} = {f.name : f \in disk}
<1>4. NoStray'
  <2> SUFFICES ASSUME ~troubled', ~crossed' \/ run'.pc = "idle", NEW f \in disk', f.name \in AddedMedia
               PROVE  f.name \in DOMAIN db'.media \cup Adding'
    BY DEF NoStray
  <2>1. ~troubled /\ (~crossed \/ run.pc = "idle")
    OBVIOUS
  <2>2. PICK g \in disk : g.name = f.name
    BY <1>3
  <2> QED BY <1>1, <2>1, <2>2 DEF FInv, NoStray
<1>5. \A n \in Adding' : /\ n \in AddedMedia /\ (n \in withdrawn \/ \E f \in disk' : f.name = n)
                         /\ n \notin DOMAIN db'.media /\ n \notin DOMAIN run'.old.media
                         /\ n \notin DOMAIN run'.result.media
  BY <1>1, <1>3 DEF FInv
<1> QED BY <1>2, <1>4, <1>5 DEF FInv

\* The files and the media stay, the rows of an album that is there change.
LEMMA FRowsChange ==
    ASSUME FInv, UNCHANGED <<disk, add, run, withdrawn, troubled>>, db.exists, db'.exists,
           db'.media = db.media, crossed => crossed'
    PROVE  FInv'
<1>1. Adding' = Adding /\ (Active' <=> Active) /\ (TasksSound' <=> TasksSound)
  BY DEF Adding, Active, TasksSound
<1>2. RunKnows'
  BY <1>1, NothingThere DEF FInv, RunKnows
<1>3. NoStray'
  BY <1>1 DEF FInv, NoStray
<1> QED BY <1>1, <1>2, <1>3 DEF FInv

\* What was written for an import is removed, before its rows are there or,
\* withdrawn, after.
LEMMA FRemoved ==
    ASSUME FInv, UNCHANGED <<db, run, patch, troubled>>, add' = NoAdd,
           disk' = {f \in disk : f.name \notin ToSet(add.written)},
           withdrawn \subseteq withdrawn', ToSet(add.written) \subseteq Adding \cup withdrawn',
           crossed => crossed'
    PROVE  FInv'
<1>1. Adding' = {} /\ (Active' <=> Active) /\ (TasksSound' <=> TasksSound)
  BY NothingThere DEF Adding, Active, TasksSound
<1>2. RunKnows'
  BY <1>1 DEF FInv, RunKnows
<1>3. NoStray'
  <2> SUFFICES ASSUME ~troubled', ~crossed' \/ run'.pc = "idle", NEW f \in disk', f.name \in AddedMedia
               PROVE  f.name \in DOMAIN db'.media
    BY DEF NoStray
  <2>1. f.name \in DOMAIN db.media \cup Adding
    BY DEF FInv, NoStray
  <2>2. f.name \notin Adding
    BY DEF Adding
  <2> QED BY <2>1, <2>2
<1>4. ASSUME NEW media, \A n \in Adding : n \notin DOMAIN media, Matches(media, disk, withdrawn)
      PROVE  Matches(media, disk', withdrawn')
  <2> SUFFICES ASSUME NEW name \in DOMAIN media \ withdrawn'
               PROVE  \E f \in disk' : f.dir = TopDir /\ f.name = name /\ f.shape = media[name]
    BY DEF Matches
  <2>1. PICK f \in disk : f.dir = TopDir /\ f.name = name /\ f.shape = media[name]
    BY <1>4 DEF Matches
  <2>2. f.name \notin ToSet(add.written)
    BY <1>4, <2>1
  <2> QED BY <2>1, <2>2
<1>5. run'.pc = "save" =>
          /\ run'.result.exists /\ Matches(run'.result.media, disk', withdrawn')
          /\ run'.old.exists =>
                \A f \in disk' : f.name \in DOMAIN run'.old.media => f.name \in DOMAIN run'.result.media
  BY <1>4 DEF FInv
<1>6. run'.pc \in {"cleanup", "done"} => Matches(db'.media, disk', withdrawn')
  BY <1>4 DEF FInv
<1>7. add'.pc = "none" /\ (db'.exists \/ (db' = NoAlbum /\ add' = NoAdd /\ patch' = <<>>))
  BY NothingThere DEF FInv
<1> QED BY <1>1, <1>2, <1>3, <1>5, <1>6, <1>7 DEF FInv

\* Nothing happens to the files, the rows or the run.
LEMMA FStays ==
    ASSUME FInv, UNCHANGED <<disk, db, add, patch, run, withdrawn, troubled, crossed>>
    PROVE  FInv'
<1>1. Adding' = Adding /\ (Active' <=> Active) /\ (TasksSound' <=> TasksSound)
  BY DEF Adding, Active, TasksSound
<1>2. RunKnows'
  BY <1>1 DEF FInv, RunKnows
<1>3. NoStray'
  BY <1>1 DEF FInv, NoStray
<1> QED BY <1>1, <1>2, <1>3 DEF FInv

\* The tasks of a run that is not in its phases are of no account.
LEMMA FPhases ==
    ASSUME IInv, DInv, FInv,
           \/ FetchElevations \/ FetchWeather \/ LayoutsDone \/ PhasesEnd \/ DrainQueue \/ PrepareMedia
           \/ (\E s \in TripSteps : FetchLayout(s))
           \/ (\E task \in {"weather", "media"} : TaskFails(task))
    PROVE  FInv'
<1>0. DOMAIN run = {"old", "result", "pc", "scan", "tasks", "layouts", "sentinel", "cover"}
  BY RunFields
<1> DEFINE Same == /\ UNCHANGED <<disk, db, add, patch, crossed, withdrawn>>
                   /\ run'.old = run.old /\ run'.result = run.result
<1>1. ASSUME Same, run.pc \in {"phases", "prepare"}, run'.pc \in {"phases", "prepare", "flatten", "build", "failed"},
             run'.pc = "failed" => troubled', troubled => troubled', TasksSound'
      PROVE  FInv'
  <2>1. (Active' => Active) /\ run'.pc # "idle" /\ run'.pc \notin {"save", "cleanup", "done"}
    BY <1>1 DEF Active
  <2> QED BY <1>1, <2>1, FRunGoesOn
<1>2. run.pc = "phases" => TasksSound /\ DOMAIN run.tasks = {"elevations", "weather", "media"}
  BY DEF FInv, DInv
<1> HIDE DEF Same
<1>3. CASE FetchElevations
  <2>1. Same /\ troubled' = troubled /\ run.pc = "phases"
    BY <1>0, <1>3 DEF FetchElevations, editor, Same
  <2>2. run' = [run EXCEPT !.tasks.elevations = "done"]
    BY <1>3 DEF FetchElevations
  <2>3. run'.pc = "phases" /\ run'.sentinel = run.sentinel /\ run'.tasks = [run.tasks EXCEPT !.elevations = "done"]
    BY <1>0, <2>1, <2>2
  <2>4. TasksSound'
    BY <1>2, <2>1, <2>3 DEF TasksSound
  <2> QED BY <1>1, <2>1, <2>3, <2>4
<1>4. CASE FetchWeather
  <2>1. Same /\ troubled' = troubled /\ run.pc = "phases"
    BY <1>0, <1>4 DEF FetchWeather, editor, Same
  <2>2. run' = [run EXCEPT !.tasks.weather = "done"]
    BY <1>4 DEF FetchWeather
  <2>3. run'.pc = "phases" /\ run'.sentinel = run.sentinel /\ run'.tasks = [run.tasks EXCEPT !.weather = "done"]
    BY <1>0, <2>1, <2>2
  <2>4. TasksSound'
    BY <1>2, <2>1, <2>3 DEF TasksSound
  <2> QED BY <1>1, <2>1, <2>3, <2>4
<1>5. CASE LayoutsDone
  <2>1. Same /\ troubled' = troubled /\ run.pc = "phases" /\ run.tasks.media = "run"
    BY <1>0, <1>5 DEF LayoutsDone, editor, Same
  <2>2. PICK end \in {"done", "flatten"} : run' = [run EXCEPT !.tasks.media = end]
    BY <1>5, Zenon DEF LayoutsDone
  <2>3. run'.pc = "phases" /\ run'.sentinel = run.sentinel /\ run'.tasks = [run.tasks EXCEPT !.media = end]
    BY <1>0, <2>1, <2>2
  <2>4. ~run.sentinel
    BY <2>1 DEF DInv
  <2>5. TasksSound'
    BY <1>2, <2>1, <2>3, <2>4 DEF TasksSound
  <2> QED BY <1>1, <2>1, <2>3, <2>5
<1>6. CASE PhasesEnd
  <2>1. Same /\ troubled' = troubled /\ run.pc = "phases"
        /\ \A t \in DOMAIN run.tasks : run.tasks[t] \notin {"run", "flatten"}
    BY <1>0, <1>6 DEF PhasesEnd, editor, Same
  <2>2. run' = [run EXCEPT !.sentinel = TRUE]
    BY <1>6 DEF PhasesEnd
  <2>3. run'.pc = "phases" /\ run'.tasks = run.tasks
    BY <1>0, <2>1, <2>2
  <2>4. TasksSound'
    BY <1>2, <2>1, <2>3 DEF TasksSound
  <2> QED BY <1>1, <2>1, <2>3, <2>4
<1>7. CASE DrainQueue
  <2>1. Same /\ troubled' = troubled /\ run.pc = "phases" /\ run.sentinel
    BY <1>0, <1>7 DEF DrainQueue, editor, Same
  <2>2. run'.pc = IF \E t \in DOMAIN run.tasks : run.tasks[t] # "done" THEN "failed"
                  ELSE IF run.old.exists THEN "prepare" ELSE "build"
    BY <1>0, <1>7 DEF DrainQueue
  <2>3. run'.pc = "failed" => troubled
    BY <1>2, <2>1, <2>2 DEF TasksSound
  <2>4. run'.pc \in {"failed", "prepare", "build"}
    BY <2>2
  <2>5. TasksSound'
    BY <2>4 DEF TasksSound
  <2> QED BY <1>1, <2>1, <2>3, <2>4, <2>5
<1>8. CASE PrepareMedia
  <2>1. Same /\ troubled' = troubled /\ run.pc = "prepare" /\ run'.pc = "flatten"
    BY <1>0, <1>8 DEF PrepareMedia, editor, Same
  <2> QED BY <1>1, <2>1 DEF TasksSound
<1>9. ASSUME NEW s \in TripSteps, FetchLayout(s) PROVE FInv'
  <2>1. Same /\ troubled' = troubled /\ run.pc = "phases"
    BY <1>0, <1>9 DEF FetchLayout, editor, Same
  <2>2. run'.pc = "phases" /\ run'.sentinel = run.sentinel /\ run'.tasks = run.tasks
    BY <1>0, <1>9, <2>1 DEF FetchLayout
  <2>3. TasksSound'
    BY <1>2, <2>1, <2>2 DEF TasksSound
  <2> QED BY <1>1, <2>1, <2>2, <2>3
<1>10. ASSUME NEW task \in {"weather", "media"}, TaskFails(task) PROVE FInv'
  <2>1. Same /\ run.pc = "phases"
    BY <1>0, <1>10 DEF TaskFails, editor, Same
  <2>2. run'.pc = "phases"
    BY <1>0, <1>10, <2>1 DEF TaskFails
  <2>3. troubled'
    BY <1>10 DEF TaskFails, Fails, MissesFile
  <2> QED BY <1>1, <2>1, <2>2, <2>3 DEF TasksSound
<1> QED BY <1>3, <1>4, <1>5, <1>6, <1>7, <1>8, <1>9, <1>10

LEMMA FScan == ASSUME IInv, DInv, FInv, ScanSteps PROVE FInv'
<1>0. DOMAIN run = {"old", "result", "pc", "scan", "tasks", "layouts", "sentinel", "cover"}
  BY RunFields
<1> DEFINE scan == [s \in TripSteps |-> {f.name : f \in FolderMedia(disk, s)}]
           tasks == [elevations |-> "run", weather |-> "run", media |-> "run"]
           pc == IF NewSteps = {} THEN "prepare" ELSE "phases"
<1>1. /\ run.pc = "scan" /\ run' = [run EXCEPT !.scan = scan, !.pc = pc, !.tasks = tasks]
      /\ UNCHANGED <<disk, db, add, patch, crossed, withdrawn, troubled>>
  BY DEF ScanSteps, editor
<1>2. DOMAIN tasks = {"elevations", "weather", "media"} /\ \A t \in DOMAIN tasks : tasks[t] = "run"
  OBVIOUS
<1> HIDE DEF scan, tasks
<1>3. /\ run'.pc = pc /\ run'.tasks = tasks /\ run'.old = run.old /\ run'.result = run.result
      /\ ~run'.sentinel
  BY <1>0, <1>1 DEF DInv
<1>4. TasksSound'
  BY <1>2, <1>3 DEF TasksSound
<1>5. run'.pc \in {"prepare", "phases"} /\ (Active' => Active)
  BY <1>1, <1>3 DEF Active
<1> QED BY <1>1, <1>3, <1>4, <1>5, FRunGoesOn

LEMMA FFlattenEnds == ASSUME IInv, DInv, FInv, FlattenEnds PROVE FInv'
<1>0. DOMAIN run = {"old", "result", "pc", "scan", "tasks", "layouts", "sentinel", "cover"}
  BY RunFields
<1>1. UNCHANGED <<disk, db, add, patch, crossed, withdrawn, troubled>> /\ thread = "mine"
  BY DEF FlattenEnds, editor
<1>2. run.pc = "flatten" \/ (run.pc = "phases" /\ run.tasks.media = "flatten")
  BY <1>1 DEF DInv
<1>3. PICK cover : run' = IF run.pc = "phases" THEN [run EXCEPT !.tasks.media = "done", !.cover = cover]
                          ELSE [run EXCEPT !.pc = "build", !.cover = cover]
  BY Zenon DEF FlattenEnds
<1>4. run'.old = run.old /\ run'.result = run.result
  BY <1>0, <1>3
<1>5. CASE run.pc = "phases"
  <2>1. DOMAIN run.tasks = {"elevations", "weather", "media"} /\ ~run.sentinel
    BY <1>2, <1>5 DEF DInv
  <2>2. run'.pc = "phases" /\ run'.tasks = [run.tasks EXCEPT !.media = "done"] /\ ~run'.sentinel
    BY <1>0, <1>3, <1>5, <2>1
  <2>3. TasksSound'
    BY <1>1, <1>5, <2>1, <2>2 DEF FInv, TasksSound
  <2>4. Active' => Active
    BY <1>5 DEF Active
  <2> QED BY <1>1, <1>4, <2>2, <2>3, <2>4, FRunGoesOn
<1>6. CASE run.pc = "flatten"
  <2>1. run'.pc = "build"
    BY <1>0, <1>3, <1>6
  <2>2. TasksSound' /\ (Active' => Active)
    BY <1>6, <2>1 DEF Active, TasksSound
  <2> QED BY <1>1, <1>4, <2>1, <2>2, FRunGoesOn
<1> QED BY <1>2, <1>5, <1>6

LEMMA FFlattenFile == ASSUME IInv, DInv, FInv, FlattenFile \/ OtherFlattens PROVE FInv'
<1>1. UNCHANGED <<db, add, patch, crossed, withdrawn, run>> /\ (troubled => troubled')
  BY DEF FlattenFile, OtherFlattens, editor
<1>2. PICK f \in disk \ Top :
         disk' = {g \in disk \ {f} : g.dir # TopDir \/ g.name # f.name} \cup {[f EXCEPT !.dir = TopDir]}
  BY DEF FlattenFile, OtherFlattens, MoveFile
<1>3. f \in disk /\ f.dir # TopDir
  BY DEF Top
<1>4. DOMAIN f = {"dir", "name", "shape"}
  BY <1>3 DEF DInv, DiskSound
<1>5. {g.name : g \in disk'} = {g.name : g \in disk}
  <2> DEFINE moved == [f EXCEPT !.dir = TopDir]
  <2>1. moved.name = f.name
    BY <1>4
  <2> HIDE DEF moved
  <2>2. \A g \in disk' : \E h \in disk : h.name = g.name
    BY <1>2, <1>3, <2>1 DEF moved
  <2>3. moved \in disk' /\ \A g \in disk : g \in disk' \/ g.name = f.name
    BY <1>2 DEF moved
  <2>4. \A g \in disk : \E h \in disk' : h.name = g.name
    BY <2>1, <2>3
  <2> QED BY ONLY <2>2, <2>4
<1>6. run.pc \notin {"save", "cleanup", "done"}
  BY <1>3 DEF DInv, Flattened
<1>7. TasksSound' /\ (Active' => Active)
  BY <1>1 DEF FInv, TasksSound, Active
<1> QED BY <1>1, <1>5, <1>6, <1>7, FRunGoesOn DEF FInv

\* A run begins, ends, or is given up.
LEMMA FRuns ==
    ASSUME IInv, DInv, FInv,
           LoadTrip \/ ImportAgain \/ FlattenFails \/ SaveFails \/ CleanupMetadata \/ Crash
    PROVE  FInv'
<1>1. CASE LoadTrip
  <2>1. /\ UNCHANGED <<disk, db, add, patch, withdrawn>> /\ run.pc \in {"idle", "failed"} /\ ~crossed'
        /\ troubled => troubled'
    BY <1>1 DEF LoadTrip, editor
  <2>2. \/ run'.pc = "scan" /\ run'.old = db
        \/ run'.pc = "failed" /\ run'.old = NoAlbum /\ troubled'
    BY <1>1 DEF LoadTrip, NoRun
  <2>3. Adding' = Adding /\ TasksSound'
    BY <2>1, <2>2 DEF Adding, TasksSound
  <2>4. run'.result = NoAlbum
    BY <1>1 DEF LoadTrip, NoRun
  <2>5. RunKnows'
    BY <2>1, <2>2 DEF FInv, RunKnows, Active
  <2>6. NoStray'
    BY <2>1, <2>3 DEF FInv, NoStray
  <2>7. \A n \in Adding : n \notin DOMAIN run'.old.media /\ n \notin DOMAIN run'.result.media
    BY <2>2, <2>4, NothingThere DEF FInv
  <2> QED BY <2>1, <2>2, <2>3, <2>5, <2>6, <2>7 DEF FInv
<1>2. CASE ImportAgain
  <2>1. /\ UNCHANGED <<db, add, patch>> /\ run' = NoRun
        /\ export' \in 1 .. Len(Exports) /\ disk' = ExportFiles(export')
        /\ withdrawn' = withdrawn \cup ToSet(add.written)
    BY <1>2, ExportsAssumption DEF ImportAgain, IInv
  <2>2. \A f \in disk' : f.name \notin AddedMedia
    BY <2>1, ExportIs
  <2>3. /\ run'.pc = "idle" /\ run'.old = NoAlbum /\ run'.result = NoAlbum
        /\ Adding' = Adding /\ Adding \subseteq withdrawn'
    BY <2>1, NoRunIs, NothingSound DEF Adding
  <2>4. RunKnows' /\ TasksSound' /\ NoStray'
    BY <2>2, <2>3 DEF RunKnows, Active, TasksSound, NoStray
  <2> QED BY <2>1, <2>3, <2>4, NothingThere DEF FInv
<1>3. CASE SaveFails \/ FlattenFails
  <2>1. UNCHANGED <<disk, db, add, patch, withdrawn, crossed>> /\ troubled'
    BY <1>3 DEF SaveFails, FlattenFails, Fails, MissesFile, editor
  <2>2. run'.pc = "failed" /\ run'.old = NoAlbum /\ run'.result = NoAlbum
    BY <1>3 DEF SaveFails, FlattenFails, NoRun
  <2>3. Adding' = Adding /\ RunKnows' /\ TasksSound' /\ NoStray'
    BY <2>1, <2>2 DEF RunKnows, Active, TasksSound, NoStray, Adding
  <2> QED BY <2>1, <2>2, <2>3, NothingThere DEF FInv
<1>4. CASE CleanupMetadata
  <2>1. UNCHANGED <<disk, db, add, patch, withdrawn, crossed, troubled>> /\ run.pc = "cleanup"
    BY <1>4 DEF CleanupMetadata, editor
  <2>2. run'.pc = "done" /\ run'.old = NoAlbum /\ run'.result = NoAlbum
    BY <1>4 DEF CleanupMetadata, NoRun
  <2>3. Adding' = Adding /\ RunKnows' /\ TasksSound'
    BY <2>1, <2>2 DEF RunKnows, Active, TasksSound, Adding
  <2>4. NoStray'
    BY <2>1, <2>2, <2>3 DEF FInv, NoStray
  <2> QED BY <2>1, <2>2, <2>3, <2>4, NothingThere DEF FInv
<1>5. CASE Crash
  <2>1. UNCHANGED <<disk, db, withdrawn>> /\ troubled' /\ add' = NoAdd /\ patch' = <<>>
    BY <1>5 DEF Crash, Fails
  <2>2. /\ run'.pc \in {"idle", "done", "failed"} /\ run'.old = NoAlbum /\ run'.result = NoAlbum
        /\ run'.pc = "done" => run.pc \in {"cleanup", "done"}
    BY <1>5 DEF Crash, NoRun
  <2>3. Adding' = {} /\ RunKnows' /\ TasksSound' /\ NoStray'
    BY <2>1, <2>2, NothingThere DEF RunKnows, Active, TasksSound, NoStray, Adding
  <2> QED BY <2>1, <2>2, <2>3, NothingThere DEF FInv
<1> QED BY <1>1, <1>2, <1>3, <1>4, <1>5

LEMMA FSaved == ASSUME IInv, DInv, FInv, Saved PROVE FInv'
<1>1. /\ UNCHANGED <<disk, add, patch, withdrawn, crossed, troubled>> /\ run.pc = "save"
      /\ db' = run.result
  BY DEF Saved, editor
<1>2. run'.pc = "cleanup" /\ run'.old = NoAlbum /\ run'.result = NoAlbum
  BY DEF Saved, NoRun
<1>3. Adding' = Adding /\ RunKnows' /\ TasksSound'
  BY <1>1, <1>2 DEF RunKnows, Active, TasksSound, Adding
<1>4. NoStray'
  <2> SUFFICES ASSUME ~troubled', ~crossed' \/ run'.pc = "idle", NEW f \in disk', f.name \in AddedMedia
               PROVE  f.name \in DOMAIN db'.media \cup Adding'
    BY DEF NoStray
  <2>1. f \in disk /\ f.name \in DOMAIN db.media \cup Adding /\ ~crossed
    BY <1>1, <1>2 DEF FInv, NoStray
  <2>2. CASE f.name \in Adding
    BY <1>3, <2>2
  <2>3. CASE f.name \in DOMAIN db.media
    <3>1. DOMAIN run.old.media = DOMAIN db.media /\ (run.old.exists \/ db = NoAlbum)
      BY <1>1, <2>1 DEF FInv, RunKnows, Active
    <3>2. run.old.exists
      BY <2>3, <3>1, NothingThere
    <3> QED BY <1>1, <2>1, <2>3, <3>1, <3>2 DEF FInv
  <2> QED BY <2>1, <2>2, <2>3
<1> QED BY <1>1, <1>2, <1>3, <1>4, NothingThere DEF FInv

\* The editor opens and changes what is there.
LEMMA FEditor ==
    ASSUME IInv, DInv, FInv, OpenAlbum \/ EditLayout \/ ValidateChapters \/ UpdateAlbum \/ StartImport
    PROVE  FInv'
<1>0. DOMAIN db = {"exists", "chapters", "steps", "media"}
  BY DEF IInv, AlbumSound, NoAlbum
<1>1. CASE OpenAlbum
  BY <1>1, FStays DEF OpenAlbum
<1>2. CASE ValidateChapters
  BY <1>2, FRowsChange DEF ValidateChapters
<1>3. CASE UpdateAlbum
  <2>1. UNCHANGED <<disk, add, run, withdrawn, troubled>> /\ (crossed => crossed') /\ patch # <<>>
        /\ db' = [db EXCEPT !.chapters = patch]
    BY <1>3 DEF UpdateAlbum
  <2>2. db'.exists = db.exists /\ db'.media = db.media
    BY <1>0, <2>1
  <2>3. db.exists
    BY <2>1 DEF FInv
  <2> QED BY <2>1, <2>2, <2>3, FRowsChange
<1>4. CASE EditLayout
  <2>1. UNCHANGED <<disk, add, run, withdrawn, troubled>> /\ (crossed => crossed')
    BY <1>4 DEF EditLayout, Edited
  <2>2. PICK s \in DOMAIN view.steps \cap DOMAIN db.steps : \E layout \in LayoutEdits(view.steps[s]) :
           db' = [db EXCEPT !.steps[s] = ReplaceStepMediaLayout(@, layout)]
    BY <1>4, Zenon DEF EditLayout
  <2>3. db'.exists = db.exists /\ db'.media = db.media
    BY <1>0, <2>2
  <2>4. db.exists
    BY <2>2 DEF FInv, NoAlbum
  <2> QED BY <2>1, <2>3, <2>4, FRowsChange
<1>5. CASE StartImport
  <2>1. UNCHANGED <<disk, db, patch, run, withdrawn, troubled, crossed>> /\ add = NoAdd
    BY <1>5 DEF StartImport
  <2>2. add'.pc = "process" /\ add'.written = <<>> /\ ImportTargets # {}
    BY <1>5 DEF StartImport
  <2>3. db.exists
    BY <2>2 DEF FInv, NoAlbum, ImportTargets
  <2>4. Adding = {} /\ Adding' = {}
    BY <2>1, <2>2, NothingThere DEF Adding, ToSet
  <2>5. RunKnows' /\ TasksSound' /\ NoStray'
    BY <2>1, <2>4 DEF FInv, RunKnows, Active, TasksSound, NoStray
  <2> QED BY <2>1, <2>2, <2>3, <2>4, <2>5 DEF FInv
<1> QED BY <1>1, <1>2, <1>3, <1>4, <1>5

LEMMA AppendedHas ==
    ASSUME NEW seq \in Seq(AddedMedia), NEW name \in AddedMedia
    PROVE  ToSet(Append(seq, name)) = ToSet(seq) \cup {name}
<1>1. /\ DOMAIN seq = 1 .. Len(seq) /\ Len(seq) \in Nat
      /\ DOMAIN Append(seq, name) = 1 .. Len(seq) + 1
      /\ \A p \in 1 .. Len(seq) : Append(seq, name)[p] = seq[p]
      /\ Append(seq, name)[Len(seq) + 1] = name
  OBVIOUS
<1>2. \A p \in 1 .. Len(seq) + 1 : p \in 1 .. Len(seq) \/ p = Len(seq) + 1
  BY <1>1
<1>3. \A p \in 1 .. Len(seq) : p \in 1 .. Len(seq) + 1
  BY <1>1
<1>4. Len(seq) + 1 \in 1 .. Len(seq) + 1
  BY <1>1
<1> QED BY ONLY <1>1, <1>2, <1>3, <1>4 DEF ToSet

\* A file with a new name: it matches no row and belongs to the import.
LEMMA FImportOne == ASSUME IInv, DInv, FInv, ImportOne PROVE FInv'
<1> DEFINE name == CHOOSE n \in FreshNames : TRUE
           file == [dir |-> TopDir, name |-> name, shape |-> "l"]
<1>1. /\ UNCHANGED <<db, patch, run, troubled, crossed, withdrawn>> /\ FreshNames # {}
      /\ disk' = disk \cup {file} /\ add' = [add EXCEPT !.more = @ - 1, !.written = Append(@, name)]
      /\ add.pc = "process"
  BY DEF ImportOne
<1>2. /\ name \in AddedMedia /\ name \notin {f.name : f \in disk}
      /\ \A a \in {db, view, run.old, run.result} : name \notin DOMAIN a.media
  BY <1>1 DEF FreshNames
<1>3. file.name = name
  OBVIOUS
<1> HIDE DEF name, file
<1>4. DOMAIN add = {"pc", "via", "step", "more", "written"} /\ add.written \in Seq(AddedMedia)
  BY DEF DInv, AddSound, NoAdd
<1>5. add'.pc = "process" /\ add'.written = Append(add.written, name)
  BY <1>1, <1>4
<1>6. Adding' = Adding \cup {name}
  BY <1>1, <1>2, <1>4, <1>5, AppendedHas DEF Adding
<1>7. (Active' <=> Active) /\ (TasksSound' <=> TasksSound)
  BY <1>1 DEF Active, TasksSound
<1>8. RunKnows'
  BY <1>1, <1>7 DEF FInv, RunKnows
<1>9. NoStray'
  BY <1>1, <1>3, <1>6 DEF FInv, NoStray
<1>10. \A media : Matches(media, disk, withdrawn) => Matches(media, disk', withdrawn)
  BY <1>1 DEF Matches
<1>11. db.exists
  BY <1>1, NothingThere DEF FInv
<1>12. \A n \in Adding' : /\ n \in AddedMedia /\ (n \in withdrawn \/ \E f \in disk' : f.name = n)
                          /\ n \notin DOMAIN db.media /\ n \notin DOMAIN run.old.media
                          /\ n \notin DOMAIN run.result.media
  <2>1. file \in disk' /\ \A f \in disk : f \in disk'
    BY <1>1
  <2>2. \A n \in Adding : /\ n \in AddedMedia /\ (n \in withdrawn \/ \E f \in disk : f.name = n)
                          /\ n \notin DOMAIN db.media /\ n \notin DOMAIN run.old.media
                          /\ n \notin DOMAIN run.result.media
    BY DEF FInv
  <2> QED BY ONLY <1>2, <1>3, <1>6, <2>1, <2>2
<1>13. run.pc = "save" =>
          /\ run.result.exists /\ Matches(run.result.media, disk', withdrawn)
          /\ run.old.exists =>
                \A f \in disk' : f.name \in DOMAIN run.old.media => f.name \in DOMAIN run.result.media
  BY <1>1, <1>2, <1>3, <1>10 DEF FInv
<1>14. run.pc \in {"cleanup", "done"} => Matches(db.media, disk', withdrawn)
  BY <1>10 DEF FInv
<1>15. run.pc = "failed" => troubled
  BY DEF FInv
<1> QED BY ONLY <1>1, <1>5, <1>7, <1>8, <1>9, <1>11, <1>12, <1>13, <1>14, <1>15, FInv DEF FInv

\* The request gives up, or its client does.
LEMMA FGivesUp == ASSUME IInv, DInv, FInv, ImportFails \/ CancelImport \/ ImportCompleted PROVE FInv'
<1>1. CASE ImportFails
  <2>1. /\ UNCHANGED <<db, run, patch, troubled, withdrawn, crossed>> /\ add' = NoAdd
        /\ disk' = {f \in disk : f.name \notin ToSet(add.written)} /\ add.pc = "process"
    BY <1>1 DEF ImportFails, CleanupImported
  <2>2. ToSet(add.written) \subseteq Adding
    BY <2>1 DEF Adding
  <2> QED BY <2>1, <2>2, FRemoved
<1>2. CASE CancelImport
  <2>1. /\ UNCHANGED <<db, run, patch, troubled>> /\ add' = NoAdd /\ (crossed => crossed')
        /\ disk' = {f \in disk : f.name \notin ToSet(add.written)} /\ add.pc # "none"
        /\ withdrawn' = withdrawn \cup (IF add.pc = "committed" THEN ToSet(add.written) ELSE {})
    BY <1>2 DEF CancelImport, CleanupImported
  <2>2. add.pc \in {"process", "committed"}
    BY <2>1 DEF FInv
  <2>3. withdrawn \subseteq withdrawn' /\ ToSet(add.written) \subseteq Adding \cup withdrawn'
    BY <2>1, <2>2 DEF Adding
  <2> QED BY <2>1, <2>3, FRemoved
<1>3. CASE ImportCompleted
  <2>1. UNCHANGED <<disk, db, run, patch, troubled, withdrawn, crossed>> /\ add' = NoAdd /\ add.pc = "committed"
    BY <1>3 DEF ImportCompleted
  <2>2. Adding = {} /\ Adding' = {}
    BY <2>1, NothingThere DEF Adding
  <2>3. RunKnows' /\ TasksSound' /\ NoStray' /\ add'.pc = "none"
    BY <2>1, <2>2, NothingThere DEF FInv, RunKnows, Active, TasksSound, NoStray
  <2> QED BY <2>1, <2>2, <2>3 DEF FInv
<1> QED BY <1>1, <1>2, <1>3

\* A file with a name that was generated is at the top and is a photo.
LEMMA AddedFile ==
    ASSUME IInv, DInv, NEW f \in disk, f.name \in AddedMedia
    PROVE  f.dir = TopDir /\ f.shape = "l"
<1>1. ~OfExport(export, f)
  <2>1. ASSUME OfExport(export, f) PROVE FALSE
    <3>1. f.name \in ExportNames(export)
      BY <2>1 DEF OfExport, ExportNames
    <3>2. ExportNames(export) \cap AddedMedia = {}
      BY ExportIs DEF IInv
    <3> QED BY <3>1, <3>2
  <2> QED BY <2>1
<1> QED BY <1>1 DEF DInv, DiskSound

LEMMA FPersist == ASSUME IInv, DInv, FInv, PersistImportedMedia PROVE FInv'
<1>1. /\ UNCHANGED <<patch, run, troubled, withdrawn>> /\ add.pc = "process"
  BY DEF PersistImportedMedia
<1>2. ToSet(add.written) = Adding
  BY <1>1 DEF Adding
<1>3. CASE add.step \notin DOMAIN db.steps
  <2>1. /\ UNCHANGED <<db, crossed>> /\ add' = NoAdd
        /\ disk' = {f \in disk : f.name \notin ToSet(add.written)}
    BY <1>3 DEF PersistImportedMedia, CleanupImported
  <2> QED BY <1>1, <1>2, <2>1, FRemoved
<1>4. CASE add.step \in DOMAIN db.steps
  <2> DEFINE names == ToSet(add.written)
             media == [n \in names \cup DOMAIN db.media |-> IF n \in names THEN "l" ELSE db.media[n]]
  <2>1. /\ db' = [db EXCEPT !.media = media, !.steps[add.step] = PrependUnused(@, add.written)]
        /\ crossed' = (crossed \/ run.old.exists) /\ disk' = disk
        /\ add' = NoAdd \/ add' = [add EXCEPT !.pc = "committed"]
    BY <1>4 DEF PersistImportedMedia
  <2>2. DOMAIN media = names \cup DOMAIN db.media /\ \A n \in DOMAIN media :
           media[n] = IF n \in names THEN "l" ELSE db.media[n]
    OBVIOUS
  <2> HIDE DEF media
  <2>3. DOMAIN db = {"exists", "chapters", "steps", "media"}
    BY DEF IInv, AlbumSound, NoAlbum
  <2>4. db'.media = media /\ db'.exists = db.exists
    BY <2>1, <2>3
  <2>5. db.exists
    BY <1>4 DEF FInv, NoAlbum
  <2>6. add'.pc \in {"none", "committed"}
    <3>1. DOMAIN add = {"pc", "via", "step", "more", "written"}
      BY DEF DInv, AddSound, NoAdd
    <3> QED BY <2>1, <3>1, NothingThere
  <2>7. Adding' = {} /\ (Active' <=> Active) /\ (TasksSound' <=> TasksSound)
    BY <1>1, <2>6 DEF Adding, Active, TasksSound
  <2>8. RunKnows'
    <3>1. Active => run.old.exists
      BY <2>5, NothingThere DEF FInv, RunKnows
    <3> QED BY <1>1, <2>1, <2>7, <3>1 DEF RunKnows
  <2>9. NoStray'
    <3> SUFFICES ASSUME ~troubled', ~crossed' \/ run'.pc = "idle", NEW f \in disk', f.name \in AddedMedia
                 PROVE  f.name \in DOMAIN db'.media
      BY DEF NoStray
    <3>1. f.name \in DOMAIN db.media \cup Adding
      BY <1>1, <2>1 DEF FInv, NoStray
    <3> QED BY <1>2, <2>2, <2>4, <3>1
  <2>10. ASSUME run.pc \in {"cleanup", "done"} PROVE Matches(db'.media, disk', withdrawn')
    <3> SUFFICES ASSUME NEW n \in DOMAIN media \ withdrawn
                 PROVE  \E f \in disk : f.dir = TopDir /\ f.name = n /\ f.shape = media[n]
      BY <1>1, <2>1, <2>4 DEF Matches
    <3>1. CASE n \in names
      <4>1. n \in AddedMedia /\ \E f \in disk : f.name = n
        BY <1>1, <1>2, <3>1 DEF FInv
      <4>2. PICK f \in disk : f.name = n
        BY <4>1
      <4>3. f.dir = TopDir /\ f.shape = "l"
        BY <4>1, <4>2, AddedFile
      <4> QED BY <2>2, <3>1, <4>2, <4>3
    <3>2. CASE n \notin names
      <4>1. n \in DOMAIN db.media \ withdrawn /\ media[n] = db.media[n]
        BY <2>2, <3>2
      <4> QED BY <2>10, <4>1 DEF FInv, Matches
    <3> QED BY <3>1, <3>2
  <2> QED BY <1>1, <2>1, <2>4, <2>5, <2>6, <2>7, <2>8, <2>9, <2>10 DEF FInv
<1> QED BY <1>3, <1>4

\* The folder is flat: each name of the export has a file at the top, with its shape.
LEMMA ExportAtTop ==
    ASSUME IInv, DInv, Flattened, NEW n \in ExportNames(export)
    PROVE  \E f \in disk : f.dir = TopDir /\ f.name = n /\ OfExport(export, f)
<1>1. PICK f \in disk : f.name = n
  BY DEF DInv, DiskSound
<1>2. n \notin AddedMedia
  BY ExportIs DEF IInv
<1> QED BY <1>1, <1>2 DEF DInv, DiskSound

LEMMA SameShape ==
    ASSUME IInv, NEW f, NEW g, OfExport(export, f), OfExport(export, g), f.name = g.name
    PROVE  f.shape = g.shape
BY ExportIs DEF IInv, OfExport

\* A row that is built has the shape of its file.
LEMMA FirstBuilt ==
    ASSUME IInv, DInv, run.pc = "build", ~run.old.exists, run.old = NoAlbum
    PROVE  /\ Matches(BuildTripObjects.media, disk, withdrawn) /\ BuildTripObjects.exists
           /\ DOMAIN BuildTripObjects.media \subseteq ExportNames(export)
<1> DEFINE files == UNION {run.layouts[s].media : s \in TripSteps}
           media == MediaRows(files, {f.name : f \in files})
<1>1. BuildTripObjects.media = media /\ BuildTripObjects.exists
  BY DEF BuildTripObjects
<1>2. \A f \in files : OfExport(export, f)
  <2>1. DOMAIN NoAlbum.steps = {}
    BY DEF NoAlbum
  <2>2. DOMAIN run.layouts = TripSteps
    BY <2>1 DEF DInv, LaidOut, NewSteps
  <2>3. \A s \in TripSteps : LayoutSound(export, run.layouts[s])
    BY <2>2 DEF DInv
  <2> QED BY <2>3 DEF LayoutSound
<1> HIDE DEF files
<1>3. /\ DOMAIN media = {f.name : f \in files}
      /\ \A n \in DOMAIN media : media[n] = (CHOOSE f \in files : f.name = n).shape
  BY DEF MediaRows
<1>4. \A f \in files : f.name \in ExportNames(export)
  BY <1>2 DEF OfExport, ExportNames
<1> HIDE DEF media
<1>5. ASSUME NEW n \in DOMAIN media
      PROVE  \E f \in disk : f.dir = TopDir /\ f.name = n /\ f.shape = media[n]
  <2> DEFINE h == CHOOSE f \in files : f.name = n
  <2>1. \E f \in files : f.name = n
    BY <1>3
  <2>2. h \in files /\ h.name = n
    BY <2>1
  <2>3. n \in ExportNames(export) /\ OfExport(export, h) /\ media[n] = h.shape
    BY <1>2, <1>3, <1>4, <2>2
  <2> HIDE DEF h
  <2>4. Flattened
    BY DEF Flattened
  <2>5. PICK f \in disk : f.dir = TopDir /\ f.name = n /\ OfExport(export, f)
    BY <2>3, <2>4, ExportAtTop
  <2>6. f.shape = h.shape
    BY <2>2, <2>3, <2>5, SameShape
  <2> QED BY <2>3, <2>5, <2>6
<1>6. Matches(media, disk, withdrawn)
  BY <1>5 DEF Matches
<1>7. DOMAIN media \subseteq ExportNames(export)
  BY <1>3, <1>4
<1> QED BY <1>1, <1>6, <1>7

LEMMA AgainBuilt ==
    ASSUME IInv, DInv, RInv, run.pc = "build", NEW result \in ReconcileTrip
    PROVE  /\ Matches(result.media, disk, withdrawn) /\ result.exists
           /\ DOMAIN result.media \subseteq DOMAIN run.old.media \cup ExportNames(export)
           /\ \A f \in disk : f.name \in DOMAIN run.old.media => f.name \in DOMAIN result.media
<1> DEFINE names == ProbedNames(KeptSteps, DOMAIN run.old.media \cap OnDisk)
<1>1. result.exists /\ result.media = MediaRows(Top, names)
  BY ReconciledHas
<1>2. DOMAIN KeptSteps = TripSteps
  BY DEF KeptSteps
<1>3. disk = Top
  BY DEF DInv, Flattened, Top
<1>4. ExportNames(export) \subseteq OnDisk
  BY <1>3 DEF DInv, DiskSound, OnDisk
<1>5. ASSUME NEW s \in TripSteps
      PROVE  LayoutNames(KeptSteps[s]) \subseteq OnDisk \cap (DOMAIN run.old.media \cup ExportNames(export))
  <2>1. CASE s \in NewSteps
    <3>1. KeptSteps[s] = BuiltSteps[s]
      BY <2>1 DEF KeptSteps
    <3>2. LayoutNames(BuiltSteps[s]) \subseteq {f.name : f \in run.layouts[s].media}
          /\ \A f \in run.layouts[s].media : OfExport(export, f)
      BY <2>1, NewStepsAre
    <3>3. \A f \in run.layouts[s].media : f.name \in ExportNames(export)
      BY <3>2 DEF OfExport, ExportNames
    <3> QED BY <1>4, <3>1, <3>2, <3>3
  <2>2. CASE s \notin NewSteps
    <3>1. /\ s \in DOMAIN run.old.steps
          /\ LayoutNames(KeptSteps[s]) \subseteq
                OnDisk \cap (LayoutNames(run.old.steps[s]) \cup ExportNames(export))
      BY <2>2, OldStepsAre
    <3>2. LayoutNames(run.old.steps[s]) \subseteq DOMAIN run.old.media
      BY <3>1 DEF RInv, MediaThere
    <3> QED BY <3>1, <3>2
  <2> QED BY <2>1, <2>2
<1>6. /\ names \subseteq OnDisk \cap (DOMAIN run.old.media \cup ExportNames(export))
      /\ DOMAIN run.old.media \cap OnDisk \subseteq names
  BY <1>2, <1>5 DEF ProbedNames
<1> HIDE DEF names
<1>7. /\ DOMAIN result.media = names
      /\ \A n \in names : result.media[n] = (CHOOSE f \in Top : f.name = n).shape
  BY <1>1 DEF MediaRows
<1>8. ASSUME NEW n \in names
      PROVE  \E f \in disk : f.dir = TopDir /\ f.name = n /\ f.shape = result.media[n]
  <2> DEFINE h == CHOOSE f \in Top : f.name = n
  <2>1. \E f \in Top : f.name = n
    BY <1>6 DEF OnDisk
  <2>2. h \in Top /\ h.name = n
    BY <2>1
  <2>3. result.media[n] = h.shape
    BY <1>7
  <2> HIDE DEF h
  <2> QED BY <2>2, <2>3 DEF Top
<1>9. Matches(result.media, disk, withdrawn)
  BY <1>7, <1>8 DEF Matches
<1>10. \A f \in disk : f.name \in DOMAIN run.old.media => f.name \in DOMAIN result.media
  BY <1>3, <1>6, <1>7 DEF OnDisk
<1> QED BY <1>1, <1>6, <1>7, <1>9, <1>10

LEMMA FBuild == ASSUME IInv, DInv, RInv, FInv, BuildObjects PROVE FInv'
<1>1. PICK result : /\ result \in (IF run.old.exists THEN ReconcileTrip ELSE {BuildTripObjects})
                    /\ run' = [NoRun EXCEPT !.pc = "save", !.old = run.old, !.result = result]
  BY Zenon DEF BuildObjects
<1>2. /\ UNCHANGED <<disk, db, add, patch, withdrawn, troubled, crossed>> /\ run.pc = "build"
  BY DEF BuildObjects, editor
<1>3. run'.pc = "save" /\ run'.old = run.old /\ run'.result = result
  BY <1>1 DEF NoRun
<1>4. /\ Matches(result.media, disk, withdrawn) /\ result.exists
      /\ DOMAIN result.media \subseteq DOMAIN run.old.media \cup ExportNames(export)
      /\ run.old.exists =>
            \A f \in disk : f.name \in DOMAIN run.old.media => f.name \in DOMAIN result.media
  <2>1. CASE run.old.exists
    <3>1. result \in ReconcileTrip
      BY <1>1, <2>1
    <3> QED BY <1>2, <3>1, AgainBuilt
  <2>2. CASE ~run.old.exists
    <3>1. result = BuildTripObjects
      BY <1>1, <2>2
    <3>2. run.old = NoAlbum
      BY <1>2, <2>2 DEF FInv, RunKnows, Active
    <3> QED BY <1>2, <2>2, <3>1, <3>2, FirstBuilt
  <2> QED BY <2>1, <2>2
<1>5. Adding' = Adding /\ Active /\ Active' /\ TasksSound'
  BY <1>2, <1>3 DEF Adding, Active, TasksSound
<1>6. RunKnows'
  BY <1>2, <1>3, <1>5 DEF FInv, RunKnows
<1>7. NoStray'
  BY <1>2, <1>3, <1>5 DEF FInv, NoStray
<1>8. ExportNames(export) \cap AddedMedia = {}
  BY ExportIs DEF IInv
<1>9. \A n \in Adding : n \notin DOMAIN result.media
  BY <1>4, <1>8 DEF FInv
<1> QED BY <1>2, <1>3, <1>4, <1>5, <1>6, <1>7, <1>9 DEF FInv

LEMMA FStepKeeps == IInv /\ DInv /\ RInv /\ FInv /\ [Next]_vars => FInv'
<1> SUFFICES ASSUME IInv, DInv, RInv, FInv, [Next]_vars PROVE FInv'
  OBVIOUS
<1>1. CASE UNCHANGED vars
  BY <1>1, FStays DEF vars, editor
<1>2. CASE RunStep
  BY <1>2, FRuns, FPhases, FScan, FFlattenEnds, FFlattenFile, FSaved, FBuild DEF RunStep, SaveNew, SaveReupload
<1>3. CASE EditorStep
  BY <1>3, FEditor, FImportOne, FGivesUp, FPersist DEF EditorStep
<1>4. CASE OtherStep
  <2>1. OtherEnds \/ OtherCleansUp => FInv'
    BY FStays DEF OtherEnds, OtherCleansUp, editor
  <2> QED BY <1>4, <2>1, FFlattenFile DEF OtherStep
<1> QED BY <1>1, <1>2, <1>3, <1>4, FRuns, FPhases DEF Next

-----------------------------------------------------------------------------
(* The theorems about rows and files *)

LEMMA RowsInvariant == Spec => [](IInv /\ DInv /\ RInv /\ FInv)
<1>1. Init => IInv /\ DInv /\ RInv /\ FInv
  BY InitHolds, DInitHolds, RInitHolds, FInitHolds
<1>2. IInv /\ DInv /\ RInv /\ FInv /\ [Next]_vars => (IInv /\ DInv /\ RInv /\ FInv)'
  BY StepKeeps, DStepKeeps, RStepKeeps, FStepKeeps
<1> QED BY <1>1, <1>2, PTL DEF Spec

\* Every step of the album can be read back, whatever tabs with old data and
\* repeated uploads have made of it: the media it mentions have rows, no page is
\* empty, and no two of its slots have the same id or the same priority.
THEOREM StepsReadable == Spec => []LayoutsReadable
<1>1. RInv => LayoutsReadable
  <2> SUFFICES ASSUME RInv, NEW s \in DOMAIN db.steps
               PROVE  LET pages == db.steps[s].pages
                      IN  /\ LayoutNames(db.steps[s]) \subseteq DOMAIN db.media
                          /\ \A i \in DOMAIN pages : pages[i] # <<>>
                          /\ \A x, y \in Places(pages) : x # y =>
                                /\ At(pages, x).id # At(pages, y).id
                                /\ At(pages, x).priority # At(pages, y).priority
    BY DEF LayoutsReadable
  <2>1. LayoutNames(db.steps[s]) \subseteq DOMAIN db.media
    BY DEF RInv, MediaThere
  <2>2. Readable(db.steps[s])
    BY DEF RInv, AlbumReadable
  <2>3. db.steps[s].pages \in PagesOn(AnySlot)
    BY <2>2, StepIs DEF Readable
  <2>4. \A i \in DOMAIN db.steps[s].pages : db.steps[s].pages[i] # <<>>
    BY <2>3, PagesAreSeqs
  <2> QED BY <2>1, <2>2, <2>4 DEF Readable, IdsDiffer, PrioritiesDiffer
<1> QED BY <1>1, RowsInvariant, PTL

\* After a run that succeeded each row has its file at the top of the folder,
\* with its shape, and an added file has its row once nobody is adding, however
\* retries, crashes, threads left behind, edits and imports interleave; rows lose
\* their files only to a client that leaves a Google import right after its
\* commit, or to an import that replaces the folder while media are being added;
\* and only trouble, or a run that had read the rows before an
\* import's commit, leaves added files without rows.
THEOREM FilesKept == Spec => []FilesMatchRows
<1>1. FInv => FilesMatchRows
  <2> SUFFICES ASSUME FInv PROVE FilesMatchRows
    OBVIOUS
  <2>1. run.pc = "done" => \A name \in DOMAIN db.media \ withdrawn :
           \E f \in Top : f.name = name /\ f.shape = db.media[name]
    BY DEF FInv, Matches, Top
  <2>2. (add = NoAdd /\ ~troubled /\ ~crossed) =>
           \A f \in disk : f.name \in AddedMedia => f.name \in DOMAIN db.media
    <3>1. add = NoAdd => Adding = {}
      BY NothingThere DEF Adding
    <3> QED BY <3>1 DEF FInv, NoStray
  <2> QED BY <2>1, <2>2 DEF FilesMatchRows
<1> QED BY <1>1, RowsInvariant, PTL

-----------------------------------------------------------------------------
(* No photo is left out: packing *)

LEMMA OnPages ==
    ASSUME NEW pages
    PROVE  \A v : v \in SlotsOn(pages) <=> \E i \in DOMAIN pages : \E j \in DOMAIN pages[i] : v = pages[i][j]
<1> SUFFICES ASSUME NEW v
             PROVE  v \in SlotsOn(pages) <=> \E i \in DOMAIN pages : \E j \in DOMAIN pages[i] : v = pages[i][j]
  OBVIOUS
<1>1. ASSUME v \in SlotsOn(pages)
      PROVE  \E i \in DOMAIN pages : \E j \in DOMAIN pages[i] : v = pages[i][j]
  <2>1. PICK x \in Places(pages) : v = At(pages, x)
    BY <1>1 DEF SlotsOn
  <2>2. PICK i \in DOMAIN pages : \E j \in DOMAIN pages[i] : x = <<i, j>>
    BY DEF Places
  <2> QED BY <2>1, <2>2 DEF At
<1>2. ASSUME NEW i \in DOMAIN pages, NEW j \in DOMAIN pages[i], v = pages[i][j]
      PROVE  v \in SlotsOn(pages)
  <2>1. <<i, j>> \in Places(pages) /\ At(pages, <<i, j>>) = v
    BY <1>2 DEF Places, At
  <2> QED BY <2>1 DEF SlotsOn
<1> QED BY <1>1, <1>2

LEMMA JoinedHas ==
    ASSUME NEW T, NEW a \in Seq(T), NEW b \in Seq(T)
    PROVE  SlotsOn(a) \cup SlotsOn(b) \subseteq SlotsOn(a \o b)
<1>1. /\ DOMAIN a = 1 .. Len(a) /\ DOMAIN b = 1 .. Len(b) /\ Len(a) \in Nat /\ Len(b) \in Nat
      /\ DOMAIN (a \o b) = 1 .. Len(a) + Len(b)
      /\ \A i \in 1 .. Len(a) : (a \o b)[i] = a[i]
      /\ \A i \in 1 .. Len(b) : (a \o b)[Len(a) + i] = b[i]
  OBVIOUS
<1>2. /\ \A i \in 1 .. Len(a) : i \in 1 .. Len(a) + Len(b)
      /\ \A i \in 1 .. Len(b) : Len(a) + i \in 1 .. Len(a) + Len(b)
  BY <1>1
<1>3. ASSUME NEW v \in SlotsOn(a) PROVE v \in SlotsOn(a \o b)
  <2>1. PICK i \in DOMAIN a : \E j \in DOMAIN a[i] : v = a[i][j]
    BY OnPages
  <2>2. i \in DOMAIN (a \o b) /\ (a \o b)[i] = a[i]
    BY <1>1, <1>2
  <2> QED BY ONLY <2>1, <2>2, OnPages
<1>4. ASSUME NEW v \in SlotsOn(b) PROVE v \in SlotsOn(a \o b)
  <2>1. PICK i \in DOMAIN b : \E j \in DOMAIN b[i] : v = b[i][j]
    BY OnPages
  <2>2. Len(a) + i \in DOMAIN (a \o b) /\ (a \o b)[Len(a) + i] = b[i]
    BY <1>1, <1>2
  <2> QED BY ONLY <2>1, <2>2, OnPages
<1> QED BY <1>3, <1>4

LEMMA PagesOfHas ==
    ASSUME NEW T, NEW items \in Seq(T), NEW size \in {3, 4}
    PROVE  ToSet(items) \subseteq SlotsOn(PagesOf(items, size))
<1> DEFINE n == Len(items)
           pages == PagesOf(items, size)
           first(k) == (k - 1) * size + 1
           last(k) == IF k * size < n THEN k * size ELSE n
<1>1. n \in Nat /\ DOMAIN items = 1 .. n /\ \A i \in 1 .. n : items[i] \in T
  OBVIOUS
<1>2. /\ DOMAIN pages = 1 .. Ceil(n, size)
      /\ \A k \in DOMAIN pages : pages[k] = SubSeq(items, first(k), last(k))
  BY DEF PagesOf
<1> HIDE DEF pages
<1>3. ASSUME NEW i \in 1 .. n PROVE items[i] \in SlotsOn(pages)
  <2> DEFINE k == ((i - 1) \div size) + 1
             j == i - (k - 1) * size
  <2>1. /\ k \in 1 .. Ceil(n, size) /\ first(k) \in 1 .. i /\ last(k) \in i .. n
        /\ first(k) + j - 1 = i /\ j \in Nat \ {0} /\ j <= last(k) - first(k) + 1
    <3>1. CASE size = 3
      BY <1>1, <3>1 DEF Ceil
    <3>2. CASE size = 4
      BY <1>1, <3>2 DEF Ceil
    <3> QED BY <3>1, <3>2
  <2>2. pages[k] = SubSeq(items, first(k), last(k))
    BY <1>2, <2>1
  <2> HIDE DEF k, j, first, last, n
  <2>3. j \in DOMAIN SubSeq(items, first(k), last(k)) /\ SubSeq(items, first(k), last(k))[j] = items[i]
    BY <1>1, <2>1
  <2> QED BY ONLY <1>2, <2>1, <2>2, <2>3, OnPages
<1> QED BY <1>1, <1>3 DEF ToSet, pages

LEMMA CutInTwo ==
    ASSUME NEW T, NEW s \in Seq(T), NEW c \in 0 .. Len(s)
    PROVE  ToSet(s) \subseteq ToSet(SubSeq(s, 1, c)) \cup ToSet(SubSeq(s, c + 1, Len(s)))
<1> DEFINE a == SubSeq(s, 1, c)
           b == SubSeq(s, c + 1, Len(s))
<1>1. /\ DOMAIN s = 1 .. Len(s) /\ Len(s) \in Nat
      /\ DOMAIN a = 1 .. c /\ \A i \in 1 .. c : a[i] = s[i]
      /\ DOMAIN b = 1 .. Len(s) - c /\ \A i \in 1 .. Len(s) - c : b[i] = s[c + i]
  OBVIOUS
<1> HIDE DEF a, b
<1>2. ASSUME NEW i \in 1 .. Len(s) PROVE s[i] \in ToSet(a) \cup ToSet(b)
  <2>1. CASE i <= c
    BY <1>1, <2>1 DEF ToSet
  <2>2. CASE i > c
    <3>1. i - c \in 1 .. Len(s) - c /\ c + (i - c) = i
      BY <1>1, <2>2
    <3>2. b[i - c] = s[i]
      BY <1>1, <3>1
    <3> QED BY <1>1, <3>1, <3>2 DEF ToSet
  <2> QED BY <1>1, <2>1, <2>2
<1> QED BY <1>1, <1>2 DEF ToSet, a, b

LEMMA LandscapePagesHas ==
    ASSUME NEW T, NEW items \in Seq(T)
    PROVE  ToSet(items) \subseteq SlotsOn(LandscapePages(items))
<1> DEFINE n == Len(items)
           cut == n - 3 * ThreePageCount(n)
           pages == LandscapePages(items)
<1>1. n \in Nat /\ DOMAIN items = 1 .. n
  OBVIOUS
<1>2. CASE n < 3
  <2>1. LandscapePages(items) = [i \in 1 .. n |-> <<items[i]>>]
    BY <1>2 DEF LandscapePages
  <2>2. DOMAIN pages = 1 .. n /\ \A i \in 1 .. n : 1 \in DOMAIN pages[i] /\ pages[i][1] = items[i]
    BY <2>1
  <2> HIDE DEF pages, n
  <2>3. \A i \in 1 .. n : items[i] \in SlotsOn(pages)
    BY <2>2, OnPages
  <2> QED BY <1>1, <2>3 DEF ToSet, pages
<1>3. CASE n = 5
  <2> DEFINE a == SubSeq(items, 1, 4)
             b == <<items[5]>>
  <2>1. LandscapePages(items) = <<a, b>>
    BY <1>3 DEF LandscapePages
  <2>2. DOMAIN a = 1 .. 4 /\ (\A i \in 1 .. 4 : a[i] = items[i]) /\ DOMAIN b = {1} /\ b[1] = items[5]
    BY <1>3
  <2> HIDE DEF a, b
  <2>3. DOMAIN pages = {1, 2} /\ pages[1] = a /\ pages[2] = b
    BY <2>1
  <2> HIDE DEF pages
  <2>4. \A i \in 1 .. 4 : items[i] \in SlotsOn(pages)
    BY <2>2, <2>3, OnPages
  <2>5. items[5] \in SlotsOn(pages)
    BY <2>2, <2>3, OnPages
  <2>6. \A i \in 1 .. 5 : i \in 1 .. 4 \/ i = 5
    OBVIOUS
  <2> QED BY <1>1, <1>3, <2>4, <2>5, <2>6 DEF ToSet, pages
<1>4. CASE ~(n < 3) /\ n # 5
  <2> HIDE DEF n
  <2>1. cut \in 0 .. n
    BY <1>1, <1>4, LandscapeCut
  <2> USE DEF n
  <2> HIDE DEF cut
  <2> DEFINE a == SubSeq(items, 1, cut)
             b == SubSeq(items, cut + 1, n)
  <2>2. a \in Seq(T) /\ b \in Seq(T)
    BY <1>1, <2>1, PartOf
  <2>3. pages = PagesOf(a, 4) \o PagesOf(b, 3)
    BY <1>4 DEF LandscapePages, cut
  <2>4. ToSet(items) \subseteq ToSet(a) \cup ToSet(b)
    BY <2>1, CutInTwo
  <2> HIDE DEF a, b, pages, n
  <2>5. PagesOf(a, 4) \in PagesOn(T) /\ PagesOf(b, 3) \in PagesOn(T)
    BY <2>2, PagesOfAre
  <2>6. SlotsOn(PagesOf(a, 4)) \cup SlotsOn(PagesOf(b, 3)) \subseteq SlotsOn(pages)
    BY ONLY <2>3, <2>5, JoinedHas DEF PagesOn
  <2>7. ToSet(a) \subseteq SlotsOn(PagesOf(a, 4)) /\ ToSet(b) \subseteq SlotsOn(PagesOf(b, 3))
    BY <2>2, PagesOfHas
  <2> QED BY ONLY <2>4, <2>6, <2>7 DEF pages
<1> QED BY <1>2, <1>3, <1>4

LEMMA BuildPagesHas ==
    ASSUME NEW T, NEW portraits \in Seq(T), NEW landscapes \in Seq(T)
    PROVE  ToSet(portraits) \cup ToSet(landscapes) \subseteq SlotsOn(BuildPages(portraits, landscapes))
<1> DEFINE p == Len(portraits)
           l == Len(landscapes)
           mixed == OptimalMixedCount(p, l)
           pages == [i \in 1 .. mixed |-> <<portraits[i], landscapes[2 * i - 1], landscapes[2 * i]>>]
           alone == SubSeq(portraits, mixed + 1, p)
           rest == SubSeq(landscapes, 2 * mixed + 1, l)
           all == BuildPages(portraits, landscapes)
<1>1. p \in Nat /\ l \in Nat
  OBVIOUS
<1>2. mixed \in Nat /\ mixed <= p /\ 2 * mixed <= l
  BY <1>1, MixedCount
<1>3. all = (PagesOf(alone, 3) \o pages) \o LandscapePages(rest)
  BY Zenon DEF BuildPages
<1> HIDE DEF mixed, all
<1>4. alone \in Seq(T) /\ rest \in Seq(T)
  BY <1>1, <1>2, PartOf
<1>5. /\ ToSet(portraits) \subseteq ToSet(SubSeq(portraits, 1, mixed)) \cup ToSet(alone)
      /\ ToSet(landscapes) \subseteq ToSet(SubSeq(landscapes, 1, 2 * mixed)) \cup ToSet(rest)
  <2>1. mixed \in 0 .. p /\ 2 * mixed \in 0 .. l
    BY <1>1, <1>2
  <2> QED BY <2>1, CutInTwo
<1>6. pages \in PagesOn(T)
  <2>1. \A i \in 1 .. mixed : i \in 1 .. p /\ 2 * i - 1 \in 1 .. l /\ 2 * i \in 1 .. l
    BY <1>1, <1>2
  <2>2. \A i \in 1 .. mixed : portraits[i] \in T /\ landscapes[2 * i - 1] \in T /\ landscapes[2 * i] \in T
    BY <2>1
  <2>3. \A a, b, c \in T : <<a, b, c>> \in Seq(T) \ {<<>>}
    OBVIOUS
  <2>4. pages \in [1 .. mixed -> Seq(T) \ {<<>>}]
    BY <2>2, <2>3
  <2> QED BY <1>2, <2>4, IsASeq DEF PagesOn
<1>7. /\ ToSet(SubSeq(portraits, 1, mixed)) \subseteq SlotsOn(pages)
      /\ ToSet(SubSeq(landscapes, 1, 2 * mixed)) \subseteq SlotsOn(pages)
  <2>1. /\ DOMAIN pages = 1 .. mixed
        /\ \A i \in 1 .. mixed :
              /\ DOMAIN pages[i] = 1 .. 3 /\ pages[i][1] = portraits[i]
              /\ pages[i][2] = landscapes[2 * i - 1] /\ pages[i][3] = landscapes[2 * i]
    OBVIOUS
  <2>2. /\ DOMAIN SubSeq(portraits, 1, mixed) = 1 .. mixed
        /\ \A i \in 1 .. mixed : SubSeq(portraits, 1, mixed)[i] = portraits[i]
    BY <1>1, <1>2
  <2>3. /\ DOMAIN SubSeq(landscapes, 1, 2 * mixed) = 1 .. 2 * mixed
        /\ \A i \in 1 .. 2 * mixed : SubSeq(landscapes, 1, 2 * mixed)[i] = landscapes[i]
    BY <1>1, <1>2
  <2> HIDE DEF pages
  <2>4. \A i \in 1 .. mixed : portraits[i] \in SlotsOn(pages)
    <3>1. 1 \in 1 .. 3
      OBVIOUS
    <3> QED BY <2>1, <3>1, OnPages
  <2>5. ASSUME NEW i \in 1 .. 2 * mixed PROVE landscapes[i] \in SlotsOn(pages)
    <3> DEFINE k == (i + 1) \div 2
    <3>1. k \in 1 .. mixed /\ (i = 2 * k - 1 \/ i = 2 * k) /\ 2 \in 1 .. 3 /\ 3 \in 1 .. 3
      BY <1>2
    <3> HIDE DEF k
    <3> QED BY <2>1, <3>1, OnPages
  <2> QED BY ONLY <2>2, <2>3, <2>4, <2>5 DEF ToSet
<1>8. ToSet(alone) \subseteq SlotsOn(PagesOf(alone, 3)) /\ ToSet(rest) \subseteq SlotsOn(LandscapePages(rest))
  <2> HIDE DEF alone, rest
  <2> QED BY <1>4, PagesOfHas, LandscapePagesHas
<1> HIDE DEF alone, rest, pages
<1>9. PagesOf(alone, 3) \in PagesOn(T) /\ LandscapePages(rest) \in PagesOn(T)
  BY <1>4, PagesOfAre, LandscapePagesAre
<1>10. /\ SlotsOn(PagesOf(alone, 3)) \cup SlotsOn(pages) \subseteq SlotsOn(PagesOf(alone, 3) \o pages)
       /\ SlotsOn(PagesOf(alone, 3) \o pages) \cup SlotsOn(LandscapePages(rest)) \subseteq SlotsOn(all)
  <2>1. PagesOf(alone, 3) \o pages \in PagesOn(T)
    BY ONLY <1>6, <1>9, Joined DEF PagesOn
  <2> QED BY ONLY <1>3, <1>6, <1>9, <2>1, JoinedHas DEF PagesOn
<1> QED BY ONLY <1>5, <1>7, <1>8, <1>10 DEF all

LEMMA PhotosPlaced ==
    ASSUME NEW files, IsFiniteSet(files), {f.name : f \in files} \subseteq Int
    PROVE  {f.name : f \in files} \subseteq
              SlotsOn(BuildStepLayout(files).pages) \cup {BuildStepLayout(files).cover}
<1> DEFINE N == {f.name : f \in files}
           P == {g \in files : g.shape = "p"}
           L == {g \in files : g.shape # "p"}
           portraits == Ascending({f.name : f \in P})
           landscapes == Ascending({f.name : f \in L})
           layout == BuildStepLayout(files)
           rest == IF portraits # <<>> THEN Tail(portraits) ELSE <<>>
           cover == IF portraits # <<>> THEN portraits[1] ELSE landscapes[1]
<1>1. /\ portraits \in Seq(N) /\ ToSet(portraits) = {f.name : f \in P}
      /\ landscapes \in Seq(N) /\ ToSet(landscapes) = {f.name : f \in L}
  <2>1. P \subseteq files /\ L \subseteq files
    OBVIOUS
  <2> QED BY <2>1, FolderNames
<1>2. N = {f.name : f \in P} \cup {f.name : f \in L}
  OBVIOUS
<1>3. files # {} => layout = [cover |-> cover, pages |-> BuildPages(rest, landscapes), media |-> files]
  BY Zenon DEF BuildStepLayout
<1>4. files = {} => N = {}
  OBVIOUS
<1> HIDE DEF P, L, layout, N
<1>5. files # {} => layout.cover = cover /\ layout.pages = BuildPages(rest, landscapes)
  BY <1>3
<1> HIDE DEF landscapes
<1>6. rest \in Seq(N) /\ ToSet(portraits) \subseteq ToSet(rest) \cup {cover}
  <2> HIDE DEF portraits
  <2>1. CASE portraits = <<>>
    BY <2>1 DEF ToSet
  <2>2. CASE portraits # <<>>
    <3>1. /\ rest = Tail(portraits) /\ cover = portraits[1] /\ rest \in Seq(N)
          /\ DOMAIN portraits = 1 .. Len(portraits) /\ Len(portraits) \in Nat
          /\ DOMAIN rest = 1 .. Len(portraits) - 1
          /\ \A i \in 1 .. Len(portraits) - 1 : rest[i] = portraits[i + 1]
      BY <1>1, <2>2
    <3>2. ASSUME NEW i \in DOMAIN portraits PROVE portraits[i] \in ToSet(rest) \cup {cover}
      <4>1. CASE i = 1
        BY <3>1, <4>1
      <4>2. CASE i # 1
        <5>1. i - 1 \in 1 .. Len(portraits) - 1 /\ (i - 1) + 1 = i
          BY <3>1, <4>2
        <5>2. rest[i - 1] = portraits[i]
          BY ONLY <3>1, <5>1
        <5> QED BY ONLY <3>1, <5>1, <5>2 DEF ToSet
      <4> QED BY <4>1, <4>2
    <3> QED BY <3>1, <3>2 DEF ToSet
  <2> QED BY <2>1, <2>2
<1> HIDE DEF rest, cover, portraits
<1>7. ToSet(rest) \cup ToSet(landscapes) \subseteq SlotsOn(BuildPages(rest, landscapes))
  BY <1>1, <1>6, BuildPagesHas
<1> QED BY <1>1, <1>2, <1>4, <1>5, <1>6, <1>7 DEF layout, N

-----------------------------------------------------------------------------
(* No photo is left out: the run *)

\* Nothing has been moved yet.
Early ==
    \/ run.pc \in {"idle", "scan", "prepare"}
    \/ run.pc = "phases" /\ (run.tasks.media = "run" \/ run.old.exists)

LayoutPlaced(layout) ==
    \A f \in layout.media : f.name \in SlotsOn(layout.pages) \cup {layout.cover}

CoverSound(e, cover) ==
    cover = None \/ \E f \in ExportFiles(e) : f.name = cover /\ f.shape \in {"p", "l"}

Complete(e, a) ==
    /\ \A f \in ExportFiles(e) : \E s \in DOMAIN a.steps : f.name \in LayoutNames(a.steps[s])
    /\ CoversSound(a)

\* What a run without failures has seen of the export, all of it.
NothingLost ==
    /\ Early => thread = "none" /\ ExportFiles(export) \subseteq disk
    /\ run.pc \in {"phases", "prepare", "flatten", "build"} =>
          \A f \in ExportFiles(export) : f.name \in run.scan[f.dir]
    /\ \A f \in ExportFiles(export) :
          f.dir \in DOMAIN run.layouts => f \in run.layouts[f.dir].media
    /\ run.pc \in {"phases", "build"} /\ ~run.old.exists => CoverSound(export, run.cover)
    /\ run.pc = "save" => Complete(export, run.result)

PInv ==
    /\ \A s \in DOMAIN run.layouts : LayoutPlaced(run.layouts[s])
    /\ run.pc = "scan" => run.cover = None
    /\ Active /\ ~run.old.exists => ~crossed
    /\ run.pc = "phases" /\ run.tasks.media = "flatten" => ~run.old.exists
    /\ ~troubled => NothingLost

LEMMA NoRunCover ==
    NoRun.cover = None /\ \A pc : [NoRun EXCEPT !.pc = pc].cover = None
BY DEF NoRun

\* A run begins, ends or waits to be saved.
LEMMA PRests ==
    ASSUME run'.layouts = <<>>, run'.cover = None,
           run'.pc \in {"idle", "scan", "save", "cleanup", "done", "failed"},
           run'.pc \in {"scan", "save"} /\ ~run'.old.exists => ~crossed',
           ~troubled' /\ run'.pc \in {"idle", "scan"} => thread' = "none" /\ ExportFiles(export') \subseteq disk',
           ~troubled' /\ run'.pc = "save" => Complete(export', run'.result)
    PROVE  PInv'
<1>1. Early' => run'.pc \in {"idle", "scan"}
  BY DEF Early
<1>2. DOMAIN run'.layouts = {}
  OBVIOUS
<1>3. Active' => run'.pc \in {"scan", "save"}
  BY DEF Active
<1>4. ~troubled' => NothingLost'
  BY <1>1, <1>2 DEF NothingLost
<1> QED BY <1>2, <1>3, <1>4 DEF PInv

LEMMA PInitHolds == Init => PInv
<1> SUFFICES ASSUME Init PROVE PInv
  OBVIOUS
<1>1. export = 1 /\ disk = ExportFiles(1) /\ run = NoRun /\ thread = "none"
  BY Zenon DEF Init
<1>2. DOMAIN run.layouts = {} /\ run.pc = "idle"
  BY <1>1, NoRunIs
<1>3. NothingLost
  BY <1>1, <1>2 DEF NothingLost
<1> QED BY <1>2, <1>3 DEF PInv, Active

\* The run does nothing, and what it has not moved yet stays.
LEMMA PStays ==
    ASSUME PInv, UNCHANGED <<export, run, thread>>, ~troubled' => ~troubled,
           crossed' => crossed \/ run.old.exists,
           ~troubled' /\ Early => \A f \in ExportFiles(export) : f \in disk => f \in disk'
    PROVE  PInv'
<1>1. (Early' <=> Early) /\ (Active' <=> Active)
  BY DEF Early, Active
<1>2. ~troubled' => NothingLost'
  BY <1>1 DEF PInv, NothingLost
<1> QED BY <1>1, <1>2 DEF PInv

LEMMA ExportKept ==
    ASSUME IInv, NEW names, names \subseteq AddedMedia
    PROVE  \A f \in ExportFiles(export) : f \in disk => f \in {g \in disk : g.name \notin names}
BY ExportIs DEF IInv

\* What the editor does changes nothing for the run, and what an earlier run
\* still does is noted.
LEMMA PEditor ==
    ASSUME IInv, DInv, FInv, PInv,
           \/ EditorStep \/ FlattenFile \/ OtherStep \/ UNCHANGED vars
    PROVE  PInv'
<1>0. /\ ToSet(add.written) \subseteq AddedMedia
      /\ \A f \in ExportFiles(export) : f \in disk => f \in {g \in disk : g.name \notin ToSet(add.written)}
  BY WrittenAre, ExportKept DEF DInv
<1>1. CASE UNCHANGED vars
  BY <1>1, PStays DEF vars, editor
<1>2. CASE FlattenFile
  <2>1. UNCHANGED <<export, run, thread, troubled, crossed>> /\ thread # "none"
    BY <1>2 DEF FlattenFile, editor
  <2>2. ~troubled => ~Early
    BY <2>1 DEF PInv, NothingLost
  <2> QED BY <2>1, <2>2, PStays
<1>3. CASE OpenAlbum \/ ValidateChapters \/ StartImport \/ ImportCompleted
  <2>1. UNCHANGED <<export, run, thread, troubled, crossed, disk>>
    BY <1>3 DEF OpenAlbum, ValidateChapters, StartImport, ImportCompleted
  <2> QED BY <2>1, PStays
<1>4. CASE EditLayout
  <2>1. UNCHANGED <<export, run, thread, troubled, disk>> /\ crossed' = (crossed \/ run.old.exists)
    BY <1>4 DEF EditLayout, Edited
  <2> QED BY <2>1, PStays
<1>5. CASE UpdateAlbum
  <2>1. UNCHANGED <<export, run, thread, troubled, disk>> /\ crossed' = (crossed \/ run.old.exists)
    BY <1>5 DEF UpdateAlbum
  <2> QED BY <2>1, PStays
<1>6. CASE ImportOne
  <2>1. UNCHANGED <<export, run, thread, troubled, crossed>> /\ disk \subseteq disk'
    BY <1>6 DEF ImportOne
  <2> QED BY <2>1, PStays
<1>7. CASE ImportFails
  <2>1. UNCHANGED <<export, run, thread, troubled, crossed>> /\ CleanupImported
    BY <1>7 DEF ImportFails
  <2> QED BY <1>0, <2>1, PStays DEF CleanupImported
<1>8. CASE PersistImportedMedia
  <2>1. UNCHANGED <<export, run, thread, troubled>> /\ (disk' = disk \/ CleanupImported)
    BY <1>8 DEF PersistImportedMedia
  <2>2. crossed' => crossed \/ run.old.exists
    BY <1>8 DEF PersistImportedMedia
  <2> QED BY <1>0, <2>1, <2>2, PStays DEF CleanupImported
<1>9. CASE CancelImport
  <2>1. UNCHANGED <<export, run, thread, troubled>> /\ CleanupImported
    BY <1>9 DEF CancelImport
  <2>2. crossed' => crossed \/ run.old.exists
    BY <1>9 DEF CancelImport
  <2> QED BY <1>0, <2>1, <2>2, PStays DEF CleanupImported
<1>10. CASE OtherStep
  <2>1. UNCHANGED <<export, run, thread, crossed>> /\ (~troubled' => ~troubled /\ disk' = disk)
    BY <1>10 DEF OtherStep, OtherFlattens, OtherEnds, OtherCleansUp, editor
  <2> QED BY <2>1, PStays
<1> QED BY <1>1, <1>2, <1>3, <1>4, <1>5, <1>6, <1>7, <1>8, <1>9, <1>10 DEF EditorStep

LEMMA PEnds ==
    ASSUME IInv, DInv, FInv, PInv,
           \/ LoadTrip \/ ImportAgain \/ SaveFails \/ FlattenFails \/ CleanupMetadata \/ Crash \/ Saved
    PROVE  PInv'
<1>1. CASE LoadTrip
  <2>1. UNCHANGED <<export, disk, thread>> /\ run.pc \in {"idle", "failed"} /\ ~crossed'
    BY <1>1 DEF LoadTrip, editor
  <2>2. run'.pc \in {"scan", "failed"} /\ run'.layouts = <<>> /\ run'.cover = None
    BY <1>1 DEF LoadTrip, NoRun
  <2>3. ~troubled' => run.pc = "idle" /\ ~troubled
    BY <1>1, <2>1 DEF LoadTrip, FInv
  <2>4. ~troubled' => thread = "none" /\ ExportFiles(export) \subseteq disk
    BY <2>3 DEF PInv, NothingLost, Early
  <2> QED BY <2>1, <2>2, <2>4, PRests
<1>2. CASE ImportAgain
  <2>1. disk' = ExportFiles(export') /\ run' = NoRun /\ thread' = "none"
    BY <1>2 DEF ImportAgain
  <2> QED BY <2>1, NoRunIs, NoRunCover, PRests
<1>3. CASE SaveFails \/ FlattenFails \/ CleanupMetadata \/ Saved
  <2>1. PICK pc \in {"failed", "done", "cleanup"} : run' = [NoRun EXCEPT !.pc = pc]
    BY <1>3, Zenon DEF SaveFails, FlattenFails, CleanupMetadata, Saved
  <2>2. run'.pc = pc /\ run'.layouts = <<>> /\ run'.cover = None
    BY <2>1, NoRunIs, NoRunCover
  <2> QED BY <2>2, PRests
<1>4. CASE Crash
  <2>1. /\ run' = [NoRun EXCEPT !.pc = run'.pc] /\ run'.pc \in {"done", "failed", "idle"} /\ troubled'
    BY <1>4 DEF Crash, Fails, NoRun
  <2>2. run'.layouts = <<>> /\ run'.cover = None
    BY <2>1, NoRunIs, NoRunCover
  <2> QED BY <2>1, <2>2, PRests
<1> QED BY <1>1, <1>2, <1>3, <1>4

\* The run goes on with what it has.
LEMMA PGoes ==
    ASSUME PInv, UNCHANGED <<export, disk, crossed>>, ~troubled' => ~troubled,
           run'.layouts = run.layouts, run'.scan = run.scan, run'.old = run.old,
           run.pc \in {"phases", "prepare", "flatten"},
           run'.pc \in {"phases", "prepare", "flatten", "build", "failed"},
           Early' => Early /\ thread' = thread,
           run'.pc = "phases" /\ run'.tasks.media = "flatten" => ~run'.old.exists,
           ~troubled' /\ run'.pc \in {"phases", "build"} /\ ~run'.old.exists => CoverSound(export, run'.cover)
    PROVE  PInv'
<1>1. Active
  BY DEF Active
<1>2. ~troubled' => NothingLost'
  BY DEF PInv, NothingLost
<1> QED BY <1>1, <1>2 DEF PInv

LEMMA CoverStays ==
    ASSUME PInv, UNCHANGED export, ~troubled' => ~troubled, run'.old = run.old, run'.cover = run.cover,
           run.pc \in {"phases", "build"}
    PROVE  ~troubled' /\ run'.pc \in {"phases", "build"} /\ ~run'.old.exists => CoverSound(export, run'.cover)
BY DEF PInv, NothingLost

LEMMA PPhases ==
    ASSUME IInv, DInv, FInv, PInv,
           \/ FetchElevations \/ FetchWeather \/ LayoutsDone \/ PhasesEnd \/ DrainQueue \/ PrepareMedia
           \/ (\E task \in {"weather", "media"} : TaskFails(task))
    PROVE  PInv'
<1>0. DOMAIN run = {"old", "result", "pc", "scan", "tasks", "layouts", "sentinel", "cover"}
  BY RunFields
<1> DEFINE Same == /\ UNCHANGED <<export, disk, crossed>> /\ (~troubled' => ~troubled)
                   /\ run'.layouts = run.layouts /\ run'.scan = run.scan /\ run'.old = run.old
                   /\ run'.cover = run.cover
<1>1. ASSUME Same, run.pc = "phases", run'.pc = "phases", Early' => Early /\ thread' = thread,
             run'.tasks.media = "flatten" => ~run.old.exists
      PROVE  PInv'
  <2>1. ~troubled' /\ run'.pc \in {"phases", "build"} /\ ~run'.old.exists => CoverSound(export, run'.cover)
    BY <1>1, CoverStays
  <2> QED BY <1>1, <2>1, PGoes
<1>2. run.pc = "phases" => DOMAIN run.tasks = {"elevations", "weather", "media"}
  BY DEF DInv
<1>3. CASE FetchElevations \/ FetchWeather
  <2>1. UNCHANGED <<export, disk, crossed, troubled, thread>> /\ run.pc = "phases"
    BY <1>3 DEF FetchElevations, FetchWeather, editor
  <2>2. PICK task \in {"elevations", "weather"} : run' = [run EXCEPT !.tasks[task] = "done"]
    BY <1>3 DEF FetchElevations, FetchWeather
  <2>3. Same /\ run'.pc = "phases" /\ run'.tasks.media = run.tasks.media
    BY <1>0, <1>2, <2>1, <2>2
  <2>4. Early' => Early
    BY <2>1, <2>3 DEF Early
  <2>5. run'.tasks.media = "flatten" => ~run.old.exists
    BY <2>1, <2>3 DEF PInv
  <2> QED BY <1>1, <2>1, <2>3, <2>4, <2>5
<1>4. CASE LayoutsDone
  <2>1. UNCHANGED <<export, disk, crossed, troubled>> /\ run.pc = "phases" /\ run.tasks.media = "run"
    BY <1>4 DEF LayoutsDone, editor
  <2>2. Early
    BY <2>1 DEF Early
  <2>3. CASE run.old.exists
    <3>1. run' = [run EXCEPT !.tasks.media = "done"] /\ thread' = thread
      BY <1>4, <2>3 DEF LayoutsDone
    <3>2. Same /\ run'.pc = "phases" /\ run'.tasks.media = "done"
      BY <1>0, <1>2, <2>1, <3>1
    <3> QED BY <1>1, <2>1, <2>2, <3>1, <3>2
  <2>4. CASE ~run.old.exists
    <3>1. run' = [run EXCEPT !.tasks.media = "flatten"]
      BY <1>4, <2>4 DEF LayoutsDone
    <3>2. Same /\ run'.pc = "phases" /\ run'.tasks.media = "flatten"
      BY <1>0, <1>2, <2>1, <3>1
    <3>3. ~Early'
      BY <2>4, <3>2 DEF Early
    <3> QED BY <1>1, <2>1, <2>4, <3>2, <3>3
  <2> QED BY <2>3, <2>4
<1>5. CASE PhasesEnd
  <2>1. UNCHANGED <<export, disk, crossed, troubled, thread>> /\ run.pc = "phases"
        /\ run' = [run EXCEPT !.sentinel = TRUE]
    BY <1>5 DEF PhasesEnd, editor
  <2>2. Same /\ run'.pc = "phases" /\ run'.tasks = run.tasks
    BY <1>0, <2>1
  <2>3. (Early' => Early) /\ (run'.tasks.media = "flatten" => ~run.old.exists)
    BY <2>1, <2>2 DEF Early, PInv
  <2> QED BY <1>1, <2>1, <2>2, <2>3
<1>6. CASE DrainQueue
  <2>1. UNCHANGED <<export, disk, crossed, troubled, thread>> /\ run.pc = "phases"
    BY <1>6 DEF DrainQueue, editor
  <2>2. PICK pc \in {"failed", "prepare", "build"} :
           run' = [run EXCEPT !.pc = pc] /\ (pc = "prepare" => run.old.exists)
    BY <1>6, Zenon DEF DrainQueue
  <2>3. Same /\ run'.pc = pc
    BY <1>0, <2>1, <2>2
  <2>4. Early' => Early
    BY <2>1, <2>2, <2>3 DEF Early
  <2>5. ~troubled' /\ run'.pc \in {"phases", "build"} /\ ~run'.old.exists => CoverSound(export, run'.cover)
    BY <2>1, <2>3, CoverStays
  <2> QED BY <2>1, <2>2, <2>3, <2>4, <2>5, PGoes
<1>7. CASE PrepareMedia
  <2>1. UNCHANGED <<export, disk, crossed, troubled>> /\ run.pc = "prepare"
        /\ run' = [run EXCEPT !.pc = "flatten"]
    BY <1>7 DEF PrepareMedia, editor
  <2>2. Same /\ run'.pc = "flatten"
    BY <1>0, <2>1
  <2>3. ~Early'
    BY <2>2 DEF Early
  <2> QED BY <2>1, <2>2, <2>3, PGoes
<1>8. ASSUME NEW task \in {"weather", "media"}, TaskFails(task) PROVE PInv'
  <2>1. UNCHANGED <<export, disk, crossed>> /\ troubled' /\ run.pc = "phases"
    BY <1>8 DEF TaskFails, Fails, MissesFile, editor
  <2>2. run' = [run EXCEPT !.tasks = [t \in DOMAIN @ |->
                  CASE t = task -> "failed" [] @[t] = "done" -> "done" [] OTHER -> "cancelled"]]
    BY <1>8 DEF TaskFails
  <2>3. Same /\ run'.pc = "phases" /\ run'.tasks.media \in {"failed", "done", "cancelled"}
    BY <1>0, <1>2, <2>1, <2>2
  <2>4. Active /\ Active'
    BY <2>1, <2>3 DEF Active
  <2> QED BY <2>1, <2>3, <2>4 DEF PInv
<1> QED BY <1>3, <1>4, <1>5, <1>6, <1>7, <1>8

LEMMA DirOfExport ==
    ASSUME NEW f \in ExportFiles(export)
    PROVE  f.dir \in TripSteps
<1>1. PICK s \in TripSteps : f \in {[dir |-> s, name |-> h.name, shape |-> h.shape] : h \in Exports[export].steps[s]}
  BY DEF ExportFiles, TripSteps
<1> QED BY <1>1

LEMMA PScan == ASSUME IInv, DInv, FInv, PInv, ScanSteps PROVE PInv'
<1>0. DOMAIN run = {"old", "result", "pc", "scan", "tasks", "layouts", "sentinel", "cover"}
  BY RunFields
<1> DEFINE scan == [s \in TripSteps |-> {f.name : f \in FolderMedia(disk, s)}]
           tasks == [elevations |-> "run", weather |-> "run", media |-> "run"]
           pc == IF NewSteps = {} THEN "prepare" ELSE "phases"
<1>1. /\ run.pc = "scan" /\ run' = [run EXCEPT !.scan = scan, !.pc = pc, !.tasks = tasks]
      /\ UNCHANGED <<export, disk, thread, troubled, crossed>>
  BY DEF ScanSteps, editor
<1>2. tasks.media = "run" /\ pc \in {"prepare", "phases"}
  OBVIOUS
<1>3. ASSUME ExportFiles(export) \subseteq disk, NEW f \in ExportFiles(export)
      PROVE  f.name \in scan[f.dir]
  <2>1. f \in FolderMedia(disk, f.dir) /\ f.dir \in TripSteps
    BY <1>3, DirOfExport DEF FolderMedia
  <2> QED BY <2>1
<1>4. run.layouts = <<>> /\ run.cover = None
  BY <1>1 DEF DInv, PInv
<1> HIDE DEF scan, tasks, pc
<1>5. /\ run'.scan = scan /\ run'.pc = pc /\ run'.tasks = tasks /\ run'.layouts = run.layouts
      /\ run'.cover = run.cover /\ run'.old = run.old
  BY <1>0, <1>1
<1>6. Early /\ Active
  BY <1>1 DEF Early, Active
<1>7. DOMAIN run'.layouts = {}
  BY <1>4, <1>5
<1>8. ~troubled' => NothingLost'
  <2>1. ~troubled' => thread = "none" /\ ExportFiles(export) \subseteq disk
    BY <1>1, <1>6 DEF PInv, NothingLost
  <2>2. CoverSound(export', run'.cover)
    BY <1>4, <1>5 DEF CoverSound
  <2> QED BY <1>1, <1>2, <1>3, <1>5, <1>7, <2>1, <2>2 DEF NothingLost
<1> QED BY <1>1, <1>2, <1>5, <1>6, <1>7, <1>8 DEF PInv

LEMMA PFetch == ASSUME IInv, DInv, FInv, PInv, NEW s \in TripSteps, FetchLayout(s) PROVE PInv'
<1>0. DOMAIN run = {"old", "result", "pc", "scan", "tasks", "layouts", "sentinel", "cover"}
  BY RunFields
<1> DEFINE files == FolderMedia(disk, s)
           layout == BuildStepLayout(files)
           layouts == [t \in DOMAIN run.layouts \cup {s} |-> IF t = s THEN layout ELSE run.layouts[t]]
<1>1. /\ run.pc = "phases" /\ run.tasks.media = "run"
      /\ run' = [run EXCEPT !.layouts = layouts]
      /\ UNCHANGED <<export, disk, thread, troubled, crossed>>
  BY DEF FetchLayout, editor
<1>2. LayoutPlaced(layout) /\ layout.media = files
  <2>1. IsFiniteSet(files) /\ {f.name : f \in files} \subseteq Int
    <3>1. ExportNames(export) \subseteq Int
      BY ExportIs DEF IInv
    <3> QED BY <3>1, FolderIs
  <2> HIDE DEF files
  <2>2. /\ layout.media = files
        /\ {f.name : f \in files} \subseteq SlotsOn(layout.pages) \cup {layout.cover}
    BY <2>1, LayoutIs, PhotosPlaced
  <2> QED BY <2>2 DEF LayoutPlaced
<1> HIDE DEF layout
<1>3. \A t \in DOMAIN layouts : LayoutPlaced(layouts[t])
  BY <1>2 DEF PInv
<1>4. ASSUME ~troubled, NEW f \in ExportFiles(export), f.dir \in DOMAIN layouts
      PROVE  f \in layouts[f.dir].media
  <2>1. Early
    BY <1>1 DEF Early
  <2>2. CASE f.dir = s
    BY <1>2, <1>4, <2>1, <2>2 DEF PInv, NothingLost, FolderMedia
  <2>3. CASE f.dir # s
    BY <1>4, <2>3 DEF PInv, NothingLost
  <2> QED BY <2>2, <2>3
<1> HIDE DEF layouts
<1>5. /\ run'.layouts = layouts /\ run'.scan = run.scan /\ run'.pc = run.pc /\ run'.tasks = run.tasks
      /\ run'.cover = run.cover /\ run'.old = run.old
  BY <1>0, <1>1
<1>6. (Early' <=> Early) /\ (Active' <=> Active)
  BY <1>5 DEF Early, Active
<1>7. ~troubled' => NothingLost'
  BY <1>1, <1>4, <1>5, <1>6 DEF PInv, NothingLost
<1> QED BY <1>1, <1>3, <1>5, <1>6, <1>7 DEF PInv

LEMMA CoverIsPhoto ==
    ASSUME NEW e \in 1 .. Len(Exports), NEW f \in ExportFiles(e), f.name = Exports[e].cover
    PROVE  f.shape \in {"p", "l", "pano"}
<1> DEFINE steps == Exports[e].steps
<1>1. \A s \in DOMAIN steps : \A h \in steps[s] :
         h.name = Exports[e].cover => h.shape \in {"p", "l", "pano"}
  BY ExportsAssumption
<1>2. PICK s \in DOMAIN steps : f \in {[dir |-> s, name |-> h.name, shape |-> h.shape] : h \in steps[s]}
  BY DEF ExportFiles
<1>3. PICK h \in steps[s] : f = [dir |-> s, name |-> h.name, shape |-> h.shape]
  BY <1>2
<1> QED BY <1>1, <1>3

\* The cover of a first run is a photo of the export that is no panorama.
LEMMA CoverChosen ==
    ASSUME IInv, DInv, FInv, PInv, ~troubled, Active, ~run.old.exists,
           NEW cover \in PreparedCovers(Top, Exports[export].cover)
    PROVE  CoverSound(export, cover)
<1>1. db = NoAlbum /\ ~crossed /\ Adding = {}
  BY NothingThere DEF FInv, RunKnows, PInv, Adding
<1>2. \A f \in Top : OfExport(export, f)
  <2>1. \A f \in disk : f.name \notin AddedMedia
    BY <1>1, NothingThere DEF FInv, NoStray
  <2> QED BY <2>1 DEF DInv, DiskSound, Top
<1>3. ASSUME NEW f \in Top, f.shape \in {"p", "l"} PROVE CoverSound(export, f.name)
  BY <1>2, <1>3 DEF OfExport, CoverSound
<1>4. \/ cover = None
      \/ \E f \in Top : f.name = cover /\ f.shape \in {"p", "l"}
      \/ \E f \in Top : f.name = cover /\ cover = Exports[export].cover /\ f.shape # "pano"
  BY DEF PreparedCovers
<1>5. ASSUME NEW f \in Top, f.name = cover, cover = Exports[export].cover, f.shape # "pano"
      PROVE  CoverSound(export, cover)
  <2>1. PICK g \in ExportFiles(export) : g.name = f.name /\ g.shape = f.shape
    BY <1>2 DEF OfExport
  <2>2. g.shape \in {"p", "l", "pano"}
    BY <1>5, <2>1, CoverIsPhoto DEF IInv
  <2> QED BY <1>5, <2>1, <2>2 DEF CoverSound
<1> QED BY <1>3, <1>4, <1>5 DEF CoverSound

LEMMA PFlattenEnds == ASSUME IInv, DInv, FInv, PInv, FlattenEnds PROVE PInv'
<1>0. DOMAIN run = {"old", "result", "pc", "scan", "tasks", "layouts", "sentinel", "cover"}
  BY RunFields
<1>1. UNCHANGED <<export, disk, troubled, crossed>> /\ thread' = "none" /\ thread = "mine"
  BY DEF FlattenEnds, editor
<1>2. run.pc = "flatten" \/ (run.pc = "phases" /\ run.tasks.media = "flatten" /\ ~run.old.exists)
  BY <1>1 DEF DInv, PInv
<1>3. PICK cover \in PreparedCovers(Top, Exports[export].cover) :
         run' = IF run.pc = "phases" THEN [run EXCEPT !.tasks.media = "done", !.cover = cover]
                ELSE [run EXCEPT !.pc = "build", !.cover = cover]
  BY Zenon DEF FlattenEnds
<1>4. run.pc = "phases" => DOMAIN run.tasks = {"elevations", "weather", "media"}
  BY DEF DInv
<1>5. /\ run'.layouts = run.layouts /\ run'.scan = run.scan /\ run'.old = run.old /\ run'.cover = cover
      /\ run.pc = "phases" => run'.pc = "phases" /\ run'.tasks.media = "done"
      /\ run.pc = "flatten" => run'.pc = "build"
  BY <1>0, <1>2, <1>3, <1>4
<1>6. ~Early'
  BY <1>2, <1>5 DEF Early
<1>7. ~troubled' /\ ~run'.old.exists => CoverSound(export, run'.cover)
  BY <1>1, <1>2, <1>5, CoverChosen DEF Active
<1> QED BY <1>1, <1>2, <1>5, <1>6, <1>7, PGoes

\* What a new step has a layout of, it mentions.
LEMMA NewPlaced ==
    ASSUME IInv, DInv, RInv, PInv, ~troubled, run.pc = "build", NEW f \in ExportFiles(export),
           f.dir \in NewSteps
    PROVE  f \in run.layouts[f.dir].media /\ f.name \in LayoutNames(BuiltSteps[f.dir])
<1>1. /\ f.dir \in DOMAIN run.layouts
      /\ (SlotsOn(run.layouts[f.dir].pages) \cup {run.layouts[f.dir].cover}) \ {None, Text} \subseteq
            LayoutNames(BuiltSteps[f.dir])
  BY NewStepsAre
<1>2. f \in run.layouts[f.dir].media /\ LayoutPlaced(run.layouts[f.dir])
  BY <1>1 DEF PInv, NothingLost
<1>3. f.name \in SlotsOn(run.layouts[f.dir].pages) \cup {run.layouts[f.dir].cover}
  BY <1>2 DEF LayoutPlaced
<1>4. f.name \notin {None, Text}
  <2>1. f.name \in Nat \ {None}
    BY ExportIs DEF IInv
  <2> QED BY <2>1 DEF Text
<1> QED BY <1>1, <1>2, <1>3, <1>4

LEMMA FirstComplete ==
    ASSUME IInv, DInv, RInv, FInv, PInv, ~troubled, run.pc = "build", ~run.old.exists
    PROVE  Complete(export, BuildTripObjects)
<1> DEFINE files == UNION {run.layouts[s].media : s \in TripSteps}
           rows == MediaRows(files, {f.name : f \in files})
           result == BuildTripObjects
<1>1. /\ result.steps = BuiltSteps /\ result.media = rows
      /\ result.chapters = <<[steps |-> Ascending(TripSteps), front |-> run.cover, back |-> run.cover]>>
  BY DEF BuildTripObjects
<1> HIDE DEF result
<1>2. NewSteps = TripSteps
  <2>1. run.old = NoAlbum
    BY DEF FInv, RunKnows, Active
  <2> QED BY <2>1 DEF NewSteps, NoAlbum
<1>3. ASSUME NEW f \in ExportFiles(export)
      PROVE  f \in files /\ \E s \in DOMAIN result.steps : f.name \in LayoutNames(result.steps[s])
  <2>1. f.dir \in NewSteps
    BY <1>2, DirOfExport
  <2>2. f \in run.layouts[f.dir].media /\ f.name \in LayoutNames(BuiltSteps[f.dir])
    BY <2>1, NewPlaced
  <2>3. DOMAIN BuiltSteps = NewSteps
    BY DEF BuiltSteps
  <2> QED BY <1>1, <1>2, <2>1, <2>2, <2>3
<1>4. \A f \in files : OfExport(export, f)
  <2>1. ASSUME NEW s \in TripSteps PROVE \A f \in run.layouts[s].media : OfExport(export, f)
    BY <1>2, NewStepsAre
  <2> QED BY <2>1
<1> HIDE DEF files
<1>5. run.cover = None \/ run.cover \in EligibleCovers(result.media)
  <2> SUFFICES ASSUME run.cover # None PROVE run.cover \in EligibleCovers(result.media)
    OBVIOUS
  <2>1. PICK f \in ExportFiles(export) : f.name = run.cover /\ f.shape \in {"p", "l"}
    BY DEF PInv, NothingLost, CoverSound
  <2> DEFINE h == CHOOSE g \in files : g.name = f.name
  <2>2. f \in files
    BY <1>3
  <2>3. h \in files /\ h.name = f.name
    BY <2>2
  <2>4. f.name \in DOMAIN rows /\ rows[f.name] = h.shape
    BY <2>2 DEF MediaRows
  <2> HIDE DEF h, rows
  <2>5. h.shape = f.shape
    BY <1>4, <2>2, <2>3, SameShape
  <2> QED BY <1>1, <2>1, <2>4, <2>5 DEF EligibleCovers
<1>6. CoversSound(result)
  <2>1. /\ DOMAIN result.chapters = {1}
        /\ result.chapters[1].front = run.cover /\ result.chapters[1].back = run.cover
    BY <1>1
  <2> QED BY <1>5, <2>1 DEF CoversSound
<1> QED BY <1>3, <1>6 DEF Complete, result

LEMMA AgainComplete ==
    ASSUME IInv, DInv, RInv, FInv, PInv, ~troubled, run.pc = "build", NEW result \in ReconcileTrip
    PROVE  Complete(export, result)
<1>1. result.steps = KeptSteps /\ CoversSound(result) /\ DOMAIN KeptSteps = TripSteps
  BY ReconciledHas DEF KeptSteps
<1>2. ASSUME NEW f \in ExportFiles(export) PROVE f.name \in LayoutNames(KeptSteps[f.dir])
  <2>1. f.dir \in TripSteps
    BY DirOfExport
  <2>2. CASE f.dir \in NewSteps
    <3>1. KeptSteps[f.dir] = BuiltSteps[f.dir]
      BY <2>1, <2>2 DEF KeptSteps
    <3> QED BY <2>2, <3>1, NewPlaced
  <2>3. CASE f.dir \notin NewSteps
    <3>1. f.name \in OnDisk
      <4>1. f.name \in ExportNames(export) /\ Flattened
        BY DEF ExportNames, Flattened
      <4>2. PICK g \in disk : g.dir = TopDir /\ g.name = f.name
        BY <4>1, ExportAtTop
      <4> QED BY <4>2 DEF OnDisk, Top
    <3>2. f.name \in run.scan[f.dir]
      BY DEF PInv, NothingLost
    <3> QED BY <2>1, <2>3, <3>1, <3>2, OldStepsAre
  <2> QED BY <2>2, <2>3
<1>3. ASSUME NEW f \in ExportFiles(export)
      PROVE  \E s \in DOMAIN result.steps : f.name \in LayoutNames(result.steps[s])
  BY <1>1, <1>2, DirOfExport
<1> QED BY <1>1, <1>3 DEF Complete

LEMMA PBuild == ASSUME IInv, DInv, RInv, FInv, PInv, BuildObjects PROVE PInv'
<1>1. PICK result : /\ result \in (IF run.old.exists THEN ReconcileTrip ELSE {BuildTripObjects})
                    /\ run' = [NoRun EXCEPT !.pc = "save", !.old = run.old, !.result = result]
  BY Zenon DEF BuildObjects
<1>2. UNCHANGED <<export, disk, troubled, crossed>> /\ run.pc = "build"
  BY DEF BuildObjects, editor
<1>3. /\ run'.pc = "save" /\ run'.old = run.old /\ run'.result = result
      /\ run'.layouts = <<>> /\ run'.cover = None
  BY <1>1 DEF NoRun
<1>4. ~troubled => Complete(export, result)
  BY <1>1, <1>2, FirstComplete, AgainComplete
<1>5. ~run.old.exists => ~crossed
  BY <1>2 DEF PInv, Active
<1> QED BY <1>2, <1>3, <1>4, <1>5, PRests

LEMMA PStepKeeps == IInv /\ DInv /\ RInv /\ FInv /\ PInv /\ [Next]_vars => PInv'
<1> SUFFICES ASSUME IInv, DInv, RInv, FInv, PInv, [Next]_vars PROVE PInv'
  OBVIOUS
<1>1. CASE RunStep
  BY <1>1, PEnds, PPhases, PScan, PFetch, PFlattenEnds, PEditor, PBuild DEF RunStep, SaveNew, SaveReupload
<1> QED BY <1>1, PEditor, PEnds, PPhases DEF Next

\* Only the save ends a run's way to it.
LEMMA OnlySaved ==
    ASSUME IInv, [Next]_vars, run.pc = "save", run'.pc = "cleanup"
    PROVE  Saved
<1>0. "pc" \in DOMAIN run /\ "cover" \in DOMAIN run
  BY RunFields
<1>1. run' # run
  OBVIOUS
<1>2. ~(RunStep /\ ~SaveNew /\ ~SaveReupload)
  <2>1. ~FetchElevations /\ ~FetchWeather /\ ~LayoutsDone /\ ~PhasesEnd /\ ~DrainQueue /\ ~PrepareMedia
    BY DEF FetchElevations, FetchWeather, LayoutsDone, PhasesEnd, DrainQueue, PrepareMedia
  <2>2. ~LoadTrip /\ ~ScanSteps /\ ~BuildObjects /\ ~CleanupMetadata /\ \A s \in TripSteps : ~FetchLayout(s)
    BY DEF LoadTrip, ScanSteps, BuildObjects, CleanupMetadata, FetchLayout
  <2>3. ~FlattenFile
    BY <1>1 DEF FlattenFile
  <2>4. ~FlattenEnds
    <3> SUFFICES ASSUME FlattenEnds PROVE FALSE
      OBVIOUS
    <3>1. run' = run \/ \E cover : run' = [run EXCEPT !.pc = "build", !.cover = cover]
      BY Zenon DEF FlattenEnds
    <3>2. \A cover : [run EXCEPT !.pc = "build", !.cover = cover].pc # "cleanup"
      BY <1>0
    <3> QED BY <1>1, <3>1, <3>2
  <2> QED BY <2>1, <2>2, <2>3, <2>4 DEF RunStep
<1>3. ~EditorStep /\ ~OtherStep
  BY <1>1 DEF OtherStep, OtherFlattens, OtherEnds, OtherCleansUp, EditorStep, OpenAlbum, EditLayout, ValidateChapters, UpdateAlbum, StartImport, ImportOne,
              ImportFails, PersistImportedMedia, ImportCompleted, CancelImport
<1>4. ~ImportAgain /\ ~SaveFails /\ ~FlattenFails /\ ~Crash /\ \A task : ~TaskFails(task)
  BY DEF ImportAgain, SaveFails, FlattenFails, Crash, TaskFails, NoRun
<1>5. ~UNCHANGED vars
  BY <1>1 DEF vars
<1> QED BY <1>2, <1>3, <1>4, <1>5 DEF Next, SaveNew, SaveReupload

\* A run saves every file of the export, whatever is edited and added meanwhile and
\* whatever runs before it have done, unless it has failed itself or an overtaken
\* run's thread has moved a file of its folder: each file has a row, and is on a
\* page, unused or the cover of some step; and the covers of the chapters are
\* photos that are no panoramas.
THEOREM PhotosSaved == Spec => EveryPhotoPlaced
<1> DEFINE Inv == IInv /\ DInv /\ RInv /\ FInv /\ PInv
           Placed == (run.pc = "save" /\ run'.pc = "cleanup" /\ ~troubled) =>
              /\ \A f \in ExportFiles(export) :
                    /\ f.name \in DOMAIN db'.media
                    /\ \E s \in DOMAIN db'.steps : f.name \in LayoutNames(db'.steps[s])
              /\ \A i \in DOMAIN db'.chapters :
                    {db'.chapters[i].front, db'.chapters[i].back} \subseteq
                        EligibleCovers(db'.media) \cup {None}
<1>1. Init => PInv
  BY PInitHolds
<1>2. IInv /\ DInv /\ RInv /\ FInv /\ PInv /\ [Next]_vars => PInv'
  BY PStepKeeps
<1>3. Inv /\ [Next]_vars => [Placed]_vars
  <2> SUFFICES ASSUME Inv, [Next]_vars, run.pc = "save", run'.pc = "cleanup", ~troubled
               PROVE  /\ \A f \in ExportFiles(export) :
                            /\ f.name \in DOMAIN db'.media
                            /\ \E s \in DOMAIN db'.steps : f.name \in LayoutNames(db'.steps[s])
                      /\ \A i \in DOMAIN db'.chapters :
                            {db'.chapters[i].front, db'.chapters[i].back} \subseteq
                                EligibleCovers(db'.media) \cup {None}
    OBVIOUS
  <2>1. db' = run.result
    BY OnlySaved DEF Saved
  <2>2. Complete(export, run.result) /\ MediaThere(run.result)
    BY DEF PInv, NothingLost, RInv
  <2>3. \A f \in ExportFiles(export) :
           /\ f.name \in DOMAIN run.result.media
           /\ \E s \in DOMAIN run.result.steps : f.name \in LayoutNames(run.result.steps[s])
    BY ONLY <2>2 DEF Complete, MediaThere
  <2>4. CoversSound(run.result)
    BY <2>2 DEF Complete
  <2> QED BY ONLY <2>1, <2>3, <2>4 DEF CoversSound
<1> QED BY <1>1, <1>2, <1>3, RowsInvariant, PTL DEF Spec, EveryPhotoPlaced

-----------------------------------------------------------------------------
(* What the user made: a reconciled step keeps the slots that have a file *)

\* Of two places one comes first, and it comes first of no other.
LEMMA PlacesInOrder ==
    ASSUME NEW P, P \subseteq Nat \X Nat
    PROVE  /\ \A x, y \in P : x = y \/ Precedes(x, y) \/ Precedes(y, x)
           /\ \A x, y \in P : Precedes(x, y) => x # y /\ ~Precedes(y, x)
<1> SUFFICES ASSUME NEW x \in P, NEW y \in P
             PROVE  /\ x = y \/ Precedes(x, y) \/ Precedes(y, x)
                    /\ Precedes(x, y) => x # y /\ ~Precedes(y, x)
  OBVIOUS
<1>1. /\ x = <<x[1], x[2]>> /\ y = <<y[1], y[2]>>
      /\ x[1] \in Nat /\ x[2] \in Nat /\ y[1] \in Nat /\ y[2] \in Nat
  OBVIOUS
<1> QED BY <1>1 DEF Precedes

LEMMA KeptSame ==
    ASSUME NEW pages \in PagesOn(AnySlot), IdsDiffer(pages), NEW S
    PROVE  SameSlots(KeptPages(pages, S), pages, S)
<1> DEFINE kept == KeptPages(pages, S)
<1>1. pages \in Seq(Seq(AnySlot))
  BY PagesAreSeqs
<1>2. kept \in PagesOn(AnySlot) /\ SlotsOn(kept) \subseteq SlotsOn(pages) \cap S
  BY KeptSlots
<1>3. SlotsOn(pages) \cap S \subseteq SlotsOn(kept)
  BY <1>1, KeptPagesHave
<1>4. PICK from : EmbedsPages(from, kept, pages)
  BY <1>1, KeptPagesAre
<1> HIDE DEF kept
<1>5. kept \in Seq(Seq(AnySlot))
  BY <1>2, PagesAreSeqs
<1>6. Places(pages) \subseteq Nat \X Nat /\ Places(kept) \subseteq Nat \X Nat
  BY <1>1, <1>5, PlacesAre
<1>7. ASSUME NEW x \in Places(kept), NEW u \in Places(pages), At(kept, x) = At(pages, u)
      PROVE  u = from[x]
  BY <1>4, <1>7 DEF EmbedsPages, IdsDiffer
<1>8. ASSUME NEW x \in Places(kept), NEW y \in Places(kept)
      PROVE  Precedes(x, y) <=> Precedes(from[x], from[y])
  <2>1. /\ from[x] \in Places(pages) /\ from[y] \in Places(pages)
        /\ Precedes(x, y) => Precedes(from[x], from[y])
        /\ Precedes(y, x) => Precedes(from[y], from[x])
    BY <1>4 DEF EmbedsPages
  <2>2. ASSUME Precedes(from[x], from[y]) PROVE Precedes(x, y)
    <3>1. from[x] # from[y] /\ ~Precedes(from[y], from[x])
      BY <1>6, <2>1, <2>2, PlacesInOrder
    <3>2. x = y \/ Precedes(x, y) \/ Precedes(y, x)
      BY <1>6, PlacesInOrder
    <3> QED BY <2>1, <3>1, <3>2
  <2> QED BY <2>1, <2>2
<1>9. \A x, y \in Places(kept), u, v \in Places(pages) :
         At(kept, x) = At(pages, u) /\ At(kept, y) = At(pages, v) => (Precedes(x, y) <=> Precedes(u, v))
  BY <1>7, <1>8
<1> QED BY <1>2, <1>3, <1>9 DEF SameSlots, kept

\* The slots that a folder has the media of, and the texts.
WithMedia(pages, names) == {slot \in SlotsOn(pages) : slot.name \in names \cup {Text}}

LEMMA ReconciledPages ==
    ASSUME NEW step, Readable(step), NEW scanned, NEW onDisk, NEW rows
    PROVE  SameSlots(ReconcileStep(step, scanned, onDisk, rows).pages, step.pages,
                     WithMedia(step.pages, onDisk))
<1>1. step \in AnyStep /\ step.pages \in PagesOn(AnySlot) /\ IdsDiffer(step.pages)
  BY StepIs DEF Readable
<1>2. DOMAIN step = {"pages", "unused", "cover"}
  BY <1>1 DEF AnyStep
<1>3. ReconcileStep(step, scanned, onDisk, rows).pages =
         KeptPages(step.pages, WithMedia(step.pages, onDisk))
  BY <1>2 DEF ReconcileStep, WithMedia
<1> QED BY <1>1, <1>3, KeptSame

\* Chapters may only become longer.
Longer(chapters, all) ==
    \A i \in DOMAIN chapters : i \in DOMAIN all /\ IsPrefix(chapters[i].steps, all[i].steps)

LEMMA PrefixOf ==
    ASSUME NEW s \in Seq(Int), NEW t \in Seq(Int)
    PROVE  IsPrefix(s, s) /\ IsPrefix(s, s \o t)
<1>1. Len(s) \in Nat /\ Len(t) \in Nat /\ Len(s \o t) = Len(s) + Len(t)
  OBVIOUS
<1>2. SubSeq(s, 1, Len(s)) = SubSeq(s \o t, 1, Len(s))
  OBVIOUS
<1> QED BY <1>1, <1>2 DEF IsPrefix

LEMMA ChaptersLonger ==
    ASSUME NEW chapters, IsChapters(chapters), NEW new, new \subseteq Int, IsFiniteSet(new),
           NEW eligible, NEW fallback
    PROVE  Longer(chapters, FixAlbumCovers(AssignNewSteps(chapters, new), eligible, fallback))
<1> DEFINE missing == Ascending(new \ Assigned(chapters))
           all == AssignNewSteps(chapters, new)
           n == Len(chapters)
<1>1. missing \in Seq(Int)
  <2>1. new \ Assigned(chapters) \subseteq Int /\ IsFiniteSet(new \ Assigned(chapters))
    BY FS_Subset
  <2> QED BY <2>1, AscendingIs
<1>2. DOMAIN chapters = 1 .. n /\ \A i \in DOMAIN chapters : HasSteps(chapters[i])
  BY DEF IsChapters
<1>3. all = IF chapters = <<>> THEN chapters ELSE [chapters EXCEPT ![n].steps = @ \o missing]
  BY DEF AssignNewSteps
<1> HIDE DEF missing, all
<1>4. ASSUME NEW i \in DOMAIN chapters
      PROVE  i \in DOMAIN all /\ IsPrefix(chapters[i].steps, all[i].steps)
  <2>1. "steps" \in DOMAIN chapters[i] /\ chapters[i].steps \in Seq(Int)
    BY <1>2 DEF HasSteps
  <2>2. /\ i \in DOMAIN all
        /\ all[i].steps = chapters[i].steps \/ all[i].steps = chapters[i].steps \o missing
    BY <1>2, <1>3, <2>1
  <2> QED BY <1>1, <2>1, <2>2, PrefixOf
<1>5. \A i \in DOMAIN all :
         /\ i \in DOMAIN FixAlbumCovers(all, eligible, fallback)
         /\ FixAlbumCovers(all, eligible, fallback)[i].steps = all[i].steps
  BY DEF FixAlbumCovers
<1> QED BY <1>4, <1>5 DEF Longer, all

-----------------------------------------------------------------------------
(* What the user made: the run *)

\* The album b keeps what the album a says, as far as there are files.
Keeps(a, b, names) ==
    /\ \A s \in DOMAIN a.steps \cap DOMAIN b.steps :
          SameSlots(b.steps[s].pages, a.steps[s].pages, WithMedia(a.steps[s].pages, names))
    /\ Longer(a.chapters, b.chapters)

EInv ==
    ~crossed => /\ Active => run.old = db
                /\ run.pc = "save" => Keeps(run.old, run.result, OnDisk)

LEMMA NothingKept == ASSUME NEW b, NEW names PROVE Keeps(NoAlbum, b, names)
<1>1. NoAlbum.steps = <<>> /\ NoAlbum.chapters = <<>> /\ DOMAIN <<>> = {}
  BY DEF NoAlbum
<1> QED BY <1>1 DEF Keeps, Longer

\* The same media of the album are there.
LEMMA KeepsStill ==
    ASSUME NEW a, MediaThere(a), NEW b, NEW old, NEW new, Keeps(a, b, old),
           \A n \in DOMAIN a.media : n \in old <=> n \in new
    PROVE  Keeps(a, b, new)
<1>1. ASSUME NEW s \in DOMAIN a.steps
      PROVE  WithMedia(a.steps[s].pages, new) = WithMedia(a.steps[s].pages, old)
  <2>1. ASSUME NEW slot \in SlotsOn(a.steps[s].pages), slot.name # Text
        PROVE  slot.name \in DOMAIN a.media
    BY <2>1 DEF MediaThere, LayoutNames
  <2> QED BY <2>1 DEF WithMedia
<1> QED BY <1>1 DEF Keeps

LEMMA EBuild == ASSUME IInv, DInv, RInv, FInv, EInv, BuildObjects PROVE EInv'
<1>1. PICK result : /\ result \in (IF run.old.exists THEN ReconcileTrip ELSE {BuildTripObjects})
                    /\ run' = [NoRun EXCEPT !.pc = "save", !.old = run.old, !.result = result]
  BY Zenon DEF BuildObjects
<1>2. UNCHANGED <<db, disk, crossed>> /\ run.pc = "build" /\ Active
  BY DEF BuildObjects, Active
<1>3. run'.pc = "save" /\ run'.old = run.old /\ run'.result = result
  BY <1>1 DEF NoRun
<1>4. Keeps(run.old, result, OnDisk)
  <2>1. CASE ~run.old.exists
    <3>1. run.old = NoAlbum
      BY <1>2, <2>1 DEF FInv, RunKnows
    <3> QED BY <3>1, NothingKept
  <2>2. CASE run.old.exists
    <3>1. result \in ReconcileTrip
      BY <1>1, <2>2
    <3>2. result.steps = KeptSteps /\ DOMAIN KeptSteps = TripSteps
      BY <3>1, ReconciledHas DEF KeptSteps
    <3>3. ASSUME NEW s \in DOMAIN run.old.steps \cap DOMAIN result.steps
          PROVE  SameSlots(result.steps[s].pages, run.old.steps[s].pages,
                           WithMedia(run.old.steps[s].pages, OnDisk))
      <4>1. s \in TripSteps /\ s \notin NewSteps /\ Readable(run.old.steps[s])
        BY <3>2, <3>3 DEF NewSteps, RInv, AlbumReadable
      <4>2. KeptSteps[s] = ReconcileStep(run.old.steps[s], run.scan[s], OnDisk, run.old.media)
        BY <4>1 DEF KeptSteps
      <4> QED BY <3>2, <4>1, <4>2, ReconciledPages
    <3>4. \E eligible, fallback :
             result.chapters = FixAlbumCovers(AssignNewSteps(run.old.chapters, NewSteps), eligible, fallback)
      BY <3>1, ReconciledHas
    <3>5. Longer(run.old.chapters, result.chapters)
      <4>1. NewSteps \subseteq Int /\ IsFiniteSet(NewSteps)
        <5>1. TripSteps \subseteq Int /\ IsFiniteSet(TripSteps) /\ NewSteps \in SUBSET TripSteps
          BY TripStepsAre DEF NewSteps
        <5> QED BY <5>1, FS_Subset
      <4>2. IsChapters(run.old.chapters)
        BY DEF IInv, RunSound, AlbumSound
      <4> QED BY <3>4, <4>1, <4>2, ChaptersLonger
    <3> QED BY <3>3, <3>5 DEF Keeps
  <2> QED BY <2>1, <2>2
<1>5. OnDisk' = OnDisk
  BY <1>2 DEF OnDisk, Top
<1> QED BY <1>2, <1>3, <1>4, <1>5 DEF EInv

\* The run goes on, or is over.
LEMMA EGoes ==
    ASSUME EInv, UNCHANGED <<db, crossed>>, run'.old = run.old,
           Active' => Active /\ run'.pc # "save"
    PROVE  EInv'
BY DEF EInv, Active

\* The run rests, and so do the rows, as far as it has read them.
LEMMA EStays ==
    ASSUME RInv, EInv, UNCHANGED run, crossed => crossed', ~crossed' /\ Active => db' = db,
           ~crossed' /\ run.pc = "save" =>
              run.old = NoAlbum \/ \A n \in DOMAIN run.old.media : n \in OnDisk <=> n \in OnDisk'
    PROVE  EInv'
<1> SUFFICES ASSUME ~crossed' PROVE EInv'
  BY DEF EInv
<1>1. ~crossed /\ (Active' <=> Active)
  BY DEF Active
<1>2. Active' => run'.old = db'
  BY <1>1 DEF EInv
<1>3. ASSUME run.pc = "save" PROVE Keeps(run.old, run.result, OnDisk')
  <2>1. Keeps(run.old, run.result, OnDisk) /\ MediaThere(run.old)
    BY <1>1, <1>3 DEF EInv, RInv
  <2>2. CASE run.old = NoAlbum
    BY <2>2, NothingKept
  <2>3. CASE \A n \in DOMAIN run.old.media : n \in OnDisk <=> n \in OnDisk'
    BY <2>1, <2>3, KeepsStill
  <2> QED BY <1>3, <2>2, <2>3
<1> QED BY <1>2, <1>3 DEF EInv

LEMMA EEnds ==
    ASSUME IInv, EInv,
           \/ LoadTrip \/ ImportAgain \/ SaveFails \/ FlattenFails \/ CleanupMetadata \/ Crash \/ Saved
    PROVE  EInv'
<1>1. CASE LoadTrip
  <2>1. db' = db /\ run'.pc \in {"scan", "failed"} /\ (run'.pc = "scan" => run'.old = db)
    BY <1>1 DEF LoadTrip, NoRun
  <2> QED BY <2>1 DEF EInv, Active
<1>2. CASE ImportAgain \/ SaveFails \/ FlattenFails \/ CleanupMetadata \/ Crash \/ Saved
  <2>1. run'.pc \in {"idle", "failed", "done", "cleanup"}
    BY <1>2 DEF ImportAgain, SaveFails, FlattenFails, CleanupMetadata, Crash, Saved, NoRun
  <2> QED BY <2>1 DEF EInv, Active
<1> QED BY <1>1, <1>2

LEMMA EPhases ==
    ASSUME IInv, EInv,
           \/ ScanSteps \/ FetchElevations \/ FetchWeather \/ LayoutsDone \/ PhasesEnd \/ DrainQueue
           \/ PrepareMedia \/ (\E s \in TripSteps : FetchLayout(s))
           \/ (\E task \in {"weather", "media"} : TaskFails(task))
    PROVE  EInv'
<1>0. DOMAIN run = {"old", "result", "pc", "scan", "tasks", "layouts", "sentinel", "cover"}
  BY RunFields
<1>1. CASE ScanSteps
  <2>1. UNCHANGED <<db, crossed>> /\ run.pc = "scan"
    BY <1>1 DEF ScanSteps
  <2>2. run'.old = run.old /\ run'.pc # "save"
    BY <1>0, <1>1 DEF ScanSteps
  <2> QED BY <2>1, <2>2, EGoes DEF Active
<1>2. CASE FetchElevations \/ FetchWeather \/ PhasesEnd \/ DrainQueue \/ PrepareMedia
  <2>1. UNCHANGED <<db, crossed>> /\ run.pc \in {"phases", "prepare"}
    BY <1>2 DEF FetchElevations, FetchWeather, PhasesEnd, DrainQueue, PrepareMedia
  <2>2. run'.old = run.old /\ run'.pc # "save"
    BY <1>0, <1>2, <2>1 DEF FetchElevations, FetchWeather, PhasesEnd, DrainQueue, PrepareMedia
  <2> QED BY <2>1, <2>2, EGoes DEF Active
<1>3. CASE LayoutsDone
  <2>1. UNCHANGED <<db, crossed>> /\ run.pc = "phases"
    BY <1>3 DEF LayoutsDone
  <2>2. run'.old = run.old /\ run'.pc # "save"
    BY <1>0, <1>3, <2>1 DEF LayoutsDone
  <2> QED BY <2>1, <2>2, EGoes DEF Active
<1>4. ASSUME NEW s \in TripSteps, FetchLayout(s) PROVE EInv'
  <2>1. UNCHANGED <<db, crossed>> /\ run.pc = "phases"
    BY <1>4 DEF FetchLayout
  <2>2. run'.old = run.old /\ run'.pc # "save"
    BY <1>0, <1>4, <2>1 DEF FetchLayout
  <2> QED BY <2>1, <2>2, EGoes DEF Active
<1>5. ASSUME NEW task \in {"weather", "media"}, TaskFails(task) PROVE EInv'
  <2>1. UNCHANGED <<db, crossed>> /\ run.pc = "phases"
    BY <1>5 DEF TaskFails
  <2>2. run'.old = run.old /\ run'.pc # "save"
    BY <1>0, <1>5, <2>1 DEF TaskFails
  <2> QED BY <2>1, <2>2, EGoes DEF Active
<1> QED BY <1>1, <1>2, <1>3, <1>4, <1>5

\* The folder is flat before the run builds the rows.
LEMMA EFlatten ==
    ASSUME IInv, DInv, RInv, EInv, FlattenFile \/ OtherStep \/ FlattenEnds
    PROVE  EInv'
<1>0. DOMAIN run = {"old", "result", "pc", "scan", "tasks", "layouts", "sentinel", "cover"}
  BY RunFields
<1>1. CASE FlattenFile \/ OtherFlattens
  <2>1. UNCHANGED <<db, crossed, run>> /\ disk \ Top # {}
    BY <1>1 DEF FlattenFile, OtherFlattens, MoveFile
  <2>2. run.pc # "save"
    BY <2>1 DEF DInv, Flattened, Top
  <2> QED BY <2>1, <2>2, EStays
<1>2. CASE OtherEnds \/ OtherCleansUp
  <2>1. UNCHANGED <<db, crossed, run, disk>>
    BY <1>2 DEF OtherEnds, OtherCleansUp
  <2>2. OnDisk' = OnDisk
    BY <2>1 DEF OnDisk, Top
  <2> QED BY <2>1, <2>2, EStays
<1>3. CASE FlattenEnds
  <2>1. run.pc \in {"flatten", "phases"} /\ UNCHANGED <<db, crossed>>
    BY <1>3 DEF DInv, FlattenEnds
  <2>2. \E cover : run' = IF run.pc = "phases" THEN [run EXCEPT !.tasks.media = "done", !.cover = cover]
                          ELSE [run EXCEPT !.pc = "build", !.cover = cover]
    BY <1>3, Zenon DEF FlattenEnds
  <2>3. run'.old = run.old /\ run'.pc # "save"
    BY <1>0, <2>1, <2>2
  <2> QED BY <2>1, <2>3, EGoes DEF Active
<1> QED BY <1>1, <1>2, <1>3 DEF OtherStep

\* An album that a run has found has rows; without one nobody edits.
LEMMA NoRows ==
    ASSUME FInv, Active, ~run.old.exists
    PROVE  run.old = NoAlbum /\ DOMAIN db.steps = {} /\ patch = <<>> /\ add = NoAdd
BY NothingThere DEF FInv, RunKnows, NoAlbum

LEMMA EEditor ==
    ASSUME IInv, DInv, RInv, FInv, EInv, EditorStep \/ UNCHANGED vars
    PROVE  EInv'
<1>1. CASE UNCHANGED vars \/ OpenAlbum \/ ValidateChapters \/ StartImport \/ ImportCompleted
  <2>1. UNCHANGED <<db, run, crossed, disk>>
    BY <1>1 DEF vars, OpenAlbum, ValidateChapters, StartImport, ImportCompleted
  <2>2. OnDisk' = OnDisk
    BY <2>1 DEF OnDisk, Top
  <2> QED BY <2>1, <2>2, EStays
<1>2. CASE EditLayout \/ UpdateAlbum
  <2>1. UNCHANGED <<run, disk>> /\ crossed' = (crossed \/ run.old.exists)
        /\ (DOMAIN db.steps # {} \/ patch # <<>>)
    BY <1>2 DEF EditLayout, Edited, UpdateAlbum
  <2>2. Active => run.old.exists
    BY <2>1, NoRows
  <2>3. OnDisk' = OnDisk
    BY <2>1 DEF OnDisk, Top
  <2> QED BY <2>1, <2>2, <2>3, EStays
<1>3. ASSUME disk' = {f \in disk : f.name \notin ToSet(add.written)},
             NEW n \in DOMAIN run.old.media, add.pc = "process"
      PROVE  n \in OnDisk <=> n \in OnDisk'
  <2>1. n \notin ToSet(add.written)
    BY <1>3 DEF FInv, Adding
  <2> QED BY <1>3, <2>1 DEF OnDisk, Top
<1>4. CASE ImportOne
  <2>1. UNCHANGED <<db, run, crossed>>
    BY <1>4 DEF ImportOne
  <2>2. PICK name \in FreshNames : disk' = disk \cup {[dir |-> TopDir, name |-> name, shape |-> "l"]}
    <3>1. (CHOOSE n \in FreshNames : TRUE) \in FreshNames
      BY <1>4 DEF ImportOne
    <3> QED BY <1>4, <3>1 DEF ImportOne
  <2>3. name \notin DOMAIN run.old.media
    BY DEF FreshNames
  <2> DEFINE file == [dir |-> TopDir, name |-> name, shape |-> "l"]
  <2>4. file.dir = TopDir /\ file.name = name
    OBVIOUS
  <2>5. disk' = disk \cup {file}
    BY <2>2
  <2> HIDE DEF file
  <2>6. \A n : n \in OnDisk' <=> n \in OnDisk \/ n = name
    BY <2>4, <2>5 DEF OnDisk, Top
  <2> QED BY <2>1, <2>3, <2>6, EStays
<1>5. CASE ImportFails
  <2>1. UNCHANGED <<db, run, crossed>> /\ add.pc = "process"
        /\ disk' = {f \in disk : f.name \notin ToSet(add.written)}
    BY <1>5 DEF ImportFails, CleanupImported
  <2> QED BY <1>3, <2>1, EStays
<1>6. CASE PersistImportedMedia /\ add.step \in DOMAIN db.steps
  <2>1. UNCHANGED <<run, disk>> /\ crossed' = (crossed \/ run.old.exists) /\ DOMAIN db.steps # {}
    BY <1>6 DEF PersistImportedMedia
  <2>2. Active => run.old.exists
    BY <2>1, NoRows
  <2>3. OnDisk' = OnDisk
    BY <2>1 DEF OnDisk, Top
  <2> QED BY <2>1, <2>2, <2>3, EStays
<1>7. CASE PersistImportedMedia /\ add.step \notin DOMAIN db.steps
  <2>1. UNCHANGED <<db, run, crossed>> /\ add.pc = "process"
        /\ disk' = {f \in disk : f.name \notin ToSet(add.written)}
    BY <1>7 DEF PersistImportedMedia, CleanupImported
  <2> QED BY <1>3, <2>1, EStays
<1>8. CASE CancelImport
  <2>1. UNCHANGED <<db, run>> /\ crossed' = (crossed \/ (add.pc = "committed" /\ run.old.exists))
        /\ disk' = {f \in disk : f.name \notin ToSet(add.written)} /\ add.pc # "none"
    BY <1>8 DEF CancelImport, CleanupImported
  <2>2. add.pc \in {"process", "committed"}
    BY <2>1 DEF FInv
  <2>3. ASSUME ~crossed', run.pc = "save", add.pc = "committed" PROVE run.old = NoAlbum
    BY <2>1, <2>3, NoRows DEF Active
  <2> QED BY <1>3, <2>1, <2>2, <2>3, EStays
<1> QED BY <1>1, <1>2, <1>4, <1>5, <1>6, <1>7, <1>8 DEF EditorStep

LEMMA EStepKeeps == IInv /\ DInv /\ RInv /\ FInv /\ EInv /\ [Next]_vars => EInv'
<1> SUFFICES ASSUME IInv, DInv, RInv, FInv, EInv, [Next]_vars PROVE EInv'
  OBVIOUS
<1>1. CASE RunStep
  BY <1>1, EEnds, EPhases, EFlatten, EBuild DEF RunStep, SaveNew, SaveReupload
<1> QED BY <1>1, EEnds, EPhases, EFlatten, EEditor DEF Next

LEMMA EInitHolds == Init => EInv
<1> SUFFICES ASSUME Init PROVE EInv
  OBVIOUS
<1>1. run.pc = "idle"
  BY NoRunIs DEF Init
<1> QED BY <1>1 DEF EInv, Active

\* A run that no edit crosses saves what the user made: of a step that is still in
\* the export it keeps each text and each photo with a file, in their order, and
\* the chapters keep their steps and may only get more.
THEOREM EditsKept == Spec => EditsSurvive
<1> DEFINE Inv == IInv /\ DInv /\ RInv /\ FInv /\ EInv
           there(pages) == {slot \in SlotsOn(pages) : slot.name = Text \/ \E f \in Top : f.name = slot.name}
           Unchanged == (run.pc = "save" /\ run'.pc = "cleanup" /\ ~crossed) =>
              /\ \A s \in DOMAIN db.steps \cap DOMAIN db'.steps :
                    SameSlots(db'.steps[s].pages, db.steps[s].pages, there(db.steps[s].pages))
              /\ \A i \in DOMAIN db.chapters : IsPrefix(db.chapters[i].steps, db'.chapters[i].steps)
<1>1. Init => EInv
  BY EInitHolds
<1>2. IInv /\ DInv /\ RInv /\ FInv /\ EInv /\ [Next]_vars => EInv'
  BY EStepKeeps
<1>3. Inv /\ [Next]_vars => [Unchanged]_vars
  <2> SUFFICES ASSUME Inv, [Next]_vars, run.pc = "save", run'.pc = "cleanup", ~crossed
               PROVE  Unchanged
    BY DEF Unchanged
  <2>1. db' = run.result
    BY OnlySaved DEF Saved
  <2>2. run.old = db /\ Keeps(db, run.result, OnDisk)
    BY DEF EInv, Active
  <2>3. \A pages : there(pages) = WithMedia(pages, OnDisk)
    BY DEF WithMedia, OnDisk
  <2> HIDE DEF there
  <2> QED BY ONLY <2>1, <2>2, <2>3 DEF Keeps, Longer, Unchanged
<1> QED BY <1>1, <1>2, <1>3, RowsInvariant, PTL DEF Spec, EditsSurvive
=============================================================================
