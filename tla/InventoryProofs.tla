-------------------------- MODULE InventoryProofs ---------------------------
(***************************************************************************)
(* Theorems about InventoryFile and InventoryRows, for every number of     *)
(* scans that export to one path and whatever each of them found.          *)
(*                                                                         *)
(* The lemmas on the order are about the place of a result: the number of  *)
(* earlier ones, plus one.  No two results have one place, so each place   *)
(* is taken and SortedResults is a permutation; and without two groups of  *)
(* one identity the place of a result depends on the results, not on the   *)
(* order in which they were found.                                         *)
(***************************************************************************)
EXTENDS InventoryFile, Positions, SequenceTheorems, TLAPS

-----------------------------------------------------------------------------
(***************************************************************************)
(* The verdict of a result and its columns.                                *)
(***************************************************************************)

\* What is shown of a result that verified comes from the first answer.
LEMMA Verdicts ==
  ASSUME NEW found, IsOutcome(found), NEW g \in DOMAIN found.groups
  PROVE  LET r == Results(found)[g]
         IN  /\ r.verdict.status \in Statuses
             /\ r.verdict.status = Verified <=> HasMatch(r)
             /\ HasMatch(r) => Record(r).model \in Models \ {NoModel}
             /\ r.group = found.groups[g]
<1> DEFINE group == found.groups[g]
           looked == ArtifactLookups(group, found.lookups)
           r == Results(found)[g]
<1>1. r.group = group /\ r.verdict = ClassifyGroup(group, found.lookups)
  BY DEF Results, Result
<1>2. group.digests \in Seq({group.digests[i] : i \in DOMAIN group.digests})
  BY DEF IsOutcome
<1>3. ASSUME SameModel(looked)
      PROVE  /\ looked[1].claims # NoClaims
             /\ looked[1].claims.model \in Models \ {NoModel}
  <2>1. looked # <<>> /\ \A i \in DOMAIN looked : HasRecord(looked[i])
    BY <1>3 DEF SameModel, AllVerified
  <2>2. DOMAIN looked = 1 .. Len(group.digests) /\ Len(group.digests) \in Nat
    BY <1>2, LenProperties DEF ArtifactLookups
  <2>3. 1 \in DOMAIN looked
    <3> SUFFICES ASSUME Len(group.digests) = 0 PROVE FALSE
      BY <2>2
    <3>1. group.digests = <<>>
      BY <1>2, EmptySeq
    <3> QED BY <2>1, <3>1 DEF ArtifactLookups
  <2>4. looked[1] = ArtifactLookup(group.digests[1], found.lookups)
    BY <2>3 DEF ArtifactLookups
  <2>5. looked[1].claims # NoClaims
    BY <2>1, <2>3 DEF HasRecord
  <2>6. /\ group.digests[1] \in DOMAIN found.lookups
        /\ looked[1] = found.lookups[group.digests[1]]
    BY <2>4, <2>5 DEF ArtifactLookup, LookupError, LookupResult
  <2>7. looked[1].claims.model \in Models
    BY <2>5, <2>6 DEF IsOutcome
  <2> QED BY <1>3, <2>5, <2>7 DEF SameModel
<1>4. r.verdict.status \in Statuses
  BY <1>1 DEF ClassifyGroup, Statuses
<1>5. r.verdict.status = Verified <=> SameModel(looked)
  BY <1>1 DEF ClassifyGroup, Verified, UnknownVariant, NotEnrolled
<1>6. Record(r) = IF SameModel(looked) THEN looked[1].claims ELSE NoClaims
  BY <1>1 DEF ClassifyGroup, Record, Verified, UnknownVariant, NotEnrolled
<1>7. HasMatch(r) => Record(r).model \in Models \ {NoModel}
  BY <1>3, <1>6 DEF HasMatch
<1>8. r.verdict.status = Verified <=> HasMatch(r)
  BY <1>3, <1>5, <1>6 DEF HasMatch
<1>9. r.group = found.groups[g]
  BY <1>1
<1> QED BY <1>4, <1>7, <1>8, <1>9, Zenon

\* The columns of the row of any result tell one story.
LEMMA OneRow ==
  ASSUME NEW found, IsOutcome(found), NEW g \in DOMAIN found.groups, NEW paths
  PROVE  RowTellsOneStory(RowFor(Results(found)[g], found.roots, paths))
<1> DEFINE r == Results(found)[g]
           row == RowFor(r, found.roots, paths)
<1>0. found.groups[g].named <=> found.groups[g].claim # NoModel
  BY DEF IsOutcome
<1>1. /\ r.verdict.status \in Statuses
      /\ r.verdict.status = Verified <=> HasMatch(r)
      /\ HasMatch(r) => Record(r).model # NoModel
      /\ r.group = found.groups[g]
  BY Verdicts
<1>2. /\ row.status = r.verdict.status
      /\ row.match = RegistryMatch(r.verdict.status)
      /\ row.idSource = ModelIdSource(r) /\ row.modelId = ModelId(r)
      /\ row.coverage = Coverage(r) /\ row.deep = DeepApplicable(r)
      /\ row.bound = IF r.verdict.status = Verified /\ HasMatch(r)
                     THEN BoundDigest(Record(r)) ELSE NoDigest
  BY DEF RowFor
<1> HIDE DEF r, row
<1> USE DEF Statuses, Verified, UnknownVariant, NotEnrolled
<1>3. row.status = Verified <=> row.match = "exact"
  BY <1>1, <1>2 DEF RegistryMatch
<1>4. /\ row.status = Verified <=> row.idSource = "registry_record"
      /\ row.status = Verified => row.modelId # NoModel
      /\ row.idSource = "none" <=> row.modelId = NoModel
  BY <1>0, <1>1, <1>2 DEF ModelIdSource, ModelId
<1>5. row.status = Verified <=> row.coverage # "unknown_unverified"
  BY <1>1, <1>2 DEF Coverage
<1>6. row.bound # NoDigest => row.status = Verified
  BY <1>2
<1>7. row.deep => /\ row.bound # NoDigest
                  /\ row.coverage \in {"covered_by_verified_container",
                                       "opaque_structural_evidence_binding"}
  BY <1>2 DEF DeepApplicable, IsLaneA, BoundDigest, Coverage
<1>8. row.coverage = "opaque_structural_evidence_binding" => row.deep
  BY <1>2 DEF DeepApplicable, Coverage
<1>9. RowTellsOneStory(row)
  BY <1>3, <1>4, <1>5, <1>6, <1>7, <1>8 DEF RowTellsOneStory
<1> QED BY <1>9 DEF row, r

-----------------------------------------------------------------------------
(***************************************************************************)
(* The order.                                                              *)
(***************************************************************************)

\* The parts of a sort key can be compared.
Comparable(r) ==
  /\ Rank(r.group.source) \in Nat
  /\ ModelRank(ModelId(r)) \in Nat
  /\ r.group.id \in Nat

\* Every result has a sort key of numbers.
LEMMA ResultsAreComparable ==
  ASSUME NEW found, IsOutcome(found), NEW g \in DOMAIN found.groups
  PROVE  Comparable(Results(found)[g])
<1> DEFINE r == Results(found)[g]
<1>1. /\ r.group = found.groups[g]
      /\ HasMatch(r) => Record(r).model \in Models
  BY Verdicts
<1>2. r.group.source \in Sources /\ r.group.id \in Nat /\ r.group.claim \in Models
  BY <1>1 DEF IsOutcome
<1>3. ModelId(r) \in Models
  BY <1>1, <1>2 DEF ModelId, Models
<1>4. ModelRank(ModelId(r)) \in Nat
  BY <1>3 DEF ModelRank, Models
<1>5. Rank(r.group.source) \in Nat
  BY <1>2 DEF Rank, Sources
<1> QED BY <1>2, <1>4, <1>5 DEF Comparable

\* Results whose keys are numbers are put before each other as keys are.
LEMMA KeyOrder ==
  ASSUME NEW r, NEW s, Comparable(r), Comparable(s)
  PROVE  LET r1 == Rank(r.group.source)    s1 == Rank(s.group.source)
             r2 == ModelRank(ModelId(r))   s2 == ModelRank(ModelId(s))
         IN  SortsBefore(r, s) <=>
               \/ r1 < s1
               \/ r1 = s1 /\ r2 < s2
               \/ r1 = s1 /\ r2 = s2 /\ r.group.id < s.group.id
BY DEF SortsBefore, SortKey, Comparable

\* A list of results that can be compared.
Sortable(rs, n) ==
  /\ n \in Nat /\ DOMAIN rs = 1 .. n
  /\ \A i \in 1 .. n : Comparable(rs[i])

\* Of two results one is earlier, and who is earlier than an earlier one is.
LEMMA EarlierIsAnOrder ==
  ASSUME NEW rs, NEW n, Sortable(rs, n)
  PROVE  /\ \A i \in 1 .. n : ~Earlier(rs, i, i)
         /\ \A i, j \in 1 .. n : i # j => Earlier(rs, i, j) \/ Earlier(rs, j, i)
         /\ \A i, j, k \in 1 .. n :
              Earlier(rs, i, j) /\ Earlier(rs, j, k) => Earlier(rs, i, k)
<1> DEFINE a(i) == Rank(rs[i].group.source)
           b(i) == ModelRank(ModelId(rs[i]))
           c(i) == rs[i].group.id
<1>1. \A i \in 1 .. n : a(i) \in Nat /\ b(i) \in Nat /\ c(i) \in Nat
  BY DEF Sortable, Comparable
<1>2. \A i, j \in 1 .. n :
        SortsBefore(rs[i], rs[j]) <=> \/ a(i) < a(j)
                                      \/ a(i) = a(j) /\ b(i) < b(j)
                                      \/ a(i) = a(j) /\ b(i) = b(j) /\ c(i) < c(j)
  BY KeyOrder DEF Sortable
<1> HIDE DEF a, b, c
<1>3. \A i, j \in 1 .. n :
        Earlier(rs, i, j) <=>
          \/ a(i) < a(j)
          \/ a(i) = a(j) /\ b(i) < b(j)
          \/ a(i) = a(j) /\ b(i) = b(j) /\ c(i) < c(j)
          \/ a(i) = a(j) /\ b(i) = b(j) /\ c(i) = c(j) /\ i < j
  BY <1>1, <1>2 DEF Earlier
<1>4. n \in Nat
  BY DEF Sortable
<1>5. \A i \in 1 .. n : ~Earlier(rs, i, i)
  BY <1>1, <1>3, <1>4
<1>6. \A i, j \in 1 .. n : i # j => Earlier(rs, i, j) \/ Earlier(rs, j, i)
  BY <1>1, <1>3, <1>4
<1>7. \A i, j, k \in 1 .. n : Earlier(rs, i, j) /\ Earlier(rs, j, k) => Earlier(rs, i, k)
  BY <1>1, <1>3, <1>4
<1> QED BY <1>5, <1>6, <1>7

\* No two results have one place, and each place is taken.
LEMMA EachPlaceIsTaken ==
  ASSUME NEW rs, NEW n, Sortable(rs, n)
  PROVE  /\ \A i, j \in 1 .. n : Place(rs, i) = Place(rs, j) => i = j
         /\ \A k \in 1 .. n : \E i \in 1 .. n : Place(rs, i) = k
<1> DEFINE R == {p \in (1 .. n) \X (1 .. n) : Earlier(rs, p[1], p[2])}
<1>0. n \in Nat /\ DOMAIN rs = 1 .. n
  BY DEF Sortable
<1>1. \A i, j \in 1 .. n : <<i, j>> \in R <=> Earlier(rs, i, j)
  OBVIOUS
<1>2. \A i \in 1 .. n : Place(rs, i) = Cardinality(Before(R, n, i)) + 1
  <2> SUFFICES ASSUME NEW i \in 1 .. n
               PROVE  Place(rs, i) = Cardinality(Before(R, n, i)) + 1
    OBVIOUS
  <2>1. Before(R, n, i) = {j \in DOMAIN rs : Earlier(rs, j, i)}
    BY <1>0, <1>1 DEF Before
  <2> QED BY <2>1 DEF Place
<1> HIDE DEF R
<1>3. IsStrictOrder(R, n)
  BY <1>1, EarlierIsAnOrder DEF IsStrictOrder
<1> QED BY <1>0, <1>2, <1>3, Ranking

\* A sorted list has at each place the result of that place.
LEMMA SortedPlaces ==
  ASSUME NEW rs, NEW n, Sortable(rs, n)
  PROVE  /\ DOMAIN SortedResults(rs) = 1 .. n
         /\ \A k \in 1 .. n : \E i \in 1 .. n :
              Place(rs, i) = k /\ SortedResults(rs)[k] = rs[i]
<1>1. DOMAIN rs = 1 .. n
  BY DEF Sortable
<1>2. ASSUME NEW k \in 1 .. n
      PROVE  \E i \in 1 .. n : Place(rs, i) = k /\ SortedResults(rs)[k] = rs[i]
  <2>1. \E i \in 1 .. n : Place(rs, i) = k
    BY EachPlaceIsTaken
  <2> DEFINE i == CHOOSE x \in 1 .. n : Place(rs, x) = k
  <2>2. i \in 1 .. n /\ Place(rs, i) = k
    BY <2>1
  <2>3. SortedResults(rs)[k] = rs[i]
    BY <1>1 DEF SortedResults
  <2> QED BY <2>2, <2>3
<1> QED BY <1>1, <1>2 DEF SortedResults

\* No two results of the list have one sort key.
DistinctKeys(rs, n) ==
  \A i, j \in 1 .. n : i # j => SortsBefore(rs[i], rs[j]) \/ SortsBefore(rs[j], rs[i])

\* Then no result is there twice.
LEMMA DistinctResults ==
  ASSUME NEW rs, NEW n, Sortable(rs, n), DistinctKeys(rs, n)
  PROVE  Distinct(rs, n)
<1> SUFFICES ASSUME NEW i \in 1 .. n, NEW j \in 1 .. n, rs[i] = rs[j], i # j
             PROVE  FALSE
  BY DEF Distinct
<1>1. SortsBefore(rs[i], rs[i])
  BY DEF DistinctKeys
<1>2. Comparable(rs[i])
  BY DEF Sortable
<1>3. ~SortsBefore(rs[i], rs[i])
  BY ONLY <1>2, KeyOrder DEF Comparable
<1> QED BY <1>1, <1>3

\* Then the place of a result depends on the other results alone.
LEMMA PlaceByValue ==
  ASSUME NEW rs, NEW n, Sortable(rs, n), DistinctKeys(rs, n), NEW i \in 1 .. n
  PROVE  Place(rs, i) =
           Cardinality({x \in Values(rs, n) : SortsBefore(x, rs[i])}) + 1
<1> DEFINE T == {x \in Values(rs, n) : SortsBefore(x, rs[i])}
<1>0. n \in Nat /\ DOMAIN rs = 1 .. n
  BY DEF Sortable
<1>1. \A j \in 1 .. n : Earlier(rs, j, i) <=> SortsBefore(rs[j], rs[i])
  <2> SUFFICES ASSUME NEW j \in 1 .. n, Earlier(rs, j, i), ~SortsBefore(rs[j], rs[i])
               PROVE  FALSE
    BY DEF Earlier
  <2>1. ~SortsBefore(rs[i], rs[j]) /\ j < i
    BY DEF Earlier
  <2>2. j # i
    BY <1>0, <2>1
  <2> QED BY <2>1, <2>2 DEF DistinctKeys
<1>2. {j \in DOMAIN rs : Earlier(rs, j, i)} = {j \in 1 .. n : rs[j] \in T}
  BY <1>0, <1>1 DEF Values
<1>3. Cardinality({j \in 1 .. n : rs[j] \in T}) = Cardinality(T)
  <2>1. T \subseteq Values(rs, n) /\ Distinct(rs, n)
    BY DistinctResults
  <2> HIDE DEF T
  <2> QED BY <1>0, <2>1, CountedByValue
<1> QED BY <1>2, <1>3 DEF Place

\* The same results in another order are sorted alike.
LEMMA SameSort ==
  ASSUME NEW rs, NEW ts, NEW n, Sortable(rs, n), Sortable(ts, n),
         DistinctKeys(rs, n), Values(rs, n) = Values(ts, n)
  PROVE  SortedResults(rs) = SortedResults(ts)
<1>0. n \in Nat
  BY DEF Sortable
<1>1. Distinct(ts, n)
  BY <1>0, DistinctResults, SameValuesDistinct
<1>2. DistinctKeys(ts, n)
  <2> SUFFICES ASSUME NEW i \in 1 .. n, NEW j \in 1 .. n, i # j
               PROVE  SortsBefore(ts[i], ts[j]) \/ SortsBefore(ts[j], ts[i])
    BY DEF DistinctKeys
  <2>1. PICK k \in 1 .. n, m \in 1 .. n : rs[k] = ts[i] /\ rs[m] = ts[j]
    <3>1. ts[i] \in Values(rs, n) /\ ts[j] \in Values(rs, n)
      BY DEF Values
    <3> QED BY <3>1 DEF Values
  <2>2. k # m
    BY <1>1, <2>1 DEF Distinct
  <2> QED BY <2>1, <2>2 DEF DistinctKeys
<1>3. ASSUME NEW k \in 1 .. n
      PROVE  SortedResults(rs)[k] = SortedResults(ts)[k]
  <2>1. PICK i \in 1 .. n : Place(rs, i) = k /\ SortedResults(rs)[k] = rs[i]
    BY SortedPlaces
  <2>2. PICK j \in 1 .. n : Place(ts, j) = k /\ SortedResults(ts)[k] = ts[j]
    BY SortedPlaces
  <2>3. PICK m \in 1 .. n : rs[m] = ts[j]
    <3>1. ts[j] \in Values(rs, n)
      BY DEF Values
    <3> QED BY <3>1 DEF Values
  <2>4. Place(rs, m) = k
    <3>1. Place(rs, m) = Cardinality({x \in Values(rs, n) : SortsBefore(x, rs[m])}) + 1
      BY PlaceByValue
    <3>2. Place(ts, j) = Cardinality({x \in Values(ts, n) : SortsBefore(x, ts[j])}) + 1
      BY <1>2, PlaceByValue
    <3>3. {x \in Values(rs, n) : SortsBefore(x, rs[m])}
            = {x \in Values(ts, n) : SortsBefore(x, ts[j])}
      BY <2>3
    <3> QED BY <2>2, <3>1, <3>2, <3>3
  <2>5. m = i
    BY <2>1, <2>4, EachPlaceIsTaken
  <2> QED BY <2>1, <2>2, <2>3, <2>5
<1>4. DOMAIN SortedResults(rs) = 1 .. n /\ DOMAIN SortedResults(ts) = 1 .. n
  BY SortedPlaces
<1>5. /\ SortedResults(rs) = [k \in 1 .. n |-> SortedResults(rs)[k]]
      /\ SortedResults(ts) = [k \in 1 .. n |-> SortedResults(ts)[k]]
  BY <1>4 DEF SortedResults
<1> QED BY <1>3, <1>5

-----------------------------------------------------------------------------
(***************************************************************************)
(* The rows of a scan.                                                     *)
(***************************************************************************)

\* The groups, roots and results of an outcome are lists.
LEMMA ScanLists ==
  ASSUME NEW found, IsOutcome(found)
  PROVE  /\ Len(found.groups) \in Nat
         /\ DOMAIN found.groups = 1 .. Len(found.groups)
         /\ DOMAIN Results(found) = 1 .. Len(found.groups)
         /\ Sortable(Results(found), Len(found.groups))
<1>1. Len(found.groups) \in Nat /\ DOMAIN found.groups = 1 .. Len(found.groups)
  BY LenProperties DEF IsOutcome
<1>2. DOMAIN Results(found) = 1 .. Len(found.groups)
  BY <1>1 DEF Results
<1> QED BY <1>1, <1>2, ResultsAreComparable DEF Sortable

\* There is one row for each group, made of the result of that group.
LEMMA RowsOfScan ==
  ASSUME NEW found, IsOutcome(found), NEW paths
  PROVE  /\ IsList(Rows(found, paths))
         /\ Len(Rows(found, paths)) = Len(found.groups)
         /\ \A k \in DOMAIN Rows(found, paths) : \E g \in DOMAIN found.groups :
              Rows(found, paths)[k] = RowFor(Results(found)[g], found.roots, paths)
<1> DEFINE n == Len(found.groups)
           sorted == SortedResults(Results(found))
           rs == Rows(found, paths)
<1>1. /\ n \in Nat /\ DOMAIN found.groups = 1 .. n
      /\ Sortable(Results(found), n)
  BY ScanLists
<1>2. /\ DOMAIN sorted = 1 .. n
      /\ \A k \in 1 .. n : \E g \in 1 .. n : sorted[k] = Results(found)[g]
  <2> DEFINE rl == Results(found)
  <2> HIDE DEF rl, n
  <2>1. /\ DOMAIN SortedResults(rl) = 1 .. n
        /\ \A k \in 1 .. n : \E g \in 1 .. n : SortedResults(rl)[k] = rl[g]
    <3>1. Sortable(rl, n)
      BY <1>1 DEF rl
    <3> QED BY <3>1, SortedPlaces
  <2> QED BY <2>1 DEF rl
<1>3. rs = [k \in 1 .. n |-> RowFor(sorted[k], found.roots, paths)]
  BY <1>2 DEF Rows
<1>4. rs = [k \in 1 .. n |-> rs[k]]
  BY <1>3
<1>5. IsList(rs) /\ Len(rs) = n
  <2> HIDE DEF rs, n
  <2> QED BY <1>1, <1>4, Lists
<1>6. \A k \in 1 .. n : \E g \in 1 .. n :
        rs[k] = RowFor(Results(found)[g], found.roots, paths)
  BY <1>2, <1>3
<1>7. DOMAIN rs = 1 .. n
  BY <1>3
<1> QED BY <1>1, <1>5, <1>6, <1>7

\* Python's labels are different, so groups of two sources are never tied.
LEMMA DistinctIdsDistinctKeys ==
  ASSUME NEW s, IsOutcome(s), DistinctIds(s)
  PROVE  DistinctKeys(Results(s), Len(s.groups))
<1> DEFINE n == Len(s.groups)
           rs == Results(s)
<1>1. n \in Nat /\ DOMAIN s.groups = 1 .. n /\ Sortable(rs, n)
  BY ScanLists
<1> SUFFICES ASSUME NEW i \in 1 .. n, NEW j \in 1 .. n, i # j
             PROVE  SortsBefore(rs[i], rs[j]) \/ SortsBefore(rs[j], rs[i])
  BY DEF DistinctKeys
<1>2. rs[i].group = s.groups[i] /\ rs[j].group = s.groups[j]
  BY <1>1, Verdicts
<1>3. \/ rs[i].group.source # rs[j].group.source
      \/ rs[i].group.id # rs[j].group.id
  BY <1>1, <1>2 DEF DistinctIds
<1>4. rs[i].group.source \in Sources /\ rs[j].group.source \in Sources
  BY <1>1, <1>2 DEF IsOutcome
<1>5. \/ Rank(rs[i].group.source) # Rank(rs[j].group.source)
      \/ rs[i].group.id # rs[j].group.id
  BY <1>3, <1>4 DEF Rank, Sources
<1>6. Comparable(rs[i]) /\ Comparable(rs[j])
  BY <1>1 DEF Sortable
<1>7. ASSUME NEW r, NEW s2, Comparable(r), Comparable(s2),
             Rank(r.group.source) # Rank(s2.group.source) \/ r.group.id # s2.group.id
      PROVE  SortsBefore(r, s2) \/ SortsBefore(s2, r)
  BY ONLY <1>7, KeyOrder DEF Comparable
<1> HIDE DEF rs
<1> QED BY <1>5, <1>6, <1>7

\* Two scans that found the same have the same rows.
LEMMA SameRows ==
  ASSUME NEW s, NEW t, IsOutcome(s), IsOutcome(t), SameFinds(s, t), DistinctIds(s),
         NEW paths
  PROVE  Rows(s, paths) = Rows(t, paths)
<1> DEFINE n == Len(s.groups)
<1>1. /\ n \in Nat /\ n = Len(t.groups)
      /\ DOMAIN s.groups = 1 .. n /\ DOMAIN t.groups = 1 .. n
      /\ Sortable(Results(s), n) /\ Sortable(Results(t), n)
  BY ScanLists DEF SameFinds
<1>2. DistinctKeys(Results(s), n)
  BY DistinctIdsDistinctKeys
<1>3. Values(Results(s), n) = Values(Results(t), n)
  <2>1. \A i \in 1 .. n : /\ Results(s)[i] = Result(s.groups[i], s.lookups)
                          /\ Results(t)[i] = Result(t.groups[i], s.lookups)
    BY <1>1 DEF Results, SameFinds
  <2>2. /\ \A i \in 1 .. n : \E j \in 1 .. n : s.groups[i] = t.groups[j]
        /\ \A i \in 1 .. n : \E j \in 1 .. n : t.groups[i] = s.groups[j]
    BY <1>1 DEF SameFinds
  <2>3. /\ \A i \in 1 .. n : \E j \in 1 .. n : Results(s)[i] = Results(t)[j]
        /\ \A i \in 1 .. n : \E j \in 1 .. n : Results(t)[i] = Results(s)[j]
    BY <2>1, <2>2
  <2> HIDE DEF n
  <2> QED BY <2>3 DEF Values
<1>4. SortedResults(Results(s)) = SortedResults(Results(t))
  <2> HIDE DEF n
  <2> QED BY <1>1, <1>2, <1>3, SameSort
<1> QED BY <1>4 DEF Rows, SameFinds

\* The first of a nonempty set of roots is one of them.
LEMMA FirstRoot ==
  ASSUME NEW roots, IsList(roots), NEW some, some \subseteq DOMAIN roots, some # {}
  PROVE  \E i \in some : FirstPath(roots, some) = roots[i].resolved
<1>1. Len(roots) \in Nat /\ DOMAIN roots = 1 .. Len(roots)
  BY Lists
<1>2. \E i \in some : \A j \in some : i <= j
  BY <1>1, FirstPosition
<1> QED BY <1>2 DEF FirstPath

\* The path _scan_root_for gives is that of a root above, else of a root.
LEMMA RootFor ==
  ASSUME NEW r, NEW roots, IsList(roots)
  PROVE  LET all  == Candidates(r, roots)
             hits == {i \in all : ContainsSome(roots[i], r)}
         IN  /\ hits # {} => \E i \in hits : ScanRootFor(r, roots) = roots[i].resolved
             /\ all # {} => \E i \in all : ScanRootFor(r, roots) = roots[i].resolved
             /\ all = {} => ScanRootFor(r, roots) = NoPath
<1> DEFINE all  == Candidates(r, roots)
           hits == {i \in all : ContainsSome(roots[i], r)}
<1>1. all \subseteq DOMAIN roots /\ hits \subseteq all
  BY DEF Candidates
<1>2. hits # {} => \E i \in hits : ScanRootFor(r, roots) = roots[i].resolved
  BY <1>1, FirstRoot DEF ScanRootFor
<1>3. hits = {} /\ all # {} => \E i \in all : ScanRootFor(r, roots) = roots[i].resolved
  BY <1>1, FirstRoot DEF ScanRootFor
<1>4. all = {} => ScanRootFor(r, roots) = NoPath
  BY <1>1 DEF ScanRootFor
<1> HIDE DEF all, hits
<1>5. all # {} => \E i \in all : ScanRootFor(r, roots) = roots[i].resolved
  BY <1>1, <1>2, <1>3
<1> QED BY <1>2, <1>4, <1>5 DEF all, hits

-----------------------------------------------------------------------------
(***************************************************************************)
(* The inductive invariant.                                                *)
(***************************************************************************)

Stages == {"rows", "temp", "write", "rename", "unlink", "end"}

\* Types, as far as the proofs need them; rows are built once and kept.
FileTypes ==
  /\ pc \in [Exporters -> Stages]
  /\ scan \in [Exporters -> Scans]
  /\ exit \in [Exporters -> {Running, 0, 1, 70}]
  /\ DOMAIN rows = Exporters /\ DOMAIN temp = Exporters
  /\ last \in Seq(Exporters)
  /\ \A p \in Exporters :
       rows[p] \in {<<>>, Rows(scan[p], opts[p].includePaths)}

\* What has been written is a beginning of what is to be written.
WrittenSoFar(p) ==
  /\ IsList(temp[p])
  /\ Len(temp[p]) <= Len(Lines(p))
  /\ \A i \in 1 .. Len(temp[p]) : temp[p][i] = Lines(p)[i]

\* What each stage of an export finds.
StageInv ==
  \A p \in Exporters :
    /\ pc[p] \in {"rows", "temp"} => temp[p] = NoTemp
    /\ pc[p] = "write" => WrittenSoFar(p)
    /\ pc[p] = "rename" => temp[p] = Lines(p)
    /\ pc[p] \in {"rows", "temp", "write", "rename"} => exit[p] = Running
    /\ pc[p] = "unlink" => exit[p] \in {1, 70}
    /\ pc[p] # "end" => p \notin killed

IInv ==
  /\ FileTypes
  /\ StageInv
  /\ ExportIsAllOrNothing

\* The lines of a file are a list.
LEMMA LinesAreAList ==
  ASSUME NEW p \in Exporters, FileTypes
  PROVE  IsList(Lines(p)) /\ IsList(rows[p])
<1>1. IsOutcome(scan[p])
  BY FileConstants DEF FileTypes
<1>2. IsList(<<>>)
  <2>1. \A S : <<>> \in Seq(S)
    BY EmptySeq
  <2> QED BY <2>1 DEF IsList
<1>3. IsList(rows[p])
  BY <1>1, <1>2, RowsOfScan DEF FileTypes
<1> DEFINE All == {Header} \cup Elements(rows[p])
           head == IF opts[p].csv THEN <<Header>> ELSE <<>>
<1>4. rows[p] \in Seq(All)
  <2>1. Elements(rows[p]) \subseteq All
    OBVIOUS
  <2> HIDE DEF All
  <2> QED BY <1>3, <2>1, SeqMonotonic DEF IsList
<1>5. head \in Seq(All)
  <2>1. Header \in All
    OBVIOUS
  <2> HIDE DEF All
  <2>2. <<Header>> \in Seq(All) /\ <<>> \in Seq(All)
    BY <2>1, EmptySeq
  <2> QED BY <2>2
<1>6. Lines(p) \in Seq(All)
  <2> HIDE DEF All, head
  <2>1. head \o rows[p] \in Seq(All)
    BY <1>4, <1>5, ConcatProperties
  <2> QED BY <2>1 DEF Lines, head
<1>7. Lines(p) = [i \in 1 .. Len(Lines(p)) |-> Lines(p)[i]] /\ Len(Lines(p)) \in Nat
  <2> HIDE DEF All
  <2> QED BY <1>6, LenProperties
<1>8. IsList(Lines(p))
  <2> DEFINE lines == Lines(p)
  <2>1. lines = [i \in 1 .. Len(lines) |-> lines[i]] /\ Len(lines) \in Nat
    BY <1>7
  <2> HIDE DEF lines
  <2>2. IsList(lines)
    BY <2>1, Lists
  <2> QED BY <2>2 DEF lines
<1> QED BY <1>3, <1>8

\* Each row that was built is the row of a result.
LEMMA RowOf ==
  ASSUME FileTypes, NEW p \in Exporters, NEW k \in DOMAIN rows[p]
  PROVE  /\ IsOutcome(scan[p])
         /\ \E g \in DOMAIN scan[p].groups :
              rows[p][k] = RowFor(Results(scan[p])[g], scan[p].roots,
                                  opts[p].includePaths)
<1>1. rows[p] # <<>>
  OBVIOUS
<1>2. IsOutcome(scan[p]) /\ rows[p] = Rows(scan[p], opts[p].includePaths)
  BY <1>1, FileConstants DEF FileTypes
<1>3. \A j \in DOMAIN Rows(scan[p], opts[p].includePaths) : \E g \in DOMAIN scan[p].groups :
        Rows(scan[p], opts[p].includePaths)[j]
          = RowFor(Results(scan[p])[g], scan[p].roots, opts[p].includePaths)
  BY <1>2, RowsOfScan
<1> QED BY <1>2, <1>3

\* The invariant holds before the first row.
LEMMA InitIInv == Init => IInv
<1> SUFFICES ASSUME Init PROVE IInv
  OBVIOUS
<1>1. last \in Seq(Exporters) /\ last = <<>>
  BY EmptySeq DEF Init
<1>2. FileTypes
  BY <1>1 DEF Init, FileTypes, Stages
<1>3. StageInv
  BY DEF Init, StageInv
<1>4. ExportIsAllOrNothing
  BY <1>1, FileConstants DEF Init, ExportIsAllOrNothing, Ended
<1> QED BY <1>2, <1>3, <1>4 DEF IInv

\* Nothing but the first step of an export changes what it will write.
LEMMA LinesStay ==
  ASSUME FileTypes, NEW p \in Exporters,
         /\ BuildRows(p) \/ MakeTemp(p) \/ WriteLine(p) \/ EndWrite(p) \/ WriteFails(p)
            \/ Rename(p) \/ RenameFails(p) \/ RemoveTemp(p) \/ Kill(p),
         NEW q \in Exporters
  PROVE  /\ pc[q] # "rows" => Lines(q)' = Lines(q)
         /\ q # p => Lines(q)' = Lines(q)
BY DEF FileTypes, Lines, BuildRows, MakeTemp, WriteLine, EndWrite, WriteFails, Rename,
       RenameFails, RemoveTemp, Kill

\* Rows, lines and files stay well formed.
LEMMA TypesStep ==
  ASSUME FileTypes, [Next]_vars
  PROVE  FileTypes'
<1> USE DEF FileTypes, Stages, Goto
<1>1. ASSUME NEW p \in Exporters, BuildRows(p)
      PROVE  FileTypes'
  BY <1>1 DEF BuildRows
<1>2. ASSUME NEW p \in Exporters, MakeTemp(p)
      PROVE  FileTypes'
  BY <1>2 DEF MakeTemp
<1>3. ASSUME NEW p \in Exporters, WriteLine(p) \/ EndWrite(p)
      PROVE  FileTypes'
  BY <1>3 DEF WriteLine, EndWrite
<1>4. ASSUME NEW p \in Exporters, WriteFails(p)
      PROVE  FileTypes'
  BY <1>4 DEF WriteFails
<1>5. ASSUME NEW p \in Exporters, Rename(p)
      PROVE  FileTypes'
  <2>1. last' \in Seq(Exporters)
    BY <1>5, AppendProperties DEF Rename
  <2> QED BY <1>5, <2>1 DEF Rename
<1>6. ASSUME NEW p \in Exporters, RenameFails(p) \/ RemoveTemp(p) \/ Kill(p)
      PROVE  FileTypes'
  BY <1>6 DEF RenameFails, RemoveTemp, Kill
<1>7. CASE UNCHANGED vars
  BY <1>7 DEF vars
<1> QED BY <1>1, <1>2, <1>3, <1>4, <1>5, <1>6, <1>7 DEF Next

\* What has been written of a whole file is the file.
LEMMA WrittenToTheEnd ==
  ASSUME FileTypes, NEW p \in Exporters, WrittenSoFar(p), Written(p) = Len(Lines(p))
  PROVE  temp[p] = Lines(p)
<1>1. IsList(Lines(p)) /\ IsList(temp[p])
  BY LinesAreAList DEF WrittenSoFar
<1>2. Len(Lines(p)) \in Nat
  BY <1>1, Lists
<1>3. /\ Lines(p) = [i \in 1 .. Len(Lines(p)) |-> Lines(p)[i]]
      /\ temp[p] = [i \in 1 .. Len(temp[p]) |-> temp[p][i]]
  <2>1. \A s : IsList(s) => s = [i \in 1 .. Len(s) |-> s[i]]
    BY LenProperties DEF IsList
  <2> QED BY <1>1, <2>1
<1> QED BY <1>3 DEF WrittenSoFar, Written

\* One more line.
LEMMA OneMoreLine ==
  ASSUME FileTypes, NEW p \in Exporters, WrittenSoFar(p), WriteLine(p)
  PROVE  WrittenSoFar(p)'
<1> DEFINE n == Len(temp[p])
           line == Lines(p)[n + 1]
           All == {line} \cup Elements(temp[p])
           longer == Append(temp[p], line)
<1>1. IsList(Lines(p)) /\ IsList(temp[p]) /\ Len(Lines(p)) \in Nat /\ n \in Nat
  BY LinesAreAList, Lists DEF WrittenSoFar
<1>2. Lines(p)' = Lines(p) /\ temp'[p] = longer /\ n + 1 <= Len(Lines(p))
  BY <1>1 DEF WriteLine, FileTypes, Written, Lines
<1>3. temp[p] \in Seq(All) /\ line \in All
  <2>1. Elements(temp[p]) \subseteq All /\ line \in All
    OBVIOUS
  <2> HIDE DEF All
  <2> QED BY <1>1, <2>1, SeqMonotonic DEF IsList
<1>4. /\ longer \in Seq(All) /\ Len(longer) = n + 1
      /\ \A i \in 1 .. n : longer[i] = temp[p][i]
      /\ longer[n + 1] = line
  <2> HIDE DEF All, line
  <2> QED BY <1>3, AppendProperties
<1>5. IsList(longer)
  <2> HIDE DEF All, longer
  <2>1. longer = [i \in 1 .. Len(longer) |-> longer[i]] /\ Len(longer) \in Nat
    BY <1>4, LenProperties
  <2> QED BY <2>1, Lists
<1>6. \A i \in 1 .. n + 1 : longer[i] = Lines(p)[i]
  <2> SUFFICES ASSUME NEW i \in 1 .. n + 1 PROVE longer[i] = Lines(p)[i]
    OBVIOUS
  <2>1. CASE i = n + 1
    BY <1>4, <2>1
  <2>2. CASE i # n + 1
    <3>1. i \in 1 .. n
      BY <1>1, <2>2
    <3> QED BY <1>4, <3>1 DEF WrittenSoFar
  <2> QED BY <2>1, <2>2
<1> HIDE DEF longer
<1> QED BY <1>2, <1>4, <1>5, <1>6 DEF WrittenSoFar, IsList, Elements

\* An export does not touch what another one has.
LEMMA OthersStay ==
  ASSUME FileTypes, NEW p \in Exporters,
         /\ BuildRows(p) \/ MakeTemp(p) \/ WriteLine(p) \/ EndWrite(p) \/ WriteFails(p)
            \/ Rename(p) \/ RenameFails(p) \/ RemoveTemp(p) \/ Kill(p),
         NEW q \in Exporters, q # p
  PROVE  /\ pc'[q] = pc[q] /\ temp'[q] = temp[q] /\ exit'[q] = exit[q]
         /\ q \in killed' <=> q \in killed
         /\ Lines(q)' = Lines(q)
<1>1. Lines(q)' = Lines(q)
  BY LinesStay
<1>2. /\ pc'[q] = pc[q] /\ temp'[q] = temp[q] /\ exit'[q] = exit[q]
      /\ q \in killed' <=> q \in killed
  BY DEF FileTypes, Goto, BuildRows, MakeTemp, WriteLine, EndWrite, WriteFails, Rename,
         RenameFails, RemoveTemp, Kill
<1> QED BY <1>1, <1>2

\* What StageInv says of one export.
StageAt(p) ==
  /\ pc[p] \in {"rows", "temp"} => temp[p] = NoTemp
  /\ pc[p] = "write" => WrittenSoFar(p)
  /\ pc[p] = "rename" => temp[p] = Lines(p)
  /\ pc[p] \in {"rows", "temp", "write", "rename"} => exit[p] = Running
  /\ pc[p] = "unlink" => exit[p] \in {1, 70}
  /\ pc[p] # "end" => p \notin killed

\* An export goes on from the stage it is at.
LEMMA StageOwnStep ==
  ASSUME FileTypes, NEW p \in Exporters, StageAt(p),
         /\ BuildRows(p) \/ MakeTemp(p) \/ WriteLine(p) \/ EndWrite(p) \/ WriteFails(p)
            \/ Rename(p) \/ RenameFails(p) \/ RemoveTemp(p) \/ Kill(p)
  PROVE  StageAt(p)'
<1>0. pc[p] # "rows" => Lines(p)' = Lines(p)
  BY LinesStay
<1> USE DEF FileTypes, Goto
<1>1. CASE BuildRows(p)
  BY <1>1 DEF BuildRows, StageAt
<1>2. CASE MakeTemp(p)
  <2>1. temp'[p] = <<>> => WrittenSoFar(p)'
    <3> SUFFICES ASSUME temp'[p] = <<>> PROVE WrittenSoFar(p)'
      OBVIOUS
    <3>1. IsList(Lines(p)) /\ Lines(p)' = Lines(p)
      BY <1>0, <1>2, LinesAreAList DEF MakeTemp
    <3>2. Len(Lines(p)) \in Nat
      BY <3>1, Lists
    <3>3. \A S : <<>> \in Seq(S) /\ Len(<<>>) = 0
      BY EmptySeq
    <3> QED BY <3>1, <3>2, <3>3 DEF WrittenSoFar, IsList, Elements
  <2> QED BY <1>2, <2>1 DEF MakeTemp, StageAt
<1>3. CASE WriteLine(p)
  <2>1. WrittenSoFar(p)'
    BY <1>3, OneMoreLine DEF WriteLine, StageAt
  <2> QED BY <1>3, <2>1 DEF WriteLine, StageAt
<1>4. CASE EndWrite(p)
  <2>1. temp[p] = Lines(p) /\ Lines(p)' = Lines(p)
    BY <1>0, <1>4, WrittenToTheEnd DEF EndWrite, StageAt
  <2> QED BY <1>4, <2>1 DEF EndWrite, StageAt
<1>5. CASE WriteFails(p) \/ Rename(p) \/ RenameFails(p) \/ RemoveTemp(p) \/ Kill(p)
  BY <1>5 DEF WriteFails, Rename, RenameFails, RemoveTemp, Kill, StageAt
<1> QED BY <1>1, <1>2, <1>3, <1>4, <1>5

\* And leaves those of the others alone.
LEMMA StageStep ==
  ASSUME FileTypes, StageInv, [Next]_vars
  PROVE  StageInv'
<1>1. ASSUME NEW p \in Exporters, NEW q \in Exporters,
             /\ BuildRows(p) \/ MakeTemp(p) \/ WriteLine(p) \/ EndWrite(p) \/ WriteFails(p)
                \/ Rename(p) \/ RenameFails(p) \/ RemoveTemp(p) \/ Kill(p)
      PROVE  StageAt(q)'
  <2>1. StageAt(q)
    BY DEF StageInv, StageAt
  <2>2. CASE q = p
    BY <1>1, <2>1, <2>2, StageOwnStep
  <2>3. CASE q # p
    <3>1. /\ pc'[q] = pc[q] /\ temp'[q] = temp[q] /\ exit'[q] = exit[q]
          /\ q \in killed' <=> q \in killed
          /\ Lines(q)' = Lines(q)
      BY <1>1, <2>3, OthersStay
    <3> QED BY <2>1, <3>1 DEF StageAt, WrittenSoFar, IsList, Elements
  <2> QED BY <2>2, <2>3
<1>2. CASE Next
  BY <1>1, <1>2 DEF Next, StageInv, StageAt
<1>3. CASE UNCHANGED vars
  <2>1. ASSUME NEW q \in Exporters
        PROVE  StageAt(q)'
    <3>1. StageAt(q) /\ Lines(q)' = Lines(q) /\ temp' = temp
      BY <1>3 DEF StageInv, StageAt, vars, Lines
    <3> QED BY <1>3, <3>1 DEF vars, StageAt, WrittenSoFar, IsList, Elements
  <2> QED BY <2>1 DEF StageInv, StageAt
<1> QED BY <1>2, <1>3

(***************************************************************************)
(* Only the rename reaches the output, and it finds the whole file.        *)
(***************************************************************************)
LEMMA ExportStep ==
  ASSUME FileTypes, StageInv, ExportIsAllOrNothing, [Next]_vars
  PROVE  ExportIsAllOrNothing'
<1> USE DEF ExportIsAllOrNothing, Ended, FileTypes, Goto
<1>0. Len(last) \in Nat /\ DOMAIN last = 1 .. Len(last)
      /\ \A i \in DOMAIN last : last[i] \in Exporters
  BY LenProperties, ElementOfSeq
<1>1. ASSUME last # <<>>
      PROVE  /\ last[Len(last)] \in Exporters
             /\ exit[last[Len(last)]] = 0
  <2>1. Len(last) \in DOMAIN last
    BY <1>0, <1>1, EmptySeq
  <2> QED BY <1>0, <2>1
<1>2. ASSUME NEW p \in Exporters, UNCHANGED <<out, last, killed>>,
             BuildRows(p) \/ MakeTemp(p) \/ WriteLine(p) \/ EndWrite(p) \/ WriteFails(p)
             \/ RenameFails(p) \/ RemoveTemp(p)
      PROVE  ExportIsAllOrNothing'
  <2>1. last # <<>> => Lines(last[Len(last)])' = Lines(last[Len(last)])
    BY <1>1, <1>2, FileConstants, LinesStay DEF StageInv
  <2>2. out' = IF last' = <<>> THEN OldFile ELSE Lines(last[Len(last)])'
    BY <1>2, <2>1
  <2>3. \A q \in Exporters : exit'[q] = 0 <=> exit[q] = 0
    BY <1>2, FileConstants
    DEF BuildRows, MakeTemp, WriteLine, EndWrite, WriteFails, RenameFails, RemoveTemp, StageInv
  <2>4. ASSUME NEW q \in Exporters
        PROVE  /\ exit'[q] = 0 => temp'[q] = NoTemp
               /\ pc'[q] = "end" /\ q \notin killed' => exit'[q] # Running
    <3>1. CASE q # p
      BY <1>2, <3>1, OthersStay
    <3>2. CASE q = p
      BY <1>2, <3>2, FileConstants
      DEF BuildRows, MakeTemp, WriteLine, EndWrite, WriteFails, RenameFails, RemoveTemp,
          StageInv, Stages
    <3> QED BY <3>1, <3>2
  <2> QED BY <1>2, <2>2, <2>3, <2>4
<1>3. ASSUME NEW p \in Exporters, Rename(p)
      PROVE  ExportIsAllOrNothing'
  <2>1. /\ last' = Append(last, p) /\ out' = Lines(p) /\ Lines(p)' = Lines(p)
        /\ exit' = [exit EXCEPT ![p] = 0] /\ temp' = [temp EXCEPT ![p] = NoTemp]
        /\ pc' = [pc EXCEPT ![p] = "end"] /\ UNCHANGED killed
    BY <1>3, LinesStay DEF Rename, StageInv
  <2>2. /\ last' # <<>> /\ Len(last') = Len(last) + 1
        /\ \A i \in 1 .. Len(last) : last'[i] = last[i]
        /\ last'[Len(last) + 1] = p
        /\ last' \in Seq(Exporters)
    BY <2>1, AppendProperties
  <2>3. DOMAIN last' = 1 .. Len(last) + 1
    BY <2>2, LenProperties
  <2>4. out' = Lines(last[Len(last)])'
    <3>1. last'[Len(last')] = p
      BY <2>2
    <3>2. opts'[last'[Len(last')]] = opts'[p] /\ rows'[last'[Len(last')]] = rows'[p]
      BY <3>1
    <3>3. Lines(last[Len(last)])' = Lines(p)'
      BY <3>2 DEF Lines
    <3> QED BY <2>1, <3>3
  <2>5. ASSUME NEW q \in Exporters
        PROVE  exit'[q] = 0 <=> \E i \in DOMAIN last' : last'[i] = q
    <3>1. CASE q = p
      BY <1>0, <2>1, <2>2, <2>3, <3>1
    <3>2. CASE q # p
      BY <1>0, <2>1, <2>2, <2>3, <3>2
    <3> QED BY <3>1, <3>2
  <2>6. ASSUME NEW q \in Exporters
        PROVE  /\ exit'[q] = 0 => temp'[q] = NoTemp
               /\ pc'[q] = "end" /\ q \notin killed' => exit'[q] # Running
    <3>1. CASE q = p
      BY <2>1, <3>1, FileConstants
    <3>2. CASE q # p
      BY <2>1, <3>2
    <3> QED BY <3>1, <3>2
  <2> QED BY <2>2, <2>4, <2>5, <2>6
<1>4. ASSUME NEW p \in Exporters, Kill(p)
      PROVE  ExportIsAllOrNothing'
  <2>1. last # <<>> => Lines(last[Len(last)])' = Lines(last[Len(last)])
    BY <1>1, <1>4 DEF Kill, Lines
  <2> QED BY <1>4, <2>1 DEF Kill
<1>5. CASE UNCHANGED vars
  BY <1>5 DEF vars, Lines
<1> QED BY <1>2, <1>3, <1>4, <1>5
        DEF Next, BuildRows, MakeTemp, WriteLine, EndWrite, WriteFails, RenameFails, RemoveTemp

\* Each step of each scan, of a kill too, keeps the invariant.
LEMMA StepIInv == IInv /\ [Next]_vars => IInv'
<1> SUFFICES ASSUME IInv, [Next]_vars PROVE IInv'
  OBVIOUS
<1> USE DEF IInv
<1>1. FileTypes' /\ StageInv' /\ ExportIsAllOrNothing'
  BY TypesStep, StageStep, ExportStep
<1> QED BY <1>1

-----------------------------------------------------------------------------
(***************************************************************************)
(* The theorems.                                                           *)
(***************************************************************************)

\* The inductive invariant of the export.
THEOREM ExportInvariant == Spec => []IInv
BY InitIInv, StepIInv, PTL DEF Spec

(***************************************************************************)
(* "Either the old file intact or the new file complete"                   *)
(* (export_inventory), for any number of scans that write to one path.     *)
(***************************************************************************)
THEOREM ExportIsAlwaysAllOrNothing == Spec => []ExportIsAllOrNothing
<1>1. IInv => ExportIsAllOrNothing
  BY DEF IInv
<1> QED BY <1>1, ExportInvariant, PTL

(***************************************************************************)
(* The columns of each row tell one story, whatever the groups, the        *)
(* answers and the evidence in their records (_row_for_group).             *)
(***************************************************************************)
THEOREM RowsAlwaysSayTheVerdict == Spec => []RowsSayTheVerdict
<1>1. ASSUME IInv, NEW p \in Exporters, Built(p)
      PROVE  /\ Len(rows[p]) = Len(scan[p].groups)
             /\ \A k \in DOMAIN rows[p] : RowTellsOneStory(rows[p][k])
  <2>1. IsOutcome(scan[p]) /\ rows[p] = Rows(scan[p], opts[p].includePaths)
    BY <1>1, FileConstants DEF IInv, FileTypes, Built
  <2>2. Len(rows[p]) = Len(scan[p].groups)
    BY <2>1, RowsOfScan
  <2>3. ASSUME NEW k \in DOMAIN rows[p]
        PROVE  RowTellsOneStory(rows[p][k])
    <3>1. PICK g \in DOMAIN scan[p].groups :
            rows[p][k] = RowFor(Results(scan[p])[g], scan[p].roots, opts[p].includePaths)
      BY <1>1, RowOf DEF IInv
    <3>2. RowTellsOneStory(RowFor(Results(scan[p])[g], scan[p].roots, opts[p].includePaths))
      BY <2>1, OneRow
    <3> QED BY <3>1, <3>2
  <2> QED BY <2>2, <2>3
<1>2. IInv => RowsSayTheVerdict
  BY <1>1 DEF RowsSayTheVerdict
<1> QED BY <1>2, ExportInvariant, PTL

(***************************************************************************)
(* A row names the root its files are under, where one root is above them, *)
(* or the only root of its ecosystem (_scan_root_for).                     *)
(***************************************************************************)
THEOREM RowsAlwaysNameTheirRoot == Spec => []RowNamesItsRoot
<1>1. ASSUME IInv, NEW p \in Exporters, NEW k \in DOMAIN rows[p],
             opts[p].includePaths, rows[p][k].provider # "path"
      PROVE  LET row == rows[p][k]
             IN  /\ \A sr \in RootsAbove(p, row) :
                      RootsAbove(p, row) = {sr} => row.cacheRoot = sr.resolved
                 /\ \A sr \in RootsOf(p, row) :
                      RootsOf(p, row) = {sr} => row.cacheRoot = sr.resolved
                 /\ RootsOf(p, row) = {} <=> row.cacheRoot = NoPath
  <2> DEFINE row == rows[p][k]
             roots == scan[p].roots
  <2>1. IsOutcome(scan[p])
    BY <1>1, RowOf DEF IInv
  <2>2. PICK g \in DOMAIN scan[p].groups :
          row = RowFor(Results(scan[p])[g], roots, opts[p].includePaths)
    BY <1>1, RowOf DEF IInv
  <2> DEFINE r == Results(scan[p])[g]
             all == Candidates(r, roots)
             hits == {i \in all : ContainsSome(roots[i], r)}
  <2>3. /\ row.provider = r.group.source /\ row.paths = r.group.paths
        /\ row.cacheRoot = ScanRootFor(r, roots)
    BY <1>1, <2>2 DEF RowFor, CacheRoot
  <2>4. IsList(roots)
    <3>1. scan[p].roots \in Seq({scan[p].roots[i] : i \in DOMAIN scan[p].roots})
      BY <2>1 DEF IsOutcome
    <3> QED BY <3>1 DEF IsList, Elements
  <2>5. /\ hits # {} => \E i \in hits : row.cacheRoot = roots[i].resolved
        /\ all # {} => \E i \in all : row.cacheRoot = roots[i].resolved
        /\ all = {} => row.cacheRoot = NoPath
    BY <2>3, <2>4, RootFor
  <2>6. RootsOf(p, row) = {roots[i] : i \in all}
    BY <2>3 DEF RootsOf, Candidates
  <2>7. RootsAbove(p, row) = {roots[i] : i \in hits}
    BY <2>3, <2>6 DEF RootsAbove, ContainsSome
  <2>8. \A i \in all : roots[i].resolved # NoPath
    BY DEF Candidates
  <2> HIDE DEF row, roots, r, all, hits
  <2>9. \A sr \in RootsAbove(p, row) :
          RootsAbove(p, row) = {sr} => row.cacheRoot = sr.resolved
    BY <2>5, <2>7
  <2>10. \A sr \in RootsOf(p, row) :
           RootsOf(p, row) = {sr} => row.cacheRoot = sr.resolved
    BY <2>5, <2>6
  <2>11. RootsOf(p, row) = {} <=> row.cacheRoot = NoPath
    BY <2>5, <2>6, <2>8
  <2> QED BY <2>9, <2>10, <2>11 DEF row
<1>2. IInv => RowNamesItsRoot
  BY <1>1 DEF RowNamesItsRoot
<1> QED BY <1>2, ExportInvariant, PTL

(***************************************************************************)
(* "Two exports of the same unchanged machine produce byte-identical       *)
(* output", in whatever order the groups were found, as long as no two of  *)
(* them share an identity (_sorted_results).                               *)
(***************************************************************************)
THEOREM SameResultsAlwaysSameFile == Spec => []SameResultsSameFile
<1>1. ASSUME IInv, NEW p \in Exporters, NEW q \in Exporters, Built(p), Built(q),
             opts[p] = opts[q], SameFinds(scan[p], scan[q]), DistinctIds(scan[p])
      PROVE  Lines(p) = Lines(q)
  <2>1. /\ IsOutcome(scan[p]) /\ rows[p] = Rows(scan[p], opts[p].includePaths)
        /\ IsOutcome(scan[q]) /\ rows[q] = Rows(scan[q], opts[p].includePaths)
    BY <1>1, FileConstants DEF IInv, FileTypes, Built
  <2>2. rows[p] = rows[q]
    BY <1>1, <2>1, SameRows
  <2> QED BY <1>1, <2>2 DEF Lines
<1>2. IInv => SameResultsSameFile
  BY <1>1 DEF SameResultsSameFile
<1> QED BY <1>2, ExportInvariant, PTL

=============================================================================
