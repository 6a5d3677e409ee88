----------------------------- MODULE ScanProofs -----------------------------
(***************************************************************************)
(* Theorems about Scan, for every registry, inventory and interleaving     *)
(* with other processes: the verdicts, the exit codes and the digest named *)
(* by an undisturbed export.                                               *)
(***************************************************************************)
EXTENDS Scan, Positions, SequenceTheorems, TLAPS

\* Stages before anything has been verified, written or shown.
Early == {"options", "discover", "empty", "hash", "lookup", "verify"}

\* What each stage may assume of the ones before it.
StagesInv ==
  /\ exit = NoValue <=> pc # "exit"
  /\ pc \notin {"options", "exit"} => opts.export \in {"none", "inventory"}
  /\ pc \in Early => results = <<>> /\ exported = NoValue /\ rendered = FALSE
  /\ pc = "empty" => groups = <<>>
  /\ pc = "empty_export" =>
       /\ groups = <<>>
       /\ results = <<>>
       /\ exported = NoValue
       /\ rendered = TRUE
       /\ opts.export = "inventory"
  /\ pc = "export" =>
       /\ DOMAIN results = DOMAIN groups
       /\ exported = NoValue
       /\ rendered = FALSE
       /\ opts.export = "inventory"
  /\ pc = "render" =>
       /\ DOMAIN results = DOMAIN groups
       /\ rendered = FALSE
       /\ opts.export = "inventory" => exported # NoValue
  /\ ExitCodeIsHonest

\* The results are those the lookups give, and local lookups are the snapshot's.
BasisInv ==
  results # <<>> =>
    /\ results = Classified(lookups)
    /\ opts.localOnly => lookups = [h \in HashesToLookUp(groups) |-> LocalLookup(h)]
    /\ opts.localOnly => loaded \in SnapshotFiles /\ LoadOutcome(loaded) = "loaded"

\* What a scan that nobody disturbed knows of the installed snapshot.
QuietInv ==
  /\ stable => loaded = snapshot /\ LoadOutcome(snapshot) = "loaded"
  /\ pc = "verify" /\ opts.localOnly =>
       loaded \in SnapshotFiles /\ LoadOutcome(loaded) = "loaded"
  /\ QuietExportNamesTheSnapshot

IInv == TypeOK /\ StagesInv /\ BasisInv /\ QuietInv

-----------------------------------------------------------------------------
(***************************************************************************)
(* Types.                                                                  *)
(***************************************************************************)

\* Filling in one digest of an inventory leaves an inventory.
LEMMA HashedGroups ==
  ASSUME NEW gs \in Seq(Group), NEW g, NEW i, NEW d \in Digests \cup {NoDigest}
  PROVE  [gs EXCEPT ![g].digests[i] = d] \in Seq(Group)
<1> DEFINE hs == [gs[g].digests EXCEPT ![i] = d]
           hashed == [gs[g] EXCEPT !.digests = hs]
<1>1. CASE g \in 1 .. Len(gs)
  <2>1. gs[g] \in Group
    BY <1>1, ElementOfSeq
  <2>2. gs[g].digests \in Seq(Digests \cup {NoDigest})
    BY <2>1 DEF Group
  <2>3. hs \in Seq(Digests \cup {NoDigest})
    <3>1. CASE i \in 1 .. Len(gs[g].digests)
      BY <3>1, <2>2, ExceptSeq
    <3>2. CASE i \notin 1 .. Len(gs[g].digests)
      BY <3>2, <2>2, LenProperties
    <3> QED BY <3>1, <3>2
  <2>4. hashed \in Group
    BY <2>1, <2>3 DEF Group
  <2>5. [gs EXCEPT ![g] = hashed] \in Seq(Group)
    BY <1>1, <2>4, ExceptSeq
  <2> QED BY <2>5
<1>2. CASE g \notin 1 .. Len(gs)
  BY <1>2, LenProperties
<1> QED BY <1>1, <1>2

\* Only digests are looked up.
LEMMA LookedUpDigests ==
  ASSUME NEW gs \in Seq(Group)
  PROVE  HashesToLookUp(gs) \subseteq Digests
<1> SUFFICES ASSUME NEW h \in HashesToLookUp(gs) PROVE h \in Digests
  OBVIOUS
<1>1. PICK g \in DOMAIN gs : h \in {gs[g].digests[i] : i \in DOMAIN gs[g].digests}
  BY DEF HashesToLookUp
<1>2. gs[g] \in Group
  BY ElementOfSeq, LenProperties
<1>3. PICK i \in DOMAIN gs[g].digests : h = gs[g].digests[i]
  BY <1>1
<1>4. gs[g].digests \in Seq(Digests \cup {NoDigest})
  BY <1>2 DEF Group
<1>5. h \in Digests \cup {NoDigest}
  BY <1>3, <1>4, ElementOfSeq, LenProperties
<1> QED BY <1>5 DEF HashesToLookUp

\* Every result of a verification has one of the three verdicts.
LEMMA ClassifiedStatuses ==
  ASSUME NEW found
  PROVE  \A g \in DOMAIN Classified(found) : Classified(found)[g].status \in Statuses
BY DEF Classified, ClassifyGroup, Statuses

\* A scan starts well formed.
LEMMA TypeInit == Init => TypeOK
<1> SUFFICES ASSUME Init PROVE TypeOK
  OBVIOUS
<1> USE DEF Init
<1>1. pc \in Stages /\ opts \in Options
  BY DEF Stages
<1>2. groups \in Seq(Group)
  BY EmptySeq
<1>3. at \in (Nat \ {0}) \X (Nat \ {0})
  OBVIOUS
<1>4. loaded \in SnapshotFiles \cup {NoValue} /\ snapshot \in SnapshotFiles
  OBVIOUS
<1>5. DOMAIN lookups \subseteq Digests
  OBVIOUS
<1>6. results = <<>> /\ rendered \in BOOLEAN /\ exit \in {NoValue, 0, 1, 2, 70}
  OBVIOUS
<1>7. installs \in 0 .. MaxInstalls
  BY ScanConstants
<1>8. apiDown \in BOOLEAN /\ stable \in BOOLEAN
  OBVIOUS
<1> QED BY <1>1, <1>2, <1>3, <1>4, <1>5, <1>6, <1>7, <1>8 DEF TypeOK

\* Each stage keeps the state well formed.
LEMMA TypeStep == TypeOK /\ [Next]_vars => TypeOK'
<1> SUFFICES ASSUME TypeOK, [Next]_vars PROVE TypeOK'
  OBVIOUS
<1> USE DEF TypeOK, Stages, Goto, ExitWith
<1>1. CASE CheckOptions
  BY <1>1 DEF CheckOptions
<1>2. CASE Discover
  <2>1. groups' \in Seq(Group)
    BY <1>2, ScanConstants DEF Discover
  <2> QED BY <1>2, <2>1 DEF Discover
<1>3. CASE ReportEmpty
  BY <1>3 DEF ReportEmpty
<1>4. CASE HashArtifact
  <2>1. PICK d \in Digests \cup {NoDigest} :
          groups' = [groups EXCEPT ![at[1]].digests[at[2]] = d]
    BY <1>4 DEF HashArtifact
  <2>2. groups' \in Seq(Group)
    <3>1. groups \in Seq(Group)
      OBVIOUS
    <3> QED BY ONLY <2>1, <3>1, HashedGroups
  <2>3. at' \in (Nat \ {0}) \X (Nat \ {0})
    BY <1>4 DEF HashArtifact
  <2>4. pc' \in Stages /\ (pc' # "exit" => exit' = exit)
    BY <1>4 DEF HashArtifact
  <2> QED BY <1>4, <2>2, <2>3, <2>4 DEF HashArtifact
<1>5. CASE BuildLookup
  <2>1. loaded' \in SnapshotFiles \cup {NoValue} /\ stable' \in BOOLEAN
    BY <1>5 DEF BuildLookup
  <2>2. pc' \in Stages /\ exit' \in {NoValue, 0, 1, 2, 70}
    BY <1>5 DEF BuildLookup
  <2> QED BY <1>5, <2>1, <2>2 DEF BuildLookup
<1>6. CASE VerifyLocally
  <2>1. DOMAIN lookups' \subseteq Digests
    BY <1>6, LookedUpDigests DEF VerifyLocally
  <2>2. \A g \in DOMAIN results' : results'[g].status \in Statuses
    BY <1>6, ClassifiedStatuses DEF VerifyLocally
  <2> QED BY <1>6, <2>1, <2>2 DEF VerifyLocally, AfterVerify
<1>7. CASE VerifyByApi
  <2>1. DOMAIN lookups' \subseteq Digests
    BY <1>7, LookedUpDigests DEF VerifyByApi
  <2>2. \A g \in DOMAIN results' : results'[g].status \in Statuses
    BY <1>7, ClassifiedStatuses DEF VerifyByApi
  <2> QED BY <1>7, <2>1, <2>2 DEF VerifyByApi, AfterVerify
<1>8. CASE VerifyApiDown
  <2>1. DOMAIN lookups' \subseteq Digests
    BY <1>8, LookedUpDigests DEF VerifyApiDown
  <2>2. \A g \in DOMAIN results' : results'[g].status \in Statuses
    BY <1>8, ClassifiedStatuses DEF VerifyApiDown
  <2> QED BY <1>8, <2>1, <2>2 DEF VerifyApiDown, AfterVerify
<1>9. CASE VerifyCrashes
  BY <1>9 DEF VerifyCrashes
<1>10. CASE ExportEmpty
  BY <1>10 DEF ExportEmpty, ExportWritten, ExportFailed
<1>11. CASE Export
  BY <1>11 DEF Export, ExportWritten, ExportFailed
<1>12. CASE Render
  BY <1>12 DEF Render
<1>13. CASE SnapshotChanges
  <2>1. installs' \in 0 .. MaxInstalls
    BY <1>13, ScanConstants DEF SnapshotChanges
  <2>2. snapshot' \in SnapshotFiles /\ stable' \in BOOLEAN
    BY ONLY <1>13 DEF SnapshotChanges
  <2>3. UNCHANGED <<pc, opts, groups, at, loaded, lookups, results, rendered,
                    exit, apiDown>>
    BY ONLY <1>13 DEF SnapshotChanges, process
  <2> QED BY <2>1, <2>2, <2>3
<1>14. CASE UNCHANGED vars
  BY <1>14 DEF vars, process
<1>15. CASE DiscoverFails
  BY <1>15 DEF DiscoverFails
<1> QED
  BY <1>1, <1>2, <1>3, <1>4, <1>5, <1>6, <1>7, <1>8, <1>9, <1>10, <1>11,
     <1>12, <1>13, <1>14, <1>15 DEF Next, Step

-----------------------------------------------------------------------------
(***************************************************************************)
(* Stages and exit codes.                                                  *)
(***************************************************************************)

\* The digest an export writes is never mistaken for "nothing exported".
LEMMA DigestIsAValue == TypeOK => ManifestDigestForExport # NoValue
BY ScanConstants DEF TypeOK, ManifestDigestForExport, LoadOutcome

\* A scan starts at its first stage.
LEMMA StagesInit == Init => StagesInv
BY ScanConstants DEF Init, StagesInv, Early, ExitCodeIsHonest

\* Each stage may assume what the earlier ones did.
LEMMA StagesStep == TypeOK /\ StagesInv /\ [Next]_vars => StagesInv'
<1> SUFFICES ASSUME TypeOK, StagesInv, [Next]_vars PROVE StagesInv'
  OBVIOUS
<1> USE ScanConstants DEF StagesInv, Early, ExitCodeIsHonest, Goto, ExitWith
<1>1. CASE CheckOptions
  BY <1>1 DEF CheckOptions
<1>2. CASE Discover
  BY <1>2 DEF Discover
<1>3. CASE ReportEmpty
  BY <1>3 DEF ReportEmpty
<1>4. CASE HashArtifact
  BY <1>4 DEF HashArtifact
<1>5. CASE BuildLookup
  BY <1>5 DEF BuildLookup
<1>6. CASE VerifyLocally
  BY <1>6 DEF VerifyLocally, Classified, AfterVerify
<1>7. CASE VerifyByApi
  BY <1>7 DEF VerifyByApi, Classified, AfterVerify
<1>8. CASE VerifyApiDown
  BY <1>8 DEF VerifyApiDown, Classified, AfterVerify
<1>9. CASE VerifyCrashes
  BY <1>9 DEF VerifyCrashes
<1>10. CASE ExportEmpty
  BY <1>10, DigestIsAValue DEF ExportEmpty, ExportWritten, ExportFailed
<1>11. CASE Export
  BY <1>11, DigestIsAValue DEF Export, ExportWritten, ExportFailed
<1>12. CASE Render
  BY <1>12 DEF Render
<1>13. CASE SnapshotChanges
  BY <1>13 DEF SnapshotChanges, process
<1>14. CASE UNCHANGED vars
  BY <1>14 DEF vars, process
<1>15. CASE DiscoverFails
  BY <1>15 DEF DiscoverFails
<1> QED
  BY <1>1, <1>2, <1>3, <1>4, <1>5, <1>6, <1>7, <1>8, <1>9, <1>10, <1>11,
     <1>12, <1>13, <1>14, <1>15 DEF Next, Step

-----------------------------------------------------------------------------
(***************************************************************************)
(* What the results rest on.                                               *)
(***************************************************************************)
LEMMA BasisInit == Init => BasisInv
BY DEF Init, BasisInv

\* Results rest on the lookups, and local ones on the loaded snapshot.
LEMMA BasisStep ==
  TypeOK /\ StagesInv /\ BasisInv /\ QuietInv /\ [Next]_vars => BasisInv'
<1> SUFFICES ASSUME TypeOK, StagesInv, BasisInv, QuietInv, [Next]_vars
             PROVE  BasisInv'
  OBVIOUS
<1> USE DEF BasisInv, StagesInv, Early, Classified, LocalLookup
<1>1. CASE CheckOptions
  BY <1>1 DEF CheckOptions
<1>2. CASE Discover
  BY <1>2 DEF Discover
<1>3. CASE ReportEmpty
  BY <1>3 DEF ReportEmpty
<1>4. CASE HashArtifact
  BY <1>4 DEF HashArtifact
<1>5. CASE BuildLookup
  BY <1>5 DEF BuildLookup
<1>6. CASE VerifyLocally
  BY <1>6 DEF VerifyLocally, QuietInv
<1>7. CASE VerifyByApi
  BY <1>7 DEF VerifyByApi
<1>8. CASE VerifyApiDown
  BY <1>8 DEF VerifyApiDown
<1>9. CASE VerifyCrashes
  BY <1>9 DEF VerifyCrashes
<1>10. CASE ExportEmpty
  BY <1>10 DEF ExportEmpty
<1>11. CASE Export
  BY <1>11 DEF Export
<1>12. CASE Render
  BY <1>12 DEF Render
<1>13. CASE SnapshotChanges
  BY <1>13 DEF SnapshotChanges, process
<1>14. CASE UNCHANGED vars
  BY <1>14 DEF vars, process
<1>15. CASE DiscoverFails
  BY <1>15 DEF DiscoverFails
<1> QED
  BY <1>1, <1>2, <1>3, <1>4, <1>5, <1>6, <1>7, <1>8, <1>9, <1>10, <1>11,
     <1>12, <1>13, <1>14, <1>15 DEF Next, Step

-----------------------------------------------------------------------------
(***************************************************************************)
(* The snapshot of an undisturbed scan.                                    *)
(***************************************************************************)
LEMMA QuietInit == Init => QuietInv
BY DEF Init, QuietInv, QuietExportNamesTheSnapshot

\* While nobody changes the snapshot, the loaded one is the one installed.
LEMMA QuietStep == TypeOK /\ StagesInv /\ QuietInv /\ [Next]_vars => QuietInv'
<1> SUFFICES ASSUME TypeOK, StagesInv, QuietInv, [Next]_vars PROVE QuietInv'
  OBVIOUS
<1> USE DEF QuietInv, QuietExportNamesTheSnapshot, TypeOK, StagesInv, Early,
            Goto, ExitWith
<1>1. CASE CheckOptions
  BY <1>1 DEF CheckOptions
<1>2. CASE Discover
  BY <1>2 DEF Discover
<1>3. CASE ReportEmpty
  BY <1>3 DEF ReportEmpty
<1>4. CASE HashArtifact
  BY <1>4 DEF HashArtifact
<1>5. CASE BuildLookup
  BY <1>5 DEF BuildLookup
<1>6. CASE VerifyLocally
  BY <1>6 DEF VerifyLocally, AfterVerify
<1>7. CASE VerifyByApi
  BY <1>7 DEF VerifyByApi, AfterVerify
<1>8. CASE VerifyApiDown
  BY <1>8 DEF VerifyApiDown, AfterVerify
<1>9. CASE VerifyCrashes
  BY <1>9 DEF VerifyCrashes
<1>10. CASE ExportEmpty
  BY <1>10 DEF ExportEmpty, ExportWritten, ExportFailed, ManifestDigestForExport
<1>11. CASE Export
  BY <1>11 DEF Export, ExportWritten, ExportFailed, ManifestDigestForExport
<1>12. CASE Render
  BY <1>12 DEF Render
<1>13. CASE SnapshotChanges
  BY <1>13 DEF SnapshotChanges, process
<1>14. CASE UNCHANGED vars
  BY <1>14 DEF vars, process
<1>15. CASE DiscoverFails
  BY <1>15 DEF DiscoverFails
<1> QED
  BY <1>1, <1>2, <1>3, <1>4, <1>5, <1>6, <1>7, <1>8, <1>9, <1>10, <1>11,
     <1>12, <1>13, <1>14, <1>15 DEF Next, Step

-----------------------------------------------------------------------------
(***************************************************************************)
(* The inductive invariant, and what it is for.                            *)
(***************************************************************************)
LEMMA Invariant == Spec => []IInv
<1>1. Init => IInv
  BY TypeInit, StagesInit, BasisInit, QuietInit DEF IInv
<1>2. IInv /\ [Next]_vars => IInv'
  BY TypeStep, StagesStep, BasisStep, QuietStep DEF IInv
<1> QED BY <1>1, <1>2, PTL DEF Spec

(***************************************************************************)
(* The state of a scan is well formed.                                     *)
(***************************************************************************)
THEOREM TypeCorrect == Spec => []TypeOK
<1>1. IInv => TypeOK
  BY DEF IInv
<1> QED BY <1>1, Invariant, PTL

(***************************************************************************)
(* Exit codes of scan: 0 only with a report of every group and the         *)
(* inventory written, 2 and 70 only with nothing verified or written.      *)
(***************************************************************************)
THEOREM ExitCodesAreHonest == Spec => []ExitCodeIsHonest
<1>1. IInv => ExitCodeIsHonest
  BY DEF IInv, StagesInv
<1> QED BY <1>1, Invariant, PTL

(***************************************************************************)
(* The digest exported by a scan that no other process disturbed is that   *)
(* of the snapshot its verdicts rest on.                                   *)
(***************************************************************************)
THEOREM QuietExport == Spec => []QuietExportNamesTheSnapshot
<1>1. IInv => QuietExportNamesTheSnapshot
  BY DEF IInv, QuietInv
<1> QED BY <1>1, Invariant, PTL

\* A VERIFIED group has a record for every digest, all of its model.
LEMMA VerifiedGroup ==
  ASSUME NEW group, NEW found, ClassifyGroup(group, found).status = Verified
  PROVE  /\ group.digests # <<>>
         /\ ClassifyGroup(group, found).model # NoModel
         /\ \A i \in DOMAIN group.digests :
              LET d == group.digests[i]
              IN  /\ d \in DOMAIN found
                  /\ found[d].status = "verified"
                  /\ found[d].claims # NoClaims
                  /\ found[d].claims.model = ClassifyGroup(group, found).model
<1> DEFINE looked == ArtifactLookups(group, found)
<1>1. SameModel(looked)
  BY DEF ClassifyGroup, Verified, UnknownVariant, NotEnrolled
<1>2. ClassifyGroup(group, found).model = looked[1].claims.model
  BY <1>1 DEF ClassifyGroup
<1>3. DOMAIN looked = DOMAIN group.digests
  BY DEF ArtifactLookups
<1>4. group.digests # <<>>
  BY <1>1 DEF SameModel, AllVerified, ArtifactLookups
<1>5. ASSUME NEW i \in DOMAIN group.digests
      PROVE  LET d == group.digests[i]
             IN  /\ d \in DOMAIN found
                 /\ found[d].status = "verified"
                 /\ found[d].claims # NoClaims
                 /\ found[d].claims.model = looked[1].claims.model
  <2>1. HasRecord(looked[i]) /\ looked[i].claims.model = looked[1].claims.model
    BY <1>1, <1>3 DEF SameModel, AllVerified
  <2>2. looked[i] = ArtifactLookup(group.digests[i], found)
    BY DEF ArtifactLookups
  <2> QED BY <2>1, <2>2 DEF ArtifactLookup, HasRecord, LookupError, LookupResult
<1>6. ClassifyGroup(group, found).model # NoModel
  BY <1>1, <1>2 DEF SameModel
<1> QED BY <1>2, <1>4, <1>5, <1>6

(***************************************************************************)
(* A group is VERIFIED only on a signed record for each of its digests,    *)
(* all of one model, and in a local scan on those of the loaded snapshot.  *)
(***************************************************************************)
THEOREM VerdictsEarned == Spec => []VerdictsAreEarned
<1>1. IInv => VerdictsAreEarned
  <2> SUFFICES ASSUME IInv, NEW g \in DOMAIN results, results[g].status = Verified
               PROVE  VerifiedIsEarned(g)
    BY DEF VerdictsAreEarned, VerifiedIsEarned
  <2>1. results # <<>>
    OBVIOUS
  <2>2. g \in DOMAIN groups /\ results[g] = ClassifyGroup(groups[g], lookups)
    BY <2>1 DEF IInv, BasisInv, Classified
  <2>3. ASSUME opts.localOnly, NEW d \in DOMAIN lookups, lookups[d].claims # NoClaims
        PROVE  LookupHash(loaded, d) = lookups[d].claims
    BY <2>1, <2>3 DEF IInv, BasisInv, LocalLookup, LookupResult
  <2> QED BY <2>2, <2>3, VerifiedGroup DEF VerifiedIsEarned
<1> QED BY <1>1, Invariant, PTL

-----------------------------------------------------------------------------
(***************************************************************************)
(* Enrolled groups.                                                        *)
(***************************************************************************)

\* records_by_hash holds the claims of one of the entries that list the hash.
LEMMA RecordIsIndexed ==
  ASSUME NEW doc \in SnapshotFiles, LoadOutcome(doc) = "loaded", NEW h,
         IndexedAt(doc, h) # {}
  PROVE  /\ LookupHash(doc, h) # NoClaims
         /\ \E k \in IndexedAt(doc, h) : LookupHash(doc, h) = doc.models[k].claims
<1> DEFINE found == IndexedAt(doc, h)
           last == CHOOSE i \in found : \A j \in found : j <= i
<1>1. found \subseteq DOMAIN doc.models
  BY DEF IndexedAt
<1>2. \E i \in found : \A j \in found : j <= i
  <2>1. Len(doc.models) \in Nat /\ DOMAIN doc.models = 1 .. Len(doc.models)
    BY ScanConstants
  <2> QED BY <1>1, <2>1, LastPosition
<1>3. last \in found
  BY <1>2
<1>4. LookupHash(doc, h) = doc.models[last].claims
  BY DEF LookupHash, RecordByHash
<1> QED BY <1>1, <1>3, <1>4, ScanConstants

\* A group with a record for every digest, all of one model, is VERIFIED.
LEMMA RecordedGroup ==
  ASSUME NEW group, NEW found, NEW m, m # NoModel,
         group.digests # <<>>, NEW n \in Nat, DOMAIN group.digests = 1 .. n,
         1 \in DOMAIN group.digests,
         \A i \in DOMAIN group.digests :
           /\ group.digests[i] # NoDigest
           /\ group.digests[i] \in DOMAIN found
           /\ HasRecord(found[group.digests[i]])
           /\ found[group.digests[i]].claims.model = m
  PROVE  ClassifyGroup(group, found).status = Verified
<1> DEFINE looked == ArtifactLookups(group, found)
<1>1. DOMAIN looked = DOMAIN group.digests
  BY DEF ArtifactLookups
<1>2. \A i \in DOMAIN looked : looked[i] = found[group.digests[i]]
  BY DEF ArtifactLookups, ArtifactLookup
<1>3. looked # <<>>
  BY <1>1
<1>4. SameModel(looked)
  BY <1>1, <1>2, <1>3 DEF SameModel, AllVerified
<1> QED BY <1>4 DEF ClassifyGroup

(***************************************************************************)
(* In a local scan, a readable group whose digests one signed record of    *)
(* the loaded snapshot lists, and no record of another model does, is      *)
(* VERIFIED: no step of the pipeline loses a digest or an answer.          *)
(***************************************************************************)
THEOREM EnrolledVerified == Spec => []EnrolledIsVerified
<1>1. IInv => EnrolledIsVerified
  <2> SUFFICES ASSUME IInv, NEW g \in DOMAIN results, opts.localOnly,
                      groups[g].digests # <<>>,
                      NEW k \in DOMAIN loaded.models,
                      ListsAll(loaded.models[k], groups[g]),
                      Uncontested(loaded.models[k], groups[g])
               PROVE  results[g].status = Verified
    BY DEF EnrolledIsVerified
  <2> DEFINE entry == loaded.models[k]
  <2>1. results # <<>>
    OBVIOUS
  <2>2. /\ results = Classified(lookups)
        /\ lookups = [h \in HashesToLookUp(groups) |-> LocalLookup(h)]
        /\ loaded \in SnapshotFiles
        /\ LoadOutcome(loaded) = "loaded"
    BY <2>1 DEF IInv, BasisInv
  <2>3. g \in DOMAIN groups /\ results[g] = ClassifyGroup(groups[g], lookups)
    BY <2>2 DEF Classified
  <2>4. groups \in Seq(Group)
    BY DEF IInv, TypeOK
  <2>5. groups[g] \in Group
    BY <2>3, <2>4, ElementOfSeq, LenProperties
  <2>6. groups[g].digests \in Seq(Digests \cup {NoDigest})
    BY <2>5 DEF Group
  <2>7. ASSUME NEW i \in DOMAIN groups[g].digests
        PROVE  /\ groups[g].digests[i] # NoDigest
               /\ groups[g].digests[i] \in DOMAIN lookups
               /\ HasRecord(lookups[groups[g].digests[i]])
               /\ lookups[groups[g].digests[i]].claims.model = entry.claims.model
    <3> DEFINE d == groups[g].digests[i]
    <3>1. d # NoDigest /\ d \in ExtractArtifactHashes(entry)
      BY DEF ListsAll
    <3>2. d \in HashesToLookUp(groups)
      BY <2>3, <3>1 DEF HashesToLookUp
    <3>3. k \in IndexedAt(loaded, d)
      BY <3>1 DEF IndexedAt, ListsAll
    <3>4. PICK j \in IndexedAt(loaded, d) : LookupHash(loaded, d) = loaded.models[j].claims
      BY <2>2, <3>3, RecordIsIndexed
    <3>5. LookupHash(loaded, d) # NoClaims
      BY <2>2, <3>3, RecordIsIndexed
    <3>6. loaded.models[j].claims.model = entry.claims.model
      BY DEF Uncontested
    <3>7. lookups[d] = LookupResult(d, "verified", LookupHash(loaded, d))
      BY <2>2, <3>2, <3>5 DEF LocalLookup
    <3> QED BY <2>2, <3>1, <3>2, <3>4, <3>5, <3>6, <3>7 DEF HasRecord, LookupResult
  <2>8. 1 \in DOMAIN groups[g].digests /\ Len(groups[g].digests) \in Nat
        /\ DOMAIN groups[g].digests = 1 .. Len(groups[g].digests)
    BY <2>6, EmptySeq, LenProperties
  <2>9. entry.claims.model # NoModel
    BY DEF ListsAll
  <2>10. ClassifyGroup(groups[g], lookups).status = Verified
    <3> HIDE DEF entry
    <3> QED BY <2>7, <2>8, <2>9, RecordedGroup
  <2> QED BY <2>3, <2>10
<1> QED BY <1>1, Invariant, PTL

=============================================================================
