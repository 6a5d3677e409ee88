------------------------------ MODULE Scanner -------------------------------
(***************************************************************************)
(* The verdict rules of scanner.py: which digests of a set of model groups *)
(* are looked up, and what the answers make of each group.                 *)
(*                                                                         *)
(* A hashed model group is a record [claim, digests]: the model_id its     *)
(* location claims (NoModel if none), and the digests of its artifacts in  *)
(* order, NoDigest standing for the empty string that the hashing layer    *)
(* leaves on a file it could not read.                                     *)
(***************************************************************************)
EXTENDS Naturals, Sequences, LookupResults

CONSTANTS
  NoDigest,    \* the empty sha256 of an artifact that could not be read
  NoModel      \* no model_id: None in a record; for a group also ""

Verified       == "verified"
UnknownVariant == "unknown_variant"
NotEnrolled    == "not_enrolled"
Statuses       == {Verified, UnknownVariant, NotEnrolled}

\* Mutation of HashesToLookUp: only the representative of each group.
RepresentativesToLookUp(groups) ==
  {groups[g].digests[1] : g \in {k \in DOMAIN groups : groups[k].digests # <<>>}}
    \ {NoDigest}

\* The distinct digests verify_groups asks its HashLookup for.
HashesToLookUp(groups) ==
  (UNION {{groups[g].digests[i] : i \in DOMAIN groups[g].digests} :
            g \in DOMAIN groups}) \ {NoDigest}

\* The lookup of one artifact: unreadable, missing from the answers, or found.
ArtifactLookup(d, lookups) ==
  IF d = NoDigest \/ d \notin DOMAIN lookups
  THEN LookupError(d)
  ELSE lookups[d]

ArtifactLookups(group, lookups) ==
  [i \in DOMAIN group.digests |-> ArtifactLookup(group.digests[i], lookups)]

\* One artifact's answer names a record.
HasRecord(result) == result.status = "verified" /\ result.claims # NoClaims

\* all_verified: every artifact has a record, and there is at least one.
AllVerified(looked) ==
  /\ looked # <<>>
  /\ \A i \in DOMAIN looked : HasRecord(looked[i])

\* Mutation of SameModel: the first record speaks for the others.
FirstModelOnly(looked) ==
  /\ AllVerified(looked)
  /\ looked[1].claims.model # NoModel

\* same_model: the records name one model_id between them, and it is not None.
SameModel(looked) ==
  /\ AllVerified(looked)
  /\ looked[1].claims.model # NoModel
  /\ \A i \in DOMAIN looked : looked[i].claims.model = looked[1].claims.model

\* Mutation of ClassifyGroup: a verdict of its own when no lookup worked.
ClassifyGroupOrError(group, lookups) ==
  LET looked == ArtifactLookups(group, lookups)
  IN  [status  |-> IF SameModel(looked) THEN Verified ELSE "error",
       model   |-> group.claim,
       matched |-> NoClaims,
       sha     |-> NoDigest,
       lookups |-> looked]

(***************************************************************************)
(* _classify_group: the GroupScanResult, reduced to the verdict, the       *)
(* model_id shown with it, the record it rests on, the representative      *)
(* digest and the per-artifact answers.                                    *)
(***************************************************************************)
ClassifyGroup(group, lookups) ==
  LET looked == ArtifactLookups(group, lookups)
      status == IF SameModel(looked) THEN Verified
                ELSE IF group.claim # NoModel THEN UnknownVariant
                ELSE NotEnrolled
  IN  [status  |-> status,
       model   |-> IF status = Verified THEN looked[1].claims.model
                   ELSE group.claim,
       matched |-> IF status = Verified THEN looked[1].claims ELSE NoClaims,
       sha     |-> IF looked = <<>> THEN NoDigest ELSE group.digests[1],
       lookups |-> looked]

=============================================================================
