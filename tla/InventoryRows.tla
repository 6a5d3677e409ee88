--------------------------- MODULE InventoryRows ----------------------------
(***************************************************************************)
(* The rows of the inventory (export.py): one per result of verify_groups, *)
(* with the columns derived from its verdict and record, and with the scan *)
(* root it belongs to.                                                     *)
(*                                                                         *)
(* A scan's outcome is a record [groups, lookups, roots]: the hashed       *)
(* groups, the answers of the lookup, and the scan roots.  A path is the   *)
(* sequence of its names.  Model_ids and group ids are numbers, in the     *)
(* order Python sorts the strings.  A group has, beside its claimed        *)
(* model_id, whether artifacts[0].claim has a source: named.  A claims     *)
(* record also has the parts of the evidence that columns depend on:       *)
(*   lane      evidence_class: "artifact_identity",                        *)
(*             "itpuf_structural_identity", "absent" or "other"            *)
(*   evidence  evidence_digest, or NoDigest                                *)
(*   artifact  artifact_manifest_digest, or NoDigest                       *)
(*   format    artifact_format                                             *)
(***************************************************************************)
EXTENDS Naturals, Sequences, FiniteSets

CONSTANTS
  NoDigest,   \* an empty digest column
  NoModel,    \* an empty model_id column
  NoClaims,   \* no record
  NoPath      \* an empty path column, or a root that resolved to nothing

INSTANCE Scanner

LOCAL INSTANCE SequencesExt

Sources == {"hf_cache", "ollama", "path"}
Models  == Nat \cup {NoModel}

\* A scan's outcome, as steps 1 to 3 of the scan command leave it.
IsOutcome(scan) ==
  /\ scan.groups \in Seq({scan.groups[g] : g \in DOMAIN scan.groups})
  /\ \A g \in DOMAIN scan.groups :
       LET group == scan.groups[g]
       IN  /\ group.source \in Sources /\ group.id \in Nat /\ group.claim \in Models
           /\ group.named = (group.claim # NoModel)    \* every adapter sets both
           /\ group.digests \in Seq({group.digests[i] : i \in DOMAIN group.digests})
  /\ \A h \in DOMAIN scan.lookups :
       LET claims == scan.lookups[h].claims
       IN  claims # NoClaims => claims.model \in Models
  /\ scan.roots \in Seq({scan.roots[i] : i \in DOMAIN scan.roots})

Result(group, lookups) ==
  [group |-> group, verdict |-> ClassifyGroup(group, lookups)]

\* verify_groups: the GroupScanResults, in the order of the groups.
Results(scan) ==
  [g \in DOMAIN scan.groups |-> Result(scan.groups[g], scan.lookups)]

Record(r) == r.verdict.matched
HasMatch(r) == Record(r) # NoClaims

\* evidence_class names the structural lane, or is absent (legacy anchors).
IsLaneA(claims) == claims.lane \in {"itpuf_structural_identity", "absent"}

-----------------------------------------------------------------------------
(***************************************************************************)
(* Columns.                                                                *)
(***************************************************************************)
BoundDigest(claims) ==
  IF claims.lane = "artifact_identity" THEN claims.artifact ELSE claims.evidence

\* Mutation of DeepApplicable: whatever is not lane B (an earlier version).
DeepUnlessLaneB(r) ==
  /\ r.verdict.status = Verified
  /\ Record(r).lane # "artifact_identity"
  /\ Record(r).evidence # NoDigest

\* _deep_runtime_claim_applicable
DeepApplicable(r) ==
  /\ r.verdict.status = Verified /\ HasMatch(r)
  /\ IsLaneA(Record(r))
  /\ Record(r).evidence # NoDigest

\* _tokenizer_surface_coverage
Coverage(r) ==
  IF r.verdict.status # Verified \/ ~HasMatch(r) THEN "unknown_unverified"
  ELSE IF Record(r).format = "ollama_blob" THEN "covered_by_verified_container"
  ELSE IF IsLaneA(Record(r)) /\ Record(r).evidence # NoDigest
       THEN "opaque_structural_evidence_binding"
  ELSE "not_covered"

RegistryMatch(status) ==
  CASE status = Verified       -> "exact"
    [] status = UnknownVariant -> "name_only"
    [] OTHER                   -> "none"

ModelIdSource(r) ==
  IF HasMatch(r) THEN "registry_record"
  ELSE IF r.group.named THEN "local_metadata"
  ELSE "none"

ModelId(r) == IF HasMatch(r) THEN Record(r).model ELSE r.group.claim

-----------------------------------------------------------------------------
(***************************************************************************)
(* The join with the scan roots.                                           *)
(***************************************************************************)
Candidates(r, roots) ==
  {i \in DOMAIN roots : /\ roots[i].ecosystem = r.group.source
                        /\ roots[i].resolved # NoPath}

\* os.path.commonpath([root, artifact]) == root
IsAbove(sr, path) == IsPrefix(sr.resolved, path)

ContainsSome(sr, r) == \E i \in DOMAIN r.group.paths : IsAbove(sr, r.group.paths[i])

\* The path of the first root of those at the positions `some`.
FirstPath(roots, some) == roots[CHOOSE i \in some : \A j \in some : i <= j].resolved

\* Mutation of ScanRootFor: the first root of the ecosystem (an earlier version).
FirstOfEcosystem(r, roots) ==
  IF Candidates(r, roots) = {} THEN NoPath
  ELSE FirstPath(roots, Candidates(r, roots))

\* _scan_root_for: the first root that contains an artifact, else the first.
ScanRootFor(r, roots) ==
  LET all  == Candidates(r, roots)
      hits == {i \in all : ContainsSome(roots[i], r)}
  IN  IF hits # {} THEN FirstPath(roots, hits)
      ELSE IF all # {} THEN FirstPath(roots, all)
      ELSE NoPath

\* Loose files: the directory of one, the common directory of several.
CommonDir(paths) ==
  IF Len(paths) = 1 THEN Front(paths[1])
  ELSE LongestCommonPrefix({paths[i] : i \in DOMAIN paths})

CacheRoot(r, roots) ==
  IF r.group.source = "path" THEN CommonDir(r.group.paths)
  ELSE ScanRootFor(r, roots)

-----------------------------------------------------------------------------
(***************************************************************************)
(* _row_for_group.  The path columns are filled only on request.           *)
(***************************************************************************)
RowFor(r, roots, includePaths) ==
  [provider  |-> r.group.source,
   modelId   |-> ModelId(r),
   idSource  |-> ModelIdSource(r),
   status    |-> r.verdict.status,
   match     |-> RegistryMatch(r.verdict.status),
   bound     |-> IF r.verdict.status = Verified /\ HasMatch(r)
                 THEN BoundDigest(Record(r)) ELSE NoDigest,
   artifacts |-> Len(r.group.digests),
   deep      |-> DeepApplicable(r),
   coverage  |-> Coverage(r),
   cacheRoot |-> IF includePaths THEN CacheRoot(r, roots) ELSE NoPath,
   paths     |-> IF includePaths THEN r.group.paths ELSE <<>>]

\* Python's order of the provider labels: huggingface_cache, ollama, path.
Rank(source) ==
  CASE source = "hf_cache" -> 1 [] source = "ollama" -> 2 [] source = "path" -> 3

\* The empty model_id sorts before every other.
ModelRank(m) == IF m = NoModel THEN 0 ELSE m

SortKey(r) == <<Rank(r.group.source), ModelRank(ModelId(r)), r.group.id>>

\* Mutation of SortsBefore: groups of one model are left as they come.
SortsBeforeByModel(r, s) ==
  LET k == SortKey(r)
      l == SortKey(s)
  IN  k[1] < l[1] \/ (k[1] = l[1] /\ k[2] < l[2])

SortsBefore(r, s) ==
  LET k == SortKey(r)
      l == SortKey(s)
  IN  \/ k[1] < l[1]
      \/ k[1] = l[1] /\ k[2] < l[2]
      \/ k[1] = l[1] /\ k[2] = l[2] /\ k[3] < l[3]

\* sorted() is stable: what neither key puts first stays in order.
Earlier(rs, i, j) ==
  \/ SortsBefore(rs[i], rs[j])
  \/ ~SortsBefore(rs[j], rs[i]) /\ i < j

\* The place of result i is after all the earlier ones.
Place(rs, i) == Cardinality({j \in DOMAIN rs : Earlier(rs, j, i)}) + 1

\* _sorted_results
SortedResults(rs) ==
  [k \in DOMAIN rs |-> rs[CHOOSE i \in DOMAIN rs : Place(rs, i) = k]]

\* The rows of a scan's inventory, in order.
Rows(scan, includePaths) ==
  LET sorted == SortedResults(Results(scan))
  IN  [k \in DOMAIN sorted |-> RowFor(sorted[k], scan.roots, includePaths)]

=============================================================================
