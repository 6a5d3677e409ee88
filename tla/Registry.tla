------------------------------ MODULE Registry ------------------------------
(***************************************************************************)
(* The local registry snapshot (registry.py): what load_snapshot makes of  *)
(* the file ~/.cache/fallrisk-trustfall/registry.json, and lookup_hash.    *)
(*                                                                         *)
(* A snapshot file is abstracted to a record:                              *)
(*   parse     how far json.load gets: "json" (an object), "not_json",     *)
(*             "not_utf8", "not_object"                                    *)
(*   manifest  whether doc["manifest"] is an object                        *)
(*   signature "missing" (or no string), "bad", "good"                     *)
(*   digest    manifest["manifest_digest"]                                 *)
(*   models    the entries of doc["models"], in document order             *)
(* An entry has wellFormed (record and signature of the right types),      *)
(* signed (its JWS verifies under the bundled key), claims (the signed     *)
(* payload: model_id and the hashes it lists) and unsigned (the hashes the *)
(* plain `record` object lists).                                           *)
(***************************************************************************)
EXTENDS Naturals, Sequences

CONSTANTS
  NoFile,      \* the snapshot path names no regular file
  NoClaims     \* "no record": the None of records_by_hash.get

(***************************************************************************)
(* What load_snapshot does with a file, before it looks at the records:    *)
(* return a LoadedSnapshot ("loaded"), raise SnapshotError ("rejected"),   *)
(* or let another exception out ("uncaught"): UnicodeDecodeError is no     *)
(* OSError and no JSONDecodeError, and doc.get fails on a non-object.      *)
(***************************************************************************)
LoadOutcome(file) ==
  IF file = NoFile THEN "rejected"
  ELSE IF file.parse \in {"not_utf8", "not_object"} THEN "uncaught"
  ELSE IF /\ file.parse = "json"
          /\ file.manifest
          /\ file.signature = "good"
       THEN "loaded"
       ELSE "rejected"

(***************************************************************************)
(* _extract_artifact_hashes: the signed list, or the unsigned one when the *)
(* signed claims have none.                                                *)
(***************************************************************************)
ExtractArtifactHashes(entry) ==
  IF entry.claims.hashes # {} THEN entry.claims.hashes ELSE entry.unsigned

\* The positions of the entries that load_snapshot indexes under hash h.
IndexedAt(doc, h) ==
  {i \in DOMAIN doc.models : /\ doc.models[i].wellFormed
                             /\ doc.models[i].signed
                             /\ h \in ExtractArtifactHashes(doc.models[i])}

(***************************************************************************)
(* records_by_hash[h]: entries are visited in document order and a later   *)
(* one overwrites, so the last one that lists h is the one kept.           *)
(***************************************************************************)
RecordByHash(doc, h) ==
  LET at == IndexedAt(doc, h)
  IN  IF at = {} THEN NoClaims
      ELSE doc.models[CHOOSE i \in at : \A j \in at : j <= i].claims

\* lookup_hash on the LoadedSnapshot of doc.
LookupHash(doc, h) == RecordByHash(doc, h)

=============================================================================
