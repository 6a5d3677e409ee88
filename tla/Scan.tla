-------------------------------- MODULE Scan --------------------------------
(***************************************************************************)
(* One run of `trustfall scan` (cli.py), from option checking to the exit  *)
(* code, while other trustfall processes may replace or remove the local   *)
(* registry snapshot.                                                      *)
(*                                                                         *)
(* The stages are those of the function: check the export options,         *)
(* discover groups, hash them artifact by artifact, build the lookup,      *)
(* verify, export, render.  Hashing an artifact reads its file at that     *)
(* moment, so two artifacts that name one file may get different digests.  *)
(* The answers of the API are those ApiClient lets verify_manifest return. *)
(***************************************************************************)
EXTENDS Naturals, Sequences, Registry

CONSTANTS
  Digests,       \* well-formed SHA-256 digests
  Models,        \* model_ids
  NoDigest,      \* the empty digest
  NoModel,       \* no model_id
  Claims,        \* the signed record payloads the API may serve
  Inventories,   \* what discovery may return: sequences of unhashed groups
  SnapshotFiles, \* what may be installed at the snapshot path
  NoValue,       \* not there yet
  MaxInstalls    \* bound on how often other processes change the snapshot

INSTANCE Scanner

\* A model group before, during and after hashing.  It is plain if no word
\* the report shows with it contains a forbidden phrase (formatter.py).
Group == [claim : Models \cup {NoModel}, plain : BOOLEAN,
          digests : Seq(Digests \cup {NoDigest})]

ASSUME ScanConstants ==
  /\ NoDigest \notin Digests
  /\ NoModel \notin Models
  /\ NoClaims \notin Claims
  /\ \A c \in Claims : c.model \in Models \cup {NoModel}
  /\ Inventories \subseteq Seq(Group)
  /\ \A s \in SnapshotFiles :
       /\ s # NoValue
       /\ s # NoFile => s.digest # NoValue
       /\ LoadOutcome(s) = "loaded" =>
            /\ Len(s.models) \in Nat /\ DOMAIN s.models = 1 .. Len(s.models)
            /\ \A i \in DOMAIN s.models : s.models[i].claims # NoClaims
  /\ NoValue \notin {NoDigest, 0, 1, 2, 70}
  /\ MaxInstalls \in Nat

VARIABLES
  pc,        \* stage of the scan
  opts,      \* the options of the command line
  groups,    \* the model groups, their digests filled in up to `at`
  at,        \* <<g, i>>: artifact i of group g is the next to hash
  loaded,    \* the snapshot the local lookup was built on, or NoValue
  lookups,   \* digest -> APILookupResult
  results,   \* the GroupScanResults
  exported,  \* registry_manifest_digest of the inventory written, or NoValue
  rendered,  \* whether the whole report reached stdout
  exit,      \* exit code, or NoValue while running
  snapshot,  \* the file installed at the snapshot path
  installs,  \* how often it changed
  apiDown,   \* history: no request of the lookup was answered
  stable     \* history: the snapshot is still the one that was loaded

process == <<pc, opts, groups, at, loaded, lookups, results, exported,
             rendered, exit, apiDown>>
vars == <<process, snapshot, installs, stable>>

Options == [localOnly : BOOLEAN,
            json : BOOLEAN,
            export : {"none", "inventory", "bad_extension", "paths_only"}]

Stages == {"options", "discover", "empty", "empty_export", "hash", "lookup",
           "verify", "export", "render", "exit"}

-----------------------------------------------------------------------------
Init ==
  /\ pc = "options"
  /\ opts \in Options
  /\ groups = <<>>
  /\ at = <<1, 1>>
  /\ loaded = NoValue
  /\ lookups = [h \in {} |-> NoClaims]
  /\ results = <<>>
  /\ exported = NoValue
  /\ rendered = FALSE
  /\ exit = NoValue
  /\ snapshot \in SnapshotFiles
  /\ installs = 0
  /\ apiDown = FALSE
  /\ stable = FALSE

Goto(stage) == pc' = stage /\ UNCHANGED exit

ExitWith(code) == pc' = "exit" /\ exit' = code

(***************************************************************************)
(* --export-include-paths without --export, or an unknown extension, ends  *)
(* the command before anything is scanned.                                 *)
(***************************************************************************)
CheckOptions ==
  /\ pc = "options"
  /\ \/ opts.export \in {"none", "inventory"} /\ Goto("discover")
     \/ opts.export \in {"bad_extension", "paths_only"} /\ ExitWith(70)
  /\ UNCHANGED <<opts, groups, at, loaded, lookups, results, exported,
                 rendered, snapshot, installs, apiDown, stable>>

\* _discover_groups: no artifact has a digest yet.
Discover ==
  /\ pc = "discover"
  /\ groups' \in Inventories
  /\ Goto(IF groups' = <<>> THEN "empty" ELSE "hash")
  /\ UNCHANGED <<opts, at, loaded, lookups, results, exported, rendered,
                 snapshot, installs, apiDown, stable>>

\* Discovery meets a directory it may not open (see Discovery).
DiscoverFails ==
  /\ pc = "discover"
  /\ ExitWith(1)
  /\ UNCHANGED <<opts, groups, at, loaded, lookups, results, exported,
                 rendered, snapshot, installs, apiDown, stable>>

\* Nothing found: say so first, then write an inventory without rows.
ReportEmpty ==
  /\ pc = "empty"
  /\ rendered' = TRUE
  /\ \/ opts.export = "inventory" /\ Goto("empty_export")
     \/ opts.export # "inventory" /\ ExitWith(0)
  /\ UNCHANGED <<opts, groups, at, loaded, lookups, results, exported,
                 snapshot, installs, apiDown, stable>>

\* Mutation of HashArtifact: an unreadable file starts its group again.
HashGroupAgain ==
  /\ pc = "hash"
  /\ LET g == at[1]
         i == at[2]
         more == i < Len(groups[g].digests)
     IN  \E d \in Digests \cup {NoDigest} :
           /\ groups' = [groups EXCEPT ![g].digests[i] = d]
           /\ at' = IF d = NoDigest THEN <<g, 1>>
                    ELSE IF more THEN <<g, i + 1>> ELSE <<g + 1, 1>>
           /\ Goto(IF d = NoDigest \/ more \/ g < Len(groups) THEN "hash"
                   ELSE "lookup")
  /\ UNCHANGED <<opts, loaded, lookups, results, exported, rendered,
                 snapshot, installs, apiDown, stable>>

(***************************************************************************)
(* hash_groups: the artifacts in order.  The digest is whatever the bytes  *)
(* read give; a file that cannot be read keeps the empty digest.           *)
(***************************************************************************)
HashArtifact ==
  /\ pc = "hash"
  /\ LET g == at[1]
         i == at[2]
         more == i < Len(groups[g].digests)
     IN  /\ \E d \in Digests \cup {NoDigest} :
              groups' = [groups EXCEPT ![g].digests[i] = d]
         /\ at' = IF more THEN <<g, i + 1>> ELSE <<g + 1, 1>>
         /\ Goto(IF more \/ g < Len(groups) THEN "hash" ELSE "lookup")
  /\ UNCHANGED <<opts, loaded, lookups, results, exported, rendered,
                 snapshot, installs, apiDown, stable>>

(***************************************************************************)
(* Step 3 of scan: --local-only loads the snapshot, or exits with 2 (an    *)
(* exception load_snapshot does not convert: 1).  Otherwise                *)
(* _build_api_lookup makes an APIHashLookup without asking the API         *)
(* anything; it never returns None, so the branch that would load the      *)
(* snapshot instead is never taken.                                        *)
(***************************************************************************)
BuildLookup ==
  /\ pc = "lookup"
  /\ \/ /\ opts.localOnly
        /\ \/ /\ LoadOutcome(snapshot) = "loaded"
              /\ loaded' = snapshot
              /\ stable' = TRUE
              /\ Goto("verify")
           \/ /\ LoadOutcome(snapshot) = "rejected"
              /\ ExitWith(2)
              /\ UNCHANGED <<loaded, stable>>
           \/ /\ LoadOutcome(snapshot) = "uncaught"
              /\ ExitWith(1)
              /\ UNCHANGED <<loaded, stable>>
     \/ /\ ~opts.localOnly
        /\ Goto("verify")
        /\ UNCHANGED <<loaded, stable>>
  /\ UNCHANGED <<opts, groups, at, lookups, results, exported, rendered,
                 snapshot, installs, apiDown>>

\* LocalHashLookup.lookup_many for one digest.
LocalLookup(h) ==
  IF LookupHash(loaded, h) = NoClaims
  THEN LookupResult(h, "not_enrolled", NoClaims)
  ELSE LookupResult(h, "verified", LookupHash(loaded, h))

\* What verify_manifest may say of one digest: the record is any that is signed.
ApiAnswers ==
  {[status |-> st, claims |-> NoClaims] : st \in {"error", "not_enrolled"}}
    \cup {[status |-> "verified", claims |-> c] : c \in Claims}

\* Mutation of Classified: a group whose files could not be read is dropped.
ClassifiedReadable(found) ==
  LET readable == SelectSeq(groups, LAMBDA g : g.digests[1] # NoDigest)
  IN  [g \in DOMAIN readable |-> ClassifyGroup(readable[g], found)]

\* One result per group.
Classified(found) == [g \in DOMAIN groups |-> ClassifyGroup(groups[g], found)]

\* The inventory is written before the report.
AfterVerify == IF opts.export = "inventory" THEN "export" ELSE "render"

\* verify_groups over a LocalHashLookup.
VerifyLocally ==
  /\ pc = "verify"
  /\ opts.localOnly
  /\ lookups' = [h \in HashesToLookUp(groups) |-> LocalLookup(h)]
  /\ results' = Classified(lookups')
  /\ Goto(AfterVerify)
  /\ UNCHANGED <<opts, groups, at, loaded, exported, rendered, snapshot,
                 installs, apiDown, stable>>

\* verify_groups over an APIHashLookup: any answer for each digest.
VerifyByApi ==
  /\ pc = "verify"
  /\ ~opts.localOnly
  /\ \E answer \in [HashesToLookUp(groups) -> ApiAnswers] :
       lookups' = [h \in DOMAIN answer |->
                     LookupResult(h, answer[h].status, answer[h].claims)]
  /\ results' = Classified(lookups')
  /\ Goto(AfterVerify)
  /\ UNCHANGED <<opts, groups, at, loaded, exported, rendered, snapshot,
                 installs, apiDown, stable>>

\* While the API cannot be reached every digest asked for is an error.
VerifyApiDown ==
  /\ pc = "verify"
  /\ ~opts.localOnly
  /\ HashesToLookUp(groups) # {}
  /\ lookups' = [h \in HashesToLookUp(groups) |-> LookupError(h)]
  /\ results' = Classified(lookups')
  /\ apiDown' = TRUE
  /\ Goto(AfterVerify)
  /\ UNCHANGED <<opts, groups, at, loaded, exported, rendered, snapshot,
                 installs, stable>>

\* An answer that is JSON but no object: AttributeError, nothing catches it.
VerifyCrashes ==
  /\ pc = "verify"
  /\ ~opts.localOnly
  /\ HashesToLookUp(groups) # {}
  /\ ExitWith(1)
  /\ UNCHANGED <<opts, groups, at, loaded, lookups, results, exported,
                 rendered, snapshot, installs, apiDown, stable>>

\* Mutation of ManifestDigestForExport: resolved only for an API scan.
ManifestDigestOfApiScan ==
  IF LoadOutcome(snapshot) = "loaded" /\ loaded = NoValue
  THEN snapshot.digest ELSE NoDigest

(***************************************************************************)
(* _resolve_manifest_digest_for_export: the snapshot is loaded again, from *)
(* whatever is installed now; a missing or rejected one gives the empty    *)
(* digest.                                                                 *)
(***************************************************************************)
ManifestDigestForExport ==
  IF LoadOutcome(snapshot) = "loaded" THEN snapshot.digest ELSE NoDigest

\* The inventory replaces the output file whole.
ExportWritten ==
  /\ LoadOutcome(snapshot) # "uncaught"
  /\ exported' = ManifestDigestForExport

\* The exception of the second load (1); ExportError (70), or a name that
\* UTF-8 cannot encode (1, see InventoryFile).
ExportFailed ==
  /\ \/ LoadOutcome(snapshot) = "uncaught" /\ ExitWith(1)
     \/ LoadOutcome(snapshot) # "uncaught" /\ \E code \in {1, 70} : ExitWith(code)
  /\ UNCHANGED exported

\* The inventory of a scan that found nothing is its last step.
ExportEmpty ==
  /\ pc = "empty_export"
  /\ \/ ExportWritten /\ ExitWith(0)
     \/ ExportFailed
  /\ UNCHANGED <<opts, groups, at, loaded, lookups, results, rendered,
                 snapshot, installs, apiDown, stable>>

\* Otherwise the report is rendered after it, and only if it was written.
Export ==
  /\ pc = "export"
  /\ \/ ExportWritten /\ Goto("render")
     \/ ExportFailed
  /\ UNCHANGED <<opts, groups, at, loaded, lookups, results, rendered,
                 snapshot, installs, apiDown, stable>>

(***************************************************************************)
(* The report; the exit code is 0 whatever the verdicts are.  As text, the *)
(* line of a group that is not plain raises ForbiddenPhraseError, and the  *)
(* rest of the report is missing.                                          *)
(***************************************************************************)
Render ==
  /\ pc = "render"
  /\ IF opts.json \/ \A g \in DOMAIN groups : groups[g].plain
     THEN rendered' = TRUE /\ ExitWith(0)
     ELSE ExitWith(1) /\ UNCHANGED rendered
  /\ UNCHANGED <<opts, groups, at, loaded, lookups, results, exported,
                 snapshot, installs, apiDown, stable>>

\* Another process refreshes or deletes the snapshot (SnapshotStore).
SnapshotChanges ==
  /\ pc # "exit"
  /\ installs < MaxInstalls
  /\ \E file \in SnapshotFiles \ {snapshot} : snapshot' = file
  /\ installs' = installs + 1
  /\ stable' = FALSE
  /\ UNCHANGED process

Step ==
  \/ CheckOptions \/ Discover \/ DiscoverFails \/ ReportEmpty
  \/ HashArtifact \/ BuildLookup
  \/ VerifyLocally \/ VerifyByApi \/ VerifyApiDown \/ VerifyCrashes
  \/ ExportEmpty \/ Export \/ Render

Next == Step \/ SnapshotChanges

\* The command runs on by itself: no stage waits for anything but the API,
\* whose requests time out.
Fairness == WF_vars(Step)

Spec == Init /\ [][Next]_vars /\ Fairness

-----------------------------------------------------------------------------
\* The state of a scan between two steps of cli.scan is well formed.
TypeOK ==
  /\ pc \in Stages
  /\ opts \in Options
  /\ groups \in Seq(Group)
  /\ at \in (Nat \ {0}) \X (Nat \ {0})
  /\ loaded \in SnapshotFiles \cup {NoValue}
  /\ DOMAIN lookups \subseteq Digests
  /\ \A g \in DOMAIN results : results[g].status \in Statuses
  /\ rendered \in BOOLEAN
  /\ exit \in {NoValue, 0, 1, 2, 70}
  /\ snapshot \in SnapshotFiles
  /\ installs \in 0 .. MaxInstalls
  /\ apiDown \in BOOLEAN
  /\ stable \in BOOLEAN

(***************************************************************************)
(* Safety.                                                                 *)
(***************************************************************************)

(***************************************************************************)
(* A group is VERIFIED only if every artifact of it was read, every digest *)
(* was answered with a signed record, the records name one model_id, which *)
(* is the one shown, and in a local scan the snapshot loaded at the start  *)
(* gives that model for every digest, whatever was installed meanwhile     *)
(* (_classify_group over LocalHashLookup and lookup_hash).                 *)
(***************************************************************************)
VerifiedIsEarned(g) ==
  results[g].status = Verified =>
    /\ groups[g].digests # <<>>
    /\ results[g].model # NoModel
    /\ \A i \in DOMAIN groups[g].digests :
         LET d == groups[g].digests[i]
         IN  /\ d \in DOMAIN lookups
             /\ lookups[d].status = "verified"
             /\ lookups[d].claims.model = results[g].model
             /\ opts.localOnly => LookupHash(loaded, d) = lookups[d].claims

VerdictsAreEarned == \A g \in DOMAIN results : VerifiedIsEarned(g)

\* A signed record of a named model that lists every digest of the group.
ListsAll(entry, group) ==
  /\ entry.wellFormed /\ entry.signed /\ entry.claims.model # NoModel
  /\ \A i \in DOMAIN group.digests :
       group.digests[i] \in ExtractArtifactHashes(entry) \ {NoDigest}

\* No other model's record of the loaded snapshot lists one of them.
Uncontested(entry, group) ==
  \A i \in DOMAIN group.digests : \A k \in IndexedAt(loaded, group.digests[i]) :
    loaded.models[k].claims.model = entry.claims.model

(***************************************************************************)
(* The converse for a local scan: a readable group whose digests are all   *)
(* listed by one signed record of the loaded snapshot is VERIFIED, unless  *)
(* another record of a different model lists one of them too.              *)
(***************************************************************************)
EnrolledIsVerified ==
  \A g \in DOMAIN results :
    ( /\ opts.localOnly
      /\ groups[g].digests # <<>>
      /\ \E k \in DOMAIN loaded.models : /\ ListsAll(loaded.models[k], groups[g])
                                         /\ Uncontested(loaded.models[k], groups[g]) )
    => results[g].status = Verified

(***************************************************************************)
(* What the exit code promises.  0: the report is out, it has one verdict  *)
(* per group, and the inventory, if one was asked for, is written.  2: no  *)
(* usable snapshot, nothing verified or written.  70: nothing written, and *)
(* no report of verdicts.                                                  *)
(***************************************************************************)
ExitCodeIsHonest ==
  /\ exit = 0 => /\ rendered
                 /\ DOMAIN results = DOMAIN groups
                 /\ opts.export = "inventory" => exported # NoValue
  /\ exit = 2 => opts.localOnly /\ results = <<>> /\ exported = NoValue /\ ~rendered
  /\ exit = 70 => exported = NoValue /\ (rendered => groups = <<>>)

(***************************************************************************)
(* If no other process touched the snapshot since a local scan loaded it,  *)
(* the inventory names the digest of the snapshot the verdicts rest on:    *)
(* the second load of _resolve_manifest_digest_for_export agrees.          *)
(***************************************************************************)
QuietExportNamesTheSnapshot ==
  (stable /\ exported # NoValue /\ results # <<>>) => exported = loaded.digest

(***************************************************************************)
(* A statement of the documentation that the code does not keep.           *)
(***************************************************************************)

(***************************************************************************)
(* "Couldn't reach API; fall back to local snapshot": a scan that reached  *)
(* nobody, with a usable snapshot installed, used the snapshot.            *)
(***************************************************************************)
UnreachableFallsBack ==
  (apiDown /\ exit = 0 /\ LoadOutcome(snapshot) = "loaded") => loaded # NoValue

(***************************************************************************)
(* Liveness.                                                               *)
(***************************************************************************)

\* Every scan ends with an exit code: the loops over artifacts are finite.
ScanEnds == <>(exit # NoValue)

=============================================================================
