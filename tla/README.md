# A TLA+ verification of trustfall-lite

trustfall-lite is a command line tool. `trustfall scan` finds AI model files on
a machine, hashes them, asks a signed registry about the digests (online, or in
a local snapshot) and gives every model group one of three verdicts:
`verified`, `unknown_variant`, `not_enrolled`. `trustfall diff` compares two
saved reports. `trustfall registry --refresh` installs the local snapshot.

This directory holds a model of that code in TLA+, the TLC configurations that
check it on small instances, and theorems about it that TLAPS checks for every
value of the constants. The Python package is `src/fallrisk_trustfall/` in the
repository; its files are written `cli.py`, `api.py` and so on below.
`PROJECT.json` gives the line range behind every definition.

Contents:

1. [The system](#1-the-system)
2. [Modules](#2-modules)
3. [Runs](#3-runs)
4. [Disagreements between code and documentation](#4-disagreements-between-code-and-documentation)
5. [Fairness and liveness](#5-fairness-and-liveness)
6. [Proofs](#6-proofs)
7. [What is not modelled](#7-what-is-not-modelled)
8. [Plan](#8-plan)

To repeat everything, in this directory:

    tlc -workers 2 -config MCScan.cfg MCScan
    tlapm ScanProofs.tla

and likewise for the other configurations, for `DiffProofs`, `ApiClientProofs`,
`SnapshotStoreProofs`, `InventoryProofs`, `DiscoveryProofs`, `FileScanProofs`
(8,900 obligations in all, about ten minutes) and for `Positions`.

## 1. The system

### Components

| component | source | state | operations | must be true of it |
|---|---|---|---|---|
| scan command | `cli.py` `scan` | stage, options, groups, lookup, results, inventory, exit code | option checks, discovery, hashing, lookup, verification, export, rendering | verdicts are earned; the exit code says what was done; the inventory names the snapshot the verdicts rest on; it ends |
| group classification | `scanner.py` | none (pure, over a `HashLookup`) | `verify_groups`, `_classify_group` | all shards, one model, or no `verified`; one lookup per distinct digest |
| public verify API client | `api.py` | chunk, attempt, backoff of a call | `verify_hash`, `verify_manifest`, `_post_with_retries` | results line up with digests; failure is not absence; nothing unsigned is verified; retries are bounded and patient |
| local registry snapshot | `registry.py` | one file, loaded whole into an index | `load_snapshot`, `lookup_hash` | only a document whose manifest signature verified is used; no exception but `SnapshotError` |
| registry refresh | `cli.py` `_refresh_snapshot` | the snapshot file and a temporary one, shared by processes | fetch, write, rename, load, remove | a crash or a failure leaves the old document, the new one or none, never half of one |
| discovery, scan roots | `cli.py`, `roots.py`, adapters' root resolution | the file system, probed twice | `_discover_groups`, `_classify_explicit_scan_path`, `resolve_scan_roots` | what is shown as scanned was walked, once |
| diff engine | `diff.py` | none (pure, over two reports) | `diff_scans`, `_sort_key`, regression test | the changes are the whole difference, nothing twice, in one order |
| diff command | `cli.py` `diff` | stage, two reports, exit code | load, implicit scan, compare, print, exit | exit codes mean what the help says |
| hashing | `hashing.py` | `sha256` of each artifact, an open file | `hash_groups`, `hash_file`, `was_filename_trusted` | a digest is of one version of its file; an unreadable file drops nothing |
| inventory export | `export.py` | the output file and a temporary one | `export_inventory`, `_row_for_group`, `_scan_root_for`, `_sorted_results` | written whole or not at all; columns agree; the right scan root; reproducible |
| rendering | `formatter.py`, `diff.py` | none | text with a guard against forbidden phrases, JSON | a guard that raises is an exit code 1 |
| adapters | `adapters/` | the walk of a root | `discover` of the Hugging Face, Ollama and path adapters | no file in two groups, none forgotten, shard sets whole |
| `verify` command | `cli.py` `verify` | exit code | one `verify_hash` of what was typed | exit code 0 means that the service answered |

### How they interact

`scan` calls the components in a fixed order in one thread. What makes it more
than a pipeline:

- *The file system is shared.* Downloads, users and other trustfall processes
  change it while a scan runs. Entries are listed, then looked at, and files are
  hashed, block by block, after all of them were discovered;
  scan roots are probed once to be walked and once more to be reported, by a
  second copy of the same rules. `roots.py:137-141` says that the adapters
  delegate to it, but `hf_cache.py` and `ollama.py` have their own resolution;
  the model has both copies for that reason.
- *The snapshot file is shared and unlocked.* Several refreshes use one
  temporary name; a refresh installs a document before it verifies it, and
  removes by name what it refused; an exporting scan loads the snapshot a second
  time after hashing.
- *The output is shared.* Two scans may export to one path; the report and the
  inventory work out anew what hashing and discovery knew (whether a digest was
  taken from a name, under which root a group was found).
- *The API is remote.* It may be silent, limit the rate, answer partly, out of
  shape, or with records signed by nobody. The client promises its results in
  the order of the digests; the scan then keys them by digest
  (`scanner.py:90`).
- *Commands end at a dozen places.* Exit codes 0, 2, 64 to 66 and 70 are chosen;
  1 is an uncaught exception everywhere, and for `diff --exit-code` also a
  change.

The hazards this gives, each with its line and the properties that watch it, are
listed in `PROJECT.json` under `hazards`.

## 2. Modules

| module | models | role |
|---|---|---|
| `LookupResults` | `APILookupResult` | the type shared by both lookups |
| `Registry` | `load_snapshot`, `_extract_artifact_hashes`, the index, `lookup_hash` | operators used by `Scan` and `SnapshotStore` |
| `Scanner` | `verify_groups`, `_classify_group` | operators, instantiated by `Scan` |
| `HashLookup` | the `HashLookup` protocol of `scanner.py` | abstract specification of a lookup |
| `ApiClient` | one call of `verify_hash`, by the `verify` command, or of `verify_manifest` | state machine; implements `HashLookup` |
| `SnapshotStore` | processes that refresh and read the snapshot | state machine with crashes |
| `Discovery` | which roots are walked, and which are shown | state machine with a changing file system |
| `Hydration` | what `scan` takes for granted of steps 1 and 2 | abstract specification of discovery and hashing |
| `Adapters` | how the entries of a directory become groups, when a blob's name is its digest | operators used by `FileScan` |
| `FileScan` | the walks of the adapters and `hash_groups` | state machine with concurrent writers; implements `Hydration` |
| `InventoryRows` | the rows of the inventory | operators over `Scanner`, used by `InventoryFile` |
| `InventoryFile` | scans that export to one path | state machine with failures and crashes |
| `Scan` | `trustfall scan` from options to exit code | composes `Registry` and `Scanner`; the environment changes the snapshot |
| `Diff` | `diff_scans` | operators |
| `DiffCommand` | `trustfall diff` from arguments to exit code | state machine over `Diff` |
| `ScanProofs`, `DiffProofs`, `ApiClientProofs`, `SnapshotStoreProofs`, `DiscoveryProofs`, `InventoryProofs`, `FileScanProofs` | | theorems about the module each is named for (`InventoryProofs`: `InventoryFile`) |
| `Positions` | | lemmas on lists that are looked up, sorted and filtered: the last element with a key, the place of an element in a sorted list, the k-th element kept |
| `MC*` | | instances for TLC |

Comments that begin "Mutation of" mark an operator that is a plausible bug in
the definition after it. It is used by no specification; it is there to show
that a property fails when the code has the bug.

### Registry and Scanner

A snapshot file is a record of what `load_snapshot` can tell apart: how far
`json.load` gets, whether there is a manifest, whether its signature verifies,
and its model entries. `LoadOutcome` has three values, because `load_snapshot`
has three ends: a snapshot, a `SnapshotError`, and an exception it does not
convert. Entries that are malformed or whose JWS does not verify are skipped by
the code's loop and by `IndexedAt`. `RecordByHash` takes the last entry in
document order that lists a digest, since the loop overwrites. The code verifies
the manifest's JWS but does not compare its payload with `doc["manifest"]`; the
model's `signature` says only that the token verifies, and its `digest` is the
one of `doc["manifest"]`.

`Scanner` is `_classify_group` without display fields. The docstring at
`scanner.py:150-151` says that an unreadable artifact makes a group
`not_enrolled`; the code gives `unknown_variant` to a group whose location
claims a model, and so does `ClassifyGroup`. A group of which nothing could be
asked or answered also ends in `not_enrolled` or `unknown_variant`: the verdict
alone does not say that the registry was asked, and no property here claims it.

### Scan

`pc` follows the function's stages: `options`, `discover`, `empty` and
`empty_export` (nothing found), `hash`, `lookup`, `verify`, `export`, `render`,
`exit`. One action per stage, plus one per way a stage ends badly
(`DiscoverFails`, `VerifyApiDown`, `VerifyCrashes`, and the failing disjuncts of
`BuildLookup`, `Export`, `Render`). `HashArtifact` hashes one artifact; the
digest is any, as the bytes may have changed since discovery. `VerifyByApi`
takes any answers `ApiClient` can give, so the composition with the client is by
its promise (`HashLookup`) and not by its steps. `SnapshotChanges` is everyone
else. `apiDown` and `stable` are history variables.

### ApiClient

The state is that of the loops: chunks done (`results`), attempt, backoff.
A reply is any of `Replies`, including transport errors (code 0), retryable
codes with every kind of `Retry-After`, JSON of the wrong shape, and bodies
whose entries are missing, repeated, unsigned, forged or of an unknown status.
`heard`, `sent` and `advice` are history. `Crash` is an exception out of the
client: a wrong shape (`AttributeError`) or an infinite `Retry-After`
(`OverflowError` in `time.sleep`).

A request with op `hash` is the `verify` command: `CallFor` lowers and strips
what was typed, `EndVerify` turns the result into the exit code (2 for an error,
0 otherwise), and a `Crash` ends it with 1. A request with op `manifest` is the
lookup of a scan, which `Scan` takes up again as a set of answers.

### SnapshotStore

Names and files are apart: `tmp` and `target` are the two directory entries,
`disk` the content of files, and a process keeps the file it opened whatever
becomes of its name. `Path.write_bytes` is three steps (truncate, first bytes,
last bytes), so that two writers of the temporary file blend. What a file holds
into which several wrote is a constant operator, `Blends`, of their documents:
nothing keeps such a file from parsing, and `load_snapshot` would not notice, as
it verifies the manifest's token and compares it with nothing. Only what one
writer leaves unfinished, its first bytes or a hole of zero bytes before its
last ones (`Holed`), is known to be no JSON. `Replace` renames whatever has the
temporary name now. `Fetch` ends a refresh with 2 for an `httpx.HTTPError` and
with 1 for an `InvalidURL`, which is none. `Kill` may strike between any two steps,
`WriteFails` before each of the writes. Reading an opened snapshot is one step.
Unfinished content that is not empty may be refused by the JSON parser or by the
UTF-8 decoder, which ends a command in different ways; both are allowed.

### Discovery

A place is what a path resolves to; only its kind matters (absent, file, plain,
Ollama store, Hugging Face cache, searchable but not listable, closed). The
actions follow `_discover_groups`: resolve the chain of Hugging Face candidates,
walk each root, resolve and walk Ollama; or, for explicit paths, existence
check, classification, walk. Then the rows of `resolve_scan_roots` or of its
explicit counterpart. Each probe of the file system is a step of its own, and
`PlaceChanges` may come in between any two.

### Hydration, Adapters and FileScan

`Scan` starts from groups whose artifacts it hashes one by one; `Hydration`
states that assumption, and `FileScan` shows that the adapters and
`hash_groups` keep it on a file system that others use. A tree is a set of
entries, each with what the code reads off its name (`Entry`), links with their
target, snapshot directories and Ollama tags. The actions are the system calls:
list a directory, look at one entry, read a manifest, look for its blob, open a
file, read a block, close it. Files, links, directories and manifests may change
between any two of them (`WriteInPlace`, `RenameOver`, `ChangeLink`,
`RemoveDir`, `Retag`). An open file keeps its content when its name goes to
another one: `own` in `handle`. The digest of a file is the sequence of its
blocks, that is, SHA-256 is taken to be injective.

The Hugging Face adapter asks `is_dir` and lists the snapshot later, and raises
if the directory went in between (`ListSnapshot`); `os.walk` and `rglob` pass
over what they cannot open. Both differ from entries that vanish after the
listing, which only leave a group with fewer artifacts or none.
`versions`, `inPlace` and `touched` are history. Where a digest came from is not
recorded by the code either: `was_filename_trusted` works it out again from the
flag and the name, and the report says `digest_verified` of every other blob
(`DigestVerified`), one that could not be read included.

### InventoryRows and InventoryFile

`InventoryRows` has every derived column of a row as an operator of its own, as
`export.py` has: the match, the source of the model_id, the bound digest, the
two coverage columns, the scan root. A claims record there has the evidence
fields the columns depend on. `named` in a group is whether its first artifact
has a claim of a model (`artifacts[0].claim`), from which the code takes the
source of the model_id, while the model_id itself comes from the group; the
shipped adapters set both together, and `IsOutcome` says so. `SortedResults` is the code's
stable sort, told by its outcome: a result stands at the place after all the
results that are earlier, that is, sort before it or are tied and came first.
`InventoryFile` runs `export_inventory` of several scans on one output path:
rows first, then a temporary file, one line at a time, then `os.replace`; the
`finally` clause is `RemoveTemp`, which ignores that the file cannot be removed
and leaves it then (`export.py:609-612`). Writing may fail (70), a line may not be
encodable (exit code 1, as `UnicodeEncodeError` is no `OSError`), the rename may
fail, and a scan may be killed anywhere. `Scan.Export` is the same step as seen
from the command: it succeeds, or ends with 70 or 1.

### Diff and DiffCommand

Reports are sequences of groups; `DiffScans` is a set of changes, built like
`diff_scans`: groups by identity (the last of several with one identity counts),
statuses, and files by name first and content second. `DiffCommand` adds loading
with each way to refuse an input, the implicit scan of the default locations
when the baseline says it was one, the phrase guard of the text renderer, and
the two exit code flags. `place` in a group is a ghost: no report has it and
only `EveryRegressionCounts` looks at it.

## 3. Runs

Four of the passing runs check the module's type invariant besides the
properties named here; that of `ApiClient` is proved instead. Each property is
shown to have teeth by one mutated definition.

| run | question | result |
|---|---|---|
| `scan` | Is every verdict earned, every enrolled group found, every exit code honest, every undisturbed export right, and does every scan end? | holds |
| `api` | Whatever the service answers, do results line up, is failure told from absence (also by the exit code of `verify`), is nothing unsigned verified, no good answer dropped, are retries bounded and patient; is the call a `HashLookup`; does it end? | holds |
| `store` | Whatever the interleaving and the crashes, is only a verified document used, and without overlapping refreshes a whole one; do refreshes that do not overlap keep the file whole; does every command end? | holds |
| `diff` | Are the changes of two reports the whole difference, the same backwards, each counted once, in one order; do the exit codes mean what they say? | holds |
| `discovery` | For every place nobody changed, is what is shown what was walked; is nothing walked twice or forgotten; is a bad `OLLAMA_MODELS` shown and not replaced? | holds |
| `files` | While others change the tree: is what stays grouped exactly once, are shard sets whole, is a digest that of one version of the file, are discovery and hashing what `Scan` assumes? | holds |
| `export` | Whatever fails or is killed, is the output a whole inventory, installed exactly if the exit code is 0; do the columns of a row agree, does it name its scan root, do equal results give equal files? | holds |
| `scan_fallback`, `store_load`, `diff_exit`, `diff_regression`, `hash_provenance` | Does the code keep a statement of its documentation? | it does not, see section 4 |

### Bounds, and why they are enough

- `scan`: two digests, two models, inventories of up to two groups with one or
  two artifacts, six snapshot files (none; one record for both digests; a digest
  contested by a second model; shards spread over two records, with an unsigned
  entry and one whose hashes are only in the unsigned part; a bad signature; not
  UTF-8), one foreign change at any point (`MaxInstalls = 1`). A shard
  conflict needs two shards and two records; a stale export needs one change;
  two groups are needed for one that is read and one that is not. 202,652
  states.
- `api`: `MaxBatch = 2` (the code has 1000, `api.py:42`) with calls of zero to
  three digests, so that a call has no chunk, a whole one, and a whole and a
  partial one; `MaxRetries = 3` as in the code; a malformed digest; duplicates in one call;
  upper case typed to `verify`. 3,311 states.
- `store`: two refreshes and one reader. Every race of the protocol is between
  two writers of one name or a writer and a reader; a third refresh adds no new
  pair. Four documents are served: two good, one forged, one that does not
  decode. The two good ones blend into a file with a hole, one that ends inside
  a character, or one that parses, with the manifest of the one and the records
  of the other. 347,847 states.
- `diff`: reports of at most two groups with at most two files over two digests
  and the empty digest: enough for a rename, a swap, a duplicate content, one
  identity twice, one id in two sources. 87,400 states.
- `discovery`: three places on all 343 file systems of seven kinds each, six
  invocations (two roots and a repeated one; `OLLAMA_MODELS` on a root of the
  other adapter; a repeated explicit path), one change at any moment
  (`MaxChanges = 1`). 161,711 states. Properties speak of places that did not
  change, so a second change would only exempt more of them.
- `files`: three trees, one per adapter. Loose files: two shards of a set, a
  file of a second set with the same prefix, a `.bin`, and the same shard name
  in another directory. A cache with two snapshots that share a blob, crossed by
  the path adapter too. A store with two tags, a resource fork and two blobs.
  Files of at most two blocks (`MaxBlocks = 2`): a digest of no version needs a
  block of each of two. Two changes (`MaxChanges = 2`): one that installs, one
  that spoils. 71,862 states.
- `export`: two scans and one output path, over seven outcomes: records of each
  lane, of a lane to come and without evidence; one, two and no roots; files
  under one root, the other, or linked in from elsewhere; the same groups in two
  orders; a name that is not UTF-8. 423,076 states.

Runs switch the deadlock check off because a command ends: its last state has no
successor.

## 4. Disagreements between code and documentation

Each is a run in which TLC finds the statement violated, with the trace.

1. `scan_fallback`: `_build_api_lookup` never returns `None`, so the fallback to
   the local snapshot at `cli.py:290-294` is dead; a scan that reaches nobody
   ends with 0 and every group unverified.
2. `store_load`: a snapshot that is not UTF-8, or no JSON object, escapes
   `load_snapshot` as another exception than the `SnapshotError` it announces.
   A refresh that fetched it then leaves it installed.
3. `diff_exit`: a file or group whose name holds a forbidden phrase makes the
   text form of `diff` print nothing and end with 1, without any exit code flag.
4. `diff_regression`: two path groups with one name and size share an identity;
   the regression of the first is not counted.
5. `hash_provenance`: `hashing.py:24-25` and `INSTALL.md:200` say that by
   default the digest of an Ollama blob is compared with its name. Nothing
   compares them: `cli.py:1486-1496` reports `digest_verified` true for every
   blob but those whose name was trusted, also for one whose content is not what
   its name says, and for one that could not be read.

Five more were noticed while modelling and have no run:

- `api.py:15-17` says that a signature mismatch is treated as `not_enrolled`
  plus a warning. The code gives it the status `error` (`api.py:297-302`,
  `353-358`), so that `verify` ends with 2; `tests/test_api.py:231` agrees with
  the code. `FailureIsNotAbsence` states what the code and the test do, and the
  documented result would violate it.
- `registry.py:94` speaks of a signature-verified snapshot, but `load_snapshot`
  verifies the token `manifest_signature` and compares it with nothing in the
  document (`registry.py:166-171`). Two refreshes that write to their one
  temporary name at the same time may therefore leave a file that parses, with
  the manifest of one document and the records of the other, and it is loaded.
  `Blends` has such files, and `LoadedIsVerified` promises a whole document only
  without an overlap. Each record still has a signature of its own, which is
  verified (`VerdictsAreEarned`); what may be wrong is which snapshot it is said
  to belong to.
- A sharded group is verified when its shards are listed by *different* records
  of one model; `scanner.py:15-16` says one record. `Scanner` has the code's
  rule, and `VerdictsAreEarned` states what it does guarantee.
- `registry_manifest_digest` comes from a second load of the snapshot, so after
  a refresh in between it names another document than
  `docs/INVENTORY_EXPORT.md:89` says. `QuietExportNamesTheSnapshot` states the
  undisturbed case.
- An explicit path that is a directory without search permission ends the scan
  with `PermissionError` on the supported Python versions before 3.14
  (`Discovery.ClassRaises`), though `cli.py:908-916` means to go on. For the
  same reason an unreadable default cache ends a default scan
  (`Scan.DiscoverFails`, `Discovery.WalkRaises`).

## 5. Fairness and liveness

- `Scan`: weak fairness of `Step`, the scan's own next step. The process is
  single-threaded and waits for nothing but the API, whose client ends
  (`CallEnds`). `SnapshotChanges` is not fair. `ScanEnds` then says that the
  loop over groups and artifacts makes progress.
- `ApiClient`: weak fairness of `Next`. Each request gets some reply because
  `httpx` has a timeout and turns silence into an `HTTPError`; a sleep ends.
- `SnapshotStore`: weak fairness of each process's work. Starting a command and
  `Kill` are not fair. No step waits for another process: `CommandsEnd` would
  fail if the rename waited for the temporary file to come back.
- `ApiClient` includes the end of the `verify` command: `CallEnds` asks for its
  exit code too.
- `DiffCommand`, `Discovery`, `FileScan` and `InventoryFile` have no liveness
  property. Their loops are bounded by their inputs and would restate `at + 1`.
  A file that grows faster than it is read would keep `hash_file` busy for ever;
  the code does nothing against that.

## 6. Proofs

The `*Proofs` modules hold the theorems. They state every safety invariant,
every action property and both refinements that the passing runs check, for
every value of the constants: any number of groups, digests, snapshots,
processes, exports, candidates, directories, files, foreign changes, replies and
retries.

They assume of the constants:

- `ScanConstants`, `DiffConstants`, `ClientConstants`: sentinels are not values;
  inventories, reports and lists of digests are finite sequences; records in a
  snapshot are records.
- `StoreConstants`: `NoFile` is the content of no file, whoever wrote it; nothing
  is assumed of the documents, nor of what two writers make of them; and the
  marks of a process that has no exit code (`NoExit`, `Killed`) are none of the
  codes a command ends with.
- `FileConstants`: each outcome of a scan is one (`IsOutcome`): groups, digests and
  roots are lists, a claim and the model of a record are models, an id can be
  ordered. Python's dataclasses say as much.
- `DiscoveryConstants`: the invocations are typed, and the chain of Hugging Face
  candidates is never empty: `roots.py:175` appends `~/.cache/huggingface/hub`
  unconditionally.
- `FileScanConstants`: entries point to files; what a tag points to is a blob, and a
  blob is named after a digest; what is in a snapshot directory is a link; the
  Hugging Face adapter enters snapshot directories only (it looks nowhere else);
  and a walk enters a directory once, except a snapshot, which the path adapter
  passes by and the other enters (section 7, walks that overlap). That
  restriction on the Hugging Face adapter was missing at first; the proof of
  the invariant failed without it.
- Two theorems have a hypothesis of their own: `ImplementsLookup` and
  `RetriesArePatient`, below.

| theorem | says |
|---|---|
| `ScanProofs!TypeCorrect` | `Spec => []TypeOK` |
| `ScanProofs!VerdictsEarned` | `VERIFIED` rests on a signed record of one named model for every digest, in a local scan on the snapshot loaded at the start |
| `ScanProofs!EnrolledVerified` | a readable group that one signed record covers uncontested is `VERIFIED` in a local scan |
| `ScanProofs!ExitCodesAreHonest` | what exit codes 0, 2 and 70 promise |
| `ScanProofs!QuietExport` | an undisturbed export names the right snapshot |
| `DiffProofs!TypeCorrect` | `Spec => []TypeOK` |
| `DiffProofs!OrderDetermined` | no two changes have one sort key |
| `DiffProofs!CountedOnce` | the precedence rule: a group that came or went has no other change, a file and a changed content are counted once |
| `DiffProofs!Reversible` | a comparison backwards is the same comparison |
| `DiffProofs!LeadsToCurrent` | the changes are the whole difference |
| `DiffProofs!ExitCodesSayWhat` | what the exit codes say; 0 with `--exit-code` excludes a change of any class |
| `ApiClientProofs!TypeCorrect` | `Spec => []TypeOK` |
| `ApiClientProofs!ResultsAlwaysLineUp` | result i is of digest i, and a call that returned has all |
| `ApiClientProofs!FailureIsNeverAbsence` | "not enrolled", and exit code 0 of `verify`, are answers |
| `ApiClientProofs!VerifiedIsAlwaysSigned` | nothing unsigned is verified |
| `ApiClientProofs!AnswersAreAlwaysKept` | no sound answer is dropped |
| `ApiClientProofs!ImplementsLookup` | a call is a `HashLookup` |
| `ApiClientProofs!RequestsAreBounded` | at most `MaxRetries + 1` requests for each well-formed chunk, none for another |
| `ApiClientProofs!WaitsAreLongEnough` | a sleep is at least the backoff and at least what `Retry-After` asks; each retry doubles the backoff |
| `ApiClientProofs!RetriesArePatient` | before attempt n + 1 the sleep is at least 2^n initial backoffs |
| `SnapshotStoreProofs!StoreIsWellFormed` | `Spec => []TypeOK` |
| `SnapshotStoreProofs!LoadedIsAlwaysVerified` | a command goes on only with a document whose manifest token verifies, a whole one if no refreshes overlapped |
| `SnapshotStoreProofs!InstalledIsAlwaysWhole` | while no refreshes overlapped, the installed file is whole or absent, whatever was killed |
| `SnapshotStoreProofs!QuietRefreshAlwaysInstalls` | a refresh alone that ends with 0 installed what it fetched |
| `SnapshotStoreProofs!QuietFailureIsAlwaysClean` | a refresh alone that fails leaves the old document, none, or (raised or killed) its own |
| `DiscoveryProofs!ShownIsAlwaysWalked` | of a place nobody changed, the report says scanned exactly if it was walked |
| `DiscoveryProofs!RootsAreWalkedOnce` | no root of a default scan is walked twice by one adapter |
| `DiscoveryProofs!RootsAreAllWalked` | no root that was there all the time is forgotten |
| `DiscoveryProofs!BrokenIsNeverReplaced` | a bad `OLLAMA_MODELS` is shown, the default is not walked for it |
| `InventoryProofs!ExportIsAlwaysAllOrNothing` | the output is the old file or a whole inventory, and exit code 0 says that one's own was installed |
| `InventoryProofs!RowsAlwaysSayTheVerdict` | the columns of a row tell one story |
| `InventoryProofs!RowsAlwaysNameTheirRoot` | a row names the root above its files, if exactly one is |
| `InventoryProofs!SameResultsAlwaysSameFile` | the order in which groups were found does not show |
| `FileScanProofs!ScanIsWellFormed` | `Spec => []TypeOK` |
| `FileScanProofs!AlwaysGroupedExactlyOnce` | no entry in two groups, none that stayed in no group |
| `FileScanProofs!ShardsAlwaysStayTogether` | loose files are together exactly if they are shards of one set |
| `FileScanProofs!DigestIsAlwaysOfAVersion` | a digest is of one version of its file, if that changed in place at most once meanwhile |
| `FileScanProofs!FilesImplementHydration` | discovery and hashing are those `Scan` takes for granted |

The argument for `Scan`. No property is inductive alone: that exit code 0 comes
with a report depends on what was already written when `Render` runs, and that
on the stages before. The inductive invariant `IInv` has four parts:
`TypeOK`; `StagesInv`, what each stage may assume of the earlier ones;
`BasisInv`, that the results are those `ClassifyGroup` gives for the lookups,
and local lookups those of the loaded snapshot; and `QuietInv`, that while
`stable` holds the loaded snapshot is the one installed. Each has a lemma for
`Init` and one for `Next`, with one step per action. `VerdictsEarned` and
`EnrolledVerified` then follow from `BasisInv` alone, by unfolding the verdict
rule. `EnrolledVerified` needs two facts of the index: that a nonempty set of
positions has a last one (`LastPosition`) and that the record kept for a digest
is at one of its positions (`RecordIsIndexed`).

The argument for `Diff`. The state contributes one fact, `ChangesAreTheDiff`:
after `Compare`, `changes` is `DiffScans` of the two reports; `ExitInv` relates
the stage to the exit code. The rest is set theory about `DiffScans`.
`DiffIsCanonical` says that each class of change is determined by its key and
its file, from which the order follows; `ChangesAreReported` and
`ReportedAreChanges` give a characterisation of membership by cases that the
other theorems use; `EachBackwards` is the symmetry of those cases. That exit
code 0 with `--exit-code` excludes every change is `NoChanges`: an empty
`DiffScans` means the same identities with the same statuses, and files of one
name with one content (`FilesStay`).

The argument for `ApiClient`. What a result says of its reply cannot be seen
from one step, because the reply is gone when the next chunk is under way. The
invariant therefore says of all results at once that each is `ResultOf` its
digest and the reply heard for its chunk (`HeardInv`), that there are as many of
one as of the other, in the order of the digests (`SequencesInv`), that a
sleeping client has an attempt left (`LoopInv`), and that exit code 0 stands
only after a result that is no error (`VerifyInv`). `ChunkEnds` is the core:
appending a chunk's results keeps `HeardInv`, because a chunk is the digests
that follow those with results (`ChunkOfCall`). The properties are then facts of
`ResultOf`: `FromLastEntry` and `TokenResult` say by cases what an answer can
make of a digest. `ImplementsLookup` has one case per action: `ReturnResults` is
the abstract `Return`, `Crash` is `Raise`, everything else a stutter. It assumes
that the two values the mapping gives an unfinished call are no sequences of
results.

The request budget needs arithmetic that the type of the state does not show:
`BudgetInv` says that results end on a chunk boundary as long as digests remain,
that a request that is retried is well formed, and that `sent` is at most
`MaxRetries + 1` for each such chunk that is done, and what the current attempt
makes it. Each action then changes one of the three terms. For patience the
theorem without a hypothesis is `WaitsAreLongEnough`, about one retry. The run
states its sum, a power of two, and the provers know `2^0` but not the law
`2^(n+1) = 2 * 2^n`: `RetriesArePatient` has the law, for the attempts there
are, as a hypothesis.

The argument for `SnapshotStore`. What is installed can only be told by what a
refresh may rely on, and it can rely on nothing while another one runs. Hence
`AloneInv`, for a refresh that nobody overlapped: up to the rename the snapshot
is the one it found; between opening and renaming, the temporary name leads to
the file it writes, with what it has written so far; after it, the snapshot is
what it fetched. `OverlapInv` says that two refreshes that run are both marked,
so that every other step while one is alone is a reader's, a kill or the start
of an overlap (`AloneActs`). `NamesInv`, that the two names never lead to one file, is
what lets a new temporary file be written while the snapshot is read. A killed
refresh may leave its temporary file; the next one truncates or replaces it, and
nothing is assumed of its content. That the token of a loaded document verifies
(`LoadedIsVerified`) follows from `StageInv`: `load_snapshot` accepted it at that
moment, from whatever file it had open. That the document is whole as well, while
no refreshes overlap, needs `ReadingInv`: a reader may hold a file that was
renamed over or removed since, so what counts is that the file is whole when it
is opened (`InstalledIsWhole`), has not the temporary name and cannot get it any
more.

The argument for `Discovery`. The two copies of the resolution agree because
each is right by itself: about a place that nobody changed, every loop is sound
(it lists only what is due to the place) and complete so far (it has listed
every such place behind it). `RootsSound` and `RootsAll` say that of the chain,
`WalkedSound` and `WalkedAll` of the walks, `ShownSound` and `ShownAll` of the
report; `Due` is the common standard, in terms of the configuration and the
place alone. At the end all loops are behind everything, and the report and the
walks list what is due: `ShownIsWalked`. `WalkedOnce` rests on `RootsOnce`, the
deduplication in the chain, and on there being one Ollama root.
`PlaceChangesStep` is short: a change takes its place out of all of this.

The argument for `InventoryFile`. `StageInv` relates each temporary file to the
first lines of what is to be written, until it is all of them before the rename.
Writes go to a file of the exporter's own, and the lines do not change after
they were made (`LinesStay`), so that the output stays a whole file whoever
wrote it. `RowsSayTheVerdict` is about one row (`OneRow`), by unfolding the
verdict and each column. `SameResultsSameFile` is about sorting: the relation
`Earlier` is a strict order of positions (`EarlierIsAnOrder`), therefore each
place is taken by one result (`Positions!Ranking`), and where keys are distinct
the place of a result does not depend on the positions (`PlaceByValue`). Groups
of distinct identity have distinct keys, because the labels of the sources
differ (`DistinctIdsDistinctKeys`).

The argument for `FileScan`. Discovery works on lists made when the tree looked
otherwise. `StartInv` says that what nobody touched is as it was, and
`ListingInv` that of the entries of the current directory each is looked at
once, and those that are as they were are still to come or were found.
`DirectoryGrouped` takes what was found in a directory to groups: what an
adapter does with it is a partition, for the path adapter because being shards
of one set is an equivalence (`ShardSetIsKind`) and a set is taken with its
first shard (`ShardSets`). The four invariants about groups add up the
directories: `GroupsFromWalk` (a group comes from the one walk that entered the
directory of its files), `GroupsOnce`, `GroupsAll` and `GroupsTogether`.
The digests: `ReadingInv` says that what was read from the open file, and what
would be read if nobody changed it any more, is one of the versions the file had
since it was opened, as long as it was changed in place at most once (`Reads`).
A second change in place breaks it, and so it does for the code: `FileScan`
states the property up to there. A rename does not count, as the open file keeps
its content. `FilesImplementHydration` has one case per action: `EndDiscovery`
is `Discover`, an exception of discovery is `DiscoverFails`, each of `TakeName`,
`OpenFails`, `ReadFails` and `FinishFile` is `HashArtifact`, and what others do
is a stutter.

What stays with TLC: `ScanEnds`, `CallEnds` and `CommandsEnd`, since fairness
and `ENABLED` are out of the proof system's reach, and, naturally, the five
violations. That a model's operators are those of the code's loops where the
code computes by induction over its data (the last entry that lists a digest,
the sorted list, the set of changes) is not a theorem either: the models state
the outcome of the loop.

## 7. What is not modelled

- Names inside the adapters: how an org and a name come out of a directory name,
  which group ids the path adapter builds (`path:<prefix>:sharded`,
  `path:<name>:<size>`), sizes. Two groups may therefore share an id in the code;
  `DiffCommand` and `InventoryFile` take such reports and outcomes as inputs, and
  `SameResultsSameFile` is stated for distinct identities, as it fails without.
- Walks that overlap: `GroupedExactlyOnce` is about trees that are entered from
  above the `models--*` directories. A user who names a directory and one inside
  it gets its files twice, as the code says. A file named on the command line is
  a directory with one entry.
- `os.walk` and `rglob` list every directory once; a directory that is renamed
  into a part still to be walked is left out, apart from snapshot directories.
- How CSV and JSONL spell a cell. A loss of power: nothing is synced, so the
  order in which rename and data reach the disk is the file system's affair.
- The `registry` command without `--refresh`, which only shows a snapshot, and
  the LM Studio adapter, a stub that is never called.
- Cryptography: whether a token verifies is data. Canonicalisation, base64 and
  the key bundle are behind it.
- Staleness of a snapshot (`_is_stale`): it changes a warning and nothing else.
- Wording, layout, progress bars, sizes, licences.
- The order of snapshots in time: nothing in the code compares dates, so a
  refresh may install an older document. There is no rule to check this against.

## 8. Plan

Done: verdicts, lookups, the snapshot and the command that joins them; the diff;
discovery; then the walks and hashing against concurrent writers, the inventory
file, the `verify` command; and proofs of all safety properties and refinements
that the runs check. What is left, in order:

1. The group ids of the path adapter, so that finding 4 follows from the code
   and not from an input.
2. The summary counts of the diff and its JSON form, and `registry --info`.
3. A proof that `Scan`'s lookup and hashing stages are those of `HashLookup` and
   `Hydration`, which is now by the text of the actions.
