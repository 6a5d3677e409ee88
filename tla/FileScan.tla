------------------------------ MODULE FileScan ------------------------------
(***************************************************************************)
(* Steps 1 and 2 of a scan on a file system that others use: the adapters  *)
(* walk the directories of the scan, then hash_groups reads each file      *)
(* block by block.  Meanwhile downloads, `ollama pull`, cache clean-ups    *)
(* and users write files in place, rename new ones over them, remove them, *)
(* and change links, directories and manifests.                            *)
(*                                                                         *)
(* The content of a file is a sequence of blocks, a block being what one   *)
(* read returns.  SHA-256 is taken to be injective: the digest of some     *)
(* bytes is the sequence of blocks itself.                                 *)
(***************************************************************************)
EXTENDS Adapters

CONSTANTS
  Blocks,      \* what a block may hold
  MaxBlocks,   \* bound on the length of a file
  Missing,     \* no such file, link or manifest
  Garbled,     \* a manifest that names no model layer
  NoFile,      \* no file is open
  Versions,    \* file -> the contents that may be renamed into its place
  AtStart,     \* file -> its content when the scan starts
  Snapshots,   \* the directories models--*/snapshots/*
  Walks,       \* the walks a scan may make: sequences of [adapter, dir]
  MaxChanges   \* bound on the changes others make

Files == DOMAIN Versions
Tags  == {e \in Entries : Entry[e].hint = "ollama_blob"}
Links == {e \in Entries \ Tags : Entry[e].target # e}
Contents == UNION {[1 .. n -> Blocks] : n \in 0 .. MaxBlocks}

Directories == {Entry[e].dir : e \in Entries} \cup Snapshots

(***************************************************************************)
(* The snapshots of a cache hold links into its blobs, a manifest names a  *)
(* blob, the Hugging Face adapter lists snapshots only, and a scan comes   *)
(* to a directory once (Discovery walks no root twice); only the path      *)
(* adapter may come by a snapshot besides.                                 *)
(***************************************************************************)
ASSUME FileScanConstants ==
  /\ MaxBlocks \in Nat /\ MaxChanges \in Nat
  /\ NoDigest \notin Contents /\ Missing \notin Contents
  /\ NoFile \notin Files /\ {Missing, Garbled} \cap Files = {}
  /\ \A f \in Files : Versions[f] \subseteq Contents
  /\ AtStart \in [Files -> Contents \cup {Missing}]
  /\ DOMAIN NamedDigest \subseteq Files
  /\ \A f \in DOMAIN NamedDigest : NamedDigest[f] \in Contents
  /\ \A e \in Entries \ Tags : Entry[e].target \in Files
  /\ \A e \in Tags : Entry[e].target \in DOMAIN NamedDigest
  /\ \A e \in Entries : Entry[e].dir \in Snapshots => e \in Links
  /\ Walks \subseteq Seq([adapter : {"path", "hf_cache", "ollama"}, dir : Directories])
  /\ \A w \in Walks : \A i \in DOMAIN w :
       w[i].adapter = "hf_cache" => w[i].dir \in Snapshots
  /\ \A w \in Walks : \A i, j \in DOMAIN w :
       w[i].dir = w[j].dir =>
         i = j \/ (w[i].dir \in Snapshots /\ "path" \in {w[i].adapter, w[j].adapter})

VARIABLES
  pc,        \* "visit", "list", "stat", "blob", "hash", "done" or "raised"
  trust,     \* --trust-ollama-filenames
  walk,      \* the directories of this scan, in order
  visit,     \* the position of the current one
  listing,   \* the entries the current directory had when it was listed
  pending,   \* those not looked at yet, in order
  blob,      \* the blob the manifest just read names
  found,     \* the artifacts of the current directory
  groups,    \* the groups so far
  at,        \* <<g, i>>: artifact i of group g is hashed next, or now
  handle,    \* the file being hashed, and what was read of it
  disk,      \* file -> its content
  links,     \* the links that exist
  dirs,      \* the snapshot directories that exist
  manifest,  \* tag -> the blob its manifest names
  changes,   \* changes made by others
  touched    \* history: the files and entries that were changed

walking  == <<walk, visit, listing, pending, blob, found>>
scanner  == <<pc, trust, walking, groups, at, handle>>
outside  == <<disk, links, dirs, manifest, changes, touched>>
vars     == <<scanner, outside>>

-----------------------------------------------------------------------------
(***************************************************************************)
(* What the tree looks like now.                                           *)
(***************************************************************************)
Listed(e) ==
  IF e \in Tags THEN manifest[e] # Missing
  ELSE IF e \in Links THEN e \in links
  ELSE disk[e] # Missing

\* sorted(directory): its entries by name.
ListDir(d) ==
  Kept(Sorted, {i \in DOMAIN Sorted : Entry[Sorted[i]].dir = d /\ Listed(Sorted[i])})

Readable(e) == Listed(e) /\ disk[Entry[e].target] # Missing

(***************************************************************************)
(* The file being hashed.  `own` is its content once its name is gone or   *)
(* names another file, Missing while the name still stands for it.         *)
(* `versions` and `inPlace` are history: the contents it has had since it  *)
(* was opened, and the changes made to it.                                 *)
(***************************************************************************)
Closed == [file |-> NoFile, own |-> Missing, got |-> <<>>, versions |-> {},
           inPlace |-> 0]

OpenedOn(f) == [file |-> f, own |-> Missing, got |-> <<>>,
                versions |-> {disk[f]}, inPlace |-> 0]

Behind(h) == IF h.own = Missing THEN disk[h.file] ELSE h.own

Current == groups[at[1]].artifacts[at[2]]

-----------------------------------------------------------------------------
Init ==
  /\ pc = "visit"
  /\ trust \in BOOLEAN
  /\ walk \in Walks
  /\ visit = 1
  /\ listing = {} /\ pending = <<>> /\ blob = Missing /\ found = <<>>
  /\ groups = <<>>
  /\ at = <<1, 1>>
  /\ handle = Closed
  /\ disk = AtStart
  /\ links = Links
  /\ dirs = Snapshots
  /\ manifest = [t \in Tags |-> Entry[t].target]
  /\ changes = 0
  /\ touched = {}

(***************************************************************************)
(* The walk.                                                               *)
(***************************************************************************)

\* Mutation of Descends: the path adapter enters models--* directories.
DescendsEverywhere(step) == TRUE

\* _walk_skipping_hf_cache: a walk that comes from above leaves models--*
\* directories to the Hugging Face adapter.
Descends(step) == ~(step.adapter = "path" /\ step.dir \in Snapshots)

\* The listing of a directory as one step.
TakeListing(d) ==
  /\ pending' = ListDir(d)
  /\ listing' = {ListDir(d)[i] : i \in DOMAIN ListDir(d)}
  /\ pc' = "stat"

SkipDir == visit' = visit + 1 /\ UNCHANGED <<pc, listing, pending>>

Here == walk[visit]

(***************************************************************************)
(* The next directory.  os.walk and rglob list it, and pass over one they  *)
(* cannot open.  The Hugging Face adapter asks is_dir first.               *)
(***************************************************************************)
VisitDir ==
  /\ pc = "visit"
  /\ visit <= Len(walk)
  /\ \/ /\ ~Descends(Here) \/ (Here.adapter = "hf_cache" /\ Here.dir \notin dirs)
        /\ SkipDir
     \/ /\ Descends(Here) /\ Here.adapter # "hf_cache"
        /\ TakeListing(Here.dir)
        /\ UNCHANGED visit
     \/ /\ Here.adapter = "hf_cache" /\ Here.dir \in dirs
        /\ pc' = "list"
        /\ UNCHANGED <<visit, listing, pending>>
  /\ UNCHANGED <<trust, walk, blob, found, groups, at, handle, outside>>

\* snapshot_dir.iterdir(): it raises if the directory went after is_dir.
ListSnapshot ==
  /\ pc = "list"
  /\ IF Here.dir \in dirs
     THEN TakeListing(Here.dir)
     ELSE pc' = "raised" /\ UNCHANGED <<listing, pending>>
  /\ UNCHANGED <<trust, walk, visit, blob, found, groups, at, handle, outside>>

\* The entry is done with; what it gave, if anything, is `more`.
EndEntry(more) ==
  /\ found' = found \o more
  /\ pending' = Tail(pending)

(***************************************************************************)
(* One entry of a directory of weights files: not one by its name; gone,   *)
(* or a link to nothing; or an artifact at the resolved path.              *)
(***************************************************************************)
StatEntry ==
  /\ pc = "stat"
  /\ pending # <<>>
  /\ LET e == Head(pending)
     IN  /\ Here.adapter # "ollama"
         /\ EndEntry(IF IsWeights(Here.adapter, e) /\ Readable(e)
                     THEN <<Artifact(e, Entry[e].target)>> ELSE <<>>)
  /\ UNCHANGED <<pc, trust, walk, visit, listing, blob, groups, at, handle, outside>>

(***************************************************************************)
(* _parse_manifest: one of the store's manifests is read; if it names a    *)
(* model layer, its blob is looked for next.                               *)
(***************************************************************************)
ReadManifest ==
  /\ pc = "stat"
  /\ pending # <<>>
  /\ Here.adapter = "ollama"
  /\ LET e == Head(pending)
     IN  IF IsWeights("ollama", e) /\ manifest[e] \in Files
         THEN blob' = manifest[e] /\ pc' = "blob" /\ UNCHANGED <<found, pending>>
         ELSE EndEntry(<<>>) /\ UNCHANGED <<blob, pc>>
  /\ UNCHANGED <<trust, walk, visit, listing, groups, at, handle, outside>>

\* blob_path.is_file(): a manifest without its blob gives nothing.
FindBlob ==
  /\ pc = "blob"
  /\ EndEntry(IF disk[blob] # Missing THEN <<Artifact(Head(pending), blob)>>
              ELSE <<>>)
  /\ blob' = Missing
  /\ pc' = "stat"
  /\ UNCHANGED <<trust, walk, visit, listing, groups, at, handle, outside>>

\* The groups of the directory; the next directory.
YieldGroups ==
  /\ pc = "stat"
  /\ pending = <<>>
  /\ groups' = groups \o GroupsOf(Here.adapter, listing, found)
  /\ found' = <<>> /\ listing' = {}
  /\ visit' = visit + 1
  /\ pc' = "visit"
  /\ UNCHANGED <<trust, walk, pending, blob, at, handle, outside>>

\* list(_discover_groups(...)) is complete before anything is hashed.
EndDiscovery ==
  /\ pc = "visit"
  /\ visit > Len(walk)
  /\ pc' = IF groups = <<>> THEN "done" ELSE "hash"
  /\ UNCHANGED <<trust, walking, groups, at, handle, outside>>

(***************************************************************************)
(* Hashing.                                                                *)
(***************************************************************************)

\* The artifact at `at` gets its digest; go on to the next one.
Settle(digest) ==
  LET g == at[1]
      i == at[2]
      more == i < Len(groups[g].artifacts)
  IN  /\ groups' = [groups EXCEPT ![g].artifacts[i].digest = digest]
      /\ at' = IF more THEN <<g, i + 1>> ELSE <<g + 1, 1>>
      /\ pc' = IF more \/ g < Len(groups) THEN "hash" ELSE "done"

\* hash_artifact on a blob with --trust-ollama-filenames: no byte is read.
TakeName ==
  /\ pc = "hash" /\ handle = Closed
  /\ TakesName(Current, trust)
  /\ Settle(NamedDigest[Current.file])
  /\ UNCHANGED <<trust, walking, handle, outside>>

\* hash_file: stat and open.
OpenFile ==
  /\ pc = "hash" /\ handle = Closed
  /\ ~TakesName(Current, trust)
  /\ disk[Current.file] # Missing
  /\ handle' = OpenedOn(Current.file)
  /\ UNCHANGED <<pc, trust, walking, groups, at, outside>>

\* Mutation of OpenFails: the generator stops, and with it the group.
OpenFailsGroup ==
  /\ pc = "hash" /\ handle = Closed
  /\ ~TakesName(Current, trust)
  /\ disk[Current.file] = Missing
  /\ at' = <<at[1] + 1, 1>>
  /\ pc' = IF at[1] < Len(groups) THEN "hash" ELSE "done"
  /\ UNCHANGED <<trust, walking, groups, handle, outside>>

\* The file went after discovery: the digest stays empty.
OpenFails ==
  /\ pc = "hash" /\ handle = Closed
  /\ ~TakesName(Current, trust)
  /\ disk[Current.file] = Missing
  /\ Settle(NoDigest)
  /\ UNCHANGED <<trust, walking, handle, outside>>

\* Mutation of ReadBlock: the name is opened again for every block.
ReadBlockByName ==
  /\ handle.file # NoFile
  /\ disk[handle.file] # Missing
  /\ Len(handle.got) < Len(disk[handle.file])
  /\ handle' = [handle EXCEPT !.got =
                  Append(@, disk[handle.file][Len(handle.got) + 1])]
  /\ UNCHANGED <<pc, trust, walking, groups, at, outside>>

\* f.read(chunk_size): the next block of the open file.
ReadBlock ==
  /\ handle.file # NoFile
  /\ Len(handle.got) < Len(Behind(handle))
  /\ handle' = [handle EXCEPT !.got =
                  Append(@, Behind(handle)[Len(handle.got) + 1])]
  /\ UNCHANGED <<pc, trust, walking, groups, at, outside>>

\* The empty read that ends the loop.
FinishFile ==
  /\ handle.file # NoFile
  /\ Len(handle.got) >= Len(Behind(handle))
  /\ Settle(handle.got)
  /\ handle' = Closed
  /\ UNCHANGED <<trust, walking, outside>>

\* A read error: hash_artifact returns the candidate unchanged.
ReadFails ==
  /\ handle.file # NoFile
  /\ Settle(NoDigest)
  /\ handle' = Closed
  /\ UNCHANGED <<trust, walking, outside>>

-----------------------------------------------------------------------------
(***************************************************************************)
(* Everyone else.                                                          *)
(***************************************************************************)

\* Changes elsewhere in the tree cannot be seen by this scan.
EntriesInWalk == {e \in Entries : \E i \in DOMAIN walk : walk[i].dir = Entry[e].dir}
FilesInWalk ==
  {Entry[e].target : e \in EntriesInWalk} \cup
    (IF EntriesInWalk \cap Tags = {} THEN {} ELSE DOMAIN NamedDigest)

Change(things) ==
  /\ pc \notin {"done", "raised"}
  /\ changes < MaxChanges
  /\ changes' = changes + 1
  /\ touched' = touched \cup things
  /\ UNCHANGED <<pc, trust, walking, groups, at>>

\* One block appended, overwritten or cut off.
OneBlockApart(old, new) ==
  \/ new \in {Append(old, b) : b \in Blocks}
  \/ new \in {[old EXCEPT ![i] = b] : i \in DOMAIN old, b \in Blocks} \ {old}
  \/ old # <<>> /\ new = SubSeq(old, 1, Len(old) - 1)

\* A download, or a fault, changes one block of a file where it lies.
WriteInPlace(f) ==
  /\ Change({f})
  /\ disk[f] # Missing
  /\ \E new \in Contents :
       /\ OneBlockApart(disk[f], new)
       /\ disk' = [disk EXCEPT ![f] = new]
       /\ handle' = IF handle.file = f /\ handle.own = Missing
                    THEN [handle EXCEPT !.versions = @ \cup {new}, !.inPlace = @ + 1]
                    ELSE handle
  /\ UNCHANGED <<links, dirs, manifest>>

\* The open file keeps its content when its name goes to another one.
Unlinked(f) ==
  IF handle.file = f /\ handle.own = Missing
  THEN [handle EXCEPT !.own = disk[f]] ELSE handle

\* A finished download is renamed to its final name, or a file is removed.
RenameOver(f) ==
  /\ Change({f})
  /\ \E new \in (Versions[f] \cup {Missing}) \ {disk[f]} :
       disk' = [disk EXCEPT ![f] = new]
  /\ handle' = Unlinked(f)
  /\ UNCHANGED <<links, dirs, manifest>>

\* A link of a snapshot directory is removed or made.
ChangeLink(e) ==
  /\ Change({e})
  /\ Entry[e].dir \in Snapshots => Entry[e].dir \in dirs
  /\ links' = IF e \in links THEN links \ {e} ELSE links \cup {e}
  /\ UNCHANGED <<disk, dirs, manifest, handle>>

\* A cache clean-up removes a whole snapshot directory.
RemoveDir(d) ==
  /\ Change({e \in Links : Entry[e].dir = d})
  /\ d \in dirs
  /\ dirs' = dirs \ {d}
  /\ links' = {e \in links : Entry[e].dir # d}
  /\ UNCHANGED <<disk, manifest, handle>>

\* `ollama pull` or `ollama rm` changes what a tag stands for.
Retag(t) ==
  /\ Change({t})
  /\ \E new \in (DOMAIN NamedDigest \cup {Missing, Garbled}) \ {manifest[t]} :
       manifest' = [manifest EXCEPT ![t] = new]
  /\ UNCHANGED <<disk, links, dirs, handle>>

-----------------------------------------------------------------------------
Step ==
  \/ VisitDir \/ ListSnapshot \/ StatEntry \/ ReadManifest \/ FindBlob
  \/ YieldGroups \/ EndDiscovery
  \/ TakeName \/ OpenFile \/ OpenFails \/ ReadBlock \/ FinishFile \/ ReadFails

Environment ==
  \/ \E f \in FilesInWalk : WriteInPlace(f) \/ RenameOver(f)
  \/ \E e \in Links \cap EntriesInWalk : ChangeLink(e)
  \/ \E d \in {Entry[e].dir : e \in EntriesInWalk} \cap Snapshots : RemoveDir(d)
  \/ \E t \in Tags \cap EntriesInWalk : Retag(t)

Next == Step \/ Environment

Spec == Init /\ [][Next]_vars

-----------------------------------------------------------------------------
\* The state of a scan between two steps of discovery or hashing is well
\* formed (cli.scan steps 1 and 2).
TypeOK ==
  /\ pc \in {"visit", "list", "stat", "blob", "hash", "done", "raised"}
  /\ trust \in BOOLEAN
  /\ walk \in Walks /\ visit \in 1 .. Len(walk) + 1
  /\ listing \subseteq Entries
  /\ \A i \in DOMAIN pending : pending[i] \in listing
  /\ blob \in Files \cup {Missing}
  /\ \A g \in DOMAIN groups :
       /\ groups[g].artifacts # <<>>
       /\ groups[g].kind = "hf_snapshot" => Len(groups[g].artifacts) > 1
       /\ \A i \in DOMAIN groups[g].artifacts :
            LET a == groups[g].artifacts[i]
            IN  /\ a.entry \in Entries /\ a.file \in Files
                /\ a.digest \in Contents \cup {NoDigest}
  /\ pc = "hash" => at[1] \in DOMAIN groups /\ at[2] \in DOMAIN groups[at[1]].artifacts
  /\ handle.file \in Files \cup {NoFile}
  /\ handle.got \in Contents
  /\ disk \in [Files -> Contents \cup {Missing}]
  /\ links \subseteq Links /\ dirs \subseteq Snapshots
  /\ manifest \in [Tags -> Files \cup {Missing, Garbled}]
  /\ changes \in 0 .. MaxChanges

(***************************************************************************)
(* Safety.                                                                 *)
(***************************************************************************)
Discovered == pc \in {"hash", "done"}

Places(e) ==
  {p \in UNION {{g} \X DOMAIN groups[g].artifacts : g \in DOMAIN groups} :
     groups[p[1]].artifacts[p[2]].entry = e}

\* A weights file, by the rules of the adapter whose directory it is in.
Expected(e) ==
  \E i \in DOMAIN walk :
    /\ walk[i].dir = Entry[e].dir
    /\ walk[i].dir \in Snapshots => walk[i].adapter = "hf_cache"
    /\ IsWeights(walk[i].adapter, e)

FileOf(e) == IF e \in Tags THEN manifest[e] ELSE Entry[e].target

\* It was there all the time, and nobody touched it or its file.
Stayed(e) ==
  /\ Listed(e) /\ FileOf(e) \in Files
  /\ disk[FileOf(e)] # Missing
  /\ {e, FileOf(e)} \cap touched = {}

(***************************************************************************)
(* "Every recognized local artifact maps to exactly one group"             *)
(* (models.py): a weights file that stays is in exactly one, whatever      *)
(* happens to the files around it, and though the walks of two adapters    *)
(* may pass through one tree.  No entry is ever in two.                    *)
(***************************************************************************)
GroupedExactlyOnce ==
  Discovered =>
    \A e \in Entries :
      /\ Cardinality(Places(e)) <= 1
      /\ Expected(e) /\ Stayed(e) => Cardinality(Places(e)) = 1

InPathWalk(e) == \E i \in DOMAIN walk : walk[i] = [adapter |-> "path", dir |-> Entry[e].dir]

(***************************************************************************)
(* Two loose files are in one group exactly if they are shards of one set  *)
(* in one directory: a shard that stays is not split off because others of *)
(* its set vanish between the listing and the stat, and files of two       *)
(* directories or sets never share a verdict (_groups_in_one_directory).   *)
(***************************************************************************)
ShardsStayTogether ==
  Discovered =>
    \A e, f \in Entries \ Tags :
      ( /\ e # f
        /\ \A x \in {e, f} : /\ Entry[x].dir \notin Snapshots
                              /\ InPathWalk(x) /\ Places(x) # {} )
      => LET together == \E p \in Places(e), q \in Places(f) : p[1] = q[1]
             oneSet   == /\ Entry[e].dir = Entry[f].dir
                         /\ Entry[e].shard = Entry[f].shard
                         /\ Entry[e].shard # NoShard
                         /\ {Entry[e].hint, Entry[f].hint} = {"safetensors"}
         IN  together <=> oneSet

(***************************************************************************)
(* The digest of a file is the digest of one version of it that lay there  *)
(* while it was read, however the name was reused meanwhile, as long as at *)
(* most one block was changed in place (hash_file).  So the downloads that *)
(* install by rename cannot make a scan see a file that never existed.     *)
(* Two changes in place can.                                               *)
(***************************************************************************)
DigestOfAVersion ==
  [][ (handle.file # NoFile /\ handle'.file = NoFile) =>
        LET d == groups'[at[1]].artifacts[at[2]].digest
        IN  d = NoDigest \/ handle.inPlace > 1 \/ d \in handle.versions ]_vars

(***************************************************************************)
(* Discovery and hashing are those Scan takes for granted: no artifact is  *)
(* added, dropped, hashed out of order or twice, and hashing never raises  *)
(* (Hydration).                                                            *)
(***************************************************************************)
Stage ==
  CASE pc \in {"visit", "list", "stat", "blob"} -> "discover"
    [] pc = "hash"   -> "hash"
    [] pc = "done"   -> "hashed"
    [] pc = "raised" -> "raised"

DigestsSoFar ==
  IF Discovered
  THEN [g \in DOMAIN groups |->
          [i \in DOMAIN groups[g].artifacts |-> groups[g].artifacts[i].digest]]
  ELSE <<>>

Hydrated == INSTANCE Hydration WITH stage <- Stage, digests <- DigestsSoFar

ImplementsHydration == Hydrated!Spec

(***************************************************************************)
(* A statement of the documentation that the code does not keep.           *)
(***************************************************************************)

(***************************************************************************)
(* "The default behavior is to hash the bytes and verify the result        *)
(* matches the filename digest" (hashing.py): a blob reported with         *)
(* digest_verified true has the digest its name says.                      *)
(***************************************************************************)
VerifiedBlobMatchesItsName ==
  pc = "done" =>
    \A g \in DOMAIN groups : \A i \in DOMAIN groups[g].artifacts :
      LET a == groups[g].artifacts[i]
      IN  DigestVerified(a, trust) => a.digest = NamedDigest[a.file]

=============================================================================
