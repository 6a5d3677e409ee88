------------------------------ MODULE Adapters ------------------------------
(***************************************************************************)
(* The rules by which the path, Hugging Face and Ollama adapters turn the  *)
(* entries of a directory into model groups (path.py, hf_cache.py,         *)
(* ollama.py), and by which hashing.py chooses between the bytes of a blob *)
(* and its name.                                                           *)
(*                                                                         *)
(* An entry is a directory entry of the tree, by its full name.  What its  *)
(* name says is fixed:                                                     *)
(*   dir     the directory it is in                                        *)
(*   hint    _format_hint_for(name), "ollama_blob" for a file that can be  *)
(*           a manifest ("._" files and wrong depths cannot), or "none"    *)
(*   shard   what _SHARD_RE finds: [prefix, total], or NoShard             *)
(*   target  the file an entry that is a link resolves to; itself if not   *)
(***************************************************************************)
EXTENDS Naturals, Sequences, FiniteSets

CONSTANTS
  NoDigest,    \* the empty sha256
  NoShard,     \* the name does not match _SHARD_RE
  Entry,       \* entry -> record [dir, hint, shard, target]
  Sorted,      \* the entries in the order sorted() gives
  NamedDigest  \* Ollama blob file -> the digest in its name

Entries == DOMAIN Entry

ASSUME AdapterConstants ==
  /\ Sorted \in Seq(Entries)
  /\ \A e \in Entries : \E i \in DOMAIN Sorted : Sorted[i] = e
  /\ \A i, j \in DOMAIN Sorted : Sorted[i] = Sorted[j] => i = j
  /\ \A e \in Entries : Entry[e].hint \in
       {"safetensors", "gguf", "pytorch_bin", "ollama_blob", "none"}

\* An artifact before it is hashed.
Artifact(e, file) == [entry |-> e, file |-> file, digest |-> NoDigest]

ModelGroup(source, kind, artifacts) ==
  [source |-> source, kind |-> kind, artifacts |-> artifacts]

(***************************************************************************)
(* Names that are a weights file to an adapter.  Loose .bin files are left *)
(* out by the path adapter, and taken by the Hugging Face one.             *)
(***************************************************************************)
IsWeights(adapter, e) ==
  CASE adapter = "path"     -> Entry[e].hint \in {"safetensors", "gguf"}
    [] adapter = "hf_cache" -> Entry[e].hint \in {"safetensors", "gguf", "pytorch_bin"}
    [] adapter = "ollama"   -> Entry[e].hint = "ollama_blob"

\* Mutation of SameShardSet: the number of shards is not part of the key.
SamePrefix(e, f) ==
  /\ {Entry[e].shard, Entry[f].shard} \cap {NoShard} = {}
  /\ {Entry[e].hint, Entry[f].hint} = {"safetensors"}
  /\ Entry[e].shard.prefix = Entry[f].shard.prefix

\* shard_buckets: one prefix, one total, safetensors.
SameShardSet(e, f) ==
  /\ Entry[e].shard # NoShard
  /\ Entry[e].shard = Entry[f].shard
  /\ {Entry[e].hint, Entry[f].hint} = {"safetensors"}

\* An entry is a shard only with another one of its set in the listing.
HasSibling(e, listing) == \E f \in listing \ {e} : SameShardSet(e, f)

\* The k-th of a set of positions, and the elements of a list at them.
Nth(positions, k) ==
  CHOOSE i \in positions : Cardinality({j \in positions : j <= i}) = k

Kept(list, positions) ==
  [k \in 1 .. Cardinality(positions) |-> list[Nth(positions, k)]]

(***************************************************************************)
(* _groups_in_one_directory: the shard sets first, each one group of the   *)
(* artifacts that were still there, then every other file by itself (the   *)
(* order of the sets is of no account).                                    *)
(***************************************************************************)
Sharded(listing, found) == {i \in DOMAIN found : HasSibling(found[i].entry, listing)}

ShardSet(listing, found, i) ==
  {j \in Sharded(listing, found) : SameShardSet(found[i].entry, found[j].entry)}

\* A set stands where the first of its shards does.
Heads(listing, found) ==
  {i \in Sharded(listing, found) : \A j \in ShardSet(listing, found, i) : i <= j}

Singles(listing, found) == DOMAIN found \ Sharded(listing, found)

ShardGroups(listing, found) ==
  [k \in 1 .. Cardinality(Heads(listing, found)) |->
     ModelGroup("path", "sharded_safetensors",
                Kept(found, ShardSet(listing, found, Nth(Heads(listing, found), k))))]

SingleGroups(listing, found) ==
  [k \in 1 .. Cardinality(Singles(listing, found)) |->
     ModelGroup("path", "single_file", <<found[Nth(Singles(listing, found), k)]>>)]

PathGroups(listing, found) ==
  ShardGroups(listing, found) \o SingleGroups(listing, found)

\* Mutation of SnapshotGroups: one kind for every snapshot.
SnapshotGroupsOfOneKind(found) ==
  IF found = <<>> THEN <<>>
  ELSE <<ModelGroup("hf_cache", "hf_snapshot", found)>>

\* _groups_for_model_dir: everything in a snapshot is one group.
SnapshotGroups(found) ==
  IF found = <<>> THEN <<>>
  ELSE <<ModelGroup("hf_cache",
                    IF Len(found) > 1 THEN "hf_snapshot" ELSE "single_file",
                    found)>>

\* OllamaAdapter.discover: one group per manifest.
ManifestGroups(found) ==
  [i \in DOMAIN found |-> ModelGroup("ollama", "ollama_manifest", <<found[i]>>)]

GroupsOf(adapter, listing, found) ==
  CASE adapter = "path"     -> PathGroups(listing, found)
    [] adapter = "hf_cache" -> SnapshotGroups(found)
    [] adapter = "ollama"   -> ManifestGroups(found)

IsBlob(artifact) == Entry[artifact.entry].hint = "ollama_blob"

\* hash_artifact takes the digest from the name of the blob.
TakesName(artifact, trust) == trust /\ IsBlob(artifact)

(***************************************************************************)
(* was_filename_trusted: worked out again, when the report is written,     *)
(* from the flag and the artifact.                                         *)
(***************************************************************************)
WasFilenameTrusted(artifact, trust) ==
  /\ trust
  /\ IsBlob(artifact)
  /\ artifact.digest = NamedDigest[artifact.file]

\* The report says digest_verified: true of the artifact; of anything but an
\* Ollama blob it does not say whether its digest was verified.
DigestVerified(artifact, trust) ==
  IsBlob(artifact) /\ ~WasFilenameTrusted(artifact, trust)

=============================================================================
