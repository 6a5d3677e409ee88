----------------------------- MODULE MCFileScan -----------------------------
(***************************************************************************)
(* FileScan on three small trees.  Loose files: two shards of one set, a   *)
(* file of a second set with the same prefix, a .bin file, and the same    *)
(* shard name in another directory.  A cache: one model with two snapshots *)
(* that share a blob, walked by the Hugging Face adapter, and passed by    *)
(* the path adapter on its way.  An Ollama store: two tags, a resource     *)
(* fork, two blobs.                                                        *)
(***************************************************************************)
EXTENDS FileScan, TLC

CONSTANTS b0, b1

Shard(total) == [prefix |-> "model", total |-> total]
Plain(dir, hint, shard, target) ==
  [dir |-> dir, hint |-> hint, shard |-> shard, target |-> target]

LooseNames == {"x/1of2", "x/2of2", "x/1of3", "x/bin", "y/1of2"}

MCEntry ==
  [ n \in LooseNames \cup {"r1/m", "r1/n", "r2/m", "._t", "t", "u"} |->
    CASE n \in {"x/1of2", "x/2of2"} -> Plain("x", "safetensors", Shard(2), n)
      [] n = "x/1of3"               -> Plain("x", "safetensors", Shard(3), n)
      [] n = "x/bin"                -> Plain("x", "pytorch_bin", NoShard, n)
      [] n = "y/1of2"               -> Plain("y", "safetensors", Shard(2), n)
      [] n = "r1/m"                 -> Plain("r1", "gguf", NoShard, "blobs/m")
      [] n = "r1/n"                 -> Plain("r1", "pytorch_bin", NoShard, "blobs/n")
      [] n = "r2/m"                 -> Plain("r2", "gguf", NoShard, "blobs/m")
      [] n = "._t"                  -> Plain("tags", "none", NoShard, "._t")
      [] n = "t"                    -> Plain("tags", "ollama_blob", NoShard, "sha256-ab")
      [] n = "u"                    -> Plain("tags", "ollama_blob", NoShard, "sha256-b") ]

MCSorted == <<"._t", "r1/m", "r1/n", "r2/m", "t", "u",
              "x/1of2", "x/1of3", "x/2of2", "x/bin", "y/1of2">>

MCNamedDigest == ("sha256-ab" :> <<b0, b1>>) @@ ("sha256-b" :> <<b1>>)

MCVersions ==
  [ f \in LooseNames \cup {"blobs/m", "blobs/n", "._t"} \cup DOMAIN MCNamedDigest |->
    CASE f = "x/1of2"  -> {<<b0, b0>>, <<b1, b1>>}
      [] f = "blobs/m" -> {<<b0, b1>>}
      [] f \in DOMAIN MCNamedDigest -> {MCNamedDigest[f]}
      [] OTHER         -> {<<b1>>} ]

MCAtStart == [f \in DOMAIN MCVersions |->
                IF f = "y/1of2" THEN Missing ELSE CHOOSE c \in MCVersions[f] : TRUE]

Step1(adapter, dir) == [adapter |-> adapter, dir |-> dir]

MCWalks ==
  {<<Step1("path", "x"), Step1("path", "y")>>,
   <<Step1("path", "r1"), Step1("hf_cache", "r1"), Step1("hf_cache", "r2")>>,
   <<Step1("ollama", "tags")>>}

=============================================================================
