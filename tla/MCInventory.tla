---------------------------- MODULE MCInventory -----------------------------
(***************************************************************************)
(* InventoryFile for two scans that export to one path.  The records are   *)
(* of each lane, of a lane to come, without evidence, and of an Ollama     *)
(* blob; roots are none, one, and two of one ecosystem; a group's files    *)
(* are under one root, under the other, or outside of both.                *)
(***************************************************************************)
EXTENDS InventoryFile, TLC

CONSTANTS d1, d2, d3, ev, mf

Claims(model, lane, evidence, artifact, format) ==
  [model |-> model, lane |-> lane, evidence |-> evidence,
   artifact |-> artifact, format |-> format]

Legacy  == Claims(1, "absent", ev, NoDigest, "safetensors")
Future  == Claims(1, "other", ev, NoDigest, "safetensors")
Blob    == Claims(2, "artifact_identity", NoDigest, mf, "ollama_blob")
Anchor  == Claims(2, "itpuf_structural_identity", ev, NoDigest, "ollama_blob")
Bare    == Claims(2, "absent", NoDigest, NoDigest, "gguf")

Found(h, c) == LookupResult(h, "verified", c)
Lookups(c1, c2) == (d1 :> Found(d1, c1)) @@ (d2 :> Found(d2, c2))
                     @@ (d3 :> LookupResult(d3, "not_enrolled", NoClaims))

Group(source, id, claim, digests, paths) ==
  [source |-> source, id |-> id, claim |-> claim, named |-> claim # NoModel,
   digests |-> digests, paths |-> paths]

InFirst  == Group("hf_cache", 1, 1, <<d1>>, <<<<"hub", "m">>>>)
InSecond == Group("hf_cache", 2, 1, <<d3>>, <<<<"nas", "m">>, <<"nas", "n">>>>)
Linked   == Group("hf_cache", 2, 2, <<d2, NoDigest>>, <<<<"big", "m">>, <<"big", "n">>>>)
Pulled   == Group("ollama", 1, 2, <<d2>>, <<<<"oll", "b">>>>)
Loose    == Group("path", 1, NoModel, <<d3>>, <<<<"x", "y", "f">>>>)
Loose2   == Group("path", 2, NoModel, <<d1, d1>>, <<<<"x", "y", "f">>, <<"x", "z", "f">>>>)

Root(ecosystem, path) == [ecosystem |-> ecosystem, resolved |-> path]

Hub == Root("hf_cache", <<"hub">>)
Nas == Root("hf_cache", <<"nas">>)
Oll == Root("ollama", <<"oll">>)
NoOll == Root("ollama", NoPath)

Outcome(groups, lookups, roots, utf8) ==
  [groups |-> groups, lookups |-> lookups, roots |-> roots, utf8 |-> utf8]

MCScans ==
  {Outcome(<<>>, Lookups(Legacy, Blob), <<Hub>>, TRUE),
   Outcome(<<InFirst, InSecond>>, Lookups(Legacy, Blob), <<Hub, Nas, Oll>>, TRUE),
   Outcome(<<InSecond, InFirst>>, Lookups(Legacy, Blob), <<Hub, Nas, Oll>>, TRUE),
   Outcome(<<Loose, Pulled, Loose2>>, Lookups(Future, Anchor), <<Hub, Oll>>, TRUE),
   Outcome(<<Loose2, Pulled, Loose>>, Lookups(Future, Anchor), <<Hub, Oll>>, TRUE),
   Outcome(<<Linked, Pulled>>, Lookups(Future, Bare), <<Hub, NoOll>>, FALSE),
   Outcome(<<InSecond, Pulled>>, Lookups(Legacy, Blob), <<>>, TRUE)}

=============================================================================
