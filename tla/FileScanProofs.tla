--------------------------- MODULE FileScanProofs ---------------------------
(***************************************************************************)
(* Proofs about FileScan.  Discovery and hashing work on lists that were   *)
(* made when the tree looked otherwise.  What holds all the same is said   *)
(* of the files that nobody touched, whose state is that at the start; of  *)
(* the entries of one listing, which are distinct; of the one walk that    *)
(* enters a directory; and, for the file that is open, of the version of   *)
(* it that has been read so far.                                           *)
(***************************************************************************)
EXTENDS FileScan, Positions, SequenceTheorems, TLAPS

AdapterNames == {"path", "hf_cache", "ollama"}
GroupKinds == {"sharded_safetensors", "single_file", "hf_snapshot", "ollama_manifest"}
Discovering == {"visit", "list", "stat", "blob"}
Listing == {"stat", "blob"}

\* Only blobs of the store are found by way of a manifest.
Artifacts ==
  {a \in [entry : Entries, file : Files, digest : Contents \cup {NoDigest}] :
     IsBlob(a) => a.file \in DOMAIN NamedDigest}

ModelGroups ==
  {m \in [source : AdapterNames, kind : GroupKinds, artifacts : Seq(Artifacts)] :
     /\ m.artifacts # <<>>
     /\ m.kind = "hf_snapshot" => Len(m.artifacts) > 1}

Handles ==
  [file : Files \cup {NoFile}, own : Contents \cup {Missing}, got : Contents,
   versions : SUBSET Contents, inPlace : Nat]

Types ==
  /\ pc \in Discovering \cup {"hash", "done", "raised"}
  /\ trust \in BOOLEAN
  /\ walk \in Walks /\ visit \in 1 .. Len(walk) + 1
  /\ listing \subseteq Entries
  /\ pending \in Seq(listing)
  /\ blob \in DOMAIN NamedDigest \cup {Missing}
  /\ found \in Seq(Artifacts)
  /\ groups \in Seq(ModelGroups)
  /\ handle \in Handles
  /\ disk \in [Files -> Contents \cup {Missing}]
  /\ links \subseteq Links /\ dirs \subseteq Snapshots
  /\ manifest \in [Tags -> DOMAIN NamedDigest \cup {Missing, Garbled}]
  /\ changes \in 0 .. MaxChanges

-----------------------------------------------------------------------------
(***************************************************************************)
(* The walk.                                                               *)
(***************************************************************************)

\* Between two directories nothing is kept; in one, it is one to be entered.
WalkInv ==
  /\ pc \in {"visit", "list"} => listing = {} /\ pending = <<>> /\ found = <<>>
  /\ pc \in {"list", "stat", "blob"} => visit \in DOMAIN walk /\ Descends(Here)
  /\ pc = "list" => Here.adapter = "hf_cache"
  /\ pc = "blob" => /\ Here.adapter = "ollama" /\ pending # <<>>
                    /\ Head(pending) \in Tags /\ blob \in DOMAIN NamedDigest
                    /\ Head(pending) \in touched \/ blob = Entry[Head(pending)].target
  /\ pc \in {"hash", "done"} => visit = Len(walk) + 1

\* What nobody touched is as it was at the start.
StartInv ==
  /\ \A t \in Tags \ touched : manifest[t] = Entry[t].target
  /\ Links \ touched \subseteq links
  /\ \A f \in Files \ touched : disk[f] = AtStart[f]
  /\ \A e \in Entries : Entry[e].dir \in Snapshots \ dirs => e \in touched

\* An entry that is as it was, and its file with it.
AsAtStart(e) ==
  /\ {e, Entry[e].target} \cap touched = {}
  /\ AtStart[Entry[e].target] # Missing

\* The walk of a directory that takes e for a weights file.
Takes(j, e) ==
  /\ walk[j].dir = Entry[e].dir
  /\ Descends(walk[j])
  /\ IsWeights(walk[j].adapter, e)

IsPending(e) == \E k \in DOMAIN pending : pending[k] = e
IsFound(e) == \E k \in DOMAIN found : found[k].entry = e

\* The entries of the current directory are looked at once, none is lost.
ListingInv ==
  pc \in Listing =>
    /\ \A e \in listing : Entry[e].dir = Here.dir
    /\ \A j, k \in DOMAIN pending : pending[j] = pending[k] => j = k
    /\ \A k \in DOMAIN found : found[k].entry \in listing /\ ~IsPending(found[k].entry)
    /\ \A j, k \in DOMAIN found : found[j].entry = found[k].entry => j = k
    /\ \A e \in Entries : Takes(visit, e) /\ AsAtStart(e) => IsPending(e) \/ IsFound(e)

-----------------------------------------------------------------------------
(***************************************************************************)
(* The groups.                                                             *)
(***************************************************************************)
EntryAt(g, i) == groups[g].artifacts[i].entry

\* A group comes from the one walk that entered the directory of its files.
GroupsFromWalk ==
  \A g \in DOMAIN groups : \A i \in DOMAIN groups[g].artifacts :
    \E j \in 1 .. visit - 1 :
      /\ walk[j].dir = Entry[EntryAt(g, i)].dir
      /\ Descends(walk[j])
      /\ groups[g].source = walk[j].adapter

GroupsOnce ==
  \A g, h \in DOMAIN groups :
    \A i \in DOMAIN groups[g].artifacts, j \in DOMAIN groups[h].artifacts :
      EntryAt(g, i) = EntryAt(h, j) => g = h /\ i = j

IsGrouped(e) ==
  \E g \in DOMAIN groups : \E i \in DOMAIN groups[g].artifacts : EntryAt(g, i) = e

GroupsAll ==
  \A j \in 1 .. visit - 1 : \A e \in Entries :
    Takes(j, e) /\ AsAtStart(e) => IsGrouped(e)

\* Two files that the path adapter found are together if they are shards of
\* one set in one directory, and only then.
GroupsTogether ==
  \A g, h \in DOMAIN groups :
    groups[g].source = "path" /\ groups[h].source = "path" =>
      \A i \in DOMAIN groups[g].artifacts, j \in DOMAIN groups[h].artifacts :
        EntryAt(g, i) # EntryAt(h, j) =>
          ( g = h <=> /\ SameShardSet(EntryAt(g, i), EntryAt(h, j))
                      /\ Entry[EntryAt(g, i)].dir = Entry[EntryAt(h, j)].dir )

-----------------------------------------------------------------------------
(***************************************************************************)
(* Hashing.                                                                *)
(***************************************************************************)
Unhashed(a) == a.digest = NoDigest

DigestInv ==
  /\ pc \in Discovering =>
       /\ at = <<1, 1>>
       /\ \A g \in DOMAIN groups : \A i \in DOMAIN groups[g].artifacts :
            Unhashed(groups[g].artifacts[i])
       /\ \A k \in DOMAIN found : Unhashed(found[k])
  /\ pc = "hash" => /\ at = <<at[1], at[2]>> /\ at[1] \in DOMAIN groups
                    /\ at[2] \in DOMAIN groups[at[1]].artifacts

\* The open file is the current artifact's, and there is content behind it.
HandleInv ==
  /\ handle.file = NoFile => handle = Closed
  /\ handle.file # NoFile =>
       /\ pc = "hash"
       /\ handle.file = Current.file /\ ~TakesName(Current, trust)
       /\ handle.own = Missing => disk[handle.file] # Missing

\* What was read of a file, and what will be if nobody changes it any more,
\* is version v; `behind` is what is behind the name now.
Reads(v, behind, got) ==
  /\ \A k \in DOMAIN got : k \in DOMAIN v /\ v[k] = got[k]
  /\ \A k \in 1 .. MaxBlocks :
       k > Len(got) =>
         /\ k \in DOMAIN v <=> k \in DOMAIN behind
         /\ k \in DOMAIN v => v[k] = behind[k]

ReadingInv ==
  handle.file # NoFile =>
    /\ Behind(handle) \in handle.versions
    /\ handle.inPlace = 0 => Reads(Behind(handle), Behind(handle), handle.got)
    /\ handle.inPlace = 1 =>
         \E v \in handle.versions : Reads(v, Behind(handle), handle.got)

IInv ==
  /\ Types /\ WalkInv /\ StartInv /\ ListingInv
  /\ GroupsFromWalk /\ GroupsOnce /\ GroupsAll /\ GroupsTogether
  /\ DigestInv /\ HandleInv /\ ReadingInv

-----------------------------------------------------------------------------
(***************************************************************************)
(* The lists.                                                              *)
(***************************************************************************)

\* Contents are the sequences of at most MaxBlocks blocks.
LEMMA ContentsAre ==
  /\ \A c \in Contents : /\ c \in Seq(Blocks) /\ Len(c) \in Nat /\ Len(c) <= MaxBlocks
                         /\ DOMAIN c = 1 .. Len(c) /\ DOMAIN c \subseteq 1 .. MaxBlocks
                         /\ \A k \in DOMAIN c : c[k] \in Blocks
  /\ \A c \in Seq(Blocks) : Len(c) <= MaxBlocks => c \in Contents
  /\ <<>> \in Contents
<1>1. MaxBlocks \in Nat
  BY FileScanConstants
<1>2. ASSUME NEW c \in Contents
      PROVE  /\ c \in Seq(Blocks) /\ Len(c) \in Nat /\ Len(c) <= MaxBlocks
             /\ DOMAIN c = 1 .. Len(c) /\ DOMAIN c \subseteq 1 .. MaxBlocks
             /\ \A k \in DOMAIN c : c[k] \in Blocks
  <2>1. PICK n \in 0 .. MaxBlocks : c \in [1 .. n -> Blocks]
    BY DEF Contents
  <2>2. n \in Nat /\ n <= MaxBlocks
    BY <1>1, <2>1
  <2>3. c \in Seq(Blocks)
    BY <2>1, <2>2, SeqDef
  <2>4. Len(c) \in Nat /\ DOMAIN c = 1 .. Len(c)
    BY <2>3, LenProperties
  <2>5. 1 .. Len(c) = 1 .. n
    BY <2>1, <2>4
  <2>6. Len(c) = n
    <3>1. n \in Nat
      BY <2>2
    <3>2. Len(c) \in Nat
      BY <2>4
    <3> QED BY <2>5, <3>1, <3>2
  <2>7. 1 .. n \subseteq 1 .. MaxBlocks
    BY <1>1, <2>2
  <2> QED BY <2>1, <2>2, <2>3, <2>4, <2>6, <2>7
<1>3. ASSUME NEW c \in Seq(Blocks), Len(c) <= MaxBlocks
      PROVE  c \in Contents
  <2>1. Len(c) \in 0 .. MaxBlocks /\ c \in [1 .. Len(c) -> Blocks]
    BY <1>1, <1>3, LenProperties
  <2> QED BY <2>1 DEF Contents
<1>4. <<>> \in Contents
  <2>1. <<>> \in Seq(Blocks) /\ Len(<<>>) = 0
    BY EmptySeq
  <2>2. 0 <= MaxBlocks
    BY <1>1
  <2> QED BY <1>3, <2>1, <2>2
<1> QED BY <1>2, <1>3, <1>4

\* What a filtered list holds.
LEMMA Filtered ==
  ASSUME NEW S, NEW list \in Seq(S), NEW P, P \subseteq DOMAIN list
  PROVE  /\ Cardinality(P) \in Nat
         /\ \A k \in 1 .. Cardinality(P) : Nth(P, k) \in P /\ UpTo(P, Nth(P, k)) = k
         /\ \A j, k \in 1 .. Cardinality(P) : Nth(P, j) = Nth(P, k) => j = k
         /\ \A i \in P : \E k \in 1 .. Cardinality(P) : Nth(P, k) = i
         /\ Kept(list, P) \in Seq(S)
         /\ DOMAIN Kept(list, P) = 1 .. Cardinality(P)
         /\ Len(Kept(list, P)) = Cardinality(P)
         /\ \A k \in 1 .. Cardinality(P) : Kept(list, P)[k] = list[Nth(P, k)]
<1> DEFINE m == Cardinality(P)
<1>1. Len(list) \in Nat /\ DOMAIN list = 1 .. Len(list)
  BY LenProperties
<1>2. /\ m \in Nat
      /\ \A i \in P : UpTo(P, i) \in 1 .. m
      /\ \A i, j \in P : UpTo(P, i) = UpTo(P, j) => i = j
      /\ \A k \in 1 .. m : \E i \in P : UpTo(P, i) = k
  BY <1>1, Numbering
<1>3. \A k \in 1 .. m : Nth(P, k) \in P /\ UpTo(P, Nth(P, k)) = k
  <2> SUFFICES ASSUME NEW k \in 1 .. m
               PROVE  Nth(P, k) \in P /\ UpTo(P, Nth(P, k)) = k
    OBVIOUS
  <2>1. Nth(P, k) = CHOOSE i \in P : UpTo(P, i) = k
    BY DEF Nth, UpTo
  <2> QED BY <1>2, <2>1
<1>4. \A j, k \in 1 .. m : Nth(P, j) = Nth(P, k) => j = k
  BY <1>3
<1>5. \A i \in P : \E k \in 1 .. m : Nth(P, k) = i
  <2> SUFFICES ASSUME NEW i \in P PROVE \E k \in 1 .. m : Nth(P, k) = i
    OBVIOUS
  <2>1. UpTo(P, i) \in 1 .. m
    BY <1>2
  <2>2. Nth(P, UpTo(P, i)) \in P /\ UpTo(P, Nth(P, UpTo(P, i))) = UpTo(P, i)
    BY <1>3, <2>1
  <2>3. Nth(P, UpTo(P, i)) = i
    BY <1>2, <2>2
  <2> QED BY <2>1, <2>3
<1>6. Kept(list, P) = [k \in 1 .. m |-> list[Nth(P, k)]]
  BY DEF Kept
<1>7. \A k \in 1 .. m : list[Nth(P, k)] \in S
  <2>1. \A i \in 1 .. Len(list) : list[i] \in S
    BY ElementOfSeq
  <2> QED BY <1>1, <1>3, <2>1
<1>8. /\ DOMAIN Kept(list, P) = 1 .. m
      /\ \A k \in 1 .. m : Kept(list, P)[k] = list[Nth(P, k)]
  BY <1>6
<1>9. Kept(list, P) \in Seq(S)
  <2>1. Kept(list, P) \in [1 .. m -> S]
    BY <1>6, <1>7
  <2> QED BY <1>2, <2>1, SeqDef
<1>10. Len(Kept(list, P)) = m
  <2>1. Len(Kept(list, P)) \in Nat /\ 1 .. Len(Kept(list, P)) = 1 .. m
    BY <1>8, <1>9, LenProperties
  <2> QED BY <1>2, <2>1
<1> QED BY <1>2, <1>3, <1>4, <1>5, <1>8, <1>9, <1>10

\* What taking the first of the pending entries off does to the list.
LEMMA Shortened ==
  ASSUME NEW S, NEW s \in Seq(S), s # <<>>
  PROVE  /\ Tail(s) \in Seq(S) /\ Head(s) \in S
         /\ 1 \in DOMAIN s /\ s[1] = Head(s)
         /\ \A k \in DOMAIN Tail(s) : k + 1 \in DOMAIN s /\ Tail(s)[k] = s[k + 1]
         /\ \A k \in DOMAIN s : k = 1 \/ \E j \in DOMAIN Tail(s) : k = j + 1
<1> DEFINE t == Tail(s)
<1>1. /\ Head(s) \in S /\ t \in Seq(S) /\ Len(t) = Len(s) - 1
      /\ \A i \in 1 .. Len(t) : t[i] = s[i + 1]
  BY HeadTailProperties
<1>2. /\ Len(s) \in Nat \ {0} /\ DOMAIN s = 1 .. Len(s)
      /\ Len(t) \in Nat /\ DOMAIN t = 1 .. Len(t)
  BY <1>1, EmptySeq, LenProperties
<1>3. 1 \in DOMAIN s /\ s[1] = Head(s)
  BY <1>2
<1>4. \A k \in DOMAIN t : k + 1 \in DOMAIN s
  BY <1>1, <1>2
<1>5. \A k \in DOMAIN s : k = 1 \/ \E j \in DOMAIN t : k = j + 1
  <2> SUFFICES ASSUME NEW k \in DOMAIN s, k # 1
               PROVE  \E j \in DOMAIN t : k = j + 1
    OBVIOUS
  <2>1. k \in Nat /\ k - 1 \in 1 .. Len(t) /\ k = (k - 1) + 1
    BY <1>1, <1>2
  <2> QED BY <1>2, <2>1
<1> QED BY <1>1, <1>2, <1>3, <1>4, <1>5 DEF t

\* A list with at most one element more.
LEMMA Extended ==
  ASSUME NEW S, NEW s \in Seq(S), NEW more,
         NEW e \in S, more = <<>> \/ more = <<e>>
  PROVE  /\ s \o more \in Seq(S)
         /\ DOMAIN s \subseteq DOMAIN (s \o more)
         /\ \A k \in DOMAIN s : (s \o more)[k] = s[k]
         /\ more = <<e>> => \E k \in DOMAIN (s \o more) : (s \o more)[k] = e
         /\ \A k \in DOMAIN (s \o more) : k \in DOMAIN s \/ (more = <<e>> /\ (s \o more)[k] = e)
         /\ \A j, k \in DOMAIN (s \o more) : j \notin DOMAIN s /\ k \notin DOMAIN s => j = k
<1> DEFINE t == s \o more
<1>1. CASE more = <<>>
  <2>1. t = s /\ more # <<e>>
    BY <1>1, ConcatEmptySeq
  <2> QED BY <2>1
<1>2. CASE more = <<e>>
  <2>1. t = Append(s, e)
    BY <1>2, AppendIsConcat
  <2> QED BY <1>2, <2>1, Appended
<1> QED BY <1>1, <1>2

-----------------------------------------------------------------------------
(***************************************************************************)
(* The tree and the walk.                                                  *)
(***************************************************************************)
LEMMA EntryFacts ==
  /\ \A e \in Entries : e \in Tags <=> Entry[e].hint = "ollama_blob"
  /\ \A e \in Tags : Entry[e].target \in DOMAIN NamedDigest
  /\ \A e \in Entries : Entry[e].target \in Files
  /\ Missing \notin Files /\ Garbled \notin Files
  /\ \A e \in Entries : Entry[e].dir \in Snapshots => e \in Links
  /\ \A e \in Entries : IsWeights("ollama", e) <=> e \in Tags
  /\ \A e \in Entries, a \in {"path", "hf_cache"} : IsWeights(a, e) => e \notin Tags
<1>1. \A e \in Entries : e \in Tags <=> Entry[e].hint = "ollama_blob"
  BY DEF Tags
<1>2. \A e \in Entries : IsWeights("ollama", e) <=> e \in Tags
  BY <1>1 DEF IsWeights
<1>3. \A e \in Entries, a \in {"path", "hf_cache"} : IsWeights(a, e) => e \notin Tags
  BY <1>1 DEF IsWeights
<1> QED BY <1>1, <1>2, <1>3, FileScanConstants

\* Walks are lists, and one walk enters a directory at most once.
LEMMA WalkFacts ==
  ASSUME Types
  PROVE  /\ Len(walk) \in Nat /\ DOMAIN walk = 1 .. Len(walk)
         /\ visit \in Nat \ {0} /\ visit - 1 \in Nat
         /\ 1 .. visit - 1 \subseteq DOMAIN walk /\ visit \notin 1 .. visit - 1
         /\ \A j \in DOMAIN walk :
              /\ walk[j].adapter \in AdapterNames
              /\ walk[j].adapter = "hf_cache" => walk[j].dir \in Snapshots
         /\ \A i, j \in DOMAIN walk :
              Descends(walk[i]) /\ Descends(walk[j]) /\ walk[i].dir = walk[j].dir => i = j
<1>1. walk \in Walks /\ visit \in 1 .. Len(walk) + 1
  BY DEF Types
<1>2. walk \in Seq([adapter : AdapterNames, dir : Directories])
  BY <1>1, FileScanConstants DEF AdapterNames
<1>3. Len(walk) \in Nat /\ DOMAIN walk = 1 .. Len(walk)
  BY <1>2, LenProperties
<1>4. \A j \in DOMAIN walk : walk[j].adapter \in AdapterNames
  <2>1. \A j \in 1 .. Len(walk) : walk[j] \in [adapter : AdapterNames, dir : Directories]
    BY <1>2, ElementOfSeq
  <2> QED BY <1>3, <2>1
<1>5. \A j \in DOMAIN walk : walk[j].adapter = "hf_cache" => walk[j].dir \in Snapshots
  BY <1>1, FileScanConstants
<1>6. \A i, j \in DOMAIN walk :
        Descends(walk[i]) /\ Descends(walk[j]) /\ walk[i].dir = walk[j].dir => i = j
  <2> SUFFICES ASSUME NEW i \in DOMAIN walk, NEW j \in DOMAIN walk,
                      Descends(walk[i]), Descends(walk[j]), walk[i].dir = walk[j].dir,
                      i # j
               PROVE  FALSE
    OBVIOUS
  <2>1. walk[i].dir \in Snapshots /\ "path" \in {walk[i].adapter, walk[j].adapter}
    BY <1>1, FileScanConstants
  <2> QED BY <2>1 DEF Descends
<1>7. visit \in Nat \ {0} /\ visit - 1 \in Nat /\ visit - 1 <= Len(walk)
  BY <1>1, <1>3
<1>8. 1 .. visit - 1 \subseteq 1 .. Len(walk) /\ visit \notin 1 .. visit - 1
  BY <1>3, <1>7
<1> QED BY <1>3, <1>4, <1>5, <1>6, <1>7, <1>8

\* An entry that is as it was is found, with its file.
LEMMA AsAtStartIsListed ==
  ASSUME Types, StartInv, NEW e \in Entries, AsAtStart(e)
  PROVE  /\ Listed(e) /\ disk[Entry[e].target] # Missing
         /\ e \in Tags => manifest[e] = Entry[e].target
         /\ Entry[e].dir \in Snapshots => Entry[e].dir \in dirs
<1>1. e \notin touched /\ Entry[e].target \notin touched
  BY DEF AsAtStart
<1>2. Entry[e].target \in Files
  BY EntryFacts
<1>3. disk[Entry[e].target] # Missing
  BY <1>1, <1>2 DEF StartInv, AsAtStart
<1>4. e \in Tags => manifest[e] = Entry[e].target /\ manifest[e] # Missing
  BY <1>1, <1>2, EntryFacts DEF StartInv
<1>5. e \in Links => e \in links
  BY <1>1 DEF StartInv
<1>6. e \notin Tags /\ e \notin Links => Entry[e].target = e
  BY DEF Links
<1>7. Listed(e)
  BY <1>3, <1>4, <1>5, <1>6 DEF Listed
<1>8. Entry[e].dir \in Snapshots => Entry[e].dir \in dirs
  BY <1>1 DEF StartInv
<1> QED BY <1>3, <1>4, <1>7, <1>8

\* What stayed, as the properties say it, is what the invariant calls as at the
\* start.
LEMMA StayedIsAsAtStart ==
  ASSUME Types, StartInv, NEW e \in Entries, Stayed(e)
  PROVE  AsAtStart(e)
<1>1. e \notin touched /\ FileOf(e) \notin touched /\ disk[FileOf(e)] # Missing
  BY DEF Stayed
<1>2. FileOf(e) = Entry[e].target
  BY <1>1 DEF FileOf, StartInv
<1>3. disk[Entry[e].target] = AtStart[Entry[e].target]
  BY <1>1, <1>2, EntryFacts DEF StartInv
<1> QED BY <1>1, <1>2, <1>3 DEF AsAtStart

\* The listing of a directory names each of its entries that exist once.
LEMMA DirectoryListed ==
  ASSUME NEW d
  PROVE  LET list == ListDir(d)
             lst == {list[i] : i \in DOMAIN list}
         IN  /\ list \in Seq(lst) /\ lst \subseteq Entries
             /\ \A e \in lst : Entry[e].dir = d
             /\ \A j, k \in DOMAIN list : list[j] = list[k] => j = k
             /\ \A e \in Entries :
                  Entry[e].dir = d /\ Listed(e) => \E k \in DOMAIN list : list[k] = e
<1> DEFINE P == {i \in DOMAIN Sorted : Entry[Sorted[i]].dir = d /\ Listed(Sorted[i])}
           list == ListDir(d)
           lst == {list[i] : i \in DOMAIN list}
           n == Cardinality(P)
<1>1. /\ Sorted \in Seq(Entries)
      /\ \A e \in Entries : \E i \in DOMAIN Sorted : Sorted[i] = e
      /\ \A i, j \in DOMAIN Sorted : Sorted[i] = Sorted[j] => i = j
  BY AdapterConstants
<1>2. P \subseteq DOMAIN Sorted /\ list = Kept(Sorted, P)
  BY DEF ListDir
<1>3. /\ n \in Nat
      /\ \A k \in 1 .. n : Nth(P, k) \in P
      /\ \A j, k \in 1 .. n : Nth(P, j) = Nth(P, k) => j = k
      /\ \A i \in P : \E k \in 1 .. n : Nth(P, k) = i
      /\ list \in Seq(Entries) /\ DOMAIN list = 1 .. n /\ Len(list) = n
      /\ \A k \in 1 .. n : list[k] = Sorted[Nth(P, k)]
  <2> HIDE DEF P, list
  <2> QED BY <1>1, <1>2, Filtered
<1>4. \A k \in 1 .. n : Nth(P, k) \in DOMAIN Sorted /\ Entry[list[k]].dir = d
  BY <1>3
<1>5. ASSUME NEW e \in Entries, Entry[e].dir = d, Listed(e)
      PROVE  \E k \in DOMAIN list : list[k] = e
  <2>1. PICK i \in DOMAIN Sorted : Sorted[i] = e
    BY <1>1
  <2>2. i \in P
    BY <1>5, <2>1
  <2> HIDE DEF P, list
  <2> QED BY <1>3, <2>1, <2>2
<1> HIDE DEF P, list
<1>6. list \in Seq(lst) /\ lst \subseteq Entries
  <2>1. \A k \in 1 .. n : list[k] \in Entries /\ list[k] \in lst
    BY <1>3, ElementOfSeq
  <2>2. list \in [1 .. n -> lst]
    BY <1>3, <2>1, LenProperties
  <2>3. list \in Seq(lst)
    <3> HIDE DEF lst
    <3> QED BY <1>3, <2>2, SeqDef
  <2>4. lst \subseteq Entries
    BY <1>3, <2>1
  <2> QED BY <2>3, <2>4
<1>7. \A j, k \in DOMAIN list : list[j] = list[k] => j = k
  BY <1>1, <1>3, <1>4
<1>8. \A e \in lst : Entry[e].dir = d
  BY <1>3, <1>4
<1> QED BY <1>5, <1>6, <1>7, <1>8 DEF list

-----------------------------------------------------------------------------
(***************************************************************************)
(* The groups of one directory: the shard sets partition the shards.       *)
(***************************************************************************)
LEMMA ShardSetIsKind ==
  /\ \A e, f : SameShardSet(e, f) => SameShardSet(f, e) /\ SameShardSet(e, e)
  /\ \A e, f, g : SameShardSet(e, f) /\ SameShardSet(f, g) => SameShardSet(e, g)
BY DEF SameShardSet

\* The sets that are headed by a shard are disjoint and hold every shard that has
\* company.
LEMMA ShardSets ==
  ASSUME NEW arts \in Seq(Artifacts), NEW lst,
         \A k \in DOMAIN arts : arts[k].entry \in lst,
         \A j, k \in DOMAIN arts : arts[j].entry = arts[k].entry => j = k,
         NEW D, D = Sharded(lst, arts),
         NEW H, H = Heads(lst, arts)
  PROVE  /\ H \subseteq D /\ D \subseteq DOMAIN arts
         /\ \A h \in H : ShardSet(lst, arts, h) \subseteq D /\ h \in ShardSet(lst, arts, h)
         /\ \A i \in D : \E h \in H : i \in ShardSet(lst, arts, h)
         /\ \A g, h \in H : \A i \in ShardSet(lst, arts, g), j \in ShardSet(lst, arts, h) :
              g = h <=> SameShardSet(arts[i].entry, arts[j].entry)
         /\ \A i, j \in DOMAIN arts :
              i # j /\ SameShardSet(arts[i].entry, arts[j].entry) => i \in D /\ j \in D
<1> DEFINE R(i, j) == SameShardSet(arts[i].entry, arts[j].entry)
           C(i) == {j \in D : R(i, j)}
<1>1. /\ \A i, j : R(i, j) => R(j, i) /\ R(i, i)
      /\ \A i, j, k : R(i, j) /\ R(j, k) => R(i, k)
  BY ShardSetIsKind
<1>2. \A i \in DOMAIN arts :
        i \in D <=> \E f \in lst \ {arts[i].entry} : SameShardSet(arts[i].entry, f)
  BY DEF Sharded, HasSibling
<1>3. D \subseteq DOMAIN arts
  BY DEF Sharded
<1>4. \A i \in D : R(i, i)
  BY <1>2, <1>3, ShardSetIsKind
<1>5. \A i : ShardSet(lst, arts, i) = C(i)
  BY DEF ShardSet
<1>6. H = {i \in D : \A j \in C(i) : i <= j}
  BY <1>5 DEF Heads
<1>7. \A i, j \in DOMAIN arts : i # j /\ R(i, j) => i \in D /\ j \in D
  <2> SUFFICES ASSUME NEW i \in DOMAIN arts, NEW j \in DOMAIN arts, i # j, R(i, j)
               PROVE  i \in D
    BY <1>1
  <2>1. arts[j].entry \in lst \ {arts[i].entry}
    OBVIOUS
  <2> QED BY <1>2, <2>1
<1>8. Len(arts) \in Nat /\ DOMAIN arts = 1 .. Len(arts)
  BY LenProperties
<1> HIDE DEF R
<1>9. \A i \in D : \E h \in H : i \in C(h)
  <2> SUFFICES ASSUME NEW i \in D PROVE \E h \in H : i \in C(h)
    OBVIOUS
  <2>1. C(i) \subseteq 1 .. Len(arts) /\ C(i) # {}
    BY <1>3, <1>4, <1>8
  <2>2. PICK h \in C(i) : \A j \in C(i) : h <= j
    <3> HIDE DEF C
    <3> QED BY <1>8, <2>1, FirstPosition
  <2>3. \A j \in C(h) : j \in C(i)
    BY <1>1, <2>2
  <2>4. h \in H
    BY <1>6, <2>2, <2>3
  <2>5. i \in C(h)
    BY <1>1, <2>2
  <2> QED BY <2>4, <2>5
<1>10. \A g, h \in H : \A i \in C(g), j \in C(h) : g = h <=> R(i, j)
  <2> SUFFICES ASSUME NEW g \in H, NEW h \in H, NEW i \in C(g), NEW j \in C(h)
               PROVE  g = h <=> R(i, j)
    OBVIOUS
  <2>1. R(g, i) /\ R(h, j)
    OBVIOUS
  <2>2. ASSUME g = h PROVE R(i, j)
    BY <1>1, <2>1, <2>2
  <2>3. ASSUME R(i, j) PROVE g = h
    <3>1. R(g, h) /\ R(h, g)
      BY <1>1, <2>1, <2>3
    <3>2. g <= h /\ h <= g
      BY <1>6, <3>1
    <3>3. g \in 1 .. Len(arts) /\ h \in 1 .. Len(arts)
      BY <1>3, <1>6, <1>8
    <3> QED BY <1>8, <3>2, <3>3
  <2> QED BY <2>2, <2>3
<1>11. \A h \in H : C(h) \subseteq D /\ h \in C(h)
  BY <1>4, <1>6
<1>12. H \subseteq D
  BY <1>6
<1>13. \A h \in H : ShardSet(lst, arts, h) \subseteq D /\ h \in ShardSet(lst, arts, h)
  BY <1>5, <1>11
<1>14. \A i \in D : \E h \in H : i \in ShardSet(lst, arts, h)
  BY <1>5, <1>9
<1>15. \A g, h \in H : \A i \in ShardSet(lst, arts, g), j \in ShardSet(lst, arts, h) :
          g = h <=> R(i, j)
  BY <1>5, <1>10
<1> HIDE DEF C
<1> QED BY <1>3, <1>7, <1>12, <1>13, <1>14, <1>15 DEF R

\* What a directory gives: every artifact in one group, together with the
\* others of its shard set where the path adapter is at work.
AreGroupsOf(G, adapter, arts) ==
  /\ G \in Seq(ModelGroups)
  /\ \A g \in DOMAIN G : G[g].source = adapter
  /\ \A g \in DOMAIN G : \A i \in DOMAIN G[g].artifacts :
       \E k \in DOMAIN arts : G[g].artifacts[i] = arts[k]
  /\ \A k \in DOMAIN arts :
       \E g \in DOMAIN G : \E i \in DOMAIN G[g].artifacts : G[g].artifacts[i] = arts[k]
  /\ \A g, h \in DOMAIN G : \A i \in DOMAIN G[g].artifacts, j \in DOMAIN G[h].artifacts :
       G[g].artifacts[i].entry = G[h].artifacts[j].entry => g = h /\ i = j
  /\ adapter = "path" =>
       \A g, h \in DOMAIN G : \A i \in DOMAIN G[g].artifacts, j \in DOMAIN G[h].artifacts :
         G[g].artifacts[i].entry # G[h].artifacts[j].entry =>
           ( g = h <=> SameShardSet(G[g].artifacts[i].entry, G[h].artifacts[j].entry) )

\* A group of some artifacts is a group of those artifacts.
LEMMA GroupBuilt ==
  ASSUME NEW source \in AdapterNames, NEW kind \in GroupKinds, NEW arts \in Seq(Artifacts),
         arts # <<>>, kind = "hf_snapshot" => Len(arts) > 1
  PROVE  /\ ModelGroup(source, kind, arts) \in ModelGroups
         /\ ModelGroup(source, kind, arts).source = source
         /\ ModelGroup(source, kind, arts).artifacts = arts
BY DEF ModelGroup, ModelGroups

\* A list of one element.
LEMMA OneElement ==
  ASSUME NEW S, NEW e \in S
  PROVE  /\ <<e>> \in Seq(S) /\ <<e>> # <<>> /\ Len(<<e>>) = 1
         /\ DOMAIN <<e>> = {1} /\ <<e>>[1] = e
OBVIOUS

\* The list of none.
LEMMA NoElement == DOMAIN <<>> = {} /\ \A S : <<>> \in Seq(S)
<1>1. DOMAIN <<>> = {}
  OBVIOUS
<1>2. \A S : <<>> \in Seq(S)
  BY EmptySeq
<1> QED BY <1>1, <1>2

\* What the Hugging Face adapter found in a snapshot makes groups.
LEMMA SnapshotGrouped ==
  ASSUME NEW arts \in Seq(Artifacts),
         \A j, k \in DOMAIN arts : arts[j].entry = arts[k].entry => j = k
  PROVE  AreGroupsOf(SnapshotGroups(arts), "hf_cache", arts)
<1> SUFFICES ASSUME NEW G, G = SnapshotGroups(arts)
             PROVE  AreGroupsOf(G, "hf_cache", arts)
  OBVIOUS
<1> DEFINE kind == IF Len(arts) > 1 THEN "hf_snapshot" ELSE "single_file"
<1>1. CASE arts = <<>>
  <2>1. G = <<>>
    BY <1>1 DEF SnapshotGroups
  <2>2. DOMAIN G = {} /\ DOMAIN arts = {} /\ G \in Seq(ModelGroups)
    BY <1>1, <2>1, NoElement
  <2> QED BY <2>2 DEF AreGroupsOf
<1>2. CASE arts # <<>>
  <2> DEFINE m == ModelGroup("hf_cache", kind, arts)
  <2>1. kind \in GroupKinds /\ (kind = "hf_snapshot" => Len(arts) > 1)
    BY DEF GroupKinds
  <2>2. m \in ModelGroups /\ m.source = "hf_cache" /\ m.artifacts = arts
    <3> HIDE DEF kind
    <3> QED BY <1>2, <2>1, GroupBuilt DEF AdapterNames
  <2>3. G = <<m>>
    BY <1>2 DEF SnapshotGroups
  <2> HIDE DEF m
  <2>4. G \in Seq(ModelGroups) /\ DOMAIN G = {1} /\ G[1] = m
    BY <2>2, <2>3, OneElement
  <2> QED BY <2>2, <2>4 DEF AreGroupsOf
<1> QED BY <1>1, <1>2

\* What the Ollama adapter found in a store makes groups.
LEMMA ManifestsGrouped ==
  ASSUME NEW arts \in Seq(Artifacts),
         \A j, k \in DOMAIN arts : arts[j].entry = arts[k].entry => j = k
  PROVE  AreGroupsOf(ManifestGroups(arts), "ollama", arts)
<1> SUFFICES ASSUME NEW G, G = ManifestGroups(arts)
             PROVE  AreGroupsOf(G, "ollama", arts)
  OBVIOUS
<1>1. Len(arts) \in Nat /\ DOMAIN arts = 1 .. Len(arts)
  BY LenProperties
<1>2. \A k \in 1 .. Len(arts) : arts[k] \in Artifacts
  BY ElementOfSeq
<1>3. G = [k \in 1 .. Len(arts) |-> ModelGroup("ollama", "ollama_manifest", <<arts[k]>>)]
  BY <1>1 DEF ManifestGroups
<1>4. \A k \in 1 .. Len(arts) :
        /\ G[k] \in ModelGroups /\ G[k].source = "ollama"
        /\ DOMAIN G[k].artifacts = {1} /\ G[k].artifacts[1] = arts[k]
  <2> SUFFICES ASSUME NEW k \in 1 .. Len(arts)
               PROVE  /\ G[k] \in ModelGroups /\ G[k].source = "ollama"
                      /\ DOMAIN G[k].artifacts = {1} /\ G[k].artifacts[1] = arts[k]
    OBVIOUS
  <2>1. G[k] = ModelGroup("ollama", "ollama_manifest", <<arts[k]>>)
    BY <1>3
  <2>2. /\ <<arts[k]>> \in Seq(Artifacts) /\ <<arts[k]>> # <<>>
        /\ DOMAIN <<arts[k]>> = {1} /\ <<arts[k]>>[1] = arts[k]
    BY <1>2, OneElement
  <2>3. /\ G[k] \in ModelGroups /\ G[k].source = "ollama"
        /\ G[k].artifacts = <<arts[k]>>
    <3> DEFINE one == <<arts[k]>>
    <3>1. /\ "ollama" \in AdapterNames /\ "ollama_manifest" \in GroupKinds
          /\ "ollama_manifest" # "hf_snapshot"
      BY DEF AdapterNames, GroupKinds
    <3>2. one \in Seq(Artifacts) /\ one # <<>>
      BY <2>2
    <3>3. G[k] = ModelGroup("ollama", "ollama_manifest", one)
      BY <2>1
    <3> HIDE DEF one
    <3>4. G[k] \in ModelGroups /\ G[k].source = "ollama" /\ G[k].artifacts = one
      BY <3>1, <3>2, <3>3, GroupBuilt
    <3> QED BY <3>4 DEF one
  <2> QED BY <2>2, <2>3
<1>5. DOMAIN G = 1 .. Len(arts)
  BY <1>3
<1>6. G \in Seq(ModelGroups)
  <2>1. G \in [1 .. Len(arts) -> ModelGroups]
    BY <1>3, <1>4, <1>5
  <2> QED BY <1>1, <2>1, SeqDef
<1> QED BY <1>1, <1>4, <1>5, <1>6 DEF AreGroupsOf

\* What the path adapter found in a directory makes groups, by shard set.
LEMMA PathGrouped ==
  ASSUME NEW arts \in Seq(Artifacts), NEW lst,
         \A k \in DOMAIN arts : arts[k].entry \in lst,
         \A j, k \in DOMAIN arts : arts[j].entry = arts[k].entry => j = k
  PROVE  AreGroupsOf(PathGroups(lst, arts), "path", arts)
<1> SUFFICES ASSUME NEW G, G = PathGroups(lst, arts)
             PROVE  AreGroupsOf(G, "path", arts)
  OBVIOUS
<1> DEFINE D == Sharded(lst, arts)
           H == Heads(lst, arts)
           N == Singles(lst, arts)
           C(h) == ShardSet(lst, arts, h)
           m == Cardinality(H)
           n == Cardinality(N)
           S == ShardGroups(lst, arts)
           T == SingleGroups(lst, arts)
           Pos(g, i) == IF g <= m THEN Nth(C(Nth(H, g)), i) ELSE Nth(N, g - m)
<1>1. /\ H \subseteq D /\ D \subseteq DOMAIN arts
      /\ \A h \in H : C(h) \subseteq D /\ h \in C(h)
      /\ \A i \in D : \E h \in H : i \in C(h)
      /\ \A g, h \in H : \A i \in C(g), j \in C(h) :
           g = h <=> SameShardSet(arts[i].entry, arts[j].entry)
      /\ \A i, j \in DOMAIN arts :
           i # j /\ SameShardSet(arts[i].entry, arts[j].entry) => i \in D /\ j \in D
  BY ShardSets
<1>2. N = DOMAIN arts \ D
  BY DEF Singles
<1>3. S = [k \in 1 .. m |-> ModelGroup("path", "sharded_safetensors", Kept(arts, C(Nth(H, k))))]
  BY DEF ShardGroups
<1>4. T = [k \in 1 .. n |-> ModelGroup("path", "single_file", <<arts[Nth(N, k)]>>)]
  BY DEF SingleGroups
<1>5. G = S \o T
  BY DEF PathGroups
<1> HIDE DEF D, H, N, C, m, n, S, T
<1>6. ASSUME NEW P, P \subseteq DOMAIN arts
      PROVE  /\ Cardinality(P) \in Nat
             /\ \A k \in 1 .. Cardinality(P) : Nth(P, k) \in P
             /\ \A j, k \in 1 .. Cardinality(P) : Nth(P, j) = Nth(P, k) => j = k
             /\ \A i \in P : \E k \in 1 .. Cardinality(P) : Nth(P, k) = i
             /\ Kept(arts, P) \in Seq(Artifacts)
             /\ DOMAIN Kept(arts, P) = 1 .. Cardinality(P)
             /\ \A k \in 1 .. Cardinality(P) : Kept(arts, P)[k] = arts[Nth(P, k)]
             /\ P # {} => Kept(arts, P) # <<>>
  <2>1. /\ Cardinality(P) \in Nat
        /\ \A k \in 1 .. Cardinality(P) : Nth(P, k) \in P
        /\ \A j, k \in 1 .. Cardinality(P) : Nth(P, j) = Nth(P, k) => j = k
        /\ \A i \in P : \E k \in 1 .. Cardinality(P) : Nth(P, k) = i
        /\ Kept(arts, P) \in Seq(Artifacts)
        /\ DOMAIN Kept(arts, P) = 1 .. Cardinality(P)
        /\ \A k \in 1 .. Cardinality(P) : Kept(arts, P)[k] = arts[Nth(P, k)]
    BY <1>6, Filtered
  <2>2. ASSUME P # {} PROVE Kept(arts, P) # <<>>
    <3>1. \E k \in 1 .. Cardinality(P) : TRUE
      BY <2>1, <2>2
    <3>2. DOMAIN Kept(arts, P) # {}
      BY <2>1, <3>1
    <3> QED BY <3>2, NoElement
  <2> QED BY <2>1, <2>2
<1>7. /\ m \in Nat
      /\ \A k \in 1 .. m : Nth(H, k) \in H
      /\ \A j, k \in 1 .. m : Nth(H, j) = Nth(H, k) => j = k
      /\ \A h \in H : \E k \in 1 .. m : Nth(H, k) = h
  <2>1. H \subseteq DOMAIN arts
    BY <1>1
  <2> QED BY <1>6, <2>1 DEF m
<1>8. /\ n \in Nat
      /\ \A k \in 1 .. n : Nth(N, k) \in N
      /\ \A j, k \in 1 .. n : Nth(N, j) = Nth(N, k) => j = k
      /\ \A i \in N : \E k \in 1 .. n : Nth(N, k) = i
  <2>1. N \subseteq DOMAIN arts
    BY <1>2
  <2> QED BY <1>6, <2>1 DEF n
<1>9. ASSUME NEW k \in 1 .. m
      PROVE  /\ S[k] \in ModelGroups /\ S[k].source = "path"
             /\ DOMAIN S[k].artifacts = 1 .. Cardinality(C(Nth(H, k)))
             /\ \A i \in DOMAIN S[k].artifacts : S[k].artifacts[i] = arts[Nth(C(Nth(H, k)), i)]
  <2> DEFINE P == C(Nth(H, k))
  <2>1. P \subseteq DOMAIN arts /\ P # {}
    BY <1>1, <1>7
  <2> HIDE DEF P
  <2>2. /\ Kept(arts, P) \in Seq(Artifacts) /\ Kept(arts, P) # <<>>
        /\ DOMAIN Kept(arts, P) = 1 .. Cardinality(P)
        /\ \A i \in 1 .. Cardinality(P) : Kept(arts, P)[i] = arts[Nth(P, i)]
    BY <1>6, <2>1
  <2>3. S[k] = ModelGroup("path", "sharded_safetensors", Kept(arts, P))
    BY <1>3 DEF P
  <2>4. /\ "path" \in AdapterNames /\ "sharded_safetensors" \in GroupKinds
        /\ "sharded_safetensors" # "hf_snapshot"
    BY DEF AdapterNames, GroupKinds
  <2>5. S[k] \in ModelGroups /\ S[k].source = "path" /\ S[k].artifacts = Kept(arts, P)
    BY <2>2, <2>3, <2>4, GroupBuilt
  <2>6. /\ DOMAIN S[k].artifacts = 1 .. Cardinality(P)
        /\ \A i \in DOMAIN S[k].artifacts : S[k].artifacts[i] = arts[Nth(P, i)]
    BY <2>2, <2>5
  <2> QED BY <2>5, <2>6 DEF P
<1>10. ASSUME NEW k \in 1 .. n
       PROVE  /\ T[k] \in ModelGroups /\ T[k].source = "path"
              /\ DOMAIN T[k].artifacts = {1} /\ T[k].artifacts[1] = arts[Nth(N, k)]
  <2> DEFINE a == arts[Nth(N, k)]
             one == <<a>>
  <2>1. a \in Artifacts
    <3>1. \A i \in 1 .. Len(arts) : arts[i] \in Artifacts
      BY ElementOfSeq
    <3>2. Nth(N, k) \in 1 .. Len(arts)
      BY <1>2, <1>8, LenProperties
    <3> QED BY <3>1, <3>2
  <2>2. T[k] = ModelGroup("path", "single_file", one)
    BY <1>4
  <2> HIDE DEF a
  <2>3. one \in Seq(Artifacts) /\ one # <<>> /\ DOMAIN one = {1} /\ one[1] = a
    BY <2>1, OneElement
  <2>4. /\ "path" \in AdapterNames /\ "single_file" \in GroupKinds
        /\ "single_file" # "hf_snapshot"
    BY DEF AdapterNames, GroupKinds
  <2> HIDE DEF one
  <2>5. T[k] \in ModelGroups /\ T[k].source = "path" /\ T[k].artifacts = one
    BY <2>2, <2>3, <2>4, GroupBuilt
  <2> QED BY <2>3, <2>5 DEF a
<1>11. /\ S \in Seq(ModelGroups) /\ Len(S) = m
       /\ T \in Seq(ModelGroups) /\ Len(T) = n
  <2>1. S \in [1 .. m -> ModelGroups] /\ T \in [1 .. n -> ModelGroups]
    BY <1>3, <1>4, <1>9, <1>10
  <2>2. S \in Seq(ModelGroups) /\ T \in Seq(ModelGroups)
    BY <1>7, <1>8, <2>1, SeqDef
  <2>3. /\ Len(S) \in Nat /\ 1 .. Len(S) = 1 .. m
        /\ Len(T) \in Nat /\ 1 .. Len(T) = 1 .. n
    BY <2>1, <2>2, LenProperties
  <2>4. Len(S) = m
    BY <1>7, <2>3
  <2>5. Len(T) = n
    BY <1>8, <2>3
  <2> QED BY <2>2, <2>4, <2>5
<1>12. /\ G \in Seq(ModelGroups) /\ DOMAIN G = 1 .. m + n
       /\ \A g \in 1 .. m + n : G[g] = IF g <= m THEN S[g] ELSE T[g - m]
  <2>1. /\ G \in Seq(ModelGroups) /\ Len(G) = m + n
        /\ \A g \in 1 .. m + n : G[g] = IF g <= m THEN S[g] ELSE T[g - m]
    <3>1. /\ S \o T \in Seq(ModelGroups) /\ Len(S \o T) = Len(S) + Len(T)
          /\ \A g \in 1 .. Len(S) + Len(T) :
               (S \o T)[g] = IF g <= Len(S) THEN S[g] ELSE T[g - Len(S)]
      BY ONLY <1>11, ConcatProperties
    <3> QED BY <1>5, <1>11, <3>1
  <2>2. DOMAIN G = 1 .. m + n
    BY <2>1, LenProperties
  <2> QED BY <2>1, <2>2
<1>13. \A g \in DOMAIN G :
         \/ g \in 1 .. m /\ G[g] = S[g]
         \/ ~(g <= m) /\ g - m \in 1 .. n /\ G[g] = T[g - m]
  <2>1. \A g \in 1 .. m + n : g \in 1 .. m \/ (~(g <= m) /\ g - m \in 1 .. n)
    BY <1>7, <1>8
  <2>2. \A g \in 1 .. m : g <= m
    BY <1>7
  <2> QED BY <1>12, <2>1, <2>2
<1>14. /\ \A g \in 1 .. m : g \in DOMAIN G /\ G[g] = S[g]
       /\ \A k \in 1 .. n : \E g \in DOMAIN G : ~(g <= m) /\ g - m = k /\ G[g] = T[k]
  <2>1. \A g \in 1 .. m : g \in 1 .. m + n /\ g <= m
    BY <1>7, <1>8
  <2>2. \A k \in 1 .. n : k + m \in 1 .. m + n /\ ~(k + m <= m) /\ (k + m) - m = k
    BY <1>7, <1>8
  <2> QED BY <1>12, <2>1, <2>2
\* The position an artifact of a group was found at.
<1>15. ASSUME NEW g \in DOMAIN G, NEW i \in DOMAIN G[g].artifacts
       PROVE  /\ Pos(g, i) \in DOMAIN arts
              /\ G[g].artifacts[i] = arts[Pos(g, i)]
              /\ \/ g \in 1 .. m /\ Pos(g, i) \in C(Nth(H, g))
                 \/ ~(g <= m) /\ Pos(g, i) \in N
  <2>1. CASE g \in 1 .. m /\ G[g] = S[g]
    <3>1. g <= m
      BY <1>7, <2>1
    <3>2. /\ i \in 1 .. Cardinality(C(Nth(H, g)))
          /\ G[g].artifacts[i] = arts[Nth(C(Nth(H, g)), i)]
      BY <1>9, <2>1
    <3>3. C(Nth(H, g)) \subseteq DOMAIN arts
      BY <1>1, <1>7, <2>1
    <3>4. Nth(C(Nth(H, g)), i) \in C(Nth(H, g))
      BY <1>6, <3>2, <3>3
    <3> QED BY <2>1, <3>1, <3>2, <3>3, <3>4
  <2>2. CASE ~(g <= m) /\ g - m \in 1 .. n /\ G[g] = T[g - m]
    <3>1. /\ i = 1 /\ G[g].artifacts[i] = arts[Nth(N, g - m)]
      BY <1>10, <2>2
    <3>2. Nth(N, g - m) \in N /\ N \subseteq DOMAIN arts
      BY <1>2, <1>8, <2>2
    <3> QED BY <2>2, <3>1, <3>2
  <2> QED BY <1>13, <2>1, <2>2
<1>16. \A g \in DOMAIN G : G[g].source = "path"
  BY <1>9, <1>10, <1>13
<1>17. \A g \in DOMAIN G : \A i \in DOMAIN G[g].artifacts :
         \E k \in DOMAIN arts : G[g].artifacts[i] = arts[k]
  BY <1>15
<1>18. ASSUME NEW k \in DOMAIN arts
       PROVE  \E g \in DOMAIN G : \E i \in DOMAIN G[g].artifacts : G[g].artifacts[i] = arts[k]
  <2>1. CASE k \in D
    <3>1. PICK h \in H : k \in C(h)
      BY <1>1, <2>1
    <3>2. PICK g \in 1 .. m : Nth(H, g) = h
      BY <1>7
    <3>3. C(h) \subseteq DOMAIN arts
      BY <1>1
    <3>4. PICK i \in 1 .. Cardinality(C(h)) : Nth(C(h), i) = k
      BY <1>6, <3>1, <3>3
    <3>5. i \in DOMAIN S[g].artifacts /\ S[g].artifacts[i] = arts[k]
      BY <1>9, <3>2, <3>4
    <3> QED BY <1>14, <3>5
  <2>2. CASE k \notin D
    <3>1. PICK j \in 1 .. n : Nth(N, j) = k
      BY <1>2, <1>8, <2>2
    <3>2. PICK g \in DOMAIN G : G[g] = T[j]
      BY <1>14
    <3>3. 1 \in DOMAIN G[g].artifacts /\ G[g].artifacts[1] = arts[k]
      BY <1>10, <3>1, <3>2
    <3> QED BY <3>3
  <2> QED BY <2>1, <2>2
<1>19. ASSUME NEW g \in DOMAIN G, NEW i \in DOMAIN G[g].artifacts,
              NEW h \in DOMAIN G, NEW j \in DOMAIN G[h].artifacts,
              Pos(g, i) = Pos(h, j)
       PROVE  g = h /\ i = j
  <2>1. /\ \/ g \in 1 .. m /\ Pos(g, i) \in C(Nth(H, g))
           \/ ~(g <= m) /\ Pos(g, i) \in N
        /\ \/ h \in 1 .. m /\ Pos(g, i) \in C(Nth(H, h))
           \/ ~(h <= m) /\ Pos(g, i) \in N
    BY <1>15, <1>19
  <2>2. CASE g \in 1 .. m /\ h \in 1 .. m
    <3> DEFINE q == Pos(g, i)
    <3>1. g <= m /\ h <= m
      BY <1>7, <2>2
    <3>2. q \in C(Nth(H, g)) /\ q \in C(Nth(H, h))
      <4> HIDE DEF Pos
      <4> QED BY <1>7, <2>1, <2>2, <3>1
    <3>3. Nth(H, g) \in H /\ Nth(H, h) \in H
      BY <1>7, <2>2
    <3> HIDE DEF q, Pos
    <3>4. SameShardSet(arts[q].entry, arts[q].entry)
      BY <1>1, <3>2, <3>3
    <3>5. Nth(H, g) = Nth(H, h)
      BY <1>1, <3>2, <3>3, <3>4
    <3>6. g = h
      BY <1>7, <2>2, <3>5
    <3>7. Nth(C(Nth(H, g)), i) = Nth(C(Nth(H, g)), j)
      BY <1>19, <3>1, <3>5 DEF Pos
    <3>8. /\ i \in 1 .. Cardinality(C(Nth(H, g)))
          /\ j \in 1 .. Cardinality(C(Nth(H, g)))
      BY <1>9, <1>14, <2>2, <3>6
    <3>9. C(Nth(H, g)) \subseteq DOMAIN arts
      BY <1>1, <3>3
    <3>10. i = j
      BY <1>6, <3>7, <3>8, <3>9
    <3> QED BY <3>6, <3>10
  <2>3. CASE ~(g <= m) /\ ~(h <= m)
    <3>1. /\ g - m \in 1 .. n /\ h - m \in 1 .. n
          /\ G[g] = T[g - m] /\ G[h] = T[h - m]
      BY <1>7, <1>13, <2>3
    <3>2. Nth(N, g - m) = Nth(N, h - m)
      BY <1>19, <2>3
    <3>3. g - m = h - m
      BY <1>8, <3>1, <3>2
    <3>4. g \in Int /\ h \in Int
      BY <1>7, <1>8, <1>12
    <3>5. g = h
      BY <1>7, <3>3, <3>4
    <3>6. i = 1 /\ j = 1
      BY <1>10, <3>1
    <3> QED BY <3>5, <3>6
  <2>4. \A k : k \in 1 .. m => k <= m
    BY <1>7
  <2>5. ASSUME g \in 1 .. m, ~(h <= m) PROVE FALSE
    <3> HIDE DEF Pos
    <3>1. Pos(g, i) \in C(Nth(H, g)) /\ Pos(g, i) \in N
      BY <2>1, <2>4, <2>5
    <3> QED BY <1>1, <1>2, <1>7, <2>5, <3>1
  <2>6. ASSUME h \in 1 .. m, ~(g <= m) PROVE FALSE
    <3> HIDE DEF Pos
    <3>1. Pos(g, i) \in C(Nth(H, h)) /\ Pos(g, i) \in N
      BY <2>1, <2>4, <2>6
    <3> QED BY <1>1, <1>2, <1>7, <2>6, <3>1
  <2> HIDE DEF Pos
  <2> QED BY <2>1, <2>2, <2>3, <2>5, <2>6
<1>20. ASSUME NEW g \in DOMAIN G, NEW i \in DOMAIN G[g].artifacts,
              NEW h \in DOMAIN G, NEW j \in DOMAIN G[h].artifacts,
              G[g].artifacts[i].entry # G[h].artifacts[j].entry
       PROVE  g = h <=> SameShardSet(G[g].artifacts[i].entry, G[h].artifacts[j].entry)
  <2> DEFINE p == Pos(g, i)
             q == Pos(h, j)
  <2>1. /\ p \in DOMAIN arts /\ G[g].artifacts[i] = arts[p]
        /\ \/ g \in 1 .. m /\ p \in C(Nth(H, g))
           \/ ~(g <= m) /\ p \in N
    BY <1>15
  <2>2. /\ q \in DOMAIN arts /\ G[h].artifacts[j] = arts[q]
        /\ \/ h \in 1 .. m /\ q \in C(Nth(H, h))
           \/ ~(h <= m) /\ q \in N
    BY <1>15
  <2> HIDE DEF p, q
  <2>3. p # q
    BY <1>20, <2>1, <2>2
  <2>4. ASSUME NEW k, ~(k <= m) PROVE k \notin 1 .. m
    BY <1>7, <2>4
  <2>5. CASE g \in 1 .. m /\ h \in 1 .. m
    <3>1. p \in C(Nth(H, g)) /\ q \in C(Nth(H, h))
      BY <2>1, <2>2, <2>4, <2>5
    <3>2. Nth(H, g) \in H /\ Nth(H, h) \in H /\ (Nth(H, g) = Nth(H, h) <=> g = h)
      BY <1>7, <2>5
    <3>3. Nth(H, g) = Nth(H, h) <=> SameShardSet(arts[p].entry, arts[q].entry)
      BY <1>1, <3>1, <3>2
    <3> QED BY <2>1, <2>2, <3>2, <3>3
  <2>6. CASE ~(g \in 1 .. m /\ h \in 1 .. m)
    <3>1. p \in N \/ q \in N
      BY <2>1, <2>2, <2>6
    <3>2. ~SameShardSet(arts[p].entry, arts[q].entry)
      BY <1>1, <1>2, <2>1, <2>2, <2>3, <3>1
    <3>3. ASSUME g = h PROVE FALSE
      <4>1. ~(g <= m) /\ g - m \in 1 .. n /\ G[g] = T[g - m]
        BY <1>13, <2>6, <3>3
      <4>2. i = 1 /\ j = 1
        BY <1>10, <3>3, <4>1
      <4> QED BY <1>20, <3>3, <4>2
    <3> QED BY <2>1, <2>2, <3>2, <3>3
  <2> QED BY <2>5, <2>6
<1>21. \A g, h \in DOMAIN G : \A i \in DOMAIN G[g].artifacts, j \in DOMAIN G[h].artifacts :
         G[g].artifacts[i].entry = G[h].artifacts[j].entry => g = h /\ i = j
  <2> SUFFICES ASSUME NEW g \in DOMAIN G, NEW i \in DOMAIN G[g].artifacts,
                      NEW h \in DOMAIN G, NEW j \in DOMAIN G[h].artifacts,
                      G[g].artifacts[i].entry = G[h].artifacts[j].entry
               PROVE  g = h /\ i = j
    OBVIOUS
  <2>1. /\ Pos(g, i) \in DOMAIN arts /\ G[g].artifacts[i] = arts[Pos(g, i)]
        /\ Pos(h, j) \in DOMAIN arts /\ G[h].artifacts[j] = arts[Pos(h, j)]
    BY <1>15
  <2> HIDE DEF Pos
  <2>2. Pos(g, i) = Pos(h, j)
    BY <2>1
  <2> QED BY <1>19, <2>2
<1> HIDE DEF Pos
<1> QED BY <1>12, <1>16, <1>17, <1>18, <1>20, <1>21 DEF AreGroupsOf

\* So whatever an adapter found in a directory is in one group each.
LEMMA DirectoryGrouped ==
  ASSUME NEW arts \in Seq(Artifacts), NEW lst, NEW adapter \in AdapterNames,
         \A k \in DOMAIN arts : arts[k].entry \in lst,
         \A j, k \in DOMAIN arts : arts[j].entry = arts[k].entry => j = k
  PROVE  AreGroupsOf(GroupsOf(adapter, lst, arts), adapter, arts)
<1>1. CASE adapter = "path"
  BY <1>1, PathGrouped DEF GroupsOf
<1>2. CASE adapter = "hf_cache"
  BY <1>2, SnapshotGrouped DEF GroupsOf
<1>3. CASE adapter = "ollama"
  BY <1>3, ManifestsGrouped DEF GroupsOf
<1> QED BY <1>1, <1>2, <1>3 DEF AdapterNames

-----------------------------------------------------------------------------
(***************************************************************************)
(* What a step does to the groups.                                         *)
(***************************************************************************)
LEMMA GroupLists ==
  ASSUME NEW gs \in Seq(ModelGroups)
  PROVE  /\ Len(gs) \in Nat /\ DOMAIN gs = 1 .. Len(gs)
         /\ \A g \in DOMAIN gs :
              /\ gs[g] \in ModelGroups
              /\ gs[g].artifacts \in Seq(Artifacts) /\ gs[g].artifacts # <<>>
              /\ gs[g].kind = "hf_snapshot" => Len(gs[g].artifacts) > 1
              /\ Len(gs[g].artifacts) \in Nat \ {0}
              /\ DOMAIN gs[g].artifacts = 1 .. Len(gs[g].artifacts)
              /\ \A i \in DOMAIN gs[g].artifacts : gs[g].artifacts[i] \in Artifacts
<1>1. Len(gs) \in Nat /\ DOMAIN gs = 1 .. Len(gs)
  BY LenProperties
<1>2. \A g \in 1 .. Len(gs) : gs[g] \in ModelGroups
  BY ElementOfSeq
<1>3. ASSUME NEW m \in ModelGroups
      PROVE  /\ m.artifacts \in Seq(Artifacts) /\ m.artifacts # <<>>
             /\ m.kind = "hf_snapshot" => Len(m.artifacts) > 1
             /\ Len(m.artifacts) \in Nat \ {0}
             /\ DOMAIN m.artifacts = 1 .. Len(m.artifacts)
             /\ \A i \in DOMAIN m.artifacts : m.artifacts[i] \in Artifacts
  <2>1. /\ m.artifacts \in Seq(Artifacts) /\ m.artifacts # <<>>
        /\ m.kind = "hf_snapshot" => Len(m.artifacts) > 1
    BY DEF ModelGroups
  <2>2. Len(m.artifacts) \in Nat \ {0}
    BY <2>1, EmptySeq
  <2>3. DOMAIN m.artifacts = 1 .. Len(m.artifacts)
    BY <2>1, LenProperties
  <2>4. \A i \in 1 .. Len(m.artifacts) : m.artifacts[i] \in Artifacts
    BY <2>1, ElementOfSeq
  <2> QED BY <2>1, <2>2, <2>3, <2>4
<1> QED BY <1>1, <1>2, <1>3

\* An artifact that is made for an entry has no digest yet.
LEMMA NewArtifact ==
  ASSUME NEW e \in Entries, NEW f \in Files, e \in Tags => f \in DOMAIN NamedDigest
  PROVE  /\ Artifact(e, f) \in Artifacts /\ Artifact(e, f).entry = e
         /\ Unhashed(Artifact(e, f))
<1>1. IsBlob(Artifact(e, f)) => e \in Tags
  BY DEF IsBlob, Artifact, Tags
<1> QED BY <1>1 DEF Artifact, Artifacts, Unhashed

\* The groups are the same but for the digests.
SameLayout ==
  /\ DOMAIN groups' = DOMAIN groups
  /\ \A g \in DOMAIN groups :
       /\ groups'[g].source = groups[g].source
       /\ DOMAIN groups'[g].artifacts = DOMAIN groups[g].artifacts
       /\ \A i \in DOMAIN groups[g].artifacts :
            groups'[g].artifacts[i].entry = groups[g].artifacts[i].entry

AtInGroups == at[1] \in DOMAIN groups /\ at[2] \in DOMAIN groups[at[1]].artifacts

\* Settling the current artifact changes no other, and moves on to one there is.
LEMMA Settled ==
  ASSUME Types, AtInGroups, NEW d \in Contents \cup {NoDigest}, Settle(d)
  PROVE  /\ groups' \in Seq(ModelGroups) /\ SameLayout
         /\ \A g \in DOMAIN groups : \A i \in DOMAIN groups[g].artifacts :
              ~(g = at[1] /\ i = at[2]) => groups'[g].artifacts[i] = groups[g].artifacts[i]
         /\ LET a == groups'[at[1]].artifacts[at[2]]
            IN  a.digest = d /\ a.file = Current.file /\ a.entry = Current.entry
         /\ pc' \in {"hash", "done"}
         /\ pc' = "hash" => /\ at' = <<at'[1], at'[2]>> /\ at'[1] \in DOMAIN groups'
                            /\ at'[2] \in DOMAIN groups'[at'[1]].artifacts
<1> DEFINE g == at[1]
           i == at[2]
           s == groups[g].artifacts
           a == s[i]
           b == [a EXCEPT !.digest = d]
           t == [s EXCEPT ![i] = b]
           m == [groups[g] EXCEPT !.artifacts = t]
           more == i < Len(s)
<1>1. /\ groups' = [groups EXCEPT ![g].artifacts[i].digest = d]
      /\ at' = IF more THEN <<g, i + 1>> ELSE <<g + 1, 1>>
      /\ pc' = IF more \/ g < Len(groups) THEN "hash" ELSE "done"
  BY DEF Settle
<1>2. groups \in Seq(ModelGroups)
  BY DEF Types
<1>3. /\ Len(groups) \in Nat /\ DOMAIN groups = 1 .. Len(groups) /\ g \in 1 .. Len(groups)
      /\ groups[g] \in ModelGroups
      /\ s \in Seq(Artifacts) /\ s # <<>> /\ DOMAIN s = 1 .. Len(s)
      /\ groups[g].kind = "hf_snapshot" => Len(s) > 1
      /\ Len(s) \in Nat \ {0} /\ i \in 1 .. Len(s) /\ a \in Artifacts
  <2> HIDE DEF g, i
  <2> QED BY <1>2, GroupLists DEF AtInGroups, g, i
<1>4. /\ b \in Artifacts /\ b.digest = d
      /\ b.file = a.file /\ b.entry = a.entry
  <2>1. a \in [entry : Entries, file : Files, digest : Contents \cup {NoDigest}]
    BY <1>3 DEF Artifacts
  <2>2. IsBlob(a) => a.file \in DOMAIN NamedDigest
    BY <1>3 DEF Artifacts
  <2> HIDE DEF a
  <2>3. /\ b \in [entry : Entries, file : Files, digest : Contents \cup {NoDigest}]
        /\ b.digest = d /\ b.file = a.file /\ b.entry = a.entry
    BY <2>1
  <2>4. IsBlob(b) => IsBlob(a)
    BY <2>3 DEF IsBlob
  <2> HIDE DEF b
  <2> QED BY <2>2, <2>3, <2>4 DEF Artifacts
<1>5. groups' = [groups EXCEPT ![g] = m]
  BY <1>1
<1>6. /\ t \in Seq(Artifacts) /\ Len(t) = Len(s) /\ DOMAIN t = DOMAIN s
      /\ \A j \in DOMAIN s : t[j] = IF j = i THEN b ELSE s[j]
  <2> HIDE DEF s, b, i
  <2>1. /\ t \in Seq(Artifacts) /\ Len(t) = Len(s)
        /\ \A j \in 1 .. Len(s) : t[j] = IF j = i THEN b ELSE s[j]
    BY <1>3, <1>4, ExceptSeq
  <2>2. DOMAIN t = 1 .. Len(t)
    BY <2>1, LenProperties
  <2> QED BY <1>3, <2>1, <2>2
<1>7. /\ m \in ModelGroups /\ m.source = groups[g].source /\ m.artifacts = t
  <2> HIDE DEF t, s
  <2>1. t # <<>>
    BY <1>3, <1>6, NoElement
  <2>2. /\ groups[g] \in [source : AdapterNames, kind : GroupKinds, artifacts : Seq(Artifacts)]
    BY <1>3 DEF ModelGroups
  <2>3. /\ m \in [source : AdapterNames, kind : GroupKinds, artifacts : Seq(Artifacts)]
        /\ m.source = groups[g].source /\ m.kind = groups[g].kind /\ m.artifacts = t
    BY <1>6, <2>2
  <2> HIDE DEF m
  <2>4. m.kind = "hf_snapshot" => Len(m.artifacts) > 1
    BY <1>3, <1>6, <2>3
  <2> QED BY <2>1, <2>3, <2>4 DEF ModelGroups
<1> HIDE DEF m
<1>8. /\ groups' \in Seq(ModelGroups) /\ DOMAIN groups' = DOMAIN groups
      /\ \A h \in DOMAIN groups : groups'[h] = IF h = g THEN m ELSE groups[h]
  <2> HIDE DEF g
  <2>1. /\ groups' \in Seq(ModelGroups) /\ Len(groups') = Len(groups)
        /\ \A h \in 1 .. Len(groups) : groups'[h] = IF h = g THEN m ELSE groups[h]
    BY <1>2, <1>3, <1>5, <1>7, ExceptSeq
  <2>2. DOMAIN groups' = 1 .. Len(groups')
    BY <2>1, LenProperties
  <2> QED BY <1>3, <2>1, <2>2
<1> HIDE DEF t, b
<1>9. SameLayout
  BY <1>4, <1>6, <1>7, <1>8 DEF SameLayout
<1>10. \A h \in DOMAIN groups : \A j \in DOMAIN groups[h].artifacts :
         ~(h = g /\ j = i) => groups'[h].artifacts[j] = groups[h].artifacts[j]
  BY <1>6, <1>7, <1>8
<1>11. groups'[g].artifacts[i] = b
  BY <1>3, <1>6, <1>7, <1>8
<1>12. ASSUME pc' = "hash"
       PROVE  /\ at' = <<at'[1], at'[2]>> /\ at'[1] \in DOMAIN groups
              /\ at'[2] \in DOMAIN groups[at'[1]].artifacts
  <2> HIDE DEF g, i, s
  <2>1. more \/ g < Len(groups)
    BY <1>1, <1>12
  <2>2. CASE more
    <3>1. at' = <<g, i + 1>> /\ i + 1 \in 1 .. Len(s)
      BY <1>1, <1>3, <2>2
    <3> QED BY <1>3, <3>1 DEF s
  <2>3. CASE ~more
    <3>1. at' = <<g + 1, 1>> /\ g + 1 \in 1 .. Len(groups)
      BY <1>1, <1>3, <2>1, <2>3
    <3>2. 1 \in DOMAIN groups[g + 1].artifacts
      <4>1. /\ Len(groups[g + 1].artifacts) \in Nat \ {0}
            /\ DOMAIN groups[g + 1].artifacts = 1 .. Len(groups[g + 1].artifacts)
        BY <1>2, <1>3, <3>1, GroupLists
      <4> QED BY <4>1
    <3> QED BY <1>3, <3>1, <3>2
  <2> QED BY <2>2, <2>3
<1>13. pc' \in {"hash", "done"}
  BY <1>1
<1>14. pc' = "hash" => /\ at' = <<at'[1], at'[2]>> /\ at'[1] \in DOMAIN groups'
                       /\ at'[2] \in DOMAIN groups'[at'[1]].artifacts
  BY <1>9, <1>12 DEF SameLayout
<1>15. Current = a
  BY DEF Current
<1> HIDE DEF a, s
<1> QED BY <1>4, <1>8, <1>9, <1>10, <1>11, <1>13, <1>14, <1>15

-----------------------------------------------------------------------------
(***************************************************************************)
(* What a step keeps that leaves things alone.                             *)
(***************************************************************************)
LEMMA FewerAsAtStart ==
  ASSUME touched \subseteq touched', walk' = walk
  PROVE  /\ \A e : AsAtStart(e)' => AsAtStart(e)
         /\ \A j, e : Takes(j, e)' <=> Takes(j, e)
BY DEF AsAtStart, Takes

\* New digests and more changes leave the grouping as it is.
LEMMA GroupsKept ==
  ASSUME GroupsFromWalk, GroupsOnce, GroupsAll, GroupsTogether,
         SameLayout, touched \subseteq touched', UNCHANGED <<walk, visit>>
  PROVE  GroupsFromWalk' /\ GroupsOnce' /\ GroupsAll' /\ GroupsTogether'
<1>1. /\ DOMAIN groups' = DOMAIN groups
      /\ \A g \in DOMAIN groups :
           /\ groups'[g].source = groups[g].source
           /\ DOMAIN groups'[g].artifacts = DOMAIN groups[g].artifacts
           /\ \A i \in DOMAIN groups[g].artifacts : EntryAt(g, i)' = EntryAt(g, i)
  BY DEF SameLayout, EntryAt
<1>2. GroupsFromWalk'
  BY <1>1 DEF GroupsFromWalk
<1>3. GroupsOnce'
  BY <1>1 DEF GroupsOnce
<1>4. GroupsAll'
  <2>1. \A e : IsGrouped(e) => IsGrouped(e)'
    BY <1>1 DEF IsGrouped
  <2> QED BY <2>1, FewerAsAtStart DEF GroupsAll
<1>5. GroupsTogether'
  BY <1>1 DEF GroupsTogether
<1> QED BY <1>2, <1>3, <1>4, <1>5

\* Groups that stay have the layout they had.
LEMMA SameGroups == UNCHANGED groups => SameLayout
BY DEF SameLayout

\* A change outside leaves what is said of the listing.
LEMMA ListingKept ==
  ASSUME ListingInv, touched \subseteq touched',
         UNCHANGED <<pc, walk, visit, listing, pending, found>>
  PROVE  ListingInv'
<1>1. Here' = Here
  BY DEF Here
<1>2. \A e : (IsPending(e)' <=> IsPending(e)) /\ (IsFound(e)' <=> IsFound(e))
  BY DEF IsPending, IsFound
<1>3. SUFFICES ASSUME pc \in Listing
               PROVE  ListingInv'
  BY DEF ListingInv
<1>4. \A e \in Entries : Takes(visit, e)' /\ AsAtStart(e)' => IsPending(e)' \/ IsFound(e)'
  BY <1>2, <1>3, FewerAsAtStart DEF ListingInv
<1> QED BY <1>1, <1>2, <1>3, <1>4 DEF ListingInv

\* A change outside leaves what is said of the walk.
LEMMA WalkKept ==
  ASSUME WalkInv, touched \subseteq touched',
         UNCHANGED <<pc, walk, visit, listing, pending, found, blob>>
  PROVE  WalkInv'
BY DEF WalkInv, Here

\* What the scan does leaves the tree as it is.
LEMMA StartKept ==
  ASSUME StartInv, UNCHANGED outside
  PROVE  StartInv'
BY DEF StartInv, outside

\* What is said of digests stays as long as they do.
LEMMA DigestsKept ==
  ASSUME DigestInv, UNCHANGED <<pc, trust, groups, at, found>>
  PROVE  DigestInv'
BY DEF DigestInv

\* Of a closed file nothing has to be said.
LEMMA HandleClosed ==
  ASSUME handle' = Closed
  PROVE  HandleInv' /\ ReadingInv' /\ handle' \in Handles
<1>1. handle'.file = NoFile
  BY DEF Closed
<1>2. Closed \in Handles
  BY ContentsAre DEF Closed, Handles
<1> QED BY <1>1, <1>2 DEF HandleInv, ReadingInv

\* Nothing is open during discovery.
LEMMA ClosedBefore ==
  ASSUME HandleInv, pc # "hash"
  PROVE  handle = Closed
BY DEF HandleInv

\* The invariant holds before the first directory.
LEMMA Initially ==
  ASSUME Init
  PROVE  IInv
<1>1. Types
  <2>1. walk \in Seq([adapter : AdapterNames, dir : Directories])
    BY FileScanConstants DEF Init, AdapterNames
  <2>2. visit \in 1 .. Len(walk) + 1
    BY <2>1, LenProperties DEF Init
  <2>3. pending \in Seq(listing) /\ found \in Seq(Artifacts) /\ groups \in Seq(ModelGroups)
    BY EmptySeq DEF Init
  <2>4. handle \in Handles
    BY ContentsAre DEF Init, Closed, Handles
  <2>5. manifest \in [Tags -> DOMAIN NamedDigest \cup {Missing, Garbled}]
    BY EntryFacts DEF Init
  <2>6. changes \in 0 .. MaxChanges
    BY FileScanConstants DEF Init
  <2>7. disk \in [Files -> Contents \cup {Missing}]
    BY FileScanConstants DEF Init
  <2> QED BY <2>2, <2>3, <2>4, <2>5, <2>6, <2>7 DEF Init, Types, Discovering
<1>2. WalkInv
  BY DEF Init, WalkInv
<1>3. StartInv
  BY DEF Init, StartInv
<1>4. ListingInv
  BY DEF Init, ListingInv, Listing
<1>5. DOMAIN groups = {} /\ DOMAIN found = {}
  BY NoElement DEF Init
<1>6. GroupsFromWalk /\ GroupsOnce /\ GroupsTogether
  BY <1>5 DEF GroupsFromWalk, GroupsOnce, GroupsTogether
<1>7. GroupsAll
  <2>1. 1 .. visit - 1 = {}
    BY DEF Init
  <2> QED BY <2>1 DEF GroupsAll
<1>8. DigestInv
  BY <1>5 DEF Init, DigestInv
<1>9. HandleInv /\ ReadingInv
  <2>1. handle = Closed /\ handle.file = NoFile
    BY DEF Init, Closed
  <2> QED BY <2>1 DEF HandleInv, ReadingInv
<1> QED BY <1>1, <1>2, <1>3, <1>4, <1>6, <1>7, <1>8, <1>9 DEF IInv

-----------------------------------------------------------------------------
(***************************************************************************)
(* Discovery.                                                              *)
(***************************************************************************)
LEMMA ListingTaken ==
  ASSUME IInv, visit \in DOMAIN walk, Descends(Here), pc \in {"visit", "list"},
         TakeListing(Here.dir), UNCHANGED <<walk, visit, found, touched>>
  PROVE  /\ listing' \subseteq Entries /\ pending' \in Seq(listing')
         /\ WalkInv' /\ ListingInv'
<1>1. /\ pending' = ListDir(Here.dir)
      /\ listing' = {pending'[i] : i \in DOMAIN pending'}
      /\ pc' = "stat"
  BY DEF TakeListing
<1>2. /\ listing' \subseteq Entries /\ pending' \in Seq(listing')
      /\ \A e \in listing' : Entry[e].dir = Here.dir
      /\ \A j, k \in DOMAIN pending' : pending'[j] = pending'[k] => j = k
      /\ \A e \in Entries :
           Entry[e].dir = Here.dir /\ Listed(e) => \E k \in DOMAIN pending' : pending'[k] = e
  BY <1>1, DirectoryListed
<1>3. found' = <<>> /\ DOMAIN found' = {}
  BY NoElement DEF IInv, WalkInv
<1>4. Here' = Here
  BY DEF Here
<1>5. WalkInv'
  BY <1>1, <1>4 DEF WalkInv
<1>6. \A e \in Entries : Takes(visit, e)' /\ AsAtStart(e)' => IsPending(e)'
  <2> SUFFICES ASSUME NEW e \in Entries, Takes(visit, e)', AsAtStart(e)'
               PROVE  IsPending(e)'
    OBVIOUS
  <2>1. Takes(visit, e) /\ AsAtStart(e)
    BY FewerAsAtStart
  <2>2. Listed(e)
    BY <2>1, AsAtStartIsListed DEF IInv
  <2>3. Entry[e].dir = Here.dir
    BY <2>1 DEF Takes, Here
  <2> QED BY <1>2, <2>2, <2>3 DEF IsPending
<1>7. ListingInv'
  BY <1>1, <1>2, <1>3, <1>4, <1>6 DEF ListingInv
<1> QED BY <1>2, <1>5, <1>7

\* A directory that is entered lists each of its entries once.
LEMMA VisitDirStep ==
  ASSUME IInv, VisitDir
  PROVE  IInv'
<1>1. /\ pc = "visit" /\ visit <= Len(walk) /\ handle = Closed
      /\ UNCHANGED <<trust, walk, blob, found, groups, at, handle, outside>>
      /\ listing = {} /\ pending = <<>> /\ found = <<>>
  BY ClosedBefore DEF VisitDir, IInv, WalkInv
<1>2. /\ DOMAIN walk = 1 .. Len(walk) /\ visit \in DOMAIN walk
      /\ visit \in Nat \ {0} /\ visit - 1 \in Nat /\ Len(walk) \in Nat
  <2>1. /\ DOMAIN walk = 1 .. Len(walk) /\ visit \in Nat \ {0}
        /\ visit - 1 \in Nat /\ Len(walk) \in Nat
    BY WalkFacts DEF IInv
  <2> QED BY <1>1, <2>1
<1>3. StartInv' /\ HandleInv' /\ ReadingInv' /\ handle' \in Handles
  BY <1>1, StartKept, HandleClosed DEF IInv
<1>4. SameLayout /\ touched' = touched
  BY <1>1, SameGroups DEF outside
<1>5. ASSUME pc' \in Discovering \cup {"raised"} PROVE DigestInv'
  BY <1>1, <1>5 DEF IInv, DigestInv, Discovering
<1>6. ASSUME visit' = visit
      PROVE  GroupsFromWalk' /\ GroupsOnce' /\ GroupsAll' /\ GroupsTogether'
  BY <1>1, <1>4, <1>6, GroupsKept DEF IInv
<1>7. ASSUME pc' \in Discovering, visit' \in 1 .. Len(walk) + 1,
             listing' \subseteq Entries, pending' \in Seq(listing')
      PROVE  Types'
  BY <1>1, <1>3, <1>7 DEF IInv, Types, outside
<1>8. CASE /\ ~Descends(Here) \/ (Here.adapter = "hf_cache" /\ Here.dir \notin dirs)
           /\ SkipDir
  <2>1. visit' = visit + 1 /\ UNCHANGED <<pc, listing, pending>>
    BY <1>8 DEF SkipDir
  <2>2. visit' \in 1 .. Len(walk) + 1
    BY <1>2, <2>1
  <2>3. Types'
    BY <1>1, <1>7, <2>1, <2>2 DEF Discovering, IInv, Types
  <2>4. WalkInv' /\ ListingInv'
    BY <1>1, <2>1 DEF WalkInv, ListingInv, Listing
  <2>5. \A j : j \in 1 .. visit' - 1 <=> j \in 1 .. visit - 1 \/ j = visit
    BY <1>2, <2>1
  <2>6. /\ DOMAIN groups' = DOMAIN groups
        /\ \A g, i : EntryAt(g, i)' = EntryAt(g, i)
        /\ \A e : IsGrouped(e)' <=> IsGrouped(e)
    BY <1>1 DEF EntryAt, IsGrouped
  <2>7. GroupsFromWalk'
    BY <1>1, <2>5, <2>6 DEF IInv, GroupsFromWalk
  <2>8. GroupsOnce' /\ GroupsTogether'
    BY <1>1, <2>6 DEF IInv, GroupsOnce, GroupsTogether
  <2>9. GroupsAll'
    <3> SUFFICES ASSUME NEW j \in 1 .. visit' - 1, NEW e \in Entries,
                        Takes(j, e)', AsAtStart(e)'
                 PROVE  IsGrouped(e)'
      BY DEF GroupsAll
    <3>1. Takes(j, e) /\ AsAtStart(e)
      BY <1>1, <1>4, FewerAsAtStart
    <3>2. j # visit
      <4> SUFFICES ASSUME j = visit PROVE FALSE
        OBVIOUS
      <4>1. Here.dir = Entry[e].dir /\ Descends(Here)
        BY <3>1 DEF Takes, Here
      <4>2. Here.adapter = "hf_cache" /\ Here.dir \notin dirs
        BY <1>8, <4>1
      <4>3. Here.dir \in Snapshots
        BY <1>2, <4>2, WalkFacts DEF IInv, Here
      <4> QED BY <3>1, <4>1, <4>2, <4>3, AsAtStartIsListed DEF IInv
    <3> QED BY <2>5, <2>6, <3>1, <3>2 DEF IInv, GroupsAll
  <2>10. DigestInv'
    BY <1>1, <1>5, <2>1 DEF Discovering
  <2> QED BY <1>3, <2>3, <2>4, <2>7, <2>8, <2>9, <2>10 DEF IInv
<1>9. CASE /\ Descends(Here) /\ Here.adapter # "hf_cache"
           /\ TakeListing(Here.dir) /\ UNCHANGED visit
  <2>1. pc' = "stat"
    BY <1>9 DEF TakeListing
  <2>2. /\ listing' \subseteq Entries /\ pending' \in Seq(listing')
        /\ WalkInv' /\ ListingInv'
    BY <1>1, <1>2, <1>4, <1>9, ListingTaken
  <2>3. Types'
    BY <1>7, <1>9, <2>1, <2>2 DEF IInv, Types, Discovering
  <2> QED BY <1>3, <1>5, <1>6, <1>9, <2>1, <2>2, <2>3 DEF IInv, Discovering
<1>10. CASE /\ Here.adapter = "hf_cache" /\ Here.dir \in dirs
            /\ pc' = "list" /\ UNCHANGED <<visit, listing, pending>>
  <2>1. Types'
    BY <1>1, <1>7, <1>10 DEF IInv, Types, Discovering
  <2>2. Descends(Here) /\ Here' = Here
    BY <1>1, <1>10 DEF Descends, Here
  <2>3. WalkInv' /\ ListingInv'
    BY <1>1, <1>2, <1>10, <2>2 DEF WalkInv, ListingInv, Listing, Descends
  <2> QED BY <1>3, <1>5, <1>6, <1>10, <2>1, <2>3 DEF IInv, Discovering
<1> QED BY <1>8, <1>9, <1>10 DEF VisitDir

\* A snapshot that is listed gives each of its entries once.
LEMMA ListSnapshotStep ==
  ASSUME IInv, ListSnapshot
  PROVE  IInv'
<1>1. /\ pc = "list" /\ handle = Closed
      /\ UNCHANGED <<trust, walk, visit, blob, found, groups, at, handle, outside>>
      /\ visit \in DOMAIN walk /\ Descends(Here)
  BY ClosedBefore DEF ListSnapshot, IInv, WalkInv
<1>2. StartInv' /\ HandleInv' /\ ReadingInv' /\ handle' \in Handles
  BY <1>1, StartKept, HandleClosed DEF IInv
<1>3. touched' = touched
  BY <1>1 DEF outside
<1>4. GroupsFromWalk' /\ GroupsOnce' /\ GroupsAll' /\ GroupsTogether'
  BY <1>1, <1>3, SameGroups, GroupsKept DEF IInv
<1>5. CASE Here.dir \in dirs /\ TakeListing(Here.dir)
  <2>1. pc' = "stat"
    BY <1>5 DEF TakeListing
  <2>2. /\ listing' \subseteq Entries /\ pending' \in Seq(listing')
        /\ WalkInv' /\ ListingInv'
    BY <1>1, <1>3, <1>5, ListingTaken
  <2>3. Types'
    BY <1>1, <1>2, <2>1, <2>2 DEF IInv, Types, outside, Discovering
  <2>4. DigestInv'
    BY <1>1, <2>1 DEF IInv, DigestInv, Discovering
  <2> QED BY <1>2, <1>4, <2>2, <2>3, <2>4 DEF IInv
<1>6. CASE pc' = "raised" /\ UNCHANGED <<listing, pending>>
  <2>1. Types'
    BY <1>1, <1>2, <1>6 DEF IInv, Types, outside
  <2>2. WalkInv' /\ ListingInv'
    BY <1>6 DEF WalkInv, ListingInv, Listing
  <2>3. DigestInv'
    BY <1>1, <1>6 DEF IInv, DigestInv, Discovering
  <2> QED BY <1>2, <1>4, <2>1, <2>2, <2>3 DEF IInv
<1> QED BY <1>5, <1>6 DEF ListSnapshot

\* An entry is done with, whichever of its two ends it came to.
LEMMA EntryEnded ==
  ASSUME IInv, pc \in Listing, pending # <<>>, NEW more, NEW a \in Artifacts,
         more = <<>> \/ more = <<a>>, a.entry = Head(pending), Unhashed(a),
         Takes(visit, Head(pending)) /\ AsAtStart(Head(pending)) => more = <<a>>,
         EndEntry(more), pc' = "stat", blob' \in DOMAIN NamedDigest \cup {Missing},
         UNCHANGED <<trust, walk, visit, listing, groups, at, handle, outside>>
  PROVE  IInv'
<1> SUFFICES ASSUME NEW e, e = Head(pending)
             PROVE  IInv'
  OBVIOUS
<1> DEFINE Pending2(x) == \E k \in DOMAIN pending' : pending'[k] = x
           Found2(x) == \E k \in DOMAIN found' : found'[k].entry = x
<1>1. found' = found \o more /\ pending' = Tail(pending)
  BY DEF EndEntry
<1>2. /\ pending \in Seq(listing) /\ found \in Seq(Artifacts) /\ listing \subseteq Entries
      /\ pc \in Discovering /\ handle = Closed /\ visit \in DOMAIN walk /\ Descends(Here)
  BY ClosedBefore DEF IInv, Types, WalkInv, Listing, Discovering
<1>3. /\ pending' \in Seq(listing) /\ e \in listing
      /\ 1 \in DOMAIN pending /\ pending[1] = e
      /\ \A k \in DOMAIN pending' : k + 1 \in DOMAIN pending /\ pending'[k] = pending[k + 1]
      /\ \A k \in DOMAIN pending : k = 1 \/ \E j \in DOMAIN pending' : k = j + 1
  BY <1>1, <1>2, Shortened
<1>4. /\ found' \in Seq(Artifacts)
      /\ DOMAIN found \subseteq DOMAIN found'
      /\ \A k \in DOMAIN found : found'[k] = found[k]
      /\ more = <<a>> => \E k \in DOMAIN found' : found'[k] = a
      /\ \A k \in DOMAIN found' : k \in DOMAIN found \/ (more = <<a>> /\ found'[k] = a)
      /\ \A j, k \in DOMAIN found' : j \notin DOMAIN found /\ k \notin DOMAIN found => j = k
  <2> DEFINE t == found \o more
  <2>1. found \in Seq(Artifacts)
    BY <1>2
  <2>2. /\ t \in Seq(Artifacts)
        /\ DOMAIN found \subseteq DOMAIN t
        /\ \A k \in DOMAIN found : t[k] = found[k]
        /\ more = <<a>> => \E k \in DOMAIN t : t[k] = a
        /\ \A k \in DOMAIN t : k \in DOMAIN found \/ (more = <<a>> /\ t[k] = a)
        /\ \A j, k \in DOMAIN t : j \notin DOMAIN found /\ k \notin DOMAIN found => j = k
    BY <2>1, Extended
  <2> HIDE DEF t
  <2>3. found' = t
    BY <1>1 DEF t
  <2> QED BY <2>2, <2>3
<1>5. /\ \A x \in listing : Entry[x].dir = Here.dir
      /\ \A j, k \in DOMAIN pending : pending[j] = pending[k] => j = k
      /\ \A k \in DOMAIN found : found[k].entry \in listing /\ ~IsPending(found[k].entry)
      /\ \A j, k \in DOMAIN found : found[j].entry = found[k].entry => j = k
      /\ \A x \in Entries : Takes(visit, x) /\ AsAtStart(x) => IsPending(x) \/ IsFound(x)
  BY DEF IInv, ListingInv
<1>6. pending' \in Seq(listing') /\ DOMAIN pending' \subseteq Nat
  <2>1. DOMAIN pending' = 1 .. Len(pending')
    BY <1>3, LenProperties
  <2> QED BY <1>3, <2>1
<1>7. IsPending(e)
  BY <1>3 DEF IsPending
<1>8. \A k \in DOMAIN pending' : pending'[k] # e
  <2> SUFFICES ASSUME NEW k \in DOMAIN pending', pending[k + 1] = pending[1]
               PROVE  FALSE
    BY <1>3
  <2>1. k + 1 = 1
    BY <1>3, <1>5
  <2>2. k \in Nat /\ k # 0
    <3>1. DOMAIN pending' = 1 .. Len(pending')
      BY <1>3, LenProperties
    <3> QED BY <3>1
  <2> QED BY <2>1, <2>2
<1>9. \A x : Pending2(x) <=> IsPending(x) /\ x # e
  <2> SUFFICES ASSUME NEW x PROVE Pending2(x) <=> IsPending(x) /\ x # e
    OBVIOUS
  <2>1. ASSUME Pending2(x) PROVE IsPending(x) /\ x # e
    BY <1>3, <1>8, <2>1 DEF IsPending
  <2>2. ASSUME IsPending(x), x # e PROVE Pending2(x)
    <3>1. PICK k \in DOMAIN pending : pending[k] = x
      BY <2>2 DEF IsPending
    <3>2. PICK j \in DOMAIN pending' : k = j + 1
      BY <1>3, <2>2, <3>1
    <3>3. pending'[j] = x
      BY <1>3, <3>1, <3>2
    <3> QED BY <3>3 DEF IsPending
  <2> QED BY <2>1, <2>2
<1>10. \A x : IsFound(x) => Found2(x)
  BY <1>4 DEF IsFound
<1>11. more = <<a>> => Found2(e)
  BY <1>4 DEF IsFound
<1>12. \A j, k \in DOMAIN pending' : pending'[j] = pending'[k] => j = k
  <2> SUFFICES ASSUME NEW j \in DOMAIN pending', NEW k \in DOMAIN pending',
                      pending'[j] = pending'[k]
               PROVE  j = k
    OBVIOUS
  <2>1. j + 1 = k + 1
    BY <1>3, <1>5
  <2>2. j \in Nat /\ k \in Nat
    BY <1>6
  <2> QED BY <2>1, <2>2
<1>13. \A k \in DOMAIN found' : found'[k].entry \in listing /\ ~Pending2(found'[k].entry)
  <2> SUFFICES ASSUME NEW k \in DOMAIN found'
               PROVE  found'[k].entry \in listing /\ ~Pending2(found'[k].entry)
    OBVIOUS
  <2>1. CASE k \in DOMAIN found
    <3>1. found'[k] = found[k]
      BY <1>4, <2>1
    <3>2. ~Pending2(found[k].entry)
      BY <1>5, <1>9, <2>1
    <3> QED BY <1>5, <2>1, <3>1, <3>2
  <2>2. CASE k \notin DOMAIN found
    <3>1. found'[k].entry = e
      BY <1>4, <2>2
    <3>2. ~Pending2(e)
      BY <1>9
    <3> QED BY <1>3, <3>1, <3>2
  <2> QED BY <2>1, <2>2
<1>14. \A j, k \in DOMAIN found' : found'[j].entry = found'[k].entry => j = k
  <2>1. \A k \in DOMAIN found : found[k].entry # e
    BY <1>5, <1>7
  <2> QED BY <1>4, <1>5, <2>1
<1>15. touched' = touched /\ Here' = Here
  BY DEF outside, Here
<1>16. \A x \in Entries : Takes(visit, x)' /\ AsAtStart(x)' => Pending2(x) \/ Found2(x)
  <2> SUFFICES ASSUME NEW x \in Entries, Takes(visit, x)', AsAtStart(x)'
               PROVE  Pending2(x) \/ Found2(x)
    OBVIOUS
  <2>1. Takes(visit, x) /\ AsAtStart(x)
    BY <1>15, FewerAsAtStart
  <2>2. x = e => Found2(x)
    BY <1>11, <2>1
  <2> QED BY <1>5, <1>9, <1>10, <2>1, <2>2
<1>17. ListingInv'
  <2>1. \A x \in listing' : Entry[x].dir = Here'.dir
    BY <1>5, <1>15
  <2>2. \A k \in DOMAIN found' : found'[k].entry \in listing' /\ ~IsPending(found[k].entry)'
    BY <1>13 DEF IsPending
  <2>3. \A x \in Entries : Takes(visit, x)' /\ AsAtStart(x)' => IsPending(x)' \/ IsFound(x)'
    BY <1>16 DEF IsPending, IsFound
  <2> QED BY <1>12, <1>14, <2>1, <2>2, <2>3 DEF ListingInv
<1>18. handle' \in Handles /\ HandleInv' /\ ReadingInv' /\ StartInv'
  BY <1>2, HandleClosed, StartKept DEF IInv
<1>19. Types'
  BY <1>4, <1>6, <1>18 DEF IInv, Types, outside, Discovering
<1>20. WalkInv'
  BY <1>2, <1>15 DEF WalkInv
<1>21. GroupsFromWalk' /\ GroupsOnce' /\ GroupsAll' /\ GroupsTogether'
  BY <1>15, SameGroups, GroupsKept DEF IInv
<1>22. DigestInv'
  <2>1. \A k \in DOMAIN found' : Unhashed(found'[k])
    BY <1>2, <1>4 DEF IInv, DigestInv
  <2>2. \A k \in DOMAIN found' : Unhashed(found[k])'
    BY <2>1 DEF Unhashed
  <2> QED BY <1>2, <2>2 DEF IInv, DigestInv, Discovering, Unhashed
<1> QED BY <1>17, <1>18, <1>19, <1>20, <1>21, <1>22 DEF IInv

\* The entry that is looked at next is one, and makes an artifact.
LEMMA PendingEntry ==
  ASSUME IInv, pc \in Listing, pending # <<>>
  PROVE  /\ Head(pending) \in Entries
         /\ \A f \in Files : (Head(pending) \in Tags => f \in DOMAIN NamedDigest)
            => /\ Artifact(Head(pending), f) \in Artifacts
               /\ Artifact(Head(pending), f).entry = Head(pending)
               /\ Unhashed(Artifact(Head(pending), f))
<1>1. pending \in Seq(listing) /\ listing \subseteq Entries
  BY DEF IInv, Types
<1>2. Head(pending) \in Entries
  BY <1>1, HeadTailProperties
<1> QED BY <1>2, NewArtifact

\* An entry that is found is taken down; one that is gone was touched.
LEMMA StatEntryStep ==
  ASSUME IInv, StatEntry
  PROVE  IInv'
<1> DEFINE e == Head(pending)
           a == Artifact(e, Entry[e].target)
           more == IF IsWeights(Here.adapter, e) /\ Readable(e) THEN <<a>> ELSE <<>>
<1>1. /\ pc = "stat" /\ pending # <<>> /\ Here.adapter # "ollama" /\ EndEntry(more)
      /\ UNCHANGED <<pc, trust, walk, visit, listing, blob, groups, at, handle, outside>>
  BY DEF StatEntry
<1>2. pc \in Listing
  BY <1>1 DEF Listing
<1>3. e \in Entries
  BY <1>1, <1>2, PendingEntry
<1>4. Entry[e].target \in Files /\ (e \in Tags => Entry[e].target \in DOMAIN NamedDigest)
  BY <1>3, EntryFacts
<1>5. a \in Artifacts /\ a.entry = e /\ Unhashed(a)
  BY <1>3, <1>4, NewArtifact
<1>6. ASSUME Takes(visit, e), AsAtStart(e) PROVE more = <<a>>
  <2>1. IsWeights(Here.adapter, e)
    BY <1>6 DEF Takes, Here
  <2>2. Readable(e)
    BY <1>3, <1>6, AsAtStartIsListed DEF IInv, Readable
  <2> QED BY <2>1, <2>2
<1>7. more = <<>> \/ more = <<a>>
  OBVIOUS
<1>8. blob' \in DOMAIN NamedDigest \cup {Missing}
  BY <1>1 DEF IInv, Types
<1> HIDE DEF a, more
<1> QED BY <1>1, <1>2, <1>5, <1>6, <1>7, <1>8, EntryEnded

\* A manifest that nobody touched leads to its blob.
LEMMA ReadManifestStep ==
  ASSUME IInv, ReadManifest
  PROVE  IInv'
<1> DEFINE e == Head(pending)
<1>1. /\ pc = "stat" /\ pending # <<>> /\ Here.adapter = "ollama"
      /\ UNCHANGED <<trust, walk, visit, listing, groups, at, handle, outside>>
  BY DEF ReadManifest
<1>2. pc \in Listing /\ pc \in Discovering /\ handle = Closed
  BY <1>1, ClosedBefore DEF IInv, Listing, Discovering
<1>3. e \in Entries
  BY <1>1, <1>2, PendingEntry
<1>4. e \in Tags => /\ manifest[e] \in DOMAIN NamedDigest \cup {Missing, Garbled}
                    /\ e \notin touched => manifest[e] = Entry[e].target
  BY DEF IInv, Types, StartInv
<1>5. CASE /\ IsWeights("ollama", e) /\ manifest[e] \in Files
           /\ blob' = manifest[e] /\ pc' = "blob" /\ UNCHANGED <<found, pending>>
  <2>1. e \in Tags /\ blob' \in DOMAIN NamedDigest
        /\ (e \in touched \/ blob' = Entry[e].target)
    BY <1>3, <1>4, <1>5, EntryFacts
  <2>2. StartInv' /\ HandleInv' /\ ReadingInv' /\ handle' \in Handles
    BY <1>1, <1>2, StartKept, HandleClosed DEF IInv
  <2>3. touched' = touched /\ Here' = Here
    BY <1>1 DEF outside, Here
  <2>4. Types'
    BY <1>1, <1>5, <2>1, <2>2 DEF IInv, Types, outside, Discovering
  <2>5. WalkInv'
    BY <1>1, <1>5, <2>1, <2>3 DEF IInv, WalkInv
  <2>6. ListingInv'
    <3>1. \A x : (IsPending(x)' <=> IsPending(x)) /\ (IsFound(x)' <=> IsFound(x))
      BY <1>5 DEF IsPending, IsFound
    <3>2. \A x \in Entries : Takes(visit, x)' /\ AsAtStart(x)' => IsPending(x)' \/ IsFound(x)'
      BY <1>1, <1>2, <2>3, <3>1, FewerAsAtStart DEF IInv, ListingInv
    <3> QED BY <1>1, <1>2, <1>5, <2>3, <3>1, <3>2 DEF IInv, ListingInv
  <2>7. GroupsFromWalk' /\ GroupsOnce' /\ GroupsAll' /\ GroupsTogether'
    BY <1>1, <2>3, SameGroups, GroupsKept DEF IInv
  <2>8. DigestInv'
    BY <1>1, <1>2, <1>5 DEF IInv, DigestInv, Discovering
  <2> QED BY <2>2, <2>4, <2>5, <2>6, <2>7, <2>8 DEF IInv
<1>6. CASE /\ ~(IsWeights("ollama", e) /\ manifest[e] \in Files)
           /\ EndEntry(<<>>) /\ UNCHANGED <<blob, pc>>
  <2> DEFINE a == Artifact(e, Entry[e].target)
  <2>1. Entry[e].target \in Files /\ (e \in Tags => Entry[e].target \in DOMAIN NamedDigest)
    BY <1>3, EntryFacts
  <2>2. a \in Artifacts /\ a.entry = e /\ Unhashed(a)
    BY <1>3, <2>1, NewArtifact
  <2>3. ~(Takes(visit, e) /\ AsAtStart(e))
    <3> SUFFICES ASSUME Takes(visit, e), AsAtStart(e)
                 PROVE  IsWeights("ollama", e) /\ manifest[e] \in Files
      BY <1>6
    <3>1. IsWeights("ollama", e)
      BY <1>1 DEF Takes, Here
    <3>2. e \in Tags
      BY <1>3, <3>1, EntryFacts
    <3>3. manifest[e] = Entry[e].target
      BY <1>4, <3>2 DEF AsAtStart
    <3> QED BY <2>1, <3>1, <3>3
  <2>4. blob' \in DOMAIN NamedDigest \cup {Missing} /\ pc' = "stat"
    BY <1>1, <1>6 DEF IInv, Types
  <2> HIDE DEF a
  <2> QED BY <1>1, <1>2, <1>6, <2>2, <2>3, <2>4, EntryEnded
<1> QED BY <1>5, <1>6 DEF ReadManifest

\* A blob that nobody touched is there.
LEMMA FindBlobStep ==
  ASSUME IInv, FindBlob
  PROVE  IInv'
<1> DEFINE e == Head(pending)
           a == Artifact(e, blob)
           more == IF disk[blob] # Missing THEN <<a>> ELSE <<>>
<1>1. /\ pc = "blob" /\ EndEntry(more) /\ blob' = Missing /\ pc' = "stat"
      /\ UNCHANGED <<trust, walk, visit, listing, groups, at, handle, outside>>
  BY DEF FindBlob
<1>2. /\ pc \in Listing /\ pending # <<>> /\ e \in Tags /\ blob \in DOMAIN NamedDigest
      /\ e \in touched \/ blob = Entry[e].target
  BY <1>1 DEF IInv, WalkInv, Listing
<1>3. e \in Entries /\ blob \in Files
  BY <1>1, <1>2, PendingEntry, FileScanConstants
<1>4. a \in Artifacts /\ a.entry = e /\ Unhashed(a)
  BY <1>2, <1>3, NewArtifact
<1>5. ASSUME Takes(visit, e), AsAtStart(e) PROVE more = <<a>>
  <2>1. blob = Entry[e].target
    BY <1>2, <1>5 DEF AsAtStart
  <2>2. disk[blob] # Missing
    BY <1>3, <1>5, <2>1, AsAtStartIsListed DEF IInv
  <2> QED BY <2>2
<1>6. more = <<>> \/ more = <<a>>
  OBVIOUS
<1> HIDE DEF a, more
<1> QED BY <1>1, <1>2, <1>4, <1>5, <1>6, EntryEnded

\* A list and another one after it.
LEMMA Joined ==
  ASSUME NEW S, NEW s \in Seq(S), NEW more \in Seq(S)
  PROVE  /\ s \o more \in Seq(S)
         /\ \A g \in DOMAIN s : g \in DOMAIN (s \o more) /\ (s \o more)[g] = s[g]
         /\ \A k \in DOMAIN more :
              \E g \in DOMAIN (s \o more) : g \notin DOMAIN s /\ g - Len(s) = k /\ (s \o more)[g] = more[k]
         /\ \A g \in DOMAIN (s \o more) :
              \/ g \in DOMAIN s /\ (s \o more)[g] = s[g]
              \/ /\ g \notin DOMAIN s /\ g - Len(s) \in DOMAIN more
                 /\ (s \o more)[g] = more[g - Len(s)]
         /\ \A g, h \in DOMAIN (s \o more) : g - Len(s) = h - Len(s) => g = h
<1> DEFINE t == s \o more
           n == Len(s)
           m == Len(more)
<1>1. n \in Nat /\ DOMAIN s = 1 .. n /\ m \in Nat /\ DOMAIN more = 1 .. m
  BY LenProperties
<1>2. /\ t \in Seq(S) /\ Len(t) = n + m
      /\ \A g \in 1 .. n + m : t[g] = IF g <= n THEN s[g] ELSE more[g - n]
  BY ConcatProperties
<1>3. DOMAIN t = 1 .. n + m
  BY <1>2, LenProperties
<1> HIDE DEF n, m, t
<1>4. \A g \in 1 .. n : g \in 1 .. n + m /\ g <= n
  BY <1>1
<1>5. \A k \in 1 .. m : /\ k + n \in 1 .. n + m /\ ~(k + n <= n) /\ k + n \notin 1 .. n
                        /\ (k + n) - n = k
  BY <1>1
<1>6. \A g \in 1 .. n + m :
        g \in 1 .. n \/ (g \notin 1 .. n /\ ~(g <= n) /\ g - n \in 1 .. m)
  BY <1>1
<1>7. \A g, h \in 1 .. n + m : g - n = h - n => g = h
  BY <1>1
<1>8. \A g \in DOMAIN s : g \in DOMAIN t /\ t[g] = s[g]
  BY <1>1, <1>2, <1>3, <1>4
<1>9. ASSUME NEW k \in DOMAIN more
      PROVE  \E g \in DOMAIN t : g \notin DOMAIN s /\ g - n = k /\ t[g] = more[k]
  <2>1. /\ k + n \in DOMAIN t /\ k + n \notin DOMAIN s /\ (k + n) - n = k
        /\ ~(k + n <= n)
    BY <1>1, <1>3, <1>5
  <2>2. t[k + n] = more[k]
    BY <1>2, <1>3, <2>1
  <2> QED BY <2>1, <2>2
<1>10. ASSUME NEW g \in DOMAIN t
       PROVE  \/ g \in DOMAIN s /\ t[g] = s[g]
              \/ g \notin DOMAIN s /\ g - n \in DOMAIN more /\ t[g] = more[g - n]
  BY <1>1, <1>2, <1>3, <1>4, <1>6
<1> QED BY <1>2, <1>3, <1>7, <1>8, <1>9, <1>10 DEF n, t

\* The end of a directory puts what was found into groups, once.
LEMMA YieldGroupsStep ==
  ASSUME IInv, YieldGroups
  PROVE  IInv'
<1> DEFINE G == GroupsOf(Here.adapter, listing, found)
           n == Len(groups)
<1>1. /\ pc = "stat" /\ pending = <<>> /\ groups' = groups \o G
      /\ found' = <<>> /\ listing' = {} /\ visit' = visit + 1 /\ pc' = "visit"
      /\ UNCHANGED <<trust, walk, pending, blob, at, handle, outside>>
  BY DEF YieldGroups
<1>2. /\ pc \in Listing /\ pc \in Discovering /\ handle = Closed
      /\ visit \in DOMAIN walk /\ Descends(Here)
  BY <1>1, ClosedBefore DEF IInv, WalkInv, Listing, Discovering
<1>3. /\ Here.adapter \in AdapterNames /\ Here = walk[visit]
      /\ visit \in Nat \ {0} /\ Len(walk) \in Nat /\ DOMAIN walk = 1 .. Len(walk)
      /\ 1 .. visit - 1 \subseteq DOMAIN walk /\ visit \notin 1 .. visit - 1
      /\ \A i, j \in DOMAIN walk :
           Descends(walk[i]) /\ Descends(walk[j]) /\ walk[i].dir = walk[j].dir => i = j
  BY <1>2, WalkFacts DEF IInv, Here
<1>4. /\ found \in Seq(Artifacts) /\ groups \in Seq(ModelGroups)
      /\ \A x \in listing : Entry[x].dir = Here.dir
      /\ \A k \in DOMAIN found : found[k].entry \in listing
      /\ \A j, k \in DOMAIN found : found[j].entry = found[k].entry => j = k
      /\ \A x \in Entries : Takes(visit, x) /\ AsAtStart(x) => IsPending(x) \/ IsFound(x)
  BY <1>2 DEF IInv, ListingInv, Types
<1>5. AreGroupsOf(G, Here.adapter, found)
  BY <1>3, <1>4, DirectoryGrouped
<1> HIDE DEF G
<1>6. /\ G \in Seq(ModelGroups)
      /\ \A g \in DOMAIN G : G[g].source = Here.adapter
      /\ \A g \in DOMAIN G : \A i \in DOMAIN G[g].artifacts :
           \E k \in DOMAIN found : G[g].artifacts[i] = found[k]
      /\ \A k \in DOMAIN found :
           \E g \in DOMAIN G : \E i \in DOMAIN G[g].artifacts : G[g].artifacts[i] = found[k]
      /\ \A g, h \in DOMAIN G : \A i \in DOMAIN G[g].artifacts, j \in DOMAIN G[h].artifacts :
           G[g].artifacts[i].entry = G[h].artifacts[j].entry => g = h /\ i = j
      /\ Here.adapter = "path" =>
           \A g, h \in DOMAIN G : \A i \in DOMAIN G[g].artifacts, j \in DOMAIN G[h].artifacts :
             G[g].artifacts[i].entry # G[h].artifacts[j].entry =>
               ( g = h <=> SameShardSet(G[g].artifacts[i].entry, G[h].artifacts[j].entry) )
  BY <1>5 DEF AreGroupsOf
<1>7. /\ groups' \in Seq(ModelGroups)
      /\ \A g \in DOMAIN groups : g \in DOMAIN groups' /\ groups'[g] = groups[g]
      /\ \A k \in DOMAIN G :
           \E g \in DOMAIN groups' : g \notin DOMAIN groups /\ g - n = k /\ groups'[g] = G[k]
      /\ \A g \in DOMAIN groups' :
           \/ g \in DOMAIN groups /\ groups'[g] = groups[g]
           \/ /\ g \notin DOMAIN groups /\ g - n \in DOMAIN G
              /\ groups'[g] = G[g - n]
      /\ \A g, h \in DOMAIN groups' : g - n = h - n => g = h
  <2> DEFINE t == groups \o G
  <2>1. groups \in Seq(ModelGroups) /\ G \in Seq(ModelGroups)
    BY <1>4, <1>6
  <2>2. /\ t \in Seq(ModelGroups)
        /\ \A g \in DOMAIN groups : g \in DOMAIN t /\ t[g] = groups[g]
        /\ \A k \in DOMAIN G :
             \E g \in DOMAIN t : g \notin DOMAIN groups /\ g - n = k /\ t[g] = G[k]
        /\ \A g \in DOMAIN t :
             \/ g \in DOMAIN groups /\ t[g] = groups[g]
             \/ g \notin DOMAIN groups /\ g - n \in DOMAIN G /\ t[g] = G[g - n]
        /\ \A g, h \in DOMAIN t : g - n = h - n => g = h
    BY <2>1, Joined
  <2>3. groups' = t
    BY <1>1
  <2> HIDE DEF t, n
  <2> QED BY <2>2, <2>3
<1>8. ASSUME NEW g \in DOMAIN G, NEW i \in DOMAIN G[g].artifacts
      PROVE  Entry[G[g].artifacts[i].entry].dir = Here.dir
  BY <1>4, <1>6
<1>9. ASSUME NEW g \in DOMAIN groups, NEW i \in DOMAIN groups[g].artifacts
      PROVE  Entry[EntryAt(g, i)].dir # Here.dir
  <2>1. PICK j \in 1 .. visit - 1 : walk[j].dir = Entry[EntryAt(g, i)].dir /\ Descends(walk[j])
    BY DEF IInv, GroupsFromWalk
  <2>2. j \in DOMAIN walk /\ j # visit
    BY <1>3, <2>1
  <2> QED BY <1>2, <1>3, <2>1, <2>2
<1>10. visit' \in 1 .. Len(walk) + 1 /\ visit - 1 \in Nat
  BY <1>1, <1>2, <1>3
<1>11. \A j : j \in 1 .. visit' - 1 <=> j \in 1 .. visit - 1 \/ j = visit
  BY <1>1, <1>3, <1>10
<1>12. StartInv' /\ HandleInv' /\ ReadingInv' /\ handle' \in Handles
  BY <1>1, <1>2, StartKept, HandleClosed DEF IInv
<1>13. touched' = touched /\ walk' = walk
  BY <1>1 DEF outside
<1> HIDE DEF n
<1>14. Types'
  <2>1. pending' \in Seq(listing') /\ found' \in Seq(Artifacts)
    BY <1>1, EmptySeq
  <2> QED BY <1>1, <1>7, <1>10, <1>12, <2>1 DEF IInv, Types, outside, Discovering
<1>15. WalkInv' /\ ListingInv'
  BY <1>1 DEF WalkInv, ListingInv, Listing
<1>16. GroupsFromWalk'
  <2> SUFFICES ASSUME NEW g \in DOMAIN groups', NEW i \in DOMAIN groups'[g].artifacts
               PROVE  \E j \in 1 .. visit' - 1 :
                        /\ walk[j].dir = Entry[groups'[g].artifacts[i].entry].dir
                        /\ Descends(walk[j])
                        /\ groups'[g].source = walk[j].adapter
    BY <1>13 DEF GroupsFromWalk, EntryAt
  <2>1. CASE g \in DOMAIN groups /\ groups'[g] = groups[g]
    <3>1. \E j \in 1 .. visit - 1 :
            /\ walk[j].dir = Entry[groups[g].artifacts[i].entry].dir
            /\ Descends(walk[j])
            /\ groups[g].source = walk[j].adapter
      BY <2>1 DEF IInv, GroupsFromWalk, EntryAt
    <3> QED BY <1>11, <2>1, <3>1
  <2>2. CASE g - n \in DOMAIN G /\ groups'[g] = G[g - n]
    <3>1. groups'[g].source = Here.adapter /\ Entry[groups'[g].artifacts[i].entry].dir = Here.dir
      BY <1>6, <1>8, <2>2
    <3> QED BY <1>2, <1>3, <1>11, <3>1
  <2> QED BY <1>7, <2>1, <2>2
<1>17. GroupsOnce'
  <2> SUFFICES ASSUME NEW g \in DOMAIN groups', NEW i \in DOMAIN groups'[g].artifacts,
                      NEW h \in DOMAIN groups', NEW j \in DOMAIN groups'[h].artifacts,
                      groups'[g].artifacts[i].entry = groups'[h].artifacts[j].entry
               PROVE  g = h /\ i = j
    BY DEF GroupsOnce, EntryAt
  <2>1. CASE g \in DOMAIN groups /\ h \in DOMAIN groups
    <3>1. groups'[g] = groups[g] /\ groups'[h] = groups[h]
      BY <1>7, <2>1
    <3> QED BY <2>1, <3>1 DEF IInv, GroupsOnce, EntryAt
  <2>2. CASE g \notin DOMAIN groups /\ h \notin DOMAIN groups
    <3>1. /\ g - n \in DOMAIN G /\ groups'[g] = G[g - n]
          /\ h - n \in DOMAIN G /\ groups'[h] = G[h - n]
      BY <1>7, <2>2
    <3>2. g - n = h - n /\ i = j
      BY <1>6, <3>1
    <3> QED BY <1>7, <3>2
  <2>3. CASE g \in DOMAIN groups /\ h \notin DOMAIN groups
    <3>1. Entry[groups'[g].artifacts[i].entry].dir # Here.dir
      BY <1>7, <1>9, <2>3 DEF EntryAt
    <3>2. Entry[groups'[h].artifacts[j].entry].dir = Here.dir
      BY <1>7, <1>8, <2>3
    <3> QED BY <3>1, <3>2
  <2>4. CASE g \notin DOMAIN groups /\ h \in DOMAIN groups
    <3>1. Entry[groups'[h].artifacts[j].entry].dir # Here.dir
      BY <1>7, <1>9, <2>4 DEF EntryAt
    <3>2. Entry[groups'[g].artifacts[i].entry].dir = Here.dir
      BY <1>7, <1>8, <2>4
    <3> QED BY <3>1, <3>2
  <2> QED BY <2>1, <2>2, <2>3, <2>4
<1>18. GroupsAll'
  <2> SUFFICES ASSUME NEW j \in 1 .. visit' - 1, NEW e \in Entries,
                      Takes(j, e), AsAtStart(e)
               PROVE  \E g \in DOMAIN groups' : \E i \in DOMAIN groups'[g].artifacts :
                        groups'[g].artifacts[i].entry = e
    BY <1>13, FewerAsAtStart DEF GroupsAll, IsGrouped, EntryAt
  <2>1. CASE j \in 1 .. visit - 1
    <3>1. PICK g \in DOMAIN groups :
            \E i \in DOMAIN groups[g].artifacts : groups[g].artifacts[i].entry = e
      BY <2>1 DEF IInv, GroupsAll, IsGrouped, EntryAt
    <3> QED BY <1>7, <3>1
  <2>2. CASE j = visit
    <3>1. DOMAIN pending = {}
      BY <1>1, NoElement
    <3>2. IsFound(e)
      BY <1>4, <2>2, <3>1 DEF IsPending
    <3>3. PICK k \in DOMAIN found : found[k].entry = e
      BY <3>2 DEF IsFound
    <3>4. PICK h \in DOMAIN G : \E i \in DOMAIN G[h].artifacts : G[h].artifacts[i] = found[k]
      BY <1>6
    <3>5. PICK g \in DOMAIN groups' : groups'[g] = G[h]
      BY <1>7
    <3> QED BY <3>3, <3>4, <3>5
  <2> QED BY <1>11, <2>1, <2>2
<1>19. GroupsTogether'
  <2> SUFFICES ASSUME NEW g \in DOMAIN groups', NEW h \in DOMAIN groups',
                      groups'[g].source = "path", groups'[h].source = "path",
                      NEW i \in DOMAIN groups'[g].artifacts,
                      NEW j \in DOMAIN groups'[h].artifacts,
                      NEW e, e = groups'[g].artifacts[i].entry,
                      NEW f, f = groups'[h].artifacts[j].entry, e # f
               PROVE  g = h <=> SameShardSet(e, f) /\ Entry[e].dir = Entry[f].dir
    BY DEF GroupsTogether, EntryAt
  <2>1. CASE g \in DOMAIN groups /\ h \in DOMAIN groups
    <3>1. groups'[g] = groups[g] /\ groups'[h] = groups[h]
      BY <1>7, <2>1
    <3> QED BY <2>1, <3>1 DEF IInv, GroupsTogether, EntryAt
  <2>2. CASE g \notin DOMAIN groups /\ h \notin DOMAIN groups
    <3>1. /\ g - n \in DOMAIN G /\ groups'[g] = G[g - n]
          /\ h - n \in DOMAIN G /\ groups'[h] = G[h - n]
      BY <1>7, <2>2
    <3>2. Here.adapter = "path"
      BY <1>6, <3>1
    <3>3. g - n = h - n <=> SameShardSet(e, f)
      BY <1>6, <3>1, <3>2
    <3>4. Entry[e].dir = Here.dir /\ Entry[f].dir = Here.dir
      BY <1>8, <3>1
    <3>5. g - n = h - n <=> g = h
      BY <1>7
    <3> QED BY <3>3, <3>4, <3>5
  <2>3. CASE g \in DOMAIN groups /\ h \notin DOMAIN groups
    <3>1. Entry[e].dir # Here.dir
      BY <1>7, <1>9, <2>3 DEF EntryAt
    <3>2. Entry[f].dir = Here.dir
      BY <1>7, <1>8, <2>3
    <3> QED BY <2>3, <3>1, <3>2
  <2>4. CASE g \notin DOMAIN groups /\ h \in DOMAIN groups
    <3>1. Entry[f].dir # Here.dir
      BY <1>7, <1>9, <2>4 DEF EntryAt
    <3>2. Entry[e].dir = Here.dir
      BY <1>7, <1>8, <2>4
    <3> QED BY <2>4, <3>1, <3>2
  <2> QED BY <2>1, <2>2, <2>3, <2>4
<1>20. DigestInv'
  <2>1. DOMAIN found' = {}
    BY <1>1, NoElement
  <2>2. \A k \in DOMAIN found : Unhashed(found[k])
    BY <1>2 DEF IInv, DigestInv
  <2>3. \A g \in DOMAIN groups : \A i \in DOMAIN groups[g].artifacts :
          Unhashed(groups[g].artifacts[i])
    BY <1>2 DEF IInv, DigestInv
  <2>4. ASSUME NEW g \in DOMAIN groups', NEW i \in DOMAIN groups'[g].artifacts
        PROVE  Unhashed(groups'[g].artifacts[i])
    <3>1. CASE g \in DOMAIN groups
      BY <1>7, <2>3, <3>1
    <3>2. CASE g \notin DOMAIN groups
      BY <1>6, <1>7, <2>2, <3>2
    <3> QED BY <3>1, <3>2
  <2>5. at' = <<1, 1>>
    BY <1>1, <1>2 DEF IInv, DigestInv
  <2> QED BY <1>1, <2>1, <2>4, <2>5 DEF DigestInv, Unhashed, Discovering
<1> QED BY <1>12, <1>14, <1>15, <1>16, <1>17, <1>18, <1>19, <1>20 DEF IInv

\* Hashing begins at the first artifact, or has nothing to do.
LEMMA EndDiscoveryStep ==
  ASSUME IInv, EndDiscovery
  PROVE  IInv'
<1>1. /\ pc = "visit" /\ visit > Len(walk) /\ handle = Closed
      /\ pc' = IF groups = <<>> THEN "done" ELSE "hash"
      /\ UNCHANGED <<trust, walk, visit, listing, pending, blob, found, groups, at, handle,
                     outside>>
      /\ at = <<1, 1>>
  BY ClosedBefore DEF EndDiscovery, walking, IInv, DigestInv, Discovering
<1>2. StartInv' /\ HandleInv' /\ ReadingInv' /\ handle' \in Handles
  BY <1>1, StartKept, HandleClosed DEF IInv
<1>3. GroupsFromWalk' /\ GroupsOnce' /\ GroupsAll' /\ GroupsTogether'
  BY <1>1, SameGroups, GroupsKept DEF IInv, outside
<1>4. Types'
  BY <1>1, <1>2 DEF IInv, Types, outside
<1>5. visit = Len(walk) + 1
  <2>1. visit \in 1 .. Len(walk) + 1 /\ Len(walk) \in Nat
    BY WalkFacts DEF IInv, Types
  <2> QED BY <1>1, <2>1
<1>6. WalkInv' /\ ListingInv'
  BY <1>1, <1>5 DEF WalkInv, ListingInv, Listing
<1>7. groups # <<>> => 1 \in DOMAIN groups /\ 1 \in DOMAIN groups[1].artifacts
  <2>1. groups \in Seq(ModelGroups)
    BY DEF IInv, Types
  <2>2. groups # <<>> => Len(groups) \in Nat \ {0}
    BY <2>1, EmptySeq
  <2>3. /\ DOMAIN groups = 1 .. Len(groups)
        /\ \A g \in DOMAIN groups : /\ Len(groups[g].artifacts) \in Nat \ {0}
                                    /\ DOMAIN groups[g].artifacts = 1 .. Len(groups[g].artifacts)
    BY <2>1, GroupLists
  <2>4. groups # <<>> => 1 \in DOMAIN groups
    BY <2>2, <2>3
  <2>5. \A g \in DOMAIN groups : 1 \in DOMAIN groups[g].artifacts
    BY <2>3
  <2> QED BY <2>4, <2>5
<1>8. DigestInv'
  BY <1>1, <1>7 DEF IInv, DigestInv, Discovering
<1> QED BY <1>2, <1>3, <1>4, <1>6, <1>8 DEF IInv

-----------------------------------------------------------------------------
(***************************************************************************)
(* Reading a file.                                                         *)
(***************************************************************************)
LEMMA NothingRead ==
  ASSUME NEW b \in Contents
  PROVE  Reads(b, b, <<>>)
BY NoElement DEF Reads

\* One more block of what is behind the name is one more of the version.
LEMMA ReadsMore ==
  ASSUME NEW v \in Contents, NEW b \in Contents, NEW got \in Contents,
         Reads(v, b, got), Len(got) < Len(b)
  PROVE  LET more == Append(got, b[Len(got) + 1])
         IN  more \in Contents /\ Reads(v, b, more)
<1> DEFINE n == Len(got)
           more == Append(got, b[n + 1])
<1>1. /\ n \in Nat /\ DOMAIN got = 1 .. n /\ got \in Seq(Blocks)
      /\ Len(b) \in Nat /\ DOMAIN b = 1 .. Len(b) /\ Len(b) <= MaxBlocks
      /\ \A k \in DOMAIN b : b[k] \in Blocks
  BY ContentsAre
<1>2. MaxBlocks \in Nat
  BY FileScanConstants
<1>3. n + 1 \in DOMAIN b /\ n + 1 \in 1 .. MaxBlocks /\ n + 1 > n /\ n + 1 <= MaxBlocks
  BY <1>1, <1>2
<1>4. /\ more \in Seq(Blocks) /\ Len(more) = n + 1
      /\ \A k \in 1 .. n : more[k] = got[k]
      /\ more[n + 1] = b[n + 1]
  BY <1>1, <1>3, AppendProperties
<1>5. DOMAIN more = 1 .. n + 1
  BY <1>4, LenProperties
<1> HIDE DEF more
<1>6. more \in Contents
  BY <1>3, <1>4, ContentsAre
<1>7. n + 1 \in DOMAIN v /\ v[n + 1] = b[n + 1]
  BY <1>3 DEF Reads
<1>8. \A k \in 1 .. n + 1 : k \in 1 .. n \/ k = n + 1
  BY <1>1
<1>9. \A k \in DOMAIN more : k \in DOMAIN v /\ v[k] = more[k]
  BY <1>1, <1>4, <1>5, <1>7, <1>8 DEF Reads
<1>10. \A k \in 1 .. MaxBlocks : k > n + 1 => k > n
  BY <1>1, <1>2
<1>11. Reads(v, b, more)
  BY <1>4, <1>9, <1>10 DEF Reads
<1> QED BY <1>6, <1>11 DEF more

\* Who read to the end read the version.
LEMMA ReadsAll ==
  ASSUME NEW v \in Contents, NEW b \in Contents, NEW got \in Contents,
         Reads(v, b, got), Len(got) >= Len(b)
  PROVE  got = v
<1>1. /\ Len(got) \in Nat /\ DOMAIN got = 1 .. Len(got) /\ got \in Seq(Blocks)
      /\ Len(b) \in Nat /\ DOMAIN b = 1 .. Len(b)
      /\ Len(v) \in Nat /\ DOMAIN v = 1 .. Len(v) /\ v \in Seq(Blocks)
      /\ DOMAIN v \subseteq 1 .. MaxBlocks
  BY ContentsAre
<1>2. \A k \in 1 .. Len(got) : k \in 1 .. Len(v) /\ v[k] = got[k]
  BY <1>1 DEF Reads
<1>3. \A k \in 1 .. Len(v) : ~(k > Len(got))
  <2> SUFFICES ASSUME NEW k \in 1 .. Len(v), k > Len(got) PROVE FALSE
    OBVIOUS
  <2>1. k \in DOMAIN v /\ k \in 1 .. MaxBlocks
    BY <1>1
  <2>2. k \in DOMAIN b
    BY <2>1 DEF Reads
  <2>3. k \in 1 .. Len(b)
    BY <1>1, <2>2
  <2> QED BY <1>1, <2>3
<1>4. Len(got) <= Len(v)
  <2>1. Len(got) = 0 \/ Len(got) \in 1 .. Len(got)
    BY <1>1
  <2>2. Len(got) = 0 \/ Len(got) \in 1 .. Len(v)
    BY <1>2, <2>1
  <2> QED BY <1>1, <2>2
<1>5. Len(v) <= Len(got)
  <2>1. Len(v) = 0 \/ Len(v) \in 1 .. Len(v)
    BY <1>1
  <2>2. Len(v) = 0 \/ ~(Len(v) > Len(got))
    BY <1>3, <2>1
  <2> QED BY <1>1, <2>2
<1>6. Len(v) = Len(got)
  <2>1. Len(v) \in Nat
    BY <1>1
  <2>2. Len(got) \in Nat
    BY <1>1
  <2> QED BY <1>4, <1>5, <2>1, <2>2
<1> QED BY <1>1, <1>2, <1>6, SeqEqual

\* A change of one block leaves what was read a part of the old version or
\* of the new one, with the rest still to come.
LEMMA ReadsChanged ==
  ASSUME NEW b \in Contents, NEW new \in Contents, NEW got \in Contents,
         Reads(b, b, got), OneBlockApart(b, new)
  PROVE  Reads(b, new, got) \/ Reads(new, new, got)
<1> DEFINE n == Len(got)
<1>1. /\ n \in Nat /\ DOMAIN got = 1 .. n
      /\ Len(b) \in Nat /\ DOMAIN b = 1 .. Len(b) /\ b \in Seq(Blocks)
      /\ Len(new) \in Nat /\ DOMAIN new = 1 .. Len(new) /\ MaxBlocks \in Nat
  BY ContentsAre, FileScanConstants
<1>2. \A k \in 1 .. n : k \in 1 .. Len(b) /\ b[k] = got[k]
  BY <1>1 DEF Reads
<1>3. ASSUME \A k \in 1 .. n : k \in DOMAIN new /\ new[k] = b[k]
      PROVE  Reads(new, new, got)
  BY <1>1, <1>2, <1>3 DEF Reads
<1>4. ASSUME \A k \in 1 .. MaxBlocks :
               k > n => (k \in DOMAIN b <=> k \in DOMAIN new) /\ (k \in DOMAIN b => b[k] = new[k])
      PROVE  Reads(b, new, got)
  BY <1>1, <1>2, <1>4 DEF Reads
<1>5. n <= Len(b)
  <2>1. n = 0 \/ n \in 1 .. n
    BY <1>1
  <2>2. n = 0 \/ n \in 1 .. Len(b)
    BY <1>2, <2>1
  <2> QED BY <1>1, <2>2
<1>6. ASSUME NEW block \in Blocks, new = Append(b, block)
      PROVE  Reads(new, new, got)
  <2>1. Len(new) = Len(b) + 1 /\ \A k \in 1 .. Len(b) : new[k] = b[k]
    BY <1>1, <1>6, AppendProperties
  <2>2. \A k \in 1 .. n : k \in 1 .. Len(b) /\ k \in 1 .. Len(b) + 1
    BY <1>1, <1>5
  <2> QED BY <1>1, <1>3, <2>1, <2>2
<1>7. ASSUME NEW i \in DOMAIN b, NEW block \in Blocks, new = [b EXCEPT ![i] = block]
      PROVE  Reads(b, new, got) \/ Reads(new, new, got)
  <2>1. DOMAIN new = DOMAIN b /\ \A k \in DOMAIN b : k # i => new[k] = b[k]
    BY <1>7
  <2>2. CASE i \in 1 .. n
    <3>1. \A k \in 1 .. MaxBlocks : k > n => k # i
      BY <1>1, <2>2
    <3> QED BY <1>4, <2>1, <3>1
  <2>3. CASE i \notin 1 .. n
    <3>1. \A k \in 1 .. n : k # i /\ k \in DOMAIN b
      BY <1>1, <1>2, <2>3
    <3> QED BY <1>3, <2>1, <3>1
  <2> QED BY <2>2, <2>3
<1>8. ASSUME b # <<>>, new = SubSeq(b, 1, Len(b) - 1)
      PROVE  Reads(b, new, got) \/ Reads(new, new, got)
  <2>1. Len(b) \in Nat \ {0}
    BY <1>1, <1>8, EmptySeq
  <2> DEFINE m == Len(b) - 1
  <2>2. 1 \in Int /\ m \in Int /\ m \in Nat /\ \A k \in 1 .. m : b[k] \in Blocks
    <3>1. m \in Nat /\ m \in Int /\ \A k \in 1 .. m : k \in DOMAIN b
      BY <1>1, <2>1
    <3> QED BY <3>1, ContentsAre
  <2>3. /\ Len(new) = IF 1 <= m THEN m - 1 + 1 ELSE 0
        /\ \A k \in 1 .. m - 1 + 1 : new[k] = b[1 + k - 1]
    <3> HIDE DEF m
    <3>1. new = SubSeq(b, 1, m)
      BY <1>8 DEF m
    <3> QED BY <2>2, <3>1, SubSeqProperties
  <2>4. Len(new) = m
    <3>1. m \in Nat
      BY <2>2
    <3>2. Len(new) = IF 1 <= m THEN m - 1 + 1 ELSE 0
      BY <2>3
    <3> HIDE DEF m
    <3> QED BY <3>1, <3>2
  <2>5. \A k \in 1 .. m : new[k] = b[k]
    <3>1. ASSUME NEW k \in 1 .. m PROVE k \in 1 .. m - 1 + 1 /\ 1 + k - 1 = k
      BY <2>2
    <3> QED BY <2>3, <3>1
  <2>6. CASE n = Len(b)
    <3>1. \A k \in 1 .. MaxBlocks : k > n => k \notin 1 .. Len(b) /\ k \notin 1 .. m
      BY <1>1, <2>6
    <3> QED BY <1>1, <1>4, <2>4, <3>1
  <2>7. CASE n # Len(b)
    <3>1. \A k \in 1 .. n : k \in 1 .. m
      <4>1. n \in Nat /\ Len(b) \in Nat
        BY <1>1
      <4>2. n <= m
        BY <1>5, <2>7, <4>1
      <4>3. m \in Nat
        BY <2>2
      <4> HIDE DEF m, n
      <4> QED BY <4>1, <4>2, <4>3
    <3> QED BY <1>1, <1>3, <2>4, <2>5, <3>1
  <2> QED BY <2>6, <2>7
<1> QED BY <1>6, <1>7, <1>8 DEF OneBlockApart

-----------------------------------------------------------------------------
(***************************************************************************)
(* Hashing.                                                                *)
(***************************************************************************)
LEMMA SettleStep ==
  ASSUME IInv, pc = "hash", NEW d \in Contents \cup {NoDigest},
         Settle(d), handle' = Closed, UNCHANGED <<trust, walking, outside>>
  PROVE  IInv'
<1>1. UNCHANGED <<walk, visit, listing, pending, blob, found>> /\ touched' = touched
  BY DEF walking, outside
<1>2. AtInGroups /\ Types
  BY DEF IInv, DigestInv, AtInGroups
<1>3. /\ groups' \in Seq(ModelGroups) /\ SameLayout
      /\ \A g \in DOMAIN groups : \A i \in DOMAIN groups[g].artifacts :
           ~(g = at[1] /\ i = at[2]) => groups'[g].artifacts[i] = groups[g].artifacts[i]
      /\ LET a == groups'[at[1]].artifacts[at[2]]
         IN  a.digest = d /\ a.file = Current.file /\ a.entry = Current.entry
      /\ pc' \in {"hash", "done"}
      /\ pc' = "hash" => /\ at' = <<at'[1], at'[2]>> /\ at'[1] \in DOMAIN groups'
                         /\ at'[2] \in DOMAIN groups'[at'[1]].artifacts
  BY <1>2, Settled
<1>4. HandleInv' /\ ReadingInv' /\ handle' \in Handles /\ StartInv'
  BY HandleClosed, StartKept DEF IInv
<1>5. Types'
  BY <1>1, <1>3, <1>4 DEF IInv, Types, outside
<1>6. WalkInv' /\ ListingInv'
  BY <1>1, <1>3 DEF IInv, WalkInv, ListingInv, Listing
<1>7. GroupsFromWalk' /\ GroupsOnce' /\ GroupsAll' /\ GroupsTogether'
  BY <1>1, <1>3, GroupsKept DEF IInv
<1>8. DigestInv'
  BY <1>3 DEF DigestInv, Discovering
<1> QED BY <1>4, <1>5, <1>6, <1>7, <1>8 DEF IInv

\* A step of hashing that settles nothing.
LEMMA HashFrame ==
  ASSUME IInv, UNCHANGED <<pc, trust, walking, groups, at, outside>>
  PROVE  /\ WalkInv' /\ StartInv' /\ ListingInv' /\ DigestInv'
         /\ GroupsFromWalk' /\ GroupsOnce' /\ GroupsAll' /\ GroupsTogether'
         /\ handle' \in Handles => Types'
<1>1. UNCHANGED <<walk, visit, listing, pending, blob, found>> /\ touched' = touched
  BY DEF walking, outside
<1>2. WalkInv' /\ StartInv' /\ ListingInv' /\ DigestInv'
  BY <1>1, WalkKept, StartKept, ListingKept, DigestsKept DEF IInv
<1>3. GroupsFromWalk' /\ GroupsOnce' /\ GroupsAll' /\ GroupsTogether'
  BY <1>1, SameGroups, GroupsKept DEF IInv
<1>4. handle' \in Handles => Types'
  BY <1>1 DEF IInv, Types, outside
<1> QED BY <1>2, <1>3, <1>4

\* The artifact being hashed, and what the open file is.
LEMMA CurrentFacts ==
  ASSUME IInv, pc = "hash"
  PROVE  /\ Current \in Artifacts /\ Current.file \in Files
         /\ TakesName(Current, trust) => NamedDigest[Current.file] \in Contents
<1>1. groups \in Seq(ModelGroups) /\ AtInGroups
  BY DEF IInv, Types, DigestInv, AtInGroups
<1>2. Current \in Artifacts
  BY <1>1, GroupLists DEF AtInGroups, Current
<1>3. Current.file \in Files /\ (IsBlob(Current) => Current.file \in DOMAIN NamedDigest)
  BY <1>2 DEF Artifacts
<1> QED BY <1>2, <1>3, FileScanConstants DEF TakesName

\* What is known of a file while it is open.
LEMMA OpenFacts ==
  ASSUME IInv, handle.file # NoFile
  PROVE  /\ pc = "hash" /\ handle \in Handles /\ handle.file \in Files
         /\ handle.got \in Contents /\ handle.versions \subseteq Contents
         /\ Behind(handle) \in Contents /\ handle.inPlace \in Nat
         /\ handle.file = Current.file /\ ~TakesName(Current, trust)
BY DEF IInv, Types, Handles, HandleInv, ReadingInv

\* A digest from a name is that of a blob, with the flag given.
LEMMA TakeNameStep ==
  ASSUME IInv, TakeName
  PROVE  IInv'
<1>1. /\ pc = "hash" /\ TakesName(Current, trust)
      /\ Settle(NamedDigest[Current.file])
      /\ handle' = Closed /\ UNCHANGED <<trust, walking, outside>>
  BY DEF TakeName
<1>2. NamedDigest[Current.file] \in Contents \cup {NoDigest}
  BY <1>1, CurrentFacts
<1> QED BY <1>1, <1>2, SettleStep

\* A file that cannot be opened has no digest.
LEMMA OpenFailsStep ==
  ASSUME IInv, OpenFails
  PROVE  IInv'
<1>1. /\ pc = "hash" /\ Settle(NoDigest)
      /\ handle' = Closed /\ UNCHANGED <<trust, walking, outside>>
  BY DEF OpenFails
<1> QED BY <1>1, SettleStep

\* A file that cannot be read to its end has no digest.
LEMMA ReadFailsStep ==
  ASSUME IInv, ReadFails
  PROVE  IInv'
<1>1. /\ handle.file # NoFile /\ Settle(NoDigest)
      /\ handle' = Closed /\ UNCHANGED <<trust, walking, outside>>
  BY DEF ReadFails
<1>2. pc = "hash"
  BY <1>1, OpenFacts
<1> QED BY <1>1, <1>2, SettleStep

\* The digest of what was read comes from content.
LEMMA FinishFileStep ==
  ASSUME IInv, FinishFile
  PROVE  IInv'
<1>1. /\ handle.file # NoFile /\ Settle(handle.got)
      /\ handle' = Closed /\ UNCHANGED <<trust, walking, outside>>
  BY DEF FinishFile
<1>2. pc = "hash" /\ ~TakesName(Current, trust) /\ handle.got \in Contents \cup {NoDigest}
  BY <1>1, OpenFacts
<1> QED BY <1>1, <1>2, SettleStep

\* What is behind the name when it is opened is one version.
LEMMA OpenFileStep ==
  ASSUME IInv, OpenFile
  PROVE  IInv'
<1> DEFINE f == Current.file
<1>1. /\ pc = "hash" /\ ~TakesName(Current, trust) /\ disk[f] # Missing
      /\ handle' = OpenedOn(f)
      /\ UNCHANGED <<pc, trust, walking, groups, at, outside>>
  BY DEF OpenFile
<1>2. f \in Files /\ disk[f] \in Contents /\ disk' = disk
  <2>1. f \in Files
    BY <1>1, CurrentFacts
  <2> QED BY <1>1, <2>1 DEF IInv, Types, outside
<1>3. /\ handle' \in Handles /\ handle'.file = f /\ handle'.own = Missing
      /\ handle'.got = <<>> /\ handle'.versions = {disk[f]} /\ handle'.inPlace = 0
  BY <1>1, <1>2, ContentsAre DEF OpenedOn, Handles
<1>4. Current' = Current
  BY <1>1 DEF Current
<1>5. HandleInv'
  BY <1>1, <1>2, <1>3, <1>4, FileScanConstants DEF HandleInv
<1>6. ReadingInv'
  <2>1. Behind(handle)' = disk[f]
    BY <1>2, <1>3 DEF Behind
  <2> QED BY <1>2, <1>3, <2>1, NothingRead DEF ReadingInv
<1> QED BY <1>1, <1>3, <1>5, <1>6, HashFrame DEF IInv

\* What was read stays the beginning of a version.
LEMMA ReadBlockStep ==
  ASSUME IInv, ReadBlock
  PROVE  IInv'
<1> DEFINE b == Behind(handle)
           more == Append(handle.got, b[Len(handle.got) + 1])
<1>1. /\ handle.file # NoFile /\ Len(handle.got) < Len(b)
      /\ handle' = [handle EXCEPT !.got = more]
      /\ UNCHANGED <<pc, trust, walking, groups, at, outside>>
  BY DEF ReadBlock
<1>2. /\ pc = "hash" /\ handle \in Handles /\ handle.got \in Contents /\ b \in Contents
      /\ handle.versions \subseteq Contents
  BY <1>1, OpenFacts
<1>3. /\ more \in Contents
      /\ \A v \in Contents : Reads(v, b, handle.got) => Reads(v, b, more)
  <2>1. b \in handle.versions
    BY <1>1 DEF IInv, ReadingInv
  <2>2. \A v \in Contents : Reads(v, b, handle.got) => more \in Contents /\ Reads(v, b, more)
    <3> HIDE DEF b
    <3> QED BY <1>1, <1>2, ReadsMore
  <2>3. more \in Contents
    <3> DEFINE n == Len(handle.got)
    <3> HIDE DEF b
    <3>1. /\ handle.got \in Seq(Blocks) /\ n \in Nat
          /\ Len(b) \in Nat /\ Len(b) <= MaxBlocks /\ DOMAIN b = 1 .. Len(b)
          /\ \A k \in DOMAIN b : b[k] \in Blocks
      BY <1>2, ContentsAre
    <3>2. n + 1 \in DOMAIN b /\ n + 1 <= MaxBlocks
      BY <1>1, <3>1, FileScanConstants
    <3>3. more \in Seq(Blocks) /\ Len(more) = n + 1
      BY <3>1, <3>2, AppendProperties
    <3> QED BY <3>2, <3>3, ContentsAre
  <2> QED BY <2>2, <2>3
<1> HIDE DEF more
<1>4. /\ handle' \in Handles /\ handle'.file = handle.file /\ handle'.own = handle.own
      /\ handle'.got = more /\ handle'.versions = handle.versions
      /\ handle'.inPlace = handle.inPlace
  BY <1>1, <1>2, <1>3 DEF Handles
<1>5. Current' = Current /\ disk' = disk /\ Behind(handle)' = b
  BY <1>1, <1>4 DEF Current, outside, Behind
<1>6. HandleInv'
  BY <1>1, <1>2, <1>4, <1>5 DEF IInv, HandleInv
<1>7. ReadingInv'
  <2> HIDE DEF b
  <2>1. /\ b \in handle.versions
        /\ handle.inPlace = 0 => Reads(b, b, handle.got)
        /\ handle.inPlace = 1 => \E v \in handle.versions : Reads(v, b, handle.got)
    BY <1>1 DEF IInv, ReadingInv, b
  <2> QED BY <1>2, <1>3, <1>4, <1>5, <2>1 DEF ReadingInv
<1> QED BY <1>1, <1>4, <1>6, <1>7, HashFrame DEF IInv

-----------------------------------------------------------------------------
(***************************************************************************)
(* Everyone else.                                                          *)
(***************************************************************************)

\* What a change outside leaves alone in the scan.
LEMMA ChangeFrame ==
  ASSUME IInv, NEW things, Change(things)
  PROVE  /\ pc \notin {"done", "raised"}
         /\ WalkInv' /\ ListingInv' /\ DigestInv'
         /\ GroupsFromWalk' /\ GroupsOnce' /\ GroupsAll' /\ GroupsTogether'
         /\ touched' = touched \cup things /\ changes' \in 0 .. MaxChanges
         /\ UNCHANGED <<pc, trust, walk, visit, listing, pending, blob, found, groups, at>>
         /\ Current' = Current
<1>1. /\ pc \notin {"done", "raised"} /\ changes < MaxChanges /\ changes' = changes + 1
      /\ touched' = touched \cup things
      /\ UNCHANGED <<pc, trust, walk, visit, listing, pending, blob, found, groups, at>>
  BY DEF Change, walking
<1>2. touched \subseteq touched'
  BY <1>1
<1>3. changes' \in 0 .. MaxChanges
  BY <1>1, FileScanConstants DEF IInv, Types
<1>4. WalkInv' /\ ListingInv' /\ DigestInv'
  BY <1>1, <1>2, WalkKept, ListingKept, DigestsKept DEF IInv
<1>5. GroupsFromWalk' /\ GroupsOnce' /\ GroupsAll' /\ GroupsTogether'
  BY <1>1, <1>2, SameGroups, GroupsKept DEF IInv
<1>6. Current' = Current
  BY <1>1 DEF Current
<1> QED BY <1>1, <1>3, <1>4, <1>5, <1>6

\* The open file is not concerned.
LEMMA HandleKept ==
  ASSUME IInv, UNCHANGED <<pc, trust, handle>>, Current' = Current,
         handle.file # NoFile /\ handle.own = Missing => disk'[handle.file] = disk[handle.file]
  PROVE  HandleInv' /\ ReadingInv'
<1>1. ASSUME handle.file # NoFile PROVE Behind(handle)' = Behind(handle)
  BY <1>1 DEF Behind
<1>2. HandleInv'
  BY DEF IInv, HandleInv
<1>3. ReadingInv'
  BY <1>1 DEF IInv, ReadingInv
<1> QED BY <1>2, <1>3

\* A first change in place leaves what was read a part of the version before or
\* after it.
LEMMA WriteInPlaceStep ==
  ASSUME IInv, NEW f \in Files, WriteInPlace(f)
  PROVE  IInv'
<1>1. /\ Change({f}) /\ disk[f] # Missing /\ UNCHANGED <<links, dirs, manifest>>
  BY DEF WriteInPlace
<1>2. PICK new \in Contents :
        /\ OneBlockApart(disk[f], new)
        /\ disk' = [disk EXCEPT ![f] = new]
        /\ handle' = IF handle.file = f /\ handle.own = Missing
                     THEN [handle EXCEPT !.versions = @ \cup {new}, !.inPlace = @ + 1]
                     ELSE handle
  BY DEF WriteInPlace
<1>3. /\ pc \notin {"done", "raised"}
      /\ WalkInv' /\ ListingInv' /\ DigestInv'
      /\ GroupsFromWalk' /\ GroupsOnce' /\ GroupsAll' /\ GroupsTogether'
      /\ touched' = touched \cup {f} /\ changes' \in 0 .. MaxChanges
      /\ UNCHANGED <<pc, trust, walk, visit, listing, pending, blob, found, groups, at>>
      /\ Current' = Current
  BY <1>1, ChangeFrame
<1>4. disk \in [Files -> Contents \cup {Missing}] /\ handle \in Handles
  BY DEF IInv, Types
<1>5. /\ disk' \in [Files -> Contents \cup {Missing}] /\ disk'[f] = new
      /\ \A g \in Files : g # f => disk'[g] = disk[g]
  BY <1>2, <1>4
<1>6. StartInv'
  BY <1>1, <1>3, <1>5 DEF IInv, StartInv
<1>7. handle' \in Handles /\ HandleInv' /\ ReadingInv'
  <2>1. CASE handle.file = f /\ handle.own = Missing
    <3> DEFINE b == disk[f]
    <3>1. handle.file # NoFile /\ Behind(handle) = b
      BY <2>1, FileScanConstants DEF Behind
    <3>2. /\ handle' \in Handles /\ handle'.file = f /\ handle'.own = Missing
          /\ handle'.got = handle.got /\ handle'.versions = handle.versions \cup {new}
          /\ handle'.inPlace = handle.inPlace + 1 /\ handle.inPlace \in Nat
      <4> DEFINE vs == handle.versions \cup {new}
                 np == handle.inPlace + 1
      <4>1. handle' = [handle EXCEPT !.versions = vs, !.inPlace = np]
        BY <1>2, <2>1
      <4>2. handle.inPlace \in Nat /\ handle.versions \in SUBSET Contents
        BY <1>4 DEF Handles
      <4>3. np \in Nat /\ vs \in SUBSET Contents
        BY <4>2
      <4> HIDE DEF vs, np
      <4>4. handle' \in Handles
        BY <1>4, <4>1, <4>3 DEF Handles
      <4>5. /\ handle'.file = handle.file /\ handle'.own = handle.own
            /\ handle'.got = handle.got /\ handle'.versions = vs /\ handle'.inPlace = np
        BY <1>4, <4>1 DEF Handles
      <4> QED BY <2>1, <4>2, <4>4, <4>5 DEF vs, np
    <3>3. Behind(handle)' = new
      BY <1>5, <3>2 DEF Behind
    <3>4. new # Missing
      BY FileScanConstants
    <3>5. HandleInv'
      BY <1>3, <1>5, <2>1, <3>1, <3>2, <3>4 DEF IInv, HandleInv
    <3>6. /\ b \in Contents /\ b \in handle.versions /\ handle.got \in Contents
          /\ handle.inPlace = 0 => Reads(b, b, handle.got)
      BY <3>1, OpenFacts DEF IInv, ReadingInv
    <3> HIDE DEF b
    <3>7. handle'.inPlace # 0 /\ (handle'.inPlace = 1 => handle.inPlace = 0)
      BY <3>2
    <3>8. handle.inPlace = 0 => Reads(b, new, handle.got) \/ Reads(new, new, handle.got)
      BY <1>2, <3>6, ReadsChanged DEF b
    <3>9. handle'.inPlace = 1 => \E v \in handle'.versions : Reads(v, new, handle'.got)
      BY <3>2, <3>6, <3>7, <3>8
    <3>10. ReadingInv'
      BY <3>2, <3>3, <3>7, <3>9 DEF ReadingInv
    <3> QED BY <3>2, <3>5, <3>10
  <2>2. CASE ~(handle.file = f /\ handle.own = Missing)
    <3>1. handle' = handle
      BY <1>2, <2>2
    <3>2. handle.file # NoFile /\ handle.own = Missing => disk'[handle.file] = disk[handle.file]
      BY <1>4, <1>5, <2>2 DEF Handles
    <3> QED BY <1>3, <1>4, <3>1, <3>2, HandleKept
  <2> QED BY <2>1, <2>2
<1>8. Types'
  BY <1>1, <1>3, <1>5, <1>7 DEF IInv, Types
<1> QED BY <1>3, <1>6, <1>7, <1>8 DEF IInv

\* A new file under the name leaves the open one as it was.
LEMMA RenameOverStep ==
  ASSUME IInv, NEW f \in Files, RenameOver(f)
  PROVE  IInv'
<1>1. Change({f}) /\ UNCHANGED <<links, dirs, manifest>> /\ handle' = Unlinked(f)
  BY DEF RenameOver
<1>2. PICK new \in (Versions[f] \cup {Missing}) \ {disk[f]} : disk' = [disk EXCEPT ![f] = new]
  BY DEF RenameOver
<1>3. /\ pc \notin {"done", "raised"}
      /\ WalkInv' /\ ListingInv' /\ DigestInv'
      /\ GroupsFromWalk' /\ GroupsOnce' /\ GroupsAll' /\ GroupsTogether'
      /\ touched' = touched \cup {f} /\ changes' \in 0 .. MaxChanges
      /\ UNCHANGED <<pc, trust, walk, visit, listing, pending, blob, found, groups, at>>
      /\ Current' = Current
  BY <1>1, ChangeFrame
<1>4. disk \in [Files -> Contents \cup {Missing}] /\ handle \in Handles
  BY DEF IInv, Types
<1>5. /\ disk' \in [Files -> Contents \cup {Missing}]
      /\ \A g \in Files : g # f => disk'[g] = disk[g]
  <2>1. new \in Contents \cup {Missing}
    BY <1>2, FileScanConstants
  <2> QED BY <1>2, <1>4, <2>1
<1>6. StartInv'
  BY <1>1, <1>3, <1>5 DEF IInv, StartInv
<1>7. handle' \in Handles /\ HandleInv' /\ ReadingInv'
  <2>1. CASE handle.file = f /\ handle.own = Missing
    <3>1. handle.file # NoFile /\ disk[f] # Missing
      BY <2>1, FileScanConstants DEF IInv, HandleInv
    <3>2. handle' = [handle EXCEPT !.own = disk[f]] /\ disk[f] \in Contents
      BY <1>1, <1>4, <2>1, <3>1 DEF Unlinked
    <3>3. /\ handle' \in Handles /\ handle'.file = f /\ handle'.own = disk[f]
          /\ handle'.got = handle.got /\ handle'.versions = handle.versions
          /\ handle'.inPlace = handle.inPlace
      BY <1>4, <2>1, <3>2 DEF Handles
    <3>4. Behind(handle)' = disk[f] /\ Behind(handle) = disk[f]
      BY <2>1, <3>1, <3>3 DEF Behind
    <3>5. HandleInv'
      BY <1>3, <2>1, <3>1, <3>3 DEF IInv, HandleInv
    <3>6. ReadingInv'
      BY <3>1, <3>3, <3>4 DEF IInv, ReadingInv
    <3> QED BY <3>3, <3>5, <3>6
  <2>2. CASE ~(handle.file = f /\ handle.own = Missing)
    <3>1. handle' = handle
      BY <1>1, <2>2 DEF Unlinked
    <3>2. handle.file # NoFile /\ handle.own = Missing => disk'[handle.file] = disk[handle.file]
      BY <1>4, <1>5, <2>2 DEF Handles
    <3> QED BY <1>3, <1>4, <3>1, <3>2, HandleKept
  <2> QED BY <2>1, <2>2
<1>8. Types'
  BY <1>1, <1>3, <1>5, <1>7 DEF IInv, Types
<1> QED BY <1>3, <1>6, <1>7, <1>8 DEF IInv

\* A change of links, directories or manifests.
LEMMA TreeStep ==
  ASSUME IInv, NEW things, Change(things), UNCHANGED <<disk, handle>>,
         links' \subseteq Links, dirs' \subseteq Snapshots,
         manifest' \in [Tags -> DOMAIN NamedDigest \cup {Missing, Garbled}],
         StartInv'
  PROVE  IInv'
<1>1. /\ WalkInv' /\ ListingInv' /\ DigestInv'
      /\ GroupsFromWalk' /\ GroupsOnce' /\ GroupsAll' /\ GroupsTogether'
      /\ changes' \in 0 .. MaxChanges /\ Current' = Current
      /\ UNCHANGED <<pc, trust, walk, visit, listing, pending, blob, found, groups, at>>
  BY ChangeFrame
<1>2. HandleInv' /\ ReadingInv'
  BY <1>1, HandleKept
<1>3. Types'
  BY <1>1 DEF IInv, Types
<1> QED BY <1>1, <1>2, <1>3 DEF IInv

\* A link that comes or goes is touched.
LEMMA ChangeLinkStep ==
  ASSUME IInv, NEW e \in Links, ChangeLink(e)
  PROVE  IInv'
<1>1. /\ Change({e}) /\ UNCHANGED <<disk, dirs, manifest, handle>>
      /\ links' = IF e \in links THEN links \ {e} ELSE links \cup {e}
  BY DEF ChangeLink
<1>2. touched' = touched \cup {e}
  BY <1>1, ChangeFrame
<1>3. StartInv'
  BY <1>1, <1>2 DEF IInv, StartInv
<1>4. /\ links' \subseteq Links /\ dirs' \subseteq Snapshots
      /\ manifest' \in [Tags -> DOMAIN NamedDigest \cup {Missing, Garbled}]
  BY <1>1 DEF IInv, Types
<1> QED BY <1>1, <1>3, <1>4, TreeStep

\* A snapshot that is removed takes its entries out of what nobody touched.
LEMMA RemoveDirStep ==
  ASSUME IInv, NEW d \in Snapshots, RemoveDir(d)
  PROVE  IInv'
<1> DEFINE gone == {e \in Links : Entry[e].dir = d}
<1>1. /\ Change(gone) /\ UNCHANGED <<disk, manifest, handle>>
      /\ dirs' = dirs \ {d} /\ links' = {e \in links : Entry[e].dir # d}
  BY DEF RemoveDir
<1>2. touched' = touched \cup gone
  BY <1>1, ChangeFrame
<1>3. StartInv'
  <2>1. \A e \in Links \ touched' : e \in links'
    BY <1>1, <1>2 DEF IInv, StartInv
  <2>2. \A e \in Entries : Entry[e].dir \in Snapshots \ dirs' => e \in touched'
    BY <1>1, <1>2, EntryFacts DEF IInv, StartInv
  <2> QED BY <1>1, <1>2, <2>1, <2>2 DEF IInv, StartInv
<1>4. /\ links' \subseteq Links /\ dirs' \subseteq Snapshots
      /\ manifest' \in [Tags -> DOMAIN NamedDigest \cup {Missing, Garbled}]
  BY <1>1 DEF IInv, Types
<1> HIDE DEF gone
<1> QED BY <1>1, <1>3, <1>4, TreeStep

\* A tag that moves is touched.
LEMMA RetagStep ==
  ASSUME IInv, NEW t \in Tags, Retag(t)
  PROVE  IInv'
<1>1. Change({t}) /\ UNCHANGED <<disk, links, dirs, handle>>
  BY DEF Retag
<1>2. PICK new \in (DOMAIN NamedDigest \cup {Missing, Garbled}) \ {manifest[t]} :
        manifest' = [manifest EXCEPT ![t] = new]
  BY DEF Retag
<1>3. manifest \in [Tags -> DOMAIN NamedDigest \cup {Missing, Garbled}]
  BY DEF IInv, Types
<1>4. /\ manifest' \in [Tags -> DOMAIN NamedDigest \cup {Missing, Garbled}]
      /\ \A u \in Tags : u # t => manifest'[u] = manifest[u]
  BY <1>2, <1>3
<1>5. touched' = touched \cup {t}
  BY <1>1, ChangeFrame
<1>6. StartInv'
  BY <1>1, <1>4, <1>5 DEF IInv, StartInv
<1>7. links' \subseteq Links /\ dirs' \subseteq Snapshots
  BY <1>1 DEF IInv, Types
<1> QED BY <1>1, <1>4, <1>6, <1>7, TreeStep

-----------------------------------------------------------------------------
(***************************************************************************)
(* The invariant, and what follows from it.                                *)
(***************************************************************************)
LEMMA ScanningStep ==
  ASSUME IInv, Step
  PROVE  IInv'
<1>1. CASE VisitDir
  BY <1>1, VisitDirStep
<1>2. CASE ListSnapshot
  BY <1>2, ListSnapshotStep
<1>3. CASE StatEntry
  BY <1>3, StatEntryStep
<1>4. CASE ReadManifest
  BY <1>4, ReadManifestStep
<1>5. CASE FindBlob
  BY <1>5, FindBlobStep
<1>6. CASE YieldGroups
  BY <1>6, YieldGroupsStep
<1>7. CASE EndDiscovery
  BY <1>7, EndDiscoveryStep
<1>8. CASE TakeName
  BY <1>8, TakeNameStep
<1>9. CASE OpenFile
  BY <1>9, OpenFileStep
<1>10. CASE OpenFails
  BY <1>10, OpenFailsStep
<1>11. CASE ReadBlock
  BY <1>11, ReadBlockStep
<1>12. CASE FinishFile
  BY <1>12, FinishFileStep
<1>13. CASE ReadFails
  BY <1>13, ReadFailsStep
<1> QED BY <1>1, <1>2, <1>3, <1>4, <1>5, <1>6, <1>7, <1>8, <1>9, <1>10, <1>11,
           <1>12, <1>13 DEF Step

\* Whatever others do keeps the invariant.
LEMMA OthersStep ==
  ASSUME IInv, Environment
  PROVE  IInv'
<1>1. CASE \E f \in FilesInWalk : WriteInPlace(f) \/ RenameOver(f)
  <2>1. FilesInWalk \subseteq Files
    BY EntryFacts, FileScanConstants DEF FilesInWalk, EntriesInWalk
  <2>2. PICK f \in Files : WriteInPlace(f) \/ RenameOver(f)
    BY <1>1, <2>1
  <2> QED BY <2>2, WriteInPlaceStep, RenameOverStep
<1>2. CASE \E e \in Links \cap EntriesInWalk : ChangeLink(e)
  BY <1>2, ChangeLinkStep
<1>3. CASE \E d \in {Entry[e].dir : e \in EntriesInWalk} \cap Snapshots : RemoveDir(d)
  BY <1>3, RemoveDirStep
<1>4. CASE \E t \in Tags \cap EntriesInWalk : Retag(t)
  BY <1>4, RetagStep
<1> QED BY <1>1, <1>2, <1>3, <1>4 DEF Environment

\* A stutter keeps the invariant.
LEMMA NothingHappens ==
  ASSUME IInv, UNCHANGED vars
  PROVE  IInv'
<1>1. /\ UNCHANGED <<pc, trust, walking, groups, at, handle, outside>>
      /\ UNCHANGED <<disk, links, dirs, manifest, changes, touched>>
  BY DEF vars, scanner, outside
<1>2. handle' \in Handles /\ HandleInv' /\ ReadingInv'
  BY <1>1, HandleKept, HashFrame DEF IInv, Types, HandleInv, ReadingInv, Behind, Current
<1> QED BY <1>1, <1>2, HashFrame DEF IInv

(***************************************************************************)
(* The inductive invariant of a scan of a tree that others change: what is *)
(* listed is in the directory, what nobody touched is kept through every   *)
(* list, no list names anything twice, the groups are those of the walks   *)
(* made, and what was read of the open file is one version of it.          *)
(***************************************************************************)
THEOREM ScanInvariant == Spec => []IInv
<1>1. Init => IInv
  BY Initially
<1>2. IInv /\ [Next]_vars => IInv'
  BY ScanningStep, OthersStep, NothingHappens DEF Next
<1> QED BY <1>1, <1>2, PTL DEF Spec

(***************************************************************************)
(* The state of a scan between two steps of discovery or hashing is well   *)
(* formed: no group is empty, a snapshot group has several files, and      *)
(* hashing is always at an artifact there is (cli.scan steps 1 and 2).     *)
(***************************************************************************)
THEOREM ScanIsWellFormed == Spec => []TypeOK
<1>1. IInv => TypeOK
  <2> SUFFICES ASSUME IInv PROVE TypeOK
    OBVIOUS
  <2>1. \A i \in DOMAIN pending : pending[i] \in listing
    <3>1. pending \in Seq(listing)
      BY DEF IInv, Types
    <3> QED BY <3>1, LenProperties, ElementOfSeq
  <2>2. blob \in Files \cup {Missing}
        /\ manifest \in [Tags -> Files \cup {Missing, Garbled}]
    BY FileScanConstants DEF IInv, Types
  <2>3. groups \in Seq(ModelGroups)
    BY DEF IInv, Types
  <2>4. \A g \in DOMAIN groups :
          /\ groups[g].artifacts # <<>>
          /\ groups[g].kind = "hf_snapshot" => Len(groups[g].artifacts) > 1
          /\ \A i \in DOMAIN groups[g].artifacts : groups[g].artifacts[i] \in Artifacts
    BY <2>3, GroupLists
  <2>5. \A a \in Artifacts : /\ a.entry \in Entries /\ a.file \in Files
                             /\ a.digest \in Contents \cup {NoDigest}
    BY DEF Artifacts
  <2>6. pc = "hash" => at[1] \in DOMAIN groups /\ at[2] \in DOMAIN groups[at[1]].artifacts
    BY DEF IInv, DigestInv
  <2>7. handle.file \in Files \cup {NoFile} /\ handle.got \in Contents
    BY DEF IInv, Types, Handles
  <2>8. /\ pc \in {"visit", "list", "stat", "blob", "hash", "done", "raised"}
        /\ trust \in BOOLEAN
        /\ walk \in Walks /\ visit \in 1 .. Len(walk) + 1
        /\ listing \subseteq Entries
        /\ disk \in [Files -> Contents \cup {Missing}]
        /\ links \subseteq Links /\ dirs \subseteq Snapshots
        /\ changes \in 0 .. MaxChanges
    BY DEF IInv, Types, Discovering
  <2>9. \A g \in DOMAIN groups :
          /\ groups[g].artifacts # <<>>
          /\ groups[g].kind = "hf_snapshot" => Len(groups[g].artifacts) > 1
          /\ \A i \in DOMAIN groups[g].artifacts :
               LET a == groups[g].artifacts[i]
               IN  /\ a.entry \in Entries /\ a.file \in Files
                   /\ a.digest \in Contents \cup {NoDigest}
    BY <2>4, <2>5
  <2> QED BY <2>1, <2>2, <2>6, <2>7, <2>8, <2>9 DEF TypeOK
<1> QED BY <1>1, ScanInvariant, PTL

-----------------------------------------------------------------------------
(***************************************************************************)
(* The groups, when discovery is over.                                     *)
(***************************************************************************)

\* The places of an entry, without the union.
LEMMA PlacesAre ==
  ASSUME NEW e, NEW p
  PROVE  p \in Places(e) <=>
           \E g \in DOMAIN groups : \E i \in DOMAIN groups[g].artifacts :
             p = <<g, i>> /\ EntryAt(g, i) = e
BY DEF Places, EntryAt

\* After discovery every directory of the walk is behind.
LEMMA AllWasWalked ==
  ASSUME IInv, Discovered
  PROVE  1 .. visit - 1 = DOMAIN walk
<1>1. visit = Len(walk) + 1
  BY DEF IInv, WalkInv, Discovered
<1>2. Len(walk) \in Nat /\ DOMAIN walk = 1 .. Len(walk)
  BY WalkFacts DEF IInv
<1>3. visit - 1 = Len(walk)
  BY <1>1, <1>2
<1> QED BY <1>2, <1>3

(***************************************************************************)
(* "Every recognized local artifact maps to exactly one group"             *)
(* (models.py): whatever others do to the tree while it is walked, no      *)
(* entry is in two places, and a weights file that nobody touched is in    *)
(* one, though the path and Hugging Face adapters pass through one tree.   *)
(***************************************************************************)
THEOREM AlwaysGroupedExactlyOnce == Spec => []GroupedExactlyOnce
<1>1. IInv => GroupedExactlyOnce
  <2> SUFFICES ASSUME IInv, Discovered, NEW e \in Entries
               PROVE  /\ Cardinality(Places(e)) <= 1
                      /\ Expected(e) /\ Stayed(e) => Cardinality(Places(e)) = 1
    BY DEF GroupedExactlyOnce
  <2>1. ASSUME NEW p \in Places(e), NEW q \in Places(e)
        PROVE  p = q
    <3>1. PICK g \in DOMAIN groups :
            \E i \in DOMAIN groups[g].artifacts : p = <<g, i>> /\ EntryAt(g, i) = e
      BY PlacesAre
    <3>2. PICK i \in DOMAIN groups[g].artifacts : p = <<g, i>> /\ EntryAt(g, i) = e
      BY <3>1
    <3>3. PICK h \in DOMAIN groups :
            \E j \in DOMAIN groups[h].artifacts : q = <<h, j>> /\ EntryAt(h, j) = e
      BY PlacesAre
    <3>4. PICK j \in DOMAIN groups[h].artifacts : q = <<h, j>> /\ EntryAt(h, j) = e
      BY <3>3
    <3>5. g = h /\ i = j
      BY <3>2, <3>4 DEF IInv, GroupsOnce
    <3> QED BY <3>2, <3>4, <3>5
  <2>2. Places(e) = {} => Cardinality(Places(e)) = 0
    BY FS_EmptySet
  <2>3. Places(e) # {} => Cardinality(Places(e)) = 1
    <3> SUFFICES ASSUME NEW p \in Places(e) PROVE Cardinality(Places(e)) = 1
      OBVIOUS
    <3>1. Places(e) = {p}
      BY <2>1
    <3> QED BY <3>1, FS_Singleton
  <2>3a. Cardinality(Places(e)) <= 1
    BY <2>2, <2>3
  <2>4. ASSUME Expected(e), Stayed(e)
        PROVE  Places(e) # {}
    <3>1. PICK j \in DOMAIN walk :
            /\ walk[j].dir = Entry[e].dir
            /\ walk[j].dir \in Snapshots => walk[j].adapter = "hf_cache"
            /\ IsWeights(walk[j].adapter, e)
      BY <2>4 DEF Expected
    <3>2. Takes(j, e)
      BY <3>1 DEF Takes, Descends
    <3>3. AsAtStart(e)
      BY <2>4, StayedIsAsAtStart DEF IInv
    <3>4. IsGrouped(e)
      BY <3>2, <3>3, AllWasWalked DEF IInv, GroupsAll
    <3>5. PICK g \in DOMAIN groups : \E i \in DOMAIN groups[g].artifacts : EntryAt(g, i) = e
      BY <3>4 DEF IsGrouped
    <3>6. PICK i \in DOMAIN groups[g].artifacts : EntryAt(g, i) = e
      BY <3>5
    <3>7. <<g, i>> \in Places(e)
      BY <3>6, PlacesAre
    <3> QED BY <3>7
  <2> QED BY <2>3, <2>3a, <2>4
<1> QED BY <1>1, ScanInvariant, PTL

\* What the path adapter walked by is grouped by it.
LEMMA PathGroupsLooseFiles ==
  ASSUME IInv, Discovered, NEW x \in Entries, Entry[x].dir \notin Snapshots, InPathWalk(x),
         NEW g \in DOMAIN groups, NEW i \in DOMAIN groups[g].artifacts, EntryAt(g, i) = x
  PROVE  groups[g].source = "path"
<1>1. PICK k \in DOMAIN walk : walk[k] = [adapter |-> "path", dir |-> Entry[x].dir]
  BY DEF InPathWalk
<1>2. PICK j \in 1 .. visit - 1 :
        /\ walk[j].dir = Entry[x].dir
        /\ Descends(walk[j])
        /\ groups[g].source = walk[j].adapter
  BY DEF IInv, GroupsFromWalk
<1>3. j \in DOMAIN walk
  BY AllWasWalked
<1>4. walk[k].adapter = "path" /\ walk[k].dir = Entry[x].dir
  BY <1>1
<1>5. Descends(walk[k])
  BY <1>4 DEF Descends
<1>6. j = k
  BY <1>2, <1>3, <1>4, <1>5, WalkFacts DEF IInv
<1> QED BY <1>2, <1>4, <1>6

(***************************************************************************)
(* Two loose files are in one group exactly if they are shards of one set  *)
(* in one directory, whichever of the set vanished between the listing and *)
(* the stat (_groups_in_one_directory).                                    *)
(***************************************************************************)
THEOREM ShardsAlwaysStayTogether == Spec => []ShardsStayTogether
<1>1. IInv => ShardsStayTogether
  <2> DEFINE Loose(e, f) ==
               /\ e # f
               /\ \A x \in {e, f} : /\ Entry[x].dir \notin Snapshots
                                  /\ InPathWalk(x) /\ Places(x) # {}
             Together(e, f) == \E p \in Places(e), q \in Places(f) : p[1] = q[1]
             OneSet(e, f) == /\ Entry[e].dir = Entry[f].dir
                             /\ Entry[e].shard = Entry[f].shard
                             /\ Entry[e].shard # NoShard
                             /\ {Entry[e].hint, Entry[f].hint} = {"safetensors"}
  <2>a. ShardsStayTogether <=>
          ( Discovered => \A e, f \in Entries \ Tags :
              Loose(e, f) => (Together(e, f) <=> OneSet(e, f)) )
    BY Zenon DEF ShardsStayTogether
  <2> SUFFICES ASSUME IInv, Discovered, NEW e \in Entries \ Tags, NEW f \in Entries \ Tags,
                      Loose(e, f)
               PROVE  Together(e, f) <=> OneSet(e, f)
    <3> HIDE DEF Loose, Together, OneSet
    <3> QED BY <2>a
  <2>0. /\ e # f /\ InPathWalk(e) /\ InPathWalk(f)
        /\ Entry[e].dir \notin Snapshots /\ Entry[f].dir \notin Snapshots
        /\ Places(e) # {} /\ Places(f) # {}
    OBVIOUS
  <2>1. ASSUME NEW g \in DOMAIN groups, NEW i \in DOMAIN groups[g].artifacts,
               NEW h \in DOMAIN groups, NEW j \in DOMAIN groups[h].artifacts,
               EntryAt(g, i) = e, EntryAt(h, j) = f
        PROVE  g = h <=> SameShardSet(e, f) /\ Entry[e].dir = Entry[f].dir
    <3>1. groups[g].source = "path" /\ groups[h].source = "path"
      BY <2>0, <2>1, PathGroupsLooseFiles
    <3> QED BY <2>0, <2>1, <3>1 DEF IInv, GroupsTogether
  <2>2. PICK p \in Places(e) : TRUE
    BY <2>0
  <2>3. PICK g \in DOMAIN groups :
          \E i \in DOMAIN groups[g].artifacts : p = <<g, i>> /\ EntryAt(g, i) = e
    BY <2>2, PlacesAre
  <2>4. PICK i \in DOMAIN groups[g].artifacts : p = <<g, i>> /\ EntryAt(g, i) = e
    BY <2>3
  <2>5. PICK q \in Places(f) : TRUE
    BY <2>0
  <2>6. PICK h \in DOMAIN groups :
          \E j \in DOMAIN groups[h].artifacts : q = <<h, j>> /\ EntryAt(h, j) = f
    BY <2>5, PlacesAre
  <2>7. PICK j \in DOMAIN groups[h].artifacts : q = <<h, j>> /\ EntryAt(h, j) = f
    BY <2>6
  <2>8. p[1] = g /\ q[1] = h
    BY <2>4, <2>7
  <2>9. (\E r \in Places(e), s \in Places(f) : r[1] = s[1])
          => SameShardSet(e, f) /\ Entry[e].dir = Entry[f].dir
    <3> SUFFICES ASSUME NEW r \in Places(e), NEW s \in Places(f), r[1] = s[1]
                 PROVE  SameShardSet(e, f) /\ Entry[e].dir = Entry[f].dir
      OBVIOUS
    <3>1. PICK a \in DOMAIN groups :
            \E b \in DOMAIN groups[a].artifacts : r = <<a, b>> /\ EntryAt(a, b) = e
      BY PlacesAre
    <3>2. PICK b \in DOMAIN groups[a].artifacts : r = <<a, b>> /\ EntryAt(a, b) = e
      BY <3>1
    <3>3. PICK c \in DOMAIN groups :
            \E d \in DOMAIN groups[c].artifacts : s = <<c, d>> /\ EntryAt(c, d) = f
      BY PlacesAre
    <3>4. PICK d \in DOMAIN groups[c].artifacts : s = <<c, d>> /\ EntryAt(c, d) = f
      BY <3>3
    <3>5. a = c
      BY <3>2, <3>4
    <3> QED BY <2>1, <3>2, <3>4, <3>5
  <2>10. SameShardSet(e, f) /\ Entry[e].dir = Entry[f].dir
           => \E r \in Places(e), s \in Places(f) : r[1] = s[1]
    BY <2>1, <2>4, <2>7, <2>8
  <2> QED BY <2>9, <2>10 DEF SameShardSet
<1> QED BY <1>1, ScanInvariant, PTL

-----------------------------------------------------------------------------
(***************************************************************************)
(* Hashing.                                                                *)
(***************************************************************************)

\* Only the end of a file and a read error close it.
LEMMA FileClosed ==
  ASSUME IInv, Next, handle.file # NoFile, handle'.file = NoFile
  PROVE  FinishFile \/ ReadFails
<1>1. pc = "hash" /\ handle # Closed
  BY OpenFacts DEF Closed
<1>2. CASE Step
  <2>1. ~VisitDir /\ ~ListSnapshot /\ ~StatEntry /\ ~ReadManifest /\ ~FindBlob
        /\ ~YieldGroups /\ ~EndDiscovery
    BY <1>1 DEF VisitDir, ListSnapshot, StatEntry, ReadManifest, FindBlob,
                YieldGroups, EndDiscovery
  <2>2. ~TakeName /\ ~OpenFile /\ ~OpenFails
    BY <1>1 DEF TakeName, OpenFile, OpenFails
  <2>3. ~ReadBlock
    BY DEF ReadBlock, IInv, Types, Handles
  <2> QED BY <1>2, <2>1, <2>2, <2>3 DEF Step
<1>3. CASE Environment
  <2>1. handle \in Handles
    BY DEF IInv, Types
  <2>2. \A f : WriteInPlace(f) => handle'.file = handle.file
    BY <2>1 DEF WriteInPlace, Handles
  <2>3. \A f : RenameOver(f) => handle'.file = handle.file
    BY <2>1 DEF RenameOver, Unlinked, Handles
  <2>4. \A x : ChangeLink(x) \/ RemoveDir(x) \/ Retag(x) => handle' = handle
    BY DEF ChangeLink, RemoveDir, Retag
  <2> QED BY <1>3, <2>2, <2>3, <2>4 DEF Environment
<1> QED BY <1>2, <1>3 DEF Next

(***************************************************************************)
(* The digest of a file is the digest of one version of it that lay there  *)
(* while it was read, however the name was reused meanwhile, as long as at *)
(* most one block was changed in place (hash_file).                        *)
(***************************************************************************)
THEOREM DigestIsAlwaysOfAVersion == Spec => DigestOfAVersion
<1> DEFINE A == (handle.file # NoFile /\ handle'.file = NoFile) =>
                  LET d == groups'[at[1]].artifacts[at[2]].digest
                  IN  d = NoDigest \/ handle.inPlace > 1 \/ d \in handle.versions
<1>1. IInv /\ [Next]_vars => A
  <2> SUFFICES ASSUME IInv, [Next]_vars, handle.file # NoFile, handle'.file = NoFile
               PROVE  LET d == groups'[at[1]].artifacts[at[2]].digest
                      IN  d = NoDigest \/ handle.inPlace > 1 \/ d \in handle.versions
    OBVIOUS
  <2>1. Next
    BY DEF vars, scanner
  <2>2. pc = "hash" /\ Types /\ AtInGroups /\ handle.got \in Contents
    BY OpenFacts DEF IInv, DigestInv, AtInGroups
  <2> DEFINE d == groups'[at[1]].artifacts[at[2]].digest
  <2>3. CASE ReadFails
    <3>1. Settle(NoDigest)
      BY <2>3 DEF ReadFails
    <3>2. d = NoDigest
      BY <2>2, <3>1, Settled
    <3> QED BY <3>2
  <2>4. CASE FinishFile
    <3>1. Settle(handle.got) /\ Len(handle.got) >= Len(Behind(handle))
      BY <2>4 DEF FinishFile
    <3>2. d = handle.got
      BY <2>2, <3>1, Settled
    <3>3. /\ Behind(handle) \in Contents /\ handle.versions \subseteq Contents
          /\ handle.inPlace \in Nat
      BY OpenFacts
    <3>4. /\ Behind(handle) \in handle.versions
          /\ handle.inPlace = 0 => Reads(Behind(handle), Behind(handle), handle.got)
          /\ handle.inPlace = 1 =>
               \E v \in handle.versions : Reads(v, Behind(handle), handle.got)
      BY DEF IInv, ReadingInv
    <3>5. \A v \in handle.versions : Reads(v, Behind(handle), handle.got) => handle.got = v
      BY <2>2, <3>1, <3>3, ReadsAll
    <3>6. handle.inPlace \in {0, 1} => d \in handle.versions
      BY <3>2, <3>4, <3>5
    <3>7. handle.inPlace \in {0, 1} \/ handle.inPlace > 1
      BY <3>3
    <3> HIDE DEF d
    <3> QED BY <3>6, <3>7 DEF d
  <2> QED BY <2>1, <2>3, <2>4, FileClosed
<1> QED BY <1>1, ScanInvariant, PTL DEF Spec, DigestOfAVersion

-----------------------------------------------------------------------------
(***************************************************************************)
(* The refinement.                                                         *)
(***************************************************************************)
LEMMA Stages ==
  /\ pc \in Discovering => Stage = "discover" /\ DigestsSoFar = <<>>
  /\ (pc \in Discovering => Stage = "discover" /\ DigestsSoFar = <<>>)'
  /\ pc = "hash" => Stage = "hash"
  /\ pc' = "hash" => Stage' = "hash"
  /\ pc' = "done" => Stage' = "hashed"
  /\ pc' = "raised" => Stage' = "raised" /\ DigestsSoFar' = <<>>
  /\ pc' = pc /\ groups' = groups => Stage' = Stage /\ DigestsSoFar' = DigestsSoFar
<1>1. pc \in Discovering => Stage = "discover" /\ DigestsSoFar = <<>>
  BY DEF Discovering, Stage, DigestsSoFar, Discovered
<1>2. (pc \in Discovering => Stage = "discover" /\ DigestsSoFar = <<>>)'
  BY DEF Discovering, Stage, DigestsSoFar, Discovered
<1>3. /\ pc = "hash" => Stage = "hash"
      /\ pc' = "hash" => Stage' = "hash"
      /\ pc' = "done" => Stage' = "hashed"
      /\ pc' = "raised" => Stage' = "raised" /\ DigestsSoFar' = <<>>
  BY DEF Stage, DigestsSoFar, Discovered
<1>4. pc' = pc /\ groups' = groups => Stage' = Stage /\ DigestsSoFar' = DigestsSoFar
  BY DEF Stage, DigestsSoFar, Discovered
<1> QED BY <1>1, <1>2, <1>3, <1>4

\* The digests of a list of groups, as Hydration sees them.
DigestsOf(gs) ==
  [g \in DOMAIN gs |-> [i \in DOMAIN gs[g].artifacts |-> gs[g].artifacts[i].digest]]

\* The digests of the groups are nonempty lists, in the shape of the groups.
LEMMA DigestLists ==
  ASSUME NEW gs \in Seq(ModelGroups)
  PROVE  /\ DOMAIN DigestsOf(gs) = DOMAIN gs /\ Len(DigestsOf(gs)) = Len(gs)
         /\ DigestsOf(gs) = <<>> <=> gs = <<>>
         /\ \A g \in DOMAIN gs :
              /\ DOMAIN DigestsOf(gs)[g] = DOMAIN gs[g].artifacts
              /\ Len(DigestsOf(gs)[g]) = Len(gs[g].artifacts)
              /\ DigestsOf(gs)[g] # <<>>
              /\ \A i \in DOMAIN gs[g].artifacts :
                   DigestsOf(gs)[g][i] = gs[g].artifacts[i].digest
<1> DEFINE ds == DigestsOf(gs)
<1>1. /\ DOMAIN ds = DOMAIN gs
      /\ ds = [g \in DOMAIN gs |-> ds[g]]
      /\ \A g \in DOMAIN gs :
           /\ DOMAIN ds[g] = DOMAIN gs[g].artifacts
           /\ ds[g] = [i \in DOMAIN gs[g].artifacts |-> ds[g][i]]
           /\ \A i \in DOMAIN gs[g].artifacts : ds[g][i] = gs[g].artifacts[i].digest
  BY DEF DigestsOf
<1>2. /\ Len(gs) \in Nat /\ DOMAIN gs = 1 .. Len(gs)
      /\ \A g \in DOMAIN gs : /\ Len(gs[g].artifacts) \in Nat \ {0}
                              /\ DOMAIN gs[g].artifacts = 1 .. Len(gs[g].artifacts)
  BY GroupLists
<1> HIDE DEF ds
<1>3. IsList(ds) /\ Len(ds) = Len(gs)
  BY <1>1, <1>2, Lists
<1>4. ASSUME NEW g \in DOMAIN gs
      PROVE  Len(ds[g]) = Len(gs[g].artifacts) /\ ds[g] # <<>>
  <2> DEFINE n == Len(gs[g].artifacts)
             s == ds[g]
  <2>1. n \in Nat \ {0} /\ s = [i \in 1 .. n |-> s[i]]
    BY <1>1, <1>2
  <2> HIDE DEF n, s
  <2>2. IsList(s) /\ Len(s) = n
    BY <2>1, Lists
  <2>3. s # <<>>
    BY <2>1, <2>2, EmptySeq
  <2> QED BY <2>2, <2>3 DEF n, s
<1>5. ds = <<>> <=> gs = <<>>
  <2>1. gs = <<>> => ds = <<>>
    <3>1. ASSUME gs = <<>> PROVE ds = <<>>
      <4>1. Len(ds) = 0
        BY <1>3, <3>1, EmptySeq
      <4>2. ds = [i \in 1 .. 0 |-> ds[i]]
        BY <1>3, <4>1 DEF IsList
      <4> QED BY <4>2
    <3> QED BY <3>1
  <2>2. ds = <<>> => gs = <<>>
    <3>1. ASSUME ds = <<>> PROVE gs = <<>>
      <4>1. Len(gs) = 0
        BY <1>3, <3>1, EmptySeq
      <4> QED BY <4>1, EmptySeq
    <3> QED BY <3>1
  <2> QED BY <2>1, <2>2
<1> QED BY <1>1, <1>3, <1>4, <1>5 DEF ds

\* The refinement mapping, from hashing on.
LEMMA DigestsAre ==
  /\ pc \in {"hash", "done"} => DigestsSoFar = DigestsOf(groups)
  /\ pc' \in {"hash", "done"} => DigestsSoFar' = DigestsOf(groups')
BY DEF DigestsSoFar, Discovered, DigestsOf

\* The end of discovery is the one step Discover of Hydration.
LEMMA DiscoveryEnds ==
  ASSUME IInv, EndDiscovery
  PROVE  Hydrated!Discover
<1>1. /\ pc = "visit" /\ UNCHANGED <<groups, at>>
      /\ pc' = IF groups = <<>> THEN "done" ELSE "hash"
  BY DEF EndDiscovery
<1>2. Stage = "discover" /\ at' = at
  BY <1>1, Stages DEF Discovering
<1> DEFINE ds == DigestsOf(groups)
<1>3. DigestsSoFar' = ds
  BY <1>1, DigestsAre
<1>4. groups \in Seq(ModelGroups)
  BY DEF IInv, Types
<1>5. /\ DOMAIN ds = DOMAIN groups /\ (ds = <<>> <=> groups = <<>>)
      /\ \A g \in DOMAIN groups :
           /\ DOMAIN ds[g] = DOMAIN groups[g].artifacts /\ ds[g] # <<>>
           /\ \A i \in DOMAIN groups[g].artifacts : ds[g][i] = groups[g].artifacts[i].digest
  BY <1>4, DigestLists
<1>6. \A g \in DOMAIN groups : \A i \in DOMAIN groups[g].artifacts :
        groups[g].artifacts[i].digest = NoDigest
  BY <1>1 DEF IInv, DigestInv, Discovering, Unhashed
<1> HIDE DEF ds
<1>7. Hydrated!Unhashed(ds)
  BY <1>5, <1>6 DEF Hydrated!Unhashed
<1>8. Stage' = IF ds = <<>> THEN "hashed" ELSE "hash"
  BY <1>1, <1>5, Stages
<1> QED BY <1>2, <1>3, <1>7, <1>8 DEF Hydrated!Discover

\* Settling an artifact is HashArtifact of Hydration.
LEMMA ArtifactHashed ==
  ASSUME IInv, pc = "hash", NEW d \in Contents \cup {NoDigest}, Settle(d)
  PROVE  Hydrated!HashArtifact
<1>1. Types /\ AtInGroups /\ at = <<at[1], at[2]>> /\ groups \in Seq(ModelGroups)
  BY DEF IInv, Types, DigestInv, AtInGroups
<1>2. /\ groups' \in Seq(ModelGroups) /\ SameLayout
      /\ \A g \in DOMAIN groups : \A i \in DOMAIN groups[g].artifacts :
           ~(g = at[1] /\ i = at[2]) => groups'[g].artifacts[i] = groups[g].artifacts[i]
      /\ pc' \in {"hash", "done"}
  BY <1>1, Settled
<1> DEFINE ds == DigestsOf(groups)
           es == DigestsOf(groups')
<1>3. DigestsSoFar = ds /\ DigestsSoFar' = es /\ Stage = "hash"
  BY <1>2, DigestsAre, Stages
<1>4. /\ DOMAIN ds = DOMAIN groups /\ Len(ds) = Len(groups)
      /\ \A g \in DOMAIN groups :
           /\ DOMAIN ds[g] = DOMAIN groups[g].artifacts
           /\ Len(ds[g]) = Len(groups[g].artifacts)
           /\ \A i \in DOMAIN groups[g].artifacts : ds[g][i] = groups[g].artifacts[i].digest
  BY <1>1, DigestLists
<1>5. /\ DOMAIN es = DOMAIN groups'
      /\ \A g \in DOMAIN groups' :
           /\ DOMAIN es[g] = DOMAIN groups'[g].artifacts
           /\ \A i \in DOMAIN groups'[g].artifacts : es[g][i] = groups'[g].artifacts[i].digest
  BY <1>2, DigestLists
<1> HIDE DEF ds, es
<1>6. /\ DOMAIN es = DOMAIN ds
      /\ \A g \in DOMAIN ds : DOMAIN es[g] = DOMAIN ds[g]
  BY <1>2, <1>4, <1>5 DEF SameLayout
<1>7. ASSUME NEW g \in DOMAIN ds, NEW i \in DOMAIN ds[g], <<g, i>> # at
      PROVE  es[g][i] = ds[g][i]
  <2>1. g \in DOMAIN groups /\ i \in DOMAIN groups[g].artifacts
    BY <1>4
  <2>2. groups'[g].artifacts[i] = groups[g].artifacts[i]
    BY <1>1, <1>2, <1>7, <2>1
  <2> QED BY <1>2, <1>4, <1>5, <2>1, <2>2 DEF SameLayout
<1>8. at[1] \in DOMAIN groups /\ at[1] \in Nat /\ at[1] <= Len(groups) /\ Len(groups) \in Nat
  <2>1. Len(groups) \in Nat /\ DOMAIN groups = 1 .. Len(groups)
    BY <1>1, GroupLists
  <2> QED BY <1>1, <2>1 DEF AtInGroups
<1> DEFINE more == at[2] < Len(groups[at[1]].artifacts)
<1>9. /\ at' = IF more THEN <<at[1], at[2] + 1>> ELSE <<at[1] + 1, 1>>
      /\ pc' = IF more \/ at[1] < Len(groups) THEN "hash" ELSE "done"
  BY DEF Settle
<1>10. at' = Hydrated!After(ds, at[1], at[2])
  BY <1>4, <1>8, <1>9 DEF Hydrated!After
<1> HIDE DEF more
<1>11. Stage' = IF at'[1] > Len(ds) THEN "hashed" ELSE "hash"
  <2>1. CASE more
    <3>1. at'[1] = at[1] /\ pc' = "hash"
      BY <1>9, <2>1
    <3>2. ~(at'[1] > Len(ds))
      BY <1>4, <1>8, <3>1
    <3> QED BY <3>1, <3>2, Stages
  <2>2. CASE ~more /\ at[1] < Len(groups)
    <3>1. at'[1] = at[1] + 1 /\ pc' = "hash"
      BY <1>9, <2>2
    <3>2. ~(at'[1] > Len(ds))
      BY <1>4, <1>8, <2>2, <3>1
    <3> QED BY <3>1, <3>2, Stages
  <2>3. CASE ~more /\ ~(at[1] < Len(groups))
    <3>1. at'[1] = at[1] + 1 /\ pc' = "done"
      BY <1>9, <2>3
    <3>2. at'[1] > Len(ds)
      BY <1>4, <1>8, <2>3, <3>1
    <3> QED BY <3>1, <3>2, Stages
  <2> QED BY <2>1, <2>2, <2>3
<1> QED BY <1>3, <1>6, <1>7, <1>10, <1>11 DEF Hydrated!HashArtifact

\* Every other step is none of Hydration's.
LEMMA NotSeen ==
  /\ pc' = pc /\ groups' = groups /\ at' = at =>
       UNCHANGED <<Stage, DigestsSoFar, at>>
  /\ pc \in Discovering /\ pc' \in Discovering /\ at' = at =>
       UNCHANGED <<Stage, DigestsSoFar, at>>
<1>1. ASSUME pc' = pc, groups' = groups, at' = at
      PROVE  UNCHANGED <<Stage, DigestsSoFar, at>>
  <2>1. Stage' = Stage /\ DigestsSoFar' = DigestsSoFar
    BY <1>1, Stages
  <2> QED BY <1>1, <2>1
<1>2. ASSUME pc \in Discovering, pc' \in Discovering, at' = at
      PROVE  UNCHANGED <<Stage, DigestsSoFar, at>>
  <2>1. Stage = "discover" /\ DigestsSoFar = <<>>
    BY <1>2, Stages
  <2>2. Stage' = "discover" /\ DigestsSoFar' = <<>>
    BY <1>2, Stages DEF Discovering
  <2> QED BY <1>2, <2>1, <2>2
<1> QED BY <1>1, <1>2

\* Each step of the scan is a step of Hydration or none.
LEMMA StepIsHydration ==
  ASSUME IInv, Step
  PROVE  Hydrated!Next \/ UNCHANGED <<Stage, DigestsSoFar, at>>
<1>1. CASE VisitDir
  <2>1. pc \in Discovering /\ pc' \in Discovering /\ at' = at
    BY <1>1 DEF VisitDir, SkipDir, TakeListing, Discovering
  <2> QED BY <2>1, NotSeen
<1>2. CASE ListSnapshot
  <2>1. pc = "list" /\ at' = at /\ pc' \in {"stat", "raised"}
    BY <1>2 DEF ListSnapshot, TakeListing
  <2>2. CASE pc' = "stat"
    BY <2>1, <2>2, NotSeen DEF Discovering
  <2>3. CASE pc' = "raised"
    <3>1. /\ Stage = "discover" /\ DigestsSoFar = <<>>
          /\ Stage' = "raised" /\ DigestsSoFar' = <<>>
      BY <2>1, <2>3, Stages DEF Discovering
    <3> QED BY <2>1, <3>1 DEF Hydrated!Next, Hydrated!DiscoverFails
  <2> QED BY <2>1, <2>2, <2>3
<1>3. CASE StatEntry \/ ReadManifest \/ FindBlob \/ YieldGroups
  <2>1. pc \in Discovering /\ pc' \in Discovering /\ at' = at
    BY <1>3 DEF StatEntry, ReadManifest, FindBlob, YieldGroups, Discovering
  <2> QED BY <2>1, NotSeen
<1>4. CASE EndDiscovery
  BY <1>4, DiscoveryEnds DEF Hydrated!Next
<1>5. CASE TakeName
  <2>1. pc = "hash" /\ TakesName(Current, trust) /\ Settle(NamedDigest[Current.file])
    BY <1>5 DEF TakeName
  <2>2. NamedDigest[Current.file] \in Contents \cup {NoDigest}
    BY <2>1, CurrentFacts
  <2> QED BY <2>1, <2>2, ArtifactHashed DEF Hydrated!Next
<1>6. CASE OpenFails
  <2>1. pc = "hash" /\ Settle(NoDigest)
    BY <1>6 DEF OpenFails
  <2> QED BY <2>1, ArtifactHashed DEF Hydrated!Next
<1>7. CASE ReadFails
  <2>1. pc = "hash" /\ Settle(NoDigest)
    BY <1>7, OpenFacts DEF ReadFails
  <2> QED BY <2>1, ArtifactHashed DEF Hydrated!Next
<1>8. CASE FinishFile
  <2>1. pc = "hash" /\ Settle(handle.got) /\ handle.got \in Contents \cup {NoDigest}
    BY <1>8, OpenFacts DEF FinishFile
  <2> QED BY <2>1, ArtifactHashed DEF Hydrated!Next
<1>9. CASE OpenFile \/ ReadBlock
  <2>1. UNCHANGED <<pc, groups, at>>
    BY <1>9 DEF OpenFile, ReadBlock
  <2> QED BY <2>1, NotSeen
<1> QED BY <1>1, <1>2, <1>3, <1>4, <1>5, <1>6, <1>7, <1>8, <1>9 DEF Step

(***************************************************************************)
(* Discovery and hashing are those that Scan takes for granted: discovery  *)
(* gives groups that are not empty and not hashed, or raises; hashing then *)
(* settles each artifact once and in order, adds none, drops none, and     *)
(* never raises (_discover_groups, hash_groups).                           *)
(***************************************************************************)
THEOREM FilesImplementHydration == Spec => ImplementsHydration
<1>1. Init => Hydrated!Init
  <2> SUFFICES ASSUME Init PROVE Hydrated!Init
    OBVIOUS
  <2>1. pc \in Discovering /\ at = <<1, 1>>
    BY DEF Init, Discovering
  <2>2. Stage = "discover" /\ DigestsSoFar = <<>>
    BY <2>1, Stages
  <2> QED BY <2>1, <2>2 DEF Hydrated!Init
<1>2. IInv /\ [Next]_vars => [Hydrated!Next]_<<Stage, DigestsSoFar, at>>
  <2> SUFFICES ASSUME IInv, [Next]_vars
               PROVE  Hydrated!Next \/ UNCHANGED <<Stage, DigestsSoFar, at>>
    OBVIOUS
  <2>1. CASE Step
    BY <2>1, StepIsHydration
  <2>2. CASE Environment
    <3>1. UNCHANGED <<pc, groups, at>>
      BY <2>2 DEF Environment, WriteInPlace, RenameOver, ChangeLink, RemoveDir, Retag, Change
    <3> QED BY <3>1, NotSeen
  <2>3. CASE UNCHANGED vars
    <3>1. UNCHANGED <<pc, groups, at>>
      BY <2>3 DEF vars, scanner
    <3> QED BY <3>1, NotSeen
  <2> QED BY <2>1, <2>2, <2>3 DEF Next
<1>3. Hydrated!hydration = <<Stage, DigestsSoFar, at>>
  BY DEF Hydrated!hydration
<1> QED BY <1>1, <1>2, <1>3, ScanInvariant, PTL
        DEF Spec, ImplementsHydration, Hydrated!Spec, Hydrated!hydration

=============================================================================
