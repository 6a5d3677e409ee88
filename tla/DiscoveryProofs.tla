-------------------------- MODULE DiscoveryProofs ---------------------------
(***************************************************************************)
(* Proofs about Discovery.  What is walked and what is shown are decided   *)
(* by two loops that look at the file system at different times; each of   *)
(* them is right about the places that nobody changes, so they agree on    *)
(* those.  The invariant says, for each loop, what its stage has settled   *)
(* so far: that everything in its list was called for, and that everything *)
(* called for that it has passed is in its list.                           *)
(***************************************************************************)
EXTENDS Discovery, Positions, SequenceTheorems, TLAPS

ShowStages == {"show_hf", "show_ollama", "show_lmstudio"}
DefaultStages == {"hf_resolve", "hf_next", "ollama"} \cup ShowStages
PathStages == {"dispatch", "classify", "show_path", "show_class"}
Walking == {"probe", "walk"}

Rows == [ecosystem : Adapters \cup {"lmstudio"}, place : Places \cup {NoPlace},
         exists : BOOLEAN, scanned : BOOLEAN]

\* The directory the Ollama adapter considers.
OllamaCandidate == IF run.ollama # NoPlace THEN run.ollama ELSE OllamaDefault

Types ==
  /\ run \in Invocations
  /\ pc \in DefaultStages \cup PathStages \cup Walking \cup {"done", "crashed"}
  /\ at \in Nat \ {0}
  /\ hfRoots \in Seq(Places)
  /\ job \in Adapters \X (Places \cup {NoPlace})
  /\ existed \in BOOLEAN
  /\ walked \in Seq(Adapters \X Places)
  /\ shown \in Seq(Rows)
  /\ kind \in [Places -> Kinds]
  /\ changed \subseteq Places

\* Each loop stands on an element of its list, and the walk under way is its.
Loops ==
  /\ pc \in DefaultStages => ~IsExplicit
  /\ pc \in PathStages => IsExplicit /\ at \in DOMAIN run.paths
  /\ pc \in {"hf_resolve", "show_hf"} => at \in DOMAIN run.chain
  /\ pc = "hf_next" => at \in DOMAIN hfRoots
  /\ pc = "ollama" => at = 1
  /\ pc \in Walking /\ IsExplicit => at \in DOMAIN run.paths /\ job[2] = run.paths[at]
  /\ pc \in Walking /\ ~IsExplicit =>
       \/ job[1] = "hf_cache" /\ at \in DOMAIN hfRoots /\ job[2] = hfRoots[at]
       \/ job[1] = "ollama" /\ job[2] = OllamaCandidate

-----------------------------------------------------------------------------
\* How far each loop has come.
ChainResolved == IF pc = "hf_resolve" THEN at - 1 ELSE Len(run.chain)

RootsTried ==
  IF pc = "hf_resolve" THEN 0
  ELSE IF pc = "hf_next" \/ (pc \in Walking /\ job[1] = "hf_cache") THEN at - 1
  ELSE Len(hfRoots)

OllamaTried == pc \in ShowStages \cup {"done"}

PathsTried == IF pc \in {"dispatch", "classify"} \cup Walking THEN at - 1 ELSE Len(run.paths)

ChainShown ==
  IF pc = "show_hf" THEN at - 1
  ELSE IF pc \in {"show_ollama", "show_lmstudio", "done"} THEN Len(run.chain)
  ELSE 0

OllamaShown == pc \in {"show_lmstudio", "done"}

PathsShown ==
  IF pc \in {"show_path", "show_class"} THEN at - 1
  ELSE IF pc = "done" THEN Len(run.paths)
  ELSE 0

-----------------------------------------------------------------------------
IsRoot(p) == \E k \in DOMAIN hfRoots : hfRoots[k] = p

IsCandidate(p) == \E j \in DOMAIN run.chain : run.chain[j] = p

\* The invocation calls for a scan of p by adapter e, as far as that can be
\* said of a place that changes.
Due(e, p) ==
  IF IsExplicit
  THEN /\ \E k \in DOMAIN run.paths : run.paths[k] = p
       /\ p \in Untouched => Exists(p) /\ e = Class(p)
  ELSE /\ \/ e = "hf_cache" /\ IsCandidate(p)
          \/ e = "ollama" /\ p = OllamaCandidate
       /\ p \in Untouched => IsDir(p)

RootsSound ==
  \A k \in DOMAIN hfRoots :
    /\ \E j \in 1 .. ChainResolved : run.chain[j] = hfRoots[k]
    /\ hfRoots[k] \in Untouched => IsDir(hfRoots[k])

RootsAll ==
  ~IsExplicit =>
    \A j \in 1 .. ChainResolved :
      run.chain[j] \in Untouched /\ IsDir(run.chain[j]) => IsRoot(run.chain[j])

RootsOnce == \A j, k \in DOMAIN hfRoots : hfRoots[j] = hfRoots[k] => j = k

\* The job under way and the answer of the last probe hold good.
JobInv ==
  /\ pc \in Walking => Due(job[1], job[2])
  /\ pc = "classify" /\ run.paths[at] \in Untouched => Exists(run.paths[at])
  /\ pc = "show_class" /\ run.paths[at] \in Untouched =>
       (existed <=> Exists(run.paths[at]))

WalkedSound == \A e \in Adapters, p \in Places : WasWalked(e, p) => Due(e, p)

WalkedAll ==
  pc # "crashed" =>
    IF IsExplicit
    THEN \A k \in 1 .. PathsTried :
           run.paths[k] \in Untouched /\ Exists(run.paths[k])
             => WasWalked(Class(run.paths[k]), run.paths[k])
    ELSE /\ \A k \in 1 .. RootsTried :
              hfRoots[k] \in Untouched => WasWalked("hf_cache", hfRoots[k])
         /\ OllamaTried /\ OllamaCandidate \in Untouched /\ IsDir(OllamaCandidate)
              => WasWalked("ollama", OllamaCandidate)

WalkedOnce ==
  ~IsExplicit =>
    /\ \A j, k \in DOMAIN walked : walked[j] = walked[k] => j = k
    /\ \A p \in Places : WasWalked("hf_cache", p) =>
         \E k \in 1 .. RootsTried : hfRoots[k] = p
    /\ \A p \in Places : WasWalked("ollama", p) => OllamaTried

ShownSound == \A e \in Adapters, p \in Places : SaysScanned(e, p) => Due(e, p)

ShownAll ==
  IF IsExplicit
  THEN \A k \in 1 .. PathsShown :
         run.paths[k] \in Untouched /\ Exists(run.paths[k])
           => SaysScanned(Class(run.paths[k]), run.paths[k])
  ELSE /\ \A k \in 1 .. ChainShown :
            run.chain[k] \in Untouched /\ IsDir(run.chain[k])
              => SaysScanned("hf_cache", run.chain[k])
       /\ OllamaShown /\ OllamaCandidate \in Untouched /\ IsDir(OllamaCandidate)
            => SaysScanned("ollama", OllamaCandidate)

SaysBroken ==
  ~IsExplicit /\ OllamaShown /\ run.ollama \in Untouched /\ ~IsDir(run.ollama) =>
    \E k \in DOMAIN shown : shown[k] = ScanRoot("ollama", run.ollama, FALSE, FALSE)

IInv ==
  /\ Types /\ Loops
  /\ RootsSound /\ RootsAll /\ RootsOnce
  /\ JobInv
  /\ WalkedSound /\ WalkedAll /\ WalkedOnce
  /\ ShownSound /\ ShownAll
  /\ SaysBroken

-----------------------------------------------------------------------------
(***************************************************************************)
(* What the types say of the lists, and what appending does to them.       *)
(***************************************************************************)
LEMMA ScanLists ==
  ASSUME Types
  PROVE  /\ Len(run.paths) \in Nat /\ DOMAIN run.paths = 1 .. Len(run.paths)
         /\ \A k \in DOMAIN run.paths : run.paths[k] \in Places
         /\ Len(run.chain) \in Nat \ {0} /\ DOMAIN run.chain = 1 .. Len(run.chain)
         /\ \A k \in DOMAIN run.chain : run.chain[k] \in Places
         /\ Len(hfRoots) \in Nat /\ DOMAIN hfRoots = 1 .. Len(hfRoots)
         /\ \A k \in DOMAIN hfRoots : hfRoots[k] \in Places
         /\ OllamaCandidate \in Places
         /\ IsExplicit => 1 \in DOMAIN run.paths
         /\ hfRoots # <<>> => 1 \in DOMAIN hfRoots
<1>1. /\ run.paths \in Seq(Places) /\ run.chain \in Seq(Places)
      /\ run.ollama \in Places \cup {NoPlace} /\ run.chain # <<>>
  BY DiscoveryConstants DEF Types, Invocation
<1>2. ASSUME NEW s \in Seq(Places)
      PROVE  /\ Len(s) \in Nat /\ DOMAIN s = 1 .. Len(s)
             /\ \A k \in DOMAIN s : s[k] \in Places
             /\ s # <<>> => Len(s) \in Nat \ {0} /\ 1 \in DOMAIN s
  <2>1. Len(s) \in Nat /\ DOMAIN s = 1 .. Len(s)
    BY LenProperties
  <2>2. \A k \in 1 .. Len(s) : s[k] \in Places
    BY ElementOfSeq
  <2>3. s # <<>> => Len(s) \in Nat \ {0}
    BY EmptySeq
  <2> QED BY <2>1, <2>2, <2>3
<1>3. OllamaCandidate \in Places
  BY <1>1, DiscoveryConstants DEF OllamaCandidate
<1>4. hfRoots \in Seq(Places)
  BY DEF Types
<1> QED BY <1>1, <1>2, <1>3, <1>4 DEF IsExplicit

\* One more walk.
LEMMA WalkAppended ==
  ASSUME Types, job \in Adapters \X Places, walked' = Append(walked, job)
  PROVE  /\ walked' \in Seq(Adapters \X Places)
         /\ \A e \in Adapters, p \in Places :
              WasWalked(e, p)' <=> WasWalked(e, p) \/ job = <<e, p>>
         /\ /\ \A j, k \in DOMAIN walked : walked[j] = walked[k] => j = k
            /\ ~WasWalked(job[1], job[2])
            => \A j, k \in DOMAIN walked' : walked'[j] = walked'[k] => j = k
<1>1. /\ walked' \in Seq(Adapters \X Places)
      /\ DOMAIN walked \subseteq DOMAIN walked'
      /\ \A k \in DOMAIN walked : walked'[k] = walked[k]
      /\ \E k \in DOMAIN walked' : walked'[k] = job
      /\ \A k \in DOMAIN walked' : k \in DOMAIN walked \/ walked'[k] = job
      /\ \A k \in DOMAIN walked' : k \notin DOMAIN walked => k = Len(walked) + 1
  <2>1. walked \in Seq(Adapters \X Places)
    BY DEF Types
  <2> QED BY <2>1, Appended
<1>2. \A e \in Adapters, p \in Places :
        WasWalked(e, p)' <=> WasWalked(e, p) \/ job = <<e, p>>
  BY <1>1 DEF WasWalked
<1>3. job = <<job[1], job[2]>>
  OBVIOUS
<1>4. ASSUME \A j, k \in DOMAIN walked : walked[j] = walked[k] => j = k,
             ~WasWalked(job[1], job[2])
      PROVE  \A j, k \in DOMAIN walked' : walked'[j] = walked'[k] => j = k
  <2>1. \A k \in DOMAIN walked : walked[k] # job
    BY <1>3, <1>4 DEF WasWalked
  <2> QED BY <1>1, <1>4, <2>1
<1> QED BY <1>1, <1>2, <1>4

\* One more row of the report.
LEMMA RowAppended ==
  ASSUME Types, NEW row \in Rows, shown' = Append(shown, row)
  PROVE  /\ shown' \in Seq(Rows)
         /\ \A e \in Adapters, p \in Places :
              SaysScanned(e, p)' <=>
                SaysScanned(e, p) \/ (row.ecosystem = e /\ row.place = p /\ row.scanned)
         /\ \A r : (\E k \in DOMAIN shown : shown[k] = r) =>
                     \E k \in DOMAIN shown' : shown'[k] = r
         /\ \E k \in DOMAIN shown' : shown'[k] = row
<1>1. /\ shown' \in Seq(Rows)
      /\ DOMAIN shown \subseteq DOMAIN shown'
      /\ \A k \in DOMAIN shown : shown'[k] = shown[k]
      /\ \E k \in DOMAIN shown' : shown'[k] = row
      /\ \A k \in DOMAIN shown' : k \in DOMAIN shown \/ shown'[k] = row
  <2>1. shown \in Seq(Rows)
    BY DEF Types
  <2> QED BY <2>1, Appended
<1>2. \A e \in Adapters, p \in Places :
        SaysScanned(e, p)' <=>
          SaysScanned(e, p) \/ (row.ecosystem = e /\ row.place = p /\ row.scanned)
  BY <1>1 DEF SaysScanned
<1> QED BY <1>1, <1>2

-----------------------------------------------------------------------------
(***************************************************************************)
(* What a step that leaves the invocation and the file system alone keeps. *)
(***************************************************************************)
LEMMA Frame ==
  ASSUME UNCHANGED <<run, kind, changed>>
  PROVE  /\ (IsExplicit <=> IsExplicit') /\ OllamaCandidate' = OllamaCandidate
         /\ Untouched' = Untouched
         /\ \A p : /\ IsDir(p)' <=> IsDir(p)
                   /\ Exists(p)' <=> Exists(p)
                   /\ Class(p)' = Class(p)
                   /\ IsCandidate(p)' <=> IsCandidate(p)
         /\ \A e, p : Due(e, p)' <=> Due(e, p)
BY DEF IsExplicit, OllamaCandidate, Untouched, IsDir, Exists, Class, IsCandidate, Due

\* What is said of the Hugging Face roots stays as long as they do.
LEMMA RootsFrame ==
  ASSUME RootsSound, RootsAll, RootsOnce, UNCHANGED <<run, kind, changed, hfRoots>>,
         ChainResolved' = ChainResolved
  PROVE  RootsSound' /\ RootsAll' /\ RootsOnce'
<1>1. RootsSound'
  BY DEF RootsSound, Untouched, IsDir
<1>2. RootsAll'
  BY DEF RootsAll, IsExplicit, Untouched, IsDir, IsRoot
<1>3. RootsOnce'
  BY DEF RootsOnce
<1> QED BY <1>1, <1>2, <1>3

\* What is said of the walks stays while no loop moves on.
LEMMA WalkedFrame ==
  ASSUME WalkedSound, WalkedAll, WalkedOnce, pc # "crashed",
         UNCHANGED <<run, kind, changed, hfRoots, walked>>,
         IsExplicit => PathsTried' = PathsTried,
         ~IsExplicit => RootsTried' = RootsTried /\ (OllamaTried' <=> OllamaTried)
  PROVE  WalkedSound' /\ WalkedAll' /\ WalkedOnce'
<1>1. \A e, p : /\ WasWalked(e, p)' <=> WasWalked(e, p)
                /\ Due(e, p)' <=> Due(e, p)
  BY Frame DEF WasWalked
<1>2. WalkedSound'
  BY <1>1 DEF WalkedSound
<1>3. WalkedAll'
  BY <1>1, Frame DEF WalkedAll
<1>4. WalkedOnce'
  BY <1>1, Frame DEF WalkedOnce
<1> QED BY <1>2, <1>3, <1>4

\* What is said of the report stays while no loop of it moves on.
LEMMA ShownFrame ==
  ASSUME ShownSound, ShownAll, SaysBroken,
         UNCHANGED <<run, kind, changed, shown>>,
         IsExplicit => 1 .. PathsShown' \subseteq 1 .. PathsShown,
         ~IsExplicit => /\ 1 .. ChainShown' \subseteq 1 .. ChainShown
                        /\ OllamaShown' => OllamaShown
  PROVE  ShownSound' /\ ShownAll' /\ SaysBroken'
<1>1. \A e, p : /\ SaysScanned(e, p)' <=> SaysScanned(e, p)
                /\ Due(e, p)' <=> Due(e, p)
  BY Frame DEF SaysScanned
<1>2. ShownSound'
  BY <1>1 DEF ShownSound
<1>3. ShownAll'
  BY <1>1, Frame DEF ShownAll
<1>4. SaysBroken'
  BY Frame DEF SaysBroken, ScanRoot
<1> QED BY <1>2, <1>3, <1>4

-----------------------------------------------------------------------------
\* The invariant holds before anything is resolved.
LEMMA InitInv == Init => IInv
<1> SUFFICES ASSUME Init PROVE IInv
  OBVIOUS
<1>1. Types
  <2>1. hfRoots \in Seq(Places) /\ walked \in Seq(Adapters \X Places) /\ shown \in Seq(Rows)
    BY EmptySeq DEF Init
  <2>2. job \in Adapters \X (Places \cup {NoPlace})
    BY DEF Init, Adapters
  <2>3. pc \in {"hf_resolve", "dispatch"}
    BY DEF Init
  <2>4. kind \in [Places -> Kinds]
    BY DiscoveryConstants DEF Init
  <2>5. at \in Nat \ {0} /\ changed \subseteq Places
    BY DEF Init
  <2>6. existed \in BOOLEAN /\ run \in Invocations
    BY DEF Init
  <2> QED BY <2>1, <2>2, <2>3, <2>4, <2>5, <2>6
          DEF Init, Types, DefaultStages, PathStages, Walking
<1>2. /\ DOMAIN hfRoots = {} /\ DOMAIN walked = {} /\ DOMAIN shown = {}
      /\ 1 \in DOMAIN run.chain
      /\ IsExplicit => 1 \in DOMAIN run.paths
  <2>1. Len(<<>>) = 0 /\ DOMAIN <<>> = {}
    BY EmptySeq
  <2> QED BY <1>1, <2>1, ScanLists DEF Init
<1>3. /\ pc = IF IsExplicit THEN "dispatch" ELSE "hf_resolve"
      /\ at = 1 /\ 1 \in DOMAIN run.chain
      /\ IsExplicit => 1 \in DOMAIN run.paths
  BY <1>1, <1>2, ScanLists DEF Init, IsExplicit
<1>4. Loops /\ JobInv
  BY <1>3 DEF Loops, JobInv, DefaultStages, PathStages, Walking, ShowStages
<1>5. RootsSound /\ RootsOnce
  BY <1>2 DEF RootsSound, RootsOnce
<1>6. RootsAll
  BY <1>3 DEF RootsAll, ChainResolved
<1>7. \A e, p : ~WasWalked(e, p) /\ ~SaysScanned(e, p)
  BY <1>2 DEF WasWalked, SaysScanned
<1>8. WalkedSound /\ ShownSound
  BY <1>7 DEF WalkedSound, ShownSound
<1>9. WalkedAll
  BY <1>3 DEF WalkedAll, PathsTried, RootsTried, OllamaTried, ShowStages
<1>10. WalkedOnce
  BY <1>2, <1>7 DEF WalkedOnce
<1>11. ShownAll /\ SaysBroken
  BY <1>3 DEF ShownAll, SaysBroken, PathsShown, ChainShown, OllamaShown
<1> QED BY <1>1, <1>4, <1>5, <1>6, <1>8, <1>9, <1>10, <1>11 DEF IInv

-----------------------------------------------------------------------------
(***************************************************************************)
(* The roots of the Hugging Face cache.                                    *)
(***************************************************************************)
LEMMA ResolveHfStep ==
  ASSUME IInv, ResolveHf
  PROVE  IInv'
<1> DEFINE p == run.chain[at]
<1>1. /\ pc = "hf_resolve" /\ ~IsExplicit /\ at \in DOMAIN run.chain
      /\ Types /\ RootsSound /\ RootsAll /\ RootsOnce
      /\ WalkedSound /\ WalkedAll /\ WalkedOnce /\ ShownSound /\ ShownAll /\ SaysBroken
  BY DEF IInv, ResolveHf, Loops, DefaultStages
<1>2. UNCHANGED <<run, job, existed, walked, shown, kind, changed>>
  BY DEF ResolveHf
<1>3. /\ hfRoots' = IF FirstOf(run.chain, at) /\ IsDir(p)
                    THEN Append(hfRoots, p) ELSE hfRoots
      /\ \/ at < Len(run.chain) /\ pc' = "hf_resolve" /\ at' = at + 1
         \/ ~(at < Len(run.chain)) /\ hfRoots' = <<>> /\ pc' = "ollama" /\ at' = 1
         \/ ~(at < Len(run.chain)) /\ hfRoots' # <<>> /\ pc' = "hf_next" /\ at' = 1
  BY DEF ResolveHf
<1>4. /\ at \in Nat \ {0} /\ Len(run.chain) \in Nat /\ DOMAIN run.chain = 1 .. Len(run.chain)
      /\ p \in Places
  BY <1>1, ScanLists DEF Types
<1>5. ChainResolved = at - 1 /\ ChainResolved' = at
  BY <1>1, <1>2, <1>3, <1>4 DEF ChainResolved
<1>6. \A j \in 1 .. at : j \in 1 .. at - 1 \/ j = at
  BY <1>4
<1>6a. 1 .. at - 1 \subseteq 1 .. at /\ at \in 1 .. at
  BY <1>4
<1>7. hfRoots \in Seq(Places)
  BY <1>1 DEF Types
<1>8. ASSUME FirstOf(run.chain, at) /\ IsDir(p)
      PROVE  hfRoots' \in Seq(Places) /\ RootsSound' /\ RootsAll' /\ RootsOnce'
  <2>1. /\ hfRoots' \in Seq(Places)
        /\ DOMAIN hfRoots \subseteq DOMAIN hfRoots'
        /\ \A k \in DOMAIN hfRoots : hfRoots'[k] = hfRoots[k]
        /\ \E k \in DOMAIN hfRoots' : hfRoots'[k] = p
        /\ \A k \in DOMAIN hfRoots' : k \in DOMAIN hfRoots \/ hfRoots'[k] = p
        /\ \A k \in DOMAIN hfRoots' : k \notin DOMAIN hfRoots => k = Len(hfRoots) + 1
    <3>1. hfRoots' = Append(hfRoots, p)
      BY <1>3, <1>8
    <3> HIDE DEF p
    <3> QED BY <1>4, <1>7, <3>1, Appended
  <2>2. \A k \in DOMAIN hfRoots : hfRoots[k] # p
    BY <1>1, <1>5, <1>8 DEF RootsSound, FirstOf
  <2>3. RootsSound'
    <3> SUFFICES ASSUME NEW k \in DOMAIN hfRoots'
                 PROVE  /\ \E j \in 1 .. at : run.chain[j] = hfRoots'[k]
                        /\ hfRoots'[k] \in Untouched => IsDir(hfRoots'[k])
      BY <1>2, <1>5 DEF RootsSound, IsDir, Untouched
    <3>1. CASE k \in DOMAIN hfRoots
      BY <1>1, <1>5, <1>6a, <2>1, <3>1 DEF RootsSound
    <3>2. CASE hfRoots'[k] = p
      BY <1>6a, <1>8, <3>2
    <3> QED BY <2>1, <3>1, <3>2
  <2>4. RootsAll'
    BY <1>1, <1>2, <1>5, <1>6, <2>1 DEF RootsAll, IsDir, Untouched, IsRoot, IsExplicit
  <2>5. RootsOnce'
    BY <1>1, <2>1, <2>2 DEF RootsOnce
  <2> QED BY <2>1, <2>3, <2>4, <2>5
<1>9. ASSUME ~(FirstOf(run.chain, at) /\ IsDir(p))
      PROVE  hfRoots' \in Seq(Places) /\ RootsSound' /\ RootsAll' /\ RootsOnce'
  <2>1. hfRoots' = hfRoots
    BY <1>3, <1>9
  <2>2. p \in Untouched /\ IsDir(p) => IsRoot(p)
    BY <1>1, <1>5, <1>9 DEF FirstOf, RootsAll
  <2>3. RootsSound'
    BY <1>1, <1>2, <1>5, <1>6a, <2>1 DEF RootsSound, IsDir, Untouched
  <2>4. RootsAll'
    BY <1>1, <1>2, <1>5, <1>6, <2>1, <2>2 DEF RootsAll, IsDir, Untouched, IsRoot, IsExplicit
  <2>5. RootsOnce'
    BY <1>1, <2>1 DEF RootsOnce
  <2> QED BY <1>7, <2>1, <2>3, <2>4, <2>5
<1>10. hfRoots' \in Seq(Places) /\ RootsSound' /\ RootsAll' /\ RootsOnce'
  BY <1>8, <1>9
<1>11. Types'
  BY <1>1, <1>2, <1>3, <1>4, <1>10 DEF Types, DefaultStages
<1>12. Loops'
  <2>1. hfRoots' # <<>> => 1 \in DOMAIN hfRoots'
    BY <1>10, EmptySeq, LenProperties
  <2>2. at < Len(run.chain) => at + 1 \in DOMAIN run.chain
    BY <1>4
  <2> QED BY <1>1, <1>2, <1>3, <2>1, <2>2
          DEF Loops, IsExplicit, DefaultStages, PathStages, Walking, ShowStages
<1>13. JobInv'
  BY <1>3 DEF JobInv, Walking
<1>14. /\ \A e, q : WasWalked(e, q)' <=> WasWalked(e, q)
       /\ \A e, q : Due(e, q)' <=> Due(e, q)
  BY <1>2, Frame DEF WasWalked
<1>15. WalkedSound'
  BY <1>1, <1>14 DEF WalkedSound
<1>16. RootsTried' = 0
  <2>1. Len(<<>>) = 0
    BY EmptySeq
  <2> QED BY <1>2, <1>3, <2>1 DEF RootsTried, Walking
<1>17. ~OllamaTried' /\ ~OllamaTried /\ RootsTried = 0
  BY <1>1, <1>3 DEF OllamaTried, ShowStages, RootsTried
<1>18. ~IsExplicit'
  BY <1>1, <1>2, Frame
<1>19. WalkedAll'
  BY <1>16, <1>17, <1>18 DEF WalkedAll
<1>20. WalkedOnce'
  BY <1>1, <1>2, <1>14, <1>16, <1>17, <1>18 DEF WalkedOnce
<1>21. ShownSound' /\ ShownAll' /\ SaysBroken'
  <2>1. /\ PathsShown' = 0 /\ PathsShown = 0 /\ ChainShown' = 0 /\ ChainShown = 0
        /\ ~OllamaShown'
    BY <1>1, <1>3 DEF PathsShown, ChainShown, OllamaShown
  <2> QED BY <1>1, <1>2, <2>1, ShownFrame
<1> QED BY <1>10, <1>11, <1>12, <1>13, <1>15, <1>19, <1>20, <1>21 DEF IInv

-----------------------------------------------------------------------------
(***************************************************************************)
(* Each loop of walks.                                                     *)
(***************************************************************************)
LEMMA RootsStay ==
  ASSUME IInv, UNCHANGED <<run, kind, changed, hfRoots>>,
         pc # "hf_resolve", pc' # "hf_resolve"
  PROVE  RootsSound' /\ RootsAll' /\ RootsOnce'
<1>1. ChainResolved' = ChainResolved
  BY DEF ChainResolved
<1> QED BY <1>1, RootsFrame DEF IInv

\* The loop over the Hugging Face roots takes the next root, or ends.
LEMMA StartHfStep ==
  ASSUME IInv, StartHf
  PROVE  IInv'
<1>1. /\ pc = "hf_next" /\ pc' = "probe" /\ job' = <<"hf_cache", hfRoots[at]>>
      /\ UNCHANGED <<run, at, hfRoots, existed, walked, shown, kind, changed>>
  BY DEF StartHf
<1>2. /\ ~IsExplicit /\ at \in DOMAIN hfRoots /\ Types /\ RootsSound
      /\ WalkedSound /\ WalkedAll /\ WalkedOnce /\ ShownSound /\ ShownAll /\ SaysBroken
  BY <1>1 DEF IInv, Loops, DefaultStages
<1>3. hfRoots[at] \in Places
  BY <1>2, ScanLists
<1>4. Types'
  BY <1>1, <1>2, <1>3 DEF Types, Walking, Adapters
<1>5. Loops'
  BY <1>1, <1>2 DEF Loops, IsExplicit, DefaultStages, PathStages, Walking, ShowStages
<1>6. JobInv'
  <2>1. IsCandidate(hfRoots[at])
    <3>1. PICK j \in 1 .. ChainResolved : run.chain[j] = hfRoots[at]
      BY <1>2 DEF RootsSound
    <3>2. ChainResolved = Len(run.chain)
      BY <1>1 DEF ChainResolved
    <3> QED BY <1>2, <3>1, <3>2, ScanLists DEF IsCandidate
  <2>2. Due("hf_cache", hfRoots[at])
    BY <1>2, <2>1 DEF Due, RootsSound
  <2>3. Due(job[1], job[2])'
    BY <1>1, <2>2, Frame
  <2> QED BY <1>1, <2>3 DEF JobInv
<1>7. RootsSound' /\ RootsAll' /\ RootsOnce'
  BY <1>1, RootsStay
<1>8. WalkedSound' /\ WalkedAll' /\ WalkedOnce'
  <2>1. RootsTried' = RootsTried /\ ~OllamaTried /\ ~OllamaTried'
    BY <1>1 DEF RootsTried, OllamaTried, Walking, ShowStages
  <2> QED BY <1>1, <1>2, <2>1, WalkedFrame
<1>9. ShownSound' /\ ShownAll' /\ SaysBroken'
  <2>1. ChainShown' = ChainShown /\ ~OllamaShown'
    BY <1>1 DEF ChainShown, OllamaShown
  <2> QED BY <1>1, <1>2, <2>1, ShownFrame
<1> QED BY <1>4, <1>5, <1>6, <1>7, <1>8, <1>9 DEF IInv

\* The Ollama adapter takes the one root it has, or none.
LEMMA StartOllamaStep ==
  ASSUME IInv, StartOllama
  PROVE  IInv'
<1>1. /\ pc = "ollama"
      /\ UNCHANGED <<run, at, hfRoots, existed, walked, shown, kind, changed>>
      /\ \/ OllamaRoot = NoPlace /\ pc' = "show_hf" /\ job' = job
         \/ OllamaRoot # NoPlace /\ pc' = "probe" /\ job' = <<"ollama", OllamaRoot>>
  BY DEF StartOllama
<1>2. /\ ~IsExplicit /\ Types /\ Loops
      /\ WalkedSound /\ WalkedAll /\ WalkedOnce /\ ShownSound /\ ShownAll /\ SaysBroken
  BY <1>1 DEF IInv, Loops, DefaultStages
<1>3. /\ OllamaCandidate \in Places /\ OllamaCandidate # NoPlace
      /\ OllamaRoot = IF IsDir(OllamaCandidate) THEN OllamaCandidate ELSE NoPlace
  BY <1>2, ScanLists, DiscoveryConstants DEF OllamaCandidate, OllamaRoot
<1>4. RootsTried = Len(hfRoots) /\ ~OllamaTried
  BY <1>1 DEF RootsTried, OllamaTried, Walking, ShowStages
<1>5. RootsSound' /\ RootsAll' /\ RootsOnce'
  BY <1>1, RootsStay
<1>6. ShownSound' /\ ShownAll' /\ SaysBroken'
  <2>1. at = 1
    BY <1>1, <1>2 DEF Loops
  <2>2. ChainShown' = 0 /\ ChainShown = 0 /\ ~OllamaShown'
    BY <1>1, <2>1 DEF ChainShown, OllamaShown
  <2> QED BY <1>1, <1>2, <2>2, ShownFrame
<1>7. CASE OllamaRoot = NoPlace
  <2>1. pc' = "show_hf" /\ job' = job /\ ~IsDir(OllamaCandidate)
    BY <1>1, <1>3, <1>7
  <2>2. Types'
    BY <1>1, <1>2, <2>1 DEF Types, DefaultStages, ShowStages
  <2>3. Loops'
    <3>1. at = 1 /\ 1 \in DOMAIN run.chain
      BY <1>1, <1>2, ScanLists DEF Loops
    <3> QED BY <1>1, <1>2, <2>1, <3>1, Frame
            DEF Loops, DefaultStages, PathStages, Walking, ShowStages
  <2>4. JobInv'
    BY <2>1 DEF JobInv, Walking
  <2>5. RootsTried' = RootsTried
    BY <1>1, <1>4, <2>1 DEF RootsTried, Walking
  <2>6. \A e, p : /\ WasWalked(e, p)' <=> WasWalked(e, p)
                  /\ Due(e, p)' <=> Due(e, p)
    BY <1>1, Frame DEF WasWalked
  <2>7. WalkedSound'
    BY <1>2, <2>6 DEF WalkedSound
  <2>8. WalkedAll'
    BY <1>1, <1>2, <2>1, <2>5, <2>6, Frame DEF WalkedAll
  <2>9. WalkedOnce'
    BY <1>1, <1>2, <1>4, <2>1, <2>5, <2>6, Frame DEF WalkedOnce
  <2> QED BY <1>5, <1>6, <2>2, <2>3, <2>4, <2>7, <2>8, <2>9 DEF IInv
<1>8. CASE OllamaRoot # NoPlace
  <2>1. pc' = "probe" /\ job' = <<"ollama", OllamaCandidate>> /\ IsDir(OllamaCandidate)
    BY <1>1, <1>3, <1>8
  <2>2. Types'
    BY <1>1, <1>2, <1>3, <2>1 DEF Types, Walking, Adapters
  <2>3. Loops'
    BY <1>1, <1>2, <2>1, Frame DEF Loops, DefaultStages, PathStages, Walking, ShowStages
  <2>4. JobInv'
    <3>1. Due("ollama", OllamaCandidate)
      BY <1>2, <2>1 DEF Due
    <3>2. Due(job[1], job[2])'
      BY <1>1, <2>1, <3>1, Frame
    <3> QED BY <2>1, <3>2 DEF JobInv
  <2>5. RootsTried' = RootsTried /\ ~OllamaTried'
    BY <1>1, <1>4, <2>1 DEF RootsTried, OllamaTried, ShowStages
  <2>6. WalkedSound' /\ WalkedAll' /\ WalkedOnce'
    BY <1>1, <1>2, <1>4, <2>5, WalkedFrame
  <2> QED BY <1>5, <1>6, <2>2, <2>3, <2>4, <2>6 DEF IInv
<1> QED BY <1>7, <1>8

-----------------------------------------------------------------------------
\* A path that is passed over does not exist, or came to be just now.
LEMMA DispatchStep ==
  ASSUME IInv, Dispatch
  PROVE  IInv'
<1> DEFINE n == Len(run.paths)
<1>1. /\ pc = "dispatch" /\ IsExplicit /\ Types /\ at \in DOMAIN run.paths
      /\ WalkedSound /\ WalkedAll /\ WalkedOnce /\ ShownSound /\ ShownAll /\ SaysBroken
  BY DEF IInv, Dispatch, Loops, PathStages
<1>2. UNCHANGED <<run, hfRoots, job, existed, walked, shown, kind, changed>>
  BY DEF Dispatch
<1>3. \/ Exists(run.paths[at]) /\ pc' = "classify" /\ at' = at
      \/ ~Exists(run.paths[at]) /\ at < n /\ pc' = "dispatch" /\ at' = at + 1
      \/ ~Exists(run.paths[at]) /\ ~(at < n) /\ pc' = "show_path" /\ at' = 1
  BY DEF Dispatch, Continue
<1>4. /\ n \in Nat /\ DOMAIN run.paths = 1 .. n /\ at \in 1 .. n
      /\ 1 \in DOMAIN run.paths
  BY <1>1, ScanLists
<1>5. Types'
  BY <1>1, <1>2, <1>3, <1>4 DEF Types, PathStages
<1>6. Loops'
  <2>1. at < n => at + 1 \in DOMAIN run.paths
    BY <1>4
  <2> QED BY <1>1, <1>2, <1>3, <1>4, <2>1, Frame
          DEF Loops, DefaultStages, PathStages, Walking, ShowStages
<1>7. JobInv'
  BY <1>2, <1>3, Frame DEF JobInv, Walking
<1>8. RootsSound' /\ RootsAll' /\ RootsOnce'
  BY <1>1, <1>2, <1>3, RootsStay
<1>9. \A e, p : /\ WasWalked(e, p)' <=> WasWalked(e, p)
                /\ Due(e, p)' <=> Due(e, p)
  BY <1>2, Frame DEF WasWalked
<1>10. WalkedSound'
  BY <1>1, <1>9 DEF WalkedSound
<1>11. WalkedAll'
  <2>1. PathsTried = at - 1
    BY <1>1 DEF PathsTried
  <2>2. \/ PathsTried' = at - 1
        \/ PathsTried' = at /\ ~Exists(run.paths[at])
    BY <1>2, <1>3, <1>4 DEF PathsTried, Walking
  <2>3. \A k \in 1 .. at : k \in 1 .. at - 1 \/ k = at
    BY <1>4
  <2> QED BY <1>1, <1>2, <1>9, <2>1, <2>2, <2>3, Frame DEF WalkedAll
<1>12. WalkedOnce'
  BY <1>1, <1>2, Frame DEF WalkedOnce
<1>13. ShownSound' /\ ShownAll' /\ SaysBroken'
  <2>1. PathsShown' = 0 /\ PathsShown = 0
    BY <1>1, <1>3 DEF PathsShown
  <2> QED BY <1>1, <1>2, <2>1, ShownFrame
<1> QED BY <1>5, <1>6, <1>7, <1>8, <1>10, <1>11, <1>12, <1>13 DEF IInv

\* A path is given to the adapter of its class at that moment.
LEMMA ClassifyStep ==
  ASSUME IInv, Classify
  PROVE  IInv'
<1> DEFINE p == run.paths[at]
<1>1. /\ pc = "classify" /\ IsExplicit /\ Types /\ at \in DOMAIN run.paths /\ JobInv
      /\ WalkedSound /\ WalkedAll /\ WalkedOnce /\ ShownSound /\ ShownAll /\ SaysBroken
  BY DEF IInv, Classify, Loops, PathStages
<1>2. UNCHANGED <<run, at, hfRoots, existed, walked, shown, kind, changed>>
  BY DEF Classify
<1>3. \/ pc' = "crashed" /\ job' = job
      \/ pc' = "probe" /\ job' = <<Class(p), p>>
  BY DEF Classify
<1>4. p \in Places /\ Class(p) \in Adapters
  BY <1>1, ScanLists DEF Class, Adapters
<1>5. Types'
  BY <1>1, <1>2, <1>3, <1>4 DEF Types, Walking
<1>6. Loops'
  BY <1>1, <1>2, <1>3, Frame DEF Loops, DefaultStages, PathStages, Walking, ShowStages
<1>7. JobInv'
  <2>1. Due(Class(p), p)
    BY <1>1 DEF Due, JobInv
  <2>2. pc' = "probe" => Due(job[1], job[2])'
    BY <1>2, <1>3, <2>1, Frame
  <2> QED BY <1>3, <2>2 DEF JobInv, Walking
<1>8. RootsSound' /\ RootsAll' /\ RootsOnce'
  BY <1>1, <1>2, <1>3, RootsStay
<1>9. \A e, q : /\ WasWalked(e, q)' <=> WasWalked(e, q)
                /\ Due(e, q)' <=> Due(e, q)
  BY <1>2, Frame DEF WasWalked
<1>10. WalkedSound'
  BY <1>1, <1>9 DEF WalkedSound
<1>11. WalkedAll'
  <2>1. pc' = "probe" => PathsTried' = PathsTried
    BY <1>1, <1>2 DEF PathsTried, Walking
  <2> QED BY <1>1, <1>2, <1>3, <1>9, <2>1, Frame DEF WalkedAll
<1>12. WalkedOnce'
  BY <1>1, <1>2, Frame DEF WalkedOnce
<1>13. ShownSound' /\ ShownAll' /\ SaysBroken'
  <2>1. PathsShown' = 0 /\ PathsShown = 0
    BY <1>1, <1>3 DEF PathsShown
  <2> QED BY <1>1, <1>2, <2>1, ShownFrame
<1> QED BY <1>5, <1>6, <1>7, <1>8, <1>10, <1>11, <1>12, <1>13 DEF IInv

-----------------------------------------------------------------------------
(***************************************************************************)
(* Walks.  A job that is due finds its place, unless someone changed it.   *)
(***************************************************************************)
LEMMA JobsArePlaces ==
  ASSUME IInv, pc \in Walking
  PROVE  /\ job \in Adapters \X Places
         /\ job[2] \in Untouched => Found
<1>1. Types /\ Loops /\ Due(job[1], job[2])
  BY DEF IInv, JobInv
<1>2. job[1] \in Adapters /\ job = <<job[1], job[2]>>
  BY <1>1 DEF Types
<1>3. job[2] \in Places
  BY <1>1, ScanLists DEF Loops
<1>4. job[2] \in Untouched => Found
  <2>1. CASE IsExplicit
    BY <1>1, <2>1 DEF Due, Found, Class, Exists, IsDir
  <2>2. CASE ~IsExplicit
    BY <1>1, <2>2 DEF Due, Found
  <2> QED BY <2>1, <2>2
<1> QED BY <1>2, <1>3, <1>4

\* The step with which a walk ends, whether it found something or not.
LEMMA WalkEnds ==
  ASSUME IInv, pc \in Walking, NextJob,
         UNCHANGED <<run, hfRoots, job, existed, shown, kind, changed>>,
         walked' \in Seq(Adapters \X Places),
         \A e \in Adapters, p \in Places :
           /\ WasWalked(e, p) => WasWalked(e, p)'
           /\ WasWalked(e, p)' => WasWalked(e, p) \/ job = <<e, p>>,
         job[2] \in Untouched => WasWalked(job[1], job[2])',
         ~IsExplicit => \A j, k \in DOMAIN walked' : walked'[j] = walked'[k] => j = k
  PROVE  IInv'
<1>1. /\ Types /\ Loops /\ Due(job[1], job[2]) /\ job[1] \in Adapters /\ job[2] \in Places
      /\ WalkedSound /\ WalkedAll /\ WalkedOnce /\ ShownSound /\ ShownAll /\ SaysBroken
  BY JobsArePlaces DEF IInv, JobInv
<1>2. \/ IsExplicit /\ Continue("dispatch", Len(run.paths), "show_path")
      \/ ~IsExplicit /\ job[1] = "hf_cache" /\ Continue("hf_next", Len(hfRoots), "ollama")
      \/ ~IsExplicit /\ job[1] # "hf_cache" /\ pc' = "show_hf" /\ at' = 1
  BY DEF NextJob
<1>3. /\ pc' \in {"dispatch", "show_path", "hf_next", "ollama", "show_hf"}
      /\ pc # "crashed" /\ pc # "hf_resolve"
  BY <1>2 DEF Continue, Walking
<1>4. RootsSound' /\ RootsAll' /\ RootsOnce'
  BY <1>3, RootsStay
<1>5. JobInv'
  BY <1>3 DEF JobInv, Walking
<1>6. WalkedSound'
  <2>1. \A e, p : Due(e, p)' <=> Due(e, p)
    BY Frame
  <2> QED BY <1>1, <2>1 DEF WalkedSound
<1>7. at \in Nat /\ \A k \in 1 .. at : k \in 1 .. at - 1 \/ k = at
  BY <1>1 DEF Types
<1>8. CASE IsExplicit
  <2>1. at \in DOMAIN run.paths /\ job[2] = run.paths[at]
    BY <1>1, <1>8 DEF Loops
  <2>2. /\ DOMAIN run.paths = 1 .. Len(run.paths) /\ Len(run.paths) \in Nat
        /\ at \in 1 .. Len(run.paths) /\ 1 \in DOMAIN run.paths
        /\ \A k \in DOMAIN run.paths : run.paths[k] \in Places
    BY <1>1, <1>8, <2>1, ScanLists
  <2>3. \/ at < Len(run.paths) /\ pc' = "dispatch" /\ at' = at + 1
        \/ ~(at < Len(run.paths)) /\ pc' = "show_path" /\ at' = 1
    BY <1>2, <1>8 DEF Continue
  <2>4. Types'
    BY <1>1, <1>7, <2>3 DEF Types, PathStages
  <2>5. Loops'
    <3>1. at < Len(run.paths) => at + 1 \in DOMAIN run.paths
      BY <2>2
    <3> QED BY <1>8, <2>2, <2>3, <3>1, Frame
            DEF Loops, DefaultStages, PathStages, Walking, ShowStages
  <2>6. PathsTried = at - 1 /\ PathsTried' = at
    BY <2>2, <2>3 DEF PathsTried, Walking
  <2>7. WalkedAll'
    <3> SUFFICES ASSUME NEW k \in 1 .. at,
                        run.paths[k] \in Untouched, Exists(run.paths[k])
                 PROVE  WasWalked(Class(run.paths[k]), run.paths[k])'
      BY <1>8, <2>6, Frame DEF WalkedAll
    <3>1. k \in DOMAIN run.paths /\ run.paths[k] \in Places
      BY <2>2
    <3>2. Class(run.paths[k]) \in Adapters /\ Class(run.paths[k])' = Class(run.paths[k])
      BY Frame DEF Class, Adapters
    <3>3. CASE k \in 1 .. at - 1
      BY <1>1, <1>3, <1>8, <2>6, <3>1, <3>2, <3>3 DEF WalkedAll
    <3>4. CASE k = at
      BY <1>1, <1>8, <2>1, <3>2, <3>4 DEF Due
    <3> QED BY <1>7, <3>3, <3>4
  <2>8. WalkedOnce'
    BY <1>8, Frame DEF WalkedOnce
  <2>9. ShownSound' /\ ShownAll' /\ SaysBroken'
    <3>1. PathsShown' = 0 /\ PathsShown = 0
      BY <2>3 DEF PathsShown, Walking
    <3> QED BY <1>1, <1>8, <3>1, ShownFrame
  <2> QED BY <1>4, <1>5, <1>6, <2>4, <2>5, <2>7, <2>8, <2>9 DEF IInv
<1>9. CASE ~IsExplicit
  <2>1. ~IsExplicit' /\ Untouched' = Untouched /\ OllamaCandidate' = OllamaCandidate
    BY <1>9, Frame
  <2>2. ShownSound' /\ ShownAll' /\ SaysBroken'
    <3>1. /\ pc' = "show_hf" => at' = 1
          /\ pc' \in {"hf_next", "ollama", "show_hf"}
      BY <1>2, <1>9 DEF Continue
    <3>2. ChainShown' = 0 /\ ChainShown = 0 /\ ~OllamaShown'
      BY <3>1 DEF ChainShown, OllamaShown, Walking
    <3> QED BY <1>1, <1>9, <3>2, ShownFrame
  <2>3. ~OllamaTried
    BY DEF OllamaTried, Walking, ShowStages
  <2>4. CASE job[1] = "hf_cache"
    <3>1. at \in DOMAIN hfRoots /\ job[2] = hfRoots[at]
      BY <1>1, <1>9, <2>4 DEF Loops
    <3>2. /\ DOMAIN hfRoots = 1 .. Len(hfRoots) /\ Len(hfRoots) \in Nat
          /\ at \in 1 .. Len(hfRoots)
          /\ \A k \in DOMAIN hfRoots : hfRoots[k] \in Places
      BY <1>1, <3>1, ScanLists
    <3>3. \/ at < Len(hfRoots) /\ pc' = "hf_next" /\ at' = at + 1
          \/ ~(at < Len(hfRoots)) /\ pc' = "ollama" /\ at' = 1
      BY <1>2, <1>9, <2>4 DEF Continue
    <3>4. Types'
      BY <1>1, <1>7, <3>3 DEF Types, DefaultStages
    <3>5. Loops'
      <4>1. at < Len(hfRoots) => at + 1 \in DOMAIN hfRoots
        BY <3>2
      <4> QED BY <2>1, <3>3, <4>1 DEF Loops, DefaultStages, PathStages, Walking, ShowStages
    <3>6. RootsTried = at - 1 /\ RootsTried' = at /\ ~OllamaTried'
      <4>1. RootsTried = at - 1
        BY <2>4 DEF RootsTried, Walking
      <4>2. ASSUME at < Len(hfRoots) PROVE RootsTried' = at
        <5>1. pc' = "hf_next" /\ at' = at + 1
          BY <3>3, <4>2
        <5>2. RootsTried' = at' - 1
          BY <5>1 DEF RootsTried
        <5> QED BY <3>2, <5>1, <5>2
      <4>3. ASSUME ~(at < Len(hfRoots)) PROVE RootsTried' = at
        <5>1. pc' = "ollama"
          BY <3>3, <4>3
        <5>2. RootsTried' = Len(hfRoots)
          BY <5>1 DEF RootsTried, Walking
        <5>3. at = Len(hfRoots)
          <6>1. at \in Int /\ Len(hfRoots) \in Int /\ at <= Len(hfRoots)
            BY <3>2
          <6> QED BY <4>3, <6>1
        <5> QED BY <5>2, <5>3
      <4>4. ~OllamaTried'
        BY <3>3 DEF OllamaTried, ShowStages
      <4> QED BY <4>1, <4>2, <4>3, <4>4
    <3>7. WalkedAll'
      <4> SUFFICES ASSUME NEW k \in 1 .. at, hfRoots[k] \in Untouched
                   PROVE  WasWalked("hf_cache", hfRoots[k])'
        BY <2>1, <3>6 DEF WalkedAll
      <4>1. hfRoots[k] \in Places /\ "hf_cache" \in Adapters
        BY <3>2 DEF Adapters
      <4>2. CASE k \in 1 .. at - 1
        BY <1>1, <1>3, <1>9, <3>6, <4>1, <4>2 DEF WalkedAll
      <4>3. CASE k = at
        BY <2>4, <3>1, <4>3
      <4> QED BY <1>7, <4>2, <4>3
    <3>8. WalkedOnce'
      <4>1. \A p \in Places : WasWalked("hf_cache", p)' => \E k \in 1 .. at : hfRoots[k] = p
        <5> SUFFICES ASSUME NEW p \in Places, WasWalked("hf_cache", p)'
                     PROVE  \E k \in 1 .. at : hfRoots[k] = p
          OBVIOUS
        <5>1. CASE WasWalked("hf_cache", p)
          BY <1>1, <1>7, <1>9, <3>6, <5>1 DEF WalkedOnce
        <5>2. CASE job = <<"hf_cache", p>>
          BY <1>7, <3>1, <3>2, <5>2
        <5> QED BY <5>1, <5>2 DEF Adapters
      <4>2. \A p \in Places : ~WasWalked("ollama", p)'
        BY <1>1, <1>9, <2>3, <2>4 DEF WalkedOnce, Adapters
      <4> QED BY <1>9, <3>6, <4>1, <4>2 DEF WalkedOnce
    <3> QED BY <1>4, <1>5, <1>6, <2>2, <3>4, <3>5, <3>7, <3>8 DEF IInv
  <2>5. CASE job[1] # "hf_cache"
    <3>1. job[1] = "ollama" /\ job[2] = OllamaCandidate /\ pc' = "show_hf" /\ at' = 1
      BY <1>1, <1>2, <1>9, <2>5 DEF Loops
    <3>2. 1 \in DOMAIN run.chain
      BY <1>1, ScanLists
    <3>3. Types'
      BY <1>1, <3>1 DEF Types, DefaultStages, ShowStages
    <3>4. Loops'
      BY <2>1, <3>1, <3>2 DEF Loops, DefaultStages, PathStages, Walking, ShowStages
    <3>5. RootsTried = Len(hfRoots) /\ RootsTried' = Len(hfRoots) /\ OllamaTried'
      BY <2>5, <3>1 DEF RootsTried, Walking, OllamaTried, ShowStages
    <3>6. \A k \in 1 .. Len(hfRoots) : hfRoots[k] \in Places
      BY <1>1, ScanLists
    <3>7. WalkedAll'
      BY <1>1, <1>3, <1>9, <2>1, <3>1, <3>5, <3>6 DEF WalkedAll, Adapters
    <3>8. WalkedOnce'
      BY <1>1, <1>9, <2>5, <3>5 DEF WalkedOnce, Adapters
    <3> QED BY <1>4, <1>5, <1>6, <2>2, <3>3, <3>4, <3>7, <3>8 DEF IInv
  <2> QED BY <2>4, <2>5
<1> QED BY <1>8, <1>9

\* A root that is not found was changed.
LEMMA ProbeStep ==
  ASSUME IInv, Probe
  PROVE  IInv'
<1>1. /\ pc = "probe"
      /\ UNCHANGED <<run, hfRoots, job, existed, walked, shown, kind, changed>>
      /\ \/ Found /\ pc' = "walk" /\ at' = at
         \/ ~Found /\ NextJob
  BY DEF Probe
<1>2. \A e, p : WasWalked(e, p)' <=> WasWalked(e, p)
  BY <1>1 DEF WasWalked
<1>3. CASE ~Found
  <2>1. walked' \in Seq(Adapters \X Places) /\ job[2] \notin Untouched /\ pc \in Walking
    BY <1>1, <1>3, JobsArePlaces DEF IInv, Types, Walking
  <2>2. ~IsExplicit => \A j, k \in DOMAIN walked' : walked'[j] = walked'[k] => j = k
    BY <1>1 DEF IInv, WalkedOnce
  <2>3. NextJob
    BY <1>1, <1>3
  <2> QED BY <1>1, <1>2, <2>1, <2>2, <2>3, WalkEnds
<1>4. CASE Found
  <2>1. /\ Types /\ Loops /\ JobInv
        /\ WalkedSound /\ WalkedAll /\ WalkedOnce /\ ShownSound /\ ShownAll /\ SaysBroken
    BY DEF IInv
  <2>2. pc' = "walk" /\ at' = at
    BY <1>1, <1>4
  <2>3. Types'
    BY <1>1, <2>1, <2>2 DEF Types, Walking
  <2>4. Loops'
    BY <1>1, <2>1, <2>2, Frame DEF Loops, DefaultStages, PathStages, Walking, ShowStages
  <2>5. JobInv'
    <3>1. Due(job[1], job[2])'
      BY <1>1, <2>1, Frame DEF JobInv, Walking
    <3> QED BY <2>2, <3>1 DEF JobInv
  <2>6. RootsSound' /\ RootsAll' /\ RootsOnce'
    BY <1>1, <2>2, RootsStay
  <2>7. WalkedSound' /\ WalkedAll' /\ WalkedOnce'
    <3>1. PathsTried' = PathsTried /\ RootsTried' = RootsTried
      BY <1>1, <2>2 DEF PathsTried, RootsTried, Walking
    <3>2. ~OllamaTried /\ ~OllamaTried'
      BY <1>1, <2>2 DEF OllamaTried, ShowStages
    <3> QED BY <1>1, <2>1, <3>1, <3>2, WalkedFrame
  <2>8. ShownSound' /\ ShownAll' /\ SaysBroken'
    <3>1. PathsShown' = PathsShown /\ ChainShown' = ChainShown /\ ~OllamaShown'
      BY <1>1, <2>2 DEF PathsShown, ChainShown, OllamaShown
    <3> QED BY <1>1, <2>1, <3>1, ShownFrame
  <2> QED BY <2>3, <2>4, <2>5, <2>6, <2>7, <2>8 DEF IInv
<1> QED BY <1>3, <1>4

\* A walk that finds its root is taken down, once.
LEMMA WalkStep ==
  ASSUME IInv, Walk
  PROVE  IInv'
<1>1. /\ pc = "walk" /\ pc \in Walking
      /\ UNCHANGED <<run, hfRoots, job, existed, shown, kind, changed>>
      /\ \/ pc' = "crashed" /\ UNCHANGED <<at, walked>>
         \/ NextJob /\ Found /\ walked' = Append(walked, job)
         \/ NextJob /\ ~Found /\ walked' = walked
  BY DEF Walk, Walking
<1>2. /\ Types /\ Loops /\ WalkedSound /\ WalkedAll /\ WalkedOnce
      /\ ShownSound /\ ShownAll /\ SaysBroken /\ RootsOnce
      /\ job \in Adapters \X Places
      /\ job[2] \in Untouched => Found
  BY <1>1, JobsArePlaces DEF IInv
<1>3. CASE NextJob /\ Found /\ walked' = Append(walked, job)
  <2>1. /\ walked' \in Seq(Adapters \X Places)
        /\ \A e \in Adapters, p \in Places :
             WasWalked(e, p)' <=> WasWalked(e, p) \/ job = <<e, p>>
        /\ /\ \A j, k \in DOMAIN walked : walked[j] = walked[k] => j = k
           /\ ~WasWalked(job[1], job[2])
           => \A j, k \in DOMAIN walked' : walked'[j] = walked'[k] => j = k
    BY <1>2, <1>3, WalkAppended
  <2>2. ~IsExplicit => ~WasWalked(job[1], job[2])
    <3> SUFFICES ASSUME ~IsExplicit, WasWalked(job[1], job[2]) PROVE FALSE
      OBVIOUS
    <3>1. CASE job[1] = "hf_cache"
      <4>1. at \in DOMAIN hfRoots /\ job[2] = hfRoots[at] /\ RootsTried = at - 1
        BY <1>1, <1>2, <3>1 DEF Loops, RootsTried
      <4>2. PICK k \in 1 .. at - 1 : hfRoots[k] = hfRoots[at]
        BY <1>2, <3>1, <4>1 DEF WalkedOnce
      <4>3. at \in 1 .. Len(hfRoots) /\ Len(hfRoots) \in Nat /\ DOMAIN hfRoots = 1 .. Len(hfRoots)
        BY <1>2, <4>1, ScanLists
      <4>4. k \in DOMAIN hfRoots /\ k # at
        BY <4>3
      <4> QED BY <1>2, <4>1, <4>2, <4>4 DEF RootsOnce
    <3>2. CASE job[1] # "hf_cache"
      <4>1. job[1] = "ollama" /\ job[2] \in Places
        BY <1>1, <1>2, <3>2 DEF Loops
      <4>2. OllamaTried
        BY <1>2, <4>1 DEF WalkedOnce
      <4> QED BY <1>1, <4>2 DEF OllamaTried, ShowStages
    <3> QED BY <3>1, <3>2
  <2>3. ~IsExplicit => \A j, k \in DOMAIN walked' : walked'[j] = walked'[k] => j = k
    BY <1>2, <2>1, <2>2 DEF WalkedOnce
  <2>4. WasWalked(job[1], job[2])'
    <3>1. job[1] \in Adapters /\ job[2] \in Places /\ job = <<job[1], job[2]>>
      BY <1>2
    <3>2. \E k \in DOMAIN walked' : walked'[k] = <<job[1], job[2]>>
      BY <2>1, <3>1 DEF WasWalked
    <3> QED BY <1>1, <3>2 DEF WasWalked
  <2> QED BY <1>1, <1>3, <2>1, <2>3, <2>4, WalkEnds
<1>4. CASE NextJob /\ ~Found /\ walked' = walked
  <2>1. \A e, p : WasWalked(e, p)' <=> WasWalked(e, p)
    BY <1>4 DEF WasWalked
  <2>2. ~IsExplicit => \A j, k \in DOMAIN walked' : walked'[j] = walked'[k] => j = k
    BY <1>2, <1>4 DEF WalkedOnce
  <2>3. walked' \in Seq(Adapters \X Places)
    BY <1>2, <1>4 DEF Types
  <2> QED BY <1>1, <1>2, <1>4, <2>1, <2>2, <2>3, WalkEnds
<1>5. CASE pc' = "crashed" /\ UNCHANGED <<at, walked>>
  <2>1. Types'
    BY <1>1, <1>2, <1>5 DEF Types
  <2>2. Loops' /\ JobInv'
    BY <1>5 DEF Loops, JobInv, DefaultStages, PathStages, Walking, ShowStages
  <2>3. RootsSound' /\ RootsAll' /\ RootsOnce'
    BY <1>1, <1>5, RootsStay
  <2>4. \A e, p : /\ WasWalked(e, p)' <=> WasWalked(e, p)
                  /\ Due(e, p)' <=> Due(e, p)
    BY <1>1, <1>5, Frame DEF WasWalked
  <2>5. WalkedSound' /\ WalkedAll'
    BY <1>2, <1>5, <2>4 DEF WalkedSound, WalkedAll
  <2>6. WalkedOnce'
    <3>1. ~IsExplicit => 1 .. RootsTried \subseteq 1 .. RootsTried'
      <4>1. RootsTried' = Len(hfRoots)
        BY <1>1, <1>5 DEF RootsTried, Walking
      <4>2. Len(hfRoots) \in Nat /\ DOMAIN hfRoots = 1 .. Len(hfRoots)
        BY <1>2, ScanLists
      <4>3. CASE job[1] = "hf_cache"
        <5>1. ~IsExplicit => at \in 1 .. Len(hfRoots)
          BY <1>1, <1>2, <4>2, <4>3 DEF Loops
        <5>2. RootsTried = at - 1
          BY <1>1, <4>3 DEF RootsTried
        <5> QED BY <4>1, <4>2, <5>1, <5>2
      <4>4. CASE job[1] # "hf_cache"
        BY <1>1, <4>1, <4>4 DEF RootsTried
      <4> QED BY <4>3, <4>4
    <3>2. ~OllamaTried
      BY <1>1 DEF OllamaTried, ShowStages
    <3> QED BY <1>1, <1>2, <1>5, <2>4, <3>1, <3>2, Frame DEF WalkedOnce
  <2>7. ShownSound' /\ ShownAll' /\ SaysBroken'
    <3>1. PathsShown' = 0 /\ PathsShown = 0 /\ ChainShown' = 0 /\ ChainShown = 0 /\ ~OllamaShown'
      BY <1>1, <1>5 DEF PathsShown, ChainShown, OllamaShown
    <3> QED BY <1>1, <1>2, <3>1, ShownFrame
  <2> QED BY <2>1, <2>2, <2>3, <2>5, <2>6, <2>7 DEF IInv
<1> QED BY <1>1, <1>3, <1>4, <1>5

-----------------------------------------------------------------------------
(***************************************************************************)
(* The report.                                                             *)
(***************************************************************************)
\* A step of the report leaves everything about the walks as it is.
LEMMA WalksStay ==
  ASSUME IInv,
         \/ pc \in ShowStages /\ pc' \in ShowStages \cup {"done"}
         \/ pc \in {"show_path", "show_class"} /\ pc' \in {"show_path", "show_class", "done"},
         UNCHANGED <<run, hfRoots, job, walked, kind, changed>>
  PROVE  /\ RootsSound' /\ RootsAll' /\ RootsOnce'
         /\ WalkedSound' /\ WalkedAll' /\ WalkedOnce'
<1>1. ~IsExplicit => pc \in ShowStages /\ pc' \in ShowStages \cup {"done"}
  BY DEF IInv, Loops, PathStages
<1>2. ~IsExplicit => OllamaTried /\ OllamaTried'
  BY <1>1 DEF OllamaTried
<1>3. PathsTried' = PathsTried /\ RootsTried' = RootsTried
  BY DEF PathsTried, RootsTried, Walking, ShowStages
<1>4. pc \notin {"hf_resolve", "crashed"} /\ pc' # "hf_resolve"
  BY DEF ShowStages
<1>5. WalkedSound' /\ WalkedAll' /\ WalkedOnce'
  BY <1>2, <1>3, <1>4, WalkedFrame DEF IInv
<1> QED BY <1>4, <1>5, RootsStay

\* The second resolution of the chain shows what the first one gave.
LEMMA ShowHfStep ==
  ASSUME IInv, ShowHf
  PROVE  IInv'
<1> DEFINE p == run.chain[at]
           n == Len(run.chain)
           rows == shown \o (IF FirstOf(run.chain, at) THEN HfRow(p) ELSE <<>>)
           none == ScanRoot("hf_cache", NoPlace, FALSE, FALSE)
           row == ScanRoot("hf_cache", p, TRUE, TRUE)
<1>1. /\ pc = "show_hf" /\ ~IsExplicit /\ at \in DOMAIN run.chain /\ Types
      /\ ShownSound /\ ShownAll /\ SaysBroken
  BY DEF IInv, ShowHf, Loops, DefaultStages, ShowStages
<1>2. UNCHANGED <<run, hfRoots, job, existed, walked, kind, changed>>
  BY DEF ShowHf
<1>3. shown' = IF at = n /\ rows = <<>> THEN <<none>> ELSE rows
  BY DEF ShowHf
<1>4. \/ at < n /\ pc' = "show_hf" /\ at' = at + 1
      \/ ~(at < n) /\ pc' = "show_ollama" /\ at' = 1
  BY DEF ShowHf, Continue
<1>5. /\ n \in Nat /\ DOMAIN run.chain = 1 .. n /\ at \in 1 .. n /\ p \in Places
      /\ \A k \in DOMAIN run.chain : run.chain[k] \in Places
  BY <1>1, ScanLists
<1>6. shown \in Seq(Rows) /\ none \in Rows /\ row \in Rows
  BY <1>1, <1>5 DEF Types, Rows, ScanRoot, Adapters
<1>7. Due("hf_cache", p) \/ ~IsDir(p)
  BY <1>1 DEF Due, IsCandidate
<1>8. /\ shown' \in Seq(Rows)
      /\ \A e \in Adapters, q \in Places :
           SaysScanned(e, q)' <=>
             \/ SaysScanned(e, q)
             \/ e = "hf_cache" /\ q = p /\ FirstOf(run.chain, at) /\ IsDir(p)
  <2>1. CASE FirstOf(run.chain, at) /\ IsDir(p)
    <3>1. rows = shown \o <<row>>
      BY <2>1 DEF HfRow
    <3>2. rows = Append(shown, row)
      BY <1>6, <3>1, AppendIsConcat
    <3>3. rows # <<>>
      <4>1. Len(rows) = Len(shown) + 1
        <5> HIDE DEF row, rows
        <5> QED BY <1>6, <3>2, AppendProperties
      <4>2. Len(shown) \in Nat
        BY <1>6, LenProperties
      <4>3. Len(<<>>) = 0
        BY EmptySeq
      <4> QED BY <4>1, <4>2, <4>3
    <3>4. shown' = Append(shown, row)
      BY <1>3, <3>2, <3>3
    <3>5. /\ shown' \in Seq(Rows)
          /\ \A e \in Adapters, q \in Places :
               SaysScanned(e, q)' <=>
                 SaysScanned(e, q) \/ (row.ecosystem = e /\ row.place = q /\ row.scanned)
      <4> HIDE DEF row
      <4> QED BY <1>1, <1>6, <3>4, RowAppended
    <3>6. row.ecosystem = "hf_cache" /\ row.place = p /\ row.scanned
      BY DEF ScanRoot
    <3> QED BY <2>1, <3>5, <3>6
  <2>2. CASE ~(FirstOf(run.chain, at) /\ IsDir(p))
    <3>1. rows = shown
      <4>1. rows = shown \o <<>>
        BY <2>2 DEF HfRow
      <4> QED BY <1>6, <4>1, ConcatEmptySeq
    <3>2. CASE at = n /\ shown = <<>>
      <4>1. shown' = <<none>>
        BY <1>3, <3>1, <3>2
      <4>2. DOMAIN shown' = {1} /\ shown'[1] = none
        BY <4>1
      <4>3. ~none.scanned
        BY DEF ScanRoot
      <4>4. \A e, q : ~SaysScanned(e, q)'
        BY <4>2, <4>3 DEF SaysScanned
      <4>5. \A e, q : ~SaysScanned(e, q)
        <5>1. Len(<<>>) = 0 /\ DOMAIN <<>> = {}
          BY EmptySeq
        <5> QED BY <3>2, <5>1 DEF SaysScanned
      <4>6. shown' \in Seq(Rows)
        <5>1. <<none>> = Append(<<>>, none)
          OBVIOUS
        <5>2. <<>> \in Seq(Rows)
          BY EmptySeq
        <5> HIDE DEF none
        <5> QED BY <1>6, <4>1, <5>1, <5>2, AppendProperties
      <4> QED BY <2>2, <4>4, <4>5, <4>6
    <3>3. CASE ~(at = n /\ shown = <<>>)
      <4>1. shown' = shown
        BY <1>3, <3>1, <3>3
      <4>2. \A e, q : SaysScanned(e, q)' <=> SaysScanned(e, q)
        BY <4>1 DEF SaysScanned
      <4> QED BY <1>6, <2>2, <4>1, <4>2
    <3> QED BY <3>2, <3>3
  <2> QED BY <2>1, <2>2
<1>9. Types'
  BY <1>1, <1>2, <1>4, <1>5, <1>8 DEF Types, DefaultStages, ShowStages
<1>10. Loops'
  <2>1. at < n => at + 1 \in DOMAIN run.chain
    BY <1>5
  <2> QED BY <1>1, <1>2, <1>4, <2>1, Frame
          DEF Loops, DefaultStages, PathStages, Walking, ShowStages
<1>11. JobInv'
  BY <1>4 DEF JobInv, Walking
<1>12. /\ RootsSound' /\ RootsAll' /\ RootsOnce'
       /\ WalkedSound' /\ WalkedAll' /\ WalkedOnce'
  BY <1>1, <1>2, <1>4, WalksStay DEF ShowStages
<1>13. ShownSound'
  BY <1>1, <1>2, <1>7, <1>8, Frame DEF ShownSound
<1>14. ShownAll'
  <2>1. ChainShown = at - 1 /\ ChainShown' = at /\ ~OllamaShown'
    <3>1. ChainShown = at - 1 /\ ~OllamaShown'
      BY <1>1, <1>4 DEF ChainShown, OllamaShown
    <3>2. ASSUME at < n PROVE ChainShown' = at
      <4>1. pc' = "show_hf" /\ at' = at + 1
        BY <1>4, <3>2
      <4>2. ChainShown' = at' - 1
        BY <4>1 DEF ChainShown
      <4> QED BY <1>5, <4>1, <4>2
    <3>3. ASSUME ~(at < n) PROVE ChainShown' = at
      <4>1. ChainShown' = n
        BY <1>2, <1>4, <3>3 DEF ChainShown
      <4> QED BY <1>5, <3>3, <4>1
    <3> QED BY <3>1, <3>2, <3>3
  <2> SUFFICES ASSUME NEW k \in 1 .. at, run.chain[k] \in Untouched, IsDir(run.chain[k])
               PROVE  SaysScanned("hf_cache", run.chain[k])'
    BY <1>1, <1>2, <2>1, Frame DEF ShownAll
  <2>2. "hf_cache" \in Adapters /\ run.chain[k] \in Places
    BY <1>5 DEF Adapters
  <2>3. ASSUME NEW j \in 1 .. at - 1, run.chain[j] = run.chain[k]
        PROVE  SaysScanned("hf_cache", run.chain[k])
    BY <1>1, <2>1, <2>3 DEF ShownAll
  <2>4. CASE k \in 1 .. at - 1
    BY <1>2, <1>8, <2>2, <2>3, <2>4
  <2>5. CASE k = at /\ ~FirstOf(run.chain, at)
    BY <1>2, <1>8, <2>2, <2>3, <2>5 DEF FirstOf
  <2>6. CASE k = at /\ FirstOf(run.chain, at)
    BY <1>2, <1>8, <2>2, <2>6
  <2>7. k \in 1 .. at - 1 \/ k = at
    BY <1>5
  <2> QED BY <2>4, <2>5, <2>6, <2>7
<1>15. SaysBroken'
  BY <1>4 DEF SaysBroken, OllamaShown
<1> QED BY <1>9, <1>10, <1>11, <1>12, <1>13, <1>14, <1>15 DEF IInv

\* The second resolution of the Ollama root shows what the first one gave.
LEMMA ShowOllamaStep ==
  ASSUME IInv, ShowOllama
  PROVE  IInv'
<1> DEFINE row == OllamaRow
           broken == ScanRoot("ollama", run.ollama, FALSE, FALSE)
<1>1. /\ pc = "show_ollama" /\ ~IsExplicit /\ Types
      /\ ShownSound /\ ShownAll /\ SaysBroken
  BY DEF IInv, ShowOllama, Loops, DefaultStages, ShowStages
<1>2. /\ shown' = Append(shown, row) /\ pc' = "show_lmstudio"
      /\ UNCHANGED <<run, at, hfRoots, job, existed, walked, kind, changed>>
  BY DEF ShowOllama
<1>3. /\ OllamaCandidate \in Places /\ OllamaCandidate # NoPlace
      /\ \A k \in DOMAIN run.chain : run.chain[k] \in Places
      /\ DOMAIN run.chain = 1 .. Len(run.chain)
  BY <1>1, ScanLists, DiscoveryConstants
<1>4. /\ row \in Rows /\ row.ecosystem = "ollama"
      /\ row.scanned <=> IsDir(OllamaCandidate)
      /\ row.scanned => row.place = OllamaCandidate
  <2>1. CASE run.ollama # NoPlace
    <3>1. /\ OllamaCandidate = run.ollama
          /\ row = ScanRoot("ollama", run.ollama, IsDir(run.ollama), IsDir(run.ollama))
      BY <2>1 DEF OllamaCandidate, OllamaRow
    <3>2. IsDir(run.ollama) \in BOOLEAN
      BY DEF IsDir
    <3> QED BY <1>3, <3>1, <3>2 DEF ScanRoot, Rows, Adapters
  <2>2. CASE run.ollama = NoPlace /\ IsDir(OllamaDefault)
    <3>1. /\ OllamaCandidate = OllamaDefault
          /\ row = ScanRoot("ollama", OllamaDefault, TRUE, TRUE)
      BY <2>2 DEF OllamaCandidate, OllamaRow
    <3> QED BY <1>3, <2>2, <3>1 DEF ScanRoot, Rows, Adapters
  <2>3. CASE run.ollama = NoPlace /\ ~IsDir(OllamaDefault)
    <3>1. /\ OllamaCandidate = OllamaDefault
          /\ row = ScanRoot("ollama", NoPlace, FALSE, FALSE)
      BY <2>3 DEF OllamaCandidate, OllamaRow
    <3> QED BY <1>3, <2>3, <3>1 DEF ScanRoot, Rows, Adapters
  <2> QED BY <2>1, <2>2, <2>3
<1>5. run.ollama \in Places /\ ~IsDir(run.ollama) => row = broken
  <2> SUFFICES ASSUME run.ollama \in Places, ~IsDir(run.ollama) PROVE row = broken
    OBVIOUS
  <2>1. run.ollama # NoPlace
    BY DiscoveryConstants
  <2>2. row = ScanRoot("ollama", run.ollama, IsDir(run.ollama), IsDir(run.ollama))
    BY <2>1 DEF OllamaRow
  <2>3. IsDir(run.ollama) = FALSE
    BY DEF IsDir
  <2> QED BY <2>2, <2>3
<1>6. /\ shown' \in Seq(Rows)
      /\ \A e \in Adapters, q \in Places :
           SaysScanned(e, q)' <=>
             SaysScanned(e, q) \/ (row.ecosystem = e /\ row.place = q /\ row.scanned)
      /\ \E k \in DOMAIN shown' : shown'[k] = row
  <2> HIDE DEF row
  <2> QED BY <1>1, <1>2, <1>4, RowAppended
<1>7. Types'
  BY <1>1, <1>2, <1>6 DEF Types, DefaultStages, ShowStages
<1>8. Loops' /\ JobInv'
  BY <1>1, <1>2, Frame
     DEF Loops, JobInv, DefaultStages, PathStages, Walking, ShowStages
<1>9. /\ RootsSound' /\ RootsAll' /\ RootsOnce'
      /\ WalkedSound' /\ WalkedAll' /\ WalkedOnce'
  BY <1>1, <1>2, WalksStay DEF ShowStages
<1> HIDE DEF row
<1>10. ShownSound'
  <2>1. IsDir(OllamaCandidate) => Due("ollama", OllamaCandidate)
    BY <1>1 DEF Due
  <2>2. \A e, q : Due(e, q)' <=> Due(e, q)
    BY <1>2, Frame
  <2> QED BY <1>1, <1>4, <1>6, <2>1, <2>2 DEF ShownSound
<1>11. ShownAll'
  <2>1. ChainShown' = Len(run.chain) /\ ChainShown = Len(run.chain)
    BY <1>1, <1>2 DEF ChainShown
  <2>2. \A k \in 1 .. Len(run.chain) :
          run.chain[k] \in Untouched /\ IsDir(run.chain[k])
            => SaysScanned("hf_cache", run.chain[k])'
    <3>1. \A k \in 1 .. Len(run.chain) :
            run.chain[k] \in Untouched /\ IsDir(run.chain[k])
              => SaysScanned("hf_cache", run.chain[k])
      BY <1>1, <2>1 DEF ShownAll
    <3>2. \A q \in Places : SaysScanned("hf_cache", q) => SaysScanned("hf_cache", q)'
      BY <1>6 DEF Adapters
    <3> QED BY <1>2, <1>3, <3>1, <3>2
  <2>3. IsDir(OllamaCandidate) => SaysScanned("ollama", OllamaCandidate)'
    <3>1. \A q \in Places : q = OllamaCandidate /\ IsDir(q) => SaysScanned("ollama", q)'
      BY <1>3, <1>4, <1>6 DEF Adapters
    <3> QED BY <1>2, <1>3, <3>1, Frame
  <2> QED BY <1>1, <1>2, <2>1, <2>2, <2>3, Frame DEF ShownAll
<1>12. SaysBroken'
  <2>1. run.ollama \in Untouched /\ ~IsDir(run.ollama) =>
          \E k \in DOMAIN shown' : shown'[k] = broken
    BY <1>5, <1>6 DEF Untouched
  <2> QED BY <1>2, <2>1, Frame DEF SaysBroken, ScanRoot
<1> QED BY <1>7, <1>8, <1>9, <1>10, <1>11, <1>12 DEF IInv

\* The row of LM Studio says nothing of a walk.
LEMMA ShowLMStudioStep ==
  ASSUME IInv, ShowLMStudio
  PROVE  IInv'
<1> DEFINE row == ScanRoot("lmstudio", LMStudio, TRUE, FALSE)
<1>1. /\ pc = "show_lmstudio" /\ ~IsExplicit /\ Types
      /\ ShownSound /\ ShownAll /\ SaysBroken
  BY DEF IInv, ShowLMStudio, Loops, DefaultStages, ShowStages
<1>2. /\ shown' \in {shown, Append(shown, row)} /\ pc' = "done"
      /\ UNCHANGED <<run, at, hfRoots, job, existed, walked, kind, changed>>
  BY DEF ShowLMStudio
<1>3. row \in Rows /\ ~row.scanned
  BY DiscoveryConstants DEF ScanRoot, Rows
<1>4. /\ shown' \in Seq(Rows)
      /\ \A e \in Adapters, q \in Places : SaysScanned(e, q)' <=> SaysScanned(e, q)
      /\ \A r : (\E k \in DOMAIN shown : shown[k] = r) =>
                  \E k \in DOMAIN shown' : shown'[k] = r
  <2> HIDE DEF row
  <2>1. CASE shown' = shown
    BY <1>1, <2>1 DEF Types, SaysScanned
  <2>2. CASE shown' = Append(shown, row)
    BY <1>1, <1>3, <2>2, RowAppended
  <2> QED BY <1>2, <2>1, <2>2
<1>5. Types'
  BY <1>1, <1>2, <1>4 DEF Types
<1>6. Loops' /\ JobInv'
  BY <1>2 DEF Loops, JobInv, DefaultStages, PathStages, Walking, ShowStages
<1>7. /\ RootsSound' /\ RootsAll' /\ RootsOnce'
      /\ WalkedSound' /\ WalkedAll' /\ WalkedOnce'
  BY <1>1, <1>2, WalksStay DEF ShowStages
<1>8. ShownSound'
  BY <1>1, <1>2, <1>4, Frame DEF ShownSound
<1>9. ShownAll'
  <2>1. ChainShown' = ChainShown /\ OllamaShown /\ ChainShown = Len(run.chain)
    BY <1>1, <1>2 DEF ChainShown, OllamaShown
  <2>2. /\ \A k \in 1 .. Len(run.chain) : run.chain[k] \in Places
        /\ OllamaCandidate \in Places
    BY <1>1, ScanLists
  <2> QED BY <1>1, <1>2, <1>4, <2>1, <2>2, Frame DEF ShownAll, Adapters
<1>10. SaysBroken'
  <2>1. OllamaShown
    BY <1>1 DEF OllamaShown
  <2> QED BY <1>1, <1>2, <1>4, <2>1, Frame DEF SaysBroken, ScanRoot
<1> QED BY <1>5, <1>6, <1>7, <1>8, <1>9, <1>10 DEF IInv

\* An explicit path is probed again before it is classified.
LEMMA ShowPathStep ==
  ASSUME IInv, ShowPath
  PROVE  IInv'
<1>1. /\ pc = "show_path" /\ IsExplicit /\ Types /\ at \in DOMAIN run.paths
      /\ ShownSound /\ ShownAll /\ SaysBroken
  BY DEF IInv, ShowPath, Loops, PathStages
<1>2. /\ existed' = Exists(run.paths[at]) /\ pc' = "show_class"
      /\ UNCHANGED <<run, at, hfRoots, job, walked, shown, kind, changed>>
  BY DEF ShowPath
<1>3. Types'
  <2>1. existed' \in BOOLEAN
    BY <1>2 DEF Exists
  <2> QED BY <1>1, <1>2, <2>1 DEF Types, PathStages
<1>4. Loops'
  BY <1>1, <1>2, Frame DEF Loops, DefaultStages, PathStages, Walking, ShowStages
<1>5. JobInv'
  BY <1>2, Frame DEF JobInv, Walking
<1>6. /\ RootsSound' /\ RootsAll' /\ RootsOnce'
      /\ WalkedSound' /\ WalkedAll' /\ WalkedOnce'
  BY <1>1, <1>2, WalksStay
<1>7. ShownSound' /\ ShownAll' /\ SaysBroken'
  <2>1. PathsShown' = PathsShown
    BY <1>1, <1>2 DEF PathsShown
  <2> QED BY <1>1, <1>2, <2>1, ShownFrame
<1> QED BY <1>3, <1>4, <1>5, <1>6, <1>7 DEF IInv

\* The second classification of a path shows what the first one gave.
LEMMA ShowClassStep ==
  ASSUME IInv, ShowClass
  PROVE  IInv'
<1> DEFINE p == run.paths[at]
           n == Len(run.paths)
           row == ScanRoot(Class(p), p, existed, existed)
<1>1. /\ pc = "show_class" /\ IsExplicit /\ Types /\ at \in DOMAIN run.paths /\ JobInv
      /\ WalkedSound /\ WalkedAll /\ WalkedOnce /\ ShownSound /\ ShownAll /\ SaysBroken
  BY DEF IInv, ShowClass, Loops, PathStages
<1>2. UNCHANGED <<run, hfRoots, job, existed, walked, kind, changed>>
  BY DEF ShowClass
<1>3. \/ pc' = "crashed" /\ UNCHANGED <<at, shown>>
      \/ shown' = Append(shown, row) /\ Continue("show_path", n, "done")
  BY DEF ShowClass
<1>4. /\ n \in Nat /\ DOMAIN run.paths = 1 .. n /\ at \in 1 .. n
      /\ \A k \in DOMAIN run.paths : run.paths[k] \in Places
      /\ p \in Places
  BY <1>1, ScanLists
<1>5. ~IsExplicit' <=> FALSE
  BY <1>1, <1>2, Frame
<1>6. CASE pc' = "crashed" /\ UNCHANGED <<at, shown>>
  <2>1. Types'
    BY <1>1, <1>2, <1>6 DEF Types
  <2>2. Loops' /\ JobInv'
    BY <1>6 DEF Loops, JobInv, DefaultStages, PathStages, Walking, ShowStages
  <2>3. RootsSound' /\ RootsAll' /\ RootsOnce'
    BY <1>1, <1>2, <1>6, RootsStay
  <2>4. \A e, q : /\ WasWalked(e, q)' <=> WasWalked(e, q)
                  /\ Due(e, q)' <=> Due(e, q)
    BY <1>2, Frame DEF WasWalked
  <2>5. WalkedSound' /\ WalkedAll' /\ WalkedOnce'
    BY <1>1, <1>5, <1>6, <2>4 DEF WalkedSound, WalkedAll, WalkedOnce
  <2>6. ShownSound' /\ ShownAll' /\ SaysBroken'
    <3>1. PathsShown' = 0
      BY <1>6 DEF PathsShown
    <3>2. 1 .. PathsShown' \subseteq 1 .. PathsShown
      <4>1. 1 .. 0 = {}
        OBVIOUS
      <4> QED BY <3>1, <4>1
    <3> QED BY <1>1, <1>2, <1>6, <3>2, ShownFrame
  <2> QED BY <2>1, <2>2, <2>3, <2>5, <2>6 DEF IInv
<1>7. CASE shown' = Append(shown, row) /\ Continue("show_path", n, "done")
  <2>1. \/ at < n /\ pc' = "show_path" /\ at' = at + 1
        \/ ~(at < n) /\ pc' = "done" /\ at' = 1
    BY <1>7 DEF Continue
  <2>2. Class(p) \in Adapters /\ existed \in BOOLEAN
    BY <1>1 DEF Class, Adapters, Types
  <2>3. row \in Rows /\ row.ecosystem = Class(p) /\ row.place = p /\ row.scanned = existed
    BY <1>4, <2>2 DEF ScanRoot, Rows
  <2>4. /\ shown' \in Seq(Rows)
        /\ \A e \in Adapters, q \in Places :
             SaysScanned(e, q)' <=> SaysScanned(e, q) \/ (Class(p) = e /\ p = q /\ existed)
    <3>1. /\ shown' \in Seq(Rows)
          /\ \A e \in Adapters, q \in Places :
               SaysScanned(e, q)' <=>
                 SaysScanned(e, q) \/ (row.ecosystem = e /\ row.place = q /\ row.scanned)
      <4> HIDE DEF row
      <4> QED BY <1>1, <1>7, <2>3, RowAppended
    <3> QED BY <2>3, <3>1
  <2>5. Types'
    BY <1>1, <1>2, <1>4, <2>1, <2>4 DEF Types, PathStages
  <2>6. Loops'
    <3>1. at < n => at + 1 \in DOMAIN run.paths
      BY <1>4
    <3> QED BY <1>1, <1>2, <2>1, <3>1, Frame
            DEF Loops, DefaultStages, PathStages, Walking, ShowStages
  <2>7. JobInv'
    BY <2>1 DEF JobInv, Walking
  <2>8. /\ RootsSound' /\ RootsAll' /\ RootsOnce'
        /\ WalkedSound' /\ WalkedAll' /\ WalkedOnce'
    BY <1>1, <1>2, <2>1, WalksStay
  <2>9. ShownSound'
    <3>1. existed => Due(Class(p), p)
      BY <1>1 DEF Due, JobInv
    <3>2. \A e, q : Due(e, q)' <=> Due(e, q)
      BY <1>2, Frame
    <3> QED BY <1>1, <2>4, <3>1, <3>2 DEF ShownSound
  <2>10. ShownAll'
    <3>1. PathsShown = at - 1
      BY <1>1 DEF PathsShown
    <3>2. PathsShown' = at
      <4>1. ASSUME at < n PROVE PathsShown' = at
        <5>1. pc' = "show_path" /\ at' = at + 1
          BY <2>1, <4>1
        <5>2. PathsShown' = at' - 1
          BY <5>1 DEF PathsShown
        <5> QED BY <1>4, <5>1, <5>2
      <4>2. ASSUME ~(at < n) PROVE PathsShown' = at
        <5>1. PathsShown' = n
          BY <1>2, <2>1, <4>2 DEF PathsShown
        <5>2. at \in Int /\ n \in Int /\ at <= n
          BY <1>4
        <5> QED BY <4>2, <5>1, <5>2
      <4> QED BY <4>1, <4>2
    <3>3. ASSUME NEW q \in Places, NEW k \in 1 .. at, q = run.paths[k], q \in Untouched, Exists(q)
          PROVE  SaysScanned(Class(q), q)'
      <4>1. Class(q) \in Adapters /\ Class(q)' = Class(q)
        BY <1>2, Frame DEF Class, Adapters
      <4>2. CASE k \in 1 .. at - 1
        BY <1>1, <2>4, <3>1, <3>3, <4>1, <4>2 DEF ShownAll
      <4>3. CASE k = at
        BY <1>1, <2>4, <3>3, <4>1, <4>3 DEF JobInv
      <4>4. k \in 1 .. at - 1 \/ k = at
        BY <1>4
      <4> QED BY <4>2, <4>3, <4>4
    <3>4. \A k \in 1 .. at : run.paths[k] \in Places
      BY <1>4
    <3> QED BY <1>1, <1>2, <3>2, <3>3, <3>4, Frame DEF ShownAll
  <2>11. SaysBroken'
    BY <1>5 DEF SaysBroken
  <2> QED BY <2>5, <2>6, <2>7, <2>8, <2>9, <2>10, <2>11 DEF IInv
<1> QED BY <1>3, <1>6, <1>7

-----------------------------------------------------------------------------
(***************************************************************************)
(* A change takes its place out of what the invariant speaks of.           *)
(***************************************************************************)
LEMMA PlaceChangesStep ==
  ASSUME IInv, PlaceChanges
  PROVE  IInv'
<1>1. UNCHANGED <<pc, run, at, hfRoots, job, existed, walked, shown>>
  BY DEF PlaceChanges, process
<1>2. PICK p \in Places, k \in Kinds :
        kind' = [kind EXCEPT ![p] = k] /\ changed' = changed \cup {p}
  BY DEF PlaceChanges
<1>3. /\ Types /\ Loops /\ RootsSound /\ RootsAll /\ RootsOnce /\ JobInv
      /\ WalkedSound /\ WalkedAll /\ WalkedOnce /\ ShownSound /\ ShownAll /\ SaysBroken
  BY DEF IInv
<1>4. kind \in [Places -> Kinds] /\ changed \subseteq Places
  BY <1>3 DEF Types
<1>5. \A q \in Untouched' : q \in Untouched /\ kind'[q] = kind[q]
  BY <1>2, <1>4 DEF Untouched
<1>6. \A q \in Untouched' : /\ IsDir(q)' <=> IsDir(q)
                            /\ Exists(q)' <=> Exists(q)
                            /\ Class(q)' = Class(q)
  BY <1>5 DEF IsDir, Exists, Class
<1>7. /\ IsExplicit' <=> IsExplicit
      /\ OllamaCandidate' = OllamaCandidate
      /\ \A q : (IsCandidate(q)' <=> IsCandidate(q)) /\ (IsRoot(q)' <=> IsRoot(q))
      /\ \A e, q : /\ WasWalked(e, q)' <=> WasWalked(e, q)
                   /\ SaysScanned(e, q)' <=> SaysScanned(e, q)
  BY <1>1 DEF IsExplicit, OllamaCandidate, IsCandidate, IsRoot, WasWalked, SaysScanned
<1>8. /\ ChainResolved' = ChainResolved /\ RootsTried' = RootsTried
      /\ (OllamaTried' <=> OllamaTried) /\ PathsTried' = PathsTried
      /\ ChainShown' = ChainShown /\ (OllamaShown' <=> OllamaShown)
      /\ PathsShown' = PathsShown
  BY <1>1 DEF ChainResolved, RootsTried, OllamaTried, PathsTried, ChainShown, OllamaShown,
              PathsShown
<1>9. \A e, q : Due(e, q) => Due(e, q)'
  BY <1>1, <1>5, <1>6, <1>7 DEF Due
<1>10. Types'
  BY <1>1, <1>2, <1>3 DEF Types
<1>11. Loops'
  BY <1>1, <1>3, <1>7 DEF Loops
<1>12. RootsSound' /\ RootsOnce'
  BY <1>1, <1>3, <1>5, <1>6, <1>8 DEF RootsSound, RootsOnce
<1>13. RootsAll'
  BY <1>1, <1>3, <1>5, <1>6, <1>7, <1>8 DEF RootsAll
<1>14. JobInv'
  <2>1. pc \in Walking => Due(job[1], job[2])'
    BY <1>1, <1>3, <1>9 DEF JobInv
  <2> QED BY <1>1, <1>3, <1>5, <1>6, <2>1 DEF JobInv
<1>15. WalkedSound' /\ ShownSound'
  BY <1>3, <1>7, <1>9 DEF WalkedSound, ShownSound
<1>16. WalkedAll'
  BY <1>1, <1>3, <1>5, <1>6, <1>7, <1>8 DEF WalkedAll
<1>17. WalkedOnce'
  BY <1>1, <1>3, <1>7, <1>8 DEF WalkedOnce
<1>18. ShownAll'
  BY <1>1, <1>3, <1>5, <1>6, <1>7, <1>8 DEF ShownAll
<1>19. SaysBroken'
  BY <1>1, <1>3, <1>5, <1>6, <1>7, <1>8 DEF SaysBroken, ScanRoot
<1> QED BY <1>10, <1>11, <1>12, <1>13, <1>14, <1>15, <1>16, <1>17, <1>18, <1>19 DEF IInv

-----------------------------------------------------------------------------
(***************************************************************************)
(* The invariant holds of every invocation, on every file system, whatever *)
(* changes while the scan goes on.                                         *)
(***************************************************************************)
THEOREM DiscoveryInvariant == Spec => []IInv
<1>1. IInv /\ [Next]_vars => IInv'
  <2> SUFFICES ASSUME IInv, [Next]_vars PROVE IInv'
    OBVIOUS
  <2>1. CASE UNCHANGED vars
    <3>0. /\ pc' = pc /\ run' = run /\ at' = at /\ hfRoots' = hfRoots /\ job' = job
          /\ existed' = existed /\ walked' = walked /\ shown' = shown
          /\ kind' = kind /\ changed' = changed /\ changes' = changes
      BY <2>1 DEF vars, process
    <3> USE <3>0
    <3>1. Types' /\ JobInv'
      <4>1. Types'
        BY DEF IInv, Types
      <4>2. JobInv'
        BY Frame DEF IInv, JobInv
      <4> QED BY <4>1, <4>2
    <3>2. Loops'
      <4>1. Loops
        BY DEF IInv
      <4> QED BY ONLY <3>0, <4>1 DEF Loops, IsExplicit, OllamaCandidate
    <3>3. RootsSound' /\ RootsAll' /\ RootsOnce'
      BY RootsFrame DEF IInv, ChainResolved
    <3>4. \A e, p : /\ WasWalked(e, p)' <=> WasWalked(e, p)
                    /\ SaysScanned(e, p)' <=> SaysScanned(e, p)
                    /\ Due(e, p)' <=> Due(e, p)
      BY Frame DEF WasWalked, SaysScanned
    <3>5. WalkedSound' /\ WalkedAll' /\ WalkedOnce'
      BY <3>4, Frame
         DEF IInv, WalkedSound, WalkedAll, WalkedOnce, PathsTried, RootsTried, OllamaTried
    <3>6. ShownSound' /\ ShownAll'
      BY <3>4, Frame DEF IInv, ShownSound, ShownAll, ChainShown, OllamaShown, PathsShown
    <3>7. SaysBroken'
      BY Frame DEF IInv, SaysBroken, OllamaShown, ScanRoot
    <3> QED BY <3>1, <3>2, <3>3, <3>5, <3>6, <3>7 DEF IInv
  <2>2. CASE ResolveHf \/ StartHf \/ StartOllama
    BY <2>2, ResolveHfStep, StartHfStep, StartOllamaStep
  <2>3. CASE Dispatch \/ Classify \/ Probe \/ Walk
    BY <2>3, DispatchStep, ClassifyStep, ProbeStep, WalkStep
  <2>4. CASE ShowHf \/ ShowOllama \/ ShowLMStudio \/ ShowPath \/ ShowClass
    BY <2>4, ShowHfStep, ShowOllamaStep, ShowLMStudioStep, ShowPathStep, ShowClassStep
  <2>5. CASE PlaceChanges
    BY <2>5, PlaceChangesStep
  <2> QED BY <2>1, <2>2, <2>3, <2>4, <2>5 DEF Next
<1> QED BY <1>1, InitInv, PTL DEF Spec

\* At the end both loops have come to their ends.
LEMMA Finished ==
  ASSUME IInv, pc = "done"
  PROVE  /\ ~IsExplicit =>
              \A p \in Untouched : IsCandidate(p) /\ IsDir(p) =>
                WasWalked("hf_cache", p) /\ SaysScanned("hf_cache", p)
         /\ ~IsExplicit =>
              (OllamaCandidate \in Untouched /\ IsDir(OllamaCandidate) =>
                 WasWalked("ollama", OllamaCandidate) /\ SaysScanned("ollama", OllamaCandidate))
         /\ IsExplicit =>
              \A k \in DOMAIN run.paths :
                run.paths[k] \in Untouched /\ Exists(run.paths[k]) =>
                  /\ WasWalked(Class(run.paths[k]), run.paths[k])
                  /\ SaysScanned(Class(run.paths[k]), run.paths[k])
<1>1. /\ ChainResolved = Len(run.chain) /\ RootsTried = Len(hfRoots) /\ OllamaTried
      /\ PathsTried = Len(run.paths) /\ ChainShown = Len(run.chain) /\ OllamaShown
      /\ PathsShown = Len(run.paths)
  BY DEF ChainResolved, RootsTried, OllamaTried, PathsTried, ChainShown, OllamaShown,
         PathsShown, Walking
<1>2. /\ DOMAIN run.paths = 1 .. Len(run.paths) /\ DOMAIN run.chain = 1 .. Len(run.chain)
      /\ DOMAIN hfRoots = 1 .. Len(hfRoots)
  BY ScanLists DEF IInv
<1>3. RootsAll /\ WalkedAll /\ ShownAll
  BY DEF IInv
<1>4. ASSUME ~IsExplicit, NEW p \in Untouched, IsCandidate(p), IsDir(p)
      PROVE  WasWalked("hf_cache", p) /\ SaysScanned("hf_cache", p)
  <2>1. PICK j \in 1 .. Len(run.chain) : run.chain[j] = p
    BY <1>2, <1>4 DEF IsCandidate
  <2>2. IsRoot(p)
    BY <1>1, <1>3, <1>4, <2>1 DEF RootsAll
  <2>3. WasWalked("hf_cache", p)
    BY <1>1, <1>2, <1>3, <1>4, <2>2 DEF IsRoot, WalkedAll
  <2>4. SaysScanned("hf_cache", p)
    BY <1>1, <1>3, <1>4, <2>1 DEF ShownAll
  <2> QED BY <2>3, <2>4
<1>5. ~IsExplicit =>
        (OllamaCandidate \in Untouched /\ IsDir(OllamaCandidate) =>
           WasWalked("ollama", OllamaCandidate) /\ SaysScanned("ollama", OllamaCandidate))
  BY <1>1, <1>3 DEF WalkedAll, ShownAll
<1>6. IsExplicit =>
        \A k \in DOMAIN run.paths :
          run.paths[k] \in Untouched /\ Exists(run.paths[k]) =>
            /\ WasWalked(Class(run.paths[k]), run.paths[k])
            /\ SaysScanned(Class(run.paths[k]), run.paths[k])
  BY <1>1, <1>2, <1>3 DEF WalkedAll, ShownAll
<1> QED BY <1>4, <1>5, <1>6

\* Whatever is due to an untouched place is both walked and shown at the end.
LEMMA DueIsDone ==
  ASSUME IInv, pc = "done", NEW e \in Adapters, NEW p \in Untouched, Due(e, p)
  PROVE  WasWalked(e, p) /\ SaysScanned(e, p)
<1>1. CASE IsExplicit
  <2>1. PICK k \in DOMAIN run.paths : run.paths[k] = p
    BY <1>1 DEF Due
  <2>2. Exists(p) /\ e = Class(p)
    BY <1>1 DEF Due
  <2> QED BY <1>1, <2>1, <2>2, Finished
<1>2. CASE ~IsExplicit
  <2>1. /\ IsDir(p)
        /\ \/ e = "hf_cache" /\ IsCandidate(p)
           \/ e = "ollama" /\ p = OllamaCandidate
    BY <1>2 DEF Due
  <2> QED BY <1>2, <2>1, Finished
<1> QED BY <1>1, <1>2

(***************************************************************************)
(* The report never disagrees with what discovery walked, for any list of  *)
(* paths or candidates, about a place nobody changed.                      *)
(***************************************************************************)
THEOREM ShownIsAlwaysWalked == Spec => []ShownIsWalked
<1>1. IInv => ShownIsWalked
  <2> SUFFICES ASSUME IInv, pc = "done", NEW e \in Adapters, NEW p \in Untouched
               PROVE  SaysScanned(e, p) <=> WasWalked(e, p)
    BY DEF ShownIsWalked
  <2>1. SaysScanned(e, p) \/ WasWalked(e, p) => Due(e, p)
    BY DEF IInv, ShownSound, WalkedSound, Untouched
  <2> QED BY <2>1, DueIsDone
<1> QED BY <1>1, DiscoveryInvariant, PTL

(***************************************************************************)
(* No root of a default scan is ever walked twice by one adapter, however  *)
(* many candidates lead to it.                                             *)
(***************************************************************************)
THEOREM RootsAreWalkedOnce == Spec => []NoRootTwice
<1>1. IInv => NoRootTwice
  BY DEF IInv, WalkedOnce, NoRootTwice
<1> QED BY <1>1, DiscoveryInvariant, PTL

(***************************************************************************)
(* Every candidate that is a directory throughout, and every path that     *)
(* exists throughout, has been walked when the scan reports.               *)
(***************************************************************************)
THEOREM RootsAreAllWalked == Spec => []EveryRootIsWalked
<1>1. IInv => EveryRootIsWalked
  <2> SUFFICES ASSUME IInv, pc = "done" PROVE EveryRootIsWalked
    BY DEF EveryRootIsWalked
  <2>1. ~IsExplicit =>
          \A k \in DOMAIN run.chain :
            run.chain[k] \in Untouched /\ IsDir(run.chain[k])
              => WasWalked("hf_cache", run.chain[k])
    BY Finished DEF IsCandidate
  <2>2. IsExplicit =>
          \A k \in DOMAIN run.paths :
            run.paths[k] \in Untouched /\ Exists(run.paths[k])
              => WasWalked(Class(run.paths[k]), run.paths[k])
    BY Finished
  <2> QED BY <2>1, <2>2 DEF EveryRootIsWalked
<1> QED BY <1>1, DiscoveryInvariant, PTL

(***************************************************************************)
(* An OLLAMA_MODELS that is no directory is never replaced by the default, *)
(* neither in what is walked nor in what is shown.                         *)
(***************************************************************************)
THEOREM BrokenIsNeverReplaced == Spec => []BrokenIsNotReplaced
<1>1. IInv => BrokenIsNotReplaced
  <2> SUFFICES ASSUME IInv, ~IsExplicit, pc = "done",
                      run.ollama \in Untouched, ~IsDir(run.ollama)
               PROVE  /\ \A k \in DOMAIN walked : walked[k][1] # "ollama"
                      /\ \E k \in DOMAIN shown :
                           shown[k] = ScanRoot("ollama", run.ollama, FALSE, FALSE)
    BY DEF BrokenIsNotReplaced
  <2>1. OllamaCandidate = run.ollama
    BY DiscoveryConstants DEF Untouched, OllamaCandidate
  <2>2. ASSUME NEW k \in DOMAIN walked, walked[k][1] = "ollama" PROVE FALSE
    <3>1. walked \in Seq(Adapters \X Places)
      BY DEF IInv, Types
    <3>2. walked[k] \in Adapters \X Places
      BY <3>1, LenProperties, ElementOfSeq
    <3>3. walked[k] = <<"ollama", walked[k][2]>> /\ walked[k][2] \in Places
      BY <2>2, <3>2
    <3>4. WasWalked("ollama", walked[k][2])
      BY <3>3 DEF WasWalked
    <3>5. Due("ollama", walked[k][2])
      BY <3>3, <3>4 DEF IInv, WalkedSound, Adapters
    <3> QED BY <2>1, <3>5 DEF Due
  <2>3. \E k \in DOMAIN shown : shown[k] = ScanRoot("ollama", run.ollama, FALSE, FALSE)
    BY DEF IInv, SaysBroken, OllamaShown
  <2> QED BY <2>2, <2>3
<1> QED BY <1>1, DiscoveryInvariant, PTL

=============================================================================
