----------------------------- MODULE Discovery ------------------------------
(***************************************************************************)
(* Steps 1 and 1a of `trustfall scan` (cli.py): _discover_groups decides   *)
(* which directories are walked, by which adapter, and walks them; then    *)
(* _resolve_scan_roots_for_invocation probes the file system a second time *)
(* to say what was scanned (roots.py).  Downloads and the user may create, *)
(* remove or refill a directory at any moment in between.                  *)
(*                                                                         *)
(* A place is what a path leads to once `~` and symbolic links are         *)
(* followed, so two paths may be one place; a path that leads nowhere is a *)
(* place that stays absent.  Of a place only its kind matters:             *)
(*   "absent", "file"                                                      *)
(*   "plain"    a directory that is none of the following                  *)
(*   "ollama"   one with manifests/registry.ollama.ai                      *)
(*   "hf"       one with a models--* directory, and not "ollama"           *)
(*   "no_list"  a directory that may be searched but not listed            *)
(*   "closed"   one that may be neither: a stat below it is refused        *)
(***************************************************************************)
EXTENDS Naturals, Sequences

CONSTANTS
  Places,
  Layouts,        \* the file systems a scan may start on: Places -> Kinds
  Invocations,    \* records [paths, chain, ollama], see below
  OllamaDefault,  \* ~/.ollama/models
  LMStudio,       \* ~/.cache/lm-studio/models
  NoPlace,        \* no directory: OLLAMA_MODELS not set, nothing found
  MaxChanges      \* bound on the changes made to the file system

Kinds == {"absent", "file", "plain", "ollama", "hf", "no_list", "closed"}

Adapters == {"hf_cache", "ollama", "path"}

(***************************************************************************)
(* paths: the arguments, <<>> for the default scan; chain: the candidates  *)
(* of the Hugging Face cache in order of precedence; ollama: OLLAMA_MODELS.*)
(***************************************************************************)
Invocation == [paths : Seq(Places), chain : Seq(Places),
               ollama : Places \cup {NoPlace}]

ASSUME DiscoveryConstants ==
  /\ Layouts \subseteq [Places -> Kinds]
  /\ Invocations \subseteq Invocation
  /\ \A i \in Invocations : i.chain # <<>>   \* ~/.cache/huggingface/hub is always in it
  /\ {OllamaDefault, LMStudio} \subseteq Places
  /\ NoPlace \notin Places
  /\ MaxChanges \in Nat

VARIABLES
  pc,        \* stage
  run,       \* the invocation
  at,        \* the next path, candidate or root of the loop under way
  hfRoots,   \* HFCacheAdapter._roots
  job,       \* <<adapter, place>>: the walk under way
  existed,   \* whether the path to be shown existed when first probed
  walked,    \* the jobs whose directory or file was inspected
  shown,     \* the ScanRoots reported
  kind,      \* the file system
  changed,   \* history: the places that changed since the scan began
  changes    \* how many changes there were

process == <<pc, run, at, hfRoots, job, existed, walked, shown>>
vars == <<process, kind, changed, changes>>

IsExplicit == run.paths # <<>>

Init ==
  /\ run \in Invocations
  /\ kind \in Layouts
  /\ pc = IF run.paths = <<>> THEN "hf_resolve" ELSE "dispatch"
  /\ at = 1
  /\ hfRoots = <<>>
  /\ job = <<"path", NoPlace>>
  /\ existed = FALSE
  /\ walked = <<>>
  /\ shown = <<>>
  /\ changed = {}
  /\ changes = 0

Exists(p) == kind[p] # "absent"
IsDir(p)  == kind[p] \notin {"absent", "file"}

\* The loop under way goes on to its next element, or ends and gives way.
Continue(stage, n, after) ==
  IF at < n THEN pc' = stage /\ at' = at + 1
            ELSE pc' = after /\ at' = 1

-----------------------------------------------------------------------------
(***************************************************************************)
(* The default scan: HFCacheAdapter() resolves its roots when it is built. *)
(***************************************************************************)
\* Mutation of FirstOf: candidates are taken as they come.
EveryOne(chain, i) == TRUE

\* Mutation of FirstOf: the first existing root is the only one.
FirstThere(chain, i) == \A j \in 1 .. i - 1 : ~IsDir(chain[j])

\* Of candidates that are one place the first one counts.
FirstOf(chain, i) == \A j \in 1 .. i - 1 : chain[j] # chain[i]

ResolveHf ==
  /\ pc = "hf_resolve"
  /\ LET p == run.chain[at]
     IN  hfRoots' = IF FirstOf(run.chain, at) /\ IsDir(p)
                    THEN Append(hfRoots, p) ELSE hfRoots
  /\ IF at < Len(run.chain) THEN pc' = "hf_resolve" /\ at' = at + 1
     ELSE pc' = (IF hfRoots' = <<>> THEN "ollama" ELSE "hf_next") /\ at' = 1
  /\ UNCHANGED <<run, job, existed, walked, shown, kind, changed, changes>>

StartHf ==
  /\ pc = "hf_next"
  /\ job' = <<"hf_cache", hfRoots[at]>>
  /\ pc' = "probe"
  /\ UNCHANGED <<run, at, hfRoots, existed, walked, shown, kind, changed, changes>>

\* Mutation of OllamaRoot: a bad OLLAMA_MODELS falls back on the default.
OllamaRootOrDefault ==
  IF run.ollama # NoPlace /\ IsDir(run.ollama) THEN run.ollama
  ELSE IF IsDir(OllamaDefault) THEN OllamaDefault
  ELSE NoPlace

\* OllamaAdapter._resolve_root: OLLAMA_MODELS, if set, is not second-guessed.
OllamaRoot ==
  LET p == IF run.ollama # NoPlace THEN run.ollama ELSE OllamaDefault
  IN  IF IsDir(p) THEN p ELSE NoPlace

StartOllama ==
  /\ pc = "ollama"
  /\ IF OllamaRoot = NoPlace
     THEN pc' = "show_hf" /\ UNCHANGED job
     ELSE pc' = "probe" /\ job' = <<"ollama", OllamaRoot>>
  /\ UNCHANGED <<run, at, hfRoots, existed, walked, shown, kind, changed, changes>>

-----------------------------------------------------------------------------
(***************************************************************************)
(* Explicit paths, one after the other.                                    *)
(***************************************************************************)
(***************************************************************************)
(* _classify_explicit_scan_path.  Only the listing is guarded: the probe   *)
(* for manifests/registry.ollama.ai raises below a closed directory.       *)
(***************************************************************************)
Class(p) ==
  IF kind[p] = "ollama" THEN "ollama"
  ELSE IF kind[p] = "hf" THEN "hf_cache"
  ELSE "path"

ClassRaises(p) == kind[p] = "closed"

\* A path that does not exist is passed over with a warning.
Dispatch ==
  /\ pc = "dispatch"
  /\ IF Exists(run.paths[at])
     THEN pc' = "classify" /\ UNCHANGED at
     ELSE Continue("dispatch", Len(run.paths), "show_path")
  /\ UNCHANGED <<run, hfRoots, job, existed, walked, shown, kind, changed, changes>>

Classify ==
  /\ pc = "classify"
  /\ LET p == run.paths[at]
     IN  IF ClassRaises(p)
         THEN pc' = "crashed" /\ UNCHANGED job
         ELSE pc' = "probe" /\ job' = <<Class(p), p>>
  /\ UNCHANGED <<run, at, hfRoots, existed, walked, shown, kind, changed, changes>>

-----------------------------------------------------------------------------
(***************************************************************************)
(* One walk, by any adapter.                                               *)
(***************************************************************************)
NextJob ==
  IF IsExplicit THEN Continue("dispatch", Len(run.paths), "show_path")
  ELSE IF job[1] = "hf_cache" THEN Continue("hf_next", Len(hfRoots), "ollama")
  ELSE pc' = "show_hf" /\ at' = 1

\* Only the path adapter takes files.
Found == IF job[1] = "path" THEN Exists(job[2]) ELSE IsDir(job[2])

\* discover: what is not there (any more) is silently left out.
Probe ==
  /\ pc = "probe"
  /\ IF Found
     THEN pc' = "walk" /\ UNCHANGED at
     ELSE NextJob
  /\ UNCHANGED <<run, hfRoots, job, existed, walked, shown, kind, changed, changes>>

(***************************************************************************)
(* What is opened after the probe may be gone.  iterdir of the Hugging     *)
(* Face adapter raises for anything it cannot list; the Ollama adapter     *)
(* looks for blobs and manifests, which raises below a closed directory    *)
(* and finds nothing below what is no directory; os.walk never raises.     *)
(***************************************************************************)
WalkRaises(adapter, p) ==
  \/ adapter = "hf_cache" /\ kind[p] \notin {"plain", "ollama", "hf"}
  \/ adapter = "ollama" /\ kind[p] = "closed"

Walk ==
  /\ pc = "walk"
  /\ IF WalkRaises(job[1], job[2])
     THEN pc' = "crashed" /\ UNCHANGED <<at, walked>>
     ELSE /\ NextJob
          /\ walked' = IF Found THEN Append(walked, job) ELSE walked
  /\ UNCHANGED <<run, hfRoots, job, existed, shown, kind, changed, changes>>

-----------------------------------------------------------------------------
(***************************************************************************)
(* The report.                                                             *)
(***************************************************************************)
ScanRoot(ecosystem, place, exists, scanned) ==
  [ecosystem |-> ecosystem, place |-> place, exists |-> exists,
   scanned |-> scanned]

\* Mutation of HfRow: a candidate that is not there is reported like the rest.
HfRowOfEach(p) == <<ScanRoot("hf_cache", p, IsDir(p), TRUE)>>

\* One row for each existing root ...
HfRow(p) ==
  IF IsDir(p) THEN <<ScanRoot("hf_cache", p, TRUE, TRUE)>> ELSE <<>>

\* ... or a single row that says there is none.
ShowHf ==
  /\ pc = "show_hf"
  /\ LET p    == run.chain[at]
         rows == shown \o (IF FirstOf(run.chain, at) THEN HfRow(p) ELSE <<>>)
     IN  shown' = IF at = Len(run.chain) /\ rows = <<>>
                  THEN <<ScanRoot("hf_cache", NoPlace, FALSE, FALSE)>>
                  ELSE rows
  /\ Continue("show_hf", Len(run.chain), "show_ollama")
  /\ UNCHANGED <<run, hfRoots, job, existed, walked, kind, changed, changes>>

\* _ollama_scan_root: a bad OLLAMA_MODELS is shown as it is.
OllamaRow ==
  IF run.ollama # NoPlace
  THEN ScanRoot("ollama", run.ollama, IsDir(run.ollama), IsDir(run.ollama))
  ELSE IF IsDir(OllamaDefault)
  THEN ScanRoot("ollama", OllamaDefault, TRUE, TRUE)
  ELSE ScanRoot("ollama", NoPlace, FALSE, FALSE)

ShowOllama ==
  /\ pc = "show_ollama"
  /\ shown' = Append(shown, OllamaRow)
  /\ pc' = "show_lmstudio"
  /\ UNCHANGED <<run, at, hfRoots, job, existed, walked, kind, changed, changes>>

\* Detected, never scanned.
ShowLMStudio ==
  /\ pc = "show_lmstudio"
  /\ shown' = IF IsDir(LMStudio)
              THEN Append(shown, ScanRoot("lmstudio", LMStudio, TRUE, FALSE))
              ELSE shown
  /\ pc' = "done"
  /\ UNCHANGED <<run, at, hfRoots, job, existed, walked, kind, changed, changes>>

\* An explicit path: whether it exists is asked first, its class afterwards.
ShowPath ==
  /\ pc = "show_path"
  /\ existed' = Exists(run.paths[at])
  /\ pc' = "show_class"
  /\ UNCHANGED <<run, at, hfRoots, job, walked, shown, kind, changed, changes>>

ShowClass ==
  /\ pc = "show_class"
  /\ LET p == run.paths[at]
     IN  IF ClassRaises(p)
         THEN pc' = "crashed" /\ UNCHANGED <<at, shown>>
         ELSE /\ shown' = Append(shown, ScanRoot(Class(p), p, existed, existed))
              /\ Continue("show_path", Len(run.paths), "done")
  /\ UNCHANGED <<run, hfRoots, job, existed, walked, kind, changed, changes>>

-----------------------------------------------------------------------------
\* Someone else creates, removes or refills a directory.
PlaceChanges ==
  /\ pc \notin {"done", "crashed"}
  /\ changes < MaxChanges
  /\ \E p \in Places, k \in Kinds :
       /\ k # kind[p]
       /\ kind' = [kind EXCEPT ![p] = k]
       /\ changed' = changed \cup {p}
  /\ changes' = changes + 1
  /\ UNCHANGED process

Next ==
  \/ ResolveHf \/ StartHf \/ StartOllama \/ Dispatch \/ Classify
  \/ Probe \/ Walk
  \/ ShowHf \/ ShowOllama \/ ShowLMStudio \/ ShowPath \/ ShowClass
  \/ PlaceChanges

Spec == Init /\ [][Next]_vars

-----------------------------------------------------------------------------
Untouched == Places \ changed

WasWalked(adapter, p) == \E k \in DOMAIN walked : walked[k] = <<adapter, p>>

SaysScanned(ecosystem, p) ==
  \E k \in DOMAIN shown : /\ shown[k].ecosystem = ecosystem
                          /\ shown[k].place = p
                          /\ shown[k].scanned

(***************************************************************************)
(* "The display can never disagree with what discovery actually used": two *)
(* separate implementations, run one after the other, name the same roots  *)
(* scanned, for every place that nobody changed in between, whatever       *)
(* happened to the others.                                                 *)
(***************************************************************************)
ShownIsWalked ==
  pc = "done" =>
    \A e \in Adapters, p \in Untouched : SaysScanned(e, p) <=> WasWalked(e, p)

(***************************************************************************)
(* No root of a default scan is walked twice by one adapter, however many  *)
(* variables and links lead to it: its groups would be reported twice.     *)
(***************************************************************************)
NoRootTwice ==
  ~IsExplicit =>
    \A j, k \in DOMAIN walked : walked[j] = walked[k] => j = k

(***************************************************************************)
(* Nothing is forgotten: a candidate of the chain that was a directory all *)
(* the time is walked, also behind other roots, and an explicit path that  *)
(* existed all the time is walked by the adapter it calls for.             *)
(***************************************************************************)
EveryRootIsWalked ==
  pc = "done" =>
    IF IsExplicit
    THEN \A k \in DOMAIN run.paths :
           LET p == run.paths[k]
           IN  p \in Untouched /\ Exists(p) => WasWalked(Class(p), p)
    ELSE \A k \in DOMAIN run.chain :
           LET p == run.chain[k]
           IN  p \in Untouched /\ IsDir(p) => WasWalked("hf_cache", p)

(***************************************************************************)
(* OLLAMA_MODELS set to what is no directory is an error to be shown, not  *)
(* replaced: the default is neither walked nor shown in its place.         *)
(***************************************************************************)
BrokenIsNotReplaced ==
  ( /\ ~IsExplicit /\ pc = "done"
    /\ run.ollama \in Untouched /\ ~IsDir(run.ollama) ) =>
      /\ \A k \in DOMAIN walked : walked[k][1] # "ollama"
      /\ \E k \in DOMAIN shown :
           shown[k] = ScanRoot("ollama", run.ollama, FALSE, FALSE)

=============================================================================
