--------------------------- MODULE InventoryFile ----------------------------
(***************************************************************************)
(* export_inventory (export.py) as several scans run it that write to one  *)
(* --export path: build the rows, make a temporary file of one's own in    *)
(* the directory of the output, write it line by line, rename it over the  *)
(* output, and remove it if that was not reached.  A scan may be killed    *)
(* between any two steps, and a write or the rename may fail.              *)
(*                                                                         *)
(* A line stands for what reaches the disk at once.  Losing power, where   *)
(* the order of rename and data on the disk matters, is left out: nothing  *)
(* is synced.                                                              *)
(***************************************************************************)
EXTENDS InventoryRows

CONSTANTS
  Exporters,  \* the scans
  Scans,      \* what a scan may have found
  Header,     \* the line of column names
  OldFile,    \* the content of the output path before
  NoTemp,     \* no temporary file
  Running     \* no exit code yet

ASSUME FileConstants ==
  /\ Running \notin {0, 1, 70}
  /\ \A s \in Scans : IsOutcome(s)

VARIABLES
  pc,        \* exporter -> "rows", "temp", "write", "rename", "unlink", "end"
  scan,      \* exporter -> its outcome
  opts,      \* exporter -> [csv, includePaths]
  rows,      \* exporter -> the rows it built
  temp,      \* exporter -> the content of its temporary file, or NoTemp
  exit,      \* exporter -> exit code of the export step, or Running
  out,       \* the content of the output path
  last,      \* history: the exporters that replaced the output, in order
  killed     \* history: the exporters that were killed

vars == <<pc, scan, opts, rows, temp, exit, out, last, killed>>

\* A CSV file starts with the header; a row carries what it was made of.
Lines(p) == (IF opts[p].csv THEN <<Header>> ELSE <<>>) \o rows[p]

\* A model_id or path taken from a file name that is not UTF-8.
CanEncode(p, line) ==
  line # Header /\ ~scan[p].utf8 =>
    ~opts[p].includePaths /\ line.idSource # "local_metadata"

Goto(p, stage) == pc' = [pc EXCEPT ![p] = stage]

-----------------------------------------------------------------------------
Init ==
  /\ pc = [p \in Exporters |-> "rows"]
  /\ scan \in [Exporters -> Scans]
  /\ opts \in [Exporters -> [csv : BOOLEAN, includePaths : BOOLEAN]]
  /\ rows = [p \in Exporters |-> <<>>]
  /\ temp = [p \in Exporters |-> NoTemp]
  /\ exit = [p \in Exporters |-> Running]
  /\ out = OldFile
  /\ last = <<>>
  /\ killed = {}

\* Every row is built before the file is touched.
BuildRows(p) ==
  /\ pc[p] = "rows"
  /\ rows' = [rows EXCEPT ![p] = Rows(scan[p], opts[p].includePaths)]
  /\ Goto(p, "temp")
  /\ UNCHANGED <<scan, opts, temp, exit, out, last, killed>>

\* mkstemp: a name nobody else uses.  Or the directory cannot be written.
MakeTemp(p) ==
  /\ pc[p] = "temp"
  /\ \/ temp' = [temp EXCEPT ![p] = <<>>] /\ Goto(p, "write") /\ UNCHANGED exit
     \/ exit' = [exit EXCEPT ![p] = 70] /\ Goto(p, "end") /\ UNCHANGED temp
  /\ UNCHANGED <<scan, opts, rows, out, last, killed>>

Written(p) == Len(temp[p])

\* The next line cannot be encoded.
Stuck(p) ==
  Written(p) < Len(Lines(p)) /\ ~CanEncode(p, Lines(p)[Written(p) + 1])

\* One more line.
WriteLine(p) ==
  /\ pc[p] = "write"
  /\ Written(p) < Len(Lines(p))
  /\ CanEncode(p, Lines(p)[Written(p) + 1])
  /\ temp' = [temp EXCEPT ![p] = Append(@, Lines(p)[Written(p) + 1])]
  /\ UNCHANGED <<pc, scan, opts, rows, exit, out, last, killed>>

\* The file is closed.
EndWrite(p) ==
  /\ pc[p] = "write"
  /\ Written(p) = Len(Lines(p))
  /\ Goto(p, "rename")
  /\ UNCHANGED <<scan, opts, rows, temp, exit, out, last, killed>>

\* A full disk (ExportError, 70), or a character UTF-8 does not have (1).
WriteFails(p) ==
  /\ pc[p] = "write"
  /\ \E code \in {70} \cup (IF Stuck(p) THEN {1} ELSE {}) :
       exit' = [exit EXCEPT ![p] = code]
  /\ Goto(p, "unlink")
  /\ UNCHANGED <<scan, opts, rows, temp, out, last, killed>>

\* Mutation of Rename: the output is written where it lies, line by line.
WriteThrough(p) ==
  /\ pc[p] = "rename"
  /\ LET n == IF out = OldFile THEN 1 ELSE Len(out) + 1
     IN  /\ out' = IF n < Written(p) THEN SubSeq(temp[p], 1, n) ELSE temp[p]
         /\ IF n >= Written(p)
            THEN /\ temp' = [temp EXCEPT ![p] = NoTemp]
                 /\ exit' = [exit EXCEPT ![p] = 0]
                 /\ last' = Append(last, p)
                 /\ Goto(p, "end")
            ELSE UNCHANGED <<temp, exit, last, pc>>
  /\ UNCHANGED <<scan, opts, rows, killed>>

\* os.replace
Rename(p) ==
  /\ pc[p] = "rename"
  /\ out' = temp[p]
  /\ temp' = [temp EXCEPT ![p] = NoTemp]
  /\ exit' = [exit EXCEPT ![p] = 0]
  /\ last' = Append(last, p)
  /\ Goto(p, "end")
  /\ UNCHANGED <<scan, opts, rows, killed>>

\* The output is a directory, or its directory was made read-only.
RenameFails(p) ==
  /\ pc[p] = "rename"
  /\ exit' = [exit EXCEPT ![p] = 70]
  /\ Goto(p, "unlink")
  /\ UNCHANGED <<scan, opts, rows, temp, out, last, killed>>

\* The finally clause; an OSError of os.unlink is ignored, and the file stays.
RemoveTemp(p) ==
  /\ pc[p] = "unlink"
  /\ temp' \in {temp, [temp EXCEPT ![p] = NoTemp]}
  /\ Goto(p, "end")
  /\ UNCHANGED <<scan, opts, rows, exit, out, last, killed>>

\* Killed: nothing runs any more, not even the finally clause.
Kill(p) ==
  /\ pc[p] # "end"
  /\ killed' = killed \cup {p}
  /\ Goto(p, "end")
  /\ UNCHANGED <<scan, opts, rows, temp, exit, out, last>>

Next ==
  \E p \in Exporters :
    \/ BuildRows(p) \/ MakeTemp(p) \/ WriteLine(p) \/ EndWrite(p)
    \/ WriteFails(p) \/ Rename(p) \/ RenameFails(p) \/ RemoveTemp(p) \/ Kill(p)

Spec == Init /\ [][Next]_vars

-----------------------------------------------------------------------------
(***************************************************************************)
(* Safety: the file.                                                       *)
(***************************************************************************)
Ended(p) == pc[p] = "end"

(***************************************************************************)
(* "Either the old file intact or the new file complete": the output holds *)
(* what it held before, or the whole inventory of the scan that replaced   *)
(* it last, whatever is killed or fails.  Exit code 0 means that one's own *)
(* was there and that its temporary file is gone; with another code one's  *)
(* own never was there.  Only a scan that was killed ends without a code.  *)
(* A killed scan may leave its temporary file, and so does one that fails  *)
(* and cannot remove it (export_inventory).                                *)
(***************************************************************************)
ExportIsAllOrNothing ==
  /\ out = IF last = <<>> THEN OldFile ELSE Lines(last[Len(last)])
  /\ \A p \in Exporters :
       /\ exit[p] = 0 <=> \E i \in DOMAIN last : last[i] = p
       /\ exit[p] = 0 => temp[p] = NoTemp
       /\ Ended(p) /\ p \notin killed => exit[p] # Running

(***************************************************************************)
(* Safety: the rows.                                                       *)
(***************************************************************************)
Built(p) == rows[p] # <<>>

(***************************************************************************)
(* The columns of a row, each derived by a function of its own, cannot     *)
(* disagree: a verdict, the source of the model_id, the bound digest and   *)
(* the two coverage columns tell one story, and a claim of Trustfall Deep  *)
(* or of an opaque binding never stands without signed evidence of lane A  *)
(* (_row_for_group and its helpers).                                       *)
(***************************************************************************)
RowTellsOneStory(row) ==
  LET verified == row.status = Verified
  IN  /\ verified <=> row.match = "exact"
      /\ verified <=> row.idSource = "registry_record"
      /\ verified <=> row.coverage # "unknown_unverified"
      /\ verified => row.modelId # NoModel
      /\ row.idSource = "none" <=> row.modelId = NoModel
      /\ row.bound # NoDigest => verified
      /\ row.deep => /\ row.bound # NoDigest
                     /\ row.coverage \in {"covered_by_verified_container",
                                          "opaque_structural_evidence_binding"}
      /\ row.coverage = "opaque_structural_evidence_binding" => row.deep

RowsSayTheVerdict ==
  \A p \in Exporters :
    Built(p) => /\ Len(rows[p]) = Len(scan[p].groups)
                /\ \A k \in DOMAIN rows[p] : RowTellsOneStory(rows[p][k])

\* The scan roots of the row's ecosystem, and those its files are under.
RootsOf(p, row) ==
  {sr \in {scan[p].roots[i] : i \in DOMAIN scan[p].roots} :
     sr.ecosystem = row.provider /\ sr.resolved # NoPath}

RootsAbove(p, row) ==
  {sr \in RootsOf(p, row) : \E i \in DOMAIN row.paths : IsAbove(sr, row.paths[i])}

(***************************************************************************)
(* A group found under the second of several roots of its ecosystem is not *)
(* exported with the path of the first: where exactly one root is above    *)
(* its files that one is named, and where the files are linked in from     *)
(* elsewhere and there is one root, that one (_scan_root_for).             *)
(***************************************************************************)
RowNamesItsRoot ==
  \A p \in Exporters : \A k \in DOMAIN rows[p] :
    LET row == rows[p][k]
    IN  opts[p].includePaths /\ row.provider # "path" =>
          /\ \A sr \in RootsAbove(p, row) :
               RootsAbove(p, row) = {sr} => row.cacheRoot = sr.resolved
          /\ \A sr \in RootsOf(p, row) :
               RootsOf(p, row) = {sr} => row.cacheRoot = sr.resolved
          /\ RootsOf(p, row) = {} <=> row.cacheRoot = NoPath

\* Two scans found the same, in another order.
SameFinds(s, t) ==
  /\ s.lookups = t.lookups /\ s.roots = t.roots
  /\ Len(s.groups) = Len(t.groups)
  /\ {s.groups[g] : g \in DOMAIN s.groups} = {t.groups[g] : g \in DOMAIN t.groups}

\* No two groups of a scan have one identity.
DistinctIds(s) ==
  \A g, h \in DOMAIN s.groups :
    /\ s.groups[g].source = s.groups[h].source
    /\ s.groups[g].id = s.groups[h].id
    => g = h

(***************************************************************************)
(* "Two exports of the same unchanged machine produce byte-identical       *)
(* output": in whatever order the file system listed the groups, as long   *)
(* as no two of them share an identity (_sorted_results).                  *)
(***************************************************************************)
SameResultsSameFile ==
  \A p, q \in Exporters :
    ( /\ Built(p) /\ Built(q)
      /\ opts[p] = opts[q]
      /\ SameFinds(scan[p], scan[q]) /\ DistinctIds(scan[p]) )
    => Lines(p) = Lines(q)

=============================================================================
