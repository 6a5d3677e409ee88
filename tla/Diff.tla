-------------------------------- MODULE Diff --------------------------------
(***************************************************************************)
(* diff_scans (diff.py): the changes between two scan reports.             *)
(*                                                                         *)
(* A report is the sequence of its groups.  A group is a record            *)
(* [source, id, status, artifacts, place]; artifacts maps the name of each *)
(* of its files to a digest (the empty digest is a digest like any other   *)
(* here).  place is where the group was found: no report says it, and no   *)
(* definition of this module looks at it.                                  *)
(*                                                                         *)
(* The changes are a set: the code sorts them, and DiffCommand states that *)
(* the sort leaves no order to chance.                                     *)
(***************************************************************************)
EXTENDS Naturals, Sequences, FiniteSets

CONSTANTS
  NoName,      \* a change of a whole group names no file
  NoValue      \* nothing on that side of the change

GroupClasses    == {"group_added", "group_removed"}
ArtifactClasses == {"artifact_added", "artifact_removed", "artifact_changed"}
ChangeTypes     == GroupClasses \cup ArtifactClasses \cup {"status_changed"}

GroupIdentity(group) == <<group.source, group.id>>

Identities(scan) == {GroupIdentity(scan[k]) : k \in DOMAIN scan}

(***************************************************************************)
(* _index_groups_by_identity: of several groups with one identity the last *)
(* one is kept.                                                            *)
(***************************************************************************)
Indexed(scan, key) ==
  LET at == {k \in DOMAIN scan : GroupIdentity(scan[k]) = key}
  IN  scan[CHOOSE k \in at : \A j \in at : j <= k]

\* A DiffChange: what it is about, and a status or digest on either side.
Change(type, key, file, before, after) ==
  [type |-> type, source |-> key[1], id |-> key[2], file |-> file,
   before |-> before, after |-> after]

\* Mutation of GroupsAdded: the files of a new group are new as well.
GroupsAddedWithFiles(baseline, current) ==
  UNION {LET group == Indexed(current, key)
         IN  {Change("group_added", key, NoName, NoValue, group.status)}
               \cup {Change("artifact_added", key, f, NoValue, group.artifacts[f]) :
                       f \in DOMAIN group.artifacts} :
           key \in Identities(current) \ Identities(baseline)}

GroupsAdded(baseline, current) ==
  {Change("group_added", key, NoName, NoValue, Indexed(current, key).status) :
     key \in Identities(current) \ Identities(baseline)}

GroupsRemoved(baseline, current) ==
  {Change("group_removed", key, NoName, Indexed(baseline, key).status, NoValue) :
     key \in Identities(baseline) \ Identities(current)}

StatusChanged(key, before, after) ==
  IF before.status = after.status THEN {}
  ELSE {Change("status_changed", key, NoName, before.status, after.status)}

-----------------------------------------------------------------------------
(***************************************************************************)
(* _diff_artifacts_in_matched_group; old and new are the files of the      *)
(* group in the baseline and in the current report.                        *)
(***************************************************************************)
FilesMatched(old, new) == DOMAIN old \cap DOMAIN new

\* Digests of matched files, on either side: matched_baseline_shas and
\* matched_current_shas.
ConsumedOld(old, new) == {old[f] : f \in FilesMatched(old, new)}
ConsumedNew(old, new) == {new[f] : f \in FilesMatched(old, new)}

FilesChanged(old, new) == {f \in FilesMatched(old, new) : old[f] # new[f]}

\* Mutation of FilesAdded: by digest alone.
NewContents(old, new) ==
  {f \in DOMAIN new : \A e \in DOMAIN old : old[e] # new[f]}

\* A file is new if its name is, and no matched file has its digest.
FilesAdded(old, new) ==
  {f \in DOMAIN new \ DOMAIN old : new[f] \notin ConsumedNew(old, new)}

\* Mutation of FilesRemoved: the digests consumed on the other side.
GoneContents(old, new) ==
  {f \in DOMAIN old \ DOMAIN new : old[f] \notin ConsumedNew(old, new)}

FilesRemoved(old, new) ==
  {f \in DOMAIN old \ DOMAIN new : old[f] \notin ConsumedOld(old, new)}

\* Mutation of ArtifactChanges: a seventh class for a file with a new name.
ArtifactRenames(key, old, new) ==
  {Change("artifact_changed", key, f, old[f], new[f]) :
     f \in FilesChanged(old, new)}
  \cup {Change("artifact_renamed", key, f, NoValue, new[f]) :
          f \in FilesAdded(old, new)}
  \cup {Change("artifact_removed", key, f, old[f], NoValue) :
          f \in FilesRemoved(old, new)}

ArtifactChanges(key, old, new) ==
  {Change("artifact_changed", key, f, old[f], new[f]) :
     f \in FilesChanged(old, new)}
  \cup {Change("artifact_added", key, f, NoValue, new[f]) :
          f \in FilesAdded(old, new)}
  \cup {Change("artifact_removed", key, f, old[f], NoValue) :
          f \in FilesRemoved(old, new)}

MatchedChanges(key, before, after) ==
  StatusChanged(key, before, after)
    \cup ArtifactChanges(key, before.artifacts, after.artifacts)

-----------------------------------------------------------------------------
DiffScans(baseline, current) ==
  GroupsAdded(baseline, current)
    \cup GroupsRemoved(baseline, current)
    \cup UNION {MatchedChanges(key, Indexed(baseline, key),
                               Indexed(current, key)) :
                  key \in Identities(baseline) \cap Identities(current)}

\* _classify_status_direction, as far as the exit code depends on it.
IsRegression(change) ==
  /\ change.type = "status_changed"
  /\ change.before = "verified"
  /\ change.after # "verified"

\* Mutation of SortKey: changes of one group and class are not told apart.
GroupSortKey(change) == <<change.type, change.source, change.id>>

\* _sort_key
SortKey(change) == <<change.type, change.source, change.id, change.file>>

=============================================================================
