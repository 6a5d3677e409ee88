----------------------------- MODULE DiffProofs -----------------------------
(***************************************************************************)
(* What DiffCommand promises of the changes it reports, for all reports.   *)
(*                                                                         *)
(* All of it rests on ChangesAreTheDiff: once the reports are compared,    *)
(* changes is DiffScans of the two.  The rest is about DiffScans alone.    *)
(***************************************************************************)
EXTENDS DiffCommand, TLAPS

\* From the comparison on, the changes are those of the two reports.
ChangesAreTheDiff ==
  /\ pc \in {"baseline", "current", "compare"} => changes = {}
  /\ Compared \/ printed => changes = DiffScans(baseline, current)
  /\ printed => pc \in {"finish", "ended"}
  /\ changes = {} \/ changes = DiffScans(baseline, current)

\* After the comparison, changes is the difference of the two reports.
LEMMA DiffInvariant == Spec => []ChangesAreTheDiff
<1>1. Init => ChangesAreTheDiff
  BY DEF Init, ChangesAreTheDiff, Compared
<1>2. ChangesAreTheDiff /\ [Next]_vars => ChangesAreTheDiff'
  <2> SUFFICES ASSUME ChangesAreTheDiff, [Next]_vars PROVE ChangesAreTheDiff'
    OBVIOUS
  <2> USE DEF ChangesAreTheDiff, Compared, Goto, ExitWith
  <2>1. CASE LoadBaseline
    BY <2>1 DEF LoadBaseline, Load
  <2>2. CASE LoadCurrent
    BY <2>2 DEF LoadCurrent, Load
  <2>3. CASE RefuseImplicit
    BY <2>3 DEF RefuseImplicit
  <2>4. CASE ScanNow
    BY <2>4 DEF ScanNow
  <2>5. CASE Compare
    BY <2>5 DEF Compare
  <2>6. CASE CompareFails
    BY <2>6 DEF CompareFails
  <2>7. CASE Show
    BY <2>7 DEF Show
  <2>8. CASE Finish
    BY <2>8 DEF Finish
  <2>9. CASE UNCHANGED vars
    BY <2>9 DEF vars
  <2> QED BY <2>1, <2>2, <2>3, <2>4, <2>5, <2>6, <2>7, <2>8, <2>9 DEF Next
<1> QED BY <1>1, <1>2, PTL DEF Spec

-----------------------------------------------------------------------------
(***************************************************************************)
(* The changes of one group, told apart by their type.                     *)
(***************************************************************************)
LEMMA IdentityIsAPair ==
  ASSUME NEW scan, NEW key \in Identities(scan)
  PROVE  key = <<key[1], key[2]>>
BY DEF Identities, GroupIdentity

\* What a change says of either side follows from what it is about.
Before(old, type, key, file) ==
  CASE type = "group_removed"    -> Indexed(old, key).status
    [] type = "status_changed"   -> Indexed(old, key).status
    [] type = "artifact_changed" -> Indexed(old, key).artifacts[file]
    [] type = "artifact_removed" -> Indexed(old, key).artifacts[file]
    [] OTHER                     -> NoValue

After(new, type, key, file) ==
  CASE type = "group_added"      -> Indexed(new, key).status
    [] type = "status_changed"   -> Indexed(new, key).status
    [] type = "artifact_changed" -> Indexed(new, key).artifacts[file]
    [] type = "artifact_added"   -> Indexed(new, key).artifacts[file]
    [] OTHER                     -> NoValue

\* The change of that type about that group and file.
TheChange(old, new, type, key, file) ==
  Change(type, key, file, Before(old, type, key, file), After(new, type, key, file))

\* Every change is the one of its type, group and file.
Canonical(old, new, c) ==
  /\ c = TheChange(old, new, c.type, <<c.source, c.id>>, c.file)
  /\ c.type \in ChangeTypes

\* A change of two matched groups is determined by its class, key and file.
LEMMA MatchedAreCanonical ==
  ASSUME NEW old, NEW new, NEW key, key = <<key[1], key[2]>>,
         NEW c \in MatchedChanges(key, Indexed(old, key), Indexed(new, key))
  PROVE  Canonical(old, new, c)
<1> DEFINE before == Indexed(old, key)
           after  == Indexed(new, key)
<1> USE DEF Canonical, TheChange, Before, After, Change, ChangeTypes,
            GroupClasses, ArtifactClasses
<1>1. CASE c \in StatusChanged(key, before, after)
  <2>1. c = Change("status_changed", key, NoName, before.status, after.status)
    BY <1>1 DEF StatusChanged
  <2> QED BY <2>1
<1>2. CASE c \in ArtifactChanges(key, before.artifacts, after.artifacts)
  <2>1. CASE \E f : c = Change("artifact_changed", key, f,
                               before.artifacts[f], after.artifacts[f])
    BY <2>1
  <2>2. CASE \E f : c = Change("artifact_added", key, f, NoValue, after.artifacts[f])
    BY <2>2
  <2>3. CASE \E f : c = Change("artifact_removed", key, f, before.artifacts[f], NoValue)
    BY <2>3
  <2> QED BY <1>2, <2>1, <2>2, <2>3 DEF ArtifactChanges
<1> QED BY <1>1, <1>2 DEF MatchedChanges

\* Every change is determined by its class, key and file.
LEMMA DiffIsCanonical ==
  ASSUME NEW old, NEW new, NEW c \in DiffScans(old, new)
  PROVE  Canonical(old, new, c)
<1> USE DEF Canonical, TheChange, Before, After, Change, ChangeTypes,
            GroupClasses, ArtifactClasses
<1>1. CASE c \in GroupsAdded(old, new)
  <2>1. PICK key \in Identities(new) :
          c = Change("group_added", key, NoName, NoValue, Indexed(new, key).status)
    BY <1>1 DEF GroupsAdded
  <2>2. key = <<key[1], key[2]>>
    BY IdentityIsAPair
  <2> QED BY <2>1, <2>2
<1>2. CASE c \in GroupsRemoved(old, new)
  <2>1. PICK key \in Identities(old) :
          c = Change("group_removed", key, NoName, Indexed(old, key).status, NoValue)
    BY <1>2 DEF GroupsRemoved
  <2>2. key = <<key[1], key[2]>>
    BY IdentityIsAPair
  <2> QED BY <2>1, <2>2
<1>3. CASE \E key \in Identities(old) \cap Identities(new) :
             c \in MatchedChanges(key, Indexed(old, key), Indexed(new, key))
  <2>1. PICK key \in Identities(old) :
          c \in MatchedChanges(key, Indexed(old, key), Indexed(new, key))
    BY <1>3
  <2> QED BY ONLY <2>1, IdentityIsAPair, MatchedAreCanonical
<1> QED BY <1>1, <1>2, <1>3 DEF DiffScans

-----------------------------------------------------------------------------
(***************************************************************************)
(* Sets of strings come in another order in every run of Python: the sort  *)
(* key still orders the changes of any two reports completely.             *)
(***************************************************************************)
THEOREM OrderDetermined == Spec => []OrderIsDetermined
<1>1. ChangesAreTheDiff => OrderIsDetermined
  <2> SUFFICES ASSUME ChangesAreTheDiff, NEW c \in changes, NEW d \in changes,
                      SortKey(c) = SortKey(d)
               PROVE  c = d
    BY DEF OrderIsDetermined
  <2>1. Canonical(baseline, current, c) /\ Canonical(baseline, current, d)
    BY DiffIsCanonical DEF ChangesAreTheDiff
  <2>2. c.type = d.type /\ c.source = d.source /\ c.id = d.id /\ c.file = d.file
    BY DEF SortKey
  <2> QED BY <2>1, <2>2 DEF Canonical
<1> QED BY <1>1, DiffInvariant, PTL

-----------------------------------------------------------------------------
(***************************************************************************)
(* Which changes there are.                                                *)
(***************************************************************************)
\* There is a change of that type about that group and file.
Reported(old, new, type, key, file) ==
  LET oldFiles == Indexed(old, key).artifacts
      newFiles == Indexed(new, key).artifacts
      matched  == key \in Identities(old) /\ key \in Identities(new)
  IN  \/ /\ type = "group_added" /\ file = NoName
         /\ key \in Identities(new) /\ key \notin Identities(old)
      \/ /\ type = "group_removed" /\ file = NoName
         /\ key \in Identities(old) /\ key \notin Identities(new)
      \/ /\ type = "status_changed" /\ file = NoName
         /\ matched /\ Indexed(old, key).status # Indexed(new, key).status
      \/ /\ type = "artifact_changed"
         /\ matched /\ file \in FilesChanged(oldFiles, newFiles)
      \/ /\ type = "artifact_added"
         /\ matched /\ file \in FilesAdded(oldFiles, newFiles)
      \/ /\ type = "artifact_removed"
         /\ matched /\ file \in FilesRemoved(oldFiles, newFiles)

\* What differs between two matched groups is reported.
LEMMA MatchedAreReported ==
  ASSUME NEW old, NEW new, NEW key, key = <<key[1], key[2]>>,
         key \in Identities(old), key \in Identities(new),
         NEW c \in MatchedChanges(key, Indexed(old, key), Indexed(new, key))
  PROVE  Reported(old, new, c.type, <<c.source, c.id>>, c.file)
<1> DEFINE before == Indexed(old, key)
           after  == Indexed(new, key)
<1> USE DEF Change
<1>1. CASE c \in StatusChanged(key, before, after)
  <2>1. /\ c = Change("status_changed", key, NoName, before.status, after.status)
        /\ before.status # after.status
    BY <1>1 DEF StatusChanged
  <2> QED BY <2>1 DEF Reported
<1>2. CASE c \in ArtifactChanges(key, before.artifacts, after.artifacts)
  <2>1. CASE \E f \in FilesChanged(before.artifacts, after.artifacts) :
               c = Change("artifact_changed", key, f,
                          before.artifacts[f], after.artifacts[f])
    BY <2>1 DEF Reported
  <2>2. CASE \E f \in FilesAdded(before.artifacts, after.artifacts) :
               c = Change("artifact_added", key, f, NoValue, after.artifacts[f])
    BY <2>2 DEF Reported
  <2>3. CASE \E f \in FilesRemoved(before.artifacts, after.artifacts) :
               c = Change("artifact_removed", key, f, before.artifacts[f], NoValue)
    BY <2>3 DEF Reported
  <2> QED BY <1>2, <2>1, <2>2, <2>3 DEF ArtifactChanges
<1> QED BY <1>1, <1>2 DEF MatchedChanges

\* Every difference of the reports, by cases, is reported.
LEMMA ChangesAreReported ==
  ASSUME NEW old, NEW new, NEW c \in DiffScans(old, new)
  PROVE  Reported(old, new, c.type, <<c.source, c.id>>, c.file)
<1> USE DEF Change
<1>1. CASE c \in GroupsAdded(old, new)
  <2>1. PICK key \in Identities(new) :
          /\ key \notin Identities(old)
          /\ c = Change("group_added", key, NoName, NoValue, Indexed(new, key).status)
    BY <1>1 DEF GroupsAdded
  <2>2. key = <<key[1], key[2]>>
    BY IdentityIsAPair
  <2> QED BY <2>1, <2>2 DEF Reported
<1>2. CASE c \in GroupsRemoved(old, new)
  <2>1. PICK key \in Identities(old) :
          /\ key \notin Identities(new)
          /\ c = Change("group_removed", key, NoName, Indexed(old, key).status, NoValue)
    BY <1>2 DEF GroupsRemoved
  <2>2. key = <<key[1], key[2]>>
    BY IdentityIsAPair
  <2> QED BY <2>1, <2>2 DEF Reported
<1>3. CASE \E key \in Identities(old) \cap Identities(new) :
             c \in MatchedChanges(key, Indexed(old, key), Indexed(new, key))
  <2>1. PICK key \in Identities(old) :
          /\ key \in Identities(new)
          /\ c \in MatchedChanges(key, Indexed(old, key), Indexed(new, key))
    BY <1>3
  <2> QED BY ONLY <2>1, IdentityIsAPair, MatchedAreReported
<1> QED BY <1>1, <1>2, <1>3 DEF DiffScans

\* Everything that is reported is a difference, by the same cases.
LEMMA ReportedAreChanges ==
  ASSUME NEW old, NEW new, NEW type, NEW key, NEW file,
         Reported(old, new, type, key, file)
  PROVE  TheChange(old, new, type, key, file) \in DiffScans(old, new)
<1> DEFINE before == Indexed(old, key)
           after  == Indexed(new, key)
           c      == TheChange(old, new, type, key, file)
<1>1. CASE type = "group_added"
  <2>1. c = Change(type, key, NoName, NoValue, after.status)
    BY <1>1 DEF Reported, TheChange, Before, After
  <2> QED BY <1>1, <2>1 DEF Reported, DiffScans, GroupsAdded
<1>2. CASE type = "group_removed"
  <2>1. c = Change(type, key, NoName, before.status, NoValue)
    BY <1>2 DEF Reported, TheChange, Before, After
  <2> QED BY <1>2, <2>1 DEF Reported, DiffScans, GroupsRemoved
<1>3. CASE type \notin GroupClasses
  <2>1. c \in MatchedChanges(key, before, after)
    <3>1. CASE type = "status_changed"
      BY <3>1 DEF Reported, TheChange, Before, After, MatchedChanges, StatusChanged
    <3>2. CASE type = "artifact_changed"
      BY <3>2 DEF Reported, TheChange, Before, After, MatchedChanges, ArtifactChanges
    <3>3. CASE type = "artifact_added"
      BY <3>3 DEF Reported, TheChange, Before, After, MatchedChanges, ArtifactChanges
    <3>4. CASE type = "artifact_removed"
      BY <3>4 DEF Reported, TheChange, Before, After, MatchedChanges, ArtifactChanges
    <3> QED BY <1>3, <3>1, <3>2, <3>3, <3>4 DEF Reported, GroupClasses
  <2>2. key \in Identities(old) \cap Identities(new)
    BY <1>3 DEF Reported, GroupClasses
  <2> QED BY <2>1, <2>2 DEF DiffScans
<1> QED BY <1>1, <1>2, <1>3 DEF GroupClasses

-----------------------------------------------------------------------------
(***************************************************************************)
(* A group that came or went is in no other change, the status of a group  *)
(* and each of its files are in one at most, and no content of a changed   *)
(* file is counted again as added or removed (the precedence rule of       *)
(* _diff_artifacts_in_matched_group), for any two reports.                 *)
(***************************************************************************)
THEOREM CountedOnce == Spec => []NothingCountsTwice
<1>1. ChangesAreTheDiff => NothingCountsTwice
  <2> SUFFICES ASSUME ChangesAreTheDiff, NEW c \in changes, NEW d \in changes,
                      c.source = d.source, c.id = d.id
               PROVE  /\ c.type \in GroupClasses => d = c
                      /\ /\ c.file = d.file
                         /\ c.type \in ArtifactClasses <=> d.type \in ArtifactClasses
                         => d = c
                      /\ c.type = "artifact_changed" =>
                           /\ d.type = "artifact_added" => d.after # c.after
                           /\ d.type = "artifact_removed" => d.before # c.before
    BY DEF NothingCountsTwice
  <2> DEFINE key == <<c.source, c.id>>
  <2>1. Canonical(baseline, current, c) /\ Canonical(baseline, current, d)
    BY DiffIsCanonical DEF ChangesAreTheDiff
  <2>2. /\ Reported(baseline, current, c.type, key, c.file)
        /\ Reported(baseline, current, d.type, key, d.file)
    BY ChangesAreReported DEF ChangesAreTheDiff
  <2>3. CASE c.type = d.type /\ c.file = d.file
    BY <2>1, <2>3 DEF Canonical
  <2>4. c.type \in GroupClasses => d = c
    <3> SUFFICES ASSUME c.type \in GroupClasses PROVE d = c
      OBVIOUS
    <3>1. d.type = c.type /\ d.file = c.file
      BY <2>2 DEF Reported, GroupClasses
    <3> QED BY <2>3, <3>1
  <2>5. ASSUME c.file = d.file, c.type \in ArtifactClasses <=> d.type \in ArtifactClasses
        PROVE  d = c
    <3>1. CASE c.type \in ArtifactClasses
      <4>1. d.type = c.type
        BY <2>2, <2>5, <3>1 DEF Reported, ArtifactClasses, FilesChanged, FilesMatched,
           FilesAdded, FilesRemoved
      <4> QED BY <2>3, <2>5, <4>1
    <3>2. CASE c.type \notin ArtifactClasses
      <4>1. d.type = c.type
        BY <2>2, <2>5, <3>2 DEF Reported, ArtifactClasses
      <4> QED BY <2>3, <2>5, <4>1
    <3> QED BY <3>1, <3>2
  <2>6. ASSUME c.type = "artifact_changed"
        PROVE  /\ d.type = "artifact_added" => d.after # c.after
               /\ d.type = "artifact_removed" => d.before # c.before
    <3> DEFINE old == Indexed(baseline, key).artifacts
               new == Indexed(current, key).artifacts
    <3>1. /\ c.file \in FilesMatched(old, new)
          /\ c.before = old[c.file] /\ c.after = new[c.file]
      BY <2>1, <2>2, <2>6
      DEF Reported, Canonical, TheChange, Change, Before, After, FilesChanged
    <3>2. ASSUME d.type = "artifact_added"
          PROVE  d.after # c.after
      <4>1. d.file \in FilesAdded(old, new)
        BY <2>2, <3>2 DEF Reported
      <4>2. d.after = new[d.file]
        BY <2>1, <3>2 DEF Canonical, TheChange, Change, Before, After
      <4> QED BY <3>1, <4>1, <4>2 DEF FilesAdded, ConsumedNew
    <3>3. ASSUME d.type = "artifact_removed"
          PROVE  d.before # c.before
      <4>1. d.file \in FilesRemoved(old, new)
        BY <2>2, <3>3 DEF Reported
      <4>2. d.before = old[d.file]
        BY <2>1, <3>3 DEF Canonical, TheChange, Change, Before, After
      <4> QED BY <3>1, <4>1, <4>2 DEF FilesRemoved, ConsumedOld
    <3> QED BY <3>2, <3>3
  <2> QED BY <2>4, <2>5, <2>6
<1> QED BY <1>1, DiffInvariant, PTL

-----------------------------------------------------------------------------
(***************************************************************************)
(* The other way round.                                                    *)
(***************************************************************************)
Opposite(type) ==
  CASE type = "group_added"      -> "group_removed"
    [] type = "group_removed"    -> "group_added"
    [] type = "artifact_added"   -> "artifact_removed"
    [] type = "artifact_removed" -> "artifact_added"
    [] OTHER                     -> type

\* The pairing of files has no direction.
LEMMA FilesBackwards ==
  ASSUME NEW old, NEW new
  PROVE  /\ FilesChanged(new, old) = FilesChanged(old, new)
         /\ FilesAdded(new, old) = FilesRemoved(old, new)
         /\ FilesRemoved(new, old) = FilesAdded(old, new)
<1>1. FilesMatched(new, old) = FilesMatched(old, new)
  BY DEF FilesMatched
<1>2. /\ ConsumedNew(new, old) = ConsumedOld(old, new)
      /\ ConsumedOld(new, old) = ConsumedNew(old, new)
  BY <1>1 DEF ConsumedNew, ConsumedOld
<1> QED BY <1>1, <1>2 DEF FilesChanged, FilesAdded, FilesRemoved

\* The cases of a change, with the reports exchanged.
LEMMA ReportedBackwards ==
  ASSUME NEW old, NEW new, NEW type, NEW key, NEW file,
         Reported(old, new, type, key, file)
  PROVE  Reported(new, old, Opposite(type), key, file)
<1>1. /\ Reported(old, new, type, key, file)
      /\ type \in ChangeTypes
  BY DEF Reported, ChangeTypes, GroupClasses, ArtifactClasses
<1>2. CASE type \in GroupClasses \cup {"status_changed"}
  BY <1>1, <1>2 DEF Reported, Opposite, GroupClasses
<1>3. CASE type \in ArtifactClasses
  BY <1>1, <1>3, FilesBackwards DEF Reported, Opposite, ArtifactClasses
<1> QED BY <1>1, <1>2, <1>3 DEF ChangeTypes

\* The change that is reported, with the reports exchanged.
LEMMA TheChangeBackwards ==
  ASSUME NEW old, NEW new, NEW type \in ChangeTypes, NEW key, NEW file
  PROVE  Backwards(TheChange(old, new, type, key, file))
           = TheChange(new, old, Opposite(type), key, file)
<1> DEFINE b == Before(old, type, key, file)
           a == After(new, type, key, file)
           c == Change(type, key, file, b, a)
<1>1. Backwards(c) = Change(Opposite(type), key, file, a, b)
  <2>1. /\ c.type = type /\ c.before = b /\ c.after = a
        /\ c = [type |-> type, source |-> key[1], id |-> key[2], file |-> file,
                before |-> b, after |-> a]
    BY DEF Change
  <2>2. Backwards(c) = [c EXCEPT !.type = Opposite(type), !.before = a, !.after = b]
    BY <2>1 DEF Backwards, Opposite
  <2> QED BY <2>1, <2>2 DEF Change
<1>2. /\ Before(new, Opposite(type), key, file) = a
      /\ After(old, Opposite(type), key, file) = b
  BY DEF Before, After, Opposite, ChangeTypes, GroupClasses, ArtifactClasses
<1> QED BY <1>1, <1>2 DEF TheChange

\* A change backwards is a change of the comparison backwards.
LEMMA EachBackwards ==
  ASSUME NEW old, NEW new, NEW c \in DiffScans(old, new)
  PROVE  /\ Backwards(c) \in DiffScans(new, old)
         /\ Backwards(Backwards(c)) = c
<1> DEFINE key == <<c.source, c.id>>
<1>1. /\ c = TheChange(old, new, c.type, key, c.file)
      /\ c.type \in ChangeTypes
  BY DiffIsCanonical DEF Canonical
<1>2. Backwards(c) = TheChange(new, old, Opposite(c.type), key, c.file)
  BY ONLY <1>1, TheChangeBackwards
<1>3. Backwards(c) \in DiffScans(new, old)
  <2>1. Reported(new, old, Opposite(c.type), key, c.file)
    BY ChangesAreReported, ReportedBackwards
  <2> QED BY ONLY <1>2, <2>1, ReportedAreChanges
<1>4. Backwards(Backwards(c)) = c
  <2>1. Opposite(c.type) \in ChangeTypes /\ Opposite(Opposite(c.type)) = c.type
    BY <1>1 DEF Opposite, ChangeTypes, GroupClasses, ArtifactClasses
  <2>2. Backwards(Backwards(c)) = TheChange(old, new, c.type, key, c.file)
    BY ONLY <1>2, <2>1, TheChangeBackwards
  <2> QED BY ONLY <2>2, <1>1
<1> QED BY <1>3, <1>4

(***************************************************************************)
(* diff_scans of any two reports, taken the other way round, reports the   *)
(* same differences backwards.                                             *)
(***************************************************************************)
THEOREM Reversible == Spec => []DiffIsReversible
<1>1. ASSUME NEW old, NEW new
      PROVE  DiffScans(new, old) = {Backwards(c) : c \in DiffScans(old, new)}
  BY ONLY EachBackwards
<1>2. ChangesAreTheDiff => DiffIsReversible
  BY ONLY <1>1 DEF ChangesAreTheDiff, DiffIsReversible
<1> QED BY <1>2, DiffInvariant, PTL

-----------------------------------------------------------------------------
(***************************************************************************)
(* The changes of one type, as sets of groups and of files.                *)
(***************************************************************************)
LEMMA GroupsOfAType ==
  ASSUME changes = DiffScans(baseline, current), NEW type,
         NEW key, NEW file, key = <<key[1], key[2]>>,
         Reported(baseline, current, type, key, file)
  PROVE  \E c \in changes : /\ c.type = type /\ c.file = file
                            /\ <<c.source, c.id>> = key
<1> DEFINE c == TheChange(baseline, current, type, key, file)
<1>1. c \in changes
  BY ReportedAreChanges
<1>2. c.type = type /\ c.file = file /\ c.source = key[1] /\ c.id = key[2]
  BY DEF TheChange, Change
<1> QED BY <1>1, <1>2

(***************************************************************************)
(* What diff_scans reports leads from any baseline to any current report:  *)
(* groups, statuses, and the files of groups without equal contents.       *)
(***************************************************************************)
THEOREM LeadsToCurrent == Spec => []ChangesLeadToCurrent
<1>1. ChangesAreTheDiff => ChangesLeadToCurrent
  <2> SUFFICES ASSUME ChangesAreTheDiff, Compared
               PROVE  GroupsFollow /\ \A key \in Matched : FilesFollow(key)
    BY DEF ChangesLeadToCurrent
  <2>1. changes = DiffScans(baseline, current)
    BY DEF ChangesAreTheDiff
  <2> HIDE DEF ChangesAreTheDiff
  <2>2. ASSUME NEW c \in changes
        PROVE  Reported(baseline, current, c.type, <<c.source, c.id>>, c.file)
    BY ONLY <2>1, <2>2, ChangesAreReported
  <2> DEFINE KeysIn(type) == {<<c.source, c.id>> : c \in {d \in changes : d.type = type}}
  <2>3. KeysIn("group_added") = Identities(current) \ Identities(baseline)
    <3>1. KeysIn("group_added") \subseteq Identities(current) \ Identities(baseline)
      BY <2>2 DEF Reported
    <3>2. ASSUME NEW key \in Identities(current), key \notin Identities(baseline)
          PROVE  key \in KeysIn("group_added")
      <4>1. Reported(baseline, current, "group_added", key, NoName)
        BY <3>2 DEF Reported
      <4>2. key = <<key[1], key[2]>>
        BY IdentityIsAPair
      <4> QED BY <2>1, <4>1, <4>2, GroupsOfAType
    <3> QED BY <3>1, <3>2
  <2>4. KeysIn("group_removed") = Identities(baseline) \ Identities(current)
    <3>1. KeysIn("group_removed") \subseteq Identities(baseline) \ Identities(current)
      BY <2>2 DEF Reported
    <3>2. ASSUME NEW key \in Identities(baseline), key \notin Identities(current)
          PROVE  key \in KeysIn("group_removed")
      <4>1. Reported(baseline, current, "group_removed", key, NoName)
        BY <3>2 DEF Reported
      <4>2. key = <<key[1], key[2]>>
        BY IdentityIsAPair
      <4> QED BY <2>1, <4>1, <4>2, GroupsOfAType
    <3> QED BY <3>1, <3>2
  <2>5. KeysIn("status_changed") =
          {key \in Matched :
             Indexed(baseline, key).status # Indexed(current, key).status}
    <3>1. ASSUME NEW key \in KeysIn("status_changed")
          PROVE  /\ key \in Matched
                 /\ Indexed(baseline, key).status # Indexed(current, key).status
      BY <2>2 DEF Reported, Matched
    <3>2. ASSUME NEW key \in Matched,
                 Indexed(baseline, key).status # Indexed(current, key).status
          PROVE  key \in KeysIn("status_changed")
      <4>1. Reported(baseline, current, "status_changed", key, NoName)
        BY <3>2 DEF Reported, Matched
      <4>2. key = <<key[1], key[2]>>
        BY IdentityIsAPair DEF Matched
      <4> QED BY <2>1, <4>1, <4>2, GroupsOfAType
    <3> QED BY <3>1, <3>2
  <2>6. GroupsFollow
    BY <2>3, <2>4, <2>5 DEF GroupsFollow
  <2>7. ASSUME NEW key \in Matched PROVE FilesFollow(key)
    <3> DEFINE old == Indexed(baseline, key).artifacts
               new == Indexed(current, key).artifacts
    <3>1. key = <<key[1], key[2]>>
      BY IdentityIsAPair DEF Matched
    <3>2. ASSUME NEW f
          PROVE  /\ f \in FilesIn("artifact_added", key) <=> f \in FilesAdded(old, new)
                 /\ f \in FilesIn("artifact_removed", key) <=> f \in FilesRemoved(old, new)
                 /\ f \in FilesIn("artifact_changed", key) <=> f \in FilesChanged(old, new)
      <4>1. /\ f \in FilesIn("artifact_added", key) => f \in FilesAdded(old, new)
            /\ f \in FilesIn("artifact_removed", key) => f \in FilesRemoved(old, new)
            /\ f \in FilesIn("artifact_changed", key) => f \in FilesChanged(old, new)
        BY <2>2 DEF FilesIn, Reported
      <4>2. ASSUME f \in FilesAdded(old, new)
            PROVE  f \in FilesIn("artifact_added", key)
        <5>1. Reported(baseline, current, "artifact_added", key, f)
          BY <4>2 DEF Reported, Matched
        <5> QED BY <2>1, <3>1, <5>1, GroupsOfAType DEF FilesIn
      <4>3. ASSUME f \in FilesRemoved(old, new)
            PROVE  f \in FilesIn("artifact_removed", key)
        <5>1. Reported(baseline, current, "artifact_removed", key, f)
          BY <4>3 DEF Reported, Matched
        <5> QED BY <2>1, <3>1, <5>1, GroupsOfAType DEF FilesIn
      <4>4. ASSUME f \in FilesChanged(old, new)
            PROVE  f \in FilesIn("artifact_changed", key)
        <5>1. Reported(baseline, current, "artifact_changed", key, f)
          BY <4>4 DEF Reported, Matched
        <5> QED BY <2>1, <3>1, <5>1, GroupsOfAType DEF FilesIn
      <4> QED BY <4>1, <4>2, <4>3, <4>4
    <3>3. /\ FilesIn("artifact_added", key) = FilesAdded(old, new)
          /\ FilesIn("artifact_removed", key) = FilesRemoved(old, new)
          /\ FilesIn("artifact_changed", key) = FilesChanged(old, new)
      BY ONLY <3>2
    <3>4. ASSUME DistinctContents(old), DistinctContents(new)
          PROVE  /\ FilesAdded(old, new) = DOMAIN new \ DOMAIN old
                 /\ FilesRemoved(old, new) = DOMAIN old \ DOMAIN new
      BY <3>4 DEF DistinctContents, FilesAdded, FilesRemoved, ConsumedNew,
         ConsumedOld, FilesMatched
    <3>5. FilesChanged(old, new) = {f \in DOMAIN old \cap DOMAIN new : old[f] # new[f]}
      BY DEF FilesChanged, FilesMatched
    <3> QED BY <3>3, <3>4, <3>5 DEF FilesFollow
  <2> QED BY <2>6, <2>7
<1> QED BY <1>1, DiffInvariant, PTL

-----------------------------------------------------------------------------
(***************************************************************************)
(* Types and exit codes.                                                   *)
(***************************************************************************)
\* How far the command got, and what its exit code can be then.
ExitInv ==
  /\ pc # "ended" => exit = NoValue
  /\ pc = "finish" => printed
  /\ pc = "ended" /\ printed => exit = ExitCode
  /\ exit = 0 => printed
  /\ exit \in {64, 65, 66} => changes = {} /\ ~printed

IInv == TypeOK /\ ChangesAreTheDiff /\ ExitInv

\* A report that loads lets the command go on, any other ends it.
LEMMA LoadExits ==
  ASSUME NEW input \in Inputs, NEW next, Load(input, next)
  PROVE  \/ pc' = next /\ exit' = exit
         \/ pc' = "ended" /\ exit' \in {1, 64, 65, 66}
<1>1. CASE Loads(input) /\ Goto(next)
  BY <1>1 DEF Goto
<1>2. CASE ~Loads(input) /\ ExitWith(LoadExit[input.kind])
  <2>1. input.kind \in DOMAIN LoadExit
    BY <1>2, DiffConstants
  <2>2. LoadExit[input.kind] \in {1, 64, 65, 66}
    BY <2>1 DEF LoadExit
  <2> QED BY <1>2, <2>2 DEF ExitWith
<1> QED BY <1>1, <1>2 DEF Load

\* The stage and the exit code of the command agree.
LEMMA CommandInvariant == Spec => []IInv
<1>1. Init => IInv
  BY DiffConstants DEF Init, IInv, TypeOK, ChangesAreTheDiff, ExitInv, Compared
<1>2. IInv /\ ChangesAreTheDiff' /\ [Next]_vars => IInv'
  <2> SUFFICES ASSUME IInv, ChangesAreTheDiff', [Next]_vars
               PROVE  TypeOK' /\ ExitInv'
    BY DEF IInv
  <2> USE DiffConstants DEF IInv, ExitInv, Goto, ExitWith
  <2>1. TypeOK'
    <3>1. ASSUME NEW c \in changes' PROVE c.type \in ChangeTypes
      <4>1. c \in DiffScans(baseline', current')
        BY <3>1 DEF ChangesAreTheDiff
      <4> QED BY ONLY <4>1, DiffIsCanonical DEF Canonical
    <3>2. /\ pc' \in {"baseline", "current", "compare", "print", "finish", "ended"}
          /\ exit' \in {NoValue, 0, 1, 2, 64, 65, 66}
          /\ opts' = opts /\ given' = given
          /\ printed' \in BOOLEAN
      <4> USE DEF TypeOK
      <4>1. CASE LoadBaseline
        BY <4>1, LoadExits DEF LoadBaseline
      <4>2. CASE LoadCurrent
        BY <4>2, LoadExits DEF LoadCurrent
      <4>3. CASE RefuseImplicit \/ ScanNow \/ Compare \/ CompareFails
        BY <4>3 DEF RefuseImplicit, ScanNow, Compare, CompareFails
      <4>4. CASE Show
        BY <4>4 DEF Show
      <4>5. CASE Finish
        BY <4>5 DEF Finish, ExitCode
      <4>6. CASE UNCHANGED vars
        BY <4>6 DEF vars
      <4> QED BY <4>1, <4>2, <4>3, <4>4, <4>5, <4>6 DEF Next
    <3> QED BY <3>1, <3>2 DEF TypeOK
  <2>2. ExitInv'
    <3> USE DEF TypeOK, ChangesAreTheDiff
    <3>1. CASE LoadBaseline
      BY <3>1, LoadExits DEF LoadBaseline
    <3>2. CASE LoadCurrent
      BY <3>2, LoadExits DEF LoadCurrent
    <3>3. CASE RefuseImplicit \/ ScanNow \/ Compare \/ CompareFails
      BY <3>3 DEF RefuseImplicit, ScanNow, Compare, CompareFails
    <3>4. CASE Show
      BY <3>4 DEF Show
    <3>5. CASE Finish
      BY <3>5 DEF Finish, ExitCode
    <3>6. CASE UNCHANGED vars
      BY <3>6 DEF vars, ExitCode
    <3> QED BY <3>1, <3>2, <3>3, <3>4, <3>5, <3>6 DEF Next
  <2> QED BY <2>1, <2>2
<1> QED BY <1>1, <1>2, DiffInvariant, PTL DEF Spec

\* The state of the diff command is well formed, for all inputs and reports.
THEOREM TypeCorrect == Spec => []TypeOK
<1>1. IInv => TypeOK
  BY DEF IInv
<1> QED BY <1>1, CommandInvariant, PTL

\* The changes hold a regression exactly if a matched group regressed.
LEMMA RegressionsAreChanges ==
  ASSUME changes = DiffScans(baseline, current)
  PROVE  (\E c \in changes : IsRegression(c))
           <=> \E key \in Identities(baseline) : Regressed(key)
<1>1. ASSUME NEW c \in changes, IsRegression(c)
      PROVE  \E key \in Identities(baseline) : Regressed(key)
  <2> DEFINE key == <<c.source, c.id>>
  <2>1. key \in Identities(baseline) /\ key \in Identities(current)
    BY <1>1, ChangesAreReported DEF IsRegression, Reported
  <2>2. /\ c.before = Indexed(baseline, key).status
        /\ c.after = Indexed(current, key).status
    BY <1>1, DiffIsCanonical
    DEF IsRegression, Canonical, TheChange, Change, Before, After
  <2> QED BY <1>1, <2>1, <2>2 DEF Regressed, Matched, IsRegression
<1>2. ASSUME NEW key \in Identities(baseline), Regressed(key)
      PROVE  \E c \in changes : IsRegression(c)
  <2> DEFINE c == TheChange(baseline, current, "status_changed", key, NoName)
  <2>1. Reported(baseline, current, "status_changed", key, NoName)
    BY <1>2 DEF Regressed, Matched, Reported
  <2>2. c \in changes
    BY <2>1, ReportedAreChanges
  <2>3. IsRegression(c)
    BY <1>2 DEF Regressed, IsRegression, TheChange, Change, Before, After
  <2> QED BY <2>2, <2>3
<1> QED BY <1>1, <1>2

\* The files of a matched group have no change exactly if they are the same.
LEMMA FilesStay ==
  ASSUME NEW old, NEW new
  PROVE  SameFiles(old, new) <=> /\ FilesChanged(old, new) = {}
                                 /\ FilesAdded(old, new) = {}
                                 /\ FilesRemoved(old, new) = {}
<1>1. FilesMatched(old, new) = DOMAIN old \cap DOMAIN new
  BY DEF FilesMatched
<1>2. FilesChanged(old, new) = {} <=> \A f \in FilesMatched(old, new) : old[f] = new[f]
  BY DEF FilesChanged
<1>3. ASSUME \A f \in FilesMatched(old, new) : old[f] = new[f]
      PROVE  /\ FilesAdded(old, new) = {}
                  <=> \A f \in DOMAIN new : new[f] \in ConsumedOld(old, new)
             /\ FilesRemoved(old, new) = {}
                  <=> \A f \in DOMAIN old : old[f] \in ConsumedOld(old, new)
  <2>1. ConsumedNew(old, new) = ConsumedOld(old, new)
    BY <1>3 DEF ConsumedNew, ConsumedOld
  <2>2. \A f \in FilesMatched(old, new) :
          old[f] \in ConsumedOld(old, new) /\ new[f] \in ConsumedNew(old, new)
    BY DEF ConsumedNew, ConsumedOld
  <2> QED BY <1>1, <2>1, <2>2 DEF FilesAdded, FilesRemoved
<1> QED BY <1>2, <1>3 DEF SameFiles, ConsumedOld

\* The diff is empty exactly if the reports say the same.
LEMMA NoChanges ==
  ASSUME changes = DiffScans(baseline, current)
  PROVE  changes = {} <=> NothingChanged
<1> DEFINE was(key) == Indexed(baseline, key)
           is(key)  == Indexed(current, key)
<1>1. ASSUME changes = {}
      PROVE  NothingChanged
  <2>1. ASSUME NEW type, NEW key, NEW file
        PROVE  ~Reported(baseline, current, type, key, file)
    BY <1>1, ReportedAreChanges
  <2>2. Identities(baseline) = Identities(current)
    <3>1. ASSUME NEW key \in Identities(current) PROVE key \in Identities(baseline)
      BY <2>1, <3>1 DEF Reported
    <3>2. ASSUME NEW key \in Identities(baseline) PROVE key \in Identities(current)
      BY <2>1, <3>2 DEF Reported
    <3> QED BY <3>1, <3>2
  <2>3. ASSUME NEW key \in Identities(baseline)
        PROVE  was(key).status = is(key).status
    BY <2>1, <2>2 DEF Reported
  <2>4. ASSUME NEW key \in Identities(baseline)
        PROVE  SameFiles(was(key).artifacts, is(key).artifacts)
    <3> DEFINE old == was(key).artifacts
               new == is(key).artifacts
    <3>1. ASSUME NEW f
          PROVE  /\ f \notin FilesChanged(old, new)
                 /\ f \notin FilesAdded(old, new)
                 /\ f \notin FilesRemoved(old, new)
      BY <2>1, <2>2 DEF Reported
    <3> QED BY <3>1, FilesStay
  <2> QED BY <2>2, <2>3, <2>4 DEF NothingChanged
<1>2. ASSUME NothingChanged, NEW c \in changes
      PROVE  FALSE
  <2> DEFINE key == <<c.source, c.id>>
             old == was(key).artifacts
             new == is(key).artifacts
  <2>1. Reported(baseline, current, c.type, key, c.file)
    BY ChangesAreReported
  <2>2. key \in Identities(baseline) /\ key \in Identities(current)
    BY <1>2, <2>1 DEF NothingChanged, Reported
  <2>3. was(key).status = is(key).status /\ SameFiles(old, new)
    BY <1>2, <2>2 DEF NothingChanged
  <2>4. FilesChanged(old, new) = {} /\ FilesAdded(old, new) = {} /\ FilesRemoved(old, new) = {}
    BY <2>3, FilesStay
  <2> QED BY <2>1, <2>2, <2>3, <2>4 DEF Reported
<1> QED BY <1>1, <1>2

(***************************************************************************)
(* Exit codes of diff: 2 and 1 come with a printed diff only if a          *)
(* regression, or a change, was asked for and is there; 0 hides no change  *)
(* of a group, a status or a file from a caller who gave --exit-code, and  *)
(* no regression from one who asked for those; a refusal prints nothing.   *)
(***************************************************************************)
THEOREM ExitCodesSayWhat == Spec => []ExitCodeSaysWhat
<1>1. IInv => ExitCodeSaysWhat
  <2> SUFFICES ASSUME IInv PROVE ExitCodeSaysWhat
    OBVIOUS
  <2>1. CASE printed /\ pc = "ended"
    <3>1. changes = DiffScans(baseline, current) /\ exit = ExitCode
      BY <2>1 DEF IInv, ChangesAreTheDiff, ExitInv
    <3>2. changes = {} <=> NothingChanged
      BY <3>1, NoChanges
    <3>3. (\E c \in changes : IsRegression(c))
            <=> \E key \in Identities(baseline) : Regressed(key)
      BY <3>1, RegressionsAreChanges
    <3>4. exit = 2 => /\ opts.onRegression
                      /\ \E key \in Identities(baseline) : Regressed(key)
      BY <3>1, <3>3 DEF ExitCode
    <3>5. exit = 1 => /\ opts.exitCode /\ changes # {}
                      /\ opts.onRegression =>
                           \A key \in Identities(baseline) : ~Regressed(key)
      BY <3>1, <3>3 DEF ExitCode
    <3>6. exit = 0 => /\ opts.exitCode => changes = {}
                      /\ opts.onRegression =>
                           \A key \in Identities(baseline) : ~Regressed(key)
      BY <3>1, <3>3 DEF ExitCode
    <3> QED BY <2>1, <3>2, <3>4, <3>5, <3>6 DEF ExitCodeSaysWhat, IInv, ExitInv
  <2>2. CASE ~printed
    BY <2>2 DEF IInv, ExitInv, ExitCodeSaysWhat
  <2>3. CASE pc # "ended"
    BY <2>3, DiffConstants DEF IInv, ExitInv, ExitCodeSaysWhat
  <2> QED BY <2>1, <2>2, <2>3
<1> QED BY <1>1, CommandInvariant, PTL

=============================================================================
