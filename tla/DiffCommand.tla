---------------------------- MODULE DiffCommand -----------------------------
(***************************************************************************)
(* One run of `trustfall diff BASELINE [CURRENT]` (cli.py): load both      *)
(* reports, or scan the default locations for the second one, compare,     *)
(* print, and turn the outcome into an exit code.                          *)
(*                                                                         *)
(* An input file is a record [kind, scope, report]:                        *)
(*   kind    "scan": a report of this major version; "malformed": one      *)
(*           whose groups lack a field the comparison needs; or the reason *)
(*           it is refused, a field of LoadExit                            *)
(*   scope   its scan_paths: "default" (an empty list), "explicit",        *)
(*           "absent"                                                      *)
(*   report  its groups, see Diff                                          *)
(***************************************************************************)
EXTENDS Diff

CONSTANTS
  Inputs,      \* what the files named on the command line may hold
  Reports,     \* what a scan of the default locations may report now
  NoInput,     \* no CURRENT on the command line
  Forbidden    \* the group ids and file names with a forbidden phrase in them

LoadExit == [missing |-> 64, unreadable |-> 64, not_json |-> 64, not_utf8 |-> 1,
             not_object |-> 65, no_scan |-> 65, other_major |-> 66]

Loads(input) == input.kind \in {"scan", "malformed"}

ASSUME DiffConstants ==
  /\ \A i \in Inputs : /\ i # NoInput
                       /\ Loads(i) \/ i.kind \in DOMAIN LoadExit
                       /\ i.scope \in {"default", "explicit", "absent"}
                       /\ DOMAIN i.report = 1 .. Len(i.report)
                       /\ Len(i.report) \in Nat
  /\ \A r \in Reports : DOMAIN r = 1 .. Len(r) /\ Len(r) \in Nat
  /\ NoName \notin Forbidden
  /\ NoValue \notin {0, 1, 2, 64, 65, 66}

VARIABLES
  pc,         \* stage of the command
  opts,       \* --json, --exit-code, --exit-code-on-status-regression
  given,      \* the files named: [baseline, current]
  baseline,   \* the two reports
  current,
  changes,    \* DiffResult.changes
  printed,    \* whether the diff reached stdout
  exit        \* exit code, or NoValue

vars == <<pc, opts, given, baseline, current, changes, printed, exit>>

Options == [json : BOOLEAN, exitCode : BOOLEAN, onRegression : BOOLEAN]

Init ==
  /\ pc = "baseline"
  /\ opts \in Options
  /\ given \in [baseline : Inputs, current : Inputs \cup {NoInput}]
  /\ baseline = <<>>
  /\ current = <<>>
  /\ changes = {}
  /\ printed = FALSE
  /\ exit = NoValue

Goto(stage) == pc' = stage /\ UNCHANGED exit

ExitWith(code) == pc' = "ended" /\ exit' = code

\* _load_scan_or_die: the first reason to refuse the file ends the command.
Load(input, next) ==
  \/ Loads(input) /\ Goto(next)
  \/ ~Loads(input) /\ ExitWith(LoadExit[input.kind])

LoadBaseline ==
  /\ pc = "baseline"
  /\ Load(given.baseline, "current")
  /\ baseline' = given.baseline.report
  /\ UNCHANGED <<opts, given, current, changes, printed>>

LoadCurrent ==
  /\ pc = "current"
  /\ given.current # NoInput
  /\ Load(given.current, "compare")
  /\ current' = given.current.report
  /\ UNCHANGED <<opts, given, baseline, changes, printed>>

\* Only a baseline that says it was taken from the default locations will do.
RefuseImplicit ==
  /\ pc = "current"
  /\ given.current = NoInput
  /\ given.baseline.scope # "default"
  /\ ExitWith(64)
  /\ UNCHANGED <<opts, given, baseline, current, changes, printed>>

(***************************************************************************)
(* _run_implicit_current_scan_or_die.  As in Scan, an odd answer of the    *)
(* API ends it with an exception, an unreachable one does not end it.      *)
(***************************************************************************)
ScanNow ==
  /\ pc = "current"
  /\ given.current = NoInput
  /\ given.baseline.scope = "default"
  /\ \/ \E report \in Reports : current' = report /\ Goto("compare")
     \/ ExitWith(1) /\ UNCHANGED current
  /\ UNCHANGED <<opts, given, baseline, changes, printed>>

Malformed ==
  \/ given.baseline.kind = "malformed"
  \/ given.current # NoInput /\ given.current.kind = "malformed"

Compare ==
  /\ pc = "compare"
  /\ ~Malformed
  /\ changes' = DiffScans(baseline, current)
  /\ Goto("print")
  /\ UNCHANGED <<opts, given, baseline, current, printed>>

\* A KeyError or TypeError on the way.
CompareFails ==
  /\ pc = "compare"
  /\ Malformed
  /\ ExitWith(1)
  /\ UNCHANGED <<opts, given, baseline, current, changes, printed>>

\* The text of the diff shows the id of every group and the name of every
\* file that changed, and is refused as a whole for a forbidden phrase.
Refused == ~opts.json /\ \E c \in changes : {c.id, c.file} \cap Forbidden # {}

Show ==
  /\ pc = "print"
  /\ IF Refused THEN ExitWith(1) /\ UNCHANGED printed
                ELSE Goto("finish") /\ printed' = TRUE
  /\ UNCHANGED <<opts, given, baseline, current, changes>>

\* Mutation of ExitCode: the flag for regressions replaces the other one.
ExitCodeRegressionOnly ==
  IF opts.onRegression
  THEN IF \E c \in changes : IsRegression(c) THEN 2 ELSE 0
  ELSE IF opts.exitCode /\ changes # {} THEN 1 ELSE 0

ExitCode ==
  IF opts.onRegression /\ \E c \in changes : IsRegression(c) THEN 2
  ELSE IF opts.exitCode /\ changes # {} THEN 1
  ELSE 0

Finish ==
  /\ pc = "finish"
  /\ ExitWith(ExitCode)
  /\ UNCHANGED <<opts, given, baseline, current, changes, printed>>

Next ==
  \/ LoadBaseline \/ LoadCurrent \/ RefuseImplicit \/ ScanNow
  \/ Compare \/ CompareFails \/ Show \/ Finish

Spec == Init /\ [][Next]_vars

-----------------------------------------------------------------------------
\* The command's state is well formed; there are six classes of change.
TypeOK ==
  /\ pc \in {"baseline", "current", "compare", "print", "finish", "ended"}
  /\ opts \in Options
  /\ given \in [baseline : Inputs, current : Inputs \cup {NoInput}]
  /\ \A c \in changes : c.type \in ChangeTypes
  /\ printed \in BOOLEAN
  /\ exit \in {NoValue, 0, 1, 2, 64, 65, 66}

Compared == pc \in {"print", "finish"}

Matched == Identities(baseline) \cap Identities(current)

\* The files of one group that are in changes of one type.
FilesIn(type, key) ==
  {c.file : c \in {d \in changes : d.type = type /\ <<d.source, d.id>> = key}}

\* No two files of the group have the same content.
DistinctContents(files) ==
  \A f, e \in DOMAIN files : files[f] = files[e] => f = e

(***************************************************************************)
(* The changes are the whole difference: the groups of the current report  *)
(* are those of the baseline without the removed and with the added ones,  *)
(* a matched group has another status exactly if that is reported, and,    *)
(* where no two files of a group have one content, its files are those of  *)
(* the baseline after the reported additions, removals and changes.        *)
(***************************************************************************)
GroupsFollow ==
  LET KeysIn(type) == {<<c.source, c.id>> : c \in {d \in changes : d.type = type}}
  IN  /\ Identities(current) =
           (Identities(baseline) \ KeysIn("group_removed")) \cup KeysIn("group_added")
      /\ KeysIn("status_changed") =
           {key \in Matched :
              Indexed(baseline, key).status # Indexed(current, key).status}

FilesFollow(key) ==
  LET old == Indexed(baseline, key).artifacts
      new == Indexed(current, key).artifacts
  IN  DistinctContents(old) /\ DistinctContents(new) =>
        /\ DOMAIN new = (DOMAIN old \ FilesIn("artifact_removed", key))
                           \cup FilesIn("artifact_added", key)
        /\ FilesIn("artifact_changed", key) =
             {f \in DOMAIN old \cap DOMAIN new : old[f] # new[f]}

ChangesLeadToCurrent ==
  Compared => GroupsFollow /\ \A key \in Matched : FilesFollow(key)

(***************************************************************************)
(* Comparing the other way round reports the same differences backwards:   *)
(* whatever one direction shows, the other one does not hide.              *)
(***************************************************************************)
Backwards(c) ==
  [c EXCEPT !.type = CASE c.type = "group_added"      -> "group_removed"
                       [] c.type = "group_removed"    -> "group_added"
                       [] c.type = "artifact_added"   -> "artifact_removed"
                       [] c.type = "artifact_removed" -> "artifact_added"
                       [] OTHER                       -> c.type,
            !.before = c.after, !.after = c.before]

DiffIsReversible ==
  Compared => DiffScans(current, baseline) = {Backwards(c) : c \in changes}

(***************************************************************************)
(* The precedence rule: a group that came or went has no other change, not *)
(* of a file either; the status of a group and each of its files are in    *)
(* one change at most; and a content that a changed file of the group had  *)
(* or has is not counted again as that of a removed or an added file.      *)
(***************************************************************************)
NothingCountsTwice ==
  \A c, d \in changes :
    c.source = d.source /\ c.id = d.id =>
      /\ c.type \in GroupClasses => d = c
      /\ /\ c.file = d.file
         /\ c.type \in ArtifactClasses <=> d.type \in ArtifactClasses
         => d = c
      /\ c.type = "artifact_changed" =>
           /\ d.type = "artifact_added" => d.after # c.after
           /\ d.type = "artifact_removed" => d.before # c.before

(***************************************************************************)
(* The sort leaves nothing to chance: sets of strings come in another      *)
(* order in every run of Python, and no two changes have equal keys.       *)
(***************************************************************************)
OrderIsDetermined ==
  \A c, d \in changes : SortKey(c) = SortKey(d) => c = d

\* Groups with a given identity were verified, and are there but are not.
Regressed(key) ==
  /\ key \in Matched
  /\ Indexed(baseline, key).status = "verified"
  /\ Indexed(current, key).status # "verified"

(***************************************************************************)
(* The reports say the same, as far as a diff can tell: the same groups of *)
(* the same status, whose files of one name have one content, and no other *)
(* file in them than one with the content of such a file.  (Of groups with *)
(* one identity the last one counts.)                                      *)
(***************************************************************************)
SameFiles(old, new) ==
  LET kept == {old[f] : f \in FilesMatched(old, new)}
  IN  /\ \A f \in FilesMatched(old, new) : old[f] = new[f]
      /\ \A f \in DOMAIN old : old[f] \in kept
      /\ \A f \in DOMAIN new : new[f] \in kept

NothingChanged ==
  /\ Identities(baseline) = Identities(current)
  /\ \A key \in Identities(baseline) :
       LET was == Indexed(baseline, key)
           is  == Indexed(current, key)
       IN  was.status = is.status /\ SameFiles(was.artifacts, is.artifacts)

(***************************************************************************)
(* What a caller may conclude from the exit code once the diff is printed. *)
(* 2: a regression, asked for.  1: a change of any class, asked for, and   *)
(* no regression if that was asked for too.  0: none of what was asked     *)
(* for, so that with --exit-code no group, status or file changed, also    *)
(* where the other flag was given.  A refusal prints nothing.              *)
(***************************************************************************)
ExitCodeSaysWhat ==
  /\ printed /\ exit = 2 =>
       opts.onRegression /\ \E key \in Identities(baseline) : Regressed(key)
  /\ printed /\ exit = 1 =>
       /\ opts.exitCode
       /\ ~NothingChanged
       /\ opts.onRegression => \A key \in Identities(baseline) : ~Regressed(key)
  /\ exit = 0 =>
       /\ printed
       /\ opts.exitCode => NothingChanged
       /\ opts.onRegression => \A key \in Identities(baseline) : ~Regressed(key)
  /\ exit \in {64, 65, 66} => changes = {} /\ ~printed

(***************************************************************************)
(* Statements of the documentation that the code does not keep.            *)
(***************************************************************************)

(***************************************************************************)
(* "Without these flags, `trustfall diff` always exits 0 on a successful   *)
(* comparison regardless of what changed": two sound reports, no flags.    *)
(***************************************************************************)
ComparisonsExitZero ==
  ( /\ exit # NoValue
    /\ ~opts.exitCode /\ ~opts.onRegression
    /\ given.baseline.kind = "scan"
    /\ given.current # NoInput /\ given.current.kind = "scan" ) => exit = 0

(***************************************************************************)
(* "Exit nonzero (2) if any group's status regressed": any group, also one *)
(* that another group of the same name and size hides.                     *)
(***************************************************************************)
EveryRegressionCounts ==
  (printed /\ exit # NoValue /\ opts.onRegression) =>
    \A i \in DOMAIN baseline, j \in DOMAIN current :
      ( /\ baseline[i].place = current[j].place
        /\ GroupIdentity(baseline[i]) = GroupIdentity(current[j])
        /\ baseline[i].status = "verified" /\ current[j].status # "verified" )
      => exit = 2

=============================================================================
