---------------------------- MODULE SnapshotStore ----------------------------
(***************************************************************************)
(* The local registry snapshot on disk, shared by several trustfall        *)
(* processes without a lock: each process of Refreshers runs               *)
(* `trustfall registry --refresh` (_refresh_snapshot, cli.py), each one of *)
(* Readers a command that calls load_snapshot once.                        *)
(*                                                                         *)
(* Every refresh writes to the same temporary name and renames it over the *)
(* snapshot, so names and files are kept apart: tmp and target are names   *)
(* (the file they lead to, or NoInode), disk holds the content of files,   *)
(* and a process may hold a file that has been renamed or unlinked since.  *)
(* A process may be killed between any two steps.                          *)
(***************************************************************************)
EXTENDS Naturals, Registry

CONSTANTS
  Refreshers, Readers,
  Served,        \* what the registry URL, or whoever answers, may serve
  Installed,     \* what may be installed at the start (NoFile if nothing)
  Blends(_),     \* what a file may hold into which the writers of a set of
                 \* documents wrote at once: no JSON, or a document of parts
  NoDigest,      \* no manifest digest
  First,         \* the file that holds the snapshot installed at the start
  NoInode,       \* the name leads to no file
  NoExit,        \* the process has not ended
  Killed         \* it was killed

Processes == Refreshers \cup Readers
Inodes == Refreshers \cup {First}    \* a refresh creates at most one file

(***************************************************************************)
(* Content that json.load refuses, told apart by who wrote it.  A JSON     *)
(* object begins with its brace and ends with the one that closes it, so   *)
(* that neither its first bytes alone nor a hole of zero bytes parses.     *)
(* What several writers leave between them need not be like that: Blends.  *)
(***************************************************************************)
NotJson(author) == [parse |-> "not_json", manifest |-> FALSE,
                    signature |-> "missing", digest |-> author, models |-> <<>>]

Empty   == NotJson(NoDigest)      \* truncated
Part(p) == NotJson(p)             \* the first bytes of what p writes
Holed   == NotJson(NoFile)        \* truncated behind a writer's back
Unfinished == {Empty, Holed} \cup {Part(p) : p \in Refreshers}
Blended == UNION {Blends(docs) : docs \in SUBSET Served}

ASSUME StoreConstants ==
  /\ Refreshers \cap Readers = {}
  /\ First \notin Refreshers
  /\ NoInode \notin Inodes
  /\ NoFile \notin Served \cup Unfinished \cup Blended
  /\ {NoDigest, NoFile} \cap Refreshers = {} /\ NoDigest # NoFile
  /\ {NoExit, Killed} \cap {0, 1, 2} = {}

VARIABLES
  pc,          \* where each process is
  exit,        \* its exit code
  fetched,     \* the response body of a refresh
  writing,     \* the file a refresh has open for writing
  reading,     \* the file a load has open for reading
  got,         \* the document a process loaded and verified
  disk,        \* content of each file
  tmp,         \* registry.json.tmp
  target,      \* registry.json
  before,      \* history: what was installed when a refresh started
  overlapped   \* history: refreshes that ran at the same time as another

vars == <<pc, exit, fetched, writing, reading, got, disk, tmp, target,
          before, overlapped>>

Stages == {"idle", "fetch", "open", "write", "writing", "replace", "load",
           "read", "unlink", "ended"}

\* The file at the snapshot path.
Snapshot == IF target = NoInode THEN NoFile ELSE disk[target]

Init ==
  /\ pc = [p \in Processes |-> "idle"]
  /\ exit = [p \in Processes |-> NoExit]
  /\ fetched = [p \in Refreshers |-> NoFile]
  /\ writing = [p \in Refreshers |-> NoInode]
  /\ reading = [p \in Processes |-> NoInode]
  /\ got = [p \in Processes |-> NoFile]
  /\ \E file \in Installed :
       /\ disk = [i \in Inodes |-> IF i = First /\ file # NoFile THEN file ELSE Empty]
       /\ target = IF file = NoFile THEN NoInode ELSE First
  /\ tmp = NoInode
  /\ before = [p \in Refreshers |-> NoFile]
  /\ overlapped = {}

Goto(p, stage) == pc' = [pc EXCEPT ![p] = stage] /\ UNCHANGED exit

ExitWith(p, code) ==
  /\ pc' = [pc EXCEPT ![p] = "ended"]
  /\ exit' = [exit EXCEPT ![p] = code]

Running == {p \in Refreshers : pc[p] \notin {"idle", "ended"}}

-----------------------------------------------------------------------------
StartRefresh(p) ==
  /\ p \in Refreshers
  /\ pc[p] = "idle"
  /\ Goto(p, "fetch")
  /\ before' = [before EXCEPT ![p] = Snapshot]
  /\ overlapped' = IF Running = {} THEN overlapped
                   ELSE overlapped \cup Running \cup {p}
  /\ UNCHANGED <<fetched, writing, reading, got, disk, tmp, target>>

StartReader(p) ==
  /\ p \in Readers
  /\ pc[p] = "idle"
  /\ Goto(p, "load")
  /\ UNCHANGED <<fetched, writing, reading, got, disk, tmp, target, before,
                 overlapped>>

\* The GET: a body, whatever it is, or an httpx.HTTPError (2); a URL that
\* httpx cannot parse raises InvalidURL, which is none (1).
Fetch(p) ==
  /\ pc[p] = "fetch"
  /\ \/ /\ \E body \in Served : fetched' = [fetched EXCEPT ![p] = body]
        /\ Goto(p, "open")
     \/ \E code \in {1, 2} : ExitWith(p, code) /\ UNCHANGED fetched
  /\ UNCHANGED <<writing, reading, got, disk, tmp, target, before, overlapped>>

\* Mutation of OpenTmp: the snapshot is written in place.
OpenInPlace(p) ==
  /\ pc[p] = "open"
  /\ target' = IF target = NoInode THEN p ELSE target
  /\ writing' = [writing EXCEPT ![p] = target']
  /\ disk' = [disk EXCEPT ![target'] = Empty]
  /\ Goto(p, "write")
  /\ UNCHANGED <<fetched, reading, got, tmp, before, overlapped>>

\* Mutation of OpenTmp: what an earlier refresh left there is not truncated.
OpenLeftover(p) ==
  /\ pc[p] = "open"
  /\ tmp' = IF tmp = NoInode THEN p ELSE tmp
  /\ writing' = [writing EXCEPT ![p] = tmp']
  /\ Goto(p, "write")
  /\ UNCHANGED <<fetched, reading, got, disk, target, before, overlapped>>

\* Path.write_bytes opens the name: an existing file is truncated in place.
OpenTmp(p) ==
  /\ pc[p] = "open"
  /\ tmp' = IF tmp = NoInode THEN p ELSE tmp
  /\ writing' = [writing EXCEPT ![p] = tmp']
  /\ disk' = [disk EXCEPT ![tmp'] = Empty]
  /\ Goto(p, "write")
  /\ UNCHANGED <<fetched, reading, got, target, before, overlapped>>

\* The documents of all who opened the file for writing.
WrittenTo(i) == {fetched[q] : q \in {r \in Refreshers : writing[r] = i}}

\* The first bytes reach the file that was opened, whatever its name is now.
BeginWrite(p) ==
  /\ pc[p] = "write"
  /\ \E content \in IF disk[writing[p]] = Empty THEN {Part(p)}
                     ELSE Blends(WrittenTo(writing[p])) :
       disk' = [disk EXCEPT ![writing[p]] = content]
  /\ Goto(p, "writing")
  /\ UNCHANGED <<fetched, writing, reading, got, tmp, target, before,
                 overlapped>>

(***************************************************************************)
(* The last bytes do.  If another refresh truncated the file meanwhile     *)
(* there is a hole before them; if it wrote to it, the result is p's       *)
(* document if that covers what the other one wrote, or parts of both.     *)
(***************************************************************************)
Written(p, content) ==
  IF content = Part(p) THEN {fetched[p]}
  ELSE IF content = Empty THEN {Holed}
  ELSE {fetched[p]} \cup Blends(WrittenTo(writing[p]))

EndWrite(p) ==
  /\ pc[p] = "writing"
  /\ \E content \in Written(p, disk[writing[p]]) :
       disk' = [disk EXCEPT ![writing[p]] = content]
  /\ Goto(p, "replace")
  /\ UNCHANGED <<fetched, writing, reading, got, tmp, target, before,
                 overlapped>>

\* Mutation of WriteFails: the exit code of a failed export.
WriteFailsAsExport(p) ==
  /\ pc[p] \in {"open", "write", "writing"}
  /\ ExitWith(p, 70)
  /\ UNCHANGED <<fetched, writing, reading, got, disk, tmp, target, before,
                 overlapped>>

\* No space, no permission: the OSError ends the command with a traceback.
WriteFails(p) ==
  /\ pc[p] \in {"open", "write", "writing"}
  /\ ExitWith(p, 1)
  /\ UNCHANGED <<fetched, writing, reading, got, disk, tmp, target, before,
                 overlapped>>

\* Mutation of Replace: an existing snapshot is not replaced.
RenameIfAbsent(p) ==
  /\ pc[p] = "replace"
  /\ \/ tmp # NoInode /\ Goto(p, "load")
     \/ tmp = NoInode /\ ExitWith(p, 1)
  /\ target' = IF target = NoInode THEN tmp ELSE target
  /\ tmp' = NoInode
  /\ UNCHANGED <<fetched, writing, reading, got, disk, before, overlapped>>

\* Mutation of Replace: waits for the temporary file to reappear.
ReplaceOrWait(p) ==
  /\ pc[p] = "replace"
  /\ tmp # NoInode
  /\ target' = tmp
  /\ tmp' = NoInode
  /\ Goto(p, "load")
  /\ UNCHANGED <<fetched, writing, reading, got, disk, before, overlapped>>

(***************************************************************************)
(* tmp.replace(target): the file of that name now, which may be another    *)
(* refresh's; FileNotFoundError if another refresh has renamed it.         *)
(***************************************************************************)
Replace(p) ==
  /\ pc[p] = "replace"
  /\ \/ /\ tmp # NoInode
        /\ target' = tmp
        /\ tmp' = NoInode
        /\ Goto(p, "load")
     \/ /\ tmp = NoInode
        /\ ExitWith(p, 1)
        /\ UNCHANGED <<tmp, target>>
  /\ UNCHANGED <<fetched, writing, reading, got, disk, before, overlapped>>

\* SnapshotError: a refresh removes what is at the path, a reader gives up.
Rejected(p) == IF p \in Refreshers THEN Goto(p, "unlink") ELSE ExitWith(p, 2)

\* load_snapshot opens the file of that name now, if there is one.
OpenSnapshot(p) ==
  /\ pc[p] = "load"
  /\ \/ /\ target # NoInode
        /\ reading' = [reading EXCEPT ![p] = target]
        /\ Goto(p, "read")
     \/ /\ target = NoInode
        /\ Rejected(p)
        /\ UNCHANGED reading
  /\ UNCHANGED <<fetched, writing, got, disk, tmp, target, before, overlapped>>

\* It reads, parses and verifies; only SnapshotError is caught by its callers.
\* What is only part of a document may also break inside a character.
ReadSnapshot(p) ==
  /\ pc[p] = "read"
  /\ LET file == disk[reading[p]]
     IN  \/ /\ LoadOutcome(file) = "loaded"
            /\ got' = [got EXCEPT ![p] = file]
            /\ ExitWith(p, 0)
         \/ LoadOutcome(file) = "rejected" /\ Rejected(p) /\ UNCHANGED got
         \/ /\ LoadOutcome(file) = "uncaught" \/ file \in Unfinished \ {Empty}
            /\ ExitWith(p, 1)
            /\ UNCHANGED got
  /\ UNCHANGED <<fetched, writing, reading, disk, tmp, target, before,
                 overlapped>>

\* Mutation of Unlink: a snapshot that does not verify stays.
KeepRefused(p) ==
  /\ pc[p] = "unlink"
  /\ ExitWith(p, 2)
  /\ UNCHANGED <<fetched, writing, reading, got, disk, tmp, target, before,
                 overlapped>>

\* target.unlink(missing_ok=True): the name, whichever file it leads to now.
Unlink(p) ==
  /\ pc[p] = "unlink"
  /\ target' = NoInode
  /\ ExitWith(p, 2)
  /\ UNCHANGED <<fetched, writing, reading, got, disk, tmp, before, overlapped>>

\* The process is killed, or the machine goes down.
Kill(p) ==
  /\ pc[p] \notin {"idle", "ended"}
  /\ ExitWith(p, Killed)
  /\ UNCHANGED <<fetched, writing, reading, got, disk, tmp, target, before,
                 overlapped>>

Work(p) ==
  \/ Fetch(p) \/ OpenTmp(p) \/ BeginWrite(p) \/ EndWrite(p) \/ WriteFails(p)
  \/ Replace(p) \/ OpenSnapshot(p) \/ ReadSnapshot(p) \/ Unlink(p)

Next == \E p \in Processes :
          StartRefresh(p) \/ StartReader(p) \/ Work(p) \/ Kill(p)

\* Nothing a command does waits for another one; the GET has a timeout.
Fairness == \A p \in Processes : WF_vars(Work(p))

Spec == Init /\ [][Next]_vars /\ Fairness

-----------------------------------------------------------------------------
Documents == Served \cup (Installed \ {NoFile})
Files == Documents \cup Unfinished \cup Blended

\* Names lead to files and files have contents, at every step of every process.
TypeOK ==
  /\ pc \in [Processes -> Stages]
  /\ exit \in [Processes -> {NoExit, 0, 1, 2, Killed}]
  /\ fetched \in [Refreshers -> Served \cup {NoFile}]
  /\ writing \in [Refreshers -> Inodes \cup {NoInode}]
  /\ reading \in [Processes -> Inodes \cup {NoInode}]
  /\ got \in [Processes -> Files \cup {NoFile}]
  /\ disk \in [Inodes -> Files]
  /\ tmp \in Inodes \cup {NoInode}
  /\ target \in Inodes \cup {NoInode}
  /\ before \in [Refreshers -> Files \cup {NoFile}]
  /\ overlapped \in SUBSET Refreshers

(***************************************************************************)
(* A command goes on only with a snapshot whose manifest signature is good *)
(* (load_snapshot), and as long as no two refreshes overlapped that is one *)
(* whole document that was served or installed.  A reader may be late: it  *)
(* may hold a file that was renamed over or removed since, and the file it *)
(* holds must never become the one that a refresh writes to, although      *)
(* killed refreshes left files behind that the next one writes to again.   *)
(***************************************************************************)
LoadedIsVerified ==
  \A p \in Processes :
    /\ got[p] # NoFile => got[p].signature = "good"
    /\ got[p] # NoFile /\ overlapped = {} => got[p] \in Documents
    /\ exit[p] = 0 => got[p] # NoFile

(***************************************************************************)
(* Refreshes that do not overlap never expose a half-written file: the     *)
(* snapshot path leads to nothing or to a whole document, even when a      *)
(* refresh was killed or failed and left its temporary file behind.        *)
(***************************************************************************)
InstalledIsWhole == overlapped = {} => Snapshot \in Documents \cup {NoFile}

\* Process p ends in this step.
Ends(p) == pc[p] # "ended" /\ pc'[p] = "ended"

(***************************************************************************)
(* A refresh that had the store to itself and reports success has          *)
(* installed the very document it fetched ("Saved: ...").                  *)
(***************************************************************************)
QuietRefreshInstalls ==
  [][\A p \in Refreshers :
       Ends(p) /\ exit'[p] = 0 /\ p \notin overlapped => Snapshot' = fetched[p]]_vars

(***************************************************************************)
(* One that reports failure with exit code 2 leaves the old snapshot as it *)
(* was or none at all, never the document it refused; one that was killed  *)
(* or raised leaves the old one or the new one.                            *)
(***************************************************************************)
QuietFailureIsClean ==
  [][\A p \in Refreshers :
       Ends(p) /\ p \notin overlapped =>
         /\ exit'[p] = 2 => Snapshot' \in {before[p], NoFile}
         /\ exit'[p] \in {1, Killed} => Snapshot' \in {before[p], fetched[p]}]_vars

(***************************************************************************)
(* No command waits for another: each ends, in any company.                *)
(***************************************************************************)
CommandsEnd == \A p \in Processes : pc[p] # "idle" ~> pc[p] = "ended"

(***************************************************************************)
(* "Raises: SnapshotError on any read/parse/verification failure": loading *)
(* a snapshot never ends a command with any other exception.               *)
(***************************************************************************)
LoadFailuresAreReported ==
  \A p \in Readers : exit[p] # 1

=============================================================================
