------------------------- MODULE SnapshotStoreProofs -------------------------
(***************************************************************************)
(* Theorems about SnapshotStore, for every set of refreshing and reading   *)
(* processes and every set of documents served.                            *)
(*                                                                         *)
(* A refresh is alone if no other one ran while it did.  The heart of the  *)
(* invariant is AloneInv: what a refresh that is alone may rely on at each *)
(* of its stages, although others, killed before it, may have left a       *)
(* temporary file behind.                                                  *)
(***************************************************************************)
EXTENDS SnapshotStore, TLAPS

Early == {"idle", "fetch", "open"}
Fetched == {"open", "write", "writing", "replace", "load", "read", "unlink"}

\* What each stage may assume of its own process, in any company.
StageInv ==
  /\ \A p \in Refreshers :
       /\ pc[p] \in Early => p # tmp /\ p # target
       /\ pc[p] \in Fetched => fetched[p] \in Served
       /\ pc[p] \in {"write", "writing"} => writing[p] \in Inodes
       /\ writing[p] \in Inodes => fetched[p] \in Served
  /\ \A p \in Processes : pc[p] = "read" => reading[p] \in Inodes
  /\ \A p \in Readers : pc[p] \in {"idle", "load", "read", "ended"}

\* The two names never lead to one file.
NamesInv == tmp # NoInode => tmp # target

\* Two refreshes that run at one time are both known to overlap.
OverlapInv ==
  \A p, q \in Running : p # q => p \in overlapped

\* What a refresh relies on while it is alone.
AloneInv ==
  \A p \in Running \ overlapped :
    /\ pc[p] \in {"fetch", "open", "write", "writing", "replace"} => Snapshot = before[p]
    /\ pc[p] \in {"write", "writing", "replace"} => tmp # NoInode /\ writing[p] = tmp
    /\ pc[p] = "write"   => disk[tmp] = Empty
    /\ pc[p] = "writing" => disk[tmp] = Part(p)
    /\ pc[p] = "replace" => disk[tmp] = fetched[p]
    /\ pc[p] \in {"load", "read", "unlink"} => target # NoInode /\ disk[target] = fetched[p]
    /\ pc[p] = "read" => reading[p] = target

\* While nothing overlapped, a file that is read is whole and out of the
\* reach of those who write: it has not the temporary name, nor will it.
ReadingInv ==
  overlapped = {} =>
    \A q \in Processes : pc[q] = "read" =>
      /\ disk[reading[q]] \in Documents
      /\ reading[q] # tmp
      /\ \A p \in Refreshers : pc[p] \in Early => p # reading[q]

IInv ==
  /\ TypeOK
  /\ StageInv
  /\ NamesInv
  /\ OverlapInv
  /\ AloneInv
  /\ ReadingInv
  /\ LoadedIsVerified
  /\ InstalledIsWhole

-----------------------------------------------------------------------------
(***************************************************************************)
(* Files.                                                                  *)
(***************************************************************************)

\* What a refresh may leave in a file, and what the store starts with.
LEMMA FileKinds ==
  /\ Empty \in Files /\ Holed \in Files
  /\ \A p \in Refreshers : Part(p) \in Files
  /\ Served \subseteq Documents
  /\ Documents \subseteq Files
  /\ NoFile \notin Documents
BY StoreConstants DEF Files, Documents, Unfinished

\* What a file holds is never the mark of there being none.
LEMMA NoFileIsNoContent == NoFile \notin Files
BY StoreConstants DEF Files, Documents

\* What several writers leave is what Blends says of what they fetched.
LEMMA BlendsAreFiles ==
  ASSUME TypeOK, StageInv, NEW i \in Inodes
  PROVE  Blends(WrittenTo(i)) \subseteq Files
<1>1. WrittenTo(i) \in SUBSET Served
  BY DEF WrittenTo, StageInv
<1>2. Blends(WrittenTo(i)) \subseteq Blended
  BY <1>1 DEF Blended
<1> QED BY <1>2 DEF Files

\* An exit code is not the mark of a process that runs or was killed.
LEMMA ExitCodes ==
  /\ NoExit # 0 /\ NoExit # 1 /\ NoExit # 2
  /\ Killed # 0 /\ Killed # 1 /\ Killed # 2
<1>1. \A code \in {0, 1, 2} : code \notin {NoExit, Killed}
  BY StoreConstants
<1> QED BY <1>1

\* A file that loads has a good signature, and is there.
LEMMA LoadedFile ==
  ASSUME NEW file, LoadOutcome(file) = "loaded"
  PROVE  file.signature = "good" /\ file # NoFile
BY DEF LoadOutcome

-----------------------------------------------------------------------------
(***************************************************************************)
(* Types and stages.                                                       *)
(***************************************************************************)

\* Only a refresh fetches, writes, renames or removes.
LEMMA OnlyRefreshers ==
  ASSUME StageInv, NEW p \in Processes, pc[p] \notin {"idle", "load", "read", "ended"}
  PROVE  p \in Refreshers
BY DEF StageInv, Processes

\* The invariant holds of every snapshot a store may start with.
LEMMA InitIInv == Init => IInv
<1> SUFFICES ASSUME Init PROVE IInv
  OBVIOUS
<1>1. PICK file \in Installed :
        /\ disk = [i \in Inodes |-> IF i = First /\ file # NoFile THEN file ELSE Empty]
        /\ target = IF file = NoFile THEN NoInode ELSE First
  BY DEF Init
<1>2. First \in Inodes /\ Refreshers \subseteq Processes /\ NoInode \notin Inodes
  BY StoreConstants DEF Inodes, Processes
<1>3. file # NoFile => file \in Documents
  BY <1>1 DEF Documents
<1>4. TypeOK
  BY <1>1, <1>2, <1>3, FileKinds DEF Init, TypeOK, Stages
<1>5. StageInv
  BY <1>1, <1>2, StoreConstants DEF Init, StageInv, Fetched, Inodes, Processes
<1>6. Running = {}
  BY <1>2 DEF Init, Running
<1>7. InstalledIsWhole
  BY <1>1, <1>2, <1>3 DEF InstalledIsWhole, Snapshot
<1>8. LoadedIsVerified
  BY StoreConstants DEF Init, LoadedIsVerified
<1> QED BY <1>4, <1>5, <1>6, <1>7, <1>8
        DEF IInv, NamesInv, OverlapInv, AloneInv, ReadingInv, Init

\* Names, files and processes stay well formed.
LEMMA TypeStep ==
  ASSUME TypeOK, StageInv, [Next]_vars
  PROVE  TypeOK'
<1> USE DEF TypeOK, Stages, Goto, ExitWith
<1>0. Refreshers \subseteq Processes /\ Refreshers \subseteq Inodes
  BY DEF Processes, Inodes
<1>1. ASSUME NEW p \in Processes, StartRefresh(p)
      PROVE  TypeOK'
  <2>1. Snapshot \in Files \cup {NoFile} /\ Running \subseteq Refreshers
    BY DEF Snapshot, Running
  <2> QED BY <1>0, <1>1, <2>1 DEF StartRefresh
<1>2. ASSUME NEW p \in Processes, StartReader(p)
      PROVE  TypeOK'
  BY <1>2 DEF StartReader
<1>3. ASSUME NEW p \in Processes, Fetch(p)
      PROVE  TypeOK'
  <2>1. p \in Refreshers
    BY <1>3, OnlyRefreshers DEF Fetch
  <2> QED BY <1>3, <2>1 DEF Fetch
<1>4. ASSUME NEW p \in Processes, OpenTmp(p)
      PROVE  TypeOK'
  <2>1. p \in Refreshers /\ p \in Inodes
    BY <1>0, <1>4, OnlyRefreshers DEF OpenTmp
  <2>2. tmp' \in Inodes
    BY <1>4, <2>1 DEF OpenTmp
  <2> QED BY <1>4, <2>1, <2>2, FileKinds DEF OpenTmp
<1>5. ASSUME NEW p \in Processes, BeginWrite(p)
      PROVE  TypeOK'
  <2>1. p \in Refreshers /\ writing[p] \in Inodes
    BY <1>5, OnlyRefreshers DEF BeginWrite, StageInv
  <2>2. disk' \in [Inodes -> Files]
    BY <1>5, <2>1, FileKinds, BlendsAreFiles DEF BeginWrite
  <2> QED BY <1>5, <2>2 DEF BeginWrite
<1>6. ASSUME NEW p \in Processes, EndWrite(p)
      PROVE  TypeOK'
  <2>1. p \in Refreshers /\ writing[p] \in Inodes
    BY <1>6, OnlyRefreshers DEF EndWrite, StageInv
  <2>2. fetched[p] \in Files
    BY <1>6, <2>1, FileKinds DEF EndWrite, StageInv, Fetched
  <2>3. Written(p, disk[writing[p]]) \subseteq Files
    BY <2>1, <2>2, FileKinds, BlendsAreFiles DEF Written
  <2>4. disk' \in [Inodes -> Files]
    BY <1>6, <2>1, <2>3 DEF EndWrite
  <2> QED BY <1>6, <2>4 DEF EndWrite
<1>7. ASSUME NEW p \in Processes, WriteFails(p) \/ Kill(p)
      PROVE  TypeOK'
  BY <1>7 DEF WriteFails, Kill
<1>8. ASSUME NEW p \in Processes, Replace(p)
      PROVE  TypeOK'
  BY <1>8 DEF Replace
<1>9. ASSUME NEW p \in Processes, OpenSnapshot(p)
      PROVE  TypeOK'
  BY <1>9 DEF OpenSnapshot, Rejected
<1>10. ASSUME NEW p \in Processes, ReadSnapshot(p)
       PROVE  TypeOK'
  <2>1. disk[reading[p]] \in Files
    BY <1>10 DEF ReadSnapshot, StageInv
  <2>2. got' \in [Processes -> Files \cup {NoFile}]
    BY <1>10, <2>1 DEF ReadSnapshot
  <2>3. pc' \in [Processes -> Stages] /\ exit' \in [Processes -> {NoExit, 0, 1, 2, Killed}]
    BY <1>10 DEF ReadSnapshot, Rejected
  <2> QED BY <1>10, <2>2, <2>3 DEF ReadSnapshot
<1>11. ASSUME NEW p \in Processes, Unlink(p)
       PROVE  TypeOK'
  BY <1>11 DEF Unlink
<1>12. CASE UNCHANGED vars
  BY <1>12 DEF vars
<1> QED BY <1>1, <1>2, <1>3, <1>4, <1>5, <1>6, <1>7, <1>8, <1>9, <1>10, <1>11, <1>12
        DEF Next, Work

\* What a process holds goes with its stage.
LEMMA StageStep ==
  ASSUME TypeOK, StageInv, [Next]_vars
  PROVE  StageInv'
<1> USE DEF TypeOK, StageInv, Early, Fetched, Goto, ExitWith
<1>0. /\ Refreshers \subseteq Processes /\ Refreshers \subseteq Inodes
      /\ Readers \subseteq Processes /\ Refreshers \cap Readers = {}
      /\ NoInode \notin Inodes
  BY StoreConstants DEF Processes, Inodes
<1>1. ASSUME NEW p \in Processes, StartRefresh(p)
      PROVE  StageInv'
  BY <1>0, <1>1 DEF StartRefresh
<1>2. ASSUME NEW p \in Processes, StartReader(p)
      PROVE  StageInv'
  BY <1>0, <1>2 DEF StartReader
<1>3. ASSUME NEW p \in Processes, Fetch(p)
      PROVE  StageInv'
  <2>1. p \in Refreshers
    BY <1>3, OnlyRefreshers DEF Fetch
  <2> QED BY <1>0, <1>3, <2>1 DEF Fetch
<1>4. ASSUME NEW p \in Processes, OpenTmp(p)
      PROVE  StageInv'
  <2>1. p \in Refreshers
    BY <1>4, OnlyRefreshers DEF OpenTmp
  <2>2. tmp' \in Inodes /\ (tmp' = tmp \/ tmp' = p)
    BY <1>0, <1>4, <2>1 DEF OpenTmp
  <2> QED BY <1>0, <1>4, <2>1, <2>2 DEF OpenTmp
<1>5. ASSUME NEW p \in Processes, BeginWrite(p)
      PROVE  StageInv'
  <2>1. p \in Refreshers
    BY <1>5, OnlyRefreshers DEF BeginWrite
  <2> QED BY <1>0, <1>5, <2>1 DEF BeginWrite
<1>6. ASSUME NEW p \in Processes, EndWrite(p)
      PROVE  StageInv'
  <2>1. p \in Refreshers
    BY <1>6, OnlyRefreshers DEF EndWrite
  <2> QED BY <1>0, <1>6, <2>1 DEF EndWrite
<1>7. ASSUME NEW p \in Processes, WriteFails(p) \/ Kill(p)
      PROVE  StageInv'
  BY <1>0, <1>7 DEF WriteFails, Kill
<1>8. ASSUME NEW p \in Processes, Replace(p)
      PROVE  StageInv'
  <2>1. p \in Refreshers
    BY <1>8, OnlyRefreshers DEF Replace
  <2> QED BY <1>0, <1>8, <2>1 DEF Replace
<1>9. ASSUME NEW p \in Processes, OpenSnapshot(p)
      PROVE  StageInv'
  BY <1>0, <1>9 DEF OpenSnapshot, Rejected, Processes
<1>10. ASSUME NEW p \in Processes, ReadSnapshot(p)
       PROVE  StageInv'
  BY <1>0, <1>10 DEF ReadSnapshot, Rejected, Processes
<1>11. ASSUME NEW p \in Processes, Unlink(p)
       PROVE  StageInv'
  <2>1. p \in Refreshers
    BY <1>11, OnlyRefreshers DEF Unlink
  <2> QED BY <1>0, <1>11, <2>1 DEF Unlink
<1>12. CASE UNCHANGED vars
  BY <1>12 DEF vars
<1> QED BY <1>1, <1>2, <1>3, <1>4, <1>5, <1>6, <1>7, <1>8, <1>9, <1>10, <1>11, <1>12
        DEF Next, Work

-----------------------------------------------------------------------------
(***************************************************************************)
(* Names, overlaps, and a refresh that is alone.                           *)
(***************************************************************************)

\* Only the start of a refresh, or the rename, moves the names.
LEMMA NamesStep ==
  ASSUME TypeOK, StageInv, NamesInv, [Next]_vars
  PROVE  NamesInv'
<1> USE DEF NamesInv
<1>1. ASSUME NEW p \in Processes, OpenTmp(p)
      PROVE  NamesInv'
  <2>1. p \in Refreshers /\ p # target
    BY <1>1, OnlyRefreshers DEF OpenTmp, StageInv, Early
  <2> QED BY <1>1, <2>1 DEF OpenTmp
<1>2. ASSUME NEW p \in Processes, Replace(p)
      PROVE  NamesInv'
  BY <1>2 DEF Replace
<1>3. ASSUME NEW p \in Processes, Unlink(p)
      PROVE  NamesInv'
  BY <1>3 DEF Unlink
<1>4. ASSUME UNCHANGED <<tmp, target>>
      PROVE  NamesInv'
  BY <1>4
<1> QED BY <1>1, <1>2, <1>3, <1>4
        DEF Next, Work, vars, StartRefresh, StartReader, Fetch, BeginWrite, EndWrite,
            WriteFails, OpenSnapshot, ReadSnapshot, Kill

\* A step changes the stage of one process.
LEMMA OneProcessSteps ==
  ASSUME TypeOK, NEW p \in Processes,
         StartRefresh(p) \/ StartReader(p) \/ Work(p) \/ Kill(p)
  PROVE  \A q \in Processes \ {p} : pc'[q] = pc[q]
<1> USE DEF TypeOK, Goto, ExitWith
<1>1. CASE StartRefresh(p) \/ StartReader(p) \/ Kill(p)
  BY <1>1 DEF StartRefresh, StartReader, Kill
<1>2. CASE Fetch(p) \/ OpenTmp(p) \/ BeginWrite(p) \/ EndWrite(p) \/ WriteFails(p)
  BY <1>2 DEF Fetch, OpenTmp, BeginWrite, EndWrite, WriteFails
<1>3. CASE Replace(p) \/ OpenSnapshot(p) \/ ReadSnapshot(p) \/ Unlink(p)
  BY <1>3 DEF Replace, OpenSnapshot, ReadSnapshot, Unlink, Rejected
<1> QED BY <1>1, <1>2, <1>3 DEF Work

\* No step forgets an overlap; only the start of a refresh adds one.
LEMMA OverlapsStay ==
  ASSUME TypeOK, [Next]_vars
  PROVE  /\ overlapped \subseteq overlapped'
         /\ \/ \E p \in Processes : StartRefresh(p)
            \/ overlapped' = overlapped
BY DEF Next, Work, vars, StartRefresh, StartReader, Fetch, OpenTmp, BeginWrite, EndWrite,
       WriteFails, Replace, OpenSnapshot, ReadSnapshot, Unlink, Kill

\* Refreshes that run at one time are marked as overlapped.
LEMMA OverlapStep ==
  ASSUME TypeOK, OverlapInv, [Next]_vars
  PROVE  OverlapInv'
<1> USE DEF OverlapInv
<1>1. ASSUME NEW p \in Processes, StartRefresh(p)
      PROVE  OverlapInv'
  <2>1. p \in Refreshers /\ \A q \in Processes \ {p} : pc'[q] = pc[q]
    BY <1>1, OneProcessSteps DEF StartRefresh
  <2>2. Running' \subseteq Running \cup {p}
    BY <2>1 DEF Running, Processes
  <2>3. Running # {} => overlapped' = overlapped \cup Running \cup {p}
    BY <1>1 DEF StartRefresh
  <2> QED BY <2>2, <2>3
<1>2. ASSUME NEW p \in Processes, StartReader(p) \/ Work(p) \/ Kill(p)
      PROVE  OverlapInv'
  <2>1. \A q \in Processes \ {p} : pc'[q] = pc[q]
    BY <1>2, OneProcessSteps
  <2>2. p \in Refreshers => p \in Running
    BY <1>2, StoreConstants
    DEF Running, StartReader, Work, Kill, Fetch, OpenTmp, BeginWrite, EndWrite, WriteFails,
        Replace, OpenSnapshot, ReadSnapshot, Unlink
  <2>3. Running' \subseteq Running
    BY <2>1, <2>2 DEF Running, Processes
  <2>4. overlapped \subseteq overlapped'
    BY <1>2, OverlapsStay DEF Next
  <2> QED BY <2>3, <2>4
<1>3. CASE UNCHANGED vars
  BY <1>3 DEF vars, Running
<1> QED BY <1>1, <1>2, <1>3 DEF Next

\* While one refresh is alone, every step is its own or a reader's.
LEMMA AloneActs ==
  ASSUME TypeOK, StageInv, OverlapInv, NEW p \in Processes, NEW q \in Refreshers,
         StartRefresh(p) \/ StartReader(p) \/ Work(p) \/ Kill(p),
         q \in (Running \ overlapped)', q # p
  PROVE  /\ p \in Readers
         /\ q \in Running \ overlapped
         /\ UNCHANGED <<disk, tmp, target, before, writing, fetched>>
         /\ pc'[q] = pc[q] /\ reading'[q] = reading[q]
<1>1. q \in Processes /\ pc'[q] = pc[q]
  BY OneProcessSteps DEF Processes
<1>2. overlapped \subseteq overlapped'
  BY OverlapsStay DEF Next
<1>3. q \in Running \ overlapped
  BY <1>1, <1>2 DEF Running
<1>4. p \notin Refreshers
  <2> SUFFICES ASSUME p \in Refreshers PROVE FALSE
    OBVIOUS
  <2>1. ~StartRefresh(p)
    BY <1>3 DEF StartRefresh
  <2>2. p \in Running
    BY <2>1, StoreConstants
    DEF Running, StartReader, Work, Kill, Fetch, OpenTmp, BeginWrite, EndWrite, WriteFails,
        Replace, OpenSnapshot, ReadSnapshot, Unlink
  <2> QED BY <1>3, <2>2 DEF OverlapInv
<1>5. p \in Readers /\ pc[p] \in {"idle", "load", "read", "ended"}
  BY <1>4 DEF Processes, StageInv
<1>6. StartReader(p) \/ Kill(p) \/ OpenSnapshot(p) \/ ReadSnapshot(p)
  BY <1>4, <1>5
  DEF Work, StartRefresh, Fetch, OpenTmp, BeginWrite, EndWrite, WriteFails, Replace, Unlink
<1>7. UNCHANGED <<disk, tmp, target, before, writing, fetched>> /\ reading'[q] = reading[q]
  BY <1>1, <1>6 DEF TypeOK, StartReader, Kill, OpenSnapshot, ReadSnapshot
<1> QED BY <1>1, <1>3, <1>5, <1>7

\* What AloneInv says of one refresh.
AloneAt(p) ==
  /\ pc[p] \in {"fetch", "open", "write", "writing", "replace"} => Snapshot = before[p]
  /\ pc[p] \in {"write", "writing", "replace"} => tmp # NoInode /\ writing[p] = tmp
  /\ pc[p] = "write"   => disk[tmp] = Empty
  /\ pc[p] = "writing" => disk[tmp] = Part(p)
  /\ pc[p] = "replace" => disk[tmp] = fetched[p]
  /\ pc[p] \in {"load", "read", "unlink"} => target # NoInode /\ disk[target] = fetched[p]
  /\ pc[p] = "read" => reading[p] = target

\* A refresh that acts while it is alone finds what it left.
LEMMA AloneOwnStep ==
  ASSUME TypeOK, StageInv, NamesInv, NEW p \in Refreshers,
         StartRefresh(p) \/ Work(p), pc'[p] # "ended",
         p \in Running => AloneAt(p)
  PROVE  AloneAt(p)'
<1> USE DEF TypeOK, Goto, ExitWith
<1>0. /\ p \in Processes /\ p \in Inodes /\ p # NoInode /\ NoInode \notin Inodes
      /\ tmp # NoInode => tmp # target /\ tmp \in Inodes
      /\ pc[p] \notin {"idle", "ended"} => AloneAt(p)
  BY StoreConstants DEF Processes, Inodes, NamesInv, Running
<1>1. CASE StartRefresh(p)
  BY <1>0, <1>1 DEF StartRefresh, AloneAt, Snapshot
<1>2. CASE Fetch(p)
  BY <1>0, <1>2 DEF Fetch, AloneAt, Snapshot
<1>3. CASE OpenTmp(p)
  <2>1. /\ tmp' \in Inodes /\ tmp' # NoInode /\ tmp' # target
        /\ target' = target /\ before' = before /\ pc'[p] = "write"
        /\ disk' = [disk EXCEPT ![tmp'] = Empty] /\ writing'[p] = tmp'
    BY <1>0, <1>3 DEF OpenTmp, StageInv, Early
  <2>2. Snapshot' = Snapshot /\ disk'[tmp'] = Empty
    BY <2>1 DEF Snapshot
  <2>3. Snapshot = before[p]
    BY <1>0, <1>3 DEF OpenTmp, AloneAt
  <2> QED BY <2>1, <2>2, <2>3 DEF AloneAt
<1>4. CASE BeginWrite(p)
  <2>1. /\ writing[p] = tmp /\ tmp \in Inodes /\ tmp # target /\ disk[tmp] = Empty
        /\ Snapshot = before[p]
    BY <1>0, <1>4 DEF BeginWrite, AloneAt
  <2>2. /\ disk' = [disk EXCEPT ![tmp] = Part(p)] /\ pc'[p] = "writing"
        /\ UNCHANGED <<tmp, target, before, writing>>
    BY <1>0, <1>4, <2>1 DEF BeginWrite
  <2>3. Snapshot' = Snapshot
    BY <2>1, <2>2 DEF Snapshot
  <2>4. /\ disk'[tmp'] = Part(p) /\ tmp' # NoInode /\ writing'[p] = tmp'
        /\ Snapshot' = before'[p]
    BY <1>0, <2>1, <2>2, <2>3
  <2> QED BY <2>2, <2>4 DEF AloneAt
<1>5. CASE EndWrite(p)
  <2>1. /\ writing[p] = tmp /\ tmp \in Inodes /\ tmp # target /\ disk[tmp] = Part(p)
        /\ Snapshot = before[p]
    BY <1>0, <1>5 DEF EndWrite, AloneAt
  <2>2. /\ disk' = [disk EXCEPT ![tmp] = fetched[p]] /\ pc'[p] = "replace"
        /\ UNCHANGED <<tmp, target, before, writing, fetched>>
    BY <1>0, <1>5, <2>1 DEF EndWrite, Written
  <2>3. Snapshot' = Snapshot
    BY <2>1, <2>2 DEF Snapshot
  <2>4. /\ disk'[tmp'] = fetched'[p] /\ tmp' # NoInode /\ writing'[p] = tmp'
        /\ Snapshot' = before'[p]
    BY <1>0, <2>1, <2>2, <2>3
  <2> QED BY <2>2, <2>4 DEF AloneAt
<1>6. CASE Replace(p)
  BY <1>0, <1>6 DEF Replace, AloneAt
<1>7. CASE OpenSnapshot(p)
  BY <1>0, <1>7 DEF OpenSnapshot, AloneAt, Rejected
<1>8. CASE ReadSnapshot(p)
  BY <1>0, <1>8 DEF ReadSnapshot, AloneAt, Rejected
<1>9. CASE WriteFails(p) \/ Unlink(p)
  BY <1>0, <1>9 DEF WriteFails, Unlink
<1> QED BY <1>1, <1>2, <1>3, <1>4, <1>5, <1>6, <1>7, <1>8, <1>9 DEF Work

\* What a refresh that is alone relies on is kept by its own steps and by readers.
LEMMA AloneStep ==
  ASSUME TypeOK, StageInv, NamesInv, OverlapInv, AloneInv, [Next]_vars
  PROVE  AloneInv'
<1>1. ASSUME NEW p \in Processes, NEW q \in (Running \ overlapped)',
             StartRefresh(p) \/ StartReader(p) \/ Work(p) \/ Kill(p)
      PROVE  AloneAt(q)'
  <2>0. q \in Refreshers /\ q \in Processes /\ pc'[q] # "ended"
    BY DEF Running, Processes
  <2>1. CASE q = p
    <3>1. ~StartReader(p) /\ ~Kill(p)
      BY <2>0, <2>1, StoreConstants DEF StartReader, Kill, ExitWith, TypeOK
    <3>2. p \notin overlapped
      BY <1>1, <2>1, OverlapsStay DEF Next
    <3>3. p \in Running => AloneAt(p)
      BY <3>2 DEF AloneInv, AloneAt
    <3> QED BY <1>1, <2>0, <2>1, <3>1, <3>3, AloneOwnStep
  <2>2. CASE q # p
    <3>1. /\ q \in Running \ overlapped
          /\ UNCHANGED <<disk, tmp, target, before, writing, fetched>>
          /\ pc'[q] = pc[q] /\ reading'[q] = reading[q]
      BY <1>1, <2>0, <2>2, AloneActs
    <3>2. AloneAt(q)
      BY <3>1 DEF AloneInv, AloneAt
    <3> QED BY <3>1, <3>2 DEF AloneAt, Snapshot, Part, NotJson, Empty
  <2> QED BY <2>1, <2>2
<1>2. CASE Next
  BY <1>1, <1>2 DEF Next, AloneInv, AloneAt
<1>3. CASE UNCHANGED vars
  BY <1>3 DEF vars, AloneInv, Running, Snapshot
<1> QED BY <1>2, <1>3

-----------------------------------------------------------------------------
(***************************************************************************)
(* What is loaded, and what is installed.                                  *)
(***************************************************************************)

\* Only the two names and the files that are written can take a file from
\* its readers, and without overlaps these are never the same.
LEMMA ReadingStep ==
  ASSUME TypeOK, StageInv, NamesInv, AloneInv, InstalledIsWhole, ReadingInv, [Next]_vars
  PROVE  ReadingInv'
<1> SUFFICES ASSUME overlapped' = {}, NEW q \in Processes, pc'[q] = "read"
             PROVE  /\ disk'[reading'[q]] \in Documents
                    /\ reading'[q] # tmp'
                    /\ \A r \in Refreshers : pc'[r] \in Early => r # reading'[q]
  BY DEF ReadingInv
<1> USE DEF TypeOK, Goto, ExitWith, Early
<1>0. /\ overlapped = {}
      /\ Refreshers \subseteq Processes
      /\ NoInode \notin Inodes
      /\ NoFile \notin Files
      /\ pc[q] = "read" =>
           /\ reading[q] \in Inodes
           /\ disk[reading[q]] \in Documents
           /\ reading[q] # tmp
           /\ \A r \in Refreshers : pc[r] \in Early => r # reading[q]
  <2>1. NoFile \notin Files
    BY StoreConstants, NoFileIsNoContent
  <2> QED BY <2>1, OverlapsStay, StoreConstants DEF ReadingInv, StageInv, Processes, Inodes
<1>1. ASSUME NEW p \in Processes, OpenSnapshot(p)
      PROVE  /\ disk'[reading'[q]] \in Documents
             /\ reading'[q] # tmp'
             /\ \A r \in Refreshers : pc'[r] \in Early => r # reading'[q]
  <2>1. \A r \in Refreshers : pc'[r] \in Early => pc[r] \in Early
    BY <1>0, <1>1 DEF OpenSnapshot, Rejected
  <2>2. CASE q # p
    BY <1>0, <1>1, <2>1, <2>2 DEF OpenSnapshot, Rejected
  <2>3. CASE q = p
    <3>1. target \in Inodes /\ reading'[q] = target /\ tmp' = tmp /\ disk' = disk
      BY <1>0, <1>1, <2>3 DEF OpenSnapshot, Rejected
    <3>2. disk[target] \in Documents
      BY <1>0, <3>1 DEF InstalledIsWhole, Snapshot
    <3>3. target # tmp
      BY <1>0, <3>1 DEF NamesInv
    <3>4. \A r \in Refreshers : pc'[r] \in Early => r # target
      BY <2>1 DEF StageInv
    <3> QED BY <3>1, <3>2, <3>3, <3>4
  <2> QED BY <2>2, <2>3
<1>2. ASSUME NEW p \in Processes, OpenTmp(p)
      PROVE  /\ disk'[reading'[q]] \in Documents
             /\ reading'[q] # tmp'
             /\ \A r \in Refreshers : pc'[r] \in Early => r # reading'[q]
  <2>1. p \in Refreshers
    BY <1>2, OnlyRefreshers DEF OpenTmp
  <2>2. pc[q] = "read" /\ reading' = reading
    BY <1>2 DEF OpenTmp
  <2>3. tmp' # reading[q]
    BY <1>0, <1>2, <2>1, <2>2 DEF OpenTmp
  <2> QED BY <1>0, <1>2, <2>2, <2>3 DEF OpenTmp
<1>3. ASSUME NEW p \in Processes, BeginWrite(p) \/ EndWrite(p)
      PROVE  /\ disk'[reading'[q]] \in Documents
             /\ reading'[q] # tmp'
             /\ \A r \in Refreshers : pc'[r] \in Early => r # reading'[q]
  <2>1. p \in Refreshers
    BY <1>3, OnlyRefreshers DEF BeginWrite, EndWrite
  <2>2. writing[p] = tmp
    BY <1>0, <1>3, <2>1 DEF AloneInv, Running, BeginWrite, EndWrite
  <2>3. pc[q] = "read" /\ reading' = reading /\ tmp' = tmp
    BY <1>3 DEF BeginWrite, EndWrite
  <2>4. disk'[reading[q]] = disk[reading[q]]
    BY <1>0, <1>3, <2>2, <2>3 DEF BeginWrite, EndWrite
  <2>5. \A r \in Refreshers : pc'[r] \in Early => pc[r] \in Early
    BY <1>0, <1>3 DEF BeginWrite, EndWrite
  <2> QED BY <1>0, <2>3, <2>4, <2>5
<1>4. ASSUME UNCHANGED <<disk, reading>>, tmp' \in {tmp, NoInode}, pc[q] = "read",
             \A r \in Refreshers : pc'[r] \in Early => pc[r] \in Early
      PROVE  /\ disk'[reading'[q]] \in Documents
             /\ reading'[q] # tmp'
             /\ \A r \in Refreshers : pc'[r] \in Early => r # reading'[q]
  BY <1>0, <1>4
<1>5. ASSUME NEW p \in Processes, NEW stage \in {"fetch", "open", "load", "unlink", "ended"},
             pc' = [pc EXCEPT ![p] = stage],
             stage \in Early => pc[p] \in Early,
             UNCHANGED <<disk, reading>>, tmp' \in {tmp, NoInode}
      PROVE  /\ disk'[reading'[q]] \in Documents
             /\ reading'[q] # tmp'
             /\ \A r \in Refreshers : pc'[r] \in Early => r # reading'[q]
  <2>1. pc[q] = "read"
    BY <1>5
  <2>2. \A r \in Refreshers : pc'[r] \in Early => pc[r] \in Early
    BY <1>0, <1>5
  <2> QED BY <1>4, <1>5, <2>1, <2>2
<1>6. ASSUME NEW p \in Processes, StartRefresh(p) \/ StartReader(p) \/ Kill(p) \/ Fetch(p)
      PROVE  /\ disk'[reading'[q]] \in Documents
             /\ reading'[q] # tmp'
             /\ \A r \in Refreshers : pc'[r] \in Early => r # reading'[q]
  BY <1>5, <1>6 DEF StartRefresh, StartReader, Kill, Fetch
<1>7. ASSUME NEW p \in Processes, WriteFails(p) \/ Replace(p) \/ ReadSnapshot(p) \/ Unlink(p)
      PROVE  /\ disk'[reading'[q]] \in Documents
             /\ reading'[q] # tmp'
             /\ \A r \in Refreshers : pc'[r] \in Early => r # reading'[q]
  <2>1. CASE WriteFails(p) \/ Unlink(p)
    BY <1>5, <2>1 DEF WriteFails, Unlink
  <2>2. CASE Replace(p)
    BY <1>5, <2>2 DEF Replace
  <2>3. CASE ReadSnapshot(p)
    <3>1. PICK stage \in {"unlink", "ended"} : pc' = [pc EXCEPT ![p] = stage]
      BY <2>3 DEF ReadSnapshot, Rejected
    <3>2. UNCHANGED <<disk, reading, tmp>>
      BY <2>3 DEF ReadSnapshot
    <3> QED BY <1>5, <3>1, <3>2
  <2> QED BY <1>7, <2>1, <2>2, <2>3
<1>8. CASE UNCHANGED vars
  BY <1>0, <1>8 DEF vars
<1> QED BY <1>1, <1>2, <1>3, <1>6, <1>7, <1>8 DEF Next, Work

\* What is loaded was verified, and was a document if nothing overlapped.
LEMMA LoadedStep ==
  ASSUME TypeOK, StageInv, ReadingInv, LoadedIsVerified, [Next]_vars
  PROVE  LoadedIsVerified'
<1> USE DEF LoadedIsVerified
<1>0. overlapped \subseteq overlapped'
  BY OverlapsStay
<1>1. ASSUME NEW p \in Processes, ReadSnapshot(p)
      PROVE  LoadedIsVerified'
  <2>1. disk[reading[p]] \in Files
    BY <1>1 DEF ReadSnapshot, StageInv, TypeOK
  <2>2. CASE /\ LoadOutcome(disk[reading[p]]) = "loaded"
             /\ got' = [got EXCEPT ![p] = disk[reading[p]]]
             /\ ExitWith(p, 0)
    <3>1. overlapped' = {} => disk[reading[p]] \in Documents
      BY <1>0, <1>1 DEF ReadSnapshot, ReadingInv
    <3>2. disk[reading[p]].signature = "good" /\ disk[reading[p]] # NoFile
      BY <2>2, LoadedFile
    <3> QED BY <1>0, <2>2, <3>1, <3>2 DEF ExitWith, TypeOK
  <2>3. CASE /\ UNCHANGED got
             /\ ExitWith(p, 1) \/ Rejected(p)
    BY <1>0, <2>3 DEF Rejected, Goto, ExitWith, TypeOK
  <2> QED BY <1>1, <2>2, <2>3 DEF ReadSnapshot
<1>2. ASSUME NEW p \in Processes, UNCHANGED got,
             UNCHANGED exit \/ ExitWith(p, 1) \/ ExitWith(p, 2) \/ ExitWith(p, Killed)
      PROVE  LoadedIsVerified'
  <2>1. \A q \in Processes : exit'[q] = 0 => exit[q] = 0
    <3>1. CASE UNCHANGED exit
      BY <3>1
    <3>2. ASSUME NEW code \in {1, 2, Killed}, ExitWith(p, code)
          PROVE  \A q \in Processes : exit'[q] = 0 => exit[q] = 0
      BY <3>2, ExitCodes DEF ExitWith, TypeOK
    <3> QED BY <1>2, <3>1, <3>2
  <2> QED BY <1>0, <1>2, <2>1
<1>3. ASSUME NEW p \in Processes, StartRefresh(p) \/ StartReader(p) \/ Kill(p)
      PROVE  LoadedIsVerified'
  BY <1>2, <1>3 DEF StartRefresh, StartReader, Kill, Goto
<1>4. ASSUME NEW p \in Processes, Work(p), ~ReadSnapshot(p)
      PROVE  LoadedIsVerified'
  BY <1>2, <1>4 DEF Work, Fetch, OpenTmp, BeginWrite, EndWrite, WriteFails, Replace,
                    OpenSnapshot, Unlink, Rejected, Goto
<1>5. CASE UNCHANGED vars
  BY <1>5 DEF vars
<1> QED BY <1>1, <1>3, <1>4, <1>5 DEF Next

\* Without overlaps a rename installs what was written to its end.
LEMMA WholeStep ==
  ASSUME TypeOK, StageInv, NamesInv, AloneInv, InstalledIsWhole, [Next]_vars
  PROVE  InstalledIsWhole'
<1> SUFFICES ASSUME overlapped' = {} PROVE Snapshot' \in Documents \cup {NoFile}
  BY DEF InstalledIsWhole
<1>0. overlapped = {} /\ Snapshot \in Documents \cup {NoFile}
  BY OverlapsStay DEF InstalledIsWhole
<1>1. ASSUME NEW p \in Processes, OpenTmp(p) \/ BeginWrite(p) \/ EndWrite(p)
      PROVE  Snapshot' \in Documents \cup {NoFile}
  <2>1. p \in Refreshers /\ p \in Inodes /\ p # NoInode /\ p \in Processes
    BY <1>1, OnlyRefreshers, StoreConstants
    DEF OpenTmp, BeginWrite, EndWrite, Processes, Inodes
  <2>2. p \in Running \ overlapped
    BY <1>0, <1>1, <2>1 DEF Running, OpenTmp, BeginWrite, EndWrite
  <2>3. target' = target /\ target \in Inodes \cup {NoInode}
    BY <1>1 DEF OpenTmp, BeginWrite, EndWrite, TypeOK
  <2>4. CASE OpenTmp(p)
    <3>1. tmp' # target
      BY <2>1, <2>4 DEF OpenTmp, StageInv, Early, NamesInv
    <3> QED BY <1>0, <2>3, <2>4, <3>1 DEF OpenTmp, Snapshot, TypeOK
  <2>5. CASE BeginWrite(p) \/ EndWrite(p)
    <3>1. writing[p] = tmp /\ tmp # NoInode
      BY <2>2, <2>5 DEF AloneInv, BeginWrite, EndWrite
    <3>2. writing[p] # target
      BY <3>1 DEF NamesInv
    <3> QED BY <1>0, <2>3, <2>5, <3>2 DEF BeginWrite, EndWrite, Snapshot, TypeOK
  <2> QED BY <1>1, <2>4, <2>5
<1>2. ASSUME NEW p \in Processes, Replace(p)
      PROVE  Snapshot' \in Documents \cup {NoFile}
  <2>1. p \in Refreshers
    BY <1>2, OnlyRefreshers DEF Replace
  <2>2. p \in Running \ overlapped
    BY <1>0, <1>2, <2>1 DEF Running, Replace
  <2>3. disk[tmp] = fetched[p] /\ fetched[p] \in Documents /\ tmp # NoInode
    BY <1>2, <2>1, <2>2, FileKinds DEF AloneInv, StageInv, Fetched, Replace
  <2> QED BY <1>2, <2>3 DEF Replace, Snapshot
<1>3. ASSUME NEW p \in Processes, Unlink(p)
      PROVE  Snapshot' \in Documents \cup {NoFile}
  BY <1>3 DEF Unlink, Snapshot
<1>4. CASE UNCHANGED <<disk, target>>
  BY <1>0, <1>4 DEF Snapshot
<1> QED BY <1>1, <1>2, <1>3, <1>4
        DEF Next, Work, vars, StartRefresh, StartReader, Fetch, WriteFails,
            OpenSnapshot, ReadSnapshot, Kill

-----------------------------------------------------------------------------
(***************************************************************************)
(* The theorems.                                                           *)
(***************************************************************************)

\* Each step of each process, of a kill too, keeps the invariant.
LEMMA StepIInv == IInv /\ [Next]_vars => IInv'
<1> SUFFICES ASSUME IInv, [Next]_vars PROVE IInv'
  OBVIOUS
<1> USE DEF IInv
<1>1. TypeOK' /\ StageInv'
  BY TypeStep, StageStep
<1>2. NamesInv' /\ OverlapInv' /\ AloneInv'
  BY NamesStep, OverlapStep, AloneStep
<1>3. LoadedIsVerified' /\ InstalledIsWhole' /\ ReadingInv'
  BY LoadedStep, WholeStep, ReadingStep
<1> QED BY <1>1, <1>2, <1>3

\* The inductive invariant of the store.
THEOREM StoreInvariant == Spec => []IInv
BY InitIInv, StepIInv, PTL DEF Spec

\* Names lead to files and files have contents, whatever the processes do.
THEOREM StoreIsWellFormed == Spec => []TypeOK
<1>1. IInv => TypeOK
  BY DEF IInv
<1> QED BY <1>1, StoreInvariant, PTL

(***************************************************************************)
(* A command goes on only with a snapshot whose manifest signature is good *)
(* (load_snapshot), for any number of processes; as long as no two         *)
(* refreshes overlapped, with one whole document, however late it reads    *)
(* and whatever killed refreshes left.                                     *)
(***************************************************************************)
THEOREM LoadedIsAlwaysVerified == Spec => []LoadedIsVerified
<1>1. IInv => LoadedIsVerified
  BY DEF IInv
<1> QED BY <1>1, StoreInvariant, PTL

(***************************************************************************)
(* Without overlapping refreshes the snapshot path leads to nothing or to  *)
(* a whole document, whatever killed or failed refreshes left behind.      *)
(***************************************************************************)
THEOREM InstalledIsAlwaysWhole == Spec => []InstalledIsWhole
<1>1. IInv => InstalledIsWhole
  BY DEF IInv
<1> QED BY <1>1, StoreInvariant, PTL

\* A refresh that ends in this step was running, and alone if it ends so.
LEMMA EndsAlone ==
  ASSUME IInv, NEW p \in Refreshers, Ends(p), p \notin overlapped, [Next]_vars
  PROVE  /\ Work(p) \/ Kill(p)
         /\ p \in Running => AloneAt(p)
         /\ p \in Processes
<1>1. p \in Processes
  BY DEF Processes
<1>2. AloneInv /\ TypeOK
  BY DEF IInv
<1>3. p \in Running => AloneAt(p)
  BY <1>2 DEF AloneInv, AloneAt
<1>4. CASE UNCHANGED vars
  BY <1>4 DEF vars, Ends
<1>5. ASSUME NEW q \in Processes, StartRefresh(q) \/ StartReader(q) \/ Work(q) \/ Kill(q)
      PROVE  Work(p) \/ Kill(p)
  <2>1. q = p
    BY <1>1, <1>2, <1>5, OneProcessSteps DEF Ends
  <2>2. ~StartRefresh(p) /\ ~StartReader(p)
    BY <1>1, <1>2 DEF Ends, StartRefresh, StartReader, Goto, TypeOK
  <2> QED BY <1>5, <2>1, <2>2
<1> QED BY <1>1, <1>3, <1>4, <1>5 DEF Next

\* Where the end of a refresh that is alone leaves the snapshot.
LEMMA QuietEnds ==
  ASSUME IInv, NEW p \in Refreshers, Ends(p), p \notin overlapped, [Next]_vars
  PROVE  /\ exit'[p] = 0 => Snapshot' = fetched[p]
         /\ exit'[p] = 2 => Snapshot' \in {before[p], NoFile}
         /\ exit'[p] \in {1, Killed} => Snapshot' \in {before[p], fetched[p]}
<1>1. /\ Work(p) \/ Kill(p)
      /\ p \in Running => AloneAt(p)
      /\ p \in Processes
  BY EndsAlone
<1>2. TypeOK /\ pc[p] # "ended" /\ pc'[p] = "ended"
  BY DEF IInv, Ends
<1> USE ExitCodes DEF TypeOK, Goto, ExitWith, Running, AloneAt
<1>3. CASE Fetch(p)
  BY <1>1, <1>2, <1>3 DEF Fetch, Snapshot
<1>4. CASE WriteFails(p)
  BY <1>1, <1>2, <1>4 DEF WriteFails, Snapshot
<1>5. CASE Replace(p)
  BY <1>1, <1>2, <1>5 DEF Replace, Snapshot
<1>6. CASE OpenTmp(p) \/ BeginWrite(p) \/ EndWrite(p) \/ OpenSnapshot(p)
  BY <1>1, <1>2, <1>6 DEF OpenTmp, BeginWrite, EndWrite, OpenSnapshot, Rejected
<1>7. CASE ReadSnapshot(p)
  <2>1. Snapshot' = fetched[p]
    BY <1>1, <1>2, <1>7 DEF ReadSnapshot, Snapshot
  <2>2. exit'[p] # 2
    BY <1>1, <1>2, <1>7 DEF ReadSnapshot, Rejected
  <2> QED BY <2>1, <2>2
<1>8. CASE Unlink(p)
  BY <1>1, <1>2, <1>8 DEF Unlink, Snapshot
<1>9. CASE Kill(p)
  <2>1. pc[p] \in Stages \ {"idle", "ended"} /\ exit'[p] = Killed
    BY <1>1, <1>2, <1>9 DEF Kill
  <2>2. Snapshot' = Snapshot /\ Snapshot \in {before[p], fetched[p]}
    BY <1>1, <1>9, <2>1 DEF Kill, Snapshot, Stages
  <2> QED BY <2>1, <2>2
<1> QED BY <1>1, <1>3, <1>4, <1>5, <1>6, <1>7, <1>8, <1>9 DEF Work

(***************************************************************************)
(* A refresh that had the store to itself and reports success has          *)
(* installed the very document it fetched.                                 *)
(***************************************************************************)
THEOREM QuietRefreshAlwaysInstalls == Spec => QuietRefreshInstalls
<1>1. IInv /\ [Next]_vars =>
        [\A p \in Refreshers :
           Ends(p) /\ exit'[p] = 0 /\ p \notin overlapped => Snapshot' = fetched[p]]_vars
  BY QuietEnds
<1> QED BY <1>1, StoreInvariant, PTL DEF Spec, QuietRefreshInstalls

(***************************************************************************)
(* A refresh that had the store to itself and failed leaves the snapshot   *)
(* it found, or none, or the one it fetched, as its exit code says.        *)
(***************************************************************************)
THEOREM QuietFailureIsAlwaysClean == Spec => QuietFailureIsClean
<1>1. IInv /\ [Next]_vars =>
        [\A p \in Refreshers :
           Ends(p) /\ p \notin overlapped =>
             /\ exit'[p] = 2 => Snapshot' \in {before[p], NoFile}
             /\ exit'[p] \in {1, Killed} => Snapshot' \in {before[p], fetched[p]}]_vars
  BY QuietEnds
<1> QED BY <1>1, StoreInvariant, PTL DEF Spec, QuietFailureIsClean

=============================================================================
