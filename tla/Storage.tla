------------------------------ MODULE Storage ------------------------------
(***************************************************************************)
(* Package storage: how a node's files survive a crash.                    *)
(*                                                                         *)
(* A file written by writeFileAtomic (the state file and the snapshot      *)
(* file) goes through a temporary file, fsync, rename and an fsync of the  *)
(* directory.  Two saves of one path may overlap, each with a temporary    *)
(* file of its own.  The applied marker is overwritten in place, and the   *)
(* write-ahead log is appended to.                                         *)
(*                                                                         *)
(* The operating system is external: a write is visible to every reader    *)
(* at once and durable after fsync.  A kill loses the process only; a      *)
(* power loss leaves, of what was not fsynced, all, nothing or a damaged   *)
(* part.  Payloads are numbers: 0 stands for no record, and those above    *)
(* MaxOps for records longer than maxRecordSize.                           *)
(***************************************************************************)
EXTENDS Naturals, Sequences, FiniteSets, SequencesExt

CONSTANTS
    StateWriter,     \* saves of the state file, which Server.mu serialises
    SnapshotWriters, \* saves of the snapshot file that may overlap
    MaxOps,          \* bound: saves, marker values and appends begun
    MaxCrashes       \* bound: kills and power losses

VARIABLES
    up,          \* is the process running, with its files loaded?
    step, temp,  \* each writer's place in writeFileAtomic, and temporary file
    saves,       \* number of saves begun
    names,       \* the files each path has named since the directory was synced
    loaded,      \* what the last Load and LoadSnapshot returned
    writes,      \* history: the payloads renamed into place that still stand
    acked,       \* history: the writes that a returned save covers
    mark, markSynced, marks,    \* the applied marker file, its values so far
    markLoaded,                 \* what the last LoadApplied returned
    wal, walSynced, offset,     \* the write-ahead log
    appending, appends,         \* is an Append in progress; how many began
    walAcked,                   \* history: records a returned Append covers
    recovered,                  \* what the last ReadAll returned
    crashes

fileVars == <<step, temp, saves, names, loaded, writes, acked>>
markVars == <<mark, markSynced, marks, markLoaded>>
walVars == <<wal, walSynced, offset, appending, appends, walAcked, recovered>>
vars == <<up, fileVars, markVars, walVars, crashes>>

Path == {"state", "snapshot"}
Writer == SnapshotWriters \cup {StateWriter}
path(w) == IF w = StateWriter THEN "state" ELSE "snapshot"

-----------------------------------------------------------------------------
(* Records *)

\* A record on disk: length, checksum and payload, all there.
frameRecord(v) == [payload |-> v, state |-> "whole"]

\* The payload of the n-th save when it is too long to be read back.
oversized(n) == MaxOps + n

fits(v) == v <= MaxOps

\* What an interrupted write can leave: fewer bytes than a header, a length that
\* does not match, or a payload that fails its checksum.
Damaged == [payload |-> 0, state |-> "damaged"]

\* A damaged record reads as no record, and so does an intact one that is longer
\* than maxRecordSize.
readFramedFile(r) == IF r.state = "whole" /\ fits(r.payload) THEN r.payload ELSE 0

\* The snapshot file has a header of its own and knows no largest size.
decodeSnapshotRecord(r) == IF r.state = "whole" THEN r.payload ELSE 0

NoRecord == frameRecord(0)

-----------------------------------------------------------------------------
(* The page cache *)

\* What a power loss can leave of record new, written over record old.
Survives(old, new) == {old, new, Damaged}

Init ==
    /\ up = TRUE
    /\ step = [w \in Writer |-> "idle"]
    /\ temp = [w \in Writer |-> [record |-> NoRecord, synced |-> TRUE]]
    /\ saves = 0
    /\ names = [p \in Path |-> <<[record |-> NoRecord, synced |-> TRUE]>>]
    /\ loaded = [p \in Path |-> 0]
    /\ writes = [p \in Path |-> <<>>]
    /\ acked = [p \in Path |-> 0]
    /\ mark = NoRecord /\ markSynced = NoRecord /\ marks = 0 /\ markLoaded = 0
    /\ wal = <<>> /\ walSynced = <<>> /\ offset = 0 /\ appending = FALSE
    /\ appends = 0 /\ walAcked = <<>> /\ recovered = <<>>
    /\ crashes = 0

canBegin == saves + marks + appends < MaxOps

-----------------------------------------------------------------------------
(* writeFileAtomic *)

\* RaftState.Save frames a state of any size; the size of a snapshot makes no
\* difference.
CreateTemp(w) ==
    /\ up /\ step[w] = "idle" /\ canBegin
    /\ step' = [step EXCEPT ![w] = "created"]
    /\ saves' = saves + 1
    /\ \E v \in {saves + 1}
                 \cup (IF w = StateWriter THEN {oversized(saves + 1)} ELSE {}) :
         temp' = [temp EXCEPT ![w] = [record |-> frameRecord(v), synced |-> FALSE]]
    /\ UNCHANGED <<up, names, loaded, writes, acked, markVars, walVars, crashes>>

\* Variant of SyncTemp: the rename comes before the data is durable.
SyncTempSkipped(w) ==
    /\ up /\ step[w] = "created"
    /\ step' = [step EXCEPT ![w] = "synced"]
    /\ UNCHANGED <<up, temp, saves, names, loaded, writes, acked, markVars,
                   walVars, crashes>>

\* tmp.Write and tmp.Sync
SyncTemp(w) ==
    /\ up /\ step[w] = "created"
    /\ step' = [step EXCEPT ![w] = "synced"]
    /\ temp' = [temp EXCEPT ![w].synced = TRUE]
    /\ UNCHANGED <<up, saves, names, loaded, writes, acked, markVars, walVars,
                   crashes>>

\* os.Rename: the path names the new file, durably or not.
Rename(w) ==
    /\ up /\ step[w] = "synced"
    /\ step' = [step EXCEPT ![w] = "renamed"]
    /\ names' = [names EXCEPT ![path(w)] = Append(@, temp[w])]
    /\ writes' = [writes EXCEPT ![path(w)] = Append(@, temp[w].record.payload)]
    /\ UNCHANGED <<up, temp, saves, loaded, acked, markVars, walVars, crashes>>

\* The save returns nil: it and the writes before it count as acknowledged.
Acknowledge(w) ==
    LET k == CHOOSE i \in DOMAIN writes[path(w)] :
                 writes[path(w)][i] = temp[w].record.payload
    IN  acked' = [acked EXCEPT ![path(w)] = IF @ < k THEN k ELSE @]

\* Variant of syncDir: the rename is taken to be durable.
syncDirSkipped(w) ==
    /\ up /\ step[w] = "renamed"
    /\ step' = [step EXCEPT ![w] = "idle"]
    /\ Acknowledge(w)
    /\ UNCHANGED <<up, temp, saves, names, loaded, writes, markVars, walVars,
                   crashes>>

\* The renames so far become durable, those of the other path too.  syncDir
\* hides a failing fsync, so the model assumes there is none.
syncDir(w) ==
    /\ up /\ step[w] = "renamed"
    /\ step' = [step EXCEPT ![w] = "idle"]
    /\ names' = [p \in Path |-> <<Last(names[p])>>]
    /\ Acknowledge(w)
    /\ UNCHANGED <<up, temp, saves, loaded, writes, markVars, walVars, crashes>>

\* A step before the rename fails: the temporary file goes and Save returns the
\* error.
SaveFails(w) ==
    /\ up /\ step[w] \in {"created", "synced"}
    /\ step' = [step EXCEPT ![w] = "idle"]
    /\ UNCHANGED <<up, temp, saves, names, loaded, writes, acked, markVars,
                   walVars, crashes>>

-----------------------------------------------------------------------------
(* AppliedFile *)

\* Save's WriteAt, which may fail half way.
MarkWrite ==
    /\ up /\ mark = markSynced /\ canBegin
    /\ marks' = marks + 1
    /\ mark' \in {frameRecord(marks + 1), Damaged}
    /\ UNCHANGED <<up, fileVars, markSynced, markLoaded, walVars, crashes>>

\* Save's Sync
MarkSync ==
    /\ up /\ mark # markSynced
    /\ markSynced' = mark
    /\ UNCHANGED <<up, fileVars, mark, marks, markLoaded, walVars, crashes>>

\* Variant of LoadApplied: a damaged record is read for what it says.
LoadAppliedTrusting(r) == IF r.state = "whole" THEN r.payload ELSE marks + 1

\* A damaged marker means nothing is known to be applied.
LoadApplied(r) == IF r.state = "whole" THEN r.payload ELSE 0

-----------------------------------------------------------------------------
(* WAL *)

\* The log with record r written at the tracked offset, over whatever lies there.
writeAt(r) == Append(SubSeq(wal, 1, offset), r)

\* Append refuses a record longer than maxRecordSize before it writes anything,
\* so the records of the log all fit.
AppendWrite ==
    /\ up /\ ~ appending /\ canBegin
    /\ appends' = appends + 1
    /\ appending' = TRUE
    /\ wal' = writeAt(frameRecord(appends + 1))
    /\ offset' = offset + 1
    /\ UNCHANGED <<up, fileVars, markVars, walSynced, walAcked, recovered, crashes>>

\* WriteAt fails half way: Append returns the error and the offset stays.
AppendFails ==
    /\ up /\ ~ appending /\ canBegin
    /\ appends' = appends + 1
    /\ wal' = writeAt(Damaged)
    /\ UNCHANGED <<up, fileVars, markVars, walSynced, offset, appending, walAcked,
                   recovered, crashes>>

payloads(rs) == [k \in DOMAIN rs |-> rs[k].payload]

\* Append's Sync: the file is durable and Append returns nil, or Sync fails and
\* the record stays in place without an acknowledgement.
AppendSync ==
    /\ up /\ appending
    /\ appending' = FALSE
    /\ \/ walSynced' = wal /\ walAcked' = payloads(wal)
       \/ UNCHANGED <<walSynced, walAcked>>
    /\ UNCHANGED <<up, fileVars, markVars, wal, offset, appends, recovered, crashes>>

\* The records before the first damaged one.
intact(rs) ==
    LET bad == {k \in DOMAIN rs : rs[k].state # "whole"}
    IN  IF bad = {} THEN rs
        ELSE SubSeq(rs, 1, (CHOOSE k \in bad : \A j \in bad : k <= j) - 1)

-----------------------------------------------------------------------------
(* Crashes and recovery *)

\* The process dies: what it wrote stays visible, temporary files are orphans.
Kill ==
    /\ up /\ crashes < MaxCrashes
    /\ up' = FALSE
    /\ crashes' = crashes + 1
    /\ step' = [w \in Writer |-> "idle"]
    /\ appending' = FALSE
    /\ UNCHANGED <<temp, saves, names, loaded, writes, acked, markVars, wal,
                   walSynced, offset, appends, walAcked, recovered>>

\* What a power loss can leave of path p: one of the files it has named since
\* the directory was synced, and of that file what was fsynced or more.
Aftermath(p) ==
    UNION {{[names |-> <<[record |-> r, synced |-> TRUE]>>,
             writes |-> SubSeq(writes[p], 1,
                               Len(writes[p]) - (Len(names[p]) - k))] :
              r \in IF names[p][k].synced THEN {names[p][k].record}
                    ELSE Survives(NoRecord, names[p][k].record)} :
           k \in DOMAIN names[p]}

\* The machine dies: what was not fsynced survives whole, in part or not.
PowerLoss ==
    /\ crashes < MaxCrashes
    /\ up' = FALSE
    /\ crashes' = crashes + 1
    /\ step' = [w \in Writer |-> "idle"]
    /\ \E st \in Aftermath("state"), sn \in Aftermath("snapshot") :
          LET left(p) == IF p = "state" THEN st ELSE sn
          IN  /\ names' = [p \in Path |-> left(p).names]
              /\ writes' = [p \in Path |-> left(p).writes]
    /\ \E m \in (IF mark = markSynced THEN {mark} ELSE Survives(markSynced, mark)) :
          mark' = m /\ markSynced' = m
    /\ \E w \in (IF wal = walSynced THEN {wal}
                 ELSE {wal, walSynced,
                       Append(LongestCommonPrefix({wal, walSynced}), Damaged)}) :
          wal' = w /\ walSynced' = w
    /\ appending' = FALSE
    /\ UNCHANGED <<temp, saves, loaded, acked, marks, markLoaded, offset, appends,
                   walAcked, recovered>>

\* Variant of ReadAll: the damaged tail is skipped and left in the file.
ReadAllKeepsTail ==
    /\ recovered' = payloads(intact(wal))
    /\ offset' = Len(wal)
    /\ UNCHANGED wal

\* The intact records are returned and the log is cut after the last of them.
ReadAll ==
    /\ recovered' = payloads(intact(wal))
    /\ wal' = intact(wal)
    /\ offset' = Len(intact(wal))

\* RaftState.Load and LoadSnapshot
Load(p) == IF p = "state" THEN readFramedFile(Last(names[p]).record)
           ELSE decodeSnapshotRecord(Last(names[p]).record)

\* The process starts and reads its files.
Recover ==
    /\ ~ up
    /\ up' = TRUE
    /\ loaded' = [p \in Path |-> Load(p)]
    /\ markLoaded' = LoadApplied(mark)
    /\ ReadAll
    /\ UNCHANGED <<step, temp, saves, names, writes, acked, mark, markSynced, marks,
                   walSynced, appending, appends, walAcked, crashes>>

Next ==
    \/ \E w \in Writer : \/ CreateTemp(w) \/ SyncTemp(w) \/ Rename(w)
                         \/ syncDir(w) \/ SaveFails(w)
    \/ MarkWrite \/ MarkSync
    \/ AppendWrite \/ AppendFails \/ AppendSync
    \/ Kill \/ PowerLoss \/ Recover

Spec == Init /\ [][Next]_vars

-----------------------------------------------------------------------------
(* Properties *)

StateFile == INSTANCE DurableRegister
    WITH Value <- 1..oversized(MaxOps), Readable <- 1..MaxOps,
         writes <- writes["state"], acked <- acked["state"],
         loaded <- loaded["state"]

SnapshotFile == INSTANCE DurableRegister
    WITH Value <- 1..MaxOps, Readable <- 1..MaxOps, writes <- writes["snapshot"],
         acked <- acked["snapshot"], loaded <- loaded["snapshot"]

\* The state file is a durable register: saves take effect whole and one after
\* the other, Load after any crash returns the latest that stands, and one that
\* was acknowledged stands whatever happens later (writeFileAtomic).  A state
\* longer than maxRecordSize stands as well, but Load returns nothing for it.
StateFileIsRegister == StateFile!Spec

\* So is the snapshot file, although two saves of it may overlap.
SnapshotFileIsRegister == SnapshotFile!Spec

\* A state file whose save was acknowledged is never read as no state: "a reader
\* now sees either the complete old state or the complete new state" (Save).
AckedStateLoads == [][~ up /\ up' /\ acked["state"] > 0 => loaded'["state"] # 0]_vars

\* ReadAll returns every record whose Append was acknowledged, in order and at
\* the front, however often the tail was torn, cut and written over; what
\* follows them are whole records that were appended later.
AckedRecordsSurvive ==
    [][~ up /\ up' =>
        /\ IsPrefix(walAcked, recovered')
        /\ \A k \in DOMAIN recovered' :
              /\ recovered'[k] \in 1..appends
              /\ k > 1 => recovered'[k - 1] < recovered'[k]]_vars

\* The marker a restart reads is one that was saved, or nothing at all: damage
\* never makes a node replay past what it had applied.
MarkerNeverInvented == markLoaded \in 0..marks
=============================================================================
