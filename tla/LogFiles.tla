------------------------------ MODULE LogFiles ------------------------------
(***************************************************************************)
(* The files of `edc log': runs that share one --output path, the lock     *)
(* file beside it, the rotation into numbered archives, and the deletion   *)
(* of a log with its archives by `edc log prune' or the history screen.    *)
(*                                                                         *)
(* Every run and every deletion is a process of its own; one action is one *)
(* system call on the files (or a few that nothing can come between).  A   *)
(* name and the file it leads to are kept apart: an open file stays what   *)
(* it is when its name is taken by a rename or an unlink.                  *)
(***************************************************************************)
EXTENDS Integers, Sequences, FiniteSets

CONSTANTS
    Writers,      \* runs of `edc log' with the same --output
    Deleters,     \* processes that delete logs
    MaxSize,      \* --max-size: units of output a file may hold
    Keep,         \* --keep-files: the number of archives
    Lengths,      \* how long a write of the command's output may be
    Faults,       \* the system calls that may fail
    MaxRecords,   \* bound: writes of one run, its start marker included
    MaxKills,     \* bound: processes killed
    MaxDeletions  \* bound: deletions that are begun

FaultNames == {"stat", "sync", "close", "remove", "rename", "open", "chmod",
               "write", "unlink"}

ASSUME SizeAssumption  == MaxSize \in Nat \ {0} /\ Keep \in Nat \ {0}
ASSUME BoundAssumption == MaxRecords \in Nat /\ MaxKills \in Nat /\ MaxDeletions \in Nat
ASSUME LengthAssumption == Lengths \subseteq Nat \ {0}
ASSUME FaultAssumption == Faults \subseteq FaultNames
ASSUME ProcessAssumption == Writers \cap Deleters = {}

NoFile == 0              \* no such name, or no open file
Names  == 0 .. Keep      \* 0 is the log itself, i the archive .edc.<i>
Procs  == Writers \cup Deleters

VARIABLES
    lockAt,     \* the lock file now found at <path>.lock
    locks,      \* how many lock files have been created
    lockFd,     \* lockFd[w]: the lock file a run has open
    dir,        \* dir[n]: the file that name n leads to
    data,       \* data[f]: the units in file f
    fd,         \* fd[w]: the log file a run has open
    size,       \* size[w]: what the run believes its length to be
    left,       \* left[w]: the units of the current write still to do
    records,    \* records[w]: the writes begun
    sent,       \* sent[w]: the units written
    shift,      \* shift[w]: the archive that the rotation renames next
    pc,         \* the step a process is at
    targets,    \* targets[d]: the run IDs selected for deletion
    found,      \* found[d]: the run IDs found in the log when it was read last
    parts,      \* parts[d]: the files the last scan found, oldest first
    failed,     \* failed[d]: a part could not be removed
    written,    \* ghost: every unit in the order it was written
    late,       \* ghost: late[d]: the runs that d's comparison has overlooked
    raced,      \* ghost: a run had the lock file while a deletion removed files
    doomed,     \* ghost: the runs some deletion set out to remove
    missed,     \* ghost: the runs some deletion left behind under a new name
    counted,    \* counted[w]: how often the daily summary counts the run
    kills, deletions

lockVars == <<lockAt, locks, lockFd>>
fileVars == <<dir, data>>
runVars  == <<fd, size, left, records, sent, shift>>
delVars  == <<targets, found, parts, failed, deletions>>
ghosts   == <<written, late, raced, doomed, missed, counted>>
vars     == <<lockVars, fileVars, runVars, pc, delVars, ghosts, kills>>

\* The steps during which a run holds the lock
Holding  == {"open", "run", "part", "stat", "close", "remove", "shift", "reopen"}
Deleting == {"plan", "confirm", "scan", "read", "check", "unlink", "rmLock", "rollup"}
\* ... during which a deletion relies on nobody having the log
Removing == {"unlink", "rmLock"}

Holds(w)  == w \in Writers /\ pc[w] \in Holding
Locked(f) == \E w \in Writers : Holds(w) /\ lockFd[w] = f

Content(n) == IF dir[n] = NoFile THEN <<>> ELSE data[dir[n]]

\* The sequences of a sequence, one after the other
Flat(ss) == LET From[i \in 0 .. Len(ss)] == IF i = 0 THEN <<>> ELSE From[i - 1] \o ss[i]
            IN  From[Len(ss)]

\* What the log and its archives hold, oldest first
Retained == Flat([i \in 1 .. Keep + 1 |-> Content(Keep + 1 - i)])

Init ==
    /\ lockAt = NoFile /\ locks = 0
    /\ lockFd = [w \in Writers |-> NoFile]
    /\ dir = [n \in Names |-> NoFile]
    /\ data = <<>>
    /\ fd = [w \in Writers |-> NoFile]
    /\ size = [w \in Writers |-> 0]
    /\ left = [w \in Writers |-> 0]
    /\ records = [w \in Writers |-> 0]
    /\ sent = [w \in Writers |-> 0]
    /\ shift = [w \in Writers |-> 0]
    /\ pc = [p \in Procs |-> "idle"]
    /\ targets = [d \in Deleters |-> {}]
    /\ found = [d \in Deleters |-> {}]
    /\ parts = [d \in Deleters |-> <<>>]
    /\ failed = [d \in Deleters |-> FALSE]
    /\ written = <<>>
    /\ late = [d \in Deleters |-> {}]
    /\ raced = FALSE
    /\ doomed = {} /\ missed = {}
    /\ counted = [w \in Writers |-> 0]
    /\ kills = 0 /\ deletions = 0

Goto(p, label) == pc' = [pc EXCEPT ![p] = label]
MayFail(f)     == f \in Faults

-----------------------------------------------------------------------------
(* runLog: the lock, and the log file                                      *)

\* openLogFile of the lock: an existing file, or a new one.  It may fail, also
\* because the name goes between the two attempts to open it
OpenLock(w) ==
    /\ pc[w] = "idle"
    /\ \/ /\ locks'  = IF lockAt = NoFile THEN locks + 1 ELSE locks
          /\ lockAt' = IF lockAt = NoFile THEN locks + 1 ELSE lockAt
          /\ lockFd' = [lockFd EXCEPT ![w] = lockAt']
          /\ Goto(w, "lock")
       \/ /\ MayFail("open")
          /\ Goto(w, "done")
          /\ UNCHANGED lockVars
    /\ UNCHANGED <<fileVars, runVars, delVars, ghosts, kills>>

LockUnchecked(w) ==
    /\ pc[w] = "lock"
    /\ Goto(w, "open")
    /\ UNCHANGED <<lockVars, fileVars, runVars, delVars, ghosts, kills>>

\* lockLogFile: an exclusive flock of the open file, tried every 25 ms
Lock(w) ==
    /\ pc[w] = "lock"
    /\ ~Locked(lockFd[w])
    /\ Goto(w, "open")
    /\ late' = [d \in Deleters |-> IF pc[d] = "check" THEN late[d] \cup {w} ELSE late[d]]
    /\ raced' = (raced \/ \E d \in Deleters : pc[d] \in Removing)
    /\ UNCHANGED <<lockVars, fileVars, runVars, delVars, written, doomed, missed, counted, kills>>

\* ... until a signal arrives
Interrupt(w) ==
    /\ pc[w] = "lock"
    /\ Goto(w, "done")
    /\ lockFd' = [lockFd EXCEPT ![w] = NoFile]
    /\ UNCHANGED <<lockAt, locks, fileVars, runVars, delVars, ghosts, kills>>

\* openLogFile of the log: opens it for appending, creates it when it is missing
OpenActive(w) ==
    /\ dir'  = IF dir[0] = NoFile THEN [dir EXCEPT ![0] = Len(data) + 1] ELSE dir
    /\ data' = IF dir[0] = NoFile THEN Append(data, <<>>) ELSE data
    /\ fd'   = [fd EXCEPT ![w] = dir'[0]]

\* openRotatingLog: the size of a log that is there already counts
OpenLog(w) ==
    /\ pc[w] = "open"
    /\ \/ /\ OpenActive(w)
          /\ size' = [size EXCEPT ![w] = Len(data'[dir'[0]])]
          /\ Goto(w, "run")
          /\ UNCHANGED lockFd
       \/ /\ MayFail("open")
          /\ Goto(w, "done")
          /\ lockFd' = [lockFd EXCEPT ![w] = NoFile]
          /\ UNCHANGED <<fileVars, fd, size>>
    /\ UNCHANGED <<lockAt, locks, left, records, sent, shift, delVars, ghosts, kills>>

\* The run is over: the log is closed, the lock released
EndRun(w) ==
    /\ pc[w] = "run"
    /\ Goto(w, "done")
    /\ fd' = [fd EXCEPT ![w] = NoFile]
    /\ lockFd' = [lockFd EXCEPT ![w] = NoFile]
    /\ UNCHANGED <<lockAt, locks, fileVars, size, left, records, sent, shift,
                   delVars, ghosts, kills>>

-----------------------------------------------------------------------------
(* rotatingLogFile.Write                                                   *)

\* A write that fits into an empty file but not into this one, and any write
\* to a full file, rotates first
NeedsRotation(s, n) == (n <= MaxSize /\ s + n > MaxSize) \/ s >= MaxSize

\* The start marker, then whatever the command writes
BeginWrite(w) ==
    /\ pc[w] = "run" /\ fd[w] # NoFile /\ records[w] < MaxRecords
    /\ \E n \in IF records[w] = 0 THEN {1} ELSE Lengths :
         /\ left' = [left EXCEPT ![w] = n]
         /\ Goto(w, IF NeedsRotation(size[w], n) THEN "stat" ELSE "part")
    /\ records' = [records EXCEPT ![w] = @ + 1]
    /\ UNCHANGED <<lockVars, fileVars, fd, size, sent, shift, delVars, ghosts, kills>>

\* fail(err) and the return: nothing more of this write is done
GiveUp(w) == Goto(w, "run") /\ left' = [left EXCEPT ![w] = 0]

Units(w, n) == [i \in 1 .. n |-> <<w, sent[w] + i>>]

PartWhole(w) == left[w]
PartSize(w) == IF left[w] < MaxSize - size[w] THEN left[w] ELSE MaxSize - size[w]

\* As much as fits; a short write is an error
WritePart(w) ==
    /\ pc[w] = "part"
    /\ \E n \in 0 .. PartSize(w) :
         /\ n = PartSize(w) \/ MayFail("write")
         /\ data' = [data EXCEPT ![fd[w]] = @ \o Units(w, n)]
         /\ written' = written \o Units(w, n)
         /\ size' = [size EXCEPT ![w] = @ + n]
         /\ sent' = [sent EXCEPT ![w] = @ + n]
         /\ IF n < PartSize(w) THEN GiveUp(w)
            ELSE /\ left' = [left EXCEPT ![w] = @ - n]
                 /\ Goto(w, IF left'[w] = 0 THEN "run" ELSE "stat")
    /\ UNCHANGED <<lockVars, dir, fd, records, shift, delVars, late, raced, doomed,
                   missed, counted, kills>>

-----------------------------------------------------------------------------
(* rotatingLogFile.rotate                                                  *)

\* Lstat of every archive name
StatArchives(w) ==
    /\ pc[w] = "stat"
    /\ \/ Goto(w, "close") /\ UNCHANGED left
       \/ MayFail("stat") /\ GiveUp(w)
    /\ UNCHANGED <<lockVars, fileVars, fd, size, records, sent, shift, delVars, ghosts, kills>>

\* Sync and Close; a file whose Sync failed stays open
CloseActive(w) ==
    /\ pc[w] = "close"
    /\ \/ /\ fd' = [fd EXCEPT ![w] = NoFile]
          /\ Goto(w, "remove") /\ UNCHANGED left
       \/ MayFail("sync") /\ GiveUp(w) /\ UNCHANGED fd
       \/ MayFail("close") /\ GiveUp(w) /\ fd' = [fd EXCEPT ![w] = NoFile]
    /\ UNCHANGED <<lockVars, fileVars, size, records, sent, shift, delVars, ghosts, kills>>

RemoveOldestTooHigh(w) ==
    /\ pc[w] = "remove"
    /\ dir' = [dir EXCEPT ![Keep] = NoFile]
    /\ shift' = [shift EXCEPT ![w] = Keep]
    /\ Goto(w, "shift")
    /\ UNCHANGED <<lockVars, data, fd, size, left, records, sent, delVars, ghosts, kills>>

RemoveNewest(w) ==
    /\ pc[w] = "remove"
    /\ dir' = [dir EXCEPT ![1] = NoFile]
    /\ shift' = [shift EXCEPT ![w] = Keep - 1]
    /\ Goto(w, "shift")
    /\ UNCHANGED <<lockVars, data, fd, size, left, records, sent, delVars, ghosts, kills>>

\* The oldest archive goes
RemoveOldest(w) ==
    /\ pc[w] = "remove"
    /\ \/ /\ dir' = [dir EXCEPT ![Keep] = NoFile]
          /\ shift' = [shift EXCEPT ![w] = Keep - 1]
          /\ Goto(w, "shift") /\ UNCHANGED left
       \/ MayFail("remove") /\ GiveUp(w) /\ UNCHANGED <<dir, shift>>
    /\ UNCHANGED <<lockVars, data, fd, size, records, sent, delVars, ghosts, kills>>

Renamed(d, from, to) == [d EXCEPT ![to] = d[from], ![from] = NoFile]

\* The others move up one by one, the log itself last; a missing archive is
\* skipped, a missing log is an error
ShiftArchive(w) ==
    LET n == shift[w] IN
    /\ pc[w] = "shift"
    /\ \/ /\ n > 0 \/ dir[0] # NoFile
          /\ dir' = IF dir[n] = NoFile THEN dir ELSE Renamed(dir, n, n + 1)
          /\ IF n > 0 THEN shift' = [shift EXCEPT ![w] = n - 1] /\ UNCHANGED pc
                      ELSE Goto(w, "reopen") /\ UNCHANGED shift
          /\ UNCHANGED left
       \/ /\ MayFail("rename") \/ (n = 0 /\ dir[0] = NoFile)
          /\ GiveUp(w)
          /\ UNCHANGED <<dir, shift>>
    /\ UNCHANGED <<lockVars, data, fd, size, records, sent, delVars, ghosts, kills>>

\* A new log, empty; when its mode cannot be set the old size stays
Reopen(w) ==
    /\ pc[w] = "reopen"
    /\ \/ /\ OpenActive(w)
          /\ size' = [size EXCEPT ![w] = 0]
          /\ Goto(w, "part") /\ UNCHANGED left
       \/ MayFail("chmod") /\ OpenActive(w) /\ GiveUp(w) /\ UNCHANGED size
       \/ MayFail("open") /\ GiveUp(w) /\ UNCHANGED <<fileVars, fd, size>>
    /\ UNCHANGED <<lockVars, records, sent, shift, delVars, ghosts, kills>>

-----------------------------------------------------------------------------
(* Deletion: planLogHistoryDeletion and execute                            *)

\* The file at a name, if there is one, with its length
PartAt(n) ==
    IF dir[n] = NoFile THEN <<>>
    ELSE <<[name |-> n, file |-> dir[n], length |-> Len(data[dir[n]])]>>

\* The files at the names that exist, oldest first
Scanned == Flat([i \in 1 .. Keep + 1 |-> PartAt(Keep + 1 - i)])

\* What a reader of these parts sees
UnitsOf(ps) == Flat([i \in 1 .. Len(ps) |-> SubSeq(data[ps[i].file], 1, ps[i].length)])

\* The runs whose start marker is there; an ID is the run and its ordinal
Starts(us) == {i \in 1 .. Len(us) : us[i][2] = 1}
Rows(ps)   == LET us == UnitsOf(ps)
              IN  {<<us[i][1], Cardinality({j \in Starts(us) : j <= i})>> : i \in Starts(us)}

\* The runs of which only a tail is left: no row shows them
Headless(ps) == {UnitsOf(ps)[i][1] : i \in 1 .. Len(UnitsOf(ps))} \ {row[1] : row \in Rows(ps)}

LogFileLocked == lockAt # NoFile /\ Locked(lockAt)

\* The user selects runs that the history shows
Select(d) ==
    /\ pc[d] = "idle" /\ deletions < MaxDeletions
    /\ deletions' = deletions + 1
    /\ targets' \in {[targets EXCEPT ![d] = T] : T \in SUBSET Rows(Scanned) \ {{}}}
    /\ Goto(d, "plan")
    /\ UNCHANGED <<lockVars, fileVars, runVars, found, parts, failed, ghosts, kills>>

CoversSome(d, rows) == rows \cap targets[d] # {}
Covers(d, rows) == rows \subseteq targets[d]

\* planLogHistoryDeletion: a log with another run, or a locked one, is kept
Plan(d) ==
    LET rows == Rows(Scanned) IN
    /\ pc[d] = "plan"
    /\ found' = [found EXCEPT ![d] = rows]
    /\ Goto(d, IF rows # {} /\ ~LogFileLocked /\ Covers(d, rows) THEN "confirm" ELSE "idle")
    /\ UNCHANGED <<lockVars, fileVars, runVars, targets, parts, failed, deletions, ghosts, kills>>

\* --dry-run and a no end it here
Confirm(d) ==
    /\ pc[d] = "confirm"
    /\ \E next \in {"scan", "idle"} : Goto(d, next)
    /\ UNCHANGED <<lockVars, fileVars, runVars, delVars, ghosts, kills>>

\* execute: historyFamiliesIn
Scan(d) ==
    /\ pc[d] = "scan"
    /\ parts' = [parts EXCEPT ![d] = Scanned]
    /\ failed' = [failed EXCEPT ![d] = FALSE]
    /\ Goto(d, "read")
    /\ UNCHANGED <<lockVars, fileVars, runVars, targets, found, deletions, ghosts, kills>>

\* compareHistoryFamily: the same files at the same names; only the log grows
Unchanged(ps) ==
    \A i \in 1 .. Len(ps) :
        /\ dir[ps[i].name] = ps[i].file
        /\ ps[i].name # 0 => Len(data[ps[i].file]) = ps[i].length

\* What the comparison lets through: the runs that made the log grow after the
\* scan, that wrote under a name at which the scan found no file, or that have the
\* log now and go on
Overlooked(d) ==
    {w \in Writers :
        \/ Holds(w)
        \/ \E i \in 1 .. Len(parts[d]) :
             /\ parts[d][i].name = 0
             /\ \E k \in parts[d][i].length + 1 .. Len(data[parts[d][i].file]) :
                  data[parts[d][i].file][k][1] = w
        \/ \E n \in Names :
             /\ \A i \in 1 .. Len(parts[d]) : parts[d][i].name # n
             /\ \E k \in 1 .. Len(Content(n)) : Content(n)[k][1] = w}

\* execute: readFamily again; a log that gained a run or changed is kept
ReadAgain(d) ==
    LET rows == Rows(parts[d]) IN
    /\ pc[d] = "read"
    /\ Goto(d, IF /\ Unchanged(parts[d])
                  /\ rows # {} /\ Cardinality(rows) = Cardinality(found[d]) /\ Covers(d, rows)
               THEN "check" ELSE "idle")
    /\ found' = [found EXCEPT ![d] = rows]
    /\ late' = [late EXCEPT ![d] = Overlooked(d)]
    /\ UNCHANGED <<lockVars, fileVars, runVars, targets, parts, failed, deletions,
                   written, raced, doomed, missed, counted, kills>>

\* The removal takes the selected runs, the tails that no row shows, and the runs
\* that were overlooked
Doom(d) == doomed' = doomed \cup {row[1] : row \in targets[d]} \cup Headless(parts[d]) \cup late[d]

\* The runs in a file that a rotation has renamed since it was compared: the
\* removal, which goes by names, does not reach it
Displaced(d) ==
    {w \in Writers : \E i \in 1 .. Len(parts[d]) :
        /\ dir[parts[d][i].name] # parts[d][i].file
        /\ \E k \in 1 .. Len(data[parts[d][i].file]) : data[parts[d][i].file][k][1] = w}

\* ... and a locked one
CheckLock(d) ==
    /\ pc[d] = "check"
    /\ IF LogFileLocked
       THEN Goto(d, "idle") /\ UNCHANGED <<doomed, missed>>
       ELSE /\ Goto(d, "unlink")
            /\ Doom(d)
            /\ missed' = missed \cup Displaced(d)
    /\ UNCHANGED <<lockVars, fileVars, runVars, delVars, written, late, raced, counted, kills>>

AfterUnlinkAlways(d) == "rmLock"
\* A part that is left keeps the lock file, and the run out of the summary
AfterUnlink(d) == IF failed[d] THEN "idle" ELSE "rmLock"

\* os.Remove of the parts by their names, oldest first
Unlink(d) ==
    /\ pc[d] = "unlink"
    /\ IF parts[d] = <<>>
       THEN Goto(d, AfterUnlink(d)) /\ UNCHANGED <<dir, parts, failed>>
       ELSE /\ parts' = [parts EXCEPT ![d] = Tail(@)]
            /\ \/ dir' = [dir EXCEPT ![Head(parts[d]).name] = NoFile] /\ UNCHANGED failed
               \/ MayFail("unlink") /\ failed' = [failed EXCEPT ![d] = TRUE] /\ UNCHANGED dir
            /\ UNCHANGED pc
    /\ UNCHANGED <<lockVars, data, runVars, targets, found, deletions, ghosts, kills>>

\* os.Remove of the lock file
RemoveLock(d) ==
    /\ pc[d] = "rmLock"
    /\ \/ /\ lockAt' = NoFile
          /\ raced' = (raced \/ (lockAt # NoFile /\ \E w \in Writers : lockFd[w] = lockAt))
       \/ MayFail("unlink") /\ UNCHANGED <<lockAt, raced>>
    /\ Goto(d, "rollup")
    /\ UNCHANGED <<locks, lockFd, fileVars, runVars, delVars, written, late, doomed,
                   missed, counted, kills>>

\* saveLogHistoryRollup: the deleted runs are added to the daily summary.  The
\* history screen, and a prune of another directory, end without it
Rollup(d) ==
    /\ pc[d] = "rollup"
    /\ \/ counted' = [w \in Writers |->
                        counted[w] + Cardinality({row \in found[d] : row[1] = w})]
       \/ UNCHANGED counted
    /\ Goto(d, "idle")
    /\ UNCHANGED <<lockVars, fileVars, runVars, delVars, written, late, raced, doomed, missed, kills>>

-----------------------------------------------------------------------------
\* A process is killed: the kernel closes its files and drops its lock
Kill(p) ==
    /\ kills < MaxKills
    /\ pc[p] \in (Holding \cup Deleting \cup {"lock"})
    /\ kills' = kills + 1
    /\ IF p \in Writers
       THEN /\ Goto(p, "done")
            /\ fd' = [fd EXCEPT ![p] = NoFile]
            /\ lockFd' = [lockFd EXCEPT ![p] = NoFile]
       ELSE Goto(p, "idle") /\ UNCHANGED <<fd, lockFd>>
    /\ UNCHANGED <<lockAt, locks, fileVars, size, left, records, sent, shift, delVars, ghosts>>

RunStep(w) ==
    \/ OpenLog(w) \/ BeginWrite(w) \/ WritePart(w) \/ StatArchives(w) \/ CloseActive(w)
    \/ RemoveOldest(w) \/ ShiftArchive(w) \/ Reopen(w) \/ EndRun(w)

DeleteStep(d) ==
    \/ Select(d) \/ Plan(d) \/ Confirm(d) \/ Scan(d) \/ ReadAgain(d) \/ CheckLock(d)
    \/ Unlink(d) \/ RemoveLock(d) \/ Rollup(d)

Next ==
    \/ \E w \in Writers : OpenLock(w) \/ Lock(w) \/ Interrupt(w) \/ RunStep(w)
    \/ \E d \in Deleters : DeleteStep(d)
    \/ \E p \in Procs : Kill(p)

Spec == Init /\ [][Next]_vars

-----------------------------------------------------------------------------
(* Properties                                                              *)

Unit  == Writers \X Nat
RunID == Writers \X (Nat \ {0})
Part  == [name : Names, file : Nat \ {0}, length : Nat]

TypeOK ==
    /\ lockAt \in 0 .. locks /\ locks \in Nat
    /\ lockFd \in [Writers -> 0 .. locks]
    /\ data \in Seq(Seq(Unit))
    /\ dir \in [Names -> 0 .. Len(data)]
    /\ fd \in [Writers -> 0 .. Len(data)]
    /\ \A v \in {size, left, records, sent} : v \in [Writers -> Nat]
    /\ shift \in [Writers -> 0 .. Keep - 1]
    /\ pc \in [Procs -> {"idle", "lock", "done"} \cup Holding \cup Deleting]
    /\ targets \in [Deleters -> SUBSET RunID] /\ found \in [Deleters -> SUBSET RunID]
    /\ parts \in [Deleters -> Seq(Part)]
    /\ failed \in [Deleters -> BOOLEAN] /\ late \in [Deleters -> SUBSET Writers]
    /\ raced \in BOOLEAN
    /\ written \in Seq(Unit)
    /\ doomed \subseteq Writers /\ missed \subseteq Writers
    /\ counted \in [Writers -> Nat]
    /\ kills \in 0 .. MaxKills /\ deletions \in 0 .. MaxDeletions

\* "Commands with the same explicit output file wait for its `.lock` file.  The
\* lock remains stable across file rotation": two runs never have the log at
\* the same time.
LockExcludes == \A v, w \in Writers : Holds(v) /\ Holds(w) => v = w

\* The same, as long as no run took the lock between a deletion's check of it and
\* the end of that deletion's removals, and none had the lock file open when it
\* was removed: nothing else breaks the exclusion.
LockExcludesUnlessRaced == raced \/ LockExcludes

NotDoomed(u) == u[1] \notin doomed

\* Rotation drops the oldest output and nothing else, and a deletion drops only
\* the runs it was asked to delete and tails whose start is gone: whatever is
\* killed or fails in the middle of a rotation, the log with its archives, read
\* in order, is the end of what the other runs wrote.  Each unit that is kept was
\* written at some place; what is kept after it was written after it; and what
\* was written after it is kept after it, unless its run was deleted.  (A run
\* that the deletion's comparison overlooked counts as deleted here: that it was
\* not asked to is what GainedRunIsKept says.)
KeepsTheNewest ==
    raced \/ LET kept == Retained IN
        \A i \in 1 .. Len(kept) : \E p \in 1 .. Len(written) :
            /\ written[p] = kept[i]
            /\ \A j \in i + 1 .. Len(kept) :
                 \E q \in p + 1 .. Len(written) : written[q] = kept[j]
            /\ NotDoomed(kept[i]) =>
                 \A q \in p + 1 .. Len(written) :
                   \E j \in i + 1 .. Len(kept) : kept[j] = written[q]

\* What a step takes from the names: the last archive, or what a deletion removes
OnlyOldestDropped ==
    \A n \in 0 .. Keep - 1 :
        \/ dir[n] = NoFile
        \/ \E m \in Names : dir'[m] = dir[n]
        \/ raced
        \/ \E d \in Deleters : pc[d] = "unlink"

\* A rotation drops the file at the last archive name and no other: after a
\* kill or a failure between two renames the next rotation meets a gap in the
\* archives, and none of its renames overwrites a file.
RotationDropsOldestOnly == [][OnlyOldestDropped]_vars

\* --max-size: no file grows beyond it, whatever was left by an earlier run or
\* a rotation that failed.
SizeBounded == raced \/ \A f \in 1 .. Len(data) : Len(data[f]) <= MaxSize

\* "a log that changed and was kept is not counted twice later": a run enters
\* the daily summary at most once, and only when none of it is left.  (Not so a
\* run whose file was renamed after the comparison: NotCountedTwice is about it.)
CountedOnce ==
    raced \/ \A w \in Writers \ missed :
        counted[w] > 0 => counted[w] = 1 /\ \A i \in 1 .. Len(Retained) : Retained[i][1] # w

\* "A family that gained a run or a lock since the plan is kept": what a deletion
\* removes holds no run but those it was asked to delete.  It fails for a run that
\* writes its start after the deletion's scan and ends before the lock is checked.
GainedRunIsKept ==
    raced \/ \A d \in Deleters : pc[d] = "unlink" =>
        \A row \in Rows(Scanned) : \E t \in targets[d] : t[1] = row[1]

\* "The summary is written for the runs that were really removed, so a log that
\* changed and was kept is not counted twice later."  It fails when a rotation
\* renames the file between the comparison and the removal by name.
NotCountedTwice == raced \/ \A w \in Writers : counted[w] <= 1
=============================================================================
