------------------------------- MODULE Spool -------------------------------
(***************************************************************************)
(* The reliable report spool of src/spool.rs: a queue of reports in memory *)
(* and the three files a persist moves it through.  One action per file    *)
(* operation; every operation may succeed, fail, or be the last one before *)
(* the process dies.                                                       *)
(*                                                                         *)
(* Reports are numbered in the order in which they are created (their      *)
(* message ids are version 7 UUIDs).  A file holds a snapshot of the queue *)
(* that parses, a snapshot cut short, or does not exist.  A crash is the   *)
(* death of the process: what a completed file operation did stays done.   *)
(***************************************************************************)
EXTENDS Integers, Sequences, SequencesExt

CONSTANTS
    MaxReports,     \* bound: reports created in a behaviour
    Capacity,       \* the spool's capacity
    Windows,        \* the build replaces the primary file by removing it first
    MaxCorruptions  \* bound: primary files that become unreadable at rest

ASSUME SpoolAssumption ==
    /\ MaxReports \in Nat
    /\ Capacity \in Nat \ {0}
    /\ Windows \in BOOLEAN
    /\ MaxCorruptions \in Nat

VARIABLES
    reports,     \* ReportSpool.reports
    undo,        \* the local that acknowledge and discard_before restore from
    operation,   \* the caller of persist: the operation in progress
    pc,          \* its next file operation; "idle" between calls, "down" when closed
    invalid,     \* invalid_candidates still to be quarantined
    disk,        \* the files
    issued,      \* reports created so far
    corruptions, \* primary files that became unreadable so far
    committed,   \* history: the last snapshot renamed to the primary file
    previous,    \* history: the one before
    attempts,    \* history: snapshots given to persist since committed
    accepted,    \* history: reports whose enqueue returned Ok
    removing,    \* history: reports whose removal was begun
    settled      \* history: reports whose removal returned Ok

memory == <<reports, undo, operation, pc, invalid>>
history == <<committed, previous, attempts, accepted, removing, settled>>
vars == <<memory, disk, issued, corruptions, history>>

-----------------------------------------------------------------------------
Report == 1 .. MaxReports

Candidates == {"primary", "temporary", "backup"}

Absent == [kind |-> "absent", reports |-> <<>>]
Torn == [kind |-> "torn", reports |-> <<>>]
Snapshot(q) == [kind |-> "valid", reports |-> q]

File == [kind : {"absent", "torn", "valid"}, reports : Seq(Report)]

Valid(c) == disk[c].kind = "valid"
Exists(c) == disk[c].kind # "absent"

(* Mutant of Loaded: the backup is tried before the primary file.           *)
BackupFirst ==
    IF Valid("backup") THEN "backup"
    ELSE IF Valid("primary") THEN "primary"
    ELSE IF Valid("temporary") THEN "temporary"
    ELSE "none"

(* load_snapshot: the first candidate that parses wins.                     *)
Loaded ==
    IF Valid("primary") THEN "primary"
    ELSE IF Valid("temporary") THEN "temporary"
    ELSE IF Valid("backup") THEN "backup"
    ELSE "none"

Rank == [primary |-> 1, temporary |-> 2, backup |-> 3, none |-> 4]

(* Mutant of InvalidCandidates: the candidate that parsed is listed too.    *)
ReadCandidates ==
    { c \in Candidates : Rank[c] <= Rank[Loaded] /\ Exists(c)
                          /\ \E d \in Candidates : disk[d].kind = "torn" /\ Rank[d] < Rank[Loaded] }

InvalidCandidates ==
    { c \in Candidates : Rank[c] < Rank[Loaded] /\ Exists(c) }

Recovered == Loaded # "primary" /\ \E c \in Candidates : Exists(c)

(* The queue a restart would find.                                          *)
Recoverable == IF Loaded = "none" THEN <<>> ELSE disk[Loaded].reports

(* What retain can leave of s when it drops at least one report.            *)
Remainders(s) ==
    UNION { { [i \in 1 .. n |-> s[f[i]]] :
                f \in { g \in [1 .. n -> 1 .. Len(s)] :
                          \A i, j \in 1 .. n : i < j => g[i] < g[j] } } :
            n \in 0 .. Len(s) - 1 }

-----------------------------------------------------------------------------
Init ==
    /\ reports = <<>>
    /\ undo = <<>>
    /\ operation = "open"
    /\ pc = "down"
    /\ invalid = {}
    /\ disk = [c \in Candidates |-> Absent]
    /\ issued = 0
    /\ corruptions = 0
    /\ committed = <<>>
    /\ previous = <<>>
    /\ attempts = {}
    /\ accepted = {}
    /\ removing = {}
    /\ settled = {}

(* Entry to persist with the queue q.                                       *)
BeginPersist(op, q, restore) ==
    /\ reports' = q
    /\ undo' = restore
    /\ operation' = op
    /\ pc' = "create"
    /\ attempts' = attempts \union {q}

Closed ==
    /\ reports' = <<>>
    /\ undo' = <<>>
    /\ operation' = "open"
    /\ pc' = "down"
    /\ invalid' = {}

(* ReportSpool::open, up to its first write.                                *)
Open ==
    /\ pc = "down"
    /\ Len(Recoverable) <= Capacity
    /\ reports' = Recoverable
    /\ undo' = <<>>
    /\ operation' = "open"
    /\ invalid' = InvalidCandidates
    /\ pc' = IF InvalidCandidates # {} THEN "quarantine"
             ELSE IF Recovered THEN "create" ELSE "idle"
    /\ attempts' = IF Recovered THEN attempts \union {Recoverable} ELSE attempts
    /\ UNCHANGED <<disk, issued, corruptions, committed, previous,
                   accepted, removing, settled>>

(* quarantine_corrupted_snapshots: one rename out of the way.               *)
Quarantine ==
    /\ pc = "quarantine"
    /\ \E c \in invalid :
         /\ \A d \in invalid : Rank[c] <= Rank[d]
         /\ disk' = [disk EXCEPT ![c] = Absent]
         /\ invalid' = invalid \ {c}
         /\ IF invalid = {c}
            THEN BeginPersist("open", reports, <<>>)
            ELSE UNCHANGED <<reports, undo, operation, pc, attempts>>
    /\ UNCHANGED <<issued, corruptions, committed, previous,
                   accepted, removing, settled>>

Enqueue ==
    /\ pc = "idle"
    /\ issued < MaxReports
    /\ Len(reports) < Capacity
    /\ issued' = issued + 1
    /\ BeginPersist("enqueue", Append(reports, issued'), <<>>)
    /\ UNCHANGED <<invalid, disk, corruptions, committed, previous,
                   accepted, removing, settled>>

(* acknowledge: its callers pass the id of the report at the front.         *)
Acknowledge ==
    /\ pc = "idle"
    /\ reports # <<>>
    /\ BeginPersist("acknowledge", Tail(reports), <<Head(reports)>>)
    /\ removing' = removing \union {Head(reports)}
    /\ UNCHANGED <<invalid, disk, issued, corruptions, committed, previous,
                   accepted, settled>>

DiscardBefore ==
    /\ pc = "idle"
    /\ \E kept \in Remainders(reports) :
         /\ BeginPersist("discard", kept, reports)
         /\ removing' = removing \union (ToSet(reports) \ ToSet(kept))
    /\ UNCHANGED <<invalid, disk, issued, corruptions, committed, previous,
                   accepted, settled>>

-----------------------------------------------------------------------------
(* persist, file operation by file operation.                               *)
Advance(from, to) ==
    /\ pc = from
    /\ pc' = to
    /\ UNCHANGED <<reports, undo, operation, invalid, issued, corruptions, history>>

CreateTemporary ==
    /\ Advance("create", "write")
    /\ disk' = [disk EXCEPT !["temporary"] = Torn]

WriteTemporary ==
    /\ Advance("write", "backup")
    /\ disk' = [disk EXCEPT !["temporary"] = Snapshot(reports)]

(* Mutant of SkipBackup: the backup may be left out.                        *)
NeverBackUp ==
    /\ Advance("backup", "install")
    /\ UNCHANGED disk

SkipBackup ==
    /\ ~Exists("primary")
    /\ Advance("backup", "install")
    /\ UNCHANGED disk

BeginBackup ==
    /\ Exists("primary")
    /\ Advance("backup", "copy")
    /\ disk' = [disk EXCEPT !["backup"] = Torn]

FinishBackup ==
    /\ Advance("copy", IF Windows THEN "remove" ELSE "install")
    /\ disk' = [disk EXCEPT !["backup"] = disk["primary"]]

RemovePrimary ==
    /\ Advance("remove", "install")
    /\ disk' = [disk EXCEPT !["primary"] = Absent]

(* The rename that makes the new snapshot the primary file; the operation   *)
(* that called persist returns Ok.                                          *)
Install ==
    /\ pc = "install"
    /\ pc' = "idle"
    /\ undo' = <<>>
    /\ disk' = [disk EXCEPT !["primary"] = disk["temporary"],
                            !["temporary"] = Absent]
    /\ previous' = committed
    /\ committed' = reports
    /\ attempts' = {}
    /\ accepted' = IF operation = "enqueue"
                   THEN accepted \union {Last(reports)} ELSE accepted
    /\ settled' = CASE operation = "acknowledge" -> settled \union ToSet(undo)
                    [] operation = "discard" ->
                         settled \union (ToSet(undo) \ ToSet(reports))
                    [] OTHER -> settled
    /\ UNCHANGED <<reports, operation, invalid, issued, corruptions, removing>>

(* Mutant of RolledBack: the report goes to the back of the queue.          *)
PushedBack ==
    CASE operation = "enqueue" -> Front(reports)
      [] operation = "acknowledge" -> reports \o undo
      [] operation = "discard" -> undo

(* Mutant of RolledBack: the oldest report is dropped for the newest.       *)
OldestDropped ==
    CASE operation = "enqueue" -> Tail(reports)
      [] operation = "acknowledge" -> undo \o reports
      [] operation = "discard" -> undo

(* What the callers of persist make of the queue when it returns an error.  *)
RolledBack ==
    CASE operation = "enqueue" -> Front(reports)
      [] operation = "acknowledge" -> undo \o reports
      [] operation = "discard" -> undo

Persisting == {"create", "write", "backup", "copy", "remove", "install"}

(* A file operation of persist fails.  A failed write leaves the temporary  *)
(* file short or complete, a failed copy leaves the backup short.           *)
PersistFails ==
    /\ pc \in Persisting
    /\ \/ UNCHANGED disk
       \/ pc = "write" /\ disk' = [disk EXCEPT !["temporary"] = Snapshot(reports)]
    /\ IF operation = "open"
       THEN Closed
       ELSE /\ reports' = RolledBack
            /\ undo' = <<>>
            /\ pc' = "idle"
            /\ UNCHANGED <<operation, invalid>>
    /\ UNCHANGED <<issued, corruptions, history>>

(* The process dies, the worker gives the spool up after an error, or a     *)
(* quarantine fails and open returns the error.                             *)
Crash ==
    /\ pc # "down"
    /\ Closed
    /\ UNCHANGED <<disk, issued, corruptions, history>>

(* The primary file is found damaged by the next start.  The damage is      *)
(* supposed to strike a store at rest: closed, with no failed change since  *)
(* the last commit.                                                         *)
Corrupt ==
    /\ pc = "down"
    /\ attempts = {}
    /\ corruptions < MaxCorruptions
    /\ Exists("primary")
    /\ corruptions' = corruptions + 1
    /\ disk' = [disk EXCEPT !["primary"] = Torn]
    /\ UNCHANGED <<memory, issued, history>>

Next ==
    \/ Open
    \/ Quarantine
    \/ Enqueue
    \/ Acknowledge
    \/ DiscardBefore
    \/ CreateTemporary
    \/ WriteTemporary
    \/ SkipBackup
    \/ BeginBackup
    \/ FinishBackup
    \/ RemovePrimary
    \/ Install
    \/ PersistFails
    \/ Crash
    \/ Corrupt

Spec == Init /\ [][Next]_vars

-----------------------------------------------------------------------------
(* The queue of reports is always a queue of reports, and so is every       *)
(* snapshot on disk.                                                        *)
TypeOK ==
    /\ reports \in Seq(Report)
    /\ undo \in Seq(Report)
    /\ operation \in {"open", "enqueue", "acknowledge", "discard"}
    /\ pc \in {"down", "quarantine", "idle"} \union Persisting
    /\ invalid \in SUBSET Candidates
    /\ disk \in [Candidates -> File]
    /\ issued \in 0 .. MaxReports
    /\ corruptions \in Nat
    /\ committed \in Seq(Report)
    /\ previous \in Seq(Report)
    /\ attempts \in SUBSET Seq(Report)
    /\ accepted \in SUBSET Report
    /\ removing \in SUBSET Report
    /\ settled \in SUBSET Report

(* Whatever file operation was the last one before the process died, the    *)
(* next ReportSpool::open loads the last committed queue or a queue that    *)
(* was being written since: never an older one, a mixture or nothing.       *)
RestartFindsQueue ==
    corruptions = 0 => Recoverable \in attempts \union {committed}

(* "refusing to drop an unacknowledged event": a report whose enqueue       *)
(* returned Ok is found by a restart until somebody asks for its removal.   *)
NoAcceptedReportLost ==
    corruptions = 0 => (accepted \ removing) \subseteq ToSet(Recoverable)

(* Once acknowledge or discard_before has returned Ok no restart brings the *)
(* report back, from the temporary file or from the backup.                 *)
SettledStaysGone ==
    corruptions = 0 => settled \intersect ToSet(Recoverable) = {}

(* Reports are delivered in the order in which they were created, and once  *)
(* each: no restart and no rolled-back operation reorders or repeats them.  *)
InOrder ==
    /\ \A i, j \in 1 .. Len(Recoverable) :
         i < j => Recoverable[i] < Recoverable[j]
    /\ \A i, j \in 1 .. Len(reports) : i < j => reports[i] < reports[j]

(* ReportSpool::open never refuses a file the spool wrote itself for having *)
(* more reports than its capacity.                                          *)
RestartAccepted == Len(Recoverable) <= Capacity

(* Between calls the queue in memory is the one on disk: an operation that  *)
(* returned an error has undone its change.                                 *)
MemoryIsCommitted == corruptions = 0 /\ pc = "idle" => reports = committed

(* A damaged primary file costs at most the last committed operation: the   *)
(* backup holds the queue of one commit earlier, also while it is being     *)
(* restored.  (A second damage may find no backup: persist makes none when  *)
(* the primary file is out of the way in quarantine.)                       *)
OneCommitBack ==
    corruptions <= 1 => Recoverable \in attempts \union {committed, previous}

(* What the spool has committed is the queue, what it has in memory the     *)
(* view of it.                                                              *)
Durable == INSTANCE DurableQueue WITH
    Reports <- Report,
    queue <- committed,
    view <- reports,
    up <- pc # "down"

(* Until a file is damaged at rest the spool is the crash-safe queue of     *)
(* DurableQueue.                                                            *)
IsDurableQueue ==
    Durable!Init /\ [][corruptions' > 0 \/ Durable!Next]_Durable!vars
=============================================================================
