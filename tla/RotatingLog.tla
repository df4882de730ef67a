---------------------------- MODULE RotatingLog ----------------------------
(***************************************************************************)
(* RotatingLogWriter of src/diagnostics.rs: the journal file and its       *)
(* rotated predecessors.  Every file operation may fail, and the error is  *)
(* ignored by Diagnostics::write; the process may die between any two.     *)
(*                                                                         *)
(* File 0 is collector.log, file k is collector.k.log.  A file is the      *)
(* sequence of the lines in it; what a failed write left behind is a line  *)
(* with the number 0.                                                      *)
(***************************************************************************)
EXTENDS Integers, SequencesExt

CONSTANTS
    MaxBytes,       \* MAX_LOG_FILE_BYTES
    Retained,       \* RETAINED_LOG_FILES
    Sizes,          \* the bytes a line may take, its end of line included
    MaxLines,       \* bound: lines written
    MaxFailures     \* bound: file operations that fail

ASSUME RotatingLogAssumption ==
    /\ {MaxBytes, Retained} \subseteq Nat \ {0}
    /\ Sizes \subseteq Nat \ {0}
    /\ {MaxLines, MaxFailures} \subseteq Nat

VARIABLES
    files,      \* the files that exist
    pc,         \* the next file operation; "idle", "closed", "off" or "panicked"
    index,      \* the file the loop of rotate_log_files is at
    open,       \* RotatingLogWriter.file is Some
    counted,    \* RotatingLogWriter.bytes_written
    line,       \* bytes of the line being written; 0 while the writer is opened
    written,    \* lines given to write_line so far
    failures,   \* file operations that failed so far
    newest,     \* history: the last line that write_line returned Ok for
    fruitless   \* history: rotations that failed since

vars == <<files, pc, index, open, counted, line, written, failures, newest, fruitless>>

-----------------------------------------------------------------------------
Index == 0 .. Retained

Exists(k) == k \in DOMAIN files

Total(s) == FoldLeft(LAMBDA sum, l : sum + l.bytes, 0, s)

Bytes(k) == IF Exists(k) THEN Total(files[k]) ELSE 0

Without(k) == [j \in DOMAIN files \ {k} |-> files[j]]

With(k, content) ==
    [j \in DOMAIN files \union {k} |-> IF j = k THEN content ELSE files[j]]

Renamed(from, to) ==
    [j \in (DOMAIN files \ {from}) \union {to} |-> files[IF j = to THEN from ELSE j]]

Init ==
    /\ files = [j \in {} |-> <<>>]
    /\ pc = "closed"
    /\ index = 0
    /\ open = FALSE
    /\ counted = 0
    /\ line = 0
    /\ written = 0
    /\ failures = 0
    /\ newest = 0
    /\ fruitless = 0

(* RotatingLogWriter::open, once in the life of the process.                *)
Open ==
    /\ pc = "closed"
    /\ line' = 0
    /\ pc' = IF Bytes(0) >= MaxBytes THEN "oldest" ELSE "create"
    /\ UNCHANGED <<files, index, open, counted, written, failures, newest, fruitless>>

(* write_line, up to its first file operation.                              *)
WriteLine ==
    \E n \in Sizes :
        /\ pc = "idle"
        /\ written < MaxLines
        /\ written' = written + 1
        /\ line' = n
        /\ IF counted > 0 /\ counted + n > MaxBytes
           THEN pc' = "oldest" /\ open' = FALSE
           ELSE pc' = "write" /\ UNCHANGED open
        /\ UNCHANGED <<files, index, counted, failures, newest, fruitless>>

(* Mutant of RemoveOldest: the file before the oldest is removed.           *)
RemoveYoungest ==
    /\ pc = "oldest"
    /\ files' = Without(1)
    /\ pc' = "shift"
    /\ index' = Retained - 1
    /\ UNCHANGED <<open, counted, line, written, failures, newest, fruitless>>

(* rotate_log_files.                                                        *)
RemoveOldest ==
    /\ pc = "oldest"
    /\ files' = Without(Retained)
    /\ pc' = "shift"
    /\ index' = Retained - 1
    /\ UNCHANGED <<open, counted, line, written, failures, newest, fruitless>>

(* Mutant of Shift: no file is moved but the journal, to a name that is free. *)
ShiftToFree ==
    /\ pc = "shift"
    /\ files' = IF index = 0 /\ Exists(0)
                THEN Renamed(0, IF Exists(1) THEN Retained ELSE 1) ELSE files
    /\ pc' = IF index = 0 THEN "create" ELSE "shift"
    /\ index' = IF index = 0 THEN 0 ELSE index - 1
    /\ UNCHANGED <<open, counted, line, written, failures, newest, fruitless>>

Shift ==
    /\ pc = "shift"
    /\ files' = IF Exists(index) THEN Renamed(index, index + 1) ELSE files
    /\ pc' = IF index = 0 THEN "create" ELSE "shift"
    /\ index' = IF index = 0 THEN 0 ELSE index - 1
    /\ UNCHANGED <<open, counted, line, written, failures, newest, fruitless>>

(* The journal is opened: to append when the writer is, empty by rotate.    *)
Create ==
    /\ pc = "create"
    /\ open' = TRUE
    /\ files' = IF Exists(0) /\ line = 0 THEN files ELSE With(0, <<>>)
    /\ counted' = IF line = 0 THEN Bytes(0) ELSE 0
    /\ pc' = IF line = 0 THEN "idle" ELSE "write"
    /\ UNCHANGED <<index, line, written, failures, newest, fruitless>>

Write ==
    /\ pc = "write"
    /\ open
    /\ files' = With(0, Append(files[0], [id |-> written, bytes |-> line]))
    /\ counted' = counted + line
    /\ newest' = written
    /\ fruitless' = 0
    /\ pc' = "idle"
    /\ UNCHANGED <<index, open, line, written, failures>>

(* expect finds no open file.  The panic hook logs the panic, which takes   *)
(* the mutex that the panicking thread holds already.                       *)
Panic ==
    /\ pc = "write"
    /\ ~open
    /\ pc' = "panicked"
    /\ UNCHANGED <<files, index, open, counted, line, written, failures, newest, fruitless>>

Fails ==
    /\ failures < MaxFailures
    /\ failures' = failures + 1

(* A failed write leaves some of the line, and nothing is counted.          *)
WriteFails ==
    /\ pc = "write"
    /\ open
    /\ Fails
    /\ \E n \in 0 .. line :
         files' = IF n = 0 THEN files
                  ELSE With(0, Append(files[0], [id |-> 0, bytes |-> n]))
    /\ pc' = "idle"
    /\ UNCHANGED <<index, open, counted, line, written, newest, fruitless>>

Rotating == {"oldest", "shift", "create"}

(* An operation of rotate fails: the journal stays closed.  If it was one   *)
(* of RotatingLogWriter::open, the process runs without a journal.          *)
RotateFails ==
    /\ pc \in Rotating
    /\ Fails
    /\ fruitless' = fruitless + 1
    /\ pc' = IF line = 0 THEN "off" ELSE "idle"
    /\ UNCHANGED <<files, index, open, counted, line, written, newest>>

Crash ==
    /\ pc # "closed"
    /\ Fails
    /\ pc' = "closed"
    /\ open' = FALSE
    /\ counted' = 0
    /\ fruitless' = fruitless + 1
    /\ UNCHANGED <<files, index, line, written, newest>>

Next ==
    \/ Open \/ WriteLine \/ RemoveOldest \/ Shift \/ Create \/ Write \/ Panic
    \/ WriteFails \/ RotateFails \/ Crash

Spec == Init /\ [][Next]_vars

-----------------------------------------------------------------------------
(* There is never a file beyond the retained ones, and the writer is in one *)
(* of its steps.                                                            *)
TypeOK ==
    /\ DOMAIN files \subseteq Index
    /\ pc \in {"closed", "idle", "write", "off", "panicked"} \union Rotating
    /\ index \in Index
    /\ open \in BOOLEAN
    /\ {counted, line, written, failures, newest, fruitless} \subseteq Nat

(* Read from the oldest file to the journal, the whole lines are in the     *)
(* order in which they were logged, also after rotations that failed or     *)
(* were cut short half-way.                                                 *)
InOrder ==
    \A j, k \in DOMAIN files :
        \A m \in DOMAIN files[j], n \in DOMAIN files[k] :
            /\ files[j][m].id > 0 /\ files[k][n].id > 0
            /\ j > k \/ (j = k /\ m < n)
            => files[j][m].id < files[k][n].id

(* The last logged line is in one of the files: a rotation that fails costs *)
(* at most one file, so it takes as many as are retained to lose it.        *)
NewestKept ==
    newest > 0 /\ fruitless < Retained =>
        \E k \in DOMAIN files : \E n \in DOMAIN files[k] : files[k][n].id = newest

(* "rotating log writer must keep an open file", src/diagnostics.rs:507.    *)
KeepsOpenFile == pc = "write" => open
=============================================================================
