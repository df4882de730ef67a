------------------------------- MODULE LogTail -------------------------------
(***************************************************************************)
(* The game's log and the collector that follows it: LogTailer and         *)
(* scan_existing_log_lines of src/cristalix/tailer.rs, called by           *)
(* ensure_log_tailer and read_log of src/application.rs, and the worker's  *)
(* inspection of the processes, refresh_process_state_if_due, which        *)
(* decides whether it follows the right log.  The game writes, truncates   *)
(* and replaces its logs between any two operations on a file.             *)
(*                                                                         *)
(* A file is a sequence of pieces of text.  A line is written as one piece *)
(* or as two; a piece shows the kind of its line or does not, and one that *)
(* ends the line carries the newline.  With it goes, as a history, the     *)
(* mode of somebody who has followed the file from its start.  Files are   *)
(* numbered, 0 is none, and an identity is the number of a file: the       *)
(* tailer holds its file open, so that no other file takes the identity    *)
(* over.  What the worker does with the connection, the spool and the      *)
(* pings is in Delivery.                                                   *)
(***************************************************************************)
EXTENDS LogParser, Discovery

CONSTANTS
    LineKinds,      \* the kinds of line in the log
    MaxLines,       \* bound: lines written
    MaxFiles,       \* bound: files, at one place after the other or at several
    MaxChanges,     \* bound: truncations, changes of the processes, choices
    HalfKinds,      \* the kinds of line that may be written in two pieces
    Regrows,        \* a truncated log may reach its old size before it is polled
    Fresh,          \* what log_updated_within may say of a log that is scanned
    EventsAnywhere, \* the game prints activity lines outside Master Sword
    LateSources     \* a better log may appear while another one is followed

ASSUME LogTailAssumption ==
    /\ LineKinds \subseteq Kinds
    /\ HalfKinds \subseteq LineKinds
    /\ {MaxLines, MaxFiles, MaxChanges} \subseteq Nat
    /\ Fresh \subseteq BOOLEAN
    /\ {Regrows, EventsAnywhere, LateSources} \subseteq BOOLEAN

VARIABLES
    files,       \* the contents of every file there was
    at,          \* the file at the log's path of every place
    created,     \* files created so far
    lines,       \* lines begun so far
    changes,     \* truncations, changes of the processes and choices so far
    preference,  \* the file cristalix-log-path: the place the user has chosen
    pc,          \* the worker's next step, or "dead"
    tailer,      \* there is a tailer
    place,       \* LogTailer.path, of the tailer or of the one being opened
    identity,    \* LogTailer.identity
    handle,      \* LogTailer.file
    offset,      \* LogTailer.offset
    pending,     \* LogTailer.pending
    scanning,    \* the file that is scanned for context
    scanned,     \* how much of it has been read
    context,     \* the mode of the parser that is being rebuilt
    mode,        \* the mode of the worker's parser
    confirmed,   \* session_confirmed
    seen,        \* process_running and process_log_candidates
    reported,    \* history: the event lines reported
    historical,  \* history: lines complete when their file was opened, unreported
    since,       \* history: what the file held when its scan ended
    truncated,   \* history: the open file was truncated and not polled since
    stopped      \* history: the game was seen to stop, and nothing of it since

game == <<files, at, created, lines, changes, preference>>
source == <<place, identity, handle, offset, pending>>
scan == <<scanning, scanned, context>>
parser == <<mode, confirmed>>
history == <<reported, historical, since, truncated, stopped>>
vars == <<game, pc, tailer, source, scan, parser, seen, history>>

-----------------------------------------------------------------------------
(* The pieces of a file and the lines they make up.                         *)
Piece(line, kind, shows, ends, live) ==
    [line |-> line, kind |-> kind, shows |-> shows, ends |-> ends, live |-> live]

Unfinished(text) == text # <<>> /\ ~Last(text).ends

(* The kind the parser takes a line for that is made of these pieces.       *)
KindOf(text) ==
    LET showing == {i \in DOMAIN text : text[i].shows}
    IN  IF showing = {} THEN "other" ELSE text[Min(showing)].kind

Ends(text) == {i \in DOMAIN text : text[i].ends}

Finished(text) == {text[i].line : i \in Ends(text)}

(* The mode of somebody who has followed a text from its start.             *)
ModeAt(text, i) == IF i = 0 THEN "unknown" ELSE text[i].live
ModeAtEnd(file) == ModeAt(files[file], Len(files[file]))

Logs == {p \in Places : at[p] # 0}

(* What discover_latest_log would find now.                                 *)
Choice == Discover(preference, seen.candidates, Logs)

(* The log at the tailer's place is the user's or, as long as a process     *)
(* that runs names a log, named by one that runs.                           *)
Relevant ==
    IF preference \in Logs THEN place = preference
    ELSE seen.candidates \intersect Logs # {} => place \in seen.candidates

(* Nothing better turns up while the tailer follows a log.                  *)
Timely == LateSources \/ (~tailer /\ pc = "tick") \/ Relevant'

Taken(snapshot) == [running |-> snapshot.running, candidates |-> snapshot.candidates]

(* The first tick inspects the processes before it does anything else.      *)
Init ==
    /\ files = [f \in 1 .. MaxFiles |-> <<>>]
    /\ at = [p \in Places |-> 0]
    /\ created = 0
    /\ lines = 0
    /\ changes = 0
    /\ preference = None
    /\ pc = "tick"
    /\ tailer = FALSE
    /\ place = None
    /\ identity = 0
    /\ handle = 0
    /\ offset = 0
    /\ pending = <<>>
    /\ scanning = 0
    /\ scanned = 0
    /\ context = "unknown"
    /\ mode = "unknown"
    /\ confirmed = FALSE
    /\ \E snapshot \in Snapshots : seen = Taken(snapshot)
    /\ reported = <<>>
    /\ historical = {}
    /\ since = 0
    /\ truncated = FALSE
    /\ stopped = FALSE

-----------------------------------------------------------------------------
(* The game.                                                                *)
Worker == <<pc, tailer, source, scan, parser, seen>>

Changes == changes < MaxChanges /\ changes' = changes + 1

Appends(file, piece) ==
    /\ files' = [files EXCEPT ![file] = Append(@, piece)]
    /\ truncated /\ handle = file /\ ~Regrows => Len(files[file]) + 1 < offset
    /\ stopped' = FALSE
    /\ UNCHANGED <<at, created, changes, preference, Worker, reported, historical, since,
                   truncated>>

(* One game runs at a time: the log that was created last grows.            *)
Begins(file, kind) ==
    /\ file = created
    /\ ~Unfinished(files[file])
    /\ kind \in Activity =>
         EventsAnywhere \/ LiveMode(ModeAtEnd(file), kind) = "master_sword"
    /\ lines < MaxLines
    /\ lines' = lines + 1

WriteLine ==
    \E p \in Logs, kind \in LineKinds :
        /\ Begins(at[p], kind)
        /\ Appends(at[p], Piece(<<p, lines + 1>>, kind, TRUE, TRUE,
                                LiveMode(ModeAtEnd(at[p]), kind)))

WriteHalf ==
    /\ \E p \in Logs, kind \in HalfKinds, shows \in BOOLEAN :
        /\ Begins(at[p], kind)
        /\ Appends(at[p], Piece(<<p, lines + 1>>, kind, shows, FALSE, ModeAtEnd(at[p])))

FinishLine ==
    /\ \E p \in Logs :
        /\ Unfinished(files[at[p]])
        /\ LET head == Last(files[at[p]])
           IN  Appends(at[p], Piece(head.line, head.kind, ~head.shows, TRUE,
                                    LiveMode(head.live, head.kind)))
    /\ UNCHANGED lines

MoveLog ==
    /\ \E p \in Logs : at' = [at EXCEPT ![p] = 0]
    /\ UNCHANGED <<files, created, lines, changes, preference, Worker, history>>

CreateLog ==
    /\ created < MaxFiles
    /\ created' = created + 1
    /\ \E p \in Places \ Logs : at' = [at EXCEPT ![p] = created + 1]
    /\ stopped' = FALSE
    /\ UNCHANGED <<files, lines, changes, preference, Worker, reported, historical, since,
                   truncated>>
    /\ Timely

TruncateLog ==
    /\ Changes
    /\ \E p \in Logs :
        LET file == at[p]
        IN  /\ files[file] # <<>>
            /\ handle = file /\ pc # "seek" /\ ~Regrows => offset > 0
            /\ files' = [files EXCEPT ![file] = <<>>]
            /\ truncated' = (truncated \/ (handle = file /\ offset > 0))
    /\ UNCHANGED <<at, created, lines, preference, Worker, reported, historical, since,
                   stopped>>

(* The user chooses a log there is, or returns to the search; the worker is *)
(* not told.                                                                *)
ChooseLog ==
    /\ Changes
    /\ preference' \in (Logs \union {None}) \ {preference}
    /\ UNCHANGED <<files, at, created, lines, Worker, history>>
    /\ Timely

-----------------------------------------------------------------------------
(* Opening a file at its end, for a new tailer or to reopen one.            *)
Goto(step) == pc' = step

FindLog ==
    /\ pc = "tick"
    /\ ~tailer
    /\ Choice # None
    /\ place' = Choice
    /\ Goto("identify")
    /\ UNCHANGED <<game, tailer, identity, handle, offset, pending, scan, parser, seen,
                   history>>

(* The parser starts afresh and the source is looked for again.             *)
DropSource ==
    /\ tailer' = FALSE
    /\ place' = None
    /\ identity' = 0
    /\ handle' = 0
    /\ offset' = 0
    /\ pending' = <<>>
    /\ mode' = "unknown"
    /\ confirmed' = FALSE
    /\ truncated' = FALSE
    /\ UNCHANGED <<scan, reported, historical, since>>

Polls == pc = "poll" \/ (pc = "tick" /\ tailer)

(* The log is not where it was: a tailer that reads gives it up; an error   *)
(* of ensure_log_tailer ends CollectorApplication::run.                     *)
LogGone ==
    /\ pc \in {"identify", "open"} \/ Polls
    /\ place \notin Logs
    /\ Goto(IF tailer THEN "tick" ELSE "dead")
    /\ DropSource
    /\ UNCHANGED <<game, seen, stopped>>

Identify ==
    /\ pc = "identify"
    /\ place \in Logs
    /\ identity' = at[place]
    /\ Goto("open")
    /\ UNCHANGED <<game, tailer, place, handle, offset, pending, scan, parser, seen, history>>

Open ==
    /\ pc = "open"
    /\ place \in Logs
    /\ handle' = at[place]
    /\ Goto("seek")
    /\ UNCHANGED <<game, tailer, place, identity, offset, pending, scan, parser, seen, history>>

(* Mutant of SeekEnd: the file is read from its start.                      *)
SeekStart ==
    /\ pc = "seek"
    /\ offset' = 0
    /\ pending' = <<>>
    /\ historical' = historical \union (Finished(files[handle]) \ ToSet(reported))
    /\ truncated' = FALSE
    /\ Goto("scan_open")
    /\ UNCHANGED <<game, tailer, place, identity, handle, scan, parser, seen, reported, since,
                   stopped>>

SeekEnd ==
    /\ pc = "seek"
    /\ offset' = Len(files[handle])
    /\ pending' = <<>>
    /\ historical' = historical \union (Finished(files[handle]) \ ToSet(reported))
    /\ truncated' = FALSE
    /\ Goto("scan_open")
    /\ UNCHANGED <<game, tailer, place, identity, handle, scan, parser, seen, reported, since,
                   stopped>>

-----------------------------------------------------------------------------
(* bootstrap_parser_from_log: the context of what the path holds.           *)
ScanOpen ==
    /\ pc = "scan_open"
    /\ place \in Logs
    /\ scanning' = at[place]
    /\ scanned' = 0
    /\ context' = "unknown"
    /\ Goto("scan")
    /\ UNCHANGED <<game, tailer, source, parser, seen, history>>

ScanFails ==
    /\ pc = "scan_open"
    /\ place \notin Logs
    /\ Goto("dead")
    /\ DropSource
    /\ UNCHANGED <<game, seen, stopped>>

(* read_until: up to the next newline, or to what is the end at present.    *)
ScanLine ==
    /\ pc = "scan"
    /\ scanned < Len(files[scanning])
    /\ LET text == files[scanning]
           next == Min({i \in Ends(text) : i > scanned} \union {Len(text)})
       IN  /\ context' = ContextMode(context, KindOf(SubSeq(text, scanned + 1, next)))
           /\ scanned' = next
    /\ UNCHANGED <<game, pc, tailer, source, scanning, parser, seen, history>>

(* Mutant of ScanEnds: the parser that took the context is not installed.   *)
ScanForgets ==
    /\ pc = "scan"
    /\ scanned >= Len(files[scanning])
    /\ confirmed' \in Fresh
    /\ tailer' = TRUE
    /\ scanning' = 0
    /\ scanned' = 0
    /\ context' = "unknown"
    /\ since' = Len(files[scanning])
    /\ Goto(IF tailer THEN "tick" ELSE "poll")
    /\ UNCHANGED <<game, mode, source, seen, reported, historical, truncated,
                   stopped>>

(* A log that was written to within a minute confirms the session.          *)
ScanEnds ==
    /\ pc = "scan"
    /\ scanned >= Len(files[scanning])
    /\ mode' = context
    /\ confirmed' \in Fresh
    /\ tailer' = TRUE
    /\ scanning' = 0
    /\ scanned' = 0
    /\ context' = "unknown"
    /\ since' = Len(files[scanning])
    /\ Goto(IF tailer THEN "tick" ELSE "poll")
    /\ UNCHANGED <<game, source, seen, reported, historical, truncated,
                   stopped>>

-----------------------------------------------------------------------------
(* read_new_lines and the rest of read_log.                                 *)
CheckIdentity ==
    /\ Polls
    /\ place \in Logs
    /\ Goto(IF at[place] = identity THEN "size" ELSE "identify")
    /\ UNCHANGED <<game, tailer, source, scan, parser, seen, history>>

CheckSize ==
    /\ pc = "size"
    /\ Goto(IF Len(files[handle]) < offset THEN "identify" ELSE "read")
    /\ UNCHANGED <<game, tailer, source, scan, parser, seen, history>>

(* The text between two polls: take_complete_lines leaves what no newline   *)
(* ends.                                                                    *)
ReadNew ==
    /\ pc = "read"
    /\ LET text == pending \o SubSeq(files[handle], offset + 1, Len(files[handle]))
           complete == Ends(text) # {}
       IN  /\ offset' = Max({offset, Len(files[handle])})
           /\ pending' = text
           /\ confirmed' = (confirmed \/ complete)
           /\ stopped' = (stopped /\ ~complete)
           /\ Goto(IF complete THEN "consume" ELSE "tick")
    /\ UNCHANGED <<game, tailer, place, identity, handle, scan, mode, seen, reported,
                   historical, since, truncated>>

(* One line through the parser and on to the spool.                         *)
ConsumeLine ==
    /\ pc = "consume"
    /\ LET end  == Min(Ends(pending))
           kind == KindOf(SubSeq(pending, 1, end))
           rest == SubSeq(pending, end + 1, Len(pending))
       IN  /\ pending' = rest
           /\ mode' = LiveMode(mode, kind)
           /\ reported' = IF IsEvent(mode, kind) THEN Append(reported, pending[end].line)
                          ELSE reported
           /\ Goto(IF Ends(rest) # {} THEN "consume" ELSE "tick")
    /\ UNCHANGED <<game, tailer, place, identity, handle, offset, scan, confirmed, seen,
                   historical, since, truncated, stopped>>

-----------------------------------------------------------------------------
(* refresh_process_state_if_due.  Between two inspections any processes may *)
(* start and end.                                                           *)
StrongStop(snapshot) == seen.running /\ ~snapshot.running /\ ~snapshot.java

Elsewhere(snapshot) ==
    /\ tailer
    /\ snapshot.candidates \notin {seen.candidates, {}}
    /\ place \notin snapshot.candidates

RefreshProcessState ==
    /\ pc = "tick"
    /\ Changes
    /\ \E snapshot \in Snapshots :
        /\ seen' = Taken(snapshot)
        /\ seen' # seen
        /\ IF StrongStop(snapshot) \/ Elsewhere(snapshot) THEN DropSource
           ELSE UNCHANGED <<tailer, source, scan, parser, reported, historical, since,
                            truncated>>
        /\ stopped' = (StrongStop(snapshot) \/ (stopped /\ ~snapshot.running))
    /\ UNCHANGED <<files, at, created, lines, preference, pc>>

Game ==
    \/ WriteLine \/ WriteHalf \/ FinishLine \/ MoveLog \/ CreateLog \/ TruncateLog
    \/ ChooseLog

Follow ==
    \/ FindLog \/ LogGone \/ Identify \/ Open \/ SeekEnd
    \/ ScanOpen \/ ScanFails \/ ScanLine \/ ScanEnds
    \/ CheckIdentity \/ CheckSize \/ ReadNew \/ ConsumeLine

Next == Game \/ Follow \/ RefreshProcessState

Spec == Init /\ [][Next]_vars

(* The worker's ticks and the operations they await go on.                  *)
FairSpec == Spec /\ WF_vars(Follow)

-----------------------------------------------------------------------------
TypeOK ==
    /\ at \in [Places -> 0 .. MaxFiles]
    /\ {identity, handle, scanning} \subseteq 0 .. MaxFiles
    /\ {place, preference} \subseteq Places \union {None}
    /\ seen.running \in BOOLEAN /\ seen.candidates \subseteq Places
    /\ lines \in 0 .. MaxLines
    /\ pc \in {"tick", "identify", "open", "seek", "scan_open", "scan", "poll", "size",
               "read", "consume", "dead"}
    /\ {mode, context} \subseteq Modes
    /\ pc \notin {"tick", "dead"} => place # None
    /\ pc \in {"seek", "scan_open", "scan", "poll", "size", "read", "consume"} => handle # 0
    /\ tailer => identity # 0 /\ handle # 0
    /\ \A f \in 1 .. MaxFiles : \A i \in DOMAIN files[f] : files[f][i].line \in Places \X (1 .. lines)
    /\ pc = "consume" <=> Ends(pending) # {}

(* The tailer is in step with the log at its place.                         *)
CaughtUp ==
    /\ tailer
    /\ identity = at[place]
    /\ handle = identity
    /\ offset = Len(files[handle])
    /\ ~truncated

(* Events are reported once each and in the order of a log, across polls,   *)
(* reopened and rediscovered files.                                         *)
ReportedInOrder ==
    \A i, j \in DOMAIN reported :
        i < j /\ reported[i][1] = reported[j][1] => reported[i][2] < reported[j][2]

(* "reconstructs parser context without replaying stale historical events   *)
(* as fresh activity": what was complete in a file when it was opened is    *)
(* not reported.                                                            *)
NoReplay == \A i \in DOMAIN reported : reported[i] \notin historical

(* What is reported is fresh, once, and in the order of the log.            *)
ReportedOnce == ReportedInOrder /\ NoReplay

(* The lines an open file gained after its context was read are all         *)
(* reported, once they are read, if they are events.                        *)
NothingMissed ==
    pc = "tick" /\ CaughtUp =>
        \A i \in (since + 1) .. Len(files[handle]) :
            files[handle][i].kind = "event" /\ files[handle][i].ends
            /\ (i > since + 1 \/ files[handle][i].shows)
                => files[handle][i].line \in ToSet(reported)

(* In step with a log that ends in a complete line, the parser has the mode *)
(* of one that has followed it from its first line, although it has taken   *)
(* lines as context and some of them twice.                                 *)
ModeConverges ==
    pc = "tick" /\ CaughtUp /\ ~Unfinished(files[handle]) => mode = ModeAtEnd(handle)

(* Once the game lets it, the worker gets in step with a log, and with the  *)
(* one of the game that runs.                                               *)
Follows == <>[]((CaughtUp /\ Relevant) \/ Choice = None \/ pc = "dead")

(* "Observing --> Paused: session / mode lost": once the game's processes   *)
(* have gone and no Java is left, the worker does not observe again before  *)
(* a process or the log shows a sign of life.                               *)
StoppedIsPaused == stopped => ~(confirmed /\ mode = "master_sword")
=============================================================================
