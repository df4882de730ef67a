---------------------------- MODULE LogTailProofs ----------------------------
(***************************************************************************)
(* What the follower of the log guarantees for any number of places, files *)
(* and lines, whatever is written, truncated, moved and replaced between   *)
(* any two of its operations.                                              *)
(*                                                                         *)
(* The invariant first says how files are made up of lines (TextInv) and   *)
(* how the files at one place follow each other (FileInv).  From it comes  *)
(* that what is still to be read lies behind everything that was reported  *)
(* (UnreadInv), and, as long as the file was neither replaced nor          *)
(* truncated, how the mode of the parser relates to that of somebody who   *)
(* has read the file from its start (TailInv).                             *)
(***************************************************************************)
EXTENDS LogTail, SequenceTheorems, WellFoundedInduction, TLAPS

Lines == Places \X (1 .. MaxLines)

Pieces == [line : Lines, kind : Kinds, shows : BOOLEAN, ends : BOOLEAN, live : Modes]

Typed ==
    /\ files \in [1 .. MaxFiles -> Seq(Pieces)]
    /\ at \in [Places -> 0 .. MaxFiles]
    /\ created \in 0 .. MaxFiles /\ lines \in 0 .. MaxLines
    /\ {identity, handle, scanning} \subseteq 0 .. MaxFiles
    /\ {place, preference} \subseteq Places \union {None}
    /\ seen.running \in BOOLEAN /\ seen.candidates \subseteq Places
    /\ pc \in {"tick", "identify", "open", "seek", "scan_open", "scan", "poll", "size",
               "read", "consume", "dead"}
    /\ tailer \in BOOLEAN /\ truncated \in BOOLEAN
    /\ {mode, context} \subseteq Modes
    /\ offset \in Nat /\ scanned \in Nat /\ since \in Nat
    /\ pending \in Seq(Pieces)
    /\ reported \in Seq(Lines)
    /\ historical \subseteq Lines

(* A tailer, and what is being opened for one, has a file and a place; a    *)
(* complete line is only held while the lines of a poll are consumed.       *)
ControlInv ==
    /\ pc \notin {"tick", "dead"} => place # None
    /\ tailer => place # None
    /\ pc \in {"seek", "scan_open", "scan", "poll", "size", "read", "consume"} => handle # 0
    /\ pc \in {"open", "seek", "scan_open", "scan", "poll", "size", "read", "consume"}
         => identity # 0
    /\ tailer => identity # 0 /\ handle # 0
    /\ pc \in {"poll", "size", "read", "consume"} => tailer
    /\ pc = "scan" => scanning # 0
    /\ Ends(pending) # {} <=> pc = "consume"

(* Lines are numbered as they are begun.                                    *)
NumbersInv ==
    /\ \A f \in 1 .. MaxFiles : \A i \in DOMAIN files[f] : files[f][i].line[2] <= lines
    /\ \A i \in DOMAIN pending : pending[i].line[2] <= lines
    /\ \A k \in DOMAIN reported : reported[k][2] <= lines
    /\ \A line \in historical : line[2] <= lines

(* How the piece i of a text goes with the one before it.                   *)
Fits(text, i) ==
    /\ text[i].live = IF text[i].ends THEN LiveMode(ModeAt(text, i - 1), text[i].kind)
                      ELSE ModeAt(text, i - 1)
    /\ text[i].kind \in Activity /\ ~EventsAnywhere
         => LiveMode(ModeAt(text, i - 1), text[i].kind) = "master_sword"
    /\ i = 1 \/ text[i - 1].ends => (text[i].ends => text[i].shows)
    /\ i # 1 /\ ~text[i - 1].ends =>
         /\ text[i].ends /\ text[i].line = text[i - 1].line
         /\ text[i].kind = text[i - 1].kind /\ text[i].shows # text[i - 1].shows

Sorted(text) ==
    \A i, j \in DOMAIN text : i < j /\ text[i].ends => text[i].line[2] < text[j].line[2]

TextInv ==
    \A f \in 1 .. MaxFiles :
        (\A i \in DOMAIN files[f] : Fits(files[f], i)) /\ Sorted(files[f])

(* Lines go to the newest file, and the log of a place is its newest file.  *)
FileInv ==
    /\ \A f, g \in 1 .. MaxFiles : f < g =>
         \A i \in DOMAIN files[f], j \in DOMAIN files[g] :
             files[f][i].line[2] < files[g][j].line[2]
    /\ \A f \in 1 .. MaxFiles : f > created => files[f] = <<>>
    /\ \A p \in Logs : \A i \in DOMAIN files[at[p]] : files[at[p]][i].line[1] = p
    /\ \A p \in Logs : \A f \in 1 .. MaxFiles : \A i \in DOMAIN files[f] :
         files[f][i].line[1] = p => f <= at[p]
    /\ \A p \in Places : at[p] <= created
    /\ \A p, q \in Logs : at[p] = at[q] => p = q
    /\ handle <= created

(* The tailer follows a file, or its context is being read.                 *)
Reading == pc \in {"poll", "size", "read", "consume"} \/ (pc = "tick" /\ tailer)
Opened == pc \in {"scan_open", "scan"} \/ Reading

(* The line that is being written to the log of a place comes after what    *)
(* has been reported and what has been read of it.                          *)
UnfinishedInv ==
    \A p \in Logs : Unfinished(files[at[p]]) =>
        /\ Last(files[at[p]]).line \notin historical
        /\ \A k \in DOMAIN reported :
             reported[k][1] = p => reported[k][2] < Last(files[at[p]]).line[2]
        /\ Opened /\ at[p] = handle =>
             \A i \in Ends(pending) : pending[i].line[2] < Last(files[at[p]]).line[2]

(* A line that may still be reported.                                       *)
Unread(line) ==
    /\ line \notin historical
    /\ \A k \in DOMAIN reported : reported[k][1] = line[1] => reported[k][2] < line[2]

PendingUnread == \A i \in Ends(pending) : Unread(pending[i].line)
RestUnread ==
    \A i \in DOMAIN files[handle] :
        i > offset /\ files[handle][i].ends => Unread(files[handle][i].line)
PendingSorted ==
    \A i, j \in Ends(pending) : i < j => pending[i].line[2] < pending[j].line[2]
PendingFirst ==
    \A i \in Ends(pending), j \in DOMAIN files[handle] :
        j > offset => pending[i].line[2] < files[handle][j].line[2]
PendingOlder ==
    \A i \in DOMAIN pending : \A g \in 1 .. MaxFiles : g > handle =>
        \A j \in DOMAIN files[g] : pending[i].line[2] < files[g][j].line[2]
PendingPlace ==
    \A i \in DOMAIN pending : \A p \in Logs : pending[i].line[1] = p => handle <= at[p]

UnreadInv ==
    Opened =>
        /\ PendingUnread /\ RestUnread /\ PendingSorted
        /\ PendingFirst /\ PendingOlder /\ PendingPlace

ReportInv ==
    /\ Typed /\ ControlInv /\ NumbersInv
    /\ TextInv /\ FileInv
    /\ UnfinishedInv /\ UnreadInv
    /\ ReportedOnce

-----------------------------------------------------------------------------
LEMMA Limits ==
    /\ MaxFiles \in Nat /\ MaxLines \in Nat /\ Places \subseteq Nat /\ None \notin Places
    /\ LineKinds \subseteq Kinds /\ HalfKinds \subseteq LineKinds
  BY LogTailAssumption, DiscoveryAssumption

LEMMA LeastOf ==
    ASSUME NEW S \in SUBSET Nat, S # {}
    PROVE  Min(S) \in S /\ \A x \in S : Min(S) <= x
<1>1. PICK n \in S : \A m \in S : ~ (<<m, n>> \in OpToRel(<, Nat))
  BY WFMin, NatLessThanWellFounded
<1>2. \A m \in S : ~ (m < n)
  BY <1>1 DEF OpToRel
<1>3. n \in Nat /\ S \subseteq Nat
  OBVIOUS
<1>4. \A m \in S : n <= m
  BY <1>2, <1>3
<1> QED
  BY <1>4 DEF Min

LEMMA KindOfType ==
    ASSUME NEW text \in Seq(Pieces)
    PROVE  KindOf(text) \in Kinds
<1> DEFINE showing == {i \in DOMAIN text : text[i].shows}
<1>1. showing \subseteq Nat /\ showing \subseteq DOMAIN text
  OBVIOUS
<1>2. CASE showing = {}
  BY <1>2 DEF KindOf, Kinds
<1>3. CASE showing # {}
  <2>1. Min(showing) \in DOMAIN text
    BY <1>1, <1>3, LeastOf
  <2>2. text[Min(showing)] \in Pieces
    BY <2>1, ElementOfSeq, LenProperties
  <2>3. KindOf(text) = text[Min(showing)].kind
    BY <1>3 DEF KindOf
  <2> QED
    BY <2>2, <2>3 DEF Pieces
<1> QED
  BY <1>2, <1>3

LEMMA UpdateModeIs ==
    ASSUME NEW m, NEW kind
    PROVE  /\ kind = "reborn" => UpdateMode(m, kind) = "master_sword"
           /\ kind = "lobby" => UpdateMode(m, kind) = "lobby"
           /\ kind = "unload" => UpdateMode(m, kind) = "other"
           /\ kind \notin ModeKinds => UpdateMode(m, kind) = m
  BY DEF UpdateMode, ModeKinds

LEMMA ModeTypes ==
    ASSUME NEW m \in Modes, NEW kind \in Kinds
    PROVE  LiveMode(m, kind) \in Modes /\ ContextMode(m, kind) \in Modes
  BY UpdateModeIs DEF LiveMode, ContextMode, Modes, ModeKinds

LEMMA ModeAtType ==
    ASSUME NEW text \in Seq(Pieces), NEW i \in 0 .. Len(text)
    PROVE  ModeAt(text, i) \in Modes
<1>1. i # 0 => text[i] \in Pieces
  OBVIOUS
<1> QED
  BY <1>1 DEF ModeAt, Modes, Pieces

LEMMA SnapshotTypes ==
    \A snapshot \in Snapshots :
        Taken(snapshot).running \in BOOLEAN /\ Taken(snapshot).candidates \subseteq Places
<1> SUFFICES ASSUME NEW table \in SUBSET Programs
             PROVE  Taken(Inspect(table)).running \in BOOLEAN
                    /\ Taken(Inspect(table)).candidates \subseteq Places
  BY DEF Snapshots
<1>1. \A p \in table : CandidatesOf(p) \subseteq Places
  BY DiscoveryAssumption DEF CandidatesOf
<1> QED
  BY <1>1 DEF Taken, Inspect

LEMMA DiscoverType ==
    ASSUME NEW user, NEW candidates, NEW logs, logs \subseteq Places
    PROVE  Discover(user, candidates, logs) \in Places \union {None}
<1> DEFINE known == {i \in DOMAIN KnownPlaces : KnownPlaces[i] \in logs}
<1>1. Places \subseteq Nat /\ known \subseteq Nat
  BY DiscoveryAssumption
<1>2. candidates \intersect logs # {} => Min(candidates \intersect logs) \in Places
  BY <1>1, LeastOf
<1>3. known # {} => KnownPlaces[Min(known)] \in Places
  BY <1>1, LeastOf
<1> QED
  BY <1>2, <1>3 DEF Discover

(* What is left of a file after the offset, behind what was left of the     *)
(* last poll.                                                               *)
Polled == pending \o SubSeq(files[handle], offset + 1, Len(files[handle]))

LEMMA PolledText ==
    ASSUME Typed, handle # 0
    PROVE  /\ Polled \in Seq(Pieces)
           /\ Len(Polled) = Len(pending)
                + (IF offset < Len(files[handle]) THEN Len(files[handle]) - offset ELSE 0)
           /\ \A i \in 1 .. Len(pending) : Polled[i] = pending[i]
           /\ \A i \in Len(pending) + 1 .. Len(Polled) :
                /\ offset + (i - Len(pending)) \in offset + 1 .. Len(files[handle])
                /\ Polled[i] = files[handle][offset + (i - Len(pending))]
<1> DEFINE T == files[handle]
           new == SubSeq(T, offset + 1, Len(T))
<1>1. T \in Seq(Pieces) /\ offset \in Nat /\ pending \in Seq(Pieces) /\ Len(T) \in Nat
  BY DEF Typed
<1>2. \A i \in offset + 1 .. Len(T) : T[i] \in Pieces
  BY <1>1
<1>3. /\ new \in Seq(Pieces)
      /\ Len(new) = IF offset < Len(T) THEN Len(T) - offset ELSE 0
      /\ \A i \in 1 .. Len(new) : new[i] = T[offset + i] /\ offset + i \in offset + 1 .. Len(T)
  <2> HIDE DEF T
  <2>1. /\ new \in Seq(Pieces)
        /\ Len(new) = IF offset + 1 <= Len(T) THEN Len(T) - (offset + 1) + 1 ELSE 0
        /\ \A i \in 1 .. Len(T) - (offset + 1) + 1 : new[i] = T[offset + 1 + i - 1]
    <3>1. offset + 1 \in Int /\ Len(T) \in Int
      BY <1>1
    <3> QED
      BY <1>2, <3>1, SubSeqProperties
  <2>2. Len(new) = IF offset < Len(T) THEN Len(T) - offset ELSE 0
    BY <1>1, <2>1
  <2>3. ASSUME NEW i \in 1 .. Len(new)
        PROVE  new[i] = T[offset + i] /\ offset + i \in offset + 1 .. Len(T)
    <3> HIDE DEF new
    <3>1. i \in 1 .. Len(T) - (offset + 1) + 1 /\ offset + 1 + i - 1 = offset + i
          /\ offset + i \in offset + 1 .. Len(T)
      BY <1>1, <2>2
    <3> QED
      BY <2>1, <3>1
  <2> QED
    BY <2>1, <2>2, <2>3
<1> HIDE DEF new, T
<1>4. /\ pending \o new \in Seq(Pieces)
      /\ Len(pending \o new) = Len(pending) + Len(new)
      /\ \A i \in 1 .. Len(pending) + Len(new) :
           (pending \o new)[i] = IF i <= Len(pending) THEN pending[i]
                                 ELSE new[i - Len(pending)]
  BY <1>1, <1>3, ConcatProperties
<1>5. Polled = pending \o new
  BY DEF Polled, new, T
<1>6. Len(pending) \in Nat /\ Len(new) \in Nat
  BY <1>1, <1>3
<1>7. \A i \in Len(pending) + 1 .. Len(Polled) :
        i - Len(pending) \in 1 .. Len(new) /\ Polled[i] = new[i - Len(pending)]
  BY <1>4, <1>5, <1>6
<1>8. \A i \in 1 .. Len(pending) : Polled[i] = pending[i]
  BY <1>4, <1>5, <1>6
<1> QED
  BY <1>3, <1>4, <1>5, <1>7, <1>8 DEF T

(* A line taken from the front.                                             *)
LEMMA FirstLine ==
    ASSUME Typed, Ends(pending) # {}
    PROVE  LET end == Min(Ends(pending))
               rest == SubSeq(pending, end + 1, Len(pending))
           IN  /\ end \in Ends(pending) /\ end \in 1 .. Len(pending)
               /\ \A i \in Ends(pending) : end <= i
               /\ rest \in Seq(Pieces) /\ Len(rest) = Len(pending) - end
               /\ \A i \in 1 .. Len(rest) :
                    rest[i] = pending[end + i] /\ end + i \in 1 .. Len(pending)
<1> DEFINE end == Min(Ends(pending))
           rest == SubSeq(pending, end + 1, Len(pending))
<1>1. pending \in Seq(Pieces) /\ Len(pending) \in Nat /\ Ends(pending) \subseteq Nat
      /\ Ends(pending) \subseteq 1 .. Len(pending)
  BY DEF Typed, Ends
<1>2. end \in Ends(pending) /\ \A i \in Ends(pending) : end <= i
  BY <1>1, LeastOf
<1>3. end \in 1 .. Len(pending)
  BY <1>1, <1>2
<1> HIDE DEF end
<1>4. \A i \in end + 1 .. Len(pending) : pending[i] \in Pieces
  BY <1>1, <1>3
<1>5. /\ rest \in Seq(Pieces) /\ Len(rest) = Len(pending) - end
      /\ \A i \in 1 .. Len(rest) : rest[i] = pending[end + i] /\ end + i \in 1 .. Len(pending)
  BY <1>1, <1>3, <1>4, SubSeqProperties
<1> QED
  BY <1>2, <1>3, <1>5 DEF end
-----------------------------------------------------------------------------
(* What the steps do to the files and to what was read of them.             *)

LEMMA AppendIs ==
    ASSUME NEW text \in Seq(Pieces), NEW piece \in Pieces
    PROVE  /\ Append(text, piece) \in Seq(Pieces)
           /\ Len(text) \in Nat /\ Len(Append(text, piece)) = Len(text) + 1
           /\ DOMAIN text = 1 .. Len(text)
           /\ DOMAIN Append(text, piece) = 1 .. Len(text) + 1
           /\ \A i \in 1 .. Len(text) : Append(text, piece)[i] = text[i]
           /\ Append(text, piece)[Len(text) + 1] = piece
           /\ text # <<>> <=> Len(text) > 0
           /\ text # <<>> => Last(text) = text[Len(text)] /\ Last(text) \in Pieces
           /\ Last(Append(text, piece)) = piece
  BY AppendProperties, LenProperties, ElementOfSeq, EmptySeq DEF Last

(* A piece is written to the log of the place p: the first one of a new     *)
(* line, which goes to the newest file, or the second one of the line that  *)
(* was begun last.                                                          *)
Written(p, piece) ==
    /\ files' = [files EXCEPT ![at[p]] = Append(@, piece)]
    /\ piece.live = IF piece.ends THEN LiveMode(ModeAtEnd(at[p]), piece.kind)
                    ELSE ModeAtEnd(at[p])
    /\ piece.kind \in Activity /\ ~EventsAnywhere
         => LiveMode(ModeAtEnd(at[p]), piece.kind) = "master_sword"
    /\ lines' \in 0 .. MaxLines
    /\ UNCHANGED <<at, created, preference, Worker, reported, historical, since, truncated>>

NewLine(p, piece) ==
    /\ ~Unfinished(files[at[p]])
    /\ at[p] = created
    /\ piece.line = <<p, lines + 1>>
    /\ lines' = lines + 1
    /\ piece.ends => piece.shows

LineTail(p, piece) ==
    /\ Unfinished(files[at[p]])
    /\ piece.line = Last(files[at[p]]).line
    /\ piece.kind = Last(files[at[p]]).kind
    /\ piece.shows # Last(files[at[p]]).shows
    /\ piece.ends
    /\ lines' = lines

Grows(p, piece) == Written(p, piece) /\ (NewLine(p, piece) \/ LineTail(p, piece))

LEMMA FileTypes ==
    ASSUME Typed
    PROVE  /\ \A p \in Logs : p \in Places /\ at[p] \in 1 .. MaxFiles
                              /\ files[at[p]] \in Seq(Pieces)
           /\ \A f \in 1 .. MaxFiles : files[f] \in Seq(Pieces) /\ Len(files[f]) \in Nat
                                       /\ DOMAIN files[f] = 1 .. Len(files[f])
           /\ \A f \in 1 .. MaxFiles : \A i \in DOMAIN files[f] : files[f][i] \in Pieces
           /\ handle # 0 => handle \in 1 .. MaxFiles
  BY Limits, LenProperties, ElementOfSeq DEF Typed, Logs

LEMMA WrittenIs ==
    ASSUME Typed, NEW p \in Logs, NEW piece \in Pieces, Written(p, piece)
    PROVE  /\ files' \in [1 .. MaxFiles -> Seq(Pieces)]
           /\ files'[at[p]] = Append(files[at[p]], piece)
           /\ \A f \in 1 .. MaxFiles : f # at[p] => files'[f] = files[f]
           /\ Logs' = Logs
<1>1. at[p] \in 1 .. MaxFiles /\ files[at[p]] \in Seq(Pieces)
  BY FileTypes
<1>2. Append(files[at[p]], piece) \in Seq(Pieces)
  BY <1>1, AppendIs
<1> QED
  BY <1>1, <1>2 DEF Typed, Written, Logs

LEMMA WriteSteps ==
    ASSUME Typed, TextInv, WriteLine \/ WriteHalf \/ FinishLine
    PROVE  \E p \in Logs, piece \in Pieces : Grows(p, piece)
<1> USE Limits
<1>1. \A p \in Logs : ModeAtEnd(at[p]) \in Modes
  BY FileTypes, ModeAtType, LenProperties DEF ModeAtEnd
<1>2. CASE WriteLine
  <2>1. PICK p \in Logs, kind \in LineKinds :
          /\ Begins(at[p], kind)
          /\ Appends(at[p], Piece(<<p, lines + 1>>, kind, TRUE, TRUE,
                                  LiveMode(ModeAtEnd(at[p]), kind)))
    BY <1>2 DEF WriteLine
  <2> DEFINE piece == Piece(<<p, lines + 1>>, kind, TRUE, TRUE,
                            LiveMode(ModeAtEnd(at[p]), kind))
  <2>2. piece \in Pieces
    <3>1. kind \in Kinds /\ ModeAtEnd(at[p]) \in Modes /\ <<p, lines + 1>> \in Lines
      BY <1>1, <2>1 DEF Lines, Begins, Typed, Logs
    <3> QED
      BY <3>1, ModeTypes DEF Piece, Pieces
  <2>3. Written(p, piece)
    BY <2>1 DEF Written, Piece, Begins, Appends, Typed
  <2>4. NewLine(p, piece)
    BY <2>1 DEF NewLine, Piece, Begins
  <2> QED
    BY <2>2, <2>3, <2>4 DEF Grows
<1>3. CASE WriteHalf
  <2>1. PICK p \in Logs, kind \in HalfKinds, shows \in BOOLEAN :
          /\ Begins(at[p], kind)
          /\ Appends(at[p], Piece(<<p, lines + 1>>, kind, shows, FALSE, ModeAtEnd(at[p])))
    BY <1>3 DEF WriteHalf
  <2> DEFINE piece == Piece(<<p, lines + 1>>, kind, shows, FALSE, ModeAtEnd(at[p]))
  <2>2. piece \in Pieces
    <3>1. kind \in Kinds /\ ModeAtEnd(at[p]) \in Modes /\ <<p, lines + 1>> \in Lines
      BY <1>1, <2>1 DEF Lines, Begins, Typed, Logs
    <3> QED
      BY <3>1 DEF Piece, Pieces
  <2>3. Written(p, piece)
    BY <2>1 DEF Written, Piece, Begins, Appends, Typed
  <2>4. NewLine(p, piece)
    BY <2>1 DEF NewLine, Piece, Begins
  <2> QED
    BY <2>2, <2>3, <2>4 DEF Grows
<1>4. CASE FinishLine
  <2> DEFINE head(p) == Last(files[at[p]])
  <2>1. PICK p \in Logs :
          /\ Unfinished(files[at[p]])
          /\ Appends(at[p], Piece(head(p).line, head(p).kind, ~head(p).shows, TRUE,
                                  LiveMode(head(p).live, head(p).kind)))
          /\ UNCHANGED lines
    BY <1>4 DEF FinishLine
  <2> DEFINE T == files[at[p]]
             piece == Piece(head(p).line, head(p).kind, ~head(p).shows, TRUE,
                            LiveMode(head(p).live, head(p).kind))
  <2>2. T \in Seq(Pieces) /\ T # <<>> /\ ~head(p).ends
    BY <2>1, FileTypes DEF Unfinished
  <2>3. Len(T) \in DOMAIN T /\ head(p) = T[Len(T)] /\ head(p) \in Pieces /\ Len(T) # 0
    BY <2>2, LenProperties, ElementOfSeq, EmptySeq DEF Last
  <2>4. Fits(T, Len(T)) /\ ModeAtEnd(at[p]) = head(p).live
    BY <2>3, FileTypes DEF TextInv, ModeAtEnd, ModeAt
  <2>5. head(p).live = ModeAt(T, Len(T) - 1)
    BY <2>2, <2>3, <2>4 DEF Fits
  <2>6. head(p).kind \in Activity /\ ~EventsAnywhere
          => LiveMode(head(p).live, head(p).kind) = "master_sword"
    BY <2>3, <2>4, <2>5 DEF Fits
  <2>7. piece \in Pieces
    BY <2>3, ModeTypes DEF Piece, Pieces
  <2>8. Written(p, piece)
    BY <2>1, <2>4, <2>6 DEF Written, Piece, Appends, Typed
  <2>9. LineTail(p, piece)
    BY <2>1 DEF LineTail, Piece
  <2> QED
    BY <2>7, <2>8, <2>9 DEF Grows
<1> QED
  BY <1>2, <1>3, <1>4

(* What was read stays as it is.                                            *)
Idle ==
    /\ UNCHANGED <<files, at, created, lines, handle, offset, pending, reported, historical>>
    /\ Opened' => Opened

(* The tailer gives up its file, or takes up another one.                   *)
Closes ==
    /\ UNCHANGED <<files, at, created, lines, reported, historical>>
    /\ ~Opened'
    /\ handle' = 0 \/ \E p \in Logs : handle' = at[p]
    /\ pending' \in {pending, <<>>}

LEMMA WorkerSteps ==
    ASSUME Typed, ControlInv, [ChooseLog \/ Follow \/ RefreshProcessState]_vars
    PROVE  Idle \/ Closes \/ SeekEnd \/ ReadNew \/ ConsumeLine
<1> USE DEF Idle, Closes, Opened, Reading, Goto, game, source, scan, parser, history, Worker
<1>1. CASE UNCHANGED vars
  BY <1>1 DEF vars
<1>2. CASE ChooseLog
  BY <1>2 DEF ChooseLog
<1>3. CASE FindLog
  BY <1>3 DEF FindLog
<1>4. CASE LogGone
  BY <1>4 DEF LogGone, DropSource
<1>5. CASE Identify
  BY <1>5 DEF Identify
<1>6. CASE Open
  BY <1>6 DEF Open
<1>7. CASE ScanOpen
  BY <1>7 DEF ScanOpen
<1>8. CASE ScanFails
  BY <1>8 DEF ScanFails, DropSource
<1>9. CASE ScanLine
  BY <1>9 DEF ScanLine
<1>10. CASE ScanEnds
  BY <1>10 DEF ScanEnds
<1>11. CASE CheckIdentity
  BY <1>11 DEF CheckIdentity, Polls, ControlInv
<1>12. CASE CheckSize
  BY <1>12 DEF CheckSize
<1>13. CASE RefreshProcessState
  BY <1>13 DEF RefreshProcessState, DropSource
<1> QED
  BY <1>1, <1>2, <1>3, <1>4, <1>5, <1>6, <1>7, <1>8, <1>9, <1>10, <1>11, <1>12, <1>13
     DEF Follow
-----------------------------------------------------------------------------
(* Types, and what the worker holds at each of its steps.                   *)

LEMMA ReadTypes ==
    ASSUME Typed, handle # 0, ReadNew
    PROVE  offset' \in Nat /\ pending' \in Seq(Pieces) /\ pending' = Polled
<1>1. Len(files[handle]) \in Nat /\ offset \in Nat
  BY FileTypes DEF Typed
<1>2. offset' = Max({offset, Len(files[handle])}) /\ pending' = Polled
  BY DEF ReadNew, Polled
<1>3. Max({offset, Len(files[handle])}) \in {offset, Len(files[handle])}
  <2>1. \E x \in {offset, Len(files[handle])} :
          \A y \in {offset, Len(files[handle])} : x >= y
    BY <1>1
  <2> QED
    BY <2>1 DEF Max
<1> QED
  BY <1>1, <1>2, <1>3, PolledText

LEMMA EndsPrimed == Ends(pending)' = Ends(pending')
  BY DEF Ends

LEMMA NoEnds == Ends(<<>>) = {}
  BY DEF Ends

LEMMA ConsumeTypes ==
    ASSUME Typed, ControlInv, ConsumeLine
    PROVE  /\ pending' \in Seq(Pieces) /\ mode' \in Modes /\ reported' \in Seq(Lines)
           /\ Ends(pending') # {} <=> pc' = "consume"
           /\ pc' \in {"consume", "tick"}
<1> DEFINE end  == Min(Ends(pending))
           kind == KindOf(SubSeq(pending, 1, end))
<1>1. /\ pending' = SubSeq(pending, end + 1, Len(pending))
      /\ mode' = LiveMode(mode, kind)
      /\ reported' = IF IsEvent(mode, kind) THEN Append(reported, pending[end].line)
                     ELSE reported
      /\ pc' = IF Ends(pending') # {} THEN "consume" ELSE "tick"
  BY DEF ConsumeLine, Goto
<1>2. Ends(pending) # {}
  BY DEF ConsumeLine, ControlInv
<1>3. /\ end \in 1 .. Len(pending)
      /\ pending' \in Seq(Pieces)
  BY <1>1, <1>2, FirstLine
<1>4. /\ pending \in Seq(Pieces) /\ reported \in Seq(Lines) /\ mode \in Modes
      /\ Len(pending) \in Nat
  BY DEF Typed
<1> HIDE DEF end
<1>5. SubSeq(pending, 1, end) \in Seq(Pieces)
  <2>1. \A i \in 1 .. end : pending[i] \in Pieces
    BY <1>3, <1>4
  <2> QED
    BY <1>3, <2>1, SubSeqProperties
<1>6. KindOf(SubSeq(pending, 1, end)) \in Kinds
  BY <1>5, KindOfType
<1>7. pending[end].line \in Lines
  <2>1. pending[end] \in Pieces
    BY <1>3, <1>4
  <2> QED
    BY <2>1 DEF Pieces
<1> QED
  BY <1>1, <1>3, <1>4, <1>6, <1>7, ModeTypes, AppendProperties

LEMMA ScanTypes ==
    ASSUME Typed, ControlInv, ScanLine
    PROVE  /\ scanned' \in Nat /\ context' \in Modes
           /\ scanning \in 1 .. MaxFiles
           /\ scanned' \in scanned + 1 .. Len(files[scanning])
<1> DEFINE T == files[scanning]
           S == {i \in Ends(T) : i > scanned} \union {Len(T)}
           next == Min(S)
<1>1. scanning \in 1 .. MaxFiles /\ T \in Seq(Pieces) /\ Len(T) \in Nat /\ scanned \in Nat
      /\ scanned < Len(T) /\ context \in Modes /\ DOMAIN T = 1 .. Len(T)
  BY Limits, FileTypes DEF ScanLine, ControlInv, Typed
<1>2. S \subseteq scanned + 1 .. Len(T) /\ S # {} /\ S \subseteq Nat
  BY <1>1 DEF Ends
<1>3. next \in scanned + 1 .. Len(T)
  BY <1>2, LeastOf
<1>4. context' = ContextMode(context, KindOf(SubSeq(T, scanned + 1, next)))
      /\ scanned' = next
  BY DEF ScanLine
<1> HIDE DEF next
<1>5. SubSeq(T, scanned + 1, next) \in Seq(Pieces)
  <2>1. \A i \in scanned + 1 .. next : T[i] \in Pieces
    BY <1>1, <1>3
  <2>2. scanned + 1 \in Int /\ next \in Int
    BY <1>1, <1>3
  <2> QED
    BY <2>1, <2>2, SubSeqProperties
<1>6. KindOf(SubSeq(T, scanned + 1, next)) \in Kinds
  BY <1>5, KindOfType
<1>7. context' \in Modes
  BY <1>1, <1>4, <1>6, ModeTypes
<1>8. scanned' \in scanned + 1 .. Len(T) /\ scanned' \in Nat
  <2> HIDE DEF T
  <2> QED
    BY <1>1, <1>3, <1>4
<1> QED
  BY <1>1, <1>7, <1>8

LEMMA DropTypes ==
    ASSUME DropSource, Typed
    PROVE  /\ {identity', handle', scanning'} \subseteq 0 .. MaxFiles
           /\ place' \in Places \union {None}
           /\ tailer' \in BOOLEAN /\ truncated' \in BOOLEAN
           /\ {mode', context'} \subseteq Modes
           /\ offset' \in Nat /\ scanned' \in Nat /\ since' \in Nat
           /\ pending' \in Seq(Pieces)
           /\ reported' \in Seq(Lines) /\ historical' \subseteq Lines
<1>1. UNCHANGED <<scanning, scanned, context, reported, historical, since>>
  BY DEF DropSource, scan
<1>2. /\ tailer' = FALSE /\ place' = None /\ identity' = 0 /\ handle' = 0 /\ offset' = 0
      /\ pending' = <<>> /\ mode' = "unknown" /\ truncated' = FALSE
  BY DEF DropSource
<1>3. pending' \in Seq(Pieces)
  BY <1>2
<1>4. /\ scanning \in 0 .. MaxFiles /\ context \in Modes
      /\ scanned \in Nat /\ since \in Nat
      /\ reported \in Seq(Lines) /\ historical \subseteq Lines
  BY DEF Typed
<1>5. {identity', handle', scanning'} \subseteq 0 .. MaxFiles
  BY <1>1, <1>2, <1>4, Limits
<1>6. mode' \in Modes /\ context' \in Modes
  BY <1>1, <1>2, <1>4 DEF Modes
<1> QED
  BY <1>1, <1>2, <1>3, <1>4, <1>5, <1>6

LEMMA TypedStep ==
    ASSUME Typed, ControlInv, TextInv, [Next]_vars
    PROVE  Typed'
<1> USE Limits DEF game, source, scan, parser, history, Goto
<1>1. CASE WriteLine \/ WriteHalf \/ FinishLine
  <2>1. PICK p \in Logs, piece \in Pieces : Grows(p, piece)
    BY <1>1, WriteSteps
  <2> QED
    BY <2>1, WrittenIs DEF Grows, Written, Typed, Worker
<1>2. CASE MoveLog
  <2>1. PICK p \in Logs : at' = [at EXCEPT ![p] = 0]
    BY <1>2 DEF MoveLog
  <2>2. at \in [Places -> 0 .. MaxFiles] /\ 0 \in 0 .. MaxFiles
    BY DEF Typed
  <2>3. at' \in [Places -> 0 .. MaxFiles]
    BY <2>1, <2>2
  <2> QED
    BY <1>2, <2>3 DEF MoveLog, Typed, Worker
<1>3. CASE CreateLog
  BY <1>3 DEF CreateLog, Typed, Worker
<1>4. CASE TruncateLog
  <2>1. PICK p \in Logs : /\ files' = [files EXCEPT ![at[p]] = <<>>]
                          /\ truncated' = (truncated \/ (handle = at[p] /\ offset > 0))
    BY <1>4 DEF TruncateLog
  <2>2. files' \in [1 .. MaxFiles -> Seq(Pieces)]
    BY <2>1, EmptySeq DEF Typed
  <2> QED
    BY <1>4, <2>1, <2>2 DEF TruncateLog, Typed, Worker
<1>5. CASE ChooseLog
  BY <1>5 DEF ChooseLog, Typed, Worker, Logs
<1>6. CASE FindLog
  <2>1. Choice \in Places \union {None}
    BY DiscoverType DEF Choice, Logs
  <2> QED
    BY <1>6, <2>1 DEF FindLog, Typed
<1>7. CASE LogGone \/ ScanFails
  <2>1. /\ DropSource /\ pc' \in {"tick", "dead"}
        /\ UNCHANGED <<files, at, created, lines, preference, seen>>
    BY <1>7 DEF LogGone, ScanFails
  <2> QED
    BY <2>1, DropTypes DEF Typed
<1>8. CASE Identify \/ Open
  BY <1>8 DEF Identify, Open, Typed, Logs
<1>9. CASE SeekEnd
  <2>1. handle \in 1 .. MaxFiles
    BY <1>9, FileTypes DEF SeekEnd, ControlInv
  <2>2. Finished(files[handle]) \subseteq Lines
    BY <2>1, FileTypes DEF Finished, Ends, Pieces
  <2> QED
    BY <1>9, <2>1, <2>2, FileTypes, EmptySeq DEF SeekEnd, Typed
<1>10. CASE ScanOpen
  BY <1>10 DEF ScanOpen, Typed, Logs, Modes
<1>11. CASE ScanLine
  BY <1>11, ScanTypes DEF ScanLine, Typed
<1>12. CASE ScanEnds
  <2>1. scanning \in 1 .. MaxFiles
    BY <1>12 DEF ScanEnds, ControlInv, Typed
  <2>2. Len(files[scanning]) \in Nat /\ "unknown" \in Modes
    BY <2>1, FileTypes DEF Modes
  <2> QED
    BY <1>12, <2>2 DEF ScanEnds, Typed
<1>13. CASE CheckIdentity \/ CheckSize
  BY <1>13 DEF CheckIdentity, CheckSize, Typed
<1>14. CASE ReadNew
  <2>1. offset' \in Nat /\ pending' \in Seq(Pieces)
    BY <1>14, ReadTypes DEF ReadNew, ControlInv
  <2> QED
    BY <1>14, <2>1 DEF ReadNew, Typed
<1>15. CASE ConsumeLine
  BY <1>15, ConsumeTypes DEF ConsumeLine, Typed
<1>16. CASE RefreshProcessState
  <2>1. PICK snapshot \in Snapshots :
          /\ seen' = Taken(snapshot)
          /\ IF StrongStop(snapshot) \/ Elsewhere(snapshot) THEN DropSource
             ELSE UNCHANGED <<tailer, source, scan, parser, reported, historical, since,
                              truncated>>
    BY <1>16 DEF RefreshProcessState
  <2>2. seen'.running \in BOOLEAN /\ seen'.candidates \subseteq Places
    BY <2>1, SnapshotTypes
  <2>3. UNCHANGED <<files, at, created, lines, preference, pc>>
    BY <1>16 DEF RefreshProcessState
  <2>4. CASE DropSource
    BY <2>2, <2>3, <2>4, DropTypes DEF Typed
  <2>5. CASE UNCHANGED <<tailer, source, scan, parser, reported, historical, since, truncated>>
    BY <2>2, <2>3, <2>5 DEF Typed
  <2> QED
    BY <2>1, <2>4, <2>5
<1>17. CASE UNCHANGED vars
  BY <1>17 DEF vars, Typed
<1> QED
  BY <1>1, <1>2, <1>3, <1>4, <1>5, <1>6, <1>7, <1>8, <1>9, <1>10, <1>11, <1>12, <1>13,
     <1>14, <1>15, <1>16, <1>17 DEF Next, Game, Follow

LEMMA ControlStep ==
    ASSUME Typed, ControlInv, TextInv, [Next]_vars
    PROVE  ControlInv'
<1> USE Limits, EndsPrimed, NoEnds DEF game, source, scan, parser, history, Goto
<1>1. CASE WriteLine \/ WriteHalf \/ FinishLine
  BY <1>1, WriteSteps DEF Grows, Written, ControlInv, Worker
<1>2. CASE MoveLog \/ CreateLog \/ TruncateLog \/ ChooseLog
  BY <1>2 DEF MoveLog, CreateLog, TruncateLog, ChooseLog, ControlInv, Worker
<1>3. CASE FindLog
  BY <1>3 DEF FindLog, ControlInv
<1>4. CASE LogGone \/ ScanFails
  BY <1>4 DEF LogGone, ScanFails, DropSource, ControlInv
<1>5. CASE Identify \/ Open
  BY <1>5 DEF Identify, Open, ControlInv, Logs
<1>6. CASE SeekEnd
  BY <1>6 DEF SeekEnd, ControlInv
<1>7. CASE ScanOpen \/ ScanLine \/ ScanEnds
  BY <1>7 DEF ScanOpen, ScanLine, ScanEnds, ControlInv, Logs
<1>8. CASE CheckIdentity \/ CheckSize
  BY <1>8 DEF CheckIdentity, CheckSize, Polls, ControlInv, Logs
<1>9. CASE ReadNew
  BY <1>9 DEF ReadNew, ControlInv
<1>10. CASE ConsumeLine
  BY <1>10, ConsumeTypes DEF ConsumeLine, ControlInv
<1>11. CASE RefreshProcessState
  <2>1. PICK snapshot \in Snapshots :
          IF StrongStop(snapshot) \/ Elsewhere(snapshot) THEN DropSource
          ELSE UNCHANGED <<tailer, source, scan, parser, reported, historical, since,
                           truncated>>
    BY <1>11 DEF RefreshProcessState
  <2>2. pc = "tick" /\ pc' = pc
    BY <1>11 DEF RefreshProcessState
  <2> QED
    BY <2>1, <2>2 DEF DropSource, ControlInv
<1>12. CASE UNCHANGED vars
  BY <1>12 DEF vars, ControlInv
<1> QED
  BY <1>1, <1>2, <1>3, <1>4, <1>5, <1>6, <1>7, <1>8, <1>9, <1>10, <1>11, <1>12
     DEF Next, Game, Follow
-----------------------------------------------------------------------------
(* The lines of the files.                                                  *)

(* The pieces of a file that has grown, and the number of a piece that is   *)
(* new: greater than all others, but for the head of the same line.         *)
LEMMA GrownFile ==
    ASSUME Typed, NumbersInv, TextInv, NEW p \in Logs, NEW piece \in Pieces, Grows(p, piece)
    PROVE  LET T == files[at[p]]
               U == files'[at[p]]
           IN  /\ at[p] \in 1 .. MaxFiles
               /\ Len(T) \in Nat /\ DOMAIN T = 1 .. Len(T)
               /\ DOMAIN U = 1 .. Len(T) + 1 /\ Len(U) = Len(T) + 1
               /\ \A i \in 1 .. Len(T) : U[i] = T[i] /\ T[i] \in Pieces
               /\ U[Len(T) + 1] = piece
               /\ Last(U) = piece /\ U # <<>>
               /\ \A i \in 1 .. Len(T) : T[i].ends => T[i].line[2] < piece.line[2]
               /\ lines <= lines' /\ piece.line[2] <= lines' /\ piece.line[2] \in Nat
               /\ LineTail(p, piece) =>
                    /\ Len(T) > 0 /\ Last(T) = T[Len(T)] /\ ~T[Len(T)].ends
                    /\ piece.line = T[Len(T)].line
               /\ NewLine(p, piece) => piece.line[1] = p /\ piece.line[2] > lines
<1> DEFINE T == files[at[p]]
           U == files'[at[p]]
<1>1. at[p] \in 1 .. MaxFiles /\ T \in Seq(Pieces) /\ U = Append(T, piece)
  BY FileTypes, WrittenIs DEF Grows
<1>2. /\ Len(T) \in Nat /\ DOMAIN T = 1 .. Len(T)
      /\ DOMAIN U = 1 .. Len(T) + 1 /\ Len(U) = Len(T) + 1
      /\ \A i \in 1 .. Len(T) : U[i] = T[i] /\ T[i] \in Pieces
      /\ U[Len(T) + 1] = piece
      /\ Last(U) = piece
  BY <1>1, AppendIs, ElementOfSeq
<1>3. U # <<>>
  BY <1>2, EmptySeq
<1>4. lines \in Nat /\ piece.line[2] \in Nat
  BY Limits DEF Typed, Pieces, Lines
<1>5. \A i \in 1 .. Len(T) : T[i].line[2] <= lines /\ T[i].line[2] \in Nat
  BY <1>1, <1>2, SMTT(30) DEF NumbersInv, Pieces, Lines
<1>6. NewLine(p, piece) => piece.line[1] = p /\ piece.line[2] = lines + 1 /\ lines' = lines + 1
  BY DEF NewLine
<1>7. ASSUME LineTail(p, piece)
      PROVE  /\ Len(T) > 0 /\ Last(T) = T[Len(T)] /\ ~T[Len(T)].ends
             /\ piece.line = T[Len(T)].line /\ lines' = lines
             /\ \A i \in 1 .. Len(T) : T[i].ends => T[i].line[2] < piece.line[2]
  <2>1. /\ T # <<>> /\ ~Last(T).ends /\ piece.line = Last(T).line /\ lines' = lines
    BY <1>7 DEF LineTail, Unfinished
  <2>2. Len(T) > 0 /\ Last(T) = T[Len(T)]
    BY <1>1, <2>1, AppendIs
  <2>3. \A i \in 1 .. Len(T) : T[i].ends => i < Len(T)
    BY <1>2, <2>1, <2>2
  <2>4. Sorted(T)
    BY <1>1 DEF TextInv
  <2>5. \A i \in 1 .. Len(T) : T[i].ends => T[i].line[2] < T[Len(T)].line[2]
    BY <1>2, <2>2, <2>3, <2>4 DEF Sorted
  <2> QED
    BY <2>1, <2>2, <2>5
<1>8. NewLine(p, piece) \/ LineTail(p, piece)
  BY DEF Grows
<1>9. piece.line[2] <= lines' /\ lines <= lines'
  BY <1>2, <1>4, <1>5, <1>6, <1>7, <1>8
<1>10. \A i \in 1 .. Len(T) : T[i].ends => T[i].line[2] < piece.line[2]
  BY <1>4, <1>5, <1>6, <1>7, <1>8
<1>11. NewLine(p, piece) => piece.line[2] > lines
  BY <1>4, <1>6
<1> QED
  BY <1>1, <1>2, <1>3, <1>4, <1>6, <1>7, <1>9, <1>10, <1>11

LEMMA OtherFiles ==
    ASSUME Typed, NEW p \in Logs, NEW piece \in Pieces, Grows(p, piece)
    PROVE  /\ \A f \in 1 .. MaxFiles : f # at[p] => files'[f] = files[f]
           /\ UNCHANGED <<at, created, Worker, reported, historical>>
           /\ Logs' = Logs
  BY WrittenIs DEF Grows, Written

LEMMA TruncateIs ==
    ASSUME Typed, TruncateLog
    PROVE  /\ \E p \in Logs : /\ files'[at[p]] = <<>>
                              /\ \A f \in 1 .. MaxFiles : f # at[p] => files'[f] = files[f]
           /\ \A f \in 1 .. MaxFiles : files'[f] = files[f] \/ files'[f] = <<>>
           /\ UNCHANGED <<at, created, lines, Worker, reported, historical>>
           /\ Logs' = Logs
<1>1. PICK p \in Logs : files' = [files EXCEPT ![at[p]] = <<>>]
  BY DEF TruncateLog
<1>2. /\ UNCHANGED <<at, created, lines, Worker, reported, historical>>
      /\ Logs' = Logs
  BY DEF TruncateLog, Logs
<1> QED
  BY <1>1, <1>2, FileTypes DEF Typed

LEMMA MoveIs ==
    ASSUME Typed, MoveLog
    PROVE  /\ Logs' \subseteq Logs /\ \A p \in Logs' : at'[p] = at[p]
           /\ \A p \in Places : at'[p] \in {at[p], 0}
           /\ UNCHANGED <<files, created, lines, Worker, reported, historical>>
<1>1. PICK p \in Logs : at' = [at EXCEPT ![p] = 0]
  BY DEF MoveLog
<1>2. UNCHANGED <<files, created, lines, Worker, reported, historical>>
  BY DEF MoveLog, history
<1> QED
  BY <1>1, <1>2 DEF Typed, Logs

LEMMA CreateIs ==
    ASSUME Typed, CreateLog
    PROVE  /\ \E p \in Places : /\ Logs' = Logs \union {p} /\ p \notin Logs
                                /\ at'[p] = created + 1
                                /\ \A q \in Places : q # p => at'[q] = at[q]
           /\ created' = created + 1
           /\ UNCHANGED <<files, lines, Worker, reported, historical>>
<1>1. PICK p \in Places \ Logs : at' = [at EXCEPT ![p] = created + 1]
  BY DEF CreateLog
<1>2. UNCHANGED <<files, lines, Worker, reported, historical>> /\ created' = created + 1
  BY DEF CreateLog
<1>3. created + 1 # 0 /\ at \in [Places -> 0 .. MaxFiles]
  BY DEF Typed
<1> QED
  BY <1>1, <1>2, <1>3 DEF Logs

(* What the worker does to the files: nothing.                              *)
LEMMA WorkerFiles ==
    ASSUME [ChooseLog \/ Follow \/ RefreshProcessState]_vars
    PROVE  UNCHANGED <<files, at, created, lines>>
  BY DEF ChooseLog, Follow, RefreshProcessState, vars, FindLog, LogGone, Identify, Open,
     SeekEnd, ScanOpen, ScanFails, ScanLine, ScanEnds, CheckIdentity, CheckSize, ReadNew,
     ConsumeLine, game

LEMMA FitsGrown ==
    ASSUME Typed, NumbersInv, TextInv, NEW p \in Logs, NEW piece \in Pieces, Grows(p, piece)
    PROVE  \A i \in DOMAIN files'[at[p]] : Fits(files'[at[p]], i)
<1> DEFINE T == files[at[p]]
           U == files'[at[p]]
<1>1. /\ at[p] \in 1 .. MaxFiles /\ Len(T) \in Nat /\ DOMAIN T = 1 .. Len(T)
      /\ DOMAIN U = 1 .. Len(T) + 1
      /\ \A i \in 1 .. Len(T) : U[i] = T[i]
      /\ U[Len(T) + 1] = piece
  BY GrownFile
<1>2. /\ piece.live = IF piece.ends THEN LiveMode(ModeAt(T, Len(T)), piece.kind)
                      ELSE ModeAt(T, Len(T))
      /\ piece.kind \in Activity /\ ~EventsAnywhere
           => LiveMode(ModeAt(T, Len(T)), piece.kind) = "master_sword"
  BY DEF Grows, Written, ModeAtEnd
<1>3. /\ ~Unfinished(T) /\ (piece.ends => piece.shows)
      \/ /\ Unfinished(T) /\ piece.ends /\ piece.line = Last(T).line
         /\ piece.kind = Last(T).kind /\ piece.shows # Last(T).shows
  BY DEF Grows, NewLine, LineTail
<1>4. T \in Seq(Pieces)
  BY FileTypes
<1>5. Len(T) > 0 => T # <<>> /\ Last(T) = T[Len(T)]
  BY <1>4, AppendIs
<1>6. \A i \in 1 .. Len(T) : Fits(T, i)
  BY <1>1 DEF TextInv
<1> HIDE DEF T, U
<1>7. ASSUME NEW i \in 1 .. Len(T)
      PROVE  Fits(U, i)
  <2>1. U[i] = T[i] /\ (i # 1 => U[i - 1] = T[i - 1] /\ T[i - 1] = T[i - 1])
    BY <1>1
  <2>2. ModeAt(U, i - 1) = ModeAt(T, i - 1)
    BY <1>1, <2>1 DEF ModeAt
  <2> QED
    BY <1>6, <2>1, <2>2 DEF Fits
<1>8. Fits(U, Len(T) + 1)
  <2>1. (Len(T) + 1) - 1 = Len(T) /\ (Len(T) + 1 = 1 <=> Len(T) = 0)
    BY <1>1
  <2>2. Len(T) # 0 => U[Len(T)] = T[Len(T)]
    BY <1>1
  <2>3. ModeAt(U, Len(T)) = ModeAt(T, Len(T))
    BY <2>2 DEF ModeAt
  <2>4. Len(T) = 0 => ~Unfinished(T)
    BY <1>4, EmptySeq DEF Unfinished
  <2>5. Len(T) # 0 => T # <<>> /\ Last(T) = T[Len(T)]
    BY <1>1, <1>5
  <2>6. Len(T) + 1 = 1 \/ U[Len(T)].ends => (piece.ends => piece.shows)
    BY <1>3, <2>1, <2>2, <2>5 DEF Unfinished
  <2>7. Len(T) + 1 # 1 /\ ~U[Len(T)].ends =>
          /\ piece.ends /\ piece.line = U[Len(T)].line
          /\ piece.kind = U[Len(T)].kind /\ piece.shows # U[Len(T)].shows
    BY <1>3, <2>1, <2>2, <2>5 DEF Unfinished
  <2> QED
    BY <1>1, <1>2, <2>1, <2>3, <2>6, <2>7 DEF Fits
<1> QED
  BY <1>1, <1>7, <1>8 DEF U

LEMMA TextStep ==
    ASSUME Typed, ControlInv, NumbersInv, TextInv, [Next]_vars
    PROVE  TextInv'
<1>1. CASE WriteLine \/ WriteHalf \/ FinishLine
  <2>1. PICK p \in Logs, piece \in Pieces : Grows(p, piece)
    BY <1>1, WriteSteps
  <2> DEFINE T == files[at[p]]
             U == files'[at[p]]
  <2>2. \A i \in DOMAIN U : Fits(U, i)
    BY <2>1, FitsGrown
  <2>3. Sorted(U)
    <3>1. /\ Len(T) \in Nat /\ DOMAIN T = 1 .. Len(T) /\ DOMAIN U = 1 .. Len(T) + 1
          /\ \A i \in 1 .. Len(T) : U[i] = T[i]
          /\ U[Len(T) + 1] = piece
          /\ \A i \in 1 .. Len(T) : T[i].ends => T[i].line[2] < piece.line[2]
      BY <2>1, GrownFile
    <3>2. Sorted(T)
      BY FileTypes DEF TextInv
    <3> HIDE DEF T, U
    <3>3. ASSUME NEW i \in DOMAIN U, NEW j \in DOMAIN U, i < j, U[i].ends
          PROVE  U[i].line[2] < U[j].line[2]
      <4>1. i \in 1 .. Len(T)
        BY <3>1, <3>3
      <4>2. CASE j = Len(T) + 1
        BY <3>1, <3>3, <4>1, <4>2
      <4>3. CASE j \in 1 .. Len(T)
        BY <3>1, <3>2, <3>3, <4>1, <4>3 DEF Sorted
      <4> QED
        BY <3>1, <4>2, <4>3
    <3> QED
      BY <3>3 DEF Sorted
  <2>4. \A f \in 1 .. MaxFiles : f # at[p] => files'[f] = files[f]
    BY <2>1, OtherFiles
  <2> QED
    BY <2>2, <2>3, <2>4 DEF TextInv
<1>2. CASE TruncateLog
  <2>1. \A f \in 1 .. MaxFiles : files'[f] = files[f] \/ files'[f] = <<>>
    BY <1>2, TruncateIs
  <2>2. (\A i \in DOMAIN <<>> : Fits(<<>>, i)) /\ Sorted(<<>>)
    BY DEF Sorted
  <2> QED
    BY <2>1, <2>2 DEF TextInv
<1>3. CASE UNCHANGED files
  BY <1>3 DEF TextInv
<1> QED
  BY <1>1, <1>2, <1>3, WorkerFiles DEF Next, Game, MoveLog, CreateLog

LEMMA NumbersStep ==
    ASSUME Typed, ControlInv, NumbersInv, TextInv, [Next]_vars
    PROVE  NumbersInv'
<1>0. lines \in Nat
  BY Limits DEF Typed
<1>1. CASE WriteLine \/ WriteHalf \/ FinishLine
  <2>1. PICK p \in Logs, piece \in Pieces : Grows(p, piece)
    BY <1>1, WriteSteps
  <2> DEFINE T == files[at[p]]
             U == files'[at[p]]
  <2>2. /\ Len(T) \in Nat /\ DOMAIN U = 1 .. Len(T) + 1 /\ DOMAIN T = 1 .. Len(T)
        /\ \A i \in 1 .. Len(T) : U[i] = T[i]
        /\ U[Len(T) + 1] = piece
        /\ lines <= lines' /\ piece.line[2] <= lines'
        /\ at[p] \in 1 .. MaxFiles
    BY <2>1, GrownFile
  <2>3. /\ \A f \in 1 .. MaxFiles : f # at[p] => files'[f] = files[f]
        /\ UNCHANGED <<pending, reported, historical>>
    BY <2>1, OtherFiles DEF Worker, source
  <2>4. lines' \in Nat
    BY <2>1, Limits DEF Grows, Written
  <2>5. \A line \in Lines : line[2] <= lines => line[2] <= lines'
    BY <1>0, <2>2, <2>4, Limits DEF Lines
  <2>6. /\ \A f \in 1 .. MaxFiles : \A i \in DOMAIN files[f] : files[f][i].line \in Lines
        /\ \A i \in DOMAIN pending : pending[i].line \in Lines
        /\ \A i \in DOMAIN reported : reported[i] \in Lines
        /\ historical \subseteq Lines
    <3>1. \A x \in Pieces : x.line \in Lines
      BY DEF Pieces
    <3>2. \A i \in DOMAIN pending : pending[i] \in Pieces
      BY DEF Typed
    <3>3. \A i \in DOMAIN reported : reported[i] \in Lines
      BY DEF Typed
    <3>4. historical \subseteq Lines
      BY DEF Typed
    <3> QED
      BY <3>1, <3>2, <3>3, <3>4, FileTypes
  <2>7. \A i \in DOMAIN U : U[i].line[2] <= lines'
    <3>1. \A i \in 1 .. Len(T) : T[i].line \in Lines /\ T[i].line[2] <= lines
      BY <2>2, <2>6 DEF NumbersInv
    <3> HIDE DEF T, U
    <3> QED
      BY <2>2, <2>5, <3>1
  <2>8. \A f \in 1 .. MaxFiles : \A i \in DOMAIN files'[f] : files'[f][i].line[2] <= lines'
    BY <2>3, <2>5, <2>6, <2>7 DEF NumbersInv
  <2> QED
    BY <2>3, <2>5, <2>6, <2>8 DEF NumbersInv
<1>2. CASE TruncateLog
  BY <1>2, TruncateIs DEF NumbersInv, Worker, source
<1>3. CASE MoveLog \/ CreateLog
  BY <1>3 DEF MoveLog, CreateLog, NumbersInv, Worker, source, history
<1>4. CASE [ChooseLog \/ Follow \/ RefreshProcessState]_vars
  <2>1. UNCHANGED <<files, lines>>
    BY <1>4, WorkerFiles
  <2>2. \A f \in 1 .. MaxFiles : \A i \in DOMAIN files[f] : files[f][i].line[2] <= lines
    BY DEF NumbersInv
  <2>3. CASE Idle \/ Closes
    BY <2>1, <2>3 DEF NumbersInv, Idle, Closes
  <2>4. CASE SeekEnd
    <3>1. handle \in 1 .. MaxFiles
      BY <2>4, FileTypes DEF SeekEnd, ControlInv
    <3>2. \A line \in historical' : line[2] <= lines
      BY <2>2, <2>4, <3>1 DEF SeekEnd, NumbersInv, Finished, Ends
    <3>3. pending' = <<>> /\ reported' = reported
      BY <2>4 DEF SeekEnd
    <3> QED
      BY <2>1, <3>2, <3>3 DEF NumbersInv
  <2>5. CASE ReadNew
    <3>1. handle # 0 /\ handle \in 1 .. MaxFiles
      BY <2>5, FileTypes DEF ReadNew, ControlInv
    <3>2. /\ pending' = Polled /\ Polled \in Seq(Pieces)
          /\ DOMAIN Polled = 1 .. Len(Polled) /\ Len(Polled) \in Nat
          /\ \A i \in 1 .. Len(pending) : Polled[i] = pending[i]
          /\ \A i \in Len(pending) + 1 .. Len(Polled) :
               \E j \in DOMAIN files[handle] : Polled[i] = files[handle][j]
      <4>1. offset \in Nat /\ DOMAIN files[handle] = 1 .. Len(files[handle])
            /\ Len(files[handle]) \in Nat
        BY <3>1, FileTypes DEF Typed
      <4>2. \A i \in Len(pending) + 1 .. Len(Polled) :
              /\ offset + (i - Len(pending)) \in offset + 1 .. Len(files[handle])
              /\ Polled[i] = files[handle][offset + (i - Len(pending))]
        BY <3>1, PolledText
      <4>3. \A i \in Len(pending) + 1 .. Len(Polled) :
              offset + (i - Len(pending)) \in DOMAIN files[handle]
        BY <4>1, <4>2
      <4> QED
        BY <2>5, <3>1, <4>2, <4>3, PolledText, ReadTypes, LenProperties
    <3>3. \A i \in 1 .. Len(Polled) : Polled[i].line[2] <= lines
      <4>1. Len(pending) \in Nat /\ DOMAIN pending = 1 .. Len(pending)
        BY DEF Typed
      <4>2. \A i \in 1 .. Len(pending) : pending[i].line[2] <= lines
        BY <4>1 DEF NumbersInv
      <4> QED
        BY <2>2, <3>1, <3>2, <4>1, <4>2
    <3>4. reported' = reported /\ historical' = historical
      BY <2>5 DEF ReadNew
    <3> QED
      BY <2>1, <3>2, <3>3, <3>4 DEF NumbersInv
  <2>6. CASE ConsumeLine
    <3> DEFINE end == Min(Ends(pending))
               rest == SubSeq(pending, end + 1, Len(pending))
    <3>1. /\ end \in 1 .. Len(pending) /\ rest \in Seq(Pieces)
          /\ \A i \in 1 .. Len(rest) :
               rest[i] = pending[end + i] /\ end + i \in 1 .. Len(pending)
      BY <2>6, FirstLine DEF ConsumeLine, ControlInv
    <3>2. \A i \in 1 .. Len(pending) : pending[i].line[2] <= lines /\ pending[i].line \in Lines
      <4>1. \A i \in 1 .. Len(pending) : pending[i] \in Pieces /\ i \in DOMAIN pending
        BY DEF Typed
      <4> QED
        BY <4>1 DEF NumbersInv, Pieces
    <3>3. /\ pending' = rest
          /\ reported' \in {reported, Append(reported, pending[end].line)}
          /\ historical' = historical
      BY <2>6 DEF ConsumeLine
    <3> HIDE DEF end, rest
    <3>4. \A i \in DOMAIN rest : rest[i].line[2] <= lines
      BY <3>1, <3>2
    <3>5. \A k \in DOMAIN reported' : reported'[k][2] <= lines
      <4>1. pending[end].line \in Lines /\ pending[end].line[2] <= lines
        BY <3>1, <3>2
      <4>2. reported \in Seq(Lines) /\ \A k \in DOMAIN reported : reported[k][2] <= lines
        BY DEF NumbersInv, Typed
      <4> QED
        BY <3>3, <4>1, <4>2, AppendProperties
    <3> QED
      BY <2>1, <2>2, <3>3, <3>4, <3>5 DEF NumbersInv
  <2> QED
    BY <1>4, <2>3, <2>4, <2>5, <2>6, WorkerSteps
<1> QED
  BY <1>1, <1>2, <1>3, <1>4 DEF Next, Game
LEMMA LineNumbers ==
    ASSUME Typed
    PROVE  /\ \A f \in 1 .. MaxFiles : \A i \in DOMAIN files[f] :
                files[f][i].line[2] \in Nat /\ files[f][i].line \in Lines
           /\ \A i \in DOMAIN pending : pending[i].line[2] \in Nat /\ pending[i].line \in Lines
           /\ \A k \in DOMAIN reported : reported[k][2] \in Nat
           /\ lines \in Nat
<1>1. \A line \in Lines : line[2] \in Nat
  BY Limits DEF Lines
<1>2. \A x \in Pieces : x.line \in Lines
  BY DEF Pieces
<1>3. (\A i \in DOMAIN pending : pending[i] \in Pieces)
      /\ \A k \in DOMAIN reported : reported[k] \in Lines
  BY DEF Typed
<1>4. lines \in Nat
  BY Limits DEF Typed
<1> QED
  BY <1>1, <1>2, <1>3, <1>4, FileTypes

LEMMA MaxOfTwo ==
    ASSUME NEW a \in Nat, NEW b \in Nat
    PROVE  Max({a, b}) = IF a < b THEN b ELSE a
<1> DEFINE m == IF a < b THEN b ELSE a
<1>1. m \in {a, b} /\ m >= a /\ m >= b
  OBVIOUS
<1>2. \A x \in {a, b} : x >= a /\ x >= b => x = m
  OBVIOUS
<1> QED
  BY <1>1, <1>2 DEF Max

LEMMA ReadIs ==
    ASSUME Typed, ControlInv, ReadNew
    PROVE  LET T == files[handle]
           IN  /\ handle \in 1 .. MaxFiles
               /\ Len(T) \in Nat /\ DOMAIN T = 1 .. Len(T)
               /\ offset' \in Nat /\ offset' >= Len(T) /\ offset' >= offset
               /\ offset' \in {offset, Len(T)}
               /\ Len(pending) \in Nat /\ DOMAIN pending = 1 .. Len(pending)
               /\ pending' \in Seq(Pieces) /\ Len(pending') \in Nat
               /\ Len(pending') = Len(pending) + (offset' - offset)
               /\ \A i \in 1 .. Len(pending) : pending'[i] = pending[i]
               /\ \A i \in Len(pending) + 1 .. Len(pending') :
                    /\ offset + (i - Len(pending)) \in 1 .. Len(T)
                    /\ offset + (i - Len(pending)) > offset
                    /\ pending'[i] = T[offset + (i - Len(pending))]
               /\ UNCHANGED <<files, at, created, lines, handle, reported, historical>>
<1> DEFINE T == files[handle]
<1>1. handle # 0 /\ handle \in 1 .. MaxFiles
  BY FileTypes DEF ReadNew, ControlInv
<1>2. /\ pending' = Polled /\ Polled \in Seq(Pieces)
      /\ Len(Polled) = Len(pending) + (IF offset < Len(T) THEN Len(T) - offset ELSE 0)
      /\ \A i \in 1 .. Len(pending) : Polled[i] = pending[i]
      /\ \A i \in Len(pending) + 1 .. Len(Polled) :
           /\ offset + (i - Len(pending)) \in offset + 1 .. Len(T)
           /\ Polled[i] = T[offset + (i - Len(pending))]
  BY <1>1, PolledText, ReadTypes
<1>3. /\ offset \in Nat /\ pending \in Seq(Pieces) /\ Len(pending) \in Nat
      /\ DOMAIN pending = 1 .. Len(pending)
  BY DEF Typed
<1>4. Len(T) \in Nat /\ DOMAIN T = 1 .. Len(T)
  BY <1>1, FileTypes
<1>5. offset' = IF offset < Len(T) THEN Len(T) ELSE offset
  <2>1. offset' = Max({offset, Len(T)})
    BY DEF ReadNew
  <2> QED
    BY <1>3, <1>4, <2>1, MaxOfTwo
<1>6. UNCHANGED <<files, at, created, lines, handle, reported, historical>>
  BY DEF ReadNew, game
<1> HIDE DEF T
<1>7. \A i \in Len(pending) + 1 .. Len(Polled) :
        /\ offset + (i - Len(pending)) \in 1 .. Len(T)
        /\ offset + (i - Len(pending)) > offset
  BY <1>2, <1>3, <1>4
<1>8. /\ offset' \in Nat /\ offset' >= Len(T) /\ offset' >= offset
      /\ offset' \in {offset, Len(T)}
      /\ Len(Polled) = Len(pending) + (offset' - offset) /\ Len(Polled) \in Nat
  BY <1>2, <1>3, <1>4, <1>5
<1> QED
  BY <1>1, <1>2, <1>3, <1>4, <1>6, <1>7, <1>8 DEF T

LEMMA ConsumeIs ==
    ASSUME Typed, ControlInv, ConsumeLine
    PROVE  LET end == Min(Ends(pending))
           IN  /\ end \in Ends(pending) /\ end \in 1 .. Len(pending) /\ Len(pending) \in Nat
               /\ DOMAIN pending = 1 .. Len(pending) /\ DOMAIN pending' = 1 .. Len(pending')
               /\ \A i \in Ends(pending) : end <= i
               /\ pending' \in Seq(Pieces) /\ Len(pending') = Len(pending) - end
               /\ \A i \in 1 .. Len(pending') :
                    pending'[i] = pending[end + i] /\ end + i \in 1 .. Len(pending)
               /\ \A i \in Ends(pending') :
                    /\ i \in 1 .. Len(pending') /\ end + i \in Ends(pending) /\ end < end + i
                    /\ pending'[i] = pending[end + i]
               /\ reported' \in {reported, Append(reported, pending[end].line)}
               /\ pending[end].line \in Lines
               /\ UNCHANGED <<files, at, created, lines, handle, offset, historical>>
               /\ Reading
<1> DEFINE end  == Min(Ends(pending))
           rest == SubSeq(pending, end + 1, Len(pending))
<1>1. /\ end \in Ends(pending) /\ end \in 1 .. Len(pending)
      /\ \A i \in Ends(pending) : end <= i
      /\ rest \in Seq(Pieces) /\ Len(rest) = Len(pending) - end
      /\ \A i \in 1 .. Len(rest) : rest[i] = pending[end + i] /\ end + i \in 1 .. Len(pending)
  BY FirstLine DEF ConsumeLine, ControlInv
<1>2. /\ pending' = rest
      /\ reported' \in {reported, Append(reported, pending[end].line)}
      /\ UNCHANGED <<files, at, created, lines, handle, offset, historical>>
  BY DEF ConsumeLine, game
<1>3. pending \in Seq(Pieces) /\ Len(pending) \in Nat /\ DOMAIN pending = 1 .. Len(pending)
  BY DEF Typed
<1>4. Reading
  BY DEF ConsumeLine, Reading
<1> HIDE DEF end, rest
<1>5. Len(rest) \in Nat /\ DOMAIN rest = 1 .. Len(rest)
  BY <1>1
<1>6. \A i \in Ends(rest) :
        i \in 1 .. Len(rest) /\ end + i \in Ends(pending) /\ end < end + i
        /\ rest[i] = pending[end + i]
  BY <1>1, <1>3, <1>5 DEF Ends
<1>7. pending[end].line \in Lines
  BY <1>1, <1>3, LineNumbers
<1> QED
  BY <1>1, <1>2, <1>3, <1>4, <1>5, <1>6, <1>7 DEF end

LEMMA FileStep ==
    ASSUME Typed, ControlInv, NumbersInv, TextInv, FileInv, [Next]_vars
    PROVE  FileInv'
<1>0. /\ created \in Nat /\ handle \in Nat /\ lines \in Nat /\ MaxFiles \in Nat
      /\ at \in [Places -> 0 .. MaxFiles]
      /\ \A p \in Places : at[p] \in Nat
  BY Limits DEF Typed
<1>1. CASE WriteLine \/ WriteHalf \/ FinishLine
  <2>1. PICK p \in Logs, piece \in Pieces : Grows(p, piece)
    BY <1>1, WriteSteps
  <2> DEFINE F == at[p]
             T == files[F]
             U == files'[F]
  <2>2. /\ F \in 1 .. MaxFiles /\ Len(T) \in Nat /\ DOMAIN T = 1 .. Len(T)
        /\ DOMAIN U = 1 .. Len(T) + 1
        /\ \A i \in 1 .. Len(T) : U[i] = T[i]
        /\ U[Len(T) + 1] = piece /\ piece.line[2] \in Nat
        /\ LineTail(p, piece) => Len(T) > 0 /\ piece.line = T[Len(T)].line
        /\ NewLine(p, piece) => piece.line[1] = p /\ piece.line[2] > lines
    BY <2>1, GrownFile
  <2>3. /\ \A f \in 1 .. MaxFiles : f # F => files'[f] = files[f]
        /\ UNCHANGED <<at, created, handle>>
        /\ Logs' = Logs
    BY <2>1, OtherFiles DEF Worker, source
  <2>4. NewLine(p, piece) \/ LineTail(p, piece)
    BY <2>1 DEF Grows
  <2>5. NewLine(p, piece) => F = created
    BY DEF NewLine
  <2>6. \A i \in DOMAIN U : U[i] = piece \/ (i \in DOMAIN T /\ U[i] = T[i])
    BY <2>2
  <2>7. LineTail(p, piece) => Len(T) \in DOMAIN T
    BY <2>2
  <2>8. ASSUME NEW f \in 1 .. MaxFiles, NEW g \in 1 .. MaxFiles, f < g,
               NEW i \in DOMAIN files'[f], NEW j \in DOMAIN files'[g]
        PROVE  files'[f][i].line[2] < files'[g][j].line[2]
    <3>1. CASE f = F
      <4>1. g # F /\ files'[g] = files[g] /\ j \in DOMAIN files[g]
        BY <2>3, <2>8, <3>1
      <4>2. files[g] # <<>>
        BY <4>1
      <4>3. ~NewLine(p, piece)
        BY <1>0, <2>5, <2>8, <3>1, <4>2 DEF FileInv
      <4>4. \A k \in DOMAIN T : T[k].line[2] < files[g][j].line[2]
        BY <2>2, <2>8, <3>1, <4>1 DEF FileInv
      <4> QED
        BY <2>2, <2>4, <2>6, <2>7, <3>1, <4>1, <4>3, <4>4
    <3>2. CASE g = F
      <4>1. f # F /\ files'[f] = files[f] /\ i \in DOMAIN files[f]
        BY <2>3, <2>8, <3>2
      <4>2. files[f][i].line[2] <= lines /\ files[f][i].line[2] \in Nat
        BY <4>1, LineNumbers DEF NumbersInv
      <4>3. NewLine(p, piece) => files[f][i].line[2] < piece.line[2]
        BY <1>0, <2>2, <4>2
      <4>4. \A k \in DOMAIN T : files[f][i].line[2] < T[k].line[2]
        BY <2>2, <2>8, <3>2, <4>1 DEF FileInv
      <4> QED
        BY <2>2, <2>4, <2>6, <2>7, <3>2, <4>1, <4>3, <4>4
    <3>3. CASE f # F /\ g # F
      BY <2>3, <2>8, <3>3 DEF FileInv
    <3> QED
      BY <3>1, <3>2, <3>3
  <2>9. \A f \in 1 .. MaxFiles : f > created => files'[f] = <<>>
    <3>1. ~ (F > created)
      BY <1>0 DEF FileInv, Logs
    <3> QED
      BY <2>3, <3>1 DEF FileInv
  <2>10. piece.line[1] = p
    BY <2>2, <2>4, <2>7 DEF FileInv
  <2>11. \A q \in Logs : \A i \in DOMAIN files'[at[q]] : files'[at[q]][i].line[1] = q
    <3> SUFFICES ASSUME NEW q \in Logs, NEW i \in DOMAIN files'[at[q]]
                 PROVE  files'[at[q]][i].line[1] = q
      OBVIOUS
    <3>1. at[q] \in 1 .. MaxFiles
      BY FileTypes
    <3>2. CASE at[q] = F
      <4>1. q = p
        BY <3>2 DEF FileInv
      <4> QED
        BY <2>6, <2>10, <3>2, <4>1 DEF FileInv
    <3>3. CASE at[q] # F
      BY <2>3, <3>1, <3>3 DEF FileInv
    <3> QED
      BY <3>2, <3>3
  <2>12. \A q \in Logs : \A f \in 1 .. MaxFiles : \A i \in DOMAIN files'[f] :
           files'[f][i].line[1] = q => f <= at[q]
    <3> SUFFICES ASSUME NEW q \in Logs, NEW f \in 1 .. MaxFiles, NEW i \in DOMAIN files'[f],
                        files'[f][i].line[1] = q
                 PROVE  f <= at[q]
      OBVIOUS
    <3>1. CASE f = F /\ files'[f][i] = piece
      BY <1>0, <2>2, <2>10, <3>1
    <3>2. CASE i \in DOMAIN files[f] /\ files'[f][i] = files[f][i]
      BY <3>2 DEF FileInv
    <3> QED
      BY <2>3, <2>6, <3>1, <3>2
  <2> HIDE DEF F, T, U
  <2> QED
    BY <2>3, <2>8, <2>9, <2>11, <2>12 DEF FileInv
<1>2. CASE TruncateLog
  <2>1. \A f \in 1 .. MaxFiles : \A i \in DOMAIN files'[f] :
          i \in DOMAIN files[f] /\ files'[f] = files[f]
    BY <1>2, TruncateIs
  <2>2. /\ UNCHANGED <<at, created, handle>> /\ Logs' = Logs
        /\ \A f \in 1 .. MaxFiles : files'[f] = files[f] \/ files'[f] = <<>>
    BY <1>2, TruncateIs DEF Worker, source
  <2>3. \A p \in Logs : at[p] \in 1 .. MaxFiles
    BY FileTypes
  <2> QED
    BY <2>1, <2>2, <2>3 DEF FileInv
<1>3. CASE MoveLog
  <2>1. UNCHANGED <<files, created, handle>>
    BY <1>3, MoveIs DEF Worker, source
  <2>2. \A p \in Places : at'[p] \in {at[p], 0}
    BY <1>3, MoveIs
  <2>3. Logs' \subseteq Logs /\ \A p \in Logs' : at'[p] = at[p]
    BY <1>3, MoveIs
  <2> QED
    BY <1>0, <2>1, <2>2, <2>3, SMTT(30) DEF FileInv
<1>4. CASE CreateLog
  <2>1. PICK p \in Places : /\ Logs' = Logs \union {p} /\ p \notin Logs
                            /\ at'[p] = created + 1
                            /\ \A q \in Places : q # p => at'[q] = at[q]
    BY <1>4, CreateIs
  <2>2. created' = created + 1 /\ UNCHANGED <<files, handle>>
    BY <1>4, CreateIs DEF Worker, source
  <2>3. \A f \in 1 .. MaxFiles : files[f] # <<>> => f <= created
    BY <1>0 DEF FileInv
  <2>4. created + 1 \in 1 .. MaxFiles /\ files[created + 1] = <<>>
    BY <1>0, <1>4 DEF CreateLog, FileInv, Typed
  <2>5. \A q \in Logs : q \in Places /\ q # p /\ at'[q] = at[q] /\ at[q] <= created
    BY <2>1 DEF Logs, FileInv
  <2>6. ASSUME NEW q \in Logs', NEW i \in DOMAIN files[at'[q]]
        PROVE  files[at'[q]][i].line[1] = q
    <3>1. q # p
      BY <2>1, <2>4
    <3>2. q \in Logs /\ at'[q] = at[q]
      BY <2>1, <2>5, <3>1
    <3> QED
      BY <3>2 DEF FileInv
  <2>7. \A q \in Logs' : \A f \in 1 .. MaxFiles : \A i \in DOMAIN files[f] :
          files[f][i].line[1] = q => f <= at'[q]
    <3> SUFFICES ASSUME NEW q \in Logs', NEW f \in 1 .. MaxFiles, NEW i \in DOMAIN files[f],
                        files[f][i].line[1] = q
                 PROVE  f <= at'[q]
      OBVIOUS
    <3>1. f <= created
      BY <2>3
    <3>2. CASE q = p
      BY <1>0, <2>1, <3>1, <3>2
    <3>3. CASE q \in Logs
      BY <2>5, <3>3 DEF FileInv
    <3> QED
      BY <2>1, <3>2, <3>3
  <2>8. \A q \in Places : at'[q] <= created'
    BY <1>0, <2>1, <2>2 DEF FileInv
  <2>9. \A q, r \in Logs' : at'[q] = at'[r] => q = r
    BY <1>0, <2>1, <2>5 DEF FileInv
  <2>10. handle <= created + 1 /\ \A f \in 1 .. MaxFiles : f > created + 1 => files[f] = <<>>
    BY <1>0 DEF FileInv
  <2> QED
    BY <2>2, <2>6, <2>7, <2>8, <2>9, <2>10 DEF FileInv
<1>5. CASE [ChooseLog \/ Follow \/ RefreshProcessState]_vars
  <2>1. UNCHANGED <<files, at, created>> /\ Logs' = Logs
    BY <1>5, WorkerFiles DEF Logs
  <2>2. handle' <= created
    <3>1. CASE Idle
      BY <3>1 DEF Idle, FileInv
    <3>2. CASE Closes
      BY <1>0, <3>2 DEF Closes, FileInv, Logs
    <3>3. CASE SeekEnd \/ ReadNew \/ ConsumeLine
      BY <3>3 DEF SeekEnd, ReadNew, ConsumeLine, FileInv
    <3> QED
      BY <1>5, <3>1, <3>2, <3>3, WorkerSteps
  <2> QED
    BY <2>1, <2>2 DEF FileInv
<1> QED
  BY <1>1, <1>2, <1>3, <1>4, <1>5 DEF Next, Game
-----------------------------------------------------------------------------
(* What is still to be read comes after what was reported.                  *)

Begun(p) ==
    /\ Last(files[at[p]]).line \notin historical
    /\ \A k \in DOMAIN reported :
         reported[k][1] = p => reported[k][2] < Last(files[at[p]]).line[2]
    /\ Opened /\ at[p] = handle =>
         \A i \in Ends(pending) : pending[i].line[2] < Last(files[at[p]]).line[2]

LEMMA UnfinishedIs ==
    ASSUME Typed, TextInv, NEW p \in Logs, Unfinished(files[at[p]])
    PROVE  LET T == files[at[p]]
           IN  /\ at[p] \in 1 .. MaxFiles
               /\ Len(T) \in DOMAIN T /\ Last(T) = T[Len(T)] /\ DOMAIN T = 1 .. Len(T)
               /\ Len(T) \in Nat /\ Last(T).line[2] \in Nat
               /\ \A i \in Ends(T) : i < Len(T) /\ T[i].line[2] < Last(T).line[2]
<1> DEFINE T == files[at[p]]
<1>1. T \in Seq(Pieces) /\ T # <<>> /\ ~Last(T).ends /\ at[p] \in 1 .. MaxFiles
  BY FileTypes DEF Unfinished
<1>2. Len(T) \in Nat /\ Len(T) > 0 /\ DOMAIN T = 1 .. Len(T) /\ Last(T) = T[Len(T)]
  BY <1>1, AppendIs
<1>3. Len(T) \in DOMAIN T /\ Last(T).line[2] \in Nat
  BY <1>1, <1>2, LineNumbers
<1>4. Sorted(T)
  BY <1>1 DEF TextInv
<1> HIDE DEF T
<1>5. \A i \in Ends(T) : i < Len(T) /\ T[i].line[2] < Last(T).line[2]
  BY <1>1, <1>2, <1>3, <1>4 DEF Sorted, Ends
<1> QED
  BY <1>1, <1>2, <1>3, <1>5 DEF T

LEMMA UnfinishedStep ==
    ASSUME ReportInv, [Next]_vars
    PROVE  UnfinishedInv'
<1> USE DEF ReportInv
<1>1. \A p \in Logs : Unfinished(files[at[p]]) => Begun(p)
  BY DEF UnfinishedInv, Begun
<1> SUFFICES ASSUME NEW p \in Logs', Unfinished(files'[at'[p]])
             PROVE  Begun(p)'
  BY DEF UnfinishedInv, Begun
<1>2. CASE WriteLine \/ WriteHalf \/ FinishLine
  <2>1. PICK q \in Logs, piece \in Pieces : Grows(q, piece)
    BY <1>2, WriteSteps
  <2>2. /\ \A f \in 1 .. MaxFiles : f # at[q] => files'[f] = files[f]
        /\ UNCHANGED <<at, created, Worker, reported, historical>>
        /\ Logs' = Logs
    BY <2>1, OtherFiles
  <2>3. at[p] \in 1 .. MaxFiles
    BY <2>2, FileTypes
  <2>4. Opened' = Opened /\ UNCHANGED <<handle, pending>>
    BY <2>2 DEF Opened, Reading, Worker, source
  <2>5. CASE at[p] # at[q]
    BY <1>1, <2>2, <2>3, <2>4, <2>5 DEF Begun, Ends
  <2>6. CASE at[p] = at[q]
    <3>1. Last(files'[at'[p]]) = piece
      BY <2>1, <2>2, <2>6, GrownFile
    <3>2. NewLine(q, piece)
      BY <2>1, <3>1 DEF Unfinished, Grows, LineTail
    <3>3. piece.line[2] > lines /\ piece.line[2] \in Nat
      BY <2>1, <3>2, GrownFile
    <3>4. /\ piece.line \notin historical
          /\ \A k \in DOMAIN reported : reported[k][2] < piece.line[2]
          /\ \A i \in Ends(pending) : pending[i].line[2] < piece.line[2]
      BY <3>3, LineNumbers DEF NumbersInv, Ends
    <3> QED
      BY <2>2, <2>4, <3>1, <3>4 DEF Begun, Ends
  <2> QED
    BY <2>5, <2>6
<1>3. CASE TruncateLog
  <2>1. files'[at[p]] = files[at[p]] \/ files'[at[p]] = <<>>
    BY <1>3, TruncateIs, FileTypes
  <2>2. UNCHANGED <<at, Worker, reported, historical>> /\ Logs' = Logs
    BY <1>3, TruncateIs
  <2>3. files'[at[p]] = files[at[p]]
    BY <2>1, <2>2 DEF Unfinished
  <2> QED
    BY <1>1, <2>2, <2>3 DEF Begun, Ends, Opened, Reading, Worker, source
<1>4. CASE MoveLog
  BY <1>1, <1>4, MoveIs DEF Begun, Ends, Opened, Reading, Worker, source
<1>5. CASE CreateLog
  <2>1. PICK q \in Places : /\ Logs' = Logs \union {q} /\ q \notin Logs
                            /\ at'[q] = created + 1
                            /\ \A r \in Places : r # q => at'[r] = at[r]
    BY <1>5, CreateIs
  <2>2. UNCHANGED <<files, Worker, reported, historical>>
    BY <1>5, CreateIs
  <2>3. files[created + 1] = <<>>
    BY <1>5, Limits DEF CreateLog, FileInv, Typed
  <2>4. p # q /\ p \in Logs /\ p \in Places
    BY <2>1, <2>2, <2>3 DEF Unfinished, Logs
  <2> QED
    BY <1>1, <2>1, <2>2, <2>4 DEF Begun, Ends, Opened, Reading, Worker, source
<1>6. CASE [ChooseLog \/ Follow \/ RefreshProcessState]_vars
  <2>1. UNCHANGED <<files, at, created, lines>> /\ Logs' = Logs
    BY <1>6, WorkerFiles DEF Logs
  <2>2. Unfinished(files[at[p]]) /\ p \in Logs /\ Begun(p)
    BY <1>1, <2>1
  <2> DEFINE T == files[at[p]]
  <2>3. /\ at[p] \in 1 .. MaxFiles
        /\ Len(T) \in DOMAIN T /\ Last(T) = T[Len(T)] /\ DOMAIN T = 1 .. Len(T)
        /\ Len(T) \in Nat /\ Last(T).line[2] \in Nat
        /\ \A i \in Ends(T) : i < Len(T) /\ T[i].line[2] < Last(T).line[2]
    BY <2>2, UnfinishedIs
  <2>4. CASE Idle
    BY <2>1, <2>2, <2>4 DEF Idle, Begun, Ends
  <2>5. CASE Closes
    BY <2>1, <2>2, <2>5 DEF Closes, Begun
  <2>6. CASE SeekEnd
    <3>1. handle \in 1 .. MaxFiles
      BY <2>6, FileTypes DEF SeekEnd, ControlInv
    <3>2. Last(T).line \notin Finished(files[handle])
      <4>1. CASE handle = at[p]
        BY <2>3, <4>1 DEF Finished
      <4>2. CASE handle # at[p]
        <5>1. \A i \in DOMAIN files[handle] : files[handle][i].line[2] # Last(T).line[2]
          <6>1. handle < at[p] \/ at[p] < handle
            BY <2>3, <3>1, <4>2, Limits
          <6>2. \A i \in DOMAIN files[handle] : files[handle][i].line[2] \in Nat
            BY <3>1, LineNumbers
          <6> QED
            BY <2>3, <3>1, <6>1, <6>2 DEF FileInv
        <5> QED
          BY <5>1 DEF Finished, Ends
      <4> QED
        BY <4>1, <4>2
    <3>3. /\ pending' = <<>> /\ UNCHANGED <<reported, handle>>
          /\ historical' \subseteq historical \union Finished(files[handle])
      BY <2>6 DEF SeekEnd
    <3> QED
      BY <2>1, <2>2, <3>2, <3>3, NoEnds, EndsPrimed DEF Begun
  <2>7. CASE ReadNew
    <3>1. Opened
      BY <2>7 DEF ReadNew, Opened, Reading
    <3>2. ASSUME at[p] = handle, NEW i \in Ends(pending')
          PROVE  pending'[i].line[2] < Last(T).line[2]
      <4>1. i \in 1 .. Len(pending') /\ pending'[i].ends
        BY <2>7, <3>2, ReadIs DEF Ends
      <4>2. CASE i \in 1 .. Len(pending)
        <5>1. pending'[i] = pending[i] /\ i \in Ends(pending)
          BY <2>7, <4>1, <4>2, ReadIs DEF Ends
        <5> QED
          BY <2>2, <3>1, <3>2, <5>1 DEF Begun
      <4>3. CASE i \in Len(pending) + 1 .. Len(pending')
        <5>1. /\ offset + (i - Len(pending)) \in 1 .. Len(T)
              /\ pending'[i] = T[offset + (i - Len(pending))]
          BY <2>7, <3>2, <4>3, ReadIs
        <5>2. offset + (i - Len(pending)) \in Ends(T)
          BY <2>3, <4>1, <5>1 DEF Ends
        <5> QED
          BY <2>3, <5>1, <5>2
      <4> QED
        BY <2>7, <4>1, <4>2, <4>3, ReadIs
    <3>3. UNCHANGED <<reported, historical, handle>>
      BY <2>7, ReadIs
    <3> HIDE DEF T
    <3>4. Ends(pending)' = Ends(pending')
      BY EndsPrimed
    <3> QED
      BY <2>1, <2>2, <3>2, <3>3, <3>4 DEF Begun, T
  <2>8. CASE ConsumeLine
    <3> DEFINE end == Min(Ends(pending))
    <3>1. Opened
      BY <2>8, ConsumeIs DEF Opened
    <3>2. /\ end \in Ends(pending) /\ end \in DOMAIN pending
          /\ reported' \in {reported, Append(reported, pending[end].line)}
          /\ pending[end].line \in Lines
          /\ UNCHANGED <<handle, historical>>
      BY <2>8, ConsumeIs
    <3>3. \A i \in Ends(pending') : \E j \in Ends(pending) : pending'[i] = pending[j]
      BY <2>8, ConsumeIs
    <3> HIDE DEF end
    <3>4. pending[end].line[1] = p => pending[end].line[2] < Last(T).line[2]
      <4> HAVE pending[end].line[1] = p
      <4>1. handle <= at[p] /\ handle \in Nat
        <5>1. PendingPlace
          BY <3>1 DEF UnreadInv
        <5>2. handle \in Nat
          BY Limits DEF Typed
        <5> QED
          BY <2>2, <3>2, <5>1, <5>2 DEF PendingPlace
      <4>2. CASE handle = at[p]
        BY <2>2, <3>1, <3>2, <4>2 DEF Begun
      <4>3. CASE at[p] > handle
        BY <2>3, <3>1, <3>2, <4>3 DEF UnreadInv, PendingOlder
      <4> QED
        BY <2>3, <4>1, <4>2, <4>3
    <3>5. \A k \in DOMAIN reported' : reported'[k][1] = p => reported'[k][2] < Last(T).line[2]
      <4>1. reported \in Seq(Lines)
        BY DEF Typed
      <4>2. \A k \in DOMAIN reported : reported[k][1] = p => reported[k][2] < Last(T).line[2]
        BY <2>2 DEF Begun
      <4> HIDE DEF T
      <4>3. CASE reported' = reported
        BY <4>2, <4>3
      <4>4. CASE reported' = Append(reported, pending[end].line)
        BY <3>2, <3>4, <4>1, <4>2, <4>4, AppendProperties
      <4> QED
        BY <3>2, <4>3, <4>4
    <3>6. at[p] = handle => \A i \in Ends(pending') : pending'[i].line[2] < Last(T).line[2]
      BY <2>2, <3>1, <3>3 DEF Begun
    <3> QED
      BY <2>1, <2>2, <3>2, <3>5, <3>6, EndsPrimed DEF Begun
  <2> QED
    BY <1>6, <2>4, <2>5, <2>6, <2>7, <2>8, WorkerSteps
<1> QED
  BY <1>2, <1>3, <1>4, <1>5, <1>6 DEF Next, Game

LEMMA UnreadGrown ==
    ASSUME ReportInv, Opened, NEW q \in Logs, NEW piece \in Pieces, Grows(q, piece)
    PROVE  /\ RestUnread' /\ PendingFirst' /\ PendingOlder'
<1> USE DEF ReportInv
<1> DEFINE F == at[q]
           T == files[F]
           U == files'[F]
<1>1. /\ F \in 1 .. MaxFiles /\ Len(T) \in Nat /\ DOMAIN T = 1 .. Len(T)
      /\ DOMAIN U = 1 .. Len(T) + 1
      /\ \A i \in 1 .. Len(T) : U[i] = T[i]
      /\ U[Len(T) + 1] = piece
      /\ piece.line[2] \in Nat
      /\ LineTail(q, piece) => Len(T) > 0 /\ piece.line = T[Len(T)].line /\ Last(T) = T[Len(T)]
      /\ NewLine(q, piece) => piece.line[1] = q /\ piece.line[2] > lines
  BY GrownFile
<1>2. /\ \A f \in 1 .. MaxFiles : f # F => files'[f] = files[f]
      /\ UNCHANGED <<reported, historical, handle, offset, pending, at>>
      /\ Opened'
  BY OtherFiles DEF Opened, Reading, Worker, source
<1>3. NewLine(q, piece) \/ LineTail(q, piece)
  BY DEF Grows
<1>4. handle \in 1 .. MaxFiles
  BY FileTypes DEF Opened, Reading, ControlInv
<1>5. LineTail(q, piece) => Begun(q)
  BY DEF UnfinishedInv, Begun, LineTail
<1>6. \A i \in DOMAIN U : U[i] = piece \/ (i \in DOMAIN T /\ U[i] = T[i])
  BY <1>1
<1>7. RestUnread /\ PendingFirst /\ PendingOlder
  BY DEF UnreadInv
<1>8. piece.line[1] = q
  <2>1. LineTail(q, piece) => piece.line[1] = q
    <3>1. \A i \in DOMAIN T : T[i].line[1] = q
      BY DEF FileInv
    <3>2. LineTail(q, piece) => Len(T) \in DOMAIN T /\ piece.line = T[Len(T)].line
      BY <1>1
    <3> QED
      BY <3>1, <3>2
  <2> QED
    BY <1>1, <1>3, <2>1
<1>9. \A k \in DOMAIN reported : reported[k][2] \in Nat /\ reported[k][2] <= lines
  BY LineNumbers DEF NumbersInv
<1>10. lines \in Nat
  BY LineNumbers
<1>11. Unread(piece.line)
  <2>1. CASE NewLine(q, piece)
    <3>1. piece.line \notin historical
      BY <1>1, <1>10, <2>1 DEF NumbersInv
    <3> QED
      BY <1>1, <1>9, <1>10, <2>1, <3>1 DEF Unread
  <2>2. CASE LineTail(q, piece)
    BY <1>1, <1>5, <1>8, <2>2 DEF Begun, Unread
  <2> QED
    BY <1>3, <2>1, <2>2
<1>12. \A line : Unread(line)' = (line \notin historical /\
         \A k \in DOMAIN reported : reported[k][1] = line[1] => reported[k][2] < line[2])
  BY <1>2 DEF Unread
<1>13. RestUnread'
  <2> SUFFICES ASSUME NEW i \in DOMAIN files'[handle], i > offset, files'[handle][i].ends
               PROVE  Unread(files'[handle][i].line)
    BY <1>2, <1>12 DEF RestUnread, Unread
  <2>1. CASE handle = F /\ files'[handle][i] = piece
    BY <1>11, <2>1
  <2>2. CASE i \in DOMAIN files[handle] /\ files'[handle][i] = files[handle][i]
    BY <1>7, <2>2 DEF RestUnread
  <2> QED
    BY <1>2, <1>4, <1>6, <2>1, <2>2
<1>14. \A i \in DOMAIN pending : pending[i].line[2] \in Nat /\ pending[i].line[2] <= lines
  BY LineNumbers DEF NumbersInv
<1>15. PendingFirst'
  <2> SUFFICES ASSUME NEW i \in Ends(pending), NEW j \in DOMAIN files'[handle], j > offset
               PROVE  pending[i].line[2] < files'[handle][j].line[2]
    BY <1>2, EndsPrimed DEF PendingFirst
  <2>1. CASE handle = F /\ files'[handle][j] = piece
    <3>1. i \in DOMAIN pending
      BY DEF Ends
    <3>2. CASE NewLine(q, piece)
      BY <1>1, <1>10, <1>14, <2>1, <3>1, <3>2
    <3>3. CASE LineTail(q, piece)
      BY <1>1, <1>5, <2>1, <3>3 DEF Begun
    <3> QED
      BY <1>3, <3>2, <3>3
  <2>2. CASE j \in DOMAIN files[handle] /\ files'[handle][j] = files[handle][j]
    BY <1>7, <2>2 DEF PendingFirst
  <2> QED
    BY <1>2, <1>4, <1>6, <2>1, <2>2
<1>16. PendingOlder'
  <2> SUFFICES ASSUME NEW i \in DOMAIN pending, NEW g \in 1 .. MaxFiles, g > handle,
                      NEW j \in DOMAIN files'[g]
               PROVE  pending[i].line[2] < files'[g][j].line[2]
    BY <1>2 DEF PendingOlder
  <2>1. CASE g = F /\ files'[g][j] = piece
    <3>1. CASE NewLine(q, piece)
      BY <1>1, <1>10, <1>14, <2>1, <3>1
    <3>2. CASE LineTail(q, piece)
      <4>1. Len(T) \in DOMAIN T
        BY <1>1, <3>2
      <4> QED
        BY <1>1, <1>7, <2>1, <3>2, <4>1 DEF PendingOlder
    <3> QED
      BY <1>3, <3>1, <3>2
  <2>2. CASE j \in DOMAIN files[g] /\ files'[g][j] = files[g][j]
    BY <1>7, <2>2 DEF PendingOlder
  <2> QED
    BY <1>2, <1>6, <2>1, <2>2
<1> QED
  BY <1>13, <1>15, <1>16

LEMMA UnreadRead ==
    ASSUME ReportInv, ReadNew
    PROVE  /\ PendingUnread' /\ RestUnread' /\ PendingSorted'
           /\ PendingFirst' /\ PendingOlder' /\ PendingPlace'
<1> USE DEF ReportInv
<1> DEFINE T == files[handle]
           new(i) == offset + (i - Len(pending))
<1>1. /\ handle \in 1 .. MaxFiles
      /\ Len(T) \in Nat /\ DOMAIN T = 1 .. Len(T)
      /\ offset' \in Nat /\ offset' >= Len(T)
      /\ Len(pending) \in Nat /\ DOMAIN pending = 1 .. Len(pending)
      /\ pending' \in Seq(Pieces) /\ Len(pending') \in Nat
      /\ \A i \in 1 .. Len(pending) : pending'[i] = pending[i]
      /\ \A i \in Len(pending) + 1 .. Len(pending') :
           new(i) \in 1 .. Len(T) /\ new(i) > offset /\ pending'[i] = T[new(i)]
      /\ UNCHANGED <<files, at, created, lines, handle, reported, historical>>
  BY ReadIs
<1>2. Opened
  BY DEF ReadNew, Opened, Reading
<1>3. /\ PendingUnread /\ RestUnread /\ PendingSorted
      /\ PendingFirst /\ PendingOlder /\ PendingPlace
  BY <1>2 DEF UnreadInv
<1>4. offset \in Nat
  BY DEF Typed
<1>5. DOMAIN pending' = 1 .. Len(pending')
  BY <1>1
<1>6. \A i \in DOMAIN pending' :
        \/ i \in 1 .. Len(pending) /\ i \in DOMAIN pending /\ pending'[i] = pending[i]
        \/ i \in Len(pending) + 1 .. Len(pending')
  BY <1>1, <1>5
<1>7. Sorted(T)
  BY <1>1 DEF TextInv
<1> HIDE DEF T
<1>8. \A i \in Ends(pending') :
        \/ i \in 1 .. Len(pending) /\ i \in Ends(pending) /\ pending'[i] = pending[i]
        \/ i \in Len(pending) + 1 .. Len(pending') /\ new(i) \in Ends(T)
  BY <1>1, <1>6 DEF Ends
<1>9. ASSUME NEW line
      PROVE  Unread(line)' = Unread(line)
  BY <1>1 DEF Unread
<1>10. PendingUnread'
  <2> SUFFICES ASSUME NEW i \in Ends(pending')
               PROVE  Unread(pending'[i].line)
    BY <1>1, EndsPrimed DEF PendingUnread, Unread
  <2>1. CASE i \in Ends(pending) /\ pending'[i] = pending[i]
    BY <1>3, <2>1 DEF PendingUnread
  <2>2. CASE i \in Len(pending) + 1 .. Len(pending') /\ new(i) \in Ends(T)
    BY <1>1, <1>3, <2>2 DEF RestUnread, Ends, T
  <2> QED
    BY <1>8, <2>1, <2>2
<1>11. \A j \in DOMAIN T : ~ (j > offset')
  BY <1>1
<1>12. RestUnread' /\ PendingFirst'
  BY <1>1, <1>11 DEF RestUnread, PendingFirst, T
<1>13. PendingSorted'
  <2> SUFFICES ASSUME NEW i \in Ends(pending'), NEW j \in Ends(pending'), i < j
               PROVE  pending'[i].line[2] < pending'[j].line[2]
    BY EndsPrimed DEF PendingSorted
  <2>1. CASE j \in 1 .. Len(pending)
    <3>1. i \in Ends(pending) /\ j \in Ends(pending) /\ pending'[i] = pending[i]
          /\ pending'[j] = pending[j]
      BY <1>1, <1>8, <2>1
    <3> QED
      BY <1>3, <3>1 DEF PendingSorted
  <2>2. CASE j \in Len(pending) + 1 .. Len(pending') /\ new(j) \in Ends(T)
    <3>1. pending'[j] = T[new(j)] /\ new(j) \in DOMAIN T /\ new(j) > offset
      BY <1>1, <2>2
    <3>2. CASE i \in Ends(pending) /\ pending'[i] = pending[i]
      BY <1>3, <3>1, <3>2 DEF PendingFirst, T
    <3>3. CASE i \in Len(pending) + 1 .. Len(pending') /\ new(i) \in Ends(T)
      <4>1. pending'[i] = T[new(i)] /\ new(i) \in DOMAIN T /\ T[new(i)].ends
        BY <1>1, <3>3 DEF Ends
      <4>2. i \in Nat /\ j \in Nat /\ Len(pending) \in Nat
        BY <1>1, <1>5, <2>2, <3>3
      <4>3. new(i) < new(j)
        BY <1>4, <4>2
      <4> QED
        BY <1>7, <3>1, <4>1, <4>3 DEF Sorted
    <3> QED
      BY <1>8, <3>2, <3>3
  <2> QED
    BY <1>8, <2>1, <2>2
<1>14. PendingOlder'
  <2> SUFFICES ASSUME NEW i \in DOMAIN pending', NEW g \in 1 .. MaxFiles, g > handle,
                      NEW j \in DOMAIN files[g]
               PROVE  pending'[i].line[2] < files[g][j].line[2]
    BY <1>1 DEF PendingOlder
  <2>1. CASE i \in DOMAIN pending /\ pending'[i] = pending[i]
    BY <1>3, <2>1 DEF PendingOlder
  <2>2. CASE i \in Len(pending) + 1 .. Len(pending')
    <3>1. pending'[i] = T[new(i)] /\ new(i) \in DOMAIN T
      BY <1>1, <2>2
    <3> QED
      BY <1>1, <3>1 DEF FileInv, T
  <2> QED
    BY <1>6, <2>1, <2>2
<1>15. PendingPlace'
  <2>1. Logs' = Logs
    BY <1>1 DEF Logs
  <2> SUFFICES ASSUME NEW i \in DOMAIN pending', NEW p \in Logs, pending'[i].line[1] = p
               PROVE  handle <= at[p]
    BY <1>1, <2>1 DEF PendingPlace
  <2>2. CASE i \in DOMAIN pending /\ pending'[i] = pending[i]
    BY <1>3, <2>2 DEF PendingPlace
  <2>3. CASE i \in Len(pending) + 1 .. Len(pending')
    <3>1. pending'[i] = T[new(i)] /\ new(i) \in DOMAIN T
      BY <1>1, <2>3
    <3> QED
      BY <1>1, <3>1 DEF FileInv, T
  <2> QED
    BY <1>6, <2>2, <2>3
<1> QED
  BY <1>10, <1>12, <1>13, <1>14, <1>15

LEMMA UnreadConsumed ==
    ASSUME ReportInv, ConsumeLine
    PROVE  /\ PendingUnread' /\ RestUnread' /\ PendingSorted'
           /\ PendingFirst' /\ PendingOlder' /\ PendingPlace'
           /\ ReportedOnce'
<1> USE DEF ReportInv
<1> DEFINE end == Min(Ends(pending))
<1>1. /\ end \in Ends(pending) /\ end \in 1 .. Len(pending)
      /\ DOMAIN pending = 1 .. Len(pending) /\ DOMAIN pending' = 1 .. Len(pending')
      /\ \A i \in Ends(pending) : end <= i
      /\ pending' \in Seq(Pieces) /\ Len(pending) \in Nat
      /\ \A i \in 1 .. Len(pending') :
           pending'[i] = pending[end + i] /\ end + i \in 1 .. Len(pending)
      /\ \A i \in Ends(pending') :
           /\ i \in 1 .. Len(pending') /\ end + i \in Ends(pending) /\ end < end + i
           /\ pending'[i] = pending[end + i]
      /\ reported' \in {reported, Append(reported, pending[end].line)}
      /\ pending[end].line \in Lines
      /\ UNCHANGED <<files, at, created, lines, handle, offset, historical>>
      /\ Reading
  BY ConsumeIs
<1>2. /\ PendingUnread /\ RestUnread /\ PendingSorted
      /\ PendingFirst /\ PendingOlder /\ PendingPlace
  BY <1>1 DEF UnreadInv, Opened
<1> HIDE DEF end
<1> DEFINE line == pending[end].line
<1>3. Unread(line)
  BY <1>1, <1>2 DEF PendingUnread
<1>4. /\ reported \in Seq(Lines) /\ DOMAIN reported = 1 .. Len(reported) /\ Len(reported) \in Nat
      /\ line[2] \in Nat
  <2>1. line[2] \in Nat
    BY <1>1, LineNumbers
  <2>2. reported \in Seq(Lines)
    BY DEF Typed
  <2> QED
    BY <2>1, <2>2
<1> HIDE DEF line
<1>5. \A k \in DOMAIN reported' :
        \/ k \in DOMAIN reported /\ reported'[k] = reported[k]
        \/ k = Len(reported) + 1 /\ reported'[k] = line
  BY <1>1, <1>4, AppendProperties DEF line
<1> DEFINE Later(other) ==
             /\ other \notin historical'
             /\ \A k \in DOMAIN reported' : reported'[k][1] = other[1] => reported'[k][2] < other[2]
<1>6. ASSUME NEW other, Unread(other), line[2] < other[2]
      PROVE  Later(other)
  BY <1>1, <1>5, <1>6 DEF Unread
<1>7. ASSUME NEW i \in Ends(pending')
      PROVE  Later(pending'[i].line)
  <2>1. /\ end + i \in Ends(pending) /\ end < end + i /\ pending'[i] = pending[end + i]
    BY <1>1
  <2>2. Unread(pending[end + i].line)
    BY <1>2, <2>1 DEF PendingUnread
  <2>3. line[2] < pending[end + i].line[2]
    BY <1>1, <1>2, <2>1 DEF PendingSorted, line
  <2> QED
    BY <1>6, <2>1, <2>2, <2>3
<1>8. PendingUnread'
  BY <1>7, EndsPrimed DEF PendingUnread, Unread
<1>9. RestUnread'
  <2> SUFFICES ASSUME NEW i \in DOMAIN files[handle], i > offset, files[handle][i].ends
               PROVE  Later(files[handle][i].line)
    BY <1>1 DEF RestUnread, Unread
  <2>1. Unread(files[handle][i].line)
    BY <1>2 DEF RestUnread
  <2>2. line[2] < files[handle][i].line[2]
    BY <1>1, <1>2 DEF PendingFirst, line
  <2> QED
    BY <1>6, <2>1, <2>2
<1>10. PendingSorted'
  <2> SUFFICES ASSUME NEW i \in Ends(pending'), NEW j \in Ends(pending'), i < j
               PROVE  pending'[i].line[2] < pending'[j].line[2]
    BY EndsPrimed DEF PendingSorted
  <2>1. end + i < end + j
    BY <1>1
  <2> QED
    BY <1>1, <1>2, <2>1 DEF PendingSorted
<1>11. PendingFirst'
  BY <1>1, <1>2, EndsPrimed DEF PendingFirst
<1>12. \A i \in DOMAIN pending' : \E j \in DOMAIN pending : pending'[i] = pending[j]
  BY <1>1
<1>13. PendingOlder' /\ PendingPlace'
  <2>1. Logs' = Logs
    BY <1>1 DEF Logs
  <2> QED
    BY <1>1, <1>2, <1>12, <2>1, SMTT(30) DEF PendingOlder, PendingPlace
<1>14. ReportedOnce'
  <2>1. ReportedInOrder'
    <3> SUFFICES ASSUME NEW i \in DOMAIN reported', NEW j \in DOMAIN reported', i < j,
                        reported'[i][1] = reported'[j][1]
                 PROVE  reported'[i][2] < reported'[j][2]
      BY DEF ReportedInOrder
    <3>1. DOMAIN reported' \subseteq 1 .. Len(reported) + 1
      BY <1>4, <1>5
    <3>2. i \in DOMAIN reported /\ reported'[i] = reported[i]
      BY <1>4, <1>5, <3>1
    <3>3. CASE j \in DOMAIN reported /\ reported'[j] = reported[j]
      BY <3>2, <3>3 DEF ReportedOnce, ReportedInOrder
    <3>4. CASE reported'[j] = line
      BY <1>3, <3>2, <3>4 DEF Unread
    <3> QED
      BY <1>5, <3>3, <3>4
  <2>2. NoReplay'
    <3>1. \A k \in DOMAIN reported : reported[k] \notin historical
      BY DEF ReportedOnce, NoReplay
    <3>2. line \notin historical
      BY <1>3 DEF Unread
    <3> QED
      BY <1>1, <1>5, <3>1, <3>2 DEF NoReplay
  <2> QED
    BY <2>1, <2>2 DEF ReportedOnce
<1> QED
  BY <1>8, <1>9, <1>10, <1>11, <1>13, <1>14

LEMMA UnreadStep ==
    ASSUME ReportInv, [Next]_vars
    PROVE  UnreadInv' /\ ReportedOnce'
<1> USE DEF ReportInv
<1>1. CASE WriteLine \/ WriteHalf \/ FinishLine
  <2>1. PICK q \in Logs, piece \in Pieces : Grows(q, piece)
    BY <1>1, WriteSteps
  <2>2. UNCHANGED <<at, Worker, reported, historical>> /\ Logs' = Logs
    BY <2>1, OtherFiles
  <2>3. Opened' = Opened
    BY <2>2 DEF Opened, Reading, Worker
  <2>4. Opened => RestUnread' /\ PendingFirst' /\ PendingOlder'
    BY <2>1, UnreadGrown
  <2>5. Opened => PendingUnread' /\ PendingSorted' /\ PendingPlace'
    BY <2>2 DEF UnreadInv, PendingUnread, PendingSorted, PendingPlace, Unread, Ends, Worker,
       source
  <2> QED
    BY <2>2, <2>3, <2>4, <2>5 DEF UnreadInv, ReportedOnce, ReportedInOrder, NoReplay
<1>2. CASE TruncateLog
  <2>1. \A f \in 1 .. MaxFiles : \A i \in DOMAIN files'[f] :
          i \in DOMAIN files[f] /\ files'[f] = files[f]
    BY <1>2, TruncateIs
  <2>2. UNCHANGED <<at, Worker, reported, historical>> /\ Logs' = Logs
    BY <1>2, TruncateIs
  <2>3. Opened' = Opened
    BY <2>2 DEF Opened, Reading, Worker
  <2>4. Opened => handle \in 1 .. MaxFiles
    BY FileTypes DEF Opened, Reading, ControlInv
  <2>5. Opened => RestUnread' /\ PendingFirst' /\ PendingOlder'
    BY <2>1, <2>2, <2>4 DEF UnreadInv, RestUnread, PendingFirst, PendingOlder, Unread, Ends,
       Worker, source
  <2>6. Opened => PendingUnread' /\ PendingSorted' /\ PendingPlace'
    BY <2>2 DEF UnreadInv, PendingUnread, PendingSorted, PendingPlace, Unread, Ends, Worker,
       source
  <2> QED
    BY <2>2, <2>3, <2>5, <2>6 DEF UnreadInv, ReportedOnce, ReportedInOrder, NoReplay
<1>3. CASE MoveLog \/ CreateLog
  <2>1. UNCHANGED <<files, Worker, reported, historical>>
    BY <1>3, MoveIs, CreateIs
  <2>2. \A p \in Logs' : (p \in Logs /\ at'[p] = at[p]) \/ at'[p] = created + 1
    <3>1. CASE MoveLog
      BY <3>1, MoveIs
    <3>2. CASE CreateLog
      <4>1. PICK p \in Places : /\ Logs' = Logs \union {p}
                                /\ at'[p] = created + 1
                                /\ \A q \in Places : q # p => at'[q] = at[q]
        BY <3>2, CreateIs
      <4> QED
        BY <4>1 DEF Logs
    <3> QED
      BY <1>3, <3>1, <3>2
  <2>3. handle <= created + 1
    BY Limits DEF FileInv, Typed
  <2>4. Opened' = Opened
    BY <2>1 DEF Opened, Reading, Worker
  <2>5. Opened => PendingPlace'
    BY <2>1, <2>2, <2>3 DEF UnreadInv, PendingPlace, Worker, source
  <2>6. Opened => /\ PendingUnread' /\ RestUnread' /\ PendingSorted'
                  /\ PendingFirst' /\ PendingOlder'
    BY <2>1 DEF UnreadInv, PendingUnread, RestUnread, PendingSorted, PendingFirst,
       PendingOlder, Unread, Ends, Worker, source
  <2> QED
    BY <2>1, <2>4, <2>5, <2>6 DEF UnreadInv, ReportedOnce, ReportedInOrder, NoReplay
<1>4. CASE Idle
  <2>1. /\ UNCHANGED <<files, at, handle, offset, pending, reported, historical>>
        /\ Opened' => Opened /\ Logs' = Logs
    BY <1>4 DEF Idle, Logs
  <2>2. Opened' => /\ PendingUnread' /\ RestUnread' /\ PendingSorted'
                   /\ PendingFirst' /\ PendingOlder' /\ PendingPlace'
    BY <2>1 DEF UnreadInv, PendingUnread, RestUnread, PendingSorted, PendingFirst,
       PendingOlder, PendingPlace, Unread, Ends
  <2> QED
    BY <2>1, <2>2 DEF UnreadInv, ReportedOnce, ReportedInOrder, NoReplay
<1>5. CASE Closes
  BY <1>5 DEF Closes, UnreadInv, ReportedOnce, ReportedInOrder, NoReplay
<1>6. CASE SeekEnd
  <2>1. /\ pending' = <<>> /\ offset' = Len(files[handle]) /\ handle' = handle
        /\ files' = files /\ reported' = reported
        /\ historical' = historical \union (Finished(files[handle]) \ ToSet(reported))
    BY <1>6 DEF SeekEnd, game
  <2>2. handle \in 1 .. MaxFiles
    BY <1>6, FileTypes DEF SeekEnd, ControlInv
  <2>3. \A i \in DOMAIN files[handle] : ~ (i > Len(files[handle]))
    BY <2>2, FileTypes
  <2>4. RestUnread' /\ PendingFirst'
    BY <2>1, <2>3, NoEnds, EndsPrimed DEF RestUnread, PendingFirst
  <2>5. PendingUnread' /\ PendingSorted' /\ PendingOlder' /\ PendingPlace'
    BY <2>1, NoEnds, EndsPrimed DEF PendingUnread, PendingSorted, PendingOlder, PendingPlace
  <2>6. NoReplay'
    BY <2>1 DEF ReportedOnce, NoReplay, ToSet
  <2> QED
    BY <2>1, <2>4, <2>5, <2>6 DEF UnreadInv, ReportedOnce, ReportedInOrder
<1>7. CASE ReadNew
  <2>1. UNCHANGED <<reported, historical>>
    BY <1>7 DEF ReadNew
  <2> QED
    BY <1>7, <2>1, UnreadRead DEF UnreadInv, ReportedOnce, ReportedInOrder, NoReplay
<1>8. CASE ConsumeLine
  BY <1>8, UnreadConsumed DEF UnreadInv
<1> QED
  BY <1>1, <1>2, <1>3, <1>4, <1>5, <1>6, <1>7, <1>8, WorkerSteps DEF Next, Game

LEMMA ReportInit == Init => ReportInv
<1> SUFFICES ASSUME Init
             PROVE  ReportInv
  OBVIOUS
<1> USE Limits, NoEnds DEF Init
<1>1. Logs = {}
  BY DEF Logs
<1>2. \E snapshot \in Snapshots : seen = Taken(snapshot)
  OBVIOUS
<1>3. seen.running \in BOOLEAN /\ seen.candidates \subseteq Places
  BY <1>2, SnapshotTypes
<1>4. <<>> \in Seq(Pieces) /\ <<>> \in Seq(Lines)
  OBVIOUS
<1>5. Typed
  <2>1. files \in [1 .. MaxFiles -> Seq(Pieces)] /\ pending \in Seq(Pieces)
        /\ reported \in Seq(Lines)
    BY <1>4
  <2>2. /\ at \in [Places -> 0 .. MaxFiles]
        /\ created \in 0 .. MaxFiles /\ lines \in 0 .. MaxLines
        /\ {identity, handle, scanning} \subseteq 0 .. MaxFiles
    OBVIOUS
  <2>3. {mode, context} \subseteq Modes
    BY DEF Modes
  <2> QED
    BY <1>3, <2>1, <2>2, <2>3 DEF Typed
<1>6. ControlInv /\ NumbersInv /\ TextInv
  BY DEF ControlInv, NumbersInv, TextInv, Sorted
<1>7. FileInv
  BY <1>1 DEF FileInv
<1>8. UnfinishedInv /\ UnreadInv /\ ReportedOnce
  BY <1>1 DEF UnfinishedInv, UnreadInv, Opened, Reading, ReportedOnce, ReportedInOrder,
     NoReplay
<1> QED
  BY <1>5, <1>6, <1>7, <1>8 DEF ReportInv

LEMMA ReportStep == ReportInv /\ [Next]_vars => ReportInv'
  BY TypedStep, ControlStep, NumbersStep, TextStep, FileStep, UnfinishedStep, UnreadStep
     DEF ReportInv

(* The tailer has a file and a place whenever it reads, and a complete line *)
(* is held only while the lines of a poll are consumed.                     *)
THEOREM LogTailTypes == Spec => []TypeOK
<1>1. ReportInv => TypeOK
  <2> SUFFICES ASSUME ReportInv
               PROVE  TypeOK
    OBVIOUS
  <2>1. \A f \in 1 .. MaxFiles : \A i \in DOMAIN files[f] :
          files[f][i].line \in Places \X (1 .. lines)
    <3> SUFFICES ASSUME NEW f \in 1 .. MaxFiles, NEW i \in DOMAIN files[f]
                 PROVE  files[f][i].line \in Places \X (1 .. lines)
      OBVIOUS
    <3>1. files[f][i].line \in Lines /\ files[f][i].line[2] <= lines /\ lines \in Nat
      BY LineNumbers DEF ReportInv, NumbersInv
    <3> QED
      BY <3>1, Limits DEF Lines
  <2> QED
    BY <2>1 DEF ReportInv, Typed, ControlInv, TypeOK
<1> QED
  BY <1>1, ReportInit, ReportStep, PTL DEF Spec

(* What is reported is fresh, once, and in the order of the log, whatever   *)
(* the game does to its files between two operations of the tailer.         *)
THEOREM LogTailReportedOnce == Spec => []ReportedOnce
<1>1. ReportInv => ReportedOnce
  BY DEF ReportInv
<1> QED
  BY <1>1, ReportInit, ReportStep, PTL DEF Spec
-----------------------------------------------------------------------------
(* The mode.  A file that was neither replaced nor truncated since it was   *)
(* opened has been read as far as it goes, and the lines that were taken,   *)
(* as context or as they came, add up to the mode of somebody who has       *)
(* followed the file.                                                       *)

(* That mode, with what the first piece of an unfinished line shows.        *)
Gist(text, i) ==
    IF i > 0 /\ ~text[i].ends /\ text[i].shows THEN LiveMode(text[i].live, text[i].kind)
    ELSE ModeAt(text, i)

Attached == Opened /\ at[place] = handle /\ ~truncated

(* How much of the file has gone through the parser.                        *)
Taking == offset - Len(pending)

Held ==
    /\ offset <= Len(files[handle]) /\ Len(pending) <= offset
    /\ \A i \in DOMAIN pending : pending[i] = files[handle][Taking + i]

(* A parser that was built from lines as context takes those among them     *)
(* once more that came after the file was opened.                           *)
ModeTaken ==
    \/ mode = Gist(files[handle], Taking)
    \/ Taking < since /\ mode = Gist(files[handle], since)

EventsTaken ==
    \A i \in since + 1 .. Taking :
        files[handle][i].kind = "event" /\ files[handle][i].ends
        /\ (i > since + 1 \/ files[handle][i].shows)
            => files[handle][i].line \in ToSet(reported)

TailInv ==
    Attached =>
        /\ Held
        /\ pc \in {"scan_open", "scan"} => pending = <<>>
        /\ pc = "scan" => /\ scanning = handle /\ scanned <= Len(files[handle])
                          /\ context = Gist(files[handle], scanned)
        /\ Reading => /\ since <= Len(files[handle])
                      /\ ModeTaken
                      /\ Taking > since => files[handle][Taking].ends
                      /\ EventsTaken

LEMMA LiveModeFacts ==
    ASSUME NEW m \in Modes, NEW kind \in Kinds
    PROVE  /\ LiveMode(m, "other") = m
           /\ LiveMode(LiveMode(m, kind), kind) = LiveMode(m, kind)
           /\ LiveMode(m, "event") = "master_sword" => Accepts(m)
           /\ kind \notin Activity => ContextMode(m, kind) = LiveMode(m, kind)
           /\ kind \in ModeKinds => \A n \in Modes : LiveMode(n, kind) = LiveMode(m, kind)
           /\ kind \notin ModeKinds => LiveMode(m, kind) \in {m, "master_sword"}
           /\ kind \notin ModeKinds /\ kind \notin Activity => LiveMode(m, kind) = m
           /\ ContextMode(m, kind) \in {LiveMode(m, kind), "master_sword"}
<1> USE UpdateModeIs DEF LiveMode, ContextMode, Accepts, Modes, ModeKinds, Activity, Kinds
<1>1. LiveMode(m, "other") = m
  OBVIOUS
<1>2. CASE kind \in {"event", "raid_open"}
  BY <1>1, <1>2
<1>3. CASE kind = "raid_close" \/ kind = "other"
  BY <1>1, <1>3
<1>4. CASE kind = "reborn"
  BY <1>1, <1>4
<1>5. CASE kind = "lobby"
  BY <1>1, <1>5
<1>6. CASE kind = "unload"
  BY <1>1, <1>6
<1> QED
  BY <1>2, <1>3, <1>4, <1>5, <1>6

(* The text b ends the line, or what there is of it, that starts behind a.  *)
NextEnd(text, a, b) ==
    /\ b \in a + 1 .. Len(text)
    /\ text[b].ends \/ b = Len(text)
    /\ \A i \in a + 1 .. b - 1 : ~text[i].ends

Fitting(text) == \A i \in DOMAIN text : Fits(text, i)

LEMMA KindOfOne ==
    ASSUME NEW x \in Pieces, NEW text \in Seq(Pieces), Len(text) = 1, text[1] = x
    PROVE  KindOf(text) = IF x.shows THEN x.kind ELSE "other"
<1> DEFINE showing == {i \in DOMAIN text : text[i].shows}
<1>1. showing = IF x.shows THEN {1} ELSE {}
  OBVIOUS
<1>2. x.shows => Min(showing) = 1
  <2> SUFFICES ASSUME x.shows PROVE Min({1}) = 1
    BY <1>1
  <2>1. {1} \in SUBSET Nat /\ {1} # {}
    OBVIOUS
  <2>2. Min({1}) \in {1}
    BY <2>1, LeastOf
  <2> QED
    BY <2>2
<1> HIDE DEF showing
<1>3. KindOf(text) = IF showing = {} THEN "other" ELSE text[Min(showing)].kind
  BY DEF KindOf, showing
<1> QED
  BY <1>1, <1>2, <1>3

LEMMA KindOfTwo ==
    ASSUME NEW text \in Seq(Pieces), Len(text) = 2,
           text[1].kind = text[2].kind, text[1].shows \/ text[2].shows
    PROVE  KindOf(text) = text[2].kind
<1> DEFINE showing == {i \in DOMAIN text : text[i].shows}
<1>1. DOMAIN text = {1, 2}
  OBVIOUS
<1>2. showing # {} /\ showing \subseteq {1, 2} /\ showing \subseteq Nat
  BY <1>1
<1>3. Min(showing) \in {1, 2}
  BY <1>2, LeastOf
<1> HIDE DEF showing
<1>4. KindOf(text) = text[Min(showing)].kind
  BY <1>2 DEF KindOf, showing
<1> QED
  BY <1>3, <1>4

(* What a line of this kind does to the gist of what came before it.        *)
LineTaken(text, a, b, kind) ==
    /\ kind \in Kinds
    /\ Gist(text, a) \in Modes
    /\ LiveMode(Gist(text, a), kind) = Gist(text, b)
    /\ kind \in Activity => Gist(text, b) = "master_sword"
    /\ text[b].kind = "event" /\ text[b].ends /\ (a = 0 \/ text[a].ends \/ text[b].shows)
         => kind = "event"
    /\ \A s \in a + 1 .. b - 1 :
         /\ s = b - 1
         /\ Gist(text, s) \in Modes
         /\ LiveMode(Gist(text, s), kind) = Gist(text, b)
         /\ text[b].shows => Gist(text, s) = Gist(text, a)

LEMMA Segment ==
    ASSUME ~EventsAnywhere,
           NEW text \in Seq(Pieces), Fitting(text),
           NEW a \in Nat, NEW b \in Nat, NextEnd(text, a, b)
    PROVE  LineTaken(text, a, b, KindOf(SubSeq(text, a + 1, b)))
<1> DEFINE line == SubSeq(text, a + 1, b)
           kind == KindOf(line)
<1> SUFFICES LineTaken(text, a, b, kind)
  OBVIOUS
<1>1. /\ Len(text) \in Nat /\ DOMAIN text = 1 .. Len(text)
      /\ b \in 1 .. Len(text) /\ a < b
      /\ \A i \in 1 .. Len(text) :
           /\ text[i] \in Pieces /\ text[i].kind \in Kinds /\ text[i].live \in Modes
           /\ text[i].shows \in BOOLEAN /\ text[i].ends \in BOOLEAN
  <2>1. Len(text) \in Nat /\ DOMAIN text = 1 .. Len(text)
    OBVIOUS
  <2>2. b \in 1 .. Len(text) /\ a < b
    <3>1. b \in a + 1 .. Len(text)
      BY DEF NextEnd
    <3> QED
      BY <2>1, <3>1
  <2>3. \A i \in 1 .. Len(text) : text[i] \in Pieces
    BY <2>1
  <2> QED
    BY <2>1, <2>2, <2>3 DEF Pieces
<1>2. /\ line \in Seq(Pieces) /\ Len(line) = b - a
      /\ \A i \in 1 .. b - a : line[i] = text[a + i]
  <2>1. \A i \in a + 1 .. b : text[i] \in Pieces
    BY <1>1
  <2>2. a + 1 \in Int /\ b \in Int
    OBVIOUS
  <2>3. /\ line \in Seq(Pieces) /\ Len(line) = IF a + 1 <= b THEN b - (a + 1) + 1 ELSE 0
        /\ \A i \in 1 .. b - (a + 1) + 1 : line[i] = text[a + 1 + i - 1]
    BY <2>1, <2>2, SubSeqProperties
  <2> HIDE DEF line
  <2>4. Len(line) = b - a
    BY <1>1, <2>3
  <2>5. ASSUME NEW i \in 1 .. b - a
        PROVE  line[i] = text[a + i]
    <3>1. a + 1 + i - 1 = a + i /\ i \in 1 .. b - (a + 1) + 1
      OBVIOUS
    <3> QED
      BY <2>3, <3>1
  <2> QED
    BY <2>3, <2>4, <2>5
<1>3. kind \in Kinds
  BY <1>2, KindOfType
<1>4. \A i \in 0 .. Len(text) : ModeAt(text, i) \in Modes
  BY ModeAtType
<1>5. \A i \in 0 .. Len(text) : Gist(text, i) \in Modes
  BY <1>1, <1>4, ModeTypes DEF Gist
<1>6. \A i \in 1 .. Len(text) : Fits(text, i)
  BY <1>1 DEF Fitting
<1>7. a \in 0 .. Len(text)
  BY <1>1
<1> HIDE DEF line
<1> DEFINE m == ModeAt(text, a)
           k == text[b].kind
<1>8. m \in Modes /\ k \in Kinds
  BY <1>1, <1>4, <1>7
<1>9. CASE b = a + 1
  <2>1. kind = IF text[b].shows THEN k ELSE "other"
    <3>1. Len(line) = 1 /\ line[1] = text[b]
      BY <1>2, <1>9
    <3> QED
      BY <1>1, <1>2, <3>1, KindOfOne
  <2>2. b - 1 = a
    BY <1>9
  <2>3. \A s : s \notin a + 1 .. b - 1
    BY <1>9
  <2>4. CASE a = 0 \/ text[a].ends
    <3>1. Gist(text, a) = m
      BY <2>4 DEF Gist
    <3>2. text[b].live = IF text[b].ends THEN LiveMode(m, k) ELSE m
      BY <1>1, <1>6, <2>2 DEF Fits
    <3>3. k \in Activity => LiveMode(m, k) = "master_sword"
      BY <1>1, <1>6, <2>2 DEF Fits
    <3>4. text[b].ends => text[b].shows
      BY <1>1, <1>6, <1>9, <2>2, <2>4 DEF Fits
    <3>5. Gist(text, b) = IF text[b].shows THEN LiveMode(m, k) ELSE m
      BY <1>1, <3>2, <3>4 DEF Gist, ModeAt
    <3>6. LiveMode(m, "other") = m
      BY <1>8, LiveModeFacts
    <3>7. "other" \notin Activity
      BY DEF Activity
    <3>8. LiveMode(Gist(text, a), kind) = Gist(text, b)
      BY <2>1, <3>1, <3>5, <3>6
    <3>9. kind \in Activity => Gist(text, b) = "master_sword"
      BY <2>1, <3>3, <3>5, <3>7
    <3>10. k = "event" /\ text[b].ends => kind = "event"
      BY <2>1, <3>4
    <3> HIDE DEF kind
    <3> QED
      BY <1>3, <1>5, <1>7, <2>3, <3>8, <3>9, <3>10 DEF LineTaken
  <2>5. CASE a # 0 /\ ~text[a].ends
    <3>1. /\ text[b].ends /\ text[a].kind = k /\ text[b].shows # text[a].shows
          /\ text[b].live = LiveMode(m, k)
          /\ k \in Activity => LiveMode(m, k) = "master_sword"
      BY <1>1, <1>6, <1>9, <2>2, <2>5 DEF Fits
    <3>2. m = text[a].live
      BY <2>5 DEF ModeAt
    <3>3. Gist(text, a) = IF text[a].shows THEN LiveMode(m, k) ELSE m
      BY <1>7, <2>5, <3>1, <3>2 DEF Gist
    <3>4. Gist(text, b) = LiveMode(m, k)
      BY <1>1, <3>1 DEF Gist, ModeAt
    <3>5. LiveMode(m, k) \in Modes
      BY <1>8, ModeTypes
    <3>6. LiveMode(LiveMode(m, k), "other") = LiveMode(m, k)
      BY <3>5, LiveModeFacts, <1>8
    <3>7. "other" \notin Activity
      BY DEF Activity
    <3>8. text[a].shows \in BOOLEAN /\ text[b].shows \in BOOLEAN
      BY <1>1, <1>7, <2>5
    <3>9. LiveMode(Gist(text, a), kind) = Gist(text, b)
      BY <2>1, <3>1, <3>3, <3>4, <3>6, <3>8
    <3>10. kind \in Activity => Gist(text, b) = "master_sword"
      BY <2>1, <3>1, <3>4, <3>7
    <3>11. k = "event" /\ text[b].ends /\ text[b].shows => kind = "event"
      BY <2>1
    <3> HIDE DEF kind
    <3> QED
      BY <1>3, <1>5, <1>7, <2>3, <2>5, <3>9, <3>10, <3>11 DEF LineTaken
  <2> QED
    BY <2>4, <2>5
<1>10. CASE b # a + 1
  <2>1. a + 1 \in a + 1 .. b - 1 /\ ~text[a + 1].ends /\ a + 1 \in 1 .. Len(text)
    <3>1. a \in Nat /\ b \in Nat /\ Len(text) \in Nat /\ a < b /\ b <= Len(text)
      BY <1>1
    <3>2. \A i \in a + 1 .. b - 1 : ~text[i].ends
      BY DEF NextEnd
    <3>3. a + 1 \in a + 1 .. b - 1 /\ a + 1 \in 1 .. Len(text)
      BY <1>10, <3>1
    <3> QED
      BY <3>2, <3>3
  <2>2. a + 2 \in 1 .. Len(text) /\ (a + 2) - 1 = a + 1 /\ a + 2 # 1
    <3>1. a \in Nat /\ b \in Nat /\ Len(text) \in Nat /\ a < b /\ b <= Len(text)
      BY <1>1
    <3> QED
      BY <1>10, <3>1
  <2>3. text[a + 2].ends
    BY <1>6, <2>1, <2>2 DEF Fits
  <2>4. b = a + 2
    <3>1. a + 2 \notin a + 1 .. b - 1
      BY <2>3 DEF NextEnd
    <3> QED
      BY <1>1, <1>10, <3>1
  <2>5. /\ text[b].ends /\ text[a + 1].kind = k /\ text[b].shows # text[a + 1].shows
        /\ text[b].live = LiveMode(ModeAt(text, a + 1), k)
        /\ k \in Activity => LiveMode(ModeAt(text, a + 1), k) = "master_sword"
    BY <1>6, <2>1, <2>2, <2>4 DEF Fits
  <2>6. ModeAt(text, a + 1) = text[a + 1].live
    BY DEF ModeAt
  <2>7. text[a + 1].live = m
    <3>1. (a + 1) - 1 = a
      OBVIOUS
    <3> QED
      BY <1>6, <2>1, <3>1 DEF Fits
  <2>8. Gist(text, a) = m
    <3>1. a # 0 => text[a].ends
      <4> SUFFICES ASSUME a # 0, ~text[a].ends
                   PROVE  FALSE
        BY <1>1, <1>7
      <4>1. (a + 1) - 1 = a /\ a + 1 # 1
        OBVIOUS
      <4> QED
        BY <1>6, <2>1, <4>1 DEF Fits
    <3> QED
      BY <3>1 DEF Gist
  <2>9. kind = k
    <3>1. Len(line) = 2 /\ line[1] = text[a + 1] /\ line[2] = text[b]
      BY <1>2, <2>4
    <3>2. text[a + 1].shows \/ text[b].shows
      BY <1>1, <2>1, <2>5
    <3> QED
      BY <1>2, <2>5, <3>1, <3>2, KindOfTwo
  <2>10. Gist(text, b) = LiveMode(m, k)
    BY <1>1, <2>5, <2>6, <2>7 DEF Gist, ModeAt
  <2>11. Gist(text, a + 1) = IF text[a + 1].shows THEN LiveMode(m, k) ELSE m
    BY <2>1, <2>5, <2>6, <2>7 DEF Gist
  <2>12. LiveMode(LiveMode(m, k), k) = LiveMode(m, k)
    BY <1>8, LiveModeFacts
  <2>13. \A s \in a + 1 .. b - 1 : s = a + 1 /\ s = b - 1
    BY <2>4
  <2>14. k \in Activity => Gist(text, b) = "master_sword"
    BY <2>5, <2>6, <2>7, <2>10
  <2>15. /\ Gist(text, a + 1) \in Modes
         /\ LiveMode(Gist(text, a + 1), kind) = Gist(text, b)
         /\ text[b].shows => Gist(text, a + 1) = Gist(text, a)
    BY <1>1, <1>5, <2>1, <2>5, <2>8, <2>9, <2>10, <2>11, <2>12
  <2>16. LiveMode(Gist(text, a), kind) = Gist(text, b)
    BY <2>8, <2>9, <2>10
  <2> HIDE DEF kind
  <2> QED
    BY <1>3, <1>5, <1>7, <2>9, <2>13, <2>14, <2>15, <2>16 DEF LineTaken
<1> QED
  BY <1>9, <1>10

LEMMA FileFits ==
    ASSUME ReportInv, Opened
    PROVE  /\ handle \in 1 .. MaxFiles /\ files[handle] \in Seq(Pieces)
           /\ Len(files[handle]) \in Nat /\ DOMAIN files[handle] = 1 .. Len(files[handle])
           /\ Fitting(files[handle])
           /\ offset \in Nat /\ since \in Nat /\ scanned \in Nat
           /\ pending \in Seq(Pieces) /\ Len(pending) \in Nat
           /\ DOMAIN pending = 1 .. Len(pending)
           /\ mode \in Modes /\ context \in Modes
<1>1. handle \in 1 .. MaxFiles
  BY FileTypes DEF ReportInv, Opened, Reading, ControlInv
<1>2. pending \in Seq(Pieces)
  BY DEF ReportInv, Typed
<1> QED
  BY <1>1, <1>2, FileTypes DEF ReportInv, Typed, TextInv, Fitting

(* A line of the poll that is consumed, in the file it was read from.       *)
LEMMA FirstHeld ==
    ASSUME ReportInv, Reading, Held, ConsumeLine
    PROVE  LET end == Min(Ends(pending))
           IN  /\ end \in 1 .. Len(pending) /\ Taking \in Nat /\ Taking' = Taking + end
               /\ NextEnd(files[handle], Taking, Taking + end)
               /\ files[handle][Taking + end].ends
               /\ SubSeq(pending, 1, end)
                    = SubSeq(files[handle], Taking + 1, Taking + end)
               /\ pending[end] = files[handle][Taking + end]
               /\ Held'
<1> DEFINE end == Min(Ends(pending))
           T == files[handle]
<1>1. /\ T \in Seq(Pieces) /\ Len(T) \in Nat /\ DOMAIN T = 1 .. Len(T)
      /\ offset \in Nat /\ pending \in Seq(Pieces) /\ Len(pending) \in Nat
      /\ DOMAIN pending = 1 .. Len(pending)
  BY FileFits DEF Opened
<1>2. /\ offset <= Len(T) /\ Len(pending) <= offset
      /\ \A i \in 1 .. Len(pending) : pending[i] = T[Taking + i]
  BY <1>1 DEF Held
<1>3. /\ end \in Ends(pending) /\ end \in 1 .. Len(pending)
      /\ \A i \in Ends(pending) : end <= i
      /\ pending' \in Seq(Pieces) /\ Len(pending') = Len(pending) - end
      /\ DOMAIN pending' = 1 .. Len(pending')
      /\ \A i \in 1 .. Len(pending') :
           pending'[i] = pending[end + i] /\ end + i \in 1 .. Len(pending)
      /\ UNCHANGED <<files, handle, offset>>
  BY ConsumeIs DEF ReportInv
<1> HIDE DEF end
<1>4. Taking \in Nat /\ Taking' = Taking + end /\ Taking + Len(pending) = offset
  BY <1>1, <1>2, <1>3 DEF Taking
<1>5. pending[end] = T[Taking + end] /\ pending[end].ends
  BY <1>2, <1>3 DEF Ends
<1> HIDE DEF T
<1>6. NextEnd(T, Taking, Taking + end)
  <2> DEFINE b == Taking + end
  <2>1. b \in Taking + 1 .. Len(T)
    BY <1>1, <1>2, <1>3, <1>4
  <2>2. ASSUME NEW i \in Taking + 1 .. b - 1
        PROVE  ~T[i].ends
    <3>1. i - Taking \in 1 .. Len(pending) /\ i - Taking < end /\ Taking + (i - Taking) = i
      BY <1>1, <1>3, <1>4
    <3>2. i - Taking \notin Ends(pending)
      BY <1>1, <1>3, <3>1
    <3>3. pending[i - Taking] = T[i]
      BY <1>2, <3>1
    <3> QED
      BY <1>1, <3>1, <3>2, <3>3 DEF Ends
  <2>3. T[b].ends
    BY <1>5
  <2>4. b \in Taking + 1 .. Len(T) /\ T[b].ends
    BY <2>1, <2>3
  <2> HIDE DEF b
  <2>5. NextEnd(T, Taking, b)
    BY <2>2, <2>4 DEF NextEnd
  <2> QED
    BY <2>5 DEF b
<1>7. SubSeq(pending, 1, end) = SubSeq(T, Taking + 1, Taking + end)
  <2> DEFINE p == SubSeq(pending, 1, end)
             t == SubSeq(T, Taking + 1, Taking + end)
  <2>1. \A i \in 1 .. end : pending[i] \in Pieces
    BY <1>1, <1>3
  <2>2. \A i \in Taking + 1 .. Taking + end : T[i] \in Pieces
    BY <1>1, <1>2, <1>3, <1>4
  <2>3. 1 \in Int /\ end \in Int /\ Taking + 1 \in Int /\ Taking + end \in Int
    BY <1>3, <1>4
  <2>4. /\ p \in Seq(Pieces) /\ Len(p) = IF 1 <= end THEN end - 1 + 1 ELSE 0
        /\ \A i \in 1 .. end - 1 + 1 : p[i] = pending[1 + i - 1]
    BY <2>1, <2>3, SubSeqProperties
  <2>5. /\ t \in Seq(Pieces)
        /\ Len(t) = IF Taking + 1 <= Taking + end THEN (Taking + end) - (Taking + 1) + 1 ELSE 0
        /\ \A i \in 1 .. (Taking + end) - (Taking + 1) + 1 : t[i] = T[(Taking + 1) + i - 1]
    BY <2>2, <2>3, SubSeqProperties
  <2> HIDE DEF p, t
  <2>6. Len(p) = end /\ Len(t) = end
    BY <1>3, <1>4, <2>4, <2>5
  <2>7. ASSUME NEW i \in 1 .. end
        PROVE  p[i] = t[i]
    <3>1. 1 + i - 1 = i /\ (Taking + 1) + i - 1 = Taking + i
          /\ i \in 1 .. end - 1 + 1 /\ i \in 1 .. (Taking + end) - (Taking + 1) + 1
          /\ i \in 1 .. Len(pending)
      BY <1>1, <1>3, <1>4
    <3>2. p[i] = pending[i] /\ t[i] = T[Taking + i]
      BY <2>4, <2>5, <3>1
    <3> QED
      BY <1>2, <3>1, <3>2
  <2> QED
    BY <2>4, <2>5, <2>6, <2>7, SeqEqual DEF p, t
<1>8. Held'
  <2>1. \A i \in 1 .. Len(pending') : pending'[i] = T[(Taking + end) + i]
    <3> SUFFICES ASSUME NEW i \in 1 .. Len(pending')
                 PROVE  pending'[i] = T[(Taking + end) + i]
      OBVIOUS
    <3>1. pending'[i] = pending[end + i] /\ end + i \in 1 .. Len(pending)
      BY <1>3
    <3>2. Taking + (end + i) = (Taking + end) + i
      BY <1>3, <1>4
    <3> QED
      BY <1>2, <3>1, <3>2
  <2>2. Len(pending') <= offset
    BY <1>1, <1>2, <1>3
  <2> QED
    BY <1>2, <1>3, <1>4, <2>1, <2>2 DEF Held, T
<1> QED
  BY <1>3, <1>4, <1>5, <1>6, <1>7, <1>8 DEF end, T

LEMMA TailConsumed ==
    ASSUME ~EventsAnywhere, ReportInv, TailInv, ConsumeLine, Attached
    PROVE  TailInv'
<1> DEFINE end == Min(Ends(pending))
           T == files[handle]
           a == Taking
           b == Taking + end
           kind == KindOf(SubSeq(pending, 1, end))
<1>1. Reading
  BY ConsumeIs DEF ReportInv
<1>2. /\ Held /\ since <= Len(T) /\ ModeTaken
      /\ (a > since => T[a].ends) /\ EventsTaken
  BY <1>1 DEF TailInv
<1>3. /\ end \in 1 .. Len(pending) /\ a \in Nat /\ Taking' = b
      /\ NextEnd(T, a, b) /\ T[b].ends
      /\ SubSeq(pending, 1, end) = SubSeq(T, a + 1, b)
      /\ pending[end] = T[b]
      /\ Held'
  BY <1>1, <1>2, FirstHeld
<1>4. /\ T \in Seq(Pieces) /\ Len(T) \in Nat /\ DOMAIN T = 1 .. Len(T) /\ Fitting(T)
      /\ since \in Nat /\ mode \in Modes
  BY FileFits DEF Attached
<1>5. /\ mode' = LiveMode(mode, kind)
      /\ reported' = IF IsEvent(mode, kind) THEN Append(reported, T[b].line) ELSE reported
      /\ pc' \in {"consume", "tick"}
      /\ UNCHANGED <<files, at, handle, place, tailer, since, truncated>>
  <2>1. pc' \in {"consume", "tick"}
    BY ConsumeTypes DEF ReportInv
  <2> QED
    BY <1>3, <2>1 DEF ConsumeLine, game
<1>6. b \in Nat /\ a < b /\ b <= Len(T)
  <2>1. b \in a + 1 .. Len(T)
    BY <1>3 DEF NextEnd
  <2> HIDE DEF b, a, T
  <2> QED
    BY <1>3, <1>4, <2>1
<1> HIDE DEF T, a, b, end
<1>7. LineTaken(T, a, b, kind)
  BY <1>3, <1>4, <1>6, Segment
<1> HIDE DEF kind
<1>8. mode = Gist(T, a) \/ (a < since /\ mode = Gist(T, since))
  BY <1>2 DEF ModeTaken, T, a
<1>9. mode' = Gist(T, b) \/ (b < since /\ mode' = Gist(T, since))
  <2>1. CASE mode = Gist(T, a)
    BY <1>5, <1>7, <2>1 DEF LineTaken
  <2>2. CASE a < since /\ mode = Gist(T, since) /\ since < b
    <3>1. since \in a + 1 .. b - 1
      BY <1>3, <1>4, <1>6, <2>2
    <3> QED
      BY <1>5, <1>7, <2>2, <3>1 DEF LineTaken
  <2>3. CASE mode = Gist(T, since) /\ b <= since
    <3>1. kind \in Kinds /\ Gist(T, a) \in Modes /\ LiveMode(Gist(T, a), kind) = Gist(T, b)
          /\ (kind \in Activity => Gist(T, b) = "master_sword")
      BY <1>7 DEF LineTaken
    <3>2. mode' = Gist(T, b) \/ mode' = mode
      <4>1. CASE kind \in ModeKinds
        BY <1>4, <1>5, <3>1, <4>1, LiveModeFacts
      <4>2. CASE kind \notin ModeKinds /\ kind \in Activity
        BY <1>4, <1>5, <3>1, <4>2, LiveModeFacts
      <4>3. CASE kind \notin ModeKinds /\ kind \notin Activity
        BY <1>4, <1>5, <3>1, <4>3, LiveModeFacts
      <4> QED
        BY <4>1, <4>2, <4>3
    <3>3. b = since \/ b < since
      BY <1>4, <1>6, <2>3
    <3> QED
      BY <2>3, <3>2, <3>3
  <2> QED
    BY <1>4, <1>6, <1>8, <2>1, <2>2, <2>3
<1>10. ASSUME b > since, T[b].kind = "event", b > since + 1 \/ T[b].shows
       PROVE  IsEvent(mode, kind)
  <2>1. a = 0 \/ T[a].ends \/ T[b].shows
    <3>1. CASE a > since
      BY <1>2, <3>1 DEF T, a
    <3>2. CASE ~ (a > since) /\ ~T[b].shows
      <4>1. since + 1 < b /\ a <= since
        BY <1>3, <1>4, <1>6, <1>10, <3>2
      <4>2. CASE a = since
        <5>1. a + 1 \in a + 1 .. b - 1 /\ a + 1 # b
          BY <1>3, <1>6, <4>1, <4>2
        <5>2. ~T[a + 1].ends /\ a + 1 \in 1 .. Len(T)
          BY <1>3, <1>6, <5>1 DEF NextEnd
        <5>3. Fits(T, a + 1) /\ (a + 1) - 1 = a
          BY <1>3, <1>4, <5>2 DEF Fitting
        <5> QED
          BY <1>3, <5>2, <5>3 DEF Fits
      <4>3. CASE a < since
        <5>1. since \in a + 1 .. b - 1 /\ since # b - 1
          BY <1>3, <1>4, <1>6, <4>1, <4>3
        <5> QED
          BY <1>7, <5>1 DEF LineTaken
      <4> QED
        BY <1>3, <1>4, <4>1, <4>2, <4>3
    <3> QED
      BY <3>1, <3>2
  <2>2. kind = "event"
    BY <1>3, <1>7, <1>10, <2>1 DEF LineTaken, b
  <2>3. Gist(T, b) = "master_sword" /\ LiveMode(Gist(T, a), kind) = Gist(T, b)
        /\ Gist(T, a) \in Modes
    BY <1>7, <2>2 DEF LineTaken, Activity
  <2>4. Accepts(Gist(T, a))
    <3>1. "event" \in Kinds
      BY DEF Kinds, Activity
    <3> QED
      BY <2>2, <2>3, <3>1, LiveModeFacts
  <2>5. Accepts(mode)
    <3>1. CASE mode = Gist(T, a)
      BY <2>4, <3>1
    <3>2. CASE a < since /\ mode = Gist(T, since)
      <4>1. since \in a + 1 .. b - 1
        BY <1>3, <1>4, <1>6, <1>10, <3>2
      <4>2. LiveMode(Gist(T, since), kind) = Gist(T, b) /\ Gist(T, since) \in Modes
        BY <1>7, <4>1 DEF LineTaken
      <4>3. "event" \in Kinds
        BY DEF Kinds, Activity
      <4> QED
        BY <2>2, <2>3, <3>2, <4>2, <4>3, LiveModeFacts
    <3> QED
      BY <1>8, <3>1, <3>2
  <2> QED
    BY <2>2, <2>5 DEF IsEvent
<1>11. \A i \in since + 1 .. b :
         T[i].kind = "event" /\ T[i].ends /\ (i > since + 1 \/ T[i].shows)
           => T[i].line \in ToSet(reported')
  <2> SUFFICES ASSUME NEW i \in since + 1 .. b, T[i].kind = "event", T[i].ends,
                      i > since + 1 \/ T[i].shows
               PROVE  T[i].line \in ToSet(reported')
    OBVIOUS
  <2>1. reported \in Seq(Lines) /\ T[b].line \in Lines
    <3>1. T[b] \in Pieces
      BY <1>4, <1>6
    <3> QED
      BY <3>1 DEF ReportInv, Typed, Pieces
  <2>2. ToSet(reported) \subseteq ToSet(reported')
    BY <1>5, <2>1, AppendProperties DEF ToSet
  <2>3. CASE i <= a
    <3>1. i \in since + 1 .. a
      BY <1>3, <1>4, <2>3
    <3> QED
      BY <1>2, <2>2, <3>1 DEF EventsTaken, T, a
  <2>4. CASE i > a
    <3>1. i \notin a + 1 .. b - 1
      BY <1>3 DEF NextEnd
    <3>2. i = b
      BY <1>3, <1>4, <1>6, <2>4, <3>1
    <3>3. reported' = Append(reported, T[b].line)
      BY <1>4, <1>5, <1>6, <1>10, <3>2
    <3> QED
      BY <2>1, <3>2, <3>3, AppendProperties DEF ToSet
  <2> QED
    BY <1>3, <1>4, <2>3, <2>4
<1>12. T' = T /\ Taking' = b /\ since' = since
  BY <1>3, <1>5 DEF T
<1>13. since <= Len(T) /\ T[b].ends
  BY <1>2, <1>3 DEF T
<1>14. files' = files /\ handle' = handle
  BY <1>5
<1>15. ModeTaken'
  BY <1>9, <1>12, <1>14 DEF ModeTaken, T
<1>16. EventsTaken'
  BY <1>11, <1>12, <1>14 DEF EventsTaken, T
<1> QED
  BY <1>3, <1>5, <1>12, <1>13, <1>14, <1>15, <1>16 DEF TailInv, T

LEMMA TailGrown ==
    ASSUME ReportInv, TailInv, NEW q \in Logs, NEW piece \in Pieces, Grows(q, piece)
    PROVE  TailInv'
<1> DEFINE T == files[handle]
           U == files'[handle]
<1>1. /\ UNCHANGED <<at, Worker, reported, since, truncated>>
      /\ \A f \in 1 .. MaxFiles : f # at[q] => files'[f] = files[f]
  BY OtherFiles DEF ReportInv, Grows, Written
<1>2. UNCHANGED <<pc, tailer, place, handle, offset, pending, scanning, scanned, context, mode>>
  BY <1>1 DEF Worker, source, scan, parser
<1>3. Attached' = Attached /\ Reading' = Reading /\ Opened' = Opened /\ Taking' = Taking
  BY <1>1, <1>2 DEF Attached, Opened, Reading, Taking
<1> SUFFICES ASSUME Attached
             PROVE  TailInv'
  BY <1>3 DEF TailInv
<1>4. /\ handle \in 1 .. MaxFiles /\ Len(T) \in Nat /\ DOMAIN T = 1 .. Len(T)
      /\ offset \in Nat /\ since \in Nat /\ scanned \in Nat /\ Len(pending) \in Nat
      /\ DOMAIN pending = 1 .. Len(pending)
  BY FileFits DEF Attached
<1>5. Len(U) \in Nat /\ Len(T) <= Len(U) /\ \A i \in 1 .. Len(T) : U[i] = T[i]
  <2>1. CASE handle = at[q]
    BY <1>4, <2>1, GrownFile DEF ReportInv
  <2>2. CASE handle # at[q]
    BY <1>1, <1>4, <2>2
  <2> QED
    BY <2>1, <2>2
<1>6. \A i \in 0 .. Len(T) : Gist(U, i) = Gist(T, i)
  <2> HIDE DEF T, U
  <2> QED
    BY <1>4, <1>5 DEF Gist, ModeAt
<1>7. /\ offset <= Len(T) /\ Len(pending) <= offset
      /\ \A i \in 1 .. Len(pending) : pending[i] = T[Taking + i]
  BY <1>4 DEF TailInv, Held
<1>8. Taking \in 0 .. Len(T) /\ Taking + Len(pending) = offset
  BY <1>4, <1>7 DEF Taking
<1>9. Held'
  <2>1. ASSUME NEW i \in 1 .. Len(pending)
        PROVE  pending[i] = U[Taking + i]
    <3> HIDE DEF T, U
    <3>1. Taking + i \in 1 .. Len(T)
      BY <1>4, <1>7, <1>8
    <3> QED
      BY <1>5, <1>7, <3>1
  <2>2. offset <= Len(U)
    BY <1>4, <1>5, <1>7
  <2> QED
    BY <1>2, <1>3, <1>4, <1>7, <2>1, <2>2 DEF Held
<1>10. pc = "scan" =>
         scanning = handle /\ scanned <= Len(U) /\ context = Gist(U, scanned)
  <2> HAVE pc = "scan"
  <2>1. scanning = handle /\ scanned <= Len(T) /\ context = Gist(T, scanned)
    BY DEF TailInv
  <2>2. scanned \in 0 .. Len(T)
    BY <1>4, <2>1
  <2> QED
    BY <1>4, <1>5, <1>6, <2>1, <2>2
<1>11. ASSUME Reading
       PROVE  /\ since <= Len(U)
              /\ mode = Gist(U, Taking) \/ (Taking < since /\ mode = Gist(U, since))
              /\ Taking > since => U[Taking].ends
              /\ \A i \in since + 1 .. Taking :
                   U[i].kind = "event" /\ U[i].ends /\ (i > since + 1 \/ U[i].shows)
                     => U[i].line \in ToSet(reported)
  <2>1. /\ since <= Len(T) /\ ModeTaken
        /\ Taking > since => T[Taking].ends
        /\ EventsTaken
    BY <1>11 DEF TailInv
  <2>2. since \in 0 .. Len(T) /\ since <= Len(U)
    BY <1>4, <1>5, <2>1
  <2>3. mode = Gist(U, Taking) \/ (Taking < since /\ mode = Gist(U, since))
    BY <1>6, <1>8, <2>1, <2>2 DEF ModeTaken
  <2>4. Taking > since => U[Taking].ends
    BY <1>4, <1>5, <1>8, <2>1
  <2>5. \A i \in since + 1 .. Taking : U[i] = T[i]
    BY <1>4, <1>5, <1>8
  <2> QED
    BY <2>1, <2>2, <2>3, <2>4, <2>5 DEF EventsTaken
<1>12. ModeTaken' = (mode = Gist(U, Taking) \/ (Taking < since /\ mode = Gist(U, since)))
  BY <1>1, <1>2, <1>3 DEF ModeTaken
<1>13. EventsTaken' = (\A i \in since + 1 .. Taking :
                        U[i].kind = "event" /\ U[i].ends /\ (i > since + 1 \/ U[i].shows)
                          => U[i].line \in ToSet(reported))
  BY <1>1, <1>2, <1>3 DEF EventsTaken
<1>14. pc \in {"scan_open", "scan"} => pending = <<>>
  BY DEF TailInv
<1> QED
  BY <1>1, <1>2, <1>3, <1>9, <1>10, <1>11, <1>12, <1>13, <1>14 DEF TailInv

(* Nothing of what the invariant speaks of has changed.                     *)
LEMMA TailSame ==
    ASSUME TailInv, Attached' => Attached,
           UNCHANGED <<files, handle, offset, pending, mode, since, reported>>,
           Reading' => Reading,
           pc' \in {"scan_open", "scan"} => pending = <<>>,
           pc' = "scan" => /\ scanning' = handle /\ scanned' <= Len(files[handle])
                           /\ context' = Gist(files[handle], scanned')
    PROVE  TailInv'
<1>1. Taking' = Taking
  BY DEF Taking
<1>2. Held' = Held
  BY <1>1 DEF Held
<1>3. ModeTaken' = ModeTaken
  BY <1>1 DEF ModeTaken
<1>4. EventsTaken' = EventsTaken
  BY <1>1 DEF EventsTaken
<1> QED
  BY <1>1, <1>2, <1>3, <1>4 DEF TailInv

LEMMA TailGame ==
    ASSUME ~Regrows, ReportInv, TailInv, MoveLog \/ CreateLog \/ TruncateLog \/ ChooseLog
    PROVE  TailInv'
<1>1. UNCHANGED <<pc, tailer, place, handle, offset, pending, scanning, scanned, context, mode>>
  BY DEF MoveLog, CreateLog, TruncateLog, ChooseLog, Worker, source, scan, parser
<1>2. UNCHANGED <<since, reported>>
  BY DEF MoveLog, CreateLog, TruncateLog, ChooseLog, history
<1>3. Opened' = Opened /\ Reading' = Reading
  BY <1>1 DEF Opened, Reading
<1>4. Opened => handle \in 1 .. MaxFiles /\ place \in Places
  BY FileFits DEF ReportInv, Typed, ControlInv, Opened, Reading
<1>5. CASE MoveLog \/ CreateLog \/ ChooseLog
  <2>1. files' = files /\ truncated' = truncated
    BY <1>5 DEF MoveLog, CreateLog, ChooseLog, history
  <2>2. Attached' => Attached
    <3> SUFFICES ASSUME Attached', ~Attached
                 PROVE  FALSE
      OBVIOUS
    <3>1. /\ Opened /\ ~truncated /\ at'[place] = handle /\ at[place] # handle
          /\ handle \in 1 .. MaxFiles /\ place \in Places
      BY <1>1, <1>3, <1>4, <2>1 DEF Attached
    <3>2. CASE MoveLog
      BY <3>1, <3>2, MoveIs DEF ReportInv
    <3>3. CASE CreateLog
      <4>1. at'[place] \in {at[place], created + 1}
        BY <3>1, <3>3, CreateIs DEF ReportInv
      <4>2. handle <= created /\ handle \in Nat /\ created \in Nat
        BY Limits DEF ReportInv, FileInv, Typed
      <4> QED
        BY <3>1, <4>1, <4>2
    <3>4. CASE ChooseLog
      BY <3>1, <3>4 DEF ChooseLog
    <3> QED
      BY <1>5, <3>2, <3>3, <3>4
  <2>3. CASE Attached
    <3>1. pc' = "scan" => /\ scanning' = handle /\ scanned' <= Len(files[handle])
                          /\ context' = Gist(files[handle], scanned')
      BY <1>1, <2>3 DEF TailInv
    <3>2. pc' \in {"scan_open", "scan"} => pending = <<>>
      BY <1>1, <2>3 DEF TailInv
    <3> QED
      BY <1>1, <1>2, <1>3, <2>1, <2>2, <3>1, <3>2, TailSame
  <2>4. CASE ~Attached
    BY <2>2, <2>4 DEF TailInv
  <2> QED
    BY <2>3, <2>4
<1>6. CASE TruncateLog
  <2>1. PICK p \in Logs :
          /\ handle = at[p] /\ pc # "seek" /\ ~Regrows => offset > 0
          /\ files' = [files EXCEPT ![at[p]] = <<>>]
          /\ truncated' = (truncated \/ (handle = at[p] /\ offset > 0))
    BY <1>6 DEF TruncateLog
  <2>2. at' = at
    BY <1>6, TruncateIs DEF ReportInv
  <2>3. Attached' => handle # at[p]
    BY <1>3, <2>1 DEF Attached, Opened, Reading
  <2>4. Attached' => Attached /\ files'[handle] = files[handle]
    BY <1>1, <1>3, <1>4, <2>1, <2>2, <2>3 DEF Attached, ReportInv, Typed
  <2>5. ASSUME Attached'
        PROVE  TailInv'
    <3>1. Attached /\ files'[handle] = files[handle]
      BY <2>4, <2>5
    <3>2. Taking' = Taking
      BY <1>1 DEF Taking
    <3>3. Held' = Held
      BY <1>1, <3>1, <3>2 DEF Held
    <3>4. ModeTaken' = ModeTaken
      BY <1>1, <1>2, <3>1, <3>2 DEF ModeTaken
    <3>5. EventsTaken' = EventsTaken
      BY <1>1, <1>2, <3>1, <3>2 DEF EventsTaken
    <3> QED
      BY <1>1, <1>2, <1>3, <3>1, <3>2, <3>3, <3>4, <3>5 DEF TailInv
  <2> QED
    BY <2>5 DEF TailInv
<1> QED
  BY <1>5, <1>6

LEMMA TailScan ==
    ASSUME ~EventsAnywhere, ReportInv, TailInv, Attached, ScanLine
    PROVE  scanned' <= Len(files[handle]) /\ context' = Gist(files[handle], scanned')
<1> DEFINE T == files[handle]
           S == {i \in Ends(T) : i > scanned} \union {Len(T)}
           next == Min(S)
           kind == KindOf(SubSeq(T, scanned + 1, next))
<1>1. /\ scanning = handle /\ scanned <= Len(T) /\ context = Gist(T, scanned)
      /\ pc = "scan"
  BY DEF ScanLine, TailInv
<1>2. scanned < Len(T) /\ context' = ContextMode(context, kind) /\ scanned' = next
  BY <1>1 DEF ScanLine
<1>3. /\ T \in Seq(Pieces) /\ Len(T) \in Nat /\ DOMAIN T = 1 .. Len(T) /\ Fitting(T)
      /\ scanned \in Nat
  BY FileFits DEF Attached
<1>4. S \subseteq scanned + 1 .. Len(T) /\ S # {} /\ S \subseteq Nat
  BY <1>2, <1>3 DEF Ends
<1>5. next \in S /\ \A x \in S : next <= x
  BY <1>4, LeastOf
<1> HIDE DEF next
<1>6. NextEnd(T, scanned, next)
  <2>1. next \in scanned + 1 .. Len(T)
    BY <1>4, <1>5
  <2>2. T[next].ends \/ next = Len(T)
    BY <1>5 DEF Ends
  <2>3. ASSUME NEW i \in scanned + 1 .. next - 1
        PROVE  ~T[i].ends
    <3>1. i \in DOMAIN T /\ i > scanned /\ i < next
      BY <1>3, <2>1
    <3>2. i \notin S
      BY <1>3, <1>5, <2>1, <3>1
    <3> QED
      BY <3>1, <3>2 DEF Ends
  <2> QED
    BY <2>1, <2>2, <2>3 DEF NextEnd
<1> HIDE DEF T, S, kind
<1>7. next \in Nat /\ next <= Len(T)
  BY <1>3, <1>4, <1>5
<1>8. LineTaken(T, scanned, next, kind)
  BY <1>3, <1>6, <1>7, Segment DEF kind
<1>9. /\ kind \in Kinds /\ context \in Modes
      /\ LiveMode(context, kind) = Gist(T, next)
      /\ kind \in Activity => Gist(T, next) = "master_sword"
  BY <1>1, <1>8 DEF LineTaken, T
<1>10. ContextMode(context, kind) = Gist(T, next)
  <2>1. CASE kind \in Activity
    BY <1>9, <2>1 DEF ContextMode
  <2>2. CASE kind \notin Activity
    BY <1>9, <2>2, LiveModeFacts
  <2> QED
    BY <2>1, <2>2
<1> QED
  BY <1>2, <1>7, <1>10 DEF T

LEMMA TailWorker ==
    ASSUME ~EventsAnywhere, ReportInv, TailInv, Follow \/ RefreshProcessState
    PROVE  TailInv'
<1>1. UNCHANGED <<files, at>>
  BY WorkerFiles DEF Follow
<1> USE DEF source, scan, parser, history, Goto
<1>2. CASE FindLog \/ LogGone \/ Identify \/ Open \/ ScanFails
  <2>1. ~Opened'
    BY <1>2 DEF FindLog, LogGone, Identify, Open, ScanFails, DropSource, Opened, Reading
  <2> QED
    BY <2>1 DEF TailInv, Attached
<1>3. CASE SeekEnd
  <2>1. pc' = "scan_open" /\ offset' = Len(files[handle]) /\ pending' = <<>> /\ handle' = handle
    BY <1>3 DEF SeekEnd
  <2>2. Len(files[handle]) \in Nat
    BY <1>3, FileTypes DEF SeekEnd, ReportInv, ControlInv
  <2>3. Held'
    BY <1>1, <2>1, <2>2 DEF Held
  <2> QED
    BY <2>1, <2>3 DEF TailInv, Reading
<1>4. CASE ScanOpen
  <2>1. /\ pc' = "scan" /\ scanning' = at[place] /\ scanned' = 0 /\ context' = "unknown"
        /\ UNCHANGED <<place, handle, offset, pending, mode, since, reported, truncated>>
        /\ pc = "scan_open"
    BY <1>4 DEF ScanOpen
  <2>2. Attached' => Attached /\ scanning' = handle
    BY <1>1, <2>1 DEF Attached, Opened
  <2>3. Gist(files[handle], 0) = "unknown"
    BY DEF Gist, ModeAt
  <2>4. ASSUME Attached'
        PROVE  TailInv'
    <3>1. Attached /\ handle \in 1 .. MaxFiles
      BY <2>2, <2>4, FileFits DEF Attached
    <3>2. scanned' <= Len(files[handle])
      BY <2>1, <3>1, FileTypes DEF ReportInv
    <3>3. pending = <<>>
      BY <2>1, <3>1 DEF TailInv
    <3>4. ~Reading'
      BY <2>1 DEF Reading
    <3> QED
      BY <1>1, <2>1, <2>2, <2>3, <2>4, <3>1, <3>2, <3>3, <3>4, TailSame
  <2> QED
    BY <2>4 DEF TailInv
<1>5. CASE ScanLine
  <2>1. /\ pc = "scan" /\ pc' = pc /\ scanning' = scanning
        /\ UNCHANGED <<tailer, place, handle, offset, pending, mode, since, reported,
                       truncated>>
    BY <1>5 DEF ScanLine
  <2>2. Attached' = Attached /\ Reading' = Reading
    BY <1>1, <2>1 DEF Attached, Opened, Reading
  <2>3. ASSUME Attached
        PROVE  TailInv'
    <3>1. scanned' <= Len(files[handle]) /\ context' = Gist(files[handle], scanned')
      BY <1>5, <2>3, TailScan
    <3>2. pending = <<>> /\ scanning = handle
      BY <2>1, <2>3 DEF TailInv
    <3> QED
      BY <1>1, <2>1, <2>2, <3>1, <3>2, TailSame
  <2> QED
    BY <2>2, <2>3 DEF TailInv
<1>6. CASE ScanEnds
  <2>1. /\ pc = "scan" /\ pc' \in {"tick", "poll"} /\ scanned >= Len(files[scanning])
        /\ mode' = context /\ since' = Len(files[scanning])
        /\ UNCHANGED <<place, handle, offset, pending, reported, truncated>>
    BY <1>6 DEF ScanEnds
  <2>2. Attached' => Attached
    BY <1>1, <2>1 DEF Attached, Opened
  <2> SUFFICES ASSUME Attached
               PROVE  TailInv'
    BY <2>2 DEF TailInv
  <2> DEFINE T == files[handle]
  <2>3. /\ scanning = handle /\ scanned <= Len(T) /\ context = Gist(T, scanned)
        /\ pending = <<>> /\ offset <= Len(T)
    BY <2>1 DEF TailInv, Held
  <2>4. Len(T) \in Nat /\ offset \in Nat /\ scanned \in Nat
    BY FileFits DEF Attached
  <2>5. scanned = Len(T) /\ mode' = Gist(T, Len(T)) /\ since' = Len(T)
    BY <2>1, <2>3, <2>4
  <2>6. Taking' = offset /\ Len(pending) = 0
    BY <2>1, <2>3, <2>4 DEF Taking
  <2>7. Held'
    BY <1>1, <2>1, <2>3, <2>4, <2>6 DEF Held
  <2>8. ModeTaken'
    <3>1. CASE offset = Len(T)
      BY <1>1, <2>1, <2>5, <2>6, <3>1 DEF ModeTaken
    <3>2. CASE offset < Len(T)
      BY <1>1, <2>1, <2>5, <2>6, <3>2 DEF ModeTaken
    <3> QED
      BY <2>3, <2>4, <3>1, <3>2
  <2>9. EventsTaken' /\ ~ (Taking' > since')
    <3>1. \A i : i \notin since' + 1 .. Taking'
      BY <2>3, <2>4, <2>5, <2>6
    <3>2. ~ (Taking' > since')
      BY <2>3, <2>4, <2>5, <2>6
    <3> QED
      BY <3>1, <3>2 DEF EventsTaken
  <2>10. since' <= Len(T)
    BY <2>4, <2>5
  <2> QED
    BY <1>1, <2>1, <2>7, <2>8, <2>9, <2>10 DEF TailInv
<1>7. CASE CheckIdentity \/ CheckSize
  <2>1. /\ UNCHANGED <<tailer, place, handle, offset, pending, mode, since, reported,
                       truncated>>
        /\ pc' \in {"size", "identify", "read"} /\ Reading
    BY <1>7 DEF CheckIdentity, CheckSize, Polls, Reading, ReportInv, ControlInv
  <2>2. Attached' => Attached
    BY <1>1, <2>1 DEF Attached, Opened
  <2> QED
    BY <1>1, <2>1, <2>2, TailSame
<1>8. CASE ReadNew
  <2> DEFINE T == files[handle]
  <2>1. /\ pc = "read" /\ pc' \in {"tick", "consume"}
        /\ UNCHANGED <<tailer, place, handle, mode, since, reported, truncated>>
    BY <1>8 DEF ReadNew
  <2>2. Attached' => Attached
    BY <1>1, <2>1 DEF Attached, Opened, Reading
  <2> SUFFICES ASSUME Attached
               PROVE  TailInv'
    BY <2>2 DEF TailInv
  <2>3. Reading
    BY <2>1 DEF Reading
  <2>4. /\ Held /\ since <= Len(T) /\ ModeTaken
        /\ (Taking > since => T[Taking].ends) /\ EventsTaken
    BY <2>3 DEF TailInv
  <2>5. /\ Len(T) \in Nat /\ offset \in Nat /\ Len(pending) \in Nat
        /\ DOMAIN pending = 1 .. Len(pending)
    BY FileFits DEF Attached
  <2>6. /\ offset' >= Len(T) /\ offset' >= offset /\ offset' \in {offset, Len(T)}
        /\ Len(pending') \in Nat
        /\ Len(pending') = Len(pending) + (offset' - offset)
        /\ pending' \in Seq(Pieces)
        /\ \A i \in 1 .. Len(pending) : pending'[i] = pending[i]
        /\ \A i \in Len(pending) + 1 .. Len(pending') :
             pending'[i] = T[offset + (i - Len(pending))]
    BY <1>8, ReadIs DEF ReportInv
  <2>7. /\ offset <= Len(T) /\ Len(pending) <= offset
        /\ \A i \in 1 .. Len(pending) : pending[i] = T[Taking + i]
    BY <2>4, <2>5 DEF Held
  <2> HIDE DEF T
  <2>8. offset' = Len(T) /\ Len(pending') <= offset' /\ Taking' = Taking
        /\ Taking + Len(pending) = offset /\ Taking \in Nat
    <3>1. offset' = Len(T)
      BY <2>5, <2>6, <2>7
    <3>2. Len(pending') <= offset' /\ offset' - Len(pending') = offset - Len(pending)
      BY <2>5, <2>6, <2>7
    <3> QED
      BY <2>5, <2>7, <3>1, <3>2 DEF Taking
  <2>9. \A i \in 1 .. Len(pending') : pending'[i] = T[Taking + i]
    <3> SUFFICES ASSUME NEW i \in 1 .. Len(pending')
                 PROVE  pending'[i] = T[Taking + i]
      OBVIOUS
    <3>1. CASE i \in 1 .. Len(pending)
      BY <2>6, <2>7, <3>1
    <3>2. CASE i \in Len(pending) + 1 .. Len(pending')
      <4>1. offset + (i - Len(pending)) = Taking + i
        BY <2>5, <2>8
      <4> QED
        BY <2>6, <3>2, <4>1
    <3> QED
      BY <2>5, <2>6, <3>1, <3>2
  <2>10. Held'
    <3>1. DOMAIN pending' = 1 .. Len(pending')
      BY <2>6
    <3>2. offset' <= Len(T)
      BY <2>5, <2>8
    <3> QED
      BY <1>1, <2>1, <2>8, <2>9, <3>1, <3>2 DEF Held, T
  <2>11. ModeTaken' /\ EventsTaken'
    BY <1>1, <2>1, <2>4, <2>8 DEF ModeTaken, EventsTaken
  <2> QED
    BY <1>1, <2>1, <2>4, <2>8, <2>10, <2>11 DEF TailInv, T
<1>9. CASE ConsumeLine
  <2>1. Attached' => Attached
    BY <1>1, <1>9 DEF ConsumeLine, Attached, Opened, Reading
  <2> QED
    BY <1>9, <2>1, TailConsumed DEF TailInv
<1>10. CASE RefreshProcessState
  <2>1. PICK snapshot \in Snapshots :
          IF StrongStop(snapshot) \/ Elsewhere(snapshot) THEN DropSource
          ELSE UNCHANGED <<tailer, source, scan, parser, reported, historical, since,
                           truncated>>
    BY <1>10 DEF RefreshProcessState
  <2>2. pc = "tick" /\ pc' = pc
    BY <1>10 DEF RefreshProcessState
  <2>3. CASE DropSource
    <3>1. ~Opened'
      BY <2>2, <2>3 DEF DropSource, Opened, Reading
    <3> QED
      BY <3>1 DEF TailInv, Attached
  <2>4. CASE UNCHANGED <<tailer, source, scan, parser, reported, historical, since, truncated>>
    <3>1. Attached' = Attached /\ Reading' = Reading
      BY <1>1, <2>2, <2>4 DEF Attached, Opened, Reading
    <3> QED
      BY <1>1, <2>2, <2>4, <3>1, TailSame
  <2> QED
    BY <2>1, <2>3, <2>4
<1> QED
  BY <1>2, <1>3, <1>4, <1>5, <1>6, <1>7, <1>8, <1>9, <1>10 DEF Follow

LEMMA TailStep ==
    ASSUME ~Regrows, ~EventsAnywhere, ReportInv, TailInv, [Next]_vars
    PROVE  TailInv'
<1>1. CASE WriteLine \/ WriteHalf \/ FinishLine
  <2>1. PICK q \in Logs, piece \in Pieces : Grows(q, piece)
    BY <1>1, WriteSteps DEF ReportInv
  <2> QED
    BY <2>1, TailGrown
<1>2. CASE MoveLog \/ CreateLog \/ TruncateLog \/ ChooseLog
  BY <1>2, TailGame
<1>3. CASE Follow \/ RefreshProcessState
  BY <1>3, TailWorker
<1>4. CASE UNCHANGED vars
  <2>1. /\ UNCHANGED <<files, at, pc, tailer, place, handle, offset, pending>>
        /\ UNCHANGED <<scanning, scanned, context, mode, reported, since, truncated>>
    BY <1>4 DEF vars, game, source, scan, parser, history
  <2>2. Opened' = Opened /\ Reading' = Reading /\ Attached' = Attached /\ Taking' = Taking
    BY <2>1 DEF Opened, Reading, Attached, Taking
  <2>3. Held' = Held /\ ModeTaken' = ModeTaken /\ EventsTaken' = EventsTaken
    BY <2>1, <2>2 DEF Held, ModeTaken, EventsTaken
  <2> QED
    BY <2>1, <2>2, <2>3 DEF TailInv
<1> QED
  BY <1>1, <1>2, <1>3, <1>4 DEF Next, Game

LEMMA TailInit == Init => TailInv
  BY DEF Init, TailInv, Attached, Opened, Reading

(* In step, with nothing but complete lines read.                           *)
LEMMA CaughtUpIs ==
    ASSUME ReportInv, TailInv, pc = "tick", CaughtUp
    PROVE  LET T == files[handle]
           IN  /\ Attached /\ Reading
               /\ Len(T) \in Nat /\ DOMAIN T = 1 .. Len(T) /\ T \in Seq(Pieces)
               /\ since \in Nat /\ since <= Len(T)
               /\ Taking \in 0 .. Len(T)
               /\ \A i \in Taking + 1 .. Len(T) : ~T[i].ends
<1> DEFINE T == files[handle]
<1>1. Attached /\ Reading
  BY DEF CaughtUp, Attached, Opened, Reading
<1>2. /\ T \in Seq(Pieces) /\ Len(T) \in Nat /\ DOMAIN T = 1 .. Len(T)
      /\ Len(pending) \in Nat /\ DOMAIN pending = 1 .. Len(pending) /\ since \in Nat
  BY <1>1, FileFits DEF Attached
<1>3. /\ since <= Len(T) /\ offset = Len(T) /\ Len(pending) <= offset
      /\ \A i \in 1 .. Len(pending) : pending[i] = T[Taking + i]
  BY <1>1, <1>2 DEF TailInv, Held, CaughtUp
<1>4. \A i \in 1 .. Len(pending) : ~pending[i].ends
  BY <1>2 DEF ReportInv, ControlInv, Ends
<1> HIDE DEF T
<1>5. Taking \in 0 .. Len(T) /\ Taking + Len(pending) = Len(T)
  BY <1>2, <1>3 DEF Taking
<1>6. ASSUME NEW i \in Taking + 1 .. Len(T)
      PROVE  ~T[i].ends
  <2>1. i - Taking \in 1 .. Len(pending) /\ Taking + (i - Taking) = i
    BY <1>2, <1>5
  <2> QED
    BY <1>3, <1>4, <2>1
<1> QED
  BY <1>1, <1>2, <1>3, <1>5, <1>6 DEF T

(* In step with a log that ends in a complete line, the parser has the mode *)
(* of one that has followed the log from its first line.  It takes that a   *)
(* truncated log is noticed, and that the game prints activity lines in     *)
(* Master Sword only.                                                       *)
THEOREM LogTailModeConverges ==
    ASSUME ~Regrows, ~EventsAnywhere
    PROVE  Spec => []ModeConverges
<1>1. ReportInv /\ TailInv => ModeConverges
  <2> SUFFICES ASSUME ReportInv, TailInv, pc = "tick", CaughtUp, ~Unfinished(files[handle])
               PROVE  mode = ModeAtEnd(handle)
    BY DEF ModeConverges
  <2> DEFINE T == files[handle]
  <2>1. /\ Attached /\ Reading
        /\ Len(T) \in Nat /\ DOMAIN T = 1 .. Len(T) /\ T \in Seq(Pieces)
        /\ since \in Nat /\ since <= Len(T)
        /\ Taking \in 0 .. Len(T)
        /\ \A i \in Taking + 1 .. Len(T) : ~T[i].ends
    BY CaughtUpIs
  <2>2. Len(T) # 0 => T[Len(T)].ends
    BY <2>1, AppendIs DEF Unfinished, Last
  <2>3. Taking = Len(T)
    BY <2>1, <2>2
  <2>4. ModeTaken
    BY <2>1 DEF TailInv
  <2>5. mode = Gist(T, Len(T))
    BY <2>1, <2>3, <2>4 DEF ModeTaken
  <2> QED
    BY <2>1, <2>2, <2>5 DEF Gist, ModeAtEnd
<1>2. ReportInv /\ TailInv /\ [Next]_vars => (ReportInv /\ TailInv)'
  BY ReportStep, TailStep
<1>3. Init => ReportInv /\ TailInv
  BY ReportInit, TailInit
<1> QED
  BY <1>1, <1>2, <1>3, PTL DEF Spec

(* In step with a log, the worker has reported every event the log gained   *)
(* since its context was read.                                              *)
THEOREM LogTailNothingMissed ==
    ASSUME ~Regrows, ~EventsAnywhere
    PROVE  Spec => []NothingMissed
<1>1. ReportInv /\ TailInv => NothingMissed
  <2> SUFFICES ASSUME ReportInv, TailInv, pc = "tick", CaughtUp,
                      NEW i \in (since + 1) .. Len(files[handle]),
                      files[handle][i].kind = "event", files[handle][i].ends,
                      i > since + 1 \/ files[handle][i].shows
               PROVE  files[handle][i].line \in ToSet(reported)
    BY DEF NothingMissed
  <2>1. /\ Attached /\ Reading /\ Len(files[handle]) \in Nat
        /\ since \in Nat /\ Taking \in 0 .. Len(files[handle])
        /\ \A j \in Taking + 1 .. Len(files[handle]) : ~files[handle][j].ends
    BY CaughtUpIs
  <2>2. i \in since + 1 .. Taking
    BY <2>1
  <2>3. EventsTaken
    BY <2>1 DEF TailInv
  <2> QED
    BY <2>2, <2>3 DEF EventsTaken
<1>2. ReportInv /\ TailInv /\ [Next]_vars => (ReportInv /\ TailInv)'
  BY ReportStep, TailStep
<1>3. Init => ReportInv /\ TailInv
  BY ReportInit, TailInit
<1> QED
  BY <1>1, <1>2, <1>3, PTL DEF Spec
=============================================================================
