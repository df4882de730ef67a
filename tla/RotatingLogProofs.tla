------------------------- MODULE RotatingLogProofs -------------------------
(***************************************************************************)
(* Safety of the rotating journal, for any limits and line sizes and       *)
(* whichever operation fails.                                              *)
(*                                                                         *)
(* The order of the lines is kept because a file only ever takes the place *)
(* of an older one, and a new line is greater than all.  That the newest   *)
(* line is kept needs to know how far it can have moved: by one file for   *)
(* each rotation that failed, and one more for a rotation that went well   *)
(* and was not followed by a line.                                         *)
(***************************************************************************)
EXTENDS RotatingLog, TLAPS

Line == [id : Nat, bytes : Nat]

Typed ==
    /\ DOMAIN files \subseteq Index
    /\ files \in [DOMAIN files -> Seq(Line)]
    /\ pc \in {"closed", "idle", "write", "off", "panicked", "oldest", "shift", "create"}
    /\ index \in Index
    /\ open \in BOOLEAN
    /\ written \in Nat
    /\ newest \in Nat
    /\ fruitless \in Nat
    /\ line \in Nat

(* Where the writer is.                                                     *)
WriterInv ==
    /\ open => pc \in {"idle", "write"} /\ 0 \in DOMAIN files
    /\ pc = "shift" => index < Retained /\ index + 1 \notin DOMAIN files
    /\ pc = "create" /\ line # 0 => 0 \notin DOMAIN files
    /\ pc = "write" => line # 0
    /\ pc \in {"oldest", "shift", "create"} /\ line # 0 => counted # 0
    /\ pc \in {"idle", "write"} /\ ~open => counted # 0

(* The numbers of the lines are those of the lines written, and that of a   *)
(* line under way is new.                                                   *)
NumbersInv ==
    \A k \in DOMAIN files : \A n \in DOMAIN files[k] :
        /\ files[k][n].id <= written
        /\ pc \in {"write", "oldest", "shift", "create"} /\ line # 0 => files[k][n].id < written

(* How many files the newest line can have behind it.                       *)
Within(k) ==
    /\ pc \in {"oldest", "off", "closed", "panicked"} => k <= fruitless
    /\ pc \in {"idle", "write"} =>
         k <= (IF counted = 0 THEN fruitless + 1 ELSE fruitless)
    /\ pc = "shift" => k <= (IF k <= index THEN fruitless ELSE fruitless + 1)
    /\ pc = "create" =>
         k <= (IF 0 \in DOMAIN files THEN fruitless ELSE fruitless + 1)

PlaceInv ==
    newest > 0 /\ fruitless < Retained =>
        \E k \in DOMAIN files :
            /\ \E n \in DOMAIN files[k] : files[k][n].id = newest
            /\ Within(k)

JournalInv ==
    /\ Typed
    /\ WriterInv
    /\ NumbersInv
    /\ InOrder
    /\ PlaceInv

-----------------------------------------------------------------------------
LEMMA Limits == MaxBytes \in Nat \ {0} /\ Retained \in Nat \ {0} /\ Sizes \subseteq Nat \ {0}
  BY RotatingLogAssumption DEF RotatingLogAssumption

(* What the file operations make of the files.                              *)

LEMMA FilesWithout ==
  ASSUME Typed, NEW k \in Index, files' = Without(k)
  PROVE  /\ DOMAIN files' = DOMAIN files \ {k}
         /\ \A j \in DOMAIN files' : files'[j] = files[j]
         /\ files' \in [DOMAIN files' -> Seq(Line)]
  BY DEF Without, Typed

LEMMA FilesRenamed ==
  ASSUME Typed, NEW k \in DOMAIN files, k < Retained, files' = Renamed(k, k + 1)
  PROVE  /\ DOMAIN files' = (DOMAIN files \ {k}) \union {k + 1}
         /\ files'[k + 1] = files[k]
         /\ \A j \in DOMAIN files' \ {k + 1} : j \in DOMAIN files \ {k} /\ files'[j] = files[j]
         /\ DOMAIN files' \subseteq Index
         /\ files' \in [DOMAIN files' -> Seq(Line)]
<1>1. k \in Nat /\ k + 1 \in Index
  BY Limits DEF Typed, Index
<1> QED
  BY <1>1 DEF Renamed, Typed

LEMMA FilesWith ==
  ASSUME Typed, NEW content \in Seq(Line), files' = With(0, content)
  PROVE  /\ DOMAIN files' = DOMAIN files \union {0}
         /\ files'[0] = content
         /\ \A j \in DOMAIN files' \ {0} : j \in DOMAIN files /\ files'[j] = files[j]
         /\ DOMAIN files' \subseteq Index
         /\ files' \in [DOMAIN files' -> Seq(Line)]
<1>1. 0 \in Index
  BY Limits DEF Index
<1> QED
  BY <1>1 DEF With, Typed

(* A line at the end of the journal.                                        *)
LEMMA FilesAppend ==
  ASSUME Typed, 0 \in DOMAIN files, NEW l \in Line, files' = With(0, Append(files[0], l))
  PROVE  /\ DOMAIN files' = DOMAIN files
         /\ \A j \in DOMAIN files' \ {0} : files'[j] = files[j]
         /\ DOMAIN files'[0] = DOMAIN files[0] \union {Len(files[0]) + 1}
         /\ \A n \in DOMAIN files[0] : files'[0][n] = files[0][n] /\ n < Len(files[0]) + 1
         /\ files'[0][Len(files[0]) + 1] = l
         /\ files' \in [DOMAIN files' -> Seq(Line)]
<1>1. files[0] \in Seq(Line)
  BY DEF Typed
<1>2. Append(files[0], l) \in Seq(Line)
  BY <1>1
<1>3. DOMAIN Append(files[0], l) = DOMAIN files[0] \union {Len(files[0]) + 1}
  BY <1>1
<1>4. /\ \A n \in DOMAIN files[0] :
           Append(files[0], l)[n] = files[0][n] /\ n < Len(files[0]) + 1
      /\ Append(files[0], l)[Len(files[0]) + 1] = l
  BY <1>1
<1> QED
  BY <1>2, <1>3, <1>4, FilesWith

(* A file whose name no other takes over keeps its lines and their order.   *)
LEMMA MovedInOrder ==
  ASSUME InOrder, NEW source \in [DOMAIN files' -> DOMAIN files],
         \A j \in DOMAIN files' : files'[j] = files[source[j]],
         \A j, k \in DOMAIN files' : j > k => source[j] > source[k]
  PROVE  InOrder'
<1> SUFFICES ASSUME NEW j \in DOMAIN files', NEW k \in DOMAIN files',
                    NEW m \in DOMAIN files'[j], NEW n \in DOMAIN files'[k],
                    files'[j][m].id > 0, files'[k][n].id > 0, j > k \/ (j = k /\ m < n)
             PROVE  files'[j][m].id < files'[k][n].id
  BY DEF InOrder
<1>1. source[j] \in DOMAIN files /\ source[k] \in DOMAIN files
  OBVIOUS
<1>2. files'[j] = files[source[j]] /\ files'[k] = files[source[k]]
  OBVIOUS
<1>3. source[j] > source[k] \/ (source[j] = source[k] /\ m < n)
  OBVIOUS
<1> QED
  BY <1>1, <1>2, <1>3 DEF InOrder

(* A new line at the end of the journal, or what was written of it.         *)
LEMMA AppendedInOrder ==
  ASSUME Typed, InOrder, 0 \in DOMAIN files, NEW l \in Line,
         files' = With(0, Append(files[0], l)),
         l.id # 0 => \A k \in DOMAIN files : \A n \in DOMAIN files[k] : files[k][n].id < l.id
  PROVE  InOrder'
<1> SUFFICES ASSUME NEW j \in DOMAIN files', NEW k \in DOMAIN files',
                    NEW m \in DOMAIN files'[j], NEW n \in DOMAIN files'[k],
                    files'[j][m].id > 0, files'[k][n].id > 0, j > k \/ (j = k /\ m < n)
             PROVE  files'[j][m].id < files'[k][n].id
  BY DEF InOrder
<1> DEFINE end == Len(files[0]) + 1
<1>1. j \in DOMAIN files /\ k \in DOMAIN files /\ j \in Nat /\ k \in Nat
  BY FilesAppend DEF Typed, Index
<1>2. ASSUME NEW i \in DOMAIN files, NEW o \in DOMAIN files'[i], ~(i = 0 /\ o = end)
      PROVE  o \in DOMAIN files[i] /\ files'[i][o] = files[i][o]
  BY <1>2, FilesAppend
<1>3. files'[0][end] = l /\ DOMAIN files'[0] = DOMAIN files[0] \union {end}
  BY FilesAppend
<1>4. \A o \in DOMAIN files[0] : o < end /\ o \in Nat
  BY FilesAppend DEF Typed
<1>5. end \in Nat
  BY DEF Typed
<1> HIDE DEF end
<1>6. ~(j = 0 /\ m = end)
  BY <1>1, <1>3, <1>4, <1>5
<1>7. m \in DOMAIN files[j] /\ files'[j][m] = files[j][m]
  BY <1>1, <1>2, <1>6
<1>8. CASE k = 0 /\ n = end
  BY <1>1, <1>3, <1>7, <1>8
<1>9. CASE ~(k = 0 /\ n = end)
  <2>1. n \in DOMAIN files[k] /\ files'[k][n] = files[k][n]
    BY <1>1, <1>2, <1>9
  <2> QED
    BY <1>1, <1>7, <2>1 DEF InOrder
<1> QED
  BY <1>8, <1>9

-----------------------------------------------------------------------------
(* The files are sequences of lines, and the writer is where it can be.     *)
LEMMA WriterStep == Typed /\ WriterInv /\ [Next]_vars => (Typed /\ WriterInv)'
<1> SUFFICES ASSUME Typed, WriterInv, [Next]_vars PROVE (Typed /\ WriterInv)'
  OBVIOUS
<1> USE Limits DEF Typed, WriterInv, Index
<1>1. CASE Open
  BY <1>1 DEF Open
<1>2. CASE WriteLine
  <2>1. PICK n \in Sizes :
           /\ pc = "idle" /\ written' = written + 1 /\ line' = n
           /\ \/ counted # 0 /\ pc' = "oldest" /\ open' = FALSE
              \/ pc' = "write" /\ UNCHANGED open
           /\ UNCHANGED <<files, index, counted, newest, fruitless>>
    BY <1>2 DEF WriteLine
  <2>2. n \in Nat /\ n # 0 /\ written' \in Nat
    BY <2>1
  <2>3. CASE counted # 0 /\ pc' = "oldest" /\ open' = FALSE
    BY <2>1, <2>2, <2>3
  <2>4. CASE pc' = "write" /\ UNCHANGED open
    BY <2>1, <2>2, <2>4
  <2> QED
    BY <2>1, <2>3, <2>4
<1>3. CASE RemoveOldest
  <2>1. files' = Without(Retained) /\ Retained \in Index
    BY <1>3 DEF RemoveOldest
  <2>2. /\ DOMAIN files' = DOMAIN files \ {Retained}
        /\ files' \in [DOMAIN files' -> Seq(Line)]
    BY <2>1, FilesWithout
  <2>3. index' = Retained - 1 /\ pc' = "shift"
    BY <1>3 DEF RemoveOldest
  <2>4. index' \in Index /\ index' < Retained /\ index' + 1 = Retained
    BY <2>3
  <2>5. Typed'
    BY <1>3, <2>2, <2>3, <2>4 DEF RemoveOldest
  <2>6. WriterInv'
    BY <1>3, <2>2, <2>3, <2>4 DEF RemoveOldest
  <2> QED
    BY <2>5, <2>6
<1>4. CASE Shift
  <2>1. CASE Exists(index)
    <3>1. index \in DOMAIN files /\ index < Retained /\ files' = Renamed(index, index + 1)
      BY <1>4, <2>1 DEF Shift, Exists
    <3>2. /\ DOMAIN files' = (DOMAIN files \ {index}) \union {index + 1}
          /\ DOMAIN files' \subseteq Index
          /\ files' \in [DOMAIN files' -> Seq(Line)]
      BY <3>1, FilesRenamed
    <3>3. index \in Nat /\ (index # 0 => index - 1 \in Index /\ index - 1 < Retained)
      BY <3>1
    <3> QED
      BY <1>4, <3>1, <3>2, <3>3 DEF Shift
  <2>2. CASE ~Exists(index)
    BY <1>4, <2>2 DEF Shift, Exists
  <2> QED
    BY <2>1, <2>2
<1>5. CASE Create
  <2>1. CASE Exists(0) /\ line = 0
    BY <1>5, <2>1 DEF Create, Exists
  <2>2. CASE ~(Exists(0) /\ line = 0)
    <3>1. files' = With(0, <<>>) /\ <<>> \in Seq(Line)
      BY <1>5, <2>2 DEF Create
    <3>2. /\ DOMAIN files' = DOMAIN files \union {0}
          /\ files'[0] = <<>>
          /\ \A j \in DOMAIN files' \ {0} : j \in DOMAIN files /\ files'[j] = files[j]
          /\ DOMAIN files' \subseteq Index
          /\ files' \in [DOMAIN files' -> Seq(Line)]
      BY <3>1, FilesWith
    <3>3. Typed'
      BY <1>5, <3>2 DEF Create
    <3>4. WriterInv'
      BY <1>5, <3>2 DEF Create
    <3> QED
      BY <3>3, <3>4
  <2> QED
    BY <2>1, <2>2
<1>6. CASE Write
  <2> DEFINE l == [id |-> written, bytes |-> line]
  <2>1. 0 \in DOMAIN files /\ l \in Line /\ files' = With(0, Append(files[0], l))
    BY <1>6 DEF Write, Line
  <2> HIDE DEF l
  <2>2. DOMAIN files' = DOMAIN files /\ files' \in [DOMAIN files' -> Seq(Line)]
    BY <2>1, FilesAppend
  <2> QED
    BY <1>6, <2>2 DEF Write
<1>7. CASE Panic
  BY <1>7 DEF Panic
<1>8. CASE WriteFails
  <2>1. PICK n \in 0 .. line :
           files' = IF n = 0 THEN files ELSE With(0, Append(files[0], [id |-> 0, bytes |-> n]))
    BY <1>8 DEF WriteFails
  <2>2. CASE n = 0
    BY <1>8, <2>1, <2>2 DEF WriteFails
  <2>3. CASE n # 0
    <3> DEFINE l == [id |-> 0, bytes |-> n]
    <3>1. 0 \in DOMAIN files /\ l \in Line /\ files' = With(0, Append(files[0], l))
      BY <1>8, <2>1, <2>3 DEF WriteFails, Line
    <3> HIDE DEF l
    <3>2. DOMAIN files' = DOMAIN files /\ files' \in [DOMAIN files' -> Seq(Line)]
      BY <3>1, FilesAppend
    <3> QED
      BY <1>8, <3>2 DEF WriteFails, Fails
  <2> QED
    BY <2>2, <2>3
<1>9. CASE RotateFails
  <2>1. /\ fruitless' \in Nat /\ pc \in {"oldest", "shift", "create"} /\ ~open
        /\ pc' = IF line = 0 THEN "off" ELSE "idle"
        /\ UNCHANGED <<files, index, open, counted, line, written, newest>>
    BY <1>9 DEF RotateFails, Rotating
  <2> QED
    BY <2>1
<1>10. CASE Crash
  <2>1. /\ fruitless' \in Nat /\ pc' = "closed" /\ open' = FALSE
        /\ UNCHANGED <<files, index, line, written, newest>>
    BY <1>10 DEF Crash
  <2> QED
    BY <2>1
<1>11. CASE UNCHANGED vars
  BY <1>11 DEF vars
<1> QED
  BY <1>1, <1>2, <1>3, <1>4, <1>5, <1>6, <1>7, <1>8, <1>9, <1>10, <1>11 DEF Next

(* The lines of the files stay old while no new one is begun.               *)
LEMMA NumbersCarried ==
  ASSUME NumbersInv, written' = written,
         \A j \in DOMAIN files' : files'[j] = <<>> \/ \E k \in DOMAIN files : files'[j] = files[k],
         \/ line' = line /\ pc \in {"write", "oldest", "shift", "create"}
         \/ line' = 0
         \/ pc' \notin {"write", "oldest", "shift", "create"}
  PROVE  NumbersInv'
<1> SUFFICES ASSUME NEW j \in DOMAIN files', NEW n \in DOMAIN files'[j]
             PROVE  /\ files'[j][n].id <= written
                    /\ pc' \in {"write", "oldest", "shift", "create"} /\ line' # 0 =>
                         files'[j][n].id < written
  BY DEF NumbersInv
<1>1. files'[j] # <<>>
  OBVIOUS
<1>2. PICK k \in DOMAIN files : files'[j] = files[k]
  BY <1>1
<1> QED
  BY <1>2 DEF NumbersInv

(* No line has a number that was not given out.                             *)
LEMMA NumbersStep == Typed /\ WriterInv /\ NumbersInv /\ [Next]_vars => NumbersInv'
<1> SUFFICES ASSUME Typed, WriterInv, NumbersInv, [Next]_vars PROVE NumbersInv'
  OBVIOUS
<1> USE Limits DEF Typed, WriterInv, NumbersInv
<1>1. CASE Open
  BY <1>1, NumbersCarried DEF Open
<1>2. CASE WriteLine
  <2>1. written' = written + 1 /\ UNCHANGED files
    BY <1>2 DEF WriteLine
  <2> SUFFICES ASSUME NEW j \in DOMAIN files, NEW n \in DOMAIN files[j]
               PROVE  files[j][n].id <= written' /\ files[j][n].id < written'
    BY <2>1
  <2>2. files[j][n].id \in Nat /\ files[j][n].id <= written
    <3>1. files[j] \in Seq(Line)
      OBVIOUS
    <3>2. files[j][n] \in Line
      BY <3>1
    <3> QED
      BY <3>2 DEF Line
  <2> QED
    BY <2>1, <2>2
<1>3. CASE RemoveOldest
  <2>1. \A j \in DOMAIN files' : j \in DOMAIN files /\ files'[j] = files[j]
    <3>1. files' = Without(Retained) /\ Retained \in Index
      BY <1>3 DEF RemoveOldest, Index
    <3> QED
      BY <3>1, FilesWithout
  <2> QED
    BY <1>3, <2>1, NumbersCarried DEF RemoveOldest
<1>4. CASE Shift
  <2>1. CASE Exists(index)
    <3>1. index \in DOMAIN files /\ index < Retained /\ files' = Renamed(index, index + 1)
      BY <1>4, <2>1 DEF Shift, Exists
    <3>2. \A j \in DOMAIN files' : \E k \in DOMAIN files : files'[j] = files[k]
      BY <3>1, FilesRenamed, ZenonT(40)
    <3> QED
      BY <1>4, <3>2, NumbersCarried DEF Shift
  <2>2. CASE ~Exists(index)
    BY <1>4, <2>2, NumbersCarried DEF Shift, Exists
  <2> QED
    BY <2>1, <2>2
<1>5. CASE Create
  <2>1. CASE Exists(0) /\ line = 0
    BY <1>5, <2>1, NumbersCarried DEF Create, Exists
  <2>2. CASE ~(Exists(0) /\ line = 0)
    <3>1. files' = With(0, <<>>) /\ <<>> \in Seq(Line)
      BY <1>5, <2>2 DEF Create
    <3>2. /\ DOMAIN files' = DOMAIN files \union {0}
          /\ files'[0] = <<>>
          /\ \A j \in DOMAIN files' \ {0} : j \in DOMAIN files /\ files'[j] = files[j]
          /\ DOMAIN files' \subseteq Index
          /\ files' \in [DOMAIN files' -> Seq(Line)]
      BY <3>1, FilesWith
    <3>3. \A j \in DOMAIN files' : files'[j] = <<>> \/ \E k \in DOMAIN files : files'[j] = files[k]
      BY <3>2
    <3> QED
      BY <1>5, <3>3, NumbersCarried DEF Create
  <2> QED
    BY <2>1, <2>2
<1>6. CASE Write
  <2> DEFINE l == [id |-> written, bytes |-> line]
  <2>1. 0 \in DOMAIN files /\ l \in Line /\ files' = With(0, Append(files[0], l))
    BY <1>6 DEF Write, Line
  <2>2. l.id = written
    OBVIOUS
  <2> HIDE DEF l
  <2> SUFFICES ASSUME NEW j \in DOMAIN files', NEW n \in DOMAIN files'[j]
               PROVE  files'[j][n].id <= written
    BY <1>6 DEF Write
  <2>3. j \in DOMAIN files /\ (j # 0 => files'[j] = files[j])
    BY <2>1, FilesAppend
  <2>4. CASE j = 0 /\ n = Len(files[0]) + 1
    BY <2>1, <2>2, <2>4, FilesAppend
  <2>5. CASE ~(j = 0 /\ n = Len(files[0]) + 1)
    <3>1. n \in DOMAIN files[j] /\ files'[j][n] = files[j][n]
      BY <2>1, <2>3, <2>5, FilesAppend
    <3> QED
      BY <2>3, <3>1
  <2> QED
    BY <2>4, <2>5
<1>7. CASE Panic
  BY <1>7, NumbersCarried DEF Panic
<1>8. CASE WriteFails
  <2>1. PICK n \in 0 .. line :
           files' = IF n = 0 THEN files ELSE With(0, Append(files[0], [id |-> 0, bytes |-> n]))
    BY <1>8 DEF WriteFails
  <2>2. CASE n = 0
    BY <1>8, <2>1, <2>2, NumbersCarried DEF WriteFails
  <2>3. CASE n # 0
    <3> DEFINE l == [id |-> 0, bytes |-> n]
    <3>1. 0 \in DOMAIN files /\ l \in Line /\ files' = With(0, Append(files[0], l))
      BY <1>8, <2>1, <2>3 DEF WriteFails, Line
    <3>2. l.id = 0
      OBVIOUS
    <3> HIDE DEF l
    <3> SUFFICES ASSUME NEW j \in DOMAIN files', NEW o \in DOMAIN files'[j]
                 PROVE  files'[j][o].id <= written
      BY <1>8 DEF WriteFails
    <3>3. j \in DOMAIN files /\ (j # 0 => files'[j] = files[j])
      BY <3>1, FilesAppend
    <3>4. CASE j = 0 /\ o = Len(files[0]) + 1
      BY <3>1, <3>2, <3>4, FilesAppend
    <3>5. CASE ~(j = 0 /\ o = Len(files[0]) + 1)
      <4>1. o \in DOMAIN files[j] /\ files'[j][o] = files[j][o]
        BY <3>1, <3>3, <3>5, FilesAppend
      <4> QED
        BY <3>3, <4>1
    <3> QED
      BY <3>4, <3>5
  <2> QED
    BY <2>2, <2>3
<1>9. CASE RotateFails
  BY <1>9, NumbersCarried DEF RotateFails, Rotating
<1>10. CASE Crash
  BY <1>10, NumbersCarried DEF Crash
<1>11. CASE UNCHANGED vars
  BY <1>11 DEF vars
<1> QED
  BY <1>1, <1>2, <1>3, <1>4, <1>5, <1>6, <1>7, <1>8, <1>9, <1>10, <1>11 DEF Next

(* Every file is as old as the place it has.                                *)
LEMMA OrderStep ==
  Typed /\ WriterInv /\ NumbersInv /\ InOrder /\ [Next]_vars =>
  InOrder'
<1> SUFFICES ASSUME Typed, WriterInv, NumbersInv, InOrder, [Next]_vars PROVE InOrder'
  OBVIOUS
<1> USE Limits DEF Typed, WriterInv, NumbersInv
<1>1. CASE Open
  BY <1>1 DEF Open, InOrder
<1>2. CASE WriteLine
  BY <1>2 DEF WriteLine, InOrder
<1>3. CASE RemoveOldest
  <2>1. \A j \in DOMAIN files' : j \in DOMAIN files /\ files'[j] = files[j]
    <3>1. files' = Without(Retained) /\ Retained \in Index
      BY <1>3 DEF RemoveOldest, Index
    <3> QED
      BY <3>1, FilesWithout
  <2> DEFINE source == [j \in DOMAIN files' |-> j]
  <2>2. source \in [DOMAIN files' -> DOMAIN files]
    BY <2>1
  <2> QED
    BY <2>1, <2>2, MovedInOrder
<1>4. CASE Shift
  <2>1. CASE Exists(index)
    <3>1. index \in DOMAIN files /\ index < Retained /\ files' = Renamed(index, index + 1)
      BY <1>4, <2>1 DEF Shift, Exists
    <3>2. /\ DOMAIN files' = (DOMAIN files \ {index}) \union {index + 1}
          /\ files'[index + 1] = files[index]
          /\ \A j \in DOMAIN files' \ {index + 1} :
               j \in DOMAIN files \ {index} /\ files'[j] = files[j]
          /\ DOMAIN files' \subseteq Index
      BY <3>1, FilesRenamed
    <3> DEFINE source == [j \in DOMAIN files' |-> IF j = index + 1 THEN index ELSE j]
    <3>3. source \in [DOMAIN files' -> DOMAIN files]
      BY <3>1, <3>2
    <3>4. \A j \in DOMAIN files' : files'[j] = files[source[j]]
      BY <3>2
    <3>5. ASSUME NEW j \in DOMAIN files', NEW k \in DOMAIN files', j > k
          PROVE  source[j] > source[k]
      BY <3>1, <3>2, <3>5 DEF Index
    <3> HIDE DEF source
    <3> QED
      BY <3>3, <3>4, <3>5, MovedInOrder
  <2>2. CASE ~Exists(index)
    BY <1>4, <2>2 DEF Shift, Exists, InOrder
  <2> QED
    BY <2>1, <2>2
<1>5. CASE Create
  <2>1. CASE Exists(0) /\ line = 0
    BY <1>5, <2>1 DEF Create, Exists, InOrder
  <2>2. CASE ~(Exists(0) /\ line = 0)
    <3>1. files' = With(0, <<>>) /\ <<>> \in Seq(Line)
      BY <1>5, <2>2 DEF Create
    <3>2. /\ DOMAIN files' = DOMAIN files \union {0}
          /\ files'[0] = <<>>
          /\ \A j \in DOMAIN files' \ {0} : j \in DOMAIN files /\ files'[j] = files[j]
          /\ DOMAIN files' \subseteq Index
          /\ files' \in [DOMAIN files' -> Seq(Line)]
      BY <3>1, FilesWith
    <3>3. 0 \notin DOMAIN files
      BY <1>5, <2>2 DEF Create, Exists
    <3> SUFFICES ASSUME NEW j \in DOMAIN files', NEW k \in DOMAIN files',
                        NEW m \in DOMAIN files'[j], NEW n \in DOMAIN files'[k],
                        files'[j][m].id > 0, files'[k][n].id > 0, j > k \/ (j = k /\ m < n)
                 PROVE  files'[j][m].id < files'[k][n].id
      BY DEF InOrder
    <3>4. j # 0 /\ k # 0
      BY <3>2
    <3> QED
      BY <3>2, <3>4 DEF InOrder
  <2> QED
    BY <2>1, <2>2
<1>6. CASE Write
  <2> DEFINE l == [id |-> written, bytes |-> line]
  <2>1. 0 \in DOMAIN files /\ l \in Line /\ files' = With(0, Append(files[0], l))
    BY <1>6 DEF Write, Line
  <2>2. l.id = written
    OBVIOUS
  <2> HIDE DEF l
  <2>3. \A k \in DOMAIN files : \A n \in DOMAIN files[k] : files[k][n].id < l.id
    BY <1>6, <2>2 DEF Write
  <2> QED
    BY <2>1, <2>3, AppendedInOrder
<1>7. CASE Panic
  BY <1>7 DEF Panic, InOrder
<1>8. CASE WriteFails
  <2>1. PICK n \in 0 .. line :
           files' = IF n = 0 THEN files ELSE With(0, Append(files[0], [id |-> 0, bytes |-> n]))
    BY <1>8 DEF WriteFails
  <2>2. CASE n = 0
    BY <2>1, <2>2 DEF InOrder
  <2>3. CASE n # 0
    <3> DEFINE l == [id |-> 0, bytes |-> n]
    <3>1. 0 \in DOMAIN files /\ l \in Line /\ files' = With(0, Append(files[0], l))
      BY <1>8, <2>1, <2>3 DEF WriteFails, Line
    <3>2. l.id = 0
      OBVIOUS
    <3> HIDE DEF l
    <3> QED
      BY <3>1, <3>2, AppendedInOrder
  <2> QED
    BY <2>2, <2>3
<1>9. CASE RotateFails
  BY <1>9 DEF RotateFails, InOrder
<1>10. CASE Crash
  BY <1>10 DEF Crash, InOrder
<1>11. CASE UNCHANGED vars
  BY <1>11 DEF vars, InOrder
<1> QED
  BY <1>1, <1>2, <1>3, <1>4, <1>5, <1>6, <1>7, <1>8, <1>9, <1>10, <1>11 DEF Next

(* The newest line stays where it is or moves to another file with the     *)
(* lines around it.                                                         *)
LEMMA PlaceKept ==
  ASSUME Typed, PlaceInv, newest' = newest, fruitless' \in {fruitless, fruitless + 1},
         \A k \in DOMAIN files : Within(k) /\ newest > 0 /\ fruitless' < Retained =>
           \E j \in DOMAIN files' :
             Within(j)' /\ \A n \in DOMAIN files[k] :
               \E m \in DOMAIN files'[j] : files'[j][m] = files[k][n]
  PROVE  PlaceInv'
<1> SUFFICES ASSUME newest > 0, fruitless' < Retained
             PROVE  \E j \in DOMAIN files' :
                      (\E m \in DOMAIN files'[j] : files'[j][m].id = newest) /\ Within(j)'
  BY DEF PlaceInv
<1>1. fruitless < Retained
  BY Limits DEF Typed
<1>2. PICK k \in DOMAIN files : Within(k) /\ \E n \in DOMAIN files[k] : files[k][n].id = newest
  BY <1>1 DEF PlaceInv
<1>3. PICK j \in DOMAIN files' :
         Within(j)' /\ \A n \in DOMAIN files[k] :
           \E m \in DOMAIN files'[j] : files'[j][m] = files[k][n]
  BY <1>2
<1> QED
  BY <1>2, <1>3

(* How far the newest line can move in a step.                              *)
LEMMA PlaceStep ==
  Typed /\ WriterInv /\ NumbersInv /\ PlaceInv /\ [Next]_vars =>
  PlaceInv'
<1> SUFFICES ASSUME Typed, WriterInv, NumbersInv, PlaceInv, [Next]_vars PROVE PlaceInv'
  OBVIOUS
<1> USE Limits DEF Typed, WriterInv, Index
<1>1. CASE Open
  <2> SUFFICES ASSUME NEW k \in DOMAIN files, Within(k), newest > 0, fruitless' < Retained
               PROVE  \E j \in DOMAIN files' :
                        Within(j)' /\ \A n \in DOMAIN files[k] :
                          \E m \in DOMAIN files'[j] : files'[j][m] = files[k][n]
    BY <1>1, PlaceKept DEF Open
  <2> USE DEF Within
  <2> SUFFICES files' = files /\ Within(k)'
    OBVIOUS
  <2> QED
    BY <1>1 DEF Open
<1>2. CASE WriteLine
  <2> SUFFICES ASSUME NEW k \in DOMAIN files, Within(k), newest > 0, fruitless' < Retained
               PROVE  \E j \in DOMAIN files' :
                        Within(j)' /\ \A n \in DOMAIN files[k] :
                          \E m \in DOMAIN files'[j] : files'[j][m] = files[k][n]
    BY <1>2, PlaceKept DEF WriteLine
  <2> USE DEF Within
  <2> SUFFICES files' = files /\ Within(k)'
    OBVIOUS
  <2> QED
    BY <1>2 DEF WriteLine
<1>3. CASE RemoveOldest
  <2> SUFFICES ASSUME NEW k \in DOMAIN files, Within(k), newest > 0, fruitless' < Retained
               PROVE  \E j \in DOMAIN files' :
                        Within(j)' /\ \A n \in DOMAIN files[k] :
                          \E m \in DOMAIN files'[j] : files'[j][m] = files[k][n]
    BY <1>3, PlaceKept DEF RemoveOldest
  <2> USE DEF Within
  <2>1. files' = Without(Retained) /\ Retained \in Index
    BY <1>3 DEF RemoveOldest, Index
  <2>2. DOMAIN files' = DOMAIN files \ {Retained} /\ \A j \in DOMAIN files' : files'[j] = files[j]
    BY <2>1, FilesWithout
  <2>3. k <= fruitless /\ k \in Nat
    BY <1>3 DEF RemoveOldest, Index
  <2>4. k \in DOMAIN files' /\ files'[k] = files[k]
    BY <1>3, <2>2, <2>3 DEF RemoveOldest
  <2>5. Within(k)'
    BY <1>3, <2>3 DEF RemoveOldest
  <2> QED
    BY <2>4, <2>5
<1>4. CASE Shift
  <2> SUFFICES ASSUME NEW k \in DOMAIN files, Within(k), newest > 0, fruitless' < Retained
               PROVE  \E j \in DOMAIN files' :
                        Within(j)' /\ \A n \in DOMAIN files[k] :
                          \E m \in DOMAIN files'[j] : files'[j][m] = files[k][n]
    BY <1>4, PlaceKept DEF Shift
  <2> USE DEF Within
  <2>0. /\ pc = "shift" /\ k \in Nat /\ index \in Nat /\ k # index + 1
        /\ pc' = (IF index = 0 THEN "create" ELSE "shift")
        /\ index' = (IF index = 0 THEN 0 ELSE index - 1)
        /\ UNCHANGED <<newest, fruitless>>
    BY <1>4 DEF Shift, Index
  <2>1. CASE Exists(index)
    <3>1. index \in DOMAIN files /\ index < Retained /\ files' = Renamed(index, index + 1)
      BY <1>4, <2>1 DEF Shift, Exists
    <3>2. /\ DOMAIN files' = (DOMAIN files \ {index}) \union {index + 1}
          /\ files'[index + 1] = files[index]
          /\ \A j \in DOMAIN files' \ {index + 1} :
               j \in DOMAIN files \ {index} /\ files'[j] = files[j]
      BY <3>1, FilesRenamed
    <3>3. CASE k = index
      <4>1. PICK j \in Nat : j = index + 1
        BY <2>0
      <4>2. j \in DOMAIN files' /\ files'[j] = files[k]
        BY <3>2, <3>3, <4>1
      <4>3. Within(j)'
        BY <2>0, <3>2, <3>3, <4>1
      <4> QED
        BY <4>2, <4>3
    <3>4. CASE k # index
      <4>1. k \in DOMAIN files' /\ files'[k] = files[k]
        BY <2>0, <3>2, <3>4
      <4>2. Within(k)'
        BY <2>0, <3>2, <3>4
      <4> QED
        BY <4>1, <4>2
    <3> QED
      BY <3>3, <3>4
  <2>2. CASE ~Exists(index)
    <3>1. files' = files /\ k # index
      BY <1>4, <2>2 DEF Shift, Exists
    <3>2. Within(k)'
      BY <2>0, <3>1, <2>2 DEF Exists
    <3> QED
      BY <3>1, <3>2
  <2> QED
    BY <2>1, <2>2
<1>5. CASE Create
  <2> SUFFICES ASSUME NEW k \in DOMAIN files, Within(k), newest > 0, fruitless' < Retained
               PROVE  \E j \in DOMAIN files' :
                        Within(j)' /\ \A n \in DOMAIN files[k] :
                          \E m \in DOMAIN files'[j] : files'[j][m] = files[k][n]
    BY <1>5, PlaceKept DEF Create
  <2> USE DEF Within
  <2>1. CASE Exists(0) /\ line = 0
    <3>1. files' = files /\ Within(k)'
      BY <1>5, <2>1 DEF Create, Exists
    <3> QED
      BY <3>1
  <2>2. CASE ~(Exists(0) /\ line = 0)
    <3>1. files' = With(0, <<>>) /\ <<>> \in Seq(Line) /\ 0 \notin DOMAIN files
      BY <1>5, <2>2 DEF Create, Exists
    <3>2. k \in DOMAIN files' /\ files'[k] = files[k]
      BY <3>1, FilesWith
    <3>3. counted' = 0
      BY <1>5, <3>1 DEF Create, Bytes, Exists
    <3>4. Within(k)'
      BY <1>5, <3>1, <3>3 DEF Create
    <3> QED
      BY <3>2, <3>4
  <2> QED
    BY <2>1, <2>2
<1>6. CASE Write
  <2> DEFINE l == [id |-> written, bytes |-> line]
  <2>1. 0 \in DOMAIN files /\ l \in Line /\ files' = With(0, Append(files[0], l))
    BY <1>6 DEF Write, Line
  <2>2. l.id = written
    OBVIOUS
  <2> HIDE DEF l
  <2>3. /\ 0 \in DOMAIN files' /\ Len(files[0]) + 1 \in DOMAIN files'[0]
        /\ files'[0][Len(files[0]) + 1].id = newest'
    BY <1>6, <2>1, <2>2, FilesAppend DEF Write
  <2>4. Within(0)'
    BY <1>6 DEF Write, Within
  <2> QED
    BY <2>3, <2>4 DEF PlaceInv
<1>7. CASE Panic
  <2> SUFFICES ASSUME NEW k \in DOMAIN files, Within(k), newest > 0, fruitless' < Retained
               PROVE  \E j \in DOMAIN files' :
                        Within(j)' /\ \A n \in DOMAIN files[k] :
                          \E m \in DOMAIN files'[j] : files'[j][m] = files[k][n]
    BY <1>7, PlaceKept DEF Panic
  <2> USE DEF Within
  <2> SUFFICES files' = files /\ Within(k)'
    OBVIOUS
  <2> QED
    BY <1>7 DEF Panic
<1>8. CASE WriteFails
  <2> SUFFICES ASSUME NEW k \in DOMAIN files, Within(k), newest > 0, fruitless' < Retained
               PROVE  \E j \in DOMAIN files' :
                        Within(j)' /\ \A n \in DOMAIN files[k] :
                          \E m \in DOMAIN files'[j] : files'[j][m] = files[k][n]
    BY <1>8, PlaceKept DEF WriteFails, Fails
  <2> USE DEF Within
  <2>0. Within(k)'
    <3>1. pc = "write" /\ pc' = "idle" /\ UNCHANGED <<counted, fruitless>>
      BY <1>8 DEF WriteFails
    <3> QED
      BY <3>1
  <2>1. PICK n \in 0 .. line :
           files' = IF n = 0 THEN files ELSE With(0, Append(files[0], [id |-> 0, bytes |-> n]))
    BY <1>8 DEF WriteFails
  <2>2. CASE n = 0
    BY <2>0, <2>1, <2>2
  <2>3. CASE n # 0
    <3> DEFINE l == [id |-> 0, bytes |-> n]
    <3>1. 0 \in DOMAIN files /\ l \in Line /\ files' = With(0, Append(files[0], l))
      BY <1>8, <2>1, <2>3 DEF WriteFails, Line
    <3> HIDE DEF l
    <3>2. \A m \in DOMAIN files[k] : m \in DOMAIN files'[k] /\ files'[k][m] = files[k][m]
      BY <3>1, FilesAppend
    <3>3. k \in DOMAIN files'
      BY <3>1, FilesAppend
    <3> QED
      BY <2>0, <3>2, <3>3
  <2> QED
    BY <2>2, <2>3
<1>9. CASE RotateFails
  <2> SUFFICES ASSUME NEW k \in DOMAIN files, Within(k), newest > 0, fruitless' < Retained
               PROVE  \E j \in DOMAIN files' :
                        Within(j)' /\ \A n \in DOMAIN files[k] :
                          \E m \in DOMAIN files'[j] : files'[j][m] = files[k][n]
    BY <1>9, PlaceKept DEF RotateFails
  <2> USE DEF Within
  <2> SUFFICES files' = files /\ Within(k)'
    OBVIOUS
  <2> QED
    BY <1>9 DEF RotateFails, Rotating
<1>10. CASE Crash
  <2> SUFFICES ASSUME NEW k \in DOMAIN files, Within(k), newest > 0, fruitless' < Retained
               PROVE  \E j \in DOMAIN files' :
                        Within(j)' /\ \A n \in DOMAIN files[k] :
                          \E m \in DOMAIN files'[j] : files'[j][m] = files[k][n]
    BY <1>10, PlaceKept DEF Crash
  <2> USE DEF Within
  <2> SUFFICES files' = files /\ Within(k)'
    OBVIOUS
  <2> QED
    BY <1>10 DEF Crash
<1>11. CASE UNCHANGED vars
  BY <1>11 DEF vars, PlaceInv, Within
<1> QED
  BY <1>1, <1>2, <1>3, <1>4, <1>5, <1>6, <1>7, <1>8, <1>9, <1>10, <1>11 DEF Next

LEMMA JournalInit == Init => JournalInv
<1> SUFFICES ASSUME Init PROVE JournalInv
  OBVIOUS
<1>1. files \in [DOMAIN files -> Seq(Line)] /\ DOMAIN files = {}
  BY DEF Init
<1>2. Typed
  <2>1. 0 \in Index
    BY Limits DEF Index
  <2>2. DOMAIN files \subseteq Index
    BY <1>1
  <2> QED
    BY <1>1, <2>1, <2>2 DEF Init, Typed
<1>3. WriterInv /\ NumbersInv /\ InOrder /\ PlaceInv
  BY <1>1 DEF Init, WriterInv, NumbersInv, InOrder, PlaceInv
<1> QED
  BY <1>2, <1>3 DEF JournalInv

LEMMA JournalStep == JournalInv /\ [Next]_vars => JournalInv'
  BY WriterStep, NumbersStep, OrderStep, PlaceStep DEF JournalInv

LEMMA JournalInvariant == Spec => []JournalInv
  BY JournalInit, JournalStep, PTL DEF Spec

-----------------------------------------------------------------------------
(* The files are read in the order in which their lines were logged,        *)
(* whatever rotations failed or were cut short.                             *)
THEOREM JournalInOrder == Spec => []InOrder
<1>1. JournalInv => InOrder
  BY DEF JournalInv
<1> QED
  BY <1>1, JournalInvariant, PTL

(* It takes as many failed rotations as files are retained to lose the line *)
(* that was logged last.                                                    *)
THEOREM JournalNewestKept == Spec => []NewestKept
<1>1. JournalInv => NewestKept
  BY DEF JournalInv, PlaceInv, NewestKept
<1> QED
  BY <1>1, JournalInvariant, PTL
=============================================================================
