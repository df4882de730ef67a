---------------------------- MODULE WorkerProofs ----------------------------
(***************************************************************************)
(* What the worker guarantees where it meets the disk and the clock: the   *)
(* spool (Spool), for every capacity, every number of reports and both     *)
(* ways of replacing the primary file; and its connection and its reading  *)
(* of the log as time passes (Connection, Pacing), for all delays,         *)
(* timeouts, windows and numbers of calls.                                 *)
(***************************************************************************)
EXTENDS Spool, Pacing, SequenceTheorems, WellFoundedInduction, TLAPS

-----------------------------------------------------------------------------
(* Dropping reports leaves a shorter sequence of the same reports, in the   *)
(* same order.                                                              *)
LEMMA RemaindersProperties ==
    ASSUME NEW S, NEW s \in Seq(S), NEW kept \in Remainders(s)
    PROVE  /\ kept \in Seq(S)
           /\ Len(kept) < Len(s)
           /\ \E f \in [1 .. Len(kept) -> 1 .. Len(s)] :
                /\ \A i, j \in 1 .. Len(kept) : i < j => f[i] < f[j]
                /\ \A i \in 1 .. Len(kept) : kept[i] = s[f[i]]
<1>1. Len(s) \in Nat
  BY LenProperties
<1>2. PICK n \in 0 .. Len(s) - 1 :
        \E f \in [1 .. n -> 1 .. Len(s)] :
           /\ \A i, j \in 1 .. n : i < j => f[i] < f[j]
           /\ kept = [i \in 1 .. n |-> s[f[i]]]
  BY DEF Remainders
<1>3. PICK f \in [1 .. n -> 1 .. Len(s)] :
           /\ \A i, j \in 1 .. n : i < j => f[i] < f[j]
           /\ kept = [i \in 1 .. n |-> s[f[i]]]
  BY <1>2
<1>4. n \in Nat /\ n < Len(s)
  BY <1>1
<1>5. \A i \in 1 .. n : s[f[i]] \in S
  BY <1>1, ElementOfSeq
<1>6. kept \in Seq(S) /\ Len(kept) = n
  BY <1>3, <1>4, <1>5, SMT
<1>. QED
  BY <1>3, <1>4, <1>6

(* The elements of a sequence.                                              *)
LEMMA ToSetProperties ==
    ASSUME NEW S, NEW s \in Seq(S)
    PROVE  /\ ToSet(s) \subseteq S
           /\ ToSet(s) = { s[i] : i \in 1 .. Len(s) }
BY LenProperties, ElementOfSeq DEF ToSet

(* Taking the last element away from a sequence.                            *)
LEMMA FrontProperties ==
    ASSUME NEW S, NEW s \in Seq(S)
    PROVE  /\ Front(s) \in Seq(S)
           /\ \A e \in S : Front(Append(s, e)) = s
<1>1. Len(s) \in Nat /\ Len(s) - 1 \in Int
  BY LenProperties
<1>2. \A i \in 1 .. Len(s) - 1 : s[i] \in S
  BY <1>1, ElementOfSeq
<1>3. Front(s) \in Seq(S)
  BY <1>1, <1>2, SubSeqProperties DEF Front
<1>4. ASSUME NEW e \in S
      PROVE  Front(Append(s, e)) = s
  <2> DEFINE t == Append(s, e)
  <2>1. /\ t \in Seq(S) /\ Len(t) = Len(s) + 1
        /\ \A i \in 1 .. Len(s) : t[i] = s[i]
    BY AppendProperties
  <2> HIDE DEF t
  <2>2. /\ SubSeq(t, 1, Len(s)) \in Seq(S)
        /\ Len(SubSeq(t, 1, Len(s))) = Len(s)
        /\ \A i \in 1 .. Len(s) : SubSeq(t, 1, Len(s))[i] = t[i]
    <3>1. \A i \in 1 .. Len(s) : t[i] \in S
      BY <2>1, <1>1, ElementOfSeq
    <3>. QED
      BY <3>1, <1>1, SubSeqProperties, Z3
  <2>3. SubSeq(t, 1, Len(s)) = s
    BY <2>1, <2>2, <1>1, SeqEqual
  <2>. QED
    BY <2>1, <2>3, <1>1 DEF Front, t
<1>. QED
  BY <1>3, <1>4

(* Taking the first element away and putting it back.                       *)
LEMMA HeadBack ==
    ASSUME NEW S, NEW s \in Seq(S), s # <<>>
    PROVE  /\ <<Head(s)>> \in Seq(S)
           /\ <<Head(s)>> \o Tail(s) = s
           /\ ToSet(<<Head(s)>>) = {Head(s)}
<1>1. Len(s) \in Nat /\ Len(s) # 0 /\ Head(s) = s[1]
  BY EmptySeq, LenProperties
<1>2. /\ Head(s) \in S /\ Tail(s) \in Seq(S) /\ Len(Tail(s)) = Len(s) - 1
      /\ \A i \in 1 .. Len(s) - 1 : Tail(s)[i] = s[i + 1]
  BY HeadTailProperties
<1>3. <<Head(s)>> \in Seq(S) /\ Len(<<Head(s)>>) = 1 /\ <<Head(s)>>[1] = Head(s)
  BY <1>2
<1> DEFINE t == <<Head(s)>> \o Tail(s)
<1>4. /\ t \in Seq(S) /\ Len(t) = Len(s)
      /\ \A i \in 1 .. Len(s) : t[i] = IF i <= 1 THEN <<Head(s)>>[i] ELSE Tail(s)[i - 1]
  BY <1>1, <1>2, <1>3, ConcatProperties
<1>5. \A i \in 1 .. Len(s) : t[i] = s[i]
  <2>1. TAKE i \in 1 .. Len(s)
  <2>2. CASE i = 1
    BY <2>2, <1>1, <1>3, <1>4
  <2>3. CASE i # 1
    <3>1. i - 1 \in 1 .. Len(s) - 1 /\ ~(i <= 1) /\ (i - 1) + 1 = i
      BY <2>3, <1>1
    <3>2. Tail(s)[i - 1] = s[i]
      BY <3>1, <1>2
    <3>. QED
      BY <3>1, <3>2, <1>4
  <2>. QED
    BY <2>2, <2>3
<1> HIDE DEF t
<1>6. t = s
  BY <1>1, <1>4, <1>5, SeqEqual
<1>7. ToSet(<<Head(s)>>) = {Head(s)}
  BY DEF ToSet
<1>. QED
  BY <1>3, <1>6, <1>7 DEF t

-----------------------------------------------------------------------------
(* Types.  Install returns the report that was enqueued, so the proof needs *)
(* that an enqueue in progress has one.                                     *)
TypeInv ==
    /\ TypeOK
    /\ pc \in Persisting /\ operation = "enqueue" => reports # <<>>

LEMMA FileTypes ==
    /\ Absent \in File
    /\ Torn \in File
    /\ \A q \in Seq(Report) : Snapshot(q) \in File
BY EmptySeq DEF File, Absent, Torn, Snapshot

LEMMA RecoverableType ==
    ASSUME TypeOK
    PROVE  Recoverable \in Seq(Report)
<1>1. \A c \in Candidates : disk[c].reports \in Seq(Report)
  BY DEF TypeOK, File
<1>. QED
  BY <1>1, EmptySeq DEF Recoverable, Loaded, Candidates

LEMMA RolledBackType ==
    ASSUME TypeOK, operation # "open"
    PROVE  RolledBack \in Seq(Report)
<1>1. CASE operation = "enqueue"
  BY <1>1, FrontProperties DEF TypeOK, RolledBack
<1>2. CASE operation = "acknowledge"
  BY <1>2, ConcatProperties DEF TypeOK, RolledBack
<1>3. CASE operation = "discard"
  BY <1>3 DEF TypeOK, RolledBack
<1>. QED
  BY <1>1, <1>2, <1>3 DEF TypeOK

LEMMA TypeInit == Init => TypeInv
BY SpoolAssumption, EmptySeq, FileTypes
   DEF Init, TypeInv, TypeOK, Candidates, Persisting

LEMMA TypeStep == TypeInv /\ [Next]_vars => TypeInv'
<1> SUFFICES ASSUME TypeInv, [Next]_vars
             PROVE  TypeInv'
  OBVIOUS
<1> USE FileTypes, EmptySeq
<1>1. CASE Open
  <2>1. Recoverable \in Seq(Report)
    BY RecoverableType DEF TypeInv
  <2>2. InvalidCandidates \subseteq Candidates
    BY DEF InvalidCandidates
  <2>. QED
    BY <1>1, <2>1, <2>2 DEF Open, TypeInv, TypeOK, Persisting
<1>2. CASE Quarantine
  <2>1. PICK c \in invalid :
          /\ disk' = [disk EXCEPT ![c] = Absent]
          /\ invalid' = invalid \ {c}
          /\ IF invalid = {c}
             THEN BeginPersist("open", reports, <<>>)
             ELSE UNCHANGED <<reports, undo, operation, pc, attempts>>
    BY <1>2 DEF Quarantine
  <2>2. disk' \in [Candidates -> File]
    BY <2>1 DEF TypeInv, TypeOK
  <2>. QED
    BY <1>2, <2>1, <2>2 DEF Quarantine, BeginPersist, TypeInv, TypeOK, Persisting
<1>3. CASE Enqueue
  <2>1. issued' \in Report /\ issued' \in 0 .. MaxReports
    BY <1>3, SpoolAssumption DEF Enqueue, TypeInv, TypeOK, Report
  <2>2. Append(reports, issued') \in Seq(Report) /\ Append(reports, issued') # <<>>
    BY <2>1, AppendProperties DEF TypeInv, TypeOK
  <2>. QED
    BY <1>3, <2>1, <2>2 DEF Enqueue, BeginPersist, TypeInv, TypeOK, Persisting
<1>4. CASE Acknowledge
  <2>1. Tail(reports) \in Seq(Report) /\ Head(reports) \in Report
        /\ <<Head(reports)>> \in Seq(Report)
    BY <1>4, HeadTailProperties, HeadBack DEF Acknowledge, TypeInv, TypeOK
  <2>. QED
    BY <1>4, <2>1 DEF Acknowledge, BeginPersist, TypeInv, TypeOK, Persisting
<1>5. CASE DiscardBefore
  <2>1. PICK kept \in Remainders(reports) :
          /\ BeginPersist("discard", kept, reports)
          /\ removing' = removing \union (ToSet(reports) \ ToSet(kept))
    BY <1>5 DEF DiscardBefore
  <2>2. kept \in Seq(Report) /\ ToSet(reports) \subseteq Report
    BY RemaindersProperties, ToSetProperties DEF TypeInv, TypeOK
  <2>. QED
    BY <1>5, <2>1, <2>2 DEF DiscardBefore, BeginPersist, TypeInv, TypeOK, Persisting
<1>6. CASE CreateTemporary
  BY <1>6 DEF CreateTemporary, Advance, history, TypeInv, TypeOK, Persisting, Candidates
<1>7. CASE WriteTemporary
  BY <1>7 DEF WriteTemporary, Advance, history, TypeInv, TypeOK, Persisting, Candidates
<1>8. CASE SkipBackup
  BY <1>8 DEF SkipBackup, Advance, history, TypeInv, TypeOK, Persisting
<1>9. CASE BeginBackup
  BY <1>9 DEF BeginBackup, Advance, history, TypeInv, TypeOK, Persisting, Candidates
<1>10. CASE FinishBackup
  BY <1>10 DEF FinishBackup, Advance, history, TypeInv, TypeOK, Persisting, Candidates
<1>11. CASE RemovePrimary
  BY <1>11 DEF RemovePrimary, Advance, history, TypeInv, TypeOK, Persisting, Candidates
<1>12. CASE Install
  <2>1. ToSet(undo) \subseteq Report
    BY ToSetProperties DEF TypeInv, TypeOK
  <2>2. operation = "enqueue" => Last(reports) \in Report
    <3>1. operation = "enqueue" => Len(reports) \in Nat \ {0}
      BY <1>12 DEF Install, TypeInv, TypeOK, Persisting
    <3>. QED
      BY <3>1, ElementOfSeq DEF TypeInv, TypeOK, Last
  <2>3. accepted' \subseteq Report /\ settled' \subseteq Report
    BY <1>12, <2>1, <2>2 DEF Install, TypeInv, TypeOK
  <2>4. disk' \in [Candidates -> File]
    BY <1>12 DEF Install, TypeInv, TypeOK, Candidates
  <2>. QED
    BY <1>12, <2>3, <2>4 DEF Install, TypeInv, TypeOK, Persisting
<1>13. CASE PersistFails
  <2>1. disk' \in [Candidates -> File]
    BY <1>13 DEF PersistFails, TypeInv, TypeOK, Candidates
  <2>2. CASE operation = "open"
    BY <1>13, <2>1, <2>2 DEF PersistFails, Closed, history, TypeInv, TypeOK, Persisting
  <2>3. CASE operation # "open"
    BY <1>13, <2>1, <2>3, RolledBackType
       DEF PersistFails, history, TypeInv, TypeOK, Persisting
  <2>. QED
    BY <2>2, <2>3
<1>14. CASE Crash
  BY <1>14 DEF Crash, Closed, history, TypeInv, TypeOK, Persisting
<1>15. CASE Corrupt
  BY <1>15 DEF Corrupt, memory, history, TypeInv, TypeOK, Candidates, Persisting
<1>16. CASE UNCHANGED vars
  BY <1>16 DEF vars, memory, history, TypeInv, TypeOK, Persisting
<1>. QED
  BY <1>1, <1>2, <1>3, <1>4, <1>5, <1>6, <1>7, <1>8, <1>9, <1>10, <1>11,
     <1>12, <1>13, <1>14, <1>15, <1>16 DEF Next

(* Every variable keeps its type; in particular everything that is ever on  *)
(* disk is a whole snapshot, a cut one or nothing.                          *)
THEOREM SpoolType == Spec => []TypeOK
<1>1. Spec => []TypeInv
  BY TypeInit, TypeStep, PTL DEF Spec
<1>2. TypeInv => TypeOK
  BY DEF TypeInv
<1>. QED
  BY <1>1, <1>2, PTL

-----------------------------------------------------------------------------
(* Order and capacity.  Every queue in memory and on disk is a queue of     *)
(* reports in the order of their creation, no longer than the capacity, and *)
(* so is what an operation in progress would fall back to.                  *)
QueueOK(q, n) ==
    /\ \A i, j \in 1 .. Len(q) : i < j => q[i] < q[j]
    /\ Len(q) <= Capacity
    /\ \A i \in 1 .. Len(q) : q[i] <= n

OrderInv ==
    /\ QueueOK(reports, issued)
    /\ \A c \in Candidates : QueueOK(disk[c].reports, issued)
    /\ pc \in Persisting /\ operation # "open" => QueueOK(RolledBack, issued)

LEMMA QueueElements ==
    ASSUME NEW q \in Seq(Report), NEW i \in 1 .. Len(q)
    PROVE  q[i] \in Report /\ q[i] \in Int
<1>1. q[i] \in Report
  BY ElementOfSeq
<1>2. Report \subseteq Int
  BY SpoolAssumption DEF Report
<1>. QED
  BY <1>1, <1>2

LEMMA QueueEmpty == \A n : QueueOK(<<>>, n)
BY SpoolAssumption DEF QueueOK

LEMMA QueueAppend ==
    ASSUME NEW n \in Nat, n + 1 \in Report, NEW q \in Seq(Report),
           QueueOK(q, n), Len(q) < Capacity
    PROVE  QueueOK(Append(q, n + 1), n + 1)
<1> DEFINE t == Append(q, n + 1)
<1>1. /\ Len(t) = Len(q) + 1 /\ Len(q) \in Nat
      /\ \A i \in 1 .. Len(q) : t[i] = q[i] /\ q[i] \in Int
      /\ t[Len(q) + 1] = n + 1
  BY AppendProperties, LenProperties, QueueElements
<1> HIDE DEF t
<1>2. \A i \in 1 .. Len(t) : i = Len(q) + 1 \/ i \in 1 .. Len(q)
  BY <1>1
<1>3. \A i \in 1 .. Len(q) : t[i] <= n
  BY <1>1 DEF QueueOK
<1>4. \A i, j \in 1 .. Len(t) : i < j => t[i] < t[j]
  <2>1. SUFFICES ASSUME NEW i \in 1 .. Len(t), NEW j \in 1 .. Len(t), i < j
                 PROVE  t[i] < t[j]
    OBVIOUS
  <2>2. i \in 1 .. Len(q)
    BY <2>1, <1>1, <1>2
  <2>3. CASE j \in 1 .. Len(q)
    BY <2>1, <2>2, <2>3, <1>1 DEF QueueOK
  <2>4. CASE j = Len(q) + 1
    BY <2>2, <2>4, <1>1, <1>3
  <2>. QED
    BY <2>3, <2>4, <1>2
<1>5. \A i \in 1 .. Len(t) : t[i] <= n + 1
  BY <1>1, <1>2, <1>3
<1>6. Len(t) <= Capacity
  BY <1>1, SpoolAssumption
<1>. QED
  BY <1>4, <1>5, <1>6 DEF QueueOK, t

LEMMA QueueTail ==
    ASSUME NEW n \in Nat, NEW q \in Seq(Report), q # <<>>, QueueOK(q, n)
    PROVE  /\ QueueOK(Tail(q), n)
           /\ Head(q) \notin ToSet(Tail(q))
           /\ ToSet(q) = {Head(q)} \union ToSet(Tail(q))
<1>1. /\ Len(q) \in Nat \ {0} /\ Head(q) = q[1]
      /\ Tail(q) \in Seq(Report) /\ Len(Tail(q)) = Len(q) - 1
      /\ \A i \in 1 .. Len(q) - 1 : Tail(q)[i] = q[i + 1]
  BY HeadTailProperties, EmptySeq
<1>2. \A i \in 1 .. Len(q) - 1 : i + 1 \in 1 .. Len(q)
  BY <1>1
<1>3. QueueOK(Tail(q), n)
  <2>1. \A i, j \in 1 .. Len(q) - 1 : i < j => Tail(q)[i] < Tail(q)[j]
    <3>1. SUFFICES ASSUME NEW i \in 1 .. Len(q) - 1, NEW j \in 1 .. Len(q) - 1, i < j
                   PROVE  q[i + 1] < q[j + 1]
      BY <1>1
    <3>2. i + 1 < j + 1
      BY <3>1, <1>1
    <3>. QED
      BY <3>2, <1>2 DEF QueueOK
  <2>2. \A i \in 1 .. Len(q) - 1 : Tail(q)[i] <= n
    BY <1>1, <1>2 DEF QueueOK
  <2>3. Len(q) - 1 <= Capacity
    BY <1>1, SpoolAssumption DEF QueueOK
  <2>. QED
    BY <2>1, <2>2, <2>3, <1>1 DEF QueueOK
<1>4. ToSet(Tail(q)) = { Tail(q)[i] : i \in 1 .. Len(q) - 1 }
  BY <1>1, ToSetProperties
<1>5. \A i \in 1 .. Len(q) - 1 : q[1] < Tail(q)[i] /\ Tail(q)[i] \in Int /\ q[1] \in Int
  <2>1. TAKE i \in 1 .. Len(q) - 1
  <2>2. 1 \in 1 .. Len(q) /\ i + 1 \in 1 .. Len(q) /\ 1 < i + 1
    BY <1>1
  <2>3. q[1] < q[i + 1]
    BY <2>2 DEF QueueOK
  <2>. QED
    BY <2>2, <2>3, <1>1, QueueElements
<1>6. Head(q) \notin ToSet(Tail(q))
  BY <1>1, <1>4, <1>5
<1>7. ToSet(q) = {Head(q)} \union ToSet(Tail(q))
  <2>1. ToSet(q) = { q[i] : i \in 1 .. Len(q) }
    BY ToSetProperties
  <2>2. \A i \in 1 .. Len(q) : i = 1 \/ (i - 1 \in 1 .. Len(q) - 1 /\ (i - 1) + 1 = i)
    BY <1>1
  <2>3. \A i \in 1 .. Len(q) : q[i] = Head(q) \/ q[i] \in ToSet(Tail(q))
    <3>1. TAKE i \in 1 .. Len(q)
    <3>2. CASE i = 1
      BY <3>2, <1>1
    <3>3. CASE i - 1 \in 1 .. Len(q) - 1 /\ (i - 1) + 1 = i
      <4>1. Tail(q)[i - 1] = q[i]
        BY <3>3, <1>1
      <4>. QED
        BY <3>3, <4>1, <1>4
    <3>. QED
      BY <3>2, <3>3, <2>2
  <2>4. Head(q) \in ToSet(q)
    BY <1>1, <2>1
  <2>5. ToSet(Tail(q)) \subseteq ToSet(q)
    BY <1>1, <1>2, <1>4, <2>1
  <2>. QED
    BY <2>1, <2>3, <2>4, <2>5
<1>. QED
  BY <1>3, <1>6, <1>7

LEMMA QueueRemainder ==
    ASSUME NEW n \in Nat, NEW q \in Seq(Report), QueueOK(q, n),
           NEW kept \in Remainders(q)
    PROVE  QueueOK(kept, n)
<1>1. /\ kept \in Seq(Report) /\ Len(kept) < Len(q)
      /\ \E f \in [1 .. Len(kept) -> 1 .. Len(q)] :
                /\ \A i, j \in 1 .. Len(kept) : i < j => f[i] < f[j]
                /\ \A i \in 1 .. Len(kept) : kept[i] = q[f[i]]
  BY RemaindersProperties
<1>2. PICK f \in [1 .. Len(kept) -> 1 .. Len(q)] :
                /\ \A i, j \in 1 .. Len(kept) : i < j => f[i] < f[j]
                /\ \A i \in 1 .. Len(kept) : kept[i] = q[f[i]]
  BY <1>1
<1>3. Len(kept) \in Nat /\ Len(q) \in Nat
  BY <1>1, LenProperties
<1>4. Len(kept) <= Capacity
  BY <1>1, <1>3, SpoolAssumption DEF QueueOK
<1>. QED
  BY <1>2, <1>4 DEF QueueOK

LEMMA QueueLater ==
    ASSUME NEW n \in Nat, NEW q \in Seq(Report), QueueOK(q, n)
    PROVE  QueueOK(q, n + 1)
<1>1. \A i \in 1 .. Len(q) : q[i] \in Int
  BY QueueElements
<1>. QED
  BY <1>1 DEF QueueOK

LEMMA RecoverableInOrder ==
    ASSUME OrderInv
    PROVE  QueueOK(Recoverable, issued)
BY QueueEmpty DEF OrderInv, Recoverable, Loaded, Candidates

LEMMA OrderInit == Init => OrderInv
BY QueueEmpty DEF Init, OrderInv, Absent, Persisting, Candidates

LEMMA OrderStep == TypeInv /\ OrderInv /\ [Next]_vars => OrderInv'
<1> SUFFICES ASSUME TypeInv, OrderInv, [Next]_vars
             PROVE  OrderInv'
  OBVIOUS
<1> USE QueueEmpty
<1>1. CASE Open
  <2>1. QueueOK(reports', issued') /\ issued' = issued /\ disk' = disk
    BY <1>1, RecoverableInOrder DEF Open
  <2>2. operation' = "open"
    BY <1>1 DEF Open
  <2>. QED
    BY <2>1, <2>2 DEF OrderInv
<1>2. CASE Quarantine
  <2>1. PICK c \in invalid :
          /\ disk' = [disk EXCEPT ![c] = Absent]
          /\ IF invalid = {c}
             THEN BeginPersist("open", reports, <<>>)
             ELSE UNCHANGED <<reports, undo, operation, pc, attempts>>
    BY <1>2 DEF Quarantine
  <2>2. \A d \in Candidates : QueueOK(disk'[d].reports, issued)
    BY <2>1 DEF OrderInv, TypeInv, TypeOK, Absent
  <2>3. pc' \in Persisting => operation' = "open"
    BY <1>2, <2>1 DEF Quarantine, BeginPersist, Persisting
  <2>4. reports' = reports /\ issued' = issued
    BY <1>2, <2>1 DEF Quarantine, BeginPersist
  <2>. QED
    BY <2>2, <2>3, <2>4 DEF OrderInv
<1>3. CASE Enqueue
  <2>1. issued \in Nat /\ issued' = issued + 1 /\ issued + 1 \in Report
    BY <1>3, SpoolAssumption DEF Enqueue, TypeInv, TypeOK, Report
  <2>2. QueueOK(reports', issued') /\ reports' = Append(reports, issued + 1)
    BY <1>3, <2>1, QueueAppend DEF Enqueue, BeginPersist, OrderInv, TypeInv, TypeOK
  <2>3. RolledBack' = reports
    <3>1. RolledBack' = Front(reports')
      BY <1>3 DEF Enqueue, BeginPersist, RolledBack, Front
    <3>. QED
      BY <3>1, <2>1, <2>2, FrontProperties DEF TypeInv, TypeOK
  <2>4. QueueOK(reports, issued')
    BY <2>1, QueueLater DEF OrderInv, TypeInv, TypeOK
  <2>5. \A c \in Candidates : QueueOK(disk'[c].reports, issued')
    BY <1>3, <2>1, QueueLater DEF Enqueue, OrderInv, TypeInv, TypeOK, File
  <2>. QED
    BY <2>2, <2>3, <2>4, <2>5 DEF OrderInv
<1>4. CASE Acknowledge
  <2>1. /\ issued' = issued /\ issued \in Nat /\ disk' = disk /\ reports # <<>>
        /\ reports' = Tail(reports) /\ undo' = <<Head(reports)>>
        /\ operation' = "acknowledge"
    BY <1>4 DEF Acknowledge, BeginPersist, TypeInv, TypeOK
  <2>2. QueueOK(reports', issued')
    BY <2>1, QueueTail DEF OrderInv, TypeInv, TypeOK
  <2>3. RolledBack' = reports
    BY <2>1, HeadBack DEF RolledBack, TypeInv, TypeOK
  <2>. QED
    BY <2>1, <2>2, <2>3 DEF OrderInv
<1>5. CASE DiscardBefore
  <2>1. PICK kept \in Remainders(reports) : BeginPersist("discard", kept, reports)
    BY <1>5 DEF DiscardBefore
  <2>2. /\ issued' = issued /\ issued \in Nat /\ disk' = disk
        /\ reports' = kept /\ RolledBack' = reports
    BY <1>5, <2>1 DEF DiscardBefore, BeginPersist, RolledBack, TypeInv, TypeOK
  <2>3. QueueOK(kept, issued)
    BY <2>2, QueueRemainder DEF OrderInv, TypeInv, TypeOK
  <2>. QED
    BY <2>2, <2>3 DEF OrderInv
<1>6. CASE CreateTemporary
  <2>1. \A c \in Candidates : QueueOK(disk'[c].reports, issued)
    BY <1>6 DEF CreateTemporary, OrderInv, TypeInv, TypeOK, Torn
  <2>. QED
    BY <1>6, <2>1 DEF CreateTemporary, Advance, OrderInv, RolledBack, Persisting
<1>7. CASE WriteTemporary
  <2>1. \A c \in Candidates : QueueOK(disk'[c].reports, issued)
    BY <1>7 DEF WriteTemporary, OrderInv, TypeInv, TypeOK, Snapshot
  <2>. QED
    BY <1>7, <2>1 DEF WriteTemporary, Advance, OrderInv, RolledBack, Persisting
<1>8. CASE SkipBackup
  BY <1>8 DEF SkipBackup, Advance, OrderInv, RolledBack, Persisting
<1>9. CASE BeginBackup
  <2>1. \A c \in Candidates : QueueOK(disk'[c].reports, issued)
    BY <1>9 DEF BeginBackup, OrderInv, TypeInv, TypeOK, Torn
  <2>. QED
    BY <1>9, <2>1 DEF BeginBackup, Advance, OrderInv, RolledBack, Persisting
<1>10. CASE FinishBackup
  <2>1. \A c \in Candidates : QueueOK(disk'[c].reports, issued)
    BY <1>10 DEF FinishBackup, OrderInv, TypeInv, TypeOK, Candidates
  <2>. QED
    BY <1>10, <2>1 DEF FinishBackup, Advance, OrderInv, RolledBack, Persisting
<1>11. CASE RemovePrimary
  <2>1. \A c \in Candidates : QueueOK(disk'[c].reports, issued)
    BY <1>11 DEF RemovePrimary, OrderInv, TypeInv, TypeOK, Absent
  <2>. QED
    BY <1>11, <2>1 DEF RemovePrimary, Advance, OrderInv, RolledBack, Persisting
<1>12. CASE Install
  <2>1. \A c \in Candidates : QueueOK(disk'[c].reports, issued)
    BY <1>12 DEF Install, OrderInv, TypeInv, TypeOK, Absent, Candidates
  <2>. QED
    BY <1>12, <2>1 DEF Install, OrderInv, Persisting
<1>13. CASE PersistFails
  <2>1. \A c \in Candidates : QueueOK(disk'[c].reports, issued)
    BY <1>13, SMTT(30) DEF PersistFails, OrderInv, TypeInv, TypeOK, Snapshot
  <2>2. QueueOK(reports', issued) /\ issued' = issued /\ pc' \notin Persisting
    BY <1>13 DEF PersistFails, Closed, OrderInv, Persisting
  <2>. QED
    BY <2>1, <2>2 DEF OrderInv
<1>14. CASE Crash
  BY <1>14 DEF Crash, Closed, OrderInv, Persisting
<1>15. CASE Corrupt
  <2>1. \A c \in Candidates : QueueOK(disk'[c].reports, issued)
    BY <1>15 DEF Corrupt, OrderInv, TypeInv, TypeOK, Torn
  <2>. QED
    BY <1>15, <2>1 DEF Corrupt, memory, OrderInv, Persisting
<1>16. CASE UNCHANGED vars
  BY <1>16 DEF vars, memory, OrderInv, RolledBack
<1>. QED
  BY <1>1, <1>2, <1>3, <1>4, <1>5, <1>6, <1>7, <1>8, <1>9, <1>10, <1>11,
     <1>12, <1>13, <1>14, <1>15, <1>16 DEF Next

(* Reports are delivered in the order in which they were created and once   *)
(* each, whatever crashes, errors and damaged files the spool goes through. *)
THEOREM SpoolOrder == Spec => []InOrder
<1>1. Spec => [](TypeInv /\ OrderInv)
  BY TypeInit, TypeStep, OrderInit, OrderStep, PTL DEF Spec
<1>2. TypeInv /\ OrderInv => InOrder
  BY RecoverableInOrder DEF OrderInv, InOrder, QueueOK
<1>. QED
  BY <1>1, <1>2, PTL

(* ReportSpool::open never finds a file with more reports than it accepts.  *)
THEOREM SpoolRestartAccepted == Spec => []RestartAccepted
<1>1. Spec => [](TypeInv /\ OrderInv)
  BY TypeInit, TypeStep, OrderInit, OrderStep, PTL DEF Spec
<1>2. TypeInv /\ OrderInv => RestartAccepted
  BY RecoverableInOrder DEF RestartAccepted, QueueOK
<1>. QED
  BY <1>1, <1>2, PTL

-----------------------------------------------------------------------------
(* Durability, as long as no file is damaged.  The files and the step of    *)
(* persist fit together: a primary file holds the committed queue; when it  *)
(* is out of the way the backup holds that queue, unless nothing was ever   *)
(* committed; and a temporary file that parses is a queue being written.    *)
DiskInv ==
    /\ Exists("primary") => disk["primary"] = Snapshot(committed)
    /\ ~Exists("primary") => \/ disk["backup"] = Snapshot(committed)
                             \/ ~Exists("backup") /\ committed = <<>>
    /\ Valid("temporary") => disk["temporary"].reports \in attempts
    /\ pc \in {"copy", "remove"} => Exists("primary")
    /\ pc = "remove" => disk["backup"] = Snapshot(committed)
    /\ pc \in {"backup", "copy", "remove", "install"}
         => disk["temporary"] = Snapshot(reports)
    /\ pc \in Persisting \union {"quarantine"} => reports \in attempts
    /\ pc = "quarantine" => \A c \in invalid : disk[c].kind = "torn"
    /\ pc = "idle" => reports = committed
    /\ pc \in Persisting /\ operation # "open" => RolledBack = committed

DurableInv == corruptions = 0 => DiskInv

LEMMA RecoverableDurable ==
    ASSUME TypeInv, DiskInv
    PROVE  /\ Recoverable \in attempts \union {committed}
           /\ ~Recovered => Recoverable = committed
           /\ InvalidCandidates # {} => Recovered
           /\ \A c \in InvalidCandidates : disk[c].kind = "torn"
<1>1. \A c \in Candidates : disk[c].kind \in {"absent", "torn", "valid"}
  BY DEF TypeInv, TypeOK, File
<1>2. CASE Valid("primary")
  <2>1. Recoverable = committed /\ Loaded = "primary" /\ ~Recovered
    BY <1>2 DEF DiskInv, Valid, Exists, Recoverable, Loaded, Recovered, Snapshot
  <2>2. InvalidCandidates = {}
    BY <2>1 DEF InvalidCandidates, Rank, Candidates
  <2>. QED
    BY <2>1, <2>2
<1>3. CASE ~Valid("primary")
  <2>1. ~Exists("primary") /\ disk["primary"].kind = "absent"
    BY <1>3 DEF DiskInv, Valid, Exists, Snapshot
  <2>2. Loaded # "primary" /\ (Recovered <=> \E c \in Candidates : Exists(c))
    BY <1>3 DEF Loaded, Recovered, Valid
  <2>3. InvalidCandidates # {} => Recovered
    BY <2>2 DEF InvalidCandidates
  <2>4. \A c \in InvalidCandidates : disk[c].kind = "torn"
    BY <1>1, <2>1 DEF InvalidCandidates, Exists, Loaded, Valid, Rank, Candidates
  <2>5. CASE Valid("temporary")
    <3>1. Recoverable \in attempts
      BY <1>3, <2>5 DEF DiskInv, Recoverable, Loaded
    <3>2. Recovered
      BY <2>2, <2>5 DEF Candidates, Exists, Valid
    <3>. QED
      BY <2>3, <2>4, <3>1, <3>2
  <2>6. CASE ~Valid("temporary")
    <3>1. Recoverable = committed
      BY <1>3, <2>1, <2>6
         DEF DiskInv, Recoverable, Loaded, Exists, Valid, Snapshot
    <3>. QED
      BY <2>3, <2>4, <3>1
  <2>. QED
    BY <2>5, <2>6
<1>. QED
  BY <1>2, <1>3

LEMMA RolledBackSame ==
    UNCHANGED <<reports, undo, operation>> => RolledBack' = RolledBack
BY DEF RolledBack, Front

LEMMA DurableInit == Init => DurableInv
BY DEF Init, DurableInv, DiskInv, Absent, Exists, Valid, Persisting, Candidates

(* Every step but the damage of a file.                                     *)
LEMMA DiskStep ==
    ASSUME TypeInv, DiskInv, [Next]_vars, ~Corrupt
    PROVE  DiskInv'
<1>1. DiskInv /\ ~Corrupt
  OBVIOUS
<1>2. CASE Open
  <2>1. Recoverable \in attempts \union {committed}
        /\ (~Recovered => Recoverable = committed)
        /\ (InvalidCandidates # {} => Recovered)
        /\ \A c \in InvalidCandidates : disk[c].kind = "torn"
    BY <1>1, RecoverableDurable
  <2>2. operation' = "open" /\ disk' = disk /\ committed' = committed
        /\ reports' = Recoverable /\ attempts \subseteq attempts'
        /\ pc' \in {"quarantine", "create", "idle"}
    BY <1>2 DEF Open
  <2>3. pc' # "idle" => Recovered
    BY <1>2, <2>1 DEF Open
  <2>4. pc' = "idle" => reports' = committed
    BY <1>2, <2>1, <2>2 DEF Open
  <2>5. pc' # "idle" => reports' \in attempts'
    BY <1>2, <2>2, <2>3 DEF Open
  <2>6. pc' = "quarantine" => \A c \in invalid' : disk'[c].kind = "torn"
    BY <1>2, <2>1 DEF Open
  <2>. QED
    BY <1>1, <2>2, <2>4, <2>5, <2>6 DEF DiskInv, Exists, Valid, Persisting
<1>3. CASE Quarantine
  <2>1. PICK c \in invalid :
          /\ disk' = [disk EXCEPT ![c] = Absent]
          /\ invalid' = invalid \ {c}
          /\ IF invalid = {c}
             THEN BeginPersist("open", reports, <<>>)
             ELSE UNCHANGED <<reports, undo, operation, pc, attempts>>
    BY <1>3 DEF Quarantine
  <2>2. pc = "quarantine" /\ disk[c].kind = "torn" /\ reports \in attempts
        /\ committed' = committed
    BY <1>1, <1>3 DEF Quarantine, DiskInv
  <2>3. c \in {"temporary", "backup"}
    BY <1>1, <2>1, <2>2 DEF DiskInv, Exists, Snapshot, TypeInv, TypeOK, Candidates
  <2>4. disk[c] # Snapshot(committed) /\ disk[c].kind # "absent"
    BY <2>2 DEF Snapshot
  <2>5. /\ Exists("primary")' <=> Exists("primary")
        /\ disk'["primary"] = disk["primary"]
        /\ disk["backup"] = Snapshot(committed) => disk'["backup"] = disk["backup"]
        /\ ~Exists("backup") => ~Exists("backup")'
        /\ Valid("temporary")' => disk'["temporary"] = disk["temporary"]
    BY <2>1, <2>3, <2>4 DEF TypeInv, TypeOK, Exists, Valid, Absent, Candidates
  <2>6. \A d \in invalid' : disk'[d].kind = "torn"
    BY <1>1, <2>1, <2>2 DEF DiskInv, TypeInv, TypeOK
  <2>7. reports' = reports /\ attempts' = attempts /\ operation' \in {operation, "open"}
        /\ (pc' = "quarantine" \/ (pc' = "create" /\ operation' = "open"))
    BY <2>1, <2>2 DEF BeginPersist
  <2>8. Valid("temporary")' => disk'["temporary"].reports \in attempts
    BY <1>1, <2>5 DEF DiskInv, Valid
  <2>. QED
    BY <1>1, <2>2, <2>5, <2>6, <2>7, <2>8 DEF DiskInv, Persisting
<1>4. CASE Enqueue
  <2>1. /\ disk' = disk /\ committed' = committed /\ reports = committed
        /\ reports' = Append(reports, issued') /\ attempts' = attempts \union {reports'}
        /\ pc' = "create" /\ operation' = "enqueue" /\ issued' \in Report
    BY <1>1, <1>4, SpoolAssumption
       DEF Enqueue, BeginPersist, DiskInv, TypeInv, TypeOK, Report
  <2>2. RolledBack' = committed
    <3>1. RolledBack' = Front(reports')
      BY <2>1 DEF RolledBack, Front
    <3>. QED
      BY <3>1, <2>1, FrontProperties DEF TypeInv, TypeOK
  <2>. QED
    BY <1>1, <2>1, <2>2 DEF DiskInv, Exists, Valid
<1>5. CASE Acknowledge
  <2>1. /\ disk' = disk /\ committed' = committed /\ reports = committed
        /\ reports # <<>> /\ reports' = Tail(reports) /\ undo' = <<Head(reports)>>
        /\ attempts' = attempts \union {reports'}
        /\ pc' = "create" /\ operation' = "acknowledge"
    BY <1>1, <1>5 DEF Acknowledge, BeginPersist, DiskInv
  <2>2. RolledBack' = committed
    BY <2>1, HeadBack DEF RolledBack, TypeInv, TypeOK
  <2>. QED
    BY <1>1, <2>1, <2>2 DEF DiskInv, Exists, Valid
<1>6. CASE DiscardBefore
  <2>1. /\ disk' = disk /\ committed' = committed /\ reports = committed
        /\ undo' = reports /\ attempts' = attempts \union {reports'}
        /\ pc' = "create" /\ operation' = "discard"
    BY <1>1, <1>6 DEF DiscardBefore, BeginPersist, DiskInv
  <2>. QED
    BY <1>1, <2>1 DEF DiskInv, Exists, Valid, RolledBack
<1>7. CASE CreateTemporary
  <2>1. /\ disk'["primary"] = disk["primary"] /\ disk'["backup"] = disk["backup"]
        /\ disk'["temporary"] = Torn
    BY <1>7 DEF CreateTemporary, TypeInv, TypeOK, Candidates
  <2>. QED
    BY RolledBackSame, <1>1, <1>7, <2>1 DEF CreateTemporary, Advance, history, DiskInv, Exists, Valid,
       Torn, Persisting
<1>8. CASE WriteTemporary
  <2>1. /\ disk'["primary"] = disk["primary"] /\ disk'["backup"] = disk["backup"]
        /\ disk'["temporary"] = Snapshot(reports)
    BY <1>8 DEF WriteTemporary, TypeInv, TypeOK, Candidates
  <2>. QED
    BY RolledBackSame, <1>1, <1>8, <2>1 DEF WriteTemporary, Advance, history, DiskInv, Exists, Valid,
       Snapshot, Persisting
<1>9. CASE SkipBackup
  BY RolledBackSame, <1>1, <1>9 DEF SkipBackup, Advance, history, DiskInv, Exists, Valid,
     Persisting
<1>10. CASE BeginBackup
  <2>1. /\ disk'["primary"] = disk["primary"] /\ disk'["temporary"] = disk["temporary"]
        /\ disk'["backup"] = Torn
    BY <1>10 DEF BeginBackup, TypeInv, TypeOK, Candidates
  <2>. QED
    BY RolledBackSame, <1>1, <1>10, <2>1 DEF BeginBackup, Advance, history, DiskInv, Exists, Valid,
       Persisting
<1>11. CASE FinishBackup
  <2>1. /\ disk'["primary"] = disk["primary"] /\ disk'["temporary"] = disk["temporary"]
        /\ disk'["backup"] = disk["primary"]
    BY <1>11 DEF FinishBackup, TypeInv, TypeOK, Candidates
  <2>. QED
    BY RolledBackSame, <1>1, <1>11, <2>1 DEF FinishBackup, Advance, history, DiskInv, Exists, Valid,
       Persisting
<1>12. CASE RemovePrimary
  <2>1. /\ disk'["primary"] = Absent /\ disk'["temporary"] = disk["temporary"]
        /\ disk'["backup"] = disk["backup"]
    BY <1>12 DEF RemovePrimary, TypeInv, TypeOK, Candidates
  <2>. QED
    BY RolledBackSame, <1>1, <1>12, <2>1 DEF RemovePrimary, Advance, history, DiskInv, Exists, Valid,
       Absent, Persisting
<1>13. CASE Install
  <2>1. /\ disk'["primary"] = Snapshot(reports) /\ disk'["temporary"] = Absent
        /\ disk'["backup"] = disk["backup"]
    BY <1>1, <1>13 DEF Install, DiskInv, TypeInv, TypeOK, Candidates
  <2>2. pc' = "idle" /\ reports' = reports /\ committed' = reports
    BY <1>13 DEF Install
  <2>. QED
    BY <2>1, <2>2 DEF DiskInv, Exists, Valid, Absent, Snapshot, Persisting
<1>14. CASE PersistFails
  <2>1. /\ disk'["primary"] = disk["primary"] /\ disk'["backup"] = disk["backup"]
        /\ disk'["temporary"] \in {disk["temporary"], Snapshot(reports)}
    BY <1>14 DEF PersistFails, TypeInv, TypeOK, Candidates
  <2>2. pc' \in {"idle", "down"} /\ committed' = committed /\ attempts' = attempts
        /\ (pc' = "idle" => reports' = committed) /\ reports \in attempts
    BY <1>1, <1>14 DEF PersistFails, Closed, history, DiskInv
  <2>. QED
    BY <1>1, <2>1, <2>2 DEF DiskInv, Exists, Valid, Snapshot, Persisting
<1>15. CASE Crash
  BY <1>1, <1>15 DEF Crash, Closed, history, DiskInv, Exists, Valid, Persisting
<1>16. CASE UNCHANGED vars
  BY RolledBackSame, <1>1, <1>16 DEF vars, memory, history, DiskInv, Exists, Valid
<1>. QED
  BY <1>1, <1>2, <1>3, <1>4, <1>5, <1>6, <1>7, <1>8, <1>9, <1>10, <1>11,
     <1>12, <1>13, <1>14, <1>15, <1>16 DEF Next

(* Only Corrupt counts corruptions.                                         *)
LEMMA CorruptionsStep ==
    ASSUME TypeInv, [Next]_vars
    PROVE  /\ Corrupt => corruptions' = corruptions + 1
           /\ ~Corrupt => corruptions' = corruptions
<1>1. Corrupt => corruptions' = corruptions + 1
  BY DEF Corrupt
<1>2. ~Corrupt => corruptions' = corruptions
  BY DEF Next, Open, Quarantine, Enqueue, Acknowledge, DiscardBefore,
         CreateTemporary, WriteTemporary, SkipBackup, BeginBackup, FinishBackup,
         RemovePrimary, Install, PersistFails, Crash, Advance, vars
<1>. QED
  BY <1>1, <1>2

LEMMA DurableStep == TypeInv /\ DurableInv /\ [Next]_vars => DurableInv'
BY CorruptionsStep, DiskStep DEF DurableInv, TypeInv, TypeOK

LEMMA SpoolDurableInv == Spec => [](TypeInv /\ DurableInv)
BY TypeInit, TypeStep, DurableInit, DurableStep, PTL DEF Spec

(* A restart finds the last committed queue or one that was being written   *)
(* since, whichever file operation was the last before the process died.    *)
THEOREM SpoolRestart == Spec => []RestartFindsQueue
<1>1. TypeInv /\ DurableInv => RestartFindsQueue
  BY RecoverableDurable DEF DurableInv, RestartFindsQueue
<1>. QED
  BY <1>1, SpoolDurableInv, PTL

(* An operation that returned an error has undone its change: between calls *)
(* the queue in memory is the one on disk.                                  *)
THEOREM SpoolMemory == Spec => []MemoryIsCommitted
<1>1. TypeInv /\ DurableInv => MemoryIsCommitted
  BY DEF DurableInv, DiskInv, MemoryIsCommitted
<1>. QED
  BY <1>1, SpoolDurableInv, PTL

-----------------------------------------------------------------------------
(* No loss, no return.  Every queue a restart can find holds the reports    *)
(* that were accepted and not asked to be removed, and none whose removal   *)
(* was reported.                                                            *)
Faithful(q) ==
    /\ (accepted \ removing) \subseteq ToSet(q)
    /\ settled \intersect ToSet(q) = {}

AccountInv ==
    /\ \A q \in attempts \union {committed} : Faithful(q)
    /\ settled \subseteq 1 .. issued
    /\ pc \in Persisting /\ operation = "acknowledge"
         => ToSet(undo) \intersect ToSet(reports) = {}

SafeInv == corruptions = 0 => AccountInv

LEMMA ToSetAppend ==
    ASSUME NEW S, NEW s \in Seq(S), NEW e \in S
    PROVE  ToSet(Append(s, e)) = ToSet(s) \union {e}
<1> DEFINE t == Append(s, e)
<1>1. /\ t \in Seq(S) /\ Len(s) \in Nat /\ Len(t) = Len(s) + 1
      /\ \A i \in 1 .. Len(s) : t[i] = s[i]
      /\ t[Len(s) + 1] = e
  BY AppendProperties, LenProperties
<1> HIDE DEF t
<1>2. ToSet(t) = { t[i] : i \in 1 .. Len(s) + 1 } /\ ToSet(s) = { s[i] : i \in 1 .. Len(s) }
  BY <1>1, ToSetProperties
<1>3. 1 .. Len(s) + 1 = (1 .. Len(s)) \union {Len(s) + 1}
  BY <1>1
<1>4. ToSet(t) = { t[i] : i \in 1 .. Len(s) } \union {e}
  BY <1>1, <1>2, <1>3
<1>5. { t[i] : i \in 1 .. Len(s) } = { s[i] : i \in 1 .. Len(s) }
  BY <1>1
<1>. QED
  BY <1>2, <1>4, <1>5 DEF t

LEMMA ToSetRemainder ==
    ASSUME NEW S, NEW s \in Seq(S), NEW kept \in Remainders(s)
    PROVE  ToSet(kept) \subseteq ToSet(s)
<1>1. /\ kept \in Seq(S)
      /\ \E f \in [1 .. Len(kept) -> 1 .. Len(s)] :
           \A i \in 1 .. Len(kept) : kept[i] = s[f[i]]
  BY RemaindersProperties
<1>2. ToSet(kept) = { kept[i] : i \in 1 .. Len(kept) } /\ ToSet(s) = { s[i] : i \in 1 .. Len(s) }
  BY <1>1, ToSetProperties
<1>. QED
  BY <1>1, <1>2

LEMMA ToSetLast ==
    ASSUME NEW S, NEW s \in Seq(S), s # <<>>
    PROVE  Last(s) \in ToSet(s)
<1>1. Len(s) \in 1 .. Len(s)
  BY EmptySeq
<1>. QED
  BY <1>1, ToSetProperties DEF Last

LEMMA SafeInit == Init => SafeInv
BY DEF Init, SafeInv, AccountInv, Faithful, Persisting

LEMMA SafeStep ==
    TypeInv /\ OrderInv /\ DurableInv /\ SafeInv /\ [Next]_vars => SafeInv'
<1> SUFFICES ASSUME TypeInv, OrderInv, DurableInv, SafeInv, [Next]_vars,
                    corruptions' = 0
             PROVE  AccountInv'
  BY DEF SafeInv
<1>1. corruptions = 0 /\ ~Corrupt /\ DiskInv /\ AccountInv
  BY CorruptionsStep DEF DurableInv, SafeInv, TypeInv, TypeOK
<1>2. CASE Open
  <2>1. Recoverable \in attempts \union {committed}
    BY <1>1, RecoverableDurable
  <2>2. attempts' \union {committed'} = attempts \union {committed}
        /\ UNCHANGED <<accepted, removing, settled, issued>> /\ operation' = "open"
    BY <1>2, <2>1, <1>1, RecoverableDurable DEF Open
  <2>. QED
    BY <1>1, <2>2 DEF AccountInv, Faithful
<1>3. CASE Quarantine
  <2>1. /\ UNCHANGED <<accepted, removing, settled, issued, committed>>
        /\ attempts' = attempts /\ (operation' = "open" \/ pc' \notin Persisting)
    BY <1>1, <1>3 DEF Quarantine, BeginPersist, DiskInv, Persisting
  <2>. QED
    BY <1>1, <2>1 DEF AccountInv, Faithful
<1>4. CASE Enqueue
  <2>1. /\ UNCHANGED <<accepted, removing, settled, committed>> /\ issued' = issued + 1
        /\ issued \in Nat /\ issued' \in Report /\ reports = committed
        /\ reports' = Append(reports, issued') /\ attempts' = attempts \union {reports'}
        /\ operation' = "enqueue"
    BY <1>1, <1>4, SpoolAssumption, SMTT(30)
       DEF Enqueue, BeginPersist, DiskInv, TypeInv, TypeOK, Report
  <2>2. ToSet(reports') = ToSet(committed) \union {issued + 1}
    BY <2>1, ToSetAppend DEF TypeInv, TypeOK
  <2>3. issued + 1 \notin settled /\ settled \subseteq 1 .. issued'
    BY <1>1, <2>1 DEF AccountInv
  <2>4. Faithful(reports)'
    BY <1>1, <2>1, <2>2, <2>3 DEF AccountInv, Faithful, ToSet
  <2>5. \A q \in attempts \union {committed} : Faithful(q)'
    BY <1>1, <2>1 DEF AccountInv, Faithful
  <2>. QED
    BY <1>1, <2>1, <2>3, <2>4, <2>5 DEF AccountInv, Faithful, ToSet
<1>5. CASE Acknowledge
  <2>1. /\ UNCHANGED <<accepted, settled, committed, issued>>
        /\ removing' = removing \union {Head(reports)}
        /\ reports # <<>> /\ reports = committed
        /\ reports' = Tail(reports) /\ undo' = <<Head(reports)>>
        /\ attempts' = attempts \union {reports'}
    BY <1>1, <1>5 DEF Acknowledge, BeginPersist, DiskInv
  <2>2. /\ Head(reports) \notin ToSet(reports')
        /\ ToSet(reports) = {Head(reports)} \union ToSet(reports')
        /\ ToSet(undo') = {Head(reports)}
    BY <2>1, QueueTail, HeadBack DEF OrderInv, TypeInv, TypeOK
  <2>3. Faithful(reports)'
    <3>1. Faithful(reports)
      BY <1>1, <2>1 DEF AccountInv
    <3>2. /\ (accepted' \ removing') \subseteq ToSet(reports')
          /\ settled' \intersect ToSet(reports') = {}
      BY <2>1, <2>2, <3>1 DEF Faithful
    <3>. QED
      BY <3>2 DEF Faithful, ToSet
  <2>4. \A q \in attempts \union {committed} : Faithful(q)'
    BY <1>1, <2>1 DEF AccountInv, Faithful
  <2>5. (ToSet(undo) \intersect ToSet(reports) = {})'
    BY <2>2 DEF ToSet
  <2>. QED
    BY <1>1, <2>1, <2>3, <2>4, <2>5 DEF AccountInv, Faithful, ToSet
<1>6. CASE DiscardBefore
  <2>1. PICK kept \in Remainders(reports) :
          /\ BeginPersist("discard", kept, reports)
          /\ removing' = removing \union (ToSet(reports) \ ToSet(kept))
    BY <1>6 DEF DiscardBefore
  <2>2. /\ UNCHANGED <<accepted, settled, committed, issued>> /\ reports = committed
        /\ reports' = kept /\ attempts' = attempts \union {kept}
        /\ operation' = "discard"
    BY <1>1, <1>6, <2>1 DEF DiscardBefore, BeginPersist, DiskInv
  <2>3. ToSet(kept) \subseteq ToSet(reports)
    BY ToSetRemainder DEF TypeInv, TypeOK
  <2>4. Faithful(kept)'
    BY <1>1, <2>1, <2>2, <2>3 DEF AccountInv, Faithful
  <2>5. \A q \in attempts \union {committed} : Faithful(q)'
    BY <1>1, <2>1, <2>2 DEF AccountInv, Faithful
  <2>. QED
    BY <1>1, <2>2, <2>4, <2>5 DEF AccountInv, Faithful
<1>7. CASE CreateTemporary \/ WriteTemporary \/ SkipBackup \/ BeginBackup
             \/ FinishBackup \/ RemovePrimary
  <2>1. /\ UNCHANGED <<reports, undo, operation, issued, history>> /\ pc \in Persisting
    BY <1>7 DEF CreateTemporary, WriteTemporary, SkipBackup, BeginBackup, FinishBackup,
                RemovePrimary, Advance, Persisting
  <2>. QED
    BY <1>1, <2>1 DEF AccountInv, Faithful, history, ToSet
<1>8. CASE Install
  <2>1. /\ UNCHANGED <<reports, issued, removing>> /\ committed' = reports
        /\ attempts' = {} /\ pc' = "idle" /\ pc = "install"
    BY <1>8 DEF Install
  <2>2. Faithful(reports) /\ settled \subseteq 1 .. issued
    BY <1>1, <2>1 DEF AccountInv, DiskInv, Persisting
  <2>3. accepted' \subseteq accepted \union ToSet(reports)
    <3>1. operation = "enqueue" => Last(reports) \in ToSet(reports)
      BY <2>1, ToSetLast DEF TypeInv, TypeOK, Persisting
    <3>. QED
      BY <1>8, <3>1 DEF Install
  <2>4. settled' \intersect ToSet(reports) = {}
    <3>1. operation = "acknowledge" => ToSet(undo) \intersect ToSet(reports) = {}
      BY <1>1, <2>1 DEF AccountInv, Persisting
    <3>. QED
      BY <1>8, <2>2, <3>1 DEF Install, Faithful, TypeInv, TypeOK
  <2>5. settled' \subseteq 1 .. issued
    <3>1. CASE operation = "acknowledge"
      <4>1. RolledBack = committed /\ RolledBack = undo \o reports
        BY <1>1, <2>1, <3>1 DEF DiskInv, Persisting, RolledBack
      <4>2. QueueOK(undo \o reports, issued) /\ undo \in Seq(Report) /\ reports \in Seq(Report)
        BY <2>1, <3>1, <4>1 DEF OrderInv, Persisting, TypeInv, TypeOK
      <4>3. /\ Len(undo \o reports) = Len(undo) + Len(reports)
            /\ \A i \in 1 .. Len(undo) + Len(reports) :
                 (undo \o reports)[i] = IF i <= Len(undo) THEN undo[i]
                                        ELSE reports[i - Len(undo)]
            /\ Len(undo) \in Nat /\ Len(reports) \in Nat
        BY <4>2, ConcatProperties, LenProperties
      <4>4. \A i \in 1 .. Len(undo) : undo[i] <= issued /\ undo[i] \in 1 .. MaxReports
        <5>1. TAKE i \in 1 .. Len(undo)
        <5>2. i \in 1 .. Len(undo \o reports) /\ (undo \o reports)[i] = undo[i]
          BY <4>3
        <5>3. undo[i] <= issued
          BY <4>2, <5>2 DEF QueueOK
        <5>4. undo[i] \in Report
          BY <4>2, QueueElements
        <5>. QED
          BY <5>3, <5>4 DEF Report
      <4>5. ToSet(undo) \subseteq 1 .. issued
        <5>1. ToSet(undo) = { undo[i] : i \in 1 .. Len(undo) }
          BY <4>2, ToSetProperties
        <5>. QED
          BY <4>4, <5>1, SpoolAssumption DEF TypeInv, TypeOK
      <4>. QED
        BY <1>8, <2>2, <3>1, <4>5 DEF Install
    <3>2. CASE operation = "discard"
      <4>1. undo = committed /\ QueueOK(undo, issued) /\ undo \in Seq(Report)
        BY <1>1, <2>1, <3>2 DEF DiskInv, OrderInv, Persisting, RolledBack, TypeInv, TypeOK
      <4>2. \A i \in 1 .. Len(undo) : undo[i] <= issued /\ undo[i] \in 1 .. MaxReports
        BY <4>1, QueueElements DEF QueueOK, Report
      <4>3. ToSet(undo) \subseteq 1 .. issued
        <5>1. ToSet(undo) = { undo[i] : i \in 1 .. Len(undo) }
          BY <4>1, ToSetProperties
        <5>. QED
          BY <4>2, <5>1, SpoolAssumption DEF TypeInv, TypeOK
      <4>. QED
        BY <1>8, <2>2, <3>2, <4>3 DEF Install
    <3>3. CASE operation \notin {"acknowledge", "discard"}
      BY <1>8, <2>2, <3>3 DEF Install
    <3>. QED
      BY <3>1, <3>2, <3>3
  <2>6. Faithful(reports)'
    BY <2>1, <2>2, <2>3, <2>4 DEF Faithful, ToSet
  <2>. QED
    BY <2>1, <2>5, <2>6 DEF AccountInv, Faithful, Persisting
<1>9. CASE PersistFails
  BY <1>1, <1>9 DEF PersistFails, Closed, history, AccountInv, Faithful, Persisting
<1>10. CASE Crash
  BY <1>1, <1>10 DEF Crash, Closed, history, AccountInv, Faithful, Persisting
<1>11. CASE UNCHANGED vars
  BY <1>1, <1>11 DEF vars, memory, history, AccountInv, Faithful, ToSet
<1>. QED
  BY <1>1, <1>2, <1>3, <1>4, <1>5, <1>6, <1>7, <1>8, <1>9, <1>10, <1>11 DEF Next

LEMMA SpoolSafeInv == Spec => [](TypeInv /\ OrderInv /\ DurableInv /\ SafeInv)
BY TypeInit, TypeStep, OrderInit, OrderStep, DurableInit, DurableStep,
   SafeInit, SafeStep, PTL DEF Spec

(* A report whose enqueue returned Ok is found by every restart until its   *)
(* removal is asked for.                                                    *)
THEOREM SpoolNoLoss == Spec => []NoAcceptedReportLost
<1>1. TypeInv /\ DurableInv /\ SafeInv => NoAcceptedReportLost
  BY RecoverableDurable
     DEF DurableInv, SafeInv, AccountInv, Faithful, NoAcceptedReportLost
<1>. QED
  BY <1>1, SpoolSafeInv, PTL

(* A report whose removal returned Ok is found by no restart.               *)
THEOREM SpoolNoReturn == Spec => []SettledStaysGone
<1>1. TypeInv /\ DurableInv /\ SafeInv => SettledStaysGone
  BY RecoverableDurable
     DEF DurableInv, SafeInv, AccountInv, Faithful, SettledStaysGone
<1>. QED
  BY <1>1, SpoolSafeInv, PTL

-----------------------------------------------------------------------------
(* One damaged file.  The backup covers the queue of the commit before as   *)
(* soon as nothing is being written, and that of the last commit when a     *)
(* rename is about to replace it.                                           *)
Covers(q) == disk["backup"] = Snapshot(q) \/ (~Exists("backup") /\ q = <<>>)

BackupInv ==
    /\ attempts = {} => Covers(previous)
    /\ pc = "install" => Covers(committed)

(* From the damage of the primary file to the next commit: the backup is    *)
(* left alone, and the primary file is out of the way before persist looks  *)
(* at it.                                                                   *)
RestoreInv ==
    /\ ~Valid("primary") /\ Covers(previous)
    /\ Valid("temporary") => disk["temporary"].reports \in attempts
    /\ pc \notin {"copy", "remove"}
    /\ pc \in Persisting \union {"idle"} => ~Exists("primary")
    /\ pc = "quarantine" =>
         /\ "primary" \in invalid \/ ~Exists("primary")
         /\ \A c \in invalid : disk[c].kind = "torn"
    /\ pc \in Persisting \union {"quarantine"} => reports \in attempts
    /\ pc \in {"backup", "install"} => disk["temporary"] = Snapshot(reports)

DamageInv ==
    /\ corruptions = 0 => BackupInv
    /\ corruptions = 1 => DiskInv \/ RestoreInv

LEMMA BackupStep ==
    ASSUME TypeInv, DiskInv, BackupInv, [Next]_vars, ~Corrupt
    PROVE  BackupInv'
<1> USE DEF BackupInv, Covers, Exists, Snapshot
<1>1. CASE Open
  <2>1. UNCHANGED <<disk, previous>> /\ pc' # "install" /\ (attempts' = {} => attempts = {})
    BY <1>1 DEF Open
  <2>. QED
    BY <2>1
<1>2. CASE Quarantine \/ Enqueue \/ Acknowledge \/ DiscardBefore
  <2>1. attempts' # {} /\ pc' # "install"
    BY <1>2 DEF Quarantine, Enqueue, Acknowledge, DiscardBefore, BeginPersist, DiskInv
  <2>. QED
    BY <2>1
<1>3. CASE CreateTemporary \/ WriteTemporary \/ BeginBackup
  <2>1. attempts' # {} /\ pc' # "install"
    BY <1>3 DEF CreateTemporary, WriteTemporary, BeginBackup, Advance, history, DiskInv,
                Persisting
  <2>. QED
    BY <2>1
<1>4. CASE SkipBackup
  <2>1. Covers(committed) /\ attempts # {}
    BY <1>4 DEF SkipBackup, Advance, DiskInv, Persisting
  <2>. QED
    BY <1>4, <2>1 DEF SkipBackup, Advance, history
<1>5. CASE FinishBackup
  <2>1. disk'["backup"] = Snapshot(committed) /\ committed' = committed /\ attempts' # {}
    BY <1>5 DEF FinishBackup, Advance, history, DiskInv, Persisting, TypeInv, TypeOK, Candidates
  <2>. QED
    BY <2>1
<1>6. CASE RemovePrimary
  <2>1. disk'["backup"] = Snapshot(committed) /\ committed' = committed /\ attempts' # {}
    BY <1>6 DEF RemovePrimary, Advance, history, DiskInv, Persisting, TypeInv, TypeOK, Candidates
  <2>. QED
    BY <2>1
<1>7. CASE Install
  <2>1. disk'["backup"] = disk["backup"] /\ previous' = committed /\ pc = "install"
        /\ pc' = "idle"
    BY <1>7 DEF Install, TypeInv, TypeOK, Candidates
  <2>. QED
    BY <2>1
<1>8. CASE PersistFails
  <2>1. attempts' # {} /\ pc' # "install"
    BY <1>8 DEF PersistFails, Closed, history, DiskInv
  <2>. QED
    BY <2>1
<1>9. CASE Crash
  BY <1>9 DEF Crash, Closed, history
<1>10. CASE UNCHANGED vars
  BY <1>10 DEF vars, memory, history
<1>. QED
  BY <1>1, <1>2, <1>3, <1>4, <1>5, <1>6, <1>7, <1>8, <1>9, <1>10 DEF Next

LEMMA CorruptStep ==
    ASSUME TypeInv, DiskInv, BackupInv, Corrupt
    PROVE  RestoreInv'
<1>1. /\ disk'["primary"] = Torn /\ disk'["backup"] = disk["backup"]
      /\ disk'["temporary"] = disk["temporary"]
  BY DEF Corrupt, TypeInv, TypeOK, Candidates
<1>2. /\ pc' = "down" /\ pc = "down" /\ attempts = {} /\ attempts' = {}
      /\ previous' = previous
  BY DEF Corrupt, memory, history
<1>. QED
  BY <1>1, <1>2 DEF RestoreInv, BackupInv, DiskInv, Covers, Exists, Valid, Torn, Persisting

(* What a start finds then.                                                 *)
LEMMA RestoreFinds ==
    ASSUME TypeInv, RestoreInv
    PROVE  /\ Recoverable \in attempts \union {previous}
           /\ Exists("primary") => "primary" \in InvalidCandidates
           /\ InvalidCandidates # {} => Recovered
           /\ \A c \in InvalidCandidates : disk[c].kind = "torn"
<1>1. \A c \in Candidates : disk[c].kind \in {"absent", "torn", "valid"}
  BY DEF TypeInv, TypeOK, File
<1>2. Loaded \in {"temporary", "backup", "none"} /\ ~Valid("primary")
  BY DEF RestoreInv, Loaded
<1>3. Exists("primary") => "primary" \in InvalidCandidates
  BY <1>2 DEF InvalidCandidates, Rank, Candidates
<1>4. InvalidCandidates # {} => Recovered
  BY <1>2 DEF InvalidCandidates, Recovered
<1>5. \A c \in InvalidCandidates : disk[c].kind = "torn"
  <2>1. SUFFICES ASSUME NEW c \in InvalidCandidates PROVE disk[c].kind = "torn"
    OBVIOUS
  <2>2. c \in Candidates /\ Rank[c] < Rank[Loaded] /\ disk[c].kind # "absent"
    BY DEF InvalidCandidates, Exists
  <2>3. disk[c].kind # "valid"
    BY <1>2, <2>2 DEF Candidates, Rank, Loaded, Valid
  <2>. QED
    BY <1>1, <2>2, <2>3
<1>6. Recoverable \in attempts \union {previous}
  BY <1>1, <1>2 DEF RestoreInv, Covers, Recoverable, Loaded, Valid, Exists, Snapshot, Candidates
<1>. QED
  BY <1>3, <1>4, <1>5, <1>6

LEMMA RestoreStep ==
    ASSUME TypeInv, RestoreInv, [Next]_vars, ~Corrupt
    PROVE  DiskInv' \/ RestoreInv'
<1> USE DEF RestoreInv, Covers, Exists, Valid
<1>1. CASE Open
  <2>1. /\ UNCHANGED <<disk, previous>> /\ reports' = Recoverable
        /\ invalid' = InvalidCandidates /\ attempts \subseteq attempts'
        /\ pc' = IF InvalidCandidates # {} THEN "quarantine"
                 ELSE IF Recovered THEN "create" ELSE "idle"
        /\ Recovered => Recoverable \in attempts'
    BY <1>1 DEF Open
  <2>. QED
    BY <2>1, RestoreFinds DEF Persisting
<1>2. CASE Quarantine
  <2>1. PICK c \in invalid :
          /\ disk' = [disk EXCEPT ![c] = Absent]
          /\ invalid' = invalid \ {c}
          /\ IF invalid = {c}
             THEN BeginPersist("open", reports, <<>>)
             ELSE UNCHANGED <<reports, undo, operation, pc, attempts>>
    BY <1>2 DEF Quarantine
  <2>2. /\ pc = "quarantine" /\ reports \in attempts /\ previous' = previous
        /\ c \in Candidates /\ disk[c].kind = "torn"
    BY <1>2, <2>1 DEF Quarantine, TypeInv, TypeOK
  <2>3. disk["backup"] = Snapshot(previous) => c # "backup"
    BY <2>2 DEF Snapshot
  <2>4. c # "backup"
    BY <2>2, <2>3
  <2>5. /\ disk'["backup"] = disk["backup"]
        /\ \A d \in Candidates : disk'[d] = IF d = c THEN Absent ELSE disk[d]
    BY <2>1, <2>2, <2>4 DEF TypeInv, TypeOK, Candidates
  <2>6. /\ reports' = reports /\ attempts' = attempts
        /\ (pc' = "create" /\ invalid = {c}) \/ pc' = "quarantine"
    BY <2>1, <2>2 DEF BeginPersist
  <2>7. ~Valid("primary")' /\ (Valid("temporary")' => disk'["temporary"].reports \in attempts)
    BY <2>5 DEF Absent, Candidates
  <2>8. \A d \in invalid' : disk'[d].kind = "torn"
    BY <2>1, <2>2, <2>5 DEF TypeInv, TypeOK
  <2>9. ("primary" \in invalid \/ ~Exists("primary"))'
    BY <2>1, <2>2, <2>5 DEF Absent, Candidates
  <2>10. pc' = "create" => ~Exists("primary")'
    BY <2>2, <2>5, <2>6 DEF Absent, Candidates
  <2>. QED
    BY <2>2, <2>5, <2>6, <2>7, <2>8, <2>9, <2>10 DEF Persisting
<1>3. CASE Enqueue \/ Acknowledge \/ DiscardBefore
  <2>1. /\ UNCHANGED <<disk, previous>> /\ pc = "idle" /\ pc' = "create"
        /\ attempts' = attempts \union {reports'}
    BY <1>3 DEF Enqueue, Acknowledge, DiscardBefore, BeginPersist
  <2>. QED
    BY <2>1 DEF Persisting
<1>4. CASE CreateTemporary
  <2>1. /\ disk'["primary"] = disk["primary"] /\ disk'["backup"] = disk["backup"]
        /\ disk'["temporary"] = Torn
    BY <1>4 DEF CreateTemporary, TypeInv, TypeOK, Candidates
  <2>. QED
    BY <1>4, <2>1 DEF CreateTemporary, Advance, history, Torn, Persisting
<1>5. CASE WriteTemporary
  <2>1. /\ disk'["primary"] = disk["primary"] /\ disk'["backup"] = disk["backup"]
        /\ disk'["temporary"] = Snapshot(reports)
    BY <1>5 DEF WriteTemporary, TypeInv, TypeOK, Candidates
  <2>. QED
    BY <1>5, <2>1 DEF WriteTemporary, Advance, history, Snapshot, Persisting
<1>6. CASE SkipBackup
  BY <1>6 DEF SkipBackup, Advance, history, Persisting
<1>7. CASE BeginBackup \/ FinishBackup \/ RemovePrimary
  BY <1>7 DEF BeginBackup, FinishBackup, RemovePrimary, Advance, Persisting
<1>8. CASE Install
  <2>1. /\ disk'["primary"] = Snapshot(reports) /\ disk'["temporary"] = Absent
    BY <1>8 DEF Install, TypeInv, TypeOK, Candidates
  <2>2. pc' = "idle" /\ reports' = reports /\ committed' = reports
    BY <1>8 DEF Install
  <2>. QED
    BY <2>1, <2>2 DEF DiskInv, Absent, Snapshot, Persisting
<1>9. CASE PersistFails
  <2>1. /\ disk'["primary"] = disk["primary"] /\ disk'["backup"] = disk["backup"]
        /\ disk'["temporary"] \in {disk["temporary"], Snapshot(reports)}
    BY <1>9 DEF PersistFails, TypeInv, TypeOK, Candidates
  <2>2. /\ pc \in Persisting /\ pc' \in {"idle", "down"} /\ previous' = previous
        /\ attempts' = attempts
    BY <1>9 DEF PersistFails, Closed, history
  <2>. QED
    BY <2>1, <2>2 DEF Snapshot, Persisting
<1>10. CASE Crash
  BY <1>10 DEF Crash, Closed, history, Persisting
<1>11. CASE UNCHANGED vars
  BY <1>11 DEF vars, memory, history
<1>. QED
  BY <1>1, <1>2, <1>3, <1>4, <1>5, <1>6, <1>7, <1>8, <1>9, <1>10, <1>11 DEF Next

LEMMA DamageInit == Init => DamageInv
BY DEF Init, DamageInv, BackupInv, Covers, Exists, Absent, Candidates

LEMMA DamageStep == TypeInv /\ DurableInv /\ DamageInv /\ [Next]_vars => DamageInv'
<1> SUFFICES ASSUME TypeInv, DurableInv, DamageInv, [Next]_vars PROVE DamageInv'
  OBVIOUS
<1>1. corruptions \in Nat
  BY DEF TypeInv, TypeOK
<1>2. CASE Corrupt
  <2>1. corruptions' = corruptions + 1
    BY <1>2, CorruptionsStep
  <2>2. corruptions = 0 => RestoreInv'
    BY <1>2, CorruptStep DEF DurableInv, DamageInv
  <2>. QED
    BY <1>1, <2>1, <2>2 DEF DamageInv
<1>3. CASE ~Corrupt
  <2>1. corruptions' = corruptions
    BY <1>3, CorruptionsStep
  <2>2. corruptions = 0 => BackupInv'
    BY <1>3, BackupStep DEF DurableInv, DamageInv
  <2>3. corruptions = 1 => DiskInv' \/ RestoreInv'
    BY <1>3, DiskStep, RestoreStep DEF DamageInv
  <2>. QED
    BY <2>1, <2>2, <2>3 DEF DamageInv
<1>. QED
  BY <1>2, <1>3

(* After one damaged primary file a restart still finds the last committed  *)
(* queue, one being written, or the one of a single commit earlier, also    *)
(* while the damaged file is moved away and the queue written anew, whatever *)
(* fails or dies meanwhile.                                                 *)
THEOREM SpoolOneCommitBack == Spec => []OneCommitBack
<1>1. TypeInv /\ DurableInv /\ DamageInv => OneCommitBack
  <2>1. TypeInv /\ corruptions <= 1 => corruptions \in {0, 1}
    BY DEF TypeInv, TypeOK
  <2>. QED
    BY <2>1, RecoverableDurable, RestoreFinds DEF DurableInv, DamageInv, OneCommitBack
<1>. QED
  BY <1>1, TypeInit, TypeStep, DurableInit, DurableStep, DamageInit, DamageStep, PTL DEF Spec

-----------------------------------------------------------------------------
(* Refinement: until a file is damaged the spool is the crash-safe queue.   *)

(* Acknowledging is dropping the first report.                              *)
LEMMA TailIsRemainder ==
    ASSUME NEW S, NEW s \in Seq(S), s # <<>>
    PROVE  Tail(s) \in Remainders(s)
<1> DEFINE m == Len(s) - 1
           Rising(n) == { g \in [1 .. n -> 1 .. Len(s)] :
                            \A i, j \in 1 .. n : i < j => g[i] < g[j] }
           next == [i \in 1 .. m |-> i + 1]
<1>1. /\ Len(s) \in Nat \ {0} /\ Tail(s) \in Seq(S) /\ Len(Tail(s)) = m
      /\ \A i \in 1 .. m : Tail(s)[i] = s[i + 1]
  BY HeadTailProperties, EmptySeq
<1>2. Tail(s) \in [1 .. m -> S]
  BY <1>1, LenProperties
<1>3. Tail(s) = [i \in 1 .. m |-> s[next[i]]]
  BY <1>1, <1>2
<1>4. m \in 0 .. Len(s) - 1 /\ next \in Rising(m)
  BY <1>1
<1> HIDE DEF m, next
<1>5. Tail(s) \in { [i \in 1 .. m |-> s[f[i]]] : f \in Rising(m) }
  BY <1>3, <1>4
<1>6. Remainders(s) =
        UNION { { [i \in 1 .. n |-> s[f[i]]] : f \in Rising(n) } : n \in 0 .. Len(s) - 1 }
  BY DEF Remainders
<1> HIDE DEF Rising
<1>. QED
  BY <1>4, <1>5, <1>6

Intact == corruptions = 0

LEMMA IntactStep ==
    ASSUME TypeInv, [Next]_vars
    PROVE  Intact' => Intact /\ ~Corrupt
BY CorruptionsStep DEF Intact, TypeInv, TypeOK

LEMMA RefinementStep ==
    ASSUME TypeInv, DiskInv, [Next]_vars, ~Corrupt
    PROVE  [Durable!Next]_(Durable!vars)
<1> USE DEF Durable!Next, Durable!vars
<1>1. CASE Open
  <2>1. Recoverable \in attempts \union {committed}
    BY RecoverableDurable
  <2>. QED
    BY <1>1, <2>1 DEF Open, Durable!Recover
<1>2. CASE Quarantine
  BY <1>2 DEF Quarantine, BeginPersist, DiskInv
<1>3. CASE Enqueue
  <2>1. issued' \in Report
    BY <1>3, SpoolAssumption DEF Enqueue, TypeInv, TypeOK, Report
  <2>2. reports = committed /\ Len(reports) < Capacity
    BY <1>3 DEF Enqueue, DiskInv
  <2>3. reports' \in Durable!Appended(committed)
    BY <1>3, <2>1, <2>2 DEF Enqueue, BeginPersist, Durable!Appended
  <2>. QED
    BY <1>3, <2>2, <2>3 DEF Enqueue, BeginPersist, Durable!Attempt
<1>4. CASE Acknowledge
  <2>1. reports = committed /\ reports # <<>>
    BY <1>4 DEF Acknowledge, DiskInv
  <2>2. reports' \in Durable!Remainders(committed)
    BY <1>4, <2>1, TailIsRemainder
       DEF Acknowledge, BeginPersist, TypeInv, TypeOK, Remainders, Durable!Remainders
  <2>. QED
    BY <1>4, <2>1, <2>2 DEF Acknowledge, BeginPersist, Durable!Attempt
<1>5. CASE DiscardBefore
  <2>1. reports = committed
    BY <1>5 DEF DiscardBefore, DiskInv
  <2>2. reports' \in Durable!Remainders(committed)
    <3>1. reports' \in Remainders(reports)
      BY <1>5 DEF DiscardBefore, BeginPersist
    <3> QED
      BY <2>1, <3>1 DEF Remainders, Durable!Remainders
  <2>. QED
    BY <1>5, <2>1, <2>2 DEF DiscardBefore, BeginPersist, Durable!Attempt
<1>6. CASE CreateTemporary \/ WriteTemporary \/ SkipBackup \/ BeginBackup
             \/ FinishBackup \/ RemovePrimary
  BY <1>6 DEF CreateTemporary, WriteTemporary, SkipBackup, BeginBackup, FinishBackup,
              RemovePrimary, Advance, history
<1>7. CASE Install
  <2>1. reports \in attempts
    BY <1>7 DEF Install, DiskInv, Persisting
  <2>. QED
    BY <1>7, <2>1 DEF Install, Durable!Commit
<1>8. CASE PersistFails
  <2>1. CASE operation = "open"
    BY <1>8, <2>1 DEF PersistFails, Closed, history, Persisting, Durable!Crash
  <2>2. CASE operation # "open"
    BY <1>8, <2>2 DEF PersistFails, history, Persisting, DiskInv, Durable!Refuse
  <2>. QED
    BY <2>1, <2>2
<1>9. CASE Crash
  BY <1>9 DEF Crash, Closed, history, Durable!Crash
<1>10. CASE UNCHANGED vars
  BY <1>10 DEF vars, memory, history
<1>. QED
  BY <1>1, <1>2, <1>3, <1>4, <1>5, <1>6, <1>7, <1>8, <1>9, <1>10 DEF Next

(* Until a file is damaged at rest the spool with its three files, failing  *)
(* at any file operation and dying between any two, implements              *)
(* DurableQueue.                                                            *)
THEOREM SpoolIsDurableQueue == Spec => IsDurableQueue
<1>1. Init => Durable!Init
  BY DEF Init, Durable!Init
<1>2. TypeInv /\ TypeInv' /\ DurableInv /\ [Next]_vars
        => [corruptions' > 0 \/ Durable!Next]_(Durable!vars)
  <2> SUFFICES ASSUME TypeInv, TypeInv', DurableInv, [Next]_vars
               PROVE  [corruptions' > 0 \/ Durable!Next]_(Durable!vars)
    OBVIOUS
  <2>1. CASE Intact'
    <3>1. Intact /\ ~Corrupt
      BY <2>1, IntactStep
    <3>2. [Durable!Next]_(Durable!vars)
      BY <3>1, RefinementStep DEF DurableInv, Intact
    <3>. QED
      BY <3>2
  <2>2. CASE ~Intact'
    BY <2>2 DEF Intact, TypeInv, TypeOK
  <2>. QED
    BY <2>1, <2>2
<1>. QED
  BY <1>1, <1>2, SpoolDurableInv, PTL DEF Spec, IsDurableQueue

-----------------------------------------------------------------------------
(* The connection and the log, as time passes.                              *)
LEMMA MinOfTwo ==
    ASSUME NEW a \in Int, NEW b \in Int
    PROVE  Min({a, b}) = IF a <= b THEN a ELSE b
<1> DEFINE m == IF a <= b THEN a ELSE b
<1>1. m \in {a, b} /\ \A y \in {a, b} : m <= y
  OBVIOUS
<1>2. \A x \in {a, b} : (\A y \in {a, b} : x <= y) => x = m
  OBVIOUS
<1> QED
  BY <1>1, <1>2 DEF Min

LEMMA MaxOfTwo ==
    ASSUME NEW a \in Int, NEW b \in Int
    PROVE  Max({a, b}) = IF a >= b THEN a ELSE b
<1> DEFINE m == IF a >= b THEN a ELSE b
<1>1. m \in {a, b} /\ \A y \in {a, b} : m >= y
  OBVIOUS
<1>2. \A x \in {a, b} : (\A y \in {a, b} : x >= y) => x = m
  OBVIOUS
<1> QED
  BY <1>1, <1>2 DEF Max

(* The least and the largest of the delays are positive, as the code's      *)
(* configuration has them.                                                  *)
LEMMA Delays ==
    /\ InitialDelay \in Nat \ {0} /\ MaxDelay \in Nat \ {0} /\ InitialDelay <= MaxDelay
    /\ Stable \in Nat \ {0} /\ Timeout \in Nat \ {0} /\ CallsPerTick \in Nat
    /\ Window \in Nat
BY ConnectionAssumption, PacingAssumption DEF ConnectionAssumption, PacingAssumption

(* A set of numbers has a least one.                                        *)
LEMMA LeastOf ==
    ASSUME NEW S \in SUBSET Nat, S # {}
    PROVE  \E n \in S : \A m \in S : ~ (m < n)
<1>1. PICK n \in S : \A m \in S : ~ (<<m, n>> \in OpToRel(<, Nat))
  BY WFMin, NatLessThanWellFounded
<1> QED
  BY <1>1 DEF OpToRel

(* The delay that f gives after n losses in a row.                          *)
DelayAfter(f, n) ==
    CASE n = 0 -> 0
      [] n = 1 -> InitialDelay
      [] OTHER -> Min({2 * f[n - 1], MaxDelay})

(* Backoff is a function that satisfies its equation: one exists up to 0,   *)
(* and from one up to k - 1 follows one up to k.                            *)
LEMMA BackoffExists ==
    \E f : f = [n \in 0 .. MaxDelay |-> DelayAfter(f, n)]
<1> DEFINE Solves(f, k) == f = [n \in 0 .. k |-> DelayAfter(f, n)]
           Bad == {k \in Nat : ~ \E f : Solves(f, k)}
<1>1. ASSUME NEW k \in Bad, \A m \in Bad : ~ (m < k)
      PROVE  FALSE
  <2>1. k # 0
    <3> DEFINE f == [n \in 0 .. 0 |-> 0]
    <3>1. Solves(f, 0)
      BY DEF DelayAfter
    <3> QED
      BY <1>1, <3>1
  <2>2. k - 1 \in Nat /\ k - 1 \notin Bad
    BY <1>1, <2>1
  <2>3. PICK g : Solves(g, k - 1)
    BY <2>2
  <2> DEFINE f == [n \in 0 .. k |-> IF n = k THEN DelayAfter(g, k) ELSE g[n]]
  <2>4. \A n \in 0 .. k : f[n] = DelayAfter(f, n)
    <3> SUFFICES ASSUME NEW n \in 0 .. k PROVE f[n] = DelayAfter(f, n)
      OBVIOUS
    <3>1. n > 1 => n - 1 \in 0 .. k - 1 /\ n - 1 # k
      BY <1>1
    <3>2. n > 1 => f[n - 1] = g[n - 1]
      BY <1>1, <3>1
    <3>3. DelayAfter(f, n) = DelayAfter(g, n)
      <4> HIDE DEF f
      <4>1. CASE n = 0 \/ n = 1
        BY <4>1 DEF DelayAfter
      <4>2. CASE n > 1
        BY <3>2, <4>2 DEF DelayAfter
      <4> QED
        BY <1>1, <4>1, <4>2
    <3>4. n # k => n \in 0 .. k - 1 /\ g[n] = DelayAfter(g, n)
      BY <1>1, <2>3
    <3> QED
      BY <3>3, <3>4
  <2>5. Solves(f, k)
    BY <2>4
  <2> QED
    BY <1>1, <2>5
<1>2. Bad = {}
  <2> SUFFICES ASSUME Bad # {} PROVE FALSE
    OBVIOUS
  <2>1. Bad \subseteq Nat
    OBVIOUS
  <2> QED
    BY <1>1, <2>1, LeastOf
<1> QED
  BY <1>2, Delays

(* So its values are those of the equation, between the first delay and the *)
(* greatest.                                                                *)
LEMMA BackoffValues ==
    /\ Backoff[0] = 0 /\ Backoff[1] = InitialDelay
    /\ \A n \in 1 .. MaxDelay - 1 : Backoff[n + 1] = Min({2 * Backoff[n], MaxDelay})
    /\ \A n \in 1 .. MaxDelay : Backoff[n] \in InitialDelay .. MaxDelay
<1>1. Backoff = [n \in 0 .. MaxDelay |-> DelayAfter(Backoff, n)]
  BY BackoffExists DEF Backoff, DelayAfter
<1>2. Backoff[0] = 0 /\ Backoff[1] = InitialDelay
  <2>1. 0 \in 0 .. MaxDelay /\ 1 \in 0 .. MaxDelay
    BY Delays
  <2> QED
    BY <1>1, <2>1 DEF DelayAfter
<1>3. ASSUME NEW n \in 1 .. MaxDelay - 1
      PROVE  Backoff[n + 1] = Min({2 * Backoff[n], MaxDelay})
  <2>1. n + 1 \in 0 .. MaxDelay /\ n + 1 # 0 /\ n + 1 # 1 /\ (n + 1) - 1 = n
    BY Delays
  <2> QED
    BY <1>1, <2>1 DEF DelayAfter
<1> DEFINE Bad == {n \in 1 .. MaxDelay : Backoff[n] \notin InitialDelay .. MaxDelay}
<1>4. ASSUME NEW n \in Bad, \A m \in Bad : ~ (m < n)
      PROVE  FALSE
  <2>1. n # 1
    BY <1>2, Delays
  <2>2. n - 1 \in 1 .. MaxDelay - 1 /\ n - 1 \in 1 .. MaxDelay /\ (n - 1) + 1 = n
    BY <2>1, Delays
  <2>3. Backoff[n - 1] \in InitialDelay .. MaxDelay
    BY <1>4, <2>2
  <2>4. Backoff[n] = Min({2 * Backoff[n - 1], MaxDelay})
    BY <1>3, <2>2
  <2>5. Backoff[n] \in InitialDelay .. MaxDelay
    BY <2>3, <2>4, MinOfTwo, Delays
  <2> QED
    BY <2>5
<1>5. Bad = {}
  <2> SUFFICES ASSUME Bad # {} PROVE FALSE
    OBVIOUS
  <2>1. Bad \subseteq Nat
    OBVIOUS
  <2> QED
    BY <1>4, <2>1, LeastOf
<1> QED
  BY <1>2, <1>3, <1>5

-----------------------------------------------------------------------------
(* What the variables of the worker hold.                                   *)
ClientTyped ==
    /\ client \in BOOLEAN /\ alive \in BOOLEAN
    /\ connectedFor \in -1 .. Stable
    /\ delay \in InitialDelay .. MaxDelay
    /\ wait \in 0 .. MaxDelay
    /\ phase \in {"idle", "connecting", "read", "ready", "sending", "waiting"}
    /\ due \in {0, 1} /\ timer \in 0 .. Timeout /\ calls \in 0 .. CallsPerTick
    /\ fails \in 0 .. MaxDelay /\ since \in 0 .. MaxDelay

(* The delay in store is at least the one after the next loss, and what has *)
(* passed since the last one and is still to be waited for is at least the  *)
(* one after that.  A connection that has been stable has made good all     *)
(* losses, so that resetting the delay shortens none.                       *)
BackoffInv ==
    /\ ~client => connectedFor = -1 /\ ~alive
    /\ phase = "connecting" => ~client
    /\ connectedFor = Stable /\ alive => fails = 0
    /\ delay >= Backoff[IF fails = MaxDelay THEN fails ELSE fails + 1]
    /\ ~client => since + wait >= Backoff[fails]

(* The oldest that an announcement in the log can be, at each step of the   *)
(* worker.  Between a read and the end of the tick time passes in calls     *)
(* only, and if it has the worker does not sleep (due).                     *)
Oldest ==
    CASE phase \in {"read", "connecting", "idle"} -> Lag
      [] phase = "ready" -> calls * Timeout
      [] phase = "sending" -> (calls - 1) * Timeout
      [] phase = "waiting" -> (calls - 1) * Timeout + timer

Announcements == [event : Events, age : Nat]

(* What is in the log is no older than that, and new while no time has      *)
(* passed since the read.                                                   *)
AgesInv ==
    /\ unread \in Seq(Announcements)
    /\ phase \in {"sending", "waiting"} => calls >= 1
    /\ \A i \in 1 .. Len(unread) : unread[i].age <= Oldest
    /\ phase \in {"ready", "sending", "waiting", "idle"} /\ due = 0 =>
         \A i \in 1 .. Len(unread) : unread[i].age = 0

(* What is within the window was written not longer before it was seen than *)
(* the worker can be late.                                                  *)
SeenInv ==
    /\ seen \in [Events -> 0 .. Window + 1]
    /\ written \in [Events -> 0 .. Forgotten]
    /\ \A e \in Events : written[e] <= seen[e] + Lag \/ seen[e] = Window + 1

PacingInv == ClientTyped /\ BackoffInv /\ AgesInv /\ SeenInv

-----------------------------------------------------------------------------
(* Steps that neither the worker's clocks nor its place in a tick see.      *)
Unnoticed ==
    UNCHANGED <<client, alive, connectedFor, delay, wait, phase, due, timer, calls, fails, since>>

(* Those of the service, and of the tasks on what is on its way.            *)
LEMMA UnnoticedSteps ==
    Service \/ ReadMessage \/ ReadPing \/ ReadFailure \/ ReadEnd \/ Push \/ TakeWelcome
      => Unnoticed
BY DEF Unnoticed, Service, Greet, Ping, Serve, AnswerLate, CloseLink, LinkFails,
       HandshakeStalls, RequireUpgrade, AllowOld, ReadMessage, ReadPing, ReadFailure, ReadEnd, Push, TakeWelcome, Receive, Hold,
       Fault, Put, service, task, worker, losses

(* The next attempt is put off by the delay in store, which is then doubled.*)
LEMMA Scheduled ==
    ASSUME ClientTyped, BackoffInv, ScheduleReconnect
    PROVE  /\ wait' \in 0 .. MaxDelay /\ delay' \in InitialDelay .. MaxDelay
           /\ fails' \in 0 .. MaxDelay /\ since' = 0
           /\ delay' >= Backoff[IF fails' = MaxDelay THEN fails' ELSE fails' + 1]
           /\ wait' >= Backoff[fails']
<1>1. /\ delay' = IF 2 * delay <= MaxDelay THEN 2 * delay ELSE MaxDelay
      /\ fails' = IF fails + 1 <= MaxDelay THEN fails + 1 ELSE MaxDelay
      /\ wait' = delay /\ since' = 0
  BY MinOfTwo, Delays DEF ClientTyped, ScheduleReconnect, Doubled
<1>2. /\ fails' \in 1 .. MaxDelay
      /\ fails' = IF fails = MaxDelay THEN fails ELSE fails + 1
  BY <1>1, Delays DEF ClientTyped
<1>3. wait' >= Backoff[fails']
  BY <1>1, <1>2 DEF BackoffInv
<1>4. delay' >= Backoff[IF fails' = MaxDelay THEN fails' ELSE fails' + 1]
  <2>1. delay \in Nat /\ delay' >= delay /\ Backoff[fails'] \in Nat
    BY <1>1, <1>2, BackoffValues, Delays DEF ClientTyped
  <2>2. CASE fails' = MaxDelay
    BY <1>1, <1>3, <2>1, <2>2
  <2>3. CASE fails' # MaxDelay
    <3>1. fails' \in 1 .. MaxDelay - 1
      BY <1>2, <2>3, Delays
    <3>2. Backoff[fails' + 1] = Min({2 * Backoff[fails'], MaxDelay})
      BY <3>1, BackoffValues
    <3>3. Backoff[fails'] <= delay
      BY <1>1, <1>3
    <3> QED
      BY <1>1, <2>1, <2>3, <3>2, <3>3, MinOfTwo, Delays DEF ClientTyped
  <2> QED
    BY <2>2, <2>3
<1> QED
  BY <1>1, <1>2, <1>3, <1>4, Delays DEF ClientTyped

(* A connection is given up, and the next attempt scheduled.                *)
LEMMA GivenUp ==
    ASSUME ClientTyped, BackoffInv, ClearConnection, ScheduleReconnect,
           phase' \in {"read", "idle"}, timer' = 0, due' \in {0, 1}, calls' \in 0 .. CallsPerTick
    PROVE  ClientTyped' /\ BackoffInv'
<1>1. ~client' /\ ~alive' /\ connectedFor' = -1
  BY DEF ClearConnection
<1>2. -1 # Stable /\ -1 \in -1 .. Stable /\ 0 \in 0 .. Timeout /\ 0 \in 0 .. MaxDelay
  BY Delays
<1>3. client' \in BOOLEAN /\ alive' \in BOOLEAN
  BY DEF ClearConnection
<1>4. BackoffInv'
  BY <1>1, <1>2, Scheduled, Delays DEF BackoffInv
<1>5. ClientTyped'
  BY <1>1, <1>2, <1>3, Scheduled DEF ClientTyped
<1> QED
  BY <1>4, <1>5

(* What passes of the wait is gained as distance from the last loss.        *)
LEMMA ElapseClient ==
    ASSUME ClientTyped, BackoffInv, Elapse
    PROVE  ClientTyped' /\ BackoffInv'
<1>1. /\ due' = 1 /\ timer' \in 0 .. Timeout
      /\ wait' = IF wait = 0 THEN 0 ELSE wait - 1
      /\ since' = IF since = MaxDelay THEN MaxDelay ELSE since + 1
      /\ connectedFor' = IF connectedFor = -1 THEN -1
                         ELSE IF connectedFor = Stable THEN Stable ELSE connectedFor + 1
      /\ fails' = IF connectedFor >= Stable - 1 /\ alive THEN 0 ELSE fails
      /\ UNCHANGED <<client, alive, delay, phase, calls>>
  BY MinOfTwo, MaxOfTwo, Delays DEF Elapse, TimePasses, Held, ClientTyped, task
<1>2. ClientTyped'
  BY <1>1, Delays DEF ClientTyped
<1>3. connectedFor' = Stable /\ alive' => fails' = 0
  BY <1>1, Delays DEF ClientTyped
<1>4. delay' >= Backoff[IF fails' = MaxDelay THEN fails' ELSE fails' + 1]
  BY <1>1, BackoffValues, Delays DEF ClientTyped, BackoffInv
<1>5. ~client' => since' + wait' >= Backoff[fails']
  <2>1. Backoff[fails] \in 0 .. MaxDelay
    BY BackoffValues, Delays DEF ClientTyped
  <2> QED
    BY <1>1, <2>1, BackoffValues, Delays DEF ClientTyped, BackoffInv
<1> QED
  BY <1>1, <1>2, <1>3, <1>4, <1>5 DEF BackoffInv

LEMMA ClientStep ==
    ASSUME ClientTyped, BackoffInv, [PacingNext]_pacingVars
    PROVE  ClientTyped' /\ BackoffInv'
<1> USE DEF pacingVars, connectionVars, service, task, worker, losses
<1>1. CASE Unnoticed
  BY <1>1 DEF Unnoticed, ClientTyped, BackoffInv
<1>2. CASE EndReader
  BY <1>2 DEF EndReader, ClientTyped, BackoffInv
<1>3. CASE KeepConnection
  <2>1. connectedFor = Stable => fails = 0
    BY <1>3 DEF KeepConnection, BackoffInv
  <2>2. 0 # MaxDelay /\ -1 # Stable /\ InitialDelay \in InitialDelay .. MaxDelay
    BY Delays
  <2>3. ClientTyped'
    BY <1>3, <2>2, Delays DEF KeepConnection, BeginTick, ClientTyped
  <2>4. delay' >= Backoff[IF fails' = MaxDelay THEN fails' ELSE fails' + 1]
    BY <1>3, <2>1, <2>2, BackoffValues, Delays DEF KeepConnection, IsStable, BackoffInv
  <2> QED
    BY <1>3, <2>2, <2>3, <2>4 DEF KeepConnection, BeginTick, BackoffInv
<1>4. CASE NoticeLoss
  BY <1>4, GivenUp, Delays DEF NoticeLoss, BeginTick
<1>5. CASE WaitToReconnect \/ BeginConnect
  BY <1>5, Delays DEF WaitToReconnect, BeginConnect, BeginTick, ClientTyped, BackoffInv
<1>6. CASE Connected
  BY <1>6, Delays DEF Connected, ClientTyped, BackoffInv
<1>7. CASE Incompatible \/ ConnectFails
  <2>1. /\ UNCHANGED <<client, alive, connectedFor, timer, calls, due>> /\ ScheduleReconnect
        /\ phase' = "read" /\ ~client
    BY <1>7 DEF Incompatible, ConnectFails, BackoffInv
  <2>2. ClientTyped'
    BY <2>1, Scheduled, Delays DEF ClientTyped
  <2> QED
    BY <2>1, <2>2, Scheduled, Delays DEF BackoffInv, ClientTyped
<1>8. CASE EndRead \/ EndTick \/ TakeAnswer
  <2>1. /\ UNCHANGED <<client, alive, connectedFor, delay, wait, due, calls, fails, since>>
        /\ phase' \in {"ready", "idle"} /\ timer' \in {timer, 0}
    BY <1>8 DEF EndRead, EndTick, TakeAnswer, Receive
  <2>2. timer' \in 0 .. Timeout
    BY <2>1, Delays DEF ClientTyped
  <2> QED
    BY <2>1, <2>2 DEF ClientTyped, BackoffInv
<1>9. CASE BeginCall \/ Sent
  BY <1>9, Delays DEF BeginCall, Sent, ClientTyped, BackoffInv
<1>10. CASE NotConnected \/ SendFails \/ TakeUpgrade \/ TakeFailure \/ CallTimesOut
  <2>1. GiveUp
    BY <1>10 DEF NotConnected, SendFails, TakeUpgrade, TakeFailure, CallTimesOut
  <2> QED
    BY <2>1, GivenUp DEF GiveUp, ClientTyped
<1>11. CASE PacingElapse
  BY <1>11, ElapseClient DEF PacingElapse
<1>12. CASE UNCHANGED connectionVars
  BY <1>12 DEF ClientTyped, BackoffInv
<1>13. ASSUME NEW e \in Events, Accept(e) \/ Suppress(e) \/ Announce(e)
       PROVE  UNCHANGED connectionVars
  BY <1>13 DEF Accept, Suppress, Announce
<1> QED
  BY <1>1, <1>2, <1>3, <1>4, <1>5, <1>6, <1>7, <1>8, <1>9, <1>10, <1>11, <1>12, <1>13,
     UnnoticedSteps
  DEF PacingNext, Connecting, ConnectionStep, Reader, Worker, Untimed, ReadLog, ReadEnds

-----------------------------------------------------------------------------
(* The answers to the calls of a tick together take no longer than the      *)
(* worker can be late.                                                      *)
LEMMA Lateness ==
    /\ Lag \in Nat /\ Lag >= 1 /\ Forgotten \in Nat /\ Forgotten = Window + Lag + 1
    /\ \A n \in 0 .. CallsPerTick : n * Timeout \in Nat /\ n * Timeout <= Lag
<1>1. CallsPerTick * Timeout \in Nat
  BY Delays
<1>2. Lag = IF CallsPerTick * Timeout >= 1 THEN CallsPerTick * Timeout ELSE 1
  BY <1>1, MaxOfTwo DEF Lag
<1>3. ASSUME NEW n \in 0 .. CallsPerTick
      PROVE  n * Timeout \in Nat /\ n * Timeout <= CallsPerTick * Timeout
  <2>1. n \in Nat /\ CallsPerTick - n \in Nat /\ n + (CallsPerTick - n) = CallsPerTick
    BY Delays
  <2>2. n * Timeout \in Nat /\ (CallsPerTick - n) * Timeout \in Nat
    BY <2>1, Delays
  <2>3. CallsPerTick * Timeout = n * Timeout + (CallsPerTick - n) * Timeout
    BY <2>1, Delays
  <2> QED
    BY <2>2, <2>3
<1> QED
  BY <1>1, <1>2, <1>3, Delays DEF Forgotten

(* The log loses its first line, or gains one that is new.                  *)
LEMMA LogRest ==
    ASSUME NEW s \in Seq(Announcements), s # <<>>
    PROVE  /\ Tail(s) \in Seq(Announcements)
           /\ Head(s) = s[1] /\ 1 \in 1 .. Len(s)
           /\ \A i \in 1 .. Len(Tail(s)) : i + 1 \in 1 .. Len(s) /\ Tail(s)[i] = s[i + 1]
<1>1. Len(s) \in Nat /\ Len(s) # 0 /\ Head(s) = s[1]
  BY EmptySeq, LenProperties
<1> QED
  BY <1>1, HeadTailProperties

LEMMA LogAppend ==
    ASSUME NEW s \in Seq(Announcements), NEW e \in Events
    PROVE  LET t == Append(s, [event |-> e, age |-> 0]) IN
           /\ t \in Seq(Announcements)
           /\ \A i \in 1 .. Len(t) : t[i].age = 0 \/ (i \in 1 .. Len(s) /\ t[i] = s[i])
<1> DEFINE a == [event |-> e, age |-> 0]
           t == Append(s, a)
<1>1. a \in Announcements /\ a.age = 0
  BY DEF Announcements
<1> HIDE DEF a
<1>2. /\ t \in Seq(Announcements) /\ Len(t) = Len(s) + 1 /\ t[Len(s) + 1] = a
      /\ \A i \in 1 .. Len(s) : t[i] = s[i]
  BY <1>1, AppendProperties
<1>3. Len(s) \in Nat
  BY LenProperties
<1> HIDE DEF t
<1>4. \A i \in 1 .. Len(t) : t[i].age = 0 \/ (i \in 1 .. Len(s) /\ t[i] = s[i])
  BY <1>1, <1>2, <1>3
<1> QED
  BY <1>2, <1>4 DEF t, a

LEMMA OldestIsNat ==
    ClientTyped /\ (phase \in {"sending", "waiting"} => calls >= 1) => Oldest \in Nat
<1> SUFFICES ASSUME ClientTyped, phase \in {"sending", "waiting"} => calls >= 1
             PROVE  Oldest \in Nat
  OBVIOUS
<1>1. CASE phase \in {"sending", "waiting"}
  <2>1. calls - 1 \in 0 .. CallsPerTick /\ timer \in Nat
    BY <1>1, Delays DEF ClientTyped
  <2> QED
    BY <1>1, <2>1, Lateness DEF Oldest
<1>2. CASE phase = "ready"
  BY <1>2, Lateness DEF Oldest, ClientTyped
<1>3. CASE phase \in {"read", "connecting", "idle"}
  BY <1>3, Lateness, Delays DEF Oldest, ClientTyped
<1> QED
  BY <1>1, <1>2, <1>3 DEF ClientTyped

(* Time passes in the sleep before a tick and in a call, each within what   *)
(* the worker's place in the tick allows for; while it is held by an        *)
(* attempt or a send the announcements do not age.                          *)
LEMMA AgesElapse ==
    ASSUME ClientTyped, AgesInv, PacingElapse
    PROVE  AgesInv'
<1>1. /\ due' = 1 /\ UNCHANGED <<phase, calls>>
      /\ phase = "waiting" => timer' = timer + 1
      /\ Held \/ (phase = "idle" /\ due = 0) \/ (phase = "waiting" /\ timer < Timeout)
  BY DEF PacingElapse, Elapse, TimePasses
<1>2. CASE Held
  <2>1. UNCHANGED unread
    BY <1>2 DEF PacingElapse
  <2>2. Oldest' = Oldest
    BY <1>1, <1>2 DEF Held, Oldest, Lag
  <2> QED
    BY <1>1, <1>2, <2>1, <2>2 DEF Held, AgesInv
<1>3. CASE ~Held
  <2>1. /\ DOMAIN unread = 1 .. Len(unread) /\ Len(unread) \in Nat
        /\ \A i \in 1 .. Len(unread) : unread[i] \in Announcements
    BY LenProperties, ElementOfSeq DEF AgesInv
  <2>2. /\ unread' \in Seq(Announcements) /\ Len(unread') = Len(unread)
        /\ \A i \in 1 .. Len(unread) :
             unread[i].age \in Nat /\ unread'[i].age = unread[i].age + 1
    <3>1. unread' = [i \in 1 .. Len(unread) |-> [unread[i] EXCEPT !.age = @ + 1]]
      BY <1>3, <2>1 DEF PacingElapse
    <3>2. \A i \in 1 .. Len(unread) :
            [unread[i] EXCEPT !.age = @ + 1]
              = [event |-> unread[i].event, age |-> unread[i].age + 1]
      BY <2>1 DEF Announcements
    <3>3. \A i \in 1 .. Len(unread) : [unread[i] EXCEPT !.age = @ + 1] \in Announcements
      BY <2>1, <3>2 DEF Announcements
    <3> QED
      BY <2>1, <3>1, <3>2, <3>3 DEF Announcements
  <2>3. ASSUME NEW i \in 1 .. Len(unread)
        PROVE  unread[i].age + 1 <= Oldest'
    <3>1. unread[i].age \in Nat /\ unread[i].age <= Oldest
      BY <2>2, <2>3 DEF AgesInv
    <3>2. CASE phase = "idle" /\ due = 0
      <4>1. unread[i].age = 0 /\ Oldest' = Lag
        BY <1>1, <2>3, <3>2 DEF AgesInv, Oldest, Lag
      <4> QED
        BY <4>1, Lateness
    <3>3. CASE phase = "waiting"
      <4>1. /\ Oldest = (calls - 1) * Timeout + timer
            /\ Oldest' = (calls - 1) * Timeout + (timer + 1)
        BY <1>1, <3>3 DEF Oldest
      <4>2. timer \in Nat /\ calls - 1 \in 0 .. CallsPerTick
        BY <3>3, Delays DEF AgesInv, ClientTyped
      <4>3. (calls - 1) * Timeout \in Nat
        BY <4>2, Lateness
      <4> QED
        BY <3>1, <4>1, <4>2, <4>3
    <3> QED
      BY <1>1, <1>3, <3>2, <3>3
  <2>4. \A i \in 1 .. Len(unread') : unread'[i].age <= Oldest'
    BY <2>2, <2>3
  <2>5. phase' \in {"sending", "waiting"} => calls' >= 1
    BY <1>1 DEF AgesInv
  <2> QED
    BY <1>1, <2>2, <2>4, <2>5 DEF AgesInv
<1> QED
  BY <1>2, <1>3

(* A step that takes no time and leaves the log alone: the worker goes on   *)
(* to a step that allows for no less.                                       *)
LEMMA AgesQuiet ==
    ASSUME AgesInv, UNCHANGED unread, Oldest' \in Nat, Oldest \in Nat, Oldest <= Oldest',
           phase' \in {"sending", "waiting"} => calls' >= 1,
           phase' \in {"ready", "sending", "waiting", "idle"} /\ due' = 0 =>
             phase \in {"ready", "sending", "waiting", "idle"} /\ due = 0
    PROVE  AgesInv'
<1>0. \A i \in 1 .. Len(unread) : unread[i] \in Announcements
  BY ElementOfSeq, LenProperties DEF AgesInv
<1>1. \A i \in 1 .. Len(unread) : unread[i].age \in Nat /\ unread[i].age <= Oldest
  BY <1>0 DEF AgesInv, Announcements
<1>2. \A i \in 1 .. Len(unread) : unread[i].age <= Oldest'
  BY <1>1
<1> QED
  BY <1>2 DEF AgesInv

LEMMA AgesStep ==
    ASSUME ClientTyped, BackoffInv, ClientTyped', AgesInv, [PacingNext]_pacingVars
    PROVE  AgesInv'
<1> USE DEF pacingVars, connectionVars, service, task, worker, losses
<1>1. Oldest \in Nat
  BY OldestIsNat DEF AgesInv
<1>2. ASSUME UNCHANGED <<unread, phase, timer, calls, due>>
      PROVE  AgesInv'
  <2>1. Oldest' = Oldest
    BY <1>2 DEF Oldest, Lag
  <2> QED
    BY <1>1, <1>2, <2>1, AgesQuiet DEF AgesInv
<1>3. CASE /\ UNCHANGED unread
           /\ KeepConnection \/ NoticeLoss \/ WaitToReconnect \/ BeginConnect
  <2>1. phase = "idle" /\ phase' \in {"read", "connecting"}
    BY <1>3 DEF KeepConnection, NoticeLoss, WaitToReconnect, BeginConnect, BeginTick
  <2>2. Oldest = Lag /\ Oldest' = Lag
    BY <2>1 DEF Oldest, Lag
  <2> QED
    BY <1>1, <1>3, <2>1, <2>2, AgesQuiet, Lateness
<1>4. CASE UNCHANGED unread /\ (Connected \/ Incompatible \/ ConnectFails)
  <2>1. phase = "connecting" /\ phase' = "read"
    BY <1>4 DEF Connected, Incompatible, ConnectFails
  <2>2. Oldest = Lag /\ Oldest' = Lag
    BY <2>1 DEF Oldest, Lag
  <2> QED
    BY <1>1, <1>4, <2>1, <2>2, AgesQuiet, Lateness
<1>5. CASE ReadEnds
  <2>1. unread' = <<>>
    BY <1>5 DEF ReadEnds
  <2> QED
    BY <1>5, <2>1, EmptySeq DEF ReadEnds, EndRead, AgesInv
<1>6. CASE UNCHANGED unread /\ (BeginCall \/ Sent)
  <2>1. /\ calls \in Nat /\ due' = due /\ calls' >= 1
        /\ \/ phase = "ready" /\ phase' = "sending" /\ calls' = calls + 1
           \/ phase = "sending" /\ phase' = "waiting" /\ calls' = calls /\ timer' = 0
    BY <1>6 DEF BeginCall, Sent, AgesInv, ClientTyped
  <2>2. \/ Oldest = calls * Timeout /\ Oldest' = (calls' - 1) * Timeout /\ calls' - 1 = calls
        \/ Oldest = (calls - 1) * Timeout /\ Oldest' = (calls - 1) * Timeout + 0
    BY <2>1 DEF Oldest
  <2>3. Oldest' = Oldest
    BY <1>1, <2>2
  <2> QED
    BY <1>1, <1>6, <2>1, <2>3, AgesQuiet
<1>7. CASE UNCHANGED unread /\ TakeAnswer
  <2>1. phase = "waiting" /\ phase' = "ready" /\ calls' = calls /\ due' = due
    BY <1>7 DEF TakeAnswer, Receive
  <2>2. Oldest = (calls - 1) * Timeout + timer /\ Oldest' = calls * Timeout
    BY <2>1 DEF Oldest
  <2>3. (calls - 1) * Timeout + timer <= calls * Timeout /\ calls * Timeout \in Nat
    BY Delays DEF ClientTyped
  <2> QED
    BY <1>1, <1>7, <2>1, <2>2, <2>3, AgesQuiet
<1>8. CASE /\ UNCHANGED unread
           /\ NotConnected \/ SendFails \/ TakeUpgrade \/ TakeFailure \/ CallTimesOut \/ EndTick
  <2>1. /\ phase \in {"ready", "sending", "waiting"} /\ phase' = "idle" /\ due' = due
    BY <1>8 DEF NotConnected, SendFails, TakeUpgrade, TakeFailure, CallTimesOut, EndTick,
       Receive, GiveUp
  <2>2. Oldest' = Lag
    BY <2>1 DEF Oldest, Lag
  <2>3. Oldest <= Lag
    <3>1. calls * Timeout \in Nat /\ calls * Timeout <= Lag
      BY Lateness DEF ClientTyped
    <3>2. CASE phase = "ready"
      BY <3>1, <3>2 DEF Oldest
    <3>3. CASE phase = "sending"
      <4>1. calls >= 1
        BY <3>3 DEF AgesInv
      <4>2. calls - 1 \in 0 .. CallsPerTick
        BY <4>1, Delays DEF ClientTyped
      <4>3. Oldest = (calls - 1) * Timeout
        BY <3>3 DEF Oldest
      <4> QED
        BY <4>2, <4>3, Lateness
    <3>4. CASE phase = "waiting"
      <4>1. Oldest = (calls - 1) * Timeout + timer
        BY <3>4 DEF Oldest
      <4>2. (calls - 1) * Timeout + timer <= calls * Timeout
        BY Delays DEF ClientTyped
      <4> QED
        BY <1>1, <3>1, <4>1, <4>2, Lateness
    <3> QED
      BY <2>1, <3>2, <3>3, <3>4
  <2> QED
    BY <1>1, <1>8, <2>1, <2>2, <2>3, AgesQuiet, Lateness
<1>9. CASE PacingElapse
  BY <1>9, AgesElapse
<1>10. ASSUME NEW e \in Events, Accept(e) \/ Suppress(e)
       PROVE  AgesInv'
  <2>1. unread # <<>> /\ unread' = Tail(unread) /\ UNCHANGED <<phase, timer, calls, due>>
    BY <1>10 DEF Accept, Suppress
  <2>2. Oldest' = Oldest
    BY <2>1 DEF Oldest, Lag
  <2> QED
    BY <2>1, <2>2, LogRest DEF AgesInv
<1>11. ASSUME NEW e \in Events, Announce(e)
       PROVE  AgesInv'
  <2>1. /\ unread' = Append(unread, [event |-> e, age |-> 0])
        /\ UNCHANGED <<phase, timer, calls, due>>
    BY <1>11 DEF Announce
  <2>2. Oldest' = Oldest
    BY <2>1 DEF Oldest, Lag
  <2>3. 0 <= Oldest
    BY <1>1
  <2> QED
    BY <2>1, <2>2, <2>3, LogAppend DEF AgesInv
<1>12. CASE UNCHANGED unread /\ (Unnoticed \/ EndReader)
  BY <1>2, <1>12 DEF Unnoticed, EndReader
<1>13. CASE UNCHANGED pacingVars
  BY <1>2, <1>13
<1> QED
  BY <1>3, <1>4, <1>5, <1>6, <1>7, <1>8, <1>9, <1>10, <1>11, <1>12, <1>13, UnnoticedSteps
  DEF PacingNext, Connecting, ConnectionStep, Reader, Worker, Untimed, ReadLog

(* What is accepted was written no longer ago than the worker can be late;  *)
(* from then on both its ages grow alike.                                   *)
LEMMA SeenStep ==
    ASSUME ClientTyped, AgesInv, SeenInv, [PacingNext]_pacingVars
    PROVE  SeenInv'
<1>1. Lag' = Lag /\ Forgotten' = Forgotten
  BY DEF Lag, Forgotten
<1>2. CASE UNCHANGED <<seen, written>>
  BY <1>1, <1>2 DEF SeenInv
<1>3. ASSUME NEW e \in Events, Accept(e)
      PROVE  SeenInv'
  <2>1. phase = "read" /\ unread # <<>> /\ Head(unread) = unread[1] /\ 1 \in 1 .. Len(unread)
    BY <1>3, LogRest DEF Accept, AgesInv
  <2>2. unread[1] \in Announcements
    BY <2>1, ElementOfSeq DEF AgesInv
  <2>3. Head(unread).age \in Nat /\ Head(unread).age <= Lag
    BY <2>1, <2>2 DEF AgesInv, Oldest, Announcements
  <2>4. /\ seen' = [seen EXCEPT ![e] = 0]
        /\ written' = [written EXCEPT ![e] = Head(unread).age]
    BY <1>3 DEF Accept
  <2>5. 0 \in 0 .. Window + 1 /\ Head(unread).age \in 0 .. Forgotten
    BY <2>3, Lateness, Delays
  <2> HIDE DEF Accept
  <2> QED
    BY <1>1, <2>3, <2>4, <2>5, Lateness DEF SeenInv
<1>4. CASE PacingElapse
  <2>1. \A e \in Events :
          /\ seen'[e] = Min({seen[e] + 1, Window + 1})
          /\ written'[e] = IF Held THEN written[e] ELSE Min({written[e] + 1, Forgotten})
    BY <1>4 DEF PacingElapse, SeenInv
  <2>2. \A e \in Events :
          /\ seen[e] \in 0 .. Window + 1 /\ written[e] \in 0 .. Forgotten
          /\ written[e] <= seen[e] + Lag \/ seen[e] = Window + 1
    BY DEF SeenInv
  <2>3. \A e \in Events :
          /\ seen'[e] = IF seen[e] = Window + 1 THEN seen[e] ELSE seen[e] + 1
          /\ written'[e] \in {written[e], written[e] + 1} \cap (0 .. Forgotten)
    <3> SUFFICES ASSUME NEW e \in Events
                 PROVE  /\ seen'[e] = IF seen[e] = Window + 1 THEN seen[e] ELSE seen[e] + 1
                        /\ written'[e] \in {written[e], written[e] + 1} \cap (0 .. Forgotten)
      OBVIOUS
    <3>1. Min({seen[e] + 1, Window + 1}) =
            IF seen[e] = Window + 1 THEN seen[e] ELSE seen[e] + 1
      BY <2>2, MinOfTwo, Delays
    <3>2. Min({written[e] + 1, Forgotten}) =
            IF written[e] = Forgotten THEN written[e] ELSE written[e] + 1
      BY <2>2, MinOfTwo, Lateness
    <3> QED
      BY <2>1, <2>2, <3>1, <3>2, Lateness
  <2>4. \A e \in Events :
          /\ seen'[e] \in 0 .. Window + 1 /\ written'[e] \in 0 .. Forgotten
          /\ written'[e] <= seen'[e] + Lag \/ seen'[e] = Window + 1
    BY <2>2, <2>3, Lateness, Delays
  <2>5. seen' \in [Events -> 0 .. Window + 1] /\ written' \in [Events -> 0 .. Forgotten]
    BY <1>4, <2>4 DEF PacingElapse, SeenInv
  <2> QED
    BY <1>1, <2>4, <2>5 DEF SeenInv
<1> QED
  BY <1>2, <1>3, <1>4
  DEF PacingNext, Connecting, ReadLog, ReadEnds, Suppress, Announce, pacingVars

LEMMA PacingInvariant == PacingSpec => []PacingInv
<1>1. PacingInit => PacingInv
  <2> SUFFICES ASSUME PacingInit PROVE PacingInv
    OBVIOUS
  <2> USE DEF PacingInit, ConnectionInit
  <2>1. ClientTyped
    <3>1. -1 \in -1 .. Stable /\ InitialDelay \in InitialDelay .. MaxDelay
      BY Delays
    <3>2. 0 \in 0 .. MaxDelay /\ MaxDelay \in 0 .. MaxDelay
      BY Delays
    <3>3. 0 \in 0 .. Timeout /\ 0 \in 0 .. CallsPerTick
      BY Delays
    <3> QED
      BY <3>1, <3>2, <3>3 DEF ClientTyped
  <2>2. BackoffInv
    BY Delays, BackoffValues DEF BackoffInv
  <2>3. AgesInv
    BY EmptySeq DEF AgesInv
  <2>4. SeenInv
    BY Lateness, Delays DEF SeenInv
  <2> QED
    BY <2>1, <2>2, <2>3, <2>4 DEF PacingInv
<1>2. PacingInv /\ [PacingNext]_pacingVars => PacingInv'
  BY ClientStep, AgesStep, SeenStep DEF PacingInv
<1> QED
  BY <1>1, <1>2, PTL DEF PacingSpec

(* An attempt to connect keeps its distance from the last loss: the delay,  *)
(* doubled for every loss since the last connection that was stable.        *)
THEOREM PacingBackoffRespected == PacingSpec => BackoffRespected
<1>1. PacingInv => (BeginConnect => since >= Backoff[fails])
  <2> SUFFICES ASSUME PacingInv, BeginConnect PROVE since >= Backoff[fails]
    OBVIOUS
  <2>1. ~client /\ wait = 0
    BY DEF BeginConnect
  <2>2. since + 0 >= Backoff[fails] /\ since \in Nat
    BY <2>1 DEF PacingInv, BackoffInv, ClientTyped
  <2> QED
    BY <2>2
<1> QED
  BY <1>1, PacingInvariant, PTL DEF BackoffRespected

(* An announcement is suppressed only for one that was written within the   *)
(* window and what the worker can have been late by its sleep and its       *)
(* timeouts; what attempts and sends took is not counted (PacingElapse).    *)
THEOREM PacingDuplicateIsRecent == PacingSpec => DuplicateIsRecent
<1>1. PacingInv => \A e \in Events : Suppress(e) => written[e] < Forgotten
  <2> SUFFICES ASSUME PacingInv, NEW e \in Events, Suppress(e) PROVE written[e] < Forgotten
    OBVIOUS
  <2>1. seen[e] <= Window
    BY DEF Suppress
  <2>2. seen[e] \in 0 .. Window + 1 /\ written[e] \in 0 .. Forgotten
    BY DEF PacingInv, SeenInv
  <2>3. written[e] <= seen[e] + Lag
    BY <2>1, <2>2, Delays DEF PacingInv, SeenInv
  <2> QED
    BY <2>1, <2>2, <2>3, Lateness, Delays
<1> QED
  BY <1>1, PacingInvariant, PTL DEF DuplicateIsRecent
=============================================================================
