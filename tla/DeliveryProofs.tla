--------------------------- MODULE DeliveryProofs ---------------------------
(***************************************************************************)
(* What the worker, its links and the service guarantee for any number of  *)
(* links, reports, pings, deaths and releases, and any set of reports the  *)
(* service refuses.                                                        *)
(*                                                                         *)
(* The invariant has four parts: what the worker's steps say about its     *)
(* call and its queues (Typed), where reports can be (Spooled), what is in *)
(* flight on the link in use (LinkInv), and what became of every report    *)
(* that was accepted or sent (HeldInv, OrderInv).                          *)
(***************************************************************************)
EXTENDS Delivery, SequenceTheorems, WellFoundedInduction, TLAPS

-----------------------------------------------------------------------------
(* The steps that change more than whether an await holds the worker; the   *)
(* invariant does not need to know that it takes none of its own meanwhile. *)
Moves == Working \/ Around \/ Crash \/ CalmDown

LEMMA OnlyMoves ==
    /\ [Next]_vars => [Moves]_state
    /\ [CalmingNext]_vars => [Moves]_state
BY DEF Next, CalmingNext, Moves, Stalls, Resumes, vars

Requests ==
    [type : {"state"}, value : {PAUSED, OBSERVING}]
      \union [type : {"report", "ping", "ready"}, value : Nat]

Replies ==
    [type : {"updated"}, value : {PAUSED, OBSERVING}]
      \union [type : {"queued", "slot", "error", "failed"}, value : Nat]

(* The request that a step of the worker waits for, on its connection.      *)
CallInv ==
    /\ pc \in {"observe", "announce"} => request = StateMessage(OBSERVING)
    /\ pc \in {"pause", "quiesce"} => request = StateMessage(PAUSED)
    /\ pc = "slot" => request = UpdateReady
    /\ pc = "report" => request = EventReport(Head(queue))
    /\ pc = "pinged" => request.type = "ping"
    /\ pc \notin {"observe", "announce", "pause", "quiesce", "slot", "report", "pinged"}
         => request = Idle
    /\ request # Idle => conn # None

ClientTyped ==
    /\ conn \in Links \union {None}
    /\ alive \in BOOLEAN
    /\ calm \in BOOLEAN
    /\ acknowledged \in {PAUSED, OBSERVING}
    /\ request \in Requests \union {Idle}
    /\ inbound \in Seq(Replies)
    /\ outbound \in [Links -> Seq(Requests)]
    /\ serverState \in [Links -> {PAUSED, OBSERVING}]

WorkerTyped ==
    /\ pc \in Steps
    /\ resume \in {"tick", "connect", "read", "session", "pings", "update"}
    /\ batch \in 0 .. MaxPerTick
    /\ mode \in {"unknown", "master_sword", "other"}
    /\ confirmed \in BOOLEAN /\ observing \in BOOLEAN /\ pending \in BOOLEAN
    /\ manual \in BOOLEAN /\ hadPending \in BOOLEAN /\ wanted \in BOOLEAN
    /\ pc \in {"announce", "send", "report", "acknowledge", "pinged"} =>
         batch < MaxPerTick

QueuesTyped ==
    /\ received \in Seq(Nat)
    /\ queue \in Seq(Nat)
    /\ stored \in Seq(Nat)
    /\ pings \in Seq(Nat)
    /\ Len(pings) <= MaxPendingPings
    /\ pc = "pinged" => pings # <<>>
    /\ pc \in {"announce", "send", "report", "acknowledge"} => queue # <<>>
    /\ issued \in 0 .. MaxReports /\ pinging \in Nat /\ expired \in Nat

Typed == ClientTyped /\ CallInv /\ WorkerTyped /\ QueuesTyped

(* The reports that are on disk, in the order they were observed in, are    *)
(* those in memory while the worker is up.                                  *)
Increasing(s) == \A i, j \in 1 .. Len(s) : i < j => s[i] < s[j]

Has(s, r) == \E i \in 1 .. Len(s) : s[i] = r

Spooled ==
    /\ Increasing(stored)
    /\ \A r : Has(stored, r) => r \in 1 .. issued
    /\ queue = IF pc = "down" THEN <<>> ELSE stored
    /\ accepted \subseteq 1 .. issued

PingsInv == \A r : Has(pings, r) => r \in MaxReports + 1 .. MaxReports + pinging

InFlight(r) == \E c \in Links : Has(outbound[c], EventReport(r))

PingInFlight(r) == \E c \in Links : Has(outbound[c], ChatPingReport(r))

(* What is in flight is a report or a ping that was observed, and an answer *)
(* that a report is queued is true.                                         *)
FlightInv ==
    /\ \A r : InFlight(r) => r \in 1 .. issued
    /\ \A r : PingInFlight(r) => r \in MaxReports + 1 .. MaxReports + pinging
    /\ \A r : Has(received, r) => r \in 1 .. issued
    /\ pinged \subseteq MaxReports + 1 .. MaxReports + pinging
    /\ \A r : Has(inbound, ReportQueued(r)) => r > MaxReports \/ Has(received, r)
    /\ pc = "acknowledge" => Has(received, Head(queue))

(* The link in use.  An announcement of OBSERVING, unlike other requests,   *)
(* is never given up without giving up the link: it is the last message to  *)
(* the service, and its answer the last one from there.                     *)
OnlyLast(s, m) == \A i \in 1 .. Len(s) : s[i] = m => i = Len(s)

LinkInv ==
    Connected =>
      /\ Has(outbound[conn], StateMessage(OBSERVING)) =>
           /\ request = StateMessage(OBSERVING)
           /\ OnlyLast(outbound[conn], StateMessage(OBSERVING))
      /\ Has(inbound, StateUpdated(OBSERVING)) =>
           /\ request = StateMessage(OBSERVING)
           /\ OnlyLast(inbound, StateUpdated(OBSERVING))
           /\ outbound[conn] = <<>> /\ serverState[conn] = OBSERVING
      /\ Has(inbound, StateUpdated(PAUSED)) /\ request # StateMessage(OBSERVING) =>
           serverState[conn] = PAUSED
      /\ acknowledged = PAUSED /\ request # StateMessage(OBSERVING) =>
           serverState[conn] = PAUSED
      /\ pc = "send" =>
           outbound[conn] = <<>> /\ inbound = <<>> /\ serverState[conn] = OBSERVING
      /\ pc = "report" =>
           outbound[conn] = <<>> \/ (Tail(outbound[conn]) = <<>> /\ inbound = <<>>)
      /\ pc = "handoff" => acknowledged = PAUSED

(* A report is alone on its link, which is OBSERVING.                       *)
ReportInv ==
    \A c \in Links : \A r : Has(outbound[c], EventReport(r)) =>
        /\ serverState[c] = OBSERVING
        /\ Len(outbound[c]) = 1
        /\ c = conn /\ alive => pc = "report"

Sent(r) == Has(received, r) \/ InFlight(r)

(* Every report that was accepted or sent is on disk, with the service, or  *)
(* too old.                                                                 *)
HeldInv ==
    \A r \in 1 .. issued :
        r \in accepted \/ Sent(r) => Has(stored, r) \/ Has(received, r) \/ r <= expired

(* What was observed before a report that was sent and can still be sent,   *)
(* or sent again, is with the service or too old.                           *)
OrderInv ==
    \A x, r \in 1 .. issued :
        Sent(x) /\ r < x /\ (Sent(r) \/ Has(stored, r)) => Has(received, r) \/ r <= expired

(* What a step does to the reports on disk ...                              *)
SpoolChange ==
    /\ issued' \in {issued, issued + 1} /\ expired' \in {expired, expired + 1}
    /\ pinging' \in {pinging, pinging + 1}
    /\ \A r : Has(stored', r) => Has(stored, r) \/ (r = issued + 1 /\ issued' = issued + 1)
    /\ \A r : Has(stored, r) => Has(stored', r) \/ Has(received, r) \/ r <= expired
    /\ \A r : r \in accepted' => r \in accepted \/ Has(stored', r)

(* ... and to what is in flight and with the service.                       *)
NewRequest(m) ==
    \/ m.type \in {"state", "ready"}
    \/ pc = "send" /\ m = EventReport(Head(queue))
    \/ pc = "ping" /\ pings # <<>> /\ m = ChatPingReport(Head(pings))

FlightChange ==
    /\ \A c \in Links : \A m : Has(outbound'[c], m) => Has(outbound[c], m) \/ NewRequest(m)
    /\ \/ received' = received
       \/ \E r \in Nat : /\ InFlight(r) /\ ~Has(received, r)
                         /\ received' = Append(received, r)
    /\ \A r : Has(inbound', ReportQueued(r)) =>
         \/ Has(inbound, ReportQueued(r)) \/ Has(received', r) \/ PingInFlight(r)
    /\ \A r \in pinged' : r \in pinged \/ PingInFlight(r)
    /\ pc' = "acknowledge" =>
         /\ queue' = queue
         /\ pc = "acknowledge" \/ Has(inbound, ReportQueued(Head(queue)))

DeliveryInv ==
    /\ Typed /\ Spooled /\ PingsInv /\ FlightInv /\ LinkInv /\ ReportInv
    /\ HeldInv /\ OrderInv /\ InOrder

(* Without a release to install, in addition: no request but a call's is on *)
(* the link, nor an answer but its own, ...                                 *)
Owed(m) ==
    \/ m = Error /\ serverState[conn] = acknowledged
    \/ /\ Answers(m)
       /\ serverState[conn] = IF request.type = "state" THEN request.value ELSE acknowledged

Settled ==
    Connected =>
        IF request = Idle
        THEN inbound = <<>> /\ outbound[conn] = <<>> /\ serverState[conn] = acknowledged
        ELSE \/ /\ outbound[conn] = <<request>> /\ inbound = <<>>
                /\ serverState[conn] = acknowledged
             \/ outbound[conn] = <<>> /\ \E m \in Replies : inbound = <<m>> /\ Owed(m)

(* ... and the diagnostics show what is acknowledged.                       *)
ShownInv ==
    /\ pc \notin {"candidate", "poll", "slot", "granted", "quiesce", "handoff"}
    /\ observing => conn # None
    /\ pc = "pause" => ~observing
    /\ Connected =>
        /\ pc \notin {"pause", "observe"} => (observing <=> acknowledged = OBSERVING)
        /\ pc \in {"discard", "reports", "announce", "send", "report", "acknowledge"}
             => observing

LEMMA Limits ==
    /\ MaxReports \in Nat /\ MaxPings \in Nat /\ MaxExpired \in Nat /\ MaxUpdates \in Nat
    /\ MaxPerTick \in Nat \ {0} /\ MaxPendingPings \in Nat \ {0}
    /\ None \notin Links
BY DeliveryAssumption DEF DeliveryAssumption

LEMMA Vocabulary ==
    /\ StateMessage(PAUSED) \in Requests /\ StateMessage(OBSERVING) \in Requests
    /\ UpdateReady \in Requests
    /\ \A r \in Nat : EventReport(r) \in Requests /\ ChatPingReport(r) \in Requests
    /\ \A s \in {PAUSED, OBSERVING} : StateUpdated(s) \in Replies
    /\ \A r \in Nat : ReportQueued(r) \in Replies
    /\ UpdateSlot(DENIED) \in Replies /\ UpdateSlot(GRANTED) \in Replies
    /\ Error \in Replies /\ Failed \in Replies
    /\ <<>> \in Seq(Replies) /\ <<>> \in Seq(Requests) /\ <<>> \in Seq(Nat)
BY DEF Requests, Replies, Message, StateMessage, UpdateReady, EventReport, ChatPingReport,
       StateUpdated, ReportQueued, UpdateSlot, Error, Failed, PAUSED, OBSERVING, DENIED, GRANTED

(* The requests differ from one another and from none.                      *)
LEMMA Distinct ==
    /\ StateMessage(PAUSED) # Idle /\ StateMessage(OBSERVING) # Idle /\ UpdateReady # Idle
    /\ StateMessage(PAUSED) # StateMessage(OBSERVING)
    /\ \A r : /\ EventReport(r) # Idle /\ ChatPingReport(r) # Idle
            /\ EventReport(r).type = "report" /\ EventReport(r).value = r
            /\ ChatPingReport(r).type = "ping" /\ ChatPingReport(r).value = r
            /\ StateMessage(r).type = "state" /\ StateMessage(r).value = r
    /\ UpdateReady.type = "ready" /\ Idle.type = "idle"
    /\ PAUSED # OBSERVING
BY DEF Message, StateMessage, UpdateReady, EventReport, ChatPingReport, Idle, PAUSED, OBSERVING

(* Writing a message to a link in use.                                      *)
LEMMA WriteTyped ==
    ASSUME ClientTyped, Connected, NEW m \in Requests,
           outbound' = [outbound EXCEPT ![conn] = Append(@, m)]
    PROVE  outbound' \in [Links -> Seq(Requests)]
<1>1. conn \in Links /\ outbound[conn] \in Seq(Requests)
  BY DEF ClientTyped, Connected
<1>2. Append(outbound[conn], m) \in Seq(Requests)
  BY <1>1
<1> QED
  BY <1>1, <1>2 DEF ClientTyped

LEMMA SendTyped ==
    ASSUME ClientTyped, NEW m \in Requests, Send(m)
    PROVE  ClientTyped'
<1>1. outbound' \in [Links -> Seq(Requests)]
  BY WriteTyped DEF Send
<1> QED
  BY <1>1 DEF ClientTyped, Send

LEMMA DroppedTyped ==
    ASSUME ClientTyped, Dropped, UNCHANGED serverState, UNCHANGED calm,
           outbound' \in [Links -> Seq(Requests)]
    PROVE  ClientTyped'
BY Vocabulary DEF ClientTyped, Dropped

LEMMA PauseThenTyped ==
    ASSUME ClientTyped, NEW step, PauseThen(step)
    PROVE  ClientTyped'
<1>1. CASE UNCHANGED <<client, service, calm>>
  BY <1>1 DEF ClientTyped, client, service
<1>2. CASE Dropped /\ UNCHANGED <<service, calm>>
  BY <1>2, DroppedTyped DEF ClientTyped, service
<1>3. CASE Send(StateMessage(PAUSED))
  BY <1>3, SendTyped, Vocabulary
<1> QED
  BY <1>1, <1>2, <1>3 DEF PauseThen

LEMMA ReplyTyped ==
    ASSUME ClientTyped, NEW c, NEW m \in Replies, Reply(c, m)
    PROVE  inbound' \in Seq(Replies)
BY DEF Reply, ClientTyped

LEMMA ServeTyped ==
    ASSUME ClientTyped, NEW c \in Links, Serve(c)
    PROVE  ClientTyped'
<1> DEFINE m == Head(outbound[c])
<1>1. m \in Requests /\ outbound[c] # <<>> /\ Tail(outbound[c]) \in Seq(Requests)
  BY DEF ClientTyped, Serve
<1>2. outbound' \in [Links -> Seq(Requests)]
  BY <1>1 DEF ClientTyped, Serve
<1>3. m.type = "state" => m.value \in {PAUSED, OBSERVING}
  BY <1>1 DEF Requests
<1>4. m.type \in {"report", "ping"} => m.value \in Nat
  BY <1>1 DEF Requests
<1> HIDE DEF m
<1>5. inbound' \in Seq(Replies)
  <2>1. CASE ServeState(c, m)
    BY <2>1, <1>3, ReplyTyped, Vocabulary DEF ServeState
  <2>2. CASE ServeReport(c, m)
    BY <2>2, <1>4, ReplyTyped, Vocabulary DEF ServeReport
  <2>3. CASE ServePing(c, m)
    BY <2>3, <1>4, ReplyTyped, Vocabulary DEF ServePing
  <2>4. CASE ServeUpdateReady(c, m) \/ ServeError(c)
    BY <2>4, ReplyTyped, Vocabulary DEF ServeUpdateReady, ServeError
  <2> QED
    BY <2>1, <2>2, <2>3, <2>4 DEF Serve, m
<1>6. serverState' \in [Links -> {PAUSED, OBSERVING}]
  BY <1>3 DEF Serve, ServeState, ServeReport, ServePing, ServeUpdateReady, ServeError,
              ClientTyped, m
<1> QED
  BY <1>2, <1>5, <1>6 DEF ClientTyped, Serve

LEMMA LinkFailsTyped ==
    ASSUME ClientTyped, LinkFails
    PROVE  ClientTyped'
<1>1. inbound \in Seq(Replies) /\ Failed \in Replies
  BY Vocabulary DEF ClientTyped
<1>2. \A n \in 0 .. Len(inbound) : Append(SubSeq(inbound, 1, n), Failed) \in Seq(Replies)
  BY <1>1
<1> QED
  BY <1>2 DEF ClientTyped, LinkFails, service

LEMMA ForgetWorker ==
    ASSUME Forget
    PROVE  WorkerTyped'
<1>1. pc' = "down" /\ resume' = "tick" /\ batch' = 0 /\ mode' = "unknown"
  BY DEF Forget
<1>2. pc' \in Steps /\ batch' \in 0 .. MaxPerTick
  BY <1>1, Limits DEF Steps
<1>3. resume' \in {"tick", "connect", "read", "session", "pings", "update"}
  BY <1>1
<1>4. mode' \in {"unknown", "master_sword", "other"}
  BY <1>1
<1>5. pc' \notin {"announce", "send", "report", "acknowledge", "pinged"}
  BY <1>1
<1>6. /\ confirmed' \in BOOLEAN /\ observing' \in BOOLEAN /\ pending' \in BOOLEAN
      /\ manual' \in BOOLEAN /\ hadPending' \in BOOLEAN /\ wanted' \in BOOLEAN
  BY DEF Forget
<1> QED
  BY <1>2, <1>3, <1>4, <1>5, <1>6 DEF WorkerTyped

LEMMA AnsweredTyped ==
    ASSUME ClientTyped, Answered
    PROVE  ClientTyped'
<1>1. request.type = "state" => request.value \in {PAUSED, OBSERVING}
  BY Distinct DEF ClientTyped, Requests
<1>2. Idle \in Requests \union {Idle} /\ Tail(inbound) \in Seq(Replies)
  BY DEF ClientTyped, Answered, Waiting
<1> QED
  BY <1>1, <1>2 DEF ClientTyped, Answered, service

-----------------------------------------------------------------------------
(* What the spool's operations leave in a queue.                            *)
LEMMA SuffixProperties ==
    ASSUME NEW s \in Seq(Nat), NEW n \in 0 .. Len(s)
    PROVE  LET t == SubSeq(s, n + 1, Len(s)) IN
           /\ t \in Seq(Nat)
           /\ Len(t) = Len(s) - n
           /\ \A i \in 1 .. Len(t) : i + n \in 1 .. Len(s) /\ t[i] = s[i + n]
<1>1. Len(s) \in Nat /\ \A i \in 1 .. Len(s) : s[i] \in Nat
  BY LenProperties, ElementOfSeq
<1> QED
  BY <1>1

LEMMA NotExpiredProperties ==
    ASSUME NEW s \in Seq(Nat), expired \in Nat
    PROVE  \E n \in 0 .. Len(s) :
             /\ NotExpired(s) = SubSeq(s, n + 1, Len(s))
             /\ \A i \in 1 .. n : s[i] <= expired
<1>1. Len(s) \in Nat /\ \A i \in 1 .. Len(s) : s[i] \in Nat
  BY LenProperties, ElementOfSeq
<1> DEFINE T == {n \in 0 .. Len(s) : n < Len(s) => s[n + 1] > expired}
<1>2. Len(s) \in T /\ T \subseteq Nat
  BY <1>1
<1>3. PICK n \in T : \A m \in T : ~ (<<m, n>> \in OpToRel(<, Nat))
  BY <1>2, WFMin, NatLessThanWellFounded
<1>4. \A m \in T : ~ (m < n)
  BY <1>2, <1>3 DEF OpToRel
<1>5. ASSUME NEW i \in 1 .. n
      PROVE  s[i] <= expired
  <2>1. i - 1 \in 0 .. Len(s) /\ i - 1 < n /\ (i - 1) + 1 = i /\ s[i] \in Nat
    BY <1>1, <1>2
  <2>2. i - 1 \notin T
    BY <1>4, <2>1
  <2> QED
    BY <2>1, <2>2
<1> DEFINE P(m) == /\ \A i \in 1 .. m : s[i] <= expired
                   /\ m < Len(s) => s[m + 1] > expired
<1>6. n \in 0 .. Len(s) /\ P(n)
  BY <1>5
<1> DEFINE old == CHOOSE m \in 0 .. Len(s) : P(m)
<1>7. old \in 0 .. Len(s) /\ P(old)
  BY <1>6
<1>8. NotExpired(s) = SubSeq(s, old + 1, Len(s))
  BY DEF NotExpired
<1> QED
  BY <1>7, <1>8

LEMMA DiscardKeeps ==
    ASSUME NEW s \in Seq(Nat), expired \in Nat
    PROVE  /\ NotExpired(s) \in Seq(Nat)
           /\ Increasing(s) => Increasing(NotExpired(s))
           /\ \A r : Has(NotExpired(s), r) => Has(s, r)
           /\ \A r : Has(s, r) => Has(NotExpired(s), r) \/ r <= expired
<1>1. PICK n \in 0 .. Len(s) : /\ NotExpired(s) = SubSeq(s, n + 1, Len(s))
                              /\ \A i \in 1 .. n : s[i] <= expired
  BY NotExpiredProperties
<1> DEFINE t == NotExpired(s)
<1>2. /\ t \in Seq(Nat) /\ Len(t) = Len(s) - n
      /\ \A i \in 1 .. Len(t) : i + n \in 1 .. Len(s) /\ t[i] = s[i + n]
  BY <1>1, SuffixProperties
<1>3. Len(s) \in Nat
  BY LenProperties
<1> HIDE DEF t
<1>4. ASSUME Increasing(s) PROVE Increasing(t)
  <2>1. ASSUME NEW i \in 1 .. Len(t), NEW j \in 1 .. Len(t), i < j
        PROVE  t[i] < t[j]
    <3>1. i + n \in 1 .. Len(s) /\ j + n \in 1 .. Len(s) /\ i + n < j + n
      BY <1>2, <1>3, <2>1
    <3> QED
      BY <1>2, <1>4, <3>1 DEF Increasing
  <2> QED
    BY <2>1 DEF Increasing
<1>5. \A r : Has(t, r) => Has(s, r)
  BY <1>2 DEF Has
<1>6. ASSUME NEW i \in 1 .. Len(s), i \notin 1 .. n
      PROVE  Has(t, s[i])
  <2>1. i - n \in 1 .. Len(t) /\ (i - n) + n = i
    BY <1>2, <1>3, <1>6
  <2>2. t[i - n] = s[i]
    BY <1>2, <2>1
  <2> QED
    BY <2>1, <2>2 DEF Has
<1>7. \A r : Has(s, r) => Has(t, r) \/ r <= expired
  BY <1>1, <1>6 DEF Has
<1> QED
  BY <1>2, <1>4, <1>5, <1>7 DEF t

LEMMA TailKeeps ==
    ASSUME NEW s \in Seq(Nat), s # <<>>
    PROVE  /\ Tail(s) \in Seq(Nat)
           /\ Head(s) \in Nat /\ Has(s, Head(s))
           /\ Increasing(s) =>
                Increasing(Tail(s)) /\ \A r : Has(s, r) => Head(s) <= r
           /\ \A r : Has(Tail(s), r) => Has(s, r)
           /\ \A r : Has(s, r) => Has(Tail(s), r) \/ r = Head(s)
<1>1. Len(s) \in Nat /\ Len(s) # 0 /\ Head(s) = s[1] /\ \A i \in 1 .. Len(s) : s[i] \in Nat
  BY EmptySeq, LenProperties, ElementOfSeq
<1> DEFINE t == Tail(s)
<1>2. /\ t \in Seq(Nat) /\ Len(t) = Len(s) - 1
      /\ \A i \in 1 .. Len(t) : i + 1 \in 1 .. Len(s) /\ t[i] = s[i + 1]
  BY <1>1, HeadTailProperties
<1> HIDE DEF t
<1>3. ASSUME Increasing(s) PROVE Increasing(t)
  <2>1. ASSUME NEW i \in 1 .. Len(t), NEW j \in 1 .. Len(t), i < j
        PROVE  t[i] < t[j]
    <3>1. i + 1 \in 1 .. Len(s) /\ j + 1 \in 1 .. Len(s) /\ i + 1 < j + 1
      BY <1>1, <1>2, <2>1
    <3> QED
      BY <1>2, <1>3, <3>1 DEF Increasing
  <2> QED
    BY <2>1 DEF Increasing
<1>4. Increasing(s) => \A r : Has(s, r) => Head(s) <= r
  BY <1>1 DEF Increasing, Has
<1>5. ASSUME NEW i \in 2 .. Len(s)
      PROVE  Has(t, s[i])
  <2>1. i - 1 \in 1 .. Len(t) /\ (i - 1) + 1 = i
    BY <1>1, <1>2
  <2>2. t[i - 1] = s[i]
    BY <1>2, <2>1
  <2> QED
    BY <2>1, <2>2 DEF Has
<1>6. \A r : Has(t, r) => Has(s, r)
  BY <1>2 DEF Has
<1>7. \A r : Has(s, r) => Has(t, r) \/ r = Head(s)
  BY <1>1, <1>5 DEF Has
<1>8. Head(s) \in Nat /\ Has(s, Head(s))
  BY <1>1 DEF Has
<1> QED
  BY <1>2, <1>3, <1>4, <1>6, <1>7, <1>8 DEF t

LEMMA AppendKeeps ==
    ASSUME NEW s \in Seq(Nat), NEW e \in Nat
    PROVE  /\ Append(s, e) \in Seq(Nat)
           /\ Len(Append(s, e)) = Len(s) + 1
           /\ Increasing(s) /\ (\A r : Has(s, r) => r < e) => Increasing(Append(s, e))
           /\ \A r : Has(Append(s, e), r) <=> Has(s, r) \/ r = e
<1> DEFINE t == Append(s, e)
<1>1. Len(s) \in Nat /\ \A i \in 1 .. Len(s) : s[i] \in Nat
  BY LenProperties, ElementOfSeq
<1>2. /\ t \in Seq(Nat) /\ Len(t) = Len(s) + 1 /\ t[Len(s) + 1] = e
      /\ \A i \in 1 .. Len(s) : t[i] = s[i]
  BY AppendProperties
<1> HIDE DEF t
<1>3. ASSUME Increasing(s), \A r : Has(s, r) => r < e
      PROVE  Increasing(t)
  <2>1. ASSUME NEW i \in 1 .. Len(t), NEW j \in 1 .. Len(t), i < j
        PROVE  t[i] < t[j]
    <3>1. i \in 1 .. Len(s) /\ (j \in 1 .. Len(s) \/ j = Len(s) + 1)
      BY <1>1, <1>2, <2>1, SMTT(30)
    <3>2. s[i] < e
      BY <1>3, <3>1 DEF Has
    <3> QED
      BY <1>2, <1>3, <2>1, <3>1, <3>2 DEF Increasing
  <2> QED
    BY <2>1 DEF Increasing
<1>4. \A r : Has(t, r) <=> Has(s, r) \/ r = e
  BY <1>1, <1>2, SMTT(30) DEF Has
<1> QED
  BY <1>2, <1>3, <1>4 DEF t

(* What the service queues is the report at the head of a link.             *)
LEMMA ServeReceives ==
    ASSUME ClientTyped, received \in Seq(Nat), NEW c \in Links, Serve(c)
    PROVE  LET m == Head(outbound[c]) IN
           /\ m \in Requests
           /\ \/ received' = received
              \/ /\ m.type = "report" /\ m.value \in Nat
                 /\ ~Has(received, m.value)
                 /\ received' = Append(received, m.value)
           /\ received' \in Seq(Nat)
<1> DEFINE m == Head(outbound[c])
<1>1. m \in Requests
  BY DEF ClientTyped, Serve
<1>2. m.type = "report" => m.value \in Nat
  BY <1>1 DEF Requests
<1>3. DOMAIN received = 1 .. Len(received)
  BY LenProperties
<1> HIDE DEF m
<1>4. \/ received' = received
      \/ /\ m.type = "report" /\ ~Has(received, m.value)
         /\ received' = Append(received, m.value)
  BY <1>3 DEF Serve, ServeState, ServeReport, ServePing, ServeUpdateReady, ServeError, Queue,
              Has, m
<1>5. received' \in Seq(Nat)
  BY <1>2, <1>4
<1> QED
  BY <1>1, <1>2, <1>4, <1>5 DEF m

-----------------------------------------------------------------------------
(* What is on a link after a message was written to it or taken from it.    *)
LEMMA HasAppend ==
    ASSUME NEW S, NEW s \in Seq(S), NEW e \in S
    PROVE  \A m : Has(Append(s, e), m) <=> Has(s, m) \/ m = e
<1> DEFINE t == Append(s, e)
<1>1. Len(s) \in Nat
  BY LenProperties
<1>2. /\ Len(t) = Len(s) + 1 /\ t[Len(s) + 1] = e
      /\ \A i \in 1 .. Len(s) : t[i] = s[i]
  BY AppendProperties
<1> HIDE DEF t
<1>3. \A m : Has(t, m) <=> Has(s, m) \/ m = e
  BY <1>1, <1>2 DEF Has
<1> QED
  BY <1>3 DEF t

LEMMA HasTail ==
    ASSUME NEW S, NEW s \in Seq(S), s # <<>>
    PROVE  /\ Has(s, Head(s))
           /\ \A m : Has(Tail(s), m) => Has(s, m)
<1>1. Len(s) \in Nat /\ Len(s) # 0 /\ Head(s) = s[1]
  BY EmptySeq, LenProperties
<1> DEFINE t == Tail(s)
<1>2. /\ Len(t) = Len(s) - 1
      /\ \A i \in 1 .. Len(t) : i + 1 \in 1 .. Len(s) /\ t[i] = s[i + 1]
  BY <1>1, HeadTailProperties
<1> HIDE DEF t
<1>3. \A m : Has(t, m) => Has(s, m)
  BY <1>2 DEF Has
<1>4. Has(s, Head(s))
  BY <1>1 DEF Has
<1> QED
  BY <1>3, <1>4 DEF t

LEMMA HasPrefix ==
    ASSUME NEW S, NEW s \in Seq(S), NEW n \in 0 .. Len(s)
    PROVE  \A m : Has(SubSeq(s, 1, n), m) => Has(s, m)
<1> DEFINE t == SubSeq(s, 1, n)
<1>1. Len(s) \in Nat /\ \A i \in 1 .. Len(s) : s[i] \in S
  BY LenProperties, ElementOfSeq
<1>2. Len(t) = n /\ \A i \in 1 .. n : t[i] = s[i]
  BY <1>1
<1> HIDE DEF t
<1>3. \A m : Has(t, m) => Has(s, m)
  BY <1>1, <1>2 DEF Has
<1> QED
  BY <1>3 DEF t

LEMMA HasNone == \A m : ~Has(<<>>, m)
BY DEF Has

(* A failed update leaves what it has not read of the replies, or nothing.  *)
LEMMA UpdateFailsInbound ==
    ASSUME ClientTyped, UpdateFails
    PROVE  inbound' \in Seq(Replies) /\ \A m : Has(inbound', m) => Has(inbound, m)
<1>1. CASE hadPending
  <2>1. inbound' = <<>>
    BY <1>1 DEF UpdateFails, Dropped
  <2> QED
    BY <2>1, HasNone
<1>2. CASE ~hadPending
  <2>1. inbound \in Seq(Replies)
    BY DEF ClientTyped
  <2>2. CASE Waiting /\ Refuses(Head(inbound))
    <3>1. inbound # <<>> /\ inbound' = Tail(inbound)
      BY <1>2, <2>2 DEF UpdateFails, Waiting
    <3> QED
      BY <2>1, <3>1, HasTail, HeadTailProperties
  <2>3. CASE ~(Waiting /\ Refuses(Head(inbound)))
    <3>1. inbound' = inbound
      BY <1>2, <2>3 DEF UpdateFails
    <3> QED
      BY <2>1, <3>1
  <2> QED
    BY <2>2, <2>3
<1> QED
  BY <1>1, <1>2

(* A message written to the link in use.                                    *)
LEMMA WriteFlight ==
    ASSUME ClientTyped, Connected, NEW m \in Requests, NewRequest(m),
           outbound' = [outbound EXCEPT ![conn] = Append(@, m)]
    PROVE  \A c \in Links : \A n : Has(outbound'[c], n) => Has(outbound[c], n) \/ NewRequest(n)
<1>1. conn \in Links /\ outbound[conn] \in Seq(Requests)
  BY DEF ClientTyped, Connected
<1>2. \A n : Has(Append(outbound[conn], m), n) => Has(outbound[conn], n) \/ n = m
  BY <1>1, HasAppend
<1>3. \A c \in Links : outbound'[c] = IF c = conn THEN Append(outbound[conn], m)
                                                 ELSE outbound[c]
  BY <1>1 DEF ClientTyped
<1> QED
  BY <1>2, <1>3

LEMMA SendFlight ==
    ASSUME ClientTyped, NEW m \in Requests, NewRequest(m), Send(m), pc' # "acknowledge"
    PROVE  FlightChange
<1>1. \A c \in Links : \A n : Has(outbound'[c], n) => Has(outbound[c], n) \/ NewRequest(n)
  BY WriteFlight DEF Send
<1> QED
  BY <1>1 DEF FlightChange, Send

(* Nothing new is in flight.                                                *)
LEMMA QuietFlight ==
    ASSUME UNCHANGED outbound, UNCHANGED received, UNCHANGED pinged,
           inbound' = inbound \/ inbound' = <<>>,
           pc' = "acknowledge" => pc = "acknowledge" /\ queue' = queue
    PROVE  FlightChange
BY HasNone DEF FlightChange

LEMMA PauseThenFlight ==
    ASSUME ClientTyped, NEW step, PauseThen(step), step # "acknowledge"
    PROVE  FlightChange
<1>1. CASE UNCHANGED <<client, service>>
  <2>1. pc' # "acknowledge"
    BY DEF PauseThen
  <2> QED
    BY <1>1, <2>1, QuietFlight DEF client, service
<1>2. CASE Dropped /\ UNCHANGED service
  <2>1. pc' # "acknowledge"
    BY DEF PauseThen
  <2> QED
    BY <1>2, <2>1, QuietFlight DEF Dropped, service
<1>3. CASE Send(StateMessage(PAUSED)) /\ pc' = "pause"
  <2>1. NewRequest(StateMessage(PAUSED))
    BY Distinct DEF NewRequest
  <2> QED
    BY <1>3, <2>1, SendFlight, Vocabulary
<1> QED
  BY <1>1, <1>2, <1>3 DEF PauseThen

LEMMA AnsweredFlight ==
    ASSUME ClientTyped, Answered \/ IgnoreMessage,
           pc' = "acknowledge" =>
             /\ queue' = queue
             /\ pc = "acknowledge" \/ Has(inbound, ReportQueued(Head(queue)))
    PROVE  FlightChange
<1>1. inbound \in Seq(Replies) /\ inbound # <<>> /\ inbound' = Tail(inbound)
  BY DEF ClientTyped, Answered, IgnoreMessage, Waiting
<1>2. \A m : Has(inbound', m) => Has(inbound, m)
  BY <1>1, HasTail
<1> QED
  BY <1>2 DEF FlightChange, Answered, IgnoreMessage, service

(* The message at the head of a link is served.                             *)
LEMMA ServeFlight ==
    ASSUME ClientTyped, received \in Seq(Nat), NEW c \in Links, Serve(c), UNCHANGED pc,
           UNCHANGED queue
    PROVE  FlightChange
<1> DEFINE m == Head(outbound[c])
<1>1. m \in Requests /\ outbound[c] \in Seq(Requests) /\ outbound[c] # <<>>
  BY DEF ClientTyped, Serve
<1>2. Has(outbound[c], m) /\ \A n : Has(Tail(outbound[c]), n) => Has(outbound[c], n)
  BY <1>1, HasTail
<1>3. \A d \in Links : \A n : Has(outbound'[d], n) => Has(outbound[d], n)
  BY <1>2 DEF ClientTyped, Serve
<1> HIDE DEF m
<1>4. m.type = "report" => m = EventReport(m.value) /\ m.value \in Nat
  BY <1>1 DEF Requests, EventReport, Message
<1>5. m.type = "ping" => m = ChatPingReport(m.value)
  BY <1>1 DEF Requests, ChatPingReport, Message
<1>6. \/ received' = received
      \/ /\ m.type = "report" /\ ~Has(received, m.value)
         /\ received' = Append(received, m.value)
  BY ServeReceives DEF m
<1>7. \/ received' = received
      \/ \E r \in Nat : /\ InFlight(r) /\ ~Has(received, r)
                        /\ received' = Append(received, r)
  BY <1>2, <1>4, <1>6 DEF InFlight
<1>8. ASSUME NEW r, Has(inbound', ReportQueued(r))
      PROVE  Has(inbound, ReportQueued(r)) \/ Has(received', r) \/ PingInFlight(r)
  <2>1. \A n \in Replies : Reply(c, n) => n = ReportQueued(r) \/ Has(inbound, ReportQueued(r))
    <3>1. \A n \in Replies : \A k : Has(Append(inbound, n), k) <=> Has(inbound, k) \/ k = n
      BY HasAppend DEF ClientTyped
    <3> QED
      BY <1>8, <3>1 DEF Reply
  <2>2. CASE ServeState(c, m)
    <3>1. m.value \in {PAUSED, OBSERVING}
      BY <1>1, <2>2 DEF ServeState, Requests
    <3>2. StateUpdated(m.value) # ReportQueued(r)
      BY DEF StateUpdated, ReportQueued, Message
    <3> QED
      BY <2>1, <2>2, <3>1, <3>2, Vocabulary DEF ServeState
  <2>3. CASE ServeReport(c, m)
    <3>1. Error # ReportQueued(r)
      BY DEF Error, ReportQueued, Message
    <3>2. ReportQueued(m.value) = ReportQueued(r) => m.value = r
      BY DEF ReportQueued, Message
    <3>3. Queue(m.value) => Has(received', m.value)
      BY <1>4, <2>3, HasAppend, LenProperties DEF Queue, Has, ServeReport
    <3> QED
      BY <1>4, <2>1, <2>3, <3>1, <3>2, <3>3, Vocabulary DEF ServeReport
  <2>4. CASE ServePing(c, m)
    <3>1. m.value \in Nat
      BY <1>1, <2>4 DEF ServePing, Requests
    <3>2. ReportQueued(m.value) = ReportQueued(r) => m.value = r
      BY DEF ReportQueued, Message
    <3>3. PingInFlight(m.value)
      BY <1>2, <1>5, <2>4 DEF ServePing, PingInFlight
    <3> QED
      BY <2>1, <2>4, <3>1, <3>2, <3>3, Vocabulary DEF ServePing
  <2>5. CASE ServeUpdateReady(c, m) \/ ServeError(c)
    <3>1. /\ Error # ReportQueued(r) /\ UpdateSlot(DENIED) # ReportQueued(r)
          /\ UpdateSlot(GRANTED) # ReportQueued(r)
      BY DEF Error, UpdateSlot, ReportQueued, Message
    <3> QED
      BY <2>1, <2>5, <3>1, Vocabulary DEF ServeUpdateReady, ServeError
  <2> QED
    BY <2>2, <2>3, <2>4, <2>5 DEF Serve, m
<1>9. \A r \in pinged' : r \in pinged \/ PingInFlight(r)
  <2>1. pinged' = pinged \/ (m.type = "ping" /\ pinged' = pinged \union {m.value})
    BY DEF Serve, ServeState, ServeReport, ServePing, ServeUpdateReady, ServeError, m
  <2> QED
    BY <1>2, <1>5, <2>1 DEF PingInFlight
<1> QED
  BY <1>3, <1>7, <1>8, <1>9 DEF FlightChange

LEMMA LostFlight ==
    ASSUME ClientTyped, NEW c \in Links, LoseInFlight(c), UNCHANGED pc, UNCHANGED queue
    PROVE  FlightChange
<1>1. \A d \in Links : outbound'[d] \in {outbound[d], <<>>}
  BY DEF ClientTyped, LoseInFlight
<1> QED
  BY <1>1, HasNone DEF FlightChange, LoseInFlight, client

LEMMA BrokenFlight ==
    ASSUME ClientTyped, LinkFails, UNCHANGED pc, UNCHANGED queue
    PROVE  FlightChange
<1>1. PICK n \in 0 .. Len(inbound) : inbound' = Append(SubSeq(inbound, 1, n), Failed)
  BY DEF LinkFails
<1>2. inbound \in Seq(Replies) /\ SubSeq(inbound, 1, n) \in Seq(Replies)
  BY DEF ClientTyped
<1>3. \A m : Has(inbound', m) => Has(inbound, m) \/ m = Failed
  <2>1. \A m : Has(SubSeq(inbound, 1, n), m) => Has(inbound, m)
    BY <1>2, HasPrefix
  <2>2. \A m : Has(inbound', m) <=> Has(SubSeq(inbound, 1, n), m) \/ m = Failed
    <3>1. Failed \in Replies
      BY Vocabulary
    <3> QED
      BY <1>1, <1>2, <3>1, HasAppend, ZenonT(40)
  <2> QED
    BY <2>1, <2>2
<1>4. \A r : ReportQueued(r) # Failed
  BY DEF ReportQueued, Failed, Message
<1> QED
  BY <1>3, <1>4 DEF FlightChange, LinkFails, service

LEMMA QuietSpool ==
    ASSUME UNCHANGED stored, UNCHANGED accepted, UNCHANGED issued,
           expired' \in {expired, expired + 1}, pinging' \in {pinging, pinging + 1}
    PROVE  SpoolChange
BY DEF SpoolChange

-----------------------------------------------------------------------------
(* What is sent was sent before, or is the first report on disk.            *)
LEMMA SentChange ==
    ASSUME Typed, Spooled, FlightChange
    PROVE  /\ \A r : Has(received, r) => Has(received', r)
           /\ \A r : Has(received', r) => Sent(r)
           /\ \A r : InFlight(r)' =>
                InFlight(r) \/ (Has(stored, r) /\ \A q : Has(stored, q) => r <= q)
           /\ \A r : PingInFlight(r)' => PingInFlight(r) \/ Has(pings, r)
<1>1. \A e \in Nat : \A r : Has(Append(received, e), r) <=> Has(received, r) \/ r = e
  BY HasAppend DEF Typed, QueuesTyped
<1>2. \A r : Has(received, r) => Has(received', r)
  BY <1>1 DEF FlightChange
<1>3. \A r : Has(received', r) => Sent(r)
  BY <1>1 DEF FlightChange, Sent
<1>4. ASSUME NEW r, NEW c \in Links, Has(outbound'[c], EventReport(r)),
             ~Has(outbound[c], EventReport(r))
      PROVE  Has(stored, r) /\ \A q : Has(stored, q) => r <= q
  <2>1. NewRequest(EventReport(r))
    BY <1>4 DEF FlightChange
  <2>2. EventReport(r).type = "report" /\ EventReport(r).value = r
    BY Distinct
  <2>3. pc = "send" /\ EventReport(r) = EventReport(Head(queue))
    BY <2>1, <2>2, Distinct DEF NewRequest
  <2>4. r = Head(queue)
    BY <2>2, <2>3, Distinct
  <2>5. queue = stored /\ stored # <<>> /\ stored \in Seq(Nat)
    BY <2>3 DEF Typed, QueuesTyped, Spooled
  <2> QED
    BY <2>4, <2>5, TailKeeps DEF Spooled
<1>5. ASSUME NEW r, NEW c \in Links, Has(outbound'[c], ChatPingReport(r)),
             ~Has(outbound[c], ChatPingReport(r))
      PROVE  Has(pings, r)
  <2>1. NewRequest(ChatPingReport(r))
    BY <1>5 DEF FlightChange
  <2>2. ChatPingReport(r).type = "ping" /\ ChatPingReport(r).value = r
    BY Distinct
  <2>3. pings # <<>> /\ ChatPingReport(r) = ChatPingReport(Head(pings))
    BY <2>1, <2>2, Distinct DEF NewRequest
  <2>4. r = Head(pings)
    BY <2>2, <2>3, Distinct
  <2> QED
    BY <2>3, <2>4, TailKeeps DEF Typed, QueuesTyped
<1> QED
  BY <1>2, <1>3, <1>4, <1>5 DEF InFlight, PingInFlight

LEMMA RangeGrows ==
    ASSUME NEW m \in Nat, NEW a \in Nat, NEW b \in Nat, a <= b
    PROVE  \A r : r \in m + 1 .. m + a => r \in m + 1 .. m + b
OBVIOUS

LEMMA FlightInvStep ==
    ASSUME Typed, Typed', Spooled, PingsInv, FlightInv,
           FlightChange, SpoolChange
    PROVE  FlightInv'
<1>1. issued \in Nat /\ issued' \in {issued, issued + 1} /\ pinging \in Nat
      /\ pinging' \in {pinging, pinging + 1} /\ MaxReports \in Nat
  BY Limits DEF Typed, QueuesTyped, SpoolChange
<1>2. \A r : r \in 1 .. issued => r \in 1 .. issued'
  BY <1>1
<1>3. \A r : r \in MaxReports + 1 .. MaxReports + pinging =>
              r \in MaxReports + 1 .. MaxReports + pinging'
  <2>1. pinging' \in Nat /\ pinging <= pinging'
    BY <1>1
  <2> QED
    BY <1>1, <2>1, RangeGrows
<1>4. \A r : InFlight(r)' => r \in 1 .. issued'
  BY <1>2, SentChange DEF FlightInv, Spooled
<1>5. \A r : PingInFlight(r)' => r \in MaxReports + 1 .. MaxReports + pinging'
  BY <1>3, SentChange DEF FlightInv, PingsInv
<1>6. \A r : Has(received', r) => r \in 1 .. issued'
  BY <1>2, SentChange DEF FlightInv, Sent
<1>7. pinged' \subseteq MaxReports + 1 .. MaxReports + pinging'
  BY <1>3 DEF FlightInv, FlightChange
<1>8. \A r : Has(inbound', ReportQueued(r)) => r > MaxReports \/ Has(received', r)
  <2>1. \A r : PingInFlight(r) => r > MaxReports
    BY <1>1 DEF FlightInv
  <2> QED
    BY <2>1, SentChange DEF FlightInv, FlightChange
<1>9. ASSUME pc' = "acknowledge"
      PROVE  Has(received', Head(queue'))
  <2>1. queue' = queue
    BY <1>9 DEF FlightChange
  <2>2. CASE pc = "acknowledge"
    BY <2>1, <2>2, SentChange DEF FlightInv
  <2>3. CASE Has(inbound, ReportQueued(Head(queue)))
    <3>1. Has(received, Head(queue)) \/ Head(queue) > MaxReports
      BY <2>3 DEF FlightInv
    <3>2. Head(queue) \in 1 .. issued /\ issued <= MaxReports
      <4>1. queue # <<>> /\ queue \in Seq(Nat)
        BY <1>9, <2>1 DEF Typed, QueuesTyped
      <4>2. queue = stored
        BY <4>1 DEF Spooled
      <4>3. Has(stored, Head(queue))
        BY <4>1, <4>2, TailKeeps
      <4> QED
        BY <4>3, Limits, SMTT(30) DEF Spooled, Typed, QueuesTyped
    <3> QED
      BY <1>1, <2>1, <3>1, <3>2, SentChange
  <2> QED
    BY <1>9, <2>2, <2>3 DEF FlightChange
<1> QED
  BY <1>4, <1>5, <1>6, <1>7, <1>8, <1>9 DEF FlightInv

LEMMA HeldStep ==
    ASSUME Typed, Spooled, FlightInv, HeldInv, FlightChange, SpoolChange
    PROVE  HeldInv'
<1>1. issued \in Nat /\ issued' \in {issued, issued + 1} /\ expired \in Nat
      /\ expired' \in {expired, expired + 1}
  BY DEF Typed, QueuesTyped, SpoolChange
<1>2. ASSUME NEW r \in 1 .. issued', r \in accepted' \/ Sent(r)'
      PROVE  Has(stored', r) \/ Has(received', r) \/ r <= expired'
  <2>1. CASE r \in 1 .. issued /\ (r \in accepted \/ Sent(r))
    <3>1. Has(stored, r) \/ Has(received, r) \/ r <= expired
      BY <2>1 DEF HeldInv
    <3>2. Has(stored, r) => Has(stored', r) \/ Has(received, r) \/ r <= expired
      BY DEF SpoolChange
    <3> QED
      BY <1>1, <2>1, <3>1, <3>2, SentChange
  <2>2. CASE Has(stored, r)
    <3>1. r \in 1 .. issued
      BY <2>2 DEF Spooled
    <3>2. Has(stored', r) \/ Has(received, r) \/ r <= expired
      BY <2>2 DEF SpoolChange
    <3> QED
      BY <1>1, <3>1, <3>2, SentChange
  <2>3. CASE Has(stored', r)
    BY <2>3
  <2>4. r \in accepted' => r \in accepted \/ Has(stored', r)
    BY DEF SpoolChange
  <2>5. Sent(r)' => Sent(r) \/ Has(stored, r)
    BY SentChange DEF Sent
  <2>6. Sent(r) => r \in 1 .. issued
    BY DEF FlightInv, Sent
  <2>7. r \in accepted => r \in 1 .. issued
    BY DEF Spooled
  <2> QED
    BY <1>2, <2>1, <2>2, <2>3, <2>4, <2>5, <2>6, <2>7
<1> QED
  BY <1>2 DEF HeldInv

LEMMA OrderStep ==
    ASSUME Typed, Spooled, FlightInv, HeldInv, OrderInv, FlightChange, SpoolChange
    PROVE  OrderInv'
<1>1. issued \in Nat /\ issued' \in {issued, issued + 1} /\ expired \in Nat
      /\ expired' \in {expired, expired + 1}
  BY DEF Typed, QueuesTyped, SpoolChange
<1>2. \A r : Sent(r) \/ Has(stored, r) => r \in 1 .. issued
  BY DEF FlightInv, Sent, Spooled
<1>3. \A r : Sent(r)' => Sent(r) \/ (Has(stored, r) /\ \A q : Has(stored, q) => r <= q)
  BY SentChange DEF Sent
<1>4. \A r : Has(stored', r) => Has(stored, r) \/ r = issued + 1
  BY DEF SpoolChange
<1>5. ASSUME NEW x \in 1 .. issued', NEW r \in 1 .. issued', Sent(x)', r < x,
             Sent(r)' \/ Has(stored', r)
      PROVE  Has(received', r) \/ r <= expired'
  <2>1. x \in 1 .. issued
    BY <1>2, <1>3, <1>5
  <2>2. r \in 1 .. issued /\ r # issued + 1
    BY <1>1, <1>5, <2>1
  <2>3. Sent(r) \/ Has(stored, r)
    BY <1>3, <1>4, <1>5, <2>2
  <2>4. Has(received, r) \/ r <= expired
    <3>1. CASE Sent(x)
      BY <1>5, <2>1, <2>2, <2>3, <3>1 DEF OrderInv
    <3>2. CASE \A q : Has(stored, q) => x <= q
      <4>1. ~Has(stored, r)
        BY <1>1, <1>5, <2>1, <2>2, <3>2
      <4>2. Has(stored, r) \/ Has(received, r) \/ r <= expired
        BY <2>2, <2>3, <4>1 DEF HeldInv
      <4> QED
        BY <4>1, <4>2
    <3> QED
      BY <1>3, <1>5, <3>1, <3>2
  <2> QED
    BY <1>1, <2>2, <2>4, SentChange
<1> QED
  BY <1>5 DEF OrderInv

LEMMA InOrderStep ==
    ASSUME Typed, FlightInv, OrderInv, InOrder, FlightChange, SpoolChange
    PROVE  InOrder'
<1>1. /\ expired \in Nat /\ expired' \in {expired, expired + 1} /\ received \in Seq(Nat)
      /\ issued \in Nat
  BY DEF Typed, QueuesTyped, SpoolChange
<1>2. Len(received) \in Nat /\ DOMAIN received = 1 .. Len(received)
      /\ \A i \in 1 .. Len(received) : received[i] \in Nat
  BY <1>1, LenProperties, ElementOfSeq
<1>3. CASE received' = received
  BY <1>1, <1>2, <1>3 DEF InOrder
<1>4. ASSUME NEW r \in Nat, InFlight(r), ~Has(received, r), received' = Append(received, r)
      PROVE  InOrder'
  <2>1. /\ DOMAIN received' = 1 .. Len(received) + 1 /\ received'[Len(received) + 1] = r
        /\ \A i \in 1 .. Len(received) : received'[i] = received[i]
    BY <1>1, <1>2, <1>4, AppendProperties
  <2>2. ASSUME NEW i \in DOMAIN received', NEW j \in DOMAIN received',
               i < j, received'[i] > received'[j]
        PROVE  received'[j] <= expired'
    <3>1. CASE j \in 1 .. Len(received)
      <4>1. i \in 1 .. Len(received)
        BY <1>2, <2>1, <2>2, <3>1
      <4>2. received[i] > received[j] /\ received[j] \in Nat
        BY <1>2, <2>1, <2>2, <3>1, <4>1
      <4>3. received[j] <= expired
        BY <1>2, <2>2, <3>1, <4>1, <4>2 DEF InOrder
      <4> QED
        BY <1>1, <2>1, <3>1, <4>2, <4>3
    <3>2. CASE j = Len(received) + 1
      <4>1. i \in 1 .. Len(received) /\ received'[i] = received[i] /\ received'[j] = r
        BY <1>2, <2>1, <2>2, <3>2
      <4>2. Has(received, received[i])
        BY <4>1 DEF Has
      <4>3. r \in 1 .. issued /\ received[i] \in 1 .. issued
        BY <1>4, <4>2 DEF FlightInv
      <4>4. r < received[i]
        BY <2>2, <4>1, <4>3
      <4>5. Has(received, r) \/ r <= expired
        BY <1>4, <4>2, <4>3, <4>4 DEF OrderInv, Sent
      <4> QED
        BY <1>1, <1>4, <4>1, <4>5
    <3> QED
      BY <1>2, <2>1, <2>2, <3>1, <3>2
  <2> QED
    BY <2>2 DEF InOrder
<1> QED
  BY <1>3, <1>4 DEF FlightChange

-----------------------------------------------------------------------------
(* What the steps of a call, of the service and of the link mean for the    *)
(* link in use.                                                             *)
LEMMA OnlyLastAppend ==
    ASSUME NEW S, NEW s \in Seq(S), NEW e \in S, NEW m, ~Has(s, m)
    PROVE  OnlyLast(Append(s, e), m)
<1> DEFINE t == Append(s, e)
<1>1. Len(s) \in Nat
  BY LenProperties
<1>2. /\ Len(t) = Len(s) + 1
      /\ \A i \in 1 .. Len(s) : t[i] = s[i]
  BY AppendProperties
<1> HIDE DEF t
<1>3. OnlyLast(t, m)
  BY <1>1, <1>2 DEF OnlyLast, Has
<1> QED
  BY <1>3 DEF t

LEMMA OnlyLastTail ==
    ASSUME NEW S, NEW s \in Seq(S), s # <<>>, NEW m, OnlyLast(s, m)
    PROVE  /\ OnlyLast(Tail(s), m)
           /\ Head(s) = m => Tail(s) = <<>>
<1>1. Len(s) \in Nat /\ Len(s) # 0 /\ Head(s) = s[1]
  BY EmptySeq, LenProperties
<1> DEFINE t == Tail(s)
<1>2. /\ t \in Seq(S) /\ Len(t) = Len(s) - 1
      /\ \A i \in 1 .. Len(t) : i + 1 \in 1 .. Len(s) /\ t[i] = s[i + 1]
  BY <1>1, HeadTailProperties
<1> HIDE DEF t
<1>3. OnlyLast(t, m)
  <2>1. ASSUME NEW i \in 1 .. Len(t), t[i] = m PROVE i = Len(t)
    <3>1. i + 1 = Len(s)
      BY <1>2, <2>1 DEF OnlyLast
    <3> QED
      BY <1>1, <1>2, <2>1, <3>1
  <2> QED
    BY <2>1 DEF OnlyLast
<1>4. ASSUME Head(s) = m PROVE t = <<>>
  <2>1. Len(s) = 1
    <3>1. 1 \in 1 .. Len(s) /\ s[1] = m
      BY <1>1, <1>4
    <3> QED
      BY <3>1 DEF OnlyLast
  <2> QED
    BY <1>2, <2>1, EmptySeq
<1> QED
  BY <1>3, <1>4 DEF t

LEMMA QuietLink ==
    ASSUME LinkInv, ReportInv,
           UNCHANGED <<conn, alive, acknowledged, inbound, outbound, serverState>>,
           request' = request \/ (request' = Idle /\ request # StateMessage(OBSERVING)),
           \/ pc' = pc
           \/ pc # "report" /\ pc' \notin {"send", "report", "handoff"}
           \/ pc # "report" /\ pc' = "handoff" /\ (conn = None \/ acknowledged = PAUSED)
    PROVE  LinkInv' /\ ReportInv'
<1>1. LinkInv'
  BY Distinct DEF LinkInv, Connected
<1>2. ReportInv'
  BY DEF ReportInv
<1> QED
  BY <1>1, <1>2

LEMMA TakenLink ==
    ASSUME LinkInv, ReportInv, request # StateMessage(OBSERVING), pc # "report",
           UNCHANGED <<conn, alive, acknowledged, outbound, serverState>>,
           \A m : Has(inbound', m) => Has(inbound, m),
           pc' = "tick"
    PROVE  LinkInv' /\ ReportInv'
<1>1. LinkInv'
  BY DEF LinkInv, Connected
<1>2. ReportInv'
  BY DEF ReportInv
<1> QED
  BY <1>1, <1>2

LEMMA DroppedLink ==
    ASSUME ReportInv, conn' = None, UNCHANGED outbound, UNCHANGED serverState
    PROVE  LinkInv' /\ ReportInv'
<1>1. None \notin Links
  BY Limits
<1> QED
  BY <1>1 DEF LinkInv, Connected, ReportInv

LEMMA ConnectLink ==
    ASSUME Typed, ReportInv, Connect, pc' = "read"
    PROVE  LinkInv' /\ ReportInv'
<1>1. PICK c \in Links : /\ outbound[c] = <<>> /\ conn' = c
                         /\ serverState' = [serverState EXCEPT ![c] = PAUSED]
  BY DEF Connect
<1>2. serverState'[c] = PAUSED /\ \A d \in Links \ {c} : serverState'[d] = serverState[d]
  BY <1>1 DEF Typed, ClientTyped
<1>3. LinkInv'
  BY <1>1, <1>2, HasNone, Distinct DEF LinkInv, Connect
<1>4. ReportInv'
  BY <1>1, <1>2, HasNone DEF ReportInv, Connect
<1> QED
  BY <1>3, <1>4

(* A message other than a report written to the link in use, with nothing   *)
(* awaited.                                                                 *)
LEMMA WriteLink ==
    ASSUME Typed, ReportInv, Connected, pc # "report",
           NEW m \in Requests, m.type # "report",
           outbound' = [outbound EXCEPT ![conn] = Append(@, m)],
           UNCHANGED serverState, conn' = conn \/ conn' = None
    PROVE  ReportInv'
<1>1. conn \in Links /\ outbound[conn] \in Seq(Requests)
  BY DEF Typed, ClientTyped, Connected
<1>2. \A r : EventReport(r) # m
  BY Distinct
<1>3. \A r : ~Has(outbound[conn], EventReport(r))
  BY <1>1 DEF ReportInv, Connected
<1>4. \A r : ~Has(outbound'[conn], EventReport(r))
  <2>1. outbound'[conn] = Append(outbound[conn], m)
    BY <1>1 DEF Typed, ClientTyped
  <2> QED
    BY <1>1, <1>2, <1>3, <2>1, HasAppend
<1>5. \A c \in Links : c # conn => outbound'[c] = outbound[c]
  BY <1>1 DEF Typed, ClientTyped
<1>6. \A c \in Links : c # conn => c # conn'
  BY Limits
<1> QED
  BY <1>4, <1>5, <1>6 DEF ReportInv

LEMMA SendLink ==
    ASSUME Typed, LinkInv, ReportInv, NEW m \in Requests, m.type # "report", Send(m),
           request = Idle, pc # "report", pc' \notin {"send", "report", "handoff"}
    PROVE  LinkInv' /\ ReportInv'
<1>1. conn \in Links /\ outbound[conn] \in Seq(Requests) /\ inbound \in Seq(Replies)
  BY DEF Typed, ClientTyped, Send, Connected
<1>2. ReportInv'
  BY WriteLink DEF Send
<1>3. outbound'[conn] = Append(outbound[conn], m)
  BY <1>1 DEF Typed, ClientTyped, Send
<1>4. ~Has(outbound[conn], StateMessage(OBSERVING)) /\ ~Has(inbound, StateUpdated(OBSERVING))
  BY Distinct DEF LinkInv, Send
<1>5. /\ Has(outbound'[conn], StateMessage(OBSERVING)) => m = StateMessage(OBSERVING)
      /\ OnlyLast(outbound'[conn], StateMessage(OBSERVING))
  BY <1>1, <1>3, <1>4, HasAppend, OnlyLastAppend
<1>6. /\ Has(inbound, StateUpdated(PAUSED)) => serverState[conn] = PAUSED
      /\ acknowledged = PAUSED => serverState[conn] = PAUSED
  BY Distinct DEF LinkInv, Send
<1>7. LinkInv'
  BY <1>4, <1>5, <1>6 DEF LinkInv, Connected, Send
<1> QED
  BY <1>2, <1>7

(* The report is sent on a link that is OBSERVING and owes nothing.         *)
LEMMA SendReportLink ==
    ASSUME Typed, LinkInv, ReportInv, SendReport
    PROVE  LinkInv' /\ ReportInv'
<1> DEFINE m == EventReport(Head(queue))
<1>1. /\ conn \in Links /\ Connected /\ Head(queue) \in Nat /\ m \in Requests
  BY Vocabulary DEF Typed, ClientTyped, QueuesTyped, SendReport, Send, Connected
<1>2. outbound[conn] = <<>> /\ inbound = <<>> /\ serverState[conn] = OBSERVING
  BY <1>1 DEF LinkInv, SendReport
<1>3. /\ outbound'[conn] = <<m>>
      /\ \A c \in Links : c # conn => outbound'[c] = outbound[c]
  BY <1>1, <1>2 DEF Typed, ClientTyped, SendReport, Send
<1>4. ~Has(<<m>>, StateMessage(OBSERVING)) /\ Len(<<m>>) = 1 /\ Tail(<<m>>) = <<>>
  BY Distinct DEF Has
<1>5. acknowledged # PAUSED
  BY <1>1, <1>2, Distinct DEF LinkInv, Typed, CallInv, SendReport
<1>6. /\ UNCHANGED <<conn, alive, acknowledged, inbound, serverState>>
      /\ pc' = "report"
  BY DEF SendReport, Send, Goto
<1> HIDE DEF m
<1>7. LinkInv'
  BY <1>1, <1>2, <1>3, <1>4, <1>5, <1>6, HasNone DEF LinkInv, Connected
<1>8. ReportInv'
  BY <1>1, <1>2, <1>3, <1>4, <1>6 DEF ReportInv
<1> QED
  BY <1>7, <1>8

(* The answer to an announcement leaves nothing on the link; the answer to  *)
(* a pause is true.                                                         *)
LEMMA AnsweredLink ==
    ASSUME Typed, LinkInv, ReportInv, Answered,
           \/ pc' \notin {"send", "report", "handoff"}
           \/ pc' = "send" /\ request = StateMessage(OBSERVING)
           \/ pc' = "handoff" /\ request = StateMessage(PAUSED)
    PROVE  LinkInv' /\ ReportInv'
<1>1. inbound \in Seq(Replies) /\ inbound # <<>> /\ inbound' = Tail(inbound)
  BY DEF Typed, ClientTyped, Answered, Waiting
<1>2. /\ Has(inbound, Head(inbound)) /\ \A m : Has(Tail(inbound), m) => Has(inbound, m)
  BY <1>1, HasTail
<1>3. /\ UNCHANGED <<conn, alive, outbound, serverState, received, pinged, calm>>
      /\ request' = Idle
  BY DEF Answered, service
<1>4. LinkInv'
  <2>1. SUFFICES ASSUME Connected PROVE LinkInv'
    BY <1>3 DEF LinkInv, Connected
  <2>2. CASE request = StateMessage(OBSERVING)
    <3>1. Head(inbound) = StateUpdated(OBSERVING)
      BY <2>2, Distinct DEF Answered, Answers
    <3>2. /\ OnlyLast(inbound, StateUpdated(OBSERVING))
          /\ outbound[conn] = <<>> /\ serverState[conn] = OBSERVING
      BY <1>2, <2>1, <3>1 DEF LinkInv
    <3>3. inbound' = <<>>
      BY <1>1, <3>1, <3>2, OnlyLastTail
    <3>4. acknowledged' = OBSERVING
      BY <2>2, Distinct DEF Answered
    <3>5. pc' # "handoff" /\ pc' # "report"
      BY <2>2, Distinct
    <3> QED
      BY <1>3, <3>2, <3>3, <3>4, <3>5, HasNone, Distinct DEF LinkInv
  <2>3. CASE request # StateMessage(OBSERVING)
    <3>1. ~Has(outbound[conn], StateMessage(OBSERVING))
          /\ ~Has(inbound, StateUpdated(OBSERVING))
      BY <2>1, <2>3 DEF LinkInv
    <3>2. Has(inbound, StateUpdated(PAUSED)) => serverState[conn] = PAUSED
      BY <2>1, <2>3 DEF LinkInv
    <3>3. acknowledged' = PAUSED => serverState[conn] = PAUSED
      <4>1. CASE request.type = "state"
        <5>1. request = StateMessage(PAUSED)
          BY <2>3, <4>1, Distinct
             DEF Typed, ClientTyped, Requests, StateMessage, Message
        <5>2. Head(inbound) = StateUpdated(PAUSED)
          BY <5>1, Distinct DEF Answered, Answers
        <5> QED
          BY <1>2, <3>2, <5>2
      <4>2. CASE request.type # "state"
        BY <2>1, <2>3, <4>2 DEF LinkInv, Answered
      <4> QED
        BY <4>1, <4>2
    <3>4. pc' = "handoff" => acknowledged' = PAUSED
      BY <2>3, Distinct DEF Answered
    <3>5. pc' # "send" /\ pc' # "report"
      BY <2>3
    <3> QED
      BY <1>1, <1>2, <1>3, <3>1, <3>2, <3>3, <3>4, <3>5, Distinct DEF LinkInv
  <2> QED
    BY <2>2, <2>3
<1>5. ReportInv'
  <2>1. ASSUME Connected, pc = "report" PROVE outbound[conn] = <<>>
    BY <1>1, <2>1 DEF LinkInv
  <2> QED
    BY <1>3, <2>1, HasNone, Limits DEF ReportInv, Connected
<1> QED
  BY <1>4, <1>5

LEMMA IgnoredLink ==
    ASSUME Typed, LinkInv, ReportInv, IgnoreMessage, UNCHANGED pc
    PROVE  LinkInv' /\ ReportInv'
<1>1. inbound \in Seq(Replies) /\ inbound # <<>> /\ inbound' = Tail(inbound)
  BY DEF Typed, ClientTyped, IgnoreMessage, Waiting
<1>2. \A m : Has(inbound', m) => Has(inbound, m)
  BY <1>1, HasTail
<1>3. OnlyLast(inbound, StateUpdated(OBSERVING)) => OnlyLast(inbound', StateUpdated(OBSERVING))
  BY <1>1, OnlyLastTail
<1>4. UNCHANGED <<conn, alive, acknowledged, request, outbound, serverState>>
  BY DEF IgnoreMessage, service
<1>5. LinkInv'
  <2>1. request # Idle
    BY DEF IgnoreMessage, Waiting
  <2>2. pc # "send"
    BY <2>1 DEF Typed, CallInv
  <2>3. Connected /\ pc = "report" => outbound[conn] = <<>>
    BY <1>1 DEF LinkInv
  <2> QED
    BY <1>2, <1>3, <1>4, <2>2, <2>3 DEF LinkInv, Connected
<1>6. ReportInv'
  BY <1>4 DEF ReportInv
<1> QED
  BY <1>5, <1>6

LEMMA BrokenLink ==
    ASSUME Typed, ReportInv, LinkFails, UNCHANGED pc
    PROVE  LinkInv' /\ ReportInv'
BY DEF LinkFails, LinkInv, Connected, ReportInv, service

LEMMA LostLink ==
    ASSUME Typed, LinkInv, ReportInv, NEW c \in Links, LoseInFlight(c), UNCHANGED pc
    PROVE  LinkInv' /\ ReportInv'
<1>1. /\ outbound'[c] = <<>> /\ \A d \in Links : d # c => outbound'[d] = outbound[d]
      /\ UNCHANGED <<conn, alive, acknowledged, request, inbound, serverState>>
      /\ c # conn \/ ~alive
  BY DEF Typed, ClientTyped, LoseInFlight, client
<1>2. Connected => conn \in Links /\ conn # c
  BY <1>1 DEF Typed, ClientTyped, Connected
<1>3. LinkInv'
  BY <1>1, <1>2 DEF LinkInv, Connected
<1>4. ReportInv'
  BY <1>1, HasNone DEF ReportInv
<1> QED
  BY <1>3, <1>4

LEMMA ServeLink ==
    ASSUME Typed, LinkInv, ReportInv, NEW c \in Links, Serve(c), UNCHANGED pc
    PROVE  LinkInv' /\ ReportInv'
<1> DEFINE m == Head(outbound[c])
<1>1. /\ m \in Requests /\ outbound[c] \in Seq(Requests) /\ outbound[c] # <<>>
      /\ inbound \in Seq(Replies)
  BY DEF Typed, ClientTyped, Serve
<1>2. Has(outbound[c], m) /\ \A n : Has(Tail(outbound[c]), n) => Has(outbound[c], n)
  BY <1>1, HasTail
<1>3. /\ outbound'[c] = Tail(outbound[c])
      /\ \A d \in Links : d # c => outbound'[d] = outbound[d]
      /\ UNCHANGED <<conn, alive, acknowledged, request, calm>>
  BY DEF Typed, ClientTyped, Serve
<1>4. \A d \in Links : d # c => serverState'[d] = serverState[d]
  BY DEF Typed, ClientTyped, Serve, ServeState, ServeReport, ServePing, ServeUpdateReady,
         ServeError
<1>5. ReportInv'
  <2>1. ASSUME NEW r PROVE ~Has(outbound'[c], EventReport(r))
    <3>1. ASSUME Has(outbound[c], EventReport(r)) PROVE Tail(outbound[c]) = <<>>
      <4>1. Len(outbound[c]) = 1
        BY <3>1 DEF ReportInv
      <4>2. Tail(outbound[c]) \in Seq(Requests) /\ Len(Tail(outbound[c])) = 0
        BY <1>1, <4>1, HeadTailProperties
      <4> QED
        BY <4>2, EmptySeq
    <3> QED
      BY <1>2, <1>3, <3>1, HasNone
  <2> QED
    BY <1>3, <1>4, <2>1 DEF ReportInv
<1>6. CASE ~(Connected /\ c = conn)
  <2>1. inbound' = inbound \/ ~Connected
    BY <1>6 DEF Serve, ServeState, ServeReport, ServePing, ServeUpdateReady, ServeError,
                Reply, Connected
  <2>2. Connected => conn \in Links /\ conn # c
    BY <1>6 DEF Typed, ClientTyped, Connected
  <2>3. LinkInv'
    BY <1>3, <1>4, <2>1, <2>2 DEF LinkInv, Connected
  <2> QED
    BY <1>5, <2>3
<1>7. CASE Connected /\ c = conn
  <2>1. pc # "send"
    BY <1>1, <1>7 DEF LinkInv
  <2>2. pc = "report" => outbound'[c] = <<>>
    BY <1>1, <1>3, <1>7 DEF LinkInv
  <2>3. ~Has(inbound, StateUpdated(OBSERVING))
    BY <1>1, <1>7 DEF LinkInv
  <2>4. PICK n \in Replies :
          /\ inbound' = Append(inbound, n)
          /\ \/ n.type # "updated" /\ serverState'[c] = serverState[c]
             \/ /\ m.type = "state" /\ n = StateUpdated(m.value)
                /\ serverState'[c] = m.value
    <3>1. ASSUME NEW n \in Replies, Reply(c, n) PROVE inbound' = Append(inbound, n)
      BY <1>7, <3>1 DEF Reply, Connected
    <3>2. CASE ServeState(c, m)
      <4>1. m.value \in {PAUSED, OBSERVING}
        BY <1>1, <3>2 DEF ServeState, Requests
      <4> QED
        BY <3>1, <3>2, <4>1, Vocabulary DEF ServeState, Typed, ClientTyped
    <3>3. CASE ServeReport(c, m) \/ ServePing(c, m)
      <4>1. m.value \in Nat
        BY <1>1, <3>3 DEF ServeReport, ServePing, Requests
      <4>2. ReportQueued(m.value).type # "updated" /\ Error.type # "updated"
        BY DEF ReportQueued, Error, Message
      <4> QED
        BY <3>1, <3>3, <4>1, <4>2, Vocabulary DEF ServeReport, ServePing
    <3>4. CASE ServeUpdateReady(c, m) \/ ServeError(c)
      <4>1. /\ UpdateSlot(DENIED).type # "updated" /\ UpdateSlot(GRANTED).type # "updated"
            /\ Error.type # "updated"
        BY DEF UpdateSlot, Error, Message
      <4> QED
        BY <3>1, <3>4, <4>1, Vocabulary DEF ServeUpdateReady, ServeError
    <3> QED
      BY <3>2, <3>3, <3>4 DEF Serve
  <2>5. \A k : Has(inbound', k) <=> Has(inbound, k) \/ k = n
    BY <1>1, <2>4, HasAppend
  <2>6. /\ Has(outbound'[c], StateMessage(OBSERVING)) =>
             /\ request = StateMessage(OBSERVING)
             /\ OnlyLast(outbound'[c], StateMessage(OBSERVING))
        /\ m = StateMessage(OBSERVING) =>
             request = StateMessage(OBSERVING) /\ outbound'[c] = <<>>
    <3>1. Has(outbound[c], StateMessage(OBSERVING)) =>
            /\ request = StateMessage(OBSERVING)
            /\ OnlyLast(outbound[c], StateMessage(OBSERVING))
      BY <1>7 DEF LinkInv
    <3> QED
      BY <1>1, <1>2, <1>3, <3>1, OnlyLastTail
  <2>7. pc = "handoff" => acknowledged = PAUSED
    BY <1>7 DEF LinkInv
  <2>8. CASE n.type # "updated" /\ serverState'[c] = serverState[c]
    <3>1. n # StateUpdated(OBSERVING) /\ n # StateUpdated(PAUSED)
      BY <2>8 DEF StateUpdated, Message
    <3> QED
      BY <1>3, <1>5, <1>7, <2>1, <2>2, <2>3, <2>5, <2>6, <2>7, <2>8, <3>1 DEF LinkInv
  <2>9. CASE m = StateMessage(OBSERVING) /\ n = StateUpdated(OBSERVING)
             /\ serverState'[c] = OBSERVING
    <3>1. OnlyLast(inbound', StateUpdated(OBSERVING))
      BY <1>1, <2>3, <2>4, OnlyLastAppend
    <3> QED
      BY <1>3, <1>5, <1>7, <2>1, <2>2, <2>6, <2>7, <2>9, <3>1, HasNone DEF LinkInv
  <2>10. CASE m = StateMessage(PAUSED) /\ n = StateUpdated(PAUSED) /\ serverState'[c] = PAUSED
    <3>1. n # StateUpdated(OBSERVING)
      BY <2>10, Distinct DEF StateUpdated, Message
    <3> QED
      BY <1>3, <1>5, <1>7, <2>1, <2>2, <2>3, <2>5, <2>6, <2>7, <2>10, <3>1 DEF LinkInv
  <2>11. m.type = "state" => m \in {StateMessage(PAUSED), StateMessage(OBSERVING)}
    BY <1>1 DEF Requests, StateMessage, Message
  <2> QED
    BY <2>4, <2>8, <2>9, <2>10, <2>11, Distinct
<1> QED
  BY <1>6, <1>7

-----------------------------------------------------------------------------
(* The link in use while there is no release to install.                    *)
LEMMA QuietSettled ==
    ASSUME Settled,
           UNCHANGED <<conn, alive, acknowledged, request, inbound, outbound, serverState>>
    PROVE  Settled'
BY DEF Settled, Connected, Owed, Answers

LEMMA DroppedSettled ==
    ASSUME conn' = None
    PROVE  Settled'
BY DEF Settled, Connected

LEMMA ConnectSettled ==
    ASSUME Typed, Connect
    PROVE  Settled'
<1>1. PICK c \in Links : /\ outbound[c] = <<>> /\ conn' = c
                         /\ serverState' = [serverState EXCEPT ![c] = PAUSED]
  BY DEF Connect
<1>2. serverState'[c] = PAUSED
  BY <1>1 DEF Typed, ClientTyped
<1> QED
  BY <1>1, <1>2 DEF Settled, Connect

LEMMA SendSettled ==
    ASSUME Typed, Settled, NEW m \in Requests, m # Idle, Send(m), request = Idle
    PROVE  Settled'
<1>1. conn \in Links /\ outbound[conn] = <<>> /\ inbound = <<>>
      /\ serverState[conn] = acknowledged
  BY DEF Typed, ClientTyped, Send, Connected, Settled
<1>2. outbound'[conn] = <<m>>
  BY <1>1 DEF Typed, ClientTyped, Send
<1> QED
  BY <1>1, <1>2 DEF Settled, Send

LEMMA PauseThenSettled ==
    ASSUME Typed, Settled, NEW step, PauseThen(step), request = Idle
    PROVE  Settled'
<1>1. CASE UNCHANGED <<client, service, calm>>
  BY <1>1, QuietSettled DEF client, service
<1>2. CASE Dropped
  BY <1>2, DroppedSettled DEF Dropped
<1>3. CASE Send(StateMessage(PAUSED))
  BY <1>3, SendSettled, Distinct, Vocabulary
<1> QED
  BY <1>1, <1>2, <1>3 DEF PauseThen

LEMMA AnsweredSettled ==
    ASSUME Typed, Settled, Answered
    PROVE  Settled'
<1>1. UNCHANGED <<conn, alive, outbound, serverState>> /\ request' = Idle
  BY DEF Answered, service
<1>2. SUFFICES ASSUME Connected PROVE Settled'
  BY <1>1 DEF Settled, Connected
<1>3. PICK m \in Replies : outbound[conn] = <<>> /\ inbound = <<m>> /\ Owed(m)
  BY <1>2 DEF Settled, Answered, Waiting
<1>4. Head(inbound) = m /\ Tail(inbound) = <<>>
  BY <1>3
<1>5. ~Answers(Error)
  BY DEF Answers, Error, Message, StateUpdated, ReportQueued
<1>6. serverState[conn] = acknowledged'
  BY <1>3, <1>4, <1>5 DEF Answered, Owed
<1> QED
  BY <1>1, <1>3, <1>4, <1>6 DEF Settled, Answered

LEMMA IgnoredSettled ==
    ASSUME Typed, Settled, IgnoreMessage
    PROVE  Settled'
<1>1. ASSUME Connected PROVE FALSE
  <2>1. PICK m \in Replies : inbound = <<m>> /\ Owed(m)
    BY <1>1 DEF Settled, IgnoreMessage, Waiting
  <2>2. Head(inbound) = m
    BY <2>1
  <2>3. Refuses(Error)
    BY DEF Refuses, Error, Message
  <2> QED
    BY <2>1, <2>2, <2>3 DEF IgnoreMessage, Owed
<1> QED
  BY <1>1 DEF IgnoreMessage, Settled, Connected

LEMMA BrokenSettled ==
    ASSUME LinkFails \/ \E c \in Links : LoseInFlight(c) /\ Typed /\ Settled
    PROVE  Settled'
<1>1. CASE LinkFails
  BY <1>1 DEF LinkFails, Settled, Connected
<1>2. ASSUME NEW c \in Links, LoseInFlight(c), Typed, Settled
      PROVE  Settled'
  <2>1. /\ \A d \in Links : d # c => outbound'[d] = outbound[d]
        /\ UNCHANGED <<conn, alive, acknowledged, request, inbound, serverState>>
        /\ c # conn \/ ~alive
    BY <1>2 DEF Typed, ClientTyped, LoseInFlight, client
  <2>2. Connected => conn \in Links /\ conn # c
    BY <1>2, <2>1 DEF Typed, ClientTyped, Connected
  <2> QED
    BY <1>2, <2>1, <2>2 DEF Settled, Connected, Owed, Answers
<1> QED
  BY <1>1, <1>2

LEMMA ServeSettled ==
    ASSUME Typed, Settled, NEW c \in Links, Serve(c)
    PROVE  Settled'
<1> DEFINE m == Head(outbound[c])
<1>1. /\ outbound'[c] = Tail(outbound[c])
      /\ \A d \in Links : d # c => outbound'[d] = outbound[d]
      /\ UNCHANGED <<conn, alive, acknowledged, request, calm>>
  BY DEF Typed, ClientTyped, Serve
<1>2. \A d \in Links : d # c => serverState'[d] = serverState[d]
  BY DEF Typed, ClientTyped, Serve, ServeState, ServeReport, ServePing, ServeUpdateReady,
         ServeError
<1>3. CASE ~(Connected /\ c = conn)
  <2>1. inbound' = inbound \/ ~Connected
    BY <1>3 DEF Serve, ServeState, ServeReport, ServePing, ServeUpdateReady, ServeError,
                Reply, Connected
  <2>2. Connected => conn \in Links /\ conn # c
    BY <1>3 DEF Typed, ClientTyped, Connected
  <2> QED
    BY <1>1, <1>2, <2>1, <2>2 DEF Settled, Connected, Owed, Answers
<1>4. CASE Connected /\ c = conn
  <2>1. /\ request # Idle /\ outbound[c] = <<request>> /\ inbound = <<>>
        /\ serverState[c] = acknowledged
    BY <1>4 DEF Settled, Serve
  <2>2. m = request /\ Tail(outbound[c]) = <<>> /\ request \in Requests
    BY <2>1 DEF Typed, ClientTyped
  <2>3. ASSUME NEW n \in Replies, Reply(c, n) PROVE inbound' = <<n>>
    BY <1>4, <2>1, <2>3 DEF Reply, Connected
  <2>4. \E n \in Replies :
          /\ inbound' = <<n>>
          /\ \/ n = Error /\ serverState'[c] = acknowledged
             \/ /\ Answers(n)
                /\ serverState'[c] = IF request.type = "state" THEN request.value
                                                               ELSE acknowledged
    <3>1. CASE ServeState(c, m)
      <4>1. m.value \in {PAUSED, OBSERVING}
        BY <2>2, <3>1 DEF ServeState, Requests
      <4>2. Answers(StateUpdated(m.value)) /\ StateUpdated(m.value) \in Replies
        BY <2>2, <3>1, <4>1, Vocabulary DEF ServeState, Answers
      <4> QED
        BY <2>2, <2>3, <3>1, <4>2 DEF ServeState, Typed, ClientTyped
    <3>2. CASE ServeReport(c, m) \/ ServePing(c, m)
      <4>1. m.value \in Nat
        BY <2>2, <3>2 DEF ServeReport, ServePing, Requests
      <4>2. Answers(ReportQueued(m.value)) /\ ReportQueued(m.value) \in Replies
        BY <2>2, <3>2, <4>1, Vocabulary DEF ServeReport, ServePing, Answers
      <4> QED
        BY <2>1, <2>2, <2>3, <3>2, <4>2, Vocabulary DEF ServeReport, ServePing
    <3>3. CASE ServeUpdateReady(c, m)
      <4>1. \A g : UpdateSlot(g).type = "slot"
        BY DEF UpdateSlot, Message
      <4>2. \A g : Answers(UpdateSlot(g))
        BY <2>2, <3>3, <4>1 DEF ServeUpdateReady, Answers
      <4> QED
        BY <2>1, <2>2, <2>3, <3>3, <4>2, Vocabulary DEF ServeUpdateReady
    <3>4. CASE ServeError(c)
      BY <2>1, <2>3, <3>4, Vocabulary DEF ServeError
    <3> QED
      BY <3>1, <3>2, <3>3, <3>4 DEF Serve
  <2> QED
    BY <1>1, <1>4, <2>1, <2>2, <2>4 DEF Settled, Connected, Owed, Answers
<1> QED
  BY <1>3, <1>4

-----------------------------------------------------------------------------
(* Every step, for each part of the invariant.                              *)
LEMMA ClientTypedStep == Typed /\ [Moves]_state => ClientTyped'
<1> SUFFICES ASSUME Typed, [Moves]_state PROVE ClientTyped'
  OBVIOUS
<1> USE Limits, Vocabulary DEF state, client, service, worker, session, spool, update,
           bounds, rest, Goto, Typed, ClientTyped
<1>1. CASE BeginTick
  BY <1>1 DEF BeginTick
<1>2. CASE ProcessStops
  BY <1>2 DEF ProcessStops
<1>3. CASE ContextLost
  BY <1>3, PauseThenTyped DEF ContextLost
<1>4. CASE NoConnect
  BY <1>4 DEF NoConnect, Dropped
<1>5. CASE ConnectDue
  BY <1>5 DEF ConnectDue, Connect
<1>6. CASE SourceReset
  BY <1>6, PauseThenTyped DEF SourceReset
<1>7. CASE ReadMode
  BY <1>7, PauseThenTyped DEF ReadMode, ClientTyped
<1>8. CASE PauseSession
  BY <1>8, PauseThenTyped DEF PauseSession
<1>9. CASE ReadEvent
  BY <1>9 DEF ReadEvent
<1>10. CASE ReadPing
  BY <1>10 DEF ReadPing
<1>11. CASE EndRead
  BY <1>11 DEF EndRead
<1>12. CASE Paused
  BY <1>12, AnsweredTyped DEF Paused
<1>13. CASE PauseFails
  BY <1>13 DEF PauseFails, CallFails, Dropped
<1>14. CASE Observed
  BY <1>14 DEF Observed
<1>15. CASE Observe
  BY <1>15, SendTyped DEF Observe
<1>16. CASE ObserveAnswered
  BY <1>16, AnsweredTyped DEF ObserveAnswered
<1>17. CASE ObserveFails
  BY <1>17 DEF ObserveFails, GiveUp, Dropped
<1>18. CASE DiscardExpired
  BY <1>18 DEF DiscardExpired
<1>19. CASE EndReports
  BY <1>19 DEF EndReports
<1>20. CASE Announce
  BY <1>20, SendTyped DEF Announce
<1>21. CASE Announced
  BY <1>21, AnsweredTyped DEF Announced
<1>22. CASE SendReport
  <2>1. Head(queue) \in Nat
    BY <1>22 DEF SendReport, QueuesTyped
  <2> QED
    BY <1>22, <2>1, SendTyped DEF SendReport
<1>23. CASE ReportAnswered
  BY <1>23, AnsweredTyped DEF ReportAnswered
<1>24. CASE ReportFails
  BY <1>24 DEF ReportFails, GiveUp, Dropped
<1>25. CASE Acknowledge
  BY <1>25 DEF Acknowledge
<1>26. CASE ExpirePings
  BY <1>26 DEF ExpirePings
<1>27. CASE EndPings
  BY <1>27 DEF EndPings
<1>28. CASE SendPing
  <2>1. Head(pings) \in Nat
    BY <1>28 DEF SendPing, QueuesTyped
  <2> QED
    BY <1>28, <2>1, SendTyped DEF SendPing
<1>29. CASE PingAnswered
  BY <1>29, AnsweredTyped DEF PingAnswered
<1>30. CASE PingFails
  BY <1>30 DEF PingFails, GiveUp, Dropped
<1>31. CASE BeginUpdate
  BY <1>31 DEF BeginUpdate
<1>32. CASE CandidateStaged
  BY <1>32 DEF CandidateStaged
<1>33. CASE NoCandidate
  BY <1>33 DEF NoCandidate
<1>34. CASE NoCheck
  BY <1>34 DEF NoCheck
<1>35. CASE NoUpdate
  BY <1>35 DEF NoUpdate
<1>36. CASE UpdateOffline
  BY <1>36 DEF UpdateOffline, CanUpdate
<1>37. CASE RequestSlot
  BY <1>37, SendTyped DEF RequestSlot
<1>38. CASE SlotAnswered
  BY <1>38, AnsweredTyped DEF SlotAnswered
<1>39. CASE PauseForUpdate
  BY <1>39, SendTyped DEF PauseForUpdate, ClientTyped
<1>40. CASE PausedForUpdate
  BY <1>40, AnsweredTyped DEF PausedForUpdate
<1>41. CASE UpdateFails
  <2>1. inbound' \in Seq(Replies)
    BY <1>41, UpdateFailsInbound
  <2> QED
    BY <1>41, <2>1 DEF UpdateFails, Dropped, service
<1>42. CASE HandOff
  BY <1>42 DEF HandOff, Forget, Dropped
<1>43. CASE HandOffFails
  BY <1>43 DEF HandOffFails
<1>44. CASE Ignored
  BY <1>44 DEF Ignored, IgnoreMessage, Waiting
<1>45. CASE EnqueueFails
  BY <1>45 DEF EnqueueFails, WriteFails, Die, Forget, Dropped
<1>46. CASE DiscardFails
  BY <1>46 DEF DiscardFails, WriteFails, Die, Forget, Dropped
<1>47. CASE AcknowledgeFails
  BY <1>47 DEF AcknowledgeFails, WriteFails, Die, Forget, Dropped
<1>48. CASE Crash
  BY <1>48 DEF Crash, Die, Forget, Dropped, Connected
<1>49. CASE Shutdown
  BY <1>49, WriteTyped, DroppedTyped DEF Shutdown, Die, Forget, ClientTyped
<1>50. CASE Restart
  BY <1>50 DEF Restart
<1>51. CASE Age
  BY <1>51 DEF Age
<1>52. CASE WantInstall
  BY <1>52 DEF WantInstall
<1>53. CASE CalmDown
  BY <1>53 DEF CalmDown
<1>54. CASE Broken
  BY <1>54, LinkFailsTyped DEF Broken
<1>55. ASSUME NEW c \in Links, Served(c) PROVE ClientTyped'
  BY <1>55, ServeTyped DEF Served
<1>56. ASSUME NEW c \in Links, Lost(c) PROVE ClientTyped'
  BY <1>56 DEF Lost, LoseInFlight
<1>57. CASE UNCHANGED state
  BY <1>57 DEF state
<1> QED
  BY <1>1, <1>2, <1>3, <1>4, <1>5, <1>6, <1>7, <1>8, <1>9, <1>10, <1>11, <1>12, <1>13,
     <1>14, <1>15, <1>16, <1>17, <1>18, <1>19, <1>20, <1>21, <1>22, <1>23, <1>24, <1>25,
     <1>26, <1>27, <1>28, <1>29, <1>30, <1>31, <1>32, <1>33, <1>34, <1>35, <1>36, <1>37,
     <1>38, <1>39, <1>40, <1>41, <1>42, <1>43, <1>44, <1>45, <1>46, <1>47, <1>48, <1>49,
     <1>50, <1>51, <1>52, <1>53, <1>54, <1>55, <1>56, <1>57 DEF Moves, Working, Around, Tick

LEMMA CallStep == Typed /\ [Moves]_state => CallInv'
<1> SUFFICES ASSUME Typed, [Moves]_state PROVE CallInv'
  OBVIOUS
<1> USE Distinct DEF state, client, service, worker, session, spool, update, bounds, rest,
           Goto, Typed, CallInv, WorkerTyped, Steps
<1>1. CASE BeginTick
  BY <1>1 DEF BeginTick
<1>2. CASE ProcessStops
  BY <1>2 DEF ProcessStops
<1>3. CASE ContextLost
  BY <1>3 DEF ContextLost, RebuildContext, PauseThen, Send, Connected, Dropped
<1>4. CASE NoConnect
  BY <1>4 DEF NoConnect, Dropped
<1>5. CASE ConnectDue
  BY <1>5 DEF ConnectDue, Connect
<1>6. CASE SourceReset
  BY <1>6 DEF SourceReset, RebuildContext, PauseThen, Send, Connected, Dropped
<1>7. CASE ReadMode
  BY <1>7 DEF ReadMode, PauseThen, Send, Connected, Dropped
<1>8. CASE PauseSession
  BY <1>8 DEF PauseSession, PauseThen, Send, Connected, Dropped
<1>9. CASE ReadEvent
  BY <1>9 DEF ReadEvent
<1>10. CASE ReadPing
  BY <1>10 DEF ReadPing
<1>11. CASE EndRead
  BY <1>11 DEF EndRead
<1>12. CASE Paused
  BY <1>12 DEF Paused, Answered, Waiting, Answers
<1>13. CASE PauseFails
  BY <1>13 DEF PauseFails, CallFails, Dropped
<1>14. CASE Observed
  BY <1>14 DEF Observed
<1>15. CASE Observe
  BY <1>15 DEF Observe, Send, Connected
<1>16. CASE ObserveAnswered
  BY <1>16 DEF ObserveAnswered, Answered, Waiting, Answers
<1>17. CASE ObserveFails
  BY <1>17 DEF ObserveFails, GiveUp, Dropped
<1>18. CASE DiscardExpired
  BY <1>18 DEF DiscardExpired
<1>19. CASE EndReports
  BY <1>19 DEF EndReports
<1>20. CASE Announce
  BY <1>20 DEF Announce, Send, Connected
<1>21. CASE Announced
  BY <1>21 DEF Announced, Answered, Waiting, Answers
<1>22. CASE SendReport
  BY <1>22 DEF SendReport, Send, Connected
<1>23. CASE ReportAnswered
  BY <1>23 DEF ReportAnswered, Answered, Waiting, Answers
<1>24. CASE ReportFails
  BY <1>24 DEF ReportFails, GiveUp, Dropped
<1>25. CASE Acknowledge
  BY <1>25 DEF Acknowledge
<1>26. CASE ExpirePings
  BY <1>26 DEF ExpirePings
<1>27. CASE EndPings
  BY <1>27 DEF EndPings
<1>28. CASE SendPing
  BY <1>28 DEF SendPing, Send, Connected
<1>29. CASE PingAnswered
  BY <1>29 DEF PingAnswered, Answered, Waiting, Answers
<1>30. CASE PingFails
  BY <1>30 DEF PingFails, GiveUp, Dropped
<1>31. CASE BeginUpdate
  BY <1>31 DEF BeginUpdate
<1>32. CASE CandidateStaged
  BY <1>32 DEF CandidateStaged
<1>33. CASE NoCandidate
  BY <1>33 DEF NoCandidate
<1>34. CASE NoCheck
  BY <1>34 DEF NoCheck
<1>35. CASE NoUpdate
  BY <1>35 DEF NoUpdate
<1>36. CASE UpdateOffline
  BY <1>36 DEF UpdateOffline, CanUpdate
<1>37. CASE RequestSlot
  BY <1>37 DEF RequestSlot, CanUpdate, Send, Connected
<1>38. CASE SlotAnswered
  BY <1>38 DEF SlotAnswered, Answered, Waiting, Answers
<1>39. CASE PauseForUpdate
  BY <1>39 DEF PauseForUpdate, Send, Connected
<1>40. CASE PausedForUpdate
  BY <1>40 DEF PausedForUpdate, Answered, Waiting, Answers
<1>41. CASE UpdateFails
  BY <1>41 DEF UpdateFails, CanUpdate, CallFails, Dropped
<1>42. CASE HandOff
  BY <1>42 DEF HandOff, Forget, Dropped
<1>43. CASE HandOffFails
  BY <1>43 DEF HandOffFails
<1>44. CASE Ignored
  BY <1>44 DEF Ignored, IgnoreMessage, Waiting
<1>45. CASE EnqueueFails
  BY <1>45 DEF EnqueueFails, WriteFails, Die, Forget, Dropped
<1>46. CASE DiscardFails
  BY <1>46 DEF DiscardFails, WriteFails, Die, Forget, Dropped
<1>47. CASE AcknowledgeFails
  BY <1>47 DEF AcknowledgeFails, WriteFails, Die, Forget, Dropped
<1>48. CASE Crash
  BY <1>48 DEF Crash, Die, Forget, Dropped, Connected
<1>49. CASE Shutdown
  BY <1>49 DEF Shutdown, Die, Forget, Dropped, Connected
<1>50. CASE Restart
  BY <1>50 DEF Restart
<1>51. CASE Age
  BY <1>51 DEF Age
<1>52. CASE WantInstall
  BY <1>52 DEF WantInstall
<1>53. CASE CalmDown
  BY <1>53 DEF CalmDown
<1>54. CASE Broken
  BY <1>54 DEF Broken, LinkFails, Connected
<1>55. ASSUME NEW c \in Links, Served(c) PROVE CallInv'
  BY <1>55 DEF Served, Serve, ServeState, ServeReport, ServePing, ServeUpdateReady,
     ServeError, Reply, Queue
<1>56. ASSUME NEW c \in Links, Lost(c) PROVE CallInv'
  BY <1>56 DEF Lost, LoseInFlight
<1>57. CASE UNCHANGED state
  BY <1>57 DEF state
<1> QED
  BY <1>1, <1>2, <1>3, <1>4, <1>5, <1>6, <1>7, <1>8, <1>9, <1>10, <1>11, <1>12, <1>13,
     <1>14, <1>15, <1>16, <1>17, <1>18, <1>19, <1>20, <1>21, <1>22, <1>23, <1>24, <1>25,
     <1>26, <1>27, <1>28, <1>29, <1>30, <1>31, <1>32, <1>33, <1>34, <1>35, <1>36, <1>37,
     <1>38, <1>39, <1>40, <1>41, <1>42, <1>43, <1>44, <1>45, <1>46, <1>47, <1>48, <1>49,
     <1>50, <1>51, <1>52, <1>53, <1>54, <1>55, <1>56, <1>57 DEF Moves, Working, Around, Tick

LEMMA WorkerTypedStep == Typed /\ [Moves]_state => WorkerTyped'
<1> SUFFICES ASSUME Typed, [Moves]_state PROVE WorkerTyped'
  OBVIOUS
<1> USE Limits DEF state, client, service, worker, session, spool, update, bounds, rest,
           Goto, Typed, WorkerTyped, Steps
<1>1. CASE EnqueueFails \/ DiscardFails \/ AcknowledgeFails \/ Crash \/ Shutdown
  BY <1>1, ForgetWorker DEF EnqueueFails, DiscardFails, AcknowledgeFails, WriteFails,
     Crash, Shutdown, Die
<1>2. CASE BeginTick
  BY <1>2 DEF BeginTick
<1>3. CASE ProcessStops
  BY <1>3 DEF ProcessStops
<1>4. CASE ContextLost
  BY <1>4 DEF ContextLost, RebuildContext, PauseThen, Send, Connected, Dropped
<1>5. CASE NoConnect
  BY <1>5 DEF NoConnect, Dropped
<1>6. CASE ConnectDue
  BY <1>6 DEF ConnectDue, Connect
<1>7. CASE SourceReset
  BY <1>7 DEF SourceReset, RebuildContext, PauseThen, Send, Connected, Dropped
<1>8. CASE ReadMode
  BY <1>8, ZenonT(40) DEF ReadMode, PauseThen, Send, Connected, Dropped
<1>9. CASE PauseSession
  BY <1>9, ZenonT(40) DEF PauseSession, PauseThen, Send, Connected, Dropped
<1>10. CASE ReadEvent
  BY <1>10 DEF ReadEvent
<1>11. CASE ReadPing
  BY <1>11 DEF ReadPing
<1>12. CASE EndRead
  BY <1>12 DEF EndRead
<1>13. CASE Paused
  BY <1>13 DEF Paused, Answered, Waiting, Answers
<1>14. CASE PauseFails
  BY <1>14 DEF PauseFails, CallFails, Dropped
<1>15. CASE Observed
  BY <1>15 DEF Observed
<1>16. CASE Observe
  BY <1>16 DEF Observe, Send, Connected
<1>17. CASE ObserveAnswered
  BY <1>17 DEF ObserveAnswered, Answered, Waiting, Answers
<1>18. CASE ObserveFails
  BY <1>18 DEF ObserveFails, GiveUp, Dropped
<1>19. CASE DiscardExpired
  BY <1>19 DEF DiscardExpired
<1>20. CASE EndReports
  BY <1>20 DEF EndReports
<1>21. CASE Announce
  BY <1>21 DEF Announce, Send, Connected
<1>22. CASE Announced
  BY <1>22 DEF Announced, Answered, Waiting, Answers
<1>23. CASE SendReport
  BY <1>23 DEF SendReport, Send, Connected
<1>24. CASE ReportAnswered
  BY <1>24 DEF ReportAnswered, Answered, Waiting, Answers
<1>25. CASE ReportFails
  BY <1>25 DEF ReportFails, GiveUp, Dropped
<1>26. CASE Acknowledge
  BY <1>26 DEF Acknowledge
<1>27. CASE ExpirePings
  BY <1>27 DEF ExpirePings
<1>28. CASE EndPings
  BY <1>28 DEF EndPings
<1>29. CASE SendPing
  BY <1>29 DEF SendPing, Send, Connected
<1>30. CASE PingAnswered
  BY <1>30 DEF PingAnswered, Answered, Waiting, Answers
<1>31. CASE PingFails
  BY <1>31 DEF PingFails, GiveUp, Dropped
<1>32. CASE BeginUpdate
  BY <1>32 DEF BeginUpdate
<1>33. CASE CandidateStaged
  BY <1>33 DEF CandidateStaged
<1>34. CASE NoCandidate
  BY <1>34 DEF NoCandidate
<1>35. CASE NoCheck
  BY <1>35 DEF NoCheck
<1>36. CASE NoUpdate
  BY <1>36 DEF NoUpdate
<1>37. CASE UpdateOffline
  BY <1>37 DEF UpdateOffline, CanUpdate
<1>38. CASE RequestSlot
  BY <1>38 DEF RequestSlot, CanUpdate, Send, Connected
<1>39. CASE SlotAnswered
  BY <1>39 DEF SlotAnswered, Answered, Waiting, Answers
<1>40. CASE PauseForUpdate
  BY <1>40 DEF PauseForUpdate, Send, Connected
<1>41. CASE PausedForUpdate
  BY <1>41 DEF PausedForUpdate, Answered, Waiting, Answers
<1>42. CASE UpdateFails
  BY <1>42 DEF UpdateFails, CanUpdate, CallFails, Dropped
<1>43. CASE HandOff
  BY <1>43, ForgetWorker DEF HandOff
<1>44. CASE HandOffFails
  BY <1>44 DEF HandOffFails
<1>45. CASE Ignored
  BY <1>45 DEF Ignored, IgnoreMessage, Waiting
<1>46. CASE Restart
  BY <1>46 DEF Restart
<1>47. CASE Age
  BY <1>47 DEF Age
<1>48. CASE WantInstall
  BY <1>48 DEF WantInstall
<1>49. CASE CalmDown
  BY <1>49 DEF CalmDown
<1>50. CASE Broken
  BY <1>50 DEF Broken, LinkFails, Connected
<1>51. ASSUME NEW c \in Links, Served(c) PROVE WorkerTyped'
  BY <1>51 DEF Served, Serve, ServeState, ServeReport, ServePing, ServeUpdateReady,
     ServeError, Reply, Queue
<1>52. ASSUME NEW c \in Links, Lost(c) PROVE WorkerTyped'
  BY <1>52 DEF Lost, LoseInFlight
<1>53. CASE UNCHANGED state
  BY <1>53 DEF state
<1> QED
  BY <1>1, <1>2, <1>3, <1>4, <1>5, <1>6, <1>7, <1>8, <1>9, <1>10, <1>11, <1>12, <1>13,
     <1>14, <1>15, <1>16, <1>17, <1>18, <1>19, <1>20, <1>21, <1>22, <1>23, <1>24, <1>25,
     <1>26, <1>27, <1>28, <1>29, <1>30, <1>31, <1>32, <1>33, <1>34, <1>35, <1>36, <1>37,
     <1>38, <1>39, <1>40, <1>41, <1>42, <1>43, <1>44, <1>45, <1>46, <1>47, <1>48, <1>49,
     <1>50, <1>51, <1>52, <1>53 DEF Moves, Working, Around, Tick

LEMMA QueuesTypedStep == Typed /\ [Moves]_state => QueuesTyped'
<1> SUFFICES ASSUME Typed, [Moves]_state PROVE QueuesTyped'
  OBVIOUS
<1> USE Limits DEF state, client, service, worker, session, spool, update, bounds, rest,
           Goto, Typed, ClientTyped, QueuesTyped, CallInv
<1>1. CASE BeginTick \/ ProcessStops \/ NoConnect \/ ConnectDue \/ ReadMode \/ EndRead
  BY <1>1 DEF BeginTick, ProcessStops, NoConnect, Dropped, ConnectDue, Connect, ReadMode,
     PauseThen, Send, Connected, EndRead
<1>2. CASE PauseSession \/ Observed \/ Observe \/ ObserveAnswered \/ ObserveFails \/
           EndReports
  BY <1>2 DEF PauseSession, PauseThen, Send, Connected, Dropped, Observed, Observe,
     ObserveAnswered, Answered, Waiting, Answers, ObserveFails, GiveUp, EndReports
<1>3. CASE Announce \/ Announced \/ SendReport \/ ReportAnswered \/ ReportFails \/
           EndPings \/ PingFails \/ SendPing
  BY <1>3 DEF Announce, Send, Connected, Announced, Answered, Waiting, Answers,
     SendReport, ReportAnswered, ReportFails, GiveUp, Dropped, EndPings, PingFails,
     SendPing
<1>4. CASE BeginUpdate \/ CandidateStaged \/ NoCandidate \/ NoCheck \/ NoUpdate \/
           UpdateOffline \/ RequestSlot \/ SlotAnswered
  BY <1>4 DEF BeginUpdate, CandidateStaged, NoCandidate, NoCheck, NoUpdate, UpdateOffline,
     CanUpdate, RequestSlot, Send, Connected, SlotAnswered, Answered, Waiting, Answers
<1>5. CASE PauseForUpdate \/ PausedForUpdate \/ UpdateFails \/ HandOffFails
  BY <1>5 DEF PauseForUpdate, Send, Connected, PausedForUpdate, Answered, Waiting,
     Answers, UpdateFails, CanUpdate, CallFails, Dropped, HandOffFails
<1>6. CASE ContextLost
  BY <1>6, EmptySeq, SMTT(30) DEF ContextLost, RebuildContext, PauseThen, Send, Dropped
<1>7. CASE SourceReset
  BY <1>7, EmptySeq, SMTT(30) DEF SourceReset, RebuildContext, PauseThen, Send, Dropped
<1>8. CASE ReadEvent
  BY <1>8, AppendKeeps DEF ReadEvent
<1>9. CASE ReadPing
  <2>1. (IF Len(pings) < MaxPendingPings THEN pings ELSE Tail(pings)) \in Seq(Nat)
    BY EmptySeq, LenProperties, TailKeeps
  <2>2. pings' \in Seq(Nat) /\ Len(pings') <= MaxPendingPings
    BY <1>9, <2>1, EmptySeq, LenProperties, HeadTailProperties, AppendProperties DEF ReadPing
  <2> QED
    BY <1>9, <2>2 DEF ReadPing
<1>10. CASE Paused
  BY <1>10 DEF Paused, Answered, WorkerTyped
<1>11. CASE PauseFails
  BY <1>11 DEF PauseFails, Dropped, WorkerTyped
<1>12. CASE DiscardExpired
  BY <1>12, DiscardKeeps DEF DiscardExpired
<1>13. CASE Acknowledge
  BY <1>13, TailKeeps DEF Acknowledge
<1>14. CASE ExpirePings
  BY <1>14, SuffixProperties DEF ExpirePings
<1>15. CASE PingAnswered
  BY <1>15, TailKeeps, LenProperties, HeadTailProperties DEF PingAnswered, Answered
<1>16. CASE HandOff
  BY <1>16 DEF HandOff, Forget, Dropped
<1>17. CASE Ignored
  BY <1>17 DEF Ignored, IgnoreMessage, Waiting
<1>18. CASE EnqueueFails
  <2>1. issued' \in 0 .. MaxReports /\ Append(queue, issued') \in Seq(Nat)
    BY <1>18, AppendKeeps DEF EnqueueFails
  <2>2. queue' = <<>> /\ pings' = <<>> /\ pc' = "down" /\ stored' \in Seq(Nat)
    BY <1>18, <2>1 DEF EnqueueFails, WriteFails, Die, Forget
  <2> QED
    BY <1>18, <2>1, <2>2, EmptySeq DEF EnqueueFails, WriteFails, Die, Forget
<1>19. CASE DiscardFails
  BY <1>19, DiscardKeeps, EmptySeq DEF DiscardFails, WriteFails, Die, Forget
<1>20. CASE AcknowledgeFails
  <2>1. Tail(queue) \in Seq(Nat)
    BY <1>20, TailKeeps DEF AcknowledgeFails
  <2>2. queue' = <<>> /\ pings' = <<>> /\ pc' = "down" /\ stored' \in Seq(Nat)
    BY <1>20, <2>1 DEF AcknowledgeFails, WriteFails, Die, Forget
  <2> QED
    BY <1>20, <2>1, <2>2, EmptySeq DEF AcknowledgeFails, WriteFails, Die, Forget
<1>21. CASE Crash
  BY <1>21 DEF Crash, Die, Forget, Dropped, Connected
<1>22. CASE Shutdown
  BY <1>22 DEF Shutdown, Die, Forget, Dropped, Connected
<1>23. CASE Restart
  BY <1>23, DiscardKeeps DEF Restart
<1>24. CASE Age
  BY <1>24 DEF Age
<1>25. CASE WantInstall
  BY <1>25 DEF WantInstall
<1>26. CASE CalmDown
  BY <1>26 DEF CalmDown
<1>27. CASE Broken
  BY <1>27 DEF Broken, LinkFails, Connected
<1>28. ASSUME NEW c \in Links, Served(c) PROVE QueuesTyped'
  <2>1. received' \in Seq(Nat)
    BY <1>28, ServeReceives DEF Served
  <2> QED
    BY <1>28, <2>1 DEF Served
<1>29. ASSUME NEW c \in Links, Lost(c) PROVE QueuesTyped'
  BY <1>29 DEF Lost, LoseInFlight
<1>30. CASE UNCHANGED state
  BY <1>30 DEF state
<1> QED
  BY <1>1, <1>2, <1>3, <1>4, <1>5, <1>6, <1>7, <1>8, <1>9, <1>10, <1>11, <1>12, <1>13,
     <1>14, <1>15, <1>16, <1>17, <1>18, <1>19, <1>20, <1>21, <1>22, <1>23, <1>24, <1>25,
     <1>26, <1>27, <1>28, <1>29, <1>30 DEF Moves, Working, Around, Tick

LEMMA SpooledStep == Typed /\ Spooled /\ [Moves]_state => Spooled'
<1> SUFFICES ASSUME Typed, Spooled, [Moves]_state PROVE Spooled'
  OBVIOUS
<1> USE Limits DEF state, client, service, worker, session, spool, update, bounds, rest,
           Goto, Typed, WorkerTyped, QueuesTyped, Spooled
<1>1. CASE BeginTick \/ ProcessStops \/ NoConnect \/ ConnectDue \/ ReadMode \/ EndRead
  BY <1>1 DEF BeginTick, ProcessStops, NoConnect, Dropped, ConnectDue, Connect, ReadMode,
     PauseThen, Send, Connected, EndRead
<1>2. CASE PauseSession \/ Observed \/ Observe \/ ObserveAnswered \/ ObserveFails \/
           EndReports
  BY <1>2 DEF PauseSession, PauseThen, Send, Connected, Dropped, Observed, Observe,
     ObserveAnswered, Answered, Waiting, Answers, ObserveFails, GiveUp, EndReports
<1>3. CASE Announce \/ Announced \/ SendReport \/ ReportAnswered \/ ReportFails \/
           EndPings \/ PingFails \/ SendPing
  BY <1>3 DEF Announce, Send, Connected, Announced, Answered, Waiting, Answers,
     SendReport, ReportAnswered, ReportFails, GiveUp, Dropped, EndPings, PingFails,
     SendPing
<1>4. CASE BeginUpdate \/ CandidateStaged \/ NoCandidate \/ NoCheck \/ NoUpdate \/
           UpdateOffline \/ RequestSlot \/ SlotAnswered
  BY <1>4 DEF BeginUpdate, CandidateStaged, NoCandidate, NoCheck, NoUpdate, UpdateOffline,
     CanUpdate, RequestSlot, Send, Connected, SlotAnswered, Answered, Waiting, Answers
<1>5. CASE PauseForUpdate \/ PausedForUpdate \/ UpdateFails \/ HandOffFails
  BY <1>5 DEF PauseForUpdate, Send, Connected, PausedForUpdate, Answered, Waiting,
     Answers, UpdateFails, CanUpdate, CallFails, Dropped, HandOffFails
<1>6. CASE ReadPing \/ ExpirePings \/ PingAnswered
  BY <1>6 DEF ReadPing, ExpirePings, PingAnswered, Answered, Waiting, Answers
<1>7. CASE ContextLost
  BY <1>7 DEF ContextLost, RebuildContext, PauseThen, Send, Connected, Dropped
<1>8. CASE SourceReset
  BY <1>8 DEF SourceReset, RebuildContext, PauseThen, Send, Connected, Dropped
<1>9. CASE ReadEvent
  <2>1. issued' = issued + 1 /\ issued' \in Nat /\ \A r : Has(stored, r) => r < issued'
    BY <1>9 DEF ReadEvent
  <2>2. stored' = Append(stored, issued') /\ queue' = stored'
    BY <1>9 DEF ReadEvent
  <2>3. /\ Increasing(stored')
        /\ \A r : Has(stored', r) <=> Has(stored, r) \/ r = issued'
    BY <2>1, <2>2, AppendKeeps
  <2>4. ASSUME NEW r, Has(stored', r) PROVE r \in 1 .. issued'
    <3>1. 1 .. issued \subseteq 1 .. issued' /\ issued' \in 1 .. issued'
      BY <2>1
    <3>2. Has(stored, r) => r \in 1 .. issued
      OBVIOUS
    <3> HIDE DEF Typed, Spooled
    <3> QED
      BY <2>3, <2>4, <3>1, <3>2
  <2>5. pc # "down" /\ pc' = pc
    BY <1>9 DEF ReadEvent, worker
  <2>6. accepted' \subseteq 1 .. issued'
    BY <1>9, <2>1 DEF ReadEvent
  <2> QED
    BY <2>2, <2>3, <2>4, <2>5, <2>6
<1>10. CASE Paused
  BY <1>10 DEF Paused, Answered, Waiting, Answers
<1>11. CASE PauseFails
  BY <1>11 DEF PauseFails, CallFails, Dropped
<1>12. CASE DiscardExpired
  BY <1>12, DiscardKeeps DEF DiscardExpired
<1>13. CASE Acknowledge
  BY <1>13, TailKeeps DEF Acknowledge
<1>14. CASE HandOff
  BY <1>14 DEF HandOff, Forget, Dropped
<1>15. CASE Ignored
  BY <1>15 DEF Ignored, IgnoreMessage, Waiting
<1>16. CASE EnqueueFails
  <2>1. issued' = issued + 1 /\ issued' \in Nat /\ \A r : Has(stored, r) => r < issued'
    BY <1>16 DEF EnqueueFails
  <2>2. stored' \in {stored, Append(stored, issued')} /\ queue' = <<>> /\ pc' = "down"
    BY <1>16 DEF EnqueueFails, WriteFails, Die, Forget
  <2>3. Increasing(stored') /\ \A r : Has(stored', r) => r \in 1 .. issued'
    <3>1. CASE stored' = stored
      BY <2>1, <3>1
    <3>2. CASE stored' = Append(stored, issued')
      <4>1. \A r : Has(stored', r) <=> Has(stored, r) \/ r = issued'
        BY <2>1, <3>2, AppendKeeps
      <4>2. Increasing(stored')
        BY <2>1, <3>2, AppendKeeps
      <4>3. ASSUME NEW r, Has(stored', r)
            PROVE  r \in 1 .. issued'
        <5>1. r \in 1 .. issued \/ r = issued'
          BY <4>1, <4>3
        <5>2. issued \in Nat
          OBVIOUS
        <5> QED
          BY <2>1, <5>1, <5>2
      <4> QED
        BY <4>2, <4>3
    <3> QED
      BY <2>2, <3>1, <3>2
  <2>4. accepted' = accepted
    BY <1>16 DEF EnqueueFails, WriteFails, Die, Forget
  <2> QED
    BY <2>1, <2>2, <2>3, <2>4
<1>17. CASE DiscardFails
  <2>1. issued' = issued /\ stored' \in {stored, NotExpired(stored)} /\ accepted' = accepted
    BY <1>17 DEF DiscardFails, WriteFails, Die, Forget
  <2>2. queue' = <<>> /\ pc' = "down"
    BY <1>17 DEF DiscardFails, WriteFails, Die, Forget
  <2>3. Increasing(stored') /\ \A r : Has(stored', r) => r \in 1 .. issued'
    BY <2>1, DiscardKeeps
  <2> QED
    BY <2>1, <2>2, <2>3
<1>18. CASE AcknowledgeFails
  <2>1. issued' = issued /\ stored' \in {stored, Tail(stored)} /\ accepted' = accepted
    BY <1>18 DEF AcknowledgeFails, WriteFails, Die, Forget
  <2>2. queue' = <<>> /\ pc' = "down"
    BY <1>18 DEF AcknowledgeFails, WriteFails, Die, Forget
  <2>3. stored # <<>>
    BY <1>18 DEF AcknowledgeFails
  <2>4. Increasing(stored') /\ \A r : Has(stored', r) => r \in 1 .. issued'
    <3>1. CASE stored' = stored
      BY <2>1, <3>1
    <3>2. CASE stored' = Tail(stored)
      <4>1. \A r : Has(stored', r) => Has(stored, r)
        BY <2>3, <3>2, TailKeeps
      <4>2. Increasing(stored')
        BY <2>3, <3>2, TailKeeps
      <4> QED
        BY <2>1, <4>1, <4>2
    <3> QED
      BY <2>1, <3>1, <3>2
  <2> QED
    BY <2>1, <2>2, <2>4
<1>19. CASE Crash
  BY <1>19 DEF Crash, Die, Forget, Dropped, Connected
<1>20. CASE Shutdown
  BY <1>20 DEF Shutdown, Die, Forget, Dropped, Connected
<1>21. CASE Restart
  BY <1>21, DiscardKeeps DEF Restart
<1>22. CASE Age
  BY <1>22 DEF Age
<1>23. CASE WantInstall
  BY <1>23 DEF WantInstall
<1>24. CASE CalmDown
  BY <1>24 DEF CalmDown
<1>25. CASE Broken
  BY <1>25 DEF Broken, LinkFails, Connected
<1>26. ASSUME NEW c \in Links, Served(c) PROVE Spooled'
  BY <1>26 DEF Served, Serve, ServeState, ServeReport, ServePing, ServeUpdateReady,
     ServeError, Reply, Queue
<1>27. ASSUME NEW c \in Links, Lost(c) PROVE Spooled'
  BY <1>27 DEF Lost, LoseInFlight
<1>28. CASE UNCHANGED state
  BY <1>28 DEF state
<1> QED
  BY <1>1, <1>2, <1>3, <1>4, <1>5, <1>6, <1>7, <1>8, <1>9, <1>10, <1>11, <1>12, <1>13,
     <1>14, <1>15, <1>16, <1>17, <1>18, <1>19, <1>20, <1>21, <1>22, <1>23, <1>24, <1>25,
     <1>26, <1>27, <1>28 DEF Moves, Working, Around, Tick

LEMMA FlightStep == Typed /\ [Moves]_state => FlightChange
<1> SUFFICES ASSUME Typed, [Moves]_state PROVE FlightChange
  OBVIOUS
<1> USE DEF Typed
<1>1. CASE BeginTick \/ ProcessStops \/ EndRead \/ ReadEvent \/ ReadPing \/ Observed \/
           DiscardExpired \/ EndReports
  BY <1>1, QuietFlight DEF BeginTick, ProcessStops, EndRead, ReadEvent, ReadPing,
     Observed, DiscardExpired, EndReports, client, service, worker, spool, Goto, rest
<1>2. CASE Acknowledge \/ ExpirePings \/ EndPings \/ BeginUpdate \/ CandidateStaged \/
           NoCandidate \/ NoCheck \/ NoUpdate
  BY <1>2, QuietFlight DEF Acknowledge, ExpirePings, EndPings, BeginUpdate,
     CandidateStaged, NoCandidate, NoCheck, NoUpdate, client, service, worker, spool,
     Goto, rest
<1>3. CASE UpdateOffline \/ HandOffFails \/ Restart \/ Age \/ WantInstall
  BY <1>3, QuietFlight DEF UpdateOffline, HandOffFails, Restart, Age, WantInstall,
     client, service, worker, spool, Goto, rest
<1>4. CASE PauseFails \/ NoConnect
  BY <1>4, QuietFlight DEF PauseFails, NoConnect, GiveUp, Dropped, Forget, WorkerTyped,
     client, service, worker, spool, Goto
<1>5. CASE ObserveFails \/ ReportFails \/ PingFails \/ HandOff
  BY <1>5, QuietFlight DEF ObserveFails, ReportFails, PingFails, HandOff, GiveUp,
     Dropped, Forget, WorkerTyped, client, service, worker, spool, Goto
<1>6. CASE EnqueueFails \/ DiscardFails \/ AcknowledgeFails \/ Crash
  BY <1>6, QuietFlight DEF EnqueueFails, DiscardFails, AcknowledgeFails, Crash,
     WriteFails, Die, Forget, Dropped
<1>7. CASE ContextLost
  BY <1>7, PauseThenFlight DEF ContextLost
<1>8. CASE ConnectDue
  BY <1>8, QuietFlight DEF ConnectDue, Connect, Goto, spool
<1>9. CASE SourceReset
  BY <1>9, PauseThenFlight DEF SourceReset
<1>10. CASE ReadMode
  BY <1>10, PauseThenFlight, QuietFlight DEF ReadMode, client, service, Goto
<1>11. CASE PauseSession
  BY <1>11, PauseThenFlight DEF PauseSession
<1>12. CASE Paused
  BY <1>12, AnsweredFlight DEF Paused, Goto, WorkerTyped
<1>13. CASE Observe
  <2>1. StateMessage(OBSERVING) \in Requests /\ NewRequest(StateMessage(OBSERVING))
    BY <1>13, Distinct, Vocabulary DEF NewRequest, Observe
  <2> QED
    BY <1>13, <2>1, SendFlight DEF Observe, Goto
<1>14. CASE ObserveAnswered
  BY <1>14, AnsweredFlight DEF ObserveAnswered, Goto
<1>15. CASE Announce
  <2>1. StateMessage(OBSERVING) \in Requests /\ NewRequest(StateMessage(OBSERVING))
    BY <1>15, Distinct, Vocabulary DEF NewRequest, Announce
  <2> QED
    BY <1>15, <2>1, SendFlight DEF Announce, Goto
<1>16. CASE Announced
  BY <1>16, AnsweredFlight DEF Announced, Goto
<1>17. CASE SendReport
  <2>0. Head(queue) \in Nat
    BY <1>17 DEF SendReport, QueuesTyped
  <2>1. EventReport(Head(queue)) \in Requests /\ NewRequest(EventReport(Head(queue)))
    BY <1>17, Distinct, Vocabulary, <2>0 DEF NewRequest, SendReport
  <2> QED
    BY <1>17, <2>1, SendFlight DEF SendReport, Goto
<1>18. CASE ReportAnswered
  <2>1. Head(inbound) = ReportQueued(Head(queue)) /\ inbound # <<>> /\ queue' = queue
    BY <1>18, Distinct DEF ReportAnswered, Answered, Waiting, Answers, CallInv, spool
  <2>2. Has(inbound, ReportQueued(Head(queue)))
    BY <2>1, HasTail DEF ClientTyped
  <2> QED
    BY <1>18, <2>1, <2>2, AnsweredFlight DEF ReportAnswered
<1>19. CASE SendPing
  <2>0. Head(pings) \in Nat
    BY <1>19 DEF SendPing, QueuesTyped
  <2>1. ChatPingReport(Head(pings)) \in Requests /\ NewRequest(ChatPingReport(Head(pings)))
    BY <1>19, Distinct, Vocabulary, <2>0 DEF NewRequest, SendPing
  <2> QED
    BY <1>19, <2>1, SendFlight DEF SendPing, Goto
<1>20. CASE PingAnswered
  BY <1>20, AnsweredFlight DEF PingAnswered, Goto
<1>21. CASE RequestSlot
  <2>1. UpdateReady \in Requests /\ NewRequest(UpdateReady)
    BY <1>21, Distinct, Vocabulary DEF NewRequest, RequestSlot
  <2> QED
    BY <1>21, <2>1, SendFlight DEF RequestSlot, Goto
<1>22. CASE SlotAnswered
  BY <1>22, AnsweredFlight DEF SlotAnswered, Goto
<1>23. CASE PauseForUpdate
  <2>1. StateMessage(PAUSED) \in Requests /\ NewRequest(StateMessage(PAUSED))
    BY <1>23, Distinct, Vocabulary DEF NewRequest, PauseForUpdate
  <2> QED
    BY <1>23, <2>1, SendFlight, QuietFlight DEF PauseForUpdate, Goto, client, service
<1>24. CASE PausedForUpdate
  BY <1>24, AnsweredFlight DEF PausedForUpdate, Goto
<1>25. CASE UpdateFails
  <2>1. \A m : Has(inbound', m) => Has(inbound, m)
    BY <1>25, UpdateFailsInbound
  <2>2. UNCHANGED <<outbound, received, pinged>> /\ pc' = "tick"
    BY <1>25 DEF UpdateFails, service, Goto
  <2> QED
    BY <2>1, <2>2 DEF FlightChange
<1>26. CASE Ignored
  BY <1>26, AnsweredFlight DEF Ignored, rest, worker, spool
<1>27. CASE Shutdown
  <2>1. StateMessage(PAUSED) \in Requests /\ NewRequest(StateMessage(PAUSED))
    BY Distinct, Vocabulary DEF NewRequest
  <2>2. /\ inbound' = <<>> /\ pc' = "down"
        /\ UNCHANGED received /\ UNCHANGED pinged
    BY <1>27 DEF Shutdown, Die, Forget, Dropped
  <2>3. \A c \in Links : \A m : Has(outbound'[c], m) => Has(outbound[c], m) \/ NewRequest(m)
    BY <1>27, <2>1, WriteFlight DEF Shutdown
  <2> QED
    BY <2>2, <2>3, HasNone DEF FlightChange
<1>28. CASE CalmDown
  BY <1>28, QuietFlight DEF CalmDown, client, service, worker, spool
<1>29. CASE Broken
  BY <1>29, BrokenFlight DEF Broken, rest, worker, spool
<1>30. ASSUME NEW c \in Links, Served(c) PROVE FlightChange
  BY <1>30, ServeFlight DEF Served, QueuesTyped, rest, worker, spool
<1>31. ASSUME NEW c \in Links, Lost(c) PROVE FlightChange
  BY <1>31, LostFlight DEF Lost, rest, worker, spool
<1>32. CASE UNCHANGED state
  BY <1>32, QuietFlight DEF state, client, service, worker, spool
<1> QED
  BY <1>1, <1>2, <1>3, <1>4, <1>5, <1>6, <1>7, <1>8, <1>9, <1>10, <1>11, <1>12, <1>13,
     <1>14, <1>15, <1>16, <1>17, <1>18, <1>19, <1>20, <1>21, <1>22, <1>23, <1>24, <1>25,
     <1>26, <1>27, <1>28, <1>29, <1>30, <1>31, <1>32 DEF Moves, Working, Around, Tick

LEMMA SpoolStep == Typed /\ Spooled /\ FlightInv /\ [Moves]_state => SpoolChange
<1> SUFFICES ASSUME Typed, Spooled, FlightInv, [Moves]_state PROVE SpoolChange
  OBVIOUS
<1> USE Limits DEF state, client, service, worker, session, spool, update, bounds, rest,
           Goto, Typed, QueuesTyped, Spooled
<1>1. CASE BeginTick \/ ProcessStops \/ NoConnect \/ ConnectDue \/ ReadMode \/ EndRead
  BY <1>1, QuietSpool DEF BeginTick, ProcessStops, NoConnect, Dropped, ConnectDue,
     Connect, ReadMode, PauseThen, Send, Connected, EndRead
<1>2. CASE PauseSession \/ Observed \/ Observe \/ ObserveAnswered \/ ObserveFails \/
           EndReports
  BY <1>2, QuietSpool DEF PauseSession, PauseThen, Send, Connected, Dropped, Observed,
     Observe, ObserveAnswered, Answered, Waiting, ObserveFails, GiveUp, EndReports
<1>3. CASE Announce \/ Announced \/ SendReport \/ ReportAnswered \/ ReportFails \/
           EndPings \/ PingFails \/ SendPing
  BY <1>3, QuietSpool DEF Announce, Send, Connected, Announced, Answered, Waiting,
     SendReport, ReportAnswered, ReportFails, GiveUp, Dropped, EndPings, PingFails,
     SendPing
<1>4. CASE BeginUpdate \/ CandidateStaged \/ NoCandidate \/ NoCheck \/ NoUpdate \/
           UpdateOffline \/ RequestSlot \/ SlotAnswered
  BY <1>4, QuietSpool DEF BeginUpdate, CandidateStaged, NoCandidate, NoCheck, NoUpdate,
     UpdateOffline, CanUpdate, RequestSlot, Send, Connected, SlotAnswered, Answered,
     Waiting
<1>5. CASE PauseForUpdate \/ PausedForUpdate \/ UpdateFails \/ HandOffFails
  BY <1>5, QuietSpool DEF PauseForUpdate, Send, Connected, PausedForUpdate, Answered,
     Waiting, UpdateFails, CanUpdate, CallFails, Dropped, HandOffFails
<1>6. CASE ReadPing \/ ExpirePings \/ PingAnswered
  BY <1>6, QuietSpool DEF ReadPing, ExpirePings, PingAnswered, Answered, Waiting
<1>7. CASE ContextLost \/ SourceReset \/ Paused \/ PauseFails
  BY <1>7, QuietSpool DEF ContextLost, RebuildContext, PauseThen, Send, Connected,
     Dropped, SourceReset, Paused, Answered, Waiting, PauseFails, CallFails
<1>8. CASE HandOff \/ Ignored \/ Broken \/ Crash \/ Shutdown
  BY <1>8, QuietSpool DEF HandOff, Forget, Dropped, Ignored, IgnoreMessage, Waiting,
     Broken, LinkFails, Connected, Crash, Die, Shutdown
<1>9. CASE ReadEvent
  <2>1. issued' = issued + 1 /\ issued' \in Nat
    BY <1>9 DEF ReadEvent
  <2>2. /\ stored' = Append(stored, issued') /\ accepted' = accepted \union {issued'}
        /\ expired' = expired /\ pinging' = pinging
    BY <1>9 DEF ReadEvent
  <2>3. \A r : Has(Append(stored, issued'), r) <=> Has(stored, r) \/ r = issued'
    BY <2>1, AppendKeeps
  <2> QED
    BY <2>1, <2>2, <2>3 DEF SpoolChange
<1>10. CASE DiscardExpired
  <2>1. /\ stored' \in {stored, NotExpired(stored)} /\ accepted' = accepted
        /\ issued' = issued /\ expired' = expired /\ pinging' = pinging
    BY <1>10 DEF DiscardExpired
  <2>2. /\ \A r : Has(NotExpired(stored), r) => Has(stored, r)
        /\ \A r : Has(stored, r) => Has(NotExpired(stored), r) \/ r <= expired
    BY DiscardKeeps
  <2>3. CASE stored' = stored
    BY <2>1, <2>3, QuietSpool
  <2>4. CASE stored' = NotExpired(stored)
    BY <2>1, <2>2, <2>4 DEF SpoolChange
  <2> QED
    BY <2>1, <2>3, <2>4
<1>11. CASE Acknowledge
  <2>1. /\ stored' \in {stored, Tail(stored)} /\ accepted' = accepted
        /\ issued' = issued /\ expired' = expired /\ pinging' = pinging
    BY <1>11 DEF Acknowledge
  <2>2. stored # <<>> /\ Has(received, Head(stored))
    BY <1>11 DEF Acknowledge, FlightInv
  <2>3. /\ \A r : Has(Tail(stored), r) => Has(stored, r)
        /\ \A r : Has(stored, r) => Has(Tail(stored), r) \/ Has(received, r)
    BY <2>2, TailKeeps
  <2>4. CASE stored' = stored
    BY <2>1, <2>4, QuietSpool
  <2>5. CASE stored' = Tail(stored)
    BY <2>1, <2>3, <2>5 DEF SpoolChange
  <2> QED
    BY <2>1, <2>4, <2>5
<1>12. CASE EnqueueFails
  <2>1. issued' = issued + 1 /\ issued' \in Nat
    BY <1>12 DEF EnqueueFails
  <2>2. /\ stored' \in {stored, Append(stored, issued')} /\ accepted' = accepted
        /\ expired' = expired /\ pinging' = pinging
    BY <1>12 DEF EnqueueFails, WriteFails, Die, Forget
  <2>3. \A r : Has(Append(stored, issued'), r) <=> Has(stored, r) \/ r = issued'
    BY <2>1, AppendKeeps
  <2> QED
    BY <2>1, <2>2, <2>3 DEF SpoolChange
<1>13. CASE DiscardFails
  <2>1. /\ stored' \in {stored, NotExpired(stored)} /\ accepted' = accepted
        /\ issued' = issued /\ expired' = expired /\ pinging' = pinging
    BY <1>13 DEF DiscardFails, WriteFails, Die, Forget
  <2>2. /\ \A r : Has(NotExpired(stored), r) => Has(stored, r)
        /\ \A r : Has(stored, r) => Has(NotExpired(stored), r) \/ r <= expired
    BY DiscardKeeps
  <2>3. CASE stored' = stored
    BY <2>1, <2>3, QuietSpool
  <2>4. CASE stored' = NotExpired(stored)
    BY <2>1, <2>2, <2>4 DEF SpoolChange
  <2> QED
    BY <2>1, <2>3, <2>4
<1>14. CASE AcknowledgeFails
  <2>1. /\ stored' \in {stored, Tail(stored)} /\ accepted' = accepted
        /\ issued' = issued /\ expired' = expired /\ pinging' = pinging
    BY <1>14 DEF AcknowledgeFails, WriteFails, Die, Forget
  <2>2. stored # <<>> /\ Has(received, Head(stored))
    BY <1>14 DEF AcknowledgeFails, FlightInv
  <2>3. /\ \A r : Has(Tail(stored), r) => Has(stored, r)
        /\ \A r : Has(stored, r) => Has(Tail(stored), r) \/ Has(received, r)
    BY <2>2, TailKeeps
  <2>4. CASE stored' = stored
    BY <2>1, <2>4, QuietSpool
  <2>5. CASE stored' = Tail(stored)
    BY <2>1, <2>3, <2>5 DEF SpoolChange
  <2> QED
    BY <2>1, <2>4, <2>5
<1>15. CASE Restart
  <2>1. /\ stored' \in {stored, NotExpired(stored)} /\ accepted' = accepted
        /\ issued' = issued /\ expired' = expired /\ pinging' = pinging
    BY <1>15 DEF Restart
  <2>2. /\ \A r : Has(NotExpired(stored), r) => Has(stored, r)
        /\ \A r : Has(stored, r) => Has(NotExpired(stored), r) \/ r <= expired
    BY DiscardKeeps
  <2>3. CASE stored' = stored
    BY <2>1, <2>3, QuietSpool
  <2>4. CASE stored' = NotExpired(stored)
    BY <2>1, <2>2, <2>4 DEF SpoolChange
  <2> QED
    BY <2>1, <2>3, <2>4
<1>16. CASE Age
  BY <1>16, QuietSpool DEF Age
<1>17. CASE WantInstall
  BY <1>17, QuietSpool DEF WantInstall
<1>18. CASE CalmDown
  BY <1>18, QuietSpool DEF CalmDown
<1>19. ASSUME NEW c \in Links, Served(c) PROVE SpoolChange
  BY <1>19, QuietSpool DEF Served, Serve, ServeState, ServeReport, ServePing,
     ServeUpdateReady, ServeError
<1>20. ASSUME NEW c \in Links, Lost(c) PROVE SpoolChange
  BY <1>20, QuietSpool DEF Lost, LoseInFlight
<1>21. CASE UNCHANGED state
  BY <1>21, QuietSpool DEF state
<1> QED
  BY <1>1, <1>2, <1>3, <1>4, <1>5, <1>6, <1>7, <1>8, <1>9, <1>10, <1>11, <1>12, <1>13,
     <1>14, <1>15, <1>16, <1>17, <1>18, <1>19, <1>20, <1>21 DEF Moves, Working, Around, Tick

LEMMA PingsStep == Typed /\ PingsInv /\ [Moves]_state => PingsInv'
<1> SUFFICES ASSUME Typed, PingsInv, [Moves]_state PROVE PingsInv'
  OBVIOUS
<1> USE Limits DEF state, client, service, worker, session, spool, update, bounds, rest,
           Goto, Typed, QueuesTyped, PingsInv
<1>1. CASE BeginTick \/ ProcessStops \/ NoConnect \/ ConnectDue \/ ReadMode \/ EndRead \/
           ReadEvent \/ DiscardExpired \/ Acknowledge
  BY <1>1 DEF BeginTick, ProcessStops, NoConnect, Dropped, ConnectDue, Connect, ReadMode,
     PauseThen, Send, Connected, EndRead, ReadEvent, DiscardExpired, Acknowledge
<1>2. CASE PauseSession \/ Observed \/ Observe \/ ObserveAnswered \/ ObserveFails \/
           EndReports
  BY <1>2 DEF PauseSession, PauseThen, Send, Connected, Dropped, Observed, Observe,
     ObserveAnswered, Answered, Waiting, Answers, ObserveFails, GiveUp, EndReports
<1>3. CASE Announce \/ Announced \/ SendReport \/ ReportAnswered \/ ReportFails \/
           EndPings \/ PingFails \/ SendPing
  BY <1>3 DEF Announce, Send, Connected, Announced, Answered, Waiting, Answers,
     SendReport, ReportAnswered, ReportFails, GiveUp, Dropped, EndPings, PingFails,
     SendPing
<1>4. CASE BeginUpdate \/ CandidateStaged \/ NoCandidate \/ NoCheck \/ NoUpdate \/
           UpdateOffline \/ RequestSlot \/ SlotAnswered
  BY <1>4 DEF BeginUpdate, CandidateStaged, NoCandidate, NoCheck, NoUpdate, UpdateOffline,
     CanUpdate, RequestSlot, Send, Connected, SlotAnswered, Answered, Waiting, Answers
<1>5. CASE PauseForUpdate \/ PausedForUpdate \/ UpdateFails \/ HandOffFails
  BY <1>5 DEF PauseForUpdate, Send, Connected, PausedForUpdate, Answered, Waiting,
     Answers, UpdateFails, CanUpdate, CallFails, Dropped, HandOffFails
<1>6. CASE Paused \/ PauseFails \/ Restart
  BY <1>6 DEF Paused, Answered, Waiting, Answers, PauseFails, CallFails, Dropped, Restart
<1>7. CASE Ignored \/ Broken
  BY <1>7 DEF Ignored, IgnoreMessage, Waiting, Broken, LinkFails, Connected
<1>8. CASE EnqueueFails \/ DiscardFails \/ AcknowledgeFails
  BY <1>8, HasNone DEF EnqueueFails, DiscardFails, AcknowledgeFails, WriteFails, Die,
     Forget
<1>9. CASE ContextLost
  BY <1>9, HasNone DEF ContextLost, RebuildContext
<1>10. CASE SourceReset
  BY <1>10, HasNone DEF SourceReset, RebuildContext
<1>11. CASE ReadPing
  <2>1. (IF Len(pings) < MaxPendingPings THEN pings ELSE Tail(pings)) \in Seq(Nat)
    BY EmptySeq, LenProperties, TailKeeps
  <2>2. \A r : Has(IF Len(pings) < MaxPendingPings THEN pings ELSE Tail(pings), r) => Has(pings, r)
    BY EmptySeq, LenProperties, TailKeeps
  <2>3. pinging' = pinging + 1 /\ MaxReports + pinging' \in Nat
    BY <1>11 DEF ReadPing
  <2>4. \A r : Has(pings', r) => Has(pings, r) \/ r = MaxReports + pinging'
    BY <1>11, <2>1, <2>2, <2>3, AppendKeeps DEF ReadPing
  <2>5. MaxReports + pinging' \in MaxReports + 1 .. MaxReports + pinging'
    BY <2>3
  <2>6. \A r : Has(pings, r) => r \in MaxReports + 1 .. MaxReports + pinging'
    BY <2>3
  <2> QED
    BY <2>4, <2>5, <2>6
<1>12. CASE ExpirePings
  <2>1. PICK n \in 0 .. Len(pings) : pings' = SubSeq(pings, n + 1, Len(pings))
    BY <1>12 DEF ExpirePings
  <2>2. \A r : Has(pings', r) => Has(pings, r)
    BY <2>1, SuffixProperties DEF Has
  <2> QED
    BY <1>12, <2>2 DEF ExpirePings
<1>13. CASE PingAnswered
  <2>1. \A r : Has(pings', r) => Has(pings, r)
    BY <1>13, TailKeeps DEF PingAnswered
  <2> QED
    BY <1>13, <2>1 DEF PingAnswered
<1>14. CASE HandOff
  BY <1>14, HasNone DEF HandOff, Forget
<1>15. CASE Crash
  BY <1>15, HasNone DEF Crash, Die, Forget
<1>16. CASE Shutdown
  BY <1>16, HasNone DEF Shutdown, Die, Forget
<1>17. CASE Age
  BY <1>17 DEF Age
<1>18. CASE WantInstall
  BY <1>18 DEF WantInstall
<1>19. CASE CalmDown
  BY <1>19 DEF CalmDown
<1>20. ASSUME NEW c \in Links, Served(c) PROVE PingsInv'
  BY <1>20 DEF Served, Serve, ServeState, ServeReport, ServePing, ServeUpdateReady,
     ServeError, Reply, Queue
<1>21. ASSUME NEW c \in Links, Lost(c) PROVE PingsInv'
  BY <1>21 DEF Lost, LoseInFlight
<1>22. CASE UNCHANGED state
  BY <1>22 DEF state
<1> QED
  BY <1>1, <1>2, <1>3, <1>4, <1>5, <1>6, <1>7, <1>8, <1>9, <1>10, <1>11, <1>12, <1>13,
     <1>14, <1>15, <1>16, <1>17, <1>18, <1>19, <1>20, <1>21, <1>22
  DEF Moves, Working, Around, Tick

LEMMA PauseThenLink ==
    ASSUME Typed, LinkInv, ReportInv, NEW step, PauseThen(step),
           step \notin {"send", "report", "handoff"}, request = Idle, pc # "report"
    PROVE  LinkInv' /\ ReportInv'
<1>1. CASE UNCHANGED <<client, service, calm>> /\ pc' = step
  BY <1>1, QuietLink DEF client, service
<1>2. CASE Dropped /\ UNCHANGED <<service, calm>>
  BY <1>2, DroppedLink DEF Dropped, service
<1>3. CASE Send(StateMessage(PAUSED)) /\ pc' = "pause"
  <2>1. StateMessage(PAUSED) \in Requests /\ StateMessage(PAUSED).type # "report"
    BY Distinct, Vocabulary
  <2> QED
    BY <1>3, <2>1, SendLink
<1> QED
  BY <1>1, <1>2, <1>3 DEF PauseThen

LEMMA LinkStep ==
  Typed /\ LinkInv /\ ReportInv /\ [Moves]_state => LinkInv' /\
  ReportInv'
<1> SUFFICES ASSUME Typed, LinkInv, ReportInv, [Moves]_state PROVE LinkInv' /\
             ReportInv'
  OBVIOUS
<1>1. CASE BeginTick \/ ProcessStops \/ EndRead \/ ReadEvent \/ ReadPing \/ Observed \/
           DiscardExpired \/ EndReports
  BY <1>1, QuietLink DEF BeginTick, ProcessStops, EndRead, ReadEvent, ReadPing, Observed,
     DiscardExpired, EndReports, client, service, worker, Goto
<1>2. CASE Acknowledge \/ ExpirePings \/ EndPings \/ BeginUpdate \/ CandidateStaged \/
           NoCandidate \/ NoCheck \/ NoUpdate
  BY <1>2, QuietLink DEF Acknowledge, ExpirePings, EndPings, BeginUpdate,
     CandidateStaged, NoCandidate, NoCheck, NoUpdate, client, service, worker, Goto
<1>3. CASE UpdateOffline \/ HandOffFails \/ Restart
  BY <1>3, QuietLink DEF UpdateOffline, HandOffFails, Restart, CanUpdate, client,
     service, worker, Goto
<1>4. CASE Age \/ WantInstall
  BY <1>4, QuietLink DEF Age, WantInstall, client, service, worker, Goto
<1>5. CASE ObserveFails \/ ReportFails \/ PingFails
  BY <1>5, DroppedLink DEF ObserveFails, ReportFails, PingFails, GiveUp, Dropped, service
<1>6. CASE HandOff \/ EnqueueFails \/ DiscardFails \/ AcknowledgeFails \/ Crash
  BY <1>6, DroppedLink DEF HandOff, EnqueueFails, DiscardFails, AcknowledgeFails, Crash,
     WriteFails, Die, Forget, Dropped
<1>7. CASE ContextLost
  <2>1. request = Idle /\ pc # "report"
    BY <1>7 DEF ContextLost, Typed, CallInv
  <2> QED
    BY <1>7, <2>1, PauseThenLink DEF ContextLost
<1>8. CASE NoConnect
  BY <1>8, QuietLink, DroppedLink DEF NoConnect, Dropped, client, service, Goto
<1>9. CASE ConnectDue
  BY <1>9, ConnectLink DEF ConnectDue, Goto
<1>10. CASE SourceReset
  <2>1. request = Idle /\ pc # "report"
    BY <1>10 DEF SourceReset, Typed, CallInv
  <2> QED
    BY <1>10, <2>1, PauseThenLink DEF SourceReset
<1>11. CASE ReadMode
  <2>1. request = Idle /\ pc # "report"
    BY <1>11 DEF ReadMode, Typed, CallInv
  <2> QED
    BY <1>11, <2>1, PauseThenLink, QuietLink DEF ReadMode, client, service, Goto
<1>12. CASE PauseSession
  <2>1. request = Idle /\ pc # "report"
    BY <1>12 DEF PauseSession, Typed, CallInv
  <2> QED
    BY <1>12, <2>1, PauseThenLink DEF PauseSession
<1>13. CASE Paused
  BY <1>13, AnsweredLink DEF Paused, Goto, Typed, WorkerTyped
<1>14. CASE PauseFails
  BY <1>14, DroppedLink DEF PauseFails, Dropped, service
<1>15. CASE Observe
  <2>1. request = Idle /\ pc # "report"
    BY <1>15 DEF Observe, Typed, CallInv
  <2>2. StateMessage(OBSERVING) \in Requests /\ StateMessage(OBSERVING).type # "report"
    BY Distinct, Vocabulary
  <2> QED
    BY <1>15, <2>1, <2>2, SendLink DEF Observe, Goto
<1>16. CASE ObserveAnswered
  BY <1>16, AnsweredLink DEF ObserveAnswered, Goto
<1>17. CASE Announce
  <2>1. request = Idle /\ pc # "report"
    BY <1>17 DEF Announce, Typed, CallInv
  <2>2. StateMessage(OBSERVING) \in Requests /\ StateMessage(OBSERVING).type # "report"
    BY Distinct, Vocabulary
  <2> QED
    BY <1>17, <2>1, <2>2, SendLink DEF Announce, Goto
<1>18. CASE Announced
  BY <1>18, AnsweredLink DEF Announced, Goto, Typed, CallInv
<1>19. CASE SendReport
  BY <1>19, SendReportLink
<1>20. CASE ReportAnswered
  BY <1>20, AnsweredLink DEF ReportAnswered, Goto
<1>21. CASE SendPing
  <2>1. request = Idle /\ pc # "report" /\ Head(pings) \in Nat
    BY <1>21 DEF SendPing, Typed, CallInv, QueuesTyped
  <2>2. /\ ChatPingReport(Head(pings)) \in Requests
        /\ ChatPingReport(Head(pings)).type # "report"
    BY <2>1, Distinct, Vocabulary
  <2> QED
    BY <1>21, <2>1, <2>2, SendLink DEF SendPing, Goto
<1>22. CASE PingAnswered
  BY <1>22, AnsweredLink DEF PingAnswered, Goto
<1>23. CASE RequestSlot
  <2>1. request = Idle /\ pc # "report"
    BY <1>23 DEF RequestSlot, CanUpdate, Typed, CallInv
  <2>2. UpdateReady \in Requests /\ UpdateReady.type # "report"
    BY Distinct, Vocabulary
  <2> QED
    BY <1>23, <2>1, <2>2, SendLink DEF RequestSlot, Goto
<1>24. CASE SlotAnswered
  BY <1>24, AnsweredLink DEF SlotAnswered, Goto
<1>25. CASE PauseForUpdate
  <2>1. request = Idle /\ pc # "report"
    BY <1>25 DEF PauseForUpdate, Typed, CallInv
  <2>2. StateMessage(PAUSED) \in Requests /\ StateMessage(PAUSED).type # "report"
    BY Distinct, Vocabulary
  <2> QED
    BY <1>25, <2>1, <2>2, SendLink, QuietLink DEF PauseForUpdate, Goto, client, service
<1>26. CASE PausedForUpdate
  BY <1>26, AnsweredLink DEF PausedForUpdate, Goto, Typed, CallInv
<1>27. CASE UpdateFails
  <2>1. /\ pc # "report" /\ pc' = "tick" /\ UNCHANGED <<outbound, serverState>>
        /\ request # StateMessage(OBSERVING)
    BY <1>27, Distinct DEF UpdateFails, CanUpdate, Typed, CallInv, Goto, service
  <2>2. CASE Dropped
    BY <2>1, <2>2, DroppedLink DEF Dropped
  <2>3. CASE UNCHANGED <<conn, alive, acknowledged>>
    <3>1. \A m : Has(inbound', m) => Has(inbound, m)
      BY <1>27, UpdateFailsInbound DEF Typed
    <3> QED
      BY <2>1, <2>3, <3>1, TakenLink
  <2> QED
    BY <1>27, <2>2, <2>3 DEF UpdateFails
<1>28. CASE Ignored
  BY <1>28, IgnoredLink DEF Ignored, rest, worker
<1>29. CASE Shutdown
  <2>1. StateMessage(PAUSED) \in Requests /\ StateMessage(PAUSED).type # "report"
    BY Distinct, Vocabulary
  <2>2. /\ conn' = None /\ UNCHANGED serverState /\ pc # "report"
    BY <1>29 DEF Shutdown, Die, Forget, Dropped
  <2>3. CASE UNCHANGED outbound
    BY <2>2, <2>3, DroppedLink
  <2>4. CASE Connected /\ outbound' = [outbound EXCEPT ![conn] = Append(@, StateMessage(PAUSED))]
    <3>1. ReportInv'
      BY <2>1, <2>2, <2>4, WriteLink
    <3> QED
      BY <2>2, <3>1 DEF LinkInv, Connected
  <2> QED
    BY <1>29, <2>3, <2>4 DEF Shutdown
<1>30. CASE CalmDown
  BY <1>30, QuietLink DEF CalmDown, client, service, worker
<1>31. CASE Broken
  BY <1>31, BrokenLink DEF Broken, rest, worker
<1>32. ASSUME NEW c \in Links, Served(c) PROVE LinkInv' /\ ReportInv'
  BY <1>32, ServeLink DEF Served, rest, worker
<1>33. ASSUME NEW c \in Links, Lost(c) PROVE LinkInv' /\ ReportInv'
  BY <1>33, LostLink DEF Lost, rest, worker
<1>34. CASE UNCHANGED state
  BY <1>34, QuietLink DEF state, client, service, worker
<1> QED
  BY <1>1, <1>2, <1>3, <1>4, <1>5, <1>6, <1>7, <1>8, <1>9, <1>10, <1>11, <1>12, <1>13,
     <1>14, <1>15, <1>16, <1>17, <1>18, <1>19, <1>20, <1>21, <1>22, <1>23, <1>24, <1>25,
     <1>26, <1>27, <1>28, <1>29, <1>30, <1>31, <1>32, <1>33, <1>34
  DEF Moves, Working, Around, Tick

LEMMA SettledStep == Typed /\ ShownInv /\ Settled /\ [Moves]_state => Settled'
<1> SUFFICES ASSUME Typed, ShownInv, Settled, [Moves]_state PROVE Settled'
  OBVIOUS
<1>1. CASE BeginTick \/ ProcessStops \/ EndRead \/ ReadEvent \/ ReadPing \/ Observed \/
           DiscardExpired \/ EndReports
  BY <1>1, QuietSettled DEF BeginTick, ProcessStops, EndRead, ReadEvent, ReadPing,
     Observed, DiscardExpired, EndReports, client, service
<1>2. CASE Acknowledge \/ ExpirePings \/ EndPings \/ BeginUpdate \/ CandidateStaged \/
           NoCandidate \/ NoCheck \/ NoUpdate
  BY <1>2, QuietSettled DEF Acknowledge, ExpirePings, EndPings, BeginUpdate,
     CandidateStaged, NoCandidate, NoCheck, NoUpdate, client, service
<1>3. CASE UpdateOffline \/ HandOffFails \/ Restart
  BY <1>3, QuietSettled DEF UpdateOffline, HandOffFails, Restart, client, service,
     CanUpdate
<1>4. CASE Age \/ WantInstall
  BY <1>4, QuietSettled DEF Age, WantInstall, client, service
<1>5. CASE PauseFails \/ ObserveFails \/ ReportFails \/ PingFails
  BY <1>5, DroppedSettled DEF PauseFails, ObserveFails, ReportFails, PingFails, GiveUp,
     Dropped
<1>6. CASE HandOff \/ EnqueueFails \/ DiscardFails \/ AcknowledgeFails \/ Crash \/
           Shutdown
  BY <1>6, DroppedSettled DEF HandOff, EnqueueFails, DiscardFails, AcknowledgeFails,
     Crash, Shutdown, WriteFails, Die, Forget, Dropped
<1>7. CASE ContextLost
  <2>1. request = Idle
    BY <1>7 DEF ContextLost, Typed, CallInv
  <2> QED
    BY <1>7, <2>1, PauseThenSettled DEF ContextLost
<1>8. CASE NoConnect
  BY <1>8, QuietSettled, DroppedSettled DEF NoConnect, Dropped, client, service
<1>9. CASE ConnectDue
  BY <1>9, ConnectSettled DEF ConnectDue
<1>10. CASE SourceReset
  <2>1. request = Idle
    BY <1>10 DEF SourceReset, Typed, CallInv
  <2> QED
    BY <1>10, <2>1, PauseThenSettled DEF SourceReset
<1>11. CASE ReadMode
  <2>1. request = Idle
    BY <1>11 DEF ReadMode, Typed, CallInv
  <2> QED
    BY <1>11, <2>1, PauseThenSettled, QuietSettled DEF ReadMode, client, service
<1>12. CASE PauseSession
  <2>1. request = Idle
    BY <1>12 DEF PauseSession, Typed, CallInv
  <2> QED
    BY <1>12, <2>1, PauseThenSettled DEF PauseSession
<1>13. CASE Paused
  BY <1>13, AnsweredSettled DEF Paused
<1>14. CASE Observe
  <2>1. request = Idle /\ StateMessage(OBSERVING) # Idle /\ StateMessage(OBSERVING) \in Requests
    BY <1>14, Distinct, Vocabulary DEF Observe, Typed, CallInv
  <2> QED
    BY <1>14, <2>1, SendSettled DEF Observe
<1>15. CASE ObserveAnswered
  BY <1>15, AnsweredSettled DEF ObserveAnswered
<1>16. CASE Announce
  <2>1. request = Idle /\ StateMessage(OBSERVING) # Idle /\ StateMessage(OBSERVING) \in Requests
    BY <1>16, Distinct, Vocabulary DEF Announce, Typed, CallInv
  <2> QED
    BY <1>16, <2>1, SendSettled DEF Announce
<1>17. CASE Announced
  BY <1>17, AnsweredSettled DEF Announced
<1>18. CASE SendReport
  <2>1. request = Idle /\ EventReport(Head(queue)) # Idle /\ EventReport(Head(queue)) \in Requests
    BY <1>18, Distinct, Vocabulary DEF SendReport, Typed, CallInv, QueuesTyped
  <2> QED
    BY <1>18, <2>1, SendSettled DEF SendReport
<1>19. CASE ReportAnswered
  BY <1>19, AnsweredSettled DEF ReportAnswered
<1>20. CASE SendPing
  <2>1. request = Idle /\ ChatPingReport(Head(pings)) # Idle /\ ChatPingReport(Head(pings)) \in Requests
    BY <1>20, Distinct, Vocabulary DEF SendPing, Typed, CallInv, QueuesTyped
  <2> QED
    BY <1>20, <2>1, SendSettled DEF SendPing
<1>21. CASE PingAnswered
  BY <1>21, AnsweredSettled DEF PingAnswered
<1>22. CASE RequestSlot
  <2>1. request = Idle /\ UpdateReady # Idle /\ UpdateReady \in Requests
    BY <1>22, Distinct, Vocabulary DEF RequestSlot, CanUpdate, Typed, CallInv
  <2> QED
    BY <1>22, <2>1, SendSettled DEF RequestSlot
<1>23. CASE SlotAnswered
  BY <1>23, AnsweredSettled DEF SlotAnswered
<1>24. CASE PauseForUpdate
  <2>1. request = Idle /\ StateMessage(PAUSED) # Idle /\ StateMessage(PAUSED) \in Requests
    BY <1>24, Distinct, Vocabulary DEF PauseForUpdate, Typed, CallInv
  <2> QED
    BY <1>24, <2>1, SendSettled, QuietSettled DEF PauseForUpdate, client, service
<1>25. CASE PausedForUpdate
  BY <1>25, AnsweredSettled DEF PausedForUpdate
<1>26. CASE UpdateFails
  BY <1>26, Distinct DEF UpdateFails, CanUpdate, ShownInv
<1>27. CASE Ignored
  BY <1>27, IgnoredSettled DEF Ignored
<1>28. CASE CalmDown
  BY <1>28, QuietSettled DEF CalmDown, client, service
<1>29. CASE Broken
  BY <1>29, BrokenSettled DEF Broken
<1>30. ASSUME NEW c \in Links, Served(c) PROVE Settled'
  BY <1>30, ServeSettled DEF Served
<1>31. ASSUME NEW c \in Links, Lost(c) PROVE Settled'
  BY <1>31, BrokenSettled DEF Lost
<1>32. CASE UNCHANGED state
  BY <1>32, QuietSettled DEF state, client, service
<1> QED
  BY <1>1, <1>2, <1>3, <1>4, <1>5, <1>6, <1>7, <1>8, <1>9, <1>10, <1>11, <1>12, <1>13,
     <1>14, <1>15, <1>16, <1>17, <1>18, <1>19, <1>20, <1>21, <1>22, <1>23, <1>24, <1>25,
     <1>26, <1>27, <1>28, <1>29, <1>30, <1>31, <1>32 DEF Moves, Working, Around, Tick

LEMMA ShownStep ==
  MaxUpdates = 0 /\ Typed /\ ShownInv /\ [Moves]_state =>
  ShownInv'
<1> SUFFICES ASSUME MaxUpdates = 0, Typed, ShownInv, [Moves]_state PROVE ShownInv'
  OBVIOUS
<1> USE Distinct, Limits DEF state, client, service, worker, session, spool, update,
           bounds, rest, Goto, Typed, ClientTyped, CallInv, WorkerTyped, ShownInv,
           Connected
<1>1. CASE BeginTick \/ ProcessStops \/ EndRead \/ ReadEvent \/ ReadPing \/ Observed \/
           DiscardExpired \/ EndReports
  BY <1>1 DEF BeginTick, ProcessStops, EndRead, ReadEvent, ReadPing, Observed,
     DiscardExpired, EndReports
<1>2. CASE Acknowledge \/ ExpirePings \/ EndPings \/ BeginUpdate \/ CandidateStaged \/
           NoCandidate \/ NoCheck \/ NoUpdate
  BY <1>2 DEF Acknowledge, ExpirePings, EndPings, BeginUpdate, CandidateStaged,
     NoCandidate, NoCheck, NoUpdate
<1>3. CASE HandOffFails \/ Restart
  BY <1>3 DEF HandOffFails, Restart
<1>4. CASE Age \/ WantInstall
  BY <1>4 DEF Age, WantInstall
<1>5. CASE PauseFails \/ ObserveFails \/ ReportFails \/ PingFails
  BY <1>5 DEF PauseFails, CallFails, Dropped, ObserveFails, GiveUp, ReportFails, PingFails
<1>6. CASE HandOff \/ EnqueueFails \/ DiscardFails \/ AcknowledgeFails \/ Crash \/
           Shutdown
  BY <1>6 DEF HandOff, Forget, Dropped, EnqueueFails, WriteFails, Die, DiscardFails,
     AcknowledgeFails, Crash, Connected, Shutdown
<1>7. CASE ContextLost
  BY <1>7 DEF ContextLost, RebuildContext, PauseThen, Send, Connected, Dropped
<1>8. CASE NoConnect
  BY <1>8 DEF NoConnect, Dropped
<1>9. CASE ConnectDue
  BY <1>9 DEF ConnectDue, Connect
<1>10. CASE SourceReset
  BY <1>10 DEF SourceReset, RebuildContext, PauseThen, Send, Connected, Dropped
<1>11. CASE ReadMode
  BY <1>11 DEF ReadMode, PauseThen, Send, Connected, Dropped
<1>12. CASE PauseSession
  BY <1>12 DEF PauseSession, PauseThen, Send, Connected, Dropped
<1>13. CASE Paused
  BY <1>13 DEF Paused, Answered, Waiting, Answers
<1>14. CASE Observe
  BY <1>14 DEF Observe, Send, Connected
<1>15. CASE ObserveAnswered
  BY <1>15 DEF ObserveAnswered, Answered, Waiting, Answers
<1>16. CASE Announce
  BY <1>16 DEF Announce, Send, Connected
<1>17. CASE Announced
  BY <1>17 DEF Announced, Answered, Waiting, Answers
<1>18. CASE SendReport
  BY <1>18 DEF SendReport, Send, Connected
<1>19. CASE ReportAnswered
  BY <1>19 DEF ReportAnswered, Answered, Waiting, Answers
<1>20. CASE SendPing
  BY <1>20 DEF SendPing, Send, Connected
<1>21. CASE PingAnswered
  BY <1>21 DEF PingAnswered, Answered, Waiting, Answers
<1>22. CASE UpdateOffline
  BY <1>22 DEF UpdateOffline, CanUpdate
<1>23. CASE RequestSlot
  BY <1>23 DEF RequestSlot, CanUpdate, Send, Connected
<1>24. CASE SlotAnswered
  BY <1>24 DEF SlotAnswered, Answered, Waiting, Answers
<1>25. CASE PauseForUpdate
  BY <1>25 DEF PauseForUpdate, Send, Connected
<1>26. CASE PausedForUpdate
  BY <1>26 DEF PausedForUpdate, Answered, Waiting, Answers
<1>27. CASE UpdateFails
  BY <1>27 DEF UpdateFails, CanUpdate, CallFails, Dropped
<1>28. CASE Ignored
  BY <1>28 DEF Ignored, IgnoreMessage, Waiting
<1>29. CASE CalmDown
  BY <1>29 DEF CalmDown
<1>30. CASE Broken
  BY <1>30 DEF Broken, LinkFails, Connected
<1>31. ASSUME NEW c \in Links, Served(c) PROVE ShownInv'
  BY <1>31 DEF Served, Serve
<1>32. ASSUME NEW c \in Links, Lost(c) PROVE ShownInv'
  BY <1>32 DEF Lost, LoseInFlight
<1>33. CASE UNCHANGED state
  BY <1>33 DEF state
<1> QED
  BY <1>1, <1>2, <1>3, <1>4, <1>5, <1>6, <1>7, <1>8, <1>9, <1>10, <1>11, <1>12, <1>13,
     <1>14, <1>15, <1>16, <1>17, <1>18, <1>19, <1>20, <1>21, <1>22, <1>23, <1>24, <1>25,
     <1>26, <1>27, <1>28, <1>29, <1>30, <1>31, <1>32, <1>33 DEF Moves, Working, Around, Tick

-----------------------------------------------------------------------------
(* The invariant, of the specification with and without fairness.           *)
LEMMA SentNone ==
    DeliveryInit => \A r : ~Sent(r) /\ ~PingInFlight(r)
<1> SUFFICES ASSUME DeliveryInit PROVE \A r : ~Sent(r) /\ ~PingInFlight(r)
  OBVIOUS
<1>1. received = <<>> /\ \A c \in Links : outbound[c] = <<>>
  BY DEF DeliveryInit, RealtimeInit
<1> QED
  BY <1>1, HasNone DEF Sent, InFlight, PingInFlight

LEMMA InvInit == DeliveryInit => DeliveryInv
<1> SUFFICES ASSUME DeliveryInit PROVE DeliveryInv
  OBVIOUS
<1> USE DEF DeliveryInit, RealtimeInit
<1>1. ClientTyped /\ CallInv
  BY Vocabulary DEF ClientTyped, CallInv
<1>2. WorkerTyped
  <2>1. pc \in Steps /\ batch \in 0 .. MaxPerTick
    BY Limits DEF Steps
  <2>2. pc \notin {"announce", "send", "report", "acknowledge", "pinged"}
    OBVIOUS
  <2>3. resume \in {"tick", "connect", "read", "session", "pings", "update"}
    OBVIOUS
  <2>4. mode \in {"unknown", "master_sword", "other"}
    OBVIOUS
  <2>5. /\ confirmed \in BOOLEAN /\ observing \in BOOLEAN /\ pending \in BOOLEAN
        /\ manual \in BOOLEAN /\ hadPending \in BOOLEAN /\ wanted \in BOOLEAN
    OBVIOUS
  <2> QED
    BY <2>1, <2>2, <2>3, <2>4, <2>5 DEF WorkerTyped
<1>3. QueuesTyped
  BY Vocabulary, Limits, EmptySeq DEF QueuesTyped
<1>4. Spooled /\ PingsInv
  BY HasNone, EmptySeq DEF Spooled, PingsInv, Increasing
<1>5. FlightInv
  BY HasNone, SentNone DEF FlightInv, Sent
<1>6. LinkInv /\ ReportInv
  BY HasNone DEF LinkInv, Connected, ReportInv
<1>7. HeldInv /\ OrderInv
  BY SentNone DEF HeldInv, OrderInv
<1>8. InOrder
  BY EmptySeq DEF InOrder
<1> QED
  BY <1>1, <1>2, <1>3, <1>4, <1>5, <1>6, <1>7, <1>8 DEF DeliveryInv, Typed

LEMMA InvStep == DeliveryInv /\ [Moves]_state => DeliveryInv'
<1> SUFFICES ASSUME DeliveryInv, [Moves]_state PROVE DeliveryInv'
  OBVIOUS
<1> USE DEF DeliveryInv
<1>1. Typed'
  BY ClientTypedStep, CallStep, WorkerTypedStep, QueuesTypedStep DEF Typed
<1>2. FlightChange /\ SpoolChange
  BY FlightStep, SpoolStep
<1>3. Spooled' /\ PingsInv'
  BY SpooledStep, PingsStep
<1>4. FlightInv'
  BY <1>1, <1>2, FlightInvStep
<1>5. LinkInv' /\ ReportInv'
  BY LinkStep
<1>6. HeldInv' /\ OrderInv' /\ InOrder'
  BY <1>2, HeldStep, OrderStep, InOrderStep
<1> QED
  BY <1>1, <1>3, <1>4, <1>5, <1>6

LEMMA DeliveryInvariant == Spec \/ FairSpec => []DeliveryInv
BY OnlyMoves, InvInit, InvStep, PTL DEF Spec, FairSpec

LEMMA StalledTyped == Spec \/ FairSpec => [](stalled \in BOOLEAN)
<1>1. DeliveryInit => stalled \in BOOLEAN
  BY DEF DeliveryInit
<1>2. stalled \in BOOLEAN /\ ([Next]_vars \/ [CalmingNext]_vars) => (stalled \in BOOLEAN)'
  BY DEF Next, CalmingNext, Stalls, Resumes, vars
<1> QED
  BY <1>1, <1>2, PTL DEF Spec, FairSpec

(* What the worker holds has its type, its queues hold what was observed,   *)
(* and it waits for an answer exactly in the steps that make a request.     *)
THEOREM DeliveryTypes == Spec \/ FairSpec => []TypeOK
<1>1. DeliveryInv /\ stalled \in BOOLEAN => TypeOK
  <2> SUFFICES ASSUME DeliveryInv, stalled \in BOOLEAN PROVE TypeOK
    OBVIOUS
  <2> USE DEF DeliveryInv, Typed
  <2>1. ToSet(queue) \subseteq 1 .. issued /\ ToSet(stored) \subseteq 1 .. issued
    BY LenProperties, HasNone DEF ToSet, Has, Spooled, QueuesTyped
  <2>2. ToSet(received) \subseteq 1 .. issued
    BY LenProperties DEF ToSet, Has, FlightInv, QueuesTyped
  <2>3. ToSet(pings) \subseteq MaxReports + 1 .. MaxReports + pinging
    BY LenProperties DEF ToSet, Has, PingsInv, QueuesTyped
  <2>4. (request # Idle) <=>
           pc \in {"observe", "announce", "report", "pinged", "slot", "quiesce", "pause"}
    BY Distinct DEF CallInv
  <2>5. pinged \subseteq MaxReports + 1 .. MaxReports + pinging
    BY DEF FlightInv
  <2>6. {ToSet(queue), ToSet(stored), ToSet(received), accepted} \subseteq SUBSET (1 .. issued)
    BY <2>1, <2>2 DEF Spooled
  <2>7. resume \in Steps \ {"pause", "down"}
    BY DEF WorkerTyped, Steps
  <2> QED
    BY <2>3, <2>4, <2>5, <2>6, <2>7 DEF TypeOK, WorkerTyped, QueuesTyped, ClientTyped
<1> QED
  BY <1>1, DeliveryInvariant, StalledTyped, PTL

(* A report whose enqueue returned Ok is on disk, or with the service, or   *)
(* older than 30 minutes, whatever links fail, answers are late, writes     *)
(* fail or deaths of the worker come in between.                            *)
THEOREM DeliveryNothingLost == Spec \/ FairSpec => []NothingLost
<1>1. DeliveryInv => NothingLost
  <2> SUFFICES ASSUME DeliveryInv, NEW r \in accepted
               PROVE  r \in ToSet(stored) \/ r \in ToSet(received) \/ r <= expired
    BY DEF NothingLost
  <2>1. Has(stored, r) \/ Has(received, r) \/ r <= expired
    BY DEF DeliveryInv, HeldInv, Spooled
  <2>2. stored \in Seq(Nat) /\ received \in Seq(Nat)
    BY DEF DeliveryInv, Typed, QueuesTyped
  <2> QED
    BY <2>1, <2>2, LenProperties DEF ToSet, Has
<1> QED
  BY <1>1, DeliveryInvariant, PTL

(* The service queues reports in the order in which they were observed,     *)
(* except for one that is too old already.                                  *)
THEOREM DeliveryInOrder == Spec \/ FairSpec => []InOrder
<1>1. DeliveryInv => InOrder
  BY DEF DeliveryInv
<1> QED
  BY <1>1, DeliveryInvariant, PTL

(* No report reaches the service on a link where it takes the collector to  *)
(* be PAUSED.                                                               *)
THEOREM DeliveryReportsWhileObserving == Spec \/ FairSpec => []ReportsWhileObserving
<1>1. DeliveryInv => ReportsWhileObserving
  <2> SUFFICES ASSUME DeliveryInv, NEW c \in Links, outbound[c] # <<>>,
                      Head(outbound[c]).type = "report"
               PROVE  serverState[c] = OBSERVING
    BY DEF ReportsWhileObserving
  <2>1. outbound[c] \in Seq(Requests) /\ Head(outbound[c]) \in Requests
    BY DEF DeliveryInv, Typed, ClientTyped
  <2>2. Head(outbound[c]) = EventReport(Head(outbound[c]).value)
    BY <2>1 DEF Requests, EventReport, Message
  <2>3. Has(outbound[c], EventReport(Head(outbound[c]).value))
    BY <2>1, <2>2, HasTail
  <2> QED
    BY <2>3 DEF DeliveryInv, ReportInv
<1> QED
  BY <1>1, DeliveryInvariant, PTL

(* When the executable is handed to the updater over a live connection the  *)
(* service knows that the collector has stopped observing.                  *)
THEOREM DeliveryPausedAtHandOff == Spec \/ FairSpec => []PausedAtHandOff
<1>1. DeliveryInv => PausedAtHandOff
  BY Distinct DEF DeliveryInv, LinkInv, Typed, CallInv, PausedAtHandOff
<1> QED
  BY <1>1, DeliveryInvariant, PTL

-----------------------------------------------------------------------------
(* The promise of module Reporting.  Of a step of the worker, the service   *)
(* or the environment it sees what is on disk, with the service and too     *)
(* old; most steps change none of it.                                       *)
Unseen == UNCHANGED <<issued, accepted, stored, received, expired>>

Promised == [Promise!Next]_(Promise!vars)

LEMMA UnseenStep == Unseen => Promised
BY DEF Unseen, Promised, Promise!vars

(* A queue from which the reports that are too old were taken.              *)
LEMMA DiscardReleases ==
    ASSUME stored \in Seq(Nat), expired \in Nat, stored' = NotExpired(stored),
           UNCHANGED <<issued, accepted, received, expired>>
    PROVE  Promised
<1>1. PICK n \in 0 .. Len(stored) : /\ stored' = SubSeq(stored, n + 1, Len(stored))
                                    /\ \A i \in 1 .. n : stored[i] <= expired
  BY NotExpiredProperties
<1>2. Len(stored) \in Nat
  BY LenProperties
<1>3. CASE n = 0
  <2>1. stored' = stored
    BY <1>1, <1>3, SuffixProperties, SeqEqual
  <2> QED
    BY <2>1, UnseenStep DEF Unseen
<1>4. CASE n # 0
  <2>1. n \in 1 .. Len(stored)
    BY <1>2, <1>4
  <2> QED
    BY <1>1, <2>1 DEF Promised, Promise!Next, Promise!Release, Promise!Done
<1> QED
  BY <1>3, <1>4

(* A queue whose first report was delivered.                                *)
LEMMA AcknowledgeReleases ==
    ASSUME stored \in Seq(Nat), stored # <<>>, Has(received, Head(stored)),
           stored' = Tail(stored), UNCHANGED <<issued, accepted, received, expired>>
    PROVE  Promised
<1>1. Len(stored) \in Nat /\ Len(stored) # 0 /\ Head(stored) = stored[1]
  BY EmptySeq, LenProperties
<1>2. 1 \in 1 .. Len(stored) /\ stored' = SubSeq(stored, 1 + 1, Len(stored))
  BY <1>1
<1>3. \A i \in 1 .. 1 : Promise!Done(stored[i])
  BY <1>1 DEF Has, Promise!Done, Promise!Queued
<1> QED
  BY <1>2, <1>3 DEF Promised, Promise!Next, Promise!Release

(* The service takes a report from a link: it was sent, and what was        *)
(* observed before it and can still be sent is with the service or too old. *)
LEMMA ServeDelivers ==
    ASSUME DeliveryInv, NEW c \in Links, Served(c)
    PROVE  Promised
<1> DEFINE m == Head(outbound[c])
           r == m.value
<1>1. UNCHANGED <<issued, accepted, stored, expired>>
  BY DEF Served, rest, spool, bounds
<1>2. ClientTyped /\ received \in Seq(Nat) /\ issued \in Nat /\ Serve(c)
  BY DEF DeliveryInv, Typed, QueuesTyped, Served
<1>3. /\ m \in Requests
      /\ \/ received' = received
         \/ /\ m.type = "report" /\ r \in Nat
            /\ ~Has(received, r)
            /\ received' = Append(received, r)
  BY <1>2, ServeReceives
<1>4. outbound[c] \in Seq(Requests) /\ outbound[c] # <<>>
  BY <1>2 DEF ClientTyped, Serve
<1>5. Has(outbound[c], m)
  BY <1>4, HasTail
<1> HIDE DEF m
<1>6. CASE received' = received
  BY <1>1, <1>6, UnseenStep DEF Unseen
<1>7. CASE /\ m.type = "report" /\ r \in Nat /\ ~Has(received, r)
           /\ received' = Append(received, r)
  <2>1. InFlight(r)
    BY <1>3, <1>5, <1>7 DEF InFlight, Requests, EventReport, Message
  <2>2. Sent(r) /\ r \in 1 .. issued
    BY <2>1 DEF Sent, DeliveryInv, FlightInv
  <2>3. Has(stored, r) \/ r <= expired
    BY <1>7, <2>2 DEF DeliveryInv, HeldInv
  <2>4. \A q \in 1 .. issued : q < r /\ Has(stored, q) => Has(received, q) \/ q <= expired
    BY <2>2 DEF DeliveryInv, OrderInv
  <2>5. \A q \in 1 .. issued : r < q /\ Has(received, q) => r <= expired
    BY <1>7, <2>2 DEF DeliveryInv, OrderInv, Sent
  <2>6. \A q : /\ Promise!Kept(q) <=> Has(stored, q)
               /\ Promise!Queued(q) <=> Has(received, q)
               /\ Promise!Done(q) <=> Has(received, q) \/ q <= expired
    BY DEF Promise!Kept, Promise!Queued, Promise!Done, Has
  <2>7. Promise!Deliver
    BY <1>1, <1>7, <2>2, <2>3, <2>4, <2>5, <2>6 DEF Promise!Deliver
  <2> QED
    BY <2>7 DEF Promised, Promise!Next
<1> QED
  BY <1>3, <1>6, <1>7

(* Every step of the worker and what surrounds it is a step that the        *)
(* promise allows, or one that it does not see.                             *)
LEMMA PromiseStep == DeliveryInv /\ [Moves]_state => Promised
<1> SUFFICES ASSUME DeliveryInv, [Moves]_state PROVE Promised
  OBVIOUS
<1>0. /\ stored \in Seq(Nat) /\ expired \in Nat
      /\ pc # "down" => queue = stored
      /\ pc = "acknowledge" => queue # <<>> /\ Has(received, Head(queue))
  BY DEF DeliveryInv, Typed, QueuesTyped, Spooled, FlightInv
<1> USE DEF state, client, service, worker, session, spool, update, bounds, rest, Goto
<1>1. CASE BeginTick \/ ProcessStops \/ NoConnect \/ ConnectDue \/ ReadMode \/ EndRead
  BY <1>1, UnseenStep DEF Unseen, BeginTick, ProcessStops, NoConnect, Dropped, ConnectDue,
     Connect, ReadMode, PauseThen, Send, Connected, EndRead
<1>2. CASE PauseSession \/ Observed \/ Observe \/ ObserveAnswered \/ ObserveFails \/
           EndReports
  BY <1>2, UnseenStep DEF Unseen, PauseSession, PauseThen, Send, Connected, Dropped, Observed,
     Observe, ObserveAnswered, Answered, Waiting, ObserveFails, GiveUp, EndReports
<1>3. CASE Announce \/ Announced \/ SendReport \/ ReportAnswered \/ ReportFails \/
           EndPings \/ PingFails \/ SendPing
  BY <1>3, UnseenStep DEF Unseen, Announce, Send, Connected, Announced, Answered, Waiting,
     SendReport, ReportAnswered, ReportFails, GiveUp, Dropped, EndPings, PingFails,
     SendPing
<1>4. CASE BeginUpdate \/ CandidateStaged \/ NoCandidate \/ NoCheck \/ NoUpdate \/
           UpdateOffline \/ RequestSlot \/ SlotAnswered
  BY <1>4, UnseenStep DEF Unseen, BeginUpdate, CandidateStaged, NoCandidate, NoCheck,
     NoUpdate, UpdateOffline, CanUpdate, RequestSlot, Send, Connected, SlotAnswered, Answered,
     Waiting
<1>5. CASE PauseForUpdate \/ PausedForUpdate \/ UpdateFails \/ HandOffFails
  BY <1>5, UnseenStep DEF Unseen, PauseForUpdate, Send, Connected, PausedForUpdate, Answered,
     Waiting, UpdateFails, CanUpdate, CallFails, Dropped, HandOffFails
<1>6. CASE ReadPing \/ ExpirePings \/ PingAnswered
  BY <1>6, UnseenStep DEF Unseen, ReadPing, ExpirePings, PingAnswered, Answered, Waiting
<1>7. CASE ContextLost \/ SourceReset \/ Paused \/ PauseFails
  BY <1>7, UnseenStep DEF Unseen, ContextLost, RebuildContext, PauseThen, Send, Connected,
     Dropped, SourceReset, Paused, Answered, Waiting, PauseFails, CallFails
<1>8. CASE HandOff \/ Ignored \/ Broken \/ Crash \/ Shutdown
  BY <1>8, UnseenStep DEF Unseen, HandOff, Forget, Dropped, Ignored, IgnoreMessage, Waiting,
     Broken, LinkFails, Connected, Crash, Die, Shutdown
<1>9. CASE ReadEvent
  <2>1. stored' = Append(stored, issued')
    BY <1>0, <1>9 DEF ReadEvent
  <2> QED
    BY <1>9, <2>1 DEF ReadEvent, Promised, Promise!Next, Promise!Observe
<1>10. CASE EnqueueFails
  <2>1. stored' \in {stored, Append(stored, issued')}
    BY <1>0, <1>10 DEF EnqueueFails, WriteFails
  <2> QED
    BY <1>10, <2>1 DEF EnqueueFails, WriteFails, Die, Forget, Promised, Promise!Next,
       Promise!ObserveFails
<1>11. CASE DiscardExpired \/ Restart
  <2>1. stored' = NotExpired(stored)
    BY <1>0, <1>11 DEF DiscardExpired, Restart
  <2> QED
    BY <1>0, <1>11, <2>1, DiscardReleases DEF DiscardExpired, Restart
<1>12. CASE DiscardFails
  <2>1. /\ stored' \in {stored, NotExpired(stored)}
        /\ UNCHANGED <<issued, accepted, received, expired>>
    BY <1>0, <1>12 DEF DiscardFails, WriteFails, Die, Forget
  <2> QED
    BY <1>0, <2>1, DiscardReleases, UnseenStep DEF Unseen
<1>13. CASE Acknowledge \/ AcknowledgeFails
  <2>1. /\ stored' \in {stored, Tail(stored)}
        /\ UNCHANGED <<issued, accepted, received, expired>>
    BY <1>0, <1>13 DEF Acknowledge, AcknowledgeFails, WriteFails, Die, Forget
  <2>2. stored # <<>> /\ Has(received, Head(stored))
    BY <1>0, <1>13 DEF Acknowledge, AcknowledgeFails
  <2> QED
    BY <1>0, <2>1, <2>2, AcknowledgeReleases, UnseenStep DEF Unseen
<1>14. CASE Age
  BY <1>14 DEF Age, Promised, Promise!Next, Promise!Expire
<1>15. CASE WantInstall \/ CalmDown
  BY <1>15, UnseenStep DEF Unseen, WantInstall, CalmDown
<1>16. ASSUME NEW c \in Links, Served(c) PROVE Promised
  BY <1>16, ServeDelivers
<1>17. ASSUME NEW c \in Links, Lost(c) PROVE Promised
  BY <1>17, UnseenStep DEF Unseen, Lost, LoseInFlight
<1>18. CASE UNCHANGED state
  BY <1>18, UnseenStep DEF Unseen
<1> QED
  BY <1>1, <1>2, <1>3, <1>4, <1>5, <1>6, <1>7, <1>8, <1>9, <1>10, <1>11, <1>12, <1>13,
     <1>14, <1>15, <1>16, <1>17, <1>18 DEF Moves, Working, Around, Tick

(* The worker, the client, its links and the service together implement     *)
(* what the collector promises (module Reporting): calls, late answers,     *)
(* redelivery, deaths, restarts and updates are steps it does not see.      *)
THEOREM DeliveryKeepsPromise == Spec \/ FairSpec => DeliversReports
<1>1. DeliveryInit => Promise!Init
  BY DEF DeliveryInit, RealtimeInit, Promise!Init
<1>2. DeliveryInv /\ [Moves]_state => [Promise!Next]_(Promise!vars)
  BY PromiseStep DEF Promised
<1> QED
  BY <1>1, <1>2, OnlyMoves, DeliveryInvariant, PTL
  DEF Spec, FairSpec, DeliversReports, Promise!Spec

(* What the promise is worth: whatever keeps it loses nothing that was      *)
(* accepted and keeps the order, as the worker has been shown to            *)
(* (DeliveryNothingLost, DeliveryInOrder) by what is on its links.          *)
PromiseInv ==
    /\ issued \in Nat /\ expired \in Nat
    /\ stored \in Seq(Nat) /\ received \in Seq(Nat)
    /\ accepted \subseteq Nat /\ \A r : Has(received, r) => r \in 1 .. issued
    /\ \A r \in accepted : Has(stored, r) \/ Has(received, r) \/ r <= expired
    /\ InOrder

LEMMA PromiseInvStep == PromiseInv /\ Promised => PromiseInv'
<1> SUFFICES ASSUME PromiseInv, Promised PROVE PromiseInv'
  OBVIOUS
<1>0. \A q : /\ Promise!Kept(q) <=> Has(stored, q)
             /\ Promise!Queued(q) <=> Has(received, q)
             /\ Promise!Done(q) <=> Has(received, q) \/ q <= expired
  BY DEF Promise!Kept, Promise!Queued, Promise!Done, Has
<1>1. CASE Promise!Observe \/ Promise!ObserveFails
  <2>1. /\ issued' \in Nat /\ issued' = issued + 1 /\ UNCHANGED <<received, expired>>
        /\ stored' \in {stored, Append(stored, issued')}
        /\ accepted' = accepted \/ (/\ accepted' = accepted \union {issued'}
                                    /\ stored' = Append(stored, issued'))
    BY <1>1 DEF Promise!Observe, Promise!ObserveFails, PromiseInv
  <2>2. /\ Append(stored, issued') \in Seq(Nat)
        /\ \A r : Has(Append(stored, issued'), r) <=> Has(stored, r) \/ r = issued'
    BY <2>1, AppendKeeps DEF PromiseInv
  <2>3. InOrder'
    BY <2>1 DEF InOrder, PromiseInv
  <2>4. \A r \in accepted' : Has(stored', r) \/ Has(received', r) \/ r <= expired'
    <3>1. \A r \in accepted' : r \in accepted \/ (r = issued' /\ stored' = Append(stored, issued'))
      BY <2>1
    <3>2. \A r : Has(received', r) <=> Has(received, r)
      BY <2>1 DEF Has
    <3> QED
      BY <2>1, <2>2, <3>1, <3>2 DEF PromiseInv
  <2>5. \A r : Has(received', r) => r \in 1 .. issued'
    <3>1. \A r : Has(received', r) <=> Has(received, r)
      BY <2>1 DEF Has
    <3>2. 1 .. issued \subseteq 1 .. issued'
      BY <2>1 DEF PromiseInv
    <3> QED
      BY <3>1, <3>2 DEF PromiseInv
  <2>6. stored' \in Seq(Nat) /\ received' \in Seq(Nat) /\ accepted' \subseteq Nat
    BY <2>1, <2>2 DEF PromiseInv
  <2> QED
    BY <2>1, <2>3, <2>4, <2>5, <2>6 DEF PromiseInv
<1>2. CASE Promise!Deliver
  <2>1. PICK r \in 1 .. issued :
          /\ received' = Append(received, r)
          /\ \A q \in 1 .. issued : r < q /\ Has(received, q) => r <= expired
          /\ UNCHANGED <<issued, accepted, stored, expired>>
    BY <1>0, <1>2 DEF Promise!Deliver
  <2>2. r \in Nat /\ received \in Seq(Nat) /\ Len(received) \in Nat
    BY <2>1, LenProperties DEF PromiseInv
  <2>3. /\ received' \in Seq(Nat) /\ Len(received') = Len(received) + 1
        /\ received'[Len(received) + 1] = r
        /\ \A i \in 1 .. Len(received) : received'[i] = received[i]
        /\ \A q : Has(received', q) <=> Has(received, q) \/ q = r
    BY <2>1, <2>2, AppendProperties, AppendKeeps
  <2>4. \A i, j \in 1 .. Len(received) :
          i < j /\ received[i] > received[j] => received[j] <= expired
    BY <2>2, LenProperties DEF PromiseInv, InOrder
  <2>5. ASSUME NEW i \in 1 .. Len(received'), NEW j \in 1 .. Len(received'),
               i < j, received'[i] > received'[j]
        PROVE  received'[j] <= expired'
    <3>1. i \in 1 .. Len(received) /\ received'[i] = received[i] /\ received[i] \in 1 .. issued
      BY <2>2, <2>3, <2>5 DEF PromiseInv, Has
    <3>2. CASE j \in 1 .. Len(received)
      BY <2>1, <2>3, <2>4, <2>5, <3>1, <3>2
    <3>3. CASE j = Len(received) + 1
      BY <2>1, <2>3, <2>5, <3>1, <3>3 DEF Has
    <3> QED
      BY <2>2, <2>3, <3>2, <3>3
  <2>6. InOrder'
    BY <2>3, <2>5, LenProperties DEF InOrder
  <2> QED
    BY <2>1, <2>3, <2>6 DEF PromiseInv
<1>3. CASE Promise!Release
  <2>1. PICK n \in 1 .. Len(stored) :
          /\ stored' = SubSeq(stored, n + 1, Len(stored))
          /\ \A i \in 1 .. n : Has(received, stored[i]) \/ stored[i] <= expired
          /\ UNCHANGED <<issued, accepted, received, expired>>
    BY <1>0, <1>3 DEF Promise!Release
  <2>2. Len(stored) \in Nat
    BY LenProperties DEF PromiseInv
  <2>3. /\ stored' \in Seq(Nat) /\ Len(stored') = Len(stored) - n
        /\ \A i \in 1 .. Len(stored') : stored'[i] = stored[i + n]
    BY <2>1, <2>2, SuffixProperties DEF PromiseInv
  <2>4. ASSUME NEW i \in 1 .. Len(stored), i \notin 1 .. n
        PROVE  Has(stored', stored[i])
    <3>1. i - n \in 1 .. Len(stored') /\ (i - n) + n = i
      BY <2>1, <2>2, <2>3, <2>4
    <3> QED
      BY <2>3, <3>1 DEF Has
  <2>5. \A r : Has(stored, r) => Has(stored', r) \/ Has(received, r) \/ r <= expired
    BY <2>1, <2>4 DEF Has
  <2>6. InOrder'
    BY <2>1 DEF InOrder, PromiseInv
  <2> QED
    BY <2>1, <2>3, <2>5, <2>6 DEF PromiseInv
<1>4. CASE Promise!Expire
  <2>1. expired' = expired + 1 /\ UNCHANGED <<issued, accepted, stored, received>>
    BY <1>4 DEF Promise!Expire
  <2>2. \A r \in accepted : r \in Nat
    BY DEF PromiseInv
  <2>3. \A i \in DOMAIN received : received[i] \in Nat
    BY DEF PromiseInv
  <2>4. InOrder'
    BY <2>1, <2>3 DEF InOrder, PromiseInv
  <2> QED
    BY <2>1, <2>2, <2>4 DEF PromiseInv
<1>5. CASE UNCHANGED Promise!vars
  BY <1>5 DEF Promise!vars, PromiseInv, InOrder
<1> QED
  BY <1>1, <1>2, <1>3, <1>4, <1>5 DEF Promised, Promise!Next

(* Whatever keeps the promise of module Reporting loses no report that was  *)
(* accepted (kept, with the service, or too old) and keeps their order.     *)
THEOREM PromiseIsEnough == DeliversReports => [](NothingLost /\ InOrder)
<1>1. Promise!Init => PromiseInv
  BY HasNone, EmptySeq DEF Promise!Init, PromiseInv, InOrder
<1>2. PromiseInv /\ [Promise!Next]_(Promise!vars) => PromiseInv'
  BY PromiseInvStep DEF Promised
<1>3. PromiseInv => NothingLost /\ InOrder
  BY LenProperties DEF PromiseInv, NothingLost, ToSet, Has
<1> QED
  BY <1>1, <1>2, <1>3, PTL DEF DeliversReports, Promise!Spec

-----------------------------------------------------------------------------
(* Without a release to install.                                            *)
LEMMA NoReleaseInvariant ==
    ASSUME MaxUpdates = 0
    PROVE  Spec \/ FairSpec => [](DeliveryInv /\ ShownInv /\ Settled)
<1>1. DeliveryInit => ShownInv /\ Settled
  BY DEF DeliveryInit, RealtimeInit, ShownInv, Settled, Connected
<1>2. DeliveryInv /\ ShownInv /\ Settled /\ [Moves]_state => ShownInv' /\ Settled'
  BY ShownStep, SettledStep DEF DeliveryInv
<1> QED
  BY <1>1, <1>2, OnlyMoves, DeliveryInvariant, PTL DEF Spec, FairSpec

(* Between calls the connection owes no answer, so that the next request is *)
(* not taken for answered by the answer to an older one.  (A release may    *)
(* leave one owed: an error of the update keeps the connection.)            *)
THEOREM DeliveryNothingOwed ==
    ASSUME MaxUpdates = 0
    PROVE  Spec \/ FairSpec => []NothingOwed
<1>1. DeliveryInv /\ ShownInv /\ Settled => NothingOwed
  BY DEF Settled, NothingOwed
<1> QED
  BY <1>1, NoReleaseInvariant, PTL

(* Between calls what the client believes acknowledged, what the UI shows   *)
(* and what the service holds are the same.                                 *)
THEOREM DeliverySharedState ==
    ASSUME MaxUpdates = 0
    PROVE  Spec \/ FairSpec => []SharedState
<1>1. DeliveryInv /\ ShownInv /\ Settled => SharedState
  BY Distinct DEF DeliveryInv, Typed, CallInv, ShownInv, Settled, SharedState
<1> QED
  BY <1>1, NoReleaseInvariant, PTL
=============================================================================
