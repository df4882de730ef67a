------------------------------ MODULE Delivery ------------------------------
(***************************************************************************)
(* The collector worker of src/application.rs: one task that, tick after   *)
(* tick, keeps a connection, reads the game's log into the spool, tells    *)
(* the service whether it observes, delivers reports and pings, and hands  *)
(* over to the updater.  It runs against the realtime client, links and    *)
(* service of module Realtime and against the promise of the spool proved  *)
(* in SpoolProofs: an operation of the spool either commits, or fails and  *)
(* stops the worker, or is cut short by a crash; a restart finds the queue *)
(* as it was or as it was being made.                                      *)
(*                                                                         *)
(* Reports are numbered in the order in which they are observed, so those  *)
(* older than 30 minutes are always the reports up to some number.         *)
(***************************************************************************)
EXTENDS Realtime, SequencesExt

CONSTANTS
    MaxReports,         \* bound: reports observed in a behaviour
    MaxPings,           \* bound: pings observed in a behaviour
    MaxPerTick,         \* MAX_REPORTS_PER_TICK and MAX_PINGS_PER_TICK
    MaxPendingPings,    \* MAX_PENDING_PINGS
    MaxExpired,         \* bound: reports that grow older than 30 minutes
    MaxCrashes,         \* bound: deaths of the worker
    MaxUpdates          \* bound: releases found and installs asked for

ASSUME DeliveryAssumption ==
    /\ {MaxReports, MaxPings, MaxExpired, MaxCrashes, MaxUpdates} \subseteq Nat
    /\ {MaxPerTick, MaxPendingPings} \subseteq Nat \ {0}
    /\ None \notin Links
    /\ Rejected \subseteq 1 .. MaxReports

VARIABLES
    pc,         \* where the worker is: a step of a tick, a call, or "down"
    resume,     \* the step that follows a pause
    stalled,    \* it is held by an await that has no timeout
    batch,      \* reports, then pings, delivered in this tick
    confirmed,  \* session_confirmed
    mode,       \* the parser's mode
    queue,      \* the spool in memory
    stored,     \* the spool on disk
    pings,      \* pending_pings
    observing,  \* the OBSERVING flag of the diagnostics
    pending,    \* UpdateCoordinator.pending is set
    manual,     \* UpdateCoordinator.manual_install_requested
    hadPending, \* had_pending_update
    wanted,     \* the user's install request, not yet taken
    issued,     \* reports observed so far
    pinging,    \* pings observed so far
    expired,    \* reports up to this number are older than 30 minutes
    crashes,    \* deaths of the worker so far
    updates,    \* releases found and installs asked for so far
    accepted    \* history: reports whose enqueue returned Ok

session == <<confirmed, mode>>
spool == <<queue, stored, accepted>>
update == <<pending, manual, hadPending, wanted>>
bounds == <<issued, pinging, expired, crashes, updates>>
worker == <<pc, resume, batch>>
state == <<client, service, calm, worker, session, spool, pings, observing,
           update, bounds>>
vars == <<state, stalled>>

-----------------------------------------------------------------------------
Goto(step) == pc' = step /\ UNCHANGED <<resume, batch>>

InMasterSword == confirmed /\ mode = "master_sword"

(* What the worker holds in memory goes with it.                            *)
Forget ==
    /\ pc' = "down"
    /\ resume' = "tick"
    /\ batch' = 0
    /\ confirmed' = FALSE
    /\ mode' = "unknown"
    /\ queue' = <<>>
    /\ pings' = <<>>
    /\ observing' = FALSE
    /\ pending' = FALSE
    /\ manual' = FALSE
    /\ hadPending' = FALSE
    /\ wanted' = FALSE
    /\ Dropped
    /\ UNCHANGED <<calm, serverState, received, pinged, pinging, expired, updates,
                   accepted>>

Die ==
    /\ pc # "down"
    /\ ~calm
    /\ crashes < MaxCrashes
    /\ crashes' = crashes + 1
    /\ Forget

(* An operation of the spool that was to leave q fails: the error ends      *)
(* CollectorApplication::run, and nothing runs it again before the program  *)
(* is restarted.                                                            *)
WriteFails(q) ==
    /\ stored' \in {stored, q}
    /\ Die
    /\ UNCHANGED outbound

(* Mutant of NotExpired: nothing is ever too old.                           *)
NeverExpired(s) == s

(* discard_before: the reports it retains are young enough, and those it    *)
(* drops are the first: the queue is in the order they were observed in.    *)
NotExpired(s) ==
    LET old == CHOOSE n \in 0 .. Len(s) :
                 /\ \A i \in 1 .. n : s[i] <= expired
                 /\ n < Len(s) => s[n + 1] > expired
    IN  SubSeq(s, old + 1, Len(s))

DeliveryInit ==
    /\ RealtimeInit
    /\ pc = "tick"
    /\ resume = "tick"
    /\ stalled = FALSE
    /\ batch = 0
    /\ confirmed = FALSE
    /\ mode = "unknown"
    /\ queue = <<>>
    /\ stored = <<>>
    /\ pings = <<>>
    /\ observing = FALSE
    /\ pending = FALSE
    /\ manual = FALSE
    /\ hadPending = FALSE
    /\ wanted = FALSE
    /\ issued = 0
    /\ pinging = 0
    /\ expired = 0
    /\ crashes = 0
    /\ updates = 0
    /\ accepted = {}

-----------------------------------------------------------------------------
(* pause_connection: without a connection, or when PAUSED is acknowledged,  *)
(* the worker goes on; otherwise it asks the service and waits.             *)
PauseThen(step) ==
    /\ observing' = FALSE
    /\ UNCHANGED batch
    /\ \/ /\ conn = None \/ acknowledged = PAUSED
          /\ pc' = step
          /\ UNCHANGED <<resume, client, service, calm>>
       \/ /\ conn # None /\ acknowledged # PAUSED /\ ~alive
          /\ pc' = step
          /\ Dropped
          /\ UNCHANGED <<resume, service, calm>>
       \/ /\ acknowledged # PAUSED
          /\ Send(StateMessage(PAUSED))
          /\ pc' = "pause"
          /\ resume' = step

Paused ==
    /\ pc = "pause"
    /\ Answered
    /\ pc' = resume
    /\ resume' = "tick"
    /\ UNCHANGED <<batch, session, spool, pings, observing, update,
                   bounds>>

PauseFails ==
    /\ pc = "pause"
    /\ CallFails
    /\ Dropped
    /\ pc' = resume
    /\ resume' = "tick"
    /\ UNCHANGED <<batch, service, calm, session, spool, pings, observing,
                   update, bounds>>

(* The rest of a handler that gives the connection up.                      *)
GiveUp(step) ==
    /\ Dropped
    /\ observing' = FALSE
    /\ Goto(step)
    /\ UNCHANGED <<service, calm, session, spool, pings, update, bounds>>

-----------------------------------------------------------------------------
BeginTick ==
    /\ pc = "tick"
    /\ pc' = "connect"
    /\ batch' = 0
    /\ UNCHANGED <<resume, client, service, calm, session, spool, pings, observing,
                   update, bounds>>

(* The context of the log is rebuilt: the mode is what the existing lines   *)
(* say, and the session is confirmed if the log is fresh.                   *)
RebuildContext ==
    /\ pings' = <<>>
    /\ confirmed' \in BOOLEAN
    /\ mode' \in {"unknown", "master_sword", "other"}

(* refresh_process_state_if_due: the game's process is gone, and what the   *)
(* parser held back is flushed; or the log candidates changed.              *)
ProcessStops ==
    /\ pc = "tick"
    /\ ~calm
    /\ Goto("flush")
    /\ UNCHANGED <<client, service, calm, session, spool, pings, observing, update,
                   bounds>>

ContextLost ==
    /\ pc = "flush"
    /\ RebuildContext
    /\ PauseThen("connect")
    /\ UNCHANGED <<spool, update, bounds>>

(* ensure_realtime_connection: connected, not due, or the attempt fails.    *)
NoConnect ==
    /\ pc = "connect"
    /\ IF conn # None /\ ~alive
       THEN Dropped /\ observing' = FALSE
       ELSE UNCHANGED <<client, observing>>
    /\ Goto("read")
    /\ UNCHANGED <<service, calm, session, spool, pings, update, bounds>>

ConnectDue ==
    /\ pc = "connect"
    /\ Connect
    /\ Goto("read")
    /\ UNCHANGED <<session, spool, pings, observing, update, bounds>>

-----------------------------------------------------------------------------
(* read_log: the tailer fails, or starts over on a replaced file.           *)
SourceReset ==
    /\ pc = "read"
    /\ ~calm
    /\ RebuildContext
    /\ PauseThen("session")
    /\ UNCHANGED <<spool, update, bounds>>

(* A line changes the mode; leaving Master Sword pauses the connection.     *)
ReadMode ==
    /\ pc = "read"
    /\ ~calm
    /\ confirmed' = TRUE
    /\ mode' \in {"master_sword", "other"}
    /\ IF mode = "master_sword" /\ mode' # "master_sword"
       THEN PauseThen("read")
       ELSE Goto("read") /\ UNCHANGED <<client, service, calm, observing>>
    /\ UNCHANGED <<spool, pings, update, bounds>>

(* A line is an event, or the parser is flushed: the event is in the spool  *)
(* before the next line is read.                                            *)
ReadEvent ==
    /\ pc \in {"read", "flush"}
    /\ mode # "other"
    /\ issued < MaxReports
    /\ issued' = issued + 1
    /\ confirmed' = TRUE
    /\ queue' = Append(queue, issued')
    /\ stored' = queue'
    /\ accepted' = accepted \union {issued'}
    /\ UNCHANGED <<client, service, calm, worker, mode, pings, observing, update,
                   pinging, expired, crashes, updates>>

EnqueueFails ==
    /\ pc \in {"read", "flush"}
    /\ mode # "other"
    /\ issued < MaxReports
    /\ issued' = issued + 1
    /\ WriteFails(Append(queue, issued'))

(* A line is a ping: it is queued in memory, and a full queue loses its     *)
(* oldest ping.                                                             *)
ReadPing ==
    /\ pc = "read"
    /\ pinging < MaxPings
    /\ pinging' = pinging + 1
    /\ confirmed' = TRUE
    /\ pings' = Append(IF Len(pings) < MaxPendingPings THEN pings ELSE Tail(pings),
                       MaxReports + pinging')
    /\ UNCHANGED <<client, service, calm, worker, mode, spool, observing, update,
                   issued, expired, crashes, updates>>

EndRead ==
    /\ pc = "read"
    /\ Goto("session")
    /\ UNCHANGED <<client, service, calm, session, spool, pings, observing, update,
                   bounds>>

-----------------------------------------------------------------------------
(* tick: what the mode calls for.                                           *)
PauseSession ==
    /\ pc = "session"
    /\ ~InMasterSword
    /\ PauseThen(IF confirmed THEN "pings" ELSE "update")
    /\ UNCHANGED <<session, spool, pings, update, bounds>>

(* observe_connection.                                                      *)
Observed ==
    /\ pc = "session"
    /\ InMasterSword
    /\ conn = None \/ acknowledged = OBSERVING
    /\ observing' = (conn # None)
    /\ Goto("discard")
    /\ UNCHANGED <<client, service, calm, session, spool, pings, update, bounds>>

Observe ==
    /\ pc = "session"
    /\ InMasterSword
    /\ acknowledged # OBSERVING
    /\ Send(StateMessage(OBSERVING))
    /\ Goto("observe")
    /\ UNCHANGED <<session, spool, pings, observing, update, bounds>>

ObserveAnswered ==
    /\ pc = "observe"
    /\ Answered
    /\ observing' = TRUE
    /\ Goto("discard")
    /\ UNCHANGED <<session, spool, pings, update, bounds>>

ObserveFails ==
    /\ \/ pc = "observe" /\ CallFails
       \/ pc = "session" /\ InMasterSword /\ acknowledged # OBSERVING
          /\ conn # None /\ ~alive
    /\ GiveUp("discard")

-----------------------------------------------------------------------------
(* deliver_pending_reports.                                                 *)
DiscardExpired ==
    /\ pc = "discard"
    /\ queue' = NotExpired(queue)
    /\ stored' = queue'
    /\ Goto("reports")
    /\ UNCHANGED <<client, service, calm, session, accepted, pings, observing,
                   update, bounds>>

DiscardFails ==
    /\ pc = "discard"
    /\ NotExpired(queue) # queue
    /\ issued' = issued
    /\ WriteFails(NotExpired(queue))

EndReports ==
    /\ pc = "reports"
    /\ queue = <<>> \/ conn = None \/ batch = MaxPerTick
    /\ pc' = "pings"
    /\ batch' = 0
    /\ UNCHANGED <<resume, client, service, calm, session, spool, pings, observing,
                   update, bounds>>

(* Mutant of Announce: only a client that is not OBSERVING announces it.    *)
AnnounceOnce ==
    /\ pc = "reports"
    /\ queue # <<>> /\ batch < MaxPerTick
    /\ conn # None
    /\ IF acknowledged = OBSERVING
       THEN Goto("send") /\ UNCHANGED <<client, service, calm>>
       ELSE Send(StateMessage(OBSERVING)) /\ Goto("announce")
    /\ UNCHANGED <<session, spool, pings, observing, update, bounds>>

(* RealtimeClient::report: the state is announced before every report.      *)
Announce ==
    /\ pc = "reports"
    /\ queue # <<>> /\ batch < MaxPerTick
    /\ Send(StateMessage(OBSERVING))
    /\ Goto("announce")
    /\ UNCHANGED <<session, spool, pings, observing, update, bounds>>

Announced ==
    /\ pc = "announce"
    /\ Answered
    /\ Goto("send")
    /\ UNCHANGED <<session, spool, pings, observing, update, bounds>>

(* Mutant of SendReport: what is sent is taken for delivered.               *)
SendAndForget ==
    /\ pc = "send"
    /\ Connected
    /\ outbound' = [outbound EXCEPT ![conn] = Append(@, EventReport(Head(queue)))]
    /\ Goto("acknowledge")
    /\ UNCHANGED <<client, serverState, received, pinged, calm, session, spool, pings,
                   observing, update, bounds>>

SendReport ==
    /\ pc = "send"
    /\ Send(EventReport(Head(queue)))
    /\ Goto("report")
    /\ UNCHANGED <<session, spool, pings, observing, update, bounds>>

ReportAnswered ==
    /\ pc = "report"
    /\ Answered
    /\ Goto("acknowledge")
    /\ UNCHANGED <<session, spool, pings, observing, update, bounds>>

(* Mutant of ReportFails: the report that failed goes to the back.          *)
ReportRequeued ==
    /\ pc \in {"announce", "report"} /\ CallFails
    /\ queue' = Append(Tail(queue), Head(queue))
    /\ stored' = queue'
    /\ Dropped
    /\ observing' = FALSE
    /\ Goto("pings")
    /\ UNCHANGED <<service, calm, session, accepted, pings, update, bounds>>

ReportFails ==
    /\ \/ pc \in {"announce", "report"} /\ CallFails
       \/ pc = "reports" /\ queue # <<>> /\ batch < MaxPerTick /\ conn # None /\ ~alive
       \/ pc = "send" /\ ~alive
    /\ GiveUp("pings")

Acknowledge ==
    /\ pc = "acknowledge"
    /\ queue' = Tail(queue)
    /\ stored' = queue'
    /\ pc' = "reports"
    /\ batch' = batch + 1
    /\ UNCHANGED <<resume, client, service, calm, session, accepted, pings, observing,
                   update, bounds>>

AcknowledgeFails ==
    /\ pc = "acknowledge"
    /\ issued' = issued
    /\ WriteFails(Tail(queue))

-----------------------------------------------------------------------------
(* deliver_pending_pings: those older than 30 seconds go first.             *)
ExpirePings ==
    /\ pc = "pings"
    /\ \E n \in 0 .. Len(pings) : pings' = SubSeq(pings, n + 1, Len(pings))
    /\ pc' = "ping"
    /\ batch' = 0
    /\ UNCHANGED <<resume, client, service, calm, session, spool, observing, update,
                   bounds>>

EndPings ==
    /\ pc = "ping"
    /\ pings = <<>> \/ conn = None \/ batch = MaxPerTick
    /\ pc' = "update"
    /\ batch' = 0
    /\ UNCHANGED <<resume, client, service, calm, session, spool, pings, observing,
                   update, bounds>>

SendPing ==
    /\ pc = "ping"
    /\ pings # <<>> /\ batch < MaxPerTick
    /\ Send(ChatPingReport(Head(pings)))
    /\ Goto("pinged")
    /\ UNCHANGED <<session, spool, pings, observing, update, bounds>>

PingAnswered ==
    /\ pc = "pinged"
    /\ Answered
    /\ pings' = Tail(pings)
    /\ pc' = "ping"
    /\ batch' = batch + 1
    /\ UNCHANGED <<resume, session, spool, observing, update, bounds>>

(* Mutant of PingFails: the connection is kept.                             *)
PingFailsKeepingLink ==
    /\ pc = "pinged" /\ CallFails
    /\ request' = Idle
    /\ Goto("update")
    /\ UNCHANGED <<conn, alive, acknowledged, inbound, service, calm, session, spool,
                   pings, observing, update, bounds>>

PingFails ==
    /\ \/ pc = "pinged" /\ CallFails
       \/ pc = "ping" /\ pings # <<>> /\ batch < MaxPerTick /\ conn # None /\ ~alive
    /\ GiveUp("update")

-----------------------------------------------------------------------------
(* try_apply_update, and UpdateCoordinator::poll inside it.                 *)
BeginUpdate ==
    /\ pc = "update"
    /\ hadPending' = pending
    /\ manual' = (manual \/ wanted)
    /\ wanted' = FALSE
    /\ UNCHANGED pending
    /\ IF MaxUpdates = 0 THEN Goto("tick") ELSE Goto("candidate")
    /\ UNCHANGED <<client, service, calm, session, spool, pings, observing,
                   bounds>>

(* refresh_candidate_if_due finds a release and stages it, finds none, or   *)
(* has nothing to do; an install asked for by the user makes it due.  The   *)
(* delay of the rollout is any time from zero on.                           *)
CandidateStaged ==
    /\ pc = "candidate"
    /\ ~pending
    /\ updates < MaxUpdates
    /\ updates' = updates + 1
    /\ pending' = TRUE
    /\ Goto("poll")
    /\ UNCHANGED <<client, service, calm, session, spool, pings, observing, manual,
                   hadPending, wanted, issued, pinging, expired, crashes>>

NoCandidate ==
    /\ pc = "candidate"
    /\ ~pending
    /\ manual' = FALSE
    /\ Goto("poll")
    /\ UNCHANGED <<client, service, calm, session, spool, pings, observing, pending,
                   hadPending, wanted, bounds>>

NoCheck ==
    /\ pc = "candidate"
    /\ pending \/ ~manual
    /\ Goto("poll")
    /\ UNCHANGED <<client, service, calm, session, spool, pings, observing, update,
                   bounds>>

DeliveryIdle == queue = <<>> /\ pings = <<>>

(* Reports are waiting, nothing is staged, its time has not come, or there  *)
(* is no connection to ask for a slot on.                                   *)
NoUpdate ==
    /\ pc = "poll"
    /\ manual' = (manual /\ pending)
    /\ Goto("tick")
    /\ UNCHANGED <<client, service, calm, session, spool, pings, observing, pending,
                   hadPending, wanted, bounds>>

CanUpdate == pc = "poll" /\ pending /\ (DeliveryIdle \/ manual)

UpdateOffline ==
    /\ CanUpdate
    /\ conn = None
    /\ manual
    /\ Goto("handoff")
    /\ UNCHANGED <<client, service, calm, session, spool, pings, observing, update,
                   bounds>>

RequestSlot ==
    /\ CanUpdate
    /\ Send(UpdateReady)
    /\ Goto("slot")
    /\ UNCHANGED <<session, spool, pings, observing, update, bounds>>

SlotAnswered ==
    /\ pc = "slot"
    /\ Answered
    /\ Goto(IF Head(inbound) = UpdateSlot(GRANTED) THEN "granted" ELSE "tick")
    /\ UNCHANGED <<session, spool, pings, observing, update, bounds>>

(* Mutant of PauseForUpdate: the hand-off does not wait for the answer.     *)
PauseUnawaited ==
    /\ pc = "granted"
    /\ Connected
    /\ outbound' = [outbound EXCEPT ![conn] = Append(@, StateMessage(PAUSED))]
    /\ Goto("handoff")
    /\ UNCHANGED <<client, serverState, received, pinged, calm, session, spool, pings,
                   observing, update, bounds>>

PauseForUpdate ==
    /\ pc = "granted"
    /\ IF acknowledged = PAUSED
       THEN Goto("handoff") /\ UNCHANGED <<client, service, calm>>
       ELSE Send(StateMessage(PAUSED)) /\ Goto("quiesce")
    /\ UNCHANGED <<session, spool, pings, observing, update, bounds>>

PausedForUpdate ==
    /\ pc = "quiesce"
    /\ Answered
    /\ Goto("handoff")
    /\ UNCHANGED <<session, spool, pings, observing, update, bounds>>

(* poll returns an error: the connection is given up only if an update was  *)
(* pending before the poll.                                                 *)
UpdateFails ==
    /\ \/ pc \in {"slot", "quiesce"} /\ CallFails
       \/ CanUpdate /\ conn # None /\ ~alive
       \/ pc = "granted" /\ acknowledged # PAUSED /\ ~alive
       \/ pc = "candidate" /\ ~pending /\ ~calm
    /\ manual' = FALSE
    /\ IF hadPending
       THEN Dropped /\ observing' = FALSE
       ELSE /\ request' = Idle
            /\ inbound' = IF Waiting /\ Refuses(Head(inbound)) THEN Tail(inbound) ELSE inbound
            /\ UNCHANGED <<conn, alive, acknowledged, observing>>
    /\ Goto("tick")
    /\ UNCHANGED <<service, calm, session, spool, pings, pending, hadPending, wanted,
                   bounds>>

(* UpdateHandoff::start: the worker returns and the program ends.           *)
HandOff ==
    /\ pc = "handoff"
    /\ Forget
    /\ UNCHANGED <<outbound, stored, issued, crashes>>

(* restore_handoff.                                                         *)
HandOffFails ==
    /\ pc = "handoff"
    /\ ~calm
    /\ manual' = FALSE
    /\ Goto("tick")
    /\ UNCHANGED <<client, service, calm, session, spool, pings, observing, pending,
                   hadPending, wanted, bounds>>

-----------------------------------------------------------------------------
Crash ==
    /\ Die
    /\ UNCHANGED <<outbound, stored, issued>>

(* shutdown: between two ticks, after the parser is flushed.                *)
Shutdown ==
    /\ pc \in {"tick", "flush"}
    /\ Die
    /\ IF Connected /\ acknowledged # PAUSED
       THEN outbound' = [outbound EXCEPT ![conn] = Append(@, StateMessage(PAUSED))]
       ELSE UNCHANGED outbound
    /\ UNCHANGED <<stored, issued>>

(* CollectorApplication::new: the spool is opened and expired.              *)
Restart ==
    /\ pc = "down"
    /\ pc' = "tick"
    /\ queue' = NotExpired(stored)
    /\ stored' = queue'
    /\ UNCHANGED <<resume, batch, client, service, calm, session, accepted, pings,
                   observing, update, bounds>>

(* Thirty minutes have passed since the next report was observed.           *)
Age ==
    /\ expired < issued
    /\ expired < MaxExpired
    /\ expired' = expired + 1
    /\ UNCHANGED <<client, service, calm, worker, session, spool, pings, observing,
                   update, issued, pinging, crashes, updates>>

(* The user clicks Install in the window that shows the release.            *)
WantInstall ==
    /\ pending /\ pc # "handoff"
    /\ ~wanted
    /\ updates < MaxUpdates
    /\ updates' = updates + 1
    /\ wanted' = TRUE
    /\ UNCHANGED <<client, service, calm, worker, session, spool, pings, observing,
                   pending, manual, hadPending, issued, pinging, expired, crashes>>

(* From here on no link fails, no answer is late, the disk works and the    *)
(* game stays as it is.                                                     *)
CalmDown ==
    /\ ~calm
    /\ pc # "flush"
    /\ calm' = TRUE
    /\ UNCHANGED <<client, service, worker, session, spool, pings, observing, update,
                   bounds>>

rest == <<worker, session, spool, pings, observing, update, bounds>>

Served(c) == Serve(c) /\ UNCHANGED rest
Lost(c) == LoseInFlight(c) /\ UNCHANGED rest
Broken == LinkFails /\ UNCHANGED rest
Ignored == IgnoreMessage /\ UNCHANGED rest

(* connect_async and send have no timeout: a peer that says nothing in the  *)
(* handshake, or takes nothing more off the socket, holds the worker in     *)
(* them, and with it everything that the tick has still to do.  The step    *)
(* that connects or sends is taken when the await returns.                  *)
Stalls ==
    /\ ~stalled /\ ~calm
    /\ \/ pc = "connect" /\ conn = None
       \/ /\ pc \in {"flush", "read", "session", "reports", "send", "ping", "poll", "granted"}
          /\ Connected
    /\ stalled' = TRUE
    /\ UNCHANGED state

Resumes ==
    /\ stalled
    /\ stalled' = FALSE
    /\ UNCHANGED state

Tick ==
    \/ BeginTick \/ ProcessStops \/ ContextLost \/ NoConnect \/ ConnectDue
    \/ SourceReset \/ ReadMode \/ ReadEvent \/ ReadPing \/ EndRead
    \/ PauseSession \/ Paused \/ PauseFails
    \/ Observed \/ Observe \/ ObserveAnswered \/ ObserveFails
    \/ DiscardExpired \/ EndReports \/ Announce \/ Announced \/ SendReport
    \/ ReportAnswered \/ ReportFails \/ Acknowledge
    \/ ExpirePings \/ EndPings \/ SendPing \/ PingAnswered \/ PingFails
    \/ BeginUpdate \/ CandidateStaged \/ NoCandidate \/ NoCheck \/ NoUpdate
    \/ UpdateOffline \/ RequestSlot \/ SlotAnswered \/ PauseForUpdate
    \/ PausedForUpdate \/ UpdateFails \/ HandOff \/ HandOffFails
    \/ Ignored

(* What the worker's task does itself, and what goes on around it.          *)
Working == Tick \/ EnqueueFails \/ DiscardFails \/ AcknowledgeFails \/ Shutdown

Around ==
    \/ Restart \/ Age \/ WantInstall \/ Broken
    \/ \E c \in Links : Served(c) \/ Lost(c)

Next ==
    \/ ~stalled /\ Working /\ UNCHANGED stalled
    \/ Around /\ UNCHANGED stalled
    \/ Crash /\ stalled' = FALSE
    \/ Stalls \/ Resumes

Spec == DeliveryInit /\ [][Next]_vars

(* The worker's task is scheduled, and the answer to a call arrives, fails  *)
(* or times out; an await without a timeout need not return.  Reconnecting  *)
(* is retried every 30 seconds at the latest, so an attempt that can        *)
(* succeed again and again does.  A service that is up serves, and time     *)
(* passes.  Nothing starts a worker that has ended.                         *)
Fairness ==
    /\ WF_vars(~stalled /\ Tick /\ UNCHANGED stalled)
    /\ SF_vars(~stalled /\ ConnectDue /\ UNCHANGED stalled)
    /\ WF_vars(Age /\ UNCHANGED stalled)
    /\ \A c \in Links : WF_vars((Served(c) \/ Lost(c)) /\ UNCHANGED stalled)

CalmingNext == Next \/ (CalmDown /\ UNCHANGED stalled)

FairSpec == DeliveryInit /\ [][CalmingNext]_vars /\ Fairness

-----------------------------------------------------------------------------
Steps ==
    {"down", "tick", "flush", "connect", "read", "session", "observe", "discard",
     "reports", "announce", "send", "report", "acknowledge", "pings", "ping",
     "pinged", "update", "candidate", "poll", "slot", "granted", "quiesce",
     "handoff", "pause"}

(* The worker's queues hold reports and pings it has seen, and it waits for *)
(* an answer exactly in the steps that make a request.                      *)
TypeOK ==
    /\ pc \in Steps
    /\ resume \in Steps \ {"pause", "down"}
    /\ batch \in 0 .. MaxPerTick
    /\ mode \in {"unknown", "master_sword", "other"}
    /\ {confirmed, observing, pending, manual, hadPending, wanted, alive, calm, stalled}
         \subseteq BOOLEAN
    /\ {ToSet(queue), ToSet(stored), ToSet(received), accepted}
         \subseteq SUBSET (1 .. issued)
    /\ ToSet(pings) \union pinged
         \subseteq MaxReports + 1 .. MaxReports + pinging
    /\ Len(pings) <= MaxPendingPings
    /\ conn \in Links \union {None}
    /\ (request # Idle) <=>
         pc \in {"observe", "announce", "report", "pinged", "slot", "quiesce", "pause"}

(* A short disconnect is not turned "into silent data loss" (README.md:93): *)
(* a report whose enqueue returned Ok is on disk, or the service has queued *)
(* it, or it has grown older than 30 minutes -- whatever links failed,      *)
(* answers were late or deaths of the worker came in between.               *)
NothingLost ==
    \A r \in accepted :
        r \in ToSet(stored) \/ r \in ToSet(received) \/ r <= expired

(* The service queues reports in the order in which they were observed,     *)
(* across reconnects, redelivery and restarts; a report can be late only if *)
(* the worker has given up on it for its age.                               *)
InOrder ==
    \A i, j \in DOMAIN received :
        i < j /\ received[i] > received[j] => received[j] <= expired

(* No report reaches the service on a link where it takes the collector to  *)
(* be PAUSED.                                                               *)
ReportsWhileObserving ==
    \A c \in Links :
        outbound[c] # <<>> /\ Head(outbound[c]).type = "report" =>
            serverState[c] = OBSERVING

(* "Collector state transitions are acknowledged by the server, so the UI   *)
(* and delivery loop have an explicit shared understanding of whether the   *)
(* client is currently observing": between calls, what the client believes  *)
(* acknowledged, what the UI shows and what the service holds are the same. *)
SharedState ==
    request = Idle /\ Connected =>
        /\ acknowledged = serverState[conn]
        /\ observing <=> (acknowledged = OBSERVING)

(* Between calls a connection owes no answer: the next request cannot be    *)
(* taken for answered by the answer to an older one.                        *)
NothingOwed ==
    request = Idle /\ Connected => inbound = <<>> /\ outbound[conn] = <<>>

(* When the executable is handed to the updater over a live connection the  *)
(* service knows the collector has stopped observing.                       *)
PausedAtHandOff ==
    pc = "handoff" /\ Connected => serverState[conn] = PAUSED

(* A report the worker holds while the game is in Master Sword and nothing  *)
(* fails any more reaches the service before it is too old, also when it    *)
(* waits behind a report the service refuses for good: that one blocks the  *)
(* queue, and costs a connection per attempt, until it is 30 minutes old.   *)
(* If the user installs an update without a connection, the next collector  *)
(* has the report, and must find out that it is in Master Sword.  All this  *)
(* but for an await without a timeout that never returns: nothing else      *)
(* would be delivered, nor the connection ever given up.                    *)
EventuallyDelivered ==
    ~<>[]stalled =>
        \A r \in 1 .. MaxReports \ Rejected :
            calm /\ InMasterSword /\ r \in ToSet(queue)
                ~> \/ r \in ToSet(received) \/ r <= expired
                   \/ r \in ToSet(stored) /\ pc = "down"

(* The worker, the client, the links and the service together implement the *)
(* promise of module Reporting: what is on disk is what the collector       *)
(* keeps, and everything else (calls, links, redelivery, deaths, restarts,  *)
(* updates) is a step that the promise does not see.                        *)
Promise == INSTANCE Reporting WITH held <- stored

DeliversReports == Promise!Spec
=============================================================================
