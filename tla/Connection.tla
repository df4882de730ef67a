----------------------------- MODULE Connection -----------------------------
(***************************************************************************)
(* The collector's connection as its two tasks see it: the task that reads *)
(* the socket (read_loop of src/realtime/client.rs), the worker that makes *)
(* calls over it and reconnects (src/application.rs), and the bounded      *)
(* channel between them.  Realtime and Delivery model what the messages    *)
(* say; here it matters who notices what, and when.                        *)
(*                                                                         *)
(* Time passes in units (Elapse) while the worker sleeps, connects, sends  *)
(* or waits for a late answer; all else takes none.  Timers hold what has  *)
(* passed or is left and stop at the bound they are compared with.  Only   *)
(* the wait for an answer has a timeout: connect_async and send have none, *)
(* so a connection attempt and a send last as long as the peer likes.      *)
(*                                                                         *)
(* Frames of the service: "welcome" (WELCOME with a minimum this version   *)
(* meets, or any other message nobody waits for), "answer" (to the call    *)
(* that was sent last), "upgrade" (UPGRADE_REQUIRED), "ping", and "last"   *)
(* (a close frame, or one that is not understood).                         *)
(***************************************************************************)
EXTENDS Integers, Sequences, FiniteSetsExt

CONSTANTS
    Buffer,       \* INBOUND_BUFFER
    InitialDelay, \* reconnect_initial_delay
    MaxDelay,     \* reconnect_max_delay
    Stable,       \* RECONNECT_STABILITY_WINDOW
    Timeout,      \* response_timeout
    CallsPerTick, \* bound: calls in one tick
    MaxWire,      \* bound: frames on their way
    MaxFaults     \* bound: what the service and the network do wrong

ASSUME ConnectionAssumption ==
    /\ Buffer \in Nat \ {0} /\ InitialDelay \in Nat \ {0}
    /\ MaxDelay \in Nat /\ MaxDelay >= InitialDelay
    /\ Stable \in Nat \ {0} /\ Timeout \in Nat \ {0}
    /\ CallsPerTick \in Nat /\ MaxWire \in Nat /\ MaxFaults \in Nat

VARIABLES
    minimum,  \* the service requires a newer version
    link,     \* "none", "open", "broken", or "silent": nothing arrives, nothing says so
              \* ("none" and "silent" for the socket of an attempt that is being made)
    wire,     \* frames the reader has not seen
    request,  \* the service's: "none", "sent", or "late"
    owed,     \* a ping of the service has not been answered
    reader,   \* "none", "reading", "sending" (into the channel), "ending", "ended"
    held,     \* what it is sending
    inbound,  \* the channel
    alive,    \* RealtimeClient::alive
    client,   \* CollectorApplication::realtime is Some
    connectedFor, \* time since realtime_connected_at; -1 for None
    delay,    \* reconnect_delay
    wait,     \* time until next_reconnect_at
    required, \* diagnostics: required_update_version is Some
    phase,    \* the worker: "idle", "connecting", "read", "ready", "sending", "waiting"
    due,      \* time since the last tick began
    timer,    \* time in the current wait for an answer
    calls,    \* calls of this tick
    faults,
    fails,    \* history: attempts and connections lost since a stable one
    since     \* history: time since the last of them

service == <<minimum, link, wire, request, owed>>
task == <<reader, held, inbound, alive>>
worker == <<client, connectedFor, delay, wait, required, phase, timer, calls>>
losses == <<fails, since>>
connectionVars == <<service, task, worker, due, faults, losses>>

-----------------------------------------------------------------------------
Doubled(d) == Min({2 * d, MaxDelay})

(* The delay that is due before an attempt which follows n losses in a row. *)
Backoff[n \in 0 .. MaxDelay] ==
    CASE n = 0 -> 0
      [] n = 1 -> InitialDelay
      [] OTHER -> Min({2 * Backoff[n - 1], MaxDelay})

ConnectionInit ==
    /\ minimum = FALSE
    /\ link = "none" /\ wire = <<>> /\ request = "none" /\ owed = FALSE
    /\ reader = "none" /\ held = "none" /\ inbound = <<>> /\ alive = FALSE
    /\ client = FALSE /\ connectedFor = -1
    /\ delay = InitialDelay /\ wait = 0
    /\ required = FALSE
    /\ phase = "idle" /\ due = 1 /\ timer = 0 /\ calls = 0
    /\ faults = 0
    /\ fails = 0 /\ since = MaxDelay

Fault == faults < MaxFaults /\ faults' = faults + 1

-----------------------------------------------------------------------------
(* The service and the network.                                             *)
Put(frames) == Len(wire) + Len(frames) <= MaxWire /\ wire' = wire \o frames

Greet ==
    /\ link = "open" /\ ~minimum
    /\ Put(<<"welcome">>)
    /\ UNCHANGED <<minimum, link, request, owed, task, worker, due, faults, losses>>

Ping ==
    /\ link = "open" /\ ~owed
    /\ Put(<<"ping">>)
    /\ owed' = TRUE
    /\ UNCHANGED <<minimum, link, request, task, worker, due, faults, losses>>

Serve ==
    /\ link = "open"
    /\ request # "none"
    /\ Put(<<"answer">>)
    /\ request' = "none"
    /\ UNCHANGED <<minimum, link, owed, task, worker, due, faults, losses>>

AnswerLate ==
    /\ request = "sent"
    /\ Fault
    /\ request' = "late"
    /\ UNCHANGED <<minimum, link, wire, owed, task, worker, due, losses>>

CloseLink ==
    /\ link = "open"
    /\ Fault
    /\ Put(<<"last">>)
    /\ UNCHANGED <<minimum, link, request, owed, task, worker, due, losses>>

LinkFails ==
    /\ link = "open"
    /\ Fault
    /\ link' \in {"broken", "silent"}
    /\ UNCHANGED <<minimum, wire, request, owed, task, worker, due, losses>>

(* A peer that takes the connection and then says nothing in the handshake. *)
HandshakeStalls ==
    /\ phase = "connecting" /\ link = "none"
    /\ Fault
    /\ link' = "silent"
    /\ UNCHANGED <<minimum, wire, request, owed, task, worker, due, losses>>

(* It says so to the collectors that are connected, and closes their links. *)
RequireUpgrade ==
    /\ ~minimum
    /\ Fault
    /\ minimum' = TRUE
    /\ IF link = "open"
       THEN Put(<<"upgrade", "last">>)
       ELSE UNCHANGED wire
    /\ UNCHANGED <<link, request, owed, task, worker, due, losses>>

AllowOld ==
    /\ minimum
    /\ Fault
    /\ minimum' = FALSE
    /\ UNCHANGED <<link, wire, request, owed, task, worker, due, losses>>

-----------------------------------------------------------------------------
(* read_loop.                                                               *)
Hold(frame) == reader' = "sending" /\ held' = frame /\ UNCHANGED <<inbound, alive>>

Reading == reader = "reading" /\ link # "silent"

ReadMessage ==
    /\ Reading
    /\ wire # <<>> /\ Head(wire) \in {"welcome", "answer", "upgrade"}
    /\ Hold(Head(wire))
    /\ wire' = Tail(wire)
    /\ UNCHANGED <<minimum, link, request, owed, worker, due, faults, losses>>

(* Mutant of ReadPing: pings are read like pongs.                           *)
ReadPingAsPong ==
    /\ Reading
    /\ wire # <<>> /\ Head(wire) = "ping"
    /\ wire' = Tail(wire)
    /\ UNCHANGED <<minimum, link, request, owed, task, worker, due, faults, losses>>

ReadPing ==
    /\ Reading
    /\ wire # <<>> /\ Head(wire) = "ping"
    /\ wire' = Tail(wire)
    /\ owed' = FALSE
    /\ UNCHANGED <<minimum, link, request, task, worker, due, faults, losses>>

(* report_failure: the last frame, or an error of the socket.               *)
ReadFailure ==
    /\ Reading
    /\ \/ wire # <<>> /\ Head(wire) = "last"
       \/ wire = <<>> /\ link = "broken"
    /\ Hold("failed")
    /\ wire' = IF wire = <<>> THEN wire ELSE Tail(wire)
    /\ UNCHANGED <<minimum, link, request, owed, worker, due, faults, losses>>

(* The stream is over without a close frame.                                *)
ReadEnd ==
    /\ Reading
    /\ wire = <<>> /\ link = "broken"
    /\ reader' = "ending"
    /\ UNCHANGED <<service, held, inbound, alive, worker, due, faults, losses>>

(* inbound.send: waits for room in the channel.                             *)
Push ==
    /\ reader = "sending"
    /\ Len(inbound) < Buffer
    /\ inbound' = Append(inbound, held)
    /\ reader' = IF held = "failed" THEN "ending" ELSE "reading"
    /\ held' = "none"
    /\ UNCHANGED <<service, alive, worker, due, faults, losses>>

(* Mutant of EndReader: alive is left alone.                                *)
EndReaderAlive ==
    /\ reader = "ending"
    /\ reader' = "ended"
    /\ UNCHANGED <<service, held, inbound, alive, worker, due, faults, losses>>

EndReader ==
    /\ reader = "ending"
    /\ reader' = "ended"
    /\ alive' = FALSE
    /\ UNCHANGED <<service, held, inbound, worker, due, faults, losses>>

Reader == ReadMessage \/ ReadPing \/ ReadFailure \/ ReadEnd \/ Push \/ EndReader

-----------------------------------------------------------------------------
(* schedule_reconnect.                                                      *)
ScheduleReconnect ==
    /\ wait' = delay
    /\ delay' = Doubled(delay)
    /\ fails' = Min({fails + 1, MaxDelay})
    /\ since' = 0

(* clear_realtime_connection: Drop aborts the reader.                       *)
ClearConnection ==
    /\ link' = "none" /\ wire' = <<>> /\ request' = "none" /\ owed' = FALSE
    /\ reader' = "none" /\ held' = "none" /\ inbound' = <<>> /\ alive' = FALSE
    /\ client' = FALSE /\ connectedFor' = -1

(* ensure_realtime_connection at the start of a tick.                       *)
BeginTick(next) == phase = "idle" /\ due = 1 /\ due' = 0 /\ calls' = 0 /\ timer' = 0 /\ phase' = next

IsStable == connectedFor = Stable

KeepConnection ==
    /\ BeginTick("read")
    /\ client /\ alive
    /\ delay' = IF IsStable THEN InitialDelay ELSE delay
    /\ connectedFor' = IF IsStable THEN -1 ELSE connectedFor
    /\ UNCHANGED <<service, task, client, wait, required, faults, losses>>

NoticeLoss ==
    /\ BeginTick("read")
    /\ client /\ ~alive
    /\ ClearConnection
    /\ ScheduleReconnect
    /\ UNCHANGED <<minimum, required, faults>>

WaitToReconnect ==
    /\ BeginTick("read")
    /\ ~client /\ wait > 0
    /\ UNCHANGED <<service, task, client, connectedFor, delay, wait, required, faults, losses>>

BeginConnect ==
    /\ BeginTick("connecting")
    /\ ~client /\ wait = 0
    /\ UNCHANGED <<service, task, client, connectedFor, delay, wait, required, faults, losses>>

(* Mutant of Connected: any connection that is made resets the delay.       *)
ConnectedResets ==
    /\ phase = "connecting" /\ phase' = "read"
    /\ ~minimum
    /\ required' = FALSE
    /\ link' = "open"
    /\ reader' = "reading" /\ alive' = TRUE
    /\ client' = TRUE /\ connectedFor' = 0
    /\ wait' = 0
    /\ delay' = InitialDelay
    /\ UNCHANGED <<minimum, wire, request, owed, held, inbound, timer, calls, due, faults,
                   losses>>

(* connect: the headers of the handshake are those of a service that takes  *)
(* this version.                                                            *)
Connected ==
    /\ phase = "connecting" /\ phase' = "read"
    /\ ~minimum
    /\ required' = FALSE
    /\ link' = "open"
    /\ reader' = "reading" /\ alive' = TRUE
    /\ client' = TRUE /\ connectedFor' = 0
    /\ wait' = 0
    /\ UNCHANGED <<minimum, wire, request, owed, held, inbound, delay, timer, calls, due,
                   faults, losses>>

(* Mutant of Incompatible: the UI is told by UPGRADE_REQUIRED only.         *)
IncompatibleUntold ==
    /\ phase = "connecting" /\ phase' = "read"
    /\ minimum
    /\ link' = "none"
    /\ ScheduleReconnect
    /\ UNCHANGED <<minimum, wire, request, owed, task, client, connectedFor, required, timer,
                   calls, due, faults>>

(* validate_handshake_headers finds a minimum that is newer.                *)
Incompatible ==
    /\ phase = "connecting" /\ phase' = "read"
    /\ minimum
    /\ required' = TRUE
    /\ link' = "none"
    /\ ScheduleReconnect
    /\ UNCHANGED <<minimum, wire, request, owed, task, client, connectedFor, timer, calls, due,
                   faults>>

ConnectFails ==
    /\ phase = "connecting" /\ phase' = "read"
    /\ Fault
    /\ link' = "none"
    /\ ScheduleReconnect
    /\ UNCHANGED <<minimum, wire, request, owed, task, client, connectedFor, required, timer,
                   calls, due>>

-----------------------------------------------------------------------------
(* read_log; what it reads is in Pacing.                                    *)
EndRead ==
    /\ phase = "read" /\ phase' = "ready"
    /\ UNCHANGED <<service, task, client, connectedFor, delay, wait, required, timer,
                   calls, due, faults, losses>>

(* A call of the client begins to send, which ends when the socket takes it *)
(* (send_json), and then waits for its answer.                              *)
BeginCall ==
    /\ phase = "ready" /\ phase' = "sending"
    /\ client /\ alive
    /\ calls < CallsPerTick /\ calls' = calls + 1
    /\ UNCHANGED <<service, task, client, connectedFor, delay, wait, required, timer, due,
                   faults, losses>>

Sent ==
    /\ phase = "sending" /\ phase' = "waiting"
    /\ timer' = 0
    /\ request' = "sent"
    /\ UNCHANGED <<minimum, link, wire, owed, task, client, connectedFor, delay, wait,
                   required, calls, due, faults, losses>>

(* observe_connection, pause_connection, deliver_pending_reports or         *)
(* deliver_pending_pings after a call that failed.                          *)
GiveUp ==
    /\ phase' = "idle"
    /\ ClearConnection
    /\ ScheduleReconnect
    /\ timer' = 0
    /\ UNCHANGED <<minimum, calls, due, faults>>

(* send_json finds the reader gone.                                         *)
NotConnected ==
    /\ phase = "ready"
    /\ client /\ ~alive
    /\ GiveUp
    /\ UNCHANGED required

SendFails ==
    /\ phase = "sending"
    /\ link # "open"
    /\ GiveUp
    /\ UNCHANGED required

(* next_server_message takes what is in the channel.                        *)
Receive(message) ==
    /\ phase = "waiting"
    /\ inbound # <<>> /\ Head(inbound) = message

TakeWelcome ==
    /\ Receive("welcome")
    /\ inbound' = Tail(inbound)
    /\ required' = FALSE
    /\ UNCHANGED <<service, reader, held, alive, client, connectedFor, delay, wait, phase,
                   timer, calls, due, faults, losses>>

TakeAnswer ==
    /\ Receive("answer")
    /\ inbound' = Tail(inbound)
    /\ phase' = "ready"
    /\ timer' = 0
    /\ UNCHANGED <<service, reader, held, alive, client, connectedFor, delay, wait,
                   required, calls, due, faults, losses>>

TakeUpgrade ==
    /\ Receive("upgrade")
    /\ GiveUp
    /\ required' = TRUE

TakeFailure ==
    /\ Receive("failed") \/ (phase = "waiting" /\ inbound = <<>> /\ reader = "ended")
    /\ GiveUp
    /\ UNCHANGED required

CallTimesOut ==
    /\ phase = "waiting"
    /\ timer = Timeout
    /\ GiveUp
    /\ UNCHANGED required

EndTick ==
    /\ phase = "ready" /\ phase' = "idle"
    /\ UNCHANGED <<service, task, client, connectedFor, delay, wait, required, timer,
                   calls, due, faults, losses>>

(* How the awaits that have no timeout end, if they do: a peer that is      *)
(* silent need not let them.                                                *)
Untimed == Connected \/ Incompatible \/ Sent \/ SendFails

Worker ==
    \/ KeepConnection \/ NoticeLoss \/ WaitToReconnect \/ BeginConnect
    \/ link # "silent" /\ Untimed
    \/ NotConnected \/ TakeWelcome \/ TakeAnswer \/ TakeUpgrade \/ TakeFailure \/ CallTimesOut
    \/ EndTick

-----------------------------------------------------------------------------
(* Time passes for the worker in its sleep, in a call whose answer does not *)
(* come, and, without bound, where it is held by a connection attempt or a  *)
(* send.                                                                    *)
Held == phase \in {"connecting", "sending"}

TimePasses ==
    \/ phase = "idle" /\ due = 0
    \/ Held
    \/ phase = "waiting" /\ timer < Timeout /\ (request = "late" \/ link = "silent")

Elapse ==
    /\ TimePasses
    /\ due' = 1
    /\ timer' = IF phase = "waiting" THEN timer + 1 ELSE 0
    /\ wait' = Max({wait - 1, 0})
    /\ connectedFor' = IF connectedFor = -1 THEN -1 ELSE Min({connectedFor + 1, Stable})
    /\ since' = Min({since + 1, MaxDelay})
    /\ fails' = IF connectedFor >= Stable - 1 /\ alive THEN 0 ELSE fails
    /\ UNCHANGED <<service, task, client, delay, required, phase, calls, faults>>

Service ==
    \/ Greet \/ Ping \/ Serve
    \/ AnswerLate \/ CloseLink \/ LinkFails \/ HandshakeStalls \/ RequireUpgrade \/ AllowOld

(* All steps but those that Pacing completes: EndRead and Elapse.           *)
ConnectionStep == Service \/ Reader \/ Worker \/ Untimed \/ BeginCall \/ ConnectFails

-----------------------------------------------------------------------------
(* Between a loss, or an attempt that failed, and the next attempt lies the *)
(* delay, doubled for every one since the last connection that was stable:  *)
(* a service that accepts and drops is not stormed.                         *)
BackoffRespected == [][BeginConnect => since >= Backoff[fails]]_connectionVars

(* A connection is used again and again, as long as there is one, and what  *)
(* a call sends goes out.                                                   *)
Used == []<>(~client \/ phase = "waiting")

(* Or the reader can tell: nothing is silent, and the channel has room.     *)
Noticed == <>[](link # "silent" /\ reader # "sending")

(* No handshake goes unanswered for good: nothing would end the attempt,    *)
(* and the worker makes no other.                                           *)
Answered == []<>(phase # "connecting")

(* Whatever a full channel, a link that fails or falls silent, or a reader  *)
(* that ended leave behind: a collector that is not too old ends up         *)
(* connected, once nothing fails any more, or its worker is held for good   *)
(* by an attempt at a peer that is silent.                                  *)
EventuallyConnected ==
    Used \/ Noticed => (<>[]~minimum => \/ <>[](client /\ link = "open")
                                        \/ <>[](phase = "connecting" /\ link = "silent"))

(* That the service requires an update is shown in the end, although        *)
(* UPGRADE_REQUIRED is only looked at by calls, and is not shown for ever,  *)
(* unless an attempt holds the worker for good.                             *)
UpgradeShown ==
    Used /\ Answered => /\ <>[]minimum => <>[]required
                        /\ <>[]~minimum => <>[]~required

(* A ping of the service is answered, or its connection given up, although  *)
(* the reader may be waiting for room in the channel.                       *)
HeartbeatsAnswered == Used => [](owed => <>~owed)
=============================================================================
