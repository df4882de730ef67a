------------------------------ MODULE Realtime ------------------------------
(***************************************************************************)
(* The WebSocket client of src/realtime/client.rs, the links it opens one  *)
(* after another, and the realtime service at the other end.               *)
(*                                                                         *)
(* The client makes one request at a time and waits for its answer; the    *)
(* service is external and is modelled from what the client sends it and   *)
(* what it takes for an answer.  A link delivers in order until it fails.  *)
(* What was in flight on an abandoned link may still reach the service, or *)
(* be lost, at any later time.                                             *)
(*                                                                         *)
(* The module gives the actions of the service and of the links, and the   *)
(* steps of a call as operators: who calls, and what follows, is the       *)
(* worker's business (module Delivery).                                    *)
(***************************************************************************)
EXTENDS Integers, Sequences

CONSTANTS
    Links,      \* the links that can be in use or have messages in flight
    None,       \* no connection
    Rejected    \* reports the service answers with an error

VARIABLES
    conn,           \* CollectorApplication.realtime: a link, or None
    alive,          \* RealtimeClient.alive
    acknowledged,   \* RealtimeClient.acknowledged_state
    request,        \* the request whose answer is awaited, or Idle
    inbound,        \* RealtimeClient.inbound
    outbound,       \* messages in flight to the service, by link
    serverState,    \* the service's observation state, by link
    received,       \* reports the service has queued, in order of arrival
    pinged,         \* pings the service has queued
    calm            \* the environment has stopped failing

client == <<conn, alive, acknowledged, request, inbound>>
service == <<outbound, serverState, received, pinged>>

-----------------------------------------------------------------------------
(* ObservationState, and CollectorUpdateSlot.granted.                       *)
PAUSED == 0
OBSERVING == 1
DENIED == 0
GRANTED == 1

Message(type, value) == [type |-> type, value |-> value]

Idle == Message("idle", 0)
StateMessage(s) == Message("state", s)
EventReport(r) == Message("report", r)
ChatPingReport(p) == Message("ping", p)
UpdateReady == Message("ready", 0)

ReportQueued(id) == Message("queued", id)
StateUpdated(s) == Message("updated", s)
UpdateSlot(g) == Message("slot", g)
Error == Message("error", 0)
Failed == Message("failed", 0)

(* What set_state, wait_for_report_queued and request_update_slot take for  *)
(* the answer to the request in progress.                                   *)
Answers(m) ==
    \/ request.type = "state" /\ m = StateUpdated(request.value)
    \/ request.type \in {"report", "ping"} /\ m = ReportQueued(request.value)
    \/ request.type = "ready" /\ m.type = "slot"

Refuses(m) == m.type \in {"error", "failed"}

-----------------------------------------------------------------------------
RealtimeInit ==
    /\ conn = None
    /\ alive = FALSE
    /\ acknowledged = PAUSED
    /\ request = Idle
    /\ inbound = <<>>
    /\ outbound = [c \in Links |-> <<>>]
    /\ serverState = [c \in Links |-> PAUSED]
    /\ received = <<>>
    /\ pinged = {}
    /\ calm = FALSE

Connected == conn # None /\ alive

(* Mutant of Connect: the new client goes on from the state of the last.    *)
ConnectAsBefore ==
    /\ conn = None
    /\ \E c \in Links :
         /\ outbound[c] = <<>>
         /\ conn' = c
         /\ serverState' = [serverState EXCEPT ![c] = PAUSED]
    /\ alive' = TRUE
    /\ request' = Idle
    /\ inbound' = <<>>
    /\ UNCHANGED <<acknowledged, outbound, received, pinged, calm>>

(* RealtimeClient::connect: "every new session" starts PAUSED.              *)
Connect ==
    /\ conn = None
    /\ \E c \in Links :
         /\ outbound[c] = <<>>
         /\ conn' = c
         /\ serverState' = [serverState EXCEPT ![c] = PAUSED]
    /\ alive' = TRUE
    /\ acknowledged' = PAUSED
    /\ request' = Idle
    /\ inbound' = <<>>
    /\ UNCHANGED <<outbound, received, pinged, calm>>

(* clear_realtime_connection: the client is dropped.                        *)
Dropped ==
    /\ conn' = None
    /\ alive' = FALSE
    /\ request' = Idle
    /\ inbound' = <<>>
    /\ UNCHANGED acknowledged

(* send_json: the request is written to the socket.                         *)
Send(m) ==
    /\ Connected
    /\ outbound' = [outbound EXCEPT ![conn] = Append(@, m)]
    /\ request' = m
    /\ UNCHANGED <<conn, alive, acknowledged, inbound,
                   serverState, received, pinged, calm>>

Waiting == request # Idle /\ inbound # <<>>

(* The awaited answer arrives and the call returns Ok.                      *)
Answered ==
    /\ Waiting
    /\ Answers(Head(inbound))
    /\ inbound' = Tail(inbound)
    /\ request' = Idle
    /\ acknowledged' = IF request.type = "state" THEN request.value ELSE acknowledged
    /\ UNCHANGED <<conn, alive, service, calm>>

(* The call returns an error: the service refused, the link failed, or the  *)
(* answer took longer than response_timeout.                                *)
CallFails ==
    /\ request # Idle
    /\ \/ ~calm
       \/ inbound # <<>> /\ Refuses(Head(inbound))
       \/ ~alive

(* A message that is not the awaited one is read and dropped.               *)
IgnoreMessage ==
    /\ Waiting
    /\ ~Answers(Head(inbound))
    /\ ~Refuses(Head(inbound))
    /\ inbound' = Tail(inbound)
    /\ UNCHANGED <<conn, alive, acknowledged, request, service, calm>>

-----------------------------------------------------------------------------
(* The service takes a message from a link and answers it, if the client    *)
(* still listens there.                                                     *)
Reply(c, m) ==
    inbound' = IF c = conn /\ alive THEN Append(inbound, m) ELSE inbound

Queue(r) ==
    received' = IF \E i \in DOMAIN received : received[i] = r
                THEN received ELSE Append(received, r)

ServeState(c, m) ==
    /\ m.type = "state"
    /\ serverState' = [serverState EXCEPT ![c] = m.value]
    /\ Reply(c, StateUpdated(m.value))
    /\ UNCHANGED <<received, pinged>>

ServeReport(c, m) ==
    /\ m.type = "report"
    /\ IF serverState[c] = OBSERVING /\ m.value \notin Rejected
       THEN Queue(m.value) /\ Reply(c, ReportQueued(m.value))
       ELSE Reply(c, Error) /\ UNCHANGED received
    /\ UNCHANGED <<serverState, pinged>>

ServePing(c, m) ==
    /\ m.type = "ping"
    /\ pinged' = pinged \union {m.value}
    /\ Reply(c, ReportQueued(m.value))
    /\ UNCHANGED <<serverState, received>>

ServeUpdateReady(c, m) ==
    /\ m.type = "ready"
    /\ \E g \in {DENIED, GRANTED} : Reply(c, UpdateSlot(g))
    /\ UNCHANGED <<serverState, received, pinged>>

(* RATE_LIMITED, TOO_MANY_IN_FLIGHT, DELIVERY_UNAVAILABLE ...               *)
ServeError(c) ==
    /\ ~calm
    /\ Reply(c, Error)
    /\ UNCHANGED <<serverState, received, pinged>>

Serve(c) ==
    /\ outbound[c] # <<>>
    /\ \/ ServeState(c, Head(outbound[c]))
       \/ ServeReport(c, Head(outbound[c]))
       \/ ServePing(c, Head(outbound[c]))
       \/ ServeUpdateReady(c, Head(outbound[c]))
       \/ ServeError(c)
    /\ outbound' = [outbound EXCEPT ![c] = Tail(@)]
    /\ UNCHANGED <<conn, alive, acknowledged, request, calm>>

(* read_loop ends: a close frame, a socket error or the end of the stream.  *)
(* The answers that had not arrived are lost.                               *)
LinkFails ==
    /\ ~calm
    /\ Connected
    /\ alive' = FALSE
    /\ \E n \in 0 .. Len(inbound) :
         inbound' = Append(SubSeq(inbound, 1, n), Failed)
    /\ UNCHANGED <<conn, acknowledged, request, service, calm>>

(* What was in flight on a dead link is lost.                               *)
LoseInFlight(c) ==
    /\ outbound[c] # <<>>
    /\ c # conn \/ ~alive
    /\ outbound' = [outbound EXCEPT ![c] = <<>>]
    /\ UNCHANGED <<client, serverState, received, pinged, calm>>
=============================================================================
