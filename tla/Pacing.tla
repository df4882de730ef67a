------------------------------- MODULE Pacing -------------------------------
(***************************************************************************)
(* What the worker's pace does to the events: the lines of the game wait   *)
(* in its log until read_log of the next tick, while the worker connects,  *)
(* sends or waits for answers (Connection), and EventDeduplicator          *)
(* (src/parser/dedup.rs) measures its window when they are read.  How late *)
(* it can be has a bound but for what connection attempts and sends take,  *)
(* which nothing bounds: that time is left out of an announcement's age,   *)
(* and the window runs on in it.                                           *)
(***************************************************************************)
EXTENDS Connection

CONSTANTS
    Events,    \* events that the game announces
    Window,    \* the deduplicator's ttl
    MaxUnread  \* bound: announcements that have not been read

ASSUME PacingAssumption == Window \in Nat /\ MaxUnread \in Nat

VARIABLES
    unread, \* announcements in the log that have not been read; history: their age
    seen,   \* EventDeduplicator::seen, as time since then; Window + 1 for none
    written \* history: the age of the announcement that was accepted last

pacingVars == <<connectionVars, unread, seen, written>>

(* The longest an announcement waits while no attempt or send holds the     *)
(* worker: the sleep, or the waits for the answers to the calls of a tick.  *)
Lag == Max({CallsPerTick * Timeout, 1})
Forgotten == Window + Lag + 1

PacingInit ==
    /\ ConnectionInit
    /\ unread = <<>>
    /\ seen = [e \in Events |-> Window + 1]
    /\ written = [e \in Events |-> Forgotten]

Announce(e) ==
    /\ Len(unread) < MaxUnread
    /\ unread' = Append(unread, [event |-> e, age |-> 0])
    /\ UNCHANGED <<connectionVars, seen, written>>

(* EventDeduplicator::accept, and enqueue_events with what it accepts.      *)
Accept(e) ==
    /\ phase = "read"
    /\ unread # <<>> /\ Head(unread).event = e
    /\ seen[e] > Window
    /\ seen' = [seen EXCEPT ![e] = 0]
    /\ written' = [written EXCEPT ![e] = Head(unread).age]
    /\ unread' = Tail(unread)
    /\ UNCHANGED connectionVars

(* Mutant of Suppress: each sighting of an event starts its window anew.    *)
SuppressAndRefresh(e) ==
    /\ phase = "read"
    /\ unread # <<>> /\ Head(unread).event = e
    /\ seen[e] <= Window
    /\ seen' = [seen EXCEPT ![e] = 0]
    /\ unread' = Tail(unread)
    /\ UNCHANGED <<connectionVars, written>>

Suppress(e) ==
    /\ phase = "read"
    /\ unread # <<>> /\ Head(unread).event = e
    /\ seen[e] <= Window
    /\ unread' = Tail(unread)
    /\ UNCHANGED <<connectionVars, seen, written>>

ReadEnds == EndRead /\ unread = <<>> /\ UNCHANGED <<unread, seen, written>>

(* retain forgets what is older than the window.                            *)
PacingElapse ==
    /\ Elapse
    /\ seen' = [e \in Events |-> Min({seen[e] + 1, Window + 1})]
    /\ IF Held
       THEN UNCHANGED <<unread, written>>
       ELSE /\ unread' = [i \in DOMAIN unread |-> [unread[i] EXCEPT !.age = @ + 1]]
            /\ written' = [e \in Events |-> Min({written[e] + 1, Forgotten})]

Connecting == ConnectionStep /\ UNCHANGED <<unread, seen, written>>

ReadLog == ReadEnds \/ \E e \in Events : Accept(e) \/ Suppress(e)

PacingNext == Connecting \/ PacingElapse \/ ReadLog \/ \E e \in Events : Announce(e)

(* The two tasks are scheduled, time passes, and a service that is not late *)
(* answers; a connection attempt or a send ends unless its peer is silent.  *)
(* A read comes to the end of the file as it finds it, although the game    *)
(* may go on writing.                                                       *)
PacingSpec ==
    /\ PacingInit /\ [][PacingNext]_pacingVars
    /\ WF_pacingVars(Reader /\ UNCHANGED <<unread, seen, written>>)
    /\ WF_pacingVars(Worker /\ UNCHANGED <<unread, seen, written>>)
    /\ WF_pacingVars(Serve /\ UNCHANGED <<unread, seen, written>>)
    /\ WF_pacingVars(PacingElapse)
    /\ SF_pacingVars(ReadEnds)
    /\ \A e \in Events : WF_pacingVars(Accept(e) \/ Suppress(e))

-----------------------------------------------------------------------------
(* An announcement is only taken for a repetition of one that was written   *)
(* shortly before: the window, what the worker may have been late by its    *)
(* sleep and its timeouts, and what attempts and sends took meanwhile.  A   *)
(* repeated announcement is not suppressed for ever, and none is because of *)
(* another.                                                                 *)
DuplicateIsRecent ==
    [][\A e \in Events : Suppress(e) => written[e] < Forgotten]_pacingVars
=============================================================================
