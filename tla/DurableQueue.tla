---------------------------- MODULE DurableQueue ----------------------------
(***************************************************************************)
(* What the report spool promises to its only client, the collector        *)
(* worker: a first-in first-out queue of reports that survives crashes.    *)
(*                                                                         *)
(* queue is the value a restart is entitled to find.  A change of the      *)
(* queue is first attempted and then either committed, refused, or cut     *)
(* short by a crash.  After a crash the queue comes back either as it was  *)
(* committed or as one of the changes attempted since; nothing else is     *)
(* ever seen, and a committed change is never undone.                      *)
(***************************************************************************)
EXTENDS Integers, Sequences

CONSTANTS
    Reports,    \* the reports that can be put in the queue
    Capacity    \* the largest number of reports the queue may hold

VARIABLES
    queue,      \* the last committed value
    attempts,   \* the values attempted since the last commit
    view,       \* what the client holds in memory
    up          \* the client is running

vars == <<queue, attempts, view, up>>

-----------------------------------------------------------------------------
(* The proper subsequences of s: what is left when some reports are dropped *)
(* and the others keep their order.                                         *)
Remainders(s) ==
    UNION { { [i \in 1 .. n |-> s[f[i]]] :
                f \in { g \in [1 .. n -> 1 .. Len(s)] :
                          \A i, j \in 1 .. n : i < j => g[i] < g[j] } } :
            n \in 0 .. Len(s) - 1 }

Appended(s) ==
    IF Len(s) < Capacity THEN { Append(s, r) : r \in Reports } ELSE {}

Init ==
    /\ queue = <<>>
    /\ attempts = {}
    /\ view = <<>>
    /\ up = FALSE

(* The client edits a queue it has in step with the store.                  *)
Attempt ==
    /\ up
    /\ view = queue
    /\ view' \in Appended(queue) \union Remainders(queue)
    /\ attempts' = attempts \union {view'}
    /\ UNCHANGED <<queue, up>>

Commit ==
    /\ up
    /\ view \in attempts
    /\ queue' = view
    /\ attempts' = {}
    /\ UNCHANGED <<view, up>>

(* A change that fails is taken back: the client sees the queue as it was.  *)
Refuse ==
    /\ up
    /\ view' = queue
    /\ UNCHANGED <<queue, attempts, up>>

Crash ==
    /\ up
    /\ up' = FALSE
    /\ view' = <<>>
    /\ UNCHANGED <<queue, attempts>>

Recover ==
    /\ ~up
    /\ up' = TRUE
    /\ view' \in attempts \union {queue}
    /\ attempts' \in {attempts, attempts \union {view'}}
    /\ UNCHANGED queue

Next == Attempt \/ Commit \/ Refuse \/ Crash \/ Recover

Spec == Init /\ [][Next]_vars
=============================================================================
