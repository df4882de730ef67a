----------------------------- MODULE Reporting ------------------------------
(***************************************************************************)
(* What the collector promises to the player whose reports it takes: a     *)
(* report it has accepted is kept until the service has queued it or it is *)
(* older than 30 minutes, and the service queues the reports once each and *)
(* in the order in which they were observed.                               *)
(*                                                                         *)
(* There are no connections, calls or processes here, and a report is held *)
(* or not, on whatever: module Delivery is shown to implement this.        *)
(***************************************************************************)
EXTENDS Integers, Sequences

VARIABLES
    issued,     \* reports observed so far, which number them
    accepted,   \* the reports the collector has answered for
    held,       \* the reports it keeps, in the order of their observation
    received,   \* the reports the service has queued, in that order
    expired     \* reports up to this number are older than 30 minutes

vars == <<issued, accepted, held, received, expired>>

Queued(r) == \E i \in 1 .. Len(received) : received[i] = r

Kept(r) == \E i \in 1 .. Len(held) : held[i] = r

(* Nobody waits for the report any more.                                    *)
Done(r) == Queued(r) \/ r <= expired

Init ==
    /\ issued = 0
    /\ accepted = {}
    /\ held = <<>>
    /\ received = <<>>
    /\ expired = 0

Observe ==
    /\ issued' = issued + 1
    /\ held' = Append(held, issued')
    /\ accepted' = accepted \union {issued'}
    /\ UNCHANGED <<received, expired>>

(* The collector dies over it: the report is not accepted, and may be kept. *)
ObserveFails ==
    /\ issued' = issued + 1
    /\ held' \in {held, Append(held, issued')}
    /\ UNCHANGED <<accepted, received, expired>>

(* The service queues a report for the first time: one that is kept, if it  *)
(* is not too old, and after all that were observed before it and are       *)
(* waiting still.                                                           *)
Deliver ==
    \E r \in 1 .. issued :
        /\ received' = Append(received, r)
        /\ ~Queued(r)
        /\ Kept(r) \/ r <= expired
        /\ \A q \in 1 .. issued : q < r /\ Kept(q) => Done(q)
        /\ \A q \in 1 .. issued : r < q /\ Queued(q) => r <= expired
        /\ UNCHANGED <<issued, accepted, held, expired>>

(* The collector ceases to keep the oldest of its reports, when nobody      *)
(* waits for them any more.                                                 *)
Release ==
    \E n \in 1 .. Len(held) :
        /\ held' = SubSeq(held, n + 1, Len(held))
        /\ \A i \in 1 .. n : Done(held[i])
        /\ UNCHANGED <<issued, accepted, received, expired>>

Expire ==
    /\ expired < issued
    /\ expired' = expired + 1
    /\ UNCHANGED <<issued, accepted, held, received>>

Next == Observe \/ ObserveFails \/ Deliver \/ Release \/ Expire

Spec == Init /\ [][Next]_vars
=============================================================================
