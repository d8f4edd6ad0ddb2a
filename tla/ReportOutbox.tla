----------------------------- MODULE ReportOutbox -----------------------------
(***************************************************************************)
(* What the forwarder promises about a report, with neither memory, files, *)
(* batches nor retries: a report that was handed over is held until the    *)
(* remote endpoint received it, until it is parked for an operator, or     *)
(* until it is lost in an event the owner can name.  Holding on to a       *)
(* report that was already received is allowed (at-least-once delivery);   *)
(* bringing one back that was let go is not.                               *)
(***************************************************************************)
EXTENDS Naturals

CONSTANT Reports     \* report numbers, in the order they are handed over

VARIABLES
    accepted,        \* number of reports handed over
    held,            \* reports the agent still has a copy of
    parked,          \* reports given up and kept for inspection
    received,        \* reports the endpoint has received
    lost,            \* reports let go that were never received
    mayLose          \* a crash or an I/O error has happened

vars == <<accepted, held, parked, received, lost, mayLose>>

Init ==
    /\ accepted = 0 /\ held = {} /\ parked = {}
    /\ received = {} /\ lost = {} /\ mayLose = FALSE

(* Enqueue: reports are handed over one at a time and in order. *)
Accept ==
    /\ accepted + 1 \in Reports
    /\ accepted' = accepted + 1
    /\ held' = held \cup {accepted + 1}
    /\ UNCHANGED <<parked, received, lost, mayLose>>

(* The endpoint receives a batch of held reports. *)
Deliver ==
    /\ \E S \in SUBSET held : received' = received \cup S
    /\ UNCHANGED <<accepted, held, parked, lost, mayLose>>

(* Copies of received reports are dropped. *)
Release ==
    /\ \E S \in SUBSET (held \cap received) : held' = held \ S
    /\ UNCHANGED <<accepted, parked, received, lost, mayLose>>

(* A report is given up after its last retry. *)
Park ==
    /\ \E r \in held : held' = held \ {r} /\ parked' = parked \cup {r}
    /\ UNCHANGED <<accepted, received, lost, mayLose>>

(* The only way a report disappears: an error or a crash, now or earlier. *)
Lose ==
    /\ \E S \in SUBSET held :
        held' = held \ S /\ lost' = lost \cup (S \ received)
    /\ mayLose' = TRUE
    /\ UNCHANGED <<accepted, parked, received>>

Next == Accept \/ Deliver \/ Release \/ Park \/ Lose

Spec == Init /\ [][Next]_vars
=============================================================================
