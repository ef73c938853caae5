---------------------------- MODULE PositionLedger ----------------------------
(***************************************************************************)
(* What the execution layer promises of each key (coin, side), without     *)
(* orders, calls or failures: one thing happens to a key at a time, and    *)
(* the position the book holds changes by exactly what was executed for    *)
(* the order that was out, once that order is over.                        *)
(***************************************************************************)
EXTENDS Naturals

CONSTANTS
    Key,        \* the (coin, side) pairs
    MaxQty      \* largest order quantity, in lots

VARIABLES
    phase,      \* Key -> "flat", "opening", "held" or "closing"
    held,       \* Key -> lots the book holds
    executed    \* Key -> lots executed for the order that is out

lvars == <<phase, held, executed>>

Init ==
    /\ phase = [k \in Key |-> "flat"]
    /\ held = [k \in Key |-> 0]
    /\ executed = [k \in Key |-> 0]

(* An order goes out: to open a flat key, or to close a held one. *)
Begin(k) ==
    /\ phase[k] \in {"flat", "held"}
    /\ phase' = [phase EXCEPT ![k] = IF @ = "flat" THEN "opening" ELSE "closing"]
    /\ UNCHANGED <<held, executed>>

(* Some of it executes; a close never executes more than is held. *)
Execute(k, n) ==
    /\ phase[k] \in {"opening", "closing"}
    /\ phase[k] = "closing" => executed[k] + n <= held[k]
    /\ executed' = [executed EXCEPT ![k] = @ + n]
    /\ UNCHANGED <<phase, held>>

(* The order is over, filled, partly filled or not at all. *)
Book(k) ==
    /\ phase[k] \in {"opening", "closing"}
    /\ held' = [held EXCEPT ![k] = IF phase[k] = "opening" THEN executed[k]
                                   ELSE @ - executed[k]]
    /\ phase' = [phase EXCEPT ![k] = IF held'[k] = 0 THEN "flat" ELSE "held"]
    /\ executed' = [executed EXCEPT ![k] = 0]

(* A position with no order out is written off: settled at expiry, or booked
   flat by the operator. *)
WriteOff(k) ==
    /\ phase[k] = "held"
    /\ phase' = [phase EXCEPT ![k] = "flat"]
    /\ held' = [held EXCEPT ![k] = 0]
    /\ UNCHANGED executed

Next ==
    \E k \in Key :
        \/ Begin(k) \/ Book(k) \/ WriteOff(k)
        \/ \E n \in 1..MaxQty : Execute(k, n)

Spec == Init /\ [][Next]_lvars

=============================================================================
