------------------------------- MODULE Ledger --------------------------------
(***************************************************************************)
(* What the budget processor promises, without batches, flushes, offsets   *)
(* that are committed or a process that restarts: an account book over the *)
(* event log. Each event is entered at most once, in the order of the log, *)
(* with exactly its cost and for exactly its tenant; what a tenant owes is *)
(* settled as a whole, in whole cents, or forfeited as a whole. Nothing    *)
(* reaches `spent` in any other way.                                       *)
(***************************************************************************)
EXTENDS Integers, Sequences

CONSTANTS Tenants, Message, Unit

VARIABLES log,      \* the events, in order
          entered,  \* the place in the log of the event entered last
          due,      \* what each tenant owes, in units
          spent     \* what each tenant has paid, in cents

vars == <<log, entered, due, spent>>

Init ==
    /\ log = <<>>
    /\ entered = 0
    /\ due = [t \in Tenants |-> 0]
    /\ spent = [t \in Tenants |-> 0]

Arrive ==
    /\ \E m \in Message : log' = Append(log, m)
    /\ UNCHANGED <<entered, due, spent>>

(* An event may be passed over, never gone back to. *)
Enter(k) ==
    /\ k > entered
    /\ log[k].ok
    /\ entered' = k
    /\ due' = [due EXCEPT ![log[k].tenant] = @ + log[k].cost]
    /\ UNCHANGED <<log, spent>>

Settle(t) ==
    /\ spent' = [spent EXCEPT ![t] = @ + due[t] \div Unit]
    /\ due' = [due EXCEPT ![t] = 0]
    /\ UNCHANGED <<log, entered>>

Forfeit(T) ==
    /\ due' = [t \in Tenants |-> IF t \in T THEN 0 ELSE due[t]]
    /\ UNCHANGED <<log, entered, spent>>

Next ==
    \/ Arrive
    \/ \E k \in DOMAIN log : Enter(k)
    \/ \E t \in Tenants : Settle(t)
    \/ \E T \in SUBSET Tenants : Forfeit(T)

Spec == Init /\ [][Next]_vars
=============================================================================
