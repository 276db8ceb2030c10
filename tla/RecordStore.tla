----------------------------- MODULE RecordStore -----------------------------
(***************************************************************************)
(* What the caches promise to the tenant lookups, without tiers, instances,*)
(* times to live or refills: one store of records. A record is made by     *)
(* reading the database and in no other way, a lookup is answered with a   *)
(* record that is in the store, a record that has left the store does not  *)
(* come back, and none gets as old as MaxAge. A record is named by the time*)
(* at which it was read.                                                   *)
(***************************************************************************)
EXTENDS Integers

CONSTANTS Lookups, MaxAge

VARIABLES now,
          records,  \* the records somebody could still be answered with
          stage,    \* stage[c]: "resting", "looking" or "answered"
          answer    \* answer[c]: the record c was answered with, else 0

vars == <<now, records, stage, answer>>

Init ==
    /\ now = 0
    /\ records = {}
    /\ stage = [c \in Lookups |-> "resting"]
    /\ answer = [c \in Lookups |-> 0]

Move(c, s, v) ==
    /\ stage' = [stage EXCEPT ![c] = s]
    /\ answer' = [answer EXCEPT ![c] = v]

Begin(c) ==
    /\ stage[c] # "looking"
    /\ Move(c, "looking", 0)
    /\ UNCHANGED <<now, records>>

(* A lookup reads the database; it is not answered in the same step. *)
Read ==
    /\ \E c \in Lookups : stage[c] = "looking"
    /\ records' = records \cup {now}
    /\ UNCHANGED <<now, stage, answer>>

(* The answer may be the last use of records. *)
Give(c) ==
    /\ \E v \in records : now - v < MaxAge /\ Move(c, "answered", v)
    /\ records' \subseteq records
    /\ UNCHANGED now

Deny(c) ==
    /\ stage[c] = "looking"
    /\ Move(c, "resting", 0)
    /\ UNCHANGED <<now, records>>

(* Records are overwritten or evicted. *)
Forget ==
    /\ records' \subseteq records
    /\ UNCHANGED <<now, stage, answer>>

Tick ==
    /\ now' = now + 1
    /\ records' \subseteq {v \in records : now' - v < MaxAge}
    /\ UNCHANGED <<stage, answer>>

Next ==
    \/ \E c \in Lookups : Begin(c) \/ Give(c) \/ Deny(c)
    \/ Read \/ Forget \/ Tick

Spec == Init /\ [][Next]_vars
=============================================================================
