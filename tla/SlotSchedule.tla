---------------------------- MODULE SlotSchedule ----------------------------
(***************************************************************************)
(* What the rate limiter promises to the code that calls it: time passes,  *)
(* and every permission to send belongs to an instant of its own, not in   *)
(* the future, at least one interval away from every other permission.     *)
(* How waiting callers share the schedule is left to the implementation    *)
(* (module Limiter).                                                       *)
(***************************************************************************)
EXTENDS Integers

VARIABLES
    now,        \* the clock
    interval,   \* distance between two permissions; 0: no limit
    granted,    \* the instants for which a permission was given
    sent        \* how many permissions were given

schedule == <<now, interval, granted, sent>>

Init ==
    /\ now = 0
    /\ interval \in Nat
    /\ granted = {}
    /\ sent = 0

Tick ==
    /\ now' = now + 1
    /\ UNCHANGED <<interval, granted, sent>>

Far(t) == \A g \in granted : t - g >= interval \/ g - t >= interval

Grant(t) ==
    /\ interval # 0
    /\ Far(t)
    /\ granted' = granted \cup {t}
    /\ sent' = sent + 1
    /\ UNCHANGED <<now, interval>>

GrantUnlimited ==
    /\ interval = 0
    /\ sent' = sent + 1
    /\ UNCHANGED <<now, interval, granted>>

Next == Tick \/ (\E t \in 0 .. now : Grant(t)) \/ GrantUnlimited

Spec == Init /\ [][Next]_schedule
=============================================================================
