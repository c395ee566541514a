----------------------------- MODULE MCLimiter -----------------------------
(* Instance of Limiter for TLC: rpm 3 in a minute of 6 units gives slots    *)
(* two units apart, rpm -1 an unlimited one.                                *)
EXTENDS Limiter

const_Rpms == {-1, 3}
=============================================================================
