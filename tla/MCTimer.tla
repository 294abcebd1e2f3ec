------------------------------ MODULE MCTimer ------------------------------
(* Model of Timer for TLC.                                                 *)
EXTENDS Timer

\* No time at all, a few nanoseconds, and a second and a nanosecond.
DurationValues == {<<0, 0>>, <<0, 3>>, <<1, 1>>}
=============================================================================
