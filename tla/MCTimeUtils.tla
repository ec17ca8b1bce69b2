----------------------------- MODULE MCTimeUtils -----------------------------
(* Values for TimeUtils: the seconds at which a day, an hour or a minute      *)
(* begins or ends, and zones on both sides of GMT.                            *)
EXTENDS TimeUtils

MCSeconds == {0, 1, 3599, 86399}
MCZones == {-5, 0, 3}

=============================================================================
