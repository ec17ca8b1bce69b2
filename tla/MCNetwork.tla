------------------------------ MODULE MCNetwork ------------------------------
(* Values for Network: Greenwich, where the clock starts, and a zone east.    *)
EXTENDS Network

MCZones == {0, 3}

=============================================================================
