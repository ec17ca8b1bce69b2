----------------------------- MODULE MCSettings -----------------------------
(***************************************************************************)
(* The instance of Settings that TLC checks: clients choose between two    *)
(* networks, and one other value for each of the other fields; of a sector *)
(* that is being erased nothing, the magic number, two or all others of    *)
(* the fields, or all may be gone.                                         *)
(***************************************************************************)
EXTENDS Settings

MCNetworks == {<<"home", "home's">>, <<"garage", "garage's">>}

MCChoices ==
    [events |-> {"chosen"}, ports |-> {"chosen"}, morePorts |-> {DefaultNames},
     SNTP |-> {"5"}, ServerPort |-> {ServerPortZero, "8080"}]

MCLosses == {{}, {"magic"}, {"ssid", "events"}, Fields \ {"magic"}, Fields}
=============================================================================
