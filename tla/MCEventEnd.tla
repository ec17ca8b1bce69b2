----------------------------- MODULE MCEventEnd -----------------------------
(***************************************************************************)
(* Outputs with a history of the ports that the scheduler raised, to ask   *)
(* what becomes of such a port when its event ends.                        *)
(***************************************************************************)
EXTENDS MCOutputs

VARIABLE
    auto    \* the ports that are high since the scheduler raised them

Commanded(p) == doFlipinput(p) \/ doOpen(p) \/ \E v \in PinValues : doSetPin(p, v)

EventEndInit == Init /\ auto = {}

EventEndNext ==
    /\ Next
    /\ auto' = {p \in Ports :
                   /\ portsVal'[p] = 1 /\ ~Commanded(p)
                   /\ p \in auto \/ (OneSecLoop /\ portsVal[p] = 0)}

EventEndSpec == EventEndInit /\ [][EventEndNext]_<<vars, auto>>

\* "ip/event/.../STARTTIME(HH:MM)/endtime(HH:MM)" (RestAPI.c:47) and "there
\* might be other events that set it to high" (RestAPI.c:147): when no event
\* covers the time any more, the scheduler lowers the port it has raised.
EventEndLowers ==
    [][OneSecLoop => \A p \in auto : ~Raised(p) => portsVal'[p] = 0]_<<vars, auto>>

=============================================================================
