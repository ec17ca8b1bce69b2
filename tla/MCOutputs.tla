----------------------------- MODULE MCOutputs -----------------------------
(***************************************************************************)
(* The instances of Outputs that TLC checks, with ports of the real table  *)
(* (RestAPI.c:83-84) and a day of a few minutes.                           *)
(***************************************************************************)
EXTENDS Outputs, TLC

At(h, m) == [Hour |-> h, Min |-> m]

\* Port 1's pad is the UART's, port 2's is switched to GPIO12, port 6 is pin 16.
MCPorts == {1, 2, 6}
MCPortPinNumber == (1 :> 1) @@ (2 :> 12) @@ (6 :> 16)
MCPortsBits == (1 :> 1) @@ (2 :> 12) @@ (6 :> 16)

Ask(active, port, start, end) ==
    [Active |-> active, Port |-> port, StartTime |-> start, EndTime |-> end]

\* A day of 2 hours of 2 minutes: events within the day and over midnight; one
\* that is off (256 is 0 in a bool), and one for a port that does not exist.
MCEventRequests == {Ask(1, 2, At(0, 1), At(1, 0)), Ask(1, 6, At(1, 1), At(0, 1)),
                    Ask(256, 2, At(1, 1), At(0, 1)), Ask(1, 8, At(0, 1), At(1, 0))}

=============================================================================
