------------------------------- MODULE Network -------------------------------
(***************************************************************************)
(* Bringing up the network in src/user/user_main.c, composed with the SNTP *)
(* client it starts: network_check_ip is a timer callback that arms its    *)
(* own timer again, starts the HTTP server and the client of module Sntp,  *)
(* and restarts a Wi-Fi connection that does not come up.  The SDK's       *)
(* station joins, loses and joins again by itself; without it nothing      *)
(* reaches the client, whose timeouts go on.                               *)
(*                                                                         *)
(* ServerInit and sntp_init are called again and again; only the first     *)
(* call of each starts something (espconn_accept refuses a socket that     *)
(* listens already), but each call of sntp_init sets the time zone, and    *)
(* nothing else does: ip/sntp only stores a new one.                       *)
(***************************************************************************)
EXTENDS Sntp

CONSTANT
    MAX_TRIES       \* 30 in the code

ASSUME NetworkAssumption == MAX_TRIES \in Nat \ {0}

VARIABLES
    network_timer,  \* seconds the timer is armed for, or 0
    counter,        \* failed checks since the station was last restarted
    station,        \* the SDK's station: "joining" or "got_ip"
    undisturbed,    \* failed checks since the station began to join: what the code
                    \* leaves the SDK of time; no variable of the code
    listening,      \* the HTTP server has been started
    SNTP            \* flashData->SNTP, the zone asked for

net == <<network_timer, counter, station, undisturbed, listening, SNTP>>
netvars == <<net, vars>>

-----------------------------------------------------------------------------
\* The end of user_init: network_init arms the timer, the station is joining.
NetInit ==
    /\ Init
    /\ network_timer = 1
    /\ counter = 0
    /\ station = "joining"
    /\ undisturbed = 0
    /\ listening = FALSE
    /\ SNTP \in Zones

\* Mutants: each of the two branches leaves the server to the other.
ServeApOnly == UNCHANGED listening
ServeConnectedOnly == UNCHANGED listening

\* ServerInit, in the two branches that call it.
Serve == listening' = TRUE

ServeAnyway == listening' = TRUE

\* Nothing new reaches the client without a connection.
Offline == station # "got_ip" => answers' \subseteq answers

CheckConnected ==
    /\ station = "got_ip"
    /\ Serve
    /\ sntp_init(SNTP)
    /\ network_timer' = 600
    /\ UNCHANGED <<counter, station, undisturbed, SNTP>>

\* Mutant: one try more.
LastTryLate == counter >= MAX_TRIES

LastTry == counter + 1 >= MAX_TRIES

CheckFailed ==
    /\ station # "got_ip"
    /\ ~LastTry
    /\ counter' = counter + 1
    /\ undisturbed' = undisturbed + 1
    /\ network_timer' = 1
    /\ UNCHANGED <<station, listening, SNTP, vars>>

\* Mutant: the tries are not counted anew.
TriesKept == UNCHANGED counter

TriesBack == counter' = 0

\* wifi_station_disconnect and wifi_station_connect: what the SDK has done to join is
\* undone.
Reconnect == station' = "joining" /\ undisturbed' = 0

CheckGivesUp ==
    /\ station # "got_ip"
    /\ LastTry
    /\ TriesBack
    /\ ServeAnyway
    /\ Reconnect
    /\ network_timer' = 120
    /\ UNCHANGED <<SNTP, vars>>

network_check_ip ==
    /\ network_timer # 0
    /\ CheckConnected \/ CheckFailed \/ CheckGivesUp

\* ip/sntp/hoursfromGMT
doSNTP(tz) ==
    /\ listening
    /\ SNTP' = tz
    /\ UNCHANGED <<network_timer, counter, station, undisturbed, listening, vars>>

StationJoins ==
    /\ station = "joining"
    /\ station' = "got_ip"
    /\ undisturbed' = 0
    /\ UNCHANGED <<network_timer, counter, listening, SNTP, vars>>

StationLoses ==
    /\ station = "got_ip"
    /\ station' = "joining"
    /\ undisturbed' = 0
    /\ UNCHANGED <<network_timer, counter, listening, SNTP, vars>>

\* The client's own steps.
Request == RequestTimeout /\ Offline /\ UNCHANGED net

Retry == RetryTimeout /\ UNCHANGED net

LookupEnds ==
    /\ \E found \in BOOLEAN :
           /\ found => station = "got_ip"
           /\ sntp_dns_found(found)
    /\ UNCHANGED net

Receive(kind) ==
    /\ station = "got_ip"
    /\ sntp_recv(kind)
    /\ UNCHANGED net

LoseAnswer(kind) == Lose(kind) /\ UNCHANGED net

NetNext ==
    \/ network_check_ip
    \/ \E tz \in Zones : doSNTP(tz)
    \/ StationJoins
    \/ StationLoses
    \/ Request
    \/ Retry
    \/ LookupEnds
    \/ \E kind \in Answers : Receive(kind)
    \/ \E kind \in Answers : LoseAnswer(kind)

NetSpec == NetInit /\ [][NetNext]_netvars

\* An armed timer fires, timeouts do, and lookups end, with an address or
\* without.  For the rest the code can only hope: that memory for the client's
\* pcb is found at some check of a connected network, that some requests of a
\* client that goes on asking are sent and answered, and that some answers
\* arrive.
NetFairness ==
    /\ WF_netvars(network_check_ip)
    /\ WF_netvars(Request)
    /\ WF_netvars(Retry)
    /\ WF_netvars(LookupEnds)
    /\ WF_netvars(network_check_ip /\ sntp_pcb')
    /\ SF_netvars((Request \/ LookupEnds) /\ "good" \in answers')
    /\ SF_netvars(Receive("good"))

NetFairSpec == NetSpec /\ NetFairness

-----------------------------------------------------------------------------
\* The types of the network's variables; those of the client are Sntp's.
NetTypeOK ==
    /\ network_timer \in {1, 120, 600}
    /\ counter \in 0..(MAX_TRIES - 1)
    /\ station \in {"joining", "got_ip"}
    /\ undisturbed \in 0..counter
    /\ listening \in BOOLEAN
    /\ SNTP \in Zones

\* The clock does not run, nor is it in another zone, before there is a server:
\* no client sees it change under an event that it could not have set.
ClockNeedsServer == ntp_timer \/ sntp_tz # 0 => listening

\* The server comes up, if not over the home network then for the device's own
\* access point, where the Wi-Fi settings can be put right.
ServerComesUp == <>listening

\* A time zone stored by ip/sntp is put to use, if the station is connected and
\* no other is asked for: some later check hands it to sntp_init, although the
\* client was started long before.
ZoneIsApplied ==
    <>[](station = "got_ip") /\ <>[][~\E tz \in Zones : doSNTP(tz)]_netvars =>
        <>[](sntp_tz = SNTP)

\* A connection that does not come up is torn down and begun anew, after a loss perhaps
\* at the first failed check, for counter goes on from where it was.  Still a station that
\* needs less than MAX_TRIES checks to join gets an address again and again: some attempt
\* is always left alone for so long.
StationRecovers ==
    SF_netvars(StationJoins /\ undisturbed = MAX_TRIES - 1) => []<>(station = "got_ip")

\* From power-up to a running clock: however often the connection was lost in
\* the meantime, once it stays the client has been started, the clock runs, and
\* it is set again after every request.
ClockIsRefreshed ==
    <>[](station = "got_ip") => <>[]ntp_timer /\ []<>~due

=============================================================================
