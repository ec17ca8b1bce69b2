-------------------------------- MODULE Sntp --------------------------------
(***************************************************************************)
(* The SNTP client of src/user/sntp.c, as this build compiles it: one      *)
(* server, known by its DNS name, answers not checked against the request. *)
(*                                                                         *)
(* The client has no state machine of its own.  What it will do next is    *)
(* only in the entries it has put on lwIP's timeout list and in the DNS    *)
(* lookup it has started, so this is what the model keeps: how many        *)
(* entries call sntp_request, how many call sntp_try_next_server (which is *)
(* sntp_retry in this build) and how many lookups owe a callback.          *)
(*                                                                         *)
(* lwIP, DNS and the network are external.  sys_untimeout removes one      *)
(* entry of a handler, not all.  Answers may be lost, duplicated and late. *)
(* Deadlines are not modelled: any entry may fire.                         *)
(*                                                                         *)
(* Here sntp_init may be called at any time and the network is always      *)
(* there; Network calls it as network_check_ip does, and adds fairness.    *)
(***************************************************************************)
EXTENDS Integers

CONSTANTS
    SNTP_RETRY_TIMEOUT,         \* 3000 ms in the code
    SNTP_RETRY_TIMEOUT_MAX,     \* 10 * SNTP_RETRY_TIMEOUT in the code
    MAX_CHAINS,                 \* bound: entries and lookups, see sntp_recv
    Zones                       \* bound: the time zones asked for

ASSUME TimeoutAssumption ==
    /\ SNTP_RETRY_TIMEOUT \in Nat \ {0}
    /\ SNTP_RETRY_TIMEOUT_MAX \in Nat
    /\ SNTP_RETRY_TIMEOUT <= SNTP_RETRY_TIMEOUT_MAX
    /\ MAX_CHAINS \in Nat
    /\ Zones \subseteq Int

VARIABLES
    sntp_pcb,           \* the client was initialised
    sntp_tz,            \* the time zone, hours from GMT
    sntp_retry_timeout, \* the delay of the next retry
    ntp_timer,          \* the timer that advances sntp_time runs
    requests,           \* timeout entries that call sntp_request
    retries,            \* timeout entries that call sntp_try_next_server
    lookups,            \* DNS lookups that owe sntp_dns_found
    answers,            \* kinds of the datagrams under way to the client
    due,                \* history: no good answer since the last request
    late                \* history: an answer was still under way at a request

vars == <<sntp_pcb, sntp_tz, sntp_retry_timeout, ntp_timer, requests, retries,
          lookups, answers, due, late>>

\* A correct response, a kiss-of-death, anything else.
Answers == {"good", "kod", "bad"}

Chains == requests + retries + lookups

-----------------------------------------------------------------------------
Init ==
    /\ sntp_pcb = FALSE
    /\ sntp_tz = 0
    /\ sntp_retry_timeout = 0
    /\ ntp_timer = FALSE
    /\ requests = 0
    /\ retries = 0
    /\ lookups = 0
    /\ answers = {}
    /\ due = FALSE
    /\ late = FALSE

\* Mutant: no limit to the delay.
DoubledUnlimited == 2 * sntp_retry_timeout

Doubled ==
    IF 2 * sntp_retry_timeout <= SNTP_RETRY_TIMEOUT_MAX
    THEN 2 * sntp_retry_timeout ELSE sntp_retry_timeout

\* sntp_retry where r sntp_request entries are left.
sntp_retry(r) ==
    /\ requests' = r + 1
    /\ sntp_retry_timeout' = Doubled

\* Mutant: a request that could not be sent is not tried again.
SendFailedForgotten(r) == requests' = r

\* No memory for the request: it is tried again after SNTP_RETRY_TIMEOUT.
SendFailed(r) == requests' = r + 1

\* sntp_send_request where r sntp_request entries and the answers A are left:
\* the server sends some answer, or none.
sntp_send_request(r, A) ==
    \/ /\ requests' = r
       /\ retries' = retries + 1
       /\ \E B \in SUBSET Answers : answers' = A \cup B
    \/ /\ SendFailed(r)
       /\ answers' = A
       /\ UNCHANGED retries

\* sntp_request where r sntp_request entries are left: the address is in the
\* DNS cache, is being looked up, or cannot be.
sntp_request(r) ==
    /\ due' = TRUE
    /\ late' = (late \/ answers # {})
    /\ \/ /\ sntp_send_request(r, answers)
          /\ UNCHANGED lookups
       \/ /\ lookups' = lookups + 1
          /\ requests' = r
          /\ UNCHANGED <<retries, answers>>
       \/ /\ retries' = retries + 1
          /\ requests' = r
          /\ UNCHANGED <<lookups, answers>>

\* Mutant: the zone is taken over only when the client is started.
SetZoneOnce(tz) == sntp_tz' = IF sntp_pcb THEN sntp_tz ELSE tz

SetZone(tz) == sntp_tz' = tz

\* Called by network_check_ip whenever the station is found connected; only the
\* first call that gets a pcb starts the client.
sntp_init(tz) ==
    /\ SetZone(tz)
    /\ IF sntp_pcb
       THEN UNCHANGED <<sntp_pcb, sntp_retry_timeout, requests, retries, lookups,
                        answers, due, late>>
       ELSE /\ sntp_retry_timeout' = SNTP_RETRY_TIMEOUT
            /\ \/ /\ sntp_pcb' = TRUE
                  /\ sntp_request(requests)
               \/ UNCHANGED <<sntp_pcb, requests, retries, lookups, answers, due,
                               late>>
    /\ UNCHANGED ntp_timer

RequestTimeout ==
    /\ requests > 0
    /\ sntp_request(requests - 1)
    /\ UNCHANGED <<sntp_pcb, sntp_tz, sntp_retry_timeout, ntp_timer>>

\* No answer in SNTP_RECV_TIMEOUT, or a name that could not be looked up.
RetryTimeout ==
    /\ retries > 0
    /\ retries' = retries - 1
    /\ sntp_retry(requests)
    /\ UNCHANGED <<sntp_pcb, sntp_tz, ntp_timer, lookups, answers, due, late>>

sntp_dns_found(found) ==
    /\ lookups > 0
    /\ lookups' = lookups - 1
    /\ IF found
       THEN /\ sntp_send_request(requests, answers)
            /\ UNCHANGED sntp_retry_timeout
       ELSE /\ sntp_retry(requests)
            /\ UNCHANGED <<retries, answers>>
    /\ UNCHANGED <<sntp_pcb, sntp_tz, ntp_timer, due, late>>

\* Mutants: the pending request is not cancelled when an answer comes; an
\* answer that is no time is ignored after its timeouts have been cancelled.
LeftNotCancelled(n) == n
RejectIgnored(r) == requests' = r /\ UNCHANGED sntp_retry_timeout

\* sys_untimeout: what it leaves of n entries.
Left(n) == IF n > 0 THEN n - 1 ELSE 0

Reject(r) == sntp_retry(r)

\* sntp_recv, with sntp_process.  An answer that finds no entry to cancel adds
\* one, which MAX_CHAINS bounds.
sntp_recv(kind) ==
    LET r == Left(requests)
    IN  /\ kind \in answers
        /\ requests + retries > 0 \/ Chains < MAX_CHAINS
        /\ retries' = Left(retries)
        /\ \/ answers' = answers \ {kind}
           \/ UNCHANGED answers
        /\ IF kind = "good"
           THEN /\ sntp_retry_timeout' = SNTP_RETRY_TIMEOUT
                /\ ntp_timer' = TRUE
                /\ requests' = r + 1
                /\ due' = FALSE
           ELSE /\ Reject(r)
                /\ UNCHANGED <<ntp_timer, due>>
        /\ UNCHANGED <<sntp_pcb, sntp_tz, lookups, late>>

Lose(kind) ==
    /\ kind \in answers
    /\ answers' = answers \ {kind}
    /\ UNCHANGED <<sntp_pcb, sntp_tz, sntp_retry_timeout, ntp_timer, requests,
                   retries, lookups, due, late>>

Next ==
    \/ \E tz \in Zones : sntp_init(tz)
    \/ RequestTimeout
    \/ RetryTimeout
    \/ \E found \in BOOLEAN : sntp_dns_found(found)
    \/ \E kind \in Answers : sntp_recv(kind)
    \/ \E kind \in Answers : Lose(kind)

Spec == Init /\ [][Next]_vars

-----------------------------------------------------------------------------
TypeOK ==
    /\ sntp_pcb \in BOOLEAN
    /\ sntp_tz \in Int
    /\ sntp_retry_timeout \in 0..SNTP_RETRY_TIMEOUT_MAX
    /\ ntp_timer \in BOOLEAN
    /\ requests \in Nat
    /\ retries \in Nat
    /\ lookups \in Nat
    /\ answers \subseteq Answers
    /\ due \in BOOLEAN
    /\ late \in BOOLEAN

\* Whatever fails (memory, the lookup, the server, the answer), the client
\* always has a timeout or a lookup left that makes it ask again: nothing else
\* would, since sntp_init does nothing the second time.
NeverSilent == sntp_pcb => Chains > 0

\* As long as no answer has been late, cancelling one entry of each handler in
\* sntp_recv is enough: there is one thing the client waits for, never two.
OneChain == sntp_pcb /\ ~late => Chains = 1

=============================================================================
