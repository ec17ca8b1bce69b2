---------------------------- MODULE NetworkProofs ----------------------------
(***************************************************************************)
(* Proofs about what user_main.c keeps going by timers and by messages to  *)
(* itself.  First the SNTP client, for every delay, bound and set of       *)
(* zones: its types, that it never falls silent, and that it never waits   *)
(* for two things at once before an answer is late.  Then the client and   *)
(* the network that starts it: every step of Network is a step of the      *)
(* client or leaves it alone, so what holds of a client that is            *)
(* initialised at any time holds of this one; that its clock waits for the *)
(* server is proved here.  Last, the main loop, for every width of the     *)
(* counter, period and gap: OneSecLoop runs on time although the counter   *)
(* that times it starts again.                                             *)
(***************************************************************************)
EXTENDS Network, MainLoop, TLAPS

-----------------------------------------------------------------------------
(* The SNTP client. *)

USE DEF Left, SetZone

\* TypeOK in two parts: no backend handles truth values and numbers together.
Flags ==
    /\ sntp_pcb \in BOOLEAN
    /\ ntp_timer \in BOOLEAN
    /\ due \in BOOLEAN
    /\ late \in BOOLEAN

Counts ==
    /\ sntp_tz \in Int
    /\ sntp_retry_timeout \in 0..SNTP_RETRY_TIMEOUT_MAX
    /\ requests \in Nat
    /\ retries \in Nat
    /\ lookups \in Nat
    /\ answers \subseteq Answers

LEMMA TypeParts == TypeOK <=> Flags /\ Counts
BY DEF TypeOK, Flags, Counts

\* What sntp_retry, sntp_send_request and sntp_request do to the entries.
LEMMA RetryStep ==
    ASSUME Counts, NEW r \in Nat, sntp_retry(r)
    PROVE  /\ requests' = r + 1
           /\ sntp_retry_timeout' \in 0..SNTP_RETRY_TIMEOUT_MAX
BY TimeoutAssumption DEF Counts, sntp_retry, Doubled

LEMMA SendStep ==
    ASSUME Counts, NEW r \in Nat, NEW A \in SUBSET Answers, sntp_send_request(r, A)
    PROVE  /\ requests' \in Nat
           /\ retries' \in Nat
           /\ requests' + retries' = r + retries + 1
           /\ answers' \subseteq Answers
<1>1. r \in Nat /\ retries \in Nat
    BY DEF Counts
<1>2. CASE requests' = r /\ retries' = retries + 1 /\ \E B \in SUBSET Answers : answers' = A \cup B
    <2>1. answers' \subseteq Answers
        BY <1>2
    <2> QED BY <1>1, <1>2, <2>1
<1>3. CASE requests' = r + 1 /\ answers' = A /\ retries' = retries
    BY <1>1, <1>3
<1> QED BY <1>2, <1>3 DEF sntp_send_request, SendFailed

LEMMA RequestStep ==
    ASSUME Counts, NEW r \in Nat, sntp_request(r)
    PROVE  /\ requests' \in Nat
           /\ retries' \in Nat
           /\ lookups' \in Nat
           /\ answers' \subseteq Answers
           /\ \/ /\ requests' + retries' = r + retries + 1
                 /\ lookups' = lookups
              \/ /\ requests' = r
                 /\ retries' = retries
                 /\ lookups' = lookups + 1
                 /\ answers' = answers
<1>1. answers \in SUBSET Answers
    BY DEF Counts
<1>2. CASE sntp_send_request(r, answers) /\ lookups' = lookups
    <2>1. /\ requests' \in Nat
          /\ retries' \in Nat
          /\ requests' + retries' = r + retries + 1
          /\ answers' \subseteq Answers
        BY <1>1, <1>2, SendStep
    <2>2. lookups' = lookups /\ lookups' \in Nat
        BY <1>2 DEF Counts
    <2> QED BY <2>1, <2>2
<1>3. CASE /\ lookups' = lookups + 1 /\ requests' = r /\ answers' = answers
           /\ retries' = retries
    BY <1>1, <1>3 DEF Counts
<1>4. CASE /\ retries' = retries + 1 /\ requests' = r /\ answers' = answers
           /\ lookups' = lookups
    BY <1>1, <1>4 DEF Counts
<1> QED BY <1>2, <1>3, <1>4 DEF sntp_request

-----------------------------------------------------------------------------
\* The truth values keep their type.
LEMMA FlagsStep == Flags /\ [Next]_vars => Flags'
<1> SUFFICES ASSUME Flags, [Next]_vars PROVE Flags'
    OBVIOUS
<1> USE DEF Flags
<1>1. ASSUME NEW tz \in Zones, sntp_init(tz) PROVE Flags'
    BY <1>1 DEF sntp_init, sntp_request
<1>2. ASSUME RequestTimeout PROVE Flags'
    BY <1>2 DEF RequestTimeout, sntp_request
<1>3. ASSUME RetryTimeout PROVE Flags'
    BY <1>3 DEF RetryTimeout
<1>4. ASSUME NEW found \in BOOLEAN, sntp_dns_found(found) PROVE Flags'
    BY <1>4 DEF sntp_dns_found
<1>5. ASSUME NEW kind \in Answers, sntp_recv(kind) PROVE Flags'
    BY <1>5 DEF sntp_recv
<1>6. ASSUME NEW kind \in Answers, Lose(kind) PROVE Flags'
    BY <1>6 DEF Lose
<1>7. CASE UNCHANGED vars
    BY <1>7 DEF vars
<1> QED BY <1>1, <1>2, <1>3, <1>4, <1>5, <1>6, <1>7 DEF Next

\* So do the counters, the delay and the answers.
LEMMA CountsStep == Counts /\ [Next]_vars => Counts'
<1> SUFFICES ASSUME Counts, [Next]_vars PROVE Counts'
    OBVIOUS
<1>1. ASSUME NEW tz \in Zones, sntp_init(tz) PROVE Counts'
    <2>1. tz \in Int /\ SNTP_RETRY_TIMEOUT \in 0..SNTP_RETRY_TIMEOUT_MAX
        BY TimeoutAssumption
    <2>2. CASE UNCHANGED <<requests, retries, lookups, answers>>
        BY <1>1, <2>1, <2>2 DEF Counts, sntp_init
    <2>3. CASE ~sntp_pcb /\ sntp_request(requests)
        <3>1. /\ requests' \in Nat /\ retries' \in Nat /\ lookups' \in Nat
              /\ answers' \subseteq Answers
            BY <2>3, RequestStep DEF Counts
        <3> QED BY <1>1, <2>1, <2>3, <3>1 DEF Counts, sntp_init
    <2> QED BY <1>1, <2>2, <2>3 DEF sntp_init
<1>2. ASSUME RequestTimeout PROVE Counts'
    <2>1. requests - 1 \in Nat /\ sntp_request(requests - 1)
        BY <1>2 DEF Counts, RequestTimeout
    <2>2. /\ requests' \in Nat /\ retries' \in Nat /\ lookups' \in Nat
          /\ answers' \subseteq Answers
        BY <2>1, RequestStep DEF Counts
    <2> QED BY <1>2, <2>2 DEF Counts, RequestTimeout
<1>3. ASSUME RetryTimeout PROVE Counts'
    <2>1. /\ requests' = requests + 1
          /\ sntp_retry_timeout' \in 0..SNTP_RETRY_TIMEOUT_MAX
        BY <1>3, RetryStep DEF Counts, RetryTimeout
    <2> QED BY <1>3, <2>1 DEF Counts, RetryTimeout
<1>4. ASSUME NEW found \in BOOLEAN, sntp_dns_found(found) PROVE Counts'
    <2>1. requests \in Nat /\ answers \in SUBSET Answers /\ lookups' \in Nat
          /\ sntp_tz' = sntp_tz
        BY <1>4 DEF Counts, sntp_dns_found
    <2>2. CASE found
        <3>1. requests' \in Nat /\ retries' \in Nat /\ answers' \subseteq Answers
            BY <1>4, <2>1, <2>2, SendStep DEF sntp_dns_found
        <3>2. sntp_retry_timeout' = sntp_retry_timeout
            BY <1>4, <2>2 DEF sntp_dns_found
        <3> QED BY <2>1, <3>1, <3>2 DEF Counts
    <2>3. CASE ~found
        <3>1. /\ requests' = requests + 1
              /\ sntp_retry_timeout' \in 0..SNTP_RETRY_TIMEOUT_MAX
            BY <1>4, <2>1, <2>3, RetryStep DEF sntp_dns_found
        <3>2. UNCHANGED <<retries, answers>>
            BY <1>4, <2>3 DEF sntp_dns_found
        <3> QED BY <2>1, <3>1, <3>2 DEF Counts
    <2> QED BY <2>2, <2>3
<1>5. ASSUME NEW kind \in Answers, sntp_recv(kind) PROVE Counts'
    <2>1. Left(requests) \in Nat /\ Left(retries) \in Nat
        BY DEF Counts
    <2>4. /\ retries' = Left(retries)
          /\ sntp_tz' = sntp_tz /\ lookups' = lookups
        BY <1>5 DEF sntp_recv
    <2>5. answers' \subseteq Answers
        BY <1>5 DEF sntp_recv, Counts
    <2>6. retries' \in Nat /\ sntp_tz' \in Int /\ lookups' \in Nat
        BY <2>1, <2>4 DEF Counts
    <2>2. CASE kind = "good"
        <3>1. SNTP_RETRY_TIMEOUT \in 0..SNTP_RETRY_TIMEOUT_MAX
            BY TimeoutAssumption
        <3>2. sntp_retry_timeout' = SNTP_RETRY_TIMEOUT /\ requests' = Left(requests) + 1
            BY <1>5, <2>2 DEF sntp_recv
        <3> QED BY <2>1, <2>5, <2>6, <3>1, <3>2 DEF Counts
    <2>3. CASE kind # "good"
        <3>1. /\ requests' = Left(requests) + 1
              /\ sntp_retry_timeout' \in 0..SNTP_RETRY_TIMEOUT_MAX
            BY <1>5, <2>1, <2>3, RetryStep DEF sntp_recv, Reject
        <3> QED BY <2>1, <2>5, <2>6, <3>1 DEF Counts
    <2> QED BY <2>2, <2>3
<1>6. ASSUME NEW kind \in Answers, Lose(kind) PROVE Counts'
    BY <1>6 DEF Counts, Lose
<1>7. CASE UNCHANGED vars
    BY <1>7 DEF Counts, vars
<1> QED BY <1>1, <1>2, <1>3, <1>4, <1>5, <1>6, <1>7 DEF Next

LEMMA TypeInit == Init => TypeOK
<1>1. Init => Flags
    BY DEF Init, Flags
<1>2. Init => Counts
    BY TimeoutAssumption DEF Init, Counts
<1> QED BY <1>1, <1>2, TypeParts

\* Every variable keeps its type; in particular doubling the delay never takes
\* it above SNTP_RETRY_TIMEOUT_MAX.
THEOREM SntpTypeCorrect == Spec => []TypeOK
BY TypeInit, FlagsStep, CountsStep, TypeParts, PTL DEF Spec

-----------------------------------------------------------------------------
LEMMA SumPositive == \A x, y, z \in Nat : x + y > 0 \/ z > 0 => x + y + z > 0
OBVIOUS

LEMMA SumIsOne ==
    \A x, y, z \in Nat :
        (x + y = 1 /\ z = 0) \/ (x = 0 /\ y = 0 /\ z = 1) => x + y + z = 1
OBVIOUS

\* No action takes the last entry or lookup without leaving another.
LEMMA SilentStep == Counts /\ NeverSilent /\ [Next]_vars => NeverSilent'
<1> SUFFICES ASSUME Counts, NeverSilent, [Next]_vars PROVE NeverSilent'
    OBVIOUS
<1> USE DEF NeverSilent, Chains
<1>1. ASSUME NEW tz \in Zones, sntp_init(tz) PROVE NeverSilent'
    <2>1. CASE ~sntp_pcb /\ sntp_request(requests)
        <3>1. /\ requests' \in Nat /\ retries' \in Nat /\ lookups' \in Nat
              /\ requests' + retries' > 0 \/ lookups' > 0
            BY <2>1, RequestStep DEF Counts
        <3>2. Chains' > 0
            BY <3>1, SumPositive
        <3> QED BY <3>2
    <2>2. CASE ~(~sntp_pcb /\ sntp_request(requests))
        BY <1>1, <2>2 DEF Counts, sntp_init
    <2> QED BY <2>1, <2>2
<1>2. ASSUME RequestTimeout PROVE NeverSilent'
    <2>1. requests - 1 \in Nat /\ sntp_request(requests - 1)
        BY <1>2 DEF Counts, RequestTimeout
    <2>2. /\ requests' \in Nat /\ retries' \in Nat /\ lookups' \in Nat
          /\ requests' + retries' > 0 \/ lookups' > 0
        BY <2>1, RequestStep DEF Counts
    <2>3. Chains' > 0
        BY <2>2, SumPositive
    <2> QED BY <2>3
<1>3. ASSUME RetryTimeout PROVE NeverSilent'
    BY <1>3 DEF Counts, RetryTimeout, sntp_retry
<1>4. ASSUME NEW found \in BOOLEAN, sntp_dns_found(found) PROVE NeverSilent'
    <2>1. lookups' \in Nat /\ requests' + retries' = requests + retries + 1
        <3>1. CASE found
            <4>1. sntp_send_request(requests, answers) /\ requests \in Nat
                  /\ answers \in SUBSET Answers
                BY <1>4, <3>1 DEF Counts, sntp_dns_found
            <4>2. requests' + retries' = requests + retries + 1
                BY <4>1, SendStep
            <4> QED BY <1>4, <4>2 DEF Counts, sntp_dns_found
        <3>2. CASE ~found
            BY <1>4, <3>2 DEF Counts, sntp_dns_found, sntp_retry
        <3> QED BY <3>1, <3>2
    <2> QED BY <2>1 DEF Counts
<1>5. ASSUME NEW kind \in Answers, sntp_recv(kind) PROVE NeverSilent'
    BY <1>5 DEF Counts, sntp_recv, Reject, sntp_retry
<1>6. ASSUME NEW kind \in Answers, Lose(kind) PROVE NeverSilent'
    BY <1>6 DEF Lose
<1>7. CASE UNCHANGED vars
    BY <1>7 DEF vars
<1> QED BY <1>1, <1>2, <1>3, <1>4, <1>5, <1>6, <1>7 DEF Next

\* Once it has started, the client always has something left that makes it ask
\* again, whatever the network does.
THEOREM ClientNeverSilent == Spec => []NeverSilent
<1>1. Init => NeverSilent
    BY DEF Init, NeverSilent
<1> QED BY <1>1, SntpTypeCorrect, TypeParts, SilentStep, PTL DEF Spec

-----------------------------------------------------------------------------
\* Before the client has started there is nothing at all.  Then, as long as no
\* answer has been late, one thing is pending, and while it is a lookup no answer
\* is under way.
ChainInv ==
    /\ ~sntp_pcb => Chains = 0 /\ answers = {}
    /\ sntp_pcb /\ ~late => Chains = 1
    /\ ~late /\ lookups > 0 => answers = {}

\* Lateness is never forgotten.
LEMMA LateStays == late /\ [Next]_vars => late'
<1> SUFFICES ASSUME late, [Next]_vars PROVE late'
    OBVIOUS
<1> QED BY DEF Next, vars, sntp_init, sntp_request, RequestTimeout, RetryTimeout,
               sntp_dns_found, sntp_recv, Lose

\* A request made while nothing is pending leaves one thing pending.
LEMMA FirstRequest ==
    ASSUME Counts, retries = 0, lookups = 0, sntp_request(0), ~late'
    PROVE  Chains' = 1 /\ (lookups' > 0 => answers' = {})
<1>1. requests' \in Nat /\ retries' \in Nat
    BY RequestStep
<1>2. CASE requests' + retries' = 0 + retries + 1 /\ lookups' = lookups
    <2>0. 0 + retries + 1 = 1
        OBVIOUS
    <2>1. requests' + retries' = 1
        BY <1>2, <2>0, Zenon
    <2>2. lookups' = 0
        BY <1>2
    <2>3. Chains' = 1
        BY <1>1, <2>1, <2>2, SumIsOne DEF Chains
    <2> QED BY <2>2, <2>3
<1>3. CASE /\ requests' = 0 /\ retries' = retries
           /\ lookups' = lookups + 1 /\ answers' = answers
    <2>1. requests' = 0 /\ retries' = 0 /\ lookups' = 1
        BY <1>3
    <2>2. Chains' = 1
        BY <1>1, <2>1, SumIsOne DEF Chains
    <2>3. answers' = {}
        BY <1>3 DEF sntp_request
    <2> QED BY <2>2, <2>3
<1> QED BY <1>2, <1>3, RequestStep

LEMMA ChainStep == Counts /\ Flags /\ ChainInv /\ [Next]_vars => ChainInv'
<1> SUFFICES ASSUME Counts, Flags, ChainInv, [Next]_vars PROVE ChainInv'
    OBVIOUS
<1> USE DEF ChainInv
<1>1. ASSUME NEW tz \in Zones, sntp_init(tz) PROVE ChainInv'
    <2>1. CASE ~sntp_pcb /\ sntp_pcb' /\ sntp_request(requests)
        <3>1. requests = 0 /\ retries = 0 /\ lookups = 0
            BY <2>1 DEF Counts, Chains
        <3>2. ~late' => Chains' = 1 /\ (lookups' > 0 => answers' = {})
            BY <2>1, <3>1, FirstRequest
        <3> QED BY <2>1, <3>2
    <2>2. CASE UNCHANGED <<sntp_pcb, requests, retries, lookups, answers, late>>
        BY <2>2 DEF Chains
    <2> QED BY <1>1, <2>1, <2>2 DEF Counts, sntp_init
<1>2. ASSUME RequestTimeout PROVE ChainInv'
    <2>1. sntp_pcb' = sntp_pcb /\ sntp_pcb
        BY <1>2 DEF Counts, RequestTimeout, Chains
    <2>2. ASSUME ~late' PROVE Chains' = 1 /\ (lookups' > 0 => answers' = {})
        <3>1. ~late
            BY <2>2, LateStays
        <3>2. requests = 1 /\ retries = 0 /\ lookups = 0
            BY <1>2, <2>1, <3>1 DEF Counts, RequestTimeout, Chains
        <3>3. sntp_request(0)
            BY <1>2, <3>2 DEF RequestTimeout
        <3> QED BY <2>2, <3>2, <3>3, FirstRequest
    <2> QED BY <2>1, <2>2
<1> USE DEF Chains
<1>3. ASSUME RetryTimeout PROVE ChainInv'
    BY <1>3 DEF Counts, RetryTimeout, sntp_retry
<1>4. ASSUME NEW found \in BOOLEAN, sntp_dns_found(found) PROVE ChainInv'
    <2>1. sntp_pcb /\ sntp_pcb' = sntp_pcb /\ late' = late
        BY <1>4 DEF Counts, sntp_dns_found
    <2>2. CASE late
        BY <2>1, <2>2
    <2>3. CASE ~late
        <3>1. lookups = 1 /\ lookups' = 0 /\ requests + retries = 0
            BY <1>4, <2>1, <2>3 DEF Counts, sntp_dns_found
        <3>2. requests' + retries' = requests + retries + 1
            <4>1. CASE found
                <5>1. sntp_send_request(requests, answers) /\ requests \in Nat
                      /\ answers \in SUBSET Answers
                    BY <1>4, <4>1 DEF Counts, sntp_dns_found
                <5> QED BY <5>1, SendStep
            <4>2. CASE ~found
                BY <1>4, <4>2 DEF Counts, sntp_dns_found, sntp_retry
            <4> QED BY <4>1, <4>2
        <3> QED BY <2>1, <3>1, <3>2 DEF Counts
    <2> QED BY <2>2, <2>3 DEF Flags
<1>5. ASSUME NEW kind \in Answers, sntp_recv(kind) PROVE ChainInv'
    BY <1>5 DEF Counts, sntp_recv, Reject, sntp_retry
<1>6. ASSUME NEW kind \in Answers, Lose(kind) PROVE ChainInv'
    BY <1>6 DEF Lose
<1>7. CASE UNCHANGED vars
    BY <1>7 DEF vars
<1> QED BY <1>1, <1>2, <1>3, <1>4, <1>5, <1>6, <1>7 DEF Next

\* As long as no answer has been late, the client waits for exactly one thing.
THEOREM ClientHasOneChain == Spec => []OneChain
<1>1. Init => ChainInv
    BY DEF Init, ChainInv, Chains
<1>2. ChainInv => OneChain
    BY DEF ChainInv, OneChain
<1> QED BY <1>1, <1>2, ChainStep, SntpTypeCorrect, TypeParts, PTL DEF Spec

-----------------------------------------------------------------------------
(* The network. *)

LEMMA NetTypeInit == NetInit => NetTypeOK
<1> SUFFICES ASSUME NetInit PROVE NetTypeOK
    OBVIOUS
<1>1. 0 \in 0..(MAX_TRIES - 1)
    BY NetworkAssumption
<1>2. listening \in BOOLEAN
    BY DEF NetInit
<1> QED BY <1>1, <1>2 DEF NetInit, NetTypeOK

\* Only the four operations of the network change its variables.
LEMMA ClientLeavesNet ==
    ASSUME \/ Request \/ Retry \/ LookupEnds
           \/ \E kind \in Answers : Receive(kind)
           \/ \E kind \in Answers : LoseAnswer(kind)
    PROVE  UNCHANGED net
BY Zenon DEF Request, Retry, LookupEnds, Receive, LoseAnswer

LEMMA NetTypeNext == NetTypeOK /\ [NetNext]_netvars => NetTypeOK'
<1> SUFFICES ASSUME NetTypeOK, [NetNext]_netvars PROVE NetTypeOK'
    OBVIOUS
<1> USE DEF NetTypeOK
<1>1. CASE CheckConnected
    BY <1>1 DEF CheckConnected, Serve
<1>2. CASE CheckFailed
    BY <1>2, NetworkAssumption DEF CheckFailed, LastTry
<1>3. CASE CheckGivesUp
    BY <1>3, NetworkAssumption DEF CheckGivesUp, ServeAnyway, Reconnect, TriesBack
<1>4. ASSUME NEW tz \in Zones, doSNTP(tz) PROVE NetTypeOK'
    BY <1>4 DEF doSNTP
<1>5. CASE StationJoins \/ StationLoses
    BY <1>5 DEF StationJoins, StationLoses
<1>6. CASE UNCHANGED net
    BY <1>6 DEF net
<1> QED BY <1>1, <1>2, <1>3, <1>4, <1>5, <1>6, ClientLeavesNet
        DEF NetNext, network_check_ip, netvars

\* The network's variables keep their types; the timer of network_check_ip is
\* armed at all times.
THEOREM NetTypeCorrect == NetSpec => []NetTypeOK
BY NetTypeInit, NetTypeNext, PTL DEF NetSpec

-----------------------------------------------------------------------------
\* What the network does to the client is initialising it with one of the zones.
LEMMA ClientStep == NetTypeOK /\ [NetNext]_netvars => [Next]_vars
<1> SUFFICES ASSUME NetTypeOK, [NetNext]_netvars PROVE [Next]_vars
    OBVIOUS
<1>1. CASE CheckConnected
    <2>1. SNTP \in Zones /\ sntp_init(SNTP)
        BY <1>1 DEF CheckConnected, NetTypeOK
    <2> QED BY <2>1 DEF Next
<1>2. CASE \/ CheckFailed \/ CheckGivesUp \/ StationJoins \/ StationLoses
           \/ \E tz \in Zones : doSNTP(tz)
    BY <1>2 DEF CheckFailed, CheckGivesUp, StationJoins, StationLoses, doSNTP, vars
<1>3. CASE Request \/ Retry \/ LookupEnds
    BY <1>3 DEF Request, Retry, LookupEnds, Next
<1>4. ASSUME NEW kind \in Answers, Receive(kind) \/ LoseAnswer(kind) PROVE Next
    BY <1>4 DEF Receive, LoseAnswer, Next
<1>5. CASE UNCHANGED netvars
    BY <1>5 DEF netvars
<1> QED BY <1>1, <1>2, <1>3, <1>4, <1>5 DEF NetNext, network_check_ip

\* The client that network_check_ip starts and restarts is a client of module
\* Sntp: the detailed system implements the one with an arbitrary caller.
THEOREM NetworkRunsClient == NetSpec => Spec
<1>1. NetInit => Init
    BY DEF NetInit
<1> QED BY <1>1, ClientStep, NetTypeCorrect, PTL DEF NetSpec, Spec

\* Through any losses of the network, the client that runs in it keeps its types,
\* never falls silent, and waits for one thing as long as no answer is late.
THEOREM ClientInNetwork == NetSpec => [](TypeOK /\ NeverSilent /\ OneChain)
BY NetworkRunsClient, SntpTypeCorrect, ClientNeverSilent, ClientHasOneChain, PTL

-----------------------------------------------------------------------------
\* Before there is a server the client has not been started: there is no entry
\* on the list, no lookup and no answer that could start the clock.
Untouched ==
    /\ ntp_timer = FALSE
    /\ sntp_tz = 0
    /\ requests = 0
    /\ retries = 0
    /\ lookups = 0
    /\ answers = {}

Quiet == listening = FALSE => Untouched

\* A client that has not been started can do nothing.
LEMMA UntouchedDoesNothing ==
    ASSUME Untouched
    PROVE  /\ ~Request /\ ~Retry /\ ~LookupEnds
           /\ \A kind \in Answers : ~Receive(kind) /\ ~LoseAnswer(kind)
<1>1. ~Request
    BY DEF Untouched, Request, RequestTimeout
<1>2. ~Retry
    BY DEF Untouched, Retry, RetryTimeout
<1>3. ~LookupEnds
    BY DEF Untouched, LookupEnds, sntp_dns_found
<1>4. \A kind \in Answers : ~Receive(kind)
    BY DEF Untouched, Receive, sntp_recv
<1>5. \A kind \in Answers : ~LoseAnswer(kind)
    BY DEF Untouched, LoseAnswer, Lose
<1> QED BY <1>1, <1>2, <1>3, <1>4, <1>5

LEMMA QuietStep == NetTypeOK /\ Quiet /\ [NetNext]_netvars => Quiet'
<1> SUFFICES ASSUME NetTypeOK, Quiet, [NetNext]_netvars PROVE Quiet'
    OBVIOUS
<1> USE DEF Quiet
<1>1. CASE CheckConnected
    BY <1>1 DEF CheckConnected, Serve
<1>2. CASE CheckGivesUp
    BY <1>2 DEF CheckGivesUp, ServeAnyway
<1>3. CASE CheckFailed \/ StationJoins \/ StationLoses \/ \E tz \in Zones : doSNTP(tz)
    BY <1>3 DEF CheckFailed, StationJoins, StationLoses, doSNTP, vars, Untouched
<1>4. CASE \/ Request \/ Retry \/ LookupEnds
           \/ \E kind \in Answers : Receive(kind)
           \/ \E kind \in Answers : LoseAnswer(kind)
    <2>1. listening' = listening
        BY <1>4, ClientLeavesNet DEF net
    <2>2. ~Untouched
        BY <1>4, UntouchedDoesNothing
    <2> QED BY <2>1, <2>2
<1>5. CASE UNCHANGED netvars
    BY <1>5 DEF netvars, net, vars, Untouched
<1> QED BY <1>1, <1>2, <1>3, <1>4, <1>5 DEF NetNext, network_check_ip

\* The clock does not start, nor change its zone, before there is a server.
THEOREM ClockWaitsForServer == NetSpec => []ClockNeedsServer
<1>1. NetInit => Quiet
    BY DEF NetInit, Init, Quiet, Untouched
<1>2. NetTypeOK /\ Quiet => ClockNeedsServer
    BY DEF NetTypeOK, Quiet, Untouched, ClockNeedsServer
<1> QED BY <1>1, <1>2, QuietStep, NetTypeCorrect, PTL DEF NetSpec

-----------------------------------------------------------------------------
(* The main loop. *)

\* The remainder of the numbers that occur: sums of two readings of the counter
\* and differences of two.
LEMMA Remainder ==
    /\ \A a \in Nat : a % TIMER \in 0..(TIMER - 1)
    /\ \A a \in Nat : a < TIMER => a % TIMER = a
    /\ \A a \in Nat : TIMER <= a /\ a < 2 * TIMER => a % TIMER = a - TIMER
    /\ \A a \in Int : -TIMER <= a /\ a < 0 => a % TIMER = a + TIMER
<1>1. TIMER \in Nat \ {0}
    BY LoopAssumption
<1>2. \A a \in Nat : a % TIMER \in 0..(TIMER - 1)
    BY <1>1
<1>3. \A a \in Nat : a < TIMER => a % TIMER = a
    BY <1>1
<1>4. \A a \in Nat : TIMER <= a /\ a < 2 * TIMER => a % TIMER = a - TIMER
    BY <1>1
<1>5. \A a \in Int : -TIMER <= a /\ a < 0 => a % TIMER = a + TIMER
    BY <1>1
<1> QED BY <1>2, <1>3, <1>4, <1>5

-----------------------------------------------------------------------------
LEMMA LoopTypeInit == LoopInit => LoopTypeOK
BY LoopAssumption DEF LoopInit, LoopTypeOK

LEMMA LoopTypeNext == LoopTypeOK /\ [LoopNext]_loopvars => LoopTypeOK'
<1> SUFFICES ASSUME LoopTypeOK, [LoopNext]_loopvars PROVE LoopTypeOK'
    OBVIOUS
<1>1. ASSUME NEW d \in 1..MAX_GAP, Loop(d) PROVE LoopTypeOK'
    <2>1. d \in Nat /\ now + d \in Nat
        BY LoopAssumption DEF LoopTypeOK
    <2>2. (now + d) % TIMER \in 0..(TIMER - 1)
        BY <2>1, Remainder
    <2> QED BY <1>1, <2>1, <2>2 DEF Loop, Repost, LoopTypeOK
<1>2. CASE UNCHANGED loopvars
    BY <1>2 DEF loopvars, LoopTypeOK
<1> QED BY <1>1, <1>2 DEF LoopNext

\* Every variable keeps its type; the task is in its queue once, never twice.
THEOREM LoopTypeCorrect == LoopSpec => []LoopTypeOK
BY LoopTypeInit, LoopTypeNext, PTL DEF LoopSpec

-----------------------------------------------------------------------------
\* What the code knows of the time that has passed is right: the counter has
\* moved on by since from stime, and it has not gone all the way round.
LoopInv ==
    /\ since <= PERIOD
    /\ now = (stime + since) % TIMER
    /\ interval \in (PERIOD + 1)..(PERIOD + MAX_GAP)

\* The difference in 32 bits is the time that has passed, if that is less than
\* once round the counter.
LEMMA ElapsedIsSince ==
    ASSUME NEW s \in 0..(TIMER - 1), NEW n \in 0..(TIMER - 1), NEW e \in Nat,
           NEW d \in Nat, n = (s + e) % TIMER, e + d < TIMER
    PROVE  /\ (n + d) % TIMER = (s + e + d) % TIMER
           /\ (((n + d) % TIMER) - s) % TIMER = e + d
<1>1. TIMER \in Nat \ {0}
    BY LoopAssumption
<1>2. CASE s + e < TIMER
    <2>1. n = s + e
        BY <1>1, <1>2, Remainder
    <2>2. (n + d) % TIMER = (s + e + d) % TIMER
        BY <2>1
    <2>3. CASE s + e + d < TIMER
        <3>1. (n + d) % TIMER = s + e + d
            BY <1>1, <2>1, <2>3, Remainder
        <3>2. (e + d) % TIMER = e + d
            BY <1>1, Remainder
        <3>3. (s + e + d) - s = e + d
            OBVIOUS
        <3> QED BY <2>2, <3>1, <3>2, <3>3
    <2>4. CASE ~(s + e + d < TIMER)
        <3>1. (n + d) % TIMER = s + e + d - TIMER
            BY <1>1, <2>1, <2>4, Remainder
        <3>2. (e + d - TIMER) % TIMER = e + d
            BY <1>1, Remainder
        <3>3. (s + e + d - TIMER) - s = e + d - TIMER
            BY <1>1
        <3> QED BY <2>2, <3>1, <3>2, <3>3
    <2> QED BY <2>3, <2>4
<1>3. CASE ~(s + e < TIMER)
    <2>1. n = s + e - TIMER
        BY <1>1, <1>3, Remainder
    <2>2. n + d < TIMER
        BY <1>1, <2>1
    <2>3. (n + d) % TIMER = s + e + d - TIMER
        BY <1>1, <2>1, <2>2, Remainder
    <2>4. (s + e + d) % TIMER = s + e + d - TIMER
        BY <1>1, <1>3, Remainder
    <2>5. (e + d - TIMER) % TIMER = e + d
        BY <1>1, Remainder
    <2>6. (s + e + d - TIMER) - s = e + d - TIMER
        BY <1>1
    <2> QED BY <2>3, <2>4, <2>5, <2>6
<1> QED BY <1>2, <1>3

LEMMA LoopInvInit == LoopInit => LoopInv
<1> SUFFICES ASSUME LoopInit PROVE LoopInv
    OBVIOUS
<1>1. (stime + since) % TIMER = 0
    BY LoopAssumption, Remainder DEF LoopInit
<1> QED BY <1>1, LoopAssumption DEF LoopInit, LoopInv

LEMMA LoopInvNext == LoopTypeOK /\ LoopInv /\ [LoopNext]_loopvars => LoopInv'
<1> SUFFICES ASSUME LoopTypeOK, LoopInv, [LoopNext]_loopvars PROVE LoopInv'
    OBVIOUS
<1>1. ASSUME NEW d \in 1..MAX_GAP, Loop(d) PROVE LoopInv'
    <2>1. /\ d \in Nat /\ d <= MAX_GAP /\ since + d < TIMER
          /\ since + d \in Nat
        BY LoopAssumption DEF LoopTypeOK, LoopInv
    <2>2. /\ now' = (stime + since + d) % TIMER
          /\ Elapsed(now') = since + d
        <3>1. /\ stime \in 0..(TIMER - 1) /\ now \in 0..(TIMER - 1)
              /\ since \in Nat /\ now = (stime + since) % TIMER
            BY DEF LoopTypeOK, LoopInv
        <3>2. /\ (now + d) % TIMER = (stime + since + d) % TIMER
              /\ (((now + d) % TIMER) - stime) % TIMER = since + d
            BY <2>1, <3>1, ElapsedIsSince
        <3>3. now' = (now + d) % TIMER
            BY <1>1 DEF Loop
        <3> QED BY <3>2, <3>3 DEF Elapsed
    <2>3. CASE since + d > PERIOD
        <3>1. stime' = now' /\ since' = 0 /\ interval' = since + d
            BY <1>1, <2>2, <2>3 DEF Loop
        <3>2. now' \in 0..(TIMER - 1)
            BY <1>1, LoopTypeNext DEF LoopNext, LoopTypeOK
        <3>3. now' = (stime' + since') % TIMER
            <4>1. stime' + since' = now'
                <5>1. now' \in Int
                    BY <3>2, LoopAssumption
                <5>2. \A t \in Int : t + 0 = t
                    OBVIOUS
                <5> QED BY <3>1, <5>1, <5>2, Zenon
            <4>2. now' \in Nat /\ now' < TIMER
                BY <3>2, LoopAssumption
            <4> QED BY <4>1, <4>2, Remainder
        <3>4. since + d \in (PERIOD + 1)..(PERIOD + MAX_GAP)
            BY <2>1, <2>3, LoopAssumption DEF LoopInv, LoopTypeOK
        <3>5. 0 <= PERIOD
            BY LoopAssumption
        <3> QED BY <3>1, <3>3, <3>4, <3>5 DEF LoopInv
    <2>4. CASE ~(since + d > PERIOD)
        <3>1. since' = since + d /\ UNCHANGED <<stime, interval>>
            BY <1>1, <2>2, <2>4 DEF Loop
        <3>2. stime + since + d = stime + (since + d)
            BY <2>1 DEF LoopTypeOK
        <3>3. now' = (stime' + since') % TIMER
            BY <2>2, <3>1, <3>2
        <3> QED BY <2>1, <2>4, <3>1, <3>3, LoopAssumption DEF LoopInv
    <2> QED BY <2>3, <2>4
<1>2. CASE UNCHANGED loopvars
    BY <1>2 DEF loopvars, LoopInv
<1> QED BY <1>1, <1>2 DEF LoopNext

\* OneSecLoop runs neither too early nor later than the first run of the task
\* after its time, whatever the reading of the counter.
THEOREM LoopRunsOnTime == LoopSpec => []RunsOnTime
<1>1. LoopTypeOK /\ LoopInv => RunsOnTime
    BY DEF LoopInv, RunsOnTime
<1> QED BY <1>1, LoopTypeInit, LoopTypeNext, LoopInvInit, LoopInvNext, PTL DEF LoopSpec

=============================================================================
