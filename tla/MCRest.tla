-------------------------------- MODULE MCRest --------------------------------
(***************************************************************************)
(* The requests that TLC sends to Rest: each command as the table at the   *)
(* top of RestAPI.c documents it, with parts missing, empty or in excess,  *)
(* every URL of up to three tokens, and what leaves an array.              *)
(***************************************************************************)
EXTENDS Rest

\* The widest hour and minute that doSetEvent's array for them holds, a value too
\* wide to be printed, one too wide to be copied.
MCNumeral == [w \in {"0", "1", "3", "5", "6", "9", "10", "-99999999", "12345678", "1000000000"} |->
    CASE w = "0" -> 0 [] w = "1" -> 1 [] w = "3" -> 3 [] w = "5" -> 5
      [] w = "6" -> 6 [] w = "9" -> 9 [] w = "10" -> 10 [] w = "-99999999" -> -99999999
      [] w = "12345678" -> 12345678 [] w = "1000000000" -> 1000000000]

MCPortPinNumber == [p \in 0..7 |-> <<0, 1, 12, 13, 14, 15, 16, 7>>[p + 1]]

\* The device after initialize; a new one, on which the names from the third port on
\* have no end and the numbers are those of erased flash; and a new one that was given
\* names, and a zone that is too long.
Wide == [Hour |-> -99999999, Min |-> -99999999]
Event == [Active |-> 255, Port |-> -99999999, StartTime |-> Wide, EndTime |-> Wide]
Device(n, k, zone) ==
    [event |-> Event, names |-> n, numbers |-> k, SNTP |-> zone, ServerPort |-> 80]

Initialized == [p \in Ports |-> Output(MCPortPinNumber[p])]
New == [p \in Ports |-> IF p < 2 THEN Output(0) ELSE [PortPinNumber |-> -1, Type |-> -1]]

MCStored ==
    { Device([p \in Ports |-> <<"OutputN">>], Initialized, 3),
      Device([p \in Ports |-> IF p < 2 THEN <<"OutputN">> ELSE <<"erased-erased-erased">>],
             New, 3),
      Device([p \in Ports |-> <<"OutputN">>], New, 12345678) }

Get(url) == [method |-> "GET", url |-> url, ends |-> TRUE]

Plain == {<<"/", c>> : c \in Commands \cup {"END", "index"}}

Full ==
    { <<"/", "setpin", "/", "6", "/", "1">>,
      <<"/", "setpin", "/", "6">>,
      <<"/", "flipinput", "/", "1", "?", "6">>,
      <<"/", "open", "/", "1">>,
      <<"/", "portinfo", "/", "6", "/", "greenhouse1">>,
      <<"/", "setwifi", "/", "door", "/", "door">>,
      <<"/", "wifiport", "/", "0">>,
      <<"/", "wifiport", "/">> }

\* What leaves an array: an index, a name, a number, a command too long.
Excessive ==
    { <<"/", "setpin", "/", "9", "/", "1">>,
      <<"/", "setpin", "/", "6", "/", "1000000000">>,
      <<"/", "flipinput", "/", "-99999999">>,
      <<"/", "open", "/", "9">>,
      <<"/", "event", "/", "10", "/", "1">>,
      <<"/", "event", "/", "0", "/", "1", "/", "1", "/", "1000000000", ":", "6">>,
      <<"/", "portinfo", "/", "9", "/", "door">>,
      <<"/", "portinfo", "/", "6", "/", "garden_light">>,
      <<"/", "portinfo", "/", "1", "/", "erased-erased-erased">>,
      <<"/", "setwifi", "/", "a-network-of-thirty-two-letters_">>,
      <<"/", "sntp", "/", "12345678">>,
      <<"/", "wifiport", "/", "12345678">>,
      <<"/", "a-network-of-thirty-two-letters_">> }

Events ==
    { EventUrl("0", "1", "6", "9", "0", "6", "1") \o <<"/", "1">>,
      <<"/", "event", "/", "9", "/", "-99999999", "/", "1", "/", "6", "/", ":", "6">> }

Short ==
    {<<"/">> \o url : url \in UNION {[1..n -> {"/", "sntp", "5"}] : n \in 0..2}}
    \cup {<<"/", "sntp", "/", x>> : x \in {"/", "5"}} \cup {<<"/", "/", "sntp", "5">>}

MCLines ==
    {Get(url) : url \in Plain \cup Full \cup Excessive \cup Events \cup Short}
    \cup {[method |-> "POST", url |-> <<"/", "time">>, ends |-> TRUE],
          [method |-> "GET", url |-> <<"/", "sntp", "/", "5">>, ends |-> FALSE],
          [method |-> "Host:", url |-> <<"/", "sntp", "/", "5">>, ends |-> TRUE]}

MCWords ==
    UNION {Range(l.url) : l \in MCLines}
    \cup UNION {UNION {Range(s.names[p]) : p \in Ports} : s \in MCStored}

MCChars == [w \in MCWords |-> Len(w)]

=============================================================================
