-------------------------------- MODULE Rest --------------------------------
(***************************************************************************)
(* From a request line to the reply: ServerParseHeaderURL, getValue,       *)
(* ParseURLCommand and the send buffer of src/user/server.c, and what the  *)
(* commands of src/user/RestAPI.c read from the URL and answer.  Module    *)
(* Httpd decides which lines of which connection get here; what the        *)
(* commands do to ports and flash is in Outputs and Settings.              *)
(*                                                                         *)
(* A URL is a sequence of tokens: the separators and whole words, of which *)
(* the number of characters is known.  Of a reply only its length matters, *)
(* and whose replies are in the buffer: it takes a piece whole or not at   *)
(* all, and nobody looks at what httpdSend returns.                        *)
(*                                                                         *)
(* The arrays on the stack and the tables in flash are used without a look *)
(* at their size.  Inside says which requests keep within them; of what    *)
(* one that does not makes of the device nothing is said: outside is set,  *)
(* and the behaviour ends.                                                 *)
(***************************************************************************)
EXTENDS Integers, Sequences, SequencesExt, FiniteSets, FiniteSetsExt, Functions

CONSTANTS
    NUM_OF_PORTS,           \* 8 in the code
    PORT_NAME_LEN,          \* 20 in the code
    MAX_TIMED_POWER_EVENTS, \* 10 in the code
    MAX_SENDBUFF_LEN,       \* 2048 in the code
    Words,                  \* what URLs are made of: separators and words
    Numeral,                \* [the words that are numerals -> Int]
    Chars,                  \* [Words -> their number of characters]
    PortPinNumber,          \* [ports -> the pin's number]
    Lines,                  \* bound: the lines clients send
    Stored                  \* bound: the settings earlier runs may have left

VARIABLES
    events,     \* flashData->_PowerEvents
    names,      \* [ports -> words], flashData->Ports[i].PortName
    numbers,    \* [ports -> PortNumbers], the rest of flashData->Ports[i]
    SNTP,       \* flashData->SNTP
    ServerPort, \* flashData->ServerPort
    buffer,     \* the connection's send buffer
    line,       \* the line parsed last
    sent,       \* what that line handed to espconn_sent
    pin,        \* what it asked of the ports: port and value, or port and "flip"
    outside     \* whether it made the code leave an array

data == <<events, names, numbers, SNTP, ServerPort>>
vars == <<data, buffer, line, sent, pin, outside>>

Ports == 0..(NUM_OF_PORTS - 1)
EventIds == 0..(MAX_TIMED_POWER_EVENTS - 1)

-----------------------------------------------------------------------------
(* The URL.  data[i] of the code is here data[i + 1]. *)

\* Mutant: an empty field counts as found.
FoundEvenEmpty(found, index, size) == found - 1 >= index

Found(found, index, size) == found - 1 >= index /\ size # 0

\* getValue's loop looks at data[i]; the end of the data counts as a separator.
Turn(string, separator, index, s, i) ==
    IF s.found <= index /\ (i = Len(string) \/ string[i + 1] = separator)
    THEN [found |-> s.found + 1, first |-> s.last + 1, last |-> i]
    ELSE s

\* Its variables before the loop, first and last being strIndex, and after n turns.
Scanned(string, separator, index) ==
    LET after[n \in 0..(Len(string) + 1)] ==
            IF n = 0 THEN [found |-> 0, first |-> 0, last |-> -1]
            ELSE Turn(string, separator, index, after[n - 1], n - 1)
    IN  after

getValue(string, separator, index) ==
    LET s == Scanned(string, separator, index)[Len(string) + 1]
        size == s.last - s.first
    IN  IF Found(s.found, index, size)
        THEN [text |-> SubSeq(string, s.first + 1, s.last), size |-> size]
        ELSE [text |-> <<>>, size |-> -1]

Param(url, i) == getValue(url, "/", i).text

\* What getValue copies before it looks whether it was found: of a string with too
\* few fields, the last one.
Copied(string, separator, index) ==
    LET s == Scanned(string, separator, index)[Len(string) + 1]
    IN  SubSeq(string, s.first + 1, s.last)

\* f[0] + ... + f[n - 1], the pieces that a loop sends.
Total(n, f) == LET sum[i \in 0..n] == IF i = 0 THEN 0 ELSE sum[i - 1] + f[i - 1] IN sum[n]

TextLength(text) == Total(Len(text), [i \in 0..(Len(text) - 1) |-> Chars[text[i + 1]]])

\* It and the zero behind it fit into an array of size characters.
Fits(string, separator, index, size) == TextLength(Copied(string, separator, index)) < size

\* atoi stops at the first character that is not a digit.
atoi(text) ==
    IF text # <<>> /\ text[1] \in DOMAIN Numeral THEN Numeral[text[1]] ELSE 0

Number(url, i) == atoi(Param(url, i))

TimeOf(text) ==
    [Hour |-> atoi(getValue(text, ":", 0).text), Min |-> atoi(getValue(text, ":", 1).text)]

\* The part of a URL before its first "?".
Path(url) ==
    LET Q == {i \in 1..Len(url) : url[i] = "?"}
    IN  IF Q = {} THEN url ELSE SubSeq(url, 1, (CHOOSE i \in Q : \A j \in Q : i <= j) - 1)

-----------------------------------------------------------------------------
(* The send buffer. *)

Empty == [len |-> 0, from |-> <<>>, lost |-> FALSE]

\* httpdSend of every piece of the reply to c, n bytes together: a piece that does
\* not fit is dropped, and one is if the sum does not fit.
httpdSend(b, c, n) ==
    [len  |-> Min({b.len + n, MAX_SENDBUFF_LEN}),
     from |-> Append(b.from, c),
     lost |-> b.lost \/ b.len + n > MAX_SENDBUFF_LEN]

\* StartResponseJson: StartResponse, AddHeader four times, EndHeaders.
HeadLength == 50 + (32 + 32 + 46 + 19) + 2

\* Mutant: sendBuffLen is not set back.
KeptAfterXmit(b) == b

EmptiedByXmit(b) == Empty

\* One reply: StartResponseJson (or SendHTTPResponse), the body, xmitSendBuff.
Reply(c, body) ==
    LET b == httpdSend(buffer, c, HeadLength + body)
    IN  sent' = <<b>> /\ buffer' = EmptiedByXmit(b)

\* The length %d gives a number, and %2d or %02d.
Width(n) ==
    LET k == IF n < 0 THEN -n ELSE n
    IN  (IF n < 0 THEN 1 ELSE 0) + Cardinality({e \in 0..9 : e = 0 \/ k >= 10 ^ e})

Width2(n) == Max({Width(n), 2})

-----------------------------------------------------------------------------
(* The lengths of the bodies, from the values the command leaves behind. *)

\* {"ports":{"NAME":"0",...}}
StatusBody == 10 + Total(NUM_OF_PORTS, [p \in Ports |-> 6 + TextLength(names[p]) + 1]) - 1 + 2

\* {"Name":"NAME", "Type":"1", "PinNum":"12"}
PortPiece(p, name) ==
    35 + Width(numbers[p].PortPinNumber) + Width(numbers[p].Type) + TextLength(name)

\* {"PortsInfo":[...,...]}
PortsBody == 14 + Total(NUM_OF_PORTS, [p \in Ports |-> PortPiece(p, names[p]) + 1]) - 1 + 2

\* Six pieces for each event; "Interval" prints a word of flash that no command
\* sets, 11 characters at most.
EventLength(e, event) ==
    LET Time2(t) == Width2(t.Hour) + 1 + Width2(t.Min)
    IN  (9 + Width(e)) + (12 + Width(event.Active)) + (11 + Width(event.Port)) + (14 + 11)
        + (11 + Time2(event.StartTime)) + (9 + Time2(event.EndTime))

EventsBody ==
    11 + Total(MAX_TIMED_POWER_EVENTS, [e \in EventIds |-> EventLength(e, events[e]) + 1])
    - 1 + 2

-----------------------------------------------------------------------------
(* The commands. *)

NoPin == UNCHANGED data /\ pin' = <<>>

\* SendPortStatus, also ip/status and ip/scan.
doStatus(c, url) == NoPin /\ Reply(c, StatusBody)

doSetPin(c, url) ==
    /\ pin' = <<Number(url, 2), Number(url, 3)>>
    /\ UNCHANGED data
    /\ Reply(c, StatusBody)

doFlipinput(c, url) ==
    /\ pin' = <<Number(url, 2), "flip">>
    /\ UNCHANGED data
    /\ Reply(c, StatusBody)

\* A command's field, and what it takes when there is none.
NumberOr(url, otherwise) ==
    IF getValue(url, "/", 2).size # -1 THEN Number(url, 2) ELSE otherwise

\* Without a port, the door on port 6.
doOpen(c, url) ==
    /\ pin' = <<NumberOr(url, 6), 1>>
    /\ UNCHANGED data
    /\ Reply(c, 11 + Width(NumberOr(url, 6)))

doGetEvents(c, url) == NoPin /\ Reply(c, EventsBody)

\* Mutant: the parameter index is not advanced past the port.
StoreEventPortTwice(url) ==
    events' = [events EXCEPT ![Number(url, 2)] =
        [Active    |-> Number(url, 3) % 256,
         Port      |-> Number(url, 4),
         StartTime |-> TimeOf(Param(url, 4)),
         EndTime   |-> TimeOf(Param(url, 5))]]

\* Mutant: Active keeps more than its byte.
StoreEventWide(url) ==
    events' = [events EXCEPT ![Number(url, 2)] =
        [Active    |-> Number(url, 3),
         Port      |-> Number(url, 4),
         StartTime |-> TimeOf(Param(url, 5)),
         EndTime   |-> TimeOf(Param(url, 6))]]

StoreEvent(url) ==
    events' = [events EXCEPT ![Number(url, 2)] =
        [Active    |-> Number(url, 3) % 256,
         Port      |-> Number(url, 4),
         StartTime |-> TimeOf(Param(url, 5)),
         EndTime   |-> TimeOf(Param(url, 6))]]

doSetEvent(c, url) ==
    /\ StoreEvent(url)
    /\ UNCHANGED <<names, numbers, SNTP, ServerPort>>
    /\ pin' = <<>>
    /\ Reply(c, EventsBody')

doGetPorts(c, url) == NoPin /\ Reply(c, PortsBody)

doSetPorts(c, url) ==
    /\ names' = [names EXCEPT ![Number(url, 2)] = Param(url, 3)]
    /\ UNCHANGED <<events, numbers, SNTP, ServerPort>>
    /\ pin' = <<>>
    /\ Reply(c, PortsBody')

doSNTP(c, url) ==
    /\ SNTP' = NumberOr(url, SNTP)
    /\ UNCHANGED <<events, names, numbers, ServerPort>>
    /\ pin' = <<>>
    /\ Reply(c, 8 + 2 + Width(SNTP') + 1)

doWifiport(c, url) ==
    /\ ServerPort' = NumberOr(url, ServerPort)
    /\ UNCHANGED <<events, names, numbers, SNTP>>
    /\ pin' = <<>>
    /\ Reply(c, 14 + 2 + Width(ServerPort') + 1)

\* 19 characters of date, the zone with its sign.
doGetTime(c, url) == NoPin /\ Reply(c, 9 + (19 + 4 + 1 + 3 + 1) + 2)

\* The longest texts that ssid, password and address can hold.  ReadFromFlash comes
\* first: flash holds what RAM does (Settings), but a port of 0 is corrected.
doGetWifi(c, url) ==
    /\ ServerPort' = IF ServerPort = 0 THEN 80 ELSE ServerPort
    /\ UNCHANGED <<events, names, numbers, SNTP>>
    /\ pin' = <<>>
    /\ Reply(c, 40 + 31 + 63 + 15 + Width(ServerPort'))

\* The password is cut to its half.
doSetWifi(c, url) == NoPin /\ Reply(c, 25 + 31 + 31)

Midnight == [Hour |-> 0, Min |-> 0]
Cleared == [Active |-> 0, Port |-> 0, StartTime |-> Midnight, EndTime |-> Midnight]

\* PORT_OUTPUT is 1.
Output(pinNumber) == [PortPinNumber |-> pinNumber, Type |-> 1]

\* The only command that answers nothing.
doInitialize(c, url) ==
    /\ events' = [e \in EventIds |-> Cleared]
    /\ names' = [p \in Ports |-> <<"OutputN">>]
    /\ numbers' = [p \in Ports |-> Output(PortPinNumber[p])]
    /\ SNTP' = 3
    /\ ServerPort' = 80
    /\ pin' = <<>>
    /\ sent' = <<>>
    /\ UNCHANGED buffer

-----------------------------------------------------------------------------
(* The arrays. *)

\* A name of PORT_NAME_LEN characters has no zero behind it: printing it runs on.
NamesEnd(n) == \A p \in Ports : TextLength(n[p]) < PORT_NAME_LEN

\* doGetPorts prints each port into buff[50].
PortsInside(n) == NamesEnd(n) /\ \A p \in Ports : PortPiece(p, n[p]) < 50

\* Two quotes around a number, in buff[10].
NumberInside(n) == 2 + Width(n) < 10

\* tmp2[10].
TimeFits(text) == Fits(text, ":", 0, 10) /\ Fits(text, ":", 1, 10)

\* The command does not leave the arrays it copies parameters to, those it prints
\* into, and the tables that a number from the URL is an index of.
Inside(c, url) ==
    CASE c = "setpin" ->
             /\ Fits(url, "/", 2, 10) /\ Fits(url, "/", 3, 10)
             /\ Number(url, 2) \in Ports /\ NamesEnd(names)
      [] c = "flipinput" ->
             Fits(url, "/", 2, 20) /\ Number(url, 2) \in Ports /\ NamesEnd(names)
      [] c = "open" -> Fits(url, "/", 2, 50) /\ NumberOr(url, 6) \in Ports
      [] c \in {"status", "scan"} -> NamesEnd(names)
      [] c = "setwifi" ->
             /\ Fits(url, "/", 2, 120) /\ TextLength(Param(url, 2)) < 32
             /\ Fits(url, "/", 3, 120) /\ TextLength(Param(url, 3)) < 64
      [] c = "event" ->
             /\ \A i \in 2..7 : Fits(url, "/", i, 120)
             /\ TimeFits(Param(url, 5)) /\ TimeFits(Param(url, 6))
             /\ Number(url, 2) \in EventIds
      [] c = "portsinfo" -> PortsInside(names)
      [] c = "portinfo" ->
             /\ Fits(url, "/", 2, 120) /\ Fits(url, "/", 3, 120)
             /\ Number(url, 2) \in Ports
             /\ PortsInside([names EXCEPT ![Number(url, 2)] = Param(url, 3)])
      [] c = "sntp" -> Fits(url, "/", 2, 10) /\ NumberInside(NumberOr(url, SNTP))
      [] c = "wifiport" -> Fits(url, "/", 2, 10) /\ NumberInside(NumberOr(url, ServerPort))
      [] OTHER -> TRUE

-----------------------------------------------------------------------------
(* Parsing a line. *)

RestPtrsTable ==
    <<"flipinput", "open", "status", "setwifi", "getwifi", "events", "event", "time",
      "portsinfo", "portinfo", "initialize", "sntp", "wifiport", "scan", "setpin", "END">>

\* Mutant: one entry less is looked at.
LookedAtButLast == 1..14

\* while (idx < 15): the entry "END", the sixteenth, is never reached.
LookedAt == 1..15

\* The commands that strcmp finds equal to the URL's first parameter.
Reached == {RestPtrsTable[idx] : idx \in LookedAt}

Commanded(url) ==
    LET p == Param(url, 1) IN {c \in Reached : <<c>> = p}

ParseURLCommand(c, url) ==
    CASE c = "flipinput"  -> doFlipinput(c, url)
      [] c = "open"       -> doOpen(c, url)
      [] c = "setwifi"    -> doSetWifi(c, url)
      [] c = "getwifi"    -> doGetWifi(c, url)
      [] c = "events"     -> doGetEvents(c, url)
      [] c = "event"      -> doSetEvent(c, url)
      [] c = "time"       -> doGetTime(c, url)
      [] c = "portsinfo"  -> doGetPorts(c, url)
      [] c = "portinfo"   -> doSetPorts(c, url)
      [] c = "initialize" -> doInitialize(c, url)
      [] c = "sntp"       -> doSNTP(c, url)
      [] c = "wifiport"   -> doWifiport(c, url)
      [] c = "setpin"     -> doSetPin(c, url)
      [] OTHER            -> doStatus(c, url)

Ignored == UNCHANGED <<data, buffer>> /\ sent' = <<>> /\ pin' = <<>>

IsParsed(l) == l.method \in {"GET", "POST"} /\ l.ends

\* ParseURLCommand copies the first parameter of every URL into param[30].
LineInside(l) ==
    LET url == Path(l.url)
    IN  IsParsed(l) => Fits(url, "/", 1, 30) /\ \A c \in Commanded(url) : Inside(c, url)

\* ServerParseHeaderURL: a line that is no GET or POST, or that has no space after
\* its URL, is ignored, and so is a URL without a command.
ServerParseHeaderURL(l) ==
    LET url   == Path(l.url)
        found == IF IsParsed(l) /\ LineInside(l) THEN Commanded(url) ELSE {}
    IN  /\ ~outside
        /\ line' = l
        /\ outside' = ~LineInside(l)
        /\ \/ \E c \in found : ParseURLCommand(c, url)
           \/ found = {} /\ Ignored

NoLine == [method |-> "none", url |-> <<>>, ends |-> FALSE]

\* The beginning of httpdRecvCb: every segment gets an empty buffer.
httpdRecvCb ==
    /\ ~outside
    /\ buffer' = Empty
    /\ line' = NoLine
    /\ sent' = <<>>
    /\ pin' = <<>>
    /\ UNCHANGED <<data, outside>>

-----------------------------------------------------------------------------
(* What the sizes must be for replies to be whole. *)

ASSUME SizesAssumption ==
    /\ NUM_OF_PORTS \in Nat \ {0}
    /\ MAX_TIMED_POWER_EVENTS \in Nat \ {0}
    /\ PORT_NAME_LEN \in Nat /\ PORT_NAME_LEN >= 12
    /\ PortPinNumber \in [Ports -> Int]
    /\ MAX_SENDBUFF_LEN \in Nat
    /\ HeadLength + 15 + NUM_OF_PORTS * (38 + PORT_NAME_LEN) <= MAX_SENDBUFF_LEN
    /\ HeadLength + 12 + MAX_TIMED_POWER_EVENTS * 157 <= MAX_SENDBUFF_LEN

Commands == {"flipinput", "open", "status", "setwifi", "getwifi", "events", "event",
             "time", "portsinfo", "portinfo", "initialize", "sntp", "wifiport", "scan",
             "setpin"}

ASSUME WordsAssumption ==
    /\ \A w \in DOMAIN Numeral : w \notin {"/", ":", "?"} /\ Numeral[w] \in Int
    /\ Chars \in [Words -> Nat]
    /\ \A c \in Commands \cap Words : Chars[c] < IF c = "initialize" THEN 11 ELSE 10
    /\ "OutputN" \in Words /\ Chars["OutputN"] < 12

ASSUME LinesAssumption == \A l \in Lines : l.url \in Seq(Words)

TimeOfDay == [Hour : Int, Min : Int]
PortNumbers == [PortPinNumber : Int, Type : Int]
PowerEvent == [Active : 0..255, Port : Int, StartTime : TimeOfDay, EndTime : TimeOfDay]

\* A device that was never initialized has names of PORT_NAME_LEN characters, or of
\* the length that an earlier portinfo left.
Name == {name \in Seq(Words) : TextLength(name) <= PORT_NAME_LEN}

ASSUME StoredAssumption ==
    Stored \subseteq
        [event : PowerEvent, names : [Ports -> Name], numbers : [Ports -> PortNumbers],
         SNTP : Int, ServerPort : Int \ {0}]

Init ==
    /\ \E s \in Stored :
           /\ events = [e \in EventIds |-> s.event]
           /\ names = s.names
           /\ numbers = s.numbers
           /\ SNTP = s.SNTP
           /\ ServerPort = s.ServerPort
    /\ buffer = Empty
    /\ line = NoLine
    /\ sent = <<>>
    /\ pin = <<>>
    /\ outside = FALSE

Next ==
    \/ \E l \in Lines : ServerParseHeaderURL(l)
    \/ httpdRecvCb

Spec == Init /\ [][Next]_vars

-----------------------------------------------------------------------------
TypeOK ==
    /\ events \in [EventIds -> PowerEvent]
    /\ names \in [Ports -> Name]
    /\ numbers \in [Ports -> PortNumbers]
    /\ SNTP \in Int
    /\ ServerPort \in Int
    /\ buffer.len \in 0..MAX_SENDBUFF_LEN
    /\ outside \in BOOLEAN

\* The fields of a string, counted from 0: what lies between one separator (or
\* the beginning) and the next (or the end).
Field(string, separator, index) ==
    LET Cut   == {i \in 1..Len(string) : string[i] = separator}
        Start == {i \in Cut \cup {0} : Cardinality({c \in Cut : c <= i}) = index}
        Stop  == {i \in Cut \cup {Len(string) + 1} : \A j \in Start : i > j}
    IN  IF Start = {} THEN <<>> ELSE SubSeq(string, Max(Start) + 1, Min(Stop) - 1)

\* "get %d param" (server.c:75): getValue returns the field of that index, and
\* -1 if there is none or if it is empty, for every string and both separators
\* in use.
GetValueIsField ==
    \A separator \in {"/", ":"}, index \in 0..7 :
        LET f == Field(line.url, separator, index)
            v == getValue(line.url, separator, index)
        IN  v.text = f /\ v.size = IF f = <<>> THEN -1 ELSE Len(f)

\* The commands that a line asks for, one at most.
RequestedBy(l) ==
    IF IsParsed(l)
    THEN LET f == Field(Path(l.url), "/", 1) IN {c \in Commands : f = <<c>>} ELSE {}

Requested == RequestedBy(line)

\* What the arrays were made for: fields and times of fewer than 10 characters,
\* numbers that are an index, names of fewer than 12 characters, pins and types as
\* initialize stores them.
Modest(l) ==
    LET url == Path(l.url)
        field(i) == Field(url, "/", i)
        number == atoi(field(2))
        asks(C) == RequestedBy(l) \cap C # {}
    IN  /\ TextLength(field(1)) < 30
        /\ \A i \in {0} \cup 2..7 : TextLength(field(i)) < 10
        /\ \A i \in {5, 6}, j \in {0, 1} : TextLength(Field(field(i), ":", j)) < 10
        /\ asks({"setpin", "flipinput", "portinfo"}) => number \in Ports
        /\ asks({"open"}) => (IF field(2) = <<>> THEN 6 ELSE number) \in Ports
        /\ asks({"event"}) => number \in EventIds
        /\ asks({"sntp", "wifiport"}) => Width(number) < 8

ModestData ==
    /\ \A p \in Ports :
           /\ TextLength(names[p]) < 12
           /\ Width(numbers[p].PortPinNumber) + Width(numbers[p].Type) <= 3
    /\ Width(SNTP) < 8 /\ Width(ServerPort) < 8

\* A reply is transmitted whole and alone: no piece was dropped, although nobody
\* looks at what httpdSend returns, and nothing of another reply is before it.  No
\* modest request makes the code leave an array, although getValue copies the last
\* field of a URL in place of one that is missing.
RepliesAreWhole ==
    /\ \A i \in 1..Len(sent) : ~sent[i].lost /\ Len(sent[i].from) = 1
    /\ outside => ~(Modest(line) /\ ModestData)

\* Each request for a command, in whatever slot of the table it stands, gets one
\* reply, which is that command's, and any other line gets none, unless it makes
\* the code leave an array; initialize alone answers nothing.  Httpd's Replies
\* counts on it.
EachRequestAnswered == ~outside =>
    {sent[i].from[1] : i \in {j \in 1..Len(sent) : sent[j].from # <<>>}}
        = Requested \ {"initialize"}

\* "ip/event/ID(0-7)/ACTIVE(0-1)/PORT(0-7)/STARTTIME(HH:MM)/endtime(HH:MM)/..."
\* (RestAPI.c:30) and "ip/pin/value" (RestAPI.c:55): every value ends up where the
\* URL names it, whatever follows the last of them.
EventUrl(id, active, port, h1, m1, h2, m2) ==
    <<"/", "event", "/", id, "/", active, "/", port, "/", h1, ":", m1, "/", h2, ":", m2>>

PinUrl(port, value) == <<"/", "setpin", "/", port, "/", value>>

FieldsInTheirPlace == ~outside =>
    LET u == line.url
        field(i) == Numeral[u[i]]
        Numbers(I) == \A i \in I : u[i] \in DOMAIN Numeral
    IN  /\ /\ Requested = {"event"}
           /\ Len(u) >= 16
           /\ u = EventUrl(u[4], u[6], u[8], u[10], u[12], u[14], u[16])
                  \o SubSeq(u, 17, Len(u))
           /\ Numbers({4, 6, 8, 10, 12, 14, 16})
           /\ field(4) \in EventIds /\ field(6) \in 0..255
           => events[field(4)] =
                  [Active    |-> field(6),
                   Port      |-> field(8),
                   StartTime |-> [Hour |-> field(10), Min |-> field(12)],
                   EndTime   |-> [Hour |-> field(14), Min |-> field(16)]]
        /\ /\ Requested = {"setpin"}
           /\ Len(u) = 6
           /\ u = PinUrl(u[4], u[6])
           /\ Numbers({4, 6})
           => pin = <<field(4), field(6)>>

\* "ip/sntp           - show the sntp hours from GMT" (RestAPI.c:35): a query
\* changes no setting and asks nothing of a port, also with a slash at its end or
\* nothing between two.  ip/getwifi is not one: it corrects a port of 0.
Queries == {"sntp", "wifiport", "events", "status", "portsinfo", "time", "scan"}

IsQuery(l) == RequestedBy(l) \subseteq Queries /\ Field(Path(l.url), "/", 2) = <<>>

QueriesChangeNothing == [][data' # data \/ pin' # <<>> => ~IsQuery(line')]_vars

=============================================================================
