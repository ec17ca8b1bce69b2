# A verification of the ESP8266Rest firmware

ESP8266Rest is the firmware of an ESP8266 Wi-Fi switch: an HTTP server whose
URLs drive eight output ports, a table of timed events that switches them, an
SNTP client for the clock the events go by, settings in flash, and the code that
brings up the network. This directory holds TLA+ models of those parts, what TLC
checks about them on small instances, and theorems that TLAPS proves about them
for instances of every size. All definitions are translated from `src/user/`;
`PROJECT.json` gives the lines of each.

## 1. The system

The firmware runs on the Espressif SDK without threads. Everything is a callback:
of a TCP connection, of a timer, of a message a task posted, of lwIP. A callback
runs to its end before the next one starts, so **a callback is one action** in
all modules. What is hard is everything *between* callbacks: which ones are still
owed, in which order they come, what they find when they come late, and a loss of
power between any two instructions.

| Component | Source | State it keeps | Operations | Interacts with |
|---|---|---|---|---|
| HTTP connection pool | `server.c` | 8 slots: SDK control block, `postLen`, head buffer | connect, receive, sent, disconnect, reconnect callbacks | the SDK; runs the commands |
| Request parsing, dispatch | `server.c` | none (splits the head in place) | `ServerParseHeaderURL`, `ParseURLCommand`, `getValue` | called by the pool; calls the commands |
| Commands and their replies | `RestAPI.c` | none of their own | the 15 entries of the command table | read the URL; change ports and settings; fill the send buffer |
| Reply builder | `server.c` | one send buffer per connection | `StartResponse`, `httpdSend`, `xmitSendBuff` | the commands; the SDK's sent callback |
| Output ports and scheduler | `RestAPI.c`, `gpio16.c` | `portsVal`, GPIO registers, RTC latch of pin 16, `open_timer`, the event table | `ip/setpin`, `ip/flipinput`, `ip/open`, `ip/event`, `ip/initialize`, `OneSecLoop`, the timer | the clock, the settings, the main loop |
| Settings in flash | `user_main.c`, `RestAPI.c` | `*flashData` in RAM, one flash sector | `ReadFromFlash`, `flash_write`, each command that changes a setting | every other component reads it |
| SNTP client | `sntp.c` | lwIP timeouts, DNS lookups, retry delay, `sntp_time`, `sntp_tz` | `sntp_init`, `sntp_request`, `sntp_retry`, `sntp_recv`, `sntp_dns_found` | started by the network check; sets the clock |
| Date and time | `time_utils.c` | none | `GetDateTime`, `Now`, `epoch_to_str` | `ip/time`, the scheduler |
| Network bring-up | `user_main.c` | `network_timer`, `counter` | `network_init`, `network_check_ip` | the SDK's station; starts server and SNTP |
| Main loop task | `user_main.c` | `stime` | `loop` | posts itself; calls `OneSecLoop` every 5 s |
| File system image | `mkespfsimage/main.c`, `espfs.c_` | the image; position in an open file | the tool's loop; `espFsOpen`, `espFsRead`, `espFsClose` | tool and reader must agree on the layout; not built into the firmware |

What makes each of them correct, and what could go wrong (the hazards of
`PROJECT.json` have the lines):

* **Pool.** Callbacks must find the slot of their own connection, though the SDK
  reuses control blocks, sent callbacks come late and the disconnect callback is
  not told which connection it is about. A slot must not leak, whatever a client
  does. One head is executed once, and with nobody else's lines.
* **Commands.** A URL may have fields missing, empty or in excess, and a query must
  not turn into a command that stores something. Each request gets one reply, whole,
  although nobody looks at what `httpdSend` returns when the buffer is full. Fields, names
  and numbers are put into arrays on the stack, and used as indices, without a look at their
  size.
* **Outputs.** Commands, a timer and the scheduler write the same ports;
  `ip/status` reads a variable and `ip/flipinput` a register, so that all writers
  have to keep the two in step, and the pads are switched to GPIO later than the first write. Events
  overlap, wrap over midnight and are read
  by a clock that jumps. One timer serves all ports.
* **Settings.** Power may fail in the middle of an erase or a write, and again while the
  next start repairs what was left; flash must not come back as a mixture of old and new.
* **SNTP.** Answers are lost, duplicated, late and unchecked, memory and lookups
  fail, and the only state is what is left on lwIP's timeout list. The client
  must never fall silent: `sntp_init` starts it once only.
* **Time.** Two loops subtract years and months; the boundaries are what counts.
* **Network.** The check re-arms itself on each path; a station that is about to get
  an address must not be torn down for ever; a stored time zone must reach the client.
* **Main loop.** A 32-bit microsecond counter wraps every 71 minutes.
* **File system image.** Tool and reader round lengths in three places; reads of any
  length must give a file's bytes in order, through a decoder that buffers.

## 2. The modules

| Module | Models | Extended by |
|---|---|---|
| `ConnService` | abstract: what the server promises its clients | instantiated by `Httpd` |
| `Httpd` | connection pool and its callbacks | `MCHttpd`, `HttpdProofs` |
| `Rest` | from a request line to the reply: parsing, command table, commands, send buffer | `MCRest`, `RestProofs` |
| `Outputs` | ports, registers, events, scheduler, clock | `MCOutputs`, `OutputsProofs` |
| `Settings` | settings in RAM and flash, loss of power | `MCSettings`, `SettingsProofs` |
| `Sntp` | SNTP client on lwIP's timeouts | `Network` |
| `TimeUtils` | date and time conversion, and a calendar | `MCTimeUtils`, `TimeProofs` |
| `Network` | network check, station, server start, time zone, **with the client of `Sntp`** | `MCNetwork`, `NetworkProofs` |
| `MainLoop` | the task that posts itself | `NetworkProofs`; run as it is |
| `EspFs` | the image that `mkespfsimage` writes and `espfs.c_` reads | `MCEspFs`, `EspFsProofs` |
| `Recursion` | no code: induction, and the existence of recursive functions | the proofs that are about loops |

A definition with a comment `Mutant:` is a plausible bug in the definition below
it. The specifications do not use it; each property is known to fail when a
mutant takes the place of the code.

### Httpd and ConnService

Variables are those of `gServerConnData` and `connPrivData` (`conn`, `postLen`,
`head`), the SDK's control blocks (`block`, `peer`, `unsent`) and histories of
what clients sent, were given and got executed. `Connect`, `Receive`, `Sent`,
`CloseDone` and `Abort` are `httpdConnectCb`, `httpdRecvCb`, `httpdSentCb`,
`httpdDisconCb` and `httpdReconCb`; `PeerClose` is the SDK.

* Bytes are abstracted to lines, of four kinds: a command that replies, one that
  does not, another header field, the empty line. The receive loop keeps no state
  from one call to the next but the slot's, so a segment of several lines behaves
  like its lines one after the other.
* `httpdDisconCb` cannot use its argument and reads the state of the control
  block of *every* slot instead. That memory may have been freed, so the slots it
  retires are chosen by nondeterminism: certainly those of the block that has
  just closed, certainly none of an open one, possibly any other (`MustClear`,
  `MayClear`). That the block just closed is recognised is what the callback looks for; the
  comment there (`server.c:376-379`) promises it in most cases only, when connections are
  interrupted, and a slot that it misses is one more of those that a reset leaves behind.
* `Interrupted` says whether connections may be reset. `httpdReconCb` does
  nothing to the pool, so a reset leaves a slot behind with the address of freed
  memory; what holds in spite of that and what does not are questions of their own.

`ConnService` knows no slots or buffers: connections are admitted below the
capacity, refused at it, served at most once from their own lines, given up for
good. `Httpd` defines the refinement (`Phase`, `Holds`, `ServesClients`).

### Rest

One line of a head, from `ServerParseHeaderURL` to `espconn_sent`. A URL is a sequence of
tokens, separators and whole words; `getValue` is its loop (`Turn`, one turn of it; `Scanned`,
what it has found after so many characters).
`Commanded` is the comparison with the command table, and there is one operator for each
command, `do...` as in the code. Of a reply the model keeps what the properties tell apart:
its length, whose pieces are in the buffer, and whether one was dropped. The lengths of the
bodies are those of the format strings with the numbers' own widths. What `Httpd` assumes of
a command, "one reply, or none", is `EachRequestAnswered` here; what a command does to the
registers and to flash is in `Outputs` and `Settings`.

The commands copy fields into arrays of 10, 20, 50 or 120 characters, print into `buff[50]`
and `buff[10]`, and use numbers as indices, all without a check. `Inside` says for each
command which URLs, with which settings, keep within those arrays. One that does not is undefined
behaviour, which could be
anything: `outside` is set, nothing else is said, and the behaviour ends. The properties speak
of what came before, and `RepliesAreWhole` says which requests are safe: `Modest` ones, to a device
whose settings are (`ModestData`). The tables in flash are the code's at three times: after
`ip/initialize`, as `initFlash` leaves a new device's (two names, all other ports erased, so that
names run on to the end of their arrays), and of a new device that was given names.

### Outputs

`portsVal`, `GPIO_OUT`, `GPIO_ENABLE` (as sets of bits), the RTC latch behind
pin 16 and its configuration, which pads are switched to GPIO (`pads`), the event table,
`open_timer` and the clock in minutes of the day. `open`, `overtaken` and `even` are histories:
the ports high since an `ip/open`, those whose timer another `ip/open` has taken, and pin 16
since it was set to an even value. `Write`
is `PortPinSet` for a set of ports, since `OneSecLoop` writes several. The
scheduler's loop over the events is given in closed form (`Scheduled`); `portsValtmp`
is the loop as it is written, and the two are shown to agree. `Tick`,
`Sync` and `SetZone` are what the SNTP client does to the clock: it advances once
a minute after the first answer, and answers and time zones make it jump
anywhere. The registers are external. Events are not validated by the code, so their port
may be any integer; in flash that was never written they are all ones, and the models start there.
`PadsAtStart` are the pads that are GPIO before `InitializeRest`: 0 and 2 by their reset value,
not GPIO1, which `stdout.c:35` gives to the UART, nor GPIO7, which is the flash chip's.

### Settings

Fields in the order in which the struct lays them out, since `flash_write`
programs them in this order, magic number first. `flash_write` is the one
operation broken into steps (`StartWrite`, `Erase`, `Program`), because the one
thing that can come between is a loss of power (`PowerLoss...`): while a field is programmed it
leaves that field lost and the others as they were, while the sector is erased any of the
sets `Losses` of fields. `before` and `asked` are histories: what flash held when the last command
came, and what the command asked for. The repair by `initFlash` at a start is no command and does not
change them.

### Sntp

The client has no state variable that says what it is doing; what it will do next
is in the entries it has put on lwIP's timeout list and in the lookups it has
started. So the model counts them: `requests` (entries that call `sntp_request`),
`retries` (entries that call `sntp_try_next_server`, which is `sntp_retry` in this
build) and `lookups`. `sys_untimeout` removes *one* entry of a handler. Answers are
a set of kinds under way: a good one, a kiss of death, anything else. Deadlines are
not modelled, so any entry may fire at any time; `late` records whether a request
was made while an answer was under way, which deadlines alone cannot rule out.

### Network, with Sntp

`Network` EXTENDS `Sntp`: the two are one system, as they are in the code, where
`network_check_ip` calls `sntp_init` and nobody else does. It has one disjunct for each
branch of `network_check_ip`; joining and losing the access point are the SDK's. Joining takes
time: `undisturbed` counts the failed checks that the present attempt has seen, and
`wifi_station_disconnect` begins a new one. The
client's own steps are those of `Sntp`, restricted to what can happen: without a
connection no lookup finds an address and no new answer gets under way, but timeouts go
on firing and answers already there are lost. A repeated `ServerInit` is no change
(`espconn_accept` refuses a socket that listens), a repeated `sntp_init` sets the time zone
only. `Sntp` by itself lets anybody initialise the client at any time; `NetworkProofs` shows
that the composition implements it.

### TimeUtils and MainLoop

`TimeUtils` steps a Gregorian calendar from day to day beside the code's
`get_year` and `get_month`; a time is days and seconds of the day. The two loops are
recursive functions: `get_year` of the year and of what is left of the time, `get_month` of
the turns, of which there are at most twelve. `MainLoop`'s counter is `TIMER` ticks wide and
subtracts modulo `TIMER`, as `uint32` does. Its names begin with `Loop`, because it is
proved about beside `Network`.

### EspFs

The image is a sequence of words: headers, names, data and padding, at the offsets that the
tool computes. The reader walks it with its own rounding (`Following`), skips leading slashes
and compares names as `strcmp` does, but sees of a name only what `namebuf` holds (`IsNamed`):
one of 256 characters or more has no end there, and is never the one asked for. A file's bytes are
numbered, so that a read that repeats,
skips or cuts is told from one that does not. `Stored` is what `handleFile` writes of one file.
The loop of `espFsRead` over the decoder is a function of its turns (`InflateTurn`), as many as
there are bytes to feed and to deliver; `InflateEnds` proves that it is over by then. heatshrink is
external: a decoder that takes at most 16 bytes a turn, holds what it has decoded and gives what
there is room for.

## 3. The runs

| Run | Checks | What it shows |
|---|---|---|
| `httpd_pool` | `TypeOK`, `LookupFindsOwnSlot`, `NoSlotLeaks`, `ServesClients` | without resets each callback works on its own slot, all slots are given back, and the pool implements `ConnService` |
| `httpd_reset` | `AcceptedHasSlot` | even with resets, data is never received into no slot |
| `httpd_alias` | `LookupFindsOwnSlot` (violated) | with resets it may be the *wrong* slot |
| `outputs` | `TypeOK`, `ReportedLevelIsDriven`, `ScheduledIsLoop`, `TimeInsideIsInterval`, `FlipInvertsReported`, `OneOpenIsTimed`, `EventRaisesPort`, `OpenCloses` | reported and driven levels agree through commands, timer, scheduler and restarts, but for pads that are not the program's and pin 16 set to an even value; an event that stays on raises its port; of several ports opened within 3 s only the last is released |
| `outputs_eventend` | `EventEndLowers` (violated) | the end of an event does not lower the port |
| `settings_safe` | `TypeOK`, `FlashHoldsSettings`, `NeverMixesGenerations`, `CompletedWriteStays`, `CompiledInNeverUsed` | losses of power, also those that cut off the repair by `initFlash`, leave the settings of before the last command or those it asked for, either of them perhaps with the ports, time zone and server port of a new device, less what was lost |
| `timeutils_days` | `LocalTimeIsRight` | the date is right to the end of `time_t`, but for one second a month |
| `timeutils_first` | `DateExists` (violated) | in that second the date does not exist |
| `network_online` | `TypeOK`, `NetTypeOK`, `OneChain`, `NeverSilent`, `ClockNeedsServer`, `ServerComesUp`, `ZoneIsApplied`, `StationRecovers`, `ClockIsRefreshed` | from power-up to a running clock: the client never falls silent through losses of the station, requests and answers; the server comes up, the zone is applied, a station that needs less than `MAX_TRIES` checks to join is not torn down for ever, the clock is set again and again |
| `rest_replies` | `TypeOK`, `GetValueIsField`, `RepliesAreWhole`, `EachRequestAnswered`, `FieldsInTheirPlace`, `QueriesChangeNothing` | each request finds its command, stores its fields where the URL names them, and is answered once, whole and alone; a modest request to a device of modest settings leaves no array |
| `espfs_image` | `IsAligned`, `OpenFindsFirst`, `ReadsAreContent` | what the tool writes the reader finds, beside names that its buffer does not hold, and reads of any lengths give the file in order, short only when nothing of what is stored is left |
| `mainloop_wrap` | `LoopTypeOK`, `RunsOnTime`, `RunsForever` | the scheduler runs every 5 s, over the wrap of the counter |

### Bounds

* `Httpd`: 2 slots, 3 blocks, 3 clients, 3 lines per client in a buffer of 2. Three
  clients on two slots fill the pool, are refused and reuse slots and blocks. Three
  lines are a head with a line after it, or a head too long whose empty line is
  lost. Clients and blocks are only compared, hence the symmetry. With resets, two
  blocks are enough for a block to be used again while its old slot is taken.
* `Outputs`: port 1, whose pad is the UART's, port 2, whose pad is switched late, and port 6,
  which is pin 16; two events, enough to overlap on a port; a day of 2 hours of 2
  minutes with an interval within the day and one over midnight, and an event for a port that
  does not exist; setpin values 1, 2, which pin 16 takes for low, and 256, which is 0 in the
  code's `bool`. The same instance serves safety and liveness. `MCEventEnd` adds a history
  variable to it, with one event.
* `Settings`: one value per field that differs from the defaults, and two for the
  port, because 0 is treated apart; two networks, so that an SSID of one could meet a password of the
  other. Of a sector being erased nothing, the magic number, the SSID and the events, all but the
  magic number, or
  all may be gone; `SettingsProofs` has any sets.
* `Network` with `Sntp`: the code's delays in seconds; at most `MAX_CHAINS` = 3 entries and
  lookups *after an answer that found nothing to cancel*: only such an answer adds a chain,
  and a second and third one show what the others would. 3 tries, a first, one between and a
  last one: `counter` is only counted up and compared. Two zones, so that one can be stored
  while the other is in use.
* `Rest`: the code's sizes, 8 ports, 10 events and 2048 bytes, since `RepliesAreWhole` is about
  them. Every URL of up to three tokens over `/`, a command and a number, each command of the
  table as `RestAPI.c` documents it, fields missing, empty and in excess, and for each array a
  request that just fits or just does not: names of 11 and 12 characters, numbers of 8, an index
  one too high. Three devices, as said above; the events stored before have the widest values that
  their fields hold.
  `RestProofs` has any words and URLs, any devices, and any sizes for which the longest answers fit.
* `EspFs`: up to 4 of 7 files, whose names and sizes fall on and off a word, one empty, one
  that does not get smaller, one that takes the decoder several turns, two paths of one name, one
  name of 256 characters, which `namebuf` does not hold;
  reads of 3, 16 and 64 bytes, so shorter, as long and longer than what the decoder takes.
  The header's `nameLen` is 16 bits wide, but `main` reads names into 1024 bytes, and sizes have
  32 bits in the header; neither width is in the model.
* `TimeUtils`: every day of the 24855 that `time_t` has, at the seconds where a day,
  an hour or a minute begins or ends, in zones on both sides of GMT; `TimeProofs` has all
  seconds and zones. `DaysAssumption` keeps the calendar within `time_t`.
* `MainLoop`: 64 ticks for the counter and 20 for the period, neither dividing the
  other evenly, gaps of up to 7; all offsets of the two are reached.

`CHECK_DEADLOCK FALSE` is set where a model may stop: clients of `Httpd` connect
once each, `TimeUtils` ends with its last day, and `Rest` with a request that makes the code
leave an array.

### Fairness

* `Outputs`: `OneSecLoop` runs again and again (`MainLoop`'s `RunsForever`), and an
  `os_timer` that is armed fires. A timer that is armed anew again and again
  need not, so `OpenCloses` is stated for executions in which the opening ends.
* `Network`: an armed timer fires, lwIP's timeouts do, and DNS reports an end of each
  lookup. Of the rest the code can only hope: that memory for the client's control block is
  found at some check of a connected network, that of the requests of a client that goes on
  asking some get answered, and that some answers arrive. The last two are strong fairness,
  and an assumption about the network. Joining is not fair, so `ServerComesUp` needs no access
  point. The hypothesis of `StationRecovers` is that a station which again and again has been
  left alone for `MAX_TRIES - 1` failed checks does join: it needs all the time that one attempt
  can get, so that it would be lost if `counter` were not set back when the check gives up.
  `ZoneIsApplied` and `ClockIsRefreshed` assume that the connection stays in the end.
* `MainLoop`: the SDK delivers a message that was posted.
* `Httpd`, `Settings`, `Rest` and `EspFs` are checked for safety only; a command or a read
  is over when its callback is. That a slot is given back once
  the SDK has closed its connection is `NoSlotLeaks`; that it closes an idle one
  after a while is its own promise.

### Findings

1. `httpd_alias`: `httpdReconCb` (`server.c:355`) does not retire the slot of a
   connection that was reset. When the SDK uses its control block again the new
   connection's callbacks find the dead connection's slot.
2. `outputs_eventend`: `OneSecLoop` (`RestAPI.c:147`) lowers a temporary only if it
   is not 1, that is never, so a port an event has raised stays high after its end.
3. `timeutils_first`: `get_year` and `get_month` (`time_utils.c:20-37`) compare with
   `>`; at 00:00:00 on the first of a month the date is e.g. 01/32.

Seen while modelling, without a run of their own:

* `ip/setpin` with an even value other than 0 on pin 16 reports 1 and drives 0,
  since `gpio16_output_set` keeps the lowest bit only. Ports 1 and 7 never drive anything:
  `stdout.c:35` leaves the pad of GPIO1 to the UART, and GPIO7's is the flash chip's
  (`RestAPI.c:69-72` switches only GPIO12 to 15). `ReportedLevelIsDriven` names both exceptions.
* Of several ports opened within 3 s only the last is lowered, since all share `open_timer`
  (`RestAPI.c:589`); `ip/open` without a field opens port 6.
* The command list (`RestAPI.c:33`, `:50`) allows names of 20 characters. `doGetPorts` prints each port
  into `buff[50]` (`RestAPI.c:244`), which 12 characters and a pin of two digits overrun, and a name
  of 20 has no zero behind it (`RestAPI.c:284`).
* `initFlash` names two ports of a new device and leaves the others as erased: until `ip/initialize`
  or `ip/portinfo` `ip/status` and `ip/portsinfo` print names that have no end. Pins and types of
  such ports are -1.
* Of other arrays: `ip/sntp` and `ip/wifiport` put the value into `buff[10]` with two quotes
  (`RestAPI.c:293`, `:611`), so 8 digits are too many; the first field of every URL is copied into
  `param[30]`, the field of a number into 10 to 50 characters; event and port numbers are not
  compared with the sizes of the tables.
* When only the magic number is lost, `ReadFromFlash` takes the device for a new one:
  `initFlash`, "demo data for new devices" (`user_main.c:240`), then replaces ports, time zone and server
  port of a device that has its network and its events still, and stores the mixture.
* `sntp_retry` doubles 3, 6, 12, 24 s and stays at 24: the maximum of 30 of the comment
  at `sntp.c:171` is never reached.
* Late answers can leave the SNTP client with more than one chain of requests for
  good: "packet received: stop retry timeout" (`sntp.c:447`) stops one of each kind.
* `ip/event` stores neither the days nor the repetition its URL may name: the line is commented
  out in `doSetEvent`.
* The list of commands at the top of `RestAPI.c` has `ip/portinfo/portname`, where the
  code wants a number before the name; `ip/time`, `ip/getwifi` and `ip/setwifi` answer with
  `application/json` and bodies that are not JSON; `ip/setpin` without fields lowers port 0.
* In `mkespfsimage` the test of an option assigns (`main.c:159`), so `-c 1` gives no
  compression either; files of no bytes are left out of the image.
* `espFsRead` (`espfs.c_:195`) takes a compressed file as read when nothing is left to feed the
  decoder, though it may hold bytes for which the caller had no room; these are
  lost. `ReadsAreContent` therefore says only that a short read has nothing of the *stored* file left.
* `counter` of the network check is not reset by success, so after a loss a connection may be torn
  down at the first failed check (`StationRecovers` is what is left), and every fourth year is a
  leap year to `IS_LEAP`, which is right until 28 February 2100.

## 4. The proofs

Proofs hold for all values of the constants under the assumptions named in the modules, which
TLC evaluates in the runs: `PoolAssumption` and `NullAssumption` (`Httpd`), `PortsAssumption`,
`EventsAssumption` and `ClockAssumption` (`Outputs`), `ChoicesAssumption` (`Settings`),
`TimeoutAssumption` (`Sntp`), `NetworkAssumption`, `LoopAssumption`, `DaysAssumption`
(`TimeUtils`), `SizesAssumption`, `WordsAssumption`, `LinesAssumption` and `StoredAssumption`
(`Rest`), `FilesAssumption`, `CharsAssumption`, `LengthsAssumption` and `AskedAssumption` (`EspFs`).
Some of them say more than that a constant is a number or a set of the right type. `SizesAssumption`
holds of the code's sizes: the longest answers of `ip/status` and `ip/events` fit into the send
buffer. `WordsAssumption`: separators are no numerals, and the commands and the default name
have the lengths they have. `StoredAssumption`: what earlier runs left in RAM has the types of the struct; names
fill at most their array, and the port is not 0, since `ReadFromFlash` corrects that one.
`FilesAssumption` says of
heatshrink that it makes at least a byte of data of a file, behind the one with its parameters,
and of `find` that it spells a path in one of three ways. `AskedAssumption`: only names that fit
`namebuf` are asked for. `LoopAssumption`: no callback holds the task up for more than a turn of
the counter less the period. What clients pass to `ip/setpin` and `ip/event` is any integer.

| Theorem | States | Argument |
|---|---|---|
| `TypeCorrect` | `Httpd` `TypeOK` | inductive |
| `AcceptedAlwaysHasSlot` | `AcceptedHasSlot` | from `HasSlot` ("some slot holds the block"), inductive even with resets; `FoundHolds`: the scan finds one if there is one |
| `LookupCorrect`, `PoolNeverLeaks` | `LookupFindsOwnSlot`, `NoSlotLeaks`, if `Interrupted = FALSE` | `PoolInv`, below |
| `PoolImplementsService` | `ServesClients`, if `Interrupted = FALSE`: the refinement of `ConnService` | `PoolInv` and `HeadInv`, below |
| `TimeInsideCorrect` | `TimeInsideIsInterval` | from `TypeOK`: the clock is the minute of the time the scheduler reads (`NowIsClock`), all minutes are in the day (`MinuteInDay`), so at most one difference wraps |
| `OutputsTypeCorrect` | `TypeOK` | inductive |
| `StatusCorrect`, `FlipCorrect` | `ReportedLevelIsDriven`, `FlipInvertsReported` | `OutputsInv`, below |
| `OneOpenTimed` | `OneOpenIsTimed` | inductive: every writer takes a port out of `open`, but the scheduler, which lowers none (`ScheduledKeepsHigh`) |
| `SettingsTypeCorrect` | `Settings` `TypeOK` | inductive |
| `SettingsAreStored`, `NoMixture`, `CompletedWritesStay` | `FlashHoldsSettings`, `NeverMixesGenerations`, `CompletedWriteStays` | `SettingsInv`, below |
| `StationIsStored` | `CompiledInNeverUsed` | `SettingsInv`: RAM is valid when the station is configured; `CompiledIsNoValue`: no client can store what is compiled in |
| `SntpTypeCorrect`, `ClientNeverSilent` | `TypeOK`, `NeverSilent` | inductive |
| `ClientHasOneChain` | `OneChain` | `ChainInv`, below |
| `NetTypeCorrect` | `NetTypeOK` | inductive |
| `NetworkRunsClient` | `NetSpec => Spec`: the composition implements the client | `ClientStep`: all that the network does to the client is `sntp_init` with one of the zones |
| `ClientInNetwork` | `TypeOK`, `NeverSilent`, `OneChain` of `NetSpec` | the three theorems on the client, by `NetworkRunsClient` |
| `ClockWaitsForServer` | `ClockNeedsServer` | `Quiet`: before there is a server nothing is pending that could start the clock, so none of the client's actions is possible |
| `LoopTypeCorrect` | `LoopTypeOK` | inductive |
| `LoopRunsOnTime` | `RunsOnTime` | `LoopInv`, below |
| `ScheduledCorrect` | `ScheduledIsLoop` | `EntryRaises`: after n events the temporaries are `TmpAfter(n)`, in closed form; induction over the table |
| `LocalTimeCorrect` | `LocalTimeIsRight` | `CalendarInv`, below |
| `GetValueIsRight`, `GetValueCorrect` | `getValue` is the field, of any string; `GetValueIsField` | `ScanInv`, below |
| `RestTypeCorrect`, `RepliesWhole`, `RequestsAnswered` | `Rest` `TypeOK`, `RepliesAreWhole`, `EachRequestAnswered` | `RestInv`, below |
| `FieldsStored` | `FieldsInTheirPlace` | `PlacedInv`, below |
| `QueriesHarmless` | `QueriesChangeNothing` | from `GetValueIsRight`: what a query's URL leaves out `getValue` returns as -1, and no command of it stores anything |
| `ImageIsAligned` | `IsAligned` | `ImageInv`, below |
| `OpenIsRight` | `OpenFindsFirst` | `ImageInv` and `HandleInv`, below |
| `ReadsAreRight`, `InflateEnds` | `ReadsAreContent`; the loop over the decoder ends | `HandleInv`, below |

* **`PoolInv`.** `LookupFindsOwnSlot` is not inductive: the step that frees a block
  must know that no slot still holds it. `SlotIsGiven` (a taken slot's connection was
  given that slot), `OpenHoldsItsSlot` and `BlockHasPeer` (a block is free exactly if it
  has no peer) say so. A reset breaks `SlotIsGiven`, which is finding 1.
* **`HeadInv`.** For the refinement one must know of a slot that is still receiving that
  its lines are its own client's and that nothing was executed for that client. The
  admission and the refusal need the number of clients held: `HeldAreTaken` gives a bijection from
  the slots taken, and by `FullIsFull` the service is full just when the scan finds no
  free slot. Every other callback gives up those clients that lose their slot, perhaps none
  (`ReleaseStep`).
* **`OutputsInv`.** A port's level also depends on its being an output and on its pad; so the
  invariant adds that no bit is set in `GPIO_OUT` which is not enabled (`RegistersAgree`), and that
  the pads and pin 16 are switched once the server listens (`PadsSwitched`): before, the
  registers agree with `portsVal` but drive nothing. `WriteAgrees` shows it for one write, which
  all actors share; `even` remembers when the latch cannot agree.
* **`SettingsInv`.** `WriteInv` ties flash to the position in the write: the fields
  before `next` hold the new value, those after are lost. `NeverMixesGenerations` compares with
  what was in flash when the last command came and with what that command asked for, which no restart
  changes; so the invariant must say of RAM, too, that it is one of them less what was lost
  while it is being written (`WritesGeneration`). A repair makes a new device's ports, zone and port of
  either of them, and of what it made already nothing new (`GenerationsClosed`): repairs cut off
  by further losses of power do not add up to a mixture.
* **`ChainInv`.** As long as no answer was late, exactly one thing is pending, and while
  that is a lookup no answer is under way; otherwise an answer arriving during the
  lookup would find nothing to cancel and add a second chain. `TypeOK` is split in
  truth values (`Flags`) and numbers (`Counts`), as no backend does both at once.
* **`LoopInv`.** The counter has moved on from `stime` by the time since the last
  `OneSecLoop`, modulo its width. `ElapsedIsSince`: the difference in that width is then the
  time itself, if less than once round, which `PERIOD + MAX_GAP < TIMER` ensures: a task held
  up for less than 71 minutes minus the period loses nothing.

* **`Recursion`.** The loops of the code are recursive functions here, and a recursive function is
  a `CHOOSE`. What it computes can be proved once a function that satisfies its equation is known
  to exist: for a counted loop by `LoopExists`, for one that lessens a measure by `WhileExists`.
  These are lemmas on functions, not on this code.
  Induction is stated with sets (a set that holds 0, and with a number the next, holds them
  all), since an induction rule with a predicate as parameter cannot be instantiated.
* **`ScanInv`.** What `getValue` has found in the first n characters, told by counting: `found` is
  the number of ends of fields among them, up to the one asked for, and `first` and `last` are
  the borders of the last field that was found. By `CommandedIsField` and its like all that a
  command reads of its URL is then a field.
* **`RestInv`.** Between two lines the send buffer is empty and what was sent last is the one reply of
  the command asked for, unless a line has made the code leave an array, which was then not a modest one.
  `ModestCommand` shows of each command that short fields and numbers in range keep within its arrays;
  `getValue` copies the last field of a URL in place of one that is missing (`CopiedIsField`), so that the
  fields that are there must be short, too. Each command adds up the lengths of its pieces, lists by
  induction over the ports or events. `PlacedInv` adds what was stored: the values of the
  fields of the line parsed last, in the entry that the URL names.
* **`CalendarInv`.** The number of the day is that of the days in the years, months and days of the date
  before it (`YearStart`, `MonthStart`, in closed form). `YearIs` and `MonthIs`: a loop that
  subtracts as long as more is left than a year (a month) has stops at the year whose start is
  the last one passed, which at 00:00:00 is the one before. That is finding 3, and why
  `LocalTimeIsRight` leaves that second out (`ToldRight`, `ToldEarly`).
* **`ImageInv`.** There is an address for each file listed, the end of the one before, from which on the
  image is exactly what `handleFile` wrote; it is a multiple of four, and the end mark follows the
  last. The reader rounds in another place than the tool: `RoundAdds` says that the next header is
  there all the same, and the walk finds it file by file (`WalkIs`). Addresses grow by at least a
  header, so the walk is a function by `WhileExists`.
* **`HandleInv`.** The handle is one of the file asked for (`FileInv`). Of a compressed file, what
  the decoder was fed are the file's bytes in order, from the second on, and all but the last 16
  of them have been polled (`FedInv`): the decoder is never given more than it has room for.
  `TurnKeeps` is that for a turn. `TurnProgress`: a turn feeds the decoder a byte or takes one from
  it, since a decoder that is full has bytes nobody has polled.

Only model-checked: all liveness (`EventRaisesPort`, `OpenCloses`, `ClockIsRefreshed`,
`ServerComesUp`, `ZoneIsApplied`, `StationRecovers`, `RunsForever`), which is out of the
prover's reach. Every invariant and every action property that a passing run checks is a
theorem; three of `Httpd` under the hypothesis of
no resets, as said above, under which the runs check them as well.

## 5. Not modelled

* `Content-Length`: it is read and only printed, since `postLen` is set to 0 whatever it says.
* Formatting beyond lengths: the text of JSON replies, the layout of dates, log output,
  the serial port; the options of `mkespfsimage`.
* The scan at start: it hands work to the SDK and keeps no state. `ip/scan` starts
  no scan; it answers like `ip/status`.
* The ThingSpeak client: `OneSecLoop` calls `ThingSpeak`, whose body is commented out.
* Failures of the flash calls, whose results the code ignores: what the SDK leaves in
  memory then is not in the sources.
* What becomes of the device when a request makes the code leave an array. `Rest` says which
  requests those are and ends there; `Outputs` and `Settings` take the commands that keep within.
* What `initmDNS` does: it allocates its record anew at each check of a connected network.
* What an `espFsOpen` of a name that `namebuf` does not hold compares with.
* Code that nothing reaches: the input side of `gpio16.c`, and the receive interrupt of
  `uart.c`, since the call of `uart_init` is commented out.
* Adafruit display library (third-party, not called), heatshrink (third-party, external in
  `EspFs`), lwIP and SDK (external). These headers and libraries are most of the lines
  under `src/user`; the firmware's own code is modelled but for what this section names.

## 6. Plan

Written first, because most depends on them: `Httpd` with `ConnService`, `Outputs`,
`Settings`, then `Sntp`, `TimeUtils`, `Network`, `MainLoop`; then the composition of
`Network` and `Sntp`, `Rest`, `EspFs`; and the proofs, in the order of the table above. What is
left:

1. The clock of `Outputs` driven by the client's own steps instead of `Sync` and `SetZone`.
2. The order of the scan in `PoolImplementsService` with resets: what of the service is left
   when a slot is lost for good.
