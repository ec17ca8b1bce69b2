------------------------------ MODULE Settings ------------------------------
(***************************************************************************)
(* The settings of the device: the copy in RAM that the commands change,   *)
(* the copy in flash, and the way from one to the other (flash_write,      *)
(* ReadFromFlash and user_init of src/user/user_main.c, and the commands   *)
(* of src/user/RestAPI.c that change a setting).                           *)
(*                                                                         *)
(* Nothing interrupts a command but a loss of power.  flash_write erases   *)
(* the sector and then programs it from its first byte to its last, so it  *)
(* is the one operation that is broken into steps; everything else is a    *)
(* single action.                                                          *)
(*                                                                         *)
(* The settings are fields in the order in which the struct FlashData lays *)
(* them out.  Ports[0] and Ports[1], which initFlash overwrites, are the   *)
(* field "ports", the others, which it does not, are "morePorts".          *)
(***************************************************************************)
EXTENDS Integers, Sequences

CONSTANTS
    Networks,       \* bound: the <<SSID, password>> that clients store
    Choices,        \* bound: [other field -> values that clients set it to]
    Losses          \* bound: the sets of fields that an erasure which is cut off
                    \* may have destroyed; any subset of Fields

Layout == <<"magic", "ssid", "password", "events", "ports", "morePorts",
            "SNTP", "ServerPort">>

Fields == {Layout[i] : i \in 1..Len(Layout)}

MAGIC_NUM == "MAGIC_NUM"    \* the magic number
ZERO == "zero"              \* all bytes 0, as .bss is at power on
LOST == "lost"              \* erased, partly erased or partly programmed
COMPILED == "compiled in"   \* SSID and SSID_PASSWORD of common.h

Chosen == (UNION {Choices[f] : f \in DOMAIN Choices})
              \cup (UNION {{n[1], n[2]} : n \in Networks})

ASSUME ChoicesAssumption ==
    /\ DOMAIN Choices = Fields \ {"magic", "ssid", "password"}
    /\ Chosen \cap {MAGIC_NUM, LOST, COMPILED} = {}

VARIABLES
    pc,             \* "off", "erase", "program", "station" or "idle"
    back,           \* where flash_write returns to
    next,           \* the field that is being programmed, a position in Layout
    ram,            \* [Fields -> value], *flashData
    flash,          \* [Fields -> value], the sector at 16r3c000
    station,        \* what the Wi-Fi station was configured with at boot
    source,         \* history: what flash was last programmed with, or erased of
    whole,          \* history: the last write was completed
    before,         \* history: what flash held when the last command came;
                    \* asked, once the command's write is completed
    asked           \* history: the settings as that command left them

write == <<source, whole>>
command == <<before, asked>>
vars == <<pc, back, next, ram, flash, station, write, command>>

Init ==
    /\ pc = "off"
    /\ back = "station"
    /\ next = 1
    /\ ram = [f \in Fields |-> ZERO]
    /\ flash = [f \in Fields |-> LOST]
    /\ station = <<ZERO, ZERO>>
    /\ source = flash
    /\ whole = TRUE
    /\ before = flash
    /\ asked = flash

-----------------------------------------------------------------------------
(* flash_write. *)

StartWrite(return) ==
    /\ pc' = "erase"
    /\ back' = return
    /\ source' = flash
    /\ whole' = FALSE

\* Mutant: the sector is not erased first.
SectorKept == UNCHANGED flash

SectorErased == flash' = [f \in Fields |-> LOST]

\* spi_flash_erase_sector.
Erase ==
    /\ pc = "erase"
    /\ pc' = "program"
    /\ next' = 1
    /\ SectorErased
    /\ source' = ram
    /\ UNCHANGED <<back, ram, station, whole, command>>

\* Mutants: the size written is one field too small, or too large.
LastProgrammedShort == Len(Layout) - 1
LastProgrammedPast == Len(Layout) + 1

LastProgrammed == Len(Layout)

\* spi_flash_write, one field at a time.
Program ==
    /\ pc = "program"
    /\ flash' = [flash EXCEPT ![Layout[next]] = ram[Layout[next]]]
    /\ IF next = LastProgrammed
       THEN /\ pc' = back
            /\ whole' = TRUE
            /\ before' = IF back = "idle" THEN asked ELSE before
            /\ next' = 1
       ELSE /\ next' = next + 1
            /\ UNCHANGED <<pc, whole, before>>
    /\ UNCHANGED <<back, ram, station, source, asked>>

-----------------------------------------------------------------------------
(* ReadFromFlash. *)

InitialPorts == "factory"
InitialSNTP == "3"
InitialServerPort == "80"
ServerPortZero == "0"

\* initFlash, "demo data for new devices" (user_main.c:240): the fields it does
\* not name keep what was read.
initFlash(m) ==
    [m EXCEPT !["magic"] = MAGIC_NUM,
              !["ports"] = InitialPorts,
              !["SNTP"] = InitialSNTP,
              !["ServerPort"] = InitialServerPort]

\* A port of 0 in flash is read as 80, in RAM only.
PortFixed(m) ==
    IF m["ServerPort"] = ServerPortZero
    THEN [m EXCEPT !["ServerPort"] = InitialServerPort] ELSE m

\* Mutant: flash that is not valid is left alone.
ReadFromFlashOnly(return) ==
    /\ ram' = PortFixed(flash)
    /\ pc' = return
    /\ UNCHANGED <<back, write>>

ReadFromFlash(return) ==
    IF flash["magic"] = MAGIC_NUM
    THEN /\ ram' = PortFixed(flash)
         /\ pc' = return
         /\ UNCHANGED <<back, write>>
    ELSE /\ ram' = initFlash(flash)
         /\ StartWrite(return)

-----------------------------------------------------------------------------
(* user_init: initFlash on RAM, all of which ReadFromFlash overwrites; then *)
(* the configuration of the station.                                        *)

Boot ==
    /\ pc = "off"
    /\ ReadFromFlash("station")
    /\ UNCHANGED <<next, flash, station, command>>

SetStation ==
    /\ pc = "station"
    /\ pc' = "idle"
    /\ station' = IF ram["magic"] # MAGIC_NUM THEN <<COMPILED, COMPILED>>
                  ELSE <<ram["ssid"], ram["password"]>>
    /\ UNCHANGED <<back, next, ram, flash, write, command>>

-----------------------------------------------------------------------------
(* The commands; each one ends before the next callback runs. *)

\* Mutant: the command answers without writing to flash.
ChangeInRam(m) ==
    /\ pc = "idle"
    /\ ram' = m
    /\ UNCHANGED <<pc, back, next, flash, station, write, command>>

Change(m) ==
    /\ pc = "idle"
    /\ ram' = m
    /\ StartWrite("idle")
    /\ before' = flash
    /\ asked' = m
    /\ UNCHANGED <<next, flash, station>>

doSetWifi(ssid, password) ==
    Change([ram EXCEPT !["ssid"] = ssid, !["password"] = password,
                       !["magic"] = MAGIC_NUM])

doSetEvent(v) == Change([ram EXCEPT !["events"] = v])

\* ip/portinfo, for one of the first two ports and for one of the others.
doSetPorts(v) == Change([ram EXCEPT !["ports"] = v])
doSetMorePorts(v) == Change([ram EXCEPT !["morePorts"] = v])

\* Without a value in the URL, ip/sntp and ip/wifiport change nothing.
doSNTP(v) == Change([ram EXCEPT !["SNTP"] = v])

doWifiport(v) == Change([ram EXCEPT !["ServerPort"] = v])

DefaultNames == "Output names"
DefaultEvents == "no events"

doInitialize ==
    Change([ram EXCEPT !["SNTP"] = InitialSNTP,
                       !["ServerPort"] = InitialServerPort,
                       !["ports"] = DefaultNames,
                       !["morePorts"] = DefaultNames,
                       !["events"] = DefaultEvents])

\* ip/getwifi reads flash again.
doGetWifi ==
    /\ pc = "idle"
    /\ ReadFromFlash("idle")
    /\ UNCHANGED <<next, flash, station, command>>

-----------------------------------------------------------------------------
(* Loss of power: RAM is lost, and what is being erased or programmed is    *)
(* left in any state between the one before and the one after.              *)

Off ==
    /\ pc' = "off"
    /\ ram' = [f \in Fields |-> ZERO]
    /\ next' = 1
    /\ station' = <<ZERO, ZERO>>
    /\ UNCHANGED <<back, write, command>>

PowerLoss ==
    /\ pc \in {"idle", "station"}
    /\ Off
    /\ UNCHANGED flash

PowerLossErasing ==
    /\ pc = "erase"
    /\ Off
    /\ \E S \in Losses :
           flash' = [f \in Fields |-> IF f \in S THEN LOST ELSE flash[f]]

PowerLossProgramming ==
    /\ pc = "program"
    /\ Off
    /\ flash' \in {flash, [flash EXCEPT ![Layout[next]] = LOST]}

Next ==
    \/ Erase
    \/ Program
    \/ Boot
    \/ SetStation
    \/ \E n \in Networks : doSetWifi(n[1], n[2])
    \/ \E v \in Choices["events"] : doSetEvent(v)
    \/ \E v \in Choices["ports"] : doSetPorts(v)
    \/ \E v \in Choices["morePorts"] : doSetMorePorts(v)
    \/ \E v \in Choices["SNTP"] : doSNTP(v)
    \/ \E v \in Choices["ServerPort"] : doWifiport(v)
    \/ doInitialize
    \/ doGetWifi
    \/ PowerLoss
    \/ PowerLossErasing
    \/ PowerLossProgramming

Spec == Init /\ [][Next]_vars

-----------------------------------------------------------------------------
Value ==
    {MAGIC_NUM, ZERO, LOST, InitialPorts, InitialSNTP, InitialServerPort,
     DefaultNames, DefaultEvents}
    \cup Chosen

TypeOK ==
    /\ pc \in {"off", "erase", "program", "station", "idle"}
    /\ back \in {"station", "idle"}
    /\ next \in 1..Len(Layout)
    /\ ram \in [Fields -> Value]
    /\ flash \in [Fields -> Value]
    /\ station \in (Value \cup {COMPILED}) \X (Value \cup {COMPILED})
    /\ source \in [Fields -> Value]
    /\ whole \in BOOLEAN
    /\ before \in [Fields -> Value]
    /\ asked \in [Fields -> Value]

\* While the device serves requests, flash holds the settings it works with: a
\* restart at that moment comes back to them.  The one difference is a server
\* port of 0, which is stored as 0 and read as 80.
FlashHoldsSettings ==
    pc = "idle" => flash["magic"] = MAGIC_NUM /\ PortFixed(ram) = PortFixed(flash)

\* What is left of settings after losses of power: part of it is erased.
RestOf(m, whole_m) == \A f \in Fields : m[f] \in {whole_m[f], LOST}

\* The settings that a restart may find: those from before the last command, or
\* those it asked for.  If the magic number was lost, ReadFromFlash takes the
\* device for a new one and writes either of them back with the ports, the time
\* zone and the server port of a new device.
Generations == {before, asked, initFlash(before), initFlash(asked)}

\* However many losses of power come, and in whichever of the writes by which the
\* device repairs flash while it starts, what flash holds are the settings of one
\* generation, but for what was lost: never an SSID of one with a password or the
\* events of another, and nothing older than the last command.
NeverMixesGenerations == \E g \in Generations : RestOf(flash, g)

\* Once a write has been completed, what it wrote stays through any number of
\* restarts until the next write begins.
CompletedWriteStays == whole => flash = source

\* The SSID and password compiled into the firmware are never used: the branch
\* of user_init that does needs a magic number that ReadFromFlash repairs.
CompiledInNeverUsed == COMPILED \notin {station[1], station[2]}
=============================================================================
