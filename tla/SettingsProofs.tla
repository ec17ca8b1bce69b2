--------------------------- MODULE SettingsProofs ---------------------------
(***************************************************************************)
(* Proofs about the settings in flash, for every set of values the clients *)
(* choose from and any losses of power.                                    *)
(***************************************************************************)
EXTENDS Settings, TLAPS

\* The eight fields and their positions in the sector.
LEMMA LayoutFacts ==
    /\ Len(Layout) = 8
    /\ \A i \in 1..8 : Layout[i] \in Fields
    /\ \A i, j \in 1..8 : Layout[i] = Layout[j] => i = j
    /\ \A f \in Fields : \E i \in 1..8 : f = Layout[i]
    /\ Fields = {"magic", "ssid", "password", "events", "ports", "morePorts",
                 "SNTP", "ServerPort"}
<1>1. Len(Layout) = 8
    BY DEF Layout
<1>2. /\ Layout[1] = "magic" /\ Layout[2] = "ssid" /\ Layout[3] = "password"
      /\ Layout[4] = "events" /\ Layout[5] = "ports" /\ Layout[6] = "morePorts"
      /\ Layout[7] = "SNTP" /\ Layout[8] = "ServerPort"
    BY DEF Layout
<1>3. \A i \in 1..8 : Layout[i] \in Fields
    BY <1>1 DEF Fields
<1>4. \A f \in Fields : \E i \in 1..8 : f = Layout[i]
    BY <1>1 DEF Fields
<1>5. 1..8 = {1, 2, 3, 4, 5, 6, 7, 8}
    OBVIOUS
<1>6. \A i, j \in 1..8 : Layout[i] = Layout[j] => i = j
    BY <1>2, <1>5
<1>7. Fields = {"magic", "ssid", "password", "events", "ports", "morePorts",
                "SNTP", "ServerPort"}
    BY <1>2, <1>3, <1>4, <1>5
<1>. QED BY <1>1, <1>3, <1>4, <1>6, <1>7

-----------------------------------------------------------------------------
(* Types. *)

\* A copy of the settings, and what commands and ReadFromFlash make of one.
Copy == [Fields -> Value]

LEMMA CopyTypes ==
    ASSUME NEW m \in Copy
    PROVE  /\ initFlash(m) \in Copy
           /\ PortFixed(m) \in Copy
<1>1. {MAGIC_NUM, InitialPorts, InitialSNTP, InitialServerPort} \subseteq Value
    BY DEF Value
<1>. QED BY <1>1 DEF Copy, initFlash, PortFixed

LEMMA SettingsTypeInit == Init => TypeOK
BY LayoutFacts DEF Init, TypeOK, Value

LEMMA TypeChange ==
    ASSUME TypeOK, NEW m \in Copy, Change(m)
    PROVE  TypeOK'
BY DEF Change, StartWrite, Copy, TypeOK, command, write

LEMMA TypeRead ==
    ASSUME TypeOK, NEW return \in {"station", "idle"}, ReadFromFlash(return)
    PROVE  /\ ram' \in Copy
           /\ pc' \in {"erase", "station", "idle"}
           /\ back' \in {"station", "idle"}
           /\ source' \in Copy
           /\ whole' \in BOOLEAN
<1>1. flash \in Copy /\ source \in Copy
    BY DEF TypeOK, Copy
<1>. QED BY <1>1, CopyTypes DEF ReadFromFlash, StartWrite, TypeOK, write

LEMMA ChosenValues ==
    /\ \A f \in Fields \ {"magic", "ssid", "password"} : Choices[f] \subseteq Value
    /\ \A n \in Networks : n[1] \in Value /\ n[2] \in Value
<1>1. Chosen \subseteq Value
    BY DEF Value
<1>2. ASSUME NEW f \in Fields \ {"magic", "ssid", "password"}
      PROVE  Choices[f] \subseteq Chosen
    BY ChoicesAssumption DEF Chosen
<1>3. ASSUME NEW n \in Networks PROVE n[1] \in Chosen /\ n[2] \in Chosen
    <2>1. {n[1], n[2]} \in {{m[1], m[2]} : m \in Networks}
        OBVIOUS
    <2>2. {n[1], n[2]} \subseteq UNION {{m[1], m[2]} : m \in Networks}
        BY <2>1
    <2>. QED BY <2>2 DEF Chosen
<1>. QED BY <1>1, <1>2, <1>3

\* What each command makes of the settings.
LEMMA TypeCommands ==
    ASSUME TypeOK
    PROVE  /\ \A f \in Fields \ {"magic", "ssid", "password"} : \A v \in Choices[f] :
                  [ram EXCEPT ![f] = v] \in Copy
           /\ \A n \in Networks :
                  [ram EXCEPT !["ssid"] = n[1], !["password"] = n[2],
                              !["magic"] = MAGIC_NUM] \in Copy
           /\ [ram EXCEPT !["SNTP"] = InitialSNTP,
                          !["ServerPort"] = InitialServerPort,
                          !["ports"] = DefaultNames,
                          !["morePorts"] = DefaultNames,
                          !["events"] = DefaultEvents] \in Copy
<1>1. ram \in Copy
    BY DEF TypeOK, Copy
<1>2. {MAGIC_NUM, InitialSNTP, InitialServerPort, DefaultNames, DefaultEvents} \subseteq Value
    BY DEF Value
<1>. QED BY <1>1, <1>2, ChosenValues DEF Copy

LEMMA SettingsTypeNext == TypeOK /\ [Next]_vars => TypeOK'
<1>. SUFFICES ASSUME TypeOK, [Next]_vars PROVE TypeOK'
    OBVIOUS
<1>1. CASE Erase
    <2>1. flash' \in Copy
        BY <1>1 DEF Erase, SectorErased, Copy, Value
    <2>. QED BY <1>1, <2>1, LayoutFacts DEF Erase, Copy, TypeOK, command
<1>2. CASE Program
    <2>1. next \in 1..8 /\ Layout[next] \in Fields
        BY LayoutFacts DEF TypeOK
    <2>2. flash' \in Copy
        BY <1>2, <2>1 DEF Program, Copy, TypeOK
    <2>3. next' \in 1..8
        BY <1>2, <2>1, LayoutFacts DEF Program, LastProgrammed
    <2>4. before' \in Copy
        BY <1>2 DEF Program, Copy, TypeOK
    <2>. QED BY <1>2, <2>2, <2>3, <2>4, LayoutFacts DEF Program, Copy, TypeOK
<1>3. CASE Boot
    BY <1>3, TypeRead DEF Boot, Copy, TypeOK, command
<1>4. CASE SetStation
    <2>1. ram["ssid"] \in Value /\ ram["password"] \in Value
        BY LayoutFacts DEF TypeOK
    <2>. QED BY <1>4, <2>1 DEF SetStation, TypeOK, write, command
<1>5. ASSUME NEW n \in Networks, doSetWifi(n[1], n[2]) PROVE TypeOK'
    BY <1>5, TypeCommands, TypeChange DEF doSetWifi
<1>6. ASSUME NEW v \in Choices["events"], doSetEvent(v) PROVE TypeOK'
    BY <1>6, TypeCommands, TypeChange, LayoutFacts DEF doSetEvent
<1>7. ASSUME NEW v \in Choices["ports"], doSetPorts(v) PROVE TypeOK'
    BY <1>7, TypeCommands, TypeChange, LayoutFacts DEF doSetPorts
<1>8. ASSUME NEW v \in Choices["morePorts"], doSetMorePorts(v) PROVE TypeOK'
    BY <1>8, TypeCommands, TypeChange, LayoutFacts DEF doSetMorePorts
<1>9. ASSUME NEW v \in Choices["SNTP"], doSNTP(v) PROVE TypeOK'
    BY <1>9, TypeCommands, TypeChange, LayoutFacts DEF doSNTP
<1>10. ASSUME NEW v \in Choices["ServerPort"], doWifiport(v) PROVE TypeOK'
    BY <1>10, TypeCommands, TypeChange, LayoutFacts DEF doWifiport
<1>11. CASE doInitialize
    BY <1>11, TypeCommands, TypeChange DEF doInitialize
<1>12. CASE doGetWifi
    BY <1>12, TypeRead DEF doGetWifi, Copy, TypeOK, command
<1>13. CASE PowerLoss \/ PowerLossErasing \/ PowerLossProgramming
    <2>1. /\ ram' \in Copy /\ next' \in 1..8
          /\ station' \in (Value \cup {COMPILED}) \X (Value \cup {COMPILED})
        BY <1>13 DEF PowerLoss, PowerLossErasing, PowerLossProgramming, Off, Copy, Value
    <2>2. LOST \in Value
        BY DEF Value
    <2>3. flash' \in Copy
        BY <1>13, <2>2 DEF PowerLoss, PowerLossErasing, PowerLossProgramming, Copy, TypeOK
    <2>4. pc' = "off" /\ UNCHANGED <<back, write, command>>
        BY <1>13 DEF PowerLoss, PowerLossErasing, PowerLossProgramming, Off
    <2>. QED BY <2>1, <2>3, <2>4, LayoutFacts DEF Copy, TypeOK, write, command
<1>16. CASE UNCHANGED vars
    BY <1>16 DEF vars, write, command, TypeOK
<1>. QED BY <1>1, <1>2, <1>3, <1>4, <1>5, <1>6, <1>7, <1>8, <1>9, <1>10, <1>11,
            <1>12, <1>13, <1>16 DEF Next

\* Both copies of the settings, and the steps of a write, keep their types.
THEOREM SettingsTypeCorrect == Spec => []TypeOK
BY SettingsTypeInit, SettingsTypeNext, PTL DEF Spec

-----------------------------------------------------------------------------
(* Flash and RAM. *)

\* Flash holds the settings in RAM, and they are valid.
Stored == flash["magic"] = MAGIC_NUM /\ PortFixed(ram) = PortFixed(flash)

\* While a write is under way, RAM is valid, the fields before the one being
\* programmed are in flash, and the rest of flash is erased.
WriteInv ==
    /\ pc = "erase" => ram["magic"] = MAGIC_NUM /\ source = flash
    /\ pc = "program" =>
           /\ ram["magic"] = MAGIC_NUM
           /\ source = ram
           /\ \A i \in 1..8 : flash[Layout[i]] =
                  IF i < next THEN ram[Layout[i]] ELSE LOST

\* What a write brings to flash is of one generation too; a command writes what
\* it asked for, and a device that starts repairs what it found.
WritesGeneration ==
    /\ pc \in {"erase", "program"} => \E g \in Generations : RestOf(ram, g)
    /\ pc \in {"erase", "program"} /\ back = "idle" => ram = asked

\* The inductive invariant: what holds at rest, during a write, and of a write
\* that is over or was cut off.
SettingsInv ==
    /\ pc \in {"station", "idle"} => Stored
    /\ WriteInv
    /\ WritesGeneration
    /\ NeverMixesGenerations
    /\ CompletedWriteStays
    /\ pc \in {"erase", "program"} => ~whole

\* A port of 0 is all that PortFixed changes.
LEMMA PortFixedFacts ==
    ASSUME NEW m \in Copy
    PROVE  PortFixed(m)["magic"] = m["magic"] /\ PortFixed(PortFixed(m)) = PortFixed(m)
BY LayoutFacts DEF PortFixed, Copy, InitialServerPort, ServerPortZero

\* The generations stay as they are between two commands.
LEMMA SameGenerations ==
    ASSUME UNCHANGED command
    PROVE  Generations' = Generations
BY DEF command, Generations, initFlash

\* What is left of something left, and what a restart makes of the rest.
LEMMA RestFacts ==
    ASSUME NEW m \in Copy, NEW g \in Copy, RestOf(m, g)
    PROVE  /\ \A n : (\A f \in Fields : n[f] \in {m[f], LOST}) => RestOf(n, g)
           /\ RestOf(initFlash(m), initFlash(g))
<1>1. \A n : (\A f \in Fields : n[f] \in {m[f], LOST}) => RestOf(n, g)
    BY DEF RestOf
<1>2. ASSUME NEW f \in Fields PROVE initFlash(m)[f] \in {initFlash(g)[f], LOST}
    BY LayoutFacts DEF RestOf, initFlash, Copy
<1>. QED BY <1>1, <1>2 DEF RestOf

\* A restart makes a generation of every generation.
LEMMA GenerationsClosed ==
    ASSUME TypeOK, NEW g \in Generations
    PROVE  g \in Copy /\ initFlash(g) \in Generations
<1>1. before \in Copy /\ asked \in Copy
    BY DEF TypeOK, Copy
<1>2. \A m \in Copy : initFlash(m) \in Copy /\ initFlash(initFlash(m)) = initFlash(m)
    <2>. SUFFICES ASSUME NEW m \in Copy
                  PROVE  initFlash(m) \in Copy /\ initFlash(initFlash(m)) = initFlash(m)
        OBVIOUS
    <2>1. initFlash(m) \in Copy
        BY CopyTypes
    <2>. QED BY <2>1 DEF initFlash, Copy
<1>. QED BY <1>1, <1>2 DEF Generations

\* Flash that only loses something stays of its generation.
LEMMA StaysGeneration ==
    ASSUME TypeOK, NeverMixesGenerations, UNCHANGED command,
           \A f \in Fields : flash'[f] \in {flash[f], LOST}
    PROVE  NeverMixesGenerations'
<1>1. PICK g \in Generations : RestOf(flash, g)
    BY DEF NeverMixesGenerations
<1>2. RestOf(flash', g)
    BY <1>1 DEF RestOf
<1>. QED BY <1>1, <1>2, SameGenerations DEF NeverMixesGenerations, RestOf

LEMMA SettingsInvInit == Init => SettingsInv
BY LayoutFacts DEF Init, SettingsInv, WriteInv, WritesGeneration, NeverMixesGenerations,
                   Generations, RestOf, CompletedWriteStays

\* A command leaves RAM valid and begins a write.
LEMMA InvChange ==
    ASSUME TypeOK, SettingsInv, NEW m, m["magic"] = MAGIC_NUM, Change(m)
    PROVE  SettingsInv'
<1>1. /\ pc' = "erase" /\ ~whole' /\ source' = flash /\ flash' = flash
      /\ ram' = m /\ before' = flash /\ asked' = m
    BY DEF Change, StartWrite
<1>2. flash \in Generations' /\ m \in Generations'
    BY <1>1 DEF Generations
<1>3. NeverMixesGenerations' /\ WritesGeneration'
    BY <1>1, <1>2 DEF NeverMixesGenerations, WritesGeneration, RestOf
<1>. QED BY <1>1, <1>3 DEF SettingsInv, WriteInv, CompletedWriteStays

LEMMA InvRead ==
    ASSUME TypeOK, SettingsInv, NEW return \in {"station", "idle"},
           ReadFromFlash(return), flash' = flash, UNCHANGED command,
           \/ pc = "off" /\ return = "station"
           \/ pc = "idle" /\ return = "idle"
    PROVE  SettingsInv'
<1>0. flash \in Copy
    BY DEF TypeOK, Copy
<1>a. NeverMixesGenerations'
    BY StaysGeneration DEF SettingsInv
<1>1. CASE flash["magic"] = MAGIC_NUM
    <2>1. /\ ram' = PortFixed(flash)
          /\ pc' = return
          /\ UNCHANGED <<source, whole>>
        BY <1>1 DEF ReadFromFlash, write
    <2>2. PortFixed(ram') = PortFixed(flash')
        BY <1>0, <2>1, PortFixedFacts
    <2>3. Stored'
        BY <1>1, <2>2 DEF Stored, PortFixed
    <2>. QED BY <1>a, <2>1, <2>3 DEF SettingsInv, WriteInv, WritesGeneration,
                                    CompletedWriteStays
<1>2. CASE flash["magic"] # MAGIC_NUM
    <2>1. ram' = initFlash(flash) /\ StartWrite(return)
        BY <1>2 DEF ReadFromFlash
    <2>2. ram'["magic"] = MAGIC_NUM
        BY <1>0, <2>1, LayoutFacts DEF initFlash, Copy
    <2>3. return = "station"
        BY <1>0, <1>2, PortFixedFacts DEF SettingsInv, Stored
    <2>4. PICK g \in Generations : RestOf(flash, g)
        BY DEF SettingsInv, NeverMixesGenerations
    <2>5. RestOf(initFlash(flash), initFlash(g)) /\ initFlash(g) \in Generations
        BY <1>0, <2>4, GenerationsClosed, RestFacts
    <2>6. WritesGeneration'
        <3>1. RestOf(ram, initFlash(g))'
            BY <2>1, <2>5 DEF RestOf, initFlash
        <3>. QED BY <2>1, <2>3, <2>5, SameGenerations DEF WritesGeneration, StartWrite, RestOf, initFlash
    <2>. QED BY <1>a, <2>1, <2>2, <2>6 DEF StartWrite, SettingsInv, WriteInv,
                                          CompletedWriteStays
<1>. QED BY <1>1, <1>2

LEMMA InvErase ==
    ASSUME TypeOK, SettingsInv, Erase
    PROVE  SettingsInv'
<1>1. \A f \in Fields : flash'[f] = LOST
    BY DEF Erase, SectorErased
<1>2. /\ pc = "erase" /\ pc' = "program" /\ next' = 1
      /\ source' = ram /\ UNCHANGED <<back, ram, whole, command>>
    BY DEF Erase
<1>3. WriteInv'
    BY <1>1, <1>2, LayoutFacts DEF SettingsInv, WriteInv
<1>4. NeverMixesGenerations'
    BY <1>1, <1>2, StaysGeneration DEF SettingsInv
<1>5. WritesGeneration'
    BY <1>2, SameGenerations DEF SettingsInv, WritesGeneration, RestOf, command
<1>. QED BY <1>1, <1>2, <1>3, <1>4, <1>5 DEF SettingsInv, CompletedWriteStays

LEMMA InvProgram ==
    ASSUME TypeOK, SettingsInv, Program
    PROVE  SettingsInv'
<1>1. /\ pc = "program" /\ next \in 1..8 /\ Layout[next] \in Fields
      /\ flash' = [flash EXCEPT ![Layout[next]] = ram[Layout[next]]]
      /\ UNCHANGED <<ram, source, asked, back>>
      /\ source = ram /\ ram["magic"] = MAGIC_NUM
      /\ flash \in Copy /\ ram \in Copy
    BY LayoutFacts DEF Program, SettingsInv, WriteInv, TypeOK, Copy
<1>2. \A i \in 1..8 : flash'[Layout[i]] =
          IF i < next + 1 THEN ram[Layout[i]] ELSE LOST
    <2>. SUFFICES ASSUME NEW i \in 1..8
                  PROVE  flash'[Layout[i]] =
                             IF i < next + 1 THEN ram[Layout[i]] ELSE LOST
        OBVIOUS
    <2>0. Layout[i] \in Fields
        BY LayoutFacts
    <2>1. CASE i = next
        BY <1>1, <2>1 DEF Copy
    <2>2. CASE i # next
        <3>1. Layout[i] # Layout[next]
            BY <1>1, <2>2, LayoutFacts
        <3>2. flash'[Layout[i]] = flash[Layout[i]]
            BY <1>1, <2>0, <3>1 DEF Copy
        <3>3. flash[Layout[i]] = IF i < next THEN ram[Layout[i]] ELSE LOST
            BY <1>1 DEF SettingsInv, WriteInv
        <3>. QED BY <1>1, <2>2, <3>2, <3>3
    <2>. QED BY <2>1, <2>2
<1>3. \A f \in Fields : flash'[f] \in {ram[f], LOST}
    BY <1>2, LayoutFacts
<1>4. CASE next = LastProgrammed
    <2>1. /\ pc' = back /\ back \in {"station", "idle"}
          /\ before' = IF back = "idle" THEN asked ELSE before
        BY <1>4 DEF Program, TypeOK
    <2>2. \A f \in Fields : flash'[f] = ram[f]
        <3>1. next = 8
            BY <1>4, LayoutFacts DEF LastProgrammed
        <3>2. \A i \in 1..8 : flash'[Layout[i]] = ram[Layout[i]]
            BY <1>2, <3>1
        <3>. QED BY <3>2, LayoutFacts
    <2>3. flash' = ram
        BY <1>1, <2>2 DEF Copy
    <2>4. Stored'
        BY <1>1, <2>3 DEF Stored, PortFixed
    <2>5. NeverMixesGenerations'
        <3>1. CASE back = "idle"
            <4>1. ram = asked /\ asked' = asked
                BY <1>1, <3>1 DEF SettingsInv, WritesGeneration
            <4>. QED BY <2>3, <4>1 DEF NeverMixesGenerations, Generations, RestOf
        <3>2. CASE back # "idle"
            <4>1. UNCHANGED command
                BY <1>1, <2>1, <3>2 DEF command
            <4>2. PICK g \in Generations : RestOf(ram, g)
                BY <1>1 DEF SettingsInv, WritesGeneration
            <4>3. RestOf(flash', g)
                BY <2>3, <4>2 DEF RestOf
            <4>. QED BY <4>1, <4>2, <4>3, SameGenerations DEF NeverMixesGenerations, RestOf
        <3>. QED BY <3>1, <3>2
    <2>. QED BY <1>1, <2>1, <2>3, <2>4, <2>5
             DEF SettingsInv, WriteInv, WritesGeneration, CompletedWriteStays
<1>5. CASE next # LastProgrammed
    <2>1. next' = next + 1 /\ pc' = pc /\ whole' = whole /\ UNCHANGED command
        BY <1>1, <1>5 DEF Program, command
    <2>2. ~whole
        BY <1>1 DEF SettingsInv
    <2>3. WriteInv'
        BY <1>1, <1>2, <2>1 DEF WriteInv
    <2>4. PICK g \in Generations : RestOf(ram, g)
        BY <1>1 DEF SettingsInv, WritesGeneration
    <2>5. NeverMixesGenerations'
        <3>1. RestOf(flash', g)
            BY <1>3, <2>4 DEF RestOf
        <3>. QED BY <2>1, <2>4, <3>1, SameGenerations DEF NeverMixesGenerations, RestOf
    <2>6. WritesGeneration'
        BY <1>1, <2>1, <2>4, SameGenerations DEF SettingsInv, WritesGeneration, RestOf
    <2>. QED BY <1>1, <2>1, <2>2, <2>3, <2>5, <2>6 DEF SettingsInv, CompletedWriteStays
<1>. QED BY <1>4, <1>5

LEMMA InvPowerLoss ==
    ASSUME TypeOK, SettingsInv, PowerLoss \/ PowerLossErasing \/ PowerLossProgramming
    PROVE  SettingsInv'
<1>1. pc' = "off" /\ UNCHANGED <<source, whole, command>>
    BY DEF PowerLoss, PowerLossErasing, PowerLossProgramming, Off, write
<1>2. \A f \in Fields : flash'[f] \in {flash[f], LOST}
    BY DEF PowerLoss, PowerLossErasing, PowerLossProgramming, TypeOK
<1>3. NeverMixesGenerations'
    BY <1>1, <1>2, StaysGeneration DEF SettingsInv
<1>4. CASE PowerLoss
    BY <1>1, <1>3, <1>4 DEF PowerLoss, SettingsInv, WriteInv, WritesGeneration,
                            CompletedWriteStays
<1>5. CASE PowerLossErasing \/ PowerLossProgramming
    <2>1. ~whole
        BY <1>5 DEF PowerLossErasing, PowerLossProgramming, SettingsInv
    <2>. QED BY <1>1, <1>3, <2>1 DEF SettingsInv, WriteInv, WritesGeneration,
                                    CompletedWriteStays
<1>. QED BY <1>4, <1>5

LEMMA SettingsInvNext == TypeOK /\ SettingsInv /\ [Next]_vars => SettingsInv'
<1>. SUFFICES ASSUME TypeOK, SettingsInv, [Next]_vars PROVE SettingsInv'
    OBVIOUS
<1>0. pc = "idle" => ram["magic"] = MAGIC_NUM
    BY PortFixedFacts DEF SettingsInv, Stored, TypeOK, Copy
<1>a. ram \in Copy /\ "magic" \in Fields
    BY LayoutFacts DEF TypeOK, Copy
<1>1. CASE Boot \/ doGetWifi
    BY <1>1, InvRead DEF Boot, doGetWifi
<1>2. CASE SetStation
    <2>1. NeverMixesGenerations'
        BY <1>2, StaysGeneration DEF SetStation, SettingsInv
    <2>. QED BY <1>2, <2>1 DEF SetStation, SettingsInv, Stored, WriteInv, WritesGeneration,
                              CompletedWriteStays, write
<1>3. ASSUME NEW n \in Networks, doSetWifi(n[1], n[2]) PROVE SettingsInv'
    BY <1>3, <1>a, InvChange DEF doSetWifi, Copy
<1>4. ASSUME NEW f \in Fields \ {"magic"}, NEW v, Change([ram EXCEPT ![f] = v])
      PROVE  SettingsInv'
    <2>1. [ram EXCEPT ![f] = v]["magic"] = MAGIC_NUM
        BY <1>0, <1>a, <1>4 DEF Change, Copy
    <2>. QED BY <1>4, <2>1, InvChange
<1>5. CASE \/ \E v \in Choices["events"] : doSetEvent(v)
           \/ \E v \in Choices["ports"] : doSetPorts(v)
           \/ \E v \in Choices["morePorts"] : doSetMorePorts(v)
           \/ \E v \in Choices["SNTP"] : doSNTP(v)
           \/ \E v \in Choices["ServerPort"] : doWifiport(v)
    BY <1>4, <1>5, LayoutFacts DEF doSetEvent, doSetPorts, doSetMorePorts, doSNTP, doWifiport
<1>6. CASE doInitialize
    <2> DEFINE m == [ram EXCEPT !["SNTP"] = InitialSNTP,
                                !["ServerPort"] = InitialServerPort,
                                !["ports"] = DefaultNames,
                                !["morePorts"] = DefaultNames,
                                !["events"] = DefaultEvents]
    <2>1. m["magic"] = MAGIC_NUM /\ Change(m)
        BY <1>0, <1>a, <1>6 DEF doInitialize, Change, Copy
    <2>. QED BY <2>1, InvChange
<1>7. CASE UNCHANGED vars
    <2>1. NeverMixesGenerations'
        BY <1>7, StaysGeneration DEF vars, SettingsInv
    <2>2. WritesGeneration'
        BY <1>7, SameGenerations DEF vars, command, SettingsInv, WritesGeneration, RestOf
    <2>. QED BY <1>7, <2>1, <2>2 DEF vars, write, SettingsInv, Stored, WriteInv,
                                    CompletedWriteStays
<1>. QED BY <1>1, <1>2, <1>3, <1>5, <1>6, <1>7, InvErase, InvProgram, InvPowerLoss DEF Next

\* A device that serves requests has its settings in flash, whatever losses of
\* power came before.
THEOREM SettingsAreStored == Spec => []FlashHoldsSettings
<1>1. SettingsInv => FlashHoldsSettings
    BY DEF SettingsInv, Stored, FlashHoldsSettings
<1>. QED BY <1>1, SettingsTypeInit, SettingsTypeNext, SettingsInvInit, SettingsInvNext, PTL
         DEF Spec

\* Whatever losses of power cut off a write and the repairs that follow it, flash
\* holds no part of two generations of settings: what is not lost is that of before
\* the last command or that of after it, with the fields of a new device or not.
THEOREM NoMixture == Spec => []NeverMixesGenerations
<1>1. SettingsInv => NeverMixesGenerations
    BY DEF SettingsInv
<1>. QED BY <1>1, SettingsTypeInit, SettingsTypeNext, SettingsInvInit, SettingsInvNext, PTL
         DEF Spec

\* A write that was completed stays until the next one begins.
THEOREM CompletedWritesStay == Spec => []CompletedWriteStays
<1>1. SettingsInv => CompletedWriteStays
    BY DEF SettingsInv
<1>. QED BY <1>1, SettingsTypeInit, SettingsTypeNext, SettingsInvInit, SettingsInvNext, PTL
         DEF Spec

-----------------------------------------------------------------------------
\* No client can store the network that is compiled in.
LEMMA CompiledIsNoValue == COMPILED \notin Value
<1>1. COMPILED \notin Chosen
    BY ChoicesAssumption
<1>2. COMPILED \notin {MAGIC_NUM, ZERO, LOST, InitialPorts, InitialSNTP,
                      InitialServerPort, DefaultNames, DefaultEvents}
    BY DEF COMPILED, MAGIC_NUM, ZERO, LOST, InitialPorts, InitialSNTP,
           InitialServerPort, DefaultNames, DefaultEvents
<1>. QED BY <1>1, <1>2 DEF Value

\* Only SetStation configures the station, and it finds valid settings.
LEMMA StationStep ==
    TypeOK /\ SettingsInv /\ CompiledInNeverUsed /\ [Next]_vars => CompiledInNeverUsed'
<1>. SUFFICES ASSUME TypeOK, SettingsInv, CompiledInNeverUsed, [Next]_vars
              PROVE  CompiledInNeverUsed'
    OBVIOUS
<1>1. CASE SetStation
    <2>1. ram["magic"] = MAGIC_NUM
        BY <1>1, PortFixedFacts DEF SetStation, SettingsInv, Stored, TypeOK, Copy
    <2>2. ram["ssid"] \in Value /\ ram["password"] \in Value
        BY LayoutFacts DEF TypeOK
    <2>3. station' = <<ram["ssid"], ram["password"]>>
        BY <1>1, <2>1 DEF SetStation
    <2>. QED BY <2>2, <2>3, CompiledIsNoValue DEF CompiledInNeverUsed
<1>2. CASE UNCHANGED station
    BY <1>2 DEF CompiledInNeverUsed
<1>3. CASE Erase \/ Program \/ Boot \/ doGetWifi
    BY <1>2, <1>3 DEF Erase, Program, Boot, doGetWifi
<1>4. CASE PowerLoss \/ PowerLossErasing \/ PowerLossProgramming
    <2>1. station' = <<ZERO, ZERO>>
        BY <1>4 DEF PowerLoss, PowerLossErasing, PowerLossProgramming, Off
    <2>2. COMPILED # ZERO
        BY DEF COMPILED, ZERO
    <2>. QED BY <2>1, <2>2 DEF CompiledInNeverUsed
<1>5. ASSUME NEW m, Change(m) PROVE UNCHANGED station
    BY <1>5 DEF Change
<1>6. CASE \/ \E n \in Networks : doSetWifi(n[1], n[2])
           \/ \E v \in Choices["events"] : doSetEvent(v)
           \/ \E v \in Choices["ports"] : doSetPorts(v)
           \/ \E v \in Choices["morePorts"] : doSetMorePorts(v)
           \/ \E v \in Choices["SNTP"] : doSNTP(v)
           \/ \E v \in Choices["ServerPort"] : doWifiport(v)
           \/ doInitialize
    BY <1>2, <1>5, <1>6 DEF doSetWifi, doSetEvent, doSetPorts, doSetMorePorts, doSNTP,
                           doWifiport, doInitialize
<1>7. CASE UNCHANGED vars
    BY <1>2, <1>7 DEF vars
<1>. QED BY <1>1, <1>3, <1>4, <1>6, <1>7 DEF Next

\* The station is never configured for the network compiled into the firmware,
\* however often power fails while the settings are being written.
THEOREM StationIsStored == Spec => []CompiledInNeverUsed
<1>1. Init => CompiledInNeverUsed
    BY DEF Init, CompiledInNeverUsed, ZERO, COMPILED
<1>. QED BY <1>1, StationStep, SettingsTypeInit, SettingsTypeNext, SettingsInvInit,
            SettingsInvNext, PTL DEF Spec
=============================================================================
