# Verification of the MySensors gateway

TLA+ models of the gateway firmware in `app/`, of the MySensors library in
`libraries/MySensors/` that the gateway and the sensor nodes are built with, and
of the other libraries under `libraries/` with logic of their own; the TLC
configurations that check them, and TLAPS proofs of their main safety
properties. File names below are relative to the root of the repository.

## 1. The system

An ESP8266 runs the gateway. Its radio (nRF24L01) talks to battery nodes that
run the MySensors library; its WiFi side serves web pages and web sockets,
keeps the time, and talks to a controller (openHAB over MQTT, or a cloud
service). Everything in the gateway runs on one thread: timers, radio polling,
network callbacks and web requests are handlers that run to the end, so a
handler is one step of a model. The exceptions are the places where the
MySensors library waits: `wait()` and the nonce wait of `sendRoute` call
`process()` and with it any handler of an incoming message, in the middle of
the caller. A restart or a power failure may come at any moment.

| Component | State it keeps | Operations | What is hard about it |
|---|---|---|---|
| MyGateway (`app/MyGateway.cpp`) | table of sensors, flags of known node ids, `sensors.json`, counters | radio messages, web socket and web page commands, scripts, start | the table, the flags and the file are three copies that different handlers update; removal does not write the file; power loss while it is written |
| Node id assignment (`MySensor.cpp`, `MyGateway.cpp`) | id in RAM and EEPROM of every device, ids given away | request, broadcast answer, presentation, save | answers carry no name; requests and answers get lost or late; both sides restart |
| Mesh: choice of the parent (`MySensor.cpp`) | parent, distance, EEPROM, count of failures, search flag | `findParentNode`, pings, answers, `sendRoute` | `process()` is re-entered during a search and before an answer; distances are old when they are read |
| Mesh: route tables (`MySensor.cpp`) | next hop per destination, in EEPROM or RAM | noted from messages that pass, followed by `sendRoute` | entries are overwritten by whatever passes and never removed; late messages |
| Message signing (`MySensor.cpp`, `MySigning*.cpp`) | nonce, session, tables of who signs, buffers of messages | nonce exchange, sign, verify, `I_REQUEST_SIGNING` | one nonce for two roles; waits that nest; buffers that are shared |
| Node firmware update (`MySensor.cpp`) | block counter, retries, flash | block requests and responses | lost, late and repeated responses |
| Crypto chip driver (`ATSHA204.cpp`) | configuration, lock and key in the chip | `personalize` at every start, retries of each command | locking is for good; lost answers; power loss between words |
| Network (`app/Network.cpp`) | link flags, retry counter, timers | WiFi events, settings page, timers | flags that must agree with the SDK, with the application and with the access point |
| NtpClient (`app/NtpClient.cpp`) | two timers, name lookups, requests under way | requests, timeouts, answers | late answers, failed lookups, losses |
| CloudController (`app/CloudController.cpp`) | connection state, MQTT client, topic | one second timer, activation answer | answers of an old activation, reconnection, a session under an old token |
| openHAB controller (`app/mqtt.cpp`) | MQTT client pointer, settings | check timer, settings page, messages | lifetime of the client, settings changed while connected |
| IOExpansion (`app/IOExpansion.cpp`) | cached pins, a counter that forces publication | polling, get, set, toggle | a change that is published while nobody is connected |
| Rules (`app/Rule.cpp`, `app/ScriptCore.cpp`) | rules, triggers, `.rules.conf` | triggers run scripts that read objects | a rule reads an analog value from before the change; polls read one pin after the other |
| Script interpreter (`libraries/TinyJS`) | variables, the text that is read again | lexer, statements, functions | it executes while it parses: skipped parts, loops and calls must restore where it was |
| MyStatus and web pages (`app/MyStatus.cpp`, `app/HTTP.cpp`, `spiffs/*.html`) | what pages show, a timer, web sockets | news, questions of pages | news that is dropped during downloads or on broken sockets |
| Gateway firmware update (`app/ota.cpp`, `app/AppSettings.cpp`) | trial counter, updater, two ROM slots with file systems, settings file | download, retry, copy of the settings, ROM switch | a second request during a download, power loss at every step, what stays behind in the old slot |
| SD card library (`libraries/SD`) | one block of cache, files, FAT | read, write, seek, truncate, remove, sync | one cache for data, FAT and directory; failing accesses; power loss between blocks |
| Wired Ethernet (`libraries/W5100`) | pointers into the circular memories of the chip | polls, input, output | headers and frames that are split at the end of the ring; lack of memory |
| Clock (`app/RTClock.cpp`, `libraries/RTC`) | registers of the chip, system time | time from the network, checks, start | BCD, ends of months and leap years, restarts |
| Application, HTTP, display, I2C scan, SD card diagnostics | sessions | mostly input and output | little |

How they interact: `application.cpp` starts all of them; radio messages go
from `MySensor::process` to `MyGateway::incomingMessage` and on to `msgRx`,
which publishes to the controller; a stored value or a changed pin triggers
rules, whose scripts call back into `MyGateway::setSensorValue` and
`IOExpansion`; WiFi events reach `NetworkClass`, which calls `wifiCb`; the
settings page of `HTTP.cpp` writes `AppSettings` and starts `connect`; whatever
changes tells `MyStatus`, which tells web sockets.

What makes each of them correct is the list of `hazards` in `PROJECT.json`:
every place where this code can go wrong in a way a test hardly reaches, with
the properties that watch it. One of them, `SdFile.cpp:1183`, is a fault of the
code that has a property (`SyncFailsForAReason`) but no run. Three more are known
and not listed there: `app/Rule.cpp:79` (a rule replaced by the `rules` command
keeps running, because the triggers still hold it: `Automation` models it,
`RulesAreUpToDate` speaks of the rules that run), `app/CloudController.cpp:296`
(a subscribed controller never looks at its connection again, see section 3) and
`MyHwESP8266.cpp:70` (the block read writes a zero after every byte, so a
gateway starts with a table of signers that has holes: `FreshTable` of `Signing`).

## 2. The modules

| Module | Models | Built on |
|---|---|---|
| `SensorRegistry` | abstract: what the gateway promises about ids and sensors | |
| `MyGateway` | the class MyGateway, all handlers | implements `SensorRegistry` |
| `NodeIdNet` | devices in AUTO mode and the radio, with the gateway | extends `MyGateway` |
| `Mesh` | how devices choose and lose their parent | |
| `Routes` | the route tables, and the messages that follow them | |
| `Signing` | the nonce exchange and signed messages | |
| `NodeFirmware` | how a node fetches, checks and installs a firmware | |
| `CloudController` | from the WiFi connection to a subscribed MQTT session | |
| `IOExpansion` | the pins of the expanders and their publication | |
| `CloudGateway` | the gateway built for the cloud | extends `CloudController` and `IOExpansion` |
| `NtpClient` | the time client | |
| `Network` | the WiFi station, access point, settings page, `isNetworkConnected` | extends `NtpClient` |
| `Ota` | the update of the gateway, with its settings | |
| `Atsha204` | the driver of the crypto chip and `personalize` | |
| `OpenHab` | the openHAB MQTT client and its settings page | |
| `Automation` | rules, their triggers, and the pins and sensors they read | |
| `MyStatus` | what web pages show, and the web sockets that tell them | |
| `GatewayParts` | a behaviour of one of `Network`, `Ota`, `Atsha204`, `OpenHab`, `Automation`, `MyStatus` | extends these |
| `SdCard` | files of a FAT volume | |
| `WiredInput`, `WiredOutput` | frames into and out of the memory of the network chip | |
| `TinyJS` | the interpreter, as operators | |
| `Scripts` | scripts that run one after the other, against what they mean | extends `TinyJS` |
| `Clock` | both clock chips and the system time | |
| `Libraries` | a behaviour of one of `SdCard`, `WiredInput`, `WiredOutput`, `Scripts`, `Clock`, `Routes` | extends these |
| `MCMyGateway`, `MCNodeIdNet`, `MCMesh`, `MCNodeFirmware` | small instances | extend the above |
| `MeshProofs`, `CloudGatewayProofs`, `SigningProofs`, `SdCardProofs` | theorems and proofs about the module or system of that name | extend these and TLAPS |
| `MyGatewayProofs` | the same for `MyGateway` and for `NodeIdNet`, which extends it | extends `NodeIdNet` |
| `Loops` | what holds before a loop and is kept by each pass holds after it | instantiated by `SdCardProofs` |
| `GatewayPartsProofs` | the same for `Network` and `NtpClient`, `Ota`, `Atsha204`, `MyStatus`, `Automation`, and for their sum | extends `GatewayParts` |
| `LibraryProofs` | the same for `Routes`, `Clock`, `WiredInput`, `WiredOutput` and `NodeFirmware` | extends these |

`GatewayParts` and `Libraries` are sums, not compositions: their parts share no
state, so a behaviour picks one part at the start and stays with it. One run
then checks all of them, with the fairness of each stated while the behaviour is
about it. Parts that do interact are composed in modules of their own:
`NodeIdNet`, `Network` with `NtpClient`, `CloudGateway`, and `Automation`, which
joins rules, pins and sensors.

Conventions. Actions have the name of the function they model where one exists
(`incomingMessage`, `onWsSetActuator`, `findParentNode`, `connect`), and the
`map` of `PROJECT.json` names the lines of every definition. Operators named
`...Fault` are plausible slips: a dropped guard, a missing reset, a swapped
order. They are part of no next-state relation; for every property the project
checks, one of them put in the place of the definition it is named after makes
TLC find the property violated. They are the mutation tests of the properties.
Variables marked *history* in their comments record what happened and guard no
step.

### MyGateway

`mySensors`, `nodeIds`, `numDetectedNodes`, `numDetectedSensors` are the
members of those names; `nodeIds` holds the indices whose flag is set.
`sensorsFile` is what `begin` would restore from `sensors.json`: the key of
each slot. A file that is missing or does not parse restores nothing and is
`NoFile`. `status` is what MyStatus shows, `out` what the last handler sent,
forwarded and triggered. `incomingMessage` is split by its early returns:
`IgnoreAck`, `ReplyConfig`, `AssignId`/`NoIdLeft`, `UpdateSensor`, `AddSensor`,
`DropReport`, `PassOn`; all but the first include `NoticeSender`, except
`AssignId`, whose sender 255 is always flagged. `AddSensor` includes the save.
`PowerLossInSave` is a power failure after `fileSetContent` truncated the file.
`FirmwareUpdate` is the start after an update of the gateway: the other slot
has a file system of its own, and `sensors.json` stays behind in the old one.
Not in the model: the type of a slot, the two packet counters and the web
socket notifications, which no handler reads back.

### NodeIdNet

Adds devices with `nodeId` (RAM) and `savedId` (EEPROM), requests the gateway
has not read, and answers each device has not read. `HandleRequest(d, heard)`
is `incomingMessage` of an id request together with its broadcast; `heard` is
the set of listening devices that receive it, so losses and shared answers
need no action of their own. `ReadAnswer` adopts an id, `SaveId` is the EEPROM
write after `setupNode`; power may go in between. `shared` and `forgotten` are
history variables. The devices are library nodes with a real EEPROM (on an
ESP8266 the library's "EEPROM" is a block of RAM, `MyHwESP8266.cpp:48`).

### Mesh

One record of `parent`, `distance`, `saved`, `failed`, `search` per station.
`findParentNode` only starts a search; the two seconds it waits are the steps
taken until `EndSearch`, which is how messages are processed in the middle of
it. `search[n]` is the node the search is for: `n` itself, or the node whose
ping made `process()` search; in that case `EndSearch` goes on to answer it.
`replying` holds the answers that wait for their random delay; `Answer` sends
the distance of that moment. Messages wait in the radio (`pings`, `replies`)
until they are read; the radio holds `FifoSize` of them and loses the rest.
`PowerLossInSave` is a power failure between the two EEPROM writes of line 671
and 672. The order in which nested waits end is not kept: any of them may end
at any time, which allows more than the code does. All devices have an id and
search their parent themselves. The failure count, one byte that is compared
with `>`, stays at `SearchFailures + 1` while a search is under way instead of
counting on. `I_CHILDREN`, which would clear parents, is never sent by this
gateway.

### Routes

`routes[s]` is the table of station `s`, for the repeaters in EEPROM, for the
gateway in the block of RAM that stands for it, which a restart fills with 255
(`GatewayForgets`). `sendRoute` has three disjuncts, the branches of the code:
to the parent (noting the sender on the way), downstream along a known route
(noting nothing), and without a route, where the gateway gives up and a repeater
asks its parent. `ReadMessage` is the receiver, which notes a sender unless the
message came from its own parent; an acknowledgement it may send is another
`SendMessage`. Messages under way are a set, are read in any order, and get lost
anywhere. Parents change at any time to any station that is not below
(`TakesParent`); how they are chosen is `Mesh`. The gateway sends to every device,
of the devices only the `Talkers` send to others than the gateway.

The history `heard` and the field `fresh` exist because a message that is late,
or that found a route and left the way of its sender, turns the route to that
sender back. A message is fresh until someone on the way of its sender takes
another parent, a station sends it down a route, or a station notes another
message of the same sender that is not fresh; the property speaks of the devices
of which the gateway has read a fresh message since.

### Signing

`nonce`, `verifying`, `msgSign`, `doSign` are the members `current_nonce`,
`verification_ongoing`, `msgSign` and `doSign`, each one per station as in the
code; `savedSign` is the table in EEPROM. A station whose `sendRoute` waits for
a nonce has an entry in the stack `waits`, and everything `process()` does in
the meantime is a step; a nested `sendRoute` waits on top of it, and since
`msgSign` is one buffer for all of them the outer call goes on to send the
message of the inner one. `process` is split by what it reads: `GiveNonce`,
`SignAndSend` (the nonce that was waited for), `IgnoreNonce`, `IncomingMessage`,
`RejectUnsigned`, `RejectSigned`, `RequestSigning`; `NonceTimeout` ends a wait. The digest is
the pair of nonce and message: a signature fits one nonce and one message and
nothing else. Messages are lost, copied, or wait in a radio of `FifoSize`.
Stations 1 and 8 lie in different bytes of `doSign`: the block read of
`MyHwESP8266.cpp:70` writes zeros, "sign", into every second byte, so a gateway
that starts signs to node 8 (`FreshTable`). The backend without
a chip and the one with it keep the same state; `MySigningNone` has none.

### NodeFirmware

`fc` is the configuration in RAM and `savedFc` the one in EEPROM, which the
node reports; `program` and `flash` are the blocks in program memory and in the
external flash; `fwBlock`, `fwRetry`, `fwUpdateOngoing` are the members of
those names. A request and its answer are one exchange in `underway`, which is
lost (`LoseExchange`) or ends in `FirmwareResponse(x)`. The code does not look
at the block number of an answer: any answer is written as the block that is
due. The reboot at the end of an update, the boot loader and the start are one
step (`begin`, `BootLoader`); the boot loader is not in the repository and is
modelled by what the node prepares for it, a size and a signature at the head
of the flash. `PowerLossInInstall` is a power failure between the signature and
the write of the EEPROM. The checksum is taken as ideal: it accepts the right
blocks only. `crossed` and `torn` are history variables. The controller that
serves the blocks is external.

### CloudController, IOExpansion, CloudGateway

`oneSecondTimerHandler` of `CloudController` has a disjunct for each group of
states. `startMqttClient`, `checkMqttClient` and `subscribe` are its helpers,
`activate` and `onActivateDataSent` the request that returns the token. The
HTTP client, the MQTT client and the station belong to the SDK; they answer,
fail and break at any moment. `mqtt.session` is the token of the last
`connect`, `mqtt_thing_topic` the token in the topic, which is set only once
after a start, as in the code; what arrives on it is disabled code (`#if 0`) and
changes nothing. `IOExpansion` has the two polls, with the set of
objects they report, the cached values and the counter `forcePublish`.
`CloudGateway` connects them the way `app/application.cpp` does in the build for
the cloud (`CONTROLLER_TYPE=CLOUD`; the default build is for openHAB); `shown`
is what the service knows of each object. Setting an output is left out,
because `updateResource` never finds one (`IOExpansion.cpp:562` cuts `outputD1`
to `D1`, which converts to 0). The rules a change triggers are in `Automation`.

### Network and NtpClient

`connected`, `haveIp`, `numApNotFound` and the timers are the members of
`NetworkClass`; `station` and `softAp` stand for the SDK, which starts, stops
and retries as it documents. `GotIp`, `Connected`, `ApNotFound`,
`Disconnected` are the branches of `handleEvent`. `NtpClient` has the two
timers, the lookups and packets under way and `failure`, which remembers what
ended the last request. `Network` hands it the connection (`NtpNext(Online)`)
and calls `requestTime` from `GotIp` as the code does. Wired mode is not
modelled here.

### Ota

Two slots with a ROM (`rom`), a file system (`fs`) and the settings file in it
(`saved`). `AppSettings` is the copy in RAM, and `Loaded` what `load()` makes of
it when there is a file, when there is none (nothing changes) and when there is
one that was cut short (`CutShort`): that does not parse, and every setting it
should have is empty afterwards (`Blank`). `RequestUpdate` is either the
maintenance page, which saves the URL, or the command; both may come while an
update runs. `otaStartTimer`, `otaUpdater`, `numOtaTrials` and `firmwareState`
are the members of those names; the updater keeps the URL it was started with.
The SDK's updater and rBoot are external: blocks are written in any number,
the end is success or failure, and selecting the slot may fail.
`PowerLossInSave` is a power failure while a settings file is written.
`attempts` is a history variable.

### Atsha204

`personalize`, which `MyGateway::begin` runs at every start, as a sequence of
calls (`step`, `word`); a call is `sha204c_send_and_receive` with its two nested
loops, whose passes are `Send` and `Poll` and whose locals are `call`. `chip` is
the chip: the words that are set, the lock, the key, the answer it holds. It is
external, executes a command or not, and its answer arrives, is lost or comes
broken; it may also stop answering for good. Of the words, only that some are
written and some read, and that the lock carries a checksum over all of them,
is kept.

### OpenHab

`mqtt` is the client and its state, with `"freed"` for a pointer that was
deleted and not cleared; what the code then does is undefined and the model
stops (`"undefined"`). `checkConnection` is the timer, `postMqttConfig` and
`onMqttConfig` the settings page (a GET too clears `MqttConfigured`),
`notifyChange` what is published and `onMessageReceived` what comes back. Topics
are sequences of levels: the code compares and cuts them by levels, and prefixes
that are empty or have more than one level matter. Conversions of type names are
modelled with the numbers that have no name.

### Automation

`value` is what the gateway has read of a pin or got from a sensor, `level` what
the pin is. `StartDigitalPoll` and `PollPin` read the digital pins one by one and
run the rules of a changed pin inside the poll; `i2cCheckAnalogState` reads the
analog ones together, hands a change on before it caches it, and hands every value
on at each sixtieth poll (`PublishPcfInputs` is what the readings of one chip come
to: a script keeps what it read at the last of them that runs it). A rule is its name, what triggers it and what its script
reads; `runs` is the history of what each script has read last. `processRules` is
the `rules` command, which replaces a rule in `rules` and leaves the old one in
`triggers`. `RulesAreUpToDate` holds in the middle of a poll too: a rule has read
the pins the poll has come to, and those it has not come to as they were before,
which is what the gateway knows of them. What a script computes is the matter of
`Scripts`; that it can set sensors is in `MyGateway` (`setSensorValue`).

### MyStatus

`now` is what is so, `page` what the one open page shows, by key: pages do not
meet, so one stands for all. `socket` is its web socket, which breaks unnoticed.
`notifyWsClients` is every announcement; `onWsGetStatus` and `onWsGetDldStatus`
answer the questions that the scripts of the two pages ask when they open, every
minute or every three seconds. During a download nothing is answered or
announced to the status page. `calm` is the history of whether news was kept
from the page since it last asked.

### SdCard

A FAT16 volume: two FATs, a root directory of one block, clusters of one block,
and the one block of cache that everything goes through. Each call of the
library (`open`, `read`, `write`, `seek`, `truncate`, `remove`, `sync`, `close`)
is one action that works on a record of volume, file and the number of accesses
made so far, so that any access can be the one that fails (the card does not
answer, or does what was asked and its answer is lost) or the last one before
power is lost. Data is counted in parts of a block, so that writes may be
partial, whole or across blocks. The loops of the code (over the clusters to
try, to free or to follow, over the blocks to read or write) are functions from
the number of passes to the state after them: `FreePass` is one pass of
`freeChain`, and a pass after the end of the loop changes nothing. Subdirectories, FAT12/32 and listings are left
out. `text` is what a file should contain, `synced` what must survive, `hurt` and
`interrupted` what a failed call has spoiled.

### WiredInput and WiredOutput

The memory of the chip is a ring of bytes, pointers wrap at a multiple of it, as
2^16 is a multiple of the real sizes. A length takes two bytes, and frames have
any number of them, so a length may itself lie across the end; two bytes that
belong to no one length are read as any number. Both chips are
modelled: the W5100 is read and written by address, so the driver splits what
crosses the end; the W5500 goes round by itself. `StartInput` is the poll that
takes the length (`low_level_startinput`), `low_level_input` the copy of the
frame, and `low_level_input_nomem` the return without memory, which has taken
the length and leaves the frame, although the comment in
`ethernetif_driver.cpp:105-107` lets it wait in the chip: from then on the driver
takes data for lengths until it has passed all that arrived (`lostStep`). The
history `inChip` is what arrived and was not passed, lengths and frames as one
stream of cells: what lwip should be given next is what stands there before the
next length.

`ethernetif_linkoutput` takes a frame, `low_level_output` copies one of its pbufs
after the other, and `low_level_endoutput` gives the command to send; the driver
asks for no room at any of them, and the chip sends an earlier frame in between
(`FrameLeaves`). For every pbuf the driver reads the write pointer back from the
chip. Of this the headers of both drivers say that it "doesn't seem to get updated
correctly" while one packet is built over several calls (`w5100.h:182-186`,
`w5500.h:143-147`), which is what the driver does. The library shows no more of
what the chip does, so `low_level_output` has both for each pbuf: the pointer as
it was written last, or as it was at the last command (`atSend`). In the second
case the pbuf goes over those of its frame that went before, and `stale` records
it. The history `unsent` holds the cells that were written and have not left, in
order; `high` is how far beyond the read pointer anything was written, so that a
frame has been written over as far as that exceeds the memory when it leaves. The
default build is `WIRED_ETHERNET_NONE` (`Makefile-user.mk:26`); `Makefile:115`
selects the W5500 for one board.

### TinyJS and Scripts

`TinyJS` is the interpreter as recursive operators on a state: scopes, output,
errors, and the result of an operation in `link`. A text is a sequence of
tokens, and the lexer makes it from characters. There is no syntax tree: a loop
keeps the text of its condition and body and reads it again, a call reads the
text of the function, and what is not to be executed is parsed with
`execute = FALSE`. Numbers, names of objects, functions and the natives
`GetObjectIntValue` and `SetObjectValue` are the values.
`Scripts` has trees of programs, the operator `Source` that writes a tree as
text, and `Meaning`, which says what JavaScript has the tree do. Each
`RunScript` runs one text on what the ones before left.

TinyJS needs more parentheses than JavaScript, which `Source` writes; so the run
says nothing of texts without them. What differs, found while modelling: `* -1`
and `a - -1` crash; `&&` and `||` are one level of precedence and give truth
values, `==` and `<` are one level; `!` takes only a factor; `b + a++` increments
a copy; `x << 1` changes `x` (`TinyJS.cpp:1801`) and takes everything to its right
as the operand; skipped `new X()`, object and array literals get out of step;
too many arguments break the parse and missing ones crash; names are scoped
dynamically; `return` at the top level skips the rest; `var x = 1` without `;`
at the end never ends (1959-1989); a loop of exactly 8192 rounds reports an error
although it ended.

### Clock

Registers in BCD, with the conversions of both drivers, `date2days` and back.
`ntpTimeResultHandler` sets the system time and the chip, `ClockCheckState` takes
the time of the chip again. A start is three steps, because `Sodaq_DS3231::begin`
reads the hour register in one transaction on the bus and writes it back in
another: `ClockBegin` to the read, `HourWritten` the write, `TimeRead` the time
that is taken from the chip at the end. The chip counts in between, so an hour
that ends there is undone; `putOn` counts by how much. A second passes in the chip
(`NextSecond`, a calendar of its own) and, mostly, in the system clock: `slips`
counts what it missed. The loops over years and months are recursive functions
(`Until`, `Offset`, `Month`); times go as far as the `long` of `MyDateTime` does,
2^31 seconds after 2000. That `Month` stops at December is for totality: the
proof shows that the days of a year end before. Chip and system clock count whole
seconds, and what they differ by within one is left out. The time zone is fixed in
the code and left out, and so
are alarms and temperatures (two faults there, without a model: fractions of
negative temperatures are wrong, `Sodaq_DS3231.cpp:320-326`, and a bus that
returns 0xFF makes `convertTemperature` loop for ever, 305-309).

## 3. The runs

| Run | Module, configuration | What it asks |
|---|---|---|
| `gateway` | `MCMyGateway.cfg` | table, flags, file and forwarded values stay consistent; ids are given away once; the class implements `SensorRegistry` |
| `node_ids` | `MCNodeIdNet.cfg` | two devices share an id only because one answer reached both or the gateway forgot; a device that stays on gets an id while there are free ones |
| `mesh` | `MCMesh.cfg` | loops only come from repeated searches |
| `mesh_live` | `MCMeshLive.cfg` | everybody gets connected |
| `node_firmware` | `MCNodeFirmware.cfg` | a node only installs whole images, reports what it runs, and ends every update |
| `signing` | `Signing.cfg` | a nonce verifies one message; nothing good is rejected without a reason; what was told is kept to |
| `cloud` | `CloudGateway.cfg` | the MQTT session is one of the newest token and comes about; analog values that changed offline get through |
| `gateway_parts` | `GatewayParts.cfg` | network: stays reachable, comes online, learns the time. Update: a complete build with its settings, and an end of trying. Chip: locked as wanted, completed by the first undisturbed start. openHAB: the settings get used. Pages: show what is so. Rules: miss no change |
| `libraries` | `Libraries.cfg` | SD card: reads give what was written, synced data survives, clusters have one owner. Wired: frames come in whole, and go out whole as far as the pointer of the chip reads back. Scripts: do what they mean. Clock: keeps the time, but for an hour that ends inside a start. Routes: devices the gateway heard of are reached |
| `node_ids_full`, `network_ap`, `mesh_heals` | `MCNodeIdNetFull.cfg`, `NetworkAp.cfg`, `MCMeshHeals.cfg` | disagreements, section 5 |

Bounds, and why they are enough:

* `gateway`: nodes 1 to 3, of which 2 and 3 may be given away, two sensors per
  node, two slots, two values. Fewer slots than sensors, so the table fills; a
  hole below a slot in use needs two slots; one node that was never given its
  id and two that may be. `MaxDetected = 3` bounds how often a sensor is added
  between two restarts: removing and adding again is included.
* `node_ids`: two ids, two devices, one slot; sharing needs two devices, and a
  third id or device adds no new reason for it. `MaxDetected = 0`: no sensor
  reports, only id traffic, which is what the properties are about.
* `mesh`: the gateway and two repeaters that may all hear each other, every
  contact may come and go, two faults (restarts or changes of contact), one
  message per radio, `SEARCH_FAILURES` 1, the invalid distance 4. A loop needs
  two devices; distances 1 to 3 are enough for one device to be two hops away
  and to be lured away from there. The proofs (section 4) cover any number of
  devices, any links and the real constants.
* `mesh_live`: a repeater and a sensor, so that pings are answered by a
  station that has to search itself; faults are bounded, because a network
  that is disturbed for ever need not settle.
* `node_firmware`: images of one, three and two blocks, so that an image may be
  shorter or longer than the one before and one block is both first and last;
  one retry; two exchanges per block, since two answers to one block are what
  puts a wrong one in the next place; two faults.
* `signing`: the gateway and two nodes, all requiring signatures; three
  messages and three nonces, so that a wait nests in another one and an older
  answer meets a newer request; one message that is too long to be signed; two
  starts, two faults (a loss, a copy, a timeout). The proofs cover any numbers.
* `cloud`: two tokens, one digital and one analog pin, two checks of a
  connection instead of ten, an analog value forced every second poll instead of
  every 60th, one change of a pin: a value is told rightly or it is the one from
  before.
* `gateway_parts`, network: the limit of ten failures is 2, two lookups and two
  answers under way are enough for a late answer to cross a newer request.
  Update: two builds and two settings, one of them the empty ones, so that mixing them shows; two trials
  instead of six; three requests, of which two may cross a running download
  after one that ended. Chip: three words, of which one is only read; two
  retries; five faults, more than the retries of one call, so that a call fails
  and a later start meets more. openHAB: two servers and none, empty, simple
  and longer prefixes, two settings saved, one message under way, a type with
  and one without a name. Pages: four changes, which cover a counter, the timer
  and a download. Rules: two digital pins, an analog one and a sensor, three
  stored rules that share triggers, a command that replaces one of them, two
  moves and two commands or restarts.
* `libraries`, SD card: two files, two directory entries, three clusters over
  FAT blocks of two entries, so that a chain crosses a FAT block, the volume
  fills and a directory entry is used again; blocks of two parts; two writes, two
  opens and one fault at any of the first six accesses of any call. Wired: for
  input a ring of six bytes whose pointers wrap after two rounds, a header of one
  byte, frames of one and two, so that a length and a frame each lie across the
  end; for output a ring of four, frames of one, two and three pbufs, the last so
  that a pointer may be old for any subset of them and two frames may need more
  room than there is. Scripts: 215 programs, every two of them one after the other,
  with loops that reach a limit of four rounds. Clock: the last
  second of every day of 2000, 2001 and 2024 (the chip goes on for two seconds),
  which has all ends of months with and without leap day, of which each is an end
  of an hour too, for the starts; and one other time. Routes: three devices,
  two of them repeaters, the third one one or two repeaters away at first;
  device 3 also talks to the others; two messages under way, one change of parent. Two changes
  of parents, and all devices talking to each other, were checked too and hold.

Deadlock is checked in the runs of `gateway`, `node_ids`, `mesh`, `mesh_live` and
`cloud`. The other systems may really stop: a node that has nothing to update
asks nobody (`node_firmware`), the bounded messages of `signing` are used up,
the driver of the crypto chip halts or completes, a freed MQTT client is undefined
(`gateway_parts`), and scripts end (`libraries`).

Fairness. `NetFairness` of `NodeIdNet`: a device without an id keeps asking (its
loop sends, and sending asks, `MySensor.cpp:359`), reads what it received, and
the radio does not lose every request or every answer (strong fairness of an
exchange that keeps being possible). `Mesh!Fairness`: a device keeps sending, a
search ends after its two seconds, messages are read, and not every ping and
not every answer between two stations collides. `NodeFirmware` assumes only that
the loop of the node calls `process()`, not that any answer arrives.
`CloudGateway!Fairness`: timers fire and polls happen, a request of the HTTP
client ends, and of many activations, connections, subscriptions and forced
publications one succeeds. In `GatewayParts`: network timers that were started
fire, the SDK ends a disconnection it started, and (strong) a station that tries
again and again finds its network and gets an address, and not every NTP answer
is lost; an update timer fires and a download ends, one way or the other; the
driver of the chip is a loop that runs; the timer of the openHAB client fires,
an attempt to connect ends, and (strong) a server that is there again and again
is reached; polls happen, and (strong) the analog poll, which waits for the
digital one to finish, gets its turn. Nothing is assumed about when faults
happen, only that they end in the runs that bound them.

What the properties leave out, because the code does not do it:

* a device is promised an id only while there are free ones;
* `GetsSubscribed` excepts an activation that returned no token, and a
  connection that did not come about in `NumChecks` checks, since the counter is
  then never reset and each second starts another connection; a subscribed
  controller never looks at its connection again, so `AnalogReachesCloud` speaks
  of a connection that stays;
* `OpenHabSettingsGetUsed` excepts a server that was cleared, which leaves a
  freed client, and settings that were saved offline while the old connection
  lives on;
* `PageIsCurrent` speaks of what MyStatus announces. Nobody is told when the MQTT
  connection comes or breaks, and news that met a download or a broken socket is
  not repeated: the page shows it when it asks again;
* `ChipStartEnds` excepts a chip that stops answering: the call then never
  returns (`ATSHA204.cpp:556`), and with it `MyGateway::begin`;
* `FramesReadWhole` excepts the time after memory ran short;
* `FramesLeaveWhole` promises all of a frame only if the pointer read back for each
  of its pbufs. If it did not, the frame goes out without the pbufs before the last
  that went to its start, in order and with the frames around it whole. And as
  nobody asks for room, cells that lie a memory's length behind one written later
  may be lost, and no others;
* `ClockKeepsTime` allows the clock to be off by the hours that starts have written
  back after they had ended, and by nothing else, until the network tells the time;
* `RunsWhatItSays` excepts the loss of power between the signature and the EEPROM,
  and `ToldMeansSigned` says nothing of a notice that is refused because it is not
  signed;
* `HeardAreReached` excepts devices that moved, or of which some station noted an
  older message, or one that had left the way up, until a newer one has passed;
* no rule runs for the state at the start: `RulesAreUpToDate` takes what was read
  then as known to every rule.

## 4. What is proved

The theorems hold for every value of the constants that the named assumptions
allow: any number of devices, ids, slots, messages, any links, the real limits.

* `MyGatewayProofs`. Type correctness, `NoDuplicateSensor`, `SlotsAreSaved`,
  `NodesKnown`, `NodeCountBounded`, `ForwardedIsStored`, `GivenIdIsFresh`,
  `SlotKeepsItsSensor` and `ImplementsRegistry`. The core is the inductive invariant `TableInv`. That no
  sensor has two slots cannot be proved alone: a restart copies the file, so
  the file must be free of duplicates too, and it is compared slot by slot
  with the table because removal empties a slot in the table only. `NodesKnown`
  in turn is needed for ids: the flags are rebuilt from the file. The bound of
  the 8-bit counter rests on the size of the set of flags. The refinement goes
  handler by handler: each of them is a step of `SensorRegistry`, or leaves the
  ids, the sensors, the saved sensors and what was told as they are. A sensor that
  is added is new to the registry because no slot holds it, which is
  `NoDuplicateSensor` again, and there is room because a slot is free: the sensors
  of the table are as many as its slots in use.
  For `NodeIdNet`: `IdsAreSharedForAReason` and `SavedIdIsKept` for any number of
  devices. The invariant `IdInv` speaks of *claims*: an id in RAM, in EEPROM or
  in an unread answer. Every claimed id is flagged at the gateway or was
  forgotten, and two devices claim one id only if it is shared or forgotten;
  without the unread answers the invariant would not survive a late one.
* `MeshProofs`. `ParentIsCloser` and `LoopsComeFromSearches`. The invariant
  `MeshInv` adds what is under way and what is saved: an answer that has not
  been read, and a distance in EEPROM, is never smaller than the distance of
  the station it came from unless that station searched again. That routing
  loops contain a station that searched follows by looking at a station of the
  loop with the smallest distance.
* `SigningProofs`. Type correctness, `NonceAcceptedOnce`, `ToldMeansSigned` and
  `RejectedForAReason`, for any number of stations, messages, copies and
  nested waits. The argument follows one nonce `n` and the station `r[n]` it was
  made for. `AirInv` and `HolderInv` say where `n` may be: on its way to `r[n]`,
  held by it or by its giver, in a message signed by `r[n]`. `AcceptedInv` adds
  that once a message with `n` was accepted its giver has no session with `n` any
  more, and never again, because nonces are new. `AgreedInv`, for
  `ToldMeansSigned`: a station that told another one last that it requires
  signatures is in that station's table, in RAM and in EEPROM. `LiveInv`, for
  `RejectedForAReason`: a nonce that nothing has spoilt is the last one its giver
  made, and its session is open with it. A long message, which is not signed
  although asked for, may leave the nonce of another station in `current_nonce`
  while a session is on; that this is harmless follows because no station sends
  to itself.
* `CloudGatewayProofs`. `SessionIsCurrent`. An answer of an old activation can
  change the token in any state, and what saves the session is that it also
  takes the state back to `Activated`, from where the client connects again;
  `SessionInv` says what holds of client, topic and token in each state.
* `GatewayPartsProofs`, part by part, and `PartsAreSafe` for a behaviour that is
  about any of them:
  - network: `ApWhenDisconnected`, `NotifiedWhileConnected`, `StationIsStarted` and
    `RequestIsCarriedOn`; `NetworkInv` adds that `connected` agrees with the state
    of the station;
  - update: type correctness, `BootsCompleteBuild`, `SettingsSurviveUpdate`,
    `StartedMeansBusy` and `AttemptsBounded`. `OtaInv` adds that once the ROM is
    downloaded the target slot holds the ROM of the URL the updater was started
    with, whatever URL was asked for since, and that the settings in RAM are
    those of the file, or the defaults if there is none. `TrialsInv` relates
    attempts and trials;
  - crypto chip: type correctness, `LockedAsWanted`, `CleanStartCompletes` and that
    what the driver reports as done is done. `ChipInv` says that an answer the
    driver accepts was given by the chip to the command of this call, so the
    driver never goes on from a word that was not written; and for a start
    without a fault, how far the chip is at each step;
  - pages: `PageIsCurrent`. What matters besides it is `CalmIsTold`: a page from
    which nothing was kept has an open web socket, and no download hides it;
  - rules: `RulesAreUpToDate`. `RulesInv` adds that a rule which is stored is among
    the rules of each of its triggers (the old one may be there too), and how far
    a poll has come: a pin it has passed is cached as it was read.
* `LibraryProofs`:
  - routes: `HeardAreReached`, for any devices, parents and number of messages
    under way. `RoutesInv` adds `FreshMessagesAreOnTheirWay`: behind a fresh message
    each station on the way from its sender has noted the one it came from. It
    rests on lemmas about ways in a tree of parents, which is a set that is closed
    under taking the parent, not a recursive definition: there is one way from
    a station up, two stations on it are one below the other, and the station
    before one on it is its only child there. What a route tells of a
    device is then the child through which its way goes;
  - clock: `ClockKeepsTime`, with a chip that counts between the two transactions of
    a start: an hour that is written back changes the time by whole hours of the
    same day and nothing else of the date (`AnotherHour`). The loops of `MyDateTime` take off years, then months,
    and what they yield is proved by induction over the days that are left, against
    a closed form: the day a year or month begins with (`OffsetIsRight`,
    `MonthIsRight`). From these follows `ThereAndBack`, that every time is the time
    of the date it is converted to; with the BCD of the chip (`EncodedAndBack`,
    `MasksAreHarmless`) and a step of its calendar (`OneSecondLater`), the chip
    tells the second that it is;
  - wired network: `FramesReadWhole` and `FramesLeaveWhole`, for any sizes of the
    memories and of frames and pbufs. `ReadsAround` and `SendsAround` show that
    the split at the end of the W5100 comes to what the W5500 does. `WiredInputInv`
    says that the memory holds, from the read pointer on, what arrived and was not
    passed, and that behind each length there is a frame of that length;
    `WiredOutputInv` that the cells of `unsent` lie one after the other from the read
    pointer on, whether the pointer was updated or not, except where something was
    written a memory's length further on, and that each frame of them ends with its
    last pbufs. Both pointers wrap at a multiple of the memory, which
    is why places agree with pointers (`MovedPlace`, `Distance`);
  - node firmware: type correctness, `ProgramIsWhole`, `RunsWhatItSays` and
    `UndisturbedImageIsRight`. The first two follow from the check before
    `Install`; the third needs the invariant `OnlyDueIsPending`: as long as no
    request crossed an earlier answer, every answer under way is to the block
    that is due.
* `SdCardProofs`. `ClustersHaveOneOwner`, for any number of files, entries,
  clusters, clusters to a block of the FAT, and faults. It cannot be proved alone:
  - what the cache and the card hold *together* (`Seen`) decides what the next call
    does, and what the card holds *alone* what is left when power is lost, so the
    invariant `SdInv` says the same of both: names are in one entry each and none
    behind the end of the directory, every chain begins at a file and no cluster
    is in two of them, leads to a free one or to itself, and an entry without a
    cluster has no size (`Sound`). For the card alone the files are the entries;
    together they are the open files where there are any, whose first cluster may
    not be in the entry yet;
  - power may be lost before any access of a call, so `Safe` has to hold after
    each of them and not only at the end: `Kept` says that the traffic between
    cache and card changes the card to what was seen and nothing else, and the
    lemmas above it that each change of what is seen is a sound one. The order of
    the code is what makes that true: `allocContiguous` marks the new cluster as
    the end of a chain before the last one leads to it, and the entry of a new
    file is written without a cluster;
  - a call that frees clusters and fails part of the way leaves an entry with
    clusters that are free, and so does a loss of power there. That is the
    exception `interrupted`, which the property and the model have too.
  The chain of a file is the function `Walk`; that it ends, and that two of them
  never meet, follows from there being no closed set of clusters (the last
  conjunct of `Chains`), without counting. The loops of the library are dealt with
  by `Loops`: `PassesKeep` is the rule for invariants of a loop, proved once from
  the definition of a recursive function (`PassesFollow`) and instantiated with
  the pass and the invariant of each loop.

Some of the proved properties (`SlotsAreSaved`, `NodeCountBounded`,
`SlotKeepsItsSensor`, `SavedIdIsKept`, `ParentIsCloser`,
`NotifiedWhileConnected`, `StationIsStarted`, `RequestIsCarriedOn`,
`StartedMeansBusy`, `AttemptsBounded`) are lemmas of the others more than
questions of their own; they are left to the proofs and no run lists them.

Assumptions on the constants are the named `ASSUME`s of the modules; a run
evaluates each of them. The external parts (the radio, the SDK, the
chips) are as the actions say; that the checksum and the digest are ideal is
part of the models and so of the theorems.

Only model-checked: all liveness (fairness and ENABLED are outside what the
prover handles); `TinyJS` and `Scripts`, which rest on recursive operators that
the prover does not take; `ReadsBackWhatWasWritten` and `SyncedDataSurvives` of
`SdCard`, which speak of contents: they need, besides `SdInv`, that the cluster at
hand is the one of the position and what each block of the chain holds, and
`OnCard` joins blocks with a fold over sequences, an induction over data;
`OpenHab`, whose property is one of liveness; and the properties that the code
violates.

## 5. Disagreements between the code and what it says

* `EveryDeviceIsAnswered` (`node_ids_full`): with no id left the gateway does
  not answer, while the library expects an answer that says so
  (`MySensor.cpp:718`).
* `ApOnlyWhenDisconnected` (`network_ap`): `haveIp` is never reset, so after a
  reconnection the access point of `whenDisconnected` stays on.
* `MeshHeals` (`mesh_heals`): two repeaters can become each other's parent. The
  run starts with both in contact with the gateway, and only one contact is
  lost. Node 2 searches because node 1 asked, takes node 1 as its parent, and
  then answers node 1, which searches again after it lost the gateway: the
  check that the ping is not from the own parent came before the search. Since
  each of them receives what the other one sends, no transmission fails and
  none of them ever searches again, although node 2 still hears the gateway.

Further disagreements that the models show. Where a property states one, it is
defined in the module and no run lists it:

* `SyncFailsForAReason` (`SdCard`): writing a whole block that is in the cache
  leaves the dirty mark (`SdFile.cpp:1183`), so `sync` fails for ever on a card
  that works; its comment (958-966) names other reasons.
* `DeadChipIsNoticed` (`Atsha204`): `ATSHA204.cpp:556` polls without end, while the
  comments at 520 and 550 say when it returns.
* `ToldNotToSignIsHeard` (`Signing`): a gateway that requires signatures rejects
  every unsigned message (`MySensor.cpp:583-598`), and answers a node that does
  not require them not to sign (695-703): from then on nothing of it is heard.
* `StartKeepsTime` (`Clock`): "set the clock to 24hr format"
  (`Sodaq_DS3231.cpp:192`) also sets the clock, to an hour before, or at midnight a
  day less an hour ahead, when the hour ends between lines 193 and 195.
* `ChunksMakeUpTheFrame` (`WiredOutput`): `lowlevel_skeleton.cpp:66` calls for each
  chunk of a packet what, by the drivers' own headers, finds the pointer of the
  chip as it was before the chunk.
* `SpaceIsAsked` (`WiredOutput`): `lowlevel_skeleton.cpp:54` returns 0 if there is "no
  space on chip"; the function returns 1 and nothing else asks, so a frame that
  waits may be written over.
* `MySigning.h:47,58` says a backend returns false while it is busy; none does: a
  new request replaces the nonce of the session that is open.
* `MySensor.cpp:467` says that a route is added "if it not already exist"; it is
  overwritten, and rightly so: with the comment's rule (`LearnsFault`) a device
  that moved is never reached again.
* `isNetworkConnected` stays false after a reconnection, for the same reason as
  `ApOnlyWhenDisconnected`; a node that got its id from this gateway is never
  counted by MyStatus, because giving the id sets the flag that detection tests
  (`app/MyGateway.cpp:95` and `:121`); `sensors.json` stays behind when the
  gateway updates itself.
* With empty prefixes the openHAB client receives what it publishes and sends it
  back to the sensors; a controller prefix of more than one level has its second
  level taken for the node; types without a name come back as 255 (`mqtt.cpp`).

## 6. Plan

Modelled, in the order of what matters most to a user: the sensor table and the
ids, the parents and routes, signed messages, the network, the two updates, the
controllers, rules and their interpreter, pages, and the libraries with state
under them. What is left:

1. Proofs: the contents of files on top of `SdInv`, with the place of the cluster
   at hand in the chain of its file and `OnCard` position by position.
2. `Mesh` with `Routes`: the parents chosen as in `Mesh` under the messages of
   `Routes`. With messages between devices, entries left by a device that moved
   can send a message round in circles; what bounds that is open.
3. Subdirectories of `SdCard`, doubles and arrays of `TinyJS`, wired mode of
   `Network`.

## 7. Not modelled

* `MyMessage`, `MyParser*`: payload conversions without state; the serial parser
  is not used by the gateway.
* Radio transport and registers (`MyTransportNRF24.cpp`, `MyHw*.cpp`): the radio
  appears as messages that are received, lost or late. Retransmission by the chip
  is below that.
* `MyDisplay.cpp`, `SDCard.cpp`, `i2c.cpp`: output of what other parts know.
* `sha256.cpp`, `TinyJS_MathFunctions.cpp`: functions without state.
  `enc28j60.cpp`: a driver that no build selects.
* Serving of files, the password and the layout of pages in `HTTP.cpp`; of the
  maintenance page it may be said that `onMaintenance` loads the settings before
  it checks the password.
* Payloads, the bits of a digest, wordings and formats are data.
