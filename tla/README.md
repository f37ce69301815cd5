# ESP8266 MQTT with automatic light sleep: TLA+ specification

The firmware under `src/` is a battery-powered sensor. A capacitor on GPIO14
wakes the ESP8266 out of light sleep; every third wake-up it samples its ADC
channels, queues nine MQTT messages, keeps awake until the queue has drained and
goes back to sleep. The Wi-Fi, the TCP connection and the MQTT session have to
survive in between. The repository's own README reports "re-connection issues.
The IC stays awake and tries to send packets, fills its buffer, then crashes",
which is why the connection state machine and the message queue are at the
centre of this project.

Paths below are relative to the repository; `tla/` holds the modules, `*.cfg`
the TLC models, `PROJECT.json` the map from definitions to source lines, the
hazards and the findings.

## 1. The system

| Part | Source | State it keeps | Operations |
|---|---|---|---|
| Configuration store | `src/modules/config.c` | two flash sectors, a flag sector, the RAM copy `sysCfg` | `CFG_Load`, `CFG_Save` |
| Ring buffer | `src/mqtt/ringbuf.c` | memory, read and write pointer, fill count | `RINGBUF_Init`, `_Put`, `_Get` |
| Message queue, framing | `src/mqtt/queue.c`, `proto.c` | bytes in the ring; a parser on the stack | `QUEUE_Puts`, `_Gets`, `_IsEmpty`; `PROTO_AddRb`, `_ParseRb` |
| MQTT client | `src/mqtt/mqtt.c` | `connState`, `pCon`, `mqtt_state`, `sendTimeout`, `keepAliveTick`, `reconnectTick`, `mqttTimer`, `msgQueue` | `MQTT_Connect`, `_Disconnect`, `_Publish`, ...; `MQTT_Task`; `mqtt_timer`; five espconn callbacks, one DNS callback |
| TCP layer (SDK) | `third_party/lwip/app/espconn*.c` | a node per connection in `plink_active`, send buffers, posted signals | `espconn_connect`, `_sent`, `_disconnect`, `_delete`, `espconn_Task` |
| DNS (SDK) | `third_party/lwip/core/dns.c` | outstanding queries | `espconn_gethostbyname` and its callback |
| Wi-Fi supervision | `src/modules/wifi.c` | `wifiStatus`, `lastWifiStatus`, a timer | `wifi_check_ip`, `WIFI_Connect` |
| Sleep control | `src/modules/sleep.c` | `wakeCount`, two timers, light sleep on or off | the GPIO interrupt, `sendADCData`, `goToSleep` |
| Application | `src/user/user_main.c` | none | `user_init`, `wifiConnectCb`, `mqttConnectedCb` |
| HTTP configuration page | `src/modules/http_config.c` | request buffer | `HTTPConfig_*`; `user_init` has it switched off (`if (0)`) |
| Message codec | `src/mqtt/mqtt_msg.c` | output buffer, 16-bit message id | `mqtt_msg_*`, `mqtt_get_*` |
| String utilities | `src/mqtt/utils.c` | none | `UTILS_IsIPV4`, `_StrToIP`, `_Atoh` |

How they interact. Everything but the GPIO interrupt runs on the SDK's single
thread and to completion: timers, espconn and DNS callbacks, Wi-Fi events and
`MQTT_Task`, which is woken by `system_os_post` through a queue of one event
whose overflow is ignored. All of these handlers write `connState`. The Wi-Fi
supervision calls the application's `wifiConnectCb`, which calls `MQTT_Connect`
on `STATION_GOT_IP` and `MQTT_Disconnect` on any other change. The client and
espconn share a heap block, `pCon`: the client allocates and frees it, espconn's
node and a DNS query point to it. Publishing stores a framed message in the
ring; `MQTT_Task` takes one out whenever the client is in `MQTT_DATA` and no
earlier message waits for its acknowledgement. `sleep.c` looks into the ring's
fill count and is the only place that arms `mqttTimer`, because the arming in
`MQTT_Connect` is commented out.

What is hard about it:

- handlers in an order nobody tried: a DNS answer after a disconnect, a TCP
  callback for a connection that was replaced, a Wi-Fi change between an event
  and the task it wakes;
- events lost in a queue of one;
- memory that is freed while the SDK still points to it, and handed out again;
- loops that make room in a full ring while filling it themselves;
- an uninitialised flag in the parser;
- a reset in the middle of four flash operations;
- timers that only run when another module thinks of arming them, or that are
  started afresh before they fire;
- an interrupt that runs the whole Wi-Fi and MQTT connect path, between any two
  statements of another handler;
- lengths at which a header grows, a counter wraps or a buffer ends;
- requests that arrive in pieces, and memory that is never given back.

`PROJECT.json` lists each at its line, with the properties that cover it or the
reason why none does.

What makes each part correct:

- configuration store: saving is atomic, whatever resets interrupt it;
- ring buffer: a bounded first-in first-out queue;
- message queue: whole messages, in order, each once; no call loops forever;
- client: no work without an event, no message outside an accepted session, no
  rest without a connection while the Wi-Fi has an address, no permanent stall, a
  reconnect that is asked for happens;
- codec: decoders read what encoders wrote, an acknowledgement carries the id of
  its message; utilities: every address is read as the numbers it shows, and a
  name is not taken for one;
- Wi-Fi supervision: the application hears each change of status once, and in the
  end the one the station settles on;
- sleep: the device measures and sleeps again and again, and does not sleep on a
  message it has queued; a measurement shows what its input gave;
- HTTP page: what is posted is what is stored, however it arrives.

## 2. Modules

    AtomicConfig <- Config <- ConfigProofs         MCConfig
    ByteFifo     <- RingBuf <- RingBufProofs       MCRingBuf
    MsgFifo      <- Queue <- QueueProofs           MCQueue
                MqttClient <- MqttClientProofs     MCMqttClient
                MqttClient <- Recovery             MCRecovery
    StatusFeed   <- Wifi <- WifiProofs
                    Sleep <- SleepProofs           MCSleep
        Measure, MqttMsg <- PublishProofs          MCPublish
       HttpConfig, Utils <- ConfigureProofs        MCConfigure

AtomicConfig, ByteFifo, MsgFifo and StatusFeed are the abstract specifications
that the modules to their right implement. MCPublish and MCConfigure extend both
of the modules they check. Queue works on ByteFifo's operations (a sequence of
bytes with a capacity), which RingBuf is shown to implement; MqttClient works on
a queue that is reduced to what Queue guarantees of it. Wifi explains where
MqttClient's `wifiConnectCb` comes from; Sleep's properties `LooksAgain` and
`TicksWhileFilled` are the fairness Recovery assumes of `goToSleep` and
`mqtt_timer`, and its `Recovers` is what Sleep's hypothesis `DrainedInTime` asks
of the client. HttpConfig takes the store for atomic, which Config shows.

### Config

`sector` holds an image per sector: does its first word match `CFG_HOLDER`, and
is the rest a complete configuration. `CFG_Load` is one action, since it only
reads until it calls `CFG_Save`. `CFG_Save` is one action per flash operation,
with a begin and an end where the operation takes time: in between, the sector
is torn (the first word may match or not) and the flag byte is undefined.
`Reset` is enabled everywhere. Its callers are `user_init` (`Boot`) and the HTTP
handlers (`Request`, `SetData`, and the reload that answers a POST). These are
modelled although the server is switched off, since they are the only callers
that ever change a configuration. After a reset inside a flag write the flag
reads 0, 1 or 255: `config.c` tells zero from non-zero, and 255 stands for every
other value.

AtomicConfig is the store a user imagines: one stored configuration, replaced in
one step. The refinement maps it to the sector in force (`InForce`): the one the
flag selects, or, while `CFG_Save` rewrites the flag, the old one. A save takes
effect when the flag is written, or at a reset that leaves the flag switched.

The flash is assumed to do what it is told. `config.c` ignores the results of
`spi_flash_erase_sector` and `spi_flash_write`; a failing flash is outside the
model and is listed as a hazard without a property.

### RingBuf

Pointers are offsets from `p_o`; `Rollback` is the pointer's wrap. `ret` records
the return code and the character returned, so that the refinement to ByteFifo
also covers what a caller sees.

### Queue

Each `RINGBUF_Put` and `RINGBUF_Get` is one action, because a `QUEUE_Puts` that
fails leaves the bytes it stored in the ring. `caller` distinguishes
`MQTT_Publish`, `MQTT_Subscribe`, `MQTT_UnSubscribe` and `MQTT_Ping` (publish:
on failure remove a message and retry until there is none) from the replies in
`mqtt_tcpclient_recv` (one attempt) and from `MQTT_Task` (reads). `isBegin` starts
as `Garbage`, because `PROTO_Init` does not set it; reading it in that state
yields either value. The history variables `tags`, `sent`, `pending` and `last`
record where each byte in the ring comes from.

MsgFifo is what callers expect: a message handed out is the oldest of those
accepted completely, and a failed `QUEUE_Gets` means there is none.

### MqttClient

One action per handler: `wifiConnectCb` (with `MQTT_Connect` or
`MQTT_Disconnect`), `mqtt_dns_found`, the TCP events with the callback they run
(`TcpConnected`, `TcpSent`, `TcpRecv`, `espconn_Task` for close and error),
`mqtt_timer`, `goToSleep`, `MQTT_Publish`, and `MQTT_Task` with one disjunct per
case of its switch. `TcpEnds` is the network or the broker ending a connection.
`Restart` is power loss, the watchdog or a fault.

Abstractions:

- `wifi` is `GOT_IP` or `IDLE`, which stands for every station status without an
  address (connecting, no AP, wrong password, failure); one of these can follow
  another.
- `hostIsIP`: the host of the configuration is an address for `UTILS_StrToIP`, or
  a name; either way, until the next start. A DNS query is answered with an
  address, with 0.0.0.0, which changes nothing but posts an event, or without one.
- A node is `syn`, established (`est`, `sent` once CONNECT went out, `acked`
  once CONNACK came in), or has a `close` or `error` signal waiting for
  `espconn_Task`. `sent` and `acked` describe the broker's side and keep it from
  sending a second CONNACK. `shut` is a node that was closed in vain: `tcp_close`
  had no memory for its FIN, nothing is received any more, no signal was posted,
  and nothing but another disconnect tries again (`espconn_client_close`).
- espconn's calls, closing included, may fail at any time for reasons of its own
  (memory, nodes, a missing address). Where the code ignores the result, so does
  the model.
- The queue is a number of whole messages and whether an unfinished one follows;
  `AfterPublish`, `AfterReplies` and `AfterGets` allow every result Queue can
  have, eviction and "Serious buffer error" included.
- A TCP segment is a sequence of packets. After a PUBLISH the next packet in the
  segment is read, after any other packet the rest is dropped, as in
  `mqtt_tcpclient_recv`. The empty sequence is a segment that is too long.
- A freed block: `espconn_delete` removes no node of a client connection, so a
  node or query may point to freed memory. A callback through it either finds
  the old contents and runs, or finds no callback, or the device faults. The
  same holds for a NULL `pCon` in `mqtt_dns_found` and a timer without function:
  these fault, which is `Restart`.
- `forced` records that a block was freed while something pointed to it. It is
  history; no guard reads it.
- The interrupt's call of `wifi_check_ip` is a step of its own here, not a
  preemption of another handler. Wifi and Sleep model it as one.

Left out: `MQTT_DeleteClient` (nobody calls it), the SSL variants (`security` is
0), the contents of messages (see MqttMsg), the callbacks that only print.

### Recovery

MqttClient with one more variable, `calm`. Before `Settle` anything happens that
MqttClient allows; afterwards the Wi-Fi has an address, the broker answers,
espconn accepts what it can accept, nobody publishes and nothing restarts. The
calm actions are the client's own, restricted by what the surroundings answer
(`RecoveryAssumption` has the broker answer CONNECT with a CONNACK in a segment of
its own). `NameBlocks` bounds the heap addresses while the host is a name.
Two assumptions are about time: an event is handled within the 100 ms between
two ticks of `mqttTimer`, and a buffer is acknowledged within the keep-alive
time.

### Wifi

`wifi_check_ip` runs on the thread, called by `wifi_handle_event_cb`, and in the
GPIO interrupt. The handler's call is split at its accesses to `wifiStatus` and
`lastWifiStatus`; the interrupt's call is one step and can come in any gap of
the behaviours that `preempts` allows it in; the others have none, and for them
the refinement below holds (`Undisturbed`). Where the C code names `wifiStatus`
several times, the model reads it once for the comparison, the assignment and
the call, because the compiler keeps it in a register between two calls of other
functions. `told` is what `wifiCb` was called with last. The station (`station`,
`attempt`, `events`) is the SDK: it progresses while an attempt is under way and
may give up at any time, in any status without an address, with or without an
event. Events that print only behave as
`CONNECTED` does.

StatusFeed is what the application expects of it: statuses are sampled, and one
that differs from the one told last is told, once.

### Sleep

Time in ticks of 10 ms, and one countdown for each of the three timers.
`goToSleep` is split into its statements, with the interrupt between any two of
them: it disarms its timer, looks at the queue (`look`), then arms or stops the
timers and sets the sleep type. `overwritten` remembers that the last interrupt
that ended light sleep came while `goToSleep` was on its way there
(`GoingToSleep`): from its first statement on, with the queue empty. A timer's
callback may run up to `Slack` ticks late. The interrupt is taken while GPIO14
is low; within the debounce it does nothing and comes again. Its call of
`wifi_check_ip` is one of nothing, `MQTT_Connect` or `MQTT_Disconnect`, as far
as these touch `mqttTimer`. A timer without a function restarts the device
(`NullCall`). Of the queue there is only `filled`.

### Measure

`sendADCData`, one action per turn of its loop. An input gives any of `Sums`;
`select` is the state of the three outputs to the multiplexer, and the sample
comes from the input they select. `mqttValue`, the one text buffer, is the number
it shows. Multipliers are in tenths. `free` counts the measurements the heap has
room for, since every one takes 104 bytes and their headers for good.

### MqttMsg

Encoders and decoders over sequences of bytes. `request` and `out` hold the last
request and the message made of it. The encoders append step by step and give up
when one step does not fit; the model compares the whole, which is the same,
except for the id of a PUBLISH, which is taken before the payload is known to fit
(`mqtt_msg_publish`). `fini_message` writes one or two bytes of length, which is
enough for the buffer (`MsgAssumption`: at most 16383 bytes behind the header;
the firmware has 1024). `mqtt_get_total_length` is the loop of the code as a
recursive function over the position. `ConnectParses` is a reader of its own: it
walks over the strings of CONNECT as the flags tell it to. The broker's PUBLISH,
PUBREC and PUBREL are copied into
`in_buffer`, with a second packet or stale bytes behind them, and answered as in
`mqtt_tcpclient_recv`.

### Utils

The three parsers over a string of ASCII codes: each loop is a recursive function
that gives its variables by the number of characters read, with the 8-bit
variables of `UTILS_IsIPV4` cut to 8 bits. The int of `UTILS_StrToIP` wraps at
`IntBound` (`Wrap`; really 2^31): C leaves the overflow undefined, the build
multiplies and adds 32-bit registers. `HexDigits`
stands for the eight digits of a `uint32_t`. The properties compare the loops with
sets: the dots of the string, and the cuts at three of them that leave four
numbers (`Quads`).

### HttpConfig

A request is a sequence of tokens, cut into segments anywhere; `whole` remembers
that its header came in one piece and into an empty buffer. `RecieveCallback` is
the whole handler: append, test for completeness, decode and store, reload,
empty the buffer, answer. The decoding loops are set definitions over the
positions of `=` and `&`; decoding skips the two characters after a `%` before it
looks at anything else, as the code does. A form has each of its fields once and
no field is called `=` or `&` (`HttpAssumption`: the page has fixed fields, and a
browser encodes such names). `Text` is every token that can be in the buffer, and
hence in a value. `Fault` is `HTTPConfig_SetData` without the end of the
header, which goes on at `NULL + 4`. `ConnectionError` loses the connection in
the middle of a request and, as in the code, leaves the buffer alone. Fields are
strings here; the conversion of the numeric ones is left out. Buffers are
assumed to be long enough: `os_realloc` leaves no room for the terminating 0 and
the request line is copied into 16 bytes. Nor is there a heap: the handler frees
the segment, and espconn frees it again. Both are listed as hazards.

## 3. Runs

| Run | Model | Result |
|---|---|---|
| `config` | `MCConfig.cfg` | `TypeOK`, `RunsOnStored`, `AtomicSave` hold |
| `ringbuf` | `MCRingBuf.cfg` | `TypeOK`, `IsFifo` hold |
| `queue` | `MCQueue.cfg` | `TypeOK`, `BeginIsSet`, `IsMsgFifo`, `CallReturns` hold |
| `queue_fits` | `MCQueueFits.cfg` | `FittingPublishSucceeds` is violated |
| `client` | `MCMqttClient.cfg` | `TypeOK`, `NoLostWakeup`, `SessionMatches`, `RestsOffline` hold |
| `client_old` | `MCMqttClientOld.cfg` | `OldConnectionReleased` is violated |
| `recovery` | `MCRecovery.cfg` | `NotStalledForever`, `Reconnects`, `Recovers` hold |
| `wifi` | `MCWifi.cfg` | `TypeOK`, `AgreesUnlessOvertaken`, `FeedsStatus`, `Converges` hold |
| `sleep` | `MCSleep.cfg` | `TypeOK`, `NeverStuckAwake`, `KeptAwakeUnlessOverwritten`, `SleepsAgain`, `LooksAgain`, `MeasuresAgain`, `TicksWhileFilled` hold |
| `sleep_race` | `MCSleepRace.cfg` | `KeptAwake` is violated |
| `publish` | `MCPublish.cfg` | `TypeOK`, `ShowsOwnInput`; `Decodes`, `AnswersItsId`, `IdsFresh`, `ConnectParses` hold |
| `configure` | `MCConfigure.cfg` | `TypeOK`, `StoresTheForm`, `AnsweredOnce`, `Reopens`; `ParsesAddresses`, `ResolvesNames`, `AtohReads` hold |

`config`. Three configurations: the default and two others, so that the old, the
new and the made-up one differ. Nothing else is bounded. After any number of
interrupted saves the application runs on a complete configuration, the one the
next reset brings back, and what is stored changes in one step.

`ringbuf`. Four slots and three characters; every position of both pointers and
every fill level occur. The real size is 2048; the theorem covers it.

`queue`. A ring of 7 bytes (really `QUEUE_BUFFER_SIZE`, 2048) and messages that
take 2, 3, 5 and 8 bytes in it: an empty one, a plain one, one that contains a
byte to escape next to the escaped form of another, and one that never fits.
Four messages are offered (`MaxPuts`): enough for two complete messages, one cut
off by a full ring and one that follows the cut. Deadlock is not checked, since
after the last message the run may stop.

`queue_fits`. The same ring without the message that never fits. See findings.

`client`. A broker known by name or by address, two heap addresses (one for a
stale block and one for a new block, or the same address handed out twice), one
outstanding DNS query per block, room for one whole message. The limits for
reconnect, keep-alive and sending are 1, so that each counter is below its limit
at one tick and beyond it at another: larger limits only multiply the states
(3.2 million here). The blocks are symmetric. The theorems cover all
values, also those the firmware is built with (send timeout 5, reconnect 5,
keep-alive from the configuration, all in ticks of `mqttTimer`).

`client_old`. Two blocks, all limits 1, and no room for a DNS query.

`recovery`. A broker known by address with two blocks, so that stale nodes exist
beside the current one; a broker known by name with one, so that a freed block's
address is always reused. The limits for reconnect and keep-alive are 0, the send
timeout 1. No symmetry, as is required for liveness. A second block for a name or a
third for an address would take longer than a run should, so that `Recovers` is
shown for these bounds and no more.

`wifi`. Two failure statuses, which tells one failure after another from a
repeated one, beside the statuses nothing retries. Nothing else is bounded.

`sleep`, `sleep_race`. The delays of the code (10, 100, 500 and 100 ms), 50 ms
for the debounce (10000 ticks of the RTC are 50 to 60 ms), three wake-ups per
measurement. The interrupt starts the timers afresh no more often than every
third time, 150 ms apart; `goToSleep` is due after 100 ms. So it runs as long as
callbacks are less than 50 ms late: `Slack` is 4 ticks, and with 5 `LooksAgain`
is violated. That margin is the result of this run.

`publish`. MCPublish lets either Measure or MqttMsg run: they share no state and
neither can interrupt the other, so nothing is gained by interleaving them.
Measure: two values per input, so that a wrong input shows, one multiplier large
enough for 16 bits to overflow, and room for two measurements in the heap.
MqttMsg: a buffer of 132 bytes (really 1024), payloads that put the remaining
length at 126 to 129 and messages on both sides of the buffer's end, ids modulo 4
(really 65536).

`configure`. MCConfigure does the same with HttpConfig and Utils. HttpConfig:
three forms (a value with characters to escape beside an empty one, an unknown
key, no fields at all), requests cut into segments in every way, one lost
connection. Utils: all strings of up to seven of the tokens `.`, `0`, `255`,
`256`, `999` and `fA`: seven are needed for an address. An int wraps at 512
(`IntBound`): 256 is held and refused, 999 and what several tokens make wrap, to
negative numbers, to bytes and to others. Three hexadecimal digits
instead of eight.

### Fairness

Queue: weak fairness of the steps of `PROTO_AddRb` and `PROTO_ParseRb`, because
a call runs to completion once begun. Recovery: weak fairness of `MQTT_Task`
(the SDK runs a task that has an event), of `goToSleep` (the wake-up interrupt
recurs as long as the capacitor discharges and arms its timer on every third
occurrence; it arms itself again every 500 ms while the queue is filled) and of
`mqtt_timer` (an armed periodic timer fires every 100 ms). The last two are what
Sleep shows: `LooksAgain` and `TicksWhileFilled`. Nothing is assumed of
the broker, the network, DNS, the Wi-Fi or the sensors: in particular a
connection attempt may hang for ever, and the client then hangs with it. That is
what the code does (no timer looks at `TCP_CONNECTING` or
`MQTT_CONNECT_SENDING`). Once it is calm, weak fairness of the network, the Wi-Fi
and the broker is added.

Sleep: time passes, the capacitor discharges, an interrupt is taken,
a due callback runs and ends; nothing of the queue, the connection or the
debounced interrupts. Wifi: the event handler runs to its end and takes every
event, and the interrupt recurs (`LooksAgain` again). HttpConfig: the browser
sends what it has begun to send, and the user asks again.

### What the properties say

- `RunsOnStored`: when the application runs, `sysCfg` is complete and equals the
  sector a reset would load, although `CFG_Load` looks at one word only.
- `AtomicSave`, `IsFifo`, `IsMsgFifo`: the refinements of section 2.
- `BeginIsSet`: the parser never reads its uninitialised flag. It holds because
  a ring is always consumed up to a message boundary or completely.
- `CallReturns`: every queue call ends, including the retry loop on a message
  longer than the ring.
- `NoLostWakeup`: `TCP_RECONNECT`, `MQTT_KEEPALIVE_SEND`, a block to free and a
  connection that espconn has yet to be asked to close never wait without an
  event. After the call a close may have failed, and then nobody is told.
- `SessionMatches`: until a block is freed by force, messages and keep-alive
  requests go out only on a connection whose own CONNACK was seen.
- `RestsOffline`: the states that only a change of the Wi-Fi leads out of
  (`WIFI_INIT`, `TCP_DISCONNECTING`, `TCP_DISCONNECTED`) are left when the Wi-Fi
  gets its address, and no late event of a connection from before leads back.
- `NotStalledForever`: `mqtt_timer` clears `sendTimeout` without posting an
  event. The queue then waits for an unrelated event, and the keep-alive ticks,
  which run because `goToSleep` found the queue filled, are what brings it.
- `Reconnects`: a client in `TCP_RECONNECT_REQ` with something to send leaves
  it. With an empty queue it stays, since nothing arms `mqttTimer` then.
- `Recovers`: after any past, a calm network lets the queue drain, or the client
  is `Hung`: in `TCP_CONNECTING` with nothing started, in
  `MQTT_CONNECT_SENDING` with no CONNECT or CONNACK under way, or in
  `TCP_RECONNECT_DISCONNECTING` with no signal to come. The last is where a
  keep-alive that failed leads when the connection's close fails, too, or when the
  connection belonged to another block (a stale CONNACK).
- `FeedsStatus`: the refinement of StatusFeed, fairness included.
- `AgreesUnlessOvertaken`: of the five gaps in which the interrupt can hit
  `wifi_check_ip`, only that between the assignment of `lastWifiStatus` and the
  callback can make the application's view differ from it.
- `Converges`: in spite of stale copies `lastWifiStatus` becomes the status the
  station settles on.
- `NeverStuckAwake`: a device kept awake has `goToSleep` ahead of it.
- `SleepsAgain`, `LooksAgain`, `MeasuresAgain`, `TicksWhileFilled`: timers that
  interrupts and handlers keep starting afresh still fire.
- `KeptAwakeUnlessOverwritten`: a filled queue that is to be looked at again keeps
  the device out of light sleep, unless the interrupt hit `goToSleep` on its way to
  light sleep, in any of the gaps from its first statement on.
  `KeptAwake` is the same without the exception, and is refuted.
- `ShowsOwnInput`: each message shows its own input, scaled; channel 5 is the
  exception.
- `Decodes`, `AnswersItsId`, `IdsFresh`, `ConnectParses`: the codec read back; the
  id answered is the id asked, although it is searched in stale bytes; ids over
  the wrap; the flags of CONNECT announce the strings that follow.
- `ParsesAddresses`, `ResolvesNames`, `AtohReads`: the parsers against what an
  address and a number are: where the dots of the string are, and what the digits
  in between stand for. Every address passes and is read as its numbers. Names,
  and numbers above 255 that an int holds, do not pass `UTILS_StrToIP`; of
  `UTILS_IsIPV4` it is only claimed that four numbers are needed.
- `StoresTheForm`, `AnsweredOnce`, `Reopens`: form to configuration, whatever the
  segments; one answer; no half request blocks the page for good. Requests whose
  header is cut, the conversion of numeric fields, and the heap, whose blocks the
  handler frees a second time, are outside.
- `OldConnectionReleased`, `FittingPublishSucceeds`, `KeptAwake`: refuted, below.

Each property has a mutant, a definition next to the one it distorts, that makes
it fail.

### Findings

1. `MQTT_Publish` can lose everything although the message fits
   (`src/mqtt/mqtt.c:512`, run `queue_fits`). Each failed `QUEUE_Puts` leaves its
   unfinished frame in the ring, the next attempt is stored behind it. With one
   short message queued, a message that fits is refused, the queued message is
   thrown away, and the retry finds no room behind the unfinished frame.
   `QUEUE_Gets` then drains the ring and reports "Serious buffer error".
2. A connection that is replaced is not released (`src/mqtt/mqtt.c:786`, run
   `client_old`). `MQTT_Connect` frees the old block "forcefully", but
   `espconn_delete` looks for it among the servers only; the node stays in
   espconn's list and points to freed memory. A Wi-Fi drop and recovery before
   `MQTT_Task` has run is enough. After this, callbacks run through freed memory
   and `SessionMatches` is no longer guaranteed, which is why it carries the
   condition `~forced`. It fits the re-connection trouble the repository's
   README describes.
3. A device can fall into light sleep with a filled queue
   (`src/modules/sleep.c:175`, run `sleep_race`). The third interrupt between
   `goToSleep`'s `os_timer_disarm` and its `wifi_set_sleep_type(LIGHT_SLEEP_T)`,
   before the look at the queue or after it, sets `NONE_SLEEP_T`, which is
   overwritten. "Keep the IC awake and let the queue
   process" never sets it again.

### Other behaviour the models contain

The models do what the code does here as well, the properties above are stated
around it, and no run of its own refutes anything.

- `mqttTimer` is armed before it has a function (`src/modules/sleep.c:169`).
  Measurements do not wait for the Wi-Fi; the function is set in the first
  `MQTT_Connect`. Sleep's `NullCall`.
- Channel 5 is never sent (`src/modules/sleep.c:121`): its case lacks the
  `os_sprintf`, and the message repeats channel 4's text. The exception in
  `ShowsOwnInput`.
- Every measurement leaks its two buffers (`src/modules/sleep.c:62`): about 120
  bytes each time, so that some 350 measurements exhaust 40 KB and the device
  restarts with an empty queue. Measure's `OutOfMemory`.
- `UTILS_IsIPV4` accepts numbers above 255 (`src/mqtt/utils.c:73`): the
  accumulator is 8 bits wide, and the test `> 255` refuses nothing. `ParsesAddresses`
  makes no claim about them. The firmware does not call it; the connect path asks
  `UTILS_StrToIP`.
- `UTILS_StrToIP` accepts numbers that overflow its int (`src/mqtt/utils.c:109`):
  1.2.3.3000000000 becomes negative and passes `n >= 256`. Utils' `Wrap`; the bound
  in `ResolvesNames`.
- A close that fails is never tried again, and nobody is told
  (`third_party/lwip/app/espconn_tcp.c:634`), although its comment says "try again
  later". MqttClient's `shut`; Recovery's third state in `Hung`.
- A station that gives up in a status `wifi_check_ip` has no case for
  (`src/modules/wifi.c:31`), without a disconnect event, is not connected again by the
  firmware. Wifi's `Fail`.
- An error that comes while a connection is being closed for lack of Wi-Fi turns the
  disconnect into a reconnect (`src/mqtt/mqtt.c:481`). MqttClient's
  `mqtt_tcpclient_recon_cb`.
- A POST whose header is cut before `Content-Length` is handled at once
  (`src/modules/http_config.c:367`), through a NULL pointer. HttpConfig's `Fault`;
  `whole` in `StoresTheForm`.

## 4. Proofs

All proofs are checked by TLAPS to the last leaf; they use the assumptions named
in the modules (`ConfigAssumption`, `RingBufAssumption`, `QueueAssumption`,
`ClientAssumption`, `SleepAssumption`, `WifiAssumption`, `MeasureAssumption`,
`MsgAssumption`, `HttpAssumption`, `UtilsAssumption`), which TLC evaluates in the
runs, as it does `RecoveryAssumption`, which no proof uses.

| Theorem | Statement | Inductive invariant |
|---|---|---|
| `ConfigProofs!RunsOnStoredHolds` | `Spec => [](TypeOK /\ RunsOnStored)` | `ConfigInv` |
| `ConfigProofs!AtomicSaveHolds` | `Spec => AtomicSave` | `ConfigInv` |
| `RingBufProofs!TypeCorrect` | `Spec => []TypeOK` | `RingInv` |
| `RingBufProofs!IsFifoHolds` | `Spec => IsFifo` | `RingInv` |
| `QueueProofs!BeginIsSetHolds` | `Spec => [](TypeOK /\ BeginIsSet)` | `QueueInv` |
| `QueueProofs!IsMsgFifoHolds` | `Spec => IsMsgFifo` | `QueueInv` |
| `MqttClientProofs!NoLostWakeupHolds` | `Spec => [](TypeOK /\ NoLostWakeup)` | `TypeInv` and the property |
| `MqttClientProofs!SessionMatchesHolds` | `Spec => []SessionMatches` | `SessionInv` |
| `MqttClientProofs!RestsOfflineHolds` | `Spec => []RestsOffline` | the property |
| `ConfigProofs`, `QueueProofs`, `MqttClientProofs`: `TypeCorrect` | `Spec => []TypeOK` | as above |
| `WifiProofs!TypeCorrect` | `Spec => []TypeOK` | `TypeOK` |
| `WifiProofs!AgreesUnlessOvertakenHolds` | `Spec => []AgreesUnlessOvertaken` | `AgreeInv` |
| `WifiProofs!FeedsSafely` | `Spec => Feed!Spec` | `AloneInv` |
| `SleepProofs!TypeCorrect` | `Spec => []TypeOK` | `TypeOK` |
| `SleepProofs!NeverStuckAwakeHolds` | `Spec => []NeverStuckAwake` | the property |
| `SleepProofs!KeptAwakeHolds` | `Spec => []KeptAwakeUnlessOverwritten` | `AwakeInv` |
| `PublishProofs!MeasureTypeCorrect` | `Spec => []TypeOK` (Measure) | `MeasureInv` |
| `PublishProofs!ShowsOwnInputHolds` | `Spec => []ShowsOwnInput` | `MeasureInv` |
| `PublishProofs!IdsFreshHolds` | `MsgSpec => []IdsFresh` | `IdInv` |
| `PublishProofs!DecodesHolds` | `MsgSpec => []Decodes` | `CodecInv` |
| `PublishProofs!AnswersItsIdHolds` | `MsgSpec => []AnswersItsId` | `CodecInv` |
| `PublishProofs!ConnectParsesHolds` | `MsgSpec => []ConnectParses` | `CodecInv` |
| `ConfigureProofs!PageTypeCorrect` | `Spec => []TypeOK` (HttpConfig) | `PageInv` |
| `ConfigureProofs!StoresTheFormHolds` | `Spec => []StoresTheForm` | `PageInv` |
| `ConfigureProofs!AnsweredOnceHolds` | `Spec => []AnsweredOnce` | `PageInv` |
| `ConfigureProofs!ParsesAddressesHolds` | `UtilsSpec => []ParsesAddresses` | `UtilsInv` |
| `ConfigureProofs!ResolvesNamesHolds` | `UtilsSpec => []ResolvesNames` | `UtilsInv` |
| `ConfigureProofs!AtohReadsHolds` | `UtilsSpec => []AtohReads` | `UtilsInv` |

The arguments:

- `ConfigInv` adds to `RunsOnStored` that the sector in force is whole or blank
  at every point of a save, that the RAM copy being saved is whole, and how far
  the save has come. Without the last, a torn sector could be the one the flag
  selects.
- `RingInv` adds `PointersAgree`: the write pointer is `fill_cnt` slots after the
  read pointer. Types alone do not say where the oldest character is.
- `QueueInv` describes the ring through the tags: each byte is the one its tag
  names (`Tagged`), neighbours belong together or a new message begins
  (`Linked`), message numbers do not decrease (`Ordered`), a message is pending
  exactly when its end is in the ring (`PendingEnds`), what the writer
  wrote last (`Writer`), what the parser has collected (`Parser`). A frame
  without an end is followed by an opening 7E or by nothing, which is why
  unfinished frames never damage their successors.
- `TypeInv` adds `KeepAliveBound`: in `MQTT_DATA` the keep-alive counter has not
  passed its limit yet. Otherwise its bound would not survive a tick.
- `SessionInv` holds until a block is freed by force: only the current block has
  a node or a query (`OnlyCurrent`), the callbacks are registered on an
  established connection (`Registered`), `MQTT_CONNECT_SENDING` means that
  CONNECT is pending on it (`Handshake`), and a session means that its CONNACK
  came in (`Accepted`).
- `AgreeInv` adds what holds inside the gap: between remembering and calling,
  `lastWifiStatus` is what the handler is about to tell. `AloneInv` says, step by
  step, which of the copies `value`, `wifiStatus`, `lastWifiStatus` and `told`
  already agree; the refinement reads the status sampled last off them.
- `AwakeInv`: unless `overwritten`, light sleep is over whenever `goToSleep` is
  armed or has found the queue filled, and it is not armed while it lets the device
  sleep. The second half is what the interrupt breaks.

- `MeasureInv` adds to `ShowsOwnInput` that the messages come in the order of their
  topics (`InOrder`), so that a sample taken now is not one a message already
  shows, that the text buffer still holds channel 4's value when channel 5's turn
  comes, and that a measurement under way has taken its buffers before it is
  counted. `SetSelects` shows for each channel that the outputs `setADC` leaves
  select it.
- `IdInv` gives the ids in use in closed form: the k-th latest is `message_id`
  counted back k - 1 times over 1 to `IdMod - 1`. That no id is used twice then
  follows from arithmetic, at the wrap too.
- `CodecInv` is `IdInv` and what is read back of the last message. A frame
  (`Framed`) is described byte by byte: header, one or two bytes of length, body.
  `FiniFrames` shows that `fini_message` makes one and that no byte of it
  overflows, `FramedStarts` that it stays one with anything behind it (a second
  packet, stale bytes of `in_buffer`), `FramedBody` and `FramedTotal` that the
  decoders' loop stops at the body and adds up its length. `PublishParts` and
  `ConnectLaysOut` say where each string is; `ReadsPublish`, `ReadsAck` and
  `ConnectBodyParses` read them there. `FlagsApart`: the flags of CONNECT have
  bits of their own.
- `PageInv` says of a request whose header came whole that it is served, or that
  buffer and rest together are still the message (`Collecting`) and the buffer has
  the whole header or nothing; and, while no connection was lost, that the buffer
  holds nothing of an older request. When the header is whole,
  `HTTPConfig_AllInBuffer` is true exactly at the last token (`Complete`), so
  that the body that is decoded is the one that was posted. `DecodeEncode` shows
  that decoding undoes the browser's encoding for every value, `PairIs` and
  `FormBodyIs` where the loop of `HTTPConfig_SetData` finds each pair, and
  `SetDataIs` that together they store what the form says (`Applied`).
- `RestsOffline` is inductive as it stands: each handler that leads into one of the
  three states either is the Wi-Fi's loss or starts from one of them. The proof is
  the list of these handlers.
- `UtilsInv` says of the string only that it is one of integers; what the
  functions return is then shown of every string, of any length and with any run
  of digits. Each loop exists as a function (`LoopExists`, since TLA+ defines a
  recursive function by a choice) and takes the turns the code takes
  (`IPV4LoopIs`, `StrToIPLoopIs`, `AtohLoopIs`). An induction over the
  characters read goes each way. Forward: as long as a loop has not failed, the
  numbers it counted are laid out in the string, each of digits and each ended
  by its dot (`Laid`), and the bytes of `UTILS_StrToIP` are these numbers
  (`IPCut`) as far as an int holds them: an int that wraps is still the number
  as long as that is below `IntBound` (`Tracks`), since a number never shrinks
  when a digit follows. Back: along four numbers with dots in between (`IsQuad`)
  a loop is always inside one of them (`Within`) and does not fail, with every
  number below 256 for `UTILS_StrToIP` (`IPWithin`). `chcnt` does not wrap back
  to 0 at the end of a number since the string is shorter than 256. That names
  fail uses the forward half: three dots would be there (`CardThree`), with
  digits only before the third, and any four numbers are the ones found
  (`SameCut`).
- `UTILS_Atoh` holds the remainder of the number read so far (`Fits`). The last
  digits are that remainder (`LastDigits`): the number is what stands before them,
  times a power of 16, plus less than that power; and division with remainder has
  one result (`DivUnique`).

Facts about sequences of any length are proved by least counterexample: a set of
natural numbers that is not empty has a smallest element (`Least`). `FlattenLays`
shows in this way how `FlattenSeq` lays its sequences one behind the other, which
both the encoding and the decoding are built from.

Only model-checked: the liveness properties (`CallReturns`, `NotStalledForever`,
`Reconnects`, `Recovers`, `Converges`, `SleepsAgain`, `LooksAgain`,
 `MeasuresAgain`, `TicksWhileFilled`, `Reopens`, the fairness of
`FeedsStatus`), since TLAPS does not reason about fairness and ENABLED. Every
invariant and every refinement of the runs is a theorem; of `FeedsStatus` it is
the safety part (`FeedsSafely`).

## 5. Plan

Done: all components of the firmware itself, and a theorem for every safety
property that a run checks.

Left: a composition of MqttClient, Wifi and Sleep in which the interrupt preempts
`MQTT_Connect` and `MQTT_Disconnect` statement by statement. Wifi and Sleep show
which preemptions of their own handlers matter; inside the client every statement
of `MQTT_Connect` would become a step, which multiplies the states of the largest
model by the number of gaps.

### Not modelled

- `MQTT_DeleteClient` and `mqtt_client_delete`, `PROTO_Add` and `PROTO_Parse`,
  `gpio16_input_get`: no caller in the firmware.
- The SSL variants of the espconn calls: compiled out, `security` is 0.
- The HTML of the configuration page, `ftoa` and the numeric fields: formatting.
- Pin multiplexing (`gpio16.c`, the registers of `sleepInit`): writes without
  state of their own.
- A failing flash, heap exhaustion other than that of Measure, buffers that are too
  short, and the double free of the HTTP page: listed as hazards.
- The SDK below espconn, the TCP/IP stack, the UART and SPI drivers, the C and C++
  headers of the toolchain, the SSL stack and the examples: vendored. They are
  some 180,000 lines of the repository; the firmware's own code is about 3,000,
  and the modules' map covers most of it.
