# Verification of the esp32base firmware

The firmware (`main/`, `components/`) turns an ESP32 board with WiFi, Ethernet,
three UARTs, buttons and LEDs into a gateway: it keeps an MQTT session to a
broker, serves web pages, TCP and UDP multicast clients, and is configured by text
commands on the debug UART and on a web page. A client of the hx-kong cloud, a
WebSocket server and an HTTP client are built too, but nothing in `main/`
puts them to work (see their sections). It runs on FreeRTOS with lwIP on two
cores; almost no state is locked. This directory holds TLA+ models of its parts,
the TLC runs that check them on small instances and TLAPS proofs for all instances.

## The system's parts

| Part | Source | State | Operations | What is hard | Module |
|---|---|---|---|---|---|
| MQTT client life cycle | `components/espmqtt/mqtt_client.c`, `lib/transport_tcp.c`, `main/trans_data.c:110` | client object (`run`, state, event bits), its task and socket, `g_mqttClient`, the MQTT LED | `event_handler`, `mqtt_app_start`, init, start, stop, the task's loop | the stop handshake through one event bit; two tasks in `mqtt_app_start`; one LED for all clients; sockets lost on failure | `MqttClient` |
| MQTT session | `mqtt_client.c`, `lib/mqtt_outbox.c`, `lib/mqtt_msg.c` | one output and one input buffer, the pending request, the outbox | connect, subscribe, unsubscribe, publish, receive | buffers shared with application tasks; late, lost and coalesced answers | `MqttSession`, `MqttMsg` |
| Configuration | `main/main.c`, `main/cfg.c`, `main/trans_data*.c`, `components/spi_data` | the configuration sector, the RAM copies of the tasks | boot check, factory reset, ten commands | neither erase nor write is atomic; commands in two tasks; restarts and power failures | `CfgStore` |
| Web server | `components/http/webserver.c`, `http_serv.c` | one client descriptor, one request buffer | accept task, receive task, reply, command | two tasks and one descriptor, numbers reused by lwIP | `WebServ` |
| TCP servers | `components/tcpserv`, `tcpserv2` | one client descriptor | accept task, receive task, send | takeover while `recv()` is under way | `TcpServ` |
| Keys | `components/h_gpio`, `main/main.c:319` | a state per key | sample | bouncing contacts, one task for four keys | `KeyScan`, `KeyEvents` |
| Cloud client | `components/hxkong_yun` | one static socket, one receive cache, the login | dispatch, login, frames | frames cut anywhere, one more task for each new address | `CloudLink`, `CloudFrames` |
| WebSocket server | `components/websocket/websocket*.c` | the client descriptor twice, handshake, frame cache | accept, handshake, cut and make frames | as the TCP server; frames cut anywhere; a cache that outlives its connection | `WebSockServ`, `WebSockFrames`, `UrlCode` |
| Digests | `components/websocket/sha1.c`, `wsock_md5.c` | a context each | reset, input, result | padding at block boundaries | `WsPad`, `WsDigest` |
| HTTP client | `components/http/zhHttp.c`, `zhsock.c` | one static descriptor, a task per request | GET, POST, size | requests that overlap; answers cut anywhere or broken off | `HttpClient`, `UrlCode` |
| UDP multicast | `components/udp_multicast` | last peer | receive, reply | the peer of the reply | planned |
| Linked lists | `components/zhlist` | doubly linked list | insert, add, delete, find, free | pointers | planned |
| Timers, UARTs, TLS, WiFi and Ethernet set-up, peripherals, helpers | see `PROJECT.json` | | | | not modelled |

How they meet: interface events reach `event_handler`, which restarts the MQTT
client (`MqttClient`). Commands reach `do_command` from
the debug UART task and, through `pfWebServ_Done`, from the web server's receive
task (`Done` of `WebServ`); they change the configuration (`CfgStore`) and
restart the MQTT client (`Command` of `MqttClient`). All network parts draw on
one pool of lwIP descriptors, and any part may end all others with
`esp_restart`, which every module has as an action or as an outcome of one.
`esp_mqtt_task`, whose life `MqttClient` models, does the work of `MqttSession`.

## The modules

Each component has a specification `X`, a module `MC_X` that TLC is run on,
configurations `X*.cfg` and, where something is proved, `XProofs` (`CfgStore` and
`KeyScan` share `DeviceProofs`). A definition
`A_Something` with a comment `fault:` is not part of the specification: it is
`A` with a plausible mistake, kept to show which property notices it.

### MqttClient

Callers (the event loop task and the tasks that run `do_command`) go through
`mqtt_app_start` statement by statement: `Enter`, `StopRequest`, `StopWait`,
`SetNull`, `ReadCfg`, `InitClient`, `StartCreate`, `StartClear`. Each client has
a task with the places of `esp_mqtt_task` (`TaskBegin` to `TaskSetBit`). A step
is one access to shared state. The stop waits on `STOPPED_BIT` for ever.

* `StopMeansStopped` - a stop that returned left neither task nor socket.
* `SingleClient` - unless two calls of `mqtt_app_start` overlapped (history
  `overlapped`), the only running session is the published one. With overlap it
  fails: nothing locks `mqtt_app_start`.
* `LitWhileUp` - under the same condition a session that is up has the LED lit:
  all clients share the LED, and none that was stopped before can switch it off
  any more. One direction only: `esp_mqtt_client_stop` and `tcp_close` dispatch no
  event, so the LED stays lit after a stop. Nor does it hold of a session that
  `cfgInit` finds up: `app_main` starts the interfaces and the tasks of
  `do_command` first (main.c:220) and `cfgInit` switches the LED off later
  (main.c:273). `CfgInit` is that step, and `ledReset` remembers whether a session
  has been dark since.
* `StopReturns` - a stop that begins when the start is over returns. A stop in
  the middle of a start may wait for ever (the task writes `run = true` after
  the stop wrote `false`); `Started` is the condition under which it cannot.
* `Reconnects` - a broken session is tried again.

Seen while modelling, without a run: `SYSTEM_EVENT_ETH_DISCONNECTED` falls
through into `ETH_GOT_IP` (main.c:115), so a lost Ethernet link restarts MQTT.
The model has the event that way. `event_handler` also calls `yun_app_start`, which
shares no state with this part and, as the cloud section says, creates no task.

Bounds: one command task, two clients (a restart gives the numbers back), one
socket. Two clients are what an overlap needs; the proofs are for any number.

### MqttSession

`esp_mqtt_task` builds, notes and writes its messages in four places (`Ask`,
`Enqueue`, `Note`, `Write`), an application task publishes with QoS 0 through
the same output buffer. The broker answers each message once and in order, at any
later time; it sends publications and pings of its own; a lost connection loses
what was under way. A read may return several messages, of which all but the first
are lost. A read is taken to begin and end between two messages, except within
`Encoded`: the code takes what a read begins with for a message (mqtt_client.c:511),
and what a message cut by a read leads to is not modelled.

* `AnswersCounted` - `pending_msg_count` is not 0 while a request is unanswered,
  unless two tasks met in the buffer or a random id was drawn twice (`mixed`).
* `ConnectedIsAccepted` - a client is CONNECTED only if the broker has accepted one
  of its connections (`accepted`). A read that times out returns 0, which is no
  error, and `esp_mqtt_connect` then looks at what is in `in_buffer`: a CONNACK of an
  earlier connection is taken for this one's. So it need not be this connection
  that was accepted; but a refusal, in time, late or left in the buffer, never
  counts as an acceptance. A late answer is read in the session it belongs to, as
  any other message.
* `Encoded` - the bytes of the messages, see below.

Pings, CONNECT and replies get into the outbox too, as soon as a request was
noted before them; the model has it so, and no property depends on it.

`MqttMsg` has the builders and readers of `mqtt_msg.c` and `deliver_publish` as
operators on sequences of bytes, and says of each message what reading it must
give: `PublishIsRead`, `AckIsRead`, `SubscribeIsRead`, `ConnectIsRead` and two
about lengths alone. `Encoded`, in `MC_MqttSession`, checks them for what the task
has built: messages built in buffers that are too small, just large enough or
larger are refused or are read back as they were meant, with a remaining length of
one byte and of two; `MqttSessionProofs` proves them for every topic, payload,
id, configuration and buffer of less than 16387 bytes (the firmware's have 1024;
beyond, two bytes do not hold the length). `SubscribeIsRead` says that the id of a
SUBSCRIBE longer than 127 bytes is read as 0. `PublishIsDelivered` cuts a PUBLISH
into reads that fit in `in_buffer`, told by where they end (`Cuts`, `Pieces`):
totals, lengths and offsets of the events are right, but from the second read on
topic and data are not claimed, because the read has overwritten the header they
are looked for in. The run tries up to three reads (`DeliveredInParts`), the proof
has any number of them. Two limits: the first read must hold some of the data, and another message behind the PUBLISH in the same
read makes `total_data_len` wrong and is not among the cuts. CONNECT names
protocol 3.1: no file defines `CONFIG_MQTT_PROTOCOL_311`. `mqtt_get_id` knows no
UNSUBSCRIBE.

Bounds: two message ids, four operations in all (`MaxOps`): a request, its
answer, a lost connection and a new one.

### CfgStore

The sector is a flag and eight groups of fields (`Items`) with abstract values;
erasing makes all of them erased bits, programming over something else mixes the
bits. A command is read, change, erase, write, each a step of its own. An erase
that fails or loses power leaves some items erased, some half erased and the others
as they were (`EraseCuts` are the sets of items tried, any two of them together); a
write may stop after any item or within it. Power failures and failing flash
operations are counted by `MaxFaults`. `Restart` ends every task, but not in the
middle of a flash operation, which holds up both cores.

`app_main` trusts the flag. Of a sector that has it and is incomplete
(`FalselyValid`) it copies strings without an end into 128 bytes (main.c:205),
which is undefined: the device panics (`BootPanics`) or goes on (`BootCheck`).
`setmqtt` and `setmqttinfo` call `mqtt_app_start`, which may wait for ever: at
place `mqtt` a task owes nothing (`MqttStarted` has no fairness), and whether the
wait ends is the subject of `MqttClient!StopReturns`.

* `Durable` - an acknowledged setting is lost only if commands overlapped, an erase
  or a write was cut off, or the device stopped between the two (`disturbed`).
* `ValidIsComplete` - a sector whose flag is valid is complete, unless an erase or a
  write was cut off or a write went over another one (`damaged`). The flag is the
  first word, so a cut write may leave a valid flag before erased fields, and a cut
  erase may leave any part of what was there.
* `ServicesReturn` - if the defaults parse, every boot ends with the services
  running and every command returns, reaches `mqtt_app_start` or ends in such a
  boot, as long as the sector is not falsely valid.

Seen while modelling, without a run: `setmqtt` stores the command word along with
the address, since it parses the whole line (cfg.c:169).

Bounds: safety with both command tasks and the commands that differ in control,
liveness with one task and eight commands (`connectwifi` and `mqttstart` differ from
`openwifi` and `mqttstop` only in what they assign); one fault, the smallest number
that reaches each kind of torn sector; cut erases that keep the flag and lose
fields, or lose the flag, or change nothing. The proofs are for any.

### WebServ

The accept task (`Accept`, `CloseOld`, `SetUse`, `ClearCache`) and the receive
task (`RecvBegin` to `Done`) step on `g_web_use_client_fd` and the request
buffer. Requests are cut into chunks of three kinds (with `GET `, with the empty
line, with neither), which is what `httpServReslovURL` tells apart; `cacheBuf`
is taken to end at `cacheLen`. Descriptors are numbers from a pool that gives out
the lowest free one, as lwIP does; `close()` of a number that is free does
nothing. `close()` ends a `recv()` of another task with -1.

* `RepliesToAsker`, `NoLeak` - no reply goes to the wrong client and no
  descriptor is lost except of clients that hung up, as long as the tasks do not
  work on two clients at once (`raced`: a client is accepted while another is in
  use, or is heard before the buffer is cleared for it). Both fail in the race.
* `Accepts` - the losses do not stop the server: the restart that a failing
  `accept()` makes gives the pool back.
* `ClosesOldOnly` (violated) - the accept task closes the connection it has just
  accepted when it got the number the receive task closed but did not forget.

Bounds: three clients, two descriptors, three chunks, a buffer of two chunks:
enough for a client in use, one that takes over and one that finds no descriptor.

### TcpServ

The same for `tcpserv.c`, where the receive task also cleans up. `raced` is a
takeover while the receive task is in `recv()`, or between its end and the
zeroing of the descriptor.

* `NoLeak` - otherwise no descriptor is lost; a client that hung up keeps its
  descriptor until the next one comes.
* `NewestStays` - otherwise the newest client keeps its connection.
* `Accepts` - as for the web server.
* `TakesOver` (violated) - `recv()` fails on the old descriptor, and the receive
  task closes the new one, since it reads `g_tcps_clientFD` again.

Bounds: four clients and two descriptors; a lost descriptor costs two clients,
and two lost ones leave none for the last.

### CloudFrames, CloudLink

`CloudFrames` is `mini-data.c` on bytes of `Base` values; the server's frames
are shorter than `Base * Base`, since a long length has two bytes. Nothing calls `yun_init`, which
would set the server's address: it occurs only in a comment of `hxkong_yun.h`. The
port stays 0 and `yun_app_start`, which tests it (hxkong_yun.c:45), creates no
task. The model is of the code as it runs once it is called. `CloudLink` is
`hxtcp_conn` - look-up, connect, receive, close, with the dispatch server and
then with the transfer server - and `dtrs_recv_data_callback`: a chunk is
received and copied into the cache in one step, and each pass of its loop is one
step (`CutFrame`). A second task on the same socket and cache can start whenever
the device gets an address. `login` and `rvlen` are variables of one pass of the
code's loop, which the model resets in `CloseSocket`.

* `InOrder` - what is given to the application is a prefix of the data frames
  the server sent, however they are cut (`clean`: one task is alone, no chunk
  overran the cache, the cache was empty at the start of the link, and no length
  was read before it had arrived). Without `clean` it fails: with three bytes of
  a long frame the fourth is an old one.
* `Arrives` - a frame that was received is given on in the end.
* `OnlyGranted` - frames are looked at only on a link whose server has granted
  the login. The server waits for an answer before it goes on, so a login that
  arrives together with its request is not a case.
* `NoLeak` - with one task and no failing connect, only the current socket is open.
  A failing connect leaks its socket (hxkong_tcp.c:93).
* `ReadBack` - what `iotYunSend` makes is read back, if the length with the
  command fits one byte.

Bounds: two tasks and one descriptor (two of both are too many states, and one is
enough for a task to use and close the socket of the other), four byte values,
frames with a head inside the parameter and a length of two bytes, two events. Of the cache bytes
behind `g_YunLen` only the fourth is kept, the only one that is read. A chunk
that is larger than the cache itself is not modelled, nor is `uart2_read`, which
has the same loop and which no driver calls.

### WebSockFrames, WebSockServ, WsPad, WsDigest, UrlCode

`WebSockServ` has the accept task, which stores the new descriptor before it
closes the old one, and the receive task with the handshake. A frame is looked
for after each chunk, and one at most is cut out. A chunk is received and copied
into the cache in one step. The cache is a
string for the handshake, and requests of earlier clients stay behind its end:
`Identify` may find their lines, and a client of the new protocol may so be taken
for one of the old, whose key is then a null pointer (`HandshakeWithoutKey`: the
device restarts). The method of the handshake outlives its connection until the
next client is set up.

Three things the code does are undefined, and the model has the outcomes a build
can produce, as far as they concern this server's state:

* A chunk that does not fit into `recvCache` closes the socket and is copied behind
  the cache all the same, over `recvLen` first (websocket_serv.c:28-37).
  `RecvOverflow`: the device panics, or goes on with any `recvLen` of `Garbage`,
  below, within or beyond the cache.
* A message is unpacked into `char str[1000]` without a bound, from a cache of 2000
  bytes (:49, :54). `Fits` says whether it has room, `CutFrame` goes on without
  noticing, `CutOverStr` panics.
* A frame may be found to end behind the last byte received: `recvLen` becomes
  negative and `memcpy` is called with it (:64). `CutTooMuch` makes it so, `Panic`
  is what the copy of all memory leads to.

With a `recvLen` that is none of the cache's, searching panics or finds nothing
(`CutOutside`). What else such writes change - other parts' memory behind the
struct, a return address - is not modelled. The history `spoilt` becomes true with
each of these and with a takeover that meets the receive task at work.

The digests of the answer are two modules: `WsPad` has the contexts, the
collecting of blocks and the padding, `WsDigest` the words and the rounds. The
blocks are collected first and processed afterwards, which makes no difference
to the digest; the rounds need bit operations, which cannot be proved about.

* `TypeOK` - among the types: `recvLen` is within the cache as long as nothing is
  `spoilt`. Afterwards it may be -1 or beyond it.
* `InOrder` - the texts given on for a client are, whole and in order, the first
  of those it sent, until something is `spoilt`. What is sent and given on
  afterwards is not recorded. Proved for any constants: that frames are found where
  the last one ended is part of its invariant, although the code looks for the
  first byte that may begin one.
* `Greeted` - a request is answered or its connection ends, unless something was
  spoilt. The answer may be wrong: the eight bytes of key behind a request of the
  old protocol are not waited for, and the digest is sent with `strlen` (:43), so
  that one with a 0 byte is cut off (`whole` of `Handshake`). Only clients with a
  right answer send messages.
* `Understood` - once a client has its right answer, texts that are URL-encoded,
  framed, found and decoded are what they were (`Restored`: every byte, pairs of
  special ones), and both digests pad lengths 0 to 130, given in two pieces, as
  their standards say (`Padded`). Proved, and both for any text and message.
* `Answers` - the examples of RFC 6455 and of the old draft come out of the
  digests: no property of a behaviour but an `ASSUME` of `MC_WebSockServ`, which
  TLC evaluates before the run.

Bounds: one client of each protocol, two messages (a short header, a two-byte
length), a mask of two different bytes, a cache that overflows, a `str` the longer
message does not fit into. `ServAssumption` has clients send messages
whose length fits two bytes, without the marks of the old protocol in them. Nothing in the firmware starts this server:
`main.c:40` includes its header only. Not modelled: clients that speak plain HTTP,
and `websocket_send` before the handshake, which sends a length that was never
set (websocket_serv.c:198).

### HttpClient

Each request has a task (`Connect` to `CloseSock`), and all share the static
descriptor `hf_conn_sock`. The answer is cut anywhere, broken off, with or without
its length; the server hangs up or resets; another part of the firmware takes a
descriptor.

* `GotContent`, `ClosesOwn`, `Ends` - a request that was alone gets the content
  from its beginning, all of it if it came whole; closes its own socket; and ends
  when the server has answered in whole and hung up, or has reset the connection.

Nothing can be said of requests that overlapped: each may read, send on and close
the other's connection. Bounds, named in the module: overlapping requests are
GETs (`OverlapMethods`) with the shortest whole answer, and histories are not
kept for them.

Seen while modelling, without a property: `timeout_second` is never used; the
task loops for ever when the server hangs up inside the header or without a
length; content that came complete with the header is noticed only after another
`recv()`; the last piece of a POST is taken from the beginning of the body and not
from `send_pos` (zhHttp.c:332), so a body of more than 1024 bytes arrives wrong;
a URL that is none closes whatever has the number of the last socket; a failing
look-up dereferences a null pointer. lwIP may report the end of a connection
once as 0 and then as -1, and both are outcomes of the model. The firmware itself
uses only the URL code of this file.

### KeyScan, KeyEvents

`KeyEvents` is what a handler of key events relies on: each press is one DOWN,
some PRESS, one UP. `KeyScan` is the task that samples one key after another.
`Promised` says that it implements `KeyEvents` with the keys in state 2 or 3
as the held ones. `DownIsSure`: a press needs two samples. `Reported`: what
lasts is reported, for every key. Only the press is debounced; a single released
sample ends it.

## The runs

| Run | Kind | Shows |
|---|---|---|
| `mqtt_client` | pass | type, `StopMeansStopped`, `SingleClient`, `LitWhileUp`, `StopReturns`, `Reconnects` |
| `mqtt_session` | pass | type, `ConnectedIsAccepted`, `AnswersCounted`, `Encoded` |
| `cfg_safety`, `cfg_live` | pass | type, `Durable`, `ValidIsComplete`; `ServicesReturn` |
| `web_server` | pass | type, `RepliesToAsker`, `NoLeak`, `Accepts` |
| `tcp_server` | pass | type, `NoLeak`, `NewestStays`, `Accepts` |
| `keys` | pass | type, `Promised`, `DownIsSure`, `Reported` |
| `cloud` | pass | type, `InOrder`, `OnlyGranted`, `NoLeak`, `ReadBack`, `Arrives` |
| `websocket` | pass | type, `InOrder`, `Understood`, `Greeted`; evaluates `Answers` |
| `http_client` | pass | type, `GotContent`, `ClosesOwn`, `Ends` |
| `web_close_old`, `tcp_takeover` | violation | the findings listed in `PROJECT.json` |

The configurations that say `CHECK_DEADLOCK FALSE` are those of systems that may
rest: a client that is connected and idle, a server whose clients are all gone,
a session whose bounded operations are used up, requests that are all done.

Fairness: FreeRTOS schedules every ready task, so each task has weak fairness on
its own steps; blocking calls with a timeout return. `recv()` without a timeout
has fairness only for the outcomes that have happened (a chunk, a hang-up, a
closed descriptor). Clients, servers, the broker, interface events, commands and
fingers on keys have none, nor has a call of `mqtt_app_start` by a command.

## What is proved

All theorems hold for any constants that satisfy the named assumptions of the
module, and every proof is checked by TLAPS down to its leaves.

| Module | Theorem | Argument |
|---|---|---|
| `MqttClientProofs` | `TypeCorrect`, `StopCorrect`, `SingleCorrect`, `LedCorrect` | `StopInv`: handles are allocated, a client has one starter and is started once, and `STOPPED_BIT` implies the end of the task. `SingleInv` adds `Alone`: undisturbed, one caller at a time is in `mqtt_app_start`, and what it read of `g_mqttClient` is still true |
| `TcpServProofs` | `TypeCorrect`, `NoLeakCorrect`, `NewestCorrect` | `LeakInv`: once the old client is closed only the new connection is open, and between `close()` and the zeroing nothing is open under the number. `NewestInv`: a connection in use is open and has one descriptor; without a race the newest client's is its own, and the receive task hears the client in use and closes only one that hung up |
| `WebServProofs` | `TypeCorrect`, `NoLeakCorrect`, `RepliesCorrect` | `OwnInv`: only live connections own a descriptor, and each one. `LeakInv`: without a race a client is accepted only when none is in use, and the receive task works for and hears only the one in use. `AskInv` adds that the buffer holds only its chunks |
| `MqttSessionProofs` | `TypeCorrect`, `AcceptedCorrect`, `AnswersCorrect`, `PublishRead`, `IdsRead`, `ConnectRead`, `PublishDelivered`, `EncodedCorrect` | As long as nothing is mixed up: `BufferInv`, the buffer holds the message of the one task that writes it; `WayInv`, an unanswered request has at most one message under way that brings or asks for its answer; `Counted`, the counter is at least the number of unanswered requests and of those about to be written. The bytes: what `fini_message` puts in front of a body is what the readers find there (`HeaderBytes`, with the sum over one or two length bytes written out), a body that lies in a message is its parts one behind the other (`ShowsBoth`), and the buffer bounds the lengths of the strings, so that two bytes hold them. A PUBLISH in several reads: the beginning of a message tells its readers as much as the whole (`SameLength`, `FirstRead`), the recursive function of `Deliver` exists (`AfterBuilt`, by induction on the reads) and each of its states has the numbers of its read (`Numbered`, kept by `NumberedNext`). `EncodedCorrect` is the run's invariant as a consequence: its values are among those the theorems are about |
| `CloudLinkProofs` | `TypeCorrect`, `OnlyGrantedCorrect`, `NoLeakCorrect`, `InOrderCorrect`, `Readable` | `LinkInv`: while a task is alone, only the current socket is connected, with the server the task is about, and a task that is logged in has a link whose server granted it. `OrderInv`: what is in the cache and what is on the way is a stream of whole frames, less what a closed link lost, and `sent` is `got` and the data in that stream. The streams are defined as the least set that contains the empty one and is closed under one more frame, which stands in for an induction. `Readable` states `ReadBack` for every parameter: the frame's own head is the first one found, whatever bytes follow, and its length is below the mark of a long one |
| `HttpClientProofs` | `TypeCorrect`, `ClosesOwnCorrect`, `GotContentCorrect` | `OwnInv`: a request that is alone owns the static descriptor from `socket()` to `close()`, and no other descriptor is a request's. `TellInv`: until the header ends, cache and wire are a piece of one response, from its beginning; from then on, what was got and what is on the wire are a beginning of the content, and for a whole answer the length noted is the content's |
| `WebSockServProofs` | `TypeCorrect`, `InOrderCorrect`, `TextsRestored`, `MessagesPadded`, `UnderstoodCorrect` | The frames: `FindWhole`, a frame that lies at the front of the cache is found there and read back as its message, for both protocols, both header lengths and any mask, whatever stands behind it; `FindPart`, of the front of one nothing is cut. `Shaped` holds always and is `Typed`, with a `recvLen` within the cache, until something is spoilt. `OrderInv`: until then the newest client's connection is fresh until it is set up, and then `Served`: it is asking, was refused, or cache and wire together hold a stream of whole frames, and `sent` is `got` and the texts of that stream (`Streams`, a least set as in `CloudLinkProofs`). `Ends`: the empty line of a request does not stay in the cache, so no later request is taken for complete; `Hands`: where the two tasks are fixes what `g_wsk_client_fd` and `pespconn` may be. `TextsRestored`: the escapes lie one behind the other (`Flattened`), so that decoding, seen from the end of the text, gives back one byte after the other (`OneDecoded`); the induction is on positions, with the least element of a set of numbers, and that the recursive function in `UrlDecode` exists at all is proved first (`DecodeBuilt`). `MessagesPadded`: a context `Collects` a message, its blocks are the front of it and the new bytes of the unfinished block the rest; a byte, a piece that ends within a block and one that fills any number of them keep that (`ByteHolds`, `UpdateShort`, `UpdateLong`), and so do the mark, the zeros and the length, which end on a block (`ResultFlat`, `FinalFlat`) |
| `DeviceProofs`, of `CfgStore` | `TypeCorrect`, `CompleteCorrect`, `DurableCorrect` | `BootAlone`: while `app_main` restores the defaults no other task runs. `CompleteInv`: the copies about to be written are as complete as the sector they came from. `DurableInv`: undisturbed, one task works and its copy is the acknowledged settings with its change |
| `DeviceProofs`, of `KeyScan` | `KeyTypeCorrect`, `PromiseKept`, `DownIsSureCorrect` | step by step: a sample maps to a step of `KeyEvents`, a moving key to a stutter |

`NoLeak`, `Durable` and the others are not inductive: each speaks of the end of
a hand-over and says nothing of its middle, which is what the named parts of the
invariants add.

Only model-checked:

* all liveness properties: the provers handle neither fairness nor `ENABLED`;
* `Answers`, what the rounds in `WsDigest` compute: they are compared with the
  answers of the examples.

## Plan

1. The bytes behind `cacheLen` in `WebServ`: a chunk that is no request leaves
   them for the next one on the same connection.
2. `ListRef`: `zhlist.c` as a pointer structure that implements a sequence, with
   the refinement proved.
3. `UdpPeer`: the last peer and the replies; the line buffer of the debug UART.

## Not modelled

`PROJECT.json` lists every part with its reason. In short: set-up code without
state (WiFi, Ethernet, I2C, I2S), string algorithms (URL parser, pages), code
nothing in the firmware calls (TLS, timers, scene helpers, `http.c`), examples, web
pages and tools; UDP multicast, the lists and the UART line buffers are planned.
Of `uart1_read` the publish is in `MqttSession`; its buffer counter
`g_recvUart1BufLen` only grows (trans_data.c:225), and nothing looks whether the
255 bytes of the buffer are used up. Within the modelled parts: memory exhaustion other than in
`xTaskCreate`, task priorities, and failing `bind` or `listen`, after which a
server's tasks only wait.
