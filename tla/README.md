# Teleop LED Benchmarks: formal models

The repository measures how long a blink command takes from a button in a
desktop window to an ESP32 and back, over a WebSocket and over a plain TCP
connection. This directory holds TLA+ modules for the two programs and for the
start-up code of the ESP32, TLC configurations that check them on small
instances, and TLAPS proofs of what matters most for every instance. Paths are
relative to the repository's root; `app.cpp` is `desktop_app/src/app.cpp`,
`main.cpp` is `esp32_cam/main/main.cpp`, `tcp_client.cpp` is
`esp32_cam/main/tcp_client.cpp`, and `connect.c`, `wifi_connect.c`,
`eth_connect.c`, `thread_connect.c`, `ppp_connect.c`, `console_cmd.c` and
`protocol_examples_utils.c` are in `esp32_cam/protocol_examples_common/`.

## 1. Inventory

### Desktop application (`app.cpp`)

One `io_context` with concurrency 1; `runApp` builds the window and `AppState`
and calls `ioc.run()`. Everything, drawing included, runs on that thread.

| State | Meaning |
|---|---|
| `uiEventsToProcess` | clicks recorded by `render`, handled in the next frame |
| `ioResults` | what completion handlers report to the next frame |
| `ws`, `tcpSock` | the one stream, null before it is connected |
| `tcpReadBuf`, `wsReadBuffer` | the buffer that all reads share |
| `isSendingBlinkCommand`, `timeSendBlinkCommand`, `blinkLatency` | the outstanding command |
| `stopFlag`, the window's close request | set from outside the thread |

Operations: the accept handlers (a WebSocket one blocks in `ws->accept()`), the
read and write handlers, and `runAppLoop`, which processes the events, then the
results, draws, and posts itself. What is hard: the order of handlers, reads
that must chain without overlapping, an accept that happens once, a handler
that blocks the only thread, and failures that are only logged. It is correct
if a connection is read to its end by one read at a time, if a click always finds
a stream and no outstanding command, and if a stop request ends the program.

### ESP32, TCP variant (`main.cpp` 169-194, `tcp_client.cpp`)

One task: connect, then receive a command and send `received`, until a call
fails; then it takes a semaphore that only the other variant creates. State: the
socket, a string that is both buffer and length, and the position in the stream
that TCP does not show. What is hard: `recv` returns pieces, returns 0 at the
end, and is given one byte more than the string holds; `connectToServer`'s
result is ignored; every failure becomes a reset. It is correct if each
command gets one reply and the buffer stays a terminated string.

### ESP32, WebSocket variant (`main.cpp` 36-166)

Three tasks. The main task starts the client and waits on `shutdownSema`; the
client's task runs `websocketEventHandler`; the timer service runs
`shutdownSignaler` when `shutdownSignalTimer` expires. State: the semaphore,
the one-shot timer, the client. What is hard: the timer races with the handler
that restarts it; the main task closes the connection and waits, without a
timeout, for the end of a task that depends on the desktop's answer; control
frames come through the same handler as commands; sends may time out. It is
correct if a silent connection is shut down, if one that is not silent is left
alone, if the shutdown completes, leaves no reply unread and is noticed by the
desktop.

### Connection sequence (`connect.c`)

`app_main` calls `example_connect` before either variant of the program. It
connects the interfaces that the configuration chooses, one after the other, and
registers a shutdown handler for each; `example_disconnect` shuts down and
unregisters Ethernet and Wi-Fi; `esp_restart` runs the handlers that are
registered, last one first. State: which handlers are registered, and the
interfaces' own. What is hard: a second `example_connect` meets whatever
`example_disconnect` has left, and a restart may come at any point in this
history. It is correct if success means that every interface is ready, if no
handler is registered twice, and if a restart leaves nothing running.

### Wi-Fi start-up and console (`wifi_connect.c`, `console_cmd.c`)

The main task registers handlers, starts the station and waits on one semaphore
per address family; the event loop's task counts disconnections, reconnects,
gives up, and deletes the semaphores. `example_wifi_shutdown` takes all of it
down, after which it can be connected again. The console's two commands connect
without waiting, and disconnect, at any time and any number of times. It is
correct if success means addresses, if retries are bounded, if no handler uses a
deleted semaphore, and if giving up makes the waiting task return.

### Ethernet start-up (`eth_connect.c`)

Semaphores, one per address family, that the event handlers give and the main
task takes without a timeout. What is hard: the build decides which semaphores
and handlers exist, not always alike, and the shutdown deletes semaphores before
it unregisters the handlers.

### Thread start-up (`thread_connect.c`)

A task of its own creates the network interface and runs the OpenThread stack.
Its events give two semaphores; the wait for the second, a DNS server, times out
after a second, with a warning. The shutdown deletes the task and the
semaphores. What is hard: the task may end by itself, and the event handler is
never unregistered.

### PPP start-up (`ppp_connect.c`)

An event group whose bits the handler sets and on any of which the main task
wakes up; a retry counter that is never reset; a task that feeds the interface
from the UART and is asked to stop by a flag. What is hard: one bit stands for
all, and the shutdown waits as long for the task as the task waits for its
queue. Each of the three interfaces is correct if no wake-up is lost, if success
means what was waited for, and if handlers run only while what they use exists.

### URI utilities (`protocol_examples_utils.c`)

Two loops, `ngx_escape_uri` (seven tables) and `ngx_unescape_uri` (three
states), with wrappers for one table and one kind. They keep no state between
calls. It is the boundaries that are hard: writes without a limit, input that is
cut off inside a quotation, bits in tables. The application does not call them.

### The rest

| Component | Status |
|---|---|
| `stdin_out.c`, `addr_from_stdin.c` | pure input and output |
| desktop `main.cpp`, `utils.cpp` | argument parsing, a helper for a test |
| `third_party/ThreadPool.h` | vendored and unused |
| tests, build files, `Kconfig.projbuild` | read for what they say of the program |

### How the parts interact

The desktop listens on port 9003 (TCP) or 9002 (WebSocket). The ESP32 connects
its interfaces, here Wi-Fi, each by a main task that waits for what the event
loop's task reports, then connects to the desktop. A click becomes `async_write` of
`"button clicked\n"`; the ESP32 answers `received`; the desktop's read handler
reports it to the frame, which computes the latency, enables the button, and
starts the next read. There is no retry in either program: the desktop's
acceptor is gone after the first connection, and the ESP32's only retry is a
reset.

## 2. Modules

| Module | Models |
|---|---|
| `Link` | the connection: state, and units in flight in each direction |
| `DesktopApp` | `app.cpp`: one action per handler and one for the frame |
| `DesktopOpen` | `DesktopApp` with an arbitrary peer, and its properties; both benchmarks are shown to implement it |
| `DesktopProofs` | the theorems about `DesktopOpen` |
| `EspTcpApp` | `tcpAppStart` and `TcpClient` |
| `TeleopTcp` | `DesktopApp` and `EspTcpApp` on one `Link` |
| `BlinkBenchmark` | the abstract benchmark that `TeleopTcp` implements |
| `EspWsApp` | `websocketAppStart`, `websocketEventHandler`, `shutdownSignaler` |
| `TeleopWs` | `DesktopApp` and `EspWsApp` on one `Link` |
| `TeleopTcpProofs`, `TeleopWsProofs` | the theorems about the two compositions |
| `Netif` | the abstract interface: what a start-up promises to `connect.c` |
| `WifiConnect` | `wifi_connect.c` and the commands of `console_cmd.c`, shown to implement `Netif` |
| `WifiProofs` | the theorems about `WifiConnect` |
| `Interfaces` | what the interfaces share: the main task, semaphores, the event loop, the configuration |
| `EthConnect`, `ThreadConnect`, `PppConnect` | `eth_connect.c`, `thread_connect.c`, `ppp_connect.c` |
| `ExampleConnect` | `connect.c` over the three in detail and Wi-Fi by its promise, with `esp_restart` and aborts |
| `MCExampleConnect` | the set of builds for `ExampleConnect` |
| `ConnectProofs` | the theorems about `ExampleConnect` |
| `ConnectProgressProofs` | what keeps the connection sequence going |
| `UriCodec` | `ngx_escape_uri`, `ngx_unescape_uri` and their wrappers |
| `UriProofs`, `UriContentProofs` | the theorems about `UriCodec`: sizes, and contents |

`DesktopApp`, `EspTcpApp`, `EspWsApp` and the modules of the interfaces have
state and actions and no specification of their own; `DesktopOpen`, `TeleopTcp`,
`TeleopWs` and `ExampleConnect` compose them. Actions and variables have the names of the code where they have one. An
operator commented as a broken variant is used by no specification: it is a
plausible bug that shows that a property can fail.

How state and actions correspond to the code:

- *Desktop.* A handler runs to its end on the one thread, so it is one action.
  `Frame` is the whole of `runAppLoop`: `processUiEvents`, `processIOResults`
  and `render`, in this order. Which ready handler runs next is left open, which
  covers every order of the queue. `ioResults` is kept as counts, because the
  effects of two results commute. `phase = "handshake"` is the thread inside
  `ws->accept()`. `commands` and `latencies` stand for the two time stamps: the
  properties ask which command a latency belongs to, not how large it is.
- *Link.* A stream is the number of units in it, because every command is the
  same bytes and so is every reply. Over TCP a unit is a byte (the models use
  two per message, enough for a message to be split); over a WebSocket it is a
  message. `closed` is a failure that the other end can notice; `lost` is a
  failure that it cannot, and may become `closed` later. A write reaches the
  link as a whole when it completes; its handler runs later (`written`), but
  before that of a reply, which is behind it in the queue.
- *Reads.* A read ends the chain when the stream has come to its end with no
  whole reply left on it (`EndOfStream`), or on an empty WebSocket message
  (`ReadEmptyMessage`), after which the code starts no read although the
  connection is open. `readEnded` remembers which.
- *Arbitrary peer.* It connects, reads some of what was sent or loses it, sends
  up to a reply at a time whether or not it was asked, and goes away noticeably
  or silently, with any part of what is on the way.
- *ESP32, TCP.* One action per call on the socket, with its outcomes.
  `streamPos` is the position of the next byte inside a command, and
  `terminated` whether the string still ends in NUL. The null semaphore's
  assertion and a power failure reset the chip, which boots again. A connection
  made after the desktop's first one stays in the backlog for ever (`orphan`).
- *ESP32, WebSocket.* The handler is two actions, since the timer service may
  run between the send and `xTimerReset`. Time is a tick of the timer service.
  The client library is modelled from how `main.cpp` uses it: it connects again
  after a disconnection, pings, hands the answer to a ping and the close frame
  to the data handler, drops the connection when a send fails. Closing is a
  handshake: the client's close frame is `sent` behind the replies, the desktop's
  stream finds it in a read, answers it and closes its end
  (`StreamAnswersClose`), and the answer reaches the handler behind all that the
  desktop has sent (`onClose`), after which the client's task ends
  (`clientStops`). `esp_websocket_client_close` is the step that sends the frame
  and the wait for that end (`mainPc = "join"`), which has no timeout. A
  connection that fails before the answer has come makes the client try to
  connect again (`clientDisconnects`); nothing ends its task then.
- *Wi-Fi.* Each call on which the two tasks can meet is an action of its own:
  a `take`, the handler's gives, the deletion that follows. A semaphore that is
  taken after its deletion reads as given, as empty for ever, or fails an
  assertion; deleting it a second time may go well or not. The console may
  connect and disconnect whenever no handler runs; its reset of `s_retry_num`
  may be lost to a handler that is counting. An `ESP_ERROR_CHECK` that fails
  restarts everything.
- *Connection sequence.* `pc` is the step of the main task and the interface it
  works on; each interface's actions are guarded by it. `shutdownHandlers` is
  the system's table: handlers are registered in the order of `Rank`, and
  `esp_restart` takes the registered one of the highest rank first. `build` is
  the configuration, fixed at start; `Families` follows from it, since IPv4 is
  off in builds with Thread. `boots` is the chip starting again, after a restart
  or an abort; until then nothing runs (`Alive`).
- *The other interfaces.* `Give` is `xSemaphoreGive` without a test: on a null
  semaphore an assertion fails, on a deleted one it may. The calls up to the
  first wait are one action where no handler can run in between, because the
  driver has not been started. `got` records what has come since an interface
  was last asked to connect. The one-second waits of PPP's shutdown and of its
  task appear as `pppTask # "receiving"`: after a second the task has come back
  from its queue, but may be in its last round. The handler that the task
  registers for the interface's addresses is never unregistered: one that was
  queued before the interface was destroyed aborts (`actionConnected`).
  Allocation failures, failing
  `ESP_ERROR_CHECK`s and the assertion on a second interface of the same key are
  actions.
- *Wi-Fi in the sequence* is `Netif`, and `WifiConnect` is shown to implement it
  when IPv4 is on. In builds with Thread IPv4 is off; there the promise is
  assumed.
- *URI.* One action per iteration of a loop, with the tables as they are in the
  source, by half-words.

## 3. Runs

| Run | Configuration | Shows |
|---|---|---|
| `desktop` | `MCDesktopOpen.cfg` | whatever the peer does, over both transports: one read at a time, up to the end of the stream or an empty message; sendable clicks, commands that do not overlap, a stop that is honoured over TCP |
| `desktop_handshake` | `MCDesktopHandshake.cfg` | *violated*: `HandshakeEnds` |
| `teleop_tcp` | `MCTeleopTcp.cfg` | both TCP programs implement `BlinkBenchmark`, through resets and network failures |
| `tcp_segments` | `MCTcpSegments.cfg` | *violated*: `BufferTerminated`, once TCP splits a command |
| `teleop_ws` | `MCTeleopWs.cfg` | replies are conserved, a timeout between events means silence; the shutdown happens, completes unless the connection fails first, leaves no reply unread and is noticed |
| `ws_latency` | `MCWsLatency.cfg` | *violated*: `LatencyOfACommand` |
| `ws_signal` | `MCWsSignal.cfg` | *violated*: `SignalMeansSilence` |
| `wifi` | `MCWifi.cfg` | success means addresses, retries are bounded, handlers have their semaphores, a connection in use has both; the start-up implements `Netif` |
| `wifi_give_up` | `MCWifiGiveUp.cfg` | *violated*: `GivingUpReturns` |
| `connect` | `MCExampleConnect.cfg` | in every build: success means ready, no lost wake-up, handlers and shutdown handlers in order, a restart that ends with everything down |
| `ppp_addresses` | `MCPppAddresses.cfg` | *violated*: `ConnectedMeansAddresses` |
| `uri` | `MCUri.cfg` | sizes, round trip and agreement with a decoding by quotations, for all tables |

### What the violations say

- `HandshakeEnds`: the comment on `ws->accept()` (`app.cpp:146`) says that it
  "should be fast". A client that connects and sends nothing keeps the thread
  there for ever; the window freezes and a stop request is not seen.
- `BufferTerminated`: `receiveData` treats whatever `recv` returns as one
  command. When one arrives in two pieces, each piece is answered, and later
  calls read across commands: a full one then ends in the middle of a command
  and overwrites the byte after the string that must be NUL. With commands
  delivered whole the same property holds, in `teleop_tcp`.
- `LatencyOfACommand`: the WebSocket handler answers pongs as it answers
  commands, so the desktop shows latencies of no command.
- `SignalMeansSilence`: the shutdown timer is restarted after the answer has been
  sent, so that it can expire while data is being handled. Between two events it
  does mean silence (`SilenceBetweenEvents`), and silence is never missed
  (`SilenceAfterDataShutsDown`).
- `GivingUpReturns`: the disconnect handler gives the semaphores so that the
  main task returns, and deletes them at once. If the main task has not run in
  between, it takes a semaphore that is gone.
- `ConnectedMeansAddresses`: the configuration's help text says that examples
  wait for the addresses of both families. Over PPP the first bit of the event
  group ends the wait, so `example_connect` can succeed with one of them.
  `ConnectedMeansReady` is what does hold.

Observations without a run of their own:

- The shutdown timer of the WebSocket variant is started by data only: a client
  that never hears anything is never shut down.
- `websocketAppStart` waits for its client without a timeout (`main.cpp:162`). When
  the connection has failed before the desktop's answer to the close frame, the
  client goes on trying to connect, to a port on which nobody listens any more, and
  the wait does not end: this is the exception in `ShutdownCompletes`
  (`ConnectionFailed`), and it is the case whenever the desktop left before the
  timeout. Whether the client gives up is decided in its library, which is outside
  the repository; nothing in the call bounds the wait.
- The desktop's read handler starts no read after an empty WebSocket message
  (`app.cpp:295-298`), although the connection is open: whatever comes then is not
  read. It is the second exception in `ReadChainUnbroken`. The ESP32 sends no such
  message.
- After any end of the read chain the window goes on showing "esp32 connected", and
  a command that is unanswered, or whose write has failed, leaves the button
  disabled for good.
- `example_ethernet_shutdown` deletes its semaphores before it unregisters the
  handlers that give them: an address that comes in between is an abort. In a
  build without IPv4, `eth_on_got_ip` is registered although its semaphore does
  not exist, and the shutdown returns at once. Thread's event handler is never
  unregistered. `HandlersMeetSemaphores` and `OrderlyRestart` name these as
  their only exceptions.
- `example_disconnect` leaves Thread and PPP as they are, so a second
  `example_connect` aborts on the assertion that their interfaces do not exist;
  `RegisteredOnce` says that it does not come to a second registration, unless
  Thread's task has ended by itself.
- `s_retry_num` of PPP is never reset: the losses of a whole uptime add up.
- `example_uri_encode` returns the length of its output, not what
  `ngx_escape_uri` counts.
- `example_uri_decode` stops at an encoded question mark as it does at a plain
  one, so decoding what was encoded gives the string only up to its first `?`;
  `RoundTrip` states exactly that.
- The word for `{` to DEL in the `refresh` table, which nothing uses, is not the
  one its comment spells out (`protocol_examples_utils.c:170`): `~` is escaped
  and `}` is not.

### Bounds

- `MaxClicks` 3 (2 over the WebSocket): one command is outstanding at a time,
  so two show any effect of one on the next and a third shows a drift.
  `commands` grows no further; it is the only thing the bound restricts.
- `MaxReplies` 4: the arbitrary peer may answer more often than it is asked.
- `CommandLen`, `ReplyLen` 2 over TCP: a message can be split, and what is left
  can be combined with the next.
- `NoDataTimeout` 2 ticks: a tick can fall before, between and after the steps
  of the handler. `MaxPongs` 1: one pong is enough for a reply that no command
  asked for. At most one ping is under way, as in the client.
- `MaxRetry` 2, IPv4 and IPv6: retries before, between and after the addresses.
  `Callers` has both, so that the console is checked as well as the sequence.
- `MCBuilds`: every combination of interfaces, with IPv6 or without, that the
  configuration allows: Thread selects IPv6, and IPv6 needs an interface.
  `PppMaxRetry` 1: one loss is retried and the next gives up. Nothing bounds how
  often the sequence connects, disconnects and restarts.
- URI: every single byte for each of the seven tables and both decodings; all
  strings up to length 3 (encode, then decode) and 5 (decode) over `%`, `3`, `?`,
  `F`, `g` and a byte above 127. These bytes cover every branch: both kinds of
  hexadecimal digit, a letter that is none, the question mark plain and quoted.
  No quotation is longer than 3 bytes, so 5 lets one meet the next.

In `ShutdownCompletes` the bounds also make the events of a connection finite. In
the code the close frame is sent under the client's lock, so it is the client's
library that keeps a stream of events from delaying it for ever. The failure of
the connection is not bounded: it may come at any point of the handshake.

Deadlock is checked for the connection sequence, which can always start again.
It is not for the others: the desktop program ends, so do the WebSocket variant
and the URI functions, and a Wi-Fi start-up that has been handed a deleted
semaphore may hang.

### Fairness

- `AppFairness`: the `io_context` runs a handler that is ready, and a frame
  lasts one display refresh, so the frame, the accept, reads that have their
  data or have come to the end of the stream, writes and their handlers get weak
  fairness each. The handlers that
  depend on what a user or a peer does get none, nor does the successful
  handshake, except in `TeleopWs`, where the client sends its upgrade request as
  soon as it is connected. There the stream's own answers to a ping and to a
  close frame, which it gives inside a read, are fair as well.
- ESP32: FreeRTOS runs a task whose call can return: weak fairness for the one
  task of the TCP variant, for the main and client tasks of the other, and for
  the timer service's tick, because time passes.
- `WifiConnect`: weak fairness for the main task and for the handler that has
  begun to give up; none for what the network does.
- `ExampleConnect`: weak fairness for the main task, which goes on when a wait is
  over, and for the UART's task, which its queue wakes at least every second;
  none for networks, for what an application asks for, for OpenThread's task, or
  for Wi-Fi, whose wait need not end.
- Nobody has to click, no network failure has to happen, and no failure has to
  be noticed.

`ImplementsBenchmark` includes liveness: `working` is a link that has not failed
and a desktop that was not asked to stop, and under it every command is answered.

## 4. Proofs

Eight modules hold theorems. Each component has an inductive invariant `IInv`
that a theorem `Inductive` establishes and from which the others follow, some with
a second invariant on top of it. What they assume is what the modules assume of
their constants: positive lengths, natural bounds, transports and interfaces that
exist; only the theorems about commands that TCP does not split assume more, and
state it.

Liveness itself is out of reach, but the safety it rests on is not. Where a run
checks a liveness property, the proofs show what its argument needs: that the step
that fairness promises is ready (`AlwaysMoves`, `CloseIsNoticed`,
`WaitIsForSomething`, `NoWakeupLost`, `ShutdownsProceed`), that it stays so (`PromisesStay`, `TimeoutNeverLost`), and
that such steps come to an end (`TokenAdvances`, `StreamDrains`,
`RestartGetsDone`).

### The desktop application

`DesktopProofs` proves the safety properties of `DesktopOpen` for both
transports, all message lengths and any number of clicks and replies.

The inductive invariant `IInv` is `TypeOK` with `OneReadInFlight`,
`ReadChainUnbroken`, `ClickIsSendable` and `LifeCycle`. The argument follows one
token, which is the CONNECTED result, then a read in flight, then a MSG_RECEIVED
result, then a read again. The accept creates it, and there is one accept
because the handler closes the acceptor; the end of the stream or an empty message
destroys it; the frame turns a result into a read. `ReadChainUnbroken` does not
excuse a handler for having ended the chain: it asks whether the stream is at its
end, which stays so, or whether an empty message was read. `OneReadInFlight` is not inductive by itself, since
an accept would add a second token if the acceptor could still be open: that is
what `LifeCycle` excludes. `ClickIsSendable` needs that nothing but the frame
touches the stream and the flag between a click and its command.

| Theorem of `DesktopProofs` | States |
|---|---|
| `TypeCorrect` | `Spec => []TypeOK` |
| `NeverTwoReads` | `Spec => []OneReadInFlight` |
| `KeepsReading` | `Spec => []ReadChainUnbroken` |
| `NeverSendsOnNull` | `Spec => []ClickIsSendable` |
| `LivesInOrder` | `Spec => []LifeCycle` |
| `OneCommandAtATime` | `Spec => CommandsDoNotOverlap` |

### The TCP benchmark

`TeleopTcpProofs` is first about commands that arrive whole: these theorems are
under `Segments = FALSE`, because with pieces answered one by one, as
`tcp_segments` splits them, a latency need not be that of the last command. Lengths, clicks, resets and network failures are arbitrary. An
unanswered command is one token, in turn the write, the bytes on the way to the
ESP32, the reply in its hands, the bytes on the way back and the result for the
next frame. `OneToken` says that the places add up while the link is up, and to
no more than the outstanding command when it is not; `WholeMessages` that a
stream holds one message or none, which needs that there is one token; and
`DisabledWhileAwaiting` that no second one can be made. `WritesInOrder` is what
`OneWriteInFlight` needs beside it: a write whose handler is still queued belongs to
the command that is unanswered, and its reply has not been read. `ConnectedFirst` and
`ClickWaits` carry this through the accept and the frame in which a click waits.

Two theorems are the safety under the liveness of `ImplementsBenchmark`. While the
system works, the token is in the hands of somebody who can pass it on
(`NeverStuck`): this needs `BothRead`, a second inductive invariant, by which both
ends of an open connection read, so that neither waits for the other. And every
step that touches the token brings it nearer to its latency (`Advances`, with a
distance of five stations).

The others hold however TCP splits commands, from a second inductive invariant,
`AnyInv`. Each byte that `receiveData` takes causes at most one reply, so the
replies that may still come (`MayCome`) are the bytes of the commands written less
the replies processed, read or in the ESP32's hands and the bytes still on the way
to it. The invariant is that what is on the way back fits into them: every handler,
reset and failure leaves as many, or trades one of them for one reply.
`NoReplyMadeUp` is what follows for the user: there are never more latencies than
bytes were sent.

`IsDesktop` shows that the benchmark implements `DesktopOpen`, with its fairness:
handlers of the desktop are handlers there, and each step of the ESP32 or the
network is one of the arbitrary peer's. The bound on what that peer sends is set to
`MaxClicks * CommandLen` replies; that the ESP32 keeps to it is `BoundOfReplies`
(from `AnyInv`) and `RepliesFit`. The fairness is that of the same handlers. With
this, theorems of `DesktopProofs` hold here too (`DesktopStaysSafe`), with split
commands as well; and since TCP has no empty messages, there is no gap in the reads
before the end of the stream (`ReadsToTheEnd`).

| Theorem of `TeleopTcpProofs` | States | If |
|---|---|---|
| `ButtonTells` | `Spec => []DisabledWhileAwaiting` | `Segments = FALSE` |
| `NeverTwoWrites` | `Spec => []OneWriteInFlight` | `Segments = FALSE` |
| `TokenKept` | `Spec => []RoundTripConserved` | `Segments = FALSE` |
| `StepsOfBenchmark` | the safety part of `ImplementsBenchmark` | `Segments = FALSE` |
| `BothReadOn` | `Spec => []BothRead` | `Segments = FALSE` |
| `AlwaysMoves` | `Spec => []NeverStuck` | `Segments = FALSE` |
| `TokenAdvances` | `Spec => [][Advances]_vars` | `Segments = FALSE` |
| `TypeCorrect` | `Spec => []TypeOK` | |
| `NoReplyMadeUp` | `Spec => []RepliesAreAsked` | |
| `IsDesktop` | `Spec => ImplementsDesktop` | |
| `DesktopStaysSafe` | the theorems about the desktop, for this peer | |

### The WebSocket benchmark

In `TeleopWsProofs` commands and pongs are tokens, of which several may be under
way. `RepliesConserved` counts them and is nearly inductive: what it needs is
`NothingEarly`, that nothing is sent before the connection is accepted, so that
the accept neither finds tokens nor loses any, and `AnsweredIsClosed`, that a close
frame is answered at the end of the stream.

The timeout has an invariant of its own, `TimeoutInv`. `TimeoutKept` is that once
data has come, a main task that waits has the timer running, the semaphore given or
the handler about to start the timer: a timeout is never lost. `TimerFollows` is
that between two events the timer and the silence add up to at least the timeout;
so when the timer runs out then, the silence is whole.

`IsDesktop` and `DesktopStaysSafe` are as over TCP, for a peer that may also answer
pings and a close frame, hence with `MaxClicks + MaxPongs` replies.

The shutdown has two more invariants. `CleanInv`: the client's task runs until it
is closed (`ClientRuns`), and when it ends the connection is over and the desktop
has nothing left to read (`EndsClean`), since the answer to the close frame is the
end of its stream and a failure before that answer does not end the task. It is
what `ReturnsCleanly` needs. `EndInv` is about the way there: the main task was
woken by data (`WokenByData`), which came from a connected desktop
(`SentByConnected`), so the close frame reaches one that is connected or a link that
is closed (`FrameArrives`, `EndedIsClosed`), and a client that waits without a frame
knows of a failure (`ClosingByFrame`).

Three theorems are the safety under the liveness of the shutdown. While a close
frame is under way, the desktop has a read or a result that starts one
(`CloseIsNoticed`); what is ahead of the frame only becomes less (`StreamDrains`);
and what the main task waits for is on its way (`WaitIsForSomething`), unless the
connection has failed.

| Theorem of `TeleopWsProofs` | States |
|---|---|
| `TypeCorrect` | `Spec => []TypeOK` |
| `NoReplyLost` | `Spec => []RepliesConserved` |
| `ReturnsInOrder` | `Spec => []ReturnsCleanly` |
| `TimeoutNeverLost` | `Spec => []TimeoutKept` |
| `SignalledAfterSilence` | `Spec => SilenceBetweenEvents` |
| `IsDesktop` | `Spec => ImplementsDesktop` |
| `DesktopStaysSafe` | the theorems about the desktop, for this peer |
| `CloseIsNoticed` | `Spec => []NoticeReady` |
| `StreamDrains` | `Spec => [][Drains]_vars` |
| `WaitIsForSomething` | `Spec => []WaitHasAnEnd` |

### Wi-Fi

`WifiProofs` proves the invariants of `WifiConnect` for every retry limit, with
IPv6 or without, for both callers. Neither `OkMeansAddresses` nor `HandlersHaveSemaphores` is
inductive: a semaphore does not say why it was given, and the main task reads
`s_retry_num` while the event loop changes it. The strengthening has a part for
each gap. `GivenForAReason`: a given semaphore means an address or that the
retries are over. `GivingUpIsFinal`: once `s_retry_num` is above its limit it
stays there, because the only handler that lowers it is unregistered before it
could run again, so a main task that finds the limit respected was woken by
addresses. `SemaphoreLife`: nothing but giving up deletes. `AttemptsCounted` ties
the calls of `esp_wifi_connect` to `s_retry_num`.

| Theorem of `WifiProofs` | States |
|---|---|
| `TypeCorrect` | `Spec => []TypeOK` |
| `SuccessHasAddresses` | `Spec => []OkMeansAddresses` |
| `BoundedRetries` | `Spec => []RetriesBounded` |
| `NoUseAfterDelete` | `Spec => []HandlersHaveSemaphores` |
| `DeletedOnce` | `Spec => []DeletedTwiceOnlyAfterGivingUp` |
| `KeepsPromise` | `Spec => ImplementsNetif` |

`KeepsPromise` is a refinement proved in full: `Netif` has no fairness, and every
step of the two tasks is a step of it or changes nothing that it shows.

### The connection sequence

`ConnectProofs` is about any set of builds and any limit of PPP's retries. Its
invariant has eight parts, besides the types one for each question that the
properties leave open. `Placed`: which interface the main task works on.
`SignalsTell`: a semaphore or a bit that is set tells of something that has
come since the last connect. `Waited`: what the steps before have waited for has
come, and still holds, since an event only adds. `Unregistered`: what has not
been connected yet, or has been disconnected, has no shutdown handler; for PPP,
which is never disconnected, this takes the assertion on its interface.
`Handled`: handlers are registered while their semaphores exist. `Running`: an
interface that runs is the one being connected or has a shutdown handler, and
at a restart it is not yet behind the main task; it is what `OrderlyRestart`
needs, and it must be strong enough for any history of connecting and
disconnecting. `Retried`: PPP's count, for the types.

| Theorem of `ConnectProofs` | States |
|---|---|
| `TypeCorrect` | `Spec => []TypeOK` |
| `SuccessMeansReady` | `Spec => []ConnectedMeansReady` |
| `SemaphoresOutlive` | `Spec => []HandlersMeetSemaphores` |
| `RegistersOnce` | `Spec => []RegisteredOnce` |
| `EndsOrderly` | `Spec => []OrderlyRestart` |

`ConnectProgressProofs` adds what `NoLostWakeup` and `RestartEnds` rest on. Its
invariant `PInv` has `EthKept`, `ThreadKept` and `PppKept`, by which what has come
for a waiting task is still there to be taken, address by address; `OwnWait`, who
waits for what; `Registered`, which shutdown handlers a disconnection or a restart
still has before it; and `WifiUp`, that a registered Wi-Fi is up until its turn, the
only state that a shutdown asks for.

| Theorem of `ConnectProgressProofs` | States |
|---|---|
| `KeepsGoing` | `Spec => [](IInv /\ PInv)` |
| `NoWakeupLost` | `Spec => []WakeupKept` |
| `PromisesStay` | `Spec => [][PromiseStays]_vars` |
| `ShutdownsProceed` | `Spec => []StepReady` |
| `RestartGetsDone` | `Spec => [][Descends]_vars` |

### URI utilities

`UriProofs` is about strings of any length over any bytes. The encoder's output
is as long as what was read and two longer for each byte that was escaped, which
`Counted` says as the cardinality of the set of positions that the counting loop
has counted; the decoder's output lags behind what was read by the bytes of the
quotation it is in (`Lagging`).

| Theorem of `UriProofs` | States |
|---|---|
| `TypeCorrect` | `Spec => []TypeOK` |
| `NoOverrun` | `Spec => []BuffersSuffice` |
| `ExactSize` | `Spec => []CountPredictsSize` |

`UriContentProofs` is about what the loops write. `UnescapesQuotations` compares the
decoder with a reference, `Unescaped`, that is defined by recursion over the places
of the string. That the recursion defines something, and that it is what the
reference says at each place, is shown by induction on the place. The induction
takes the set of places where the claim fails and its least element
(`LeastNumber`), because the library's induction theorems, which take the claim as
an operator, cannot be used. The invariant (`Decoding`) is that the output so far,
followed by the reference decoding of the rest, is that of the whole, in each
state of the decoder and for a quotation that the string cuts off. For the round
trip, the encoder's output holds each byte at its offset, plain or as its quotation
(`Encodes`, which every step of the encoder extends by a byte), and the decoder that
reads it is at the offset of the byte it writes next, or within that byte's
quotation (`Undoing`).

| Theorem of `UriContentProofs` | States |
|---|---|
| `Decodes` | `Spec => []UnescapesQuotations` |
| `LeavesUnreserved` | `Spec => []OnlyUnreserved` |
| `DecodingUndoesEncoding` | `Spec => []RoundTrip` |

### Only model-checked

Liveness: `StopHonoured`, `SilenceAfterDataShutsDown`, `ShutdownCompletes`,
`DesktopNoticesClose`, `NoLostWakeup`, `RestartEnds` and the answered commands of
`ImplementsBenchmark`. TLAPS does not reason about `ENABLED`, so nothing follows
from fairness there; it is only carried over, by `IsDesktop`, from specifications
that assume at least as much. `BufferTerminated` is an invariant of `teleop_tcp`
only because commands arrive whole there, which TCP does not promise, so no theorem
states it. What is proved is the safety listed above. The properties of the runs that find a
violation have nothing to prove.

## 5. Not modelled

Drawing, logging and window set-up; the content of messages and the JSON that
the WebSocket handler parses for its log (`main.cpp:112-124`); binary frames,
which the desktop never sends; `TcpClient::disconnect` and its destructor, which
are never reached, as the chip resets first; partial progress of a write, which
no handler can see; the wrappers' tests for null pointers. Of the start-ups: the
dialogue that asks for a password (`stdin_out.c`), the parsing of the commands'
arguments, the printing of addresses and `example_is_our_netif`, which keep no
state; host name lookup (`addr_from_stdin.c`); the two USB callbacks of PPP, a
build variant without a task or a stop flag; the choice of PHY, MAC and radio
drivers, which is configuration. The desktop's `main.cpp`, `utils.cpp` and the
vendored thread pool have no state of the system.

## 6. Plan

Done: the components of the inventory, and proofs of every safety property that a
passing run checks but `BufferTerminated`. What could be added, in order of importance:

1. The safety under `StopHonoured`, the only liveness that has no such theorem.
2. PPP over USB: its callbacks against the shutdown, without the task.
3. Wi-Fi in a build without IPv4, so that the promise of `Netif` is shown and not
   assumed there.
4. The JSON branch of the WebSocket handler, if the desktop ever sends JSON.
