# MatrixFaces in TLA+

MatrixFaces is the firmware of an LED matrix panel with a REST API, a WebSocket
and a small web UI.  It runs on two boards that share almost all of the code:

* the **ESP32-S3** runs every tick in a FreeRTOS task of its own
  (`src/src/board/esp32s3/exec.cpp`), so steps of different ticks interleave;
* the **SAMD51** (the "M4") calls the ticks in turn, render → housekeep → mv →
  ws → net (`src/src/board/samd51/exec.cpp`), and offers no WebSocket.

This directory holds the specifications of its stateful core, the TLC
configurations that check them, and proofs of what matters most for every value
of the constants.  `PROJECT.json` lists runs, properties, mutants, the lines each
definition stands for, hazards, findings and theorems; this file explains them.

    tlc -workers 2 -config s3.cfg MCCommandPipeline     # any run of PROJECT.json
    tlapm CommandPipelineProofs.tla                     # any *Proofs module

## 1. Inventory

| Component | State | Operations | Talks to |
|---|---|---|---|
| **Command pipeline** (`main.cpp`, `board/rtos.*`, `board/ring.h`) | command queue (8), event queue (16), active app, LED, drop counter | post a command, drain, apply, post an event, broadcast | every task |
| **Settings bag, app scheduler** (`apps/settings_bag`, `app_scheduler`) | the values the descriptors bind, the active app, a mutex | `validate`, `apply`, `get`, `switchTo` | net and ws validate, render applies, ws and housekeeping read |
| **Settings persistence** (`storage/quiet_timer.h`, `apps/app_settings_store`, `board/*/blob_store`, `samd51/flash_block`) | the due instant (one atomic word), the blob in flash | mark, due, clear, `saveAll`, `load` at boot | render marks, housekeeping saves |
| **HTTP** (`api/http_request`, `router`, `handlers`) | none between requests | parse, route, one handler per endpoint | all of the above |
| **Authentication** (`api/authenticator`) | ring of 24 nonces, newest timestamp per client | `authenticate`, `forget`, `forgetAll` | credential store, clock |
| **Credentials and pairing** (`api/credential_store`, `pairing_window`, `main.cpp`) | up to 4 clients in RAM and flash, the window's deadline, `revokeAllRequested` | open, pair, revoke, revoke all | housekeeping sees the buttons, the net task does the work |
| **WebSocket** (`api/ws_hub`, `ws_ticket`, `websocket`, `esp32s3/net_link`) | retained sockets, connections, tickets | ticket, upgrade, adopt, poll, broadcast, release | net adopts, ws polls and broadcasts |
| **HTTP wire** (`api/http_request`, `router`, `net/stream_read`, `query_string`, `handlers`) | none between requests: a line, a deadline, caps | read, parse, authenticate, route, answer, upgrade | the listener, authentication, every handler |
| **Network link** (`board/esp32s3/net_link`) | the listening socket, the association | `maintain`, recycle, accept, finish | the net task, and lwIP's few sockets |
| **MultiViewer** (`net/mv_link`, `mv_schedule`, `multiviewer_client`, `multiviewer_parse`, `variants/full.cpp`, `apps/f1_flags_app`) | host, poll flag and snapshot under a mutex; socket, schedule, session | request host, poll, fetch with one retry, parse, publish, pick a frame | render and mv tasks, the MultiViewer host |
| **Buttons** (`board/button`) | level, debounce, press, hold | poll, `takePress`, `takeHold` | housekeeping |
| **Blob framing, flash block** (`storage/record_blob`, `samd51/flash_block`) | magic, version, count, CRC, pages | `serialize`, `parse`, erase, write | both stores |
| **Panel driver** (`lib/Adafruit_Protomatter`) | two buffers of bit planes, plane and row, the timer's period | `show`, the row interrupt, the buffer swap | the render task draws, the interrupt scans |
| **Clock** (`board/*/time_source`) | valid, time | `sync`, `maintain`, `now` | authentication, tickets, clock face |

Section 5 says what is left out, and why.

**What is hard.**  The rule of `docs/concurrency.md` is that app state has one
writer, the render task, reached only through a queue that two tasks post to;
replies, events and saves then speak about state that changes under them.
Several words are shared without a lock (the timer, the window, the revoke
flag, the queues' free count), and each is read, acted upon and written back in
separate steps.  Power may fail anywhere.  Counters of milliseconds wrap after
49.7 days.  Requests arrive late, twice and out of order.

**What makes each component correct.**

* Pipeline: accepted commands take effect once, in order; a settings request
  lands whole or not at all; listeners end with what the panel shows.
* Persistence: whatever is shown gets saved; a save or a power cut costs nothing
  that was not just changed.
* Authentication: nothing old or repeated is served, and nobody can make a
  good request fail.
* Pairing: one client per press, within a minute of it; a revocation is done,
  stays done, and is not lost whenever it comes; pairings survive.
* WebSocket: a connection has a socket of its own, a ticket is good once.
* Network link: a socket that was accepted is given back, and the board is
  found again after its listener got stuck.
* HTTP wire: a handler runs on the request that was sent, whole and signed; no
  peer holds the net task for longer than the deadlines add up to; a good frame
  is heeded however its bytes are cut.
* MultiViewer: what is polled is the host that is set, over a socket with
  nothing of another answer in it; what the panel shows was asked for whole.
* House keeping: nothing unsaved is forgotten when the clock's word rolls over,
  a boot finds a whole blob or none, a button that stays down is heeded.
* Panel: the interrupt never scans a buffer that is being filled, and the light
  of an LED over a frame is the colour of its pixel.

## 2. Modules

| Module | Models | Used by |
|---|---|---|
| `CommandPipeline` | net, ws, render and housekeeping of `main.cpp` as they touch app state, the queues and the flash | runs `s3*`, `m4*` |
| `MutationLog` | the promise: state is the effect of a prefix of a log of commands | refined by `CommandPipeline` (`OneRule!Spec`) |
| `CommandPipelineProofs` | theorems about the pipeline | |
| `Authenticator` | which signed requests the net task serves | run `auth` |
| `AuthenticatorProofs` | theorems about replay protection | |
| `Pairing` | buttons, window, POST /pair, revocations, what of it is in flash | runs `pair_*` |
| `PairingProofs` | theorems about pairing | |
| `WsConnections` | tickets, retained sockets and the hub's table, on the net and ws tasks | run `ws` |
| `WsConnectionsProofs` | theorems about connections and tickets | |
| `NetLink` | the ESP32-S3's listening socket and association | `Wire` |
| `HttpRequest` | what the request reader, the router and the query string make of text | `Wire` |
| `WsFrame` | frames of RFC 6455, bit by bit | `Wire` |
| `Wire` | one connection, from accept to close, byte by byte | run `wire` |
| `WireProofs` | theorems about what a handler is given, who may ask, deadlines, sockets, the frame buffer and what becomes of frames | |
| `MvSession` | the scanner, the four topics, what a session keeps | `MvPoller` |
| `MvPoller` | the poller, the app it works for, the server | run `mv` |
| `MvPollerProofs` | theorems about the poller | |
| `BlobStore` | the promise: a boot finds a whole blob, or none after a cut | refined by `Housekeeping` |
| `Housekeeping` | button, quiet timer, settings blob and flash block on the SAMD51's loop | runs `house*` |
| `HousekeepingProofs` | theorems about house keeping | |
| `DoubleBuffer` | the promise: one frame shown whole, the next drawn out of sight | refined by `Panel` |
| `Panel` | the bit-plane interrupt against `show()`, on the SAMD51 | run `panel` |
| `PanelProofs` | theorems about the panel driver | |
| `MC*` | the small sets TLC uses | |

### CommandPipeline

One program counter per task (`nPc`, `wPc`, `rPc`, `hPc`), one action per step
another task can observe.  A settings POST is `SettingsPost` (validation and the
test of `commandFree()`), one `NetPostOne` per command, and `NetReply`;
`drainCommands` is `RenderTake`, `RenderApply`, `RenderMark`, then `eventPost` as
the three queue calls it is (`RenderNotify`, `RenderEvict`, `RenderResend`);
`saveAll` reads one setting per step (`HouseRead`) since it takes the mutex once
for each, then erases and writes, then clears the timer.  `Preemptive` picks
the board: tasks that interleave, or a `turn` that moves at the end of a tick.
`AtomicBlob` tells a store that replaces its blob from one that erases first.

Abstracted: a setting is an index, its value one of a few; the quiet timer is
"clean", "armed" or "ripe", and `Ripen` may happen at any time after a mark; the
flash is what a reboot would restore.  `told`, `posted`, `applied` and
`promised` are history: what listeners and clients were led to believe; so is
`unheard`, the events put in the queue less those the ws task took out.

### Authenticator

An action is a whole request: everything here runs on the net task.  A signature
is membership in `sent`, which the network may deliver at any time and any
number of times.  `Serve` is a request that revokes nobody, `Revoke` is
`DELETE /api/clients/<id>`, `RevokeAll` the factory reset, `SetClock` both the
passing of time and a step of SNTP in either direction, `Reboot` forgets the
replay state and the time.  `marks_` is a function on the clients that have a
mark; its size is its bound.

### Pairing

Housekeeping is `PressUp`, `HoldDown`; the net task is one program counter:
the exchange of the revoke flag, `CredentialStore::clear`, then one request.
A save is two steps where the block is erased first.  The window's word is kept
as the code keeps it, modulo `Wrap` with zero for closed.  `uptime` never wraps
and is what the properties measure by.

### WsConnections

The net task's upgrade is a step per slot that `retain()` looks at, `adopt()`
under the hub's lock, the two steps of a `release()` where the table is full,
and the 101 in two steps; `poll()` and `broadcast()` are one pass through the
table under the lock, in which an entry is passed by or released in two steps.
The lock is `wPc # "idle"`: it covers the table, and nothing covers the slots, so
the net task moves between any two steps of the pass.  A `WiFiClient` is true
while its peer is connected, hence `Busy(s)` is `retained[s] \in open`.

What a peer sends matters in one respect only, whether the connection closes, so
`WsDrop` may happen to any entry.  A ticket is its number; `issued` and `uses`
are history.  Two assignments to one slot at the same moment are taken as one
after the other.

### NetLink and Wire

`Wire` follows one connection at a time, as the net task does, and then waits
for the next one.  A peer has a script (lines, a body, and
what its signature was made for) and, once upgraded, a talk (the frames it has
sent); its bytes arrive when they like, or never.  A *cell*, of the constant
`Cell`, is a character the code looks at, or a word with none in it; caps count
cells.  What a script says is also defined on the script as a whole
(`LastHeader`, `ContentLength`, `Asks`), as a reader with no buffers would have
it: a header whose line does not fit is not counted, since the code skips it
(`http_request.cpp:100-106`; for `Content-Length` that means its body is not
taken), and the last one of a name counts.  Time passes in the reads: `waited` is the current deadline,
`stay` the whole stay.  `readHttpRequest` is `RequestLineRead`, `HeaderRead`,
`HeadersEnd`, `BodyChar` and the ways out of each; `handleRequest` is `Handle`
(with `Verdict` for the authenticator's view of the header), the upgrade is
`Upgraded`, `WsHub::poll` is `Poll` and `drainFrames` is one action per kind of
frame.  Handlers appear here as the statuses they can answer with; what they
change is the matter of the modules above.  `kRoutes` is the code's table.

`NetLink` has the listener: `none`, `works` or `stuck` (lwIP stops producing
connections, for which the code recycles it every few seconds), the sockets
held, and the association with the flag `maintain()` compares it to.

### MvSession and MvPoller

`MvSession` parses a body as a sequence of tokens with the code's own scanner
(`findValue`, `findObjectEnd`, `nextDictEntry`), so that a body cut short, a
`null` where an object was asked for and a list with nonsense in it do what they
do in the code.  `MvPoller` has the app (`requestHost`, `setPollEnabled`), the
poll task (`takeHostChange`, `Plan`, `Reuse`/`Connect`, `Answer`, `Retry` or
`NoRetry`, `publish`) and a server that refuses, hangs, closes, cuts short,
keeps alive or not, and answers with anything in `Bodies`.  The clock is a word;
`Since` is unsigned subtraction.  `reaches` and `rest` are what the socket is
really connected to and has unread; `gathered`, `heard` and `freshFailed` are
history.  A host text is one of `Hosts`, `Blank`, or `Malformed`, which stands
for any text that is no address: the poller makes no host of both (`Address`),
while the screen tests the text alone, so a malformed one shows "connecting".

### Housekeeping

A pass of the SAMD51's loop is `Pass` (everything else the loop does, which may
take `MaxPass` ticks and may change a setting) and `House`: `Button::poll`,
`takeHold`, then the quiet timer and, when it is due, the save as `EraseBlock`,
one `WritePage` per page and `Clear`.  The power may fail at any step, in an
erase with any part of the block erased, and one page may be worn and keep
garbage.  A blob is its pages; `parse` is the check of magic, version,
length and CRC.  The module follows one button and asks it for both a press and
a hold; the two answers touch different fields.

### Panel

The interrupt runs at top priority, so `_PM_row_handler` is one step; `show()`
converts a scanline per step, asks for the swap and waits.  A port is the set of
its pins that are high and the shift register what was clocked in; pins change
only by toggling, as on the SAMD51.  The conversion is given for the byte and
the wide layout and for the sixth plane, which is stretched from five bits.
`light` adds up, per LED and channel, how long it was lit in periods of plane 0.
An LED stays lit until the next interrupt, which comes when the timer calls but
not before the one under way has loaded its scanline (`LitFor`); a load longer
than the shortest planes' periods makes these brighter than they should be, and
`inTime` says that a frame had none.  The M4's own constants allow none.
What resetting the panel leaves in its registers (`Residue`: one column in
sixteen) is latched by the first interrupt after power up, so a panel of ten
columns or more shows it once: that is `Flash`, the one frame that no canvas
accounts for.

## 3. Runs

| Run | Instance | Distinct states | Shows |
|---|---|---|---|
| `s3` | S3 with a WebSocket, queues of 2 and 1, writes that fail | 5.9 M | accepted commands arrive once, in order, unrefused (`CommandsArrive`); `eventPost` lands and every event lost is counted: `eventsDropped` is never below their number (`EventsAreCounted`) |
| `s3_live` | S3 without a WebSocket client, fair tasks, room for every event, one power cut | 1.3 M | requests land whole, saves cost nothing else, refinement of `MutationLog` (`ObeysOneRule`); 200s come true, listeners end up right |
| `m4` | SAMD51 loop, one power cut | 0.5 M | nothing dirty is forgotten; all is applied and saved in the end |
| `auth` | 3 clients for 2 places, cache of 2, skew 1 | 0.3 M | nothing old or repeated is served (`ServedAsSent`), and nobody is locked out (`NobodyIsLockedOut`) |
| `pair_s3` | S3, 2 places, 3 ids, 3 presses, one power cut | 0.2 M | one client per press (`OnePairPerPress`), holds not lost (`HoldTakesEffect`), flash says what replies said (`FlashIsTrue`) |
| `pair_m4` | SAMD51, two rollovers of `millis()` | 0.4 M | the window is open exactly when it should be, holds work |
| `ws` | 2 slots, 3 peers, 3 tickets in a store of 2, fair tasks | 0.5 M | no socket unowned, every answered peer served, tickets good once and while fresh (`TicketsAreGood`), dead entries freed |
| `panel` | 2 columns, 2 row pairs, two and six planes, byte and wide layout, loads within and beyond plane 0's period | 66 k | no torn frame, the period fits its timer, an LED's light is its pixel's colour, `show()` returns, refinement of `DoubleBuffer` |
| `mv` | 2 hosts, no host and a malformed one, either board's configuration, 1 fault, 1 tap, rollover of the clock | 1.7 M | the set host is polled on a clean socket, nothing half asked for is shown, blue flags are the latest, polls lose nothing, the panel settles |
| `wire` | the scripts and frames of `MCWire` | 0.15 M | handlers get the request as sent, no peer holds the net task, good frames are heeded, paths cannot be probed, everyone is answered |
| `house` | word of 6, 2 pages, 1 worn page, power cuts without number | 0.8 M | nothing unsaved forgotten, one erase per burst, refinement of `BlobStore` (`ObeysBlobStore`), a button that stays down is heeded |
| `house_hold` | as `house` | | **violation** of `HoldIsHeld`: a hold is taken of a button that is up |

Several properties are conjunctions of named parts that belong together
(`CommandsArrive`, `ServedAsSent`, `FlashIsTrue`, `PollsTheHost`, ...); the parts
are defined just before them.

**Disagreements of a text with the code.**  `house_hold` is one: `button.h:15`
says a hold is of a button that "stays held", and a button already released
before a late pass is taken for one still down; `main.cpp` answers with a factory
reset.  The others below are as real; each is reproduced by adding the property
to the configuration named.

| Property, configuration | What happens | Against |
|---|---|---|
| `LandsWhole` in `s3.cfg` | a WebSocket message takes the room a POST had counted on; part of it is lost under a 200 (`handlers.cpp:463`) | `docs/concurrency.md:53` |
| `DirtyIsPending` in `s3_live.cfg` | a change marked during a save is wiped by the `clear()` after it (`main.cpp:366`) | `docs/api.md:71` |
| `ToldInTheEnd` in `s3_live.cfg` with `EventDepth` 1 | the event evicted is the only one of its setting (`rtos.cpp:59`) | `board/rtos.h` |
| `OpenOnlyInWindow` in `pair_m4.cfg` with `MaxIdle` 18 | an expired window nobody used is open again 24.9 days later (`pairing_window.cpp:27`) | `docs/security.md:45` |
| `OneConsumerPerSocket` in `ws.cfg` | a slot whose peer left is retained again before the hub let it go; two entries share it (`net_link.cpp:282`) | `docs/concurrency.md:88` |
| `SeenIsSkipped` in `mv.cfg` | a list of messages that got shorter makes old ones be read anew (`multiviewer_parse.cpp:235`, `:300`) | `test_multiviewer_parse/test_main.cpp:263` |
| `FilledByOneFrame` in `wire.cfg` | small frames that arrive together close the connection as "too big", and so does one of exactly `kInboundCap` (`ws_hub.cpp:157`) | the comment there: "Filled without a complete frame" |
| `OnlyWholeTexts` in `wire.cfg` | a text frame without FIN is handed to the handler as a message; only the frame that continues it is refused (`ws_hub.cpp:88`) | `websocket.h:6-9` "No fragmentation", `ws_hub.h:32` "each complete text message" |
| `ListensAgain` in `wire.cfg` | where `openListenSocket` fails once, `acceptClient` returns before it would recycle; only a drop of the WiFi reopens (`net_link.cpp:96`) | the comment above it, "previously only a reboot did" |

Without a property of their own: a settings save that fails is not retried, and
a client that was answered "revoked" is back after a boot if its save failed
(`WriteMayFail` TRUE in `m4.cfg` breaks `DirtyIsPending`, in `pair_s3.cfg`
`FlashIsTrue`); on the SAMD51 the block is erased before it is written, so a cut
in between costs everything in it (`AtomicBlob` FALSE with a cut breaks
`UntouchedIsSafe` and `FlashIsTrue`); after a change of host the panel keeps the
old host's snapshot until a poll has ended (`f1_flags_app.cpp:15`); a response
cut short parses as nothing and is taken for success
(`multiviewer_client.cpp:161`); a reused socket that fails for a real reason is
tried again once (`:195`); a reserved opcode is skipped.

So the passing runs state where the properties do hold: `LandsWhole` needs a
single poster, `DirtyIsPending` needs turns and writes that work,
`UntouchedIsSafe` and `FlashIsTrue` an atomic blob and writes that work,
`ToldInTheEnd` room for the burst, `OpenExactly` another press of UP within 24.8
days (`MaxIdle`), and `FramesHeeded` leaves open what becomes of a fragment: it asks
that whole frames be heeded in order, and a fragment may be taken for a message
or refused.  `EveryListenerIsServed` and `NoSlotLeaks` hold although
entries may share a slot.

**Bounds, and why they are enough.**  *Pipeline*: two settings are needed for a
request that can land by half and for an event that evicts another's; the active
app and the LED are two cells more.  Values are two that descriptors accept and
one that they do not.  Queues of 2 and 1 overflow with two requests of up to two
commands; two requests (three on the SAMD51) let a second meet the first at every
step.  One power cut reaches every step; a second starts from what a first
leaves.  *Authenticator*: three ids share two places, so that a place is used
again; a cache of two rolls over within the five requests served; times 0..2 with
skew 1 have instants inside and outside.  *Pairing*: `Wrap` 8 with `Window` 2
keeps the proportion that matters (the window is less than half of the wrap), two
rollovers fit in `MaxUptime` 18, three ids pass through two places.
*WsConnections*: three peers pass through two slots, which fills the table,
shares a slot and uses it again; three tickets roll a store of two over.
*Panel*: a line of two columns has a first and a last one; two row pairs have a
last one and a wrap; a white and a mixed canvas tell every plane apart; of the
two loads, one ends within plane 0's shortest period and one does not.  Two
columns are too few for the flash (`Flash` is `Dark` there); `Width` 10 with
`Depths` {2} has it and takes a minute, and the theorem has it for any width.  *MvPoller*:
a word of 16 with `Boot` 13 rolls over within the three ticks, which span a slow
interval; one fault hits every step of a pass; two hosts are the old and the new.
*Wire*: scripts are chosen one for each way out of the reader and each kind of
route; `LineCap` 17 and the other caps lie between the longest script that fits
and one that does not; two frames, one of each kind, in any pieces.
*Housekeeping*: a word of 6 rolls over at every phase of a press, a hold and a
quiet time; two pages can hold parts of two blobs.  The theorems remove these
bounds where they apply.

**Fairness.**  On the S3 each tick runs in an endless loop of a task that yields,
on the SAMD51 one loop calls every tick, so each task gets on with what it can do:
weak fairness of a task's steps taken together, never of a single one (`s3_live`,
`m4`, `pair_m4`, `ws`), and time passes (`Ripen`).  In `panel` the timer's
interrupt comes again and again, and `show()` gets on.  In `mv` the poll task
moves on whenever it can; of the server nothing is assumed, since every read has
a deadline that `Poller`'s steps include.  In `wire` the net task gets on with
the connection and recycles a listener that is stuck; peers owe nothing.  In
`house` the loop goes round, and `HoldIsHeeded` further assumes that power cuts
come to an end.  Nothing makes a client send, a user press, or the power fail.

## 4. Proofs

All with tlapm; every theorem is for any value of the constants that satisfies
`ConstantsAssumption` (sizes are natural numbers, the window is less than half
of the wrap, special values are distinct).

**CommandPipelineProofs.**  `CommandInv` is the core: types, that a body under
service is valid, that flash holds valid values only, `NeverRefused` and
`FifoExactlyOnce` together: a boot restores only what passed validation, so
each part needs the others.  From it follow `TypeCorrect`, `FifoCorrect`,
`NeverRefusedCorrect`, and `OneRuleCorrect`, the refinement: a step of the
pipeline accepts a command, applies the next one, reboots, or leaves the log as
it is.  `EventAlwaysLandsCorrect` needs that only the render task sends events.
`LandsWholeCorrect` (no WebSocket) strengthens by `RoomIsKept`, that the room
that was counted is still there for what is left to post, and `PartEntered`.
`UntouchedCorrect` (atomic blob) follows a save record by record;
`DirtyCorrect` (turns, no failing writes) uses that nothing is applied between
the first read and the clear.  `EachLossIsCountedCorrect` follows each step of
`eventPost`: the events that are neither in the queue nor taken nor about to be
sent are no more than `eventsDropped`, or one more between the eviction and the
count; the counter may be ahead, since it also counts a full queue that the ws
task emptied in time.  `StaleIsCountedCorrect` accounts for
every place an event can be.

**AuthenticatorProofs.**  `Inv` says how the replay state follows from what was
served: the ring still holds the last `CacheSize` requests of every client
still paired (`RingHoldsLast`), holds nothing that was not served
(`RingWasServed`), and a mark is the newest timestamp its client had served
(`MarkIsNewest`, `MarkWasServed`).  Revoking forgets one client's entries and
keeps the others in their slots, which is why the invariant speaks of slots by
their distance from `nonceNext`.

**PairingProofs.**  `StoreOK` (ids in a store are distinct and all were added)
carries the type invariant; `LateOnce` says which steps may follow the one late
request; `WindowSpent` relates the presses to the window and the pairing under
way; `InStep` says when memory and flash may differ, hence `HoldCorrect` and
`RevokedCorrect` where writes work; `Kept` adds that the blob is replaced, hence
`SurviveCorrect`.  `OpenExactlyCorrect` follows `InTime`: how far `millis()` is past
the deadline is the word for the press's age less the window, or one less; it
assumes that UP is pressed again before half of the word has gone by, without
which it is false (table above).

**WsConnectionsProofs.**  `TypeOK` and `NoSlotLeaks` are inductive together (a
peer that has not come yet is in no slot); `EveryListenerIsServed` needs
`NoSlotLeaks` for the moment the 101 is complete: the slot is live and no longer
in the net task's hands, so an entry has it.  `TicketOnceCorrect` strengthens by
`PlaceInv` (an unspent place holds a ticket nobody used) and `Distinct`;
`FreshTicketCorrect` by `RecentInv`, which says where in the ring each of the
last `MaxTickets` tickets is.

**PanelProofs.**  `TypeCorrect` bounds every index for any geometry and depth.
`NeverTornCorrect` rests on one fact about the two flags, that while `show()`
converts or asks, no swap is due and its buffer is the other one; the interrupt
preserves it because it swaps only when one is due, and `WholeFrame` follows
scanline by scanline.  `PeriodFitsCorrect` is arithmetic of the filter.
`FrameShowsCanvasCorrect` goes from the pins to the eye.  Its invariant, `ScanInv`,
says that between two interrupts the registers hold the scanline that `plane` and
`row` name, the address pins are those of the row latched last, all data pins are
low, and `light` is what the planes and rows so far are worth (`Lighted`), or, in
a frame with a late load, no less than that and dark where that is dark.  One
lemma takes each step of the way: what the converter wrote, toggled element by
element, is that scanline in either layout (`FrameLeads`, `BlastIs`); toggling the
address pins that differ gives the row's address, which no other row has
(`AddressMoves`, `AddressTells`); the timer runs for the period times the worth of
the plane, since that product fits its register, and the panel is lit for as long
or for a longer load (`LitForIs`, from `PeriodFits`);
and the bits so weighted add up to the value, stretched or cut to the depth
(`PartialAll`).  It assumes colours of 5, 6 and 5 bits and 1 to 5 address lines, as
the code does.
`DoubleBufferCorrect` is the refinement of `DoubleBuffer` without its fairness:
`show()` draws, the interrupt's swap flips, everything else stutters.

**HousekeepingProofs.**  `IInv` is the types, `UnsavedIsPending`, and `Writing`: the
pages already written hold the settings, and the timer was not cleared before
them.  `NotInBurstCorrect` rests on `NotYet`, that the due instant is ahead of
the clock by what is left of the quiet period, which stays readable in a word
because twice that period is less than the word.  `BlobStoreCorrect`, the
refinement, needs `OneBlob` (while a write is under way, a page holds that blob or
nothing), and two lemmas about `parse`: parts are nothing, and so is what a cut
erase leaves.

**MvPollerProofs.**  `PollsTheHost` is inductive: the host typed in last is the one
the poller has, or waits in the hand-over (`HostIsTheLast`), and a socket kept
leads to that host with nothing unread (`SocketIsOurs`).  `ShownIsWholeCorrect`
strengthens by `Asking` (a session never connected is asked for everything),
`FailureIsRealCorrect` by `Attempts` (the second attempt of a fetch has a fresh
socket).  `BlueIsLatestCorrect` follows the merge of a list of race control
messages into the list of flags kept: `BlueInv` says that a car has one entry,
that the messages heard so far have keys in order, and that the key to go on from
is no further than what was read.  `PollsAreHarmlessCorrect` adds that a topic
that was not asked for leaves what the session knows of it alone.

**WireProofs.**  `NextIsServedCorrect` counts: `Counted` bounds the time a peer has
stayed by one timeout per line it ended, the wait it is in and one tick per byte
of body, each of which a cap bounds; `NoSocketLeaks` compares the sockets held
with the connection in hand.  `TerminatorFitsCorrect` rests on `Framed`: the
buffer is below its cap when frames are drained, and a frame's total is its
header and payload (`TotalIs`, for each of the three encodings of a length).
`FramesHeededCorrect` says that frames get the same answer however TCP cuts their
bytes.  `FramesInv` ties the three together: what was dealt with is a prefix of
the frames of the talk, all of them well formed and, where they are whole,
answered as they should be, and
buffer and inbox are the next two slices of the bytes of the rest.  So a frame
that is parsed at the head of the buffer is the next frame of the talk, masked
with its own key, or it is not all there yet.

`HandledAsSentCorrect` compares the reader, which keeps one line in a buffer, with
the script read as a whole, for any scripts (`IsScript`) and any cells that
include the few the code looks for (`CellAssumption`).  Its invariant is
`HandledInv`.  `ReadingInv` says where the reader is: while it reads line
`count + 1` it has consumed some `n` cells of it, the cells kept are the first of
those, up to the buffer's cap, and what is unread is the rest of the script.  After the
headers it has taken, `request` is what they say: its authorization is the last
one that fits unless `cut`, its key one of the script's, its length the number in
the last Content-Length, and during the body what was taken opens the script's
body.  `ServedInv` says the same of a request that was handled, and that the route found
stands for its path (`matchPath`, by the star's place in the pattern).
`NotEnumerableCorrect` follows from the first: the authenticator judges the
authorization and the request that the script has, so neither a missing
parameter nor a signature of something else gets past it.

Theorems about a property that a run checks as a conjunction are corollaries that
put the parts together.  Type correctness is proved where a module has a proof
module (`TypeCorrect`); it is a step of every argument there.

**Only model-checked.**  `PromisesKept`, `ToldInTheEnd`, `LoopKeepsUp`,
`HoldWorks`, `GoneAreForgotten`, `ShowReturns`, `SettlesInTheEnd`, `Answered` and
`HoldIsHeeded` are liveness or contain it, and so is the last part of
`ObeysDoubleBuffer`.  Every safety invariant and every other action
property of a run is stated by a theorem.

What scans compute for every input is proved where a theorem above needs it: the
models use recursive functions, each proof shows a function that satisfies the
recursion (so that the one TLA+ chooses does) and that there is no other, by
induction over a set of numbers (`SetInduction`, from the well-foundedness of the
naturals).

## 5. Not modelled

* **Settings' types, ranges and lengths** are one set of accepted values;
  switching apps is a value of one cell.
* **Cryptography** (SHA-1, SHA-256, HMAC, the RNG): a signature is who signed
  what, the accept key a term; their arithmetic has test vectors, and no state.
* **Drawing, clock text, zones**: pixels that no other part reads.
* **WiFi association** on both boards, and the SAMD51's `WiFiServer`: blocking
  calls into a vendor library whose source is not here.
* **The panel driver's other ports**: for processors the firmware does not drive
  this way.  The ESP32-S3 board left this driver for one that paces the panel by
  DMA (`lib/Adafruit_Protomatter/FORK.md:13-19`, `board/esp32s3/matrix_gfx.h`), so
  `esp32-s3.h` is not used, and that driver's source is not here.  Tiling and
  temporal dithering are not configured.
* **Stack and heap, task priorities, the watchdog, metrics, static files, the file
  system**: wrappers and diagnostics, or resources the models have no measure of.
* **The native board, web UI, tools, tests**: not on the device.  The tests were
  read as a reference of what is meant.
