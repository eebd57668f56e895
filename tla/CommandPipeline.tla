--------------------------- MODULE CommandPipeline ---------------------------
(***************************************************************************)
(* How a change reaches the panel, the listeners and the flash.            *)
(*                                                                         *)
(* The tasks of src/src/main.cpp that touch app state, one program counter *)
(* per task and one action per step another task can observe:              *)
(*   net        serves an HTTP request: validates, posts Commands, replies *)
(*   ws         turns Events into broadcasts, then reads WebSocket frames, *)
(*              whose messages post Commands too                           *)
(*   render     drains the command queue: applies, marks the quiet timer,  *)
(*              posts an Event                                             *)
(*   housekeep  saves every setting once the timer is due                  *)
(*                                                                         *)
(* On the ESP32-S3 the tasks interleave (Preemptive).  On the SAMD51 one   *)
(* loop calls the ticks in turn, and there is no WebSocket.                *)
(*                                                                         *)
(* Abstracted: a setting is an index into its bag's descriptors and a      *)
(* value one of a few; the quiet timer is "clean", "armed" or "ripe";      *)
(* the flash is the settings a reboot would restore from it.  `turn` is    *)
(* the SAMD51's place in its loop.  told, posted, applied, promised and    *)
(* unheard are history: what listeners and clients have been led to        *)
(* believe, and what of it never reached the ws task.                      *)
(***************************************************************************)
EXTENDS Integers, Sequences, FiniteSets

CONSTANTS
    Settings,      \* how many settings the apps' bags bind
    Values,        \* what a request may carry for a setting
    Valid,         \* what the descriptors accept
    InitValue,     \* what everything is before a blob is restored
    Active,        \* the cell that holds the index of the active app
    Led,           \* the cell that holds the desired state of the LED
    QueueDepth,    \* kCommandQueueDepth
    EventDepth,    \* kEventQueueDepth
    HasWebSocket,  \* board_caps::kHasWebSocket
    Preemptive,    \* tasks (ESP32-S3) or a loop (SAMD51)
    AtomicBlob,    \* a save replaces the blob (NVS) or erases it first
    WriteMayFail,  \* whether blob_store::save may report a failure
    MaxRequests,   \* bound: requests and messages that ever arrive
    MaxCuts        \* bound: power cuts

Keys    == 1..Settings
Cells   == Keys \cup {Active, Led}
Watched == Keys \cup {Active}      \* the LED has no event

ASSUME ConstantsAssumption ==
    /\ Settings \in Nat
    /\ Valid \subseteq Values
    /\ InitValue \in Valid
    /\ Active # Led /\ Active \notin Keys /\ Led \notin Keys
    /\ QueueDepth \in Nat \ {0} /\ EventDepth \in Nat \ {0}
    /\ {HasWebSocket, Preemptive, AtomicBlob, WriteMayFail} \subseteq BOOLEAN
    /\ MaxRequests \in Nat /\ MaxCuts \in Nat

Tasks    == {"render", "housekeep", "ws", "net"}
Command  == [cell : Cells, val : Values, req : 0..MaxRequests]
Event    == [cell : Watched, app : Values]
Body     == UNION {[S -> Values] : S \in SUBSET Keys}
Defaults == [k \in Keys |-> InitValue]

VARIABLES
    queue, events,         \* the two rtos queues
    cell,                  \* the app state: settings, active app, LED
    timer,                 \* settingsQuiet
    eventsDropped, persistWrites,
    stored,                \* what a reboot would restore
    rPc, cmd,              \* render: its step, the command in hand
    nPc, body, todo, nReq, \* net: its step, the settings POST it serves
    wPc, wEv, wVal,        \* ws: its step, the event in hand, its value
    hPc, snap,             \* housekeep: its step, the records read so far
    turn,                  \* whose tick the SAMD51 loop is in
    told,                  \* per cell, the last value broadcast
    posted, applied,       \* every command queued and drained since boot
    promised,              \* the commands a 200 reply spoke for
    unheard,               \* events posted and not received by the ws task
    requests, cuts         \* how much of the bounds is left

queues  == <<queue, events>>
shared  == <<cell, timer, eventsDropped, persistWrites, stored>>
render  == <<rPc, cmd>>
net     == <<nPc, body, todo, nReq>>
ws      == <<wPc, wEv, wVal>>
house   == <<hPc, snap>>
history == <<told, posted, applied, promised, unheard>>
bounds  == <<requests, cuts>>
vars    == <<queues, shared, render, net, ws, house, turn, history, bounds>>

NoCommand == [cell |-> Led, val |-> InitValue, req |-> 0]
NoEvent   == [cell |-> Active, app |-> InitValue]
Nothing   == [k \in {} |-> InitValue]

------------------------------------------------------------------------------
(* AppSettingsStore::load at boot: what is stored goes through the same    *)
(* validation as a request; the rest starts from its initializers.         *)
Restored(flash) == [c \in Cells |-> IF c \in Keys THEN flash[c] ELSE InitValue]

Init ==
    /\ stored = Defaults /\ cell = Restored(Defaults)
    /\ queue = <<>> /\ events = <<>>
    /\ timer = "clean" /\ eventsDropped = 0 /\ persistWrites = 0
    /\ rPc = "idle" /\ cmd = NoCommand
    /\ nPc = "idle" /\ body = Nothing /\ todo = {} /\ nReq = 0
    /\ wPc = "events" /\ wEv = NoEvent /\ wVal = InitValue
    /\ hPc = "idle" /\ snap = Nothing
    /\ turn = "render"
    /\ told = [c \in Watched |-> InitValue]
    /\ posted = <<>> /\ applied = <<>> /\ promised = {} /\ unheard = 0
    /\ requests = MaxRequests /\ cuts = MaxCuts

(* exec::tick: the SAMD51 runs a tick to its end before the next one; on   *)
(* the ESP32-S3 every task may take a step at any time.                    *)
Runs(t) == Preemptive \/ turn = t

RenderSkipped == [render |-> "housekeep", housekeep |-> "ws", ws |-> "net",
                  net |-> "housekeep"]

AfterTick == [render |-> "housekeep", housekeep |-> "ws", ws |-> "net",
              net |-> "render"]

EndOfTick(t) == turn' = IF Preemptive THEN turn ELSE AfterTick[t]

------------------------------------------------------------------------------
(* rtos::commandPost: refused, not dropped or overwritten, when full.      *)
HasRoom == Len(queue) < QueueDepth

PostOverOldest(c) ==
    /\ queue' = Append(IF HasRoom THEN queue ELSE Tail(queue), c)
    /\ posted' = Append(posted, c)

Post(c) ==
    IF HasRoom
    THEN queue' = Append(queue, c) /\ posted' = Append(posted, c)
    ELSE UNCHANGED <<queue, posted>>

(* A request or a message arrives; its number tells it from the others.    *)
Arrives == requests > 0 /\ requests' = requests - 1

(* SettingsBag::validate, for both kinds of poster and for apply.          *)
Validate(v) == v \in Valid

(* The net task.  netTick serves at most one request.                      *)

(* The reservation: room for every command of the request, checked once.   *)
ReservedForOne(b) == HasRoom

Reserved(b) == Cardinality(DOMAIN b) <= QueueDepth - Len(queue)

(* handleSetAppSettings up to the reservation: 400 if any value is out of  *)
(* range, 503 if the queue lacks room for all of it, or start posting.     *)
SettingsPost(b) ==
    /\ Runs("net") /\ nPc = "idle" /\ Arrives
    /\ IF (\A k \in DOMAIN b : Validate(b[k])) /\ Reserved(b)
       THEN /\ nPc' = "post" /\ body' = b /\ todo' = DOMAIN b /\ nReq' = requests
            /\ UNCHANGED turn
       ELSE UNCHANGED net /\ EndOfTick("net")
    /\ UNCHANGED <<queues, shared, render, ws, house, history, cuts>>

SettingCommand(k) == [cell |-> k, val |-> body[k], req |-> nReq]

(* One turn of its posting loop, in descriptor order.  The result of       *)
(* commandPost is not looked at: "this cannot fail".                       *)
NetPostOne ==
    /\ Runs("net") /\ nPc = "post"
    /\ \E k \in todo :
          /\ \A j \in todo : k <= j
          /\ Post(SettingCommand(k))
          /\ todo' = todo \ {k}
    /\ UNCHANGED <<events, shared, render, nPc, body, nReq, ws, house, turn,
                   told, applied, promised, unheard, bounds>>

(* sendAppSettings: a 200 that shows every value in the request as taken.  *)
NetReply ==
    /\ Runs("net") /\ nPc = "post" /\ todo = {}
    /\ promised' = promised \cup {SettingCommand(k) : k \in DOMAIN body}
    /\ nPc' = "idle" /\ body' = Nothing /\ nReq' = 0
    /\ EndOfTick("net")
    /\ UNCHANGED <<queues, shared, render, todo, ws, house, told, posted,
                   applied, unheard, bounds>>

(* handleSetActiveApp and handleSetLed: one command, and a 503 if full.    *)
SinglePost(c) ==
    /\ Runs("net") /\ nPc = "idle" /\ Arrives
    /\ Post(c)
    /\ promised' = IF HasRoom THEN promised \cup {c} ELSE promised
    /\ EndOfTick("net")
    /\ UNCHANGED <<events, shared, render, net, ws, house, told, applied, unheard,
                   cuts>>

SetActiveApp(v) == SinglePost([cell |-> Active, val |-> v, req |-> requests])
SetLed(v)       == SinglePost([cell |-> Led, val |-> v, req |-> requests])

(* net_link::accept had nobody.                                            *)
NetEndTick ==
    /\ ~Preemptive /\ turn = "net" /\ nPc = "idle"
    /\ EndOfTick("net")
    /\ UNCHANGED <<queues, shared, render, net, ws, house, history, bounds>>

Net ==
    \/ \E b \in Body : b # Nothing /\ SettingsPost(b)
    \/ \E v \in Valid : SetActiveApp(v) \/ SetLed(v)
    \/ NetPostOne
    \/ NetReply
    \/ NetEndTick

------------------------------------------------------------------------------
(* The ws task: broadcastEvents until the queue is seen empty, then        *)
(* WsHub::poll.                                                            *)
WsTake ==
    /\ Runs("ws") /\ wPc = "events" /\ events # <<>>
    /\ wEv' = Head(events) /\ events' = Tail(events)
    /\ unheard' = unheard - 1
    /\ wPc' = "read"
    /\ UNCHANGED <<queue, shared, render, net, wVal, house, turn, told, posted,
                   applied, promised, bounds>>

(* A setting's value is read now, not carried; an app switch carries its   *)
(* index.                                                                  *)
WsRead ==
    /\ Runs("ws") /\ wPc = "read"
    /\ wVal' = IF wEv.cell = Active THEN wEv.app ELSE cell[wEv.cell]
    /\ wPc' = "send"
    /\ UNCHANGED <<queues, shared, render, net, wEv, house, turn, history, bounds>>

WsSend ==
    /\ Runs("ws") /\ wPc = "send"
    /\ told' = [told EXCEPT ![wEv.cell] = wVal]
    /\ wPc' = "events" /\ wEv' = NoEvent /\ wVal' = InitValue
    /\ UNCHANGED <<queues, shared, render, net, house, turn, posted, applied,
                   promised, unheard, bounds>>

WsDrained ==
    /\ Runs("ws") /\ wPc = "events" /\ events = <<>>
    /\ wPc' = "poll"
    /\ UNCHANGED <<queues, shared, render, net, wEv, wVal, house, turn, history, bounds>>

(* handleWsMessage: the same validation and the same queue as the REST     *)
(* route.  A full queue drops the message: no reply speaks for it.         *)
WsMessage(k, v) ==
    /\ HasWebSocket /\ Runs("ws") /\ wPc = "poll" /\ Arrives
    /\ IF Validate(v)
       THEN Post([cell |-> k, val |-> v, req |-> requests])
       ELSE UNCHANGED <<queue, posted>>
    /\ UNCHANGED <<events, shared, render, net, ws, house, turn, told, applied,
                   promised, unheard, cuts>>

WsEndTick ==
    /\ Runs("ws") /\ wPc = "poll"
    /\ wPc' = "events"
    /\ EndOfTick("ws")
    /\ UNCHANGED <<queues, shared, render, net, wEv, wVal, house, history, bounds>>

Ws ==
    \/ WsTake
    \/ WsRead
    \/ WsSend
    \/ WsDrained
    \/ \E k \in Keys, v \in Values : WsMessage(k, v)
    \/ WsEndTick

------------------------------------------------------------------------------
(* The render task: drainCommands.                                         *)
RenderTake ==
    /\ Runs("render") /\ rPc = "idle" /\ queue # <<>>
    /\ cmd' = Head(queue) /\ queue' = Tail(queue)
    /\ rPc' = "apply"
    /\ UNCHANGED <<events, shared, net, ws, house, turn, history, bounds>>

(* AppScheduler::switchTo, SettingsBag::apply (which validates again and   *)
(* may refuse) or the LED; what remains to be done depends on which.       *)
RenderApply ==
    /\ Runs("render") /\ rPc = "apply"
    /\ applied' = Append(applied, cmd)
    /\ LET refused == cmd.cell \in Keys /\ ~Validate(cmd.val)
       IN  /\ cell' = IF refused THEN cell ELSE [cell EXCEPT ![cmd.cell] = cmd.val]
           /\ rPc' = IF refused \/ cmd.cell = Led THEN "idle"
                     ELSE IF cmd.cell = Active THEN "notify" ELSE "mark"
    /\ UNCHANGED <<queues, timer, eventsDropped, persistWrites, stored, cmd, net,
                   ws, house, turn, told, posted, promised, unheard, bounds>>

(* settingsQuiet.mark: restarts the quiet period, whatever it was doing.   *)
RenderMark ==
    /\ Runs("render") /\ rPc = "mark"
    /\ timer' = "armed" /\ rPc' = "notify"
    /\ UNCHANGED <<queues, cell, eventsDropped, persistWrites, stored, cmd, net,
                   ws, house, turn, history, bounds>>

EventWithoutIndex == [cell |-> cmd.cell, app |-> InitValue]

TheEvent == [cell |-> cmd.cell,
             app  |-> IF cmd.cell = Active THEN cmd.val ELSE InitValue]

(* rtos::eventPost, in the three calls the other core can come between:    *)
(* send; if full, receive one and throw it away; send again and say so.    *)
RenderNotify ==
    /\ Runs("render") /\ rPc = "notify"
    /\ IF Len(events) < EventDepth
       THEN events' = Append(events, TheEvent) /\ rPc' = "idle"
       ELSE UNCHANGED events /\ rPc' = "evict"
    /\ unheard' = unheard + 1
    /\ UNCHANGED <<queue, shared, cmd, net, ws, house, turn, told, posted, applied,
                   promised, bounds>>

RoomMade == IF events = <<>> THEN events ELSE Tail(events)

RenderEvict ==
    /\ Runs("render") /\ rPc = "evict"
    /\ events' = RoomMade
    /\ rPc' = "resend"
    /\ UNCHANGED <<queue, shared, cmd, net, ws, house, turn, history, bounds>>

OnlyTheFirstCounted == IF eventsDropped = 0 THEN 1 ELSE eventsDropped

DropCounted == eventsDropped + 1

RenderResend ==
    /\ Runs("render") /\ rPc = "resend"
    /\ events' = IF Len(events) < EventDepth THEN Append(events, TheEvent) ELSE events
    /\ eventsDropped' = DropCounted
    /\ rPc' = "idle"
    /\ UNCHANGED <<queue, cell, timer, persistWrites, stored, cmd, net, ws, house,
                   turn, history, bounds>>

RenderEndTick ==
    /\ ~Preemptive /\ turn = "render" /\ rPc = "idle" /\ queue = <<>>
    /\ EndOfTick("render")
    /\ UNCHANGED <<queues, shared, render, net, ws, house, history, bounds>>

Render ==
    \/ RenderTake
    \/ RenderApply
    \/ RenderMark
    \/ RenderNotify
    \/ RenderEvict
    \/ RenderResend
    \/ RenderEndTick

------------------------------------------------------------------------------
(* Housekeeping: `if due { saveAll; clear; ++persistWrites }`.             *)
HouseDue ==
    /\ Runs("housekeep") /\ hPc = "idle" /\ timer = "ripe"
    /\ hPc' = "read" /\ snap' = Nothing
    /\ UNCHANGED <<queues, shared, render, net, ws, turn, history, bounds>>

(* Every binding of every bag gets a record: kMaxRecords is well above the *)
(* number of settings the variants have.                                   *)
AllButLast == 1..(Settings - 1)

Recorded == Keys

(* saveAll reads one setting at a time, each under the settings mutex and  *)
(* none held across two.                                                   *)
HouseRead ==
    /\ Runs("housekeep") /\ hPc = "read"
    /\ \E k \in Recorded \ DOMAIN snap :
          /\ \A j \in Recorded \ DOMAIN snap : k <= j
          /\ snap' = [j \in DOMAIN snap \cup {k} |-> IF j = k THEN cell[k] ELSE snap[j]]
    /\ UNCHANGED <<queues, shared, render, net, ws, hPc, turn, history, bounds>>

EraseAlways ==
    /\ Runs("housekeep") /\ hPc = "read" /\ DOMAIN snap = Recorded
    /\ stored' = Defaults
    /\ hPc' = "write"
    /\ UNCHANGED <<queues, cell, timer, eventsDropped, persistWrites, render, net,
                   ws, snap, turn, history, bounds>>

(* flash_block::erasedWrite erases the block before it writes a page.      *)
HouseErase ==
    /\ Runs("housekeep") /\ hPc = "read" /\ DOMAIN snap = Recorded /\ ~AtomicBlob
    /\ stored' = Defaults
    /\ hPc' = "write"
    /\ UNCHANGED <<queues, cell, timer, eventsDropped, persistWrites, render, net,
                   ws, snap, turn, history, bounds>>

(* The write, whose result saveAll does not look at.                       *)
HouseWrite ==
    /\ Runs("housekeep") /\ DOMAIN snap = Recorded
    /\ hPc = (IF AtomicBlob THEN "read" ELSE "write")
    /\ \/ stored' = [k \in Keys |-> IF k \in Recorded THEN snap[k] ELSE InitValue]
       \/ WriteMayFail /\ UNCHANGED stored
    /\ hPc' = "clear"
    /\ UNCHANGED <<queues, cell, timer, eventsDropped, persistWrites, render, net,
                   ws, snap, turn, history, bounds>>

HouseClear ==
    /\ Runs("housekeep") /\ hPc = "clear"
    /\ timer' = "clean" /\ persistWrites' = persistWrites + 1
    /\ hPc' = "idle" /\ snap' = Nothing
    /\ EndOfTick("housekeep")
    /\ UNCHANGED <<queues, cell, eventsDropped, stored, render, net, ws, history,
                   bounds>>

HouseEndTick ==
    /\ ~Preemptive /\ turn = "housekeep" /\ hPc = "idle" /\ timer # "ripe"
    /\ EndOfTick("housekeep")
    /\ UNCHANGED <<queues, shared, render, net, ws, house, history, bounds>>

House ==
    \/ HouseDue
    \/ HouseRead
    \/ HouseErase
    \/ HouseWrite
    \/ HouseClear
    \/ HouseEndTick

------------------------------------------------------------------------------
(* Five seconds without another change.                                    *)
Ripen ==
    /\ timer = "armed" /\ timer' = "ripe"
    /\ UNCHANGED <<queues, cell, eventsDropped, persistWrites, stored, render, net,
                   ws, house, turn, history, bounds>>

(* Everything in RAM starts over from what is stored; listeners reconnect  *)
(* and read the settings anew.                                             *)
PowerCut ==
    /\ cuts > 0 /\ cuts' = cuts - 1
    /\ cell' = Restored(stored)
    /\ queue' = <<>> /\ events' = <<>>
    /\ timer' = "clean" /\ eventsDropped' = 0 /\ persistWrites' = 0
    /\ rPc' = "idle" /\ cmd' = NoCommand
    /\ nPc' = "idle" /\ body' = Nothing /\ todo' = {} /\ nReq' = 0
    /\ wPc' = "events" /\ wEv' = NoEvent /\ wVal' = InitValue
    /\ hPc' = "idle" /\ snap' = Nothing
    /\ turn' = "render"
    /\ told' = [c \in Watched |-> Restored(stored)[c]]
    /\ posted' = <<>> /\ applied' = <<>> /\ promised' = {} /\ unheard' = 0
    /\ UNCHANGED <<stored, requests>>

Next == Net \/ Ws \/ Render \/ House \/ Ripen \/ PowerCut

Spec == Init /\ [][Next]_vars

(* The scheduler runs every task and time passes; nobody has to send a     *)
(* request, and the power need not fail.                                   *)
FairSpec ==
    /\ Spec
    /\ WF_vars(NetPostOne \/ NetReply \/ NetEndTick)
    /\ WF_vars(WsTake \/ WsRead \/ WsSend \/ WsDrained \/ WsEndTick)
    /\ WF_vars(Render)
    /\ WF_vars(House)
    /\ WF_vars(Ripen)
------------------------------------------------------------------------------
TypeOK ==
    /\ queue \in Seq(Command) /\ Len(queue) <= QueueDepth
    /\ events \in Seq(Event) /\ Len(events) <= EventDepth
    /\ cell \in [Cells -> Values]
    /\ timer \in {"clean", "armed", "ripe"}
    /\ eventsDropped \in Nat /\ persistWrites \in Nat
    /\ stored \in [Keys -> Values]
    /\ rPc \in {"idle", "apply", "mark", "notify", "evict", "resend"}
    /\ cmd \in Command
    /\ rPc = "mark" => cmd.cell \in Keys
    /\ rPc \in {"notify", "evict", "resend"} => cmd.cell \in Watched
    /\ nPc \in {"idle", "post"}
    /\ body \in Body /\ todo \subseteq DOMAIN body /\ nReq \in 0..MaxRequests
    /\ wPc \in {"events", "read", "send", "poll"}
    /\ wEv \in Event /\ wVal \in Values
    /\ hPc \in {"idle", "read", "write", "clear"} /\ snap \in Body
    /\ turn \in Tasks
    /\ told \in [Watched -> Values]
    /\ posted \in Seq(Command) /\ applied \in Seq(Command)
    /\ promised \subseteq Command /\ unheard \in Int
    /\ requests \in 0..MaxRequests /\ cuts \in 0..MaxCuts

InHand == IF rPc = "apply" THEN <<cmd>> ELSE <<>>

(* Every command that entered the queue is applied once, in the order it   *)
(* entered, whoever posted it: what has been drained, what the render task *)
(* holds and what waits is exactly what was posted (rtos::commandPost,     *)
(* commandTake, drainCommands).                                            *)
FifoExactlyOnce == posted = applied \o InHand \o queue

(* "A refusal here means validate and apply disagree" (main.cpp): nothing  *)
(* reaches the render task that its own validation would refuse, and       *)
(* nothing out of range is ever in force.                                  *)
NeverRefused ==
    /\ \A i \in DOMAIN queue : queue[i].val \in Valid
    /\ rPc # "idle" => cmd.val \in Valid
    /\ \A c \in Cells : cell[c] \in Valid

(* What is accepted arrives: in order, once, and good enough to be applied *)
(* (commandPost, commandTake, drainCommands).                              *)
CommandsArrive == FifoExactlyOnce /\ NeverRefused

(* A settings request "either lands whole or is refused whole"             *)
(* (docs/concurrency.md): each command a 200 spoke for entered the queue.  *)
LandsWhole == promised \subseteq {posted[i] : i \in DOMAIN posted}

(* An Event for c that listeners will still hear of: waiting, about to be  *)
(* posted, or in the ws task's hand with the value c has.                  *)
NewsOf(c) ==
    \/ rPc \in {"mark", "notify", "evict", "resend"} /\ cmd.cell = c
    \/ \E i \in DOMAIN events : events[i].cell = c
    \/ wPc = "read" /\ wEv.cell = c
    \/ wPc = "send" /\ wEv.cell = c /\ wVal = cell[c]

(* A listener left with an outdated value and no event on the way can be   *)
(* seen in the metrics: some event was dropped, and counted (eventPost,    *)
(* drainCommands, broadcastEvents).                                        *)
StaleIsCounted ==
    \A c \in Watched :
        told[c] # cell[c] /\ ~NewsOf(c) => eventsDropped > 0 \/ rPc = "resend"

(* eventPost "always succeeds": when it sends for the second time there is *)
(* room, although the ws task may have emptied the queue in between and    *)
(* although making room and using it are two calls.                        *)
EventAlwaysLands == rPc = "resend" => Len(events) < EventDepth

(* The events that neither reached the ws task nor are on their way to it: *)
(* not in the queue, and not the one eventPost is still about to send.     *)
Lost ==
    unheard - Len(events) - IF rPc \in {"evict", "resend"} THEN 1 ELSE 0

(* Each event that is lost is in eventsDropped, or about to be: between    *)
(* the eviction and the second send it is not counted yet.  The counter    *)
(* may be ahead of the losses, since it also counts a full queue that the  *)
(* ws task emptied before anything was thrown away (eventPost).            *)
EachLossIsCounted == Lost <= eventsDropped + IF rPc = "resend" THEN 1 ELSE 0

(* The event queue makes room for every event, what it loses for that is   *)
(* counted event by event, and no listener is outdated without a count.    *)
EventsAreCounted == EachLossIsCounted /\ StaleIsCounted /\ EventAlwaysLands

(* A setting that a reboot would not restore has a write ahead of it: the  *)
(* quiet timer is pending, or the render task is about to mark it          *)
(* ("every successful POST snapshots", docs/api.md).                       *)
DirtyIsPending ==
    \A k \in Keys :
        cell[k] # stored[k] => timer # "clean" \/ (rPc = "mark" /\ cmd.cell = k)

Untouched(k) == \A i \in DOMAIN applied : applied[i].cell # k

(* "A power cut within five seconds of a change loses that change"         *)
(* (main.cpp) and no other: a setting that nobody has changed since boot   *)
(* would be restored by a reboot at any moment, whatever is being saved.   *)
UntouchedIsSafe == \A k \in Keys : Untouched(k) => stored[k] = cell[k]

(* What a 200 reply spoke for is in effect in the end.                     *)
PromisesKept == []<>(promised \subseteq {applied[i] : i \in DOMAIN applied})

(* Once changes stop, flash holds what the panel shows.                    *)
SavedInTheEnd == []<>(\A k \in Keys : stored[k] = cell[k])

(* One loop gets round to all of it: to what was promised, and to saving   *)
(* it (exec::tick).                                                        *)
LoopKeepsUp == PromisesKept /\ SavedInTheEnd

(* Once changes stop, listeners hold what the panel shows: "a client that  *)
(* missed an intermediate colour and got the final one has lost nothing"   *)
(* (board/rtos.h).                                                         *)
ToldInTheEnd == []<>(\A c \in Watched : told[c] = cell[c])

(* The one rule of docs/concurrency.md, as a specification of its own.     *)
OneRule == INSTANCE MutationLog
    WITH log <- posted, done <- Len(applied), panel <- cell

ObeysOneRule == OneRule!Spec
==============================================================================
