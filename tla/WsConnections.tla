---------------------------- MODULE WsConnections ----------------------------
(***************************************************************************)
(* The WebSocket connections of the ESP32-S3: tickets, retained sockets    *)
(* and the table of WsHub.                                                 *)
(*                                                                         *)
(* The net task upgrades a request: it spends a ticket, moves the socket   *)
(* into a slot (net_link::retain), has the hub adopt the slot and writes   *)
(* the 101.  The ws task goes through the table, in poll() or broadcast(), *)
(* and releases what has gone.  The hub's mutex covers the table, not the  *)
(* slots: every step of one task on a slot may fall between two of the     *)
(* other's.                                                                *)
(*                                                                         *)
(* Abstracted: a peer is one TCP connection, and `open` says whether       *)
(* connected() would find it up; of the traffic, only what closes a        *)
(* connection matters here.  A ticket is its number in order of issue.     *)
(* Two assignments of one slot at the same moment are one after the other. *)
(***************************************************************************)
EXTENDS Integers, Sequences, FiniteSets

CONSTANTS
    Peers,        \* TCP connections that ask for an upgrade
    None,         \* no peer
    MaxRetained,  \* kMaxRetained, and kMaxConnections
    MaxTickets,   \* kMaxTickets
    Lifetime,     \* kLifetimeSeconds
    Times,        \* what the board's clock may show
    MaxIssued     \* bound: tickets ever issued

ASSUME ConstantsAssumption ==
    /\ None \notin Peers
    /\ MaxRetained \in Nat \ {0} /\ MaxTickets \in Nat \ {0}
    /\ Lifetime \in Nat /\ Times \subseteq Nat /\ Times # {} /\ MaxIssued \in Nat

Slots   == 0..(MaxRetained - 1)
Entries == 1..MaxRetained
Free    == -1
Places  == 0..(MaxTickets - 1)

VARIABLES
    arrived, open,         \* peers that ever came; those still connected
    retained, request,     \* g_retained and g_request
    connections,           \* WsHub::connections_, the slot of each
    nPc, slot,             \* net: its step, the slot at hand
    wPc, at,               \* ws: its step, the entry at hand; the lock is
                           \* held whenever the step is not "idle"
    answered,              \* peers that had all of their 101
    tickets, next, now,    \* WsTicketStore, and the clock
    issued, uses           \* when each ticket was issued; how often it was good

sockets == <<arrived, open, retained, request>>
net     == <<nPc, slot>>
ws      == <<wPc, at>>
store   == <<tickets, next>>
history == <<issued, uses>>
vars    == <<sockets, connections, net, ws, answered, store, now, history>>

Issued == DOMAIN issued
Blank  == [ticket |-> 0, issuedAt |-> 0, used |-> TRUE]

Init ==
    /\ arrived = {} /\ open = {}
    /\ retained = [s \in Slots |-> None] /\ request = None
    /\ connections = [e \in Entries |-> Free]
    /\ nPc = "idle" /\ slot = 0 /\ wPc = "idle" /\ at = 1
    /\ answered = {}
    /\ tickets = [i \in Places |-> Blank] /\ next = 0 /\ now \in Times
    /\ issued = <<>> /\ uses = <<>>

------------------------------------------------------------------------------
(* A WiFiClient is true while it is connected, so a slot whose peer has    *)
(* gone looks like one that was never taken.                               *)
Busy(s) == retained[s] \in open

(* retain ends at the first slot that is not busy.                         *)
Retained(s) == retained' = [retained EXCEPT ![s] = request]

(* release: stop, and the empty WiFiClient that takes the place of what is *)
(* in the slot by then; a socket nothing refers to any more is closed.     *)
Stop(s)  == open' = open \ {retained[s]}
Empty(s) == open' = open \ {retained[s]} /\ retained' = [retained EXCEPT ![s] = None]

------------------------------------------------------------------------------
SamePlace == next

NextPlace == (next + 1) % MaxTickets

(* WsTicketStore::issue, for a signed POST /api/ws-ticket.                 *)
Issue ==
    /\ nPc = "idle" /\ Len(issued) < MaxIssued
    /\ tickets' = [tickets EXCEPT ![next] =
                      [ticket |-> Len(issued) + 1, issuedAt |-> now, used |-> FALSE]]
    /\ next' = NextPlace
    /\ issued' = Append(issued, now) /\ uses' = Append(uses, 0)
    /\ UNCHANGED <<sockets, connections, net, ws, answered, now>>

(* consume: the place of a ticket that is live, unused and not too old.    *)
GoodAt(i, t) ==
    /\ tickets[i].ticket = t /\ ~tickets[i].used
    /\ now - tickets[i].issuedAt <= Lifetime

Spent(i) == [tickets EXCEPT ![i].used = TRUE]

Consume(t) ==
    \E i \in Places :
        /\ GoodAt(i, t)
        /\ tickets' = Spent(i) /\ uses' = [uses EXCEPT ![t] = @ + 1]
        /\ UNCHANGED <<next, now, issued>>

(* handleWebSocketUpgrade.  Without a good ticket nothing changes; with a  *)
(* key that will not do the ticket is spent all the same ...               *)
BadKey(t) ==
    /\ nPc = "idle" /\ Consume(t)
    /\ UNCHANGED <<sockets, connections, net, ws, answered>>

(* ... else it comes to retain.                                            *)
Upgrade(p, t) ==
    /\ nPc = "idle" /\ p \notin arrived /\ Consume(t)
    /\ arrived' = arrived \cup {p} /\ open' = open \cup {p} /\ request' = p
    /\ nPc' = "retain" /\ slot' = 0
    /\ UNCHANGED <<retained, connections, ws, answered>>

NetRetain ==
    /\ nPc = "retain"
    /\ IF Busy(slot)
       THEN /\ IF slot + 1 \in Slots THEN slot' = slot + 1 /\ UNCHANGED nPc
                                     ELSE nPc' = "refuse" /\ UNCHANGED slot
            /\ UNCHANGED <<retained, request>>
       ELSE Retained(slot) /\ request' = None /\ nPc' = "adopt" /\ UNCHANGED slot
    /\ UNCHANGED <<arrived, open, connections, ws, answered, store, now, history>>

(* WsHub::adopt, under the lock: the first free entry, if there is one,    *)
(* "in which case the caller must release the slot" (ws_hub.h) if not.     *)
AlwaysFirst(e) == e = 1

FirstFree(e) ==
    /\ connections[e] = Free
    /\ \A f \in Entries : connections[f] = Free => e <= f

RefuseAtOnce == "refuse"

ReleaseFirst == "stop"

NetAdopt ==
    /\ nPc = "adopt" /\ wPc = "idle"
    /\ \/ \E e \in Entries : /\ FirstFree(e) /\ nPc' = "answer"
                             /\ connections' = [connections EXCEPT ![e] = slot]
       \/ /\ \A e \in Entries : connections[e] # Free
          /\ nPc' = ReleaseFirst /\ UNCHANGED connections
    /\ UNCHANGED <<sockets, slot, ws, answered, store, now, history>>

NetStop ==
    /\ nPc = "stop" /\ Stop(slot) /\ nPc' = "empty"
    /\ UNCHANGED <<arrived, retained, request, connections, slot, ws, answered, store, now,
                   history>>

NetEmpty ==
    /\ nPc = "empty" /\ Empty(slot) /\ nPc' = "refuse"
    /\ UNCHANGED <<arrived, request, connections, slot, ws, answered, store, now, history>>

(* The 503 goes to what accept() lent, which retain() may have emptied;    *)
(* then finishRequest.                                                     *)
NetRefuse ==
    /\ nPc = "refuse" /\ nPc' = "idle"
    /\ open' = open \ {request} /\ request' = None
    /\ UNCHANGED <<arrived, retained, connections, slot, ws, answered, store, now, history>>

(* The 101, in several writes: the first finds the client in the slot, the *)
(* last completes it if it is still there.                                 *)
NetAnswer ==
    /\ nPc = "answer" /\ nPc' = IF Busy(slot) THEN "rest" ELSE "idle"
    /\ UNCHANGED <<sockets, connections, slot, ws, answered, store, now, history>>

NetRest ==
    /\ nPc = "rest" /\ nPc' = "idle"
    /\ answered' = IF Busy(slot) THEN answered \cup {retained[slot]} ELSE answered
    /\ UNCHANGED <<sockets, connections, slot, ws, store, now, history>>

NetGoesOn ==
    \/ NetRetain
    \/ NetAdopt
    \/ NetStop
    \/ NetEmpty
    \/ NetRefuse
    \/ NetAnswer
    \/ NetRest

Net ==
    \/ Issue
    \/ \E t \in Issued : BadKey(t)
    \/ \E p \in Peers, t \in Issued : Upgrade(p, t)
    \/ NetGoesOn

------------------------------------------------------------------------------
(* poll and broadcast both go through the table under the lock.            *)
LastForgotten == MaxRetained - 1

Last == MaxRetained

GoesOn == IF at < Last THEN at' = at + 1 /\ wPc' = "look"
                       ELSE at' = 1 /\ wPc' = "idle"

WsStart ==
    /\ wPc = "idle" /\ wPc' = "look" /\ at' = 1
    /\ UNCHANGED <<sockets, connections, net, answered, store, now, history>>

(* A connection that is up and behaves stays; nothing is done for a free   *)
(* entry.                                                                  *)
WsPass ==
    /\ wPc = "look" /\ (connections[at] # Free => Busy(connections[at])) /\ GoesOn
    /\ UNCHANGED <<sockets, connections, net, answered, store, now, history>>

(* One that has gone, takes no more or breaks the protocol is released.    *)
WsDrop ==
    /\ wPc = "look" /\ connections[at] # Free /\ wPc' = "stop"
    /\ UNCHANGED <<sockets, connections, net, at, answered, store, now, history>>

WsStop ==
    /\ wPc = "stop" /\ Stop(connections[at]) /\ wPc' = "empty"
    /\ UNCHANGED <<arrived, retained, request, connections, net, at, answered, store, now,
                   history>>

Dropped == [connections EXCEPT ![at] = Free]

WsEmpty ==
    /\ wPc = "empty" /\ Empty(connections[at]) /\ connections' = Dropped /\ GoesOn
    /\ UNCHANGED <<arrived, request, net, answered, store, now, history>>

WsGoesOn ==
    \/ WsStart
    \/ WsPass
    \/ WsDrop
    \/ WsStop
    \/ WsEmpty

------------------------------------------------------------------------------
PeerLeaves(p) ==
    /\ p \in open /\ open' = open \ {p}
    /\ UNCHANGED <<arrived, retained, request, connections, net, ws, answered, store, now,
                   history>>

SetClock(t) ==
    /\ t # now /\ now' = t
    /\ UNCHANGED <<sockets, connections, net, ws, answered, store, history>>

Next ==
    \/ Net
    \/ WsGoesOn
    \/ \E p \in Peers : PeerLeaves(p)
    \/ \E t \in Times : SetClock(t)

Spec == Init /\ [][Next]_vars

(* Both tasks run for ever; nobody has to ask for anything.                *)
FairSpec == Spec /\ WF_vars(NetGoesOn) /\ WF_vars(WsGoesOn)
------------------------------------------------------------------------------
TypeOK ==
    /\ open \subseteq arrived /\ arrived \subseteq Peers
    /\ retained \in [Slots -> arrived \cup {None}] /\ request \in arrived \cup {None}
    /\ connections \in [Entries -> Slots \cup {Free}]
    /\ nPc \in {"idle", "retain", "adopt", "stop", "empty", "refuse", "answer", "rest"}
    /\ slot \in Slots
    /\ wPc \in {"idle", "look", "stop", "empty"} /\ at \in Entries
    /\ wPc \in {"stop", "empty"} => connections[at] # Free
    /\ answered \subseteq arrived
    /\ tickets \in [Places -> [ticket : 0..MaxIssued, issuedAt : Nat, used : BOOLEAN]]
    /\ next \in Places /\ now \in Times
    /\ issued \in Seq(Times) /\ uses \in Seq(Nat) /\ Len(uses) = Len(issued)
    /\ Len(issued) <= MaxIssued

(* No socket is left open in a slot that nothing will ever close: a slot   *)
(* with a live peer is in the hub's table, or the net task is on its way   *)
(* there or back (net_link.h: the slot owns it; ws_hub.h: "the caller must *)
(* release the slot").                                                     *)
NoSlotLeaks ==
    \A s \in Slots : Busy(s) =>
        \/ \E e \in Entries : connections[e] = s
        \/ nPc \in {"adopt", "stop", "empty"} /\ slot = s

(* Whoever got a 101 and is still connected is in the table, and is sent   *)
(* what is broadcast, whatever became of the other connections (WsHub).    *)
EveryListenerIsServed ==
    \A p \in answered \cap open : \E e \in Entries :
        connections[e] # Free /\ retained[connections[e]] = p

(* A ticket opens one socket at most ("single-use", docs/security.md).     *)
TicketOnce == \A t \in Issued : uses[t] <= 1

(* A ticket nobody has used is good for its lifetime, unless kMaxTickets   *)
(* newer ones were issued (WsTicketStore: "evicting the oldest slot").     *)
FreshTicketIsGood ==
    \A t \in Issued :
        t > Len(issued) - MaxTickets /\ uses[t] = 0 /\ now - issued[t] <= Lifetime =>
            \E i \in Places : GoodAt(i, t)

(* A ticket is good until it is used, and then no more (WsTicketStore).    *)
TicketsAreGood == TicketOnce /\ FreshTicketIsGood

(* "one consumer per socket" (docs/concurrency.md): no two entries of the  *)
(* table read from and write to one live connection.  The code does not    *)
(* satisfy it: a slot whose peer has left may be retained for another      *)
(* connection before the hub has let it go.                                *)
OneConsumerPerSocket ==
    \A e, f \in Entries :
        e # f /\ connections[e] # Free /\ connections[e] = connections[f]
            => ~Busy(connections[e])

(* An entry whose peer has gone is free again in the end, or its slot is   *)
(* in use again.                                                           *)
GoneAreForgotten ==
    \A e \in Entries : []<>(connections[e] = Free \/ Busy(connections[e]))
==============================================================================
