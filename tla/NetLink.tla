------------------------------- MODULE NetLink -------------------------------
(***************************************************************************)
(* The link of the ESP32-S3 and its listening socket (net_link.cpp).       *)
(*                                                                         *)
(* The driver keeps the association up by itself; maintain() polls it and  *)
(* listens anew when it has come back.  acceptClient() listens anew every  *)
(* kRecycleIntervalMs, whether or not anything looks wrong: lwIP's         *)
(* listener may stop producing connections for good.  lwIP has few sockets *)
(* and every task takes from them, so that there may be none to listen on. *)
(* The net task alone works on all of this, between two connections.       *)
(***************************************************************************)
EXTENDS Naturals

VARIABLES
    listening,  \* g_listenFd: none, one that works, one that is stuck
    fds,        \* sockets of lwIP that the server holds
    up, wasUp   \* WiFi.status(), and g_wasUp

link == <<listening, fds, up, wasUp>>

Held(l) == IF l = "none" THEN 0 ELSE 1

(* begin() has waited for the link; serveHttp() may have found no socket   *)
LinkInit ==
    /\ listening \in {"none", "works"} /\ fds = Held(listening)
    /\ up = TRUE /\ wasUp = TRUE

(* The old socket is closed first, then socket(), bind() and listen() do   *)
(* or leave no listener at all.                                            *)
openListenSocket ==
    /\ listening' \in {"none", "works"}
    /\ fds' = fds - Held(listening) + Held(listening')

(* maintain(), and the serveHttp() of netTick: only the edge counts, and a *)
(* drop that is over by the next call has not been seen.                   *)
maintain ==
    /\ up # wasUp /\ wasUp' = up
    /\ IF up THEN openListenSocket ELSE UNCHANGED <<listening, fds>>
    /\ UNCHANGED up

(* acceptClient, when the interval is over                                 *)
Recycle ==
    /\ listening # "none"
    /\ openListenSocket
    /\ UNCHANGED <<up, wasUp>>

(* ... or when a connection is there: it is lent to the request, ...       *)
acceptClient ==
    /\ listening = "works" /\ up
    /\ fds' = fds + 1
    /\ UNCHANGED <<listening, up, wasUp>>

LeaksIt(n) == n

ClosesIt(n) == n - 1

(* ... unless its peer has reset it by the time of setsockopt().           *)
AcceptFails ==
    /\ listening = "works" /\ up
    /\ fds' = ClosesIt(fds + 1)
    /\ UNCHANGED <<listening, up, wasUp>>

(* finishRequest, or the release of a retained connection                  *)
Closes == fds' = ClosesIt(fds) /\ UNCHANGED <<listening, up, wasUp>>

------------------------------------------------------------------------------
LinkChanges == up' = ~up /\ UNCHANGED <<listening, fds, wasUp>>

Wedges == listening = "works" /\ listening' = "stuck" /\ UNCHANGED <<fds, up, wasUp>>

------------------------------------------------------------------------------
LinkTypeOK ==
    /\ listening \in {"none", "works", "stuck"} /\ fds \in Nat
    /\ up \in BOOLEAN /\ wasUp \in BOOLEAN

(* A listener that could not be opened is opened later.  The code does     *)
(* not satisfy it: acceptClient returns before it comes to the recycling   *)
(* when there is no listener, and maintain waits for the link to drop.     *)
ListensAgain == listening = "none" ~> listening # "none"
==============================================================================
