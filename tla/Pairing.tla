------------------------------ MODULE Pairing ------------------------------
(***************************************************************************)
(* Who is paired: the two buttons, the pairing window, POST /pair, the     *)
(* revocations and what of it is in flash.                                 *)
(*                                                                         *)
(* Housekeeping sees the buttons: UP opens the window, a held DOWN raises  *)
(* revokeAllRequested.  Everything else runs on the net task: a tick looks *)
(* at the flag, then serves at most one request.  On the ESP32-S3          *)
(* (Preemptive) the buttons may come between any two steps of the net      *)
(* task; on the SAMD51 the two ticks take turns.                           *)
(*                                                                         *)
(* The window's word is modelled as it is: a millis() value, modulo Wrap,  *)
(* with zero for closed.  Abstracted: a StoredClient is its id; that a     *)
(* request is signed by a paired client is its guard (Authenticator says   *)
(* which are); debouncing.                                                 *)
(***************************************************************************)
EXTENDS Integers, Sequences, FiniteSets

CONSTANTS
    Ids,           \* what the TRNG draws ids from; it repeats none
    Nobody,        \* no id
    MaxClients,    \* kMaxClients
    Wrap,          \* millis() values: 2^32
    Window,        \* kWindowMs
    Preemptive,    \* tasks (ESP32-S3) or a loop (SAMD51)
    AtomicBlob,    \* a save replaces the blob (NVS) or erases it first
    WriteMayFail,  \* whether blob_store::save may report a failure
    MaxUptime,     \* bound: how long a boot lasts
    MaxIdle,       \* bound: how long UP may go without being pressed
    MaxPresses,    \* bound: presses of UP
    MaxCuts        \* bound: power cuts

ASSUME ConstantsAssumption ==
    /\ Nobody \notin Ids
    /\ MaxClients \in Nat /\ Window \in Nat \ {0}
    /\ Wrap \in Nat /\ Wrap % 2 = 0 /\ 2 * Window < Wrap
    /\ {Preemptive, AtomicBlob, WriteMayFail} \subseteq BOOLEAN
    /\ MaxUptime \in Nat /\ MaxIdle \in Nat /\ MaxPresses \in Nat /\ MaxCuts \in Nat

VARIABLES
    uptime,               \* milliseconds since boot, never wrapping
    deadline,             \* PairingWindow::deadlineMs_
    revokeAll,            \* revokeAllRequested
    clients, stored,      \* CredentialStore::clients_, and the flash copy
    nPc, then, id,        \* net: its step, what follows a save, the id at hand
    turn,                 \* whose tick the SAMD51 loop is in
    presses, pressedAt,   \* presses of UP: how many, and when the last was
    shut,                 \* a pairing or a power cut has ended its window
    added,                \* every id ever added
    issued,               \* ... whose secret a client was given
    condemned,            \* the clients there were whenever DOWN was held
    leaving, gone,        \* ids revoked; ids a reply says are
    late,                 \* requests served while revokeAll is up
    cuts

store   == <<clients, stored>>
net     == <<nPc, then, id>>
history == <<presses, pressedAt, shut, added, issued, condemned, leaving, gone, late>>
vars    == <<uptime, deadline, revokeAll, store, net, turn, history, cuts>>

Elements(s) == {s[i] : i \in DOMAIN s}

Init ==
    /\ uptime = 0 /\ deadline = 0 /\ revokeAll = FALSE
    /\ clients = <<>> /\ stored = <<>>
    /\ nPc = "idle" /\ then = "accept" /\ id = Nobody
    /\ turn = "housekeep"
    /\ presses = 0 /\ pressedAt = 0 /\ shut = TRUE
    /\ added = {} /\ issued = {} /\ condemned = {}
    /\ leaving = {} /\ gone = {} /\ late = 0
    /\ cuts = MaxCuts

Runs(t) == Preemptive \/ turn = t

EndOfTick == turn' = IF Preemptive THEN turn
                     ELSE IF turn = "net" THEN "housekeep" ELSE "net"

------------------------------------------------------------------------------
Millis == uptime % Wrap

(* The signed difference of two millis() values is not negative.           *)
Reached(t) == (Millis - t) % Wrap < Wrap \div 2

(* isOpen: an expired deadline is left where it is.                        *)
IsOpen == deadline # 0 /\ ~Reached(deadline)

(* open: zero means closed, so a deadline of zero is put off by one.       *)
NoBorrow == (Millis + Window) % Wrap

NewDeadline ==
    LET d == (Millis + Window) % Wrap
    IN  IF d = 0 THEN 1 ELSE d

------------------------------------------------------------------------------
(* housekeepTick, as far as the buttons go.                                *)
PressUp ==
    /\ Runs("housekeep") /\ presses < MaxPresses
    /\ deadline' = NewDeadline
    /\ presses' = presses + 1 /\ pressedAt' = uptime /\ shut' = FALSE
    /\ UNCHANGED <<uptime, revokeAll, store, net, turn, added, issued, condemned,
                   leaving, gone, late, cuts>>

HoldDown ==
    /\ Runs("housekeep") /\ revokeAll' = TRUE
    /\ condemned' = condemned \cup Elements(clients)
    /\ UNCHANGED <<uptime, deadline, store, net, turn, presses, pressedAt, shut, added,
                   issued, leaving, gone, late, cuts>>

HouseEndTick ==
    /\ ~Preemptive /\ turn = "housekeep" /\ EndOfTick
    /\ UNCHANGED <<uptime, deadline, revokeAll, store, net, history, cuts>>

House == PressUp \/ HoldDown \/ HouseEndTick

------------------------------------------------------------------------------
(* netTick: the flag first, then the one request.                          *)
TickSkipsFlag == "accept"

TickStart == "idle"

NetExchange ==
    /\ Runs("net") /\ nPc = "idle"
    /\ nPc' = IF revokeAll THEN "clear" ELSE "accept"
    /\ revokeAll' = FALSE
    /\ late' = 0
    /\ UNCHANGED <<uptime, deadline, store, then, id, turn, presses, pressedAt, shut, added,
                   issued, condemned, leaving, gone, cuts>>

(* CredentialStore::save, from the call to what follows it.                *)
StartSave(next) == nPc' = "save" /\ then' = next

(* CredentialStore::clear; a store that is empty is not written.  A client *)
(* paired since DOWN was held goes with the others.                        *)
AllButOne == IF clients = <<>> THEN <<>> ELSE <<Head(clients)>>

Cleared == <<>>

NetClear ==
    /\ Runs("net") /\ nPc = "clear"
    /\ clients' = Cleared /\ leaving' = leaving \cup Elements(clients)
    /\ IF clients = <<>> THEN nPc' = "accept" /\ UNCHANGED then ELSE StartSave("accept")
    /\ UNCHANGED <<uptime, deadline, revokeAll, stored, id, turn, presses, pressedAt, shut,
                   added, issued, condemned, gone, late, cuts>>

(* The SAMD51 erases the block before it writes it.                        *)
SaveErase ==
    /\ Runs("net") /\ nPc = "save" /\ ~AtomicBlob
    /\ stored' = <<>> /\ nPc' = "write"
    /\ UNCHANGED <<uptime, deadline, revokeAll, clients, then, id, turn, history, cuts>>

(* What blob_store::save returns is not looked at.                         *)
SaveWrite ==
    /\ Runs("net") /\ nPc = (IF AtomicBlob THEN "save" ELSE "write")
    /\ nPc' = then
    /\ stored' = clients \/ (WriteMayFail /\ UNCHANGED stored)
    /\ UNCHANGED <<uptime, deadline, revokeAll, clients, then, id, turn, history, cuts>>

(* CredentialStore::full.                                                  *)
HasRoom == Len(clients) < MaxClients

(* handlePair up to CredentialStore::add: 401, 409 or 500, or a new id.    *)
PairRequest ==
    /\ Runs("net") /\ nPc = "accept"
    /\ IF IsOpen /\ HasRoom
       THEN \E new \in Ids \ added : nPc' = "add" /\ id' = new /\ UNCHANGED turn
       ELSE nPc' = TickStart /\ EndOfTick /\ UNCHANGED id
    /\ UNCHANGED <<uptime, deadline, revokeAll, store, then, history, cuts>>

NetAdd ==
    /\ Runs("net") /\ nPc = "add"
    /\ clients' = Append(clients, id) /\ added' = added \cup {id}
    /\ StartSave("close")
    /\ UNCHANGED <<uptime, deadline, revokeAll, stored, id, turn, presses, pressedAt, shut,
                   issued, condemned, leaving, gone, late, cuts>>

(* "One successful pairing closes the window", and the 200 with the secret.*)
WindowKept == deadline

WindowClosed == 0

NetClose ==
    /\ Runs("net") /\ nPc = "close"
    /\ deadline' = WindowClosed
    /\ issued' = issued \cup {id} /\ shut' = TRUE
    /\ nPc' = TickStart /\ id' = Nobody /\ EndOfTick
    /\ UNCHANGED <<uptime, revokeAll, store, then, presses, pressedAt, added, condemned,
                   leaving, gone, late, cuts>>

(* DELETE /api/clients/c: handleRevokeClient and CredentialStore::remove,  *)
(* which moves the later clients up ...                                    *)
LastDropped(c) == [j \in 1..(Len(clients) - 1) |-> clients[j]]

Without(c) ==
    LET i == CHOOSE i \in DOMAIN clients : clients[i] = c
    IN  [j \in 1..(Len(clients) - 1) |-> clients[IF j < i THEN j ELSE j + 1]]

RevokeRequest(c) ==
    /\ Runs("net") /\ nPc = "accept" /\ c \in Elements(clients)
    /\ clients' = Without(c) /\ id' = c
    /\ leaving' = leaving \cup {c}
    /\ late' = IF revokeAll THEN late + 1 ELSE late
    /\ StartSave("tell")
    /\ UNCHANGED <<uptime, deadline, revokeAll, stored, turn, presses, pressedAt, shut, added,
                   issued, condemned, gone, cuts>>

(* ... and its reply, that c is revoked.                                   *)
NetTell ==
    /\ Runs("net") /\ nPc = "tell"
    /\ gone' = gone \cup {id}
    /\ nPc' = TickStart /\ id' = Nobody /\ EndOfTick
    /\ UNCHANGED <<uptime, deadline, revokeAll, store, then, presses, pressedAt, shut, added,
                   issued, condemned, leaving, late, cuts>>

(* Any other signed request of a paired client.                            *)
Serve ==
    /\ Runs("net") /\ nPc = "accept" /\ clients # <<>>
    /\ late' = IF revokeAll THEN late + 1 ELSE late
    /\ nPc' = TickStart /\ EndOfTick
    /\ UNCHANGED <<uptime, deadline, revokeAll, store, then, id, presses, pressedAt, shut,
                   added, issued, condemned, leaving, gone, cuts>>

NetNobody ==
    /\ Runs("net") /\ nPc = "accept"
    /\ nPc' = TickStart /\ EndOfTick
    /\ UNCHANGED <<uptime, deadline, revokeAll, store, then, id, history, cuts>>

NetGoesOn ==
    \/ NetExchange
    \/ NetClear
    \/ SaveErase
    \/ SaveWrite
    \/ NetAdd
    \/ NetClose
    \/ NetTell
    \/ NetNobody

Net ==
    \/ NetGoesOn
    \/ PairRequest
    \/ \E c \in Ids : RevokeRequest(c)
    \/ Serve

------------------------------------------------------------------------------
Tick ==
    /\ uptime < MaxUptime /\ uptime - pressedAt < MaxIdle
    /\ uptime' = uptime + 1
    /\ UNCHANGED <<deadline, revokeAll, store, net, turn, history, cuts>>

(* CredentialStore::load at the next boot; what housekeeping had asked for *)
(* is forgotten.                                                           *)
PowerCut ==
    /\ cuts > 0 /\ cuts' = cuts - 1
    /\ uptime' = 0 /\ deadline' = 0 /\ revokeAll' = FALSE
    /\ clients' = stored
    /\ nPc' = "idle" /\ then' = "accept" /\ id' = Nobody
    /\ turn' = "housekeep"
    /\ pressedAt' = 0 /\ shut' = TRUE /\ condemned' = {} /\ late' = 0
    /\ UNCHANGED <<stored, presses, added, issued, leaving, gone>>

Next == House \/ Net \/ Tick \/ PowerCut

Spec == Init /\ [][Next]_vars

(* Both ticks are always called again; nobody has to do anything.          *)
FairSpec == Spec /\ WF_vars(NetGoesOn) /\ WF_vars(HouseEndTick)
------------------------------------------------------------------------------
TypeOK ==
    /\ uptime \in Nat /\ deadline \in 0..(Wrap - 1)
    /\ revokeAll \in BOOLEAN /\ shut \in BOOLEAN
    /\ clients \in Seq(Ids) /\ Len(clients) <= MaxClients
    /\ stored \in Seq(Ids) /\ Len(stored) <= MaxClients
    /\ nPc \in {"idle", "clear", "save", "write", "accept", "add", "close", "tell"}
    /\ then \in {"accept", "close", "tell"}
    /\ id \in Ids \cup {Nobody}
    /\ nPc \in {"add", "close", "tell"} => id \in Ids
    /\ turn \in {"housekeep", "net"}
    /\ presses \in Nat /\ pressedAt \in Nat /\ late \in Nat
    /\ added \subseteq Ids /\ issued \subseteq Ids /\ condemned \subseteq Ids
    /\ leaving \subseteq Ids /\ gone \subseteq Ids
    /\ cuts \in 0..MaxCuts

Saving(next) == nPc \in {"save", "write"} /\ then = next

PairingIsSaved == nPc = "close" \/ Saving("close")

(* A press of UP pairs at most one client (docs/security.md: the window is *)
(* "consumed by the first successful pair"), even when it falls into the   *)
(* middle of a pairing or the power fails in one.                          *)
OnePairPerPress ==
    Cardinality(added) + (IF deadline # 0 /\ ~PairingIsSaved THEN 1 ELSE 0) <= presses

(* The window is open only within 60 seconds of a press, and one more      *)
(* millisecond where the deadline was put off, across the rollover of      *)
(* millis() too (PairingWindow::isOpen).                                   *)
OpenOnlyInWindow == IsOpen => uptime - pressedAt <= Window

(* A window that no pairing has closed is open for all of its 60 seconds,  *)
(* whenever UP was pressed (PairingWindow::open).                          *)
OpenThroughout ==
    ~shut /\ uptime - pressedAt < Window => IsOpen

(* The window is open when it should be and at no other time               *)
(* (PairingWindow::isOpen), as long as UP is pressed again within half of  *)
(* the word, which MaxIdle sees to.  A window that expired and was left    *)
(* alone for longer reads as open again, against "The window closes on the *)
(* first successful pair, or after 60 seconds" (docs/security.md).         *)
OpenExactly == OpenOnlyInWindow /\ OpenThroughout

(* Holding DOWN is never lost: until every client there was then is gone   *)
(* from memory and from flash, the request is pending or being carried out *)
(* (main.cpp: "doing the work here keeps every write to the credential     *)
(* store on one task").                                                    *)
HoldIsNotLost ==
    condemned \cap (Elements(clients) \cup Elements(stored)) # {} =>
        revokeAll \/ nPc = "clear" \/ Saving("accept")

(* After DOWN was held, the net task serves at most the request it had     *)
(* already come to when it looks at the flag (netTick).                    *)
OneMoreAtMost == late <= 1

(* Holding DOWN takes effect, and before a second request is served        *)
(* (netTick).                                                              *)
HoldTakesEffect == HoldIsNotLost /\ OneMoreAtMost

(* "Credentials survive a reboot" (docs/security.md), at any moment: who   *)
(* was given a secret and not revoked is in flash.                         *)
PairingsSurvive == issued \ leaving \subseteq Elements(stored)

(* A client a reply calls revoked does not come back with a reboot: the    *)
(* mutators of CredentialStore "all three persist immediately".            *)
RevokedStayGone == gone \cap Elements(stored) = {}

(* A boot finds whom it should and nobody else (CredentialStore::load).    *)
FlashIsTrue == PairingsSurvive /\ RevokedStayGone

(* Holding DOWN works in the end.                                          *)
HoldWorks == \A c \in Ids : c \in condemned ~> c \notin Elements(clients)
==============================================================================
