--------------------------- MODULE Authenticator ---------------------------
(***************************************************************************)
(* Which signed requests the net task serves.                              *)
(*                                                                         *)
(* Authenticator (src/src/api/authenticator.cpp) keeps a ring of recent    *)
(* nonces and, per paired client, the newest timestamp served.  Both must  *)
(* agree with the CredentialStore, which pairing, DELETE and the factory   *)
(* reset change.  All of it runs on the net task, one request at a time,   *)
(* so an action is a whole request.                                        *)
(*                                                                         *)
(* The network may deliver a signed request late, out of order, or more    *)
(* than once.  Abstracted: a signature is membership in `sent`, what       *)
(* clients have signed; marks_ is a function on the clients that have one, *)
(* since which of its slots a client takes is never told.                  *)
(***************************************************************************)
EXTENDS Integers, Sequences, FiniteSets

CONSTANTS
    Clients,      \* the ids the TRNG may draw, each at most once
    MaxClients,   \* CredentialStore::kMaxClients
    Nonces,       \* what a client draws a fresh nonce from
    CacheSize,    \* kNonceCacheSize
    MaxSkew,      \* kMaxSkewSeconds
    Times,        \* instants, for the board's clock and the clients'
    Nobody,       \* no client
    MaxSent,      \* bound: requests ever signed
    MaxServed     \* bound: requests ever served

ASSUME ConstantsAssumption ==
    /\ MaxClients \in Nat /\ CacheSize \in Nat \ {0} /\ MaxSkew \in Nat
    /\ Times \subseteq Nat /\ Times # {}
    /\ Nobody \notin Clients
    /\ MaxSent \in Nat /\ MaxServed \in Nat

VARIABLES
    paired,       \* credentials: the paired clients
    nonces, nonceNext,   \* the ring of nonces, and where it goes on
    marks,        \* per client, the newest timestamp served
    clock, valid, \* TimeSource: the time, and whether it is known
    known,        \* every client ever paired
    sent,         \* every request ever signed
    served        \* the requests served since boot, in order

vars == <<paired, nonces, nonceNext, marks, clock, valid, known, sent, served>>

Request == [client : Clients, nonce : Nonces, ts : Times]
Slots   == 0..(CacheSize - 1)
Unused  == [client |-> Nobody]
Entry(r) == [client |-> r.client, nonce |-> r.nonce]

NoNonces == [s \in Slots |-> Unused]
NoMarks  == [c \in {} |-> 0]

(* A board that has never been paired.                                     *)
Init ==
    /\ paired = {} /\ known = {}
    /\ nonces = NoNonces /\ nonceNext = 0 /\ marks = NoMarks
    /\ clock \in Times /\ valid = FALSE
    /\ sent = {} /\ served = <<>>

------------------------------------------------------------------------------
(* nonceSeen: a nonce is remembered with the client that used it.          *)
SeenFromAnyone(r) == \E s \in Slots : nonces[s] # Unused /\ nonces[s].nonce = r.nonce

NonceSeen(r) == \E s \in Slots : nonces[s] = Entry(r)

(* highWaterMark: the client's mark, or a free one, or nullptr.            *)
HasMark(c)    == c \in DOMAIN marks
MarkSlot(c)   == HasMark(c) \/ Cardinality(DOMAIN marks) < MaxClients

WithinSkew(ts) == clock - ts <= MaxSkew /\ ts - clock <= MaxSkew

(* authenticate, up to the first thing it changes.  A refusal, whichever   *)
(* check it came from, leaves everything as it was.                        *)
Accepted(r) ==
    /\ valid
    /\ r.client \in paired
    /\ WithinSkew(r.ts)
    /\ r \in sent
    /\ ~(HasMark(r.client) /\ r.ts < marks[r.client])
    /\ ~NonceSeen(r)

(* rememberNonce, over the oldest entry.                                   *)
Remembered(r) == [nonces EXCEPT ![nonceNext] = Entry(r)]

OneSlotOnly == nonceNext

NextSlot == (nonceNext + 1) % CacheSize

(* The rest of authenticate.  Without a slot, the mark is not kept.        *)
Marked(r) ==
    IF MarkSlot(r.client)
    THEN [c \in DOMAIN marks \cup {r.client} |->
             IF c # r.client THEN marks[c]
             ELSE IF HasMark(c) /\ r.ts <= marks[c] THEN marks[c]
             ELSE r.ts]
    ELSE marks

(* forget: a revoked client leaves no replay state behind.                 *)
ForgetNonces(ring, c) == [s \in Slots |-> IF ring[s].client = c THEN Unused ELSE ring[s]]

ForgetMark(m, c) == [d \in DOMAIN m \ {c} |-> m[d]]

------------------------------------------------------------------------------
(* handlePair: an id that is not in use, if there is room for it.          *)
Pair(c) ==
    /\ c \notin known /\ Cardinality(paired) < MaxClients
    /\ paired' = paired \cup {c} /\ known' = known \cup {c}
    /\ UNCHANGED <<nonces, nonceNext, marks, clock, valid, sent, served>>

(* A paired client signs a request: its own clock, a nonce new to it.      *)
Sign(r) ==
    /\ r.client \in paired
    /\ Cardinality(sent) < MaxSent
    /\ \A q \in sent : Entry(q) # Entry(r)
    /\ sent' = sent \cup {r}
    /\ UNCHANGED <<paired, nonces, nonceNext, marks, clock, valid, known, served>>

(* handleRequest with a valid request that revokes nobody ...              *)
Serve(r) ==
    /\ Accepted(r) /\ Len(served) < MaxServed
    /\ nonces' = Remembered(r) /\ nonceNext' = NextSlot /\ marks' = Marked(r)
    /\ served' = Append(served, r)
    /\ UNCHANGED <<paired, clock, valid, known, sent>>

(* ... and with DELETE /api/clients/c, by handleRevokeClient.  A client    *)
(* may revoke itself.                                                      *)
Revoke(r, c) ==
    /\ Accepted(r) /\ Len(served) < MaxServed
    /\ c \in paired /\ paired' = paired \ {c}
    /\ nonces' = ForgetNonces(Remembered(r), c)
    /\ nonceNext' = NextSlot
    /\ marks' = ForgetMark(Marked(r), c)
    /\ served' = Append(served, r)
    /\ UNCHANGED <<clock, valid, known, sent>>

(* netTick after the DOWN button was held: clear, then forgetAll.          *)
RevokeAll ==
    /\ paired # {} /\ paired' = {}
    /\ nonces' = NoNonces /\ nonceNext' = 0 /\ marks' = NoMarks
    /\ UNCHANGED <<clock, valid, known, sent, served>>

(* TimeSource: the first sync makes the time known, later ones and the     *)
(* passing of time move it; SNTP may move it either way.                   *)
SetClock(t) ==
    /\ clock' = t /\ valid' = TRUE
    /\ UNCHANGED <<paired, nonces, nonceNext, marks, known, sent, served>>

(* A power cut: credentials survive, replay state does not.                *)
Reboot ==
    /\ valid' = FALSE
    /\ nonces' = NoNonces /\ nonceNext' = 0 /\ marks' = NoMarks
    /\ served' = <<>>
    /\ UNCHANGED <<paired, clock, known, sent>>

Next ==
    \/ \E c \in Clients : Pair(c)
    \/ \E r \in Request : Sign(r)
    \/ \E r \in sent : Serve(r)
    \/ \E r \in sent, c \in Clients : Revoke(r, c)
    \/ RevokeAll
    \/ \E t \in Times : SetClock(t)
    \/ Reboot

Spec == Init /\ [][Next]_vars
------------------------------------------------------------------------------
TypeOK ==
    /\ paired \subseteq known /\ known \subseteq Clients
    /\ nonces \in [Slots -> {Unused} \cup [client : Clients, nonce : Nonces]]
    /\ nonceNext \in Slots
    /\ DOMAIN marks \subseteq Clients /\ marks \in [DOMAIN marks -> Times]
    /\ clock \in Times /\ valid \in BOOLEAN
    /\ sent \subseteq Request
    /\ served \in Seq(sent)

(* Replay state is kept for paired clients only, so a client can always    *)
(* get a mark: highWaterMark never returns nullptr while authenticating    *)
(* (marks_ and CredentialStore have the same size).                        *)
EveryClientHasAMark ==
    /\ DOMAIN marks \subseteq paired
    /\ \A s \in Slots : nonces[s] # Unused => nonces[s].client \in paired
    /\ \A c \in paired : MarkSlot(c)

(* "the timestamp is not older than the last request served for that       *)
(* client" (docs/security.md), through pairing, revoking and resetting.    *)
ServedInOrder ==
    \A i, j \in DOMAIN served :
        i < j /\ served[i].client = served[j].client => served[i].ts <= served[j].ts

(* A request is served twice only after a full cache of others was served  *)
(* in between ("older entries are simply overwritten", authenticator.h),   *)
(* and none of its own client's among them was newer.                      *)
ServedTwiceNeedsRollover ==
    \A i, j \in DOMAIN served :
        i < j /\ served[i] = served[j] =>
            /\ j - i > CacheSize
            /\ \A k \in i..j : served[k].client = served[i].client
                                   => served[k].ts = served[i].ts

(* No request is served out of its order or once more than its signer sent *)
(* it, but for the one case of a full turn of the nonce cache              *)
(* (Authenticator::authenticate).                                          *)
ServedAsSent == ServedInOrder /\ ServedTwiceNeedsRollover

(* The replay check refuses no request it should not: one never served,    *)
(* as new as anything its client had served, whatever others have sent     *)
(* ("cannot advance a client's high-water mark and lock the real client    *)
(* out", authenticator.cpp).                                               *)
FreshIsAccepted ==
    \A r \in sent :
        /\ valid /\ r.client \in paired /\ WithinSkew(r.ts)
        /\ \A i \in DOMAIN served :
              served[i] # r /\ (served[i].client = r.client => served[i].ts <= r.ts)
        => Accepted(r)

(* Nothing others do keeps a client out, by a full table of marks or by a  *)
(* mark that is not its own (Authenticator).                               *)
NobodyIsLockedOut == EveryClientHasAMark /\ FreshIsAccepted
==============================================================================
