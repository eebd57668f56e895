--------------------------------- MODULE Wire ---------------------------------
(***************************************************************************)
(* One connection to the board from accept() to its close: the request is  *)
(* read (readHttpRequest, net/stream_read.cpp), answered (serveClient,     *)
(* handleRequest) and, if it was an upgrade, its frames are read by the    *)
(* hub (WsHub::poll, drainFrames).                                         *)
(*                                                                         *)
(* The peer has a script, the cells it will send and what it means by      *)
(* them, and a talk, the frames it has sent since its 101.  Its bytes      *)
(* arrive when they like, or never; it may close at any moment.  Time      *)
(* passes in the steps of the net task: a read that finds nothing takes a  *)
(* tick (delay(1) in the code), one that finds a byte at most one.         *)
(*                                                                         *)
(* What a handler does to the rest of the board is the matter of           *)
(* CommandPipeline, Pairing and WsConnections; here it is what it answers. *)
(***************************************************************************)
EXTENDS HttpRequest, WsFrame, NetLink

CONSTANTS
    Scripts,       \* what peers may send: [lines, body, signs]
    Frames,        \* the frames they may send once upgraded
    MaxFrames,     \* bound: frames on one connection
    LineCap,       \* kLineCap
    MaxHeaders,    \* kMaxHeaders
    ReadTimeout,   \* kReadTimeoutMs, in ticks
    DrainTimeout,  \* kDrainTimeoutMs
    InboundCap     \* WsHub::kInboundCap

(* A script is lines without what ends them, a body, and the method,       *)
(* target and body that the signature in its header was made for.          *)
IsLine(l) == l \in Seq(Cell) /\ l # <<>> /\ ~Contains(l, "LF") /\ l[Len(l)] # "CR"

IsScript(s) ==
    /\ s.lines \in Seq(Seq(Cell)) /\ (\A i \in DOMAIN s.lines : IsLine(s.lines[i]))
    /\ s.body \in Seq(Cell)
    /\ s.signs \in Seq(Cell) \X Seq(Cell) \X Seq(Cell)

ASSUME ConstantsAssumption ==
    /\ LineCap \in Nat /\ LineCap >= 4 /\ MaxHeaders \in Nat \ {0} /\ MaxFrames \in Nat
    /\ ReadTimeout \in Nat \ {0} /\ DrainTimeout \in Nat
    /\ InboundCap \in Nat /\ InboundCap >= 14 /\ BodyCap \in Nat
    /\ InboundCap <= FarTooLong /\ Apps \in Nat
    /\ \A s \in Scripts : IsScript(s)
    /\ \A f \in Frames : IsFrame(f) /\ (WholeFrame(f) \/ Announced(f.size) >= InboundCap)

VARIABLES
    pc,
    script, talk,  \* history: what this peer sends
    unread,        \* what of the script the socket has not given out yet
    gone,          \* the peer has closed
    line, over,    \* readLine: out, overflowed
    waited, stay,  \* ticks in this read, and since accept()
    count, cut,    \* headerCount, authorizationTruncated
    request,       \* HttpRequest
    found,         \* what findRoute came up with
    clock,         \* TimeSource::isValid
    ran,           \* the route whose handler ran, 0 if none, and its wildcard
    reply,         \* what was sent: the status, 0 before that, and the accept key
    inbox,         \* bytes of the talk the socket has not given out yet
    buf,           \* Connection::buf, as far as it is filled
    did,           \* history: what was done for every frame, in order
    closed,        \* the board's close frame
    written        \* the highest place of buf a terminator was written to

http == <<line, over, waited, stay, count, cut, request, found>>
hub  == <<inbox, buf, did, closed, written>>
env  == <<clock, link>>
vars == <<pc, script, talk, unread, gone, http, env, ran, reply, hub>>

NoReply == [code |-> 0, accept |-> <<>>]

NotRun == [route |-> 0, wildcard |-> <<>>]

(* The cells of a script: every line with its CR LF, the empty line, and   *)
(* the body; and the bytes of the frames of a talk.                        *)
LineOf(s, k) == IF k <= Len(s.lines) THEN s.lines[k] ELSE <<>>

JoinedTo(parts, n) ==
    LET First[i \in 0..n] == IF i = 0 THEN <<>> ELSE First[i - 1] \o parts[i]
    IN  First[n]

Joined(parts) == JoinedTo(parts, Len(parts))

Ended(s) == [k \in 1..(Len(s.lines) + 1) |-> LineOf(s, k) \o <<"CR", "LF">>]

Cells(s) == Joined(Ended(s)) \o s.body

SentTo(frames, n) == JoinedTo([i \in DOMAIN frames |-> Bytes(frames[i])], n)

Sent(frames) == SentTo(frames, Len(frames))

Idle ==
    /\ pc = "idle" /\ script = (CHOOSE s \in Scripts : TRUE) /\ talk = <<>>
    /\ unread = <<>> /\ gone = FALSE
    /\ line = <<>> /\ over = FALSE /\ waited = 0 /\ stay = 0 /\ count = 0 /\ cut = FALSE
    /\ request = NoRequest /\ found = NotRun /\ ran = NotRun /\ reply = NoReply
    /\ inbox = <<>> /\ buf = <<>> /\ did = <<>> /\ closed = <<>> /\ written = 0

(* Nothing of a request is kept.                                           *)
Forgotten ==
    /\ line' = <<>> /\ over' = FALSE /\ waited' = 0 /\ stay' = 0 /\ count' = 0 /\ cut' = FALSE
    /\ request' = NoRequest /\ found' = NotRun

Init == Idle /\ clock \in BOOLEAN /\ LinkInit

------------------------------------------------------------------------------
(* maintain() has come first in netTick; then accept(), and the first      *)
(* readLine.                                                               *)
Accept(s) ==
    /\ pc = "idle" /\ pc' = "line" /\ up = wasUp /\ acceptClient
    /\ script' = s /\ unread' = Cells(s)
    /\ UNCHANGED <<talk, gone, http, clock, ran, reply, hub>>

(* The rest of netTick: what it does between two connections.              *)
Between ==
    /\ pc = "idle" /\ (maintain \/ AcceptFails)
    /\ UNCHANGED <<pc, script, talk, unread, gone, http, clock, ran, reply, hub>>

Relisten ==
    /\ pc = "idle" /\ Recycle
    /\ UNCHANGED <<pc, script, talk, unread, gone, http, clock, ran, reply, hub>>

(* The switch of serveClient, and the end of the request.                  *)
Status == [timeout |-> 408, malformed |-> 400, target_too_long |-> 414,
           header_too_long |-> 431, body_too_large |-> 413]

Answer(code) == reply' = [NoReply EXCEPT !.code = code] /\ pc' = "done"

Fail(status) ==
    /\ Answer(Status[status])
    /\ UNCHANGED <<script, talk, unread, gone, env, ran, hub>>

Reading == pc \in {"line", "headers"}

(* read() with a byte there: it may have kept the loop waiting, and by how *)
(* much is up to the peer.                                                 *)
(* More than the timeout, or more than the bound below, is not told apart. *)
LongestStay == (MaxHeaders + 1) * ReadTimeout + ReadTimeout + BodyCap + DrainTimeout

UpTo(n, bound) == IF n < bound THEN n ELSE bound

Stays(t) == stay' = UpTo(stay + t, LongestStay + 1)

Takes(t) == waited' = UpTo(waited + t, ReadTimeout) /\ Stays(t)

(* A tick in which nothing came.  Whoever waited for longer than the       *)
(* timeout would count again from the start, and not stand still.          *)
Waits == waited' = (waited + 1) % (ReadTimeout + 1) /\ Stays(1)

TakesFromTheLastByte(t) == waited' = t /\ Stays(t)

TakesForLine(t) == Takes(t)

(* The deadline of readLine is looked at before every byte.                *)
InTime == waited < ReadTimeout

(* Trailing CRs go with the LF.                                            *)
Stripped ==
    LET n == CHOOSE n \in 0..Len(line) : /\ \A i \in (n + 1)..Len(line) : line[i] = "CR"
                                         /\ n > 0 => line[n] # "CR"
    IN  SubSeq(line, 1, n)

ReadChar(t) ==
    /\ Reading /\ InTime /\ unread # <<>> /\ Head(unread) # "LF"
    /\ unread' = Tail(unread) /\ TakesForLine(t)
    /\ IF Len(line) + 1 < LineCap THEN line' = Append(line, Head(unread)) /\ UNCHANGED over
                                  ELSE over' = TRUE /\ UNCHANGED line
    /\ UNCHANGED <<pc, script, talk, gone, count, cut, request, found, env, ran, reply, hub>>

(* The next readLine of the loop, if kMaxHeaders allows one more.          *)
NextLine ==
    /\ line' = <<>> /\ over' = FALSE /\ count' = count + 1

LineRead(t) == Reading /\ InTime /\ unread # <<>> /\ Head(unread) = "LF"
                       /\ unread' = Tail(unread) /\ Stays(t) /\ waited' = 0

RequestLineRead(t) ==
    /\ pc = "line" /\ LineRead(t) /\ NextLine
    /\ LET read == IF over THEN [status |-> "target_too_long", request |-> NoRequest]
                           ELSE RequestLine(Stripped)
       IN  /\ request' = read.request
           /\ IF read.status = "ok" THEN pc' = "headers" /\ UNCHANGED reply
                                    ELSE Answer(Status[read.status])
    /\ UNCHANGED <<script, talk, gone, cut, found, env, ran, hub>>

HeaderRead(t) ==
    /\ pc = "headers" /\ LineRead(t) /\ (over \/ Stripped # <<>>) /\ NextLine
    /\ cut' = (cut \/ CutShort(request, Stripped, over))
    /\ LET read == Header(request, Stripped, over)
       IN  /\ request' = read.request
           /\ IF read.status # "ok" THEN Answer(Status[read.status])
              ELSE IF count + 1 > MaxHeaders THEN Answer(Status["header_too_long"])
              ELSE UNCHANGED <<pc, reply>>
    /\ UNCHANGED <<script, talk, gone, found, env, ran, hub>>

(* The empty line, and what it lets pass.                                  *)
HeadersEnd(t) ==
    /\ pc = "headers" /\ LineRead(t) /\ ~over /\ Stripped = <<>> /\ NextLine
    /\ LET status == HeadersTaken(request, cut)
       IN  IF status = "ok" THEN pc' = "body" /\ UNCHANGED reply ELSE Answer(Status[status])
    /\ UNCHANGED <<script, talk, gone, cut, request, found, env, ran, hub>>

(* read() with nothing there: waitForMore gives up on a peer that closed,  *)
(* else it takes a tick.                                                   *)
LineWaits ==
    /\ Reading /\ InTime /\ ~gone /\ Waits
    /\ UNCHANGED <<pc, script, talk, unread, gone, line, over, count, cut, request, found, env,
                   ran, reply, hub>>

LineGivesUp ==
    /\ Reading /\ (~InTime \/ (gone /\ unread = <<>>))
    /\ Fail("timeout") /\ UNCHANGED http

------------------------------------------------------------------------------
(* readExactly looks at its deadline only when nothing is there.           *)
WantedIfThere == Len(request.body) < request.length /\ ~(gone /\ unread = <<>>)

Wanted == Len(request.body) < request.length

BodyChar(t) ==
    /\ pc = "body" /\ Wanted /\ unread # <<>>
    /\ request' = [request EXCEPT !.body = Append(@, Head(unread))]
    /\ unread' = Tail(unread) /\ Takes(t)
    /\ UNCHANGED <<pc, script, talk, gone, line, over, count, cut, found, env, ran, reply, hub>>

GivesUpOnlyWhenGone == gone /\ unread = <<>>

GivesUp == waited >= ReadTimeout \/ (gone /\ unread = <<>>)

BodyWaits ==
    /\ pc = "body" /\ Wanted /\ ~GivesUp /\ ~gone /\ Waits
    /\ UNCHANGED <<pc, script, talk, unread, gone, line, over, count, cut, request, found, env,
                   ran, reply, hub>>

BodyGivesUp ==
    /\ pc = "body" /\ Wanted /\ GivesUp
    /\ Fail("timeout") /\ UNCHANGED http

(* drainBuffered: what has come by now, or as much as its time allows.     *)
Drain(n, t) ==
    /\ pc = "body" /\ ~Wanted /\ n <= Len(unread)
    /\ unread' = SubSeq(unread, n + 1, Len(unread)) /\ Stays(t) /\ pc' = "route"
    /\ UNCHANGED <<script, talk, gone, line, over, waited, count, cut, request, found, env,
                   ran, reply, hub>>
------------------------------------------------------------------------------
(* kRoutes; auth is requiresAuth.                                          *)
Route(method, pattern, auth, handler) ==
    [method |-> <<method>>, pattern |-> pattern, auth |-> auth, handler |-> handler]

Settings == <<"/", "api", "/", "apps", "/", "*", "/", "settings">>

kRoutes ==
    <<Route("GET",    <<"/">>,                                FALSE, "root"),
      Route("POST",   <<"/", "pair">>,                        FALSE, "pair"),
      Route("GET",    <<"/", "api", "/", "status">>,          TRUE,  "status"),
      Route("POST",   <<"/", "api", "/", "ws-ticket">>,       TRUE,  "ticket"),
      Route("GET",    <<"/", "api", "/", "ws">>,              FALSE, "upgrade"),
      Route("POST",   <<"/", "api", "/", "led">>,             TRUE,  "led"),
      Route("GET",    <<"/", "api", "/", "clients">>,         TRUE,  "list"),
      Route("GET",    <<"/", "api", "/", "apps">>,            TRUE,  "list"),
      Route("GET",    <<"/", "api", "/", "app">>,             TRUE,  "list"),
      Route("POST",   <<"/", "api", "/", "app">>,             TRUE,  "switch"),
      Route("GET",    Settings,                               TRUE,  "settings"),
      Route("POST",   Settings,                               TRUE,  "set"),
      Route("GET",    <<"/", "api", "/", "metrics">>,         TRUE,  "metrics"),
      Route("DELETE", <<"/", "api", "/", "clients", "/", "*">>, TRUE, "revoke")>>

ASSUME CellAssumption ==
    /\ {"CR", "LF", "SP"} \subseteq Cell
    /\ \A i \in DOMAIN kRoutes : kRoutes[i].pattern \in Seq(Cell)

(* handleRoot, handleStatus, the lists and the metrics say what there is,  *)
(* and change nothing.                                                     *)
Discovered == {200}
Listed     == {200}
Measured   == {200}

(* Whatever names an app is refused if there is no such app ...            *)
AppSettings(wildcard, codes) == IF resolveAppIndex(wildcard) = NoAppIndex THEN {404} ELSE codes

(* ... and what has a body, if there is none that makes sense.             *)
SetCodes(body) == IF body = <<>> THEN {400} ELSE {200, 400, 503}

(* An id is one word of hex digits, a client paired or not.                *)
Revoked(wildcard) == IF Len(wildcard) = 1 THEN {200, 400, 404} ELSE {400}

Answers(name, wildcard) ==
    CASE name = "root"                -> Discovered
      [] name = "pair"                -> {200, 401, 409, 500}
      [] name \in {"status", "list"}  -> Listed
      [] name = "ticket"              -> {200, 500, 501}
      [] name \in {"led", "switch"}   -> SetCodes(request.body)
      [] name = "settings"            -> AppSettings(wildcard, {200})
      [] name = "set"                 -> AppSettings(wildcard, SetCodes(request.body))
      [] name = "metrics"             -> Measured
      [] name = "revoke"              -> Revoked(wildcard)
      [] OTHER                           -> {}

(* parseAuthHeader: the scheme, then the four parameters in any order,     *)
(* separated by commas or blanks, and nothing it does not know.            *)
Parameters == {"id", "ts", "nonce", "sig"}
Separators == {"SP", ","}

parseAuthHeader(value) ==
    /\ Len(value) >= 2 /\ value[1] = "HMAC" /\ value[2] = "SP"
    /\ ToSet(SubSeq(value, 2, Len(value))) \subseteq Separators \cup Parameters
    /\ \A i \in 2..(Len(value) - 1) : value[i] \in Separators \/ value[i + 1] \in Separators
    /\ Parameters \subseteq ToSet(value)

(* verifyRequestSignature: over the method, the target as it was sent and  *)
(* the body (buildCanonicalRequest).                                       *)
Signed(r) == <<r.method, r.target, r.body>>

(* authenticate, as far as this request alone decides: who signs is known  *)
(* and the clock is close (the rest is Authenticator).                     *)
Verdict ==
    IF ~parseAuthHeader(request.authorization) THEN 401
    ELSE IF ~clock THEN 503
    ELSE IF Signed(request) # script.signs THEN 401
    ELSE 200

(* handleRequest: first the route and its wildcard ...                     *)
FindRoute ==
    /\ pc = "route" /\ pc' = "handle"
    /\ LET r == findRoute(kRoutes, request.method, Path(request.target))
       IN  found' = [route    |-> r,
                     wildcard |-> IF r = 0 THEN <<>>
                                  ELSE matchPath(kRoutes[r].pattern,
                                                 Path(request.target)).wildcard]
    /\ UNCHANGED <<script, talk, unread, gone, line, over, waited, stay, count, cut, request,
                   env, ran, reply, hub>>

Known == found.route # 0

handler == kRoutes[found.route].handler

Public == Known /\ ~kRoutes[found.route].auth

UnderApiOnlyIfKnown == Known /\ IsPrefix(<<"/", "api", "/">>, Path(request.target))

UnderApi == IsPrefix(<<"/", "api", "/">>, Path(request.target))

Runs == ran' = found /\ \E code \in Answers(handler, found.wildcard) : Answer(code)

(* ... then who may have it.  Three routes are for everybody; all else     *)
(* under /api/ is refused to whoever has not signed, before it is seen     *)
(* whether there is such a route.  Elsewhere there may be a file.          *)
Handle ==
    /\ pc = "handle"
    /\ \/ Public /\ Runs
       \/ /\ ~Public /\ ~UnderApi /\ UNCHANGED ran
          /\ \/ Answer(404)
             \/ request.method = <<"GET">> /\ Answer(200)
       \/ ~Public /\ UnderApi /\ Verdict # 200 /\ Answer(Verdict) /\ UNCHANGED ran
       \/ ~Public /\ UnderApi /\ Verdict = 200 /\ ~Known /\ Answer(404) /\ UNCHANGED ran
       \/ ~Public /\ UnderApi /\ Verdict = 200 /\ Known /\ Runs
    /\ UNCHANGED <<script, talk, unread, gone, http, env, hub>>

(* handleWebSocketUpgrade: a board that has none; no ticket to speak of,   *)
(* or one that is not good; no key; no room; or the 101, after which the   *)
(* peer's frames come.                                                     *)
Upgrading == pc = "handle" /\ Public /\ handler = "upgrade" /\ ran' = found

TicketNamed == queryParam(request.target, "ticket") # <<>>

UpgradeRefused ==
    /\ Upgrading
    /\ \/ Answer(401)
       \/ Answer(501)
       \/ TicketNamed /\ request.key = <<>> /\ Answer(400)
       \/ TicketNamed /\ request.key # <<>> /\ Answer(503)
    /\ UNCHANGED <<script, talk, unread, gone, http, env, hub>>

Upgraded ==
    /\ Upgrading /\ TicketNamed /\ request.key # <<>>
    /\ reply' = [code |-> 101, accept |-> acceptKey(request.key)] /\ pc' = "open"
    /\ Forgotten
    /\ UNCHANGED <<script, talk, unread, gone, env, hub>>

(* finishRequest, or release; nothing of the connection is left.           *)
Finish ==
    /\ pc = "done" /\ pc' = "idle" /\ Closes /\ Forgotten
    /\ script' = (CHOOSE s \in Scripts : TRUE) /\ talk' = <<>> /\ unread' = <<>> /\ gone' = FALSE
    /\ ran' = NotRun /\ reply' = NoReply
    /\ inbox' = <<>> /\ buf' = <<>> /\ did' = <<>> /\ closed' = <<>> /\ written' = 0
    /\ UNCHANGED clock

------------------------------------------------------------------------------
(* WsHub::poll: what has arrived, as far as it fits; n bytes have.  A      *)
(* buffer that is full closes the connection.                              *)
Normal        == 1000
ProtocolError == 1002
TooBig        == 1009

FullOneTooLate(len) == len > InboundCap

Full(len) == len >= InboundCap

closeConnection(code) == closed' = encodeClose(code) /\ pc' = "done" /\ buf' = <<>>

Poll(n) ==
    /\ pc = "open" /\ n \in 0..Len(inbox) /\ Len(buf) + n <= InboundCap
    /\ n > 0 \/ buf # <<>>
    /\ inbox' = SubSeq(inbox, n + 1, Len(inbox))
    /\ IF Full(Len(buf) + n)
       THEN closeConnection(TooBig)
       ELSE buf' = buf \o SubSeq(inbox, 1, n) /\ pc' = "drain" /\ UNCHANGED closed
    /\ UNCHANGED <<script, talk, unread, gone, http, env, ran, reply, did, written>>

PollFindsGone ==
    /\ pc = "open" /\ gone /\ pc' = "done" /\ buf' = <<>>
    /\ UNCHANGED <<script, talk, unread, inbox, gone, http, env, ran, reply, did, closed,
                   written>>

(* One turn of the loop of drainFrames.  In the end the rest of the buffer *)
(* moves down.                                                             *)
header  == FrameHeader(buf)
total   == header.headerLen + header.payloadLen
payload == unmask(SubSeq(buf, header.headerLen + 1, total), header.maskKey)

FrameFits == header.payloadLen <= InboundCap - header.headerLen

Shift == buf' = SubSeq(buf, total + 1, Len(buf))

FrameWaits ==
    /\ pc = "drain"
    /\ \/ parseHeader(buf) = "incomplete"
       \/ parseHeader(buf) = "ok" /\ header.masked /\ FrameFits /\ Len(buf) < total
    /\ pc' = "open"
    /\ UNCHANGED <<script, talk, unread, gone, http, env, ran, reply, hub>>

FrameRefused ==
    /\ pc = "drain"
    /\ \/ parseHeader(buf) = "unsupported" /\ closeConnection(ProtocolError)
       \/ parseHeader(buf) = "ok" /\ ~header.masked /\ closeConnection(ProtocolError)
       \/ parseHeader(buf) = "ok" /\ header.masked /\ ~FrameFits /\ closeConnection(TooBig)
    /\ UNCHANGED <<script, talk, unread, gone, http, env, ran, reply, inbox, did, written>>

Whole == pc = "drain" /\ parseHeader(buf) = "ok" /\ header.masked /\ FrameFits
                      /\ Len(buf) >= total

Did(what) == did' = Append(did, <<what, payload>>)

(* The text is terminated in place: the byte after it is put back once the *)
(* handler has seen it.                                                    *)
FrameText ==
    /\ Whole /\ header.opcode = Text
    /\ Did("text") /\ written' = total + 1 /\ Shift
    /\ UNCHANGED <<pc, script, talk, unread, gone, http, env, ran, reply, inbox, closed>>

FramePing ==
    /\ Whole /\ header.opcode = Ping
    /\ did' = Append(did, <<"pong", encodePong(payload)>>) /\ Shift
    /\ UNCHANGED <<pc, script, talk, unread, gone, http, env, ran, reply, inbox, closed,
                   written>>

(* A pong, and an opcode the switch has no case for, means nothing here.   *)
FramePassed ==
    /\ Whole /\ header.opcode \notin {Continuation, Text, Binary, Close, Ping}
    /\ Did("nothing") /\ Shift
    /\ UNCHANGED <<pc, script, talk, unread, gone, http, env, ran, reply, inbox, closed,
                   written>>

FrameEnds ==
    /\ Whole
    /\ \/ header.opcode = Close /\ closeConnection(Normal)
       \/ header.opcode \in {Continuation, Binary} /\ closeConnection(ProtocolError)
    /\ UNCHANGED <<script, talk, unread, gone, http, env, ran, reply, inbox, did, written>>

(* broadcast, between two polls: a peer that will not take an event whole  *)
(* is let go.                                                              *)
BroadcastFails ==
    /\ pc = "open" /\ pc' = "done" /\ buf' = <<>>
    /\ UNCHANGED <<script, talk, unread, gone, http, env, ran, reply, inbox, did, closed,
                   written>>

------------------------------------------------------------------------------
PeerSends(f) ==
    /\ pc \in {"open", "drain"} /\ ~gone /\ Len(talk) < MaxFrames
    /\ talk' = Append(talk, f) /\ inbox' = inbox \o Bytes(f)
    /\ UNCHANGED <<pc, script, unread, gone, http, env, ran, reply, buf, did, closed, written>>

(* What it has sent is still there to read, or lost with it *)
PeerCloses ==
    /\ pc \notin {"idle", "done"} /\ ~gone /\ gone' = TRUE
    /\ \/ UNCHANGED <<unread, inbox>>
       \/ unread' = <<>> /\ inbox' = <<>>
    /\ UNCHANGED <<pc, script, talk, http, env, ran, reply, buf, did, closed, written>>

ClockComes ==
    /\ pc = "idle" /\ ~clock /\ clock' = TRUE
    /\ UNCHANGED <<pc, script, talk, unread, gone, http, link, ran, reply, hub>>

(* The link and lwIP have their moods; while a peer is served they show in *)
(* what it sends or no longer sends.                                       *)
Radio ==
    /\ pc = "idle" /\ (LinkChanges \/ Wedges)
    /\ UNCHANGED <<pc, script, talk, unread, gone, http, clock, ran, reply, hub>>

Reads ==
    \/ \E t \in 0..1 : \/ ReadChar(t)
                       \/ RequestLineRead(t)
                       \/ HeaderRead(t)
                       \/ HeadersEnd(t)
                       \/ BodyChar(t)
    \/ LineWaits
    \/ LineGivesUp
    \/ BodyWaits
    \/ BodyGivesUp
    \/ \E n \in 0..Len(unread), t \in 0..DrainTimeout : Drain(n, t)

Serves ==
    \/ Reads
    \/ FindRoute
    \/ Handle
    \/ UpgradeRefused
    \/ Upgraded
    \/ Finish

Listens ==
    \/ \E n \in 0..Len(inbox) : Poll(n)
    \/ PollFindsGone
    \/ FrameWaits
    \/ FrameRefused
    \/ FrameText
    \/ FramePing
    \/ FramePassed
    \/ FrameEnds
    \/ BroadcastFails

Next ==
    \/ \E s \in Scripts : Accept(s)
    \/ Between
    \/ Relisten
    \/ Serves
    \/ Listens
    \/ \E f \in Frames : PeerSends(f)
    \/ PeerCloses
    \/ ClockComes
    \/ Radio

Spec == Init /\ [][Next]_vars

(* The net task goes on as long as it has a connection to serve; that it   *)
(* gets on at all is its own doing, not the peer's.  Every step of Serves  *)
(* moves pc, takes from what is unread, or counts a tick; there always is  *)
(* one.  Between two connections the interval of the recycling runs out.   *)
Serving == pc \in {"line", "headers", "body", "route", "handle", "done"}

Goes ==
    /\ Serving
    /\ pc' \in {"line", "headers", "body", "route", "handle", "done", "idle", "open"}
    /\ unread' \in {SubSeq(unread, n, Len(unread)) : n \in 1..(Len(unread) + 1)}
    /\ waited' \in 0..ReadTimeout

FairSpec ==
    Spec /\ WF_<<pc, unread, waited>>(Goes) /\ WF_vars(listening = "stuck" /\ Relisten)
------------------------------------------------------------------------------
TypeOK ==
    /\ pc \in {"idle", "line", "headers", "body", "route", "handle", "done", "open", "drain"}
    /\ LinkTypeOK /\ gone \in BOOLEAN /\ over \in BOOLEAN /\ cut \in BOOLEAN /\ clock \in BOOLEAN
    /\ Len(line) < LineCap /\ waited \in Nat /\ stay \in Nat /\ count \in 0..(MaxHeaders + 1)
    /\ Len(request.method) < MethodCap /\ Len(request.target) < TargetCap
    /\ Len(request.authorization) < AuthorizationCap /\ Len(request.key) < KeyCap
    /\ Len(request.body) <= BodyCap
    /\ ran.route \in 0..Len(kRoutes) /\ reply.code \in {0, 101, 200, 500, 501, 503} \cup 400..499
    /\ Len(buf) < InboundCap /\ CloseCode(closed) \in {0, Normal, ProtocolError, TooBig}

(* What a script says, read as a whole.  A header counts if its line fits  *)
(* (the code skips the others), and the last one of its name.              *)
FitsLine(l) == Len(l) + 1 < LineCap

HeaderLines(s, name) ==
    {i \in 2..Len(s.lines) : Named(s.lines[i], name) /\ FitsLine(s.lines[i])}

LastOf(s, is) ==
    IF is = {} THEN <<>> ELSE HeaderValue(s.lines[CHOOSE i \in is : \A j \in is : j <= i])

LastHeader(s, name) == LastOf(s, HeaderLines(s, name))

ContentLength(s) == Number(LastHeader(s, "content-length"), LengthLimit)

(* The method, target and body it asks for.                                *)
Asks(s, asked) ==
    /\ IsPrefix(asked[1] \o <<"SP">> \o asked[2] \o <<"SP">>, LineOf(s, 1))
    /\ ~Contains(asked[1], "SP") /\ ~Contains(asked[2], "SP")
    /\ IsPrefix(asked[3], s.body) /\ Len(asked[3]) = ContentLength(s)

(* A handler sees the request its client sent, whole and as it was sent,   *)
(* or it does not run: nothing is cut to fit (http_request.h: "it must not *)
(* be normalised"; http_request.cpp: "silently using a truncated one would *)
(* turn a client bug into a signature failure").                           *)
WholeRequest ==
    pc = "done" /\ ran.route # 0 /\ reply.code # 101 =>
        /\ Asks(script, Signed(request))
        /\ request.authorization = LastHeader(script, "authorization")
        /\ \A i \in 2..Len(script.lines) : Named(script.lines[i], "authorization") =>
             FitsLine(script.lines[i]) /\ Len(HeaderValue(script.lines[i])) < AuthorizationCap

(* The one route under /api/ that is for everybody.                        *)
Upgrade(r) == r.method = <<"GET">> /\ Path(r.target) = <<"/", "api", "/", "ws">>

NamesApi(r) == IsPrefix(<<"/", "api", "/">>, r.target)

(* Without a good signature of what is asked for, nothing under /api/ can  *)
(* be told apart from what is not there ("the API surface is not           *)
(* enumerable without credentials", router.h), the upgrade apart.          *)
NotEnumerable ==
    [][/\ pc = "handle" /\ pc' = "done" /\ NamesApi(request) /\ ~Upgrade(request)
       /\ \/ ~parseAuthHeader(LastHeader(script, "authorization"))
          \/ ~Asks(script, script.signs)
       => reply'.code \in {401, 503} /\ ran' = NotRun]_vars

(* The wildcard of a handler that ran is the piece of the path that stands *)
(* for the star, all of it; one within a pattern is a single segment       *)
(* (router.h).                                                             *)
WildcardWhole ==
    pc = "done" /\ ran.route # 0 /\ reply.code # 101 =>
        LET pattern == kRoutes[ran.route].pattern
        IN  /\ Path(request.target) =
                   IF Contains(pattern, "*")
                   THEN Before(pattern, "*") \o ran.wildcard \o After(pattern, "*")
                   ELSE pattern
            /\ After(pattern, "*") # <<>> => ~Contains(ran.wildcard, "/")

(* An answer of 200 about the settings of an app is about an app there is. *)
AppIsThere ==
    ran.route # 0 /\ kRoutes[ran.route].handler \in {"settings", "set"} /\ reply.code = 200 =>
        \E i \in 0..(Apps - 1) : Number(ran.wildcard, 255) = i

(* A 101 answers the very key this client sent (websocket.cpp: the accept  *)
(* key "proves the peer understood the request").                          *)
KeyIsAnswered ==
    reply.code = 101 =>
        \E i \in DOMAIN script.lines :
            /\ Named(script.lines[i], "sec-websocket-key")
            /\ reply.accept = acceptKey(HeaderValue(script.lines[i]))

(* A handler is called for what the client asked for, and with it.         *)
HandledAsSent == WholeRequest /\ WildcardWhole /\ AppIsThere /\ KeyIsAnswered

(* However slowly a peer sends, it holds the one net task no longer than   *)
(* LongestStay: the deadline of each line and of the body, and what may    *)
(* still come after it (stream_read.h: "a peer that trickles an endless    *)
(* header is cut off"; http_request.cpp: "a client which keeps talking     *)
(* cannot stall the loop").                                                *)
BoundedStay == stay <= LongestStay

(* No peer, served or not, costs the server a socket (net_link.cpp: "a few *)
(* dozen such leaks under load exhausts the whole socket pool").           *)
NoSocketLeaks == fds = Held(listening) + (IF pc = "idle" THEN 0 ELSE 1)

(* Whoever comes next finds the net task free and a socket left.           *)
NextIsServed == BoundedStay /\ NoSocketLeaks

(* A frame that the board has no rule against, and one a client may send:  *)
(* "single unfragmented frames" are all there is (websocket.h), but no     *)
(* rule of the board asks for the last bit of a text.                      *)
Formed(f) ==
    /\ f.masked /\ f.reserved = 0 /\ Len(Bytes(f)) < InboundCap /\ WholeFrame(f)
    /\ f.opcode \notin {Continuation, Binary, Close}
    /\ f.opcode >= 8 => f.fin /\ Len(f.payload) <= 125

Good(f) == Formed(f) /\ f.fin

Kind(f) == CASE f.opcode = Text -> "text" [] f.opcode = Ping -> "pong" [] OTHER -> "nothing"

(* Texts go to the handler and pings are answered, in order, each once and *)
(* with what the client wrote, however the bytes arrive ("Called for each  *)
(* complete text message", ws_hub.h), and nothing is done for a malformed  *)
(* frame or what comes behind it.  What becomes of a fragment is left open *)
(* here: see OnlyWholeTexts.                                               *)
InOrder ==
    /\ Len(did) <= Len(talk)
    /\ \A i \in DOMAIN did :
         LET f == talk[i]  made == did[i][2]
         IN  /\ Formed(f)
             /\ Good(f) =>
                  /\ did[i][1] = Kind(f)
                  /\ IF Kind(f) # "pong" THEN made = f.payload
                     ELSE parseHeader(made) = "ok" /\ FrameHeader(made).opcode = Pong
                          /\ SubSeq(made, HeaderLen(made) + 1, Len(made)) = f.payload

(* The board closes with an error only at a frame the peer should not have *)
(* sent, or if more is there at once than there is room for.               *)
Pending == Len(Sent(talk)) - Len(inbox) - Len(SentTo(talk, Len(did)))

AtAWrongFrame == Len(did) < Len(talk) /\ ~Good(talk[Len(did) + 1])

ClosedForCause ==
    CloseCode(closed) \in {ProtocolError, TooBig} =>
        \/ AtAWrongFrame
        \/ CloseCode(closed) = TooBig /\ (gone \/ Pending >= InboundCap)

(* Every frame is taken for what it is (WsHub::drainFrames).               *)
FramesHeeded == InOrder /\ ClosedForCause

(* The terminator that is put behind a text is inside the buffer.          *)
TerminatorFits == written <= InboundCap

(* As ws_hub.cpp has it of a full buffer: "Filled without a complete       *)
(* frame: the peer is sending something this was never meant to carry".    *)
(* The code does not satisfy it: small frames that come together fill it.  *)
FilledByOneFrame == CloseCode(closed) = TooBig => AtAWrongFrame

(* As websocket.h and ws_hub.h have it: "No fragmentation", and a handler  *)
(* "called for each complete text message".  The code does not satisfy it: *)
(* the first fragment of a text is handed over as if it were all of it,    *)
(* and the connection is closed only when the next one comes.              *)
OnlyWholeTexts == \A i \in DOMAIN did : did[i][1] = "text" => talk[i].fin

(* Whoever is accepted is answered, whatever it sends or does not send,    *)
(* and a listener that produces no connections is replaced: time and again *)
(* the server is not waiting for anybody.                                  *)
Answered ==
    []<>((~Serving \/ pc = "done") /\ listening # "stuck")
==============================================================================
