-------------------------------- MODULE MvPoller --------------------------------
(***************************************************************************)
(* The MultiViewer poller, the F1 app it works for, and the server.        *)
(*                                                                         *)
(* The app (render task) and the poller (its own task on the ESP32-S3, a   *)
(* turn of the loop on the SAMD51, one case of the other) share MvLink: a  *)
(* host asked for, a switch and a snapshot.  The poller is in no hurry: it *)
(* blocks on a socket in the middle of a pass, and the app goes on.        *)
(*                                                                         *)
(* A tick of the clock is half the S3's slow interval.  The server may     *)
(* refuse, hang, close, answer in part or with anything; a socket keeps    *)
(* what was sent and not read.                                             *)
(***************************************************************************)
EXTENDS MvSession

CONSTANTS
    Hosts, NoHost,     \* addresses; IPAddress()
    Blank, Malformed,  \* host text: none; one that is no address
    Configs,           \* MvConfig of the boards: [timing fields, keepAlive]
    TrackOf, LapsOf,   \* what each host shows of its session
    Lineup,            \* the DriverList, in order
    Boot,              \* the clock's word at boot
    MaxTicks,          \* bound: how long it is watched
    MaxMessages,       \* bound: race control messages of each host's session
    MaxFaults,         \* bound: polls that something goes wrong in
    MaxTaps            \* bound: settings and screens changed by the user

ASSUME PollerAssumption ==
    /\ NoHost \notin Hosts /\ Blank \notin Hosts /\ Malformed \notin Hosts
    /\ Boot \in 0..(TimeWord - 1)
    /\ MaxTicks \in 1..(TimeWord - 1)
    /\ \A c \in Configs :
         /\ c.fastInterval \in 1..(TimeWord - 1) /\ c.slowInterval \in 1..(TimeWord - 1)
         /\ c.backoff \in 1..(TimeWord - 1) /\ c.keepAlive \in BOOLEAN
         /\ c.fastTopics \subseteq Topics /\ c.slowTopics \subseteq Topics
         /\ c.fastTopics \union c.slowTopics = Topics

VARIABLES
    config,
    linkHost, hostChanged, pollEnabled, snapshot,            \* MvLink
    host, connected, everPolled, lastPoll, lastSlowPoll,     \* MultiViewerClient
    socketOpen, session,
    pc, at, topics, reusingSocket, attempt,                  \* a pass of the poller
    peerOpen, rest, reaches,         \* the socket: the peer still has it open, bytes
                                     \* of an answer are left on it, where it leads
    feed,                            \* race control messages at each host
    uptime, faults, taps,
    freshFailed, gathered, heard     \* history: a socket opened by this poll failed;
                                     \* topics asked since connected; messages read

link   == <<linkHost, hostChanged, pollEnabled, snapshot>>
timing == <<everPolled, lastPoll, lastSlowPoll>>
client == <<host, connected, timing, socketOpen, session>>
pass   == <<at, topics, reusingSocket, attempt>>
socket == <<peerOpen, rest, reaches>>
limits == <<uptime, faults, taps>>
ghosts == <<freshFailed, gathered, heard>>
vars   == <<config, link, client, pc, pass, socket, feed, limits, ghosts>>

Now == (Boot + uptime) % TimeWord

(* What a host may be set to, and the address the poller makes of it: text *)
(* that does not parse means no host, as none does.                        *)
Texts == Hosts \union {Blank, Malformed}

Address(text) == IF text \in Hosts THEN text ELSE NoHost

Faulty(n) == faults + n <= MaxFaults /\ faults' = faults + n

(* MvLink::publish's argument: what the display needs of the session       *)
Snapshot ==
    [connected |-> connected, trackFlag |-> session.trackFlag,
     laps |-> IF session.hasLapCount THEN <<session.currentLap, session.totalLaps>> ELSE <<>>,
     blueFlagTla |-> session.blueFlagTla]

------------------------------------------------------------------------------
(* The app: a host typed in is handed over, not applied.                   *)
Tap == taps < MaxTaps /\ taps' = taps + 1

requestHost(text) ==
    /\ Tap /\ linkHost' = text /\ hostChanged' = TRUE
    /\ UNCHANGED <<config, pollEnabled, snapshot, client, pc, pass, socket, feed,
                   uptime, faults, ghosts>>

(* begin() and end(): polling goes on only while the app is on the screen *)
setPollEnabled ==
    /\ Tap /\ pollEnabled' = ~pollEnabled
    /\ UNCHANGED <<config, linkHost, hostChanged, snapshot, client, pc, pass, socket, feed,
                   uptime, faults, ghosts>>

(* The frame update() leaves on the panel: a flag of the track comes before *)
(* the blue flag of a driver, that before the laps.                        *)
(* It goes by the text, not by what the poller makes of it.                *)
computeRenderState(text, shown) ==
    IF text = Blank THEN <<"kNotConfigured">>
    ELSE IF ~shown.connected THEN <<"kConnecting">>
    ELSE IF shown.trackFlag \notin {"AllClear", "Unknown"} THEN <<"kFlag", shown.trackFlag>>
    ELSE IF shown.blueFlagTla # Nobody THEN <<"kBlueFlag", shown.blueFlagTla>>
    ELSE IF shown.laps # <<>> THEN <<"kLapCount", shown.laps>>
    ELSE <<"kNoSession">>

------------------------------------------------------------------------------
stop == socketOpen' = FALSE /\ peerOpen' = FALSE /\ rest' = FALSE /\ reaches' = NoHost

(* A pass ends; what it knew was on its stack *)
Return ==
    /\ pc' = "idle" /\ at' = Boot /\ topics' = {} /\ reusingSocket' = FALSE /\ attempt' = 1
    /\ freshFailed' = FALSE

(* setHost(): a new host has no connection and no history; the session is  *)
(* left as it is                                                           *)
setHost(h) ==
    IF h = host THEN UNCHANGED <<client, socket, gathered>>
    ELSE /\ host' = h /\ connected' = FALSE /\ everPolled' = FALSE /\ gathered' = {}
         /\ stop
         /\ UNCHANGED <<lastPoll, lastSlowPoll, session>>

takeHostChangeWhenPolling ==
    /\ pc = "idle" /\ at' = Now /\ pc' = "enabled"
    /\ IF hostChanged /\ pollEnabled THEN hostChanged' = FALSE /\ setHost(Address(linkHost))
       ELSE UNCHANGED <<hostChanged, client, socket, gathered>>
    /\ UNCHANGED <<config, linkHost, pollEnabled, snapshot, topics, reusingSocket, attempt,
                   feed, limits, freshFailed, heard>>

(* The start of pollMultiViewer: the host asked for is taken once *)
takeHostChange ==
    /\ pc = "idle" /\ at' = Now /\ pc' = "enabled"
    /\ IF hostChanged THEN hostChanged' = FALSE /\ setHost(Address(linkHost))
       ELSE UNCHANGED <<hostChanged, client, socket, gathered>>
    /\ UNCHANGED <<config, linkHost, pollEnabled, snapshot, topics, reusingSocket, attempt,
                   feed, limits, freshFailed, heard>>

Due == ~everPolled \/ Since(lastPoll, at) >= (IF connected THEN config.fastInterval
                                               ELSE config.backoff)

PlanHalf ==
    IF config.slowTopics # {} /\ Since(lastSlowPoll, at) < config.slowInterval
    THEN config.fastTopics ELSE config.fastTopics \union config.slowTopics

(* planPoll: the first poll, and the first after a failure, asks for all; *)
(* afterwards the slow topics come along once per slow interval            *)
Plan ==
    IF ~everPolled \/ ~connected THEN Topics
    ELSE IF config.slowTopics # {} /\ Since(lastSlowPoll, at) < config.slowInterval
    THEN config.fastTopics ELSE config.fastTopics \union config.slowTopics

(* poll(), as far as the decision *)
Poll ==
    /\ pc = "enabled"
    /\ IF ~pollEnabled THEN Return /\ UNCHANGED timing
       ELSE IF host = NoHost \/ ~Due
       THEN pc' = "publish" /\ UNCHANGED <<timing, pass, freshFailed>>
       ELSE /\ pc' = "connect" /\ topics' = Plan
            /\ everPolled' = TRUE /\ lastPoll' = at
            /\ lastSlowPoll' = IF config.slowTopics \subseteq Plan THEN at ELSE lastSlowPoll
            /\ UNCHANGED <<at, reusingSocket, attempt, freshFailed>>
    /\ UNCHANGED <<config, link, host, connected, socketOpen, session, socket, feed, limits,
                   gathered, heard>>

(* ensureConnected(): a socket whose peer is seen to have closed it, or    *)
(* that is not to be kept, is replaced                                     *)
Usable == socketOpen /\ config.keepAlive /\ peerOpen

Reuse ==
    /\ pc = "connect" /\ Usable
    /\ reusingSocket' = TRUE /\ pc' = "ask"
    /\ UNCHANGED <<config, link, client, at, topics, attempt, socket, feed, limits, ghosts>>

Connect ==
    /\ pc = "connect" /\ ~Usable
    /\ reusingSocket' = socketOpen
    /\ socketOpen' = TRUE /\ peerOpen' = TRUE /\ rest' = FALSE /\ reaches' = host
    /\ pc' = "ask"
    /\ UNCHANGED <<config, link, host, connected, timing, session, at, topics, attempt,
                   feed, limits, ghosts>>

(* poll() after a fetch() that failed *)
Failed == connected' = FALSE /\ gathered' = {} /\ pc' = "publish"

Refused ==
    /\ pc = "connect" /\ ~Usable /\ Faulty(1)
    /\ freshFailed' = TRUE
    /\ stop /\ Failed
    /\ UNCHANGED <<config, link, host, timing, session, pass, feed, uptime, taps, heard>>

NoRetry ==
    /\ stop /\ freshFailed' = (freshFailed \/ ~reusingSocket)
    /\ Failed /\ UNCHANGED attempt

(* Whatever goes wrong between the first byte of the request and the last  *)
(* of the answer: one more attempt, if the socket was inherited            *)
Retry ==
    /\ stop /\ freshFailed' = (freshFailed \/ ~reusingSocket)
    /\ IF reusingSocket /\ attempt = 1
       THEN attempt' = 2 /\ pc' = "connect" /\ UNCHANGED <<connected, gathered>>
       ELSE Failed /\ UNCHANGED attempt

(* sendRequest or readResponse fails.  That the peer had closed the socket *)
(* while it was idle, unseen until then, or that the rest of an earlier    *)
(* answer comes first is nobody's fault; otherwise the server's: no HTTP,  *)
(* endless headers, no body, a short one, or silence for responseTimeoutMs *)
Broken ==
    /\ pc = "ask"
    /\ IF peerOpen /\ ~rest THEN Faulty(1) ELSE UNCHANGED faults
    /\ Retry
    /\ UNCHANGED <<config, link, host, timing, session, at, topics, reusingSocket, feed, uptime,
                   taps, heard>>

ReusableIfKept(framing) == config.keepAlive /\ framing \in {"length", "too long"}

(* readResponse: the socket is kept only when the answer gave its length,  *)
(* all of it fitted and the server did not say it would close              *)
Reusable(framing) == config.keepAlive /\ framing = "length"

(* The live-timing state of a host, as far as it was asked for, in the     *)
(* order of the query; all but the last message of a list may come before  *)
(* something that is none                                                  *)
Asked(t, value) == IF t \in topics THEN <<Token(t, value)>> ELSE <<>>

State(h, list) ==
    <<Token("f1LiveTimingState", 0), Open>>
      \o Asked("TrackStatus", TrackOf[h]) \o Asked("LapCount", LapsOf[h])
      \o Asked("DriverList", Lineup) \o Asked("RaceControlMessages", list)
      \o <<Shut>>

Whole(h)       == State(h, feed[h])
HalfGarbled(h) == State(h, [feed[h] EXCEPT ![Len(feed[h])] = Garbled])
NoState        == <<Token("f1LiveTimingState", 0), Token("null", 0)>>

(* What the server's answer to the topics asked for may be *)
Bodies ==
    LET whole == Whole(reaches)
    IN  {whole, NoState}
          \union (IF feed[reaches] = <<>> THEN {} ELSE {HalfGarbled(reaches)})
          \union {SubSeq(whole, 1, n) : n \in 0..(Len(whole) - 1)}

(* The messages of a host the parser has gone through *)
Heard(body) ==
    IF "RaceControlMessages" \notin topics THEN heard
    ELSE IF body = Whole(reaches) THEN [heard EXCEPT ![reaches] = Len(feed[reaches])]
    ELSE IF body # NoState /\ body = HalfGarbled(reaches) /\ heard[reaches] < Len(feed[reaches])
    THEN [heard EXCEPT ![reaches] = Len(feed[reaches]) - 1]
    ELSE heard

(* An answer read to its end, or as far as the buffer goes: poll() parses. *)
Answer(framing) == \E body \in IF pc = "ask" /\ peerOpen /\ ~rest THEN Bodies ELSE {} :
    /\ Faulty(IF body = Whole(reaches) THEN 0 ELSE 1)
    /\ framing = "too long" => Len(body) < Len(Whole(reaches))
    /\ IF Reusable(framing) THEN UNCHANGED <<socketOpen, peerOpen, reaches>>
       ELSE socketOpen' = FALSE /\ peerOpen' = FALSE /\ reaches' = NoHost
    /\ rest' = (Reusable(framing) /\ framing = "too long")
    /\ connected' = TRUE /\ gathered' = gathered \union topics
    /\ session' = Parsed(session, body, at)
    /\ heard' = Heard(body)
    /\ pc' = "publish"
    /\ UNCHANGED <<config, link, host, timing, pass, feed, uptime, taps, freshFailed>>

publish ==
    /\ pc = "publish"
    /\ snapshot' = Snapshot /\ Return
    /\ UNCHANGED <<config, linkHost, hostChanged, pollEnabled, client, socket, feed, limits,
                   gathered, heard>>

------------------------------------------------------------------------------
(* The server drops a socket; the firmware sees it when it looks.          *)
PeerCloses ==
    /\ socketOpen /\ peerOpen
    /\ peerOpen' = FALSE
    /\ UNCHANGED <<config, link, client, pc, pass, rest, reaches, feed, limits, ghosts>>

(* Race control speaks; the list grows all session *)
Message(h, flag, driver) ==
    /\ Len(feed[h]) < MaxMessages[h]
    /\ feed' = [feed EXCEPT ![h] = Append(@, [key |-> Len(@), flag |-> flag, driver |-> driver])]
    /\ UNCHANGED <<config, link, client, pc, pass, socket, limits, ghosts>>

(* Time passes while the poller is between passes or waits for a server.   *)
Tick ==
    /\ uptime < MaxTicks
    /\ pc \in {"idle", "connect", "ask"}
    /\ uptime' = uptime + 1
    /\ UNCHANGED <<config, link, client, pc, pass, socket, feed, faults, taps, ghosts>>

(* Settings are loaded, and the app shown last is begun, before the tasks  *)
(* start; a host that was saved is handed over, even an empty one          *)
Init ==
    /\ config \in Configs
    /\ linkHost \in Texts /\ hostChanged \in BOOLEAN /\ (linkHost # Blank => hostChanged)
    /\ pollEnabled \in BOOLEAN
    /\ host = NoHost /\ connected = FALSE /\ everPolled = FALSE
    /\ lastPoll = 0 /\ lastSlowPoll = 0 /\ socketOpen = FALSE /\ session = NoSession
    /\ snapshot = Snapshot
    /\ pc = "idle" /\ at = Boot /\ topics = {} /\ reusingSocket = FALSE /\ attempt = 1
    /\ peerOpen = FALSE /\ rest = FALSE /\ reaches = NoHost
    /\ feed = [h \in Hosts |-> <<>>]
    /\ uptime = 0 /\ faults = 0 /\ taps = 0
    /\ freshFailed = FALSE /\ gathered = {} /\ heard = [h \in Hosts |-> 0]

App    == (\E text \in Texts : requestHost(text)) \/ setPollEnabled
Server ==
    \/ PeerCloses
    \/ \E h \in Hosts : \/ \E d \in Drivers, flag \in {"BLUE", "CLEAR"} : Message(h, flag, d)
                      \/ Message(h, "OTHER", Nobody)
Poller ==
    \/ takeHostChange \/ Poll \/ Reuse \/ Connect \/ Refused \/ Broken \/ publish
    \/ \E framing \in {"length", "closing", "too long"} : Answer(framing)

Next == App \/ Server \/ Poller \/ Tick

Spec == Init /\ [][Next]_vars
(* The poller's task goes on, and waits for no server for ever: there is   *)
(* always a step it can take, and every one of them moves pc               *)
Goes == pc' \in {"idle", "enabled", "connect", "ask", "publish"} \ {pc}

FairSpec == Spec /\ WF_pc(Goes)

------------------------------------------------------------------------------
TypeOK ==
    /\ linkHost \in Texts /\ host \in Hosts \union {NoHost}
    /\ hostChanged \in BOOLEAN /\ pollEnabled \in BOOLEAN
    /\ connected \in BOOLEAN /\ everPolled \in BOOLEAN /\ socketOpen \in BOOLEAN
    /\ lastPoll \in 0..(TimeWord - 1) /\ lastSlowPoll \in 0..(TimeWord - 1)
    /\ topics \subseteq Topics /\ attempt \in 1..2 /\ reusingSocket \in BOOLEAN
    /\ pc \in {"idle", "enabled", "connect", "ask", "publish"}
    /\ session.trackFlag \in Flags /\ session.lastMessageIndex \in Nat \union {-1}
    /\ Len(session.drivers) <= MaxDrivers
    /\ \A i \in 1..MaxDrivers : session.blueFlags[i].racingNumber \in Drivers \union {Nobody}

(* The host the user typed in last is the host that is polled, as soon as  *)
(* the poller has looked: a change during a long pass is not lost.         *)
HostIsTheLast == hostChanged \/ host = Address(linkHost)

(* A request goes to the host that is set, on a socket with nothing of an  *)
(* earlier answer on it: what is parsed is the answer to what was asked.   *)
SocketIsOurs == socketOpen => reaches = host /\ ~rest

(* The host that is asked is the one the user typed in, and what comes     *)
(* back is its answer to that question (takeHostChange, ensureConnected).  *)
PollsTheHost == HostIsTheLast /\ SocketIsOurs

(* On the panel a connection is lost only when the server would not have a *)
(* new one or failed on it; a kept socket that had died is not a failure.  *)
FailureIsReal == [][connected /\ ~connected' /\ host' = host => freshFailed']_vars

(* A poll does not disturb the list it does not ask for.                   *)
UnaskedIsKept ==
    [][pc = "ask" /\ session' # NoSession =>
         /\ "DriverList" \notin topics => session'.drivers = session.drivers
         /\ "RaceControlMessages" \notin topics =>
              /\ session'.blueFlags = session.blueFlags
              /\ session'.lastMessageIndex = session.lastMessageIndex
              /\ session'.blueFlagTla = session.blueFlagTla]_vars

(* No poll disturbs what it has nothing to do with: what is connected, or  *)
(* the topics it does not ask for.                                         *)
PollsAreHarmless == FailureIsReal /\ UnaskedIsKept

(* Whatever is shown as connected, every topic has been asked for since    *)
(* the host was set or the last poll failed.                               *)
ShownIsWhole == connected => gathered = Topics

(* A blue flag kept is that of a driver race control last waved one at: no *)
(* CLEAR that was read is ever overlooked, however the list was cut into   *)
(* polls and however full the table.  (Of one host: the lists of two are   *)
(* told apart only by their keys.)                                         *)
Blue == {session.blueFlags[i].racingNumber : i \in 1..MaxDrivers} \ {Nobody}

Said(h, d) ==
    {k \in 1..(session.lastMessageIndex + 1) :
        feed[h][k].driver = d /\ feed[h][k].flag \in {"BLUE", "CLEAR"}}

BlueIsLatest ==
    \A h \in Hosts : (\A o \in Hosts \ {h} : heard[o] = 0) =>
        \A d \in Blue :
            \E k \in Said(h, d) : feed[h][k].flag = "BLUE" /\ \A j \in Said(h, d) : j <= k

(* A list read before raises no flag when it is read again.  The code does *)
(* not satisfy it: once two messages were read, the first is below the     *)
(* last key of the next poll, and the list is taken for a new session's.   *)
SeenIsSkipped ==
    [][pc = "ask" /\ reaches \in Hosts /\ heard[reaches] > 0 /\ heard[reaches] = Len(feed[reaches])
         => Blue' \subseteq Blue]_vars

(* A host typed in is the one polled in the end, whatever the poller was   *)
(* waiting for.                                                            *)
HostIsAdopted == hostChanged ~> host = Address(linkHost)

(* Once the user leaves it alone and no poll is due, the panel shows what  *)
(* the poller knows of the host that is set; of a text that is no address, *)
(* that there is no connection, and nothing of the host before.            *)
PanelSettles ==
    <>[](pollEnabled =>
           /\ host = Address(linkHost)
           /\ computeRenderState(linkHost, snapshot) = computeRenderState(linkHost, Snapshot)
           /\ linkHost = Malformed => computeRenderState(linkHost, snapshot) = <<"kConnecting">>)

(* What the user set is what is polled, and what is polled is what is      *)
(* shown, in the end.                                                      *)
SettlesInTheEnd == HostIsAdopted /\ PanelSettles
================================================================================
