------------------------------- MODULE MvSession -------------------------------
(***************************************************************************)
(* The state of a racing session as the MultiViewer parser keeps it.       *)
(*                                                                         *)
(* A body is a sequence of tokens: names, the braces of the one object the *)
(* parser is after, and the topics in it, an inner object that ends being  *)
(* one value.  A driver stands for a racing number and its TLA.            *)
(***************************************************************************)
EXTENDS Integers, Sequences

CONSTANTS
    Drivers, Nobody,    \* cars on the track; an unused slot
    Garbled,            \* what is no entry of a list: "number": object
    MaxDrivers,         \* kMaxDrivers, both tables
    BlueFlagTimeout,    \* kBlueFlagTimeoutMs, in ticks of the clock
    TimeWord            \* the millisecond clock is a word

ASSUME SessionAssumption ==
    /\ Nobody \notin Drivers /\ Garbled \notin Drivers
    /\ Garbled \notin [key : Nat, flag : {"BLUE", "CLEAR", "OTHER"},
                       driver : Drivers \union {Nobody}]
    /\ MaxDrivers \in Nat \ {0} /\ TimeWord \in Nat \ {0}
    /\ BlueFlagTimeout \in 1..(TimeWord - 1)

Flags  == {"Unknown", "AllClear", "Yellow", "SafetyCar", "VirtualSafetyCar", "Red"}
Topics == {"TrackStatus", "LapCount", "DriverList", "RaceControlMessages"}

(* Unsigned subtraction *)
Since(then, now) == (now - then) % TimeWord

NoBlueFlags == [i \in 1..MaxDrivers |-> [racingNumber |-> Nobody, lastSeen |-> 0]]

------------------------------------------------------------------------------
(* The scanner *)
Token(key, value) == [key |-> key, value |-> value]

Open  == Token("open", 0)
Shut  == Token("close", 0)

(* The value of the first member of that name within body[first..last], at *)
(* whatever depth strstr finds it; 0 when there is none.                   *)
findValue(body, first, last, key) ==
    LET at == {i \in first..last : body[i].key = key}
    IN  IF at = {} THEN 0 ELSE CHOOSE i \in at : \A j \in at : i <= j

(* The brace that closes the object, 0 if it runs off the end of the       *)
(* buffer.  Braces within strings and inner objects are part of a value.   *)
findObjectEnd(body, start) ==
    IF start > Len(body) \/ body[start].key # "open" THEN 0
    ELSE findValue(body, start, Len(body), "close")

(* The entries of a list one after the other; at the first that is none    *)
(* the scan stops rather than misparse.                                    *)
entries(list) ==
    LET bad == {i \in DOMAIN list : list[i] = Garbled}
    IN  IF bad = {} THEN list
        ELSE SubSeq(list, 1, (CHOOSE i \in bad : \A j \in bad : i <= j) - 1)

------------------------------------------------------------------------------
(* SessionState::reset() *)
NoSession ==
    [trackFlag |-> "Unknown", hasLapCount |-> FALSE, currentLap |-> 0, totalLaps |-> 0,
     drivers |-> <<>>, lastMessageIndex |-> -1, blueFlags |-> NoBlueFlags,
     blueFlagTla |-> Nobody]

(* A later Message the firmware has no flag for reads as Unknown.          *)
parseTrackStatus(s, object) ==
    [s EXCEPT !.trackFlag =
        IF "TrackStatus" \in DOMAIN object /\ object.TrackStatus \in Flags
        THEN object.TrackStatus ELSE "Unknown"]

(* An update may carry one of the two numbers, the other keeps its value   *)
parseLapCount(s, object) ==
    LET lap == IF "LapCount" \in DOMAIN object THEN object.LapCount ELSE [none |-> 0]
        has(field) == field \in DOMAIN lap
    IN  [s EXCEPT !.hasLapCount = has("CurrentLap") \/ has("TotalLaps"),
                  !.currentLap = IF has("CurrentLap") THEN lap.CurrentLap ELSE @,
                  !.totalLaps = IF has("TotalLaps") THEN lap.TotalLaps ELSE @]

(* The scan stops when the table is full; without a list it is left alone. *)
parseDriverList(s, object) ==
    [s EXCEPT !.drivers =
        IF "DriverList" \in DOMAIN object
        THEN SubSeq(entries(object.DriverList), 1, MaxDrivers) ELSE @]

Slots(blue, driver) == {i \in 1..MaxDrivers : blue[i].racingNumber = driver}
First(slots)        == CHOOSE i \in slots : \A j \in slots : i <= j

(* BLUE: the driver's slot is renewed, or the first free one taken *)
Raised(blue, driver, now) ==
    LET slots == IF Slots(blue, driver) # {} THEN Slots(blue, driver) ELSE Slots(blue, Nobody)
    IN  IF slots = {} THEN blue
        ELSE [blue EXCEPT ![First(slots)] = [racingNumber |-> driver, lastSeen |-> now]]

LoweredNot(blue, driver) == blue

(* Any other flag of a driver rescinds his blue one.                       *)
Lowered(blue, driver) ==
    IF Slots(blue, driver) = {} THEN blue
    ELSE [blue EXCEPT ![First(Slots(blue, driver))].racingNumber = Nobody]

(* One new message: only flags of a driver count *)
Applied(blue, message, now) ==
    CASE message.flag = "BLUE"  -> Raised(blue, message.driver, now)
      [] message.flag = "CLEAR" -> Lowered(blue, message.driver)
      [] OTHER                  -> blue

(* A missed CLEAR: a flag not renewed for the timeout goes *)
Aged(blue, now) ==
    [i \in 1..MaxDrivers |->
        IF blue[i].racingNumber # Nobody /\ Since(blue[i].lastSeen, now) >= BlueFlagTimeout
        THEN [blue[i] EXCEPT !.racingNumber = Nobody] ELSE blue[i]]

(* The one flag there is room for: the first of a driver with a TLA.       *)
Tla(blue, drivers) ==
    LET named == {i \in 1..MaxDrivers :
                    \E j \in DOMAIN drivers : drivers[j] = blue[i].racingNumber}
    IN  IF named = {} THEN Nobody ELSE blue[First(named)].racingNumber

(* The flags after a list: messages up to last, the highest key of the     *)
(* polls before, are skipped                                               *)
Flagged(blue, messages, last, now) ==
    LET after[i \in 0..Len(messages)] ==
          IF i = 0 THEN blue
          ELSE IF messages[i].key <= last THEN after[i - 1]
          ELSE Applied(after[i - 1], messages[i], now)
    IN  after[Len(messages)]

Highest(messages, last) ==
    LET keys == {last} \union {messages[i].key : i \in DOMAIN messages}
    IN  CHOOSE k \in keys : \A j \in keys : j <= k

(* Messages are keyed 0, 1, ...  A key below the last one of the poll      *)
(* before is taken for a new session, and everything is forgotten.         *)
parseRaceControlMessages(s, object, now) ==
    IF "RaceControlMessages" \notin DOMAIN object THEN s
    ELSE
      LET messages  == entries(object.RaceControlMessages)
          last      == s.lastMessageIndex
          restarted == \E i \in DOMAIN messages : messages[i].key < last
          blue      == Aged(IF restarted THEN NoBlueFlags
                            ELSE Flagged(s.blueFlags, messages, last, now), now)
      IN  [s EXCEPT !.lastMessageIndex = IF restarted THEN -1 ELSE Highest(messages, last),
                    !.blueFlags = blue,
                    !.blueFlagTla = Tla(blue, s.drivers)]

(* The topics found between the braces *)
Found(body, start, end) ==
    LET at(t) == findValue(body, start, end, t)
    IN  [t \in {u \in Topics : at(u) # 0} |-> body[at(t)].value]

(* parse(): anything but a whole object or null leaves the state as it was *)
Parsed(s, body, now) ==
    LET value == findValue(body, 1, Len(body), "f1LiveTimingState") + 1
        end   == findObjectEnd(body, value)
    IN  IF value = 1 \/ value > Len(body) THEN s                 \* kMalformed
        ELSE IF body[value].key = "null" THEN NoSession
        ELSE IF end = 0 THEN s                      \* kMalformed, kTruncated
        ELSE LET object == Found(body, value, end)
                 track  == parseTrackStatus(s, object)
                 laps   == parseLapCount(track, object)
                 list   == parseDriverList(laps, object)
             IN  parseRaceControlMessages(list, object, now)
================================================================================
