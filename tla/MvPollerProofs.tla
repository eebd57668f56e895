------------------------------ MODULE MvPollerProofs ------------------------------
(***************************************************************************)
(* What holds of MvPoller for any hosts, topics, intervals and faults.     *)
(***************************************************************************)
EXTENDS MvPoller, TLAPS, WellFoundedInduction

------------------------------------------------------------------------------
(* Numbers.                                                                *)
LEMMA LeastNatural ==
    ASSUME NEW T, T \subseteq Nat, T # {}
    PROVE  \E x \in T : \A y \in T : x <= y
  <1> DEFINE R == OpToRel(<, Nat)
  <1>0. \A a, b \in Nat : a < b => <<a, b>> \in R
    BY DEF OpToRel
  <1>1. IsWellFoundedOn(R, Nat)
    BY NatLessThanWellFounded
  <1> HIDE DEF R
  <1>2. \E x \in T : \A y \in T : ~ (<<y, x>> \in R)
    <2>1. IsWellFoundedOn(R, Nat)
      BY <1>1
    <2> QED
      BY <2>1, WFMin, Zenon
  <1>3. PICK x \in T : \A y \in T : ~ (<<y, x>> \in R)
    BY <1>2
  <1>4. ASSUME NEW y \in T PROVE x <= y
    <2>1. x \in Nat /\ y \in Nat
      OBVIOUS
    <2>2. ~(y < x)
      BY <1>0, <1>3, <2>1
    <2> QED BY <2>1, <2>2
  <1> QED BY <1>4

LEMMA SetInduction ==
    ASSUME NEW S, 0 \in S, \A n \in Nat : n \in S => n + 1 \in S
    PROVE  Nat \subseteq S
  <1> SUFFICES ASSUME Nat \ S # {} PROVE FALSE
    OBVIOUS
  <1>1. PICK x \in Nat \ S : \A y \in Nat \ S : x <= y
    BY LeastNatural
  <1>2. x - 1 \in Nat /\ ~(x <= x - 1) /\ (x - 1) + 1 = x
    BY <1>1
  <1>3. x - 1 \in S
    BY <1>1, <1>2
  <1> QED
    BY <1>1, <1>2, <1>3

(* The first of the members of that name. *)
LEMMA FindValue ==
    ASSUME NEW body, NEW first \in Nat, NEW last \in Nat, NEW key
    PROVE  LET v == findValue(body, first, last, key)
           IN  \/ v = 0 /\ \A i \in first..last : body[i].key # key
               \/ /\ v \in first..last /\ body[v].key = key
                  /\ \A i \in first..last : body[i].key = key => v <= i
  <1> DEFINE found == {i \in first..last : body[i].key = key}
  <1>1. CASE found = {}
    <2>1. findValue(body, first, last, key) = 0
      BY <1>1 DEF findValue
    <2> QED
      BY <1>1, <2>1
  <1>2. CASE found # {}
    <2>0. found \subseteq Nat
      OBVIOUS
    <2>1. \E i \in found : \A j \in found : i <= j
      BY <1>2, <2>0, LeastNatural
    <2>2. findValue(body, first, last, key) = CHOOSE i \in found : \A j \in found : i <= j
      BY <1>2 DEF findValue
    <2> QED
      BY <2>1, <2>2
  <1> QED
    BY <1>1, <1>2

------------------------------------------------------------------------------
(* The answer so far: the name of the object, its brace, then topics.      *)
Begun(b, Tokens, names) ==
    /\ b \in Seq(Tokens) /\ Len(b) >= 2
    /\ b[1].key = "f1LiveTimingState" /\ b[2].key = "open"
    /\ \A i \in 3..Len(b) : b[i].key \in names

Extended(b, c, Tokens, names, t, v) ==
    /\ Begun(c, Tokens, names \union ({t} \intersect topics))
    /\ t \in topics => /\ Len(c) = Len(b) + 1
                      /\ c[Len(b) + 1] = Token(t, v)
                      /\ \A i \in 1..Len(b) : c[i] = b[i]

LEMMA OneMoreTopic ==
    ASSUME NEW b, NEW Tokens, NEW names, NEW t, NEW v, Begun(b, Tokens, names),
           Token(t, v) \in Tokens
    PROVE  Extended(b, b \o Asked(t, v), Tokens, names, t, v)
  <1> SUFFICES ASSUME NEW c, c = b \o Asked(t, v)
               PROVE  Extended(b, c, Tokens, names, t, v)
    OBVIOUS
  <1> USE DEF Extended
  <1>1. CASE t \notin topics
    <2>1. c = b
      BY <1>1 DEF Asked, Begun
    <2> QED
      BY <1>1, <2>1 DEF Begun
  <1>2. CASE t \in topics
    <2> DEFINE token == Token(t, v)
    <2>1. b \in Seq(Tokens) /\ token \in Tokens /\ token.key = t
      BY DEF Begun, Token
    <2> HIDE DEF token
    <2>3. c = b \o <<token>>
      BY <1>2 DEF Asked, token
    <2>2. c \in Seq(Tokens) /\ Len(c) = Len(b) + 1 /\ c[Len(b) + 1] = token
          /\ \A i \in 1..Len(b) : c[i] = b[i]
      BY <2>1, <2>3
    <2>5. Begun(c, Tokens, names \union ({t} \intersect topics))
      <3>1. Len(b) \in Nat /\ Len(b) >= 2
        BY <2>1 DEF Begun
      <3>2. \A i \in 3..Len(c) : c[i].key \in names \union ({t} \intersect topics)
        <4> SUFFICES ASSUME NEW i \in 3..Len(c)
                     PROVE  c[i].key \in names \union ({t} \intersect topics)
          OBVIOUS
        <4>1. CASE i <= Len(b)
          BY <2>2, <3>1, <4>1 DEF Begun
        <4>2. CASE i = Len(b) + 1
          BY <1>2, <2>1, <2>2, <4>2
        <4> QED
          BY <2>2, <3>1, <4>1, <4>2
      <3>3. c[1] = b[1] /\ c[2] = b[2]
        BY <2>2, <3>1
      <3> QED
        BY <2>2, <3>1, <3>2, <3>3 DEF Begun
    <2> QED
      BY <2>2, <2>5 DEF token
  <1> QED
    BY <1>1, <1>2

(* What a whole answer looks like. *)
LEMMA StateShape ==
    ASSUME NEW h, NEW list, topics \subseteq Topics
    PROVE  LET b == State(h, list)
           IN  /\ Len(b) \in Nat /\ Len(b) >= 3 /\ \E T : b \in Seq(T)
               /\ b[1].key = "f1LiveTimingState" /\ b[2].key = "open"
               /\ b[Len(b)].key = "close"
               /\ \A i \in 3..(Len(b) - 1) : b[i].key \in topics
               /\ "RaceControlMessages" \in topics =>
                    /\ Len(b) >= 4 /\ b[Len(b) - 1].key = "RaceControlMessages"
                    /\ b[Len(b) - 1].value = list
                    /\ \A i \in 3..(Len(b) - 2) : b[i].key # "RaceControlMessages"
  <1> DEFINE Keys == Topics \union {"f1LiveTimingState", "open", "close"}
             Values == {0, TrackOf[h], LapsOf[h], Lineup, list}
             Tokens == [key : Keys, value : Values]
             b0 == <<Token("f1LiveTimingState", 0), Open>>
             b1 == b0 \o Asked("TrackStatus", TrackOf[h])
             b2 == b1 \o Asked("LapCount", LapsOf[h])
             b3 == b2 \o Asked("DriverList", Lineup)
             b4 == b3 \o Asked("RaceControlMessages", list)
             t3 == topics \ {"RaceControlMessages"}
  <1>0. /\ Token("TrackStatus", TrackOf[h]) \in Tokens /\ Token("LapCount", LapsOf[h]) \in Tokens
        /\ Token("DriverList", Lineup) \in Tokens /\ Token("RaceControlMessages", list) \in Tokens
        /\ Token("f1LiveTimingState", 0) \in Tokens /\ Open \in Tokens /\ Shut \in Tokens
        /\ Shut.key = "close"
    <2>1. /\ "TrackStatus" \in Keys /\ "LapCount" \in Keys /\ "DriverList" \in Keys
          /\ "RaceControlMessages" \in Keys /\ "f1LiveTimingState" \in Keys
          /\ "open" \in Keys /\ "close" \in Keys
      BY DEF Topics
    <2>2. 0 \in Values /\ TrackOf[h] \in Values /\ LapsOf[h] \in Values /\ Lineup \in Values
          /\ list \in Values
      OBVIOUS
    <2> HIDE DEF Keys, Values
    <2> QED
      BY <2>1, <2>2 DEF Token, Open, Shut
  <1>1. Begun(b0, Tokens, {})
    <2> HIDE DEF Tokens
    <2> QED
      BY <1>0 DEF Begun, Token, Open
  <1> HIDE DEF Tokens, b0
  <1>2. Extended(b0, b1, Tokens, {}, "TrackStatus", TrackOf[h])
    BY <1>0, <1>1, OneMoreTopic
  <1> HIDE DEF b1
  <1>3. Extended(b1, b2, Tokens, {} \union ({"TrackStatus"} \intersect topics),
                 "LapCount", LapsOf[h])
    <2>1. Begun(b1, Tokens, {} \union ({"TrackStatus"} \intersect topics))
      BY <1>2 DEF Extended
    <2> QED
      BY <1>0, <2>1, OneMoreTopic
  <1> HIDE DEF b2
  <1>4. Extended(b2, b3, Tokens,
                 ({} \union ({"TrackStatus"} \intersect topics))
                   \union ({"LapCount"} \intersect topics),
                 "DriverList", Lineup)
    <2>1. Begun(b2, Tokens, ({} \union ({"TrackStatus"} \intersect topics))
                              \union ({"LapCount"} \intersect topics))
      BY <1>3 DEF Extended
    <2> QED
      BY <1>0, <2>1, OneMoreTopic
  <1> HIDE DEF b3
  <1>5. Begun(b3, Tokens, t3)
    BY <1>4 DEF Begun, Extended
  <1>6. Extended(b3, b4, Tokens, t3, "RaceControlMessages", list)
    <2> HIDE DEF t3
    <2> QED
      BY <1>0, <1>5, OneMoreTopic
  <1>7. State(h, list) = b4 \o <<Shut>>
    BY DEF State, b0, b1, b2, b3
  <1> HIDE DEF b4
  <1> DEFINE b == b4 \o <<Shut>>
  <1>8. b4 \in Seq(Tokens) /\ Len(b4) \in Nat /\ Len(b4) >= 2
    BY <1>6 DEF Begun, Extended
  <1>9. b \in Seq(Tokens) /\ Len(b) = Len(b4) + 1 /\ b[Len(b4) + 1] = Shut
        /\ \A i \in 1..Len(b4) : b[i] = b4[i]
    <2> DEFINE z == Shut
    <2>1. z \in Tokens
      BY <1>0
    <2> HIDE DEF z
    <2>2. /\ b4 \o <<z>> \in Seq(Tokens) /\ Len(b4 \o <<z>>) = Len(b4) + 1
          /\ (b4 \o <<z>>)[Len(b4) + 1] = z
          /\ \A i \in 1..Len(b4) : (b4 \o <<z>>)[i] = b4[i]
      BY <1>8, <2>1
    <2> QED
      BY <2>2 DEF z
  <1> HIDE DEF b
  <1>10. /\ b[1].key = "f1LiveTimingState" /\ b[2].key = "open" /\ b[Len(b)].key = "close"
         /\ Len(b) \in Nat /\ Len(b) >= 3
    BY <1>0, <1>6, <1>8, <1>9 DEF Begun, Extended
  <1>11. \A i \in 3..(Len(b) - 1) : b[i].key \in topics
    BY <1>6, <1>8, <1>9 DEF Begun, Extended
  <1>12. ASSUME "RaceControlMessages" \in topics
         PROVE  /\ Len(b) >= 4 /\ b[Len(b) - 1].key = "RaceControlMessages"
                /\ b[Len(b) - 1].value = list
                /\ \A i \in 3..(Len(b) - 2) : b[i].key # "RaceControlMessages"
    <2>1. Len(b3) \in Nat /\ Len(b3) >= 2 /\ \A i \in 3..Len(b3) : b3[i].key \in t3
      BY <1>5 DEF Begun
    <2>2. Len(b4) = Len(b3) + 1 /\ b[Len(b) - 1] = Token("RaceControlMessages", list)
      BY <1>6, <1>8, <1>9, <1>12, <2>1 DEF Extended
    <2>3. \A i \in 3..(Len(b) - 2) : b[i] = b3[i] /\ i \in 3..Len(b3)
      BY <1>6, <1>8, <1>9, <1>12, <2>1, <2>2 DEF Extended
    <2>4. \A i \in 3..(Len(b) - 2) : b[i].key # "RaceControlMessages"
      BY <2>1, <2>3
    <2> QED
      BY <1>9, <2>1, <2>2, <2>4 DEF Token
  <1>13. \E T : b \in Seq(T)
    BY <1>9
  <1> QED
    BY <1>7, <1>10, <1>11, <1>12, <1>13 DEF b

Read(s, object, now) ==
    parseRaceControlMessages(
        parseDriverList(parseLapCount(parseTrackStatus(s, object), object), object), object, now)

(* A whole answer is read topic by topic, those found in it being those    *)
(* asked for.                                                              *)
LEMMA ParsedWhole ==
    ASSUME NEW h, NEW list, NEW s, NEW now, topics \subseteq Topics
    PROVE  \E object :
              /\ Parsed(s, State(h, list), now) = Read(s, object, now)
              /\ DOMAIN object \subseteq topics
              /\ "RaceControlMessages" \in topics =>
                   /\ "RaceControlMessages" \in DOMAIN object
                   /\ object.RaceControlMessages = list
  <1> DEFINE b == State(h, list)  n == Len(b)  RCM == "RaceControlMessages"
             found(t) == findValue(b, 2, n, t)
             object == Found(b, 2, n)
  <1>1. /\ n \in Nat /\ n >= 3
        /\ b[1].key = "f1LiveTimingState" /\ b[2].key = "open" /\ b[n].key = "close"
        /\ \A i \in 3..(n - 1) : b[i].key \in topics
    BY StateShape
  <1>2. RCM \in topics =>
           /\ n >= 4 /\ b[n - 1].key = RCM /\ b[n - 1].value = list
           /\ \A i \in 3..(n - 2) : b[i].key # RCM
    BY StateShape
  <1> HIDE DEF b, n
  <1>3. findValue(b, 1, n, "f1LiveTimingState") = 1
    <2>1. \A v : v \in 1..n /\ (\A i \in 1..n : b[i].key = "f1LiveTimingState" => v <= i) => v = 1
      BY <1>1
    <2> QED
      BY <1>1, <2>1, FindValue
  <1>4. findValue(b, 2, n, "close") = n
    <2>1. \A i \in 2..n : b[i].key = "close" => i = n
      BY <1>1 DEF Topics
    <2> QED
      BY <1>1, <2>1, FindValue
  <1>5. findObjectEnd(b, 2) = n
    BY <1>1, <1>4 DEF findObjectEnd, n
  <1>6. Parsed(s, b, now) = Read(s, object, now)
    <2>1. Len(b) = n /\ 1 + 1 = 2 /\ n # 0 /\ 2 # 1 /\ ~(2 > n)
      BY <1>1 DEF n
    <2> HIDE DEF object
    <2>2. Found(b, 2, n) = object
      BY DEF object
    <2> QED
      BY <1>1, <1>3, <1>5, <2>1, <2>2 DEF Parsed, Read
  <1>7. DOMAIN object = {u \in Topics : found(u) # 0}
    BY DEF Found
  <1>8. ASSUME NEW t \in DOMAIN object PROVE t \in topics
    <2>1. t \in Topics /\ found(t) \in 2..n /\ b[found(t)].key = t
      BY <1>1, <1>7, FindValue
    <2>2. t # "open" /\ t # "close"
      BY <2>1 DEF Topics
    <2>3. found(t) \in 3..(n - 1)
      BY <1>1, <2>1, <2>2
    <2> QED
      BY <1>1, <2>1, <2>3
  <1>9. ASSUME RCM \in topics PROVE RCM \in DOMAIN object /\ object[RCM] = list
    <2>1. RCM \in Topics /\ n - 1 \in 2..n
      BY <1>1, <1>2, <1>9 DEF Topics
    <2>2. found(RCM) \in 2..n /\ b[found(RCM)].key = RCM
      BY <1>1, <1>2, <1>9, <2>1, FindValue
    <2>3. found(RCM) = n - 1
      <3>1. \A i \in 2..n : b[i].key = RCM => i = n - 1
        BY <1>1, <1>2, <1>9 DEF RCM
      <3> QED
        BY <2>2, <3>1
    <2>4. found(RCM) # 0
      BY <1>1, <1>2, <1>9, <2>3
    <2>5. RCM \in DOMAIN object
      BY <1>7, <2>1, <2>4
    <2>6. object[RCM] = b[found(RCM)].value
      BY <2>1, <2>4 DEF Found
    <2> QED
      BY <1>2, <1>9, <2>3, <2>5, <2>6
  <1> QED
    BY <1>6, <1>8, <1>9 DEF b

(* One cut short, or with no session, tells nothing of the topics.         *)
LEMMA ParsedCut ==
    ASSUME NEW h, NEW list, NEW s, NEW now, topics \subseteq Topics,
           NEW n \in 0..(Len(State(h, list)) - 1)
    PROVE  Parsed(s, SubSeq(State(h, list), 1, n), now) = s
  <1> DEFINE b == State(h, list)  cut == SubSeq(b, 1, n)
  <1>1. /\ Len(b) \in Nat /\ Len(b) >= 3 /\ \E T : b \in Seq(T)
        /\ b[1].key = "f1LiveTimingState" /\ b[2].key = "open"
        /\ \A i \in 3..(Len(b) - 1) : b[i].key \in topics
    BY StateShape
  <1> HIDE DEF b
  <1>2. n \in Nat /\ n < Len(b)
    BY <1>1 DEF b
  <1>3. Len(cut) = n /\ \A i \in 1..n : cut[i] = b[i]
    BY <1>1, <1>2
  <1> HIDE DEF cut
  <1>4. findValue(cut, 1, n, "f1LiveTimingState") = IF n = 0 THEN 0 ELSE 1
    <2>1. \A v : v \in 1..n /\ (\A i \in 1..n : cut[i].key = "f1LiveTimingState" => v <= i) => v = 1
      BY <1>1, <1>2, <1>3
    <2> QED
      BY <1>1, <1>2, <1>3, <2>1, FindValue
  <1>5. ASSUME n >= 2
        PROVE  cut[2].key = "open" /\ findObjectEnd(cut, 2) = 0
    <2>1. \A i \in 2..n : cut[i].key # "close"
      BY <1>1, <1>2, <1>3 DEF Topics
    <2>2. findValue(cut, 2, n, "close") = 0
      BY <1>2, <2>1, FindValue
    <2> QED
      BY <1>1, <1>2, <1>3, <1>5, <2>2 DEF findObjectEnd
  <1>6. CASE n = 0
    BY <1>3, <1>4, <1>6 DEF Parsed, cut, b
  <1>7. CASE n = 1
    BY <1>3, <1>4, <1>7 DEF Parsed, cut, b
  <1>8. CASE n >= 2
    <2>1. Parsed(s, cut, now) = s
      BY <1>3, <1>4, <1>5, <1>8 DEF Parsed
    <2> QED
      BY <2>1 DEF cut, b
  <1> QED
    BY <1>2, <1>6, <1>7, <1>8

LEMMA ParsedNull ==
    ASSUME NEW s, NEW now
    PROVE  Parsed(s, NoState, now) = NoSession
  <1>1. Len(NoState) = 2 /\ NoState[1].key = "f1LiveTimingState" /\ NoState[2].key = "null"
    BY DEF NoState, Token
  <1>2. findValue(NoState, 1, 2, "f1LiveTimingState") = 1
    BY <1>1, FindValue
  <1> QED
    BY <1>1, <1>2 DEF Parsed

------------------------------------------------------------------------------
(* The table of blue flags.                                                *)
Table == [1..MaxDrivers -> [racingNumber : Drivers \union {Nobody}, lastSeen : Nat]]

Flying(blue) == {blue[i].racingNumber : i \in 1..MaxDrivers} \ {Nobody}

(* No car has two slots.                                                   *)
Once(blue) ==
    \A i, j \in 1..MaxDrivers :
        blue[i].racingNumber = blue[j].racingNumber /\ i # j => blue[i].racingNumber = Nobody

LEMMA FirstOne ==
    ASSUME NEW slots, slots \subseteq 1..MaxDrivers, slots # {}
    PROVE  First(slots) \in slots
  <1>1. slots \subseteq Nat
    OBVIOUS
  <1>2. \E i \in slots : \A j \in slots : i <= j
    BY <1>1, LeastNatural
  <1> QED
    BY <1>2 DEF First

LEMMA RaisedTable ==
    ASSUME NEW blue \in Table, Once(blue), NEW driver \in Drivers, NEW now \in Nat
    PROVE  /\ Raised(blue, driver, now) \in Table /\ Once(Raised(blue, driver, now))
           /\ Flying(Raised(blue, driver, now)) \subseteq Flying(blue) \union {driver}
  <1> DEFINE own == Slots(blue, driver)  slots == IF own # {} THEN own ELSE Slots(blue, Nobody)
             one == [racingNumber |-> driver, lastSeen |-> now]
             new == [blue EXCEPT ![First(slots)] = one]
  <1>1. CASE slots = {}
    BY <1>1 DEF Raised
  <1>2. CASE slots # {}
    <2>1. First(slots) \in slots /\ First(slots) \in 1..MaxDrivers
      BY <1>2, FirstOne DEF Slots
    <2>2. PICK f \in 1..MaxDrivers : f = First(slots) /\ f \in slots
      BY <2>1
    <2>3. Raised(blue, driver, now) = [blue EXCEPT ![f] = one]
      BY <1>2, <2>2 DEF Raised
    <2>4. one \in [racingNumber : Drivers \union {Nobody}, lastSeen : Nat] /\ one.racingNumber = driver
      OBVIOUS
    <2>5. blue[f].racingNumber = driver \/ own = {}
      BY <2>2 DEF Slots
    <2>6. \A i \in 1..MaxDrivers : i # f => blue[i].racingNumber # driver
      BY <2>5, SessionAssumption DEF Slots, Once
    <2> HIDE DEF one, slots, own
    <2> DEFINE raised == [blue EXCEPT ![f] = one]
    <2>7. raised \in Table /\ raised[f] = one /\ \A i \in 1..MaxDrivers : i # f => raised[i] = blue[i]
      BY <2>2, <2>4 DEF Table
    <2> HIDE DEF raised
    <2>8. Once(raised)
      BY <2>4, <2>6, <2>7 DEF Once
    <2>9. Flying(raised) \subseteq Flying(blue) \union {driver}
      BY <2>4, <2>7 DEF Flying
    <2> QED
      BY <2>3, <2>7, <2>8, <2>9 DEF raised
  <1> QED
    BY <1>1, <1>2

LEMMA LoweredTable ==
    ASSUME NEW blue \in Table, Once(blue), NEW driver \in Drivers
    PROVE  /\ Lowered(blue, driver) \in Table /\ Once(Lowered(blue, driver))
           /\ Flying(Lowered(blue, driver)) \subseteq Flying(blue) \ {driver}
  <1> DEFINE own == Slots(blue, driver)
  <1>1. CASE own = {}
    <2>1. driver \notin Flying(blue)
      BY <1>1 DEF Slots, Flying
    <2> QED
      BY <1>1, <2>1 DEF Lowered
  <1>2. CASE own # {}
    <2>1. PICK f \in 1..MaxDrivers : f = First(own) /\ f \in own
      BY <1>2, FirstOne DEF Slots
    <2>2. blue[f].racingNumber = driver /\ driver # Nobody
      BY <2>1, SessionAssumption DEF Slots
    <2>3. Lowered(blue, driver) = [blue EXCEPT ![f].racingNumber = Nobody]
      BY <1>2, <2>1 DEF Lowered
    <2>4. \A i \in 1..MaxDrivers : i # f => blue[i].racingNumber # driver
      BY <2>2 DEF Once
    <2> DEFINE low == [blue EXCEPT ![f].racingNumber = Nobody]
    <2>5. /\ low \in Table /\ low[f].racingNumber = Nobody
          /\ \A i \in 1..MaxDrivers : i # f => low[i] = blue[i]
      BY DEF Table
    <2> HIDE DEF low
    <2>6. Once(low)
      BY <2>5 DEF Once
    <2>7. Flying(low) \subseteq Flying(blue) \ {driver}
      BY <2>4, <2>5 DEF Flying
    <2> QED
      BY <2>3, <2>5, <2>6, <2>7 DEF low
  <1> QED
    BY <1>1, <1>2

LEMMA AgedTable ==
    ASSUME NEW blue \in Table, Once(blue), NEW now \in Nat
    PROVE  /\ Aged(blue, now) \in Table /\ Once(Aged(blue, now))
           /\ Flying(Aged(blue, now)) \subseteq Flying(blue)
  <1> DEFINE aged == Aged(blue, now)
  <1>1. \A i \in 1..MaxDrivers :
           aged[i] = blue[i] \/ aged[i] = [blue[i] EXCEPT !.racingNumber = Nobody]
    BY DEF Aged
  <1>2. \A i \in 1..MaxDrivers :
           /\ aged[i] \in [racingNumber : Drivers \union {Nobody}, lastSeen : Nat]
           /\ aged[i].racingNumber \in {blue[i].racingNumber, Nobody}
    BY <1>1 DEF Table
  <1>3. aged \in Table
    BY <1>2 DEF Table, Aged
  <1> HIDE DEF aged
  <1>4. Once(aged) /\ Flying(aged) \subseteq Flying(blue)
    BY <1>2 DEF Once, Flying
  <1> QED
    BY <1>3, <1>4 DEF aged

LEMMA NoFlagsTable ==
    NoBlueFlags \in Table /\ Once(NoBlueFlags) /\ Flying(NoBlueFlags) = {}
  BY DEF NoBlueFlags, Table, Once, Flying

------------------------------------------------------------------------------
(* Messages of a list are keyed in order, and a flag is a car's.           *)
Messages ==
    [key : Nat, flag : {"BLUE", "CLEAR", "OTHER"}, driver : Drivers \union {Nobody}]

InOrder(list) ==
    /\ list \in Seq(Messages)
    /\ \A k \in 1..Len(list) :
         list[k].key = k - 1 /\ (list[k].flag # "OTHER" => list[k].driver \in Drivers)

SaidIn(list, top, d) ==
    {k \in 1..top : list[k].driver = d /\ list[k].flag \in {"BLUE", "CLEAR"}}

(* Every flag flying is a blue one no later message up to top lowers.      *)
Latest(list, top, blue) ==
    \A d \in Flying(blue) :
        \E k \in SaidIn(list, top, d) :
            list[k].flag = "BLUE" /\ \A j \in SaidIn(list, top, d) : j <= k

(* (The last only where it is sure whose messages were read.)              *)
GoodTable(sure, list, top, blue) ==
    blue \in Table /\ Once(blue) /\ (sure => Latest(list, top, blue))

LEMMA OneMessage ==
    ASSUME NEW list, InOrder(list), NEW top \in Nat, top + 1 <= Len(list),
           NEW sure, NEW blue, GoodTable(sure, list, top, blue), NEW now \in Nat
    PROVE  GoodTable(sure, list, top + 1, Applied(blue, list[top + 1], now))
  <1> DEFINE m == list[top + 1]  n == top + 1
  <1>1. /\ m.flag \in {"BLUE", "CLEAR", "OTHER"}
        /\ m.flag # "OTHER" => m.driver \in Drivers
    <2>1. Len(list) \in Nat /\ top + 1 \in 1..Len(list)
      BY DEF InOrder
    <2>2. m \in Messages
      BY <2>1 DEF InOrder
    <2> QED
      BY <2>1, <2>2 DEF InOrder, Messages
  <1>2. n \in Nat /\ n = top + 1 /\ m = list[n]
    OBVIOUS
  <1>3. blue \in Table /\ Once(blue) /\ (sure => Latest(list, top, blue))
    BY DEF GoodTable
  <1> HIDE DEF m, n
  <1>4. \A d : SaidIn(list, top, d) \subseteq SaidIn(list, n, d)
    BY <1>2 DEF SaidIn
  <1>5. \A d : (m.flag = "OTHER" \/ m.driver # d) => SaidIn(list, n, d) = SaidIn(list, top, d)
    BY <1>2 DEF SaidIn
  <1>6. \A d : \A k \in SaidIn(list, n, d) : k <= n
    BY <1>2 DEF SaidIn
  <1>7. CASE m.flag = "OTHER"
    <2>1. Applied(blue, m, now) = blue
      BY <1>7 DEF Applied
    <2>2. sure => Latest(list, n, blue)
      BY <1>3, <1>5, <1>7 DEF Latest
    <2> QED
      BY <1>3, <2>1, <2>2 DEF GoodTable, m, n
  <1>8. CASE m.flag = "BLUE"
    <2> DEFINE up == Raised(blue, m.driver, now)
    <2>1. Applied(blue, m, now) = up
      BY <1>8 DEF Applied
    <2>2. m.driver \in Drivers
      BY <1>1, <1>8
    <2>3. up \in Table /\ Once(up) /\ Flying(up) \subseteq Flying(blue) \union {m.driver}
      BY <1>3, <2>2, RaisedTable
    <2> HIDE DEF up
    <2>4. n \in SaidIn(list, n, m.driver)
      BY <1>2, <1>8 DEF SaidIn
    <2>5. sure => Latest(list, n, up)
      <3> SUFFICES ASSUME sure, NEW d \in Flying(up)
                   PROVE  \E k \in SaidIn(list, n, d) :
                            list[k].flag = "BLUE" /\ \A j \in SaidIn(list, n, d) : j <= k
        BY DEF Latest
      <3>1. CASE d = m.driver
        BY <1>2, <1>6, <1>8, <2>4, <3>1
      <3>2. CASE d # m.driver
        BY <1>3, <1>5, <2>3, <3>2 DEF Latest
      <3> QED
        BY <3>1, <3>2
    <2> QED
      BY <2>1, <2>3, <2>5 DEF GoodTable, m, n
  <1>9. CASE m.flag = "CLEAR"
    <2> DEFINE down == Lowered(blue, m.driver)
    <2>1. Applied(blue, m, now) = down
      BY <1>9 DEF Applied
    <2>2. m.driver \in Drivers
      BY <1>1, <1>9
    <2>3. down \in Table /\ Once(down) /\ Flying(down) \subseteq Flying(blue) \ {m.driver}
      BY <1>3, <2>2, LoweredTable
    <2> HIDE DEF down
    <2>4. sure => Latest(list, n, down)
      BY <1>3, <1>5, <2>3 DEF Latest
    <2> QED
      BY <2>1, <2>3, <2>4 DEF GoodTable, m, n
  <1> QED
    BY <1>1, <1>7, <1>8, <1>9

(* What Flagged computes, message by message.                              *)
FlagsAfter(f, blue, list, last, now, n) ==
    f = [i \in 0..n |->
           IF i = 0 THEN blue
           ELSE IF list[i].key <= last THEN f[i - 1]
           ELSE Applied(f[i - 1], list[i], now)]

LEMMA FlagsAfterExists ==
    ASSUME NEW blue, NEW list, NEW last, NEW now, NEW n \in Nat
    PROVE  \E f : FlagsAfter(f, blue, list, last, now, n)
  <1> DEFINE S == {m \in Nat : \E f : FlagsAfter(f, blue, list, last, now, m)}
  <1>1. 0 \in S
    <2>1. FlagsAfter([i \in 0..0 |-> blue], blue, list, last, now, 0)
      BY DEF FlagsAfter
    <2> QED
      BY <2>1
  <1>2. ASSUME NEW m \in Nat, m \in S PROVE m + 1 \in S
    <2>1. PICK f : FlagsAfter(f, blue, list, last, now, m)
      BY <1>2
    <2> DEFINE g == [i \in 0..(m + 1) |->
                       IF i <= m THEN f[i]
                       ELSE IF list[m + 1].key <= last THEN f[m]
                       ELSE Applied(f[m], list[m + 1], now)]
               h == [i \in 0..(m + 1) |->
                       IF i = 0 THEN blue
                       ELSE IF list[i].key <= last THEN g[i - 1]
                       ELSE Applied(g[i - 1], list[i], now)]
    <2>2. \A i \in 0..(m + 1) : g[i] = h[i]
      <3> SUFFICES ASSUME NEW i \in 0..(m + 1) PROVE g[i] = h[i]
        OBVIOUS
      <3>1. CASE i = m + 1
        <4>1. i # 0 /\ i - 1 = m /\ g[m] = f[m] /\ ~(i <= m)
          BY <3>1
        <4> QED
          BY <3>1, <4>1
      <3>2. CASE i # m + 1
        <4>1. i \in 0..m /\ i <= m /\ (i # 0 => i - 1 \in 0..m /\ i - 1 <= m)
          BY <3>2
        <4>2. g[i] = f[i] /\ (i # 0 => g[i - 1] = f[i - 1])
          BY <4>1
        <4> HIDE DEF g
        <4> QED
          BY <2>1, <4>1, <4>2 DEF FlagsAfter
      <3> QED
        BY <3>1, <3>2
    <2>3. g = h
      BY <2>2
    <2>4. FlagsAfter(g, blue, list, last, now, m + 1)
      BY <2>3 DEF FlagsAfter
    <2> QED
      BY <2>4
  <1> HIDE DEF S
  <1>3. n \in S
    BY <1>1, <1>2, SetInduction
  <1> QED
    BY <1>3 DEF S

LEMMA FlaggedSteps ==
    ASSUME NEW blue, NEW list, NEW last, NEW now, NEW n \in Nat, n = Len(list)
    PROVE  \E f : /\ f[0] = blue /\ Flagged(blue, list, last, now) = f[n]
                 /\ \A i \in 1..n :
                      f[i] = IF list[i].key <= last THEN f[i - 1]
                             ELSE Applied(f[i - 1], list[i], now)
  <1> DEFINE f == CHOOSE g : FlagsAfter(g, blue, list, last, now, n)
  <1>1. FlagsAfter(f, blue, list, last, now, n)
    BY FlagsAfterExists
  <1>2. Flagged(blue, list, last, now) = f[n]
    BY DEF Flagged, FlagsAfter
  <1> HIDE DEF f
  <1>3. f[0] = blue
    BY <1>1 DEF FlagsAfter
  <1>4. \A i \in 1..n : f[i] = IF list[i].key <= last THEN f[i - 1]
                              ELSE Applied(f[i - 1], list[i], now)
    BY <1>1 DEF FlagsAfter
  <1> QED
    BY <1>2, <1>3, <1>4

(* The number of messages of a list that are accounted for, once the first *)
(* n were read after polls up to key last.                                 *)
Accounted(last, n) == IF n > last + 1 THEN n ELSE last + 1

(* A list read as far as n leaves every flag the latest word on its car.   *)
LEMMA FlaggedLatest ==
    ASSUME NEW full, InOrder(full), NEW list, NEW n \in Nat, n = Len(list), n <= Len(full),
           \A i \in 1..n : list[i] = full[i],
           NEW last \in Nat \union {-1},
           NEW sure, NEW blue, GoodTable(sure, full, last + 1, blue), NEW now \in Nat
    PROVE  GoodTable(sure, full, Accounted(last, n), Flagged(blue, list, last, now))
  <1>1. PICK f : /\ f[0] = blue /\ Flagged(blue, list, last, now) = f[n]
                 /\ \A i \in 1..n :
                      f[i] = IF list[i].key <= last THEN f[i - 1]
                             ELSE Applied(f[i - 1], list[i], now)
    BY FlaggedSteps
  <1> DEFINE S == {i \in Nat : i <= n => GoodTable(sure, full, Accounted(last, i), f[i])}
  <1>2. 0 \in S
    <2>1. Accounted(last, 0) = last + 1
      BY DEF Accounted
    <2> QED
      BY <1>1, <2>1
  <1>3. ASSUME NEW i \in Nat, i \in S PROVE i + 1 \in S
    <2> SUFFICES ASSUME i + 1 <= n
                 PROVE  GoodTable(sure, full, Accounted(last, i + 1), f[i + 1])
      OBVIOUS
    <2>1. GoodTable(sure, full, Accounted(last, i), f[i])
      BY <1>3
    <2>2. Len(full) \in Nat /\ i + 1 \in 1..n /\ i + 1 \in 1..Len(full) /\ (i + 1) - 1 = i
      BY DEF InOrder
    <2>3. list[i + 1] = full[i + 1] /\ full[i + 1].key = i
      BY <2>2 DEF InOrder
    <2>4. f[i + 1] = IF i <= last THEN f[i] ELSE Applied(f[i], full[i + 1], now)
      BY <1>1, <2>2, <2>3
    <2>5. CASE i <= last
      <3>1. Accounted(last, i + 1) = Accounted(last, i)
        BY <2>5 DEF Accounted
      <3> QED
        BY <2>1, <2>4, <2>5, <3>1
    <2>6. CASE ~(i <= last)
      <3>1. Accounted(last, i + 1) = i + 1 /\ Accounted(last, i) = i
        BY <2>6 DEF Accounted
      <3>2. GoodTable(sure, full, i + 1, Applied(f[i], full[i + 1], now))
        BY <2>1, <2>2, <3>1, OneMessage
      <3> QED
        BY <2>4, <2>6, <3>1, <3>2
    <2> QED
      BY <2>5, <2>6
  <1> HIDE DEF S
  <1>4. n \in S
    BY <1>2, <1>3, SetInduction
  <1> QED
    BY <1>1, <1>4 DEF S

LEMMA HighestKey ==
    ASSUME NEW list, NEW n \in Nat, DOMAIN list = 1..n, \A i \in 1..n : list[i].key = i - 1,
           NEW last \in Nat \union {-1}
    PROVE  Highest(list, last) = Accounted(last, n) - 1
  <1> DEFINE keys == {last} \union {list[i].key : i \in DOMAIN list}  top == Accounted(last, n) - 1
  <1>1. top \in keys
    <2>1. CASE n > last + 1
      <3>1. n \in 1..n /\ top = n - 1 /\ list[n].key = n - 1
        BY <2>1 DEF Accounted
      <3> QED
        BY <3>1
    <2>2. CASE ~(n > last + 1)
      BY <2>2 DEF Accounted
    <2> QED
      BY <2>1, <2>2
  <1>2. top \in Int /\ \A k \in keys : k \in Int /\ k <= top
    BY DEF Accounted
  <1>3. Highest(list, last) = CHOOSE k \in keys : \A j \in keys : j <= k
    BY DEF Highest
  <1> HIDE DEF keys, top
  <1>4. (CHOOSE k \in keys : \A j \in keys : j <= k) = top
    <2>1. \A k \in keys : (\A j \in keys : j <= k) => k = top
      BY <1>1, <1>2
    <2> QED
      BY <1>1, <1>2, <2>1
  <1> QED
    BY <1>3, <1>4 DEF top

------------------------------------------------------------------------------
(* The entries of a host's list, whole or with something else at its end.  *)
LEMMA EntriesRead ==
    ASSUME NEW full, InOrder(full), NEW list,
           list = full \/ (full # <<>> /\ list = [full EXCEPT ![Len(full)] = Garbled])
    PROVE  \E n \in Nat :
              /\ n = IF list = full THEN Len(full) ELSE Len(full) - 1
              /\ Len(entries(list)) = n /\ DOMAIN entries(list) = 1..n
              /\ \A i \in 1..n : entries(list)[i] = full[i]
  <1> DEFINE bad == {i \in DOMAIN list : list[i] = Garbled}  L == Len(full)
  <1>1. full \in Seq(Messages) /\ L \in Nat /\ DOMAIN full = 1..L
        /\ \A i \in 1..L : full[i] \in Messages /\ full[i] # Garbled
    <2>1. Garbled \notin Messages
      BY SessionAssumption DEF Messages
    <2>2. full \in Seq(Messages) /\ L \in Nat /\ DOMAIN full = 1..L
          /\ \A i \in 1..L : full[i] \in Messages
      BY DEF InOrder
    <2> QED
      BY <2>1, <2>2
  <1>2. CASE list = full
    <2>1. bad = {}
      BY <1>1, <1>2
    <2>2. entries(list) = full
      BY <1>2, <2>1 DEF entries
    <2> QED
      BY <1>1, <1>2, <2>2
  <1>3. CASE full # <<>> /\ list = [full EXCEPT ![L] = Garbled]
    <2>1. L >= 1 /\ L - 1 \in Nat
      BY <1>1, <1>3
    <2>2. DOMAIN list = 1..L /\ list[L] = Garbled /\ \A i \in 1..(L - 1) : list[i] = full[i]
      BY <1>1, <1>3, <2>1
    <2>3. list # full
      BY <1>1, <2>1, <2>2
    <2>4. bad = {L}
      BY <1>1, <2>1, <2>2
    <2>5. (CHOOSE i \in bad : \A j \in bad : i <= j) = L
      BY <1>1, <2>4
    <2>6. entries(list) = SubSeq(list, 1, L - 1)
      BY <2>4, <2>5 DEF entries
    <2>7. list \in Seq(Messages \union {Garbled}) /\ Len(list) = L
      BY <1>1, <1>3
    <2> DEFINE e == SubSeq(list, 1, L - 1)
    <2>8. Len(e) = L - 1 /\ DOMAIN e = 1..(L - 1) /\ \A i \in 1..(L - 1) : e[i] = list[i]
      BY <1>1, <2>1, <2>7
    <2> HIDE DEF e
    <2>9. entries(list) = e
      BY <2>6 DEF e
    <2> QED
      BY <2>1, <2>2, <2>3, <2>8, <2>9
  <1> QED
    BY <1>2, <1>3

(* The other topics leave the flags and the last key alone.                *)
Lists(s, object) == parseDriverList(parseLapCount(parseTrackStatus(s, object), object), object)

Fields == DOMAIN NoSession

LEMMA ListsKeep ==
    ASSUME NEW s, DOMAIN s = Fields, NEW object
    PROVE  LET p == Lists(s, object)
           IN  /\ DOMAIN p = Fields /\ p.blueFlags = s.blueFlags
               /\ p.lastMessageIndex = s.lastMessageIndex /\ p.blueFlagTla = s.blueFlagTla
               /\ "DriverList" \notin DOMAIN object => p.drivers = s.drivers
  <1> DEFINE track == parseTrackStatus(s, object)  laps == parseLapCount(track, object)
             p == Lists(s, object)
             Same(a, b) == /\ DOMAIN a = Fields /\ a.blueFlags = b.blueFlags
                           /\ a.lastMessageIndex = b.lastMessageIndex
                           /\ a.blueFlagTla = b.blueFlagTla
  <1>1. Same(track, s) /\ track.drivers = s.drivers
    BY DEF parseTrackStatus, Fields, NoSession
  <1>2. p = parseDriverList(laps, object)
    BY DEF Lists
  <1> HIDE DEF track, p
  <1>3. Same(laps, track) /\ laps.drivers = track.drivers
    BY <1>1 DEF parseLapCount, Fields, NoSession
  <1> HIDE DEF laps
  <1>4. Same(p, laps)
    BY <1>2, <1>3 DEF parseDriverList, Fields, NoSession
  <1>5. "DriverList" \notin DOMAIN object => p.drivers = laps.drivers
    BY <1>2, <1>3 DEF parseDriverList, Fields, NoSession
  <1> QED
    BY <1>1, <1>3, <1>4, <1>5 DEF p

(* t is s after n messages of a list: every flag is the latest word, and   *)
(* the last key no further than was read.                                  *)
After(s, t, sure, full, n) ==
    /\ DOMAIN t = Fields
    /\ t.lastMessageIndex \in {-1, Accounted(s.lastMessageIndex, n) - 1}
    /\ GoodTable(sure, full, t.lastMessageIndex + 1, t.blueFlags)
    /\ n = 0 => /\ t.lastMessageIndex = s.lastMessageIndex
                /\ Flying(t.blueFlags) \subseteq Flying(s.blueFlags)

LEMMA MessagesRead ==
    ASSUME NEW full, InOrder(full), NEW list,
           list = full \/ (full # <<>> /\ list = [full EXCEPT ![Len(full)] = Garbled]),
           NEW n \in Nat, n = IF list = full THEN Len(full) ELSE Len(full) - 1,
           NEW s, DOMAIN s = Fields, s.lastMessageIndex \in Nat \union {-1},
           NEW sure, GoodTable(sure, full, s.lastMessageIndex + 1, s.blueFlags),
           NEW object, "RaceControlMessages" \in DOMAIN object,
           object.RaceControlMessages = list, NEW now \in Nat
    PROVE  After(s, parseRaceControlMessages(s, object, now), sure, full, n)
  <1> DEFINE messages == entries(object.RaceControlMessages)
             last == s.lastMessageIndex
             restarted == \E i \in DOMAIN messages : messages[i].key < last
             read == IF restarted THEN NoBlueFlags ELSE Flagged(s.blueFlags, messages, last, now)
             blue == Aged(read, now)
             highest == IF restarted THEN -1 ELSE Highest(messages, last)
             t == parseRaceControlMessages(s, object, now)
  <1>1. t = [s EXCEPT !.lastMessageIndex = highest, !.blueFlags = blue,
                      !.blueFlagTla = Tla(blue, s.drivers)]
    BY DEF parseRaceControlMessages
  <1>2. Len(messages) = n /\ DOMAIN messages = 1..n /\ \A i \in 1..n : messages[i] = full[i]
    BY EntriesRead
  <1>3. Len(full) \in Nat /\ n <= Len(full) /\ \A i \in 1..n : full[i].key = i - 1
    BY DEF InOrder
  <1> HIDE DEF messages
  <1>4. ~restarted => /\ GoodTable(sure, full, Accounted(last, n), read)
                      /\ highest = Accounted(last, n) - 1
                      /\ n = 0 => read = s.blueFlags
    <2>1. GoodTable(sure, full, Accounted(last, n), Flagged(s.blueFlags, messages, last, now))
      BY <1>2, <1>3, FlaggedLatest
    <2>2. Highest(messages, last) = Accounted(last, n) - 1
      <3>1. \A i \in 1..n : messages[i].key = i - 1
        BY <1>2, <1>3
      <3> QED
        BY <1>2, <3>1, HighestKey
    <2>3. n = 0 => Flagged(s.blueFlags, messages, last, now) = s.blueFlags
      BY <1>2, FlaggedSteps
    <2> QED
      BY <2>1, <2>2, <2>3
  <1>5. restarted => GoodTable(sure, full, 0, read) /\ highest = -1
    BY NoFlagsTable DEF GoodTable, Latest
  <1>6. n = 0 => ~restarted
    BY <1>2
  <1> HIDE DEF read, restarted, highest
  <1>7. highest \in {-1, Accounted(last, n) - 1} /\ GoodTable(sure, full, highest + 1, read)
    <2>1. (-1) + 1 = 0 /\ (Accounted(last, n) - 1) + 1 = Accounted(last, n)
      BY DEF Accounted
    <2> QED
      BY <1>4, <1>5, <2>1
  <1>8. n = 0 => highest = last /\ read = s.blueFlags
    BY <1>4, <1>6 DEF Accounted
  <1>9. GoodTable(sure, full, highest + 1, blue) /\ Flying(blue) \subseteq Flying(read)
    <2>1. blue \in Table /\ Once(blue) /\ Flying(blue) \subseteq Flying(read)
      BY <1>7, AgedTable DEF GoodTable
    <2> HIDE DEF blue
    <2> QED
      BY <1>7, <2>1 DEF GoodTable, Latest
  <1> HIDE DEF blue, t
  <1>10. DOMAIN t = Fields /\ t.lastMessageIndex = highest /\ t.blueFlags = blue
    BY <1>1 DEF Fields, NoSession
  <1> QED
    BY <1>7, <1>8, <1>9, <1>10 DEF t, After

------------------------------------------------------------------------------
(* What a session knows of the lists of the hosts.                         *)
Silent(h, read) == \A o \in Hosts \ {h} : read[o] = 0

Fed(lists, read) ==
    /\ lists \in [Hosts -> Seq(Messages)] /\ \A h \in Hosts : InOrder(lists[h])
    /\ read \in [Hosts -> Nat] /\ \A h \in Hosts : read[h] <= Len(lists[h])

(* What a session knows of the lists when it was told of one only.         *)
Told(s, lists, read) ==
    /\ DOMAIN s = Fields /\ s.lastMessageIndex \in Nat \union {-1}
    /\ s.blueFlags \in Table /\ Once(s.blueFlags)
    /\ \A h \in Hosts : Silent(h, read) =>
         /\ s.lastMessageIndex + 1 <= read[h]
         /\ Latest(lists[h], s.lastMessageIndex + 1, s.blueFlags)

LEMMA NothingTold ==
    ASSUME NEW lists, NEW read, Fed(lists, read)
    PROVE  Told(NoSession, lists, read)
  <1>1. /\ NoSession.lastMessageIndex = -1 /\ NoSession.blueFlags = NoBlueFlags
        /\ DOMAIN NoSession = Fields
    BY DEF NoSession, Fields
  <1>2. \A h \in Hosts : read[h] \in Nat
    BY DEF Fed
  <1> QED
    BY <1>1, <1>2, NoFlagsTable DEF Told, Latest

(* Race control speaks: nothing read before changes.                       *)
LEMMA MessageAdds ==
    ASSUME NEW h \in Hosts, NEW flag \in {"BLUE", "CLEAR", "OTHER"},
           NEW driver \in Drivers \union {Nobody}, flag # "OTHER" => driver \in Drivers,
           NEW lists, NEW read, Fed(lists, read), NEW s, Told(s, lists, read),
           NEW lists2,
           lists2 = [lists EXCEPT ![h] =
                        Append(@, [key |-> Len(@), flag |-> flag, driver |-> driver])]
    PROVE  Fed(lists2, read) /\ Told(s, lists2, read)
  <1> DEFINE L == Len(lists[h])  m == [key |-> L, flag |-> flag, driver |-> driver]
             more == Append(lists[h], m)
  <1>1. lists[h] \in Seq(Messages) /\ L \in Nat /\ InOrder(lists[h])
    BY DEF Fed
  <1>2. m \in Messages /\ m.key = L /\ (m.flag # "OTHER" => m.driver \in Drivers)
    BY <1>1 DEF Messages
  <1>3. lists2 = [lists EXCEPT ![h] = more]
    OBVIOUS
  <1> HIDE DEF m
  <1>4. /\ more \in Seq(Messages) /\ Len(more) = L + 1 /\ more[L + 1] = m
        /\ \A k \in 1..L : more[k] = lists[h][k]
    BY <1>1, <1>2
  <1> HIDE DEF more, L
  <1>5. InOrder(more)
    <2> SUFFICES ASSUME NEW k \in 1..Len(more)
                 PROVE  more[k].key = k - 1 /\ (more[k].flag # "OTHER" => more[k].driver \in Drivers)
      BY <1>4 DEF InOrder
    <2>1. CASE k = L + 1
      BY <1>1, <1>2, <1>4, <2>1
    <2>2. CASE k # L + 1
      <3>1. k \in 1..L /\ more[k] = lists[h][k]
        BY <1>1, <1>4, <2>2
      <3> QED
        BY <1>1, <3>1 DEF InOrder, L
    <2> QED
      BY <2>1, <2>2
  <1>6. /\ lists2 \in [Hosts -> Seq(Messages)] /\ lists2[h] = more
        /\ \A o \in Hosts : o # h => lists2[o] = lists[o]
    BY <1>3, <1>4 DEF Fed
  <1>7. Fed(lists2, read)
    <2>1. ASSUME NEW o \in Hosts PROVE InOrder(lists2[o]) /\ read[o] <= Len(lists2[o])
      <3>1. CASE o = h
        <4>1. read[h] \in Nat /\ read[h] <= L
          BY DEF Fed, L
        <4>2. lists2[o] = more /\ Len(more) = L + 1
          BY <1>4, <1>6, <3>1
        <4>3. read[o] <= L + 1
          BY <1>1, <3>1, <4>1
        <4> QED
          BY <1>5, <4>2, <4>3
      <3>2. CASE o # h
        BY <1>6, <3>2 DEF Fed
      <3> QED
        BY <3>1, <3>2
    <2> QED
      BY <1>6, <2>1 DEF Fed
  <1>8. Told(s, lists2, read)
    <2>1. ASSUME NEW o \in Hosts, Silent(o, read)
          PROVE  Latest(lists2[o], s.lastMessageIndex + 1, s.blueFlags)
      <3>1. Latest(lists[o], s.lastMessageIndex + 1, s.blueFlags)
        BY <2>1 DEF Told
      <3>2. CASE o = h
        <4> DEFINE top == s.lastMessageIndex + 1
        <4>1. top \in Nat /\ top <= L
          BY <1>1, <2>1, <3>2 DEF Told, Fed, L
        <4> HIDE DEF top
        <4>2. \A k \in 1..top : lists2[o][k] = lists[o][k]
          BY <1>1, <1>4, <1>6, <3>2, <4>1
        <4>3. \A d : SaidIn(lists2[o], top, d) = SaidIn(lists[o], top, d)
          BY <4>2 DEF SaidIn
        <4>4. \A d : \A k \in SaidIn(lists[o], top, d) : lists2[o][k] = lists[o][k]
          BY <4>2 DEF SaidIn
        <4>5. Latest(lists2[o], top, s.blueFlags)
          <5>1. Latest(lists[o], top, s.blueFlags)
            BY <3>1 DEF top
          <5> QED
            BY <4>3, <4>4, <5>1 DEF Latest
        <4> QED
          BY <4>5 DEF top
      <3>3. CASE o # h
        BY <1>6, <3>1, <3>3
      <3> QED
        BY <3>2, <3>3
    <2> QED
      BY <2>1 DEF Told
  <1> QED
    BY <1>7, <1>8

------------------------------------------------------------------------------
(* The steps.                                                              *)
USE PollerAssumption DEF PollerAssumption
USE DEF link, timing, client, pass, socket, limits, ghosts, vars

------------------------------------------------------------------------------
(* The host is the last one typed in.                                      *)

LEMMA LastStep ==
    ASSUME HostIsTheLast, [Next]_vars
    PROVE  HostIsTheLast'
  <1>1. CASE App
    BY <1>1 DEF App, requestHost, setPollEnabled, HostIsTheLast
  <1>2. CASE takeHostChange
    BY <1>2 DEF takeHostChange, setHost, HostIsTheLast
  <1>3. CASE UNCHANGED <<linkHost, hostChanged, host>>
    BY <1>3 DEF HostIsTheLast
  <1>4. CASE Poller /\ ~takeHostChange
    BY <1>3, <1>4 DEF Poller, Poll, Reuse, Connect, Refused, Broken, publish, Answer
  <1>5. CASE Server \/ Tick \/ UNCHANGED vars
    BY <1>3, <1>5 DEF Server, PeerCloses, Message, Tick
  <1> QED
    BY <1>1, <1>2, <1>4, <1>5 DEF Next

(* A socket that is open is the host's, and nothing is left on it.         *)

LEMMA SocketStep ==
    ASSUME SocketIsOurs, [Next]_vars
    PROVE  SocketIsOurs'
  <1> USE DEF SocketIsOurs, stop
  <1>1. CASE takeHostChange
    BY <1>1 DEF takeHostChange, setHost
  <1>2. CASE Connect
    BY <1>2 DEF Connect
  <1>3. CASE Refused
    BY <1>3 DEF Refused
  <1>4. CASE Broken
    BY <1>4 DEF Broken, Retry
  <1>5. ASSUME NEW framing, Answer(framing) PROVE SocketIsOurs'
    BY <1>5 DEF Answer, Reusable
  <1>6. CASE PeerCloses
    BY <1>6 DEF PeerCloses
  <1>7. CASE UNCHANGED <<socketOpen, reaches, host, rest>>
    BY <1>7
  <1>8. CASE App \/ Tick \/ Poll \/ Reuse \/ publish \/ UNCHANGED vars
    BY <1>7, <1>8 DEF App, requestHost, setPollEnabled, Tick, Poll, Reuse, publish
  <1>9. ASSUME NEW h, NEW flag, NEW driver, Message(h, flag, driver)
        PROVE  SocketIsOurs'
    BY <1>7, <1>9 DEF Message
  <1> QED
    BY <1>1, <1>2, <1>3, <1>4, <1>5, <1>6, <1>8, <1>9 DEF Next, Poller, Server

(* The host that is asked is the one the user typed in last, or will be    *)
(* once the poller looks; and what comes back is its answer to that        *)
(* question, whatever the server and the user do meanwhile                 *)
(* (takeHostChange, ensureConnected, readResponse).                        *)
THEOREM PollsTheHostCorrect == Spec => []PollsTheHost
  <1>1. Init => PollsTheHost
    BY DEF Init, PollsTheHost, HostIsTheLast, SocketIsOurs, Address
  <1>2. PollsTheHost /\ [Next]_vars => PollsTheHost'
    BY LastStep, SocketStep DEF PollsTheHost
  <1> QED
    BY <1>1, <1>2, PTL DEF Spec

------------------------------------------------------------------------------
(* What a pass asks for, and on which attempt.                             *)

Asking ==
    /\ config \in Configs
    /\ topics \subseteq Topics /\ gathered \subseteq Topics
    /\ pc \in {"connect", "ask"} => topics = Topics \/ connected
    /\ ShownIsWhole

LEMMA AskingStep ==
    ASSUME Asking, [Next]_vars
    PROVE  Asking'
  <1> USE DEF Asking, ShownIsWhole
  <1>1. CASE takeHostChange
    BY <1>1 DEF takeHostChange, setHost
  <1>2. CASE Poll
    <2>1. Plan \subseteq Topics /\ (Plan = Topics \/ connected)
      BY DEF Plan
    <2> QED
      BY <1>2, <2>1 DEF Poll, Return
  <1>3. CASE Refused
    BY <1>3 DEF Refused, Failed
  <1>4. CASE Broken
    BY <1>4 DEF Broken, Retry, Failed
  <1>5. ASSUME NEW framing, Answer(framing) PROVE Asking'
    BY <1>5 DEF Answer
  <1>6. CASE publish
    BY <1>6 DEF publish, Return
  <1>7. CASE Reuse \/ Connect
    BY <1>7 DEF Reuse, Connect
  <1>8. CASE UNCHANGED <<config, topics, gathered, connected, pc>>
    BY <1>8
  <1>9. CASE App \/ Tick \/ PeerCloses \/ UNCHANGED vars
    BY <1>8, <1>9 DEF App, requestHost, setPollEnabled, Tick, PeerCloses
  <1>10. ASSUME NEW h, NEW flag, NEW driver, Message(h, flag, driver)
         PROVE  Asking'
    BY <1>8, <1>10 DEF Message
  <1> QED
    BY <1>1, <1>2, <1>3, <1>4, <1>5, <1>6, <1>7, <1>9, <1>10 DEF Next, Poller, Server

(* Nothing is shown as connected before every topic was asked for since    *)
(* the host was set or the last poll failed, for any division of the       *)
(* topics into fast and slow ones (planPoll, poll).                        *)
THEOREM ShownIsWholeCorrect == Spec => []ShownIsWhole
  <1>1. Init => Asking
    BY DEF Init, Asking, ShownIsWhole
  <1>2. Asking /\ [Next]_vars => Asking'
    BY AskingStep
  <1> QED
    BY <1>1, <1>2, PTL DEF Spec, Asking

(* The second attempt is on a socket of its own.                           *)
Attempts ==
    /\ attempt \in {1, 2}
    /\ pc \in {"idle", "enabled"} => attempt = 1
    /\ pc = "connect" /\ attempt = 2 => ~socketOpen
    /\ pc = "ask" /\ attempt = 2 => ~reusingSocket

LEMMA AttemptsStep ==
    ASSUME Attempts, [Next]_vars
    PROVE  Attempts'
  <1> USE DEF Attempts, stop
  <1>1. CASE takeHostChange
    BY <1>1 DEF takeHostChange, setHost
  <1>2. CASE Poll
    BY <1>2 DEF Poll, Return
  <1>3. CASE Refused
    BY <1>3 DEF Refused, Failed
  <1>4. CASE Broken
    BY <1>4 DEF Broken, Retry, Failed
  <1>5. ASSUME NEW framing, Answer(framing) PROVE Attempts'
    BY <1>5 DEF Answer
  <1>6. CASE publish
    BY <1>6 DEF publish, Return
  <1>7. CASE Reuse \/ Connect
    BY <1>7 DEF Reuse, Connect, Usable
  <1>8. CASE UNCHANGED <<attempt, reusingSocket, socketOpen, pc>>
    BY <1>8
  <1>9. CASE App \/ Tick \/ PeerCloses \/ UNCHANGED vars
    BY <1>8, <1>9 DEF App, requestHost, setPollEnabled, Tick, PeerCloses
  <1>10. ASSUME NEW h, NEW flag, NEW driver, Message(h, flag, driver)
         PROVE  Attempts'
    BY <1>8, <1>10 DEF Message
  <1> QED
    BY <1>1, <1>2, <1>3, <1>4, <1>5, <1>6, <1>7, <1>9, <1>10 DEF Next, Poller, Server

(* A connection is shown as lost only where a socket opened by the same    *)
(* poll failed: a kept socket that had died costs one retry, and never the *)
(* connection (poll, fetch).                                               *)
THEOREM FailureIsRealCorrect == Spec => FailureIsReal
  <1>1. Init => Attempts
    BY DEF Init, Attempts
  <1>2. Attempts /\ [Next]_vars => Attempts'
    BY AttemptsStep
  <1>3. Attempts /\ [Next]_vars => [connected /\ ~connected' /\ host' = host => freshFailed']_vars
    <2> SUFFICES ASSUME Attempts, Next, connected, ~connected', host' = host
                 PROVE  freshFailed'
      OBVIOUS
    <2>1. CASE Refused
      BY <2>1 DEF Refused
    <2>2. CASE Broken
      BY <2>2 DEF Broken, Retry, Failed, Attempts
    <2>3. CASE takeHostChange
      BY <2>3 DEF takeHostChange, setHost
    <2>4. ASSUME NEW framing, Answer(framing) PROVE FALSE
      BY <2>4 DEF Answer
    <2>5. CASE App \/ Tick \/ PeerCloses \/ Poll \/ Reuse \/ Connect \/ publish
      BY <2>5 DEF App, requestHost, setPollEnabled, Tick, PeerCloses, Poll, Reuse, Connect,
                  publish
    <2>6. ASSUME NEW h, NEW flag, NEW driver, Message(h, flag, driver) PROVE FALSE
      BY <2>6 DEF Message
    <2> QED
      BY <2>1, <2>2, <2>3, <2>4, <2>5, <2>6 DEF Next, Poller, Server
  <1> QED
    BY <1>1, <1>2, <1>3, PTL DEF Spec, FailureIsReal

------------------------------------------------------------------------------
(* Where the socket leads, and what a pass knows.                          *)
Routed ==
    /\ linkHost \in Texts /\ host \in Hosts \union {NoHost}
    /\ pc \in {"connect", "ask"} => host # NoHost
    /\ peerOpen => reaches \in Hosts
    /\ at \in Nat /\ uptime \in Nat

LEMMA RoutedStep ==
    ASSUME Routed, [Next]_vars
    PROVE  Routed'
  <1> USE DEF Routed, stop, Texts, Address
  <1>1. CASE takeHostChange
    <2>1. Now \in Nat
      BY SessionAssumption, PollerAssumption DEF Now
    <2> QED
      BY <1>1, <2>1 DEF takeHostChange, setHost
  <1>2. CASE Poll
    BY <1>2 DEF Poll, Return
  <1>3. CASE Refused
    BY <1>3 DEF Refused, Failed
  <1>4. CASE Broken
    BY <1>4 DEF Broken, Retry, Failed
  <1>5. ASSUME NEW framing, Answer(framing) PROVE Routed'
    BY <1>5 DEF Answer
  <1>6. CASE publish
    BY <1>6 DEF publish, Return
  <1>7. CASE Reuse \/ Connect
    BY <1>7 DEF Reuse, Connect
  <1>8. CASE App
    BY <1>8 DEF App, requestHost, setPollEnabled
  <1>9. CASE Tick \/ PeerCloses \/ UNCHANGED vars
    BY <1>9 DEF Tick, PeerCloses
  <1>10. ASSUME NEW h, NEW flag, NEW driver, Message(h, flag, driver)
         PROVE  Routed'
    BY <1>10 DEF Message
  <1> QED
    BY <1>1, <1>2, <1>3, <1>4, <1>5, <1>6, <1>7, <1>8, <1>9, <1>10 DEF Next, Poller, Server



(* The list an answer may carry: the host's, or with something else at its *)
(* end.                                                                    *)
ListOf(r, list) ==
    list = feed[r] \/ (feed[r] # <<>> /\ list = [feed[r] EXCEPT ![Len(feed[r])] = Garbled])

(* What comes of an answer: nothing, no session, or its topics are read.   *)
Ignored(body) == Parsed(session, body, at) \in {session, NoSession} /\ Heard(body) = heard

TopicsRead(body, object, list) ==
    /\ Parsed(session, body, at) = Read(session, object, at)
    /\ DOMAIN object \subseteq topics /\ ListOf(reaches, list)
    /\ IF "RaceControlMessages" \in topics
       THEN /\ "RaceControlMessages" \in DOMAIN object /\ object.RaceControlMessages = list
            /\ Heard(body) =
                 [heard EXCEPT ![reaches] =
                    IF list = feed[reaches] THEN Len(feed[reaches])
                    ELSE IF heard[reaches] < Len(feed[reaches]) THEN Len(feed[reaches]) - 1
                    ELSE heard[reaches]]
       ELSE Heard(body) = heard

LEMMA AnswerCases ==
    ASSUME Asking, reaches \in Hosts, Fed(feed, heard), NEW body \in Bodies
    PROVE  Ignored(body) \/ \E object, list : TopicsRead(body, object, list)
  <1> DEFINE full == feed[reaches]  whole == State(reaches, full)  L == Len(full)
             bad == [full EXCEPT ![L] = Garbled]  half == State(reaches, bad)
             RCM == "RaceControlMessages"
  <1>1. topics \subseteq Topics
    BY DEF Asking
  <1>2. full \in Seq(Messages) /\ L \in Nat /\ heard \in [Hosts -> Nat]
    BY DEF Fed
  <1>3. Whole(reaches) = whole /\ HalfGarbled(reaches) = half
    BY DEF Whole, HalfGarbled
  <1>4. /\ Len(whole) \in Nat /\ Len(whole) >= 3 /\ \E T : whole \in Seq(T)
        /\ \A i \in 3..(Len(whole) - 1) : whole[i].key \in topics
        /\ whole[2].key = "open"
    BY <1>1, StateShape
  <1>5. Len(half) \in Nat /\ Len(half) >= 3 /\ half[Len(half)].key = "close" /\ half[2].key = "open"
    BY <1>1, StateShape
  <1>6. RCM \in topics => whole[Len(whole) - 1].value = full /\ half[Len(half) - 1].value = bad
    BY <1>1, StateShape
  <1>7. full # <<>> => bad # full
    <2>1. ASSUME full # <<>> PROVE bad[L] = Garbled /\ full[L] \in Messages
      BY <1>2, <2>1
    <2>2. Garbled \notin Messages
      BY SessionAssumption DEF Messages
    <2> QED
      BY <2>1, <2>2
  <1> HIDE DEF whole, half
  <1>8. CASE body = whole
    <2>1. PICK object :
            /\ Parsed(session, whole, at) = Read(session, object, at)
            /\ DOMAIN object \subseteq topics
            /\ RCM \in topics => RCM \in DOMAIN object /\ object.RaceControlMessages = full
      BY <1>1, ParsedWhole DEF whole
    <2>2. Heard(body) = IF RCM \in topics THEN [heard EXCEPT ![reaches] = L] ELSE heard
      BY <1>3, <1>8 DEF Heard
    <2>3. TopicsRead(body, object, full)
      BY <1>8, <2>1, <2>2 DEF TopicsRead, ListOf
    <2> QED
      BY <2>3
  <1>9. CASE body = half /\ full # <<>>
    <2>1. PICK object :
            /\ Parsed(session, half, at) = Read(session, object, at)
            /\ DOMAIN object \subseteq topics
            /\ RCM \in topics => RCM \in DOMAIN object /\ object.RaceControlMessages = bad
      BY <1>1, ParsedWhole DEF half
    <2>2. half # NoState
      BY <1>5 DEF NoState
    <2>3. RCM \in topics => half # whole
      BY <1>6, <1>7, <1>9
    <2>4. Heard(body) = IF RCM \notin topics THEN heard
                        ELSE IF heard[reaches] < L THEN [heard EXCEPT ![reaches] = L - 1]
                        ELSE heard
      BY <1>3, <1>9, <2>2, <2>3 DEF Heard
    <2>5. heard = [heard EXCEPT ![reaches] = heard[reaches]]
      BY <1>2
    <2>6. bad # full /\ ListOf(reaches, bad)
      BY <1>7, <1>9 DEF ListOf
    <2> HIDE DEF bad
    <2>7. TopicsRead(body, object, bad)
      BY <1>9, <2>1, <2>4, <2>5, <2>6 DEF TopicsRead
    <2> QED
      BY <2>7
  <1>10. CASE body = NoState
    <2>1. Parsed(session, body, at) = NoSession
      BY <1>10, ParsedNull
    <2>2. body # whole
      <3>1. Len(NoState) = 2
        BY ONLY TRUE DEF NoState
      <3> QED
        BY ONLY <1>4, <1>10, <3>1
    <2>3. Heard(body) = heard
      BY <1>3, <1>10, <2>2 DEF Heard
    <2> QED
      BY <2>1, <2>3 DEF Ignored
  <1>11. ASSUME NEW n \in 0..(Len(whole) - 1), body = SubSeq(whole, 1, n)
         PROVE  Ignored(body)
    <2>1. Parsed(session, body, at) = session
      BY <1>1, <1>11, ParsedCut DEF whole
    <2>2. Len(body) = n /\ (\A i \in 1..n : body[i] = whole[i]) /\ n < Len(whole)
      BY <1>4, <1>11
    <2>3. body # whole
      BY <1>4, <2>2
    <2>4. body # half
      <3> SUFFICES ASSUME body = half PROVE FALSE
        OBVIOUS
      <3>1. n = Len(half) /\ n \in 3..(Len(whole) - 1) /\ whole[n].key = "close"
        BY <1>4, <1>5, <2>2
      <3>2. whole[n].key \in topics
        BY <1>4, <3>1
      <3> QED
        BY <1>1, <3>1, <3>2 DEF Topics
    <2>5. Heard(body) = heard
      BY <1>3, <2>3, <2>4 DEF Heard
    <2> QED
      BY <2>1, <2>5 DEF Ignored
  <1> QED
    BY <1>3, <1>8, <1>9, <1>10, <1>11 DEF Bodies

(* The session keeps being told the truth.                                 *)
LEMMA AnswerTold ==
    ASSUME Asking, reaches \in Hosts, at \in Nat, Fed(feed, heard), Told(session, feed, heard),
           NEW body \in Bodies
    PROVE  Fed(feed, Heard(body)) /\ Told(Parsed(session, body, at), feed, Heard(body))
  <1>1. CASE Ignored(body)
    BY <1>1, NothingTold DEF Ignored
  <1>2. ASSUME NEW object, NEW list, TopicsRead(body, object, list)
        PROVE  Fed(feed, Heard(body)) /\ Told(Parsed(session, body, at), feed, Heard(body))
    <2> DEFINE p == Lists(session, object)  s == Parsed(session, body, at)  read == Heard(body)
               full == feed[reaches]  L == Len(full)  RCM == "RaceControlMessages"
               n == IF list = full THEN L ELSE L - 1
               last == session.lastMessageIndex
    <2>1. s = parseRaceControlMessages(p, object, at) /\ DOMAIN object \subseteq topics
      BY <1>2 DEF TopicsRead, Read, Lists
    <2>2. /\ DOMAIN p = Fields /\ p.blueFlags = session.blueFlags
          /\ p.lastMessageIndex = last
      BY ListsKeep DEF Told
    <2>3. InOrder(full) /\ L \in Nat /\ heard \in [Hosts -> Nat] /\ heard[reaches] <= L
      BY DEF Fed
    <2>4. ListOf(reaches, list)
      BY <1>2 DEF TopicsRead
    <2>5. n \in Nat
      <3>1. full # <<>> => L # 0
        BY <2>3 DEF InOrder
      <3> QED
        BY <2>3, <2>4, <3>1 DEF ListOf
    <2> HIDE DEF p, s, read
    <2>6. CASE RCM \notin topics
      <3>1. s = p
        BY <2>1, <2>6 DEF parseRaceControlMessages
      <3>2. read = heard
        BY <1>2, <2>6 DEF TopicsRead, read
      <3> QED
        BY <2>2, <3>1, <3>2 DEF Told, s, read
    <2>7. CASE RCM \in topics
      <3>1. /\ RCM \in DOMAIN object /\ object.RaceControlMessages = list
            /\ read = [heard EXCEPT ![reaches] = IF list = full THEN L
                                                 ELSE IF heard[reaches] < L THEN L - 1
                                                 ELSE heard[reaches]]
        BY <1>2, <2>7 DEF TopicsRead, read
      <3>2. /\ read \in [Hosts -> Nat] /\ n <= read[reaches] /\ read[reaches] <= L
            /\ heard[reaches] <= read[reaches]
            /\ \A o \in Hosts : o # reaches => read[o] = heard[o]
        BY <2>3, <2>5, <3>1
      <3>3. Fed(feed, read)
        BY <2>3, <3>2 DEF Fed
      <3>4. last \in Nat \union {-1} /\ session.blueFlags \in Table /\ Once(session.blueFlags)
        BY DEF Told
      <3> DEFINE sure == Silent(reaches, heard)
      <3>5. GoodTable(sure, full, last + 1, session.blueFlags)
        BY <3>4 DEF Told, GoodTable
      <3>6. sure => last + 1 <= heard[reaches]
        BY DEF Told
      <3> HIDE DEF sure
      <3>7. /\ DOMAIN s = Fields
            /\ s.lastMessageIndex \in {-1, Accounted(last, n) - 1}
            /\ GoodTable(sure, full, s.lastMessageIndex + 1, s.blueFlags)
            /\ n = 0 => /\ s.lastMessageIndex = last
                        /\ Flying(s.blueFlags) \subseteq Flying(session.blueFlags)
        <4>1. list = full \/ (full # <<>> /\ list = [full EXCEPT ![Len(full)] = Garbled])
          BY <2>4 DEF ListOf
        <4> HIDE DEF full, n, last
        <4>2. n = IF list = full THEN Len(full) ELSE Len(full) - 1
          BY DEF n
        <4>3. GoodTable(sure, full, p.lastMessageIndex + 1, p.blueFlags)
          BY <2>2, <3>5
        <4>4. p.lastMessageIndex \in Nat \union {-1}
          BY <2>2, <3>4
        <4>5. After(p, parseRaceControlMessages(p, object, at), sure, full, n)
          BY <2>2, <2>3, <2>5, <3>1, <4>1, <4>2, <4>3, <4>4, MessagesRead
        <4> QED
          BY <2>1, <2>2, <4>5 DEF After
      <3>8. s.lastMessageIndex \in Nat \union {-1}
        BY <2>5, <3>4, <3>7 DEF Accounted
      <3>9. ASSUME NEW h \in Hosts, Silent(h, read)
            PROVE  /\ s.lastMessageIndex + 1 <= read[h]
                   /\ Latest(feed[h], s.lastMessageIndex + 1, s.blueFlags)
        <4>1. CASE h = reaches
          <5>1. Silent(reaches, heard)
            BY <3>2, <3>9, <4>1 DEF Silent
          <5>2. last + 1 <= read[h]
            BY <2>3, <3>2, <3>4, <3>6, <4>1, <5>1 DEF sure
          <5>3. s.lastMessageIndex + 1 <= read[h]
            BY <2>5, <3>2, <3>4, <3>7, <4>1, <5>2 DEF Accounted
          <5> QED
            BY <3>7, <4>1, <5>1, <5>3 DEF GoodTable, sure
        <4>2. CASE h # reaches
          <5>1. read[reaches] = 0
            BY <3>9, <4>2 DEF Silent
          <5>2. n = 0 /\ heard[reaches] = 0
            <6> HIDE DEF n, full
            <6> QED
              BY <2>3, <2>5, <3>2, <5>1
          <5>3. Silent(h, heard) /\ read[h] = heard[h]
            BY <3>2, <3>9, <4>2, <5>2 DEF Silent
          <5>4. last + 1 <= heard[h] /\ Latest(feed[h], last + 1, session.blueFlags)
            BY <5>3 DEF Told
          <5>5. /\ s.lastMessageIndex = last
                /\ Flying(s.blueFlags) \subseteq Flying(session.blueFlags)
            BY <3>7, <5>2
          <5> QED
            BY <5>3, <5>4, <5>5 DEF Latest
        <4> QED
          BY <4>1, <4>2
      <3>10. Told(s, feed, read)
        BY <3>7, <3>8, <3>9 DEF Told, GoodTable
      <3> QED
        BY <3>3, <3>10 DEF s, read
    <2> QED
      BY <2>6, <2>7
  <1> QED
    BY <1>1, <1>2, AnswerCases

(* What makes BlueIsLatest inductive: a car has one slot, messages are     *)
(* keyed in order, and the last key is no further than what was read.      *)
BlueInv ==
    Asking /\ Routed /\ Fed(feed, heard) /\ Told(session, feed, heard)

LEMMA BlueInit == Init => BlueInv
  <1> SUFFICES ASSUME Init PROVE BlueInv
    OBVIOUS
  <1>1. Asking
    BY DEF Init, Asking, ShownIsWhole
  <1>2. Routed
    BY SessionAssumption DEF Init, Routed
  <1>3. Fed(feed, heard)
    <2>1. <<>> \in Seq(Messages) /\ Len(<<>>) = 0 /\ InOrder(<<>>)
      BY DEF InOrder
    <2> QED
      BY <2>1 DEF Init, Fed
  <1>4. Told(session, feed, heard)
    BY <1>3, NothingTold DEF Init
  <1> QED
    BY <1>1, <1>2, <1>3, <1>4 DEF BlueInv

LEMMA BlueStep ==
    ASSUME BlueInv, [Next]_vars
    PROVE  BlueInv'
  <1>1. Asking /\ Routed /\ Fed(feed, heard) /\ Told(session, feed, heard)
    BY DEF BlueInv
  <1>2. Asking' /\ Routed'
    BY <1>1, AskingStep, RoutedStep
  <1> SUFFICES Fed(feed', heard') /\ Told(session', feed', heard')
    BY <1>2 DEF BlueInv, Fed, Told, Silent
  <1>3. ASSUME NEW framing, Answer(framing)
        PROVE  Fed(feed', heard') /\ Told(session', feed', heard')
    <2>1. PICK body \in Bodies : /\ pc = "ask" /\ peerOpen /\ heard' = Heard(body)
                                 /\ session' = Parsed(session, body, at) /\ feed' = feed
      BY <1>3 DEF Answer
    <2>2. reaches \in Hosts /\ at \in Nat
      BY <1>1, <2>1 DEF Routed
    <2>3. Fed(feed, Heard(body)) /\ Told(Parsed(session, body, at), feed, Heard(body))
      BY <1>1, <2>2, AnswerTold
    <2> QED
      BY <2>1, <2>3
  <1>4. ASSUME NEW h \in Hosts, NEW flag \in {"BLUE", "CLEAR", "OTHER"},
               NEW driver \in Drivers \union {Nobody}, flag # "OTHER" => driver \in Drivers,
               Message(h, flag, driver)
        PROVE  Fed(feed', heard') /\ Told(session', feed', heard')
    <2>1. /\ heard' = heard /\ session' = session
          /\ feed' = [feed EXCEPT ![h] = Append(@, [key |-> Len(@), flag |-> flag,
                                                    driver |-> driver])]
      BY <1>4 DEF Message
    <2>2. Fed(feed', heard) /\ Told(session, feed', heard)
      BY <1>1, <1>4, <2>1, MessageAdds
    <2> QED
      BY <2>1, <2>2
  <1>5. CASE UNCHANGED <<feed, heard, session>>
    BY <1>1, <1>5
  <1>6. CASE takeHostChange
    BY <1>5, <1>6 DEF takeHostChange, setHost
  <1>7. CASE Poll
    BY <1>5, <1>7 DEF Poll
  <1>8. CASE Reuse \/ Connect \/ Refused \/ publish
    BY <1>5, <1>8 DEF Reuse, Connect, Refused, publish
  <1>9. CASE Broken
    BY <1>5, <1>9 DEF Broken
  <1>10. CASE App \/ Tick \/ PeerCloses \/ UNCHANGED vars
    BY <1>5, <1>10 DEF App, requestHost, setPollEnabled, Tick, PeerCloses
  <1> QED
    BY <1>3, <1>4, <1>6, <1>7, <1>8, <1>9, <1>10 DEF Next, Poller, Server

(* A blue flag kept is that of a car race control last waved one at,       *)
(* however the list was cut into polls, cut off, followed by something     *)
(* else, or read again, for a table and lists of any length                *)
(* (parseRaceControlMessages).                                             *)
THEOREM BlueIsLatestCorrect == Spec => []BlueIsLatest
  <1>1. Init => BlueInv
    BY BlueInit
  <1>2. BlueInv /\ [Next]_vars => BlueInv'
    BY BlueStep
  <1>3. BlueInv => BlueIsLatest
    <2> SUFFICES ASSUME BlueInv, NEW h \in Hosts, \A o \in Hosts \ {h} : heard[o] = 0
                 PROVE  \A d \in Blue :
                          \E k \in Said(h, d) :
                             feed[h][k].flag = "BLUE" /\ \A j \in Said(h, d) : j <= k
      BY DEF BlueIsLatest
    <2>1. Latest(feed[h], session.lastMessageIndex + 1, session.blueFlags)
      BY DEF BlueInv, Told, Silent
    <2>2. Blue = Flying(session.blueFlags)
      BY DEF Blue, Flying
    <2>3. \A d : Said(h, d) = SaidIn(feed[h], session.lastMessageIndex + 1, d)
      BY DEF Said, SaidIn
    <2> QED
      BY <2>1, <2>2, <2>3 DEF Latest
  <1> QED
    BY <1>1, <1>2, <1>3, PTL DEF Spec

(* No poll disturbs what it has nothing to do with: what is connected, or  *)
(* the lists of the topics it does not ask for, whatever comes back        *)
(* (fetch, parse).                                                         *)
THEOREM PollsAreHarmlessCorrect == Spec => PollsAreHarmless
  <1>1. Spec => []BlueInv
    BY BlueInit, BlueStep, PTL DEF Spec
  <1>2. BlueInv /\ [Next]_vars =>
          [pc = "ask" /\ session' # NoSession =>
             /\ "DriverList" \notin topics => session'.drivers = session.drivers
             /\ "RaceControlMessages" \notin topics =>
                  /\ session'.blueFlags = session.blueFlags
                  /\ session'.lastMessageIndex = session.lastMessageIndex
                  /\ session'.blueFlagTla = session.blueFlagTla]_vars
    <2> SUFFICES ASSUME BlueInv, Next, pc = "ask", session' # NoSession
                 PROVE  /\ "DriverList" \notin topics => session'.drivers = session.drivers
                        /\ "RaceControlMessages" \notin topics =>
                             /\ session'.blueFlags = session.blueFlags
                             /\ session'.lastMessageIndex = session.lastMessageIndex
                             /\ session'.blueFlagTla = session.blueFlagTla
      OBVIOUS
    <2>1. CASE session' = session
      BY <2>1
    <2>2. ASSUME NEW framing, Answer(framing), session' # session
          PROVE  \E object :
                   session' = Read(session, object, at) /\ DOMAIN object \subseteq topics
      <3>1. PICK body \in Bodies : peerOpen /\ session' = Parsed(session, body, at)
        BY <2>2 DEF Answer
      <3>2. reaches \in Hosts
        BY <3>1 DEF BlueInv, Routed
      <3>3. Ignored(body) \/ \E object, list : TopicsRead(body, object, list)
        BY <3>2, AnswerCases DEF BlueInv
      <3> QED
        BY <2>2, <3>1, <3>3 DEF Ignored, TopicsRead
    <2>3. ASSUME NEW object, session' = Read(session, object, at), DOMAIN object \subseteq topics
          PROVE  /\ "DriverList" \notin topics => session'.drivers = session.drivers
                 /\ "RaceControlMessages" \notin topics =>
                      /\ session'.blueFlags = session.blueFlags
                      /\ session'.lastMessageIndex = session.lastMessageIndex
                      /\ session'.blueFlagTla = session.blueFlagTla
      <3> DEFINE p == Lists(session, object)
      <3>1. /\ DOMAIN p = Fields /\ p.blueFlags = session.blueFlags
            /\ p.lastMessageIndex = session.lastMessageIndex
            /\ p.blueFlagTla = session.blueFlagTla
            /\ "DriverList" \notin DOMAIN object => p.drivers = session.drivers
        BY ListsKeep DEF BlueInv, Told
      <3>2. session' = parseRaceControlMessages(p, object, at)
        BY <2>3 DEF Read, Lists
      <3> HIDE DEF p
      <3>3. "RaceControlMessages" \notin topics => session' = p
        BY <2>3, <3>2 DEF parseRaceControlMessages
      <3>4. session'.drivers = p.drivers
        BY <3>1, <3>2 DEF parseRaceControlMessages, Fields, NoSession
      <3> QED
        BY <2>3, <3>1, <3>3, <3>4
    <2>4. CASE App \/ Tick \/ PeerCloses \/ Poll \/ Reuse \/ Connect \/ Refused \/ Broken \/ publish
      BY <2>1, <2>4 DEF App, requestHost, setPollEnabled, Tick, PeerCloses, Poll, Reuse, Connect,
                        Refused, Broken, publish
    <2>5. CASE takeHostChange
      BY <2>5 DEF takeHostChange
    <2>6. ASSUME NEW h, NEW flag, NEW driver, Message(h, flag, driver) PROVE session' = session
      BY <2>6 DEF Message
    <2> QED
      BY <2>1, <2>2, <2>3, <2>4, <2>5, <2>6 DEF Next, Poller, Server
  <1>3. Spec => UnaskedIsKept
    BY <1>1, <1>2, PTL DEF Spec, UnaskedIsKept
  <1> QED
    BY <1>3, FailureIsRealCorrect DEF PollsAreHarmless
==================================================================================
