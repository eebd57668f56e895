------------------------ MODULE AuthenticatorProofs ------------------------
(***************************************************************************)
(* What holds of Authenticator for any number of clients and requests and  *)
(* any size of the nonce cache.                                            *)
(*                                                                         *)
(* Inv says how the replay state follows from the history of what was      *)
(* served: the ring still holds the last requests of every paired client,  *)
(* and a mark is the newest timestamp its client had served.               *)
(***************************************************************************)
EXTENDS Authenticator, FiniteSetTheorems, TLAPS

USE ConstantsAssumption DEF ConstantsAssumption

------------------------------------------------------------------------------
(* Where the i-th served request was remembered.                           *)
SlotOf(i) ==
    LET back == nonceNext - 1 - (Len(served) - i)
    IN  IF back >= 0 THEN back ELSE back + CacheSize

FewPaired   == IsFiniteSet(paired) /\ Cardinality(paired) <= MaxClients
SentByKnown == \A r \in sent : r.client \in known
NonceOnce   == \A q, r \in sent : Entry(q) = Entry(r) => q = r

StateIsPaired ==
    /\ DOMAIN marks \subseteq paired
    /\ \A s \in Slots : nonces[s] # Unused => nonces[s].client \in paired

RingHoldsLast ==
    \A i \in DOMAIN served :
        served[i].client \in paired /\ Len(served) - i < CacheSize =>
            nonces[SlotOf(i)] = Entry(served[i])

RingWasServed ==
    \A s \in Slots : nonces[s] # Unused =>
        \E i \in DOMAIN served : nonces[s] = Entry(served[i])

MarkIsNewest ==
    \A i \in DOMAIN served : served[i].client \in paired =>
        HasMark(served[i].client) /\ served[i].ts <= marks[served[i].client]

MarkWasServed ==
    \A c \in DOMAIN marks :
        \E i \in DOMAIN served : served[i].client = c /\ served[i].ts = marks[c]

Inv ==
    /\ FewPaired
    /\ SentByKnown
    /\ NonceOnce
    /\ StateIsPaired
    /\ RingHoldsLast
    /\ RingWasServed
    /\ MarkIsNewest
    /\ MarkWasServed
    /\ ServedInOrder
    /\ ServedTwiceNeedsRollover

(* Serve and Revoke in one: Serve revokes nobody.                          *)
Taken(r, c) ==
    /\ Accepted(r)
    /\ paired' = paired \ {c}
    /\ nonces' = ForgetNonces(Remembered(r), c)
    /\ nonceNext' = NextSlot
    /\ marks' = ForgetMark(Marked(r), c)
    /\ served' = Append(served, r)
    /\ UNCHANGED <<clock, valid, known, sent>>

------------------------------------------------------------------------------
LEMMA NextSlotIs ==
    ASSUME nonceNext \in Slots
    PROVE  /\ NextSlot \in Slots
           /\ NextSlot = IF nonceNext + 1 = CacheSize THEN 0 ELSE nonceNext + 1
  <1>1. nonceNext \in Nat /\ nonceNext + 1 <= CacheSize /\ CacheSize > 0
    BY DEF Slots
  <1>2. CASE nonceNext + 1 = CacheSize
    BY <1>1, <1>2 DEF NextSlot, Slots
  <1>3. CASE nonceNext + 1 < CacheSize
    BY <1>1, <1>3 DEF NextSlot, Slots
  <1> QED
    BY <1>1, <1>2, <1>3

LEMMA EntryIsUsed ==
    ASSUME NEW r \in Request
    PROVE  Entry(r) # Unused /\ Entry(r) \in [client : Clients, nonce : Nonces]
  BY DEF Entry, Unused, Request

LEMMA SeqGrows ==
    ASSUME NEW S, NEW T, S \subseteq T, NEW s \in Seq(S)
    PROVE  s \in Seq(T)
  OBVIOUS

LEMMA AppendIs ==
    ASSUME NEW S, NEW s \in Seq(S), NEW e \in S
    PROVE  /\ Append(s, e) \in Seq(S) /\ Len(Append(s, e)) = Len(s) + 1
           /\ Len(s) \in Nat
           /\ DOMAIN s = 1..Len(s) /\ DOMAIN Append(s, e) = 1..(Len(s) + 1)
           /\ \A i \in 1..Len(s) : Append(s, e)[i] = s[i] /\ s[i] \in S
           /\ Append(s, e)[Len(s) + 1] = e
  OBVIOUS

LEMMA ServeIsTaken ==
    ASSUME TypeOK, NEW r \in sent, Serve(r)
    PROVE  Taken(r, Nobody)
  <1>1. r \in Request /\ r.client # Nobody
    BY DEF TypeOK, Request
  <1>2. Remembered(r) \in [Slots -> {Unused} \cup [client : Clients, nonce : Nonces]]
    BY <1>1, EntryIsUsed DEF TypeOK, Remembered
  <1>3. ForgetNonces(Remembered(r), Nobody) = Remembered(r)
    <2> DEFINE R == Remembered(r)
    <2>1. \A s \in Slots : R[s].client = Nobody => R[s] = Unused
      BY <1>2
    <2> HIDE DEF R
    <2>2. [s \in Slots |-> IF R[s].client = Nobody THEN Unused ELSE R[s]] = [s \in Slots |-> R[s]]
      BY <2>1
    <2> QED
      BY <1>2, <2>2 DEF ForgetNonces, R
  <1>4. DOMAIN Marked(r) \subseteq Clients /\ Marked(r) = [d \in DOMAIN Marked(r) |-> Marked(r)[d]]
    BY <1>1 DEF Marked, TypeOK, Request
  <1>5. ForgetMark(Marked(r), Nobody) = Marked(r)
    <2> DEFINE M == Marked(r)
    <2> HIDE DEF M
    <2>1. DOMAIN M \ {Nobody} = DOMAIN M /\ M = [d \in DOMAIN M |-> M[d]]
      BY <1>4 DEF M
    <2> QED
      BY <2>1 DEF ForgetMark, M
  <1>6. paired \ {Nobody} = paired
    BY DEF TypeOK
  <1> QED
    BY <1>3, <1>5, <1>6 DEF Serve, Taken

LEMMA RevokeIsTaken ==
    ASSUME NEW r \in sent, NEW c \in Clients, Revoke(r, c)
    PROVE  Taken(r, c)
  BY DEF Revoke, Taken

------------------------------------------------------------------------------
LEMMA TypeInit == Init => TypeOK
  <1> SUFFICES ASSUME Init PROVE TypeOK
    OBVIOUS
  <1>1. 0 \in Slots
    BY DEF Slots
  <1>2. DOMAIN NoMarks = {} /\ NoMarks \in [{} -> Times]
    BY DEF NoMarks
  <1>3. served \in Seq(sent)
    <2>1. <<>> \in Seq(sent)
      OBVIOUS
    <2> QED
      BY <2>1 DEF Init
  <1> QED
    BY <1>1, <1>2, <1>3 DEF Init, TypeOK, NoNonces

LEMMA TypeTaken ==
    ASSUME TypeOK, NEW r \in sent, NEW c \in Clients \cup {Nobody}, Taken(r, c)
    PROVE  TypeOK'
  <1>1. r \in Request /\ r.client \in Clients /\ r.ts \in Times
    BY DEF TypeOK, Request
  <1>2. Remembered(r) \in [Slots -> {Unused} \cup [client : Clients, nonce : Nonces]]
    BY <1>1, EntryIsUsed DEF TypeOK, Remembered
  <1>3. nonces' \in [Slots -> {Unused} \cup [client : Clients, nonce : Nonces]]
    BY <1>2 DEF Taken, ForgetNonces
  <1>4. nonceNext' \in Slots
    BY NextSlotIs DEF Taken, TypeOK
  <1>5. DOMAIN Marked(r) \subseteq Clients /\ Marked(r) \in [DOMAIN Marked(r) -> Times]
    <2>1. CASE MarkSlot(r.client)
      <3>1. Marked(r) = [d \in DOMAIN marks \cup {r.client} |->
                            IF d # r.client THEN marks[d]
                            ELSE IF HasMark(d) /\ r.ts <= marks[d] THEN marks[d]
                            ELSE r.ts]
        BY <2>1 DEF Marked
      <3>2. \A d \in DOMAIN marks : marks[d] \in Times
        BY DEF TypeOK
      <3> QED
        BY <1>1, <3>1, <3>2 DEF TypeOK, HasMark
    <2>2. CASE ~MarkSlot(r.client)
      BY <2>2 DEF Marked, TypeOK
    <2> QED
      BY <2>1, <2>2
  <1>6. DOMAIN marks' \subseteq Clients /\ marks' \in [DOMAIN marks' -> Times]
    BY <1>5 DEF Taken, ForgetMark
  <1>7. served' \in Seq(sent')
    BY AppendIs DEF Taken, TypeOK
  <1> QED
    BY <1>3, <1>4, <1>6, <1>7 DEF Taken, TypeOK

LEMMA TypeNext == TypeOK /\ [Next]_vars => TypeOK'
  <1> SUFFICES ASSUME TypeOK, [Next]_vars PROVE TypeOK'
    OBVIOUS
  <1>0. /\ 0 \in Slots /\ NoNonces \in [Slots -> {Unused}]
        /\ DOMAIN NoMarks = {} /\ NoMarks \in [{} -> Times]
    BY DEF Slots, NoMarks, NoNonces
  <1>1. ASSUME NEW c \in Clients, Pair(c) PROVE TypeOK'
    BY <1>1 DEF Pair, TypeOK
  <1>2. ASSUME NEW r \in Request, Sign(r) PROVE TypeOK'
    <2>1. served' \in Seq(sent')
      BY <1>2, SeqGrows DEF Sign, TypeOK
    <2> QED
      BY <1>2, <2>1 DEF Sign, TypeOK
  <1>3. ASSUME NEW r \in sent, Serve(r) PROVE TypeOK'
    BY <1>3, ServeIsTaken, TypeTaken
  <1>4. ASSUME NEW r \in sent, NEW c \in Clients, Revoke(r, c) PROVE TypeOK'
    BY <1>4, RevokeIsTaken, TypeTaken
  <1>5. CASE RevokeAll
    BY <1>0, <1>5 DEF RevokeAll, TypeOK
  <1>6. ASSUME NEW t \in Times, SetClock(t) PROVE TypeOK'
    BY <1>6 DEF SetClock, TypeOK
  <1>7. CASE Reboot
    <2>1. <<>> \in Seq(sent')
      OBVIOUS
    <2>2. served' \in Seq(sent')
      BY <1>7, <2>1 DEF Reboot
    <2> QED
      BY <1>0, <1>7, <2>2 DEF Reboot, TypeOK
  <1>8. CASE UNCHANGED vars
    BY <1>8 DEF vars, TypeOK
  <1> QED
    BY <1>1, <1>2, <1>3, <1>4, <1>5, <1>6, <1>7, <1>8 DEF Next

(* Every reachable state has its declared types; the ring is never written *)
(* outside its slots (Authenticator::rememberNonce).                       *)
THEOREM TypeCorrect == Spec => []TypeOK
  BY TypeInit, TypeNext, PTL DEF Spec

------------------------------------------------------------------------------
(* There is always a place for the mark of a paired client.                *)
LEMMA MarkSlotFree ==
    ASSUME FewPaired, StateIsPaired, NEW c \in paired
    PROVE  MarkSlot(c)
  <1> SUFFICES ASSUME ~HasMark(c) PROVE Cardinality(DOMAIN marks) < MaxClients
    BY DEF MarkSlot
  <1>1. DOMAIN marks \in SUBSET paired /\ DOMAIN marks # paired
    BY DEF StateIsPaired, HasMark
  <1>2. /\ IsFiniteSet(DOMAIN marks) /\ Cardinality(DOMAIN marks) <= Cardinality(paired)
        /\ Cardinality(DOMAIN marks) # Cardinality(paired)
    BY <1>1, FS_Subset DEF FewPaired
  <1>3. Cardinality(DOMAIN marks) \in Nat /\ Cardinality(paired) \in Nat
    BY <1>2, FS_CardinalityType DEF FewPaired
  <1> QED
    BY <1>2, <1>3 DEF FewPaired

LEMMA TakenFacts ==
    ASSUME TypeOK, FewPaired, StateIsPaired,
           NEW r \in sent, NEW c \in Clients \cup {Nobody}, Taken(r, c)
    PROVE  /\ r \in Request /\ r.client \in paired
           /\ \A s \in Slots : s # nonceNext =>
                 nonces'[s] = IF nonces[s].client = c THEN Unused ELSE nonces[s]
           /\ nonces'[nonceNext] = IF r.client = c THEN Unused ELSE Entry(r)
           /\ DOMAIN marks' = (DOMAIN marks \cup {r.client}) \ {c}
           /\ \A d \in DOMAIN marks' : marks'[d] = IF d = r.client THEN r.ts ELSE marks[d]
           /\ HasMark(r.client) => marks[r.client] <= r.ts
  <1>1. r \in Request /\ r.client \in paired /\ r.ts \in Nat
    BY DEF Taken, Accepted, TypeOK, Request
  <1>2. HasMark(r.client) => marks[r.client] \in Nat /\ marks[r.client] <= r.ts
    <2>1. HasMark(r.client) => marks[r.client] \in Nat
      BY DEF HasMark, TypeOK
    <2> QED
      BY <1>1, <2>1 DEF Taken, Accepted
  <1>3. MarkSlot(r.client)
    BY <1>1, MarkSlotFree
  <1>4. Marked(r) = [d \in DOMAIN marks \cup {r.client} |->
                        IF d # r.client THEN marks[d]
                        ELSE IF HasMark(d) /\ r.ts <= marks[d] THEN marks[d]
                        ELSE r.ts]
    BY <1>3 DEF Marked
  <1>5. /\ DOMAIN Marked(r) = DOMAIN marks \cup {r.client}
        /\ \A d \in DOMAIN Marked(r) : Marked(r)[d] = IF d = r.client THEN r.ts ELSE marks[d]
    BY <1>1, <1>2, <1>4
  <1>6. /\ DOMAIN marks' = DOMAIN Marked(r) \ {c}
        /\ \A d \in DOMAIN marks' : marks'[d] = Marked(r)[d]
    BY DEF Taken, ForgetMark
  <1>7. /\ \A s \in Slots : s # nonceNext => Remembered(r)[s] = nonces[s]
        /\ Remembered(r)[nonceNext] = Entry(r)
    BY DEF Remembered, TypeOK
  <1>8. \A s \in Slots :
           nonces'[s] = IF Remembered(r)[s].client = c THEN Unused ELSE Remembered(r)[s]
    BY DEF Taken, ForgetNonces
  <1>9. Entry(r).client = r.client /\ nonceNext \in Slots
    BY DEF Entry, TypeOK
  <1> QED
    BY <1>1, <1>2, <1>5, <1>6, <1>7, <1>8, <1>9

(* The new request takes the slot the ring goes on with; every other one   *)
(* of the last CacheSize stays where it was.                               *)
LEMMA SlotMoves ==
    ASSUME TypeOK, NEW r \in sent,
           nonceNext' = NextSlot, served' = Append(served, r)
    PROVE  /\ \A n : n = Len(served) + 1 => SlotOf(n)' = nonceNext
           /\ \A i \in 1..Len(served) : Len(served) + 1 - i < CacheSize =>
                 SlotOf(i)' = SlotOf(i) /\ SlotOf(i) \in Slots /\ SlotOf(i) # nonceNext
  <1>1. Len(served) \in Nat /\ Len(served') = Len(served) + 1
    BY AppendIs DEF TypeOK
  <1>2. nonceNext' = IF nonceNext + 1 = CacheSize THEN 0 ELSE nonceNext + 1
    BY NextSlotIs DEF TypeOK
  <1>3. nonceNext \in Nat /\ nonceNext < CacheSize
    BY DEF TypeOK, Slots
  <1>4. \A n : n = Len(served) + 1 => SlotOf(n)' = nonceNext
    BY <1>1, <1>2, <1>3 DEF SlotOf
  <1>5. ASSUME NEW i \in 1..Len(served), Len(served) + 1 - i < CacheSize
        PROVE  SlotOf(i)' = SlotOf(i) /\ SlotOf(i) \in Slots /\ SlotOf(i) # nonceNext
    BY <1>1, <1>2, <1>3, <1>5 DEF SlotOf, Slots
  <1> QED
    BY <1>4, <1>5

(* Accepting a request keeps the replay state in step with the history.    *)
LEMMA TakenInv ==
    ASSUME TypeOK, Inv, NEW r \in sent, NEW c \in Clients \cup {Nobody}, Taken(r, c)
    PROVE  Inv'
  <1> USE DEF Inv
  <1> DEFINE N == Len(served)
  <1>1. /\ r \in Request /\ r.client \in paired
        /\ \A s \in Slots : s # nonceNext =>
              nonces'[s] = IF nonces[s].client = c THEN Unused ELSE nonces[s]
        /\ nonces'[nonceNext] = IF r.client = c THEN Unused ELSE Entry(r)
        /\ DOMAIN marks' = (DOMAIN marks \cup {r.client}) \ {c}
        /\ \A d \in DOMAIN marks' : marks'[d] = IF d = r.client THEN r.ts ELSE marks[d]
        /\ HasMark(r.client) => marks[r.client] <= r.ts
    BY TakenFacts
  <1>2. /\ N \in Nat /\ Len(served') = N + 1
        /\ DOMAIN served = 1..N /\ DOMAIN served' = 1..(N + 1)
        /\ \A i \in 1..N : served'[i] = served[i] /\ served[i] \in sent
        /\ served'[N + 1] = r
    BY AppendIs DEF Taken, TypeOK
  <1>3. paired' = paired \ {c} /\ sent' = sent /\ known' = known
    BY DEF Taken
  <1>4. FewPaired'
    <2>1. paired' \in SUBSET paired
      BY <1>3
    <2>2. IsFiniteSet(paired') /\ Cardinality(paired') <= Cardinality(paired)
      BY <2>1, FS_Subset DEF FewPaired
    <2>3. Cardinality(paired) \in Nat /\ Cardinality(paired') \in Nat
      BY <2>2, FS_CardinalityType DEF FewPaired
    <2> QED
      BY <2>2, <2>3 DEF FewPaired
  <1>5. SentByKnown' /\ NonceOnce'
    BY <1>3 DEF SentByKnown, NonceOnce, Entry
  <1>6. StateIsPaired'
    <2>1. DOMAIN marks' \subseteq paired'
      BY <1>1, <1>3 DEF StateIsPaired
    <2>2. ASSUME NEW s \in Slots, nonces'[s] # Unused PROVE nonces'[s].client \in paired'
      <3>1. Entry(r).client = r.client
        BY DEF Entry
      <3>2. CASE s = nonceNext
        BY <1>1, <1>3, <2>2, <3>1, <3>2
      <3>3. CASE s # nonceNext
        BY <1>1, <1>3, <2>2, <3>3 DEF StateIsPaired
      <3> QED
        BY <3>2, <3>3
    <2> QED
      BY <2>1, <2>2 DEF StateIsPaired, Slots
  <1>7. RingHoldsLast'
    <2>1. /\ \A n : n = N + 1 => SlotOf(n)' = nonceNext
          /\ \A i \in 1..N : N + 1 - i < CacheSize =>
                SlotOf(i)' = SlotOf(i) /\ SlotOf(i) \in Slots /\ SlotOf(i) # nonceNext
      BY SlotMoves DEF Taken
    <2>2. ASSUME NEW i \in DOMAIN served', served'[i].client \in paired',
                 Len(served') - i < CacheSize
          PROVE  nonces'[SlotOf(i)'] = Entry(served'[i])
      <3>1. CASE i = N + 1
        BY <1>1, <1>2, <1>3, <2>1, <2>2, <3>1
      <3>2. CASE i # N + 1
        <4>1. i \in 1..N /\ N + 1 - i < CacheSize /\ N - i < CacheSize
          BY <1>2, <2>2, <3>2
        <4>2. served'[i] = served[i] /\ served[i].client \in paired /\ served[i].client # c
          BY <1>2, <1>3, <2>2, <4>1
        <4>3. nonces[SlotOf(i)] = Entry(served[i])
          BY <1>2, <4>1, <4>2 DEF RingHoldsLast
        <4>4. nonces[SlotOf(i)].client # c
          BY <4>2, <4>3 DEF Entry
        <4> QED
          BY <1>1, <2>1, <4>1, <4>2, <4>3, <4>4
      <3> QED
        BY <3>1, <3>2
    <2>3. \A i : Entry(served[i])' = Entry(served'[i])
      BY DEF Entry
    <2> QED
      BY <2>2, <2>3 DEF RingHoldsLast
  <1>8. RingWasServed'
    <2>1. ASSUME NEW s \in Slots, nonces'[s] # Unused
          PROVE  \E i \in DOMAIN served' : nonces'[s] = Entry(served'[i])
      <3>1. CASE s = nonceNext
        BY <1>1, <1>2, <2>1, <3>1
      <3>2. CASE s # nonceNext
        <4>1. nonces'[s] = nonces[s] /\ nonces[s] # Unused
          BY <1>1, <2>1, <3>2
        <4>2. PICK i \in DOMAIN served : nonces[s] = Entry(served[i])
          BY <4>1 DEF RingWasServed
        <4> QED
          BY <1>2, <4>1, <4>2
      <3> QED
        BY <3>1, <3>2
    <2> QED
      BY <2>1 DEF RingWasServed, Slots, Entry
  <1>9. MarkIsNewest'
    <2>1. ASSUME NEW i \in DOMAIN served', served'[i].client \in paired'
          PROVE  /\ served'[i].client \in DOMAIN marks'
                 /\ served'[i].ts <= marks'[served'[i].client]
      <3>0. r.ts \in Nat
        BY <1>1 DEF Request
      <3>1. CASE i = N + 1
        BY <1>1, <1>2, <1>3, <2>1, <3>0, <3>1
      <3>2. CASE i # N + 1
        <4>1. i \in 1..N /\ served'[i] = served[i] /\ served[i].client \in paired
              /\ served[i].client # c /\ served[i] \in sent
          BY <1>2, <1>3, <2>1, <3>2
        <4>2. HasMark(served[i].client) /\ served[i].ts <= marks[served[i].client]
          BY <1>2, <4>1 DEF MarkIsNewest
        <4>3. served[i].client \in DOMAIN marks'
          BY <1>1, <4>1, <4>2 DEF HasMark
        <4>4. CASE served[i].client # r.client
          BY <1>1, <4>1, <4>2, <4>3, <4>4
        <4>5. CASE served[i].client = r.client
          <5>1. served[i].ts \in Nat /\ marks[r.client] \in Nat
            BY <4>1, <4>2, <4>5 DEF TypeOK, Request, HasMark
          <5>2. marks'[r.client] = r.ts /\ marks[r.client] <= r.ts
            BY <1>1, <4>2, <4>3, <4>5
          <5> QED
            BY <3>0, <4>1, <4>2, <4>3, <4>5, <5>1, <5>2
        <4> QED
          BY <4>4, <4>5
      <3> QED
        BY <3>1, <3>2
    <2> QED
      BY <2>1 DEF MarkIsNewest, HasMark
  <1>10. MarkWasServed'
    <2>1. ASSUME NEW d \in DOMAIN marks'
          PROVE  \E i \in DOMAIN served' : served'[i].client = d /\ served'[i].ts = marks'[d]
      <3>1. CASE d = r.client
        BY <1>1, <1>2, <2>1, <3>1
      <3>2. CASE d # r.client
        <4>1. d \in DOMAIN marks /\ marks'[d] = marks[d]
          BY <1>1, <2>1, <3>2
        <4>2. PICK i \in DOMAIN served : served[i].client = d /\ served[i].ts = marks[d]
          BY <4>1 DEF MarkWasServed
        <4> QED
          BY <1>2, <4>1, <4>2
      <3> QED
        BY <3>1, <3>2
    <2> QED
      BY <2>1 DEF MarkWasServed
  <1>11. ASSUME NEW i \in 1..N, served[i].client = r.client
         PROVE  served[i].ts <= r.ts
    <2>1. HasMark(r.client) /\ served[i].ts <= marks[r.client] /\ marks[r.client] <= r.ts
      BY <1>1, <1>2, <1>11 DEF MarkIsNewest
    <2>2. served[i].ts \in Nat /\ r.ts \in Nat /\ marks[r.client] \in Nat
      BY <1>1, <1>2, <1>11, <2>1 DEF TypeOK, Request, HasMark
    <2> QED
      BY <2>1, <2>2
  <1>12. ServedInOrder'
    <2>1. ASSUME NEW i \in DOMAIN served', NEW j \in DOMAIN served',
                 i < j, served'[i].client = served'[j].client
          PROVE  served'[i].ts <= served'[j].ts
      <3>1. CASE j = N + 1
        BY <1>2, <1>11, <2>1, <3>1
      <3>2. CASE j # N + 1
        BY <1>2, <2>1, <3>2 DEF ServedInOrder
      <3> QED
        BY <3>1, <3>2
    <2> QED
      BY <2>1 DEF ServedInOrder
  <1>13. ServedTwiceNeedsRollover'
    <2>1. ASSUME NEW i \in DOMAIN served', NEW j \in DOMAIN served',
                 i < j, served'[i] = served'[j]
          PROVE  /\ j - i > CacheSize
                 /\ \A k \in i..j : served'[k].client = served'[i].client
                                        => served'[k].ts = served'[i].ts
      <3>1. CASE j = N + 1
        <4>1. i \in 1..N /\ served[i] = r /\ served'[i] = r
          BY <1>2, <2>1, <3>1
        <4>2. N - i >= CacheSize
          <5>1. SUFFICES ASSUME N - i < CacheSize PROVE FALSE
            BY <1>2, <4>1
          <5>2. nonces[SlotOf(i)] = Entry(r)
            BY <1>1, <1>2, <4>1, <5>1 DEF RingHoldsLast
          <5>3. SlotOf(i) \in Slots
            BY <1>2, <4>1, <5>1 DEF SlotOf, Slots, TypeOK
          <5> QED
            BY <5>2, <5>3 DEF Taken, Accepted, NonceSeen
        <4>3. ASSUME NEW k \in i..j, served'[k].client = served'[i].client
              PROVE  served'[k].ts = served'[i].ts
          <5>1. CASE k = N + 1
            BY <1>2, <4>1, <5>1
          <5>2. CASE k # N + 1
            <6>1. k \in 1..N /\ served'[k] = served[k] /\ served[k].client = r.client
              BY <1>2, <3>1, <4>1, <4>3, <5>2
            <6>2. served[k].ts <= r.ts
              BY <1>11, <6>1
            <6>3. served[i].ts <= served[k].ts
              <7>1. CASE i = k
                <8>1. r.ts \in Nat
                  BY <1>1 DEF Request
                <8> QED
                  BY <4>1, <7>1, <8>1
              <7>2. CASE i # k
                <8>1. i < k /\ k \in DOMAIN served /\ i \in DOMAIN served
                  BY <1>2, <4>1, <4>3, <6>1, <7>2
                <8> QED
                  BY <4>1, <6>1, <8>1 DEF ServedInOrder
              <7> QED
                BY <7>1, <7>2
            <6>4. served[k].ts \in Nat /\ r.ts \in Nat
              BY <1>1, <1>2, <6>1 DEF TypeOK, Request
            <6> QED
              BY <4>1, <6>1, <6>2, <6>3, <6>4
          <5> QED
            BY <5>1, <5>2
        <4> QED
          BY <1>2, <3>1, <4>1, <4>2, <4>3
      <3>2. CASE j # N + 1
        <4>1. i \in 1..N /\ j \in 1..N /\ i..j \subseteq 1..N
          BY <1>2, <2>1, <3>2
        <4> QED
          BY <1>2, <2>1, <4>1 DEF ServedTwiceNeedsRollover
      <3> QED
        BY <3>1, <3>2
    <2> QED
      BY <2>1 DEF ServedTwiceNeedsRollover
  <1> QED
    BY <1>4, <1>5, <1>6, <1>7, <1>8, <1>9, <1>10, <1>12, <1>13

------------------------------------------------------------------------------
LEMMA InvInit == Init => Inv
  <1> SUFFICES ASSUME Init PROVE Inv
    OBVIOUS
  <1>1. FewPaired
    BY FS_EmptySet DEF Init, FewPaired
  <1>2. /\ DOMAIN marks = {} /\ \A s \in Slots : nonces[s] = Unused
        /\ DOMAIN served = {} /\ sent = {}
    BY DEF Init, NoMarks, NoNonces
  <1> QED
    BY <1>1, <1>2 DEF Inv, SentByKnown, NonceOnce, StateIsPaired, RingHoldsLast,
       RingWasServed, MarkIsNewest, MarkWasServed, ServedInOrder,
       ServedTwiceNeedsRollover

(* A new client has an id no request was ever signed with.                 *)
LEMMA PairInv ==
    ASSUME TypeOK, Inv, NEW c \in Clients, Pair(c)
    PROVE  Inv'
  <1>1. /\ paired' = paired \cup {c} /\ known' = known \cup {c} /\ c \notin known
        /\ UNCHANGED <<nonces, nonceNext, marks, sent, served>>
    BY DEF Pair
  <1>2. FewPaired'
    <2>0. IsFiniteSet(paired) /\ Cardinality(paired) \in Nat
      BY FS_CardinalityType DEF Inv, FewPaired
    <2>1. /\ IsFiniteSet(paired \cup {c})
          /\ Cardinality(paired \cup {c}) =
                IF c \in paired THEN Cardinality(paired) ELSE Cardinality(paired) + 1
      BY <2>0, FS_AddElement
    <2>2. /\ IsFiniteSet(paired') /\ Cardinality(paired') <= Cardinality(paired) + 1
          /\ Cardinality(paired') \in Nat
      BY <1>1, <2>0, <2>1
    <2> QED
      BY <2>0, <2>2 DEF FewPaired, Pair
  <1>3. SentByKnown' /\ NonceOnce'
    BY <1>1 DEF Inv, SentByKnown, NonceOnce, Entry
  <1>4. StateIsPaired' /\ RingWasServed' /\ MarkWasServed'
    BY <1>1 DEF Inv, StateIsPaired, RingWasServed, MarkWasServed, Slots, Unused, Entry
  <1>5. \A i \in DOMAIN served : served[i].client \in paired' => served[i].client \in paired
    <2>1. \A i \in DOMAIN served : served[i] \in sent
      BY DEF TypeOK
    <2> QED
      BY <1>1, <2>1 DEF Inv, SentByKnown
  <1>6. RingHoldsLast'
    <2>1. \A i : SlotOf(i)' = SlotOf(i) /\ Entry(served[i])' = Entry(served[i])
      BY <1>1 DEF SlotOf, Entry
    <2> QED
      BY <1>1, <1>5, <2>1 DEF Inv, RingHoldsLast
  <1>7. MarkIsNewest'
    BY <1>1, <1>5 DEF Inv, MarkIsNewest, HasMark
  <1>8. ServedInOrder' /\ ServedTwiceNeedsRollover'
    BY <1>1 DEF Inv, ServedInOrder, ServedTwiceNeedsRollover
  <1> QED
    BY <1>2, <1>3, <1>4, <1>6, <1>7, <1>8 DEF Inv

(* A client draws a nonce it has not used.                                 *)
LEMMA SignInv ==
    ASSUME TypeOK, Inv, NEW r \in Request, Sign(r)
    PROVE  Inv'
  <1>1. /\ sent' = sent \cup {r} /\ r.client \in paired
        /\ \A q \in sent : Entry(q) # Entry(r)
        /\ UNCHANGED <<paired, known, nonces, nonceNext, marks, served>>
    BY DEF Sign
  <1>2. SentByKnown'
    BY <1>1 DEF Inv, SentByKnown, TypeOK
  <1>3. NonceOnce'
    BY <1>1 DEF Inv, NonceOnce, Entry
  <1>4. FewPaired' /\ StateIsPaired' /\ RingWasServed' /\ MarkWasServed'
    BY <1>1 DEF Inv, FewPaired, StateIsPaired, RingWasServed, MarkWasServed, Slots,
       Unused, Entry
  <1>5. RingHoldsLast' /\ MarkIsNewest'
    BY <1>1 DEF Inv, RingHoldsLast, MarkIsNewest, SlotOf, HasMark, Entry
  <1>6. ServedInOrder' /\ ServedTwiceNeedsRollover'
    BY <1>1 DEF Inv, ServedInOrder, ServedTwiceNeedsRollover
  <1> QED
    BY <1>2, <1>3, <1>4, <1>5, <1>6 DEF Inv

LEMMA RevokeAllInv ==
    ASSUME TypeOK, Inv, RevokeAll
    PROVE  Inv'
  <1>1. /\ paired' = {} /\ UNCHANGED <<known, sent, served>>
        /\ DOMAIN marks' = {} /\ \A s \in Slots : nonces'[s] = Unused
    BY DEF RevokeAll, NoMarks, NoNonces
  <1>2. FewPaired'
    BY <1>1, FS_EmptySet DEF FewPaired
  <1>3. SentByKnown' /\ NonceOnce'
    BY <1>1 DEF Inv, SentByKnown, NonceOnce, Entry
  <1>4. StateIsPaired' /\ RingWasServed' /\ MarkWasServed'
    BY <1>1 DEF StateIsPaired, RingWasServed, MarkWasServed, Slots, Unused
  <1>5. RingHoldsLast' /\ MarkIsNewest'
    BY <1>1 DEF RingHoldsLast, MarkIsNewest
  <1>6. ServedInOrder' /\ ServedTwiceNeedsRollover'
    BY <1>1 DEF Inv, ServedInOrder, ServedTwiceNeedsRollover
  <1> QED
    BY <1>2, <1>3, <1>4, <1>5, <1>6 DEF Inv

LEMMA RebootInv ==
    ASSUME TypeOK, Inv, Reboot
    PROVE  Inv'
  <1>1. /\ UNCHANGED <<paired, known, sent>> /\ DOMAIN served' = {}
        /\ DOMAIN marks' = {} /\ \A s \in Slots : nonces'[s] = Unused
    BY DEF Reboot, NoMarks, NoNonces
  <1>2. FewPaired' /\ SentByKnown' /\ NonceOnce'
    BY <1>1 DEF Inv, FewPaired, SentByKnown, NonceOnce, Entry
  <1>3. StateIsPaired' /\ RingWasServed' /\ MarkWasServed'
    BY <1>1 DEF StateIsPaired, RingWasServed, MarkWasServed, Slots, Unused
  <1>4. RingHoldsLast' /\ MarkIsNewest' /\ ServedInOrder' /\ ServedTwiceNeedsRollover'
    BY <1>1 DEF RingHoldsLast, MarkIsNewest, ServedInOrder, ServedTwiceNeedsRollover
  <1> QED
    BY <1>2, <1>3, <1>4 DEF Inv

(* Nothing Inv speaks of changes.                                          *)
LEMMA StutterInv ==
    ASSUME Inv, UNCHANGED <<paired, nonces, nonceNext, marks, known, sent, served>>
    PROVE  Inv'
  <1>1. FewPaired' /\ SentByKnown' /\ NonceOnce'
    BY DEF Inv, FewPaired, SentByKnown, NonceOnce, Entry
  <1>2. StateIsPaired' /\ RingWasServed' /\ MarkWasServed'
    BY DEF Inv, StateIsPaired, RingWasServed, MarkWasServed, Slots, Unused, Entry
  <1>3. RingHoldsLast' /\ MarkIsNewest'
    BY DEF Inv, RingHoldsLast, MarkIsNewest, SlotOf, HasMark, Entry
  <1>4. ServedInOrder' /\ ServedTwiceNeedsRollover'
    BY DEF Inv, ServedInOrder, ServedTwiceNeedsRollover
  <1> QED
    BY <1>1, <1>2, <1>3, <1>4 DEF Inv

LEMMA InvNext == TypeOK /\ Inv /\ [Next]_vars => Inv'
  <1> SUFFICES ASSUME TypeOK, Inv, [Next]_vars PROVE Inv'
    OBVIOUS
  <1>1. ASSUME NEW c \in Clients, Pair(c) PROVE Inv'
    BY <1>1, PairInv
  <1>2. ASSUME NEW r \in Request, Sign(r) PROVE Inv'
    BY <1>2, SignInv
  <1>3. ASSUME NEW r \in sent, Serve(r) PROVE Inv'
    BY <1>3, ServeIsTaken, TakenInv
  <1>4. ASSUME NEW r \in sent, NEW c \in Clients, Revoke(r, c) PROVE Inv'
    BY <1>4, RevokeIsTaken, TakenInv
  <1>5. CASE RevokeAll
    BY <1>5, RevokeAllInv
  <1>6. ASSUME NEW t \in Times, SetClock(t) PROVE Inv'
    BY <1>6, StutterInv DEF SetClock
  <1>7. CASE Reboot
    BY <1>7, RebootInv
  <1>8. CASE UNCHANGED vars
    BY <1>8, StutterInv DEF vars
  <1> QED
    BY <1>1, <1>2, <1>3, <1>4, <1>5, <1>6, <1>7, <1>8 DEF Next

THEOREM InvCorrect == Spec => []Inv
  BY TypeCorrect, InvInit, InvNext, PTL DEF Spec

(* Replay state never outlives its client, so no client is ever left       *)
(* without a mark: highWaterMark never returns nullptr to authenticate.    *)
THEOREM EveryClientHasAMarkCorrect == Spec => []EveryClientHasAMark
  <1>1. Inv => EveryClientHasAMark
    BY MarkSlotFree DEF Inv, EveryClientHasAMark, StateIsPaired
  <1> QED
    BY <1>1, InvCorrect, PTL

(* A client's requests are served in the order of their timestamps.        *)
THEOREM ServedInOrderCorrect == Spec => []ServedInOrder
  <1>1. Inv => ServedInOrder
    BY DEF Inv
  <1> QED
    BY <1>1, InvCorrect, PTL

(* Serving a request again takes a full cache of others in between.        *)
THEOREM ServedTwiceCorrect == Spec => []ServedTwiceNeedsRollover
  <1>1. Inv => ServedTwiceNeedsRollover
    BY DEF Inv
  <1> QED
    BY <1>1, InvCorrect, PTL

(* Nothing other clients, revocations or resets do makes the replay check  *)
(* refuse a request that is fresh.                                         *)
THEOREM FreshIsAcceptedCorrect == Spec => []FreshIsAccepted
  <1>1. ASSUME TypeOK, Inv PROVE FreshIsAccepted
    <2> SUFFICES ASSUME NEW r \in sent,
                        valid, r.client \in paired, WithinSkew(r.ts),
                        \A i \in DOMAIN served :
                           served[i] # r /\ (served[i].client = r.client => served[i].ts <= r.ts)
                 PROVE  Accepted(r)
      BY DEF FreshIsAccepted
    <2>1. ~(HasMark(r.client) /\ r.ts < marks[r.client])
      <3> SUFFICES ASSUME HasMark(r.client) PROVE ~(r.ts < marks[r.client])
        OBVIOUS
      <3>1. PICK i \in DOMAIN served :
                served[i].client = r.client /\ served[i].ts = marks[r.client]
        BY <1>1 DEF Inv, MarkWasServed, HasMark
      <3>2. r.ts \in Nat /\ marks[r.client] \in Nat
        BY <1>1 DEF TypeOK, Request, HasMark
      <3> QED
        BY <3>1, <3>2
    <2>2. ~NonceSeen(r)
      <3> SUFFICES ASSUME NEW s \in Slots, nonces[s] = Entry(r) PROVE FALSE
        BY DEF NonceSeen
      <3>1. nonces[s] # Unused
        BY <1>1, EntryIsUsed DEF TypeOK
      <3>2. PICK i \in DOMAIN served : nonces[s] = Entry(served[i])
        BY <1>1, <3>1 DEF Inv, RingWasServed
      <3>3. served[i] \in sent
        BY <1>1 DEF TypeOK
      <3>4. served[i] = r
        BY <1>1, <3>2, <3>3 DEF Inv, NonceOnce
      <3> QED
        BY <3>4
    <2> QED
      BY <2>1, <2>2 DEF Accepted
  <1>2. TypeOK /\ Inv => FreshIsAccepted
    BY <1>1
  <1> QED
    BY <1>2, TypeCorrect, InvCorrect, PTL

-------------------------------------------------------------------------------
(* Requests are served in order, and none twice but for a full turn of the *)
(* cache, for any traffic and any size of the cache.                       *)
THEOREM ServedAsSentCorrect == Spec => []ServedAsSent
  <1>1. ServedInOrder /\ ServedTwiceNeedsRollover => ServedAsSent
    BY DEF ServedAsSent
  <1> QED
    BY <1>1, ServedInOrderCorrect, ServedTwiceCorrect, PTL

(* Neither a full table nor the traffic of others keeps a client out.      *)
THEOREM NobodyIsLockedOutCorrect == Spec => []NobodyIsLockedOut
  <1>1. EveryClientHasAMark /\ FreshIsAccepted => NobodyIsLockedOut
    BY DEF NobodyIsLockedOut
  <1> QED
    BY <1>1, EveryClientHasAMarkCorrect, FreshIsAcceptedCorrect, PTL
==============================================================================
