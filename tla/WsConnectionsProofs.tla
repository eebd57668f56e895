------------------------- MODULE WsConnectionsProofs -------------------------
(***************************************************************************)
(* What holds of WsConnections for any number of slots, peers and tickets. *)
(***************************************************************************)
EXTENDS WsConnections, TLAPS

USE ConstantsAssumption DEF ConstantsAssumption
USE DEF sockets, net, ws, store, history

------------------------------------------------------------------------------
LEMMA FreeIsNoSlot == Slots \subseteq Nat /\ Free \notin Slots /\ 0 \in Slots
  BY DEF Slots, Free

LEMMA NextPlaceIs ==
    ASSUME next \in Places
    PROVE  /\ NextPlace \in Places
           /\ NextPlace = IF next + 1 = MaxTickets THEN 0 ELSE next + 1
  <1>1. next \in Nat /\ next + 1 <= MaxTickets /\ MaxTickets > 0
    BY DEF Places
  <1>2. CASE next + 1 = MaxTickets
    BY <1>1, <1>2 DEF NextPlace, Places
  <1>3. CASE next + 1 < MaxTickets
    BY <1>1, <1>3 DEF NextPlace, Places
  <1> QED
    BY <1>1, <1>2, <1>3

LEMMA AppendIs ==
    ASSUME NEW S, NEW s \in Seq(S), NEW e \in S
    PROVE  /\ Append(s, e) \in Seq(S) /\ Len(Append(s, e)) = Len(s) + 1
           /\ Len(s) \in Nat
           /\ DOMAIN s = 1..Len(s) /\ DOMAIN Append(s, e) = 1..(Len(s) + 1)
           /\ \A i \in 1..Len(s) : Append(s, e)[i] = s[i] /\ s[i] \in S
           /\ Append(s, e)[Len(s) + 1] = e
  OBVIOUS

LEMMA ExceptIs ==
    ASSUME NEW S, NEW s \in Seq(S), NEW i \in DOMAIN s, NEW e \in S
    PROVE  /\ [s EXCEPT ![i] = e] \in Seq(S) /\ Len([s EXCEPT ![i] = e]) = Len(s)
           /\ DOMAIN [s EXCEPT ![i] = e] = DOMAIN s
           /\ \A j \in DOMAIN s : [s EXCEPT ![i] = e][j] = IF j = i THEN e ELSE s[j]
  OBVIOUS

LEMMA EmptySeq == \A S : <<>> \in Seq(S) /\ Len(<<>>) = 0 /\ DOMAIN <<>> = {}
  OBVIOUS

LEMMA DomainIs ==
    ASSUME NEW S, NEW s \in Seq(S)
    PROVE  Len(s) \in Nat /\ DOMAIN s = 1..Len(s) /\ \A i \in DOMAIN s : s[i] \in S
  OBVIOUS

------------------------------------------------------------------------------
(* What consume does, when the ticket is good.                             *)
LEMMA ConsumeIs ==
    ASSUME TypeOK, NEW t \in Issued, Consume(t)
    PROVE  /\ tickets' \in [Places -> [ticket : 0..MaxIssued, issuedAt : Nat, used : BOOLEAN]]
           /\ uses' \in Seq(Nat) /\ Len(uses') = Len(uses)
           /\ \A u \in Issued : uses'[u] = IF u = t THEN uses[t] + 1 ELSE uses[u]
           /\ UNCHANGED <<next, now, issued>>
           /\ \E i \in Places :
                 /\ GoodAt(i, t)
                 /\ \A j \in Places :
                       /\ tickets'[j].ticket = tickets[j].ticket
                       /\ tickets'[j].issuedAt = tickets[j].issuedAt
                       /\ tickets'[j].used = (tickets[j].used \/ j = i)
  <1>1. PICK i \in Places : /\ GoodAt(i, t)
                            /\ tickets' = Spent(i) /\ uses' = [uses EXCEPT ![t] = @ + 1]
                            /\ UNCHANGED <<next, now, issued>>
    BY DEF Consume
  <1>2. t \in DOMAIN uses /\ DOMAIN uses = Issued /\ uses \in Seq(Nat) /\ uses[t] + 1 \in Nat
    BY DomainIs DEF TypeOK, Issued
  <1>3. /\ uses' \in Seq(Nat) /\ Len(uses') = Len(uses)
        /\ \A u \in Issued : uses'[u] = IF u = t THEN uses[t] + 1 ELSE uses[u]
    BY <1>1, <1>2, ExceptIs
  <1>4. /\ tickets' \in [Places -> [ticket : 0..MaxIssued, issuedAt : Nat, used : BOOLEAN]]
        /\ \A j \in Places : /\ tickets'[j].ticket = tickets[j].ticket
                             /\ tickets'[j].issuedAt = tickets[j].issuedAt
                             /\ tickets'[j].used = (tickets[j].used \/ j = i)
    BY <1>1 DEF Spent, TypeOK
  <1> QED
    BY <1>1, <1>3, <1>4

LEMMA TypeInit == Init => TypeOK
  <1> SUFFICES ASSUME Init PROVE TypeOK
    OBVIOUS
  <1>1. issued \in Seq(Times) /\ uses \in Seq(Nat) /\ Len(issued) = 0 /\ Len(uses) = 0
    BY EmptySeq DEF Init
  <1>2. tickets \in [Places -> [ticket : 0..MaxIssued, issuedAt : Nat, used : BOOLEAN]]
    BY DEF Init, Blank
  <1>3. next \in Places /\ at \in Entries
    BY DEF Init, Places, Entries
  <1> QED
    BY <1>1, <1>2, <1>3, FreeIsNoSlot DEF Init, TypeOK

LEMMA TypeNet == TypeOK /\ Net => TypeOK'
  <1> SUFFICES ASSUME TypeOK, Net PROVE TypeOK'
    OBVIOUS
  <1>1. CASE Issue
    <2>1. /\ issued' \in Seq(Times) /\ uses' \in Seq(Nat)
          /\ Len(issued') = Len(issued) + 1 /\ Len(uses') = Len(uses) + 1
          /\ Len(issued) \in Nat
      BY <1>1, AppendIs DEF Issue, TypeOK
    <2>2. [ticket |-> Len(issued) + 1, issuedAt |-> now, used |-> FALSE]
              \in [ticket : 0..MaxIssued, issuedAt : Nat, used : BOOLEAN]
      BY <1>1, <2>1 DEF Issue, TypeOK
    <2>3. tickets' \in [Places -> [ticket : 0..MaxIssued, issuedAt : Nat, used : BOOLEAN]]
      BY <1>1, <2>2 DEF Issue, TypeOK
    <2> QED
      BY <1>1, <2>1, <2>3, NextPlaceIs DEF Issue, TypeOK
  <1>2. ASSUME NEW t \in Issued, BadKey(t) PROVE TypeOK'
    BY <1>2, ConsumeIs DEF BadKey, TypeOK
  <1>3. ASSUME NEW p \in Peers, NEW t \in Issued, Upgrade(p, t) PROVE TypeOK'
    BY <1>3, ConsumeIs, FreeIsNoSlot DEF Upgrade, TypeOK
  <1>4. CASE NetRetain
    BY <1>4 DEF NetRetain, Retained, TypeOK
  <1>5. CASE NetAdopt
    BY <1>5 DEF NetAdopt, ReleaseFirst, TypeOK
  <1>6. CASE NetStop \/ NetEmpty \/ NetRefuse \/ NetAnswer
    BY <1>6 DEF NetStop, NetEmpty, NetRefuse, NetAnswer, Stop, Empty, TypeOK
  <1>7. CASE NetRest
    BY <1>7 DEF NetRest, Busy, TypeOK
  <1> QED
    BY <1>1, <1>2, <1>3, <1>4, <1>5, <1>6, <1>7 DEF Net, NetGoesOn

LEMMA TypeNext == TypeOK /\ [Next]_vars => TypeOK'
  <1> SUFFICES ASSUME TypeOK, [Next]_vars PROVE TypeOK'
    OBVIOUS
  <1>1. ASSUME GoesOn
        PROVE  at' \in Entries /\ wPc' \in {"look", "idle"}
    BY <1>1 DEF GoesOn, Last, Entries, TypeOK
  <1>2. 1 \in Entries
    BY DEF Entries
  <1>3. CASE WsStart
    BY <1>2, <1>3 DEF WsStart, TypeOK
  <1>4. CASE WsPass
    BY <1>1, <1>4 DEF WsPass, TypeOK
  <1>5. CASE WsDrop
    BY <1>5 DEF WsDrop, TypeOK
  <1>6. CASE WsStop
    BY <1>6 DEF WsStop, Stop, TypeOK
  <1>7. CASE WsEmpty
    <2>1. retained' \in [Slots -> arrived \cup {None}] /\ open' \subseteq open
      BY <1>7 DEF WsEmpty, Empty, TypeOK
    <2>2. connections' \in [Entries -> Slots \cup {Free}]
      BY <1>7 DEF WsEmpty, Dropped, TypeOK
    <2> QED
      BY <1>1, <1>7, <2>1, <2>2 DEF WsEmpty, TypeOK
  <1>8. ASSUME NEW p \in Peers, PeerLeaves(p) PROVE TypeOK'
    BY <1>8 DEF PeerLeaves, TypeOK
  <1>9. ASSUME NEW t \in Times, SetClock(t) PROVE TypeOK'
    BY <1>9 DEF SetClock, TypeOK
  <1>10. CASE UNCHANGED vars
    BY <1>10 DEF vars, TypeOK
  <1> QED
    BY TypeNet, <1>3, <1>4, <1>5, <1>6, <1>7, <1>8, <1>9, <1>10 DEF Next, WsGoesOn

(* Every state has the types of the declarations, and neither the table    *)
(* nor the ticket store is ever indexed outside its bounds (WsHub,         *)
(* WsTicketStore).                                                         *)
THEOREM TypeCorrect == Spec => []TypeOK
  BY TypeInit, TypeNext, PTL DEF Spec
------------------------------------------------------------------------------
LEMMA LeaksInit == Init => NoSlotLeaks
  BY DEF Init, NoSlotLeaks, Busy

LEMMA LeaksNet == TypeOK /\ NoSlotLeaks /\ Net => NoSlotLeaks'
  <1> SUFFICES ASSUME TypeOK, NoSlotLeaks, Net PROVE NoSlotLeaks'
    OBVIOUS
  <1>0. None \notin arrived /\ None \notin open
    BY DEF TypeOK
  <1>1. CASE Issue \/ \E t \in Issued : BadKey(t)
    BY <1>1 DEF Issue, BadKey, NoSlotLeaks, Busy
  <1>2. ASSUME NEW p \in Peers, NEW t \in Issued, Upgrade(p, t) PROVE NoSlotLeaks'
    <2>1. \A s \in Slots : retained[s] # p
      BY <1>2 DEF Upgrade, TypeOK
    <2> QED
      BY <1>2, <2>1 DEF Upgrade, NoSlotLeaks, Busy
  <1>3. CASE NetRetain
    BY <1>3 DEF NetRetain, Retained, NoSlotLeaks, Busy, TypeOK
  <1>4. CASE NetAdopt
    <2>1. CASE nPc' = ReleaseFirst /\ UNCHANGED connections
      BY <1>4, <2>1 DEF NetAdopt, ReleaseFirst, NoSlotLeaks, Busy
    <2>2. ASSUME NEW e \in Entries, FirstFree(e), connections' = [connections EXCEPT ![e] = slot]
          PROVE  NoSlotLeaks'
      <3>1. /\ connections'[e] = slot
            /\ \A f \in Entries : connections[f] # Free => connections'[f] = connections[f]
        BY <2>2 DEF FirstFree, TypeOK
      <3>2. \A s \in Slots : s # Free
        BY FreeIsNoSlot
      <3> QED
        BY <1>4, <3>1, <3>2 DEF NetAdopt, NoSlotLeaks, Busy
    <2> QED
      BY <1>4, <2>1, <2>2 DEF NetAdopt
  <1>5. CASE NetStop
    BY <1>5 DEF NetStop, Stop, NoSlotLeaks, Busy
  <1>6. CASE NetEmpty
    BY <1>0, <1>6 DEF NetEmpty, Empty, NoSlotLeaks, Busy, TypeOK
  <1>7. CASE NetRefuse
    BY <1>7 DEF NetRefuse, NoSlotLeaks, Busy
  <1>8. CASE NetAnswer \/ NetRest
    BY <1>8 DEF NetAnswer, NetRest, NoSlotLeaks, Busy
  <1> QED
    BY <1>1, <1>2, <1>3, <1>4, <1>5, <1>6, <1>7, <1>8 DEF Net, NetGoesOn

LEMMA LeaksNext == TypeOK /\ NoSlotLeaks /\ [Next]_vars => NoSlotLeaks'
  <1> SUFFICES ASSUME TypeOK, NoSlotLeaks, [Next]_vars PROVE NoSlotLeaks'
    OBVIOUS
  <1>1. CASE WsStart \/ WsPass \/ WsDrop
    BY <1>1 DEF WsStart, WsPass, WsDrop, NoSlotLeaks, Busy
  <1>2. CASE WsStop
    BY <1>2 DEF WsStop, Stop, NoSlotLeaks, Busy
  <1>3. CASE WsEmpty
    <2>1. /\ None \notin open'
          /\ \A s \in Slots : Busy(s)' => s # connections[at] /\ Busy(s)
      BY <1>3 DEF WsEmpty, Empty, Busy, TypeOK
    <2>2. \A e \in Entries : connections[e] # connections[at] => connections'[e] = connections[e]
      BY <1>3 DEF WsEmpty, Dropped, TypeOK
    <2> QED
      BY <1>3, <2>1, <2>2 DEF WsEmpty, NoSlotLeaks
  <1>4. CASE \E p \in Peers : PeerLeaves(p)
    BY <1>4 DEF PeerLeaves, NoSlotLeaks, Busy
  <1>5. CASE \E t \in Times : SetClock(t)
    BY <1>5 DEF SetClock, NoSlotLeaks, Busy
  <1>6. CASE UNCHANGED vars
    BY <1>6 DEF vars, NoSlotLeaks, Busy
  <1> QED
    BY LeaksNet, <1>1, <1>2, <1>3, <1>4, <1>5, <1>6 DEF Next, WsGoesOn

(* A slot with a live peer always has somebody who will release it: the    *)
(* table, or the net task before or after adopt (handleWebSocketUpgrade).  *)
THEOREM NoSlotLeaksCorrect == Spec => []NoSlotLeaks
  <1>1. Init => TypeOK /\ NoSlotLeaks
    BY TypeInit, LeaksInit
  <1>2. TypeOK /\ NoSlotLeaks /\ [Next]_vars => (TypeOK /\ NoSlotLeaks)'
    BY TypeNext, LeaksNext
  <1> QED
    BY <1>1, <1>2, PTL DEF Spec

------------------------------------------------------------------------------
ServedInv == TypeOK /\ NoSlotLeaks /\ EveryListenerIsServed

LEMMA ServedNet == ServedInv /\ Net => EveryListenerIsServed'
  <1> SUFFICES ASSUME ServedInv, Net PROVE EveryListenerIsServed'
    OBVIOUS
  <1>0. TypeOK /\ NoSlotLeaks /\ EveryListenerIsServed
    BY DEF ServedInv
  <1>1. CASE Issue \/ \E t \in Issued : BadKey(t)
    BY <1>0, <1>1 DEF Issue, BadKey, EveryListenerIsServed
  <1>2. ASSUME NEW p \in Peers, NEW t \in Issued, Upgrade(p, t) PROVE EveryListenerIsServed'
    <2>1. p \notin answered
      BY <1>0, <1>2 DEF Upgrade, TypeOK
    <2> QED
      BY <1>0, <1>2, <2>1 DEF Upgrade, EveryListenerIsServed
  <1>3. CASE NetRetain
    <2>1. \A s \in Slots : retained[s] \in open => retained'[s] = retained[s]
      BY <1>0, <1>3 DEF NetRetain, Retained, Busy, TypeOK
    <2>2. \A e \in Entries : connections[e] # Free => connections[e] \in Slots
      BY <1>0 DEF TypeOK
    <2> QED
      BY <1>0, <1>3, <2>1, <2>2 DEF NetRetain, EveryListenerIsServed
  <1>4. CASE NetAdopt
    <2>1. \A e \in Entries : connections[e] # Free => connections'[e] = connections[e]
      BY <1>0, <1>4 DEF NetAdopt, FirstFree, TypeOK
    <2> QED
      BY <1>0, <1>4, <2>1 DEF NetAdopt, EveryListenerIsServed
  <1>5. CASE NetStop
    BY <1>0, <1>5 DEF NetStop, Stop, EveryListenerIsServed
  <1>6. CASE NetEmpty
    <2>1. \A s \in Slots : retained[s] \in open' => retained'[s] = retained[s]
      BY <1>0, <1>6 DEF NetEmpty, Empty, TypeOK
    <2>2. \A e \in Entries : connections[e] # Free => connections[e] \in Slots
      BY <1>0 DEF TypeOK
    <2>3. open' \subseteq open
      BY <1>6 DEF NetEmpty, Empty
    <2> QED
      BY <1>0, <1>6, <2>1, <2>2, <2>3 DEF NetEmpty, EveryListenerIsServed
  <1>7. CASE NetRefuse \/ NetAnswer
    BY <1>0, <1>7 DEF NetRefuse, NetAnswer, EveryListenerIsServed
  <1>8. CASE NetRest
    <2>1. Busy(slot) => \E e \in Entries : connections[e] = slot
      BY <1>0, <1>8 DEF NetRest, NoSlotLeaks, TypeOK
    <2>2. slot # Free
      BY <1>0, FreeIsNoSlot DEF TypeOK
    <2>3. \A p \in answered' : p \in answered \/ (Busy(slot) /\ p = retained[slot])
      BY <1>8 DEF NetRest
    <2> QED
      BY <1>0, <1>8, <2>1, <2>2, <2>3 DEF NetRest, EveryListenerIsServed
  <1> QED
    BY <1>1, <1>2, <1>3, <1>4, <1>5, <1>6, <1>7, <1>8 DEF Net, NetGoesOn

LEMMA ServedNext == ServedInv /\ [Next]_vars => EveryListenerIsServed'
  <1> SUFFICES ASSUME ServedInv, [Next]_vars PROVE EveryListenerIsServed'
    OBVIOUS
  <1>0. TypeOK /\ EveryListenerIsServed
    BY DEF ServedInv
  <1>1. CASE WsStart \/ WsPass \/ WsDrop
    BY <1>0, <1>1 DEF WsStart, WsPass, WsDrop, EveryListenerIsServed
  <1>2. CASE WsStop
    BY <1>0, <1>2 DEF WsStop, Stop, EveryListenerIsServed
  <1>3. CASE WsEmpty
    <2>1. /\ open' \subseteq open /\ answered' = answered
          /\ \A s \in Slots : retained[s] \in open' => s # connections[at] /\ retained'[s] = retained[s]
      BY <1>0, <1>3 DEF WsEmpty, Empty, TypeOK
    <2>2. \A e \in Entries : connections[e] # connections[at] => connections'[e] = connections[e]
      BY <1>0, <1>3 DEF WsEmpty, Dropped, TypeOK
    <2>3. \A e \in Entries : connections[e] # Free => connections[e] \in Slots
      BY <1>0 DEF TypeOK
    <2> QED
      BY <1>0, <2>1, <2>2, <2>3 DEF EveryListenerIsServed
  <1>4. CASE \E p \in Peers : PeerLeaves(p)
    BY <1>0, <1>4 DEF PeerLeaves, EveryListenerIsServed
  <1>5. CASE \E t \in Times : SetClock(t)
    BY <1>0, <1>5 DEF SetClock, EveryListenerIsServed
  <1>6. CASE UNCHANGED vars
    BY <1>0, <1>6 DEF vars, EveryListenerIsServed
  <1> QED
    BY ServedNet, <1>1, <1>2, <1>3, <1>4, <1>5, <1>6 DEF Next, WsGoesOn

(* Whoever was answered and is still connected is in the table, whatever   *)
(* the two tasks do to each other's slots (WsHub, net_link).               *)
THEOREM ServedCorrect == Spec => []EveryListenerIsServed
  <1>1. Init => ServedInv
    BY TypeInit, LeaksInit DEF Init, ServedInv, EveryListenerIsServed
  <1>2. ServedInv /\ [Next]_vars => ServedInv'
    BY TypeNext, LeaksNext, ServedNext DEF ServedInv
  <1>3. ServedInv => EveryListenerIsServed
    BY DEF ServedInv
  <1> QED
    BY <1>1, <1>2, <1>3, PTL DEF Spec
------------------------------------------------------------------------------
(* A place is spent, or holds a ticket that was issued, as it was issued,  *)
(* and that nobody used; no two places hold the same unspent ticket.       *)
PlaceInv ==
    \A i \in Places : ~tickets[i].used =>
        /\ tickets[i].ticket \in Issued /\ uses[tickets[i].ticket] = 0

Distinct ==
    \A i, j \in Places : ~tickets[i].used /\ ~tickets[j].used /\ i # j
        => tickets[i].ticket # tickets[j].ticket

(* What a step does to the store: nothing, a ticket spent or a new one.    *)
SameStore == UNCHANGED <<store, history>>

LEMMA StoreSteps ==
    ASSUME [Next]_vars
    PROVE  Issue \/ (\E t \in Issued : Consume(t)) \/ SameStore
  <1>1. CASE Net
    BY <1>1 DEF Net, NetGoesOn, BadKey, Upgrade, NetRetain, NetAdopt, NetStop, NetEmpty,
       NetRefuse, NetAnswer, NetRest, SameStore
  <1>2. CASE WsGoesOn
    BY <1>2 DEF WsGoesOn, WsStart, WsPass, WsDrop, WsStop, WsEmpty, SameStore
  <1> QED
    BY <1>1, <1>2 DEF Next, PeerLeaves, SetClock, SameStore, vars

(* What issue does.                                                        *)
LEMMA IssueIs ==
    ASSUME TypeOK, Issue
    PROVE  /\ Len(issued) \in Nat /\ Issued = 1..Len(issued)
           /\ Len(issued') = Len(issued) + 1 /\ Issued' = 1..(Len(issued) + 1)
           /\ \A t \in Issued : uses'[t] = uses[t] /\ issued'[t] = issued[t]
           /\ uses'[Len(issued) + 1] = 0 /\ issued'[Len(issued) + 1] = now
           /\ tickets'[next] = [ticket |-> Len(issued) + 1, issuedAt |-> now, used |-> FALSE]
           /\ \A i \in Places : i # next => tickets'[i] = tickets[i]
           /\ next \in Places /\ next' = NextPlace /\ now' = now
  <1>1. /\ issued \in Seq(Times) /\ uses \in Seq(Nat) /\ Len(uses) = Len(issued)
        /\ now \in Times /\ 0 \in Nat
        /\ issued' = Append(issued, now) /\ uses' = Append(uses, 0)
    BY DEF TypeOK, Issue
  <1>2. /\ Len(issued) \in Nat /\ Issued = 1..Len(issued)
        /\ Len(issued') = Len(issued) + 1 /\ Issued' = 1..(Len(issued) + 1)
        /\ \A t \in Issued : issued'[t] = issued[t]
        /\ issued'[Len(issued) + 1] = now
    BY <1>1, AppendIs DEF Issued
  <1>3. (\A t \in Issued : uses'[t] = uses[t]) /\ uses'[Len(issued) + 1] = 0
    BY <1>1, <1>2, AppendIs
  <1>4. /\ tickets'[next] = [ticket |-> Len(issued) + 1, issuedAt |-> now, used |-> FALSE]
        /\ \A i \in Places : i # next => tickets'[i] = tickets[i]
        /\ next \in Places /\ next' = NextPlace /\ now' = now
    BY DEF TypeOK, Issue
  <1> QED
    BY <1>2, <1>3, <1>4

OnceInv == TypeOK /\ PlaceInv /\ Distinct /\ TicketOnce

LEMMA OnceNext == OnceInv /\ [Next]_vars => (PlaceInv /\ Distinct /\ TicketOnce)'
  <1> SUFFICES ASSUME OnceInv, [Next]_vars PROVE (PlaceInv /\ Distinct /\ TicketOnce)'
    OBVIOUS
  <1>0. TypeOK /\ PlaceInv /\ Distinct /\ TicketOnce
    BY DEF OnceInv
  <1>1. CASE Issue
    <2> DEFINE n == Len(issued) + 1
    <2>1. /\ n \notin Issued /\ n \in Issued' /\ Issued \subseteq Issued'
          /\ \A t \in Issued' : t \in Issued \/ t = n
      BY <1>0, <1>1, IssueIs
    <2>2. /\ \A t \in Issued : uses'[t] = uses[t]
          /\ uses'[n] = 0 /\ next \in Places
          /\ tickets'[next].ticket = n
          /\ \A i \in Places : i # next => tickets'[i] = tickets[i]
      BY <1>0, <1>1, IssueIs
    <2> HIDE DEF n
    <2>3. PlaceInv'
      BY <1>0, <2>1, <2>2 DEF PlaceInv
    <2>4. Distinct'
      BY <1>0, <2>1, <2>2 DEF Distinct, PlaceInv
    <2>5. TicketOnce'
      BY <1>0, <2>1, <2>2 DEF TicketOnce
    <2> QED
      BY <2>3, <2>4, <2>5
  <1>2. ASSUME NEW t \in Issued, Consume(t) PROVE (PlaceInv /\ Distinct /\ TicketOnce)'
    <2>1. /\ Issued' = Issued
          /\ \A u \in Issued : uses'[u] = IF u = t THEN uses[t] + 1 ELSE uses[u]
      BY <1>0, <1>2, ConsumeIs DEF Issued
    <2>2. PICK i \in Places :
             /\ tickets[i].ticket = t /\ ~tickets[i].used
             /\ \A j \in Places : /\ tickets'[j].ticket = tickets[j].ticket
                                  /\ tickets'[j].used = (tickets[j].used \/ j = i)
      BY <1>0, <1>2, ConsumeIs DEF GoodAt
    <2>3. uses[t] = 0
      BY <1>0, <2>2 DEF PlaceInv
    <2>4. \A j \in Places : ~tickets'[j].used => ~tickets[j].used /\ tickets[j].ticket # t
      BY <1>0, <2>2 DEF Distinct
    <2>5. PlaceInv'
      BY <1>0, <2>1, <2>2, <2>4 DEF PlaceInv
    <2>6. Distinct'
      BY <1>0, <2>2, <2>4 DEF Distinct
    <2>7. TicketOnce'
      BY <1>0, <2>1, <2>3 DEF TicketOnce
    <2> QED
      BY <2>5, <2>6, <2>7
  <1>3. CASE SameStore
    BY <1>0, <1>3 DEF SameStore, PlaceInv, Distinct, TicketOnce, Issued
  <1> QED
    BY <1>1, <1>2, <1>3, StoreSteps

(* No ticket is good twice, however often the store rolls over.            *)
THEOREM TicketOnceCorrect == Spec => []TicketOnce
  <1>1. Init => OnceInv
    <2> SUFFICES ASSUME Init PROVE OnceInv
      OBVIOUS
    <2>1. \A i \in Places : tickets[i].used
      BY DEF Init, Blank
    <2>2. Issued = {}
      BY EmptySeq DEF Init, Issued
    <2> QED
      BY <2>1, <2>2, TypeInit DEF OnceInv, PlaceInv, Distinct, TicketOnce
  <1>2. OnceInv /\ [Next]_vars => OnceInv'
    BY TypeNext, OnceNext DEF OnceInv
  <1>3. OnceInv => TicketOnce
    BY DEF OnceInv
  <1> QED
    BY <1>1, <1>2, <1>3, PTL DEF Spec

------------------------------------------------------------------------------
(* The place a ticket among the last MaxTickets is in, counting back from  *)
(* the one that comes next.                                                *)
PlaceOf(t) ==
    LET back == next - 1 - (Len(issued) - t)
    IN  IF back >= 0 THEN back ELSE back + MaxTickets

RecentInv ==
    \A t \in Issued : t > Len(issued) - MaxTickets =>
        /\ PlaceOf(t) \in Places
        /\ tickets[PlaceOf(t)].ticket = t
        /\ tickets[PlaceOf(t)].issuedAt = issued[t]
        /\ uses[t] = 0 => ~tickets[PlaceOf(t)].used

(* issue leaves the place of every ticket it does not evict alone.         *)
LEMMA PlaceMoves ==
    ASSUME TypeOK, Issue
    PROVE  /\ \A n : n = Len(issued) + 1 => PlaceOf(n)' = next
           /\ \A t \in 1..Len(issued) : t > Len(issued) + 1 - MaxTickets =>
                 PlaceOf(t)' = PlaceOf(t) /\ PlaceOf(t) \in Places /\ PlaceOf(t) # next
  <1>1. Len(issued) \in Nat /\ Len(issued') = Len(issued) + 1
    BY IssueIs
  <1>2. next' = IF next + 1 = MaxTickets THEN 0 ELSE next + 1
    BY IssueIs, NextPlaceIs
  <1>3. next \in Nat /\ next < MaxTickets
    BY DEF TypeOK, Places
  <1>4. \A n : n = Len(issued) + 1 => PlaceOf(n)' = next
    BY <1>1, <1>2, <1>3 DEF PlaceOf
  <1>5. ASSUME NEW t \in 1..Len(issued), t > Len(issued) + 1 - MaxTickets
        PROVE  PlaceOf(t)' = PlaceOf(t) /\ PlaceOf(t) \in Places /\ PlaceOf(t) # next
    BY <1>1, <1>2, <1>3, <1>5 DEF PlaceOf, Places
  <1> QED
    BY <1>4, <1>5

LEMMA RecentNext == TypeOK /\ RecentInv /\ [Next]_vars => RecentInv'
  <1> SUFFICES ASSUME TypeOK, RecentInv, [Next]_vars PROVE RecentInv'
    OBVIOUS
  <1>1. CASE Issue
    <2> SUFFICES ASSUME NEW t \in Issued', t > Len(issued') - MaxTickets
                 PROVE  /\ (PlaceOf(t) \in Places)'
                        /\ (tickets[PlaceOf(t)].ticket = t)'
                        /\ (tickets[PlaceOf(t)].issuedAt = issued[t])'
                        /\ (uses[t] = 0 => ~tickets[PlaceOf(t)].used)'
      BY DEF RecentInv
    <2>1. /\ Len(issued) \in Nat /\ Issued = 1..Len(issued)
          /\ t \in 1..(Len(issued) + 1) /\ Len(issued') = Len(issued) + 1
      BY <1>1, IssueIs
    <2>2. CASE t = Len(issued) + 1
      BY <1>1, <2>2, IssueIs, PlaceMoves
    <2>3. CASE t # Len(issued) + 1
      <3>1. t \in Issued /\ t > Len(issued) + 1 - MaxTickets /\ t > Len(issued) - MaxTickets
        BY <2>1, <2>3
      <3>2. PlaceOf(t)' = PlaceOf(t) /\ PlaceOf(t) \in Places /\ PlaceOf(t) # next
        BY <1>1, <2>1, <3>1, PlaceMoves
      <3>3. tickets'[PlaceOf(t)] = tickets[PlaceOf(t)] /\ uses'[t] = uses[t] /\ issued'[t] = issued[t]
        BY <1>1, <3>1, <3>2, IssueIs
      <3> QED
        BY <3>1, <3>2, <3>3 DEF RecentInv
    <2> QED
      BY <2>2, <2>3
  <1>2. ASSUME NEW u \in Issued, Consume(u) PROVE RecentInv'
    <2>1. /\ issued' = issued /\ next' = next /\ Issued' = Issued
          /\ \A t \in Issued : uses'[t] = IF t = u THEN uses[u] + 1 ELSE uses[t]
      BY <1>2, ConsumeIs DEF Issued
    <2>2. PICK i \in Places :
             /\ tickets[i].ticket = u
             /\ \A j \in Places : /\ tickets'[j].ticket = tickets[j].ticket
                                  /\ tickets'[j].issuedAt = tickets[j].issuedAt
                                  /\ tickets'[j].used = (tickets[j].used \/ j = i)
      BY <1>2, ConsumeIs DEF GoodAt
    <2>3. uses[u] \in Nat
      BY DomainIs DEF TypeOK, Issued
    <2>4. \A t \in Issued : PlaceOf(t)' = PlaceOf(t)
      BY <2>1 DEF PlaceOf
    <2>5. \A t \in Issued : uses'[t] = 0 => uses[t] = 0 /\ t # u
      BY <2>1, <2>3
    <2> SUFFICES ASSUME NEW t \in Issued, t > Len(issued) - MaxTickets
                 PROVE  /\ PlaceOf(t) \in Places
                        /\ tickets'[PlaceOf(t)].ticket = t
                        /\ tickets'[PlaceOf(t)].issuedAt = issued[t]
                        /\ uses'[t] = 0 => ~tickets'[PlaceOf(t)].used
      BY <2>1, <2>4 DEF RecentInv
    <2>6. /\ PlaceOf(t) \in Places
          /\ tickets[PlaceOf(t)].ticket = t
          /\ tickets[PlaceOf(t)].issuedAt = issued[t]
          /\ uses[t] = 0 => ~tickets[PlaceOf(t)].used
      BY DEF RecentInv
    <2>7. uses'[t] = 0 => PlaceOf(t) # i
      BY <2>2, <2>5, <2>6
    <2> QED
      BY <2>2, <2>5, <2>6, <2>7
  <1>3. CASE SameStore
    <2>1. \A t \in Issued : PlaceOf(t)' = PlaceOf(t)
      BY <1>3 DEF SameStore, PlaceOf
    <2> QED
      BY <1>3, <2>1 DEF SameStore, RecentInv, Issued
  <1> QED
    BY <1>1, <1>2, <1>3, StoreSteps

(* Only kMaxTickets newer tickets, time or use end the life of a ticket.   *)
THEOREM FreshTicketCorrect == Spec => []FreshTicketIsGood
  <1>1. Init => TypeOK /\ RecentInv
    <2> SUFFICES ASSUME Init PROVE RecentInv
      BY TypeInit
    <2>1. Issued = {}
      BY EmptySeq DEF Init, Issued
    <2> QED
      BY <2>1 DEF RecentInv
  <1>2. TypeOK /\ RecentInv /\ [Next]_vars => (TypeOK /\ RecentInv)'
    BY TypeNext, RecentNext
  <1>3. RecentInv => FreshTicketIsGood
    BY DEF RecentInv, FreshTicketIsGood, GoodAt
  <1> QED
    BY <1>1, <1>2, <1>3, PTL DEF Spec

-------------------------------------------------------------------------------
(* A ticket opens one socket at most, and does so while it is fresh.       *)
THEOREM TicketsAreGoodCorrect == Spec => []TicketsAreGood
  <1>1. TicketOnce /\ FreshTicketIsGood => TicketsAreGood
    BY DEF TicketsAreGood
  <1> QED
    BY <1>1, TicketOnceCorrect, FreshTicketCorrect, PTL
==============================================================================
