--------------------------- MODULE PairingProofs ---------------------------
(***************************************************************************)
(* What holds of Pairing for any number of clients, presses and power      *)
(* cuts, on either board.                                                  *)
(***************************************************************************)
EXTENDS Pairing, FiniteSetTheorems, TLAPS

USE ConstantsAssumption DEF ConstantsAssumption
USE DEF store, net, history

------------------------------------------------------------------------------
LEMMA ElementsFacts ==
    ASSUME NEW s \in Seq(Ids)
    PROVE  /\ Elements(s) \subseteq Ids
           /\ s = <<>> <=> Elements(s) = {}
           /\ \A e \in Ids : /\ Append(s, e) \in Seq(Ids)
                             /\ Len(Append(s, e)) = Len(s) + 1
                             /\ Elements(Append(s, e)) = Elements(s) \cup {e}
  <1>1. /\ \A i \in DOMAIN s : s[i] \in Ids
        /\ Len(s) \in Nat /\ DOMAIN s = 1..Len(s)
        /\ s = <<>> <=> Len(s) = 0
    OBVIOUS
  <1>2. ASSUME NEW e \in Ids
        PROVE  /\ Append(s, e) \in Seq(Ids) /\ Len(Append(s, e)) = Len(s) + 1
               /\ DOMAIN Append(s, e) = 1..(Len(s) + 1)
               /\ \A i \in 1..Len(s) : Append(s, e)[i] = s[i]
               /\ Append(s, e)[Len(s) + 1] = e
    OBVIOUS
  <1>3. ASSUME NEW e \in Ids
        PROVE  Elements(Append(s, e)) = Elements(s) \cup {e}
    <2>1. 1..(Len(s) + 1) = (1..Len(s)) \cup {Len(s) + 1}
      BY <1>1
    <2> QED
      BY <1>1, <1>2, <2>1 DEF Elements
  <1>4. s = <<>> <=> Elements(s) = {}
    <2>1. CASE Len(s) = 0
      BY <1>1, <2>1 DEF Elements
    <2>2. CASE Len(s) # 0
      <3>1. s[1] \in Elements(s)
        BY <1>1, <2>2 DEF Elements
      <3> QED
        BY <1>1, <2>2, <3>1
    <2> QED
      BY <2>1, <2>2
  <1>5. Elements(s) \subseteq Ids
    BY <1>1 DEF Elements
  <1> QED
    BY <1>2, <1>3, <1>4, <1>5

Distinct(s) == \A i, j \in DOMAIN s : s[i] = s[j] => i = j

LEMMA AppendDistinct ==
    ASSUME NEW s \in Seq(Ids), NEW e \in Ids, Distinct(s), e \notin Elements(s)
    PROVE  Distinct(Append(s, e))
  <1>1. /\ Len(s) \in Nat /\ DOMAIN s = 1..Len(s)
        /\ DOMAIN Append(s, e) = 1..(Len(s) + 1)
        /\ \A i \in 1..Len(s) : Append(s, e)[i] = s[i]
        /\ Append(s, e)[Len(s) + 1] = e
    OBVIOUS
  <1>2. \A i \in 1..Len(s) : s[i] # e
    BY <1>1 DEF Elements
  <1> SUFFICES ASSUME NEW i \in 1..(Len(s) + 1), NEW j \in 1..(Len(s) + 1),
                      Append(s, e)[i] = Append(s, e)[j]
               PROVE  i = j
    BY <1>1 DEF Distinct
  <1>3. CASE i = Len(s) + 1 /\ j # Len(s) + 1
    BY <1>1, <1>2, <1>3
  <1>4. CASE i # Len(s) + 1 /\ j = Len(s) + 1
    BY <1>1, <1>2, <1>4
  <1>5. CASE i # Len(s) + 1 /\ j # Len(s) + 1
    <2>1. i \in 1..Len(s) /\ j \in 1..Len(s)
      BY <1>1, <1>5
    <2> QED
      BY <1>1, <2>1 DEF Distinct
  <1> QED
    BY <1>3, <1>4, <1>5

(* CredentialStore::remove takes out one client and keeps the others.      *)
LEMMA WithoutIs ==
    ASSUME clients \in Seq(Ids), Distinct(clients), NEW c \in Elements(clients)
    PROVE  /\ Without(c) \in Seq(Ids) /\ Len(Without(c)) = Len(clients) - 1
           /\ Elements(Without(c)) = Elements(clients) \ {c}
           /\ Distinct(Without(c))
  <1> DEFINE n == Len(clients)
             i == CHOOSE k \in DOMAIN clients : clients[k] = c
             from(j) == IF j < i THEN j ELSE j + 1
             w == [j \in 1..(n - 1) |-> clients[from(j)]]
  <1>1. n \in Nat /\ DOMAIN clients = 1..n /\ \A k \in 1..n : clients[k] \in Ids
    OBVIOUS
  <1>2. i \in 1..n /\ clients[i] = c
    BY <1>1 DEF Elements
  <1>3. Without(c) = w
    BY DEF Without
  <1>4. n - 1 \in Nat
    BY <1>1, <1>2
  <1> HIDE DEF i, n
  <1>5. \A j \in 1..(n - 1) : from(j) \in 1..n /\ from(j) # i
    BY <1>1, <1>2
  <1>6. \A k \in 1..n : k # i => \E j \in 1..(n - 1) : from(j) = k
    <2> SUFFICES ASSUME NEW k \in 1..n, k # i PROVE \E j \in 1..(n - 1) : from(j) = k
      OBVIOUS
    <2>1. CASE k < i
      <3>1. k \in 1..(n - 1) /\ from(k) = k
        BY <1>1, <1>2, <2>1
      <3> QED
        BY <3>1
    <2>2. CASE k > i
      <3>1. k - 1 \in 1..(n - 1) /\ from(k - 1) = k
        BY <1>1, <1>2, <2>2
      <3> QED
        BY <3>1
    <2> QED
      BY <1>1, <1>2, <2>1, <2>2
  <1>7. \A j, k \in 1..(n - 1) : from(j) = from(k) => j = k
    BY <1>1, <1>2
  <1> HIDE DEF from
  <1>8. w \in [1..(n - 1) -> Ids]
    BY <1>1, <1>5
  <1>9. w \in Seq(Ids) /\ Len(w) = n - 1 /\ DOMAIN w = 1..(n - 1)
    BY <1>4, <1>8
  <1>10. \A k \in 1..n : clients[k] = c => k = i
    BY <1>1, <1>2 DEF Distinct
  <1>11. Elements(w) = Elements(clients) \ {c}
    <2>1. \A j \in 1..(n - 1) : w[j] \in Elements(clients) /\ w[j] # c
      BY <1>1, <1>5, <1>10 DEF Elements
    <2>2. ASSUME NEW e \in Elements(clients), e # c PROVE e \in Elements(w)
      <3>1. PICK k \in 1..n : clients[k] = e
        BY <1>1 DEF Elements
      <3>2. PICK j \in 1..(n - 1) : from(j) = k
        BY <1>2, <1>6, <2>2, <3>1
      <3>3. w[j] = e
        BY <3>1, <3>2
      <3> QED
        BY <1>9, <3>3 DEF Elements
    <2> QED
      BY <1>9, <2>1, <2>2 DEF Elements
  <1>12. Distinct(w)
    <2> SUFFICES ASSUME NEW j \in 1..(n - 1), NEW k \in 1..(n - 1), w[j] = w[k]
                 PROVE  j = k
      BY <1>9 DEF Distinct
    <2>1. from(j) = from(k)
      BY <1>1, <1>5 DEF Distinct
    <2> QED
      BY <1>7, <2>1
  <1> QED
    BY <1>3, <1>9, <1>11, <1>12 DEF n

------------------------------------------------------------------------------
(* The store holds nobody twice, and the net task does not forget what it  *)
(* has checked.                                                            *)
StoreOK ==
    /\ Saving("close") \/ Saving("tell") => id \in Ids
    /\ nPc = "add" => Len(clients) < MaxClients /\ id \notin added
    /\ Distinct(clients) /\ Elements(clients) \subseteq added
    /\ Distinct(stored) /\ Elements(stored) \subseteq added

LEMMA NewDeadlineType ==
    ASSUME uptime \in Nat
    PROVE  NewDeadline \in 1..(Wrap - 1)
  <1>1. Wrap \in Nat /\ Wrap > 2 /\ Window \in Nat
    OBVIOUS
  <1>2. Millis \in Nat
    BY <1>1 DEF Millis
  <1>3. (Millis + Window) % Wrap \in 0..(Wrap - 1)
    BY <1>1, <1>2
  <1> QED
    BY <1>1, <1>3 DEF NewDeadline

LEMMA TypeInit == Init => TypeOK /\ StoreOK
  <1> SUFFICES ASSUME Init PROVE TypeOK /\ StoreOK
    OBVIOUS
  <1>0. 0 \in 0..(Wrap - 1)
    OBVIOUS
  <1>1. TypeOK
    <2>1. <<>> \in Seq(Ids) /\ Len(<<>>) = 0
      OBVIOUS
    <2>2. clients \in Seq(Ids) /\ Len(clients) <= MaxClients /\ stored = clients
      BY <2>1 DEF Init
    <2>3. revokeAll \in BOOLEAN /\ shut \in BOOLEAN
      BY DEF Init
    <2> QED
      BY <1>0, <2>2, <2>3 DEF Init, TypeOK
  <1>2. StoreOK
    BY DEF Init, StoreOK, Saving, Distinct, Elements
  <1> QED
    BY <1>1, <1>2

LEMMA TypeNext == TypeOK /\ StoreOK /\ [Next]_vars => TypeOK' /\ StoreOK'
  <1> SUFFICES ASSUME TypeOK, StoreOK, [Next]_vars PROVE TypeOK' /\ StoreOK'
    OBVIOUS
  <1> USE DEF Saving
  <1>0. /\ clients \in Seq(Ids) /\ stored \in Seq(Ids) /\ Distinct(clients)
        /\ Elements(clients) \subseteq Ids
    BY ElementsFacts DEF TypeOK, StoreOK
  <1>1. CASE PressUp
    <2>1. deadline' \in 0..(Wrap - 1)
      BY <1>1, NewDeadlineType DEF PressUp, TypeOK
    <2>2. TypeOK'
      <3>1. shut' \in BOOLEAN
        BY <1>1 DEF PressUp
      <3> QED
        BY <1>1, <2>1, <3>1 DEF PressUp, TypeOK
    <2>3. StoreOK'
      BY <1>1 DEF PressUp, StoreOK, Distinct, Elements
    <2> QED
      BY <2>2, <2>3
  <1>2. CASE HoldDown
    <2>1. condemned' \subseteq Ids
      BY <1>0, <1>2 DEF HoldDown, TypeOK
    <2> QED
      BY <1>2, <2>1 DEF HoldDown, TypeOK, StoreOK, Distinct, Elements
  <1>3. CASE HouseEndTick
    BY <1>3 DEF HouseEndTick, EndOfTick, TypeOK, StoreOK, Distinct, Elements
  <1>4. CASE NetExchange
    BY <1>4 DEF NetExchange, TypeOK, StoreOK, Distinct, Elements
  <1>5. CASE NetClear
    <2>1. leaving' \subseteq Ids /\ clients' = <<>>
      BY <1>0, <1>5 DEF NetClear, Cleared, TypeOK
    <2>2. clients' \in Seq(Ids) /\ Len(clients') = 0 /\ Elements(clients') = {} /\ Distinct(clients')
      BY <2>1 DEF Elements, Distinct
    <2>3. nPc' = "accept" \/ (nPc' = "save" /\ then' = "accept")
      BY <1>5 DEF NetClear, StartSave
    <2>4. then' \in {"accept", "close", "tell"}
      BY <1>5 DEF NetClear, StartSave, TypeOK
    <2>5. TypeOK'
      BY <1>5, <2>1, <2>2, <2>3, <2>4 DEF NetClear, TypeOK
    <2>6. StoreOK'
      BY <1>5, <2>2, <2>3 DEF NetClear, StoreOK, Distinct, Elements
    <2> QED
      BY <2>5, <2>6
  <1>6. CASE SaveErase
    <2>1. Elements(stored') = {} /\ Distinct(stored') /\ stored' \in Seq(Ids) /\ Len(stored') = 0
      BY <1>6 DEF SaveErase, Elements, Distinct
    <2> QED
      BY <1>6, <2>1 DEF SaveErase, TypeOK, StoreOK, Distinct, Elements
  <1>7. CASE SaveWrite
    <2>1. CASE stored' = clients
      <3>1. TypeOK'
        BY <1>7, <2>1 DEF SaveWrite, TypeOK, StoreOK
      <3>2. StoreOK'
        BY <1>7, <2>1 DEF SaveWrite, TypeOK, StoreOK, Distinct, Elements
      <3> QED
        BY <3>1, <3>2
    <2>2. CASE stored' = stored
      <3>1. TypeOK'
        BY <1>7, <2>2 DEF SaveWrite, TypeOK, StoreOK
      <3>2. StoreOK'
        BY <1>7, <2>2 DEF SaveWrite, TypeOK, StoreOK, Distinct, Elements
      <3> QED
        BY <3>1, <3>2
    <2> QED
      BY <1>7, <2>1, <2>2 DEF SaveWrite
  <1>8. CASE PairRequest
    BY <1>8 DEF PairRequest, HasRoom, TickStart, EndOfTick, TypeOK, StoreOK, Distinct, Elements
  <1>9. CASE NetAdd
    <2>1. id \in Ids /\ id \notin Elements(clients) /\ Len(clients) < MaxClients
      BY <1>9 DEF NetAdd, TypeOK, StoreOK
    <2>2. /\ clients' \in Seq(Ids) /\ Len(clients') = Len(clients) + 1
          /\ Elements(clients') = Elements(clients) \cup {id}
          /\ Distinct(clients')
      BY <1>0, <1>9, <2>1, ElementsFacts, AppendDistinct DEF NetAdd
    <2>3. /\ nPc' = "save" /\ then' = "close" /\ id' = id /\ added' = added \cup {id}
          /\ stored' = stored
      BY <1>9 DEF NetAdd, StartSave
    <2>4. TypeOK'
      <3>1. Len(clients) \in Nat
        BY <1>0
      <3> QED
        BY <1>9, <2>1, <2>2, <2>3, <3>1 DEF NetAdd, TypeOK
    <2>5. StoreOK'
      <3>1. Elements(stored') = Elements(stored) /\ Distinct(stored')
        BY <2>3 DEF StoreOK, Distinct, Elements
      <3> QED
        BY <2>1, <2>2, <2>3, <3>1 DEF StoreOK
    <2> QED
      BY <2>4, <2>5
  <1>10. CASE NetClose
    <2>1. 0 \in 0..(Wrap - 1)
      OBVIOUS
    <2> QED
      BY <1>10, <2>1 DEF NetClose, WindowClosed, TickStart, EndOfTick, TypeOK, StoreOK,
         Distinct, Elements
  <1>11. ASSUME NEW c \in Ids, RevokeRequest(c) PROVE TypeOK' /\ StoreOK'
    <2>1. /\ clients' \in Seq(Ids) /\ Len(clients') = Len(clients) - 1
          /\ Elements(clients') = Elements(clients) \ {c} /\ Distinct(clients')
      BY <1>0, <1>11, WithoutIs DEF RevokeRequest
    <2>2. /\ nPc' = "save" /\ then' = "tell" /\ id' = c /\ late' \in Nat
          /\ stored' = stored /\ added' = added
      BY <1>11 DEF RevokeRequest, StartSave, TypeOK
    <2>3. Len(clients) \in Nat /\ Len(clients') <= MaxClients
      BY <1>0, <2>1 DEF TypeOK
    <2>4. TypeOK'
      BY <1>11, <2>1, <2>2, <2>3 DEF RevokeRequest, TypeOK
    <2>5. StoreOK'
      <3>1. Elements(stored') = Elements(stored) /\ Distinct(stored')
        BY <2>2 DEF StoreOK, Distinct, Elements
      <3> QED
        BY <1>11, <2>1, <2>2, <3>1 DEF StoreOK
    <2> QED
      BY <2>4, <2>5
  <1>12. CASE NetTell
    BY <1>12 DEF NetTell, TickStart, EndOfTick, TypeOK, StoreOK, Distinct, Elements
  <1>13. CASE Serve
    BY <1>13 DEF Serve, TickStart, EndOfTick, TypeOK, StoreOK, Distinct, Elements
  <1>14. CASE NetNobody
    BY <1>14 DEF NetNobody, TickStart, EndOfTick, TypeOK, StoreOK, Distinct, Elements
  <1>15. CASE Tick
    BY <1>15 DEF Tick, TypeOK, StoreOK, Distinct, Elements
  <1>16. CASE PowerCut
    <2>1. 0 \in 0..(Wrap - 1)
      OBVIOUS
    <2>2. TypeOK'
      <3>1. shut' \in BOOLEAN /\ revokeAll' \in BOOLEAN
        BY <1>16 DEF PowerCut
      <3>2. clients' \in Seq(Ids) /\ Len(clients') <= MaxClients /\ cuts' \in 0..MaxCuts
        BY <1>16 DEF PowerCut, TypeOK
      <3> QED
        BY <1>16, <2>1, <3>1, <3>2 DEF PowerCut, TypeOK
    <2>3. StoreOK'
      BY <1>16 DEF PowerCut, StoreOK, Distinct, Elements
    <2> QED
      BY <2>2, <2>3
  <1>17. CASE UNCHANGED vars
    BY <1>17 DEF vars, TypeOK, StoreOK, Distinct, Elements
  <1> QED
    BY <1>1, <1>2, <1>3, <1>4, <1>5, <1>6, <1>7, <1>8, <1>9, <1>10, <1>11, <1>12,
       <1>13, <1>14, <1>15, <1>16, <1>17 DEF Next, House, Net, NetGoesOn

LEMMA StoreCorrect == Spec => [](TypeOK /\ StoreOK)
  BY TypeInit, TypeNext, PTL DEF Spec

(* Every reachable state has its declared types, and the store never holds *)
(* more than kMaxClients (handlePair, CredentialStore::add).               *)
THEOREM TypeCorrect == Spec => []TypeOK
  BY StoreCorrect, PTL

------------------------------------------------------------------------------
(* Serving while the flag is up ends the tick, and the next one takes it.  *)
LateOnce == late <= 1 /\ (late # 0 => nPc \in {"idle", "tell"} \/ Saving("tell"))

LEMMA LateNext == TypeOK /\ LateOnce /\ [Next]_vars => LateOnce'
  <1> SUFFICES ASSUME TypeOK, LateOnce, [Next]_vars PROVE LateOnce'
    OBVIOUS
  <1> USE DEF LateOnce, Saving, TickStart, StartSave
  <1>1. CASE PressUp
    BY <1>1 DEF PressUp, TypeOK
  <1>2. CASE HoldDown
    BY <1>2 DEF HoldDown, TypeOK
  <1>3. CASE HouseEndTick
    BY <1>3 DEF HouseEndTick, TypeOK
  <1>4. CASE NetExchange
    BY <1>4 DEF NetExchange, TypeOK
  <1>5. CASE NetClear
    BY <1>5 DEF NetClear, TypeOK
  <1>6. CASE SaveErase
    BY <1>6 DEF SaveErase, TypeOK
  <1>7. CASE SaveWrite
    BY <1>7 DEF SaveWrite, TypeOK
  <1>8. CASE PairRequest
    BY <1>8 DEF PairRequest, TypeOK
  <1>9. CASE NetAdd
    BY <1>9 DEF NetAdd, TypeOK
  <1>10. CASE NetClose
    BY <1>10 DEF NetClose, TypeOK
  <1>11. ASSUME NEW c \in Ids, RevokeRequest(c) PROVE LateOnce'
    BY <1>11 DEF RevokeRequest, TypeOK
  <1>12. CASE NetTell
    BY <1>12 DEF NetTell, TypeOK
  <1>13. CASE Serve
    BY <1>13 DEF Serve, TypeOK
  <1>14. CASE NetNobody
    BY <1>14 DEF NetNobody, TypeOK
  <1>15. CASE Tick
    BY <1>15 DEF Tick, TypeOK
  <1>16. CASE PowerCut
    BY <1>16 DEF PowerCut, TypeOK
  <1>17. CASE UNCHANGED vars
    BY <1>17 DEF vars, TypeOK
  <1> QED
    BY <1>1, <1>2, <1>3, <1>4, <1>5, <1>6, <1>7, <1>8, <1>9, <1>10, <1>11, <1>12,
       <1>13, <1>14, <1>15, <1>16, <1>17 DEF Next, House, Net, NetGoesOn

(* At most one more request is served once DOWN was held.                  *)
THEOREM OneMoreCorrect == Spec => []OneMoreAtMost
  <1>1. Init => LateOnce
    BY DEF Init, LateOnce
  <1>2. LateOnce => OneMoreAtMost
    BY DEF LateOnce, OneMoreAtMost
  <1> QED
    BY <1>1, <1>2, LateNext, TypeCorrect, PTL DEF Spec

------------------------------------------------------------------------------
(* A pairing under way has a window of its own, which it closes.           *)
WindowSpent ==
    /\ IsFiniteSet(added)
    /\ nPc = "add" => deadline # 0
    /\ OnePairPerPress

LEMMA WindowNext == TypeOK /\ WindowSpent /\ [Next]_vars => WindowSpent'
  <1> SUFFICES ASSUME TypeOK, WindowSpent, [Next]_vars PROVE WindowSpent'
    OBVIOUS
  <1> USE DEF WindowSpent, OnePairPerPress, PairingIsSaved, Saving, TickStart, StartSave
  <1>1. CASE PressUp
    <2>1. Cardinality(added) \in Nat /\ Cardinality(added) <= presses
      BY FS_CardinalityType DEF TypeOK
    <2>2. deadline' # 0
      BY <1>1, NewDeadlineType DEF PressUp, TypeOK
    <2> QED
      BY <1>1, <2>1, <2>2 DEF PressUp, TypeOK
  <1>2. CASE HoldDown
    BY <1>2 DEF HoldDown, TypeOK
  <1>3. CASE HouseEndTick
    BY <1>3 DEF HouseEndTick, TypeOK
  <1>4. CASE NetExchange
    BY <1>4 DEF NetExchange, TypeOK
  <1>5. CASE NetClear
    BY <1>5 DEF NetClear, TypeOK
  <1>6. CASE SaveErase
    BY <1>6 DEF SaveErase, TypeOK
  <1>7. CASE SaveWrite
    <2>1. PairingIsSaved' <=> PairingIsSaved
      BY <1>7 DEF SaveWrite, TypeOK
    <2>2. nPc' # "add"
      BY <1>7 DEF SaveWrite, TypeOK
    <2> QED
      BY <1>7, <2>1, <2>2 DEF SaveWrite
  <1>8. CASE PairRequest
    <2>1. ~PairingIsSaved /\ ~PairingIsSaved' /\ UNCHANGED <<added, deadline, presses>>
      BY <1>8 DEF PairRequest
    <2>2. nPc' = "add" => deadline # 0
      BY <1>8 DEF PairRequest, IsOpen
    <2> QED
      BY <2>1, <2>2
  <1>9. CASE NetAdd
    <2>0. Cardinality(added) \in Nat
      BY FS_CardinalityType
    <2>1. /\ IsFiniteSet(added \cup {id})
          /\ Cardinality(added \cup {id}) =
                IF id \in added THEN Cardinality(added) ELSE Cardinality(added) + 1
      BY FS_AddElement
    <2>2. /\ IsFiniteSet(added') /\ Cardinality(added') <= Cardinality(added) + 1
          /\ Cardinality(added') \in Nat
      BY <1>9, <2>0, <2>1 DEF NetAdd
    <2>3. deadline # 0 /\ ~PairingIsSaved /\ PairingIsSaved' /\ presses' = presses /\ nPc' = "save"
      BY <1>9 DEF NetAdd
    <2> QED
      BY <2>0, <2>2, <2>3 DEF TypeOK
  <1>10. CASE NetClose
    <2>1. Cardinality(added) \in Nat
      BY FS_CardinalityType
    <2> QED
      BY <1>10, <2>1 DEF NetClose, WindowClosed, TypeOK
  <1>11. ASSUME NEW c \in Ids, RevokeRequest(c) PROVE WindowSpent'
    BY <1>11 DEF RevokeRequest, TypeOK
  <1>12. CASE NetTell
    BY <1>12 DEF NetTell, TypeOK
  <1>13. CASE Serve
    BY <1>13 DEF Serve, TypeOK
  <1>14. CASE NetNobody
    BY <1>14 DEF NetNobody, TypeOK
  <1>15. CASE Tick
    BY <1>15 DEF Tick, TypeOK
  <1>16. CASE PowerCut
    <2>1. Cardinality(added) \in Nat
      BY FS_CardinalityType
    <2> QED
      BY <1>16, <2>1 DEF PowerCut, TypeOK
  <1>17. CASE UNCHANGED vars
    BY <1>17 DEF vars, TypeOK
  <1> QED
    BY <1>1, <1>2, <1>3, <1>4, <1>5, <1>6, <1>7, <1>8, <1>9, <1>10, <1>11, <1>12,
       <1>13, <1>14, <1>15, <1>16, <1>17 DEF Next, House, Net, NetGoesOn

(* A press of UP pairs at most one client.                                 *)
THEOREM OnePairCorrect == Spec => []OnePairPerPress
  <1>1. Init => WindowSpent
    BY FS_EmptySet DEF Init, WindowSpent, OnePairPerPress
  <1>2. WindowSpent => OnePairPerPress
    BY DEF WindowSpent
  <1> QED
    BY <1>1, <1>2, WindowNext, TypeCorrect, PTL DEF Spec

------------------------------------------------------------------------------
(* While no save is under way, flash holds what memory holds, as long as   *)
(* saves succeed.                                                          *)
InStep ==
    /\ nPc \notin {"save", "write"} => stored = clients
    /\ Saving("accept") => clients = <<>>
    /\ PairingIsSaved => id \in Elements(clients)
    /\ nPc = "tell" \/ Saving("tell") => id \in added /\ id \notin Elements(clients)
    /\ condemned \subseteq added /\ gone \subseteq added
    /\ gone \cap Elements(clients) = {}
    /\ HoldIsNotLost
    /\ RevokedStayGone

LEMMA InStepNext ==
    ASSUME ~WriteMayFail
    PROVE  TypeOK /\ StoreOK /\ InStep /\ [Next]_vars => InStep'
  <1> SUFFICES ASSUME TypeOK, StoreOK, InStep, [Next]_vars PROVE InStep'
    OBVIOUS
  <1> USE DEF InStep, HoldIsNotLost, RevokedStayGone, PairingIsSaved, Saving, TickStart,
          StartSave
  <1>1. CASE PressUp
    BY <1>1 DEF PressUp, TypeOK, Elements
  <1>2. CASE HoldDown
    <2>1. condemned' \subseteq added' /\ revokeAll' = TRUE
      BY <1>2 DEF HoldDown, StoreOK
    <2>2. UNCHANGED <<clients, stored, nPc, then, id, added, gone>>
      BY <1>2 DEF HoldDown
    <2> QED
      BY <2>1, <2>2 DEF Elements
  <1>3. CASE HouseEndTick
    BY <1>3 DEF HouseEndTick, TypeOK, Elements
  <1>4. CASE NetExchange
    BY <1>4 DEF NetExchange, TypeOK, Elements
  <1>5. CASE NetClear
    <2>1. clients' = <<>> /\ Elements(clients') = {}
      BY <1>5 DEF NetClear, Cleared, Elements
    <2>2. UNCHANGED <<stored, id, added, condemned, gone>> /\ Elements(stored') = Elements(stored)
      BY <1>5 DEF NetClear, Elements
    <2>3. stored = clients
      BY <1>5 DEF NetClear
    <2>4. CASE clients = <<>>
      <3>1. nPc' = "accept" /\ Elements(stored') = {}
        BY <1>5, <2>1, <2>2, <2>3, <2>4 DEF NetClear
      <3> QED
        BY <2>1, <2>2, <2>3, <2>4, <3>1
    <2>5. CASE clients # <<>>
      <3>1. nPc' = "save" /\ then' = "accept"
        BY <1>5, <2>5 DEF NetClear
      <3> QED
        BY <2>1, <2>2, <3>1
    <2> QED
      BY <2>4, <2>5
  <1>6. CASE SaveErase
    <2>1. Elements(stored') = {} /\ Elements(clients') = Elements(clients)
      BY <1>6 DEF SaveErase, Elements
    <2> QED
      BY <1>6, <2>1 DEF SaveErase
  <1>7. CASE SaveWrite
    <2>1. /\ stored' = clients /\ clients' = clients /\ nPc' = then
          /\ UNCHANGED <<revokeAll, then, id, added, condemned, gone>>
          /\ nPc \in {"save", "write"}
      BY <1>7 DEF SaveWrite
    <2>2. Elements(stored') = Elements(clients) /\ Elements(clients') = Elements(clients)
      BY <2>1
    <2>3. then = "accept" => Elements(clients) = {}
      BY <2>1 DEF Elements
    <2>4. nPc' \in {"accept", "close", "tell"}
      BY <2>1 DEF TypeOK
    <2>5. condemned' \cap (Elements(clients') \cup Elements(stored')) # {} => revokeAll'
      BY <2>1, <2>2, <2>3, <2>4
    <2> QED
      BY <2>1, <2>2, <2>3, <2>4, <2>5
  <1>8. CASE PairRequest
    BY <1>8 DEF PairRequest, TypeOK, Elements
  <1>9. CASE NetAdd
    <2>1. /\ id \in Ids /\ id \notin added /\ Elements(clients') = Elements(clients) \cup {id}
          /\ Elements(stored') = Elements(stored)
      BY <1>9, ElementsFacts DEF NetAdd, TypeOK, StoreOK
    <2>2. /\ nPc' = "save" /\ then' = "close" /\ added' = added \cup {id} /\ nPc = "add"
          /\ UNCHANGED <<revokeAll, id, condemned, gone, stored>>
      BY <1>9 DEF NetAdd
    <2> QED
      BY <2>1, <2>2
  <1>10. CASE NetClose
    <2>1. nPc' = "idle" /\ nPc = "close" /\ UNCHANGED <<clients, stored, revokeAll, added, condemned, gone>>
      BY <1>10 DEF NetClose
    <2> QED
      BY <2>1 DEF Elements
  <1>11. ASSUME NEW c \in Ids, RevokeRequest(c) PROVE InStep'
    <2>1. /\ Elements(clients') = Elements(clients) \ {c} /\ c \in Elements(clients)
          /\ Elements(stored') = Elements(stored) /\ c \in added
      BY <1>11, WithoutIs DEF RevokeRequest, TypeOK, StoreOK
    <2>2. /\ nPc' = "save" /\ then' = "tell" /\ id' = c /\ nPc = "accept"
          /\ UNCHANGED <<revokeAll, added, condemned, gone, stored>>
      BY <1>11 DEF RevokeRequest
    <2> QED
      BY <2>1, <2>2
  <1>12. CASE NetTell
    <2>1. /\ nPc' = "idle" /\ nPc = "tell" /\ gone' = gone \cup {id}
          /\ UNCHANGED <<clients, stored, revokeAll, added, condemned>>
      BY <1>12 DEF NetTell
    <2>2. stored = clients /\ Elements(clients') = Elements(clients)
          /\ Elements(stored') = Elements(stored)
      BY <2>1
    <2> QED
      BY <2>1, <2>2
  <1>13. CASE Serve
    BY <1>13 DEF Serve, TypeOK, Elements
  <1>14. CASE NetNobody
    BY <1>14 DEF NetNobody, TypeOK, Elements
  <1>15. CASE Tick
    BY <1>15 DEF Tick, TypeOK, Elements
  <1>16. CASE PowerCut
    <2>1. /\ nPc' = "idle" /\ clients' = stored /\ stored' = stored /\ condemned' = {}
          /\ UNCHANGED <<added, gone>>
      BY <1>16 DEF PowerCut
    <2> QED
      BY <2>1 DEF Elements
  <1>17. CASE UNCHANGED vars
    BY <1>17 DEF vars, TypeOK, Elements
  <1> QED
    BY <1>1, <1>2, <1>3, <1>4, <1>5, <1>6, <1>7, <1>8, <1>9, <1>10, <1>11, <1>12,
       <1>13, <1>14, <1>15, <1>16, <1>17 DEF Next, House, Net, NetGoesOn

LEMMA InStepCorrect ==
    ASSUME ~WriteMayFail
    PROVE  Spec => []InStep
  <1>1. Init => InStep
    BY DEF Init, InStep, HoldIsNotLost, RevokedStayGone, PairingIsSaved, Saving, Elements
  <1> QED
    BY <1>1, InStepNext, StoreCorrect, PTL DEF Spec

(* As long as saves succeed, a held DOWN is pending until it is done, on   *)
(* either board and through power cuts.                                    *)
THEOREM HoldCorrect ==
    ASSUME ~WriteMayFail
    PROVE  Spec => []HoldIsNotLost
  <1>1. InStep => HoldIsNotLost
    BY DEF InStep
  <1> QED
    BY <1>1, InStepCorrect, PTL

(* As long as saves succeed, a revoked client stays gone.                  *)
THEOREM RevokedCorrect ==
    ASSUME ~WriteMayFail
    PROVE  Spec => []RevokedStayGone
  <1>1. InStep => RevokedStayGone
    BY DEF InStep
  <1> QED
    BY <1>1, InStepCorrect, PTL

------------------------------------------------------------------------------
Kept == issued \ leaving \subseteq Elements(clients) /\ PairingsSurvive

LEMMA KeptNext ==
    ASSUME ~WriteMayFail, AtomicBlob
    PROVE  TypeOK /\ StoreOK /\ InStep /\ Kept /\ [Next]_vars => Kept'
  <1> SUFFICES ASSUME TypeOK, StoreOK, InStep, Kept, [Next]_vars PROVE Kept'
    OBVIOUS
  <1> USE DEF Kept, PairingsSurvive
  <1>1. CASE PressUp
    BY <1>1 DEF PressUp, Elements
  <1>2. CASE HoldDown
    BY <1>2 DEF HoldDown, Elements
  <1>3. CASE HouseEndTick
    BY <1>3 DEF HouseEndTick, Elements
  <1>4. CASE NetExchange
    BY <1>4 DEF NetExchange, Elements
  <1>5. CASE NetClear
    <2>1. leaving' = leaving \cup Elements(clients) /\ issued' = issued
      BY <1>5 DEF NetClear
    <2> QED
      BY <2>1
  <1>6. CASE SaveErase
    BY <1>6 DEF SaveErase
  <1>7. CASE SaveWrite
    <2>1. stored' = clients /\ clients' = clients /\ UNCHANGED <<issued, leaving>>
      BY <1>7 DEF SaveWrite
    <2> QED
      BY <2>1 DEF Elements
  <1>8. CASE PairRequest
    BY <1>8 DEF PairRequest, Elements
  <1>9. CASE NetAdd
    <2>1. /\ Elements(clients') = Elements(clients) \cup {id}
          /\ Elements(stored') = Elements(stored) /\ UNCHANGED <<issued, leaving>>
      BY <1>9, ElementsFacts DEF NetAdd, TypeOK
    <2> QED
      BY <2>1
  <1>10. CASE NetClose
    <2>1. /\ stored = clients /\ id \in Elements(clients)
          /\ UNCHANGED <<clients, stored, leaving>> /\ issued' = issued \cup {id}
      BY <1>10 DEF NetClose, InStep, PairingIsSaved
    <2> QED
      BY <2>1 DEF Elements
  <1>11. ASSUME NEW c \in Ids, RevokeRequest(c) PROVE Kept'
    <2>1. /\ Elements(clients') = Elements(clients) \ {c}
          /\ Elements(stored') = Elements(stored)
          /\ leaving' = leaving \cup {c} /\ issued' = issued
      BY <1>11, WithoutIs DEF RevokeRequest, TypeOK, StoreOK
    <2> QED
      BY <2>1
  <1>12. CASE NetTell
    BY <1>12 DEF NetTell, Elements
  <1>13. CASE Serve
    BY <1>13 DEF Serve, Elements
  <1>14. CASE NetNobody
    BY <1>14 DEF NetNobody, Elements
  <1>15. CASE Tick
    BY <1>15 DEF Tick, Elements
  <1>16. CASE PowerCut
    <2>1. clients' = stored /\ UNCHANGED <<stored, issued, leaving>>
      BY <1>16 DEF PowerCut
    <2> QED
      BY <2>1 DEF Elements
  <1>17. CASE UNCHANGED vars
    BY <1>17 DEF vars, Elements
  <1> QED
    BY <1>1, <1>2, <1>3, <1>4, <1>5, <1>6, <1>7, <1>8, <1>9, <1>10, <1>11, <1>12,
       <1>13, <1>14, <1>15, <1>16, <1>17 DEF Next, House, Net, NetGoesOn

(* Where a save replaces the blob and succeeds, who was given a secret is  *)
(* in flash at every moment until revoked.                                 *)
THEOREM SurviveCorrect ==
    ASSUME ~WriteMayFail, AtomicBlob
    PROVE  Spec => []PairingsSurvive
  <1>1. Init => Kept
    BY DEF Init, Kept, PairingsSurvive
  <1>2. Kept => PairingsSurvive
    BY DEF Kept
  <1> QED
    BY <1>1, <1>2, KeptNext, InStepCorrect, StoreCorrect, PTL DEF Spec

-------------------------------------------------------------------------------
(* Where writes succeed, a held DOWN takes effect, one request later at    *)
(* most.                                                                   *)
THEOREM HoldTakesEffectCorrect ==
    ASSUME ~WriteMayFail
    PROVE  Spec => []HoldTakesEffect
  <1>1. HoldIsNotLost /\ OneMoreAtMost => HoldTakesEffect
    BY DEF HoldTakesEffect
  <1> QED
    BY <1>1, HoldCorrect, OneMoreCorrect, PTL

(* Where a save replaces the blob and succeeds, a boot at any moment finds *)
(* whom it should and none that was revoked.                               *)
THEOREM FlashIsTrueCorrect ==
    ASSUME ~WriteMayFail, AtomicBlob
    PROVE  Spec => []FlashIsTrue
  <1>1. PairingsSurvive /\ RevokedStayGone => FlashIsTrue
    BY DEF FlashIsTrue
  <1> QED
    BY <1>1, SurviveCorrect, RevokedCorrect, PTL

-------------------------------------------------------------------------------
(* The window's word.  Two words differ by less than Wrap, so their        *)
(* difference wraps once at most.                                          *)
LEMMA Difference ==
    ASSUME NEW a \in 0..(Wrap - 1), NEW b \in 0..(Wrap - 1)
    PROVE  (a - b) % Wrap = IF a >= b THEN a - b ELSE a - b + Wrap
  <1>1. CASE a >= b
    BY <1>1
  <1>2. CASE a < b
    BY <1>2
  <1> QED
    BY <1>1, <1>2

LEMMA Successor ==
    ASSUME NEW n \in Nat
    PROVE  (n + 1) % Wrap = IF (n % Wrap) + 1 = Wrap THEN 0 ELSE (n % Wrap) + 1
  <1> DEFINE q == n \div Wrap
             r == n % Wrap
  <1>1. n = Wrap * q + r /\ r \in 0..(Wrap - 1) /\ q \in Nat
    OBVIOUS
  <1> HIDE DEF q, r
  <1>2. CASE r + 1 = Wrap
    <2>1. n + 1 = Wrap * (q + 1)
      BY <1>1, <1>2
    <2>2. (Wrap * (q + 1)) % Wrap = 0
      BY <1>1
    <2> QED
      BY <1>2, <2>1, <2>2 DEF r
  <1>3. CASE r + 1 < Wrap
    <2>1. n + 1 = Wrap * q + (r + 1)
      BY <1>1, <1>3
    <2>2. (Wrap * q + (r + 1)) % Wrap = r + 1
      BY <1>1, <1>3
    <2> QED
      BY <1>3, <2>1, <2>2 DEF r
  <1> QED
    BY <1>1, <1>2, <1>3

(* How long ago UP was pressed, how far millis() is past the deadline, and *)
(* the word that stands for a small number of either sign.                 *)
Age == uptime - pressedAt

Behind == (Millis - deadline) % Wrap

Word(x) == IF x >= 0 THEN x ELSE x + Wrap

(* The deadline is Window milliseconds after the press, or one more.       *)
InTime ==
    /\ Age \in 0..MaxIdle
    /\ ~shut => deadline # 0
    /\ deadline # 0 => Behind = Word(Age - Window) \/ Behind = Word(Age - Window - 1)

LEMMA PressInTime ==
    ASSUME TypeOK, InTime, PressUp
    PROVE  InTime'
  <1>1. /\ UNCHANGED uptime /\ pressedAt' = uptime /\ deadline' = NewDeadline
        /\ uptime \in Nat
    BY DEF PressUp, TypeOK
  <1> DEFINE n == Millis
             d == NewDeadline
  <1>2. n \in 0..(Wrap - 1) /\ n' = n
    BY <1>1 DEF Millis
  <1>3. /\ d = (IF n + Window < Wrap THEN n + Window ELSE n + Window - Wrap)
           \/ (d = 1 /\ n + Window = Wrap)
        /\ d \in 1..(Wrap - 1)
    <2>1. (n + Window) % Wrap = IF n + Window < Wrap THEN n + Window ELSE n + Window - Wrap
      <3> HIDE DEF n
      <3>1. CASE n + Window < Wrap
        BY <1>2, <3>1
      <3>2. CASE n + Window >= Wrap
        BY <1>2, <3>2
      <3> QED
        BY <1>2, <3>1, <3>2
    <2>2. d = IF (n + Window) % Wrap = 0 THEN 1 ELSE (n + Window) % Wrap
      BY DEF NewDeadline
    <2> HIDE DEF n, d
    <2> QED
      BY <1>2, <2>1, <2>2
  <1>4. Behind' = (n - d) % Wrap
    BY <1>1, <1>2 DEF Behind
  <1>5. Age' = 0
    BY <1>1 DEF Age
  <1> HIDE DEF n, d
  <1>6. (n - d) % Wrap = IF n >= d THEN n - d ELSE n - d + Wrap
    BY <1>2, <1>3, Difference
  <1>7. (n - d) % Wrap \in {Wrap - Window, Wrap - Window - 1}
    BY <1>2, <1>3, <1>6
  <1>8. deadline' # 0
    BY <1>1, <1>3 DEF d
  <1> QED
    BY <1>4, <1>5, <1>7, <1>8 DEF InTime, Word

LEMMA TickInTime ==
    ASSUME MaxIdle < Window + Wrap \div 2, TypeOK, InTime, Tick
    PROVE  InTime'
  <1>1. /\ uptime' = uptime + 1 /\ UNCHANGED <<pressedAt, deadline, shut>>
        /\ uptime - pressedAt < MaxIdle
        /\ uptime \in Nat /\ pressedAt \in Nat /\ deadline \in 0..(Wrap - 1)
    BY DEF Tick, TypeOK
  <1>2. Age' = Age + 1 /\ Age \in 0..(MaxIdle - 1)
    BY <1>1 DEF Age, InTime
  <1> DEFINE n == Millis
  <1>3. n \in 0..(Wrap - 1) /\ n' = IF n + 1 = Wrap THEN 0 ELSE n + 1
    <2>1. n = uptime % Wrap /\ n' = uptime' % Wrap
      BY DEF Millis
    <2>2. (uptime + 1) % Wrap = IF (uptime % Wrap) + 1 = Wrap THEN 0 ELSE (uptime % Wrap) + 1
      BY <1>1, Successor
    <2>3. uptime % Wrap \in 0..(Wrap - 1)
      BY <1>1
    <2> HIDE DEF n
    <2> QED
      BY <1>1, <2>1, <2>2, <2>3
  <1>4. Behind = (n - deadline) % Wrap /\ Behind' = (n' - deadline) % Wrap
    BY <1>1 DEF Behind
  <1>5. n' \in 0..(Wrap - 1)
    BY <1>3
  <1> HIDE DEF n
  <1>6. /\ Behind = IF n >= deadline THEN n - deadline ELSE n - deadline + Wrap
        /\ Behind' = IF n' >= deadline THEN n' - deadline ELSE n' - deadline + Wrap
    BY <1>1, <1>3, <1>4, <1>5, Difference
  <1>7. /\ Behind \in 0..(Wrap - 1)
        /\ Behind' = IF Behind + 1 = Wrap THEN 0 ELSE Behind + 1
    BY <1>1, <1>3, <1>6
  <1>8. /\ ~shut' => deadline' # 0
        /\ deadline' # 0 => Behind = Word(Age - Window) \/ Behind = Word(Age - Window - 1)
    BY <1>1 DEF InTime
  <1> DEFINE OneOn(b) == IF b + 1 = Wrap THEN 0 ELSE b + 1
  <1>9. ASSUME NEW x \in -(Window + 1)..(MaxIdle - Window - 1)
        PROVE  OneOn(Word(x)) = Word(x + 1)
    BY <1>9 DEF Word
  <1>10. /\ OneOn(Word(Age - Window)) = Word(Age + 1 - Window)
         /\ OneOn(Word(Age - Window - 1)) = Word(Age + 1 - Window - 1)
    BY <1>2, <1>9
  <1>11. deadline' # 0 =>
           Behind' = Word(Age' - Window) \/ Behind' = Word(Age' - Window - 1)
    BY <1>2, <1>7, <1>8, <1>10
  <1> QED
    BY <1>2, <1>8, <1>11 DEF InTime

LEMMA InTimeNext ==
    ASSUME MaxIdle < Window + Wrap \div 2
    PROVE  TypeOK /\ InTime /\ [Next]_vars => InTime'
  <1> SUFFICES ASSUME TypeOK, InTime, [Next]_vars PROVE InTime'
    OBVIOUS
  <1>1. CASE PressUp
    BY <1>1, PressInTime
  <1>2. CASE Tick
    BY <1>2, TickInTime
  <1>3. CASE NetClose
    BY <1>3 DEF NetClose, WindowClosed, InTime, Age
  <1>4. CASE PowerCut
    BY <1>4 DEF PowerCut, InTime, Age
  <1>5. CASE UNCHANGED <<uptime, deadline, pressedAt, shut>>
    BY <1>5 DEF InTime, Age, Behind, Millis
  <1>6. ASSUME NEW c \in Ids, RevokeRequest(c)
        PROVE  UNCHANGED <<uptime, deadline, pressedAt, shut>>
    BY <1>6 DEF RevokeRequest
  <1>7. HoldDown \/ HouseEndTick \/ NetExchange \/ NetClear =>
          UNCHANGED <<uptime, deadline, pressedAt, shut>>
    BY DEF HoldDown, HouseEndTick, NetExchange, NetClear
  <1>8. SaveErase \/ SaveWrite \/ NetAdd \/ NetTell \/ NetNobody =>
          UNCHANGED <<uptime, deadline, pressedAt, shut>>
    BY DEF SaveErase, SaveWrite, NetAdd, NetTell, NetNobody
  <1>9. PairRequest \/ Serve \/ UNCHANGED vars =>
          UNCHANGED <<uptime, deadline, pressedAt, shut>>
    BY DEF PairRequest, Serve, vars
  <1> QED
    BY <1>1, <1>2, <1>3, <1>4, <1>5, <1>6, <1>7, <1>8, <1>9
       DEF Next, House, Net, NetGoesOn

(* The window is open for the 60 seconds after a press, across the rollover*)
(* of millis(), and at no other time, if UP is pressed again before the    *)
(* word has gone half way round (PairingWindow::isOpen).                   *)
THEOREM OpenExactlyCorrect ==
    ASSUME MaxIdle < Window + Wrap \div 2
    PROVE  Spec => []OpenExactly
  <1>1. Init => InTime
    BY DEF Init, InTime, Age
  <1>2. TypeOK /\ InTime => OpenExactly
    <2> SUFFICES ASSUME TypeOK, InTime PROVE OpenExactly
      OBVIOUS
    <2>1. Age \in 0..MaxIdle /\ (~shut => deadline # 0)
      BY DEF InTime
    <2>2. CASE deadline = 0
      BY <2>1, <2>2 DEF OpenExactly, OpenOnlyInWindow, OpenThroughout, IsOpen
    <2>3. CASE deadline # 0
      <3>1. IsOpen <=> Behind >= Wrap \div 2
        <4>1. Behind \in 0..(Wrap - 1)
          BY DEF Behind, Millis, TypeOK
        <4>2. Reached(deadline) <=> Behind < Wrap \div 2
          BY DEF Reached, Behind
        <4> QED
          BY <2>3, <4>1, <4>2 DEF IsOpen
      <3>2. ASSUME NEW x \in -(Window + 1)..(MaxIdle - Window)
            PROVE  Word(x) >= Wrap \div 2 <=> x < 0
        BY <3>2 DEF Word
      <3>3. /\ Word(Age - Window) >= Wrap \div 2 <=> Age - Window < 0
            /\ Word(Age - Window - 1) >= Wrap \div 2 <=> Age - Window - 1 < 0
        BY <2>1, <3>2
      <3>4. Behind = Word(Age - Window) \/ Behind = Word(Age - Window - 1)
        BY <2>3 DEF InTime
      <3>5. (IsOpen => Age <= Window) /\ (Age < Window => IsOpen)
        BY <2>1, <3>1, <3>3, <3>4
      <3> QED
        BY <3>5 DEF OpenExactly, OpenOnlyInWindow, OpenThroughout, Age
    <2> QED
      BY <2>2, <2>3
  <1> QED
    BY <1>1, <1>2, InTimeNext, TypeCorrect, PTL DEF Spec
==============================================================================
