-------------------------- MODULE HousekeepingProofs --------------------------
\* What holds of Housekeeping for a clock, a blob and waits of any size.
EXTENDS Housekeeping, TLAPS

USE ConstantsAssumption DEF ConstantsAssumption

-----------------------------------------------------------------------------
\* Words and blobs.

\* What is counted modulo the word stays one.
LEMMA WordIsKept ==
    ASSUME NEW n \in Nat
    PROVE  n % Word \in Word_
  <1>1. Word \in Nat /\ Word > 0
    OBVIOUS
  <1> QED
    BY <1>1 DEF Word_

\* A mark is never the clean marker.
LEMMA MarkIsDirty ==
    ASSUME NEW t \in Word_
    PROVE  mark(t) \in Word_ /\ mark(t) # 0
  <1>1. t + Quiet \in Nat
    BY DEF Word_
  <1>2. (t + Quiet) % Word \in Word_
    BY <1>1, WordIsKept
  <1>3. 1 \in Word_
    BY DEF Word_
  <1> QED
    BY <1>2, <1>3 DEF mark

\* A blob is something: it has a first page.
LEMMA BlobIsSome ==
    ASSUME NEW bytes, DOMAIN bytes = Page
    PROVE  bytes # NoBlob
  <1>1. 1 \in Page
    BY DEF Page
  <1>2. DOMAIN NoBlob = {}
    BY DEF NoBlob
  <1> QED
    BY <1>1, <1>2

\* parse() returns a blob of some settings, or nothing.
LEMMA ParsedIsWhole ==
    ASSUME NEW bytes \in [Page -> Values \cup Unreadable]
    PROVE  /\ parse(bytes) \in Blobs \cup {NoBlob}
           /\ Restored(bytes) \in Values
  <1>1. 1 \in Page /\ Pages \in Page
    BY DEF Page
  <1>2. CASE parse(bytes) = NoBlob
    BY <1>2 DEF Restored
  <1>3. CASE parse(bytes) # NoBlob
    <2>1. /\ bytes[1] \notin Unreadable
          /\ \A p \in Page : bytes[p] = bytes[Pages]
          /\ parse(bytes) = bytes
      BY <1>3 DEF parse
    <2>2. bytes[1] \in Values
      BY <1>1, <2>1
    <2>3. bytes = serialize(bytes[1])
      BY <1>1, <2>1 DEF serialize
    <2> QED
      BY <1>3, <2>1, <2>2, <2>3 DEF Blobs, Restored
  <1> QED
    BY <1>2, <1>3

\* A block that holds a whole blob of settings restores them.
LEMMA WholeIsRestored ==
    ASSUME NEW value \in Values, NEW bytes \in [Page -> Values \cup Unreadable],
           \A p \in Page : bytes[p] = value
    PROVE  parse(bytes) = serialize(value) /\ Restored(bytes) = value
  <1>1. 1 \in Page /\ Pages \in Page
    BY DEF Page
  <1>2. bytes[1] = value /\ bytes[Pages] = value
    BY <1>1
  <1>3. value \notin Unreadable
    OBVIOUS
  <1>4. parse(bytes) = bytes
    BY <1>2, <1>3 DEF parse
  <1>5. bytes = serialize(value)
    BY DEF serialize
  <1>6. bytes # NoBlob
    BY BlobIsSome
  <1> QED
    BY <1>2, <1>4, <1>5, <1>6 DEF Restored

\* Where the first page is erased or spoilt, there is nothing to restore.
LEMMA BlankIsNothing ==
    ASSUME NEW bytes, NEW p \in Page, bytes[p] \in Unreadable,
           bytes \in [Page -> Values \cup Unreadable]
    PROVE  parse(bytes) = NoBlob
  <1>1. 1 \in Page /\ Pages \in Page
    BY DEF Page
  <1>2. CASE bytes[1] \in Unreadable
    BY <1>2 DEF parse
  <1>3. CASE bytes[1] \notin Unreadable
    BY <1>1, <1>3 DEF parse
  <1> QED
    BY <1>2, <1>3

-----------------------------------------------------------------------------
\* The invariant: the pages that are written hold the settings, and the timer
\* is not cleared before all are.

Writing ==
    /\ pc \in {"erase", "write", "clear"} => dueAt # 0
    /\ pc = "write" /\ worn = 0 =>
         /\ \A p \in Page : p < page => block[p] = settings
         /\ \A p \in Page : p >= page => block[p] = "erased"
    /\ pc = "clear" /\ worn = 0 => \A p \in Page : block[p] = settings

IInv == TypeOK /\ Writing /\ UnsavedIsPending

-----------------------------------------------------------------------------
\* Types.

LEMMA SinceIsWord ==
    ASSUME NEW a \in Word_, NEW b \in Word_
    PROVE  Since(a, b) \in Nat
  <1>1. b + Word - a \in Nat
    BY DEF Word_
  <1>2. (b + Word - a) % Word \in Word_
    BY <1>1, WordIsKept
  <1> QED
    BY <1>2 DEF Since, Word_

LEMMA BootTypes ==
    ASSUME TypeOK, NEW bytes \in [Page -> Values \cup Unreadable], Boot(bytes),
           worn' = worn
    PROVE  TypeOK'
  <1>1. Restored(bytes) \in Values
    BY ParsedIsWhole
  <1>2. /\ BootEnd \in Word_ /\ BeginAt \in Word_ /\ 0 \in Word_
        /\ 1 \in Page
    BY DEF Word_, Page
  <1>3. button' \in [raw : BOOLEAN, down : BOOLEAN, changedAt : Word_, pressedAt : Word_,
                     pressed : BOOLEAN, holdConsumed : BOOLEAN]
    BY <1>2 DEF Boot, Begun
  <1>4. quiet' \in 0 .. Quiet
    BY DEF Boot
  <1> QED
    BY <1>1, <1>2, <1>3, <1>4 DEF TypeOK, Boot

LEMMA RemainsTypes ==
    ASSUME TypeOK, NEW bytes \in Remains
    PROVE  bytes \in [Page -> Values \cup Unreadable]
  <1>1. CASE pc = "erase"
    BY <1>1 DEF Remains, HalfErased, TypeOK
  <1>2. CASE pc = "write"
    <2>1. PICK left \in {"erased", "garbage", settings} : bytes = [block EXCEPT ![page] = left]
      BY <1>2 DEF Remains
    <2>2. left \in Values \cup Unreadable
      BY DEF TypeOK, Unreadable
    <2> QED
      BY <2>1, <2>2 DEF TypeOK
  <1>3. CASE pc \notin {"erase", "write"}
    BY <1>3 DEF Remains, TypeOK
  <1> QED
    BY <1>1, <1>2, <1>3

LEMMA PollTypes ==
    ASSUME TypeOK
    PROVE  poll \in [raw : BOOLEAN, down : BOOLEAN, changedAt : Word_, pressedAt : Word_,
                     pressed : BOOLEAN, holdConsumed : BOOLEAN]
  <1>1. /\ low \in BOOLEAN /\ now \in Word_
        /\ button \in [raw : BOOLEAN, down : BOOLEAN, changedAt : Word_, pressedAt : Word_,
                       pressed : BOOLEAN, holdConsumed : BOOLEAN]
    BY DEF TypeOK
  <1>2. [button EXCEPT !.raw = low, !.changedAt = now]
          \in [raw : BOOLEAN, down : BOOLEAN, changedAt : Word_, pressedAt : Word_,
               pressed : BOOLEAN, holdConsumed : BOOLEAN]
    BY <1>1
  <1>3. Settled(button) \in [raw : BOOLEAN, down : BOOLEAN, changedAt : Word_, pressedAt : Word_,
                             pressed : BOOLEAN, holdConsumed : BOOLEAN]
    BY <1>1 DEF Settled
  <1> QED
    BY <1>1, <1>2, <1>3 DEF poll

LEMMA TypeStep ==
    ASSUME TypeOK, [Next]_vars
    PROVE  TypeOK'
  <1>1. ASSUME NEW d \in 1 .. MaxPass, Pass(d) PROVE TypeOK'
    <2>1. now' \in Word_
      <3>1. now + d \in Nat
        BY DEF TypeOK, Word_
      <3> QED
        BY <1>1, <3>1, WordIsKept DEF Pass
    <2>2. dueAt' \in Word_ /\ settings' \in Values
      BY <1>1, <2>1, MarkIsDirty DEF Pass, TypeOK
    <2>3. quiet' \in 0 .. Quiet
      BY <1>1 DEF Pass, TypeOK, UpTo
    <2> QED
      BY <1>1, <2>1, <2>2, <2>3 DEF Pass, TypeOK
  <1>2. CASE House
    <2>1. poll.down \in BOOLEAN /\ HoldTaken(poll) \in BOOLEAN
      BY PollTypes DEF HoldTaken
    <2>2. button' \in [raw : BOOLEAN, down : BOOLEAN, changedAt : Word_, pressedAt : Word_,
                       pressed : BOOLEAN, holdConsumed : BOOLEAN]
      BY <1>2, <2>1, PollTypes DEF House
    <2>3. revoke' \in BOOLEAN /\ heeded' \in BOOLEAN
      BY <1>2, <2>1, Zenon DEF House, TypeOK
    <2>4. pc' \in {"pass", "house", "erase", "write", "clear"}
      BY <1>2 DEF House
    <2> QED
      BY <1>2, <2>2, <2>3, <2>4 DEF House, TypeOK
  <1>3. CASE EraseBlock
    <2>1. Blank \in [Page -> Values \cup Unreadable] /\ 1 \in Page
      BY DEF Blank, Unreadable, Page
    <2> QED
      BY <1>3, <2>1 DEF EraseBlock, TypeOK
  <1>4. CASE WritePage
    <2>1. block' \in [Page -> Values \cup Unreadable]
      BY <1>4 DEF WritePage, TypeOK, serialize, Unreadable
    <2>2. worn' \in 0 .. MaxWorn
      BY <1>4 DEF WritePage, TypeOK
    <2>3. page' \in Page /\ pc' \in {"write", "clear"}
      BY <1>4 DEF WritePage, TypeOK, Page
    <2> QED
      BY <1>4, <2>1, <2>2, <2>3 DEF WritePage, TypeOK
  <1>5. CASE Clear
    BY <1>5 DEF Clear, TypeOK, Word_
  <1>6. CASE PowerCut
    BY <1>6, RemainsTypes, BootTypes DEF PowerCut
  <1>7. CASE UNCHANGED vars
    BY <1>7 DEF vars, TypeOK
  <1> QED
    BY <1>1, <1>2, <1>3, <1>4, <1>5, <1>6, <1>7 DEF Next, Loop

LEMMA InitTypes ==
    ASSUME Init
    PROVE  TypeOK
  <1>1. block \in [Page -> Values \cup Unreadable]
    BY DEF Init, Blobs, serialize, Blank, Foreign, Unreadable
  <1>2. settings \in Values
    BY <1>1, ParsedIsWhole DEF Init
  <1>3. /\ BootEnd \in Word_ /\ BeginAt \in Word_ /\ 0 \in Word_
        /\ 1 \in Page
    BY DEF Word_, Page
  <1>4. button \in [raw : BOOLEAN, down : BOOLEAN, changedAt : Word_, pressedAt : Word_,
                    pressed : BOOLEAN, holdConsumed : BOOLEAN]
    BY <1>3 DEF Init, Begun
  <1>5. quiet \in 0 .. Quiet /\ worn \in 0 .. MaxWorn
    BY DEF Init
  <1> QED
    BY <1>1, <1>2, <1>3, <1>4, <1>5 DEF Init, TypeOK

-----------------------------------------------------------------------------
\* Nothing unsaved is forgotten.

LEMMA InvStep ==
    ASSUME IInv, [Next]_vars
    PROVE  IInv'
  <1> USE DEF IInv
  <1>0. TypeOK'
    BY TypeStep
  <1> SUFFICES (Writing /\ UnsavedIsPending)'
    BY <1>0
  <1>1. ASSUME NEW d \in 1 .. MaxPass, Pass(d) PROVE (Writing /\ UnsavedIsPending)'
    <2>1. dueAt' # 0 \/ UNCHANGED <<settings, dueAt, block, worn>>
      BY <1>0, <1>1, MarkIsDirty DEF Pass, TypeOK
    <2> QED
      BY <1>1, <2>1 DEF Pass, Writing, UnsavedIsPending
  <1>2. CASE House
    BY <1>2 DEF House, Writing, UnsavedIsPending, due
  <1>3. CASE EraseBlock
    BY <1>3 DEF EraseBlock, Writing, UnsavedIsPending, Blank, Page
  <1>4. CASE WritePage
    <2>1. dueAt' # 0 /\ pc' \in {"write", "clear"}
      BY <1>4 DEF WritePage, Writing
    <2>2. ASSUME worn' = 0
          PROVE  /\ \A p \in Page : p <= page => block'[p] = settings'
                 /\ \A p \in Page : p > page => block'[p] = "erased"
      <3>1. worn = 0 /\ block' = [block EXCEPT ![page] = settings] /\ settings' = settings
        BY <1>4, <2>2 DEF WritePage, serialize, TypeOK
      <3> QED
        BY <1>4, <3>1 DEF WritePage, Writing, TypeOK, Page
    <2>3. CASE page < Pages
      BY <1>4, <2>1, <2>2, <2>3 DEF WritePage, Writing, UnsavedIsPending, TypeOK, Page
    <2>4. CASE page = Pages
      BY <1>4, <2>1, <2>2, <2>4 DEF WritePage, Writing, UnsavedIsPending, TypeOK, Page
    <2> QED
      BY <2>3, <2>4 DEF TypeOK, Page
  <1>5. CASE Clear
    <2>1. worn = 0 => settings = Restored(block)
      BY <1>5, WholeIsRestored DEF Clear, Writing, TypeOK
    <2> QED
      BY <1>5, <2>1 DEF Clear, Writing, UnsavedIsPending, TypeOK
  <1>6. CASE PowerCut
    BY <1>6 DEF PowerCut, Boot, Writing, UnsavedIsPending
  <1>7. CASE UNCHANGED vars
    BY <1>7 DEF vars, Writing, UnsavedIsPending
  <1> QED
    BY <1>0, <1>1, <1>2, <1>3, <1>4, <1>5, <1>6, <1>7 DEF Next, Loop

LEMMA InvAlways == Spec => []IInv
  <1>1. Init => IInv
    BY InitTypes DEF Init, IInv, Writing, UnsavedIsPending
  <1> QED
    BY <1>1, InvStep, PTL DEF Spec

\* Every variable of the house keeping keeps its type: deadlines, pages and
\* instants stay in their words and blocks (button.cpp, quiet_timer.h,
\* flash_block.cpp).
THEOREM TypeCorrect == Spec => []TypeOK
  BY InvAlways, PTL DEF IInv

\* Settings that a boot would not restore have a write due or under way,
\* wherever the clock's word stands, unless a page of the flash is worn
\* (QuietTimer::mark, saveAll, erasedWrite).
THEOREM UnsavedCorrect == Spec => []UnsavedIsPending
  BY InvAlways, PTL DEF IInv

-----------------------------------------------------------------------------
\* A write waits for the whole quiet period.

\* Arithmetic of a word: it rolls over at most once in all that follows.
LEMMA RollOver ==
    ASSUME NEW n \in Nat, n < 2 * Word
    PROVE  n % Word = IF n < Word THEN n ELSE n - Word
  <1>1. Word \in Nat \ {0}
    OBVIOUS
  <1> QED
    BY <1>1

LEMMA SinceIs ==
    ASSUME NEW a \in Word_, NEW b \in Word_
    PROVE  Since(a, b) = IF a <= b THEN b - a ELSE b + Word - a
  <1>1. b + Word - a \in Nat /\ b + Word - a < 2 * Word
    BY DEF Word_
  <1> QED
    BY <1>1, RollOver DEF Since, Word_

\* A mark lies the quiet period ahead, or one more where it would read as clean.
LEMMA MarkIsAhead ==
    ASSUME NEW t \in Word_
    PROVE  Since(t, mark(t)) \in Quiet .. (Quiet + 1)
  <1>1. t \in Nat /\ t < Word /\ Quiet \in Nat /\ Word \in Nat /\ Quiet + 1 < Word
    BY DEF Word_
  <1>2. (t + Quiet) % Word = IF t + Quiet < Word THEN t + Quiet ELSE t + Quiet - Word
    <2> DEFINE n == t + Quiet
    <2>1. n \in Nat /\ n < 2 * Word
      BY <1>1
    <2> HIDE DEF n
    <2>2. n % Word = IF n < Word THEN n ELSE n - Word
      BY <2>1, RollOver
    <2> QED
      BY <1>1, <2>2 DEF n
  <1>3. Since(t, mark(t)) = IF t <= mark(t) THEN mark(t) - t ELSE mark(t) + Word - t
    BY MarkIsDirty, SinceIs
  <1>4. mark(t) = IF t + Quiet < Word THEN t + Quiet
                  ELSE IF t + Quiet = Word THEN 1 ELSE t + Quiet - Word
    BY <1>1, <1>2 DEF mark
  <1> QED
    BY <1>1, <1>3, <1>4

\* As long as the change is younger than the quiet period, the due instant is
\* ahead by what is left of it, and by no more than the period and one.
NotYet ==
    dueAt # 0 /\ quiet < Quiet =>
      /\ Quiet - quiet <= Since(now, dueAt)
      /\ Since(now, dueAt) <= Quiet + 1

LEMMA NotYetDue ==
    ASSUME TypeOK, NotYet, quiet < Quiet
    PROVE  ~due(now)
  <1>1. CASE dueAt = 0
    BY <1>1 DEF due
  <1>2. CASE dueAt # 0
    <2>1. /\ now \in Nat /\ now < Word /\ dueAt \in Nat /\ dueAt < Word
          /\ Word \in Nat /\ Quiet \in Nat /\ quiet \in Nat /\ 2 * Quiet < Word
      BY DEF TypeOK, Word_
    <2>2. /\ Since(now, dueAt) = IF now <= dueAt THEN dueAt - now ELSE dueAt + Word - now
          /\ Since(dueAt, now) = IF dueAt <= now THEN now - dueAt ELSE now + Word - dueAt
      BY SinceIs DEF TypeOK
    <2>3. 1 <= Since(now, dueAt) /\ Since(now, dueAt) <= Quiet + 1
      BY <1>2, <2>1, <2>2 DEF NotYet
    <2>4. Since(dueAt, now) = Word - Since(now, dueAt)
      BY <2>1, <2>2, <2>3
    <2>5. Since(dueAt, now) >= Word - Quiet - 1
      BY <2>1, <2>2, <2>3, <2>4
    <2>6. Word - Quiet - 1 >= Word \div 2
      BY <2>1
    <2>7. Since(dueAt, now) \in Nat /\ Word \div 2 \in Nat
      BY <2>1, SinceIsWord DEF TypeOK
    <2> QED
      BY <2>1, <2>5, <2>6, <2>7 DEF due
  <1> QED
    BY <1>1, <1>2

LEMMA NotYetStep ==
    ASSUME TypeOK, TypeOK', NotYet, [Next]_vars
    PROVE  NotYet'
  <1>1. ASSUME NEW d \in 1 .. MaxPass, Pass(d) PROVE NotYet'
    <2>1. CASE settings' \in Values /\ dueAt' = mark(now') /\ quiet' = 0
      <3>1. Since(now', mark(now')) \in Quiet .. (Quiet + 1)
        BY MarkIsAhead DEF TypeOK
      <3> QED
        BY <2>1, <3>1 DEF NotYet
    <2>2. CASE UNCHANGED <<settings, dueAt>> /\ quiet' = UpTo(Quiet, quiet + d)
      <3> SUFFICES ASSUME dueAt' # 0, quiet' < Quiet
                   PROVE  /\ Quiet - quiet' <= Since(now', dueAt')
                          /\ Since(now', dueAt') <= Quiet + 1
        BY DEF NotYet
      <3>1. /\ now \in Nat /\ now < Word /\ dueAt \in Nat /\ dueAt < Word
            /\ Word \in Nat /\ Quiet \in Nat /\ quiet \in Nat /\ d \in Nat
            /\ 0 < d /\ d < Word
        BY DEF TypeOK, Word_
      <3>2. quiet' = quiet + d /\ quiet + d < Quiet /\ dueAt' = dueAt
        BY <2>2, <3>1 DEF UpTo
      <3>3. now' = IF now + d < Word THEN now + d ELSE now + d - Word
        <4> DEFINE n == now + d
        <4>1. n \in Nat /\ n < 2 * Word
          BY <3>1
        <4> HIDE DEF n
        <4>2. n % Word = IF n < Word THEN n ELSE n - Word
          BY <4>1, RollOver
        <4> QED
          BY <1>1, <3>1, <4>2 DEF Pass, n
      <3>4. Since(now, dueAt) = IF now <= dueAt THEN dueAt - now ELSE dueAt + Word - now
        BY SinceIs DEF TypeOK
      <3>5. Quiet - quiet <= Since(now, dueAt) /\ Since(now, dueAt) <= Quiet + 1
        BY <3>1, <3>2 DEF NotYet
      <3>6. Since(now', dueAt) = IF now' <= dueAt THEN dueAt - now' ELSE dueAt + Word - now'
        BY SinceIs DEF TypeOK
      <3>7. Since(now', dueAt) = Since(now, dueAt) - d
        BY <3>1, <3>2, <3>3, <3>4, <3>5, <3>6
      <3> QED
        BY <3>1, <3>2, <3>4, <3>5, <3>7
    <2> QED
      BY <1>1, <2>1, <2>2 DEF Pass
  <1>2. CASE House \/ EraseBlock \/ WritePage \/ UNCHANGED vars
    BY <1>2 DEF House, EraseBlock, WritePage, vars, NotYet
  <1>3. CASE Clear
    BY <1>3 DEF Clear, NotYet
  <1>4. CASE PowerCut
    BY <1>4 DEF PowerCut, Boot, NotYet
  <1> QED
    BY <1>1, <1>2, <1>3, <1>4 DEF Next, Loop

\* No write begins before the settings have been left alone for the whole
\* quiet period, wherever in the word it falls (QuietTimer::mark and due).
THEOREM NotInBurstCorrect == Spec => NotInBurst
  <1>1. Init => TypeOK /\ NotYet
    BY InitTypes DEF Init, NotYet
  <1>2. TypeOK /\ NotYet /\ [Next]_vars => TypeOK' /\ NotYet'
    BY TypeStep, NotYetStep
  <1>3. ASSUME TypeOK, NotYet, [Next]_vars
        PROVE  [pc' = "erase" /\ pc # "erase" => quiet >= Quiet]_vars
    <2> SUFFICES ASSUME pc' = "erase", pc # "erase" PROVE quiet >= Quiet
      OBVIOUS
    <2>1. House /\ due(now)
      BY <1>3 DEF Next, Loop, Pass, House, EraseBlock, WritePage, Clear, PowerCut, Boot, vars
    <2> QED
      BY <1>3, <2>1, NotYetDue DEF TypeOK
  <1> QED
    BY <1>1, <1>2, <1>3, PTL DEF Spec, NotInBurst

-----------------------------------------------------------------------------
\* The block is a store that holds a whole blob or none.

\* A block of parts of one blob and of what is none holds that blob or none.
LEMMA PartsAreNothing ==
    ASSUME NEW value \in Values, NEW bytes \in [Page -> Values \cup Unreadable],
           \A p \in Page : bytes[p] \in {value} \cup Unreadable
    PROVE  parse(bytes) \in {serialize(value), NoBlob}
  <1>1. CASE \A p \in Page : bytes[p] = value
    BY <1>1, WholeIsRestored
  <1>2. CASE \E p \in Page : bytes[p] # value
    BY <1>2, BlankIsNothing
  <1> QED
    BY <1>1, <1>2

\* An erase that is cut short leaves the blob there was, or none.
LEMMA CutErase ==
    ASSUME NEW bytes \in [Page -> Values \cup Unreadable], NEW torn \in HalfErased(bytes)
    PROVE  parse(torn) \in {parse(bytes), NoBlob}
  <1>1. /\ torn \in [Page -> Values \cup Unreadable]
        /\ \A p \in Page : torn[p] = bytes[p] \/ torn[p] \in Unreadable
    BY DEF HalfErased, Unreadable
  <1>2. CASE \A p \in Page : torn[p] = bytes[p]
    <2>1. torn = bytes
      BY <1>1, <1>2
    <2> QED
      BY <2>1
  <1>3. CASE \E p \in Page : torn[p] # bytes[p]
    BY <1>1, <1>3, BlankIsNothing
  <1> QED
    BY <1>2, <1>3

\* What is being written is of one blob: its parts, or no part of any.
OneBlob == pc \in {"write", "clear"} => \A p \in Page : block[p] \in {settings} \cup Unreadable

LEMMA OneBlobStep ==
    ASSUME TypeOK, OneBlob, [Next]_vars
    PROVE  OneBlob'
  <1>1. ASSUME NEW d \in 1 .. MaxPass, Pass(d) PROVE OneBlob'
    BY <1>1 DEF Pass, OneBlob
  <1>2. CASE House
    BY <1>2 DEF House, OneBlob
  <1>3. CASE EraseBlock
    BY <1>3 DEF EraseBlock, OneBlob, Blank, Unreadable
  <1>4. CASE WritePage
    BY <1>4 DEF WritePage, OneBlob, TypeOK, serialize, Unreadable
  <1>5. CASE Clear
    BY <1>5 DEF Clear, OneBlob
  <1>6. CASE PowerCut
    BY <1>6 DEF PowerCut, Boot, OneBlob
  <1>7. CASE UNCHANGED vars
    BY <1>7 DEF vars, OneBlob
  <1> QED
    BY <1>1, <1>2, <1>3, <1>4, <1>5, <1>6, <1>7 DEF Next, Loop

\* What the store is mapped to.
Stored == parse(block)

Replacing == IF pc \in {"erase", "write", "clear"} THEN serialize(settings) ELSE NoBlob

LEMMA SerializedIsBlob ==
    ASSUME NEW value \in Values
    PROVE  serialize(value) \in Blobs /\ serialize(value) # NoBlob
  <1>1. DOMAIN serialize(value) = Page
    BY DEF serialize
  <1> QED
    BY <1>1, BlobIsSome DEF Blobs

LEMMA StoreStep ==
    ASSUME TypeOK, OneBlob, OneBlob', TypeOK', [Next]_vars
    PROVE  [Store!Next]_<<Stored, Replacing>>
  <1> USE DEF Store!Next, Store!Begin, Store!Erase, Store!Land, Store!End, Stored, Replacing
  <1> DEFINE blob == serialize(settings)
  <1>0. blob \in Blobs /\ blob # NoBlob
    BY SerializedIsBlob DEF TypeOK
  <1> HIDE DEF blob
  <1>1. ASSUME NEW d \in 1 .. MaxPass, Pass(d) PROVE UNCHANGED <<Stored, Replacing>>
    BY <1>1 DEF Pass
  <1>2. CASE House
    BY <1>0, <1>2 DEF House, blob
  <1>3. CASE EraseBlock
    <2>1. Blank \in [Page -> Values \cup Unreadable] /\ 1 \in Page /\ Blank[1] \in Unreadable
      BY DEF Blank, Unreadable, Page
    <2>2. parse(block') = NoBlob
      BY <1>3, <2>1, BlankIsNothing DEF EraseBlock
    <2>3. Replacing = blob /\ Replacing' = blob
      BY <1>3 DEF EraseBlock, blob
    <2> QED
      BY <1>0, <2>2, <2>3
  <1>4. CASE WritePage
    <2>1. pc = "write" /\ pc' \in {"write", "clear"} /\ settings' = settings
      BY <1>4 DEF WritePage
    <2>2. parse(block') \in {blob, NoBlob}
      BY <2>1, PartsAreNothing DEF OneBlob, TypeOK, blob
    <2>3. Replacing = blob /\ Replacing' = blob
      BY <2>1 DEF blob
    <2> QED
      BY <1>0, <2>2, <2>3
  <1>5. CASE Clear
    BY <1>5 DEF Clear
  <1>6. CASE PowerCut
    <2>1. PICK bytes \in Remains : block' = bytes /\ pc' = "pass"
      BY <1>6 DEF PowerCut, Boot
    <2>2. Replacing' = NoBlob
      BY <2>1
    <2>3. bytes \in [Page -> Values \cup Unreadable]
      BY RemainsTypes
    <2>4. CASE pc = "erase"
      <3>1. parse(bytes) \in {parse(block), NoBlob}
        BY <2>4, CutErase DEF Remains, TypeOK
      <3> QED
        BY <1>0, <2>1, <2>2, <2>4, <3>1 DEF blob
    <2>5. CASE pc = "write"
      <3>1. \A p \in Page : bytes[p] \in {settings} \cup Unreadable
        BY <2>5 DEF Remains, OneBlob, TypeOK, Unreadable
      <3>2. parse(bytes) \in {blob, NoBlob}
        BY <2>3, <3>1, PartsAreNothing DEF TypeOK, blob
      <3> QED
        BY <1>0, <2>1, <2>2, <2>5, <3>2 DEF blob
    <2>6. CASE pc \notin {"erase", "write"}
      BY <2>1, <2>2, <2>6 DEF Remains
    <2> QED
      BY <2>4, <2>5, <2>6
  <1>7. CASE UNCHANGED vars
    BY <1>7 DEF vars
  <1> QED
    BY <1>1, <1>2, <1>3, <1>4, <1>5, <1>6, <1>7 DEF Next, Loop

\* However the power fails in the erase or between the pages, and whatever
\* the pages take, a boot finds the blob written last, or none once a write
\* was cut short, and never a mixture (erasedWrite, record_blob's parse).
THEOREM BlobStoreCorrect == Spec => ObeysBlobStore
  <1>1. Init => Store!Init
    <2> SUFFICES ASSUME Init PROVE Store!Init
      OBVIOUS
    <2>1. block \in [Page -> Values \cup Unreadable]
      BY InitTypes DEF TypeOK
    <2> QED
      BY <2>1, ParsedIsWhole DEF Init, Store!Init
  <1>2. Init => TypeOK /\ OneBlob
    BY InitTypes DEF Init, OneBlob
  <1>3. TypeOK /\ OneBlob /\ [Next]_vars => TypeOK' /\ OneBlob'
    BY TypeStep, OneBlobStep
  <1>4. TypeOK /\ OneBlob /\ TypeOK' /\ OneBlob' /\ [Next]_vars
          => [Store!Next]_<<Stored, Replacing>>
    BY StoreStep
  <1> QED
    BY <1>1, <1>2, <1>3, <1>4, PTL DEF Spec, ObeysBlobStore, Store!Spec, Stored, Replacing
===============================================================================
