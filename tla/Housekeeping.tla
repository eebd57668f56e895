---------------------------- MODULE Housekeeping ----------------------------
(***************************************************************************)
(* housekeepTick() on the SAMD51's loop, with what it drives: a debounced  *)
(* button, the quiet timer, and the settings blob with its flash block.    *)
(*                                                                         *)
(* The loop renders, keeps house, and then does everything else, however   *)
(* long that takes; a pass is the step Pass and the steps of the house     *)
(* keeping.  The clock is millis(): a word that rolls over.  The power may *)
(* fail at any step.                                                       *)
(*                                                                         *)
(* buttonUp and buttonDown are two objects of one class, one asked for     *)
(* presses and the other for holds.  The module follows one Button and     *)
(* asks it for both, which is either of them: the two answers read and     *)
(* write different fields.                                                 *)
(***************************************************************************)
EXTENDS Naturals

CONSTANTS
    Word,        \* millis() counts modulo this
    Debounce,    \* kDebounceMs
    Hold,        \* kFactoryResetHoldMs
    Quiet,       \* kPersistQuietMs
    MaxPass,     \* the longest pass of the loop
    BeginAt,     \* when setup() comes to Button::begin()
    BootEnd,     \* when the first pass begins, after WiFi and NTP
    Values,      \* what the settings may be
    Default,     \* their value in a program nobody has changed
    Pages,       \* the flash pages a blob covers
    MaxWorn      \* at most so many pages do not take what is written

\* What a page holds that is no part of a blob.
Unreadable == {"erased", "garbage", "foreign"}

ASSUME ConstantsAssumption ==
    /\ {Word, Debounce, Hold, Quiet, MaxPass, BeginAt, BootEnd, Pages, MaxWorn} \subseteq Nat
    /\ 0 < MaxPass /\ 2 * MaxPass < Word   \* due() takes half a word and more for the past
    /\ 0 < Hold /\ Hold + MaxPass < Word
    /\ 0 < Quiet /\ 2 * Quiet < Word
    /\ BeginAt < BootEnd /\ BootEnd < Word
    /\ 0 < Pages
    /\ Default \in Values /\ Values \cap Unreadable = {}

VARIABLES
    now,        \* nowMs, the millis() a pass begins with
    low,        \* the pin reads LOW: the button is down
    button,     \* the members of Button
    revoke,     \* revokeAllRequested
    dueAt,      \* QuietTimer::dueAtMs_; 0 is clean
    settings,   \* what the apps' settings are
    block,      \* the erase block, page by page
    pc,         \* where in the pass the loop is
    page,       \* the next page erasedWrite() programs
    quiet,      \* ghost: how long ago the last change was, up to Quiet
    heeded,     \* ghost: this press has been taken for a hold
    worn        \* ghost: pages that did not take what was written

vars == <<now, low, button, revoke, dueAt, settings, block, pc, page, quiet, heeded, worn>>

-----------------------------------------------------------------------------
\* Words.

Word_ == 0 .. Word - 1

\* The unsigned difference of two instants.
Since(then, t) == (t + Word - then) % Word

\* Counted no further than `top`.
UpTo(top, n) == IF n < top THEN n ELSE top

-----------------------------------------------------------------------------
\* QuietTimer.

\* A mutant: the one instant that reads as clean is not stepped over.
markOnZero(t) == (t + Quiet) % Word

\* The instant the write becomes due.  Zero is the clean marker, so an
\* instant that would land on it borrows the next.
mark(t) == LET at == (t + Quiet) % Word IN IF at = 0 THEN 1 ELSE at

\* A mutant: the instants are compared as they stand.
dueUnsigned(t) == dueAt # 0 /\ t >= dueAt

\* A signed difference: half a word and more is the future.
due(t) == dueAt # 0 /\ Since(dueAt, t) < Word \div 2

-----------------------------------------------------------------------------
\* record_blob over flash_block.  A page of the block holds the part of one
\* blob that belongs there, and is named by the settings that blob is of; or
\* it is erased, or holds what a cut or a worn cell left, or what another
\* program or another version wrote.

Page == 1 .. Pages

Blank == [p \in Page |-> "erased"]

Foreign == [p \in Page |-> "foreign"]

\* The framed blob of the settings `value`.
serialize(value) == [p \in Page |-> value]

Blobs == {serialize(value) : value \in Values}

NoBlob == <<>>

\* A mutant: whatever has the right magic is taken.
parseUnchecked(bytes) == IF bytes[1] \in Unreadable THEN NoBlob ELSE bytes

\* The first page has magic and version, the last the checksum of them all:
\* anything but one whole blob of this version is nothing.
parse(bytes) ==
    IF bytes[1] \in Unreadable \/ \E p \in Page : bytes[p] # bytes[Pages]
    THEN NoBlob
    ELSE bytes

\* AppSettingsStore::load at boot: what the settings will be.
Restored(bytes) == IF parse(bytes) = NoBlob THEN Default ELSE parse(bytes)[1]

\* What the erase of a block leaves when the power fails in it.
HalfErased(bytes) == {torn \in [Page -> Values \cup Unreadable] :
                        \A p \in Page : torn[p] \in {bytes[p], "erased", "garbage"}}

\* The block a power cut leaves, by what the loop is at.
Remains ==
    CASE pc = "erase" -> HalfErased(block)
      [] pc = "write" -> {[block EXCEPT ![page] = left] :
                             left \in {"erased", "garbage", settings}}
      [] OTHER -> {block}

-----------------------------------------------------------------------------
\* Button.

\* begin(): the level it finds counts as stable, and the press that made it,
\* if it is one, as made at 0.
Begun(down) == [raw |-> down, down |-> down, changedAt |-> BeginAt, pressedAt |-> 0,
                pressed |-> FALSE, holdConsumed |-> FALSE]

\* A mutant: a hold once taken is never forgotten.
SettledOnce(b) == IF low = b.down THEN b
                  ELSE IF low
                       THEN [b EXCEPT !.down = TRUE, !.pressedAt = now, !.pressed = TRUE]
                       ELSE [b EXCEPT !.down = FALSE]

\* A level that stayed for the debounce time is believed.
Settled(b) == IF low = b.down THEN b
              ELSE IF low
                   THEN [b EXCEPT !.down = TRUE, !.pressedAt = now, !.pressed = TRUE,
                                  !.holdConsumed = FALSE]
                   ELSE [b EXCEPT !.down = FALSE]

\* A change of level is only noted, and nothing else is done in that pass.
poll == IF low # button.raw
        THEN [button EXCEPT !.raw = low, !.changedAt = now]
        ELSE IF Since(button.changedAt, now) < Debounce THEN button ELSE Settled(button)

\* takeHold(Hold): what was believed down is, for all this asks, still down.
HoldTaken(b) == b.down /\ ~b.holdConsumed /\ Since(b.pressedAt, now) >= Hold

-----------------------------------------------------------------------------
\* setup(): the buttons are begun early and looked at only when WiFi and NTP
\* are done with; by then the button may be up, or down for any time.
Boot(bytes) ==
    /\ \E down \in BOOLEAN : button' = Begun(down)
    /\ low' \in BOOLEAN
    /\ now' = BootEnd
    /\ dueAt' = 0
    /\ settings' = Restored(bytes)
    /\ block' = bytes
    /\ pc' = "pass" /\ page' = 1
    /\ revoke' = FALSE /\ heeded' = FALSE
    /\ quiet' = Quiet

\* A board with flash nobody has written, with what another program left, or
\* with an earlier boot's settings.
Init ==
    /\ block \in Blobs \cup {Blank, Foreign}
    /\ \E down \in BOOLEAN : button = Begun(down)
    /\ low \in BOOLEAN
    /\ now = BootEnd /\ dueAt = 0 /\ settings = Restored(block)
    /\ pc = "pass" /\ page = 1 /\ revoke = FALSE /\ heeded = FALSE
    /\ quiet = Quiet /\ worn = 0

\* The rest of a pass and the renderTick() of the next take `d` between them;
\* the button moves as it likes, the net tick takes the revocation if there
\* is one, and the render tick may apply a setting and mark the timer.
Pass(d) ==
    /\ pc = "pass"
    /\ now' = (now + d) % Word
    /\ low' \in BOOLEAN
    /\ revoke' = FALSE
    /\ \/ UNCHANGED <<settings, dueAt>> /\ quiet' = UpTo(Quiet, quiet + d)
       \/ settings' \in Values /\ dueAt' = mark(now') /\ quiet' = 0
    /\ pc' = "house"
    /\ UNCHANGED <<button, block, page, heeded, worn>>

\* housekeepTick(): the button, then the settings if their time has come.
House ==
    /\ pc = "house"
    /\ LET polled == poll
           taken == HoldTaken(polled)
       IN /\ button' = [polled EXCEPT !.pressed = FALSE,
                                      !.holdConsumed = @ \/ taken]
          /\ revoke' = (revoke \/ taken)
          /\ heeded' = (polled.down /\ (heeded \/ taken))
    /\ pc' = IF due(now) THEN "erase" ELSE "pass"
    /\ UNCHANGED <<now, low, dueAt, settings, block, page, quiet, worn>>

\* erasedWrite(): one erase for the block, ...
EraseBlock ==
    /\ pc = "erase"
    /\ block' = Blank
    /\ page' = 1 /\ pc' = "write"
    /\ UNCHANGED <<now, low, button, revoke, dueAt, settings, quiet, heeded, worn>>

\* ... then a clear, a fill and a commit for each page, ...
WritePage ==
    /\ pc = "write"
    /\ \/ block' = [block EXCEPT ![page] = serialize(settings)[page]] /\ UNCHANGED worn
       \/ worn < MaxWorn /\ block' = [block EXCEPT ![page] = "garbage"] /\ worn' = worn + 1
    /\ IF page < Pages THEN page' = page + 1 /\ UNCHANGED pc
                       ELSE page' = 1 /\ pc' = "clear"
    /\ UNCHANGED <<now, low, button, revoke, dueAt, settings, quiet, heeded>>

\* ... and a comparison whose outcome is logged.  The timer is cleared
\* whatever it was.
Clear ==
    /\ pc = "clear"
    /\ dueAt' = 0
    /\ pc' = "pass"
    /\ UNCHANGED <<now, low, button, revoke, settings, block, page, quiet, heeded, worn>>

PowerCut == \E bytes \in Remains : Boot(bytes) /\ UNCHANGED worn

Loop == (\E d \in 1 .. MaxPass : Pass(d)) \/ House \/ EraseBlock \/ WritePage \/ Clear

Next == Loop \/ PowerCut

Spec == Init /\ [][Next]_vars

\* The loop comes round; the power does not fail for ever.
FairSpec == Spec /\ WF_vars(Loop) /\ <>[][~PowerCut]_vars

-----------------------------------------------------------------------------
\* Properties.

TypeOK ==
    /\ now \in Word_ /\ dueAt \in Word_
    /\ low \in BOOLEAN /\ revoke \in BOOLEAN /\ heeded \in BOOLEAN
    /\ button \in [raw : BOOLEAN, down : BOOLEAN, changedAt : Word_, pressedAt : Word_,
                   pressed : BOOLEAN, holdConsumed : BOOLEAN]
    /\ settings \in Values
    /\ block \in [Page -> Values \cup Unreadable]
    /\ pc \in {"pass", "house", "erase", "write", "clear"}
    /\ page \in Page
    /\ quiet \in 0 .. Quiet /\ worn \in 0 .. MaxWorn

\* What the settings are is what a boot would restore, or a write of it is
\* under way or due to come.  It would fail where a change lands on the one
\* instant whose deadline reads as clean, or where the mark of a change is
\* wiped by the end of an earlier write.
UnsavedIsPending ==
    \/ settings = Restored(block)
    \/ dueAt # 0
    \/ worn > 0

\* A write begins only when nothing has changed for the whole quiet period,
\* across the rollover too: a burst of changes costs one erase.
NotInBurst == [][pc' = "erase" /\ pc # "erase" => quiet >= Quiet]_vars

\* The page by page write under power cuts is a store that holds a whole blob
\* or none.
Store == INSTANCE BlobStore WITH
    stored <- parse(block),
    replacing <- IF pc \in {"erase", "write", "clear"} THEN serialize(settings) ELSE NoBlob

ObeysBlobStore == Store!Spec

\* A button that stays down is taken for a hold, in this press too if it was
\* in an earlier one.
HoldIsHeeded == []([]low => <>heeded)

\* "True once each time the button stays held for `ms`": a hold is taken only
\* of a button that is down.
HoldIsHeld == [][revoke' /\ ~revoke => low]_vars
=============================================================================
