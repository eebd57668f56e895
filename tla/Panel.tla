--------------------------------- MODULE Panel ---------------------------------
(***************************************************************************)
(* The panel driver of the SAMD51 board: Protomatter's core.c with its     *)
(* samd51 port.                                                            *)
(*                                                                         *)
(* The loop draws a canvas and calls show(), which turns it into bit       *)
(* planes in the buffer that is not on the panel, asks for the two to      *)
(* change places and waits.  The timer's interrupt (top priority, so one   *)
(* step here) latches the scanline shifted in before, sets the row         *)
(* address, moves on to the next plane or row, arms the timer for twice as *)
(* long per plane, and shifts in the next scanline by toggling the port.   *)
(*                                                                         *)
(* Abstracted: a port is the set of its pins that are high; the light of   *)
(* an LED is measured in periods of plane 0, begun ones counted.  A load   *)
(* that takes longer than the timer's period holds the next interrupt up,  *)
(* and the LEDs stay lit until it comes.  The chain is a multiple of eight *)
(* columns and one tile, as both boards' is, so there is no padding.       *)
(***************************************************************************)
EXTENDS Integers, Sequences, FiniteSets

CONSTANTS
    Canvases,        \* what apps draw
    Nothing,         \* the buffers as begin() leaves them
    Pixel(_, _, _),  \* the colour [r, g, b] of a canvas at a line and column
    Width,           \* columns
    AddressLines,    \* numAddressLines
    Depths,          \* numPlanes it may be made with: within 1..6
    Layouts,         \* bytesPerElement the pins may lead to: within {1, 2, 4}
    TimerFreq, MinMinPeriod,
    TimerWord,       \* values of the timer's compare register
    Loads            \* timer ticks it may take to shift a scanline in

(* 1 << i *)
Worth(i) == <<1, 2, 4, 8, 16, 32, 64>>[i + 1]

RowPairs == Worth(AddressLines)
Lines    == 0..(2 * RowPairs - 1)
Columns  == 1..Width

Larger(a, b) == IF a > b THEN a ELSE b

(* _PM_begin: the period of plane 0 that gives at most 250 frames a second *)
MinPeriod(n) ==
    Larger(((TimerFreq \div 250) \div RowPairs) \div (Worth(n) - 1), MinMinPeriod)

ASSUME ConstantsAssumption ==
    /\ Nothing \notin Canvases
    /\ \A c \in Canvases, l \in Lines, x \in Columns :
         Pixel(c, l, x) \in [r : 0..31, g : 0..63, b : 0..31]
    /\ Width \in Nat \ {0} /\ AddressLines \in 1..5
    /\ Depths \subseteq 1..6 /\ Depths # {}
    /\ Layouts \subseteq {1, 2, 4} /\ Layouts # {}
    /\ TimerFreq \in Nat /\ MinMinPeriod \in Nat \ {0} /\ TimerWord \in Nat \ {0}
    /\ Loads \subseteq Nat /\ Loads # {}
    /\ \A n \in Depths : \A e \in Loads \union {MinPeriod(n)} : e * Worth(n - 1) < TimerWord

Channels == {"r", "g", "b"}
Pins     == Channels \X {"upper", "lower"}
Clock    == <<"clk", "clk">>
Wires    == Pins \union {Clock}
Bits     == 0..(AddressLines - 1)

VARIABLES
    plane, row, prevRow, activeBuffer, swapBuffers, bitZeroPeriod,
    screenData, numPlanes, bytesPerElement,   \* the rest of Protomatter_core
    port, addr, shifted, ticks,    \* RGB and clock pins, address pins, what is
                                   \* in the shift registers, the timer
    rPc, canvas, dest, at,         \* show(): its step, the canvas, the buffer
                                   \* being filled and the scanline
    showing,                       \* history: the canvas on the panel,
    light, lightOf, inTime         \* the light of the frame up to the next interrupt,
                                   \* its canvas, whether its loads were all in time

isr     == <<plane, row, prevRow, bitZeroPeriod>>
shape   == <<numPlanes, bytesPerElement>>
buffers == <<activeBuffer, swapBuffers, screenData, shape>>
pins    == <<port, addr, shifted, ticks>>
render  == <<rPc, canvas, dest, at>>
seen    == <<showing, light, lightOf, inTime>>
vars    == <<isr, buffers, pins, render, seen>>

BitAt(n, i)   == (n \div Worth(i)) % 2
Xor(W, A, B)  == {w \in W : (w \in A) # (w \in B)}
Address(r)    == {i \in Bits : BitAt(r, i) = 1}

------------------------------------------------------------------------------
UnstretchedBit(n, ch, p) ==
    IF ch = "g" THEN p + 6 - n ELSE IF n = 6 THEN p ELSE p + 5 - n

(* Which bit of a channel's 5 or 6 plane p of n shows: with six planes red *)
(* and blue are stretched by their highest bit, with fewer the low bits go *)
SourceBit(n, ch, p) ==
    IF n = 6
    THEN IF ch = "g" THEN p ELSE IF p = 0 THEN 4 ELSE p - 1
    ELSE IF ch = "g" THEN p + 6 - n ELSE p + 5 - n

Scanlines(n) == 0..(RowPairs * n - 1)

(* The RGB pins that are high for column x of scanline k                   *)
Element(n, c, k, x) ==
    LET line(pin) == (k \div n) + (IF pin[2] = "lower" THEN RowPairs ELSE 0)
    IN  {pin \in Pins :
           BitAt(Pixel(c, line(pin), x)[pin[1]], SourceBit(n, pin[1], k % n)) = 1}

(* _PM_convert_565_byte: every element is what changes on the port, with   *)
(* the clock going low again, except in the first one                      *)
ByteElement(n, c, k, x) ==
    IF x = 1 THEN Xor(Wires, Element(n, c, k, 1), {Clock}) \ {Clock}
    ELSE Xor(Wires, Element(n, c, k, x), Element(n, c, k, x - 1) \union {Clock})

(* _PM_convert_565_word and _long: the clock first, the pins or'ed in      *)
WideElement(n, c, k, x) ==
    IF x = 1 THEN Element(n, c, k, 1)
    ELSE {Clock} \union Xor(Wires, Element(n, c, k, x), Element(n, c, k, x - 1))

(* _PM_convert_565: the buffer a canvas is turned into                     *)
Buffers ==
    [n \in Depths |-> [b \in Layouts |-> [c \in Canvases |->
        [k \in Scanlines(n) |-> [x \in Columns |->
            IF b = 1 THEN ByteElement(n, c, k, x) ELSE WideElement(n, c, k, x)]]]]]

(* begin() leaves nothing but the clock in every element.                  *)
BlankFrame(n) == [k \in Scanlines(n) |-> [x \in Columns |-> {Clock}]]

Frame(c) ==
    IF c = Nothing THEN BlankFrame(numPlanes) ELSE Buffers[numPlanes][bytesPerElement][c]

------------------------------------------------------------------------------
(* A write to the toggle register; a rising clock shifts the pins in.      *)
Toggle(s, bits) ==
    LET now == Xor(Wires, s.port, bits)
    IN  [port |-> now,
         out  |-> IF Clock \in now /\ Clock \notin s.port
                  THEN Append(Tail(s.out), now \ {Clock}) ELSE s.out]

(* PEW: an element's pins change, and the clock ticks.                     *)
PEW(s, bits) == Toggle(Toggle(s, bits), {Clock})

(* blast_byte, _word and _long: PEW for every element, then all pins low   *)
BlastPlane(data) ==
    LET pew[x \in 0..Width] ==
            IF x = 0 THEN [port |-> port, out |-> shifted] ELSE PEW(pew[x - 1], data[x])
        last == pew[Width]
    IN  /\ shifted' = last.out
        /\ port' = last.port \ Wires

(* The address pins that differ between the prior row and this one toggle. *)
SetAddress ==
    IF plane = 0
    THEN /\ addr' = Xor(Bits, addr, Xor(Bits, Address(row), Address(prevRow)))
         /\ prevRow' = row
    ELSE UNCHANGED <<addr, prevRow>>

LastPlane == plane + 1 >= numPlanes

FrameEnds == LastPlane /\ row + 1 >= RowPairs

Advance ==
    /\ plane' = IF LastPlane THEN 0 ELSE plane + 1
    /\ row' = IF FrameEnds THEN 0 ELSE IF LastPlane THEN row + 1 ELSE row

SwapUnacknowledged ==
    IF FrameEnds /\ swapBuffers
    THEN activeBuffer' = 1 - activeBuffer /\ UNCHANGED swapBuffers
    ELSE UNCHANGED <<activeBuffer, swapBuffers>>

SwapIfDue ==
    IF FrameEnds /\ swapBuffers
    THEN activeBuffer' = 1 - activeBuffer /\ swapBuffers' = FALSE
    ELSE UNCHANGED <<activeBuffer, swapBuffers>>

TimerStart(period) == ticks' = period % TimerWord

FilteredWithoutFloor(elapsed) == (bitZeroPeriod * 7 + elapsed + 4) \div 8

(* The filter: seven parts of the period so far, one of the ticks it took  *)
(* to load the scanline just now, which the running counter shows          *)
Filtered(elapsed) == Larger((bitZeroPeriod * 7 + elapsed + 4) \div 8, MinPeriod(numPlanes))

Nudge(load) ==
    IF numPlanes > 1 /\ plane' = 0
    THEN bitZeroPeriod' = Filtered(load % (ticks' + 1))
    ELSE UNCHANGED bitZeroPeriod

Dark == [l \in Lines |-> [x \in Columns |-> [ch \in Channels |-> 0]]]

Half(l) == IF l < RowPairs THEN "upper" ELSE "lower"

(* The periods of plane 0 for which the panel stays lit: until the next    *)
(* interrupt, which the timer calls, but never before this one is over     *)
LitFor(load) == (Larger(ticks', load) + bitZeroPeriod - 1) \div bitZeroPeriod

FrameBegins == plane = 0 /\ row = 0

SoFar == IF FrameBegins THEN Dark ELSE light

(* The light the LEDs have given when the next interrupt puts them out: to *)
(* those of the two lines addressed whatever is latched adds to it         *)
Lit(load) ==
    [l \in Lines |-> [x \in Columns |-> [ch \in Channels |->
        SoFar[l][x][ch] +
        (IF Address(l % RowPairs) = addr' /\ <<ch, Half(l)>> \in shifted[x]
         THEN LitFor(load) ELSE 0)]]]

(* What shifting a scanline in within load ticks comes to                  *)
Takes(load) ==
    /\ Nudge(load)
    /\ light' = Lit(load)
    /\ inTime' = ((FrameBegins \/ inTime) /\ load <= ticks')

_PM_row_handler ==
    /\ SetAddress
    /\ Advance
    /\ SwapIfDue
    /\ TimerStart(bitZeroPeriod * Worth(plane))
    /\ BlastPlane(screenData[activeBuffer'][numPlanes * row' + plane'])
    /\ \E load \in Loads : Takes(load)
    /\ showing' = IF FrameEnds /\ swapBuffers THEN canvas ELSE showing
    /\ lightOf' = showing
    /\ UNCHANGED <<screenData, shape, render>>

------------------------------------------------------------------------------
ShowInPlace(c) ==
    /\ rPc = "idle"
    /\ rPc' = "convert" /\ canvas' = c /\ dest' = activeBuffer /\ at' = 0
    /\ UNCHANGED <<isr, buffers, pins, seen>>

(* show(): the converter takes the buffer that is off the panel when it    *)
(* starts, and fills it one scanline after the other                       *)
Show(c) ==
    /\ rPc = "idle"
    /\ rPc' = "convert" /\ canvas' = c /\ dest' = 1 - activeBuffer /\ at' = 0
    /\ UNCHANGED <<isr, buffers, pins, seen>>

ConvertScanline ==
    /\ rPc = "convert"
    /\ screenData' = [screenData EXCEPT ![dest][at] = Frame(canvas)[at]]
    /\ at' = at + 1
    /\ rPc' = IF at + 1 = RowPairs * numPlanes THEN "swap" ELSE "convert"
    /\ UNCHANGED <<isr, activeBuffer, swapBuffers, shape, pins, canvas, dest, seen>>

SwapWithoutWaiting ==
    /\ rPc = "swap"
    /\ swapBuffers' = TRUE /\ rPc' = "idle"
    /\ UNCHANGED <<isr, activeBuffer, screenData, shape, pins, canvas, dest, at, seen>>

_PM_swapbuffer_maybe ==
    /\ rPc = "swap"
    /\ swapBuffers' = TRUE /\ rPc' = "wait"
    /\ UNCHANGED <<isr, activeBuffer, screenData, shape, pins, canvas, dest, at, seen>>

SwapDone ==
    /\ rPc = "wait" /\ ~swapBuffers
    /\ rPc' = "idle"
    /\ UNCHANGED <<isr, buffers, pins, canvas, dest, at, seen>>

------------------------------------------------------------------------------
(* _PM_resetFM6126A leaves the second register's mask in the shift         *)
(* registers; it is latched once before the first scanline                 *)
Residue == [x \in Columns |-> IF (x - 1) % 16 = 9 THEN Pins ELSE {}]

(* _PM_resume: the counters roll over at the first interrupt               *)
Init ==
    /\ numPlanes \in Depths /\ bytesPerElement \in Layouts
    /\ plane = numPlanes - 1 /\ row = RowPairs - 1 /\ prevRow = RowPairs - 2
    /\ addr = Address(RowPairs - 2)
    /\ swapBuffers = FALSE /\ ticks = 1000 % TimerWord
    /\ activeBuffer = 0 /\ bitZeroPeriod = MinPeriod(numPlanes)
    /\ screenData = [b \in {0, 1} |-> BlankFrame(numPlanes)]
    /\ port = {} /\ shifted = Residue
    /\ rPc = "idle" /\ canvas = Nothing /\ dest = 1 /\ at = 0
    /\ showing = Nothing /\ light = Dark /\ lightOf = Nothing /\ inTime = TRUE

Render == (\E c \in Canvases : Show(c)) \/ ConvertScanline \/ _PM_swapbuffer_maybe \/ SwapDone

Next == _PM_row_handler \/ Render

Spec == Init /\ [][Next]_vars

(* The timer fires for ever (nothing but its interrupt moves plane and     *)
(* row), and the loop goes on inside show(); nothing makes an app draw     *)
FairSpec ==
    /\ Spec
    /\ WF_<<plane, row>>(Advance)
    /\ WF_vars(ConvertScanline \/ _PM_swapbuffer_maybe \/ SwapDone)

------------------------------------------------------------------------------
TypeOK ==
    /\ numPlanes \in Depths /\ bytesPerElement \in Layouts
    /\ plane \in 0..(numPlanes - 1) /\ row \in 0..(RowPairs - 1)
    /\ prevRow \in 0..(RowPairs - 1)
    /\ activeBuffer \in {0, 1} /\ swapBuffers \in BOOLEAN /\ bitZeroPeriod \in Nat
    /\ screenData \in [{0, 1} -> [Scanlines(numPlanes) -> [Columns -> SUBSET Wires]]]
    /\ rPc \in {"idle", "convert", "swap", "wait"}
    /\ canvas \in Canvases \union {Nothing} /\ showing \in Canvases \union {Nothing}
    /\ dest \in {0, 1} /\ at \in 0..(RowPairs * numPlanes) /\ inTime \in BOOLEAN

(* No app draws on what the panel shows: the interrupt never reads the     *)
(* buffer that show() is filling, however the two interleave.              *)
NeverDrawnOn == rPc \in {"convert", "swap"} => dest # activeBuffer /\ ~swapBuffers

(* The buffer on the panel holds one canvas from its first scanline to its *)
(* last, and after show() it is the canvas that was shown.                 *)
WholeFrame ==
    /\ screenData[activeBuffer] = Frame(showing)
    /\ rPc = "idle" => showing = canvas

(* The panel never shows a frame that is half one canvas and half another. *)
NeverTorn == NeverDrawnOn /\ WholeFrame

(* One slow scanline cannot stretch the planes out of proportion: the      *)
(* period stays within the floor and the longest load, and its longest     *)
(* multiple fits the timer's register.                                     *)
PeriodFits ==
    /\ bitZeroPeriod >= MinPeriod(numPlanes)
    /\ \E e \in Loads \union {MinPeriod(numPlanes)} : bitZeroPeriod <= e
    /\ bitZeroPeriod * Worth(numPlanes - 1) < TimerWord

(* The light an LED has given over a frame: its value in the picture if    *)
(* every scanline was loaded in time, or else that much at least; one that *)
(* is dark in the picture stays dark.                                      *)
Shines(v, exact) == IF exact \/ v = 0 THEN {v} ELSE {w \in Nat : w >= v}

Shows(lamps, picture, exact) ==
    \A l \in Lines : \A x \in Columns : \A ch \in Channels :
        lamps[l][x][ch] \in Shines(picture[l][x][ch], exact)

(* What the eye sees: over a frame each LED has given light by the value   *)
(* of its colour in the canvas, that is once per plane, twice as long for  *)
(* each, on its own line and column, whatever was drawn meanwhile; in a    *)
(* frame with a load longer than a plane's period, no less than that.      *)
(* Fewer than six planes show the value's top bits; six show all of green, *)
(* and stretch red and blue so that the brightest of them is as bright.    *)
Level(n, ch, v) ==
    IF ch = "g" THEN v \div Worth(6 - n)
    ELSE IF n = 6 THEN 2 * v + v \div 16 ELSE v \div Worth(5 - n)

Picture ==
    [n \in Depths |-> [c \in Canvases |->
        [l \in Lines |-> [x \in Columns |-> [ch \in Channels |->
            Level(n, ch, Pixel(c, l, x)[ch])]]]]]

(* What resetting the panel leaves in the shift registers is latched by    *)
(* the first interrupt, and shows for once until the second.               *)
Flash ==
    [l \in Lines |-> [x \in Columns |-> [ch \in Channels |->
        IF l % RowPairs = (IF numPlanes = 1 THEN RowPairs - 1 ELSE RowPairs - 2)
           /\ Residue[x] # {}
        THEN Worth(numPlanes - 1) ELSE 0]]]

FrameShowsCanvas ==
    FrameBegins =>
        IF lightOf = Nothing THEN Shows(light, Dark, inTime) \/ Shows(light, Flash, inTime)
        ELSE Shows(light, Picture[numPlanes][lightOf], inTime)

(* show() returns in the end: the loop, which serves requests too, does    *)
(* not wait for ever for the interrupt to change the buffers.              *)
ShowReturns == rPc # "idle" ~> rPc = "idle"

(* The driver is a double-buffered display, provided that the buffer on    *)
(* the panel reads as a canvas from end to end.                            *)
Shown == IF screenData[activeBuffer] = Frame(showing) THEN showing ELSE "torn"

Display == INSTANCE DoubleBuffer WITH
    Frames <- Canvases, Nothing <- Nothing,
    front <- Shown,
    drawn <- IF rPc = "idle" \/ (rPc = "wait" /\ ~swapBuffers) THEN Nothing ELSE canvas

ObeysDoubleBuffer == Display!Spec
================================================================================
